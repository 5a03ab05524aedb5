------------------------------ MODULE Runtime ------------------------------
(***************************************************************************)
(* The trusted runtime of one window's page: how callers share an          *)
(* installation (src/plugin/src/runtime/manager.rs), what its scripts do   *)
(* in the page (runtime/mod.rs, installer.js, bootstrap.js), and the       *)
(* lives of the window and of its documents meanwhile.                     *)
(*                                                                         *)
(* A script may run late, in whichever document the window then shows; one *)
(* that is lost stays in scripts and never runs.  The transport runs it at *)
(* most once (see Bridge).  Versions, the bundle, origins and URLs always  *)
(* match here.                                                             *)
(***************************************************************************)
EXTENDS Naturals, FiniteSets

CONSTANTS
  Invocation,  \* calls of execute_authorized
  Abandoned,   \* the caller of a script that nobody waits for any more
  MaxLives,    \* bound: windows that have the label, one after another
  MaxEpochs    \* bound: page epochs drawn

ASSUME RuntimeConstants ==
  Abandoned \notin Invocation /\ MaxLives \in Nat \ {0} /\ MaxEpochs \in Nat \ {0}

Lives == 1..MaxLives
Epochs == 1..MaxEpochs
Flights == Lives    \* a destroyed window's flight is forgotten; named by the life it is made in

(* runtimeId distinguishes the installations that were tried.              *)
Contexts == [life: Lives, epoch: Epochs, runtimeId: Nat]
NoContext == [life |-> 0, epoch |-> 0, runtimeId |-> 0]

(* context is that of the runtime, NoContext if none is installed; clean,  *)
(* whether what it started was confirmed to be cleaned up.                 *)
Pages == [life: Lives, epoch: Epochs, suspended: BOOLEAN,
          context: Contexts \cup {NoContext}, disposed: BOOLEAN,
          clean: {"yes", "pending", "failed"}]

(* by is how the caller came to the context: it installed or found it.     *)
Scripts == [caller: Invocation \cup {Abandoned}, kind: {"probe", "install", "dispatch"},
            context: Contexts \cup {NoContext}, by: {"nothing", "installed", "found"}]

VARIABLES
  life,      \* windowInstanceId of the window (identity.rs)
  epoch,     \* the page epochs drawn so far
  document,  \* the document that the window shows
  flight,    \* flights[window_id]: an InstallationFlight, or 0
  flights,   \* of each flight its lock's holder and failed_for
  caller,    \* what each caller is doing
  scripts,   \* scripts on their way to the page
  tried,     \* history: the installations tried, also those that were too late to be sent
  installed, \* history: the contexts that became runtimes
  ran        \* history: the operations that ran, and where

runtimeVars ==
  <<life, epoch, document, flight, flights, caller, scripts, tried, installed, ran>>

(* bound is the complete context that the arguments name, NoContext if     *)
(* none; saw holds the page as the answer to a probe described it.         *)
NewInvocation == [at |-> "new", life |-> 0, flight |-> 0, bound |-> NoContext,
                  context |-> NoContext, saw |-> {}, answer |-> "none"]

Runs == [context: Contexts, by: {"installed", "found"}, epoch: Epochs, life: Lives]

-----------------------------------------------------------------------------
(* The page                                                                *)

Ready(p) ==
  /\ p.context # NoContext /\ ~p.disposed
  /\ ~p.suspended /\ p.context.epoch = p.epoch

(* install_script refuses a ready runtime with another context.            *)
MayInstall(p, c) ==
  /\ ~p.suspended /\ p.epoch = c.epoch
  /\ ~Ready(p)
  /\ p.context # NoContext => p.clean = "yes"

(* runtime.dispatch refuses every packet that is not for it.               *)
Dispatches(p, c) == Ready(p) /\ p.context = c

(* The answer of a script, for a caller that still waits.                  *)
Answer(s, answer, saw) ==
  caller' = IF s.caller = Abandoned THEN caller
            ELSE [caller EXCEPT ![s.caller].answer = answer, ![s.caller].saw = saw]

RunProbe(s) ==
  /\ s.kind = "probe"
  /\ Answer(s, "seen", {document})
  /\ UNCHANGED <<document, installed, ran>>

RunInstall(s) ==
  /\ s.kind = "install"
  /\ IF MayInstall(document, s.context)
       THEN /\ document' = [document EXCEPT !.context = s.context,
                                            !.disposed = FALSE, !.clean = "yes"]
            /\ installed' = installed \cup {s.context}
            /\ Answer(s, "ready", {})
       ELSE /\ Answer(s, "refused", {})
            /\ UNCHANGED <<document, installed>>
  /\ UNCHANGED ran

RunDispatch(s) ==
  /\ s.kind = "dispatch"
  /\ IF Dispatches(document, s.context)
       THEN /\ ran' = ran \cup {[context |-> s.context, by |-> s.by,
                                 epoch |-> document.epoch, life |-> document.life]}
            /\ Answer(s, "done", {})
       ELSE Answer(s, "refused", {}) /\ UNCHANGED ran
  /\ UNCHANGED <<document, installed>>

RunScript(s) ==
  /\ s \in scripts /\ scripts' = scripts \ {s}
  /\ RunProbe(s) \/ RunInstall(s) \/ RunDispatch(s)
  /\ UNCHANGED <<life, epoch, flight, flights, tried>>

Fresh(l) == [life |-> l, epoch |-> epoch + 1, suspended |-> FALSE,
             context |-> NoContext, disposed |-> FALSE, clean |-> "yes"]

NewDocument ==
  /\ epoch < MaxEpochs
  /\ epoch' = epoch + 1 /\ document' = Fresh(life)
  /\ UNCHANGED <<life, flight, flights, caller, scripts, tried, installed, ran>>

(* pagehide disposes of the runtime; its modules clean up at once, later   *)
(* or not at all.                                                          *)
HidePage ==
  /\ ~document.suspended
  /\ \E clean \in {"yes", "pending", "failed"} :
       document' = IF document.context = NoContext \/ document.disposed
                 THEN [document EXCEPT !.suspended = TRUE]
                 ELSE [document EXCEPT !.suspended = TRUE, !.disposed = TRUE, !.clean = clean]
  /\ UNCHANGED <<life, epoch, flight, flights, caller, scripts, tried, installed, ran>>

CleanupEnds ==
  /\ document.clean = "pending"
  /\ \E clean \in {"yes", "failed"} : document' = [document EXCEPT !.clean = clean]
  /\ UNCHANGED <<life, epoch, flight, flights, caller, scripts, tried, installed, ran>>

(* The document comes back from the page cache under a new epoch.          *)
ShowPage ==
  /\ document.suspended /\ epoch < MaxEpochs
  /\ epoch' = epoch + 1
  /\ document' = [document EXCEPT !.suspended = FALSE, !.epoch = epoch + 1]
  /\ UNCHANGED <<life, flight, flights, caller, scripts, tried, installed, ran>>

(* The window is destroyed, and another takes its label.                   *)
RecreateWindow ==
  /\ life < MaxLives /\ epoch < MaxEpochs
  /\ life' = life + 1 /\ flight' = 0
  /\ epoch' = epoch + 1 /\ document' = Fresh(life + 1)
  /\ UNCHANGED <<flights, caller, scripts, tried, installed, ran>>

-----------------------------------------------------------------------------
(* The callers                                                             *)

(* The target is looked up once.  A caller that was given a context may    *)
(* come again with it (bound).                                             *)
Enter(c, bound) ==
  /\ \/ caller[c].at = "new" /\ bound = NoContext
     \/ caller[c].at = "idle" /\ bound # NoContext /\ bound = caller[c].context
  /\ caller' = [caller EXCEPT ![c] =
       [NewInvocation EXCEPT !.at = "target", !.life = life, !.bound = bound]]
  /\ UNCHANGED <<life, epoch, document, flight, flights, scripts, tried, installed, ran>>

Send(c, kind, context, by) ==
  scripts' = scripts \cup {[caller |-> c, kind |-> kind, context |-> context, by |-> by]}

(* c goes on with what it knows, and waits for the next answer.            *)
Goto(c, at, context) ==
  caller' = [caller EXCEPT ![c].at = at, ![c].context = context,
                           ![c].answer = "none", ![c].saw = {}]

(* A complete context may not install anything: it takes no flight.        *)
ProbeBound(c) ==
  /\ caller[c].at = "target" /\ caller[c].bound # NoContext
  /\ Goto(c, "probe", NoContext) /\ Send(c, "probe", NoContext, "nothing")
  /\ UNCHANGED <<life, epoch, document, flight, flights, tried, installed, ran>>

(* The flight of the label, made if there is none.                         *)
JoinFlight(c) ==
  /\ caller[c].at = "target" /\ caller[c].bound = NoContext
  /\ flight' = IF flight # 0 THEN flight ELSE life
  /\ caller' = [caller EXCEPT ![c].at = "waiting", ![c].flight = flight']
  /\ UNCHANGED <<life, epoch, document, flights, scripts, tried, installed, ran>>

LockFlight(c) ==
  /\ caller[c].at = "waiting" /\ flights[caller[c].flight].holder = {}
  /\ flights' = [flights EXCEPT ![caller[c].flight].holder = {c}]
  /\ Goto(c, "probe", NoContext) /\ Send(c, "probe", NoContext, "nothing")
  /\ UNCHANGED <<life, epoch, document, flight, tried, installed, ran>>

(* Every return drops the guard of the flight.                             *)
Unlocked(c) == [f \in Flights |-> [flights[f] EXCEPT !.holder = @ \ {c}]]

(* A successful one clears failed_for.                                     *)
Cleared(c) ==
  [f \in Flights |-> IF f = caller[c].flight THEN [Unlocked(c)[f] EXCEPT !.failedFor = {}]
                     ELSE flights[f]]

(* Only a context that was confirmed is known to the caller afterwards.    *)
Return(c) ==
  caller' = [caller EXCEPT ![c] =
    [NewInvocation EXCEPT !.at = "idle",
       !.context = IF caller[c].at = "dispatch" THEN caller[c].context ELSE caller[c].bound]]

(* confirm_existing: the runtime is of this window and document.           *)
Confirms(c, p) ==
  Ready(p) /\ p.context.life = caller[c].life /\ p.context.epoch = p.epoch

SeenReady(c) ==
  \E p \in caller[c].saw :
    /\ Confirms(c, p) /\ caller[c].bound \in {NoContext, p.context}
    /\ flights' = Cleared(c)
    /\ Goto(c, "dispatch", p.context) /\ Send(c, "dispatch", p.context, "found")
    /\ UNCHANGED <<life, epoch, document, flight, tried, installed, ran>>

Key(c, p) == [life |-> caller[c].life, epoch |-> p.epoch]

MayTry(c, p) ==
  /\ ~p.suspended /\ ~Ready(p) /\ caller[c].bound = NoContext
  /\ Key(c, p) \notin flights[caller[c].flight].failedFor

Attempt(c, p) ==
  [life |-> caller[c].life, epoch |-> p.epoch, runtimeId |-> Cardinality(tried) + 1]

Tried(c, p) == tried' = tried \cup {[flight |-> caller[c].flight, context |-> Attempt(c, p)]}

SendInstall(c, p) ==
  Goto(c, "install", Attempt(c, p)) /\ Send(c, "install", Attempt(c, p), "nothing")

(* Mutant: failed_for is set when the attempt has failed, not before it.   *)
TryInstallUnnoted(c) ==
  \E p \in caller[c].saw :
    /\ MayTry(c, p) /\ Tried(c, p) /\ SendInstall(c, p)
    /\ UNCHANGED <<life, epoch, document, flight, flights, installed, ran>>

Noted(c, p) == [flights EXCEPT ![caller[c].flight].failedFor = {Key(c, p)}]

TryInstall(c) ==
  \E p \in caller[c].saw :
    /\ MayTry(c, p) /\ Tried(c, p) /\ SendInstall(c, p)
    /\ flights' = Noted(c, p)
    /\ UNCHANGED <<life, epoch, document, flight, installed, ran>>

(* The deadline has passed when the script is about to be sent: the        *)
(* document is refused from now on though nothing was sent.                *)
TryTooLate(c) ==
  \E p \in caller[c].saw :
    /\ MayTry(c, p) /\ Tried(c, p)
    /\ Return(c)
    /\ flights' = [Noted(c, p) EXCEPT ![caller[c].flight].holder = @ \ {c}]
    /\ UNCHANGED <<life, epoch, document, flight, scripts, installed, ran>>

(* Suspended, stale, of another window, or tried before in this document.  *)
SeenUnusable(c) ==
  \E p \in caller[c].saw :
    /\ ~MayTry(c, p)
    /\ ~(Confirms(c, p) /\ caller[c].bound \in {NoContext, p.context})
    /\ Return(c) /\ flights' = Unlocked(c)
    /\ UNCHANGED <<life, epoch, document, flight, scripts, tried, installed, ran>>

(* Mutant: the window may have been replaced while the page answered.      *)
SameWindowAnyway(c) == TRUE

SameWindow(c) == life = caller[c].life

Installed(c) ==
  /\ caller[c].at = "install" /\ caller[c].answer = "ready" /\ SameWindow(c)
  /\ flights' = Cleared(c)
  /\ Goto(c, "dispatch", caller[c].context)
  /\ Send(c, "dispatch", caller[c].context, "installed")
  /\ UNCHANGED <<life, epoch, document, flight, tried, installed, ran>>

InstallRejected(c) ==
  /\ caller[c].at = "install"
  /\ caller[c].answer = "refused" \/ (caller[c].answer = "ready" /\ ~SameWindow(c))
  /\ Return(c) /\ flights' = Unlocked(c)
  /\ UNCHANGED <<life, epoch, document, flight, scripts, tried, installed, ran>>

(* The dispatch is never tried again.                                      *)
Dispatched(c) ==
  /\ caller[c].at = "dispatch" /\ caller[c].answer \in {"done", "refused"}
  /\ Return(c)
  /\ UNCHANGED <<life, epoch, document, flight, flights, scripts, tried, installed, ran>>

(* The deadline passes wherever the caller waits; its script stays out (a  *)
(* probe that nobody hears changes nothing).                               *)
Expire(c) ==
  /\ caller[c].at \notin {"new", "idle"} /\ caller[c].answer = "none"
  /\ Return(c) /\ flights' = Unlocked(c)
  /\ scripts' = {IF s.caller = c THEN [s EXCEPT !.caller = Abandoned] ELSE s :
                   s \in {t \in scripts : t.caller # c \/ t.kind # "probe"}}
  /\ UNCHANGED <<life, epoch, document, flight, tried, installed, ran>>

-----------------------------------------------------------------------------
RuntimeInit ==
  /\ life = 1 /\ epoch = 1
  /\ document = [life |-> 1, epoch |-> 1, suspended |-> FALSE, context |-> NoContext,
                 disposed |-> FALSE, clean |-> "yes"]
  /\ flight = 0
  /\ flights = [f \in Flights |-> [holder |-> {}, failedFor |-> {}]]
  /\ caller = [c \in Invocation |-> NewInvocation]
  /\ scripts = {} /\ tried = {} /\ installed = {} /\ ran = {}

Environment ==
  \/ NewDocument \/ HidePage \/ CleanupEnds \/ ShowPage \/ RecreateWindow

InvocationStep(c) ==
  \/ Enter(c, NoContext) \/ Enter(c, caller[c].context)
  \/ ProbeBound(c) \/ JoinFlight(c) \/ LockFlight(c)
  \/ SeenReady(c) \/ TryInstall(c) \/ TryTooLate(c) \/ SeenUnusable(c)
  \/ Installed(c) \/ InstallRejected(c) \/ Dispatched(c) \/ Expire(c)

RuntimeNext ==
  \/ Environment
  \/ \E s \in scripts : RunScript(s)
  \/ \E c \in Invocation : InvocationStep(c)

RuntimeSpec == RuntimeInit /\ [][RuntimeNext]_runtimeVars

-----------------------------------------------------------------------------
(* Each document gets at most one runtime in each of its epochs, and a     *)
(* flight tries at most one installation there for a window, whatever      *)
(* answers are lost and whoever came too late to send one, unless a caller *)
(* that looked up a window that is gone tried in between                   *)
(* (src/plugin/src/runtime/manager.rs:217).                                *)
AcceptedOnce == \A a, b \in installed : a.epoch = b.epoch => a = b

Excused(a) ==
  \E c \in tried : /\ c.flight = a.flight /\ c.context.epoch = a.context.epoch
                   /\ c.context.life # a.context.life

TriedOnce ==
  \A a, b \in tried :
    (a.flight = b.flight /\ a.context.epoch = b.context.epoch) =>
      a = b \/ Excused(a)

OneRuntimePerDocument == AcceptedOnce /\ TriedOnce

(* An operation runs only in the epoch for which its context was given,    *)
(* and one whose caller installed the runtime only in the window that this *)
(* caller looked up (manager.rs:235, installer.js, dispatch).              *)
RunsWhereConfirmed ==
  \A r \in ran : /\ r.epoch = r.context.epoch
                 /\ r.by = "installed" => r.life = r.context.life
=============================================================================
