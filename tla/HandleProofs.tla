---------------------------- MODULE HandleProofs ----------------------------
(***************************************************************************)
(* Theorems about what is held of a document or a process.  Of Runtime, for *)
(* any callers, windows and documents: a document has one runtime in each  *)
(* of its epochs, a flight tries one installation there, and what runs,    *)
(* runs where it was confirmed.  Of Discovery, for any processes, clients, *)
(* directories and ports: all that a client sends reaches the process that *)
(* discovery chose for it, and the choice heeds the records near the       *)
(* client.  Of Snapshots, for any calls and any limit of directories: what *)
(* an entry, a call and a directory hold is of one snapshot each, and what *)
(* was written stays until it is evicted, whatever writes and removals     *)
(* fail.                                                                   *)
(*                                                                         *)
(* The arguments.  A document that took an installation is ready until it  *)
(* is hidden, and comes back under a new epoch, so it never takes another. *)
(* failed_for speaks of the last attempt only, and is cleared; but whoever *)
(* holds the flight has asked the page after every earlier attempt of the  *)
(* flight was made.  What clears or replaces the mark of an attempt in this *)
(* document is therefore a runtime that is ready in it, or an attempt for  *)
(* another window.                                                         *)
(*                                                                         *)
(* A client's pin never changes once it is a process, and a call is queued *)
(* only on a connection whose other end is the pin: the queue of a         *)
(* connection is dropped before the next is dialled, and a new one is used *)
(* for calls only after it was verified.  As for the choice, every record  *)
(* that was read leaves evidence: a candidate, one nearby, a stale         *)
(* application or a refusal; only with evidence do others count, and then  *)
(* only those of the stale applications.  Of the processes, their ports and *)
(* files nothing is needed but their types.                                *)
(*                                                                         *)
(* Every snapshot has a number and every push a generation of its own, and *)
(* the entry is that of its generation until a background push moves the   *)
(* generation on.  The directories beyond the limit belong to calls that   *)
(* have yet to prune, or are being removed.                                *)
(***************************************************************************)
EXTENDS Runtime, Discovery, Snapshots, FiniteSetTheorems, TLAPS

-----------------------------------------------------------------------------
(* Runtime: the flights of a window                                        *)

CallerSteps == {"new", "idle", "target", "waiting", "probe", "install", "dispatch"}

Callers == [at: CallerSteps, life: 0..MaxLives, flight: 0..MaxLives,
            bound: Contexts \cup {NoContext}, context: Contexts \cup {NoContext},
            saw: SUBSET Pages, answer: {"none", "seen", "ready", "refused", "done"}]

Keys == [life: Lives, epoch: Epochs]

RuntimeTypeOK ==
  /\ life \in Lives /\ epoch \in Epochs
  /\ document \in Pages
  /\ flight \in {0, life}
  /\ flights \in [Flights -> [holder: SUBSET Invocation, failedFor: SUBSET Keys]]
  /\ caller \in [Invocation -> Callers]
  /\ scripts \subseteq Scripts
  /\ tried \subseteq [flight: Flights, context: Contexts] /\ IsFiniteSet(tried)
  /\ installed \subseteq Contexts
  /\ ran \subseteq Runs

(* The document is the window's last; what was installed in its epoch is   *)
(* its runtime, the only one, ready unless the page is hidden.             *)
DocumentOK ==
  /\ document.epoch = epoch /\ document.life = life
  /\ document.context \in installed \cup {NoContext}
  /\ \A a, b \in installed : a.epoch = b.epoch => a = b
  /\ \A a \in installed :
       /\ a.epoch <= epoch
       /\ a.epoch = epoch =>
            /\ document.context = a
            /\ document.suspended \/ ~document.disposed

(* A script that is awaited is the one its caller waits for, and the       *)
(* caller's only one; what an installer dispatches is for its own window.  *)
ScriptsOK ==
  /\ \A s \in scripts :
       /\ s.kind = "dispatch" => (s.context # NoContext /\ s.by # "nothing")
       /\ s.kind = "install" => s.context # NoContext
       /\ s.by = "installed" =>
            /\ s.context.epoch <= epoch
            /\ s.context.epoch = epoch => s.context.life = life
       /\ s.caller # Abandoned =>
            /\ caller[s.caller].at = s.kind /\ caller[s.caller].answer = "none"
            /\ caller[s.caller].context = s.context
  /\ \A s, t \in scripts : (s.caller = t.caller /\ s.caller # Abandoned) => s = t

Holds(c) == caller[c].at \in {"probe", "install"} /\ caller[c].bound = NoContext

(* What a caller knows: the page as it was, and the attempt it made.       *)
CallerOK(c) ==
  /\ caller[c].at \notin {"new", "idle"} => caller[c].life \in Lives
  /\ caller[c].at \in {"waiting", "install"} => caller[c].bound = NoContext
  /\ caller[c].bound # NoContext => caller[c].flight = 0
  /\ (caller[c].at = "waiting" \/ Holds(c)) => caller[c].flight \in Flights
  /\ Holds(c) => flights[caller[c].flight].holder = {c}
  /\ caller[c].saw # {} => (caller[c].at = "probe" /\ caller[c].answer = "seen")
  /\ \A p \in caller[c].saw : p.epoch <= epoch /\ p.context \in installed \cup {NoContext}
  /\ caller[c].at = "install" =>
       /\ caller[c].context # NoContext /\ caller[c].context.life = caller[c].life
       /\ caller[c].context.epoch <= epoch
       /\ caller[c].answer = "ready" => caller[c].context \in installed

KeyOf(a) == [life |-> a.context.life, epoch |-> a.context.epoch]

Marked(a) == KeyOf(a) \in flights[a.flight].failedFor \/ Excused(a)

(* An attempt is marked as long as another might follow it.                *)
MarkOK ==
  \A a \in tried :
    /\ a.context.epoch <= epoch
    /\ \/ Marked(a) \/ a.context.epoch < epoch
       \/ \E i \in installed : i.epoch = a.context.epoch

(* The holder of a flight asked the page after all attempts of the flight; *)
(* where it saw that it may try, those of that document are marked.        *)
HolderOK(c) ==
  \A a \in tried :
    a.flight = caller[c].flight =>
      /\ \A p \in caller[c].saw :
           /\ a.context.epoch <= p.epoch
           /\ (~p.suspended /\ ~Ready(p) /\ a.context.epoch = p.epoch) => Marked(a)
      /\ caller[c].at = "install" => a.context.epoch <= caller[c].context.epoch

RuntimeIInv ==
  /\ RuntimeTypeOK /\ DocumentOK /\ ScriptsOK /\ MarkOK
  /\ \A c \in Invocation : CallerOK(c)
  /\ \A c \in Invocation : Holds(c) => HolderOK(c)
  /\ TriedOnce /\ RunsWhereConfirmed

-----------------------------------------------------------------------------
LEMMA FirstCall ==
  /\ NewInvocation \in Callers
  /\ NewInvocation.at = "new" /\ NewInvocation.flight = 0 /\ NewInvocation.saw = {}
  /\ NewInvocation.bound = NoContext
BY RuntimeConstants DEF NewInvocation, Callers, CallerSteps

LEMMA InitRuntime == RuntimeInit => RuntimeIInv
<1> SUFFICES ASSUME RuntimeInit PROVE RuntimeIInv
  OBVIOUS
<1> USE RuntimeConstants DEF RuntimeInit
<1>1. RuntimeTypeOK
  <2>1. 1 \in Lives /\ 1 \in Epochs
    BY DEF Lives, Epochs
  <2>2. document \in Pages
    BY <2>1 DEF Pages
  <2>3. flights \in [Flights -> [holder: SUBSET Invocation, failedFor: SUBSET Keys]]
    OBVIOUS
  <2>4. NewInvocation \in Callers
    BY FirstCall
  <2>5. caller \in [Invocation -> Callers]
    BY <2>4
  <2>6. IsFiniteSet(tried)
    BY FS_EmptySet
  <2> QED BY <2>1, <2>2, <2>3, <2>5, <2>6 DEF RuntimeTypeOK
<1>2. DocumentOK
  BY DEF DocumentOK
<1>3. ScriptsOK /\ MarkOK /\ TriedOnce /\ RunsWhereConfirmed
  BY DEF ScriptsOK, MarkOK, TriedOnce, RunsWhereConfirmed
<1>4. \A c \in Invocation : CallerOK(c) /\ ~Holds(c)
  BY FirstCall DEF CallerOK, Holds
<1> QED BY <1>1, <1>2, <1>3, <1>4 DEF RuntimeIInv

(* The marks and the attempts, where a step makes no attempt and clears no *)
(* mark.                                                                   *)
NoAttempt ==
  /\ tried' = tried
  /\ \A f \in Flights : flights'[f].failedFor = flights[f].failedFor
  /\ installed \subseteq installed' /\ epoch' \in {epoch, epoch + 1}

LEMMA MarksStay ==
  ASSUME RuntimeIInv, NoAttempt
  PROVE  MarkOK' /\ TriedOnce' /\ (\A a \in tried : Marked(a) => Marked(a)')
<1> USE RuntimeConstants
<1>1. epoch \in Nat /\ \A a \in tried : a.context.epoch \in Nat /\ a.flight \in Flights
  BY DEF RuntimeIInv, RuntimeTypeOK, Contexts, Epochs, Lives
<1>2. \A a \in tried : Excused(a)' <=> Excused(a)
  BY DEF NoAttempt, Excused
<1>3. \A a \in tried : Marked(a)' <=> Marked(a)
  BY <1>1, <1>2 DEF NoAttempt, Marked, KeyOf
<1>4. MarkOK'
  BY <1>1, <1>3 DEF RuntimeIInv, NoAttempt, MarkOK
<1>5. TriedOnce'
  BY <1>2 DEF RuntimeIInv, NoAttempt, TriedOnce
<1> QED BY <1>3, <1>4, <1>5

(* What happens to a window and its document only.                         *)
LEMMA EnvironmentStep ==
  ASSUME RuntimeIInv, Environment
  PROVE  RuntimeIInv'
<1> USE RuntimeConstants
<1>0. UNCHANGED <<flights, caller, scripts, tried, installed, ran>>
  BY DEF Environment, NewDocument, HidePage, CleanupEnds, ShowPage, RecreateWindow
<1>1. epoch \in Nat /\ life \in Nat /\ document \in Pages
  BY DEF RuntimeIInv, RuntimeTypeOK, Epochs, Lives
<1>2. /\ life' \in Lives /\ epoch' \in Epochs /\ flight' \in {0, life'}
      /\ document' \in Pages /\ document'.epoch = epoch' /\ document'.life = life'
  <2>1. CASE NewDocument
    BY <2>1, <1>1 DEF NewDocument, Fresh, Pages, RuntimeIInv, RuntimeTypeOK, DocumentOK, Epochs, Lives
  <2>2. CASE HidePage
    <3>1. PICK clean \in {"yes", "pending", "failed"} :
            \/ document' = [document EXCEPT !.suspended = TRUE]
            \/ document' = [document EXCEPT !.suspended = TRUE, !.disposed = TRUE, !.clean = clean]
      BY <2>2 DEF HidePage
    <3>2. document' \in Pages /\ document'.epoch = document.epoch /\ document'.life = document.life
      BY <1>1, <3>1 DEF Pages
    <3> QED BY <2>2, <3>2 DEF HidePage, RuntimeIInv, RuntimeTypeOK, DocumentOK
  <2>3. CASE CleanupEnds
    BY <2>3, <1>1 DEF CleanupEnds, Pages, RuntimeIInv, RuntimeTypeOK, DocumentOK
  <2>4. CASE ShowPage
    <3>1. epoch + 1 \in Epochs /\ life \in Lives /\ document.life = life
      BY <2>4 DEF ShowPage, RuntimeIInv, RuntimeTypeOK, DocumentOK, Epochs
    <3> QED BY <2>4, <3>1, <1>1 DEF ShowPage, Pages, RuntimeIInv, RuntimeTypeOK
  <2>5. CASE RecreateWindow
    BY <2>5, <1>1 DEF RecreateWindow, Fresh, Pages, RuntimeIInv, RuntimeTypeOK, DocumentOK, Epochs, Lives
  <2> QED BY <2>1, <2>2, <2>3, <2>4, <2>5 DEF Environment
<1>3. \/ /\ epoch' = epoch /\ life' = life /\ document'.context = document.context
         /\ document'.disposed = document.disposed /\ document'.suspended = document.suspended
      \/ /\ epoch' = epoch /\ life' = life /\ document'.context = document.context
         /\ document'.suspended
      \/ epoch' = epoch + 1 /\ document'.context \in {document.context, NoContext}
  <2>1. CASE NewDocument \/ RecreateWindow
    BY <2>1 DEF NewDocument, RecreateWindow, Fresh
  <2>2. CASE HidePage
    <3>1. /\ UNCHANGED <<life, epoch>>
          /\ document'.context = document.context /\ document'.suspended
      BY <2>2, <1>1 DEF HidePage, Pages
    <3> QED BY <3>1
  <2>3. CASE CleanupEnds
    BY <2>3, <1>1 DEF CleanupEnds, Pages
  <2>4. CASE ShowPage
    BY <2>4, <1>1 DEF ShowPage, Pages
  <2> QED BY <2>1, <2>2, <2>3, <2>4 DEF Environment
<1>4. RuntimeTypeOK'
  BY <1>0, <1>2 DEF RuntimeIInv, RuntimeTypeOK
<1>5. DocumentOK'
  <2>1. \A a \in installed : a.epoch \in Nat
    BY DEF RuntimeIInv, RuntimeTypeOK, Contexts, Epochs
  <2> QED BY <1>0, <1>1, <1>2, <1>3, <2>1 DEF RuntimeIInv, DocumentOK
<1>6. (epoch' = epoch /\ life' = life) \/ epoch' = epoch + 1
  BY <1>3
<1>7. ScriptsOK'
  <2>1. \A s \in scripts : s.context.epoch \in Nat
    BY DEF RuntimeIInv, RuntimeTypeOK, Scripts, Contexts, NoContext, Epochs
  <2> QED BY <1>0, <1>1, <1>6, <2>1 DEF RuntimeIInv, ScriptsOK
<1>8. MarkOK' /\ TriedOnce' /\ \A a \in tried : Marked(a) => Marked(a)'
  BY <1>0, <1>6, MarksStay DEF NoAttempt
<1>9. \A c \in Invocation : CallerOK(c)'
  BY <1>0, <1>1, <1>6 DEF RuntimeIInv, RuntimeTypeOK, Callers, Pages, Contexts, Epochs, CallerOK, Holds
<1>10. \A c \in Invocation : Holds(c)' => HolderOK(c)'
  BY <1>0, <1>8 DEF RuntimeIInv, Holds, HolderOK
<1>11. RunsWhereConfirmed'
  BY <1>0 DEF RuntimeIInv, RunsWhereConfirmed
<1> QED BY <1>4, <1>5, <1>7, <1>8, <1>9, <1>10, <1>11 DEF RuntimeIInv

-----------------------------------------------------------------------------
(* The page runs a script: only its caller hears of it.                    *)
LEMMA Heard ==
  ASSUME RuntimeIInv, NEW s \in scripts, RunScript(s),
         NEW answer \in {"none", "seen", "ready", "refused", "done"}, NEW saw \in SUBSET Pages,
         Answer(s, answer, saw)
  PROVE  /\ scripts' = scripts \ {s}
         /\ UNCHANGED <<life, epoch, flight, flights, tried>>
         /\ caller' \in [Invocation -> Callers]
         /\ \A c \in Invocation :
              /\ caller'[c].at = caller[c].at /\ caller'[c].life = caller[c].life
              /\ caller'[c].flight = caller[c].flight /\ caller'[c].bound = caller[c].bound
              /\ caller'[c].context = caller[c].context
              /\ c # s.caller => caller'[c] = caller[c]
              /\ c = s.caller => /\ caller'[c].answer = answer /\ caller'[c].saw = saw
                                 /\ caller[c].at = s.kind /\ caller[c].context = s.context
         /\ ScriptsOK'
<1> USE RuntimeConstants
<1>1. caller \in [Invocation -> Callers] /\ s.caller \in Invocation \cup {Abandoned}
  BY DEF RuntimeIInv, RuntimeTypeOK, Scripts
<1>2. UNCHANGED <<life, epoch, flight, flights, tried>> /\ scripts' = scripts \ {s}
  BY DEF RunScript
<1>3. caller' \in [Invocation -> Callers]
  BY <1>1 DEF Answer, Callers
<1>4. ASSUME NEW c \in Invocation
      PROVE  /\ c # s.caller => caller'[c] = caller[c]
             /\ c = s.caller => caller'[c] = [caller[c] EXCEPT !.answer = answer, !.saw = saw]
  BY <1>1 DEF Answer
<1>5. ASSUME NEW c \in Invocation, c = s.caller
      PROVE  caller[c].at = s.kind /\ caller[c].context = s.context
  BY <1>5 DEF RuntimeIInv, ScriptsOK
<1>6. ScriptsOK'
  <2>1. \A t \in scripts' : t.caller # Abandoned =>
          (t.caller \in Invocation /\ caller'[t.caller] = caller[t.caller])
    BY <1>2, <1>4 DEF RuntimeIInv, RuntimeTypeOK, Scripts, ScriptsOK
  <2> QED BY <1>2, <2>1 DEF RuntimeIInv, ScriptsOK
<1>7. ASSUME NEW c \in Invocation
      PROVE  /\ caller'[c].at = caller[c].at /\ caller'[c].life = caller[c].life
             /\ caller'[c].flight = caller[c].flight /\ caller'[c].bound = caller[c].bound
             /\ caller'[c].context = caller[c].context
             /\ c = s.caller => (caller'[c].answer = answer /\ caller'[c].saw = saw)
  <2>1. caller[c] \in Callers
    BY <1>1
  <2> QED BY <1>4, <2>1 DEF Callers
<1> QED BY <1>2, <1>3, <1>4, <1>5, <1>6, <1>7

LEMMA ProbeRuns ==
  ASSUME RuntimeIInv, NEW s \in scripts, RunScript(s), RunProbe(s)
  PROVE  RuntimeIInv'
<1> USE RuntimeConstants
<1>1. UNCHANGED <<life, epoch, document, flight, flights, tried, installed, ran>>
  BY DEF RunScript, RunProbe
<1>2. /\ scripts' = scripts \ {s} /\ s.kind = "probe" /\ s.caller \in Invocation \cup {Abandoned}
      /\ caller \in [Invocation -> Callers] /\ document \in Pages /\ epoch \in Nat
  BY DEF RunScript, RunProbe, RuntimeIInv, RuntimeTypeOK, Scripts, Epochs
<1>3. Answer(s, "seen", {document})
  BY DEF RunProbe
<1>4. caller' \in [Invocation -> Callers] /\ ScriptsOK'
  BY <1>2, <1>3, Heard
<1>5. RuntimeTypeOK'
  BY <1>1, <1>2, <1>4 DEF RuntimeIInv, RuntimeTypeOK
<1>6. DocumentOK' /\ RunsWhereConfirmed'
  BY <1>1 DEF RuntimeIInv, DocumentOK, RunsWhereConfirmed
<1>8. MarkOK' /\ TriedOnce' /\ \A a \in tried : Marked(a) => Marked(a)'
  BY <1>1, MarksStay DEF NoAttempt
<1>9. ASSUME NEW c \in Invocation PROVE CallerOK(c)'
  <2>1. /\ caller'[c].at = caller[c].at /\ caller'[c].life = caller[c].life
        /\ caller'[c].flight = caller[c].flight /\ caller'[c].bound = caller[c].bound
        /\ caller'[c].context = caller[c].context
        /\ c # s.caller => caller'[c] = caller[c]
        /\ c = s.caller =>
             (caller'[c].saw = {document} /\ caller'[c].answer = "seen" /\ caller[c].at = "probe")
    BY <1>2, <1>3, Heard
  <2>2. document.epoch = epoch /\ document.context \in installed \cup {NoContext}
    BY DEF RuntimeIInv, DocumentOK
  <2>3. CallerOK(c)
    BY DEF RuntimeIInv
  <2> QED BY <1>1, <1>2, <2>1, <2>2, <2>3 DEF CallerOK, Holds
<1>10. ASSUME NEW c \in Invocation, Holds(c)' PROVE HolderOK(c)'
  <2>1. CASE c # s.caller
    <3>1. caller'[c] = caller[c]
      BY <1>2, <1>3, <2>1, Heard
    <3> QED BY <1>1, <1>8, <1>10, <3>1 DEF RuntimeIInv, Holds, HolderOK
  <2>2. CASE c = s.caller
    <3>1. /\ caller'[c].saw = {document} /\ caller'[c].at = "probe"
          /\ caller'[c].flight = caller[c].flight
      BY <1>2, <1>3, <2>2, Heard
    <3>2. ASSUME NEW a \in tried, ~document.suspended, ~Ready(document), a.context.epoch = document.epoch
          PROVE  Marked(a)
      <4>1. \A i \in installed : i.epoch # document.epoch
        <5> SUFFICES ASSUME NEW i \in installed, i.epoch = document.epoch PROVE FALSE
          OBVIOUS
        <5>1. document.context = i /\ ~document.disposed /\ document.epoch = epoch
          BY <3>2 DEF RuntimeIInv, DocumentOK
        <5>2. i # NoContext
          BY DEF RuntimeIInv, RuntimeTypeOK, Contexts, NoContext, Epochs
        <5> QED BY <5>1, <5>2, <3>2 DEF Ready
      <4>2. a.context.epoch = epoch
        BY <3>2 DEF RuntimeIInv, DocumentOK
      <4> QED BY <4>1, <4>2, <1>2, <3>2 DEF RuntimeIInv, MarkOK
    <3>3. \A a \in tried : a.context.epoch <= document.epoch
      BY DEF RuntimeIInv, MarkOK, DocumentOK
    <3> QED BY <1>1, <1>8, <3>1, <3>2, <3>3 DEF HolderOK
  <2> QED BY <2>1, <2>2
<1> QED BY <1>4, <1>5, <1>6, <1>8, <1>9, <1>10 DEF RuntimeIInv

LEMMA InstallRuns ==
  ASSUME RuntimeIInv, NEW s \in scripts, RunScript(s), RunInstall(s)
  PROVE  RuntimeIInv'
<1> USE RuntimeConstants
<1>1. UNCHANGED <<life, epoch, flight, flights, tried, ran>>
  BY DEF RunScript, RunInstall
<1>2. /\ scripts' = scripts \ {s} /\ s.kind = "install" /\ s.caller \in Invocation \cup {Abandoned}
      /\ s.context \in Contexts
      /\ caller \in [Invocation -> Callers] /\ document \in Pages /\ epoch \in Nat
  BY DEF RunScript, RunInstall, RuntimeIInv, RuntimeTypeOK, Scripts, ScriptsOK, Epochs
<1> DEFINE given == IF MayInstall(document, s.context) THEN "ready" ELSE "refused"
<1>3. Answer(s, given, {})
  BY DEF RunInstall
<1>4. /\ installed' = IF given = "ready" THEN installed \cup {s.context} ELSE installed
      /\ document' = IF given = "ready"
           THEN [document EXCEPT !.context = s.context, !.disposed = FALSE, !.clean = "yes"]
           ELSE document
  BY DEF RunInstall
<1>5. given \in {"ready", "refused"}
  OBVIOUS
<1>6. given = "ready" =>
        /\ s.context.epoch = epoch /\ ~document.suspended
        /\ \A i \in installed : i.epoch # epoch
  <2> SUFFICES ASSUME given = "ready"
               PROVE  /\ s.context.epoch = epoch /\ ~document.suspended
                      /\ \A i \in installed : i.epoch # epoch
    OBVIOUS
  <2>1. MayInstall(document, s.context) /\ document.epoch = epoch
    BY DEF RuntimeIInv, DocumentOK
  <2>2. s.context.epoch = epoch /\ ~document.suspended /\ ~Ready(document)
    BY <2>1 DEF MayInstall
  <2>3. ASSUME NEW i \in installed, i.epoch = epoch PROVE FALSE
    <3>1. document.context = i /\ ~document.disposed
      BY <2>2, <2>3 DEF RuntimeIInv, DocumentOK
    <3>2. i # NoContext
      BY DEF RuntimeIInv, RuntimeTypeOK, Contexts, NoContext, Epochs
    <3> QED BY <3>1, <3>2, <2>1, <2>2, <2>3 DEF Ready
  <2> QED BY <2>2, <2>3
<1> HIDE DEF given
<1>7. caller' \in [Invocation -> Callers] /\ ScriptsOK'
  BY <1>3, <1>5, Heard
<1>8. document' \in Pages
  BY <1>2, <1>4 DEF Pages
<1>9. RuntimeTypeOK'
  BY <1>1, <1>2, <1>4, <1>7, <1>8 DEF RuntimeIInv, RuntimeTypeOK
<1>10. DocumentOK'
  <2>1. CASE given = "ready"
    <3>1. /\ document'.context = s.context /\ ~document'.disposed
          /\ document'.epoch = document.epoch /\ document'.life = document.life
      BY <1>2, <1>4, <2>1 DEF Pages
    <3> QED BY <1>1, <1>2, <1>4, <1>6, <2>1, <3>1 DEF RuntimeIInv, DocumentOK
  <2>2. CASE given # "ready"
    BY <1>1, <1>4, <2>2 DEF RuntimeIInv, DocumentOK
  <2> QED BY <2>1, <2>2
<1>11. RunsWhereConfirmed'
  BY <1>1 DEF RuntimeIInv, RunsWhereConfirmed
<1>13. installed \subseteq installed' /\ installed' \subseteq installed \cup {s.context}
  BY <1>4
<1>14. MarkOK' /\ TriedOnce' /\ \A a \in tried : Marked(a) => Marked(a)'
  BY <1>1, <1>13, MarksStay DEF NoAttempt
<1>15. ASSUME NEW c \in Invocation PROVE CallerOK(c)'
  <2>1. /\ caller'[c].at = caller[c].at /\ caller'[c].life = caller[c].life
        /\ caller'[c].flight = caller[c].flight /\ caller'[c].bound = caller[c].bound
        /\ caller'[c].context = caller[c].context
        /\ c # s.caller => caller'[c] = caller[c]
        /\ c = s.caller => (caller'[c].saw = {} /\ caller'[c].answer = given
                              /\ caller[c].at = "install" /\ caller[c].context = s.context)
    BY <1>2, <1>3, <1>5, Heard
  <2>2. CallerOK(c)
    BY DEF RuntimeIInv
  <2>3. given = "ready" => s.context \in installed'
    BY <1>4
  <2> QED BY <1>1, <1>2, <1>13, <2>1, <2>2, <2>3 DEF CallerOK, Holds
<1>16. ASSUME NEW c \in Invocation, Holds(c)' PROVE HolderOK(c)'
  <2>1. /\ caller'[c].at = caller[c].at /\ caller'[c].flight = caller[c].flight
        /\ caller'[c].bound = caller[c].bound /\ caller'[c].context = caller[c].context
        /\ caller'[c].saw \subseteq caller[c].saw
    BY <1>3, <1>5, Heard
  <2>2. HolderOK(c)
    BY <1>16, <2>1 DEF RuntimeIInv, Holds
  <2> QED BY <1>1, <1>14, <2>1, <2>2 DEF HolderOK
<1> QED BY <1>7, <1>9, <1>10, <1>11, <1>14, <1>15, <1>16 DEF RuntimeIInv

LEMMA DispatchRuns ==
  ASSUME RuntimeIInv, NEW s \in scripts, RunScript(s), RunDispatch(s)
  PROVE  RuntimeIInv'
<1> USE RuntimeConstants
<1>1. UNCHANGED <<life, epoch, document, flight, flights, tried, installed>>
  BY DEF RunScript, RunDispatch
<1>2. /\ scripts' = scripts \ {s} /\ s.kind = "dispatch" /\ s.caller \in Invocation \cup {Abandoned}
      /\ s.context \in Contexts /\ s.by \in {"installed", "found"}
      /\ caller \in [Invocation -> Callers] /\ document \in Pages /\ epoch \in Nat
  BY DEF RunScript, RunDispatch, RuntimeIInv, RuntimeTypeOK, Scripts, ScriptsOK, Epochs
<1> DEFINE given == IF Dispatches(document, s.context) THEN "done" ELSE "refused"
           run == [context |-> s.context, by |-> s.by, epoch |-> document.epoch, life |-> document.life]
<1>3. Answer(s, given, {})
  BY DEF RunDispatch
<1>4. /\ ran' \in {ran, ran \cup {run}}
      /\ ran' # ran => s.context.epoch = document.epoch
  BY DEF RunDispatch, Dispatches, Ready
<1>5. given \in {"done", "refused"}
  OBVIOUS
<1> HIDE DEF given
<1>6. caller' \in [Invocation -> Callers] /\ ScriptsOK'
  BY <1>3, <1>5, Heard
<1>7. run \in Runs
  BY <1>2 DEF Runs, Pages
<1>8. RuntimeTypeOK'
  BY <1>1, <1>2, <1>4, <1>6, <1>7 DEF RuntimeIInv, RuntimeTypeOK
<1>9. DocumentOK'
  BY <1>1 DEF RuntimeIInv, DocumentOK
<1>10. RunsWhereConfirmed'
  <2>1. document.epoch = epoch /\ document.life = life
    BY DEF RuntimeIInv, DocumentOK
  <2>2. s.by = "installed" /\ s.context.epoch = epoch => s.context.life = life
    BY DEF RuntimeIInv, ScriptsOK
  <2> QED BY <1>4, <2>1, <2>2 DEF RuntimeIInv, RunsWhereConfirmed
<1>12. MarkOK' /\ TriedOnce' /\ \A a \in tried : Marked(a) => Marked(a)'
  BY <1>1, MarksStay DEF NoAttempt
<1>13. \A c \in Invocation :
         /\ caller'[c].at = caller[c].at /\ caller'[c].life = caller[c].life
         /\ caller'[c].flight = caller[c].flight /\ caller'[c].bound = caller[c].bound
         /\ caller'[c].context = caller[c].context
         /\ c # s.caller => caller'[c] = caller[c]
         /\ c = s.caller => (caller'[c].saw = {} /\ caller[c].at = "dispatch")
  BY <1>2, <1>3, <1>5, Heard
<1>14. \A c \in Invocation : CallerOK(c)'
  BY <1>1, <1>2, <1>13 DEF RuntimeIInv, CallerOK, Holds
<1>15. ASSUME NEW c \in Invocation, Holds(c)' PROVE HolderOK(c)'
  BY <1>1, <1>12, <1>13, <1>15 DEF RuntimeIInv, Holds, HolderOK
<1> QED BY <1>6, <1>8, <1>9, <1>10, <1>12, <1>14, <1>15 DEF RuntimeIInv

-----------------------------------------------------------------------------
(* A step of the caller c touches, of the flights, the one it holds, and   *)
(* of the others at most the lock.                                         *)
Own(c, f) == Holds(c) /\ f = caller[c].flight

OwnStep(c) ==
  /\ UNCHANGED <<life, epoch, document, installed, ran>>
  /\ \A d \in Invocation \ {c} : caller'[d] = caller[d]
  /\ tried \subseteq tried' /\ \A a \in tried' \ tried : Own(c, a.flight)
  /\ \A f \in Flights :
       \/ Own(c, f)
       \/ /\ flights'[f].failedFor = flights[f].failedFor
          /\ \/ flights'[f].holder = flights[f].holder \ {c}
             \/ flights'[f].holder = flights[f].holder
             \/ flights[f].holder = {} /\ flights'[f].holder = {c}

LEMMA OthersStay ==
  ASSUME RuntimeIInv, NEW c \in Invocation, OwnStep(c)
  PROVE  /\ DocumentOK' /\ RunsWhereConfirmed'
         /\ \A d \in Invocation \ {c} : CallerOK(d)' /\ (Holds(d)' => HolderOK(d)')
<1>1. UNCHANGED <<life, epoch, document, installed, ran>> /\ tried \subseteq tried'
  BY DEF OwnStep
<1>2. DocumentOK' /\ RunsWhereConfirmed'
  BY <1>1 DEF RuntimeIInv, DocumentOK, RunsWhereConfirmed
<1>3. ASSUME NEW d \in Invocation \ {c} PROVE CallerOK(d)' /\ (Holds(d)' => HolderOK(d)')
  <2>1. caller'[d] = caller[d] /\ CallerOK(d) /\ (Holds(d) => HolderOK(d))
    BY DEF OwnStep, RuntimeIInv
  <2>2. Holds(d)' <=> Holds(d)
    BY <2>1 DEF Holds
  <2>3. Holds(d) => /\ caller[d].flight \in Flights /\ flights[caller[d].flight].holder = {d}
                    /\ ~Own(c, caller[d].flight)
    BY <2>1 DEF CallerOK, RuntimeIInv, Own
  <2>4. Holds(d) => /\ flights'[caller[d].flight].holder = {d}
                    /\ flights'[caller[d].flight].failedFor = flights[caller[d].flight].failedFor
    BY <2>3 DEF OwnStep
  <2>5. CallerOK(d)'
    BY <1>1, <2>1, <2>2, <2>4 DEF CallerOK
  <2>6. ASSUME Holds(d) PROVE HolderOK(d)'
    <3>1. \A a \in tried' : a.flight = caller[d].flight => a \in tried
      BY <2>3, <2>6 DEF OwnStep
    <3>2. \A a \in tried : (a.flight = caller[d].flight /\ Marked(a)) => Marked(a)'
      BY <1>1, <2>4, <2>6 DEF Marked, Excused, KeyOf
    <3> QED BY <1>1, <2>1, <2>6, <3>1, <3>2 DEF HolderOK
  <2> QED BY <2>2, <2>5, <2>6
<1> QED BY <1>2, <1>3

LEMMA NoScript ==
  ASSUME RuntimeIInv, NEW c \in Invocation,
         caller[c].at \notin {"probe", "install", "dispatch"} \/ caller[c].answer # "none"
  PROVE  \A s \in scripts : s.caller # c
BY RuntimeConstants DEF RuntimeIInv, RuntimeTypeOK, ScriptsOK, Scripts

(* Scripts, where c sends none and had none out.                           *)
LEMMA ScriptsStay ==
  ASSUME RuntimeIInv, NEW c \in Invocation, scripts' = scripts, OwnStep(c),
         \A s \in scripts : s.caller # c
  PROVE  ScriptsOK'
<1>1. \A s \in scripts : s.caller # Abandoned => caller'[s.caller] = caller[s.caller]
  BY DEF OwnStep, RuntimeIInv, RuntimeTypeOK, Scripts
<1> QED BY <1>1 DEF OwnStep, RuntimeIInv, ScriptsOK

LEMMA ScriptSent ==
  ASSUME RuntimeIInv, NEW c \in Invocation, OwnStep(c),
         \A s \in scripts : s.caller # c,
         NEW kind \in {"probe", "install", "dispatch"}, NEW context \in Contexts \cup {NoContext},
         NEW by \in {"nothing", "installed", "found"},
         kind # "probe" => context # NoContext, kind = "dispatch" => by # "nothing",
         by = "installed" =>
           context.epoch <= epoch /\ (context.epoch = epoch => context.life = life),
         Send(c, kind, context, by),
         caller'[c].at = kind, caller'[c].context = context, caller'[c].answer = "none"
  PROVE  ScriptsOK' /\ scripts' \subseteq Scripts
<1> USE RuntimeConstants
<1> DEFINE new == [caller |-> c, kind |-> kind, context |-> context, by |-> by]
<1>1. scripts' = scripts \cup {new} /\ new \in Scripts
  BY DEF Send, Scripts
<1>2. scripts' \subseteq Scripts
  BY <1>1 DEF RuntimeIInv, RuntimeTypeOK
<1>3. \A s \in scripts : s.caller # Abandoned => caller'[s.caller] = caller[s.caller]
  BY DEF OwnStep, RuntimeIInv, RuntimeTypeOK, Scripts
<1>4. /\ new.caller = c /\ new.kind = kind /\ new.context = context /\ new.by = by
      /\ life' = life /\ epoch' = epoch
  BY DEF OwnStep
<1> HIDE DEF new
<1>5. ScriptsOK
  BY DEF RuntimeIInv
<1>6. ASSUME NEW s \in scripts' PROVE
       /\ s.kind = "dispatch" => (s.context # NoContext /\ s.by # "nothing")
       /\ s.kind = "install" => s.context # NoContext
       /\ s.by = "installed" =>
            /\ s.context.epoch <= epoch
            /\ s.context.epoch = epoch => s.context.life = life
       /\ s.caller # Abandoned =>
            /\ caller'[s.caller].at = s.kind /\ caller'[s.caller].answer = "none"
            /\ caller'[s.caller].context = s.context
  <2>1. CASE s = new
    BY <1>4, <2>1
  <2>2. CASE s \in scripts
    BY <1>3, <1>5, <2>2 DEF ScriptsOK
  <2> QED BY <1>1, <2>1, <2>2
<1>7. \A s, t \in scripts' : (s.caller = t.caller /\ s.caller # Abandoned) => s = t
  BY <1>1, <1>4, <1>5 DEF ScriptsOK
<1> QED BY <1>2, <1>4, <1>6, <1>7 DEF ScriptsOK

LEMMA WentOn ==
  ASSUME RuntimeIInv, NEW c \in Invocation, NEW at \in CallerSteps,
         NEW context \in Contexts \cup {NoContext}, Goto(c, at, context)
  PROVE  /\ caller' \in [Invocation -> Callers]
         /\ \A d \in Invocation \ {c} : caller'[d] = caller[d]
         /\ caller'[c].at = at /\ caller'[c].context = context
         /\ caller'[c].answer = "none" /\ caller'[c].saw = {}
         /\ caller'[c].life = caller[c].life /\ caller'[c].flight = caller[c].flight
         /\ caller'[c].bound = caller[c].bound
<1>1. caller \in [Invocation -> Callers] /\ caller[c] \in Callers
  BY DEF RuntimeIInv, RuntimeTypeOK
<1>2. caller' = [caller EXCEPT ![c] = [caller[c] EXCEPT !.at = at, !.context = context,
                                                        !.answer = "none", !.saw = {}]]
  BY <1>1 DEF Goto, Callers
<1>3. [caller[c] EXCEPT !.at = at, !.context = context, !.answer = "none", !.saw = {}] \in Callers
  BY <1>1 DEF Callers
<1> QED BY <1>1, <1>2, <1>3 DEF Callers

LEMMA Returned ==
  ASSUME RuntimeIInv, NEW c \in Invocation, Return(c)
  PROVE  /\ caller' \in [Invocation -> Callers]
         /\ \A d \in Invocation \ {c} : caller'[d] = caller[d]
         /\ CallerOK(c)' /\ ~Holds(c)'
<1> USE RuntimeConstants
<1>1. caller \in [Invocation -> Callers] /\ caller[c] \in Callers
  BY DEF RuntimeIInv, RuntimeTypeOK
<1> DEFINE back == [NewInvocation EXCEPT !.at = "idle",
       !.context = IF caller[c].at = "dispatch" THEN caller[c].context ELSE caller[c].bound]
<1>2. caller' = [caller EXCEPT ![c] = back]
  BY DEF Return
<1>3. /\ back \in Callers /\ back.at = "idle" /\ back.saw = {} /\ back.bound = NoContext
      /\ back.flight = 0
  <2>1. PICK context \in Contexts \cup {NoContext} : back = [NewInvocation EXCEPT !.at = "idle", !.context = context]
    BY <1>1 DEF Callers
  <2> HIDE DEF back
  <2> QED BY <2>1, FirstCall DEF Callers, CallerSteps
<1> HIDE DEF back
<1> QED BY <1>1, <1>2, <1>3 DEF CallerOK, Holds

LEMMA FlightsOfReturn ==
  ASSUME RuntimeIInv, NEW c \in Invocation, flights' \in {Unlocked(c), Cleared(c)}
  PROVE  /\ flights' \in [Flights -> [holder: SUBSET Invocation, failedFor: SUBSET Keys]]
         /\ \A f \in Flights :
              \/ f = caller[c].flight /\ flights' = Cleared(c)
              \/ /\ flights'[f].failedFor = flights[f].failedFor
                 /\ \/ flights'[f].holder = flights[f].holder \ {c}
                    \/ flights'[f].holder = flights[f].holder
<1>1. flights \in [Flights -> [holder: SUBSET Invocation, failedFor: SUBSET Keys]]
  BY DEF RuntimeIInv, RuntimeTypeOK
<1> DEFINE un == [f \in Flights |-> [flights[f] EXCEPT !.holder = @ \ {c}]]
           cl == [f \in Flights |-> IF f = caller[c].flight
                                      THEN [un[f] EXCEPT !.failedFor = {}] ELSE flights[f]]
<1>2. \A f \in Flights : /\ un[f] \in [holder: SUBSET Invocation, failedFor: SUBSET Keys]
                         /\ un[f].failedFor = flights[f].failedFor
                         /\ un[f].holder = flights[f].holder \ {c}
  BY <1>1
<1>3. \A f \in Flights : /\ cl[f] \in [holder: SUBSET Invocation, failedFor: SUBSET Keys]
                         /\ f # caller[c].flight => cl[f] = flights[f]
  BY <1>1
<1>4. Unlocked(c) = un /\ Cleared(c) = cl
  BY DEF Unlocked, Cleared
<1>5. un \in [Flights -> [holder: SUBSET Invocation, failedFor: SUBSET Keys]]
  BY <1>2
<1>6. cl \in [Flights -> [holder: SUBSET Invocation, failedFor: SUBSET Keys]]
  BY <1>3
<1> HIDE DEF un, cl
<1> QED BY <1>2, <1>3, <1>4, <1>5, <1>6

LEMMA CallerStep ==
  ASSUME RuntimeIInv, NEW c \in Invocation, OwnStep(c),
         RuntimeTypeOK', ScriptsOK', MarkOK', TriedOnce', CallerOK(c)', Holds(c)' => HolderOK(c)'
  PROVE  RuntimeIInv'
<1>1. \A d \in Invocation : CallerOK(d)' /\ (Holds(d)' => HolderOK(d)')
  BY OthersStay
<1> QED BY <1>1, OthersStay DEF RuntimeIInv

(* Where the caller neither tries anything nor clears a mark.              *)
LEMMA MarksOfStep ==
  ASSUME RuntimeIInv, NEW c \in Invocation, UNCHANGED <<epoch, tried, installed>>,
         \A f \in Flights : flights'[f].failedFor = flights[f].failedFor
  PROVE  MarkOK' /\ TriedOnce'
BY MarksStay DEF NoAttempt

LEMMA EnterStep ==
  ASSUME RuntimeIInv, NEW c \in Invocation,
         Enter(c, NoContext) \/ Enter(c, caller[c].context)
  PROVE  RuntimeIInv'
<1> USE RuntimeConstants
<1>1. caller \in [Invocation -> Callers] /\ caller[c] \in Callers /\ life \in Lives
  BY DEF RuntimeIInv, RuntimeTypeOK
<1>2. PICK bound \in Contexts \cup {NoContext} : Enter(c, bound)
  <2>1. CASE Enter(c, NoContext)
    BY <2>1
  <2>2. CASE Enter(c, caller[c].context)
    <3>1. caller[c].context \in Contexts \cup {NoContext}
      BY <1>1 DEF Callers
    <3> QED BY <2>2, <3>1
  <2> QED BY <2>1, <2>2
<1> DEFINE new == [NewInvocation EXCEPT !.at = "target", !.life = life, !.bound = bound]
<1>3. caller' = [caller EXCEPT ![c] = new]
  BY <1>2 DEF Enter
<1>4. UNCHANGED <<life, epoch, document, flight, flights, scripts, tried, installed, ran>>
  BY <1>2 DEF Enter
<1>5. new \in Callers /\ new.at = "target" /\ new.saw = {} /\ new.flight = 0 /\ new.life = life
  <2>2. life \in 0..MaxLives
    BY <1>1 DEF Lives
  <2> QED BY <2>2, FirstCall DEF Callers, CallerSteps
<1> HIDE DEF new
<1>6. caller' \in [Invocation -> Callers] /\ caller'[c] = new
  BY <1>1, <1>3, <1>5
<1>7. OwnStep(c)
  BY <1>1, <1>3, <1>4 DEF OwnStep
<1>8. RuntimeTypeOK'
  BY <1>4, <1>6 DEF RuntimeIInv, RuntimeTypeOK
<1>9. \A s \in scripts : s.caller # c
  BY <1>2, NoScript DEF Enter
<1>10. ScriptsOK'
  BY <1>4, <1>7, <1>9, ScriptsStay
<1>11. CallerOK(c)' /\ ~Holds(c)'
  BY <1>1, <1>4, <1>5, <1>6 DEF CallerOK, Holds
<1>12. MarkOK' /\ TriedOnce'
  BY <1>4, MarksOfStep
<1> QED BY <1>7, <1>8, <1>10, <1>11, <1>12, CallerStep

LEMMA ProbeBoundStep ==
  ASSUME RuntimeIInv, NEW c \in Invocation, ProbeBound(c)
  PROVE  RuntimeIInv'
<1>1. /\ UNCHANGED <<life, epoch, document, flight, flights, tried, installed, ran>>
      /\ caller[c].at = "target" /\ caller[c].bound # NoContext
      /\ Goto(c, "probe", NoContext) /\ Send(c, "probe", NoContext, "nothing")
  BY DEF ProbeBound
<1>2. /\ caller' \in [Invocation -> Callers]
      /\ \A d \in Invocation \ {c} : caller'[d] = caller[d]
      /\ caller'[c].at = "probe" /\ caller'[c].context = NoContext
      /\ caller'[c].answer = "none" /\ caller'[c].saw = {}
      /\ caller'[c].life = caller[c].life /\ caller'[c].flight = caller[c].flight
      /\ caller'[c].bound = caller[c].bound
  BY <1>1, WentOn DEF CallerSteps
<1>3. OwnStep(c)
  BY <1>1, <1>2 DEF OwnStep
<1>4. \A s \in scripts : s.caller # c
  BY <1>1, NoScript
<1>5. ScriptsOK' /\ scripts' \subseteq Scripts
  BY <1>1, <1>2, <1>3, <1>4, ScriptSent
<1>6. RuntimeTypeOK'
  BY <1>1, <1>2, <1>5 DEF RuntimeIInv, RuntimeTypeOK
<1>7. CallerOK(c)' /\ ~Holds(c)'
  BY <1>1, <1>2 DEF RuntimeIInv, CallerOK, Holds
<1>8. MarkOK' /\ TriedOnce'
  BY <1>1, MarksOfStep
<1> QED BY <1>3, <1>5, <1>6, <1>7, <1>8, CallerStep

LEMMA JoinFlightStep ==
  ASSUME RuntimeIInv, NEW c \in Invocation, JoinFlight(c)
  PROVE  RuntimeIInv'
<1> USE RuntimeConstants
<1>1. /\ UNCHANGED <<life, epoch, document, flights, scripts, tried, installed, ran>>
      /\ caller[c].at = "target" /\ caller[c].bound = NoContext
      /\ flight' = IF flight # 0 THEN flight ELSE life
      /\ caller' = [caller EXCEPT ![c].at = "waiting", ![c].flight = flight']
  BY DEF JoinFlight
<1>2. caller \in [Invocation -> Callers] /\ caller[c] \in Callers /\ life \in Lives
  BY DEF RuntimeIInv, RuntimeTypeOK
<1>3. flight' = life /\ flight' \in Flights /\ flight' \in 0..MaxLives
  BY <1>1, <1>2 DEF RuntimeIInv, RuntimeTypeOK, Flights, Lives
<1> DEFINE new == [caller[c] EXCEPT !.at = "waiting", !.flight = life]
<1>4. caller' = [caller EXCEPT ![c] = new]
  BY <1>1, <1>2, <1>3
<1>5. /\ new \in Callers /\ new.at = "waiting" /\ new.flight = life /\ new.saw = caller[c].saw
      /\ new.bound = caller[c].bound /\ new.life = caller[c].life
  BY <1>2, <1>3 DEF Callers, CallerSteps
<1> HIDE DEF new
<1>6. /\ caller' \in [Invocation -> Callers] /\ caller'[c] = new
      /\ \A d \in Invocation \ {c} : caller'[d] = caller[d]
  BY <1>2, <1>4, <1>5
<1>7. OwnStep(c)
  BY <1>1, <1>6 DEF OwnStep
<1>8. \A s \in scripts : s.caller # c
  BY <1>1, NoScript
<1>9. ScriptsOK'
  BY <1>1, <1>7, <1>8, ScriptsStay
<1>10. RuntimeTypeOK'
  BY <1>1, <1>3, <1>6 DEF RuntimeIInv, RuntimeTypeOK
<1>11. CallerOK(c)' /\ ~Holds(c)'
  BY <1>1, <1>3, <1>5, <1>6 DEF RuntimeIInv, CallerOK, Holds
<1>12. MarkOK' /\ TriedOnce'
  BY <1>1, MarksOfStep
<1> QED BY <1>7, <1>9, <1>10, <1>11, <1>12, CallerStep

LEMMA LockFlightStep ==
  ASSUME RuntimeIInv, NEW c \in Invocation, LockFlight(c)
  PROVE  RuntimeIInv'
<1>1. /\ UNCHANGED <<life, epoch, document, flight, tried, installed, ran>>
      /\ caller[c].at = "waiting" /\ flights[caller[c].flight].holder = {}
      /\ flights' = [flights EXCEPT ![caller[c].flight].holder = {c}]
      /\ Goto(c, "probe", NoContext) /\ Send(c, "probe", NoContext, "nothing")
  BY DEF LockFlight
<1>2. /\ caller' \in [Invocation -> Callers]
      /\ \A d \in Invocation \ {c} : caller'[d] = caller[d]
      /\ caller'[c].at = "probe" /\ caller'[c].context = NoContext
      /\ caller'[c].answer = "none" /\ caller'[c].saw = {}
      /\ caller'[c].life = caller[c].life /\ caller'[c].flight = caller[c].flight
      /\ caller'[c].bound = caller[c].bound
  BY <1>1, WentOn DEF CallerSteps
<1>3. /\ caller[c].flight \in Flights /\ caller[c].bound = NoContext
      /\ flights \in [Flights -> [holder: SUBSET Invocation, failedFor: SUBSET Keys]]
  BY <1>1 DEF RuntimeIInv, RuntimeTypeOK, CallerOK
<1>4. /\ flights' \in [Flights -> [holder: SUBSET Invocation, failedFor: SUBSET Keys]]
      /\ \A f \in Flights : /\ flights'[f].failedFor = flights[f].failedFor
                            /\ f # caller[c].flight => flights'[f].holder = flights[f].holder
      /\ flights'[caller[c].flight].holder = {c}
  BY <1>1, <1>3
<1>5. OwnStep(c)
  BY <1>1, <1>2, <1>4 DEF OwnStep
<1>6. \A s \in scripts : s.caller # c
  BY <1>1, NoScript
<1>7. ScriptsOK' /\ scripts' \subseteq Scripts
  BY <1>1, <1>2, <1>5, <1>6, ScriptSent
<1>8. RuntimeTypeOK'
  BY <1>1, <1>2, <1>4, <1>7 DEF RuntimeIInv, RuntimeTypeOK
<1>9. CallerOK(c)'
  BY <1>1, <1>2, <1>3, <1>4 DEF RuntimeIInv, CallerOK, Holds
<1>10. HolderOK(c)'
  <2>1. \A a \in tried : a.flight = caller[c].flight => TRUE
    OBVIOUS
  <2> QED BY <1>1, <1>2 DEF HolderOK
<1>11. MarkOK' /\ TriedOnce'
  BY <1>1, <1>4, MarksOfStep
<1> QED BY <1>5, <1>7, <1>8, <1>9, <1>10, <1>11, CallerStep

(* The return of a caller that noted nothing.                              *)
LEMMA PlainReturn ==
  ASSUME RuntimeIInv, NEW c \in Invocation, Return(c), flights' \in {flights, Unlocked(c)},
         UNCHANGED <<life, epoch, document, flight, scripts, tried, installed, ran>>,
         caller[c].answer # "none"
  PROVE  RuntimeIInv'
<1>1. /\ caller' \in [Invocation -> Callers]
      /\ \A d \in Invocation \ {c} : caller'[d] = caller[d]
      /\ CallerOK(c)' /\ ~Holds(c)'
  BY Returned
<1>2. /\ flights' \in [Flights -> [holder: SUBSET Invocation, failedFor: SUBSET Keys]]
      /\ \A f \in Flights :
           /\ flights'[f].failedFor = flights[f].failedFor
           /\ \/ flights'[f].holder = flights[f].holder \ {c}
              \/ flights'[f].holder = flights[f].holder
  BY DEF Unlocked, RuntimeIInv, RuntimeTypeOK
<1>3. OwnStep(c)
  BY <1>1, <1>2 DEF OwnStep
<1>4. ScriptsOK'
  BY <1>3, NoScript, ScriptsStay
<1>5. RuntimeTypeOK'
  BY <1>1, <1>2 DEF RuntimeIInv, RuntimeTypeOK
<1>6. MarkOK' /\ TriedOnce'
  BY <1>2, MarksOfStep
<1> QED BY <1>1, <1>3, <1>4, <1>5, <1>6, CallerStep

(* A runtime that is ready: every attempt of the flight in its document is *)
(* over, so the mark may go.                                               *)
LEMMA ClearedMarks ==
  ASSUME RuntimeIInv, NEW c \in Invocation, flights' = Cleared(c),
         UNCHANGED <<epoch, tried, installed>>,
         NEW i \in installed,
         \A a \in tried : a.flight = caller[c].flight => a.context.epoch <= i.epoch
  PROVE  MarkOK' /\ TriedOnce'
<1>1. \A a \in tried : a.context.epoch \in Nat /\ a.flight \in Flights
  BY DEF RuntimeIInv, RuntimeTypeOK, Contexts, Epochs
<1>2. i.epoch \in Nat /\ epoch \in Nat /\ i.epoch <= epoch
  BY DEF RuntimeIInv, RuntimeTypeOK, Contexts, Epochs, DocumentOK
<1>3. \A a \in tried : Excused(a)' <=> Excused(a)
  BY DEF Excused
<1>4. \A f \in Flights : f # caller[c].flight => flights'[f].failedFor = flights[f].failedFor
  BY FlightsOfReturn
<1>5. ASSUME NEW a \in tried
      PROVE  /\ a.context.epoch <= epoch
             /\ \/ Marked(a)' \/ a.context.epoch < epoch
                \/ \E j \in installed : j.epoch = a.context.epoch
  <2>1. CASE a.flight = caller[c].flight
    BY <1>1, <1>2, <2>1 DEF RuntimeIInv, MarkOK
  <2>2. CASE a.flight # caller[c].flight
    BY <1>1, <1>3, <1>4, <2>2 DEF RuntimeIInv, MarkOK, Marked, KeyOf
  <2> QED BY <2>1, <2>2
<1>6. TriedOnce'
  BY <1>3 DEF RuntimeIInv, TriedOnce
<1> QED BY <1>5, <1>6 DEF MarkOK

LEMMA SeenReadyStep ==
  ASSUME RuntimeIInv, NEW c \in Invocation, SeenReady(c)
  PROVE  RuntimeIInv'
<1> USE RuntimeConstants
<1>1. PICK p \in caller[c].saw :
        /\ Confirms(c, p) /\ caller[c].bound \in {NoContext, p.context}
        /\ flights' = Cleared(c)
        /\ Goto(c, "dispatch", p.context) /\ Send(c, "dispatch", p.context, "found")
        /\ UNCHANGED <<life, epoch, document, flight, tried, installed, ran>>
  BY DEF SeenReady
<1>2. caller \in [Invocation -> Callers] /\ caller[c] \in Callers /\ p \in Pages /\ CallerOK(c)
  BY DEF RuntimeIInv, RuntimeTypeOK, Callers
<1>3. /\ p.context \in Contexts /\ p.context \in installed /\ p.context.epoch = p.epoch
      /\ p.context # NoContext
  BY <1>1, <1>2 DEF Confirms, Ready, Pages, CallerOK
<1>4. caller[c].at = "probe" /\ caller[c].answer = "seen"
  BY <1>2 DEF CallerOK
<1>5. /\ caller' \in [Invocation -> Callers]
      /\ \A d \in Invocation \ {c} : caller'[d] = caller[d]
      /\ caller'[c].at = "dispatch" /\ caller'[c].context = p.context
      /\ caller'[c].answer = "none" /\ caller'[c].saw = {}
      /\ caller'[c].life = caller[c].life /\ caller'[c].flight = caller[c].flight
      /\ caller'[c].bound = caller[c].bound
  BY <1>1, <1>3, WentOn DEF CallerSteps
<1>6. /\ flights' \in [Flights -> [holder: SUBSET Invocation, failedFor: SUBSET Keys]]
      /\ \A f \in Flights :
           \/ f = caller[c].flight
           \/ /\ flights'[f].failedFor = flights[f].failedFor
              /\ \/ flights'[f].holder = flights[f].holder \ {c}
                 \/ flights'[f].holder = flights[f].holder
  BY <1>1, FlightsOfReturn
<1>7. \A f \in Flights : f = caller[c].flight => Own(c, f)
  BY <1>2, <1>4 DEF CallerOK, Own, Holds, Flights, Lives
<1>8. OwnStep(c)
  BY <1>1, <1>5, <1>6, <1>7 DEF OwnStep
<1>9. \A s \in scripts : s.caller # c
  BY <1>4, NoScript
<1>10. ScriptsOK' /\ scripts' \subseteq Scripts
  BY <1>1, <1>3, <1>5, <1>8, <1>9, ScriptSent
<1>11. RuntimeTypeOK'
  BY <1>1, <1>5, <1>6, <1>10 DEF RuntimeIInv, RuntimeTypeOK
<1>12. CallerOK(c)' /\ ~Holds(c)'
  BY <1>1, <1>2, <1>4, <1>5 DEF CallerOK, Holds
<1>13. MarkOK' /\ TriedOnce'
  <2>1. CASE caller[c].bound = NoContext
    <3>1. HolderOK(c)
      BY <1>4, <2>1 DEF RuntimeIInv, Holds
    <3> QED BY <1>1, <1>3, <3>1, ClearedMarks DEF HolderOK
  <2>2. CASE caller[c].bound # NoContext
    <3>1. caller[c].flight = 0 /\ caller[c].flight \notin Flights
      BY <1>2, <2>2 DEF CallerOK, Flights, Lives
    <3>2. \A f \in Flights : flights'[f].failedFor = flights[f].failedFor
      BY <1>6, <3>1
    <3> QED BY <1>1, <3>2, MarksOfStep
  <2> QED BY <2>1, <2>2
<1> QED BY <1>8, <1>10, <1>11, <1>12, <1>13, CallerStep

LEMMA InstalledStep ==
  ASSUME RuntimeIInv, NEW c \in Invocation, Installed(c)
  PROVE  RuntimeIInv'
<1> USE RuntimeConstants
<1>1. /\ caller[c].at = "install" /\ caller[c].answer = "ready" /\ life = caller[c].life
      /\ flights' = Cleared(c)
      /\ Goto(c, "dispatch", caller[c].context)
      /\ Send(c, "dispatch", caller[c].context, "installed")
      /\ UNCHANGED <<life, epoch, document, flight, tried, installed, ran>>
  BY DEF Installed, SameWindow
<1>2. caller \in [Invocation -> Callers] /\ caller[c] \in Callers /\ CallerOK(c)
  BY DEF RuntimeIInv, RuntimeTypeOK
<1>3. /\ caller[c].context \in Contexts /\ caller[c].context \in installed
      /\ caller[c].context # NoContext /\ caller[c].context.life = life
      /\ caller[c].context.epoch <= epoch
  BY <1>1, <1>2 DEF Callers, CallerOK
<1>4. Holds(c) /\ HolderOK(c)
  BY <1>1, <1>2 DEF CallerOK, Holds, RuntimeIInv
<1>5. /\ caller' \in [Invocation -> Callers]
      /\ \A d \in Invocation \ {c} : caller'[d] = caller[d]
      /\ caller'[c].at = "dispatch" /\ caller'[c].context = caller[c].context
      /\ caller'[c].answer = "none" /\ caller'[c].saw = {}
      /\ caller'[c].life = caller[c].life /\ caller'[c].flight = caller[c].flight
      /\ caller'[c].bound = caller[c].bound
  BY <1>1, <1>3, WentOn DEF CallerSteps
<1>6. /\ flights' \in [Flights -> [holder: SUBSET Invocation, failedFor: SUBSET Keys]]
      /\ \A f \in Flights :
           \/ f = caller[c].flight
           \/ /\ flights'[f].failedFor = flights[f].failedFor
              /\ \/ flights'[f].holder = flights[f].holder \ {c}
                 \/ flights'[f].holder = flights[f].holder
  BY <1>1, FlightsOfReturn
<1>7. OwnStep(c)
  BY <1>1, <1>4, <1>5, <1>6 DEF OwnStep, Own
<1>8. \A s \in scripts : s.caller # c
  BY <1>1, NoScript
<1>9. ScriptsOK' /\ scripts' \subseteq Scripts
  BY <1>1, <1>3, <1>5, <1>7, <1>8, ScriptSent
<1>10. RuntimeTypeOK'
  BY <1>1, <1>5, <1>6, <1>9 DEF RuntimeIInv, RuntimeTypeOK
<1>11. CallerOK(c)' /\ ~Holds(c)'
  BY <1>1, <1>2, <1>5 DEF CallerOK, Holds
<1>12. MarkOK' /\ TriedOnce'
  BY <1>1, <1>3, <1>4, ClearedMarks DEF HolderOK
<1> QED BY <1>7, <1>9, <1>10, <1>11, <1>12, CallerStep

(* An attempt is marked, and what it replaces is of an earlier document or *)
(* was made for another window.                                            *)
LEMMA AttemptMarks ==
  ASSUME RuntimeIInv, NEW c \in Invocation, NEW p \in caller[c].saw, MayTry(c, p), Tried(c, p),
         UNCHANGED <<epoch, installed>>,
         \A f \in Flights : flights'[f].failedFor = Noted(c, p)[f].failedFor
  PROVE  /\ MarkOK' /\ TriedOnce'
         /\ Own(c, caller[c].flight) /\ caller[c].flight \in Flights
         /\ tried' = tried \cup {[flight |-> caller[c].flight, context |-> Attempt(c, p)]}
         /\ tried' \subseteq [flight: Flights, context: Contexts] /\ IsFiniteSet(tried')
         /\ Attempt(c, p) \in Contexts /\ Attempt(c, p).life = caller[c].life
         /\ Attempt(c, p).epoch = p.epoch /\ p.epoch <= epoch
         /\ \A a \in tried' : a.flight = caller[c].flight => a.context.epoch <= p.epoch
<1> USE RuntimeConstants
<1> DEFINE own == caller[c].flight
<1>0. PICK new : new = [flight |-> own, context |-> Attempt(c, p)]
  OBVIOUS
<1>1. caller[c] \in Callers /\ p \in Pages /\ CallerOK(c) /\ epoch \in Nat
  BY DEF RuntimeIInv, RuntimeTypeOK, Callers, Epochs
<1>2. caller[c].at = "probe" /\ caller[c].bound = NoContext /\ p.epoch <= epoch
  BY <1>1 DEF CallerOK, MayTry
<1>3. Holds(c) /\ own \in Flights /\ caller[c].life \in Lives /\ HolderOK(c)
  BY <1>1, <1>2 DEF Holds, CallerOK, RuntimeIInv
<1>4. p.epoch \in Epochs /\ p.epoch \in Nat /\ ~p.suspended /\ ~Ready(p)
  BY <1>1 DEF Pages, Epochs, MayTry
<1>5. IsFiniteSet(tried) /\ Cardinality(tried) \in Nat
  BY FS_CardinalityType DEF RuntimeIInv, RuntimeTypeOK
<1>6. /\ Attempt(c, p) \in Contexts /\ Attempt(c, p).life = caller[c].life
      /\ Attempt(c, p).epoch = p.epoch
  BY <1>3, <1>4, <1>5 DEF Attempt, Contexts
<1>7. tried' = tried \cup {new} /\ new.flight = own /\ new.context = Attempt(c, p)
  BY <1>0 DEF Tried
<1>8. tried' \subseteq [flight: Flights, context: Contexts] /\ IsFiniteSet(tried')
  <2>1. new \in [flight: Flights, context: Contexts]
    BY <1>0, <1>3, <1>6
  <2>2. IsFiniteSet(tried \cup {new})
    BY <1>5, FS_AddElement
  <2> QED BY <1>7, <2>1, <2>2 DEF RuntimeIInv, RuntimeTypeOK
<1>9. \A a \in tried : a.context.epoch \in Nat /\ a.context.life \in Lives /\ a.flight \in Flights
  BY DEF RuntimeIInv, RuntimeTypeOK, Contexts, Epochs
<1>10. \A a \in tried' : a.flight = own => a.context.epoch <= p.epoch
  BY <1>3, <1>4, <1>6, <1>7 DEF HolderOK
<1>11. \A f \in Flights : flights'[f].failedFor = IF f = own THEN {Key(c, p)} ELSE flights[f].failedFor
  <2>1. flights \in [Flights -> [holder: SUBSET Invocation, failedFor: SUBSET Keys]]
    BY DEF RuntimeIInv, RuntimeTypeOK
  <2> QED BY <1>3, <2>1 DEF Noted
<1>12. Key(c, p) = [life |-> caller[c].life, epoch |-> p.epoch]
  BY DEF Key
<1>13. \A a \in tried : Excused(a) => Excused(a)'
  BY <1>7 DEF Excused
<1>14. \A a \in tried : (a.flight = own /\ a.context.epoch = p.epoch) =>
         \/ KeyOf(a) = Key(c, p)
         \/ Excused(a)'
  <2> SUFFICES ASSUME NEW a \in tried, a.flight = own, a.context.epoch = p.epoch,
                      KeyOf(a) # Key(c, p)
               PROVE  Excused(a)'
    OBVIOUS
  <2>1. a.context.life # caller[c].life
    BY <1>12 DEF KeyOf
  <2> QED BY <1>6, <1>7, <2>1 DEF Excused
<1>15. MarkOK'
  <2>1. ASSUME NEW a \in tried
        PROVE  /\ a.context.epoch <= epoch
               /\ \/ Marked(a)' \/ a.context.epoch < epoch
                  \/ \E j \in installed : j.epoch = a.context.epoch
    <3>1. CASE a.flight = own /\ a.context.epoch = p.epoch
      <4>1. Marked(a)'
        BY <1>3, <1>11, <1>14, <3>1 DEF Marked, KeyOf
      <4> QED BY <4>1 DEF RuntimeIInv, MarkOK
    <3>2. CASE a.flight = own /\ a.context.epoch # p.epoch
      <4>1. a.context.epoch < epoch
        BY <1>1, <1>2, <1>4, <1>7, <1>9, <1>10, <3>2
      <4> QED BY <4>1 DEF RuntimeIInv, MarkOK
    <3>3. CASE a.flight # own
      BY <1>9, <1>11, <1>13, <3>3 DEF RuntimeIInv, MarkOK, Marked, KeyOf
    <3> QED BY <3>1, <3>2, <3>3
  <2>2. new.context.epoch <= epoch /\ Marked(new)'
    <3>1. KeyOf(new) = Key(c, p)
      BY <1>6, <1>7, <1>12 DEF KeyOf
    <3>2. KeyOf(new) \in flights'[new.flight].failedFor
      BY <1>3, <1>7, <1>11, <3>1
    <3> QED BY <1>2, <1>6, <1>7, <3>2 DEF Marked, KeyOf
  <2> QED BY <1>7, <2>1, <2>2 DEF MarkOK
<1>16. TriedOnce'
  <2>1. ASSUME NEW a \in tried, a.flight = own, a.context.epoch = p.epoch
        PROVE  Excused(a)' /\ Excused(new)'
    <3>1. Marked(a) /\ Key(c, p) \notin flights[own].failedFor
      BY <1>3, <1>4, <2>1 DEF HolderOK, MayTry
    <3>2. CASE Excused(a)
      <4>1. PICK b \in tried : b.flight = own /\ b.context.epoch = p.epoch /\ b.context.life # a.context.life
        BY <2>1, <3>2 DEF Excused
      <4>2. CASE a.context.life # caller[c].life
        BY <1>6, <1>7, <2>1, <4>2 DEF Excused
      <4>3. CASE a.context.life = caller[c].life
        BY <1>6, <1>7, <1>13, <2>1, <3>2, <4>1, <4>3 DEF Excused
      <4> QED BY <4>2, <4>3
    <3>3. CASE ~Excused(a)
      <4>1. KeyOf(a) \in flights[own].failedFor
        BY <2>1, <3>1, <3>3 DEF Marked
      <4>2. a.context.life # caller[c].life
        BY <1>12, <2>1, <3>1, <4>1 DEF KeyOf
      <4> QED BY <1>6, <1>7, <2>1, <4>2 DEF Excused
    <3> QED BY <3>2, <3>3
  <2>2. \A a, b \in tried : (a.flight = b.flight /\ a.context.epoch = b.context.epoch) =>
          a = b \/ Excused(a)'
    BY <1>13 DEF RuntimeIInv, TriedOnce
  <2> QED BY <1>6, <1>7, <2>1, <2>2 DEF TriedOnce
<1> QED BY <1>0, <1>2, <1>3, <1>6, <1>7, <1>8, <1>10, <1>15, <1>16 DEF Own

LEMMA TryInstallStep ==
  ASSUME RuntimeIInv, NEW c \in Invocation, TryInstall(c)
  PROVE  RuntimeIInv'
<1> USE RuntimeConstants
<1>1. PICK p \in caller[c].saw :
        /\ MayTry(c, p) /\ Tried(c, p) /\ SendInstall(c, p)
        /\ flights' = Noted(c, p)
        /\ UNCHANGED <<life, epoch, document, flight, installed, ran>>
  BY DEF TryInstall
<1> DEFINE attempt == Attempt(c, p)
<1>2. /\ MarkOK' /\ TriedOnce'
      /\ Own(c, caller[c].flight) /\ caller[c].flight \in Flights
      /\ tried' = tried \cup {[flight |-> caller[c].flight, context |-> attempt]}
      /\ tried' \subseteq [flight: Flights, context: Contexts] /\ IsFiniteSet(tried')
      /\ attempt \in Contexts /\ attempt.life = caller[c].life
      /\ attempt.epoch = p.epoch /\ p.epoch <= epoch
      /\ \A a \in tried' : a.flight = caller[c].flight => a.context.epoch <= p.epoch
  BY <1>1, AttemptMarks
<1>3. Goto(c, "install", attempt) /\ Send(c, "install", attempt, "nothing")
  BY <1>1 DEF SendInstall
<1> HIDE DEF attempt
<1>4. attempt # NoContext
  BY <1>2 DEF Contexts, NoContext, Epochs
<1>5. caller[c].answer = "seen" /\ CallerOK(c) /\ caller[c].bound = NoContext
  BY <1>1 DEF RuntimeIInv, CallerOK, MayTry
<1>6. /\ caller' \in [Invocation -> Callers]
      /\ \A d \in Invocation \ {c} : caller'[d] = caller[d]
      /\ caller'[c].at = "install" /\ caller'[c].context = attempt
      /\ caller'[c].answer = "none" /\ caller'[c].saw = {}
      /\ caller'[c].life = caller[c].life /\ caller'[c].flight = caller[c].flight
      /\ caller'[c].bound = caller[c].bound
  BY <1>2, <1>3, WentOn DEF CallerSteps
<1>7. /\ flights' \in [Flights -> [holder: SUBSET Invocation, failedFor: SUBSET Keys]]
      /\ \A f \in Flights : f # caller[c].flight => flights'[f] = flights[f]
      /\ flights'[caller[c].flight].holder = flights[caller[c].flight].holder
  <2>1. flights \in [Flights -> [holder: SUBSET Invocation, failedFor: SUBSET Keys]]
    BY DEF RuntimeIInv, RuntimeTypeOK
  <2>2. Key(c, p) \in Keys
    BY <1>2 DEF Key, Keys, Contexts
  <2> QED BY <1>1, <1>2, <2>1, <2>2 DEF Noted
<1>8. OwnStep(c)
  BY <1>1, <1>2, <1>6, <1>7 DEF OwnStep
<1>9. \A s \in scripts : s.caller # c
  BY <1>5, NoScript
<1>10. ScriptsOK' /\ scripts' \subseteq Scripts
  BY <1>2, <1>3, <1>4, <1>6, <1>8, <1>9, ScriptSent
<1>11. RuntimeTypeOK'
  BY <1>1, <1>2, <1>6, <1>7, <1>10 DEF RuntimeIInv, RuntimeTypeOK
<1>12. CallerOK(c)'
  <2>1. caller[c].life \in Lives /\ flights[caller[c].flight].holder = {c}
    BY <1>2, <1>5 DEF Own, Holds, CallerOK
  <2> QED BY <1>1, <1>2, <1>4, <1>5, <1>6, <1>7, <2>1 DEF CallerOK, Holds
<1>13. HolderOK(c)'
  BY <1>2, <1>6 DEF HolderOK
<1> QED BY <1>2, <1>8, <1>10, <1>11, <1>12, <1>13, CallerStep

LEMMA TryTooLateStep ==
  ASSUME RuntimeIInv, NEW c \in Invocation, TryTooLate(c)
  PROVE  RuntimeIInv'
<1> USE RuntimeConstants
<1>1. PICK p \in caller[c].saw :
        /\ MayTry(c, p) /\ Tried(c, p) /\ Return(c)
        /\ flights' = [Noted(c, p) EXCEPT ![caller[c].flight].holder = @ \ {c}]
        /\ UNCHANGED <<life, epoch, document, flight, scripts, installed, ran>>
  BY DEF TryTooLate
<1>2. flights \in [Flights -> [holder: SUBSET Invocation, failedFor: SUBSET Keys]]
  BY DEF RuntimeIInv, RuntimeTypeOK
<1>3. caller[c].answer = "seen" /\ CallerOK(c) /\ caller[c].flight \in Flights /\ caller[c].life \in Lives /\ p \in Pages
  BY <1>1 DEF RuntimeIInv, RuntimeTypeOK, Callers, CallerOK, MayTry, Holds
<1>4. Key(c, p) \in Keys
  BY <1>3 DEF Key, Keys, Pages
<1>5. Noted(c, p) \in [Flights -> [holder: SUBSET Invocation, failedFor: SUBSET Keys]]
  BY <1>2, <1>3, <1>4 DEF Noted
<1>6. /\ flights' \in [Flights -> [holder: SUBSET Invocation, failedFor: SUBSET Keys]]
      /\ \A f \in Flights : flights'[f].failedFor = Noted(c, p)[f].failedFor
      /\ \A f \in Flights : f # caller[c].flight => flights'[f] = Noted(c, p)[f]
  BY <1>1, <1>3, <1>5
<1>7. \A f \in Flights : f # caller[c].flight => flights'[f] = flights[f]
  BY <1>2, <1>3, <1>6 DEF Noted
<1>8. /\ MarkOK' /\ TriedOnce'
      /\ Own(c, caller[c].flight) /\ caller[c].flight \in Flights
      /\ tried' = tried \cup {[flight |-> caller[c].flight, context |-> Attempt(c, p)]}
      /\ tried' \subseteq [flight: Flights, context: Contexts] /\ IsFiniteSet(tried')
  BY <1>1, <1>6, AttemptMarks
<1>9. /\ caller' \in [Invocation -> Callers]
      /\ \A d \in Invocation \ {c} : caller'[d] = caller[d]
      /\ CallerOK(c)' /\ ~Holds(c)'
  BY <1>1, Returned
<1>10. OwnStep(c)
  BY <1>1, <1>7, <1>8, <1>9 DEF OwnStep
<1>11. ScriptsOK'
  BY <1>1, <1>3, <1>10, NoScript, ScriptsStay
<1>12. RuntimeTypeOK'
  BY <1>1, <1>6, <1>8, <1>9 DEF RuntimeIInv, RuntimeTypeOK
<1> QED BY <1>8, <1>9, <1>10, <1>11, <1>12, CallerStep

(* The deadline passes: what was sent stays out, and nobody waits for it.  *)
LEMMA ExpireStep ==
  ASSUME RuntimeIInv, NEW c \in Invocation, Expire(c)
  PROVE  RuntimeIInv'
<1> USE RuntimeConstants
<1>1. /\ Return(c) /\ flights' = Unlocked(c)
      /\ UNCHANGED <<life, epoch, document, flight, tried, installed, ran>>
  BY DEF Expire
<1>2. \A s \in scripts' :
        \/ s \in scripts /\ s.caller # c
        \/ \E t \in scripts : t.caller = c /\ s = [t EXCEPT !.caller = Abandoned]
  BY DEF Expire
<1>3. \A s \in scripts' : \E t \in scripts :
        /\ s \in Scripts /\ s.kind = t.kind /\ s.context = t.context /\ s.by = t.by
        /\ s.caller # c /\ (s.caller # Abandoned => s = t)
  <2> SUFFICES ASSUME NEW s \in scripts' PROVE \E t \in scripts :
        /\ s \in Scripts /\ s.kind = t.kind /\ s.context = t.context /\ s.by = t.by
        /\ s.caller # c /\ (s.caller # Abandoned => s = t)
    OBVIOUS
  <2>1. \A t \in scripts : t \in Scripts
    BY DEF RuntimeIInv, RuntimeTypeOK
  <2>2. CASE s \in scripts /\ s.caller # c
    BY <2>1, <2>2
  <2>3. CASE \E t \in scripts : t.caller = c /\ s = [t EXCEPT !.caller = Abandoned]
    <3>1. PICK t \in scripts : t.caller = c /\ s = [t EXCEPT !.caller = Abandoned]
      BY <2>3
    <3> QED BY <2>1, <3>1 DEF Scripts
  <2> QED BY <1>2, <2>2, <2>3
<1>4. /\ caller' \in [Invocation -> Callers]
      /\ \A d \in Invocation \ {c} : caller'[d] = caller[d]
      /\ CallerOK(c)' /\ ~Holds(c)'
  BY <1>1, Returned
<1>5. /\ flights' \in [Flights -> [holder: SUBSET Invocation, failedFor: SUBSET Keys]]
      /\ \A f \in Flights :
           /\ flights'[f].failedFor = flights[f].failedFor
           /\ \/ flights'[f].holder = flights[f].holder \ {c}
              \/ flights'[f].holder = flights[f].holder
  BY <1>1 DEF Unlocked, RuntimeIInv, RuntimeTypeOK
<1>6. OwnStep(c)
  BY <1>1, <1>4, <1>5 DEF OwnStep
<1>7. ScriptsOK'
  <2>1. \A s \in scripts' : s.caller # Abandoned => (s.caller \in Invocation \ {c} /\ caller'[s.caller] = caller[s.caller])
    BY <1>3, <1>4 DEF Scripts
  <2>2. ScriptsOK
    BY DEF RuntimeIInv
  <2> QED BY <1>1, <1>3, <2>1, <2>2 DEF ScriptsOK
<1>8. RuntimeTypeOK'
  BY <1>1, <1>3, <1>4, <1>5 DEF RuntimeIInv, RuntimeTypeOK
<1>9. MarkOK' /\ TriedOnce'
  BY <1>1, <1>5, MarksOfStep
<1> QED BY <1>4, <1>6, <1>7, <1>8, <1>9, CallerStep

-----------------------------------------------------------------------------
LEMMA RuntimeStep == RuntimeIInv /\ [RuntimeNext]_runtimeVars => RuntimeIInv'
<1> SUFFICES ASSUME RuntimeIInv, [RuntimeNext]_runtimeVars PROVE RuntimeIInv'
  OBVIOUS
<1>1. CASE Environment
  BY <1>1, EnvironmentStep
<1>2. ASSUME NEW s \in scripts, RunScript(s) PROVE RuntimeIInv'
  BY <1>2, ProbeRuns, InstallRuns, DispatchRuns DEF RunScript
<1>3. ASSUME NEW c \in Invocation, InvocationStep(c) PROVE RuntimeIInv'
  <2>1. CASE Enter(c, NoContext) \/ Enter(c, caller[c].context)
    BY <2>1, EnterStep
  <2>2. CASE ProbeBound(c)
    BY <2>2, ProbeBoundStep
  <2>3. CASE JoinFlight(c)
    BY <2>3, JoinFlightStep
  <2>4. CASE LockFlight(c)
    BY <2>4, LockFlightStep
  <2>5. CASE SeenReady(c)
    BY <2>5, SeenReadyStep
  <2>6. CASE TryInstall(c)
    BY <2>6, TryInstallStep
  <2>7. CASE TryTooLate(c)
    BY <2>7, TryTooLateStep
  <2>8. CASE SeenUnusable(c)
    <3>1. caller[c].answer = "seen"
      BY <2>8 DEF SeenUnusable, RuntimeIInv, CallerOK
    <3> QED BY <2>8, <3>1, PlainReturn DEF SeenUnusable
  <2>9. CASE Installed(c)
    BY <2>9, InstalledStep
  <2>10. CASE InstallRejected(c)
    BY <2>10, PlainReturn DEF InstallRejected
  <2>11. CASE Dispatched(c)
    BY <2>11, PlainReturn DEF Dispatched
  <2>12. CASE Expire(c)
    BY <2>12, ExpireStep
  <2> QED BY <1>3, <2>1, <2>2, <2>3, <2>4, <2>5, <2>6, <2>7, <2>8, <2>9, <2>10, <2>11, <2>12
          DEF InvocationStep
<1>4. CASE UNCHANGED runtimeVars
  BY <1>4 DEF runtimeVars, RuntimeIInv, RuntimeTypeOK, DocumentOK, ScriptsOK, MarkOK, CallerOK,
              Holds, HolderOK, Marked, Excused, TriedOnce, RunsWhereConfirmed
<1> QED BY <1>1, <1>2, <1>3, <1>4 DEF RuntimeNext

(* The invariant holds in every state that callers, scripts, documents and *)
(* windows reach (src/plugin/src/runtime/manager.rs, RuntimeManager).      *)
THEOREM RuntimeInvariance == RuntimeSpec => []RuntimeIInv
BY InitRuntime, RuntimeStep, PTL DEF RuntimeSpec

(* A document gets at most one runtime in each of its epochs, and a flight *)
(* makes one attempt there for a window, whatever answers are lost, unless *)
(* a caller with a window that is gone tried in between (manager.rs:217).  *)
THEOREM OneRuntime == RuntimeSpec => []OneRuntimePerDocument
<1>1. RuntimeIInv => OneRuntimePerDocument
  BY DEF RuntimeIInv, DocumentOK, OneRuntimePerDocument, AcceptedOnce
<1> QED BY <1>1, RuntimeInvariance, PTL

(* An operation runs in the epoch its context is of, and that of a caller  *)
(* who installed the runtime in the window that it looked up               *)
(* (manager.rs:235, installer.js, dispatch).                               *)
THEOREM RunsAreConfirmed == RuntimeSpec => []RunsWhereConfirmed
<1>1. RuntimeIInv => RunsWhereConfirmed
  BY DEF RuntimeIInv
<1> QED BY <1>1, RuntimeInvariance, PTL

-----------------------------------------------------------------------------
(* Discovery: the application of a client                                  *)

Ports == Port \cup {NoPort}
Pids == Pid \cup {0}
ProcSteps == {"off", "bound", "failing", "idle", "recording", "renaming", "renamingFailure",
              "serving", "removing", "gone"}
Records == [proc: Proc, pid: Pids, failed: BOOLEAN, port: Ports]

StartupTypeOK ==
  /\ proc \in [Proc -> [at: ProcSteps, pid: Pids, port: Ports, hasFile: BOOLEAN]]
  /\ pidFile \in [Dirs -> Records \cup {NoRecord}]
  /\ tmpFile \in [Dirs -> Records \cup {NoRecord}]

Before == {"reading", "probing", "reconnecting", "connecting"}
InCall == Before \cup {"verifying", "reverifying", "calling"}
ClientStates ==
  [at: InCall \cup {"idle", "waiting"}, call: 0..MaxCalls, target: Ports,
   peer: Proc \cup {NoProc}, queue: {"none", "open", "closed"}, pin: Proc \cup {NoProc}]

Apps == {App[p] : p \in Proc}
Attachable == [proc: Proc, port: Ports]
Findings ==
  [records: SUBSET Records, hints: SUBSET Records, probed: SUBSET Ports,
   stale: SUBSET Apps, candidates: SUBSET Attachable, nearby: SUBSET Attachable,
   others: SUBSET Attachable, refused: BOOLEAN]

Message ==
  [at: {"new", "queued", "written", "received", "lost"}, by: Proc \cup {NoProc},
   told: {"nothing", "restarted", "error", "not dispatched", "reply", "outcome unknown"}]

DiscoveryTypeOK ==
  /\ clients \in [Client -> ClientStates]
  /\ finds \in [Client -> Findings]
  /\ messages \in [Client -> [1..MaxCalls -> Message]]

(* A client in state k with the calls ms: the one it is at has not been    *)
(* sent and nothing was told of it, nor of those that it comes to later.   *)
AtItsCall(k, ms) ==
  /\ k.at # "idle" => k.call # 0
  /\ k.at \in InCall => (ms[k.call].at = "new" /\ ms[k.call].told = "nothing")
  /\ \A n \in 1..MaxCalls : n > k.call => (ms[n].at = "new" /\ ms[n].told = "nothing")

(* An open queue ends at a process, at the pin once it serves for calls.   *)
ForCalls == {"idle", "calling", "waiting"}

ConnectionOK(k) ==
  /\ k.at \in Before => k.queue # "open"
  /\ (k.queue = "open" /\ k.at \in ForCalls) => k.peer = k.pin
  /\ k.queue = "open" => k.peer \in Proc

(* What is queued is on such a connection; what anybody got, the pin got.  *)
CallOK(k, m) ==
  /\ m.at = "queued" => (k.queue = "open" /\ k.at \in ForCalls)
  /\ m.at \in {"written", "received"} => (m.by = k.pin /\ k.pin \in Proc)
  /\ m.at # "new" => m.told \in {"nothing", "reply", "outcome unknown"}
  /\ m.told = "reply" => m.at = "received"

CallsOK(k, ms) ==
  /\ AtItsCall(k, ms) /\ ConnectionOK(k)
  /\ \A n \in 1..MaxCalls : CallOK(k, ms[n])

Named(f) == {App[r.proc] : r \in f.records}
Evidence(f) == f.refused \/ f.stale # {} \/ f.candidates # {} \/ f.nearby # {}

(* What client c found, as long as it insists on nothing.                  *)
FindsOK(c, f) ==
  Wants[c] = AnyApp =>
    /\ f.hints \subseteq f.records
    /\ \A o \in f.candidates : App[o.proc] \in Workspace[c]
    /\ \A o \in f.nearby : App[o.proc] \in Named(f)
    /\ f.stale \subseteq Named(f)
    /\ f.hints # f.records => Evidence(f)
    /\ (f.hints # {} /\ f.probed # {}) => Evidence(f)

ChoiceOK(c, k, f) ==
  (k.at = "connecting" /\ Wants[c] = AnyApp /\ c \notin OptIn /\ f.records # {} /\ ~f.refused)
    => App[k.pin] \in Named(f) \cup Workspace[c]

ClientOK(c, k, f, ms) == CallsOK(k, ms) /\ FindsOK(c, f) /\ ChoiceOK(c, k, f)

DiscoveryIInv ==
  /\ StartupTypeOK /\ DiscoveryTypeOK
  /\ \A c \in Client : ClientOK(c, clients[c], finds[c], messages[c])

-----------------------------------------------------------------------------
(* The processes keep to their types                                       *)

(* A process starts, records itself, fails, ends or dies.                  *)
LEMMA StartupTyped ==
  ASSUME StartupTypeOK, StartupStep
  PROVE  StartupTypeOK'
<1> USE StartupConstants
<1>1. PICK p \in Proc :
        \/ Launch(p) \/ FailStart(p) \/ LookBeforeFailing(p) \/ WriteRecord(p)
        \/ RenameRecord(p) \/ CannotRecord(p) \/ BeginExit(p) \/ RemoveOwnFile(p) \/ Die(p)
  BY DEF StartupStep
<1>2. Dir[p] \in Dirs
  BY DEF Dirs
<1>3. /\ \A at \in ProcSteps :
           [proc[p] EXCEPT !.at = at]
             \in [at: ProcSteps, pid: Pids, port: Ports, hasFile: BOOLEAN]
      /\ Gone \in [at: ProcSteps, pid: Pids, port: Ports, hasFile: BOOLEAN]
      /\ \A failed \in BOOLEAN : RecordOf(p, failed) \in Records
  BY DEF StartupTypeOK, ProcSteps, Gone, Pids, Ports, RecordOf, Records
<1>4. ASSUME NEW at \in ProcSteps, Goes(p, at)
      PROVE  proc' \in [Proc -> [at: ProcSteps, pid: Pids, port: Ports, hasFile: BOOLEAN]]
  BY <1>3, <1>4 DEF Goes, StartupTypeOK
<1>5. ASSUME Ends(p)
      PROVE  proc' \in [Proc -> [at: ProcSteps, pid: Pids, port: Ports, hasFile: BOOLEAN]]
  BY <1>3, <1>5 DEF Ends, StartupTypeOK
<1>6. CASE Launch(p)
  <2>1. PICK pid \in Pids, port \in Ports :
          proc' = [proc EXCEPT ![p].at = "bound", ![p].pid = pid, ![p].port = port]
    BY <1>6 DEF Launch, Pids, Ports
  <2>2. PICK half \in [Proc -> [at: ProcSteps, pid: Pids, port: Ports, hasFile: BOOLEAN]] :
          half = [proc EXCEPT ![p].at = "bound", ![p].pid = pid]
    BY DEF StartupTypeOK, ProcSteps
  <2>3. proc' = [half EXCEPT ![p].port = port]
    BY <2>1, <2>2
  <2>4. PICK r : r = [half[p] EXCEPT !.port = port]
    OBVIOUS
  <2>5. r \in [at: ProcSteps, pid: Pids, port: Ports, hasFile: BOOLEAN]
    BY <2>2, <2>4
  <2>6. proc' = [half EXCEPT ![p] = r]
    BY <2>3, <2>4
  <2>7. proc' \in [Proc -> [at: ProcSteps, pid: Pids, port: Ports, hasFile: BOOLEAN]]
    BY <2>2, <2>5, <2>6
  <2> QED BY <1>6, <2>7 DEF Launch, StartupTypeOK
<1>7. CASE FailStart(p)
  BY <1>7 DEF FailStart, StartupTypeOK, ProcSteps, Pids, Ports
<1>8. CASE LookBeforeFailing(p)
  BY <1>4, <1>8 DEF LookBeforeFailing, StartupTypeOK, ProcSteps
<1>9. CASE WriteRecord(p)
  <2>1. proc' \in [Proc -> [at: ProcSteps, pid: Pids, port: Ports, hasFile: BOOLEAN]]
    BY <1>4, <1>9 DEF WriteRecord, ProcSteps
  <2> QED BY <1>2, <1>3, <1>9, <2>1 DEF WriteRecord, StartupTypeOK
<1>10. CASE RenameRecord(p)
  <2>1. PICK at \in ProcSteps, has \in BOOLEAN :
          proc' = [proc EXCEPT ![p].at = at, ![p].hasFile = has]
    BY <1>10 DEF RenameRecord, ProcSteps
  <2>2. proc' \in [Proc -> [at: ProcSteps, pid: Pids, port: Ports, hasFile: BOOLEAN]]
    BY <2>1 DEF StartupTypeOK
  <2> QED BY <1>2, <1>10, <2>2 DEF RenameRecord, StartupTypeOK
<1>11. CASE CannotRecord(p)
  BY <1>4, <1>11 DEF CannotRecord, StartupTypeOK, ProcSteps
<1>12. CASE BeginExit(p)
  BY <1>4, <1>5, <1>12 DEF BeginExit, StartupTypeOK, ProcSteps
<1>13. CASE RemoveOwnFile(p)
  BY <1>2, <1>5, <1>13 DEF RemoveOwnFile, StartupTypeOK
<1>14. CASE Die(p)
  BY <1>5, <1>14 DEF Die, StartupTypeOK
<1> QED BY <1>1, <1>6, <1>7, <1>8, <1>9, <1>10, <1>11, <1>12, <1>13, <1>14

-----------------------------------------------------------------------------
(* What the updates of a client and of its calls change                    *)

Words == {"nothing", "restarted", "error", "not dispatched", "reply", "outcome unknown"}
Places == {"new", "queued", "written", "received", "lost"}
CallLists == [1..MaxCalls -> Message]

LEMMA AtChanges ==
  ASSUME NEW k \in ClientStates, NEW at \in InCall \cup {"idle", "waiting"}
  PROVE  LET next == [k EXCEPT !.at = at]
         IN /\ next \in ClientStates /\ next.at = at
            /\ next.call = k.call /\ next.target = k.target /\ next.peer = k.peer
            /\ next.queue = k.queue /\ next.pin = k.pin
  BY DEF ClientStates

(* Call n is told a word, is moved to a place, is written to a process.    *)
Told(ms, n, word) == [ms EXCEPT ![n].told = word]

LEMMA ToldChanges ==
  ASSUME NEW ms \in CallLists, NEW n \in 1..MaxCalls, NEW word \in Words
  PROVE  /\ Told(ms, n, word) \in CallLists
         /\ \A j \in 1..MaxCalls : /\ Told(ms, n, word)[j].at = ms[j].at
                                   /\ Told(ms, n, word)[j].by = ms[j].by
                                   /\ j = n => Told(ms, n, word)[j].told = word
                                   /\ j # n => Told(ms, n, word)[j].told = ms[j].told
<1> DEFINE e == [ms[n] EXCEPT !.told = word]
<1>0. e \in Message /\ e.at = ms[n].at /\ e.by = ms[n].by /\ e.told = word
  <2>1. ms[n] \in Message
    BY DEF CallLists
  <2> QED BY <2>1 DEF Message, Words
<1>1. PICK m : m = e /\ m \in Message /\ m.at = ms[n].at /\ m.by = ms[n].by /\ m.told = word
  <2> HIDE DEF e
  <2> QED BY <1>0
<1>2. PICK next : next = Told(ms, n, word)
  OBVIOUS
<1>3. next = [ms EXCEPT ![n] = m]
  BY <1>1, <1>2 DEF CallLists, Told
<1> HIDE DEF e
<1>4. next \in CallLists /\ next[n] = m /\ \A j \in 1..MaxCalls : j # n => next[j] = ms[j]
  BY <1>1, <1>3 DEF CallLists
<1> QED BY <1>1, <1>2, <1>4

Moved(ms, n, place) == [ms EXCEPT ![n].at = place]

LEMMA PlaceChanges ==
  ASSUME NEW ms \in CallLists, NEW n \in 1..MaxCalls, NEW place \in Places
  PROVE  /\ Moved(ms, n, place) \in CallLists
         /\ \A j \in 1..MaxCalls : /\ Moved(ms, n, place)[j].told = ms[j].told
                                   /\ Moved(ms, n, place)[j].by = ms[j].by
                                   /\ j = n => Moved(ms, n, place)[j].at = place
                                   /\ j # n => Moved(ms, n, place)[j].at = ms[j].at
<1> DEFINE e == [ms[n] EXCEPT !.at = place]
<1>0. e \in Message /\ e.told = ms[n].told /\ e.by = ms[n].by /\ e.at = place
  <2>1. ms[n] \in Message
    BY DEF CallLists
  <2> QED BY <2>1 DEF Message, Places
<1>1. PICK m : m = e /\ m \in Message /\ m.told = ms[n].told /\ m.by = ms[n].by /\ m.at = place
  <2> HIDE DEF e
  <2> QED BY <1>0
<1>2. PICK next : next = Moved(ms, n, place)
  OBVIOUS
<1>3. next = [ms EXCEPT ![n] = m]
  BY <1>1, <1>2 DEF CallLists, Moved
<1> HIDE DEF e
<1>4. next \in CallLists /\ next[n] = m /\ \A j \in 1..MaxCalls : j # n => next[j] = ms[j]
  BY <1>1, <1>3 DEF CallLists
<1> QED BY <1>1, <1>2, <1>4

WrittenTo(ms, n, p) == [ms EXCEPT ![n].at = "written", ![n].by = p]

LEMMA WrittenChanges ==
  ASSUME NEW ms \in CallLists, NEW n \in 1..MaxCalls, NEW p \in Proc
  PROVE  /\ WrittenTo(ms, n, p) \in CallLists
         /\ \A j \in 1..MaxCalls : /\ WrittenTo(ms, n, p)[j].told = ms[j].told
                                   /\ j = n => WrittenTo(ms, n, p)[j].at = "written"
                                   /\ j = n => WrittenTo(ms, n, p)[j].by = p
                                   /\ j # n => WrittenTo(ms, n, p)[j].at = ms[j].at
                                   /\ j # n => WrittenTo(ms, n, p)[j].by = ms[j].by
<1> DEFINE e == [ms[n] EXCEPT !.at = "written", !.by = p]
<1>0. e \in Message /\ e.told = ms[n].told /\ e.by = p /\ e.at = "written"
  <2>1. ms[n] \in Message
    BY DEF CallLists
  <2> QED BY <2>1 DEF Message
<1>1. PICK m : m = e /\ m \in Message /\ m.told = ms[n].told /\ m.by = p /\ m.at = "written"
  <2> HIDE DEF e
  <2> QED BY <1>0
<1>2. PICK next : next = WrittenTo(ms, n, p)
  OBVIOUS
<1>3. next = [ms EXCEPT ![n] = m]
  BY <1>1, <1>2 DEF CallLists, WrittenTo
<1> HIDE DEF e
<1>4. next \in CallLists /\ next[n] = m /\ \A j \in 1..MaxCalls : j # n => next[j] = ms[j]
  BY <1>1, <1>3 DEF CallLists
<1> QED BY <1>1, <1>2, <1>4

(* What an old connection did not write is dropped with it.                *)
DroppedOf(ms) ==
  [n \in DOMAIN ms |-> IF ms[n].at = "queued" THEN [ms[n] EXCEPT !.at = "lost"] ELSE ms[n]]

LEMMA DroppedChanges ==
  ASSUME NEW ms \in CallLists
  PROVE  LET next == DroppedOf(ms)
         IN /\ next \in CallLists
            /\ \A j \in 1..MaxCalls :
                 /\ next[j].told = ms[j].told /\ next[j].by = ms[j].by
                 /\ next[j].at = IF ms[j].at = "queued" THEN "lost" ELSE ms[j].at
<1>1. ASSUME NEW j \in 1..MaxCalls
      PROVE  /\ DroppedOf(ms)[j] \in Message
             /\ DroppedOf(ms)[j].told = ms[j].told /\ DroppedOf(ms)[j].by = ms[j].by
             /\ DroppedOf(ms)[j].at = IF ms[j].at = "queued" THEN "lost" ELSE ms[j].at
  <2>1. ms[j] \in Message /\ DOMAIN ms = 1..MaxCalls
    BY DEF CallLists
  <2> QED BY <2>1 DEF DroppedOf, Message
<1>2. DOMAIN ms = 1..MaxCalls
  BY DEF CallLists
<1> QED BY <1>1, <1>2 DEF CallLists, DroppedOf

-----------------------------------------------------------------------------
(* Calls and connections                                                   *)

(* What follows the call a client is at is another call.                   *)
LEMMA CallNumbers ==
  ASSUME NEW n \in 0..MaxCalls
  PROVE  /\ n # 0 => n \in 1..MaxCalls
         /\ \A i \in 1..MaxCalls : i > n => i # n
  BY DiscoveryConstants

(* Before it is sent, a call is one of the client's and nobody has it.     *)
LEMMA InACall ==
  ASSUME NEW k \in ClientStates, NEW ms, CallsOK(k, ms), k.at \in InCall
  PROVE  /\ k.call \in 1..MaxCalls
         /\ ms[k.call].at = "new" /\ ms[k.call].told = "nothing"
<1>1. k.call # 0 /\ ms[k.call].at = "new" /\ ms[k.call].told = "nothing"
  BY DEF CallsOK, AtItsCall, InCall, Before
<1>2. k.call \in 0..MaxCalls
  BY DEF ClientStates
<1> QED BY <1>1, <1>2, DiscoveryConstants

(* A client that had no open connection gives the call up.                 *)
LEMMA GivesUp ==
  ASSUME NEW k \in ClientStates, NEW ms \in CallLists, CallsOK(k, ms), k.at \in Before,
         NEW j \in ClientStates, j.at = "idle", j.call = k.call, j.queue = k.queue,
         j.pin = k.pin,
         NEW word \in {"restarted", "error"}, NEW next \in CallLists,
         \A n \in 1..MaxCalls : /\ next[n].at = ms[n].at /\ next[n].by = ms[n].by
                                /\ n = k.call => next[n].told = word
                                /\ n # k.call => next[n].told = ms[n].told
  PROVE  CallsOK(j, next)
<1>1. /\ k.call \in 1..MaxCalls /\ ms[k.call].at = "new" /\ k.call # 0
      /\ k.queue # "open"
  <2>1. k.at \in InCall
    BY DEF InCall
  <2> QED BY <2>1, InACall, DiscoveryConstants DEF CallsOK, ConnectionOK
<1>2. AtItsCall(j, next)
  <2>1. \A n \in 1..MaxCalls : n > k.call => (ms[n].at = "new" /\ ms[n].told = "nothing")
    BY DEF CallsOK, AtItsCall
  <2>2. j.at \notin InCall
    BY DEF InCall, Before
  <2>3. ASSUME NEW n \in 1..MaxCalls, n > k.call
        PROVE  next[n].at = "new" /\ next[n].told = "nothing"
    <3>1. n # k.call
      BY <1>1, <2>3, DiscoveryConstants
    <3> QED BY <2>1, <2>3, <3>1
  <2> QED BY <1>1, <2>2, <2>3 DEF AtItsCall
<1>3. ASSUME NEW n \in 1..MaxCalls
      PROVE  CallOK(j, next[n])
  <2>1. CallOK(k, ms[n]) /\ ms[n].at # "queued"
    BY <1>1 DEF CallsOK, CallOK
  <2>2. CASE n = k.call
    <3>1. next[n].at = "new" /\ next[n].told # "reply"
      BY <1>1, <2>2
    <3> QED BY <3>1 DEF CallOK
  <2>3. CASE n # k.call
    <3>1. next[n].at = ms[n].at /\ next[n].by = ms[n].by /\ next[n].told = ms[n].told
      BY <2>3
    <3> QED BY <2>1, <3>1 DEF CallOK
  <2> QED BY <2>2, <2>3
<1>4. ConnectionOK(j)
  BY <1>1 DEF ConnectionOK, Before
<1> QED BY <1>2, <1>3, <1>4 DEF CallsOK
-----------------------------------------------------------------------------
(* A step of a client, by the values it leaves                             *)

Becomes(c, k, f, ms) ==
  /\ clients' = [clients EXCEPT ![c] = k]
  /\ finds' = [finds EXCEPT ![c] = f]
  /\ messages' = [messages EXCEPT ![c] = ms]

(* The invariant is kept when what the client holds then agrees; nothing   *)
(* else has changed.                                                       *)
LEMMA Stepped ==
  ASSUME DiscoveryIInv, UNCHANGED startupVars, NEW c \in Client,
         NEW k \in ClientStates, NEW f \in Findings, NEW ms \in CallLists,
         Becomes(c, k, f, ms), ClientOK(c, k, f, ms)
  PROVE  DiscoveryIInv'
<1>1. StartupTypeOK'
  BY DEF DiscoveryIInv, StartupTypeOK, startupVars
<1>2. /\ clients' \in [Client -> ClientStates] /\ finds' \in [Client -> Findings]
      /\ messages' \in [Client -> CallLists]
  <2> HIDE DEF ClientStates, Findings, CallLists
  <2> QED BY DEF DiscoveryIInv, DiscoveryTypeOK, Becomes, CallLists
<1>3. ASSUME NEW d \in Client
      PROVE  ClientOK(d, clients'[d], finds'[d], messages'[d])
  <2>1. CASE d = c
    BY <2>1 DEF DiscoveryIInv, DiscoveryTypeOK, Becomes
  <2>2. CASE d # c
    BY <2>2 DEF DiscoveryIInv, DiscoveryTypeOK, Becomes
  <2> QED BY <2>1, <2>2
<1> QED BY <1>1, <1>2, <1>3 DEF DiscoveryIInv, DiscoveryTypeOK, CallLists,
          ClientOK, CallsOK, AtItsCall, ConnectionOK, CallOK, FindsOK, ChoiceOK, Named, Evidence,
          Records, Apps, Attachable

(* The values before the step.                                             *)
LEMMA ClientNow ==
  ASSUME DiscoveryIInv, NEW c \in Client
  PROVE  /\ clients[c] \in ClientStates /\ finds[c] \in Findings
         /\ messages[c] \in CallLists
         /\ ClientOK(c, clients[c], finds[c], messages[c])
         /\ clients = [clients EXCEPT ![c] = clients[c]]
         /\ finds = [finds EXCEPT ![c] = finds[c]]
         /\ messages = [messages EXCEPT ![c] = messages[c]]
<1> HIDE DEF ClientStates, Findings, CallLists
<1> QED BY DEF DiscoveryIInv, DiscoveryTypeOK, CallLists

LEMMA ReadRecordsStep ==
  ASSUME DiscoveryIInv, NEW c \in Client, ReadRecords(c)
  PROVE  DiscoveryIInv'
<1> DEFINE k == clients[c]
           ms == messages[c]
           read == {pidFile[d] : d \in Near[c]} \ {NoRecord}
           kept == {r \in read : Wanted(c, r.proc)}
           g == [NoFinds EXCEPT !.records = kept, !.hints = kept]
           j == [k EXCEPT !.at = "probing"]
<1>1. k \in ClientStates /\ ms \in CallLists /\ CallsOK(k, ms)
  BY ClientNow DEF ClientOK
<1>2. k.at = "reading"
  BY DEF ReadRecords
<1>3. kept \subseteq Records
  BY DiscoveryConstants DEF DiscoveryIInv, StartupTypeOK
<1>4. /\ g \in Findings /\ g.records = kept /\ g.hints = kept /\ g.stale = {}
      /\ g.candidates = {} /\ g.nearby = {} /\ g.probed = {} /\ ~g.refused
  BY <1>3 DEF NoFinds, Findings
<1>5. /\ j \in ClientStates /\ j.at = "probing" /\ j.call = k.call
      /\ j.queue = k.queue /\ j.peer = k.peer /\ j.pin = k.pin
  BY <1>1, AtChanges DEF InCall, Before
<1>6. Becomes(c, j, g, ms)
  BY ClientNow DEF ReadRecords, ClientAt, Found, Becomes
<1> HIDE DEF k, ms, kept, g, j
<1>7. CallsOK(j, ms)
  BY <1>1, <1>2, <1>5 DEF CallsOK, AtItsCall, ConnectionOK, CallOK, Before, InCall
<1>8. FindsOK(c, g) /\ ChoiceOK(c, j, g)
  BY <1>4, <1>5 DEF FindsOK, ChoiceOK
<1> QED BY <1>1, <1>4, <1>5, <1>6, <1>7, <1>8, Stepped DEF ReadRecords, ClientOK

(* One hint less, and evidence for it.                                     *)
LEMMA HintSettled ==
  ASSUME NEW c \in Client, NEW f \in Findings, NEW g \in Findings, NEW hint \in f.hints,
         FindsOK(c, f), g.records = f.records, g.hints = f.hints \ {hint},
         Wants[c] = AnyApp =>
           /\ \A o \in g.candidates \ f.candidates : App[o.proc] \in Workspace[c]
           /\ \A o \in g.nearby \ f.nearby : App[o.proc] \in Named(f)
           /\ g.stale \ f.stale \subseteq Named(f)
           /\ Evidence(g)
  PROVE  FindsOK(c, g)
  BY DEF FindsOK, Named

(* Whoever answers at the port of a record leaves evidence, unless the     *)
(* client insists on another application.                                  *)
LEMMA HintAnsweredFinds ==
  ASSUME NEW c \in Client, NEW f \in Findings, NEW p \in Proc, NEW hint \in Records
  PROVE  LET g == HintAnswered(c, f, p, hint)
         IN /\ g \in Findings /\ g.records = f.records /\ g.hints = f.hints
            /\ g.probed = f.probed
            /\ \A o \in g.candidates \ f.candidates :
                 o.proc = p /\ (Constrained(c) \/ App[p] \in Workspace[c])
            /\ \A o \in g.nearby \ f.nearby : o.proc = hint.proc
            /\ g.stale \ f.stale \subseteq {App[hint.proc]}
            /\ Wants[c] = AnyApp => Evidence(g)
<1> DEFINE g == HintAnswered(c, f, p, hint)
           found == [proc |-> p, port |-> hint.port]
<1>1. found \in Attachable /\ found.proc = p /\ App[hint.proc] \in Apps
  BY DEF Attachable, Records, Apps
<1>2. CASE p \in Refusing
  <2>1. g = [f EXCEPT !.refused = TRUE]
    BY <1>2 DEF HintAnswered
  <2> HIDE DEF g
  <2> QED BY <2>1 DEF Findings, Evidence, g
<1>3. CASE p \notin Refusing /\ ~Wanted(c, p)
  <2>1. g = f
    BY <1>3 DEF HintAnswered
  <2>2. Wants[c] # AnyApp
    BY <1>3 DEF Wanted
  <2> HIDE DEF g
  <2> QED BY <2>1, <2>2 DEF g
<1>4. CASE p \notin Refusing /\ Wanted(c, p) /\ ~Proves(p, hint)
  <2>1. g = [f EXCEPT !.stale = @ \cup {App[hint.proc]}]
    BY <1>4 DEF HintAnswered
  <2>2. /\ g \in Findings /\ g.records = f.records /\ g.hints = f.hints
        /\ g.probed = f.probed /\ g.candidates = f.candidates /\ g.nearby = f.nearby
        /\ g.stale = f.stale \cup {App[hint.proc]}
    BY <1>1, <2>1 DEF Findings
  <2> HIDE DEF g
  <2> QED BY <2>2 DEF Evidence, g
<1>5. CASE /\ p \notin Refusing /\ Wanted(c, p) /\ Proves(p, hint)
           /\ Constrained(c) \/ App[p] \in Workspace[c]
  <2>1. g = [f EXCEPT !.candidates = @ \cup {found}]
    BY <1>5 DEF HintAnswered
  <2>2. /\ g \in Findings /\ g.records = f.records /\ g.hints = f.hints
        /\ g.probed = f.probed /\ g.candidates = f.candidates \cup {found}
        /\ g.nearby = f.nearby /\ g.stale = f.stale
    BY <1>1, <2>1 DEF Findings
  <2> HIDE DEF g, found
  <2> QED BY <1>1, <1>5, <2>2 DEF Evidence, g
<1>6. CASE /\ p \notin Refusing /\ Wanted(c, p) /\ Proves(p, hint)
           /\ ~(Constrained(c) \/ App[p] \in Workspace[c])
  <2>1. g = [f EXCEPT !.nearby = @ \cup {found}]
    BY <1>6 DEF HintAnswered
  <2>2. /\ g \in Findings /\ g.records = f.records /\ g.hints = f.hints
        /\ g.probed = f.probed /\ g.candidates = f.candidates
        /\ g.nearby = f.nearby \cup {found} /\ g.stale = f.stale
    BY <1>1, <2>1 DEF Findings
  <2>3. p = hint.proc
    BY <1>6 DEF Proves
  <2> HIDE DEF g, found
  <2> QED BY <1>1, <2>2, <2>3 DEF Evidence, g
<1> QED BY <1>2, <1>3, <1>4, <1>5, <1>6

LEMMA ProbeHintStep ==
  ASSUME DiscoveryIInv, NEW c \in Client, ProbeHint(c)
  PROVE  DiscoveryIInv'
<1> DEFINE k == clients[c]
           ms == messages[c]
           old == finds[c]
<1>1. /\ k \in ClientStates /\ ms \in CallLists /\ old \in Findings
      /\ CallsOK(k, ms) /\ FindsOK(c, old) /\ k.at = "probing"
  BY ClientNow DEF ClientOK, ProbeHint
<1>2. PICK hint \in old.hints :
        LET f == [old EXCEPT !.hints = @ \ {hint}]
            stale == [f EXCEPT !.stale = @ \cup {App[hint.proc]}]
            hopeful(g) == [g EXCEPT !.probed = @ \cup {hint.port}]
        IN IF ~PidIsAlive(hint.pid) \/ hint.failed THEN Found(c, stale)
           ELSE IF hint.port \in f.probed THEN Found(c, f)
           ELSE \/ Found(c, hopeful(stale))
                \/ \E p \in Serving(hint.port) : Found(c, hopeful(HintAnswered(c, f, p, hint)))
  BY DEF ProbeHint
<1>3. /\ hint \in Records /\ hint.port \in Ports /\ App[hint.proc] \in Apps
      /\ Wants[c] = AnyApp => App[hint.proc] \in Named(old)
  <2>1. hint \in Records
    BY <1>1 DEF Findings
  <2> QED BY <1>1, <2>1 DEF Records, Apps, FindsOK, Named
<1> DEFINE f == [old EXCEPT !.hints = @ \ {hint}]
           stale == [f EXCEPT !.stale = @ \cup {App[hint.proc]}]
           hopeful(g) == [g EXCEPT !.probed = @ \cup {hint.port}]
<1>4. /\ f \in Findings /\ f.records = old.records /\ f.hints = old.hints \ {hint}
      /\ f.probed = old.probed /\ f.stale = old.stale /\ f.candidates = old.candidates
      /\ f.nearby = old.nearby /\ f.refused = old.refused
  BY <1>1 DEF Findings
<1>5. /\ stale \in Findings /\ stale.records = old.records /\ stale.hints = f.hints
      /\ stale.stale = old.stale \cup {App[hint.proc]}
      /\ stale.candidates = old.candidates /\ stale.nearby = old.nearby
  <2> HIDE DEF f
  <2> QED BY <1>3, <1>4 DEF Findings
<1>6. ASSUME NEW g \in Findings
      PROVE  /\ hopeful(g) \in Findings /\ hopeful(g).records = g.records
             /\ hopeful(g).hints = g.hints /\ hopeful(g).stale = g.stale
             /\ hopeful(g).candidates = g.candidates /\ hopeful(g).nearby = g.nearby
             /\ hopeful(g).refused = g.refused
  BY <1>3 DEF Findings
<1>7. ASSUME NEW g \in Findings, Found(c, g), FindsOK(c, g)
      PROVE  DiscoveryIInv'
  <2>1. Becomes(c, k, g, ms)
    BY <1>7, ClientNow DEF Becomes, Found, ProbeHint
  <2>2. ChoiceOK(c, k, g)
    BY <1>1 DEF ChoiceOK
  <2> QED BY <1>1, <1>7, <2>1, <2>2, Stepped DEF ProbeHint, ClientOK
<1> HIDE DEF k, ms, old, f, stale, hopeful
<1>8. CASE Found(c, stale)
  <2>1. FindsOK(c, stale)
    BY <1>1, <1>3, <1>4, <1>5, HintSettled DEF Evidence
  <2> QED BY <1>5, <1>7, <1>8, <2>1
<1>9. CASE hint.port \in f.probed /\ Found(c, f)
  <2>1. Wants[c] = AnyApp => Evidence(f)
    BY <1>1, <1>4, <1>9 DEF FindsOK, Evidence
  <2>2. FindsOK(c, f)
    BY <1>1, <1>4, <2>1, HintSettled
  <2> QED BY <1>4, <1>7, <1>9, <2>2
<1>10. CASE Found(c, hopeful(stale))
  <2>1. FindsOK(c, hopeful(stale))
    BY <1>1, <1>3, <1>4, <1>5, <1>6, HintSettled DEF Evidence
  <2> QED BY <1>5, <1>6, <1>7, <1>10, <2>1
<1>11. ASSUME NEW p \in Proc, Found(c, hopeful(HintAnswered(c, f, p, hint)))
       PROVE  DiscoveryIInv'
  <2> DEFINE g == HintAnswered(c, f, p, hint)
  <2>1. /\ g \in Findings /\ g.records = f.records /\ g.hints = f.hints
        /\ \A o \in g.candidates \ f.candidates :
             o.proc = p /\ (Constrained(c) \/ App[p] \in Workspace[c])
        /\ \A o \in g.nearby \ f.nearby : o.proc = hint.proc
        /\ g.stale \ f.stale \subseteq {App[hint.proc]}
        /\ Wants[c] = AnyApp => Evidence(g)
    BY <1>3, <1>4, HintAnsweredFinds
  <2> HIDE DEF g
  <2>2. FindsOK(c, hopeful(g))
    <3>1. hopeful(g) \in Findings /\ hopeful(g).records = old.records /\ hopeful(g).hints = old.hints \ {hint}
      BY <1>4, <1>6, <2>1
    <3>2. Wants[c] = AnyApp =>
           /\ \A o \in hopeful(g).candidates \ old.candidates : App[o.proc] \in Workspace[c]
           /\ \A o \in hopeful(g).nearby \ old.nearby : App[o.proc] \in Named(old)
           /\ hopeful(g).stale \ old.stale \subseteq Named(old)
           /\ Evidence(hopeful(g))
      BY <1>3, <1>4, <1>6, <2>1 DEF Evidence, Constrained
    <3> QED BY <1>1, <3>1, <3>2, HintSettled
  <2> QED BY <1>6, <1>7, <1>11, <2>1, <2>2 DEF g
<1> QED BY <1>2, <1>8, <1>9, <1>10, <1>11 DEF f, stale, hopeful, Serving

LEMMA ScanPortStep ==
  ASSUME DiscoveryIInv, NEW c \in Client, ScanPort(c)
  PROVE  DiscoveryIInv'
<1> DEFINE k == clients[c]
           ms == messages[c]
           old == finds[c]
<1>1. /\ k \in ClientStates /\ ms \in CallLists /\ old \in Findings
      /\ CallsOK(k, ms) /\ FindsOK(c, old) /\ k.at = "probing" /\ old.hints = {}
  BY ClientNow DEF ClientOK, ScanPort
<1>2. PICK port \in Port \ old.probed :
       LET f == [old EXCEPT !.probed = @ \cup {port}] IN
       \/ Found(c, f)
       \/ \E p \in Serving(port) \ Refusing :
            LET found == [proc |-> p, port |-> port] IN
            /\ Wanted(c, p)
            /\ IF Constrained(c) \/ App[p] \in Workspace[c]
                 THEN Found(c, [f EXCEPT !.candidates = @ \cup {found}])
                 ELSE Found(c, [f EXCEPT !.others = @ \cup {found}])
  BY DEF ScanPort
<1> DEFINE f == [old EXCEPT !.probed = @ \cup {port}]
           found(p) == [proc |-> p, port |-> port]
<1>3. /\ f \in Findings /\ f.records = old.records /\ f.hints = {}
      /\ f.stale = old.stale /\ f.candidates = old.candidates
      /\ f.nearby = old.nearby /\ f.refused = old.refused
  BY <1>1 DEF Findings, Ports
<1>4. ASSUME NEW g \in Findings, Found(c, g), FindsOK(c, g)
      PROVE  DiscoveryIInv'
  <2>1. Becomes(c, k, g, ms)
    BY <1>4, ClientNow DEF Becomes, Found, ScanPort
  <2>2. ChoiceOK(c, k, g)
    BY <1>1 DEF ChoiceOK
  <2> QED BY <1>1, <1>4, <2>1, <2>2, Stepped DEF ScanPort, ClientOK
<1> HIDE DEF k, ms, old, f
<1>5. FindsOK(c, f)
  BY <1>1, <1>3 DEF FindsOK, Evidence, Named
<1>6. ASSUME NEW p \in Proc
      PROVE  /\ [f EXCEPT !.others = @ \cup {found(p)}] \in Findings
             /\ FindsOK(c, [f EXCEPT !.others = @ \cup {found(p)}])
             /\ [f EXCEPT !.candidates = @ \cup {found(p)}] \in Findings
             /\ (Constrained(c) \/ App[p] \in Workspace[c])
                  => FindsOK(c, [f EXCEPT !.candidates = @ \cup {found(p)}])
  <2>1. found(p) \in Attachable /\ found(p).proc = p
    BY DEF Attachable, Ports
  <2> HIDE DEF found
  <2>2. PICK g : g = [f EXCEPT !.others = @ \cup {found(p)}]
    OBVIOUS
  <2>3. /\ g \in Findings /\ g.records = f.records /\ g.hints = f.hints
        /\ g.stale = f.stale /\ g.candidates = f.candidates
        /\ g.nearby = f.nearby /\ g.refused = f.refused
    BY <1>3, <2>1, <2>2 DEF Findings
  <2>4. FindsOK(c, g)
    BY <1>3, <1>5, <2>3 DEF FindsOK, Evidence, Named
  <2>5. PICK h : h = [f EXCEPT !.candidates = @ \cup {found(p)}]
    OBVIOUS
  <2>6. /\ h \in Findings /\ h.records = f.records /\ h.hints = f.hints
        /\ h.stale = f.stale /\ h.candidates = f.candidates \cup {found(p)}
        /\ h.nearby = f.nearby /\ h.refused = f.refused
    BY <1>3, <2>1, <2>5 DEF Findings
  <2>7. (Constrained(c) \/ App[p] \in Workspace[c]) => FindsOK(c, h)
    BY <1>3, <1>5, <2>1, <2>6 DEF FindsOK, Evidence, Named, Constrained
  <2> QED BY <2>2, <2>3, <2>4, <2>5, <2>6, <2>7
<1>7. CASE Found(c, f)
  BY <1>3, <1>4, <1>5, <1>7
<1>8. ASSUME NEW p \in Proc,
             IF Constrained(c) \/ App[p] \in Workspace[c]
               THEN Found(c, [f EXCEPT !.candidates = @ \cup {found(p)}])
               ELSE Found(c, [f EXCEPT !.others = @ \cup {found(p)}])
      PROVE  DiscoveryIInv'
  BY <1>4, <1>6, <1>8
<1> QED BY <1>2, <1>7, <1>8 DEF f, Serving

(* Whom the gates let through is an application that a record names or     *)
(* whose workspace the client is in.                                       *)
LEMMA ChoiceIsHeeded ==
  ASSUME NEW c \in Client, NEW f \in Findings, FindsOK(c, f), f.hints = {},
         Wants[c] = AnyApp, c \notin OptIn, f.records # {}, ~f.refused,
         NEW r \in Choices(c, f)
  PROVE  App[r.proc] \in Named(f) \cup Workspace[c]
<1>1. CASE f.candidates # {}
  BY <1>1 DEF Choices, FindsOK
<1>2. CASE f.candidates = {} /\ f.nearby # {}
  BY <1>2 DEF Choices, FindsOK
<1>3. CASE f.candidates = {} /\ f.nearby = {}
  <2>1. f.stale # {} /\ f.stale \subseteq Named(f)
    BY <1>3 DEF FindsOK, Evidence
  <2>2. App[r.proc] \in f.stale
    BY <1>3, <2>1 DEF Choices, Fallback, Constrained
  <2> QED BY <2>1, <2>2
<1> QED BY <1>1, <1>2, <1>3

LEMMA ResolveStep ==
  ASSUME DiscoveryIInv, NEW c \in Client, Resolve(c)
  PROVE  DiscoveryIInv'
<1> DEFINE k == clients[c]
           ms == messages[c]
           f == finds[c]
<1>1. /\ k \in ClientStates /\ ms \in CallLists /\ f \in Findings
      /\ CallsOK(k, ms) /\ FindsOK(c, f) /\ k.at = "probing" /\ f.hints = {}
      /\ finds' = [finds EXCEPT ![c] = f]
  BY ClientNow DEF ClientOK, Resolve
<1>2. k.call \in 1..MaxCalls
  <2> HIDE DEF k, ms
  <2> QED BY <1>1, InACall DEF InCall, Before
<1>3. ASSUME NEW word \in {"error", "restarted"}, TellClient(c, word), ClientAt(c, "idle")
      PROVE  DiscoveryIInv'
  <2> DEFINE j == [k EXCEPT !.at = "idle"]
             told == Told(ms, k.call, word)
  <2>1. Becomes(c, j, f, told)
    BY <1>1, <1>3 DEF Becomes, TellClient, ClientAt, Told
  <2>2. /\ j \in ClientStates /\ j.at = "idle" /\ j.call = k.call
        /\ j.queue = k.queue /\ j.peer = k.peer /\ j.pin = k.pin
    BY <1>1, AtChanges
  <2>3. /\ told \in CallLists
        /\ \A i \in 1..MaxCalls : /\ told[i].at = ms[i].at /\ told[i].by = ms[i].by
                                  /\ i = k.call => told[i].told = word
                                  /\ i # k.call => told[i].told = ms[i].told
    <3>1. word \in Words
      BY DEF Words
    <3>2. ms \in CallLists
      BY <1>1
    <3> HIDE DEF k, ms
    <3> QED BY <1>2, <3>1, <3>2, ToldChanges
  <2> HIDE DEF k, ms, f, j, told
  <2>4. CallsOK(j, told)
    BY <1>1, <2>2, <2>3, GivesUp DEF Before
  <2>5. ChoiceOK(c, j, f)
    BY <2>2 DEF ChoiceOK
  <2> QED BY <1>1, <2>1, <2>2, <2>3, <2>4, <2>5, Stepped DEF Resolve, ClientOK
<1> DEFINE choices == Choices(c, f)
<1>4. ASSUME NEW r \in choices, clients[c].pin \in {NoProc, r.proc}, UNCHANGED messages,
             clients' = [clients EXCEPT ![c].at = "connecting", ![c].pin = r.proc,
                                        ![c].target = r.port]
      PROVE  DiscoveryIInv'
  <2>1. r \in Attachable
    BY <1>1 DEF Choices, Fallback, Findings
  <2> DEFINE j == [at |-> "connecting", call |-> k.call, target |-> r.port, peer |-> k.peer,
                   queue |-> k.queue, pin |-> r.proc]
  <2>2. j \in ClientStates
    BY <1>1, <2>1 DEF ClientStates, Attachable, InCall, Before
  <2>3. PICK m : m = j
    OBVIOUS
  <2>4. m = [k EXCEPT !.at = "connecting", !.pin = r.proc, !.target = r.port]
    <3>1. PICK q : q = [k EXCEPT !.at = "connecting", !.pin = r.proc, !.target = r.port]
      OBVIOUS
    <3> HIDE DEF k
    <3>2. q = j
      BY <1>1, <3>1 DEF ClientStates
    <3> QED BY <2>3, <3>1, <3>2
  <2>5. Becomes(c, m, f, ms)
    BY <1>1, <1>4, <2>4, ClientNow DEF Becomes
  <2>6. /\ m \in ClientStates /\ m.at = "connecting" /\ m.call = k.call
        /\ m.queue = k.queue /\ m.peer = k.peer /\ m.pin = r.proc
    BY <2>2, <2>3
  <2>7. k.pin \in {NoProc, r.proc} /\ r.proc \in Proc
    BY <1>4, <2>1 DEF Attachable
  <2>8. ChoiceOK(c, m, f)
    BY <1>1, <1>4, <2>6, ChoiceIsHeeded DEF ChoiceOK
  <2> HIDE DEF k, ms, f, j
  <2>9. CallsOK(m, ms)
    BY <1>1, <2>6, <2>7, DiscoveryConstants
       DEF CallsOK, AtItsCall, ConnectionOK, CallOK, ForCalls, Before, InCall
  <2> QED BY <1>1, <2>5, <2>6, <2>8, <2>9, Stepped DEF Resolve, ClientOK
<1>5. CASE Cardinality(choices) # 1 /\ ClientAt(c, "idle") /\ TellClient(c, "error")
  BY <1>3, <1>5
<1>6. ASSUME NEW r \in choices, clients[c].pin \notin {NoProc, r.proc},
             clients' = [clients EXCEPT ![c].at = "idle", ![c].pin = @, ![c].target = @],
             TellClient(c, IF App[r.proc] = App[clients[c].pin] THEN "restarted" ELSE "error")
      PROVE  DiscoveryIInv'
  <2>1. ClientAt(c, "idle")
    BY <1>1, <1>6, ClientNow DEF ClientAt, ClientStates
  <2> QED BY <1>3, <1>6, <2>1
<1> QED BY <1>4, <1>5, <1>6 DEF Resolve

LEMMA BeginCallStep ==
  ASSUME DiscoveryIInv, NEW c \in Client, BeginCall(c)
  PROVE  DiscoveryIInv'
<1> DEFINE k == clients[c]
           ms == messages[c]
           f == finds[c]
<1>1. /\ k \in ClientStates /\ ms \in CallLists /\ f \in Findings
      /\ CallsOK(k, ms) /\ FindsOK(c, f) /\ k.at = "idle"
      /\ finds' = [finds EXCEPT ![c] = f] /\ messages' = [messages EXCEPT ![c] = ms]
  BY ClientNow DEF ClientOK, BeginCall
<1>2. PICK at : at = IF k.queue = "open" THEN "calling"
                     ELSE IF k.target # NoPort THEN "reconnecting" ELSE "reading"
  OBVIOUS
<1>3. PICK n \in 1..MaxCalls : n = k.call + 1 /\ k.call \in Nat
  <2>1. k.call \in 0..MaxCalls /\ k.call < MaxCalls
    BY <1>1 DEF ClientStates, BeginCall
  <2> HIDE DEF k
  <2> QED BY <2>1, DiscoveryConstants
<1>4. PICK j : j = [k EXCEPT !.call = n, !.at = at]
  OBVIOUS
<1>5. Becomes(c, j, f, ms)
  BY <1>1, <1>2, <1>3, <1>4 DEF Becomes, BeginCall, IsConnected
<1> HIDE DEF k, ms, f
<1>6. at \in InCall /\ at # "connecting"
  BY <1>2 DEF InCall, Before
<1>7. /\ j \in ClientStates /\ j.at = at /\ j.call = n
      /\ j.queue = k.queue /\ j.peer = k.peer /\ j.pin = k.pin
  <2>1. k \in ClientStates
    BY <1>1
  <2> DEFINE q == [at |-> at, call |-> n, target |-> k.target, peer |-> k.peer,
                   queue |-> k.queue, pin |-> k.pin]
  <2>2. j = q
    BY <1>4, <2>1 DEF ClientStates
  <2>3. n \in 0..MaxCalls
    BY DiscoveryConstants
  <2>4. q \in ClientStates
    BY <1>6, <2>1, <2>3 DEF ClientStates
  <2> QED BY <2>2, <2>4
<1>8. AtItsCall(j, ms)
  <2>1. ASSUME NEW i \in 1..MaxCalls, i > k.call
        PROVE  ms[i].at = "new" /\ ms[i].told = "nothing"
    BY <1>1, <2>1 DEF CallsOK, AtItsCall
  <2>2. n > k.call /\ n # 0
    BY <1>3, DiscoveryConstants
  <2>3. \A i \in 1..MaxCalls : i > n => i > k.call
    BY <1>3, DiscoveryConstants
  <2> QED BY <1>7, <2>1, <2>2, <2>3 DEF AtItsCall
<1>9. ConnectionOK(j)
  BY <1>1, <1>2, <1>7 DEF CallsOK, ConnectionOK, Before, ForCalls
<1>10. ASSUME NEW i \in 1..MaxCalls
       PROVE  CallOK(j, ms[i])
  BY <1>1, <1>2, <1>7 DEF CallsOK, CallOK, ForCalls
<1>11. ChoiceOK(c, j, f)
  BY <1>6, <1>7 DEF ChoiceOK
<1> QED BY <1>1, <1>5, <1>7, <1>8, <1>9, <1>10, <1>11, Stepped DEF BeginCall, ClientOK, CallsOK

NoFindsOK(c, k) == FindsOK(c, NoFinds) /\ ChoiceOK(c, k, NoFinds)

LEMMA NothingFound ==
  ASSUME NEW c, NEW k
  PROVE  NoFinds \in Findings /\ NoFindsOK(c, k)
  BY DEF NoFinds, NoFindsOK, Findings, FindsOK, ChoiceOK, Evidence

LEMMA DroppedCalls ==
  ASSUME DiscoveryIInv, NEW c \in Client
  PROVE  Dropped(c) = [messages EXCEPT ![c] = DroppedOf(messages[c])]
  BY DEF Dropped, DroppedOf

LEMMA DialStep ==
  ASSUME DiscoveryIInv, NEW c \in Client, Dial(c)
  PROVE  DiscoveryIInv'
<1> DEFINE k == clients[c]
           ms == messages[c]
           next == DroppedOf(ms)
<1>1. /\ k \in ClientStates /\ ms \in CallLists /\ CallsOK(k, ms)
      /\ k.at \in {"reconnecting", "connecting"}
  BY ClientNow DEF ClientOK, Dial
<1>2. PICK at : at = IF k.at = "connecting" THEN "verifying" ELSE "reverifying"
  OBVIOUS
<1>3. PICK p \in Proc : clients' = [clients EXCEPT ![c].at = at, ![c].peer = p, ![c].queue = "open"]
  BY <1>2 DEF Dial, Serving
<1>4. PICK j : j = [k EXCEPT !.at = at, !.peer = p, !.queue = "open"]
  OBVIOUS
<1>5. Becomes(c, j, NoFinds, next)
  BY <1>3, <1>4, DroppedCalls DEF Becomes, Dial, Found
<1>6. /\ next \in CallLists
      /\ \A i \in 1..MaxCalls :
           /\ next[i].told = ms[i].told /\ next[i].by = ms[i].by
           /\ next[i].at = IF ms[i].at = "queued" THEN "lost" ELSE ms[i].at
  <2> HIDE DEF ms
  <2> QED BY <1>1, DroppedChanges
<1> HIDE DEF k, ms, next
<1>7. at \in {"verifying", "reverifying"}
  BY <1>2
<1>8. /\ j \in ClientStates /\ j.at = at /\ j.call = k.call
      /\ j.queue = "open" /\ j.peer = p /\ j.pin = k.pin
  <2>1. k \in ClientStates
    BY <1>1
  <2> DEFINE q == [at |-> at, call |-> k.call, target |-> k.target, peer |-> p,
                   queue |-> "open", pin |-> k.pin]
  <2>2. j = q
    BY <1>4, <2>1 DEF ClientStates
  <2>3. q \in ClientStates
    BY <1>7, <2>1 DEF ClientStates, InCall
  <2> QED BY <2>2, <2>3
<1>9. /\ k.at \in InCall /\ k.at \in Before
  BY <1>1 DEF InCall, Before
<1>10. /\ k.call \in 1..MaxCalls /\ k.call # 0
       /\ ms[k.call].at = "new" /\ ms[k.call].told = "nothing"
  BY <1>1, <1>9, InACall, DiscoveryConstants
<1>11. AtItsCall(j, next)
  BY <1>1, <1>6, <1>8, <1>10 DEF CallsOK, AtItsCall
<1>12. ConnectionOK(j)
  BY <1>7, <1>8 DEF ConnectionOK, Before, ForCalls
<1>13. ASSUME NEW i \in 1..MaxCalls
       PROVE  CallOK(j, next[i])
  BY <1>1, <1>6, <1>8 DEF CallsOK, CallOK
<1> QED BY <1>5, <1>6, <1>8, <1>11, <1>12, <1>13, NothingFound, Stepped
        DEF Dial, ClientOK, CallsOK, NoFindsOK

LEMMA VerifyInstanceStep ==
  ASSUME DiscoveryIInv, NEW c \in Client, VerifyInstance(c)
  PROVE  DiscoveryIInv'
<1> DEFINE k == clients[c]
           ms == messages[c]
           f == finds[c]
           j == [k EXCEPT !.at = "calling"]
<1>1. /\ k \in ClientStates /\ ms \in CallLists /\ f \in Findings
      /\ CallsOK(k, ms) /\ FindsOK(c, f) /\ k.at \in {"verifying", "reverifying"}
      /\ k.queue = "open" /\ k.peer = k.pin
      /\ finds' = [finds EXCEPT ![c] = f] /\ messages' = [messages EXCEPT ![c] = ms]
  BY ClientNow DEF ClientOK, VerifyInstance, IsConnected, VerifiedPeer
<1>2. Becomes(c, j, f, ms)
  BY <1>1 DEF Becomes, VerifyInstance, ClientAt
<1>3. /\ j \in ClientStates /\ j.at = "calling" /\ j.call = k.call
      /\ j.queue = k.queue /\ j.peer = k.peer /\ j.pin = k.pin
  BY <1>1, AtChanges DEF InCall
<1> HIDE DEF k, ms, f, j
<1>4. /\ k.call \in 1..MaxCalls /\ k.call # 0
      /\ ms[k.call].at = "new" /\ ms[k.call].told = "nothing"
  <2>1. k.at \in InCall
    BY <1>1 DEF InCall
  <2> QED BY <1>1, <2>1, InACall, DiscoveryConstants
<1>5. AtItsCall(j, ms)
  BY <1>1, <1>3, <1>4 DEF CallsOK, AtItsCall
<1>6. ConnectionOK(j)
  BY <1>1, <1>3 DEF CallsOK, ConnectionOK, Before
<1>7. ASSUME NEW i \in 1..MaxCalls
      PROVE  CallOK(j, ms[i])
  BY <1>1, <1>3 DEF CallsOK, CallOK, ForCalls
<1>8. ChoiceOK(c, j, f)
  BY <1>3 DEF ChoiceOK
<1> QED BY <1>1, <1>2, <1>3, <1>5, <1>6, <1>7, <1>8, Stepped DEF VerifyInstance, ClientOK, CallsOK

LEMMA CannotConnectStep ==
  ASSUME DiscoveryIInv, NEW c \in Client, CannotConnect(c)
  PROVE  DiscoveryIInv'
<1> DEFINE k == clients[c]
           ms == messages[c]
           dropped == DroppedOf(ms)
<1>1. /\ k \in ClientStates /\ ms \in CallLists /\ CallsOK(k, ms)
      /\ k.at \in {"reconnecting", "connecting", "verifying", "reverifying"}
  BY ClientNow DEF ClientOK, CannotConnect
<1>2. PICK at, next :
        /\ Becomes(c, [k EXCEPT !.at = at, !.peer = NoProc, !.queue = "none"], NoFinds, next)
        /\ \/ at = "reading" /\ next = dropped
           \/ at = "idle" /\ next = Told(dropped, k.call, "error")
  <2>1. messages \in [Client -> CallLists]
    BY DEF DiscoveryIInv, DiscoveryTypeOK, CallLists
  <2>2. CASE k.at \in {"reconnecting", "reverifying"}
    BY <2>2, DroppedCalls DEF CannotConnect, Becomes, Found
  <2>3. CASE k.at \notin {"reconnecting", "reverifying"}
    <3> DEFINE lost == [messages EXCEPT ![c] = dropped]
    <3>2. messages' = [lost EXCEPT ![c][k.call].told = "error"]
      BY <2>3, DroppedCalls DEF CannotConnect
    <3>3. lost \in [Client -> CallLists] /\ lost[c] = dropped
      <4>1. dropped \in CallLists
        BY <1>1, DroppedChanges
      <4> HIDE DEF dropped
      <4> QED BY <2>1, <4>1
    <3>4. messages' = [lost EXCEPT ![c] = [dropped EXCEPT ![k.call].told = "error"]]
      <4> HIDE DEF lost, dropped
      <4> QED BY <3>2, <3>3
    <3>1. messages' = [messages EXCEPT ![c] = [dropped EXCEPT ![k.call].told = "error"]]
      <4> HIDE DEF dropped
      <4> QED BY <3>4, <2>1
    <3>5. messages' = [messages EXCEPT ![c] = Told(dropped, k.call, "error")]
      <4> HIDE DEF dropped, k
      <4> QED BY <3>1 DEF Told
    <3>6. Becomes(c, [k EXCEPT !.at = "idle", !.peer = NoProc, !.queue = "none"], NoFinds,
                  Told(dropped, k.call, "error"))
      <4> HIDE DEF dropped, lost
      <4> QED BY <2>3, <3>5 DEF CannotConnect, Becomes, Found
    <3> HIDE DEF dropped, lost, k
    <3> QED BY <3>6
  <2> QED BY <2>2, <2>3
<1> HIDE DEF k, ms, dropped
<1>3. /\ k.call \in 1..MaxCalls /\ k.call # 0
      /\ ms[k.call].at = "new" /\ ms[k.call].told = "nothing"
  <2>1. k.at \in InCall
    BY <1>1 DEF InCall, Before
  <2> QED BY <1>1, <2>1, InACall, DiscoveryConstants
<1>4. /\ dropped \in CallLists
      /\ \A i \in 1..MaxCalls :
           /\ dropped[i].told = ms[i].told /\ dropped[i].by = ms[i].by
           /\ dropped[i].at = IF ms[i].at = "queued" THEN "lost" ELSE ms[i].at
  BY <1>1, DroppedChanges DEF dropped
<1>5. /\ next \in CallLists
      /\ \A i \in 1..MaxCalls :
           /\ next[i].at = dropped[i].at /\ next[i].by = dropped[i].by
           /\ next[i].told \in {"error", dropped[i].told}
           /\ (at = "reading" \/ i # k.call) => next[i].told = dropped[i].told
  <2>1. CASE at = "reading" /\ next = dropped
    BY <1>4, <2>1
  <2>2. CASE at = "idle" /\ next = Told(dropped, k.call, "error")
    <3>1. "error" \in Words
      BY DEF Words
    <3> QED BY <1>3, <1>4, <2>2, <3>1, ToldChanges
  <2> QED BY <1>2, <2>1, <2>2
<1>6. PICK j : j = [k EXCEPT !.at = at, !.peer = NoProc, !.queue = "none"]
  OBVIOUS
<1>7. /\ j \in ClientStates /\ j.at = at /\ j.call = k.call
      /\ j.queue = "none" /\ j.pin = k.pin
  <2>1. k \in ClientStates /\ at \in {"reading", "idle"}
    BY <1>1, <1>2
  <2> DEFINE q == [at |-> at, call |-> k.call, target |-> k.target, peer |-> NoProc,
                   queue |-> "none", pin |-> k.pin]
  <2>2. j = q
    BY <1>6, <2>1 DEF ClientStates
  <2>3. q \in ClientStates
    BY <2>1 DEF ClientStates, InCall, Before
  <2> QED BY <2>2, <2>3
<1>8. AtItsCall(j, next)
  <2>1. \A i \in 1..MaxCalls : i > k.call => (ms[i].at = "new" /\ ms[i].told = "nothing")
    BY <1>1 DEF CallsOK, AtItsCall
  <2>2. ASSUME NEW i \in 1..MaxCalls, i > k.call
        PROVE  next[i].at = "new" /\ next[i].told = "nothing"
    BY <1>3, <1>4, <1>5, <2>1, <2>2
  <2>3. j.at \in InCall => (next[k.call].at = "new" /\ next[k.call].told = "nothing")
    <3>1. CASE at = "idle"
      BY <1>7, <3>1 DEF InCall, Before
    <3>2. CASE at = "reading"
      BY <1>3, <1>4, <1>5, <3>2
    <3> QED BY <1>2, <3>1, <3>2
  <2> QED BY <1>3, <1>7, <2>2, <2>3 DEF AtItsCall
<1>9. ConnectionOK(j)
  BY <1>7 DEF ConnectionOK
<1>10. ASSUME NEW i \in 1..MaxCalls
       PROVE  CallOK(j, next[i])
  <2>1. CallOK(k, ms[i])
    BY <1>1 DEF CallsOK
  <2>2. i = k.call => next[i].at = "new"
    BY <1>3, <1>4, <1>5
  <2>3. i # k.call => next[i].told = ms[i].told
    BY <1>4, <1>5
  <2>4. CASE i = k.call
    <3>1. next[i].told # "reply"
      BY <1>3, <1>4, <1>5, <2>4
    <3> QED BY <2>2, <2>4, <3>1 DEF CallOK
  <2>5. CASE i # k.call
    <3>1. next[i].at = IF ms[i].at = "queued" THEN "lost" ELSE ms[i].at
      BY <1>4, <1>5
    <3>2. next[i].by = ms[i].by
      BY <1>4, <1>5
    <3> QED BY <1>7, <2>1, <2>3, <2>5, <3>1, <3>2 DEF CallOK
  <2> QED BY <2>4, <2>5
<1> QED BY <1>2, <1>5, <1>6, <1>7, <1>8, <1>9, <1>10, NothingFound, Stepped
        DEF CannotConnect, ClientOK, CallsOK, NoFindsOK

LEMMA EnqueueStep ==
  ASSUME DiscoveryIInv, NEW c \in Client, Enqueue(c)
  PROVE  DiscoveryIInv'
<1> DEFINE k == clients[c]
           ms == messages[c]
           f == finds[c]
<1>1. /\ k \in ClientStates /\ ms \in CallLists /\ f \in Findings
      /\ CallsOK(k, ms) /\ FindsOK(c, f) /\ k.at = "calling"
      /\ finds' = [finds EXCEPT ![c] = f]
  BY ClientNow DEF ClientOK, Enqueue
<1>2. PICK at, next :
        /\ Becomes(c, [k EXCEPT !.at = at], f, next)
        /\ \/ k.queue = "open" /\ at = "waiting" /\ next = Moved(ms, k.call, "queued")
           \/ k.queue # "open" /\ at = "idle" /\ next = Told(ms, k.call, "not dispatched")
  BY <1>1 DEF Enqueue, IsConnected, ClientAt, TellClient, Becomes, Told, Moved
<1>3. PICK j : j = [k EXCEPT !.at = at]
  OBVIOUS
<1> HIDE DEF k, ms, f
<1>4. /\ k.call \in 1..MaxCalls /\ k.call # 0
      /\ ms[k.call].at = "new" /\ ms[k.call].told = "nothing"
  <2>1. k.at \in InCall
    BY <1>1 DEF InCall
  <2> QED BY <1>1, <2>1, InACall, DiscoveryConstants
<1>5. /\ j \in ClientStates /\ j.at = at /\ j.call = k.call
      /\ j.queue = k.queue /\ j.peer = k.peer /\ j.pin = k.pin
  BY <1>1, <1>2, <1>3, AtChanges
<1>6. \A i \in 1..MaxCalls : i > k.call => (ms[i].at = "new" /\ ms[i].told = "nothing")
  BY <1>1 DEF CallsOK, AtItsCall
<1>7. k.queue = "open" => k.peer = k.pin
  BY <1>1 DEF CallsOK, ConnectionOK, ForCalls
<1>8. ConnectionOK(j)
  BY <1>1, <1>2, <1>5, <1>7 DEF CallsOK, ConnectionOK, Before
<1>9. ChoiceOK(c, j, f)
  BY <1>2, <1>5 DEF ChoiceOK
<1>10. CASE k.queue = "open" /\ at = "waiting" /\ next = Moved(ms, k.call, "queued")
  <2>1. /\ next \in CallLists
        /\ \A i \in 1..MaxCalls : /\ next[i].told = ms[i].told /\ next[i].by = ms[i].by
                                  /\ i = k.call => next[i].at = "queued"
                                  /\ i # k.call => next[i].at = ms[i].at
    <3>1. "queued" \in Places
      BY DEF Places
    <3> QED BY <1>1, <1>4, <1>10, <3>1, PlaceChanges
  <2>2. AtItsCall(j, next)
    BY <1>4, <1>5, <1>6, <1>10, <2>1 DEF AtItsCall, InCall, Before
  <2>3. ASSUME NEW i \in 1..MaxCalls
        PROVE  CallOK(j, next[i])
    <3>1. CallOK(k, ms[i])
      BY <1>1 DEF CallsOK
    <3> QED BY <1>1, <1>4, <1>5, <1>10, <2>1, <3>1 DEF CallOK, ForCalls
  <2> QED BY <1>1, <1>2, <1>3, <1>5, <1>8, <1>9, <2>1, <2>2, <2>3, Stepped
          DEF Enqueue, ClientOK, CallsOK
<1>11. CASE k.queue # "open" /\ at = "idle" /\ next = Told(ms, k.call, "not dispatched")
  <2>1. /\ next \in CallLists
        /\ \A i \in 1..MaxCalls :
             /\ next[i].at = ms[i].at /\ next[i].by = ms[i].by
             /\ i = k.call => next[i].told # "reply"
             /\ i # k.call => next[i].told = ms[i].told
    <3>1. PICK word \in Words : word # "reply" /\ next = Told(ms, k.call, word)
      BY <1>11 DEF Words
    <3>2. ms \in CallLists
      BY <1>1
    <3> QED BY <1>4, <3>1, <3>2, ToldChanges
  <2>2. AtItsCall(j, next)
    <3>1. ASSUME NEW i \in 1..MaxCalls, i > k.call
          PROVE  next[i].at = "new" /\ next[i].told = "nothing"
      <4>1. i # k.call
        BY <1>4, <3>1, DiscoveryConstants
      <4>2. ms[i].at = "new" /\ ms[i].told = "nothing"
        BY <1>6, <3>1
      <4> QED BY <2>1, <4>1, <4>2
    <3> QED BY <1>4, <1>5, <1>11, <3>1 DEF AtItsCall, InCall, Before
  <2>3. ASSUME NEW i \in 1..MaxCalls
        PROVE  CallOK(j, next[i])
    <3>1. CallOK(k, ms[i])
      BY <1>1 DEF CallsOK
    <3> QED BY <1>1, <1>4, <1>5, <1>11, <2>1, <3>1 DEF CallOK, ForCalls
  <2> QED BY <1>1, <1>2, <1>3, <1>5, <1>8, <1>9, <2>1, <2>2, <2>3, Stepped
          DEF Enqueue, ClientOK, CallsOK
<1> QED BY <1>2, <1>10, <1>11

LEMMA WriteStep ==
  ASSUME DiscoveryIInv, NEW c \in Client, Write(c)
  PROVE  DiscoveryIInv'
<1> DEFINE k == clients[c]
           ms == messages[c]
           f == finds[c]
<1>1. /\ k \in ClientStates /\ ms \in CallLists /\ f \in Findings
      /\ CallsOK(k, ms) /\ FindsOK(c, f) /\ ChoiceOK(c, k, f)
      /\ clients' = [clients EXCEPT ![c] = k] /\ finds' = [finds EXCEPT ![c] = f]
  BY ClientNow DEF ClientOK, Write
<1>2. PICK n \in 1..MaxCalls :
        /\ ms[n].at = "queued"
        /\ messages' = [messages EXCEPT ![c][n].at = "written", ![c][n].by = k.peer]
  <2>1. DOMAIN ms = 1..MaxCalls
    BY <1>1 DEF CallLists
  <2> QED BY <2>1 DEF Write
<1>3. PICK next : next = WrittenTo(ms, n, k.peer)
  OBVIOUS
<1>4. Becomes(c, k, f, next)
  <2>1. messages \in [Client -> CallLists]
    BY DEF DiscoveryIInv, DiscoveryTypeOK, CallLists
  <2> QED BY <1>1, <1>2, <1>3, <2>1 DEF Becomes, WrittenTo
<1> HIDE DEF k, ms, f
<1>5. k.queue = "open" /\ k.at \in ForCalls /\ k.peer = k.pin /\ k.peer \in Proc
  <2>1. k.queue = "open" /\ k.at \in ForCalls
    BY <1>1, <1>2 DEF CallsOK, CallOK
  <2> QED BY <1>1, <2>1 DEF CallsOK, ConnectionOK
<1>6. /\ next \in CallLists
      /\ \A i \in 1..MaxCalls : /\ next[i].told = ms[i].told
                                /\ i = n => (next[i].at = "written" /\ next[i].by = k.peer)
                                /\ i # n => (next[i].at = ms[i].at /\ next[i].by = ms[i].by)
  BY <1>1, <1>3, <1>5, WrittenChanges
<1>7. ~(n > k.call) /\ (k.at \in InCall => n # k.call)
  BY <1>1, <1>2 DEF CallsOK, AtItsCall
<1>8. AtItsCall(k, next)
  <2>1. k.at \in InCall => k.call \in 1..MaxCalls
    BY <1>1, InACall
  <2> QED BY <1>1, <1>6, <1>7, <2>1 DEF CallsOK, AtItsCall
<1>9. ASSUME NEW i \in 1..MaxCalls
      PROVE  CallOK(k, next[i])
  BY <1>1, <1>2, <1>5, <1>6 DEF CallsOK, CallOK
<1> QED BY <1>1, <1>4, <1>6, <1>8, <1>9, Stepped DEF Write, ClientOK, CallsOK

LEMMA ReceiveStep ==
  ASSUME DiscoveryIInv, NEW c \in Client, Receive(c)
  PROVE  DiscoveryIInv'
<1> DEFINE k == clients[c]
           ms == messages[c]
           f == finds[c]
<1>1. /\ k \in ClientStates /\ ms \in CallLists /\ f \in Findings
      /\ CallsOK(k, ms) /\ FindsOK(c, f) /\ ChoiceOK(c, k, f)
      /\ clients' = [clients EXCEPT ![c] = k] /\ finds' = [finds EXCEPT ![c] = f]
  BY ClientNow DEF ClientOK, Receive
<1>2. PICK n \in 1..MaxCalls :
        ms[n].at = "written" /\ messages' = [messages EXCEPT ![c][n].at = "received"]
  <2>1. DOMAIN ms = 1..MaxCalls
    BY <1>1 DEF CallLists
  <2> QED BY <2>1 DEF Receive
<1>3. PICK next : next = Moved(ms, n, "received")
  OBVIOUS
<1>4. Becomes(c, k, f, next)
  BY <1>1, <1>2, <1>3 DEF Becomes, Moved
<1> HIDE DEF k, ms, f
<1>5. /\ next \in CallLists
      /\ \A i \in 1..MaxCalls : /\ next[i].told = ms[i].told /\ next[i].by = ms[i].by
                                /\ i = n => next[i].at = "received"
                                /\ i # n => next[i].at = ms[i].at
  <2>1. "received" \in Places
    BY DEF Places
  <2> QED BY <1>1, <1>3, <2>1, PlaceChanges
<1>6. ~(n > k.call) /\ (k.at \in InCall => n # k.call)
  BY <1>1, <1>2 DEF CallsOK, AtItsCall
<1>7. AtItsCall(k, next)
  <2>1. k.at \in InCall => k.call \in 1..MaxCalls
    BY <1>1, InACall
  <2> QED BY <1>1, <1>5, <1>6, <2>1 DEF CallsOK, AtItsCall
<1>8. ASSUME NEW i \in 1..MaxCalls
      PROVE  CallOK(k, next[i])
  BY <1>1, <1>2, <1>5 DEF CallsOK, CallOK
<1> QED BY <1>1, <1>4, <1>5, <1>7, <1>8, Stepped DEF Receive, ClientOK, CallsOK

Answers == {"reply", "outcome unknown"}

(* A caller that waits is told of a reply or that the outcome is unknown.  *)
LEMMA ToldWaiting ==
  ASSUME NEW k \in ClientStates, NEW ms \in CallLists, CallsOK(k, ms), k.at = "waiting",
         NEW j \in ClientStates, j.at = "idle", j.call = k.call, j.queue = k.queue,
         j.peer = k.peer, j.pin = k.pin,
         NEW word \in Answers,
         (word = "reply") => (ms[k.call].at = "received")
  PROVE  Told(ms, k.call, word) \in CallLists /\ CallsOK(j, Told(ms, k.call, word))
<1>3. PICK next : next = Told(ms, k.call, word)
  OBVIOUS
<1>5. k.call \in 1..MaxCalls /\ k.call # 0
  <2>1. k.call # 0
    BY DEF CallsOK, AtItsCall
  <2>2. k.call \in 0..MaxCalls
    BY DEF ClientStates
  <2> QED BY <2>1, <2>2, CallNumbers
<1>7. /\ next \in CallLists
      /\ \A i \in 1..MaxCalls :
           /\ next[i].at = ms[i].at /\ next[i].by = ms[i].by
           /\ i = k.call => next[i].told = word
           /\ i # k.call => next[i].told = ms[i].told
  <2>1. PICK w \in Words : w = word
    BY DEF Words, Answers
  <2>2. PICK n \in 1..MaxCalls : n = k.call
    BY <1>5
  <2>3. ms \in CallLists /\ next = Told(ms, n, w)
    BY <1>3, <2>1, <2>2
  <2>4. /\ Told(ms, n, w) \in CallLists
        /\ \A i \in 1..MaxCalls : /\ Told(ms, n, w)[i].at = ms[i].at
                                  /\ Told(ms, n, w)[i].by = ms[i].by
                                  /\ i = n => Told(ms, n, w)[i].told = w
                                  /\ i # n => Told(ms, n, w)[i].told = ms[i].told
    BY <2>3, ToldChanges
  <2> QED BY <2>1, <2>2, <2>3, <2>4
<1>8. AtItsCall(j, next)
  <2>1. ASSUME NEW i \in 1..MaxCalls, i > k.call
        PROVE  next[i].at = "new" /\ next[i].told = "nothing"
    <3>1. i # k.call
      BY <2>1, CallNumbers DEF ClientStates
    <3>2. ms[i].at = "new" /\ ms[i].told = "nothing"
      BY <2>1 DEF CallsOK, AtItsCall
    <3> QED BY <1>7, <3>1, <3>2
  <2> QED BY <1>5, <2>1 DEF AtItsCall, InCall, Before
<1>9. ConnectionOK(j)
  BY DEF CallsOK, ConnectionOK, Before, ForCalls
<1>10. ASSUME NEW i \in 1..MaxCalls
       PROVE  CallOK(j, next[i])
  <2>1. CallOK(k, ms[i])
    BY DEF CallsOK
  <2>2. next[i].at = ms[i].at /\ next[i].by = ms[i].by
    BY <1>7
  <2>3. CASE i = k.call
    <3>1. next[i].told = word /\ ((word = "reply") => (next[i].at = "received"))
      BY <1>7, <2>2, <2>3
    <3> QED BY <2>1, <2>2, <3>1 DEF CallOK, ForCalls, Answers
  <2>4. CASE i # k.call
    <3>1. next[i].told = ms[i].told
      BY <1>7, <2>4
    <3> QED BY <2>1, <2>2, <3>1 DEF CallOK, ForCalls
  <2> QED BY <2>3, <2>4
<1> QED BY <1>3, <1>7, <1>8, <1>9, <1>10 DEF CallsOK

(* A waiting caller is told a word that agrees with where the call is.     *)
LEMMA Answered ==
  ASSUME DiscoveryIInv, NEW c \in Client, UNCHANGED <<startupVars, finds>>,
         clients[c].at = "waiting", ClientAt(c, "idle"),
         NEW word \in {"reply", "outcome unknown"}, TellClient(c, word),
         (word = "reply") => (TheCall(c).at = "received")
  PROVE  DiscoveryIInv'
<1> DEFINE k == clients[c]
           ms == messages[c]
           f == finds[c]
<1>1. /\ k \in ClientStates /\ ms \in CallLists /\ f \in Findings
      /\ CallsOK(k, ms) /\ FindsOK(c, f) /\ k.at = "waiting"
      /\ finds' = [finds EXCEPT ![c] = f]
      /\ (word = "reply") => (ms[k.call].at = "received")
  BY ClientNow DEF ClientOK, TheCall
<1>2. PICK j : j = [k EXCEPT !.at = "idle"]
  OBVIOUS
<1>3. PICK next : next = Told(ms, k.call, word)
  OBVIOUS
<1>4. Becomes(c, j, f, next)
  BY <1>1, <1>2, <1>3 DEF Becomes, ClientAt, TellClient, Told
<1> HIDE DEF k, ms, f
<1>5. /\ j \in ClientStates /\ j.at = "idle" /\ j.call = k.call
      /\ j.queue = k.queue /\ j.peer = k.peer /\ j.pin = k.pin
  BY <1>1, <1>2, AtChanges
<1>6. next \in CallLists /\ CallsOK(j, next)
  BY <1>1, <1>3, <1>5, ToldWaiting DEF Answers
<1>7. ChoiceOK(c, j, f)
  BY <1>5 DEF ChoiceOK
<1> QED BY <1>1, <1>4, <1>5, <1>6, <1>7, Stepped DEF ClientOK

LEMMA TaskEndsStep ==
  ASSUME DiscoveryIInv, NEW c \in Client, TaskEnds(c)
  PROVE  DiscoveryIInv'
<1> DEFINE k == clients[c]
           ms == messages[c]
           f == finds[c]
           dropped == DroppedOf(ms)
<1>1. /\ k \in ClientStates /\ ms \in CallLists /\ f \in Findings
      /\ CallsOK(k, ms) /\ FindsOK(c, f) /\ ChoiceOK(c, k, f) /\ k.queue = "open"
      /\ finds' = [finds EXCEPT ![c] = f]
  BY ClientNow DEF ClientOK, TaskEnds, IsConnected
<1>2. PICK at, next :
        /\ Becomes(c, [k EXCEPT !.queue = "closed", !.at = at], f, next)
        /\ \/ k.at # "waiting" /\ at = k.at /\ next = dropped
           \/ /\ k.at = "waiting" /\ at = "idle"
              /\ next = Told(dropped, k.call, "outcome unknown")
  <2>1. messages \in [Client -> CallLists]
    BY DEF DiscoveryIInv, DiscoveryTypeOK, CallLists
  <2>2. CASE k.at # "waiting"
    BY <1>1, <2>2, DroppedCalls DEF TaskEnds, Becomes
  <2>3. CASE k.at = "waiting"
    <3> DEFINE lost == [messages EXCEPT ![c] = dropped]
    <3>1. messages' = [lost EXCEPT ![c][k.call].told = "outcome unknown"]
      BY <2>3, DroppedCalls DEF TaskEnds
    <3>2. lost \in [Client -> CallLists] /\ lost[c] = dropped
      <4>1. dropped \in CallLists
        BY <1>1, DroppedChanges
      <4> HIDE DEF dropped
      <4> QED BY <2>1, <4>1
    <3>3. messages' = [lost EXCEPT ![c] = Told(dropped, k.call, "outcome unknown")]
      <4> HIDE DEF lost, dropped
      <4> QED BY <3>1, <3>2 DEF Told
    <3>4. messages' = [messages EXCEPT ![c] = Told(dropped, k.call, "outcome unknown")]
      <4> HIDE DEF dropped
      <4> QED BY <3>3, <2>1
    <3>5. Becomes(c, [k EXCEPT !.queue = "closed", !.at = "idle"], f,
                  Told(dropped, k.call, "outcome unknown"))
      <4> HIDE DEF dropped, lost
      <4> QED BY <1>1, <2>3, <3>4 DEF TaskEnds, Becomes
    <3>6. k.at = "waiting"
      BY <2>3
    <3> HIDE DEF dropped, lost, k
    <3> QED BY <3>5, <3>6
  <2> QED BY <2>2, <2>3
<1>3. PICK j : j = [k EXCEPT !.queue = "closed", !.at = at]
  OBVIOUS
<1> HIDE DEF k, ms, f, dropped
<1>4. k.at \notin Before /\ at \notin Before
  BY <1>1, <1>2 DEF CallsOK, ConnectionOK, Before
<1>5. /\ j \in ClientStates /\ j.at = at /\ j.call = k.call
      /\ j.queue = "closed" /\ j.peer = k.peer /\ j.pin = k.pin
  <2>1. k \in ClientStates /\ at \in InCall \cup {"idle", "waiting"}
    BY <1>1, <1>2 DEF ClientStates
  <2> DEFINE q == [at |-> at, call |-> k.call, target |-> k.target, peer |-> k.peer,
                   queue |-> "closed", pin |-> k.pin]
  <2>2. j = q
    BY <1>3, <2>1 DEF ClientStates
  <2>3. q \in ClientStates
    BY <2>1 DEF ClientStates
  <2> QED BY <2>2, <2>3
<1>6. /\ dropped \in CallLists
      /\ \A i \in 1..MaxCalls :
           /\ dropped[i].told = ms[i].told /\ dropped[i].by = ms[i].by
           /\ dropped[i].at = IF ms[i].at = "queued" THEN "lost" ELSE ms[i].at
  BY <1>1, DroppedChanges DEF dropped
<1>7. k.at # "idle" => (k.call \in 1..MaxCalls /\ k.call # 0)
  <2>1. k.at # "idle" => k.call # 0
    BY <1>1 DEF CallsOK, AtItsCall
  <2>2. k.call \in 0..MaxCalls
    BY <1>1 DEF ClientStates
  <2> QED BY <2>1, <2>2, DiscoveryConstants
<1>8. k.call \in 0..MaxCalls
  BY <1>1 DEF ClientStates
<1>9. /\ next \in CallLists
      /\ \A i \in 1..MaxCalls :
           /\ next[i].at = dropped[i].at /\ next[i].by = dropped[i].by
           /\ (k.at # "waiting" \/ i # k.call) => next[i].told = dropped[i].told
           /\ next[i].told \in {"outcome unknown", dropped[i].told}
  <2>1. CASE k.at # "waiting" /\ next = dropped
    BY <1>6, <2>1
  <2>2. CASE k.at = "waiting" /\ next = Told(dropped, k.call, "outcome unknown")
    <3>1. PICK word \in Words : word = "outcome unknown" /\ next = Told(dropped, k.call, word)
      BY <2>2 DEF Words
    <3>2. PICK n \in 1..MaxCalls : n = k.call
      BY <1>7, <2>2
    <3>3. dropped \in CallLists /\ next = Told(dropped, n, word)
      BY <1>6, <3>1, <3>2
    <3>4. /\ Told(dropped, n, word) \in CallLists
          /\ \A i \in 1..MaxCalls : /\ Told(dropped, n, word)[i].at = dropped[i].at
                                    /\ Told(dropped, n, word)[i].by = dropped[i].by
                                    /\ i = n => Told(dropped, n, word)[i].told = word
                                    /\ i # n => Told(dropped, n, word)[i].told = dropped[i].told
      BY <3>3, ToldChanges
    <3> QED BY <2>2, <3>1, <3>2, <3>3, <3>4
  <2> QED BY <1>2, <2>1, <2>2
<1>10. AtItsCall(j, next)
  <2>1. ASSUME NEW i \in 1..MaxCalls, i > k.call
        PROVE  next[i].at = "new" /\ next[i].told = "nothing"
    <3>1. i # k.call
      BY <1>8, <2>1, DiscoveryConstants
    <3>2. ms[i].at = "new" /\ ms[i].told = "nothing"
      BY <1>1, <2>1 DEF CallsOK, AtItsCall
    <3> QED BY <1>6, <1>9, <3>1, <3>2
  <2>2. ASSUME j.at \in InCall
        PROVE  next[k.call].at = "new" /\ next[k.call].told = "nothing"
    <3>1. k.at \in InCall /\ k.at # "waiting"
      BY <1>2, <1>5, <2>2 DEF InCall, Before
    <3>2. k.call \in 1..MaxCalls /\ ms[k.call].at = "new" /\ ms[k.call].told = "nothing"
      BY <1>1, <3>1, InACall
    <3> QED BY <1>6, <1>9, <3>1, <3>2
  <2>3. j.at # "idle" => j.call # 0
    BY <1>2, <1>5, <1>7
  <2> QED BY <1>5, <2>1, <2>2, <2>3 DEF AtItsCall
<1>11. ConnectionOK(j)
  BY <1>5 DEF ConnectionOK
<1>12. ASSUME NEW i \in 1..MaxCalls
       PROVE  CallOK(j, next[i])
  <2>1. CallOK(k, ms[i])
    BY <1>1 DEF CallsOK
  <2>2. /\ next[i].at = IF ms[i].at = "queued" THEN "lost" ELSE ms[i].at
        /\ next[i].by = ms[i].by /\ next[i].told \in {"outcome unknown", ms[i].told}
    BY <1>6, <1>9
  <2> QED BY <1>5, <2>1, <2>2 DEF CallOK
<1>13. ChoiceOK(c, j, f)
  BY <1>4, <1>5 DEF ChoiceOK, Before
<1> QED BY <1>1, <1>2, <1>3, <1>5, <1>9, <1>10, <1>11, <1>12, <1>13, Stepped
        DEF TaskEnds, ClientOK, CallsOK

-----------------------------------------------------------------------------
(* The theorems                                                            *)

LEMMA DiscoveryStarts == DiscoveryInit => DiscoveryIInv
<1> SUFFICES ASSUME DiscoveryInit PROVE DiscoveryIInv
  OBVIOUS
<1>1. StartupTypeOK
  BY DEF DiscoveryInit, StartupInit, StartupTypeOK, Gone, ProcSteps, Pids, Ports
<1>2. ASSUME NEW c \in Client
      PROVE  /\ clients[c] \in ClientStates /\ finds[c] = NoFinds
             /\ messages[c] \in CallLists
             /\ ClientOK(c, clients[c], finds[c], messages[c])
  <2>1. PICK k : k = [at |-> "idle", call |-> 0, target |-> NoPort, peer |-> NoProc,
                      queue |-> "none", pin |-> NoProc]
    OBVIOUS
  <2>2. /\ k \in ClientStates /\ k.at = "idle" /\ k.call = 0 /\ k.queue = "none"
    BY <2>1, DiscoveryConstants DEF ClientStates, Ports
  <2>3. /\ messages[c] \in CallLists
        /\ \A n \in 1..MaxCalls :
             messages[c][n].at = "new" /\ messages[c][n].told = "nothing"
    BY DEF DiscoveryInit, CallLists, Message
  <2>4. CallsOK(k, messages[c])
    BY <2>2, <2>3 DEF CallsOK, AtItsCall, ConnectionOK, CallOK, InCall, Before
  <2>5. clients[c] = k /\ finds[c] = NoFinds
    BY <2>1 DEF DiscoveryInit
  <2> QED BY <2>2, <2>3, <2>4, <2>5, NothingFound DEF ClientOK, NoFindsOK
<1>3. DiscoveryTypeOK
  <2>1. /\ clients = [c \in Client |-> clients[c]] /\ finds = [c \in Client |-> finds[c]]
        /\ messages = [c \in Client |-> messages[c]]
    BY DEF DiscoveryInit
  <2> HIDE DEF ClientStates, Findings
  <2> QED BY <1>2, <2>1, NothingFound DEF DiscoveryTypeOK, CallLists
<1> QED BY <1>1, <1>2, <1>3 DEF DiscoveryIInv

LEMMA DiscoveryStep ==
  ASSUME DiscoveryIInv, [DiscoveryNext]_discoveryVars
  PROVE  DiscoveryIInv'
<1>1. ASSUME StartupTypeOK', UNCHANGED <<clients, finds, messages>>
      PROVE  DiscoveryIInv'
  <2>1. /\ clients' \in [Client -> ClientStates] /\ finds' \in [Client -> Findings]
        /\ messages' \in [Client -> CallLists]
    BY <1>1 DEF DiscoveryIInv, DiscoveryTypeOK, CallLists
  <2>2. ASSUME NEW c \in Client
        PROVE  ClientOK(c, clients'[c], finds'[c], messages'[c])
    BY <1>1 DEF DiscoveryIInv
  <2> QED BY <1>1, <2>1, <2>2
          DEF DiscoveryIInv, DiscoveryTypeOK, CallLists, ClientOK, CallsOK, AtItsCall,
              ConnectionOK, CallOK, FindsOK, ChoiceOK, Named, Evidence, Records, Apps, Attachable
<1>2. CASE UNCHANGED discoveryVars
  BY <1>1, <1>2 DEF discoveryVars, startupVars, DiscoveryIInv, StartupTypeOK
<1>3. CASE StartupStep /\ UNCHANGED <<clients, finds, messages>>
  BY <1>1, <1>3, StartupTyped DEF DiscoveryIInv
<1>4. ASSUME NEW c \in Client, ClientStep(c)
      PROVE  DiscoveryIInv'
  <2>1. CASE Replied(c)
    BY <2>1, Answered DEF Replied
  <2>2. CASE Timeout(c)
    BY <2>2, Answered DEF Timeout
  <2> QED BY <1>4, <2>1, <2>2, ReadRecordsStep, ProbeHintStep, ScanPortStep, ResolveStep,
             BeginCallStep, DialStep, VerifyInstanceStep, CannotConnectStep, EnqueueStep,
             WriteStep, ReceiveStep, TaskEndsStep
          DEF ClientStep
<1> QED BY <1>2, <1>3, <1>4 DEF DiscoveryNext

(* In every state the calls of a client are where its connection allows,   *)
(* and its choice follows from evidence.                                   *)
THEOREM DiscoveryInvariance == DiscoverySpec => []DiscoveryIInv
<1> QED BY DiscoveryStarts, DiscoveryStep, PTL DEF DiscoverySpec

(* Any number of processes, clients and ports: whatever starts, ends and   *)
(* takes over ports, process ids and files, the calls of a client reach    *)
(* the one process that discovery chose, a caller is never told of a reply *)
(* nobody gave, and the records near the client are heeded                 *)
(* (src/crates/client/src/discovery.rs:695 and lib.rs:183).                *)
THEOREM RightInstanceFound == DiscoverySpec => []RightInstance
<1>1. DiscoveryIInv => RightInstance
  <2> SUFFICES ASSUME DiscoveryIInv PROVE RightInstance
    OBVIOUS
  <2>1. ASSUME NEW c \in Client, NEW n \in DOMAIN messages[c]
        PROVE  LET call == messages[c][n] IN
               /\ call.at = "received" => call.by = clients[c].pin
               /\ call.at = "received" => call.told \in {"nothing", "reply", "outcome unknown"}
               /\ call.told = "reply" => call.at = "received"
    <3>1. CallOK(clients[c], messages[c][n])
      BY <2>1 DEF DiscoveryIInv, DiscoveryTypeOK, ClientOK, CallsOK
    <3> QED BY <3>1 DEF CallOK
  <2>2. RecordsAreHeeded
    BY DEF RecordsAreHeeded, DiscoveryIInv, ClientOK, ChoiceOK, Named
  <2> QED BY <2>1, <2>2 DEF RightInstance, RequestsReachTheirInstance
<1> QED BY <1>1, DiscoveryInvariance, PTL

-----------------------------------------------------------------------------
(* Snapshots: entries, calls and directories                               *)

SnapSteps == {"new", "answered", "pushing", "split", "inline", "writing", "indexing",
              "patch", "prune", "pruning", "files"}
Directories == [snapshot: Nat, files: SUBSET ({"subtrees"} \cup Index)]
Entries == [generation: Nat, explicit: BOOLEAN, refs: Nat, text: Nat, session: Nat]

SnapTypeOK ==
  /\ taken \in Nat /\ generations \in Nat
  /\ background \subseteq 1..taken
  /\ cache \in Entries
  /\ cache.generation <= generations /\ cache.refs <= taken
  /\ pushing \subseteq [snapshot: background, generation: 1..generations]
  /\ snapper \in [Snapper -> [at: SnapSteps, snapshot: 0..taken, generation: 0..generations]]
  /\ sessions \in Seq(Directories)
  /\ pruner \subseteq [caller: Snapper, doomed: SUBSET Nat]

Undrawn(c) == snapper[c].at \in {"new", "answered"}
Uninserted(c) == snapper[c].at \in {"new", "answered", "pushing"}
Indexing(c) == snapper[c].at = "indexing"
Written(c) == snapper[c].at \in {"indexing", "patch", "prune", "pruning", "files"}
Patched(c) == snapper[c].at \in {"prune", "pruning", "files"}

(* Every snapshot has its number, and every push its generation.           *)
NumbersOK ==
  /\ \A c \in Snapper :
       /\ (snapper[c].at = "new") => snapper[c].snapshot = 0
       /\ (snapper[c].at # "new") => snapper[c].snapshot \in 1..taken \ background
       /\ Undrawn(c) => snapper[c].generation = 0
       /\ ~Undrawn(c) => snapper[c].generation \in 1..generations
       /\ \A p \in pushing : p.generation # snapper[c].generation
  /\ \A c, d \in Snapper : c # d =>
       /\ snapper[c].snapshot = 0 \/ snapper[c].snapshot # snapper[d].snapshot
       /\ snapper[c].generation = 0 \/ snapper[c].generation # snapper[d].generation

(* The entry is that of its generation, until a background push moves the  *)
(* generation on.                                                          *)
EntryOK ==
  /\ cache.text \in {0, cache.refs} /\ cache.session \in {0, cache.refs}
  /\ cache.explicit => cache.refs \notin background
  /\ \A c \in Snapper :
       /\ ~Uninserted(c) => cache.explicit
       /\ (snapper[c].at = "pushing") => cache.generation # snapper[c].generation
       /\ (~Uninserted(c) /\ cache.generation = snapper[c].generation) =>
            cache.refs = snapper[c].snapshot
  /\ (cache.session # 0) =>
       \E c \in Snapper : Patched(c) /\ snapper[c].snapshot = cache.session

Held(q) == {q[i] : i \in DOMAIN q}
Distinct(q) == \A i, j \in DOMAIN q : q[i].snapshot = q[j].snapshot => i = j

(* What was written is there until it is evicted: the subtrees, and, after *)
(* them, all that did not fail.                                            *)
Due(c) == IF Indexing(c) THEN {"subtrees"} ELSE FilesDue(snapper[c].snapshot)
FilesKept(c) ==
  \/ snapper[c].snapshot \in evicted
  \/ \E e \in Held(sessions) : e.snapshot = snapper[c].snapshot /\ Due(c) \subseteq e.files

FilesOK ==
  /\ Distinct(sessions)
  /\ \A c \in Snapper : Written(c) => FilesKept(c)

(* Beyond those that are allowed there are only the directories of calls   *)
(* that will prune, those that are being removed, and those that could not *)
(* be.                                                                     *)
WillPrune(c) == snapper[c].at \in {"writing", "indexing", "patch", "prune"}
Pending == {s \in Nat : \E c \in Snapper : WillPrune(c) /\ snapper[c].snapshot = s}
Doomed == UNION {p.doomed : p \in pruner}
Settled == {d.snapshot : d \in Held(sessions)} \ (Pending \cup Doomed \cup unremoved)

PrunerOK ==
  /\ \A p, q \in pruner : p = q
  /\ \A p \in pruner : snapper[p.caller].at = "pruning"
  /\ IsFiniteSet(Settled) /\ Cardinality(Settled) <= MaxSessions

SnapIInv == SnapTypeOK /\ NumbersOK /\ EntryOK /\ FilesOK /\ PrunerOK

-----------------------------------------------------------------------------
LEMMA OthersHeld ==
  ASSUME NEW s \in Nat, sessions \in Seq(Directories), Distinct(sessions)
  PROVE  /\ Others(s) \in Seq(Directories) /\ Distinct(Others(s))
         /\ Held(Others(s)) = {d \in Held(sessions) : d.snapshot # s}
<1>1. CASE ~Exists(s)
  <2>1. Others(s) = sessions
    BY <1>1 DEF Others
  <2>2. \A d \in Held(sessions) : d.snapshot # s
    BY <1>1 DEF Held, Exists
  <2> QED BY <2>1, <2>2
<1>2. CASE Exists(s)
  <2> DEFINE n == Len(sessions)  k == Place(s)
             r == [i \in 1 .. (n - 1) |-> sessions[IF i < k THEN i ELSE i + 1]]
  <2>1. n \in Nat /\ DOMAIN sessions = 1..n /\ \A i \in 1..n : sessions[i] \in Directories
    OBVIOUS
  <2>2. k \in 1..n /\ sessions[k].snapshot = s
    BY <1>2, <2>1 DEF Exists, Place
  <2>3. Others(s) = r
    BY <1>2 DEF Others
  <2> HIDE DEF n, k
  <2>4. n - 1 \in Nat /\ \A i \in 1 .. (n - 1) : r[i] \in Directories
    BY <2>1, <2>2
  <2>5. r \in Seq(Directories) /\ Len(r) = n - 1
    BY <2>4
  <2>6. \A i \in 1 .. (n - 1) : \E j \in 1..n :
          j # k /\ r[i] = sessions[j] /\ j = (IF i < k THEN i ELSE i + 1)
    BY <2>1, <2>2
  <2>7. \A j \in 1..n : j # k => \E i \in 1 .. (n - 1) : r[i] = sessions[j]
    <3> SUFFICES ASSUME NEW j \in 1..n, j # k
                 PROVE  \E i \in 1 .. (n - 1) : r[i] = sessions[j]
      OBVIOUS
    <3>1. CASE j < k
      <4>1. j \in 1 .. (n - 1) /\ r[j] = sessions[j]
        BY <3>1, <2>1, <2>2
      <4> QED BY <4>1
    <3>2. CASE j > k
      <4>1. j - 1 \in 1 .. (n - 1) /\ ~(j - 1 < k) /\ (j - 1) + 1 = j
        BY <3>2, <2>1, <2>2
      <4>2. r[j - 1] = sessions[j]
        BY <4>1
      <4> QED BY <4>1, <4>2
    <3> QED BY <3>1, <3>2, <2>1, <2>2
  <2>8. \A j \in 1..n : (sessions[j].snapshot = s) => j = k
    BY <2>1, <2>2 DEF Distinct
  <2>9. DOMAIN r = 1 .. (n - 1)
    OBVIOUS
  <2> HIDE DEF r
  <2>10. Distinct(r)
    <3> SUFFICES ASSUME NEW i \in 1 .. (n - 1), NEW j \in 1 .. (n - 1),
                        r[i].snapshot = r[j].snapshot
                 PROVE  i = j
      BY <2>9 DEF Distinct
    <3>1. PICK a \in 1..n : r[i] = sessions[a] /\ a = (IF i < k THEN i ELSE i + 1)
      BY <2>6
    <3>2. PICK b \in 1..n : r[j] = sessions[b] /\ b = (IF j < k THEN j ELSE j + 1)
      BY <2>6
    <3>3. a = b
      BY <3>1, <3>2, <2>1 DEF Distinct
    <3> QED BY <3>1, <3>2, <3>3, <2>1, <2>2
  <2>11. Held(r) = {d \in Held(sessions) : d.snapshot # s}
    <3>1. \A d \in Held(r) : d \in Held(sessions) /\ d.snapshot # s
      BY <2>1, <2>6, <2>8, <2>9 DEF Held
    <3>2. \A d \in Held(sessions) : d.snapshot # s => d \in Held(r)
      <4> SUFFICES ASSUME NEW j \in 1..n, sessions[j].snapshot # s
                   PROVE  sessions[j] \in Held(r)
        BY <2>1 DEF Held
      <4>1. j # k
        BY <2>2
      <4> QED BY <4>1, <2>7, <2>9 DEF Held
    <3> QED BY <3>1, <3>2
  <2> QED BY <2>3, <2>5, <2>10, <2>11
<1> QED BY <1>1, <1>2

LEMMA TouchHeld ==
  ASSUME NEW s \in Nat, NEW f \in SUBSET ({"subtrees"} \cup Index),
         sessions \in Seq(Directories), Distinct(sessions), Touch(s, f)
  PROVE  /\ sessions' \in Seq(Directories) /\ Distinct(sessions')
         /\ Held(sessions') = {d \in Held(sessions) : d.snapshot # s}
                               \cup {[snapshot |-> s, files |-> f]}
<1> DEFINE q == Others(s)  e == [snapshot |-> s, files |-> f]  n == Len(q)
<1>1. /\ q \in Seq(Directories) /\ Distinct(q)
      /\ Held(q) = {d \in Held(sessions) : d.snapshot # s}
  BY OthersHeld
<1>2. sessions' = Append(q, e) /\ e \in Directories
  BY DEF Touch, Directories
<1> HIDE DEF q, e
<1>3. /\ sessions' \in Seq(Directories) /\ Len(sessions') = n + 1 /\ n \in Nat
      /\ DOMAIN q = 1..n /\ DOMAIN sessions' = 1 .. (n + 1)
      /\ \A i \in 1..n : sessions'[i] = q[i]
      /\ sessions'[n + 1] = e
  BY <1>1, <1>2
<1> HIDE DEF n
<1>4. e.snapshot = s
  BY DEF e
<1>5. \A i \in 1..n : q[i].snapshot # s
  BY <1>1, <1>3 DEF Held
<1>6. Distinct(sessions')
  <2> SUFFICES ASSUME NEW i \in 1 .. (n + 1), NEW j \in 1 .. (n + 1),
                      sessions'[i].snapshot = sessions'[j].snapshot
               PROVE  i = j
    BY <1>3 DEF Distinct
  <2>1. CASE i \in 1..n /\ j \in 1..n
    BY <2>1, <1>1, <1>3 DEF Distinct
  <2>2. CASE i = n + 1 /\ j \in 1..n
    BY <2>2, <1>3, <1>4, <1>5
  <2>3. CASE i \in 1..n /\ j = n + 1
    BY <2>3, <1>3, <1>4, <1>5
  <2>4. CASE i = n + 1 /\ j = n + 1
    BY <2>4
  <2> QED BY <2>1, <2>2, <2>3, <2>4, <1>3
<1>7. Held(sessions') = Held(q) \cup {e}
  <2>1. \A d \in Held(sessions') : d \in Held(q) \/ d = e
    <3> SUFFICES ASSUME NEW i \in 1 .. (n + 1)
                 PROVE  sessions'[i] \in Held(q) \/ sessions'[i] = e
      BY <1>3 DEF Held
    <3>1. i \in 1..n \/ i = n + 1
      BY <1>3
    <3> QED BY <3>1, <1>3 DEF Held
  <2>2. \A d \in Held(q) : d \in Held(sessions')
    <3>1. \A i \in 1..n : i \in 1 .. (n + 1)
      BY <1>3
    <3> QED BY <3>1, <1>3 DEF Held
  <2>3. n + 1 \in 1 .. (n + 1)
    BY <1>3
  <2>4. e \in Held(sessions')
    BY <2>3, <1>3 DEF Held
  <2> QED BY <2>1, <2>2, <2>4
<1> QED BY <1>1, <1>3, <1>6, <1>7 DEF e

-----------------------------------------------------------------------------
(* Frames                                                                  *)

LEMMA FilesFrame ==
  ASSUME FilesOK, UNCHANGED sessions, evicted \subseteq evicted', UNCHANGED unwritten,
         \A c \in Snapper : Written(c)' =>
           Written(c) /\ snapper'[c].snapshot = snapper[c].snapshot /\ (Indexing(c)' <=> Indexing(c))
  PROVE  FilesOK'
<1>1. Distinct(sessions') /\ Held(sessions') = Held(sessions)
  BY DEF FilesOK, Distinct, Held
<1>2. ASSUME NEW c \in Snapper, Written(c)' PROVE FilesKept(c)'
  <2>1. FilesKept(c) /\ snapper'[c].snapshot = snapper[c].snapshot
    BY <1>2 DEF FilesOK
  <2>2. Due(c)' = Due(c)
    BY <1>2, <2>1 DEF Due, FilesDue
  <2> QED BY <1>1, <2>1, <2>2 DEF FilesKept
<1> QED BY <1>1, <1>2 DEF FilesOK

LEMMA SettledFrame ==
  ASSUME SnapTypeOK, PrunerOK, Settled' \subseteq Settled
  PROVE  IsFiniteSet(Settled') /\ Cardinality(Settled') <= MaxSessions
<1>1. IsFiniteSet(Settled) /\ Cardinality(Settled) \in Nat /\ Cardinality(Settled) <= MaxSessions
  BY FS_CardinalityType DEF PrunerOK
<1> HIDE DEF Settled
<1>2. IsFiniteSet(Settled') /\ Cardinality(Settled') <= Cardinality(Settled)
  BY <1>1, FS_Subset
<1>3. Cardinality(Settled') \in Nat
  BY <1>2, FS_CardinalityType
<1> QED BY <1>1, <1>2, <1>3, SnapshotConstants

(* Who will prune still will, or is past that.                             *)
LEMMA PrunerFrame ==
  ASSUME SnapTypeOK, PrunerOK, UNCHANGED <<sessions, pruner, unremoved>>,
         Pending \subseteq Pending',
         \A c \in Snapper : (snapper[c].at = "pruning") => snapper'[c].at = "pruning"
  PROVE  PrunerOK'
<1>1. Settled' \subseteq Settled
  BY DEF Settled, Doomed, Held
<1>2. IsFiniteSet(Settled') /\ Cardinality(Settled') <= MaxSessions
  BY <1>1, SettledFrame
<1>3. \A p \in pruner' : p.caller \in Snapper
  BY DEF SnapTypeOK
<1> QED BY <1>2, <1>3 DEF PrunerOK

LEMMA EntryMoves ==
  ASSUME SnapTypeOK, NEW c \in Snapper, NEW at \in SnapSteps, To(c, at),
         UNCHANGED <<taken, generations>>
  PROVE  /\ snapper' \in [Snapper -> [at: SnapSteps, snapshot: 0..taken',
                                      generation: 0..generations']]
         /\ snapper'[c].at = at
         /\ \A d \in Snapper : /\ snapper'[d].snapshot = snapper[d].snapshot
                               /\ snapper'[d].generation = snapper[d].generation
                               /\ d # c => snapper'[d] = snapper[d]
BY DEF SnapTypeOK, To

(* A step from one stage to a later one touches no number.                 *)
LEMMA MovedNumbers ==
  ASSUME SnapTypeOK, NumbersOK, NEW c \in Snapper, NEW at \in SnapSteps, To(c, at),
         ~Undrawn(c), at \notin {"new", "answered"},
         UNCHANGED <<taken, background, generations, pushing>>
  PROVE  NumbersOK'
BY EntryMoves DEF NumbersOK, Undrawn

LEMMA MovedEntry ==
  ASSUME SnapTypeOK, EntryOK, NEW c \in Snapper, NEW at \in SnapSteps, To(c, at),
         ~Uninserted(c), at \notin {"new", "answered", "pushing"},
         Patched(c) => at \in {"prune", "pruning", "files"},
         UNCHANGED <<taken, background, generations, cache>>
  PROVE  EntryOK'
<1>1. \A d \in Snapper : Patched(d) => Patched(d)'
  BY EntryMoves DEF Patched
<1>2. \A d \in Snapper : Uninserted(d)' <=> Uninserted(d)
  BY EntryMoves DEF Uninserted
<1>3. \A d \in Snapper : (snapper'[d].at = "pushing") => snapper[d].at = "pushing"
  BY EntryMoves
<1> QED BY <1>1, <1>2, <1>3, EntryMoves DEF EntryOK

-----------------------------------------------------------------------------
LEMMA InitSnapshot == SnapshotInit => SnapIInv
<1> SUFFICES ASSUME SnapshotInit PROVE SnapIInv
  OBVIOUS
<1> USE DEF SnapshotInit
<1>1. cache \in Entries /\ cache.generation = 0 /\ cache.refs = 0
  BY DEF NoDom, Entries
<1>2. SnapTypeOK
  BY <1>1 DEF SnapTypeOK, SnapSteps
<1>3. NumbersOK
  BY DEF NumbersOK, Undrawn
<1>4. EntryOK
  BY DEF EntryOK, NoDom, Uninserted
<1>5. FilesOK
  BY DEF FilesOK, Distinct, Written
<1>6. Settled = {}
  BY DEF Settled, Held
<1>7. PrunerOK
  BY <1>6, FS_EmptySet, SnapshotConstants DEF PrunerOK
<1> QED BY <1>2, <1>3, <1>4, <1>5, <1>7 DEF SnapIInv

LEMMA PushBackgroundKeeps == SnapIInv /\ PushBackground => SnapIInv'
<1> SUFFICES ASSUME SnapIInv, PushBackground PROVE SnapIInv'
  OBVIOUS
<1> USE DEF SnapIInv
<1> DEFINE n == [snapshot |-> taken + 1, generation |-> generations + 1]
<1>1. /\ taken' = taken + 1 /\ background' = background \cup {taken + 1}
      /\ generations' = generations + 1 /\ pushing' = pushing \cup {n}
      /\ UNCHANGED <<cache, snapper, sessions, evicted, pruner,
                   unwritten, unremoved>>
  BY DEF failures, PushBackground
<1>2. taken \in Nat /\ generations \in Nat /\ background \subseteq 1..taken
  BY DEF SnapTypeOK
<1>3. SnapTypeOK'
  <2>1. n \in [snapshot: background', generation: 1..generations']
    BY <1>1, <1>2
  <2>2. pushing' \subseteq [snapshot: background', generation: 1..generations']
    BY <1>1, <1>2, <2>1 DEF SnapTypeOK
  <2>3. snapper' \in [Snapper -> [at: SnapSteps, snapshot: 0..taken',
                                 generation: 0..generations']]
    BY <1>1, <1>2 DEF SnapTypeOK
  <2>4. cache.generation \in Nat /\ cache.refs \in Nat
    BY DEF SnapTypeOK, Entries
  <2> QED BY <1>1, <1>2, <2>2, <2>3, <2>4 DEF SnapTypeOK
<1>4. NumbersOK'
  <2>1. \A c \in Snapper : snapper[c].snapshot \in 0..taken /\ snapper[c].generation \in 0..generations
    BY DEF SnapTypeOK
  <2>2. \A p \in pushing', c \in Snapper : p.generation # snapper[c].generation
    BY <1>1, <1>2, <2>1 DEF NumbersOK
  <2> QED BY <1>1, <1>2, <2>1, <2>2 DEF NumbersOK, Undrawn
<1>5. EntryOK'
  BY <1>1, <1>2 DEF EntryOK, SnapTypeOK, Uninserted, Patched
<1>6. FilesOK'
  BY <1>1, FilesFrame DEF Written, Indexing
<1>7. PrunerOK'
  BY <1>1, PrunerFrame DEF Pending, WillPrune
<1> QED BY <1>3, <1>4, <1>5, <1>6, <1>7

(* A push of the page keeps an explicit entry, but for its generation.     *)
LEMMA InsertBackgroundKeeps ==
  ASSUME SnapIInv, NEW p \in pushing, InsertBackground(p)
  PROVE  SnapIInv'
<1> USE DEF SnapIInv
<1>1. /\ pushing' = pushing \ {p} /\ cache' = Merged(p.generation, p.snapshot, FALSE)
      /\ UNCHANGED <<taken, background, generations, snapper, sessions, evicted, pruner,
                   unwritten, unremoved>>
  BY DEF failures, InsertBackground
<1>2. /\ p.generation \in 1..generations /\ p.snapshot \in background
      /\ taken \in Nat /\ generations \in Nat /\ background \subseteq 1..taken
      /\ cache \in Entries /\ cache.refs \in Nat /\ cache.refs <= taken
  BY DEF SnapTypeOK, Entries
<1> HIDE DEF SnapIInv
<1>0. p.snapshot \in Nat /\ p.snapshot <= taken /\ p.generation \in Nat
  <2>1. p.snapshot \in 1..taken
    BY <1>2, Zenon
  <2> QED BY <1>2, <2>1
<1>3. /\ cache'.generation = p.generation /\ cache'.explicit = cache.explicit
      /\ cache' \in Entries
      /\ cache.explicit => /\ cache'.refs = cache.refs /\ cache'.text = cache.text
                           /\ cache'.session = cache.session
      /\ ~cache.explicit => /\ cache'.refs = p.snapshot /\ cache'.text = 0 /\ cache'.session = 0
  <2>1. CASE cache.explicit
    <3>1. cache' = [cache EXCEPT !.generation = p.generation]
      BY <1>1, <2>1 DEF Merged
    <3>2. p.generation \in Nat
      BY <1>2
    <3>3. cache' \in Entries
      BY <1>2, <3>1, <3>2 DEF Entries
    <3>4. cache'.generation = p.generation
      BY <1>2, <3>1 DEF Entries
    <3>5. cache'.explicit = cache.explicit
      BY <1>2, <3>1 DEF Entries
    <3>6. cache'.refs = cache.refs /\ cache'.text = cache.text /\ cache'.session = cache.session
      BY <1>2, <3>1 DEF Entries
    <3> QED BY <2>1, <3>3, <3>4, <3>5, <3>6
  <2>2. CASE ~cache.explicit
    <3>1. cache' = [generation |-> p.generation, explicit |-> FALSE, refs |-> p.snapshot,
                    text |-> 0, session |-> 0]
      BY <1>1, <2>2 DEF Merged
    <3>2. cache.explicit = FALSE
      BY <1>2, <2>2, Zenon DEF Entries
    <3>3. p.generation \in Nat /\ p.snapshot \in Nat
      BY <1>0
    <3>4. cache' \in Entries
      BY <3>1, <3>3 DEF Entries
    <3>5. cache'.explicit = cache.explicit
      BY <3>1, <3>2, Zenon
    <3>6. /\ cache'.generation = p.generation /\ cache'.refs = p.snapshot
          /\ cache'.text = 0 /\ cache'.session = 0
      BY <3>1
    <3> QED BY <2>2, <3>4, <3>5, <3>6
  <2> QED BY <2>1, <2>2
<1>4. SnapTypeOK'
  <2>1. cache'.generation <= generations
    BY <1>2, <1>3
  <2>2. cache'.refs <= taken
    <3>1. CASE cache.explicit
      BY <3>1, <1>2, <1>3
    <3>2. CASE ~cache.explicit
      BY <3>2, <1>3, <1>0
    <3> QED BY <3>1, <3>2
  <2>3. pushing' \subseteq [snapshot: background', generation: 1..generations']
    BY <1>1 DEF SnapTypeOK, SnapIInv
  <2> QED BY <1>1, <1>3, <2>1, <2>2, <2>3 DEF SnapTypeOK, SnapIInv
<1>5. NumbersOK'
  BY <1>1 DEF NumbersOK, Undrawn, SnapIInv
<1>6. \A c \in Snapper : cache'.generation # snapper[c].generation
  BY <1>3 DEF NumbersOK, SnapIInv
<1>7. EntryOK'
  <2>1. cache'.text \in {0, cache'.refs} /\ cache'.session \in {0, cache'.refs}
    BY <1>3 DEF EntryOK, SnapIInv
  <2>2. cache'.explicit => cache'.refs \notin background'
    BY <1>1, <1>3 DEF EntryOK, SnapIInv
  <2>3. (cache'.session # 0) => cache'.session = cache.session
    BY <1>3
  <2> QED BY <1>1, <1>3, <1>6, <2>1, <2>2, <2>3 DEF EntryOK, Uninserted, Patched, SnapIInv
<1>8. FilesOK'
  BY <1>1, FilesFrame DEF Written, Indexing, SnapIInv
<1>9. PrunerOK'
  BY <1>1, PrunerFrame DEF Pending, WillPrune, SnapIInv
<1> QED BY <1>4, <1>5, <1>7, <1>8, <1>9 DEF SnapIInv

(* A call that takes its snapshot or draws its generation gets a number of *)
(* its own.                                                                *)
LEMMA TakeSnapshotKeeps ==
  ASSUME SnapIInv, NEW c \in Snapper, TakeSnapshot(c)
  PROVE  SnapIInv'
<1>1. /\ snapper[c].at = "new" /\ taken' = taken + 1
      /\ snapper' = [snapper EXCEPT ![c].at = "answered", ![c].snapshot = taken + 1]
      /\ UNCHANGED <<background, generations, cache, pushing, sessions, evicted, pruner,
                   unwritten, unremoved>>
  BY DEF failures, TakeSnapshot
<1>2. SnapTypeOK /\ NumbersOK /\ EntryOK /\ FilesOK /\ PrunerOK
  BY DEF SnapIInv
<1>3. taken \in Nat /\ generations \in Nat /\ background \subseteq 1..taken
      /\ cache.refs \in Nat /\ cache.refs <= taken
  BY <1>2 DEF SnapTypeOK, Entries
<1>4. \A d \in Snapper : /\ snapper[d].snapshot \in 0..taken
                         /\ snapper[d].generation \in 0..generations
                         /\ snapper[d].at \in SnapSteps
  BY <1>2 DEF SnapTypeOK
<1>5. snapper' \in [Snapper -> [at: SnapSteps, snapshot: 0..taken', generation: 0..generations']]
  <2>1. taken + 1 \in 0..taken' /\ "answered" \in SnapSteps
    BY <1>1, <1>3 DEF SnapSteps
  <2>2. snapper \in [Snapper -> [at: SnapSteps, snapshot: 0..taken', generation: 0..generations']]
    BY <1>1, <1>2, <1>3 DEF SnapTypeOK
  <2> QED BY <1>1, <2>1, <2>2
<1>6. /\ snapper'[c].at = "answered" /\ snapper'[c].snapshot = taken + 1
      /\ \A d \in Snapper : snapper'[d].generation = snapper[d].generation
      /\ \A d \in Snapper : d # c => snapper'[d] = snapper[d]
  BY <1>1, <1>2 DEF SnapTypeOK
<1>7. SnapTypeOK'
  <2>1. background' \subseteq 1..taken' /\ cache'.refs <= taken'
    BY <1>1, <1>3
  <2> QED BY <1>1, <1>2, <1>3, <1>5, <2>1 DEF SnapTypeOK
<1>8. NumbersOK'
  <2>1. taken + 1 \in 1..taken' \ background'
    BY <1>1, <1>3
  <2>2. \A d \in Snapper : d # c => snapper[d].snapshot # taken + 1
    BY <1>3, <1>4
  <2>3. \A n \in 1..taken \ background : n \in 1..taken' \ background'
    BY <1>1, <1>3
  <2>4. \A d \in Snapper : Undrawn(d)' <=> Undrawn(d)
    BY <1>1, <1>6 DEF Undrawn
  <2>5. \A d \in Snapper :
          /\ (snapper'[d].at = "new") => snapper'[d].snapshot = 0
          /\ (snapper'[d].at # "new") => snapper'[d].snapshot \in 1..taken' \ background'
    <3> SUFFICES ASSUME NEW d \in Snapper
                 PROVE  /\ (snapper'[d].at = "new") => snapper'[d].snapshot = 0
                        /\ (snapper'[d].at # "new") =>
                             snapper'[d].snapshot \in 1..taken' \ background'
      OBVIOUS
    <3>1. CASE d = c
      BY <3>1, <1>6, <2>1
    <3>2. CASE d # c
      <4>1. snapper'[d] = snapper[d]
        BY <3>2, <1>6
      <4>2. /\ (snapper[d].at = "new") => snapper[d].snapshot = 0
            /\ (snapper[d].at # "new") => snapper[d].snapshot \in 1..taken \ background
        BY <1>2 DEF NumbersOK
      <4> QED BY <4>1, <4>2, <2>3
    <3> QED BY <3>1, <3>2
  <2>6. \A a, b \in Snapper : a # b =>
          snapper'[a].snapshot = 0 \/ snapper'[a].snapshot # snapper'[b].snapshot
    <3>1. \A a, b \in Snapper : a # b =>
            snapper[a].snapshot = 0 \/ snapper[a].snapshot # snapper[b].snapshot
      BY <1>2 DEF NumbersOK
    <3> QED BY <3>1, <1>6, <2>2
  <2>7. \A d \in Snapper :
          /\ Undrawn(d) => snapper[d].generation = 0
          /\ ~Undrawn(d) => snapper[d].generation \in 1..generations
          /\ \A p \in pushing : p.generation # snapper[d].generation
    BY <1>2 DEF NumbersOK
  <2>8. \A a, b \in Snapper : a # b =>
          snapper[a].generation = 0 \/ snapper[a].generation # snapper[b].generation
    BY <1>2 DEF NumbersOK
  <2>9. \A d \in Snapper :
          /\ Undrawn(d)' => snapper'[d].generation = 0
          /\ ~Undrawn(d)' => snapper'[d].generation \in 1..generations'
    BY <1>1, <1>6, <2>4, <2>7
  <2>10. \A p \in pushing', d \in Snapper : p.generation # snapper'[d].generation
    BY <1>1, <1>6, <2>7
  <2>11. \A a, b \in Snapper : a # b =>
           snapper'[a].generation = 0 \/ snapper'[a].generation # snapper'[b].generation
    BY <1>6, <2>8
  <2> QED BY <2>5, <2>6, <2>9, <2>10, <2>11 DEF NumbersOK
<1>9. EntryOK'
  <2>1. \A d \in Snapper : Uninserted(d)' <=> Uninserted(d)
    BY <1>1, <1>6 DEF Uninserted
  <2>2. \A d \in Snapper : ~Uninserted(d) => d # c
    BY <1>1 DEF Uninserted
  <2>3. \A d \in Snapper : Patched(d) => d # c /\ Patched(d)'
    BY <1>1, <1>6 DEF Patched
  <2>4. \A d \in Snapper : (snapper'[d].at = "pushing") => d # c /\ snapper[d].at = "pushing"
    BY <1>6
  <2>5. /\ cache.text \in {0, cache.refs} /\ cache.session \in {0, cache.refs}
        /\ cache.explicit => cache.refs \notin background
        /\ (cache.session # 0) =>
             \E d \in Snapper : Patched(d) /\ snapper[d].snapshot = cache.session
    BY <1>2 DEF EntryOK
  <2>6. \A d \in Snapper : d # c =>
          /\ ~Uninserted(d) => cache.explicit
          /\ (snapper[d].at = "pushing") => cache.generation # snapper[d].generation
          /\ (~Uninserted(d) /\ cache.generation = snapper[d].generation) =>
               cache.refs = snapper[d].snapshot
    BY <1>2 DEF EntryOK
  <2>7. \A d \in Snapper :
          /\ ~Uninserted(d)' => cache'.explicit
          /\ (snapper'[d].at = "pushing") => cache'.generation # snapper'[d].generation
          /\ (~Uninserted(d)' /\ cache'.generation = snapper'[d].generation) =>
               cache'.refs = snapper'[d].snapshot
    <3> SUFFICES ASSUME NEW d \in Snapper
                 PROVE  /\ ~Uninserted(d)' => cache'.explicit
                        /\ (snapper'[d].at = "pushing") =>
                             cache'.generation # snapper'[d].generation
                        /\ (~Uninserted(d)' /\ cache'.generation = snapper'[d].generation) =>
                             cache'.refs = snapper'[d].snapshot
      OBVIOUS
    <3>1. CASE d = c
      BY <3>1, <2>1, <2>2, <2>4
    <3>2. CASE d # c
      BY <3>2, <1>1, <1>6, <2>1, <2>6
    <3> QED BY <3>1, <3>2
  <2>8. (cache'.session # 0) =>
          \E d \in Snapper : Patched(d)' /\ snapper'[d].snapshot = cache'.session
    BY <1>1, <1>6, <2>3, <2>5
  <2> QED BY <1>1, <2>5, <2>7, <2>8 DEF EntryOK
<1>10. FilesOK'
  <2>1. \A d \in Snapper : Written(d)' => /\ Written(d) /\ snapper'[d].snapshot = snapper[d].snapshot
                                       /\ (Indexing(d)' <=> Indexing(d))
    BY <1>6 DEF Written, Indexing
  <2> QED BY <1>1, <1>2, <2>1, FilesFrame
<1>11. PrunerOK'
  <2>3. \A d \in Snapper : WillPrune(d) => d # c /\ WillPrune(d)'
    BY <1>1, <1>6 DEF WillPrune
  <2>1. Pending \subseteq Pending'
    BY <1>6, <2>3 DEF Pending
  <2>2. \A d \in Snapper : (snapper[d].at = "pruning") => snapper'[d].at = "pruning"
    BY <1>1, <1>6
  <2> QED BY <1>1, <1>2, <2>1, <2>2, PrunerFrame
<1> QED BY <1>7, <1>8, <1>9, <1>10, <1>11 DEF SnapIInv

LEMMA DrawGenerationKeeps ==
  ASSUME SnapIInv, NEW c \in Snapper, DrawGeneration(c)
  PROVE  SnapIInv'
<1>1. /\ snapper[c].at = "answered" /\ generations' = generations + 1
      /\ snapper' = [snapper EXCEPT ![c].at = "pushing", ![c].generation = generations + 1]
      /\ UNCHANGED <<taken, background, cache, pushing, sessions, evicted, pruner,
                   unwritten, unremoved>>
  BY DEF failures, DrawGeneration
<1>2. SnapTypeOK /\ NumbersOK /\ EntryOK /\ FilesOK /\ PrunerOK
  BY DEF SnapIInv
<1>3. taken \in Nat /\ generations \in Nat
      /\ cache.generation \in Nat /\ cache.generation <= generations
      /\ \A p \in pushing : p.generation \in 1..generations
  BY <1>2 DEF SnapTypeOK, Entries
<1>4. \A d \in Snapper : /\ snapper[d].snapshot \in 0..taken
                         /\ snapper[d].generation \in 0..generations
                         /\ snapper[d].at \in SnapSteps
  BY <1>2 DEF SnapTypeOK
<1>5. snapper' \in [Snapper -> [at: SnapSteps, snapshot: 0..taken', generation: 0..generations']]
  <2>1. generations + 1 \in 0..generations' /\ "pushing" \in SnapSteps
    BY <1>1, <1>3 DEF SnapSteps
  <2>2. snapper \in [Snapper -> [at: SnapSteps, snapshot: 0..taken', generation: 0..generations']]
    BY <1>1, <1>2, <1>3 DEF SnapTypeOK
  <2> QED BY <1>1, <2>1, <2>2
<1>6. /\ snapper'[c].at = "pushing" /\ snapper'[c].generation = generations + 1
      /\ \A d \in Snapper : snapper'[d].snapshot = snapper[d].snapshot
      /\ \A d \in Snapper : d # c => snapper'[d] = snapper[d]
  BY <1>1, <1>2 DEF SnapTypeOK
<1>7. SnapTypeOK'
  <2>1. pushing' \subseteq [snapshot: background', generation: 1..generations']
    BY <1>1, <1>2, <1>3 DEF SnapTypeOK
  <2>2. cache'.generation <= generations'
    BY <1>1, <1>3
  <2> QED BY <1>1, <1>2, <1>3, <1>5, <2>1, <2>2 DEF SnapTypeOK
<1>8. NumbersOK'
  <2>1. \A p \in pushing' : p.generation # generations + 1
    BY <1>1, <1>3
  <2>2. \A d \in Snapper : d # c => snapper[d].generation # generations + 1
    BY <1>3, <1>4
  <2>3. generations + 1 \in 1..generations' /\ 1..generations \subseteq 1..generations'
    BY <1>1, <1>3
  <2>4. \A d \in Snapper :
          /\ Undrawn(d)' => snapper'[d].generation = 0
          /\ ~Undrawn(d)' => snapper'[d].generation \in 1..generations'
    BY <1>2, <1>6, <2>3 DEF NumbersOK, Undrawn
  <2>5. \A p \in pushing', d \in Snapper : p.generation # snapper'[d].generation
    <3>1. \A p \in pushing, d \in Snapper : p.generation # snapper[d].generation
      BY <1>2 DEF NumbersOK
    <3>2. pushing' = pushing
      BY <1>1
    <3> SUFFICES ASSUME NEW p \in pushing, NEW d \in Snapper
                 PROVE  p.generation # snapper'[d].generation
      BY <3>2
    <3>3. CASE d = c
      BY <3>2, <3>3, <1>6, <2>1
    <3>4. CASE d # c
      BY <3>1, <3>4, <1>6
    <3> QED BY <3>3, <3>4
  <2>6. \A a, b \in Snapper : a # b =>
          snapper'[a].generation = 0 \/ snapper'[a].generation # snapper'[b].generation
    BY <1>2, <1>6, <2>2 DEF NumbersOK
  <2>7. \A d \in Snapper :
          /\ (snapper'[d].at = "new") => snapper'[d].snapshot = 0
          /\ (snapper'[d].at # "new") => snapper'[d].snapshot \in 1..taken' \ background'
    BY <1>1, <1>2, <1>6 DEF NumbersOK
  <2>8. \A a, b \in Snapper : a # b =>
          snapper'[a].snapshot = 0 \/ snapper'[a].snapshot # snapper'[b].snapshot
    BY <1>2, <1>6 DEF NumbersOK
  <2> QED BY <2>4, <2>5, <2>6, <2>7, <2>8 DEF NumbersOK
<1>9. EntryOK'
  <2>1. \A d \in Snapper : Uninserted(d)' <=> Uninserted(d)
    BY <1>1, <1>6 DEF Uninserted
  <2>2. \A d \in Snapper : ~Uninserted(d) => d # c
    BY <1>1 DEF Uninserted
  <2>3. \A d \in Snapper : Patched(d) => d # c /\ Patched(d)'
    BY <1>1, <1>6 DEF Patched
  <2>4. cache'.generation # generations + 1
    BY <1>1, <1>3
  <2>5. \A d \in Snapper : (snapper'[d].at = "pushing") =>
                             cache'.generation # snapper'[d].generation
    <3>1. \A d \in Snapper : (snapper[d].at = "pushing") => cache.generation # snapper[d].generation
      BY <1>2 DEF EntryOK
    <3> QED BY <1>1, <1>6, <2>4, <3>1
  <2>6. /\ cache.text \in {0, cache.refs} /\ cache.session \in {0, cache.refs}
        /\ cache.explicit => cache.refs \notin background
        /\ (cache.session # 0) =>
             \E d \in Snapper : Patched(d) /\ snapper[d].snapshot = cache.session
    BY <1>2 DEF EntryOK
  <2>7. \A d \in Snapper : d # c =>
          /\ ~Uninserted(d) => cache.explicit
          /\ (~Uninserted(d) /\ cache.generation = snapper[d].generation) =>
               cache.refs = snapper[d].snapshot
    BY <1>2 DEF EntryOK
  <2>9. \A d \in Snapper :
          /\ ~Uninserted(d)' => cache'.explicit
          /\ (~Uninserted(d)' /\ cache'.generation = snapper'[d].generation) =>
               cache'.refs = snapper'[d].snapshot
    <3> SUFFICES ASSUME NEW d \in Snapper, ~Uninserted(d)'
                 PROVE  /\ cache'.explicit
                        /\ (cache'.generation = snapper'[d].generation) =>
                             cache'.refs = snapper'[d].snapshot
      OBVIOUS
    <3>1. ~Uninserted(d) /\ d # c /\ snapper'[d] = snapper[d]
      BY <1>6, <2>1, <2>2
    <3> QED BY <3>1, <1>1, <2>7
  <2>8. (cache'.session # 0) =>
          \E d \in Snapper : Patched(d)' /\ snapper'[d].snapshot = cache'.session
    BY <1>1, <1>6, <2>3, <2>6
  <2> QED BY <1>1, <2>5, <2>6, <2>8, <2>9 DEF EntryOK
<1>10. FilesOK'
  <2>1. \A d \in Snapper : Written(d)' => /\ Written(d) /\ snapper'[d].snapshot = snapper[d].snapshot
                                       /\ (Indexing(d)' <=> Indexing(d))
    BY <1>6 DEF Written, Indexing
  <2> QED BY <1>1, <1>2, <2>1, FilesFrame
<1>11. PrunerOK'
  <2>3. \A d \in Snapper : WillPrune(d) => d # c /\ WillPrune(d)'
    BY <1>1, <1>6 DEF WillPrune
  <2>1. Pending \subseteq Pending'
    BY <1>6, <2>3 DEF Pending
  <2>2. \A d \in Snapper : (snapper[d].at = "pruning") => snapper'[d].at = "pruning"
    BY <1>1, <1>6
  <2> QED BY <1>1, <1>2, <2>1, <2>2, PrunerFrame
<1> QED BY <1>7, <1>8, <1>9, <1>10, <1>11 DEF SnapIInv

(* An explicit snapshot replaces whatever was cached.                      *)
LEMMA InsertSnapshotKeeps ==
  ASSUME SnapIInv, NEW c \in Snapper, InsertSnapshot(c)
  PROVE  SnapIInv'
<1>2. SnapTypeOK /\ NumbersOK /\ EntryOK /\ FilesOK /\ PrunerOK
  BY DEF SnapIInv
<1> DEFINE g == snapper[c].generation  s == snapper[c].snapshot
<1>1. /\ snapper[c].at = "pushing"
      /\ cache' = [generation |-> g, explicit |-> TRUE, refs |-> s, text |-> 0, session |-> 0]
      /\ UNCHANGED <<taken, background, generations, pushing, sessions, evicted, pruner,
                   unwritten, unremoved>>
  BY DEF failures, InsertSnapshot, Merged
<1>3. PICK at \in {"split", "inline"} : To(c, at)
  BY DEF InsertSnapshot
<1>4. /\ snapper' \in [Snapper -> [at: SnapSteps, snapshot: 0..taken', generation: 0..generations']]
      /\ snapper'[c].at = at
      /\ \A d \in Snapper : /\ snapper'[d].snapshot = snapper[d].snapshot
                            /\ snapper'[d].generation = snapper[d].generation
                            /\ d # c => snapper'[d] = snapper[d]
  <2>1. at \in SnapSteps
    BY DEF SnapSteps
  <2> QED BY <1>1, <1>2, <1>3, <2>1, EntryMoves
<1>5. /\ taken \in Nat /\ generations \in Nat
      /\ s \in 1..taken \ background /\ g \in 1..generations
  BY <1>1, <1>2 DEF SnapTypeOK, NumbersOK, Undrawn
<1> HIDE DEF g, s
<1>6. cache' \in Entries
  <2>1. g \in Nat /\ s \in Nat
    BY <1>5
  <2> QED BY <1>1, <2>1 DEF Entries
<1>7. /\ cache'.generation = g /\ cache'.refs = s /\ cache'.text = 0 /\ cache'.session = 0
  BY <1>1
<1>8. cache'.explicit
  BY <1>1, Zenon
<1>9. SnapTypeOK'
  <2>1. cache'.generation <= generations' /\ cache'.refs <= taken'
    BY <1>1, <1>5, <1>7
  <2> QED BY <1>1, <1>2, <1>4, <1>6, <2>1 DEF SnapTypeOK
<1>10. NumbersOK'
  <2>1. ~Undrawn(c) /\ at \in SnapSteps /\ at \notin {"new", "answered"}
    BY <1>1 DEF Undrawn, SnapSteps
  <2> QED BY <1>1, <1>2, <1>3, <2>1, MovedNumbers
<1>11. EntryOK'
  <2>1. \A d \in Snapper : d # c => g = 0 \/ snapper[d].generation # g
    BY <1>2 DEF NumbersOK, g
  <2>2. g # 0 /\ s \notin background'
    BY <1>1, <1>5
  <2>3. \A d \in Snapper : (snapper'[d].at = "pushing") => cache'.generation # snapper'[d].generation
    BY <1>4, <1>7, <2>1, <2>2
  <2>4. \A d \in Snapper : (cache'.generation = snapper'[d].generation) =>
                             cache'.refs = snapper'[d].snapshot
    BY <1>4, <1>7, <2>1, <2>2 DEF s
  <2> QED BY <1>7, <1>8, <2>2, <2>3, <2>4 DEF EntryOK
<1>12. FilesOK'
  <2>1. \A d \in Snapper : Written(d)' => /\ Written(d) /\ snapper'[d].snapshot = snapper[d].snapshot
                                       /\ (Indexing(d)' <=> Indexing(d))
    BY <1>4 DEF Written, Indexing
  <2> QED BY <1>1, <1>2, <2>1, FilesFrame
<1>13. PrunerOK'
  <2>3. \A d \in Snapper : WillPrune(d) => d # c /\ WillPrune(d)'
    BY <1>1, <1>4 DEF WillPrune
  <2>1. Pending \subseteq Pending'
    BY <1>4, <2>3 DEF Pending
  <2>2. \A d \in Snapper : (snapper[d].at = "pruning") => snapper'[d].at = "pruning"
    BY <1>1, <1>4
  <2> QED BY <1>1, <1>2, <2>1, <2>2, PrunerFrame
<1> QED BY <1>9, <1>10, <1>11, <1>12, <1>13 DEF SnapIInv

(* What only moves a call on keeps everything but the files.               *)
LEMMA StepKeeps ==
  ASSUME SnapIInv, NEW c \in Snapper, NEW at \in SnapSteps, To(c, at), ~Uninserted(c),
         at \notin {"new", "answered", "pushing"},
         Patched(c) => at \in {"prune", "pruning", "files"},
         UNCHANGED <<taken, background, generations, cache, pushing>>,
         sessions' \in Seq(Directories), pruner' \subseteq [caller: Snapper, doomed: SUBSET Nat]
  PROVE  SnapTypeOK' /\ NumbersOK' /\ EntryOK'
<1>1. SnapTypeOK /\ NumbersOK /\ EntryOK
  BY DEF SnapIInv
<1>2. SnapTypeOK'
  <2>1. snapper' \in [Snapper -> [at: SnapSteps, snapshot: 0..taken', generation: 0..generations']]
    BY <1>1, EntryMoves
  <2> QED BY <1>1, <2>1 DEF SnapTypeOK
<1>3. NumbersOK'
  <2>1. ~Undrawn(c)
    BY DEF Undrawn, Uninserted
  <2> QED BY <1>1, <2>1, MovedNumbers
<1>4. EntryOK'
  BY <1>1, MovedEntry
<1> QED BY <1>2, <1>3, <1>4

(* The directory of a call is no one else's.                               *)
LEMMA OwnSnapshot ==
  ASSUME SnapIInv, NEW c \in Snapper, ~Uninserted(c)
  PROVE  /\ snapper[c].snapshot \in Nat
         /\ \A d \in Snapper : d # c => snapper[d].snapshot # snapper[c].snapshot
<1>1. snapper[c].at # "new"
  BY DEF Uninserted
<1>2. taken \in Nat /\ snapper[c].snapshot \in 1..taken
  BY <1>1 DEF SnapIInv, SnapTypeOK, NumbersOK
<1>3. \A d \in Snapper : c # d =>
        snapper[c].snapshot = 0 \/ snapper[c].snapshot # snapper[d].snapshot
  BY DEF SnapIInv, NumbersOK
<1> QED BY <1>2, <1>3

(* A call that writes its own directory leaves those of the others.        *)
LEMMA OthersFiles ==
  ASSUME SnapIInv, NEW c \in Snapper, NEW at \in SnapSteps, To(c, at), ~Uninserted(c),
         UNCHANGED <<taken, generations, evicted>>, unwritten \subseteq unwritten',
         \A e \in Held(sessions) : (e.snapshot # snapper[c].snapshot) => e \in Held(sessions'),
         NEW d \in Snapper, d # c, Written(d)'
  PROVE  FilesKept(d)'
<1>1. SnapTypeOK /\ FilesOK
  BY DEF SnapIInv
<1>2. snapper'[d] = snapper[d]
  BY <1>1, EntryMoves
<1>3. FilesKept(d)
  BY <1>1, <1>2 DEF FilesOK, Written
<1>4. snapper[d].snapshot # snapper[c].snapshot
  BY OwnSnapshot
<1>5. Due(d)' \subseteq Due(d)
  BY <1>2 DEF Due, FilesDue, Indexing
<1>6. CASE snapper[d].snapshot \in evicted
  BY <1>2, <1>6 DEF FilesKept
<1>7. CASE snapper[d].snapshot \notin evicted
  <2>1. PICK e \in Held(sessions) : e.snapshot = snapper[d].snapshot /\ Due(d) \subseteq e.files
    BY <1>3, <1>7 DEF FilesKept
  <2>2. e \in Held(sessions')
    BY <1>4, <2>1
  <2>3. e.snapshot = snapper'[d].snapshot /\ Due(d)' \subseteq e.files
    BY <1>2, <1>5, <2>1
  <2> QED BY <2>2, <2>3 DEF FilesKept
<1> QED BY <1>6, <1>7

(* And no directory but its own comes or goes.                             *)
LEMMA OwnSettled ==
  ASSUME SnapIInv, NEW c \in Snapper, NEW at \in SnapSteps, To(c, at), ~Uninserted(c),
         snapper[c].at # "pruning",
         UNCHANGED <<taken, generations, pruner>>, unremoved \subseteq unremoved',
         \A e \in Held(sessions') :
           \/ e \in Held(sessions) /\ e.snapshot # snapper[c].snapshot
           \/ /\ e.snapshot = snapper[c].snapshot
              /\ at \in {"writing", "indexing", "patch", "prune"} \/ e.snapshot \in unremoved'
  PROVE  PrunerOK'
<1>1. SnapTypeOK /\ PrunerOK
  BY DEF SnapIInv
<1>2. /\ snapper'[c].at = at
      /\ \A d \in Snapper : /\ snapper'[d].snapshot = snapper[d].snapshot
                            /\ d # c => snapper'[d] = snapper[d]
  BY <1>1, EntryMoves
<1>3. snapper[c].snapshot \in Nat
  BY OwnSnapshot
<1>4. Settled' \subseteq Settled
  <2> SUFFICES ASSUME NEW e \in Held(sessions'), e.snapshot \notin Pending', e.snapshot \notin Doomed',
                      e.snapshot \notin unremoved'
               PROVE  e.snapshot \in Settled
    BY DEF Settled
  <2>1. e.snapshot \notin Doomed /\ e.snapshot \notin unremoved
    BY DEF Doomed
  <2>2. CASE e.snapshot = snapper[c].snapshot /\ at \in {"writing", "indexing", "patch", "prune"}
    <3>1. WillPrune(c)' /\ snapper'[c].snapshot = e.snapshot
      BY <1>2, <2>2 DEF WillPrune
    <3>2. e.snapshot \in Pending'
      BY <1>3, <2>2, <3>1 DEF Pending
    <3> QED BY <3>2
  <2>3. CASE e \in Held(sessions) /\ e.snapshot # snapper[c].snapshot
    <3>1. e.snapshot \notin Pending
      <4> SUFFICES ASSUME NEW d \in Snapper, WillPrune(d), snapper[d].snapshot = e.snapshot,
                          e.snapshot \in Nat
                   PROVE  FALSE
        BY DEF Pending
      <4>1. d # c /\ WillPrune(d)' /\ snapper'[d].snapshot = e.snapshot
        BY <1>2, <2>3 DEF WillPrune
      <4> QED BY <4>1 DEF Pending
    <3> QED BY <2>1, <2>3, <3>1 DEF Settled
  <2> QED BY <2>2, <2>3
<1>5. IsFiniteSet(Settled') /\ Cardinality(Settled') <= MaxSessions
  BY <1>1, <1>4, SettledFrame
<1>6. \A p \in pruner' : p.caller \in Snapper /\ p.caller # c
  BY <1>1 DEF SnapTypeOK, PrunerOK
<1> QED BY <1>1, <1>2, <1>5, <1>6 DEF PrunerOK

LEMMA CreateSessionKeeps ==
  ASSUME SnapIInv, NEW c \in Snapper, CreateSession(c)
  PROVE  SnapIInv'
<1>1. /\ snapper[c].at = "split"
      /\ UNCHANGED <<taken, background, generations, cache, pushing, evicted, pruner,
                   unwritten, unremoved>>
  BY DEF CreateSession, failures
<1>2. SnapTypeOK /\ FilesOK /\ PrunerOK
  BY DEF SnapIInv
<1>3. ~Uninserted(c) /\ ~Patched(c) /\ ~Written(c) /\ ~WillPrune(c)
  BY <1>1 DEF Uninserted, Patched, Written, WillPrune
<1>4. /\ sessions \in Seq(Directories) /\ Distinct(sessions)
      /\ pruner \subseteq [caller: Snapper, doomed: SUBSET Nat]
  BY <1>2 DEF SnapTypeOK, FilesOK
<1> DEFINE s == snapper[c].snapshot
<1>5. CASE Touch(s, {}) /\ To(c, "writing")
  <2>1. /\ sessions' \in Seq(Directories) /\ Distinct(sessions')
        /\ Held(sessions') = {d \in Held(sessions) : d.snapshot # s}
                             \cup {[snapshot |-> s, files |-> {}]}
    BY <1>3, <1>4, <1>5, OwnSnapshot, TouchHeld
  <2>2. "writing" \in SnapSteps
    BY DEF SnapSteps
  <2>3. SnapTypeOK' /\ NumbersOK' /\ EntryOK'
    BY <1>1, <1>3, <1>4, <1>5, <2>1, <2>2, StepKeeps
  <2>4. ~Written(c)'
    BY <1>2, <1>1, <1>5, <2>2, EntryMoves DEF Written
  <2>5. \A d \in Snapper : Written(d)' => FilesKept(d)'
    BY <1>1, <1>3, <1>5, <2>1, <2>2, <2>4, OthersFiles
  <2>6. PrunerOK'
    BY <1>1, <1>3, <1>5, <2>1, <2>2, OwnSettled
  <2> QED BY <2>1, <2>3, <2>5, <2>6 DEF SnapIInv, FilesOK
<1>6. CASE UNCHANGED sessions /\ To(c, "inline")
  <2>1. "inline" \in SnapSteps
    BY DEF SnapSteps
  <2>2. SnapTypeOK' /\ NumbersOK' /\ EntryOK'
    BY <1>1, <1>3, <1>4, <1>6, <2>1, StepKeeps
  <2>3. /\ snapper'[c].at = "inline"
        /\ \A d \in Snapper : /\ snapper'[d].snapshot = snapper[d].snapshot
                              /\ d # c => snapper'[d] = snapper[d]
    BY <1>1, <1>2, <1>6, <2>1, EntryMoves
  <2>4. \A d \in Snapper : Written(d)' => Written(d) /\ (Indexing(d)' <=> Indexing(d))
    BY <2>3 DEF Written, Indexing
  <2>5. \A d \in Snapper : WillPrune(d) => WillPrune(d)'
    BY <1>3, <2>3 DEF WillPrune
  <2>6. Pending \subseteq Pending'
    BY <2>3, <2>5 DEF Pending
  <2>7. FilesOK'
    BY <1>1, <1>2, <1>6, <2>3, <2>4, FilesFrame
  <2>8. PrunerOK'
    BY <1>1, <1>2, <1>6, <2>3, <2>6, PrunerFrame
  <2> QED BY <2>2, <2>7, <2>8 DEF SnapIInv
<1> QED BY <1>5, <1>6 DEF CreateSession

LEMMA WriteSubtreesKeeps ==
  ASSUME SnapIInv, NEW c \in Snapper, WriteSubtrees(c)
  PROVE  SnapIInv'
<1>1. /\ snapper[c].at = "writing"
      /\ UNCHANGED <<taken, background, generations, cache, pushing, evicted, pruner, unwritten>>
  BY DEF WriteSubtrees
<1>2. SnapTypeOK /\ FilesOK /\ PrunerOK
  BY DEF SnapIInv
<1>3. ~Uninserted(c) /\ ~Patched(c)
  BY <1>1 DEF Uninserted, Patched
<1>4. /\ sessions \in Seq(Directories) /\ Distinct(sessions)
      /\ pruner \subseteq [caller: Snapper, doomed: SUBSET Nat]
  BY <1>2 DEF SnapTypeOK, FilesOK
<1> DEFINE s == snapper[c].snapshot
<1>5. CASE Touch(s, {"subtrees"}) /\ To(c, "indexing") /\ UNCHANGED unremoved
  <2>1. /\ sessions' \in Seq(Directories) /\ Distinct(sessions')
        /\ Held(sessions') = {d \in Held(sessions) : d.snapshot # s}
                             \cup {[snapshot |-> s, files |-> {"subtrees"}]}
    BY <1>3, <1>4, <1>5, OwnSnapshot, TouchHeld
  <2>2. "indexing" \in SnapSteps
    BY DEF SnapSteps
  <2>3. SnapTypeOK' /\ NumbersOK' /\ EntryOK'
    BY <1>1, <1>3, <1>4, <1>5, <2>1, <2>2, StepKeeps
  <2>4. FilesKept(c)'
    <3> DEFINE e == [snapshot |-> s, files |-> {"subtrees"}]
    <3>1. snapper'[c].snapshot = s /\ Due(c)' = {"subtrees"}
      BY <1>1, <1>2, <1>5, <2>2, EntryMoves DEF Due, Indexing
    <3>2. e.snapshot = s /\ e.files = {"subtrees"} /\ e \in Held(sessions')
      BY <2>1
    <3> QED BY <3>1, <3>2 DEF FilesKept
  <2>5. \A d \in Snapper : Written(d)' => FilesKept(d)'
    BY <1>1, <1>3, <1>5, <2>1, <2>2, <2>4, OthersFiles
  <2>6. PrunerOK'
    BY <1>1, <1>3, <1>5, <2>1, <2>2, OwnSettled
  <2> QED BY <2>1, <2>3, <2>5, <2>6 DEF SnapIInv, FilesOK
<1>6. CASE sessions' = Others(s) /\ To(c, "inline") /\ UNCHANGED unremoved
  <2>1. /\ sessions' \in Seq(Directories) /\ Distinct(sessions')
        /\ Held(sessions') = {d \in Held(sessions) : d.snapshot # s}
    <3>1. /\ Others(s) \in Seq(Directories) /\ Distinct(Others(s))
          /\ Held(Others(s)) = {d \in Held(sessions) : d.snapshot # s}
      BY <1>3, <1>4, OwnSnapshot, OthersHeld
    <3> HIDE DEF s
    <3>2. Distinct(sessions') <=> Distinct(Others(s))
      BY <1>6 DEF Distinct
    <3> QED BY <1>6, <3>1, <3>2 DEF Held
  <2>2. "inline" \in SnapSteps
    BY DEF SnapSteps
  <2>3. SnapTypeOK' /\ NumbersOK' /\ EntryOK'
    BY <1>1, <1>3, <1>4, <1>6, <2>1, <2>2, StepKeeps
  <2>4. ~Written(c)'
    BY <1>2, <1>1, <1>6, <2>2, EntryMoves DEF Written
  <2>5. \A d \in Snapper : Written(d)' => FilesKept(d)'
    BY <1>1, <1>3, <1>6, <2>1, <2>2, <2>4, OthersFiles
  <2>6. PrunerOK'
    BY <1>1, <1>3, <1>6, <2>1, <2>2, OwnSettled
  <2> QED BY <2>1, <2>3, <2>5, <2>6 DEF SnapIInv, FilesOK
<1>7. CASE UNCHANGED sessions /\ To(c, "inline") /\ unremoved' = unremoved \cup {s}
  <2>1. sessions' \in Seq(Directories) /\ Distinct(sessions') /\ Held(sessions') = Held(sessions)
    BY <1>4, <1>7 DEF Distinct, Held
  <2>2. "inline" \in SnapSteps
    BY DEF SnapSteps
  <2>3. SnapTypeOK' /\ NumbersOK' /\ EntryOK'
    BY <1>1, <1>3, <1>4, <1>7, <2>1, <2>2, StepKeeps
  <2>4. ~Written(c)'
    BY <1>2, <1>1, <1>7, <2>2, EntryMoves DEF Written
  <2>5. \A d \in Snapper : Written(d)' => FilesKept(d)'
    BY <1>1, <1>3, <1>7, <2>1, <2>2, <2>4, OthersFiles
  <2>6. PrunerOK'
    BY <1>1, <1>3, <1>7, <2>1, <2>2, OwnSettled
  <2> QED BY <2>1, <2>3, <2>5, <2>6 DEF SnapIInv, FilesOK
<1> QED BY <1>5, <1>6, <1>7 DEF WriteSubtrees

(* What the files beside the subtrees are due for is what did not fail.    *)
LEMMA WriteIndexKeeps ==
  ASSUME SnapIInv, NEW c \in Snapper, WriteIndex(c)
  PROVE  SnapIInv'
<1> DEFINE s == snapper[c].snapshot
<1>1. /\ snapper[c].at = "indexing" /\ To(c, "patch")
      /\ UNCHANGED <<taken, background, generations, cache, pushing, pruner, evicted, unremoved>>
  BY DEF WriteIndex
<1>2. PICK written \in SUBSET Index :
        /\ \/ Touch(s, {"subtrees"} \cup written)
           \/ written = {} /\ UNCHANGED sessions
        /\ unwritten' = unwritten \cup [snapshot: {s}, file: Index \ written]
  BY DEF WriteIndex
<1>3. SnapTypeOK /\ FilesOK /\ PrunerOK /\ s \in Nat
  BY OwnSnapshot, <1>1 DEF SnapIInv, Uninserted
<1>4. ~Uninserted(c) /\ ~Patched(c) /\ Indexing(c) /\ Written(c) /\ "patch" \in SnapSteps
  BY <1>1 DEF Uninserted, Patched, Indexing, Written, SnapSteps
<1>5. /\ sessions \in Seq(Directories) /\ Distinct(sessions)
      /\ pruner \subseteq [caller: Snapper, doomed: SUBSET Nat]
  BY <1>3 DEF SnapTypeOK, FilesOK
<1>6. snapper'[c].snapshot = s /\ ~Indexing(c)' /\ snapper'[c].at = "patch"
  BY <1>1, <1>3, <1>4, EntryMoves DEF Indexing
<1>7. Due(c)' \subseteq {"subtrees"} \cup written
  <2>1. Due(c)' = {"subtrees"} \cup {f \in Index : [snapshot |-> s, file |-> f] \notin unwritten'}
    BY <1>6 DEF Due, FilesDue
  <2>2. \A f \in Index \ written : [snapshot |-> s, file |-> f] \in unwritten'
    BY <1>2
  <2> QED BY <2>1, <2>2
<1>8. CASE Touch(s, {"subtrees"} \cup written)
  <2> DEFINE e == [snapshot |-> s, files |-> {"subtrees"} \cup written]
  <2>1. /\ sessions' \in Seq(Directories) /\ Distinct(sessions')
        /\ Held(sessions') = {d \in Held(sessions) : d.snapshot # s} \cup {e}
    BY <1>3, <1>5, <1>8, TouchHeld
  <2>2. SnapTypeOK' /\ NumbersOK' /\ EntryOK'
    BY <1>1, <1>4, <1>5, <2>1, StepKeeps
  <2>3. e.snapshot = s /\ e.files = {"subtrees"} \cup written /\ e \in Held(sessions')
    BY <2>1
  <2>4. FilesKept(c)'
    BY <1>6, <1>7, <2>3 DEF FilesKept
  <2>5. \A d \in Snapper : Written(d)' => FilesKept(d)'
    BY <1>1, <1>2, <1>4, <2>1, <2>4, OthersFiles
  <2>6. PrunerOK'
    BY <1>1, <1>4, <2>1, OwnSettled
  <2> QED BY <2>1, <2>2, <2>5, <2>6 DEF SnapIInv, FilesOK
<1>9. CASE written = {} /\ UNCHANGED sessions
  <2>1. sessions' \in Seq(Directories) /\ Distinct(sessions') /\ Held(sessions') = Held(sessions)
    BY <1>5, <1>9 DEF Distinct, Held
  <2>2. SnapTypeOK' /\ NumbersOK' /\ EntryOK'
    BY <1>1, <1>4, <1>5, <2>1, StepKeeps
  <2>3. FilesKept(c) /\ Due(c) = {"subtrees"} /\ Due(c)' \subseteq {"subtrees"}
    BY <1>3, <1>4, <1>7, <1>9 DEF FilesOK, Due
  <2>4. FilesKept(c)'
    BY <1>1, <1>6, <2>1, <2>3 DEF FilesKept
  <2>5. \A d \in Snapper : Written(d)' => FilesKept(d)'
    BY <1>1, <1>2, <1>4, <2>1, <2>4, OthersFiles
  <2>6. PrunerOK'
    BY <1>1, <1>4, <2>1, OwnSettled
  <2> QED BY <2>1, <2>2, <2>5, <2>6 DEF SnapIInv, FilesOK
<1> QED BY <1>2, <1>8, <1>9


(* The patch is for the entry that the call inserted.                      *)
LEMMA PatchEntryKeeps ==
  ASSUME SnapIInv, NEW c \in Snapper, PatchEntry(c)
  PROVE  SnapIInv'
<1>1. /\ snapper[c].at = "patch" /\ To(c, "prune")
      /\ UNCHANGED <<taken, background, generations, pushing, sessions, evicted, pruner,
                   unwritten, unremoved>>
  BY DEF failures, PatchEntry
<1>2. SnapTypeOK /\ NumbersOK /\ EntryOK /\ FilesOK /\ PrunerOK
  BY DEF SnapIInv
<1>3. "prune" \in SnapSteps
  BY DEF SnapSteps
<1>4. /\ snapper' \in [Snapper -> [at: SnapSteps, snapshot: 0..taken', generation: 0..generations']]
      /\ snapper'[c].at = "prune"
      /\ \A d \in Snapper : /\ snapper'[d].snapshot = snapper[d].snapshot
                            /\ snapper'[d].generation = snapper[d].generation
                            /\ d # c => snapper'[d] = snapper[d]
  BY <1>1, <1>2, <1>3, EntryMoves
<1> DEFINE s == snapper[c].snapshot
<1>5. s \in Nat /\ cache \in Entries /\ ~Uninserted(c)
  BY <1>1, <1>2 DEF SnapTypeOK, Uninserted
<1>6. /\ cache' \in Entries /\ cache'.generation = cache.generation /\ cache'.refs = cache.refs
      /\ \/ cache'.text = cache.text /\ cache'.session = cache.session
         \/ cache'.text = cache.refs /\ cache'.session = cache.refs /\ cache.refs = s
  <2>1. CASE StillOwn(c)
    <3>1. cache' = [cache EXCEPT !.text = s, !.session = s]
      BY <2>1 DEF PatchEntry
    <3>2. cache.refs = s
      BY <1>2, <1>5, <2>1 DEF EntryOK, StillOwn
    <3> HIDE DEF s
    <3>3. cache' \in Entries
      BY <1>5, <3>1 DEF Entries
    <3>4. /\ cache'.generation = cache.generation /\ cache'.refs = cache.refs
          /\ cache'.text = s /\ cache'.session = s
      BY <1>5, <3>1 DEF Entries
    <3> QED BY <3>2, <3>3, <3>4
  <2>2. CASE ~StillOwn(c)
    BY <1>5, <2>2 DEF PatchEntry
  <2> QED BY <2>1, <2>2
<1>7. cache'.explicit = cache.explicit
  <2>1. CASE StillOwn(c)
    <3>1. cache' = [cache EXCEPT !.text = s, !.session = s]
      BY <2>1 DEF PatchEntry
    <3> HIDE DEF s
    <3> QED BY <1>5, <3>1 DEF Entries
  <2>2. CASE ~StillOwn(c)
    BY <2>2 DEF PatchEntry
  <2> QED BY <2>1, <2>2
<1>8. SnapTypeOK'
  BY <1>1, <1>2, <1>4, <1>6 DEF SnapTypeOK
<1>9. NumbersOK'
  <2>1. ~Undrawn(c)
    BY <1>1 DEF Undrawn
  <2> QED BY <1>1, <1>2, <1>3, <2>1, MovedNumbers
<1>10. EntryOK'
  <2>1. \A d \in Snapper : Patched(d) => Patched(d)'
    BY <1>4 DEF Patched
  <2>2. \A d \in Snapper : Uninserted(d)' <=> Uninserted(d)
    BY <1>1, <1>4 DEF Uninserted
  <2>3. \A d \in Snapper : (snapper'[d].at = "pushing") => snapper[d].at = "pushing"
    BY <1>4
  <2>4. Patched(c)' /\ snapper'[c].snapshot = s
    BY <1>4 DEF Patched
  <2>5. cache'.text \in {0, cache'.refs} /\ cache'.session \in {0, cache'.refs}
    BY <1>2, <1>6 DEF EntryOK
  <2>6. (cache'.session # 0) =>
          \E d \in Snapper : Patched(d)' /\ snapper'[d].snapshot = cache'.session
    <3>1. CASE cache'.session = cache.session
      BY <3>1, <1>2, <1>4, <2>1 DEF EntryOK
    <3>2. CASE cache'.session = s
      BY <3>2, <2>4
    <3> QED BY <1>6, <3>1, <3>2
  <2>7. cache'.explicit => cache'.refs \notin background'
    BY <1>1, <1>2, <1>6, <1>7 DEF EntryOK
  <2>8. \A d \in Snapper :
          /\ ~Uninserted(d) => cache.explicit
          /\ (snapper[d].at = "pushing") => cache.generation # snapper[d].generation
          /\ (~Uninserted(d) /\ cache.generation = snapper[d].generation) =>
               cache.refs = snapper[d].snapshot
    BY <1>2 DEF EntryOK
  <2>9. \A d \in Snapper :
          /\ ~Uninserted(d)' => cache'.explicit
          /\ (snapper'[d].at = "pushing") => cache'.generation # snapper'[d].generation
          /\ (~Uninserted(d)' /\ cache'.generation = snapper'[d].generation) =>
               cache'.refs = snapper'[d].snapshot
    BY <1>4, <1>6, <1>7, <2>2, <2>3, <2>8
  <2> QED BY <2>5, <2>6, <2>7, <2>9 DEF EntryOK
<1>11. FilesOK'
  <2>1. Written(c)
    BY <1>1 DEF Written
  <2>2. \A d \in Snapper : Written(d)' => /\ Written(d) /\ snapper'[d].snapshot = snapper[d].snapshot
                                       /\ (Indexing(d)' <=> Indexing(d))
    BY <1>1, <1>4, <2>1 DEF Written, Indexing
  <2> QED BY <1>1, <1>2, <2>2, FilesFrame
<1>12. PrunerOK'
  <2>1. \A d \in Snapper : WillPrune(d) => WillPrune(d)'
    BY <1>4 DEF WillPrune
  <2>2. Pending \subseteq Pending'
    BY <1>4, <2>1 DEF Pending
  <2>3. \A d \in Snapper : (snapper[d].at = "pruning") => snapper'[d].at = "pruning"
    BY <1>1, <1>4
  <2> QED BY <1>1, <1>2, <2>2, <2>3, PrunerFrame
<1> QED BY <1>8, <1>9, <1>10, <1>11, <1>12 DEF SnapIInv

(* The newest directories are as many as may stay.                         *)
LEMMA NewestAreFew ==
  ASSUME NEW q \in Seq(Directories), NEW K, K \subseteq {d.snapshot : d \in Held(q)},
         \A i \in 1 .. (Len(q) - MaxSessions) : q[i].snapshot \notin K
  PROVE  IsFiniteSet(K) /\ Cardinality(K) <= MaxSessions
<1> DEFINE n == Len(q)  low == IF n - MaxSessions > 0 THEN n - MaxSessions + 1 ELSE 1
           I == low..n  T == {q[i].snapshot : i \in I}
           f == [i \in I |-> q[i].snapshot]
<1>1. n \in Nat /\ MaxSessions \in Nat /\ DOMAIN q = 1..n /\ low \in Int
      /\ low = (IF n - MaxSessions > 0 THEN n - MaxSessions + 1 ELSE 1)
  BY SnapshotConstants
<1> HIDE DEF low
<1>2. IsFiniteSet(I) /\ Cardinality(I) = (IF low > n THEN 0 ELSE n - low + 1)
  <2> HIDE DEF n
  <2> QED BY <1>1, FS_Interval
<1>3. Cardinality(I) <= MaxSessions
  <2> HIDE DEF n, I
  <2> QED BY <1>1, <1>2
<1>4. f \in Surjection(I, T)
  BY DEF Surjection
<1>5. IsFiniteSet(T) /\ Cardinality(T) <= Cardinality(I)
  BY <1>2, <1>4, FS_Surjection
<1>6. K \subseteq T
  <2> SUFFICES ASSUME NEW k \in K PROVE k \in T
    OBVIOUS
  <2>1. PICK i \in 1..n : q[i].snapshot = k
    BY <1>1 DEF Held
  <2>2. ~(i \in 1 .. (n - MaxSessions))
    BY <2>1
  <2>3. i \in I
    BY <1>1, <2>1, <2>2
  <2> QED BY <2>1, <2>3
<1>7. IsFiniteSet(K) /\ Cardinality(K) <= Cardinality(T)
  BY <1>5, <1>6, FS_Subset
<1>8. Cardinality(K) \in Nat /\ Cardinality(T) \in Nat /\ Cardinality(I) \in Nat
  BY <1>2, <1>5, <1>7, FS_CardinalityType
<1> HIDE DEF I, T
<1> QED BY <1>1, <1>3, <1>5, <1>7, <1>8

LEMMA ListSessionsKeeps ==
  ASSUME SnapIInv, NEW c \in Snapper, ListSessions(c)
  PROVE  SnapIInv'
<1> DEFINE p == [caller |-> c, doomed |-> Excess]
<1>1. /\ snapper[c].at = "prune" /\ pruner = {}
      /\ UNCHANGED <<taken, background, generations, cache, pushing, sessions, evicted, unwritten>>
  BY DEF ListSessions
<1>2. SnapTypeOK /\ FilesOK /\ PrunerOK /\ sessions \in Seq(Directories)
  BY DEF SnapIInv, SnapTypeOK
<1>3. PICK at \in {"pruning", "files"} :
        /\ To(c, at)
        /\ \/ at = "pruning" /\ pruner' = {p} /\ UNCHANGED unremoved
           \/ at = "files" /\ UNCHANGED pruner /\ unremoved' = unremoved \cup Excess
  BY DEF ListSessions
<1>4. ~Uninserted(c) /\ at \in SnapSteps
  BY <1>1 DEF Uninserted, SnapSteps
<1>5. /\ snapper'[c].at = at
      /\ \A d \in Snapper : /\ snapper'[d].snapshot = snapper[d].snapshot
                            /\ d # c => snapper'[d] = snapper[d]
  BY <1>1, <1>2, <1>3, <1>4, EntryMoves
<1>6. Excess \subseteq Nat
  <2> SUFFICES ASSUME NEW i \in 1 .. (Len(sessions) - MaxSessions)
               PROVE  sessions[i].snapshot \in Nat
    BY DEF Excess
  <2>1. i \in 1..Len(sessions)
    BY <1>2, SnapshotConstants
  <2>2. sessions[i] \in Directories
    BY <1>2, <2>1
  <2> QED BY <2>2 DEF Directories
<1>7. pruner' \subseteq [caller: Snapper, doomed: SUBSET Nat]
  BY <1>1, <1>3, <1>6
<1>8. SnapTypeOK' /\ NumbersOK' /\ EntryOK'
  BY <1>1, <1>2, <1>3, <1>4, <1>7, StepKeeps
<1>9. FilesOK'
  <2>1. Written(c) /\ ~Indexing(c)
    BY <1>1 DEF Written, Indexing
  <2>2. \A d \in Snapper : Written(d)' => /\ Written(d) /\ snapper'[d].snapshot = snapper[d].snapshot
                                       /\ (Indexing(d)' <=> Indexing(d))
    BY <1>3, <1>5, <2>1 DEF Written, Indexing
  <2> QED BY <1>1, <1>2, <2>2, FilesFrame
<1>10. Settled' \subseteq {d.snapshot : d \in Held(sessions)}
       /\ \A i \in 1 .. (Len(sessions) - MaxSessions) : sessions[i].snapshot \notin Settled'
  <2>1. Held(sessions') = Held(sessions)
    BY <1>1 DEF Held
  <2>2. Excess \subseteq Doomed' \cup unremoved'
    <3>1. p.doomed = Excess
      OBVIOUS
    <3> HIDE DEF p
    <3>2. CASE at = "pruning"
      BY <1>3, <3>1, <3>2 DEF Doomed
    <3>3. CASE at = "files"
      BY <1>3, <3>3
    <3> QED BY <3>2, <3>3
  <2>3. \A i \in 1 .. (Len(sessions) - MaxSessions) : sessions[i].snapshot \in Excess
    BY DEF Excess
  <2> QED BY <2>1, <2>2, <2>3 DEF Settled
<1>11. IsFiniteSet(Settled') /\ Cardinality(Settled') <= MaxSessions
  <2> HIDE DEF Settled
  <2> QED BY <1>2, <1>10, NewestAreFew
<1>12. PrunerOK'
  BY <1>1, <1>3, <1>5, <1>11 DEF PrunerOK
<1> QED BY <1>8, <1>9, <1>12 DEF SnapIInv

LEMMA RemoveSessionKeeps ==
  ASSUME SnapIInv, NEW c \in Snapper, RemoveSession(c)
  PROVE  SnapIInv'
<1>1. SnapTypeOK /\ NumbersOK /\ EntryOK /\ FilesOK /\ PrunerOK
  BY DEF SnapIInv
<1>2. PICK p \in pruner :
        /\ p.caller = c
        /\ \/ \E s \in p.doomed :
                /\ pruner' = {[p EXCEPT !.doomed = @ \ {s}]}
                /\ evicted' = evicted \cup {s} /\ UNCHANGED snapper
                /\ \/ sessions' = Others(s) /\ UNCHANGED unremoved
                   \/ BeingWritten(s) /\ UNCHANGED <<sessions, unremoved>>
                   \/ UNCHANGED sessions /\ unremoved' = unremoved \cup {s}
           \/ /\ p.doomed = {} /\ pruner' = {} /\ To(c, "files")
              /\ UNCHANGED <<sessions, evicted, unremoved>>
        /\ UNCHANGED <<taken, background, generations, cache, pushing, unwritten>>
  BY DEF RemoveSession
<1>3. pruner = {p} /\ snapper[c].at = "pruning" /\ p.doomed \subseteq Nat
      /\ p \in [caller: Snapper, doomed: SUBSET Nat]
  BY <1>1, <1>2 DEF PrunerOK, SnapTypeOK
<1>4. Doomed = p.doomed
  BY <1>3 DEF Doomed
<1>5. sessions \in Seq(Directories) /\ Distinct(sessions)
  BY <1>1 DEF SnapTypeOK, FilesOK
<1>6. ASSUME NEW s \in p.doomed, pruner' = {[p EXCEPT !.doomed = @ \ {s}]},
             evicted' = evicted \cup {s}, UNCHANGED snapper,
             \/ sessions' = Others(s) /\ UNCHANGED unremoved
             \/ BeingWritten(s) /\ UNCHANGED <<sessions, unremoved>>
             \/ UNCHANGED sessions /\ unremoved' = unremoved \cup {s}
      PROVE  SnapIInv'
  <2> DEFINE r == [p EXCEPT !.doomed = @ \ {s}]
  <2>1. r \in [caller: Snapper, doomed: SUBSET Nat] /\ r.caller = c /\ r.doomed = p.doomed \ {s}
    BY <1>2, <1>3
  <2>2. pruner' = {r} /\ s \in Nat
    BY <1>3, <1>6
  <2> HIDE DEF r
  <2>3. Doomed' = p.doomed \ {s}
    BY <2>1, <2>2 DEF Doomed
  <2>4. /\ sessions' \in Seq(Directories) /\ Distinct(sessions')
        /\ \A e : e \in Held(sessions') => e \in Held(sessions)
        /\ \A e : (e \in Held(sessions) /\ e.snapshot # s) => e \in Held(sessions')
        /\ (\A e \in Held(sessions') : e.snapshot # s) \/ BeingWritten(s) \/ s \in unremoved'
        /\ unremoved \subseteq unremoved'
    <3>1. CASE sessions' = Others(s) /\ UNCHANGED unremoved
      <4>1. /\ Others(s) \in Seq(Directories) /\ Distinct(Others(s))
            /\ Held(Others(s)) = {d \in Held(sessions) : d.snapshot # s}
        BY <1>5, <2>2, OthersHeld
      <4>2. Distinct(sessions') <=> Distinct(Others(s))
        BY <3>1 DEF Distinct
      <4>3. Held(sessions') = Held(Others(s))
        BY <3>1 DEF Held
      <4> QED BY <3>1, <4>1, <4>2, <4>3
    <3>2. CASE /\ UNCHANGED sessions
               /\ (BeingWritten(s) /\ UNCHANGED unremoved) \/ unremoved' = unremoved \cup {s}
      <4>1. Distinct(sessions') /\ Held(sessions') = Held(sessions)
        BY <1>5, <3>2 DEF Distinct, Held
      <4> QED BY <1>5, <3>2, <4>1
    <3> QED BY <1>6, <3>1, <3>2
  <2>5. SnapTypeOK'
    BY <1>1, <1>2, <1>6, <2>1, <2>2, <2>4 DEF SnapTypeOK
  <2>6. NumbersOK' /\ EntryOK'
    BY <1>1, <1>2, <1>6 DEF NumbersOK, EntryOK, Undrawn, Uninserted, Patched
  <2>7. \A d \in Snapper : Written(d)' => FilesKept(d)'
    <3> SUFFICES ASSUME NEW d \in Snapper, Written(d) PROVE FilesKept(d)'
      BY <1>6 DEF Written
    <3>1. FilesKept(d) /\ Due(d)' = Due(d)
      BY <1>1, <1>2, <1>6 DEF FilesOK, Due, Indexing, FilesDue
    <3>2. CASE snapper[d].snapshot \in evicted'
      BY <1>6, <3>2 DEF FilesKept
    <3>3. CASE snapper[d].snapshot \notin evicted'
      <4>1. PICK e \in Held(sessions) : e.snapshot = snapper[d].snapshot /\ Due(d) \subseteq e.files
        BY <1>6, <3>1, <3>3 DEF FilesKept
      <4>2. e \in Held(sessions')
        BY <1>6, <2>4, <3>3, <4>1
      <4> QED BY <1>6, <3>1, <4>1, <4>2 DEF FilesKept
    <3> QED BY <3>2, <3>3
  <2>8. Pending' = Pending
    BY <1>6 DEF Pending, WillPrune
  <2>9. BeingWritten(s) => s \in Pending
    BY <2>2 DEF BeingWritten, Pending, WillPrune
  <2>10. Settled' \subseteq Settled
    BY <1>4, <2>3, <2>4, <2>8, <2>9 DEF Settled
  <2>11. IsFiniteSet(Settled') /\ Cardinality(Settled') <= MaxSessions
    BY <1>1, <2>10, SettledFrame
  <2>12. PrunerOK'
    BY <1>3, <1>6, <2>1, <2>2, <2>11 DEF PrunerOK
  <2> QED BY <2>4, <2>5, <2>6, <2>7, <2>12 DEF SnapIInv, FilesOK
<1>7. CASE /\ p.doomed = {} /\ pruner' = {} /\ To(c, "files")
           /\ UNCHANGED <<sessions, evicted, unremoved>>
  <2>1. "files" \in SnapSteps /\ ~Uninserted(c) /\ Written(c) /\ ~WillPrune(c)
    BY <1>3 DEF SnapSteps, Uninserted, Written, WillPrune
  <2>11. snapper'[c].at = "files"
    BY <1>1, <1>2, <1>7, <2>1, EntryMoves
  <2>2. SnapTypeOK' /\ NumbersOK' /\ EntryOK'
    BY <1>2, <1>5, <1>7, <2>1, StepKeeps
  <2>3. \A d \in Snapper : /\ snapper'[d].snapshot = snapper[d].snapshot
                           /\ d # c => snapper'[d] = snapper[d]
    BY <1>1, <1>2, <1>7, <2>1, EntryMoves
  <2>4. \A d \in Snapper : Written(d)' => /\ Written(d) /\ snapper'[d].snapshot = snapper[d].snapshot
                                       /\ (Indexing(d)' <=> Indexing(d))
    BY <1>3, <2>1, <2>3, <2>11 DEF Written, Indexing
  <2>5. FilesOK'
    BY <1>1, <1>2, <1>7, <2>4, FilesFrame
  <2>6. \A d \in Snapper : WillPrune(d) => WillPrune(d)'
    BY <2>1, <2>3 DEF WillPrune
  <2>7. Pending \subseteq Pending'
    BY <2>3, <2>6 DEF Pending
  <2>8. Doomed' = {} /\ Doomed = {} /\ Held(sessions') = Held(sessions)
    BY <1>4, <1>7 DEF Doomed, Held
  <2>9. Settled' \subseteq Settled
    BY <1>7, <2>7, <2>8 DEF Settled
  <2>10. PrunerOK'
    BY <1>1, <1>7, <2>9, SettledFrame DEF PrunerOK
  <2> QED BY <2>2, <2>5, <2>10 DEF SnapIInv
<1> QED BY <1>2, <1>6, <1>7

LEMMA SnapshotStep ==
  ASSUME SnapIInv, [SnapshotNext]_snapshotVars
  PROVE  SnapIInv'
<1>1. CASE UNCHANGED snapshotVars
  <2>1. SnapTypeOK' /\ NumbersOK' /\ EntryOK'
    BY <1>1 DEF SnapIInv, snapshotVars, SnapTypeOK, NumbersOK, EntryOK, Undrawn, Uninserted, Patched
  <2>2. FilesOK'
    BY <1>1, FilesFrame DEF SnapIInv, snapshotVars, failures, Written, Indexing
  <2>3. PrunerOK'
    BY <1>1, PrunerFrame DEF SnapIInv, snapshotVars, failures, Pending, WillPrune
  <2> QED BY <2>1, <2>2, <2>3 DEF SnapIInv
<1>2. CASE SnapshotNext
  BY <1>2, PushBackgroundKeeps, InsertBackgroundKeeps, TakeSnapshotKeeps, DrawGenerationKeeps,
     InsertSnapshotKeeps, CreateSessionKeeps, WriteSubtreesKeeps, WriteIndexKeeps,
     PatchEntryKeeps, ListSessionsKeeps, RemoveSessionKeeps DEF SnapshotNext
<1> QED BY <1>1, <1>2

(* Numbers, the entry, the files and the prune are as they should be,      *)
(* however many callers and pushes there are.                              *)
THEOREM SnapshotInvariance == SnapshotSpec => []SnapIInv
<1>1. SnapIInv /\ [SnapshotNext]_snapshotVars => SnapIInv'
  BY SnapshotStep
<1> QED BY <1>1, InitSnapshot, PTL DEF SnapshotSpec

LEMMA HeldFiles ==
  ASSUME NEW c \in Snapper, FilesKept(c), ~Indexing(c)
  PROVE  FilesOfSnapshot(snapper[c].snapshot)
BY DEF FilesKept, FilesOfSnapshot, Held, Due

(* Once nobody prunes any more, the directories are what is settled, and   *)
(* those that could not be removed.                                        *)
LEMMA FewRemain ==
  ASSUME SnapIInv, \A c \in Snapper : snapper[c].at \in {"inline", "files"}
  PROVE  Cardinality({i \in DOMAIN sessions : sessions[i].snapshot \notin unremoved}) <= MaxSessions
<1>1. /\ Distinct(sessions) /\ MaxSessions \in Nat
      /\ pruner \subseteq [caller: Snapper, doomed: SUBSET Nat]
  BY SnapshotConstants DEF SnapIInv, SnapTypeOK, FilesOK
<1>2. pruner = {}
  BY <1>1 DEF SnapIInv, PrunerOK
<1>3. Settled = {d.snapshot : d \in Held(sessions)} \ unremoved
  BY <1>2 DEF Settled, Pending, Doomed, WillPrune
<1>4. IsFiniteSet(Settled) /\ Cardinality(Settled) <= MaxSessions /\ Cardinality(Settled) \in Nat
  BY FS_CardinalityType DEF SnapIInv, PrunerOK
<1> DEFINE I == {i \in DOMAIN sessions : sessions[i].snapshot \notin unremoved}
           f == [i \in I |-> sessions[i].snapshot]
<1>5. f \in Injection(I, Settled)
  <2>1. \A i \in I : sessions[i].snapshot \in Settled
    BY <1>3 DEF Held
  <2>2. \A i, j \in I : sessions[i].snapshot = sessions[j].snapshot => i = j
    BY <1>1 DEF Distinct
  <2> HIDE DEF I, Settled
  <2>3. f \in [I -> Settled]
    BY <2>1
  <2>4. \A i, j \in I : f[i] = f[j] => i = j
    BY <2>2
  <2> HIDE DEF f
  <2> QED BY <2>3, <2>4 DEF Injection, IsInjective
<1> HIDE DEF I, f
<1>6. IsFiniteSet(I) /\ Cardinality(I) <= Cardinality(Settled)
  BY <1>4, <1>5, FS_Injection
<1>7. Cardinality(I) \in Nat
  BY <1>6, FS_CardinalityType
<1>8. Cardinality(I) <= MaxSessions
  BY <1>1, <1>4, <1>6, <1>7
<1> QED BY <1>8 DEF I

(* Refs, text and files of an entry are of one snapshot; a session that is *)
(* named has its subtrees and whatever else could be written, or is        *)
(* evicted; and no more directories than allowed are left behind, besides  *)
(* those that could not be removed (state.rs, push_dom; handlers.rs,       *)
(* dom_snapshot).                                                          *)
THEOREM SnapshotsDoNotMix == SnapshotSpec => []NothingIsMixed
<1>1. SnapIInv => NothingIsMixed
  <2> SUFFICES ASSUME SnapIInv PROVE NothingIsMixed
    OBVIOUS
  <2>1. EntryOK /\ FilesOK
    BY DEF SnapIInv
  <2>2. OneSnapshot
    BY <2>1 DEF OneSnapshot, EntryOK, Uninserted
  <2>3. \A c \in Snapper : Patched(c) => FilesOfSnapshot(snapper[c].snapshot)
    BY <2>1, HeldFiles DEF FilesOK, Patched, Written, Indexing
  <2>4. (cache.session # 0) => FilesOfSnapshot(cache.session)
    <3> SUFFICES ASSUME cache.session # 0 PROVE FilesOfSnapshot(cache.session)
      OBVIOUS
    <3>1. PICK c \in Snapper : Patched(c) /\ snapper[c].snapshot = cache.session
      BY <2>1 DEF EntryOK
    <3>3. FilesOfSnapshot(snapper[c].snapshot)
      BY <2>3, <3>1
    <3> QED BY <3>1, <3>3
  <2>5. \A c \in Snapper : (snapper[c].at = "files") => FilesOfSnapshot(snapper[c].snapshot)
    BY <2>3 DEF Patched
  <2> QED BY <2>2, <2>4, <2>5, FewRemain DEF NothingIsMixed
<1> QED BY <1>1, SnapshotInvariance, PTL
=============================================================================
