------------------------------- MODULE Calls -------------------------------
(***************************************************************************)
(* How long a call takes and how long its caller waits.  A tool is a plan  *)
(* of page scripts, each with a deadline of the plugin (server.rs,         *)
(* handlers.rs), after at most LeaseQueueWait in the queue for its lease;  *)
(* the standalone MCP server (mcp-server/src/tools.rs) and the command     *)
(* line (cli/src/commands.rs) each have their own idea of when to give up, *)
(* and the command line sends some calls again.                            *)
(*                                                                         *)
(* Times are in milliseconds.  A page that answers does so promptly, or at *)
(* the end of what its script waits for; a page that does not lets the     *)
(* deadline of the script pass.  What scripts return is left out.          *)
(***************************************************************************)
EXTENDS Naturals, Sequences

CONSTANTS Times,   \* that callers pass: a timeout, or the duration of a drag
          Queueing, \* how long a lease that is granted may have taken
          Prompt,  \* a page that answers does so within
          Lag      \* between a deadline in the plugin and its effect

AtMost(a, b) == IF a < b THEN a ELSE b
Within(low, a, high) == IF a < low THEN low ELSE AtMost(a, high)
Joined(f, g) == [x \in DOMAIN f \cup DOMAIN g |-> IF x \in DOMAIN f THEN f[x] ELSE g[x]]

LeaseQueueWait == 15000   \* LEASE_QUEUE_WAIT_MS
DefaultTimeout == 35000   \* DEFAULT_TIMEOUT_MS
DefaultEval == 30000      \* DEFAULT_EVAL_TIMEOUT_MS
MaxEval == 600000         \* MAX_EVAL_TIMEOUT_MS
Margin == 5000            \* EVAL_CLIENT_MARGIN_MS

(* A prompt page answers within the shortest deadline there is.  As for    *)
(* the lag, the shortest of patience is that with a screenshot of three    *)
(* scripts that are silent: it leaves two seconds for all three.           *)
ASSUME CallConstants ==
  /\ Times \subseteq Nat /\ Queueing \subseteq 0 .. (LeaseQueueWait - 1)
  /\ Prompt \in 0..1500 /\ Lag \in Nat /\ 3 * Lag < 2000

-----------------------------------------------------------------------------
(* Plans.  A script has a deadline, what its own wait takes, and where the *)
(* handler goes on if it returns a value and if not; one past the last     *)
(* script is the reply.                                                    *)

Stage(limit, own, ok, bad) == [limit |-> limit, own |-> own, ok |-> ok, bad |-> bad]
Alone(limit, own) == <<Stage(limit, own, {2}, {2})>>

(* A plan and then another, whatever came of the first.                    *)
InTurn(p, q) ==
  LET Later(places) == {i + Len(p) : i \in places}
  IN  p \o [i \in DOMAIN q |-> [q[i] EXCEPT !.ok = Later(@), !.bad = Later(@)]]

DomSnapshot == Alone(15500, 0)          \* 500 of it: is the window hidden?
FlushLogs == Alone(1500, 0)

(* bridge_deadline_ms: a little more than the page has.                    *)
Eval(t) ==
  LET page == Within(1, t, MaxEval)
  IN  Alone(page + Within(250, page \div 4, 1000), page)

(* The whole window: geometry for the native capture; where that fails,    *)
(* the page renders itself; a capture of one colour is looked into, unless *)
(* the page is hidden, and taken again; annotations, if asked for; is the  *)
(* page hidden?                                                            *)
GeometryScript == Stage(1500, 0, {2, 3, 5, 6}, {2, 3, 5, 6})
RenderScript == Stage(30000, 0, {3, 5, 6}, {6})
BlankScript == Stage(1500, 0, {4, 5, 6}, {4})
RetakeScript == Stage(10000, 0, {5, 6}, {5, 6})
AnnotateScript == Stage(10000, 0, {6}, {7})
HiddenScript == Stage(1500, 0, {7}, {7})

Shot == <<GeometryScript, RenderScript, BlankScript, RetakeScript, AnnotateScript, HiddenScript>>

Element == <<Stage(30000, 0, {2, 3}, {4}),
             Stage(10000, 0, {3}, {4}),
             Stage(1500, 0, {4}, {4})>>

Everything == InTurn(InTurn(DomSnapshot, Shot), FlushLogs)

Drag(t) == Alone(t + 5000, t)
WaitFor(t) == Alone(t + 2000, t)
Listen == Alone(5000, 0)
Search == Alone(15000, 0)               \* unless the cached snapshot is recent

(* The action; the wait, if asked for, after one that succeeded; and what  *)
(* the window looks like then.                                             *)
ActAndVerify(t) ==
  InTurn(<<Stage(5300, 300, {2, 3}, {3}), Stage(t + 2000, t, {3}, {3})>>, Everything)

(* handle_command_unleased, in the order of the commands.                  *)
ReadPlans(t) ==
  [eval |-> Eval(t), click |-> Eval(DefaultEval), shot |-> Shot, element |-> Element,
   protected |-> Alone(AtMost(t, 30000), 0), snapshot |-> DomSnapshot,
   find |-> Alone(10000, 0), styles |-> Alone(5000, 0)]
InputPlans(t) ==
  [drag |-> Drag(t), interact |-> Alone(5000, 0), keyboard |-> Alone(5000, 0),
   wait |-> WaitFor(t), locator |-> Alone(15000, 0)]
OtherPlans(t) ==
  [exec |-> Alone(15000, 0), monitor |-> Alone(2000, 0), listen |-> Listen,
   logs |-> FlushLogs, debug |-> Everything, act |-> ActAndVerify(t),
   search |-> Search]
Plans(t) == Joined(ReadPlans(t), Joined(InputPlans(t), OtherPlans(t)))

(* tool_resources is empty: the call takes no lease.                       *)
Unleased == {"logs"}

(* The first script acts on the application.                               *)
Acting == {"eval", "click", "drag", "interact", "keyboard", "locator", "exec", "act"}

(* The plugin resolves references before it sends the script, or the page  *)
(* does before it acts.                                                    *)
Resolving == {"drag", "keyboard"}

-----------------------------------------------------------------------------
(* How long callers wait                                                   *)

EvalPatience(t) == Within(1, t, MaxEval) + Margin
ShotPatience(t) == LeaseQueueWait + AtMost(t, 30000) + Margin

StandaloneReads(t) ==
  [eval |-> EvalPatience(t), protected |-> ShotPatience(t), shot |-> DefaultTimeout,
   element |-> DefaultTimeout, snapshot |-> DefaultTimeout, find |-> DefaultTimeout,
   styles |-> DefaultTimeout]
(* Mutant: as for an eval.                                                 *)
StandaloneWaitsLess(t) ==
  [wait |-> t + 1000, locator |-> 30000, drag |-> DefaultTimeout,
   interact |-> DefaultTimeout, keyboard |-> DefaultTimeout]
StandaloneInputs(t) ==
  [wait |-> t + 5000, locator |-> 30000, drag |-> DefaultTimeout,
   interact |-> DefaultTimeout, keyboard |-> DefaultTimeout]
StandaloneIpc(t) ==
  [exec |-> DefaultTimeout, monitor |-> DefaultTimeout, listen |-> DefaultTimeout,
   logs |-> DefaultTimeout]
StandaloneOthers(t) == [debug |-> 60000, act |-> t + 60000, search |-> DefaultTimeout]
Standalone(t) ==
  Joined(StandaloneReads(t), Joined(StandaloneInputs(t), Joined(StandaloneIpc(t), StandaloneOthers(t))))

CliReads(t) == [eval |-> EvalPatience(t), snapshot |-> 30000]
CliClicks(t) == [click |-> EvalPatience(DefaultEval)]   \* check, select and scroll as well
CliInputs(t) == [drag |-> t + 15000, keyboard |-> 30000]
CliWaits(t) == [wait |-> t + 5000, locator |-> 30000]
CliShots(t) == [protected |-> ShotPatience(t), shot |-> 60000, element |-> 60000]
CliIpc(t) == [find |-> DefaultTimeout, exec |-> 30000, monitor |-> DefaultTimeout,
              listen |-> DefaultTimeout]
CliLogs(t) == [logs |-> DefaultTimeout]
CliOthers(t) == [debug |-> 60000, act |-> t + 60000]
CommandLine(t) ==
  Joined(Joined(CliReads(t), Joined(CliClicks(t), CliInputs(t))),
         Joined(Joined(CliWaits(t), CliShots(t)), Joined(CliIpc(t), Joined(CliLogs(t), CliOthers(t)))))

Patience(front, t) == IF front = "standalone" THEN Standalone(t) ELSE CommandLine(t)

Fronts == {"standalone", "cli"}
CallsOf(front) == {[front |-> front, tool |-> tool, t |-> t] :
                     tool \in DOMAIN Patience(front, 0), t \in Times}

-----------------------------------------------------------------------------
VARIABLES
  call,     \* who calls what
  place,    \* 0 in the queue, then a script of the plan, or the reply
  elapsed,  \* since this attempt was sent
  queued,   \* this attempt had to wait for its lease
  failure,  \* why the call will fail, or "none"
  attempt,
  sender,   \* waiting, answered, or gone after it gave up or lost the connection
  acts      \* ghost: how often the call acts, or may still

callVars == <<call, place, elapsed, queued, failure, attempt, sender, acts>>

Plan == Plans(call.t)[call.tool]
GivesUpAt == Patience(call.front, call.t)[call.tool]
Replying == place = Len(Plan) + 1

CallInit ==
  /\ call \in UNION {CallsOf(front) : front \in Fronts}
  /\ place = 0 /\ elapsed = 0 /\ queued = FALSE /\ failure = "none"
  /\ attempt = 1 /\ sender = "waiting" /\ acts = 0

(* Time passes in the plugin, and for the caller.                          *)
Pass(d) ==
  /\ elapsed' = elapsed + d
  /\ sender' = IF elapsed + d >= GivesUpAt THEN "gave up" ELSE sender

Act == acts' = IF place = 1 /\ call.tool \in Acting THEN acts + 1 ELSE acts

(* handle_command: refused before it needs a lease; or the lease is        *)
(* granted, or is not within the time for it.                              *)
RefuseCall ==
  /\ sender = "waiting" /\ place = 0
  /\ place' = Len(Plan) + 1 /\ failure' = "invalid_arguments"
  /\ Pass(Lag)
  /\ UNCHANGED <<call, queued, attempt, acts>>

Granted ==
  /\ sender = "waiting" /\ place = 0
  /\ \E d \in Queueing :
       /\ call.tool \in Unleased => d = 0
       /\ queued' = (d > 0) /\ Pass(d)
  /\ place' = 1
  /\ UNCHANGED <<call, failure, attempt, acts>>

Busy ==
  /\ sender = "waiting" /\ place = 0 /\ call.tool \notin Unleased
  /\ place' = Len(Plan) + 1 /\ failure' = "resource_busy" /\ queued' = TRUE
  /\ Pass(LeaseQueueWait)
  /\ UNCHANGED <<call, attempt, acts>>

InScript == sender = "waiting" /\ place \in DOMAIN Plan

PageReturns ==
  /\ InScript
  /\ place' \in Plan[place].ok
  /\ \E d \in {0, Plan[place].own} : Pass(d + Prompt)
  /\ Act
  /\ UNCHANGED <<call, queued, failure, attempt>>

(* The script throws, before or after it acted.                            *)
PageThrows ==
  /\ InScript
  /\ place' \in Plan[place].bad
  /\ failure' = IF call.tool = "protected" THEN "capture_context_changed" ELSE "error"
  /\ Pass(Prompt)
  /\ Act \/ UNCHANGED acts
  /\ UNCHANGED <<call, queued, attempt>>

(* No such reference: the script was not sent, or did not act.             *)
RefMissed ==
  /\ InScript /\ place = 1 /\ call.tool \in Resolving
  /\ place' = Len(Plan) + 1 /\ failure' = "stale_ref"
  /\ Pass(Prompt)
  /\ UNCHANGED <<call, queued, attempt, acts>>

(* The page is silent; its script may still run.                           *)
PageSilent ==
  /\ InScript
  /\ place' \in Plan[place].bad /\ failure' = "outcome_unknown"
  /\ Pass(Plan[place].limit + Lag)
  /\ Act \/ UNCHANGED acts
  /\ UNCHANGED <<call, queued, attempt>>

(* The connection closes.  The plugin goes on with the call.               *)
ConnectionLost ==
  /\ sender = "waiting" /\ ~Replying
  /\ place' = Len(Plan) + 1 /\ failure' = "connection_closed"
  /\ acts' \in {acts, IF place <= 1 /\ call.tool \in Acting THEN acts + 1 ELSE acts}
  /\ UNCHANGED <<call, elapsed, queued, attempt, sender>>

-----------------------------------------------------------------------------
(* The command line sends a call again                                     *)

(* Mutant of RefMiss: any failure that names no outcome.                   *)
RefMissOrLost == failure \in {"stale_ref", "connection_closed"}

(* is_pre_dispatch_ref_miss.                                               *)
RefMiss == failure = "stale_ref"

(* screenshot_retry: the page changed, or the connection was dropped.      *)
ShotRetry == failure \in {"capture_context_changed", "connection_closed"}

(* send_with_ref_fallback, once; capture_screenshot, three attempts.       *)
SentAgain ==
  /\ call.front = "cli"
  /\ \/ call.tool \in Resolving /\ RefMiss /\ attempt = 1
     \/ call.tool = "protected" /\ ShotRetry /\ attempt < 3

SendAgain ==
  /\ sender = "waiting" /\ Replying /\ SentAgain
  /\ attempt' = attempt + 1
  /\ place' = 0 /\ elapsed' = 0 /\ queued' = FALSE /\ failure' = "none"
  /\ UNCHANGED <<call, sender, acts>>

TellCaller ==
  /\ sender = "waiting" /\ Replying /\ ~SentAgain
  /\ sender' = IF failure = "connection_closed" THEN "lost" ELSE "answered"
  /\ UNCHANGED <<call, place, elapsed, queued, failure, attempt, acts>>

CallNext ==
  \/ RefuseCall \/ Granted \/ Busy \/ PageReturns \/ PageThrows \/ RefMissed \/ PageSilent
  \/ ConnectionLost \/ SendAgain \/ TellCaller

CallSpec == CallInit /\ [][CallNext]_callVars

-----------------------------------------------------------------------------
(* Properties                                                              *)

(* A drag is as long as its caller likes; the standalone server waits as   *)
(* for any other call, and the last answer comes a lag after its deadline. *)
Outlived == call.front = "standalone" /\ call.tool = "drag" /\ call.t + Margin + Lag >= DefaultTimeout

(* Whatever its page does, a call is answered before its caller gives up,  *)
(* with what the plugin knows of its outcome (crates/client/src/lib.rs:27  *)
(* and 33): the deadlines of its scripts, one after the other, are within  *)
(* the caller's.  Only the protected screenshot leaves time for the queue  *)
(* as well; the others may give up when they had to wait for their lease.  *)
AnsweredInTime ==
  sender = "gave up" => (queued /\ call.tool # "protected") \/ Outlived

(* Sent once or again, a call acts at most once: it is sent again only if  *)
(* nothing was dispatched, or if there is nothing to act                   *)
(* (crates/cli/src/commands.rs:379 and 1133).                              *)
ActsOnce == acts <= 1

=============================================================================
