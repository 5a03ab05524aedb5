------------------------------- MODULE Tools -------------------------------
(***************************************************************************)
(* A tool call from its request to its reply (src/plugin/src/handlers.rs,  *)
(* server.rs, mcp_tools.rs): the checks before and after the lease, the    *)
(* script that the handler sends to the page, what that script does there, *)
(* the page's evidence of effects (effects.js), and how the handler makes  *)
(* an outcome of it that keeps or releases the lease.                      *)
(*                                                                         *)
(* One call over one document.  The transport is that of Bridge: a script  *)
(* refused never runs, one that timed out may still.  Selectors, results,  *)
(* messages and codes are left out, and so are effects through channels    *)
(* that the page cannot observe (workers, frames, navigation).             *)
(***************************************************************************)
EXTENDS Naturals

CONSTANT MaxDispatches  \* bound: calls of the backend that the page makes

ASSUME ToolConstants == MaxDispatches \in Nat

Acts == {"act_input", "act_drag", "act_gesture"}   \* webview_act_and_verify
Reads == {"find_element", "get_styles", "dom_snapshot"}
Inputs == {"keyboard", "act_input"}
Gestures == {"interact", "drag", "act_drag", "act_gesture"}
PageTools == {"execute_js", "wait_for", "locator", "ipc_execute", "ipc_monitor"}
               \cup Reads \cup Inputs \cup Gestures
NativeTools == {"window_resize", "ipc_emit_event", "get_pointed_element"}
FreeTools == {"window_focus"}

(* flag: the caller declares the script read-only (execute_js), gives a    *)
(* function (wait_for), asks for no action (locator) or for a condition    *)
(* to be awaited afterwards (act).                                         *)
Flagged == {"execute_js", "wait_for", "locator"} \cup Acts
Requests == {r \in [tool: PageTools \cup NativeTools \cup FreeTools, flag: BOOLEAN] :
               r.flag => r.tool \in Flagged}

(* tool_resources                                                          *)
Locked(r) == r.tool \notin FreeTools

VARIABLES
  request,  \* the tool that is called
  progress,    \* what its handler does next
  lease,    \* "none", "held", "quarantined" or "released"
  keyed,    \* whether the quarantine is under a request id
  monitor,  \* effects.js
  body,     \* the script in the page, and the history of what it did
  heard,    \* what came back for it
  reply     \* the ExecutionOutcome that the caller got

toolVars == <<request, progress, lease, keyed, monitor, body, heard, reply>>
handlerVars == <<progress, lease, keyed, reply>>

-----------------------------------------------------------------------------
(* Outcomes (src/crates/client/src/outcome.rs)                             *)
Outcome(execution, effect) ==
  [execution |-> execution, effect |-> effect,
   failed |-> execution # "completed", keyed |-> FALSE]
Completed(effect) == Outcome("completed", effect)
NotDispatched == Outcome("not_dispatched", "none")
Failed(effect) == Outcome("failed", effect)
Unknown == Outcome("outcome_unknown", "possible")

NoAnswer == [kind |-> "none", effect |-> "none"]
NoReply == Outcome("none", "none")

IsSuccess(o) == o.execution = "completed" /\ ~o.failed

(* Mutant: a script that nobody heard of is taken for one that did not run. *)
BridgeErrorOutcomeUnheard(m) ==
  [IF m.kind \in {"refused", "timeout"} THEN NotDispatched ELSE Failed(m.effect)
     EXCEPT !.keyed = TRUE]

(* bridge_error_outcome                                                    *)
BridgeErrorOutcome(m) ==
  [CASE m.kind = "refused" -> NotDispatched
     [] m.kind = "timeout" -> Unknown
     [] OTHER -> Failed(m.effect) EXCEPT !.keyed = TRUE]

Errors == {"refused", "timeout", "threw", "denied", "deadline"}

(* read_only_outcome, of what the caller declared                          *)
ReadOnlyOutcome(o) ==
  [o EXCEPT !.effect = "none",
            !.execution = IF @ = "outcome_unknown" THEN "failed" ELSE @]

EvalErrorOutcome(m) ==
  CASE m.kind = "denied" -> [Failed("none") EXCEPT !.keyed = TRUE]
    [] m.kind = "deadline" /\ m.effect # "none" -> [Unknown EXCEPT !.keyed = TRUE]
    [] OTHER -> BridgeErrorOutcome(m)

InputOutcome(m) ==
  CASE m.kind = "soft" -> NotDispatched
    [] m.kind = "failed" -> Failed(m.effect)
    [] OTHER -> Completed("confirmed")

(* action_response_outcome: how act_and_verify takes what its action says. *)
ActionResponseOutcome(o, m) ==
  IF o # Completed("possible") THEN o
  ELSE IF m.kind = "soft" THEN Failed("possible") ELSE Completed("confirmed")

(* into_outcome of a plain success or error (legacy_outcome and            *)
(* legacy_error_outcome), which carry no request id.                       *)
LegacyOutcome == Completed("possible")
LegacyErrorOutcome(tool) ==
  IF tool \in Reads THEN [Unknown EXCEPT !.effect = "none"] ELSE Unknown

(* What each handler makes of an error m, and of an answer from the page.  *)
ErrorOutcome(r, m) ==
  CASE r.tool = "execute_js" ->
         IF r.flag THEN ReadOnlyOutcome(EvalErrorOutcome(m)) ELSE EvalErrorOutcome(m)
    [] r.tool \in Reads \/ (r.tool = "wait_for" /\ ~r.flag) ->
         [BridgeErrorOutcome(m) EXCEPT !.effect = "none"]
    [] r.tool = "ipc_execute" /\ m.kind = "denied" ->
         [Failed("none") EXCEPT !.keyed = TRUE]
    [] OTHER -> BridgeErrorOutcome(m)

AnswerOutcome(r, m) ==
  CASE r.tool = "wait_for" ->
         [Completed(IF r.flag THEN "possible" ELSE "none") EXCEPT !.failed = m.kind = "unmet"]
    [] r.tool \in {"interact", "act_gesture"} ->
         IF m.kind = "soft" THEN NotDispatched ELSE LegacyOutcome
    [] r.tool \in Inputs -> InputOutcome(m)
    [] r.tool = "locator" ->
         IF r.flag THEN [InputOutcome(m) EXCEPT !.effect = "none"] ELSE InputOutcome(m)
    [] r.tool = "ipc_monitor" ->
         IF m.kind = "soft" THEN Failed("possible") ELSE Completed("confirmed")
    [] OTHER -> LegacyOutcome

HandlerOutcome(r, m) ==
  IF m.kind \in Errors THEN ErrorOutcome(r, m) ELSE AnswerOutcome(r, m)

(* Mutant: only what certainly failed is isolated.                         *)
RequiresQuarantineIfFailed(o) == o.execution = "failed" /\ o.effect = "possible"

RequiresQuarantine(o) ==
  \/ o.execution = "outcome_unknown" /\ o.effect # "none"
  \/ o.execution = "failed" /\ o.effect = "possible"

-----------------------------------------------------------------------------
(* handle_command and call_raw                                             *)

(* The call ends with outcome o: the lease is quarantined or dropped.      *)
Conclude(o) ==
  /\ progress' = "done" /\ reply' = o
  /\ lease' = IF lease = "none" THEN "none"
              ELSE IF RequiresQuarantine(o) THEN "quarantined" ELSE "released"
  /\ keyed' = (lease = "held" /\ RequiresQuarantine(o) /\ o.keyed)
  /\ UNCHANGED request

(* preflight_error looks at the strategy of a drag before any lease is     *)
(* taken; a lease that is busy or not recovered is not dispatched either.  *)
Preflight ==
  /\ progress = "called"
  /\ \/ (request.tool = "drag" \/ Locked(request)) /\ Conclude(NotDispatched)
     \/ /\ progress' = "prepares"
        /\ lease' = IF Locked(request) THEN "held" ELSE "none"
        /\ UNCHANGED <<request, keyed, reply>>
  /\ UNCHANGED <<monitor, body, heard>>

(* The handler refuses its arguments or a stale ref: most say that nothing *)
(* was dispatched, some give a plain error.                                *)
RefusesPlainly == {"drag", "get_styles", "dom_snapshot", "ipc_monitor"}
MayRefuse == PageTools \ {"find_element", "ipc_execute"}

(* act_and_verify makes a failure of a plain error.                        *)
RefusalOf(tool) ==
  CASE tool = "act_drag" -> Failed("possible")
    [] tool \in RefusesPlainly -> LegacyErrorOutcome(tool)
    [] OTHER -> NotDispatched

HostRefuses ==
  /\ progress = "prepares" /\ request.tool \in MayRefuse
  /\ Conclude(RefusalOf(request.tool))
  /\ UNCHANGED <<monitor, body, heard>>

(* A tool that only speaks to the application's own process.               *)
Native ==
  /\ progress = "prepares" /\ request.tool \in NativeTools \cup FreeTools
  /\ \/ Conclude(LegacyOutcome)
     \/ Conclude(LegacyErrorOutcome(request.tool))
  /\ UNCHANGED <<monitor, body, heard>>

SendScript ==
  /\ progress = "prepares" /\ request.tool \in PageTools
  /\ progress' = "waits"
  /\ body' = [body EXCEPT !.at = "queued"]
  /\ UNCHANGED <<request, lease, keyed, monitor, heard, reply>>

(* The bridge refuses it, or gives up: then the script may still run.      *)
NotSent ==
  /\ progress = "waits" /\ body.at = "queued" /\ heard = NoAnswer
  /\ heard' = [kind |-> "refused", effect |-> "none"]
  /\ body' = [body EXCEPT !.at = "none"]
  /\ UNCHANGED <<request, handlerVars, monitor>>

GivesUp ==
  /\ progress = "waits" /\ heard = NoAnswer
  /\ heard' = [kind |-> "timeout", effect |-> "possible"]
  /\ UNCHANGED <<request, handlerVars, monitor, body>>

(* act_and_verify waits for a condition only after a success, and a        *)
(* condition that fails leaves the action completed.                       *)
Handled ==
  /\ progress = "waits" /\ heard # NoAnswer
  /\ LET said == HandlerOutcome(request, heard)
         o == IF request.tool \in Acts THEN ActionResponseOutcome(said, heard) ELSE said
     IN \/ Conclude(o)
        \/ /\ request.tool \in Acts /\ request.flag /\ IsSuccess(o)
           /\ Conclude([o EXCEPT !.failed = TRUE])
  /\ UNCHANGED <<monitor, body, heard>>

-----------------------------------------------------------------------------
(* The page                                                                *)

(* Mutant: that the page has fallen back to postMessage is not seen.       *)
UnchangedUnlessObserved(mark) ==
  /\ monitor.covered
  /\ monitor.postMessage \/ ~monitor.android
  /\ monitor.dispatches = mark

UnchangedSince(mark) ==
  /\ monitor.covered
  /\ monitor.postMessage \/ (~monitor.android /\ ~monitor.fallback)
  /\ monitor.dispatches = mark

Evidence == IF UnchangedSince(body.mark) THEN "none" ELSE "possible"

(* A call of the backend.  The hooks count fetch, XHR, beacons and sockets *)
(* (where they are covered) before the call is made; IPC goes by fetch     *)
(* until one is rejected, afterwards and on Android by postMessage.        *)
Calls(channel) ==
  /\ monitor.dispatches < MaxDispatches
  /\ CASE channel = "fetch" -> ~monitor.android
       [] channel = "postMessage" -> monitor.android \/ monitor.fallback
  /\ monitor' =
       IF (channel = "fetch" /\ monitor.covered)
            \/ (channel = "postMessage" /\ monitor.postMessage)
         THEN [monitor EXCEPT !.dispatches = @ + 1] ELSE monitor

(* fetch is rejected: the hook hears of it before Tauri, which then sends  *)
(* this and all later IPC through postMessage.                             *)
FetchRejected ==
  /\ ~monitor.android /\ ~monitor.fallback
  /\ monitor' = [monitor EXCEPT !.fallback = TRUE]
  /\ UNCHANGED <<request, handlerVars, body, heard>>

(* The application's own traffic.                                          *)
AppCalls ==
  /\ progress # "done"
  /\ \E channel \in {"fetch", "postMessage"} : Calls(channel)
  /\ UNCHANGED <<request, handlerVars, body, heard>>

StartScript ==
  /\ body.at = "queued"
  /\ body' = [body EXCEPT !.at = "running", !.mark = monitor.dispatches]
  /\ UNCHANGED <<request, handlerVars, monitor, heard>>

(* Whose code the script runs: the caller's, or that of the application's  *)
(* handlers once an event has been dispatched to them.                     *)
CallersCode == request.tool \in {"execute_js", "ipc_execute"}
                 \/ (request.tool = "wait_for" /\ request.flag)
ActsByEvents == request.tool \in Gestures \cup Inputs
                \/ (request.tool = "locator" /\ ~request.flag)

(* The first event of a gesture, after every check of its target.          *)
Dispatch ==
  /\ body.at = "running" /\ ActsByEvents /\ ~body.acted
  /\ body' = [body EXCEPT !.acted = TRUE]
  /\ UNCHANGED <<request, handlerVars, monitor, heard>>

MayAct == CallersCode \/ body.acted

ScriptCalls ==
  /\ body.at \in {"running", "lingers"} /\ MayAct
  /\ request.tool = "ipc_execute" => ~body.effected
  /\ \E channel \in {"fetch", "postMessage"} : Calls(channel)
  /\ body' = IF body.at = "running" THEN [body EXCEPT !.effected = TRUE] ELSE body
  /\ UNCHANGED <<request, handlerVars, heard>>

(* How the script's promise may settle.  Before anything was dispatched it *)
(* may report that it refused (soft); input helpers also report a failure  *)
(* after they dispatched (failed).                                         *)
Settlements ==
  LET refuses == ActsByEvents \/ request.tool \in {"locator", "get_styles", "ipc_monitor"}
      helper == request.tool \in Inputs \cup {"locator"}
  IN {"threw"}
     \cup (IF request.tool = "wait_for" THEN {"held", "unmet"} ELSE {})
     \cup (IF request.tool # "wait_for" /\ (ActsByEvents => body.acted)
             THEN {"value"} ELSE {})
     \cup (IF refuses /\ ~body.acted THEN {"soft"} ELSE {})
     \cup (IF helper /\ body.acted THEN {"failed"} ELSE {})
     \cup (IF request.tool = "execute_js" THEN {"denied"} ELSE {})
     \cup (IF request.tool = "ipc_execute" /\ ~body.effected THEN {"denied"} ELSE {})

(* Nobody hears what comes after the bridge gave up (see CommandLeases).   *)
Deliver(kind) ==
  heard' = IF heard = NoAnswer THEN [kind |-> kind, effect |-> Evidence] ELSE heard

Settles ==
  /\ body.at = "running" /\ ~body.late
  /\ \E kind \in Settlements : Deliver(kind)
  /\ body' = [body EXCEPT !.at = "over"]
  /\ UNCHANGED <<request, handlerVars, monitor>>

(* js/eval.js rejects at its deadline only while no effect is seen; the    *)
(* rejection is handled a little later, and the script goes on.  js/wait.js *)
(* resolves at its deadline, whatever its function still does.             *)
Deadline ==
  /\ body.at = "running" /\ ~body.late
  /\ \/ request.tool = "execute_js" /\ UnchangedSince(body.mark)
     \/ request.tool = "wait_for"
  /\ body' = [body EXCEPT !.late = TRUE]
  /\ UNCHANGED <<request, handlerVars, monitor, heard>>

DeadlineReported ==
  /\ body.at = "running" /\ body.late
  /\ Deliver(IF request.tool = "wait_for" THEN "unmet" ELSE "deadline")
  /\ body' = [body EXCEPT !.at = "lingers"]
  /\ UNCHANGED <<request, handlerVars, monitor>>

-----------------------------------------------------------------------------
(* Which hooks took is settled when the page loads.                        *)
ToolInit ==
  /\ request \in Requests
  /\ progress = "called" /\ lease = "none" /\ keyed = FALSE
  /\ monitor \in [dispatches: {0}, covered: BOOLEAN, postMessage: BOOLEAN,
                  android: BOOLEAN, fallback: BOOLEAN]
  /\ monitor.android => ~monitor.fallback
  /\ body = [at |-> "none", mark |-> 0, acted |-> FALSE, effected |-> FALSE,
               late |-> FALSE]
  /\ heard = NoAnswer /\ reply = NoReply

ToolNext ==
  \/ Preflight \/ HostRefuses \/ Native \/ SendScript \/ NotSent \/ GivesUp \/ Handled
  \/ FetchRejected \/ AppCalls \/ StartScript \/ Dispatch \/ ScriptCalls
  \/ Settles \/ Deadline \/ DeadlineReported

ToolSpec == ToolInit /\ [][ToolNext]_toolVars

-----------------------------------------------------------------------------
(* A caller is told the truth.  If no effect is reported, then until its   *)
(* script settled, or reported its deadline, it called nothing in the      *)
(* backend by whatever channel; the caller is taken at its word when it    *)
(* declares a script read-only, and Tauri's refusal of one IPC call says   *)
(* nothing of what a script did before.  What may be retried because it    *)
(* was not dispatched has touched neither the application's handlers nor   *)
(* its backend, and never will (src/plugin/src/effects.js, js/input.js,    *)
(* js/click.js; handlers.rs:515, 1222, 1430).                              *)
NoEffectIsTrue ==
  progress = "done" /\ reply.effect = "none" /\ body.effected =>
    request.tool = "execute_js" /\ (request.flag \/ heard.kind = "denied")

NotDispatchedIsUntouched ==
  progress = "done" /\ reply.execution = "not_dispatched" =>
    ~body.acted /\ ~body.effected /\ body.at \in {"none", "over"}

(* While the script of a call may still act, its lease is not given back,  *)
(* unless the caller declared it read-only, or it is the caller's own code *)
(* that goes on after a deadline of which he is told                       *)
(* (src/plugin/src/protocol.rs:506; handlers.rs:515 and 1532).             *)
StillIsolated ==
  lease = "released" /\ body.at \in {"queued", "running", "lingers"} =>
    \/ body.at = "lingers" /\ heard.kind \in {"deadline", "unmet"}
    \/ request.tool = "execute_js" /\ request.flag
    \/ ~(CallersCode \/ ActsByEvents)

(* What a call tells of its effect is true, and while it cannot tell, its  *)
(* window stays isolated: the three facts above together, on which whoever *)
(* decides to repeat the call relies (src/plugin/src/protocol.rs:506).     *)
RepliesAreTrue == NoEffectIsTrue /\ NotDispatchedIsUntouched /\ StillIsolated
=============================================================================
