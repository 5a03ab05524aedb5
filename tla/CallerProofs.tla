---------------------------- MODULE CallerProofs ----------------------------
(***************************************************************************)
(* Theorems about what a caller is told of a tool call (Tools), of a       *)
(* screenshot (Screenshots) and of its session (Sessions), for any number  *)
(* of dispatches, requests, callbacks, images, handlers and sessions; and  *)
(* about when, and how often it acts (Calls), for any timeout.             *)
(*                                                                         *)
(* The arguments.  A reply says no more than what was heard of the script, *)
(* and what is heard of it once it is over stays true; what the evidence   *)
(* of the page cannot show is replied as unknown.  A page never returns to *)
(* a look it had, and the image lies between two probes that agree: so it  *)
(* shows what both of them saw.  A handler that waits for the lock of the  *)
(* sessions knows a time that is at most as old as it may wait, so what it *)
(* finds unused for long is not used since.                                *)
(*                                                                         *)
(* What a plan of scripts takes is bounded by a function of its places:    *)
(* whatever comes of a script, what is left at the next place is less by   *)
(* the time it took.  The bound at the first place is within the patience  *)
(* of every caller, so what has passed and what is left together stay so.  *)
(***************************************************************************)
EXTENDS Tools, Screenshots, Sessions, Calls, FiniteSetTheorems, WellFoundedInduction, TLAPS

-----------------------------------------------------------------------------
(* A tool call, and what is replied                                        *)

Steps == {"called", "prepares", "waits", "done"}
Places == {"none", "queued", "running", "over", "lingers"}
AnswerKinds == {"none", "refused", "timeout", "threw", "denied", "deadline", "soft", "failed",
                "value", "held", "unmet"}
Effects == {"none", "possible", "confirmed"}
Executions == {"none", "completed", "not_dispatched", "failed", "outcome_unknown"}
Outcomes == [execution: Executions, effect: Effects, failed: BOOLEAN, keyed: BOOLEAN]
Answers == [kind: AnswerKinds, effect: {"none", "possible"}]

ToolTypeOK ==
  /\ request \in Requests
  /\ progress \in Steps
  /\ lease \in {"none", "held", "quarantined", "released"} /\ keyed \in BOOLEAN
  /\ monitor \in [dispatches: Nat, covered: BOOLEAN, postMessage: BOOLEAN,
                  android: BOOLEAN, fallback: BOOLEAN]
  /\ body \in [at: Places, mark: Nat, acted: BOOLEAN, effected: BOOLEAN, late: BOOLEAN]
  /\ heard \in Answers /\ reply \in Outcomes

(* The script can have effects at all.                                     *)
CanAct == CallersCode \/ ActsByEvents

(* It has not begun, or has reported that it is over.                      *)
Settled == body.at \in {"none", "over", "lingers"}

(* A script acts as its tool does, and before it is sent there is none.    *)
BodyOK ==
  /\ progress \in {"called", "prepares"} =>
       /\ body.at = "none" /\ heard = NoAnswer
       /\ progress = "called" => lease = "none"
       /\ progress = "prepares" => lease = IF Locked(request) THEN "held" ELSE "none"
  /\ progress = "waits" => lease = "held"
  /\ body.at \in {"none", "queued"} => ~body.acted /\ ~body.effected
  /\ body.acted => ActsByEvents
  /\ body.effected => MayAct

(* The evidence is not wrong: what the script did either was counted, or   *)
(* may have gone by a channel that is not observed.                        *)
EvidenceOK ==
  body.at = "running" =>
    /\ body.mark <= monitor.dispatches
    /\ body.effected => ~UnchangedSince(body.mark)

(* What was heard is true of the script.                                   *)
HeardOK ==
  /\ heard.kind = "none" => heard = NoAnswer
  /\ heard.kind = "refused" => body.at = "none"
  /\ heard.kind = "timeout" => heard.effect = "possible"
  /\ heard.kind \notin {"none", "refused", "timeout"} =>
       /\ body.at \in {"over", "lingers"}
       /\ heard.effect = "none" => ~body.effected
  /\ heard.kind = "soft" => ~body.acted /\ ~CallersCode /\ body.at = "over"
  /\ heard.kind = "denied" =>
       /\ request.tool \in {"execute_js", "ipc_execute"}
       /\ request.tool = "ipc_execute" => ~body.effected
  /\ body.at = "lingers" => heard.kind \in {"deadline", "unmet", "timeout"}

(* What is replied stays true whatever the script still does.              *)
NoEffectStays ==
  progress = "done" /\ reply.effect = "none" =>
    \/ request.tool = "execute_js" /\ (request.flag \/ heard.kind = "denied")
    \/ ~body.effected /\ (Settled \/ ~CanAct)

ToolIInv ==
  /\ ToolTypeOK /\ BodyOK /\ EvidenceOK /\ HeardOK
  /\ NoEffectStays /\ NotDispatchedIsUntouched /\ StillIsolated

-----------------------------------------------------------------------------
(* Outcomes                                                                *)

(* Tools that only read, or read unless the caller says otherwise.         *)
Reading(r) == \/ r.tool \in Reads
              \/ r.tool = "wait_for" /\ ~r.flag
              \/ r.tool = "locator" /\ r.flag

Silent(r, m) ==
  \/ m.kind \in {"refused", "soft"} \/ m.effect = "none" \/ Reading(r)
  \/ r.tool = "execute_js" /\ (r.flag \/ m.kind = "denied")
  \/ r.tool = "ipc_execute" /\ m.kind = "denied"

(* An outcome o that is no better than what was heard: it says that there  *)
(* was no effect, or no dispatch, only where that was heard, and one that  *)
(* is not known isolates.                                                  *)
Honest(r, m, o) ==
  /\ o \in Outcomes
  /\ o.effect = "none" => Silent(r, m)
  /\ o.execution = "not_dispatched" => m.kind \in {"refused", "soft"}
  /\ m.kind = "timeout" /\ ~RequiresQuarantine(o) =>
       Reading(r) \/ (r.tool = "execute_js" /\ r.flag)

LEMMA ErrorHonest ==
  ASSUME NEW r \in Requests, NEW m \in Answers, m.kind \in Errors,
         m.kind = "timeout" => m.effect = "possible"
  PROVE  Honest(r, m, ErrorOutcome(r, m))
<1> USE DEF Honest, Silent, Outcomes, Executions, Effects, Outcome, Completed, NotDispatched,
            Failed, Unknown, RequiresQuarantine, Reading
<1>1. BridgeErrorOutcome(m) \in Outcomes
      /\ (BridgeErrorOutcome(m).effect = "none" => m.kind = "refused" \/ m.effect = "none")
      /\ (BridgeErrorOutcome(m).execution = "not_dispatched" => m.kind = "refused")
      /\ (m.kind = "timeout" => RequiresQuarantine(BridgeErrorOutcome(m)))
  BY DEF BridgeErrorOutcome, Answers
<1> DEFINE b == BridgeErrorOutcome(m)
           e == EvalErrorOutcome(m)
<1> HIDE DEF b
<1>2. e \in Outcomes
      /\ (e.effect = "none" => m.kind \in {"refused", "denied"} \/ m.effect = "none")
      /\ (e.execution = "not_dispatched" => m.kind = "refused")
      /\ (m.kind = "timeout" => RequiresQuarantine(e))
  BY <1>1 DEF EvalErrorOutcome, b
<1> HIDE DEF e
<1>3. CASE r.tool = "execute_js"
  <2>1. ErrorOutcome(r, m) = IF r.flag THEN ReadOnlyOutcome(e) ELSE e
    BY <1>3 DEF ErrorOutcome, e, Reads
  <2> QED BY <1>2, <1>3, <2>1 DEF ReadOnlyOutcome
<1>4. CASE r.tool \in Reads \/ (r.tool = "wait_for" /\ ~r.flag)
  <2>1. ErrorOutcome(r, m) = [b EXCEPT !.effect = "none"]
    BY <1>4 DEF ErrorOutcome, b, Reads
  <2> QED BY <1>1, <1>4, <2>1 DEF b
<1>5. CASE r.tool = "ipc_execute" /\ m.kind = "denied"
  <2>1. ErrorOutcome(r, m) = [Failed("none") EXCEPT !.keyed = TRUE]
    BY <1>5 DEF ErrorOutcome, Reads
  <2> QED BY <1>5, <2>1
<1>6. CASE /\ r.tool # "execute_js" /\ ~(r.tool \in Reads \/ (r.tool = "wait_for" /\ ~r.flag))
           /\ ~(r.tool = "ipc_execute" /\ m.kind = "denied")
  <2>1. ErrorOutcome(r, m) = b
    BY <1>6 DEF ErrorOutcome, b
  <2> QED BY <1>1, <2>1 DEF b
<1> QED BY <1>3, <1>4, <1>5, <1>6

LEMMA AnswerHonest ==
  ASSUME NEW r \in Requests, NEW m \in Answers, m.kind \notin Errors
  PROVE  Honest(r, m, AnswerOutcome(r, m))
<1> USE DEF Honest, Silent, Outcomes, Executions, Effects, Outcome, Completed, NotDispatched,
            Failed, Unknown, RequiresQuarantine, Reading, LegacyOutcome
<1>1. m.kind # "timeout"
  BY DEF Errors
<1>2. InputOutcome(m) \in Outcomes
      /\ (InputOutcome(m).effect = "none" => m.kind = "soft" \/ m.effect = "none")
      /\ (InputOutcome(m).execution = "not_dispatched" => m.kind = "soft")
  BY DEF InputOutcome, Answers
<1> DEFINE i == InputOutcome(m)
<1> HIDE DEF i
<1>3. CASE r.tool = "wait_for"
  <2>1. AnswerOutcome(r, m) =
          [Completed(IF r.flag THEN "possible" ELSE "none") EXCEPT !.failed = m.kind = "unmet"]
    BY <1>3 DEF AnswerOutcome, Inputs
  <2> QED BY <1>1, <1>3, <2>1 DEF Requests
<1>4. CASE r.tool \in {"interact", "act_gesture"}
  <2>1. AnswerOutcome(r, m) = IF m.kind = "soft" THEN NotDispatched ELSE LegacyOutcome
    BY <1>4 DEF AnswerOutcome, Inputs
  <2> QED BY <1>1, <2>1
<1>5. CASE r.tool \in Inputs
  <2>1. AnswerOutcome(r, m) = i
    BY <1>5 DEF AnswerOutcome, Inputs, i
  <2> QED BY <1>1, <1>2, <2>1 DEF i
<1>6. CASE r.tool = "locator"
  <2>1. AnswerOutcome(r, m) = IF r.flag THEN [i EXCEPT !.effect = "none"] ELSE i
    BY <1>6 DEF AnswerOutcome, Inputs, i
  <2> QED BY <1>1, <1>2, <1>6, <2>1 DEF i
<1>7. CASE r.tool = "ipc_monitor"
  <2>1. AnswerOutcome(r, m) = IF m.kind = "soft" THEN Failed("possible") ELSE Completed("confirmed")
    BY <1>7 DEF AnswerOutcome, Inputs
  <2> QED BY <1>1, <2>1
<1>8. CASE r.tool \notin {"wait_for", "interact", "act_gesture", "locator", "ipc_monitor"} \cup Inputs
  <2>1. AnswerOutcome(r, m) = LegacyOutcome
    BY <1>8 DEF AnswerOutcome
  <2> QED BY <1>1, <2>1
<1> QED BY <1>3, <1>4, <1>5, <1>6, <1>7, <1>8

LEMMA HandlerHonest ==
  ASSUME NEW r \in Requests, NEW m \in Answers, m.kind = "timeout" => m.effect = "possible"
  PROVE  Honest(r, m, HandlerOutcome(r, m))
BY ErrorHonest, AnswerHonest DEF HandlerOutcome

(* What act_and_verify makes of its action's response is honest too, for   *)
(* an action is none of the tools that only read.                          *)
LEMMA ActionHonest ==
  ASSUME NEW r \in Requests, NEW m \in Answers, NEW o, Honest(r, m, o),
         m.kind # "timeout" \/ RequiresQuarantine(o)
  PROVE  Honest(r, m, ActionResponseOutcome(o, m))
BY DEF Honest, ActionResponseOutcome, Outcomes, Outcome, Completed, Failed, Executions,
       Effects, RequiresQuarantine

LEMMA FailedHonest ==
  ASSUME NEW r \in Requests, NEW m \in Answers, NEW o, Honest(r, m, o), IsSuccess(o)
  PROVE  Honest(r, m, [o EXCEPT !.failed = TRUE])
BY DEF Honest, Outcomes, RequiresQuarantine

-----------------------------------------------------------------------------
(* Steps                                                                   *)

(* An outcome that is true of what the script did and may still do.        *)
Fits(o) ==
  /\ o \in Outcomes
  /\ o.effect = "none" =>
       \/ request.tool = "execute_js" /\ (request.flag \/ heard.kind = "denied")
       \/ ~body.effected /\ (Settled \/ ~CanAct)
  /\ o.execution = "not_dispatched" =>
       ~body.acted /\ ~body.effected /\ body.at \in {"none", "over"}
  /\ ~RequiresQuarantine(o) /\ body.at \in {"queued", "running", "lingers"} =>
       \/ body.at = "lingers" /\ heard.kind \in {"deadline", "unmet"}
       \/ request.tool = "execute_js" /\ request.flag
       \/ ~CanAct

LEMMA ConcludeKeeps ==
  ASSUME ToolIInv, progress # "done", NEW o, Fits(o), Conclude(o),
         UNCHANGED <<monitor, body, heard>>
  PROVE  ToolIInv'
<1> USE DEF ToolIInv, Fits, Conclude
<1>1. ToolTypeOK'
  BY DEF ToolTypeOK, Steps
<1>2. BodyOK' /\ EvidenceOK' /\ HeardOK'
  BY DEF BodyOK, EvidenceOK, HeardOK, CallersCode, ActsByEvents, MayAct, UnchangedSince
<1>3. NoEffectStays' /\ NotDispatchedIsUntouched'
  BY DEF NoEffectStays, NotDispatchedIsUntouched, Settled, CanAct, CallersCode, ActsByEvents
<1>4. lease # "released"
  BY DEF BodyOK, ToolTypeOK, Steps
<1>5. lease' = "released" => ~RequiresQuarantine(o)
  BY <1>4
<1>6. StillIsolated'
  BY <1>5 DEF StillIsolated, CanAct, CallersCode, ActsByEvents
<1> QED BY <1>1, <1>2, <1>3, <1>6

(* Before anything was sent whatever is replied is true.                   *)
LEMMA FitsBefore ==
  ASSUME ToolIInv, progress \in {"called", "prepares"}, NEW o \in Outcomes
  PROVE  Fits(o)
BY DEF ToolIInv, BodyOK, Fits, Settled

(* What is heard of a tool that only reads is not an effect.               *)
LEMMA ReadingIsSilent ==
  ASSUME ToolIInv, Reading(request)
  PROVE  ~CanAct
BY DEF Reading, CanAct, CallersCode, ActsByEvents, Reads, Gestures, Inputs

LEMMA HonestFits ==
  ASSUME ToolIInv, heard # NoAnswer, NEW o, Honest(request, heard, o)
  PROVE  Fits(o)
<1> USE DEF ToolIInv
<1>1. heard.kind # "none" /\ heard \in Answers
  BY DEF HeardOK, ToolTypeOK
<1>2. ~CanAct => ~body.effected
  BY DEF BodyOK, CanAct, MayAct
<1>3. Reading(request) => ~CanAct
  BY ReadingIsSilent
<1>4. heard.kind = "refused" => body.at = "none" /\ ~body.acted /\ ~body.effected
  BY DEF HeardOK, BodyOK
<1>5. heard.kind = "soft" => body.at = "over" /\ ~body.acted /\ ~body.effected
  BY DEF HeardOK, BodyOK, MayAct
<1>6. heard.effect = "none" /\ heard.kind # "refused" => ~body.effected /\ Settled
  BY <1>1 DEF HeardOK, Settled
<1>7. request.tool = "ipc_execute" /\ heard.kind = "denied" => ~body.effected /\ Settled
  BY DEF HeardOK, Settled
<1>8. o.effect = "none" =>
        \/ request.tool = "execute_js" /\ (request.flag \/ heard.kind = "denied")
        \/ ~body.effected /\ (Settled \/ ~CanAct)
  BY <1>2, <1>3, <1>4, <1>5, <1>6, <1>7 DEF Honest, Silent, Settled
<1>9. o.execution = "not_dispatched" =>
        ~body.acted /\ ~body.effected /\ body.at \in {"none", "over"}
  BY <1>4, <1>5 DEF Honest
<1>10. ~RequiresQuarantine(o) /\ body.at \in {"queued", "running", "lingers"} =>
         \/ body.at = "lingers" /\ heard.kind \in {"deadline", "unmet"}
         \/ request.tool = "execute_js" /\ request.flag
         \/ ~CanAct
  <2>1. SUFFICES ASSUME ~RequiresQuarantine(o), body.at \in {"queued", "running", "lingers"},
                        heard.kind \notin {"deadline", "unmet"}
                 PROVE  (request.tool = "execute_js" /\ request.flag) \/ ~CanAct
    BY <1>1 DEF HeardOK
  <2>2. heard.kind = "timeout"
    BY <1>1, <2>1 DEF HeardOK
  <2> QED BY <1>3, <2>1, <2>2 DEF Honest
<1> QED BY <1>8, <1>9, <1>10 DEF Fits, Honest

LEMMA HandledKeeps ==
  ASSUME ToolIInv, Handled
  PROVE  ToolIInv'
<1> DEFINE said == HandlerOutcome(request, heard)
           o == IF request.tool \in Acts THEN ActionResponseOutcome(said, heard) ELSE said
<1>1. request \in Requests /\ heard \in Answers /\ (heard.kind = "timeout" => heard.effect = "possible")
  BY DEF ToolIInv, ToolTypeOK, HeardOK
<1>2. Honest(request, heard, said)
  BY <1>1, HandlerHonest
<1>3. \/ Conclude(o)
      \/ IsSuccess(o) /\ Conclude([o EXCEPT !.failed = TRUE])
  BY DEF Handled
<1> HIDE DEF said
<1>4. Honest(request, heard, o)
  <2>1. CASE request.tool \in Acts
    <3>1. heard.kind # "timeout" \/ RequiresQuarantine(said)
      BY <1>2, <2>1 DEF Honest, Acts, Reading, Reads
    <3> QED BY <1>1, <1>2, <2>1, <3>1, ActionHonest
  <2> QED BY <1>2, <2>1
<1> HIDE DEF o
<1>5. PICK r : Honest(request, heard, r) /\ Conclude(r)
  <2>1. CASE Conclude(o)
    BY <1>4, <2>1
  <2>2. CASE IsSuccess(o) /\ Conclude([o EXCEPT !.failed = TRUE])
    BY <1>1, <1>4, <2>2, FailedHonest
  <2> QED BY <1>3, <2>1, <2>2
<1>6. Fits(r)
  BY <1>5, HonestFits DEF Handled
<1> QED BY <1>5, <1>6, ConcludeKeeps DEF Handled

LEMMA RefusedKeeps ==
  ASSUME ToolIInv, Preflight \/ HostRefuses \/ Native
  PROVE  ToolIInv'
<1> DEFINE Plain == {NotDispatched, LegacyOutcome, Failed("possible")}
                      \cup {LegacyErrorOutcome(request.tool)}
<1>1. \A o \in Plain : o \in Outcomes
  <2> USE DEF Outcome, Outcomes, Executions, Effects
  <2>1. NotDispatched \in Outcomes /\ LegacyOutcome \in Outcomes /\ Failed("possible") \in Outcomes
    BY DEF NotDispatched, LegacyOutcome, Completed, Failed
  <2>2. LegacyErrorOutcome(request.tool) \in Outcomes
    BY DEF LegacyErrorOutcome, Unknown
  <2> QED BY <2>1, <2>2
<1>2. ASSUME NEW o \in Plain, Conclude(o), progress \in {"called", "prepares"},
             UNCHANGED <<monitor, body, heard>>
      PROVE  ToolIInv'
  BY <1>1, <1>2, FitsBefore, ConcludeKeeps
<1>3. CASE Preflight
  <2>1. CASE Conclude(NotDispatched)
    BY <1>2, <1>3, <2>1 DEF Preflight
  <2>2. CASE /\ progress' = "prepares"
             /\ lease' = IF Locked(request) THEN "held" ELSE "none"
             /\ UNCHANGED <<request, keyed, reply>>
    <3> USE <1>3, <2>2 DEF ToolIInv, Preflight
    <3>1. ToolTypeOK'
      BY DEF ToolTypeOK, Steps
    <3>2. BodyOK' /\ EvidenceOK' /\ HeardOK'
      BY DEF BodyOK, EvidenceOK, HeardOK, CallersCode, ActsByEvents, MayAct, UnchangedSince
    <3>3. NoEffectStays' /\ NotDispatchedIsUntouched' /\ StillIsolated'
      BY DEF NoEffectStays, NotDispatchedIsUntouched, StillIsolated
    <3> QED BY <3>1, <3>2, <3>3
  <2> QED BY <1>3, <2>1, <2>2 DEF Preflight
<1>4. CASE HostRefuses
  <2>1. RefusalOf(request.tool) \in Plain
    BY DEF RefusalOf
  <2> HIDE DEF Plain
  <2> QED BY <1>2, <1>4, <2>1 DEF HostRefuses
<1>5. CASE Native
  <2>1. LegacyOutcome \in Plain /\ LegacyErrorOutcome(request.tool) \in Plain
    OBVIOUS
  <2> HIDE DEF Plain
  <2> QED BY <1>2, <1>5, <2>1 DEF Native
<1> QED BY <1>3, <1>4, <1>5

LEMMA SentKeeps ==
  ASSUME ToolIInv, SendScript \/ NotSent \/ GivesUp
  PROVE  ToolIInv'
<1> USE DEF ToolIInv, handlerVars, NoAnswer
<1>1. CASE SendScript
  <2> USE <1>1 DEF SendScript
  <2>1. ToolTypeOK'
    BY DEF ToolTypeOK, Steps, Places
  <2>2. lease = "held"
    BY DEF BodyOK, Locked, PageTools, FreeTools, Reads, Inputs, Gestures
  <2>3. BodyOK' /\ EvidenceOK' /\ HeardOK'
    BY <2>2 DEF BodyOK, EvidenceOK, HeardOK, CallersCode, ActsByEvents, MayAct, UnchangedSince,
              ToolTypeOK
  <2>4. NoEffectStays' /\ NotDispatchedIsUntouched' /\ StillIsolated'
    BY <2>2 DEF NoEffectStays, NotDispatchedIsUntouched, StillIsolated
  <2> QED BY <2>1, <2>3, <2>4
<1>2. CASE NotSent
  <2> USE <1>2 DEF NotSent
  <2>1. ToolTypeOK'
    BY DEF ToolTypeOK, Places, Answers, AnswerKinds
  <2>2. BodyOK' /\ EvidenceOK' /\ HeardOK'
    BY DEF BodyOK, EvidenceOK, HeardOK, CallersCode, ActsByEvents, MayAct, ToolTypeOK
  <2>3. NoEffectStays' /\ NotDispatchedIsUntouched' /\ StillIsolated'
    BY DEF NoEffectStays, NotDispatchedIsUntouched, StillIsolated, BodyOK
  <2> QED BY <2>1, <2>2, <2>3
<1>3. CASE GivesUp
  <2> USE <1>3 DEF GivesUp
  <2>1. ToolTypeOK'
    BY DEF ToolTypeOK, Answers, AnswerKinds
  <2>2. BodyOK' /\ EvidenceOK' /\ HeardOK'
    BY DEF BodyOK, EvidenceOK, HeardOK, CallersCode, ActsByEvents, MayAct, UnchangedSince,
           ToolTypeOK
  <2>3. NoEffectStays' /\ NotDispatchedIsUntouched' /\ StillIsolated'
    BY DEF NoEffectStays, NotDispatchedIsUntouched, StillIsolated, BodyOK
  <2> QED BY <2>1, <2>2, <2>3
<1> QED BY <1>1, <1>2, <1>3

-----------------------------------------------------------------------------
(* The page                                                                *)

(* The page counts what its hooks see.                                     *)
LEMMA CallsAre ==
  ASSUME ToolTypeOK, NEW channel \in {"fetch", "postMessage"}, Calls(channel)
  PROVE  /\ monitor' \in [dispatches: Nat, covered: BOOLEAN, postMessage: BOOLEAN,
                          android: BOOLEAN, fallback: BOOLEAN]
         /\ monitor'.dispatches >= monitor.dispatches
         /\ \A mark \in Nat : mark <= monitor.dispatches =>
              /\ ~UnchangedSince(mark)'
              /\ ~UnchangedSince(mark) => ~UnchangedSince(mark)'
<1> DEFINE more == [monitor EXCEPT !.dispatches = @ + 1]
<1>1. more \in [dispatches: Nat, covered: BOOLEAN, postMessage: BOOLEAN,
                android: BOOLEAN, fallback: BOOLEAN]
      /\ more.dispatches = monitor.dispatches + 1 /\ monitor.dispatches \in Nat
  BY DEF ToolTypeOK
<1>2. monitor' = more \/ monitor' = monitor
  BY DEF Calls
<1>3. monitor' = more \/ (channel = "fetch" /\ ~monitor.covered)
        \/ (channel = "postMessage" /\ ~monitor.postMessage)
  BY DEF Calls
<1>4. (channel = "postMessage" /\ ~monitor.postMessage) => monitor.android \/ monitor.fallback
  BY DEF Calls
<1> HIDE DEF more
<1>5. ASSUME NEW mark \in Nat, mark <= monitor.dispatches
      PROVE  ~UnchangedSince(mark)'
  BY <1>1, <1>2, <1>3, <1>4, <1>5 DEF UnchangedSince
<1> QED BY <1>1, <1>2, <1>5 DEF ToolTypeOK

(* What the page does to its counters makes no evidence that was not.      *)
LEMMA MonitorKeeps ==
  ASSUME ToolIInv, ToolTypeOK', UNCHANGED <<request, handlerVars, body, heard>>,
         body.at = "running" =>
           /\ monitor'.dispatches >= monitor.dispatches
           /\ ~UnchangedSince(body.mark) => ~UnchangedSince(body.mark)'
  PROVE  ToolIInv'
<1> USE DEF ToolIInv, handlerVars
<1>1. BodyOK' /\ HeardOK'
  BY DEF BodyOK, HeardOK, CallersCode, ActsByEvents, MayAct
<1>2. EvidenceOK'
  BY DEF EvidenceOK, ToolTypeOK
<1>3. NoEffectStays' /\ NotDispatchedIsUntouched' /\ StillIsolated'
  BY DEF NoEffectStays, NotDispatchedIsUntouched, StillIsolated, Settled, CanAct, CallersCode,
         ActsByEvents
<1> QED BY <1>1, <1>2, <1>3

LEMMA TrafficKeeps ==
  ASSUME ToolIInv, FetchRejected \/ AppCalls
  PROVE  ToolIInv'
<1>1. CASE FetchRejected
  <2>1. ToolTypeOK'
    BY <1>1 DEF ToolIInv, ToolTypeOK, FetchRejected, handlerVars
  <2>2. monitor'.dispatches = monitor.dispatches /\ monitor.dispatches \in Nat
    BY <1>1 DEF ToolIInv, ToolTypeOK, FetchRejected
  <2>3. ~UnchangedSince(body.mark) => ~UnchangedSince(body.mark)'
    BY <1>1 DEF ToolIInv, ToolTypeOK, FetchRejected, UnchangedSince
  <2> QED BY <1>1, <2>1, <2>2, <2>3, MonitorKeeps DEF FetchRejected
<1>2. CASE AppCalls
  <2>1. PICK channel \in {"fetch", "postMessage"} : Calls(channel)
    BY <1>2 DEF AppCalls
  <2>2. ToolTypeOK'
    BY <1>2, <2>1, CallsAre DEF ToolIInv, ToolTypeOK, AppCalls, handlerVars
  <2>3. body.at = "running" =>
           /\ monitor'.dispatches >= monitor.dispatches
           /\ ~UnchangedSince(body.mark) => ~UnchangedSince(body.mark)'
    <3>1. SUFFICES ASSUME body.at = "running"
                   PROVE  /\ monitor'.dispatches >= monitor.dispatches
                          /\ ~UnchangedSince(body.mark)'
      OBVIOUS
    <3>2. body.mark \in Nat /\ body.mark <= monitor.dispatches /\ body' = body
      BY <1>2, <3>1 DEF ToolIInv, ToolTypeOK, EvidenceOK, AppCalls
    <3>3. ~UnchangedSince(body.mark)' /\ monitor'.dispatches >= monitor.dispatches
      BY <2>1, <3>2, CallsAre DEF ToolIInv, UnchangedSince
    <3> QED BY <3>3
  <2> QED BY <1>2, <2>2, <2>3, MonitorKeeps DEF AppCalls
<1> QED BY <1>1, <1>2

(* It starts, dispatches its first event, or passes its deadline.          *)
LEMMA BeginsKeeps ==
  ASSUME ToolIInv, StartScript \/ Dispatch \/ Deadline
  PROVE  ToolIInv'
<1> USE DEF ToolIInv, handlerVars
<1>1. CASE StartScript
  <2> USE <1>1 DEF StartScript
  <2>1. ToolTypeOK'
    BY DEF ToolTypeOK, Places
  <2>2. BodyOK' /\ EvidenceOK' /\ HeardOK'
    BY DEF BodyOK, EvidenceOK, HeardOK, CallersCode, ActsByEvents, MayAct, ToolTypeOK
  <2>3. NoEffectStays' /\ NotDispatchedIsUntouched' /\ StillIsolated'
    BY DEF NoEffectStays, NotDispatchedIsUntouched, StillIsolated, Settled, CanAct, CallersCode,
           ActsByEvents, ToolTypeOK
  <2> QED BY <2>1, <2>2, <2>3
<1>2. CASE Dispatch
  <2> USE <1>2 DEF Dispatch
  <2>1. ToolTypeOK'
    BY DEF ToolTypeOK
  <2>2. BodyOK' /\ EvidenceOK' /\ HeardOK'
    BY DEF BodyOK, EvidenceOK, HeardOK, CallersCode, ActsByEvents, MayAct, ToolTypeOK,
           UnchangedSince
  <2>3. NoEffectStays' /\ NotDispatchedIsUntouched' /\ StillIsolated'
    BY DEF NoEffectStays, NotDispatchedIsUntouched, StillIsolated, Settled, CanAct, CallersCode,
           ActsByEvents, ToolTypeOK
  <2> QED BY <2>1, <2>2, <2>3
<1>3. CASE Deadline
  <2> USE <1>3 DEF Deadline
  <2>1. ToolTypeOK'
    BY DEF ToolTypeOK
  <2>2. BodyOK' /\ EvidenceOK' /\ HeardOK'
    BY DEF BodyOK, EvidenceOK, HeardOK, CallersCode, ActsByEvents, MayAct, ToolTypeOK,
           UnchangedSince
  <2>3. NoEffectStays' /\ NotDispatchedIsUntouched' /\ StillIsolated'
    BY DEF NoEffectStays, NotDispatchedIsUntouched, StillIsolated, Settled, CanAct, CallersCode,
           ActsByEvents, ToolTypeOK
  <2> QED BY <2>1, <2>2, <2>3
<1> QED BY <1>1, <1>2, <1>3

LEMMA ScriptCallsKeeps ==
  ASSUME ToolIInv, ScriptCalls
  PROVE  ToolIInv'
<1> USE DEF ToolIInv, handlerVars, ScriptCalls
<1>1. PICK channel \in {"fetch", "postMessage"} : Calls(channel)
  OBVIOUS
<1>2. ToolTypeOK'
  BY <1>1, CallsAre DEF ToolTypeOK
<1>3. BodyOK' /\ HeardOK'
  BY DEF BodyOK, HeardOK, CallersCode, ActsByEvents, MayAct, ToolTypeOK
<1>4. EvidenceOK'
  <2>1. SUFFICES ASSUME body'.at = "running"
                 PROVE  body'.mark <= monitor'.dispatches /\ ~UnchangedSince(body.mark)'
    BY DEF EvidenceOK, UnchangedSince
  <2>2. body.at = "running" /\ body'.mark = body.mark /\ body.mark \in Nat
    BY <2>1 DEF ToolTypeOK
  <2>3. body.mark <= monitor.dispatches /\ monitor.dispatches \in Nat
    BY <2>2 DEF EvidenceOK, ToolTypeOK
  <2>4. monitor'.dispatches >= monitor.dispatches /\ monitor'.dispatches \in Nat
    BY <1>1, <1>2, CallsAre DEF ToolTypeOK
  <2>5. PICK mark \in Nat : mark = body.mark
    BY <2>2
  <2>6. ~UnchangedSince(mark)'
    BY <1>1, <2>3, <2>5, CallsAre
  <2> QED BY <2>2, <2>3, <2>4, <2>5, <2>6 DEF UnchangedSince
<1>5. CanAct
  BY DEF CanAct, MayAct, BodyOK
<1>6. NoEffectStays' /\ NotDispatchedIsUntouched' /\ StillIsolated'
  BY <1>5 DEF NoEffectStays, NotDispatchedIsUntouched, StillIsolated, Settled, CanAct, CallersCode,
         ActsByEvents, ToolTypeOK
<1> QED BY <1>2, <1>3, <1>4, <1>6

(* What it says of itself when it is over.                                 *)
LEMMA EndsKeeps ==
  ASSUME ToolIInv, Settles \/ DeadlineReported
  PROVE  ToolIInv'
<1> USE DEF ToolIInv, handlerVars
<1>1. body.at = "running" /\ (Evidence = "none" => ~body.effected)
      /\ Evidence \in {"none", "possible"}
  BY DEF Settles, DeadlineReported, EvidenceOK, Evidence
<1>2. PICK kind \in AnswerKinds \ {"none", "refused", "timeout"} :
        /\ Deliver(kind)
        /\ kind = "soft" => Settles /\ ~body.acted /\ ~CallersCode
        /\ kind = "denied" =>
             /\ request.tool \in {"execute_js", "ipc_execute"}
             /\ request.tool = "ipc_execute" => ~body.effected
        /\ DeadlineReported /\ ~Settles => kind \in {"deadline", "unmet"}
  <2>1. CASE Settles
    BY <2>1 DEF Settles, Settlements, AnswerKinds, CallersCode, ActsByEvents, Gestures, Inputs
  <2>2. CASE DeadlineReported /\ ~Settles
    BY <2>2 DEF DeadlineReported, AnswerKinds
  <2> QED BY <2>1, <2>2
<1>3. /\ body' = [body EXCEPT !.at = "over"] \/ body' = [body EXCEPT !.at = "lingers"]
      /\ Settles => body' = [body EXCEPT !.at = "over"]
      /\ UNCHANGED <<request, handlerVars, monitor>>
  BY DEF Settles, DeadlineReported
<1>4. ToolTypeOK'
  BY <1>1, <1>2, <1>3 DEF ToolTypeOK, Deliver, Places, Answers
<1>5. BodyOK' /\ EvidenceOK'
  BY <1>1, <1>3 DEF BodyOK, EvidenceOK, CallersCode, ActsByEvents, MayAct, ToolTypeOK
<1>6. HeardOK'
  <2>1. CASE heard = NoAnswer
    BY <1>1, <1>2, <1>3, <2>1 DEF HeardOK, Deliver, CallersCode, ToolTypeOK, NoAnswer, AnswerKinds
  <2>2. CASE heard # NoAnswer
    <3>1. heard' = heard /\ heard.kind = "timeout"
      BY <1>1, <1>2, <2>2 DEF HeardOK, Deliver
    <3> QED BY <1>3, <3>1 DEF HeardOK
  <2> QED BY <2>1, <2>2
<1>7. NoEffectStays'
  <2>1. SUFFICES ASSUME progress = "done", reply.effect = "none"
                 PROVE  \/ request.tool = "execute_js" /\ (request.flag \/ heard'.kind = "denied")
                        \/ ~body.effected
    BY <1>3 DEF NoEffectStays, Settled, ToolTypeOK
  <2>2. heard.kind # "denied"
    BY <1>1 DEF HeardOK
  <2> QED BY <2>1, <2>2 DEF NoEffectStays
<1>8. NotDispatchedIsUntouched'
  BY <1>1, <1>3 DEF NotDispatchedIsUntouched
<1>9. StillIsolated'
  BY <1>1, <1>3 DEF StillIsolated, ToolTypeOK, HeardOK, CallersCode, ActsByEvents
<1> QED BY <1>4, <1>5, <1>6, <1>7, <1>8, <1>9

-----------------------------------------------------------------------------
LEMMA InitTool == ToolInit => ToolIInv
<1> SUFFICES ASSUME ToolInit PROVE ToolIInv
  OBVIOUS
<1> USE DEF ToolInit, NoAnswer, NoReply, Outcome
<1>1. ToolTypeOK
  <2>1. reply \in Outcomes
    BY DEF Outcomes, Executions, Effects
  <2>2. heard \in Answers /\ progress \in Steps
    BY DEF Answers, AnswerKinds, Steps
  <2>3. body \in [at: Places, mark: Nat, acted: BOOLEAN, effected: BOOLEAN, late: BOOLEAN]
    BY DEF Places
  <2> QED BY <2>1, <2>2, <2>3 DEF ToolTypeOK
<1>2. BodyOK /\ EvidenceOK /\ HeardOK
  BY DEF BodyOK, EvidenceOK, HeardOK
<1>3. NoEffectStays /\ NotDispatchedIsUntouched /\ StillIsolated
  BY DEF NoEffectStays, NotDispatchedIsUntouched, StillIsolated
<1> QED BY <1>1, <1>2, <1>3 DEF ToolIInv

LEMMA ToolStep ==
  ASSUME ToolIInv, [ToolNext]_toolVars
  PROVE  ToolIInv'
<1>1. CASE UNCHANGED toolVars
  BY <1>1 DEF toolVars, ToolIInv, ToolTypeOK, BodyOK, EvidenceOK, HeardOK, NoEffectStays,
              NotDispatchedIsUntouched, StillIsolated, Settled, CanAct, CallersCode, ActsByEvents,
              MayAct, UnchangedSince
<1>2. CASE ToolNext
  BY <1>2, RefusedKeeps, SentKeeps, HandledKeeps, TrafficKeeps, BeginsKeeps, ScriptCallsKeeps,
     EndsKeeps DEF ToolNext
<1> QED BY <1>1, <1>2

(* The inductive invariant holds throughout, whatever the tool, its flags, *)
(* the hooks of the page and the traffic of the application are.           *)
THEOREM ToolInvariance == ToolSpec => []ToolIInv
<1> QED BY InitTool, ToolStep, PTL DEF ToolSpec

(* What a call tells of its effect is true, and while it cannot tell, its  *)
(* window stays isolated (bridge_error_outcome, requires_quarantine,       *)
(* effects.js).                                                            *)
THEOREM RepliesTellTheTruth == ToolSpec => []RepliesAreTrue
<1>1. ToolIInv => RepliesAreTrue
  BY DEF ToolIInv, NoEffectStays, RepliesAreTrue, NoEffectIsTrue
<1> QED BY <1>1, ToolInvariance, PTL

-----------------------------------------------------------------------------
(* A screenshot, and its receipt                                           *)

Stages == {"none", "authorize", "bind", "target", "retain", "reply"} \cup Checked
Frames == [document: Nat, look: Nat, spot: Nat, maskable: BOOLEAN]
Pages == [document: Nat \ {0}, look: Nat, spot: Nat, maskable: BOOLEAN, loading: BOOLEAN]
Shots == [at: Stages, number: Nat, element: BOOLEAN, source: Sources \cup {"none"},
          auto: BOOLEAN, generation: Nat, attempt: Nat,
          checked: {"no", "authorized", "yes"}, context: Nat, spot: Nat, before: Frames,
          call: Nat, frame: Frames]
Callbacks == [permit: Nat \ {0}, frame: Frames]
Images == [shot: Nat, generation: Nat, until: Nat]

ShotTypeOK ==
  /\ view \in Pages /\ shot \in Shots /\ native \subseteq Callbacks
  /\ artifacts \subseteq Images /\ promised \subseteq Images
  /\ used \in Nat /\ generation \in Nat /\ clock \in Nat /\ trouble \in Nat

(* g may be what became of f: nothing returns, and a look that is the same *)
(* can be masked alike.                                                    *)
Follows(f, g) ==
  /\ f.document <= g.document /\ f.look <= g.look /\ f.spot <= g.spot
  /\ f.look = g.look => f.maskable = g.maskable

Between(f, image, g) == image = NoFrame \/ (Follows(f, image) /\ Follows(image, g))

Finished == {"finish", "retain", "reply"}
Probed == {"capture", "reprobe"} \cup Finished
Aimed == {"frame_ready", "probe"} \cup Probed

(* Where the element is, and what the first probe saw, is of the past.     *)
AimedOK(s, v) ==
  /\ s.at \in Aimed /\ s.element => s.spot <= v.spot
  /\ s.at \in Probed =>
       /\ s.before.document = s.context /\ s.before.maskable /\ Follows(s.before, v)
       /\ s.element => s.spot <= s.before.spot
  /\ s.at \notin Probed => s.call = 0

(* An image was taken after the first probe, by this request or by the     *)
(* callback it waits for.                                                  *)
ImageOK(s, v, n) ==
  /\ s.at \notin {"reprobe"} \cup Finished => s.frame = NoFrame
  /\ s.at = "reprobe" => Between(s.before, s.frame, v)
  /\ s.at = "capture" => \A c \in n : c.permit = s.call => Between(s.before, c.frame, v)

(* The element was checked after the image; from the second probe on the   *)
(* picture is true.                                                        *)
PictureOK(s) ==
  /\ s.at = "reprobe" /\ s.checked = "yes" /\ s.element /\ s.frame # NoFrame =>
       s.frame.spot = s.spot
  /\ s.at \in Finished =>
       /\ s.frame.document = s.context
       /\ s.frame.look = s.before.look /\ s.frame.maskable
       /\ s.element => s.frame.spot = s.spot

ShotOK(s, v, n) == AimedOK(s, v) /\ ImageOK(s, v, n) /\ PictureOK(s)

(* Nothing is of a generation still to come, and what is kept is charged.  *)
GenerationsOK ==
  /\ shot.generation <= generation
  /\ \A a \in artifacts \cup promised : a.generation <= generation

StoreOK == IsFiniteSet(artifacts) /\ Cardinality(artifacts) <= used /\ used <= Memory

PromisesOK == \A p \in promised : p.until > clock /\ p.generation = generation => p \in artifacts

ShotIInv ==
  /\ ShotTypeOK /\ ShotOK(shot, view, native)
  /\ GenerationsOK /\ StoreOK /\ PromisesOK

-----------------------------------------------------------------------------
LEMMA NoFrameTyped == NoFrame \in Frames
BY DEF NoFrame, Frames

LEMMA NoShotTyped == NoShot \in Shots
BY NoFrameTyped DEF NoShot, Shots, Stages, Checked

LEMMA OverTyped ==
  ASSUME ShotTypeOK
  PROVE  Over \in Shots /\ Over.at = "none" /\ Over.call = 0 /\ Over.frame = NoFrame
         /\ Over.generation = 0
BY NoFrameTyped DEF ShotTypeOK, Over, NoShot, Shots, Stages, Checked

LEMMA ViewTyped ==
  ASSUME ShotTypeOK
  PROVE  /\ View \in Frames /\ View.document = view.document /\ View.look = view.look
         /\ View.spot = view.spot /\ View.maskable = view.maskable /\ View # NoFrame
         /\ Follows(View, view)
<1>1. /\ View \in Frames /\ View.document = view.document /\ View.look = view.look
      /\ View.spot = view.spot /\ View.maskable = view.maskable
  BY DEF ShotTypeOK, View, Frames, Pages
<1>2. View # NoFrame
  BY <1>1 DEF NoFrame, ShotTypeOK, Pages
<1>3. Follows(View, view)
  BY <1>1 DEF Follows, ShotTypeOK, Pages
<1> QED BY <1>1, <1>2, <1>3

LEMMA FollowsOn ==
  ASSUME NEW f \in Frames, NEW g \in Frames, NEW v \in Pages, Follows(f, g), Follows(g, v)
  PROVE  Follows(f, v)
BY DEF Follows, Frames, Pages

(* What holds of a request goes on to hold as the page goes on.            *)
LEMMA PageGoesOn ==
  ASSUME NEW s \in Shots, NEW v \in Pages, NEW w \in Pages, NEW n \in SUBSET Callbacks,
         v.document <= w.document, v.look <= w.look, v.spot <= w.spot,
         v.look = w.look => v.maskable = w.maskable, ShotOK(s, v, n)
  PROVE  ShotOK(s, w, n)
<1>1. ASSUME NEW f \in Frames, Follows(f, v) PROVE Follows(f, w)
  BY <1>1 DEF Follows, Frames, Pages
<1>2. s.before \in Frames /\ s.frame \in Frames /\ s.spot \in Nat
  BY DEF Shots
<1>3. AimedOK(s, w)
  BY <1>1, <1>2 DEF ShotOK, AimedOK, Pages
<1>4. ImageOK(s, w, n)
  BY <1>1, <1>2 DEF ShotOK, ImageOK, Between, Callbacks
<1> QED BY <1>3, <1>4 DEF ShotOK

LEMMA InitShot == ShotInit => ShotIInv
<1> SUFFICES ASSUME ShotInit PROVE ShotIInv
  OBVIOUS
<1> USE ScreenshotConstants DEF ShotInit
<1>1. ShotTypeOK
  BY NoShotTyped DEF ShotTypeOK, Pages
<1>2. ShotOK(shot, view, native)
  BY DEF ShotOK, AimedOK, ImageOK, PictureOK, NoShot, Aimed, Probed, Finished
<1>3. GenerationsOK /\ PromisesOK
  BY DEF GenerationsOK, PromisesOK, NoShot
<1>4. StoreOK
  BY FS_EmptySet DEF StoreOK
<1> QED BY <1>1, <1>2, <1>3, <1>4 DEF ShotIInv

-----------------------------------------------------------------------------
(* A step of the request alone.                                            *)
LEMMA StepKeeps ==
  ASSUME ShotIInv, NEW new \in Shots, Step(new), ShotOK(new, view, native),
         new.generation <= generation
  PROVE  ShotIInv'
<1> USE DEF Step, hostVars, ShotIInv
<1>1. ShotTypeOK'
  BY DEF ShotTypeOK
<1>2. ShotOK(shot, view, native)'
  BY DEF ShotOK, AimedOK, ImageOK, PictureOK
<1>3. GenerationsOK' /\ StoreOK' /\ PromisesOK'
  BY DEF GenerationsOK, StoreOK, PromisesOK
<1> QED BY <1>1, <1>2, <1>3

LEMMA RefusalKeeps == ASSUME ShotIInv, Refused PROVE ShotIInv'
<1>1. ShotTypeOK /\ generation \in Nat
  BY DEF ShotIInv, ShotTypeOK
<1>2. Over.at = "none" /\ Over.call = 0 /\ Over.frame = NoFrame /\ Over.generation = 0
      /\ Over \in Shots
  BY <1>1, OverTyped
<1>3. ShotOK(Over, view, native)
  BY <1>2 DEF ShotOK, AimedOK, ImageOK, PictureOK, Aimed, Probed, Finished
<1> QED BY <1>1, <1>2, <1>3, StepKeeps DEF Refused

(* A request that begins, or begins again.                                 *)
LEMMA FreshKeeps ==
  ASSUME ShotIInv, NEW number \in Nat, NEW element \in BOOLEAN, NEW source \in Sources \cup {"none"},
         NEW auto \in BOOLEAN, NEW tries \in Nat,
         Step([NoShot EXCEPT !.at = "authorize", !.number = number, !.element = element,
                             !.source = source, !.auto = auto, !.attempt = tries])
  PROVE  ShotIInv'
<1> DEFINE new == [NoShot EXCEPT !.at = "authorize", !.number = number, !.element = element,
                             !.source = source, !.auto = auto, !.attempt = tries]
<1>1. new \in Shots
  BY NoFrameTyped DEF Shots, NoShot, Stages, Checked
<1>2. new.at = "authorize" /\ new.call = 0 /\ new.frame = NoFrame /\ new.generation = 0
  BY DEF NoShot
<1>3. ShotOK(new, view, native)
  BY <1>2 DEF ShotOK, AimedOK, ImageOK, PictureOK, Aimed, Probed, Finished
<1>4. generation \in Nat
  BY DEF ShotIInv, ShotTypeOK
<1> HIDE DEF new
<1>5. Step(new)
  BY DEF new
<1> QED BY <1>1, <1>2, <1>3, <1>4, <1>5, StepKeeps

LEMMA ChangedKeeps == ASSUME ShotIInv, Changed PROVE ShotIInv'
<1>1. CASE Refused
  BY <1>1, RefusalKeeps
<1>2. CASE ~Refused
  <2> DEFINE source == IF shot.auto THEN "webview_native" ELSE shot.source
             tries == IF shot.attempt < MaxAttempts THEN shot.attempt + 1 ELSE shot.attempt
  <2>1. /\ shot.number \in Nat /\ shot.element \in BOOLEAN /\ shot.auto \in BOOLEAN
        /\ source \in Sources \cup {"none"} /\ tries \in Nat
    BY DEF ShotIInv, ShotTypeOK, Shots, Sources
  <2>2. Step([NoShot EXCEPT !.at = "authorize", !.number = shot.number,
                 !.element = shot.element, !.source = source, !.auto = shot.auto,
                 !.attempt = tries])
    <3>1. [NoShot EXCEPT !.at = "authorize", !.number = shot.number,
                 !.element = shot.element, !.auto = shot.auto, !.source = source,
                 !.attempt = tries]
          = [NoShot EXCEPT !.at = "authorize", !.number = shot.number,
                 !.element = shot.element, !.source = source, !.auto = shot.auto,
                 !.attempt = tries]
      BY DEF NoShot
    <3> QED BY <1>2, <3>1 DEF Changed
  <2> HIDE DEF source, tries
  <2> QED BY <2>1, <2>2, FreshKeeps
<1> QED BY <1>1, <1>2

-----------------------------------------------------------------------------
(* The request goes to another stage and is to be checked there again.     *)
LEMMA ThenTyped ==
  ASSUME ShotTypeOK, NEW stage \in Stages
  PROVE  /\ Then(stage) \in Shots /\ Then(stage).at = stage /\ Then(stage).checked = "no"
         /\ Then(stage).call = shot.call /\ Then(stage).frame = shot.frame
         /\ Then(stage).before = shot.before /\ Then(stage).spot = shot.spot
         /\ Then(stage).context = shot.context /\ Then(stage).element = shot.element
         /\ Then(stage).generation = shot.generation
BY DEF ShotTypeOK, Then, Shots

LEMMA AuthorizeKeeps == ASSUME ShotIInv, Authorize PROVE ShotIInv'
<1>1. CASE Refused
  BY <1>1, RefusalKeeps
<1>2. CASE Step([shot EXCEPT !.at = "bind", !.generation = generation])
  <2> DEFINE new == [shot EXCEPT !.at = "bind", !.generation = generation]
  <2>1. new \in Shots
    BY DEF ShotIInv, ShotTypeOK, Shots, Stages
  <2>2. /\ new.at = "bind" /\ new.generation = generation /\ new.call = shot.call
        /\ new.frame = shot.frame
    BY DEF ShotIInv, ShotTypeOK, Shots
  <2>3. ShotOK(new, view, native)
    BY <2>2 DEF Authorize, ShotIInv, ShotOK, AimedOK, ImageOK, PictureOK, Aimed, Probed, Finished
  <2>4. generation \in Nat /\ Step(new)
    BY <1>2 DEF ShotIInv, ShotTypeOK
  <2> HIDE DEF new
  <2> QED BY <2>1, <2>2, <2>3, <2>4, StepKeeps
<1> QED BY <1>1, <1>2 DEF Authorize

LEMMA BindKeeps == ASSUME ShotIInv, Bind PROVE ShotIInv'
<1>1. CASE Refused
  BY <1>1, RefusalKeeps
<1>2. CASE ~Refused
  <2> DEFINE stage == IF shot.element THEN "target" ELSE "frame_ready"
             new == [shot EXCEPT !.at = stage, !.context = view.document]
  <2>1. stage \in Stages /\ view.document \in Nat
    BY DEF Stages, Checked, ShotIInv, ShotTypeOK, Pages
  <2>2. new \in Shots
    BY <2>1 DEF ShotIInv, ShotTypeOK, Shots
  <2>3. /\ new.at = stage /\ new.generation = shot.generation /\ new.call = shot.call
        /\ new.frame = shot.frame /\ new.element = shot.element
    BY DEF ShotIInv, ShotTypeOK, Shots
  <2>4. ShotOK(new, view, native)
    BY <2>3 DEF Bind, ShotIInv, ShotOK, AimedOK, ImageOK, PictureOK, Aimed, Probed, Finished
  <2>5. new.generation <= generation /\ Step(new)
    BY <1>2, <2>3 DEF Bind, ShotIInv, GenerationsOK
  <2> HIDE DEF new
  <2> QED BY <2>2, <2>4, <2>5, StepKeeps
<1> QED BY <1>1, <1>2

LEMMA TargetKeeps == ASSUME ShotIInv, TargetBegin PROVE ShotIInv'
<1>1. CASE Refused \/ Changed
  BY <1>1, RefusalKeeps, ChangedKeeps
<1>2. CASE ~(Refused \/ Changed)
  <2> DEFINE new == [shot EXCEPT !.at = "frame_ready", !.spot = view.spot]
  <2>1. new \in Shots
    BY DEF ShotIInv, ShotTypeOK, Shots, Stages, Checked, Pages
  <2>2. /\ new.at = "frame_ready" /\ new.generation = shot.generation /\ new.call = shot.call
        /\ new.frame = shot.frame /\ new.spot = view.spot /\ view.spot \in Nat
    BY DEF ShotIInv, ShotTypeOK, Shots, Pages
  <2>3. ShotOK(new, view, native)
    BY <2>2 DEF TargetBegin, ShotIInv, ShotOK, AimedOK, ImageOK, PictureOK, Aimed, Probed, Finished
  <2>4. new.generation <= generation /\ Step(new)
    BY <1>2, <2>2 DEF TargetBegin, ShotIInv, GenerationsOK
  <2> HIDE DEF new
  <2> QED BY <2>1, <2>3, <2>4, StepKeeps
<1> QED BY <1>1, <1>2

LEMMA CheckAuthorizationKeeps == ASSUME ShotIInv, CheckAuthorization PROVE ShotIInv'
<1>1. CASE Refused
  BY <1>1, RefusalKeeps
<1>2. CASE ~Refused
  <2> DEFINE new == [shot EXCEPT !.checked = "authorized"]
  <2>1. new \in Shots
    BY DEF ShotIInv, ShotTypeOK, Shots
  <2>2. /\ new.at = shot.at /\ new.generation = shot.generation /\ new.call = shot.call
        /\ new.frame = shot.frame /\ new.spot = shot.spot /\ new.checked = "authorized"
        /\ new.before = shot.before /\ new.context = shot.context
        /\ new.element = shot.element
    BY DEF ShotIInv, ShotTypeOK, Shots
  <2>3. ShotOK(new, view, native)
    BY <2>2 DEF ShotIInv, ShotOK, AimedOK, ImageOK, PictureOK
  <2>4. new.generation <= generation /\ Step(new)
    BY <1>2, <2>2 DEF CheckAuthorization, ShotIInv, GenerationsOK
  <2> HIDE DEF new
  <2> QED BY <2>1, <2>3, <2>4, StepKeeps
<1> QED BY <1>1, <1>2

(* An element that is where it was bound after the image was there on it.  *)
LEMMA CheckPageKeeps == ASSUME ShotIInv, CheckPage PROVE ShotIInv'
<1>1. CASE Refused \/ Changed
  BY <1>1, RefusalKeeps, ChangedKeeps
<1>2. CASE ~(Refused \/ Changed)
  <2> DEFINE new == [shot EXCEPT !.checked = "yes"]
  <2>1. new \in Shots
    BY DEF ShotIInv, ShotTypeOK, Shots
  <2>2. /\ new.at = shot.at /\ new.generation = shot.generation /\ new.call = shot.call
        /\ new.frame = shot.frame /\ new.spot = shot.spot /\ new.checked = "yes"
        /\ new.before = shot.before /\ new.context = shot.context
        /\ new.element = shot.element
    BY DEF ShotIInv, ShotTypeOK, Shots
  <2>3. Validates /\ Step(new)
    BY <1>2 DEF CheckPage
  <2>4. AimedOK(new, view) /\ ImageOK(new, view, native)
    BY <2>2 DEF ShotIInv, ShotOK, AimedOK, ImageOK
  <2>5. ASSUME shot.at = "reprobe", shot.element, shot.frame # NoFrame
        PROVE  shot.frame.spot = shot.spot
    <3>1. view.spot = shot.spot /\ shot.spot <= shot.before.spot
      BY <2>3, <2>5 DEF Validates, ShotIInv, ShotOK, AimedOK, Probed
    <3>2. shot.before.spot <= shot.frame.spot /\ shot.frame.spot <= view.spot
      BY <2>5 DEF ShotIInv, ShotOK, ImageOK, Between, Follows
    <3>3. shot.spot \in Nat /\ shot.before.spot \in Nat /\ shot.frame.spot \in Nat
      BY DEF ShotIInv, ShotTypeOK, Shots, Frames
    <3> QED BY <3>1, <3>2, <3>3
  <2>6. PictureOK(new)
    BY <2>2, <2>5 DEF ShotIInv, ShotOK, PictureOK
  <2>7. new.generation <= generation /\ Step(new)
    BY <2>2, <2>3 DEF ShotIInv, GenerationsOK
  <2> HIDE DEF new
  <2> QED BY <2>1, <2>4, <2>6, <2>7, StepKeeps DEF ShotOK
<1> QED BY <1>1, <1>2

LEMMA FrameReadyKeeps == ASSUME ShotIInv, FrameReady PROVE ShotIInv'
<1>1. CASE Refused \/ Changed
  BY <1>1, RefusalKeeps, ChangedKeeps
<1>2. CASE ~(Refused \/ Changed)
  <2>1. "probe" \in Stages /\ ShotTypeOK
    BY DEF Stages, Checked, ShotIInv
  <2>2. PICK new \in Shots : new = Then("probe")
    BY <2>1, ThenTyped
  <2>3. /\ new.at = "probe" /\ new.generation = shot.generation /\ new.call = shot.call
        /\ new.frame = shot.frame /\ new.spot = shot.spot /\ new.element = shot.element
    BY <2>1, <2>2, ThenTyped
  <2>4. ShotOK(new, view, native)
    BY <2>3 DEF FrameReady, Passed, ShotIInv, ShotOK, AimedOK, ImageOK, PictureOK, Aimed,
                Probed, Finished
  <2>5. new.generation <= generation /\ Step(new)
    BY <1>2, <2>2, <2>3 DEF FrameReady, ShotIInv, GenerationsOK
  <2> QED BY <2>4, <2>5, StepKeeps
<1> QED BY <1>1, <1>2

LEMMA ProbeKeeps == ASSUME ShotIInv, ProbeLook PROVE ShotIInv'
<1>1. CASE Refused \/ Changed
  BY <1>1, RefusalKeeps, ChangedKeeps
<1>2. CASE ~(Refused \/ Changed)
  <2>1. "capture" \in Stages /\ ShotTypeOK
    BY DEF Stages, Checked, ShotIInv
  <2>2. PICK old \in Shots : old = Then("capture")
    BY <2>1, ThenTyped
  <2>3. /\ old.at = "capture" /\ old.generation = shot.generation /\ old.call = shot.call
        /\ old.frame = shot.frame /\ old.spot = shot.spot /\ old.element = shot.element
        /\ old.context = shot.context
    BY <2>1, <2>2, ThenTyped
  <2> DEFINE new == [old EXCEPT !.before = View]
  <2>4. /\ View \in Frames /\ View.document = view.document /\ View.spot = view.spot
        /\ View.maskable = view.maskable /\ Follows(View, view)
    BY <2>1, ViewTyped
  <2>5. new \in Shots
    BY <2>4 DEF Shots
  <2>6. /\ new.at = "capture" /\ new.generation = shot.generation /\ new.call = shot.call
        /\ new.frame = shot.frame /\ new.spot = shot.spot /\ new.element = shot.element
        /\ new.context = shot.context /\ new.before = View
    BY <2>3 DEF Shots
  <2>7. Step(new) /\ SameDocument /\ view.maskable /\ shot.at = "probe"
    BY <1>2, <2>2 DEF ProbeLook, Passed
  <2>8. AimedOK(new, view)
    BY <2>4, <2>6, <2>7 DEF ShotIInv, ShotOK, AimedOK, Aimed, Probed, Finished, SameDocument
  <2>9. shot.call = 0 /\ shot.frame = NoFrame
    BY <2>7 DEF ShotIInv, ShotOK, AimedOK, ImageOK, Probed, Finished
  <2>10. \A c \in native : c.permit # 0
    BY <2>1 DEF ShotTypeOK, Callbacks
  <2>11. ImageOK(new, view, native) /\ PictureOK(new)
    BY <2>6, <2>9, <2>10 DEF ImageOK, PictureOK, Finished
  <2>12. new.generation <= generation
    BY <2>6 DEF ShotIInv, GenerationsOK
  <2> HIDE DEF new
  <2> QED BY <2>5, <2>7, <2>8, <2>11, <2>12, StepKeeps DEF ShotOK
<1> QED BY <1>1, <1>2

-----------------------------------------------------------------------------
(* An image is taken, or fails, and is to be probed again.                 *)
LEMMA ImageKeeps ==
  ASSUME ShotIInv, shot.at = "capture", NEW image \in Frames,
         Between(shot.before, image, view), NEW new, new = [Then("reprobe") EXCEPT !.frame = image]
  PROVE  /\ new \in Shots /\ ShotOK(new, view, native)
         /\ new.generation = shot.generation
<1>1. "reprobe" \in Stages /\ ShotTypeOK
  BY DEF Stages, Checked, ShotIInv
<1>2. PICK old \in Shots : old = Then("reprobe")
  BY <1>1, ThenTyped
<1>3. /\ old.at = "reprobe" /\ old.generation = shot.generation /\ old.call = shot.call
      /\ old.spot = shot.spot /\ old.element = shot.element
      /\ old.context = shot.context /\ old.before = shot.before /\ old.checked = "no"
  BY <1>1, <1>2, ThenTyped
<1>4. new \in Shots
  BY <1>2 DEF Shots
<1>5. /\ new.at = "reprobe" /\ new.generation = shot.generation /\ new.call = shot.call
      /\ new.spot = shot.spot /\ new.element = shot.element
      /\ new.context = shot.context /\ new.before = shot.before /\ new.checked = "no"
      /\ new.frame = image
  BY <1>2, <1>3 DEF Shots
<1>6. AimedOK(new, view)
  BY <1>5 DEF ShotIInv, ShotOK, AimedOK, Aimed, Probed
<1>7. ImageOK(new, view, native) /\ PictureOK(new)
  BY <1>5 DEF ImageOK, PictureOK, Finished
<1> QED BY <1>4, <1>5, <1>6, <1>7 DEF ShotOK

LEMMA FailureKeeps ==
  ASSUME ShotIInv, shot.at = "capture", Step(Then("reprobe"))
  PROVE  ShotIInv'
<1>1. "reprobe" \in Stages /\ ShotTypeOK /\ shot.frame = NoFrame
  BY DEF Stages, Checked, ShotIInv, ShotOK, ImageOK, Finished
<1>2. PICK old \in Shots : old = Then("reprobe")
  BY <1>1, ThenTyped
<1>3. old = [old EXCEPT !.frame = NoFrame]
  BY <1>1, <1>2, ThenTyped DEF Shots
<1>4. Between(shot.before, NoFrame, view)
  BY DEF Between
<1>5. old \in Shots /\ ShotOK(old, view, native) /\ old.generation = shot.generation
  BY <1>2, <1>3, <1>4, NoFrameTyped, ImageKeeps
<1> QED BY <1>2, <1>5, StepKeeps DEF ShotIInv, GenerationsOK

LEMMA CaptureOtherKeeps == ASSUME ShotIInv, CaptureOther PROVE ShotIInv'
<1>1. CASE Step(Then("reprobe"))
  BY <1>1, FailureKeeps DEF CaptureOther, Passed
<1>2. CASE Step([Then("reprobe") EXCEPT !.frame = View])
  <2>1. View \in Frames /\ Follows(View, view)
    BY ViewTyped DEF ShotIInv
  <2>2. Follows(shot.before, View)
    BY ViewTyped DEF CaptureOther, Passed, ShotIInv, ShotOK, AimedOK, Probed, Follows
  <2>3. PICK new : new = [Then("reprobe") EXCEPT !.frame = View]
    OBVIOUS
  <2>4. new \in Shots /\ ShotOK(new, view, native) /\ new.generation = shot.generation
    BY <2>1, <2>2, <2>3, ImageKeeps DEF Between, CaptureOther, Passed
  <2> QED BY <1>2, <2>3, <2>4, StepKeeps DEF ShotIInv, GenerationsOK
<1> QED BY <1>1, <1>2 DEF CaptureOther

(* The probe after the image: what was probed before and after was there   *)
(* in between.                                                             *)
LEMMA LookTold ==
  ASSUME ShotIInv, shot.at \in Probed, SameLook
  PROVE  view.look = shot.before.look /\ view.document = shot.before.document
<1>1. shot.before \in Frames /\ View \in Frames /\ View.look = view.look
      /\ View.document = view.document
  BY ViewTyped DEF ShotIInv, ShotTypeOK, Shots
<1>2. [View EXCEPT !.spot = 0].look = View.look /\ [View EXCEPT !.spot = 0].document = View.document
  BY <1>1 DEF Frames
<1>3. /\ [shot.before EXCEPT !.spot = 0].look = shot.before.look
      /\ [shot.before EXCEPT !.spot = 0].document = shot.before.document
  BY <1>1 DEF Frames
<1> QED BY <1>1, <1>2, <1>3 DEF SameLook

LEMMA FinishKeeps ==
  ASSUME ShotIInv, Passed("reprobe"), SameLook, shot.frame # NoFrame, Step(Then("finish"))
  PROVE  ShotIInv'
<1>1. "finish" \in Stages /\ ShotTypeOK /\ shot.at = "reprobe" /\ shot.checked = "yes"
  BY DEF Stages, Checked, ShotIInv, Passed
<1>2. PICK new \in Shots : new = Then("finish")
  BY <1>1, ThenTyped
<1>3. /\ new.at = "finish" /\ new.generation = shot.generation /\ new.call = shot.call
      /\ new.frame = shot.frame /\ new.spot = shot.spot /\ new.element = shot.element
      /\ new.context = shot.context /\ new.before = shot.before
  BY <1>1, <1>2, ThenTyped
<1>4. view.look = shot.before.look /\ view.document = shot.before.document
  BY <1>1, LookTold DEF Probed
<1>5. Follows(shot.before, shot.frame) /\ Follows(shot.frame, view)
  BY <1>1 DEF ShotIInv, ShotOK, ImageOK, Between
<1>6. shot.before.document = shot.context /\ shot.before.maskable
  BY <1>1 DEF ShotIInv, ShotOK, AimedOK, Probed
<1>7. shot.before \in Frames /\ shot.frame \in Frames /\ view \in Pages
  BY DEF ShotIInv, ShotTypeOK, Shots
<1>8. shot.frame.look = shot.before.look /\ shot.frame.document = shot.context
      /\ shot.frame.maskable
  <2>1. shot.frame.look = shot.before.look /\ shot.frame.document = shot.before.document
    BY <1>4, <1>5, <1>7 DEF Follows, Frames, Pages
  <2> QED BY <1>5, <1>6, <2>1 DEF Follows
<1>9. shot.element => shot.frame.spot = shot.spot
  BY <1>1 DEF ShotIInv, ShotOK, PictureOK
<1>10. AimedOK(new, view)
  BY <1>1, <1>3 DEF ShotIInv, ShotOK, AimedOK, Aimed, Probed, Finished
<1>11. ImageOK(new, view, native) /\ PictureOK(new)
  BY <1>3, <1>8, <1>9 DEF ImageOK, PictureOK, Finished
<1>12. new.generation <= generation /\ Step(new)
  BY <1>2, <1>3 DEF ShotIInv, GenerationsOK
<1> QED BY <1>10, <1>11, <1>12, StepKeeps DEF ShotOK

LEMMA NextSourceKeeps ==
  ASSUME ShotIInv, Passed("reprobe"), NextSource # "none",
         Step([Then("capture") EXCEPT !.source = NextSource, !.call = 0, !.frame = NoFrame])
  PROVE  ShotIInv'
<1>1. "capture" \in Stages /\ ShotTypeOK /\ shot.at = "reprobe"
  BY DEF Stages, Checked, ShotIInv, Passed
<1>2. PICK old \in Shots : old = Then("capture")
  BY <1>1, ThenTyped
<1>3. /\ old.at = "capture" /\ old.generation = shot.generation
      /\ old.spot = shot.spot /\ old.element = shot.element
      /\ old.context = shot.context /\ old.before = shot.before /\ old.checked = "no"
  BY <1>1, <1>2, ThenTyped
<1> DEFINE new == [old EXCEPT !.source = NextSource, !.call = 0, !.frame = NoFrame]
<1>4. NextSource \in Sources
  BY DEF NextSource, Sources
<1>5. new \in Shots
  BY <1>4, NoFrameTyped DEF Shots
<1>6. /\ new.at = "capture" /\ new.generation = shot.generation /\ new.call = 0
      /\ new.frame = NoFrame /\ new.spot = shot.spot /\ new.element = shot.element
      /\ new.context = shot.context /\ new.before = shot.before /\ new.checked = "no"
  BY <1>3 DEF Shots
<1>7. AimedOK(new, view)
  BY <1>1, <1>6 DEF ShotIInv, ShotOK, AimedOK, Aimed, Probed
<1>8. ImageOK(new, view, native) /\ PictureOK(new)
  BY <1>1, <1>6 DEF ImageOK, PictureOK, Finished, ShotTypeOK, Callbacks
<1>9. new.generation <= generation /\ Step(new)
  BY <1>2, <1>6 DEF ShotIInv, GenerationsOK
<1> HIDE DEF new
<1> QED BY <1>5, <1>7, <1>8, <1>9, StepKeeps DEF ShotOK

LEMMA ReprobeKeeps == ASSUME ShotIInv, Reprobe PROVE ShotIInv'
<1>1. CASE Refused \/ Changed
  BY <1>1, RefusalKeeps, ChangedKeeps
<1>2. CASE ~(Refused \/ Changed)
  BY <1>2, FinishKeeps, NextSourceKeeps DEF Reprobe
<1> QED BY <1>1, <1>2

LEMMA ReleaseKeeps == ASSUME ShotIInv, TargetRelease PROVE ShotIInv'
<1>1. CASE Refused
  BY <1>1, RefusalKeeps
<1>2. CASE ~Refused
  <2> DEFINE new == [shot EXCEPT !.at = "retain"]
  <2>1. new \in Shots
    BY DEF ShotIInv, ShotTypeOK, Shots, Stages
  <2>2. /\ new.at = "retain" /\ new.generation = shot.generation /\ new.call = shot.call
        /\ new.frame = shot.frame /\ new.spot = shot.spot /\ new.element = shot.element
        /\ new.context = shot.context /\ new.before = shot.before
    BY DEF ShotIInv, ShotTypeOK, Shots
  <2>3. shot.at = "finish"
    BY DEF TargetRelease, Passed
  <2>4. AimedOK(new, view)
    BY <2>2, <2>3 DEF ShotIInv, ShotOK, AimedOK, Aimed, Probed, Finished
  <2>5. ImageOK(new, view, native) /\ PictureOK(new)
    BY <2>2, <2>3 DEF ShotIInv, ShotOK, ImageOK, PictureOK, Finished
  <2>6. new.generation <= generation /\ Step(new)
    BY <1>2, <2>2 DEF TargetRelease, ShotIInv, GenerationsOK
  <2> HIDE DEF new
  <2> QED BY <2>1, <2>4, <2>5, <2>6, StepKeeps DEF ShotOK
<1> QED BY <1>1, <1>2

-----------------------------------------------------------------------------
(* Callbacks                                                               *)

LEMMA PermitsInOrder ==
  ASSUME NEW S \in SUBSET Nat, S # {}
  PROVE  \E n \in S : \A m \in S : n <= m
<1>1. PICK n \in S : \A m \in S : ~ (<<m, n>> \in OpToRel(<, Nat))
  BY WFMin, NatLessThanWellFounded, Zenon
<1>2. \A m \in S : ~(m < n)
  BY <1>1 DEF OpToRel
<1> QED BY <1>2

LEMMA CallKeeps == ASSUME ShotIInv, CallNative PROVE ShotIInv'
<1> USE DEF ShotIInv
<1>1. PICK permit : permit = CHOOSE p \in Permits : \A q \in Permits : p <= q
  OBVIOUS
<1>2. permit \in Permits
  <2>1. Permits \subseteq Nat /\ Permits # {}
    BY ScreenshotConstants DEF CallNative, Permits
  <2>2. \E p \in Permits : \A q \in Permits : p <= q
    BY <2>1, PermitsInOrder
  <2> QED BY <1>1, <2>2
<1>3. permit \in Nat \ {0} /\ \A c \in native : c.permit # permit
  BY <1>2, ScreenshotConstants DEF Permits
<1>4. /\ native' = native \cup {[permit |-> permit, frame |-> NoFrame]}
      /\ shot' = [shot EXCEPT !.call = permit]
      /\ UNCHANGED <<view, artifacts, used, generation, clock, promised, trouble>>
      /\ shot.at = "capture"
  BY <1>1 DEF CallNative, Passed
<1>5. /\ shot' \in Shots /\ shot'.at = shot.at /\ shot'.generation = shot.generation
      /\ shot'.call = permit
      /\ shot'.spot = shot.spot /\ shot'.element = shot.element /\ shot'.frame = shot.frame
      /\ shot'.context = shot.context /\ shot'.before = shot.before
      /\ shot'.checked = shot.checked
  BY <1>3, <1>4 DEF ShotTypeOK, Shots
<1>6. native' \subseteq Callbacks
  BY <1>3, <1>4, NoFrameTyped DEF ShotTypeOK, Callbacks
<1>7. ShotTypeOK'
  BY <1>4, <1>5, <1>6 DEF ShotTypeOK
<1>8. AimedOK(shot, view)' /\ PictureOK(shot)'
  BY <1>4, <1>5 DEF ShotOK, AimedOK, PictureOK, Probed
<1>9. ImageOK(shot, view, native)'
  BY <1>3, <1>4, <1>5 DEF ShotOK, ImageOK, Between, Finished
<1>10. GenerationsOK' /\ StoreOK' /\ PromisesOK'
  BY <1>4, <1>5 DEF GenerationsOK, StoreOK, PromisesOK
<1> QED BY <1>7, <1>8, <1>9, <1>10 DEF ShotOK

LEMMA SnapshotKeeps == ASSUME ShotIInv, Snapshot PROVE ShotIInv'
<1> USE DEF ShotIInv
<1>1. PICK c \in native :
        /\ c.frame = NoFrame
        /\ native' = (native \ {c}) \cup {[c EXCEPT !.frame = View]}
        /\ UNCHANGED <<view, shot, artifacts, used, generation, clock, promised, trouble>>
  BY DEF Snapshot
<1>2. PICK d : d = [c EXCEPT !.frame = View]
  OBVIOUS
<1>3. /\ View \in Frames /\ Follows(View, view) /\ View.document = view.document
      /\ View.look = view.look /\ View.spot = view.spot /\ View.maskable = view.maskable
  BY ViewTyped
<1>4. d \in Callbacks /\ d.permit = c.permit /\ d.frame = View
  BY <1>2, <1>3 DEF ShotTypeOK, Callbacks
<1>5. ShotTypeOK'
  BY <1>1, <1>2, <1>4 DEF ShotTypeOK
<1>6. AimedOK(shot, view)' /\ PictureOK(shot)'
  BY <1>1 DEF ShotOK, AimedOK, PictureOK
<1>7. shot.at = "capture" => Between(shot.before, View, view)
  BY <1>3 DEF ShotOK, AimedOK, Probed, Between, Follows
<1>8. ImageOK(shot, view, native)'
  BY <1>1, <1>2, <1>4, <1>7 DEF ShotOK, ImageOK, Between
<1>9. GenerationsOK' /\ StoreOK' /\ PromisesOK'
  BY <1>1 DEF GenerationsOK, StoreOK, PromisesOK
<1> QED BY <1>5, <1>6, <1>8, <1>9 DEF ShotOK

LEMMA FinishCallbackKeeps == ASSUME ShotIInv, FinishCallback PROVE ShotIInv'
<1> USE DEF ShotIInv
<1>1. PICK c \in native :
        /\ native' = native \ {c}
        /\ shot' = IF Awaited(c) THEN [Then("reprobe") EXCEPT !.frame = c.frame] ELSE shot
        /\ UNCHANGED <<view, artifacts, used, generation, clock, promised, trouble>>
  BY DEF FinishCallback
<1>2. c \in Callbacks /\ c.frame \in Frames
  BY DEF ShotTypeOK, Callbacks
<1>3. /\ shot' \in Shots /\ ShotOK(shot', view, native)
      /\ shot'.generation = shot.generation
  <2>1. CASE Awaited(c)
    <3>1. shot.at = "capture" /\ Between(shot.before, c.frame, view)
      BY <2>1 DEF Awaited, Passed, ShotOK, ImageOK
    <3> QED BY <1>1, <1>2, <2>1, <3>1, ImageKeeps
  <2>2. CASE ~Awaited(c)
    BY <1>1, <2>2 DEF ShotTypeOK
  <2> QED BY <2>1, <2>2
<1>4. ShotTypeOK'
  BY <1>1, <1>3 DEF ShotTypeOK
<1>5. ShotOK(shot, view, native)'
  BY <1>1, <1>3 DEF ShotOK, AimedOK, PictureOK, ImageOK
<1>6. GenerationsOK' /\ StoreOK' /\ PromisesOK'
  BY <1>1, <1>3 DEF GenerationsOK, StoreOK, PromisesOK
<1> QED BY <1>4, <1>5, <1>6

-----------------------------------------------------------------------------
(* The store: what leaves it is no longer charged.                         *)
LEMMA StoreShrinks ==
  ASSUME ShotIInv, NEW kept \in SUBSET artifacts
  PROVE  /\ IsFiniteSet(kept) /\ Cardinality(kept) \in Nat
         /\ Cardinality(artifacts \ kept) \in Nat
         /\ Cardinality(kept) <= used - Cardinality(artifacts \ kept)
<1>1. IsFiniteSet(artifacts) /\ Cardinality(artifacts) <= used /\ used \in Nat
  BY DEF ShotIInv, StoreOK, ShotTypeOK
<1>2. IsFiniteSet(kept)
  BY <1>1, FS_Subset
<1>3. artifacts \cap kept = kept
  OBVIOUS
<1>4. /\ IsFiniteSet(artifacts \ kept)
      /\ Cardinality(artifacts \ kept) = Cardinality(artifacts) - Cardinality(kept)
  BY <1>1, <1>3, FS_Difference
<1>5. /\ Cardinality(kept) \in Nat /\ Cardinality(artifacts) \in Nat
      /\ Cardinality(artifacts \ kept) \in Nat
  BY <1>1, <1>2, <1>4, FS_CardinalityType
<1> QED BY <1>1, <1>2, <1>4, <1>5

(* Images leave the store that no promise of the current credential needs. *)
LEMMA ImagesLeave ==
  ASSUME ShotIInv, NEW kept \in SUBSET artifacts,
         \A p \in promised : p.until > clock /\ p.generation = generation => p \in kept,
         artifacts' = kept, used' = used - Cardinality(artifacts \ kept),
         UNCHANGED <<view, native, generation, clock, promised, trouble>>,
         shot' \in Shots, ShotOK(shot', view, native), shot'.generation <= generation
  PROVE  ShotIInv'
<1> USE DEF ShotIInv
<1>1. /\ IsFiniteSet(kept) /\ Cardinality(kept) \in Nat
      /\ Cardinality(artifacts \ kept) \in Nat
      /\ Cardinality(kept) <= used - Cardinality(artifacts \ kept)
  BY StoreShrinks
<1>2. StoreOK' /\ used' \in Nat
  BY <1>1, ScreenshotConstants DEF StoreOK, ShotTypeOK
<1>3. ShotTypeOK'
  BY <1>2 DEF ShotTypeOK
<1>4. ShotOK(shot, view, native)'
  BY DEF ShotOK, AimedOK, PictureOK, ImageOK
<1>5. GenerationsOK' /\ PromisesOK'
  BY DEF GenerationsOK, PromisesOK
<1> QED BY <1>2, <1>3, <1>4, <1>5

LEMMA ReapKeeps == ASSUME ShotIInv, Reap \/ Prune PROVE ShotIInv'
<1>1. PICK kept \in SUBSET artifacts : kept = Live(artifacts)
  BY DEF Live
<1>2. \A p \in promised : p.until > clock /\ p.generation = generation => p \in kept
  BY <1>1 DEF ShotIInv, PromisesOK, Live
<1>3. /\ artifacts' = kept /\ used' = used - Cardinality(artifacts \ kept)
      /\ UNCHANGED <<view, shot, native, generation, clock, promised, trouble>>
  BY <1>1 DEF Reap, Prune
<1>4. shot' \in Shots /\ ShotOK(shot', view, native) /\ shot'.generation <= generation
  BY <1>3 DEF ShotIInv, ShotTypeOK, GenerationsOK
<1> QED BY <1>2, <1>3, <1>4, ImagesLeave

LEMMA RetainKeeps == ASSUME ShotIInv, Retain PROVE ShotIInv'
<1> USE DEF ShotIInv
<1> DEFINE room == Cardinality(Live(artifacts)) < Retained
           image == [shot |-> shot.number, generation |-> shot.generation,
                     until |-> clock + ArtifactTTL]
<1>1. PICK kept \in SUBSET artifacts : kept = IF used < Memory THEN Live(artifacts) ELSE artifacts
  BY DEF Live
<1>2. PICK new : new = IF used < Memory /\ room THEN {image} ELSE {}
  OBVIOUS
<1>3. /\ artifacts' = kept \cup new
      /\ used' = (used + Cardinality(new)) - Cardinality(artifacts \ kept)
      /\ shot' = [shot EXCEPT !.at = "reply"] /\ shot.at = "retain"
      /\ UNCHANGED <<view, native, generation, clock, promised, trouble>>
  BY <1>1, <1>2 DEF Retain
<1>4. image \in Images /\ image.generation = shot.generation
  BY DEF ShotTypeOK, Shots, Images, ArtifactTTL
<1>5. /\ IsFiniteSet(kept) /\ Cardinality(kept) \in Nat
      /\ Cardinality(artifacts \ kept) \in Nat
      /\ Cardinality(kept) <= used - Cardinality(artifacts \ kept)
  BY StoreShrinks
<1>6. /\ IsFiniteSet(new) /\ Cardinality(new) \in {0, 1}
      /\ Cardinality(new) = 1 => used < Memory
  BY <1>2, FS_EmptySet, FS_Singleton
<1>7. /\ IsFiniteSet(kept \cup new)
      /\ Cardinality(kept \cup new) <= Cardinality(kept) + Cardinality(new)
  <2>1. IsFiniteSet(kept \cap new)
    BY <1>5, FS_Intersection
  <2>2. Cardinality(kept \cap new) \in Nat
    BY <2>1, FS_CardinalityType
  <2>3. /\ IsFiniteSet(kept \cup new)
        /\ Cardinality(kept \cup new)
             = Cardinality(kept) + Cardinality(new) - Cardinality(kept \cap new)
    BY <1>5, <1>6, FS_Union
  <2> QED BY <1>5, <1>6, <2>2, <2>3
<1>8. Cardinality(kept \cup new) \in Nat
  BY <1>7, FS_CardinalityType
<1>9. StoreOK' /\ used' \in Nat
  BY <1>3, <1>5, <1>6, <1>7, <1>8, ScreenshotConstants DEF StoreOK, ShotTypeOK
<1>10. /\ shot' \in Shots /\ shot'.at = "reply" /\ shot'.generation = shot.generation
       /\ shot'.call = shot.call
       /\ shot'.spot = shot.spot /\ shot'.element = shot.element /\ shot'.frame = shot.frame
       /\ shot'.context = shot.context /\ shot'.before = shot.before
       /\ shot'.checked = shot.checked
  BY <1>3 DEF ShotTypeOK, Shots, Stages
<1>11. ShotTypeOK'
  BY <1>2, <1>3, <1>4, <1>9, <1>10 DEF ShotTypeOK
<1>12. AimedOK(shot, view)'
  BY <1>3, <1>10 DEF ShotOK, AimedOK, Aimed, Probed, Finished
<1>13. ImageOK(shot, view, native)' /\ PictureOK(shot)'
  BY <1>3, <1>10 DEF ShotOK, ImageOK, PictureOK, Finished
<1>14. GenerationsOK'
  BY <1>2, <1>3, <1>4, <1>10 DEF GenerationsOK
<1>15. PromisesOK'
  BY <1>1, <1>3 DEF PromisesOK, Live
<1> QED BY <1>9, <1>11, <1>12, <1>13, <1>14, <1>15 DEF ShotOK

LEMMA HandOutKeeps == ASSUME ShotIInv, HandOut PROVE ShotIInv'
<1>1. ShotTypeOK /\ generation \in Nat /\ shot' = Over
  BY DEF ShotIInv, ShotTypeOK, HandOut
<1>2. Over.at = "none" /\ Over.call = 0 /\ Over.frame = NoFrame /\ Over.generation = 0
      /\ Over \in Shots
  BY <1>1, OverTyped
<1>3. ShotOK(shot', view, native)
  BY <1>1, <1>2 DEF ShotOK, AimedOK, ImageOK, PictureOK, Aimed, Probed, Finished
<1>4. shot' \in Shots /\ shot'.generation <= generation
  BY <1>1, <1>2
<1>5. CASE shot.generation = generation
  <2> USE DEF ShotIInv
  <2>1. UNCHANGED <<artifacts, used, view, native, generation, clock, trouble>>
        /\ promised' = promised \cup Kept
    BY <1>5 DEF HandOut
  <2>2. Kept \subseteq artifacts
    BY DEF Kept
  <2>3. ShotTypeOK'
    BY <1>4, <2>1, <2>2 DEF ShotTypeOK
  <2>4. ShotOK(shot, view, native)'
    BY <1>3, <2>1 DEF ShotOK, AimedOK, PictureOK, ImageOK
  <2>5. StoreOK' /\ GenerationsOK' /\ PromisesOK'
    BY <1>4, <2>1, <2>2 DEF StoreOK, GenerationsOK, PromisesOK
  <2> QED BY <2>3, <2>4, <2>5
<1>6. CASE shot.generation # generation
  <2>1. PICK kept \in SUBSET artifacts :
          kept = {a \in artifacts : a.generation # shot.generation}
    OBVIOUS
  <2>2. \A p \in promised : p.until > clock /\ p.generation = generation => p \in kept
    BY <1>6, <2>1 DEF ShotIInv, PromisesOK
  <2>3. /\ artifacts' = kept /\ used' = used - Cardinality(artifacts \ kept)
        /\ UNCHANGED <<view, native, generation, clock, promised, trouble>>
    BY <1>6, <2>1 DEF HandOut
  <2> QED BY <1>3, <1>4, <2>2, <2>3, ImagesLeave
<1> QED BY <1>5, <1>6

-----------------------------------------------------------------------------
(* The page and its surroundings                                           *)

(* The page goes on, and nothing of the request, or of what is kept, does. *)
LEMMA SurroundingsKeep ==
  ASSUME ShotIInv, view' \in Pages,
         view.document <= view'.document, view.look <= view'.look, view.spot <= view'.spot,
         view.look = view'.look => view.maskable = view'.maskable,
         generation' \in Nat, generation <= generation', clock' \in Nat, clock <= clock',
         used' \in Nat, used <= used', used' <= Memory, trouble' \in Nat,
         UNCHANGED <<shot, native, artifacts, promised>>
  PROVE  ShotIInv'
<1> USE DEF ShotIInv
<1>1. ShotTypeOK'
  BY DEF ShotTypeOK
<1>2. shot \in Shots /\ view \in Pages /\ native \in SUBSET Callbacks
  BY DEF ShotTypeOK
<1>3. ShotOK(shot, view', native)
  BY <1>2, PageGoesOn
<1>4. ShotOK(shot, view, native)'
  BY <1>3 DEF ShotOK, AimedOK, PictureOK, ImageOK
<1>5. GenerationsOK'
  BY DEF GenerationsOK, ShotTypeOK, Shots, Images
<1>6. StoreOK'
  <2>1. Cardinality(artifacts) \in Nat
    BY FS_CardinalityType DEF StoreOK
  <2> QED BY <2>1, ScreenshotConstants DEF StoreOK, ShotTypeOK
<1>7. PromisesOK'
  BY DEF PromisesOK, GenerationsOK, ShotTypeOK, Images
<1> QED BY <1>1, <1>4, <1>5, <1>6, <1>7

LEMMA TroubleKeeps == ASSUME ShotIInv, Trouble PROVE ShotIInv'
<1> USE ScreenshotConstants
<1>1. /\ trouble' \in Nat /\ view \in Pages /\ generation \in Nat /\ clock \in Nat
      /\ used \in Nat /\ used <= Memory
      /\ UNCHANGED <<shot, native, artifacts, promised>>
  BY DEF Trouble, ShotIInv, ShotTypeOK, StoreOK
<1>2. CASE Redraw
  <2>1. PICK maskable \in BOOLEAN : view' = [view EXCEPT !.look = @ + 1, !.maskable = maskable]
    BY <1>2 DEF Redraw
  <2>2. view.look \in Nat /\ view.document \in Nat \ {0} /\ view.spot \in Nat
    BY <1>1 DEF Pages
  <2>3. view'.look = view.look + 1 /\ view'.document = view.document
        /\ view'.spot = view.spot
    BY <1>1, <2>1 DEF Pages
  <2>4. view' \in Pages
    <3>1. view.look + 1 \in Nat
      BY <2>2
    <3> QED BY <1>1, <2>1, <3>1, Zenon DEF Pages
  <2>5. UNCHANGED <<generation, clock, used>>
    BY <1>2 DEF Redraw
  <2> QED BY <1>1, <2>2, <2>3, <2>4, <2>5, SurroundingsKeep
<1>3. CASE MoveElement
  <2>1. view' \in Pages /\ view'.spot = view.spot + 1 /\ view'.document = view.document
        /\ view'.look = view.look /\ view'.maskable = view.maskable /\ view.spot \in Nat
        /\ view.document \in Nat /\ view.look \in Nat
    BY <1>1, <1>3 DEF MoveElement, Pages
  <2>2. UNCHANGED <<generation, clock, used>>
    BY <1>3 DEF MoveElement
  <2> QED BY <1>1, <2>1, <2>2, SurroundingsKeep
<1>4. CASE PageNavigates
  <2>1. view.look \in Nat /\ view.document \in Nat \ {0} /\ view.spot \in Nat
    BY <1>1 DEF Pages
  <2>2. view'.document = view.document + 1 /\ view'.spot = view.spot
        /\ view'.look = view.look /\ view'.maskable = view.maskable
    BY <1>1, <1>4 DEF PageNavigates, Pages
  <2>3. view' \in Pages
    <3>1. view.document + 1 \in Nat \ {0}
      BY <2>1
    <3> QED BY <1>1, <1>4, <3>1, Zenon DEF PageNavigates, Pages
  <2>4. UNCHANGED <<generation, clock, used>>
    BY <1>4 DEF PageNavigates
  <2> QED BY <1>1, <2>1, <2>2, <2>3, <2>4, SurroundingsKeep
<1>5. CASE Revoke \/ ClockTick \/ OthersCharge
  <2>1. /\ view' = view /\ generation' \in Nat /\ generation <= generation'
        /\ clock' \in Nat /\ clock <= clock'
        /\ used' \in Nat /\ used <= used' /\ used' <= Memory
    BY <1>1, <1>5 DEF Revoke, ClockTick, OthersCharge
  <2>2. view'.document \in Nat /\ view'.look \in Nat /\ view'.spot \in Nat
    BY <1>1, <2>1 DEF Pages
  <2> QED BY <1>1, <2>1, <2>2, SurroundingsKeep
<1> QED BY <1>2, <1>3, <1>4, <1>5 DEF Trouble

LEMMA LoadedKeeps == ASSUME ShotIInv, Loaded PROVE ShotIInv'
<1>1. /\ view \in Pages /\ UNCHANGED <<shot, native, artifacts, used, generation, clock, promised, trouble>>
      /\ generation \in Nat /\ clock \in Nat /\ used \in Nat /\ used <= Memory /\ trouble \in Nat
  BY DEF Loaded, hostVars, ShotIInv, ShotTypeOK, StoreOK
<1>2. view' \in Pages /\ view'.document = view.document /\ view'.spot = view.spot
      /\ view'.look = view.look /\ view'.maskable = view.maskable /\ view.document \in Nat
      /\ view.spot \in Nat /\ view.look \in Nat
  BY <1>1 DEF Loaded, Pages
<1> QED BY <1>1, <1>2, SurroundingsKeep

LEMMA StutterKeepsShot == ASSUME ShotIInv, UNCHANGED shotVars PROVE ShotIInv'
BY DEF shotVars, ShotIInv, ShotTypeOK, ShotOK, AimedOK, ImageOK, PictureOK, GenerationsOK,
       StoreOK, PromisesOK

-----------------------------------------------------------------------------
(* The types and the strengthening hold in every reachable state: what a   *)
(* request saw, in the order it saw it, is of the past of the page, and    *)
(* the store holds what was promised and charges what it holds.            *)
THEOREM ShotInvariance == ShotSpec => []ShotIInv
<1>1. ShotInit => ShotIInv
  BY InitShot
<1>2. ShotIInv /\ [ShotNext]_shotVars => ShotIInv'
  <2> SUFFICES ASSUME ShotIInv, [ShotNext]_shotVars PROVE ShotIInv'
    OBVIOUS
  <2>1. CASE RequestShot
    <3>1. PICK element \in BOOLEAN, source \in Sources, auto \in BOOLEAN :
            Step([NoShot EXCEPT !.at = "authorize", !.number = shot.number + 1,
                              !.element = element, !.source = source, !.auto = auto,
                              !.attempt = 1])
      BY <2>1 DEF RequestShot
    <3>2. shot.number + 1 \in Nat
      BY DEF ShotIInv, ShotTypeOK, Shots
    <3> QED BY <3>1, <3>2, FreshKeeps
  <2>2. CASE DropAttempts
    BY <2>2, RefusalKeeps DEF DropAttempts
  <2>3. CASE Authorize
    BY <2>3, AuthorizeKeeps
  <2>4. CASE Bind
    BY <2>4, BindKeeps
  <2>5. CASE TargetBegin
    BY <2>5, TargetKeeps
  <2>6. CASE CheckAuthorization
    BY <2>6, CheckAuthorizationKeeps
  <2>7. CASE CheckPage
    BY <2>7, CheckPageKeeps
  <2>8. CASE FrameReady
    BY <2>8, FrameReadyKeeps
  <2>9. CASE ProbeLook
    BY <2>9, ProbeKeeps
  <2>10. CASE CallNative
    BY <2>10, CallKeeps
  <2>11. CASE NativeTimeout
    BY <2>11, FailureKeeps DEF NativeTimeout, Passed
  <2>12. CASE CaptureOther
    BY <2>12, CaptureOtherKeeps
  <2>13. CASE Reprobe
    BY <2>13, ReprobeKeeps
  <2>14. CASE TargetRelease
    BY <2>14, ReleaseKeeps
  <2>15. CASE Retain
    BY <2>15, RetainKeeps
  <2>16. CASE HandOut
    BY <2>16, HandOutKeeps
  <2>17. CASE Trouble
    BY <2>17, TroubleKeeps
  <2>18. CASE Loaded
    BY <2>18, LoadedKeeps
  <2>19. CASE Reap \/ Prune
    BY <2>19, ReapKeeps
  <2>20. CASE Snapshot
    BY <2>20, SnapshotKeeps
  <2>21. CASE FinishCallback
    BY <2>21, FinishCallbackKeeps
  <2>22. CASE UNCHANGED shotVars
    BY <2>22, StutterKeepsShot
  <2> QED BY <2>1, <2>2, <2>3, <2>4, <2>5, <2>6, <2>7, <2>8, <2>9, <2>10, <2>11, <2>12, <2>13,
             <2>14, <2>15, <2>16, <2>17, <2>18, <2>19, <2>20, <2>21, <2>22
          DEF ShotNext, ShotStep, Surroundings
<1> QED BY <1>1, <1>2, PTL DEF ShotSpec

(* A picture that is handed out is of the bound document, masked for the   *)
(* look it shows, with the element where it was bound; and what callers    *)
(* were told is kept is, within the budget, until then or their credential *)
(* is revoked.                                                             *)
THEOREM ReceiptsTellTheTruth == ShotSpec => []ReceiptsAreTrue
<1>1. ShotIInv => ReceiptsAreTrue
  <2> SUFFICES ASSUME ShotIInv PROVE ReceiptsAreTrue
    OBVIOUS
  <2>1. PicturesAreTrue
    BY DEF ShotIInv, ShotOK, PictureOK, Finished, PicturesAreTrue
  <2>2. KeptAsPromised
    BY DEF ShotIInv, PromisesOK, StoreOK, KeptAsPromised, Live
  <2> QED BY <2>1, <2>2 DEF ReceiptsAreTrue
<1> QED BY <1>1, ShotInvariance, PTL

-----------------------------------------------------------------------------
(* Sessions, and why they end                                              *)

Handlers == [at: {"none", "waiting", "running"}, kind: {"none", "initialize", "delete", "request"},
             session: {0} \cup SessionId \cup Stream, agrees: BOOLEAN, now: Nat]

SessionTypeOK ==
  /\ wall \in Nat
  /\ posts \in [Post -> Handlers]
  /\ opened \in 0..MaxSessions
  /\ DOMAIN sessions \subseteq SessionId /\ sessions \in [DOMAIN sessions -> Nat]
  /\ refreshed \in [SessionId -> Nat]
  /\ streams \in [Stream -> {"none", "open", "closed"}]
  /\ legacy \subseteq Stream /\ removals \subseteq Stream

(* A handler that waits for the lock knows a time that is not too old, and *)
(* a session was last seen as late, within that, as it was refreshed.      *)
TimesOK ==
  /\ \A p \in Post : posts[p].at = "waiting" =>
       posts[p].now <= wall /\ wall <= posts[p].now + MaxWait
  /\ \A id \in DOMAIN sessions : refreshed[id] <= sessions[id] + MaxWait

RemovalsOK == \A s \in removals : streams[s] = "closed"

SessionIInv == SessionTypeOK /\ TimesOK /\ RemovalsOK

-----------------------------------------------------------------------------
LEMMA NoPostTyped == NoPost \in Handlers
BY DEF NoPost, Handlers

LEMMA InitSessions == SessionsInit => SessionIInv
<1> SUFFICES ASSUME SessionsInit PROVE SessionIInv
  OBVIOUS
<1> USE SessionConstants DEF SessionsInit
<1>1. SessionTypeOK
  BY NoPostTyped DEF SessionTypeOK
<1>2. TimesOK /\ RemovalsOK
  BY DEF TimesOK, RemovalsOK, NoPost
<1> QED BY <1>1, <1>2 DEF SessionIInv

(* A handler that ends, or takes the lock, only leaves.                    *)
LEMMA HandlerLeaves ==
  ASSUME SessionIInv, NEW p \in Post, NEW h \in Handlers, h.at # "waiting",
         posts' = [posts EXCEPT ![p] = h], wall' = wall
  PROVE  /\ posts' \in [Post -> Handlers]
         /\ \A q \in Post : posts'[q].at = "waiting" =>
              posts'[q].now <= wall' /\ wall' <= posts'[q].now + MaxWait
BY DEF SessionIInv, SessionTypeOK, TimesOK

(* Sessions that are kept, but for one that was seen by p, and refreshed.  *)
LEMMA PrunedBy ==
  ASSUME SessionIInv, NEW p \in Post, posts[p].at = "waiting", NEW id \in SessionId,
         NEW kept, kept = Unpruned(posts[p].now), NEW seen \in BOOLEAN,
         sessions' = [k \in kept \cup (IF seen THEN {id} ELSE {}) |->
                        IF seen /\ k = id THEN posts[p].now ELSE sessions[k]],
         refreshed' = IF seen THEN [refreshed EXCEPT ![id] = wall] ELSE refreshed
  PROVE  /\ DOMAIN sessions' \subseteq SessionId /\ sessions' \in [DOMAIN sessions' -> Nat]
         /\ refreshed' \in [SessionId -> Nat]
         /\ \A k \in DOMAIN sessions' : refreshed'[k] <= sessions'[k] + MaxWait
         /\ \A k \in DOMAIN sessions \ DOMAIN sessions' : wall + MaxWait > refreshed[k] + IdleTTL
<1> USE SessionConstants DEF SessionIInv
<1>1. posts[p].now \in Nat /\ wall \in Nat /\ posts[p].now <= wall /\ wall <= posts[p].now + MaxWait
  BY DEF SessionTypeOK, TimesOK, Handlers
<1>2. kept = {k \in DOMAIN sessions : posts[p].now <= sessions[k] + IdleTTL}
  BY DEF Unpruned
<1>3. DOMAIN sessions' = kept \cup (IF seen THEN {id} ELSE {})
  OBVIOUS
<1>4. DOMAIN sessions' \subseteq SessionId /\ sessions' \in [DOMAIN sessions' -> Nat]
  BY <1>1, <1>2, <1>3 DEF SessionTypeOK
<1>5. refreshed' \in [SessionId -> Nat]
  BY <1>1 DEF SessionTypeOK
<1>6. ASSUME NEW k \in DOMAIN sessions' PROVE refreshed'[k] <= sessions'[k] + MaxWait
  <2>1. CASE seen /\ k = id
    BY <1>1, <1>3, <2>1 DEF SessionTypeOK
  <2>2. CASE ~(seen /\ k = id)
    <3>1. k \in kept /\ k \in DOMAIN sessions
      BY <1>2, <1>3, <2>2
    <3>2. sessions'[k] = sessions[k] /\ refreshed'[k] = refreshed[k]
      BY <1>3, <1>4, <2>2, <3>1 DEF SessionTypeOK
    <3> QED BY <3>1, <3>2 DEF TimesOK
  <2> QED BY <2>1, <2>2
<1>7. ASSUME NEW k \in DOMAIN sessions \ DOMAIN sessions'
      PROVE  wall + MaxWait > refreshed[k] + IdleTTL
  <2>1. sessions[k] \in Nat /\ refreshed[k] \in Nat /\ refreshed[k] <= sessions[k] + MaxWait
    BY DEF SessionTypeOK, TimesOK
  <2>2. ~(posts[p].now <= sessions[k] + IdleTTL)
    BY <1>2, <1>3
  <2> QED BY <1>1, <2>1, <2>2
<1> QED BY <1>4, <1>5, <1>6, <1>7

(* The sessions that stay, and why those that go do.                       *)
Cause ==
  \A id \in DOMAIN sessions \ DOMAIN sessions' :
    (\E p \in Post : DeletedBy(p, id)) \/ wall + MaxWait > refreshed[id] + IdleTTL

LEMMA StreamableStep ==
  ASSUME SessionIInv, NEW p \in Post, Opened(p) \/ Require(p) \/ Delete(p)
  PROVE  SessionIInv' /\ Cause
<1> USE SessionConstants DEF SessionIInv
<1>1. posts[p].at = "waiting" /\ wall' = wall /\ UNCHANGED <<streams, legacy, removals>>
  BY DEF Opened, Require, Delete
<1>2. RemovalsOK'
  BY <1>1 DEF RemovalsOK
<1>3. /\ posts' \in [Post -> Handlers]
      /\ \A q \in Post : posts'[q].at = "waiting" =>
           posts'[q].now <= wall' /\ wall' <= posts'[q].now + MaxWait
  <2>1. CASE posts' = [posts EXCEPT ![p] = NoPost]
    BY <1>1, <2>1, NoPostTyped, HandlerLeaves DEF NoPost
  <2>2. CASE Require(p) /\ posts' = [posts EXCEPT ![p] = Running(posts[p].session)]
    <3>1. Running(posts[p].session) \in Handlers /\ Running(posts[p].session).at # "waiting"
      BY DEF Running, NoPost, SessionTypeOK, Handlers
    <3> QED BY <1>1, <2>2, <3>1, HandlerLeaves
  <2> QED BY <2>1, <2>2 DEF Opened, Require, Delete
<1>4. /\ DOMAIN sessions' \subseteq SessionId /\ sessions' \in [DOMAIN sessions' -> Nat]
      /\ refreshed' \in [SessionId -> Nat] /\ opened' \in 0..MaxSessions
      /\ \A k \in DOMAIN sessions' : refreshed'[k] <= sessions'[k] + MaxWait
      /\ Cause
  <2>1. CASE Opened(p)
    <3>1. opened' \in SessionId /\ opened' \in 0..MaxSessions
      BY <2>1 DEF Opened, SessionTypeOK, SessionId
    <3>2. PICK id \in SessionId : id = opened'
      BY <3>1
    <3>3. sessions' = [k \in Unpruned(posts[p].now) \cup (IF TRUE THEN {id} ELSE {}) |->
                         IF TRUE /\ k = id THEN posts[p].now ELSE sessions[k]]
      BY <2>1, <3>2 DEF Opened
    <3>4. refreshed' = [refreshed EXCEPT ![id] = wall]
      BY <2>1, <3>2 DEF Opened
    <3> QED BY <1>1, <3>1, <3>3, <3>4, PrunedBy DEF Cause
  <2>2. CASE Require(p)
    <3> DEFINE kept == Unpruned(posts[p].now)
               accepted == posts[p].session \in kept /\ posts[p].agrees
    <3>1. opened' \in 0..MaxSessions
      BY <2>2 DEF Require, SessionTypeOK
    <3>2. CASE accepted
      <4>1. posts[p].session \in SessionId
        BY <3>2 DEF SessionTypeOK, Unpruned
      <4>2. PICK id \in SessionId : id = posts[p].session
        BY <4>1
      <4>3. sessions' = [k \in kept \cup (IF TRUE THEN {id} ELSE {}) |->
                           IF TRUE /\ k = id THEN posts[p].now ELSE sessions[k]]
        <5>1. kept \cup {id} = kept
          BY <3>2, <4>2
        <5>2. sessions' = [k \in kept |-> IF k = id THEN posts[p].now ELSE sessions[k]]
          BY <2>2, <3>2, <4>2 DEF Require, SeenAt
        <5> QED BY <5>1, <5>2
      <4>4. refreshed' = [refreshed EXCEPT ![id] = wall]
        BY <2>2, <3>2, <4>2 DEF Require
      <4> HIDE DEF kept
      <4> QED BY <1>1, <3>1, <4>3, <4>4, PrunedBy DEF Cause, kept
    <3>3. CASE ~accepted /\ SessionId # {}
      <4>1. PICK id \in SessionId : TRUE
        BY <3>3
      <4>2. sessions' = [k \in kept \cup (IF FALSE THEN {id} ELSE {}) |->
                           IF FALSE /\ k = id THEN posts[p].now ELSE sessions[k]]
        BY <2>2, <3>3 DEF Require
      <4>3. refreshed' = refreshed
        BY <2>2, <3>3 DEF Require
      <4> HIDE DEF kept
      <4> QED BY <1>1, <3>1, <4>2, <4>3, PrunedBy DEF Cause, kept
    <3>4. CASE ~accepted /\ SessionId = {}
      <4>1. refreshed' = refreshed /\ DOMAIN sessions' = kept
        BY <2>2, <3>4 DEF Require
      <4>2. kept = {} /\ DOMAIN sessions = {}
        BY <3>4 DEF Unpruned, SessionTypeOK
      <4>3. sessions' \in [DOMAIN sessions' -> Nat]
        BY <2>2, <3>4, <4>1, <4>2 DEF Require
      <4> QED BY <3>1, <4>1, <4>2, <4>3 DEF Cause, SessionTypeOK
    <3> QED BY <3>2, <3>3, <3>4
  <2>3. CASE Delete(p)
    <3>1. sessions' = [id \in DOMAIN sessions \ {posts[p].session} |-> sessions[id]]
          /\ UNCHANGED <<opened, refreshed>>
      BY <2>3 DEF Delete
    <3>2. Cause
      <4>1. SUFFICES ASSUME NEW id \in DOMAIN sessions \ DOMAIN sessions' PROVE DeletedBy(p, id)
        BY DEF Cause
      <4>2. id = posts[p].session
        BY <3>1
      <4>3. posts'[p] = NoPost
        BY <2>3 DEF Delete, SessionTypeOK
      <4> QED BY <2>3, <4>2, <4>3 DEF Delete, DeletedBy
    <3> QED BY <3>1, <3>2 DEF SessionTypeOK, TimesOK
  <2> QED BY <2>1, <2>2, <2>3
<1> QED BY <1>1, <1>2, <1>3, <1>4 DEF SessionTypeOK, TimesOK

LEMMA OtherStep ==
  ASSUME SessionIInv,
         \/ \E p \in Post :
              \/ Arrive(p, "initialize", 0, TRUE)
              \/ \E id \in 1..opened : Arrive(p, "delete", id, TRUE)
              \/ \E id \in 1..opened, agrees \in BOOLEAN : Arrive(p, "request", id, agrees)
              \/ EndPost(p)
              \/ \E s \in Stream : PostMessage(p, s)
         \/ \E s \in Stream : OpenStream(s) \/ CloseStream(s) \/ DropStream(s)
         \/ SessionTick
  PROVE  /\ SessionIInv' /\ sessions' = sessions
         /\ \A s \in legacy \ legacy' : streams[s] = "closed"
<1> USE SessionConstants DEF SessionIInv
<1>1. ASSUME NEW p \in Post, NEW kind \in {"initialize", "delete", "request"},
             NEW id \in {0} \cup SessionId, NEW agrees \in BOOLEAN, Arrive(p, kind, id, agrees)
      PROVE  SessionIInv' /\ sessions' = sessions /\ legacy' = legacy
  <2> DEFINE h == [at |-> "waiting", kind |-> kind, session |-> id, agrees |-> agrees, now |-> wall]
  <2>1. h \in Handlers /\ h.now = wall /\ wall \in Nat
    BY DEF Handlers, SessionTypeOK
  <2>2. posts' = [posts EXCEPT ![p] = h]
        /\ UNCHANGED <<wall, sessions, opened, streams, legacy, removals, refreshed>>
    BY <1>1 DEF Arrive
  <2> HIDE DEF h
  <2>3. SessionTypeOK'
    BY <2>1, <2>2 DEF SessionTypeOK
  <2>4. TimesOK' /\ RemovalsOK'
    BY <2>1, <2>2 DEF TimesOK, RemovalsOK, SessionTypeOK
  <2> QED BY <2>2, <2>3, <2>4
<1>2. ASSUME NEW id \in 1..opened PROVE id \in SessionId
  BY DEF SessionTypeOK, SessionId
<1>3. ASSUME NEW p \in Post, NEW h \in Handlers, h.at # "waiting", posts' = [posts EXCEPT ![p] = h],
             UNCHANGED <<wall, sessions, opened, streams, legacy, removals, refreshed>>
      PROVE  SessionIInv'
  BY <1>3, HandlerLeaves DEF SessionTypeOK, TimesOK, RemovalsOK
<1>4. ASSUME NEW p \in Post, EndPost(p)
      PROVE  SessionIInv' /\ sessions' = sessions /\ legacy' = legacy
  BY <1>3, <1>4, NoPostTyped DEF EndPost, NoPost
<1>5. ASSUME NEW p \in Post, NEW s \in Stream, PostMessage(p, s)
      PROVE  SessionIInv' /\ sessions' = sessions /\ legacy' = legacy
  <2>1. Running(s) \in Handlers /\ Running(s).at # "waiting"
    BY DEF Running, NoPost, Handlers
  <2> QED BY <1>3, <1>5, <2>1 DEF PostMessage
<1>6. ASSUME NEW s \in Stream, OpenStream(s) \/ CloseStream(s) \/ DropStream(s)
      PROVE  /\ SessionIInv' /\ sessions' = sessions
             /\ \A r \in legacy \ legacy' : streams[r] = "closed"
  BY <1>6 DEF OpenStream, CloseStream, DropStream, SessionTypeOK, TimesOK, RemovalsOK
<1>7. CASE SessionTick
  BY <1>7 DEF SessionTick, SessionTypeOK, TimesOK, RemovalsOK, Handlers
<1> QED BY <1>1, <1>2, <1>4, <1>5, <1>6, <1>7 DEF SessionTick

LEMMA SessionStep ==
  ASSUME SessionIInv, [SessionsNext]_sessionVars
  PROVE  /\ SessionIInv' /\ Cause
         /\ \A s \in legacy \ legacy' : streams[s] = "closed"
<1>1. CASE UNCHANGED sessionVars
  BY <1>1 DEF sessionVars, SessionIInv, SessionTypeOK, TimesOK, RemovalsOK, Cause
<1>2. ASSUME NEW p \in Post, Opened(p) \/ Require(p) \/ Delete(p)
      PROVE  /\ SessionIInv' /\ Cause
             /\ \A s \in legacy \ legacy' : streams[s] = "closed"
  BY <1>2, StreamableStep DEF Opened, Require, Delete
<1>3. CASE SessionsNext
  BY <1>2, <1>3, OtherStep DEF SessionsNext, Cause
<1> QED BY <1>1, <1>3

(* The types hold throughout, and what a handler that waits for the lock   *)
(* knows of the time is at most as old as it may wait.                     *)
THEOREM SessionInvariance == SessionsSpec => []SessionIInv
<1> QED BY InitSessions, SessionStep, PTL DEF SessionsSpec

(* A session ends only when its client deletes it or left it idle, whoever *)
(* else opens and prunes sessions meanwhile; a legacy one with its stream. *)
THEOREM SessionsEnd == SessionsSpec => SessionsEndForCause
<1>1. SessionIInv /\ [SessionsNext]_sessionVars =>
        [/\ \A id \in DOMAIN sessions \ DOMAIN sessions' :
              (\E p \in Post : DeletedBy(p, id)) \/ wall + MaxWait > refreshed[id] + IdleTTL
         /\ \A s \in legacy \ legacy' : streams[s] = "closed"]_sessionVars
  BY SessionStep DEF Cause
<1> QED BY <1>1, SessionInvariance, PTL DEF SessionsSpec, SessionsEndForCause

-----------------------------------------------------------------------------
(* Calls: how long they take, and how often they act                       *)

CallStages == [limit: Nat, own: Nat, ok: SUBSET Nat, bad: SUBSET Nat]

(* A plan goes on to later places only, ...                                *)
GoesOn(p) ==
  /\ p \in Seq(CallStages) /\ Len(p) >= 1
  /\ \A i \in 1..Len(p) : p[i].ok \cup p[i].bad \subseteq 2..(Len(p) + 1)

(* ... and w is an upper bound of what is left of it at each of them.      *)
Spends(p, w) ==
  /\ GoesOn(p)
  /\ w \in [1..(Len(p) + 1) -> Nat] /\ w[Len(p) + 1] = 0
  /\ \A i \in 1..Len(p) :
       /\ w[i] >= Prompt /\ w[i] >= Lag
       /\ \A j \in p[i].ok : w[i] >= p[i].own + Prompt + w[j] /\ w[i] >= Prompt + w[j]
       /\ \A j \in p[i].bad : w[i] >= p[i].limit + Lag + w[j] /\ w[i] >= Prompt + w[j]

Takes(p, n) == \E w : Spends(p, w) /\ w[1] <= n

(* Of what is not Natural, the prover needs the sum only.                  *)
LEMMA Slack == Prompt \in Nat /\ Prompt <= 1500 /\ Lag \in Nat /\ 3 * Lag < 2000
BY CallConstants

LEMMA StageIs ==
  ASSUME NEW limit \in Nat, NEW own \in Nat, NEW ok \in SUBSET Nat, NEW bad \in SUBSET Nat
  PROVE  /\ Stage(limit, own, ok, bad) \in CallStages
         /\ Stage(limit, own, ok, bad).limit = limit /\ Stage(limit, own, ok, bad).own = own
         /\ Stage(limit, own, ok, bad).ok = ok /\ Stage(limit, own, ok, bad).bad = bad
BY DEF Stage, CallStages

LEMMA AloneTakes ==
  ASSUME NEW limit \in Nat, NEW own \in Nat, NEW n \in Nat,
         limit + Lag <= n, own + Prompt <= n
  PROVE  Takes(Alone(limit, own), n)
<1> DEFINE p == Alone(limit, own)
           w == [i \in 1..2 |-> IF i = 1 THEN n ELSE 0]
<1>1. p \in Seq(CallStages) /\ Len(p) = 1
  BY StageIs DEF Alone
<1>2. p[1].limit = limit /\ p[1].own = own /\ p[1].ok = {2} /\ p[1].bad = {2}
  BY StageIs DEF Alone
<1>3. w \in [1..2 -> Nat] /\ w[1] = n /\ w[2] = 0
  OBVIOUS
<1> HIDE DEF p, w
<1>4. GoesOn(p)
  BY <1>1, <1>2 DEF GoesOn
<1>5. \A i \in 1..Len(p) :
       /\ w[i] >= Prompt /\ w[i] >= Lag
       /\ \A j \in p[i].ok : w[i] >= p[i].own + Prompt + w[j] /\ w[i] >= Prompt + w[j]
       /\ \A j \in p[i].bad : w[i] >= p[i].limit + Lag + w[j] /\ w[i] >= Prompt + w[j]
  BY <1>1, <1>2, <1>3, Slack
<1>6. Spends(p, w)
  BY <1>1, <1>3, <1>4, <1>5 DEF Spends
<1> QED BY <1>3, <1>6 DEF Takes, p

LEMMA BothLater ==
  ASSUME NEW x \in Nat, NEW y \in Nat, NEW z \in Nat, NEW c \in Nat, NEW d \in Nat,
         x >= c + d + y, x >= Prompt + y
  PROVE  x + z >= c + d + (y + z) /\ x + z >= Prompt + (y + z)
BY Slack

(* One plan after another takes what both take.                            *)
LEMMA InTurnTakes ==
  ASSUME NEW p, NEW q, NEW m \in Nat, NEW n \in Nat, Takes(p, m), Takes(q, n)
  PROVE  Takes(InTurn(p, q), m + n)
<1>1. PICK v : Spends(p, v) /\ v[1] <= m
  BY DEF Takes
<1>2. PICK u : Spends(q, u) /\ u[1] <= n
  BY DEF Takes
<1> DEFINE a == Len(p)
           b == Len(q)
           r == InTurn(p, q)
           w == [i \in 1..(a + b + 1) |-> IF i <= a THEN v[i] + u[1] ELSE u[i - a]]
<1>3. p \in Seq(CallStages) /\ q \in Seq(CallStages) /\ a \in Nat /\ b \in Nat /\ a >= 1 /\ b >= 1
  BY <1>1, <1>2 DEF Spends, GoesOn
<1>4. v \in [1..(a + 1) -> Nat] /\ u \in [1..(b + 1) -> Nat] /\ v[a + 1] = 0 /\ u[b + 1] = 0
  BY <1>1, <1>2 DEF Spends
<1> DEFINE Later(places) == {i + a : i \in places}
           t == [i \in DOMAIN q |-> [q[i] EXCEPT !.ok = Later(@), !.bad = Later(@)]]
<1>5. r = p \o t
  BY DEF InTurn
<1>6. ASSUME NEW i \in 1..b
      PROVE  /\ t[i] \in CallStages /\ t[i].limit = q[i].limit /\ t[i].own = q[i].own
             /\ t[i].ok = Later(q[i].ok) /\ t[i].bad = Later(q[i].bad)
  <2>1. q[i] \in CallStages /\ i \in DOMAIN q
    <3> HIDE DEF t, Later
    <3>1. i \in 1..Len(q) /\ q \in Seq(CallStages)
      BY <1>3
    <3>2. DOMAIN q = 1..Len(q) /\ \A k \in 1..Len(q) : q[k] \in CallStages
      BY <3>1
    <3> QED BY <3>1, <3>2
  <2>2. t[i] = [q[i] EXCEPT !.ok = Later(q[i].ok), !.bad = Later(q[i].bad)]
    <3> HIDE DEF Later
    <3> QED BY <2>1
  <2>3. Later(q[i].ok) \subseteq Nat /\ Later(q[i].bad) \subseteq Nat
    <3>1. a \in Nat
      BY <1>3
    <3> HIDE DEF a, b, t, w, r
    <3>2. \A k \in Nat : k + a \in Nat
      BY <3>1
    <3>3. q[i].ok \subseteq Nat /\ q[i].bad \subseteq Nat
      BY <2>1 DEF CallStages
    <3> QED BY <3>2, <3>3
  <2> HIDE DEF t, Later
  <2> QED BY <2>1, <2>2, <2>3 DEF CallStages
<1>7. t \in Seq(CallStages) /\ Len(t) = b
  <2>1. t = [i \in 1..b |-> t[i]]
    BY <1>3
  <2> HIDE DEF t
  <2> QED BY <1>3, <1>6, <2>1
<1> HIDE DEF t
<1>8. r \in Seq(CallStages) /\ Len(r) = a + b
  <2> HIDE DEF r
  <2>1. p \o t \in Seq(CallStages)
    BY <1>3, <1>7
  <2>2. Len(p \o t) = Len(p) + Len(t)
    BY <1>3, <1>7
  <2> QED BY <1>5, <1>7, <2>1, <2>2
<1>9. \A i \in 1..a : r[i] = p[i]
  BY <1>3, <1>5, <1>7
<1>10. \A i \in 1..b : r[a + i] = t[i]
  BY <1>3, <1>5, <1>7
<1>11. w \in [1..(a + b + 1) -> Nat] /\ w[a + b + 1] = 0 /\ w[1] = v[1] + u[1]
  <2>1. ASSUME NEW i \in 1..(a + b + 1)
        PROVE  (IF i <= a THEN v[i] + u[1] ELSE u[i - a]) \in Nat
    <3>1. CASE i <= a
      <4>1. i \in 1..(a + 1) /\ 1 \in 1..(b + 1)
        BY <1>3, <3>1
      <4>2. v[i] \in Nat /\ u[1] \in Nat
        BY <1>4, <4>1
      <4> QED BY <3>1, <4>2
    <3>2. CASE ~(i <= a)
      <4>1. i - a \in 1..(b + 1)
        BY <1>3, <3>2
      <4> QED BY <1>4, <3>2, <4>1
    <3> QED BY <3>1, <3>2
  <2>2. w[a + b + 1] = u[(a + b + 1) - a] /\ (a + b + 1) - a = b + 1
    BY <1>3
  <2>3. w \in [1..(a + b + 1) -> Nat]
    BY <2>1
  <2>4. 1 \in 1..(a + b + 1) /\ 1 <= a
    BY <1>3
  <2>5. w[1] = v[1] + u[1]
    BY <2>4
  <2>6. w[a + b + 1] = 0
    BY <1>4, <2>2
  <2> QED BY <2>3, <2>5, <2>6
<1>12. \A i \in 1..(a + 1) : w[i] = v[i] + u[1]
  <2>1. w[a + 1] = u[(a + 1) - a] /\ (a + 1) - a = 1
    BY <1>3
  <2>2. u[1] \in Nat
    BY <1>3, <1>4
  <2> QED BY <1>3, <1>4, <2>1, <2>2
<1>13. \A i \in 1..(b + 1) : w[a + i] = u[i]
  <2> TAKE i \in 1..(b + 1)
  <2>1. a + i \in 1..(a + b + 1) /\ ~(a + i <= a) /\ (a + i) - a = i
    BY <1>3
  <2> QED BY <2>1
<1> HIDE DEF w, r
<1>14. ASSUME NEW i \in 1..(a + b)
       PROVE  /\ r[i].ok \cup r[i].bad \subseteq 2..(a + b + 1)
              /\ w[i] >= Prompt /\ w[i] >= Lag
              /\ \A j \in r[i].ok : w[i] >= r[i].own + Prompt + w[j] /\ w[i] >= Prompt + w[j]
              /\ \A j \in r[i].bad : w[i] >= r[i].limit + Lag + w[j] /\ w[i] >= Prompt + w[j]
  <2>1. CASE i \in 1..a
    <3>1. p[i].ok \cup p[i].bad \subseteq 2..(a + 1)
      BY <1>1, <2>1 DEF Spends, GoesOn
    <3>2. /\ v[i] >= Prompt /\ v[i] >= Lag
          /\ \A j \in p[i].ok : v[i] >= p[i].own + Prompt + v[j] /\ v[i] >= Prompt + v[j]
          /\ \A j \in p[i].bad : v[i] >= p[i].limit + Lag + v[j] /\ v[i] >= Prompt + v[j]
      BY <1>1, <2>1 DEF Spends
    <3>3. p[i] \in CallStages /\ p[i].own \in Nat /\ p[i].limit \in Nat
      <4>1. p[i] \in CallStages
        BY <1>3, <2>1
      <4> QED BY <4>1 DEF CallStages
    <3>4. v[i] \in Nat /\ u[1] \in Nat /\ \A j \in 2..(a + 1) : v[j] \in Nat
      <4>1. i \in 1..(a + 1) /\ 1 \in 1..(b + 1) /\ 2..(a + 1) \subseteq 1..(a + 1)
        BY <1>3, <2>1
      <4> QED BY <1>4, <4>1
    <3>5. w[i] = v[i] + u[1] /\ \A j \in 2..(a + 1) : w[j] = v[j] + u[1]
      BY <1>3, <1>12, <2>1
    <3>6. p[i].ok \cup p[i].bad \subseteq 2..(a + b + 1)
      BY <1>3, <3>1
    <3>7. w[i] >= Prompt /\ w[i] >= Lag
      BY <3>2, <3>4, <3>5, Slack
    <3>8. ASSUME NEW j \in p[i].ok
          PROVE  w[i] >= p[i].own + Prompt + w[j] /\ w[i] >= Prompt + w[j]
      <4>1. v[i] >= p[i].own + Prompt + v[j] /\ v[i] >= Prompt + v[j] /\ j \in 2..(a + 1)
        BY <3>1, <3>2
      <4>2. w[j] = v[j] + u[1] /\ v[j] \in Nat /\ u[1] \in Nat /\ v[i] \in Nat
        BY <3>4, <3>5, <4>1
      <4>3. Prompt \in Nat /\ p[i].own \in Nat
        BY <3>3, Slack
      <4>4. /\ v[i] + u[1] >= p[i].own + Prompt + (v[j] + u[1])
            /\ v[i] + u[1] >= Prompt + (v[j] + u[1])
        BY <4>1, <4>2, <4>3, BothLater
      <4> QED BY <3>5, <4>2, <4>4
    <3>9. ASSUME NEW j \in p[i].bad
          PROVE  w[i] >= p[i].limit + Lag + w[j] /\ w[i] >= Prompt + w[j]
      <4>1. v[i] >= p[i].limit + Lag + v[j] /\ v[i] >= Prompt + v[j] /\ j \in 2..(a + 1)
        BY <3>1, <3>2
      <4>2. w[j] = v[j] + u[1] /\ v[j] \in Nat /\ u[1] \in Nat /\ v[i] \in Nat
        BY <3>4, <3>5, <4>1
      <4>3. Lag \in Nat /\ p[i].limit \in Nat
        BY <3>3, Slack
      <4>4. /\ v[i] + u[1] >= p[i].limit + Lag + (v[j] + u[1])
            /\ v[i] + u[1] >= Prompt + (v[j] + u[1])
        BY <4>1, <4>2, <4>3, BothLater
      <4> QED BY <3>5, <4>2, <4>4
    <3> QED BY <1>9, <2>1, <3>6, <3>7, <3>8, <3>9
  <2>2. CASE i \in (a + 1)..(a + b)
    <3> DEFINE k == i - a
    <3>1. k \in 1..b /\ i = a + k
      BY <1>3, <2>2
    <3> HIDE DEF k
    <3>2. q[k].ok \cup q[k].bad \subseteq 2..(b + 1)
      BY <1>2, <3>1 DEF Spends, GoesOn
    <3>3. /\ u[k] >= Prompt /\ u[k] >= Lag
          /\ \A j \in q[k].ok : u[k] >= q[k].own + Prompt + u[j] /\ u[k] >= Prompt + u[j]
          /\ \A j \in q[k].bad : u[k] >= q[k].limit + Lag + u[j] /\ u[k] >= Prompt + u[j]
      BY <1>2, <3>1 DEF Spends
    <3>4. /\ r[i].limit = q[k].limit /\ r[i].own = q[k].own
          /\ r[i].ok = Later(q[k].ok) /\ r[i].bad = Later(q[k].bad)
      <4> HIDE DEF Later
      <4> QED BY <1>6, <1>10, <3>1
    <3>5. w[i] = u[k] /\ \A j \in 2..(b + 1) : w[j + a] = u[j]
      <4>1. \A j \in 2..(b + 1) : a + j = j + a /\ j \in 1..(b + 1)
        BY <1>3
      <4>2. k \in 1..(b + 1)
        BY <1>3, <3>1
      <4> QED BY <1>13, <3>1, <4>1, <4>2
    <3>6. r[i].ok \cup r[i].bad \subseteq 2..(a + b + 1)
      BY <1>3, <3>2, <3>4
    <3>7. ASSUME NEW j \in r[i].ok
          PROVE  w[i] >= r[i].own + Prompt + w[j] /\ w[i] >= Prompt + w[j]
      <4>1. PICK l \in q[k].ok : j = l + a
        BY <3>4
      <4> QED BY <3>2, <3>3, <3>4, <3>5, <4>1
    <3>8. ASSUME NEW j \in r[i].bad
          PROVE  w[i] >= r[i].limit + Lag + w[j] /\ w[i] >= Prompt + w[j]
      <4>1. PICK l \in q[k].bad : j = l + a
        BY <3>4
      <4> QED BY <3>2, <3>3, <3>4, <3>5, <4>1
    <3> QED BY <3>3, <3>5, <3>6, <3>7, <3>8
  <2> QED BY <1>3, <2>1, <2>2
<1>15. GoesOn(r)
  BY <1>3, <1>8, <1>14 DEF GoesOn
<1>16. Spends(r, w)
  BY <1>8, <1>11, <1>14, <1>15 DEF Spends
<1>17. w[1] <= m + n
  BY <1>1, <1>2, <1>3, <1>4, <1>11
<1> QED BY <1>16, <1>17 DEF Takes, r

-----------------------------------------------------------------------------
(* Calls: the plans of the tools                                           *)

(* Three scripts are silent at worst: the geometry, the page's own image   *)
(* and the look whether the page is hidden.                                *)
LEMMA ShotTakes == Takes(Shot, 33000 + 3 * Lag)
<1> DEFINE w == <<33000 + 3 * Lag, 31500 + 2 * Lag, 21500 + 3 * Lag, 20000 + 2 * Lag,
                 10000 + Lag, 1500 + Lag, 0>>
<1>1. Shot \in Seq(CallStages) /\ Len(Shot) = 6
  BY StageIs DEF Shot, GeometryScript, RenderScript, BlankScript, RetakeScript, AnnotateScript,
                  HiddenScript
<1>2. /\ Shot[1].limit = 1500 /\ Shot[1].own = 0
      /\ Shot[1].ok = {2, 3, 5, 6} /\ Shot[1].bad = {2, 3, 5, 6}
  BY StageIs DEF Shot, GeometryScript
<1>3. Shot[2].limit = 30000 /\ Shot[2].own = 0 /\ Shot[2].ok = {3, 5, 6} /\ Shot[2].bad = {6}
  BY StageIs DEF Shot, RenderScript
<1>4. Shot[3].limit = 1500 /\ Shot[3].own = 0 /\ Shot[3].ok = {4, 5, 6} /\ Shot[3].bad = {4}
  BY StageIs DEF Shot, BlankScript
<1>5. Shot[4].limit = 10000 /\ Shot[4].own = 0 /\ Shot[4].ok = {5, 6} /\ Shot[4].bad = {5, 6}
  BY StageIs DEF Shot, RetakeScript
<1>6. Shot[5].limit = 10000 /\ Shot[5].own = 0 /\ Shot[5].ok = {6} /\ Shot[5].bad = {7}
  BY StageIs DEF Shot, AnnotateScript
<1>7. Shot[6].limit = 1500 /\ Shot[6].own = 0 /\ Shot[6].ok = {7} /\ Shot[6].bad = {7}
  BY StageIs DEF Shot, HiddenScript
<1>8. /\ w \in [1..7 -> Nat] /\ w[1] = 33000 + 3 * Lag /\ w[2] = 31500 + 2 * Lag
      /\ w[3] = 21500 + 3 * Lag /\ w[4] = 20000 + 2 * Lag /\ w[5] = 10000 + Lag
      /\ w[6] = 1500 + Lag /\ w[7] = 0
  BY Slack
<1> HIDE DEF w
<1>9. GoesOn(Shot)
  BY <1>1, <1>2, <1>3, <1>4, <1>5, <1>6, <1>7 DEF GoesOn
<1>10. ASSUME NEW i \in 1..6
       PROVE  /\ w[i] >= Prompt /\ w[i] >= Lag
              /\ \A j \in Shot[i].ok :
                   w[i] >= Shot[i].own + Prompt + w[j] /\ w[i] >= Prompt + w[j]
              /\ \A j \in Shot[i].bad :
                   w[i] >= Shot[i].limit + Lag + w[j] /\ w[i] >= Prompt + w[j]
  <2>1. CASE i = 1
    BY <1>2, <1>8, <2>1, Slack
  <2>2. CASE i = 2
    BY <1>3, <1>8, <2>2, Slack
  <2>3. CASE i = 3
    BY <1>4, <1>8, <2>3, Slack
  <2>4. CASE i = 4
    BY <1>5, <1>8, <2>4, Slack
  <2>5. CASE i = 5
    BY <1>6, <1>8, <2>5, Slack
  <2>6. CASE i = 6
    BY <1>7, <1>8, <2>6, Slack
  <2> QED BY <2>1, <2>2, <2>3, <2>4, <2>5, <2>6
<1>11. Spends(Shot, w)
  BY <1>1, <1>8, <1>9, <1>10 DEF Spends
<1> QED BY <1>8, <1>11, Slack DEF Takes

LEMMA ElementTakes == Takes(Element, 30000 + Lag)
<1> DEFINE w == <<30000 + Lag, 10000 + Lag, 1500 + Lag, 0>>
<1>1. Element \in Seq(CallStages) /\ Len(Element) = 3
  BY StageIs DEF Element
<1>2. Element[1].limit = 30000 /\ Element[1].own = 0 /\ Element[1].ok = {2, 3} /\ Element[1].bad = {4}
  BY StageIs DEF Element
<1>3. Element[2].limit = 10000 /\ Element[2].own = 0 /\ Element[2].ok = {3} /\ Element[2].bad = {4}
  BY StageIs DEF Element
<1>4. Element[3].limit = 1500 /\ Element[3].own = 0 /\ Element[3].ok = {4} /\ Element[3].bad = {4}
  BY StageIs DEF Element
<1>5. /\ w \in [1..4 -> Nat] /\ w[1] = 30000 + Lag /\ w[2] = 10000 + Lag
      /\ w[3] = 1500 + Lag /\ w[4] = 0
  BY Slack
<1> HIDE DEF w
<1>6. GoesOn(Element)
  BY <1>1, <1>2, <1>3, <1>4 DEF GoesOn
<1>7. ASSUME NEW i \in 1..3
      PROVE  /\ w[i] >= Prompt /\ w[i] >= Lag
             /\ \A j \in Element[i].ok :
                  w[i] >= Element[i].own + Prompt + w[j] /\ w[i] >= Prompt + w[j]
             /\ \A j \in Element[i].bad :
                  w[i] >= Element[i].limit + Lag + w[j] /\ w[i] >= Prompt + w[j]
  <2>1. CASE i = 1
    BY <1>2, <1>5, <2>1, Slack
  <2>2. CASE i = 2
    BY <1>3, <1>5, <2>2, Slack
  <2>3. CASE i = 3
    BY <1>4, <1>5, <2>3, Slack
  <2> QED BY <2>1, <2>2, <2>3
<1>8. Spends(Element, w)
  BY <1>1, <1>5, <1>6, <1>7 DEF Spends
<1> QED BY <1>5, <1>8, Slack DEF Takes

LEMMA DomSnapshotTakes == Takes(DomSnapshot, 15500 + Lag)
BY AloneTakes, Slack DEF DomSnapshot

LEMMA FlushTakes == Takes(FlushLogs, 1500 + Lag)
BY AloneTakes, Slack DEF FlushLogs

LEMMA EverythingTakes == Takes(Everything, 50000 + 5 * Lag)
<1>1. Takes(InTurn(DomSnapshot, Shot), (15500 + Lag) + (33000 + 3 * Lag))
  BY DomSnapshotTakes, ShotTakes, InTurnTakes, Slack
<1>2. Takes(InTurn(InTurn(DomSnapshot, Shot), FlushLogs),
            ((15500 + Lag) + (33000 + 3 * Lag)) + (1500 + Lag))
  BY <1>1, FlushTakes, InTurnTakes, Slack
<1>3. ((15500 + Lag) + (33000 + 3 * Lag)) + (1500 + Lag) = 50000 + 5 * Lag
  BY Slack
<1> QED BY <1>2, <1>3 DEF Everything

LEMMA ActTakes ==
  ASSUME NEW t \in Nat
  PROVE  Takes(ActAndVerify(t), t + 56000 + 5 * Lag)
<1> DEFINE p == <<Stage(5300, 300, {2, 3}, {3}), Stage(t + 2000, t, {3}, {3})>>
           w == <<t + 6000, t + 3500, 0>>
<1>1. p \in Seq(CallStages) /\ Len(p) = 2
  BY StageIs
<1>2. p[1].limit = 5300 /\ p[1].own = 300 /\ p[1].ok = {2, 3} /\ p[1].bad = {3}
  BY StageIs
<1>3. p[2].limit = t + 2000 /\ p[2].own = t /\ p[2].ok = {3} /\ p[2].bad = {3}
  BY StageIs
<1>4. w \in [1..3 -> Nat] /\ w[1] = t + 6000 /\ w[2] = t + 3500 /\ w[3] = 0
  OBVIOUS
<1> HIDE DEF p, w
<1>5. GoesOn(p)
  BY <1>1, <1>2, <1>3 DEF GoesOn
<1>6. ASSUME NEW i \in 1..2
      PROVE  /\ w[i] >= Prompt /\ w[i] >= Lag
             /\ \A j \in p[i].ok : w[i] >= p[i].own + Prompt + w[j] /\ w[i] >= Prompt + w[j]
             /\ \A j \in p[i].bad : w[i] >= p[i].limit + Lag + w[j] /\ w[i] >= Prompt + w[j]
  <2>1. CASE i = 1
    BY <1>2, <1>4, <2>1, Slack
  <2>2. CASE i = 2
    BY <1>3, <1>4, <2>2, Slack
  <2> QED BY <2>1, <2>2
<1>7. Spends(p, w)
  BY <1>1, <1>4, <1>5, <1>6 DEF Spends
<1>8. Takes(p, t + 6000)
  BY <1>4, <1>7 DEF Takes
<1>9. Takes(InTurn(p, Everything), (t + 6000) + (50000 + 5 * Lag))
  BY <1>8, EverythingTakes, InTurnTakes, Slack
<1>10. (t + 6000) + (50000 + 5 * Lag) = t + 56000 + 5 * Lag
  BY Slack
<1> QED BY <1>9, <1>10 DEF ActAndVerify, p

LEMMA EvalTakes ==
  ASSUME NEW t \in Nat
  PROVE  Within(1, t, MaxEval) \in Nat /\ Takes(Eval(t), Within(1, t, MaxEval) + 2000)
<1> DEFINE page == Within(1, t, MaxEval)
           more == Within(250, page \div 4, 1000)
<1>1. page \in Nat
  BY DEF Within, AtMost, MaxEval
<1> HIDE DEF page
<1>2. page \div 4 \in Nat
  BY <1>1
<1> DEFINE quarter == page \div 4
<1>3. more \in Nat /\ more <= 1000
  <2> HIDE DEF quarter
  <2> QED BY <1>2 DEF Within, AtMost, quarter
<1> HIDE DEF more
<1>4. Takes(Alone(page + more, page), page + 2000)
  BY <1>1, <1>3, AloneTakes, Slack
<1> QED BY <1>1, <1>4 DEF Eval, page, more

LEMMA PlansAre ==
  ASSUME NEW t \in Nat
  PROVE  /\ Plans(t).eval = Eval(t) /\ Plans(t).click = Eval(DefaultEval)
         /\ Plans(t).shot = Shot /\ Plans(t).element = Element
         /\ Plans(t).protected = Alone(AtMost(t, 30000), 0)
         /\ Plans(t).snapshot = DomSnapshot /\ Plans(t).find = Alone(10000, 0)
         /\ Plans(t).styles = Alone(5000, 0) /\ Plans(t).drag = Drag(t)
         /\ Plans(t).interact = Alone(5000, 0) /\ Plans(t).keyboard = Alone(5000, 0)
         /\ Plans(t).wait = WaitFor(t) /\ Plans(t).locator = Alone(15000, 0)
         /\ Plans(t).exec = Alone(15000, 0) /\ Plans(t).monitor = Alone(2000, 0)
         /\ Plans(t).listen = Alone(5000, 0) /\ Plans(t).logs = FlushLogs
         /\ Plans(t).debug = Everything /\ Plans(t).act = ActAndVerify(t)
         /\ Plans(t).search = Alone(15000, 0)
<1>1. \A x \in DOMAIN ReadPlans(t) : Plans(t)[x] = ReadPlans(t)[x]
  BY DEF Plans, Joined
<1>2. \A x \in DOMAIN InputPlans(t) : x \notin DOMAIN ReadPlans(t)
  BY DEF ReadPlans, InputPlans
<1>3. \A x \in DOMAIN InputPlans(t) : Plans(t)[x] = InputPlans(t)[x]
  BY <1>2 DEF Plans, Joined
<1>4. \A x \in DOMAIN OtherPlans(t) : x \notin DOMAIN ReadPlans(t) /\ x \notin DOMAIN InputPlans(t)
  BY DEF ReadPlans, InputPlans, OtherPlans
<1>5. \A x \in DOMAIN OtherPlans(t) : Plans(t)[x] = OtherPlans(t)[x]
  BY <1>4 DEF Plans, Joined
<1>6. /\ Plans(t).eval = Eval(t) /\ Plans(t).click = Eval(DefaultEval)
      /\ Plans(t).shot = Shot /\ Plans(t).element = Element
      /\ Plans(t).protected = Alone(AtMost(t, 30000), 0)
      /\ Plans(t).snapshot = DomSnapshot /\ Plans(t).find = Alone(10000, 0)
      /\ Plans(t).styles = Alone(5000, 0)
  BY <1>1 DEF ReadPlans
<1>7. /\ Plans(t).drag = Drag(t) /\ Plans(t).interact = Alone(5000, 0)
      /\ Plans(t).keyboard = Alone(5000, 0)
      /\ Plans(t).wait = WaitFor(t) /\ Plans(t).locator = Alone(15000, 0)
  BY <1>3 DEF InputPlans
<1>8. /\ Plans(t).exec = Alone(15000, 0) /\ Plans(t).monitor = Alone(2000, 0)
      /\ Plans(t).listen = Alone(5000, 0) /\ Plans(t).logs = FlushLogs
      /\ Plans(t).debug = Everything /\ Plans(t).act = ActAndVerify(t)
      /\ Plans(t).search = Alone(15000, 0)
  BY <1>5 DEF OtherPlans, Listen, Search
<1> QED BY <1>6, <1>7, <1>8

(* What each tool takes at most, in the plugin.                            *)
Worst(t) ==
  [eval |-> Within(1, t, MaxEval) + 2000, click |-> DefaultEval + 2000,
   shot |-> 33000 + 3 * Lag, element |-> 30000 + Lag, protected |-> AtMost(t, 30000) + 1500,
   snapshot |-> 15500 + Lag, find |-> 10000 + Lag, styles |-> 5000 + Lag,
   drag |-> t + 5000 + Lag, interact |-> 5000 + Lag, keyboard |-> 5000 + Lag,
   wait |-> t + 3500, locator |-> 15000 + Lag, exec |-> 15000 + Lag, monitor |-> 2000 + Lag,
   listen |-> 5000 + Lag, logs |-> 1500 + Lag, debug |-> 50000 + 5 * Lag,
   act |-> t + 56000 + 5 * Lag, search |-> 15000 + Lag]

ToolNames ==
  {"eval", "click", "shot", "element", "protected", "snapshot", "find", "styles", "drag",
   "interact", "keyboard", "wait", "locator", "exec", "monitor", "listen", "logs", "debug",
   "act", "search"}

LEMMA AllTake ==
  ASSUME NEW t \in Nat, NEW tool \in ToolNames
  PROVE  Takes(Plans(t)[tool], Worst(t)[tool])
<1>1. Takes(Alone(5000, 0), 5000 + Lag) /\ Takes(Alone(10000, 0), 10000 + Lag)
  BY AloneTakes, Slack
<1>2. Takes(Alone(15000, 0), 15000 + Lag) /\ Takes(Alone(2000, 0), 2000 + Lag)
  BY AloneTakes, Slack
<1>3. Takes(Drag(t), t + 5000 + Lag) /\ Takes(WaitFor(t), t + 3500)
  BY AloneTakes, Slack DEF Drag, WaitFor
<1>4. Takes(Alone(AtMost(t, 30000), 0), AtMost(t, 30000) + 1500)
  <2>1. AtMost(t, 30000) \in Nat
    BY DEF AtMost
  <2> QED BY <2>1, AloneTakes, Slack
<1>5. Takes(Eval(DefaultEval), DefaultEval + 2000)
  <2>1. Within(1, DefaultEval, MaxEval) = DefaultEval /\ DefaultEval \in Nat
    BY DEF Within, AtMost, MaxEval, DefaultEval
  <2> QED BY <2>1, EvalTakes
<1>6. Takes(Eval(t), Within(1, t, MaxEval) + 2000)
  BY EvalTakes
<1>7. CASE tool \in {"eval", "click", "shot", "element", "protected", "snapshot", "find"}
  BY <1>1, <1>4, <1>5, <1>6, <1>7, PlansAre, ShotTakes, ElementTakes, DomSnapshotTakes DEF Worst
<1>8. CASE tool \in {"styles", "drag", "interact", "keyboard", "wait", "locator", "exec"}
  BY <1>1, <1>2, <1>3, <1>8, PlansAre DEF Worst
<1>9. CASE tool \in {"monitor", "listen", "logs", "debug", "act", "search"}
  BY <1>1, <1>2, <1>9, PlansAre, FlushTakes, EverythingTakes, ActTakes DEF Worst
<1> QED BY <1>7, <1>8, <1>9 DEF ToolNames

-----------------------------------------------------------------------------
(* Calls: how long callers wait                                            *)

StandaloneTools == ToolNames \ {"click"}
CommandLineTools == ToolNames \ {"styles", "interact", "search"}

LEMMA StandaloneIs ==
  ASSUME NEW t \in Nat
  PROVE  /\ DOMAIN Standalone(t) = StandaloneTools
         /\ \A tool \in StandaloneTools : Standalone(t)[tool] =
              CASE tool = "eval" -> EvalPatience(t) [] tool = "protected" -> ShotPatience(t)
                [] tool = "wait" -> t + 5000 [] tool = "locator" -> 30000
                [] tool = "debug" -> 60000 [] tool = "act" -> t + 60000
                [] OTHER -> DefaultTimeout
BY DEF Standalone, Joined, StandaloneReads, StandaloneInputs, StandaloneIpc, StandaloneOthers,
       StandaloneTools, ToolNames

LEMMA CommandLineIs ==
  ASSUME NEW t \in Nat
  PROVE  /\ DOMAIN CommandLine(t) = CommandLineTools
         /\ \A tool \in CommandLineTools : CommandLine(t)[tool] =
              CASE tool = "eval" -> EvalPatience(t)
                [] tool = "click" -> EvalPatience(DefaultEval)
                [] tool = "protected" -> ShotPatience(t) [] tool = "drag" -> t + 15000
                [] tool = "wait" -> t + 5000 [] tool \in {"shot", "element", "debug"} -> 60000
                [] tool = "act" -> t + 60000
                [] tool \in {"snapshot", "keyboard", "locator", "exec"} -> 30000
                [] OTHER -> DefaultTimeout
BY DEF CommandLine, Joined, CliReads, CliClicks, CliInputs, CliWaits, CliShots, CliIpc, CliLogs,
       CliOthers, CommandLineTools, ToolNames

OutlivedBy(front, tool, t) ==
  front = "standalone" /\ tool = "drag" /\ t + Margin + Lag >= DefaultTimeout

LEMMA AllWait ==
  ASSUME NEW t \in Nat, NEW front \in Fronts, NEW tool \in DOMAIN Patience(front, t)
  PROVE  /\ tool \in ToolNames /\ Worst(t)[tool] \in Nat /\ Patience(front, t)[tool] \in Nat
         /\ Worst(t)[tool] < Patience(front, t)[tool] \/ OutlivedBy(front, tool, t)
         /\ tool = "protected" => Worst(t)[tool] + LeaseQueueWait < Patience(front, t)[tool]
<1>1. Within(1, t, MaxEval) \in Nat /\ Within(1, DefaultEval, MaxEval) = DefaultEval
  BY DEF Within, AtMost, MaxEval, DefaultEval
<1>2. AtMost(t, 30000) \in Nat
  BY DEF AtMost
<1>3. EvalPatience(t) = Within(1, t, MaxEval) + 5000 /\ EvalPatience(DefaultEval) = 35000
  BY <1>1 DEF EvalPatience, Margin, DefaultEval
<1>4. ShotPatience(t) = AtMost(t, 30000) + 20000
  BY <1>2 DEF ShotPatience, LeaseQueueWait, Margin
<1> DEFINE W(x) == Worst(t)[x]
<1>5. /\ W("eval") = Within(1, t, MaxEval) + 2000 /\ W("click") = 32000
      /\ W("protected") = AtMost(t, 30000) + 1500 /\ W("wait") = t + 3500
      /\ W("drag") = t + 5000 + Lag /\ W("act") = t + 56000 + 5 * Lag
      /\ W("debug") = 50000 + 5 * Lag /\ W("shot") = 33000 + 3 * Lag
      /\ W("element") = 30000 + Lag /\ W("snapshot") = 15500 + Lag
      /\ \A x \in {"locator", "exec", "search"} : W(x) = 15000 + Lag
      /\ \A x \in {"styles", "interact", "keyboard", "listen"} : W(x) = 5000 + Lag
      /\ W("find") = 10000 + Lag /\ W("monitor") = 2000 + Lag /\ W("logs") = 1500 + Lag
  BY DEF Worst, DefaultEval
<1> HIDE DEF W
<1>6. DefaultTimeout = 35000 /\ LeaseQueueWait = 15000 /\ Margin = 5000
  BY DEF DefaultTimeout, LeaseQueueWait, Margin
<1>7. CASE front = "standalone"
  <2> DEFINE P(x) == Standalone(t)[x]
  <2>1. tool \in StandaloneTools /\ Patience(front, t)[tool] = P(tool)
    BY <1>7, StandaloneIs DEF Patience
  <2>2. /\ P("eval") = Within(1, t, MaxEval) + 5000 /\ P("protected") = AtMost(t, 30000) + 20000
        /\ P("wait") = t + 5000 /\ P("locator") = 30000 /\ P("debug") = 60000
        /\ P("act") = t + 60000
        /\ \A x \in {"shot", "element", "snapshot", "find", "styles", "drag", "interact",
                     "keyboard", "exec", "monitor", "listen", "logs", "search"} : P(x) = 35000
    BY <1>3, <1>4, <1>6, StandaloneIs DEF StandaloneTools, ToolNames
  <2> HIDE DEF P
  <2>3. /\ W(tool) \in Nat /\ P(tool) \in Nat
        /\ W(tool) < P(tool) \/ (tool = "drag" /\ t + Margin + Lag >= DefaultTimeout)
        /\ tool = "protected" => W(tool) + LeaseQueueWait < P(tool)
    <3>1. CASE tool \in {"eval", "protected", "wait", "locator", "debug", "act"}
      BY <1>1, <1>2, <1>5, <1>6, <2>2, <3>1, Slack
    <3>2. CASE tool = "drag"
      BY <1>5, <1>6, <2>2, <3>2, Slack
    <3>3. CASE tool \in {"shot", "element", "snapshot", "find", "styles", "interact",
                         "keyboard", "exec", "monitor", "listen", "logs", "search"}
      BY <1>5, <1>6, <2>2, <3>3, Slack
    <3> QED BY <2>1, <3>1, <3>2, <3>3 DEF StandaloneTools, ToolNames
  <2> QED BY <1>7, <2>1, <2>3 DEF StandaloneTools, OutlivedBy, W
<1>8. CASE front = "cli"
  <2> DEFINE P(x) == CommandLine(t)[x]
  <2>1. tool \in CommandLineTools /\ Patience(front, t)[tool] = P(tool)
    BY <1>8, CommandLineIs DEF Patience
  <2>2. /\ P("eval") = Within(1, t, MaxEval) + 5000 /\ P("protected") = AtMost(t, 30000) + 20000
        /\ P("wait") = t + 5000 /\ P("drag") = t + 15000 /\ P("act") = t + 60000
        /\ \A x \in {"shot", "element", "debug"} : P(x) = 60000
        /\ \A x \in {"snapshot", "keyboard", "locator", "exec"} : P(x) = 30000
        /\ \A x \in {"click", "find", "monitor", "listen", "logs"} : P(x) = 35000
    BY <1>3, <1>4, <1>6, CommandLineIs DEF CommandLineTools, ToolNames
  <2> HIDE DEF P
  <2>3. /\ W(tool) \in Nat /\ P(tool) \in Nat /\ W(tool) < P(tool)
        /\ tool = "protected" => W(tool) + LeaseQueueWait < P(tool)
    <3>1. CASE tool \in {"eval", "protected", "wait", "drag", "act"}
      BY <1>1, <1>2, <1>5, <1>6, <2>2, <3>1, Slack
    <3>2. CASE tool \in {"shot", "element", "debug", "snapshot", "keyboard", "locator", "exec",
                         "click", "find", "monitor", "listen", "logs"}
      BY <1>5, <1>6, <2>2, <3>2, Slack
    <3> QED BY <2>1, <3>1, <3>2 DEF CommandLineTools, ToolNames
  <2> QED BY <2>1, <2>3 DEF CommandLineTools, W
<1> QED BY <1>7, <1>8 DEF Fronts

-----------------------------------------------------------------------------
(* Calls: the invariant                                                    *)

AllCalls == UNION {CallsOf(front) : front \in Fronts}

QueueTime == IF queued THEN LeaseQueueWait ELSE 0

CallTypeOK ==
  /\ call \in AllCalls
  /\ place \in 0..(Len(Plan) + 1) /\ elapsed \in Nat /\ queued \in BOOLEAN
  /\ acts \in Nat
  /\ sender \in {"waiting", "answered", "lost", "gave up"}

(* It acts with its first script, which is sent again only if that one     *)
(* was refused, or if there is nothing to act.                             *)
ActsOK ==
  /\ acts <= 1
  /\ call.tool \notin Acting => acts = 0
  /\ place \in {0, 1} => acts = 0
  /\ failure = "stale_ref" => place = Len(Plan) + 1 /\ acts = 0

(* What is left of the plan is still within what the caller allows.        *)
TimeOK ==
  \E w :
    /\ Spends(Plan, w)
    /\ w[1] < GivesUpAt \/ Outlived
    /\ call.tool = "protected" => w[1] + LeaseQueueWait < GivesUpAt
    /\ place = 0 => elapsed = 0 /\ ~queued
    /\ place # 0 => elapsed + w[place] <= w[1] + QueueTime

CallIInv == CallTypeOK /\ ActsOK /\ TimeOK /\ AnsweredInTime

LEMMA QueueTimeIs ==
  ASSUME queued \in BOOLEAN
  PROVE  /\ QueueTime \in Nat
         /\ queued => QueueTime = LeaseQueueWait
         /\ ~queued => QueueTime = 0
BY DEF QueueTime, LeaseQueueWait

(* What was left for a step and what follows it.                           *)
LEMMA StillLeft ==
  ASSUME NEW e \in Nat, NEW d \in Nat, NEW x \in Nat, NEW y \in Nat, NEW b \in Nat,
         e + x <= b, x >= d + y
  PROVE  e + d + y <= b
OBVIOUS

LEMMA NotBoth ==
  ASSUME NEW e \in Nat, NEW x \in Nat, NEW y \in Nat, NEW q \in Nat, NEW g \in Nat,
         e >= g, e + x <= y + q, y + q < g
  PROVE  FALSE
OBVIOUS

LEMMA CallIs ==
  ASSUME NEW c \in AllCalls
  PROVE  /\ c.front \in Fronts /\ c.t \in Nat /\ c.tool \in DOMAIN Patience(c.front, c.t)
<1>1. PICK front \in Fronts : c \in CallsOf(front)
  BY DEF AllCalls
<1>2. PICK tool \in DOMAIN Patience(front, 0), t \in Times :
        c = [front |-> front, tool |-> tool, t |-> t]
  BY <1>1 DEF CallsOf
<1>3. t \in Nat
  BY CallConstants
<1>4. DOMAIN Patience(front, 0) = DOMAIN Patience(front, t)
  BY <1>3, StandaloneIs, CommandLineIs DEF Patience
<1> QED BY <1>2, <1>3, <1>4

LEMMA PlanTakes ==
  ASSUME call \in AllCalls
  PROVE  /\ GivesUpAt \in Nat
         /\ \E w : /\ Spends(Plan, w)
                   /\ w[1] < GivesUpAt \/ Outlived
                   /\ call.tool = "protected" => w[1] + LeaseQueueWait < GivesUpAt
<1>1. call.front \in Fronts /\ call.t \in Nat /\ call.tool \in DOMAIN Patience(call.front, call.t)
  BY CallIs
<1>2. /\ call.tool \in ToolNames /\ Worst(call.t)[call.tool] \in Nat /\ GivesUpAt \in Nat
      /\ Worst(call.t)[call.tool] < GivesUpAt \/ Outlived
      /\ call.tool = "protected" => Worst(call.t)[call.tool] + LeaseQueueWait < GivesUpAt
  BY <1>1, AllWait DEF GivesUpAt, Outlived, OutlivedBy
<1>3. PICK w : Spends(Plan, w) /\ w[1] <= Worst(call.t)[call.tool]
  BY <1>1, <1>2, AllTake DEF Plan, Takes
<1>4. w[1] \in Nat
  BY <1>3 DEF Spends, GoesOn
<1>5. w[1] < GivesUpAt \/ Outlived
  BY <1>2, <1>3, <1>4
<1>6. call.tool = "protected" => w[1] + LeaseQueueWait < GivesUpAt
  BY <1>2, <1>3, <1>4 DEF LeaseQueueWait
<1> QED BY <1>2, <1>3, <1>5, <1>6

LEMMA CallInitOK == CallInit => CallIInv
<1> SUFFICES ASSUME CallInit PROVE CallIInv
  OBVIOUS
<1>1. /\ call \in AllCalls
      /\ place = 0 /\ elapsed = 0 /\ queued = FALSE /\ failure = "none"
      /\ attempt = 1 /\ sender = "waiting" /\ acts = 0
  BY DEF CallInit, AllCalls
<1>2. PICK w : /\ Spends(Plan, w)
               /\ w[1] < GivesUpAt \/ Outlived
               /\ call.tool = "protected" => w[1] + LeaseQueueWait < GivesUpAt
  BY <1>1, PlanTakes
<1>3. Len(Plan) \in Nat
  BY <1>2 DEF Spends, GoesOn
<1>4. CallTypeOK
  <2>1. 0 \in 0..(Len(Plan) + 1)
    BY <1>3
  <2> QED BY <1>1, <2>1 DEF CallTypeOK
<1>5. ActsOK
  BY <1>1 DEF ActsOK
<1>6. TimeOK
  BY <1>1, <1>2 DEF TimeOK
<1> QED BY <1>1, <1>4, <1>5, <1>6 DEF CallIInv, AnsweredInTime

(* A step to a place whose rest was allowed for is in time.                *)
LEMMA TimeGoesOn ==
  ASSUME CallIInv, call' = call, NEW w, Spends(Plan, w),
         w[1] < GivesUpAt \/ Outlived,
         call.tool = "protected" => w[1] + LeaseQueueWait < GivesUpAt,
         NEW d \in Nat, Pass(d), sender = "waiting",
         place' \in 1..(Len(Plan) + 1), queued' \in BOOLEAN,
         elapsed + d + w[place'] <= w[1] + QueueTime'
  PROVE  TimeOK' /\ AnsweredInTime' /\ elapsed' \in Nat
         /\ sender' \in {"waiting", "answered", "lost", "gave up"}
<1>1. elapsed \in Nat /\ elapsed' = elapsed + d /\ GivesUpAt \in Nat
  BY PlanTakes DEF CallIInv, CallTypeOK, Pass
<1>2. /\ Plan' = Plan /\ GivesUpAt' = GivesUpAt /\ Outlived' = Outlived
      /\ Spends(Plan, w)' = Spends(Plan, w)
  BY DEF Plan, GivesUpAt, Outlived, Spends, GoesOn
<1>3. w[1] \in Nat /\ w[place'] \in Nat /\ LeaseQueueWait \in Nat
  BY DEF Spends, GoesOn, LeaseQueueWait
<1>6. /\ QueueTime' \in Nat
      /\ queued' => QueueTime' = LeaseQueueWait
      /\ ~queued' => QueueTime' = 0
  BY DEF QueueTime, LeaseQueueWait
<1>7. elapsed' + w[place'] <= w[1] + QueueTime'
  BY <1>1, <1>3, <1>6
<1>4. TimeOK'
  BY <1>2, <1>3, <1>7 DEF TimeOK
<1>5. elapsed' \in Nat
  BY <1>1
<1>8. ASSUME elapsed' >= GivesUpAt, w[1] + QueueTime' < GivesUpAt
      PROVE  FALSE
  BY <1>1, <1>3, <1>5, <1>6, <1>7, <1>8, NotBoth
<1>9. w[1] + LeaseQueueWait < GivesUpAt => ~(elapsed' >= GivesUpAt)
  <2> SUFFICES ASSUME w[1] + LeaseQueueWait < GivesUpAt PROVE ~(elapsed' >= GivesUpAt)
    OBVIOUS
  <2>1. w[1] + QueueTime' <= w[1] + LeaseQueueWait
    BY <1>3, <1>6
  <2>2. w[1] + QueueTime' < GivesUpAt
    BY <1>1, <1>3, <1>6, <2>1
  <2> QED BY <1>8, <2>2
<1>10. (w[1] < GivesUpAt /\ ~queued') => ~(elapsed' >= GivesUpAt)
  <2> SUFFICES ASSUME w[1] < GivesUpAt, ~queued' PROVE ~(elapsed' >= GivesUpAt)
    OBVIOUS
  <2>1. w[1] + QueueTime' = w[1]
    BY <1>3, <1>6
  <2> QED BY <1>8, <2>1
<1>11. sender' = "gave up" => elapsed' >= GivesUpAt
  BY <1>1 DEF Pass
<1>12. AnsweredInTime'
  BY <1>2, <1>9, <1>10, <1>11 DEF AnsweredInTime
<1>13. sender' \in {"waiting", "answered", "lost", "gave up"}
  BY DEF Pass
<1> QED BY <1>4, <1>5, <1>12, <1>13

LEMMA CallStepOK == CallIInv /\ [CallNext]_callVars => CallIInv'
<1> SUFFICES ASSUME CallIInv, [CallNext]_callVars PROVE CallIInv'
  OBVIOUS
<1>1. CallTypeOK /\ ActsOK /\ AnsweredInTime
  BY DEF CallIInv
<1>2. PICK w :
        /\ Spends(Plan, w)
        /\ w[1] < GivesUpAt \/ Outlived
        /\ call.tool = "protected" => w[1] + LeaseQueueWait < GivesUpAt
        /\ place = 0 => elapsed = 0 /\ ~queued
        /\ place # 0 => elapsed + w[place] <= w[1] + QueueTime
  BY DEF CallIInv, TimeOK
<1>3. Len(Plan) \in Nat /\ Len(Plan) >= 1 /\ DOMAIN Plan = 1..Len(Plan)
  BY <1>2 DEF Spends, GoesOn
<1> DEFINE last == Len(Plan) + 1
<1>4. /\ place \in 0..last /\ elapsed \in Nat /\ queued \in BOOLEAN /\ acts \in Nat
      /\ Lag \in Nat /\ Prompt \in Nat /\ LeaseQueueWait = 15000
  <2>1. /\ place \in 0..last /\ elapsed \in Nat /\ queued \in BOOLEAN /\ acts \in Nat
    BY <1>1 DEF CallTypeOK
  <2>2. LeaseQueueWait = 15000
    BY DEF LeaseQueueWait
  <2> QED BY <2>1, <2>2, Slack
<1>24. QueueTime \in Nat /\ (~queued => QueueTime = 0)
  BY <1>4, QueueTimeIs
<1>25. (queued' = queued) => QueueTime' = QueueTime
  BY DEF QueueTime
<1>5. last \in 2..last /\ last \in 1..last /\ 1 \in 1..last
  BY <1>3
<1>6. w \in [1..last -> Nat] /\ w[last] = 0 /\ \A i \in 1..last : w[i] \in Nat
  BY <1>2 DEF Spends
<1>7. \A i \in 1..Len(Plan) :
        /\ Plan[i] \in CallStages /\ Plan[i].ok \cup Plan[i].bad \subseteq 2..last
        /\ Plan[i].limit \in Nat /\ Plan[i].own \in Nat
        /\ w[i] >= Prompt /\ w[i] >= Lag
        /\ \A j \in Plan[i].ok : w[i] >= Plan[i].own + Prompt + w[j] /\ w[i] >= Prompt + w[j]
        /\ \A j \in Plan[i].bad : w[i] >= Plan[i].limit + Lag + w[j] /\ w[i] >= Prompt + w[j]
  <2> TAKE i \in 1..Len(Plan)
  <2>1. Plan \in Seq(CallStages)
    BY <1>2 DEF Spends, GoesOn
  <2>2. Plan[i] \in CallStages
    BY <2>1
  <2> QED BY <1>2, <2>2 DEF Spends, GoesOn, CallStages
<1>8. w[1] >= Lag /\ w[1] \in Nat
  BY <1>3, <1>5, <1>6, <1>7
<1>26. w[1] + QueueTime \in Nat
  BY <1>8, <1>24
<1>27. ASSUME NEW d \in Nat, NEW i \in 1..last, NEW j \in 1..last, w[i] >= d + w[j],
              elapsed + w[i] <= w[1] + QueueTime, queued' = queued
       PROVE  elapsed + d + w[j] <= w[1] + QueueTime'
  <2>1. w[i] \in Nat /\ w[j] \in Nat
    BY <1>6, <1>27
  <2>2. elapsed + d + w[j] <= w[1] + QueueTime
    BY <1>4, <1>26, <1>27, <2>1, StillLeft
  <2> QED BY <1>25, <1>27, <2>2
(* A step within the attempt keeps the call, ends up at a later place, and *)
(* leaves what remains within what was allowed.                            *)
<1>9. ASSUME NEW d \in Nat, Pass(d), sender = "waiting", call' = call,
             place' \in 1..last, queued' \in BOOLEAN,
             elapsed + d + w[place'] <= w[1] + QueueTime',
             acts' \in Nat, ActsOK'
      PROVE  CallIInv'
  <2>1. TimeOK' /\ AnsweredInTime' /\ elapsed' \in Nat
        /\ sender' \in {"waiting", "answered", "lost", "gave up"}
    BY <1>2, <1>9, TimeGoesOn
  <2>2. Plan' = Plan
    BY <1>9 DEF Plan
  <2>3. place' \in 0..(Len(Plan') + 1)
    BY <1>3, <1>9, <2>2
  <2>4. CallTypeOK'
    BY <1>1, <1>9, <2>1, <2>3 DEF CallTypeOK
  <2> QED BY <1>9, <2>1, <2>4 DEF CallIInv
<1>10. CASE RefuseCall
  <2>1. /\ sender = "waiting" /\ place = 0 /\ place' = last /\ failure' = "invalid_arguments"
        /\ Pass(Lag) /\ UNCHANGED <<call, queued, attempt, acts>>
    BY <1>10 DEF RefuseCall
  <2>2. elapsed + Lag + w[place'] <= w[1] + QueueTime'
    <3>1. elapsed = 0 /\ w[place'] = 0 /\ QueueTime' = 0
      BY <1>2, <1>6, <1>24, <1>25, <2>1
    <3> QED BY <1>4, <1>8, <3>1
  <2>3. ActsOK'
    BY <1>1, <1>3, <2>1 DEF ActsOK
  <2> QED BY <1>4, <1>5, <1>9, <2>1, <2>2, <2>3
<1>11. CASE Granted
  <2>1. PICK d \in Queueing :
          /\ sender = "waiting" /\ place = 0 /\ place' = 1
          /\ queued' = (d > 0) /\ Pass(d) /\ UNCHANGED <<call, failure, attempt, acts>>
    BY <1>11 DEF Granted
  <2>2. d \in Nat /\ d <= LeaseQueueWait
    <3>1. d \in 0..(LeaseQueueWait - 1)
      BY CallConstants
    <3> QED BY <1>4, <3>1
  <2>3. elapsed + d + w[place'] <= w[1] + QueueTime'
    <3>1. elapsed = 0 /\ place' = 1
      BY <1>2, <2>1
    <3>2. CASE d > 0
      <4>1. QueueTime' = LeaseQueueWait
        BY <2>1, <3>2 DEF QueueTime
      <4> QED BY <1>4, <1>8, <2>2, <3>1, <4>1
    <3>3. CASE ~(d > 0)
      <4>1. d = 0
        BY <2>2, <3>3
      <4>2. ~queued'
        BY <2>1, <3>3
      <4>3. QueueTime' = 0
        BY <4>2 DEF QueueTime
      <4> QED BY <1>4, <1>8, <3>1, <4>1, <4>3
    <3> QED BY <3>2, <3>3
  <2>4. ActsOK'
    <3>1. failure # "stale_ref" /\ acts = 0
      BY <1>1, <1>3, <2>1 DEF ActsOK
    <3> QED BY <2>1, <3>1 DEF ActsOK
  <2> QED BY <1>4, <1>5, <1>9, <2>1, <2>2, <2>3, <2>4
<1>12. CASE Busy
  <2>1. /\ sender = "waiting" /\ place = 0 /\ place' = last /\ failure' = "resource_busy"
        /\ queued' = TRUE /\ Pass(LeaseQueueWait) /\ UNCHANGED <<call, attempt, acts>>
    BY <1>12 DEF Busy
  <2>2. elapsed + LeaseQueueWait + w[place'] <= w[1] + QueueTime'
    <3>1. elapsed = 0 /\ w[place'] = 0
      BY <1>2, <1>6, <2>1
    <3>2. QueueTime' = LeaseQueueWait
      BY <2>1 DEF QueueTime
    <3> QED BY <1>4, <1>8, <3>1, <3>2
  <2>3. ActsOK'
    BY <1>1, <1>3, <2>1 DEF ActsOK
  <2>4. queued' \in BOOLEAN /\ LeaseQueueWait \in Nat /\ acts' \in Nat
    BY <1>4, <2>1
  <2> QED BY <1>5, <1>9, <2>1, <2>2, <2>3, <2>4
(* The steps of a script.                                                  *)
<1>13. ASSUME InScript
       PROVE  /\ sender = "waiting" /\ place \in 1..Len(Plan) /\ failure # "stale_ref"
              /\ elapsed + w[place] <= w[1] + QueueTime
  BY <1>1, <1>2, <1>3, <1>13 DEF InScript, ActsOK
<1>14. ASSUME InScript, Act \/ UNCHANGED acts, call' = call, place' \in 2..last,
              failure' # "stale_ref"
       PROVE  acts' \in Nat /\ ActsOK'
  <2>1. acts' = acts \/ (place = 1 /\ call.tool \in Acting /\ acts' = acts + 1)
    BY <1>14 DEF Act
  <2>2. place' # 0 /\ place' # 1
    BY <1>14
  <2> QED BY <1>1, <1>4, <1>14, <2>1, <2>2 DEF ActsOK
<1>15. CASE PageReturns
  <2>1. InScript /\ place' \in Plan[place].ok /\ Act /\ UNCHANGED <<call, queued, failure, attempt>>
    BY <1>15 DEF PageReturns
  <2>2. PICK d \in {0, Plan[place].own} : Pass(d + Prompt)
    BY <1>15 DEF PageReturns
  <2>3. place \in 1..Len(Plan) /\ place' \in 2..last /\ place' \in 1..last
    BY <1>3, <1>7, <1>13, <2>1
  <2>4. d \in Nat /\ w[place] >= d + Prompt + w[place'] /\ w[place] \in Nat /\ w[place'] \in Nat
    <3>1. w[place] >= Plan[place].own + Prompt + w[place'] /\ w[place] >= Prompt + w[place']
      BY <1>7, <2>1, <2>3
    <3>2. Plan[place].own \in Nat /\ w[place] \in Nat /\ w[place'] \in Nat
      BY <1>3, <1>6, <1>7, <2>3
    <3> QED BY <1>4, <3>1, <3>2
  <2>5. elapsed + (d + Prompt) + w[place'] <= w[1] + QueueTime'
    <3>1. d + Prompt \in Nat /\ w[place] >= (d + Prompt) + w[place'] /\ place \in 1..last
      BY <1>3, <1>4, <2>3, <2>4
    <3> QED BY <1>13, <1>27, <2>1, <2>3, <3>1
  <2>6. acts' \in Nat /\ ActsOK'
    BY <1>13, <1>14, <2>1, <2>3
  <2>7. d + Prompt \in Nat
    BY <1>4, <2>4
  <2> QED BY <1>4, <1>9, <1>13, <2>1, <2>2, <2>3, <2>5, <2>6, <2>7
<1>16. CASE PageThrows
  <2>1. /\ InScript /\ place' \in Plan[place].bad /\ Pass(Prompt)
        /\ failure' = IF call.tool = "protected" THEN "capture_context_changed" ELSE "error"
        /\ Act \/ UNCHANGED acts
        /\ UNCHANGED <<call, queued, attempt>>
    BY <1>16 DEF PageThrows
  <2>2. place \in 1..Len(Plan) /\ place' \in 2..last /\ place' \in 1..last
    BY <1>3, <1>7, <1>13, <2>1
  <2>3. w[place] >= Prompt + w[place'] /\ w[place] \in Nat /\ w[place'] \in Nat
    BY <1>3, <1>6, <1>7, <2>1, <2>2
  <2>4. elapsed + Prompt + w[place'] <= w[1] + QueueTime'
    <3>1. place \in 1..last
      BY <1>3, <2>2
    <3>2. elapsed + w[place] <= w[1] + QueueTime /\ queued' = queued
      BY <1>13, <2>1
    <3> QED BY <1>4, <1>27, <2>2, <2>3, <3>1, <3>2
  <2>5. acts' \in Nat /\ ActsOK'
    BY <1>14, <2>1, <2>2
  <2> QED BY <1>4, <1>9, <1>13, <2>1, <2>2, <2>4, <2>5
<1>17. CASE RefMissed
  <2>1. /\ InScript /\ place = 1 /\ place' = last /\ failure' = "stale_ref"
        /\ Pass(Prompt) /\ UNCHANGED <<call, queued, attempt, acts>>
    BY <1>17 DEF RefMissed
  <2>2. w[1] >= Prompt
    BY <1>3, <1>7
  <2>3. elapsed + Prompt + w[place'] <= w[1] + QueueTime'
    <3>1. w[1] >= Prompt + w[last]
      BY <1>4, <1>6, <1>8, <2>2
    <3>2. elapsed + w[1] <= w[1] + QueueTime /\ queued' = queued
      BY <1>13, <2>1
    <3>3. elapsed + Prompt + w[last] <= w[1] + QueueTime'
      BY <1>4, <1>5, <1>27, <3>1, <3>2
    <3> QED BY <2>1, <3>3
  <2>4. ActsOK'
    <3>1. acts = 0
      BY <1>1, <2>1 DEF ActsOK
    <3>2. Plan' = Plan
      BY <2>1 DEF Plan
    <3> QED BY <2>1, <3>1, <3>2 DEF ActsOK
  <2> QED BY <1>4, <1>5, <1>9, <1>13, <2>1, <2>3, <2>4
<1>18. CASE PageSilent
  <2>1. /\ InScript /\ place' \in Plan[place].bad /\ failure' = "outcome_unknown"
        /\ Pass(Plan[place].limit + Lag)
    BY <1>18 DEF PageSilent
  <2>2. UNCHANGED <<call, queued, attempt>> /\ (Act \/ UNCHANGED acts)
    BY <1>18 DEF PageSilent
  <2>3. place \in 1..Len(Plan) /\ place' \in 2..last /\ place' \in 1..last
    BY <1>3, <1>7, <1>13, <1>18 DEF PageSilent
  <2>4. /\ w[place] >= Plan[place].limit + Lag + w[place']
        /\ w[place] \in Nat /\ w[place'] \in Nat /\ Plan[place].limit \in Nat
    BY <1>3, <1>6, <1>7, <1>18, <2>3 DEF PageSilent
  <2>5. elapsed + (Plan[place].limit + Lag) + w[place'] <=
          w[1] + QueueTime'
    <3>1. /\ Plan[place].limit + Lag \in Nat
          /\ w[place] >= (Plan[place].limit + Lag) + w[place'] /\ place \in 1..last
      BY <1>3, <1>4, <2>3, <2>4
    <3>2. InScript
      BY <1>18 DEF PageSilent
    <3> QED BY <1>13, <1>27, <2>2, <2>3, <3>1, <3>2
  <2>6. acts' \in Nat /\ ActsOK'
    BY <1>14, <1>18, <2>2, <2>3 DEF PageSilent
  <2>7. Plan[place].limit + Lag \in Nat
    BY <1>4, <2>4
  <2> QED BY <1>4, <1>9, <1>13, <1>18, <2>2, <2>3, <2>5, <2>6, <2>7 DEF PageSilent
<1>19. CASE ConnectionLost
  <2>1. /\ sender = "waiting" /\ place # last /\ place' = last /\ failure' = "connection_closed"
        /\ acts' \in {acts, IF place <= 1 /\ call.tool \in Acting THEN acts + 1 ELSE acts}
        /\ UNCHANGED <<call, elapsed, queued, attempt, sender>>
    BY <1>19 DEF ConnectionLost, Replying
  <2>2. /\ Plan' = Plan /\ GivesUpAt' = GivesUpAt /\ Outlived' = Outlived
        /\ Spends(Plan, w)' = Spends(Plan, w)
    BY <2>1 DEF Plan, GivesUpAt, Outlived, Spends, GoesOn
  <2>3. elapsed + w[last] <= w[1] + QueueTime
    <3>1. CASE place = 0
      <4>1. elapsed = 0 /\ w[last] = 0
        BY <1>2, <1>6, <3>1
      <4> QED BY <1>26, <4>1
    <3>2. CASE place # 0
      <4>1. place \in 1..last
        BY <1>3, <1>4, <3>2
      <4>2. w[place] \in Nat
        BY <1>6, <4>1
      <4>3. elapsed + w[place] <= w[1] + QueueTime /\ w[last] = 0
        BY <1>2, <1>6, <3>2
      <4> QED BY <1>4, <1>26, <4>2, <4>3
    <3> QED BY <3>1, <3>2
  <2>4. TimeOK'
    <3>1. elapsed' + w[place'] <= w[1] + QueueTime'
      BY <1>25, <2>1, <2>3
    <3>2. place' # 0
      BY <1>3, <2>1
    <3> QED BY <1>2, <2>1, <2>2, <3>1, <3>2 DEF TimeOK
  <2>5. ActsOK' /\ acts' \in Nat
    <3>1. acts' = acts \/ (place \in {0, 1} /\ call.tool \in Acting /\ acts' = acts + 1)
      BY <1>4, <2>1
    <3> QED BY <1>1, <1>3, <1>4, <2>1, <2>2, <3>1 DEF ActsOK
  <2>6. CallTypeOK'
    <3>1. place' \in 0..(Len(Plan') + 1)
      BY <1>3, <2>1, <2>2
    <3> QED BY <1>1, <2>1, <2>5, <3>1 DEF CallTypeOK
  <2>7. AnsweredInTime'
    BY <1>1, <2>1, <2>2 DEF AnsweredInTime
  <2> QED BY <2>4, <2>5, <2>6, <2>7 DEF CallIInv
<1>20. CASE SendAgain
  <2>1. /\ sender = "waiting" /\ place = last /\ SentAgain
        /\ place' = 0 /\ elapsed' = 0 /\ queued' = FALSE /\ failure' = "none"
        /\ UNCHANGED <<call, sender, acts>>
    BY <1>20 DEF SendAgain, Replying
  <2>2. /\ Plan' = Plan /\ GivesUpAt' = GivesUpAt /\ Outlived' = Outlived
        /\ Spends(Plan, w)' = Spends(Plan, w)
    BY <2>1 DEF Plan, GivesUpAt, Outlived, Spends, GoesOn
  <2>3. acts = 0
    BY <1>1, <2>1 DEF ActsOK, SentAgain, RefMiss, Acting
  <2>4. TimeOK'
    BY <1>2, <2>1, <2>2 DEF TimeOK
  <2>5. ActsOK'
    BY <2>1, <2>3 DEF ActsOK
  <2>6. CallTypeOK'
    <3>1. place' \in 0..(Len(Plan') + 1)
      BY <1>3, <2>1, <2>2
    <3> QED BY <1>1, <2>1, <3>1 DEF CallTypeOK
  <2>7. AnsweredInTime'
    BY <2>1 DEF AnsweredInTime
  <2> QED BY <2>4, <2>5, <2>6, <2>7 DEF CallIInv
<1>21. CASE sender' \in {"answered", "lost"} /\ UNCHANGED <<call, place, elapsed, queued, failure, attempt, acts>>
  <2>1. /\ Plan' = Plan /\ GivesUpAt' = GivesUpAt /\ Outlived' = Outlived
        /\ Spends(Plan, w)' = Spends(Plan, w)
    BY <1>21 DEF Plan, GivesUpAt, Outlived, Spends, GoesOn
  <2>2. TimeOK'
    BY <1>2, <1>21, <1>25, <2>1 DEF TimeOK
  <2>3. ActsOK' /\ CallTypeOK' /\ AnsweredInTime'
    BY <1>1, <1>21, <2>1 DEF ActsOK, CallTypeOK, AnsweredInTime
  <2> QED BY <2>2, <2>3 DEF CallIInv
<1>22. CASE UNCHANGED callVars
  <2>1. /\ Plan' = Plan /\ GivesUpAt' = GivesUpAt /\ Outlived' = Outlived
        /\ Spends(Plan, w)' = Spends(Plan, w)
    BY <1>22 DEF callVars, Plan, GivesUpAt, Outlived, Spends, GoesOn
  <2>2. TimeOK'
    BY <1>2, <1>22, <1>25, <2>1 DEF callVars, TimeOK
  <2>3. ActsOK' /\ CallTypeOK' /\ AnsweredInTime'
    BY <1>1, <1>22, <2>1 DEF callVars, ActsOK, CallTypeOK, AnsweredInTime
  <2> QED BY <2>2, <2>3 DEF CallIInv
<1>23. CASE TellCaller
  BY <1>21, <1>23 DEF TellCaller
<1> QED BY <1>10, <1>11, <1>12, <1>15, <1>16, <1>17, <1>18, <1>19, <1>20, <1>22, <1>23
        DEF CallNext

(* Every state of a call, whatever its tool, its time and its page, is one *)
(* of CallIInv.                                                            *)
THEOREM CallTimesInvariance == CallSpec => []CallIInv
<1>1. CallInit => CallIInv
  BY CallInitOK
<1>2. CallIInv /\ [CallNext]_callVars => CallIInv'
  BY CallStepOK
<1> QED BY <1>1, <1>2, PTL DEF CallSpec

(* For every timeout that a caller may pass: no caller gives up while the  *)
(* plugin still answers, but one that waited for its lease or asked the    *)
(* standalone server for a long drag (crates/client/src/lib.rs:27).        *)
THEOREM CallersOutwaitThePlugin == CallSpec => []AnsweredInTime
<1>1. CallIInv => AnsweredInTime
  BY DEF CallIInv
<1> QED BY <1>1, CallTimesInvariance, PTL

(* A call that is sent again did not act before                            *)
(* (crates/cli/src/commands.rs:379 and 1133).                              *)
THEOREM CallsActOnce == CallSpec => []ActsOnce
<1>1. CallIInv => ActsOnce
  BY DEF CallIInv, ActsOK, ActsOnce
<1> QED BY <1>1, CallTimesInvariance, PTL
=============================================================================
