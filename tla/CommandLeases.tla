-------------------------- MODULE CommandLeases --------------------------
(***************************************************************************)
(* How a command of a client uses the arbiter (handle_command of           *)
(* plugin/src/server.rs, call_raw of plugin/src/mcp_tools.rs): it queues   *)
(* for a lease, sends one script to the page through the bridge            *)
(* (plugin/src/bridge.rs), waits for the result or a timeout, quarantines  *)
(* its lease when the outcome leaves an effect possible, and drops it.     *)
(* After a timeout the bridge keeps listening for the result, and settles  *)
(* the quarantine with it on its own, at any time.                         *)
(*                                                                         *)
(* A command is named by the Owner that holds its lease, and its bridge    *)
(* request by the same name.                                               *)
(***************************************************************************)
EXTENDS ResourceArbiter

CONSTANTS
  Http     \* commands of the HTTP endpoint, dropped when the client leaves

ASSUME CommandAssumption == Owner = RequestId /\ Http \subseteq Owner

VARIABLES
  step,       \* where handle_command is
  answer,     \* the outcome handle_command classified
  page,       \* the script in the page
  result,     \* what has arrived for the script at the bridge
  watch,      \* requests with a late settlement task
  lifted      \* history: isolation ended by the TTL, the host or a disconnect

cmdVars == <<step, answer, page, result, watch, lifted>>
allVars == <<vars, cmdVars>>

Step == {"new", "acquiring", "leased", "sent", "answered", "isolated", "done"}
Answer == {"none", "refused", "ok", "failed", "unknown"}

CommandTypeOK ==
  /\ TypeOK
  /\ step \in [Owner -> Step]
  /\ answer \in [Owner -> Answer]
  /\ page \in [Owner -> {"none", "running", "over"}]
  /\ result \in [Owner -> {"none", "known", "failed", "lost"}]
  /\ watch \subseteq Owner
  /\ lifted \subseteq Owner

-----------------------------------------------------------------------------
(* handle_command                                                          *)

HandleCommand(c, rs, wait) ==
  /\ step[c] = "new"
  /\ Request(c, rs, wait)
  /\ step' = [step EXCEPT ![c] = "acquiring"]
  /\ UNCHANGED <<answer, page, result, watch, lifted>>

Granted(c) ==
  /\ Grant(c)
  /\ step' = [step EXCEPT ![c] = "leased"]
  /\ UNCHANGED <<answer, page, result, watch, lifted>>

(* resource_busy: the command is answered without having done anything.    *)
Refused(c) ==
  /\ Refuse(c)
  /\ step' = [step EXCEPT ![c] = "done"]
  /\ answer' = [answer EXCEPT ![c] = "refused"]
  /\ UNCHANGED <<page, result, watch, lifted>>

(* execute_page_script: the script is handed to the page, or refused       *)
(* before it (no window, no connection, no time left).                     *)
Send(c) ==
  /\ step[c] = "leased"
  /\ \/ /\ step' = [step EXCEPT ![c] = "sent"]
        /\ page' = [page EXCEPT ![c] = "running"]
        /\ UNCHANGED answer
     \/ /\ step' = [step EXCEPT ![c] = "answered"]
        /\ answer' = [answer EXCEPT ![c] = "refused"]
        /\ UNCHANGED page
  /\ UNCHANGED <<vars, result, watch, lifted>>

AnswerTo(arrived) ==
  CASE arrived = "known"  -> "ok"
    [] arrived = "failed" -> "failed"
    [] OTHER              -> "unknown"

Receive(c) ==
  /\ step[c] = "sent" /\ result[c] # "none"
  /\ step' = [step EXCEPT ![c] = "answered"]
  /\ answer' = [answer EXCEPT ![c] = AnswerTo(result[c])]
  /\ UNCHANGED <<vars, page, result, watch, lifted>>

(* The deadline of the command: the pending entry stays, for the late      *)
(* settlement.                                                             *)
TimeOut(c) ==
  /\ step[c] = "sent" /\ result[c] = "none"
  /\ step' = [step EXCEPT ![c] = "answered"]
  /\ answer' = [answer EXCEPT ![c] = "unknown"]
  /\ watch' = watch \cup {c}
  /\ UNCHANGED <<vars, page, result, lifted>>

(* Mutant of RequiresQuarantine: only a reported failure isolates.         *)
RequiresQuarantineIfFailed(outcome) == outcome = "failed"

RequiresQuarantine(outcome) == outcome \in {"failed", "unknown"}

Isolate(c) ==
  /\ step[c] = "answered" /\ RequiresQuarantine(answer[c])
  /\ Quarantine(c, c)
  /\ step' = [step EXCEPT ![c] = "isolated"]
  /\ UNCHANGED <<answer, page, result, watch, lifted>>

Finish(c) ==
  /\ \/ step[c] = "isolated"
     \/ step[c] = "answered" /\ ~RequiresQuarantine(answer[c])
  /\ DropLease(c)
  /\ step' = [step EXCEPT ![c] = "done"]
  /\ UNCHANGED <<answer, page, result, watch, lifted>>

(* The client of an HTTP request leaves: the handler is dropped where it   *)
(* awaits, with its lease and its pending entry.                           *)
AbandonQueued(c) ==
  /\ c \in Http
  /\ section # c
  /\ step[c] = "acquiring"
  /\ stage' = [stage EXCEPT ![c] = "idle"]
  /\ want' = [want EXCEPT ![c] = {}]
  /\ deadline' = [deadline EXCEPT ![c] = 0]
  /\ waiting' = waiting \ {c}
  /\ step' = [step EXCEPT ![c] = "done"]
  /\ UNCHANGED <<held, late, section, now, recovered,
                 answer, page, result, watch, lifted>>

AbandonSent(c) ==
  /\ c \in Http
  /\ step[c] = "sent"
  /\ DropLease(c)
  /\ step' = [step EXCEPT ![c] = "done"]
  /\ lifted' = lifted \cup {c}
  /\ UNCHANGED <<answer, page, result, watch>>

-----------------------------------------------------------------------------
(* The page and the bridge                                                 *)

(* The script ends; its result reaches the bridge unless it was lost.      *)
PageEnds(c, outcome) ==
  /\ page[c] = "running"
  /\ page' = [page EXCEPT ![c] = "over"]
  /\ result' = IF result[c] = "none" THEN [result EXCEPT ![c] = outcome] ELSE result
  /\ UNCHANGED <<vars, step, answer, watch, lifted>>

(* The connection goes: the pending request is rejected, the script may    *)
(* go on (reject_connection_pending).                                      *)
Disconnect(c) ==
  /\ page[c] = "running" /\ result[c] = "none"
  /\ result' = [result EXCEPT ![c] = "lost"]
  /\ UNCHANGED <<vars, step, answer, page, watch, lifted>>

(* The late settlement task ends with the result, or with its window.      *)
Settle(c) ==
  /\ c \in watch
  /\ SettleLate(c, result[c] = "known")
  /\ watch' = watch \ {c}
  /\ result' = IF result[c] = "none" THEN [result EXCEPT ![c] = "lost"] ELSE result
  /\ UNCHANGED <<step, answer, page, lifted>>

SweepCommand(c) ==
  /\ Sweep(c)
  /\ lifted' = lifted \cup {c}
  /\ UNCHANGED <<step, answer, page, result, watch>>

(* `resources release', by request.                                        *)
HostReleases(c) ==
  /\ c \in DOMAIN held /\ held[c].quarantined
  /\ Release(c)
  /\ lifted' = lifted \cup {c}
  /\ UNCHANGED <<step, answer, page, result, watch>>

-----------------------------------------------------------------------------
CommandInit ==
  /\ held = [o \in {} |-> 0]
  /\ late = <<>>
  /\ stage = [o \in Owner |-> "idle"]
  /\ want = [o \in Owner |-> {}]
  /\ deadline = [o \in Owner |-> 0]
  /\ waiting = {}
  /\ section = Free
  /\ now = 0
  /\ recovered = TRUE     \* no history: the journal's part is ResourceArbiter's
  /\ step = [c \in Owner |-> "new"]
  /\ answer = [c \in Owner |-> "none"]
  /\ page = [c \in Owner |-> "none"]
  /\ result = [c \in Owner |-> "none"]
  /\ watch = {}
  /\ lifted = {}

(* The steps of handle_command that need nobody else.                      *)
Proceed(c) ==
  \/ Granted(c)
  \/ Refused(c)
  \/ (Park(c) \/ Wake(c)) /\ UNCHANGED cmdVars
  \/ Send(c)
  \/ Receive(c)
  \/ TimeOut(c)
  \/ Isolate(c)
  \/ Finish(c)

Lock(c) == EnterAcquire(c) /\ UNCHANGED cmdVars

Clock == Tick /\ UNCHANGED cmdVars

CommandNext ==
  \/ \E c \in Owner :
       \/ \E rs \in Scopes, wait \in Waits : HandleCommand(c, rs, wait)
       \/ Lock(c)
       \/ Proceed(c)
       \/ AbandonQueued(c)
       \/ AbandonSent(c)
       \/ \E outcome \in {"known", "failed"} : PageEnds(c, outcome)
       \/ Disconnect(c)
       \/ Settle(c)
       \/ SweepCommand(c)
       \/ HostReleases(c)
  \/ Clock

CommandSpec == CommandInit /\ [][CommandNext]_allVars

(* The runtime polls a handler that can go on, the mutex is handed to      *)
(* every caller that keeps asking for it, and time passes.                 *)
Scheduled ==
  \A c \in Owner :
    WF_allVars(Proceed(c)) /\ SF_allVars(Lock(c)) /\ WF_allVars(SweepCommand(c))

Fairness == Scheduled /\ SF_allVars(Clock)

FairSpec == CommandSpec /\ Fairness

-----------------------------------------------------------------------------
(* Properties                                                              *)

(* Two scripts that claim conflicting resources are in the page at the     *)
(* same time only if the isolation of one of them was lifted without       *)
(* knowing its outcome: by its TTL, by the host, or by a client that left. *)
(* No interleaving of timeouts, late results and grants gets there else.   *)
ClaimedBy(c) == c \in DOMAIN held \/ c \in lifted

ExclusiveEffects ==
  /\ \A c \in Owner : page[c] = "running" => ClaimedBy(c)
  /\ \A c, d \in DOMAIN held :
       /\ c # d /\ page[c] = "running" /\ page[d] = "running"
       /\ Clash(held[c].resources, held[d].resources)
       => c \in lifted \/ d \in lifted

(* Every command is answered, whatever holds the resources it asks for:    *)
(* the queue wait is bounded, and so is the wait for the page.             *)
EveryCommandAnswered ==
  \A c \in Owner : step[c] = "acquiring" ~> step[c] = "done"

(* docs/workflow-design.md: `Unknown write outcomes retain quarantine,     *)
(* including after client disconnect'.  While a script may still act, the  *)
(* resources of a command that gave no answer stay claimed, unless the TTL *)
(* or the host lifted it.                                                  *)
DisconnectKeepsQuarantine ==
  \A c \in Owner :
    page[c] = "running" /\ step[c] = "done" /\ answer[c] = "none"
      => c \in DOMAIN held

=============================================================================
