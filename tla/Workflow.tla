----------------------------- MODULE Workflow -----------------------------
(***************************************************************************)
(* The workflow engine of plugin/src/workflow/service.rs: runs submitted   *)
(* under a key, each driven by a task that takes a slot and a lease on the *)
(* whole application, executes its steps in order, records every decision  *)
(* in the journal before it acts on it, and stops at the first step whose  *)
(* outcome is not a verified success; cancellation, continuation and       *)
(* reconciliation by clients in between; crashes of the application and    *)
(* the recovery of its history.                                            *)
(*                                                                         *)
(* The arbiter is its abstraction, Isolation.  The journal is what         *)
(* DurableLog promises, seen through the latest record of each run.  Every *)
(* wait of a driver is bounded by a deadline, and may time out at any      *)
(* moment.                                                                 *)
(***************************************************************************)
EXTENDS Naturals, FiniteSets

CONSTANTS
  Key,          \* run keys; a run is known by the key it was submitted under
  Other,        \* a holder of the lease that is not a run (a direct command)
  Steps,        \* how many steps the workflow has
  Writing,      \* the steps that act on the page (click, fill, type, press)
  Expecting,    \* the steps with a postcondition
  Slots,        \* runs driven at the same time
  MaxLive,      \* MAX_LIVE_RUNS, queued or driven
  Faults,       \* bound: of a crash, and a writer poisoned or a journal torn, those met
  NoRun,        \* no report
  NoOutcome     \* no blockedOutcome

ASSUME WorkflowAssumption ==
  /\ Steps \in Nat \ {0}
  /\ Writing \subseteq 1..Steps /\ Expecting \subseteq 1..Steps
  /\ Slots \in Nat \ {0} /\ MaxLive \in Nat \ {0}
  /\ Other \notin Key
  /\ Faults \subseteq {"crash", "poisoned", "torn"}

VARIABLES
  report,      \* the report of each run in memory, and what is persisted of it
  executing,   \* runs with a driver
  cancelled,   \* runs whose cancellation flag is set
  historical,  \* runs loaded from the journal
  resumed,     \* runs with recoveryOccurred
  index,       \* steps done, per run
  pc,          \* where the driver is
  reply,       \* how the current step was executed
  ending,      \* the arguments of the driver's call of stop
  leaving,     \* drivers after stop that still hold their lease and slot
  reconciling, \* runs with a reconciliation under way
  disk,        \* the latest durable report of each run
  journal,     \* up, poisoned until a restart, or torn for good
  claims, open,   \* the arbiter
  lifted,      \* history: quarantines lifted by their TTL or the host
  flying,      \* scripts the page has and has not run
  effects,     \* history: how often each step acted on the page
  verified     \* history: the steps whose result and postcondition were seen

runVars == <<report, executing, cancelled, historical, resumed, index>>
driverVars == <<pc, reply, ending, leaving>>
journalVars == <<disk, journal>>
arbiterVars == <<claims, open>>
pageVars == <<flying, effects>>
vars == <<runVars, driverVars, reconciling, journalVars, arbiterVars, lifted,
          pageVars, verified>>

-----------------------------------------------------------------------------
(* Types                                                                   *)

Status == {"queued", "running", "cancelling", "paused", "completed", "failed",
           "cancelled", "interrupted"}
Execution == {"not_dispatched", "completed", "failed", "outcome_unknown"}
Outcome == [execution: Execution, effect: {"none", "possible", "confirmed"}]
Report == [status: Status, outcome: Outcome \cup {NoOutcome}, mayHaveEffects: BOOLEAN,
           quarantined: BOOLEAN, next: SUBSET {"continue", "reconcile"}]
Ending == [status: Status, outcome: Outcome \cup {NoOutcome}]

(* What stands for no report and for no outcome is neither.                *)
ASSUME NothingAssumption == NoRun \notin Report /\ NoOutcome \notin Outcome

NoEnding == [status |-> "failed", outcome |-> NoOutcome]

PC == {"none", "slot", "lease", "start", "recheck", "head", "prepared", "intended",
       "asking", "sent", "replied", "unrecorded", "verify", "goal", "stop"}

TypeOK ==
  /\ report \in [Key -> Report \cup {NoRun}]
  /\ disk \in [Key -> Report \cup {NoRun}]
  /\ executing \subseteq Key /\ cancelled \subseteq Key
  /\ historical \subseteq Key /\ resumed \subseteq Key
  /\ leaving \subseteq Key /\ reconciling \subseteq Key
  /\ index \in [Key -> 0..Steps]
  /\ pc \in [Key -> PC]
  /\ reply \in [Key -> Execution \cup {"none", "unretained"}]
  /\ ending \in [Key -> Ending]
  /\ journal \in {"up", "poisoned", "torn"}
  /\ DOMAIN claims \subseteq Key \cup {Other} /\ open \in BOOLEAN
  /\ lifted \subseteq Key \cup {Other}
  /\ flying \subseteq Key \X (1..Steps)
  /\ effects \in [Key \X (1..Steps) -> 0..2]
  /\ verified \subseteq Key \X (1..Steps)

-----------------------------------------------------------------------------
(* The arbiter: every lease of the engine is on backend and ui together    *)

Everything == {"backend", "ui"}
Meet(rs, ss) == rs \cap ss # {}

Arbiter == INSTANCE Isolation WITH
  Owner <- Key \cup {Other}, Scopes <- {Everything}, Clash <- Meet

-----------------------------------------------------------------------------
(* The journal                                                             *)

(* An append is acknowledged; or refused, as it stands (too large, queue   *)
(* full, retention limit) or with the writer poisoned; or the record is    *)
(* there although its sync failed.                                         *)
Record(k, new, ok) ==
  \/ /\ ok /\ journal = "up"
     /\ disk' = [disk EXCEPT ![k] = new]
     /\ UNCHANGED journal
  \/ /\ ~ok
     /\ \/ UNCHANGED <<disk, journal>>
        \/ /\ journal = "up" /\ journal' \in Faults \ {"crash"}
           /\ UNCHANGED disk
        \/ /\ journal = "up" /\ journal' \in Faults \cap {"poisoned"}
           /\ disk' = [disk EXCEPT ![k] = new]

(* checkpoint: the report changes in memory whether or not it is recorded. *)
Checkpoint(k, new, ok) ==
  /\ report' = [report EXCEPT ![k] = new]
  /\ Record(k, new, ok)

-----------------------------------------------------------------------------
(* Clients                                                                 *)

Fresh == [status |-> "queued", outcome |-> NoOutcome, mayHaveEffects |-> FALSE,
          quarantined |-> FALSE, next |-> {}]

(* create: a key known to the registry returns its run; a new run starts   *)
(* only when its creation is on record.                                    *)
Submit(k, ok) ==
  /\ open /\ report[k] = NoRun
  /\ Cardinality(executing) < MaxLive
  /\ Record(k, Fresh, ok)
  /\ report' = [report EXCEPT ![k] = [Fresh EXCEPT !.status = IF ok THEN "queued" ELSE "failed"]]
  /\ executing' = IF ok THEN executing \cup {k} ELSE executing
  /\ pc' = [pc EXCEPT ![k] = IF ok THEN "slot" ELSE "none"]
  /\ UNCHANGED <<cancelled, historical, resumed, index, reply, ending, leaving,
                 reconciling, arbiterVars, lifted, pageVars, verified>>

(* workflow_cancel: the flag is set once; the report of a run at rest      *)
(* becomes cancelled at once unless it completed.                          *)
StatusCancelled(k) ==
  IF k \in executing THEN "cancelling"
  ELSE IF report[k].status = "completed" THEN "completed" ELSE "cancelled"

Cancel(k, ok) ==
  /\ report[k] # NoRun /\ k \notin historical \cup cancelled
  /\ cancelled' = cancelled \cup {k}
  /\ Checkpoint(k, [report[k] EXCEPT !.status = StatusCancelled(k)], ok)
  /\ UNCHANGED <<executing, historical, resumed, index, driverVars, reconciling,
                 arbiterVars, lifted, pageVars, verified>>

NotDispatched == [execution |-> "not_dispatched", effect |-> "none"]

(* Mutant of MayContinue: any paused run may go on.                        *)
MayContinueIfPaused(k) ==
  /\ report[k] # NoRun
  /\ k \notin executing \cup historical \cup cancelled
  /\ report[k].status = "paused"

(* Only a paused run whose step was not dispatched.                        *)
MayContinue(k) ==
  /\ report[k] # NoRun
  /\ k \notin executing \cup historical \cup cancelled
  /\ report[k].status = "paused" /\ report[k].outcome = NotDispatched

(* resume_run, continue.  A continuation that cannot be recorded leaves    *)
(* the run queued without a driver.                                        *)
Continue(k, ok) ==
  /\ MayContinue(k)
  /\ Checkpoint(k, [report[k] EXCEPT !.status = "queued"], ok)
  /\ resumed' = resumed \cup {k}
  /\ executing' = IF ok THEN executing \cup {k} ELSE executing
  /\ pc' = [pc EXCEPT ![k] = IF ok THEN "slot" ELSE "none"]
  /\ UNCHANGED <<cancelled, historical, index, reply, ending, leaving, reconciling,
                 arbiterVars, lifted, pageVars, verified>>

MayReconcile(k) ==
  /\ report[k] # NoRun /\ k \notin executing \cup historical
  /\ index[k] < Steps /\ index[k] + 1 \in Expecting

(* resume_run, reconcile: an observation, between two checkpoints; the run *)
(* may be cancelled or continued in between.                               *)
Reconcile(k, ok) ==
  /\ report[k] # NoRun /\ k \notin executing \cup historical
  /\ resumed' = resumed \cup {k}
  /\ Checkpoint(k, report[k], ok)
  /\ reconciling' = IF ok /\ MayReconcile(k) THEN reconciling \cup {k} ELSE reconciling
  /\ UNCHANGED <<executing, cancelled, historical, index, driverVars, arbiterVars,
                 lifted, pageVars, verified>>

Reconciled(k, ok) ==
  /\ k \in reconciling
  /\ reconciling' = reconciling \ {k}
  /\ Checkpoint(k, report[k], ok)
  /\ UNCHANGED <<executing, cancelled, historical, resumed, index, driverVars,
                 arbiterVars, lifted, pageVars, verified>>

-----------------------------------------------------------------------------
(* drive                                                                   *)

Step(k) == index[k] + 1
Goto(k, to) == pc' = [pc EXCEPT ![k] = to]

(* The driver will call stop with this status and outcome.                 *)
StopWith(k, status, outcome) ==
  /\ Goto(k, "stop")
  /\ ending' = [ending EXCEPT ![k] = [status |-> status, outcome |-> outcome]]

IfCancelled(k, status) == IF k \in cancelled THEN "cancelled" ELSE status

Quiet == UNCHANGED <<executing, cancelled, historical, resumed, index, leaving,
                     reconciling, lifted, verified>>

(* What keeps a slot: a driver past the semaphore.                         *)
Driving == {k \in Key : pc[k] \notin {"none", "slot"}}

TakeSlot(k) ==
  /\ pc[k] = "slot"
  /\ Cardinality(Driving) + Cardinality(leaving) < Slots
  /\ Goto(k, "lease")
  /\ Quiet /\ UNCHANGED <<report, reply, ending, journalVars, arbiterVars, pageVars>>

(* The deadline, or the notification of a cancellation.                    *)
LoseSlot(k) ==
  /\ pc[k] = "slot"
  /\ StopWith(k, IfCancelled(k, "failed"), NoOutcome)
  /\ Quiet /\ UNCHANGED <<report, reply, journalVars, arbiterVars, pageVars>>

(* Mutant of TakeLease: a quarantined lease does not stand in the way.     *)
TakeLeaseIfNotActive(k) ==
  /\ pc[k] = "lease"
  /\ \A o \in DOMAIN claims : claims[o].isolated
  /\ claims' = [o \in {k} |-> [resources |-> Everything, isolated |-> FALSE]]
  /\ Goto(k, "start")
  /\ Quiet /\ UNCHANGED <<report, reply, ending, journalVars, open, pageVars>>

TakeLease(k) ==
  /\ pc[k] = "lease"
  /\ Arbiter!Take(k, Everything)
  /\ Goto(k, "start")
  /\ Quiet /\ UNCHANGED <<report, reply, ending, journalVars, pageVars>>

FindBusy(k) ==
  /\ pc[k] = "lease"
  /\ DOMAIN claims # {}
  /\ StopWith(k, "paused", NotDispatched)
  /\ Quiet /\ UNCHANGED <<report, reply, journalVars, arbiterVars, pageVars>>

(* The driver gives up without stop: the run is paused where it is.        *)
Abort(k, new) ==
  /\ report' = [report EXCEPT ![k] = [new EXCEPT !.status = "paused"]]
  /\ executing' = executing \ {k}
  /\ leaving' = leaving \cup {k}
  /\ Goto(k, "none")

Start(k, ok) ==
  LET new == [report[k] EXCEPT !.status = "running"]
  IN  /\ pc[k] = "start"
      /\ Record(k, new, ok)
      /\ \/ /\ ok
            /\ report' = [report EXCEPT ![k] = new]
            /\ Goto(k, IF k \in resumed /\ index[k] \in Expecting THEN "recheck" ELSE "head")
            /\ UNCHANGED <<executing, leaving>>
         \/ ~ok /\ Abort(k, new)
      /\ UNCHANGED <<cancelled, historical, resumed, index, reply, ending, reconciling,
                     arbiterVars, lifted, pageVars, verified>>

(* A continuation observes the last verified postcondition again.          *)
Recheck(k) ==
  /\ pc[k] = "recheck"
  /\ \/ Goto(k, "head") /\ UNCHANGED ending
     \/ StopWith(k, IfCancelled(k, "failed"), NoOutcome)
     \/ k \notin cancelled /\ StopWith(k, "paused", NotDispatched)
  /\ Quiet /\ UNCHANGED <<report, reply, journalVars, arbiterVars, pageVars>>

AllDone(k) ==
  /\ pc[k] = "head" /\ index[k] = Steps
  /\ Goto(k, "goal")
  /\ Quiet /\ UNCHANGED <<report, reply, ending, journalVars, arbiterVars, pageVars>>

(* Cancelled, or out of time, or the step cannot be resolved or prepared.  *)
CannotPrepare(k) ==
  /\ pc[k] = "head" /\ index[k] < Steps
  /\ \/ StopWith(k, IfCancelled(k, "failed"), NoOutcome)
     \/ k \notin cancelled /\ StopWith(k, "paused", NotDispatched)
  /\ Quiet /\ UNCHANGED <<report, reply, journalVars, arbiterVars, pageVars>>

(* Mutant of Prepare: one step too many.                                   *)
PrepareOneMore(k, ok) ==
  /\ pc[k] = "head" /\ index[k] <= Steps
  /\ k \notin cancelled
  /\ ok /\ Goto(k, "prepared")
  /\ Quiet /\ UNCHANGED <<report, reply, ending, journalVars, arbiterVars, pageVars>>

Prepare(k, ok) ==
  /\ pc[k] = "head" /\ index[k] < Steps
  /\ k \notin cancelled
  /\ Checkpoint(k, report[k], ok)
  /\ \/ ok /\ Goto(k, "prepared") /\ UNCHANGED ending
     \/ ~ok /\ StopWith(k, "paused", NotDispatched)
  /\ Quiet /\ UNCHANGED <<reply, arbiterVars, pageVars>>

StopPrepared(k) ==
  /\ pc[k] = "prepared"
  /\ StopWith(k, IfCancelled(k, "failed"), NoOutcome)
  /\ Quiet /\ UNCHANGED <<report, reply, journalVars, arbiterVars, pageVars>>

(* Mutant of Intend: the intent is noted in memory only.                   *)
IntendInMemory(k, ok) ==
  /\ pc[k] = "prepared" /\ k \notin cancelled /\ ok
  /\ report' = [report EXCEPT ![k].mayHaveEffects = (Step(k) \in Writing)]
  /\ Goto(k, "intended")
  /\ Quiet /\ UNCHANGED <<reply, ending, journalVars, arbiterVars, pageVars>>

(* step_dispatch_intent, acknowledged before a write goes out.             *)
Intend(k, ok) ==
  /\ pc[k] = "prepared" /\ k \notin cancelled
  /\ \/ /\ Step(k) \in Writing
        /\ Checkpoint(k, [report[k] EXCEPT !.mayHaveEffects = TRUE], ok)
     \/ Step(k) \notin Writing /\ ok /\ UNCHANGED <<report, journalVars>>
  /\ \/ ok /\ Goto(k, "intended") /\ UNCHANGED ending
     \/ ~ok /\ StopWith(k, "paused", NotDispatched)
  /\ Quiet /\ UNCHANGED <<reply, arbiterVars, pageVars>>

StopIntended(k) ==
  /\ pc[k] = "intended"
  /\ StopWith(k, IfCancelled(k, "failed"), NotDispatched)
  /\ Quiet /\ UNCHANGED <<report, reply, journalVars, arbiterVars, pageVars>>

(* The first call of the page, or another one under the same requestId.    *)
Asking(k) == pc[k] \in {"intended", "asking"}

Dispatch(k) ==
  /\ Asking(k) /\ k \notin cancelled
  /\ flying' = flying \cup {<<k, Step(k)>>}
  /\ Goto(k, "sent")
  /\ Quiet /\ UNCHANGED <<report, reply, ending, journalVars, arbiterVars, effects>>

(* The call was refused before it reached the page, the flag was seen, or  *)
(* no time was left for the call: only the first two are reported as such. *)
NotSent(k) ==
  /\ Asking(k)
  /\ \E r \in {"not_dispatched", "failed"} : reply' = [reply EXCEPT ![k] = r]
  /\ Goto(k, "replied")
  /\ Quiet /\ UNCHANGED <<report, ending, journalVars, arbiterVars, pageVars>>

(* Mutant of GiveUp: a deadline that passes proves nothing was done.       *)
GiveUpIsNotDispatched(k) ==
  /\ pc[k] = "sent"
  /\ reply' = [reply EXCEPT ![k] = "not_dispatched"]
  /\ Goto(k, "replied")
  /\ Quiet /\ UNCHANGED <<report, ending, journalVars, arbiterVars, pageVars>>

(* Mutant of GiveUp: a call is waited for until the run is cancelled.      *)
GiveUpIfCancelled(k) ==
  /\ pc[k] = "sent" /\ k \in cancelled
  /\ reply' = [reply EXCEPT ![k] = "outcome_unknown"]
  /\ Goto(k, "replied")
  /\ Quiet /\ UNCHANGED <<report, ending, journalVars, arbiterVars, pageVars>>

(* The deadline, or an error of the transport: the script stays with the   *)
(* page.                                                                   *)
GiveUp(k) ==
  /\ pc[k] = "sent"
  /\ \E r \in {"outcome_unknown", "failed"} : reply' = [reply EXCEPT ![k] = r]
  /\ Goto(k, "replied")
  /\ Quiet /\ UNCHANGED <<report, ending, journalVars, arbiterVars, pageVars>>

-----------------------------------------------------------------------------
(* The page                                                                *)

Landed(k, i) == flying' = flying \ {<<k, i>>} /\ UNCHANGED effects
Acted(k, i) ==
  /\ flying' = flying \ {<<k, i>>}
  /\ effects' = [effects EXCEPT ![<<k, i>>] = IF i \in Writing /\ @ < 2 THEN @ + 1 ELSE @]

(* The script runs, and its answer arrives: done, refused before it acted, *)
(* or failed, having acted or not.                                         *)
PageAnswers(k) ==
  /\ pc[k] = "sent" /\ <<k, Step(k)>> \in flying
  /\ \E r \in {"completed", "unretained", "failed", "not_dispatched"} :
       /\ reply' = [reply EXCEPT ![k] = r]
       /\ \/ r # "not_dispatched" /\ Acted(k, Step(k))
          \/ r \in {"failed", "not_dispatched"} /\ Landed(k, Step(k))
  /\ Goto(k, "replied")
  /\ Quiet /\ UNCHANGED <<report, ending, journalVars, arbiterVars>>

(* Mutant of Requery: a script that failed is asked again as well.         *)
RequeryIfFailed(k) ==
  /\ pc[k] = "sent" /\ <<k, Step(k)>> \in flying
  /\ Landed(k, Step(k)) \/ Acted(k, Step(k))
  /\ Goto(k, "asking")
  /\ Quiet /\ UNCHANGED <<report, reply, ending, journalVars, arbiterVars>>

(* The element is not there, or not ready, and nothing was dispatched: the *)
(* page is asked again within the time to locate it.                       *)
Requery(k) ==
  /\ pc[k] = "sent" /\ <<k, Step(k)>> \in flying
  /\ Landed(k, Step(k))
  /\ Goto(k, "asking")
  /\ Quiet /\ UNCHANGED <<report, reply, ending, journalVars, arbiterVars>>

(* The script runs, or is refused or lost, after the driver gave it up.    *)
PageRunsLate(k, i) ==
  /\ <<k, i>> \in flying
  /\ ~(pc[k] = "sent" /\ i = Step(k))
  /\ Acted(k, i) \/ Landed(k, i)
  /\ UNCHANGED <<runVars, driverVars, reconciling, journalVars, arbiterVars, lifted, verified>>

-----------------------------------------------------------------------------
(* drive, after the step                                                   *)

(* The ExecutionOutcome of the current step.  A result the host has no     *)
(* memory for completed, but is never verified.                            *)
OutcomeOf(k) ==
  [execution |-> IF reply[k] = "unretained" THEN "completed" ELSE reply[k],
   effect |-> IF Step(k) \notin Writing \/ reply[k] = "not_dispatched" THEN "none"
              ELSE IF reply[k] \in {"completed", "unretained"} THEN "confirmed" ELSE "possible"]

(* step_execution_result.                                                  *)
Replied(k, ok) ==
  /\ pc[k] = "replied"
  /\ Checkpoint(k, [report[k] EXCEPT !.outcome = OutcomeOf(k)], ok)
  /\ Goto(k, IF ok THEN "verify" ELSE "unrecorded")
  /\ Quiet /\ UNCHANGED <<reply, ending, arbiterVars, pageVars>>

(* quarantine("outcome_unknown") and resourceIsolation.                    *)
IsolateRun(k) ==
  /\ Arbiter!Isolate(k)
  /\ report' = [report EXCEPT ![k].quarantined = TRUE]

Unrecorded(k) ==
  /\ pc[k] = "unrecorded"
  /\ IF OutcomeOf(k).effect # "none" THEN IsolateRun(k) ELSE UNCHANGED <<report, arbiterVars>>
  /\ StopWith(k, "paused", OutcomeOf(k))
  /\ Quiet /\ UNCHANGED <<reply, journalVars, pageVars>>

(* Mutant of Success: the postcondition is not looked at.                  *)
SuccessIfCompleted(k, passes) == reply[k] \in {"completed", "unretained"}

(* is_success.                                                             *)
Success(k, passes) == reply[k] = "completed" /\ (Step(k) \in Expecting => passes)

(* step_verification_result.  What was seen is history: a result that was  *)
(* kept, and the postcondition if there is one.                            *)
Verified(k, ok) ==
  /\ pc[k] = "verify"
  /\ \E passes \in BOOLEAN :
       /\ Success(k, passes)
       /\ verified' = IF reply[k] # "unretained" /\ (passes \/ Step(k) \notin Expecting)
                      THEN verified \cup {<<k, Step(k)>>} ELSE verified
  /\ index' = [index EXCEPT ![k] = @ + 1]
  /\ LET new == [report[k] EXCEPT !.outcome = NoOutcome]
     IN  /\ Record(k, new, ok)
         /\ \/ /\ ok
               /\ report' = [report EXCEPT ![k] = new]
               /\ Goto(k, "head")
               /\ UNCHANGED <<executing, leaving>>
            \/ ~ok /\ Abort(k, new)
  /\ reply' = [reply EXCEPT ![k] = "none"]
  /\ UNCHANGED <<cancelled, historical, resumed, ending, reconciling, arbiterVars, lifted,
                 pageVars>>

(* Mutant of Uncertain: an effect that was confirmed needs no isolation.   *)
UncertainIfPossible(k) == OutcomeOf(k).effect = "possible"

(* A write is isolated when its effect is possible, or was confirmed and   *)
(* then not verified.                                                      *)
Uncertain(k) == OutcomeOf(k).effect # "none"

NotVerified(k) ==
  /\ pc[k] = "verify" /\ \E passes \in BOOLEAN : ~Success(k, passes)
  /\ IF Uncertain(k) THEN IsolateRun(k) ELSE UNCHANGED <<report, arbiterVars>>
  /\ StopWith(k, IfCancelled(k, "paused"), OutcomeOf(k))
  /\ Quiet /\ UNCHANGED <<reply, journalVars, pageVars>>

(* The goal: no goal or a goal that passes, or not.                        *)
Goal(k) ==
  /\ pc[k] = "goal"
  /\ \/ /\ k \in cancelled
        /\ StopWith(k, "cancelled", NoOutcome)
     \/ StopWith(k, "completed", NoOutcome)
     \/ StopWith(k, "failed", NoOutcome)
  /\ Quiet /\ UNCHANGED <<report, reply, journalVars, arbiterVars, pageVars>>

(* allowedNextActions, besides get and cancel.                             *)
NextActions(status, given, blocked) ==
  IF \/ status = "paused" /\ blocked \notin {NoOutcome, NotDispatched}
     \/ given # NoOutcome /\ given.execution = "outcome_unknown" THEN {"reconcile"}
  ELSE IF status = "paused" THEN {"continue"} ELSE {}

(* What keeps the lease: a driver that took it and has not isolated it.    *)
Holds(k) == k \in DOMAIN claims /\ ~claims[k].isolated

(* stop.  The drivers of one run follow each other: the second ends after  *)
(* the first has let go of its lease.                                      *)
Stop(k, ok) ==
  LET given == ending[k].outcome
      blocked == IF given = NoOutcome THEN report[k].outcome ELSE given
  IN  /\ pc[k] = "stop" /\ k \notin leaving
      /\ Checkpoint(k, [report[k] EXCEPT !.status = ending[k].status, !.outcome = blocked,
                            !.next = NextActions(ending[k].status, given, blocked)], ok)
      /\ executing' = executing \ {k}
      /\ leaving' = IF Holds(k) THEN leaving \cup {k} ELSE leaving
      /\ Goto(k, "none")
      /\ ending' = [ending EXCEPT ![k] = NoEnding]
      /\ reply' = [reply EXCEPT ![k] = "none"]
      /\ UNCHANGED <<cancelled, historical, resumed, index, reconciling, arbiterVars, lifted,
                     pageVars, verified>>

(* The lease and the slot are dropped when drive returns.                  *)
Leave(k) ==
  /\ k \in leaving
  /\ leaving' = leaving \ {k}
  /\ Arbiter!Give(k)
  /\ UNCHANGED <<runVars, pc, reply, ending, reconciling, journalVars, lifted, pageVars,
                 verified>>

-----------------------------------------------------------------------------
(* The rest of the application                                             *)

OtherTakes ==
  /\ Arbiter!Take(Other, Everything)
  /\ UNCHANGED <<runVars, driverVars, reconciling, journalVars, lifted, pageVars, verified>>

OtherEnds ==
  /\ Holds(Other)
  /\ Arbiter!Give(Other) \/ Arbiter!Isolate(Other)
  /\ UNCHANGED <<runVars, driverVars, reconciling, journalVars, lifted, pageVars, verified>>

(* The TTL, a late settlement of a command, or the host.                   *)
Lift(o) ==
  /\ o \in DOMAIN claims
  /\ Arbiter!Lift({o})
  /\ lifted' = lifted \cup {o}
  /\ UNCHANGED <<runVars, driverVars, reconciling, journalVars, pageVars, verified>>

-----------------------------------------------------------------------------
(* Crash and recovery                                                      *)

AtRest == [
  report |-> [k \in Key |-> NoRun], index |-> [k \in Key |-> 0], pc |-> [k \in Key |-> "none"],
  reply |-> [k \in Key |-> "none"], ending |-> [k \in Key |-> NoEnding]]

(* The application ends at any moment, and the page with it.               *)
Crash ==
  /\ open /\ "crash" \in Faults
  /\ report' = AtRest.report /\ index' = AtRest.index /\ pc' = AtRest.pc
  /\ reply' = AtRest.reply /\ ending' = AtRest.ending
  /\ executing' = {} /\ cancelled' = {} /\ historical' = {} /\ resumed' = {}
  /\ leaving' = {} /\ reconciling' = {}
  /\ claims' = [o \in {} |-> 0] /\ open' = FALSE /\ lifted' = {}
  /\ flying' = {}
  /\ journal' = IF journal = "poisoned" THEN "up" ELSE journal
  /\ UNCHANGED <<disk, effects, verified>>

Interrupted(k) == disk[k].status \notin {"completed", "failed", "cancelled"}

(* The runs whose effects nobody can vouch for.                            *)
Quarantined(k) ==
  \/ disk[k].quarantined
  \/ disk[k].outcome # NoOutcome /\ disk[k].outcome.effect = "possible"
  \/ Interrupted(k) /\ disk[k].mayHaveEffects

Recovered(k) ==
  [disk[k] EXCEPT !.status = IF Interrupted(k) THEN "interrupted" ELSE @,
                  !.next = IF Interrupted(k) THEN {"reconcile"} ELSE @,
                  !.quarantined = Quarantined(k)]

(* store, before the first write: the history is loaded, and what it left  *)
(* uncertain isolated.  A torn journal does not open.                      *)
Recover ==
  LET found == {k \in Key : disk[k] # NoRun}
  IN  /\ ~open /\ journal = "up"
      /\ open' = TRUE
      /\ historical' = found
      /\ report' = [k \in Key |-> IF k \in found THEN Recovered(k) ELSE NoRun]
      /\ claims' = [k \in {q \in found : Quarantined(q)} |->
                       [resources |-> Everything, isolated |-> TRUE]]
      /\ UNCHANGED <<executing, cancelled, resumed, index, driverVars, reconciling, journalVars,
                     lifted, pageVars, verified>>

-----------------------------------------------------------------------------
Init ==
  /\ report = AtRest.report /\ disk = AtRest.report
  /\ executing = {} /\ cancelled = {} /\ historical = {} /\ resumed = {}
  /\ index = AtRest.index /\ pc = AtRest.pc /\ reply = AtRest.reply /\ ending = AtRest.ending
  /\ leaving = {} /\ reconciling = {}
  /\ journal = "up"
  /\ Arbiter!Init
  /\ lifted = {} /\ flying = {} /\ verified = {}
  /\ effects = [p \in Key \X (1..Steps) |-> 0]

Recorded(k) ==
  \E ok \in BOOLEAN :
    \/ Start(k, ok) \/ Prepare(k, ok) \/ Intend(k, ok) \/ Replied(k, ok) \/ Verified(k, ok)
    \/ Stop(k, ok)

Drive(k) ==
  \/ TakeSlot(k) \/ LoseSlot(k) \/ TakeLease(k) \/ FindBusy(k) \/ Recheck(k) \/ AllDone(k)
  \/ CannotPrepare(k) \/ StopPrepared(k) \/ StopIntended(k) \/ Dispatch(k) \/ NotSent(k)
  \/ GiveUp(k) \/ Unrecorded(k) \/ NotVerified(k) \/ Goal(k)
  \/ Recorded(k)

Ask(k) ==
  \E ok \in BOOLEAN :
    Submit(k, ok) \/ Cancel(k, ok) \/ Continue(k, ok) \/ Reconcile(k, ok) \/ Reconciled(k, ok)

Next ==
  \/ \E k \in Key :
       \/ Drive(k) \/ Leave(k) \/ Ask(k)
       \/ PageAnswers(k) \/ Requery(k) \/ \E i \in 1..Steps : PageRunsLate(k, i)
  \/ OtherTakes \/ OtherEnds \/ \E o \in Key \cup {Other} : Lift(o)
  \/ Crash \/ Recover

Spec == Init /\ [][Next]_vars

(* Every wait of a driver has a deadline, also when the page is asked over *)
(* and over, and its task is polled; nothing is assumed of the page, the   *)
(* journal's verdicts or the clients.                                      *)
Fairness ==
  \A k \in Key : WF_vars(Drive(k)) /\ WF_vars(Leave(k)) /\ SF_vars(GiveUp(k))

FairSpec == Spec /\ Fairness

-----------------------------------------------------------------------------
(* Properties                                                              *)

(* A step acts on the page at most once: through cancellations,            *)
(* continuations, resubmissions of its key, scripts that run late and      *)
(* crashes at any point.                                                   *)
AtMostOnce == \A p \in Key \X (1..Steps) : effects[p] <= 1

(* No write is with the page, or has acted, but its intent is on disk,     *)
(* where a later process finds it.                                         *)
IntentIsDurable ==
  \A k \in Key, i \in Writing :
    (<<k, i>> \in flying \/ effects[k, i] > 0) => disk[k] # NoRun /\ disk[k].mayHaveEffects

(* A report that says a run stopped before its step was dispatched is      *)
(* true: nothing of the step has acted, or still will.                     *)
NotDispatchedIsTrue ==
  \A k \in Key :
    report[k] # NoRun /\ k \notin executing \cup historical /\ report[k].outcome = NotDispatched
      => <<k, Step(k)>> \notin flying /\ effects[k, Step(k)] = 0

Unsettled(k) ==
  \E i \in Writing : /\ <<k, i>> \in flying \/ effects[k, i] > 0
                     /\ <<k, i>> \notin verified

(* While a write may be acting, or acted and was not verified, the whole   *)
(* application is reserved to its run, across restarts too, unless the     *)
(* quarantine was lifted.                                                  *)
IsolatedWhileUnsettled ==
  open => \A k \in Key : Unsettled(k) => k \in DOMAIN claims \cup lifted

(* What a later process, or another run, must know of a write in doubt is  *)
(* there for it: the intent in the journal, the reservation in the arbiter *)
(* (src/plugin/src/workflow/service.rs:982 and 746).                       *)
DoubtIsKept == IntentIsDurable /\ IsolatedWhileUnsettled

(* No write is dispatched while a write of another run is with the page or *)
(* unverified, unless that one's quarantine was lifted.                    *)
WritesDoNotMeet ==
  [][\A k, q \in Key :
       (k # q /\ pc[k] # "sent" /\ pc'[k] = "sent" /\ Step(k) \in Writing) =>
         (Unsettled(q) => q \in lifted)]_vars

(* A run reported completed, now or in the history of an earlier process,  *)
(* had every step act, and end as a verified success.                      *)
CompletedMeansDone ==
  \A k \in Key : \A r \in {report[k], disk[k]} :
    r # NoRun /\ r.status = "completed" =>
      \A i \in 1..Steps : <<k, i>> \in verified /\ (i \in Writing => effects[k, i] = 1)

(* The two ends a client acts upon are true: one says that nothing of the  *)
(* step happened, so that it may be done again, the other that all of the  *)
(* run did (src/plugin/src/workflow/service.rs:982 and 1147).              *)
ReportsAreTrue == NotDispatchedIsTrue /\ CompletedMeansDone

(* Every driver ends, whatever the page, the journal and the slots do.     *)
EveryDriverEnds == \A k \in Key : k \in executing ~> k \notin executing

(* The next actions a report lists are accepted.                           *)
AdvertisedIsAccepted ==
  \A k \in Key : report[k] # NoRun =>
    /\ "continue" \in report[k].next => MayContinue(k)
    /\ "reconcile" \in report[k].next => MayReconcile(k)

=============================================================================
