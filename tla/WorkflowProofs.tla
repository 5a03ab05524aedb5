--------------------------- MODULE WorkflowProofs ---------------------------
(***************************************************************************)
(* Theorems about the workflows.  About Workflow, for any number of runs,  *)
(* steps and slots: an action is never repeated, and what reports, journal *)
(* and arbiter say of it is true, through cancellations, continuations,    *)
(* lost answers, records that fail and crashes at any point.  About        *)
(* Journal, for any number of processes, runs and records: a file that a   *)
(* later open can read, and a log that keeps what was acknowledged,        *)
(* through failed writes, kills and power losses.  About Dispatcher, for   *)
(* any elements, packets and handlers of the application: a step happens   *)
(* at most once and is reported for what happened.  About Bindings, for    *)
(* conditions and locators of any size: what validation accepts can be run *)
(* but for five texts that only the page refuses.                          *)
(*                                                                         *)
(* The arguments.  A run's report, its last record and its claims each say *)
(* no more than what the page did.  Of the tasks in the page only one can  *)
(* still carry the step to its event: the others found the run's entry in  *)
(* the cache and only wait for its result.  That one has not counted the   *)
(* event yet, and the result that it leaves says no less than it did.      *)
(*                                                                         *)
(* What is resolved at a step is of the type that validation saw, unless   *)
(* another step produced it; and the page counts its limits from elsewhere, *)
(* but to the same height, number and depth.  It refuses five texts that   *)
(* validation lets pass, and no others.                                    *)
(***************************************************************************)
EXTENDS Workflow, Journal, Dispatcher, Bindings, FiniteSetTheorems, SequenceTheorems,
        WellFoundedInduction, TLAPS

-----------------------------------------------------------------------------
(* The inductive invariant: of each run, and of the claims.                *)

Driven == {"queued", "running", "cancelling"}
Final == {"completed", "failed", "cancelled"}

(* Where the driver has its lease; in doubt about its step; and before it. *)
Before == {"slot", "lease", "start", "recheck", "head", "prepared", "intended", "asking"}
After == {"replied", "unrecorded", "verify"}
Doubting == {"sent"} \cup After
Leased == {"start", "recheck", "head", "prepared", "intended", "asking", "goal"} \cup Doubting

Live(k) == open /\ k \notin historical
Touched(k, i) == <<k, i>> \in flying \/ effects[<<k, i>>] > 0
ActedOnce(k, i) == <<k, i>> \notin flying /\ (i \in Writing => effects[<<k, i>>] = 1)
Done(k) == \A i \in 1..Steps : <<k, i>> \in verified /\ (i \in Writing => effects[<<k, i>>] = 1)

(* A script with the page belongs to a run of this process, and its step   *)
(* has not acted.                                                          *)
PageOK(k) ==
  \A i \in 1..Steps :
    /\ <<k, i>> \in flying => effects[<<k, i>>] = 0 /\ Live(k) /\ report[k] # NoRun
    /\ effects[<<k, i>>] <= 1
    /\ effects[<<k, i>>] > 0 => i \in Writing

(* Steps up to index are over and verified, and nothing has touched those  *)
(* after the next.                                                         *)
IndexOK(k) ==
  Live(k) => \A i \in 1..Steps :
    /\ i <= index[k] => <<k, i>> \in verified /\ ActedOnce(k, i)
    /\ i > Step(k) => ~Touched(k, i)

(* Who is driven, where a report may be, and what is on disk meanwhile.    *)
DriverOK(k) ==
  /\ k \in executing <=> pc[k] # "none"
  /\ k \in executing =>
       /\ Live(k)
       /\ report[k] # NoRun /\ report[k].status \in Driven
       /\ disk[k] # NoRun /\ disk[k].status \in Driven
  /\ k \in historical => open /\ report[k] # NoRun
  /\ k \in reconciling => Live(k) /\ report[k] # NoRun
  /\ report[k] = NoRun => index[k] = 0
  /\ open /\ report[k] = NoRun => disk[k] = NoRun
  /\ ~open => report[k] = NoRun

(* What is known of the current step wherever the driver is.               *)
PlaceOK(k) ==
  /\ pc[k] \in (Before \ {"head"}) \cup Doubting => index[k] < Steps
  /\ pc[k] \in Before /\ index[k] < Steps => ~Touched(k, Step(k))
  /\ pc[k] \in {"intended", "asking", "sent"} /\ Step(k) \in Writing =>
       report[k].mayHaveEffects /\ disk[k].mayHaveEffects
  /\ pc[k] = "sent" => <<k, Step(k)>> \in flying
  /\ pc[k] \in After =>
       /\ reply[k] # "none"
       /\ reply[k] \in {"completed", "unretained"} => ActedOnce(k, Step(k))
       /\ reply[k] = "not_dispatched" => ~Touched(k, Step(k))
  /\ pc[k] = "goal" => index[k] = Steps
  /\ pc[k] = "stop" =>
       /\ ending[k].outcome = NotDispatched => index[k] < Steps /\ ~Touched(k, Step(k))
       /\ ending[k].status = "completed" => Done(k)

(* Only while a call is out may a report say of its step what it said of   *)
(* an earlier attempt.                                                     *)
NotDispatchedOK(k) ==
  (/\ Live(k) /\ report[k] # NoRun /\ report[k].outcome = NotDispatched
   /\ pc[k] \notin {"sent", "replied"})
     => index[k] < Steps /\ ~Touched(k, Step(k))

(* A report is good for a later process: it knows of the intent, of doubt, *)
(* and completed runs are.                                                 *)
GoodReport(k, r) ==
  /\ r # NoRun
  /\ (\E i \in Writing : Touched(k, i)) => r.mayHaveEffects
  /\ Unsettled(k) => r.quarantined \/ r.status \notin Final
  /\ r.status = "completed" => Done(k)

Touches(k) == \E i \in Writing : Touched(k, i)

ReportOK(k) ==
  /\ report[k] # NoRun => GoodReport(k, report[k])
  /\ disk[k] # NoRun => GoodReport(k, disk[k])
  /\ Touches(k) => disk[k] # NoRun /\ (open => report[k] # NoRun)

(* In doubt, the run is isolated as soon as its driver has decided.        *)
Spoken(k) == k \in lifted \/ (k \in DOMAIN claims /\ claims[k].isolated)
DoubtOK(k) ==
  open /\ Unsettled(k) => pc[k] \in Doubting \/ (report[k].quarantined /\ Spoken(k))

RunOK(k) ==
  /\ PageOK(k)
  /\ IndexOK(k)
  /\ DriverOK(k)
  /\ PlaceOK(k)
  /\ NotDispatchedOK(k)
  /\ ReportOK(k)

(* A driver past its lease, or on its way out, holds the application       *)
(* alone.                                                                  *)
ClaimsOK ==
  /\ \A o \in DOMAIN claims : claims[o].resources = Everything
  /\ \A o, p \in DOMAIN claims : o # p => claims[o].isolated
  /\ ~open => DOMAIN claims = {}
  /\ \A k \in Key : pc[k] \in Leased \/ k \in leaving => Holds(k)
  /\ \A k \in leaving : pc[k] \notin Leased

WorkflowIInv ==
  /\ TypeOK
  /\ \A k \in Key : RunOK(k)
  /\ \A k \in Key : DoubtOK(k)
  /\ ClaimsOK

-----------------------------------------------------------------------------
(* Types                                                                   *)

(* One run's action, whoever takes it.                                     *)
RunStep(k) ==
  \/ Drive(k) \/ Leave(k) \/ Ask(k) \/ PageAnswers(k) \/ Requery(k)
  \/ \E i \in 1..Steps : PageRunsLate(k, i)

(* What a record does, acknowledged or not (WorkflowJournal::append).      *)
LEMMA RecordIs ==
  ASSUME TypeOK, NEW k \in Key, NEW new \in Report, NEW ok \in BOOLEAN, Record(k, new, ok)
  PROVE  /\ disk' \in [Key -> Report \cup {NoRun}]
         /\ journal' \in {"up", "poisoned", "torn"}
         /\ disk'[k] = disk[k] \/ disk'[k] = new
         /\ ok => disk'[k] = new
         /\ \A q \in Key \ {k} : disk'[q] = disk[q]
<1>1. disk' = disk \/ disk' = [disk EXCEPT ![k] = new]
  BY DEF Record
<1>2. disk' \in [Key -> Report \cup {NoRun}]
  BY <1>1 DEF TypeOK
<1>3. disk'[k] = disk[k] \/ disk'[k] = new
  BY <1>1 DEF TypeOK
<1>4. ok => disk'[k] = new
  BY DEF TypeOK, Record
<1>5. \A q \in Key \ {k} : disk'[q] = disk[q]
  BY <1>1 DEF TypeOK
<1>6. journal' \in {"up", "poisoned", "torn"}
  BY WorkflowAssumption DEF TypeOK, Record
<1>7. QED
  BY <1>2, <1>3, <1>4, <1>5, <1>6

LEMMA CheckpointIs ==
  ASSUME TypeOK, NEW k \in Key, NEW new \in Report, NEW ok \in BOOLEAN, Checkpoint(k, new, ok)
  PROVE  /\ disk' \in [Key -> Report \cup {NoRun}]
         /\ journal' \in {"up", "poisoned", "torn"}
         /\ disk'[k] = disk[k] \/ disk'[k] = new
         /\ ok => disk'[k] = new
         /\ \A q \in Key \ {k} : disk'[q] = disk[q]
         /\ report' = [report EXCEPT ![k] = new]
         /\ report' \in [Key -> Report \cup {NoRun}]
<1>1. Record(k, new, ok) /\ report' = [report EXCEPT ![k] = new]
  BY DEF Checkpoint
<1>2. report' \in [Key -> Report \cup {NoRun}]
  BY <1>1 DEF TypeOK
<1>3. QED
  BY <1>1, <1>2, RecordIs

(* The outcome of a step that was replied to is one.                       *)
LEMMA OutcomeIs ==
  ASSUME TypeOK, NEW k \in Key, reply[k] # "none"
  PROVE  OutcomeOf(k) \in Outcome
BY DEF TypeOK, OutcomeOf, Outcome, Execution

(* Every variable keeps its type, action by action.                        *)
LEMMA AskTypes ==
  ASSUME WorkflowAssumption, NothingAssumption, TypeOK, NEW k \in Key, Ask(k),
         k \in reconciling => report[k] # NoRun
  PROVE  TypeOK'
<1>1. ASSUME NEW ok \in BOOLEAN, Submit(k, ok) PROVE TypeOK'
  <2>1. Fresh \in Report /\ [Fresh EXCEPT !.status = IF ok THEN "queued" ELSE "failed"] \in Report
    BY DEF Fresh, Report, Status
  <2>2. disk' \in [Key -> Report \cup {NoRun}] /\ journal' \in {"up", "poisoned", "torn"}
    BY <1>1, <2>1, RecordIs DEF Submit
  <2>3. QED
    BY <1>1, <2>1, <2>2 DEF Submit, TypeOK, PC, pageVars, arbiterVars
<1>2. ASSUME NEW ok \in BOOLEAN, NEW new \in Report, Checkpoint(k, new, ok),
             UNCHANGED <<historical, index, leaving, arbiterVars, lifted, pageVars, verified,
                         reply, ending>>,
             executing' \subseteq Key, cancelled' \subseteq Key, resumed' \subseteq Key,
             reconciling' \subseteq Key, pc' \in [Key -> PC]
      PROVE  TypeOK'
  BY <1>2, CheckpointIs DEF TypeOK, pageVars, arbiterVars
<1>3. ASSUME NEW ok \in BOOLEAN, Cancel(k, ok) PROVE TypeOK'
  <2>1. report[k] \in Report
    BY <1>3 DEF Cancel, TypeOK
  <2>2. [report[k] EXCEPT !.status = StatusCancelled(k)] \in Report
    BY <2>1 DEF Report, Status, StatusCancelled
  <2>3. QED
    BY <1>2, <1>3, <2>2 DEF Cancel, TypeOK, driverVars
<1>4. ASSUME NEW ok \in BOOLEAN, Continue(k, ok) PROVE TypeOK'
  <2>1. report[k] \in Report
    BY <1>4 DEF Continue, MayContinue, TypeOK
  <2>2. [report[k] EXCEPT !.status = "queued"] \in Report
    BY <2>1 DEF Report, Status
  <2>3. pc' \in [Key -> PC]
    BY <1>4 DEF Continue, TypeOK, PC
  <2>4. QED
    BY <1>2, <1>4, <2>2, <2>3 DEF Continue, TypeOK
<1>5. ASSUME NEW ok \in BOOLEAN, Reconcile(k, ok) PROVE TypeOK'
  <2>1. report[k] \in Report
    BY <1>5 DEF Reconcile, TypeOK
  <2>2. QED
    BY <1>2, <1>5, <2>1 DEF Reconcile, TypeOK, driverVars
<1>6. ASSUME NEW ok \in BOOLEAN, Reconciled(k, ok) PROVE TypeOK'
  <2>1. report[k] \in Report
    BY <1>6 DEF Reconciled, TypeOK
  <2>2. QED
    BY <1>2, <1>6, <2>1 DEF Reconciled, TypeOK, driverVars
<1>7. QED
  BY <1>1, <1>3, <1>4, <1>5, <1>6 DEF Ask

(* What stop, checkpoint and abort write are reports.                      *)
LEMMA EndingIs ==
  ASSUME TypeOK, NEW k \in Key, NEW status \in Status, NEW told \in Outcome \cup {NoOutcome},
         StopWith(k, status, told)
  PROVE  ending' \in [Key -> Ending] /\ pc' \in [Key -> PC]
BY DEF TypeOK, StopWith, Goto, Ending, PC

(* A driver that only moves on, or gives up and stops.                     *)
Moves(k) ==
  \/ TakeSlot(k) \/ LoseSlot(k) \/ TakeLease(k) \/ FindBusy(k) \/ Recheck(k) \/ AllDone(k)
  \/ CannotPrepare(k) \/ StopPrepared(k) \/ StopIntended(k) \/ Goal(k)

(* Where it moves.                                                         *)
MovesTo(k) ==
  \/ /\ \/ pc[k] = "slot" /\ pc'[k] = "lease"
        \/ pc[k] = "lease" /\ pc'[k] = "start" /\ TakeLease(k)
        \/ pc[k] = "recheck" /\ pc'[k] = "head"
        \/ pc[k] = "head" /\ index[k] = Steps /\ pc'[k] = "goal"
     /\ ending' = ending
  \/ /\ pc[k] \in Before \cup {"goal"}
     /\ pc'[k] = "stop"
     /\ ending'[k].status = "completed" => pc[k] = "goal"
     /\ ending'[k].outcome = NotDispatched =>
          pc[k] # "goal" /\ (pc[k] = "head" => index[k] < Steps)


(* The drivers' moves, seen through what they change.                      *)
LEMMA MovesIs ==
  ASSUME WorkflowAssumption, NothingAssumption, TypeOK, NEW k \in Key, Moves(k)
  PROVE  /\ MovesTo(k)
         /\ UNCHANGED <<report, reply, executing, cancelled, historical, resumed, index, leaving,
                        reconciling, journalVars, open, lifted, pageVars, verified>>
         /\ UNCHANGED claims \/ Arbiter!Take(k, Everything)
         /\ pc' \in [Key -> PC] /\ ending' \in [Key -> Ending]
         /\ \A q \in Key \ {k} : pc'[q] = pc[q] /\ ending'[q] = ending[q]
<1> DEFINE Moved == /\ MovesTo(k)
                    /\ UNCHANGED <<report, reply, executing, cancelled, historical, resumed, index,
                                   leaving, reconciling, journalVars, open, lifted, pageVars,
                                   verified>>
                    /\ UNCHANGED claims \/ Arbiter!Take(k, Everything)
                    /\ pc' \in [Key -> PC] /\ ending' \in [Key -> Ending]
                    /\ \A q \in Key \ {k} : pc'[q] = pc[q] /\ ending'[q] = ending[q]
<1>1. ASSUME NEW status \in Status \ {"completed"}, NEW told \in {NotDispatched, NoOutcome},
             StopWith(k, status, told), pc[k] \in Before \cup {"goal"},
             told = NotDispatched => pc[k] # "goal" /\ (pc[k] = "head" => index[k] < Steps),
             Quiet, UNCHANGED <<report, reply, journalVars, arbiterVars, pageVars>>
      PROVE  Moved
  <2>1. told \in Outcome \cup {NoOutcome}
    BY DEF NotDispatched, Outcome, Execution
  <2>2. ending' \in [Key -> Ending] /\ pc' \in [Key -> PC]
    BY <1>1, <2>1, EndingIs
  <2>3. MovesTo(k)
    BY <1>1 DEF MovesTo, StopWith, Goto, TypeOK
  <2>4. QED
    BY <1>1, <2>2, <2>3 DEF StopWith, Goto, TypeOK, Quiet, arbiterVars
<1>2. \A status \in Status \ {"completed"} : IfCancelled(k, status) \in Status \ {"completed"}
  BY DEF IfCancelled, Status
<1>3. {"failed", "paused", "cancelled"} \subseteq Status \ {"completed"}
  BY DEF Status
<1>4. NotDispatched # NoOutcome
  BY NothingAssumption DEF NothingAssumption, NotDispatched, Outcome, Execution
<1>5. CASE TakeSlot(k) \/ AllDone(k)
  BY <1>5 DEF TakeSlot, AllDone, Goto, Quiet, arbiterVars, MovesTo, TypeOK, PC
<1>6. CASE TakeLease(k)
  <2>1. UNCHANGED open
    BY <1>6 DEF TakeLease, Arbiter!Take
  <2>2. QED
    BY <1>6, <2>1 DEF TakeLease, Goto, Quiet, MovesTo, TypeOK, PC
<1>7. CASE LoseSlot(k)
  <2>1. IfCancelled(k, "failed") \in Status \ {"completed"}
    BY <1>2, <1>3
  <2>2. QED
    BY <1>1, <1>4, <1>7, <2>1 DEF LoseSlot, Before
<1>8. CASE FindBusy(k)
  BY <1>1, <1>3, <1>8 DEF FindBusy, Before
<1>9. CASE Recheck(k)
  <2>1. IfCancelled(k, "failed") \in Status \ {"completed"}
    BY <1>2, <1>3
  <2>2. CASE Goto(k, "head") /\ UNCHANGED ending
    BY <1>9, <2>2 DEF Recheck, Goto, Quiet, arbiterVars, MovesTo, TypeOK, PC
  <2>3. CASE StopWith(k, IfCancelled(k, "failed"), NoOutcome)
    BY <1>1, <1>4, <1>9, <2>1, <2>3 DEF Recheck, Before
  <2>4. CASE StopWith(k, "paused", NotDispatched)
    BY <1>1, <1>3, <1>9, <2>4 DEF Recheck, Before
  <2>5. QED
    BY <1>9, <2>2, <2>3, <2>4 DEF Recheck
<1>10. CASE CannotPrepare(k)
  <2>1. IfCancelled(k, "failed") \in Status \ {"completed"}
    BY <1>2, <1>3
  <2>2. CASE StopWith(k, IfCancelled(k, "failed"), NoOutcome)
    BY <1>1, <1>4, <1>10, <2>1, <2>2 DEF CannotPrepare, Before
  <2>3. CASE StopWith(k, "paused", NotDispatched)
    BY <1>1, <1>3, <1>10, <2>3 DEF CannotPrepare, Before
  <2>4. QED
    BY <1>10, <2>2, <2>3 DEF CannotPrepare
<1>11. CASE StopPrepared(k) \/ StopIntended(k)
  <2>1. IfCancelled(k, "failed") \in Status \ {"completed"}
    BY <1>2, <1>3
  <2>2. QED
    BY <1>1, <1>4, <1>11, <2>1 DEF StopPrepared, StopIntended, Before
<1>12. CASE Goal(k)
  <2>1. CASE StopWith(k, "cancelled", NoOutcome) \/ StopWith(k, "failed", NoOutcome)
    BY <1>1, <1>3, <1>4, <1>12, <2>1 DEF Goal
  <2>2. CASE StopWith(k, "completed", NoOutcome)
    <3>1. ending' \in [Key -> Ending] /\ pc' \in [Key -> PC]
      BY <2>2, EndingIs DEF Status
    <3>2. MovesTo(k)
      BY <1>4, <1>12, <2>2 DEF Goal, MovesTo, StopWith, Goto, TypeOK
    <3>3. QED
      BY <1>12, <2>2, <3>1, <3>2 DEF Goal, StopWith, Goto, TypeOK, Quiet, arbiterVars
  <2>3. QED
    BY <1>12, <2>1, <2>2 DEF Goal
<1>13. QED
  BY <1>5, <1>6, <1>7, <1>8, <1>9, <1>10, <1>11, <1>12 DEF Moves


(* Holds keeps its shape under the arbiter's operations.                   *)
LEMMA ClaimTypes ==
  ASSUME TypeOK, NEW o \in Key \cup {Other},
         UNCHANGED claims \/ Arbiter!Take(o, Everything) \/ Arbiter!Isolate(o)
           \/ Arbiter!Give(o) \/ Arbiter!Lift({o})
  PROVE  DOMAIN claims' \subseteq Key \cup {Other}
<1>1. CASE UNCHANGED claims
  BY <1>1 DEF TypeOK
<1>2. CASE Arbiter!Take(o, Everything) \/ Arbiter!Isolate(o)
  <2>1. DOMAIN claims' = DOMAIN claims \cup {o}
    BY <1>2 DEF Arbiter!Take, Arbiter!Isolate, Arbiter!Add
  <2>2. QED
    BY <2>1 DEF TypeOK
<1>3. CASE Arbiter!Give(o) \/ Arbiter!Lift({o})
  <2>1. DOMAIN claims' \subseteq DOMAIN claims
    BY <1>3 DEF Arbiter!Give, Arbiter!Lift, Arbiter!Restrict
  <2>2. QED
    BY <2>1 DEF TypeOK
<1>4. QED
  BY <1>1, <1>2, <1>3

(* What a recorded decision of the driver writes.                          *)
LEMMA RecordedTypes ==
  ASSUME WorkflowAssumption, NothingAssumption, TypeOK, NEW k \in Key, NEW ok \in BOOLEAN,
         report[k] # NoRun, pc[k] \in After => reply[k] # "none",
         pc[k] = "verify" => index[k] < Steps,
         \/ Start(k, ok) \/ Prepare(k, ok) \/ Intend(k, ok) \/ Replied(k, ok) \/ Verified(k, ok)
         \/ Stop(k, ok)
  PROVE  TypeOK'
<1>1. report[k] \in Report
  BY DEF TypeOK
<1>3. "paused" \in Status
  BY DEF Status
<1>4. NotDispatched \in Outcome
  BY DEF NotDispatched, Outcome, Execution
<1>5. CASE Start(k, ok)
  <2> DEFINE new == [report[k] EXCEPT !.status = "running"]
  <2>1. new \in Report /\ [new EXCEPT !.status = "paused"] \in Report
    BY <1>1 DEF Report, Status
  <2>2. Record(k, new, ok)
    BY <1>5 DEF Start
  <2>3. disk' \in [Key -> Report \cup {NoRun}] /\ journal' \in {"up", "poisoned", "torn"}
    BY <2>1, <2>2, RecordIs
  <2>4. report' \in [Key -> Report \cup {NoRun}] /\ pc' \in [Key -> PC]
        /\ executing' \subseteq Key /\ leaving' \subseteq Key
    BY <1>5, <2>1 DEF Start, Abort, Goto, TypeOK, PC
  <2>5. QED
    BY <1>5, <2>3, <2>4 DEF Start, TypeOK, arbiterVars, pageVars
<1>6. CASE Prepare(k, ok)
  <2>1. pc' \in [Key -> PC] /\ ending' \in [Key -> Ending]
    <3>1. CASE Goto(k, "prepared") /\ UNCHANGED ending
      BY <3>1 DEF Goto, TypeOK, PC
    <3>2. CASE StopWith(k, "paused", NotDispatched)
      BY <1>3, <1>4, <3>2, EndingIs
    <3>3. QED
      BY <1>6, <3>1, <3>2 DEF Prepare
  <2>2. QED
    BY <1>1, <1>6, <2>1, CheckpointIs DEF Prepare, Quiet, TypeOK, arbiterVars, pageVars
<1>7. CASE Intend(k, ok)
  <2>1. pc' \in [Key -> PC] /\ ending' \in [Key -> Ending]
    <3>1. CASE Goto(k, "intended") /\ UNCHANGED ending
      BY <3>1 DEF Goto, TypeOK, PC
    <3>2. CASE StopWith(k, "paused", NotDispatched)
      BY <1>3, <1>4, <3>2, EndingIs
    <3>3. QED
      BY <1>7, <3>1, <3>2 DEF Intend
  <2>2. report' \in [Key -> Report \cup {NoRun}] /\ disk' \in [Key -> Report \cup {NoRun}]
        /\ journal' \in {"up", "poisoned", "torn"}
    <3>1. CASE Checkpoint(k, [report[k] EXCEPT !.mayHaveEffects = TRUE], ok)
      <4>1. [report[k] EXCEPT !.mayHaveEffects = TRUE] \in Report
        BY <1>1 DEF Report
      <4>2. QED
        BY <3>1, <4>1, CheckpointIs
    <3>2. CASE UNCHANGED <<report, journalVars>>
      BY <3>2 DEF TypeOK, journalVars
    <3>3. QED
      BY <1>7, <3>1, <3>2 DEF Intend
  <2>3. QED
    BY <1>7, <2>1, <2>2 DEF Intend, Quiet, TypeOK, arbiterVars, pageVars
<1>8. CASE Replied(k, ok)
  <2>1. OutcomeOf(k) \in Outcome
    BY <1>8, OutcomeIs DEF Replied, After
  <2>2. [report[k] EXCEPT !.outcome = OutcomeOf(k)] \in Report
    BY <1>1, <2>1 DEF Report
  <2>3. pc' \in [Key -> PC]
    BY <1>8 DEF Replied, Goto, TypeOK, PC
  <2>4. QED
    BY <1>8, <2>2, <2>3, CheckpointIs DEF Replied, Quiet, TypeOK, arbiterVars, pageVars
<1>9. CASE Verified(k, ok)
  <2> DEFINE new == [report[k] EXCEPT !.outcome = NoOutcome]
  <2>1. new \in Report /\ [new EXCEPT !.status = "paused"] \in Report
    BY <1>1 DEF Report, Status
  <2>2. Record(k, new, ok)
    BY <1>9 DEF Verified
  <2>3. disk' \in [Key -> Report \cup {NoRun}] /\ journal' \in {"up", "poisoned", "torn"}
    BY <2>1, <2>2, RecordIs
  <2>4. report' \in [Key -> Report \cup {NoRun}] /\ pc' \in [Key -> PC]
        /\ executing' \subseteq Key /\ leaving' \subseteq Key
    BY <1>9, <2>1 DEF Verified, Abort, Goto, TypeOK, PC
  <2>5. index' \in [Key -> 0..Steps]
    BY <1>9, WorkflowAssumption DEF Verified, TypeOK
  <2>6. Step(k) \in 1..Steps
    BY <1>9, WorkflowAssumption DEF Verified, TypeOK, Step
  <2>7. verified' \subseteq Key \X (1..Steps)
    BY <1>9, <2>6 DEF Verified, TypeOK
  <2>8. QED
    BY <1>9, <2>3, <2>4, <2>5, <2>7 DEF Verified, TypeOK, arbiterVars, pageVars
<1>10. CASE Stop(k, ok)
  <2> DEFINE given == ending[k].outcome
             blocked == IF given = NoOutcome THEN report[k].outcome ELSE given
             next == NextActions(ending[k].status, given, blocked)
             new == [report[k] EXCEPT !.status = ending[k].status, !.outcome = blocked, !.next = next]
  <2>1. ending[k].status \in Status /\ given \in Outcome \cup {NoOutcome}
    BY DEF TypeOK, Ending
  <2>2. blocked \in Outcome \cup {NoOutcome}
    BY <1>1, <2>1 DEF Report
  <2>3. next \in SUBSET {"continue", "reconcile"}
    BY DEF NextActions
  <2>4. new \in Report
    BY <1>1, <2>1, <2>2, <2>3 DEF Report
  <2>5. Checkpoint(k, new, ok)
    BY <1>10 DEF Stop
  <2>6. pc' \in [Key -> PC] /\ ending' \in [Key -> Ending]
        /\ executing' \subseteq Key /\ leaving' \subseteq Key
    BY <1>10 DEF Stop, Goto, TypeOK, PC, NoEnding, Ending, Status
  <2>7. QED
    BY <1>10, <2>4, <2>5, <2>6, CheckpointIs DEF Stop, TypeOK, arbiterVars, pageVars
<1>11. QED
  BY <1>5, <1>6, <1>7, <1>8, <1>9, <1>10


(* Calls of the page, and what comes of them.                              *)
LEMMA PageTypes ==
  ASSUME WorkflowAssumption, TypeOK, NEW k \in Key, pc[k] \in {"asking", "intended", "sent"} => index[k] < Steps,
         \/ Dispatch(k) \/ NotSent(k) \/ GiveUp(k) \/ PageAnswers(k) \/ Requery(k)
         \/ \E i \in 1..Steps : PageRunsLate(k, i)
  PROVE  TypeOK'
<1>1. ASSUME NEW i \in 1..Steps, Acted(k, i) \/ Landed(k, i)
      PROVE  flying' \subseteq Key \X (1..Steps) /\ effects' \in [Key \X (1..Steps) -> 0..2]
  <2>1. flying' \subseteq Key \X (1..Steps)
    BY <1>1 DEF Acted, Landed, TypeOK
  <2>2. effects[<<k, i>>] \in 0..2
    BY DEF TypeOK
  <2>3. CASE Landed(k, i)
    BY <2>1, <2>3 DEF Landed, TypeOK
  <2>4. CASE Acted(k, i)
    <3>1. (IF i \in Writing /\ effects[<<k, i>>] < 2 THEN effects[<<k, i>>] + 1 ELSE effects[<<k, i>>])
            \in 0..2
      BY <2>2
    <3>2. effects' = [effects EXCEPT ![<<k, i>>] = IF i \in Writing /\ effects[<<k, i>>] < 2
                                      THEN effects[<<k, i>>] + 1 ELSE effects[<<k, i>>]]
      BY <2>4 DEF Acted
    <3>3. QED
      BY <2>1, <3>1, <3>2 DEF TypeOK
  <2>5. QED
    BY <1>1, <2>3, <2>4
<1>2. pc[k] \in {"asking", "intended", "sent"} => Step(k) \in 1..Steps
  BY WorkflowAssumption DEF WorkflowAssumption, TypeOK, Step
<1>3. CASE Dispatch(k)
  <2>1. <<k, Step(k)>> \in Key \X (1..Steps)
    BY <1>2, <1>3 DEF Dispatch, Asking
  <2>2. QED
    BY <1>3, <2>1 DEF Dispatch, Goto, Quiet, TypeOK, PC, journalVars, arbiterVars
<1>4. CASE NotSent(k) \/ GiveUp(k)
  BY <1>4 DEF NotSent, GiveUp, Goto, Quiet, TypeOK, PC, Execution, journalVars, arbiterVars, pageVars
<1>5. CASE PageAnswers(k)
  <2>1. flying' \subseteq Key \X (1..Steps) /\ effects' \in [Key \X (1..Steps) -> 0..2]
    BY <1>1, <1>2, <1>5 DEF PageAnswers
  <2>2. reply' \in [Key -> Execution \cup {"none", "unretained"}] /\ pc' \in [Key -> PC]
    BY <1>5 DEF PageAnswers, Goto, TypeOK, PC, Execution
  <2>3. QED
    BY <1>5, <2>1, <2>2 DEF PageAnswers, Quiet, TypeOK, journalVars, arbiterVars
<1>6. CASE Requery(k)
  <2>1. flying' \subseteq Key \X (1..Steps) /\ effects' \in [Key \X (1..Steps) -> 0..2]
    BY <1>1, <1>2, <1>6 DEF Requery
  <2>2. QED
    BY <1>6, <2>1 DEF Requery, Goto, Quiet, TypeOK, PC, journalVars, arbiterVars
<1>7. ASSUME NEW i \in 1..Steps, PageRunsLate(k, i) PROVE TypeOK'
  <2>1. flying' \subseteq Key \X (1..Steps) /\ effects' \in [Key \X (1..Steps) -> 0..2]
    BY <1>1, <1>7 DEF PageRunsLate
  <2>2. QED
    BY <1>7, <2>1 DEF PageRunsLate, TypeOK, runVars, driverVars, journalVars, arbiterVars
<1>8. QED
  BY <1>3, <1>4, <1>5, <1>6, <1>7

(* A step that stops in doubt, and one that certainly did nothing.         *)
LEMMA DoubtTypes ==
  ASSUME WorkflowAssumption, NothingAssumption, TypeOK, NEW k \in Key, report[k] # NoRun,
         pc[k] \in After => reply[k] # "none", Unrecorded(k) \/ NotVerified(k)
  PROVE  TypeOK'
<1>1. OutcomeOf(k) \in Outcome
  BY OutcomeIs DEF Unrecorded, NotVerified, After
<1>2. report[k] \in Report /\ {"paused", IfCancelled(k, "paused")} \subseteq Status
  BY DEF TypeOK, IfCancelled, Status
<1>3. pc' \in [Key -> PC] /\ ending' \in [Key -> Ending]
  BY <1>1, <1>2, EndingIs DEF Unrecorded, NotVerified
<1>4. report' \in [Key -> Report \cup {NoRun}] /\ open' = open
      /\ (UNCHANGED claims \/ Arbiter!Isolate(k))
  <2>1. CASE IsolateRun(k)
    <3>1. [report[k] EXCEPT !.quarantined = TRUE] \in Report
      BY <1>2 DEF Report
    <3>2. QED
      BY <2>1, <3>1 DEF IsolateRun, Arbiter!Isolate, TypeOK
  <2>2. CASE UNCHANGED <<report, arbiterVars>>
    BY <2>2 DEF arbiterVars, TypeOK
  <2>3. QED
    BY <2>1, <2>2 DEF Unrecorded, NotVerified
<1>5. DOMAIN claims' \subseteq Key \cup {Other}
  BY <1>4, ClaimTypes
<1>6. QED
  BY <1>3, <1>4, <1>5 DEF Unrecorded, NotVerified, Quiet, TypeOK, journalVars, pageVars

(* The drivers' moves, the end of a lease and the rest of the application. *)
LEMMA OtherTypes ==
  ASSUME WorkflowAssumption, NothingAssumption, TypeOK,
         \/ \E k \in Key : Moves(k) \/ Leave(k)
         \/ OtherTakes \/ OtherEnds \/ \E o \in Key \cup {Other} : Lift(o)
  PROVE  TypeOK'
<1>1. ASSUME NEW k \in Key, Moves(k) PROVE TypeOK'
  <2>1. DOMAIN claims' \subseteq Key \cup {Other}
    BY <1>1, MovesIs, ClaimTypes
  <2>2. QED
    BY <1>1, <2>1, MovesIs DEF TypeOK, journalVars, pageVars
<1>2. ASSUME NEW k \in Key, Leave(k) PROVE TypeOK'
  <2>1. DOMAIN claims' \subseteq Key \cup {Other} /\ open' = open
    BY <1>2, ClaimTypes DEF Leave, Arbiter!Give
  <2>2. QED
    BY <1>2, <2>1 DEF Leave, TypeOK, runVars, journalVars, pageVars
<1>3. CASE OtherTakes \/ OtherEnds
  <2>1. DOMAIN claims' \subseteq Key \cup {Other} /\ open' = open
    BY <1>3, ClaimTypes DEF OtherTakes, OtherEnds, Arbiter!Take, Arbiter!Give, Arbiter!Isolate
  <2>2. QED
    BY <1>3, <2>1
       DEF OtherTakes, OtherEnds, TypeOK, runVars, driverVars, journalVars, pageVars
<1>4. ASSUME NEW o \in Key \cup {Other}, Lift(o) PROVE TypeOK'
  <2>1. DOMAIN claims' \subseteq Key \cup {Other} /\ open' = open
    BY <1>4, ClaimTypes DEF Lift, Arbiter!Lift
  <2>2. QED
    BY <1>4, <2>1 DEF Lift, TypeOK, runVars, driverVars, journalVars, pageVars
<1>5. QED
  BY <1>1, <1>2, <1>3, <1>4


(* The disjuncts of a run's step, by kind.                                 *)
LEMMA RunStepIs ==
  ASSUME NEW k \in Key, RunStep(k)
  PROVE  \/ Moves(k) \/ Leave(k) \/ Ask(k)
         \/ \E ok \in BOOLEAN :
              \/ Start(k, ok) \/ Prepare(k, ok) \/ Intend(k, ok) \/ Replied(k, ok)
              \/ Verified(k, ok) \/ Stop(k, ok)
         \/ Dispatch(k) \/ NotSent(k) \/ GiveUp(k) \/ PageAnswers(k) \/ Requery(k)
         \/ \E i \in 1..Steps : PageRunsLate(k, i)
         \/ Unrecorded(k) \/ NotVerified(k)
BY DEF RunStep, Drive, Recorded, Moves

(* The report of a run that is found.                                      *)
LEMMA RecoveredIs ==
  ASSUME TypeOK, NEW k \in Key, disk[k] # NoRun
  PROVE  /\ disk[k] \in Report
         /\ Recovered(k) \in Report
         /\ Recovered(k).status = IF Interrupted(k) THEN "interrupted" ELSE disk[k].status
         /\ Recovered(k).mayHaveEffects = disk[k].mayHaveEffects
         /\ Recovered(k).quarantined = Quarantined(k)
<1>1. disk[k] \in Report
  BY DEF TypeOK
<1>2. Quarantined(k) \in BOOLEAN
  BY <1>1 DEF Quarantined, Report
<1>3. PICK b \in BOOLEAN : b = Quarantined(k)
  BY <1>2
<1>4. CASE Interrupted(k)
  <2>1. Recovered(k) = [disk[k] EXCEPT !.status = "interrupted", !.next = {"reconcile"},
                                       !.quarantined = b]
    BY <1>1, <1>3, <1>4 DEF Recovered, Report
  <2>2. QED
    BY <1>1, <1>3, <1>4, <2>1 DEF Report, Status
<1>5. CASE ~Interrupted(k)
  <2>1. Recovered(k) = [disk[k] EXCEPT !.quarantined = b]
    BY <1>1, <1>3, <1>5 DEF Recovered, Report
  <2>2. QED
    BY <1>1, <1>3, <1>5, <2>1 DEF Report
<1>6. QED
  BY <1>4, <1>5

(* The application ends, and starts again.                                 *)
LEMMA RestartTypes ==
  ASSUME WorkflowAssumption, NothingAssumption, TypeOK, Crash \/ Recover
  PROVE  TypeOK'
<1>1. CASE Crash
  <2>1. NoEnding \in Ending
    BY DEF NoEnding, Ending, Status
  <2>2. DOMAIN claims' = {}
    BY <1>1 DEF Crash
  <2>3. report' = [k \in Key |-> NoRun] /\ index' = [k \in Key |-> 0] /\ pc' = [k \in Key |-> "none"]
        /\ reply' = [k \in Key |-> "none"] /\ ending' = [k \in Key |-> NoEnding]
    BY <1>1 DEF Crash, AtRest
  <2>4. executing' = {} /\ cancelled' = {} /\ historical' = {} /\ resumed' = {} /\ leaving' = {}
        /\ reconciling' = {} /\ open' = FALSE /\ lifted' = {} /\ flying' = {}
        /\ journal' \in {"up", journal} /\ UNCHANGED <<disk, effects, verified>>
    BY <1>1 DEF Crash
  <2>5. /\ report' \in [Key -> Report \cup {NoRun}] /\ index' \in [Key -> 0..Steps]
        /\ pc' \in [Key -> PC] /\ reply' \in [Key -> Execution \cup {"none", "unretained"}]
        /\ ending' \in [Key -> Ending]
    BY <2>1, <2>3, WorkflowAssumption DEF PC
  <2>6. QED
    BY <2>2, <2>4, <2>5 DEF TypeOK
<1>2. CASE Recover
  <2>1. \A k \in Key : disk[k] # NoRun => Recovered(k) \in Report
    BY RecoveredIs
  <2>2. report' \in [Key -> Report \cup {NoRun}]
    BY <1>2, <2>1 DEF Recover
  <2>3. QED
    BY <1>2, <2>2 DEF Recover, TypeOK, driverVars, journalVars, pageVars
<1>3. QED
  BY <1>1, <1>2

LEMMA NextTypeOK ==
  ASSUME WorkflowAssumption, NothingAssumption, TypeOK, \A k \in Key : RunOK(k), [Next]_vars
  PROVE  TypeOK'
<1>1. CASE UNCHANGED vars
  BY <1>1 DEF vars, TypeOK, runVars, driverVars, journalVars, arbiterVars, pageVars
<1>2. ASSUME NEW k \in Key, RunStep(k) PROVE TypeOK'
  <2>1. DriverOK(k) /\ PlaceOK(k)
    BY DEF RunOK
  <2>2. pc[k] \notin {"none"} => report[k] # NoRun
    BY <2>1 DEF DriverOK
  <2>3. pc[k] \in After => reply[k] # "none"
    BY <2>1 DEF PlaceOK
  <2>4. pc[k] \in {"asking", "intended", "sent", "verify"} => index[k] < Steps
    BY <2>1 DEF PlaceOK, Before, Doubting, After
  <2>5. k \in reconciling => report[k] # NoRun
    BY <2>1 DEF DriverOK
  <2>6. CASE Moves(k) \/ Leave(k)
    BY <2>6, OtherTypes
  <2>7. CASE Ask(k)
    BY <2>5, <2>7, AskTypes
  <2>8. ASSUME NEW ok \in BOOLEAN,
               \/ Start(k, ok) \/ Prepare(k, ok) \/ Intend(k, ok) \/ Replied(k, ok)
               \/ Verified(k, ok) \/ Stop(k, ok)
        PROVE  TypeOK'
    <3>1. report[k] # NoRun
      BY <2>2, <2>8 DEF Start, Prepare, Intend, Replied, Verified, Stop
    <3>2. QED
      BY <2>3, <2>4, <2>8, <3>1, RecordedTypes
  <2>9. CASE \/ Dispatch(k) \/ NotSent(k) \/ GiveUp(k) \/ PageAnswers(k) \/ Requery(k)
             \/ \E i \in 1..Steps : PageRunsLate(k, i)
    BY <2>4, <2>9, PageTypes
  <2>10. CASE Unrecorded(k) \/ NotVerified(k)
    <3>1. report[k] # NoRun
      BY <2>2, <2>10 DEF Unrecorded, NotVerified
    <3>2. QED
      BY <2>3, <2>10, <3>1, DoubtTypes
  <2>11. QED
    BY <1>2, <2>6, <2>7, <2>8, <2>9, <2>10, RunStepIs
<1>3. CASE OtherTakes \/ OtherEnds \/ \E o \in Key \cup {Other} : Lift(o)
  BY <1>3, OtherTypes
<1>4. CASE Crash \/ Recover
  BY <1>4, RestartTypes
<1>5. QED
  BY <1>1, <1>2, <1>3, <1>4 DEF Next, RunStep

-----------------------------------------------------------------------------
(* What a step leaves alone                                                *)

(* Nothing of a run changes, but for its claim.                            *)
Same(q) ==
  /\ report'[q] = report[q] /\ disk'[q] = disk[q] /\ pc'[q] = pc[q]
  /\ reply'[q] = reply[q] /\ ending'[q] = ending[q] /\ index'[q] = index[q]
  /\ q \in executing' <=> q \in executing
  /\ q \in historical' <=> q \in historical
  /\ q \in reconciling' <=> q \in reconciling
  /\ open' = open
  /\ \A i \in 1..Steps :
       /\ <<q, i>> \in flying' <=> <<q, i>> \in flying
       /\ effects'[<<q, i>>] = effects[<<q, i>>]
       /\ <<q, i>> \in verified' <=> <<q, i>> \in verified

(* What is said of a run does not depend on the others.                    *)
LEMMA SameIsOK ==
  ASSUME WorkflowAssumption, TypeOK, NEW q \in Key, Same(q), RunOK(q)
  PROVE  RunOK(q)' /\ (Unsettled(q)' <=> Unsettled(q))
<1> USE DEF Same
<1>1. Live(q)' = Live(q) /\ Step(q)' = Step(q)
  BY DEF Live, Step
<1>2. \A i \in 1..Steps : (Touched(q, i)' <=> Touched(q, i)) /\ (ActedOnce(q, i)' <=> ActedOnce(q, i))
  BY DEF Touched, ActedOnce
<1>3. Writing \subseteq 1..Steps
  BY DEF WorkflowAssumption
<1>4. Unsettled(q)' <=> Unsettled(q)
  BY <1>3 DEF Unsettled
<1>5. Touches(q)' <=> Touches(q)
  BY <1>2, <1>3 DEF Touches
<1>6. Done(q)' <=> Done(q)
  BY DEF Done
<1>7. PageOK(q)'
  BY <1>1 DEF RunOK, PageOK
<1>8. IndexOK(q)'
  BY <1>1, <1>2 DEF RunOK, IndexOK
<1>9. DriverOK(q)'
  BY <1>1 DEF RunOK, DriverOK
<1>10. index[q] < Steps => Step(q) \in 1..Steps
  BY WorkflowAssumption DEF WorkflowAssumption, TypeOK, Step
<1>11. PlaceOK(q)'
  BY <1>1, <1>2, <1>6, <1>10 DEF RunOK, PlaceOK, Before, After, Doubting
<1>12. NotDispatchedOK(q)'
  BY <1>1, <1>2, <1>10 DEF RunOK, NotDispatchedOK
<1>13. ReportOK(q)'
  BY <1>2, <1>3, <1>4, <1>5, <1>6 DEF RunOK, ReportOK, GoodReport
<1>14. QED
  BY <1>4, <1>7, <1>8, <1>9, <1>11, <1>12, <1>13 DEF RunOK

(* An action of one run leaves the others alone.                           *)
LEMMA Frame ==
  ASSUME WorkflowAssumption, NothingAssumption, TypeOK, TypeOK', NEW k \in Key, RunOK(k), RunStep(k),
         NEW q \in Key \ {k}
  PROVE  Same(q) /\ (q \in leaving' <=> q \in leaving)
<1> USE DEF Same, TypeOK
<1>1. \A i \in 1..Steps, j \in Nat : <<q, i>> # <<k, j>>
  OBVIOUS
<1>2. ASSUME NEW i \in Nat, Acted(k, i) \/ Landed(k, i)
      PROVE  \A j \in 1..Steps : /\ <<q, j>> \in flying' <=> <<q, j>> \in flying
                                 /\ effects'[<<q, j>>] = effects[<<q, j>>]
  BY <1>1, <1>2 DEF Acted, Landed
<1>3. Step(k) \in Nat
  BY WorkflowAssumption DEF WorkflowAssumption, Step
<1>5. ASSUME NEW new, NEW ok, Record(k, new, ok)
      PROVE  disk'[q] = disk[q]
  BY <1>5 DEF Record
<1>6. CASE Moves(k)
  BY <1>6, MovesIs DEF journalVars, pageVars
<1>7. CASE Leave(k)
  BY <1>7 DEF Leave, Arbiter!Give, runVars, journalVars, pageVars
<1>8. CASE Ask(k)
  BY <1>5, <1>8 DEF Ask, Submit, Cancel, Continue, Reconcile, Reconciled, Checkpoint, driverVars,
                    arbiterVars, pageVars
<1>9. ASSUME NEW ok \in BOOLEAN, Start(k, ok) \/ Verified(k, ok) PROVE Same(q) /\ (q \in leaving' <=> q \in leaving)
  <2>1. \A i \in 1..Steps : <<q, i>> \in verified' <=> <<q, i>> \in verified
    BY <1>1, <1>3, <1>9 DEF Start, Verified
  <2>2. QED
    BY <1>5, <1>9, <2>1 DEF Start, Verified, Abort, Goto, arbiterVars, pageVars
<1>10. ASSUME NEW ok \in BOOLEAN, Prepare(k, ok) \/ Intend(k, ok) \/ Replied(k, ok) \/ Stop(k, ok)
       PROVE  Same(q) /\ (q \in leaving' <=> q \in leaving)
  BY <1>5, <1>10 DEF Prepare, Intend, Replied, Stop, Checkpoint, Goto, StopWith, Quiet, journalVars,
                     arbiterVars, pageVars
<1>11. CASE Dispatch(k) \/ NotSent(k) \/ GiveUp(k)
  BY <1>1, <1>3, <1>11 DEF Dispatch, NotSent, GiveUp, Goto, Quiet, journalVars, arbiterVars, pageVars
<1>12. CASE PageAnswers(k) \/ Requery(k)
  BY <1>2, <1>3, <1>12 DEF PageAnswers, Requery, Goto, Quiet, journalVars, arbiterVars
<1>13. ASSUME NEW i \in 1..Steps, PageRunsLate(k, i) PROVE Same(q) /\ (q \in leaving' <=> q \in leaving)
  BY <1>2, <1>13 DEF PageRunsLate, runVars, driverVars, journalVars, arbiterVars
<1>14. CASE Unrecorded(k) \/ NotVerified(k)
  <2>1. report'[q] = report[q] /\ open' = open
    BY <1>14 DEF Unrecorded, NotVerified, IsolateRun, Arbiter!Isolate, arbiterVars
  <2>2. pc'[q] = pc[q] /\ ending'[q] = ending[q]
    BY <1>14 DEF Unrecorded, NotVerified, StopWith, Goto
  <2>3. UNCHANGED <<disk, reply, index, executing, historical, reconciling, leaving, flying,
                    effects, verified>>
    BY <1>14 DEF Unrecorded, NotVerified, Quiet, journalVars, pageVars
  <2>4. QED
    BY <2>1, <2>2, <2>3
<1>15. QED
  BY <1>6, <1>7, <1>8, <1>9, <1>10, <1>11, <1>12, <1>13, <1>14, RunStepIs

-----------------------------------------------------------------------------
(* What a step does to its run                                             *)

(* A report that is good stays good as long as nothing new acts; and with  *)
(* good reports written, whether they reach the disk or not, all are good. *)
LEMMA Written ==
  ASSUME WorkflowAssumption, NEW k \in Key, ReportOK(k),
         UNCHANGED <<flying, effects>>, verified \subseteq verified', NEW new, GoodReport(k, new),
         report'[k] = report[k] \/ GoodReport(k, report'[k]),
         disk'[k] = disk[k] \/ disk'[k] = new,
         open' = open
  PROVE  ReportOK(k)'
<1>1. Touches(k)' <=> Touches(k)
  BY DEF Touches, Touched
<1>2. Unsettled(k)' => Unsettled(k)
  BY DEF Unsettled
<1>3. Done(k) => Done(k)'
  BY DEF Done
<1>4. (\E i \in Writing : Touched(k, i)') <=> \E i \in Writing : Touched(k, i)
  BY DEF Touched
<1>5. ASSUME NEW r, GoodReport(k, r)
      PROVE  /\ r # NoRun
             /\ (\E i \in Writing : Touched(k, i)') => r.mayHaveEffects
             /\ Unsettled(k)' => r.quarantined \/ r.status \notin Final
             /\ r.status = "completed" => Done(k)'
  BY <1>2, <1>3, <1>4, <1>5 DEF GoodReport
<1>6. ASSUME NEW r, r = report'[k] \/ r = disk'[k], r # NoRun PROVE GoodReport(k, r)
  BY <1>6 DEF ReportOK
<1>7. report'[k] # NoRun => GoodReport(k, report[k])'
  BY <1>5, <1>6 DEF GoodReport
<1>8. disk'[k] # NoRun => GoodReport(k, disk[k])'
  BY <1>5, <1>6 DEF GoodReport
<1>9. Touches(k)' => disk'[k] # NoRun /\ (open' => report'[k] # NoRun)
  BY <1>1 DEF ReportOK, GoodReport
<1>10. QED
  BY <1>7, <1>8, <1>9 DEF ReportOK

(* The page and the index of a run do not change with its driver.          *)
LEMMA PageIsQuiet ==
  ASSUME WorkflowAssumption, TypeOK, NEW k \in Key, PageOK(k), IndexOK(k),
         UNCHANGED <<flying, effects, index, verified, open, historical>>,
         report[k] # NoRun => report'[k] # NoRun
  PROVE  /\ PageOK(k)' /\ IndexOK(k)'
         /\ Live(k)' <=> Live(k)
         /\ \A i : (Touched(k, i)' <=> Touched(k, i)) /\ (ActedOnce(k, i)' <=> ActedOnce(k, i))
         /\ Done(k)' <=> Done(k)
         /\ Unsettled(k)' <=> Unsettled(k)
         /\ Step(k)' = Step(k)
<1>1. Live(k)' <=> Live(k)
  BY DEF Live
<1>2. \A i : (Touched(k, i)' <=> Touched(k, i)) /\ (ActedOnce(k, i)' <=> ActedOnce(k, i))
  BY DEF Touched, ActedOnce
<1>3. Done(k)' <=> Done(k)
  BY DEF Done
<1>4. Unsettled(k)' <=> Unsettled(k)
  BY DEF Unsettled
<1>5. Step(k)' = Step(k)
  BY DEF Step
<1>6. PageOK(k)'
  BY <1>1 DEF PageOK
<1>7. IndexOK(k)'
  BY <1>1, <1>2, <1>5 DEF IndexOK
<1>8. QED
  BY <1>1, <1>2, <1>3, <1>4, <1>5, <1>6, <1>7

(* A driver moves on, or decides to stop.                                  *)
LEMMA MovesKeeps ==
  ASSUME WorkflowAssumption, NothingAssumption, TypeOK, NEW k \in Key, RunOK(k), Moves(k)
  PROVE  RunOK(k)' /\ (Unsettled(k)' <=> Unsettled(k))
<1> USE DEF RunOK
<1>1. /\ MovesTo(k)
      /\ UNCHANGED <<report, reply, executing, cancelled, historical, resumed, index, leaving,
                     reconciling, journalVars, open, lifted, pageVars, verified>>
  BY MovesIs
<1>2. UNCHANGED <<flying, effects, disk>>
  BY <1>1 DEF pageVars, journalVars
<1>3. /\ PageOK(k)' /\ IndexOK(k)'
      /\ Live(k)' <=> Live(k)
      /\ \A i : (Touched(k, i)' <=> Touched(k, i)) /\ (ActedOnce(k, i)' <=> ActedOnce(k, i))
      /\ Done(k)' <=> Done(k)
      /\ Unsettled(k)' <=> Unsettled(k)
      /\ Step(k)' = Step(k)
  BY <1>1, <1>2, PageIsQuiet
<1>4. DriverOK(k)'
  BY <1>1, <1>2, <1>3 DEF DriverOK, MovesTo, Before
<1>5. Live(k)
  BY <1>1 DEF DriverOK, MovesTo, Before
<1>6. pc[k] = "goal" => Done(k)
  <2>1. pc[k] = "goal" => index[k] = Steps
    BY DEF PlaceOK
  <2>2. QED
    BY <1>5, <2>1 DEF IndexOK, Done, ActedOnce
<1>7. PlaceOK(k)'
  BY <1>1, <1>2, <1>3, <1>6 DEF PlaceOK, MovesTo, Before, After, Doubting, TypeOK
<1>8. NotDispatchedOK(k)'
  BY <1>1, <1>2, <1>3 DEF NotDispatchedOK, MovesTo, Before
<1>9. ReportOK(k)'
  <2>1. (\E i \in Writing : Touched(k, i)') <=> \E i \in Writing : Touched(k, i)
    BY <1>3
  <2>2. Touches(k)' <=> Touches(k)
    BY <2>1 DEF Touches
  <2>3. QED
    BY <1>1, <1>2, <1>3, <2>1, <2>2 DEF ReportOK, GoodReport
<1>10. QED
  BY <1>3, <1>4, <1>7, <1>8, <1>9


(* A run that is new has done nothing.                                     *)
LEMMA NewIsUntouched ==
  ASSUME WorkflowAssumption, TypeOK, NEW k \in Key, RunOK(k), open, report[k] = NoRun
  PROVE  /\ Live(k) /\ disk[k] = NoRun /\ index[k] = 0 /\ pc[k] = "none"
         /\ \A i \in 1..Steps : ~Touched(k, i)
         /\ ~Touches(k) /\ ~Unsettled(k)
<1> USE DEF RunOK
<1>1. Live(k) /\ disk[k] = NoRun /\ index[k] = 0 /\ pc[k] = "none"
  BY DEF DriverOK, Live
<1>2. ~Touches(k)
  BY <1>1 DEF ReportOK
<1>3. \A i \in 1..Steps : <<k, i>> \notin flying /\ effects[<<k, i>>] \in Nat
  BY DEF PageOK, TypeOK
<1>4. \A i \in 1..Steps : ~Touched(k, i)
  BY <1>2, <1>3 DEF PageOK, Touches, Touched
<1>5. ~Unsettled(k)
  BY <1>2 DEF Touches, Touched, Unsettled
<1>6. QED
  BY <1>1, <1>2, <1>4, <1>5

LEMMA SubmitKeeps ==
  ASSUME WorkflowAssumption, NothingAssumption, TypeOK, NEW k \in Key, RunOK(k), NEW ok \in BOOLEAN, Submit(k, ok)
  PROVE  RunOK(k)' /\ ~Unsettled(k)'
<1> DEFINE new == [Fresh EXCEPT !.status = IF ok THEN "queued" ELSE "failed"]
<1>1. /\ Live(k) /\ disk[k] = NoRun /\ index[k] = 0 /\ pc[k] = "none"
      /\ \A i \in 1..Steps : ~Touched(k, i)
      /\ ~Touches(k) /\ ~Unsettled(k)
  BY NewIsUntouched DEF Submit
<1>2. Fresh \in Report /\ new \in Report
  BY DEF Fresh, Report, Status
<1>3. /\ disk'[k] = disk[k] \/ disk'[k] = Fresh
      /\ ok => disk'[k] = Fresh
  BY <1>2, RecordIs DEF Submit
<1>4. UNCHANGED <<flying, effects, index, verified, open, historical, reconciling>>
      /\ open /\ report[k] = NoRun
  BY DEF Submit, pageVars, arbiterVars
<1>5. report'[k] = new /\ (k \in executing' <=> ok \/ k \in executing)
      /\ pc'[k] = IF ok THEN "slot" ELSE "none"
  BY DEF Submit, TypeOK
<1>6. Fresh.status = "queued" /\ new.status = (IF ok THEN "queued" ELSE "failed")
      /\ new.outcome = NoOutcome
  BY DEF Fresh
<1>7. Fresh # NoRun /\ new # NoRun /\ NoOutcome # NotDispatched
  BY <1>2, NothingAssumption DEF NothingAssumption, NotDispatched, Outcome, Execution
<1>8. /\ PageOK(k)' /\ IndexOK(k)'
      /\ Live(k)' <=> Live(k)
      /\ \A i : (Touched(k, i)' <=> Touched(k, i)) /\ (ActedOnce(k, i)' <=> ActedOnce(k, i))
      /\ Done(k)' <=> Done(k)
      /\ Unsettled(k)' <=> Unsettled(k)
      /\ Step(k)' = Step(k)
  BY <1>4, <1>5, <1>7, PageIsQuiet DEF RunOK
<1>9. DriverOK(k)'
  BY <1>1, <1>3, <1>4, <1>5, <1>6, <1>7, <1>8 DEF DriverOK, Driven, RunOK
<1>10. PlaceOK(k)'
  <2>1. 0 < Steps /\ Step(k) \in 1..Steps
    BY <1>1, WorkflowAssumption DEF WorkflowAssumption, Step
  <2>2. QED
    BY <1>1, <1>4, <1>5, <1>8, <2>1 DEF PlaceOK, Before, After, Doubting
<1>11. NotDispatchedOK(k)'
  BY <1>5, <1>6, <1>7 DEF NotDispatchedOK
<1>12. ReportOK(k)'
  <2>1. GoodReport(k, Fresh) /\ GoodReport(k, new)
    BY <1>1, <1>6, <1>7 DEF GoodReport, Touches
  <2>2. QED
    BY <1>3, <1>4, <1>5, <2>1, Written DEF RunOK
<1>13. QED
  BY <1>1, <1>8, <1>9, <1>10, <1>11, <1>12 DEF RunOK

(* A report whose status changes only is as good as it was, unless it says *)
(* of a run in doubt that it is over, or of another that it completed.     *)
LEMMA StatusKeeps ==
  ASSUME TypeOK, NEW k \in Key, report[k] # NoRun, ReportOK(k), NothingAssumption,
         NEW status \in Status,
         status = "completed" => report[k].status = "completed",
         Unsettled(k) => report[k].quarantined \/ status \notin Final
  PROVE  /\ GoodReport(k, [report[k] EXCEPT !.status = status])
         /\ [report[k] EXCEPT !.status = status].status = status
         /\ [report[k] EXCEPT !.status = status].outcome = report[k].outcome
         /\ [report[k] EXCEPT !.status = status].mayHaveEffects = report[k].mayHaveEffects
         /\ [report[k] EXCEPT !.status = status].quarantined = report[k].quarantined
         /\ [report[k] EXCEPT !.status = status] \in Report
<1> DEFINE new == [report[k] EXCEPT !.status = status]
<1>1. report[k] \in Report
  BY DEF TypeOK
<1>2. new \in Report /\ new.status = status /\ new.outcome = report[k].outcome
      /\ new.mayHaveEffects = report[k].mayHaveEffects /\ new.quarantined = report[k].quarantined
  BY <1>1 DEF Report
<1>3. new # NoRun
  BY <1>2, NothingAssumption DEF NothingAssumption
<1>4. GoodReport(k, report[k])
  BY DEF ReportOK
<1> HIDE DEF new
<1>5. GoodReport(k, new)
  BY <1>2, <1>3, <1>4 DEF GoodReport
<1>6. QED
  BY <1>2, <1>5 DEF new


(* A checkpoint that changes at most the status, beside whatever drives.   *)
LEMMA CheckpointKeeps ==
  ASSUME WorkflowAssumption, NothingAssumption, TypeOK, NEW k \in Key, RunOK(k),
         report[k] # NoRun, NEW status \in Status, NEW ok \in BOOLEAN,
         status = "completed" => report[k].status = "completed",
         Unsettled(k) => report[k].quarantined \/ status \notin Final,
         k \in executing => status \in Driven,
         Checkpoint(k, [report[k] EXCEPT !.status = status], ok),
         UNCHANGED <<executing, historical, index, pc, reply, ending, open, flying, effects, verified>>,
         k \in reconciling' => Live(k)
  PROVE  /\ RunOK(k)' /\ (Unsettled(k)' <=> Unsettled(k))
         /\ report'[k].quarantined = report[k].quarantined
<1> DEFINE new == [report[k] EXCEPT !.status = status]
<1>1. /\ GoodReport(k, new) /\ new.status = status /\ new.outcome = report[k].outcome
      /\ new.mayHaveEffects = report[k].mayHaveEffects
      /\ new.quarantined = report[k].quarantined
      /\ new \in Report
  BY StatusKeeps DEF RunOK
<1>2. Checkpoint(k, new, ok)
  OBVIOUS
<1> HIDE DEF new
<1>3. /\ report' = [report EXCEPT ![k] = new]
      /\ disk'[k] = disk[k] \/ disk'[k] = new
  BY <1>1, <1>2, CheckpointIs
<1>4. report'[k] = new
  BY <1>3 DEF TypeOK
<1>5. new # NoRun
  BY <1>1 DEF GoodReport
<1>6. /\ PageOK(k)' /\ IndexOK(k)'
      /\ Live(k)' <=> Live(k)
      /\ \A i : (Touched(k, i)' <=> Touched(k, i)) /\ (ActedOnce(k, i)' <=> ActedOnce(k, i))
      /\ Done(k)' <=> Done(k)
      /\ Unsettled(k)' <=> Unsettled(k)
      /\ Step(k)' = Step(k)
  BY <1>4, <1>5, PageIsQuiet DEF RunOK
<1>7. DriverOK(k)'
  BY <1>1, <1>3, <1>4, <1>5, <1>6 DEF DriverOK, RunOK
<1>8. PlaceOK(k)'
  BY <1>1, <1>3, <1>4, <1>6 DEF PlaceOK, RunOK
<1>9. NotDispatchedOK(k)'
  BY <1>1, <1>4, <1>6 DEF NotDispatchedOK, RunOK
<1>10. ReportOK(k)'
  BY <1>1, <1>3, <1>4, Written DEF RunOK
<1>11. QED
  BY <1>1, <1>4, <1>6, <1>7, <1>8, <1>9, <1>10 DEF RunOK

(* What a client asks of a run.                                            *)
LEMMA AskKeeps ==
  ASSUME WorkflowAssumption, NothingAssumption, TypeOK, NEW k \in Key, RunOK(k), DoubtOK(k), Ask(k)
  PROVE  RunOK(k)' /\ (Unsettled(k)' => Unsettled(k) /\ report[k] # NoRun /\ pc'[k] = pc[k] /\ report'[k].quarantined = report[k].quarantined)
<1>1. ASSUME report[k] # NoRun, Unsettled(k), k \notin executing PROVE report[k].quarantined
  BY <1>1 DEF DoubtOK, RunOK, DriverOK, Doubting, After
<1>2. ASSUME report[k] # NoRun
      PROVE  /\ report[k].status \in Status
             /\ [report[k] EXCEPT !.status = report[k].status] = report[k]
             /\ Unsettled(k) => report[k].quarantined \/ report[k].status \notin Final
             /\ k \in executing => report[k].status \in Driven
  BY <1>2 DEF RunOK, ReportOK, GoodReport, DriverOK, TypeOK, Report
<1>3. ASSUME NEW ok \in BOOLEAN, Submit(k, ok) PROVE RunOK(k)' /\ ~Unsettled(k)'
  BY <1>3, SubmitKeeps
<1>4. ASSUME NEW ok \in BOOLEAN, Cancel(k, ok)
      PROVE  RunOK(k)' /\ (Unsettled(k)' => Unsettled(k) /\ report[k] # NoRun /\ pc'[k] = pc[k] /\ report'[k].quarantined = report[k].quarantined)
  <2>1. /\ report[k] # NoRun
        /\ UNCHANGED <<executing, historical, index, pc, reply, ending, open, flying, effects,
                       verified, reconciling>>
        /\ Checkpoint(k, [report[k] EXCEPT !.status = StatusCancelled(k)], ok)
    BY <1>4 DEF Cancel, driverVars, arbiterVars, pageVars
  <2>2. k \in reconciling' => Live(k)
    BY <2>1 DEF RunOK, DriverOK
  <2>3. /\ StatusCancelled(k) \in Status
        /\ StatusCancelled(k) = "completed" => report[k].status = "completed"
        /\ Unsettled(k) => report[k].quarantined \/ StatusCancelled(k) \notin Final
        /\ k \in executing => StatusCancelled(k) \in Driven
    BY <1>1, <2>1 DEF StatusCancelled, Status, Driven, Final
  <2>4. QED
    BY <2>1, <2>2, <2>3, CheckpointKeeps
<1>5. ASSUME NEW ok \in BOOLEAN, Reconcile(k, ok) \/ Reconciled(k, ok)
      PROVE  RunOK(k)' /\ (Unsettled(k)' => Unsettled(k) /\ report[k] # NoRun /\ pc'[k] = pc[k] /\ report'[k].quarantined = report[k].quarantined)
  <2>1. /\ report[k] # NoRun
        /\ UNCHANGED <<executing, historical, index, pc, reply, ending, open, flying, effects,
                       verified>>
        /\ Checkpoint(k, report[k], ok)
    BY <1>5 DEF Reconcile, Reconciled, driverVars, arbiterVars, pageVars, RunOK, DriverOK
  <2>2. Live(k)
    BY <1>5 DEF RunOK, DriverOK, Reconcile, Reconciled, Live
  <2>3. QED
    BY <1>2, <2>1, <2>2, CheckpointKeeps
<1>6. ASSUME NEW ok \in BOOLEAN, Continue(k, ok)
      PROVE  RunOK(k)' /\ ~Unsettled(k)'
  <2> DEFINE new == [report[k] EXCEPT !.status = "queued"]
  <2>1. /\ report[k] # NoRun /\ k \notin executing /\ k \notin historical
        /\ report[k].outcome = NotDispatched
    BY <1>6 DEF Continue, MayContinue
  <2>2. Live(k) /\ pc[k] = "none"
    BY <2>1 DEF RunOK, DriverOK, Live
  <2>3. index[k] < Steps /\ ~Touched(k, Step(k))
    BY <2>1, <2>2 DEF RunOK, NotDispatchedOK
  <2>4. ~Unsettled(k)
    <3>1. ASSUME NEW i \in Writing, <<k, i>> \notin verified PROVE ~Touched(k, i)
      <4>1. i \in 1..Steps /\ index[k] \in 0..Steps
        BY WorkflowAssumption DEF WorkflowAssumption, TypeOK
      <4>2. i = Step(k) \/ i > Step(k)
        BY <2>2, <3>1, <4>1 DEF RunOK, IndexOK, Step
      <4>3. QED
        BY <2>2, <2>3, <4>1, <4>2 DEF RunOK, IndexOK
    <3>2. QED
      BY <3>1 DEF Unsettled, Touched
  <2>5. /\ GoodReport(k, new) /\ new.status = "queued" /\ new.outcome = report[k].outcome
        /\ new \in Report
    BY <2>1, <2>4, StatusKeeps DEF RunOK, Status
  <2>6. Checkpoint(k, new, ok)
    BY <1>6 DEF Continue
  <2>7. UNCHANGED <<historical, index, reply, ending, open, flying, effects, verified, reconciling>>
        /\ (k \in executing' <=> ok) /\ pc'[k] = (IF ok THEN "slot" ELSE "none")
    BY <1>6, <2>1 DEF Continue, TypeOK, arbiterVars, pageVars
  <2> HIDE DEF new
  <2>8. /\ report'[k] = new /\ (disk'[k] = disk[k] \/ disk'[k] = new)
        /\ ok => disk'[k] = new
    BY <2>5, <2>6, CheckpointIs DEF TypeOK
  <2>9. new # NoRun
    BY <2>5 DEF GoodReport
  <2>10. /\ PageOK(k)' /\ IndexOK(k)'
         /\ Live(k)' <=> Live(k)
         /\ \A i : (Touched(k, i)' <=> Touched(k, i)) /\ (ActedOnce(k, i)' <=> ActedOnce(k, i))
         /\ Done(k)' <=> Done(k)
         /\ Unsettled(k)' <=> Unsettled(k)
         /\ Step(k)' = Step(k)
    BY <2>7, <2>8, <2>9, PageIsQuiet DEF RunOK
  <2>11. DriverOK(k)'
    BY <2>1, <2>2, <2>5, <2>7, <2>8, <2>9, <2>10 DEF DriverOK, RunOK, Driven
  <2>12. PlaceOK(k)'
    BY <2>3, <2>7, <2>10 DEF PlaceOK, Before, After, Doubting
  <2>13. NotDispatchedOK(k)'
    BY <2>3, <2>7, <2>10 DEF NotDispatchedOK
  <2>14. ReportOK(k)'
    BY <2>5, <2>7, <2>8, Written DEF RunOK
  <2>15. QED
    BY <2>4, <2>10, <2>11, <2>12, <2>13, <2>14 DEF RunOK
<1>7. QED
  BY <1>3, <1>4, <1>5, <1>6 DEF Ask


(* Only the current step of a run of this process can be in doubt.         *)
LEMMA DoubtIsAtStep ==
  ASSUME WorkflowAssumption, TypeOK, NEW k \in Key, RunOK(k), Live(k), Unsettled(k)
  PROVE  index[k] < Steps /\ Step(k) \in Writing /\ Touched(k, Step(k)) /\ <<k, Step(k)>> \notin verified
<1>1. PICK i \in Writing : Touched(k, i) /\ <<k, i>> \notin verified
  BY DEF Unsettled, Touched
<1>2. i \in 1..Steps /\ index[k] \in 0..Steps /\ Steps \in Nat
  BY WorkflowAssumption DEF WorkflowAssumption, TypeOK
<1>3. ~(i <= index[k]) /\ ~(i > Step(k))
  BY <1>1, <1>2 DEF RunOK, IndexOK
<1>4. i = Step(k) /\ index[k] < Steps
  BY <1>2, <1>3 DEF Step
<1>5. QED
  BY <1>1, <1>4

LEMMA BeforeIsSettled ==
  ASSUME WorkflowAssumption, TypeOK, NEW k \in Key, RunOK(k), pc[k] \in Before \cup {"goal"}
  PROVE  ~Unsettled(k) /\ Live(k) /\ report[k] # NoRun /\ k \in executing
<1>1. Live(k) /\ report[k] # NoRun /\ k \in executing
  BY DEF RunOK, DriverOK, Before
<1>2. SUFFICES ASSUME Unsettled(k) PROVE FALSE
  BY <1>1
<1>3. index[k] < Steps /\ Touched(k, Step(k))
  BY <1>1, <1>2, DoubtIsAtStep
<1>4. pc[k] # "goal"
  BY <1>3, WorkflowAssumption DEF RunOK, PlaceOK, WorkflowAssumption, TypeOK
<1>5. QED
  BY <1>3, <1>4 DEF RunOK, PlaceOK

(* A driver that starts.                                                   *)
LEMMA StartKeeps ==
  ASSUME WorkflowAssumption, NothingAssumption, TypeOK, NEW k \in Key, RunOK(k), NEW ok \in BOOLEAN, Start(k, ok)
  PROVE  RunOK(k)' /\ ~Unsettled(k)'
<1> DEFINE new == [report[k] EXCEPT !.status = "running"]
           left == [report[k] EXCEPT !.status = "paused"]
<1>1. pc[k] = "start" /\ ~Unsettled(k) /\ Live(k) /\ report[k] # NoRun /\ k \in executing
  BY BeforeIsSettled DEF Start, Before
<1>2. /\ GoodReport(k, new) /\ new.status = "running" /\ new.outcome = report[k].outcome
      /\ new \in Report
  BY <1>1, StatusKeeps DEF RunOK, Status
<1>3. /\ GoodReport(k, left) /\ left.status = "paused" /\ left.outcome = report[k].outcome
      /\ left \in Report
  BY <1>1, StatusKeeps DEF RunOK, Status
<1>4. [new EXCEPT !.status = "paused"] = left
  BY <1>1 DEF TypeOK, Report
<1>5. Record(k, new, ok)
  BY DEF Start
<1>6. /\ disk'[k] = disk[k] \/ disk'[k] = new
      /\ ok => disk'[k] = new
  BY <1>2, <1>5, RecordIs
<1>7. UNCHANGED <<historical, index, reply, ending, open, flying, effects, verified, reconciling>>
  BY DEF Start, arbiterVars, pageVars
<1>8. \/ ok /\ report'[k] = new /\ pc'[k] \in {"recheck", "head"} /\ k \in executing'
      \/ ~ok /\ report'[k] = left /\ pc'[k] = "none" /\ k \notin executing'
  BY <1>1, <1>4 DEF Start, Abort, Goto, TypeOK
<1> HIDE DEF new, left
<1>9. new # NoRun /\ left # NoRun
  BY <1>2, <1>3 DEF GoodReport
<1>10. /\ PageOK(k)' /\ IndexOK(k)'
       /\ Live(k)' <=> Live(k)
       /\ \A i : (Touched(k, i)' <=> Touched(k, i)) /\ (ActedOnce(k, i)' <=> ActedOnce(k, i))
       /\ Done(k)' <=> Done(k)
       /\ Unsettled(k)' <=> Unsettled(k)
       /\ Step(k)' = Step(k)
  BY <1>7, <1>8, <1>9, PageIsQuiet DEF RunOK
<1>11. DriverOK(k)'
  BY <1>1, <1>2, <1>6, <1>7, <1>8, <1>9, <1>10 DEF DriverOK, RunOK, Driven
<1>12. index[k] < Steps /\ ~Touched(k, Step(k))
  BY <1>1 DEF RunOK, PlaceOK, Before
<1>13. PlaceOK(k)'
  BY <1>7, <1>8, <1>10, <1>12 DEF PlaceOK, Before, After, Doubting
<1>14. NotDispatchedOK(k)'
  BY <1>7, <1>10, <1>12 DEF NotDispatchedOK
<1>15. ReportOK(k)'
  BY <1>2, <1>3, <1>6, <1>7, <1>8, Written DEF RunOK
<1>16. QED
  BY <1>1, <1>10, <1>11, <1>13, <1>14, <1>15 DEF RunOK

(* A step is prepared, or cannot be recorded as such.                      *)
LEMMA PrepareKeeps ==
  ASSUME WorkflowAssumption, NothingAssumption, TypeOK, NEW k \in Key, RunOK(k), NEW ok \in BOOLEAN, Prepare(k, ok)
  PROVE  RunOK(k)' /\ ~Unsettled(k)'
<1>1. /\ pc[k] = "head" /\ index[k] < Steps /\ ~Unsettled(k) /\ Live(k) /\ report[k] # NoRun
      /\ k \in executing /\ report[k] \in Report
  BY BeforeIsSettled DEF Prepare, Before, TypeOK
<1>2. /\ disk'[k] = disk[k] \/ disk'[k] = report[k]
      /\ report'[k] = report[k]
  BY <1>1, CheckpointIs DEF Prepare, TypeOK
<1>3. UNCHANGED <<historical, index, reply, open, flying, effects, verified, reconciling, executing>>
  BY DEF Prepare, Quiet, arbiterVars, pageVars
<1>4. \/ pc'[k] = "prepared"
      \/ pc'[k] = "stop" /\ ending'[k].status = "paused"
  BY DEF Prepare, StopWith, Goto, TypeOK
<1>5. /\ PageOK(k)' /\ IndexOK(k)'
      /\ Live(k)' <=> Live(k)
      /\ \A i : (Touched(k, i)' <=> Touched(k, i)) /\ (ActedOnce(k, i)' <=> ActedOnce(k, i))
      /\ Done(k)' <=> Done(k)
      /\ Unsettled(k)' <=> Unsettled(k)
      /\ Step(k)' = Step(k)
  BY <1>2, <1>3, PageIsQuiet DEF RunOK
<1>6. DriverOK(k)'
  BY <1>1, <1>2, <1>3, <1>4, <1>5 DEF DriverOK, RunOK, Driven
<1>7. ~Touched(k, Step(k))
  BY <1>1 DEF RunOK, PlaceOK, Before
<1>8. PlaceOK(k)'
  BY <1>1, <1>3, <1>4, <1>5, <1>7 DEF PlaceOK, Before, After, Doubting
<1>9. NotDispatchedOK(k)'
  BY <1>1, <1>3, <1>5, <1>7 DEF NotDispatchedOK
<1>10. ReportOK(k)'
  <2>1. GoodReport(k, report[k])
    BY <1>1 DEF RunOK, ReportOK
  <2>2. QED
    BY <1>2, <1>3, <2>1, Written DEF RunOK
<1>11. QED
  BY <1>1, <1>5, <1>6, <1>8, <1>9, <1>10 DEF RunOK

(* The intent is on record before the call (step_dispatch_intent).         *)
LEMMA IntendKeeps ==
  ASSUME WorkflowAssumption, NothingAssumption, TypeOK, NEW k \in Key, RunOK(k), NEW ok \in BOOLEAN, Intend(k, ok)
  PROVE  RunOK(k)' /\ ~Unsettled(k)'
<1> DEFINE new == IF Step(k) \in Writing THEN [report[k] EXCEPT !.mayHaveEffects = TRUE] ELSE report[k]
<1>1. /\ pc[k] = "prepared" /\ ~Unsettled(k) /\ Live(k) /\ report[k] # NoRun
      /\ k \in executing /\ report[k] \in Report
  BY BeforeIsSettled DEF Intend, Before, TypeOK
<1>2. /\ new \in Report /\ new.status = report[k].status /\ new.outcome = report[k].outcome
      /\ new.quarantined = report[k].quarantined
      /\ Step(k) \in Writing => new.mayHaveEffects
      /\ report[k].mayHaveEffects => new.mayHaveEffects
  BY <1>1 DEF Report
<1>3. /\ disk'[k] = disk[k] \/ disk'[k] = new
      /\ ok /\ Step(k) \in Writing => disk'[k] = new
      /\ report'[k] = new
  <2>1. CASE Step(k) \in Writing
    BY <1>2, <2>1, CheckpointIs DEF Intend, TypeOK
  <2>2. CASE Step(k) \notin Writing
    BY <2>2 DEF Intend, TypeOK, journalVars
  <2>3. QED
    BY <2>1, <2>2
<1>4. UNCHANGED <<historical, index, reply, open, flying, effects, verified, reconciling, executing>>
  BY DEF Intend, Quiet, arbiterVars, pageVars
<1>5. \/ ok /\ pc'[k] = "intended"
      \/ pc'[k] = "stop" /\ ending'[k].status = "paused"
  BY DEF Intend, StopWith, Goto, TypeOK
<1>6. GoodReport(k, new)
  <2>1. GoodReport(k, report[k])
    BY <1>1 DEF RunOK, ReportOK
  <2>2. new # NoRun
    BY <1>2, NothingAssumption DEF NothingAssumption
  <2> HIDE DEF new
  <2>3. QED
    BY <1>2, <2>1, <2>2 DEF GoodReport
<1> HIDE DEF new
<1>7. new # NoRun
  BY <1>6 DEF GoodReport
<1>8. /\ PageOK(k)' /\ IndexOK(k)'
      /\ Live(k)' <=> Live(k)
      /\ \A i : (Touched(k, i)' <=> Touched(k, i)) /\ (ActedOnce(k, i)' <=> ActedOnce(k, i))
      /\ Done(k)' <=> Done(k)
      /\ Unsettled(k)' <=> Unsettled(k)
      /\ Step(k)' = Step(k)
  BY <1>3, <1>4, <1>7, PageIsQuiet DEF RunOK
<1>9. DriverOK(k)'
  BY <1>1, <1>2, <1>3, <1>4, <1>5, <1>7, <1>8 DEF DriverOK, RunOK, Driven
<1>10. index[k] < Steps /\ ~Touched(k, Step(k))
  BY <1>1 DEF RunOK, PlaceOK, Before
<1>11. PlaceOK(k)'
  BY <1>2, <1>3, <1>4, <1>5, <1>8, <1>10 DEF PlaceOK, Before, After, Doubting
<1>12. NotDispatchedOK(k)'
  BY <1>4, <1>8, <1>10 DEF NotDispatchedOK
<1>13. ReportOK(k)'
  BY <1>3, <1>4, <1>6, Written DEF RunOK
<1>14. QED
  BY <1>1, <1>8, <1>9, <1>11, <1>12, <1>13 DEF RunOK


(* The result of a step goes on record, or cannot (step_execution_result). *)
LEMMA RepliedKeeps ==
  ASSUME WorkflowAssumption, NothingAssumption, TypeOK, NEW k \in Key, RunOK(k), NEW ok \in BOOLEAN, Replied(k, ok)
  PROVE  RunOK(k)' /\ pc'[k] \in Doubting
<1> DEFINE new == [report[k] EXCEPT !.outcome = OutcomeOf(k)]
<1>1. /\ pc[k] = "replied" /\ Live(k) /\ report[k] # NoRun /\ k \in executing
      /\ report[k] \in Report /\ reply[k] # "none"
  BY DEF Replied, RunOK, DriverOK, PlaceOK, After, TypeOK
<1>2. OutcomeOf(k) \in Outcome
  BY <1>1, OutcomeIs
<1>3. /\ new \in Report /\ new.status = report[k].status /\ new.outcome = OutcomeOf(k)
      /\ new.quarantined = report[k].quarantined
      /\ new.mayHaveEffects = report[k].mayHaveEffects
  BY <1>1, <1>2 DEF Report
<1>4. Checkpoint(k, new, ok)
  BY DEF Replied
<1>5. UNCHANGED <<historical, index, reply, ending, open, flying, effects, verified, reconciling, executing>>
      /\ pc'[k] \in {"verify", "unrecorded"}
  BY DEF Replied, Goto, Quiet, TypeOK, arbiterVars, pageVars
<1> HIDE DEF new
<1>6. report'[k] = new /\ (disk'[k] = disk[k] \/ disk'[k] = new)
  BY <1>3, <1>4, CheckpointIs DEF TypeOK
<1>7. GoodReport(k, new)
  <2>1. GoodReport(k, report[k])
    BY <1>1 DEF RunOK, ReportOK
  <2>2. new # NoRun
    BY <1>3, NothingAssumption DEF NothingAssumption
  <2>3. QED
    BY <1>3, <2>1, <2>2 DEF GoodReport
<1>8. new # NoRun
  BY <1>7 DEF GoodReport
<1>9. /\ PageOK(k)' /\ IndexOK(k)'
      /\ Live(k)' <=> Live(k)
      /\ \A i : (Touched(k, i)' <=> Touched(k, i)) /\ (ActedOnce(k, i)' <=> ActedOnce(k, i))
      /\ Done(k)' <=> Done(k)
      /\ Unsettled(k)' <=> Unsettled(k)
      /\ Step(k)' = Step(k)
  BY <1>5, <1>6, <1>8, PageIsQuiet DEF RunOK
<1>10. DriverOK(k)'
  BY <1>1, <1>3, <1>5, <1>6, <1>8, <1>9 DEF DriverOK, RunOK
<1>11. /\ index[k] < Steps
       /\ reply[k] \in {"completed", "unretained"} => ActedOnce(k, Step(k))
       /\ reply[k] = "not_dispatched" => ~Touched(k, Step(k))
  BY <1>1 DEF RunOK, PlaceOK, After, Doubting
<1>12. PlaceOK(k)'
  BY <1>1, <1>5, <1>9, <1>11 DEF PlaceOK, Before, After, Doubting
<1>13. OutcomeOf(k) = NotDispatched => reply[k] = "not_dispatched"
  BY DEF OutcomeOf, NotDispatched
<1>14. NotDispatchedOK(k)'
  BY <1>3, <1>5, <1>6, <1>9, <1>11, <1>13 DEF NotDispatchedOK
<1>15. ReportOK(k)'
  BY <1>5, <1>6, <1>7, Written DEF RunOK
<1>16. QED
  BY <1>5, <1>9, <1>10, <1>12, <1>14, <1>15 DEF RunOK, Doubting, After

(* A step that succeeded, and was seen to (step_verification_result).      *)
LEMMA VerifiedKeeps ==
  ASSUME WorkflowAssumption, NothingAssumption, TypeOK, NEW k \in Key, RunOK(k), NEW ok \in BOOLEAN, Verified(k, ok)
  PROVE  RunOK(k)' /\ ~Unsettled(k)'
<1> DEFINE new == [report[k] EXCEPT !.outcome = NoOutcome]
           left == [new EXCEPT !.status = "paused"]
           now == Step(k)
<1>1. /\ pc[k] = "verify" /\ Live(k) /\ report[k] # NoRun /\ k \in executing
      /\ report[k] \in Report /\ index[k] < Steps
  BY DEF Verified, RunOK, DriverOK, PlaceOK, After, Doubting, TypeOK
<1>2. now \in 1..Steps /\ now = index[k] + 1 /\ index[k] \in Nat
  BY <1>1, WorkflowAssumption DEF WorkflowAssumption, Step, TypeOK
<1>3. reply[k] = "completed" /\ verified' = verified \cup {<<k, now>>}
  BY DEF Verified, Success
<1>4. ActedOnce(k, now)
  BY <1>1, <1>3 DEF RunOK, PlaceOK, After
<1>5. /\ new \in Report /\ new.status = report[k].status /\ new.outcome = NoOutcome
      /\ new.quarantined = report[k].quarantined
      /\ new.mayHaveEffects = report[k].mayHaveEffects
  BY <1>1 DEF Report
<1>6. /\ left \in Report /\ left.status = "paused" /\ left.outcome = NoOutcome
      /\ left.quarantined = report[k].quarantined
      /\ left.mayHaveEffects = report[k].mayHaveEffects
  BY <1>1 DEF Report, Status
<1>7. Record(k, new, ok)
  BY DEF Verified
<1>8. /\ disk'[k] = disk[k] \/ disk'[k] = new
      /\ ok => disk'[k] = new
  BY <1>5, <1>7, RecordIs
<1>9. UNCHANGED <<historical, ending, open, flying, effects, reconciling>> /\ index'[k] = index[k] + 1
  BY DEF Verified, arbiterVars, pageVars, TypeOK
<1>10. \/ ok /\ report'[k] = new /\ pc'[k] = "head" /\ k \in executing'
       \/ ~ok /\ report'[k] = left /\ pc'[k] = "none" /\ k \notin executing'
  BY <1>1 DEF Verified, Abort, Goto, TypeOK
<1> HIDE DEF new, left, now
<1>11. GoodReport(k, new) /\ GoodReport(k, left)
  <2>1. GoodReport(k, report[k])
    BY <1>1 DEF RunOK, ReportOK
  <2>2. new # NoRun /\ left # NoRun
    BY <1>5, <1>6, NothingAssumption DEF NothingAssumption
  <2>3. QED
    BY <1>5, <1>6, <2>1, <2>2 DEF GoodReport, Final
<1>12. new # NoRun /\ left # NoRun
  BY <1>11 DEF GoodReport
<1>13. Live(k)' /\ Step(k)' = now + 1
  BY <1>1, <1>2, <1>9 DEF Live, Step
<1>14. \A i : (Touched(k, i)' <=> Touched(k, i)) /\ (ActedOnce(k, i)' <=> ActedOnce(k, i))
  BY <1>9 DEF Touched, ActedOnce
<1>15. PageOK(k)'
  BY <1>1, <1>9, <1>10, <1>12, <1>13 DEF RunOK, PageOK
<1>16. IndexOK(k)'
  <2>1. ASSUME NEW i \in 1..Steps, i <= index'[k] PROVE <<k, i>> \in verified' /\ ActedOnce(k, i)
    <3>1. i <= index[k] \/ i = now
      BY <1>2, <1>9, <2>1
    <3>2. QED
      BY <1>1, <1>3, <1>4, <3>1 DEF RunOK, IndexOK
  <2>2. ASSUME NEW i \in 1..Steps, i > now + 1 PROVE ~Touched(k, i)
    <3>1. i > now
      BY <1>2, <2>2
    <3>2. QED
      BY <1>1, <3>1 DEF RunOK, IndexOK, now
  <2>3. QED
    BY <1>13, <1>14, <2>1, <2>2 DEF IndexOK
<1>17. DriverOK(k)'
  BY <1>1, <1>2, <1>5, <1>8, <1>9, <1>10, <1>12, <1>13 DEF DriverOK, RunOK
<1>18. index'[k] < Steps => ~Touched(k, now + 1)
  <2>1. ASSUME index'[k] < Steps PROVE now + 1 \in 1..Steps /\ now + 1 > now
    BY <1>2, <1>9, <2>1, WorkflowAssumption DEF WorkflowAssumption
  <2>2. QED
    BY <1>1, <2>1 DEF RunOK, IndexOK, now
<1>19. PlaceOK(k)'
  BY <1>10, <1>13, <1>14, <1>18 DEF PlaceOK, Before, After, Doubting
<1>20. NotDispatchedOK(k)'
  <2>1. NoOutcome # NotDispatched
    BY NothingAssumption DEF NothingAssumption, NotDispatched, Outcome, Execution
  <2>2. QED
    BY <1>5, <1>6, <1>10, <2>1 DEF NotDispatchedOK
<1>21. ReportOK(k)'
  BY <1>3, <1>8, <1>9, <1>10, <1>11, Written DEF RunOK
<1>22. ~Unsettled(k)'
  <2>1. SUFFICES ASSUME Unsettled(k)' PROVE FALSE
    OBVIOUS
  <2>2. Unsettled(k)
    BY <1>3, <1>9, <2>1 DEF Unsettled
  <2>3. \A i \in Writing : Touched(k, i) /\ <<k, i>> \notin verified => i = now
    <3>1. ASSUME NEW i \in Writing, Touched(k, i), <<k, i>> \notin verified PROVE i = now
      <4>1. i \in 1..Steps
        BY WorkflowAssumption DEF WorkflowAssumption
      <4>2. ~(i <= index[k]) /\ ~(i > now)
        BY <1>1, <3>1, <4>1 DEF RunOK, IndexOK, now
      <4>3. QED
        BY <1>2, <4>1, <4>2
    <3>2. QED
      BY <3>1
  <2>4. QED
    BY <1>3, <1>9, <2>1, <2>3 DEF Unsettled, Touched
<1>23. QED
  BY <1>15, <1>16, <1>17, <1>19, <1>20, <1>21, <1>22 DEF RunOK

(* stop writes a true report.                                              *)
LEMMA StopKeeps ==
  ASSUME WorkflowAssumption, NothingAssumption, TypeOK, NEW k \in Key, RunOK(k), DoubtOK(k), NEW ok \in BOOLEAN,
         Stop(k, ok)
  PROVE  RunOK(k)' /\ (Unsettled(k)' => Unsettled(k) /\ pc[k] = "stop" /\ report'[k].quarantined)
<1> DEFINE given == ending[k].outcome
           blocked == IF given = NoOutcome THEN report[k].outcome ELSE given
           next == NextActions(ending[k].status, given, blocked)
           new == [report[k] EXCEPT !.status = ending[k].status, !.outcome = blocked, !.next = next]
<1>1. /\ pc[k] = "stop" /\ Live(k) /\ report[k] # NoRun /\ k \in executing /\ report[k] \in Report
  BY DEF Stop, RunOK, DriverOK, TypeOK
<1>2. ending[k].status \in Status /\ given \in Outcome \cup {NoOutcome}
  BY DEF TypeOK, Ending
<1>3. blocked \in Outcome \cup {NoOutcome} /\ next \in SUBSET {"continue", "reconcile"}
  BY <1>1, <1>2 DEF Report, NextActions
<1>4. blocked = NotDispatched => given = NotDispatched \/ report[k].outcome = NotDispatched
  OBVIOUS
<1>5. Checkpoint(k, new, ok)
  BY DEF Stop
<1> HIDE DEF blocked, next
<1>6. /\ new \in Report /\ new.status = ending[k].status /\ new.outcome = blocked
      /\ new.quarantined = report[k].quarantined
      /\ new.mayHaveEffects = report[k].mayHaveEffects
  BY <1>1, <1>2, <1>3 DEF Report
<1>7. /\ UNCHANGED <<historical, index, open, flying, effects, verified, reconciling>>
      /\ pc'[k] = "none" /\ k \notin executing'
  BY DEF Stop, Goto, TypeOK, arbiterVars, pageVars
<1> HIDE DEF new
<1>8. report'[k] = new /\ (disk'[k] = disk[k] \/ disk'[k] = new)
  BY <1>5, <1>6, CheckpointIs DEF TypeOK
<1>9. Unsettled(k) => report[k].quarantined
  BY <1>1 DEF DoubtOK, Live, Doubting, After
<1>10. GoodReport(k, new)
  <2>1. GoodReport(k, report[k])
    BY <1>1 DEF RunOK, ReportOK
  <2>2. new # NoRun
    BY <1>6, NothingAssumption DEF NothingAssumption
  <2>3. ending[k].status = "completed" => Done(k)
    BY <1>1 DEF RunOK, PlaceOK
  <2>4. QED
    BY <1>6, <1>9, <2>1, <2>2, <2>3 DEF GoodReport
<1>11. new # NoRun
  BY <1>10 DEF GoodReport
<1>12. /\ PageOK(k)' /\ IndexOK(k)'
       /\ Live(k)' <=> Live(k)
       /\ \A i : (Touched(k, i)' <=> Touched(k, i)) /\ (ActedOnce(k, i)' <=> ActedOnce(k, i))
       /\ Done(k)' <=> Done(k)
       /\ Unsettled(k)' <=> Unsettled(k)
       /\ Step(k)' = Step(k)
  BY <1>7, <1>8, <1>11, PageIsQuiet DEF RunOK
<1>13. DriverOK(k)'
  BY <1>1, <1>7, <1>8, <1>11, <1>12 DEF DriverOK, RunOK
<1>14. PlaceOK(k)'
  BY <1>7 DEF PlaceOK, Before, After, Doubting
<1>15. NotDispatchedOK(k)'
  <2>1. given = NotDispatched => index[k] < Steps /\ ~Touched(k, Step(k))
    BY <1>1 DEF RunOK, PlaceOK
  <2>2. report[k].outcome = NotDispatched => index[k] < Steps /\ ~Touched(k, Step(k))
    BY <1>1 DEF RunOK, NotDispatchedOK
  <2>3. QED
    BY <1>4, <1>6, <1>7, <1>8, <1>12, <2>1, <2>2 DEF NotDispatchedOK
<1>16. ReportOK(k)'
  BY <1>7, <1>8, <1>10, Written DEF RunOK
<1>17. QED
  BY <1>1, <1>6, <1>8, <1>9, <1>12, <1>13, <1>14, <1>15, <1>16 DEF RunOK


(* The script of one step runs, or is lost; no other step is concerned.    *)
LEMMA ScriptEnds ==
  ASSUME WorkflowAssumption, TypeOK, NEW k \in Key, PageOK(k), NEW i \in 1..Steps,
         <<k, i>> \in flying, Acted(k, i) \/ Landed(k, i), UNCHANGED <<verified, open, historical>>,
         report'[k] = report[k]
  PROVE  /\ PageOK(k)'
         /\ \A j \in 1..Steps \ {i} : /\ <<k, j>> \in flying' <=> <<k, j>> \in flying
                                      /\ effects'[<<k, j>>] = effects[<<k, j>>]
         /\ <<k, i>> \notin flying'
         /\ Acted(k, i) => ActedOnce(k, i)'
         /\ Landed(k, i) => ~Touched(k, i)'
         /\ \A j \in 1..Steps : (Touched(k, j)' => Touched(k, j)) /\ (ActedOnce(k, j) => ActedOnce(k, j)')
         /\ Done(k) => Done(k)'
         /\ Unsettled(k)' => Unsettled(k)
         /\ Touches(k)' => Touches(k)
         /\ Live(k)' <=> Live(k)
<1>1. effects[<<k, i>>] = 0
  BY DEF PageOK
<1>2. \A j \in 1..Steps \ {i} : /\ <<k, j>> \in flying' <=> <<k, j>> \in flying
                                /\ effects'[<<k, j>>] = effects[<<k, j>>]
  BY DEF Acted, Landed, TypeOK
<1>3. <<k, i>> \notin flying'
  BY DEF Acted, Landed
<1>4. Acted(k, i) => effects'[<<k, i>>] = IF i \in Writing THEN 1 ELSE 0
  BY <1>1 DEF Acted, TypeOK
<1>5. Landed(k, i) => effects'[<<k, i>>] = 0
  BY <1>1 DEF Landed
<1>6. (Acted(k, i) => ActedOnce(k, i)') /\ (Landed(k, i) => ~Touched(k, i)')
  BY <1>3, <1>4, <1>5 DEF ActedOnce, Touched
<1>7. \A j \in 1..Steps : (Touched(k, j)' => Touched(k, j)) /\ (ActedOnce(k, j) => ActedOnce(k, j)')
  BY <1>2 DEF Touched, ActedOnce
<1>8. Writing \subseteq 1..Steps
  BY DEF WorkflowAssumption
<1>9. Unsettled(k)' => Unsettled(k)
  BY <1>7, <1>8 DEF Unsettled, Touched
<1>10. Touches(k)' => Touches(k)
  BY <1>7, <1>8 DEF Touches
<1>11. Done(k) => Done(k)'
  BY <1>1, <1>2 DEF Done
<1>12. Live(k)' <=> Live(k)
  BY DEF Live
<1>13. PageOK(k)'
  BY <1>2, <1>3, <1>4, <1>5, <1>12 DEF PageOK
<1>14. QED
  BY <1>2, <1>3, <1>6, <1>7, <1>9, <1>10, <1>11, <1>12, <1>13

(* Reports stay good when nothing new acts.                                *)
LEMMA ReportsStayGood ==
  ASSUME WorkflowAssumption, NEW k \in Key, ReportOK(k), report'[k] = report[k], disk'[k] = disk[k], open' = open,
         \A j \in 1..Steps : Touched(k, j)' => Touched(k, j),
         Unsettled(k)' => Unsettled(k), Touches(k)' => Touches(k), Done(k) => Done(k)'
  PROVE  ReportOK(k)'
<1>1. (\E i \in Writing : Touched(k, i)') => \E i \in Writing : Touched(k, i)
  BY DEF WorkflowAssumption
<1>2. QED
  BY <1>1 DEF ReportOK, GoodReport

(* The intent of a write that is dispatched is in every report.            *)
LEMMA DispatchKeeps ==
  ASSUME WorkflowAssumption, NothingAssumption, TypeOK, NEW k \in Key, RunOK(k), Dispatch(k)
  PROVE  RunOK(k)' /\ pc'[k] = "sent"
<1> DEFINE now == Step(k)
<1>1. /\ pc[k] \in {"intended", "asking"} /\ Live(k) /\ report[k] # NoRun /\ k \in executing
      /\ index[k] < Steps /\ ~Touched(k, now)
      /\ report[k].status \in Driven /\ disk[k] # NoRun /\ disk[k].status \in Driven
      /\ now \in Writing => report[k].mayHaveEffects /\ disk[k].mayHaveEffects
  BY DEF Dispatch, Asking, RunOK, DriverOK, PlaceOK, Before, Doubting
<1>2. now \in 1..Steps /\ now = index[k] + 1 /\ index[k] \in Nat
  BY <1>1, WorkflowAssumption DEF WorkflowAssumption, Step, TypeOK
<1>3. /\ UNCHANGED <<report, disk, historical, index, reply, ending, open, effects, verified, reconciling,
                     executing>>
      /\ flying' = flying \cup {<<k, now>>}
      /\ pc'[k] = "sent"
  BY DEF Dispatch, Goto, Quiet, TypeOK, journalVars, arbiterVars
<1>4. Live(k)' /\ Step(k)' = now
  BY <1>1, <1>3 DEF Live, Step
<1> HIDE DEF now
<1>5. effects[<<k, now>>] = 0
  BY <1>1, <1>2 DEF Touched, TypeOK
<1>6. \A i \in 1..Steps : i # now => /\ Touched(k, i)' <=> Touched(k, i)
                                     /\ ActedOnce(k, i)' <=> ActedOnce(k, i)
  BY <1>3 DEF Touched, ActedOnce
<1>7. PageOK(k)'
  BY <1>1, <1>3, <1>4, <1>5 DEF RunOK, PageOK
<1>8. IndexOK(k)'
  <2>1. ASSUME NEW i \in 1..Steps, i <= index[k] PROVE <<k, i>> \in verified /\ ActedOnce(k, i)'
    <3>1. i # now
      BY <1>2, <2>1
    <3>2. QED
      BY <1>1, <1>6, <2>1, <3>1 DEF RunOK, IndexOK
  <2>2. ASSUME NEW i \in 1..Steps, i > now PROVE ~Touched(k, i)'
    <3>1. i # now
      BY <1>2, <2>2
    <3>2. QED
      BY <1>1, <1>6, <2>2, <3>1 DEF RunOK, IndexOK, now
  <2>3. QED
    BY <1>3, <1>4, <2>1, <2>2 DEF IndexOK
<1>9. DriverOK(k)'
  BY <1>1, <1>3, <1>4 DEF DriverOK, RunOK
<1>10. PlaceOK(k)'
  BY <1>1, <1>3, <1>4 DEF PlaceOK, Before, After, Doubting
<1>11. NotDispatchedOK(k)'
  BY <1>3 DEF NotDispatchedOK
<1>12. ReportOK(k)'
  <2>1. (\E i \in Writing : Touched(k, i)') => report[k].mayHaveEffects /\ disk[k].mayHaveEffects
    <3>1. ASSUME NEW i \in Writing, Touched(k, i)' PROVE report[k].mayHaveEffects /\ disk[k].mayHaveEffects
      <4>1. CASE i = now
        BY <1>1, <4>1
      <4>2. CASE i # now
        <5>1. Touched(k, i)
          BY <1>6, <3>1, <4>2 DEF WorkflowAssumption
        <5>2. QED
          BY <1>1, <5>1 DEF RunOK, ReportOK, GoodReport
      <4>3. QED
        BY <4>1, <4>2
    <3>2. QED
      BY <3>1
  <2>2. QED
    BY <1>1, <1>3, <2>1 DEF ReportOK, GoodReport, Driven, Final
<1>13. QED
  BY <1>3, <1>7, <1>8, <1>9, <1>10, <1>11, <1>12 DEF RunOK

(* A call that was not made, or is not waited for any longer.              *)
LEMMA NoAnswerKeeps ==
  ASSUME WorkflowAssumption, NothingAssumption, TypeOK, NEW k \in Key, RunOK(k), NotSent(k) \/ GiveUp(k)
  PROVE  RunOK(k)' /\ pc'[k] = "replied"
<1>1. /\ UNCHANGED <<report, disk, historical, index, ending, open, flying, effects, verified, reconciling,
                     executing>>
      /\ pc'[k] = "replied"
  BY DEF NotSent, GiveUp, Goto, Quiet, TypeOK, journalVars, arbiterVars, pageVars
<1>2. \/ pc[k] \in {"intended", "asking"} /\ reply'[k] \in {"not_dispatched", "failed"}
      \/ pc[k] = "sent" /\ reply'[k] \in {"outcome_unknown", "failed"}
  BY DEF NotSent, GiveUp, Asking, TypeOK
<1>3. /\ PageOK(k)' /\ IndexOK(k)'
      /\ Live(k)' <=> Live(k)
      /\ \A i : (Touched(k, i)' <=> Touched(k, i)) /\ (ActedOnce(k, i)' <=> ActedOnce(k, i))
      /\ Done(k)' <=> Done(k)
      /\ Unsettled(k)' <=> Unsettled(k)
      /\ Step(k)' = Step(k)
  BY <1>1, PageIsQuiet DEF RunOK
<1>4. DriverOK(k)'
  BY <1>1, <1>2, <1>3 DEF DriverOK, RunOK
<1>5. index[k] < Steps /\ (pc[k] # "sent" => ~Touched(k, Step(k)))
  BY <1>2 DEF RunOK, PlaceOK, Before, Doubting
<1>6. PlaceOK(k)'
  BY <1>1, <1>2, <1>3, <1>5 DEF PlaceOK, Before, After, Doubting
<1>7. NotDispatchedOK(k)'
  BY <1>1 DEF NotDispatchedOK
<1>8. ReportOK(k)'
  <2>1. Touches(k)' => Touches(k)
    BY <1>3 DEF Touches
  <2>2. QED
    BY <1>1, <1>3, <2>1, ReportsStayGood DEF RunOK
<1>9. QED
  BY <1>1, <1>3, <1>4, <1>6, <1>7, <1>8 DEF RunOK

(* The page answers, in time or late, or asks to be asked again.           *)
LEMMA AnswerKeeps ==
  ASSUME WorkflowAssumption, NothingAssumption, TypeOK, NEW k \in Key, RunOK(k), PageAnswers(k) \/ Requery(k)
  PROVE  RunOK(k)' /\ (Unsettled(k)' => pc'[k] \in Doubting)
<1>0. PICK now \in Nat : now = Step(k)
  BY WorkflowAssumption DEF WorkflowAssumption, TypeOK, Step
<1>1. /\ pc[k] = "sent" /\ Live(k) /\ report[k] # NoRun /\ k \in executing
      /\ index[k] < Steps /\ <<k, now>> \in flying
      /\ now \in Writing => report[k].mayHaveEffects /\ disk[k].mayHaveEffects
  BY <1>0 DEF PageAnswers, Requery, RunOK, DriverOK, PlaceOK, Before, Doubting
<1>2. now \in 1..Steps /\ now = index[k] + 1 /\ index[k] \in Nat
  BY <1>0, <1>1, WorkflowAssumption DEF WorkflowAssumption, Step, TypeOK
<1>3. UNCHANGED <<report, disk, historical, index, ending, open, verified, reconciling, executing>>
  BY DEF PageAnswers, Requery, Quiet, journalVars, arbiterVars
<1>4. \/ /\ pc'[k] = "replied"
         /\ \/ reply'[k] \in {"completed", "unretained", "failed"} /\ Acted(k, now)
            \/ reply'[k] \in {"failed", "not_dispatched"} /\ Landed(k, now)
      \/ pc'[k] = "asking" /\ Landed(k, now)
  BY <1>0 DEF PageAnswers, Requery, Goto, TypeOK
<1>5. Step(k)' = now
  BY <1>0, <1>3 DEF Step
<1>6. /\ PageOK(k)'
      /\ \A j \in 1..Steps \ {now} : /\ <<k, j>> \in flying' <=> <<k, j>> \in flying
                                     /\ effects'[<<k, j>>] = effects[<<k, j>>]
      /\ Acted(k, now) => ActedOnce(k, now)'
      /\ Landed(k, now) => ~Touched(k, now)'
      /\ \A j \in 1..Steps : (Touched(k, j)' => Touched(k, j)) /\ (ActedOnce(k, j) => ActedOnce(k, j)')
      /\ Done(k) => Done(k)'
      /\ Unsettled(k)' => Unsettled(k)
      /\ Touches(k)' => Touches(k)
      /\ Live(k)' <=> Live(k)
  BY <1>1, <1>2, <1>3, <1>4, ScriptEnds DEF RunOK
<1>7. IndexOK(k)'
  BY <1>0, <1>3, <1>5, <1>6 DEF RunOK, IndexOK
<1>8. DriverOK(k)'
  BY <1>1, <1>3, <1>4, <1>6 DEF DriverOK, RunOK
<1>9. PlaceOK(k)'
  BY <1>1, <1>3, <1>4, <1>5, <1>6 DEF PlaceOK, Before, After, Doubting
<1>10. NotDispatchedOK(k)'
  BY <1>1, <1>3, <1>4, <1>5, <1>6 DEF NotDispatchedOK
<1>11. ReportOK(k)'
  BY <1>3, <1>6, ReportsStayGood DEF RunOK
<1>12. ASSUME pc'[k] = "asking" PROVE ~Unsettled(k)'
  <2>1. ~Touched(k, now)'
    BY <1>4, <1>6, <1>12
  <2>2. ASSUME NEW i \in Writing, Touched(k, i), <<k, i>> \notin verified PROVE i = now
    <3>1. i \in 1..Steps
      BY WorkflowAssumption DEF WorkflowAssumption
    <3>2. ~(i <= index[k]) /\ ~(i > now)
      BY <1>0, <1>1, <2>2, <3>1 DEF RunOK, IndexOK
    <3>3. QED
      BY <1>2, <3>1, <3>2
  <2>3. QED
    BY <1>3, <1>6, <2>1, <2>2 DEF Unsettled, Touched, WorkflowAssumption
<1>13. QED
  BY <1>4, <1>6, <1>7, <1>8, <1>9, <1>10, <1>11, <1>12 DEF RunOK, Doubting, After


(* A script that the driver gave up runs, or is lost.                      *)
LEMMA LateKeeps ==
  ASSUME WorkflowAssumption, NothingAssumption, TypeOK, NEW k \in Key, RunOK(k), NEW i \in 1..Steps, PageRunsLate(k, i)
  PROVE  RunOK(k)' /\ (Unsettled(k)' => Unsettled(k))
<1>1. /\ <<k, i>> \in flying /\ (Acted(k, i) \/ Landed(k, i)) /\ ~(pc[k] = "sent" /\ i = Step(k))
      /\ UNCHANGED <<report, disk, historical, index, pc, reply, ending, open, verified, reconciling,
                     executing>>
  BY DEF PageRunsLate, runVars, driverVars, journalVars, arbiterVars
<1>2. /\ PageOK(k)'
      /\ \A j \in 1..Steps \ {i} : /\ <<k, j>> \in flying' <=> <<k, j>> \in flying
                                   /\ effects'[<<k, j>>] = effects[<<k, j>>]
      /\ \A j \in 1..Steps : (Touched(k, j)' => Touched(k, j)) /\ (ActedOnce(k, j) => ActedOnce(k, j)')
      /\ Done(k) => Done(k)'
      /\ Unsettled(k)' => Unsettled(k)
      /\ Touches(k)' => Touches(k)
      /\ Live(k)' <=> Live(k)
  BY <1>1, ScriptEnds DEF RunOK
<1>3. Step(k)' = Step(k)
  BY <1>1 DEF Step
<1>4. index[k] < Steps => Step(k) \in 1..Steps
  BY WorkflowAssumption DEF WorkflowAssumption, TypeOK, Step
<1>5. PICK now : now = Step(k)
  OBVIOUS
<1>6. IndexOK(k)'
  BY <1>1, <1>2, <1>3 DEF RunOK, IndexOK
<1>7. DriverOK(k)'
  BY <1>1, <1>2 DEF DriverOK, RunOK
<1>8. index[k] < Steps => /\ Touched(k, now)' => Touched(k, now)
                          /\ ActedOnce(k, now) => ActedOnce(k, now)'
  BY <1>2, <1>4, <1>5
<1>9. PlaceOK(k)'
  <2>1. pc[k] = "sent" => <<k, now>> \in flying'
    BY <1>1, <1>2, <1>4, <1>5 DEF RunOK, PlaceOK, Doubting
  <2>2. PlaceOK(k)
    BY DEF RunOK
  <2>3. Step(k)' = now
    BY <1>3, <1>5
  <2>4. QED
    BY <1>1, <1>2, <1>5, <1>8, <2>1, <2>2, <2>3 DEF PlaceOK, Before, After, Doubting
<1>10. NotDispatchedOK(k)'
  BY <1>1, <1>2, <1>3, <1>5, <1>8 DEF RunOK, NotDispatchedOK
<1>11. ReportOK(k)'
  BY <1>1, <1>2, ReportsStayGood DEF RunOK
<1>12. QED
  BY <1>2, <1>6, <1>7, <1>9, <1>10, <1>11 DEF RunOK

(* A step that failed, or that nobody can vouch for, stops the run; what   *)
(* may have acted is isolated first (quarantine in drive).                 *)
LEMMA FailedKeeps ==
  ASSUME WorkflowAssumption, NothingAssumption, TypeOK, NEW k \in Key, RunOK(k), Unrecorded(k) \/ NotVerified(k)
  PROVE  RunOK(k)' /\ (Unsettled(k)' => IsolateRun(k) /\ report'[k].quarantined)
<1>1. /\ pc[k] \in {"unrecorded", "verify"} /\ Live(k) /\ report[k] # NoRun /\ k \in executing
      /\ report[k] \in Report /\ index[k] < Steps
      /\ reply[k] = "not_dispatched" => ~Touched(k, Step(k))
  BY DEF Unrecorded, NotVerified, RunOK, DriverOK, PlaceOK, After, Doubting, TypeOK
<1>2. \/ OutcomeOf(k).effect # "none" /\ IsolateRun(k)
      \/ OutcomeOf(k).effect = "none" /\ UNCHANGED <<report, arbiterVars>>
  BY DEF Unrecorded, NotVerified, Uncertain
<1>3. /\ UNCHANGED <<disk, historical, index, reply, flying, effects, verified, reconciling, executing>>
      /\ pc'[k] = "stop" /\ ending'[k].outcome = OutcomeOf(k) /\ ending'[k].status # "completed"
  BY DEF Unrecorded, NotVerified, StopWith, Goto, IfCancelled, Quiet, TypeOK, journalVars, pageVars
<1>4. open' = open
  BY <1>2 DEF IsolateRun, Arbiter!Isolate, arbiterVars
<1>5. PICK new \in Report :
        /\ report'[k] = new /\ new.status = report[k].status /\ new.outcome = report[k].outcome
        /\ new.mayHaveEffects = report[k].mayHaveEffects
        /\ report[k].quarantined => new.quarantined
        /\ IsolateRun(k) /\ OutcomeOf(k).effect # "none" => new.quarantined
  <2>1. CASE OutcomeOf(k).effect # "none" /\ IsolateRun(k)
    <3>1. report'[k] = [report[k] EXCEPT !.quarantined = TRUE]
      BY <1>1, <2>1 DEF IsolateRun, TypeOK
    <3>2. QED
      BY <1>1, <3>1 DEF Report
  <2>2. CASE OutcomeOf(k).effect = "none" /\ UNCHANGED <<report, arbiterVars>>
    BY <1>1, <2>2
  <2>3. QED
    BY <1>2, <2>1, <2>2
<1>6. GoodReport(k, new)
  <2>1. GoodReport(k, report[k])
    BY <1>1 DEF RunOK, ReportOK
  <2>2. new # NoRun
    BY NothingAssumption DEF NothingAssumption
  <2>3. QED
    BY <1>5, <2>1, <2>2 DEF GoodReport
<1>7. new # NoRun
  BY <1>6 DEF GoodReport
<1>8. /\ PageOK(k)' /\ IndexOK(k)'
      /\ Live(k)' <=> Live(k)
      /\ \A i : (Touched(k, i)' <=> Touched(k, i)) /\ (ActedOnce(k, i)' <=> ActedOnce(k, i))
      /\ Done(k)' <=> Done(k)
      /\ Unsettled(k)' <=> Unsettled(k)
      /\ Step(k)' = Step(k)
  BY <1>3, <1>4, <1>5, <1>7, PageIsQuiet DEF RunOK
<1>9. DriverOK(k)'
  BY <1>1, <1>3, <1>4, <1>5, <1>7, <1>8 DEF DriverOK, RunOK
<1>10. OutcomeOf(k) = NotDispatched => reply[k] = "not_dispatched"
  BY DEF OutcomeOf, NotDispatched
<1>11. PlaceOK(k)'
  BY <1>1, <1>3, <1>8, <1>10 DEF PlaceOK, Before, After, Doubting
<1>12. NotDispatchedOK(k)'
  <2>1. report[k].outcome = NotDispatched => ~Touched(k, Step(k))
    BY <1>1 DEF RunOK, NotDispatchedOK
  <2>2. QED
    BY <1>1, <1>3, <1>5, <1>8, <2>1 DEF NotDispatchedOK
<1>13. ReportOK(k)'
  BY <1>3, <1>4, <1>5, <1>6, Written DEF RunOK
<1>14. ASSUME Unsettled(k)' PROVE IsolateRun(k) /\ report'[k].quarantined
  <2>1. Step(k) \in Writing /\ Touched(k, Step(k))
    BY <1>1, <1>8, <1>14, DoubtIsAtStep
  <2>2. OutcomeOf(k).effect # "none"
    BY <1>1, <2>1 DEF OutcomeOf
  <2>3. QED
    BY <1>2, <1>5, <2>2
<1>15. QED
  BY <1>8, <1>9, <1>11, <1>12, <1>13, <1>14 DEF RunOK

(* A lease that ends concerns its run only through the claim.              *)
LEMMA LeaveKeeps ==
  ASSUME WorkflowAssumption, TypeOK, NEW k \in Key, Leave(k), NEW q \in Key, RunOK(q)
  PROVE  RunOK(q)' /\ (Unsettled(q)' <=> Unsettled(q)) /\ UNCHANGED <<report, pc>>
<1>1. Same(q) /\ UNCHANGED <<report, pc>>
  BY DEF Same, Leave, Arbiter!Give, runVars, journalVars, pageVars
<1>2. QED
  BY <1>1, SameIsOK

(* In all: what a run's step does to it, and to what is in doubt.          *)
LEMMA RunKeeps ==
  ASSUME WorkflowAssumption, NothingAssumption, TypeOK, NEW k \in Key, RunOK(k), DoubtOK(k), RunStep(k)
  PROVE  /\ RunOK(k)'
         /\ open /\ Unsettled(k)' =>
              \/ pc'[k] \in Doubting
              \/ Unsettled(k) /\ pc[k] \notin Doubting /\ report'[k].quarantined
              \/ IsolateRun(k) /\ report'[k].quarantined
<1> DEFINE Kept == open /\ Unsettled(k)' =>
              \/ pc'[k] \in Doubting
              \/ Unsettled(k) /\ pc[k] \notin Doubting /\ report'[k].quarantined
              \/ IsolateRun(k) /\ report'[k].quarantined
<1>1. open /\ Unsettled(k) /\ pc[k] \notin Doubting => report[k].quarantined
  BY DEF DoubtOK
<1>2. ASSUME Unsettled(k)' => Unsettled(k) /\ pc'[k] = pc[k]
                                /\ report'[k].quarantined = report[k].quarantined
      PROVE  Kept
  BY <1>1, <1>2
<1>3. CASE Moves(k)
  <2>1. RunOK(k)' /\ (Unsettled(k)' <=> Unsettled(k))
    BY <1>3, MovesKeeps
  <2>2. pc[k] \in Before \cup {"goal"}
    BY <1>3 DEF Moves, TakeSlot, LoseSlot, TakeLease, FindBusy, Recheck, AllDone, CannotPrepare,
                StopPrepared, StopIntended, Goal, Before
  <2>3. QED
    BY <2>1, <2>2, BeforeIsSettled
<1>4. CASE Leave(k)
  BY <1>2, <1>4, LeaveKeeps
<1>5. CASE Ask(k)
  BY <1>2, <1>5, AskKeeps
<1>6. ASSUME NEW ok \in BOOLEAN,
             \/ Start(k, ok) \/ Prepare(k, ok) \/ Intend(k, ok) \/ Replied(k, ok)
             \/ Verified(k, ok) \/ Stop(k, ok)
      PROVE  RunOK(k)' /\ Kept
  <2>1. CASE Start(k, ok) \/ Prepare(k, ok) \/ Intend(k, ok) \/ Verified(k, ok)
    <3>1. RunOK(k)' /\ ~Unsettled(k)'
      BY <2>1, StartKeeps, PrepareKeeps, IntendKeeps, VerifiedKeeps
    <3>2. QED
      BY <3>1
  <2>2. CASE Replied(k, ok)
    BY <2>2, RepliedKeeps
  <2>3. CASE Stop(k, ok)
    <3>1. RunOK(k)' /\ (Unsettled(k)' => Unsettled(k) /\ pc[k] = "stop" /\ report'[k].quarantined)
      BY <2>3, StopKeeps
    <3>2. QED
      BY <3>1 DEF Doubting, After
  <2>4. QED
    BY <1>6, <2>1, <2>2, <2>3
<1>7. CASE Dispatch(k)
  BY <1>7, DispatchKeeps DEF Doubting
<1>8. CASE NotSent(k) \/ GiveUp(k)
  BY <1>8, NoAnswerKeeps DEF Doubting, After
<1>9. CASE PageAnswers(k) \/ Requery(k)
  BY <1>9, AnswerKeeps
<1>10. ASSUME NEW i \in 1..Steps, PageRunsLate(k, i) PROVE RunOK(k)' /\ Kept
  <2>1. UNCHANGED <<report, pc>>
    BY <1>10 DEF PageRunsLate, runVars, driverVars
  <2>2. QED
    BY <1>2, <1>10, <2>1, LateKeeps
<1>11. CASE Unrecorded(k) \/ NotVerified(k)
  BY <1>11, FailedKeeps
<1>12. QED
  BY <1>3, <1>4, <1>5, <1>6, <1>7, <1>8, <1>9, <1>10, <1>11, RunStepIs

-----------------------------------------------------------------------------
(* The claims                                                              *)

(* How a run's step uses the arbiter: not at all, or by one of its calls.  *)
LEMMA ClaimStep ==
  ASSUME WorkflowAssumption, NothingAssumption, TypeOK, TypeOK', NEW k \in Key, RunOK(k), ClaimsOK, RunStep(k)
  PROVE  /\ lifted' = lifted
         /\ \/ /\ UNCHANGED <<claims, open>>
               /\ pc'[k] \in Leased => pc[k] \in Leased
               /\ k \in leaving' => k \in leaving \/ (Holds(k) /\ pc'[k] \notin Leased)
            \/ /\ Arbiter!Take(k, Everything) /\ (k \in leaving' => k \in leaving)
            \/ /\ Arbiter!Give(k) /\ k \in leaving /\ leaving' = leaving \ {k} /\ pc' = pc
            \/ /\ IsolateRun(k) /\ pc[k] \in Leased /\ pc'[k] = "stop" /\ leaving' = leaving
<1> DEFINE Quietly == /\ UNCHANGED <<claims, open>>
                      /\ pc'[k] \in Leased => pc[k] \in Leased
                      /\ k \in leaving' => k \in leaving \/ (Holds(k) /\ pc'[k] \notin Leased)
<1> USE DEF Leased, Doubting, After
<1>1. CASE Moves(k)
  <2>1. MovesTo(k) /\ UNCHANGED <<leaving, open, lifted>>
    BY <1>1, MovesIs
  <2>2. CASE Arbiter!Take(k, Everything)
    BY <2>1, <2>2
  <2>3. CASE UNCHANGED claims /\ ~Arbiter!Take(k, Everything)
    <3>1. ~TakeLease(k)
      BY <2>3 DEF TakeLease
    <3>2. pc'[k] \in Leased => pc[k] \in Leased
      BY <2>1, <3>1 DEF MovesTo
    <3>3. QED
      BY <2>1, <2>3, <3>2
  <2>4. QED
    BY <1>1, <2>2, <2>3, MovesIs
<1>2. CASE Leave(k)
  BY <1>2 DEF Leave
<1>3. CASE Ask(k)
  <2>1. pc'[k] \in {"none", "slot", pc[k]}
    BY <1>3 DEF Ask, Submit, Cancel, Continue, Reconcile, Reconciled, driverVars, TypeOK
  <2>2. UNCHANGED <<claims, open, leaving, lifted>>
    BY <1>3 DEF Ask, Submit, Cancel, Continue, Reconcile, Reconciled, driverVars, arbiterVars
  <2>3. QED
    BY <2>1, <2>2
<1>4. ASSUME NEW ok \in BOOLEAN, Start(k, ok) \/ Verified(k, ok) PROVE lifted' = lifted /\ Quietly
  <2>1. pc[k] \in Leased
    BY <1>4 DEF Start, Verified
  <2>2. Holds(k)
    BY <2>1 DEF ClaimsOK
  <2>3. UNCHANGED <<claims, open, lifted>>
    BY <1>4 DEF Start, Verified, arbiterVars
  <2>4. leaving' = leaving \/ pc'[k] = "none"
    BY <1>4 DEF Start, Verified, Abort, Goto, TypeOK
  <2>5. QED
    BY <2>1, <2>2, <2>3, <2>4
<1>5. ASSUME NEW ok \in BOOLEAN, Prepare(k, ok) \/ Intend(k, ok) \/ Replied(k, ok)
      PROVE  lifted' = lifted /\ Quietly
  <2>1. pc[k] \in Leased
    BY <1>5 DEF Prepare, Intend, Replied
  <2>2. UNCHANGED <<claims, open, lifted, leaving>>
    BY <1>5 DEF Prepare, Intend, Replied, Quiet, arbiterVars
  <2>3. QED
    BY <2>1, <2>2
<1>6. ASSUME NEW ok \in BOOLEAN, Stop(k, ok) PROVE lifted' = lifted /\ Quietly
  <2>1. pc'[k] = "none" /\ UNCHANGED <<claims, open, lifted>>
    BY <1>6 DEF Stop, Goto, TypeOK, arbiterVars
  <2>2. k \in leaving' => Holds(k)
    BY <1>6 DEF Stop
  <2>3. QED
    BY <2>1, <2>2
<1>7. CASE Dispatch(k) \/ NotSent(k) \/ GiveUp(k) \/ PageAnswers(k) \/ Requery(k)
  <2>1. pc[k] \in Leased
    BY <1>7 DEF Dispatch, NotSent, GiveUp, PageAnswers, Requery, Asking
  <2>2. UNCHANGED <<claims, open, lifted, leaving>>
    BY <1>7 DEF Dispatch, NotSent, GiveUp, PageAnswers, Requery, Quiet, arbiterVars
  <2>3. QED
    BY <2>1, <2>2
<1>8. ASSUME NEW i \in 1..Steps, PageRunsLate(k, i) PROVE lifted' = lifted /\ Quietly
  BY <1>8 DEF PageRunsLate, driverVars, arbiterVars
<1>9. CASE Unrecorded(k) \/ NotVerified(k)
  <2>1. pc[k] \in Leased
    BY <1>9 DEF Unrecorded, NotVerified
  <2>2. pc'[k] = "stop" /\ UNCHANGED <<leaving, lifted>>
    BY <1>9 DEF Unrecorded, NotVerified, StopWith, Goto, Quiet, TypeOK
  <2>3. IsolateRun(k) \/ UNCHANGED <<claims, open>>
    BY <1>9 DEF Unrecorded, NotVerified, arbiterVars
  <2>4. QED
    BY <2>1, <2>2, <2>3
<1>10. QED
  BY <1>1, <1>2, <1>3, <1>4, <1>5, <1>6, <1>7, <1>8, <1>9, RunStepIs

(* The whole application is one resource, so that a claim is granted only  *)
(* when there is no other.                                                 *)
LEMMA TakenAlone ==
  ASSUME ClaimsOK, NEW o, Arbiter!Take(o, Everything)
  PROVE  /\ open /\ open' = open /\ DOMAIN claims = {} /\ DOMAIN claims' = {o}
         /\ claims'[o] = [resources |-> Everything, isolated |-> FALSE]
<1>1. Meet(Everything, Everything) /\ Everything # {}
  BY DEF Meet, Everything
<1>2. DOMAIN claims = {}
  BY <1>1 DEF ClaimsOK, Arbiter!Take
<1>3. QED
  BY <1>1, <1>2 DEF Arbiter!Take, Arbiter!Add

LEMMA IsolatedIs ==
  ASSUME NEW o, Arbiter!Isolate(o)
  PROVE  /\ o \in DOMAIN claims /\ DOMAIN claims' = DOMAIN claims /\ open' = open
         /\ claims'[o].isolated /\ claims'[o].resources = claims[o].resources
         /\ \A p \in DOMAIN claims \ {o} : claims'[p] = claims[p]
BY DEF Arbiter!Isolate, Arbiter!Add

LEMMA RemovedIs ==
  ASSUME NEW o, Arbiter!Give(o) \/ Arbiter!Lift({o})
  PROVE  /\ o \in DOMAIN claims /\ DOMAIN claims' = DOMAIN claims \ {o} /\ open' = open
         /\ \A p \in DOMAIN claims \ {o} : claims'[p] = claims[p]
         /\ Arbiter!Give(o) => ~claims[o].isolated
         /\ Arbiter!Lift({o}) => claims[o].isolated
BY DEF Arbiter!Give, Arbiter!Lift, Arbiter!Restrict

(* Claims stay in order, and what is reserved stays so until it is lifted. *)
LEMMA RunKeepsClaims ==
  ASSUME WorkflowAssumption, NothingAssumption, TypeOK, TypeOK', NEW k \in Key, RunOK(k), ClaimsOK, RunStep(k)
  PROVE  /\ ClaimsOK' /\ open' = open
         /\ \A q \in Key : Spoken(q) => Spoken(q)'
<1>1. \A q \in Key \ {k} : pc'[q] = pc[q] /\ (q \in leaving' <=> q \in leaving)
  BY Frame DEF Same
<1>2. lifted' = lifted
  BY ClaimStep
<1>3. leaving' \subseteq Key
  BY DEF TypeOK
<1>4. CASE /\ UNCHANGED <<claims, open>>
           /\ pc'[k] \in Leased => pc[k] \in Leased
           /\ k \in leaving' => k \in leaving \/ (Holds(k) /\ pc'[k] \notin Leased)
  BY <1>1, <1>2, <1>3, <1>4 DEF ClaimsOK, Spoken, Holds
<1>5. CASE Arbiter!Take(k, Everything) /\ (k \in leaving' => k \in leaving)
  <2>1. /\ open /\ open' = open /\ DOMAIN claims = {} /\ DOMAIN claims' = {k}
        /\ claims'[k] = [resources |-> Everything, isolated |-> FALSE]
    BY <1>5, TakenAlone
  <2>2. \A q \in Key : ~Holds(q)
    BY <2>1 DEF Holds
  <2>3. \A q \in Key \ {k} : pc'[q] \notin Leased /\ q \notin leaving'
    BY <1>1, <2>2 DEF ClaimsOK
  <2>4. k \notin leaving'
    BY <1>5, <2>2 DEF ClaimsOK
  <2>5. ClaimsOK'
    BY <1>3, <2>1, <2>3, <2>4 DEF ClaimsOK, Holds
  <2>6. QED
    BY <1>2, <2>1, <2>5 DEF Spoken
<1>6. CASE Arbiter!Give(k) /\ k \in leaving /\ leaving' = leaving \ {k} /\ pc' = pc
  <2>1. /\ k \in DOMAIN claims /\ DOMAIN claims' = DOMAIN claims \ {k} /\ open' = open
        /\ \A p \in DOMAIN claims \ {k} : claims'[p] = claims[p]
        /\ ~claims[k].isolated
    BY <1>6, RemovedIs
  <2>2. QED
    BY <1>2, <1>3, <1>6, <2>1 DEF ClaimsOK, Holds, Spoken
<1>7. CASE IsolateRun(k) /\ pc[k] \in Leased /\ pc'[k] = "stop" /\ leaving' = leaving
  <2>1. /\ k \in DOMAIN claims /\ DOMAIN claims' = DOMAIN claims /\ open' = open
        /\ claims'[k].isolated /\ claims'[k].resources = claims[k].resources
        /\ \A p \in DOMAIN claims \ {k} : claims'[p] = claims[p]
    BY <1>7, IsolatedIs DEF IsolateRun
  <2>2. k \notin leaving'
    BY <1>7 DEF ClaimsOK
  <2>3. pc'[k] \notin Leased
    BY <1>7 DEF Leased, Doubting, After
  <2>4. ClaimsOK'
    BY <1>1, <1>3, <2>1, <2>2, <2>3 DEF ClaimsOK, Holds
  <2>5. QED
    BY <1>2, <2>1, <2>4 DEF Spoken
<1>8. QED
  BY <1>4, <1>5, <1>6, <1>7, ClaimStep

-----------------------------------------------------------------------------
(* The rest of the application, and its end                                *)

(* Others take and leave leases, and quarantines are lifted.               *)
LEMMA OthersKeep ==
  ASSUME WorkflowAssumption, TypeOK, WorkflowIInv,
         OtherTakes \/ OtherEnds \/ \E o \in Key \cup {Other} : Lift(o)
  PROVE  (\A k \in Key : RunOK(k)') /\ (\A k \in Key : DoubtOK(k)') /\ ClaimsOK'
<1>1. UNCHANGED <<runVars, driverVars, reconciling, journalVars, pageVars, verified>>
  BY DEF OtherTakes, OtherEnds, Lift
<1>2. UNCHANGED <<report, disk, pc, reply, ending, index, executing, historical, reconciling, leaving,
                  flying, effects, verified>>
  BY <1>1 DEF runVars, driverVars, journalVars, pageVars
<1>3. /\ open' = open /\ ClaimsOK'
      /\ \A k \in Key : Spoken(k) => Spoken(k)'
  <2>1. ClaimsOK /\ leaving \subseteq Key /\ Other \notin Key
    BY DEF WorkflowIInv, TypeOK, WorkflowAssumption
  <2>2. CASE Arbiter!Take(Other, Everything)
    <3>1. /\ open /\ open' = open /\ DOMAIN claims = {} /\ DOMAIN claims' = {Other}
          /\ claims'[Other] = [resources |-> Everything, isolated |-> FALSE]
      BY <2>1, <2>2, TakenAlone
    <3>2. \A k \in Key : pc[k] \notin Leased /\ k \notin leaving
      BY <2>1, <3>1 DEF ClaimsOK, Holds
    <3>3. lifted' = lifted
      BY <2>1, <2>2, <3>1 DEF OtherTakes, OtherEnds, Lift, Holds
    <3>4. QED
      BY <1>2, <2>1, <3>1, <3>2, <3>3 DEF ClaimsOK, Holds, Spoken
  <2>3. CASE Arbiter!Give(Other) /\ UNCHANGED lifted
    <3>1. /\ DOMAIN claims' = DOMAIN claims \ {Other} /\ open' = open
          /\ \A p \in DOMAIN claims \ {Other} : claims'[p] = claims[p]
      BY <2>3, RemovedIs
    <3>2. QED
      BY <1>2, <2>1, <2>3, <3>1 DEF ClaimsOK, Holds, Spoken
  <2>4. CASE Arbiter!Isolate(Other) /\ UNCHANGED lifted
    <3>1. /\ Other \in DOMAIN claims /\ DOMAIN claims' = DOMAIN claims /\ open' = open
          /\ claims'[Other].isolated /\ claims'[Other].resources = claims[Other].resources
          /\ \A p \in DOMAIN claims \ {Other} : claims'[p] = claims[p]
      BY <2>4, IsolatedIs
    <3>2. QED
      BY <1>2, <2>1, <2>4, <3>1 DEF ClaimsOK, Holds, Spoken
  <2>5. ASSUME NEW o \in Key \cup {Other}, Arbiter!Lift({o}), lifted' = lifted \cup {o}
        PROVE  /\ open' = open /\ ClaimsOK'
               /\ \A k \in Key : Spoken(k) => Spoken(k)'
    <3>1. /\ o \in DOMAIN claims /\ DOMAIN claims' = DOMAIN claims \ {o} /\ open' = open
          /\ \A p \in DOMAIN claims \ {o} : claims'[p] = claims[p]
          /\ claims[o].isolated
      BY <2>5, RemovedIs
    <3>2. QED
      BY <1>2, <2>1, <2>5, <3>1 DEF ClaimsOK, Holds, Spoken
  <2>6. QED
    BY <2>2, <2>3, <2>4, <2>5 DEF OtherTakes, OtherEnds, Lift
<1>4. \A k \in Key : Same(k)
  BY <1>2, <1>3 DEF Same
<1>5. \A k \in Key : RunOK(k)' /\ (Unsettled(k)' <=> Unsettled(k))
  BY <1>4, SameIsOK DEF WorkflowIInv
<1>6. \A k \in Key : DoubtOK(k)'
  BY <1>2, <1>3, <1>5 DEF DoubtOK, WorkflowIInv
<1>7. QED
  BY <1>3, <1>5, <1>6

(* The application ends at any moment: what is durable is enough.          *)
LEMMA CrashKeeps ==
  ASSUME WorkflowAssumption, TypeOK, WorkflowIInv, Crash
  PROVE  (\A k \in Key : RunOK(k)') /\ (\A k \in Key : DoubtOK(k)') /\ ClaimsOK'
<1>1. /\ report' = [k \in Key |-> NoRun] /\ index' = [k \in Key |-> 0] /\ pc' = [k \in Key |-> "none"]
      /\ executing' = {} /\ historical' = {} /\ leaving' = {} /\ reconciling' = {}
      /\ open' = FALSE /\ flying' = {} /\ UNCHANGED <<disk, effects, verified>>
  BY DEF Crash, AtRest
<1>2. DOMAIN claims' = {}
  BY DEF Crash
<1>3. ASSUME NEW k \in Key PROVE RunOK(k)'
  <2>1. RunOK(k)
    BY DEF WorkflowIInv
  <2>2. \A i : Touched(k, i)' => Touched(k, i)
    BY <1>1 DEF Touched
  <2>3. Unsettled(k)' => Unsettled(k)
    BY <1>1 DEF Unsettled
  <2>4. Done(k)' <=> Done(k)
    BY <1>1 DEF Done
  <2>5. PageOK(k)'
    BY <1>1, <2>1 DEF RunOK, PageOK
  <2>6. DriverOK(k)'
    BY <1>1 DEF DriverOK
  <2>7. IndexOK(k)' /\ NotDispatchedOK(k)' /\ PlaceOK(k)'
    BY <1>1 DEF IndexOK, NotDispatchedOK, Live, PlaceOK, Before, After, Doubting
  <2>8. ReportOK(k)'
    <3>1. Touches(k)' => Touches(k)
      BY <2>2 DEF Touches
    <3>2. disk[k] # NoRun => GoodReport(k, disk[k])
      BY <2>1 DEF RunOK, ReportOK
    <3>3. disk'[k] # NoRun => GoodReport(k, disk[k])'
      BY <1>1, <2>2, <2>3, <2>4, <3>2 DEF GoodReport
    <3>4. Touches(k) => disk[k] # NoRun
      BY <2>1 DEF RunOK, ReportOK
    <3>5. QED
      BY <1>1, <3>1, <3>3, <3>4 DEF ReportOK
  <2>9. QED
    BY <2>5, <2>6, <2>7, <2>8 DEF RunOK
<1>4. \A k \in Key : DoubtOK(k)'
  BY <1>1 DEF DoubtOK
<1>5. ClaimsOK'
  BY <1>1, <1>2 DEF ClaimsOK, Leased, Doubting, After
<1>6. QED
  BY <1>3, <1>4, <1>5

(* What is durable is found, and what is in doubt is isolated (recover).   *)
LEMMA RecoverKeeps ==
  ASSUME WorkflowAssumption, NothingAssumption, TypeOK, TypeOK', WorkflowIInv, Recover
  PROVE  (\A k \in Key : RunOK(k)') /\ (\A k \in Key : DoubtOK(k)') /\ ClaimsOK'
<1> DEFINE found == {k \in Key : disk[k] # NoRun}
<1>1. /\ ~open /\ open' /\ historical' = found
      /\ \A k \in Key : report'[k] = IF k \in found THEN Recovered(k) ELSE NoRun
      /\ DOMAIN claims' = {k \in found : Quarantined(k)}
      /\ \A k \in DOMAIN claims' : claims'[k] = [resources |-> Everything, isolated |-> TRUE]
  BY DEF Recover
<1>2. UNCHANGED <<executing, index, pc, reply, ending, leaving, reconciling, disk, flying, effects, verified>>
  BY DEF Recover, driverVars, journalVars, pageVars
<1>3. ASSUME NEW k \in Key PROVE RunOK(k)' /\ DoubtOK(k)'
  <2>1. RunOK(k)
    BY DEF WorkflowIInv
  <2>2. /\ report[k] = NoRun /\ index[k] = 0 /\ pc[k] = "none" /\ k \notin executing /\ k \notin reconciling
        /\ k \notin historical
    BY <1>1, <2>1 DEF RunOK, DriverOK, Live
  <2>3. \A i \in 1..Steps : <<k, i>> \notin flying
    BY <2>1, <2>2 DEF RunOK, PageOK
  <2>4. \A i : Touched(k, i)' <=> Touched(k, i)
    BY <1>2 DEF Touched
  <2>5. /\ Unsettled(k)' <=> Unsettled(k)
        /\ Done(k)' <=> Done(k)
    BY <1>2 DEF Unsettled, Done
  <2>6. Touches(k)' <=> Touches(k)
    BY <2>4 DEF Touches
  <2>7. Touches(k) => k \in found
    BY <2>1 DEF RunOK, ReportOK
  <2>8. \A i \in 1..Steps : Touched(k, i) => i \in Writing
    BY <2>1, <2>3 DEF RunOK, PageOK, Touched
  <2>9. PageOK(k)'
    BY <1>2, <2>1, <2>3 DEF RunOK, PageOK
  <2>10. IndexOK(k)'
    <3>1. ASSUME Live(k)' PROVE \A i \in 1..Steps : ~Touched(k, i)'
      BY <1>1, <2>4, <2>7, <2>8, <3>1 DEF Live, Touches
    <3>2. \A i \in 1..Steps : ~(i <= index'[k])
      BY <1>2, <2>2
    <3>3. QED
      BY <3>1, <3>2 DEF IndexOK
  <2>11. k \in found =>
           /\ report'[k] # NoRun
           /\ report'[k].status = IF Interrupted(k) THEN "interrupted" ELSE disk[k].status
           /\ report'[k].mayHaveEffects = disk[k].mayHaveEffects
           /\ report'[k].quarantined = Quarantined(k)
    BY <1>1, RecoveredIs, NothingAssumption DEF NothingAssumption
  <2>12. DriverOK(k)'
    BY <1>1, <1>2, <2>2, <2>11 DEF DriverOK
  <2>13. PlaceOK(k)'
    BY <1>2, <2>2 DEF PlaceOK, Before, After, Doubting
  <2>14. NotDispatchedOK(k)'
    BY <1>1 DEF NotDispatchedOK, Live
  <2>15. k \in found => GoodReport(k, disk[k])
    BY <2>1 DEF RunOK, ReportOK
  <2>16. k \in found /\ Unsettled(k) => Quarantined(k)
    <3>1. Unsettled(k) => Touches(k)
      BY DEF Unsettled, Touches, Touched
    <3>2. QED
      BY <2>15, <3>1 DEF GoodReport, Touches, Quarantined, Interrupted, Final
  <2>17. ReportOK(k)'
    <3>1. disk'[k] # NoRun => GoodReport(k, disk[k])'
      BY <1>2, <2>4, <2>5, <2>15 DEF GoodReport
    <3>2. report'[k] # NoRun => GoodReport(k, report[k])'
      <4>1. ASSUME report'[k] # NoRun PROVE GoodReport(k, report[k])'
        <5>1. k \in found
          BY <1>1, <4>1
        <5>2. (\E i \in Writing : Touched(k, i)') => report'[k].mayHaveEffects
          BY <2>4, <2>11, <2>15, <5>1 DEF GoodReport
        <5>3. Unsettled(k)' => report'[k].quarantined
          BY <2>5, <2>11, <2>16, <5>1
        <5>4. report'[k].status = "completed" => Done(k)'
          BY <2>5, <2>11, <2>15, <5>1 DEF GoodReport
        <5>5. QED
          BY <4>1, <5>2, <5>3, <5>4 DEF GoodReport
      <4>2. QED
        BY <4>1
    <3>3. Touches(k)' => disk'[k] # NoRun /\ report'[k] # NoRun
      BY <1>2, <2>6, <2>7, <2>11
    <3>4. QED
      BY <3>1, <3>2, <3>3 DEF ReportOK
  <2>18. DoubtOK(k)'
    <3>1. Unsettled(k)' => k \in found
      BY <2>5, <2>7 DEF Unsettled, Touches, Touched
    <3>2. Unsettled(k)' => Quarantined(k)
      BY <2>5, <2>16, <3>1
    <3>3. ASSUME Unsettled(k)' PROVE report'[k].quarantined /\ Spoken(k)'
      <4>1. k \in found /\ Quarantined(k)
        BY <3>1, <3>2, <3>3
      <4>2. k \in DOMAIN claims'
        BY <1>1, <4>1
      <4>3. claims'[k].isolated
        BY <1>1, <4>2
      <4>4. QED
        BY <2>11, <4>1, <4>2, <4>3 DEF Spoken
    <3>4. QED
      BY <3>3 DEF DoubtOK
  <2>19. QED
    BY <2>9, <2>10, <2>12, <2>13, <2>14, <2>17, <2>18 DEF RunOK
<1>4. ClaimsOK'
  <2>1. \A k \in Key : pc[k] = "none" /\ k \notin leaving
    <3>1. ASSUME NEW k \in Key PROVE pc[k] = "none" /\ k \notin leaving
      <4>1. DriverOK(k)
        BY DEF WorkflowIInv, RunOK
      <4>2. ~Holds(k)
        BY <1>1 DEF WorkflowIInv, ClaimsOK, Holds
      <4>3. QED
        BY <1>1, <4>1, <4>2 DEF DriverOK, Live, WorkflowIInv, ClaimsOK
    <3>2. QED
      BY <3>1
  <2>2. leaving \subseteq Key
    BY DEF TypeOK
  <2>3. QED
    BY <1>1, <1>2, <2>1, <2>2 DEF ClaimsOK, Leased, Doubting, After
<1>5. QED
  BY <1>3, <1>4

-----------------------------------------------------------------------------
(* The theorems                                                            *)

LEMMA InitWorkflowIInv ==
  ASSUME WorkflowAssumption, NothingAssumption, Init
  PROVE  WorkflowIInv
<1>1. /\ report = [k \in Key |-> NoRun] /\ disk = [k \in Key |-> NoRun]
      /\ index = [k \in Key |-> 0] /\ pc = [k \in Key |-> "none"]
      /\ reply = [k \in Key |-> "none"] /\ ending = [k \in Key |-> NoEnding]
      /\ executing = {} /\ cancelled = {} /\ historical = {} /\ resumed = {}
      /\ leaving = {} /\ reconciling = {} /\ journal = "up"
      /\ open = FALSE /\ DOMAIN claims = {} /\ lifted = {} /\ flying = {} /\ verified = {}
      /\ effects = [p \in Key \X (1..Steps) |-> 0]
  BY DEF Init, AtRest, Arbiter!Init
<1>2. Steps \in Nat \ {0} /\ Writing \subseteq 1..Steps
  BY DEF WorkflowAssumption
<1>3. TypeOK
  <2>1. NoEnding \in Ending
    BY DEF NoEnding, Ending, Status
  <2>2. /\ report \in [Key -> Report \cup {NoRun}] /\ disk \in [Key -> Report \cup {NoRun}]
        /\ index \in [Key -> 0..Steps]
    BY <1>1, <1>2
  <2>3. pc \in [Key -> PC]
    BY <1>1 DEF PC
  <2>4. reply \in [Key -> Execution \cup {"none", "unretained"}]
    BY <1>1
  <2>5. ending \in [Key -> Ending]
    BY <1>1, <2>1
  <2>6. effects \in [Key \X (1..Steps) -> 0..2]
    BY <1>1
  <2>7. /\ executing \subseteq Key /\ cancelled \subseteq Key
        /\ historical \subseteq Key /\ resumed \subseteq Key
        /\ leaving \subseteq Key /\ reconciling \subseteq Key
        /\ flying \subseteq Key \X (1..Steps) /\ verified \subseteq Key \X (1..Steps)
    BY <1>1
  <2>8. /\ journal \in {"up", "poisoned", "torn"} /\ open \in BOOLEAN
        /\ DOMAIN claims \subseteq Key \cup {Other} /\ lifted \subseteq Key \cup {Other}
    BY <1>1
  <2>9. QED
    BY <2>2, <2>3, <2>4, <2>5, <2>6, <2>7, <2>8 DEF TypeOK
<1>4. \A k \in Key : ~open /\ report[k] = NoRun /\ disk[k] = NoRun /\ pc[k] = "none" /\ index[k] = 0
  BY <1>1
<1>5. \A k \in Key, i \in 1..Steps : <<k, i>> \notin flying /\ effects[<<k, i>>] = 0
  BY <1>1
<1>6. \A k \in Key : RunOK(k)
  <2>1. ASSUME NEW k \in Key PROVE RunOK(k)
    <3>1. ~Touches(k)
      <4>1. ASSUME NEW i \in Writing PROVE ~Touched(k, i)
        <5>1. i \in 1..Steps
          BY <1>2
        <5>2. <<k, i>> \notin flying /\ effects[<<k, i>>] = 0
          BY <1>5, <5>1
        <5>3. QED
          BY <5>2 DEF Touched
      <4>2. QED
        BY <4>1 DEF Touches
    <3>2. PageOK(k)
      BY <1>5 DEF PageOK
    <3>3. DriverOK(k)
      BY <1>1, <1>4 DEF DriverOK
    <3>4. IndexOK(k) /\ NotDispatchedOK(k) /\ PlaceOK(k) /\ ReportOK(k)
      BY <1>4, <3>1 DEF IndexOK, NotDispatchedOK, PlaceOK, ReportOK, Live, Before, After, Doubting
    <3>5. QED
      BY <3>2, <3>3, <3>4 DEF RunOK
  <2>2. QED
    BY <2>1
<1>7. (\A k \in Key : DoubtOK(k)) /\ ClaimsOK
  BY <1>1 DEF DoubtOK, ClaimsOK, Leased, Doubting, After
<1>8. QED
  BY <1>3, <1>6, <1>7 DEF WorkflowIInv

LEMMA NextWorkflowIInv ==
  ASSUME WorkflowAssumption, NothingAssumption, WorkflowIInv, [Next]_vars
  PROVE  WorkflowIInv'
<1>1. TypeOK /\ (\A k \in Key : RunOK(k)) /\ (\A k \in Key : DoubtOK(k)) /\ ClaimsOK
  BY DEF WorkflowIInv
<1>2. TypeOK'
  BY <1>1, NextTypeOK
<1>3. CASE UNCHANGED vars
  <2>1. UNCHANGED <<report, disk, pc, reply, ending, index, executing, historical, reconciling, leaving,
                    open, flying, effects, verified, claims, lifted>>
    BY <1>3 DEF vars, runVars, driverVars, journalVars, arbiterVars, pageVars
  <2>2. \A k \in Key : Same(k)
    BY <2>1 DEF Same
  <2>3. \A k \in Key : RunOK(k)' /\ (Unsettled(k)' <=> Unsettled(k))
    BY <1>1, <2>2, SameIsOK
  <2>4. \A k \in Key : DoubtOK(k)'
    BY <1>1, <2>1, <2>3 DEF DoubtOK, Spoken
  <2>5. ClaimsOK'
    BY <1>1, <2>1 DEF ClaimsOK, Holds
  <2>6. QED
    BY <1>2, <2>3, <2>4, <2>5 DEF WorkflowIInv
<1>4. ASSUME NEW k \in Key, RunStep(k) PROVE WorkflowIInv'
  <2>1. /\ RunOK(k)'
        /\ open /\ Unsettled(k)' =>
             \/ pc'[k] \in Doubting
             \/ Unsettled(k) /\ pc[k] \notin Doubting /\ report'[k].quarantined
             \/ IsolateRun(k) /\ report'[k].quarantined
    BY <1>1, <1>4, RunKeeps
  <2>2. \A q \in Key \ {k} : Same(q)
    BY <1>1, <1>2, <1>4, Frame
  <2>3. \A q \in Key \ {k} : RunOK(q)' /\ (Unsettled(q)' <=> Unsettled(q))
    BY <1>1, <2>2, SameIsOK
  <2>4. /\ ClaimsOK' /\ open' = open
        /\ \A q \in Key : Spoken(q) => Spoken(q)'
    BY <1>1, <1>2, <1>4, RunKeepsClaims
  <2>5. \A q \in Key \ {k} : DoubtOK(q)'
    BY <1>1, <2>2, <2>3, <2>4 DEF DoubtOK, Same
  <2>6. IsolateRun(k) => Spoken(k)'
    BY IsolatedIs DEF IsolateRun, Spoken
  <2>7. DoubtOK(k)'
    BY <1>1, <2>1, <2>4, <2>6 DEF DoubtOK
  <2>8. QED
    BY <1>2, <2>1, <2>3, <2>4, <2>5, <2>7 DEF WorkflowIInv
<1>5. CASE OtherTakes \/ OtherEnds \/ \E o \in Key \cup {Other} : Lift(o)
  BY <1>1, <1>2, <1>5, OthersKeep DEF WorkflowIInv
<1>6. CASE Crash
  BY <1>1, <1>2, <1>6, CrashKeeps DEF WorkflowIInv
<1>7. CASE Recover
  BY <1>1, <1>2, <1>7, RecoverKeeps DEF WorkflowIInv
<1>8. QED
  BY <1>3, <1>4, <1>5, <1>6, <1>7 DEF Next, RunStep

(* For any number of runs, steps and slots, and through any faults.        *)
THEOREM WorkflowInvariance == Spec => []WorkflowIInv
<1>1. Init => WorkflowIInv
  BY InitWorkflowIInv, WorkflowAssumption, NothingAssumption
<1>2. WorkflowIInv /\ [Next]_vars => WorkflowIInv'
  BY NextWorkflowIInv, WorkflowAssumption, NothingAssumption
<1>3. QED
  BY <1>1, <1>2, PTL DEF Spec

(* The engine's variables keep their types, its reports among them.        *)
THEOREM WorkflowTypeCorrect == Spec => []TypeOK
<1>1. WorkflowIInv => TypeOK
  BY DEF WorkflowIInv
<1>2. QED
  BY <1>1, WorkflowInvariance, PTL

(* No step acts on the page twice, whatever is cancelled, continued,       *)
(* answered late or restarted in between (service.rs, drive and resume).   *)
THEOREM ActsAtMostOnce == Spec => []AtMostOnce
<1>1. WorkflowIInv => AtMostOnce
  <2>1. ASSUME WorkflowIInv, NEW k \in Key, NEW i \in 1..Steps PROVE effects[<<k, i>>] <= 1
    BY <2>1 DEF WorkflowIInv, RunOK, PageOK
  <2>2. QED
    BY <2>1 DEF AtMostOnce
<1>2. QED
  BY <1>1, WorkflowInvariance, PTL

(* A write in doubt is in the journal and isolated, in this process and in *)
(* any that follows (the intent in drive, recover).                        *)
THEOREM DoubtIsNotLost == Spec => []DoubtIsKept
<1>1. WorkflowIInv => IntentIsDurable
  <2>1. ASSUME WorkflowIInv, NEW k \in Key, NEW i \in Writing, Touched(k, i)
        PROVE  disk[k] # NoRun /\ disk[k].mayHaveEffects
    BY <2>1 DEF WorkflowIInv, RunOK, ReportOK, GoodReport, Touches
  <2>2. QED
    BY <2>1 DEF IntentIsDurable, Touched
<1>2. WorkflowIInv => IsolatedWhileUnsettled
  <2>1. ASSUME WorkflowIInv, open, NEW k \in Key, Unsettled(k)
        PROVE  k \in DOMAIN claims \cup lifted
    <3>1. pc[k] \in Doubting \/ Spoken(k)
      BY <2>1 DEF WorkflowIInv, DoubtOK
    <3>2. pc[k] \in Doubting => Holds(k)
      BY <2>1 DEF WorkflowIInv, ClaimsOK, Leased
    <3>3. QED
      BY <3>1, <3>2 DEF Spoken, Holds
  <2>2. QED
    BY <2>1 DEF IsolatedWhileUnsettled
<1>3. QED
  BY <1>1, <1>2, WorkflowInvariance, PTL DEF DoubtIsKept

(* What a client acts upon is true: a run that is said to have stopped     *)
(* before its step was dispatched did so, and a completed one is done.     *)
THEOREM ReportsTellTheTruth == Spec => []ReportsAreTrue
<1>1. WorkflowIInv => NotDispatchedIsTrue
  <2>1. ASSUME WorkflowIInv, NEW k \in Key, report[k] # NoRun, k \notin executing \cup historical,
               report[k].outcome = NotDispatched
        PROVE  <<k, Step(k)>> \notin flying /\ effects[<<k, Step(k)>>] = 0
    <3>1. RunOK(k) /\ TypeOK
      BY <2>1 DEF WorkflowIInv
    <3>2. Live(k) /\ pc[k] = "none"
      BY <2>1, <3>1 DEF RunOK, DriverOK, Live
    <3>3. index[k] < Steps /\ ~Touched(k, Step(k))
      BY <2>1, <3>1, <3>2 DEF RunOK, NotDispatchedOK
    <3>4. Step(k) \in 1..Steps
      BY <3>1, <3>3, WorkflowAssumption DEF WorkflowAssumption, TypeOK, Step
    <3>5. effects[<<k, Step(k)>>] \in 0..2
      BY <3>1, <3>4 DEF TypeOK
    <3>6. QED
      BY <3>3, <3>5 DEF Touched
  <2>2. QED
    BY <2>1 DEF NotDispatchedIsTrue
<1>2. WorkflowIInv => CompletedMeansDone
  <2>1. ASSUME WorkflowIInv, NEW k \in Key, NEW r \in {report[k], disk[k]}, r # NoRun,
               r.status = "completed"
        PROVE  Done(k)
    BY <2>1 DEF WorkflowIInv, RunOK, ReportOK, GoodReport
  <2>2. QED
    BY <2>1 DEF CompletedMeansDone, Done
<1>3. QED
  BY <1>1, <1>2, WorkflowInvariance, PTL DEF ReportsAreTrue

(* Only a driver that has the lease dispatches.                            *)
LEMMA OnlyDispatchSends ==
  ASSUME TypeOK, NEW k \in Key, RunStep(k), pc[k] # "sent", pc'[k] = "sent"
  PROVE  pc[k] \in {"intended", "asking"}
<1>1. ~Moves(k)
  BY DEF Moves, TakeSlot, LoseSlot, TakeLease, FindBusy, Recheck, AllDone, CannotPrepare,
         StopPrepared, StopIntended, Goal, StopWith, Goto, TypeOK
<1>2. ~(Leave(k) \/ Ask(k))
  BY DEF Leave, Ask, Submit, Cancel, Continue, Reconcile, Reconciled, driverVars, TypeOK
<1>3. \A ok \in BOOLEAN :
        ~(\/ Start(k, ok) \/ Prepare(k, ok) \/ Intend(k, ok) \/ Replied(k, ok)
          \/ Verified(k, ok) \/ Stop(k, ok))
  BY DEF Start, Prepare, Intend, Replied, Verified, Stop, Abort, StopWith, Goto, TypeOK
<1>4. ~(NotSent(k) \/ GiveUp(k) \/ PageAnswers(k) \/ Requery(k) \/ Unrecorded(k) \/ NotVerified(k))
  BY DEF NotSent, GiveUp, PageAnswers, Requery, Unrecorded, NotVerified, StopWith, Goto, TypeOK
<1>5. \A i \in 1..Steps : ~PageRunsLate(k, i)
  BY DEF PageRunsLate, driverVars
<1>6. QED
  BY <1>1, <1>2, <1>3, <1>4, <1>5, RunStepIs DEF Dispatch, Asking

(* No write goes out while a write of another run is unsettled, but where  *)
(* somebody lifted that one's quarantine (acquire in drive).               *)
THEOREM WritesNeverMeet == Spec => WritesDoNotMeet
<1>1. ASSUME WorkflowIInv, [Next]_vars, NEW k \in Key, NEW q \in Key, k # q,
             pc[k] # "sent", pc'[k] = "sent", Unsettled(q)
      PROVE  q \in lifted
  <2>1. TypeOK /\ TypeOK' /\ RunOK(k) /\ ClaimsOK /\ DoubtOK(q)
    BY <1>1, NextWorkflowIInv, WorkflowAssumption, NothingAssumption DEF WorkflowIInv
  <2>2. PICK p \in Key : RunStep(p)
    <3>1. pc' # pc /\ ~(Crash \/ Recover)
      BY <1>1 DEF Crash, AtRest, Recover, driverVars
    <3>2. ~(OtherTakes \/ OtherEnds \/ (\E o \in Key \cup {Other} : Lift(o)) \/ UNCHANGED vars)
      BY <3>1 DEF OtherTakes, OtherEnds, Lift, vars, driverVars
    <3>3. QED
      BY <1>1, <3>1, <3>2 DEF Next, RunStep
  <2>3. p = k
    BY <1>1, <2>1, <2>2, Frame, WorkflowAssumption, NothingAssumption DEF Same, WorkflowIInv
  <2>4. pc[k] \in {"intended", "asking"}
    BY <1>1, <2>1, <2>2, <2>3, OnlyDispatchSends
  <2>5. Holds(k) /\ open
    BY <2>1, <2>4 DEF ClaimsOK, Leased, RunOK, DriverOK, Live
  <2>6. ~(q \in DOMAIN claims)
    BY <1>1, <2>1, <2>5 DEF ClaimsOK, Holds
  <2>7. pc[q] \notin Doubting
    BY <2>1, <2>6 DEF ClaimsOK, Leased, Holds
  <2>8. QED
    BY <1>1, <2>1, <2>5, <2>6, <2>7 DEF DoubtOK, Spoken
<1>2. WorkflowIInv /\ [Next]_vars =>
        [\A k, q \in Key :
           (k # q /\ pc[k] # "sent" /\ pc'[k] = "sent" /\ Step(k) \in Writing) =>
             (Unsettled(q) => q \in lifted)]_vars
  BY <1>1
<1>3. QED
  BY <1>2, WorkflowInvariance, PTL DEF Spec, WritesDoNotMeet

-----------------------------------------------------------------------------
(* The journal                                                             *)

(* The inductive invariant                                                 *)

Opened == {"open", "closing"}

(* The process that has the lock is the only one that has anything of the  *)
(* journal in memory, and it has nothing before it has opened the file.    *)
OwnerOK ==
  \A p \in Process :
    /\ mode[p] # "closed" <=> owner = p
    /\ mode[p] \notin Opened => queue[p] = <<>> /\ writing[p] = Nothing /\ ~poisoned[p]

(* A key is made only where there is no history, and a history has its key *)
(* on disk, under a name that is there after a power loss.                 *)
KeyOK ==
  /\ \A p \in Process : mode[p] = "keying" => ~HasHistory /\ keyFile = "short" /\ key < MaxKeys
  /\ \A p \in Process : mode[p] \in Opened => keyFile = "whole" /\ keySafe
  /\ HasHistory => keyFile = "whole" /\ keySafe
  /\ keyFile = "whole" => key > 0
  /\ \A i \in DOMAIN file : file[i].key = key
  /\ \A p \in Process : \A i \in DOMAIN queue[p] : queue[p][i].key = key

(* What the writer remembers of each run, while it still accepts records.  *)
Remembers(p) ==
  \A i \in DOMAIN file :
    file[i].revision <= lastRevision[p][file[i].run] \/ (writing[p] # Nothing /\ i = Len(file))

WriterOK ==
  \A p \in Process :
    mode[p] \in Opened =>
      /\ torn => poisoned[p]
      /\ poisoned[p] => writing[p] = Nothing
      /\ ~poisoned[p] => Remembers(p)
      /\ writing[p] # Nothing =>
           /\ durable < Len(file) /\ file[Len(file)] = writing[p]
           /\ writing[p].revision > lastRevision[p][writing[p].run]

FileOK == Len(file) <= MaxRecords /\ InOrder(file)

JournalIInv == JournalTypeOK /\ OwnerOK /\ KeyOK /\ WriterOK /\ FileOK

-----------------------------------------------------------------------------
(* Operators                                                               *)

(* A set of naturals within a bound has a greatest element.                *)
LEMMA GreatestExists ==
  ASSUME NEW n \in Nat, NEW S, S \subseteq 0..n, S # {}
  PROVE  \E r \in S : \A s \in S : s <= r
<1> DEFINE T == {n - r : r \in S}
<1>1. T \subseteq Nat /\ T # {}
  <2>1. \A r \in S : n - r \in Nat
    OBVIOUS
  <2>2. QED
    BY <2>1
<1>2. PICK x \in T : \A y \in T : ~ (<<y, x>> \in OpToRel(<, Nat))
  BY <1>1, WFMin, NatLessThanWellFounded, Zenon
<1>3. \A y \in T : ~(y < x)
  BY <1>1, <1>2 DEF OpToRel
<1>4. PICK r \in S : x = n - r
  OBVIOUS
<1>5. \A s \in S : s <= r
  <2>1. ASSUME NEW s \in S PROVE s <= r
    <3>1. n - s \in T
      OBVIOUS
    <3>2. ~(n - s < n - r)
      BY <1>3, <1>4, <3>1
    <3>3. QED
      BY <3>2
  <2>2. QED
    BY <2>1
<1>6. QED
  BY <1>5

(* What open reads back (read_history) is not behind the file.             *)
LEMMA LastRevisionIs ==
  ASSUME JournalAssumption, JournalTypeOK, NEW run \in Run
  PROVE  /\ LastRevision(run) \in 0..MaxRevision
         /\ \A i \in DOMAIN file : file[i].run = run => file[i].revision <= LastRevision(run)
<1> DEFINE R == {file[i].revision : i \in {j \in DOMAIN file : file[j].run = run}}
<1>1. \A i \in DOMAIN file : file[i] \in JournalRecord
  BY ElementOfSeq DEF JournalTypeOK
<1>2. R \subseteq 1..MaxRevision /\ MaxRevision \in Nat
  BY <1>1 DEF JournalRecord, JournalAssumption
<1>3. CASE R = {}
  BY <1>2, <1>3 DEF LastRevision
<1>4. CASE R # {}
  <2>1. \E r \in R : \A s \in R : s <= r
    <3>1. R \subseteq 0..MaxRevision
      BY <1>2
    <3> HIDE DEF R
    <3>2. QED
      BY <1>2, <1>4, <3>1, GreatestExists
  <2>2. LastRevision(run) = CHOOSE r \in R : \A s \in R : s <= r
    BY <1>4 DEF LastRevision
  <2>3. LastRevision(run) \in R /\ \A s \in R : s <= LastRevision(run)
    BY <2>1, <2>2
  <2>4. QED
    BY <1>2, <2>3
<1>5. QED
  BY <1>3, <1>4

(* A process that ends, by Drop, a kill or a failed open, leaves the rest. *)
LEMMA ForgetIs ==
  ASSUME JournalTypeOK, NEW S \in SUBSET Process, Forget(S)
  PROVE  /\ mode' \in [Process -> Mode] /\ queue' \in [Process -> Seq(JournalRecord)]
         /\ writing' \in [Process -> JournalRecord \cup {Nothing}]
         /\ poisoned' \in [Process -> BOOLEAN]
         /\ lastRevision' \in [Process -> [Run -> 0..MaxRevision]]
         /\ owner' \in Process \cup {Nobody} /\ acked' = acked
         /\ \A p \in Process : Len(queue'[p]) <= QueueCapacity
         /\ \A p \in S : /\ mode'[p] = "closed" /\ queue'[p] = <<>> /\ writing'[p] = Nothing
                         /\ ~poisoned'[p] /\ owner' # p
         /\ \A p \in Process \ S :
              /\ mode'[p] = mode[p] /\ queue'[p] = queue[p] /\ writing'[p] = writing[p]
              /\ poisoned'[p] = poisoned[p] /\ lastRevision'[p] = lastRevision[p]
              /\ owner' = p <=> owner = p
<1>1. mode' \in [Process -> Mode]
  BY DEF Forget, JournalTypeOK, Mode
<1>2. queue' \in [Process -> Seq(JournalRecord)]
  BY EmptySeq DEF Forget, JournalTypeOK
<1>3. writing' \in [Process -> JournalRecord \cup {Nothing}] /\ poisoned' \in [Process -> BOOLEAN]
  BY DEF Forget, JournalTypeOK
<1>4. lastRevision' \in [Process -> [Run -> 0..MaxRevision]]
  <2>1. [run \in Run |-> 0] \in [Run -> 0..MaxRevision]
    BY JournalAssumption DEF JournalAssumption
  <2>2. QED
    BY <2>1 DEF Forget, JournalTypeOK
<1>5. owner' \in Process \cup {Nobody} /\ acked' = acked
  BY DEF Forget, JournalTypeOK
<1>6. \A p \in Process : Len(queue'[p]) <= QueueCapacity
  BY EmptySeq, JournalAssumption DEF Forget, JournalTypeOK, JournalAssumption
<1>7. \A p \in S : /\ mode'[p] = "closed" /\ queue'[p] = <<>> /\ writing'[p] = Nothing
                   /\ ~poisoned'[p] /\ owner' # p
  BY JournalAssumption DEF Forget, JournalAssumption
<1>8. \A p \in Process \ S :
        /\ mode'[p] = mode[p] /\ queue'[p] = queue[p] /\ writing'[p] = writing[p]
        /\ poisoned'[p] = poisoned[p] /\ lastRevision'[p] = lastRevision[p]
        /\ owner' = p <=> owner = p
  BY JournalAssumption DEF Forget, JournalAssumption, JournalTypeOK
<1>9. QED
  BY <1>1, <1>2, <1>3, <1>4, <1>5, <1>6, <1>7, <1>8

-----------------------------------------------------------------------------
(* Each action keeps the invariant                                         *)

LEMMA InitJournalIInv ==
  ASSUME JournalAssumption, NoRecordAssumption, JournalInit
  PROVE  JournalIInv
<1>1. /\ file = <<>> /\ Len(file) = 0 /\ DOMAIN file = {} /\ <<>> \in Seq(JournalRecord)
      /\ durable = 0 /\ torn = FALSE
  BY EmptySeq DEF JournalInit
<1>2. JournalTypeOK
  <2>1. [run \in Run |-> 0] \in [Run -> 0..MaxRevision]
    BY JournalAssumption DEF JournalAssumption
  <2>2. file \in Seq(JournalRecord)
    BY <1>1
  <2>8. torn \in BOOLEAN /\ durable \in 0..Len(file)
    <3>1. durable = 0 /\ Len(file) = 0
      BY <1>1
    <3>2. durable \in 0..Len(file)
      BY <3>1
    <3>3. torn \in BOOLEAN
      BY <1>1
    <3>4. QED
      BY <3>2, <3>3
  <2>9. /\ keyFile \in {"absent", "short", "whole"} /\ keySafe \in BOOLEAN
        /\ owner \in Process \cup {Nobody} /\ acked \subseteq JournalRecord
    BY DEF JournalInit
  <2>10. key \in 0..MaxKeys
    BY JournalAssumption DEF JournalInit, JournalAssumption
  <2>3. mode \in [Process -> Mode] /\ poisoned \in [Process -> BOOLEAN]
    BY DEF JournalInit, Mode
  <2>4. queue \in [Process -> Seq(JournalRecord)] /\ \A p \in Process : Len(queue[p]) <= QueueCapacity
    BY <1>1, JournalAssumption DEF JournalInit, JournalAssumption
  <2>5. writing \in [Process -> JournalRecord \cup {Nothing}]
    BY DEF JournalInit
  <2>6. lastRevision \in [Process -> [Run -> 0..MaxRevision]]
    BY <2>1 DEF JournalInit
  <2>7. QED
    BY <2>2, <2>8, <2>9, <2>10, <2>3, <2>4, <2>5, <2>6 DEF JournalTypeOK
<1>3. OwnerOK
  BY DEF JournalInit, OwnerOK, JournalAssumption
<1>4. KeyOK
  BY <1>1 DEF JournalInit, KeyOK, HasHistory, Opened
<1>5. WriterOK
  BY DEF JournalInit, WriterOK, Opened
<1>6. FileOK
  BY <1>1 DEF FileOK, InOrder, JournalAssumption
<1>7. QED
  BY <1>2, <1>3, <1>4, <1>5, <1>6 DEF JournalIInv

LEMMA TryLockKeeps ==
  ASSUME JournalAssumption, NoRecordAssumption, JournalIInv, NEW p \in Process, TryLock(p)
  PROVE  JournalIInv'
<1>1. JournalTypeOK'
  BY DEF JournalIInv, JournalTypeOK, TryLock, fileVars, keyVars, writer, Mode
<1>2. OwnerOK'
  BY DEF JournalIInv, JournalTypeOK, OwnerOK, TryLock, writer, Opened, JournalAssumption
<1>3. KeyOK'
  BY DEF JournalIInv, JournalTypeOK, KeyOK, HasHistory, TryLock, fileVars, keyVars, writer, Opened
<1>4. WriterOK'
  BY DEF JournalIInv, JournalTypeOK, WriterOK, Remembers, TryLock, fileVars, writer, Opened
<1>5. FileOK'
  BY DEF JournalIInv, FileOK, TryLock, fileVars
<1>6. QED
  BY <1>1, <1>2, <1>3, <1>4, <1>5 DEF JournalIInv

LEMMA CreateKeyFileKeeps ==
  ASSUME JournalAssumption, NoRecordAssumption, JournalIInv, NEW p \in Process, CreateKeyFile(p)
  PROVE  JournalIInv'
<1>1. JournalTypeOK'
  BY DEF JournalIInv, JournalTypeOK, CreateKeyFile, fileVars, writer, Mode
<1>2. OwnerOK'
  BY DEF JournalIInv, JournalTypeOK, OwnerOK, CreateKeyFile, writer, Opened
<1>3. KeyOK'
  BY DEF JournalIInv, JournalTypeOK, KeyOK, HasHistory, CreateKeyFile, fileVars, writer, Opened
<1>4. WriterOK'
  BY DEF JournalIInv, JournalTypeOK, WriterOK, Remembers, CreateKeyFile, fileVars, writer, Opened
<1>5. FileOK'
  BY DEF JournalIInv, FileOK, CreateKeyFile, fileVars
<1>6. QED
  BY <1>1, <1>2, <1>3, <1>4, <1>5 DEF JournalIInv

(* Nobody else is opening or open, and nothing was ever written.           *)
LEMMA FillKeyFileKeeps ==
  ASSUME JournalAssumption, NoRecordAssumption, JournalIInv, NEW p \in Process, FillKeyFile(p)
  PROVE  JournalIInv'
<1>1. file = <<>> /\ ~torn /\ DOMAIN file = {}
  BY EmptySeq DEF JournalIInv, KeyOK, HasHistory, FillKeyFile
<1>2. \A q \in Process : queue[q] = <<>> /\ mode[q] \notin Opened /\ (mode[q] = "keying" => q = p)
  BY DEF JournalIInv, OwnerOK, FillKeyFile, Opened
<1>3. JournalTypeOK'
  BY DEF JournalIInv, JournalTypeOK, FillKeyFile, fileVars, writer, Mode, KeyOK
<1>4. OwnerOK'
  BY DEF JournalIInv, JournalTypeOK, OwnerOK, FillKeyFile, writer, Opened
<1>5. \A q \in Process : queue'[q] = <<>> /\ mode'[q] \notin Opened /\ mode'[q] # "keying"
  BY <1>2 DEF JournalIInv, JournalTypeOK, FillKeyFile, writer, Opened
<1>6. KeyOK'
  <2>1. ~HasHistory' /\ DOMAIN file' = {} /\ keyFile' = "whole" /\ key' > 0
    BY <1>1 DEF FillKeyFile, fileVars, HasHistory, JournalIInv, JournalTypeOK
  <2>2. \A q \in Process : DOMAIN queue'[q] = {}
    BY <1>5, EmptySeq
  <2>3. QED
    BY <1>5, <2>1, <2>2 DEF KeyOK
<1>7. WriterOK'
  <2>1. \A q \in Process : ~(mode'[q] \in Opened)
    BY <1>5
  <2>2. QED
    BY <2>1 DEF WriterOK, Opened
<1>8. FileOK'
  BY DEF JournalIInv, FileOK, FillKeyFile, fileVars
<1>9. QED
  BY <1>3, <1>4, <1>6, <1>7, <1>8 DEF JournalIInv

LEMMA OpenKeeps ==
  ASSUME JournalAssumption, NoRecordAssumption, JournalIInv, NEW p \in Process, Open(p)
  PROVE  JournalIInv'
<1>1. JournalTypeOK'
  BY LastRevisionIs DEF JournalIInv, JournalTypeOK, Open, fileVars, Mode
<1>2. OwnerOK'
  BY DEF JournalIInv, JournalTypeOK, OwnerOK, Open, Opened
<1>3. KeyOK'
  BY DEF JournalIInv, JournalTypeOK, KeyOK, HasHistory, Open, fileVars, Opened
<1>4. WriterOK'
  <2>1. \A i \in DOMAIN file : file[i] \in JournalRecord
    BY ElementOfSeq DEF JournalIInv, JournalTypeOK
  <2>2. Remembers(p)'
    BY <2>1, LastRevisionIs DEF JournalIInv, JournalTypeOK, Remembers, Open, fileVars, JournalRecord
  <2>3. writing[p] = Nothing /\ ~poisoned[p]
    BY DEF JournalIInv, OwnerOK, Open, Opened
  <2>4. QED
    BY <2>2, <2>3 DEF JournalIInv, JournalTypeOK, WriterOK, Remembers, Open, fileVars, Opened
<1>5. FileOK'
  BY DEF JournalIInv, FileOK, Open, fileVars
<1>6. QED
  BY <1>1, <1>2, <1>3, <1>4, <1>5 DEF JournalIInv

(* A failed open, the end of Drop, a kill.                                 *)
LEMMA ForgetKeeps ==
  ASSUME JournalAssumption, NoRecordAssumption, JournalIInv, NEW S \in SUBSET Process, Forget(S),
         UNCHANGED <<fileVars, keyVars>>
  PROVE  JournalIInv'
<1>1. JournalTypeOK'
  BY ForgetIs DEF JournalIInv, JournalTypeOK, fileVars, keyVars
<1>2. OwnerOK'
  BY ForgetIs DEF JournalIInv, OwnerOK, Opened
<1>3. KeyOK'
  <2>1. \A p \in Process :
          /\ mode'[p] \in {mode[p], "closed"}
          /\ queue'[p] \in {queue[p], <<>>}
    BY ForgetIs DEF JournalIInv
  <2>2. \A p \in Process : \A i \in DOMAIN queue'[p] : i \in DOMAIN queue[p] /\ queue'[p][i] = queue[p][i]
    BY <2>1, EmptySeq
  <2>3. QED
    BY <2>1, <2>2 DEF JournalIInv, KeyOK, HasHistory, fileVars, keyVars, Opened
<1>4. WriterOK'
  BY ForgetIs DEF JournalIInv, WriterOK, Remembers, fileVars, Opened
<1>5. FileOK'
  BY DEF JournalIInv, FileOK, fileVars
<1>6. QED
  BY <1>1, <1>2, <1>3, <1>4, <1>5 DEF JournalIInv

LEMMA SubmitAppendKeeps ==
  ASSUME JournalAssumption, NoRecordAssumption, JournalIInv, NEW p \in Process, NEW run \in Run,
         NEW revision \in 1..MaxRevision, SubmitAppend(p, run, revision)
  PROVE  JournalIInv'
<1> DEFINE record == [run |-> run, revision |-> revision, key |-> key]
<1>1. key \in 1..MaxKeys
  BY DEF JournalIInv, JournalTypeOK, KeyOK, SubmitAppend, Opened
<1>2. record \in JournalRecord /\ record.key = key
  BY <1>1 DEF JournalRecord
<1>3. /\ queue' = [queue EXCEPT ![p] = Append(@, record)]
      /\ Append(queue[p], record) \in Seq(JournalRecord)
      /\ Len(Append(queue[p], record)) <= QueueCapacity
      /\ \A i \in DOMAIN Append(queue[p], record) :
           \/ Append(queue[p], record)[i] = record
           \/ i \in DOMAIN queue[p] /\ Append(queue[p], record)[i] = queue[p][i]
  <2> HIDE DEF record
  <2>1. queue[p] \in Seq(JournalRecord)
    BY DEF JournalIInv, JournalTypeOK
  <2>2. Len(queue[p]) \in Nat /\ Len(queue[p]) < QueueCapacity /\ QueueCapacity \in Nat
    BY <2>1, LenProperties DEF SubmitAppend, JournalAssumption
  <2>3. queue' = [queue EXCEPT ![p] = Append(@, record)]
    BY DEF SubmitAppend, record
  <2>4. /\ Append(queue[p], record) \in Seq(JournalRecord)
        /\ Len(Append(queue[p], record)) = Len(queue[p]) + 1
        /\ DOMAIN Append(queue[p], record) = 1..(Len(queue[p]) + 1)
        /\ DOMAIN queue[p] = 1..Len(queue[p])
        /\ \A i \in 1..Len(queue[p]) : Append(queue[p], record)[i] = queue[p][i]
        /\ Append(queue[p], record)[Len(queue[p]) + 1] = record
    BY <1>2, <2>1, AppendProperties, LenProperties
  <2>5. \A i \in 1..(Len(queue[p]) + 1) : i = Len(queue[p]) + 1 \/ i \in 1..Len(queue[p])
    BY <2>2
  <2>6. Len(Append(queue[p], record)) <= QueueCapacity
    BY <2>2, <2>4
  <2>7. QED
    BY <2>3, <2>4, <2>5, <2>6
<1> HIDE DEF record
<1>4. JournalTypeOK'
  BY <1>3 DEF JournalIInv, JournalTypeOK, SubmitAppend, fileVars, keyVars
<1>5. OwnerOK'
  BY <1>3 DEF JournalIInv, JournalTypeOK, OwnerOK, SubmitAppend, Opened
<1>6. KeyOK'
  <2>1. \A q \in Process : \A i \in DOMAIN queue'[q] : queue'[q][i].key = key
    BY <1>2, <1>3 DEF JournalIInv, JournalTypeOK, KeyOK
  <2>2. QED
    BY <2>1 DEF JournalIInv, KeyOK, HasHistory, SubmitAppend, fileVars, keyVars
<1>7. WriterOK'
  BY DEF JournalIInv, WriterOK, Remembers, SubmitAppend, fileVars
<1>8. FileOK'
  BY DEF JournalIInv, FileOK, SubmitAppend, fileVars
<1>9. QED
  BY <1>4, <1>5, <1>6, <1>7, <1>8 DEF JournalIInv

(* The writer's next record.                                               *)
LEMMA TakeIs ==
  ASSUME JournalIInv, NEW p \in Process, CanTake(p), Take(p)
  PROVE  /\ Head(queue[p]) \in JournalRecord /\ Head(queue[p]).key = key
         /\ queue' \in [Process -> Seq(JournalRecord)]
         /\ \A q \in Process : Len(queue'[q]) <= QueueCapacity
         /\ \A q \in Process : \A i \in DOMAIN queue'[q] : queue'[q][i].key = key
         /\ \A q \in Process \ {p} : queue'[q] = queue[q]
<1>1. queue[p] \in Seq(JournalRecord) /\ queue[p] # <<>> /\ \A i \in DOMAIN queue[p] : queue[p][i].key = key
  BY DEF JournalIInv, JournalTypeOK, KeyOK, CanTake
<1>2. /\ Head(queue[p]) = queue[p][1] /\ Head(queue[p]) \in JournalRecord
      /\ Tail(queue[p]) \in Seq(JournalRecord) /\ Len(Tail(queue[p])) = Len(queue[p]) - 1
      /\ \A i \in 1..Len(Tail(queue[p])) : Tail(queue[p])[i] = queue[p][i + 1]
      /\ Len(queue[p]) \in Nat \ {0} /\ DOMAIN queue[p] = 1..Len(queue[p])
      /\ DOMAIN Tail(queue[p]) = 1..Len(Tail(queue[p]))
  BY <1>1, HeadTailProperties, LenProperties, EmptySeq
<1>3. Head(queue[p]).key = key
  BY <1>1, <1>2
<1>4. Len(queue[p]) <= QueueCapacity /\ QueueCapacity \in Nat
  BY JournalAssumption DEF JournalIInv, JournalTypeOK, JournalAssumption
<1>5. \A i \in DOMAIN Tail(queue[p]) : Tail(queue[p])[i].key = key
  BY <1>1, <1>2
<1>6. queue'[p] = Tail(queue[p]) /\ \A q \in Process \ {p} : queue'[q] = queue[q]
  BY DEF Take, JournalIInv, JournalTypeOK
<1>7. queue' \in [Process -> Seq(JournalRecord)]
  BY <1>2 DEF Take, JournalIInv, JournalTypeOK
<1>8. \A q \in Process : Len(queue'[q]) <= QueueCapacity
  BY <1>2, <1>4, <1>6 DEF JournalIInv, JournalTypeOK
<1>9. \A q \in Process : \A i \in DOMAIN queue'[q] : queue'[q][i].key = key
  BY <1>5, <1>6 DEF JournalIInv, KeyOK
<1>10. QED
  BY <1>2, <1>3, <1>6, <1>7, <1>8, <1>9

LEMMA RejectKeeps ==
  ASSUME JournalAssumption, NoRecordAssumption, JournalIInv, NEW p \in Process, Reject(p)
  PROVE  JournalIInv'
<1>1. /\ queue' \in [Process -> Seq(JournalRecord)]
      /\ \A q \in Process : Len(queue'[q]) <= QueueCapacity
      /\ \A q \in Process : \A i \in DOMAIN queue'[q] : queue'[q][i].key = key
      /\ \A q \in Process \ {p} : queue'[q] = queue[q]
  BY TakeIs DEF Reject
<1>2. mode[p] \in Opened
  BY DEF Reject, CanTake, Opened
<1>3. JournalTypeOK'
  BY <1>1 DEF JournalIInv, JournalTypeOK, Reject, fileVars, keyVars
<1>4. OwnerOK'
  BY <1>1, <1>2 DEF JournalIInv, OwnerOK, Reject
<1>5. KeyOK'
  BY <1>1 DEF JournalIInv, KeyOK, HasHistory, Reject, fileVars, keyVars
<1>6. WriterOK'
  BY DEF JournalIInv, WriterOK, Remembers, Reject, fileVars
<1>7. FileOK'
  BY DEF JournalIInv, FileOK, Reject, fileVars
<1>8. QED
  BY <1>3, <1>4, <1>5, <1>6, <1>7 DEF JournalIInv

(* The file grows by one line, whose run has nothing as late.              *)
LEMMA WriteLineKeeps ==
  ASSUME JournalAssumption, NoRecordAssumption, JournalIInv, NEW p \in Process, WriteLine(p)
  PROVE  JournalIInv'
<1> DEFINE record == Head(queue[p])
<1>1. /\ record \in JournalRecord /\ record.key = key
      /\ queue' \in [Process -> Seq(JournalRecord)]
      /\ \A q \in Process : Len(queue'[q]) <= QueueCapacity
      /\ \A q \in Process : \A i \in DOMAIN queue'[q] : queue'[q][i].key = key
      /\ \A q \in Process \ {p} : queue'[q] = queue[q]
  BY TakeIs DEF WriteLine
<1> HIDE DEF record
<1>2. /\ mode[p] \in Opened /\ ~poisoned[p] /\ writing[p] = Nothing /\ ~torn
      /\ Len(file) < MaxRecords /\ record.revision > lastRevision[p][record.run]
  BY DEF WriteLine, CanTake, Accepted, ValidSequence, JournalIInv, WriterOK, Opened, record
<1>3. file \in Seq(JournalRecord) /\ Len(file) \in Nat /\ DOMAIN file = 1..Len(file)
  BY LenProperties DEF JournalIInv, JournalTypeOK
<1>4. file' = Append(file, record)
  BY <1>2 DEF WriteLine, Lines, record
<1>5. /\ file' \in Seq(JournalRecord) /\ Len(file') = Len(file) + 1
      /\ DOMAIN file' = 1..(Len(file) + 1) /\ file' # <<>>
      /\ \A i \in 1..Len(file) : file'[i] = file[i]
      /\ file'[Len(file) + 1] = record
  BY <1>1, <1>3, <1>4, AppendProperties, LenProperties
<1>6. writing' = [writing EXCEPT ![p] = record]
  BY DEF WriteLine, record
<1>7. \A i \in DOMAIN file : /\ file[i] \in JournalRecord
                             /\ file[i].revision <= lastRevision[p][file[i].run]
  BY <1>2, <1>3, ElementOfSeq DEF JournalIInv, WriterOK, Remembers
<1>8. JournalTypeOK'
  <2>1. durable' \in 0..Len(file')
    BY <1>3, <1>5 DEF JournalIInv, JournalTypeOK, WriteLine
  <2>2. writing' \in [Process -> JournalRecord \cup {Nothing}]
    BY <1>1, <1>6 DEF JournalIInv, JournalTypeOK
  <2>3. QED
    BY <1>1, <1>5, <2>1, <2>2 DEF JournalIInv, JournalTypeOK, WriteLine, keyVars
<1>9. OwnerOK'
  <2>1. \A q \in Process \ {p} : writing'[q] = writing[q] /\ queue'[q] = queue[q]
    BY <1>1, <1>6 DEF JournalIInv, JournalTypeOK
  <2>2. QED
    BY <1>2, <2>1 DEF JournalIInv, OwnerOK, WriteLine
<1>10. KeyOK'
  <2>1. keyFile = "whole" /\ keySafe /\ mode[p] # "keying"
    BY <1>2 DEF JournalIInv, KeyOK, Opened
  <2>2. \A q \in Process : mode[q] # "keying"
    BY <1>2, <2>1 DEF JournalIInv, OwnerOK, Opened
  <2>3. \A i \in DOMAIN file' : file'[i].key = key
    BY <1>1, <1>3, <1>5 DEF JournalIInv, KeyOK
  <2>4. QED
    BY <1>1, <2>1, <2>2, <2>3 DEF JournalIInv, KeyOK, WriteLine, keyVars, HasHistory
<1>11. WriterOK'
  <2>1. \A q \in Process : mode[q] \in Opened => q = p
    BY <1>2 DEF JournalIInv, OwnerOK, Opened
  <2>2. writing'[p] = record /\ record # Nothing
    BY <1>1, <1>6 DEF JournalIInv, JournalTypeOK, NoRecordAssumption
  <2>3. Remembers(p)'
    <3>1. lastRevision' = lastRevision /\ Len(file') = Len(file) + 1
      BY <1>5 DEF WriteLine
    <3>2. ASSUME NEW i \in DOMAIN file'
          PROVE  file'[i].revision <= lastRevision'[p][file'[i].run]
                 \/ (writing'[p] # Nothing /\ i = Len(file'))
      <4>1. CASE i \in 1..Len(file)
        BY <1>3, <1>5, <1>7, <3>1, <4>1
      <4>2. CASE i = Len(file) + 1
        BY <2>2, <3>1, <4>2
      <4>3. QED
        BY <1>3, <1>5, <3>2, <4>1, <4>2
    <3>3. QED
      BY <3>2 DEF Remembers
  <2>4. durable' < Len(file') /\ file'[Len(file')] = record
    BY <1>3, <1>5 DEF WriteLine, JournalIInv, JournalTypeOK
  <2>5. QED
    BY <1>2, <2>1, <2>2, <2>3, <2>4 DEF WriterOK, WriteLine, JournalIInv
<1>12. FileOK'
  <2>1. Len(file') <= MaxRecords
    BY <1>2, <1>3, <1>5 DEF JournalAssumption
  <2>2. ASSUME NEW i \in DOMAIN file', NEW j \in DOMAIN file', i < j, file'[i].run = file'[j].run
        PROVE  file'[i].revision < file'[j].revision
    <3>1. CASE j <= Len(file)
      BY <1>3, <1>5, <2>2, <3>1 DEF JournalIInv, FileOK, InOrder
    <3>2. CASE j = Len(file) + 1
      <4>1. i \in DOMAIN file /\ file'[i] = file[i] /\ file'[j] = record
        BY <1>3, <1>5, <2>2, <3>2
      <4>2. /\ record.revision > lastRevision[p][record.run]
            /\ file[i].revision <= lastRevision[p][record.run]
        BY <1>2, <1>7, <2>2, <4>1
      <4>3. record.revision \in Nat /\ record.run \in Run /\ file[i].revision \in Nat
        BY <1>1, <1>7, <4>1 DEF JournalRecord
      <4>4. lastRevision[p][record.run] \in Nat
        BY <4>3 DEF JournalIInv, JournalTypeOK, JournalAssumption
      <4>5. QED
        BY <4>1, <4>2, <4>3, <4>4
    <3>3. QED
      BY <1>3, <1>5, <3>1, <3>2
  <2>3. QED
    BY <2>1, <2>2 DEF FileOK, InOrder
<1>13. QED
  BY <1>8, <1>9, <1>10, <1>11, <1>12 DEF JournalIInv

LEMMA WriteFailsKeeps ==
  ASSUME JournalAssumption, NoRecordAssumption, JournalIInv, NEW p \in Process,
         NEW tears \in BOOLEAN, WriteFails(p, tears)
  PROVE  JournalIInv'
<1>1. /\ queue' \in [Process -> Seq(JournalRecord)]
      /\ \A q \in Process : Len(queue'[q]) <= QueueCapacity
      /\ \A q \in Process : \A i \in DOMAIN queue'[q] : queue'[q][i].key = key
      /\ \A q \in Process \ {p} : queue'[q] = queue[q]
  BY TakeIs DEF WriteFails
<1>2. mode[p] \in Opened /\ writing[p] = Nothing /\ ~poisoned[p]
  BY DEF WriteFails, CanTake, Accepted, Opened
<1>3. poisoned'[p] /\ \A q \in Process \ {p} : poisoned'[q] = poisoned[q]
  BY DEF WriteFails, JournalIInv, JournalTypeOK
<1>4. \A q \in Process : mode[q] # "closed" => q = p
  BY <1>2 DEF JournalIInv, OwnerOK, Opened
<1>5. JournalTypeOK'
  BY <1>1 DEF JournalIInv, JournalTypeOK, WriteFails, keyVars
<1>6. OwnerOK'
  BY <1>1, <1>2, <1>3 DEF JournalIInv, OwnerOK, WriteFails
<1>7. KeyOK'
  BY <1>1, <1>2, <1>4 DEF JournalIInv, KeyOK, HasHistory, WriteFails, keyVars, Opened
<1>8. WriterOK'
  BY <1>2, <1>3, <1>4 DEF JournalIInv, WriterOK, WriteFails, Opened
<1>9. FileOK'
  BY DEF JournalIInv, FileOK, WriteFails
<1>10. QED
  BY <1>5, <1>6, <1>7, <1>8, <1>9 DEF JournalIInv

LEMMA SyncedKeeps ==
  ASSUME JournalAssumption, NoRecordAssumption, JournalIInv, NEW p \in Process, Synced(p)
  PROVE  JournalIInv'
<1> DEFINE record == writing[p]
<1>1. mode[p] \in Opened /\ ~poisoned[p] /\ record # Nothing
  BY DEF Synced, JournalIInv, OwnerOK, WriterOK
<1>2. /\ record \in JournalRecord /\ durable < Len(file) /\ file[Len(file)] = record
      /\ record.revision > lastRevision[p][record.run] /\ Remembers(p) /\ ~torn
  BY <1>1 DEF JournalIInv, JournalTypeOK, WriterOK
<1>3. \A q \in Process : mode[q] # "closed" => q = p
  BY <1>1 DEF JournalIInv, OwnerOK, Opened
<1>4. file \in Seq(JournalRecord) /\ Len(file) \in Nat /\ DOMAIN file = 1..Len(file)
      /\ \A i \in DOMAIN file : file[i] \in JournalRecord
  BY LenProperties, ElementOfSeq DEF JournalIInv, JournalTypeOK
<1>5. /\ lastRevision' = [lastRevision EXCEPT ![p] = [@ EXCEPT ![record.run] = record.revision]]
      /\ writing' = [writing EXCEPT ![p] = Nothing] /\ durable' = Len(file)
      /\ acked' = acked \cup {record}
      /\ UNCHANGED <<file, torn, keyVars, owner, mode, queue, poisoned>>
  BY DEF Synced
<1>6. /\ lastRevision[p] \in [Run -> 0..MaxRevision]
      /\ lastRevision'[p] = [lastRevision[p] EXCEPT ![record.run] = record.revision]
      /\ \A q \in Process \ {p} : writing'[q] = writing[q] /\ lastRevision'[q] = lastRevision[q]
      /\ writing'[p] = Nothing
  BY <1>5 DEF JournalIInv, JournalTypeOK
<1> HIDE DEF record
<1>7. JournalTypeOK'
  <2>1. record.run \in Run /\ record.revision \in 0..MaxRevision
    BY <1>2 DEF JournalRecord, JournalAssumption
  <2>2. [lastRevision[p] EXCEPT ![record.run] = record.revision] \in [Run -> 0..MaxRevision]
    BY <1>6, <2>1
  <2>3. lastRevision' \in [Process -> [Run -> 0..MaxRevision]]
    BY <1>5, <2>2 DEF JournalIInv, JournalTypeOK
  <2>4. writing' \in [Process -> JournalRecord \cup {Nothing}] /\ durable' \in 0..Len(file')
    BY <1>4, <1>5 DEF JournalIInv, JournalTypeOK
  <2>5. QED
    BY <1>2, <1>5, <2>3, <2>4 DEF JournalIInv, JournalTypeOK, keyVars
<1>8. OwnerOK'
  BY <1>1, <1>5, <1>6 DEF JournalIInv, OwnerOK
<1>9. KeyOK'
  BY <1>5 DEF JournalIInv, KeyOK, HasHistory, keyVars
<1>10. WriterOK'
  <2>1. Remembers(p)'
    <3>1. ASSUME NEW i \in DOMAIN file PROVE file[i].revision <= lastRevision'[p][file[i].run]
      <4>1. file[i].run \in Run /\ file[i].revision \in Nat /\ record.run \in Run
            /\ record.revision \in Nat /\ lastRevision[p][file[i].run] \in Nat
        BY <1>2, <1>4, <1>6 DEF JournalRecord, JournalAssumption
      <4>2. lastRevision'[p][file[i].run] =
              IF file[i].run = record.run THEN record.revision ELSE lastRevision[p][file[i].run]
        BY <1>6, <4>1
      <4>3. CASE i = Len(file)
        BY <1>2, <4>1, <4>2, <4>3
      <4>4. CASE i # Len(file)
        BY <1>2, <4>1, <4>2, <4>4 DEF Remembers
      <4>5. QED
        BY <4>3, <4>4
    <3>2. QED
      BY <1>5, <3>1 DEF Remembers
  <2>2. QED
    BY <1>1, <1>2, <1>3, <1>5, <1>6, <2>1 DEF WriterOK, Opened
<1>11. FileOK'
  BY <1>5 DEF JournalIInv, FileOK
<1>12. QED
  BY <1>7, <1>8, <1>9, <1>10, <1>11 DEF JournalIInv

LEMMA SyncFailsKeeps ==
  ASSUME JournalAssumption, NoRecordAssumption, JournalIInv, NEW p \in Process, SyncFails(p)
  PROVE  JournalIInv'
<1>1. mode[p] \in Opened
  BY DEF SyncFails, JournalIInv, OwnerOK
<1>2. /\ poisoned'[p] /\ writing'[p] = Nothing
      /\ \A q \in Process \ {p} : poisoned'[q] = poisoned[q] /\ writing'[q] = writing[q]
  BY DEF SyncFails, JournalIInv, JournalTypeOK
<1>3. JournalTypeOK'
  BY DEF JournalIInv, JournalTypeOK, SyncFails, fileVars, keyVars
<1>4. OwnerOK'
  BY <1>1, <1>2 DEF JournalIInv, OwnerOK, SyncFails
<1>5. KeyOK'
  BY DEF JournalIInv, KeyOK, HasHistory, SyncFails, fileVars, keyVars
<1>6. WriterOK'
  BY <1>2 DEF JournalIInv, WriterOK, Remembers, SyncFails, fileVars
<1>7. FileOK'
  BY DEF JournalIInv, FileOK, SyncFails, fileVars
<1>8. QED
  BY <1>3, <1>4, <1>5, <1>6, <1>7 DEF JournalIInv

LEMMA CloseKeeps ==
  ASSUME JournalAssumption, NoRecordAssumption, JournalIInv, NEW p \in Process, Close(p)
  PROVE  JournalIInv'
<1>1. JournalTypeOK'
  BY DEF JournalIInv, JournalTypeOK, Close, fileVars, keyVars, writer, Mode
<1>2. OwnerOK'
  BY DEF JournalIInv, JournalTypeOK, OwnerOK, Close, writer, Opened
<1>3. KeyOK'
  BY DEF JournalIInv, JournalTypeOK, KeyOK, HasHistory, Close, fileVars, keyVars, writer, Opened
<1>4. WriterOK'
  BY DEF JournalIInv, JournalTypeOK, WriterOK, Remembers, Close, fileVars, writer, Opened
<1>5. FileOK'
  BY DEF JournalIInv, FileOK, Close, fileVars
<1>6. QED
  BY <1>1, <1>2, <1>3, <1>4, <1>5 DEF JournalIInv

(* Power loss cuts the file, at the synced lines at the earliest.          *)
LEMMA PowerLossIs ==
  ASSUME JournalIInv, PowerLoss
  PROVE  \E n \in durable..Len(file) :
           /\ file' \in Seq(JournalRecord) /\ Len(file') = n /\ n <= Len(file)
           /\ \A i \in 1..n : file'[i] = file[i]
           /\ torn' = TRUE => torn \/ n < Len(file)
           /\ torn' \in BOOLEAN
<1>1. file \in Seq(JournalRecord) /\ Len(file) \in Nat /\ DOMAIN file = 1..Len(file)
      /\ durable \in 0..Len(file) /\ torn \in BOOLEAN
  BY LenProperties DEF JournalIInv, JournalTypeOK
<1>2. PICK n \in durable..Len(file) :
        file' = SubSeq(file, 1, n) /\ torn' \in {torn, torn \/ n < Len(file)}
  BY DEF PowerLoss
<1>3. \A i \in 1..n : file[i] \in JournalRecord
  BY <1>1, ElementOfSeq
<1>4. /\ file' \in Seq(JournalRecord) /\ Len(file') = n
      /\ \A i \in 1..n : file'[i] = file[i]
  BY <1>1, <1>2, <1>3, SubSeqProperties
<1>5. torn' \in BOOLEAN /\ (torn' = TRUE => torn \/ n < Len(file)) /\ n <= Len(file)
  <2> DEFINE cut == n < Len(file)
  <2>1. cut \in BOOLEAN /\ n <= Len(file)
    BY <1>1, <1>2
  <2>2. torn' \in {torn, torn \/ cut}
    BY <1>2
  <2> HIDE DEF cut
  <2>3. torn' \in BOOLEAN /\ (torn' = TRUE => torn \/ cut)
    BY <1>1, <2>1, <2>2, Zenon
  <2>4. QED
    BY <2>1, <2>3 DEF cut
<1>6. QED
  BY <1>4, <1>5

LEMMA PowerLossKeeps ==
  ASSUME JournalAssumption, NoRecordAssumption, JournalIInv, PowerLoss
  PROVE  JournalIInv'
<1>1. PICK n \in durable..Len(file) :
        /\ file' \in Seq(JournalRecord) /\ Len(file') = n /\ n <= Len(file)
        /\ \A i \in 1..n : file'[i] = file[i]
        /\ torn' = TRUE => torn \/ n < Len(file)
        /\ torn' \in BOOLEAN
  BY PowerLossIs
<1>2. /\ DOMAIN file = 1..Len(file) /\ DOMAIN file' = 1..n /\ Len(file) \in Nat /\ n \in Nat
      /\ durable \in Nat /\ durable <= n
  BY <1>1, LenProperties DEF JournalIInv, JournalTypeOK
<1>3. Forget(Process) /\ UNCHANGED <<durable, key, keySafe>>
      /\ keyFile' \in {keyFile, IF keySafe THEN keyFile ELSE "absent"}
  BY DEF PowerLoss
<1>4. \A p \in Process : /\ mode'[p] = "closed" /\ queue'[p] = <<>> /\ writing'[p] = Nothing
                         /\ ~poisoned'[p] /\ owner' # p
  BY <1>3, ForgetIs DEF JournalIInv
<1>5. JournalTypeOK'
  <2>1. durable' \in 0..Len(file')
    BY <1>1, <1>2, <1>3
  <2>2. QED
    BY <1>1, <1>3, <2>1, ForgetIs DEF JournalIInv, JournalTypeOK
<1>6. OwnerOK'
  BY <1>4 DEF OwnerOK
<1>7. KeyOK'
  <2>1. HasHistory' => HasHistory
    <3>1. n > 0 \/ n < Len(file) => file # <<>>
      BY <1>2, EmptySeq
    <3>2. file' # <<>> => n > 0
      BY <1>1, <1>2, EmptySeq
    <3>3. QED
      BY <1>1, <3>1, <3>2 DEF HasHistory
  <2>2. \A i \in DOMAIN file' : file'[i].key = key'
    BY <1>1, <1>2, <1>3 DEF JournalIInv, KeyOK
  <2>3. \A p \in Process : DOMAIN queue'[p] = {}
    BY <1>4, EmptySeq
  <2>4. QED
    BY <1>3, <1>4, <2>1, <2>2, <2>3 DEF JournalIInv, KeyOK, Opened
<1>8. WriterOK'
  BY <1>4 DEF WriterOK, Opened
<1>9. FileOK'
  BY <1>1, <1>2, JournalAssumption DEF JournalIInv, FileOK, InOrder, JournalAssumption
<1>10. QED
  BY <1>5, <1>6, <1>7, <1>8, <1>9 DEF JournalIInv

LEMMA NextJournalIInv ==
  ASSUME JournalAssumption, NoRecordAssumption, JournalIInv, [JournalNext]_logVars
  PROVE  JournalIInv'
<1>1. CASE UNCHANGED logVars
  <2>1. UNCHANGED <<file, torn, durable, keyFile, key, keySafe, owner, mode, queue, writing,
                    poisoned, lastRevision, acked>>
    BY <1>1 DEF logVars, fileVars, keyVars, writer
  <2>2. JournalTypeOK' /\ OwnerOK' /\ FileOK'
    BY <2>1 DEF JournalIInv, JournalTypeOK, OwnerOK, FileOK
  <2>3. KeyOK' /\ WriterOK'
    BY <2>1 DEF JournalIInv, KeyOK, HasHistory, WriterOK, Remembers
  <2>4. QED
    BY <2>2, <2>3 DEF JournalIInv
<1>2. ASSUME NEW p \in Process, OpenFails(p) \/ Closed(p) \/ Kill(p) PROVE JournalIInv'
  <2>1. {p} \in SUBSET Process /\ Forget({p}) /\ UNCHANGED <<fileVars, keyVars>>
    BY <1>2 DEF OpenFails, Closed, Kill
  <2>2. QED
    BY <2>1, ForgetKeeps
<1>3. ASSUME NEW p \in Process, Opening(p) PROVE JournalIInv'
  BY <1>2, <1>3, TryLockKeeps, CreateKeyFileKeeps, FillKeyFileKeeps, OpenKeeps DEF Opening
<1>4. ASSUME NEW p \in Process, Writer(p) PROVE JournalIInv'
  BY <1>4, RejectKeeps, WriteLineKeeps, WriteFailsKeeps, SyncedKeeps, SyncFailsKeeps DEF Writer
<1>5. QED
  BY <1>1, <1>2, <1>3, <1>4, SubmitAppendKeeps, CloseKeeps, PowerLossKeeps DEF JournalNext

-----------------------------------------------------------------------------
(* The theorems                                                            *)

(* For any number of processes, runs and records, through any crash.       *)
THEOREM JournalInvariance == JournalSpec => []JournalIInv
<1>1. JournalInit => JournalIInv
  BY InitJournalIInv, JournalAssumption, NoRecordAssumption
<1>2. JournalIInv /\ [JournalNext]_logVars => JournalIInv'
  BY NextJournalIInv, JournalAssumption, NoRecordAssumption
<1>3. QED
  BY <1>1, <1>2, PTL DEF JournalSpec

(* A torn line apart, the next open accepts the file: its order, its       *)
(* length and its key (read_history, validate_sequence, private_key).      *)
THEOREM NextOpenCanRead == JournalSpec => []HistoryIsReadable
<1>1. JournalIInv => HistoryIsReadable
  <2>1. ASSUME JournalIInv, NEW i \in DOMAIN file PROVE keyFile = "whole" /\ file[i].key = key
    <3>1. file # <<>>
      BY <2>1, EmptySeq
    <3>2. QED
      BY <2>1, <3>1 DEF JournalIInv, KeyOK, HasHistory
  <2>2. QED
    BY <2>1 DEF JournalIInv, FileOK, HistoryIsReadable
<1>2. QED
  BY <1>1, JournalInvariance, PTL

(* Only one process at a time has the file open (OwnerLock).               *)
THEOREM OneWriter == JournalSpec => [](\A p, q \in Process : mode[p] # "closed" /\ mode[q] # "closed" => p = q)
<1>1. JournalIInv => \A p, q \in Process : mode[p] # "closed" /\ mode[q] # "closed" => p = q
  BY DEF JournalIInv, OwnerOK
<1>2. QED
  BY <1>1, JournalInvariance, PTL

-----------------------------------------------------------------------------
(* The journal implements the abstract log                                 *)

(* What is synced stays as it is if the file keeps those lines.            *)
LEMMA SyncedLinesStay ==
  ASSUME JournalTypeOK, JournalTypeOK', durable' = durable,
         \A i \in 1..durable : file'[i] = file[i]
  PROVE  SubSeq(file, 1, durable)' = SubSeq(file, 1, durable)
<1>1. /\ \A i \in 1..durable : file[i] \in JournalRecord /\ file'[i] \in JournalRecord
      /\ durable \in Nat
  BY ElementOfSeq, LenProperties DEF JournalTypeOK
<1> DEFINE old == SubSeq(file, 1, durable)
           new == SubSeq(file', 1, durable)
<1>2. /\ old \in Seq(JournalRecord) /\ Len(old) = durable
      /\ \A i \in 1..durable : old[i] = file[i]
  BY <1>1, SubSeqProperties
<1>3. /\ new \in Seq(JournalRecord) /\ Len(new) = durable
      /\ \A i \in 1..durable : new[i] = file'[i]
  BY <1>1, SubSeqProperties
<1> HIDE DEF old, new
<1>4. new = old
  BY <1>2, <1>3, SeqEqual
<1>5. QED
  BY <1>4 DEF old, new

(* Every action but the one that acknowledges.                             *)
LEMMA OthersStutter ==
  ASSUME JournalIInv, JournalIInv', [JournalNext]_logVars, \A p \in Process : ~Synced(p)
  PROVE  UNCHANGED <<SubSeq(file, 1, durable), acked>>
<1>1. file \in Seq(JournalRecord) /\ durable \in 0..Len(file) /\ DOMAIN file = 1..Len(file)
      /\ Len(file) \in Nat
  BY LenProperties DEF JournalIInv, JournalTypeOK
<1>2. durable' = durable /\ acked' = acked /\ \A i \in 1..durable : file'[i] = file[i]
  <2>1. CASE UNCHANGED <<file, durable, acked>>
    BY <2>1
  <2>2. CASE PowerLoss
    BY <1>1, <2>2, PowerLossIs DEF PowerLoss, Forget
  <2>3. ASSUME NEW p \in Process, WriteLine(p)
        PROVE  durable' = durable /\ acked' = acked /\ \A i \in 1..durable : file'[i] = file[i]
    <3>1. Head(queue[p]) \in JournalRecord
      BY <2>3, TakeIs DEF WriteLine
    <3>2. file' = file \/ file' = Append(file, Head(queue[p]))
      BY <2>3 DEF WriteLine, Lines
    <3>3. \A i \in 1..Len(file) : file'[i] = file[i]
      BY <1>1, <3>1, <3>2, AppendProperties
    <3>4. QED
      BY <1>1, <2>3, <3>3 DEF WriteLine
  <2>4. ASSUME NEW p \in Process, OpenFails(p) \/ Closed(p) \/ Kill(p) \/ Close(p)
        PROVE  UNCHANGED <<file, durable, acked>>
    BY <2>4 DEF OpenFails, Closed, Kill, Close, Forget, fileVars
  <2>5. ASSUME NEW p \in Process, TryLock(p) \/ CreateKeyFile(p) \/ FillKeyFile(p) \/ Open(p)
        PROVE  UNCHANGED <<file, durable, acked>>
    BY <2>5 DEF TryLock, CreateKeyFile, FillKeyFile, Open, fileVars
  <2>6. ASSUME NEW p \in Process,
               \/ Reject(p) \/ SyncFails(p) \/ \E tears \in BOOLEAN : WriteFails(p, tears)
               \/ \E run \in Run, revision \in 1..MaxRevision : SubmitAppend(p, run, revision)
        PROVE  UNCHANGED <<file, durable, acked>>
    BY <2>6 DEF Reject, SyncFails, WriteFails, SubmitAppend, fileVars
  <2>7. CASE UNCHANGED logVars
    BY <2>7 DEF logVars, fileVars
  <2>8. QED
    BY <2>1, <2>2, <2>3, <2>4, <2>5, <2>6, <2>7 DEF JournalNext, Opening, Writer
<1>3. QED
  BY <1>2, SyncedLinesStay DEF JournalIInv

(* The sync before the acknowledgement makes the record durable, with      *)
(* whatever an earlier process wrote before it and did not sync.           *)
LEMMA SyncedMaps ==
  ASSUME JournalIInv, JournalIInv', NEW p \in Process, Synced(p)
  PROVE  Log!Next
<1>1. PICK r \in JournalRecord : r = writing[p]
  BY DEF JournalIInv, JournalTypeOK, Synced
<1>2. /\ file' = file /\ durable' = Len(file) /\ acked' = acked \cup {r}
  BY <1>1 DEF Synced
<1>3. durable < Len(file) /\ file[Len(file)] = r
  BY <1>1 DEF Synced, JournalIInv, WriterOK, OwnerOK
<1>4. /\ file \in Seq(JournalRecord) /\ Len(file) \in Nat /\ durable \in Nat
      /\ DOMAIN file = 1..Len(file) /\ \A i \in 1..Len(file) : file[i] \in JournalRecord
  BY LenProperties, ElementOfSeq DEF JournalIInv, JournalTypeOK
<1> DEFINE old == SubSeq(file, 1, durable)
           new == SubSeq(file', 1, durable')
<1>5. /\ old \in Seq(JournalRecord) /\ Len(old) = durable
      /\ \A i \in 1..durable : old[i] = file[i]
  BY <1>3, <1>4, SubSeqProperties
<1>6. /\ new \in Seq(JournalRecord) /\ Len(new) = Len(file)
      /\ \A i \in 1..Len(file) : new[i] = file[i]
  BY <1>2, <1>4, SubSeqProperties
<1> HIDE DEF old, new
<1>7. DOMAIN old = 1..durable /\ DOMAIN new = 1..Len(file)
  BY <1>5, <1>6, LenProperties
<1>8. Log!Extend
  <2>1. Len(new) > Len(old) /\ \A i \in DOMAIN old : new[i] = old[i]
    BY <1>3, <1>4, <1>5, <1>6, <1>7
  <2>2. Log!InOrder(new)
    BY <1>4, <1>6, <1>7 DEF JournalIInv, FileOK, InOrder, Log!InOrder
  <2>3. QED
    BY <1>6, <2>1, <2>2 DEF Log!Extend, old, new
<1>9. Log!Acknowledge
  <2>1. Len(file) \in DOMAIN new /\ new[Len(file)] = r
    BY <1>3, <1>4, <1>6, <1>7
  <2>2. Log!Present(r)'
    BY <2>1 DEF Log!Present, new
  <2>3. QED
    BY <1>1, <1>2, <2>2 DEF Log!Acknowledge
<1>10. QED
  BY <1>8, <1>9 DEF Log!Next

(* What was acknowledged is and stays among the synced lines, in the order *)
(* of its revisions, for any number of processes and crashes               *)
(* (write_durable before ack.send).                                        *)
THEOREM JournalImplementsLog == JournalSpec => ImplementsDurableLog
<1>1. JournalInit => Log!Init
  <2>1. SubSeq(<<>>, 1, 0) = <<>>
    BY SubSeqEmpty
  <2>2. QED
    BY <2>1 DEF JournalInit, Log!Init
<1>2. JournalIInv /\ JournalIInv' /\ [JournalNext]_logVars => [Log!Next]_(Log!vars)
  <2>1. ASSUME JournalIInv, JournalIInv', [JournalNext]_logVars, NEW p \in Process, Synced(p)
        PROVE  [Log!Next]_(Log!vars)
    BY <2>1, SyncedMaps
  <2>2. ASSUME JournalIInv, JournalIInv', [JournalNext]_logVars, \A p \in Process : ~Synced(p)
        PROVE  [Log!Next]_(Log!vars)
    BY <2>2, OthersStutter DEF Log!vars
  <2>3. QED
    BY <2>1, <2>2
<1>3. QED
  BY <1>1, <1>2, JournalInvariance, PTL DEF JournalSpec, Log!Spec, ImplementsDurableLog

-----------------------------------------------------------------------------
(* Dispatcher: the step in the page                                        *)

Places == {"none", "focusing", "inputting", "interacting", "awaiting", "replied"}
Codes == {"none", "pending", "outcome_unknown", "observation_failed", "run_key_conflict",
          "target_not_found", "ambiguous_target", "not_actionable", "target_changed",
          "execution_failed"}
Results == [ok: BOOLEAN, dispatched: BOOLEAN, code: Codes]

DispatchTypeOK ==
  /\ op \in Ops /\ cache \in Results
  /\ reached \in [Packet -> Places] /\ replies \in [Packet -> Results]
  /\ done \in [Packet -> Nat]

(* Packet p does not carry the step out: it has not come, or was refused,  *)
(* or was told what is known.                                              *)
Aside(p) == reached[p] \in {"none", "replied"} /\ done[p] = 0

(* Packet c does, and nobody else; what is known of the step until it is   *)
(* over is that it may have happened.                                      *)
CarriedBy(c) ==
  /\ op # "query"
  /\ \A p \in Packet \ {c} : Aside(p)
  /\ reached[c] # "none"
  /\ stack = IF reached[c] \in Handling THEN <<c>> ELSE <<>>
  /\ reached[c] \in {"focusing", "inputting"} => done[c] = 0
  /\ reached[c] \in {"interacting", "awaiting"} => done[c] = 1
  /\ done[c] <= 1
  /\ reached[c] # "replied" => cache = Unknown
  /\ cache.dispatched /\ cache.code # "target_not_found"
  /\ cache.ok => done[c] = 1

CarrierOK ==
  IF cache = NoReport THEN stack = <<>> /\ \A p \in Packet : Aside(p)
                      ELSE \E c \in Packet : CarriedBy(c)

DispatchIInv == DispatchTypeOK /\ CarrierOK /\ ~astray

-----------------------------------------------------------------------------
LEMMA ResultsTyped ==
  /\ Unknown \in Results /\ Fine \in Results /\ NoReport \in Results
  /\ [Fine EXCEPT !.dispatched = FALSE] \in Results
  /\ \A code \in Codes, d \in BOOLEAN : Failed(code, d) \in Results
  /\ Unknown # NoReport /\ Unknown.dispatched /\ ~Unknown.ok
  /\ Unknown.code = "outcome_unknown"
<1>1. Unknown \in Results /\ Fine \in Results /\ NoReport \in Results
  BY DEF Unknown, Fine, NoReport, Results, Codes
<1>2. [Fine EXCEPT !.dispatched = FALSE] \in Results
  BY <1>1 DEF Results
<1>3. \A code \in Codes, d \in BOOLEAN : Failed(code, d) \in Results
  BY DEF Failed, Results
<1>4. /\ Unknown.dispatched /\ ~Unknown.ok /\ Unknown.code = "outcome_unknown"
      /\ NoReport.code = "pending"
  BY DEF Unknown, NoReport
<1> QED BY <1>1, <1>2, <1>3, <1>4

LEMMA ReplyGiven ==
  ASSUME DispatchTypeOK, NEW p \in Packet, NEW r, Reply(p, r)
  PROVE  replies'[p] = r
BY DEF Reply, DispatchTypeOK

LEMMA StackOfOne == ASSUME NEW c PROVE Last(<<c>>) = c /\ Front(<<c>>) = <<>> /\ <<c>> # <<>>
<1>1. Last(<<c>>) = c /\ <<c>> # <<>>
  BY DEF Last
<1>2. Front(<<c>>) = SubSeq(<<c>>, 1, 0)
  BY DEF Front
<1>3. <<c>> \in Seq({c})
  OBVIOUS
<1>4. SubSeq(<<c>>, 1, 0) = <<>>
  BY <1>3
<1> QED BY <1>1, <1>2, <1>4

LEMMA InitDispatcher == DispatcherInit => DispatchIInv
<1> SUFFICES ASSUME DispatcherInit PROVE DispatchIInv
  OBVIOUS
<1>1. DispatchTypeOK
  BY ResultsTyped DEF DispatcherInit, DispatchTypeOK, Places
<1>2. CarrierOK /\ ~astray
  BY DEF DispatcherInit, CarrierOK, Aside
<1> QED BY <1>1, <1>2 DEF DispatchIInv

(* A packet that carries the step out is the one that all others are not.  *)
LEMMA CarrierIs ==
  ASSUME DispatchIInv, NEW p \in Packet, reached[p] \notin {"none", "replied"}
  PROVE  CarriedBy(p) /\ cache # NoReport /\ cache = Unknown
<1>1. cache # NoReport
  BY DEF DispatchIInv, CarrierOK, Aside
<1>2. PICK c \in Packet : CarriedBy(c)
  BY <1>1 DEF DispatchIInv, CarrierOK
<1>3. c = p
  BY <1>2 DEF CarriedBy, Aside
<1> QED BY <1>1, <1>2, <1>3 DEF CarriedBy

(* How often it interacted is how often its carrier did.                   *)
LEMMA HappenedIs ==
  ASSUME DispatchIInv
  PROVE  /\ Happened \in {0, 1}
         /\ cache = NoReport => Happened = 0
         /\ \A c \in Packet : CarriedBy(c) /\ done[c] = 1 => Happened = 1
<1>1. CASE cache = NoReport
  <2>1. {p \in Packet : done[p] > 0} = {}
    BY <1>1 DEF DispatchIInv, CarrierOK, Aside
  <2>2. Happened = 0
    BY <2>1, FS_EmptySet DEF Happened
  <2>3. ASSUME NEW c \in Packet, done[c] = 1 PROVE FALSE
    BY <1>1, <2>3 DEF DispatchIInv, CarrierOK, Aside
  <2> QED BY <2>2, <2>3
<1>2. CASE cache # NoReport
  <2>1. PICK c \in Packet : CarriedBy(c)
    BY <1>2 DEF DispatchIInv, CarrierOK
  <2>2. \A p \in Packet \ {c} : done[p] = 0
    BY <2>1 DEF CarriedBy, Aside
  <2>3. CASE done[c] = 1
    <3>1. {p \in Packet : done[p] > 0} = {c}
      BY <2>2, <2>3
    <3>2. Happened = 1
      BY <3>1, FS_Singleton DEF Happened
    <3> QED BY <1>2, <3>2
  <2>4. CASE done[c] # 1
    <3>1. done[c] = 0
      BY <2>1, <2>4 DEF CarriedBy, DispatchIInv, DispatchTypeOK
    <3>2. {p \in Packet : done[p] > 0} = {}
      BY <2>2, <3>1
    <3>3. Happened = 0
      BY <3>2, FS_EmptySet DEF Happened
    <3>4. \A p \in Packet : done[p] # 1
      BY <2>2, <3>1
    <3> QED BY <1>2, <3>3, <3>4
  <2> QED BY <2>3, <2>4
<1> QED BY <1>1, <1>2

(* What a packet replies is true of the step.                              *)
Truthful(p, r) ==
  /\ ~r.dispatched => done[p] = 0
  /\ r.ok /\ op # "query" => Happened = 1
  /\ r.code = "target_not_found" => Happened = 0

(* Only packet p comes further, if any.                                    *)
Alone(p) == \A q \in Packet \ {p} : reached'[q] = reached[q] /\ replies'[q] = replies[q]

LEMMA EnterReplies ==
  ASSUME DispatchIInv, NEW p \in Packet, Enter(p), reached'[p] = "replied"
  PROVE  DispatchIInv' /\ Alone(p) /\ Truthful(p, replies'[p])
<1> USE DEF DispatchIInv
<1> HIDE DEF Happened
<1>1. PICK r : Reply(p, r)
  <2>1. ASSUME reached' = [reached EXCEPT ![p] = "focusing"] PROVE FALSE
    BY <2>1 DEF DispatchTypeOK
  <2> QED BY <2>1 DEF Enter
<1>2. /\ reached[p] = "none"
      /\ UNCHANGED <<op, observing, changes, done, astray, document, cache, element, stack>>
  BY <1>1 DEF Enter, Reply
<1>3. r \in Results /\ Truthful(p, r)
  <2>1. /\ replies' = [replies EXCEPT ![p] = r] /\ replies'[p] = r
    BY <1>1 DEF Reply, DispatchTypeOK
  <2>2. done[p] = 0
    <3>1. CASE cache = NoReport
      BY <3>1 DEF CarrierOK, Aside
    <3>2. CASE cache # NoReport
      BY <1>2, <3>2 DEF CarrierOK, CarriedBy, Aside
    <3> QED BY <3>1, <3>2
  <2>3. CASE observing # "active"
    <3>1. r = Failed("observation_failed", FALSE)
      BY <2>1, <2>3, ReplyGiven DEF Enter
    <3> QED BY <2>2, <3>1, ResultsTyped DEF Truthful, Failed, Codes
  <2>4. CASE observing = "active" /\ cache # NoReport
    <3>1. r = IF p \in Conflicting THEN Failed("run_key_conflict", FALSE) ELSE cache
      BY <2>1, <2>4, ReplyGiven DEF Enter
    <3>2. PICK c \in Packet : CarriedBy(c)
      BY <2>4 DEF CarrierOK
    <3>3. cache.ok => Happened = 1
      BY <3>2, HappenedIs DEF CarriedBy
    <3>4. Truthful(p, cache)
      BY <2>2, <3>2, <3>3 DEF Truthful, CarriedBy
    <3> QED BY <2>2, <3>1, <3>4, ResultsTyped DEF Truthful, Failed, Codes, DispatchTypeOK
  <2>5. CASE observing = "active" /\ cache = NoReport
    <3>1. Happened = 0
      BY <2>5, HappenedIs
    <3>2. \/ Refusal # "none" /\ r = Failed(Refusal, FALSE)
          \/ op = "query" /\ r = [Fine EXCEPT !.dispatched = FALSE]
      <4>1. ~(reached' = [reached EXCEPT ![p] = "focusing"])
        BY DEF DispatchTypeOK
      <4> QED BY <2>1, <2>5, <4>1, ReplyGiven DEF Enter
    <3>3. Refusal \in Codes
      BY DEF Refusal, Codes
    <3>4. CASE r = Failed(Refusal, FALSE)
      BY <2>2, <3>1, <3>3, <3>4, ResultsTyped DEF Truthful, Failed, Codes
    <3>5. CASE op = "query" /\ r = [Fine EXCEPT !.dispatched = FALSE]
      BY <2>2, <3>1, <3>5, ResultsTyped DEF Truthful, Fine
    <3> QED BY <3>2, <3>4, <3>5
  <2> QED BY <2>3, <2>4, <2>5
<1>4. replies' = [replies EXCEPT ![p] = r] /\ reached' = [reached EXCEPT ![p] = "replied"]
  BY <1>1 DEF Reply
<1>5. Alone(p) /\ replies'[p] = r
  BY <1>4 DEF Alone, DispatchTypeOK
<1>6. DispatchTypeOK'
  BY <1>2, <1>3, <1>4 DEF DispatchTypeOK, Places
<1>7. CarrierOK'
  <2>1. \A q \in Packet : Aside(q) => Aside(q)'
    BY <1>2, <1>4 DEF Aside, DispatchTypeOK
  <2>2. CASE cache = NoReport
    BY <1>2, <2>1, <2>2 DEF CarrierOK
  <2>3. CASE cache # NoReport
    <3>1. PICK c \in Packet : CarriedBy(c)
      BY <2>3 DEF CarrierOK
    <3>2. c # p
      BY <1>2, <3>1 DEF CarriedBy
    <3>3. CarriedBy(c)'
      BY <1>2, <1>4, <2>1, <3>1, <3>2 DEF CarriedBy, DispatchTypeOK
    <3> QED BY <1>2, <2>3, <3>3 DEF CarrierOK
  <2> QED BY <2>2, <2>3
<1> QED BY <1>2, <1>3, <1>5, <1>6, <1>7

(* The packet that reserves the step carries it from then on.              *)
LEMMA EnterKeeps ==
  ASSUME DispatchIInv, NEW p \in Packet, Enter(p), reached'[p] # "replied"
  PROVE  DispatchIInv' /\ Alone(p)
<1> USE DEF DispatchIInv
<1>1. /\ reached[p] = "none" /\ cache = NoReport /\ op # "query"
      /\ cache' = Unknown
      /\ reached' = [reached EXCEPT ![p] = "focusing"]
      /\ stack' = Append(stack, p)
      /\ UNCHANGED <<replies, op, observing, changes, done, astray>>
  <2>1. ASSUME NEW r, Reply(p, r) PROVE FALSE
    BY <2>1 DEF Reply, DispatchTypeOK
  <2> QED BY <2>1 DEF Enter, Reserved
<1>2. stack = <<>> /\ \A q \in Packet : Aside(q)
  BY <1>1 DEF CarrierOK
<1>3. stack' = <<p>>
  BY <1>1, <1>2
<1>4. DispatchTypeOK'
  BY <1>1, ResultsTyped DEF DispatchTypeOK, Places
<1>5. reached'[p] = "focusing" /\ \A q \in Packet \ {p} : reached'[q] = reached[q]
  BY <1>1 DEF DispatchTypeOK
<1>6. CarriedBy(p)'
  BY <1>1, <1>2, <1>3, <1>5, ResultsTyped DEF CarriedBy, Aside, Handling
<1>7. CarrierOK'
  BY <1>1, <1>6, ResultsTyped DEF CarrierOK
<1>8. Alone(p)
  BY <1>1, <1>5 DEF Alone
<1> QED BY <1>1, <1>4, <1>7, <1>8

(* The carrier ends, and what it tells is known of the step.               *)
LEMMA ConcludeKeeps ==
  ASSUME DispatchIInv, NEW p \in Packet, reached[p] \notin {"none", "replied"},
         NEW r \in Results, r.dispatched, r.code # "target_not_found", r.ok => done[p] = 1,
         Conclude(p, r), UNCHANGED op
  PROVE  DispatchIInv' /\ Alone(p) /\ Truthful(p, replies'[p])
<1> USE DEF DispatchIInv
<1> HIDE DEF Happened
<1>1. CarriedBy(p)
  BY CarrierIs
<1>2. /\ replies' = [replies EXCEPT ![p] = r] /\ cache' = r
      /\ reached' = [reached EXCEPT ![p] = "replied"] /\ stack' = Popped
      /\ UNCHANGED <<done, astray>>
  BY DEF Conclude
<1>3. stack' = <<>>
  <2>1. stack = <<p>> \/ stack = <<>>
    BY <1>1 DEF CarriedBy
  <2> QED BY <1>2, <2>1, StackOfOne DEF Popped
<1>4. /\ replies'[p] = r /\ reached'[p] = "replied"
      /\ \A q \in Packet \ {p} : reached'[q] = reached[q] /\ replies'[q] = replies[q]
  BY <1>2 DEF DispatchTypeOK
<1>5. DispatchTypeOK'
  BY <1>2 DEF DispatchTypeOK, Places
<1>6. CarriedBy(p)'
  BY <1>1, <1>2, <1>3, <1>4 DEF CarriedBy, Aside, Handling
<1>7. r # NoReport
  BY DEF NoReport
<1>8. CarrierOK'
  BY <1>2, <1>6, <1>7 DEF CarrierOK
<1>9. Truthful(p, r)
  BY <1>1, HappenedIs DEF Truthful
<1> QED BY <1>2, <1>4, <1>5, <1>8, <1>9 DEF Alone

(* An interaction is counted where it takes place.                         *)
Counts(p, place) ==
  \/ /\ done' = done
     /\ (reached[p] \in {"focusing", "inputting"}) <=> (place = "inputting")
  \/ /\ done' = [done EXCEPT ![p] = @ + 1]
     /\ place = "interacting" /\ reached[p] \in {"focusing", "inputting"}

(* The carrier goes on, to its interaction or after it.                    *)
LEMMA CarrierGoesOn ==
  ASSUME DispatchIInv, NEW p \in Packet, reached[p] \notin {"none", "replied"},
         NEW place \in {"inputting", "interacting", "awaiting"},
         reached' = [reached EXCEPT ![p] = place],
         stack' = IF place = "awaiting" THEN <<>> ELSE <<p>>,
         Counts(p, place),
         ~astray', UNCHANGED <<op, cache, replies>>
  PROVE  DispatchIInv' /\ Alone(p)
<1> USE DEF DispatchIInv
<1>1. CarriedBy(p) /\ cache = Unknown /\ cache # NoReport
  BY CarrierIs
<1>2. /\ reached'[p] = place
      /\ \A q \in Packet \ {p} : reached'[q] = reached[q] /\ done'[q] = done[q]
  BY DEF DispatchTypeOK, Counts
<1>3. done' \in [Packet -> Nat] /\ done'[p] = IF place = "inputting" THEN 0 ELSE 1
  <2>1. CASE done' = done
    BY <1>1, <2>1 DEF CarriedBy, DispatchTypeOK, Places, Counts
  <2>2. CASE done' # done
    <3>1. done' = [done EXCEPT ![p] = done[p] + 1] /\ place # "inputting" /\ done[p] = 0
      BY <1>1, <2>2 DEF CarriedBy, Counts
    <3> QED BY <3>1 DEF DispatchTypeOK
  <2> QED BY <2>1, <2>2
<1>4. DispatchTypeOK'
  BY <1>3 DEF DispatchTypeOK, Places
<1>5. CarriedBy(p)'
  BY <1>1, <1>2, <1>3, ResultsTyped DEF CarriedBy, Aside, Handling
<1>6. CarrierOK'
  BY <1>1, <1>5 DEF CarrierOK
<1> QED BY <1>2, <1>4, <1>6 DEF Alone

LEMMA FailureIs ==
  ASSUME NEW code \in Codes \ {"target_not_found"}
  PROVE  /\ Failed(code, TRUE) \in Results /\ Failed(code, TRUE).dispatched
         /\ Failed(code, TRUE).code # "target_not_found" /\ ~Failed(code, TRUE).ok
<1>1. Failed(code, TRUE) \in Results
  BY ResultsTyped
<1> QED BY <1>1 DEF Failed

(* A step of the dispatcher, of which only packet p's is about a packet.   *)
Told(p) == reached'[p] = "replied" /\ reached[p] # "replied" => Truthful(p, replies'[p])

LEMMA AfterFocusKeeps ==
  ASSUME DispatchIInv, NEW p \in Packet, AfterFocus(p)
  PROVE  DispatchIInv' /\ Alone(p) /\ Told(p)
<1>1. reached[p] = "focusing" /\ Running(p) /\ UNCHANGED op
  BY DEF AfterFocus
<1>2. stack = <<p>>
  BY <1>1, CarrierIs DEF CarriedBy, Handling
<1>3. CASE \E code \in {"target_changed", "not_actionable"} : Conclude(p, Failed(code, TRUE))
  BY <1>1, <1>3, FailureIs, ConcludeKeeps DEF Codes, Told
<1>4. CASE /\ reached' = [reached EXCEPT ![p] = "inputting"]
           /\ UNCHANGED <<document, cache, replies, stack, done, astray>>
  <2>1. DispatchIInv' /\ Alone(p)
    BY <1>1, <1>2, <1>4, CarrierGoesOn DEF DispatchIInv, Counts
  <2> QED BY <1>4, <2>1 DEF Told, DispatchIInv, DispatchTypeOK
<1>5. CASE Interact(p, document) /\ OnTarget(p) /\ Fit(p)
  <2>1. DispatchIInv' /\ Alone(p)
    BY <1>1, <1>2, <1>5, CarrierGoesOn DEF DispatchIInv, Counts, Interact
  <2> QED BY <1>5, <2>1 DEF Told, Interact, DispatchIInv, DispatchTypeOK
<1> QED BY <1>3, <1>4, <1>5 DEF AfterFocus

LEMMA AfterBeforeInputKeeps ==
  ASSUME DispatchIInv, NEW p \in Packet, AfterBeforeInput(p)
  PROVE  DispatchIInv' /\ Alone(p) /\ Told(p)
<1>1. reached[p] = "inputting" /\ Running(p) /\ UNCHANGED op
  BY DEF AfterBeforeInput
<1>2. stack = <<p>>
  BY <1>1, CarrierIs DEF CarriedBy, Handling
<1>3. CASE \E code \in {"target_changed", "execution_failed"} : Conclude(p, Failed(code, TRUE))
  BY <1>1, <1>3, FailureIs, ConcludeKeeps DEF Codes, Told
<1>4. CASE StillTarget(p) /\ Interact(p, [document EXCEPT !.filled = @ \cup {element[p]}])
  <2>1. DispatchIInv' /\ Alone(p)
    BY <1>1, <1>2, <1>4, CarrierGoesOn DEF DispatchIInv, Counts, Interact, StillTarget
  <2> QED BY <1>4, <2>1 DEF Told, Interact, DispatchIInv, DispatchTypeOK
<1> QED BY <1>3, <1>4 DEF AfterBeforeInput

LEMMA AfterEventsKeeps ==
  ASSUME DispatchIInv, NEW p \in Packet, AfterEvents(p)
  PROVE  DispatchIInv' /\ Alone(p) /\ Told(p)
<1>1. reached[p] = "interacting" /\ UNCHANGED op
  BY DEF AfterEvents
<1>2. stack = <<p>>
  BY <1>1, CarrierIs DEF CarriedBy, Handling
<1>3. CASE Conclude(p, Failed("execution_failed", TRUE))
  BY <1>1, <1>3, FailureIs, ConcludeKeeps DEF Codes, Told
<1>4. CASE /\ reached' = [reached EXCEPT ![p] = "awaiting"] /\ stack' = Popped
           /\ UNCHANGED <<document, cache, replies, done, astray>>
  <2>1. stack' = <<>>
    BY <1>2, <1>4, StackOfOne DEF Popped
  <2>2. DispatchIInv' /\ Alone(p)
    BY <1>1, <1>4, <2>1, CarrierGoesOn DEF DispatchIInv, Counts
  <2> QED BY <1>4, <2>2 DEF Told, DispatchIInv, DispatchTypeOK
<1> QED BY <1>3, <1>4 DEF AfterEvents

LEMMA AfterMicrotaskKeeps ==
  ASSUME DispatchIInv, NEW p \in Packet, AfterMicrotask(p)
  PROVE  DispatchIInv' /\ Alone(p) /\ Told(p)
<1>1. reached[p] = "awaiting" /\ UNCHANGED op
  BY DEF AfterMicrotask
<1>2. done[p] = 1
  BY <1>1, CarrierIs DEF CarriedBy
<1>3. CASE \E code \in {"target_changed", "execution_failed"} : Conclude(p, Failed(code, TRUE))
  BY <1>1, <1>3, FailureIs, ConcludeKeeps DEF Codes, Told
<1>4. CASE Conclude(p, Fine)
  <2>1. Fine \in Results /\ Fine.dispatched /\ Fine.code # "target_not_found"
    BY ResultsTyped DEF Fine
  <2> QED BY <1>1, <1>2, <1>4, <2>1, ConcludeKeeps DEF Told
<1> QED BY <1>3, <1>4 DEF AfterMicrotask

LEMMA SurroundingsKeepStep ==
  ASSUME DispatchIInv, AppChanges \/ Observe \/ Cleanup \/ UNCHANGED dispatcherVars
  PROVE  DispatchIInv' /\ UNCHANGED <<reached, replies>>
<1>1. UNCHANGED <<op, cache, reached, stack, replies, done, astray>>
  BY DEF AppChanges, Observe, Cleanup, dispatcherVars
<1>2. DispatchTypeOK'
  BY <1>1 DEF DispatchIInv, DispatchTypeOK
<1>3. CarrierOK'
  BY <1>1 DEF DispatchIInv, CarrierOK, CarriedBy, Aside
<1> QED BY <1>1, <1>2, <1>3 DEF DispatchIInv

LEMMA DispatcherStep ==
  ASSUME DispatchIInv, [DispatcherNext]_dispatcherVars
  PROVE  DispatchIInv' /\ \A p \in Packet : Told(p)
<1>1. CASE \E p \in Packet : /\ DispatchIInv' /\ Alone(p) /\ Told(p)
  BY <1>1 DEF Alone, Told
<1>2. ASSUME NEW p \in Packet, Enter(p) PROVE DispatchIInv' /\ Alone(p) /\ Told(p)
  BY <1>2, EnterReplies, EnterKeeps DEF Told
<1>3. CASE AppChanges \/ Observe \/ Cleanup \/ UNCHANGED dispatcherVars
  BY <1>3, SurroundingsKeepStep DEF Told
<1>4. CASE \E p \in Packet : AfterFocus(p) \/ AfterBeforeInput(p) \/ AfterEvents(p)
                              \/ AfterMicrotask(p)
  BY <1>1, <1>4, AfterFocusKeeps, AfterBeforeInputKeeps, AfterEventsKeeps, AfterMicrotaskKeeps
<1> QED BY <1>1, <1>2, <1>3, <1>4 DEF DispatcherNext

(* The step has one carrier, from its reservation to its result.           *)
THEOREM DispatcherInvariance == DispatcherSpec => []DispatchIInv
<1>1. DispatchIInv /\ [DispatcherNext]_dispatcherVars => DispatchIInv'
  BY DispatcherStep
<1> QED BY <1>1, InitDispatcher, PTL DEF DispatcherSpec

(* However often a step is sent, from wherever, and whatever its handlers  *)
(* do, it interacts once, with its only match, and what each packet        *)
(* replies of that is true (page.js, execute).                             *)
THEOREM StepHappensOnce == DispatcherSpec => StepsHappenOnce
<1> DEFINE Once ==
      /\ Happened' <= 1 /\ (\A p \in Packet : done'[p] <= 1)
      /\ ~astray'
      /\ \A p \in Packet : reached'[p] = "replied" /\ reached[p] # "replied" =>
           /\ ~replies'[p].dispatched => done[p] = 0
           /\ replies'[p].ok /\ op # "query" => Happened = 1
           /\ replies'[p].code = "target_not_found" => Happened = 0
<1>1. ASSUME DispatchIInv PROVE \A p \in Packet : done[p] <= 1
  BY <1>1 DEF DispatchIInv, CarrierOK, CarriedBy, Aside, DispatchTypeOK
<1>2. DispatchIInv /\ [DispatcherNext]_dispatcherVars => [Once]_dispatcherVars
  <2> SUFFICES ASSUME DispatchIInv, [DispatcherNext]_dispatcherVars PROVE Once
    OBVIOUS
  <2>1. DispatchIInv' /\ \A p \in Packet : Told(p)
    BY DispatcherStep
  <2>2. Happened' <= 1
    <3>1. CASE \A p \in Packet : done'[p] = 0
      <4>1. {p \in Packet : done'[p] > 0} = {}
        BY <3>1
      <4> QED BY <4>1, FS_EmptySet DEF Happened
    <3>2. CASE \E c \in Packet : \A p \in Packet \ {c} : done'[p] = 0
      <4>1. PICK c \in Packet : \A p \in Packet \ {c} : done'[p] = 0
        BY <3>2
      <4>2. {p \in Packet : done'[p] > 0} \in SUBSET {c}
        BY <4>1
      <4>3. Cardinality({p \in Packet : done'[p] > 0}) <= Cardinality({c}) /\ Cardinality({c}) = 1
        BY <4>2, FS_Singleton, FS_Subset
      <4>4. Cardinality({p \in Packet : done'[p] > 0}) \in Nat
        BY <4>2, FS_Singleton, FS_Subset, FS_CardinalityType
      <4> QED BY <4>3, <4>4 DEF Happened
    <3> QED BY <2>1, <3>1, <3>2 DEF DispatchIInv, CarrierOK, CarriedBy, Aside
  <2>3. \A p \in Packet : done'[p] <= 1
    BY <2>1 DEF DispatchIInv, CarrierOK, CarriedBy, Aside, DispatchTypeOK
  <2> HIDE DEF Happened
  <2>4. \A p \in Packet : reached'[p] = "replied" /\ reached[p] # "replied" =>
           /\ ~replies'[p].dispatched => done[p] = 0
           /\ replies'[p].ok /\ op # "query" => Happened = 1
           /\ replies'[p].code = "target_not_found" => Happened = 0
    BY <2>1 DEF Told, Truthful
  <2> QED BY <2>1, <2>2, <2>3, <2>4 DEF DispatchIInv
<1> QED BY <1>2, DispatcherInvariance, PTL DEF DispatcherSpec, StepsHappenOnce

-----------------------------------------------------------------------------
(* Bindings: what was accepted                                             *)

Specs == [slot: Uses, expr: Exprs, condition: Conditions \cup {NoCondition},
          place: {"expect", "goal"}, scopes: Nesting, path: Paths]

(* What is running was accepted, and its steps are taken in order.         *)
BindingIInv ==
  /\ spec \in Specs /\ input \in Types /\ outcome \in Types \cup {Missing}
  /\ (phase \in {"running", "ended"}) => SpecFault = "none"
  /\ (phase = "running" /\ turn = 3) =>
       ResolveFault = "none" /\ PageFault(At("expect")) = "none"
  /\ turn \in 1..3
  /\ (phase = "submitted") => turn = 1
  /\ AcceptedCanRun

-----------------------------------------------------------------------------
LEMMA ExprsAre ==
  ASSUME NEW e \in Exprs
  PROVE  \/ e.from = "literal" /\ e.type \in Types
         \/ e.from = "input" /\ e.given \in BOOLEAN
         \/ e.from = "step" /\ e.id \in 1..3
BY DEF Exprs, Literals, Inputs, StepRefs

LEMMA ConditionsAre ==
  ASSUME NEW c \in Conditions \cup {NoCondition}
  PROVE  /\ c.height \in Nat /\ c.nodes \in Nat /\ c.asks \in {0, 2, 3} /\ c.empty \in BOOLEAN
         /\ (c = NoCondition) => c.asks = NoStep
<1>1. CASE c = NoCondition
  BY <1>1 DEF NoCondition, NoStep
<1>2. CASE c \in Conditions
  <2>1. c \in [height : Heights, nodes : Nodes, asks : {NoStep, 2, 3}, empty : BOOLEAN]
    BY <1>2 DEF Conditions
  <2>2. /\ c.height \in Heights /\ c.nodes \in Nodes
        /\ c.asks \in {0, 2, 3}
    BY <2>1 DEF NoStep
  <2>3. c.empty \in BOOLEAN
    BY <2>1, Zenon
  <2>4. c.height \in Nat \ {0}
    BY <2>2, BindingConstants
  <2>5. c.nodes \in Nat
    BY <2>2, BindingConstants
  <2>6. c # NoCondition
    BY <2>4 DEF NoCondition
  <2> QED BY <2>2, <2>3, <2>4, <2>5, <2>6
<1> QED BY <1>1, <1>2

LEMMA InitBinding == BindingInit => BindingIInv
<1> SUFFICES ASSUME BindingInit PROVE BindingIInv
  OBVIOUS
<1>1. spec \in Specs
  BY DEF BindingInit, Specs
<1> QED BY <1>1 DEF BindingInit, BindingIInv, AcceptedCanRun

(* A reference that was accepted is resolved to what it may be, unless the *)
(* step it names did not produce that.                                     *)
LEMMA ResolvedOrData ==
  ASSUME BindingIInv, SpecFault = "none"
  PROVE  /\ spec.path = "own"
         /\ ResolveFault = "none" \/ Whose = "data"
         /\ (ResolveFault = "none") => Resolved \in Types /\ TypeAllowed(spec.slot, Resolved)
<1>1. spec.path = "own" /\ ExprFault = "none"
  BY DEF SpecFault
<1>2. spec.expr \in Exprs
  BY DEF BindingIInv, Specs
<1>3. CASE spec.expr.from = "literal"
  <2>1. Resolved = spec.expr.type /\ spec.expr.type \in Types
    BY <1>2, <1>3, ExprsAre DEF Resolved
  <2>2. TypeAllowed(spec.slot, Resolved)
    BY <1>1, <1>3, <2>1 DEF ExprFault, Static
  <2>3. Resolved # Missing
    BY <2>1 DEF Types, Missing
  <2> QED BY <1>1, <2>1, <2>2, <2>3 DEF ResolveFault
<1>4. CASE spec.expr.from = "input"
  <2>1. spec.expr.given
    BY <1>1, <1>4 DEF ExprFault
  <2>2. Resolved = input /\ input \in Types
    BY <1>4, <2>1 DEF Resolved, BindingIInv
  <2>3. TypeAllowed(spec.slot, Resolved)
    BY <1>1, <1>4, <2>2 DEF ExprFault, Static
  <2>4. Resolved # Missing
    BY <2>2 DEF Types, Missing
  <2> QED BY <1>1, <2>2, <2>3, <2>4 DEF ResolveFault
<1>5. CASE spec.expr.from = "step"
  <2>1. spec.expr.id = 1
    BY <1>1, <1>5 DEF ExprFault, Earlier
  <2>2. Resolved = outcome /\ outcome \in Types \cup {Missing}
    BY <1>5, <2>1 DEF Resolved, BindingIInv
  <2>3. Whose = "data"
    BY <1>5, <2>1 DEF Whose
  <2> QED BY <1>1, <2>2, <2>3 DEF ResolveFault
<1> QED BY <1>2, <1>3, <1>4, <1>5, ExprsAre

(* The page finds no fault that validation did not, but for the texts that *)
(* only the page refuses: it counts its limits from elsewhere, but to the  *)
(* same height, number and depth.                                          *)
LEMMA PageAgrees ==
  ASSUME BindingIInv, SpecFault = "none", ResolveFault = "none",
         NEW c, c \in {spec.condition, NoCondition}
  PROVE  ~ShapeFault(c) /\ (PageFault(c) = "none" \/ PageOnly)
<1>1. /\ spec.scopes + 1 <= MaxScopes /\ ConditionFault(spec.condition) = "none"
      /\ spec.scopes \in Nat
  <2>1. spec.scopes \in Nat
    BY BindingConstants DEF BindingIInv, Specs
  <2>2. ~(spec.scopes + 1 > MaxScopes) /\ ExprFault = "none"
    BY DEF SpecFault
  <2> QED BY <2>1, <2>2 DEF SpecFault, MaxScopes
<1>2. Resolved \in Types /\ TypeAllowed(spec.slot, Resolved)
  BY ResolvedOrData
<1>3. spec.condition \in Conditions \cup {NoCondition} /\ spec.slot \in Uses
  BY DEF BindingIInv, Specs
<1>4. ~(c # NoCondition /\ (c.height - 1 > PageHeight \/ c.nodes > PageNodes \/ c.empty))
  <2>1. CASE c = NoCondition
    BY <2>1
  <2>2. CASE c # NoCondition
    <3>1. c = spec.condition /\ c.height \in Nat /\ c.nodes \in Nat
      BY <1>3, <2>2, ConditionsAre
    <3>2. ~(c.height > MaxHeight \/ c.nodes > MaxNodes \/ c.empty)
      BY <1>1, <2>2, <3>1 DEF ConditionFault
    <3> QED BY <3>1, <3>2 DEF MaxHeight, MaxNodes, PageHeight, PageNodes
  <2> QED BY <2>1, <2>2
<1>5. ~(spec.scopes > PageScopes)
  BY <1>1 DEF MaxScopes, PageScopes
<1>6. ~(spec.slot \in PageStrings \cup PageIdentities /\ Resolved = "other")
  BY <1>2, <1>3 DEF TypeAllowed, PageStrings, PageIdentities, Strings, Uses
<1>7. ValueFault = "none" \/ PageOnly
  BY <1>2, <1>6 DEF TypeAllowed, Identities, PageIdentities, ValueFault, PageOnly
<1>8. c.asks \in Available
  <2>1. CASE c = NoCondition
    BY <2>1 DEF NoCondition, NoStep, Available
  <2>2. CASE c # NoCondition
    <3>1. c = spec.condition
      BY <2>2
    <3>2. ~(c.height > MaxHeight \/ c.nodes > MaxNodes \/ c.empty)
      BY <1>1, <2>2, <3>1 DEF ConditionFault
    <3> QED BY <1>1, <2>2, <3>1, <3>2 DEF ConditionFault
  <2> QED BY <2>1, <2>2
<1> QED BY <1>4, <1>5, <1>7, <1>8 DEF ShapeFault, PageFault

LEMMA FaultStays == ASSUME UNCHANGED <<spec, input>> PROVE SpecFault' = SpecFault
BY DEF SpecFault, ExprFault, ConditionFault, Static

LEMMA PageFaultStays ==
  ASSUME UNCHANGED <<spec, input, outcome>>
  PROVE  /\ ResolveFault' = ResolveFault
         /\ PageFault(At("expect"))' = PageFault(At("expect"))
BY DEF ResolveFault, Resolved, TypeAllowed, ShapeFault, ValueFault, PageFault, At

LEMMA EndsFor ==
  ASSUME BindingIInv, SpecFault = "none", NEW why, NEW whose, whose # "spec",
         EndRun(why, whose)
  PROVE  BindingIInv'
BY FaultStays DEF BindingIInv, EndRun, AcceptedCanRun

LEMMA BindingStep ==
  ASSUME BindingIInv, [BindingNext]_bindingVars
  PROVE  BindingIInv'
<1>1. CASE Validate
  BY <1>1, FaultStays DEF BindingIInv, Validate, AcceptedCanRun
<1>2. CASE Produce
  BY <1>2, FaultStays DEF BindingIInv, Produce, AcceptedCanRun
<1>3. CASE Execute
  <2>1. SpecFault = "none"
    BY <1>3 DEF BindingIInv, Execute
  <2>2. spec.path = "own" /\ (ResolveFault = "none" \/ Whose = "data")
    BY <2>1, ResolvedOrData
  <2>3. CASE ResolveFault # "none"
    <3>1. EndRun(ResolveFault, "data")
      BY <1>3, <2>2, <2>3 DEF Execute
    <3> QED BY <2>1, <3>1, EndsFor
  <2>4. CASE ResolveFault = "none" /\ PageFault(At("expect")) # "none"
    <3>1. ~ShapeFault(At("expect")) /\ PageOnly
      BY <2>1, <2>4, PageAgrees DEF At
    <3>2. EndRun(PageFault(At("expect")), "text")
      BY <1>3, <2>4, <3>1 DEF Execute
    <3> QED BY <2>1, <3>2, EndsFor
  <2>5. CASE ResolveFault = "none" /\ PageFault(At("expect")) = "none"
    <3>1. /\ phase = "running" /\ turn' = 3
          /\ UNCHANGED <<spec, input, phase, outcome, reason, blame>>
      BY <1>3, <2>5 DEF Execute
    <3> QED BY <2>5, <3>1, FaultStays, PageFaultStays DEF BindingIInv, AcceptedCanRun
  <2> QED BY <2>3, <2>4, <2>5
<1>4. CASE ReachGoal
  <2>1. SpecFault = "none" /\ ResolveFault = "none" /\ PageFault(At("expect")) = "none"
    BY <1>4 DEF BindingIInv, ReachGoal
  <2>2. ~PageOnly
    BY <2>1 DEF PageFault, ValueFault, PageOnly, PageIdentities, PageStrings
  <2>3. PageFault(At("goal")) = "none"
    BY <2>1, <2>2, PageAgrees DEF At
  <2>4. EndRun("completed", "none")
    BY <1>4, <2>3 DEF ReachGoal
  <2> QED BY <2>1, <2>4, EndsFor
<1>5. CASE UNCHANGED bindingVars
  BY <1>5, FaultStays, PageFaultStays DEF BindingIInv, bindingVars, AcceptedCanRun
<1> QED BY <1>1, <1>2, <1>3, <1>4, <1>5 DEF BindingNext

(* What runs was accepted, and past its second step the page found no      *)
(* fault in it.                                                            *)
THEOREM BindingInvariance == BindingSpec => []BindingIInv
<1>1. BindingIInv /\ [BindingNext]_bindingVars => BindingIInv'
  BY BindingStep
<1> QED BY <1>1, InitBinding, PTL DEF BindingSpec

(* For conditions of any height and number of nodes and locators of any    *)
(* depth: what validate accepts stops only for what a step produced, or    *)
(* for one of the five texts that only the page refuses (validate.rs,      *)
(* value_expr.rs, page.js, semantic/core.js).                              *)
THEOREM AcceptedRuns == BindingSpec => []AcceptedCanRun
<1>1. BindingIInv => AcceptedCanRun
  BY DEF BindingIInv
<1> QED BY <1>1, BindingInvariance, PTL
=============================================================================
