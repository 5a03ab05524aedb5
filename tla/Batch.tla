------------------------------- MODULE Batch -------------------------------
(***************************************************************************)
(* The executor of batches (src/crates/client/src/batch.rs): the actions   *)
(* of a specification run in sequence, in parallel or as their dependsOn   *)
(* says, over a dispatcher that may take its time, fail or time out.       *)
(*                                                                         *)
(* An action is its index.  Ids, results and the saved file are left out.  *)
(***************************************************************************)
EXTENDS Integers, Sequences, FiniteSets

CONSTANT NumActions   \* actions of the batch

ASSUME BatchConstants == NumActions \in Nat \ {0}

Actions == 1..NumActions

(* A specification; max is maxParallel, at least 1, NumActions if absent.  *)
Plans == [mode: {"sequential", "parallel"}, stopOnError: BOOLEAN, max: Actions,
          dependsOn: [Actions -> SUBSET Actions]]

VARIABLES
  plan,       \* the specification
  state,      \* the state of each action
  remaining,  \* dependencies that are not over, of each action
  ready,      \* what may start: sets released together, each by index
  abort,      \* whether nothing more is started
  phase       \* the executor: "starting", "waiting" or "reported"

batchVars == <<plan, state, remaining, ready, abort, phase>>

ActionStates == {"pending", "running", "ok", "failed", "skipped", "unreached"}

BatchTypeOK ==
  /\ plan \in Plans
  /\ state \in [Actions -> ActionStates]
  /\ remaining \in [Actions -> Int]
  /\ ready \in Seq(SUBSET Actions)
  /\ abort \in BOOLEAN
  /\ phase \in {"starting", "waiting", "reported"}

-----------------------------------------------------------------------------
(* dependency_edges: in sequence each action also waits for the one before *)
(* it; only what the user wrote passes a failure on.                       *)
Deps(p, i) ==
  p.dependsOn[i] \cup (IF p.mode = "sequential" /\ i > 1 THEN {i - 1} ELSE {})

(* validate: Kahn's algorithm, all that is free at a time; a plan resolves *)
(* completely exactly when it has no cycle.                                *)
Resolved(p) ==
  LET round[k \in 0..NumActions] ==
        IF k = 0 THEN {} ELSE {i \in Actions : Deps(p, i) \subseteq round[k - 1]}
  IN round[NumActions]

Validated(p) == Resolved(p) = Actions

Running == {i \in Actions : state[i] = "running"}
Over(i) == state[i] \in {"ok", "failed", "skipped"}

-----------------------------------------------------------------------------
(* The inner loop: the first of the ready actions                          *)

NextReady == CHOOSE i \in Head(ready) : \A j \in Head(ready) : i <= j

Popped ==
  IF Head(ready) = {NextReady} THEN Tail(ready) ELSE [ready EXCEPT ![1] = @ \ {NextReady}]

(* Mutant: a dependency that was skipped does not count.                   *)
FailedDependencyOnly(i) == \E d \in plan.dependsOn[i] : state[d] = "failed"

FailedDependency(i) == \E d \in plan.dependsOn[i] : state[d] \in {"failed", "skipped"}

(* i is over: its dependents wait for one less.                            *)
ReleaseDependents(i, queue) ==
  LET unblocked == {d \in Actions : i \in Deps(plan, d) /\ remaining[d] = 1}
  IN /\ remaining' = [d \in Actions |-> IF i \in Deps(plan, d) THEN remaining[d] - 1
                                                               ELSE remaining[d]]
     /\ ready' = IF unblocked = {} THEN queue ELSE Append(queue, unblocked)

SkipAction ==
  /\ phase = "starting" /\ ready # <<>>
  /\ FailedDependency(NextReady) \/ abort
  /\ state' = [state EXCEPT ![NextReady] = "skipped"]
  /\ ReleaseDependents(NextReady, Popped)
  /\ UNCHANGED <<plan, abort, phase>>

StartAction ==
  /\ phase = "starting" /\ ready # <<>>
  /\ ~FailedDependency(NextReady) /\ ~abort
  /\ Cardinality(Running) < plan.max
  /\ state' = [state EXCEPT ![NextReady] = "running"]
  /\ ready' = Popped
  /\ UNCHANGED <<plan, remaining, abort, phase>>

(* Nothing more can start now.                                             *)
Wait ==
  /\ phase = "starting" /\ Running # {}
  /\ \/ ready = <<>>
     \/ /\ ready # <<>> /\ ~FailedDependency(NextReady) /\ ~abort
        /\ Cardinality(Running) >= plan.max
  /\ phase' = "waiting"
  /\ UNCHANGED <<plan, state, remaining, ready, abort>>

(* The next completion; an action that timed out has failed, though what   *)
(* it asked for may continue.                                              *)
Complete(i) ==
  /\ phase = "waiting" /\ i \in Running
  /\ \E success \in BOOLEAN :
       /\ state' = [state EXCEPT ![i] = IF success THEN "ok" ELSE "failed"]
       /\ abort' = (abort \/ (~success /\ plan.stopOnError))
  /\ ReleaseDependents(i, ready)
  /\ phase' = "starting"
  /\ UNCHANGED plan

(* Whatever is still pending is reported as skipped, too.                  *)
ReportBatch ==
  /\ phase = "starting" /\ ready = <<>> /\ Running = {}
  /\ state' = [i \in Actions |-> IF state[i] = "pending" THEN "unreached" ELSE state[i]]
  /\ phase' = "reported"
  /\ UNCHANGED <<plan, remaining, ready, abort>>

-----------------------------------------------------------------------------
BatchInit ==
  /\ plan \in {p \in Plans : Validated(p)}
  /\ state = [i \in Actions |-> "pending"]
  /\ remaining = [i \in Actions |-> Cardinality(Deps(plan, i))]
  /\ LET free == {i \in Actions : Deps(plan, i) = {}}
     IN ready = IF free = {} THEN <<>> ELSE <<free>>
  /\ abort = FALSE /\ phase = "starting"

BatchNext ==
  \/ SkipAction \/ StartAction \/ Wait
  \/ \E i \in Actions : Complete(i)
  \/ ReportBatch

BatchSpec == BatchInit /\ [][BatchNext]_batchVars

-----------------------------------------------------------------------------
DependenciesHold ==
  \A i \in Actions :
    state[i] \in {"running", "ok", "failed"} =>
      /\ \A d \in Deps(plan, i) : Over(d)
      /\ \A d \in plan.dependsOn[i] : state[d] = "ok"

(* The report accounts for every action: none is left that never became    *)
(* ready, and one is skipped only after one it depends on or for a failure *)
(* that stops the batch.                                                   *)
Accounted ==
  /\ \A i \in Actions : Over(i)
  /\ \A i \in Actions : state[i] = "skipped" => FailedDependency(i) \/ abort
  /\ abort <=> plan.stopOnError /\ \E i \in Actions : state[i] = "failed"

(* An action is started only when everything it waits for is over and what *)
(* it depends on has succeeded, no more than maxParallel run at once, and  *)
(* none is forgotten: the report accounts for all, also when skips cascade *)
(* (src/crates/client/src/batch.rs, run_batch_outcomes).                   *)
RunsInOrder ==
  /\ DependenciesHold
  /\ Cardinality(Running) <= plan.max
  /\ phase = "reported" => Accounted
=============================================================================
