---------------------------- MODULE MCWorkflow ----------------------------
(* Small instances of Workflow.  Two runs of one writing step compete for  *)
(* the lease with each other and with a direct command; one run of two     *)
(* writing steps, the first with a postcondition, is cancelled, continued, *)
(* reconciled and crashed at every point.                                  *)
EXTENDS Workflow, TLC

CONSTANTS r1, r2

One == 1..1
Both == 1..2
None == {}
Runs == Permutations({r1, r2})

=============================================================================
