------------------------------- MODULE MCHost -------------------------------
(***************************************************************************)
(* What the plugin's host does for several callers at once: commands under *)
(* leases (CommandLeases), the journal over two openings of its directory  *)
(* (Journal), the execution of a workflow's step in the page (Dispatcher), *)
(* and what a specification refers to (Bindings).  They share no variable: *)
(* a behaviour is one of a single part, and the others stay as they were   *)
(* initially.                                                              *)
(***************************************************************************)
EXTENDS MCCommandLeases, Journal, Dispatcher, Bindings

CONSTANTS p1, p2, a, b

VARIABLE component  \* the part that this behaviour is about

hostVars == <<component, allVars, logVars, dispatcherVars, bindingVars>>

(* Where they are not the subject, one step and one specification stand    *)
(* for all.                                                                *)
OneStep == op = "query" /\ document.matches = {CHOOSE e \in Element : TRUE}

OneSpec ==
  /\ input = "text" /\ phase = "refused" /\ turn = 1 /\ outcome = Missing
  /\ reason = "none" /\ blame = "none"
  /\ spec = [slot |-> "value", expr |-> [from |-> "literal", type |-> "text"],
             condition |-> NoCondition, place |-> "goal", scopes |-> 0, path |-> "own"]

HostInit ==
  /\ component \in {"commands", "journal", "step", "spec"}
  /\ CommandInit /\ JournalInit /\ DispatcherInit
  /\ component # "step" => OneStep
  /\ IF component = "spec" THEN BindingInit ELSE OneSpec

HostNext ==
  /\ UNCHANGED component
  /\ \/ /\ component = "commands" /\ CommandNext
        /\ UNCHANGED <<logVars, dispatcherVars, bindingVars>>
     \/ /\ component = "journal" /\ JournalNext
        /\ UNCHANGED <<allVars, dispatcherVars, bindingVars>>
     \/ /\ component = "step" /\ DispatcherNext
        /\ UNCHANGED <<allVars, logVars, bindingVars>>
     \/ /\ component = "spec" /\ BindingNext
        /\ UNCHANGED <<allVars, logVars, dispatcherVars>>

(* Time stands still for the commands where they are not the subject: no *)
(* other action of theirs that is fair is ever enabled there.              *)
HostFairness ==
  Scheduled /\ SF_allVars(component = "commands" /\ Clock) /\ JournalFairness

HostSpec == HostInit /\ [][HostNext]_hostVars /\ HostFairness

MCProcess == {p1, p2}
MCRun == {a, b}
=============================================================================
