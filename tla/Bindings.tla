------------------------------ MODULE Bindings ------------------------------
(***************************************************************************)
(* What a workflow's specification may refer to.  It is validated once, by *)
(* the client library (src/crates/client/src/workflow/validate.rs); its    *)
(* expressions are resolved before every step (value_expr.rs); and its     *)
(* locators and conditions are read once more by the page                  *)
(* (src/plugin/src/workflow/page.js and semantic/core.js).  Three          *)
(* implementations of one grammar have to agree.                           *)
(*                                                                         *)
(* The checks of a specification are a conjunction over its expressions,   *)
(* so one expression (or two bindings of one tool call) and one condition  *)
(* stand for all: they are in the second of two steps, or the condition is *)
(* the goal.  A value is known by its type, a condition by its height, its *)
(* nodes, a result it asks for and whether a group in it is empty.         *)
(* Pointers, sizes, budgets and the names of tools, windows and steps are  *)
(* left out, and what the page happens to hold.                            *)
(***************************************************************************)
EXTENDS Naturals, FiniteSets

CONSTANTS Heights,  \* of conditions, up to more than is allowed
          Nodes,    \* in a condition
          Nesting    \* nested in a locator

ASSUME BindingConstants ==
  Heights \subseteq Nat \ {0} /\ Nodes \subseteq Nat \ {0} /\ Nesting \subseteq Nat

(* MAX_CONDITION_DEPTH, MAX_CONDITION_NODES and MAX_LOCATOR_DEPTH; the     *)
(* page counts from zero.                                                  *)
MaxHeight == 8
MaxNodes == 100
MaxScopes == 4
PageHeight == 8
PageNodes == 100
PageScopes == 4

(* What a value is: a text; one of spaces; a lone byte order mark, which   *)
(* only JavaScript trims; one that is no key chord, no CSS selector and    *)
(* the name of a sensitive attribute; no text at all.                      *)
Types == {"text", "blank", "mark", "odd", "other"}
Missing == "missing"
NoStep == 0  \* no step

(* Where an expression is used (the attribute that a query reads is always *)
(* a literal); of these ...                                                *)
Uses == {"locator", "selector", "name", "entity", "value", "key", "attribute", "expected",
         "result", "binding"}
(* ... these take a string, and these one that is not blank (resolve_expr) *)
Strings == Uses \ {"result", "binding"}
Identities == {"locator", "selector", "entity", "key"}
(* and in the page: any string, and what is not blank (string, twice).     *)
PageStrings == {"value", "key", "expected"}
PageIdentities == {"locator", "selector", "name", "entity", "key"}

(* Where a binding goes in the arguments of a tool: to a path of its own,  *)
(* to one that there is not, into what another binding replaces.           *)
Paths == {"own", "absent", "overlapping"}

Literals == [from : {"literal"}, type : Types]
Inputs == [from : {"input"}, given : BOOLEAN]
StepRefs == [from : {"step"}, id : 1..3]
Exprs == Literals \cup Inputs \cup StepRefs

NoCondition == [height |-> 0, nodes |-> 0, asks |-> NoStep, empty |-> FALSE]
Conditions == {c \in [height : Heights, nodes : Nodes, asks : {NoStep, 2, 3}, empty : BOOLEAN] :
                 c.nodes >= c.height}

VARIABLES
  spec,    \* the workflow
  input,   \* the type of its input
  phase,   \* submitted, refused, running, ended
  turn,    \* the next one
  outcome, \* of the first step: what its data hold at the pointer
  reason,  \* why it was refused or stopped
  blame    \* ghost: whose doing that was

bindingVars == <<spec, input, phase, turn, outcome, reason, blame>>

BindingInit ==
  /\ \E slot \in Uses, expr \in Exprs, c \in Conditions \cup {NoCondition},
        place \in {"expect", "goal"}, scopes \in Nesting, path \in Paths :
       /\ path # "own" => slot = "binding"
       /\ slot = "attribute" => expr.from = "literal"
       /\ scopes = 0 \/ c = NoCondition
       /\ spec = [slot |-> slot, expr |-> expr, condition |-> c, place |-> place,
                  scopes |-> scopes, path |-> path]
  /\ input \in Types
  /\ phase = "submitted" /\ turn = 1 /\ outcome = Missing
  /\ reason = "none" /\ blame = "none"

-----------------------------------------------------------------------------
(* validate.rs                                                             *)

(* What can be said of a literal or an input before the run.               *)
Static(expr) == IF expr.from = "literal" THEN expr.type ELSE input

TypeAllowed(slot, type) ==
  /\ slot \in Strings => type # "other"
  /\ slot \in Identities => type # "blank"
  /\ slot = "attribute" => type \notin {"blank", "mark"}

(* Mutant: a step may refer to itself.                                     *)
EarlierOrSame(id) == id \in {1, 2}

Earlier(id) == id = 1

ExprFault ==
  IF spec.expr.from = "step" THEN IF Earlier(spec.expr.id) THEN "none" ELSE "binding_missing"
  ELSE IF spec.expr.from = "input" /\ ~spec.expr.given THEN "binding_missing"
  ELSE IF ~TypeAllowed(spec.slot, Static(spec.expr))
  THEN IF spec.slot = "attribute" THEN "invalid_spec" ELSE "binding_type_mismatch"
  ELSE "none"

(* A result of an earlier step, of the step itself where it is verified,   *)
(* of any step in the goal.                                                *)
Available == {NoStep, 1, 2}

ConditionFault(c) ==
  IF c = NoCondition THEN "none"
  ELSE IF c.height > MaxHeight \/ c.nodes > MaxNodes \/ c.empty THEN "invalid_spec"
  ELSE IF c.asks \notin Available THEN "binding_missing"
  ELSE "none"

(* "Tool bindings require existing, non-root argument pointers", and they  *)
(* "cannot overlap".                                                       *)
SpecFault ==
  IF spec.scopes + 1 > MaxScopes \/ spec.path # "own" THEN "invalid_spec"
  ELSE IF ExprFault # "none" THEN ExprFault
  ELSE ConditionFault(spec.condition)

Validate ==
  /\ phase = "submitted"
  /\ reason' = SpecFault
  /\ phase' = IF SpecFault = "none" THEN "running" ELSE "refused"
  /\ UNCHANGED <<spec, input, turn, outcome, blame>>

-----------------------------------------------------------------------------
(* The run                                                                 *)

EndRun(why, whose) ==
  /\ phase' = "ended" /\ reason' = why /\ blame' = whose
  /\ UNCHANGED <<spec, input, turn, outcome>>

(* The first step leaves something at the pointer, or nothing.             *)
Produce ==
  /\ phase = "running" /\ turn = 1
  /\ outcome' \in Types \cup {Missing}
  /\ turn' = 2
  /\ UNCHANGED <<spec, input, phase, reason, blame>>

(* Only earlier steps have outcomes.                                       *)
Resolved ==
  CASE spec.expr.from = "literal" -> spec.expr.type
    [] spec.expr.from = "input" -> IF spec.expr.given THEN input ELSE Missing
    [] spec.expr.from = "step" -> IF spec.expr.id = 1 THEN outcome ELSE Missing
Whose == IF spec.expr.from = "step" /\ spec.expr.id = 1 THEN "data" ELSE "spec"

(* resolve_step; of two bindings that overlap the outer one replaces what  *)
(* the inner one points into.                                              *)
ResolveFault ==
  IF Resolved = Missing \/ spec.path # "own" THEN "binding_missing"
  ELSE IF ~TypeAllowed(spec.slot, Resolved) THEN "binding_type_mismatch"
  ELSE "none"

(* The page counts the conditions and the scopes once more (evaluate and   *)
(* resolveCandidates) ...                                                  *)
ShapeFault(c) ==
  \/ c # NoCondition /\ (c.height - 1 > PageHeight \/ c.nodes > PageNodes \/ c.empty)
  \/ spec.scopes > PageScopes

(* ... and looks at the values (string, keyOptions, querySelectorAll and,  *)
(* for an attribute to read, isSensitive).                                 *)
ValueFault ==
  CASE spec.slot \in PageStrings /\ Resolved = "other" -> "binding_type_mismatch"
    [] spec.slot \in PageIdentities \ PageStrings /\ Resolved = "other" -> "invalid_spec"
    [] spec.slot \in PageIdentities /\ Resolved \in {"blank", "mark"} -> "invalid_spec"
    [] spec.slot = "selector" /\ Resolved = "odd" -> "invalid_spec"
    [] spec.slot = "key" /\ Resolved = "odd" -> "unsupported_feature"
    [] spec.slot = "attribute" /\ Resolved = "odd" -> "capability_unavailable"
    [] OTHER -> "none"

PageFault(c) ==
  IF ShapeFault(c) THEN "invalid_spec"
  ELSE IF ValueFault # "none" THEN ValueFault
  ELSE IF c.asks \notin Available THEN "condition_timeout"
  ELSE "none"

(* The texts that the page refuses and validation does not: a blank name,  *)
(* a lone byte order mark for an identity, what is no key chord, what is   *)
(* no selector, and the name of a sensitive attribute.                     *)
PageOnly ==
  \/ spec.slot = "name" /\ Resolved = "blank"
  \/ spec.slot \in PageIdentities /\ Resolved = "mark"
  \/ spec.slot \in {"selector", "key", "attribute"} /\ Resolved = "odd"

At(place) == IF spec.place = place THEN spec.condition ELSE NoCondition

Execute ==
  /\ phase = "running" /\ turn = 2
  /\ CASE ResolveFault # "none" ->
            EndRun(ResolveFault, IF spec.path = "own" THEN Whose ELSE "spec")
       [] ResolveFault = "none" /\ PageFault(At("expect")) # "none" ->
            EndRun(PageFault(At("expect")),
                   IF ~ShapeFault(At("expect")) /\ PageOnly THEN "text" ELSE "spec")
       [] OTHER -> turn' = 3 /\ UNCHANGED <<spec, input, phase, outcome, reason, blame>>

ReachGoal ==
  /\ phase = "running" /\ turn = 3
  /\ IF PageFault(At("goal")) # "none" THEN EndRun(PageFault(At("goal")), "spec")
                                       ELSE EndRun("completed", "none")

BindingNext == Validate \/ Produce \/ Execute \/ ReachGoal

BindingSpec == BindingInit /\ [][BindingNext]_bindingVars

-----------------------------------------------------------------------------
(* A specification that validation accepts is not to blame for what stops  *)
(* the run later: no reference leads nowhere, no value has a type that     *)
(* could have been told before, no bindings get in each other's way, no    *)
(* condition or locator is beyond a limit that the page counts             *)
(* differently.  What stops it is what a step produced, or one of the five *)
(* texts that the page refuses and validation lets pass: a blank name, a   *)
(* lone byte order mark, what is no key chord, what is no CSS selector,    *)
(* and the name of a sensitive attribute (validate.rs:128 and 326,         *)
(* value_expr.rs:140, page.js:80, 205 and 237, semantic/core.js:149 and    *)
(* 161).                                                                   *)
AcceptedCanRun == phase = "ended" => blame # "spec"
=============================================================================
