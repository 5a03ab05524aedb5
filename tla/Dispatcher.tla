----------------------------- MODULE Dispatcher -----------------------------
(***************************************************************************)
(* A workflow step in the page (src/plugin/src/workflow/page.js): packets  *)
(* that execute one step of one observation.  The handlers of the          *)
(* application run inside the events that a packet dispatches: they change *)
(* the document, move the focus, and may let another packet run before the *)
(* first goes on.  Between the events and the report a packet waits for a  *)
(* microtask.                                                              *)
(*                                                                         *)
(* The step has one locator; a "press" may have none and then goes to the  *)
(* focus.  Conditions, evidence, texts and the limits of caches are left   *)
(* out.  An identifier of an observation is never used twice (the host     *)
(* draws it for every attempt).                                            *)
(***************************************************************************)
EXTENDS Naturals, Sequences, FiniteSets, SequencesExt

CONSTANTS Packet,     \* that carry the step
          Conflicting, \* those with another step under its id
          Element,
          Nowhere,    \* no element has the focus
          MaxChanges  \* bound: changes of the document

ASSUME DispatcherConstants ==
  Conflicting \subseteq Packet /\ Nowhere \notin Element /\ MaxChanges \in Nat

Ops == {"click", "fill", "press", "press_focus", "query"}
Editing == {"fill"}

VARIABLES
  op,        \* of the step
  document,  \* what matches the locator, what is actionable, focus, contents
  observing, \* the observation: not yet, active, or gone
  cache,     \* observation.dispatched: what is known of the step
  reached,   \* of each packet
  element,   \* that each packet resolved
  stack,     \* packets whose code is running, innermost last
  replies,    \* what each packet replied
  changes,
  done,      \* ghost: how often each packet interacted
  astray     \* ghost: an interaction did not go where the step says

dispatcherVars == <<op, document, observing, cache, reached, element, stack, replies,
                    changes, done, astray>>

Unknown == [ok |-> FALSE, dispatched |-> TRUE, code |-> "outcome_unknown"]
Failed(code, dispatched) == [ok |-> FALSE, dispatched |-> dispatched, code |-> code]
Fine == [ok |-> TRUE, dispatched |-> TRUE, code |-> "none"]
NoReport == [ok |-> FALSE, dispatched |-> FALSE, code |-> "pending"]

DispatcherInit ==
  /\ op \in Ops
  /\ \E e \in Element :
       document = [matches |-> {e}, fit |-> Element, focus |-> Nowhere, filled |-> {}]
  /\ observing = "not yet" /\ cache = NoReport
  /\ reached = [p \in Packet |-> "none"] /\ element = [p \in Packet |-> Nowhere]
  /\ stack = <<>> /\ replies = [p \in Packet |-> NoReport] /\ changes = 0
  /\ done = [p \in Packet |-> 0] /\ astray = FALSE

-----------------------------------------------------------------------------
(* The application runs between tasks and in the handlers of events.       *)
Handling == {"focusing", "inputting", "interacting"}
AppRuns == stack # <<>> => reached[Last(stack)] \in Handling

AppChanges ==
  /\ AppRuns /\ changes < MaxChanges /\ changes' = changes + 1
  /\ \/ \E some \in SUBSET Element : document' = [document EXCEPT !.matches = some]
     \/ \E some \in SUBSET Element : document' = [document EXCEPT !.fit = some]
     \/ \E e \in Element \cup {Nowhere} : document' = [document EXCEPT !.focus = e]
     \/ \E some \in SUBSET document.filled : document' = [document EXCEPT !.filled = some]
  /\ UNCHANGED <<op, observing, cache, reached, element, stack, replies, done, astray>>

(* observe *)
Observe ==
  /\ stack = <<>> /\ observing = "not yet"
  /\ observing' = "active"
  /\ UNCHANGED <<op, document, cache, reached, element, stack, replies, changes, done, astray>>

(* cleanup: asked for, at the deadline, or when the page is hidden.        *)
Cleanup ==
  /\ AppRuns /\ observing = "active"
  /\ observing' = "gone"
  /\ UNCHANGED <<op, document, cache, reached, element, stack, replies, changes, done, astray>>

-----------------------------------------------------------------------------
(* execute                                                                 *)

Target == IF op = "press_focus"
            THEN (IF document.focus = Nowhere THEN {} ELSE {document.focus})
            ELSE document.matches
Refusal ==
  CASE Target = {} -> "target_not_found"
    [] Cardinality(Target) > 1 -> "ambiguous_target"
    [] op # "query" /\ ~(Target \subseteq document.fit) -> "not_actionable"
    [] OTHER -> "none"

Reply(p, r) ==
  /\ replies' = [replies EXCEPT ![p] = r]
  /\ reached' = [reached EXCEPT ![p] = "replied"]
  /\ UNCHANGED <<document, cache, element, stack>>

(* Mutant: the step is noted when it is complete.                          *)
ReservedLater == cache

(* "Reserve before the first side effect, including synchronous reentrancy *)
(* from application handlers."                                             *)
Reserved == Unknown

(* Up to focus(), nothing of the application runs.                         *)
Enter(p) ==
  /\ AppRuns /\ reached[p] = "none"
  /\ IF observing # "active" THEN Reply(p, Failed("observation_failed", FALSE))
     ELSE IF cache # NoReport
       THEN Reply(p, IF p \in Conflicting THEN Failed("run_key_conflict", FALSE) ELSE cache)
     ELSE IF Refusal # "none" THEN Reply(p, Failed(Refusal, FALSE))
     ELSE IF op = "query" THEN Reply(p, [Fine EXCEPT !.dispatched = FALSE])
     ELSE \E e \in Target :
       /\ cache' = Reserved
       /\ element' = [element EXCEPT ![p] = e]
       /\ document' = [document EXCEPT !.focus = e]
       /\ reached' = [reached EXCEPT ![p] = "focusing"]
       /\ stack' = Append(stack, p)
       /\ UNCHANGED replies
  /\ UNCHANGED <<op, observing, changes, done, astray>>

Running(p) == stack # <<>> /\ Last(stack) = p

(* The code that runs ends, if it is in an event's handlers.               *)
Popped == IF stack = <<>> THEN stack ELSE Front(stack)

(* The result is noted for whoever sends the step again.                   *)
Conclude(p, r) ==
  /\ replies' = [replies EXCEPT ![p] = r]
  /\ cache' = r
  /\ reached' = [reached EXCEPT ![p] = "replied"]
  /\ stack' = Popped
  /\ UNCHANGED <<document, done, astray>>

OnTarget(p) == op = "press_focus" \/ document.matches = {element[p]}
Fit(p) == element[p] \in document.fit

(* The interaction itself; its handlers run next.                          *)
Interact(p, doc) ==
  /\ document' = doc
  /\ done' = [done EXCEPT ![p] = @ + 1]
  /\ astray' = (astray \/ ~OnTarget(p) \/ ~Fit(p))
  /\ reached' = [reached EXCEPT ![p] = "interacting"]
  /\ UNCHANGED <<cache, replies, stack>>

(* "Recheck all constraints synchronously before sending the requested     *)
(* interaction": then the click, keydown, or beforeinput of a fill.  What  *)
(* a locator that matches none or several reports here is target_changed   *)
(* too: with `dispatched' the codes are alike to the host.                 *)
AfterFocus(p) ==
  /\ Running(p) /\ reached[p] = "focusing"
  /\ IF ~OnTarget(p) THEN Conclude(p, Failed("target_changed", TRUE))
     ELSE IF ~Fit(p) \/ (op # "click" /\ document.focus # element[p])
       THEN Conclude(p, Failed("not_actionable", TRUE))
     ELSE IF op \in Editing
       THEN /\ reached' = [reached EXCEPT ![p] = "inputting"]
            /\ UNCHANGED <<document, cache, replies, stack, done, astray>>
     ELSE Interact(p, document)
  /\ UNCHANGED <<op, observing, element, changes>>

(* Mutant: beforeinput is taken for harmless.                              *)
StillTargetUnchecked(p) == TRUE

StillTarget(p) == OnTarget(p) /\ Fit(p)

(* The value is set unless beforeinput was prevented, and the element is   *)
(* still the target after its handlers.                                    *)
AfterBeforeInput(p) ==
  /\ Running(p) /\ reached[p] = "inputting"
  /\ \/ Conclude(p, Failed("execution_failed", TRUE))
     \/ IF StillTarget(p)
          THEN Interact(p, [document EXCEPT !.filled = @ \cup {element[p]}])
          ELSE Conclude(p, Failed("target_changed", TRUE))
  /\ UNCHANGED <<op, observing, element, changes>>

(* input and change, or keyup, have been dispatched; then a microtask.     *)
AfterEvents(p) ==
  /\ Running(p) /\ reached[p] = "interacting"
  /\ IF op \in Editing /\ element[p] \notin document.filled
       THEN Conclude(p, Failed("execution_failed", TRUE))
       ELSE /\ reached' = [reached EXCEPT ![p] = "awaiting"]
            /\ stack' = Popped
            /\ UNCHANGED <<document, cache, replies, done, astray>>
  /\ UNCHANGED <<op, observing, element, changes>>

AfterMicrotask(p) ==
  /\ stack = <<>> /\ reached[p] = "awaiting"
  /\ Conclude(p,
       IF op \notin Editing THEN Fine
       ELSE IF Cardinality(document.matches) # 1 THEN Failed("target_changed", TRUE)
       ELSE IF ~(document.matches \subseteq document.filled)
         THEN Failed("execution_failed", TRUE)
       ELSE Fine)
  /\ UNCHANGED <<op, observing, element, changes>>

DispatcherNext ==
  \/ AppChanges \/ Observe \/ Cleanup
  \/ \E p \in Packet :
       Enter(p) \/ AfterFocus(p) \/ AfterBeforeInput(p) \/ AfterEvents(p) \/ AfterMicrotask(p)

DispatcherSpec == DispatcherInit /\ [][DispatcherNext]_dispatcherVars

-----------------------------------------------------------------------------
Happened == Cardinality({p \in Packet : done[p] > 0})

(* However often a step is sent, also from a handler of its own events: it *)
(* interacts once, with an element that is at that moment the only match   *)
(* and actionable; who is told that nothing was dispatched has not         *)
(* dispatched; who is told that all went well can rely on the interaction; *)
(* and who is told to look for the target again finds a step that has not  *)
(* happened (page.js:239, "A duplicate can observe uncertainty but must    *)
(* never dispatch again").                                                 *)
StepsHappenOnce == [][
  /\ Happened' <= 1 /\ (\A p \in Packet : done'[p] <= 1)
  /\ ~astray'
  /\ \A p \in Packet : reached'[p] = "replied" /\ reached[p] # "replied" =>
       /\ ~replies'[p].dispatched => done[p] = 0
       /\ replies'[p].ok /\ op # "query" => Happened = 1
       /\ replies'[p].code = "target_not_found" => Happened = 0
]_dispatcherVars
=============================================================================
