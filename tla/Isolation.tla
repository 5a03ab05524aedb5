---------------------------- MODULE Isolation ----------------------------
(***************************************************************************)
(* What the resource arbiter promises to the rest of the application,      *)
(* without its queue, its clock or its history: a claim on a set of        *)
(* resources is granted only when it meets no other claim; it ends when    *)
(* its holder gives it back, unless it was isolated first; an isolated     *)
(* claim stays until something lifts it.  Claims inherited from an earlier *)
(* process are isolated and precede every claim of this one.               *)
(***************************************************************************)
EXTENDS Integers, Functions

CONSTANTS
  Owner,        \* who may hold a claim
  Scopes,       \* the sets of resources that are claimed
  Clash(_, _)   \* whether two sets of resources meet

VARIABLES
  claims,       \* owner -> [resources, isolated], for the owners with a claim
  open          \* the inherited claims are all in place

vars == <<claims, open>>

Add(o, rs, isolated) ==
  [p \in DOMAIN claims \cup {o} |->
     IF p = o THEN [resources |-> rs, isolated |-> isolated] ELSE claims[p]]

Inherit(o, rs) ==
  /\ ~open
  /\ o \notin DOMAIN claims
  /\ claims' = Add(o, rs, TRUE)
  /\ UNCHANGED open

Open == ~open /\ open' = TRUE /\ UNCHANGED claims

Take(o, rs) ==
  /\ rs # {} => open
  /\ o \notin DOMAIN claims
  /\ \A p \in DOMAIN claims : ~Clash(rs, claims[p].resources)
  /\ claims' = Add(o, rs, FALSE)
  /\ UNCHANGED open

Isolate(o) ==
  /\ o \in DOMAIN claims
  /\ claims' = Add(o, claims[o].resources, TRUE)
  /\ UNCHANGED open

Give(o) ==
  /\ o \in DOMAIN claims /\ ~claims[o].isolated
  /\ claims' = Restrict(claims, DOMAIN claims \ {o})
  /\ UNCHANGED open

Lift(S) ==
  /\ S \subseteq {o \in DOMAIN claims : claims[o].isolated}
  /\ claims' = Restrict(claims, DOMAIN claims \ S)
  /\ UNCHANGED open

Init ==
  /\ claims = [o \in {} |-> 0]
  /\ open = FALSE

Next ==
  \/ \E o \in Owner :
       \/ \E rs \in Scopes : Inherit(o, rs) \/ Take(o, rs)
       \/ Isolate(o)
       \/ Give(o)
  \/ \E S \in SUBSET Owner : Lift(S)
  \/ Open

Spec == Init /\ [][Next]_vars

=============================================================================
