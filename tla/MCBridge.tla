----------------------------- MODULE MCBridge -----------------------------
(***************************************************************************)
(* Instances of Bridge for TLC: one request or several pins, over a few    *)
(* connections and documents.                                              *)
(***************************************************************************)
EXTENDS Bridge, TLC

CONSTANTS c1, c2, c3, q1

Two == {c1, c2}
Three == {c1, c2, c3}
One == {q1}

(* Connections are interchangeable.                                        *)
Symmetry == Permutations({c1, c2, c3})

(* Requests take no notice of pins.                                        *)
CallsSpec == Init /\ [][Traffic]_vars /\ Fairness

=============================================================================
