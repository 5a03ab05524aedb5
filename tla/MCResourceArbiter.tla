------------------------ MODULE MCResourceArbiter ------------------------
(***************************************************************************)
(* Instance of ResourceArbiter for TLC: two callers, a parent resource and *)
(* two of its children, a history of two entries.                          *)
(***************************************************************************)
EXTENDS ResourceArbiter

CONSTANTS o1, o2, r1, r2

UI == <<"ui">>
MainWindow == <<"ui", "window", "main">>

MCOwner == {o1, o2}
MCRequestId == {r1, r2}
OtherWindow == <<"ui", "window", "other">>

MCResource == {UI, MainWindow, OtherWindow}
MCScopes == {{UI}, {MainWindow}, {OtherWindow}}
MCWaits == {0, 1}

(* Lease ids and request ids are interchangeable.                          *)
Symmetry == Permutations(MCOwner) \cup Permutations(MCRequestId)

=============================================================================
