------------------------- MODULE MCCommandLeases -------------------------
(***************************************************************************)
(* Instances of CommandLeases for TLC: two commands, a parent resource and *)
(* one of its children.                                                    *)
(***************************************************************************)
EXTENDS CommandLeases

CONSTANTS c1, c2

UI == <<"ui">>
MainWindow == <<"ui", "window", "main">>

MCOwner == {c1, c2}
MCRequestId == {c1, c2}
MCHttp == {c1}
MCResource == {UI, MainWindow}
MCScopes == {{UI}, {MainWindow}}
MCWaits == {1}

=============================================================================
