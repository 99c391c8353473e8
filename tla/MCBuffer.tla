------------------------------- MODULE MCBuffer -------------------------------
(***************************************************************************)
(* Instances of the shared Go Buffer for TLC.                              *)
(***************************************************************************)
EXTENDS GoBuffer

CONSTANTS g1, g2, g3, b1

OneGoroutine == {g1}
TwoGoroutines == {g1, g2}
ThreeGoroutines == {g1, g2, g3}
OneBlock == {b1}
=============================================================================
