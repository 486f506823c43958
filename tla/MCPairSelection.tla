-------------------------- MODULE MCPairSelection --------------------------
(***************************************************************************)
(* Two added and three removed items, so that one added item can have two  *)
(* removed items at one distance while another added item wants one of     *)
(* them; distances 0 and 1 are below the cutoff, 2 is not.                 *)
(***************************************************************************)
EXTENDS PairSelection

CONSTANTS a1, a2, r1, r2, r3

TwoAdded     == {a1, a2}
ThreeRemoved == {r1, r2, r3}
=============================================================================
