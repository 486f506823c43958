----------------------------- MODULE MCRootRun -----------------------------
(***************************************************************************)
(* A sample of two diffs, so that the cache is turned on again at the 20th *)
(* diff, and two timers.                                                   *)
(***************************************************************************)
EXTENDS RootRun

CONSTANTS k1, k2

TwoKeys == {k1, k2}
Samples == {0, 2}
Sizes   == {0, 1}
=============================================================================
