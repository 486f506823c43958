-------------------------- MODULE MCParallelBatch --------------------------
(***************************************************************************)
(* Sections of up to three jobs, each with a value of its own, so that a   *)
(* result stored under another index is seen; two or three worker          *)
(* processes, or a configuration that keeps the section serial (disabled,  *)
(* one worker, a threshold above the number of jobs).                      *)
(***************************************************************************)
EXTENDS ParallelBatch

ThreeValues == {"v0", "v1", "v2"}
ThreeSerial == (0 :> "v0") @@ (1 :> "v1") @@ (2 :> "v2")

SomeConfigs ==
  { [enabled |-> TRUE,  workers |-> 2, threshold |-> 0],
    [enabled |-> TRUE,  workers |-> 3, threshold |-> 3],
    [enabled |-> TRUE,  workers |-> 1, threshold |-> 0],
    [enabled |-> FALSE, workers |-> 2, threshold |-> 0] }

TwoLimitJobs == {1, 2}
=============================================================================
