--------------------------- MODULE BatchContract ---------------------------
(***************************************************************************)
(* What one optionally parallel section of DeepDiff promises its caller    *)
(* (docs/multi_processing.md, "Determinism Contract"): whatever the worker *)
(* pool does, the section either answers with the value the serial loop    *)
(* computes for every job, or raises, and it raises only when something    *)
(* went wrong.  How many workers ran, in which order they finished and     *)
(* whether the parallel path was taken at all cannot be seen here.         *)
(***************************************************************************)

EXTENDS Naturals

CONSTANTS
  SerialValue,  \* the value the serial loop computes for each job
  NoAnswer,     \* the section has not returned
  Raised        \* the section raised

VARIABLES
  count,        \* number of jobs; job j is the j-th of the serial loop, from 0
  answer,       \* NoAnswer, Raised, or the value of every job
  fault         \* has any job failed, or the pool broken, so far

Init == /\ count \in Nat
        /\ answer = NoAnswer
        /\ fault \in BOOLEAN

Fault == /\ answer = NoAnswer
         /\ fault' = TRUE
         /\ UNCHANGED <<count, answer>>

Answer == /\ answer = NoAnswer
          /\ answer' = [j \in 0 .. (count - 1) |-> SerialValue[j]]
          /\ UNCHANGED <<count, fault>>

Raise == /\ answer = NoAnswer
         /\ fault
         /\ answer' = Raised
         /\ UNCHANGED <<count, fault>>

Next == Fault \/ Answer \/ Raise

Spec == Init /\ [][Next]_<<count, answer, fault>>
=============================================================================
