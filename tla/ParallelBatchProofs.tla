------------------------ MODULE ParallelBatchProofs ------------------------
(***************************************************************************)
(* Proofs about ParallelBatch, for any number of jobs, workers and any     *)
(* failures.                                                               *)
(*                                                                         *)
(* AnswerIsSerial is not inductive: that the results handed out are those  *)
(* of the serial loop rests on every collected job having its serial value *)
(* under its own index, that nothing still runs on the pool being done     *)
(* with all it was given, and that the section raises only after a failure *)
(* on the exception in hand being one.  IInv gathers these facts.          *)
(***************************************************************************)
EXTENDS ParallelBatch, TLAPS

(* A job is queued, running or finished, in the order of submission; a     *)
(* broken pool runs nothing and has failed all it was given.               *)
PoolInv ==
  /\ running \cap finished = {}
  /\ running \cup finished \subseteq Submitted
  /\ ~broken => lost = {} /\ running \cup finished = 0 .. (started - 1)
  /\ broken => running = {} /\ finished = Submitted

(* How far the submission has come in each phase, and where the pool must  *)
(* be at rest.                                                             *)
PhaseInv ==
  /\ phase = "idle" => submitted = 0
  /\ phase = "submitting" => submitted < count
  /\ phase = "collecting" => submitted = count
  /\ phase \notin {"serial", "done"} => serialNext = 0
  /\ phase \in {"serial", "done"} => running = {} /\ finished = Submitted

(* Each collected job was yielded once, with its serial value under its    *)
(* own index.                                                              *)
CollectInv ==
  /\ ToSet(collected) \subseteq finished
  /\ IsInjective(collected)
  /\ \A j \in ToSet(collected) : results[j] = SerialValue[j]

(* An exception in hand has a cause.                                       *)
FaultInv ==
  /\ phase = "draining" => caught # "none"
  /\ caught # "none" => anyFault

Serial == [j \in Jobs |-> SerialValue[j]]

AnswerInv ==
  /\ phase # "done" => answer = NoAnswer
  /\ phase = "done" => answer \in {Raised, Serial}

StatsInv ==
  /\ phase # "done" => stats = NoStats
  /\ StatsAllOrNothing

IInv == TypeOK /\ PoolInv /\ PhaseInv /\ CollectInv /\ FaultInv /\ AnswerInv /\ StatsInv

-----------------------------------------------------------------------------
(* What Append does to the set of the elements and to injectivity.         *)
LEMMA AppendFacts ==
  ASSUME NEW S, NEW s \in Seq(S), NEW x \in S
  PROVE  /\ Append(s, x) \in Seq(S)
         /\ ToSet(Append(s, x)) = ToSet(s) \cup {x}
         /\ IsInjective(s) /\ x \notin ToSet(s) => IsInjective(Append(s, x))
<1>1. Append(s, x) \in Seq(S)
  OBVIOUS
<1>2. /\ DOMAIN Append(s, x) = 1 .. Len(s) + 1
      /\ DOMAIN s = 1 .. Len(s)
      /\ \A i \in 1 .. Len(s) : Append(s, x)[i] = s[i]
      /\ Append(s, x)[Len(s) + 1] = x
      /\ Len(s) \in Nat
  OBVIOUS
<1>3. ToSet(Append(s, x)) = ToSet(s) \cup {x}
  <2>1. \A i \in 1 .. Len(s) + 1 : i \in 1 .. Len(s) \/ i = Len(s) + 1
    BY <1>2
  <2>2. 1 .. Len(s) \subseteq 1 .. Len(s) + 1 /\ Len(s) + 1 \in 1 .. Len(s) + 1
    BY <1>2
  <2> QED BY <1>2, <2>1, <2>2, Zenon DEF ToSet
<1>4. ASSUME IsInjective(s), x \notin ToSet(s) PROVE IsInjective(Append(s, x))
  <2>1. ASSUME NEW i \in 1 .. Len(s) + 1, NEW k \in 1 .. Len(s) + 1,
               Append(s, x)[i] = Append(s, x)[k]
        PROVE  i = k
    <3>1. CASE i \in 1 .. Len(s) /\ k \in 1 .. Len(s)
      BY <3>1, <2>1, <1>2, <1>4 DEF IsInjective
    <3>2. CASE i \in 1 .. Len(s) /\ k = Len(s) + 1
      BY <3>2, <2>1, <1>2, <1>4 DEF ToSet
    <3>3. CASE i = Len(s) + 1 /\ k \in 1 .. Len(s)
      BY <3>3, <2>1, <1>2, <1>4 DEF ToSet
    <3> QED BY <3>1, <3>2, <3>3, <1>2
  <2> QED BY <2>1, <1>2 DEF IsInjective
<1> QED BY <1>1, <1>3, <1>4

(* What merging the statistics of a section's jobs into NoStats gives.     *)
LEMMA MergedFacts ==
  ASSUME NEW S, NEW jobs \in Seq(S)
  PROVE  /\ NoStats \in [merged: Seq(S), batches: Nat, limit: BOOLEAN]
         /\ Merged(NoStats, jobs) \in [merged: Seq(S), batches: Nat, limit: BOOLEAN]
         /\ Merged(NoStats, jobs).merged = jobs
         /\ Merged(NoStats, jobs).batches = 1
         /\ Merged(NoStats, jobs).limit = (ToSet(jobs) \cap LimitJobs # {})
<1>1. <<>> \in Seq(S) /\ <<>> \o jobs = jobs
  OBVIOUS
<1>2. NoStats.merged = <<>> /\ NoStats.batches = 0 /\ NoStats.limit = FALSE
  BY DEF NoStats
<1>3. Merged(NoStats, jobs) =
        [merged |-> jobs, batches |-> 1, limit |-> ToSet(jobs) \cap LimitJobs # {}]
  <2>1. 0 + 1 = 1
    OBVIOUS
  <2> QED BY <1>1, <1>2, <2>1, Zenon DEF Merged
<1>4. (ToSet(jobs) \cap LimitJobs # {}) \in BOOLEAN
  OBVIOUS
<1>5. NoStats \in [merged: Seq(S), batches: Nat, limit: BOOLEAN]
  BY <1>1 DEF NoStats
<1>6. Merged(NoStats, jobs) \in [merged: Seq(S), batches: Nat, limit: BOOLEAN]
  BY <1>3, <1>4, SMT
<1>7. /\ Merged(NoStats, jobs).merged = jobs
      /\ Merged(NoStats, jobs).batches = 1
      /\ Merged(NoStats, jobs).limit = (ToSet(jobs) \cap LimitJobs # {})
  <2> DEFINE b == ToSet(jobs) \cap LimitJobs # {}
  <2>1. Merged(NoStats, jobs) = [merged |-> jobs, batches |-> 1, limit |-> b]
    BY <1>3
  <2> HIDE DEF b
  <2>2. /\ Merged(NoStats, jobs).merged = jobs
        /\ Merged(NoStats, jobs).batches = 1
        /\ Merged(NoStats, jobs).limit = b
    BY <2>1
  <2> QED BY <2>2 DEF b
<1> QED BY <1>5, <1>6, <1>7

-----------------------------------------------------------------------------
(* The invariant holds before the first job.                               *)
LEMMA InitInv == Init => IInv
<1> SUFFICES ASSUME Init PROVE IInv
  OBVIOUS
<1> USE DEF Init
<1>1. TypeOK
  <2>1. <<>> \in Seq(Jobs)
    OBVIOUS
  <2>2. NoStats \in [merged: Seq(Jobs), batches: Nat, limit: BOOLEAN]
    BY <2>1, MergedFacts
  <2>3. results \in [Jobs -> Values \cup {NoValue}]
    OBVIOUS
  <2>4. 0 \in 0 .. count
    BY BatchAssumption
  <2>5. started \in 0 .. submitted
    OBVIOUS
  <2> QED BY <2>1, <2>2, <2>3, <2>4, <2>5 DEF TypeOK, Phases
<1>2. PoolInv /\ PhaseInv /\ FaultInv /\ AnswerInv
  BY DEF PoolInv, PhaseInv, FaultInv, AnswerInv, Submitted
<1>3. CollectInv
  BY DEF CollectInv, ToSet, IsInjective
<1>4. StatsInv
  BY DEF StatsInv, StatsAllOrNothing
<1> QED BY <1>1, <1>2, <1>3, <1>4 DEF IInv

(* Every step keeps the types.                                             *)
LEMMA TypeStep == IInv /\ [Next]_vars => TypeOK'
<1> SUFFICES ASSUME IInv, [Next]_vars PROVE TypeOK'
  OBVIOUS
<1> USE BatchAssumption DEF Jobs, Submitted, Indexes, Phases
<1>0. TypeOK /\ PoolInv /\ PhaseInv /\ StatsInv
  BY DEF IInv
<1> USE <1>0 DEF TypeOK, input, pool, loop
<1>1. CASE BeginSerial
  BY <1>1 DEF BeginSerial
<1>2. CASE BeginEmpty
  BY <1>2, MergedFacts DEF BeginEmpty, StatsInv
<1>3. CASE BeginParallel
  BY <1>3 DEF BeginParallel
<1>4. CASE Submit
  BY <1>4 DEF Submit, PhaseInv
<1>5. ASSUME NEW j \in Jobs, CollectResult(j) PROVE TypeOK'
  <2>1. j \in Indexes /\ SerialValue[j] \in Values
    OBVIOUS
  <2>2. collected' \in Seq(Jobs)
    BY <1>5 DEF CollectResult
  <2>3. results' \in [Jobs -> Values \cup {NoValue}]
    BY <1>5, <2>1 DEF CollectResult
  <2> QED BY <1>5, <2>2, <2>3 DEF CollectResult
<1>6. ASSUME NEW j \in Jobs, CollectFailure(j) PROVE TypeOK'
  BY <1>6 DEF CollectFailure, Failure
<1>7. CASE ReturnResults
  BY <1>7, MergedFacts DEF ReturnResults, StatsInv
<1>8. CASE HandleFailure
  BY <1>8 DEF HandleFailure
<1>9. CASE SerialJob
  BY <1>9 DEF SerialJob
<1>10. CASE SerialReturn
  BY <1>10 DEF SerialReturn
<1>11. CASE TakeJob
  <2>1. started \in Jobs /\ started + 1 \in 0 .. submitted
    BY <1>11 DEF TakeJob
  <2>2. started' \in 0 .. submitted /\ finished' \subseteq Jobs /\ running' \subseteq Jobs
    BY <1>11, <2>1 DEF TakeJob
  <2> QED BY <1>11, <2>2 DEF TakeJob
<1>12. ASSUME NEW j \in Jobs, FinishJob(j) PROVE TypeOK'
  BY <1>12 DEF FinishJob
<1>13. CASE PoolBreaks
  BY <1>13 DEF PoolBreaks
<1>14. CASE UNCHANGED vars
  BY <1>14 DEF vars
<1> QED
  BY <1>1, <1>2, <1>3, <1>4, <1>5, <1>6, <1>7, <1>8, <1>9, <1>10, <1>11, <1>12,
     <1>13, <1>14 DEF Next, Parent, Worker, Finished

(* Every step keeps the pool's bookkeeping.                                *)
LEMMA PoolStep == IInv /\ [Next]_vars => PoolInv'
<1> SUFFICES ASSUME IInv, [Next]_vars PROVE PoolInv'
  OBVIOUS
<1>0. TypeOK /\ PoolInv /\ PhaseInv
  BY DEF IInv
<1>t. /\ count \in Nat /\ submitted \in Nat /\ started \in Nat
      /\ submitted <= count /\ started <= submitted
  BY <1>0, BatchAssumption DEF TypeOK
<1> USE <1>0 DEF PoolInv, Submitted, pool, loop, input
<1>1. CASE UNCHANGED <<submitted, pool>>
  BY <1>1
<1>2. CASE Submit
  <2>1. CASE broken
    BY <1>2, <2>1 DEF Submit
  <2>2. CASE ~broken
    BY <1>2, <2>2, <1>t DEF Submit
  <2> QED BY <2>1, <2>2
<1>3. CASE TakeJob
  <2>1. 0 .. started' - 1 = (0 .. started - 1) \cup {started}
    BY <1>3, <1>t DEF TakeJob
  <2>2. started \notin running \cup finished
    BY <1>3, <1>t DEF TakeJob
  <2>3. started \in Submitted
    BY <1>3, <1>t DEF TakeJob
  <2> QED BY <1>3, <2>1, <2>2, <2>3 DEF TakeJob
<1>4. ASSUME NEW j \in Jobs, FinishJob(j) PROVE PoolInv'
  BY <1>4 DEF FinishJob
<1>5. CASE PoolBreaks
  BY <1>5 DEF PoolBreaks
<1> QED
  BY <1>1, <1>2, <1>3, <1>4, <1>5
  DEF Next, Parent, Worker, Finished, vars, BeginSerial, BeginEmpty, BeginParallel,
      CollectResult, CollectFailure, ReturnResults, HandleFailure, SerialJob, SerialReturn

(* Every step keeps the phases' bookkeeping.                               *)
LEMMA PhaseStep == IInv /\ [Next]_vars => PhaseInv'
<1> SUFFICES ASSUME IInv, [Next]_vars PROVE PhaseInv'
  OBVIOUS
<1>0. TypeOK /\ PoolInv /\ PhaseInv /\ CollectInv
  BY DEF IInv
<1>t. /\ count \in Nat /\ submitted \in Nat /\ started \in Nat
      /\ submitted <= count /\ started <= submitted
      /\ phase \in Phases
  BY <1>0, BatchAssumption DEF TypeOK
<1> USE <1>0, <1>t DEF PhaseInv, Submitted, Jobs, pool, loop, input, Phases
<1>1. CASE BeginSerial
  BY <1>1 DEF BeginSerial, PoolInv
<1>2. CASE BeginEmpty
  BY <1>2 DEF BeginEmpty, PoolInv
<1>3. CASE BeginParallel
  BY <1>3 DEF BeginParallel
<1>4. CASE Submit
  BY <1>4 DEF Submit
<1>5. ASSUME NEW j \in Jobs, CollectResult(j) PROVE PhaseInv'
  BY <1>5 DEF CollectResult
<1>6. ASSUME NEW j \in Jobs, CollectFailure(j) PROVE PhaseInv'
  BY <1>6 DEF CollectFailure
<1>7. CASE ReturnResults
  <2>1. Submitted = Jobs /\ Jobs \subseteq finished
    BY <1>7 DEF ReturnResults, CollectInv
  <2> QED BY <1>7, <2>1 DEF ReturnResults, PoolInv
<1>8. CASE HandleFailure
  BY <1>8 DEF HandleFailure, PoolInv
<1>9. CASE SerialJob
  BY <1>9 DEF SerialJob
<1>10. CASE SerialReturn
  BY <1>10 DEF SerialReturn
<1>11. CASE TakeJob
  <2>1. started \in Submitted \ (0 .. started - 1)
    BY <1>11 DEF TakeJob
  <2>2. phase \notin {"serial", "done"}
    BY <1>11, <2>1 DEF TakeJob, PoolInv
  <2> QED BY <1>11, <2>2 DEF TakeJob
<1>12. ASSUME NEW j \in Jobs, FinishJob(j) PROVE PhaseInv'
  BY <1>12 DEF FinishJob
<1>13. CASE PoolBreaks
  BY <1>13 DEF PoolBreaks
<1>14. CASE UNCHANGED vars
  BY <1>14 DEF vars
<1> QED
  BY <1>1, <1>2, <1>3, <1>4, <1>5, <1>6, <1>7, <1>8, <1>9, <1>10, <1>11, <1>12,
     <1>13, <1>14 DEF Next, Parent, Worker, Finished

(* Every step keeps the collected results right.                           *)
LEMMA CollectStep == IInv /\ [Next]_vars => CollectInv'
<1> SUFFICES ASSUME IInv, [Next]_vars PROVE CollectInv'
  OBVIOUS
<1>0. TypeOK /\ PoolInv /\ PhaseInv /\ CollectInv
  BY DEF IInv
<1>1. CASE UNCHANGED <<collected, results, finished>>
  BY <1>0, <1>1 DEF CollectInv
<1>2. ASSUME NEW j \in Jobs, CollectResult(j) PROVE CollectInv'
  <2>1. collected \in Seq(Jobs) /\ results \in [Jobs -> Values \cup {NoValue}]
    BY <1>0 DEF TypeOK
  <2>2. /\ collected' = Append(collected, j)
        /\ j \in finished \ ToSet(collected)
        /\ finished' = finished
    BY <1>2 DEF CollectResult, pool
  <2>3. /\ ToSet(collected') = ToSet(collected) \cup {j}
        /\ IsInjective(collected')
    BY <1>0, <2>1, <2>2, AppendFacts DEF CollectInv
  <2>4. results'[j] = SerialValue[j] /\ \A i \in Jobs \ {j} : results'[i] = results[i]
    BY <1>2, <2>1 DEF CollectResult
  <2>5. ToSet(collected) \subseteq Jobs
    BY <1>0 DEF CollectInv, TypeOK
  <2> QED BY <1>0, <2>2, <2>3, <2>4, <2>5 DEF CollectInv
<1>3. CASE TakeJob
  BY <1>0, <1>3 DEF TakeJob, CollectInv, loop
<1>4. ASSUME NEW j \in Jobs, FinishJob(j) PROVE CollectInv'
  BY <1>0, <1>4 DEF FinishJob, CollectInv, loop
<1>5. CASE PoolBreaks
  BY <1>0, <1>5 DEF PoolBreaks, CollectInv, PoolInv, loop
<1> QED
  BY <1>1, <1>2, <1>3, <1>4, <1>5
  DEF Next, Parent, Worker, Finished, vars, pool, loop, BeginSerial, BeginEmpty,
      BeginParallel, Submit, CollectFailure, ReturnResults, HandleFailure, SerialJob,
      SerialReturn

(* A failed future tells of a fault.                                       *)
LEMMA FailureFacts ==
  ASSUME TypeOK, PoolInv, NEW j \in Jobs, Failure(j) # "none"
  PROVE  anyFault
<1>1. CASE j \in lost
  BY <1>1 DEF PoolInv, TypeOK, anyFault
<1>2. CASE j \notin lost
  BY <1>2 DEF Failure, anyFault
<1> QED BY <1>1, <1>2

(* A fault is never forgotten: kinds are fixed, a broken pool stays broken.*)
LEMMA FaultStays == [Next]_vars /\ anyFault => anyFault'
<1> SUFFICES ASSUME [Next]_vars, anyFault PROVE anyFault'
  OBVIOUS
<1>1. UNCHANGED input /\ (broken => broken')
  BY DEF Next, Parent, Worker, Finished, vars, pool, BeginSerial, BeginEmpty,
      BeginParallel, Submit, CollectResult, CollectFailure, ReturnResults,
      HandleFailure, SerialJob, SerialReturn, TakeJob, FinishJob, PoolBreaks
<1> QED BY <1>1 DEF anyFault, input, Jobs

(* Every step keeps a cause for the exception in hand.                     *)
LEMMA FaultStep == IInv /\ [Next]_vars => FaultInv'
<1> SUFFICES ASSUME IInv, [Next]_vars PROVE FaultInv'
  OBVIOUS
<1>0. TypeOK /\ PoolInv /\ FaultInv /\ (anyFault => anyFault')
  BY FaultStays DEF IInv
<1>1. CASE Submit
  BY <1>0, <1>1 DEF Submit, FaultInv, anyFault
<1>2. ASSUME NEW j \in Jobs, CollectFailure(j) PROVE FaultInv'
  BY <1>0, <1>2, FailureFacts DEF CollectFailure, FaultInv
<1>3. CASE UNCHANGED caught /\ (phase' = "draining" => phase = "draining")
  BY <1>0, <1>3 DEF FaultInv
<1> QED
  BY <1>1, <1>2, <1>3
  DEF Next, Parent, Worker, Finished, vars, loop, BeginSerial, BeginEmpty,
      BeginParallel, CollectResult, ReturnResults, HandleFailure, SerialJob,
      SerialReturn, TakeJob, FinishJob, PoolBreaks

(* The results handed out are those of the serial loop.                    *)
LEMMA ResultsAreSerial ==
  ASSUME TypeOK, CollectInv, ToSet(collected) = Jobs
  PROVE  results = Serial
<1>1. results \in [Jobs -> Values \cup {NoValue}]
  BY DEF TypeOK
<1>2. \A j \in Jobs : results[j] = SerialValue[j]
  BY DEF CollectInv
<1> QED BY <1>1, <1>2 DEF Serial

(* Every step answers serially, raises or leaves the answer alone.         *)
LEMMA AnswerStep == IInv /\ [Next]_vars => AnswerInv'
<1> SUFFICES ASSUME IInv, [Next]_vars PROVE AnswerInv'
  OBVIOUS
<1>0. TypeOK /\ CollectInv /\ AnswerInv
  BY DEF IInv
<1>c. Serial' = Serial
  BY DEF Serial, Jobs, Next, Parent, Worker, Finished, vars, input, BeginSerial,
      BeginEmpty, BeginParallel, Submit, CollectResult, CollectFailure, ReturnResults,
      HandleFailure, SerialJob, SerialReturn, TakeJob, FinishJob, PoolBreaks
<1>1. CASE BeginEmpty
  <2>1. results = Serial
    <3>1. Jobs = {}
      BY <1>1 DEF BeginEmpty, Jobs
    <3> QED BY <1>0, <3>1 DEF Serial, TypeOK
  <2> QED BY <1>1, <1>c, <2>1 DEF BeginEmpty, AnswerInv
<1>2. CASE ReturnResults
  BY <1>0, <1>2, <1>c, ResultsAreSerial DEF ReturnResults, AnswerInv
<1>3. CASE HandleFailure
  BY <1>0, <1>3, <1>c DEF HandleFailure, AnswerInv
<1>4. CASE SerialJob
  BY <1>0, <1>4, <1>c DEF SerialJob, AnswerInv
<1>5. CASE SerialReturn
  BY <1>5, <1>c DEF SerialReturn, AnswerInv, Serial
<1>6. CASE UNCHANGED answer /\ (phase' = "done" <=> phase = "done")
  BY <1>0, <1>6, <1>c DEF AnswerInv
<1> QED
  BY <1>1, <1>2, <1>3, <1>4, <1>5, <1>6
  DEF Next, Parent, Worker, Finished, vars, BeginSerial, BeginParallel, Submit,
      CollectResult, CollectFailure, TakeJob, FinishJob, PoolBreaks

(* Every step merges the statistics of the whole batch or none.            *)
LEMMA StatsStep == IInv /\ [Next]_vars => StatsInv'
<1> SUFFICES ASSUME IInv, [Next]_vars PROVE StatsInv'
  OBVIOUS
<1>0. TypeOK /\ CollectInv /\ PhaseInv /\ StatsInv /\ AnswerInv
  BY DEF IInv
<1>r. Raised # Serial
  <2>1. Serial \in [Jobs -> Values]
    BY <1>0, BatchAssumption DEF Serial, Jobs, TypeOK, Indexes
  <2>2. Raised \notin [Jobs -> Values]
    BY <1>0, BatchAssumption DEF Jobs, TypeOK
  <2> QED BY <2>1, <2>2
<1>1. CASE BeginEmpty
  <2>1. /\ Jobs = {} /\ Jobs' = {} /\ ToSet(<<>>) = {} /\ IsInjective(<<>>)
        /\ <<>> \in Seq(Jobs)
    BY <1>1 DEF BeginEmpty, Jobs, input, ToSet, IsInjective
  <2>2. answer' = Serial
    BY <1>0, <1>1, <2>1 DEF BeginEmpty, Serial, TypeOK
  <2>3. stats' = Merged(NoStats, <<>>) /\ phase' = "done" /\ serialNext' = 0
    BY <1>0, <1>1 DEF BeginEmpty, StatsInv, PhaseInv
  <2>4. /\ ToSet(stats'.merged) = {} /\ IsInjective(stats'.merged)
        /\ stats'.batches = 1 /\ stats'.limit = FALSE
    BY <2>1, <2>3, MergedFacts
  <2> QED BY <1>r, <2>1, <2>2, <2>3, <2>4 DEF StatsInv, StatsAllOrNothing
<1>2. CASE ReturnResults
  <2>1. answer' = Serial
    BY <1>0, <1>2, ResultsAreSerial DEF ReturnResults
  <2>2. stats' = Merged(NoStats, collected) /\ phase' = "done" /\ serialNext' = 0
    BY <1>0, <1>2 DEF ReturnResults, StatsInv, PhaseInv
  <2>3. Jobs' = Jobs /\ collected \in Seq(Jobs) /\ ToSet(collected) = Jobs
    BY <1>0, <1>2 DEF ReturnResults, TypeOK, input, Jobs
  <2>4. /\ stats'.merged = collected /\ stats'.batches = 1
        /\ stats'.limit = (ToSet(collected) \cap LimitJobs # {})
    BY <2>2, <2>3, MergedFacts
  <2>5. stats'.limit = (LimitJobs \cap Jobs' # {})
    <3>1. Jobs \cap LimitJobs = LimitJobs \cap Jobs
      OBVIOUS
    <3> QED BY <2>3, <2>4, <3>1
  <2> QED BY <1>0, <1>r, <2>1, <2>2, <2>3, <2>4, <2>5, Zenon
          DEF StatsInv, StatsAllOrNothing, CollectInv
<1>3. CASE UNCHANGED <<stats, phase, answer, serialNext, count>>
  BY <1>0, <1>3 DEF StatsInv, StatsAllOrNothing, Jobs
<1>4. CASE UNCHANGED stats /\ phase # "done"
  BY <1>0, <1>4 DEF StatsInv, StatsAllOrNothing
<1> QED
  BY <1>1, <1>2, <1>3, <1>4
  DEF Next, Parent, Worker, Finished, vars, input, BeginSerial, BeginParallel, Submit,
      CollectResult, CollectFailure, HandleFailure, SerialJob, SerialReturn, TakeJob,
      FinishJob, PoolBreaks

(* The invariant is inductive.                                             *)
LEMMA StepInv == IInv /\ [Next]_vars => IInv'
  BY TypeStep, PoolStep, PhaseStep, CollectStep, FaultStep, AnswerStep, StatsStep
     DEF IInv

(* The inductive invariant holds in every reachable state.                 *)
THEOREM Invariance == Spec => []IInv
  BY InitInv, StepInv, PTL DEF Spec

-----------------------------------------------------------------------------
(* Every reachable state of the section is well typed.                     *)
THEOREM TypeCorrect == Spec => []TypeOK
<1>1. IInv => TypeOK
  BY DEF IInv
<1> QED BY Invariance, <1>1, PTL

(* compute_*_parallel and the fallback of their callers: an answer is the  *)
(* serial loop's, for any completion order, worker count and failures.     *)
THEOREM AnswerCorrect == Spec => []AnswerIsSerial
<1>1. IInv => AnswerIsSerial
  BY DEF IInv, AnswerInv, AnswerIsSerial, Serial
<1> QED BY Invariance, <1>1, PTL

(* _merge_worker_stats: a batch is counted whole or not at all.            *)
THEOREM StatsCorrect == Spec => []StatsAllOrNothing
<1>1. IInv => StatsAllOrNothing
  BY DEF IInv, StatsInv
<1> QED BY Invariance, <1>1, PTL

(* The shutdown of the executor: no worker runs once the parent goes on.   *)
THEOREM PoolIsLeftIdle == Spec => []NoWorkerOutlivesSection
<1>1. IInv => NoWorkerOutlivesSection
  BY DEF IInv, PhaseInv, NoWorkerOutlivesSection
<1> QED BY Invariance, <1>1, PTL

-----------------------------------------------------------------------------
(* The section begins where its contract begins.                           *)
LEMMA ContractInit == Init => Contract!Init
  BY BatchAssumption DEF Init, Contract!Init, anyFault

(* No action but the pool's own makes a fault: FinishJob and TakeJob do    *)
(* not, the death of a worker does, before there is an answer.             *)
LEMMA ContractStep == IInv /\ [Next]_vars => [Contract!Next]_<<count, answer, anyFault>>
<1> SUFFICES ASSUME IInv, [Next]_vars
             PROVE  [Contract!Next]_<<count, answer, anyFault>>
  OBVIOUS
<1>0. TypeOK /\ PoolInv /\ PhaseInv /\ CollectInv /\ FaultInv /\ AnswerInv
  BY DEF IInv
<1>a. phase # "done" => answer = NoAnswer
  BY <1>0 DEF AnswerInv
<1> USE DEF input, anyFault, Jobs, Contract!Next
<1>1. CASE BeginEmpty
  <2>1. answer' = [j \in Jobs |-> SerialValue[j]]
    BY <1>0, <1>1 DEF BeginEmpty, TypeOK
  <2> QED BY <1>1, <1>a, <2>1 DEF BeginEmpty, Contract!Answer, pool
<1>2. CASE ReturnResults
  <2>1. answer' = [j \in Jobs |-> SerialValue[j]]
    BY <1>0, <1>2, ResultsAreSerial DEF ReturnResults, Serial
  <2> QED BY <1>2, <1>a, <2>1 DEF ReturnResults, Contract!Answer, pool
<1>3. CASE HandleFailure
  <2>1. caught # "none" /\ anyFault
    BY <1>0, <1>3 DEF HandleFailure, FaultInv
  <2> QED BY <1>3, <1>a, <2>1 DEF HandleFailure, Contract!Raise, pool
<1>4. CASE SerialJob
  <2>1. serialNext \in serialFails => anyFault
    BY <1>0 DEF TypeOK
  <2> QED BY <1>4, <1>a, <2>1 DEF SerialJob, Contract!Raise, pool
<1>5. CASE SerialReturn
  BY <1>5, <1>a DEF SerialReturn, Contract!Answer, pool
<1>6. CASE PoolBreaks
  <2>1. answer = NoAnswer
    BY <1>0, <1>6, <1>a DEF PoolBreaks, PhaseInv
  <2> QED BY <1>6, <2>1 DEF PoolBreaks, Contract!Fault
<1>7. CASE UNCHANGED <<input, broken, answer>>
  BY <1>7
<1> QED
  BY <1>1, <1>2, <1>3, <1>4, <1>5, <1>6, <1>7
  DEF Next, Parent, Worker, Finished, vars, pool, BeginSerial, BeginParallel, Submit,
      CollectResult, CollectFailure, TakeJob, FinishJob

(* The pool with its failures and fallback implements the contract: what a *)
(* caller of an optionally parallel section sees is BatchContract.         *)
THEOREM ContractMet == Spec => MeetsContract
<1>1. Init => Contract!Init
  BY ContractInit
<1>2. IInv /\ [Next]_vars => [Contract!Next]_<<count, answer, anyFault>>
  BY ContractStep
<1> QED BY Invariance, <1>1, <1>2, PTL DEF Spec, MeetsContract, Contract!Spec
=============================================================================
