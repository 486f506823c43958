--------------------------- MODULE ParallelBatch ---------------------------
(***************************************************************************)
(* One parallel section of an ignore_order diff: compute_distances_parallel*)
(* (and, with the same control flow, compute_subtree_diffs_parallel and    *)
(* compute_hashes_parallel) of deepdiff/_multiprocessing.py, the           *)
(* ProcessPoolExecutor under it, and the caller in diff.py that decides    *)
(* whether to go parallel, merges the workers' statistics and runs the     *)
(* jobs serially when the section returns None.                            *)
(*                                                                         *)
(* A job is known by its index in the serial nested-loop order.  What its  *)
(* item does to the machinery is its kind, chosen once in Init; what it    *)
(* evaluates to is SerialValue[job], in a worker as in the parent.         *)
(***************************************************************************)
EXTENDS Naturals, FiniteSets, SequencesExt

CONSTANTS
  MaxJobs,      \* bound on the number of jobs of the section
  Configs,      \* the MPConfig values normalize_mp_config may give
  Values,       \* distances, hashes or lists of leaves
  SerialValue,  \* job -> the value the serial loop computes
  NoValue,      \* no entry in results_by_index
  NoAnswer,     \* the section has not returned
  Raised,       \* the section raised
  LimitJobs     \* jobs whose worker trips max_diffs or max_passes

(* Every job index there may be.                                           *)
Indexes == 0 .. (MaxJobs - 1)

(***************************************************************************)
(* What becomes of a job in the pool:                                      *)
(*   "value"     its worker returns SerialValue                            *)
(*   "unlisted"  its item does not pickle, and the exception is none of    *)
(*               PicklingError, AttributeError, TypeError                  *)
(*   "unpicklable" its item does not pickle, with one of those three       *)
(*   "typeerror" its worker function raises one of those three             *)
(*   "error"     its worker function raises anything else                  *)
(***************************************************************************)
Transport == {"unpicklable", "unlisted"}
InWorker  == {"typeerror", "error"}
Kinds     == {"value"} \cup Transport \cup InWorker

(* The exception classes the orchestrators turn into a serial fallback.    *)
Listed == {"unpicklable", "typeerror"}

ASSUME BatchAssumption ==
  /\ MaxJobs \in Nat
  /\ Configs \subseteq [enabled: BOOLEAN, workers: Nat \ {0}, threshold: Nat]
  /\ SerialValue \in [Indexes -> Values]
  /\ NoValue \notin Values
  /\ NoAnswer # Raised
  /\ \A n \in 0 .. MaxJobs : {NoAnswer, Raised} \cap [0 .. (n - 1) -> Values] = {}
  /\ LimitJobs \subseteq Indexes

VARIABLES
  count,       \* number of jobs of this section
  config,      \* MPConfig, as normalized by DeepDiff.__init__
  paramsOk,    \* sanitized parameters and compare function pickle
  kind,        \* job -> what becomes of it in the pool
  serialFails, \* jobs whose serial evaluation raises
  phase,       \* where the parent is
  submitted,   \* number of executor.submit calls made
  started,     \* number of jobs the pool has taken from its queue
  running,     \* jobs in a worker process
  finished,    \* jobs whose future is done
  lost,        \* jobs whose future failed because the pool broke
  broken,      \* a worker process died
  collected,   \* jobs as_completed has yielded, in that order
  results,     \* results_by_index
  caught,      \* class of the exception being handled
  stats,       \* the WORKER_* entries of the parent's _stats
  serialNext,  \* next job of the serial loop
  answer       \* what the section gave its caller

input == <<count, config, paramsOk, kind, serialFails>>
pool  == <<started, running, finished, lost, broken>>
loop  == <<collected, results, caught>>
vars  == <<input, phase, submitted, pool, loop, stats, serialNext, answer>>

Jobs      == 0 .. (count - 1)
Submitted == 0 .. (submitted - 1)

(***************************************************************************)
(* Configuration                                                           *)
(***************************************************************************)
(* MPConfig.should_parallelize, and the caller's test of mp_config.enabled.*)
ShouldParallelize(n) ==
  config.enabled /\ config.workers > 1 /\ n >= config.threshold

(* The picklability checks made before the pool exists: the parameters,    *)
(* the compare function, and the first job only.                           *)
SamplePickles == paramsOk /\ (0 \in Jobs => kind[0] \notin Transport)

NoStats == [merged |-> <<>>, batches |-> 0, limit |-> FALSE]

(* _aggregate_worker_stats followed by _merge_worker_stats: the WORKER_*   *)
(* counters are sums, kept here as the jobs whose counters were added.     *)
Merged(s, jobs) ==
  [merged  |-> s.merged \o jobs,
   batches |-> s.batches + 1,
   limit   |-> s.limit \/ ToSet(jobs) \cap LimitJobs # {}]

Init ==
  /\ count \in 0 .. MaxJobs
  /\ config \in Configs
  /\ paramsOk \in BOOLEAN
  /\ kind \in [Jobs -> Kinds]
  /\ serialFails \in SUBSET {j \in Jobs : kind[j] # "value"}
  /\ phase = "idle"
  /\ submitted = 0
  /\ started = 0
  /\ running = {}
  /\ finished = {}
  /\ lost = {}
  /\ broken = FALSE
  /\ collected = <<>>
  /\ results = [j \in Jobs |-> NoValue]
  /\ caught = "none"
  /\ stats = NoStats
  /\ serialNext = 0
  /\ answer = NoAnswer

(***************************************************************************)
(* The parent                                                              *)
(***************************************************************************)
(* Below threshold, disabled or failing a picklability check: serial loop. *)
BeginSerial ==
  /\ phase = "idle"
  /\ ~ShouldParallelize(count) \/ (count > 0 /\ ~SamplePickles)
  /\ phase' = "serial"
  /\ UNCHANGED <<input, submitted, pool, loop, stats, serialNext, answer>>

(* With no job and threshold 0 the section answers {} and counts a batch.  *)
BeginEmpty ==
  /\ phase = "idle"
  /\ ShouldParallelize(count)
  /\ count = 0
  /\ phase' = "done"
  /\ stats' = Merged(stats, <<>>)
  /\ answer' = results
  /\ UNCHANGED <<input, submitted, pool, loop, serialNext>>

BeginParallel ==
  /\ phase = "idle"
  /\ ShouldParallelize(count)
  /\ count > 0
  /\ SamplePickles
  /\ phase' = "submitting"
  /\ UNCHANGED <<input, submitted, pool, loop, stats, serialNext, answer>>

(* Mutant: the submission loop runs once too often.                        *)
SubmitOneTooMany ==
  /\ phase = "submitting"
  /\ submitted' = submitted + 1
  /\ phase' = IF submitted = count THEN "collecting" ELSE phase
  /\ UNCHANGED <<input, caught, pool, collected, results, stats, serialNext, answer>>

(* One executor.submit of the list comprehension; on a broken pool submit  *)
(* raises BrokenProcessPool, which the except clause does not list.        *)
Submit ==
  /\ phase = "submitting"
  /\ IF broken
       THEN /\ phase' = "draining"
            /\ caught' = "error"
            /\ UNCHANGED submitted
       ELSE /\ submitted' = submitted + 1
            /\ phase' = IF submitted' = count THEN "collecting" ELSE phase
            /\ UNCHANGED caught
  /\ UNCHANGED <<input, pool, collected, results, stats, serialNext, answer>>

(* What future.result() does: the class of exception it raises, or none.   *)
Failure(j) ==
  IF j \in lost THEN "error"
  ELSE IF kind[j] = "value" THEN "none"
  ELSE IF kind[j] \in Listed THEN "listed" ELSE "error"

(* Mutant: results are stored in completion order.                         *)
CollectInCompletionOrder(j) ==
  /\ phase = "collecting"
  /\ j \in finished \ ToSet(collected)
  /\ Failure(j) = "none"
  /\ results' = [results EXCEPT ![Len(collected)] = SerialValue[j]]
  /\ collected' = Append(collected, j)
  /\ UNCHANGED <<input, phase, submitted, pool, caught, stats, serialNext, answer>>

(* Mutant: statistics are merged as each future completes.                 *)
CollectAndMerge(j) ==
  /\ phase = "collecting"
  /\ j \in finished \ ToSet(collected)
  /\ Failure(j) = "none"
  /\ results' = [results EXCEPT ![j] = SerialValue[j]]
  /\ collected' = Append(collected, j)
  /\ stats' = [Merged(stats, <<j>>) EXCEPT !.batches = 1]
  /\ UNCHANGED <<input, phase, submitted, pool, caught, serialNext, answer>>

(* as_completed yields some future that is done, in no particular order;   *)
(* its result is stored under the job's index.                             *)
CollectResult(j) ==
  /\ phase = "collecting"
  /\ j \in finished \ ToSet(collected)
  /\ Failure(j) = "none"
  /\ results' = [results EXCEPT ![j] = SerialValue[j]]
  /\ collected' = Append(collected, j)
  /\ UNCHANGED <<input, phase, submitted, pool, caught, stats, serialNext, answer>>

(* An exception leaves the loop; the with statement then shuts the pool    *)
(* down, which waits for every submitted job.                              *)
CollectFailure(j) ==
  /\ phase = "collecting"
  /\ j \in finished \ ToSet(collected)
  /\ Failure(j) # "none"
  /\ caught' = Failure(j)
  /\ phase' = "draining"
  /\ UNCHANGED <<input, submitted, pool, collected, results, stats, serialNext, answer>>

(* Mutant: results go out as soon as no finished future is left to yield.  *)
ReturnEarly ==
  /\ phase = "collecting"
  /\ finished = ToSet(collected)
  /\ phase' = "done"
  /\ stats' = Merged(stats, collected)
  /\ answer' = results
  /\ UNCHANGED <<input, submitted, pool, loop, serialNext>>

(* Every future yielded: results go out in job order, statistics are       *)
(* merged by the caller.                                                   *)
ReturnResults ==
  /\ phase = "collecting"
  /\ ToSet(collected) = Jobs
  /\ phase' = "done"
  /\ stats' = Merged(stats, collected)
  /\ answer' = results
  /\ UNCHANGED <<input, submitted, pool, loop, serialNext>>

(* Mutant: the pool is shut down without waiting for its workers.          *)
HandleFailureWithoutWaiting ==
  /\ phase = "draining"
  /\ IF caught = "listed"
       THEN phase' = "serial" /\ UNCHANGED answer
       ELSE phase' = "done" /\ answer' = Raised
  /\ UNCHANGED <<input, submitted, pool, loop, stats, serialNext>>

(* Mutant: a listed exception makes the section start over in a new pool.  *)
HandleFailureByRetrying ==
  /\ phase = "draining"
  /\ finished = Submitted
  /\ phase' = "idle"
  /\ submitted' = 0
  /\ started' = 0
  /\ finished' = {}
  /\ lost' = {}
  /\ broken' = FALSE
  /\ collected' = <<>>
  /\ results' = [j \in Jobs |-> NoValue]
  /\ caught' = "none"
  /\ UNCHANGED <<input, running, stats, serialNext, answer>>

(* After the shutdown, the except clause: None for the listed classes, and *)
(* the caller runs the serial loop; anything else propagates.              *)
HandleFailure ==
  /\ phase = "draining"
  /\ finished = Submitted
  /\ IF caught = "listed"
       THEN phase' = "serial" /\ UNCHANGED answer
       ELSE phase' = "done" /\ answer' = Raised
  /\ UNCHANGED <<input, submitted, pool, loop, stats, serialNext>>

(* The serial loop evaluates the next job in the parent.                   *)
SerialJob ==
  /\ phase = "serial"
  /\ serialNext < count
  /\ IF serialNext \in serialFails
       THEN phase' = "done" /\ answer' = Raised /\ UNCHANGED serialNext
       ELSE serialNext' = serialNext + 1 /\ UNCHANGED <<phase, answer>>
  /\ UNCHANGED <<input, submitted, pool, loop, stats>>

SerialReturn ==
  /\ phase = "serial"
  /\ serialNext = count
  /\ phase' = "done"
  /\ answer' = [j \in Jobs |-> SerialValue[j]]
  /\ UNCHANGED <<input, submitted, pool, loop, stats, serialNext>>

(***************************************************************************)
(* The pool: concurrent.futures, modelled from its documented behaviour    *)
(***************************************************************************)
(* The queue is first in first out; an item that does not pickle fails its *)
(* future without reaching a worker.                                       *)
TakeJob ==
  /\ started < submitted
  /\ ~broken
  /\ IF kind[started] \in Transport
       THEN finished' = finished \cup {started} /\ UNCHANGED running
       ELSE /\ Cardinality(running) < config.workers
            /\ running' = running \cup {started}
            /\ UNCHANGED finished
  /\ started' = started + 1
  /\ UNCHANGED <<input, phase, submitted, lost, broken, loop, stats, serialNext, answer>>

FinishJob(j) ==
  /\ j \in running
  /\ running' = running \ {j}
  /\ finished' = finished \cup {j}
  /\ UNCHANGED <<input, phase, submitted, started, lost, broken, loop, stats, serialNext, answer>>

(* A worker process dies: the pool is broken and every future that is not  *)
(* done fails.                                                             *)
PoolBreaks ==
  /\ running # {}
  /\ broken' = TRUE
  /\ lost' = Submitted \ finished
  /\ finished' = Submitted
  /\ running' = {}
  /\ UNCHANGED <<input, phase, submitted, started, loop, stats, serialNext, answer>>

(* Nothing is left to do: the section has returned or raised.              *)
Finished == phase = "done" /\ UNCHANGED vars

Parent ==
  \/ BeginSerial \/ BeginEmpty \/ BeginParallel
  \/ Submit
  \/ \E j \in Jobs : CollectResult(j) \/ CollectFailure(j)
  \/ ReturnResults \/ HandleFailure
  \/ SerialJob \/ SerialReturn

Worker == TakeJob \/ \E j \in Jobs : FinishJob(j)

Next == Parent \/ Worker \/ PoolBreaks \/ Finished

Spec == Init /\ [][Next]_vars

(* The parent runs until it blocks on the pool; the operating system runs  *)
(* the worker processes, and every job function terminates.                *)
FairSpec == Spec /\ WF_vars(Parent) /\ WF_vars(TakeJob)
                 /\ \A j \in Indexes : WF_vars(FinishJob(j))

(***************************************************************************)
(* Properties                                                              *)
(***************************************************************************)
Phases == {"idle", "submitting", "collecting", "draining", "serial", "done"}

(* Types, and the bounds of the pool's bookkeeping.                        *)
TypeOK ==
  /\ count \in 0 .. MaxJobs
  /\ config \in Configs
  /\ paramsOk \in BOOLEAN
  /\ kind \in [Jobs -> Kinds]
  /\ serialFails \subseteq {j \in Jobs : kind[j] # "value"}
  /\ phase \in Phases
  /\ submitted \in 0 .. count
  /\ started \in 0 .. submitted
  /\ running \subseteq Jobs
  /\ finished \subseteq Jobs
  /\ lost \subseteq Jobs
  /\ broken \in BOOLEAN
  /\ collected \in Seq(Jobs)
  /\ results \in [Jobs -> Values \cup {NoValue}]
  /\ caught \in {"none", "listed", "error"}
  /\ stats \in [merged: Seq(Jobs), batches: Nat, limit: BOOLEAN]
  /\ serialNext \in 0 .. count
  /\ answer \in [Jobs -> Values \cup {NoValue}] \cup {NoAnswer, Raised}

(* Whatever the completion order, the number of workers and the failures,  *)
(* an answer is the serial answer: every job is there, under its own index *)
(* ("A supported multiprocessing run must produce the same public DeepDiff *)
(* result as the equivalent serial run").                                  *)
AnswerIsSerial == answer \notin {NoAnswer, Raised} => answer = [j \in Jobs |-> SerialValue[j]]

(* A batch is counted in the WORKER_* statistics whole or not at all: with *)
(* every job once when its results are used, and not when the section fell *)
(* back to the serial loop or raised.                                      *)
StatsAllOrNothing ==
  \/ stats = NoStats
  \/ /\ phase = "done"
     /\ answer # Raised
     /\ serialNext = 0
     /\ stats.batches = 1
     /\ ToSet(stats.merged) = Jobs
     /\ IsInjective(stats.merged)
     /\ stats.limit = (LimitJobs \cap Jobs # {})

(* The parent never moves on to the serial loop, returns or raises while a *)
(* worker process still runs a job of the section.                         *)
NoWorkerOutlivesSection == phase \in {"serial", "done"} => running = {}

(* Every section ends, answered or raised, if workers are scheduled.       *)
SectionEnds == <>(phase = "done")

(***************************************************************************)
(* Refinement                                                              *)
(***************************************************************************)
anyFault == broken \/ \E j \in Jobs : kind[j] # "value"

Contract == INSTANCE BatchContract WITH fault <- anyFault

(* The pool, its fallback and its failures implement the section's promise.*)
MeetsContract == Contract!Spec
=============================================================================
