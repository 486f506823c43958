------------------------------ MODULE RootRun ------------------------------
(***************************************************************************)
(* The run of a root DeepDiff (__init__ of deepdiff/diff.py): it sets up   *)
(* the statistics, starts the progress timer, diffs, and in the finally of *)
(* the try stops the timer.  The diff counts (CacheTuning) while the timer *)
(* fires (RepeatedTimer).                                                  *)
(***************************************************************************)
EXTENDS CacheTuning, RepeatedTimer

vars == <<cacheVars, timerVars>>

Init == CacheInit /\ TimerInit

(* The first timer is started, if log_frequency_in_sec is set.             *)
StartTimer == Start(Main) /\ UNCHANGED cacheVars

(* group_by regroups t1 and t2 after the timer is started and before the   *)
(* try: what it raises, other than KeyError and ValueError, escapes.       *)
Escape ==
  /\ pc[Main] = "diff"
  /\ diffCount = 0
  /\ measuring = <<>>
  /\ GoTo(Main, "escaped")
  /\ UNCHANGED <<cacheVars, isRunning, timer, made, cancelled, overlapped>>

Diff == pc[Main] = "diff" /\ CacheNext /\ UNCHANGED timerVars

(* The diff is over or has raised: the finally runs.                       *)
EndDiff ==
  /\ pc[Main] = "diff"
  /\ GoTo(Main, IF made = 0 THEN "ended" ELSE "cancel")
  /\ UNCHANGED <<cacheVars, isRunning, timer, made, cancelled, overlapped>>

StopTimer == Stop /\ UNCHANGED cacheVars

Tick(t) == Run(t) /\ UNCHANGED cacheVars

MainOver == pc[Main] \in {"ended", "escaped"}
Finished == MainOver /\ UNCHANGED vars

Next ==
  \/ StartTimer \/ Escape \/ Diff \/ EndDiff \/ StopTimer
  \/ \E t \in Timers : Tick(t)
  \/ Finished

(* Threads are scheduled; the diff is not required to end.                 *)
Fairness ==
  /\ WF_vars(StopTimer)
  /\ \A t \in Timers : WF_vars(Tick(t))

Spec == Init /\ [][Next]_vars /\ Fairness

(* The interpreter can exit: a stop() that met no callback re-arming       *)
(* leaves no thread behind (threads of timers are not daemons).            *)
Quiet == \A t \in Timers : pc[t] \in {"new", "ended"}
ThreadsEnd == (pc[Main] = "ended" /\ ~overlapped) ~> Quiet
=============================================================================
