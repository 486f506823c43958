--------------------------- MODULE RepeatedTimer ---------------------------
(***************************************************************************)
(* RepeatedTimer of deepdiff/helper.py: the progress report in a thread of *)
(* its own, every log_frequency_in_sec.  The thread of DeepDiff makes the  *)
(* first threading.Timer and stops the last one; each timer that fires     *)
(* makes the next in its own thread.  Nothing is locked, so the steps of   *)
(* these threads interleave attribute by attribute.                        *)
(***************************************************************************)
EXTENDS Naturals

CONSTANTS
  MaxTimers,  \* bound on the timers made
  Main        \* the thread of DeepDiff

Timers  == 1 .. MaxTimers
Threads == Timers \cup {Main}
NoTimer == 0

ASSUME TimerAssumption == MaxTimers \in Nat \ {0} /\ Main \notin Nat

VARIABLES
  isRunning,  \* is_running
  timer,      \* _timer
  made,       \* timers made so far
  cancelled,  \* timers on which cancel was called
  pc,         \* what each thread does next
  overlapped  \* was stop called while a callback was re-arming? (history)

timerVars == <<isRunning, timer, made, cancelled, pc, overlapped>>

(* Where start() is to return to in a thread: a callback reports.          *)
AfterStart(th) == IF th = Main THEN "diff" ELSE "report"

TimerInit ==
  /\ isRunning = FALSE
  /\ timer = NoTimer
  /\ made = 0
  /\ cancelled = {}
  /\ \E first \in {"test", "diff"} :   \* without log_frequency_in_sec no timer is made
       pc = [th \in Threads |-> IF th = Main THEN first ELSE "new"]
  /\ overlapped = FALSE

GoTo(th, next) == pc' = [pc EXCEPT ![th] = next]

(***************************************************************************)
(* start()                                                                 *)
(***************************************************************************)
(* The duration for the report, and the test of is_running.                *)
TestRunning(th) ==
  /\ pc[th] = "test"
  /\ GoTo(th, IF isRunning THEN AfterStart(th) ELSE "create")
  /\ UNCHANGED <<isRunning, timer, made, cancelled, overlapped>>

(* Mutant: the timer is made and started, but not kept in _timer.          *)
CreateLocal(th) ==
  /\ pc[th] = "create"
  /\ made < MaxTimers
  /\ made' = made + 1
  /\ timer' = IF timer = NoTimer THEN made + 1 ELSE timer
  /\ pc' = [pc EXCEPT ![th] = "mark", ![made + 1] = "armed"]
  /\ UNCHANGED <<isRunning, cancelled, overlapped>>

(* self._timer = Timer(self.interval, self._run).                          *)
Create(th) ==
  /\ pc[th] = "create"
  /\ made < MaxTimers
  /\ made' = made + 1
  /\ timer' = made + 1
  /\ GoTo(th, "arm")
  /\ UNCHANGED <<isRunning, cancelled, overlapped>>

(* self._timer.start(), of the timer the attribute holds by now.           *)
Arm(th) ==
  /\ pc[th] = "arm"
  /\ pc' = [pc EXCEPT ![th] = "mark", ![timer] = "armed"]
  /\ UNCHANGED <<isRunning, timer, made, cancelled, overlapped>>

(* self.is_running = True.                                                 *)
Mark(th) ==
  /\ pc[th] = "mark"
  /\ isRunning' = TRUE
  /\ GoTo(th, AfterStart(th))
  /\ UNCHANGED <<timer, made, cancelled, overlapped>>

Start(th) == TestRunning(th) \/ Create(th) \/ Arm(th) \/ Mark(th)

(***************************************************************************)
(* _run(), in the thread of a timer                                        *)
(***************************************************************************)
(* Mutant: the timer fires although it was cancelled.                      *)
FireAnyway(t) ==
  /\ pc[t] = "armed"
  /\ GoTo(t, "clear")
  /\ UNCHANGED <<isRunning, timer, made, cancelled, overlapped>>

(* The interval is over: the timer fires, unless cancel came first.        *)
Fire(t) ==
  /\ pc[t] = "armed"
  /\ GoTo(t, IF t \in cancelled THEN "ended" ELSE "clear")
  /\ UNCHANGED <<isRunning, timer, made, cancelled, overlapped>>

(* self.is_running = False.                                                *)
ClearRunning(t) ==
  /\ pc[t] = "clear"
  /\ isRunning' = FALSE
  /\ GoTo(t, "test")
  /\ UNCHANGED <<timer, made, cancelled, overlapped>>

(* self.function(...): _report_progress, which reads the counters.         *)
Report(t) ==
  /\ pc[t] = "report"
  /\ GoTo(t, "ended")
  /\ UNCHANGED <<isRunning, timer, made, cancelled, overlapped>>

Run(t) == Fire(t) \/ ClearRunning(t) \/ Start(t) \/ Report(t)

(***************************************************************************)
(* stop()                                                                  *)
(***************************************************************************)
(* The timer has fired and its successor is not started yet.               *)
Rearming(t) == pc[t] \in {"clear", "test", "create", "arm"}

(* Mutant: the first timer is cancelled, which may have fired long ago.    *)
CancelFirst ==
  /\ pc[Main] = "cancel"
  /\ cancelled' = cancelled \cup {1}
  /\ overlapped' = \E t \in Timers : Rearming(t)
  /\ GoTo(Main, "unmark")
  /\ UNCHANGED <<isRunning, timer, made>>

(* self._timer.cancel().                                                   *)
Cancel ==
  /\ pc[Main] = "cancel"
  /\ cancelled' = cancelled \cup {timer}
  /\ overlapped' = \E t \in Timers : Rearming(t)
  /\ GoTo(Main, "unmark")
  /\ UNCHANGED <<isRunning, timer, made>>

(* self.is_running = False.                                                *)
Unmark ==
  /\ pc[Main] = "unmark"
  /\ isRunning' = FALSE
  /\ GoTo(Main, "ended")
  /\ UNCHANGED <<timer, made, cancelled, overlapped>>

Stop == Cancel \/ Unmark

(***************************************************************************)
(* Properties                                                              *)
(***************************************************************************)
(* Timers that can still fire.                                             *)
Live == {t \in Timers : pc[t] = "armed" /\ t \notin cancelled}

(* stop() cancels the one that matters: a timer that can still fire is the *)
(* one _timer holds, so there is never a second one.                       *)
OnlyCurrentIsLive == Live \subseteq {timer}

(* After stop() no timer is left to report, unless a callback was re-arming*)
(* when stop() ran: the timer it makes is cancelled by nobody.  A callback *)
(* that has begun by then may still report, once.                          *)
SilentAfterStop == pc[Main] = "ended" /\ ~overlapped => Live = {}
=============================================================================
