--------------------------- MODULE RootRunProofs ---------------------------
(***************************************************************************)
(* Proofs about RootRun, for every sample size and cache size and any      *)
(* number of timers.                                                       *)
(*                                                                         *)
(* The tuning: every multiple of the sample size is met, whoever counts,   *)
(* so the last one that was recorded is the last one there was; and every, *)
(* which grows tenfold, is a multiple of the sample size.                  *)
(*                                                                         *)
(* The timer: of all threads one at most holds the baton, that is, is a    *)
(* timer that can fire or is about to make one.                            *)
(***************************************************************************)
EXTENDS RootRun, TLAPS

-----------------------------------------------------------------------------
(* Quotients and remainders.                                               *)

LEMMA DivisionOf ==
  ASSUME NEW a \in Nat, NEW b \in Nat \ {0}
  PROVE  /\ a \div b \in Nat
         /\ a % b \in 0 .. b - 1
         /\ a = b * (a \div b) + (a % b)
  BY Z3

(* Division with remainder, as one fact.                                   *)
LEMMA QuotientIs ==
  ASSUME NEW b \in Nat \ {0}, NEW q \in Nat, NEW r \in 0 .. b - 1, NEW a \in Nat, a = b * q + r
  PROVE  a \div b = q /\ a % b = r
  BY Z3

(* A count that is no multiple is in the window of the one before it.      *)
LEMMA WindowOfNext ==
  ASSUME NEW a \in Nat, NEW b \in Nat \ {0}
  PROVE  /\ (a + 1) % b = 0 => b * ((a + 1) \div b) = a + 1
         /\ (a + 1) % b # 0 => (a + 1) \div b = a \div b
<1> DEFINE q == a \div b
           r == a % b
<1>1. q \in Nat /\ r \in 0 .. b - 1 /\ a = b * q + r
  BY DivisionOf
<1>2. a + 1 \in Nat /\ b * ((a + 1) \div b) + ((a + 1) % b) = a + 1
  BY DivisionOf
<1>3. CASE r < b - 1
  <2>1. r + 1 \in 0 .. b - 1
    BY <1>1, <1>3
  <2>2. a + 1 = b * q + (r + 1)
    BY <1>1
  <2> HIDE DEF q, r
  <2>3. (a + 1) \div b = q
    BY <1>1, <2>1, <2>2, QuotientIs
  <2>4. QED
    BY <1>2, <2>3, DivisionOf DEF q
<1>4. CASE r = b - 1
  <2>1. a + 1 = b * (q + 1) + 0
    BY <1>1, <1>4
  <2> HIDE DEF q, r
  <2>2. (a + 1) % b = 0
    BY <1>1, <2>1, QuotientIs
  <2>3. QED
    BY <1>2, <2>2, DivisionOf
<1>5. QED
  BY <1>1, <1>3, <1>4

(* The edge of a tuning window is the edge of a sample window.             *)
LEMMA MultipleOfMultiple ==
  ASSUME NEW a \in Nat, NEW s \in Nat \ {0}, NEW k \in Nat \ {0}, a % (s * k) = 0
  PROVE  a % s = 0
<1>1. s * k \in Nat \ {0}
  BY Z3
<1>2. PICK q \in Nat : a = (s * k) * q
  <2>1. a \div (s * k) \in Nat /\ a = (s * k) * (a \div (s * k)) + (a % (s * k))
    BY <1>1, DivisionOf
  <2>2. a = (s * k) * (a \div (s * k))
    BY <1>1, <2>1
  <2>3. QED
    BY <2>1, <2>2
<1>3. k * q \in Nat /\ a = s * (k * q) + 0
  BY <1>2, Z3
<1>4. QED
  BY <1>3, QuotientIs

-----------------------------------------------------------------------------
(* The tuning of the cache.                                                *)

CacheTypes ==
  /\ sample \in Nat /\ capacity \in Nat
  /\ diffCount \in Nat /\ prevDiff \in Nat
  /\ hits \in Nat /\ prevHits \in Nat
  /\ enabled \in BOOLEAN

(* every is sample times something, and a cache of no size is never on.    *)
EveryIsWindows == sample > 0 => \E k \in Nat \ {0} : every = sample * k
OnlyIfCached == enabled => capacity > 0

CacheInv == CacheTypes /\ EveryIsWindows /\ OnlyIfCached /\ WindowIsOneSample

(* The counters of an empty cache agree.                                   *)
LEMMA CacheInitHolds == Init => CacheInv
<1> SUFFICES ASSUME CacheInit PROVE CacheInv
  BY DEF Init
<1> USE CacheAssumption DEF CacheInit
<1>1. CacheTypes /\ OnlyIfCached
  <2>1. /\ sample \in Nat /\ capacity \in Nat
        /\ diffCount \in Nat /\ prevDiff \in Nat
        /\ hits \in Nat /\ prevHits \in Nat
    OBVIOUS
  <2>2. enabled \in BOOLEAN
    <3>1. (capacity > 0) \in BOOLEAN
      BY <2>1
    <3>2. QED
      BY <3>1, Zenon
  <2>3. OnlyIfCached
    BY Zenon DEF OnlyIfCached
  <2>4. QED
    BY <2>1, <2>2, <2>3 DEF CacheTypes
<1>2. EveryIsWindows
  BY DEF EveryIsWindows
<1>3. WindowIsOneSample
  <2>1. ASSUME Tunes PROVE 0 \div sample = 0
    <3>1. sample \in Nat \ {0} /\ 0 = sample * 0 + 0
      BY <1>1, <2>1 DEF Tunes, CacheTypes
    <3>2. QED
      BY <3>1, QuotientIs
  <2>2. QED
    BY <1>1, <2>1 DEF WindowIsOneSample, CacheTypes, Tunes
<1>4. QED
  BY <1>1, <1>2, <1>3 DEF CacheInv

(* A count moves the window exactly when it takes a sample.                *)
LEMMA CountKeepsInv == CacheInv /\ CountDiff => CacheInv'
<1> SUFFICES ASSUME CacheInv, CountDiff PROVE CacheInv'
  OBVIOUS
<1> DEFINE count == diffCount + 1
<1>1. CacheTypes'
  <2>1. /\ sample' \in Nat /\ capacity' \in Nat
        /\ diffCount' \in Nat /\ prevDiff' \in Nat
        /\ hits' \in Nat /\ prevHits' \in Nat
    BY DEF CacheInv, CacheTypes, CountDiff
  <2>2. enabled' \in BOOLEAN
    BY Zenon DEF CountDiff, ReEnables
  <2>3. QED
    BY <2>1, <2>2 DEF CacheTypes
<1>2. EveryIsWindows'
  <2>1. ASSUME sample > 0, NEW k \in Nat \ {0}, every = sample * k
        PROVE  \E n \in Nat \ {0} : every * 10 = sample * n
    <3>1. k * 10 \in Nat \ {0} /\ every * 10 = sample * (k * 10)
      BY <2>1, Z3 DEF CacheInv, CacheTypes
    <3>2. QED
      BY <3>1
  <2>2. QED
    BY <2>1 DEF CacheInv, CacheTypes, EveryIsWindows, CountDiff
<1>3. OnlyIfCached'
  BY DEF CacheInv, CacheTypes, OnlyIfCached, CountDiff, ReEnables, Tunes
<1>4. WindowIsOneSample'
  <2> SUFFICES ASSUME Tunes
               PROVE  prevDiff' = sample * (count \div sample) /\ prevHits' <= hits
    BY DEF WindowIsOneSample, CountDiff, Tunes
  <2>1. sample \in Nat \ {0} /\ diffCount \in Nat /\ prevDiff = sample * (diffCount \div sample)
    BY DEF CacheInv, CacheTypes, WindowIsOneSample, Tunes
  <2>2. CASE count % sample = 0
    BY <2>1, <2>2, WindowOfNext DEF CountDiff, TakesSample, CacheInv, CacheTypes
  <2>3. CASE count % sample # 0
    BY <2>1, <2>3, WindowOfNext DEF CountDiff, TakesSample, CacheInv, CacheTypes, WindowIsOneSample
  <2>4. QED
    BY <2>2, <2>3
<1>5. QED
  BY <1>1, <1>2, <1>3, <1>4 DEF CacheInv

(* The other steps of the diff leave the window alone, and the timer all   *)
(* of it.                                                                  *)
LEMMA NextKeepsCacheInv == CacheInv /\ [Next]_vars => CacheInv'
<1> SUFFICES ASSUME CacheInv, [Next]_vars PROVE CacheInv'
  OBVIOUS
<1> USE DEF CacheInv, CacheTypes, EveryIsWindows, OnlyIfCached, WindowIsOneSample, Tunes
<1>1. CASE UNCHANGED cacheVars
  BY <1>1 DEF cacheVars
<1>2. CASE Diff
  <2>1. CASE CountDiff
    BY <2>1, CountKeepsInv
  <2>2. CASE Measured
    BY <2>2 DEF Measured
  <2>3. ASSUME NEW k \in Keys, Measure(k) PROVE CacheInv'
    BY <2>3 DEF Measure
  <2>4. ASSUME NEW k \in Keys, Hit(k) PROVE CacheInv'
    BY <2>4 DEF Hit
  <2>5. QED
    BY <1>2, <2>1, <2>2, <2>3, <2>4 DEF Diff, CacheNext
<1>3. QED
  BY <1>1, <1>2 DEF Next, StartTimer, Escape, EndDiff, StopTimer, Tick, Finished, vars

(* The ratio of hits to diffs that _auto_off_cache judges is that of one   *)
(* whole window, for every sample size: it never divides by zero.          *)
THEOREM WindowsAreWhole == Spec => []WindowIsOneSample
<1>1. CacheInv => WindowIsOneSample
  BY DEF CacheInv
<1>2. QED
  BY <1>1, CacheInitHolds, NextKeepsCacheInv, PTL DEF Spec

(* The cache is turned on and off at the edges of windows only.            *)
THEOREM TuningMeetsEdges == Spec => TunedAtWindowEdges
<1>1. ASSUME CacheInv, [Next]_vars
      PROVE  [enabled' # enabled => diffCount' # diffCount /\ diffCount' % sample = 0]_cacheVars
  <2> SUFFICES ASSUME enabled' # enabled
               PROVE  diffCount' # diffCount /\ diffCount' % sample = 0
    OBVIOUS
  <2>1. CountDiff
    BY <1>1 DEF Next, StartTimer, Diff, CacheNext, Measured, Measure, Hit, Escape, EndDiff,
                StopTimer, Tick, Finished, vars, cacheVars
  <2>2. diffCount' = diffCount + 1 /\ diffCount' \in Nat /\ diffCount' # diffCount
    BY <1>1, <2>1 DEF CountDiff, CacheInv, CacheTypes
  <2>3. CASE enabled
    BY <2>1, <2>2, <2>3 DEF CountDiff, TakesSample
  <2>4. CASE ~enabled
    <3>1. sample \in Nat \ {0} /\ diffCount' % every = 0
      BY <1>1, <2>1, <2>2, <2>4 DEF CountDiff, ReEnables, Tunes, CacheInv, CacheTypes
    <3>2. PICK k \in Nat \ {0} : every = sample * k
      BY <1>1, <3>1 DEF CacheInv, EveryIsWindows
    <3>3. QED
      BY <2>2, <3>1, <3>2, MultipleOfMultiple
  <2>5. QED
    BY <1>1, <2>3, <2>4 DEF CacheInv, CacheTypes
<1>2. QED
  BY <1>1, CacheInitHolds, NextKeepsCacheInv, PTL DEF Spec, TunedAtWindowEdges

-----------------------------------------------------------------------------
(* The timer.                                                              *)

TimerTypes ==
  /\ pc \in [Threads -> {"test", "create", "arm", "mark", "diff", "cancel", "unmark", "escaped",
                         "new", "armed", "clear", "report", "ended"}]
  /\ timer \in Nat
  /\ made \in 0 .. MaxTimers

(* A thread that can fire, or is on its way to make the next timer.        *)
Baton(th) == pc[th] \in {"clear", "test", "create", "arm", "armed"}

OneBaton == \A a, b \in Threads : Baton(a) /\ Baton(b) => a = b

(* A timer is new until the thread that makes it arms it.                  *)
LaterAreNew == \A t \in Timers : t > made => pc[t] = "new"
ToBeArmed ==
  \A th \in Threads : pc[th] = "arm" => timer = made /\ timer \in Timers /\ pc[timer] = "new"

ArmedIsCurrent == \A t \in Timers : pc[t] = "armed" => t = timer

(* Once stop() has cancelled, and nobody was re-arming, the baton can only *)
(* be with a timer that will not fire.                                     *)
StopIsFinal ==
  pc[Main] \in {"unmark", "ended"} /\ ~overlapped =>
    \A t \in Timers : Baton(t) => pc[t] = "armed" /\ t \in cancelled

TimerInv ==
  TimerTypes /\ OneBaton /\ LaterAreNew /\ ToBeArmed /\ ArmedIsCurrent /\ StopIsFinal

(* No timer runs to begin with.                                            *)
LEMMA TimerInitHolds == Init => TimerInv
<1> SUFFICES ASSUME TimerInit PROVE TimerInv
  BY DEF Init
<1>1. PICK first \in {"test", "diff"} :
        pc = [th \in Threads |-> IF th = Main THEN first ELSE "new"]
  BY DEF TimerInit
<1>2. \A t \in Timers : t # Main
  BY TimerAssumption DEF Timers
<1>3. TimerTypes
  BY <1>1, TimerAssumption DEF TimerTypes, TimerInit, NoTimer
<1>4. OneBaton /\ LaterAreNew /\ ToBeArmed /\ ArmedIsCurrent /\ StopIsFinal
  BY <1>1, <1>2 DEF OneBaton, Baton, LaterAreNew, ToBeArmed, ArmedIsCurrent, StopIsFinal, Threads
<1>5. QED
  BY <1>3, <1>4 DEF TimerInv

(* A step that moves one thread only, and not into the baton unless it has *)
(* it, passes nothing on.                                                  *)
LEMMA MoveKeepsInv ==
  ASSUME TimerInv, NEW th \in Threads, NEW next,
         next \in {"test", "create", "mark", "diff", "cancel", "unmark", "escaped",
                   "clear", "report", "ended"},
         next \in {"test", "create", "clear"} => Baton(th),
         pc[th] # "new",
         th = Main /\ next \in {"unmark", "ended"} => StopIsFinal',
         th # Main /\ pc[Main] \in {"unmark", "ended"} /\ ~overlapped =>
           next \notin {"clear", "test", "create"},
         pc' = [pc EXCEPT ![th] = next],
         timer' = timer, made' = made,
         cancelled \subseteq cancelled',
         th # Main => overlapped' = overlapped
  PROVE  TimerInv'
<1> USE TimerAssumption DEF TimerInv, Baton, Threads, Timers
<1>1. TimerTypes'
  BY DEF TimerTypes
<1>2. \A a \in Threads : pc'[a] = IF a = th THEN next ELSE pc[a]
  BY DEF TimerTypes
<1>3. OneBaton'
  BY <1>2 DEF OneBaton
<1>4. LaterAreNew'
  BY <1>2 DEF LaterAreNew, TimerTypes
<1>5. ToBeArmed'
  BY <1>2 DEF ToBeArmed, LaterAreNew, OneBaton, TimerTypes
<1>6. ArmedIsCurrent'
  BY <1>2 DEF ArmedIsCurrent
<1>7. StopIsFinal'
  <2>1. CASE th = Main
    BY <1>2, <2>1 DEF StopIsFinal
  <2>2. CASE th # Main
    BY <1>2, <2>2 DEF StopIsFinal
  <2>3. QED
    BY <2>1, <2>2
<1>8. QED
  BY <1>1, <1>3, <1>4, <1>5, <1>6, <1>7

(* A thread creates a timer with the baton, and passes it on by arming.    *)
LEMMA CreateKeepsInv ==
  ASSUME TimerInv, NEW th \in Threads, Create(th)
  PROVE  TimerInv'
<1> USE TimerAssumption DEF TimerInv, Baton, Threads, Timers, Create, GoTo
<1>1. TimerTypes'
  BY DEF TimerTypes
<1>2. \A a \in Threads : pc'[a] = IF a = th THEN "arm" ELSE pc[a]
  BY DEF TimerTypes
<1>3. OneBaton'
  BY <1>2 DEF OneBaton
<1>4. LaterAreNew'
  BY <1>2 DEF LaterAreNew, TimerTypes
<1>5. ToBeArmed'
  <2>1. \A a \in Threads : pc'[a] = "arm" => a = th
    BY <1>2 DEF OneBaton
  <2>2. timer' = made' /\ timer' \in Timers /\ timer' > made
    BY DEF TimerTypes
  <2>3. pc[timer'] = "new"
    BY <2>2 DEF LaterAreNew
  <2>4. QED
    BY <1>2, <2>1, <2>2, <2>3 DEF ToBeArmed
<1>6. ArmedIsCurrent'
  BY <1>2 DEF ArmedIsCurrent, OneBaton
<1>7. StopIsFinal'
  BY <1>2 DEF StopIsFinal
<1>8. QED
  BY <1>1, <1>3, <1>4, <1>5, <1>6, <1>7

(* Starting the timer passes the baton to the timer.                       *)
LEMMA ArmKeepsInv ==
  ASSUME TimerInv, NEW th \in Threads, Arm(th)
  PROVE  TimerInv'
<1> USE TimerAssumption DEF TimerInv, Baton, Threads, Timers, Arm
<1>1. timer = made /\ timer \in Timers /\ pc[timer] = "new" /\ timer # th
  BY DEF ToBeArmed
<1>2. TimerTypes'
  BY <1>1 DEF TimerTypes
<1>3. \A a \in Threads :
        pc'[a] = IF a = timer THEN "armed" ELSE IF a = th THEN "mark" ELSE pc[a]
  BY <1>1 DEF TimerTypes
<1>11. pc[th] = "arm" /\ Baton(th) /\ UNCHANGED <<timer, made, cancelled, overlapped>>
  OBVIOUS
<1> HIDE DEF Arm
<1>4. OneBaton'
  BY <1>3, <1>11 DEF OneBaton
<1>5. LaterAreNew'
  BY <1>1, <1>3, <1>11 DEF LaterAreNew, TimerTypes
<1>6. ToBeArmed'
  <2>1. \A a \in Threads : pc'[a] # "arm"
    BY <1>3, <1>11 DEF OneBaton
  <2>2. QED
    BY <2>1 DEF ToBeArmed
<1>7. ArmedIsCurrent'
  BY <1>3, <1>11 DEF ArmedIsCurrent, OneBaton
<1>8. StopIsFinal'
  <2> SUFFICES ASSUME pc'[Main] \in {"unmark", "ended"}, ~overlapped'
               PROVE  FALSE
    BY DEF StopIsFinal
  <2>1. Main # timer /\ Main \in Threads
    BY <1>1
  <2>2. th # Main /\ pc[Main] \in {"unmark", "ended"} /\ ~overlapped
    BY <1>3, <1>11, <2>1
  <2>3. QED
    BY <2>2, <1>11 DEF StopIsFinal
<1>9. QED
  BY <1>2, <1>4, <1>5, <1>6, <1>7, <1>8

(* stop() cancels the timer that has the baton, unless somebody is         *)
(* re-arming.                                                              *)
LEMMA CancelKeepsInv == TimerInv /\ Cancel => TimerInv'
<1> SUFFICES ASSUME TimerInv, Cancel PROVE TimerInv'
  OBVIOUS
<1> USE DEF Cancel
<1>1. Main \in Threads /\ pc' = [pc EXCEPT ![Main] = "unmark"]
  BY DEF Threads, GoTo
<1>2. \A t \in Timers : t # Main /\ t \in Threads /\ pc'[t] = pc[t]
  BY <1>1, TimerAssumption DEF Timers, Threads, TimerInv, TimerTypes
<1>3. StopIsFinal'
  <2> SUFFICES ASSUME ~overlapped', NEW t \in Timers, Baton(t)'
               PROVE  pc'[t] = "armed" /\ t \in cancelled'
    BY DEF StopIsFinal
  <2>1. pc[t] = "armed"
    BY <1>2 DEF Baton, Rearming
  <2>2. t = timer
    BY <2>1 DEF TimerInv, ArmedIsCurrent
  <2>3. QED
    BY <1>2, <2>1, <2>2
<1>4. pc[Main] # "new"
  OBVIOUS
<1>5. QED
  BY <1>1, <1>3, <1>4, MoveKeepsInv

(* start(), whoever runs it, keeps the baton unique.                       *)
LEMMA StartKeepsInv ==
  ASSUME TimerInv, NEW th \in Threads, Start(th)
  PROVE  TimerInv'
<1>1. CASE TestRunning(th)
  <2>1. PICK next \in {"diff", "report", "create"} : pc' = [pc EXCEPT ![th] = next]
    BY <1>1 DEF TestRunning, GoTo, AfterStart
  <2>2. pc[th] = "test" /\ Baton(th) /\ UNCHANGED <<timer, made, cancelled, overlapped>>
    BY <1>1 DEF TestRunning, Baton
  <2>3. th # Main /\ pc[Main] \in {"unmark", "ended"} /\ ~overlapped => next # "create"
    BY <2>2 DEF TimerInv, StopIsFinal, Threads
  <2>4. QED
    BY <2>1, <2>2, <2>3, MoveKeepsInv
<1>2. CASE Create(th)
  BY <1>2, CreateKeepsInv
<1>3. CASE Arm(th)
  BY <1>3, ArmKeepsInv
<1>4. CASE Mark(th)
  <2>1. PICK next \in {"diff", "report"} : pc' = [pc EXCEPT ![th] = next]
    BY <1>4 DEF Mark, GoTo, AfterStart
  <2>2. pc[th] = "mark" /\ UNCHANGED <<timer, made, cancelled, overlapped>>
    BY <1>4 DEF Mark
  <2>3. QED
    BY <2>1, <2>2, MoveKeepsInv
<1>5. QED
  BY <1>1, <1>2, <1>3, <1>4 DEF Start

(* _run() of a timer keeps the baton unique; a cancelled timer drops it.   *)
LEMMA RunKeepsInv ==
  ASSUME TimerInv, NEW t \in Timers, Run(t)
  PROVE  TimerInv'
<1> t \in Threads /\ t # Main
  BY TimerAssumption DEF Threads, Timers
<1>1. CASE Fire(t)
  <2>1. PICK next \in {"ended", "clear"} : pc' = [pc EXCEPT ![t] = next]
    BY <1>1 DEF Fire, GoTo
  <2>2. pc[t] = "armed" /\ Baton(t) /\ UNCHANGED <<timer, made, cancelled, overlapped>>
    BY <1>1 DEF Fire, Baton
  <2>3. pc[Main] \in {"unmark", "ended"} /\ ~overlapped => next = "ended"
    <3>1. t \in cancelled => pc' = [pc EXCEPT ![t] = "ended"]
      BY <1>1 DEF Fire, GoTo
    <3>2. t \in cancelled => next = "ended"
      BY <2>1, <3>1 DEF TimerInv, TimerTypes
    <3>3. QED
      BY <2>2, <3>2 DEF TimerInv, StopIsFinal
  <2>4. QED
    BY <2>1, <2>2, <2>3, MoveKeepsInv
<1>2. CASE ClearRunning(t)
  <2>1. pc[t] = "clear" /\ Baton(t) /\ pc' = [pc EXCEPT ![t] = "test"]
    BY <1>2 DEF ClearRunning, Baton, GoTo
  <2>2. UNCHANGED <<timer, made, cancelled, overlapped>>
    BY <1>2 DEF ClearRunning
  <2>3. ~(pc[Main] \in {"unmark", "ended"} /\ ~overlapped)
    BY <2>1 DEF TimerInv, StopIsFinal
  <2>4. QED
    BY <2>1, <2>2, <2>3, MoveKeepsInv
<1>3. CASE Start(t)
  BY <1>3, StartKeepsInv
<1>4. CASE Report(t)
  <2>1. pc[t] = "report" /\ pc' = [pc EXCEPT ![t] = "ended"]
    BY <1>4 DEF Report, GoTo
  <2>2. UNCHANGED <<timer, made, cancelled, overlapped>>
    BY <1>4 DEF Report
  <2>3. QED
    BY <2>1, <2>2, MoveKeepsInv
<1>5. QED
  BY <1>1, <1>2, <1>3, <1>4 DEF Run

(* A diff that ends without a timer has nothing to stop.                   *)
LEMMA MainKeepsInv == TimerInv /\ (Escape \/ EndDiff \/ Unmark) => TimerInv'
<1> SUFFICES ASSUME TimerInv, Escape \/ EndDiff \/ Unmark PROVE TimerInv'
  OBVIOUS
<1>1. Main \in Threads /\ \A t \in Timers : t # Main
  BY TimerAssumption DEF Threads, Timers
<1>2. CASE Escape
  BY <1>1, <1>2, MoveKeepsInv DEF Escape, GoTo
<1>3. CASE EndDiff /\ made # 0
  BY <1>1, <1>3, MoveKeepsInv DEF EndDiff, GoTo
<1>4. CASE EndDiff /\ made = 0
  <2>1. pc[Main] = "diff" /\ pc' = [pc EXCEPT ![Main] = "ended"]
    BY <1>4 DEF EndDiff, GoTo
  <2>2. UNCHANGED <<timer, made, cancelled, overlapped>>
    BY <1>4 DEF EndDiff
  <2>3. \A t \in Timers : pc[t] = "new"
    BY <1>4, TimerAssumption DEF TimerInv, LaterAreNew, Timers
  <2>4. \A t \in Timers : pc'[t] = "new"
    BY <1>1, <2>1, <2>3 DEF TimerInv, TimerTypes, Threads
  <2>5. StopIsFinal'
    BY <2>4 DEF StopIsFinal, Baton
  <2>6. QED
    BY <1>1, <2>1, <2>2, <2>5, MoveKeepsInv
<1>5. CASE Unmark
  <2>1. pc[Main] = "unmark" /\ pc' = [pc EXCEPT ![Main] = "ended"]
    BY <1>5 DEF Unmark, GoTo
  <2>2. UNCHANGED <<timer, made, cancelled, overlapped>>
    BY <1>5 DEF Unmark
  <2>3. \A t \in Timers : pc'[t] = pc[t]
    BY <1>1, <2>1 DEF TimerInv, TimerTypes, Threads
  <2>4. StopIsFinal'
    BY <2>1, <2>2, <2>3 DEF TimerInv, StopIsFinal, Baton
  <2>5. QED
    BY <1>1, <2>1, <2>2, <2>4, MoveKeepsInv
<1>6. QED
  BY <1>2, <1>3, <1>4, <1>5

(* Every step keeps the baton unique.                                      *)
LEMMA NextKeepsTimerInv == TimerInv /\ [Next]_vars => TimerInv'
<1> SUFFICES ASSUME TimerInv, [Next]_vars PROVE TimerInv'
  OBVIOUS
<1>1. CASE UNCHANGED timerVars
  BY <1>1 DEF timerVars, TimerInv, TimerTypes, OneBaton, Baton, LaterAreNew, ToBeArmed,
              ArmedIsCurrent, StopIsFinal
<1>2. CASE StartTimer
  BY <1>2, StartKeepsInv DEF StartTimer, Threads
<1>3. CASE StopTimer
  BY <1>3, CancelKeepsInv, MainKeepsInv DEF StopTimer, Stop
<1>4. ASSUME NEW t \in Timers, Tick(t) PROVE TimerInv'
  BY <1>4, RunKeepsInv DEF Tick
<1>5. CASE Escape \/ EndDiff
  BY <1>5, MainKeepsInv
<1>6. QED
  BY <1>1, <1>2, <1>3, <1>4, <1>5 DEF Next, Diff, Finished, vars

(* There is never a second timer that can fire: the one that stop() will   *)
(* cancel is the only one, however the threads interleave.                 *)
THEOREM OneTimerIsLive == Spec => []OnlyCurrentIsLive
<1>1. TimerInv => OnlyCurrentIsLive
  BY DEF TimerInv, ArmedIsCurrent, OnlyCurrentIsLive, Live
<1>2. QED
  BY <1>1, TimerInitHolds, NextKeepsTimerInv, PTL DEF Spec

(* After a stop() that met nobody re-arming no report is to come.          *)
THEOREM StopSilences == Spec => []SilentAfterStop
<1>1. TimerInv => SilentAfterStop
  BY DEF TimerInv, StopIsFinal, SilentAfterStop, Live, Baton
<1>2. QED
  BY <1>1, TimerInitHolds, NextKeepsTimerInv, PTL DEF Spec

=============================================================================
