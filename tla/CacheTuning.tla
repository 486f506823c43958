---------------------------- MODULE CacheTuning ----------------------------
(***************************************************************************)
(* The counters and the distance cache a run of DeepDiff shares with the   *)
(* DeepDiffs it makes to measure distances: _count_diff, _auto_tune_cache, *)
(* _auto_off_cache and _get_rough_distance_of_hashed_objs of               *)
(* deepdiff/diff.py, and deepdiff/lfucache.py.                             *)
(***************************************************************************)
EXTENDS Naturals, Sequences, FiniteSets

CONSTANTS
  Keys,         \* cache keys of pairs of items
  SampleSizes,  \* values of cache_tuning_sample_size
  CacheSizes,   \* values of cache_size
  MaxDiffs,     \* bound on DIFF COUNT
  MaxHits,      \* bound on the cache hits between two samples
  MaxDepth,     \* bound on nested distance measurements
  NoKey         \* cache_key=None

ASSUME CacheAssumption ==
  /\ SampleSizes \subseteq Nat /\ CacheSizes \subseteq Nat
  /\ {MaxDiffs, MaxHits, MaxDepth} \subseteq Nat
  /\ NoKey \notin Keys

VARIABLES
  sample,     \* cache_tuning_sample_size
  capacity,   \* cache_size
  diffCount,  \* DIFF COUNT
  hits,       \* DISTANCE CACHE HIT COUNT
  prevDiff,   \* PREVIOUS DIFF COUNT
  prevHits,   \* PREVIOUS DISTANCE CACHE HIT COUNT
  enabled,    \* DISTANCE CACHE ENABLED
  every,      \* _ENABLE_CACHE_EVERY_X_DIFF
  cached,     \* the keys in _distance_cache
  measuring   \* cache_key of each distance being measured, innermost last

cacheVars ==
  <<sample, capacity, diffCount, hits, prevDiff, prevHits, enabled, every, cached, measuring>>

CacheInit ==
  /\ sample \in SampleSizes
  /\ capacity \in CacheSizes
  /\ diffCount = 0
  /\ hits = 0
  /\ prevDiff = 0
  /\ prevHits = 0
  /\ enabled = (capacity > 0)
  /\ every = sample * 10
  /\ cached = {}
  /\ measuring = <<>>

(* _auto_off_cache: fewer hits per diff than CACHE_AUTO_ADJUST_THRESHOLD,  *)
(* which is 0.25, since the last sample.                                   *)
TooFewHits(count) == 4 * (hits - prevHits) < count - prevDiff

Tunes == capacity > 0 /\ sample > 0

(* Mutant: the cache is turned on again at the first diff after the limit. *)
ReEnablesLate(count) == Tunes /\ ~enabled /\ count % (every + 1) = 0

(* The cache is turned on once in a while.                                 *)
ReEnables(count) == Tunes /\ ~enabled /\ count % every = 0

(* Mutant: a sample is recorded only while the cache is enabled.           *)
TakesSampleIfEnabled(count) == Tunes /\ enabled /\ count % sample = 0

TakesSample(count) == Tunes /\ count % sample = 0

(* _count_diff and the tuning of the cache, which follows the count.       *)
CountDiff ==
  /\ diffCount < MaxDiffs
  /\ LET count == diffCount + 1 IN
     /\ diffCount' = count
     /\ enabled' = IF enabled THEN ~(TakesSample(count) /\ TooFewHits(count))
                              ELSE ReEnables(count)
     /\ every' = IF ReEnables(count) THEN every * 10 ELSE every
     /\ prevDiff' = IF TakesSample(count) THEN count ELSE prevDiff
     /\ prevHits' = IF TakesSample(count) THEN hits ELSE prevHits
  /\ UNCHANGED <<sample, capacity, hits, cached, measuring>>

(* The distance of a pair is wanted and is not found in the cache: a       *)
(* nested DeepDiff measures it.                                            *)
Measure(k) ==
  /\ Len(measuring) < MaxDepth
  /\ enabled => k \notin cached
  /\ measuring' = Append(measuring, IF enabled THEN k ELSE NoKey)
  /\ UNCHANGED <<sample, capacity, diffCount, hits, prevDiff, prevHits, enabled, every, cached>>

(* It is found.                                                            *)
Hit(k) ==
  /\ enabled
  /\ k \in cached
  /\ hits - prevHits < MaxHits
  /\ hits' = hits + 1
  /\ UNCHANGED <<sample, capacity, diffCount, prevDiff, prevHits, enabled, every, cached, measuring>>

(* LRUCache.insert, which drops one key when it is full.                   *)
Insertions(k) ==
  IF k \in cached \/ Cardinality(cached) < capacity THEN {cached \cup {k}}
  ELSE {(cached \ {old}) \cup {k} : old \in cached}

(* The distance is measured.  It is cached if a key was made for it, and   *)
(* the cache has not been turned off meanwhile.                            *)
Measured ==
  /\ measuring # <<>>
  /\ LET k == measuring[Len(measuring)] IN
     cached' \in IF k # NoKey /\ enabled THEN Insertions(k) ELSE {cached}
  /\ measuring' = SubSeq(measuring, 1, Len(measuring) - 1)
  /\ UNCHANGED <<sample, capacity, diffCount, hits, prevDiff, prevHits, enabled, every>>

CacheNext == CountDiff \/ Measured \/ \E k \in Keys : Measure(k) \/ Hit(k)

(***************************************************************************)
(* Properties                                                              *)
(***************************************************************************)
(* _auto_off_cache never divides by zero and never judges a partial or a   *)
(* stale window: PREVIOUS DIFF COUNT is the last multiple of the sample    *)
(* size, whatever was enabled then and however deep the count was made.    *)
WindowIsOneSample ==
  Tunes => prevDiff = sample * (diffCount \div sample) /\ prevHits <= hits

(* The cache is on or off for whole windows: it is judged on windows in    *)
(* which it could have had hits, also after it was turned on again.        *)
TunedAtWindowEdges ==
  [][enabled' # enabled => diffCount' # diffCount /\ diffCount' % sample = 0]_cacheVars
=============================================================================
