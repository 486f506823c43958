-------------------------- MODULE IgnoreOrderDiff --------------------------
(***************************************************************************)
(* _diff_iterable_with_deephash of deepdiff/diff.py: the report of two     *)
(* iterables whose order is ignored, with what it calls: get_other_pair,   *)
(* _count_diff, _diff of a paired item, _report_result with _skip_this,    *)
(* and _dispatch_subtree_jobs.                                             *)
(*                                                                         *)
(* An iterable is its hashtable: hash -> the indexes where the item is.    *)
(* Paired items are dictionaries that differ in the same keys at every     *)
(* level: Nodes gives the keys, those of nested dictionaries included, in  *)
(* the order _diff visits them.  A path is the sequence of indexes and     *)
(* keys after root.  The pairs are any that Pairing allows.                *)
(***************************************************************************)
EXTENDS Naturals, SequencesExt, Pairing

CONSTANTS
  Inputs,      \* pairs <<t1, t2>> of hashtables
  Near,        \* pairs <<added, removed>> within cutoff_distance_for_pairs
  Nodes,       \* <<removed, added>> -> the relative paths _diff visits
  Options,     \* parameters of the run
  MaxMeasured, \* bound on the _diff calls that measure distances
  NoLimit,     \* max_diffs=None
  NoIndex      \* child_relationship_param2=None

ASSUME DiffAssumption ==
  /\ MaxMeasured \in Nat
  /\ NoLimit \notin Nat
  /\ NoIndex \notin Nat
  /\ \A tables \in Inputs : \A t \in {tables[1], tables[2]} : \A h \in DOMAIN t :
       t[h] \subseteq Nat /\ IsFiniteSet(t[h]) /\ t[h] # {}
  /\ \A p \in Near : IsFiniteSet(DOMAIN Nodes[<<p[2], p[1]>>])
  /\ \A o \in Options :
       /\ DOMAIN o = {"report_repetition", "use_mp", "max_diffs", "max_passes",
                      "exclude_paths", "include_paths"}
       /\ o.report_repetition \in BOOLEAN
       /\ o.max_diffs \in Nat \cup {NoLimit}
       /\ o.max_passes \in Nat

VARIABLES
  t1, t2,     \* the hashtables
  opt,        \* the parameters
  phase,      \* which loop of the function runs
  chosen,     \* the pairs as they were selected (history)
  pairs,      \* the pairs not yet consumed by get_other_pair
  removed,    \* hashes_removed
  todo,       \* hashes the current for loop has not visited
  inline,     \* comparisons on which _diff is to be called next
  pending,    \* pending_subtree_jobs
  diffCount,  \* _stats[DIFF COUNT]
  passes,     \* _stats[PASSES COUNT]
  diffLimit,  \* _stats[MAX DIFF LIMIT REACHED]
  passLimit,  \* _stats[MAX PASS LIMIT REACHED]
  inWorkers,  \* were the paired items diffed by worker processes (history)
  tree        \* the reports

input == <<t1, t2, opt>>
stats == <<diffCount, passes, diffLimit, passLimit>>
vars  == <<input, phase, chosen, pairs, removed, todo, inline, pending, stats,
           inWorkers, tree>>

(***************************************************************************)
(* Hashes                                                                  *)
(***************************************************************************)
Added    == DOMAIN t2 \ DOMAIN t1
Removed  == DOMAIN t1 \ DOMAIN t2
Repeated == {h \in DOMAIN t1 \cap DOMAIN t2 : Cardinality(t1[h]) # Cardinality(t2[h])}

First(t, h) == Min(t[h])

(* The for loops follow the hashtables, whose keys are in the order of     *)
(* their first occurrences.                                                *)
NextOf(t, hashes) == CHOOSE h \in hashes : \A k \in hashes : First(t, h) <= First(t, k)

(* cutoff_intersection_for_pairs, at its default of 0.7.                   *)
GetPairs ==
  10 * (Cardinality(Added) + Cardinality(Removed))
    <= 7 * (Cardinality(DOMAIN t1) + Cardinality(DOMAIN t2) + 1)

(***************************************************************************)
(* Filters: _skip_this and _skip_this_key with exclude_paths and           *)
(* include_paths.  The tests "prefix in level_path" and "level_path in     *)
(* prefix", on texts that begin with root, are prefix tests on paths.      *)
(***************************************************************************)
Included(path) ==
  \/ opt.include_paths = {}
  \/ path = <<>>
  \/ \E p \in opt.include_paths : IsPrefix(p, path) \/ IsPrefix(path, p)

Skip(path) == path \in opt.exclude_paths \/ ~Included(path)

NoFilters == opt.exclude_paths = {} /\ opt.include_paths = {}

(* The reports _report_result lets through.                                *)
Kept(reports) == {r \in reports : ~Skip(r.path)}

(***************************************************************************)
(* _count_diff: when the count exceeds max_diffs the run is flagged.       *)
(***************************************************************************)
Exceeds(count) == opt.max_diffs # NoLimit /\ count > opt.max_diffs

LimitReached == Exceeds(diffCount)

(* The count after k calls, the last of which may be refused.              *)
Counted(count, k) ==
  IF opt.max_diffs = NoLimit THEN count + k ELSE Min({count + k, opt.max_diffs + 1})

(***************************************************************************)
(* Comparisons: an item of t1 and one of t2, at an index of t1.            *)
(***************************************************************************)
Comparison(r, a, i) ==
  [removed |-> r, added |-> a, index |-> i,
   new |-> IF opt.report_repetition /\ Cardinality(t2[a]) > 1 THEN NoIndex ELSE First(t2, a)]

(* Where an item is reported: everywhere, or at its first index.           *)
Reported(t, h) == IF opt.report_repetition THEN t[h] ELSE {First(t, h)}

(* The place of a number in a set of them, and the number at a place.      *)
Rank(n, numbers) == Cardinality({m \in numbers : m <= n})
Nth(place, numbers) == CHOOSE n \in numbers : Rank(n, numbers) = place

(* One comparison for every index at which the removed item is reported,   *)
(* in the order of the indexes.                                            *)
Comparisons(r, a) ==
  LET indexes == Reported(t1, r)
  IN  [n \in 1 .. Cardinality(indexes) |-> Comparison(r, a, Nth(n, indexes))]

NodesOf(c) == Nodes[<<c.removed, c.added>>]

Leaf(c, node) == \A n \in ToSet(NodesOf(c)) : ~IsStrictPrefix(node, n)

(* The places of the nodes _diff visits below an item at the path base: it *)
(* filters keys before it counts them, and does not enter a skipped        *)
(* dictionary.                                                             *)
Visited(c, base) ==
  LET Enters(node) ==
        \A k \in 0 .. Len(node) :
          LET path == base \o SubSeq(node, 1, k) IN
          /\ Included(path)
          /\ k < Len(node) => path \notin opt.exclude_paths
  IN  {n \in DOMAIN NodesOf(c) : Enters(NodesOf(c)[n])}

(* What _diff reports of a node when it gets there.                        *)
Differs(c, base, node) == Leaf(c, node) /\ ~Skip(base \o node)

(* What _diff of a comparison reports when count were counted before it:   *)
(* the item counts once, each key once in _diff_dict and once in _diff.    *)
Entries(c, base, count) ==
  LET visited == Visited(c, base) IN
  {NodesOf(c)[n] : n \in {k \in visited :
      ~Exceeds(count + 2 * Rank(k, visited)) /\ Differs(c, base, NodesOf(c)[k])}}

Cost(c, base) == 1 + 2 * Cardinality(Visited(c, base))

Changes(c, entries) ==
  {[kind |-> "values_changed", path |-> <<c.index>> \o node, new |-> c.new] : node \in entries}

(***************************************************************************)
(* Reports of whole items                                                  *)
(***************************************************************************)
AddedReports(h) ==
  {[kind |-> "iterable_item_added", path |-> <<i>>,
    new |-> IF opt.report_repetition /\ Cardinality(t2[h]) > 1 THEN NoIndex ELSE First(t2, h)] :
      i \in Reported(t2, h)}

RemovedReports(h) ==
  {[kind |-> "iterable_item_removed", path |-> <<i>>,
    new |-> IF opt.report_repetition THEN NoIndex ELSE i] : i \in Reported(t1, h)}

RepetitionReport(h) ==
  [kind |-> "repetition_change", path |-> <<First(t1, h)>>, new |-> Cardinality(t2[h])]

RepetitionReports == IF opt.report_repetition THEN {RepetitionReport(h) : h \in Repeated} ELSE {}

(***************************************************************************)
(* The run                                                                 *)
(***************************************************************************)
NoPairs == [h \in {} |-> NoIndex]

Init ==
  /\ \E tables \in Inputs : t1 = tables[1] /\ t2 = tables[2]
  /\ opt \in Options
  /\ phase = "start"
  /\ chosen = NoPairs
  /\ pairs = NoPairs
  /\ removed = {}
  /\ todo = {}
  /\ inline = <<>>
  /\ pending = <<>>
  /\ diffCount = 1     \* _diff was called on the level of the iterables
  /\ passes = 0
  /\ diffLimit = FALSE
  /\ passLimit = FALSE
  /\ inWorkers = FALSE
  /\ tree = {}

(* The decision to pair, the pairing and the head of the first loop.  The  *)
(* DeepDiffs that measure distances in this process share _stats.          *)
Begin ==
  /\ phase = "start"
  /\ phase' = "added"
  /\ removed' = Removed
  /\ todo' = Added
  /\ IF GetPairs /\ passes < opt.max_passes
       THEN /\ passes' = passes + 1
            /\ pairs' \in Pairings(Added, Removed, Near)
            /\ \E measured \in 0 .. MaxMeasured :
                 /\ diffCount' = Counted(diffCount, measured)
                 /\ diffLimit' = (measured > 0 /\ Exceeds(diffCount + measured - 1))
            /\ UNCHANGED passLimit
       ELSE /\ passLimit' = GetPairs
            /\ UNCHANGED <<passes, pairs, diffCount, diffLimit>>
  /\ chosen' = pairs'
  /\ UNCHANGED <<input, inline, pending, inWorkers, tree>>

(* A loop goes on when every _diff of its last iteration is done.          *)
Iterating(loop) == phase = loop /\ inline = <<>>

(* max_diffs: the function returns, whatever is still pending.             *)
StopAtLimit ==
  /\ Iterating("added") \/ Iterating("removed")
  /\ todo # {}
  /\ LimitReached
  /\ diffLimit' = TRUE
  /\ phase' = "done"
  /\ UNCHANGED <<input, chosen, pairs, removed, todo, inline, pending, diffCount, passes,
                 passLimit, inWorkers, tree>>

(* Mutant: get_other_pair leaves the other direction of the pair.          *)
ForgetOneWay(h) == [k \in DOMAIN pairs \ {h} |-> pairs[k]]

(* get_other_pair: a pair leaves the dictionary in both directions.        *)
Forget(h) == [k \in DOMAIN pairs \ {h, pairs[h]} |-> pairs[k]]

(* The paired items are diffed inline, or their jobs deferred.             *)
Compare(r, a) ==
  IF opt.use_mp
    THEN pending' = pending \o Comparisons(r, a) /\ UNCHANGED inline
    ELSE inline' = Comparisons(r, a) /\ UNCHANGED pending

VisitAdded ==
  /\ Iterating("added")
  /\ todo # {}
  /\ ~LimitReached
  /\ diffCount' = diffCount + 1
  /\ LET h == NextOf(t2, todo) IN
     /\ todo' = todo \ {h}
     /\ IF h \in DOMAIN pairs
          THEN /\ pairs' = Forget(h)
               /\ removed' = removed \ {pairs[h]}
               /\ Compare(pairs[h], h)
               /\ UNCHANGED tree
          ELSE /\ tree' = tree \cup Kept(AddedReports(h))
               /\ UNCHANGED <<pairs, removed, inline, pending>>
  /\ UNCHANGED <<input, phase, chosen, passes, diffLimit, passLimit, inWorkers>>

EndAdded ==
  /\ Iterating("added")
  /\ todo = {}
  /\ phase' = "removed"
  /\ todo' = removed
  /\ UNCHANGED <<input, chosen, pairs, removed, inline, pending, stats, inWorkers, tree>>

VisitRemoved ==
  /\ Iterating("removed")
  /\ todo # {}
  /\ ~LimitReached
  /\ diffCount' = diffCount + 1
  /\ LET h == NextOf(t1, todo) IN
     /\ todo' = todo \ {h}
     /\ IF h \in DOMAIN pairs
          THEN /\ pairs' = Forget(h)
               /\ Compare(h, pairs[h])
               /\ UNCHANGED tree
          ELSE /\ tree' = tree \cup Kept(RemovedReports(h))
               /\ UNCHANGED <<pairs, inline, pending>>
  /\ UNCHANGED <<input, phase, chosen, removed, passes, diffLimit, passLimit, inWorkers>>

(* The loop over the hashes of both iterables, which counts nothing.       *)
EndRemoved ==
  /\ Iterating("removed")
  /\ todo = {}
  /\ phase' = "dispatch"
  /\ tree' = tree \cup Kept(RepetitionReports)
  /\ UNCHANGED <<input, chosen, pairs, removed, todo, inline, pending, stats, inWorkers>>

(* Mutant: a refused _diff does not set MAX DIFF LIMIT REACHED.            *)
DiffInlineUnflagged ==
  /\ inline # <<>>
  /\ LET c == Head(inline) IN
     /\ tree' = tree \cup Changes(c, Entries(c, <<c.index>>, diffCount))
     /\ diffCount' = Counted(diffCount, Cost(c, <<c.index>>))
  /\ inline' = Tail(inline)
  /\ UNCHANGED <<input, phase, chosen, pairs, removed, todo, pending, passes, diffLimit,
                 passLimit, inWorkers>>

(* _diff of the next comparison, in this process.                          *)
DiffInline ==
  /\ inline # <<>>
  /\ LET c == Head(inline) IN
     /\ tree' = tree \cup Changes(c, Entries(c, <<c.index>>, diffCount))
     /\ diffCount' = Counted(diffCount, Cost(c, <<c.index>>))
     /\ diffLimit' = (diffLimit \/ Exceeds(diffCount + Cost(c, <<c.index>>) - 1))
  /\ inline' = Tail(inline)
  /\ UNCHANGED <<input, phase, chosen, pairs, removed, todo, pending, passes, passLimit, inWorkers>>

(***************************************************************************)
(* _dispatch_subtree_jobs                                                  *)
(***************************************************************************)
(* Below the threshold, or the pool answered None: inline, in order.       *)
DispatchSerially ==
  /\ phase = "dispatch"
  /\ pending # <<>>
  /\ inline' = pending
  /\ pending' = <<>>
  /\ UNCHANGED <<input, phase, chosen, pairs, removed, todo, stats, inWorkers, tree>>

(* Mutant: the answers are merged with the jobs in the opposite order.     *)
DispatchReversed ==
  /\ phase = "dispatch"
  /\ pending # <<>>
  /\ phase' = "done"
  /\ tree' = tree \cup
       Kept(UNION {Changes(pending[j], Entries(Reverse(pending)[j], <<>>, 0)) : j \in DOMAIN pending})
  /\ diffLimit' = (diffLimit \/ \E job \in ToSet(pending) : Exceeds(Cost(job, <<>>) - 1))
  /\ inWorkers' = TRUE
  /\ UNCHANGED <<input, chosen, pairs, removed, todo, inline, pending, diffCount, passes, passLimit>>

(* The workers answered.  A worker counts from 0 and filters paths that    *)
(* begin at the item; its leaves are rebased and filtered again.           *)
DispatchToWorkers ==
  /\ phase = "dispatch"
  /\ pending # <<>>
  /\ phase' = "done"
  /\ tree' = tree \cup
       Kept(UNION {Changes(job, Entries(job, <<>>, 0)) : job \in ToSet(pending)})
  /\ diffLimit' = (diffLimit \/ \E job \in ToSet(pending) : Exceeds(Cost(job, <<>>) - 1))
  /\ inWorkers' = TRUE
  /\ UNCHANGED <<input, chosen, pairs, removed, todo, inline, pending, diffCount, passes, passLimit>>

(* The section raised, and so does DeepDiff.                               *)
DispatchRaises ==
  /\ phase = "dispatch"
  /\ pending # <<>>
  /\ phase' = "raised"
  /\ UNCHANGED <<input, chosen, pairs, removed, todo, inline, pending, stats, inWorkers, tree>>

Return ==
  /\ Iterating("dispatch")
  /\ pending = <<>>
  /\ phase' = "done"
  /\ UNCHANGED <<input, chosen, pairs, removed, todo, inline, pending, stats, inWorkers, tree>>

Finished == phase \in {"done", "raised"} /\ UNCHANGED vars

Next ==
  \/ Begin \/ StopAtLimit
  \/ VisitAdded \/ EndAdded
  \/ VisitRemoved \/ EndRemoved
  \/ DiffInline
  \/ DispatchSerially \/ DispatchToWorkers \/ DispatchRaises \/ Return
  \/ Finished

Spec == Init /\ [][Next]_vars

(***************************************************************************)
(* Properties                                                              *)
(***************************************************************************)
(* The report of an inline run without limits, for the pairs selected:     *)
(* every item only one iterable has is reported where it is, or compared   *)
(* with its partner wherever that one is.                                  *)
Unlimited(c) ==
  LET base == <<c.index>>
  IN  Changes(c, {NodesOf(c)[n] : n \in {k \in Visited(c, base) : Differs(c, base, NodesOf(c)[k])}})

Expected ==
  Kept(UNION {AddedReports(h) : h \in Added \ DOMAIN chosen})
    \cup Kept(UNION {RemovedReports(h) : h \in Removed \ DOMAIN chosen})
    \cup (UNION {UNION {Unlimited(c) : c \in ToSet(Comparisons(chosen[a], a))} :
                   a \in Added \cap DOMAIN chosen})
    \cup Kept(RepetitionReports)

Pending == ToSet(inline) \cup ToSet(pending)

(* A report says nothing the unlimited inline run would not say: neither   *)
(* deferral, fallback nor max_diffs (nor, without path filters, a worker)  *)
(* invents an entry, moves one to another path or reports a pair as items  *)
(* added and removed.                                                      *)
ReportsAreExpected == (inWorkers => NoFilters) => tree \subseteq Expected

(* A report that lacks anything says so: unless MAX DIFF LIMIT REACHED is  *)
(* set it is the report of the inline run, whether the pairs were diffed   *)
(* inline, deferred, or (without path filters) by the workers.             *)
CompleteUnlessFlagged ==
  phase = "done" /\ ~diffLimit /\ (inWorkers => NoFilters) => tree = Expected

(* get_other_pair never fails: the partner it deletes from pairs is there, *)
(* and so is the hash it deletes from hashes_removed.                      *)
PairsStaySymmetric ==
  \A h \in DOMAIN pairs :
    /\ pairs[h] \in DOMAIN pairs
    /\ pairs[pairs[h]] = h
    /\ h \in Removed => h \in removed

(* "these lines never run currently": the loop over the removed hashes     *)
(* meets no paired item, which would be compared a second time.            *)
RemovedAreUnpaired == phase \in {"removed", "dispatch"} => DOMAIN pairs = {}

(* _dispatch_subtree_jobs: "output is identical to the equivalent serial   *)
(* run", with path filters too.                                            *)
SameReportAsSerial == phase = "done" /\ ~diffLimit => tree = Expected
=============================================================================
