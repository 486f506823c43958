----------------------- MODULE IgnoreOrderDiffProofs -----------------------
(***************************************************************************)
(* Proofs about IgnoreOrderDiff, for any tables, options and pairing.      *)
(*                                                                         *)
(* get_other_pair takes a pair out in both directions, so what is left is  *)
(* always a pairing of hashes the first loop has still to visit: when that *)
(* loop is over nothing is left.  Of what the report should say, each part *)
(* is in it, waits as a comparison, or belongs to a hash that a loop has   *)
(* still to visit, unless the run is flagged; and a comparison reports all *)
(* it finds, unless its last call was refused, which flags the run.        *)
(***************************************************************************)
EXTENDS IgnoreOrderDiff, FiniteSetTheorems, NaturalsInduction, WellFoundedInduction, TLAPS

(* The inverse completes a one-to-one near choice to a pairing.            *)
LEMMA InverseIsPairing ==
  ASSUME NEW new, NEW old, NEW near, NEW choice,
         new \cap old = {},
         DOMAIN choice \subseteq new,
         \A a \in DOMAIN choice : choice[a] \in old /\ <<a, choice[a]>> \in near,
         \A a, b \in DOMAIN choice : choice[a] = choice[b] => a = b
  PROVE  IsPairing(WithInverse(choice), new, old, near)
<1> DEFINE p == WithInverse(choice)
<1>1. DOMAIN p = DOMAIN choice \cup Range(choice)
  BY DEF WithInverse
<1>2. \A a \in DOMAIN choice : a \in DOMAIN p /\ p[a] = choice[a]
  BY DEF WithInverse
<1>3. ASSUME NEW a \in DOMAIN choice
      PROVE  choice[a] \in DOMAIN p /\ p[choice[a]] = a
  <2>1. choice[a] \in Range(choice)
    BY DEF Range
  <2>2. choice[a] \notin DOMAIN choice
    OBVIOUS
  <2>3. p[choice[a]] = CHOOSE b \in DOMAIN choice : choice[b] = choice[a]
    BY <2>1, <2>2 DEF WithInverse
  <2>4. \A b \in DOMAIN choice : choice[b] = choice[a] <=> b = a
    OBVIOUS
  <2>5. p[choice[a]] = a
    BY <2>3, <2>4
  <2>6. QED
    BY <2>1, <2>5, <1>1
<1>4. \A h \in DOMAIN p : h \in DOMAIN choice \/ \E a \in DOMAIN choice : h = choice[a]
  BY <1>1 DEF Range
<1>5. DOMAIN p \subseteq new \cup old
  BY <1>4
<1>6. \A h \in DOMAIN p : p[h] \in DOMAIN p /\ p[p[h]] = h
  BY <1>2, <1>3, <1>4
<1>7. ASSUME NEW h \in DOMAIN p \cap new PROVE <<h, p[h]>> \in near
  <2>1. h \in DOMAIN choice
    BY <1>4, \A a \in DOMAIN choice : choice[a] \notin new
  <2>2. p[h] = choice[h]
    BY <2>1, <1>2
  <2>3. QED
    BY <2>1, <2>2
<1>8. \A h \in DOMAIN p \cap old : p[h] \in new
  BY <1>3, <1>4
<1>9. QED
  BY <1>5, <1>6, <1>7, <1>8 DEF IsPairing

(* A removed partner is what an added hash has.                            *)
LEMMA PartnersOfAdded ==
  ASSUME NEW new, NEW old, NEW near, NEW p,
         p \in Pairings(new, old, near),
         new \cap old = {}
  PROVE  /\ IsPairing(p, new, old, near)
         /\ \A h \in DOMAIN p \cap new : p[h] \in old
<1>1. PICK c \in UNION {Injection(S, old) : S \in SUBSET new} :
        /\ \A a \in DOMAIN c : <<a, c[a]>> \in near
        /\ p = WithInverse(c)
  BY DEF Pairings
<1>2. PICK S \in SUBSET new : c \in Injection(S, old)
  OBVIOUS
<1>3. c \in [S -> old] /\ \A a, b \in S : c[a] = c[b] => a = b
  BY <1>2 DEF Injection, IsInjective
<1>4. DOMAIN c = S
  BY <1>3
<1>5. IsPairing(p, new, old, near)
  BY <1>1, <1>3, <1>4, InverseIsPairing
<1>6. \A h \in DOMAIN p \cap new : h \in S
  BY <1>1, <1>3, <1>4 DEF WithInverse, Range
<1>7. \A h \in S : p[h] = c[h]
  BY <1>1, <1>4 DEF WithInverse
<1>8. QED
  BY <1>3, <1>5, <1>6, <1>7

(* The pairs that are left are symmetrical, and cross from one iterable to *)
(* the other.                                                              *)
CrossInv ==
  /\ DOMAIN pairs \subseteq Added \cup Removed
  /\ \A h \in DOMAIN pairs : pairs[h] \in DOMAIN pairs /\ pairs[pairs[h]] = h
  /\ \A h \in DOMAIN pairs : h \in Added => pairs[h] \in Removed
  /\ \A h \in DOMAIN pairs : h \in Removed => pairs[h] \in Added

(* Their hashes have not been consumed: neither loop has visited them.     *)
UnvisitedInv ==
  /\ \A h \in DOMAIN pairs : h \in Removed => h \in removed
  /\ phase = "start" => DOMAIN pairs = {}
  /\ phase = "added" => \A h \in DOMAIN pairs : h \in Added => h \in todo
  /\ phase \in {"removed", "dispatch"} => DOMAIN pairs = {}

PairsInv == CrossInv /\ UnvisitedInv

-----------------------------------------------------------------------------
(* No hash is on both sides.                                               *)
LEMMA SidesAreDisjoint == Added \cap Removed = {}
  BY DEF Added, Removed

(* The two sides of the comparison are fixed.                              *)
LEMMA SidesAreFixed == UNCHANGED <<t1, t2>> => Added' = Added /\ Removed' = Removed
  BY DEF Added, Removed

(* There is no pair to begin with.                                         *)
LEMMA PairsInit == Init => PairsInv
  BY DEF Init, PairsInv, CrossInv, UnvisitedInv, NoPairs

(* Taking a pair out leaves a pairing.                                     *)
LEMMA ForgetKeepsCross ==
  ASSUME CrossInv, NEW h \in DOMAIN pairs, pairs' = Forget(h), UNCHANGED <<t1, t2>>
  PROVE  /\ CrossInv'
         /\ DOMAIN pairs' = DOMAIN pairs \ {h, pairs[h]}
<1>1. DOMAIN pairs' = DOMAIN pairs \ {h, pairs[h]}
  BY DEF Forget
<1>2. \A k \in DOMAIN pairs' : pairs'[k] = pairs[k]
  BY DEF Forget
<1>3. \A k \in DOMAIN pairs' : pairs[k] \in DOMAIN pairs'
  <2>1. SUFFICES ASSUME NEW k \in DOMAIN pairs'
                 PROVE  pairs[k] \in DOMAIN pairs'
    OBVIOUS
  <2>2. k \in DOMAIN pairs /\ k # h /\ k # pairs[h]
    BY <1>1
  <2>3. pairs[k] \in DOMAIN pairs /\ pairs[pairs[k]] = k /\ pairs[pairs[h]] = h
    BY <2>2 DEF CrossInv
  <2>4. pairs[k] # h /\ pairs[k] # pairs[h]
    BY <2>2, <2>3
  <2>5. QED
    BY <1>1, <2>3, <2>4
<1>4. CrossInv'
  BY <1>1, <1>2, <1>3, SidesAreFixed DEF CrossInv
<1>5. QED
  BY <1>1, <1>4

(* The pairing that is handed over, if any, is one.                        *)
LEMMA BeginStep == PairsInv /\ Begin => PairsInv'
<1> SUFFICES ASSUME PairsInv, Begin PROVE PairsInv'
  OBVIOUS
<1>1. Added' = Added /\ Removed' = Removed
  BY SidesAreFixed DEF Begin, input
<1>2. phase' = "added" /\ removed' = Removed /\ todo' = Added
  BY DEF Begin
<1>3. CASE pairs' \in Pairings(Added, Removed, Near)
  <2>1. /\ IsPairing(pairs', Added, Removed, Near)
        /\ \A h \in DOMAIN pairs' \cap Added : pairs'[h] \in Removed
    BY <1>3, PartnersOfAdded, SidesAreDisjoint
  <2>2. QED
    BY <1>1, <1>2, <2>1 DEF IsPairing, PairsInv, CrossInv, UnvisitedInv
<1>4. CASE UNCHANGED pairs
  <2>1. DOMAIN pairs' = {}
    BY <1>4 DEF Begin, PairsInv, UnvisitedInv
  <2>2. QED
    BY <1>1, <1>2, <2>1 DEF PairsInv, CrossInv, UnvisitedInv
<1>5. QED
  BY <1>3, <1>4 DEF Begin

(* A visited hash takes its partner along.                                 *)
LEMMA VisitAddedStep == PairsInv /\ VisitAdded => PairsInv'
<1> SUFFICES ASSUME PairsInv, VisitAdded PROVE PairsInv'
  OBVIOUS
<1> DEFINE h == NextOf(t2, todo)
<1>1. /\ phase = "added" /\ phase' = phase
      /\ UNCHANGED <<t1, t2>>
      /\ todo' = todo \ {h}
      /\ h \in DOMAIN pairs => pairs' = Forget(h) /\ removed' = removed \ {pairs[h]}
      /\ h \notin DOMAIN pairs => UNCHANGED <<pairs, removed>>
  BY DEF VisitAdded, Iterating, input
<1> HIDE DEF h
<1>2. Added' = Added /\ Removed' = Removed
  BY <1>1, SidesAreFixed
<1>3. CASE h \in DOMAIN pairs
  <2>1. CrossInv' /\ DOMAIN pairs' = DOMAIN pairs \ {h, pairs[h]}
    BY <1>1, <1>3, ForgetKeepsCross DEF PairsInv
  <2>2. QED
    BY <1>1, <1>2, <1>3, <2>1 DEF PairsInv, UnvisitedInv
<1>4. CASE h \notin DOMAIN pairs
  BY <1>1, <1>2, <1>4 DEF PairsInv, CrossInv, UnvisitedInv
<1>5. QED
  BY <1>3, <1>4

(* Nothing is left when every added hash was visited.                      *)
LEMMA EndAddedStep == PairsInv /\ EndAdded => PairsInv'
<1> SUFFICES ASSUME PairsInv, EndAdded PROVE PairsInv'
  OBVIOUS
<1>1. /\ phase = "added" /\ phase' = "removed" /\ todo = {}
      /\ UNCHANGED <<t1, t2, pairs, removed>>
  BY DEF EndAdded, Iterating, input
<1>2. DOMAIN pairs = {}
  BY <1>1 DEF PairsInv, CrossInv, UnvisitedInv
<1>3. QED
  BY <1>1, <1>2, SidesAreFixed DEF PairsInv, CrossInv, UnvisitedInv

(* The second loop never finds a pair.                                     *)
LEMMA VisitRemovedStep == PairsInv /\ VisitRemoved => PairsInv'
<1> SUFFICES ASSUME PairsInv, VisitRemoved PROVE PairsInv'
  OBVIOUS
<1>1. /\ phase = "removed" /\ phase' = phase
      /\ UNCHANGED <<t1, t2, removed>>
      /\ NextOf(t1, todo) \notin DOMAIN pairs => UNCHANGED pairs
  BY DEF VisitRemoved, Iterating, input
<1>2. DOMAIN pairs = {}
  BY <1>1 DEF PairsInv, UnvisitedInv
<1>3. QED
  BY <1>1, <1>2, SidesAreFixed DEF PairsInv, CrossInv, UnvisitedInv

(* The other steps take no pair.                                           *)
LEMMA PairsStep == PairsInv /\ [Next]_vars => PairsInv'
<1> SUFFICES ASSUME PairsInv, [Next]_vars PROVE PairsInv'
  OBVIOUS
<1>1. ASSUME UNCHANGED <<t1, t2, pairs, removed, todo>>,
             phase' = phase \/ phase' \in {"done", "raised"} \/ (phase = "removed" /\ phase' = "dispatch")
      PROVE  PairsInv'
  BY <1>1, SidesAreFixed DEF PairsInv, CrossInv, UnvisitedInv
<1>2. CASE StopAtLimit
  BY <1>1, <1>2 DEF StopAtLimit, input
<1>3. CASE EndRemoved
  BY <1>1, <1>3 DEF EndRemoved, Iterating, input
<1>4. CASE DiffInline
  BY <1>1, <1>4 DEF DiffInline, input
<1>5. CASE DispatchSerially \/ DispatchToWorkers \/ DispatchRaises \/ Return
  BY <1>1, <1>5 DEF DispatchSerially, DispatchToWorkers, DispatchRaises, Return, input
<1>6. CASE UNCHANGED vars
  BY <1>1, <1>6 DEF vars, input
<1>7. QED
  BY <1>2, <1>3, <1>4, <1>5, <1>6, BeginStep, VisitAddedStep, EndAddedStep, VisitRemovedStep
  DEF Next, Finished

(* get_other_pair never raises a KeyError.                                 *)
THEOREM PartnersAreThere == Spec => []PairsStaySymmetric
<1>1. PairsInv => PairsStaySymmetric
  BY DEF PairsInv, CrossInv, UnvisitedInv, PairsStaySymmetric
<1>2. QED
  BY <1>1, PairsInit, PairsStep, PTL DEF Spec

(* The lines that the code says never run, which would compare a pair a    *)
(* second time, never do.                                                  *)
THEOREM NoPairIsMetTwice == Spec => []RemovedAreUnpaired
<1>1. PairsInv => RemovedAreUnpaired
  BY DEF PairsInv, UnvisitedInv, RemovedAreUnpaired
<1>2. QED
  BY <1>1, PairsInit, PairsStep, PTL DEF Spec

-----------------------------------------------------------------------------
(* What the report says.                                                   *)

(* The tables, the parameters and the counter are what they look like.     *)
InputInv ==
  /\ \A t \in {t1, t2} : \A h \in DOMAIN t : t[h] \subseteq Nat /\ IsFiniteSet(t[h]) /\ t[h] # {}
  /\ opt \in Options
  /\ diffCount \in Nat

(* The comparisons that the selected pairs call for.                       *)
Due == UNION {ToSet(Comparisons(chosen[a], a)) : a \in Added \cap DOMAIN chosen}

(* The selected pairs cross from one iterable to the other, those left are *)
(* among them, and every comparison that is waiting is due.                *)
ChosenInv ==
  /\ DOMAIN chosen \subseteq Added \cup Removed
  /\ \A h \in DOMAIN chosen : chosen[h] \in DOMAIN chosen /\ chosen[chosen[h]] = h
  /\ \A h \in Added \cap DOMAIN chosen : chosen[h] \in Removed /\ <<h, chosen[h]>> \in Near
  /\ \A h \in Removed \cap DOMAIN chosen : chosen[h] \in Added
  /\ \A h \in DOMAIN pairs : h \in DOMAIN chosen /\ pairs[h] = chosen[h]
  /\ inline \in Seq(Due) /\ pending \in Seq(Due)

(* What is still to be visited has its partner still; what is left of the  *)
(* removed hashes, when no added one is left, has none.                    *)
VisitInv ==
  /\ phase = "start" => tree = {} /\ inline = <<>> /\ pending = <<>> /\ ~diffLimit
  /\ phase = "added" => /\ todo \subseteq Added /\ removed \subseteq Removed
                        /\ Removed \ DOMAIN chosen \subseteq removed
                        /\ todo \cap DOMAIN chosen \subseteq DOMAIN pairs
                        /\ \A h \in removed \cap DOMAIN chosen : chosen[h] \in todo
  /\ phase = "removed" => todo \subseteq Removed \ DOMAIN chosen
  /\ phase = "dispatch" => inline = <<>> \/ pending = <<>>
  /\ phase \in {"done", "raised"} => inline = <<>>
  /\ inWorkers => phase = "done"

(* An added hash is done with when it is reported, or each comparison with *)
(* its partner is waiting or reported.                                     *)
IsDone(h) ==
  IF h \in DOMAIN chosen
    THEN \A c \in ToSet(Comparisons(chosen[h], h)) : c \in Pending \/ Unlimited(c) \subseteq tree
    ELSE Kept(AddedReports(h)) \subseteq tree

(* Unless the run is flagged, each loop leaves nothing behind.             *)
LeftInv ==
  ~diffLimit =>
    /\ phase = "added" => \A h \in Added \ todo : IsDone(h)
    /\ phase \in {"removed", "dispatch"} => \A h \in Added : IsDone(h)
    /\ phase = "removed" =>
         \A h \in Removed \ (todo \cup DOMAIN chosen) : Kept(RemovedReports(h)) \subseteq tree
    /\ phase = "dispatch" =>
         /\ \A h \in Removed \ DOMAIN chosen : Kept(RemovedReports(h)) \subseteq tree
         /\ Kept(RepetitionReports) \subseteq tree

ReportInv ==
  PairsInv /\ InputInv /\ ChosenInv /\ VisitInv /\ LeftInv /\ ReportsAreExpected /\ CompleteUnlessFlagged

-----------------------------------------------------------------------------
(* A set of numbers has a least one.                                       *)
LEMMA Least ==
  ASSUME NEW T \in SUBSET Nat, T # {}
  PROVE  \E x \in T : \A y \in T : x <= y
<1> DEFINE R == OpToRel(<, Nat)
<1>1. IsWellFoundedOn(R, Nat)
  BY NatLessThanWellFounded
<1>2. \A x, y \in Nat : x < y => <<x, y>> \in R
  BY DEF OpToRel
<1> HIDE DEF R
<1>3. PICK x \in T : \A y \in T : ~ (<<y, x>> \in R)
  BY <1>1, WFMin
<1>4. \A y \in T : ~ (y < x)
  BY <1>2, <1>3
<1>5. QED
  BY <1>4

(* The first index of an item is one of its indexes.                       *)
LEMMA FirstIsIndex ==
  ASSUME InputInv, NEW t \in {t1, t2}, NEW h \in DOMAIN t
  PROVE  First(t, h) \in t[h] /\ First(t, h) \in Nat
<1>1. t[h] \in SUBSET Nat /\ t[h] # {}
  BY DEF InputInv
<1>2. PICK i \in t[h] : \A j \in t[h] : i <= j
  BY <1>1, Least
<1>3. First(t, h) \in t[h]
  BY <1>2 DEF First, Min
<1>4. QED
  BY <1>1, <1>3

(* The for loops find a hash as long as there is one.                      *)
LEMMA NextIsOne ==
  ASSUME InputInv, NEW t \in {t1, t2}, NEW hashes \in SUBSET DOMAIN t, hashes # {}
  PROVE  NextOf(t, hashes) \in hashes
<1> DEFINE Firsts == {First(t, h) : h \in hashes}
<1>1. Firsts \in SUBSET Nat /\ Firsts # {}
  BY FirstIsIndex
<1>2. PICK i \in Firsts : \A j \in Firsts : i <= j
  BY <1>1, Least
<1>3. \E h \in hashes : \A k \in hashes : First(t, h) <= First(t, k)
  BY <1>2
<1>4. QED
  BY <1>3 DEF NextOf

(* Counting counts.                                                        *)
LEMMA CountedIsNat ==
  ASSUME InputInv, NEW count \in Nat, NEW k \in Nat
  PROVE  Counted(count, k) \in Nat
<1>1. CASE opt.max_diffs = NoLimit
  BY <1>1 DEF Counted
<1>2. CASE opt.max_diffs # NoLimit
  <2>1. opt.max_diffs \in Nat
    BY <1>2, DiffAssumption DEF InputInv
  <2> DEFINE S == {count + k, opt.max_diffs + 1}
  <2>2. S \in SUBSET Nat /\ S # {}
    BY <2>1
  <2>3. \E x \in S : \A y \in S : x <= y
    BY <2>2, Least
  <2> HIDE DEF S
  <2>4. Min(S) \in S
    BY <2>3 DEF Min
  <2>5. QED
    BY <1>2, <2>2, <2>4 DEF Counted, S
<1>3. QED
  BY <1>1, <1>2

(* The comparisons of a pair, as a sequence.                               *)
LEMMA ComparisonsAreDue ==
  ASSUME InputInv, ChosenInv, NEW a \in Added \cap DOMAIN chosen
  PROVE  /\ Comparisons(chosen[a], a) \in Seq(Due)
         /\ \A c \in ToSet(Comparisons(chosen[a], a)) : c.removed = chosen[a] /\ c.added = a
<1> DEFINE indexes == Reported(t1, chosen[a])
           s == Comparisons(chosen[a], a)
<1>1. IsFiniteSet(indexes)
  <2>1. chosen[a] \in DOMAIN t1
    BY DEF ChosenInv, Removed
  <2>2. QED
    BY <2>1, FS_Singleton DEF Reported, InputInv
<1>2. Cardinality(indexes) \in Nat
  BY <1>1, FS_CardinalityType
<1>3. s = [n \in 1 .. Cardinality(indexes) |-> Comparison(chosen[a], a, Nth(n, indexes))]
  BY DEF Comparisons
<1> HIDE DEF indexes
<1>4. \A n \in DOMAIN s : s[n].removed = chosen[a] /\ s[n].added = a
  BY <1>3 DEF Comparison
<1>5. \A n \in DOMAIN s : s[n] \in Due
  BY DEF Due, ToSet
<1>6. s \in Seq(Due)
  BY <1>2, <1>3, <1>5
<1>7. QED
  BY <1>4, <1>6 DEF ToSet

(* What _diff of a comparison visits can be counted.                       *)
LEMMA VisitsAreCounted ==
  ASSUME InputInv, ChosenInv, NEW c \in Due, NEW base
  PROVE  /\ Cost(c, base) \in Nat /\ Cost(c, base) >= 1
         /\ \A k \in Visited(c, base) : /\ Rank(k, Visited(c, base)) \in Nat
                                        /\ 2 * Rank(k, Visited(c, base)) <= Cost(c, base) - 1
<1> DEFINE V == Visited(c, base)
<1>1. IsFiniteSet(DOMAIN NodesOf(c))
  <2>1. PICK a \in Added \cap DOMAIN chosen : c \in ToSet(Comparisons(chosen[a], a))
    BY DEF Due
  <2>2. <<a, chosen[a]>> \in Near
    BY DEF ChosenInv
  <2>3. NodesOf(c) = Nodes[<<chosen[a], a>>]
    BY <2>1, ComparisonsAreDue DEF NodesOf
  <2>4. QED
    BY <2>2, <2>3, DiffAssumption
<1>2. V \in SUBSET DOMAIN NodesOf(c)
  BY DEF Visited
<1> HIDE DEF V
<1>3. IsFiniteSet(V) /\ Cardinality(V) \in Nat
  BY <1>1, <1>2, FS_Subset, FS_CardinalityType
<1>4. ASSUME NEW k \in V
      PROVE  Rank(k, V) \in Nat /\ Rank(k, V) <= Cardinality(V)
  <2>1. {m \in V : m <= k} \in SUBSET V
    OBVIOUS
  <2>2. QED
    BY <1>3, <2>1, FS_Subset, FS_CardinalityType DEF Rank
<1>5. Cost(c, base) = 1 + 2 * Cardinality(V)
  BY DEF Cost, V
<1>6. QED
  BY <1>3, <1>4, <1>5 DEF V

(* A larger count exceeds what a smaller one does.                         *)
LEMMA ExceedsGrows ==
  ASSUME InputInv, NEW m \in Nat, NEW n \in Nat, m <= n, Exceeds(m)
  PROVE  Exceeds(n)
BY DiffAssumption DEF InputInv, Exceeds

(* _diff of a comparison reports a part of what there is; unless its last  *)
(* call was refused, all.                                                  *)
LEMMA DiffReportsAPart ==
  ASSUME InputInv, ChosenInv, NEW c \in Due, NEW count \in Nat, NEW base,
         Visited(c, base) = Visited(c, <<c.index>>),
         \A node : Differs(c, base, node) <=> Differs(c, <<c.index>>, node)
  PROVE  /\ Changes(c, Entries(c, base, count)) \subseteq Unlimited(c)
         /\ ~Exceeds(count + Cost(c, base) - 1) => Changes(c, Entries(c, base, count)) = Unlimited(c)
<1> DEFINE V == Visited(c, base)
           All == {NodesOf(c)[n] : n \in {k \in V : Differs(c, base, NodesOf(c)[k])}}
<1>1. Unlimited(c) = Changes(c, All)
  BY DEF Unlimited
<1>2. Entries(c, base, count) \subseteq All
  BY DEF Entries
<1>3. ASSUME ~Exceeds(count + Cost(c, base) - 1)
      PROVE  Entries(c, base, count) = All
  <2>1. ASSUME NEW k \in V
        PROVE  ~Exceeds(count + 2 * Rank(k, V))
    <3>1. /\ Rank(k, V) \in Nat /\ Cost(c, base) \in Nat /\ Cost(c, base) >= 1
          /\ 2 * Rank(k, V) <= Cost(c, base) - 1
      BY VisitsAreCounted
    <3> DEFINE m == count + 2 * Rank(k, V)
               n == count + Cost(c, base) - 1
    <3>2. m \in Nat /\ n \in Nat /\ m <= n
      BY <3>1
    <3> HIDE DEF m, n
    <3>3. Exceeds(m) => Exceeds(n)
      BY <3>2, ExceedsGrows
    <3>4. QED
      BY <1>3, <3>3 DEF m, n
  <2>2. QED
    BY <2>1 DEF Entries
<1>4. \A S, T : S \subseteq T => Changes(c, S) \subseteq Changes(c, T)
  BY DEF Changes
<1> HIDE DEF All
<1>5. QED
  BY <1>1, <1>2, <1>3, <1>4

(* A worker, whose paths begin at the item, sees the same where no filter  *)
(* looks at paths.                                                         *)
LEMMA WorkersSeeTheSame ==
  ASSUME NoFilters
  PROVE  /\ \A c, base : Visited(c, base) = Visited(c, <<c.index>>)
         /\ \A c, base, node : Differs(c, base, node) <=> Differs(c, <<c.index>>, node)
         /\ \A reports : Kept(reports) = reports
<1>1. \A path : Included(path) /\ ~Skip(path) /\ path \notin opt.exclude_paths
  BY DEF NoFilters, Included, Skip
<1>2. \A c, base : Visited(c, base) = DOMAIN NodesOf(c)
  BY <1>1 DEF Visited
<1>3. QED
  BY <1>1, <1>2 DEF Differs, Kept

-----------------------------------------------------------------------------
(* The tables, the parameters and the selected pairs say what is due.      *)
LEMMA FixedStay ==
  ASSUME UNCHANGED <<t1, t2, opt, chosen>>
  PROVE  /\ Added' = Added /\ Removed' = Removed /\ Due' = Due /\ Expected' = Expected
         /\ NoFilters' <=> NoFilters
         /\ \A c : Unlimited(c)' = Unlimited(c)
         /\ \A r, a : Comparisons(r, a)' = Comparisons(r, a)
         /\ \A h : /\ Kept(AddedReports(h))' = Kept(AddedReports(h))
                   /\ Kept(RemovedReports(h))' = Kept(RemovedReports(h))
         /\ Kept(RepetitionReports)' = Kept(RepetitionReports)
<1>1. Added' = Added /\ Removed' = Removed
  BY SidesAreFixed
<1>2. (NoFilters' <=> NoFilters) /\ \A path : (Included(path)' <=> Included(path)) /\ (Skip(path)' <=> Skip(path))
  BY DEF NoFilters, Included, Skip
<1>3. \A r, a : Comparisons(r, a)' = Comparisons(r, a)
  BY DEF Comparisons, Reported, Comparison
<1>4. Due' = Due
  BY <1>1, <1>3 DEF Due
<1>5. \A c, base : Visited(c, base)' = Visited(c, base)
  BY <1>2 DEF Visited
<1>6. \A c, base, node : Differs(c, base, node)' <=> Differs(c, base, node)
  BY <1>2 DEF Differs
<1>7. \A c : Unlimited(c)' = Unlimited(c)
  BY <1>5, <1>6 DEF Unlimited
<1>8. \A h : AddedReports(h)' = AddedReports(h) /\ RemovedReports(h)' = RemovedReports(h)
  BY DEF AddedReports, RemovedReports, Reported
<1>9. RepetitionReports' = RepetitionReports
  BY DEF RepetitionReports, RepetitionReport, Repeated
<1>10. \A reports : Kept(reports)' = Kept(reports)
  BY <1>2 DEF Kept
<1>11. \A h : /\ Kept(AddedReports(h))' = Kept(AddedReports(h))
              /\ Kept(RemovedReports(h))' = Kept(RemovedReports(h))
  BY <1>2, <1>8 DEF Kept
<1>12. Kept(RepetitionReports)' = Kept(RepetitionReports)
  BY <1>2, <1>9 DEF Kept
<1>13. Expected' = Expected
  <2>1. Kept(UNION {AddedReports(h) : h \in Added \ DOMAIN chosen})'
          = Kept(UNION {AddedReports(h) : h \in Added \ DOMAIN chosen})
    BY <1>1, <1>2, <1>8 DEF Kept
  <2>2. Kept(UNION {RemovedReports(h) : h \in Removed \ DOMAIN chosen})'
          = Kept(UNION {RemovedReports(h) : h \in Removed \ DOMAIN chosen})
    BY <1>1, <1>2, <1>8 DEF Kept
  <2>3. (UNION {UNION {Unlimited(c) : c \in ToSet(Comparisons(chosen[a], a))} : a \in Added \cap DOMAIN chosen})'
          = UNION {UNION {Unlimited(c) : c \in ToSet(Comparisons(chosen[a], a))} : a \in Added \cap DOMAIN chosen}
    BY <1>1, <1>3, <1>7
  <2>4. QED
    BY <1>12, <2>1, <2>2, <2>3 DEF Expected
<1>14. QED
  BY <1>1, <1>2, <1>3, <1>4, <1>7, <1>11, <1>12, <1>13

(* The parts of the expected report.                                       *)
LEMMA ExpectedParts ==
  /\ \A h \in Added \ DOMAIN chosen : Kept(AddedReports(h)) \subseteq Expected
  /\ \A h \in Removed \ DOMAIN chosen : Kept(RemovedReports(h)) \subseteq Expected
  /\ \A c \in Due : Unlimited(c) \subseteq Expected
  /\ Kept(RepetitionReports) \subseteq Expected
<1> DEFINE added == Kept(UNION {AddedReports(h) : h \in Added \ DOMAIN chosen})
           gone == Kept(UNION {RemovedReports(h) : h \in Removed \ DOMAIN chosen})
           compared == UNION {UNION {Unlimited(c) : c \in ToSet(Comparisons(chosen[a], a))} :
                                a \in Added \cap DOMAIN chosen}
           repeated == Kept(RepetitionReports)
<1>1. Expected = added \cup gone \cup compared \cup repeated
  BY DEF Expected
<1>2. \A h \in Added \ DOMAIN chosen : Kept(AddedReports(h)) \subseteq added
  BY DEF Kept
<1>3. \A h \in Removed \ DOMAIN chosen : Kept(RemovedReports(h)) \subseteq gone
  BY DEF Kept
<1>4. ASSUME NEW c \in Due
      PROVE  Unlimited(c) \subseteq compared
  <2>1. PICK a \in Added \cap DOMAIN chosen : c \in ToSet(Comparisons(chosen[a], a))
    BY DEF Due
  <2>2. QED
    BY <2>1
<1> HIDE DEF added, gone, compared, repeated
<1>5. added \subseteq Expected /\ gone \subseteq Expected /\ compared \subseteq Expected /\ repeated \subseteq Expected
  BY <1>1
<1>6. QED
  BY <1>2, <1>3, <1>4, <1>5 DEF repeated

(* These parts are all of it.                                              *)
LEMMA ExpectedIsThere ==
  ASSUME NEW reports,
         \A h \in Added \ DOMAIN chosen : Kept(AddedReports(h)) \subseteq reports,
         \A h \in Removed \ DOMAIN chosen : Kept(RemovedReports(h)) \subseteq reports,
         \A c \in Due : Unlimited(c) \subseteq reports,
         Kept(RepetitionReports) \subseteq reports
  PROVE  Expected \subseteq reports
<1> DEFINE added == Kept(UNION {AddedReports(h) : h \in Added \ DOMAIN chosen})
           gone == Kept(UNION {RemovedReports(h) : h \in Removed \ DOMAIN chosen})
           compared == UNION {UNION {Unlimited(c) : c \in ToSet(Comparisons(chosen[a], a))} :
                                a \in Added \cap DOMAIN chosen}
           repeated == Kept(RepetitionReports)
<1>1. Expected = added \cup gone \cup compared \cup repeated
  BY DEF Expected
<1>2. added \subseteq reports
  BY DEF Kept
<1>3. gone \subseteq reports
  BY DEF Kept
<1>4. compared \subseteq reports
  BY DEF Due
<1> HIDE DEF added, gone, compared, repeated
<1>5. QED
  BY <1>1, <1>2, <1>3, <1>4 DEF repeated

(* What is done with stays so while no comparison is dropped unreported.   *)
LEMMA DoneStaysDone ==
  ASSUME UNCHANGED <<t1, t2, opt, chosen>>, tree \subseteq tree',
         \A c \in Pending : c \in Pending' \/ Unlimited(c) \subseteq tree'
  PROVE  \A h : IsDone(h) => IsDone(h)'
<1> SUFFICES ASSUME NEW h, IsDone(h) PROVE IsDone(h)'
  OBVIOUS
<1>1. CASE h \in DOMAIN chosen
  <2>1. ASSUME NEW c \in ToSet(Comparisons(chosen[h], h))
        PROVE  c \in Pending' \/ Unlimited(c) \subseteq tree'
    BY <1>1 DEF IsDone
  <2>2. QED
    BY <1>1, <2>1, FixedStay DEF IsDone
<1>2. CASE h \notin DOMAIN chosen
  BY <1>2, FixedStay DEF IsDone
<1>3. QED
  BY <1>1, <1>2

(* The comparisons of added hashes that are done with, where none waits.   *)
LEMMA DueAreReported ==
  ASSUME \A h \in Added : IsDone(h), NEW reports, tree \subseteq reports,
         \A c \in Pending : Unlimited(c) \subseteq reports
  PROVE  /\ \A c \in Due : Unlimited(c) \subseteq reports
         /\ \A h \in Added \ DOMAIN chosen : Kept(AddedReports(h)) \subseteq reports
<1>1. ASSUME NEW c \in Due
      PROVE  Unlimited(c) \subseteq reports
  <2>1. PICK a \in Added \cap DOMAIN chosen : c \in ToSet(Comparisons(chosen[a], a))
    BY DEF Due
  <2>2. c \in Pending \/ Unlimited(c) \subseteq tree
    BY <2>1 DEF IsDone
  <2>3. QED
    BY <2>2
<1>2. \A h \in Added \ DOMAIN chosen : Kept(AddedReports(h)) \subseteq reports
  BY DEF IsDone
<1>3. QED
  BY <1>1, <1>2

-----------------------------------------------------------------------------
(* The invariant, step by step.                                            *)

(* Nothing is reported to begin with.                                      *)
LEMMA ReportInit == Init => ReportInv
<1> SUFFICES ASSUME Init PROVE ReportInv
  OBVIOUS
<1>1. InputInv
  BY DiffAssumption DEF Init, InputInv
<1>2. ChosenInv /\ VisitInv /\ LeftInv /\ ReportsAreExpected /\ CompleteUnlessFlagged
  BY DEF Init, ChosenInv, VisitInv, LeftInv, ReportsAreExpected, CompleteUnlessFlagged, NoPairs
<1>3. QED
  BY <1>1, <1>2, PairsInit DEF ReportInv

(* The selection fixes what is due.                                        *)
LEMMA BeginReports == ReportInv /\ Begin => ReportInv'
<1> SUFFICES ASSUME ReportInv, Begin PROVE ReportInv'
  OBVIOUS
<1>1. /\ phase = "start" /\ phase' = "added" /\ removed' = Removed /\ todo' = Added
      /\ UNCHANGED <<t1, t2, opt, inline, pending, inWorkers, tree>> /\ chosen' = pairs'
      /\ tree = {} /\ inline = <<>> /\ pending = <<>> /\ ~inWorkers
  BY DEF Begin, input, ReportInv, VisitInv
<1>2. Added' = Added /\ Removed' = Removed
  BY <1>1, SidesAreFixed
<1>3. InputInv'
  <2>1. diffCount' \in Nat
    <3>1. diffCount \in Nat /\ InputInv
      BY DEF ReportInv, InputInv
    <3>2. CASE \E measured \in 0 .. MaxMeasured : diffCount' = Counted(diffCount, measured)
      <4>1. PICK measured \in 0 .. MaxMeasured : diffCount' = Counted(diffCount, measured)
        BY <3>2
      <4>2. measured \in Nat
        BY DiffAssumption
      <4>3. QED
        BY <3>1, <4>1, <4>2, CountedIsNat
    <3>3. CASE UNCHANGED diffCount
      BY <3>1, <3>3
    <3>4. QED
      BY <3>2, <3>3 DEF Begin
  <2>2. QED
    BY <1>1, <2>1 DEF ReportInv, InputInv
<1>4. /\ DOMAIN pairs' \subseteq Added \cup Removed
      /\ \A h \in DOMAIN pairs' : pairs'[h] \in DOMAIN pairs' /\ pairs'[pairs'[h]] = h
      /\ \A h \in Added \cap DOMAIN pairs' : pairs'[h] \in Removed /\ <<h, pairs'[h]>> \in Near
      /\ \A h \in Removed \cap DOMAIN pairs' : pairs'[h] \in Added
  <2>1. CASE pairs' \in Pairings(Added, Removed, Near)
    BY <2>1, PartnersOfAdded, SidesAreDisjoint DEF IsPairing
  <2>2. CASE UNCHANGED pairs
    BY <1>1, <2>2 DEF ReportInv, PairsInv, UnvisitedInv
  <2>3. QED
    BY <2>1, <2>2 DEF Begin
<1>5. ChosenInv'
  BY <1>1, <1>2, <1>4 DEF ChosenInv
<1>6. VisitInv'
  BY <1>1, <1>2, <1>4 DEF VisitInv
<1>7. LeftInv' /\ ReportsAreExpected' /\ CompleteUnlessFlagged'
  BY <1>1, <1>2 DEF LeftInv, ReportsAreExpected, CompleteUnlessFlagged
<1>8. QED
  BY <1>3, <1>5, <1>6, <1>7, BeginStep DEF ReportInv

(* A run that stops at the limit is flagged.                               *)
LEMMA StopReports == ReportInv /\ StopAtLimit => ReportInv'
<1> SUFFICES ASSUME ReportInv, StopAtLimit PROVE ReportInv'
  OBVIOUS
<1>1. /\ phase' = "done" /\ diffLimit' /\ inline = <<>>
      /\ UNCHANGED <<t1, t2, opt, chosen, pairs, inline, pending, inWorkers, tree, diffCount>>
  BY DEF StopAtLimit, Iterating, input
<1>2. InputInv' /\ VisitInv' /\ LeftInv' /\ CompleteUnlessFlagged'
  BY <1>1 DEF ReportInv, InputInv, VisitInv, LeftInv, CompleteUnlessFlagged
<1>3. ChosenInv' /\ ReportsAreExpected'
  BY <1>1, FixedStay DEF ReportInv, ChosenInv, ReportsAreExpected
<1>4. PairsInv'
  BY PairsStep DEF Next, ReportInv
<1>5. QED
  BY <1>2, <1>3, <1>4 DEF ReportInv

(* An added hash is reported, or its comparisons are made to wait.         *)
LEMMA VisitAddedReports == ReportInv /\ VisitAdded => ReportInv'
<1> SUFFICES ASSUME ReportInv, VisitAdded PROVE ReportInv'
  OBVIOUS
<1> USE DEF ReportInv
<1>0. PICK h : h = NextOf(t2, todo)
  OBVIOUS
<1>1. /\ phase = "added" /\ phase' = phase /\ inline = <<>> /\ todo # {} /\ todo' = todo \ {h}
      /\ diffCount' = diffCount + 1
      /\ UNCHANGED <<t1, t2, opt, chosen, diffLimit, inWorkers>>
      /\ h \in DOMAIN pairs => /\ pairs' = Forget(h) /\ removed' = removed \ {pairs[h]}
                               /\ Compare(pairs[h], h) /\ tree' = tree
      /\ h \notin DOMAIN pairs => /\ tree' = tree \cup Kept(AddedReports(h))
                                  /\ UNCHANGED <<pairs, removed, inline, pending>>
  BY <1>0 DEF VisitAdded, Iterating, input
<1>2. h \in todo /\ h \in Added /\ todo \subseteq Added
  <2>1. todo \subseteq Added /\ Added \subseteq DOMAIN t2
    BY <1>1 DEF VisitInv, Added
  <2>2. QED
    BY <1>0, <1>1, <2>1, NextIsOne
<1>3. InputInv'
  BY <1>1 DEF InputInv
<1>4. PairsInv'
  BY PairsStep DEF Next
<1>5. ~inWorkers
  BY <1>1 DEF VisitInv
<1>6. CASE h \in DOMAIN pairs
  <2>1. h \in DOMAIN chosen /\ pairs[h] = chosen[h] /\ chosen[h] \in Removed /\ chosen[h] \notin Added
    BY <1>2, <1>6, SidesAreDisjoint DEF ChosenInv
  <2> DEFINE q == Comparisons(chosen[h], h)
  <2>2. q \in Seq(Due)
    BY <1>2, <2>1, ComparisonsAreDue
  <2>3. \/ inline' = q /\ pending' = pending
        \/ pending' = pending \o q /\ inline' = inline
    BY <1>1, <1>6, <2>1 DEF Compare
  <2> HIDE DEF q
  <2>4. /\ inline' \in Seq(Due) /\ pending' \in Seq(Due)
        /\ Pending \subseteq Pending' /\ ToSet(q) \subseteq Pending'
    <3>1. pending \in Seq(Due)
      BY DEF ChosenInv
    <3>2. CASE inline' = q /\ pending' = pending
      BY <1>1, <2>2, <3>1, <3>2 DEF Pending, ToSet
    <3>3. CASE pending' = pending \o q /\ inline' = inline
      <4>1. pending \o q \in Seq(Due)
        BY <2>2, <3>1
      <4>2. \A n \in DOMAIN pending : n \in DOMAIN (pending \o q) /\ (pending \o q)[n] = pending[n]
        BY <2>2, <3>1
      <4>3. \A n \in DOMAIN q : /\ Len(pending) + n \in DOMAIN (pending \o q)
                                /\ (pending \o q)[Len(pending) + n] = q[n]
        BY <2>2, <3>1
      <4>4. ToSet(pending) \subseteq ToSet(pending \o q) /\ ToSet(q) \subseteq ToSet(pending \o q)
        BY <4>2, <4>3 DEF ToSet
      <4>5. inline' \in Seq(Due)
        BY <3>3 DEF ChosenInv
      <4>6. QED
        BY <3>3, <4>1, <4>4, <4>5 DEF Pending
    <3>4. QED
      BY <2>3, <3>2, <3>3
  <2>5. /\ DOMAIN pairs' = DOMAIN pairs \ {h, chosen[h]}
        /\ \A k \in DOMAIN pairs' : pairs'[k] = pairs[k]
    BY <1>1, <1>6, <2>1 DEF Forget
  <2>6. ChosenInv'
    BY <1>1, <2>4, <2>5, FixedStay DEF ChosenInv
  <2>7. VisitInv'
    <3>1. removed' = removed \ {chosen[h]} /\ tree' = tree
      BY <1>1, <1>6, <2>1
    <3>2. \A k \in removed' \cap DOMAIN chosen : chosen[k] \in todo'
      BY <1>1, <3>1 DEF VisitInv, ChosenInv
    <3>3. Removed \ DOMAIN chosen \subseteq removed'
      BY <1>1, <2>1, <3>1 DEF VisitInv, ChosenInv
    <3>4. todo' \cap DOMAIN chosen \subseteq DOMAIN pairs'
      BY <1>1, <1>2, <2>1, <2>5 DEF VisitInv
    <3>5. QED
      BY <1>1, <1>5, <3>1, <3>2, <3>3, <3>4, FixedStay DEF VisitInv
  <2>8. LeftInv'
    <3>1. \A k : IsDone(k) => IsDone(k)'
      BY <1>1, <1>6, <2>4, DoneStaysDone
    <3>2. IsDone(h)'
      BY <1>1, <2>1, <2>4, FixedStay DEF IsDone, q
    <3>3. QED
      BY <1>1, <3>1, <3>2, FixedStay DEF LeftInv
  <2>9. ReportsAreExpected' /\ CompleteUnlessFlagged'
    BY <1>1, <1>6, FixedStay DEF ReportsAreExpected, CompleteUnlessFlagged
  <2>10. QED
    BY <1>3, <1>4, <2>6, <2>7, <2>8, <2>9
<1>7. CASE h \notin DOMAIN pairs
  <2>1. h \notin DOMAIN chosen
    BY <1>1, <1>2, <1>7 DEF VisitInv
  <2>2. /\ tree' = tree \cup Kept(AddedReports(h))
        /\ UNCHANGED <<pairs, removed, inline, pending>> /\ Pending' = Pending
    BY <1>1, <1>7 DEF Pending
  <2>3. ChosenInv'
    BY <1>1, <2>2, FixedStay DEF ChosenInv
  <2>4. VisitInv'
    <3>1. \A k \in removed' \cap DOMAIN chosen : chosen[k] \in todo'
      BY <1>1, <2>1, <2>2 DEF VisitInv, ChosenInv
    <3>2. QED
      BY <1>1, <1>5, <2>2, <3>1, FixedStay DEF VisitInv
  <2>5. LeftInv'
    <3>1. \A k : IsDone(k) => IsDone(k)'
      BY <1>1, <2>2, DoneStaysDone
    <3>2. IsDone(h)'
      BY <1>1, <2>1, <2>2, FixedStay DEF IsDone
    <3>3. QED
      BY <1>1, <3>1, <3>2, FixedStay DEF LeftInv
  <2>6. ReportsAreExpected'
    <3>1. Kept(AddedReports(h)) \subseteq Expected
      BY <1>2, <2>1, ExpectedParts
    <3>2. QED
      BY <1>1, <1>5, <2>2, <3>1, FixedStay DEF ReportsAreExpected
  <2>7. CompleteUnlessFlagged'
    BY <1>1 DEF CompleteUnlessFlagged
  <2>8. QED
    BY <1>3, <1>4, <2>3, <2>4, <2>5, <2>6, <2>7
<1>8. QED
  BY <1>6, <1>7

(* When no added hash is left, what is left of the removed ones is alone.  *)
LEMMA EndAddedReports == ReportInv /\ EndAdded => ReportInv'
<1> SUFFICES ASSUME ReportInv, EndAdded PROVE ReportInv'
  OBVIOUS
<1> USE DEF ReportInv
<1>1. /\ phase = "added" /\ phase' = "removed" /\ todo = {} /\ todo' = removed /\ inline = <<>>
      /\ UNCHANGED <<t1, t2, opt, chosen, pairs, removed, inline, pending, diffCount, diffLimit, inWorkers, tree>>
  BY DEF EndAdded, Iterating, input, stats
<1>2. InputInv' /\ PairsInv'
  BY <1>1, PairsStep DEF Next, InputInv
<1>3. ChosenInv' /\ ReportsAreExpected'
  BY <1>1, FixedStay DEF ChosenInv, ReportsAreExpected
<1>4. VisitInv'
  BY <1>1, FixedStay DEF VisitInv
<1>5. LeftInv' /\ CompleteUnlessFlagged'
  <2>1. \A h : IsDone(h) => IsDone(h)'
    <3>1. Pending' = Pending
      BY <1>1 DEF Pending
    <3>2. QED
      BY <1>1, <3>1, DoneStaysDone
  <2>2. Removed \ (removed \cup DOMAIN chosen) = {}
    BY <1>1 DEF VisitInv
  <2>3. QED
    BY <1>1, <2>1, <2>2, FixedStay DEF LeftInv, CompleteUnlessFlagged
<1>6. QED
  BY <1>2, <1>3, <1>4, <1>5

(* A removed hash is reported.                                             *)
LEMMA VisitRemovedReports == ReportInv /\ VisitRemoved => ReportInv'
<1> SUFFICES ASSUME ReportInv, VisitRemoved PROVE ReportInv'
  OBVIOUS
<1> USE DEF ReportInv
<1>0. PICK h : h = NextOf(t1, todo)
  OBVIOUS
<1>1. /\ phase = "removed" /\ phase' = phase /\ inline = <<>> /\ todo # {} /\ todo' = todo \ {h}
      /\ diffCount' = diffCount + 1
      /\ UNCHANGED <<t1, t2, opt, chosen, removed, diffLimit, inWorkers>>
      /\ h \notin DOMAIN pairs => /\ tree' = tree \cup Kept(RemovedReports(h))
                                  /\ UNCHANGED <<pairs, inline, pending>>
  BY <1>0 DEF VisitRemoved, Iterating, input
<1>2. h \in todo /\ h \in Removed \ DOMAIN chosen /\ ~inWorkers
  <2>1. todo \subseteq Removed \ DOMAIN chosen /\ Removed \subseteq DOMAIN t1 /\ ~inWorkers
    BY <1>1 DEF VisitInv, Removed
  <2>2. QED
    BY <1>0, <1>1, <2>1, NextIsOne
<1>3. /\ tree' = tree \cup Kept(RemovedReports(h)) /\ UNCHANGED <<pairs, inline, pending>>
      /\ Pending' = Pending
  BY <1>1, <1>2 DEF ChosenInv, Pending
<1>4. InputInv' /\ PairsInv'
  BY <1>1, PairsStep DEF Next, InputInv
<1>5. ChosenInv' /\ VisitInv'
  BY <1>1, <1>2, <1>3, FixedStay DEF ChosenInv, VisitInv
<1>6. LeftInv' /\ CompleteUnlessFlagged'
  <2>1. \A k : IsDone(k) => IsDone(k)'
    BY <1>1, <1>3, DoneStaysDone
  <2>2. QED
    BY <1>1, <1>3, <2>1, FixedStay DEF LeftInv, CompleteUnlessFlagged
<1>7. ReportsAreExpected'
  <2>1. Kept(RemovedReports(h)) \subseteq Expected
    BY <1>2, ExpectedParts
  <2>2. QED
    BY <1>1, <1>2, <1>3, <2>1, FixedStay DEF ReportsAreExpected
<1>8. QED
  BY <1>4, <1>5, <1>6, <1>7

(* The repetitions of what both have.                                      *)
LEMMA EndRemovedReports == ReportInv /\ EndRemoved => ReportInv'
<1> SUFFICES ASSUME ReportInv, EndRemoved PROVE ReportInv'
  OBVIOUS
<1> USE DEF ReportInv
<1>1. /\ phase = "removed" /\ phase' = "dispatch" /\ todo = {} /\ inline = <<>>
      /\ tree' = tree \cup Kept(RepetitionReports)
      /\ UNCHANGED <<t1, t2, opt, chosen, pairs, inline, pending, diffCount, diffLimit, inWorkers>>
  BY DEF EndRemoved, Iterating, input, stats
<1>2. InputInv' /\ PairsInv' /\ ~inWorkers
  BY <1>1, PairsStep DEF Next, InputInv, VisitInv
<1>3. ChosenInv' /\ VisitInv'
  BY <1>1, <1>2, FixedStay DEF ChosenInv, VisitInv
<1>4. LeftInv' /\ CompleteUnlessFlagged'
  <2>1. \A h : IsDone(h) => IsDone(h)'
    <3>1. Pending' = Pending
      BY <1>1 DEF Pending
    <3>2. QED
      BY <1>1, <3>1, DoneStaysDone
  <2>2. QED
    BY <1>1, <2>1, FixedStay DEF LeftInv, CompleteUnlessFlagged
<1>5. ReportsAreExpected'
  BY <1>1, <1>2, ExpectedParts, FixedStay DEF ReportsAreExpected
<1>6. QED
  BY <1>2, <1>3, <1>4, <1>5

(* A comparison made in this process.                                      *)
LEMMA DiffInlineReports == ReportInv /\ DiffInline => ReportInv'
<1> SUFFICES ASSUME ReportInv, DiffInline PROVE ReportInv'
  OBVIOUS
<1> USE DEF ReportInv
<1> DEFINE c == Head(inline)
           base == <<c.index>>
           found == Changes(c, Entries(c, base, diffCount))
<1>1. /\ inline # <<>> /\ inline' = Tail(inline) /\ phase' = phase /\ tree' = tree \cup found
      /\ diffCount' = Counted(diffCount, Cost(c, base))
      /\ diffLimit' <=> (diffLimit \/ Exceeds(diffCount + Cost(c, base) - 1))
      /\ UNCHANGED <<t1, t2, opt, chosen, pairs, removed, todo, pending, inWorkers>>
  BY DEF DiffInline, input
<1>2. /\ c \in Due /\ inline' \in Seq(Due)
      /\ \A d \in Pending : d = c \/ d \in Pending'
  <2>1. inline \in Seq(Due)
    BY DEF ChosenInv
  <2>2. c \in Due /\ Tail(inline) \in Seq(Due)
    BY <1>1, <2>1
  <2>3. \A n \in DOMAIN inline : n = 1 \/ (n - 1 \in DOMAIN Tail(inline) /\ Tail(inline)[n - 1] = inline[n])
    BY <1>1, <2>1
  <2>4. inline[1] = c
    BY <1>1, <2>1
  <2> HIDE DEF c
  <2>5. \A d \in ToSet(inline) : d = c \/ d \in ToSet(Tail(inline))
    BY <2>3, <2>4 DEF ToSet
  <2>6. QED
    BY <1>1, <2>2, <2>5 DEF Pending
<1> HIDE DEF c
<1>3. /\ found \subseteq Unlimited(c)
      /\ ~Exceeds(diffCount + Cost(c, base) - 1) => found = Unlimited(c)
  BY <1>2, DiffReportsAPart DEF InputInv
<1>4. diffCount' \in Nat
  BY <1>1, <1>2, VisitsAreCounted, CountedIsNat DEF InputInv
<1> HIDE DEF base, found
<1>5. InputInv' /\ PairsInv'
  BY <1>1, <1>4, PairsStep DEF Next, InputInv
<1>6. ChosenInv'
  BY <1>1, <1>2, FixedStay DEF ChosenInv
<1>7. phase \in {"added", "removed", "dispatch"} \/ phase \notin {"start", "added", "removed", "dispatch", "done", "raised"}
  BY <1>1 DEF VisitInv
<1>8. VisitInv'
  BY <1>1, <1>7, FixedStay DEF VisitInv
<1>9. LeftInv' /\ CompleteUnlessFlagged'
  <2>1. ASSUME ~diffLimit'
        PROVE  \A h : IsDone(h) => IsDone(h)'
    <3>1. found = Unlimited(c)
      BY <1>1, <1>3, <2>1
    <3>2. QED
      BY <1>1, <1>2, <3>1, DoneStaysDone
  <2>2. LeftInv'
    BY <1>1, <2>1, FixedStay DEF LeftInv
  <2>3. QED
    BY <1>1, <1>7, <2>2 DEF CompleteUnlessFlagged
<1>10. ReportsAreExpected'
  BY <1>1, <1>2, <1>3, ExpectedParts, FixedStay DEF ReportsAreExpected
<1>11. QED
  BY <1>5, <1>6, <1>8, <1>9, <1>10

(* No pool: the comparisons that were deferred wait in this process.       *)
LEMMA SerialReports == ReportInv /\ DispatchSerially => ReportInv'
<1> SUFFICES ASSUME ReportInv, DispatchSerially PROVE ReportInv'
  OBVIOUS
<1> USE DEF ReportInv
<1>1. /\ phase = "dispatch" /\ phase' = phase /\ pending # <<>> /\ inline' = pending /\ pending' = <<>>
      /\ inline = <<>>
      /\ UNCHANGED <<t1, t2, opt, chosen, pairs, removed, todo, diffCount, diffLimit, inWorkers, tree>>
  BY DEF DispatchSerially, input, stats, VisitInv
<1>2. InputInv' /\ PairsInv'
  BY <1>1, PairsStep DEF Next, InputInv
<1>3. ChosenInv' /\ VisitInv' /\ ReportsAreExpected'
  BY <1>1, FixedStay DEF ChosenInv, VisitInv, ReportsAreExpected
<1>4. LeftInv' /\ CompleteUnlessFlagged'
  <2>1. Pending' = Pending
    BY <1>1 DEF Pending, ToSet
  <2>2. \A h : IsDone(h) => IsDone(h)'
    BY <1>1, <2>1, DoneStaysDone
  <2>3. QED
    BY <1>1, <2>2, FixedStay DEF LeftInv, CompleteUnlessFlagged
<1>5. QED
  BY <1>2, <1>3, <1>4

(* The workers' answers.                                                   *)
LEMMA WorkersReports == ReportInv /\ DispatchToWorkers => ReportInv'
<1> SUFFICES ASSUME ReportInv, DispatchToWorkers PROVE ReportInv'
  OBVIOUS
<1> USE DEF ReportInv
<1> DEFINE found == UNION {Changes(job, Entries(job, <<>>, 0)) : job \in ToSet(pending)}
<1>1. /\ phase = "dispatch" /\ phase' = "done" /\ inline = <<>> /\ inWorkers' /\ ~inWorkers
      /\ tree' = tree \cup Kept(found)
      /\ diffLimit' <=> (diffLimit \/ \E job \in ToSet(pending) : Exceeds(Cost(job, <<>>) - 1))
      /\ UNCHANGED <<t1, t2, opt, chosen, pairs, removed, todo, inline, pending, diffCount>>
  BY DEF DispatchToWorkers, input, VisitInv
<1>2. ToSet(pending) \subseteq Due /\ Pending = ToSet(pending)
  BY <1>1 DEF ChosenInv, ToSet, Pending
<1>3. InputInv' /\ PairsInv' /\ ChosenInv' /\ VisitInv' /\ LeftInv'
  BY <1>1, PairsStep, FixedStay DEF Next, InputInv, ChosenInv, VisitInv, LeftInv
<1>4. ASSUME NoFilters
      PROVE  /\ Kept(found) = found /\ found \subseteq Expected
             /\ ~diffLimit' => \A job \in ToSet(pending) : Unlimited(job) \subseteq found
  <2>1. ASSUME NEW job \in ToSet(pending)
        PROVE  /\ Changes(job, Entries(job, <<>>, 0)) \subseteq Unlimited(job)
               /\ ~diffLimit' => Changes(job, Entries(job, <<>>, 0)) = Unlimited(job)
    <3>1. job \in Due
      BY <1>2
    <3>2. /\ Changes(job, Entries(job, <<>>, 0)) \subseteq Unlimited(job)
          /\ ~Exceeds(0 + Cost(job, <<>>) - 1) => Changes(job, Entries(job, <<>>, 0)) = Unlimited(job)
      BY <1>4, <3>1, WorkersSeeTheSame, DiffReportsAPart
    <3>3. 0 + Cost(job, <<>>) - 1 = Cost(job, <<>>) - 1
      BY <3>1, VisitsAreCounted
    <3>4. QED
      BY <1>1, <3>2, <3>3
  <2>2. Kept(found) = found
    BY <1>4, WorkersSeeTheSame
  <2>3. found \subseteq Expected
    BY <1>2, <2>1, ExpectedParts
  <2>4. QED
    BY <2>1, <2>2, <2>3
<1> HIDE DEF found
<1>5. ReportsAreExpected'
  BY <1>1, <1>4, FixedStay DEF ReportsAreExpected
<1>6. CompleteUnlessFlagged'
  <2> SUFFICES ASSUME ~diffLimit', NoFilters PROVE Expected \subseteq tree'
    BY <1>1, <1>5, FixedStay DEF ReportsAreExpected, CompleteUnlessFlagged
  <2>1. /\ \A h \in Added : IsDone(h)
        /\ \A h \in Removed \ DOMAIN chosen : Kept(RemovedReports(h)) \subseteq tree
        /\ Kept(RepetitionReports) \subseteq tree
    BY <1>1 DEF LeftInv
  <2>2. tree \subseteq tree' /\ \A c \in Pending : Unlimited(c) \subseteq tree'
    BY <1>1, <1>2, <1>4
  <2>3. /\ \A c \in Due : Unlimited(c) \subseteq tree'
        /\ \A h \in Added \ DOMAIN chosen : Kept(AddedReports(h)) \subseteq tree'
    BY <2>1, <2>2, DueAreReported
  <2>4. QED
    BY <2>1, <2>2, <2>3, ExpectedIsThere
<1>7. QED
  BY <1>3, <1>5, <1>6

(* Nothing is waiting any more.                                            *)
LEMMA ReturnReports == ReportInv /\ Return => ReportInv'
<1> SUFFICES ASSUME ReportInv, Return PROVE ReportInv'
  OBVIOUS
<1> USE DEF ReportInv
<1>1. /\ phase = "dispatch" /\ phase' = "done" /\ inline = <<>> /\ pending = <<>> /\ ~inWorkers
      /\ UNCHANGED <<t1, t2, opt, chosen, pairs, removed, todo, inline, pending, diffCount, diffLimit,
                     inWorkers, tree>>
  BY DEF Return, Iterating, input, stats, VisitInv
<1>2. InputInv' /\ PairsInv' /\ ChosenInv' /\ VisitInv' /\ LeftInv' /\ ReportsAreExpected'
  BY <1>1, PairsStep, FixedStay DEF Next, InputInv, ChosenInv, VisitInv, LeftInv, ReportsAreExpected
<1>3. CompleteUnlessFlagged'
  <2> SUFFICES ASSUME ~diffLimit PROVE Expected \subseteq tree
    BY <1>1, FixedStay DEF ReportsAreExpected, CompleteUnlessFlagged
  <2>1. /\ \A h \in Added : IsDone(h)
        /\ \A h \in Removed \ DOMAIN chosen : Kept(RemovedReports(h)) \subseteq tree
        /\ Kept(RepetitionReports) \subseteq tree
    BY <1>1 DEF LeftInv
  <2>2. \A c \in Pending : Unlimited(c) \subseteq tree
    BY <1>1 DEF Pending, ToSet
  <2>3. /\ \A c \in Due : Unlimited(c) \subseteq tree
        /\ \A h \in Added \ DOMAIN chosen : Kept(AddedReports(h)) \subseteq tree
    BY <2>1, <2>2, DueAreReported
  <2>4. QED
    BY <2>1, <2>3, ExpectedIsThere
<1>4. QED
  BY <1>2, <1>3

(* A run that raises reports nothing.                                      *)
LEMMA RaiseReports == ReportInv /\ DispatchRaises => ReportInv'
<1> SUFFICES ASSUME ReportInv, DispatchRaises PROVE ReportInv'
  OBVIOUS
<1> USE DEF ReportInv
<1>1. /\ phase = "dispatch" /\ phase' = "raised" /\ inline = <<>> /\ ~inWorkers
      /\ UNCHANGED <<t1, t2, opt, chosen, pairs, removed, todo, inline, pending, diffCount, diffLimit,
                     inWorkers, tree>>
  BY DEF DispatchRaises, input, stats, VisitInv
<1>2. QED
  BY <1>1, PairsStep, FixedStay DEF Next, InputInv, ChosenInv, VisitInv, LeftInv, ReportsAreExpected,
     CompleteUnlessFlagged

(* Every step keeps the report within what is expected, and complete.      *)
LEMMA ReportStep == ReportInv /\ [Next]_vars => ReportInv'
<1> SUFFICES ASSUME ReportInv, [Next]_vars PROVE ReportInv'
  OBVIOUS
<1>1. CASE UNCHANGED vars
  <2>1. /\ UNCHANGED <<t1, t2, opt, chosen, pairs, removed, todo, inline, pending, diffCount, diffLimit,
                       inWorkers, tree>>
        /\ phase' = phase
    BY <1>1 DEF vars, input, stats
  <2>2. Pending' = Pending
    BY <2>1 DEF Pending
  <2>3. \A h : IsDone(h) => IsDone(h)'
    BY <2>1, <2>2, DoneStaysDone
  <2>4. PairsInv' /\ InputInv'
    BY <1>1, <2>1, PairsStep DEF ReportInv, InputInv
  <2>5. ChosenInv' /\ VisitInv' /\ ReportsAreExpected' /\ CompleteUnlessFlagged'
    BY <2>1, FixedStay DEF ReportInv, ChosenInv, VisitInv, ReportsAreExpected, CompleteUnlessFlagged
  <2>6. LeftInv'
    BY <2>1, <2>3, FixedStay DEF ReportInv, LeftInv
  <2>7. QED
    BY <2>4, <2>5, <2>6 DEF ReportInv
<1>2. QED
  BY <1>1, BeginReports, StopReports, VisitAddedReports, EndAddedReports, VisitRemovedReports,
     EndRemovedReports, DiffInlineReports, SerialReports, WorkersReports, ReturnReports, RaiseReports
  DEF Next, Finished

(* Nothing is reported that the run without limits, deferral and workers   *)
(* would not report: for all tables, pairings, filters and limits, unless  *)
(* workers met a filter of paths.                                          *)
THEOREM ReportsAreRight == Spec => []ReportsAreExpected
<1>1. ReportInv => ReportsAreExpected
  BY DEF ReportInv
<1>2. QED
  BY <1>1, ReportInit, ReportStep, PTL DEF Spec

(* And all of that is reported, or the run is flagged.                     *)
THEOREM ReportIsWhole == Spec => []CompleteUnlessFlagged
<1>1. ReportInv => CompleteUnlessFlagged
  BY DEF ReportInv
<1>2. QED
  BY <1>1, ReportInit, ReportStep, PTL DEF Spec

=============================================================================
