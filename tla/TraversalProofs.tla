-------------------------- MODULE TraversalProofs --------------------------
(***************************************************************************)
(* Proofs about Traversal, for every heap, every filter and every limit.   *)
(***************************************************************************)
EXTENDS Traversal, FiniteSetTheorems, NaturalsInduction, WellFoundedInduction, TLAPS

-----------------------------------------------------------------------------
(* The matcher of patterns (GlobPath).                                     *)

(* A set of numbers has a least one: induction for what follows.           *)
LEMMA Least ==
  ASSUME NEW T \in SUBSET Nat, T # {}
  PROVE  \E x \in T : \A y \in T : x <= y
<1> DEFINE R == OpToRel(<, Nat)
<1>1. IsWellFoundedOn(R, Nat)
  BY NatLessThanWellFounded
<1>2. \A x, y \in Nat : x < y => <<x, y>> \in R
  BY DEF OpToRel
<1> HIDE DEF R
<1>3. \E x \in T : \A y \in T : ~ (<<y, x>> \in R)
  BY <1>1, WFMin
<1>4. PICK x \in T : \A y \in T : ~ (<<y, x>> \in R)
  BY <1>3
<1>5. \A y \in T : ~ (y < x)
  BY <1>2, <1>4
<1>6. \A y \in T : x <= y
  BY <1>5
<1>7. QED
  BY <1>6

(* Element i of the pattern stands for the elements of the target after    *)
(* from, up to to.                                                         *)
Stands(pattern, target, i, from, to) ==
  IF pattern[i] = AnyElements
  THEN from <= to
  ELSE to = from + 1 /\ MatchesOne(pattern[i], target[to])

(* end[i] is where element i of the pattern ends.                          *)
IsCut(pattern, target, pi, pj, end) ==
  \A i \in pi + 1 .. pj : Stands(pattern, target, i, end[i - 1], end[i])

(* The elements of the pattern after pi, up to pj, stand together for those*)
(* of the target after ti, up to tj.                                       *)
Reaches(pattern, target, pi, ti, pj, tj) ==
  \E end \in [pi .. pj -> 0 .. Len(target)] :
    end[pi] = ti /\ end[pj] = tj /\ IsCut(pattern, target, pi, pj, end)

(* No cut goes back.                                                       *)
LEMMA CutRises ==
  ASSUME NEW pattern, NEW target, Len(target) \in Nat, NEW pi \in Nat, NEW pj \in Nat,
         NEW end \in [pi .. pj -> 0 .. Len(target)], IsCut(pattern, target, pi, pj, end),
         NEW i \in pi .. pj, NEW j \in i .. pj
  PROVE  end[i] <= end[j]
<1> DEFINE T == { n \in i .. pj : end[n] < end[i] }
<1> SUFFICES ASSUME T # {} PROVE FALSE
  OBVIOUS
<1>1. PICK n \in T : \A m \in T : n <= m
  <2>1. T \subseteq Nat
    OBVIOUS
  <2> HIDE DEF T
  <2>2. QED
    BY <2>1, Least
<1>2. n \in i .. pj /\ end[n] < end[i]
  OBVIOUS
<1>3. n \in pi + 1 .. pj /\ n - 1 \in i .. pj
  BY <1>2
<1>4. end[n - 1] >= end[i]
  BY <1>1, <1>3
<1>5. Stands(pattern, target, n, end[n - 1], end[n])
  BY <1>3 DEF IsCut
<1>6. end[n - 1] <= end[n]
  BY <1>3, <1>5 DEF Stands
<1>7. QED
  BY <1>2, <1>3, <1>4, <1>6

(* No element of the pattern stands for no element of the target.          *)
LEMMA ReachesNothing ==
  ASSUME NEW pattern, NEW target, Len(target) \in Nat, NEW pi \in Nat, NEW ti \in 0 .. Len(target), NEW tj
  PROVE  Reaches(pattern, target, pi, ti, pi, tj) <=> tj = ti
<1>1. ASSUME tj = ti PROVE Reaches(pattern, target, pi, ti, pi, tj)
  <2> DEFINE end == [i \in pi .. pi |-> ti]
  <2>1. end \in [pi .. pi -> 0 .. Len(target)] /\ end[pi] = ti
    OBVIOUS
  <2>2. IsCut(pattern, target, pi, pi, end)
    BY DEF IsCut
  <2>3. QED
    BY <1>1, <2>1, <2>2 DEF Reaches
<1>2. QED
  BY <1>1 DEF Reaches

(* A cut is one for the first element and one for those after it.         *)
LEMMA ReachesFirst ==
  ASSUME NEW pattern, NEW target, Len(target) \in Nat, NEW pi \in Nat, NEW pj \in Nat, pi < pj,
         NEW ti \in 0 .. Len(target), NEW tj
  PROVE  Reaches(pattern, target, pi, ti, pj, tj) <=>
           \E k \in 0 .. Len(target) :
             Stands(pattern, target, pi + 1, ti, k) /\ Reaches(pattern, target, pi + 1, k, pj, tj)
<1>1. ASSUME Reaches(pattern, target, pi, ti, pj, tj)
      PROVE  \E k \in 0 .. Len(target) :
               Stands(pattern, target, pi + 1, ti, k) /\ Reaches(pattern, target, pi + 1, k, pj, tj)
  <2>1. PICK end \in [pi .. pj -> 0 .. Len(target)] :
          end[pi] = ti /\ end[pj] = tj /\ IsCut(pattern, target, pi, pj, end)
    BY <1>1 DEF Reaches
  <2> DEFINE rest == [i \in pi + 1 .. pj |-> end[i]]
  <2>2. rest \in [pi + 1 .. pj -> 0 .. Len(target)] /\ rest[pj] = tj
    BY <2>1
  <2>3. Stands(pattern, target, pi + 1, ti, end[pi + 1])
    <3>1. Stands(pattern, target, pi + 1, end[pi + 1 - 1], end[pi + 1])
      BY <2>1 DEF IsCut
    <3>2. pi + 1 - 1 = pi
      OBVIOUS
    <3>3. QED
      BY <2>1, <3>1, <3>2
  <2>4. IsCut(pattern, target, pi + 1, pj, rest)
    <3> SUFFICES ASSUME NEW i \in pi + 1 + 1 .. pj
                 PROVE  Stands(pattern, target, i, rest[i - 1], rest[i])
      BY DEF IsCut
    <3>1. Stands(pattern, target, i, end[i - 1], end[i])
      BY <2>1 DEF IsCut
    <3>2. i \in pi + 1 .. pj /\ i - 1 \in pi + 1 .. pj
      OBVIOUS
    <3>3. rest[i] = end[i] /\ rest[i - 1] = end[i - 1]
      BY <3>2
    <3> HIDE DEF rest
    <3>4. QED
      BY <3>1, <3>3
  <2>5. rest[pi + 1] = end[pi + 1] /\ end[pi + 1] \in 0 .. Len(target)
    BY <2>1
  <2>6. Reaches(pattern, target, pi + 1, end[pi + 1], pj, tj)
    BY <2>2, <2>4, <2>5 DEF Reaches
  <2>7. QED
    BY <2>3, <2>5, <2>6
<1>2. ASSUME NEW k \in 0 .. Len(target), Stands(pattern, target, pi + 1, ti, k),
             Reaches(pattern, target, pi + 1, k, pj, tj)
      PROVE  Reaches(pattern, target, pi, ti, pj, tj)
  <2>1. PICK end \in [pi + 1 .. pj -> 0 .. Len(target)] :
          end[pi + 1] = k /\ end[pj] = tj /\ IsCut(pattern, target, pi + 1, pj, end)
    BY <1>2 DEF Reaches
  <2> DEFINE all == [i \in pi .. pj |-> IF i = pi THEN ti ELSE end[i]]
  <2>2. all \in [pi .. pj -> 0 .. Len(target)] /\ all[pj] = tj /\ all[pi] = ti
    BY <2>1
  <2>3. IsCut(pattern, target, pi, pj, all)
    <3> SUFFICES ASSUME NEW i \in pi + 1 .. pj
                 PROVE  Stands(pattern, target, i, all[i - 1], all[i])
      BY DEF IsCut
    <3>1. CASE i = pi + 1
      <4>1. all[i - 1] = ti /\ all[i] = k
        BY <2>1, <3>1
      <4> HIDE DEF all
      <4>2. QED
        BY <1>2, <3>1, <4>1
    <3>2. CASE i # pi + 1
      <4>1. i \in pi + 1 + 1 .. pj
        BY <3>2
      <4>2. Stands(pattern, target, i, end[i - 1], end[i])
        BY <2>1, <4>1 DEF IsCut
      <4>3. all[i - 1] = end[i - 1] /\ all[i] = end[i]
        BY <4>1
      <4> HIDE DEF all
      <4>4. QED
        BY <4>2, <4>3
    <3>3. QED
      BY <3>1, <3>2
  <2>4. QED
    BY <2>2, <2>3 DEF Reaches
<1>3. QED
  BY <1>1, <1>2

(* The function of _match_segments is unfolded from the end of the pattern.*)
LEMMA MatchMeans ==
  ASSUME NEW pattern, NEW target, Len(pattern) \in Nat, Len(target) \in Nat, NEW extra \in BOOLEAN
  PROVE  MatchSegments(pattern, target, extra) <=>
           \E tj \in 0 .. Len(target) :
             Reaches(pattern, target, 0, 0, Len(pattern), tj) /\ (extra \/ tj = Len(target))
<1> DEFINE P == Len(pattern)
           T == Len(target)
           S == (0 .. P) \X (0 .. T)
           M(pi, ti) == \E tj \in 0 .. T :
                          Reaches(pattern, target, pi, ti, P, tj) /\ (extra \/ tj = T)
           Body(f, pi, ti) ==
             IF pi < P /\ ti < T
             THEN IF pattern[pi + 1] = AnyElements
                  THEN \E k \in ti .. T : f[<<pi + 1, k>>]
                  ELSE MatchesOne(pattern[pi + 1], target[ti + 1]) /\ f[<<pi + 1, ti + 1>>]
             ELSE /\ \A i \in pi + 1 .. P : pattern[i] = AnyElements
                  /\ extra \/ ti = T
           Solves(f) == f = [at \in S |-> Body(f, at[1], at[2])]
           found == [at \in S |-> M(at[1], at[2])]
           chosen == CHOOSE f : Solves(f)
<1>1. MatchSegments(pattern, target, extra) = chosen[<<0, 0>>]
  BY DEF MatchSegments
<1> HIDE DEF M, chosen, Solves
<1>2. \A pi \in 0 .. P, ti \in 0 .. T : found[<<pi, ti>>] <=> M(pi, ti)
  OBVIOUS
<1> HIDE DEF found
<1>3. ASSUME NEW pi \in 0 .. P, NEW ti \in 0 .. T
      PROVE  M(pi, ti) <=> Body(found, pi, ti)
  <2>1. CASE pi < P /\ ti < T
    <3>1. M(pi, ti) <=> \E k \in 0 .. T : Stands(pattern, target, pi + 1, ti, k) /\ M(pi + 1, k)
      <4>1. \A tj : Reaches(pattern, target, pi, ti, P, tj) <=>
               \E k \in 0 .. T :
                 Stands(pattern, target, pi + 1, ti, k) /\ Reaches(pattern, target, pi + 1, k, P, tj)
        BY <2>1, ReachesFirst
      <4>2. QED
        BY <4>1 DEF M
    <3>2. pi + 1 \in 0 .. P /\ ti + 1 \in 0 .. T
      BY <2>1
    <3>3. \A k \in 0 .. T : found[<<pi + 1, k>>] <=> M(pi + 1, k)
      BY <1>2, <3>2
    <3>4. CASE pattern[pi + 1] = AnyElements
      <4>1. \A k \in 0 .. T : Stands(pattern, target, pi + 1, ti, k) <=> k \in ti .. T
        BY <3>4 DEF Stands
      <4>2. M(pi, ti) <=> \E k \in ti .. T : found[<<pi + 1, k>>]
        <5>1. \A k : k \in ti .. T <=> k \in 0 .. T /\ Stands(pattern, target, pi + 1, ti, k)
          BY <4>1
        <5>2. QED
          BY <3>1, <3>3, <5>1, Zenon
      <4>3. QED
        BY <2>1, <3>4, <4>2
    <3>5. CASE pattern[pi + 1] # AnyElements
      <4>1. \A k \in 0 .. T : Stands(pattern, target, pi + 1, ti, k) <=>
                                k = ti + 1 /\ MatchesOne(pattern[pi + 1], target[ti + 1])
        BY <3>5 DEF Stands
      <4>2. M(pi, ti) <=> MatchesOne(pattern[pi + 1], target[ti + 1]) /\ found[<<pi + 1, ti + 1>>]
        BY <3>1, <3>2, <3>3, <4>1
      <4>3. QED
        BY <2>1, <3>5, <4>2
    <3>6. QED
      BY <3>4, <3>5
  <2>2. CASE pi = P
    <3>1. \A tj : Reaches(pattern, target, pi, ti, P, tj) <=> tj = ti
      BY <2>2, ReachesNothing
    <3>2. M(pi, ti) <=> extra \/ ti = T
      BY <3>1 DEF M
    <3>3. QED
      BY <2>2, <3>2
  <2>3. CASE pi < P /\ ti = T
    <3>1. ASSUME M(pi, ti), NEW i \in pi + 1 .. P
          PROVE  pattern[i] = AnyElements
      <4>1. PICK tj \in 0 .. T : Reaches(pattern, target, pi, ti, P, tj)
        BY <3>1 DEF M
      <4>2. PICK end \in [pi .. P -> 0 .. T] : end[pi] = ti /\ IsCut(pattern, target, pi, P, end)
        BY <4>1 DEF Reaches
      <4>3. end[pi] <= end[i - 1]
        BY <4>2, CutRises
      <4>4. end[i - 1] = T /\ end[i] <= T
        BY <2>3, <4>2, <4>3
      <4>5. Stands(pattern, target, i, end[i - 1], end[i])
        BY <4>2 DEF IsCut
      <4>6. end[i] # end[i - 1] + 1
        BY <4>4
      <4>7. QED
        BY <4>5, <4>6 DEF Stands
    <3>2. ASSUME \A i \in pi + 1 .. P : pattern[i] = AnyElements
          PROVE  M(pi, ti)
      <4> DEFINE end == [i \in pi .. P |-> T]
      <4>1. end \in [pi .. P -> 0 .. T] /\ end[pi] = ti /\ end[P] = T
        BY <2>3
      <4>2. IsCut(pattern, target, pi, P, end)
        BY <3>2 DEF IsCut, Stands
      <4>3. QED
        BY <4>1, <4>2 DEF M, Reaches
    <3>3. QED
      BY <2>3, <3>1, <3>2
  <2>4. QED
    BY <2>1, <2>2, <2>3
<1>4. Solves(chosen)
  <2>1. \A at \in S : M(at[1], at[2]) = Body(found, at[1], at[2])
    BY <1>3 DEF M
  <2>2. Solves(found)
    BY <2>1 DEF Solves, found
  <2>3. QED
    BY <2>2 DEF chosen
<1>5. \A pi \in 0 .. P, ti \in 0 .. T : chosen[<<pi, ti>>] <=> Body(chosen, pi, ti)
  <2>1. chosen = [at \in S |-> Body(chosen, at[1], at[2])]
    BY <1>4 DEF Solves
  <2> HIDE DEF Body
  <2> SUFFICES ASSUME NEW pi \in 0 .. P, NEW ti \in 0 .. T
               PROVE  chosen[<<pi, ti>>] <=> Body(chosen, pi, ti)
    OBVIOUS
  <2>2. <<pi, ti>> \in S /\ <<pi, ti>>[1] = pi /\ <<pi, ti>>[2] = ti
    OBVIOUS
  <2>3. chosen[<<pi, ti>>] = Body(chosen, <<pi, ti>>[1], <<pi, ti>>[2])
    BY <2>1, <2>2, Zenon
  <2>4. QED
    BY <2>2, <2>3, Zenon
<1>6. ASSUME NEW pi \in 0 .. P, NEW ti \in 0 .. T,
             pi < P => \A k \in 0 .. T : chosen[<<pi + 1, k>>] <=> found[<<pi + 1, k>>]
      PROVE  chosen[<<pi, ti>>] <=> found[<<pi, ti>>]
  <2>1. Body(chosen, pi, ti) <=> Body(found, pi, ti)
    <3>1. CASE pi < P /\ ti < T
      <4>1. \A k \in ti .. T : chosen[<<pi + 1, k>>] <=> found[<<pi + 1, k>>]
        BY <1>6, <3>1
      <4>2. chosen[<<pi + 1, ti + 1>>] <=> found[<<pi + 1, ti + 1>>]
        BY <1>6, <3>1
      <4>3. QED
        BY <4>1, <4>2
    <3>2. CASE ~ (pi < P /\ ti < T)
      BY <3>2
    <3>3. QED
      BY <3>1, <3>2
  <2>2. Body(found, pi, ti) <=> found[<<pi, ti>>]
    BY <1>2, <1>3
  <2>3. chosen[<<pi, ti>>] <=> Body(chosen, pi, ti)
    BY <1>5
  <2> HIDE DEF Body
  <2>4. QED
    BY <2>1, <2>2, <2>3, Zenon
<1>7. chosen[<<0, 0>>] <=> found[<<0, 0>>]
  <2> DEFINE Wrong == { n \in 0 .. P : \E ti \in 0 .. T : ~(chosen[<<P - n, ti>>] <=> found[<<P - n, ti>>]) }
  <2>1. Wrong = {}
    <3> SUFFICES ASSUME Wrong # {} PROVE FALSE
      OBVIOUS
    <3>1. Wrong \subseteq Nat
      OBVIOUS
    <3> HIDE DEF Wrong
    <3>2. PICK n \in Wrong : \A m \in Wrong : n <= m
      BY <3>1, Least
    <3>3. n \in 0 .. P
      BY DEF Wrong
    <3>4. PICK ti \in 0 .. T : ~(chosen[<<P - n, ti>>] <=> found[<<P - n, ti>>])
      BY DEF Wrong
    <3>5. ASSUME P - n < P, NEW k \in 0 .. T
          PROVE  chosen[<<P - n + 1, k>>] <=> found[<<P - n + 1, k>>]
      <4>1. n - 1 \in 0 .. P /\ n - 1 \notin Wrong /\ P - (n - 1) = P - n + 1
        BY <3>2, <3>3, <3>5
      <4>2. QED
        BY <4>1 DEF Wrong
    <3>6. P - n \in 0 .. P
      BY <3>3
    <3>7. QED
      BY <1>6, <3>4, <3>5, <3>6
  <2>2. P \in 0 .. P /\ 0 \in 0 .. T /\ P - P = 0
    OBVIOUS
  <2>3. QED
    BY <2>1, <2>2
<1>8. 0 \in 0 .. P /\ 0 \in 0 .. T
  OBVIOUS
<1>9. MatchSegments(pattern, target, extra) <=> M(0, 0)
  BY <1>1, <1>2, <1>7, <1>8, Zenon
<1>10. QED
  BY <1>9 DEF M

(* That of _could_match_descendant, from the ends of both: some elements of*)
(* the pattern, not all, cover the target, the next one reaching beyond it *)
(* if it is "**".                                                          *)
LEMMA CouldMatchMeans ==
  ASSUME NEW pattern, NEW target, Len(pattern) \in Nat, Len(target) \in Nat
  PROVE  CouldMatchDescendant(pattern, target) <=>
           \E pj \in 0 .. Len(pattern) - 1, tj \in 0 .. Len(target) :
             /\ Reaches(pattern, target, 0, 0, pj, tj)
             /\ tj = Len(target) \/ pattern[pj + 1] = AnyElements
<1> DEFINE P == Len(pattern)
           T == Len(target)
           S == (0 .. P) \X (0 .. T)
           C(pi, ti) == \E pj \in pi .. P - 1, tj \in 0 .. T :
                          /\ Reaches(pattern, target, pi, ti, pj, tj)
                          /\ tj = T \/ pattern[pj + 1] = AnyElements
           Body(f, pi, ti) ==
             /\ pi < P
             /\ ti < T =>
                  IF pattern[pi + 1] = AnyElements
                  THEN f[<<pi + 1, ti>>] \/ f[<<pi, ti + 1>>]
                  ELSE MatchesOne(pattern[pi + 1], target[ti + 1]) /\ f[<<pi + 1, ti + 1>>]
           Solves(f) == f = [at \in S |-> Body(f, at[1], at[2])]
           found == [at \in S |-> C(at[1], at[2])]
           chosen == CHOOSE f : Solves(f)
<1>1. CouldMatchDescendant(pattern, target) = chosen[<<0, 0>>]
  BY DEF CouldMatchDescendant
<1> HIDE DEF C, chosen, Solves
<1>2. \A pi \in 0 .. P, ti \in 0 .. T : found[<<pi, ti>>] <=> C(pi, ti)
  OBVIOUS
<1> HIDE DEF found
<1>3. ASSUME NEW pi \in 0 .. P, NEW ti \in 0 .. T
      PROVE  C(pi, ti) <=> Body(found, pi, ti)
  <2>1. ASSUME pi < P, NEW at \in 0 .. T, at = T \/ pattern[pi + 1] = AnyElements
        PROVE  C(pi, at)
    <3>1. Reaches(pattern, target, pi, at, pi, at)
      BY ReachesNothing
    <3>2. pi \in pi .. P - 1
      BY <2>1
    <3>3. QED
      BY <2>1, <3>1, <3>2 DEF C
  <2>2. CASE pi = P
    BY <2>2 DEF C
  <2>3. CASE pi < P /\ ti = T
    BY <2>1, <2>3
  <2>4. CASE pi < P /\ ti < T /\ pattern[pi + 1] = AnyElements
    <3>1. C(pi, ti) /\ C(pi, ti + 1) /\ ti + 1 \in 0 .. T
      BY <2>1, <2>4
    <3>2. found[<<pi, ti + 1>>]
      BY <1>2, <3>1
    <3>3. QED
      BY <2>4, <3>1, <3>2
  <2>5. CASE pi < P /\ ti < T /\ pattern[pi + 1] # AnyElements
    <3>1. pi + 1 \in 0 .. P /\ ti + 1 \in 0 .. T
      BY <2>5
    <3>2. \A k \in 0 .. T : Stands(pattern, target, pi + 1, ti, k) <=>
                              k = ti + 1 /\ MatchesOne(pattern[pi + 1], target[ti + 1])
      BY <2>5 DEF Stands
    <3>3. ASSUME NEW pj \in pi + 1 .. P - 1, NEW tj
          PROVE  Reaches(pattern, target, pi, ti, pj, tj) <=>
                   /\ MatchesOne(pattern[pi + 1], target[ti + 1])
                   /\ Reaches(pattern, target, pi + 1, ti + 1, pj, tj)
      <4>1. Reaches(pattern, target, pi, ti, pj, tj) <=>
              \E k \in 0 .. T :
                Stands(pattern, target, pi + 1, ti, k) /\ Reaches(pattern, target, pi + 1, k, pj, tj)
        BY ReachesFirst
      <4>2. QED
        BY <3>1, <3>2, <4>1
    <3>4. \A tj : Reaches(pattern, target, pi, ti, pi, tj) <=> tj = ti
      BY ReachesNothing
    <3>5. C(pi, ti) <=> \E pj \in pi + 1 .. P - 1, tj \in 0 .. T :
                          /\ Reaches(pattern, target, pi, ti, pj, tj)
                          /\ tj = T \/ pattern[pj + 1] = AnyElements
      <4>1. \A pj \in pi .. P - 1 : pj = pi \/ pj \in pi + 1 .. P - 1
        OBVIOUS
      <4>2. \A pj \in pi + 1 .. P - 1 : pj \in pi .. P - 1
        OBVIOUS
      <4>3. \A tj : ~ (/\ Reaches(pattern, target, pi, ti, pi, tj)
                       /\ tj = T \/ pattern[pi + 1] = AnyElements)
        BY <2>5, <3>4
      <4>4. QED
        BY <4>1, <4>2, <4>3 DEF C
    <3>6. C(pi, ti) <=> MatchesOne(pattern[pi + 1], target[ti + 1]) /\ C(pi + 1, ti + 1)
      BY <3>3, <3>5 DEF C
    <3>7. found[<<pi + 1, ti + 1>>] <=> C(pi + 1, ti + 1)
      BY <1>2, <3>1
    <3>8. QED
      BY <2>5, <3>6, <3>7
  <2>6. QED
    BY <2>2, <2>3, <2>4, <2>5
<1>4. Solves(chosen)
  <2>1. \A at \in S : C(at[1], at[2]) = Body(found, at[1], at[2])
    BY <1>3 DEF C
  <2>2. Solves(found)
    BY <2>1 DEF Solves, found
  <2>3. QED
    BY <2>2 DEF chosen
<1>5. \A pi \in 0 .. P, ti \in 0 .. T : chosen[<<pi, ti>>] <=> Body(chosen, pi, ti)
  <2>1. chosen = [at \in S |-> Body(chosen, at[1], at[2])]
    BY <1>4 DEF Solves
  <2> HIDE DEF Body
  <2> SUFFICES ASSUME NEW pi \in 0 .. P, NEW ti \in 0 .. T
               PROVE  chosen[<<pi, ti>>] <=> Body(chosen, pi, ti)
    OBVIOUS
  <2>2. <<pi, ti>> \in S /\ <<pi, ti>>[1] = pi /\ <<pi, ti>>[2] = ti
    OBVIOUS
  <2>3. chosen[<<pi, ti>>] = Body(chosen, <<pi, ti>>[1], <<pi, ti>>[2])
    BY <2>1, <2>2, Zenon
  <2>4. QED
    BY <2>2, <2>3, Zenon
<1> DEFINE Same(pi, ti) == chosen[<<pi, ti>>] <=> found[<<pi, ti>>]
<1>6. ASSUME NEW pi \in 0 .. P, NEW ti \in 0 .. T,
             \A pk \in 0 .. P, tk \in 0 .. T : pk + tk > pi + ti => Same(pk, tk)
      PROVE  Same(pi, ti)
  <2>1. Body(chosen, pi, ti) <=> Body(found, pi, ti)
    <3>1. CASE pi < P /\ ti < T
      <4>1. Same(pi + 1, ti) /\ Same(pi, ti + 1) /\ Same(pi + 1, ti + 1)
        <5>1. /\ pi + 1 \in 0 .. P /\ ti + 1 \in 0 .. T
              /\ pi + 1 + ti > pi + ti /\ pi + (ti + 1) > pi + ti /\ pi + 1 + (ti + 1) > pi + ti
          BY <3>1
        <5> HIDE DEF Same
        <5>2. QED
          BY <1>6, <5>1
      <4>2. QED
        BY <4>1
    <3>2. CASE ~ (pi < P /\ ti < T)
      BY <3>2
    <3>3. QED
      BY <3>1, <3>2
  <2>2. Body(found, pi, ti) <=> found[<<pi, ti>>]
    BY <1>2, <1>3
  <2>3. chosen[<<pi, ti>>] <=> Body(chosen, pi, ti)
    BY <1>5
  <2> HIDE DEF Body
  <2>4. QED
    BY <2>1, <2>2, <2>3, Zenon
<1> HIDE DEF Same
<1>7. Same(0, 0)
  <2> DEFINE Wrong == { n \in 0 .. P + T :
                          \E pi \in 0 .. P, ti \in 0 .. T : n = P + T - (pi + ti) /\ ~Same(pi, ti) }
  <2>1. Wrong = {}
    <3> SUFFICES ASSUME Wrong # {} PROVE FALSE
      OBVIOUS
    <3>1. Wrong \subseteq Nat
      OBVIOUS
    <3> HIDE DEF Wrong
    <3>2. PICK n \in Wrong : \A m \in Wrong : n <= m
      BY <3>1, Least
    <3>3. PICK pi \in 0 .. P, ti \in 0 .. T : n = P + T - (pi + ti) /\ ~Same(pi, ti)
      BY DEF Wrong
    <3>4. ASSUME NEW pk \in 0 .. P, NEW tk \in 0 .. T, pk + tk > pi + ti
          PROVE  Same(pk, tk)
      <4>1. P + T - (pk + tk) \in 0 .. P + T /\ P + T - (pk + tk) < n
        BY <3>3, <3>4
      <4>2. P + T - (pk + tk) \notin Wrong
        BY <3>1, <3>2, <4>1
      <4>3. QED
        BY <4>1, <4>2 DEF Wrong
    <3>5. QED
      BY <1>6, <3>3, <3>4
  <2>2. P + T \in 0 .. P + T /\ 0 \in 0 .. P /\ 0 \in 0 .. T /\ P + T = P + T - (0 + 0)
    OBVIOUS
  <2>3. QED
    BY <2>1, <2>2
<1>8. 0 \in 0 .. P /\ 0 \in 0 .. T
  OBVIOUS
<1>9. CouldMatchDescendant(pattern, target) <=> C(0, 0)
  BY <1>1, <1>2, <1>7, <1>8, Zenon DEF Same
<1>10. QED
  BY <1>9 DEF C

(* What the documentation says is one cut of the whole.                    *)
LEMMA DenotesMeans ==
  ASSUME NEW E, NEW pattern \in Seq(E), NEW target \in Seq(E)
  PROVE  Denotes(pattern, target) <=> Reaches(pattern, target, 0, 0, Len(pattern), Len(target))
<1> DEFINE P == Len(pattern)
           T == Len(target)
<1>1. P \in Nat /\ T \in Nat /\ DOMAIN pattern = 1 .. P /\ (pattern = <<>> <=> P = 0) /\ (target = <<>> <=> T = 0)
  OBVIOUS
<1>2. ASSUME Denotes(pattern, target)
      PROVE  Reaches(pattern, target, 0, 0, P, T)
  <2> DEFINE at(cuts, i) == IF i = 0 THEN 0 ELSE IF i = P THEN T ELSE cuts[i]
  <2>1. PICK cuts \in [1 .. P - 1 -> 0 .. T] :
          /\ pattern = <<>> => target = <<>>
          /\ \A i \in DOMAIN pattern :
               IF pattern[i] = AnyElements
               THEN at(cuts, i - 1) <= at(cuts, i)
               ELSE /\ at(cuts, i) = at(cuts, i - 1) + 1
                    /\ pattern[i] \in {OneElement, target[at(cuts, i)]}
    BY <1>2 DEF Denotes
  <2> DEFINE end == [i \in 0 .. P |-> at(cuts, i)]
  <2>2. end \in [0 .. P -> 0 .. T] /\ end[0] = 0 /\ end[P] = T
    BY <1>1, <2>1
  <2> HIDE DEF at
  <2>3. \A i \in 1 .. P : end[i] = at(cuts, i) /\ end[i - 1] = at(cuts, i - 1)
    BY <1>1
  <2> HIDE DEF end
  <2>4. \A i \in 1 .. P : Stands(pattern, target, i, end[i - 1], end[i])
    BY <1>1, <2>1, <2>3 DEF Stands, MatchesOne
  <2>5. IsCut(pattern, target, 0, P, end)
    BY <1>1, <2>4 DEF IsCut
  <2>6. QED
    BY <2>2, <2>5 DEF Reaches
<1>3. ASSUME Reaches(pattern, target, 0, 0, P, T)
      PROVE  Denotes(pattern, target)
  <2>1. PICK end \in [0 .. P -> 0 .. T] :
          end[0] = 0 /\ end[P] = T /\ IsCut(pattern, target, 0, P, end)
    BY <1>3 DEF Reaches
  <2> DEFINE cuts == [i \in 1 .. P - 1 |-> end[i]]
             at(i) == IF i = 0 THEN 0 ELSE IF i = P THEN T ELSE cuts[i]
  <2>2. cuts \in [1 .. P - 1 -> 0 .. T]
    BY <1>1, <2>1
  <2>3. \A i \in 0 .. P : at(i) = end[i]
    <3>1. \A i \in 1 .. P - 1 : cuts[i] = end[i]
      OBVIOUS
    <3>2. \A i \in 0 .. P : i = 0 \/ i = P \/ i \in 1 .. P - 1
      <4>1. P \in Nat
        BY <1>1
      <4> HIDE DEF P
      <4>2. QED
        BY <4>1
    <3> HIDE DEF cuts
    <3>3. QED
      BY <2>1, <3>1, <3>2
  <2>4. ASSUME NEW i \in DOMAIN pattern
        PROVE  IF pattern[i] = AnyElements
               THEN at(i - 1) <= at(i)
               ELSE at(i) = at(i - 1) + 1 /\ pattern[i] \in {OneElement, target[at(i)]}
    <3>1. i \in 0 + 1 .. P /\ i \in 0 .. P /\ i - 1 \in 0 .. P
      BY <1>1
    <3>2. Stands(pattern, target, i, end[i - 1], end[i])
      BY <2>1, <3>1 DEF IsCut
    <3>3. at(i) = end[i] /\ at(i - 1) = end[i - 1]
      BY <2>3, <3>1
    <3> HIDE DEF at
    <3>4. QED
      BY <3>2, <3>3 DEF Stands, MatchesOne
  <2>5. pattern = <<>> => target = <<>>
    BY <1>1, <2>1
  <2>6. QED
    BY <2>2, <2>4, <2>5 DEF Denotes
<1>4. QED
  BY <1>2, <1>3

(* A cut looks at the target up to where it ends.                          *)
LEMMA ReachesSame ==
  ASSUME NEW pattern, NEW target, NEW other, Len(target) \in Nat, Len(other) \in Nat,
         NEW pj \in Nat, NEW tj \in Nat, tj <= Len(other), \A i \in 1 .. tj : target[i] = other[i],
         Reaches(pattern, target, 0, 0, pj, tj)
  PROVE  Reaches(pattern, other, 0, 0, pj, tj)
<1>1. PICK end \in [0 .. pj -> 0 .. Len(target)] :
        end[0] = 0 /\ end[pj] = tj /\ IsCut(pattern, target, 0, pj, end)
  BY DEF Reaches
<1>2. \A i \in 0 .. pj : end[i] <= tj
  BY <1>1, CutRises
<1>3. end \in [0 .. pj -> 0 .. Len(other)]
  BY <1>2
<1>4. ASSUME NEW i \in 0 + 1 .. pj
      PROVE  Stands(pattern, other, i, end[i - 1], end[i])
  <2>1. Stands(pattern, target, i, end[i - 1], end[i])
    BY <1>1 DEF IsCut
  <2>2. end[i - 1] \in Nat /\ end[i] \in Nat /\ end[i] <= tj
    BY <1>2
  <2>3. QED
    BY <2>1, <2>2 DEF Stands
<1>5. IsCut(pattern, other, 0, pj, end)
  BY <1>4 DEF IsCut
<1>6. QED
  BY <1>1, <1>3, <1>5 DEF Reaches

(* match: the paths that the documentation says.                           *)
LEMMA MatchDenotes ==
  ASSUME NEW E, NEW pattern \in Seq(E), NEW target \in Seq(E)
  PROVE  Match(pattern, target) <=> Denotes(pattern, target)
<1>1. Len(pattern) \in Nat /\ Len(target) \in Nat /\ Len(target) \in 0 .. Len(target)
  OBVIOUS
<1>2. Match(pattern, target) <=>
        \E tj \in 0 .. Len(target) :
          Reaches(pattern, target, 0, 0, Len(pattern), tj) /\ (FALSE \/ tj = Len(target))
  BY <1>1, MatchMeans DEF Match
<1>3. QED
  BY <1>1, <1>2, DenotesMeans

(* match_or_is_descendant: those paths and what is below them.             *)
LEMMA DescendantDenotes ==
  ASSUME NEW E, NEW pattern \in Seq(E), NEW target \in Seq(E)
  PROVE  MatchOrIsDescendant(pattern, target) <=> DenotesPrefix(pattern, target)
<1> DEFINE T == Len(target)
<1>1. Len(pattern) \in Nat /\ T \in Nat
  OBVIOUS
<1>2. MatchOrIsDescendant(pattern, target) <=>
        \E tj \in 0 .. T : Reaches(pattern, target, 0, 0, Len(pattern), tj)
  BY <1>1, MatchMeans DEF MatchOrIsDescendant
<1>3. ASSUME NEW n \in 0 .. T
      PROVE  Denotes(pattern, SubSeq(target, 1, n)) <=> Reaches(pattern, target, 0, 0, Len(pattern), n)
  <2> DEFINE prefix == SubSeq(target, 1, n)
  <2>1. prefix \in Seq(E) /\ Len(prefix) = n /\ \A i \in 1 .. n : prefix[i] = target[i]
    OBVIOUS
  <2> HIDE DEF prefix
  <2>2. Denotes(pattern, prefix) <=> Reaches(pattern, prefix, 0, 0, Len(pattern), n)
    BY <2>1, DenotesMeans
  <2>3. Reaches(pattern, prefix, 0, 0, Len(pattern), n) => Reaches(pattern, target, 0, 0, Len(pattern), n)
    BY <1>1, <2>1, ReachesSame
  <2>4. Reaches(pattern, target, 0, 0, Len(pattern), n) => Reaches(pattern, prefix, 0, 0, Len(pattern), n)
    BY <1>1, <2>1, ReachesSame
  <2>5. QED
    BY <2>2, <2>3, <2>4 DEF prefix
<1>4. QED
  BY <1>2, <1>3 DEF DenotesPrefix

(* What is above a path that a pattern names could be so.                  *)
LEMMA AboveNamed ==
  ASSUME NEW E, NEW pattern \in Seq(E), NEW target \in Seq(E), NEW longer \in Seq(E),
         Len(target) < Len(longer), \A i \in 1 .. Len(target) : longer[i] = target[i],
         Denotes(pattern, longer)
  PROVE  CouldMatchDescendant(pattern, target)
<1> DEFINE P == Len(pattern)
           T == Len(target)
           total == Len(longer)
<1>1. P \in Nat /\ T \in Nat /\ total \in Nat /\ total > T
  OBVIOUS
<1>2. Reaches(pattern, longer, 0, 0, P, total)
  BY DenotesMeans
<1>3. PICK end \in [0 .. P -> 0 .. total] :
        end[0] = 0 /\ end[P] = total /\ IsCut(pattern, longer, 0, P, end)
  BY <1>2 DEF Reaches
<1> DEFINE beyond == { i \in 0 .. P : end[i] > T }
<1>4. beyond \subseteq Nat /\ P \in beyond
  BY <1>1, <1>3
<1> HIDE DEF beyond
<1>5. PICK i \in beyond : \A j \in beyond : i <= j
  BY <1>4, Least
<1>6. i \in 1 .. P /\ end[i] > T
  BY <1>1, <1>3, <1>5 DEF beyond
<1> DEFINE pj == i - 1
<1>7. pj \in 0 .. P - 1 /\ pj \in 0 .. P /\ pj \notin beyond
  BY <1>1, <1>5, <1>6
<1>8. end[pj] \in 0 .. T
  <2>1. end[pj] \in 0 .. total /\ ~(end[pj] > T)
    BY <1>3, <1>7 DEF beyond
  <2>2. QED
    BY ONLY <1>1, <2>1
<1>9. Reaches(pattern, longer, 0, 0, pj, end[pj])
  <2> DEFINE first == [k \in 0 .. pj |-> end[k]]
  <2>1. first \in [0 .. pj -> 0 .. total] /\ first[0] = 0 /\ first[pj] = end[pj]
    BY <1>3, <1>7
  <2>2. ASSUME NEW k \in 0 + 1 .. pj
        PROVE  Stands(pattern, longer, k, first[k - 1], first[k])
    <3>1. k \in 0 + 1 .. P /\ first[k - 1] = end[k - 1] /\ first[k] = end[k]
      BY <1>7
    <3> HIDE DEF first
    <3>2. QED
      BY <1>3, <3>1 DEF IsCut
  <2>3. IsCut(pattern, longer, 0, pj, first)
    BY <2>2 DEF IsCut
  <2> HIDE DEF first
  <2>4. QED
    BY <1>2, <2>1, <2>3 DEF Reaches
<1>10. Reaches(pattern, target, 0, 0, pj, end[pj])
  <2>1. \A k \in 1 .. end[pj] : longer[k] = target[k]
    <3>1. \A k \in 1 .. end[pj] : k \in 1 .. T
      BY <1>1, <1>8
    <3>2. \A k \in 1 .. T : longer[k] = target[k]
      BY <1>1
    <3> HIDE DEF pj
    <3>3. QED
      BY <3>1, <3>2
  <2>2. pj \in Nat /\ end[pj] \in Nat /\ end[pj] <= T /\ Len(longer) \in Nat
    BY <1>1, <1>2, <1>7, <1>8
  <2> HIDE DEF pj
  <2>3. QED
    BY <1>1, <1>9, <2>1, <2>2, ReachesSame
<1>11. end[pj] = T \/ pattern[pj + 1] = AnyElements
  <2>1. Stands(pattern, longer, i, end[i - 1], end[i])
    BY <1>3, <1>6 DEF IsCut
  <2>2. end[pj] # T => end[i] # end[i - 1] + 1
    BY <1>1, <1>6, <1>8
  <2>3. pj + 1 = i
    BY <1>6
  <2>4. QED
    BY <2>1, <2>2, <2>3 DEF Stands
<1> HIDE DEF pj
<1>12. QED
  BY <1>1, <1>7, <1>8, <1>10, <1>11, CouldMatchMeans

(* match_or_is_ancestor: the paths from which the rest of the pattern, read*)
(* as a path, leads to one that it names.                                  *)
LEMMA AncestorDenotes ==
  ASSUME NEW E, NEW pattern \in Seq(E), NEW target \in Seq(E)
  PROVE  MatchOrIsAncestor(pattern, target) <=>
           \E n \in 1 .. Len(pattern) + 1 : Denotes(pattern, target \o SubSeq(pattern, n, Len(pattern)))
<1> DEFINE P == Len(pattern)
           T == Len(target)
           rest(n) == SubSeq(pattern, n, P)
           longer(n) == target \o rest(n)
<1>1. P \in Nat /\ T \in Nat
  OBVIOUS
<1>2. ASSUME NEW n \in 1 .. P + 1
      PROVE  /\ longer(n) \in Seq(E) /\ Len(longer(n)) = T + P + 1 - n
             /\ \A i \in 1 .. T : longer(n)[i] = target[i]
             /\ \A i \in n .. P : longer(n)[T + i + 1 - n] = pattern[i]
  <2>1. rest(n) \in Seq(E) /\ Len(rest(n)) = P + 1 - n
    OBVIOUS
  <2>2. \A k \in 1 .. P + 1 - n : rest(n)[k] = pattern[n + k - 1]
    OBVIOUS
  <2> HIDE DEF rest
  <2>3. longer(n) \in Seq(E) /\ Len(longer(n)) = T + P + 1 - n
    BY <2>1
  <2>4. \A i \in 1 .. T : longer(n)[i] = target[i]
    BY <2>1
  <2>5. \A k \in 1 .. P + 1 - n : longer(n)[T + k] = rest(n)[k]
    BY <2>1
  <2>6. ASSUME NEW i \in n .. P
        PROVE  longer(n)[T + i + 1 - n] = pattern[i]
    <3>1. i + 1 - n \in 1 .. P + 1 - n /\ T + (i + 1 - n) = T + i + 1 - n /\ n + (i + 1 - n) - 1 = i
      BY <1>1
    <3> HIDE DEF longer
    <3>2. QED
      BY <2>2, <2>5, <3>1
  <2>7. QED
    BY <2>3, <2>4, <2>6
<1>3. \A n \in 1 .. P + 1 :
        Denotes(pattern, longer(n)) <=> Reaches(pattern, longer(n), 0, 0, P, T + P + 1 - n)
  <2> SUFFICES ASSUME NEW n \in 1 .. P + 1
               PROVE  Denotes(pattern, longer(n)) <=> Reaches(pattern, longer(n), 0, 0, P, T + P + 1 - n)
    OBVIOUS
  <2>1. longer(n) \in Seq(E) /\ Len(longer(n)) = T + P + 1 - n
    BY <1>2
  <2> HIDE DEF longer
  <2>2. QED
    BY <2>1, DenotesMeans
<1>4. longer(P + 1) = target
  OBVIOUS
<1> HIDE DEF longer
<1>5. Match(pattern, target) <=> Denotes(pattern, target)
  BY MatchDenotes
<1>6. ASSUME CouldMatchDescendant(pattern, target)
      PROVE  \E n \in 1 .. P + 1 : Denotes(pattern, longer(n))
  <2>1. PICK pj \in 0 .. P - 1, tj \in 0 .. T :
          /\ Reaches(pattern, target, 0, 0, pj, tj)
          /\ tj = T \/ pattern[pj + 1] = AnyElements
    BY <1>1, <1>6, CouldMatchMeans
  <2>2. PICK end \in [0 .. pj -> 0 .. T] :
          end[0] = 0 /\ end[pj] = tj /\ IsCut(pattern, target, 0, pj, end)
    BY <2>1 DEF Reaches
  <2> DEFINE n == pj + 1
             total == T + P - pj
             all == [i \in 0 .. P |-> IF i <= pj THEN end[i] ELSE T + i - pj]
  <2>3. n \in 1 .. P + 1 /\ T + P + 1 - n = total /\ total \in Nat
    BY <1>1
  <2>4. all \in [0 .. P -> 0 .. total] /\ all[0] = 0 /\ all[P] = total
    BY <1>1, <2>2
  <2>5. ASSUME NEW i \in 0 + 1 .. P
        PROVE  Stands(pattern, longer(n), i, all[i - 1], all[i])
    <3>1. CASE i <= pj
      <4>1. Stands(pattern, target, i, end[i - 1], end[i])
        BY <2>2, <3>1 DEF IsCut
      <4>2. all[i - 1] = end[i - 1] /\ all[i] = end[i] /\ end[i - 1] \in 0 .. T /\ end[i] \in 0 .. T
        BY <1>1, <2>2, <3>1
      <4>3. \A k \in 1 .. T : longer(n)[k] = target[k]
        BY <1>2, <2>3
      <4> HIDE DEF all, n
      <4>4. QED
        BY <1>1, <4>1, <4>2, <4>3 DEF Stands
    <3>2. CASE i > pj
      <4>1. all[i] = T + i - pj /\ longer(n)[T + i - pj] = pattern[i]
        <5>1. i \in n .. P /\ T + i + 1 - n = T + i - pj
          BY <1>1, <3>2
        <5>2. longer(n)[T + i + 1 - n] = pattern[i]
          BY <1>2, <2>3, <5>1
        <5>3. all[i] = T + i - pj
          BY <1>1, <3>2
        <5> HIDE DEF all, n
        <5>4. QED
          BY <5>1, <5>2, <5>3
      <4>2. CASE i = pj + 1
        <5>1. all[i - 1] = tj
          BY <1>1, <2>2, <4>2
        <5> HIDE DEF all, n
        <5>2. QED
          BY <1>1, <2>1, <4>1, <4>2, <5>1 DEF Stands, MatchesOne
      <4>3. CASE i > pj + 1
        <5>1. all[i - 1] = T + i - pj - 1
          BY <1>1, <4>3
        <5> HIDE DEF all, n
        <5>2. QED
          BY <1>1, <4>1, <5>1 DEF Stands, MatchesOne
      <4>4. QED
        BY <3>2, <4>2, <4>3
    <3>3. QED
      BY <3>1, <3>2
  <2>6. IsCut(pattern, longer(n), 0, P, all)
    BY <2>5 DEF IsCut
  <2> HIDE DEF all
  <2>7. Len(longer(n)) = total
    BY <1>2, <2>3
  <2>8. Reaches(pattern, longer(n), 0, 0, P, total)
    BY <2>4, <2>6, <2>7 DEF Reaches
  <2>9. QED
    BY <1>3, <2>3, <2>8
<1>7. ASSUME NEW n \in 1 .. P, Denotes(pattern, longer(n))
      PROVE  CouldMatchDescendant(pattern, target)
  <2>1. longer(n) \in Seq(E) /\ T < Len(longer(n)) /\ \A i \in 1 .. T : longer(n)[i] = target[i]
    BY <1>1, <1>2
  <2>2. QED
    BY <1>7, <2>1, AboveNamed
<1>8. \A n \in 1 .. P + 1 : n = P + 1 \/ n \in 1 .. P
  BY <1>1
<1>9. P + 1 \in 1 .. P + 1
  BY <1>1
<1>10. MatchOrIsAncestor(pattern, target) <=> \E n \in 1 .. P + 1 : Denotes(pattern, longer(n))
  BY <1>4, <1>5, <1>6, <1>7, <1>8, <1>9 DEF MatchOrIsAncestor
<1>11. QED
  BY <1>10 DEF longer

-----------------------------------------------------------------------------
(* Types.                                                                  *)

Steps == UNION { DOMAIN Heap[o].items : o \in Ids }
Levels == [path : Seq(Steps), o1 : Ids, o2 : Ids, parents : SUBSET Ids]
Tasks == [kind : {"added", "removed", "common"}, step : Steps]
Frames == [level : Levels, work : Seq(SUBSET Tasks)]

WalkTypes ==
  /\ case \in Cases
  /\ pending \subseteq Levels
  /\ stack \in Seq(Frames)

(* A task is about an item of the kind it says.                            *)
ItemsOf(kind, level) ==
  CASE kind = "added" -> Visible(level.o2) \ Visible(level.o1)
    [] kind = "removed" -> Visible(level.o1) \ Visible(level.o2)
    [] OTHER -> Visible(level.o1) \cap Visible(level.o2)

TaskIsOf(task, level) == task.step \in ItemsOf(task.kind, level)

TasksAreThere ==
  \A i \in DOMAIN stack : \A j \in DOMAIN stack[i].work :
    \A task \in stack[i].work[j] : TaskIsOf(task, stack[i].level)

(* The objects on the way to a level are as many as its elements.          *)
Distinct(level) == Cardinality(level.parents) = Len(level.path) + 1

(* A level is as deep as the stack below it.                               *)
Depths ==
  /\ \A l \in pending : Distinct(l) /\ Len(l.path) = Len(stack)
  /\ \A i \in DOMAIN stack : Distinct(stack[i].level) /\ Len(stack[i].level.path) = i - 1

WalkInv == WalkTypes /\ TasksAreThere /\ Depths

(* The pair of items at a common step is a level.                          *)
LEMMA ChildIsLevel ==
  ASSUME NEW level \in Levels,
         NEW s \in DOMAIN Heap[level.o1].items \cap DOMAIN Heap[level.o2].items
  PROVE  Child(level, s) \in Levels
<1>1. s \in Steps
  BY DEF Levels, Steps
<1>2. Heap[level.o1].items[s] \in Ids /\ Heap[level.o2].items[s] \in Ids
  BY HeapAssumption DEF Levels
<1>3. Append(level.path, s) \in Seq(Steps)
  BY <1>1 DEF Levels
<1>4. level.parents \cup {Heap[level.o1].items[s]} \in SUBSET Ids
  BY <1>2 DEF Levels
<1>5. QED
  BY <1>2, <1>3, <1>4 DEF Child, Level, Levels

(* The keys of two dictionaries, or objects, are filtered alike.           *)
LEMMA KeysAreVisible ==
  ASSUME NEW level \in Levels, Type(level.o1) = Type(level.o2), Type(level.o1) # "list"
  PROVE  LET keys1 == Keys(level, level.o1)
             keys2 == Keys(level, level.o2)
         IN  /\ keys1 \ keys2 \subseteq Visible(level.o1) \ Visible(level.o2)
             /\ keys2 \ keys1 \subseteq Visible(level.o2) \ Visible(level.o1)
             /\ keys1 \cap keys2 \subseteq Visible(level.o1) \cap Visible(level.o2)
             /\ keys1 \subseteq DOMAIN Heap[level.o1].items /\ keys2 \subseteq DOMAIN Heap[level.o2].items
BY DEF Keys, Visible

(* The work of a function is typed, and on items of the kinds it says.     *)
LEMMA DictWorkIsOf ==
  ASSUME NEW level \in Levels, Type(level.o1) = Type(level.o2), Type(level.o1) # "list"
  PROVE  /\ DictWork(level) \in Seq(SUBSET Tasks)
         /\ \A j \in DOMAIN DictWork(level) : \A task \in DictWork(level)[j] : TaskIsOf(task, level)
<1> DEFINE keys1 == Keys(level, level.o1)
           keys2 == Keys(level, level.o2)
           added == { Task("added", s) : s \in keys2 \ keys1 }
           removed == { Task("removed", s) : s \in keys1 \ keys2 }
           common == { Task("common", s) : s \in keys1 \cap keys2 }
<1>1. /\ keys1 \ keys2 \subseteq Visible(level.o1) \ Visible(level.o2)
      /\ keys2 \ keys1 \subseteq Visible(level.o2) \ Visible(level.o1)
      /\ keys1 \cap keys2 \subseteq Visible(level.o1) \cap Visible(level.o2)
      /\ keys1 \subseteq DOMAIN Heap[level.o1].items /\ keys2 \subseteq DOMAIN Heap[level.o2].items
  BY KeysAreVisible
<1>2. keys1 \subseteq Steps /\ keys2 \subseteq Steps
  BY <1>1 DEF Steps, Levels
<1>3. DictWork(level) = <<added, removed, common>>
  BY DEF DictWork
<1> HIDE DEF keys1, keys2
<1>4. added \in SUBSET Tasks /\ removed \in SUBSET Tasks /\ common \in SUBSET Tasks
  BY <1>2 DEF Task, Tasks
<1>5. \A task \in added \cup removed \cup common : TaskIsOf(task, level)
  BY <1>1 DEF Task, TaskIsOf, ItemsOf
<1> HIDE DEF added, removed, common
<1>6. <<added, removed, common>> \in Seq(SUBSET Tasks)
  BY <1>4
<1>7. QED
  BY <1>3, <1>5, <1>6

(* No two positions of a list have the same index.                         *)
LEMMA IndicesDiffer ==
  ASSUME NEW o \in Ids, Heap[o].type = "list",
         NEW i \in 1 .. Cardinality(DOMAIN Heap[o].items),
         NEW j \in 1 .. Cardinality(DOMAIN Heap[o].items),
         Index(i) = Index(j)
  PROVE  i = j
<1> DEFINE positions == DOMAIN Heap[o].items
           n == Cardinality(positions)
           f == [k \in 1 .. n |-> Index(k)]
<1>1. positions = { Index(k) : k \in 1 .. n } /\ n \in Nat
  BY HeapAssumption, FS_CardinalityType
<1> HIDE DEF positions
<1>2. f \in Surjection(1 .. n, positions)
  BY <1>1 DEF Surjection
<1>3. IsFiniteSet(1 .. n) /\ Cardinality(1 .. n) = Cardinality(positions)
  BY <1>1, FS_Interval
<1> HIDE DEF f
<1>4. f \in Injection(1 .. n, positions)
  BY <1>2, <1>3, FS_SurjSameCardinalityImpliesInj
<1>5. i \in 1 .. n /\ j \in 1 .. n /\ f[i] = f[j]
  BY DEF f, positions
<1>6. QED
  BY <1>4, <1>5 DEF Injection, IsInjective

(* The work on two lists is about their items, in whatever order.          *)
LEMMA ListWorkIsOf ==
  ASSUME NEW level \in Levels, Type(level.o1) = "list", Type(level.o2) = "list"
  PROVE  /\ ListWork(level) \in Seq(SUBSET Tasks)
         /\ \A j \in DOMAIN ListWork(level) : \A task \in ListWork(level)[j] : TaskIsOf(task, level)
<1> DEFINE len1 == Cardinality(DOMAIN Heap[level.o1].items)
           len2 == Cardinality(DOMAIN Heap[level.o2].items)
           longest == IF len1 > len2 THEN len1 ELSE len2
           kind(i) == CASE i > len1 -> "added" [] i > len2 -> "removed" [] OTHER -> "common"
           work(i) == Task(kind(i), Index(i))
<1>1. /\ level.o1 \in Ids /\ level.o2 \in Ids
      /\ Heap[level.o1].type = "list" /\ Heap[level.o2].type = "list"
  BY HeapAssumption DEF Levels, Type
<1>2. len1 \in Nat /\ len2 \in Nat
  BY <1>1, HeapAssumption, FS_CardinalityType
<1>3. ListWork(level) = [i \in 1 .. longest |-> {work(i)}]
  BY DEF ListWork
<1>4. /\ DOMAIN Heap[level.o1].items = { Index(k) : k \in 1 .. len1 }
      /\ DOMAIN Heap[level.o2].items = { Index(k) : k \in 1 .. len2 }
  BY <1>1, HeapAssumption
<1>5. /\ Visible(level.o1) = { Index(k) : k \in 1 .. len1 }
      /\ Visible(level.o2) = { Index(k) : k \in 1 .. len2 }
  BY <1>4 DEF Visible
<1>6. /\ \A i, j \in 1 .. len1 : Index(i) = Index(j) => i = j
      /\ \A i, j \in 1 .. len2 : Index(i) = Index(j) => i = j
  BY <1>1, IndicesDiffer
<1>7. ASSUME NEW i \in 1 .. longest
      PROVE  work(i) \in Tasks /\ TaskIsOf(work(i), level)
  <2>1. work(i).kind = kind(i) /\ work(i).step = Index(i)
    BY DEF Task
  <2>2. kind(i) \in {"added", "removed", "common"}
    OBVIOUS
  <2> HIDE DEF len1, len2
  <2>3. i \in 1 .. len1 \/ i \in 1 .. len2
    BY <1>2
  <2>4. Index(i) \in Steps
    BY <1>1, <1>4, <2>3 DEF Steps
  <2>5. Index(i) \in ItemsOf(kind(i), level)
    <3>1. CASE i > len1
      <4>1. kind(i) = "added" /\ i \in 1 .. len2 /\ \A j \in 1 .. len1 : j \in 1 .. len2 /\ j # i
        BY <1>2, <2>3, <3>1
      <4> HIDE DEF kind
      <4>2. QED
        BY <1>5, <1>6, <4>1 DEF ItemsOf
    <3>2. CASE i <= len1 /\ i > len2
      <4>1. kind(i) = "removed" /\ i \in 1 .. len1 /\ \A j \in 1 .. len2 : j \in 1 .. len1 /\ j # i
        BY <1>2, <2>3, <3>2
      <4> HIDE DEF kind
      <4>2. QED
        BY <1>5, <1>6, <4>1 DEF ItemsOf
    <3>3. CASE i <= len1 /\ i <= len2
      <4>1. kind(i) = "common" /\ i \in 1 .. len1 /\ i \in 1 .. len2
        BY <1>2, <2>3, <3>3
      <4> HIDE DEF kind
      <4>2. QED
        BY <1>5, <4>1 DEF ItemsOf
    <3>4. QED
      BY <1>2, <3>1, <3>2, <3>3
  <2>6. Task(kind(i), Index(i)) \in Tasks
    BY <2>2, <2>4 DEF Task, Tasks
  <2>7. QED
    BY <2>1, <2>5, <2>6 DEF TaskIsOf
<1>8. longest \in Nat
  BY <1>2
<1> HIDE DEF work, longest
<1>9. [i \in 1 .. longest |-> {work(i)}] \in Seq(SUBSET Tasks)
  BY <1>7, <1>8
<1>10. QED
  BY <1>3, <1>7, <1>8, <1>9

(* At the start: the two arguments, with t1 as the only object on the way. *)
LEMMA WalkInitHolds == Init => WalkInv
<1> SUFFICES ASSUME Init PROVE WalkInv
  OBVIOUS
<1> DEFINE root == Level(<<>>, case.t1, case.t2, {case.t1})
<1>1. case \in Cases /\ pending = {root} /\ stack = <<>>
  BY DEF Init
<1>2. case.t1 \in Ids /\ case.t2 \in Ids
  BY <1>1, CasesAssumption
<1>3. root \in Levels
  BY <1>2 DEF Level, Levels
<1>4. Distinct(root) /\ Len(root.path) = 0
  <2>1. root.parents = {case.t1} /\ root.path = <<>>
    BY DEF Level
  <2>2. Cardinality({case.t1}) = 1
    BY FS_Singleton
  <2> HIDE DEF root
  <2>3. Len(root.path) = 0
    BY <2>1
  <2>4. Cardinality(root.parents) = Len(root.path) + 1
    BY <2>1, <2>2, <2>3
  <2>5. QED
    BY <2>3, <2>4 DEF Distinct
<1>5. WalkTypes
  BY <1>1, <1>3 DEF WalkTypes
<1>6. TasksAreThere /\ Depths
  BY <1>1, <1>4 DEF TasksAreThere, Depths
<1>7. QED
  BY <1>5, <1>6 DEF WalkInv

(* The innermost container goes on with other work of its own.             *)
LEMMA TopGoesOn ==
  ASSUME WalkInv, stack # <<>>, NEW work \in Seq(SUBSET Tasks),
         \A j \in DOMAIN work : \A task \in work[j] : TaskIsOf(task, Top.level),
         stack' = [stack EXCEPT ![Len(stack)].work = work]
  PROVE  /\ stack' \in Seq(Frames) /\ Len(stack') = Len(stack)
         /\ \A i \in DOMAIN stack : stack'[i].level = stack[i].level
         /\ TasksAreThere'
<1>1. stack \in Seq(Frames) /\ Len(stack) \in DOMAIN stack
  BY DEF WalkInv, WalkTypes
<1>2. \A i \in DOMAIN stack : stack[i] \in Frames
  BY <1>1
<1>3. [stack[Len(stack)] EXCEPT !.work = work] \in Frames
  BY <1>1, <1>2 DEF Frames
<1>4. \A i \in DOMAIN stack :
        stack'[i] = IF i = Len(stack) THEN [stack[i] EXCEPT !.work = work] ELSE stack[i]
  BY <1>1
<1>5. stack' \in Seq(Frames) /\ Len(stack') = Len(stack) /\ DOMAIN stack' = DOMAIN stack
  BY <1>1, <1>2, <1>3
<1>6. \A i \in DOMAIN stack : stack'[i].level = stack[i].level
  BY <1>2, <1>4 DEF Frames
<1>7. stack'[Len(stack)].work = work
  BY <1>1, <1>2, <1>4 DEF Frames
<1>8. TasksAreThere'
  <2> SUFFICES ASSUME NEW i \in DOMAIN stack, NEW j \in DOMAIN stack'[i].work,
                      NEW task \in stack'[i].work[j]
               PROVE  TaskIsOf(task, stack[i].level)
    BY <1>5, <1>6 DEF TasksAreThere
  <2>1. CASE i = Len(stack)
    BY <1>7, <2>1 DEF Top
  <2>2. CASE i # Len(stack)
    BY <1>4, <2>2 DEF WalkInv, TasksAreThere
  <2>3. QED
    BY <2>1, <2>2
<1>9. QED
  BY <1>5, <1>6, <1>8

(* What is left of the work when a task is done.                           *)
LEMMA LeftIsWork ==
  ASSUME WalkInv, NextTask, NEW task \in Top.work[1]
  PROVE  /\ Top.level \in Levels /\ TaskIsOf(task, Top.level) /\ task \in Tasks
         /\ Left(Top.work, task) \in Seq(SUBSET Tasks)
         /\ \A j \in DOMAIN Left(Top.work, task) :
              \A other \in Left(Top.work, task)[j] : TaskIsOf(other, Top.level)
<1>1. Len(stack) \in DOMAIN stack /\ Top \in Frames
  BY DEF WalkInv, WalkTypes, NextTask, Working, Top
<1>2. Top.work \in Seq(SUBSET Tasks) /\ 1 \in DOMAIN Top.work /\ Top.level \in Levels
  BY <1>1 DEF Frames, NextTask
<1>3. \A j \in DOMAIN Top.work : \A other \in Top.work[j] : TaskIsOf(other, Top.level)
  BY <1>1 DEF WalkInv, TasksAreThere, Top
<1>4. Left(Top.work, task) \in Seq(SUBSET Tasks)
  BY <1>2 DEF Left
<1>5. DOMAIN Left(Top.work, task) = DOMAIN Top.work
  BY <1>2 DEF Left
<1>6. \A j \in DOMAIN Top.work : Left(Top.work, task)[j] \subseteq Top.work[j]
  BY <1>2 DEF Left
<1>7. QED
  BY <1>2, <1>3, <1>4, <1>5, <1>6

(* The task is done and the rest of the stack is as before.               *)
LEMMA TaskDone ==
  ASSUME WalkInv, NextTask, NEW task \in Top.work[1], stack' = WithoutTask(task)
  PROVE  /\ stack' \in Seq(Frames) /\ Len(stack') = Len(stack)
         /\ \A i \in DOMAIN stack : stack'[i].level = stack[i].level
         /\ TasksAreThere'
<1> DEFINE work == Left(Top.work, task)
<1>1. stack # <<>>
  BY DEF NextTask, Working
<1>2. work \in Seq(SUBSET Tasks) /\ \A j \in DOMAIN work : \A other \in work[j] : TaskIsOf(other, Top.level)
  BY LeftIsWork
<1>3. stack' = [stack EXCEPT ![Len(stack)].work = work]
  BY DEF WithoutTask, Top
<1> HIDE DEF work
<1>4. QED
  BY <1>1, <1>2, <1>3, TopGoesOn

(* No step leaves the walk without its invariant.                          *)
LEMMA WalkStopsKeepInv ==
  ASSUME WalkInv, pending' = {}, case' = case,
         stack' = stack \/ (stack # <<>> /\ stack' = Pop)
  PROVE  WalkInv'
<1>1. stack \in Seq(Frames)
  BY DEF WalkInv, WalkTypes
<1>2. /\ stack' \in Seq(Frames) /\ DOMAIN stack' \subseteq DOMAIN stack
      /\ \A i \in DOMAIN stack' : stack'[i] = stack[i]
  BY <1>1 DEF Pop
<1>3. WalkTypes'
  BY <1>2 DEF WalkInv, WalkTypes
<1>4. TasksAreThere' /\ Depths'
  BY <1>2 DEF WalkInv, TasksAreThere, Depths
<1>5. QED
  BY <1>3, <1>4 DEF WalkInv

(* Descending into a pair puts one frame on the stack.                     *)
LEMMA EnterKeepsInv ==
  ASSUME WalkInv, NEW level \in pending, NEW work \in Seq(SUBSET Tasks),
         \A j \in DOMAIN work : \A task \in work[j] : TaskIsOf(task, level),
         Enter(level, work)
  PROVE  WalkInv'
<1> DEFINE frame == [level |-> level, work |-> work]
<1>1. stack \in Seq(Frames) /\ level \in Levels
  BY DEF WalkInv, WalkTypes
<1>2. frame \in Frames
  BY <1>1 DEF Frames
<1>3. stack' = Append(stack, frame) /\ pending' = {} /\ case' = case
  BY DEF Enter
<1>4. /\ stack' \in Seq(Frames)
      /\ \A i \in DOMAIN stack' : stack'[i] = IF i = Len(stack) + 1 THEN frame ELSE stack[i]
      /\ \A i \in DOMAIN stack' : i = Len(stack) + 1 \/ i \in DOMAIN stack
  BY <1>1, <1>2, <1>3
<1>5. WalkTypes'
  BY <1>3, <1>4 DEF WalkInv, WalkTypes
<1>6. Distinct(level) /\ Len(level.path) = Len(stack) + 1 - 1
  BY <1>1 DEF WalkInv, Depths
<1>7. Depths'
  BY <1>3, <1>4, <1>6 DEF WalkInv, Depths
<1>8. TasksAreThere'
  BY <1>4 DEF WalkInv, TasksAreThere
<1>9. QED
  BY <1>5, <1>7, <1>8 DEF WalkInv

(* An item of one container only is done: the walk does not get deeper.    *)
LEMMA ReportKeepsInv ==
  ASSUME WalkInv, ReportItem
  PROVE  WalkInv'
<1>1. PICK task \in Top.work[1] : stack' = WithoutTask(task)
  BY DEF ReportItem
<1>2. NextTask /\ pending' = pending /\ case' = case /\ pending = {} /\ stack # <<>>
  BY DEF ReportItem, NextTask, Working
<1>3. pending' = {} /\ WalkTypes /\ Depths
  BY <1>2 DEF WalkInv
<1>4. /\ stack' \in Seq(Frames) /\ Len(stack') = Len(stack)
      /\ \A i \in DOMAIN stack : stack'[i].level = stack[i].level
      /\ TasksAreThere'
  BY <1>1, <1>2, TaskDone
<1>5. DOMAIN stack' = DOMAIN stack
  BY <1>3, <1>4 DEF WalkTypes
<1>6. WalkTypes'
  BY <1>2, <1>3, <1>4 DEF WalkTypes
<1>7. Depths'
  BY <1>3, <1>4, <1>5 DEF Depths
<1>8. QED
  BY <1>4, <1>6, <1>7 DEF WalkInv

(* An object of t1 that is not on the way to a level is one more below it. *)
LEMMA ChildIsDistinct ==
  ASSUME NEW level \in Levels, Distinct(level), NEW s,
         Heap[level.o1].items[s] \notin level.parents
  PROVE  Distinct(Child(level, s)) /\ Len(Child(level, s).path) = Len(level.path) + 1
<1> DEFINE o1 == Heap[level.o1].items[s]
<1>1. IsFiniteSet(level.parents)
  BY HeapAssumption, FS_Subset DEF Levels
<1>2. Cardinality(level.parents \cup {o1}) = Cardinality(level.parents) + 1
  BY <1>1, FS_AddElement
<1>3. /\ Child(level, s).parents = level.parents \cup {o1}
      /\ Child(level, s).path = Append(level.path, s)
  BY DEF Child, Level
<1>4. Len(Append(level.path, s)) = Len(level.path) + 1
  BY DEF Levels
<1> HIDE DEF o1
<1>5. Len(Child(level, s).path) = Len(level.path) + 1
  BY <1>3, <1>4
<1>6. Cardinality(Child(level, s).parents) = Len(level.path) + 1 + 1
  BY <1>2, <1>3 DEF Distinct
<1>7. QED
  BY <1>5, <1>6 DEF Distinct

(* The pair of an item of both is one deeper than the container it is in.  *)
LEMMA GoDeeperKeepsInv ==
  ASSUME WalkInv, GoDeeper
  PROVE  WalkInv'
<1>1. PICK task \in Top.work[1] :
        /\ task.kind = "common"
        /\ pending' = IF Child(Top.level, task.step).o1 \in Top.level.parents
                      THEN {} ELSE {Child(Top.level, task.step)}
        /\ stack' = WithoutTask(task)
  BY DEF GoDeeper
<1> DEFINE child == Child(Top.level, task.step)
<1>2. NextTask /\ case' = case /\ pending = {} /\ stack # <<>>
  BY DEF GoDeeper, NextTask, Working
<1>3. WalkTypes /\ Depths
  BY DEF WalkInv
<1>4. /\ stack' \in Seq(Frames) /\ Len(stack') = Len(stack)
      /\ \A i \in DOMAIN stack : stack'[i].level = stack[i].level
      /\ TasksAreThere'
  BY <1>1, <1>2, TaskDone
<1>5. DOMAIN stack' = DOMAIN stack /\ Len(stack) \in DOMAIN stack
  BY <1>2, <1>3, <1>4 DEF WalkTypes
<1>6. /\ Top.level \in Levels /\ Distinct(Top.level) /\ Len(Top.level.path) = Len(stack) - 1
      /\ TaskIsOf(task, Top.level)
  BY <1>2, <1>3, <1>5, LeftIsWork DEF Depths, Top
<1>7. child \in Levels
  BY <1>1, <1>6, ChildIsLevel DEF TaskIsOf, ItemsOf, Visible
<1>8. child.o1 = Heap[Top.level.o1].items[task.step]
  BY DEF Child, Level
<1>9. ASSUME child.o1 \notin Top.level.parents
      PROVE  Distinct(child) /\ Len(child.path) = Len(stack)
  <2>1. Distinct(child) /\ Len(child.path) = Len(Top.level.path) + 1
    BY <1>6, <1>8, <1>9, ChildIsDistinct
  <2> HIDE DEF child
  <2>2. Len(stack) \in Nat
    BY <1>3 DEF WalkTypes
  <2>3. QED
    BY <1>6, <2>1, <2>2
<1> HIDE DEF child
<1>10. pending' \subseteq {child} /\ (pending' # {} => child.o1 \notin Top.level.parents)
  BY <1>1 DEF child
<1>11. WalkTypes'
  BY <1>2, <1>3, <1>4, <1>7, <1>10 DEF WalkTypes
<1>12. \A l \in pending' : Distinct(l) /\ Len(l.path) = Len(stack')
  BY <1>4, <1>9, <1>10
<1>13. \A i \in DOMAIN stack' : Distinct(stack'[i].level) /\ Len(stack'[i].level.path) = i - 1
  BY <1>3, <1>4, <1>5 DEF Depths
<1>14. QED
  BY <1>4, <1>11, <1>12, <1>13 DEF WalkInv, Depths

(* The next of the loops of a function is about the same container.        *)
LEMMA NextLoopKeepsInv ==
  ASSUME WalkInv, NextLoop
  PROVE  WalkInv'
<1>1. /\ stack # <<>> /\ Top.work # <<>> /\ pending = {} /\ pending' = {} /\ case' = case
      /\ stack' = [stack EXCEPT ![Len(stack)].work = Tail(Top.work)]
  BY DEF NextLoop, NextTask, Working, Top
<1>2. WalkTypes /\ Depths
  BY DEF WalkInv
<1>3. Len(stack) \in DOMAIN stack /\ Top \in Frames
  BY <1>1, <1>2 DEF WalkTypes, Top
<1>4. \A j \in DOMAIN Top.work : \A task \in Top.work[j] : TaskIsOf(task, Top.level)
  BY <1>3 DEF WalkInv, TasksAreThere, Top
<1>5. /\ Tail(Top.work) \in Seq(SUBSET Tasks)
      /\ \A j \in DOMAIN Tail(Top.work) : j + 1 \in DOMAIN Top.work /\ Tail(Top.work)[j] = Top.work[j + 1]
  BY <1>1, <1>3 DEF Frames
<1>6. \A j \in DOMAIN Tail(Top.work) : \A task \in Tail(Top.work)[j] : TaskIsOf(task, Top.level)
  BY <1>4, <1>5
<1>7. /\ stack' \in Seq(Frames) /\ Len(stack') = Len(stack)
      /\ \A i \in DOMAIN stack : stack'[i].level = stack[i].level
      /\ TasksAreThere'
  BY <1>1, <1>5, <1>6, TopGoesOn
<1>8. DOMAIN stack' = DOMAIN stack
  BY <1>2, <1>7 DEF WalkTypes
<1>9. WalkTypes'
  BY <1>1, <1>2, <1>7 DEF WalkTypes
<1>10. Depths'
  BY <1>1, <1>2, <1>7, <1>8 DEF Depths
<1>11. QED
  BY <1>7, <1>9, <1>10 DEF WalkInv

(* Every step keeps the shape of the walk.                                 *)
LEMMA NextKeepsWalkInv == WalkInv /\ [Next]_vars => WalkInv'
<1> SUFFICES ASSUME WalkInv, [Next]_vars PROVE WalkInv'
  OBVIOUS
<1>1. CASE DiffRefused \/ DiffNothing \/ DiffLeaf
  <2>1. pending' = {} /\ stack' = stack /\ case' = case
    BY <1>1 DEF DiffRefused, DiffNothing, DiffLeaf
  <2>2. QED
    BY <2>1, WalkStopsKeepInv
<1>2. CASE DiffDict
  <2>1. PICK level \in pending :
          /\ case' = case
          /\ pending' = {}
          /\ stack' = stack \/ Enter(level, DictWork(level))
          /\ Type(level.o1) = Type(level.o2) /\ Type(level.o1) # "list"
    BY <1>2 DEF DiffDict, Enter
  <2>2. CASE stack' = stack
    BY <2>1, <2>2, WalkStopsKeepInv
  <2>3. CASE Enter(level, DictWork(level))
    <3>1. level \in Levels
      BY DEF WalkInv, WalkTypes
    <3>2. QED
      BY <2>1, <2>3, <3>1, DictWorkIsOf, EnterKeepsInv
  <2>4. QED
    BY <2>1, <2>2, <2>3
<1>3. CASE DiffIterable
  <2>1. PICK level \in pending :
          /\ Type(level.o1) = "list" /\ Type(level.o2) = "list"
          /\ Enter(level, ListWork(level))
    BY <1>3 DEF DiffIterable
  <2>2. level \in Levels
    BY DEF WalkInv, WalkTypes
  <2>3. QED
    BY <2>1, <2>2, ListWorkIsOf, EnterKeepsInv
<1>4. CASE StopContainer \/ Return
  <2>1. pending' = {} /\ stack' = Pop /\ case' = case /\ stack # <<>>
    BY <1>4 DEF StopContainer, Return, NextTask, Working
  <2>2. QED
    BY <2>1, WalkStopsKeepInv
<1>5. CASE Finish \/ Finished \/ UNCHANGED vars
  <2>1. pending' = pending /\ stack' = stack /\ case' = case
    BY <1>5 DEF Finish, Finished, vars
  <2>2. QED
    BY <2>1 DEF WalkInv, WalkTypes, TasksAreThere, Depths
<1>6. QED
  BY <1>1, <1>2, <1>3, <1>4, <1>5, ReportKeepsInv, GoDeeperKeepsInv, NextLoopKeepsInv DEF Next

(* As many objects of t1 are on the way to the innermost level as it is    *)
(* deep, and they are objects of the heap: parents_ids bounds the recursion*)
(* of _diff whatever the objects refer to.                                 *)
LEMMA DepthsBound == WalkInv => NestingIsBounded
<1> SUFFICES ASSUME WalkInv, NEW l \in pending \cup { stack[i].level : i \in DOMAIN stack }
             PROVE  Cardinality(l.parents) = Len(l.path) + 1 /\ Len(stack) <= Cardinality(Ids)
  BY DEF NestingIsBounded
<1>1. WalkTypes /\ Depths
  BY DEF WalkInv
<1>2. Distinct(l)
  BY <1>1 DEF Depths
<1>3. PICK deepest \in Levels : Distinct(deepest) /\ Len(deepest.path) + 1 >= Len(stack)
  <2>1. CASE stack = <<>>
    BY <1>1, <2>1 DEF WalkTypes, Depths, Levels
  <2>2. CASE stack # <<>>
    <3>1. Len(stack) \in DOMAIN stack /\ Top \in Frames
      BY <1>1, <2>2 DEF WalkTypes, Top
    <3>2. Distinct(Top.level) /\ Len(Top.level.path) = Len(stack) - 1 /\ Top.level \in Levels
      BY <1>1, <3>1 DEF Depths, Frames, Top
    <3>3. Len(stack) \in Nat
      BY <1>1 DEF WalkTypes
    <3>4. QED
      BY <3>2, <3>3
  <2>3. QED
    BY <2>1, <2>2
<1>4. Cardinality(deepest.parents) <= Cardinality(Ids) /\ Cardinality(Ids) \in Nat
  BY HeapAssumption, FS_Subset, FS_CardinalityType DEF Levels
<1>5. Len(stack) \in Nat /\ Len(deepest.path) \in Nat
  BY <1>1 DEF WalkTypes, Levels
<1>6. Len(stack) <= Cardinality(Ids)
  BY <1>3, <1>4, <1>5 DEF Distinct
<1>7. QED
  BY <1>2, <1>6 DEF Distinct

(* Whatever the objects refer to, no object of t1 is entered inside itself *)
(* (parents_ids), and _diff is never nested deeper than there are objects. *)
THEOREM NestingEnds == Spec => []NestingIsBounded
<1>1. Init => WalkInv
  BY WalkInitHolds
<1>2. WalkInv /\ [Next]_vars => WalkInv'
  BY NextKeepsWalkInv
<1>3. WalkInv => NestingIsBounded
  BY DepthsBound
<1>4. QED
  BY <1>1, <1>2, <1>3, PTL DEF Spec

-----------------------------------------------------------------------------
(* The reference: the pairs of objects that a path leads to.               *)

(* A recursive definition over 0 .. N has a solution.                      *)
LEMMA Recursion ==
  ASSUME NEW S, NEW a \in S, NEW step \in [S -> S], NEW N \in Nat
  PROVE  \E f \in [0 .. N -> S] : \A n \in 0 .. N : f[n] = IF n = 0 THEN a ELSE step[f[n - 1]]
<1> DEFINE Solves(f, m) == \A n \in 0 .. m : f[n] = IF n = 0 THEN a ELSE step[f[n - 1]]
           Wrong == { m \in Nat : ~ \E f \in [0 .. m -> S] : Solves(f, m) }
<1>1. Wrong = {}
  <2> SUFFICES ASSUME Wrong # {} PROVE FALSE
    OBVIOUS
  <2>1. Wrong \subseteq Nat
    OBVIOUS
  <2> HIDE DEF Wrong
  <2>2. PICK m \in Wrong : \A k \in Wrong : m <= k
    BY <2>1, Least
  <2>3. m \in Nat /\ ~ \E f \in [0 .. m -> S] : Solves(f, m)
    BY DEF Wrong
  <2>4. CASE m = 0
    <3> DEFINE f == [n \in 0 .. 0 |-> a]
    <3>1. f \in [0 .. m -> S] /\ Solves(f, m)
      BY <2>4
    <3>2. QED
      BY <2>3, <3>1
  <2>5. CASE m # 0
    <3>1. m - 1 \in Nat /\ m - 1 \notin Wrong
      BY <2>2, <2>3, <2>5
    <3>2. PICK f \in [0 .. m - 1 -> S] : Solves(f, m - 1)
      BY <3>1 DEF Wrong
    <3> DEFINE g == [n \in 0 .. m |-> IF n = m THEN step[f[m - 1]] ELSE f[n]]
    <3>3. g \in [0 .. m -> S]
      BY <2>3, <2>5, <3>1
    <3>4. ASSUME NEW n \in 0 .. m
          PROVE  g[n] = IF n = 0 THEN a ELSE step[g[n - 1]]
      <4>1. CASE n = m
        BY <2>3, <2>5, <4>1
      <4>2. CASE n # m
        <5>1. n \in 0 .. m - 1 /\ (n # 0 => n - 1 \in 0 .. m - 1)
          BY <2>3, <4>2
        <5>2. g[n] = f[n] /\ (n # 0 => g[n - 1] = f[n - 1])
          BY <2>3, <4>2, <5>1
        <5> HIDE DEF g
        <5>3. QED
          BY <3>2, <5>1, <5>2
      <4>3. QED
        BY <4>1, <4>2
    <3>5. Solves(g, m)
      BY <3>4
    <3> HIDE DEF g, Solves
    <3>6. QED
      BY <2>3, <3>3, <3>5
  <2>6. QED
    BY <2>4, <2>5
<1>2. QED
  BY <1>1

(* The pairs one element further than those of a set.                      *)
Deeper(before) ==
  UNION { { l2 \in { Child(l, s) : s \in Visible(l.o1) \cap Visible(l.o2) } : l2.o1 \notin l.parents } :
          l \in { l \in before : Comparable(l) } }

(* The pairs one step further are levels.                                  *)
LEMMA DeeperAreLevels ==
  ASSUME NEW before \in SUBSET Levels
  PROVE  Deeper(before) \in SUBSET Levels
<1> SUFFICES ASSUME NEW l \in before, NEW s \in Visible(l.o1) \cap Visible(l.o2)
             PROVE  Child(l, s) \in Levels
  BY DEF Deeper
<1>1. s \in DOMAIN Heap[l.o1].items \cap DOMAIN Heap[l.o2].items
  BY DEF Visible
<1>2. QED
  BY <1>1, ChildIsLevel

(* PairsOf, unfolded: by the number of elements of the paths.              *)
LEMMA PairsByLength ==
  ASSUME NEW c \in Compares
  PROVE  \E pairs \in [0 .. Cardinality(Ids) -> SUBSET Levels] :
           /\ PairsOf[c] = pairs[Cardinality(Ids)]
           /\ pairs[0] = {Level(<<>>, c[1], c[2], {c[1]})}
           /\ \A n \in 1 .. Cardinality(Ids) : pairs[n] = pairs[n - 1] \cup Deeper(pairs[n - 1])
<1> DEFINE N == Cardinality(Ids)
           root == Level(<<>>, c[1], c[2], {c[1]})
           Body(f) == [n \in 0 .. N |-> IF n = 0 THEN {root} ELSE f[n - 1] \cup Deeper(f[n - 1])]
           chosen == CHOOSE f : f = Body(f)
<1>1. PairsOf[c] = chosen[N]
  BY DEF PairsOf, Deeper
<1>2. N \in Nat
  BY HeapAssumption, FS_CardinalityType
<1>3. {root} \in SUBSET Levels
  <2>1. c[1] \in Ids /\ c[2] \in Ids
    BY CasesAssumption DEF Compares
  <2>2. QED
    BY <2>1 DEF Level, Levels
<1>4. chosen = Body(chosen) /\ chosen \in [0 .. N -> SUBSET Levels]
  <2> DEFINE step == [before \in SUBSET Levels |-> before \cup Deeper(before)]
  <2>1. step \in [SUBSET Levels -> SUBSET Levels]
    BY DeeperAreLevels
  <2> HIDE DEF step
  <2> HIDE DEF root, N
  <2>2. PICK f \in [0 .. N -> SUBSET Levels] :
          \A n \in 0 .. N : f[n] = IF n = 0 THEN {root} ELSE step[f[n - 1]]
    <3> DEFINE S == SUBSET Levels
               a == {root}
    <3>1. a \in S /\ step \in [S -> S]
      BY <1>3, <2>1
    <3> HIDE DEF S, a
    <3>2. \E f \in [0 .. N -> S] : \A n \in 0 .. N : f[n] = IF n = 0 THEN a ELSE step[f[n - 1]]
      BY <1>2, <3>1, Recursion
    <3>3. QED
      BY <3>2 DEF S, a
  <2>3. \A n \in 0 .. N : n # 0 => step[f[n - 1]] = f[n - 1] \cup Deeper(f[n - 1])
    <3> SUFFICES ASSUME NEW n \in 0 .. N, n # 0
                 PROVE  step[f[n - 1]] = f[n - 1] \cup Deeper(f[n - 1])
      OBVIOUS
    <3>1. f[n - 1] \in SUBSET Levels
      BY <1>2, <2>2
    <3>2. QED
      BY <3>1 DEF step
  <2>4. f = Body(f)
    BY <2>2, <2>3
  <2> HIDE DEF Body
  <2>5. chosen = Body(chosen)
    BY <2>4
  <2>6. \A n \in 0 .. N : chosen[n] \in SUBSET Levels
    <3> DEFINE Wrong == { n \in 0 .. N : chosen[n] \notin SUBSET Levels }
    <3> SUFFICES ASSUME Wrong # {} PROVE FALSE
      OBVIOUS
    <3>1. Wrong \subseteq Nat
      OBVIOUS
    <3> HIDE DEF Wrong
    <3>2. PICK n \in Wrong : \A k \in Wrong : n <= k
      BY <3>1, Least
    <3>3. n \in 0 .. N /\ chosen[n] \notin SUBSET Levels
      BY DEF Wrong
    <3> HIDE DEF chosen
    <3>4. chosen[n] = IF n = 0 THEN {root} ELSE chosen[n - 1] \cup Deeper(chosen[n - 1])
      BY <2>5, <3>3 DEF Body
    <3>5. CASE n = 0
      BY <1>3, <3>3, <3>4, <3>5
    <3>6. CASE n # 0
      <4>1. n - 1 \in 0 .. N /\ n - 1 \notin Wrong
        BY <1>2, <3>2, <3>3, <3>6
      <4>2. chosen[n - 1] \in SUBSET Levels
        BY <4>1 DEF Wrong
      <4>3. Deeper(chosen[n - 1]) \in SUBSET Levels
        BY <4>2, DeeperAreLevels
      <4>4. QED
        BY <3>3, <3>4, <3>6, <4>2, <4>3
    <3>7. QED
      BY <3>5, <3>6
  <2> HIDE DEF chosen
  <2>7. chosen \in [0 .. N -> SUBSET Levels]
    BY <2>5, <2>6 DEF Body
  <2>8. QED
    BY <2>5, <2>7 DEF Body
<1> HIDE DEF chosen
<1>5. chosen[0] = {root} /\ \A n \in 1 .. N : chosen[n] = chosen[n - 1] \cup Deeper(chosen[n - 1])
  <2>1. \A n \in 0 .. N : chosen[n] = IF n = 0 THEN {root} ELSE chosen[n - 1] \cup Deeper(chosen[n - 1])
    BY <1>4
  <2>2. 0 \in 0 .. N /\ \A n \in 1 .. N : n \in 0 .. N /\ n # 0
    BY <1>2
  <2> HIDE DEF root, N
  <2>3. QED
    BY <2>1, <2>2
<1>6. QED
  BY <1>1, <1>4, <1>5

Root(c) == Level(<<>>, c[1], c[2], {c[1]})

(* The two objects that are compared have the empty path.                  *)
LEMMA RootIsDistinct ==
  ASSUME NEW c \in Compares
  PROVE  Root(c) \in Levels /\ Distinct(Root(c)) /\ Root(c).path = <<>>
<1>1. c[1] \in Ids /\ c[2] \in Ids
  BY CasesAssumption DEF Compares
<1>2. /\ Root(c).path = <<>> /\ Root(c).parents = {c[1]}
      /\ Root(c) \in Levels
  BY <1>1 DEF Root, Level, Levels
<1>3. Cardinality(Root(c).parents) = 1
  BY <1>2, FS_Singleton
<1>4. Len(Root(c).path) = 0
  BY <1>2
<1>5. QED
  BY <1>2, <1>3, <1>4 DEF Distinct

(* A child of a pair, not a loop of t1.                                    *)
IsChild(l, m, s) ==
  /\ Comparable(m) /\ s \in Visible(m.o1) \cap Visible(m.o2)
  /\ Heap[m.o1].items[s] \notin m.parents
  /\ l = Child(m, s)

(* The pairs one step further are children of those before.                *)
LEMMA DeeperIsChild ==
  ASSUME NEW before, NEW l
  PROVE  l \in Deeper(before) <=> \E m \in before : \E s : IsChild(l, m, s)
BY DEF Deeper, IsChild, Child, Level

(* A child is one step further, and no object of t1 repeats.               *)
LEMMA ChildIsDeeper ==
  ASSUME NEW m \in Levels, Distinct(m), NEW s, NEW l, IsChild(l, m, s)
  PROVE  /\ l \in Levels /\ Distinct(l)
         /\ l.path = Append(m.path, s) /\ s \in Steps /\ Len(l.path) = Len(m.path) + 1
<1>1. s \in DOMAIN Heap[m.o1].items \cap DOMAIN Heap[m.o2].items
  BY DEF IsChild, Visible
<1>2. l \in Levels
  BY <1>1, ChildIsLevel DEF IsChild
<1>3. Distinct(l) /\ Len(l.path) = Len(m.path) + 1
  BY ChildIsDistinct DEF IsChild
<1>4. l.path = Append(m.path, s)
  BY DEF IsChild, Child, Level
<1>5. s \in Steps
  BY <1>1 DEF Steps, Levels
<1>6. QED
  BY <1>2, <1>3, <1>4, <1>5

(* The pairs are the least set with the two arguments that is closed under *)
(* children: what follows needs no more of PairsOf than this.              *)
LEMMA PairsAreClosed ==
  ASSUME NEW c \in Compares
  PROVE  /\ Root(c) \in PairsOf[c]
         /\ \A l \in PairsOf[c] : l \in Levels /\ Distinct(l)
         /\ \A m \in PairsOf[c] : \A s, l : IsChild(l, m, s) => l \in PairsOf[c]
         /\ \A l \in PairsOf[c] : l = Root(c) \/ \E m \in PairsOf[c] : \E s : IsChild(l, m, s)
<1> DEFINE N == Cardinality(Ids)
<1>1. N \in Nat
  BY HeapAssumption, FS_CardinalityType
<1>2. PICK pairs \in [0 .. N -> SUBSET Levels] :
        /\ PairsOf[c] = pairs[N]
        /\ pairs[0] = {Root(c)}
        /\ \A n \in 1 .. N : pairs[n] = pairs[n - 1] \cup Deeper(pairs[n - 1])
  BY PairsByLength DEF Root
<1> HIDE DEF N
<1> DEFINE Good(n) == \A l \in pairs[n] :
              /\ Distinct(l) /\ Root(c) \in pairs[n]
              /\ Len(l.path) <= n /\ l \in pairs[Len(l.path)]
              /\ l = Root(c) \/ \E m \in pairs[n] : \E s : IsChild(l, m, s)
<1>3. ASSUME NEW n \in 1 .. N, Good(n - 1)
      PROVE  Good(n)
  <2> SUFFICES ASSUME NEW l \in pairs[n]
               PROVE  /\ Distinct(l) /\ Root(c) \in pairs[n]
                      /\ Len(l.path) <= n /\ l \in pairs[Len(l.path)]
                      /\ l = Root(c) \/ \E m \in pairs[n] : \E s : IsChild(l, m, s)
    OBVIOUS
  <2>1. n - 1 \in 0 .. N /\ pairs[n - 1] \in SUBSET Levels
    BY <1>1, <1>2
  <2>2. pairs[n] = pairs[n - 1] \cup Deeper(pairs[n - 1])
    BY <1>2
  <2>3. CASE l \in pairs[n - 1]
    <3>1. l \in Levels /\ Len(l.path) \in Nat
      BY <2>1, <2>3 DEF Levels
    <3>2. QED
      BY <1>1, <1>3, <2>1, <2>2, <2>3, <3>1
  <2>4. CASE l \in Deeper(pairs[n - 1])
    <3>1. PICK m, s : m \in pairs[n - 1] /\ IsChild(l, m, s)
      BY <2>4, DeeperIsChild
    <3>2. m \in Levels /\ Distinct(m) /\ Len(m.path) <= n - 1 /\ m \in pairs[Len(m.path)]
      BY <1>3, <2>1, <3>1
    <3>3. Distinct(l) /\ Len(l.path) = Len(m.path) + 1
      BY <3>1, <3>2, ChildIsDeeper
    <3>4. Len(m.path) \in Nat /\ Len(m.path) + 1 \in 1 .. N
      BY <1>1, <2>1, <3>2 DEF Levels
    <3>5. l \in Deeper(pairs[Len(m.path)])
      BY <3>1, <3>2, DeeperIsChild
    <3>6. pairs[Len(m.path) + 1] = pairs[Len(m.path)] \cup Deeper(pairs[Len(m.path)])
      BY <1>2, <3>4
    <3>7. l \in pairs[Len(l.path)] /\ Len(l.path) <= n
      BY <2>1, <3>2, <3>3, <3>4, <3>5, <3>6
    <3>8. Root(c) \in pairs[n]
      BY <1>3, <2>2, <3>1
    <3>9. QED
      BY <2>2, <3>1, <3>3, <3>7, <3>8
  <2>5. QED
    BY <2>2, <2>3, <2>4
<1>4. Good(0)
  <2>1. Len(Root(c).path) = 0
    BY RootIsDistinct
  <2>2. QED
    BY <1>1, <1>2, <2>1, RootIsDistinct
<1>5. \A n \in 0 .. N : Good(n)
  <2> DEFINE Wrong == { n \in 0 .. N : ~Good(n) }
  <2> SUFFICES ASSUME Wrong # {} PROVE FALSE
    OBVIOUS
  <2>1. Wrong \subseteq Nat
    OBVIOUS
  <2> HIDE DEF Wrong
  <2>2. PICK n \in Wrong : \A k \in Wrong : n <= k
    BY <2>1, Least
  <2>3. n \in 0 .. N /\ ~Good(n)
    BY DEF Wrong
  <2> HIDE DEF Good
  <2>4. n \in 1 .. N
    BY <1>1, <1>4, <2>3
  <2>5. n - 1 \in 0 .. N /\ n - 1 \notin Wrong
    BY <1>1, <2>2, <2>4
  <2>6. Good(n - 1)
    BY <2>5 DEF Wrong
  <2>7. QED
    BY <1>3, <2>3, <2>4, <2>6
<1>6. ASSUME NEW n \in 0 .. N
      PROVE  pairs[n] \subseteq pairs[N]
  <2> DEFINE Wrong == { k \in n .. N : ~ (pairs[n] \subseteq pairs[k]) }
  <2>1. Wrong = {}
    <3> SUFFICES ASSUME Wrong # {} PROVE FALSE
      OBVIOUS
    <3>1. Wrong \subseteq Nat
      OBVIOUS
    <3> HIDE DEF Wrong
    <3>2. PICK k \in Wrong : \A i \in Wrong : k <= i
      BY <3>1, Least
    <3>3. k \in n .. N /\ ~ (pairs[n] \subseteq pairs[k])
      BY DEF Wrong
    <3>4. k \in 1 .. N /\ k - 1 \in n .. N /\ k - 1 \notin Wrong
      BY <1>1, <3>2, <3>3
    <3>5. pairs[n] \subseteq pairs[k - 1]
      BY <3>4 DEF Wrong
    <3>6. QED
      BY <1>2, <3>3, <3>4, <3>5
  <2>2. N \in n .. N
    BY <1>1
  <2>3. QED
    BY <2>1, <2>2
<1>7. N \in 0 .. N
  BY <1>1
<1>8. ASSUME NEW m \in PairsOf[c], NEW s, NEW l, IsChild(l, m, s)
      PROVE  l \in PairsOf[c]
  <2>1. m \in Levels /\ Distinct(m) /\ m \in pairs[Len(m.path)] /\ Len(m.path) \in Nat
    BY <1>2, <1>5, <1>7 DEF Levels
  <2>2. l \in Levels /\ Distinct(l) /\ Len(l.path) = Len(m.path) + 1
    BY <1>8, <2>1, ChildIsDeeper
  <2>3. Cardinality(l.parents) <= N
    BY <2>2, HeapAssumption, FS_Subset DEF Levels, N
  <2>4. Len(m.path) + 1 \in 1 .. N /\ Len(m.path) \in 0 .. N
    BY <1>1, <2>1, <2>2, <2>3 DEF Distinct
  <2>5. pairs[Len(m.path) + 1] = pairs[Len(m.path)] \cup Deeper(pairs[Len(m.path)])
    BY <1>2, <2>4
  <2>6. l \in Deeper(pairs[Len(m.path)])
    BY <1>8, <2>1, DeeperIsChild
  <2>7. l \in pairs[Len(m.path) + 1] /\ Len(m.path) + 1 \in 0 .. N
    BY <2>4, <2>5, <2>6
  <2>8. QED
    BY <1>2, <1>6, <2>7
<1>9. \A l \in PairsOf[c] : /\ l \in Levels /\ Distinct(l)
                            /\ l = Root(c) \/ \E m \in PairsOf[c] : \E s : IsChild(l, m, s)
  BY <1>2, <1>5, <1>7
<1>10. Root(c) \in PairsOf[c]
  <2>1. 0 \in 0 .. N
    BY <1>1
  <2>2. QED
    BY <1>2, <1>6, <2>1
<1>11. QED
  BY <1>8, <1>9, <1>10

(* Of sequences.                                                           *)
LEMMA SeqEqual ==
  ASSUME NEW S, NEW p \in Seq(S), NEW q \in Seq(S), Len(p) = Len(q),
         \A i \in 1 .. Len(p) : p[i] = q[i]
  PROVE  p = q
OBVIOUS

(* A path has one last step.                                               *)
LEMMA AppendsEqual ==
  ASSUME NEW p \in Seq(Steps), NEW q \in Seq(Steps), NEW s \in Steps, NEW t \in Steps,
         Append(p, s) = Append(q, t)
  PROVE  p = q /\ s = t
OBVIOUS

(* Beginning with a path is transitive.                                    *)
LEMMA BeginsTransitively ==
  ASSUME NEW S, NEW p \in Seq(S), NEW q \in Seq(S), NEW r \in Seq(S),
         TextBegins(p, q), TextBegins(q, r)
  PROVE  TextBegins(p, r)
<1>1. Len(p) \in Nat /\ Len(q) \in Nat /\ Len(r) \in Nat /\ Len(r) <= Len(q) /\ Len(q) <= Len(p)
  BY DEF TextBegins
<1>2. SubSeq(p, 1, Len(q)) = q /\ SubSeq(q, 1, Len(r)) = r
  BY DEF TextBegins
<1>3. \A i \in 1 .. Len(q) : q[i] = p[i]
  BY <1>1, <1>2
<1>4. \A i \in 1 .. Len(r) : r[i] = q[i]
  BY <1>1, <1>2
<1>5. /\ SubSeq(p, 1, Len(r)) \in Seq(S) /\ Len(SubSeq(p, 1, Len(r))) = Len(r)
      /\ \A i \in 1 .. Len(r) : SubSeq(p, 1, Len(r))[i] = p[i]
  BY <1>1
<1>6. SubSeq(p, 1, Len(r)) = r
  BY <1>1, <1>3, <1>4, <1>5, SeqEqual
<1>7. QED
  BY <1>1, <1>6 DEF TextBegins

(* Of beginnings of paths.                                                 *)
LEMMA BeginsWithItself ==
  ASSUME NEW p \in Seq(Steps)
  PROVE  TextBegins(p, p)
BY DEF TextBegins

(* What a longer path begins with.                                         *)
LEMMA BeginsAppend ==
  ASSUME NEW p \in Seq(Steps), NEW s \in Steps, NEW q \in Seq(Steps)
  PROVE  TextBegins(Append(p, s), q) <=> q = Append(p, s) \/ TextBegins(p, q)
<1> DEFINE a == Append(p, s)
<1>1. a \in Seq(Steps) /\ Len(a) = Len(p) + 1 /\ \A i \in 1 .. Len(p) : a[i] = p[i]
  OBVIOUS
<1>2. SubSeq(a, 1, Len(a)) = a
  BY <1>1
<1>3. ASSUME Len(q) <= Len(p)
      PROVE  SubSeq(a, 1, Len(q)) = SubSeq(p, 1, Len(q))
  <2>1. Len(q) \in Nat /\ Len(p) \in Nat
    OBVIOUS
  <2>2. /\ SubSeq(a, 1, Len(q)) \in Seq(Steps) /\ SubSeq(p, 1, Len(q)) \in Seq(Steps)
        /\ Len(SubSeq(a, 1, Len(q))) = Len(q) /\ Len(SubSeq(p, 1, Len(q))) = Len(q)
    BY <1>1, <1>3
  <2>3. \A i \in 1 .. Len(q) : SubSeq(a, 1, Len(q))[i] = SubSeq(p, 1, Len(q))[i]
    BY <1>1, <1>3
  <2> HIDE DEF a
  <2>4. QED
    BY <2>2, <2>3, SeqEqual
<1>4. Len(q) \in Nat /\ Len(p) \in Nat
  OBVIOUS
<1> SUFFICES TextBegins(a, q) <=> q = a \/ TextBegins(p, q)
  OBVIOUS
<1> HIDE DEF a
<1>5. CASE Len(q) <= Len(p)
  BY <1>1, <1>3, <1>4, <1>5 DEF TextBegins
<1>6. CASE Len(q) = Len(p) + 1
  BY <1>1, <1>2, <1>4, <1>6 DEF TextBegins
<1>7. CASE Len(q) > Len(p) + 1
  BY <1>1, <1>4, <1>7 DEF TextBegins
<1>8. QED
  BY <1>4, <1>5, <1>6, <1>7

(* A path leads to one pair.                                               *)
LEMMA OnePairAtAPath ==
  ASSUME NEW c \in Compares, NEW l \in PairsOf[c], NEW m \in PairsOf[c], l.path = m.path
  PROVE  l = m
<1> DEFINE Wrong == { n \in Nat : \E a, b \in PairsOf[c] : a.path = b.path /\ Len(a.path) = n /\ a # b }
<1>1. Wrong = {}
  <2> SUFFICES ASSUME Wrong # {} PROVE FALSE
    OBVIOUS
  <2>1. Wrong \subseteq Nat
    OBVIOUS
  <2> HIDE DEF Wrong
  <2>2. PICK n \in Wrong : \A k \in Wrong : n <= k
    BY <2>1, Least
  <2>3. PICK a \in PairsOf[c], b \in PairsOf[c] : a.path = b.path /\ Len(a.path) = n /\ a # b
    BY DEF Wrong
  <2>4. ASSUME NEW x \in PairsOf[c]
        PROVE  x.path = <<>> \/ \E y \in PairsOf[c] : \E s :
                 /\ IsChild(x, y, s) /\ x.path = Append(y.path, s)
                 /\ y.path \in Seq(Steps) /\ s \in Steps /\ Len(x.path) = Len(y.path) + 1
    <3>1. x = Root(c) \/ \E y \in PairsOf[c] : \E s : IsChild(x, y, s)
      BY PairsAreClosed
    <3>2. CASE x = Root(c)
      BY <3>2, RootIsDistinct
    <3>3. ASSUME NEW y \in PairsOf[c], NEW s, IsChild(x, y, s)
          PROVE  /\ x.path = Append(y.path, s) /\ y.path \in Seq(Steps) /\ s \in Steps
                 /\ Len(x.path) = Len(y.path) + 1
      <4>1. y \in Levels /\ Distinct(y)
        BY PairsAreClosed
      <4>2. QED
        BY <3>3, <4>1, ChildIsDeeper DEF Levels
    <3>4. QED
      BY <3>1, <3>2, <3>3
  <2>5. CASE a.path = <<>>
    <3>1. a = Root(c) /\ b = Root(c)
      <4>1. ASSUME NEW x \in PairsOf[c], x.path = <<>>
            PROVE  x = Root(c)
        <5>1. \A y \in PairsOf[c] : \A s : ~IsChild(x, y, s)
          <6> SUFFICES ASSUME NEW y \in PairsOf[c], NEW s, IsChild(x, y, s) PROVE FALSE
            OBVIOUS
          <6>1. y \in Levels /\ Distinct(y)
            BY PairsAreClosed
          <6>2. Len(x.path) = Len(y.path) + 1 /\ Len(y.path) \in Nat
            BY <6>1, ChildIsDeeper DEF Levels
          <6>3. QED
            BY <4>1, <6>2
        <5>2. QED
          BY <5>1, PairsAreClosed
      <4>2. QED
        BY <2>3, <2>5, <4>1
    <3>2. QED
      BY <2>3, <3>1
  <2>6. CASE a.path # <<>>
    <3>1. PICK x, s :
            /\ x \in PairsOf[c]
            /\ IsChild(a, x, s) /\ a.path = Append(x.path, s)
            /\ x.path \in Seq(Steps) /\ s \in Steps /\ Len(a.path) = Len(x.path) + 1
      BY <2>4, <2>6
    <3>2. PICK y, t :
            /\ y \in PairsOf[c]
            /\ IsChild(b, y, t) /\ b.path = Append(y.path, t)
            /\ y.path \in Seq(Steps) /\ t \in Steps /\ Len(b.path) = Len(y.path) + 1
      BY <2>3, <2>4, <2>6
    <3>3. x.path = y.path /\ s = t
      <4>1. Append(x.path, s) = Append(y.path, t)
        BY <2>3, <3>1, <3>2
      <4>2. x.path \in Seq(Steps) /\ y.path \in Seq(Steps) /\ s \in Steps /\ t \in Steps
        BY <3>1, <3>2
      <4>3. x.path = y.path
        BY ONLY <4>1, <4>2, AppendsEqual
      <4>4. s = t
        BY ONLY <4>1, <4>2, AppendsEqual
      <4>5. QED
        BY <4>3, <4>4
    <3>4. Len(x.path) \in Nat /\ Len(x.path) < n
      BY <2>3, <3>1
    <3>5. Len(x.path) \notin Wrong
      BY <2>1, <2>2, <3>4
    <3>6. x = y
      BY <3>1, <3>2, <3>3, <3>4, <3>5 DEF Wrong
    <3>7. QED
      BY <2>3, <3>1, <3>2, <3>3, <3>6 DEF IsChild
  <2>7. QED
    BY <2>5, <2>6
<1>2. l \in Levels
  BY PairsAreClosed
<1>3. Len(l.path) \in Nat /\ Len(l.path) \notin Wrong
  BY <1>1, <1>2 DEF Levels
<1>4. QED
  BY <1>3

(* Every beginning of the path of a pair leads to a pair.                  *)
LEMMA BeginningIsPair ==
  ASSUME NEW c \in Compares, NEW l \in PairsOf[c], NEW n \in 0 .. Len(l.path)
  PROVE  \E m \in PairsOf[c] : m.path = SubSeq(l.path, 1, n)
<1> DEFINE Reached(k) == \E a \in PairsOf[c] : Len(a.path) = n + k /\ TextBegins(l.path, a.path)
           Ks == { k \in Nat : Reached(k) }
<1>1. l \in Levels /\ Len(l.path) \in Nat /\ n \in Nat
  BY PairsAreClosed DEF Levels
<1>2. Len(l.path) - n \in Ks
  <2>1. TextBegins(l.path, l.path)
    BY <1>1, BeginsWithItself DEF Levels
  <2>2. QED
    BY <1>1, <2>1
<1>3. Ks \subseteq Nat
  OBVIOUS
<1> HIDE DEF Ks
<1>4. PICK k \in Ks : \A j \in Ks : k <= j
  BY <1>2, <1>3, Least
<1>5. k \in Nat /\ Reached(k)
  BY DEF Ks
<1>6. PICK a \in PairsOf[c] : Len(a.path) = n + k /\ TextBegins(l.path, a.path)
  BY <1>5
<1>7. k = 0
  <2> SUFFICES ASSUME k # 0 PROVE FALSE
    OBVIOUS
  <2>1. a # Root(c)
    <3>1. Len(Root(c).path) = 0
      BY RootIsDistinct
    <3>2. QED
      BY <1>1, <1>5, <1>6, <3>1
  <2>2. PICK b, s : b \in PairsOf[c] /\ IsChild(a, b, s)
    BY <2>1, PairsAreClosed
  <2>3. b \in Levels /\ Distinct(b)
    BY <2>2, PairsAreClosed
  <2>4. a.path = Append(b.path, s) /\ s \in Steps /\ Len(a.path) = Len(b.path) + 1
        /\ b.path \in Seq(Steps) /\ Len(b.path) \in Nat
    BY <2>2, <2>3, ChildIsDeeper DEF Levels
  <2>5. TextBegins(l.path, b.path)
    <3>1. TextBegins(a.path, b.path)
      BY <2>4, BeginsWithItself, BeginsAppend
    <3>2. a.path \in Seq(Steps)
      BY <2>4
    <3>3. QED
      BY <1>1, <1>6, <2>4, <3>1, <3>2, BeginsTransitively DEF Levels
  <2>6. k - 1 \in Nat /\ Len(b.path) = n + (k - 1)
    BY <1>1, <1>5, <1>6, <2>4
  <2>7. k - 1 \in Ks
    BY <2>2, <2>5, <2>6 DEF Ks
  <2>8. QED
    BY <1>4, <1>5, <2>7
<1>8. QED
  BY <1>1, <1>6, <1>7 DEF TextBegins

(* No path of a pair goes through an item of one of two only.              *)
LEMMA NoPairBelow ==
  ASSUME NEW c \in Compares, NEW m \in PairsOf[c], NEW s \in Steps,
         s \notin Visible(m.o1) \cap Visible(m.o2), NEW l \in PairsOf[c]
  PROVE  ~TextBegins(l.path, Append(m.path, s))
<1> SUFFICES ASSUME TextBegins(l.path, Append(m.path, s)) PROVE FALSE
  OBVIOUS
<1>1. l \in Levels /\ m \in Levels /\ Distinct(m)
  BY PairsAreClosed
<1>2. m.path \in Seq(Steps) /\ l.path \in Seq(Steps) /\ Len(m.path) \in Nat
  BY <1>1 DEF Levels
<1>3. Len(Append(m.path, s)) \in 0 .. Len(l.path)
  BY <1>2 DEF TextBegins
<1>4. PICK a \in PairsOf[c] : a.path = Append(m.path, s)
  <2>1. PICK a \in PairsOf[c] : a.path = SubSeq(l.path, 1, Len(Append(m.path, s)))
    BY <1>3, BeginningIsPair
  <2>2. SubSeq(l.path, 1, Len(Append(m.path, s))) = Append(m.path, s)
    BY DEF TextBegins
  <2>3. QED
    BY <2>1, <2>2
<1>5. a # Root(c)
  <2>1. Root(c).path = <<>>
    BY RootIsDistinct
  <2>2. Append(m.path, s) # <<>>
    <3>1. Len(Append(m.path, s)) = Len(m.path) + 1 /\ Len(<<>>) = 0
      BY <1>2
    <3>2. Len(Append(m.path, s)) # Len(<<>>)
      BY <1>2, <3>1
    <3>3. QED
      BY <3>2
  <2>3. QED
    BY <1>4, <2>1, <2>2
<1>6. PICK b, t : b \in PairsOf[c] /\ IsChild(a, b, t)
  BY <1>5, PairsAreClosed
<1>7. b \in Levels /\ Distinct(b)
  BY <1>6, PairsAreClosed
<1>8. a.path = Append(b.path, t) /\ t \in Steps /\ b.path \in Seq(Steps)
  BY <1>6, <1>7, ChildIsDeeper DEF Levels
<1>9. b.path = m.path /\ t = s
  <2>1. Append(b.path, t) = Append(m.path, s)
    BY <1>4, <1>8
  <2>2. b.path \in Seq(Steps) /\ m.path \in Seq(Steps) /\ s \in Steps /\ t \in Steps
    BY <1>2, <1>8
  <2>3. b.path = m.path
    BY ONLY <2>1, <2>2, AppendsEqual
  <2>4. t = s
    BY ONLY <2>1, <2>2, AppendsEqual
  <2>5. QED
    BY <2>3, <2>4
<1>10. b = m
  BY <1>6, <1>9, OnePairAtAPath
<1>11. QED
  BY <1>6, <1>9, <1>10 DEF IsChild

(* A difference: a pair that differs itself, or an item of one of two only.*)
IsOnlyIn(l, m, change, s) ==
  /\ Comparable(m)
  /\ \/ change = "removed" /\ s \in Visible(m.o1) \ Visible(m.o2)
     \/ change = "added" /\ s \in Visible(m.o2) \ Visible(m.o1)
  /\ l = OnlyIn(m, change, s)

(* A difference is a pair that differs, or an item of one side only.       *)
LEMMA DifferencesAre ==
  ASSUME NEW c \in Compares, NEW l
  PROVE  l \in DifferencesOf[c] <=>
           \/ l \in PairsOf[c] /\ DifferentItself(l)
           \/ \E m \in PairsOf[c] : \E change, s : IsOnlyIn(l, m, change, s)
<1>1. DifferencesOf[c] =
        { l2 \in PairsOf[c] : DifferentItself(l2) }
          \cup UNION { { OnlyIn(m, "removed", s) : s \in Visible(m.o1) \ Visible(m.o2) }
                         \cup { OnlyIn(m, "added", s) : s \in Visible(m.o2) \ Visible(m.o1) } :
                       m \in { m \in PairsOf[c] : Comparable(m) } }
  BY DEF DifferencesOf
<1>2. QED
  BY <1>1 DEF IsOnlyIn

(* An item of one side only is one step below its pair.                    *)
LEMMA OnlyInIsBelow ==
  ASSUME NEW c \in Compares, NEW m \in PairsOf[c], NEW change, NEW s, NEW l, IsOnlyIn(l, m, change, s)
  PROVE  /\ m.path \in Seq(Steps) /\ s \in Steps /\ l.path = Append(m.path, s) /\ l.path \in Seq(Steps)
         /\ s \notin Visible(m.o1) \cap Visible(m.o2)
<1>1. m \in Levels
  BY PairsAreClosed
<1>2. s \in DOMAIN Heap[m.o1].items \/ s \in DOMAIN Heap[m.o2].items
  BY DEF IsOnlyIn, Visible
<1>3. m.path \in Seq(Steps) /\ s \in Steps
  BY <1>1, <1>2 DEF Levels, Steps
<1>4. l.path = Append(m.path, s)
  BY DEF IsOnlyIn, OnlyIn, Level
<1>5. Append(m.path, s) \in Seq(Steps)
  BY <1>3
<1>6. QED
  BY <1>3, <1>4, <1>5 DEF IsOnlyIn

(* Paths of pairs and of differences are made of steps.                    *)
LEMMA DifferencesArePaths ==
  ASSUME NEW c \in Compares, NEW l \in PairsOf[c] \cup DifferencesOf[c]
  PROVE  l.path \in Seq(Steps)
<1>1. CASE l \in PairsOf[c]
  BY <1>1, PairsAreClosed DEF Levels
<1>2. CASE l \in DifferencesOf[c]
  BY <1>1, <1>2, DifferencesAre, OnlyInIsBelow
<1>3. QED
  BY <1>1, <1>2

(* The elements of the patterns and of the paths.                          *)
AllElements == Elements \cup { s.elem : s \in Steps }

(* The elements of a path are elements.                                    *)
LEMMA ElemsAreTyped ==
  ASSUME NEW path \in Seq(Steps)
  PROVE  Elems(path) \in Seq(AllElements)
<1>1. DOMAIN path = 1 .. Len(path) /\ Len(path) \in Nat
  OBVIOUS
<1>2. \A i \in 1 .. Len(path) : path[i].elem \in AllElements
  BY DEF AllElements
<1>3. Elems(path) = [i \in 1 .. Len(path) |-> path[i].elem]
  BY <1>1 DEF Elems
<1>4. QED
  BY <1>1, <1>2, <1>3

(* The patterns of the options are made of elements.                       *)
LEMMA PatternsAreTyped ==
  ASSUME case \in Cases, NEW g \in opts.include_globs \cup opts.exclude_globs
  PROVE  g \in Seq(AllElements)
<1>1. g \in Seq(Elements)
  BY CasesAssumption DEF opts
<1>2. QED
  BY <1>1 DEF AllElements

(* The objects of a run are among those compared.                          *)
LEMMA CaseIsCompared ==
  ASSUME case \in Cases
  PROVE  /\ <<case.t1, case.t2>> \in Compares
         /\ Pairs = PairsOf[<<case.t1, case.t2>>] /\ Different = DifferencesOf[<<case.t1, case.t2>>]
BY DEF Compares, Pairs, Different

(* A pattern names the paths that the documentation says, whatever the     *)
(* pattern and the path (_match_segments, _could_match_descendant).        *)
LEMMA PatternsAreRight ==
  ASSUME case \in Cases
  PROVE  PatternsDenote
<1> SUFFICES ASSUME NEW g \in opts.include_globs \cup opts.exclude_globs,
                    NEW d \in Differences \cup { l.path : l \in Pairs }
             PROVE  /\ Match(g, Elems(d)) <=> Denotes(g, Elems(d))
                    /\ MatchOrIsDescendant(g, Elems(d)) <=> DenotesPrefix(g, Elems(d))
                    /\ MatchOrIsAncestor(g, Elems(d)) <=>
                         \E n \in 1 .. Len(g) + 1 : Denotes(g, Elems(d) \o SubSeq(g, n, Len(g)))
  BY DEF PatternsDenote
<1>1. d \in Seq(Steps)
  BY CaseIsCompared, DifferencesArePaths DEF Differences
<1>2. g \in Seq(AllElements) /\ Elems(d) \in Seq(AllElements)
  BY <1>1, ElemsAreTyped, PatternsAreTyped
<1>3. Match(g, Elems(d)) <=> Denotes(g, Elems(d))
  BY <1>2, MatchDenotes
<1>4. MatchOrIsDescendant(g, Elems(d)) <=> DenotesPrefix(g, Elems(d))
  BY <1>2, DescendantDenotes
<1>5. MatchOrIsAncestor(g, Elems(d)) <=>
        \E n \in 1 .. Len(g) + 1 : Denotes(g, Elems(d) \o SubSeq(g, n, Len(g)))
  BY <1>2, AncestorDenotes
<1>6. QED
  BY <1>3, <1>4, <1>5

(* A pattern names the paths that the documentation says, whatever the     *)
(* pattern and the path: "*" one element, "**" any number of them.         *)
THEOREM PatternsAsDocumented == Spec => []PatternsDenote
<1>1. Init => case \in Cases
  BY DEF Init
<1>2. case \in Cases /\ [Next]_vars => (case \in Cases)'
  BY DEF Next, vars, DiffRefused, DiffNothing, DiffLeaf, DiffDict, DiffIterable, Enter, ReportItem,
         GoDeeper, StopContainer, NextLoop, Return, Finish, Finished
<1>3. case \in Cases => PatternsDenote
  BY PatternsAreRight
<1>4. QED
  BY <1>1, <1>2, <1>3, PTL DEF Spec

-----------------------------------------------------------------------------
(* What is reported.                                                       *)

(* Every beginning of the path of what is met, but itself, leads to a pair.*)
LEMMA BeginningIsMet ==
  ASSUME NEW c \in Compares, NEW l \in PairsOf[c] \cup DifferencesOf[c], NEW n \in 0 .. Len(l.path)
  PROVE  \E m \in PairsOf[c] \cup {l} : m.path = SubSeq(l.path, 1, n)
<1>1. CASE l \in PairsOf[c]
  BY <1>1, BeginningIsPair
<1>2. ASSUME NEW m \in PairsOf[c], NEW change, NEW s, IsOnlyIn(l, m, change, s)
      PROVE  \E a \in PairsOf[c] \cup {l} : a.path = SubSeq(l.path, 1, n)
  <2>1. m.path \in Seq(Steps) /\ s \in Steps /\ l.path = Append(m.path, s) /\ l.path \in Seq(Steps)
    BY <1>2, OnlyInIsBelow
  <2>2. Len(l.path) = Len(m.path) + 1 /\ Len(m.path) \in Nat
    BY <2>1
  <2>3. CASE n = Len(l.path)
    <3>1. SubSeq(l.path, 1, Len(l.path)) = l.path
      BY <2>1
    <3>2. QED
      BY <2>3, <3>1
  <2>4. CASE n # Len(l.path)
    <3>1. n \in 0 .. Len(m.path)
      BY <2>2, <2>4
    <3>2. PICK a \in PairsOf[c] : a.path = SubSeq(m.path, 1, n)
      BY <3>1, BeginningIsPair
    <3>3. Len(SubSeq(m.path, 1, n)) = n /\ SubSeq(m.path, 1, n) \in Seq(Steps)
      BY <2>1, <3>1
    <3>4. TextBegins(m.path, a.path) /\ a.path \in Seq(Steps)
      BY <2>2, <3>1, <3>2, <3>3 DEF TextBegins
    <3>5. TextBegins(l.path, a.path)
      BY <2>1, <3>4, BeginsAppend
    <3>6. QED
      BY <3>2, <3>3, <3>5 DEF TextBegins
  <2>5. QED
    BY <2>3, <2>4
<1>3. QED
  BY <1>1, <1>2, DifferencesAre

(* What is met on a path is a pair, until it ends.                         *)
LEMMA AboveIsMet ==
  ASSUME NEW c \in Compares, NEW level \in PairsOf[c] \cup DifferencesOf[c],
         NEW l \in PairsOf[c] \cup DifferencesOf[c], TextBegins(level.path, l.path)
  PROVE  l \in PairsOf[c] \/ l = level
<1> SUFFICES ASSUME NEW m \in PairsOf[c], NEW change, NEW s, IsOnlyIn(l, m, change, s)
             PROVE  l = level
  BY DifferencesAre
<1>1. /\ m.path \in Seq(Steps) /\ s \in Steps /\ l.path = Append(m.path, s)
      /\ s \notin Visible(m.o1) \cap Visible(m.o2) /\ l.path \in Seq(Steps)
  BY OnlyInIsBelow
<1>2. level \notin PairsOf[c]
  BY <1>1, NoPairBelow
<1>3. PICK m2, change2, s2 : m2 \in PairsOf[c] /\ IsOnlyIn(level, m2, change2, s2)
  BY <1>2, DifferencesAre
<1>4. m2.path \in Seq(Steps) /\ s2 \in Steps /\ level.path = Append(m2.path, s2)
  BY <1>3, OnlyInIsBelow
<1>5. ~TextBegins(m2.path, l.path)
  BY <1>1, <1>3, NoPairBelow
<1>6. Append(m.path, s) = Append(m2.path, s2)
  BY <1>1, <1>4, <1>5, BeginsAppend
<1>7. m.path = m2.path /\ s = s2
  <2>1. m.path \in Seq(Steps) /\ m2.path \in Seq(Steps) /\ s \in Steps /\ s2 \in Steps
    BY <1>1, <1>4
  <2>2. m.path = m2.path
    BY ONLY <1>6, <2>1, AppendsEqual
  <2>3. s = s2
    BY ONLY <1>6, <2>1, AppendsEqual
  <2>4. QED
    BY <2>2, <2>3
<1>8. m = m2
  BY <1>3, <1>7, OnePairAtAPath
<1>9. change = change2
  BY <1>3, <1>7, <1>8 DEF IsOnlyIn
<1>10. QED
  BY <1>3, <1>7, <1>8, <1>9 DEF IsOnlyIn

(* What _skip_this lets through.                                           *)
Excluded(path) ==
  path \in opts.exclude \/ \E g \in opts.exclude_globs : Match(g, Elems(path))

(* What _skip_this lets pass.                                              *)
LEMMA PassedIsNotExcluded ==
  ASSUME NEW l, ~SkipThis(l)
  PROVE  /\ ~IncludesObjects => ~Excluded(l.path)
         /\ ~Includes => ~ObjectIsExcluded(l)
         /\ Includes /\ l.path # <<>> => RelatedToIncluded(l.path) \/ (IncludesObjects /\ Excluded(l.path))
BY DEF SkipThis, Excluded

(* An excluded path is named by exclude_paths or denoted by a pattern.     *)
LEMMA ExcludedIsDenoted ==
  ASSUME case \in Cases, NEW path \in Seq(Steps)
  PROVE  Excluded(path) <=>
           path \in opts.exclude \/ \E g \in opts.exclude_globs : Denotes(g, Elems(path))
<1>1. \A g \in opts.exclude_globs : Match(g, Elems(path)) <=> Denotes(g, Elems(path))
  BY ElemsAreTyped, PatternsAreTyped, MatchDenotes
<1>2. QED
  BY <1>1 DEF Excluded

(* A report of a level that differs, all levels above which were let       *)
(* through.                                                                *)
LEMMA ReportIsSelected ==
  ASSUME case \in Cases, NEW level \in Pairs \cup Different,
         \E d \in Differences : TextBegins(d, level.path),
         \A m \in Pairs : TextBegins(level.path, m.path) => m = level \/ ~SkipThis(m),
         NEW kind, NEW r \in Reported(kind, level)
  PROVE  IsSelected(r.path)
<1> DEFINE path == level.path
           c == <<case.t1, case.t2>>
<1>1. r.path = path /\ ~SkipThis(level) /\ ~SkipReportForIncludeGlob(path)
  BY DEF Reported
<1>2. c \in Compares /\ Pairs = PairsOf[c] /\ Different = DifferencesOf[c]
  BY CaseIsCompared
<1>3. path \in Seq(Steps)
  BY <1>2, DifferencesArePaths
<1>4. \A m \in Pairs \cup {level} : TextBegins(path, m.path) => ~SkipThis(m)
  BY <1>1
<1>5. ~IncludesObjects => ~ExcludedPath(path)
  <2> SUFFICES ASSUME ~IncludesObjects, NEW n \in 0 .. Len(path)
               PROVE  LET p == SubSeq(path, 1, n)
                      IN  ~ (p \in opts.exclude \/ \E g \in opts.exclude_globs : Denotes(g, Elems(p)))
    BY DEF ExcludedPath
  <2>1. PICK m \in Pairs \cup {level} : m.path = SubSeq(path, 1, n)
    BY <1>2, BeginningIsMet
  <2>2. SubSeq(path, 1, n) \in Seq(Steps) /\ Len(SubSeq(path, 1, n)) = n
    BY <1>3
  <2>3. TextBegins(path, m.path) /\ m.path \in Seq(Steps)
    BY <1>3, <2>1, <2>2 DEF TextBegins
  <2>4. ~Excluded(m.path)
    BY <1>4, <2>3, PassedIsNotExcluded
  <2>5. QED
    BY <2>1, <2>3, <2>4, ExcludedIsDenoted
<1>6. ~Includes => ~ExcludedObject(path)
  <2> SUFFICES ASSUME ~Includes, NEW l \in Above(path) PROVE ~ObjectIsExcluded(l)
    BY DEF ExcludedObject, ObjectIsExcluded
  <2>1. l \in Pairs \cup {level} /\ TextBegins(path, l.path)
    BY <1>2, AboveIsMet DEF Above
  <2>2. QED
    BY <1>4, <2>1, PassedIsNotExcluded
<1>7. \/ IncludedPath(path)
      \/ opts.include_globs = {} /\ \E p \in opts.include : TextBegins(p, path)
      \/ opts.include_globs = {} /\ path = <<>>
      \/ IncludesObjects /\ ExcludedPath(path)
  <2>1. CASE ~Includes
    BY <2>1 DEF IncludedPath
  <2>2. CASE Includes /\ opts.include_globs # {}
    <3>1. \A g \in opts.include_globs : MatchOrIsDescendant(g, Elems(path)) <=> DenotesPrefix(g, Elems(path))
      BY <1>3, ElemsAreTyped, PatternsAreTyped, DescendantDenotes
    <3>2. QED
      BY <1>1, <2>2, <3>1 DEF SkipReportForIncludeGlob, IncludedPath
  <2>3. CASE Includes /\ opts.include_globs = {} /\ path # <<>>
    <3>1. RelatedToIncluded(path) \/ (IncludesObjects /\ Excluded(path))
      BY <1>1, <2>3, PassedIsNotExcluded
    <3>2. Excluded(path) => ExcludedPath(path)
      <4>1. SubSeq(path, 1, Len(path)) = path /\ Len(path) \in 0 .. Len(path)
        BY <1>3
      <4>2. QED
        BY <1>3, <4>1, ExcludedIsDenoted DEF ExcludedPath
    <3>3. QED
      BY <2>3, <3>1, <3>2 DEF RelatedToIncluded, IncludedPath
  <2>4. QED
    BY <2>1, <2>2, <2>3
<1>8. QED
  BY <1>1, <1>5, <1>6, <1>7 DEF IsSelected

(* Two dictionaries too different to go deeper into do differ: with the    *)
(* same keys in both, all of them are in common.                           *)
LEMMA TooDifferentDiffers ==
  ASSUME case \in Cases, NEW level \in Pairs, Comparable(level), Type(level.o1) # "list",
         TooDifferent(level)
  PROVE  \E d \in Differences : TextBegins(d, level.path)
<1> DEFINE c == <<case.t1, case.t2>>
           keys1 == Keys(level, level.o1)
           keys2 == Keys(level, level.o2)
<1>1. c \in Compares /\ Pairs = PairsOf[c] /\ Different = DifferencesOf[c]
  BY CaseIsCompared
<1>2. level \in Levels
  BY <1>1, PairsAreClosed
<1>3. Type(level.o1) = Type(level.o2)
  BY DEF Comparable
<1>4. keys1 # keys2
  <2> SUFFICES ASSUME keys1 = keys2 PROVE FALSE
    OBVIOUS
  <2>1. PICK union \in SUBSET (keys1 \cup keys2) :
          100 * Cardinality(keys1 \cap keys2) < 33 * Cardinality(union)
    BY DEF TooDifferent
  <2>2. union \subseteq keys1 /\ keys1 \cap keys2 = keys1
    BY <2>1
  <2>3. IsFiniteSet(keys1)
    BY <1>2, HeapAssumption, FS_Subset DEF Keys, Levels
  <2>4. Cardinality(union) <= Cardinality(keys1) /\ Cardinality(union) \in Nat /\ Cardinality(keys1) \in Nat
    BY <2>2, <2>3, FS_Subset, FS_CardinalityType
  <2>5. 100 * Cardinality(keys1) < 33 * Cardinality(union)
    BY <2>1, <2>2
  <2>6. QED
    BY <2>4, <2>5, SMT
<1>5. /\ keys1 \ keys2 \subseteq Visible(level.o1) \ Visible(level.o2)
      /\ keys2 \ keys1 \subseteq Visible(level.o2) \ Visible(level.o1)
  BY <1>2, <1>3, KeysAreVisible
<1>6. PICK change, s : IsOnlyIn(OnlyIn(level, change, s), level, change, s)
  <2>1. \/ \E s : s \in Visible(level.o1) \ Visible(level.o2)
        \/ \E s : s \in Visible(level.o2) \ Visible(level.o1)
    BY <1>4, <1>5
  <2>2. QED
    BY <2>1 DEF IsOnlyIn
<1> DEFINE item == OnlyIn(level, change, s)
<1>7. item \in Different
  BY <1>1, <1>6, DifferencesAre
<1>8. item.path = Append(level.path, s) /\ level.path \in Seq(Steps) /\ s \in Steps
  BY <1>1, <1>6, OnlyInIsBelow
<1>9. TextBegins(item.path, level.path)
  BY <1>8, BeginsAppend, BeginsWithItself
<1>10. QED
  BY <1>7, <1>9 DEF Differences

(* The filters depend on the arguments of the call alone.                  *)
LEMMA CaseSays ==
  ASSUME case' = case
  PROVE  /\ Pairs' = Pairs
         /\ \A l : SkipThis(l)' <=> SkipThis(l)
         /\ \A p : IsSelected(p)' <=> IsSelected(p)
<1>1. opts' = opts
  BY DEF opts
<1>2. Pairs' = Pairs /\ Different' = Different
  BY DEF Pairs, Different
<1>3. Differences' = Differences
  BY <1>2 DEF Differences
<1>4. (Includes' <=> Includes) /\ (IncludesObjects' <=> IncludesObjects)
  BY <1>1 DEF Includes, IncludesObjects
<1>5. \A l : SkipThis(l)' <=> SkipThis(l)
  BY <1>1, <1>4 DEF SkipThis, RelatedToIncluded, ObjectIsExcluded, ObjectIsIncluded
<1>6. \A p : IsSelected(p)' <=> IsSelected(p)
  BY <1>1, <1>2, <1>3, <1>4 DEF IsSelected, ExcludedPath, ExcludedObject, IncludedPath, Above
<1>7. QED
  BY <1>2, <1>5, <1>6

-----------------------------------------------------------------------------
(* The invariant of the filters.                                           *)

(* What the walk goes through is a pair of objects at one path of both,    *)
(* and it got there through nothing that is skipped.                       *)
Open(l) == \A m \in Pairs : TextBegins(l.path, m.path) => ~SkipThis(m)
OpenAbove(l) == \A m \in Pairs : TextBegins(l.path, m.path) => m = l \/ ~SkipThis(m)

Going(l) == l \in Pairs /\ Comparable(l) /\ Open(l)

SelectInv ==
  /\ \A l \in pending : l \in Pairs /\ OpenAbove(l)
  /\ \A i \in DOMAIN stack : Going(stack[i].level)
  /\ \A r \in reports : IsSelected(r.path)

(* At the start: the two arguments, with no pair above them.               *)
LEMMA SelectInitHolds == Init => SelectInv
<1> SUFFICES ASSUME Init PROVE SelectInv
  OBVIOUS
<1> DEFINE c == <<case.t1, case.t2>>
<1>1. case \in Cases /\ pending = {Root(c)} /\ stack = <<>> /\ reports = {}
  BY DEF Init, Root
<1>2. c \in Compares /\ Pairs = PairsOf[c]
  BY <1>1, CaseIsCompared
<1>3. Root(c) \in Pairs /\ Root(c).path = <<>>
  BY <1>2, PairsAreClosed, RootIsDistinct
<1>4. OpenAbove(Root(c))
  <2> SUFFICES ASSUME NEW m \in Pairs, TextBegins(<<>>, m.path) PROVE m = Root(c)
    BY <1>3 DEF OpenAbove
  <2>1. m.path \in Seq(Steps)
    BY <1>2, PairsAreClosed DEF Levels
  <2>2. Len(m.path) <= Len(<<>>) /\ Len(m.path) \in Nat /\ Len(<<>>) = 0
    BY <2>1 DEF TextBegins
  <2>3. m.path = <<>>
    BY <2>1, <2>2
  <2>4. QED
    BY <1>2, <1>3, <2>3, OnePairAtAPath
<1>5. QED
  BY <1>1, <1>3, <1>4 DEF SelectInv

(* What is left through the filters stays so as long as the call does.     *)
LEMMA OpenStays ==
  ASSUME case' = case, SelectInv,
         \A l \in pending' : l \in Pairs /\ OpenAbove(l),
         \A i \in DOMAIN stack' : Going(stack'[i].level),
         \A r \in reports' : IsSelected(r.path)
  PROVE  SelectInv'
<1>1. \A l : (OpenAbove(l)' <=> OpenAbove(l)) /\ (Going(l)' <=> Going(l))
  BY CaseSays DEF OpenAbove, Going, Open, Comparable
<1>2. Pairs' = Pairs /\ \A p : IsSelected(p)' <=> IsSelected(p)
  BY CaseSays
<1>3. QED
  BY <1>1, <1>2 DEF SelectInv

(* An item of one container only is reported if it is selected.            *)
LEMMA ItemIsSelected ==
  ASSUME case \in Cases, NEW m, Going(m), NEW change, NEW s,
         IsOnlyIn(OnlyIn(m, change, s), m, change, s),
         NEW kind, NEW r \in Reported(kind, OnlyIn(m, change, s))
  PROVE  IsSelected(r.path)
<1> DEFINE c == <<case.t1, case.t2>>
           item == OnlyIn(m, change, s)
<1>1. c \in Compares /\ Pairs = PairsOf[c] /\ Different = DifferencesOf[c] /\ m \in Pairs
  BY CaseIsCompared DEF Going
<1>2. item \in Different
  BY <1>1, DifferencesAre
<1>3. /\ m.path \in Seq(Steps) /\ s \in Steps /\ item.path = Append(m.path, s) /\ item.path \in Seq(Steps)
      /\ s \notin Visible(m.o1) \cap Visible(m.o2)
  BY <1>1, OnlyInIsBelow
<1>4. item.path \in Differences /\ TextBegins(item.path, item.path)
  BY <1>2, <1>3, BeginsWithItself DEF Differences
<1>5. ASSUME NEW l \in Pairs, TextBegins(item.path, l.path)
      PROVE  ~SkipThis(l)
  <2>1. l.path \in Seq(Steps)
    BY <1>1, PairsAreClosed DEF Levels
  <2>2. ~TextBegins(l.path, item.path)
    BY <1>1, <1>3, NoPairBelow
  <2>3. l.path # item.path
    BY <2>1, <2>2, BeginsWithItself
  <2>4. TextBegins(m.path, l.path)
    BY <1>3, <1>5, <2>1, <2>3, BeginsAppend
  <2>5. QED
    BY <2>4 DEF Going, Open
<1> HIDE DEF item
<1>6. QED
  BY <1>2, <1>4, <1>5, ReportIsSelected DEF item

(* A pair that differs, itself or in an item, is reported if it is         *)
(* selected.                                                               *)
LEMMA PairIsSelected ==
  ASSUME case \in Cases, NEW l \in Pairs, OpenAbove(l),
         \/ DifferentItself(l)
         \/ Comparable(l) /\ Type(l.o1) # "list" /\ TooDifferent(l),
         NEW kind, NEW r \in Reported(kind, l)
  PROVE  IsSelected(r.path)
<1> DEFINE c == <<case.t1, case.t2>>
<1>1. c \in Compares /\ Pairs = PairsOf[c] /\ Different = DifferencesOf[c]
  BY CaseIsCompared
<1>2. \E d \in Differences : TextBegins(d, l.path)
  <2>1. CASE DifferentItself(l)
    <3>1. l \in Different /\ l.path \in Seq(Steps)
      BY <1>1, <2>1, DifferencesAre, DifferencesArePaths
    <3>2. QED
      BY <3>1, BeginsWithItself DEF Differences
  <2>2. QED
    BY <2>1, TooDifferentDiffers
<1>3. QED
  BY <1>2, ReportIsSelected DEF OpenAbove

(* The way to an item of both is open if the container is.                 *)
LEMMA ChildIsOpen ==
  ASSUME case \in Cases, NEW m, Going(m), NEW s, NEW l, IsChild(l, m, s)
  PROVE  l \in Pairs /\ OpenAbove(l)
<1> DEFINE c == <<case.t1, case.t2>>
<1>1. c \in Compares /\ Pairs = PairsOf[c] /\ m \in Pairs
  BY CaseIsCompared DEF Going
<1>2. l \in Pairs
  BY <1>1, PairsAreClosed
<1>3. m.path \in Seq(Steps) /\ l.path = Append(m.path, s) /\ s \in Steps
  BY <1>1, PairsAreClosed, ChildIsDeeper DEF Levels
<1>4. ASSUME NEW a \in Pairs, TextBegins(l.path, a.path), a # l
      PROVE  ~SkipThis(a)
  <2>1. a.path \in Seq(Steps)
    BY <1>1, PairsAreClosed DEF Levels
  <2>2. a.path # l.path
    BY <1>1, <1>2, <1>4, OnePairAtAPath
  <2>3. TextBegins(m.path, a.path)
    BY <1>3, <1>4, <2>1, <2>2, BeginsAppend
  <2>4. QED
    BY <2>3 DEF Going, Open
<1>5. QED
  BY <1>2, <1>4 DEF OpenAbove

(* No step reports what is not selected.                                   *)
LEMMA DiffKeepsSelectInv ==
  ASSUME WalkInv, SelectInv, DiffLeaf \/ DiffDict \/ DiffIterable
  PROVE  SelectInv'
<1>1. case \in Cases /\ case' = case /\ pending' = {} /\ pending \subseteq Levels /\ stack \in Seq(Frames)
  BY DEF WalkInv, WalkTypes, DiffLeaf, DiffDict, DiffIterable, Enter
<1>2. PICK l \in pending :
        /\ ~SkipThis(l) /\ l.o1 # l.o2
        /\ \/ /\ stack' = stack
              /\ \A r \in reports' \ reports :
                   \E kind : r \in Reported(kind, l) /\
                     (DifferentItself(l) \/ (Comparable(l) /\ Type(l.o1) # "list" /\ TooDifferent(l)))
           \/ \E work : Enter(l, work) /\ Comparable(l)
  <2>1. CASE DiffLeaf
    BY <2>1 DEF DiffLeaf, Compared, DifferentItself
  <2>2. CASE DiffDict
    BY <2>2 DEF DiffDict, Compared, Comparable
  <2>3. CASE DiffIterable
    BY <2>3 DEF DiffIterable, Compared, Comparable
  <2>4. QED
    BY <2>1, <2>2, <2>3
<1>3. l \in Pairs /\ OpenAbove(l)
  BY DEF SelectInv
<1>4. (\A r \in reports : IsSelected(r.path)) /\ \A i \in DOMAIN stack : Going(stack[i].level)
  BY DEF SelectInv
<1>5. CASE stack' = stack /\ \A r \in reports' \ reports :
                   \E kind : r \in Reported(kind, l) /\
                     (DifferentItself(l) \/ (Comparable(l) /\ Type(l.o1) # "list" /\ TooDifferent(l)))
  <2>1. \A r \in reports' \ reports : IsSelected(r.path)
    BY <1>1, <1>3, <1>5, PairIsSelected
  <2>2. QED
    BY <1>1, <1>4, <1>5, <2>1, OpenStays
<1>6. ASSUME NEW work, Enter(l, work), Comparable(l)
      PROVE  SelectInv'
  <2>1. Going(l)
    BY <1>2, <1>3, <1>6 DEF Going, Open, OpenAbove
  <2>2. stack' = Append(stack, [level |-> l, work |-> work]) /\ reports' = reports
    BY <1>6 DEF Enter
  <2>3. \A i \in DOMAIN stack' : Going(stack'[i].level)
    <3> SUFFICES ASSUME NEW i \in DOMAIN stack' PROVE Going(stack'[i].level)
      OBVIOUS
    <3>1. i \in DOMAIN stack \/ i = Len(stack) + 1
      BY <1>1, <2>2
    <3>2. CASE i \in DOMAIN stack
      <4>1. stack'[i] = stack[i]
        BY <1>1, <2>2, <3>2
      <4>2. QED
        BY <1>4, <3>2, <4>1
    <3>3. CASE i = Len(stack) + 1
      <4>1. stack'[i] = [level |-> l, work |-> work]
        BY <1>1, <2>2, <3>3
      <4>2. QED
        BY <2>1, <4>1
    <3>4. QED
      BY <3>1, <3>2, <3>3
  <2>4. QED
    BY <1>1, <1>4, <2>2, <2>3, OpenStays
<1>7. QED
  BY <1>2, <1>5, <1>6

(* Doing one task of a pair reports what is selected, or descends.         *)
LEMMA TaskKeepsSelectInv ==
  ASSUME WalkInv, SelectInv, ReportItem \/ GoDeeper
  PROVE  SelectInv'
<1>1. NextTask /\ case' = case /\ pending = {} /\ stack # <<>>
  BY DEF ReportItem, GoDeeper, NextTask, Working
<1>2. case \in Cases /\ stack \in Seq(Frames)
  BY DEF WalkInv, WalkTypes
<1>3. (\A r \in reports : IsSelected(r.path)) /\ \A i \in DOMAIN stack : Going(stack[i].level)
  BY DEF SelectInv
<1>4. Going(Top.level)
  <2>1. Len(stack) \in DOMAIN stack
    BY <1>1, <1>2
  <2>2. QED
    BY <1>3, <2>1 DEF Top
<1>5. ASSUME NEW task \in Top.work[1], stack' = WithoutTask(task)
      PROVE  /\ TaskIsOf(task, Top.level) /\ task \in Tasks
             /\ \A i \in DOMAIN stack' : Going(stack'[i].level)
  <2>1. TaskIsOf(task, Top.level) /\ task \in Tasks
    BY <1>1, LeftIsWork
  <2>2. /\ stack' \in Seq(Frames) /\ Len(stack') = Len(stack)
        /\ \A i \in DOMAIN stack : stack'[i].level = stack[i].level
    BY <1>1, <1>5, TaskDone
  <2>3. DOMAIN stack' = DOMAIN stack
    BY <1>2, <2>2
  <2>4. QED
    BY <1>3, <2>1, <2>2, <2>3
<1>6. CASE ReportItem
  <2>1. PICK task \in Top.work[1] :
          /\ task.kind # "common"
          /\ reports' = reports \cup
               Reported(ItemReport(Type(Top.level.o1), task.kind), OnlyIn(Top.level, task.kind, task.step))
          /\ stack' = WithoutTask(task) /\ pending' = pending
    BY <1>6 DEF ReportItem
  <2>2. TaskIsOf(task, Top.level) /\ task \in Tasks /\ \A i \in DOMAIN stack' : Going(stack'[i].level)
    BY <1>5, <2>1
  <2>3. IsOnlyIn(OnlyIn(Top.level, task.kind, task.step), Top.level, task.kind, task.step)
    BY <1>4, <2>1, <2>2 DEF TaskIsOf, ItemsOf, Tasks, IsOnlyIn, Going
  <2>4. \A r \in reports' : IsSelected(r.path)
    BY <1>2, <1>3, <1>4, <2>1, <2>3, ItemIsSelected
  <2>5. QED
    BY <1>1, <2>1, <2>2, <2>4, OpenStays
<1>7. CASE GoDeeper
  <2>1. PICK task \in Top.work[1] :
          /\ task.kind = "common"
          /\ pending' = IF Child(Top.level, task.step).o1 \in Top.level.parents
                        THEN {} ELSE {Child(Top.level, task.step)}
          /\ stack' = WithoutTask(task) /\ reports' = reports
    BY <1>7 DEF GoDeeper
  <2>2. TaskIsOf(task, Top.level) /\ \A i \in DOMAIN stack' : Going(stack'[i].level)
    BY <1>5, <2>1
  <2>3. ASSUME NEW l \in pending' PROVE l \in Pairs /\ OpenAbove(l)
    <3>1. l = Child(Top.level, task.step) /\ l.o1 \notin Top.level.parents
      BY <2>1, <2>3
    <3>2. IsChild(l, Top.level, task.step)
      BY <1>4, <2>1, <2>2, <3>1 DEF IsChild, Child, Level, TaskIsOf, ItemsOf, Going
    <3>3. QED
      BY <1>2, <1>4, <3>2, ChildIsOpen
  <2>4. QED
    BY <1>1, <1>3, <2>1, <2>2, <2>3, OpenStays
<1>8. QED
  BY <1>6, <1>7

(* Every step keeps the selection.                                         *)
LEMMA NextKeepsSelectInv ==
  ASSUME WalkInv, SelectInv, [Next]_vars
  PROVE  SelectInv'
<1>1. stack \in Seq(Frames) /\ \A i \in DOMAIN stack : Going(stack[i].level)
  BY DEF WalkInv, WalkTypes, SelectInv
<1>2. CASE DiffRefused \/ DiffNothing \/ StopContainer \/ Return \/ Finish \/ Finished \/ UNCHANGED vars
  <2>1. /\ case' = case /\ reports' = reports /\ pending' \subseteq pending
        /\ stack' = stack \/ (stack # <<>> /\ stack' = Pop)
    BY <1>2 DEF DiffRefused, DiffNothing, StopContainer, Return, NextTask, Working, Finish, Finished, vars
  <2>2. \A i \in DOMAIN stack' : i \in DOMAIN stack /\ stack'[i] = stack[i]
    BY <1>1, <2>1 DEF Pop
  <2>3. QED
    BY <1>1, <2>1, <2>2, OpenStays DEF SelectInv
<1>3. CASE NextLoop
  <2>1. /\ case' = case /\ reports' = reports /\ pending' = pending /\ stack # <<>>
        /\ stack' = [stack EXCEPT ![Len(stack)].work = Tail(@)]
    BY <1>3 DEF NextLoop, NextTask, Working
  <2>2. \A i \in DOMAIN stack' : i \in DOMAIN stack /\ stack'[i].level = stack[i].level
    BY <1>1, <2>1 DEF Frames
  <2>3. QED
    BY <1>1, <2>1, <2>2, OpenStays DEF SelectInv
<1>4. QED
  BY <1>2, <1>3, DiffKeepsSelectInv, TaskKeepsSelectInv DEF Next

(* What is reported differs, there or below, and is neither excluded nor   *)
(* left out: no report gets past _skip_this at its own level or at one     *)
(* that it is below.                                                       *)
THEOREM ReportsAreSelected == Spec => []OnlySelectedIsReported
<1>1. Init => WalkInv /\ SelectInv
  BY WalkInitHolds, SelectInitHolds
<1>2. (WalkInv /\ SelectInv) /\ [Next]_vars => (WalkInv /\ SelectInv)'
  BY NextKeepsWalkInv, NextKeepsSelectInv
<1>3. SelectInv => OnlySelectedIsReported
  BY DEF SelectInv, OnlySelectedIsReported
<1>4. QED
  BY <1>1, <1>2, <1>3, PTL DEF Spec

-----------------------------------------------------------------------------
(* What is not reported.                                                   *)

(* A beginning, element by element.                                        *)
LEMMA BeginsMeans ==
  ASSUME NEW S, NEW d \in Seq(S), NEW p \in Seq(S)
  PROVE  TextBegins(d, p) <=> Len(p) <= Len(d) /\ \A i \in 1 .. Len(p) : p[i] = d[i]
<1>1. ASSUME Len(p) <= Len(d)
      PROVE  /\ SubSeq(d, 1, Len(p)) \in Seq(S) /\ Len(SubSeq(d, 1, Len(p))) = Len(p)
             /\ \A i \in 1 .. Len(p) : SubSeq(d, 1, Len(p))[i] = d[i]
  BY <1>1
<1>2. ASSUME Len(p) <= Len(d), \A i \in 1 .. Len(p) : p[i] = d[i]
      PROVE  SubSeq(d, 1, Len(p)) = p
  <2> DEFINE b == SubSeq(d, 1, Len(p))
  <2>1. b \in Seq(S) /\ Len(b) = Len(p) /\ \A i \in 1 .. Len(p) : b[i] = p[i]
    BY <1>1, <1>2
  <2> HIDE DEF b
  <2>2. b = p
    BY <2>1, SeqEqual
  <2>3. QED
    BY <2>2 DEF b
<1>3. QED
  BY <1>1, <1>2 DEF TextBegins

(* Of two beginnings of a path the shorter begins the longer.              *)
LEMMA BothBegin ==
  ASSUME NEW S, NEW d \in Seq(S), NEW p \in Seq(S), NEW q \in Seq(S),
         TextBegins(d, p), TextBegins(d, q), Len(p) <= Len(q)
  PROVE  TextBegins(q, p)
<1>1. \A i \in 1 .. Len(p) : p[i] = d[i]
  BY BeginsMeans
<1>2. \A i \in 1 .. Len(q) : q[i] = d[i]
  BY BeginsMeans
<1>3. \A i \in 1 .. Len(p) : p[i] = q[i]
  BY <1>1, <1>2
<1>4. QED
  BY <1>3, BeginsMeans

(* Two beginnings of the same length are the same.                         *)
LEMMA SameBeginning ==
  ASSUME NEW d, NEW p, NEW q, TextBegins(d, p), TextBegins(d, q), Len(p) = Len(q)
  PROVE  p = q
BY DEF TextBegins

(* Two steps from the same path to a path below are the same.              *)
LEMMA SameStep ==
  ASSUME NEW p \in Seq(Steps), NEW s \in Steps, NEW t \in Steps, NEW d,
         TextBegins(d, Append(p, s)), TextBegins(d, Append(p, t))
  PROVE  s = t
<1>1. Len(Append(p, s)) = Len(Append(p, t))
  OBVIOUS
<1>2. Append(p, s) = Append(p, t)
  BY <1>1, SameBeginning
<1>3. QED
  BY ONLY <1>2, p \in Seq(Steps), s \in Steps, t \in Steps, AppendsEqual

(* From a pair to one below it the way goes through a child.               *)
LEMMA PairStep ==
  ASSUME NEW c \in Compares, NEW l \in PairsOf[c], NEW m \in PairsOf[c], TextBegins(m.path, l.path)
  PROVE  m = l \/ \E a \in PairsOf[c] : \E s : IsChild(a, l, s) /\ TextBegins(m.path, a.path)
<1>1. l.path \in Seq(Steps) /\ m.path \in Seq(Steps)
  BY PairsAreClosed DEF Levels
<1>2. Len(l.path) \in Nat /\ Len(m.path) \in Nat /\ Len(l.path) <= Len(m.path)
  BY <1>1 DEF TextBegins
<1>3. CASE Len(l.path) = Len(m.path)
  <2>1. TextBegins(m.path, m.path)
    BY <1>1, BeginsWithItself
  <2>2. l.path = m.path
    BY <1>3, <2>1, SameBeginning
  <2>3. QED
    BY <2>2, OnePairAtAPath
<1>4. CASE Len(l.path) < Len(m.path)
  <2> DEFINE n == Len(l.path) + 1
  <2>1. n \in 0 .. Len(m.path) /\ n \in Nat /\ n > 0
    BY <1>2, <1>4
  <2>2. PICK a \in PairsOf[c] : a.path = SubSeq(m.path, 1, n)
    BY <2>1, BeginningIsPair
  <2>3. Len(a.path) = n /\ a.path \in Seq(Steps) /\ TextBegins(m.path, a.path)
    <3>1. Len(SubSeq(m.path, 1, n)) = n /\ SubSeq(m.path, 1, n) \in Seq(Steps)
      BY <1>1, <2>1
    <3>2. n <= Len(m.path)
      BY <2>1
    <3> HIDE DEF n
    <3>3. QED
      BY <2>2, <3>1, <3>2 DEF TextBegins
  <2>4. a # Root(c)
    <3>1. Len(Root(c).path) = 0
      BY RootIsDistinct
    <3>2. QED
      BY <2>1, <2>3, <3>1
  <2>5. PICK b, s : b \in PairsOf[c] /\ IsChild(a, b, s)
    BY <2>4, PairsAreClosed
  <2>6. /\ b.path \in Seq(Steps) /\ s \in Steps /\ a.path = Append(b.path, s)
        /\ Len(a.path) = Len(b.path) + 1
    BY <2>5, PairsAreClosed, ChildIsDeeper DEF Levels
  <2>7. TextBegins(m.path, b.path)
    <3>1. TextBegins(a.path, b.path)
      BY <2>6, BeginsAppend, BeginsWithItself
    <3>2. QED
      BY <1>1, <2>3, <2>6, <3>1, BeginsTransitively
  <2>8. Len(b.path) = Len(l.path)
    BY <1>2, <2>3, <2>6
  <2>9. b.path = l.path
    BY <2>7, <2>8, SameBeginning
  <2>10. b = l
    BY <2>5, <2>9, OnePairAtAPath
  <2>11. QED
    BY <2>3, <2>5, <2>10
<1>5. QED
  BY <1>2, <1>3, <1>4

(* From a pair to a difference at it or below: the pair differs itself, or *)
(* the way goes through a child, or the difference is one of its items.    *)
LEMMA NextStep ==
  ASSUME NEW c \in Compares, NEW l \in PairsOf[c], NEW d \in DifferencesOf[c],
         TextBegins(d.path, l.path)
  PROVE  \/ d = l /\ DifferentItself(l)
         \/ \E a \in PairsOf[c] : \E s : IsChild(a, l, s) /\ TextBegins(d.path, a.path)
         \/ \E change, s : IsOnlyIn(d, l, change, s)
<1>1. CASE d \in PairsOf[c] /\ DifferentItself(d)
  BY <1>1, PairStep
<1>2. ASSUME NEW m \in PairsOf[c], NEW change, NEW s, IsOnlyIn(d, m, change, s)
      PROVE  \/ \E a \in PairsOf[c] : \E t : IsChild(a, l, t) /\ TextBegins(d.path, a.path)
             \/ IsOnlyIn(d, l, change, s)
  <2>1. /\ m.path \in Seq(Steps) /\ s \in Steps /\ d.path = Append(m.path, s) /\ d.path \in Seq(Steps)
        /\ s \notin Visible(m.o1) \cap Visible(m.o2)
    BY <1>2, OnlyInIsBelow
  <2>2. l.path \in Seq(Steps)
    BY PairsAreClosed DEF Levels
  <2>3. l.path # d.path
    <3>1. ~TextBegins(l.path, d.path)
      BY <2>1, NoPairBelow
    <3>2. QED
      BY <2>2, <3>1, BeginsWithItself
  <2>4. TextBegins(m.path, l.path)
    BY <2>1, <2>2, <2>3, BeginsAppend
  <2>5. CASE m = l
    BY <1>2, <2>5
  <2>6. ASSUME NEW a \in PairsOf[c], NEW t, IsChild(a, l, t), TextBegins(m.path, a.path)
        PROVE  TextBegins(d.path, a.path)
    <3>1. a.path \in Seq(Steps)
      BY PairsAreClosed DEF Levels
    <3>2. QED
      BY <2>1, <2>6, <3>1, BeginsAppend
  <2>7. QED
    BY <2>4, <2>5, <2>6, PairStep
<1>3. QED
  BY <1>1, <1>2, DifferencesAre

(* A beginning of a path is a path.                                        *)
LEMMA BeginningIsPath ==
  ASSUME NEW S, NEW d \in Seq(S), NEW p, Len(p) \in Nat, TextBegins(d, p)
  PROVE  p \in Seq(S)
<1>1. SubSeq(d, 1, Len(p)) \in Seq(S)
  BY DEF TextBegins
<1>2. QED
  BY <1>1 DEF TextBegins

(* The path of a pair leads to its object of t1.                           *)
LEMMA FollowsPair ==
  ASSUME NEW c \in Compares, NEW l \in PairsOf[c]
  PROVE  Follow(c[1], l.path) = l.o1
<1> DEFINE path == l.path
           N == Len(path)
           Body(f) == [n \in 0 .. N |-> IF n = 0 THEN c[1] ELSE Heap[f[n - 1]].items[path[n]]]
           on(n) == CHOOSE m \in PairsOf[c] : m.path = SubSeq(path, 1, n)
           found == [n \in 0 .. N |-> on(n).o1]
           chosen == CHOOSE f : f = Body(f)
<1>1. Follow(c[1], path) = chosen[N]
  BY DEF Follow
<1>2. path \in Seq(Steps) /\ N \in Nat
  BY PairsAreClosed DEF Levels
<1>3. \A n \in 0 .. N : SubSeq(path, 1, n) \in Seq(Steps) /\ Len(SubSeq(path, 1, n)) = n
  BY <1>2
<1>4. \A n \in 0 .. N : on(n) \in PairsOf[c] /\ on(n).path = SubSeq(path, 1, n)
  BY BeginningIsPair
<1>5. on(N) = l
  <2>1. SubSeq(path, 1, N) = path /\ N \in 0 .. N
    BY <1>2
  <2>2. on(N) \in PairsOf[c] /\ on(N).path = path
    BY <1>4, <2>1
  <2> HIDE DEF on
  <2>3. QED
    BY <2>2, OnePairAtAPath
<1> HIDE DEF on
<1>6. on(0).o1 = c[1]
  <2>1. 0 \in 0 .. N
    BY <1>2
  <2>2. Len(on(0).path) = 0 /\ on(0).path \in Seq(Steps) /\ on(0) \in PairsOf[c]
    BY <1>3, <1>4, <2>1
  <2>3. on(0).path = <<>>
    BY <2>2
  <2>4. Root(c).path = <<>> /\ Root(c) \in PairsOf[c]
    BY RootIsDistinct, PairsAreClosed
  <2>5. on(0) = Root(c)
    BY <2>2, <2>3, <2>4, OnePairAtAPath
  <2>6. QED
    BY <2>5 DEF Root, Level
<1>7. ASSUME NEW n \in 1 .. N
      PROVE  on(n).o1 = Heap[on(n - 1).o1].items[path[n]]
  <2> DEFINE a == on(n)
             b == on(n - 1)
  <2>1. n \in 0 .. N /\ n - 1 \in 0 .. N
    BY <1>2
  <2>2. /\ a \in PairsOf[c] /\ a.path = SubSeq(path, 1, n) /\ Len(a.path) = n
        /\ b \in PairsOf[c] /\ b.path = SubSeq(path, 1, n - 1) /\ Len(b.path) = n - 1
    BY <1>3, <1>4, <2>1
  <2> HIDE DEF a, b
  <2>3. a.path \in Seq(Steps) /\ b.path \in Seq(Steps) /\ TextBegins(path, a.path) /\ TextBegins(path, b.path)
    <3>1. a.path \in Seq(Steps) /\ b.path \in Seq(Steps)
      BY <1>3, <2>1, <2>2
    <3>2. n <= Len(path) /\ n - 1 <= Len(path)
      BY <1>2, <2>1
    <3>3. TextBegins(path, a.path)
      BY <2>2, <3>2 DEF TextBegins
    <3>4. TextBegins(path, b.path)
      BY <2>2, <3>2 DEF TextBegins
    <3>5. QED
      BY <3>1, <3>3, <3>4
  <2>4. TextBegins(a.path, b.path)
    <3>1. Len(b.path) <= Len(a.path)
      BY <1>2, <2>2
    <3> HIDE DEF path
    <3>2. QED
      BY <1>2, <2>3, <3>1, BothBegin
  <2>5. b # a
    BY <1>2, <2>2
  <2>6. PICK a2, s : a2 \in PairsOf[c] /\ IsChild(a2, b, s) /\ TextBegins(a.path, a2.path)
    BY <2>2, <2>4, <2>5, PairStep
  <2>7. /\ a2.path = Append(b.path, s) /\ s \in Steps /\ Len(a2.path) = Len(b.path) + 1
        /\ a2.path \in Seq(Steps)
    BY <2>2, <2>6, PairsAreClosed, ChildIsDeeper DEF Levels
  <2>8. Len(a2.path) = Len(a.path)
    BY <1>2, <2>2, <2>7
  <2>9. TextBegins(a.path, a.path)
    BY <2>3, BeginsWithItself
  <2>10. a2.path = a.path
    BY <2>6, <2>8, <2>9, SameBeginning
  <2>11. a2 = a
    BY <2>2, <2>6, <2>10, OnePairAtAPath
  <2>12. path[n] = s
    <3>1. a.path[n] = s
      <4>1. Append(b.path, s)[Len(b.path) + 1] = s
        BY <2>3, <2>7
      <4>2. Len(b.path) + 1 = n
        BY <1>2, <2>2
      <4>3. a.path = Append(b.path, s)
        BY <2>7, <2>10
      <4>4. QED
        BY <4>1, <4>2, <4>3
    <3>2. a.path[n] = path[n]
      BY <1>2, <2>2
    <3>3. QED
      BY <3>1, <3>2
  <2>13. a.o1 = Heap[b.o1].items[s]
    BY <2>6, <2>11 DEF IsChild, Child, Level
  <2>14. QED
    BY <2>12, <2>13 DEF a, b
<1>8. found = Body(found)
  <2>1. \A n \in 0 .. N : on(n).o1 = IF n = 0 THEN c[1] ELSE Heap[found[n - 1]].items[path[n]]
    <3> SUFFICES ASSUME NEW n \in 0 .. N
                 PROVE  on(n).o1 = IF n = 0 THEN c[1] ELSE Heap[found[n - 1]].items[path[n]]
      OBVIOUS
    <3>1. CASE n = 0
      BY <1>6, <3>1
    <3>2. CASE n # 0
      <4>1. n \in 1 .. N /\ n - 1 \in 0 .. N
        BY <1>2, <3>2
      <4>2. found[n - 1] = on(n - 1).o1
        BY <4>1
      <4> HIDE DEF found
      <4>3. QED
        BY <1>7, <3>2, <4>1, <4>2
    <3>3. QED
      BY <3>1, <3>2
  <2>2. QED
    BY <2>1
<1>9. chosen = Body(chosen)
  <2> HIDE DEF Body, found
  <2>1. \E f : f = Body(f)
    BY <1>8
  <2>2. QED
    BY <2>1
<1> HIDE DEF chosen
<1>10. \A n \in 0 .. N : chosen[n] = IF n = 0 THEN c[1] ELSE Heap[chosen[n - 1]].items[path[n]]
  <2> DEFINE val(f, n) == IF n = 0 THEN c[1] ELSE Heap[f[n - 1]].items[path[n]]
  <2>1. chosen = [n \in 0 .. N |-> val(chosen, n)]
    BY <1>9
  <2> HIDE DEF val
  <2>2. \A n \in 0 .. N : chosen[n] = val(chosen, n)
    BY <2>1
  <2>3. QED
    BY <2>2 DEF val
<1> HIDE DEF Body
<1> DEFINE Wrong == { n \in 0 .. N : chosen[n] # on(n).o1 }
<1>11. Wrong = {}
  <2> SUFFICES ASSUME Wrong # {} PROVE FALSE
    OBVIOUS
  <2>1. Wrong \subseteq Nat
    BY <1>2
  <2> HIDE DEF Wrong
  <2>2. PICK n \in Wrong : \A k \in Wrong : n <= k
    BY <2>1, Least
  <2>3. n \in 0 .. N /\ chosen[n] # on(n).o1
    BY DEF Wrong
  <2>4. n # 0
    BY <1>6, <1>10, <2>3
  <2>5. n \in 1 .. N /\ n - 1 \in 0 .. N /\ ~(n <= n - 1)
    BY <1>2, <2>3, <2>4
  <2>6. chosen[n - 1] = on(n - 1).o1
    BY <2>2, <2>5 DEF Wrong
  <2>7. QED
    BY <1>7, <1>10, <2>3, <2>4, <2>5, <2>6
<1>12. N \in 0 .. N
  BY <1>2
<1>13. chosen[N] = on(N).o1
  BY <1>11, <1>12
<1>14. QED
  BY <1>1, <1>5, <1>13

(* A step of a path, and the element of a path that it is.                 *)
LEMMA StepsAreTyped ==
  ASSUME NEW s \in Steps
  PROVE  /\ s \in [rel : {"get", "attr"}, elem : [kind : {"str", "int"}, text : STRING]]
         /\ s.rel = "attr" => s.elem.kind = "str"
BY HeapAssumption DEF Steps

(* A key that is a text is written as it is.                               *)
LEMMA TextIsItself ==
  ASSUME NEW s \in Steps, s.elem.kind = "str"
  PROVE  Str(s.elem.text) = s.elem
<1>1. s.elem \in [kind : {"str", "int"}, text : STRING]
  BY StepsAreTyped
<1>2. QED
  BY <1>1 DEF Str

(* What is above a path that a pattern names is let through, and so is the *)
(* path.                                                                   *)
LEMMA NamedIsRelated ==
  ASSUME case \in Cases, NEW g \in opts.include_globs, NEW d \in Seq(Steps), NEW p \in Seq(Steps),
         TextBegins(d, p), Denotes(g, Elems(d))
  PROVE  MatchOrIsAncestor(g, Elems(p))
<1>1. g \in Seq(AllElements) /\ Elems(d) \in Seq(AllElements) /\ Elems(p) \in Seq(AllElements)
  BY ElemsAreTyped, PatternsAreTyped
<1>2. Len(p) <= Len(d) /\ \A i \in 1 .. Len(p) : p[i] = d[i]
  BY BeginsMeans
<1>3. /\ Len(Elems(d)) = Len(d) /\ Len(Elems(p)) = Len(p)
      /\ \A i \in 1 .. Len(p) : Elems(p)[i] = p[i].elem
      /\ \A i \in 1 .. Len(d) : Elems(d)[i] = d[i].elem
  <2> SUFFICES ASSUME NEW q \in Seq(Steps)
               PROVE  Len(Elems(q)) = Len(q) /\ \A i \in 1 .. Len(q) : Elems(q)[i] = q[i].elem
    OBVIOUS
  <2>1. DOMAIN q = 1 .. Len(q) /\ Len(q) \in Nat
    OBVIOUS
  <2>2. Elems(q) = [i \in 1 .. Len(q) |-> q[i].elem]
    BY <2>1 DEF Elems
  <2>3. QED
    BY <2>1, <2>2
<1>4. \A i \in 1 .. Len(Elems(p)) : Elems(d)[i] = Elems(p)[i]
  BY <1>2, <1>3
<1>5. CASE Len(p) = Len(d)
  <2>1. p = d
    BY <1>2, <1>5, SeqEqual
  <2>2. Match(g, Elems(d))
    BY <1>1, MatchDenotes
  <2>3. QED
    BY <2>1, <2>2 DEF MatchOrIsAncestor
<1>6. CASE Len(p) # Len(d)
  <2>1. Len(Elems(p)) < Len(Elems(d))
    BY <1>2, <1>3, <1>6
  <2>2. CouldMatchDescendant(g, Elems(p))
    BY <1>1, <1>4, <2>1, AboveNamed
  <2>3. QED
    BY <2>2 DEF MatchOrIsAncestor
<1>7. QED
  BY <1>5, <1>6

(* A difference that no filter takes out, as far as they are written well. *)
Wanted(d) ==
  /\ ~ExcludedPath(d.path) /\ ~ExcludedObject(d.path)
  /\ Includes => WellKeyed(d.path)

(* Of two paths that begin a path one begins the other.                    *)
LEMMA OneBegins ==
  ASSUME case \in Cases, NEW d \in Seq(Steps), NEW p \in opts.include, NEW q \in Seq(Steps),
         TextBegins(d, p), TextBegins(d, q)
  PROVE  p \in Seq(Steps) /\ (TextBegins(p, q) \/ TextBegins(q, p))
<1>1. Len(p) \in Nat
  BY CasesAssumption DEF opts
<1>2. p \in Seq(Steps)
  BY <1>1, BeginningIsPath
<1>3. Len(p) <= Len(q) \/ Len(q) <= Len(p)
  BY <1>1
<1>4. QED
  BY <1>2, <1>3, BothBegin

(* Nothing on the way to a wanted difference is skipped, nor itself.       *)
LEMMA WantedIsPassed ==
  ASSUME case \in Cases, ~IncludesObjects, NEW d \in Different, Wanted(d),
         NEW l \in Pairs \cup Different, TextBegins(d.path, l.path)
  PROVE  ~SkipThis(l)
<1> DEFINE c == <<case.t1, case.t2>>
<1>1. c \in Compares /\ Pairs = PairsOf[c] /\ Different = DifferencesOf[c]
  BY CaseIsCompared
<1>2. d.path \in Seq(Steps) /\ l.path \in Seq(Steps)
  BY <1>1, DifferencesArePaths
<1>3. ~Excluded(l.path)
  <2>1. Len(l.path) \in 0 .. Len(d.path) /\ SubSeq(d.path, 1, Len(l.path)) = l.path
    BY <1>2 DEF TextBegins
  <2>2. ~ (l.path \in opts.exclude \/ \E g \in opts.exclude_globs : Denotes(g, Elems(l.path)))
    BY <2>1 DEF Wanted, ExcludedPath
  <2>3. QED
    BY <1>2, <2>2, ExcludedIsDenoted
<1>4. ~ObjectIsExcluded(l)
  BY DEF Wanted, ExcludedObject, ObjectIsExcluded, Above
<1>5. Includes => RelatedToIncluded(l.path)
  <2> SUFFICES ASSUME WellKeyed(d.path) PROVE RelatedToIncluded(l.path)
    BY DEF Wanted
  <2>1. ASSUME NEW p \in opts.include, TextBegins(d.path, p)
        PROVE  TextBegins(l.path, p) \/ TextBegins(p, l.path)
    BY <1>2, <2>1, OneBegins
  <2>2. ASSUME NEW g \in opts.include_globs, Denotes(g, Elems(d.path))
        PROVE  MatchOrIsAncestor(g, Elems(l.path))
    BY <1>2, <2>2, NamedIsRelated
  <2>3. QED
    BY <2>1, <2>2 DEF WellKeyed, RelatedToIncluded
<1>6. QED
  BY <1>3, <1>4, <1>5 DEF SkipThis, Excluded

(* Nor is it too far up for a pattern.                                     *)
LEMMA WantedIsNamed ==
  ASSUME case \in Cases, NEW d \in Different, Wanted(d)
  PROVE  ~SkipReportForIncludeGlob(d.path)
<1>1. d.path \in Seq(Steps)
  BY CaseIsCompared, DifferencesArePaths
<1>2. ASSUME NEW g \in opts.include_globs, Denotes(g, Elems(d.path))
      PROVE  MatchOrIsDescendant(g, Elems(d.path))
  <2>1. g \in Seq(AllElements) /\ Elems(d.path) \in Seq(AllElements)
    BY <1>1, ElemsAreTyped, PatternsAreTyped
  <2>2. DenotesPrefix(g, Elems(d.path))
    <3>1. SubSeq(Elems(d.path), 1, Len(Elems(d.path))) = Elems(d.path)
          /\ Len(Elems(d.path)) \in 0 .. Len(Elems(d.path))
      BY <2>1
    <3>2. QED
      BY <1>2, <3>1 DEF DenotesPrefix
  <2>3. QED
    BY <2>1, <2>2, DescendantDenotes
<1>3. opts.include_globs # {} => WellKeyed(d.path)
  BY DEF Wanted, Includes
<1>4. QED
  BY <1>2, <1>3 DEF SkipReportForIncludeGlob, WellKeyed

(* Nor is a key on the way to it.                                          *)
LEMMA WantedKeyIsPassed ==
  ASSUME case \in Cases, NEW d \in Different, Wanted(d), NEW l \in Pairs, Type(l.o1) # "list",
         NEW s \in Steps, TextBegins(d.path, Append(l.path, s))
  PROVE  ~SkipThisKey(l.path, s)
<1> DEFINE c == <<case.t1, case.t2>>
           n == Len(l.path) + 1
           key_path == Append(l.path, Key(Str(s.elem.text)))
<1>1. c \in Compares /\ Pairs = PairsOf[c] /\ Different = DifferencesOf[c]
  BY CaseIsCompared
<1>2. d.path \in Seq(Steps) /\ l.path \in Seq(Steps) /\ Append(l.path, s) \in Seq(Steps)
  BY <1>1, DifferencesArePaths
<1>3. /\ Len(Append(l.path, s)) = n /\ n \in 1 .. Len(d.path)
      /\ \A i \in 1 .. n : Append(l.path, s)[i] = d.path[i]
  <2>1. Len(Append(l.path, s)) = n /\ n \in Nat /\ n > 0
    BY <1>2
  <2>2. Len(Append(l.path, s)) <= Len(d.path)
        /\ \A i \in 1 .. Len(Append(l.path, s)) : Append(l.path, s)[i] = d.path[i]
    BY <1>2, BeginsMeans
  <2>3. QED
    BY <1>2, <2>1, <2>2
<1>4. d.path[n] = s
  <2>1. Append(l.path, s)[Len(l.path) + 1] = s
    BY <1>2
  <2>2. QED
    BY <1>3, <2>1
<1>5. TextBegins(d.path, l.path)
  <2>1. TextBegins(Append(l.path, s), l.path)
    BY <1>2, BeginsAppend, BeginsWithItself
  <2>2. QED
    BY <1>2, <2>1, BeginsTransitively
<1>6. SubSeq(d.path, 1, n - 1) = l.path
  <2>1. n - 1 = Len(l.path)
    BY <1>2
  <2>2. QED
    BY <1>5, <2>1 DEF TextBegins
<1>7. KeyIsQuoted(d.path, n) => s.elem.kind = "str" /\ s.rel = "get"
  <2>1. Follow(case.t1, l.path) = l.o1
    BY <1>1, FollowsPair
  <2>2. QED
    BY <1>4, <1>6, <2>1 DEF KeyIsQuoted
<1>8. ASSUME s.elem.kind = "str"
      PROVE  Key(Str(s.elem.text)).elem = s.elem
  BY <1>8, TextIsItself DEF Key
<1> SUFFICES ASSUME Includes
             PROVE  \/ \E p \in opts.include : TextBegins(p, key_path) \/ TextBegins(l.path, p)
                    \/ \E g \in opts.include_globs : MatchOrIsAncestor(g, Elems(key_path))
  BY DEF SkipThisKey
<1>9. WellKeyed(d.path)
  BY DEF Wanted
<1>10. ASSUME NEW p \in opts.include, TextBegins(d.path, p), \A i \in DOMAIN p : KeyIsQuoted(d.path, i)
       PROVE  TextBegins(p, key_path) \/ TextBegins(l.path, p)
  <2>1. p \in Seq(Steps)
    BY <1>2, <1>5, <1>10, OneBegins
  <2>2. CASE Len(p) <= Len(l.path)
    BY <1>2, <1>5, <1>10, <2>1, <2>2, BothBegin
  <2>3. CASE ~(Len(p) <= Len(l.path))
    <3>1. n \in DOMAIN p /\ Len(Append(l.path, s)) <= Len(p)
      BY <1>2, <1>3, <2>1, <2>3
    <3>2. s.elem.kind = "str" /\ s.rel = "get"
      BY <1>7, <1>10, <3>1
    <3>3. s \in [rel : {"get", "attr"}, elem : [kind : {"str", "int"}, text : STRING]]
      BY StepsAreTyped
    <3>4. Key(Str(s.elem.text)) = s
      BY <3>2, <3>3, TextIsItself DEF Key
    <3>5. TextBegins(p, Append(l.path, s))
      BY <1>2, <1>10, <2>1, <3>1, BothBegin
    <3>6. QED
      BY <3>4, <3>5
  <2>4. QED
    BY <2>2, <2>3
<1>11. ASSUME NEW g \in opts.include_globs, Denotes(g, Elems(d.path)),
              d.path[n].rel = "attr" \/ KeyIsQuoted(d.path, n)
       PROVE  MatchOrIsAncestor(g, Elems(key_path))
  <2>1. s.elem.kind = "str"
    BY <1>4, <1>7, <1>11, StepsAreTyped
  <2>2. Elems(key_path) = Elems(Append(l.path, s))
    <3> DEFINE q == Append(l.path, s)
    <3>1. Len(key_path) = n /\ Len(q) = n /\ DOMAIN key_path = 1 .. n /\ DOMAIN q = 1 .. n
      BY <1>2
    <3>2. ASSUME NEW i \in 1 .. n
          PROVE  key_path[i].elem = q[i].elem
      <4>1. CASE i = n
        <5>1. key_path[n] = Key(Str(s.elem.text)) /\ q[n] = s
          BY <1>2
        <5>2. QED
          BY <1>8, <2>1, <4>1, <5>1
      <4>2. CASE i # n
        <5>1. i \in 1 .. Len(l.path)
          BY <1>2, <4>2
        <5>2. key_path[i] = l.path[i] /\ q[i] = l.path[i]
          BY <1>2, <5>1
        <5>3. QED
          BY <5>2
      <4>3. QED
        BY <4>1, <4>2
    <3> HIDE DEF q, key_path
    <3>3. QED
      BY <3>1, <3>2 DEF Elems, q
  <2>3. MatchOrIsAncestor(g, Elems(Append(l.path, s)))
    BY <1>2, <1>11, NamedIsRelated
  <2>4. QED
    BY <2>2, <2>3
<1>12. n \in DOMAIN d.path
  BY <1>2, <1>3
<1>13. QED
  BY <1>9, <1>10, <1>11, <1>12 DEF WellKeyed

-----------------------------------------------------------------------------
(* The invariant of completeness.                                          *)

(* A difference is still to be met: in the pair to be compared next, or in *)
(* an item whose turn is to come.                                          *)
InPending(d) == \E l \in pending : TextBegins(d.path, l.path)

IsDueIn(d, work, level) ==
  \E j \in DOMAIN work : \E task \in work[j] : TextBegins(d.path, Append(level.path, task.step))

InStack(d) == \E i \in DOMAIN stack : IsDueIn(d, stack[i].work, stack[i].level)

IsReported(d) == \E r \in reports : TextBegins(d.path, r.path)

Uncut == ~limited /\ ~IncludesObjects /\ ~(opts.threshold /\ opts.include_globs # {})

LossInv ==
  /\ done => pending = {} /\ stack = <<>>
  /\ \A l, m \in pending : l = m
  /\ Uncut => \A d \in Different : Wanted(d) => IsReported(d) \/ InPending(d) \/ InStack(d)

(* At the start everything is to be met in the two arguments.              *)
LEMMA LossInitHolds == Init => LossInv
<1> SUFFICES ASSUME Init PROVE LossInv
  OBVIOUS
<1>1. case \in Cases /\ pending = {Root(<<case.t1, case.t2>>)} /\ done = FALSE
  BY DEF Init, Root
<1>2. Root(<<case.t1, case.t2>>).path = <<>>
  BY DEF Root, Level
<1>3. ASSUME NEW d \in Different
      PROVE  InPending(d)
  <2>1. d.path \in Seq(Steps)
    BY <1>1, CaseIsCompared, DifferencesArePaths
  <2>2. TextBegins(d.path, <<>>)
    BY <2>1 DEF TextBegins
  <2>3. QED
    BY <1>1, <1>2, <2>2 DEF InPending
<1>4. QED
  BY <1>1, <1>3 DEF LossInv

(* What is wanted depends on the arguments of the call alone.              *)
LEMMA CaseWants ==
  ASSUME case' = case
  PROVE  /\ Different' = Different
         /\ \A d : Wanted(d)' <=> Wanted(d)
         /\ limited' = limited => (Uncut' <=> Uncut)
<1>1. opts' = opts
  BY DEF opts
<1>2. Pairs' = Pairs /\ Different' = Different
  BY DEF Pairs, Different
<1>3. (Includes' <=> Includes) /\ (IncludesObjects' <=> IncludesObjects)
  BY <1>1 DEF Includes, IncludesObjects
<1>4. \A d : Wanted(d)' <=> Wanted(d)
  BY <1>1, <1>2, <1>3 DEF Wanted, ExcludedPath, ExcludedObject, Above, WellKeyed, KeyIsQuoted
<1>5. limited' = limited => (Uncut' <=> Uncut)
  BY <1>1, <1>3 DEF Uncut
<1>6. QED
  BY <1>2, <1>4, <1>5

(* A step that cuts nothing short: it is enough to follow each difference. *)
LEMMA LossStays ==
  ASSUME LossInv, case' = case, limited' = limited,
         done' => pending' = {} /\ stack' = <<>>,
         \A l, m \in pending' : l = m,
         ASSUME NEW d \in Different, Uncut, Wanted(d), IsReported(d) \/ InPending(d) \/ InStack(d)
         PROVE  (IsReported(d) \/ InPending(d) \/ InStack(d))'
  PROVE  LossInv'
BY CaseWants DEF LossInv

(* What is wanted below a pair is below one of its items that is compared. *)
LEMMA WantedIsDue ==
  ASSUME case \in Cases, NEW l \in Pairs, NEW d \in Different, Wanted(d),
         TextBegins(d.path, l.path), ~DifferentItself(l)
  PROVE  /\ Comparable(l) /\ Type(l.o1) \in Containers
         /\ \E s \in Steps : /\ TextBegins(d.path, Append(l.path, s))
                             /\ s \in Visible(l.o1) \cup Visible(l.o2)
                             /\ s \in Keys(l, l.o1) \cup Keys(l, l.o2)
<1> DEFINE c == <<case.t1, case.t2>>
<1>1. c \in Compares /\ Pairs = PairsOf[c] /\ Different = DifferencesOf[c]
  BY CaseIsCompared
<1>2. l \in Levels /\ Distinct(l)
  BY <1>1, PairsAreClosed
<1>3. PICK s : /\ Comparable(l) /\ s \in Visible(l.o1) \cup Visible(l.o2)
               /\ s \in Steps /\ TextBegins(d.path, Append(l.path, s))
  <2>1. ASSUME NEW a \in PairsOf[c], NEW s, IsChild(a, l, s), TextBegins(d.path, a.path)
        PROVE  /\ Comparable(l) /\ s \in Visible(l.o1) \cup Visible(l.o2)
               /\ s \in Steps /\ TextBegins(d.path, Append(l.path, s))
    BY <1>2, <2>1, ChildIsDeeper DEF IsChild
  <2>2. ASSUME NEW change, NEW s, IsOnlyIn(d, l, change, s)
        PROVE  /\ Comparable(l) /\ s \in Visible(l.o1) \cup Visible(l.o2)
               /\ s \in Steps /\ TextBegins(d.path, Append(l.path, s))
    <3>1. s \in Steps /\ d.path = Append(l.path, s) /\ d.path \in Seq(Steps)
      BY <1>1, <2>2, OnlyInIsBelow
    <3>2. TextBegins(d.path, d.path)
      BY <3>1, BeginsWithItself
    <3>3. Comparable(l) /\ s \in Visible(l.o1) \cup Visible(l.o2)
      BY <2>2 DEF IsOnlyIn
    <3>4. QED
      BY <3>1, <3>2, <3>3
  <2>3. QED
    BY <1>1, <2>1, <2>2, NextStep
<1>4. Type(l.o1) = Type(l.o2) /\ Type(l.o1) = Heap[l.o1].type /\ Type(l.o2) = Heap[l.o2].type
      /\ l.o1 \in Ids /\ l.o2 \in Ids
  BY <1>2, <1>3, HeapAssumption DEF Comparable, Type, Levels
<1>5. Type(l.o1) \in Containers
  BY <1>3, <1>4, HeapAssumption DEF Visible
<1>6. s \in Keys(l, l.o1) \cup Keys(l, l.o2)
  <2>1. CASE Type(l.o1) = "list"
    BY <1>3, <1>4, <2>1 DEF Keys, Visible
  <2>2. CASE Type(l.o1) # "list"
    <3>1. ~SkipThisKey(l.path, s)
      BY <1>3, <2>2, WantedKeyIsPassed
    <3>2. QED
      BY <1>3, <1>4, <2>2, <3>1 DEF Keys, Visible
  <2>3. QED
    BY <2>1, <2>2
<1>7. QED
  BY <1>3, <1>5, <1>6

(* The work of a function has a task for each item that is compared.       *)
LEMMA DictWorkIsAll ==
  ASSUME NEW level, NEW s \in Keys(level, level.o1) \cup Keys(level, level.o2)
  PROVE  \E j \in DOMAIN DictWork(level) : \E task \in DictWork(level)[j] : task.step = s
<1> DEFINE keys1 == Keys(level, level.o1)
           keys2 == Keys(level, level.o2)
           added == { Task("added", t) : t \in keys2 \ keys1 }
           removed == { Task("removed", t) : t \in keys1 \ keys2 }
           common == { Task("common", t) : t \in keys1 \cap keys2 }
<1>1. DictWork(level) = <<added, removed, common>>
  BY DEF DictWork
<1>2. \E task \in added \cup removed \cup common : task.step = s
  <2>1. \A kind : Task(kind, s).step = s
    BY DEF Task
  <2>2. s \in keys2 \ keys1 \/ s \in keys1 \ keys2 \/ s \in keys1 \cap keys2
    OBVIOUS
  <2>3. CASE s \in keys2 \ keys1
    <3>1. Task("added", s) \in added
      BY <2>3
    <3>2. QED
      BY <2>1, <3>1
  <2>4. CASE s \in keys1 \ keys2
    <3>1. Task("removed", s) \in removed
      BY <2>4
    <3>2. QED
      BY <2>1, <3>1
  <2>5. CASE s \in keys1 \cap keys2
    <3>1. Task("common", s) \in common
      BY <2>5
    <3>2. QED
      BY <2>1, <3>1
  <2>6. QED
    BY <2>2, <2>3, <2>4, <2>5
<1> HIDE DEF added, removed, common
<1>3. QED
  BY <1>1, <1>2

(* And that of two lists one for each position of the longer.              *)
LEMMA ListWorkIsAll ==
  ASSUME NEW level \in Levels, Type(level.o1) = "list", Type(level.o2) = "list",
         NEW s \in Visible(level.o1) \cup Visible(level.o2)
  PROVE  \E j \in DOMAIN ListWork(level) : \E task \in ListWork(level)[j] : task.step = s
<1> DEFINE len1 == Cardinality(DOMAIN Heap[level.o1].items)
           len2 == Cardinality(DOMAIN Heap[level.o2].items)
           longest == IF len1 > len2 THEN len1 ELSE len2
           kind(i) == CASE i > len1 -> "added" [] i > len2 -> "removed" [] OTHER -> "common"
<1>1. level.o1 \in Ids /\ level.o2 \in Ids /\ Heap[level.o1].type = "list" /\ Heap[level.o2].type = "list"
  BY HeapAssumption DEF Type, Levels
<1>2. len1 \in Nat /\ len2 \in Nat
  BY <1>1, HeapAssumption, FS_CardinalityType
<1>3. PICK i \in (1 .. len1) \cup (1 .. len2) : s = Index(i)
  BY <1>1, HeapAssumption DEF Visible
<1>4. i \in 1 .. longest
  BY <1>2, <1>3
<1>5. ListWork(level) = [k \in 1 .. longest |-> {Task(kind(k), Index(k))}]
  BY DEF ListWork
<1> HIDE DEF longest, kind
<1>6. i \in DOMAIN ListWork(level) /\ ListWork(level)[i] = {Task(kind(i), Index(i))}
  BY <1>4, <1>5
<1>7. Task(kind(i), Index(i)).step = s
  BY <1>3 DEF Task
<1>8. QED
  BY <1>6, <1>7

(* The innermost container goes on with work in which what was due is due. *)
LEMMA TopStaysDue ==
  ASSUME stack \in Seq(Frames), stack # <<>>, NEW work,
         stack' = [stack EXCEPT ![Len(stack)].work = work], NEW d, InStack(d),
         IsDueIn(d, Top.work, Top.level) => IsDueIn(d, work, Top.level)
  PROVE  InStack(d)'
<1>1. Len(stack) \in DOMAIN stack /\ DOMAIN stack' = DOMAIN stack
  OBVIOUS
<1>2. \A i \in DOMAIN stack : stack[i] \in Frames
  OBVIOUS
<1>3. \A i \in DOMAIN stack :
        stack'[i] = IF i = Len(stack) THEN [stack[i] EXCEPT !.work = work] ELSE stack[i]
  BY <1>1
<1>4. PICK i \in DOMAIN stack : IsDueIn(d, stack[i].work, stack[i].level)
  BY DEF InStack
<1>5. IsDueIn(d, stack'[i].work, stack'[i].level)
  <2>1. CASE i = Len(stack)
    <3>1. stack'[i].work = work /\ stack'[i].level = Top.level
      BY <1>2, <1>3, <2>1 DEF Frames, Top
    <3>2. IsDueIn(d, work, Top.level)
      BY <1>4, <2>1 DEF Top
    <3>3. QED
      BY <3>1, <3>2
  <2>2. CASE i # Len(stack)
    BY <1>3, <1>4, <2>2
  <2>3. QED
    BY <2>1, <2>2
<1>6. QED
  BY <1>1, <1>4, <1>5 DEF InStack, IsDueIn

(* When a task is taken, what was due is still, or in that very item.      *)
LEMMA TaskIsTaken ==
  ASSUME WalkInv, NextTask, NEW task \in Top.work[1], stack' = WithoutTask(task), NEW d, InStack(d),
         ~TextBegins(d.path, Append(Top.level.path, task.step))
  PROVE  InStack(d)'
<1> DEFINE work == Left(Top.work, task)
<1>1. stack \in Seq(Frames) /\ stack # <<>>
  BY DEF WalkInv, WalkTypes, NextTask, Working
<1>2. Top \in Frames
  BY <1>1 DEF Top
<1>3. Top.work \in Seq(SUBSET Tasks) /\ 1 \in DOMAIN Top.work
  BY <1>2 DEF Frames, NextTask
<1>4. stack' = [stack EXCEPT ![Len(stack)].work = work]
  BY DEF WithoutTask, Top
<1>5. ASSUME NEW j \in DOMAIN Top.work, NEW t \in Top.work[j],
             TextBegins(d.path, Append(Top.level.path, t.step))
      PROVE  j \in DOMAIN work /\ t \in work[j]
  <2>1. t # task
    BY <1>5
  <2>2. QED
    BY <1>3, <1>5, <2>1 DEF Left
<1>6. IsDueIn(d, Top.work, Top.level) => IsDueIn(d, work, Top.level)
  BY <1>5 DEF IsDueIn
<1> HIDE DEF work
<1>7. QED
  BY <1>1, <1>4, <1>6, TopStaysDue

(* A pair has been compared: what is below it is reported or due.          *)
LEMMA PendingIsDone ==
  ASSUME LossInv, case' = case, limited' = limited, done' = done,
         NEW l \in pending, pending' = {}, reports \subseteq reports',
         \A i \in DOMAIN stack : i \in DOMAIN stack' /\ stack'[i] = stack[i],
         ASSUME NEW d \in Different, Uncut, Wanted(d), TextBegins(d.path, l.path)
         PROVE  (IsReported(d) \/ InStack(d))'
  PROVE  LossInv'
<1>1. ~done'
  BY DEF LossInv
<1>2. ASSUME NEW d \in Different, Uncut, Wanted(d), IsReported(d) \/ InPending(d) \/ InStack(d)
      PROVE  (IsReported(d) \/ InPending(d) \/ InStack(d))'
  <2>1. CASE IsReported(d)
    BY <2>1 DEF IsReported
  <2>2. CASE InPending(d)
    <3>1. TextBegins(d.path, l.path)
      BY <2>2 DEF InPending, LossInv
    <3>2. QED
      BY <1>2, <3>1
  <2>3. CASE InStack(d)
    <3>1. PICK i \in DOMAIN stack : IsDueIn(d, stack[i].work, stack[i].level)
      BY <2>3 DEF InStack
    <3>2. i \in DOMAIN stack' /\ stack'[i] = stack[i]
      OBVIOUS
    <3>3. QED
      BY <3>1, <3>2 DEF InStack, IsDueIn
  <2>4. QED
    BY <1>2, <2>1, <2>2, <2>3
<1>3. QED
  BY <1>1, <1>2, LossStays

(* A container has been entered: its work is below those that hold it.     *)
LEMMA EnteredIsDue ==
  ASSUME LossInv, stack \in Seq(Frames), limited' = limited, done' = done,
         NEW l \in pending, NEW work, Enter(l, work),
         ASSUME NEW d \in Different, Uncut, Wanted(d), TextBegins(d.path, l.path)
         PROVE  IsDueIn(d, work, l)
  PROVE  LossInv'
<1>1. /\ stack' = Append(stack, [level |-> l, work |-> work])
      /\ case' = case /\ pending' = {} /\ reports' = reports
  BY DEF Enter
<1>2. \A i \in DOMAIN stack : i \in DOMAIN stack' /\ stack'[i] = stack[i]
  BY <1>1
<1>3. Len(stack) + 1 \in DOMAIN stack' /\ stack'[Len(stack) + 1] = [level |-> l, work |-> work]
  BY <1>1
<1>4. ASSUME NEW d \in Different, Uncut, Wanted(d), TextBegins(d.path, l.path)
      PROVE  InStack(d)'
  <2>1. IsDueIn(d, work, l)
    BY <1>4
  <2>2. stack'[Len(stack) + 1].work = work /\ stack'[Len(stack) + 1].level = l
    BY <1>3
  <2>3. QED
    BY <1>3, <2>1, <2>2 DEF InStack, IsDueIn
<1>5. QED
  BY <1>1, <1>2, <1>4, PendingIsDone

(* A level that is the same object twice, or skipped, holds nothing wanted.*)
LEMMA NothingKeepsLossInv ==
  ASSUME WalkInv, SelectInv, LossInv, DiffNothing
  PROVE  LossInv'
<1>1. PICK l \in pending : l.o1 = l.o2 \/ SkipThis(l)
  BY DEF DiffNothing
<1>2. /\ case' = case /\ limited' = limited /\ done' = done /\ pending' = {}
      /\ reports' = reports /\ stack' = stack
  BY DEF DiffNothing, Counted
<1>3. case \in Cases /\ l \in Pairs
  BY DEF WalkInv, WalkTypes, SelectInv
<1>4. ASSUME NEW d \in Different, Uncut, Wanted(d), TextBegins(d.path, l.path)
      PROVE  FALSE
  <2>1. ~SkipThis(l)
    BY <1>3, <1>4, WantedIsPassed DEF Uncut
  <2>2. l.o1 = l.o2
    BY <1>1, <2>1
  <2>3. ~DifferentItself(l) /\ ~Comparable(l)
    BY <2>2 DEF DifferentItself, Comparable
  <2>4. QED
    BY <1>3, <1>4, <2>3, WantedIsDue
<1>5. QED
  BY <1>1, <1>2, <1>4, PendingIsDone

(* A level is reported unless it is skipped.                               *)
LEMMA ReportedIfWanted ==
  ASSUME NEW kind, NEW l, ~SkipThis(l), ~SkipReportForIncludeGlob(l.path)
  PROVE  \E r \in Reported(kind, l) : r.path = l.path
BY DEF Reported

(* Two values that differ are reported if it is wanted.                    *)
LEMMA LeafKeepsLossInv ==
  ASSUME WalkInv, SelectInv, LossInv, DiffLeaf
  PROVE  LossInv'
<1>1. PICK l \in pending :
        /\ Compared(l) /\ pending' = {}
        /\ Type(l.o1) # Type(l.o2) \/ Type(l.o1) \notin Containers
        /\ reports' = reports \cup
             IF Type(l.o1) # Type(l.o2) THEN Reported("type_changes", l)
             ELSE IF Heap[l.o1].value # Heap[l.o2].value THEN Reported("values_changed", l)
             ELSE {}
  BY DEF DiffLeaf
<1>2. /\ case' = case /\ limited' = limited /\ done' = done
      /\ stack' = stack /\ reports \subseteq reports' /\ ~SkipThis(l)
  BY <1>1 DEF DiffLeaf, Compared, Counted
<1>3. case \in Cases /\ l \in Pairs
  BY DEF WalkInv, WalkTypes, SelectInv
<1>4. ASSUME NEW d \in Different, Uncut, Wanted(d), TextBegins(d.path, l.path)
      PROVE  IsReported(d)'
  <2> DEFINE c == <<case.t1, case.t2>>
  <2>1. c \in Compares /\ Pairs = PairsOf[c] /\ Different = DifferencesOf[c]
    BY <1>3, CaseIsCompared
  <2>2. DifferentItself(l)
    <3>1. ~DifferentItself(l) => Comparable(l) /\ Type(l.o1) \in Containers
      BY <1>3, <1>4, WantedIsDue
    <3>2. QED
      BY <1>1, <3>1 DEF Comparable
  <2>3. d = l
    <3>1. ~Comparable(l) \/ Type(l.o1) \notin Containers
      BY <1>1 DEF Comparable
    <3>2. ASSUME Comparable(l) PROVE Visible(l.o1) = {} /\ Visible(l.o2) = {}
      <4>1. l.o1 \in Ids /\ l.o2 \in Ids
        BY <1>3, <2>1, PairsAreClosed DEF Levels
      <4>2. Heap[l.o1].type \notin Containers /\ Heap[l.o2].type \notin Containers
        BY <3>1, <3>2, <4>1, HeapAssumption DEF Comparable, Type
      <4>3. QED
        BY <4>1, <4>2, HeapAssumption DEF Visible
    <3>3. \A a, s : ~IsChild(a, l, s)
      BY <3>2 DEF IsChild
    <3>4. \A change, s : ~IsOnlyIn(d, l, change, s)
      BY <3>2 DEF IsOnlyIn
    <3>5. QED
      BY <1>3, <1>4, <2>1, <3>3, <3>4, NextStep
  <2>4. ~SkipReportForIncludeGlob(l.path)
    BY <1>3, <1>4, <2>3, WantedIsNamed
  <2>5. \A kind : \E r \in Reported(kind, l) : r.path = l.path
    BY <1>2, <2>4, ReportedIfWanted
  <2>6. \E kind : Reported(kind, l) \subseteq reports'
    BY <1>1, <2>2 DEF DifferentItself
  <2>7. \E r \in reports' : r.path = l.path
    BY <2>5, <2>6
  <2>8. QED
    BY <1>4, <2>7 DEF IsReported
<1>5. QED
  BY <1>1, <1>2, <1>4, PendingIsDone

(* A container is reported as a whole, or what is wanted in it is due.     *)
LEMMA DictKeepsLossInv ==
  ASSUME WalkInv, SelectInv, LossInv, DiffDict
  PROVE  LossInv'
<1>1. PICK l \in pending :
        /\ Compared(l) /\ Type(l.o1) = Type(l.o2) /\ Type(l.o1) \in {"dict", "obj"}
        /\ IF TooDifferent(l)
           THEN /\ reports' = reports \cup Reported("values_changed", l)
                /\ pending' = {}
                /\ UNCHANGED <<case, stack, done>>
           ELSE Enter(l, DictWork(l))
  BY DEF DiffDict
<1>2. limited' = limited /\ ~SkipThis(l)
  BY <1>1 DEF Compared, Counted
<1>3. case \in Cases /\ l \in Pairs /\ stack \in Seq(Frames)
  BY DEF WalkInv, WalkTypes, SelectInv
<1>4. CASE TooDifferent(l)
  <2>1. ASSUME Uncut PROVE \E r \in Reported("values_changed", l) : r.path = l.path
    <3>1. ~SkipReportForIncludeGlob(l.path)
      BY <1>4, <2>1 DEF TooDifferent, Uncut, SkipReportForIncludeGlob
    <3>2. QED
      BY <1>2, <3>1, ReportedIfWanted
  <2>2. ASSUME NEW d \in Different, Uncut, Wanted(d), TextBegins(d.path, l.path)
        PROVE  IsReported(d)'
    <3>1. PICK r \in Reported("values_changed", l) : r.path = l.path
      BY <2>1, <2>2
    <3>2. r \in reports'
      BY <1>1, <1>4
    <3>3. QED
      BY <2>2, <3>1, <3>2 DEF IsReported
  <2>3. QED
    BY <1>1, <1>2, <1>4, <2>2, PendingIsDone
<1>5. CASE Enter(l, DictWork(l))
  <2>1. done' = done
    BY <1>5 DEF Enter
  <2>2. ASSUME NEW d \in Different, Uncut, Wanted(d), TextBegins(d.path, l.path)
        PROVE  IsDueIn(d, DictWork(l), l)
    <3>1. ~DifferentItself(l)
      BY <1>1 DEF DifferentItself, Containers
    <3>2. PICK s \in Keys(l, l.o1) \cup Keys(l, l.o2) : TextBegins(d.path, Append(l.path, s))
      BY <1>3, <2>2, <3>1, WantedIsDue
    <3>3. \E j \in DOMAIN DictWork(l) : \E task \in DictWork(l)[j] : task.step = s
      BY DictWorkIsAll
    <3>4. QED
      BY <3>2, <3>3 DEF IsDueIn
  <2>3. QED
    BY <1>2, <1>3, <1>5, <2>1, <2>2, EnteredIsDue
<1>6. QED
  BY <1>1, <1>4, <1>5

(* The same for two lists, position by position.                           *)
LEMMA IterableKeepsLossInv ==
  ASSUME WalkInv, SelectInv, LossInv, DiffIterable
  PROVE  LossInv'
<1>1. PICK l \in pending :
        Compared(l) /\ Type(l.o1) = "list" /\ Type(l.o2) = "list" /\ Enter(l, ListWork(l))
  BY DEF DiffIterable
<1>2. limited' = limited /\ done' = done
  BY <1>1 DEF Compared, Counted, Enter
<1>3. case \in Cases /\ l \in Pairs /\ l \in Levels /\ stack \in Seq(Frames)
  BY DEF WalkInv, WalkTypes, SelectInv
<1>4. ASSUME NEW d \in Different, Uncut, Wanted(d), TextBegins(d.path, l.path)
      PROVE  IsDueIn(d, ListWork(l), l)
  <2>1. ~DifferentItself(l)
    BY <1>1 DEF DifferentItself, Containers
  <2>2. PICK s \in Visible(l.o1) \cup Visible(l.o2) : TextBegins(d.path, Append(l.path, s))
    BY <1>3, <1>4, <2>1, WantedIsDue
  <2>3. \E j \in DOMAIN ListWork(l) : \E task \in ListWork(l)[j] : task.step = s
    BY <1>1, <1>3, ListWorkIsAll
  <2>4. QED
    BY <2>2, <2>3 DEF IsDueIn
<1>5. QED
  BY <1>1, <1>2, <1>3, <1>4, EnteredIsDue

(* An item of one container only is reported if it is wanted, and nothing  *)
(* else that differs is in it.                                             *)
LEMMA ItemKeepsLossInv ==
  ASSUME WalkInv, SelectInv, LossInv, ReportItem
  PROVE  LossInv'
<1>1. PICK task \in Top.work[1] :
        /\ task.kind # "common" /\ Counted
        /\ reports' = reports \cup
             Reported(ItemReport(Type(Top.level.o1), task.kind), OnlyIn(Top.level, task.kind, task.step))
        /\ stack' = WithoutTask(task)
        /\ UNCHANGED <<case, pending, done>>
  BY DEF ReportItem
<1> DEFINE c == <<case.t1, case.t2>>
           m == Top.level
           item == OnlyIn(m, task.kind, task.step)
<1>2. NextTask /\ pending = {} /\ stack # <<>> /\ stack \in Seq(Frames) /\ case \in Cases /\ ~done
  BY DEF ReportItem, NextTask, Working, WalkInv, WalkTypes, LossInv
<1>3. TaskIsOf(task, m) /\ task \in Tasks
  BY <1>2, LeftIsWork
<1>4. Going(m)
  <2>1. Len(stack) \in DOMAIN stack
    BY <1>2
  <2>2. QED
    BY <2>1 DEF SelectInv, Top
<1>5. c \in Compares /\ Pairs = PairsOf[c] /\ Different = DifferencesOf[c] /\ m \in Pairs
  BY <1>2, <1>4, CaseIsCompared DEF Going
<1> HIDE DEF m
<1>6. IsOnlyIn(item, m, task.kind, task.step)
  BY <1>1, <1>3, <1>4 DEF TaskIsOf, ItemsOf, Tasks, IsOnlyIn, Going
<1>7. ASSUME NEW d \in Different, Uncut, Wanted(d), TextBegins(d.path, Append(m.path, task.step))
      PROVE  IsReported(d)'
  <2>1. /\ m.path \in Seq(Steps) /\ task.step \in Steps /\ item.path = Append(m.path, task.step)
        /\ item.path \in Seq(Steps) /\ task.step \notin Visible(m.o1) \cap Visible(m.o2)
    BY <1>5, <1>6, OnlyInIsBelow
  <2>2. item \in Different /\ item \notin Pairs
    <3>1. item \in Different
      BY <1>5, <1>6, DifferencesAre
    <3>2. TextBegins(item.path, item.path)
      BY <2>1, BeginsWithItself
    <3>3. QED
      BY <1>5, <2>1, <3>1, <3>2, NoPairBelow
  <2>3. item = d
    BY <1>5, <1>7, <2>1, <2>2, AboveIsMet
  <2>4. ~SkipThis(d) /\ ~SkipReportForIncludeGlob(d.path)
    <3>1. TextBegins(d.path, d.path)
      BY <2>1, <2>3, BeginsWithItself
    <3>2. QED
      BY <1>2, <1>7, <3>1, WantedIsPassed, WantedIsNamed DEF Uncut
  <2>5. PICK r \in Reported(ItemReport(Type(m.o1), task.kind), d) : r.path = d.path
    BY <2>4, ReportedIfWanted
  <2>6. r \in reports'
    BY <1>1, <2>3, <2>5 DEF m
  <2>7. TextBegins(d.path, r.path)
    BY <2>1, <2>3, <2>5, BeginsWithItself
  <2>8. QED
    BY <2>6, <2>7 DEF IsReported
<1> HIDE DEF item
<1>8. ASSUME NEW d \in Different, Uncut, Wanted(d), IsReported(d) \/ InPending(d) \/ InStack(d)
      PROVE  (IsReported(d) \/ InPending(d) \/ InStack(d))'
  <2>1. CASE IsReported(d)
    BY <1>1, <2>1 DEF IsReported
  <2>2. CASE InPending(d)
    BY <1>2, <2>2 DEF InPending
  <2>3. CASE InStack(d)
    <3>1. TextBegins(d.path, Append(m.path, task.step)) \/ InStack(d)'
      BY <1>1, <1>2, <2>3, TaskIsTaken DEF m
    <3>2. QED
      BY <1>7, <1>8, <3>1
  <2>4. QED
    BY <1>8, <2>1, <2>2, <2>3
<1>9. QED
  BY <1>1, <1>2, <1>8, LossStays DEF Counted

(* An item of both is next, unless it is on the way to itself: then the    *)
(* reference goes no further either.                                       *)
LEMMA DeeperKeepsLossInv ==
  ASSUME WalkInv, SelectInv, LossInv, GoDeeper
  PROVE  LossInv'
<1>1. PICK task \in Top.work[1] :
        /\ task.kind = "common" /\ Counted
        /\ pending' = IF Child(Top.level, task.step).o1 \in Top.level.parents
                      THEN {} ELSE {Child(Top.level, task.step)}
        /\ stack' = WithoutTask(task)
        /\ UNCHANGED <<case, reports, done>>
  BY DEF GoDeeper
<1> DEFINE c == <<case.t1, case.t2>>
           m == Top.level
<1>2. NextTask /\ pending = {} /\ stack # <<>> /\ stack \in Seq(Frames) /\ case \in Cases /\ ~done
  BY DEF GoDeeper, NextTask, Working, WalkInv, WalkTypes, LossInv
<1>3. TaskIsOf(task, m) /\ task \in Tasks
  BY <1>2, LeftIsWork
<1>4. Going(m)
  <2>1. Len(stack) \in DOMAIN stack
    BY <1>2
  <2>2. QED
    BY <2>1 DEF SelectInv, Top
<1>5. c \in Compares /\ Pairs = PairsOf[c] /\ Different = DifferencesOf[c] /\ m \in Pairs
  BY <1>2, <1>4, CaseIsCompared DEF Going
<1> HIDE DEF m
<1>6. task.step \in Visible(m.o1) \cap Visible(m.o2) /\ task.step \in Steps
  BY <1>1, <1>3 DEF TaskIsOf, ItemsOf, Tasks
<1>7. ASSUME NEW d \in Different, TextBegins(d.path, Append(m.path, task.step))
      PROVE  InPending(d)'
  <2>1. m \in Levels /\ Distinct(m) /\ m.path \in Seq(Steps) /\ d.path \in Seq(Steps)
    BY <1>5, PairsAreClosed, DifferencesArePaths DEF Levels
  <2>2. TextBegins(d.path, m.path) /\ d.path # m.path
    <3>1. TextBegins(Append(m.path, task.step), m.path) /\ Append(m.path, task.step) \in Seq(Steps)
      BY <1>6, <2>1, BeginsAppend, BeginsWithItself
    <3>2. TextBegins(d.path, m.path)
      BY <1>7, <2>1, <3>1, BeginsTransitively
    <3>3. Len(d.path) > Len(m.path)
      <4>1. Len(Append(m.path, task.step)) = Len(m.path) + 1 /\ Len(m.path) \in Nat /\ Len(d.path) \in Nat
        BY <2>1
      <4>2. Len(Append(m.path, task.step)) <= Len(d.path)
        BY <1>7 DEF TextBegins
      <4>3. QED
        BY <4>1, <4>2
    <3>4. QED
      BY <2>1, <3>2, <3>3
  <2>3. PICK a, s : a \in PairsOf[c] /\ IsChild(a, m, s) /\ TextBegins(d.path, a.path)
    <3>1. ASSUME NEW change, NEW s, IsOnlyIn(d, m, change, s) PROVE FALSE
      <4>1. s \in Steps /\ d.path = Append(m.path, s) /\ s \notin Visible(m.o1) \cap Visible(m.o2)
        BY <1>5, <3>1, OnlyInIsBelow
      <4>2. TextBegins(d.path, Append(m.path, s))
        BY <2>1, <4>1, BeginsWithItself
      <4>3. s = task.step
        BY <1>6, <1>7, <2>1, <4>1, <4>2, SameStep
      <4>4. QED
        BY <1>6, <4>1, <4>3
    <3>2. QED
      BY <1>5, <2>2, <3>1, NextStep
  <2>4. s \in Steps /\ a.path = Append(m.path, s)
    BY <2>1, <2>3, ChildIsDeeper
  <2>5. s = task.step
    BY <1>6, <1>7, <2>1, <2>3, <2>4, SameStep
  <2>6. a = Child(m, task.step) /\ a.o1 \notin m.parents
    BY <2>3, <2>5 DEF IsChild, Child, Level
  <2>7. a \in pending'
    BY <1>1, <2>6 DEF m
  <2>8. QED
    BY <2>3, <2>7 DEF InPending
<1>8. ASSUME NEW d \in Different, Uncut, Wanted(d), IsReported(d) \/ InPending(d) \/ InStack(d)
      PROVE  (IsReported(d) \/ InPending(d) \/ InStack(d))'
  <2>1. CASE IsReported(d)
    BY <1>1, <2>1 DEF IsReported
  <2>2. CASE InPending(d)
    BY <1>2, <2>2 DEF InPending
  <2>3. CASE InStack(d)
    <3>1. TextBegins(d.path, Append(m.path, task.step)) \/ InStack(d)'
      BY <1>1, <1>2, <2>3, TaskIsTaken DEF m
    <3>2. QED
      BY <1>7, <3>1
  <2>4. QED
    BY <1>8, <2>1, <2>2, <2>3
<1>9. \A l1, l2 \in pending' : l1 = l2
  BY <1>1
<1>10. QED
  BY <1>1, <1>2, <1>8, <1>9, LossStays DEF Counted

(* A loop is over when nothing is left of it, and a function when nothing  *)
(* is left of its loops.                                                   *)
LEMMA LoopKeepsLossInv ==
  ASSUME WalkInv, LossInv, NextLoop \/ Return
  PROVE  LossInv'
<1>1. /\ stack # <<>> /\ pending = {} /\ pending' = pending /\ case' = case /\ reports' = reports
      /\ limited' = limited /\ done' = done /\ ~done
  BY DEF NextLoop, Return, NextTask, Working, LossInv
<1>2. stack \in Seq(Frames) /\ Len(stack) \in DOMAIN stack /\ Top \in Frames
  BY <1>1 DEF WalkInv, WalkTypes, Top
<1>3. Top.work \in Seq(SUBSET Tasks)
  BY <1>2 DEF Frames
<1>4. ASSUME NEW d \in Different, InStack(d)
      PROVE  InStack(d)'
  <2>1. CASE NextLoop
    <3>1. Top.work # <<>> /\ Top.work[1] = {} /\ stack' = [stack EXCEPT ![Len(stack)].work = Tail(Top.work)]
      BY <2>1 DEF NextLoop, NextTask, Top
    <3>2. ASSUME NEW j \in DOMAIN Top.work, Top.work[j] # {}
          PROVE  j - 1 \in DOMAIN Tail(Top.work) /\ Tail(Top.work)[j - 1] = Top.work[j]
      <4>1. j # 1 /\ j \in 2 .. Len(Top.work)
        BY <1>3, <3>1, <3>2
      <4>2. QED
        BY <1>3, <3>1, <4>1
    <3>3. IsDueIn(d, Top.work, Top.level) => IsDueIn(d, Tail(Top.work), Top.level)
      BY <3>2 DEF IsDueIn
    <3>4. QED
      BY <1>1, <1>2, <1>4, <3>1, <3>3, TopStaysDue
  <2>2. CASE Return
    <3>1. stack' = Pop /\ Top.work = <<>>
      BY <2>2 DEF Return
    <3>2. PICK i \in DOMAIN stack : IsDueIn(d, stack[i].work, stack[i].level)
      BY <1>4 DEF InStack
    <3>3. i # Len(stack)
      BY <3>1, <3>2 DEF IsDueIn, Top
    <3>4. i \in DOMAIN stack' /\ stack'[i] = stack[i]
      BY <1>2, <3>1, <3>3 DEF Pop
    <3>5. QED
      BY <3>2, <3>4 DEF InStack, IsDueIn
  <2>3. QED
    BY <2>1, <2>2
<1>5. ASSUME NEW d \in Different, Uncut, Wanted(d), IsReported(d) \/ InPending(d) \/ InStack(d)
      PROVE  (IsReported(d) \/ InPending(d) \/ InStack(d))'
  BY <1>1, <1>4, <1>5 DEF IsReported, InPending
<1>6. QED
  BY <1>1, <1>5, LossStays

(* No step loses a difference that is wanted.                              *)
LEMMA NextKeepsLossInv ==
  ASSUME WalkInv, SelectInv, LossInv, [Next]_vars
  PROVE  LossInv'
<1>1. CASE DiffRefused \/ StopContainer
  <2>1. limited' = TRUE /\ pending' = {} /\ ~done /\ done' = done
    BY <1>1 DEF DiffRefused, StopContainer, Refused, NextTask, Working, LossInv
  <2>2. QED
    BY <2>1 DEF LossInv, Uncut
<1>2. CASE Finish \/ Finished \/ UNCHANGED vars
  <2>1. /\ case' = case /\ limited' = limited /\ pending' = pending /\ stack' = stack /\ reports' = reports
        /\ done' => pending = {} /\ stack = <<>>
    BY <1>2 DEF Finish, Finished, vars, LossInv
  <2>2. ASSUME NEW d \in Different, IsReported(d) \/ InPending(d) \/ InStack(d)
        PROVE  (IsReported(d) \/ InPending(d) \/ InStack(d))'
    BY <2>1, <2>2 DEF IsReported, InPending, InStack, IsDueIn
  <2>3. \A l, m \in pending' : l = m
    BY <2>1 DEF LossInv
  <2>4. QED
    BY <2>1, <2>2, <2>3, LossStays
<1>3. QED
  BY <1>1, <1>2, NothingKeepsLossInv, LeafKeepsLossInv, DictKeepsLossInv, IterableKeepsLossInv,
     ItemKeepsLossInv, DeeperKeepsLossInv, LoopKeepsLossInv DEF Next

(* What differs and no filter takes out is reported, or an object that     *)
(* holds it is, unless the limit of work was reached: the order of the     *)
(* loops, loops of objects, nested containers and the shortcuts of the     *)
(* filters above an included path lose nothing.                            *)
THEOREM NothingSelectedIsLost == Spec => []SelectedIsReported
<1>1. Init => WalkInv /\ SelectInv /\ LossInv
  BY WalkInitHolds, SelectInitHolds, LossInitHolds
<1>2. (WalkInv /\ SelectInv /\ LossInv) /\ [Next]_vars => (WalkInv /\ SelectInv /\ LossInv)'
  BY NextKeepsWalkInv, NextKeepsSelectInv, NextKeepsLossInv
<1>3. LossInv => SelectedIsReported
  <2> SUFFICES ASSUME LossInv, done, ~limited, ~IncludesObjects, NEW p \in Differences,
                      ~ExcludedPath(p), ~ExcludedObject(p), ~(Includes /\ ~WellKeyed(p)),
                      ~(opts.threshold /\ opts.include_globs # {})
               PROVE  \E r \in reports : TextBegins(p, r.path)
    BY DEF SelectedIsReported
  <2>1. PICK d \in Different : d.path = p
    BY DEF Differences
  <2>2. Uncut /\ Wanted(d) /\ pending = {} /\ stack = <<>>
    BY <2>1 DEF Uncut, Wanted, LossInv
  <2>3. IsReported(d)
    BY <2>2 DEF LossInv, InPending, InStack
  <2>4. QED
    BY <2>1, <2>3 DEF IsReported
<1>4. QED
  BY <1>1, <1>2, <1>3, PTL DEF Spec

-----------------------------------------------------------------------------
(* An empty answer.                                                        *)

Couple(l) == <<l.o1, l.o2>>

(* The rounds in which Distinguished is found.                             *)
Couples == { Level(<<>>, a, b, {}) : a \in Ids, b \in Ids }
Apart == { <<l.o1, l.o2>> : l \in { l \in Couples :
             DifferentItself(l) \/ (Comparable(l) /\ Visible(l.o1) # Visible(l.o2)) } }
Further(before) ==
  { <<l.o1, l.o2>> : l \in { l \in Couples :
      /\ Comparable(l)
      /\ \E s \in Visible(l.o1) \cap Visible(l.o2) :
           <<Heap[l.o1].items[s], Heap[l.o2].items[s]>> \in before } }

(* They are said of couples, and so of any level of them.                  *)
LEMMA RoundsMean ==
  ASSUME NEW l \in Levels
  PROVE  /\ Couple(l) \in Apart <=>
              DifferentItself(l) \/ (Comparable(l) /\ Visible(l.o1) # Visible(l.o2))
         /\ \A before : Couple(l) \in Further(before) <=>
              /\ Comparable(l)
              /\ \E s \in Visible(l.o1) \cap Visible(l.o2) : Couple(Child(l, s)) \in before
<1> DEFINE k == Level(<<>>, l.o1, l.o2, {})
<1>1. k \in Couples /\ k.o1 = l.o1 /\ k.o2 = l.o2
  <2>1. l.o1 \in Ids /\ l.o2 \in Ids
    BY DEF Levels
  <2>2. k \in Couples
    BY <2>1 DEF Couples
  <2>3. k.o1 = l.o1 /\ k.o2 = l.o2
    BY DEF Level
  <2>4. QED
    BY <2>2, <2>3
<1>2. \A m \in Couples : <<m.o1, m.o2>> = Couple(l) => m.o1 = l.o1 /\ m.o2 = l.o2
  BY DEF Couple
<1>3. \A m : m.o1 = l.o1 /\ m.o2 = l.o2 =>
        (Comparable(m) <=> Comparable(l)) /\ (DifferentItself(m) <=> DifferentItself(l))
  BY DEF Comparable, DifferentItself
<1>4. \A s : Couple(Child(l, s)) = <<Heap[l.o1].items[s], Heap[l.o2].items[s]>>
  BY DEF Couple, Child, Level
<1> HIDE DEF k
<1>5. Couple(l) \in Apart <=> DifferentItself(l) \/ (Comparable(l) /\ Visible(l.o1) # Visible(l.o2))
  <2>1. ASSUME Couple(l) \in Apart
        PROVE  DifferentItself(l) \/ (Comparable(l) /\ Visible(l.o1) # Visible(l.o2))
    <3>1. PICK m \in Couples : /\ <<m.o1, m.o2>> = Couple(l)
                               /\ DifferentItself(m) \/ (Comparable(m) /\ Visible(m.o1) # Visible(m.o2))
      BY <2>1 DEF Apart
    <3>2. QED
      BY <1>2, <1>3, <3>1
  <2>2. ASSUME DifferentItself(l) \/ (Comparable(l) /\ Visible(l.o1) # Visible(l.o2))
        PROVE  Couple(l) \in Apart
    <3>1. DifferentItself(k) \/ (Comparable(k) /\ Visible(k.o1) # Visible(k.o2))
      BY <1>1, <1>3, <2>2
    <3>2. <<k.o1, k.o2>> = Couple(l)
      BY <1>1 DEF Couple
    <3>3. QED
      BY <1>1, <3>1, <3>2 DEF Apart
  <2>3. QED
    BY <2>1, <2>2
<1>6. ASSUME NEW before
      PROVE  Couple(l) \in Further(before) <=>
               /\ Comparable(l)
               /\ \E s \in Visible(l.o1) \cap Visible(l.o2) : Couple(Child(l, s)) \in before
  <2>1. ASSUME Couple(l) \in Further(before)
        PROVE  /\ Comparable(l)
               /\ \E s \in Visible(l.o1) \cap Visible(l.o2) : Couple(Child(l, s)) \in before
    <3>1. PICK m \in Couples :
            /\ <<m.o1, m.o2>> = Couple(l) /\ Comparable(m)
            /\ \E s \in Visible(m.o1) \cap Visible(m.o2) :
                 <<Heap[m.o1].items[s], Heap[m.o2].items[s]>> \in before
      BY <2>1 DEF Further
    <3>2. m.o1 = l.o1 /\ m.o2 = l.o2 /\ Comparable(l)
      BY <1>2, <1>3, <3>1
    <3>3. QED
      BY <1>4, <3>1, <3>2
  <2>2. ASSUME Comparable(l), NEW s \in Visible(l.o1) \cap Visible(l.o2), Couple(Child(l, s)) \in before
        PROVE  Couple(l) \in Further(before)
    <3>1. Comparable(k) /\ <<k.o1, k.o2>> = Couple(l)
      BY <1>1, <1>3, <2>2 DEF Couple
    <3>2. \E t \in Visible(k.o1) \cap Visible(k.o2) :
            <<Heap[k.o1].items[t], Heap[k.o2].items[t]>> \in before
      BY <1>1, <1>4, <2>2
    <3>3. QED
      BY <1>1, <3>1, <3>2 DEF Further
  <2>3. QED
    BY <2>1, <2>2
<1>7. QED
  BY <1>5, <1>6

(* Distinguished, unfolded: by the number of rounds.                       *)
LEMMA DistinguishedByRound ==
  \E found \in [0 .. Cardinality(Ids) -> SUBSET (Ids \X Ids)] :
    /\ Distinguished = found[Cardinality(Ids)]
    /\ found[0] = Apart
    /\ \A n \in 1 .. Cardinality(Ids) : found[n] = found[n - 1] \cup Further(found[n - 1])
<1> DEFINE N == Cardinality(Ids)
           S == SUBSET (Ids \X Ids)
           Body(f) == [n \in 0 .. N |-> IF n = 0 THEN Apart ELSE f[n - 1] \cup Further(f[n - 1])]
           chosen == CHOOSE f : f = Body(f)
<1>1. Distinguished = chosen[N]
  BY DEF Distinguished, Apart, Further, Couples
<1>2. N \in Nat
  BY HeapAssumption, FS_CardinalityType
<1>3. Apart \in S /\ \A before : Further(before) \in S
  <2>1. \A m \in Couples : m.o1 \in Ids /\ m.o2 \in Ids
    BY DEF Couples, Level
  <2>2. QED
    BY <2>1 DEF Apart, Further
<1>4. chosen = Body(chosen) /\ chosen \in [0 .. N -> S]
  <2> DEFINE step == [before \in S |-> before \cup Further(before)]
  <2>1. step \in [S -> S]
    <3>1. \A before \in S : before \cup Further(before) \in S
      BY <1>3
    <3> HIDE DEF S
    <3>2. QED
      BY <3>1
  <2> HIDE DEF step, N, S
  <2>2. PICK f \in [0 .. N -> S] :
          \A n \in 0 .. N : f[n] = IF n = 0 THEN Apart ELSE step[f[n - 1]]
    <3> DEFINE a == Apart
               T == S
    <3>1. a \in T /\ step \in [T -> T] /\ N \in Nat
      BY <1>2, <1>3, <2>1
    <3> HIDE DEF a, T, Body, chosen
    <3>2. \E f \in [0 .. N -> T] : \A n \in 0 .. N : f[n] = IF n = 0 THEN a ELSE step[f[n - 1]]
      BY ONLY <3>1, Recursion, SMTT(60)
    <3>3. QED
      BY <3>2 DEF a, T
  <2>3. \A n \in 0 .. N : n # 0 => step[f[n - 1]] = f[n - 1] \cup Further(f[n - 1])
    <3> SUFFICES ASSUME NEW n \in 0 .. N, n # 0
                 PROVE  step[f[n - 1]] = f[n - 1] \cup Further(f[n - 1])
      OBVIOUS
    <3>1. f[n - 1] \in S
      BY <1>2, <2>2
    <3>2. QED
      BY <3>1 DEF step
  <2>4. f = Body(f)
    BY <2>2, <2>3
  <2> HIDE DEF Body
  <2>5. chosen = Body(chosen)
    BY <2>4
  <2> HIDE DEF chosen
  <2>6. \A n \in 0 .. N : chosen[n] = IF n = 0 THEN Apart ELSE chosen[n - 1] \cup Further(chosen[n - 1])
    BY <2>5 DEF Body
  <2>7. \A n \in 0 .. N : chosen[n] \in S
    <3> DEFINE Wrong == { n \in 0 .. N : chosen[n] \notin S }
    <3> SUFFICES ASSUME Wrong # {} PROVE FALSE
      OBVIOUS
    <3>1. Wrong \subseteq Nat
      BY <1>2
    <3> HIDE DEF Wrong
    <3>2. PICK n \in Wrong : \A k \in Wrong : n <= k
      BY <3>1, Least
    <3>3. n \in 0 .. N /\ chosen[n] \notin S
      BY DEF Wrong
    <3>4. n # 0
      BY <1>3, <2>6, <3>3
    <3>5. n - 1 \in 0 .. N /\ ~(n <= n - 1)
      BY <1>2, <3>3, <3>4
    <3>6. chosen[n - 1] \in S
      BY <3>2, <3>5 DEF Wrong
    <3>7. chosen[n - 1] \cup Further(chosen[n - 1]) \in S
      BY <1>3, <3>6 DEF S
    <3>8. QED
      BY <2>6, <3>3, <3>4, <3>7
  <2>8. chosen \in [0 .. N -> S]
    BY <2>5, <2>7 DEF Body
  <2>9. QED
    BY <2>5, <2>8 DEF Body
<1> HIDE DEF chosen, S
<1>5. \A n \in 0 .. N : chosen[n] = IF n = 0 THEN Apart ELSE chosen[n - 1] \cup Further(chosen[n - 1])
  BY <1>4
<1>6. 0 \in 0 .. N /\ \A n \in 1 .. N : n \in 0 .. N /\ n # 0
  BY <1>2
<1>7. chosen[0] = Apart /\ \A n \in 1 .. N : chosen[n] = chosen[n - 1] \cup Further(chosen[n - 1])
  BY <1>5, <1>6
<1>8. QED
  BY <1>1, <1>4, <1>7 DEF S

(* The objects on the way to a pair are those of t1 of the pairs above it. *)
LEMMA ParentsAreMet ==
  ASSUME NEW c \in Compares, NEW l \in PairsOf[c], NEW o \in l.parents
  PROVE  \E m \in PairsOf[c] : TextBegins(l.path, m.path) /\ m.o1 = o
<1> DEFINE Lengths == { n \in Nat : \E a \in PairsOf[c] :
                          Len(a.path) = n /\ TextBegins(l.path, a.path) /\ o \in a.parents }
<1>1. l \in Levels /\ l.path \in Seq(Steps)
  BY PairsAreClosed DEF Levels
<1>2. Lengths # {} /\ Lengths \subseteq Nat
  <2>1. TextBegins(l.path, l.path) /\ Len(l.path) \in Nat
    BY <1>1, BeginsWithItself
  <2>2. QED
    BY <2>1
<1> HIDE DEF Lengths
<1>3. PICK n \in Lengths : \A k \in Lengths : n <= k
  BY <1>2, Least
<1>4. PICK a \in PairsOf[c] : Len(a.path) = n /\ TextBegins(l.path, a.path) /\ o \in a.parents
  BY DEF Lengths
<1>5. CASE a = Root(c)
  <2>1. a.parents = {a.o1}
    BY <1>5 DEF Root, Level
  <2>2. QED
    BY <1>4, <2>1
<1>6. CASE a # Root(c)
  <2>1. PICK b, s : b \in PairsOf[c] /\ IsChild(a, b, s)
    BY <1>6, PairsAreClosed
  <2>2. /\ a.path = Append(b.path, s) /\ s \in Steps /\ Len(a.path) = Len(b.path) + 1
        /\ b.path \in Seq(Steps) /\ a.path \in Seq(Steps)
    BY <2>1, PairsAreClosed, ChildIsDeeper DEF Levels
  <2>3. a.parents = b.parents \cup {a.o1}
    BY <2>1 DEF IsChild, Child, Level
  <2>4. TextBegins(l.path, b.path)
    <3>1. TextBegins(a.path, b.path)
      BY <2>2, BeginsAppend, BeginsWithItself
    <3>2. QED
      BY <1>1, <1>4, <2>2, <3>1, BeginsTransitively
  <2>5. o \notin b.parents
    <3>1. Len(b.path) \in Nat /\ ~(n <= Len(b.path))
      BY <1>4, <2>2
    <3>2. Len(b.path) \notin Lengths
      BY <1>3, <3>1
    <3>3. QED
      BY <2>1, <2>4, <3>1, <3>2 DEF Lengths
  <2>6. QED
    BY <1>4, <2>3, <2>5
<1>7. QED
  BY <1>5, <1>6

(* A pair that is apart is a difference, itself or in an item.             *)
LEMMA ApartDiffers ==
  ASSUME NEW c \in Compares
  PROVE  DifferencesOf[c] # {} <=> \E l \in PairsOf[c] : Couple(l) \in Apart
<1>1. ASSUME NEW l \in PairsOf[c], Couple(l) \in Apart
      PROVE  DifferencesOf[c] # {}
  <2>1. l \in Levels
    BY PairsAreClosed
  <2>2. CASE DifferentItself(l)
    BY <2>2, DifferencesAre
  <2>3. CASE Comparable(l) /\ Visible(l.o1) # Visible(l.o2)
    <3>1. \/ \E s : s \in Visible(l.o1) \ Visible(l.o2)
          \/ \E s : s \in Visible(l.o2) \ Visible(l.o1)
      BY <2>3
    <3>2. PICK change, s : IsOnlyIn(OnlyIn(l, change, s), l, change, s)
      BY <2>3, <3>1 DEF IsOnlyIn
    <3>3. QED
      BY <3>2, DifferencesAre
  <2>4. QED
    BY <1>1, <2>1, <2>2, <2>3, RoundsMean
<1>2. ASSUME NEW d \in DifferencesOf[c]
      PROVE  \E l \in PairsOf[c] : Couple(l) \in Apart
  <2>1. CASE d \in PairsOf[c] /\ DifferentItself(d)
    BY <2>1, PairsAreClosed, RoundsMean
  <2>2. ASSUME NEW m \in PairsOf[c], NEW change, NEW s, IsOnlyIn(d, m, change, s)
        PROVE  Couple(m) \in Apart
    <3>1. m \in Levels
      BY PairsAreClosed
    <3>2. Comparable(m) /\ Visible(m.o1) # Visible(m.o2)
      BY <2>2 DEF IsOnlyIn
    <3>3. QED
      BY <3>1, <3>2, RoundsMean
  <2>3. QED
    BY <2>1, <2>2, DifferencesAre
<1>3. QED
  BY <1>1, <1>2

(* What differs below distinguishes all that is above.                     *)
LEMMA DifferentIsDistinguished ==
  ASSUME NEW c \in Compares, DifferencesOf[c] # {}
  PROVE  c \in Distinguished
<1> DEFINE N == Cardinality(Ids)
<1>1. N \in Nat
  BY HeapAssumption, FS_CardinalityType
<1>2. PICK found \in [0 .. N -> SUBSET (Ids \X Ids)] :
        /\ Distinguished = found[N]
        /\ found[0] = Apart
        /\ \A n \in 1 .. N : found[n] = found[n - 1] \cup Further(found[n - 1])
  BY DistinguishedByRound
<1> HIDE DEF N
<1>3. ASSUME NEW n \in 0 .. N
      PROVE  Apart \subseteq found[n]
  <2> DEFINE Wrong == { k \in 0 .. N : ~(Apart \subseteq found[k]) }
  <2> SUFFICES ASSUME Wrong # {} PROVE FALSE
    OBVIOUS
  <2>1. Wrong \subseteq Nat
    BY <1>1
  <2> HIDE DEF Wrong
  <2>2. PICK k \in Wrong : \A j \in Wrong : k <= j
    BY <2>1, Least
  <2>3. k \in 0 .. N /\ ~(Apart \subseteq found[k])
    BY DEF Wrong
  <2>4. k \in 1 .. N /\ k - 1 \in 0 .. N /\ ~(k <= k - 1)
    BY <1>1, <1>2, <2>3
  <2>5. Apart \subseteq found[k - 1]
    BY <2>2, <2>4 DEF Wrong
  <2>6. QED
    BY <1>2, <2>3, <2>4, <2>5
<1> DEFINE Lengths == { n \in 0 .. N : \E l \in PairsOf[c] : Len(l.path) = n /\ Couple(l) \in found[N - n] }
<1>4. Lengths # {} /\ Lengths \subseteq Nat
  <2>1. PICK l \in PairsOf[c] : Couple(l) \in Apart
    BY ApartDiffers
  <2>2. l \in Levels /\ Distinct(l)
    BY PairsAreClosed
  <2>3. Cardinality(l.parents) <= N
    BY <2>2, HeapAssumption, FS_Subset DEF Levels, N
  <2>4. Len(l.path) \in 0 .. N /\ N - Len(l.path) \in 0 .. N
    BY <1>1, <2>2, <2>3 DEF Distinct, Levels
  <2>5. Couple(l) \in found[N - Len(l.path)]
    BY <1>3, <2>1, <2>4
  <2>6. Len(l.path) \in Lengths
    BY <2>4, <2>5
  <2>7. Lengths \subseteq Nat
    BY <1>1
  <2> HIDE DEF Lengths
  <2>8. QED
    BY <2>6, <2>7
<1> HIDE DEF Lengths
<1>5. PICK n \in Lengths : \A k \in Lengths : n <= k
  BY <1>4, Least
<1>6. n \in 0 .. N /\ \E l \in PairsOf[c] : Len(l.path) = n /\ Couple(l) \in found[N - n]
  BY DEF Lengths
<1>7. PICK l \in PairsOf[c] : Len(l.path) = n /\ Couple(l) \in found[N - n]
  BY <1>6
<1>8. l = Root(c)
  <2> SUFFICES ASSUME l # Root(c) PROVE FALSE
    OBVIOUS
  <2>1. PICK b, s : b \in PairsOf[c] /\ IsChild(l, b, s)
    BY PairsAreClosed
  <2>2. b \in Levels /\ Distinct(b) /\ Len(b.path) \in Nat
    BY <2>1, PairsAreClosed DEF Levels
  <2>3. Len(l.path) = Len(b.path) + 1
    BY <2>1, <2>2, ChildIsDeeper
  <2>4. Couple(b) \in Further(found[N - n])
    <3>1. Couple(Child(b, s)) \in found[N - n]
      BY <1>7, <2>1 DEF IsChild
    <3>2. QED
      BY <2>1, <2>2, <3>1, RoundsMean DEF IsChild
  <2>5. n \in 1 .. N /\ Len(b.path) = n - 1 /\ N - (n - 1) \in 1 .. N /\ N - (n - 1) - 1 = N - n
    BY <1>1, <1>6, <1>7, <2>2, <2>3
  <2>6. Couple(b) \in found[N - (n - 1)]
    BY <1>2, <2>4, <2>5
  <2>7. n - 1 \in Lengths
    BY <1>1, <2>1, <2>5, <2>6 DEF Lengths
  <2>8. QED
    BY <1>5, <2>5, <2>7
<1>9. n = 0
  BY <1>7, <1>8, RootIsDistinct
<1>10. Couple(l) = c
  BY <1>8 DEF Root, Level, Couple, Compares
<1>11. N - n = N
  BY <1>1, <1>9
<1>12. QED
  BY <1>2, <1>7, <1>10, <1>11

(* What is distinguished differs at a pair, unless a loop hides it.        *)
LEMMA DistinguishedIsDifferent ==
  ASSUME case \in Cases, ~UnevenLoop, <<case.t1, case.t2>> \in Distinguished
  PROVE  Different # {}
<1> DEFINE N == Cardinality(Ids)
           c == <<case.t1, case.t2>>
<1>1. c \in Compares /\ Pairs = PairsOf[c] /\ Different = DifferencesOf[c]
  BY CaseIsCompared
<1>2. N \in Nat
  BY HeapAssumption, FS_CardinalityType
<1>3. PICK found \in [0 .. N -> SUBSET (Ids \X Ids)] :
        /\ Distinguished = found[N]
        /\ found[0] = Apart
        /\ \A n \in 1 .. N : found[n] = found[n - 1] \cup Further(found[n - 1])
  BY DistinguishedByRound
<1> HIDE DEF N
<1> DEFINE Rounds == { n \in 0 .. N : \E l \in Pairs : Couple(l) \in found[n] }
<1>4. Rounds # {} /\ Rounds \subseteq Nat
  <2>1. Root(c) \in Pairs /\ Couple(Root(c)) = c
    BY <1>1, PairsAreClosed DEF Root, Level, Couple
  <2>2. N \in 0 .. N
    BY <1>2
  <2>3. Couple(Root(c)) \in found[N]
    BY <1>3, <2>1
  <2> HIDE DEF c
  <2>4. QED
    BY <2>1, <2>2, <2>3
<1> HIDE DEF Rounds
<1>5. PICK n \in Rounds : \A k \in Rounds : n <= k
  BY <1>4, Least
<1>6. n \in 0 .. N /\ \E l \in Pairs : Couple(l) \in found[n]
  BY DEF Rounds
<1>7. PICK l \in Pairs : Couple(l) \in found[n]
  BY <1>6
<1>8. n = 0
  <2> SUFFICES ASSUME n # 0 PROVE FALSE
    OBVIOUS
  <2>1. n \in 1 .. N /\ n - 1 \in 0 .. N /\ ~(n <= n - 1)
    BY <1>2, <1>6
  <2>2. \A m \in Pairs : Couple(m) \notin found[n - 1]
    BY <1>5, <2>1 DEF Rounds
  <2>3. Couple(l) \in Further(found[n - 1])
    BY <1>3, <1>7, <2>1, <2>2
  <2>4. l \in Levels
    BY <1>1, PairsAreClosed
  <2>5. PICK s \in Visible(l.o1) \cap Visible(l.o2) : Comparable(l) /\ Couple(Child(l, s)) \in found[n - 1]
    BY <2>3, <2>4, RoundsMean
  <2>6. Child(l, s).o1 = Heap[l.o1].items[s]
    BY DEF Child, Level
  <2>7. CASE Child(l, s).o1 \notin l.parents
    <3>1. IsChild(Child(l, s), l, s)
      BY <2>5, <2>6, <2>7 DEF IsChild
    <3>2. Child(l, s) \in Pairs
      BY <1>1, <3>1, PairsAreClosed
    <3>3. QED
      BY <2>2, <2>5, <3>2
  <2>8. CASE Child(l, s).o1 \in l.parents
    <3>1. PICK m \in Pairs : TextBegins(l.path, m.path) /\ m.o1 = Child(l, s).o1
      BY <1>1, <2>8, ParentsAreMet
    <3>2. m \in Above(l.path)
      BY <3>1 DEF Above
    <3>3. m.o2 = Child(l, s).o2
      BY <2>5, <3>1, <3>2 DEF UnevenLoop
    <3>4. Couple(m) = Couple(Child(l, s))
      BY <3>1, <3>3 DEF Couple
    <3>5. QED
      BY <2>2, <2>5, <3>4
  <2>9. QED
    BY <2>7, <2>8
<1>9. Couple(l) \in Apart
  BY <1>3, <1>7, <1>8
<1>10. QED
  BY <1>1, <1>9, ApartDiffers

(* An empty answer, with no filter and no limit reached, is right, and only*)
(* then is the answer empty: two graphs of objects are reported as the same*)
(* just when nothing below them differs, however deep and through whatever *)
(* loops, as long as t1 closes none where t2 goes on (parents_ids).        *)
THEOREM SilenceIsSameness == Spec => []SilentMeansSame
<1>1. Init => WalkInv /\ SelectInv /\ LossInv
  BY WalkInitHolds, SelectInitHolds, LossInitHolds
<1>2. (WalkInv /\ SelectInv /\ LossInv) /\ [Next]_vars => (WalkInv /\ SelectInv /\ LossInv)'
  BY NextKeepsWalkInv, NextKeepsSelectInv, NextKeepsLossInv
<1>3. WalkInv /\ SelectInv /\ LossInv => SilentMeansSame
  <2> SUFFICES ASSUME WalkInv, SelectInv, LossInv, done, ~limited, Unfiltered, ~UnevenLoop
               PROVE  reports = {} <=> <<case.t1, case.t2>> \notin Distinguished
    BY DEF SilentMeansSame
  <2> DEFINE c == <<case.t1, case.t2>>
  <2>1. case \in Cases /\ c \in Compares /\ Different = DifferencesOf[c]
    BY CaseIsCompared DEF WalkInv, WalkTypes
  <2>2. Uncut
    BY DEF Uncut, Unfiltered, Includes
  <2>3. ASSUME NEW d \in Different
        PROVE  Wanted(d)
    BY DEF Wanted, Unfiltered, ExcludedPath, ExcludedObject, Objects
  <2>4. ASSUME NEW d \in Different
        PROVE  reports # {}
    <3>1. IsReported(d)
      BY <2>2, <2>3 DEF LossInv, InPending, InStack
    <3>2. QED
      BY <3>1 DEF IsReported
  <2>5. ASSUME NEW r \in reports
        PROVE  Different # {}
    BY <2>5 DEF SelectInv, IsSelected, Differences
  <2>6. Different # {} <=> c \in Distinguished
    BY <2>1, DifferentIsDistinguished, DistinguishedIsDifferent
  <2>7. QED
    BY <2>4, <2>5, <2>6
<1>4. QED
  BY <1>1, <1>2, <1>3, PTL DEF Spec

=============================================================================
