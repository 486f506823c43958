------------------------ MODULE PairSelectionProofs ------------------------
(***************************************************************************)
(* Proofs about PairSelection, for any items, distances and cutoff, and    *)
(* any order of the pops.                                                  *)
(*                                                                         *)
(* That the dictionary is symmetrical holds only at the end: before, it is *)
(* one to one because a to_hash is paired only while unused and is marked  *)
(* used then.  That no near pair is overlooked needs a note, for every     *)
(* near pair, of where it still waits to be tried.  That the closest come  *)
(* first needs the order of the distances, and that a hash that ended      *)
(* unused found all that is near it taken.                                 *)
(***************************************************************************)
EXTENDS PairSelection, TLAPS

(* The inverse completes a one-to-one near choice to a pairing.            *)
LEMMA InverseIsPairing ==
  ASSUME NEW added, NEW removed, NEW near, NEW chosen,
         added \cap removed = {},
         DOMAIN chosen \subseteq added,
         \A a \in DOMAIN chosen : chosen[a] \in removed /\ <<a, chosen[a]>> \in near,
         \A a, b \in DOMAIN chosen : chosen[a] = chosen[b] => a = b
  PROVE  IsPairing(WithInverse(chosen), added, removed, near)
<1> DEFINE p == WithInverse(chosen)
<1>1. DOMAIN p = DOMAIN chosen \cup Range(chosen)
  BY DEF WithInverse
<1>2. \A a \in DOMAIN chosen : a \in DOMAIN p /\ p[a] = chosen[a]
  BY DEF WithInverse
<1>3. ASSUME NEW a \in DOMAIN chosen
      PROVE  chosen[a] \in DOMAIN p /\ p[chosen[a]] = a
  <2>1. chosen[a] \in Range(chosen)
    BY DEF Range
  <2>2. chosen[a] \notin DOMAIN chosen
    OBVIOUS
  <2>3. p[chosen[a]] = CHOOSE b \in DOMAIN chosen : chosen[b] = chosen[a]
    BY <2>1, <2>2 DEF WithInverse
  <2>4. \A b \in DOMAIN chosen : chosen[b] = chosen[a] <=> b = a
    OBVIOUS
  <2>5. p[chosen[a]] = a
    BY <2>3, <2>4
  <2>6. QED
    BY <2>1, <2>5, <1>1
<1>4. \A h \in DOMAIN p : h \in DOMAIN chosen \/ \E a \in DOMAIN chosen : h = chosen[a]
  BY <1>1 DEF Range
<1>5. DOMAIN p \subseteq added \cup removed
  BY <1>4
<1>6. \A h \in DOMAIN p : p[h] \in DOMAIN p /\ p[p[h]] = h
  BY <1>2, <1>3, <1>4
<1>7. ASSUME NEW h \in DOMAIN p \cap added PROVE <<h, p[h]>> \in near
  <2>1. h \in DOMAIN chosen
    BY <1>4, \A a \in DOMAIN chosen : chosen[a] \notin added
  <2>2. p[h] = chosen[h]
    BY <2>1, <1>2
  <2>3. QED
    BY <2>1, <2>2
<1>8. \A h \in DOMAIN p \cap removed : p[h] \in added
  BY <1>3, <1>4
<1>9. QED
  BY <1>5, <1>6, <1>7, <1>8 DEF IsPairing

(* The grouping by distance never holds a pair that is not near.           *)
GroupInv ==
  /\ phase = "measure" => toHashes = [a \in Added |-> [d \in Distances |-> {}]]
  /\ \A a \in Added, d \in Distances : \A r \in toHashes[a][d] :
       <<a, r>> \in Near /\ distance[<<a, r>>] = d

(* The selection so far is one to one, near, and marked as used.           *)
ChosenInv ==
  /\ phase # "done" =>
       /\ DOMAIN pairs \subseteq Added
       /\ \A a \in DOMAIN pairs : pairs[a] \in used /\ <<a, pairs[a]>> \in Near
       /\ \A a, b \in DOMAIN pairs : pairs[a] = pairs[b] => a = b
  /\ SelectsAPairing

(* A near pair has been tried, or waits in both groupings, or is in hand.  *)
Waits(a, r, d) ==
  /\ r \in toHashes[a][d]
  /\ a \in fromHashes[d] \/ (current = a /\ currentDist = d)

TriedInv ==
  /\ phase # "select" => current = NoHash
  /\ phase = "done" => NearPairsAreTried
  /\ phase = "select" => \A a \in Added, r \in Removed :
       <<a, r>> \in Near => \/ a \in used \/ r \in used
                           \/ Waits(a, r, distance[<<a, r>>])

PairInv == TypeOK /\ GroupInv /\ ChosenInv /\ TriedInv

(* r was taken by an added hash that is at least as near to it as a.       *)
TakenFirst(a, r) ==
  \E b \in used \cap Added :
    r \in used /\ <<b, r>> \in Near /\ distance[<<b, r>>] <= distance[<<a, r>>]

(* The distances are worked through in their order.                        *)
InOrder == \A d \in Distances : d < currentDist => fromHashes[d] = {}

(* What is used was taken at the present distance or before.               *)
UsedWereNear ==
  \A r \in used \cap Removed : \E b \in used \cap Added :
    <<b, r>> \in Near /\ distance[<<b, r>>] <= currentDist

(* Only a match at the present distance makes the hash in hand a used one. *)
MatchedInHand ==
  current \in used =>
    current \in DOMAIN pairs /\ distance[<<current, pairs[current]>>] = currentDist

(* What an unused added hash no longer waits for was taken first.          *)
LeftWereTaken ==
  \A a \in Added \ used, r \in Removed :
    <<a, r>> \in Near => Waits(a, r, distance[<<a, r>>]) \/ TakenFirst(a, r)

(* And so was all that is nearer than the partner of a paired one.         *)
NearerWereTaken ==
  \A a \in Added \cap DOMAIN pairs, r \in Removed :
    <<a, r>> \in Near /\ distance[<<a, r>>] < distance[<<a, pairs[a]>>] => TakenFirst(a, r)

ClosestInv ==
  /\ phase = "measure" => used = {} /\ pairs = NoPairs /\ currentDist = 0
  /\ phase = "select" => InOrder /\ UsedWereNear /\ MatchedInHand /\ LeftWereTaken
  /\ NearerWereTaken

-----------------------------------------------------------------------------
(* What is near is an added and a removed hash.                            *)
LEMMA NearFacts ==
  ASSUME NEW a, NEW r, <<a, r>> \in Near
  PROVE  a \in Added /\ r \in Removed
  BY DEF Near

(* Inverting a near one-to-one selection makes a pairing.                   *)
LEMMA SelectedIsPairing ==
  ASSUME NEW chosen,
         DOMAIN chosen \subseteq Added,
         \A a \in DOMAIN chosen : <<a, chosen[a]>> \in Near,
         \A a, b \in DOMAIN chosen : chosen[a] = chosen[b] => a = b
  PROVE  IsPairing(WithInverse(chosen), Added, Removed, Near)
<1>1. \A a \in DOMAIN chosen : chosen[a] \in Removed
  BY NearFacts
<1>2. QED
  BY <1>1, InverseIsPairing, PairAssumption

(* Nothing is measured or chosen to begin with.                            *)
LEMMA PairInit == Init => PairInv
<1> SUFFICES ASSUME Init PROVE PairInv
  OBVIOUS
<1>1. TypeOK
  BY PairAssumption DEF Init, TypeOK, Distances, NoPairs
<1>2. GroupInv /\ ChosenInv /\ TriedInv
  BY DEF Init, GroupInv, ChosenInv, TriedInv, NoPairs, SelectsAPairing
<1> QED BY <1>1, <1>2 DEF PairInv

(* Every step keeps the types.                                             *)
LEMMA PairTypeStep == PairInv /\ [Next]_vars => TypeOK'
<1> SUFFICES ASSUME PairInv, [Next]_vars PROVE TypeOK'
  OBVIOUS
<1>0. TypeOK /\ GroupInv /\ ChosenInv
  BY DEF PairInv
<1> USE <1>0 DEF TypeOK, input
<1>1. CASE Measure
  <2>1. toHashes' \in [Added -> [Distances -> SUBSET Removed]]
    BY <1>1 DEF Measure
  <2>2. fromHashes' \in [Distances -> SUBSET Added]
    BY <1>1 DEF Measure
  <2> QED BY <1>1, <2>1, <2>2 DEF Measure
<1>2. ASSUME NEW d \in Distances, NEW a \in Added, PopFrom(d, a) PROVE TypeOK'
  BY <1>2 DEF PopFrom
<1>3. ASSUME NEW r \in Removed, PopTo(r) PROVE TypeOK'
  <2>1. current \in Added
    BY <1>3 DEF PopTo
  <2>2. toHashes' \in [Added -> [Distances -> SUBSET Removed]]
    <3>1. toHashes[current][currentDist] \ {r} \in SUBSET Removed
      BY <2>1
    <3> QED BY <1>3, <2>1, <3>1 DEF PopTo
  <2>3. used' \subseteq Added \cup Removed
    BY <1>3, <2>1 DEF PopTo
  <2>4. /\ DOMAIN pairs' \subseteq Added \cup Removed
        /\ \A h \in DOMAIN pairs' : pairs'[h] \in Added \cup Removed
    BY <1>3, <2>1 DEF PopTo
  <2> QED BY <1>3, <2>2, <2>3, <2>4 DEF PopTo
<1>4. CASE DropFrom
  BY <1>4 DEF DropFrom
<1>5. CASE Invert
  <2>1. IsPairing(WithInverse(pairs), Added, Removed, Near)
    BY <1>5, SelectedIsPairing DEF Invert, ChosenInv
  <2>2. /\ DOMAIN pairs' \subseteq Added \cup Removed
        /\ \A h \in DOMAIN pairs' : pairs'[h] \in Added \cup Removed
    BY <1>5, <2>1 DEF Invert, IsPairing
  <2> QED BY <1>5, <2>2 DEF Invert
<1>6. CASE UNCHANGED vars
  BY <1>6 DEF vars
<1> QED BY <1>1, <1>2, <1>3, <1>4, <1>5, <1>6 DEF Next, Finished

(* Every step keeps a group of equal distances within what is near.        *)
LEMMA GroupStep == PairInv /\ [Next]_vars => GroupInv'
<1> SUFFICES ASSUME PairInv, [Next]_vars PROVE GroupInv'
  OBVIOUS
<1>0. TypeOK /\ GroupInv
  BY DEF PairInv
<1> USE <1>0 DEF input
<1>1. CASE Measure
  BY <1>1 DEF Measure, GroupInv, Near
<1>2. ASSUME NEW r \in Removed, PopTo(r) PROVE GroupInv'
  <2>1. /\ current \in Added /\ currentDist \in Distances /\ phase' = phase
        /\ toHashes' = [toHashes EXCEPT ![current][currentDist] = @ \ {r}]
        /\ Near' = Near /\ distance' = distance
    BY <1>2 DEF PopTo, TypeOK, Near
  <2>2. \A a \in Added, d \in Distances : toHashes'[a][d] \subseteq toHashes[a][d]
    BY <2>1 DEF TypeOK
  <2>3. phase # "measure"
    BY <1>2 DEF PopTo, GroupInv, TypeOK
  <2> QED BY <2>1, <2>2, <2>3 DEF GroupInv
<1>3. CASE UNCHANGED <<toHashes, distance, looped>> /\ (phase' = "measure" => phase = "measure")
  BY <1>3 DEF GroupInv, Near
<1> QED
  BY <1>1, <1>2, <1>3 DEF Next, Finished, vars, PopFrom, AtDistance, DropFrom, Invert

(* Every step keeps the selection one-to-one.                              *)
LEMMA ChosenStep == PairInv /\ [Next]_vars => ChosenInv'
<1> SUFFICES ASSUME PairInv, [Next]_vars PROVE ChosenInv'
  OBVIOUS
<1>0. TypeOK /\ GroupInv /\ ChosenInv
  BY DEF PairInv
<1> USE <1>0 DEF input
<1>1. ASSUME NEW r \in Removed, PopTo(r) PROVE ChosenInv'
  <2>1. /\ current \in Added /\ currentDist \in Distances
        /\ <<current, r>> \in Near /\ phase' = phase /\ Near' = Near
    BY <1>1 DEF PopTo, TypeOK, GroupInv, Near
  <2>2. phase # "done"
    BY <1>1 DEF PairInv, TriedInv, PopTo
  <2>3. CASE r \in used
    BY <1>1, <2>1, <2>2, <2>3 DEF PopTo, ChosenInv, SelectsAPairing
  <2>4. CASE r \notin used
    <3>1. /\ DOMAIN pairs' = DOMAIN pairs \cup {current}
          /\ pairs'[current] = r
          /\ \A a \in DOMAIN pairs \ {current} : pairs'[a] = pairs[a]
          /\ used' = used \cup {current, r}
      BY <1>1, <2>4 DEF PopTo
    <3>2. \A a \in DOMAIN pairs : pairs[a] # r
      BY <2>2, <2>4 DEF ChosenInv
    <3> QED BY <2>1, <2>2, <3>1, <3>2 DEF ChosenInv, SelectsAPairing
  <2> QED BY <2>3, <2>4
<1>2. CASE Invert
  <2>1. IsPairing(WithInverse(pairs), Added, Removed, Near)
    BY <1>2, SelectedIsPairing DEF Invert, ChosenInv
  <2>2. Near' = Near
    BY <1>2 DEF Invert, Near
  <2> QED BY <1>2, <2>1, <2>2 DEF Invert, ChosenInv, SelectsAPairing
<1>3. CASE /\ UNCHANGED <<pairs, used, distance, looped>>
           /\ phase # "done" => phase' # "done"
           /\ phase = "done" => phase' = "done"
  <2>1. Near' = Near
    BY <1>3 DEF Near
  <2> QED BY <1>3, <2>1 DEF ChosenInv, SelectsAPairing
<1> QED
  BY <1>1, <1>2, <1>3 DEF Next, Finished, vars, Measure, PopFrom, AtDistance, DropFrom

(* Every step keeps what was tried, and nothing is tried twice.            *)
LEMMA TriedStep == PairInv /\ [Next]_vars => TriedInv'
<1> SUFFICES ASSUME PairInv, [Next]_vars PROVE TriedInv'
  OBVIOUS
<1>0. TypeOK /\ GroupInv /\ TriedInv
  BY DEF PairInv
<1> USE <1>0 DEF input
<1>n. Near' = Near /\ distance' = distance
  BY DEF Near, Next, Finished, vars, Measure, PopFrom, PopTo, DropFrom, Invert
<1>d. \A a, r : <<a, r>> \in Near =>
        a \in Added /\ r \in Removed /\ distance[<<a, r>>] \in Distances
  BY DEF Near, TypeOK
<1>1. CASE Measure
  <2>1. \A a \in Added, r \in Removed :
          <<a, r>> \in Near => Waits(a, r, distance[<<a, r>>])'
    BY <1>1, <1>d, <1>n DEF Measure, Waits
  <2> QED BY <1>1, <1>n, <2>1 DEF Measure, TriedInv
<1>2. ASSUME NEW d \in Distances, NEW b \in Added, PopFrom(d, b) PROVE TriedInv'
  <2>0. /\ phase = "select" /\ phase' = "select" /\ used' = used /\ toHashes' = toHashes
        /\ current = NoHash /\ fromHashes' = [fromHashes EXCEPT ![d] = @ \ {b}]
    BY <1>2 DEF PopFrom, AtDistance
  <2>1. ASSUME NEW a \in Added, NEW r \in Removed, <<a, r>> \in Near,
               a \notin used, r \notin used
        PROVE  Waits(a, r, distance[<<a, r>>])'
    <3>1. Waits(a, r, distance[<<a, r>>])
      BY <2>0, <2>1 DEF TriedInv
    <3>2. a \in fromHashes[distance[<<a, r>>]] /\ a # NoHash
      BY <2>0, <3>1, PairAssumption DEF Waits
    <3>3. CASE a = b /\ distance[<<a, r>>] = d
      BY <1>2, <1>n, <2>1, <3>1, <3>3 DEF PopFrom, Waits
    <3>4. CASE ~(a = b /\ distance[<<a, r>>] = d)
      <4>1. a \in fromHashes'[distance[<<a, r>>]]
        BY <2>0, <2>1, <3>2, <3>4, <1>d DEF TypeOK
      <4> QED BY <4>1, <3>1, <2>0, <1>n DEF Waits
    <3> QED BY <3>3, <3>4
  <2> QED BY <2>0, <2>1, <1>n DEF TriedInv
<1>3. ASSUME NEW t \in Removed, PopTo(t) PROVE TriedInv'
  <2>0. /\ current \in Added /\ currentDist \in Distances
        /\ phase = "select" /\ phase' = "select" /\ used \subseteq used'
        /\ fromHashes' = fromHashes /\ UNCHANGED <<current, currentDist>>
        /\ toHashes' = [toHashes EXCEPT ![current][currentDist] = @ \ {t}]
        /\ t \in used'
    BY <1>3 DEF PopTo, TypeOK, TriedInv
  <2>1. ASSUME NEW a \in Added, NEW r \in Removed, <<a, r>> \in Near,
               a \notin used', r \notin used'
        PROVE  Waits(a, r, distance[<<a, r>>])'
    <3>1. Waits(a, r, distance[<<a, r>>]) /\ r # t
      BY <2>0, <2>1 DEF TriedInv
    <3>2. r \in toHashes'[a][distance[<<a, r>>]]
      BY <2>0, <2>1, <3>1, <1>d DEF TypeOK, Waits
    <3> QED BY <2>0, <3>1, <3>2, <1>n DEF Waits
  <2> QED BY <2>0, <2>1, <1>n DEF TriedInv
<1>4. CASE DropFrom
  <2>0. /\ phase = "select" /\ phase' = "select" /\ used' = used /\ toHashes' = toHashes
        /\ fromHashes' = fromHashes /\ toHashes[current][currentDist] = {}
    BY <1>4 DEF DropFrom, TriedInv
  <2>1. ASSUME NEW a \in Added, NEW r \in Removed, <<a, r>> \in Near,
               a \notin used, r \notin used
        PROVE  Waits(a, r, distance[<<a, r>>])'
    BY <2>0, <2>1, <1>n DEF TriedInv, Waits
  <2> QED BY <2>0, <2>1, <1>n DEF TriedInv
<1>5. CASE Invert
  <2>1. ASSUME NEW a \in Added, NEW r \in Removed, <<a, r>> \in Near
        PROVE  a \in used \/ r \in used
    BY <1>5, <2>1, <1>d, PairAssumption DEF Invert, TriedInv, Waits
  <2>2. \A p \in Near : p[1] \in used \/ p[2] \in used
    BY <2>1 DEF Near
  <2> QED BY <1>5, <1>n, <2>2 DEF Invert, TriedInv, NearPairsAreTried
<1>6. CASE UNCHANGED vars
  BY <1>6, <1>n DEF vars, TriedInv, NearPairsAreTried, Waits
<1> QED BY <1>1, <1>2, <1>3, <1>4, <1>5, <1>6 DEF Next, Finished

(* Every step keeps the order of the distances, and with it who was first. *)
LEMMA ClosestStep == PairInv /\ ClosestInv /\ [Next]_vars => ClosestInv'
<1> SUFFICES ASSUME PairInv, ClosestInv, [Next]_vars PROVE ClosestInv'
  OBVIOUS
<1>0. TypeOK /\ GroupInv /\ ChosenInv /\ TriedInv /\ TypeOK' /\ Distances \subseteq Nat
  BY PairTypeStep DEF PairInv, Distances
<1>n. Near' = Near /\ distance' = distance
  BY DEF input, Near, Next, Finished, vars, Measure, PopFrom, PopTo, DropFrom, Invert
<1>d. \A a, r : <<a, r>> \in Near =>
        a \in Added /\ r \in Removed /\ distance[<<a, r>>] \in Distances
  BY <1>0 DEF Near, TypeOK
<1>t. used \subseteq used' => \A a, r : TakenFirst(a, r) => TakenFirst(a, r)'
  BY <1>n DEF TakenFirst
<1>1. CASE Measure
  <2>1. /\ phase = "measure" /\ phase' = "select" /\ UNCHANGED <<used, pairs, currentDist, current>>
        /\ used = {} /\ pairs = NoPairs /\ currentDist = 0 /\ current = NoHash
    BY <1>1, <1>0 DEF Measure, ClosestInv, TriedInv
  <2>2. LeftWereTaken'
    <3>1. \A a \in Added, r \in Removed : <<a, r>> \in Near => Waits(a, r, distance[<<a, r>>])'
      BY <1>1, <1>d, <1>n DEF Measure, Waits
    <3>2. QED
      BY <3>1, <1>n DEF LeftWereTaken
  <2>3. InOrder'
    <3>1. \A d \in Distances : d \in Nat /\ ~(d < 0)
      BY <1>0
    <3>2. QED
      BY <2>1, <3>1 DEF InOrder
  <2>4. UsedWereNear' /\ MatchedInHand'
    BY <2>1 DEF UsedWereNear, MatchedInHand
  <2>5. NearerWereTaken'
    BY <2>1 DEF NearerWereTaken, NoPairs
  <2>6. QED
    BY <2>1, <2>2, <2>3, <2>4, <2>5 DEF ClosestInv
<1>2. ASSUME NEW d \in Distances, NEW b \in Added, PopFrom(d, b) PROVE ClosestInv'
  <2>1. /\ phase = "select" /\ phase' = "select" /\ current = NoHash
        /\ UNCHANGED <<used, pairs, toHashes>>
        /\ fromHashes[d] # {} /\ fromHashes' = [fromHashes EXCEPT ![d] = @ \ {b}]
        /\ \A e \in Distances : e < d => fromHashes[e] = {}
        /\ IF b \in used THEN UNCHANGED <<current, currentDist>> ELSE current' = b /\ currentDist' = d
    BY <1>2 DEF PopFrom, AtDistance
  <2>2. InOrder /\ UsedWereNear /\ LeftWereTaken /\ NearerWereTaken
    BY <2>1 DEF ClosestInv
  <2>3. currentDist <= d /\ currentDist <= currentDist' /\ currentDist' <= d
    <3>1. currentDist \in Nat /\ d \in Nat /\ currentDist <= d
      BY <1>0, <2>1, <2>2 DEF InOrder, TypeOK
    <3>2. QED
      BY <2>1, <3>1
  <2>4. InOrder'
    <3>1. \A e \in Distances : e < currentDist' => e < d
      BY <1>0, <2>3 DEF TypeOK
    <3>2. \A e \in Distances : e < d => fromHashes'[e] = {}
      BY <1>0, <2>1 DEF TypeOK
    <3>3. QED
      BY <3>1, <3>2 DEF InOrder
  <2>5. UsedWereNear'
    <3> SUFFICES ASSUME NEW r \in used \cap Removed
                 PROVE  \E c \in used \cap Added : <<c, r>> \in Near /\ distance[<<c, r>>] <= currentDist'
      BY <2>1, <1>n DEF UsedWereNear
    <3>1. PICK c \in used \cap Added : <<c, r>> \in Near /\ distance[<<c, r>>] <= currentDist
      BY <2>2 DEF UsedWereNear
    <3>2. distance[<<c, r>>] \in Nat /\ currentDist \in Nat /\ currentDist' \in Nat
      BY <1>0, <1>d, <3>1 DEF TypeOK
    <3>3. distance[<<c, r>>] <= currentDist'
      BY <2>3, <3>1, <3>2
    <3>4. QED
      BY <3>1, <3>3
  <2>6. MatchedInHand'
    BY <2>1, <1>0, PairAssumption DEF MatchedInHand, TypeOK
  <2>7. LeftWereTaken'
    <3> SUFFICES ASSUME NEW a \in Added \ used, NEW r \in Removed, <<a, r>> \in Near
                 PROVE  Waits(a, r, distance[<<a, r>>])' \/ TakenFirst(a, r)'
      BY <2>1, <1>n DEF LeftWereTaken
    <3>1. CASE TakenFirst(a, r)
      BY <2>1, <3>1, <1>t
    <3>2. CASE Waits(a, r, distance[<<a, r>>])
      <4>1. a \in fromHashes[distance[<<a, r>>]]
        BY <2>1, <3>2, PairAssumption DEF Waits
      <4>2. CASE a = b /\ distance[<<a, r>>] = d
        BY <2>1, <1>n, <3>2, <4>2 DEF Waits
      <4>3. CASE ~(a = b /\ distance[<<a, r>>] = d)
        <5>1. a \in fromHashes'[distance[<<a, r>>]]
          BY <1>0, <1>d, <2>1, <4>1, <4>3 DEF TypeOK
        <5>2. QED
          BY <1>n, <2>1, <3>2, <5>1 DEF Waits
      <4>4. QED
        BY <4>2, <4>3
    <3>3. QED
      BY <2>2, <3>1, <3>2 DEF LeftWereTaken
  <2>8. NearerWereTaken'
    BY <2>1, <2>2, <1>n, <1>t DEF NearerWereTaken
  <2>9. QED
    BY <2>1, <2>4, <2>5, <2>6, <2>7, <2>8 DEF ClosestInv
<1>3. ASSUME NEW t \in Removed, PopTo(t) PROVE ClosestInv'
  <2>1. /\ current \in Added /\ currentDist \in Distances /\ t \in toHashes[current][currentDist]
        /\ phase = "select" /\ phase' = "select" /\ UNCHANGED <<fromHashes, current, currentDist>>
        /\ toHashes' = [toHashes EXCEPT ![current][currentDist] = @ \ {t}]
    BY <1>0, <1>3 DEF PopTo, TypeOK, TriedInv
  <2>2. InOrder /\ UsedWereNear /\ MatchedInHand /\ LeftWereTaken /\ NearerWereTaken
    BY <2>1 DEF ClosestInv
  <2>3. <<current, t>> \in Near /\ distance[<<current, t>>] = currentDist
    BY <1>0, <2>1 DEF GroupInv
  <2>4. InOrder'
    BY <2>1, <2>2 DEF InOrder
  <2>5. \A a \in Added, r \in Removed : <<a, r>> \in Near /\ Waits(a, r, distance[<<a, r>>]) =>
          \/ Waits(a, r, distance[<<a, r>>])'
          \/ a = current /\ r = t /\ distance[<<a, r>>] = currentDist
    <3> SUFFICES ASSUME NEW a \in Added, NEW r \in Removed, <<a, r>> \in Near,
                        Waits(a, r, distance[<<a, r>>]),
                        ~(a = current /\ r = t /\ distance[<<a, r>>] = currentDist)
                 PROVE  Waits(a, r, distance[<<a, r>>])'
      OBVIOUS
    <3>1. r \in toHashes'[a][distance[<<a, r>>]]
      BY <1>0, <1>d, <2>1 DEF TypeOK, Waits
    <3>2. QED
      BY <2>1, <1>n, <3>1 DEF Waits
  <2>6. CASE t \in used
    <3>1. UNCHANGED <<used, pairs>>
      BY <1>3, <2>6 DEF PopTo
    <3>2. TakenFirst(current, t)
      BY <2>2, <2>3, <2>6 DEF UsedWereNear, TakenFirst
    <3>3. LeftWereTaken'
      BY <1>n, <1>t, <2>2, <2>5, <3>1, <3>2 DEF LeftWereTaken
    <3>4. UsedWereNear' /\ MatchedInHand' /\ NearerWereTaken'
      BY <1>n, <1>t, <2>1, <2>2, <3>1 DEF UsedWereNear, MatchedInHand, NearerWereTaken
    <3>5. QED
      BY <2>1, <2>4, <3>3, <3>4 DEF ClosestInv
  <2>7. CASE t \notin used
    <3>1. /\ DOMAIN pairs' = DOMAIN pairs \cup {current} /\ pairs'[current] = t
          /\ \A a \in DOMAIN pairs \ {current} : pairs'[a] = pairs[a]
          /\ used' = used \cup {current, t}
      BY <1>3, <2>7 DEF PopTo
    <3>2. UsedWereNear'
      <4> SUFFICES ASSUME NEW r \in used' \cap Removed
                   PROVE  \E c \in used' \cap Added : <<c, r>> \in Near /\ distance[<<c, r>>] <= currentDist
        BY <1>n, <2>1 DEF UsedWereNear
      <4>1. CASE r \in used
        BY <2>2, <3>1, <4>1 DEF UsedWereNear
      <4>2. CASE r = t
        <5>1. currentDist <= currentDist
          BY <1>0, <2>1
        <5>2. QED
          BY <2>1, <2>3, <3>1, <4>2, <5>1
      <4>3. CASE r = current
        BY <2>1, <4>3, PairAssumption
      <4>4. QED
        BY <3>1, <4>1, <4>2, <4>3
    <3>3. MatchedInHand'
      BY <1>n, <2>1, <2>3, <3>1 DEF MatchedInHand
    <3>4. LeftWereTaken'
      BY <1>n, <1>t, <2>2, <2>5, <3>1 DEF LeftWereTaken
    <3>5. NearerWereTaken'
      <4> SUFFICES ASSUME NEW a \in Added \cap DOMAIN pairs', NEW r \in Removed, <<a, r>> \in Near,
                          distance[<<a, r>>] < distance[<<a, pairs'[a]>>]
                   PROVE  TakenFirst(a, r)
        BY <1>n, <1>t, <3>1 DEF NearerWereTaken
      <4>1. CASE a # current
        BY <2>2, <3>1, <4>1 DEF NearerWereTaken
      <4>2. CASE a = current /\ current \in used
        BY <2>2, <2>3, <3>1, <4>2 DEF MatchedInHand, NearerWereTaken
      <4>3. CASE a = current /\ current \notin used
        <5>1. distance[<<a, r>>] \in Distances /\ distance[<<a, r>>] < currentDist
          BY <1>d, <2>3, <3>1, <4>3
        <5>2. fromHashes[distance[<<a, r>>]] = {} /\ distance[<<a, r>>] # currentDist
          BY <1>0, <2>1, <2>2, <5>1 DEF InOrder
        <5>3. ~Waits(a, r, distance[<<a, r>>])
          BY <5>2 DEF Waits
        <5>4. QED
          BY <2>2, <4>3, <5>3 DEF LeftWereTaken
      <4>4. QED
        BY <4>1, <4>2, <4>3
    <3>6. QED
      BY <2>1, <2>4, <3>2, <3>3, <3>4, <3>5 DEF ClosestInv
  <2>8. QED
    BY <2>6, <2>7
<1>4. CASE DropFrom
  <2>1. /\ phase = "select" /\ phase' = "select" /\ current' = NoHash /\ NoHash \notin used
        /\ toHashes[current][currentDist] = {}
        /\ UNCHANGED <<toHashes, fromHashes, currentDist, used, pairs>>
    BY <1>0, <1>4, PairAssumption DEF DropFrom, TriedInv, TypeOK
  <2>2. InOrder /\ UsedWereNear /\ LeftWereTaken /\ NearerWereTaken
    BY <2>1 DEF ClosestInv
  <2>3. InOrder' /\ UsedWereNear' /\ MatchedInHand' /\ NearerWereTaken'
    BY <1>n, <1>t, <2>1, <2>2 DEF InOrder, UsedWereNear, MatchedInHand, NearerWereTaken
  <2>4. \A a, r : Waits(a, r, distance[<<a, r>>]) => Waits(a, r, distance[<<a, r>>])'
    BY <1>n, <2>1 DEF Waits
  <2>5. LeftWereTaken'
    BY <1>n, <1>t, <2>1, <2>2, <2>4 DEF LeftWereTaken
  <2>6. QED
    BY <2>1, <2>3, <2>5 DEF ClosestInv
<1>5. CASE Invert
  <2>1. phase' = "done" /\ used' = used /\ pairs' = WithInverse(pairs) /\ DOMAIN pairs \subseteq Added
    BY <1>0, <1>5 DEF Invert, ChosenInv
  <2>2. \A a \in DOMAIN pairs : pairs[a] \notin Added
    BY <1>0, <1>5, NearFacts, PairAssumption DEF Invert, ChosenInv
  <2>3. \A a \in Added \cap DOMAIN pairs' : a \in DOMAIN pairs /\ pairs'[a] = pairs[a]
    BY <2>1, <2>2 DEF WithInverse, Range
  <2>4. NearerWereTaken'
    BY <1>n, <1>t, <2>1, <2>3 DEF ClosestInv, NearerWereTaken
  <2>5. QED
    BY <2>1, <2>4 DEF ClosestInv
<1>6. CASE UNCHANGED vars
  <2>1. \A a, r : Waits(a, r, distance[<<a, r>>])' <=> Waits(a, r, distance[<<a, r>>])
    BY <1>6, <1>n DEF vars, Waits
  <2>2. \A a, r : TakenFirst(a, r)' <=> TakenFirst(a, r)
    BY <1>6, <1>n DEF vars, TakenFirst
  <2>3. QED
    BY <1>6, <1>n, <2>1, <2>2 DEF vars, ClosestInv, InOrder, UsedWereNear, MatchedInHand,
          LeftWereTaken, NearerWereTaken
<1>7. QED
  BY <1>1, <1>2, <1>3, <1>4, <1>5, <1>6 DEF Next, Finished

(* The invariant of the selection holds in every reachable state.          *)
THEOREM PairInvariance == Spec => []PairInv
<1>1. PairInv /\ [Next]_vars => PairInv'
  BY PairTypeStep, GroupStep, ChosenStep, TriedStep DEF PairInv
<1> QED BY PairInit, <1>1, PTL DEF Spec

(* Every reachable state of the selection is well typed.                   *)
THEOREM SelectionTypes == Spec => []TypeOK
<1>1. PairInv => TypeOK
  BY DEF PairInv
<1> QED BY PairInvariance, <1>1, PTL

(* _get_most_in_common_pairs_in_iterables: the dictionary it returns is    *)
(* symmetrical, one to one and within the cutoff.                          *)
THEOREM SelectionIsPairing == Spec => []SelectsAPairing
<1>1. PairInv => SelectsAPairing
  BY DEF PairInv, ChosenInv
<1> QED BY PairInvariance, <1>1, PTL

(* No near pair is left with both its items unused.                        *)
THEOREM SelectionIsExhaustive == Spec => []NearPairsAreTried
<1>1. PairInv => NearPairsAreTried
  BY DEF PairInv, TriedInv, NearPairsAreTried
<1> QED BY PairInvariance, <1>1, PTL
(* "Get the closest pairs": an added item is denied a nearer removed item  *)
(* only if that one was taken for an added item at least as near to it.    *)
THEOREM ClosestAreFirst == Spec => []ClosestFirst
<1>1. Init => ClosestInv
  BY DEF Init, ClosestInv, NearerWereTaken, NoPairs
<1>2. ClosestInv => ClosestFirst
  BY DEF ClosestInv, NearerWereTaken, TakenFirst, ClosestFirst
<1>3. QED
  BY PairInvariance, ClosestStep, <1>1, <1>2, PTL DEF Spec
=============================================================================
