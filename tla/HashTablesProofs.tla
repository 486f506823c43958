-------------------------- MODULE HashTablesProofs --------------------------
(***************************************************************************)
(* Proofs about HashTables, for any iterables, members and filters.        *)
(*                                                                         *)
(* Whatever is in the shared dictionary was entered for an item of the two *)
(* iterables, at its path; and what is there under the key of a hashable   *)
(* item is never replaced.  The first tells which hash an item can have    *)
(* been found under, the second that items with one key found the same.    *)
(***************************************************************************)
EXTENDS HashTables, NaturalsInduction, WellFoundedInduction, TLAPS

ShapeInv ==
  /\ input \in [Sides -> Seq(DOMAIN Members)]
  /\ side \in Sides \cup {"done", "raised"}
  /\ index \in Nat
  /\ side \in Sides => index <= Len(input[side])
  /\ table = [s \in Sides |-> table[s]]
  /\ inWorkers \in [Sides -> BOOLEAN]

(* The index is under the hash in the table of the side.                   *)
Under(s, i, h) == h \in DOMAIN table[s] /\ i \in table[s][h]
Nowhere(s, i) == \A h \in DOMAIN table[s] : i \notin table[s][h]

(* An index is under one hash, and only once its item has been hashed.     *)
OneHashInv ==
  /\ \A s \in Sides : \A g, h \in DOMAIN table[s] : table[s][g] \cap table[s][h] # {} => g = h
  /\ side \in Sides => \A h \in DOMAIN table[side] : \A i \in table[side][h] : i \in Nat /\ i < index
  /\ side = "t1" => DOMAIN table["t2"] = {}

(* What is known was entered for an item of the two iterables.             *)
Entered(known) == \A k \in DOMAIN known : \E q \in Positions : <<k, known[k]>> \in EnteredAt(q)

OwnInv ==
  \A p \in HashedPositions :
    Unshared(p) => Under(p[1], p[2], FreshAt(p)) \/ (FreshAt(p) = NotHashed /\ Nowhere(p[1], p[2]))

(* A hashable item is under the hash that is known for its key.            *)
MeetInv ==
  \A p \in HashedPositions :
    ~inWorkers[p[1]] /\ ItemAt(p) \notin Unhashable =>
      \A h \in DOMAIN table[p[1]] :
        p[2] \in table[p[1]][h] => Key(ItemAt(p)) \in DOMAIN hashes /\ hashes[Key(ItemAt(p))] = h

HashInv == ShapeInv /\ OneHashInv /\ Entered(hashes) /\ OwnInv /\ MeetInv

-----------------------------------------------------------------------------
(* A set of numbers has a least one: induction for what follows.           *)
LEMMA Least ==
  ASSUME NEW T \in SUBSET Nat, T # {}
  PROVE  \E x \in T : \A y \in T : x <= y
<1> DEFINE R == OpToRel(<, Nat)
<1>1. IsWellFoundedOn(R, Nat)
  BY NatLessThanWellFounded
<1>2. \A x, y \in Nat : x < y => <<x, y>> \in R
  BY DEF OpToRel
<1> HIDE DEF R
<1>3. \E x \in T : \A y \in T : ~ (<<y, x>> \in R)
  BY <1>1, WFMin
<1>4. PICK x \in T : \A y \in T : ~ (<<y, x>> \in R)
  BY <1>3
<1>5. \A y \in T : ~ (y < x)
  BY <1>2, <1>4
<1>6. \A y \in T : x <= y
  BY <1>5
<1>7. QED
  BY <1>6

(* The id of an unhashable item is no key of a hashable one.               *)
LEMMA KeysApart ==
  ASSUME NEW i, NEW j, i \notin Unhashable, j \in Unhashable
  PROVE  Key(i) # Key(j)
<1>1. Key(j)[1] = "id"
  BY DEF Key
<1>2. Key(i)[1] \in {"number", "value"}
  BY DEF Key
<1>3. QED
  BY <1>1, <1>2

(* What is known under the key of a hashable item is known still.          *)
Keeps(known, later) ==
  \A item \in DOMAIN Members \ Unhashable :
    Key(item) \in DOMAIN known => Key(item) \in DOMAIN later /\ later[Key(item)] = known[Key(item)]

(* Hashing an item keeps it.                                               *)
LEMMA IntoKeeps ==
  ASSUME NEW known, NEW item, NEW path
  PROVE  Keeps(known, HashInto(known, item, path))
<1>1. CASE (item \notin Unhashable /\ Key(item) \in DOMAIN known) \/ Hidden(path)
  BY <1>1 DEF HashInto, Keeps
<1>2. CASE ~((item \notin Unhashable /\ Key(item) \in DOMAIN known) \/ Hidden(path))
  <2> SUFFICES ASSUME NEW i \in DOMAIN Members \ Unhashable, Key(i) \in DOMAIN known
               PROVE  /\ Key(i) \in DOMAIN HashInto(known, item, path)
                      /\ HashInto(known, item, path)[Key(i)] = known[Key(i)]
    BY DEF Keeps
  <2>1. Key(i) # Key(item)
    BY <1>2, KeysApart
  <2>2. QED
    BY <1>2, <2>1 DEF HashInto
<1>3. QED
  BY <1>1, <1>2

(* An item that is not hidden is known afterwards; a hidden one adds       *)
(* nothing.                                                                *)
LEMMA IntoKnows ==
  ASSUME NEW known, NEW item, NEW path
  PROVE  /\ ~Hidden(path) => Key(item) \in DOMAIN HashInto(known, item, path)
         /\ Hidden(path) => HashInto(known, item, path) = known
  BY DEF HashInto

(* What an item adds is entered for it.                                    *)
LEMMA IntoEnters ==
  ASSUME NEW known, Entered(known), NEW q \in Positions
  PROVE  Entered(HashInto(known, ItemAt(q), <<q[2]>>))
<1> DEFINE item == ItemAt(q)
           path == <<q[2]>>
<1>1. CASE (item \notin Unhashable /\ Key(item) \in DOMAIN known) \/ Hidden(path)
  BY <1>1 DEF HashInto
<1>2. CASE ~((item \notin Unhashable /\ Key(item) \in DOMAIN known) \/ Hidden(path))
  <2> DEFINE later == HashInto(known, item, path)
             keys == {Key(m) : m \in ShownMembers(item, path)}
  <2> HIDE DEF item, path
  <2>1. /\ DOMAIN later = DOMAIN known \cup keys \cup {Key(item)}
        /\ later[Key(item)] = FreshHash(item, path)
        /\ \A k \in DOMAIN later : k # Key(item) /\ k \in DOMAIN known => later[k] = known[k]
        /\ \A k \in DOMAIN later : k # Key(item) /\ k \notin DOMAIN known =>
             later[k] = ScalarHash(CHOOSE m \in ShownMembers(item, path) : Key(m) = k)
    BY <1>2 DEF HashInto
  <2> SUFFICES ASSUME NEW k \in DOMAIN later
               PROVE  \E r \in Positions : <<k, later[k]>> \in EnteredAt(r)
    BY DEF Entered, item, path
  <2>2. CASE k = Key(item)
    BY <2>1, <2>2 DEF EnteredAt, FreshAt, item, path
  <2>3. CASE k # Key(item) /\ k \in DOMAIN known
    BY <2>1, <2>3 DEF Entered
  <2>4. CASE k # Key(item) /\ k \notin DOMAIN known
    <3>1. \E m \in ShownMembers(item, path) : Key(m) = k
      BY <2>1, <2>4
    <3> DEFINE m == CHOOSE m \in ShownMembers(item, path) : Key(m) = k
    <3>2. m \in ShownMembers(item, path) /\ Key(m) = k
      BY <3>1
    <3>3. later[k] = ScalarHash(m)
      BY <2>1, <2>4
    <3> HIDE DEF m, later
    <3>4. <<k, later[k]>> \in {<<Key(n), ScalarHash(n)>> : n \in ShownMembers(item, path)}
      BY <3>2, <3>3
    <3>5. <<k, later[k]>> \in EnteredAt(q)
      BY <1>2, <3>4 DEF EnteredAt, item, path
    <3>6. QED
      BY <3>5
  <2>5. QED
    BY <2>2, <2>3, <2>4
<1>3. QED
  BY <1>1, <1>2

(* HashAll, item by item.                                                  *)
LEMMA AllByItem ==
  ASSUME NEW known, NEW items, Len(items) \in Nat
  PROVE  \E after :
           /\ HashAll(known, items) = after[Len(items)]
           /\ after[0] = known
           /\ \A n \in 1 .. Len(items) :
                after[n] = IF Hidden(<<n - 1>>) THEN after[n - 1]
                           ELSE HashInto(after[n - 1], items[n], <<n - 1>>)
<1> DEFINE N == Len(items)
           step(n, before) == IF Hidden(<<n - 1>>) THEN before ELSE HashInto(before, items[n], <<n - 1>>)
           Body(f, m) == [n \in 0 .. m |-> IF n = 0 THEN known ELSE step(n, f[n - 1])]
           chosen == CHOOSE f : f = Body(f, N)
           Wrong == { m \in Nat : ~ \E f : f = Body(f, m) }
<1>1. HashAll(known, items) = chosen[N]
  BY DEF HashAll
<1> HIDE DEF step
<1>2. Wrong = {}
  <2> SUFFICES ASSUME Wrong # {} PROVE FALSE
    OBVIOUS
  <2>1. Wrong \subseteq Nat
    OBVIOUS
  <2> HIDE DEF Wrong
  <2>2. PICK m \in Wrong : \A k \in Wrong : m <= k
    BY <2>1, Least
  <2>3. m \in Nat /\ ~ \E f : f = Body(f, m)
    BY DEF Wrong
  <2>4. CASE m = 0
    <3> DEFINE f == [n \in 0 .. 0 |-> known]
    <3>1. f = Body(f, 0)
      OBVIOUS
    <3>2. QED
      BY <2>3, <2>4, <3>1
  <2>5. CASE m # 0
    <3>1. m - 1 \in Nat /\ m - 1 \notin Wrong
      BY <2>2, <2>3, <2>5
    <3>2. PICK f : f = Body(f, m - 1)
      BY <3>1 DEF Wrong
    <3> DEFINE g == [n \in 0 .. m |-> IF n = m THEN step(m, f[m - 1]) ELSE f[n]]
    <3>3. ASSUME NEW n \in 0 .. m
          PROVE  g[n] = IF n = 0 THEN known ELSE step(n, g[n - 1])
      <4>1. CASE n = m
        BY <2>3, <2>5, <4>1
      <4>2. CASE n # m
        <5>1. n \in 0 .. m - 1 /\ (n # 0 => n - 1 \in 0 .. m - 1)
          BY <2>3, <4>2
        <5>2. g[n] = f[n] /\ (n # 0 => g[n - 1] = f[n - 1])
          BY <2>3, <4>2, <5>1
        <5>3. f[n] = IF n = 0 THEN known ELSE step(n, f[n - 1])
          BY <3>2, <5>1
        <5> HIDE DEF g
        <5>4. QED
          BY <5>1, <5>2, <5>3
      <4>3. QED
        BY <4>1, <4>2
    <3>4. g = Body(g, m)
      <4>1. g = [n \in 0 .. m |-> g[n]]
        OBVIOUS
      <4> HIDE DEF g
      <4>2. QED
        BY <3>3, <4>1
    <3>5. QED
      BY <2>3, <3>4
  <2>6. QED
    BY <2>4, <2>5
<1>3. \E f : f = Body(f, N)
  BY <1>2
<1> HIDE DEF Body
<1>4. chosen = Body(chosen, N)
  BY <1>3
<1> HIDE DEF chosen
<1>5. \A n \in 0 .. N : chosen[n] = IF n = 0 THEN known ELSE step(n, chosen[n - 1])
  BY <1>4 DEF Body
<1>6. chosen[0] = known /\ \A n \in 1 .. N : chosen[n] = step(n, chosen[n - 1])
  <2>1. 0 \in 0 .. N /\ \A n \in 1 .. N : n \in 0 .. N /\ n # 0
    OBVIOUS
  <2> HIDE DEF N
  <2>2. QED
    BY <1>5, <2>1
<1>7. QED
  BY <1>1, <1>6 DEF step

(* The positions are the indexes of the two iterables.                      *)
LEMMA PositionsAreIndexes ==
  ASSUME ShapeInv
  PROVE  /\ \A s \in Sides : Len(input[s]) \in Nat
         /\ \A p \in Positions : p = <<p[1], p[2]>> /\ p[1] \in Sides /\ p[2] \in Nat /\ p[2] < Len(input[p[1]])
         /\ \A s \in Sides, i \in Nat : i < Len(input[s]) => <<s, i>> \in Positions
         /\ \A p \in Positions : ItemAt(p) \in DOMAIN Members
<1>1. /\ input["t1"] \in Seq(DOMAIN Members) /\ input["t2"] \in Seq(DOMAIN Members)
      /\ Len(input["t1"]) \in Nat /\ Len(input["t2"]) \in Nat
      /\ \A s \in Sides : input[s] \in Seq(DOMAIN Members) /\ Len(input[s]) \in Nat
  BY DEF ShapeInv, Sides
<1>2. ASSUME NEW s \in Sides, NEW i \in Nat, i < Len(input[s])
      PROVE  i \in 0 .. Len(input["t1"]) + Len(input["t2"])
  <2>1. PICK m \in Nat, n \in Nat : m = Len(input["t1"]) /\ n = Len(input["t2"])
    BY <1>1
  <2>2. i < m \/ i < n
    BY <1>2, <2>1 DEF Sides
  <2>3. i \in 0 .. m + n
    BY <2>2
  <2>4. QED
    BY <2>1, <2>3
<1>3. \A p \in Positions : p = <<p[1], p[2]>> /\ p[1] \in Sides /\ p[2] \in Nat /\ p[2] < Len(input[p[1]])
  BY <1>1 DEF Positions
<1>4. \A s \in Sides, i \in Nat : i < Len(input[s]) => <<s, i>> \in Positions
  BY <1>2 DEF Positions
<1>5. ASSUME NEW p \in Positions
      PROVE  ItemAt(p) \in DOMAIN Members
  <2>1. p[1] \in Sides /\ p[2] + 1 \in 1 .. Len(input[p[1]])
    BY <1>1, <1>3
  <2>2. input[p[1]] \in Seq(DOMAIN Members)
    BY <1>1, <2>1
  <2>3. QED
    BY <2>1, <2>2 DEF ItemAt
<1>6. QED
  BY <1>1, <1>3, <1>4, <1>5

(* Hashing an iterable enters and keeps as hashing its items does.         *)
LEMMA AllEnters ==
  ASSUME ShapeInv, Entered(hashes), NEW s \in Sides
  PROVE  Entered(HashAll(hashes, input[s])) /\ Keeps(hashes, HashAll(hashes, input[s]))
<1> DEFINE N == Len(input[s])
           Good(known) == Entered(known) /\ Keeps(hashes, known)
<1>1. N \in Nat
  BY PositionsAreIndexes
<1>2. PICK after :
        /\ HashAll(hashes, input[s]) = after[N]
        /\ after[0] = hashes
        /\ \A n \in 1 .. N :
             after[n] = IF Hidden(<<n - 1>>) THEN after[n - 1]
                        ELSE HashInto(after[n - 1], input[s][n], <<n - 1>>)
  BY <1>1, AllByItem
<1> HIDE DEF N
<1>3. Good(hashes)
  BY DEF Keeps
<1>4. ASSUME NEW n \in 1 .. N, Good(after[n - 1])
      PROVE  Good(after[n])
  <2>1. <<s, n - 1>> \in Positions
    BY <1>1, PositionsAreIndexes DEF N
  <2>2. ItemAt(<<s, n - 1>>) = input[s][n]
    BY <1>1 DEF ItemAt
  <2>3. CASE Hidden(<<n - 1>>)
    BY <1>2, <1>4, <2>3
  <2>4. CASE ~Hidden(<<n - 1>>)
    <3> DEFINE later == HashInto(after[n - 1], input[s][n], <<n - 1>>)
    <3>1. after[n] = later
      BY <1>2, <2>4
    <3>2. Entered(later)
      <4>1. Entered(HashInto(after[n - 1], ItemAt(<<s, n - 1>>), <<(<<s, n - 1>>)[2]>>))
        BY <1>4, <2>1, IntoEnters
      <4>2. (<<s, n - 1>>)[2] = n - 1
        OBVIOUS
      <4>3. QED
        BY <2>2, <4>1, <4>2
    <3>3. Keeps(after[n - 1], later)
      BY IntoKeeps
    <3> HIDE DEF later
    <3>4. Keeps(hashes, later)
      BY <1>4, <3>3 DEF Keeps
    <3>5. QED
      BY <3>1, <3>2, <3>4
  <2>5. QED
    BY <2>3, <2>4
<1>5. \A n \in 0 .. N : Good(after[n])
  <2> DEFINE Wrong == { n \in 0 .. N : ~Good(after[n]) }
  <2> SUFFICES ASSUME Wrong # {} PROVE FALSE
    OBVIOUS
  <2>1. Wrong \subseteq Nat
    OBVIOUS
  <2> HIDE DEF Wrong
  <2>2. PICK n \in Wrong : \A k \in Wrong : n <= k
    BY <2>1, Least
  <2>3. n \in 0 .. N /\ ~Good(after[n])
    BY DEF Wrong
  <2> HIDE DEF Good
  <2>4. n # 0
    BY <1>2, <1>3, <2>3
  <2>5. n - 1 \in 0 .. N /\ n - 1 \notin Wrong /\ n \in 1 .. N
    BY <1>1, <2>2, <2>3, <2>4
  <2>6. Good(after[n - 1])
    BY <2>5 DEF Wrong
  <2>7. QED
    BY <1>4, <2>3, <2>5, <2>6
<1>6. Good(after[N])
  BY <1>1, <1>5
<1>7. QED
  BY <1>2, <1>6

-----------------------------------------------------------------------------
(* The inputs and the filter never change, nor what is said of them.       *)
LEMMA Fixed ==
  ASSUME UNCHANGED <<input, filter>>
  PROVE  /\ Positions' = Positions
         /\ \A p \in Positions : ItemAt(p)' = ItemAt(p) /\ FreshAt(p)' = FreshAt(p)
         /\ \A p \in Positions : EnteredAt(p)' = EnteredAt(p)
         /\ \A p \in Positions : Unshared(p)' <=> Unshared(p)
<1>1. Positions' = Positions
  BY DEF Positions
<1>2. \A p : ItemAt(p)' = ItemAt(p)
  BY DEF ItemAt
<1>3. \A path : Hidden(path)' <=> Hidden(path)
  BY DEF Hidden
<1>4. \A item, path : ShownMembers(item, path)' = ShownMembers(item, path)
  BY <1>3 DEF ShownMembers
<1>5. \A item, path : FreshHash(item, path)' = FreshHash(item, path)
  BY <1>3, <1>4 DEF FreshHash
<1>6. \A p : FreshAt(p)' = FreshAt(p)
  BY <1>2, <1>5 DEF FreshAt
<1>7. \A p : EnteredAt(p)' = EnteredAt(p)
  BY <1>2, <1>3, <1>4, <1>6 DEF EnteredAt
<1>8. \A p : Unshared(p)' <=> Unshared(p)
  BY <1>1, <1>2, <1>6, <1>7 DEF Unshared
<1>9. QED
  BY <1>1, <1>2, <1>6, <1>7, <1>8

(* What was entered is entered still.                                      *)
LEMMA EnteredStays ==
  ASSUME UNCHANGED <<input, filter>>, Entered(hashes')
  PROVE  Entered(hashes)'
  BY Fixed DEF Entered

(* Nothing is hashed to begin with.                                        *)
LEMMA HashInit == Init => HashInv
<1> SUFFICES ASSUME Init PROVE HashInv
  OBVIOUS
<1>1. ShapeInv
  <2>1. PICK pair \in Inputs : input = [t1 |-> pair[1], t2 |-> pair[2]]
    BY DEF Init
  <2>2. pair[1] \in Seq(DOMAIN Members) /\ pair[2] \in Seq(DOMAIN Members)
    BY HashAssumption
  <2>3. input \in [Sides -> Seq(DOMAIN Members)] /\ 0 <= Len(input["t1"])
    BY <2>1, <2>2 DEF Sides
  <2>4. QED
    BY <2>3 DEF Init, ShapeInv, Sides
<1>2. HashedPositions = {}
  <2>1. side = "t1" /\ index = 0
    BY DEF Init
  <2>2. \A p \in Positions : p[2] \in Nat
    BY <1>1, PositionsAreIndexes
  <2>3. QED
    BY <2>1, <2>2 DEF HashedPositions
<1>3. OneHashInv /\ Entered(hashes)
  <2>1. \A s \in Sides : DOMAIN table[s] = {}
    BY DEF Init, EmptyTable
  <2>2. DOMAIN hashes = {}
    BY DEF Init, EmptyTable
  <2>3. QED
    BY <2>1, <2>2 DEF OneHashInv, Entered, Sides
<1>4. OwnInv /\ MeetInv
  BY <1>2 DEF OwnInv, MeetInv
<1>5. QED
  BY <1>1, <1>3, <1>4 DEF HashInv

(* OneHashInv, in the terms of the other invariants.                       *)
LEMMA OneHashMeans ==
  OneHashInv <=>
    /\ \A s \in Sides : \A i, g, h : Under(s, i, g) /\ Under(s, i, h) => g = h
    /\ side \in Sides => \A i, h : Under(side, i, h) => i \in Nat /\ i < index
    /\ side = "t1" => DOMAIN table["t2"] = {}
  BY DEF OneHashInv, Under

(* The next item is put under what is found for it, and nothing else is    *)
(* changed in the tables.                                                  *)
LEMMA NextUnder ==
  ASSUME ShapeInv, HashNextItem
  PROVE  /\ ShapeInv'
         /\ LET hash == Found(hashes', input[side][index + 1])
            IN  \A s \in Sides : \A i, h :
                  Under(s, i, h)' <=> Under(s, i, h) \/ (s = side /\ i = index /\ h = hash /\ hash # NotHashed)
<1>1. PICK hash : hash = Found(hashes', input[side][index + 1])
  OBVIOUS
<1>2. /\ side \in Sides /\ index < Len(input[side])
      /\ table' = [table EXCEPT ![side] = AddHash(table[side], hash, index)]
      /\ index' = index + 1
      /\ UNCHANGED <<input, filter, use_mp, side, inWorkers>>
  BY <1>1 DEF HashNextItem
<1>3. /\ table'[side] = AddHash(table[side], hash, index)
      /\ \A s \in Sides : s # side => table'[s] = table[s]
      /\ table' = [s \in Sides |-> table'[s]]
  BY <1>2 DEF ShapeInv
<1>4. ShapeInv'
  <2>1. Len(input[side]) \in Nat /\ index \in Nat
    BY <1>2, PositionsAreIndexes DEF ShapeInv
  <2>2. index + 1 \in Nat /\ index + 1 <= Len(input[side])
    BY <1>2, <2>1
  <2>3. QED
    BY <1>2, <1>3, <2>2 DEF ShapeInv
<1>5. ASSUME NEW s \in Sides, NEW i, NEW h
      PROVE  Under(s, i, h)' <=> Under(s, i, h) \/ (s = side /\ i = index /\ h = hash /\ hash # NotHashed)
  <2>1. CASE s # side
    BY <1>3, <2>1 DEF Under
  <2>2. CASE s = side /\ hash = NotHashed
    BY <1>3, <2>2 DEF Under, AddHash
  <2>3. CASE s = side /\ hash # NotHashed
    <3>1. /\ DOMAIN table'[side] = DOMAIN table[side] \cup {hash}
          /\ \A g \in DOMAIN table[side] \cup {hash} :
               table'[side][g] = (IF g \in DOMAIN table[side] THEN table[side][g] ELSE {})
                                   \cup (IF g = hash THEN {index} ELSE {})
      BY <1>3, <2>3 DEF AddHash
    <3>2. QED
      BY <2>3, <3>1 DEF Under
  <2>4. QED
    BY <2>1, <2>2, <2>3
<1>6. QED
  BY <1>1, <1>4, <1>5

(* A worker's table has every item under its own hash.                     *)
LEMMA WorkersUnder ==
  ASSUME ShapeInv, HashInWorkers
  PROVE  /\ ShapeInv'
         /\ \A s \in Sides : s # side => table'[s] = table[s]
         /\ \E own :
              /\ \A i \in Nat : own[i] = FreshAt(<<side, i>>)
              /\ \A i, h : (h \in DOMAIN table'[side] /\ i \in table'[side][h]) <=>
                   i \in Nat /\ i < Len(input[side]) /\ h = own[i] /\ h # NotHashed
<1>1. PICK items : items = input[side]
  OBVIOUS
<1>2. side \in Sides /\ items \in Seq(DOMAIN Members) /\ Len(items) \in Nat /\ DOMAIN items = 1 .. Len(items)
  BY <1>1 DEF HashInWorkers, ShapeInv
<1>3. /\ table' = [table EXCEPT ![side] = FreshTable(items)]
      /\ inWorkers' = [inWorkers EXCEPT ![side] = TRUE]
      /\ index' = Len(items)
      /\ UNCHANGED <<input, filter, use_mp, side, hashes>>
  BY <1>1 DEF HashInWorkers
<1>4. /\ table'[side] = FreshTable(items)
      /\ \A s \in Sides : s # side => table'[s] = table[s]
      /\ table' = [s \in Sides |-> table'[s]]
  BY <1>2, <1>3 DEF ShapeInv
<1>5. ShapeInv'
  <2>1. inWorkers' \in [Sides -> BOOLEAN]
    BY <1>3 DEF ShapeInv
  <2>2. QED
    BY <1>1, <1>2, <1>3, <1>4, <2>1 DEF ShapeInv
<1>6. ASSUME NEW i, NEW h
      PROVE  (h \in DOMAIN table'[side] /\ i \in table'[side][h]) <=>
               i \in Nat /\ i < Len(items) /\ h = FreshAt(<<side, i>>) /\ h # NotHashed
  <2> DEFINE hash == [n \in DOMAIN items |-> FreshHash(items[n], <<n - 1>>)]
  <2>1. \A n \in DOMAIN items : hash[n] = FreshAt(<<side, n - 1>>)
    <3> SUFFICES ASSUME NEW n \in DOMAIN items PROVE hash[n] = FreshAt(<<side, n - 1>>)
      OBVIOUS
    <3>1. (<<side, n - 1>>)[1] = side /\ (<<side, n - 1>>)[2] = n - 1 /\ (n - 1) + 1 = n
      BY <1>2
    <3>2. QED
      BY <1>1, <3>1 DEF FreshAt, ItemAt
  <2>2. table'[side] = [g \in ToSet(hash) \ {NotHashed} |-> {n - 1 : n \in {k \in DOMAIN items : hash[k] = g}}]
    BY <1>4 DEF FreshTable
  <2>3. ToSet(hash) = {hash[n] : n \in DOMAIN items}
    BY DEF ToSet
  <2> HIDE DEF hash
  <2>4. (h \in DOMAIN table'[side] /\ i \in table'[side][h]) <=>
          h \in ToSet(hash) \ {NotHashed} /\ i \in {n - 1 : n \in {k \in DOMAIN items : hash[k] = h}}
    BY <2>2
  <2>5. (h \in DOMAIN table'[side] /\ i \in table'[side][h]) <=> h # NotHashed /\ \E n \in DOMAIN items : i = n - 1 /\ hash[n] = h
    BY <2>3, <2>4
  <2>6. ASSUME i \in Nat, i < Len(items)
        PROVE  i + 1 \in DOMAIN items /\ i = (i + 1) - 1
    BY <1>2, <2>6
  <2>7. \A n \in DOMAIN items : n - 1 \in Nat /\ n - 1 < Len(items)
    BY <1>2
  <2>8. QED
    BY <2>1, <2>5, <2>6, <2>7
<1>7. \E own :
        /\ \A i \in Nat : own[i] = FreshAt(<<side, i>>)
        /\ \A i, h : (h \in DOMAIN table'[side] /\ i \in table'[side][h]) <=>
             i \in Nat /\ i < Len(items) /\ h = own[i] /\ h # NotHashed
  <2> DEFINE own == [i \in Nat |-> FreshAt(<<side, i>>)]
  <2>1. \A i \in Nat : own[i] = FreshAt(<<side, i>>)
    OBVIOUS
  <2> HIDE DEF own
  <2>2. ASSUME NEW i, NEW h
        PROVE  (h \in DOMAIN table'[side] /\ i \in table'[side][h]) <=>
                 i \in Nat /\ i < Len(items) /\ h = own[i] /\ h # NotHashed
    BY <1>6, <2>1
  <2>3. QED
    BY <2>1, <2>2
<1>8. QED
  BY <1>1, <1>4, <1>5, <1>7

(* Of a hash that was found for the item alone at its path, or not at all. *)
LEMMA FoundIsOwn ==
  ASSUME ShapeInv, NEW p \in Positions, NEW known, Entered(known), Unshared(p),
         ~Hidden(<<p[2]>>) => Key(ItemAt(p)) \in DOMAIN known
  PROVE  Found(known, ItemAt(p)) = FreshAt(p)
<1>1. CASE Key(ItemAt(p)) \in DOMAIN known
  <2>1. PICK q \in Positions : <<Key(ItemAt(p)), known[Key(ItemAt(p))]>> \in EnteredAt(q)
    BY <1>1 DEF Entered
  <2>2. known[Key(ItemAt(p))] = FreshAt(p)
    BY <2>1 DEF Unshared
  <2>3. QED
    BY <1>1, <2>2 DEF Found
<1>2. CASE Key(ItemAt(p)) \notin DOMAIN known
  BY <1>2 DEF Found, FreshAt, FreshHash
<1>3. QED
  BY <1>1, <1>2

(* An item hashed in this process is put under its own hash, if all that is*)
(* entered under its key is its own, and under what is known for its key.  *)
LEMMA NextItemStep ==
  ASSUME HashInv, HashNextItem
  PROVE  HashInv'
<1> DEFINE p0 == <<side, index>>
<1>1. /\ side \in Sides /\ index \in Nat /\ index < Len(input[side])
      /\ index' = index + 1
      /\ UNCHANGED <<input, filter, side, inWorkers>>
  BY DEF HashNextItem, HashInv, ShapeInv
<1>2. p0 \in Positions /\ p0[1] = side /\ p0[2] = index /\ ItemAt(p0) = input[side][index + 1]
  BY <1>1, PositionsAreIndexes DEF HashInv, ItemAt
<1> HIDE DEF p0
<1>3. hashes' = HashInto(hashes, ItemAt(p0), <<p0[2]>>)
  BY <1>2 DEF HashNextItem
<1>4. Entered(hashes')
  BY <1>2, <1>3, IntoEnters DEF HashInv
<1>5. Keeps(hashes, hashes')
  BY <1>3, IntoKeeps
<1>6. ~Hidden(<<p0[2]>>) => Key(ItemAt(p0)) \in DOMAIN hashes'
  BY <1>3, IntoKnows
<1>7. PICK hash : hash = Found(hashes', ItemAt(p0))
  OBVIOUS
<1>8. /\ ShapeInv'
      /\ \A s \in Sides : \A i, h :
           Under(s, i, h)' <=> Under(s, i, h) \/ (s = side /\ i = index /\ h = hash /\ hash # NotHashed)
  BY <1>2, <1>7, NextUnder DEF HashInv
<1>9. /\ \A s \in Sides : \A i, g, h : Under(s, i, g) /\ Under(s, i, h) => g = h
      /\ \A i, h : Under(side, i, h) => i \in Nat /\ i < index
      /\ side = "t1" => DOMAIN table["t2"] = {}
  BY <1>1, OneHashMeans DEF HashInv
<1>10. \A h : ~Under(side, index, h)
  BY <1>1, <1>9
<1>11. OneHashInv'
  <2>1. \A s \in Sides : \A i, g, h : Under(s, i, g)' /\ Under(s, i, h)' => g = h
    BY <1>8, <1>9, <1>10
  <2>2. \A i, h : Under(side, i, h)' => i \in Nat /\ i < index + 1
    BY <1>1, <1>8, <1>9
  <2>3. side = "t1" => DOMAIN table'["t2"] = {}
    <3>1. \A s \in Sides : s # side => table'[s] = table[s]
      BY DEF HashNextItem, HashInv, ShapeInv
    <3>2. QED
      BY <1>9, <3>1 DEF Sides
  <2>4. \A s \in Sides : \A g, h \in DOMAIN table'[s] : table'[s][g] \cap table'[s][h] # {} => g = h
    BY <2>1 DEF Under
  <2>5. \A h \in DOMAIN table'[side] : \A i \in table'[side][h] : i \in Nat /\ i < index + 1
    BY <1>1, <2>2 DEF Under
  <2>6. QED
    BY <1>1, <2>3, <2>4, <2>5 DEF OneHashInv
<1>12. \A p \in HashedPositions' : p \in Positions /\ (p # p0 => p \in HashedPositions)
  <2> SUFFICES ASSUME NEW p \in HashedPositions'
               PROVE  p \in Positions /\ (p # p0 => p \in HashedPositions)
    OBVIOUS
  <2>1. p \in Positions
    BY <1>1, Fixed DEF HashedPositions
  <2>2. p = <<p[1], p[2]>> /\ p[2] \in Nat
    BY <2>1, PositionsAreIndexes DEF HashInv
  <2>3. p[1] = side /\ p[2] < index + 1 => p[2] < index \/ p = p0
    BY <1>1, <2>2 DEF p0
  <2>4. QED
    BY <1>1, <2>1, <2>3 DEF HashedPositions
<1>13. \A p \in HashedPositions : p \in Positions /\ ~(p[1] = side /\ p[2] = index)
  <2> SUFFICES ASSUME NEW p \in HashedPositions, p[1] = side, p[2] = index PROVE FALSE
    BY DEF HashedPositions
  <2>1. QED
    BY <1>1 DEF HashedPositions, Sides
<1>14. OwnInv'
  <2> SUFFICES ASSUME NEW p \in HashedPositions', Unshared(p)
               PROVE  \/ Under(p[1], p[2], FreshAt(p))'
                      \/ FreshAt(p)' = NotHashed /\ Nowhere(p[1], p[2])'
    BY <1>1, <1>12, Fixed DEF OwnInv
  <2>1. p \in Positions /\ p[1] \in Sides
    BY <1>12, PositionsAreIndexes DEF HashInv
  <2>2. PICK own : own = FreshAt(p) /\ own = FreshAt(p)'
    BY <1>1, <2>1, Fixed
  <2>3. \A h : Under(p[1], p[2], h)' <=>
          Under(p[1], p[2], h) \/ (p[1] = side /\ p[2] = index /\ h = hash /\ hash # NotHashed)
    BY <1>8, <2>1
  <2>4. Under(p[1], p[2], own)' \/ (own = NotHashed /\ \A h : ~Under(p[1], p[2], h)')
    <3>1. CASE p = p0
      <4>1. hash = own
        BY <1>2, <1>4, <1>6, <1>7, <2>2, <3>1, FoundIsOwn DEF HashInv
      <4>2. \A h : ~Under(p[1], p[2], h)
        BY <1>2, <1>10, <3>1
      <4>3. p[1] = side /\ p[2] = index
        BY <1>2, <3>1
      <4>4. QED
        BY <2>3, <4>1, <4>2, <4>3
    <3>2. CASE p # p0
      <4>1. p \in HashedPositions
        BY <1>12, <3>2
      <4>2. Under(p[1], p[2], own) \/ (own = NotHashed /\ \A h : ~Under(p[1], p[2], h))
        BY <2>2, <4>1 DEF HashInv, OwnInv, Nowhere, Under
      <4>3. ~(p[1] = side /\ p[2] = index)
        BY <1>13, <4>1
      <4>4. QED
        BY <2>3, <4>2, <4>3
    <3>3. QED
      BY <3>1, <3>2
  <2>5. (\A h : ~Under(p[1], p[2], h)') => Nowhere(p[1], p[2])'
    BY DEF Nowhere, Under
  <2>6. Under(p[1], p[2], own)' => Under(p[1], p[2], FreshAt(p))'
    BY <2>2 DEF Under
  <2>7. QED
    BY <2>2, <2>4, <2>5, <2>6
<1>15. MeetInv'
  <2> SUFFICES ASSUME NEW p \in HashedPositions', ~inWorkers[p[1]], ItemAt(p) \notin Unhashable,
                      NEW h, Under(p[1], p[2], h)'
               PROVE  Key(ItemAt(p)) \in DOMAIN hashes' /\ hashes'[Key(ItemAt(p))] = h
    <3>1. \A p \in HashedPositions' : p \in Positions /\ ItemAt(p)' = ItemAt(p)
      BY <1>1, <1>12, Fixed
    <3>2. \A p \in HashedPositions' : Key(ItemAt(p))' = Key(ItemAt(p))
      BY <3>1 DEF Key
    <3>3. QED
      BY <1>1, <3>1, <3>2 DEF MeetInv, Under
  <2>1. p \in Positions /\ p[1] \in Sides /\ ItemAt(p) \in DOMAIN Members
    BY <1>12, PositionsAreIndexes DEF HashInv
  <2>2. Under(p[1], p[2], h) \/ (p[1] = side /\ p[2] = index /\ h = hash /\ hash # NotHashed)
    BY <1>8, <2>1
  <2>3. CASE p = p0
    BY <1>2, <1>7, <1>10, <2>2, <2>3 DEF Found
  <2>4. CASE p # p0
    <3>1. p \in HashedPositions
      BY <1>12, <2>4
    <3>2. Under(p[1], p[2], h)
      BY <1>13, <2>2, <3>1
    <3>3. Key(ItemAt(p)) \in DOMAIN hashes /\ hashes[Key(ItemAt(p))] = h
      BY <3>1, <3>2 DEF HashInv, MeetInv, Under
    <3>4. QED
      BY <1>5, <2>1, <3>3 DEF Keeps
  <2>5. QED
    BY <2>3, <2>4
<1>16. Entered(hashes)'
  BY <1>1, <1>4, EnteredStays
<1>17. QED
  BY <1>8, <1>11, <1>14, <1>15, <1>16 DEF HashInv

(* Workers put every item of the side under its own hash.                  *)
LEMMA WorkersStep ==
  ASSUME HashInv, HashInWorkers
  PROVE  HashInv'
<1>1. /\ side \in Sides /\ index = 0
      /\ inWorkers' = [inWorkers EXCEPT ![side] = TRUE]
      /\ index' = Len(input[side])
      /\ UNCHANGED <<input, filter, side, hashes>>
  BY DEF HashInWorkers
<1>2. /\ ShapeInv'
      /\ \A s \in Sides : s # side => table'[s] = table[s]
  BY WorkersUnder DEF HashInv
<1>3. PICK own :
        /\ \A i \in Nat : own[i] = FreshAt(<<side, i>>)
        /\ \A i, h : (h \in DOMAIN table'[side] /\ i \in table'[side][h]) <=>
             i \in Nat /\ i < Len(input[side]) /\ h = own[i] /\ h # NotHashed
  BY WorkersUnder DEF HashInv
<1>4. /\ \A s \in Sides : \A g, h \in DOMAIN table[s] : table[s][g] \cap table[s][h] # {} => g = h
      /\ side = "t1" => DOMAIN table["t2"] = {}
  BY DEF HashInv, OneHashInv
<1>5. OneHashInv'
  <2>1. \A g, h \in DOMAIN table'[side] : table'[side][g] \cap table'[side][h] # {} => g = h
    <3> SUFFICES ASSUME NEW g \in DOMAIN table'[side], NEW h \in DOMAIN table'[side],
                        NEW i \in table'[side][g] \cap table'[side][h]
                 PROVE  g = h
      OBVIOUS
    <3> QED
      BY <1>3
  <2>2. \A s \in Sides : s # side =>
          \A g, h \in DOMAIN table'[s] : table'[s][g] \cap table'[s][h] # {} => g = h
    BY <1>2, <1>4
  <2>3. \A h \in DOMAIN table'[side] : \A i \in table'[side][h] : i \in Nat /\ i < Len(input[side])
    BY <1>3
  <2>4. side = "t1" => DOMAIN table'["t2"] = {}
    BY <1>2, <1>4 DEF Sides
  <2>5. QED
    BY <1>1, <2>1, <2>2, <2>3, <2>4 DEF OneHashInv
<1>6. \A p \in HashedPositions' : p \in Positions /\ (p[1] # side => p \in HashedPositions)
  BY <1>1, Fixed DEF HashedPositions
<1>7. OwnInv'
  <2> SUFFICES ASSUME NEW p \in HashedPositions', Unshared(p)
               PROVE  \/ Under(p[1], p[2], FreshAt(p))'
                      \/ FreshAt(p)' = NotHashed /\ Nowhere(p[1], p[2])'
    BY <1>1, <1>6, Fixed DEF OwnInv
  <2>1. p \in Positions /\ p[1] \in Sides /\ p = <<p[1], p[2]>> /\ p[2] \in Nat /\ p[2] < Len(input[p[1]])
    BY <1>6, PositionsAreIndexes DEF HashInv
  <2>2. PICK hash : hash = FreshAt(p) /\ hash = FreshAt(p)'
    BY <1>1, <2>1, Fixed
  <2>3. CASE p[1] = side
    <3>1. p = <<side, p[2]>> /\ p[2] < Len(input[side])
      BY <2>1, <2>3
    <3>2. own[p[2]] = hash
      <4>1. own[p[2]] = FreshAt(<<side, p[2]>>)
        BY <1>3, <2>1
      <4>2. FreshAt(<<side, p[2]>>) = FreshAt(p)
        BY <3>1 DEF FreshAt, ItemAt
      <4>3. QED
        BY <2>2, <4>1, <4>2
    <3>3. \A h : (h \in DOMAIN table'[side] /\ p[2] \in table'[side][h]) <=> h = hash /\ h # NotHashed
      BY <1>3, <2>1, <3>1, <3>2
    <3>4. CASE hash = NotHashed
      BY <1>1, <2>2, <2>3, <3>3, <3>4 DEF Nowhere, Under
    <3>5. CASE hash # NotHashed
      BY <1>1, <2>2, <2>3, <3>3, <3>5 DEF Under
    <3>6. QED
      BY <3>4, <3>5
  <2>4. CASE p[1] # side
    <3>1. p \in HashedPositions /\ table'[p[1]] = table[p[1]]
      BY <1>2, <1>6, <2>1, <2>4
    <3>2. Under(p[1], p[2], hash) \/ (hash = NotHashed /\ Nowhere(p[1], p[2]))
      BY <2>2, <3>1 DEF HashInv, OwnInv
    <3>3. QED
      BY <2>2, <3>1, <3>2 DEF Under, Nowhere
  <2>5. QED
    BY <2>3, <2>4
<1>8. MeetInv'
  <2> SUFFICES ASSUME NEW p \in HashedPositions', ~inWorkers'[p[1]], ItemAt(p) \notin Unhashable,
                      NEW h, Under(p[1], p[2], h)'
               PROVE  Key(ItemAt(p)) \in DOMAIN hashes /\ hashes[Key(ItemAt(p))] = h
    <3>1. \A p \in HashedPositions' : p \in Positions /\ ItemAt(p)' = ItemAt(p)
      BY <1>1, <1>6, Fixed
    <3>2. \A p \in HashedPositions' : Key(ItemAt(p))' = Key(ItemAt(p))
      BY <3>1 DEF Key
    <3>3. QED
      BY <1>1, <3>1, <3>2 DEF MeetInv, Under
  <2>1. p[1] \in Sides
    BY <1>6, PositionsAreIndexes DEF HashInv
  <2>2. p[1] # side /\ ~inWorkers[p[1]]
    BY <1>1, <2>1 DEF HashInv, ShapeInv
  <2>3. p \in HashedPositions /\ table'[p[1]] = table[p[1]]
    BY <1>2, <1>6, <2>1, <2>2
  <2>4. Under(p[1], p[2], h)
    BY <2>3 DEF Under
  <2>5. QED
    BY <2>2, <2>3, <2>4 DEF HashInv, MeetInv, Under
<1>9. Entered(hashes)'
  BY <1>1, EnteredStays DEF HashInv
<1>10. QED
  BY <1>2, <1>5, <1>7, <1>8, <1>9 DEF HashInv

(* The tables and what is in them are as before.                           *)
LEMMA SameTables ==
  ASSUME HashInv, UNCHANGED <<input, filter, table, inWorkers>>, Entered(hashes'), Keeps(hashes, hashes'),
         HashedPositions' \subseteq HashedPositions
  PROVE  OwnInv' /\ MeetInv' /\ Entered(hashes)'
<1>1. \A p \in HashedPositions' :
        /\ p \in Positions /\ p \in HashedPositions /\ ItemAt(p) \in DOMAIN Members
        /\ ItemAt(p)' = ItemAt(p) /\ FreshAt(p)' = FreshAt(p) /\ (Unshared(p)' <=> Unshared(p))
  <2>1. \A p \in HashedPositions : p \in Positions
    BY DEF HashedPositions
  <2>2. QED
    BY <2>1, Fixed, PositionsAreIndexes DEF HashInv
<1>2. OwnInv'
  <2>1. ASSUME NEW p \in HashedPositions', Unshared(p)
        PROVE  \/ Under(p[1], p[2], FreshAt(p))'
               \/ FreshAt(p)' = NotHashed /\ Nowhere(p[1], p[2])'
    <3>1. Under(p[1], p[2], FreshAt(p)) \/ (FreshAt(p) = NotHashed /\ Nowhere(p[1], p[2]))
      BY <1>1, <2>1 DEF HashInv, OwnInv
    <3>2. QED
      BY <1>1, <3>1 DEF Under, Nowhere
  <2>2. QED
    BY <1>1, <2>1 DEF OwnInv
<1>3. MeetInv'
  <2> SUFFICES ASSUME NEW p \in HashedPositions', ~inWorkers[p[1]], ItemAt(p) \notin Unhashable,
                      NEW h \in DOMAIN table[p[1]], p[2] \in table[p[1]][h]
               PROVE  Key(ItemAt(p)) \in DOMAIN hashes' /\ hashes'[Key(ItemAt(p))] = h
    <3>1. \A p \in HashedPositions' : Key(ItemAt(p))' = Key(ItemAt(p))
      BY <1>1 DEF Key
    <3>2. QED
      BY <1>1, <3>1 DEF MeetInv
  <2>1. Key(ItemAt(p)) \in DOMAIN hashes /\ hashes[Key(ItemAt(p))] = h
    BY <1>1 DEF HashInv, MeetInv
  <2>2. QED
    BY <1>1, <2>1 DEF Keeps
<1>4. QED
  BY <1>2, <1>3, EnteredStays

(* The iterable itself adds to what is known only.                         *)
LEMMA IterableStep ==
  ASSUME HashInv, HashIterable
  PROVE  HashInv'
<1>1. /\ side \in Sides /\ index = Len(input[side])
      /\ hashes' = HashAll(hashes, input[side])
      /\ side' = IF side = "t1" THEN "t2" ELSE "done"
      /\ index' = 0
      /\ UNCHANGED <<input, filter, table, inWorkers>>
  BY DEF HashIterable
<1>2. Entered(hashes') /\ Keeps(hashes, hashes')
  BY <1>1, AllEnters DEF HashInv
<1>3. ShapeInv'
  <2>1. \A s \in Sides : 0 <= Len(input[s])
    BY PositionsAreIndexes DEF HashInv
  <2>2. side' \in Sides \cup {"done", "raised"}
    BY <1>1 DEF Sides
  <2>3. QED
    BY <1>1, <2>1, <2>2 DEF HashInv, ShapeInv
<1>4. OneHashInv'
  <2>1. side = "t1" => DOMAIN table["t2"] = {}
    BY DEF HashInv, OneHashInv
  <2>2. QED
    BY <1>1, <2>1 DEF HashInv, OneHashInv, Sides
<1>5. HashedPositions' \subseteq HashedPositions
  <2> SUFFICES ASSUME NEW p \in HashedPositions'
               PROVE  p \in HashedPositions
    OBVIOUS
  <2>1. p \in Positions
    BY <1>1, Fixed DEF HashedPositions
  <2>2. p[1] \in Sides /\ p[2] \in Nat /\ p[2] < Len(input[p[1]])
    BY <2>1, PositionsAreIndexes DEF HashInv
  <2>3. CASE side = "t1"
    <3>1. p[1] = "t1"
      BY <1>1, <2>2, <2>3 DEF HashedPositions, Sides
    <3>2. QED
      BY <1>1, <2>1, <2>2, <2>3, <3>1 DEF HashedPositions
  <2>4. CASE side = "t2"
    BY <1>1, <2>1, <2>2, <2>4 DEF HashedPositions, Sides
  <2>5. QED
    BY <1>1, <2>3, <2>4 DEF Sides
<1>6. OwnInv' /\ MeetInv' /\ Entered(hashes)'
  BY <1>1, <1>2, <1>5, SameTables
<1>7. QED
  BY <1>3, <1>4, <1>6 DEF HashInv

(* After an exception nothing is said of the tables.                       *)
LEMMA RaisesStep ==
  ASSUME HashInv, SectionRaises
  PROVE  HashInv'
<1>1. /\ side \in Sides /\ side' = "raised"
      /\ UNCHANGED <<input, filter, use_mp, index, hashes, table, inWorkers>>
  BY DEF SectionRaises
<1>2. HashedPositions' = {}
  <2>1. \A p \in Positions : p[1] \in Sides
    BY PositionsAreIndexes DEF HashInv
  <2>2. QED
    BY <1>1, <2>1, Fixed DEF HashedPositions, Sides
<1>3. Entered(hashes') /\ Keeps(hashes, hashes')
  BY <1>1 DEF HashInv, Keeps
<1>4. OwnInv' /\ MeetInv' /\ Entered(hashes)'
  BY <1>1, <1>2, <1>3, SameTables
<1>5. ShapeInv' /\ OneHashInv'
  BY <1>1 DEF HashInv, ShapeInv, OneHashInv, Sides
<1>6. QED
  BY <1>4, <1>5 DEF HashInv

(* A run that is over changes nothing.                                     *)
LEMMA SameStep ==
  ASSUME HashInv, UNCHANGED vars
  PROVE  HashInv'
<1>1. HashedPositions' = HashedPositions
  BY Fixed DEF HashedPositions, vars
<1>2. OwnInv' /\ MeetInv' /\ Entered(hashes)'
  BY <1>1, SameTables DEF HashInv, Keeps, vars
<1>3. QED
  BY <1>2 DEF HashInv, ShapeInv, OneHashInv, vars

(* The invariant holds throughout.                                         *)
LEMMA HashStays == Spec => []HashInv
<1>1. Init => HashInv
  BY HashInit
<1>2. HashInv /\ [Next]_vars => HashInv'
  BY NextItemStep, WorkersStep, IterableStep, RaisesStep, SameStep DEF Next, Finished
<1>3. QED
  BY <1>1, <1>2, PTL DEF Spec

-----------------------------------------------------------------------------
(* The hash that the table has for an index.                               *)
LEMMA TableHashIsOne ==
  ASSUME ShapeInv, OneHashInv, NEW p \in Positions
  PROVE  /\ \A h : Under(p[1], p[2], h) => TableHash(p) = h
         /\ Nowhere(p[1], p[2]) => TableHash(p) = NotHashed
         /\ TableHash(p) # NotHashed => Under(p[1], p[2], TableHash(p))
<1> DEFINE found == {h \in DOMAIN table[p[1]] : p[2] \in table[p[1]][h]}
           chosen == CHOOSE h \in found : TRUE
<1>1. TableHash(p) = IF found = {} THEN NotHashed ELSE chosen
  BY DEF TableHash
<1>2. \A h : h \in found <=> Under(p[1], p[2], h)
  BY DEF Under
<1>3. found # {} => chosen \in found
  OBVIOUS
<1>4. \A g, h \in found : g = h
  <2>1. p[1] \in Sides
    BY PositionsAreIndexes
  <2>2. QED
    BY <2>1 DEF OneHashInv
<1>5. Nowhere(p[1], p[2]) => found = {}
  BY DEF Nowhere
<1> HIDE DEF found, chosen
<1>6. QED
  BY <1>1, <1>2, <1>3, <1>4, <1>5

(* HashesAreOwnUnlessShared, for any iterables and filters: the hash tables*)
(* of _create_hashtable have every item under the hash it has alone, the   *)
(* one a worker finds, unless another item shares its key in hashes.       *)
THEOREM TablesAreOwn == Spec => []HashesAreOwnUnlessShared
<1>1. HashInv => HashesAreOwnUnlessShared
  <2> SUFFICES ASSUME HashInv, NEW p \in HashedPositions, Unshared(p)
               PROVE  TableHash(p) = FreshAt(p)
    BY DEF HashesAreOwnUnlessShared
  <2>1. p \in Positions
    BY DEF HashedPositions
  <2>2. Under(p[1], p[2], FreshAt(p)) \/ (FreshAt(p) = NotHashed /\ Nowhere(p[1], p[2]))
    BY DEF HashInv, OwnInv
  <2>3. QED
    BY <2>1, <2>2, TableHashIsOne DEF HashInv
<1>2. QED
  BY <1>1, HashStays, PTL

(* EqualItemsMeet, for any iterables and filters: items that are equal for *)
(* the hashes dictionary are never under two hashes.                       *)
THEOREM OneKeyOneHash == Spec => []EqualItemsMeet
<1>1. HashInv => EqualItemsMeet
  <2> SUFFICES ASSUME HashInv, NEW p \in HashedPositions, NEW q \in HashedPositions,
                      ~inWorkers[p[1]], ~inWorkers[q[1]],
                      ItemAt(p) \notin Unhashable, Key(ItemAt(p)) = Key(ItemAt(q)),
                      TableHash(p) # NotHashed, TableHash(q) # NotHashed
               PROVE  TableHash(p) = TableHash(q)
    BY DEF EqualItemsMeet
  <2>1. p \in Positions /\ q \in Positions
    BY DEF HashedPositions
  <2>2. Under(p[1], p[2], TableHash(p)) /\ Under(q[1], q[2], TableHash(q))
    BY <2>1, TableHashIsOne DEF HashInv
  <2>3. ItemAt(q) \notin Unhashable
    BY KeysApart
  <2>4. hashes[Key(ItemAt(p))] = TableHash(p) /\ hashes[Key(ItemAt(q))] = TableHash(q)
    BY <2>2, <2>3 DEF HashInv, MeetInv, Under
  <2>5. QED
    BY <2>4
<1>2. QED
  BY <1>1, HashStays, PTL

=============================================================================
