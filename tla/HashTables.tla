----------------------------- MODULE HashTables -----------------------------
(***************************************************************************)
(* _create_hashtable of deepdiff/diff.py for the two iterables of an       *)
(* unordered comparison, with DeepHash._hash and the hashes dictionary     *)
(* that every DeepHash of a run shares, and with the worker pool that may  *)
(* hash the items of an iterable instead.                                  *)
(*                                                                         *)
(* An item is a scalar or a container of scalars.  Its hash is what _prep  *)
(* makes of it: the type, and the value or the hashes of the members that  *)
(* no path filter hides; hashing that is taken to be injective.            *)
(***************************************************************************)
EXTENDS Naturals, SequencesExt, FiniteSets

CONSTANTS
  Inputs,      \* pairs <<t1, t2>> of sequences of items
  Filters,     \* records [exclude_paths, include_paths] of sets of paths
  Members,     \* item -> the scalars it contains, <<>> for a scalar
  TypeOf,      \* item -> its type
  Value,       \* item -> its value: Python's == compares values only
  Numbers,     \* the items that are instances of only_numbers
  Unhashable,  \* the items that are lists, dictionaries...
  NoValue,     \* the value of a container's hash
  NotHashed    \* no hash: the item was filtered

ASSUME HashAssumption ==
  /\ DOMAIN TypeOf = DOMAIN Members
  /\ DOMAIN Value = DOMAIN Members
  /\ Numbers \cup Unhashable \subseteq DOMAIN Members
  /\ \A item \in DOMAIN Members : ToSet(Members[item]) \subseteq DOMAIN Members
  /\ \A item \in Numbers : Members[item] = <<>>
  /\ \A pair \in Inputs : pair \in Seq(DOMAIN Members) \X Seq(DOMAIN Members)

VARIABLES
  input,       \* [t1, t2]: the items
  filter,      \* the path filters
  use_mp,      \* is multiprocessing enabled?
  side,        \* "t1", "t2", then "done" or "raised"
  index,       \* how many items of the side have been hashed
  hashes,      \* the shared dictionary: key -> hash
  table,       \* [t1, t2]: hash -> indexes
  inWorkers    \* [t1, t2]: did workers hash the items? (history)

vars == <<input, filter, use_mp, side, index, hashes, table, inWorkers>>

Sides == {"t1", "t2"}

(***************************************************************************)
(* DeepHash                                                                *)
(***************************************************************************)
(* DeepHash._skip_this: unlike DeepDiff's it does not let the ancestors of *)
(* an included path through, and what is at or below one is shown even if  *)
(* it is excluded: the second if of the code forgets what the first found. *)
Hidden(path) ==
  IF filter.include_paths # {} /\ path # <<>>
  THEN \A p \in filter.include_paths : ~IsPrefix(p, path)
  ELSE path \in filter.exclude_paths

(* The key of an item in hashes: _make_hash_key tells numeric types apart, *)
(* an unhashable item is known by its id.                                  *)
Key(item) ==
  IF item \in Unhashable THEN <<"id", item>>
  ELSE IF item \in Numbers THEN <<"number", TypeOf[item], Value[item]>>
  ELSE <<"value", Value[item]>>

ScalarHash(item) == [type |-> TypeOf[item], value |-> Value[item], members |-> {}]

ShownMembers(item, path) ==
  {Members[item][n] : n \in {k \in DOMAIN Members[item] : ~Hidden(Append(path, k - 1))}}

(* What the item hashes to by itself.                                      *)
FreshHash(item, path) ==
  IF Hidden(path) THEN NotHashed
  ELSE IF Members[item] = <<>> THEN ScalarHash(item)
  ELSE [type |-> TypeOf[item], value |-> NoValue,
        members |-> {ScalarHash(m) : m \in ShownMembers(item, path)}]

(* Mutant: every item is hashed again, whatever hashes holds.              *)
HashAgain(known, item, path) ==
  IF Hidden(path) THEN known
  ELSE Key(item) :> FreshHash(item, path) @@ known

(* _hash: the dictionary after an item is hashed.  A hash already there is *)
(* kept, before any filter is asked; unhashable items are never found.     *)
HashInto(known, item, path) ==
  IF (item \notin Unhashable /\ Key(item) \in DOMAIN known) \/ Hidden(path) THEN known
  ELSE [k \in DOMAIN known \cup {Key(m) : m \in ShownMembers(item, path)} \cup {Key(item)} |->
          IF k = Key(item) THEN FreshHash(item, path)
          ELSE IF k \in DOMAIN known THEN known[k]
          ELSE ScalarHash(CHOOSE m \in ShownMembers(item, path) : Key(m) = k)]

(* _hash of an iterable itself: the dictionary after all its items.        *)
HashAll(known, items) ==
  LET After[n \in 0 .. Len(items)] ==
        IF n = 0 THEN known
        ELSE IF Hidden(<<n - 1>>) THEN After[n - 1]
        ELSE HashInto(After[n - 1], items[n], <<n - 1>>)
  IN  After[Len(items)]

(* deep_hash[item], NotHashed for a KeyError.                              *)
Found(known, item) == IF Key(item) \in DOMAIN known THEN known[Key(item)] ELSE NotHashed

(* _add_hash.                                                              *)
AddHash(t, hash, i) ==
  IF hash = NotHashed THEN t
  ELSE [h \in DOMAIN t \cup {hash} |->
          (IF h \in DOMAIN t THEN t[h] ELSE {}) \cup (IF h = hash THEN {i} ELSE {})]

(* Mutant: workers are given the path of the iterable, not of the item.    *)
FreshTableAtIterable(items) ==
  LET hash == [n \in DOMAIN items |-> FreshHash(items[n], <<>>)]
  IN  [h \in ToSet(hash) \ {NotHashed} |-> {n - 1 : n \in {k \in DOMAIN items : hash[k] = h}}]

(* The table workers make: each hashes its item alone, at the item's path. *)
FreshTable(items) ==
  LET hash == [n \in DOMAIN items |-> FreshHash(items[n], <<n - 1>>)]
  IN  [h \in ToSet(hash) \ {NotHashed} |-> {n - 1 : n \in {k \in DOMAIN items : hash[k] = h}}]

(***************************************************************************)
(* The run                                                                 *)
(***************************************************************************)
EmptyTable == [h \in {} |-> {}]

Init ==
  /\ \E pair \in Inputs : input = [t1 |-> pair[1], t2 |-> pair[2]]
  /\ filter \in Filters
  /\ use_mp \in BOOLEAN
  /\ side = "t1"
  /\ index = 0
  /\ hashes = EmptyTable
  /\ table = [s \in Sides |-> EmptyTable]
  /\ inWorkers = [s \in Sides |-> FALSE]

(* The pool answered with the hashes, in the order of the items.           *)
HashInWorkers ==
  /\ side \in Sides
  /\ use_mp
  /\ index = 0
  /\ input[side] # <<>>
  /\ table' = [table EXCEPT ![side] = FreshTable(input[side])]
  /\ inWorkers' = [inWorkers EXCEPT ![side] = TRUE]
  /\ index' = Len(input[side])
  /\ UNCHANGED <<input, filter, use_mp, side, hashes>>

(* Serially, or because the pool answered None: the next item.             *)
HashNextItem ==
  /\ side \in Sides
  /\ index < Len(input[side])
  /\ LET item == input[side][index + 1] IN
     /\ hashes' = HashInto(hashes, item, <<index>>)
     /\ table' = [table EXCEPT ![side] = AddHash(@, Found(hashes', item), index)]
  /\ index' = index + 1
  /\ UNCHANGED <<input, filter, use_mp, side, inWorkers>>

(* The iterable is hashed in this process, and with it its items: those    *)
(* the workers hashed become known here only now.                          *)
HashIterable ==
  /\ side \in Sides
  /\ index = Len(input[side])
  /\ hashes' = HashAll(hashes, input[side])
  /\ side' = IF side = "t1" THEN "t2" ELSE "done"
  /\ index' = 0
  /\ UNCHANGED <<input, filter, use_mp, table, inWorkers>>

(* A worker's exception is DeepDiff's.                                     *)
SectionRaises ==
  /\ side \in Sides
  /\ use_mp
  /\ index = 0
  /\ input[side] # <<>>
  /\ side' = "raised"
  /\ UNCHANGED <<input, filter, use_mp, index, hashes, table, inWorkers>>

Finished == side \in {"done", "raised"} /\ UNCHANGED vars

Next == HashInWorkers \/ HashNextItem \/ HashIterable \/ SectionRaises \/ Finished

Spec == Init /\ [][Next]_vars

(***************************************************************************)
(* Properties                                                              *)
(***************************************************************************)
Positions == {p \in Sides \X (0 .. Len(input.t1) + Len(input.t2)) : p[2] < Len(input[p[1]])}
ItemAt(p) == input[p[1]][p[2] + 1]
FreshAt(p) == FreshHash(ItemAt(p), <<p[2]>>)

(* The positions whose items have been put in a table.                     *)
HashedPositions ==
  {p \in Positions :
     \/ side = "done" \/ (side = "t2" /\ p[1] = "t1")
     \/ p[1] = side /\ p[2] < index}

(* The hash under which the table has the item, NotHashed if it has not.   *)
TableHash(p) ==
  LET found == {h \in DOMAIN table[p[1]] : p[2] \in table[p[1]][h]}
  IN  IF found = {} THEN NotHashed ELSE CHOOSE h \in found : TRUE

(* What an item hashed alone at its path enters in hashes.                 *)
EnteredAt(q) ==
  {<<Key(ItemAt(q)), FreshAt(q)>>} \cup
  IF Hidden(<<q[2]>>) THEN {}
  ELSE {<<Key(m), ScalarHash(m)>> : m \in ShownMembers(ItemAt(q), <<q[2]>>)}

(* No item with the key of this one has another hash, or is filtered,      *)
(* somewhere in the two iterables.                                         *)
Unshared(p) ==
  \A q \in Positions : \A e \in EnteredAt(q) : e[1] = Key(ItemAt(p)) => e[2] = FreshAt(p)

(* Sharing hashes changes no table by itself: an item is under the hash it *)
(* has alone at its path, the one a worker finds, unless it shares its key.*)
HashesAreOwnUnlessShared ==
  \A p \in HashedPositions : Unshared(p) => TableHash(p) = FreshAt(p)

(* Serially, hashable items with one key never meet under two hashes: they *)
(* are never reported as added and removed, whatever paths are filtered.   *)
EqualItemsMeet ==
  \A p \in HashedPositions, q \in HashedPositions :
    (/\ ~inWorkers[p[1]] /\ ~inWorkers[q[1]]
     /\ ItemAt(p) \notin Unhashable /\ Key(ItemAt(p)) = Key(ItemAt(q)))
      => NotHashed \in {TableHash(p), TableHash(q)} \/ TableHash(p) = TableHash(q)

=============================================================================
