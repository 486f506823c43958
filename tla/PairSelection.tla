--------------------------- MODULE PairSelection ---------------------------
(***************************************************************************)
(* _get_most_in_common_pairs_in_iterables of deepdiff/diff.py: the greedy  *)
(* choice of which removed item each added item is compared with.          *)
(*                                                                         *)
(* Items are known by their hashes.  The distance of a pair is an input:   *)
(* whether it was precalculated, measured by a worker, found in the cache  *)
(* or measured here, it is the same number (see ParallelBatch for the      *)
(* workers).  SetOrdered.pop takes one element of the set, and the model   *)
(* lets it be any.                                                         *)
(***************************************************************************)
EXTENDS Naturals, Pairing

CONSTANTS
  Added,    \* hashes of the items only t2 has
  Removed,  \* hashes of the items only t1 has
  MaxDist,  \* distances are 0 .. MaxDist, a scale for [0, 1]
  Cutoff,   \* cutoff_distance_for_pairs, on that scale
  NoHash    \* no from_hash in hand

ASSUME PairAssumption ==
  /\ Added \cap Removed = {}
  /\ NoHash \notin Added \cup Removed
  /\ MaxDist \in Nat
  /\ Cutoff \in Nat

Distances == 0 .. MaxDist

VARIABLES
  distance,    \* rough distance of each added and removed item
  looped,      \* removed items that are their own parents: "Loop is detected"
  phase,       \* "measure", "select", "invert" or "done"
  toHashes,    \* most_in_common_pairs: from_hash -> distance -> to_hashes
  fromHashes,  \* distances_to_from_hashes: distance -> from_hashes
  current,     \* the from_hash being paired, at
  currentDist, \*   this distance
  used,        \* used_to_hashes
  pairs        \* from_hash -> to_hash, and its inverse at the end

input == <<distance, looped>>
vars  == <<input, phase, toHashes, fromHashes, current, currentDist, used, pairs>>

(* Pairs that are close enough to be compared.                             *)
Near == {p \in Added \X Removed : p[2] \notin looped /\ distance[p] < Cutoff}

NoPairs == [h \in {} |-> NoHash]

Init ==
  /\ distance \in [Added \X Removed -> Distances]
  /\ looped \in SUBSET Removed
  /\ phase = "measure"
  /\ toHashes = [a \in Added |-> [d \in Distances |-> {}]]
  /\ fromHashes = [d \in Distances |-> {}]
  /\ current = NoHash
  /\ currentDist = 0
  /\ used = {}
  /\ pairs = NoPairs

(* The nested loop over added and removed hashes, and the grouping of the  *)
(* from_hashes by distance.                                                *)
Measure ==
  /\ phase = "measure"
  /\ toHashes' = [a \in Added |-> [d \in Distances |->
                    {r \in Removed : <<a, r>> \in Near /\ distance[<<a, r>>] = d}]]
  /\ fromHashes' = [d \in Distances |-> {a \in Added : toHashes'[a][d] # {}}]
  /\ phase' = "select"
  /\ UNCHANGED <<input, current, currentDist, used, pairs>>

(* Mutant: the distances are not sorted.                                   *)
AtAnyDistance(d) ==
  /\ phase = "select"
  /\ current = NoHash
  /\ fromHashes[d] # {}

(* "for dist in sorted(...)": d is the smallest distance that still has a  *)
(* from_hash, and no from_hash is in hand.                                 *)
AtDistance(d) ==
  /\ phase = "select"
  /\ current = NoHash
  /\ fromHashes[d] # {}
  /\ \A e \in Distances : e < d => fromHashes[e] = {}

(* Mutant: the first from_hash of a distance is the only one.              *)
PopFromOnly(d, a) ==
  /\ AtDistance(d)
  /\ a \in fromHashes[d]
  /\ fromHashes' = [fromHashes EXCEPT ![d] = {}]
  /\ IF a \in used
       THEN UNCHANGED <<current, currentDist>>
       ELSE current' = a /\ currentDist' = d
  /\ UNCHANGED <<input, phase, toHashes, used, pairs>>

(* Mutant: the from_hash is looked at, not popped.                         *)
PeekFrom(d, a) ==
  /\ AtDistance(d)
  /\ a \in fromHashes[d]
  /\ IF a \in used
       THEN UNCHANGED <<current, currentDist>>
       ELSE current' = a /\ currentDist' = d
  /\ UNCHANGED <<input, phase, toHashes, fromHashes, used, pairs>>

(* Pop a from_hash; one that was used at a shorter distance is dropped.    *)
PopFrom(d, a) ==
  /\ AtDistance(d)
  /\ a \in fromHashes[d]
  /\ fromHashes' = [fromHashes EXCEPT ![d] = @ \ {a}]
  /\ IF a \in used
       THEN UNCHANGED <<current, currentDist>>
       ELSE current' = a /\ currentDist' = d
  /\ UNCHANGED <<input, phase, toHashes, used, pairs>>

(* Mutant: only the from_hash is marked as used.                           *)
PopToUnmarked(r) ==
  /\ current # NoHash
  /\ r \in toHashes[current][currentDist]
  /\ toHashes' = [toHashes EXCEPT ![current][currentDist] = @ \ {r}]
  /\ IF r \in used
       THEN UNCHANGED <<used, pairs>>
       ELSE /\ used' = used \cup {current}
            /\ pairs' = [a \in DOMAIN pairs \cup {current} |->
                           IF a = current THEN r ELSE pairs[a]]
  /\ UNCHANGED <<input, phase, fromHashes, current, currentDist>>

(* Pop a to_hash for the from_hash in hand.  The loop goes on after a      *)
(* match: a second free to_hash at this distance replaces the first, which *)
(* stays used.                                                             *)
PopTo(r) ==
  /\ current # NoHash
  /\ r \in toHashes[current][currentDist]
  /\ toHashes' = [toHashes EXCEPT ![current][currentDist] = @ \ {r}]
  /\ IF r \in used
       THEN UNCHANGED <<used, pairs>>
       ELSE /\ used' = used \cup {current, r}
            /\ pairs' = [a \in DOMAIN pairs \cup {current} |->
                           IF a = current THEN r ELSE pairs[a]]
  /\ UNCHANGED <<input, phase, fromHashes, current, currentDist>>

(* Mutant: a from_hash that found no to_hash is recorded as paired.        *)
DropFromPaired ==
  /\ current # NoHash
  /\ toHashes[current][currentDist] = {}
  /\ current' = NoHash
  /\ pairs' = [a \in DOMAIN pairs \cup {current} |->
                 IF a \in DOMAIN pairs THEN pairs[a] ELSE NoHash]
  /\ UNCHANGED <<input, phase, toHashes, fromHashes, currentDist, used>>

DropFrom ==
  /\ current # NoHash
  /\ toHashes[current][currentDist] = {}
  /\ current' = NoHash
  /\ UNCHANGED <<input, phase, toHashes, fromHashes, currentDist, used, pairs>>

(* pairs.update(inverse_pairs).                                            *)
Invert ==
  /\ phase = "select"
  /\ current = NoHash
  /\ \A d \in Distances : fromHashes[d] = {}
  /\ pairs' = WithInverse(pairs)
  /\ phase' = "done"
  /\ UNCHANGED <<input, toHashes, fromHashes, current, currentDist, used>>

Finished == phase = "done" /\ UNCHANGED vars

Next ==
  \/ Measure
  \/ \E d \in Distances, a \in Added : PopFrom(d, a)
  \/ \E r \in Removed : PopTo(r)
  \/ DropFrom \/ Invert \/ Finished

Spec == Init /\ [][Next]_vars

(* One thread runs the selection to its end.                               *)
FairSpec == Spec /\ WF_vars(Next)

(***************************************************************************)
(* Properties                                                              *)
(***************************************************************************)
(* Types; before the inversion pairs maps added hashes only.               *)
TypeOK ==
  /\ distance \in [Added \X Removed -> Distances]
  /\ looped \subseteq Removed
  /\ phase \in {"measure", "select", "done"}
  /\ toHashes \in [Added -> [Distances -> SUBSET Removed]]
  /\ fromHashes \in [Distances -> SUBSET Added]
  /\ current \in Added \cup {NoHash}
  /\ currentDist \in Distances
  /\ used \subseteq Added \cup Removed
  /\ DOMAIN pairs \subseteq Added \cup Removed
  /\ \A h \in DOMAIN pairs : pairs[h] \in Added \cup Removed

(* The dictionary handed to the report loop is symmetrical, one to one and *)
(* within the cutoff, however the sets are popped.                         *)
SelectsAPairing == phase = "done" => IsPairing(pairs, Added, Removed, Near)

(* "Get the closest pairs": an added item is paired with a removed item    *)
(* only if each closer one was taken for an added item at least as near.   *)
ClosestFirst ==
  phase = "done" =>
    \A a \in Added \cap DOMAIN pairs, r \in Removed :
      <<a, r>> \in Near /\ distance[<<a, r>>] < distance[<<a, pairs[a]>>] =>
        \E b \in used \cap Added : /\ r \in used
                                  /\ <<b, r>> \in Near
                                  /\ distance[<<b, r>>] <= distance[<<a, r>>]

(* No near pair is overlooked: of an added and a removed item that are     *)
(* near each other, at least one was used.  (That it was used does not     *)
(* mean that it is paired: see PopTo.)                                     *)
NearPairsAreTried ==
  phase = "done" => \A p \in Near : p[1] \in used \/ p[2] \in used

(* The selection ends.                                                     *)
SelectionEnds == <>(phase = "done")
=============================================================================
