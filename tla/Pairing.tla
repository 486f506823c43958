------------------------------ MODULE Pairing ------------------------------
(***************************************************************************)
(* What _get_most_in_common_pairs_in_iterables promises the code that      *)
(* consumes its dictionary: "The dictionary is going to be symmetrical so  *)
(* any key will be a value too and otherwise" (deepdiff/diff.py).  It says *)
(* nothing of which pairs are chosen: PairSelection does, and is shown to  *)
(* keep this promise; IgnoreOrderDiff relies on no more than this.         *)
(***************************************************************************)
EXTENDS Functions, FiniteSets

(* pairs is symmetrical, one to one, and pairs only an added hash with a   *)
(* removed hash that is near it.                                           *)
IsPairing(pairs, added, removed, near) ==
  /\ DOMAIN pairs \subseteq added \cup removed
  /\ \A h \in DOMAIN pairs : pairs[h] \in DOMAIN pairs /\ pairs[pairs[h]] = h
  /\ \A h \in DOMAIN pairs \cap added : <<h, pairs[h]>> \in near
  /\ \A h \in DOMAIN pairs \cap removed : pairs[h] \in added

(* A one-to-one choice of a removed hash for some added hashes, completed  *)
(* with its inverse.                                                       *)
WithInverse(chosen) ==
  [h \in DOMAIN chosen \cup Range(chosen) |->
     IF h \in DOMAIN chosen THEN chosen[h] ELSE CHOOSE a \in DOMAIN chosen : chosen[a] = h]

Pairings(added, removed, near) ==
  { WithInverse(chosen) : chosen \in
      { c \in UNION {Injection(S, removed) : S \in SUBSET added} :
          \A a \in DOMAIN c : <<a, c[a]>> \in near } }
=============================================================================
