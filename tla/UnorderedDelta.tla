---------------------------- MODULE UnorderedDelta ----------------------------
(***************************************************************************)
(* What a Delta keeps of two lists that were compared without order, with  *)
(* ignore_order and report_repetition (which a Delta requires): the report *)
(* of _diff_iterable_with_deephash (deepdiff/diff.py) as DeltaResult turns *)
(* it into a dictionary (deepdiff/model.py), and how _do_ignore_order      *)
(* (deepdiff/delta.py) rebuilds a list from it.                            *)
(*                                                                         *)
(* Items are of basic types; an item is its own hash.  Which of them are   *)
(* paired is left open: any Pairing.  Places are a sequence of records     *)
(* [index, value], in the order of the dictionary.                         *)
(***************************************************************************)
EXTENDS InOrderDiff, Pairing

IndexesOf(s, x) == { i \in Indexes(s) : At(s, i) = x }
Place(index, value) == [index |-> index, value |-> value]

(* The hashes in S in the order in which the list has them.                *)
InOrderOf(s, S) == SetToSortSeq(S, LAMBDA x, y : Min(IndexesOf(s, x)) < Min(IndexesOf(s, y)))

(* Every place of the items in S.                                          *)
PlacesIn(s, S) ==
  LET order == InOrderOf(s, S)
      places(x) == LET is == SetToSortSeq(IndexesOf(s, x), LAMBDA i, j : i < j)
                   IN  [n \in DOMAIN is |-> Place(is[n], x)]
  IN  FlattenSeq([n \in DOMAIN order |-> places(order[n])])

(* A paired item of t2 changes what it is paired with, at each index that  *)
(* t1 has it; the place in t2 is known if there is one only.               *)
ChangesOf(t1, t2, added, removed) ==
  LET index2(i, x) == IF Cardinality(IndexesOf(t2, x)) = 1 THEN Min(IndexesOf(t2, x)) ELSE i
      changes(x, y) == LET is == SetToSortSeq(IndexesOf(t1, y), LAMBDA i, j : i < j)
                       IN  [n \in DOMAIN is |-> Change(is[n], index2(is[n], x), "item", y, x)]
  IN  FlattenSeq([n \in DOMAIN added |-> changes(added[n], removed[n])])

(* The dictionary of a delta.  A repetition that changes is all the places *)
(* of the item in t2; nothing is kept of those in t1.                      *)
UnorderedDict(t1, t2, pairs) ==
  LET added == Range(t2) \ Range(t1)
      removed == Range(t1) \ Range(t2)
      paired == InOrderOf(t2, added \cap DOMAIN pairs)
      repeated == { x \in Range(t1) \cap Range(t2) :
                      Cardinality(IndexesOf(t1, x)) # Cardinality(IndexesOf(t2, x)) }
  IN  [DeltaDict("zip", <<>>, <<>>, [levels |-> {}, opcodes |-> <<>>]) EXCEPT
         !.values_changed = ChangesOf(t1, t2, paired, [n \in DOMAIN paired |-> pairs[paired[n]]]),
         !.items_added_at = PlacesIn(t2, added \ DOMAIN pairs) \o PlacesIn(t2, repeated),
         !.items_removed_at = PlacesIn(t1, removed \ DOMAIN pairs)]

UnorderedDeltas(t1, t2) ==
  LET added == Range(t2) \ Range(t1)
      removed == Range(t1) \ Range(t2)
  IN  { UnorderedDict(t1, t2, pairs) : pairs \in Pairings(added, removed, added \X removed) }

-----------------------------------------------------------------------------
(* _do_ignore_order_get_old: the items that stay.  Those with an added     *)
(* value go, wherever they are; the removed go if they are where they are  *)
(* expected.                                                               *)
ValueAt(places, i) == { places[n].value : n \in { m \in DOMAIN places : places[m].index = i } }
Values(places) == { places[n].value : n \in DOMAIN places }

OldItems(items, added, removed) ==
  LET old == [n \in DOMAIN items |-> [index |-> n - 1, value |-> items[n]]]
      stays(p) == p.value \notin Values(added) /\ p.value \notin ValueAt(removed, p.index)
      kept == SelectSeq(old, stays)
  IN  [n \in DOMAIN kept |-> kept[n].value]

(* An item to remove that is not the expected one.                         *)
FailsToRemove(items, added, removed) ==
  \E i \in Indexes(items) :
    /\ At(items, i) \notin Values(added)
    /\ ValueAt(removed, i) \notin {{}, {At(items, i)}}

(* The new list position by position: the item added at this index, or the *)
(* next old item, or, when these are used up, any that is left to add.     *)
PlaceNext(s) ==
  LET here == SelectSeq(s.added, LAMBDA p : p.index = Len(s.items))
      others == SelectSeq(s.added, LAMBDA p : p.index # Len(s.items))
  IN  IF here # <<>>
      THEN [s EXCEPT !.items = Append(@, here[1].value), !.added = others]
      ELSE IF s.old # <<>>
      THEN [s EXCEPT !.items = Append(@, Head(s.old)), !.old = Tail(@)]
      ELSE [s EXCEPT !.items = Append(@, Head(s.added).value), !.added = Tail(@), !.missing = TRUE]

Rebuilt(items, added, removed) ==
  LET old == OldItems(items, added, removed)
      start == [items |-> <<>>, old |-> old, added |-> added, missing |-> FALSE]
  IN  FoldLeft(LAMBDA s, n : PlaceNext(s), start, [n \in 1 .. Len(old) + Len(added) |-> n])

=============================================================================
