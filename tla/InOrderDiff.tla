----------------------------- MODULE InOrderDiff ----------------------------
(***************************************************************************)
(* What DeepDiff says of two lists whose order matters, and what a Delta   *)
(* keeps of it: _diff_iterable_in_order and what it calls                  *)
(* (deepdiff/diff.py), then mutual_add_removes_to_become_value_changes and *)
(* DeltaResult (deepdiff/model.py).                                        *)
(*                                                                         *)
(* An item is a record [id, v].  The mode says how the lists are compared: *)
(*   "basic"    items of basic types: difflib aligns the lists, unless     *)
(*              pairing position by position says no more                  *)
(*   "zip"      the same with zip_ordered_iterables                        *)
(*   "dict"     items are dictionaries with the keys id and v              *)
(*   "compare"  dictionaries, matched by an iterable_compare_func that     *)
(*              compares their id                                          *)
(* Indexes are those of Python, from 0.  A path is an index and a field:   *)
(* "item" for root[i], "id" or "v" for root[i]['id'] and root[i]['v'].     *)
(***************************************************************************)
EXTENDS Integers, Sequences, FiniteSets, FiniteSetsExt, SequencesExt

Basic(mode) == mode \in {"basic", "zip"}

At(s, i) == s[i + 1]
Indexes(s) == 0 .. Len(s) - 1

Get(item, field) == IF field = "item" THEN item ELSE item[field]

(* One level of the tree, (i, j) being its indexes in t1 and t2; an index  *)
(* the level has not is -1.                                                *)
Level(type, i, j, field) == [type |-> type, i |-> i, j |-> j, field |-> field]

Removed(i) == Level("removed", i, -1, "item")
Added(j) == Level("added", -1, j, "item")

(* One level deeper: a basic item changes as a whole, a dictionary key by  *)
(* key.                                                                    *)
DiffItems(mode, t1, t2, i, j) ==
  { Level("changed", i, j, f) :
      f \in { g \in IF Basic(mode) THEN {"item"} ELSE {"id", "v"} :
                Get(At(t1, i), g) # Get(At(t2, j), g) } }

(* Items i and j have been paired: did the item move, did it change?       *)
DiffPair(mode, t1, t2, i, j) ==
  LET moved == i # j /\ (mode = "compare" \/ At(t1, i) = At(t2, j))
  IN  (IF moved THEN {Level("moved", i, j, "item")} ELSE {})
        \cup (IF moved /\ mode # "compare" THEN {} ELSE DiffItems(mode, t1, t2, i, j))

(* _compare_in_order of t1[a:a2] and t2[b:b2].                             *)
DiffInOrder(mode, t1, t2, a, a2, b, b2) ==
  LET both == Min({a2 - a, b2 - b})
  IN  UNION { DiffPair(mode, t1, t2, a + n, b + n) : n \in 0 .. both - 1 }
        \cup { Removed(i) : i \in a + both .. a2 - 1 }
        \cup { Added(j) : j \in b + both .. b2 - 1 }

(* _get_matching_pairs with an iterable_compare_func: every item of t1, in *)
(* order, takes the first item of t2 that is left and compares equal.      *)
MatchedPairs(t1, t2) ==
  LET match[n \in 0 .. Len(t1)] ==
        IF n = 0 THEN {} ELSE
          LET left == { j \in Indexes(t2) : /\ \A p \in match[n - 1] : p[2] # j
                                            /\ At(t1, n - 1).id = At(t2, j).id }
          IN  match[n - 1] \cup (IF left = {} THEN {} ELSE {<<n - 1, Min(left)>>})
  IN  match[Len(t1)]

(* An item of t2 is added unless an item with its hash has been matched.   *)
DiffMatched(mode, t1, t2) ==
  LET matched == MatchedPairs(t1, t2)
  IN  UNION { DiffPair(mode, t1, t2, p[1], p[2]) : p \in matched }
        \cup { Removed(i) : i \in { k \in Indexes(t1) : \A p \in matched : p[1] # k } }
        \cup { Added(j) : j \in { k \in Indexes(t2) :
                                    \A p \in matched : At(t2, p[2]) # At(t2, k) } }

(* difflib.SequenceMatcher: the pairs of equal items it aligns, in order,  *)
(* as a sequence that ends with the two lengths.  Which of the alignments  *)
(* it finds is its own business; it never leaves equal items in a gap.     *)
Alignments(t1, t2) ==
  LET equals == { <<i, j>> \in Indexes(t1) \X Indexes(t2) : At(t1, i) = At(t2, j) }
      ordered(A) == \A p, q \in A : p[1] < q[1] <=> p[2] < q[2]
      full(A) == \A e \in equals \ A : ~ordered(A \cup {e})
  IN  { Append(SetToSortSeq(A, LAMBDA p, q : p[1] < q[1]), <<Len(t1), Len(t2)>>) :
          A \in { B \in SUBSET equals : ordered(B) /\ full(B) } }

(* The opcodes of an alignment: before each aligned pair the gap, if any,  *)
(* and then the pair.                                                      *)
Opcode(tag, t1, t2, a, a2, b, b2) ==
  [tag |-> tag, t1_from_index |-> a, t1_to_index |-> a2, t2_from_index |-> b, t2_to_index |-> b2,
   old_values |-> IF tag \in {"equal", "none"} THEN <<>> ELSE SubSeq(t1, a + 1, a2),
   new_values |-> IF tag \in {"equal", "none"} THEN <<>> ELSE SubSeq(t2, b + 1, b2)]

Opcodes(t1, t2, pairs) ==
  LET from(n) == IF n = 1 THEN <<0, 0>> ELSE <<pairs[n - 1][1] + 1, pairs[n - 1][2] + 1>>
      gap(n) == LET lo == from(n)
                    hi == pairs[n]
                    tag == CASE lo[1] < hi[1] /\ lo[2] < hi[2] -> "replace"
                             [] lo[1] < hi[1] /\ lo[2] = hi[2] -> "delete"
                             [] lo[1] = hi[1] /\ lo[2] < hi[2] -> "insert"
                             [] lo[1] = hi[1] /\ lo[2] = hi[2] -> "none"
                IN  Opcode(tag, t1, t2, lo[1], hi[1], lo[2], hi[2])
      pair(n) == Opcode(IF n = Len(pairs) THEN "none" ELSE "equal", t1, t2,
                        pairs[n][1], pairs[n][1] + 1, pairs[n][2], pairs[n][2] + 1)
  IN  SelectSeq(FlattenSeq([n \in DOMAIN pairs |-> <<gap(n), pair(n)>>]),
                LAMBDA o : o.tag # "none")

DiffByDifflib(t1, t2, opcodes) ==
  UNION { DiffInOrder("basic", t1, t2, o.t1_from_index, o.t1_to_index,
                      o.t2_from_index, o.t2_to_index) :
            o \in { r \in Range(opcodes) : r.tag # "equal" } }

(* The tree and the opcodes that _diff_iterable_in_order may come to: the  *)
(* opcodes are kept only when pairing in order would have said more.       *)
DiffTrees(mode, t1, t2) ==
  LET inOrder == DiffInOrder(mode, t1, t2, 0, Len(t1), 0, Len(t2))
      byDifflib(opcodes) ==
        LET tree == DiffByDifflib(t1, t2, opcodes)
        IN  CASE Cardinality(tree) <= 1 -> [levels |-> tree, opcodes |-> <<>>]
              [] Cardinality(tree) > 1 /\ Cardinality(tree) >= Cardinality(inOrder) ->
                   [levels |-> inOrder, opcodes |-> <<>>]
              [] Cardinality(tree) > 1 /\ Cardinality(tree) < Cardinality(inOrder) ->
                   [levels |-> tree, opcodes |-> opcodes]
  IN  CASE mode = "basic" ->
             { byDifflib(Opcodes(t1, t2, pairs)) : pairs \in Alignments(t1, t2) }
        [] mode \in {"zip", "dict"} -> { [levels |-> inOrder, opcodes |-> <<>>] }
        [] mode = "compare" -> { [levels |-> DiffMatched(mode, t1, t2), opcodes |-> <<>>] }

-----------------------------------------------------------------------------
(* mutual_add_removes_to_become_value_changes: what is both added and      *)
(* removed at one path has changed there.                                  *)
Mutual(levels) ==
  { k \in { l.i : l \in levels } : Removed(k) \in levels /\ Added(k) \in levels }

(* DiffLevel.path, of t1 or, with use_t2, of t2: once a level has reported *)
(* a move, which only an iterable_compare_func makes it do, the sides are  *)
(* swapped below it.                                                       *)
PathOf(mode, level, use_t2) ==
  IF (mode = "compare") # use_t2 THEN level.j ELSE level.i

Change(path, new_path, field, old, new) ==
  [path |-> path, new_path |-> new_path, field |-> field, old_value |-> old, new_value |-> new]

ChangeOf(mode, t1, t2, level) ==
  Change(PathOf(mode, level, FALSE), PathOf(mode, level, TRUE), level.field,
         Get(At(t1, level.i), level.field), Get(At(t2, level.j), level.field))

(* The dictionary a Delta is made of: what changed, in the order of the    *)
(* tree; what was removed, added and moved, by path; and the opcodes, with *)
(* which the added and the removed are left out.                           *)
DeltaDict(mode, t1, t2, tree) ==
  LET mutual == Mutual(tree.levels)
      of(type) == { l \in tree.levels : l.type = type }
      changed == SetToSortSeq(of("changed"), LAMBDA l, m :
                   l.i < m.i \/ (l.i = m.i /\ l.field = "id" /\ m.field = "v"))
      mutuals == SetToSortSeq(mutual, LAMBDA k, l : k < l)
      reported(S) == IF tree.opcodes = <<>> THEN S ELSE {}
  IN  [values_changed |-> 
         [n \in DOMAIN changed |-> ChangeOf(mode, t1, t2, changed[n])]
           \o [n \in DOMAIN mutuals |->
                 Change(mutuals[n], mutuals[n], "item", At(t1, mutuals[n]), At(t2, mutuals[n]))],
       iterable_item_removed |->
         [k \in reported({ l.i : l \in of("removed") } \ mutual) |-> At(t1, k)],
       iterable_item_added |->
         [k \in reported({ l.j : l \in of("added") } \ mutual) |-> At(t2, k)],
       iterable_item_moved |->
         [k \in { l.i : l \in of("moved") } |->
            LET level == CHOOSE l \in of("moved") : l.i = k
            IN  [new_path |-> level.j, value |-> At(t2, level.j)]],
       iterable_opcodes |-> tree.opcodes,
       items_added_at |-> <<>>, items_removed_at |-> <<>>,
       compare_func_was_used |-> mode = "compare"]

Deltas(mode, t1, t2) == { DeltaDict(mode, t1, t2, tree) : tree \in DiffTrees(mode, t1, t2) }

=============================================================================
