----------------------------- MODULE ListDelta ------------------------------
(***************************************************************************)
(* A Delta made from two lists, or two tuples, and what becomes of it and  *)
(* of the objects it is added to and subtracted from (deepdiff/delta.py).  *)
(*                                                                         *)
(* A Delta outlives its uses: its dictionary, the reverse of it that the   *)
(* first subtraction makes, the conversions it has to undo at the end and  *)
(* the object it works on are attributes, which one use leaves to the      *)
(* next.  At any time it may be written out as flat rows and made again    *)
(* from them.  The steps of __add__ are the actions; those that find       *)
(* nothing in a dictionary of this kind (sets, attributes) are left out.   *)
(* The option force is off, fill is not given.                             *)
(***************************************************************************)
EXTENDS UnorderedDelta

CONSTANTS
  Modes,          \* the ways lists are compared: "unordered", see
                  \* UnorderedDelta, and those of InOrderDiff
  Kinds,          \* "list" and "tuple"
  PairsOf,        \* the pairs <<t1, t2>> that are compared in each mode
  OthersOf,       \* other items a delta meets in each mode
  NoItem,         \* the None that holds the place of a moved item
  MaxCalls,       \* how often a delta is used
  UseAfterError   \* does the caller go on with a delta that has raised?

ASSUME ListDeltaAssumption ==
  /\ Modes \subseteq {"basic", "zip", "dict", "compare", "unordered"}
  /\ Kinds \subseteq {"list", "tuple"}
  /\ MaxCalls \in Nat
  /\ UseAfterError \in BOOLEAN

VARIABLES
  mode, t1, t2,             \* what the delta was made from
  bidirectional, raise_errors,  \* its options
  func_was_used,            \* self._iterable_compare_func_was_used
  reloaded,                 \* has it been made again from flat rows?
  diff,                     \* self.diff
  reversed_diff,            \* self._reversed_diff: <<>> or one dictionary
  post_process,             \* self.post_process_paths_to_convert: is the root in it?
  root,                     \* self.root
  pc,                       \* the next step of __add__, or "idle"
  call,                     \* the current or last call: operator and operand
  outcome,                  \* of the last call
  calls                     \* calls so far

made == <<mode, t1, t2, bidirectional, raise_errors>>
vars == <<made, func_was_used, reloaded, diff, reversed_diff, post_process, root, pc, call, outcome, calls>>

Obj(kind, items) == [kind |-> kind, items |-> items]
Objects == {t1, t2} \cup { Obj(kind, s) : kind \in Kinds, s \in OthersOf[mode] }

NoCall == [op |-> "none", arg |-> Obj("list", <<>>)]
NoOutcome == [status |-> "none", obj |-> Obj("list", <<>>)]

Init ==
  /\ mode \in Modes
  /\ \E kind \in Kinds, p \in PairsOf[mode] :
       /\ t1 = Obj(kind, p[1])
       /\ t2 = Obj(kind, p[2])
       /\ diff \in IF mode = "unordered" THEN UnorderedDeltas(p[1], p[2]) ELSE Deltas(mode, p[1], p[2])
  /\ bidirectional \in BOOLEAN
  /\ raise_errors \in BOOLEAN
  /\ func_was_used = (mode = "compare")
  /\ reloaded = FALSE
  /\ reversed_diff = <<>>
  /\ post_process = FALSE
  /\ root = Obj("list", <<>>)
  /\ pc = "idle"
  /\ call = NoCall
  /\ outcome = NoOutcome
  /\ calls = 0

-----------------------------------------------------------------------------
(* _get_reverse_diff.  Only what it names is carried over: the reverse     *)
(* does not say that an iterable_compare_func was used.                    *)
ReverseOpcode(o) ==
  [tag |-> CASE o.tag = "insert" -> "delete" [] o.tag = "delete" -> "insert"
             [] o.tag \in {"replace", "equal"} -> o.tag,
   t1_from_index |-> o.t2_from_index, t1_to_index |-> o.t2_to_index,
   t2_from_index |-> o.t1_from_index, t2_to_index |-> o.t1_to_index,
   old_values |-> o.new_values, new_values |-> o.old_values]

(* Mutant: the old path stays the key of the reversed change.              *)
ReverseInPlace(c) == Change(c.path, c.path, c.field, c.new_value, c.old_value)

ReverseChange(c) == Change(c.new_path, c.new_path, c.field, c.new_value, c.old_value)

(* A dictionary by path: of two changes that come to one path the last is  *)
(* kept, in the place of the first.                                        *)
ReverseChanges(changes) ==
  LET reversed == [n \in DOMAIN changes |-> ReverseChange(changes[n])]
      same(n) == { m \in DOMAIN reversed :
                     reversed[m].path = reversed[n].path /\ reversed[m].field = reversed[n].field }
      firsts == SetToSortSeq({ n \in DOMAIN reversed : n = Min(same(n)) }, LAMBDA m, n : m < n)
  IN  [k \in DOMAIN firsts |-> reversed[Max(same(firsts[k]))]]

ReverseMoves(moved) ==
  [k \in { moved[i].new_path : i \in DOMAIN moved } |->
     LET i == CHOOSE i \in DOMAIN moved : moved[i].new_path = k
     IN  [new_path |-> i, value |-> moved[i].value]]

ReverseDiff(d) ==
  [values_changed |-> ReverseChanges(d.values_changed),
   iterable_item_removed |-> d.iterable_item_added,
   iterable_item_added |-> d.iterable_item_removed,
   iterable_item_moved |-> ReverseMoves(d.iterable_item_moved),
   iterable_opcodes |-> [n \in DOMAIN d.iterable_opcodes |-> ReverseOpcode(d.iterable_opcodes[n])],
   items_added_at |-> d.items_removed_at,
   items_removed_at |-> d.items_added_at,
   compare_func_was_used |-> FALSE]

-----------------------------------------------------------------------------
(* A step of __add__ works on the root, the conversions to undo and an     *)
(* error: "none"; "raised", a DeltaError; "crashed", any other exception.  *)
(* After an error nothing more happens.                                    *)
Work == [root |-> root, post_process |-> post_process, error |-> "none"]

RaiseOrLog(w) == IF raise_errors THEN [w EXCEPT !.error = "raised"] ELSE w

(* _do_verify_changes *)
Verify(w, expected, current) ==
  IF bidirectional /\ expected # current THEN RaiseOrLog(w) ELSE w

(* A tuple is made a list, to be made a tuple again at the end.            *)
Coerced(w) ==
  IF w.root.kind = "tuple"
  THEN [w EXCEPT !.root.kind = "list", !.post_process = TRUE]
  ELSE w

(* _simple_set_elem_value for an index of the root.                        *)
SetElem(w, k, value) ==
  LET items == w.root.items
  IN  CASE k < Len(items) -> [w EXCEPT !.root.items[k + 1] = value]
        [] k = Len(items) -> [w EXCEPT !.root.items = Append(items, value)]
        [] k > Len(items) -> RaiseOrLog(w)

(* The path of a change leads to an item, or to a key of one, if the root  *)
(* is long enough.                                                         *)
Found(w, k) == k < Len(w.root.items)
Current(w, k, field) == Get(At(w.root.items, k), field)

(* With an iterable_compare_func the changes are applied at new_path.      *)
ApplyPath(d, c) == IF d.compare_func_was_used THEN c.new_path ELSE c.path

(* Mutant: the value is set, and not verified.                             *)
ChangeUnverified(w, d, c) ==
  LET k == ApplyPath(d, c)
  IN  IF Found(w, k)
      THEN IF c.field = "item"
           THEN SetElem(Coerced(w), k, c.new_value)
           ELSE [w EXCEPT !.root.items[k + 1][c.field] = c.new_value]
      ELSE RaiseOrLog(w)

(* One round of _do_values_or_type_changed: the value is set, and then     *)
(* the one it replaced is verified.                                        *)
ChangeValue(w, d, c) ==
  LET k == ApplyPath(d, c)
      set == IF c.field = "item"
             THEN SetElem(Coerced(w), k, c.new_value)
             ELSE [w EXCEPT !.root.items[k + 1][c.field] = c.new_value]
  IN  IF Found(w, k)
      THEN Verify(set, c.old_value, Current(w, k, c.field))
      ELSE RaiseOrLog(w)

(* _find_closest_iterable_element_for_index: the set of the index, or {}.  *)
Distance(i, k) == IF i < k THEN k - i ELSE i - k

ClosestIndex(items, k, value) ==
  LET at == { i \in Indexes(items) : At(items, i) = value }
      nearest == { i \in at : \A j \in at : Distance(i, k) <= Distance(j, k) }
  IN  IF at = {} THEN {} ELSE {Min(nearest)}

(* Mutant: the index counts in every list.                                 *)
IndexToRemove(w, k, value) == {k} \cap Indexes(w.root.items)

(* The element that _do_item_removed deletes, if any.  In a list that is   *)
(* not matched by an iterable_compare_func the value counts, the index     *)
(* otherwise.                                                              *)
ElemToRemove(w, k, value) ==
  LET items == w.root.items
      here == {k} \cap Indexes(items)
  IN  IF \/ \E i \in here : At(items, i) = value
         \/ w.root.kind = "tuple"
         \/ func_was_used
      THEN here
      ELSE ClosestIndex(items, k, value)

RemoveItem(w, k, value) ==
  LET elem == ElemToRemove(w, k, value)
      i == CHOOSE i \in elem : TRUE
      deleted == [Coerced(w) EXCEPT !.root.items = RemoveAt(@, i + 1)]
  IN  IF elem = {} THEN w ELSE Verify(deleted, value, At(w.root.items, i))

(* One round of _do_item_added.  A tuple has no insert.                    *)
AddItem(w, k, value, insert) ==
  CASE insert /\ k < Len(w.root.items) ->
         IF w.root.kind = "tuple"
         THEN [w EXCEPT !.error = "crashed"]
         ELSE [w EXCEPT !.root.items = InsertAt(@, k + 1, value)]
    [] ~insert \/ k >= Len(w.root.items) -> SetElem(Coerced(w), k, value)

(* All the rounds, one for each entry of the dictionary, until an error.   *)
Rounds(Round(_, _), w, entries) ==
  FoldLeft(LAMBDA acc, e : IF acc.error = "none" THEN Round(acc, e) ELSE acc, w, entries)

Ascending(f) == SetToSortSeq(DOMAIN f, LAMBDA i, j : i < j)
Descending(f) == SetToSortSeq(DOMAIN f, LAMBDA i, j : i > j)

RemoveItems(w, items) ==
  Rounds(LAMBDA acc, k : RemoveItem(acc, k, items[k]), w, Descending(items))

AddItems(w, items, insert) ==
  Rounds(LAMBDA acc, k : AddItem(acc, k, items[k], insert), w, Ascending(items))

(* _do_iterable_opcodes rewrites the root, and verifies nothing.           *)
Slice(s, from, to) == SubSeq(s, from + 1, Min({to, Len(s)}))

Transformed(items, opcodes) ==
  FlattenSeq([n \in DOMAIN opcodes |->
    IF opcodes[n].tag = "equal"
    THEN Slice(items, opcodes[n].t1_from_index, opcodes[n].t1_to_index)
    ELSE opcodes[n].new_values])

-----------------------------------------------------------------------------
(* A use begins.  A subtraction makes the reverse, the first time, and     *)
(* swaps the two; a delta that is not bidirectional refuses it.            *)
Begin(o, obj) ==
  /\ pc = "idle"
  /\ calls < MaxCalls
  /\ UseAfterError \/ outcome.status \in {"none", "returned"}
  /\ calls' = calls + 1
  /\ call' = [op |-> o, arg |-> obj]
  /\ outcome' = NoOutcome
  /\ root' = obj
  /\ pc' = "values_changed"
  /\ UNCHANGED <<made, func_was_used, reloaded, post_process>>

Add(obj) ==
  /\ Begin("+", obj)
  /\ UNCHANGED <<diff, reversed_diff>>

Subtract(obj) ==
  /\ bidirectional
  /\ Begin("-", obj)
  /\ diff' = IF reversed_diff = <<>> THEN ReverseDiff(diff) ELSE reversed_diff[1]
  /\ reversed_diff' = <<diff>>

(* A step ends, or the exception leaves the delta as it is: __rsub__ does  *)
(* not swap the dictionaries back, and nothing is reset.                   *)
Continue(w, next) ==
  /\ root' = w.root
  /\ post_process' = w.post_process
  /\ IF w.error = "none"
     THEN pc' = next /\ UNCHANGED outcome
     ELSE pc' = "idle" /\ outcome' = [NoOutcome EXCEPT !.status = w.error]
  /\ UNCHANGED <<made, func_was_used, reloaded, call, calls>>

DoValuesChanged ==
  /\ pc = "values_changed"
  /\ Continue(Rounds(LAMBDA w, c : ChangeValue(w, diff, c), Work, diff.values_changed),
              "iterable_opcodes")
  /\ UNCHANGED <<diff, reversed_diff>>

DoIterableOpcodes ==
  /\ pc = "iterable_opcodes"
  /\ Continue(IF diff.iterable_opcodes = <<>> THEN Work
              ELSE [Work EXCEPT !.root.items = Transformed(root.items, diff.iterable_opcodes)],
              "item_removed")
  /\ UNCHANGED <<diff, reversed_diff>>

(* What moved is removed too, to be added back.  It is put into the very   *)
(* dictionary of the delta, if there is one, which the reverse shares.     *)
MovedValues(d) ==
  [k \in DOMAIN d.iterable_item_moved |-> d.iterable_item_moved[k].value]

DoIterableItemRemoved ==
  LET removed == MovedValues(diff) @@ diff.iterable_item_removed
      shared == diff.iterable_item_removed # <<>>
  IN  /\ pc = "item_removed"
      /\ Continue(RemoveItems(Work, removed), "item_added")
      /\ diff' = IF shared THEN [diff EXCEPT !.iterable_item_removed = removed] ELSE diff
      /\ reversed_diff' = IF shared /\ reversed_diff # <<>>
                          THEN <<[reversed_diff[1] EXCEPT !.iterable_item_added = removed]>>
                          ELSE reversed_diff

(* First a placeholder is put where an item has moved to, among the added, *)
(* and then the item in its place.                                         *)
PlacesOf(d) == { d.iterable_item_moved[k].new_path : k \in DOMAIN d.iterable_item_moved }

MovedTo(d) ==
  [j \in PlacesOf(d) |->
     LET k == CHOOSE k \in DOMAIN d.iterable_item_moved : d.iterable_item_moved[k].new_path = j
     IN  d.iterable_item_moved[k].value]

(* Mutant: what moved is inserted once more.                               *)
InsertAddedAndMoved(w, d) ==
  LET placed == AddItems(w, [j \in PlacesOf(d) |-> NoItem] @@ d.iterable_item_added, TRUE)
  IN  Rounds(LAMBDA acc, k : AddItem(acc, k, MovedTo(d)[k], TRUE), placed, Ascending(MovedTo(d)))

AddAddedAndMoved(w, d) ==
  LET placed == AddItems(w, [j \in PlacesOf(d) |-> NoItem] @@ d.iterable_item_added, TRUE)
  IN  Rounds(LAMBDA acc, k : AddItem(acc, k, MovedTo(d)[k], FALSE), placed, Ascending(MovedTo(d)))

DoIterableItemAdded ==
  /\ pc = "item_added"
  /\ Continue(AddAddedAndMoved(Work, diff), "ignore_order")
  /\ UNCHANGED <<diff, reversed_diff>>

(* _do_ignore_order puts a new list, or tuple, in the place of the root.   *)
IgnoreOrder(w, d) ==
  LET added == d.items_added_at
      removed == d.items_removed_at
      rebuilt == Rebuilt(w.root.items, added, removed)
      placed == [w EXCEPT !.root.items = rebuilt.items]
  IN  IF rebuilt.missing \/ FailsToRemove(w.root.items, added, removed)
      THEN RaiseOrLog(placed) ELSE placed

DoIgnoreOrder ==
  /\ pc = "ignore_order"
  /\ Continue(IgnoreOrder(Work, diff), "post_process")
  /\ UNCHANGED <<diff, reversed_diff>>

(* _do_post_process makes the root a tuple again if it was one; then the   *)
(* end of __add__ and, for a subtraction, of __rsub__.                     *)
PostProcess ==
  LET result == IF post_process THEN [root EXCEPT !.kind = "tuple"] ELSE root
  IN  /\ pc = "post_process"
      /\ pc' = "idle"
      /\ outcome' = [status |-> "returned", obj |-> result]
      /\ root' = NoOutcome.obj
      /\ post_process' = FALSE
      /\ IF call.op = "-"
         THEN diff' = reversed_diff[1] /\ reversed_diff' = <<diff>>
         ELSE UNCHANGED <<diff, reversed_diff>>
      /\ UNCHANGED <<made, func_was_used, reloaded, call, calls>>

-----------------------------------------------------------------------------
(* Flat rows: one for each entry of the dictionary.  What begins with an   *)
(* underscore is not in them, but for the opcodes.  The rows of sets,      *)
(* attributes, dictionary items and types, which a list does not make, are *)
(* left out.                                                               *)
Row(action, path, value) == [action |-> action, path |-> path, value |-> value]

RowsOf(action, items) ==
  LET order == SetToSortSeq(DOMAIN items, LAMBDA i, j : i < j)
  IN  [n \in DOMAIN order |-> Row(action, order[n], items[order[n]])]

RowsAt(action, places) ==
  [n \in DOMAIN places |-> Row(action, places[n].index, places[n].value)]

ToFlatRows(d) ==
  [n \in DOMAIN d.values_changed |-> Row("values_changed", d.values_changed[n].path, d.values_changed[n])]
    \o RowsOf("iterable_item_added", d.iterable_item_added)
    \o RowsOf("iterable_item_removed", d.iterable_item_removed)
    \o RowsOf("iterable_item_moved", d.iterable_item_moved)
    \o RowsAt("unordered_iterable_item_added", d.items_added_at)
    \o RowsAt("unordered_iterable_item_removed", d.items_removed_at)
    \o [n \in DOMAIN d.iterable_opcodes |-> Row(d.iterable_opcodes[n].tag, 0, d.iterable_opcodes[n])]

OpcodeTags == {"insert", "delete", "replace", "equal"}

FromFlatRows(rows) ==
  LET of(actions) == SelectSeq(rows, LAMBDA row : row.action \in actions)
      values(actions) == [n \in DOMAIN of(actions) |-> of(actions)[n].value]
      byPath(action) == [k \in { row.path : row \in Range(of({action})) } |->
                           (CHOOSE row \in Range(of({action})) : row.path = k).value]
      places(action) == [n \in DOMAIN of({action}) |-> Place(of({action})[n].path, of({action})[n].value)]
  IN  [values_changed |-> values({"values_changed"}),
       iterable_item_added |-> byPath("iterable_item_added"),
       iterable_item_removed |-> byPath("iterable_item_removed"),
       iterable_item_moved |-> byPath("iterable_item_moved"),
       items_added_at |-> places("unordered_iterable_item_added"),
       items_removed_at |-> places("unordered_iterable_item_removed"),
       iterable_opcodes |-> values(OpcodeTags),
       compare_func_was_used |-> FALSE]

(* A new Delta is made of the rows of this one, if there are any, with the *)
(* same options and with or without iterable_compare_func_was_used.        *)
Reload ==
  /\ pc = "idle"
  /\ ~reloaded
  /\ UseAfterError \/ outcome.status \in {"none", "returned"}
  /\ ToFlatRows(diff) # <<>>
  /\ diff' = FromFlatRows(ToFlatRows(diff))
  /\ func_was_used' \in {FALSE, func_was_used}
  /\ reloaded' = TRUE
  /\ reversed_diff' = <<>>
  /\ post_process' = FALSE
  /\ call' = NoCall
  /\ outcome' = NoOutcome
  /\ UNCHANGED <<made, root, pc, calls>>

Next ==
  \/ \E obj \in Objects : Add(obj) \/ Subtract(obj)
  \/ DoValuesChanged
  \/ DoIterableOpcodes
  \/ DoIterableItemRemoved
  \/ DoIterableItemAdded
  \/ DoIgnoreOrder
  \/ PostProcess
  \/ Reload

Spec == Init /\ [][Next]_vars

-----------------------------------------------------------------------------
Count(s, value) == Cardinality({ i \in DOMAIN s : s[i] = value })

Returned(op, obj) == outcome.status = "returned" /\ call = [op |-> op, arg |-> obj]

(* What a subtraction does not restore, see SubtractionGivesT1.            *)
MovedItemsChanged ==
  /\ mode = "compare"
  /\ \E i \in Indexes(t1.items), j \in Indexes(t2.items) :
       /\ i # j
       /\ At(t1.items, i).id = At(t2.items, j).id
       /\ At(t1.items, i) # At(t2.items, j)

(* A tuple that only gets more items, which has no insert.                 *)
Within(s, t) ==
  \E f \in [DOMAIN s -> DOMAIN t] :
    \A m, n \in DOMAIN s : s[n] = t[f[n]] /\ (m < n => f[m] < f[n])
OnlyGrows(from, to) ==
  from.kind = "tuple" /\ 0 < Len(from.items) /\ Len(from.items) < Len(to.items) /\ Within(from.items, to.items)

(* Without order: a pair of items, as many of the one in t1 as of the      *)
(* other in t2 if a change of each place is to do; and a place in t2 is    *)
(* known only of an item that is there once.  The reverse does not know    *)
(* how many there were in t1 of an item that both lists have.              *)
Unpaired(from, to) == Range(from.items) \ Range(to.items)

UnevenPairs ==
  \E x \in Unpaired(t1, t2), y \in Unpaired(t2, t1) : Count(t1.items, x) # Count(t2.items, y)

RepeatedPairs ==
  /\ Unpaired(t1, t2) # {}
  /\ \E y \in Unpaired(t2, t1) : Count(t2.items, y) > 1

RepetitionsChange ==
  \E x \in Range(t1.items) \cap Range(t2.items) : Count(t1.items, x) # Count(t2.items, x)

(* The uses of a delta are those of DeltaContract: t1 + delta is t2 and    *)
(* t2 - delta is t1, of the same type and without a false alarm, however   *)
(* often the delta has been used before and on whatever objects, and made  *)
(* again from its flat rows; what it makes of other objects keeps their    *)
(* type.  Excepted are items that have both moved and changed, when they   *)
(* are restored or once the rows have lost that an iterable_compare_func   *)
(* was used; tuples that only get more items; and, without order, some     *)
(* items that are repeated.                                                *)
Excepted ==
  [op \in {"+", "-"} |->
     \/ IF op = "+" THEN OnlyGrows(t1, t2) ELSE OnlyGrows(t2, t1)
     \/ (op = "-" \/ reloaded) /\ MovedItemsChanged
     \/ mode = "unordered" /\ (UnevenPairs \/ (op = "-" /\ (RepeatedPairs \/ RepetitionsChange)))]

Contract == INSTANCE DeltaContract WITH lossy <- Excepted, unordered <- mode = "unordered"

MeetsContract == Contract!Spec

(* t2 - delta is t1: "so that we can use the delta object both for         *)
(* addition and subtraction" (deepdiff/docstrings/delta.rst:445).          *)
SubtractionGivesT1 == Returned("-", t2) => outcome.obj = t1

(* t1 + delta is t2: ">>> t1 + delta == t2" (deepdiff/docstrings/          *)
(* delta.rst:123), and "Fixed tuple Deltas using iterable opcodes silently *)
(* doing nothing for insert/delete-only changes" (changelog.rst:16).       *)
AdditionGivesT2 ==
  call = [op |-> "+", arg |-> t1] /\ outcome.status # "none" => Returned("+", t1) /\ outcome.obj = t2

(* A bidirectional delta that raises its errors returns only if every      *)
(* value it changed was the one it expected.                               *)
Applied == IF call.op = "+" THEN diff ELSE reversed_diff[1]

ChangesAreVerified ==
  bidirectional /\ raise_errors /\ outcome.status = "returned" =>
    \A n \in DOMAIN Applied.values_changed :
      LET c == Applied.values_changed[n]
          k == ApplyPath(Applied, c)
      IN  k < Len(call.arg.items) /\ Get(At(call.arg.items, k), c.field) = c.old_value

(* No placeholder is left in what a use returns, not even in an object the *)
(* delta was not made for.                                                 *)
NoPlaceholderIsLeft == NoItem \notin Range(outcome.obj.items)

(* From a list that no iterable_compare_func has matched, only items of    *)
(* the values to remove are removed, and each at most once, whatever list  *)
(* it is.                                                                  *)
RemovesWhatItNames ==
  [][pc = "item_removed" /\ root.kind = "list" /\ mode # "compare" =>
       \A value \in Range(root.items) :
         Count(root.items, value) - Count(root'.items, value)
           <= Cardinality({ k \in DOMAIN diff.iterable_item_removed :
                              diff.iterable_item_removed[k] = value })]_vars

=============================================================================
