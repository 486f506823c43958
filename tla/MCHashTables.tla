---------------------------- MODULE MCHashTables ----------------------------
(***************************************************************************)
(* Iterables of up to two items: the numbers 1 and 1.0, the tuples (1, 2)  *)
(* and (1.0, 2), which Python finds equal, and a list [1, 2], the same     *)
(* object wherever it occurs; filters that hide an item, a member, or all  *)
(* but one item or one member, and both of one item.                       *)
(***************************************************************************)
EXTENDS HashTables

CONSTANTS one, oneFloat, two, pair, pairFloat, list

MembersOf ==
  one :> <<>> @@ oneFloat :> <<>> @@ two :> <<>> @@
  pair :> <<one, two>> @@ pairFloat :> <<oneFloat, two>> @@ list :> <<one, two>>

TypesOf ==
  one :> "int" @@ oneFloat :> "float" @@ two :> "int" @@
  pair :> "tuple" @@ pairFloat :> "tuple" @@ list :> "list"

ValuesOf ==
  one :> "1" @@ oneFloat :> "1" @@ two :> "2" @@
  pair :> "(1, 2)" @@ pairFloat :> "(1, 2)" @@ list :> "[1, 2]"

AllNumbers == {one, oneFloat, two}
Lists      == {list}

SomeItems  == {one, oneFloat, pair, pairFloat, list}
Iterables  == UNION {[1 .. n -> SomeItems] : n \in 0 .. 2}
SomeInputs == Iterables \X Iterables

SomeFilters ==
  [exclude_paths: {{}, {<<0>>}, {<<0, 1>>}, {<<1, 0>>}}, include_paths: {{}, {<<1>>}, {<<1, 0>>}}]
NoFilter == [exclude_paths: {{}}, include_paths: {{}}]
=============================================================================
