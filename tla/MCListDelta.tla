---------------------------- MODULE MCListDelta -----------------------------
(***************************************************************************)
(* Pairs of lists for each mode.  Items of basic types: all lists of up to *)
(* two items of two values, and longer ones that make opcodes, shifted     *)
(* changes and repeated items.  Dictionaries: two keys with two values, no *)
(* id twice in a list; matched by id, all orders of three of them too.     *)
(***************************************************************************)
EXTENDS ListDelta

CONSTANTS one, two, three, four, five   \* ids

Item(id, v) == [id |-> id, v |-> v]

BasicLists(lists) == { [n \in DOMAIN s |-> Item(s[n], 0)] : s \in lists }

ShortLists == BasicLists(UNION { [1 .. n -> {one, two}] : n \in 0 .. 2 })
LongLists ==
  BasicLists({<<one, two>>, <<one, two, three>>, <<three, one, two>>, <<one, one, two>>,
              <<two, three, four>>, <<one, two, three, four>>, <<two, three, five>>})

MixedLists ==
  BasicLists({<<one, two, three>>, <<three, four, one>>, <<one, one, two>>, <<two, three, one, one>>, <<four, five>>,
              <<one, one, three>>, <<three, two, two>>})

DictLists ==
  { s \in UNION { [1 .. n -> [id : {one, two}, v : 0 .. 1]] : n \in 0 .. 2 } :
      \A m, n \in DOMAIN s : s[m].id = s[n].id => m = n }
Orders ==
  BasicLists({ s \in [1 .. 3 -> {one, two, three}] : Cardinality(Range(s)) = 3 })

MCPairsOf ==
  [basic |-> (ShortLists \X ShortLists) \cup (LongLists \X LongLists),
   zip |-> (ShortLists \X ShortLists),
   dict |-> DictLists \X DictLists,
   unordered |-> (ShortLists \X ShortLists) \cup (MixedLists \X MixedLists),
   compare |-> (DictLists \X DictLists) \cup (Orders \X Orders)
                 \cup (DictLists \X Orders) \cup (Orders \X DictLists)]

MCOthersOf ==
  [basic |-> BasicLists({<<two, three, one>>}), zip |-> BasicLists({<<two, three, one>>}),
   unordered |-> BasicLists({<<two, three, one>>}),
   dict |-> {<<Item(two, 1), Item(one, 0)>>}, compare |-> {<<Item(two, 1), Item(one, 0)>>}]

(* Tuples without repeated items, which can be aligned in one way only.    *)
Distinct == { s \in LongLists : Cardinality(Range(s)) = Len(s) }
MCTuplePairs == [basic |-> Distinct \X Distinct]

MCNoItem == Item(five, 2)
=============================================================================
