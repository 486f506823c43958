---------------------------- MODULE MCTraversal -----------------------------
(* A small instance of Traversal: two trees with dictionaries, lists,      *)
(* objects and an integer key, some graphs with loops, and calls with      *)
(* every kind of filter.                                                   *)
EXTENDS Traversal

KeyA == Key(Str("a"))
KeyB == Key(Str("b"))
KeyP == Key(Str("__p"))
Int0 == Key(Int1("0"))
Index1 == Key(Int1("1"))
Index2 == Key(Int1("2"))
AttrX == Attr("x")
AttrY == Attr("y")

Scalar(type, value) == [type |-> type, value |-> value, items |-> << >>]
Container(type, items) == [type |-> type, value |-> "", items |-> items]

AllObjects ==
  [ one |-> Scalar("int", "1"), two |-> Scalar("int", "2"), text |-> Scalar("str", "1"),
    again |-> Scalar("int", "1"),
    tree1 |-> Container("dict", KeyA :> "inner1" @@ KeyB :> "list1" @@ KeyP :> "one" @@ Int0 :> "leaf1"),
    tree2 |-> Container("dict", KeyA :> "inner2" @@ KeyB :> "list2" @@ KeyP :> "two" @@ Int0 :> "leaf2"),
    inner1 |-> Container("dict", KeyA :> "one" @@ KeyB :> "two"),
    inner2 |-> Container("dict", KeyA :> "two" @@ KeyB :> "text"),
    list1 |-> Container("list", Int0 :> "one" @@ Index1 :> "obj1"),
    list2 |-> Container("list", Int0 :> "again" @@ Index1 :> "obj2" @@ Index2 :> "text"),
    obj1 |-> Container("obj", AttrX :> "one" @@ AttrY :> "leaf1"),
    obj2 |-> Container("obj", AttrX :> "two" @@ AttrY :> "leaf2"),
    leaf1 |-> Container("dict", KeyA :> "one"),
    leaf2 |-> Container("dict", KeyB :> "two" @@ Int0 :> "one"),
    \* the same for ever: self loops, and a loop of two
    loop1 |-> Container("dict", KeyA :> "loop1" @@ KeyB :> "one"),
    loop2 |-> Container("dict", KeyA :> "loop3" @@ KeyB :> "again"),
    loop3 |-> Container("dict", KeyA :> "loop2" @@ KeyB :> "one"),
    \* not the same
    loop4 |-> Container("dict", KeyA :> "loop5" @@ KeyB :> "one"),
    loop5 |-> Container("dict", KeyA :> "loop4" @@ KeyB :> "two"),
    ring1 |-> Container("list", Int0 :> "ring1"),
    ring2 |-> Container("list", Int0 :> "ring2" @@ Index1 :> "one") ]

(* A definition that names another is evaluated once.                      *)
MCHeap == AllObjects

MCPrivate == {"__p"}

NoOpts ==
  [ exclude |-> {}, exclude_globs |-> {}, exclude_regex |-> {}, exclude_types |-> {},
    exclude_objs |-> {}, exclude_objs_strict |-> {}, include |-> {}, include_globs |-> {},
    include_objs |-> {}, include_objs_strict |-> {},
    threshold |-> TRUE, max_diffs |-> None ]

Trees(options) == { [t1 |-> "tree1", t2 |-> "tree2", opts |-> o] : o \in options }

(* Every graph with a loop against every other, and two trees.             *)
Graphs == {"loop1", "loop2", "loop3", "loop4", "loop5", "ring1", "ring2", "leaf1", "one", "again"}
GraphCases ==
  { [t1 |-> a, t2 |-> b, opts |-> [NoOpts EXCEPT !.threshold = th]] :
      a \in Graphs, b \in Graphs, th \in BOOLEAN }

LimitCases == Trees({ [NoOpts EXCEPT !.max_diffs = m, !.threshold = FALSE] : m \in {0, 1, 3, 6, 12} })

(* Paths of the trees, with and without an integer key and an attribute.   *)
Paths ==
  { <<>>, <<KeyA>>, <<KeyB>>, <<Int0>>, <<KeyA, KeyA>>, <<KeyA, KeyB>>, <<KeyB, Int0>>,
    <<KeyB, Index1>>, <<KeyB, Index2>>, <<KeyB, Index1, AttrX>>, <<KeyB, Index1, AttrY>>,
    <<KeyB, Index1, AttrY, KeyB>>, <<Int0, KeyA>>, <<Int0, Int0>> }

Patterns ==
  { p \in UNION { [1 .. n -> {Str("a"), Int1("0"), OneElement, AnyElements}] : n \in 1 .. 3 } :
      \E i \in DOMAIN p : p[i] \in {OneElement, AnyElements} }

PathCases == Trees(
  { [NoOpts EXCEPT !.exclude = {p}, !.threshold = th] : p \in Paths, th \in BOOLEAN }
  \cup { [NoOpts EXCEPT !.include = {p}, !.threshold = FALSE] : p \in Paths }
  \cup { [NoOpts EXCEPT !.include = {p}, !.exclude = {q}] : p, q \in Paths })

PatternCases == Trees(
  { [NoOpts EXCEPT !.exclude_globs = {p}] : p \in Patterns }
  \cup { [NoOpts EXCEPT !.include_globs = {p}, !.threshold = FALSE] : p \in Patterns }
  \cup { [NoOpts EXCEPT !.include = {<<KeyB, Index1>>}, !.include_globs = {p}] : p \in Patterns })

ObjectCases == Trees(
  { [NoOpts EXCEPT !.exclude_types = {"str"}],
    [NoOpts EXCEPT !.exclude_types = {"list"}, !.include = {<<KeyB>>}],
    [NoOpts EXCEPT !.exclude_objs = {"leaf2"}, !.threshold = FALSE],
    [NoOpts EXCEPT !.exclude_objs_strict = {"inner1", "inner2", "obj1", "two"}, !.threshold = FALSE],
    [NoOpts EXCEPT !.include_objs_strict = {"inner1", "inner2", "one", "two", "text"}],
    [NoOpts EXCEPT !.include_objs_strict = {"inner1", "inner2", "two"}, !.exclude = {<<KeyA>>}],
    [NoOpts EXCEPT !.include_objs_strict = {"inner1"}, !.include_objs = {"inner2", "two"}],
    [NoOpts EXCEPT !.exclude_regex = {<<KeyA>>, <<Int0, Int0>>}, !.threshold = FALSE],
    [NoOpts EXCEPT !.include_objs = {"inner1", "one"}],
    [NoOpts EXCEPT !.include_objs = {"inner1", "one"}, !.exclude = {<<KeyA>>}],
    \* excluded, not included, and taken back
    [NoOpts EXCEPT !.include_objs = {"text"}, !.include = {<<KeyB, Int0>>}, !.exclude = {<<KeyB, Index2>>}] })

MCCases == GraphCases \cup LimitCases \cup PathCases \cup PatternCases \cup ObjectCases

=============================================================================
