----------------------------- MODULE MCDiffTree -----------------------------
(* A small instance of DiffTree: lists whose items move, lists without     *)
(* order, in one process and with workers, iterables without a path,       *)
(* attributes, dictionaries with every key of up to two characters, and    *)
(* keys that are written as two others are.                                *)
EXTENDS DiffTree

K(text) == Element(Get, "str", text)
Ix(digit) == Element(Get, "int", <<digit>>)
Attr(name) == Element(GetAttr, "str", <<name>>)
None == NoElement

Scalar == [kind |-> "scalar", items |-> << >>]
Obj(kind, items) == [kind |-> kind, items |-> items]
Indexes == <<Ix("0"), Ix("1"), Ix("2")>>
ListOf(kind, objects) ==
  Obj(kind, [e \in { Indexes[i] : i \in DOMAIN objects } |-> objects[CHOOSE i \in DOMAIN objects : Indexes[i] = e]])

KeyX == <<"x">>
KeyY == <<"y">>

(* Two keys, one in the other, and a key that is written as the two are.   *)
KeyXQuote == <<"x", "'">>
KeyYQuote == <<"y", "'">>
KeyOfBoth == KeyXQuote \o <<"\"", "]", "[", "\"">> \o KeyYQuote

Fixed ==
  [ s0 |-> Scalar, s1 |-> Scalar, s2 |-> Scalar, s3 |-> Scalar, s4 |-> Scalar, s5 |-> Scalar,
    \* a list of a list and a dictionary; both move and change
    outer1 |-> ListOf("list", <<"inner1", "dict1", "s0">>),
    outer2 |-> ListOf("list", <<"dict2", "s5", "inner2">>),
    inner1 |-> ListOf("list", <<"s1", "s2", "s3">>),
    inner2 |-> ListOf("list", <<"s4", "s5", "s2">>),
    dict1 |-> Obj("dict", K(KeyX) :> "s1" @@ K(KeyY) :> "inner1"),
    dict2 |-> Obj("dict", K(KeyX) :> "s2" @@ K(KeyY) :> "inner2"),
    \* the first list has lost what the second one has got
    split1 |-> ListOf("list", <<"short1", "long1">>),
    split2 |-> ListOf("list", <<"short2", "long2">>),
    short1 |-> ListOf("list", <<"s1", "s2">>),
    short2 |-> ListOf("list", <<"s1">>),
    long1 |-> ListOf("list", <<"s3">>),
    long2 |-> ListOf("list", <<"s3", "s4">>),
    \* an iterable that is no sequence, an object
    two1 |-> Obj("dict", K(KeyX) :> "gen1" @@ K(KeyY) :> "obj1"),
    two2 |-> Obj("dict", K(KeyX) :> "gen2" @@ K(KeyY) :> "obj2"),
    gen1 |-> ListOf("generator", <<"s1", "s2", "s3">>),
    gen2 |-> ListOf("generator", <<"s2", "s3">>),
    obj1 |-> Obj("obj", Attr("x") :> "gen1" @@ Attr("y") :> "s1"),
    obj2 |-> Obj("obj", Attr("x") :> "gen2"),
    \* lists at paths with one text lose an item and get one, or both get one
    merge1 |-> Obj("dict", K(KeyOfBoth) :> "long1" @@ K(KeyXQuote) :> "below1"),
    merge2 |-> Obj("dict", K(KeyOfBoth) :> "empty2" @@ K(KeyXQuote) :> "below2"),
    lose1 |-> Obj("dict", K(KeyOfBoth) :> "empty1" @@ K(KeyXQuote) :> "below1"),
    lose2 |-> Obj("dict", K(KeyOfBoth) :> "short2" @@ K(KeyXQuote) :> "below2"),
    below1 |-> Obj("dict", K(KeyYQuote) :> "empty1"),
    below2 |-> Obj("dict", K(KeyYQuote) :> "short2"),
    empty1 |-> ListOf("list", << >>),
    empty2 |-> ListOf("list", << >>) ]

(* {key1: {key2: value}} for keys of up to two characters, and both keys   *)
(* of one.                                                                 *)
Texts(n) == UNION { [1 .. i -> KeyChars] : i \in 0 .. n }
KeyPairs == (Texts(2) \X {KeyX}) \cup (Texts(1) \X Texts(1))

Chars(text) == [i \in 1 .. 2 |-> IF i <= Len(text) THEN text[i] ELSE ""]
Inside(side, text) == side \o "inside" \o Chars(text)[1] \o Chars(text)[2]
Outer(side, pair) == Inside(side, pair[1]) \o " " \o Chars(pair[2])[1]

Keyed(side) ==
  [name \in { Outer(side, p) : p \in KeyPairs } |->
     LET pair == CHOOSE p \in KeyPairs : Outer(side, p) = name
     IN  Obj("dict", K(pair[1]) :> Inside(side, pair[2]))]
  @@ [name \in { Inside(side, text) : text \in Texts(1) } |->
        LET key == CHOOSE text \in Texts(1) : Inside(side, text) = name
        IN  Obj("dict", K(key) :> (IF side = "1" THEN "s1" ELSE "s2"))]

(* A definition that names another is evaluated once.                      *)
AllObjects == Fixed @@ Keyed("1") @@ Keyed("2")
MCObjects == AllObjects

-----------------------------------------------------------------------------
Same(elements) == [i \in DOMAIN elements |-> <<elements[i], elements[i]>>]
Gone(e) == <<e, None>>
New(e) == <<None, e>>

I0 == Ix("0")
I1 == Ix("1")
I2 == Ix("2")

DictPairs == <<"dict1", "dict2">> :> Same(<<K(KeyX), K(KeyY)>>)

TwoPairs ==
  <<"two1", "two2">> :> Same(<<K(KeyX), K(KeyY)>>) @@
  <<"obj1", "obj2">> :> (<<Gone(Attr("y"))>> \o Same(<<Attr("x")>>)) @@
  <<"gen1", "gen2">> :> (Same(<<I0, I1>>) \o <<Gone(I2)>>)

(* The items that a comparison function matches, in the order of t1.       *)
Moving(inner) ==
  DictPairs @@ <<"outer1", "outer2">> :> <<<<I0, I2>>, <<I1, I0>>, Gone(I2), New(I1)>>
  @@ <<"inner1", "inner2">> :> inner

MovingInner ==
  { <<<<I0, I0>>, <<I1, I2>>, Gone(I2), New(I1)>>,
    <<<<I0, I1>>, <<I1, I2>>, <<I2, I0>>>>,
    <<Gone(I0), <<I1, I2>>, <<I2, I1>>, New(I0)>>,
    <<Gone(I0), <<I1, I1>>, Gone(I2), New(I0), New(I2)>>,
    <<<<I0, I2>>, <<I1, I1>>, <<I2, I0>>>> }

(* Without order: what is added or has a partner, in the order of t2, then *)
(* what is removed.  s2 is in both inner lists.                            *)
Unordered(outer, inner) ==
  DictPairs @@ <<"outer1", "outer2">> :> outer @@ <<"inner1", "inner2">> :> inner

UnorderedOuter ==
  { <<<<I1, I0>>, New(I1), <<I0, I2>>, Gone(I2)>>,
    <<<<I1, I0>>, <<I2, I1>>, <<I0, I2>>>> }

UnorderedInner ==
  { <<New(I0), New(I1), Gone(I0), Gone(I2)>>,
    <<<<I2, I0>>, New(I1), Gone(I0)>>,
    <<<<I2, I0>>, <<I0, I1>>>> }

SplitPairs ==
  <<"split1", "split2">> :> Same(<<I0, I1>>)
  @@ <<"short1", "short2">> :> <<Gone(I1)>> @@ <<"long1", "long2">> :> <<New(I1)>>

QuotedPairs(t1, t2) ==
  <<t1, t2>> :> Same(<<K(KeyOfBoth), K(KeyXQuote)>>) @@ <<"below1", "below2">> :> Same(<<K(KeyYQuote)>>)
  @@ <<"long1", "empty2">> :> <<Gone(I0)>> @@ <<"empty1", "short2">> :> <<New(I0)>>

Compared(t1, t2, compare, workers, pairs) ==
  [t1 |-> t1, t2 |-> t2, compare |-> compare, workers |-> workers, pairs |-> pairs]

KeyedPairs(pair) ==
  <<Outer("1", pair), Outer("2", pair)>> :> Same(<<K(pair[1])>>)
  @@ <<Inside("1", pair[2]), Inside("2", pair[2])>> :> Same(<<K(pair[2])>>)

MCScenarios ==
  { Compared("outer1", "outer2", TRUE, FALSE, Moving(inner)) : inner \in MovingInner }
  \cup { Compared("outer1", "outer2", FALSE, workers, Unordered(outer, inner)) :
           workers \in BOOLEAN, outer \in UnorderedOuter, inner \in UnorderedInner }
  \cup { Compared("split1", "split2", FALSE, workers, SplitPairs) : workers \in BOOLEAN }
  \cup { Compared("two1", "two2", FALSE, FALSE, TwoPairs) }
  \cup { Compared("merge1", "merge2", FALSE, FALSE, QuotedPairs("merge1", "merge2")) }
  \cup { Compared("lose1", "lose2", FALSE, FALSE, QuotedPairs("lose1", "lose2")) }
  \cup { Compared(Outer("1", pair), Outer("2", pair), FALSE, FALSE, KeyedPairs(pair)) : pair \in KeyPairs }

=============================================================================
