------------------------------ MODULE PathText ------------------------------
(***************************************************************************)
(* The texts of paths, root['a'][0].b: how a ChildRelationship writes an   *)
(* element (deepdiff/model.py), how _path_to_elements reads a text again,  *)
(* and how the elements are followed in an object (deepdiff/path.py).      *)
(*                                                                         *)
(* A text is a sequence of characters, without the word root.  An element  *)
(* is [action, kind, text]: an action of Actions, a kind "str", "int",     *)
(* "*" or "**", and its characters.  The characters of keys are those of   *)
(* KeyChars: letters stand for all characters that no function looks at,   *)
(* so no key begins like a bytes or an f-string literal.  The backslash    *)
(* and the escape character of stringify_element, which is written only    *)
(* when no quotes are asked for, are left out.                             *)
(***************************************************************************)
EXTENDS Integers, Sequences, SequencesExt

Get == "GET"
GetAttr == "GETATTR"
Actions == {Get, GetAttr}

Letters == {"x", "y"}
Digits == {"0", "1", "2"}
Quotes == {"'", "\""}
KeyChars == Letters \cup Quotes \cup {"[", "]", ".", "*", "_"}

Element(action, kind, text) == [action |-> action, kind |-> kind, text |-> text]

Has(text, char) == char \in Range(text)
HasBothQuotes(e) == Has(e.text, "'") /\ Has(e.text, "\"")

(* The elements there are: keys of any text, indexes and integer keys, and *)
(* attributes, whose names have none of the characters that end one.  Keys *)
(* that are neither strings nor integers are left out.                     *)
IsElement(e) ==
  /\ e \in [action : Actions, kind : {"str", "int"}, text : Seq(STRING)]
  /\ e.action = GetAttr => e.kind = "str"
  /\ e.action = GetAttr \/ e.kind = "int" => Range(e.text) \cap (Quotes \cup {"[", "]", "."}) = {}

-----------------------------------------------------------------------------
(* Writing.                                                                *)

(* stringify_element, and the repr of an index; quoted says whether the    *)
(* relationship has a quote_str.                                           *)
StringifyElement(text, quoted) ==
  IF Has(text, "'") THEN <<"\"">> \o text \o <<"\"">>
  ELSE IF quoted \/ Has(text, "\"") THEN <<"'">> \o text \o <<"'">>
  ELSE text

(* get_param_repr of the relationships that can be subscripted.            *)
ParamRepr(e) ==
  IF e.action = GetAttr THEN <<".">> \o StringifyElement(e.text, FALSE)
  ELSE <<"[">> \o (IF e.kind = "int" THEN e.text ELSE StringifyElement(e.text, TRUE)) \o <<"]">>

TextOf(elements) == FlattenSeq([i \in DOMAIN elements |-> ParamRepr(elements[i])])

-----------------------------------------------------------------------------
(* Reading.                                                                *)

Inner(elem) == SubSeq(elem, 2, Len(elem) - 1)
Quoted(elem) == elem[1] = Last(elem) /\ elem[1] \in Quotes

(* What literal_eval, or the removal of the quotes when it fails, makes of *)
(* an element.                                                             *)
Literal(elem) ==
  IF Range(elem) \subseteq Digits THEN [kind |-> "int", text |-> elem]
  ELSE [kind |-> "str", text |-> IF Quoted(elem) THEN Inner(elem) ELSE elem]

Private(elem) == Len(elem) >= 2 /\ elem[1] = "_" /\ elem[2] = "_"

(* _add_to_elements                                                        *)
AddToElements(elements, elem, inside) ==
  LET action == IF inside = "." THEN GetAttr ELSE Get
  IN  IF elem = <<>> \/ Private(elem) THEN elements
      ELSE IF elem \in {<<"*">>, <<"*", "*">>}
      THEN Append(elements, Element(action, IF Len(elem) = 1 THEN "*" ELSE "**", <<>>))
      ELSE Append(elements, Element(action, Literal(elem).kind, Literal(elem).text))

(* Where _path_to_elements is after some characters.                       *)
Reading == [elements |-> <<>>, elem |-> <<>>, inside |-> "", brackets |-> 0, quote |-> ""]

Flush(r) == [r EXCEPT !.elements = AddToElements(@, r.elem, r.inside), !.elem = <<>>]
Keep(r, char) == [r EXCEPT !.elem = Append(@, char)]

(* Mutant: any quote closes the key.                                       *)
ReadQuoteOfAnyKind(r, char) ==
  LET kept == Keep(r, char)
  IN  IF r.quote = "" THEN [kept EXCEPT !.quote = char] ELSE [Flush(kept) EXCEPT !.quote = ""]

(* A quote opens, closes the quote of its kind, or is part of the key.     *)
ReadQuote(r, char) ==
  LET kept == Keep(r, char)
  IN  CASE r.quote = ""   -> [kept EXCEPT !.quote = char]
        [] r.quote = char -> [Flush(kept) EXCEPT !.quote = ""]
        [] OTHER          -> kept

ReadOpening(r) ==
  CASE r.inside = "." -> [Flush(r) EXCEPT !.inside = "["]
    [] r.inside = "[" -> Keep(r, "[")
    [] OTHER          -> [r EXCEPT !.inside = "[", !.brackets = @ + 1, !.elem = <<>>]

ReadDot(r) ==
  CASE r.inside = "[" -> Keep(r, ".")
    [] r.inside = "." -> Flush(r)
    [] OTHER          -> [r EXCEPT !.inside = ".", !.elem = <<>>]

ReadClosing(r) ==
  LET left == IF r.brackets > 0 THEN r.brackets - 1 ELSE 0
  IN  IF left > 0 THEN [Keep(r, "]") EXCEPT !.brackets = left]
      ELSE [Flush(r) EXCEPT !.brackets = 0, !.inside = ""]

ReadChar(r, char) ==
  CASE char \in Quotes -> ReadQuote(r, char)
    [] char \notin Quotes /\ r.quote # "" -> Keep(r, char)
    [] r.quote = "" /\ char = "[" -> ReadOpening(r)
    [] r.quote = "" /\ char = "." -> ReadDot(r)
    [] r.quote = "" /\ char = "]" -> ReadClosing(r)
    [] OTHER -> Keep(r, char)

PathToElements(text) == Flush(FoldLeft(ReadChar, Reading, text)).elements

-----------------------------------------------------------------------------
(* _get_nested_obj: from the root on, element by element, items[o] being   *)
(* the items of object o by element; nowhere, if there is no such item.    *)
(* check_elem refuses names that begin and end with two underscores, keys  *)
(* included.                                                               *)
Refused(e) == Private(e.text) /\ Private(Reverse(e.text)) /\ e.kind = "str"

GetNestedObj(items, nowhere, root, elements) ==
  FoldLeft(LAMBDA o, e : IF o # nowhere /\ ~Refused(e) /\ e \in DOMAIN items[o] THEN items[o][e] ELSE nowhere,
           root, elements)

=============================================================================
