------------------------------ MODULE GlobPath ------------------------------
(***************************************************************************)
(* The matcher of wildcard paths, class GlobPathMatcher (deepdiff/path.py).*)
(*                                                                         *)
(* A pattern and a target are sequences of elements, without the root, as  *)
(* _path_to_elements makes them of their texts.  An element is a record    *)
(* [kind, text]: of kind "str" or "int", a key, an index or the name of an *)
(* attribute; of kind "*" or "**", in patterns only, a wildcard.  Whether  *)
(* an element is an attribute does not count here.                         *)
(***************************************************************************)
EXTENDS Integers, Sequences

Str(name) == [kind |-> "str", text |-> name]
Int1(name) == [kind |-> "int", text |-> name]
OneElement == [kind |-> "*", text |-> ""]
AnyElements == [kind |-> "**", text |-> ""]

MatchesOne(elem, target_elem) == elem = OneElement \/ elem = target_elem

(* Mutant: "**" stands for at least one element.                           *)
MatchSegmentsOneOrMore(pattern, target, allow_extra_target) ==
  LET matches[at \in (0 .. Len(pattern)) \X (0 .. Len(target))] ==
        LET pi == at[1]
            ti == at[2]
        IN  IF pi < Len(pattern) /\ ti < Len(target)
            THEN IF pattern[pi + 1] = AnyElements
                 THEN \E k \in ti + 1 .. Len(target) : matches[<<pi + 1, k>>]
                 ELSE MatchesOne(pattern[pi + 1], target[ti + 1]) /\ matches[<<pi + 1, ti + 1>>]
            ELSE /\ \A i \in pi + 1 .. Len(pattern) : pattern[i] = AnyElements
                 /\ allow_extra_target \/ ti = Len(target)
  IN  matches[<<0, 0>>]

(* _match_segments from element pi of the pattern and ti of the target,    *)
(* both counted from 0.                                                    *)
MatchSegments(pattern, target, allow_extra_target) ==
  LET matches[at \in (0 .. Len(pattern)) \X (0 .. Len(target))] ==
        LET pi == at[1]
            ti == at[2]
        IN  IF pi < Len(pattern) /\ ti < Len(target)
            THEN IF pattern[pi + 1] = AnyElements
                 THEN \E k \in ti .. Len(target) : matches[<<pi + 1, k>>]
                 ELSE MatchesOne(pattern[pi + 1], target[ti + 1]) /\ matches[<<pi + 1, ti + 1>>]
            ELSE /\ \A i \in pi + 1 .. Len(pattern) : pattern[i] = AnyElements
                 /\ allow_extra_target \/ ti = Len(target)
  IN  matches[<<0, 0>>]

(* _could_match_descendant                                                 *)
CouldMatchDescendant(pattern, target) ==
  LET could[at \in (0 .. Len(pattern)) \X (0 .. Len(target))] ==
        LET pi == at[1]
            ti == at[2]
        IN  /\ pi < Len(pattern)
            /\ ti < Len(target) =>
                 IF pattern[pi + 1] = AnyElements
                 THEN could[<<pi + 1, ti>>] \/ could[<<pi, ti + 1>>]
                 ELSE MatchesOne(pattern[pi + 1], target[ti + 1]) /\ could[<<pi + 1, ti + 1>>]
  IN  could[<<0, 0>>]

Match(pattern, target) == MatchSegments(pattern, target, FALSE)
MatchOrIsAncestor(pattern, target) == Match(pattern, target) \/ CouldMatchDescendant(pattern, target)
MatchOrIsDescendant(pattern, target) == MatchSegments(pattern, target, TRUE)

-----------------------------------------------------------------------------
(* What the documentation says: "*" is exactly one element, "**" any       *)
(* number of them (docstrings/exclude_paths.rst:69).  A pattern denotes a  *)
(* target if the target can be cut so, end(i) being where element i of the *)
(* pattern ends.                                                           *)
Denotes(pattern, target) ==
  \E cuts \in [1 .. Len(pattern) - 1 -> 0 .. Len(target)] :
    LET end(i) == IF i = 0 THEN 0 ELSE IF i = Len(pattern) THEN Len(target) ELSE cuts[i]
    IN  /\ pattern = <<>> => target = <<>>
        /\ \A i \in DOMAIN pattern :
             IF pattern[i] = AnyElements
             THEN end(i - 1) <= end(i)
             ELSE /\ end(i) = end(i - 1) + 1
                  /\ pattern[i] \in {OneElement, target[end(i)]}

DenotesPrefix(pattern, target) ==
  \E n \in 0 .. Len(target) : Denotes(pattern, SubSeq(target, 1, n))

=============================================================================
