----------------------------- MODULE Traversal ------------------------------
(***************************************************************************)
(* The walk of DeepDiff over two graphs of objects: _diff and the          *)
(* functions it calls for each kind of object (deepdiff/diff.py), with the *)
(* filters of paths, types and objects, the limit of work (max_diffs), the *)
(* threshold under which two dictionaries are reported as a whole, and the *)
(* guard against loops (parents_ids).                                      *)
(*                                                                         *)
(* An object is known by its identity.  An element of a path is a record   *)
(* [rel, elem]: rel "get" for a key or an index, "attr" for an attribute,  *)
(* and elem as in GlobPath.  Lists are compared position by position       *)
(* (zip_ordered_iterables); what else can happen to lists is the matter of *)
(* InOrderDiff and IgnoreOrderDiff.                                        *)
(*                                                                         *)
(* Paths are compared by text in the code; a text is here the sequence of  *)
(* its elements.  That is the same as long as no key contains "root", and  *)
(* no attribute has a name that begins with that of another one.           *)
(***************************************************************************)
EXTENDS GlobPath, FiniteSets, TLC

CONSTANTS
  Heap,     \* object -> [type, value, items: function of elements to objects]
  Private,  \* the names that begin with two underscores
  Cases     \* what is compared, and how: records [t1, t2, opts]

Ids == DOMAIN Heap
NotPresent == "not present"
None == -1

Containers == {"dict", "list", "obj"}
Reports == {"values_changed", "type_changes", "dictionary_item_added",
            "dictionary_item_removed", "attribute_added", "attribute_removed",
            "iterable_item_added", "iterable_item_removed"}

Key(elem) == [rel |-> "get", elem |-> elem]
Attr(name) == [rel |-> "attr", elem |-> Str(name)]
Index(i) == Key(Int1(ToString(i - 1)))  \* of position i, from 1

Elements == [kind : {"str", "int", "*", "**"}, text : STRING]

ASSUME HeapAssumption ==
  /\ IsFiniteSet(Ids)
  /\ NotPresent \notin Ids
  /\ \A o \in Ids : IsFiniteSet(DOMAIN Heap[o].items)
  /\ \A o \in Ids : \A s \in DOMAIN Heap[o].items :
       /\ Heap[o].items[s] \in Ids
       /\ s \in [rel : {"get", "attr"}, elem : [kind : {"str", "int"}, text : STRING]]
       /\ s.rel = "attr" => s.elem.kind = "str"
  /\ \A o \in Ids : Heap[o].type \notin Containers => DOMAIN Heap[o].items = {}
  /\ \A o \in Ids : Heap[o].type = "list" =>
       DOMAIN Heap[o].items = { Index(i) : i \in 1 .. Cardinality(DOMAIN Heap[o].items) }

ASSUME CasesAssumption ==
  \A c \in Cases :
    /\ c.t1 \in Ids /\ c.t2 \in Ids
    /\ c.opts.include_globs \cup c.opts.exclude_globs \subseteq Seq(Elements)
    /\ c.opts.include \subseteq Seq([rel : {"get", "attr"}, elem : Elements])

VARIABLES
  case,     \* the arguments of the call
  pending,  \* the levels _diff is about to be called with: at most one
  stack,    \* the containers being compared, the innermost last
  reports,  \* the tree
  count,    \* _stats[DIFF_COUNT]
  limited,  \* _stats[MAX_DIFF_LIMIT_REACHED]
  done      \* DeepDiff() has returned

vars == <<case, pending, stack, reports, count, limited, done>>

opts == case.opts

Elems(path) == [i \in DOMAIN path |-> path[i].elem]

(* A level and the objects on the way to it (parents_ids).                 *)
Level(path, o1, o2, parents) == [path |-> path, o1 |-> o1, o2 |-> o2, parents |-> parents]

Type(o) == IF o = NotPresent THEN "nothing" ELSE Heap[o].type
Objects(level) == {level.o1, level.o2}

-----------------------------------------------------------------------------
(* The filters.                                                            *)

TextBegins(path, p) == Len(p) <= Len(path) /\ SubSeq(path, 1, Len(p)) = p

Includes == opts.include # {} \/ opts.include_globs # {}

(* Mutant: the way to an included path is not let through.                 *)
RelatedToIncludedBelow(path) ==
  \/ \E p \in opts.include : TextBegins(path, p)
  \/ \E g \in opts.include_globs : MatchOrIsAncestor(g, Elems(path))

RelatedToIncluded(path) ==
  \/ \E p \in opts.include : TextBegins(path, p) \/ TextBegins(p, path)
  \/ \E g \in opts.include_globs : MatchOrIsAncestor(g, Elems(path))

(* The conditions that come after that of include_paths, in the order of   *)
(* the code, as a chain of elif.  NotPresent is never among the objects    *)
(* that a callback knows.                                                  *)
ObjectIsExcluded(level) ==
  \/ level.path \in opts.exclude_regex
  \/ \E o \in Objects(level) : Type(o) \in opts.exclude_types
  \/ \E o \in Objects(level) : o \in opts.exclude_objs
  \/ Objects(level) \subseteq opts.exclude_objs_strict

(* include_obj_callback, of one of the two objects; include_obj_callback_  *)
(* strict, of both, is asked only where the former is not given.           *)
IncludesObjects == opts.include_objs # {} \/ opts.include_objs_strict # {}

ObjectIsIncluded(level) ==
  IF opts.include_objs # {}
  THEN Objects(level) \cap opts.include_objs # {}
  ELSE Objects(level) \subseteq opts.include_objs_strict

SkipThis(level) ==
  LET excluded == \/ level.path \in opts.exclude
                  \/ \E g \in opts.exclude_globs : Match(g, Elems(level.path))
  IN  IF Includes /\ level.path # <<>> /\ ~excluded
      THEN ~RelatedToIncluded(level.path)
      ELSE \/ ObjectIsExcluded(level)
           \/ IF IncludesObjects /\ level.path # <<>> THEN ~ObjectIsIncluded(level) ELSE excluded

(* The key is written between quotes, whatever it is.                      *)
SkipThisKey(path, s) ==
  LET key_path == Append(path, Key(Str(s.elem.text)))
  IN  /\ Includes
      /\ ~ \E p \in opts.include : TextBegins(p, key_path) \/ TextBegins(path, p)
      /\ ~ \E g \in opts.include_globs : MatchOrIsAncestor(g, Elems(key_path))

SkipReportForIncludeGlob(path) ==
  /\ opts.include_globs # {}
  /\ ~ \E p \in opts.include : TextBegins(path, p)
  /\ ~ \E g \in opts.include_globs : MatchOrIsDescendant(g, Elems(path))

(* Mutant: the filters are asked of the keys only.                         *)
ReportedUnfiltered(kind, level) ==
  {[kind |-> kind, path |-> level.path, o1 |-> level.o1, o2 |-> level.o2]}

Reported(kind, level) ==
  IF SkipThis(level) \/ SkipReportForIncludeGlob(level.path)
  THEN {} ELSE {[kind |-> kind, path |-> level.path, o1 |-> level.o1, o2 |-> level.o2]}

-----------------------------------------------------------------------------
(* The items of a container that are compared.                             *)
Keys(level, o) ==
  IF Type(o) = "list"
  THEN DOMAIN Heap[o].items
  ELSE { s \in DOMAIN Heap[o].items : s.elem.text \notin Private /\ ~SkipThisKey(level.path, s) }

(* Under threshold_to_diff_deeper = 0.33 of the keys in common?  Excluded  *)
(* keys do not count, as long as they are not attributes.                  *)
TooDifferent(level) ==
  LET keys1 == Keys(level, level.o1)
      keys2 == Keys(level, level.o2)
      text(s) == Append(level.path, Key(s.elem))
      union == { s \in keys1 \cup keys2 :
                   /\ text(s) \notin opts.exclude
                   /\ ~ \E g \in opts.exclude_globs : Match(g, Elems(text(s))) }
  IN  /\ opts.threshold
      /\ Cardinality(union) > 1
      /\ 100 * Cardinality(keys1 \cap keys2) < 33 * Cardinality(union)

Task(kind, s) == [kind |-> kind, step |-> s]

(* The work of _diff_dict is in three loops, the order within a loop being *)
(* that of the keys; a list is one loop over the positions.                *)
DictWork(level) ==
  LET keys1 == Keys(level, level.o1)
      keys2 == Keys(level, level.o2)
  IN  << { Task("added", s) : s \in keys2 \ keys1 },
         { Task("removed", s) : s \in keys1 \ keys2 },
         { Task("common", s) : s \in keys1 \cap keys2 } >>

(* Mutant: zip instead of zip_longest.                                     *)
ListWorkZip(level) ==
  LET len(o) == Cardinality(DOMAIN Heap[o].items)
      shortest == IF len(level.o1) < len(level.o2) THEN len(level.o1) ELSE len(level.o2)
  IN  [i \in 1 .. shortest |-> {Task("common", Index(i))}]

ListWork(level) ==
  LET len(o) == Cardinality(DOMAIN Heap[o].items)
      longest == IF len(level.o1) > len(level.o2) THEN len(level.o1) ELSE len(level.o2)
  IN  [i \in 1 .. longest |->
         { Task(CASE i > len(level.o1) -> "added"
                  [] i > len(level.o2) -> "removed"
                  [] OTHER -> "common", Index(i)) }]

ItemReport(type, change) ==
  CASE type = "dict" -> IF change = "added" THEN "dictionary_item_added" ELSE "dictionary_item_removed"
    [] type = "obj" -> IF change = "added" THEN "attribute_added" ELSE "attribute_removed"
    [] type = "list" -> IF change = "added" THEN "iterable_item_added" ELSE "iterable_item_removed"

-----------------------------------------------------------------------------
Init ==
  /\ case \in Cases
  /\ pending = {Level(<<>>, case.t1, case.t2, {case.t1})}
  /\ stack = <<>>
  /\ reports = {}
  /\ count = 0
  /\ limited = FALSE
  /\ done = FALSE

(* _count_diff                                                             *)
LimitIsReached == opts.max_diffs # None /\ count > opts.max_diffs
Counted == ~LimitIsReached /\ count' = count + 1 /\ limited' = limited
Refused == LimitIsReached /\ limited' = TRUE /\ count' = count

(* _diff is called and the work is refused.                                *)
DiffRefused ==
  /\ pending # {}
  /\ Refused
  /\ pending' = {}
  /\ UNCHANGED <<case, stack, reports, done>>

(* _diff ends without a report: the same object, or a skipped level.       *)
DiffNothing ==
  \E level \in pending :
    /\ Counted
    /\ level.o1 = level.o2 \/ SkipThis(level)
    /\ pending' = {}
    /\ UNCHANGED <<case, stack, reports, done>>

Compared(level) == Counted /\ level.o1 # level.o2 /\ ~SkipThis(level)

(* _diff_types, and the functions that compare two values.                 *)
DiffLeaf ==
  \E level \in pending :
    /\ Compared(level)
    /\ Type(level.o1) # Type(level.o2) \/ Type(level.o1) \notin Containers
    /\ reports' = reports \cup
         IF Type(level.o1) # Type(level.o2) THEN Reported("type_changes", level)
         ELSE IF Heap[level.o1].value # Heap[level.o2].value THEN Reported("values_changed", level)
         ELSE {}
    /\ pending' = {}
    /\ UNCHANGED <<case, stack, done>>

Enter(level, work) ==
  /\ stack' = Append(stack, [level |-> level, work |-> work])
  /\ pending' = {}
  /\ UNCHANGED <<case, reports, done>>

(* _diff_dict: of a mapping, or of the attributes of an object (_diff_obj).*)
DiffDict ==
  \E level \in pending :
    /\ Compared(level)
    /\ Type(level.o1) = Type(level.o2) /\ Type(level.o1) \in {"dict", "obj"}
    /\ IF TooDifferent(level)
       THEN /\ reports' = reports \cup Reported("values_changed", level)
            /\ pending' = {}
            /\ UNCHANGED <<case, stack, done>>
       ELSE Enter(level, DictWork(level))

(* _diff_iterable_in_order, one by one.                                    *)
DiffIterable ==
  \E level \in pending :
    /\ Compared(level)
    /\ Type(level.o1) = "list" /\ Type(level.o2) = "list"
    /\ Enter(level, ListWork(level))

-----------------------------------------------------------------------------
Top == stack[Len(stack)]
Pop == SubSeq(stack, 1, Len(stack) - 1)
Working == pending = {} /\ stack # <<>>

(* The loops of the innermost container go on.                             *)
Left(work, task) == [work EXCEPT ![1] = @ \ {task}]
WithoutTask(task) == [stack EXCEPT ![Len(stack)].work = Left(@, task)]

Child(level, s) ==
  Level(Append(level.path, s),
        Heap[level.o1].items[s], Heap[level.o2].items[s],
        level.parents \cup {Heap[level.o1].items[s]})

OnlyIn(level, change, s) ==
  Level(Append(level.path, s),
        IF change = "added" THEN NotPresent ELSE Heap[level.o1].items[s],
        IF change = "added" THEN Heap[level.o2].items[s] ELSE NotPresent,
        level.parents)

NextTask == Working /\ Top.work # <<>>

(* An item of one container only is reported.                              *)
ReportItem ==
  /\ NextTask
  /\ \E task \in Top.work[1] :
       /\ task.kind # "common"
       /\ Counted
       /\ reports' = reports \cup
            Reported(ItemReport(Type(Top.level.o1), task.kind), OnlyIn(Top.level, task.kind, task.step))
       /\ stack' = WithoutTask(task)
       /\ UNCHANGED <<case, pending, done>>

(* Mutant: parents_ids is not looked at.                                   *)
GoDeeperAlways ==
  /\ NextTask
  /\ \E task \in Top.work[1] :
       /\ task.kind = "common"
       /\ Counted
       /\ pending' = {Child(Top.level, task.step)}
       /\ stack' = WithoutTask(task)
       /\ UNCHANGED <<case, reports, done>>

(* An item of both is compared, unless it is one of its own parents.       *)
GoDeeper ==
  /\ NextTask
  /\ \E task \in Top.work[1] :
       LET child == Child(Top.level, task.step)
       IN  /\ task.kind = "common"
           /\ Counted
           /\ pending' = IF child.o1 \in Top.level.parents THEN {} ELSE {child}
           /\ stack' = WithoutTask(task)
           /\ UNCHANGED <<case, reports, done>>

(* Mutant: the loop goes on with the same item.                            *)
StopContainerNever ==
  /\ NextTask
  /\ Top.work[1] # {}
  /\ Refused
  /\ UNCHANGED <<case, stack, pending, reports, done>>

(* The work is refused: the function returns.                              *)
StopContainer ==
  /\ NextTask
  /\ Top.work[1] # {}
  /\ Refused
  /\ stack' = Pop
  /\ UNCHANGED <<case, pending, reports, done>>

(* A loop is over, and after the last one the function returns.            *)
NextLoop ==
  /\ NextTask
  /\ Top.work[1] = {}
  /\ stack' = [stack EXCEPT ![Len(stack)].work = Tail(@)]
  /\ UNCHANGED <<case, pending, reports, count, limited, done>>

Return ==
  /\ Working
  /\ Top.work = <<>>
  /\ stack' = Pop
  /\ UNCHANGED <<case, pending, reports, count, limited, done>>

Finish ==
  /\ pending = {} /\ stack = <<>> /\ ~done
  /\ done' = TRUE
  /\ UNCHANGED <<case, pending, stack, reports, count, limited>>

Finished == done /\ UNCHANGED vars

Next ==
  \/ DiffRefused \/ DiffNothing \/ DiffLeaf \/ DiffDict \/ DiffIterable
  \/ ReportItem \/ GoDeeper \/ StopContainer \/ NextLoop \/ Return
  \/ Finish \/ Finished

Spec == Init /\ [][Next]_vars /\ WF_vars(Next)

-----------------------------------------------------------------------------
(* The reference: what differs between two graphs, said of paths and not   *)
(* of a walk with filters.                                                 *)

Follow(o, path) ==
  LET at[n \in 0 .. Len(path)] == IF n = 0 THEN o ELSE Heap[at[n - 1]].items[path[n]]
  IN  at[Len(path)]

Visible(o) == { s \in DOMAIN Heap[o].items : Type(o) = "list" \/ s.elem.text \notin Private }
Comparable(l) == l.o1 # l.o2 /\ Type(l.o1) = Type(l.o2)

(* For each pair of objects compared, the pairs of objects at the same     *)
(* path of both, no object of t1 being met twice on the way.               *)
Compares == { <<c.t1, c.t2>> : c \in Cases }

PairsOf ==
  [ c \in Compares |->
      LET pairs[n \in 0 .. Cardinality(Ids)] ==
            IF n = 0 THEN {Level(<<>>, c[1], c[2], {c[1]})} ELSE
              LET before == pairs[n - 1]
              IN  before \cup
                    UNION { { l2 \in { Child(l, s) : s \in Visible(l.o1) \cap Visible(l.o2) } :
                                l2.o1 \notin l.parents } :
                            l \in { l \in before : Comparable(l) } }
      IN  pairs[Cardinality(Ids)] ]

DifferentItself(l) ==
  \/ Type(l.o1) # Type(l.o2)
  \/ Type(l.o1) \notin Containers /\ Heap[l.o1].value # Heap[l.o2].value

DifferencesOf ==
  [ c \in Compares |->
      { l \in PairsOf[c] : DifferentItself(l) }
        \cup UNION { { OnlyIn(l, "removed", s) : s \in Visible(l.o1) \ Visible(l.o2) }
                       \cup { OnlyIn(l, "added", s) : s \in Visible(l.o2) \ Visible(l.o1) } :
                     l \in { l \in PairsOf[c] : Comparable(l) } } ]

Pairs == PairsOf[<<case.t1, case.t2>>]
Different == DifferencesOf[<<case.t1, case.t2>>]
Differences == { l.path : l \in Different }

(* The levels on the way to a path, the path included, that are excluded   *)
(* as the documentation of the filters says.                               *)
Above(path) == { l \in Pairs \cup Different : TextBegins(path, l.path) }

ExcludedPath(path) ==
  \E n \in 0 .. Len(path) :
    LET p == SubSeq(path, 1, n)
    IN  p \in opts.exclude \/ \E g \in opts.exclude_globs : Denotes(g, Elems(p))

ExcludedObject(path) ==
  \E l \in Above(path) :
    \/ l.path \in opts.exclude_regex
    \/ \E o \in Objects(l) : Type(o) \in opts.exclude_types \/ o \in opts.exclude_objs
    \/ \A o \in Objects(l) : o \in opts.exclude_objs_strict

IncludedPath(path) ==
  \/ ~Includes
  \/ \E p \in opts.include : TextBegins(path, p)
  \/ \E g \in opts.include_globs : DenotesPrefix(g, Elems(path))

Unfiltered == /\ opts.exclude = {} /\ opts.exclude_globs = {} /\ opts.exclude_regex = {}
              /\ opts.exclude_types = {} /\ opts.exclude_objs = {} /\ opts.exclude_objs_strict = {}
              /\ ~Includes /\ ~IncludesObjects

-----------------------------------------------------------------------------
(* The properties.                                                         *)

(* The guard against loops (parents_ids): whatever refers to whatever, no  *)
(* object of t1 is entered inside itself, and so the nesting of calls is   *)
(* at most the number of objects.                                          *)
NestingIsBounded ==
  \A l \in pending \cup { stack[i].level : i \in DOMAIN stack } :
    /\ Cardinality(l.parents) = Len(l.path) + 1
    /\ Len(stack) <= Cardinality(Ids)

(* A path that may be reported: something differs there or below, no path  *)
(* filter excludes it and one includes it.  A level above an included path *)
(* may be reported, as a whole.  (_skip_this lets include_obj_callback take*)
(* back an exclusion by path, and with it what include_paths says of that  *)
(* path, and include_paths those by object.)                               *)
IsSelected(path) ==
  /\ \E d \in Differences : TextBegins(d, path)
  /\ ~IncludesObjects => ~ExcludedPath(path)
  /\ ~Includes => ~ExcludedObject(path)
  /\ \/ IncludedPath(path)
     \/ opts.include_globs = {} /\ \E p \in opts.include : TextBegins(p, path)
     \/ opts.include_globs = {} /\ path = <<>>
     \/ IncludesObjects /\ ExcludedPath(path)

(* Nothing else is reported.                                               *)
OnlySelectedIsReported == done => \A r \in reports : IsSelected(r.path)

(* Where _skip_this_key finds the key it is asked for: it writes every key *)
(* between quotes.                                                         *)
KeyIsQuoted(path, n) ==
  \/ Type(Follow(case.t1, SubSeq(path, 1, n - 1))) = "list"
  \/ path[n].elem.kind = "str" /\ path[n].rel = "get"

WellKeyed(path) ==
  \/ \E p \in opts.include : TextBegins(path, p) /\ \A n \in DOMAIN p : KeyIsQuoted(path, n)
  \/ \E g \in opts.include_globs :
       /\ Denotes(g, Elems(path))
       /\ \A n \in DOMAIN path : path[n].rel = "attr" \/ KeyIsQuoted(path, n)

(* When the work has not been cut short, what differs is reported, itself  *)
(* or with an object that holds it, unless a filter excludes it: every     *)
(* difference when nothing is included, otherwise every one below an       *)
(* included path and every one a pattern names.  (Not those below what a   *)
(* pattern names: once a pattern is given, _skip_this asks whether it      *)
(* names the path itself; nor those a dictionary above the patterns is too *)
(* different for.)                                                         *)
SelectedIsReported ==
  done /\ ~limited /\ ~IncludesObjects =>
    \A d \in Differences :
      \/ \E r \in reports : TextBegins(d, r.path)
      \/ ExcludedPath(d) \/ ExcludedObject(d)
      \/ Includes /\ ~WellKeyed(d)
      \/ opts.threshold /\ opts.include_globs # {}

(* A loop of t1 that t2 does not close at the same place.                  *)
UnevenLoop ==
  \E l \in Pairs : Comparable(l) /\
    \E s \in Visible(l.o1) \cap Visible(l.o2) :
      \E a \in Above(l.path) : a.o1 = Child(l, s).o1 /\ a.o2 # Child(l, s).o2

(* The pairs of objects that differ somewhere below, however deep: the     *)
(* least set of them, as for the states of an automaton.                   *)
Distinguished ==
  LET pairs == { Level(<<>>, a, b, {}) : a \in Ids, b \in Ids }
      found[n \in 0 .. Cardinality(Ids)] ==
        IF n = 0
        THEN { <<l.o1, l.o2>> : l \in { l \in pairs :
                 DifferentItself(l) \/ (Comparable(l) /\ Visible(l.o1) # Visible(l.o2)) } }
        ELSE LET before == found[n - 1]
             IN  before \cup
                   { <<l.o1, l.o2>> : l \in { l \in pairs :
                       /\ Comparable(l)
                       /\ \E s \in Visible(l.o1) \cap Visible(l.o2) :
                            <<Heap[l.o1].items[s], Heap[l.o2].items[s]>> \in before } }
  IN  found[Cardinality(Ids)]

(* An empty answer, with no filter and no limit reached, is the promise    *)
(* that t1 and t2 are the same, also when they refer to themselves: unless *)
(* t1 closes a loop where t2 goes on (only the objects of t1 are looked up *)
(* in parents_ids).                                                        *)
SilentMeansSame ==
  done /\ ~limited /\ Unfiltered /\ ~UnevenLoop =>
    (reports = {} <=> <<case.t1, case.t2>> \notin Distinguished)

(* A pattern names the paths the documentation says, for each pattern of   *)
(* the call and each path of the two objects: "*" one element, "**" any    *)
(* number.  The two other questions asked of a pattern are whether a path  *)
(* is below one that it names, and whether one it names may be below.      *)
PatternsDenote ==
  count = 0 =>
    \A g \in opts.include_globs \cup opts.exclude_globs :
      \A d \in Differences \cup { l.path : l \in Pairs } :
        LET target == Elems(d)
        IN  /\ Match(g, target) <=> Denotes(g, target)
            /\ MatchOrIsDescendant(g, target) <=> DenotesPrefix(g, target)
            /\ MatchOrIsAncestor(g, target) <=>
                 \E n \in 1 .. Len(g) + 1 : Denotes(g, target \o SubSeq(g, n, Len(g)))

(* The walk ends, whatever the objects refer to.                           *)
Terminates == <>done

=============================================================================
