------------------------------ MODULE DiffTree ------------------------------
(***************************************************************************)
(* The tree of a diff and the paths its levels give: class DiffLevel       *)
(* (deepdiff/model.py), with what drives it: the walk that branches new    *)
(* lines of levels and asks for their paths as it filters, the rebasing of *)
(* lines that worker processes have built (deepdiff/diff.py), the merging  *)
(* of additions and removals at one path, and the views that ask for the   *)
(* paths again.                                                            *)
(*                                                                         *)
(* A line is the chain of levels from the root to a change, a sequence of  *)
(* nodes; a node holds the two objects, the relationships to the level     *)
(* below and the cache of its paths.  Copying a line copies its nodes but  *)
(* not their caches: a copy of a DiffLevel shares the dictionary _path of  *)
(* its original.  A path is a sequence of the elements of PathText.        *)
(*                                                                         *)
(* How items are matched is an input (see InOrderDiff and PairSelection).  *)
(***************************************************************************)
EXTENDS PathText, FiniteSets

CONSTANTS
  Objects,    \* object -> [kind, items: function of elements to objects]
  Scenarios   \* what is compared: records [t1, t2, compare, workers, pairs]

NotPresent == "not present"
NoElement == Element("", "", <<>>)
NoClass == ""

Kind(o) == IF o = NotPresent THEN "nothing" ELSE Objects[o].kind
Down(o, e) == IF e \in DOMAIN Objects[o].items THEN Objects[o].items[e] ELSE NotPresent

(* Are two objects compared item by item?                                  *)
AreCompared(o1, o2) == o1 # o2 /\ Kind(o1) = Kind(o2) /\ Kind(o1) # "scalar"

(* How the items of two objects are matched: every item of the one at most *)
(* once, and with an iterable_compare_func every item of the other, too.   *)
IsMatching(matched, o1, o2, compare) ==
  LET Places(o) == DOMAIN Objects[o].items \cup {NoElement}
  IN  /\ matched \in Seq((Places(o1) \X Places(o2)) \ {<<NoElement, NoElement>>})
      /\ \A i, j \in DOMAIN matched : i # j =>
           /\ matched[i][1] = matched[j][1] => matched[i][1] = NoElement
           /\ compare /\ matched[i][2] = matched[j][2] => matched[i][2] = NoElement

(* All that is met from t1 and t2 on is matched.  Workers are used without *)
(* order only, and an ignore_order_func rules them out, so nothing moves   *)
(* where there are workers.                                                *)
IsScenario(s) ==
  /\ s.t1 \in DOMAIN Objects /\ s.t2 \in DOMAIN Objects
  /\ s.compare \in BOOLEAN /\ s.workers \in BOOLEAN
  /\ s.workers => ~s.compare
  /\ DOMAIN s.pairs \subseteq (DOMAIN Objects) \X (DOMAIN Objects)
  /\ AreCompared(s.t1, s.t2) => <<s.t1, s.t2>> \in DOMAIN s.pairs
  /\ \A c \in DOMAIN s.pairs :
       /\ IsMatching(s.pairs[c], c[1], c[2], s.compare)
       /\ \A i \in DOMAIN s.pairs[c] :
            LET pair == s.pairs[c][i]
            IN  NoElement \notin {pair[1], pair[2]} /\ AreCompared(Down(c[1], pair[1]), Down(c[2], pair[2]))
                  => <<Down(c[1], pair[1]), Down(c[2], pair[2])>> \in DOMAIN s.pairs

ASSUME DiffTreeAssumption ==
  /\ NotPresent \notin DOMAIN Objects
  /\ \A o \in DOMAIN Objects :
       /\ Objects[o].kind # Kind(NotPresent)
       /\ NoElement \notin DOMAIN Objects[o].items
       /\ \A e \in DOMAIN Objects[o].items : IsElement(e) /\ Objects[o].items[e] \in DOMAIN Objects
  /\ \A s \in Scenarios : IsScenario(s)

VARIABLES
  scenario,  \* compare: with an iterable_compare_func; workers: the pairs of
             \* a list go to worker processes; pairs: the matched items
  pending,   \* the line _diff is about to be called with, or none
  stack,     \* the containers being compared, the innermost last
  change,    \* the level a worker's lines will be rebased on, or none
  phase,     \* "walk", "rebase", "merge", "views"
  local,     \* the reports of a worker
  reports,   \* the tree: records [kind, line] in the order of their numbers
  cache,     \* the dictionaries _path: <<dictionary, key>> -> path
  fresh,     \* the next new dictionary
  plan,      \* the questions a view has still to ask: a set of records
             \* [at, line, query], the order of which is that of at
  views,     \* the views made so far
  merged,    \* the pairs of lines merged into a value change
  answer     \* the last question asked, and its answer

vars == <<scenario, pending, stack, change, phase, local, reports, cache, fresh, plan, views, merged, answer>>

-----------------------------------------------------------------------------
(* Levels and lines.                                                       *)

Node(o1, o2, dict) ==
  [o1 |-> o1, o2 |-> o2, class |-> NoClass, p1 |-> NoElement, p2 |-> NoElement, moved |-> FALSE, dict |-> dict]

Leaf(line) == line[Len(line)]

(* A level with relationships to the level below.                          *)
Related(node, p1, p2) == [node EXCEPT !.class = Kind(node.o1), !.p1 = p1, !.p2 = p2]

(* Mutant: auto_generate_child_rel forgets the place in t2.                *)
BranchDeeperInOrder(line, pair, dict) ==
  LET l == Leaf(line)
      o1 == IF pair[1] = NoElement THEN NotPresent ELSE Down(l.o1, pair[1])
      o2 == IF pair[2] = NoElement THEN NotPresent ELSE Down(l.o2, pair[2])
      p2 == IF NoElement \in {pair[1], pair[2]} THEN pair[2] ELSE pair[1]
  IN  Append([line EXCEPT ![Len(line)] = Related(@, pair[1], p2)], Node(o1, o2, dict))

(* branch_deeper: a copy of the line, one level deeper; the relationship   *)
(* exists on the sides where the item does (auto_generate_child_rel).      *)
BranchDeeper(line, pair, dict) ==
  LET l == Leaf(line)
      o1 == IF pair[1] = NoElement THEN NotPresent ELSE Down(l.o1, pair[1])
      o2 == IF pair[2] = NoElement THEN NotPresent ELSE Down(l.o2, pair[2])
  IN  Append([line EXCEPT ![Len(line)] = Related(@, pair[1], pair[2])], Node(o1, o2, dict))

-----------------------------------------------------------------------------
(* Paths.                                                                  *)

(* What path() is asked: of the level or of the one above; force; with the *)
(* parent apart; relative to t2; for the report of a move.                 *)
Query(up, force, get_parent_too, use_t2, reporting_move) ==
  [up |-> up, force |-> force, get_parent_too |-> get_parent_too,
   use_t2 |-> use_t2, reporting_move |-> reporting_move]

Path == Query(FALSE, "None", FALSE, FALSE, FALSE)
Forced == [Path EXCEPT !.force = "fake"]

Other(e, f) == IF e # NoElement THEN e ELSE f

(* The element below a node that is used for the path.                     *)
Step(node, query) ==
  LET level_use_t2 == query.use_t2 # (node.moved /\ ~query.reporting_move)
  IN  IF level_use_t2 THEN Other(node.p2, node.p1) ELSE Other(node.p1, node.p2)

(* The items of an iterable that is no sequence have a path only if it is  *)
(* faked, and the first one not even then.                                 *)
Representable(node, query) ==
  node.class = "generator" => query.force = "fake" /\ Step(node, query).text # <<"0">>

PathOf(line, n, query) ==
  IF \A i \in 1 .. n - 1 : Representable(line[i], query)
  THEN [found |-> TRUE, steps |-> [i \in 1 .. n - 1 |-> Step(line[i], query)]]
  ELSE [found |-> FALSE, steps |-> <<>>]

(* Mutant: the key leaves out whether the path is relative to t2.          *)
CacheKeyOfForce(line, n, query) == <<line[n].dict, query.force, query.get_parent_too, FALSE>>

(* The key of the cache does not say what reporting_move is.               *)
CacheKey(line, n, query) ==
  <<line[n].dict, query.force, query.get_parent_too, query.use_t2>>

Asked(line, query) == IF query.up THEN Len(line) - 1 ELSE Len(line)

AnswerTo(line, query) ==
  LET n == Asked(line, query)
      key == CacheKey(line, n, query)
  IN  IF key \in DOMAIN cache THEN cache[key] ELSE PathOf(line, n, query)

Ask(line, query) ==
  LET n == Asked(line, query)
  IN  /\ answer' = [line |-> line, query |-> query, path |-> AnswerTo(line, query)]
      /\ cache' = [key \in DOMAIN cache \cup {CacheKey(line, n, query)} |->
                     IF key \in DOMAIN cache THEN cache[key] ELSE AnswerTo(line, query)]

NoQuestion == UNCHANGED <<cache, answer>>

-----------------------------------------------------------------------------
Report(kind, line) == [kind |-> kind, line |-> line]

Init ==
  /\ scenario \in Scenarios
  /\ pending = <<Node(scenario.t1, scenario.t2, 0)>>
  /\ stack = <<>> /\ change = <<>> /\ phase = "walk"
  /\ local = <<>> /\ reports = <<>>
  /\ cache = <<>> /\ fresh = 1
  /\ plan = {} /\ views = <<>> /\ merged = {}
  /\ answer = [line |-> pending, query |-> Path, path |-> PathOf(pending, 1, Path)]

(* A report goes to the tree of the process that makes it.                 *)
Add(report) ==
  IF change = <<>>
  THEN reports' = Append(reports, report) /\ local' = local
  ELSE local' = Append(local, report) /\ reports' = reports

Pairs(line) == scenario.pairs[<<Leaf(line).o1, Leaf(line).o2>>]
Comparable(line) == AreCompared(Leaf(line).o1, Leaf(line).o2)

Walking == phase = "walk"

(* _diff: nothing to say of one object; otherwise _skip_this asks for the  *)
(* path, and then the level is reported or entered.                        *)
DiffSame ==
  /\ Walking /\ pending # <<>> /\ Leaf(pending).o1 = Leaf(pending).o2
  /\ pending' = <<>>
  /\ NoQuestion
  /\ UNCHANGED <<scenario, stack, change, phase, local, reports, fresh, plan, views, merged>>

Diff ==
  /\ Walking /\ pending # <<>> /\ Leaf(pending).o1 # Leaf(pending).o2
  /\ Ask(pending, Path)
  /\ pending' = <<>>
  /\ IF Comparable(pending)
     THEN /\ stack' = Append(stack, [line |-> pending, work |-> Pairs(pending), jobs |-> <<>>])
          /\ UNCHANGED <<local, reports>>
     ELSE /\ Add(Report("values_changed", pending))
          /\ UNCHANGED stack
  /\ UNCHANGED <<scenario, change, phase, fresh, plan, views, merged>>

Top == stack[Len(stack)]
Pair == Head(Top.work)
AtTop(frame) == [stack EXCEPT ![Len(stack)] = frame]
NextPair == [Top EXCEPT !.work = Tail(@)]

Working == Walking /\ pending = <<>> /\ stack # <<>>
AtPair == Working /\ Top.work # <<>>

(* An item without a partner.                                              *)
AddedTo(kind) ==
  CASE kind = "dict" -> "dictionary_item_added"
    [] kind = "obj"  -> "attribute_added"
    [] OTHER         -> "iterable_item_added"

RemovedFrom(kind) ==
  CASE kind = "dict" -> "dictionary_item_removed"
    [] kind = "obj"  -> "attribute_removed"
    [] OTHER         -> "iterable_item_removed"

ReportItem ==
  /\ AtPair /\ NoElement \in {Pair[1], Pair[2]}
  /\ LET line == BranchDeeper(Top.line, Pair, fresh)
         container == Kind(Leaf(Top.line).o1)
         kind == IF Pair[1] = NoElement THEN AddedTo(container) ELSE RemovedFrom(container)
     IN  /\ Ask(line, Path)
         /\ Add(Report(kind, line))
  /\ fresh' = fresh + 1
  /\ stack' = AtTop(NextPair)
  /\ UNCHANGED <<scenario, pending, change, phase, plan, views, merged>>

Both == AtPair /\ NoElement \notin {Pair[1], Pair[2]}
Moves == scenario.compare /\ Pair[1] # Pair[2]
Deferred == scenario.workers /\ change = <<>> /\ Kind(Leaf(Top.line).o1) = "list"

(* The two items of a pair are compared, at the same position...           *)
GoDeeper ==
  /\ Both /\ ~Moves /\ ~Deferred
  /\ pending' = BranchDeeper(Top.line, Pair, fresh)
  /\ fresh' = fresh + 1
  /\ stack' = AtTop(NextPair)
  /\ NoQuestion
  /\ UNCHANGED <<scenario, change, phase, local, reports, plan, views, merged>>

Marked(line) == [line EXCEPT ![Len(line)].moved = TRUE]

(* ... or after the report of the move.  From then on the level is marked, *)
(* for this item and for those that follow.                                *)
ReportMove ==
  /\ Both /\ Moves
  /\ LET line == BranchDeeper(Top.line, Pair, fresh)
         marked == Marked(Top.line)
     IN  /\ Ask(line, Path)
         /\ Add(Report("iterable_item_moved", line))
         /\ pending' = BranchDeeper(marked, Pair, fresh + 1)
         /\ stack' = AtTop([NextPair EXCEPT !.line = marked])
  /\ fresh' = fresh + 2
  /\ UNCHANGED <<scenario, change, phase, plan, views, merged>>

(* The pairs of a list may be left for worker processes.                   *)
Defer ==
  /\ Both /\ ~Moves /\ Deferred
  /\ stack' = AtTop([NextPair EXCEPT !.jobs = Append(@, BranchDeeper(Top.line, Pair, fresh))])
  /\ fresh' = fresh + 1
  /\ NoQuestion
  /\ UNCHANGED <<scenario, pending, change, phase, local, reports, plan, views, merged>>

(* A worker compares the items of a pair in a tree of its own.             *)
StartJob ==
  /\ Working /\ Top.work = <<>> /\ Top.jobs # <<>> /\ change = <<>>
  /\ change' = Head(Top.jobs)
  /\ pending' = <<Node(Leaf(Head(Top.jobs)).o1, Leaf(Head(Top.jobs)).o2, fresh)>>
  /\ fresh' = fresh + 1
  /\ stack' = AtTop([Top EXCEPT !.jobs = Tail(@)])
  /\ NoQuestion
  /\ UNCHANGED <<scenario, phase, local, reports, plan, views, merged>>

InWorker == change # <<>>
WorkerIsDone == InWorker /\ Working /\ Top.line[1].dict = change[1].dict

Return ==
  /\ Working /\ Top.work = <<>> /\ Top.jobs = <<>> /\ ~WorkerIsDone
  /\ stack' = SubSeq(stack, 1, Len(stack) - 1)
  /\ NoQuestion
  /\ UNCHANGED <<scenario, pending, change, phase, local, reports, fresh, plan, views, merged>>

-----------------------------------------------------------------------------
(* mutual_add_removes_to_become_value_changes: an item added and an item   *)
(* removed whose paths have one text, or have none.  Of several levels with*)
(* one text the last counts.                                               *)
OfKind(rs, kind) == { i \in DOMAIN rs : rs[i].kind = kind }

Written(path) == [found |-> path.found, text |-> TextOf(path.steps)]
TextAt(line) == Written(AnswerTo(line, Path))

LastAt(rs, kind, text) ==
  { i \in OfKind(rs, kind) :
      /\ TextAt(rs[i].line) = text
      /\ \A j \in OfKind(rs, kind) : TextAt(rs[j].line) = text => j <= i }

Mutual(rs) ==
  { p \in OfKind(rs, "iterable_item_removed") \X OfKind(rs, "iterable_item_added") :
      LET text == TextAt(rs[p[1]].line)
      IN  /\ p[1] \in LastAt(rs, "iterable_item_removed", text)
          /\ p[2] \in LastAt(rs, "iterable_item_added", text) }

WithT2(line, o2) == [line EXCEPT ![Len(line)].o2 = o2]

Partner(rs, i) == CHOOSE j \in DOMAIN rs : <<i, j>> \in Mutual(rs)

(* The removed item becomes the change, the added one is deleted.          *)
Merge(rs) ==
  [i \in DOMAIN rs \ { p[2] : p \in Mutual(rs) } |->
     IF \E p \in Mutual(rs) : p[1] = i
     THEN Report("values_changed", WithT2(rs[i].line, Leaf(rs[Partner(rs, i)].line).o2))
     ELSE rs[i]]

Merges(rs) == { <<rs[p[1]].line, rs[p[2]].line>> : p \in Mutual(rs) }

(* The worker ends with the view of its tree, which is sent back.          *)
EndJob ==
  /\ WorkerIsDone
  /\ local' = Merge(local)
  /\ merged' = merged \cup Merges(local)
  /\ phase' = "rebase"
  /\ NoQuestion
  /\ UNCHANGED <<scenario, pending, stack, change, reports, fresh, plan, views>>

(* Mutant: the levels that come from a worker keep their caches.           *)
WithCachesAbove(line, dict) ==
  [i \in DOMAIN line |-> IF i <= Len(change) THEN [line[i] EXCEPT !.dict = dict + i] ELSE line[i]]

(* _rebase_subtree_leaf: a copy of the change level takes the place of the *)
(* worker's root, and every level of the new line gets a new cache.        *)
WithCaches(line, dict) == [i \in DOMAIN line |-> [line[i] EXCEPT !.dict = dict + i]]

(* Mutant: the relationship to the first level of the worker is not made.  *)
SplicedWithoutRelation(line) == WithCaches(change \o SubSeq(line, 2, Len(line)), fresh)

Spliced(line) ==
  LET root == line[1]
      below == SubSeq(line, 2, Len(line))
      top == [change EXCEPT ![Len(change)] = Related(@, root.p1, root.p2)]
  IN  WithCaches((IF below = <<>> THEN change ELSE top) \o below, fresh)

Rebase ==
  /\ phase = "rebase"
  /\ \E i \in DOMAIN local :
       /\ \A j \in DOMAIN local : i <= j
       /\ LET line == Spliced(local[i].line)
          IN  /\ Ask(line, Path)
              /\ reports' = Append(reports, Report(local[i].kind, line))
              /\ fresh' = fresh + Len(line) + 1
       /\ local' = [j \in DOMAIN local \ {i} |-> local[j]]
  /\ UNCHANGED <<scenario, pending, stack, change, phase, plan, views, merged>>

EndRebase ==
  /\ phase = "rebase" /\ DOMAIN local = {}
  /\ local' = <<>>
  /\ change' = <<>>
  /\ phase' = "walk"
  /\ NoQuestion
  /\ UNCHANGED <<scenario, pending, stack, reports, fresh, plan, views, merged>>

-----------------------------------------------------------------------------
(* The views.                                                              *)

Moved == "iterable_item_moved"
Reporting(query) == [query EXCEPT !.reporting_move = TRUE]
OfT2(query) == [query EXCEPT !.use_t2 = TRUE]
OfUp(query) == [query EXCEPT !.up = TRUE]

(* TextResult, at verbose level 2.                                         *)
TextQueries(kind) ==
  CASE kind = Moved -> <<Reporting(OfT2(Path)), Reporting(Forced)>>
    [] kind = "values_changed" -> <<Forced, OfT2(Forced)>>
    [] OTHER -> <<Forced>>

(* DeltaResult: the levels above are looked up among the opcodes; without  *)
(* order the index is wanted apart.                                        *)
DeltaQueries(kind) ==
  CASE kind = Moved -> <<Reporting(OfUp(Forced)), Reporting(OfT2(Path)), Reporting(Forced)>>
    [] kind = "values_changed" -> <<Forced, OfT2(Forced)>>
    [] kind \in {"iterable_item_added", "iterable_item_removed"} /\ scenario.compare -> <<OfUp(Forced), Forced>>
    [] kind \in {"iterable_item_added", "iterable_item_removed"} /\ ~scenario.compare ->
         <<[Forced EXCEPT !.get_parent_too = TRUE]>>
    [] OTHER -> <<Forced>>

(* pretty_print_diff                                                       *)
PrettyQueries(kind) == <<Path>>

Queries(view, kind) ==
  CASE view = "text" -> TextQueries(kind)
    [] view = "delta" -> DeltaQueries(kind)
    [] view = "pretty" -> PrettyQueries(kind)

(* The order in which the results go through the tree.                     *)
Kinds ==
  <<"dictionary_item_added", "dictionary_item_removed", "values_changed", "iterable_item_added",
    "iterable_item_removed", Moved, "attribute_added", "attribute_removed">>

(* Number n of the queries about report i, which is of kind k.             *)
PlanOf(view, rs) ==
  { [at |-> t, line |-> rs[t[2]].line, query |-> Queries(view, Kinds[t[1]])[t[3]]] :
      t \in { u \in (DOMAIN Kinds) \X (DOMAIN rs) \X (1 .. 3) :
                rs[u[2]].kind = Kinds[u[1]] /\ u[3] \in DOMAIN Queries(view, Kinds[u[1]]) } }

Before(s, t) ==
  \/ s[1] < t[1]
  \/ s[1] = t[1] /\ s[2] < t[2]
  \/ s[1] = t[1] /\ s[2] = t[2] /\ s[3] < t[3]

(* _get_view_results of the root: first the merging, which asks for the    *)
(* path of every added and removed item.                                   *)
EndWalk ==
  /\ Walking /\ pending = <<>> /\ stack = <<>>
  /\ phase' = "merge"
  /\ plan' = PlanOf("pretty",
               [i \in OfKind(reports, "iterable_item_added") \cup OfKind(reports, "iterable_item_removed") |->
                  reports[i]])
  /\ NoQuestion
  /\ UNCHANGED <<scenario, pending, stack, change, local, reports, fresh, views, merged>>

Answer ==
  /\ \E question \in plan :
       /\ \A other \in plan \ {question} : Before(question.at, other.at)
       /\ Ask(question.line, question.query)
       /\ plan' = plan \ {question}
  /\ UNCHANGED <<scenario, pending, stack, change, phase, local, reports, fresh, views, merged>>

MergeAll ==
  /\ phase = "merge" /\ plan = {}
  /\ reports' = Merge(reports)
  /\ merged' = merged \cup Merges(reports)
  /\ phase' = "views"
  /\ NoQuestion
  /\ UNCHANGED <<scenario, pending, stack, change, local, fresh, plan, views>>

(* The views a user asks for, the text view first as it is the default.    *)
MaxViews == 3
MakeView ==
  /\ phase = "views" /\ plan = {} /\ Len(views) < MaxViews
  /\ \E view \in {"text", "delta", "pretty"} :
       /\ plan' = PlanOf(view, reports)
       /\ views' = Append(views, view)
  /\ NoQuestion
  /\ UNCHANGED <<scenario, pending, stack, change, phase, local, reports, fresh, merged>>

Stop == phase = "views" /\ plan = {} /\ Len(views) = MaxViews /\ UNCHANGED vars

Next ==
  \/ DiffSame \/ Diff \/ ReportItem \/ GoDeeper \/ ReportMove \/ Defer \/ StartJob
  \/ Return \/ EndJob \/ Rebase \/ EndRebase
  \/ EndWalk \/ Answer \/ MergeAll \/ MakeView \/ Stop

Spec == Init /\ [][Next]_vars

-----------------------------------------------------------------------------
(* Properties.                                                             *)

IsLine(line) ==
  /\ Len(line) > 0
  /\ line[1].o1 \in DOMAIN Objects /\ line[1].o2 \in DOMAIN Objects
  /\ \A n \in 2 .. Len(line) :
       LET up == line[n - 1]
       IN  /\ {up.p1, up.p2} # {NoElement}
           /\ up.class = Kind(up.o1)
           /\ line[n].o1 = IF up.p1 = NoElement THEN NotPresent ELSE Down(up.o1, up.p1)
           /\ up.p2 # NoElement => line[n].o2 = Down(up.o2, up.p2)

(* The lines of the reports hang together: each level holds the item that  *)
(* the relationship above it names.                                        *)
LinesHangTogether ==
  /\ phase \in {"walk", "rebase", "merge", "views"}
  /\ \A i \in DOMAIN reports : IsLine(reports[i].line)
  /\ \A i \in DOMAIN local : IsLine(local[i].line)
  /\ \A key \in DOMAIN cache : key[1] < fresh
  /\ phase # "walk" => stack = <<>> \/ InWorker

(* A cached path is the path of the level that is asked: copying a line,   *)
(* marking a level as moved, rebasing and merging never leave a level with *)
(* the cached text of another place.  DeltaResult's question to the level  *)
(* above a move shares its key with a question that is not of a move, and  *)
(* is excepted.                                                            *)
AnswersAreFresh ==
  \/ (answer.query.up /\ answer.query.reporting_move)
  \/ answer.path = PathOf(answer.line, Asked(answer.line, answer.query), answer.query)

(* Keys that do not come back from their text (see PathText).              *)
Unreadable(e) == HasBothQuotes(e) \/ Private(e.text)

Leads(root, elements) == GetNestedObj([o \in DOMAIN Objects |-> Objects[o].items], NotPresent, root, elements)

(* The sides a path is about: positions in t2 when a move is in effect.    *)
AboutT2(query) == query.use_t2 # (scenario.compare /\ ~query.reporting_move)

(* The path a view prints is read back by Delta, extract and the filters   *)
(* as the elements it was made of, and leads to the containers of the      *)
(* change in the input it is about, and in them to the changed item.       *)
PathsLeadBack ==
  LET line == answer.line
      query == answer.query
      steps == answer.path.steps
      elements == PathToElements(TextOf(steps))
      above == line[Len(line) - 1]
  IN  phase = "views" /\ query.force = "fake" /\ ~query.up
        /\ Len(line) > 1 /\ answer.path.found
        /\ (\A i \in DOMAIN steps : ~Unreadable(steps[i]))
      => /\ elements = steps
         /\ IF AboutT2(query)
            THEN Leads(scenario.t2, Front(elements)) = above.o2
            ELSE Leads(scenario.t1, Front(elements)) = above.o1
         /\ \/ Down(above.o1, Last(elements)) = Leaf(line).o1
            \/ Down(above.o2, Last(elements)) = Leaf(line).o2

(* The key a report has in the text view and in the delta.                 *)
KeyOf(report) ==
  PathOf(report.line, Len(report.line), IF report.kind = Moved THEN Reporting(Forced) ELSE Forced)

(* A path whose text is that of no other path.  A key with quotes of both  *)
(* kinds is written between quotes without escape, and can look like       *)
(* several keys.                                                           *)
IsUnmistakable(path) == path.found /\ \A i \in DOMAIN path.steps : ~HasBothQuotes(path.steps[i])

(* The views are dictionaries: no report replaces another of its kind, but *)
(* for the first items of iterables that have no path, and below keys with *)
(* quotes of both kinds.                                                   *)
NoReportIsLost ==
  phase = "views" =>
    \A i, j \in DOMAIN reports :
      /\ i # j /\ reports[i].kind = reports[j].kind
      /\ IsUnmistakable(KeyOf(reports[i])) /\ IsUnmistakable(KeyOf(reports[j]))
      => TextOf(KeyOf(reports[i]).steps) # TextOf(KeyOf(reports[j]).steps)

(* A removal and an addition become one change of a value only if they are *)
(* of one pair of containers, but for iterables that have no path, and for *)
(* those below keys with quotes of both kinds.                             *)
MergedAtOnePlace ==
  \A pair \in merged :
    LET Above(line) == line[Len(line) - 1]
        PathTo(line) == PathOf(line, Len(line), Path)
    IN  IsUnmistakable(PathTo(pair[1])) /\ IsUnmistakable(PathTo(pair[2]))
          => /\ Above(pair[1]).o1 = Above(pair[2]).o1
             /\ Above(pair[1]).o2 = Above(pair[2]).o2

=============================================================================
