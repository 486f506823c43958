--------------------------- MODULE DiffTreeProofs ---------------------------
(***************************************************************************)
(* Theorems about DiffTree, for every tree of objects and every matching   *)
(* of their items.                                                         *)
(*                                                                         *)
(* Copies of a level share its dictionary of paths, so that an answer is   *)
(* fresh is no fact about one line.  The invariant keeps a ledger: every   *)
(* dictionary ever made is for one place, one pair of objects and one      *)
(* role, the end of a move or not, and all levels that hold it agree with  *)
(* that, whatever lines they are on.  What a dictionary has under a key is *)
(* then the answer to the one question with that key which such a level    *)
(* may be asked: two questions share a key, but one is asked of moves and  *)
(* of containers, the other of what is neither, or of containers that have *)
(* been asked already.                                                     *)
(***************************************************************************)
EXTENDS DiffTree, NaturalsInduction, WellFoundedInduction, TLAPS

(* Types.                                                                  *)
Present == DOMAIN Objects
Things == Present \cup {NotPresent}
Places == {NoElement} \cup UNION { DOMAIN Objects[o].items : o \in Present }
NodeType ==
  [o1 : Things, o2 : Things,
   class : {NoClass} \cup { Kind(o) : o \in Things },
   p1 : Places, p2 : Places, moved : BOOLEAN, dict : Nat]
LineType == Seq(NodeType)
ReportKinds ==
  {"values_changed", "iterable_item_moved",
   "dictionary_item_added", "attribute_added", "iterable_item_added",
   "dictionary_item_removed", "attribute_removed", "iterable_item_removed"}
ReportType == [kind : ReportKinds, line : LineType]

(* A node above another one: two containers that are compared, and one of  *)
(* the pairs their items are matched in.                                   *)
IsAbove(s, node, next) ==
  /\ node.o1 \in Present /\ node.o2 \in Present
  /\ AreCompared(node.o1, node.o2)
  /\ node.class = Kind(node.o1)
  /\ <<node.o1, node.o2>> \in DOMAIN s.pairs
  /\ \E j \in DOMAIN s.pairs[<<node.o1, node.o2>>] :
       s.pairs[<<node.o1, node.o2>>][j] = <<node.p1, node.p2>>
  /\ next.o1 = IF node.p1 = NoElement THEN NotPresent ELSE Down(node.o1, node.p1)
  /\ node.p2 # NoElement => next.o2 = Down(node.o2, node.p2)

(* The walk went on below it: both items exist, and it is marked if they   *)
(* are at different positions and moves are told.                          *)
IsPassed(s, node) ==
  /\ node.p1 # NoElement /\ node.p2 # NoElement
  /\ s.compare => node.moved \/ node.p1 = node.p2

GoodLine(s, line) ==
  /\ line \in LineType
  /\ line # <<>> => line[1].o1 \in Present /\ line[1].o2 \in Present
  /\ \A n \in 1 .. Len(line) : line[n].moved => s.compare
  /\ \A n \in 1 .. Len(line) - 1 : IsAbove(s, line[n], line[n + 1])
  /\ \A n \in 1 .. Len(line) - 2 : IsPassed(s, line[n])

(* A line the walk is at, or will be.                                      *)
OpenLine(s, line) ==
  /\ GoodLine(s, line)
  /\ line # <<>> =>
       /\ Leaf(line).o1 \in Present /\ Leaf(line).o2 \in Present
       /\ AreCompared(Leaf(line).o1, Leaf(line).o2) => <<Leaf(line).o1, Leaf(line).o2>> \in DOMAIN s.pairs
  /\ \A n \in 1 .. Len(line) - 1 : IsPassed(s, line[n])

(* What the dictionary of a level's paths is for: the relationships above, *)
(* the two objects (of an item that only one side has, the other stays     *)
(* absent when merging fills it), and whether it is the end of a move.     *)
Own(line, n) ==
  <<line[n].o1, IF n > 1 /\ line[n - 1].p2 = NoElement THEN NotPresent ELSE line[n].o2>>

Relations(line, n) ==
  [i \in 1 .. n - 1 |->
     [class |-> line[i].class, p1 |-> line[i].p1, p2 |-> line[i].p2, moved |-> line[i].moved]]

Purpose(line, n, role) == [at |-> n, rels |-> Relations(line, n), own |-> Own(line, n), role |-> role]

Walked == "walked"
Role(line, n, kind) == IF kind = Moved /\ n = Len(line) THEN Moved ELSE Walked

(* The dictionaries of a line are for its levels, by the ledger g of all   *)
(* dictionaries below f.                                                   *)
Conforms(g, f, line, kind) ==
  \A n \in 1 .. Len(line) :
    /\ line[n].dict \in 0 .. f - 1
    /\ g[line[n].dict] = Purpose(line, n, Role(line, n, kind))

FrameConforms(g, f, frame) ==
  /\ Conforms(g, f, frame.line, Walked)
  /\ \A i \in DOMAIN frame.jobs : Conforms(g, f, frame.jobs[i], Walked)

(* Reports.                                                                *)
GoodReport(s, report) ==
  LET line == report.line
  IN  /\ report \in ReportType
      /\ line # <<>> /\ GoodLine(s, line)
      /\ report.kind # "values_changed" => Len(line) > 1
      /\ report.kind = "iterable_item_removed" => line[Len(line) - 1].p2 = NoElement
      /\ IF report.kind = Moved
         THEN s.compare
         ELSE ~AreCompared(Own(line, Len(line))[1], Own(line, Len(line))[2])

RootIs(line, o1, o2) == line[1].o1 = o1 /\ line[1].o2 = o2

FrameType == [line : LineType, work : Seq(Places \X Places), jobs : Seq(LineType)]

GoodFrame(s, frame) ==
  /\ frame \in FrameType
  /\ frame.line # <<>> /\ OpenLine(s, frame.line)
  /\ AreCompared(Leaf(frame.line).o1, Leaf(frame.line).o2)
  /\ \A i \in DOMAIN frame.work :
       \E j \in DOMAIN s.pairs[<<Leaf(frame.line).o1, Leaf(frame.line).o2>>] :
         frame.work[i] = s.pairs[<<Leaf(frame.line).o1, Leaf(frame.line).o2>>][j]
  /\ \A i \in DOMAIN frame.jobs :
       /\ frame.jobs[i] # <<>> /\ OpenLine(s, frame.jobs[i])
       /\ s.workers /\ frame.jobs[i][1].dict = 0 /\ RootIs(frame.jobs[i], s.t1, s.t2)

-----------------------------------------------------------------------------
(* The inductive invariant.                                                *)

Scene ==
  /\ scenario \in Scenarios
  /\ phase \in {"walk", "rebase", "merge", "views"}
  /\ fresh \in Nat \ {0}

(* The lines of the walk.                                                  *)
Frames(s, frames) ==
  /\ frames \in Seq(FrameType)
  /\ \A k \in DOMAIN frames : GoodFrame(s, frames[k])

Lines ==
  /\ OpenLine(scenario, pending)
  /\ Frames(scenario, stack)
  /\ OpenLine(scenario, change)
  /\ InWorker => scenario.workers /\ change[1].dict = 0 /\ RootIs(change, scenario.t1, scenario.t2)

Main(line) == line[1].dict = 0

Reports ==
  /\ \A i \in DOMAIN reports :
       GoodReport(scenario, reports[i]) /\ RootIs(reports[i].line, scenario.t1, scenario.t2)
  /\ phase \in {"walk", "rebase"} => reports \in Seq(ReportType)
  /\ \A i \in DOMAIN local :
       GoodReport(scenario, local[i]) /\ RootIs(local[i].line, Leaf(change).o1, Leaf(change).o2)
  /\ phase = "walk" => local \in Seq(ReportType)
  /\ ~InWorker => DOMAIN local = {}

(* Which lines are those of the worker.                                    *)
RootOf(line) ==
  IF Main(line) THEN RootIs(line, scenario.t1, scenario.t2)
  ELSE InWorker /\ phase = "walk" /\ RootIs(line, Leaf(change).o1, Leaf(change).o2)

(* The frames of the worker are above those of the main process, which     *)
(* waits at the end of its pairs.                                          *)
Nested(frames) ==
  \A k, l \in DOMAIN frames : k < l /\ Main(frames[l].line) => Main(frames[k].line)
Waiting(frames) ==
  /\ frames # <<>> /\ Main(frames[1].line)
  /\ \A k \in DOMAIN frames :
       Main(frames[k].line) /\ (k = Len(frames) \/ ~Main(frames[k + 1].line)) => frames[k].work = <<>>

Order ==
  /\ pending # <<>> => phase = "walk" /\ RootOf(pending) /\ (InWorker => ~Main(pending))
  /\ \A k \in DOMAIN stack : RootOf(stack[k].line)
  /\ Nested(stack)
  /\ InWorker => Waiting(stack)
  /\ phase = "rebase" => InWorker
  /\ phase \in {"merge", "views"} => stack = <<>> /\ ~InWorker

(* The questions of the current view.                                      *)
Planned ==
  /\ phase \in {"walk", "rebase"} => plan = {}
  /\ phase # "views" => views = <<>>
  /\ phase = "merge" => \A q \in plan : q.query = Path /\ \E i \in DOMAIN reports : q.line = reports[i].line
  /\ phase = "views" => views \in Seq({"text", "delta", "pretty"})
  /\ phase = "views" /\ plan # {} => views # <<>> /\ plan \subseteq PlanOf(views[Len(views)], reports)

(* The reports whose parent is asked for its path, too.                    *)
AskParent ==
  { i \in DOMAIN reports : scenario.compare /\ reports[i].kind \in {"iterable_item_added", "iterable_item_removed"} }
Parent(i) == reports[i].line[Len(reports[i].line) - 1]

(* They ask before the moves do.                                           *)
ParentsFirst ==
  phase = "views" /\ plan # {} /\ views[Len(views)] = "delta" =>
    \A i \in AskParent :
      \/ \E q \in plan : \E k \in {4, 5} : q.at = <<k, i, 1>>
      \/ <<Parent(i).dict, "fake", FALSE, FALSE>> \in DOMAIN cache

(* The caches hold answers to the questions their keys are of, which the   *)
(* levels with the dictionary may be asked, by what it is for.             *)
PlainCache(g, f, c) ==
  \A key \in DOMAIN c : \E d \in 0 .. f - 1 :
    /\ key = <<d, Path.force, Path.get_parent_too, Path.use_t2>>
    /\ c[key] = PathOf(g[d].rels, g[d].at, Path)

MayAsk(query, d, purpose, parents) ==
  \/ query \in {Path, Reporting(OfT2(Path)), OfT2(Forced), [Forced EXCEPT !.get_parent_too = TRUE]}
  \/ /\ query = Forced /\ purpose.role # Moved
     /\ AreCompared(purpose.own[1], purpose.own[2]) => d \in parents
  \/ /\ query = Reporting(Forced)
     /\ \/ purpose.role = Moved
        \/ /\ AreCompared(purpose.own[1], purpose.own[2])
           /\ d \notin parents

QueryType == [up : BOOLEAN, force : {"None", "fake"}, get_parent_too : BOOLEAN, use_t2 : BOOLEAN, reporting_move : BOOLEAN]

ViewCache(g, f, c, parents) ==
  \A key \in DOMAIN c :
    \E d \in 0 .. f - 1, query \in QueryType :
      /\ key = <<d, query.force, query.get_parent_too, query.use_t2>>
      /\ MayAsk(query, d, g[d], parents)
      /\ c[key] = PathOf(g[d].rels, g[d].at, query)

ParentDicts == { Parent(i).dict : i \in AskParent }

CacheHolds(g) ==
  IF phase = "views" THEN ViewCache(g, fresh, cache, ParentDicts) ELSE PlainCache(g, fresh, cache)

Ledger(g, f) ==
  /\ Conforms(g, f, pending, Walked)
  /\ Conforms(g, f, change, Walked)
  /\ \A k \in DOMAIN stack : FrameConforms(g, f, stack[k])
  /\ \A i \in DOMAIN reports : Conforms(g, f, reports[i].line, reports[i].kind)
  /\ \A i \in DOMAIN local : Conforms(g, f, local[i].line, local[i].kind)

Structure == Scene /\ Lines /\ Reports /\ Order /\ Planned /\ ParentsFirst
Caches == \E g : Ledger(g, fresh) /\ CacheHolds(g)
Inv == Structure /\ Caches /\ AnswersAreFresh /\ MergedAtOnePlace

-----------------------------------------------------------------------------
(* Lines.                                                                  *)

(* What a pair of matched items is.                                        *)
LEMMA PairFacts ==
  ASSUME NEW s, IsScenario(s), NEW o1, NEW o2, <<o1, o2>> \in DOMAIN s.pairs,
         NEW j \in DOMAIN s.pairs[<<o1, o2>>], NEW pair, pair = s.pairs[<<o1, o2>>][j]
  PROVE  /\ o1 \in Present /\ o2 \in Present
         /\ pair \in Places \X Places
         /\ pair[1] # NoElement => Down(o1, pair[1]) \in Present
         /\ pair[2] # NoElement => Down(o2, pair[2]) \in Present
         /\ pair[1] # NoElement \/ pair[2] # NoElement
         /\ pair[1] # NoElement /\ pair[2] # NoElement
              /\ AreCompared(Down(o1, pair[1]), Down(o2, pair[2]))
              => <<Down(o1, pair[1]), Down(o2, pair[2])>> \in DOMAIN s.pairs
<1> DEFINE P(o) == DOMAIN Objects[o].items \cup {NoElement}
<1>1. o1 \in Present /\ o2 \in Present
  BY DEF IsScenario, Present
<1>2. s.pairs[<<o1, o2>>] \in Seq((P(o1) \X P(o2)) \ {<<NoElement, NoElement>>})
  BY DEF IsScenario, IsMatching
<1>3. pair \in (P(o1) \X P(o2)) \ {<<NoElement, NoElement>>}
  BY <1>2
<1>4. P(o1) \subseteq Places /\ P(o2) \subseteq Places
  BY <1>1 DEF Places
<1>5. pair \in Places \X Places
  BY <1>3, <1>4
<1>6. pair[1] # NoElement \/ pair[2] # NoElement
  BY <1>3
<1>7. pair[1] # NoElement => Down(o1, pair[1]) \in Present
  BY <1>1, <1>3, DiffTreeAssumption DEF Down, Present
<1>8. pair[2] # NoElement => Down(o2, pair[2]) \in Present
  BY <1>1, <1>3, DiffTreeAssumption DEF Down, Present
<1>9. ASSUME pair[1] # NoElement, pair[2] # NoElement, AreCompared(Down(o1, pair[1]), Down(o2, pair[2]))
      PROVE  <<Down(o1, pair[1]), Down(o2, pair[2])>> \in DOMAIN s.pairs
  BY <1>9 DEF IsScenario
<1> QED  BY <1>1, <1>5, <1>6, <1>7, <1>8, <1>9

(* The kind of an object is not that of nothing.                           *)
LEMMA ComparedArePresent ==
  ASSUME NEW o1 \in Things, NEW o2 \in Things, AreCompared(o1, o2)
  PROVE  o1 \in Present /\ o2 \in Present
  BY DiffTreeAssumption DEF AreCompared, Kind, Present, Things

(* A level that gets its relationships.                                    *)
LEMMA RelatedNode ==
  ASSUME NEW l \in NodeType, NEW p1 \in Places, NEW p2 \in Places
  PROVE  /\ Related(l, p1, p2) \in NodeType
         /\ Related(l, p1, p2).o1 = l.o1 /\ Related(l, p1, p2).o2 = l.o2
         /\ Related(l, p1, p2).class = Kind(l.o1)
         /\ Related(l, p1, p2).p1 = p1 /\ Related(l, p1, p2).p2 = p2
         /\ Related(l, p1, p2).moved = l.moved /\ Related(l, p1, p2).dict = l.dict
  BY DEF NodeType, Related

(* A node as it is made.                                                   *)
LEMMA NewNode ==
  ASSUME NEW o1 \in Things, NEW o2 \in Things, NEW dict \in Nat
  PROVE  /\ Node(o1, o2, dict) \in NodeType
         /\ Node(o1, o2, dict).o1 = o1 /\ Node(o1, o2, dict).o2 = o2
         /\ ~Node(o1, o2, dict).moved /\ Node(o1, o2, dict).dict = dict
  BY DEF NodeType, Node, Places

(* A branch of a line, node by node.                                       *)
IsBranch(new, line, pair, dict) ==
  LET l == Leaf(line)
  IN  /\ new \in LineType /\ Len(new) = Len(line) + 1
      /\ \A i \in 1 .. Len(line) - 1 : new[i] = line[i]
      /\ \A i \in 1 .. Len(line) : /\ new[i].o1 = line[i].o1 /\ new[i].o2 = line[i].o2
                                   /\ new[i].moved = line[i].moved /\ new[i].dict = line[i].dict
      /\ new[Len(line)].class = Kind(l.o1) /\ new[Len(line)].p1 = pair[1] /\ new[Len(line)].p2 = pair[2]
      /\ pair[1] = NoElement => Leaf(new).o1 = NotPresent
      /\ pair[1] # NoElement => Leaf(new).o1 = Down(l.o1, pair[1])
      /\ pair[2] = NoElement => Leaf(new).o2 = NotPresent
      /\ pair[2] # NoElement => Leaf(new).o2 = Down(l.o2, pair[2])
      /\ ~Leaf(new).moved /\ Leaf(new).dict = dict

(* The last node of a line.                                                *)
LEMMA LineFacts ==
  ASSUME NEW line \in LineType, line # <<>>
  PROVE  /\ Len(line) \in Nat \ {0}
         /\ Leaf(line) = line[Len(line)]
         /\ Leaf(line) \in NodeType
         /\ \A i \in 1 .. Len(line) : line[i] \in NodeType
  BY DEF LineType, Leaf

(* branch_deeper does what its name says: the line is copied, its last     *)
(* level gets the relationships, and there is one level more.              *)
LEMMA BranchShape ==
  ASSUME NEW line \in LineType, line # <<>>, NEW pair \in Places \X Places, NEW dict \in Nat,
         Leaf(line).o1 \in Present, Leaf(line).o2 \in Present,
         pair[1] # NoElement => Down(Leaf(line).o1, pair[1]) \in Present,
         pair[2] # NoElement => Down(Leaf(line).o2, pair[2]) \in Present
  PROVE  IsBranch(BranchDeeper(line, pair, dict), line, pair, dict)
<1> DEFINE o1 == IF pair[1] = NoElement THEN NotPresent ELSE Down(Leaf(line).o1, pair[1])
           o2 == IF pair[2] = NoElement THEN NotPresent ELSE Down(Leaf(line).o2, pair[2])
           mid == Related(Leaf(line), pair[1], pair[2])
<1>1. PICK m \in Nat \ {0} : m = Len(line)
  BY LineFacts
<1>2. PICK l \in NodeType : l = Leaf(line)
  BY LineFacts
<1>3. PICK new : new = BranchDeeper(line, pair, dict)
  OBVIOUS
<1>4. PICK up \in NodeType :
        /\ up = mid
        /\ up.o1 = l.o1 /\ up.o2 = l.o2 /\ up.class = Kind(l.o1) /\ up.p1 = pair[1] /\ up.p2 = pair[2]
        /\ up.moved = l.moved /\ up.dict = l.dict
  BY <1>2, RelatedNode
<1>5. o1 \in Things /\ o2 \in Things
  BY DEF Things
<1>6. PICK end \in NodeType :
        end = Node(o1, o2, dict) /\ end.o1 = o1 /\ end.o2 = o2 /\ ~end.moved /\ end.dict = dict
  <2> HIDE DEF o1, o2
  <2>1. /\ Node(o1, o2, dict) \in NodeType
        /\ Node(o1, o2, dict).o1 = o1 /\ Node(o1, o2, dict).o2 = o2
        /\ ~Node(o1, o2, dict).moved /\ Node(o1, o2, dict).dict = dict
    BY <1>5, NewNode
  <2> QED  BY <2>1
<1>7. new = Append([line EXCEPT ![m] = up], end)
  BY <1>1, <1>3, <1>4, <1>6 DEF BranchDeeper, Leaf
<1>8. PICK upper \in LineType :
        /\ upper = [line EXCEPT ![m] = up] /\ Len(upper) = m /\ upper[m] = up
        /\ \A i \in 1 .. m - 1 : upper[i] = line[i]
  <2>1. PICK upper : upper = [line EXCEPT ![m] = up]
    OBVIOUS
  <2>2. upper \in LineType /\ Len(upper) = m
    BY <1>1, <2>1 DEF LineType
  <2>3. upper[m] = up /\ \A i \in 1 .. m - 1 : upper[i] = line[i]
    BY <1>1, <2>1 DEF LineType
  <2> QED  BY <2>1, <2>2, <2>3
<1>9. /\ new \in LineType /\ Len(new) = m + 1 /\ new[m + 1] = end
      /\ new[m] = up
      /\ \A i \in 1 .. m - 1 : new[i] = line[i]
  BY <1>7, <1>8 DEF LineType
<1>10. Leaf(new) = end /\ l = line[m]
  BY <1>1, <1>2, <1>9 DEF Leaf
<1>11. \A i \in 1 .. m : /\ new[i].o1 = line[i].o1 /\ new[i].o2 = line[i].o2
                         /\ new[i].moved = line[i].moved /\ new[i].dict = line[i].dict
  BY <1>4, <1>9, <1>10
<1>12. IsBranch(new, line, pair, dict)
  <2> HIDE DEF mid
  <2> QED  BY <1>1, <1>2, <1>4, <1>6, <1>9, <1>10, <1>11 DEF IsBranch
<1> QED  BY <1>3, <1>12

(* What the walk makes of an open line and a pair of its items.            *)
LEMMA BranchIsBranch ==
  ASSUME NEW s, IsScenario(s), NEW line, OpenLine(s, line), line # <<>>,
         AreCompared(Leaf(line).o1, Leaf(line).o2),
         NEW pair, NEW j \in DOMAIN s.pairs[<<Leaf(line).o1, Leaf(line).o2>>],
         pair = s.pairs[<<Leaf(line).o1, Leaf(line).o2>>][j],
         NEW dict \in Nat
  PROVE  IsBranch(BranchDeeper(line, pair, dict), line, pair, dict)
<1>1. /\ line \in LineType /\ Leaf(line).o1 \in Present /\ Leaf(line).o2 \in Present
      /\ <<Leaf(line).o1, Leaf(line).o2>> \in DOMAIN s.pairs
  BY DEF OpenLine, GoodLine
<1>2. /\ pair \in Places \X Places
      /\ pair[1] # NoElement => Down(Leaf(line).o1, pair[1]) \in Present
      /\ pair[2] # NoElement => Down(Leaf(line).o2, pair[2]) \in Present
  BY <1>1, PairFacts
<1> QED  BY <1>1, <1>2, BranchShape

(* A branch of an open line is a good line, and open if both items exist.  *)
LEMMA BranchIsGood ==
  ASSUME NEW s, IsScenario(s), NEW line, OpenLine(s, line), line # <<>>,
         AreCompared(Leaf(line).o1, Leaf(line).o2),
         NEW pair, NEW j \in DOMAIN s.pairs[<<Leaf(line).o1, Leaf(line).o2>>],
         pair = s.pairs[<<Leaf(line).o1, Leaf(line).o2>>][j],
         NEW dict \in Nat, NEW new, IsBranch(new, line, pair, dict)
  PROVE  /\ GoodLine(s, new)
         /\ pair[1] # NoElement /\ pair[2] # NoElement
              /\ (s.compare => Leaf(line).moved \/ pair[1] = pair[2])
              => OpenLine(s, new)
<1>1. /\ line \in LineType /\ Leaf(line).o1 \in Present /\ Leaf(line).o2 \in Present
      /\ <<Leaf(line).o1, Leaf(line).o2>> \in DOMAIN s.pairs
  BY DEF OpenLine, GoodLine
<1>2. /\ pair \in Places \X Places
      /\ pair[1] # NoElement => Down(Leaf(line).o1, pair[1]) \in Present
      /\ pair[2] # NoElement => Down(Leaf(line).o2, pair[2]) \in Present
      /\ pair[1] # NoElement /\ pair[2] # NoElement
           /\ AreCompared(Down(Leaf(line).o1, pair[1]), Down(Leaf(line).o2, pair[2]))
           => <<Down(Leaf(line).o1, pair[1]), Down(Leaf(line).o2, pair[2])>> \in DOMAIN s.pairs
  BY <1>1, PairFacts
<1>3. PICK m \in Nat \ {0} : m = Len(line)
  BY <1>1, LineFacts
<1>4. new \in LineType /\ Len(new) = m + 1
  BY <1>3 DEF IsBranch
<1>5. Leaf(new) = new[m + 1] /\ Leaf(line) = line[m]
  BY <1>3, <1>4 DEF Leaf
<1>6. \A i \in 1 .. m : /\ new[i].o1 = line[i].o1 /\ new[i].o2 = line[i].o2
                        /\ new[i].moved = line[i].moved
  BY <1>3 DEF IsBranch
<1>7. \A i \in 1 .. m - 1 : new[i] = line[i]
  BY <1>3 DEF IsBranch
<1>8. new[1].o1 \in Present /\ new[1].o2 \in Present
  BY <1>3, <1>6 DEF OpenLine, GoodLine
<1>9. \A n \in 1 .. Len(new) : new[n].moved => s.compare
  <2>1. ~new[m + 1].moved
    BY <1>5 DEF IsBranch
  <2>2. \A n \in 1 .. m : line[n].moved => s.compare
    BY <1>3 DEF OpenLine, GoodLine
  <2> QED  BY <1>3, <1>4, <1>6, <2>1, <2>2
<1>10. IsAbove(s, new[m], new[m + 1])
  <2>1. pair = <<pair[1], pair[2]>>
    <3>1. pair \in Places \X Places
      BY <1>2
    <3> QED  BY <3>1
  <2>2. /\ new[m].class = Kind(Leaf(line).o1) /\ new[m].p1 = pair[1] /\ new[m].p2 = pair[2]
        /\ new[m].o1 = Leaf(line).o1 /\ new[m].o2 = Leaf(line).o2
    <3>1. new[m].class = Kind(Leaf(line).o1) /\ new[m].p1 = pair[1] /\ new[m].p2 = pair[2]
      BY <1>3 DEF IsBranch
    <3>2. m \in 1 .. m
      BY <1>3
    <3>3. new[m].o1 = line[m].o1 /\ new[m].o2 = line[m].o2
      BY <3>2, <1>6
    <3> QED  BY <3>1, <3>3, <1>5
  <2>3. /\ new[m + 1].o1 = IF pair[1] = NoElement THEN NotPresent ELSE Down(Leaf(line).o1, pair[1])
        /\ pair[2] # NoElement => new[m + 1].o2 = Down(Leaf(line).o2, pair[2])
    BY <1>5 DEF IsBranch
  <2> QED  BY <1>1, <2>1, <2>2, <2>3 DEF IsAbove
<1>11. ASSUME NEW n \in 1 .. m - 1  PROVE  IsAbove(s, new[n], new[n + 1])
  <2>1. IsAbove(s, line[n], line[n + 1])
    BY <1>3 DEF OpenLine, GoodLine
  <2>2. n + 1 \in 1 .. m
    BY <1>3
  <2>3. new[n] = line[n] /\ new[n + 1].o1 = line[n + 1].o1 /\ new[n + 1].o2 = line[n + 1].o2
    BY <2>2, <1>6, <1>7
  <2> QED  BY <2>1, <2>3 DEF IsAbove
<1>12. \A n \in 1 .. Len(new) - 1 : IsAbove(s, new[n], new[n + 1])
  BY <1>3, <1>4, <1>10, <1>11
<1>13. \A n \in 1 .. m - 1 : IsPassed(s, new[n])
  BY <1>3, <1>7 DEF OpenLine
<1>14. GoodLine(s, new)
  BY <1>3, <1>4, <1>8, <1>9, <1>12, <1>13 DEF GoodLine
<1>15. ASSUME pair[1] # NoElement, pair[2] # NoElement, s.compare => Leaf(line).moved \/ pair[1] = pair[2]
       PROVE  OpenLine(s, new)
  <2>1. IsPassed(s, new[m])
    <3>1. new[m].p1 = pair[1] /\ new[m].p2 = pair[2]
      BY <1>3 DEF IsBranch
    <3>2. m \in 1 .. m
      BY <1>3
    <3>3. new[m].moved = Leaf(line).moved
      BY <3>2, <1>5, <1>6
    <3> QED  BY <3>1, <3>3, <1>15 DEF IsPassed
  <2>2. \A n \in 1 .. Len(new) - 1 : IsPassed(s, new[n])
    BY <2>1, <1>3, <1>4, <1>13
  <2>3. Leaf(new).o1 = Down(Leaf(line).o1, pair[1]) /\ Leaf(new).o2 = Down(Leaf(line).o2, pair[2])
    BY <1>15 DEF IsBranch
  <2>4. /\ Leaf(new).o1 \in Present /\ Leaf(new).o2 \in Present
        /\ AreCompared(Leaf(new).o1, Leaf(new).o2) => <<Leaf(new).o1, Leaf(new).o2>> \in DOMAIN s.pairs
    BY <1>2, <1>15, <2>3
  <2> QED  BY <1>14, <2>2, <2>4 DEF OpenLine
<1> QED  BY <1>14, <1>15

-----------------------------------------------------------------------------
(* Dictionaries.                                                           *)

(* The path of a level is that of what its dictionary is for.              *)
LEMMA PathByPurpose ==
  ASSUME NEW line \in LineType, NEW n \in 1 .. Len(line), NEW role, NEW query
  PROVE  /\ Purpose(line, n, role).at = n
         /\ PathOf(Purpose(line, n, role).rels, n, query) = PathOf(line, n, query)
<1>1. PICK rels : rels = Relations(line, n)
  OBVIOUS
<1>2. \A i \in 1 .. n - 1 :
        /\ rels[i].class = line[i].class /\ rels[i].p1 = line[i].p1 /\ rels[i].p2 = line[i].p2
        /\ rels[i].moved = line[i].moved
  BY <1>1 DEF Relations
<1>3. \A i \in 1 .. n - 1 : Step(rels[i], query) = Step(line[i], query)
  BY <1>2 DEF Step
<1>4. \A i \in 1 .. n - 1 : Representable(rels[i], query) <=> Representable(line[i], query)
  BY <1>2, <1>3 DEF Representable
<1>5. [i \in 1 .. n - 1 |-> Step(rels[i], query)] = [i \in 1 .. n - 1 |-> Step(line[i], query)]
  BY <1>3
<1>6. PathOf(rels, n, query) = PathOf(line, n, query)
  BY <1>4, <1>5 DEF PathOf
<1> QED  BY <1>1, <1>6 DEF Purpose

(* Two levels with the same relationships above and the same objects.      *)
LEMMA SamePurpose ==
  ASSUME NEW line, NEW new, NEW n \in Nat \ {0}, NEW role,
         \A i \in 1 .. n - 1 : /\ new[i].class = line[i].class /\ new[i].moved = line[i].moved
                               /\ new[i].p1 = line[i].p1 /\ new[i].p2 = line[i].p2,
         new[n].o1 = line[n].o1, new[n].o2 = line[n].o2
  PROVE  Purpose(new, n, role) = Purpose(line, n, role)
<1>1. Relations(new, n) = Relations(line, n)
  BY DEF Relations
<1>2. n > 1 => n - 1 \in 1 .. n - 1
  OBVIOUS
<1>3. Own(new, n) = Own(line, n)
  BY <1>2 DEF Own
<1> QED  BY <1>1, <1>3 DEF Purpose

(* New dictionaries leave what is known of the others.                     *)
LEMMA MoreDictionaries ==
  ASSUME NEW g, NEW h, NEW f \in Nat, NEW f2 \in Nat, f <= f2, \A d \in 0 .. f - 1 : h[d] = g[d]
  PROVE  /\ \A line, kind : Conforms(g, f, line, kind) => Conforms(h, f2, line, kind)
         /\ \A c : PlainCache(g, f, c) => PlainCache(h, f2, c)
<1>1. \A d \in 0 .. f - 1 : d \in 0 .. f2 - 1 /\ h[d] = g[d]
  OBVIOUS
<1>2. ASSUME NEW line, NEW kind, Conforms(g, f, line, kind)  PROVE Conforms(h, f2, line, kind)
  BY <1>1, <1>2 DEF Conforms
<1>3. ASSUME NEW c, PlainCache(g, f, c)  PROVE PlainCache(h, f2, c)
  BY <1>1, <1>3 DEF PlainCache
<1> QED  BY <1>2, <1>3

(* A branch shares the dictionaries of its line.                           *)
LEMMA BranchConforms ==
  ASSUME NEW line \in LineType, line # <<>>, NEW pair, NEW dict, NEW new, IsBranch(new, line, pair, dict),
         NEW h, NEW f, Conforms(h, f, line, Walked), dict \in 0 .. f - 1,
         NEW kind, h[dict] = Purpose(new, Len(new), Role(new, Len(new), kind))
  PROVE  Conforms(h, f, new, kind)
<1>1. PICK m \in Nat \ {0} : m = Len(line)
  BY LineFacts
<1>2. Len(new) = m + 1 /\ Leaf(new) = new[m + 1] /\ new[m + 1].dict = dict
  BY <1>1 DEF IsBranch, Leaf
<1>3. \A i \in 1 .. m : /\ new[i].o1 = line[i].o1 /\ new[i].o2 = line[i].o2 /\ new[i].dict = line[i].dict
  BY <1>1 DEF IsBranch
<1>4. \A i \in 1 .. m - 1 : new[i] = line[i]
  BY <1>1 DEF IsBranch
<1>5. ASSUME NEW n \in 1 .. m
      PROVE  new[n].dict \in 0 .. f - 1 /\ h[new[n].dict] = Purpose(new, n, Role(new, n, kind))
  <2>1. Role(new, n, kind) = Walked /\ Role(line, n, Walked) = Walked
    BY <1>1, <1>2 DEF Role, Walked, Moved
  <2>2. \A i \in 1 .. n - 1 : /\ new[i].class = line[i].class /\ new[i].moved = line[i].moved
                              /\ new[i].p1 = line[i].p1 /\ new[i].p2 = line[i].p2
    BY <1>4
  <2>3. Purpose(new, n, Walked) = Purpose(line, n, Walked)
    <3>1. n \in Nat \ {0} /\ new[n].o1 = line[n].o1 /\ new[n].o2 = line[n].o2
      BY <1>3
    <3>2. Relations(new, n) = Relations(line, n)
      BY <2>2 DEF Relations
    <3>3. n > 1 => new[n - 1].p2 = line[n - 1].p2
      <4>1. n > 1 => n - 1 \in 1 .. n - 1
        BY <3>1
      <4> QED  BY <2>2, <4>1
    <3>4. Own(new, n) = Own(line, n)
      BY <3>1, <3>3 DEF Own
    <3> QED  BY <3>2, <3>4 DEF Purpose
  <2>4. line[n].dict \in 0 .. f - 1 /\ h[line[n].dict] = Purpose(line, n, Walked)
    BY <2>1, <1>1 DEF Conforms
  <2> QED  BY <2>1, <2>3, <2>4, <1>3
<1>6. new[m + 1].dict \in 0 .. f - 1 /\ h[new[m + 1].dict] = Purpose(new, m + 1, Role(new, m + 1, kind))
  BY <1>2
<1>7. \A n \in 1 .. m + 1 : n \in 1 .. m \/ n = m + 1
  BY <1>1
<1> QED  BY <1>2, <1>5, <1>6, <1>7 DEF Conforms

(* A question about the path of a line, as long as there are no views.     *)
LEMMA PlainAnswer ==
  ASSUME NEW g, NEW f, PlainCache(g, f, cache), NEW line \in LineType, line # <<>>, NEW kind,
         Conforms(g, f, line, kind) \/ \A key \in DOMAIN cache : key[1] # Leaf(line).dict
  PROVE  AnswerTo(line, Path) = PathOf(line, Len(line), Path)
<1>1. PICK m \in Nat \ {0} : m = Len(line) /\ Leaf(line) = line[m]
  BY LineFacts
<1>2. Asked(line, Path) = m
  BY <1>1 DEF Asked, Path, Query
<1>3. PICK key : key = CacheKey(line, m, Path)
  OBVIOUS
<1>4. key = <<line[m].dict, Path.force, Path.get_parent_too, Path.use_t2>> /\ key[1] = line[m].dict
  BY <1>3 DEF CacheKey
<1>5. CASE key \in DOMAIN cache
  <2>1. PICK d \in 0 .. f - 1 :
          /\ key = <<d, Path.force, Path.get_parent_too, Path.use_t2>>
          /\ cache[key] = PathOf(g[d].rels, g[d].at, Path)
    BY <1>5 DEF PlainCache
  <2>2. d = line[m].dict
    BY <2>1, <1>4
  <2>3. PICK role : g[d] = Purpose(line, m, role)
    BY <1>1, <1>4, <1>5, <2>2 DEF Conforms
  <2>4. cache[key] = PathOf(line, m, Path)
    BY <2>1, <2>3, <1>1, PathByPurpose
  <2> QED  BY <2>4, <1>1, <1>2, <1>3, <1>5 DEF AnswerTo
<1>6. CASE key \notin DOMAIN cache
  BY <1>1, <1>2, <1>3, <1>6 DEF AnswerTo
<1> QED  BY <1>5, <1>6

(* While the walk goes on only plain paths are asked for: an answer is     *)
(* fresh and may be kept.                                                  *)
LEMMA AskPath ==
  ASSUME NEW g, NEW f, PlainCache(g, f, cache), NEW line \in LineType, line # <<>>, Ask(line, Path),
         \/ \E kind : Conforms(g, f, line, kind)
         \/ \A key \in DOMAIN cache : key[1] # Leaf(line).dict,
         NEW h, NEW f2, PlainCache(h, f2, cache), NEW kind, Conforms(h, f2, line, kind)
  PROVE  PlainCache(h, f2, cache') /\ AnswersAreFresh'
<1>1. PICK m \in Nat \ {0} : m = Len(line) /\ Leaf(line) = line[m]
  BY LineFacts
<1>2. Asked(line, Path) = m
  BY <1>1 DEF Asked, Path, Query
<1>3. PICK path : path = AnswerTo(line, Path) /\ path = PathOf(line, m, Path)
  BY <1>1, PlainAnswer
<1>4. answer' = [line |-> line, query |-> Path, path |-> path]
  BY <1>3 DEF Ask
<1>5. AnswersAreFresh'
  BY <1>2, <1>3, <1>4 DEF AnswersAreFresh, Asked
<1>6. PICK new : new = CacheKey(line, m, Path)
  OBVIOUS
<1>7. cache' = [key \in DOMAIN cache \cup {new} |-> IF key \in DOMAIN cache THEN cache[key] ELSE path]
  BY <1>2, <1>3, <1>6 DEF Ask
<1>8. PICK d : d = line[m].dict
  OBVIOUS
<1>9. PICK role : d \in 0 .. f2 - 1 /\ h[d] = Purpose(line, m, role)
  BY <1>1, <1>8 DEF Conforms
<1>10. path = PathOf(h[d].rels, h[d].at, Path)
  BY <1>1, <1>3, <1>9, PathByPurpose
<1>11. new = <<d, Path.force, Path.get_parent_too, Path.use_t2>>
  BY <1>6, <1>8 DEF CacheKey
<1>12. ASSUME NEW key \in DOMAIN cache'
       PROVE  \E e \in 0 .. f2 - 1 : /\ key = <<e, Path.force, Path.get_parent_too, Path.use_t2>>
                                     /\ cache'[key] = PathOf(h[e].rels, h[e].at, Path)
  <2>1. CASE key \in DOMAIN cache
    <3>1. cache'[key] = cache[key]
      BY <2>1, <1>7
    <3> QED  BY <2>1, <3>1 DEF PlainCache
  <2>2. CASE key \notin DOMAIN cache
    <3>1. key = new /\ cache'[key] = path
      BY <2>2, <1>7
    <3> QED  BY <3>1, <1>9, <1>10, <1>11
  <2> QED  BY <2>1, <2>2
<1> QED  BY <1>5, <1>12 DEF PlainCache

-----------------------------------------------------------------------------
(* Texts of paths.                                                         *)

(* A set of numbers has a least one.                                       *)
LEMMA Least ==
  ASSUME NEW T \in SUBSET Nat, T # {}
  PROVE  \E x \in T : \A y \in T : x <= y
<1> DEFINE R == OpToRel(<, Nat)
<1>1. IsWellFoundedOn(R, Nat)
  BY NatLessThanWellFounded
<1>2. \A x, y \in Nat : x < y => <<x, y>> \in R
  BY DEF OpToRel
<1> HIDE DEF R
<1>3. \E x \in T : \A y \in T : ~ (<<y, x>> \in R)
  BY <1>1, WFMin
<1>4. PICK x \in T : \A y \in T : ~ (<<y, x>> \in R)
  BY <1>3
<1>5. \A y \in T : ~ (y < x)
  BY <1>2, <1>4
<1>6. \A y \in T : x <= y
  BY <1>5
<1>7. QED
  BY <1>6

(* The characters; the prover does not know that "." is in STRING.         *)
Chars == STRING \cup Quotes \cup {"[", "]", "."}

(* Sequences put one after the other, up to a number of them.              *)
FlattenTo(seqs, f, m) ==
  [i \in 1 .. m |-> IF i = 1 THEN seqs[i] ELSE f[i - 1] \o seqs[i]]

(* FlattenSeq is such a function.                                          *)
LEMMA FlattenToExists ==
  ASSUME NEW seqs, NEW m \in Nat
  PROVE  \E f : f = FlattenTo(seqs, f, m)
<1> DEFINE Wrong == { k \in Nat : ~ \E f : f = FlattenTo(seqs, f, k) }
<1>1. Wrong = {}
  <2> SUFFICES ASSUME Wrong # {}  PROVE FALSE
    OBVIOUS
  <2>1. Wrong \in SUBSET Nat
    OBVIOUS
  <2> HIDE DEF Wrong
  <2>2. PICK k \in Wrong : \A y \in Wrong : k <= y
    BY <2>1, Least
  <2>3. k \in Nat /\ ~ \E f : f = FlattenTo(seqs, f, k)
    BY DEF Wrong
  <2>4. k # 0
    <3> DEFINE none == [i \in 1 .. 0 |-> seqs]
    <3>1. none = FlattenTo(seqs, none, 0)
      BY DEF FlattenTo
    <3> QED  BY <2>3, <3>1
  <2>5. k - 1 \in Nat /\ k - 1 \notin Wrong
    BY <2>2, <2>3, <2>4
  <2>6. PICK f : f = FlattenTo(seqs, f, k - 1)
    BY <2>5 DEF Wrong
  <2> DEFINE g == [i \in 1 .. k |-> IF i = k THEN IF k = 1 THEN seqs[k] ELSE f[k - 1] \o seqs[k] ELSE f[i]]
  <2>7. ASSUME NEW i \in 1 .. k
        PROVE  g[i] = IF i = 1 THEN seqs[i] ELSE g[i - 1] \o seqs[i]
    <3>1. CASE i = k
      <4>1. g[i] = IF i = 1 THEN seqs[i] ELSE f[i - 1] \o seqs[i]
        BY <3>1
      <4>2. i # 1 => g[i - 1] = f[i - 1]
        BY <2>3, <3>1
      <4> HIDE DEF g
      <4> QED  BY <4>1, <4>2
    <3>2. CASE i # k
      <4>1. i \in 1 .. k - 1 /\ (i # 1 => i - 1 \in 1 .. k - 1)
        BY <2>3, <3>2
      <4>2. g[i] = f[i] /\ (i # 1 => g[i - 1] = f[i - 1])
        BY <2>3, <3>2, <4>1
      <4>3. f[i] = IF i = 1 THEN seqs[i] ELSE f[i - 1] \o seqs[i]
        BY <2>6, <4>1 DEF FlattenTo
      <4> HIDE DEF g
      <4> QED  BY <4>1, <4>2, <4>3
    <3> QED  BY <3>1, <3>2
  <2>8. g = [i \in 1 .. k |-> g[i]]
    OBVIOUS
  <2> HIDE DEF g
  <2>9. g = FlattenTo(seqs, g, k)
    BY <2>7, <2>8 DEF FlattenTo
  <2> QED  BY <2>3, <2>9
<1> QED  BY <1>1

(* Every one of the sequences has its place in the whole.                  *)
IsAt(seq, k, whole) ==
  /\ k + Len(seq) <= Len(whole)
  /\ \A j \in 1 .. Len(seq) : whole[k + j] = seq[j]

AreAt(seqs, m, pos, whole) ==
  /\ whole \in Seq(Chars)
  /\ pos[0] = 0 /\ pos[m] = Len(whole)
  /\ \A i \in 0 .. m : pos[i] \in Nat
  /\ \A i \in 1 .. m : pos[i] = pos[i - 1] + Len(seqs[i]) /\ IsAt(seqs[i], pos[i - 1], whole)

(* It keeps it when more is put after them, ...                            *)
LEMMA StaysAt ==
  ASSUME NEW whole \in Seq(Chars), NEW last \in Seq(Chars), NEW k \in Nat, NEW seq \in Seq(Chars),
         IsAt(seq, k, whole)
  PROVE  IsAt(seq, k, whole \o last)
<1>1. Len(whole) \in Nat /\ Len(last) \in Nat /\ Len(seq) \in Nat /\ Len(whole \o last) = Len(whole) + Len(last)
  OBVIOUS
<1>2. \A i \in 1 .. Len(whole) : (whole \o last)[i] = whole[i]
  OBVIOUS
<1>3. \A j \in 1 .. Len(seq) : k + j \in 1 .. Len(whole)
  BY <1>1 DEF IsAt
<1> QED  BY <1>1, <1>2, <1>3 DEF IsAt

(* ... and the last one is at the end.                                     *)
LEMMA AtTheEnd ==
  ASSUME NEW whole \in Seq(Chars), NEW last \in Seq(Chars)
  PROVE  IsAt(last, Len(whole), whole \o last)
<1>1. Len(whole) \in Nat /\ Len(last) \in Nat /\ Len(whole \o last) = Len(whole) + Len(last)
  OBVIOUS
<1>2. \A j \in 1 .. Len(last) : (whole \o last)[Len(whole) + j] = last[j]
  OBVIOUS
<1> QED  BY <1>1, <1>2 DEF IsAt

(* FlattenSeq puts every sequence at its place.                            *)
LEMMA FlattenByItem ==
  ASSUME NEW n \in Nat, NEW seqs, Len(seqs) = n, n = 0 => seqs = <<>>,
         \A i \in 1 .. n : seqs[i] \in Seq(Chars)
  PROVE  \E pos : AreAt(seqs, n, pos, FlattenSeq(seqs))
<1>1. CASE n = 0
  <2>1. FlattenSeq(seqs) = <<>>
    BY <1>1 DEF FlattenSeq
  <2> DEFINE pos == [i \in 0 .. 0 |-> 0]
  <2>2. AreAt(seqs, n, pos, <<>>)
    BY <1>1 DEF AreAt
  <2> QED  BY <2>1, <2>2
<1>2. CASE n # 0
  <2> DEFINE flatten == CHOOSE f : f = FlattenTo(seqs, f, n)
  <2>1. FlattenSeq(seqs) = flatten[n]
    BY <1>2 DEF FlattenSeq, FlattenTo
  <2>2. PICK f : f = FlattenTo(seqs, f, n) /\ f = flatten
    BY FlattenToExists
  <2> HIDE DEF flatten
  <2>3. \A i \in 1 .. n : f[i] = IF i = 1 THEN seqs[i] ELSE f[i - 1] \o seqs[i]
    BY <2>2 DEF FlattenTo
  <2> DEFINE Wrong == { m \in 1 .. n : ~ \E pos : AreAt(seqs, m, pos, f[m]) }
  <2>4. Wrong = {}
    <3> SUFFICES ASSUME Wrong # {}  PROVE FALSE
      OBVIOUS
    <3>1. Wrong \in SUBSET Nat
      OBVIOUS
    <3> HIDE DEF Wrong
    <3>2. PICK m \in Wrong : \A y \in Wrong : m <= y
      BY <3>1, Least
    <3>3. m \in 1 .. n /\ ~ \E pos : AreAt(seqs, m, pos, f[m])
      BY DEF Wrong
    <3>4. m \in Nat \ {0} /\ seqs[m] \in Seq(Chars) /\ Len(seqs[m]) \in Nat
      BY <3>3
    <3>5. CASE m = 1
      <4>1. f[1] = seqs[1] /\ seqs[1] \in Seq(Chars)
        BY <2>3, <3>3, <3>4, <3>5
      <4> DEFINE pos == [i \in 0 .. 1 |-> IF i = 0 THEN 0 ELSE Len(seqs[1])]
      <4>2. pos[0] = 0 /\ pos[1] = Len(seqs[1]) /\ Len(seqs[1]) \in Nat
        BY <3>4, <3>5
      <4> HIDE DEF pos
      <4>3. IsAt(seqs[1], 0, seqs[1])
        BY <4>1 DEF IsAt
      <4>4. \A i \in 0 .. 1 : i = 0 \/ i = 1
        OBVIOUS
      <4>5. \A i \in 1 .. 1 : i = 1
        OBVIOUS
      <4>6. AreAt(seqs, 1, pos, f[1])
        BY <4>1, <4>2, <4>3, <4>4, <4>5 DEF AreAt
      <4> QED  BY <3>3, <3>5, <4>6
    <3>6. CASE m # 1
      <4>1. m - 1 \in 1 .. n /\ m - 1 \notin Wrong
        BY <3>2, <3>3, <3>6
      <4>2. PICK p : AreAt(seqs, m - 1, p, f[m - 1])
        BY <4>1 DEF Wrong
      <4>3. PICK before \in Seq(Chars) : before = f[m - 1] /\ Len(before) \in Nat
        BY <4>2 DEF AreAt
      <4>4. PICK last \in Seq(Chars) : last = seqs[m] /\ Len(last) \in Nat
        BY <3>4
      <4>5. f[m] = before \o last /\ before \o last \in Seq(Chars) /\ Len(before \o last) = Len(before) + Len(last)
        <5>1. f[m] = f[m - 1] \o seqs[m]
          BY <2>3, <3>3, <3>6
        <5> QED  BY <5>1, <4>3, <4>4
      <4> DEFINE pos == [i \in 0 .. m |-> IF i = m THEN Len(before) + Len(last) ELSE p[i]]
      <4>6. pos[m] = Len(before) + Len(last) /\ \A i \in 0 .. m - 1 : pos[i] = p[i]
        BY <3>4
      <4> HIDE DEF pos
      <4>7. pos[0] = 0 /\ pos[m - 1] = Len(before)
        BY <3>4, <3>6, <4>2, <4>3, <4>6 DEF AreAt
      <4>8. \A i \in 0 .. m : pos[i] \in Nat
        <5>1. \A i \in 0 .. m - 1 : p[i] \in Nat
          BY <4>2 DEF AreAt
        <5>2. Len(before) + Len(last) \in Nat
          OBVIOUS
        <5>3. ASSUME NEW i \in 0 .. m  PROVE pos[i] \in Nat
          <6>1. i = m \/ i \in 0 .. m - 1
            BY <3>4
          <6> QED  BY <6>1, <5>1, <5>2, <4>6
        <5> QED  BY <5>3
      <4>9. ASSUME NEW i \in 1 .. m
            PROVE  pos[i] = pos[i - 1] + Len(seqs[i]) /\ IsAt(seqs[i], pos[i - 1], before \o last)
        <5>1. CASE i = m
          <6>1. IsAt(last, Len(before), before \o last)
            BY AtTheEnd
          <6> QED  BY <5>1, <6>1, <4>4, <4>6, <4>7
        <5>2. CASE i # m
          <6>1. i \in 1 .. m - 1 /\ i - 1 \in 0 .. m - 1 /\ i \in 0 .. m - 1 /\ i \in 1 .. n
            BY <3>3, <3>4, <5>2
          <6>2. p[i] = p[i - 1] + Len(seqs[i]) /\ IsAt(seqs[i], p[i - 1], before) /\ p[i - 1] \in Nat
            BY <6>1, <4>2, <4>3 DEF AreAt
          <6>3. seqs[i] \in Seq(Chars)
            BY <6>1
          <6>4. IsAt(seqs[i], p[i - 1], before \o last)
            BY <6>2, <6>3, StaysAt
          <6> QED  BY <6>1, <6>2, <6>4, <4>6
        <5> QED  BY <5>1, <5>2
      <4>10. AreAt(seqs, m, pos, f[m])
        BY <4>5, <4>6, <4>7, <4>8, <4>9 DEF AreAt
      <4> QED  BY <3>3, <4>10
    <3> QED  BY <3>5, <3>6
  <2>5. \E pos : AreAt(seqs, n, pos, f[n])
    BY <1>2, <2>4
  <2> QED  BY <2>1, <2>2, <2>5
<1> QED  BY <1>1, <1>2

(* A sequence over some set is one over any larger set.                    *)
LEMMA SeqOfMore ==
  ASSUME NEW S, NEW T, S \subseteq T, NEW s \in Seq(S)
  PROVE  s \in Seq(T) /\ Len(s) \in Nat
<1>1. Len(s) \in Nat /\ \A j \in 1 .. Len(s) : s[j] \in T
  OBVIOUS
<1>2. s = [j \in 1 .. Len(s) |-> s[j]]
  OBVIOUS
<1> QED  BY <1>1, <1>2

(* The texts of elements.                                                  *)
LEMMA ElementText ==
  ASSUME NEW e, IsElement(e)
  PROVE  e.text \in Seq(Chars) /\ Len(e.text) \in Nat
<1>1. e.text \in Seq(STRING)
  BY DEF IsElement
<1>2. STRING \subseteq Chars
  BY DEF Chars
<1> QED  BY <1>1, <1>2, SeqOfMore

(* What is put between two characters.                                     *)
LEMMA Wrapped ==
  ASSUME NEW S, NEW x \in S, NEW y \in S, NEW t \in Seq(S), NEW w, w = <<x>> \o t \o <<y>>
  PROVE  /\ w \in Seq(S) /\ Len(w) = Len(t) + 2 /\ Len(t) \in Nat
         /\ w[1] = x /\ w[Len(t) + 2] = y /\ \A j \in 1 .. Len(t) : w[j + 1] = t[j]
<1>1. PICK u : u = <<x>> \o t
  OBVIOUS
<1>2. /\ u \in Seq(S) /\ Len(u) = Len(t) + 1 /\ Len(t) \in Nat
      /\ u[1] = x /\ \A j \in 1 .. Len(t) : u[j + 1] = t[j]
  BY <1>1
<1>3. w = u \o <<y>>
  BY <1>1
<1>4. /\ w \in Seq(S) /\ Len(w) = Len(u) + 1
      /\ w[Len(u) + 1] = y /\ \A j \in 1 .. Len(u) : w[j] = u[j]
  BY <1>2, <1>3
<1>5. \A j \in 1 .. Len(t) : j + 1 \in 1 .. Len(u)
  BY <1>2
<1> QED  BY <1>2, <1>4, <1>5

(* What an element is written as: a dot and a name, an index in brackets,  *)
(* or a key in brackets and in quotes it does not contain.                 *)
IsWritten(e, q) ==
  LET w == ParamRepr(e)
      n == Len(e.text)
  IN  /\ w \in Seq(Chars) /\ n \in Nat
      /\ IF e.action = GetAttr
         THEN Len(w) = n + 1 /\ w[1] = "." /\ \A j \in 1 .. n : w[j + 1] = e.text[j]
         ELSE IF e.kind = "int"
         THEN Len(w) = n + 2 /\ w[1] = "[" /\ w[n + 2] = "]" /\ \A j \in 1 .. n : w[j + 1] = e.text[j]
         ELSE /\ Len(w) = n + 4 /\ w[1] = "[" /\ w[2] = q /\ w[n + 3] = q /\ w[n + 4] = "]"
              /\ \A j \in 1 .. n : w[j + 2] = e.text[j]

(* The characters of a text are in its range.                              *)
LEMMA RangeHas ==
  ASSUME NEW text \in Seq(Chars)
  PROVE  \A j \in 1 .. Len(text) : text[j] \in Range(text)
  BY DEF Range

(* The quotes stringify_element chooses for a key; the key has none of     *)
(* them, unless it has quotes of both kinds.                               *)
QuoteOf(e) == IF Has(e.text, "'") THEN "\"" ELSE "'"

LEMMA QuotesOff ==
  ASSUME NEW e, IsElement(e), ~HasBothQuotes(e)
  PROVE  /\ QuoteOf(e) \in Quotes
         /\ e.action # GetAttr /\ e.kind # "int" => QuoteOf(e) \notin Range(e.text)
  BY DEF QuoteOf, Quotes, HasBothQuotes, Has

(* get_param_repr writes an element so.                                    *)
LEMMA ElementIsWritten ==
  ASSUME NEW e, IsElement(e), ~HasBothQuotes(e)
  PROVE  IsWritten(e, QuoteOf(e))
<1>1. PICK text \in Seq(Chars) : text = e.text /\ Len(text) \in Nat
  BY ElementText
<1>2. e.action \in Actions /\ e.kind \in {"str", "int"}
  BY DEF IsElement
<1>3. PICK q \in Chars : q = QuoteOf(e)
  BY DEF QuoteOf, Chars, Quotes
<1>4. CASE e.action = GetAttr
  <2>1. ~Has(e.text, "'") /\ ~Has(e.text, "\"")
    BY <1>4 DEF IsElement, Has, Quotes
  <2>2. StringifyElement(e.text, FALSE) = text
    BY <1>1, <2>1 DEF StringifyElement
  <2>3. ParamRepr(e) = <<".">> \o text
    BY <1>4, <2>2 DEF ParamRepr
  <2>4. /\ <<".">> \o text \in Seq(Chars) /\ Len(<<".">> \o text) = Len(text) + 1
        /\ (<<".">> \o text)[1] = "." /\ \A j \in 1 .. Len(text) : (<<".">> \o text)[j + 1] = text[j]
    <3>1. "." \in Chars
      BY DEF Chars
    <3> QED  BY <1>1, <3>1
  <2> QED  BY <1>1, <1>4, <2>3, <2>4 DEF IsWritten
<1>5. CASE e.action # GetAttr /\ e.kind = "int"
  <2>1. ParamRepr(e) = <<"[">> \o text \o <<"]">>
    BY <1>1, <1>5 DEF ParamRepr
  <2>2. PICK w : w = <<"[">> \o text \o <<"]">>
    OBVIOUS
  <2>3. /\ w \in Seq(Chars) /\ Len(w) = Len(text) + 2
        /\ w[1] = "[" /\ w[Len(text) + 2] = "]" /\ \A j \in 1 .. Len(text) : w[j + 1] = text[j]
    <3>1. "[" \in Chars /\ "]" \in Chars
      BY DEF Chars
    <3> QED  BY <2>2, <3>1, Wrapped
  <2> QED  BY <1>1, <1>5, <2>1, <2>2, <2>3 DEF IsWritten
<1>6. CASE e.action # GetAttr /\ e.kind # "int"
  <2>1. StringifyElement(e.text, TRUE) = <<q>> \o text \o <<q>>
    BY <1>1, <1>3 DEF StringifyElement, QuoteOf
  <2>2. PICK mid : mid = <<q>> \o text \o <<q>>
    OBVIOUS
  <2>3. /\ mid \in Seq(Chars) /\ Len(mid) = Len(text) + 2
        /\ mid[1] = q /\ mid[Len(text) + 2] = q /\ \A j \in 1 .. Len(text) : mid[j + 1] = text[j]
    BY <2>2, Wrapped
  <2>4. ParamRepr(e) = <<"[">> \o mid \o <<"]">>
    BY <1>6, <2>1, <2>2 DEF ParamRepr
  <2>5. PICK w : w = <<"[">> \o mid \o <<"]">>
    OBVIOUS
  <2>6. /\ w \in Seq(Chars) /\ Len(w) = Len(mid) + 2
        /\ w[1] = "[" /\ w[Len(mid) + 2] = "]" /\ \A j \in 1 .. Len(mid) : w[j + 1] = mid[j]
    <3>1. "[" \in Chars /\ "]" \in Chars
      BY DEF Chars
    <3> QED  BY <2>3, <2>5, <3>1, Wrapped
  <2>7. Len(w) = Len(text) + 4 /\ w[2] = q /\ w[Len(text) + 3] = q /\ w[Len(text) + 4] = "]"
    <3>1. 1 \in 1 .. Len(mid) /\ Len(text) + 2 \in 1 .. Len(mid) /\ 1 + 1 = 2 /\ Len(text) + 2 + 1 = Len(text) + 3
      BY <1>1, <2>3
    <3> QED  BY <1>1, <2>3, <2>6, <3>1
  <2>8. ASSUME NEW j \in 1 .. Len(text)
        PROVE  w[j + 2] = text[j]
    <3>1. j + 1 \in 1 .. Len(mid) /\ (j + 1) + 1 = j + 2
      BY <1>1, <2>3
    <3> QED  BY <2>3, <2>6, <3>1
  <2> QED  BY <1>1, <1>3, <1>6, <2>4, <2>5, <2>6, <2>7, <2>8 DEF IsWritten
<1> QED  BY <1>4, <1>5, <1>6

(* Where an element may end.                                               *)
Ends(k, whole) == k = Len(whole) \/ whole[k + 1] \in {"[", "."}

(* Texts of one length, with the same characters.                          *)
LEMMA SameText ==
  ASSUME NEW a \in Seq(Chars), NEW b \in Seq(Chars), Len(a) = Len(b), \A j \in 1 .. Len(a) : a[j] = b[j]
  PROVE  a = b
  OBVIOUS

(* Elements have no more than their action, kind and text.                 *)
LEMMA SameElement ==
  ASSUME NEW e, IsElement(e), NEW f, IsElement(f), e.action = f.action, e.kind = f.kind, e.text = f.text
  PROVE  e = f
  BY DEF IsElement

(* Of two elements written at one place, neither text goes on where the    *)
(* other ends.                                                             *)
LEMMA NotShorter ==
  ASSUME NEW e, IsElement(e), ~HasBothQuotes(e), NEW f, IsElement(f), ~HasBothQuotes(f),
         NEW whole \in Seq(Chars), NEW k \in Nat,
         IsAt(ParamRepr(e), k, whole), IsAt(ParamRepr(f), k, whole),
         Ends(k + Len(ParamRepr(e)), whole),
         e.action = f.action, e.kind = f.kind,
         e.action # GetAttr /\ e.kind # "int" => QuoteOf(e) = QuoteOf(f)
  PROVE  Len(f.text) <= Len(e.text)
<1>1. PICK n \in Nat, m \in Nat : n = Len(e.text) /\ m = Len(f.text)
  BY ElementText
<1> SUFFICES ASSUME n < m  PROVE FALSE
  BY <1>1
<1>2. f.text \in Seq(Chars)
  BY ElementText
<1>3. f.text[n + 1] \in Range(f.text) /\ n + 1 \in 1 .. m
  BY <1>1, <1>2, RangeHas
<1>4. IsWritten(e, QuoteOf(e)) /\ IsWritten(f, QuoteOf(f))
  BY ElementIsWritten
<1>5. PICK u, v : u = ParamRepr(e) /\ v = ParamRepr(f) /\ u \in Seq(Chars) /\ v \in Seq(Chars)
  BY <1>4 DEF IsWritten
<1>6. /\ \A j \in 1 .. Len(u) : whole[k + j] = u[j]
      /\ \A j \in 1 .. Len(v) : whole[k + j] = v[j]
      /\ k + Len(v) <= Len(whole)
  BY <1>5 DEF IsAt
<1>7. CASE e.action = GetAttr
  <2>1. Len(u) = n + 1 /\ Len(v) = m + 1 /\ v[n + 2] = f.text[n + 1]
    <3>1. Len(u) = n + 1
      BY <1>1, <1>4, <1>5, <1>7 DEF IsWritten
    <3>2. Len(v) = m + 1 /\ v[(n + 1) + 1] = f.text[n + 1]
      BY <1>1, <1>3, <1>4, <1>5, <1>7 DEF IsWritten
    <3> QED  BY <3>1, <3>2
  <2>2. n + 2 \in 1 .. Len(v) /\ k + Len(u) + 1 = k + (n + 2)
    <3>1. Len(u) = n + 1 /\ Len(v) = m + 1
      BY <2>1
    <3> QED  BY <3>1
  <2>3. whole[k + Len(u) + 1] = f.text[n + 1]
    BY <1>6, <2>1, <2>2
  <2>4. k + Len(u) # Len(whole)
    <3>1. Len(u) = n + 1 /\ Len(v) = m + 1
      BY <2>1
    <3>2. PICK size \in Nat : size = Len(whole) /\ k + Len(v) <= size
      BY <1>6
    <3> QED  BY <3>1, <3>2
  <2>5. f.text[n + 1] \in {"[", "."}
    BY <1>5, <2>3, <2>4 DEF Ends
  <2> QED  BY <1>3, <1>7, <2>5 DEF IsElement
<1>8. CASE e.action # GetAttr /\ e.kind = "int"
  <2>1. Len(u) = n + 2 /\ u[n + 2] = "]" /\ Len(v) = m + 2 /\ v[n + 2] = f.text[n + 1]
    BY <1>1, <1>3, <1>4, <1>5, <1>8 DEF IsWritten
  <2>2. n + 2 \in 1 .. Len(v) /\ n + 2 \in 1 .. Len(u)
    <3>1. Len(u) = n + 2 /\ Len(v) = m + 2
      BY <2>1
    <3> QED  BY <3>1
  <2>3. f.text[n + 1] = "]"
    BY <1>6, <2>1, <2>2
  <2> QED  BY <1>3, <1>8, <2>3 DEF IsElement
<1>9. CASE e.action # GetAttr /\ e.kind # "int"
  <2>1. Len(u) = n + 4 /\ u[n + 3] = QuoteOf(f) /\ Len(v) = m + 4 /\ v[n + 3] = f.text[n + 1]
    <3>1. Len(v) = m + 4 /\ n + 1 \in 1 .. m /\ n + 1 + 2 = n + 3 /\ f.kind # "int" /\ f.action # GetAttr
      BY <1>1, <1>3, <1>4, <1>5, <1>9 DEF IsWritten
    <3>2. v[n + 3] = f.text[n + 1]
      BY <1>1, <1>4, <1>5, <3>1 DEF IsWritten
    <3>3. Len(u) = n + 4 /\ u[n + 3] = QuoteOf(e)
      BY <1>1, <1>4, <1>5, <1>9 DEF IsWritten
    <3> QED  BY <1>9, <3>1, <3>2, <3>3
  <2>2. n + 3 \in 1 .. Len(v) /\ n + 3 \in 1 .. Len(u)
    <3>1. Len(u) = n + 4 /\ Len(v) = m + 4
      BY <2>1
    <3> QED  BY <3>1
  <2>3. f.text[n + 1] = QuoteOf(f)
    BY <1>6, <2>1, <2>2
  <2> QED  BY <1>3, <1>9, <2>3, QuotesOff
<1> QED  BY <1>7, <1>8, <1>9

(* What is written at one place is one element.                            *)
LEMMA OneElement ==
  ASSUME NEW e, IsElement(e), ~HasBothQuotes(e), NEW f, IsElement(f), ~HasBothQuotes(f),
         NEW whole \in Seq(Chars), NEW k \in Nat,
         IsAt(ParamRepr(e), k, whole), IsAt(ParamRepr(f), k, whole),
         Ends(k + Len(ParamRepr(e)), whole), Ends(k + Len(ParamRepr(f)), whole)
  PROVE  e = f
<1>1. PICK n \in Nat, m \in Nat : n = Len(e.text) /\ m = Len(f.text)
  BY ElementText
<1>2. IsWritten(e, QuoteOf(e)) /\ IsWritten(f, QuoteOf(f))
  BY ElementIsWritten
<1>3. PICK u, v : u = ParamRepr(e) /\ v = ParamRepr(f) /\ u \in Seq(Chars) /\ v \in Seq(Chars)
  BY <1>2 DEF IsWritten
<1>4. /\ \A j \in 1 .. Len(u) : whole[k + j] = u[j]
      /\ \A j \in 1 .. Len(v) : whole[k + j] = v[j]
  BY <1>3 DEF IsAt
<1>5. Len(u) \in Nat \ {0} /\ Len(v) \in Nat \ {0}
  <2>1. Len(u) = n + 1 \/ Len(u) = n + 2 \/ Len(u) = n + 4
    BY <1>1, <1>2, <1>3 DEF IsWritten
  <2>2. Len(v) = m + 1 \/ Len(v) = m + 2 \/ Len(v) = m + 4
    BY <1>1, <1>2, <1>3 DEF IsWritten
  <2> QED  BY <1>1, <2>1, <2>2
<1>6. u[1] = v[1]
  BY <1>4, <1>5
<1>7. e.action = f.action
  <2>1. u[1] = (IF e.action = GetAttr THEN "." ELSE "[") /\ v[1] = (IF f.action = GetAttr THEN "." ELSE "[")
    BY <1>2, <1>3 DEF IsWritten
  <2>2. e.action \in {Get, GetAttr} /\ f.action \in {Get, GetAttr}
    BY DEF IsElement, Actions
  <2>3. (e.action = GetAttr) <=> (f.action = GetAttr)
    BY <1>6, <2>1
  <2> QED  BY <2>2, <2>3
<1>8. /\ e.kind = f.kind
      /\ e.action # GetAttr /\ e.kind # "int" => QuoteOf(e) = QuoteOf(f)
  <2>1. CASE e.action = GetAttr
    BY <1>7, <2>1 DEF IsElement
  <2>2. CASE e.action # GetAttr
    <3>1. Len(u) > 1 /\ Len(v) > 1 /\ 2 \in 1 .. Len(u) /\ 2 \in 1 .. Len(v)
      <4>1. Len(u) = n + 2 \/ Len(u) = n + 4
        BY <1>1, <1>2, <1>3, <2>2 DEF IsWritten
      <4>2. Len(v) = m + 2 \/ Len(v) = m + 4
        BY <1>1, <1>2, <1>3, <1>7, <2>2 DEF IsWritten
      <4> QED  BY <1>1, <4>1, <4>2
    <3>2. u[2] = v[2]
      BY <1>4, <3>1
    <3>3. IF e.kind = "int" THEN u[2] \notin Quotes ELSE u[2] = QuoteOf(e) /\ u[2] \in Quotes
      <4>1. CASE e.kind = "int" /\ n = 0
        <5>1. u[n + 2] = "]" /\ n + 2 = 2
          BY <1>1, <1>2, <1>3, <2>2, <4>1 DEF IsWritten
        <5> QED  BY <4>1, <5>1 DEF Quotes
      <4>2. CASE e.kind = "int" /\ n # 0
        <5>1. u[1 + 1] = e.text[1] /\ 1 \in 1 .. n
          BY <1>1, <1>2, <1>3, <2>2, <4>2 DEF IsWritten
        <5>2. e.text[1] \in Range(e.text)
          BY <1>1, <5>1, RangeHas, ElementText
        <5> QED  BY <4>2, <5>1, <5>2 DEF IsElement
      <4>3. CASE e.kind # "int"
        BY <1>2, <1>3, <2>2, <4>3, QuotesOff DEF IsWritten
      <4> QED  BY <4>1, <4>2, <4>3
    <3>4. IF f.kind = "int" THEN v[2] \notin Quotes ELSE v[2] = QuoteOf(f) /\ v[2] \in Quotes
      <4>1. CASE f.kind = "int" /\ m = 0
        <5>1. v[m + 2] = "]" /\ m + 2 = 2
          BY <1>1, <1>2, <1>3, <1>7, <2>2, <4>1 DEF IsWritten
        <5> QED  BY <4>1, <5>1 DEF Quotes
      <4>2. CASE f.kind = "int" /\ m # 0
        <5>1. v[1 + 1] = f.text[1] /\ 1 \in 1 .. m
          BY <1>1, <1>2, <1>3, <1>7, <2>2, <4>2 DEF IsWritten
        <5>2. f.text[1] \in Range(f.text)
          BY <1>1, <5>1, RangeHas, ElementText
        <5> QED  BY <4>2, <5>1, <5>2 DEF IsElement
      <4>3. CASE f.kind # "int"
        BY <1>2, <1>3, <1>7, <2>2, <4>3, QuotesOff DEF IsWritten
      <4> QED  BY <4>1, <4>2, <4>3
    <3>5. e.kind \in {"str", "int"} /\ f.kind \in {"str", "int"}
      BY DEF IsElement
    <3> QED  BY <3>2, <3>3, <3>4, <3>5
  <2> QED  BY <2>1, <2>2
<1>9. n = m
  <2>1. Len(f.text) <= Len(e.text)
    BY <1>7, <1>8, NotShorter
  <2>2. Len(e.text) <= Len(f.text)
    BY <1>7, <1>8, NotShorter
  <2> QED  BY <1>1, <2>1, <2>2
<1>10. ASSUME NEW j \in 1 .. n
       PROVE  e.text[j] = f.text[j]
  <2>1. CASE e.action = GetAttr \/ e.kind = "int"
    <3>1. j + 1 \in 1 .. Len(u) /\ j + 1 \in 1 .. Len(v) /\ u[j + 1] = e.text[j] /\ v[j + 1] = f.text[j]
      BY <1>1, <1>2, <1>3, <1>7, <1>8, <1>9, <2>1 DEF IsWritten
    <3> QED  BY <1>4, <3>1
  <2>2. CASE e.action # GetAttr /\ e.kind # "int"
    <3>1. j + 2 \in 1 .. Len(u) /\ j + 2 \in 1 .. Len(v) /\ u[j + 2] = e.text[j] /\ v[j + 2] = f.text[j]
      BY <1>1, <1>2, <1>3, <1>7, <1>8, <1>9, <2>2 DEF IsWritten
    <3> QED  BY <1>4, <3>1
  <2> QED  BY <2>1, <2>2
<1>11. e.text = f.text
  <2>1. e.text \in Seq(Chars) /\ f.text \in Seq(Chars)
    BY ElementText
  <2> QED  BY <1>1, <1>9, <1>10, <2>1, SameText
<1> QED  BY <1>7, <1>8, <1>11, SameElement

(* The elements of a path that has one text with no other one.             *)
AreUnmistakable(steps, n) ==
  /\ n \in Nat /\ steps = [i \in 1 .. n |-> steps[i]]
  /\ \A i \in 1 .. n : IsElement(steps[i]) /\ ~HasBothQuotes(steps[i])

(* Every element of such a path has its place in the text.                 *)
LEMMA TextByElement ==
  ASSUME NEW n, NEW steps, AreUnmistakable(steps, n)
  PROVE  \E pos :
           /\ TextOf(steps) \in Seq(Chars)
           /\ pos[0] = 0 /\ pos[n] = Len(TextOf(steps))
           /\ \A i \in 0 .. n : pos[i] \in Nat
           /\ \A i \in 1 .. n :
                /\ pos[i] = pos[i - 1] + Len(ParamRepr(steps[i]))
                /\ IsAt(ParamRepr(steps[i]), pos[i - 1], TextOf(steps))
                /\ pos[i] > pos[i - 1] /\ pos[i] <= Len(TextOf(steps))
                /\ Ends(pos[i], TextOf(steps))
<1>1. PICK reprs : reprs = [i \in DOMAIN steps |-> ParamRepr(steps[i])]
  OBVIOUS
<1>2. n \in Nat /\ DOMAIN steps = 1 .. n
  BY DEF AreUnmistakable
<1>3. Len(reprs) = n /\ (n = 0 => reprs = <<>>) /\ \A i \in 1 .. n : reprs[i] = ParamRepr(steps[i])
  BY <1>1, <1>2
<1>4. ASSUME NEW i \in 1 .. n
      PROVE  /\ ParamRepr(steps[i]) \in Seq(Chars) /\ Len(ParamRepr(steps[i])) \in Nat \ {0}
             /\ ParamRepr(steps[i])[1] \in {"[", "."}
  <2>1. IsWritten(steps[i], QuoteOf(steps[i]))
    BY ElementIsWritten DEF AreUnmistakable
  <2> QED  BY <2>1 DEF IsWritten
<1>5. \E pos : AreAt(reprs, n, pos, FlattenSeq(reprs))
  BY <1>2, <1>3, <1>4, FlattenByItem
<1>6. PICK pos, text : text = TextOf(steps) /\ AreAt(reprs, n, pos, text)
  BY <1>1, <1>5 DEF TextOf
<1>7. text \in Seq(Chars) /\ Len(text) \in Nat /\ pos[0] = 0 /\ pos[n] = Len(text) /\ \A i \in 0 .. n : pos[i] \in Nat
  BY <1>6 DEF AreAt
<1>8. ASSUME NEW i \in 1 .. n
      PROVE  /\ pos[i] = pos[i - 1] + Len(ParamRepr(steps[i])) /\ pos[i] > pos[i - 1]
             /\ IsAt(ParamRepr(steps[i]), pos[i - 1], text) /\ pos[i] <= Len(text)
  <2>1. pos[i] = pos[i - 1] + Len(ParamRepr(steps[i])) /\ IsAt(ParamRepr(steps[i]), pos[i - 1], text)
    BY <1>3, <1>6 DEF AreAt
  <2>2. pos[i - 1] \in Nat /\ Len(ParamRepr(steps[i])) \in Nat \ {0}
    BY <1>2, <1>4, <1>7
  <2> QED  BY <2>1, <2>2 DEF IsAt
<1>9. ASSUME NEW i \in 1 .. n
      PROVE  Ends(pos[i], text)
  <2>1. CASE i = n
    BY <1>7, <2>1 DEF Ends
  <2>2. CASE i # n
    <3>1. i + 1 \in 1 .. n /\ i + 1 - 1 = i
      BY <1>2, <2>2
    <3>2. IsAt(ParamRepr(steps[i + 1]), pos[i], text)
      BY <1>8, <3>1
    <3>3. 1 \in 1 .. Len(ParamRepr(steps[i + 1])) /\ ParamRepr(steps[i + 1])[1] \in {"[", "."}
      BY <1>4, <3>1
    <3> QED  BY <3>2, <3>3 DEF IsAt, Ends
  <2> QED  BY <2>1, <2>2
<1> QED  BY <1>6, <1>7, <1>8, <1>9

(* Such paths with one text are one path.                                  *)
LEMMA OneTextOnePath ==
  ASSUME NEW n, NEW steps, AreUnmistakable(steps, n), NEW m, NEW others, AreUnmistakable(others, m),
         TextOf(steps) = TextOf(others)
  PROVE  steps = others
<1>1. n \in Nat /\ m \in Nat
  BY DEF AreUnmistakable
<1>2. PICK text : text = TextOf(steps) /\ text = TextOf(others)
  OBVIOUS
<1>3. PICK pos :
        /\ text \in Seq(Chars)
        /\ pos[0] = 0 /\ pos[n] = Len(text)
        /\ \A i \in 0 .. n : pos[i] \in Nat
        /\ \A i \in 1 .. n :
             /\ pos[i] = pos[i - 1] + Len(ParamRepr(steps[i]))
             /\ IsAt(ParamRepr(steps[i]), pos[i - 1], text)
             /\ pos[i] > pos[i - 1] /\ pos[i] <= Len(text)
             /\ Ends(pos[i], text)
  BY <1>2, TextByElement
<1>4. PICK at :
        /\ at[0] = 0 /\ at[m] = Len(text)
        /\ \A i \in 0 .. m : at[i] \in Nat
        /\ \A i \in 1 .. m :
             /\ at[i] = at[i - 1] + Len(ParamRepr(others[i]))
             /\ IsAt(ParamRepr(others[i]), at[i - 1], text)
             /\ at[i] > at[i - 1] /\ at[i] <= Len(text)
             /\ Ends(at[i], text)
  BY <1>2, TextByElement
<1> DEFINE Apart == { i \in Nat : i <= n /\ i <= m /\ ~(pos[i] = at[i] /\ (i # 0 => steps[i] = others[i])) }
<1>5. Apart = {}
  <2> SUFFICES ASSUME Apart # {}  PROVE FALSE
    OBVIOUS
  <2>1. Apart \in SUBSET Nat
    OBVIOUS
  <2> HIDE DEF Apart
  <2>2. PICK i \in Apart : \A y \in Apart : i <= y
    BY <2>1, Least
  <2>3. i \in Nat /\ i <= n /\ i <= m /\ ~(pos[i] = at[i] /\ (i # 0 => steps[i] = others[i]))
    BY DEF Apart
  <2>4. i # 0
    BY <1>3, <1>4, <2>3
  <2>5. i \in 1 .. n /\ i \in 1 .. m /\ i - 1 \in Nat /\ i - 1 \in 0 .. n /\ i - 1 \notin Apart
    BY <1>1, <2>2, <2>3, <2>4
  <2>6. PICK k \in Nat : k = pos[i - 1] /\ k = at[i - 1]
    BY <1>1, <1>3, <2>3, <2>5 DEF Apart
  <2>7. steps[i] = others[i]
    <3>1. /\ IsElement(steps[i]) /\ ~HasBothQuotes(steps[i])
          /\ IsElement(others[i]) /\ ~HasBothQuotes(others[i])
      BY <2>5 DEF AreUnmistakable
    <3>2. /\ IsAt(ParamRepr(steps[i]), k, text) /\ Ends(k + Len(ParamRepr(steps[i])), text)
          /\ IsAt(ParamRepr(others[i]), k, text) /\ Ends(k + Len(ParamRepr(others[i])), text)
      BY <1>3, <1>4, <2>5, <2>6
    <3> QED  BY <1>3, <3>1, <3>2, OneElement
  <2>8. pos[i] = at[i]
    BY <1>3, <1>4, <2>5, <2>6, <2>7
  <2> QED  BY <2>3, <2>7, <2>8
<1>6. n = m
  <2>1. CASE n < m
    <3>1. n \in Nat /\ n <= n /\ n <= m /\ n \notin Apart
      BY <1>1, <1>5, <2>1
    <3>2. at[n] = Len(text)
      <4>1. pos[n] = at[n]
        BY <3>1
      <4> QED  BY <1>3, <4>1
    <3>3. n + 1 \in 1 .. m /\ n + 1 - 1 = n
      BY <1>1, <2>1
    <3>4. at[n + 1] > at[n] /\ at[n + 1] <= Len(text)
      <4>1. PICK i \in 1 .. m : i = n + 1 /\ i - 1 = n
        BY <1>1, <3>3
      <4>2. at[i] > at[i - 1] /\ at[i] <= Len(text)
        BY <1>4
      <4> QED  BY <4>1, <4>2
    <3>5. at[n] \in Nat /\ at[n + 1] \in Nat
      BY <1>1, <1>4, <2>1
    <3> QED  BY <3>2, <3>4, <3>5
  <2>2. CASE m < n
    <3>1. m \in Nat /\ m <= n /\ m <= m /\ m \notin Apart
      BY <1>1, <1>5, <2>2
    <3>2. pos[m] = Len(text)
      <4>1. pos[m] = at[m]
        BY <3>1
      <4> QED  BY <1>4, <4>1
    <3>3. m + 1 \in 1 .. n /\ m + 1 - 1 = m
      BY <1>1, <2>2
    <3>4. pos[m + 1] > pos[m] /\ pos[m + 1] <= Len(text)
      <4>1. PICK i \in 1 .. n : i = m + 1 /\ i - 1 = m
        BY <1>1, <3>3
      <4>2. pos[i] > pos[i - 1] /\ pos[i] <= Len(text)
        BY <1>3
      <4> QED  BY <4>1, <4>2
    <3>5. pos[m] \in Nat /\ pos[m + 1] \in Nat
      BY <1>1, <1>3, <2>2
    <3> QED  BY <3>2, <3>4, <3>5
  <2> QED  BY <1>1, <2>1, <2>2
<1>7. \A i \in 1 .. n : steps[i] = others[i]
  <2> SUFFICES ASSUME NEW i \in 1 .. n  PROVE steps[i] = others[i]
    OBVIOUS
  <2>1. i \in Nat /\ i # 0 /\ i <= n /\ i <= m /\ i \notin Apart
    BY <1>1, <1>5, <1>6
  <2> QED  BY <2>1
<1>8. steps = [i \in 1 .. n |-> steps[i]] /\ others = [i \in 1 .. n |-> others[i]]
  BY <1>6 DEF AreUnmistakable
<1> QED  BY <1>7, <1>8

-----------------------------------------------------------------------------
(* What is at one path is of one pair of containers.                       *)

(* Below a level that was passed, the path says the place in t2 if moves   *)
(* are told, and in t1 otherwise.                                          *)
LEMMA StepOfPassed ==
  ASSUME NEW s, NEW node \in NodeType, IsPassed(s, node), node.moved => s.compare
  PROVE  Step(node, Path) = IF s.compare THEN node.p2 ELSE node.p1
<1>1. ~Path.use_t2 /\ ~Path.reporting_move /\ Path.use_t2 \in BOOLEAN /\ Path.reporting_move \in BOOLEAN
  BY DEF Path, Query
<1>2. node.moved \in BOOLEAN
  BY DEF NodeType
<1>3. (Path.use_t2 # (node.moved /\ ~Path.reporting_move)) <=> node.moved
  BY <1>1, <1>2
<1>4. Step(node, Path) = IF node.moved THEN node.p2 ELSE node.p1
  BY <1>3 DEF Step, Other, IsPassed
<1> QED  BY <1>4 DEF IsPassed

(* Two levels of the same objects that are passed at the same place.       *)
LEMMA SameStep ==
  ASSUME NEW s, IsScenario(s), NEW node \in NodeType, NEW next, NEW other \in NodeType, NEW below,
         IsAbove(s, node, next), IsAbove(s, other, below), IsPassed(s, node), IsPassed(s, other),
         node.moved => s.compare, other.moved => s.compare,
         other.o1 = node.o1, other.o2 = node.o2, Step(node, Path) = Step(other, Path)
  PROVE  below.o1 = next.o1 /\ below.o2 = next.o2
<1>1. PICK c : c = <<node.o1, node.o2>>
  OBVIOUS
<1>2. PICK matched : matched = s.pairs[c]
  OBVIOUS
<1>3. c \in DOMAIN s.pairs
  BY <1>1 DEF IsAbove
<1>4. PICK i \in DOMAIN matched : matched[i] = <<node.p1, node.p2>>
  BY <1>1, <1>2 DEF IsAbove
<1>5. PICK j \in DOMAIN matched : matched[j] = <<other.p1, other.p2>>
  BY <1>1, <1>2 DEF IsAbove
<1>6. \A k, l \in DOMAIN matched : k # l =>
           /\ matched[k][1] = matched[l][1] => matched[k][1] = NoElement
           /\ s.compare /\ matched[k][2] = matched[l][2] => matched[k][2] = NoElement
  BY <1>2, <1>3 DEF IsScenario, IsMatching
<1>7. IF s.compare THEN node.p2 = other.p2 ELSE node.p1 = other.p1
  BY StepOfPassed
<1>8. node.p1 # NoElement /\ node.p2 # NoElement
  BY DEF IsPassed
<1>9. i = j
  BY <1>4, <1>5, <1>6, <1>7, <1>8
<1>10. node.p1 = other.p1 /\ node.p2 = other.p2
  BY <1>4, <1>5, <1>9
<1> QED  BY <1>8, <1>10 DEF IsAbove

(* Two lines from one root with one path that the code can write lead      *)
(* through one pair of containers: level by level the elements decide the  *)
(* objects.                                                                *)
LEMMA SamePlace ==
  ASSUME NEW s, IsScenario(s), NEW line, GoodLine(s, line), NEW other, GoodLine(s, other),
         line # <<>>, other # <<>>, Len(line) > 1, Len(other) > 1,
         other[1].o1 = line[1].o1, other[1].o2 = line[1].o2,
         PathOf(line, Len(line), Path).found,
         PathOf(line, Len(line), Path) = PathOf(other, Len(other), Path)
  PROVE  /\ line[Len(line) - 1].o1 = other[Len(other) - 1].o1
         /\ line[Len(line) - 1].o2 = other[Len(other) - 1].o2
<1>1. line \in LineType /\ other \in LineType
  BY DEF GoodLine
<1>2. PICK m \in Nat : m = Len(line) /\ m > 1
  BY <1>1, LineFacts
<1>3. PICK k \in Nat : k = Len(other) /\ k > 1
  BY <1>1, LineFacts
<1>4. PathOf(line, m, Path).steps = [i \in 1 .. m - 1 |-> Step(line[i], Path)]
  BY <1>2 DEF PathOf
<1>5. PathOf(other, k, Path).steps = [i \in 1 .. k - 1 |-> Step(other[i], Path)]
  BY <1>2, <1>3 DEF PathOf
<1>6. [i \in 1 .. m - 1 |-> Step(line[i], Path)] = [i \in 1 .. k - 1 |-> Step(other[i], Path)]
  BY <1>2, <1>3, <1>4, <1>5
<1>7. 1 .. m - 1 = 1 .. k - 1
  BY <1>6
<1>8. m = k
  BY <1>2, <1>3, <1>7
<1>9. \A i \in 1 .. m - 1 : Step(line[i], Path) = Step(other[i], Path)
  BY <1>6, <1>8
<1> DEFINE Apart == { n \in Nat : n \in 1 .. m - 1 /\ ~(line[n].o1 = other[n].o1 /\ line[n].o2 = other[n].o2) }
<1>10. Apart = {}
  <2> SUFFICES ASSUME Apart # {}  PROVE FALSE
    OBVIOUS
  <2>1. PICK n \in Apart : \A y \in Apart : n <= y
    <3> HIDE DEF Apart
    <3>1. Apart \in SUBSET Nat
      BY DEF Apart
    <3> QED  BY <3>1, Least
  <2>2. n \in 1 .. m - 1 /\ n # 1
    BY <2>1
  <2>3. PICK u \in Nat : u = n - 1 /\ u \in 1 .. m - 2 /\ u + 1 = n
    BY <2>2, <1>2
  <2>4. u \notin Apart
    BY <2>1, <2>3
  <2>5. line[u].o1 = other[u].o1 /\ line[u].o2 = other[u].o2
    BY <2>3, <2>4, <1>2
  <2>6. line[u] \in NodeType /\ other[u] \in NodeType
    <3>1. u \in 1 .. Len(line) /\ u \in 1 .. Len(other)
      BY <1>2, <1>3, <1>8, <2>3
    <3> QED  BY <1>1, <3>1, LineFacts
  <2>7. IsPassed(s, line[u]) /\ IsPassed(s, other[u])
    BY <1>2, <1>3, <1>8, <2>3 DEF GoodLine
  <2>8. IsAbove(s, line[u], line[n]) /\ IsAbove(s, other[u], other[n])
    BY <1>2, <1>3, <1>8, <2>3 DEF GoodLine
  <2>9. (line[u].moved => s.compare) /\ (other[u].moved => s.compare)
    BY <1>2, <1>3, <1>8, <2>3 DEF GoodLine
  <2>10. Step(line[u], Path) = Step(other[u], Path)
    BY <1>2, <1>9, <2>3
  <2>11. other[n].o1 = line[n].o1 /\ other[n].o2 = line[n].o2
    <3>1. PICK up \in NodeType : up = line[u]
      BY <2>6
    <3>2. PICK above \in NodeType : above = other[u]
      BY <2>6
    <3>3. IsAbove(s, up, line[n]) /\ IsAbove(s, above, other[n]) /\ IsPassed(s, up) /\ IsPassed(s, above)
      BY <3>1, <3>2, <2>7, <2>8
    <3>4. /\ up.moved => s.compare
          /\ above.moved => s.compare
          /\ above.o1 = up.o1 /\ above.o2 = up.o2 /\ Step(up, Path) = Step(above, Path)
      BY <3>1, <3>2, <2>5, <2>9, <2>10
    <3> QED  BY <3>3, <3>4, SameStep
  <2> QED  BY <2>1, <2>11
<1>11. m - 1 \notin Apart
  BY <1>10
<1> QED  BY <1>2, <1>3, <1>8, <1>11

-----------------------------------------------------------------------------
(* Reports.                                                                *)

(* A good line hangs together.                                             *)
LEMMA GoodIsLine ==
  ASSUME NEW s, IsScenario(s), NEW line, GoodLine(s, line), line # <<>>
  PROVE  IsLine(line)
<1>1. line \in LineType /\ Len(line) > 0
  BY LineFacts DEF GoodLine
<1>2. line[1].o1 \in Present /\ line[1].o2 \in Present
  BY DEF GoodLine
<1>3. ASSUME NEW n \in 2 .. Len(line), NEW up, up = line[n - 1]
      PROVE  /\ {up.p1, up.p2} # {NoElement}
             /\ up.class = Kind(up.o1)
             /\ line[n].o1 = IF up.p1 = NoElement THEN NotPresent ELSE Down(up.o1, up.p1)
             /\ up.p2 # NoElement => line[n].o2 = Down(up.o2, up.p2)
  <2>1. PICK u \in 1 .. Len(line) - 1 : u = n - 1 /\ u + 1 = n
    BY <1>1, LineFacts
  <2>2. IsAbove(s, up, line[n])
    BY <1>3, <2>1 DEF GoodLine
  <2>3. PICK j \in DOMAIN s.pairs[<<up.o1, up.o2>>] : s.pairs[<<up.o1, up.o2>>][j] = <<up.p1, up.p2>>
    BY <2>2 DEF IsAbove
  <2>4. up.p1 # NoElement \/ up.p2 # NoElement
    <3>1. <<up.o1, up.o2>> \in DOMAIN s.pairs
      BY <2>2 DEF IsAbove
    <3>2. PICK pair : pair = <<up.p1, up.p2>> /\ pair = s.pairs[<<up.o1, up.o2>>][j]
      BY <2>3
    <3>3. pair[1] # NoElement \/ pair[2] # NoElement
      BY <3>1, <3>2, PairFacts
    <3> QED  BY <3>2, <3>3
  <2> QED  BY <2>2, <2>4 DEF IsAbove
<1> QED  BY <1>1, <1>2, <1>3 DEF IsLine, Present

(* A report as it is made.                                                 *)
LEMMA ReportFacts ==
  ASSUME NEW kind \in ReportKinds, NEW line \in LineType
  PROVE  /\ Report(kind, line) \in ReportType
         /\ Report(kind, line).kind = kind /\ Report(kind, line).line = line
  BY DEF Report, ReportType

(* What only one side has is not compared with anything.                   *)
LEMMA OneSided ==
  ASSUME NEW o \in Things
  PROVE  ~AreCompared(NotPresent, o) /\ ~AreCompared(o, NotPresent)
  BY DiffTreeAssumption DEF AreCompared, Kind, Things, Present

(* The report of an item that has no partner.                              *)
LEMMA ItemIsGood ==
  ASSUME NEW s, NEW new, GoodLine(s, new), NEW line \in LineType, line # <<>>, NEW pair, NEW dict,
         IsBranch(new, line, pair, dict), pair[1] = NoElement \/ pair[2] = NoElement,
         pair[1] # NoElement \/ pair[2] # NoElement,
         NEW container, NEW kind,
         kind = IF pair[1] = NoElement THEN AddedTo(container) ELSE RemovedFrom(container)
  PROVE  GoodReport(s, Report(kind, new)) /\ kind # Moved
<1>1. kind \in ReportKinds /\ kind # "values_changed" /\ kind # Moved
  BY DEF AddedTo, RemovedFrom, ReportKinds, Moved
<1>2. kind = "iterable_item_removed" => pair[1] # NoElement
  BY DEF AddedTo, RemovedFrom
<1>3. PICK m \in Nat \ {0} : m = Len(line)
  BY LineFacts
<1>4. new \in LineType /\ Len(new) = m + 1 /\ new # <<>> /\ Leaf(new) = new[m + 1]
  BY <1>3 DEF IsBranch, Leaf
<1>5. new[m].p1 = pair[1] /\ new[m].p2 = pair[2]
  BY <1>3 DEF IsBranch
<1>6. kind = "iterable_item_removed" => new[Len(new) - 1].p2 = NoElement
  BY <1>2, <1>3, <1>4, <1>5
<1>7. PICK own : own = Own(new, m + 1)
  OBVIOUS
<1>8. own[1] \in Things /\ own[2] \in Things /\ (own[1] = NotPresent \/ own[2] = NotPresent)
  <2>1. new[m + 1] \in NodeType
    BY <1>4, LineFacts
  <2>2. new[m + 1].o1 \in Things /\ new[m + 1].o2 \in Things
    BY <2>1 DEF NodeType
  <2>3. pair[1] = NoElement => new[m + 1].o1 = NotPresent
    BY <1>4 DEF IsBranch
  <2>4. own = <<new[m + 1].o1, IF pair[2] = NoElement THEN NotPresent ELSE new[m + 1].o2>>
    BY <1>3, <1>5, <1>7 DEF Own
  <2>5. NotPresent \in Things
    BY DEF Things
  <2> QED  BY <2>2, <2>3, <2>4, <2>5
<1>9. ~AreCompared(own[1], own[2])
  BY <1>8, OneSided
<1>10. PICK report : report = Report(kind, new) /\ report.kind = kind /\ report.line = new /\ report \in ReportType
  BY <1>1, <1>4, ReportFacts
<1> QED  BY <1>1, <1>3, <1>4, <1>6, <1>7, <1>9, <1>10 DEF GoodReport

(* What is at the end of an open line is there on both sides.              *)
LEMMA OwnOfOpen ==
  ASSUME NEW s, NEW line, OpenLine(s, line), line # <<>>
  PROVE  Own(line, Len(line)) = <<Leaf(line).o1, Leaf(line).o2>>
<1>1. PICK m \in Nat \ {0} : m = Len(line) /\ Leaf(line) = line[m]
  BY LineFacts DEF OpenLine, GoodLine
<1>2. m > 1 => line[m - 1].p2 # NoElement
  BY <1>1 DEF OpenLine, IsPassed
<1> QED  BY <1>1, <1>2 DEF Own

(* The report of two objects that are not compared item by item.           *)
LEMMA ValueIsGood ==
  ASSUME NEW s, NEW line, OpenLine(s, line), line # <<>>, ~AreCompared(Leaf(line).o1, Leaf(line).o2)
  PROVE  GoodReport(s, Report("values_changed", line))
<1>1. line \in LineType /\ GoodLine(s, line)
  BY DEF OpenLine, GoodLine
<1>2. "values_changed" \in ReportKinds
  BY DEF ReportKinds
<1>3. PICK report : /\ report = Report("values_changed", line) /\ report.kind = "values_changed"
                    /\ report.line = line /\ report \in ReportType
  BY <1>1, <1>2, ReportFacts
<1>4. PICK own : own = Own(line, Len(line)) /\ own = <<Leaf(line).o1, Leaf(line).o2>>
  BY OwnOfOpen
<1>5. ~AreCompared(own[1], own[2])
  BY <1>4
<1> QED  BY <1>1, <1>3, <1>4, <1>5 DEF GoodReport, Moved

(* The report of a move.                                                   *)
LEMMA MoveIsGood ==
  ASSUME NEW s, s.compare, NEW new, GoodLine(s, new), NEW line \in LineType, line # <<>>, NEW pair, NEW dict,
         IsBranch(new, line, pair, dict)
  PROVE  GoodReport(s, Report(Moved, new))
<1>1. PICK m \in Nat \ {0} : m = Len(line)
  BY LineFacts
<1>2. new \in LineType /\ Len(new) = m + 1 /\ new # <<>>
  BY <1>1 DEF IsBranch
<1>3. Moved \in ReportKinds
  BY DEF ReportKinds, Moved
<1>4. PICK report : /\ report = Report(Moved, new) /\ report.kind = Moved
                    /\ report.line = new /\ report \in ReportType
  BY <1>2, <1>3, ReportFacts
<1> QED  BY <1>1, <1>2, <1>4 DEF GoodReport, Moved

(* Merging changes the end of a line, on the side where nothing was.       *)
LEMMA MergedLine ==
  ASSUME NEW s, NEW report, GoodReport(s, report), report.kind = "iterable_item_removed",
         NEW o2 \in Things, NEW new, new = WithT2(report.line, o2)
  PROVE  /\ GoodReport(s, Report("values_changed", new))
         /\ new[1].o1 = report.line[1].o1 /\ new[1].o2 = report.line[1].o2
         /\ \A g, f : Conforms(g, f, report.line, report.kind) => Conforms(g, f, new, "values_changed")
<1>1. PICK line \in LineType : line = report.line /\ line # <<>> /\ GoodLine(s, line) /\ Len(line) > 1
  BY DEF GoodReport, GoodLine
<1>2. PICK m \in Nat : m = Len(line) /\ m > 1
  BY <1>1, LineFacts
<1>3. line[m - 1].p2 = NoElement
  BY <1>1, <1>2 DEF GoodReport
<1>4. PICK end \in NodeType : end = [line[m] EXCEPT !.o2 = o2]
  <2>1. \A l \in NodeType : [l EXCEPT !.o2 = o2] \in NodeType
    BY DEF NodeType
  <2>2. line[m] \in NodeType
    BY <1>1, <1>2, LineFacts
  <2> QED  BY <2>1, <2>2
<1>5. end.o1 = line[m].o1 /\ end.dict = line[m].dict /\ end.moved = line[m].moved
  BY <1>1, <1>2, <1>4 DEF LineType, NodeType
<1>6. new = [line EXCEPT ![m] = end]
  BY <1>1, <1>2, <1>4 DEF WithT2
<1>7. new \in LineType /\ Len(new) = m /\ new # <<>>
  BY <1>2, <1>6 DEF LineType
<1>8. new[m] = end /\ \A i \in 1 .. m - 1 : new[i] = line[i]
  BY <1>1, <1>2, <1>6 DEF LineType
<1>9. new[1] = line[1]
  BY <1>2, <1>8
<1>10. ASSUME NEW n \in 1 .. m - 1  PROVE IsAbove(s, new[n], new[n + 1])
  <2>1. IsAbove(s, line[n], line[n + 1])
    BY <1>1, <1>2 DEF GoodLine
  <2>2. CASE n = m - 1
    <3>1. new[n] = line[n] /\ new[n + 1] = end /\ line[n + 1] = line[m] /\ line[n].p2 = NoElement
      BY <2>2, <1>2, <1>3, <1>8
    <3> QED  BY <2>1, <3>1, <1>5 DEF IsAbove
  <2>3. CASE n \in 1 .. m - 2
    <3>1. new[n] = line[n] /\ new[n + 1] = line[n + 1]
      BY <2>3, <1>2, <1>8
    <3> QED  BY <2>1, <3>1
  <2> QED  BY <2>2, <2>3, <1>2
<1>11. \A n \in 1 .. m - 2 : IsPassed(s, new[n])
  BY <1>1, <1>2, <1>8 DEF GoodLine
<1>12. \A n \in 1 .. m : new[n].moved => s.compare
  <2>1. \A n \in 1 .. m : line[n].moved => s.compare
    BY <1>1, <1>2 DEF GoodLine
  <2> QED  BY <2>1, <1>2, <1>5, <1>8
<1>13. GoodLine(s, new)
  BY <1>1, <1>2, <1>7, <1>9, <1>10, <1>11, <1>12 DEF GoodLine
<1>14. Own(new, m) = Own(line, m)
  BY <1>2, <1>3, <1>5, <1>8 DEF Own
<1>15. ~AreCompared(Own(new, m)[1], Own(new, m)[2])
  BY <1>1, <1>2, <1>14 DEF GoodReport, Moved
<1>16. GoodReport(s, Report("values_changed", new))
  <2>1. "values_changed" \in ReportKinds
    BY DEF ReportKinds
  <2>2. PICK r : /\ r = Report("values_changed", new) /\ r.kind = "values_changed"
                 /\ r.line = new /\ r \in ReportType
    BY <1>7, <2>1, ReportFacts
  <2> QED  BY <1>7, <1>13, <1>15, <2>2 DEF GoodReport, Moved
<1>17. ASSUME NEW g, NEW f, Conforms(g, f, line, report.kind)  PROVE Conforms(g, f, new, "values_changed")
  <2>1. \A n \in 1 .. m : new[n].dict = line[n].dict
    BY <1>5, <1>8, <1>2
  <2>2. ASSUME NEW n \in 1 .. m, NEW role  PROVE Purpose(new, n, role) = Purpose(line, n, role)
    <3>1. Relations(new, n) = Relations(line, n)
      BY <1>2, <1>8 DEF Relations
    <3>2. Own(new, n) = Own(line, n)
      <4>1. CASE n = m
        BY <4>1, <1>14
      <4>2. CASE n \in 1 .. m - 1
        <5>1. new[n] = line[n] /\ (n > 1 => new[n - 1] = line[n - 1])
          BY <4>2, <1>2, <1>8
        <5> QED  BY <5>1 DEF Own
      <4> QED  BY <4>1, <4>2, <1>2
    <3> QED  BY <3>1, <3>2 DEF Purpose
  <2>3. \A n : Role(line, n, report.kind) = Walked /\ Role(new, n, "values_changed") = Walked
    BY DEF Role, Moved
  <2> QED  BY <1>2, <1>7, <1>17, <2>1, <2>2, <2>3 DEF Conforms
<1> QED  BY <1>1, <1>9, <1>16, <1>17

-----------------------------------------------------------------------------
(* Rebasing: the line c to the items that a worker compares, and a line of *)
(* the worker in place of its end.                                         *)
Splice(c, f, line) ==
  LET below == SubSeq(line, 2, Len(line))
      top == [c EXCEPT ![Len(c)] = Related(@, line[1].p1, line[1].p2)]
  IN  WithCaches((IF below = <<>> THEN c ELSE top) \o below, f)

SameNode(node, other) ==
  /\ node.o1 = other.o1 /\ node.o2 = other.o2 /\ node.class = other.class
  /\ node.p1 = other.p1 /\ node.p2 = other.p2 /\ node.moved = other.moved

IsSplice(new, c, f, line) ==
  /\ new \in LineType /\ Len(new) = Len(c) + Len(line) - 1
  /\ \A i \in 1 .. Len(new) : new[i].dict = f + i
  /\ \A i \in 1 .. Len(c) - 1 : SameNode(new[i], c[i])
  /\ new[Len(c)].o1 = Leaf(c).o1 /\ new[Len(c)].o2 = Leaf(c).o2 /\ new[Len(c)].moved = Leaf(c).moved
  /\ Len(line) > 1 => /\ new[Len(c)].p1 = line[1].p1 /\ new[Len(c)].p2 = line[1].p2
                      /\ new[Len(c)].class = Kind(Leaf(c).o1)
  /\ \A i \in 2 .. Len(line) : SameNode(new[Len(c) + i - 1], line[i])

(* A line with new caches is the same line but for its dictionaries.       *)
LEMMA CachesAnew ==
  ASSUME NEW line \in LineType, NEW f \in Nat
  PROVE  /\ WithCaches(line, f) \in LineType /\ Len(WithCaches(line, f)) = Len(line)
         /\ \A i \in 1 .. Len(line) : /\ SameNode(WithCaches(line, f)[i], line[i])
                                      /\ WithCaches(line, f)[i].dict = f + i
<1>1. PICK m \in Nat : m = Len(line) /\ DOMAIN line = 1 .. m
  BY DEF LineType
<1>2. PICK new : new = WithCaches(line, f)
  OBVIOUS
<1>3. \A i \in 1 .. m : line[i] \in NodeType
  BY <1>1 DEF LineType
<1>4. \A l \in NodeType, d \in Nat : [l EXCEPT !.dict = d] \in NodeType
  BY DEF NodeType
<1>5. \A l \in NodeType, d \in Nat : [l EXCEPT !.dict = d].dict = d /\ SameNode([l EXCEPT !.dict = d], l)
  BY DEF NodeType, SameNode
<1>6. new = [i \in 1 .. m |-> [line[i] EXCEPT !.dict = f + i]]
  BY <1>1, <1>2 DEF WithCaches
<1>7. \A i \in 1 .. m : new[i] \in NodeType /\ new[i].dict = f + i /\ SameNode(new[i], line[i])
  <2> TAKE i \in 1 .. m
  <2>1. f + i \in Nat
    BY <1>1
  <2>2. PICK l \in NodeType : l = line[i]
    BY <1>3
  <2>3. new[i] = [l EXCEPT !.dict = f + i]
    BY <1>6, <2>2
  <2> QED  BY <2>1, <2>2, <2>3, <1>4, <1>5
<1>8. new \in LineType /\ Len(new) = m
  BY <1>1, <1>6, <1>7 DEF LineType
<1> QED  BY <1>1, <1>2, <1>7, <1>8

(* The elements of two sequences put together.                             *)
LEMMA Joined ==
  ASSUME NEW S, NEW s \in Seq(S), NEW t \in Seq(S)
  PROVE  /\ s \o t \in Seq(S) /\ Len(s \o t) = Len(s) + Len(t)
         /\ \A i \in 1 .. Len(s) : (s \o t)[i] = s[i]
         /\ \A i \in 1 .. Len(t) : (s \o t)[Len(s) + i] = t[i]
         /\ t = <<>> <=> Len(t) = 0
  OBVIOUS

(* What _rebase_subtree_leaf makes: the levels of the change first, then   *)
(* those of the worker below its root, with the root's relationships and   *)
(* new caches.                                                             *)
LEMMA SpliceShape ==
  ASSUME NEW c \in LineType, c # <<>>, NEW line \in LineType, line # <<>>, NEW f \in Nat
  PROVE  IsSplice(Splice(c, f, line), c, f, line)
<1>1. PICK n \in Nat \ {0} : n = Len(c)
  BY LineFacts
<1>2. PICK m \in Nat \ {0} : m = Len(line)
  BY LineFacts
<1>3. PICK below \in LineType :
        /\ below = SubSeq(line, 2, m) /\ Len(below) = m - 1
        /\ \A i \in 1 .. m - 1 : below[i] = line[i + 1]
  <2>1. SubSeq(line, 2, m) \in LineType
    BY <1>2 DEF LineType
  <2>2. Len(SubSeq(line, 2, m)) = m - 1 /\ \A i \in 1 .. m - 1 : SubSeq(line, 2, m)[i] = line[i + 1]
    BY <1>2 DEF LineType
  <2> QED  BY <2>1, <2>2
<1>4. PICK up \in NodeType :
        /\ up = Related(c[n], line[1].p1, line[1].p2)
        /\ up.o1 = c[n].o1 /\ up.o2 = c[n].o2 /\ up.class = Kind(c[n].o1) /\ up.moved = c[n].moved
        /\ up.p1 = line[1].p1 /\ up.p2 = line[1].p2
  <2>1. c[n] \in NodeType /\ line[1] \in NodeType
    BY <1>1, <1>2, LineFacts
  <2>2. line[1].p1 \in Places /\ line[1].p2 \in Places
    BY <2>1 DEF NodeType
  <2>3. PICK l \in NodeType : l = c[n]
    BY <2>1
  <2>4. PICK p1 \in Places, p2 \in Places : p1 = line[1].p1 /\ p2 = line[1].p2
    BY <2>2
  <2>5. PICK r \in NodeType : /\ r = Related(l, p1, p2) /\ r.o1 = l.o1 /\ r.o2 = l.o2
                              /\ r.class = Kind(l.o1) /\ r.moved = l.moved /\ r.p1 = p1 /\ r.p2 = p2
    BY RelatedNode
  <2> QED  BY <2>3, <2>4, <2>5
<1>5. PICK top \in LineType :
        /\ top = [c EXCEPT ![n] = up] /\ Len(top) = n /\ top[n] = up
        /\ \A i \in 1 .. n - 1 : top[i] = c[i]
  <2>1. PICK top : top = [c EXCEPT ![n] = up]
    OBVIOUS
  <2>2. top \in LineType /\ Len(top) = n
    BY <1>1, <2>1 DEF LineType
  <2>3. top[n] = up /\ \A i \in 1 .. n - 1 : top[i] = c[i]
    BY <1>1, <2>1 DEF LineType
  <2> QED  BY <2>1, <2>2, <2>3
<1>6. PICK head \in LineType :
        /\ head = (IF below = <<>> THEN c ELSE top) /\ Len(head) = n
        /\ \A i \in 1 .. n - 1 : head[i] = c[i]
        /\ head[n] = IF m > 1 THEN up ELSE c[n]
  <2>1. below = <<>> <=> Len(below) = 0
    BY Joined DEF LineType
  <2>2. below = <<>> <=> ~(m > 1)
    BY <2>1, <1>2, <1>3
  <2>3. CASE m > 1
    BY <2>2, <2>3, <1>5
  <2>4. CASE ~(m > 1)
    BY <2>2, <2>4, <1>1
  <2> QED  BY <2>3, <2>4
<1>7. PICK base \in LineType :
        /\ base = head \o below /\ Len(base) = n + m - 1
        /\ \A i \in 1 .. n : base[i] = head[i]
        /\ \A i \in 2 .. m : base[n + i - 1] = line[i]
  <2>1. head \o below \in LineType
    BY DEF LineType
  <2>2. /\ Len(head \o below) = n + m - 1 /\ \A i \in 1 .. n : (head \o below)[i] = head[i]
        /\ \A i \in 1 .. m - 1 : (head \o below)[n + i] = below[i]
    <3>1. /\ Len(head \o below) = Len(head) + Len(below)
          /\ \A i \in 1 .. Len(head) : (head \o below)[i] = head[i]
          /\ \A i \in 1 .. Len(below) : (head \o below)[Len(head) + i] = below[i]
      BY Joined DEF LineType
    <3>2. Len(head) = n /\ Len(below) = m - 1 /\ n \in Nat /\ m \in Nat
      BY <1>1, <1>2, <1>3, <1>6
    <3>3. n + (m - 1) = n + m - 1
      BY <3>2
    <3> QED  BY <3>1, <3>2, <3>3
  <2>3. ASSUME NEW i \in 2 .. m  PROVE (head \o below)[n + i - 1] = line[i]
    <3>1. i - 1 \in 1 .. m - 1 /\ (i - 1) + 1 = i /\ n + i - 1 = n + (i - 1)
      BY <1>1, <1>2
    <3>2. (head \o below)[n + (i - 1)] = below[i - 1]
      BY <2>2, <3>1
    <3> QED  BY <3>1, <3>2, <1>3
  <2> QED  BY <2>1, <2>2, <2>3
<1>8. PICK new \in LineType :
        /\ new = WithCaches(base, f) /\ Len(new) = n + m - 1
        /\ \A i \in 1 .. n + m - 1 : SameNode(new[i], base[i]) /\ new[i].dict = f + i
  <2>1. /\ WithCaches(base, f) \in LineType /\ Len(WithCaches(base, f)) = Len(base)
        /\ \A i \in 1 .. Len(base) : /\ SameNode(WithCaches(base, f)[i], base[i])
                                      /\ WithCaches(base, f)[i].dict = f + i
    BY CachesAnew
  <2> QED  BY <2>1, <1>7
<1>9. Splice(c, f, line) = new
  BY <1>1, <1>2, <1>3, <1>4, <1>5, <1>6, <1>7, <1>8 DEF Splice
<1>10. \A i \in 1 .. n - 1 : SameNode(new[i], c[i])
  <2> TAKE i \in 1 .. n - 1
  <2>1. i \in 1 .. n + m - 1 /\ i \in 1 .. n
    BY <1>1, <1>2
  <2> QED  BY <2>1, <1>6, <1>7, <1>8
<1>11. SameNode(new[n], IF m > 1 THEN up ELSE c[n])
  <2>1. n \in 1 .. n + m - 1 /\ n \in 1 .. n
    BY <1>1, <1>2
  <2> QED  BY <2>1, <1>6, <1>7, <1>8
<1>12. \A i \in 2 .. m : SameNode(new[n + i - 1], line[i])
  <2> TAKE i \in 2 .. m
  <2>1. n + i - 1 \in 1 .. n + m - 1
    BY <1>1, <1>2
  <2> QED  BY <2>1, <1>7, <1>8
<1>13. Leaf(c) = c[n]
  BY <1>1 DEF Leaf
<1>14. /\ new[n].o1 = c[n].o1 /\ new[n].o2 = c[n].o2 /\ new[n].moved = c[n].moved
       /\ m > 1 => /\ new[n].p1 = line[1].p1 /\ new[n].p2 = line[1].p2 /\ new[n].class = Kind(c[n].o1)
  <2>1. CASE m > 1
    BY <2>1, <1>4, <1>11 DEF SameNode
  <2>2. CASE ~(m > 1)
    BY <2>2, <1>11 DEF SameNode
  <2> QED  BY <2>1, <2>2
<1> QED  BY <1>1, <1>2, <1>8, <1>9, <1>10, <1>12, <1>13, <1>14 DEF IsSplice

(* A worker's report on the line of its change is a report of the main     *)
(* process.                                                                *)
LEMMA SpliceIsGood ==
  ASSUME NEW s, IsScenario(s), s.workers, NEW c, OpenLine(s, c), c # <<>>,
         NEW report, GoodReport(s, report), RootIs(report.line, Leaf(c).o1, Leaf(c).o2),
         NEW f \in Nat, NEW new, IsSplice(new, c, f, report.line)
  PROVE  /\ GoodReport(s, Report(report.kind, new))
         /\ new # <<>> /\ new \in LineType /\ new[1].o1 = c[1].o1 /\ new[1].o2 = c[1].o2
<1>1. PICK line \in LineType : line = report.line /\ line # <<>> /\ GoodLine(s, line)
  BY DEF GoodReport, GoodLine
<1>2. PICK n \in Nat \ {0} : n = Len(c) /\ Leaf(c) = c[n] /\ c \in LineType
  BY LineFacts DEF OpenLine, GoodLine
<1>3. PICK m \in Nat \ {0} : m = Len(line)
  BY <1>1, LineFacts
<1>4. new \in LineType /\ Len(new) = n + m - 1 /\ new # <<>>
  BY <1>1, <1>2, <1>3 DEF IsSplice
<1>5. \A i \in 1 .. n - 1 : SameNode(new[i], c[i])
  BY <1>2 DEF IsSplice
<1>6. /\ new[n].o1 = c[n].o1 /\ new[n].o2 = c[n].o2 /\ new[n].moved = c[n].moved
      /\ m > 1 => /\ new[n].p1 = line[1].p1 /\ new[n].p2 = line[1].p2 /\ new[n].class = Kind(c[n].o1)
  BY <1>1, <1>2, <1>3 DEF IsSplice
<1>7. \A i \in 2 .. m : SameNode(new[n + i - 1], line[i])
  BY <1>1, <1>2, <1>3 DEF IsSplice
<1>8. line[1].o1 = c[n].o1 /\ line[1].o2 = c[n].o2
  BY <1>1, <1>2 DEF RootIs
<1>9. new[1].o1 = c[1].o1 /\ new[1].o2 = c[1].o2
  BY <1>2, <1>5, <1>6 DEF SameNode
<1>10. ~s.compare
  BY DEF IsScenario
<1>11. \A i \in 1 .. n + m - 1 : i \in 1 .. n - 1 \/ i = n \/ \E k \in 2 .. m : i = n + k - 1
  <2> TAKE i \in 1 .. n + m - 1
  <2>1. CASE i > n
    <3>1. PICK k \in 2 .. m : i = n + k - 1
      <4>1. (i - n + 1) \in 2 .. m /\ i = n + (i - n + 1) - 1
        BY <2>1, <1>2, <1>3
      <4> QED  BY <4>1
    <3> QED  BY <3>1
  <2>2. CASE ~(i > n)
    BY <2>2, <1>2
  <2> QED  BY <2>1, <2>2
<1>12. \A i \in 1 .. Len(new) : ~new[i].moved
  <2>1. \A i \in 1 .. n : ~c[i].moved
    BY <1>2, <1>10 DEF OpenLine, GoodLine
  <2>2. \A i \in 1 .. m : ~line[i].moved
    BY <1>1, <1>3, <1>10 DEF GoodLine
  <2>3. ASSUME NEW i \in 1 .. n + m - 1  PROVE ~new[i].moved
    <3>1. CASE i \in 1 .. n - 1
      BY <3>1, <2>1, <1>5 DEF SameNode
    <3>2. CASE i = n
      BY <3>2, <2>1, <1>2, <1>6
    <3>3. ASSUME NEW k \in 2 .. m, i = n + k - 1  PROVE ~new[i].moved
      <4>1. k \in 1 .. m
        BY <1>3
      <4>2. SameNode(new[n + k - 1], line[k])
        BY <1>7
      <4> QED  BY <3>3, <4>1, <4>2, <2>2 DEF SameNode
    <3> QED  BY <3>1, <3>2, <3>3, <1>11
  <2> QED  BY <2>3, <1>4
(* The objects, and the relationships up to the last.                      *)
<1>13. \A k \in 1 .. m : new[n + k - 1].o1 = line[k].o1 /\ new[n + k - 1].o2 = line[k].o2
  <2> TAKE k \in 1 .. m
  <2>1. CASE k = 1
    BY <2>1, <1>2, <1>6, <1>8
  <2>2. CASE k \in 2 .. m
    BY <2>2, <1>7 DEF SameNode
  <2> QED  BY <2>1, <2>2
<1>14. \A k \in 1 .. m - 1 : /\ new[n + k - 1].p1 = line[k].p1 /\ new[n + k - 1].p2 = line[k].p2
                             /\ new[n + k - 1].class = line[k].class
  <2> TAKE k \in 1 .. m - 1
  <2>1. CASE k = 1
    <3>1. line[1].class = Kind(line[1].o1)
      BY <2>1, <1>1, <1>3 DEF GoodLine, IsAbove
    <3> QED  BY <2>1, <3>1, <1>2, <1>6, <1>8
  <2>2. CASE k \in 2 .. m
    BY <2>2, <1>7 DEF SameNode
  <2> QED  BY <2>1, <2>2
<1>15. \A i \in 1 .. n : new[i].o1 = c[i].o1 /\ new[i].o2 = c[i].o2
  BY <1>2, <1>5, <1>6 DEF SameNode
<1>16. ASSUME NEW i \in 1 .. n - 1  PROVE IsAbove(s, new[i], new[i + 1]) /\ IsPassed(s, new[i])
  <2>1. IsAbove(s, c[i], c[i + 1]) /\ IsPassed(s, c[i])
    BY <1>2 DEF OpenLine, GoodLine
  <2>2. i + 1 \in 1 .. n /\ i \in 1 .. n
    BY <1>2
  <2>3. new[i + 1].o1 = c[i + 1].o1 /\ new[i + 1].o2 = c[i + 1].o2
    BY <2>2, <1>15
  <2>4. SameNode(new[i], c[i])
    BY <1>5
  <2> QED  BY <2>1, <2>3, <2>4 DEF IsAbove, IsPassed, SameNode
<1>17. ASSUME NEW k \in 1 .. m - 1  PROVE IsAbove(s, new[n + k - 1], new[n + k])
  <2>1. IsAbove(s, line[k], line[k + 1])
    BY <1>1, <1>3 DEF GoodLine
  <2>2. k \in 1 .. m /\ k + 1 \in 1 .. m /\ n + (k + 1) - 1 = n + k
    BY <1>2, <1>3
  <2>3. new[n + k].o1 = line[k + 1].o1 /\ new[n + k].o2 = line[k + 1].o2
    BY <2>2, <1>13
  <2> QED  BY <2>1, <2>2, <2>3, <1>13, <1>14 DEF IsAbove
<1>18. ASSUME NEW k \in 1 .. m - 2  PROVE IsPassed(s, new[n + k - 1])
  <2>1. IsPassed(s, line[k])
    BY <1>1, <1>3 DEF GoodLine
  <2>2. k \in 1 .. m - 1
    OBVIOUS
  <2> QED  BY <2>1, <2>2, <1>10, <1>14 DEF IsPassed
<1>19. \A i \in 1 .. Len(new) - 1 : IsAbove(s, new[i], new[i + 1])
  <2> TAKE i \in 1 .. Len(new) - 1
  <2>1. CASE i \in 1 .. n - 1
    BY <2>1, <1>16
  <2>2. CASE i \notin 1 .. n - 1
    <3>1. PICK k \in 1 .. m - 1 : n + k - 1 = i /\ n + k = i + 1
      <4>1. i - n + 1 \in 1 .. m - 1 /\ n + (i - n + 1) - 1 = i /\ n + (i - n + 1) = i + 1
        BY <2>2, <1>2, <1>3, <1>4
      <4> QED  BY <4>1
    <3>2. IsAbove(s, new[n + k - 1], new[n + k])
      BY <1>17
    <3> QED  BY <3>1, <3>2
  <2> QED  BY <2>1, <2>2
<1>20. \A i \in 1 .. Len(new) - 2 : IsPassed(s, new[i])
  <2> TAKE i \in 1 .. Len(new) - 2
  <2>1. CASE i \in 1 .. n - 1
    BY <2>1, <1>16
  <2>2. CASE i \notin 1 .. n - 1
    <3>1. PICK k \in 1 .. m - 2 : n + k - 1 = i
      <4>1. i - n + 1 \in 1 .. m - 2 /\ n + (i - n + 1) - 1 = i
        BY <2>2, <1>2, <1>3, <1>4
      <4> QED  BY <4>1
    <3>2. IsPassed(s, new[n + k - 1])
      BY <1>18
    <3> QED  BY <3>1, <3>2
  <2> QED  BY <2>1, <2>2
<1>21. GoodLine(s, new)
  <2>1. c[1].o1 \in Present /\ c[1].o2 \in Present
    BY DEF OpenLine, GoodLine
  <2> QED  BY <2>1, <1>4, <1>9, <1>12, <1>19, <1>20 DEF GoodLine
<1>22. Own(new, n + m - 1) = Own(line, m)
  <2>1. m \in 1 .. m /\ new[n + m - 1].o1 = line[m].o1 /\ new[n + m - 1].o2 = line[m].o2
    BY <1>13
  <2>2. CASE m > 1
    <3>1. m - 1 \in 1 .. m - 1 /\ n + (m - 1) - 1 = n + m - 2 /\ n + m - 1 > 1 /\ n + m - 1 - 1 = n + m - 2
      BY <2>2, <1>2, <1>3
    <3>2. new[n + m - 2].p2 = line[m - 1].p2
      BY <3>1, <1>14
    <3> QED  BY <2>1, <2>2, <3>1, <3>2 DEF Own
  <2>3. CASE m = 1
    <3>1. n > 1 => new[n - 1].p2 # NoElement
      <4>1. ASSUME n > 1  PROVE IsPassed(s, new[n - 1])
        BY <4>1, <1>2, <1>16
      <4> QED  BY <4>1 DEF IsPassed
    <3>2. n + m - 1 = n
      BY <2>3, <1>2
    <3> QED  BY <2>1, <2>3, <3>1, <3>2 DEF Own
  <2> QED  BY <2>2, <2>3, <1>3
<1>23. report.kind = Moved \/ ~AreCompared(Own(new, Len(new))[1], Own(new, Len(new))[2])
  BY <1>1, <1>3, <1>4, <1>22 DEF GoodReport
<1>24. report.kind # Moved
  BY <1>10 DEF GoodReport
<1>25. report.kind # "values_changed" => Len(new) > 1
  BY <1>1, <1>2, <1>3, <1>4 DEF GoodReport
<1>26. report.kind = "iterable_item_removed" => new[Len(new) - 1].p2 = NoElement
  <2> SUFFICES ASSUME report.kind = "iterable_item_removed"  PROVE new[Len(new) - 1].p2 = NoElement
    OBVIOUS
  <2>1. m > 1 /\ line[m - 1].p2 = NoElement
    BY <1>1, <1>3 DEF GoodReport
  <2>2. m - 1 \in 1 .. m - 1 /\ n + (m - 1) - 1 = Len(new) - 1
    BY <2>1, <1>2, <1>3, <1>4
  <2>3. new[n + (m - 1) - 1].p2 = line[m - 1].p2
    BY <2>2, <1>14
  <2> QED  BY <2>1, <2>2, <2>3
<1>27. PICK r : /\ r = Report(report.kind, new) /\ r.kind = report.kind
                /\ r.line = new /\ r \in ReportType
  <2>1. report.kind \in ReportKinds
    BY DEF GoodReport, ReportType
  <2> QED  BY <2>1, <1>4, ReportFacts
<1> QED  BY <1>4, <1>9, <1>21, <1>23, <1>24, <1>25, <1>26, <1>27 DEF GoodReport

-----------------------------------------------------------------------------
(* What merging keeps.                                                     *)

(* What is merged: a removed and an added item whose paths have one text.  *)
LEMMA MutualFacts ==
  ASSUME NEW rs, NEW p \in Mutual(rs)
  PROVE  /\ p[1] \in DOMAIN rs /\ p[2] \in DOMAIN rs
         /\ rs[p[1]].kind = "iterable_item_removed" /\ rs[p[2]].kind = "iterable_item_added"
         /\ TextAt(rs[p[1]].line) = TextAt(rs[p[2]].line)
  BY DEF Mutual, OfKind, LastAt

(* Merging leaves good reports, with dictionaries that are still for the   *)
(* same levels.                                                            *)
LEMMA MergeKeeps ==
  ASSUME NEW s, NEW rs, NEW o1, NEW o2,
         \A i \in DOMAIN rs : GoodReport(s, rs[i]) /\ RootIs(rs[i].line, o1, o2),
         NEW i \in DOMAIN Merge(rs)
  PROVE  /\ GoodReport(s, Merge(rs)[i]) /\ RootIs(Merge(rs)[i].line, o1, o2)
         /\ \A g, f : (\A j \in DOMAIN rs : Conforms(g, f, rs[j].line, rs[j].kind))
                        => Conforms(g, f, Merge(rs)[i].line, Merge(rs)[i].kind)
<1>1. i \in DOMAIN rs
  BY DEF Merge
<1>2. CASE ~\E p \in Mutual(rs) : p[1] = i
  <2>1. Merge(rs)[i] = rs[i]
    BY <1>2 DEF Merge
  <2> QED  BY <1>1, <2>1
<1>3. CASE \E p \in Mutual(rs) : p[1] = i
  <2>1. PICK p \in Mutual(rs) : p[1] = i
    BY <1>3
  <2>2. PICK j : j = Partner(rs, i) /\ j \in DOMAIN rs
    <3>1. p = <<i, p[2]>> /\ p[2] \in DOMAIN rs
      BY <2>1 DEF Mutual, OfKind
    <3>2. \E k \in DOMAIN rs : <<i, k>> \in Mutual(rs)
      BY <2>1, <3>1
    <3> QED  BY <3>2 DEF Partner
  <2>3. rs[i].kind = "iterable_item_removed"
    BY <2>1, MutualFacts
  <2>4. PICK o \in Things : o = Leaf(rs[j].line).o2
    <3>1. rs[j].line \in LineType /\ rs[j].line # <<>>
      BY <2>2 DEF GoodReport, GoodLine
    <3>2. Leaf(rs[j].line) \in NodeType
      BY <3>1, LineFacts
    <3> QED  BY <3>2 DEF NodeType
  <2>5. PICK new : new = WithT2(rs[i].line, o)
    OBVIOUS
  <2>6. Merge(rs)[i] = Report("values_changed", new)
    BY <1>3, <2>2, <2>4, <2>5 DEF Merge
  <2>7. /\ GoodReport(s, Report("values_changed", new))
        /\ new[1].o1 = rs[i].line[1].o1 /\ new[1].o2 = rs[i].line[1].o2
        /\ \A g, f : Conforms(g, f, rs[i].line, rs[i].kind) => Conforms(g, f, new, "values_changed")
    <3>1. PICK report : report = rs[i] /\ GoodReport(s, report) /\ report.kind = "iterable_item_removed"
      BY <1>1, <2>3
    <3> QED  BY <2>5, <3>1, MergedLine
  <2>8. Merge(rs)[i].kind = "values_changed" /\ Merge(rs)[i].line = new
    BY <2>6 DEF Report
  <2>9. RootIs(new, o1, o2)
    BY <1>1, <2>7 DEF RootIs
  <2> QED  BY <1>1, <2>6, <2>7, <2>8, <2>9
<1> QED  BY <1>2, <1>3

(* The steps of a good line are elements of its containers.                *)
LEMMA StepsAreElements ==
  ASSUME NEW s, IsScenario(s), NEW line, GoodLine(s, line), line # <<>>,
         NEW i \in 1 .. Len(line) - 1
  PROVE  IsElement(Step(line[i], Path))
<1>1. IsAbove(s, line[i], line[i + 1])
  BY DEF GoodLine
<1>2. PICK o1, o2 : o1 = line[i].o1 /\ o2 = line[i].o2 /\ <<o1, o2>> \in DOMAIN s.pairs
  BY <1>1 DEF IsAbove
<1>3. PICK j \in DOMAIN s.pairs[<<o1, o2>>] : s.pairs[<<o1, o2>>][j] = <<line[i].p1, line[i].p2>>
  BY <1>1, <1>2 DEF IsAbove
<1> DEFINE P(o) == DOMAIN Objects[o].items \cup {NoElement}
<1>4. o1 \in Present /\ o2 \in Present
  BY <1>2 DEF IsScenario, Present
<1>5. s.pairs[<<o1, o2>>] \in Seq((P(o1) \X P(o2)) \ {<<NoElement, NoElement>>})
  BY <1>2 DEF IsScenario, IsMatching
<1>6. <<line[i].p1, line[i].p2>> \in (P(o1) \X P(o2)) \ {<<NoElement, NoElement>>}
  BY <1>3, <1>5
<1>7. \A e \in P(o1) \cup P(o2) : e # NoElement => IsElement(e)
  BY <1>4, DiffTreeAssumption DEF Present
<1>8. Step(line[i], Path) \in {line[i].p1, line[i].p2} /\ Step(line[i], Path) # NoElement
  <2>1. line[i].p1 # NoElement \/ line[i].p2 # NoElement
    BY <1>6
  <2> QED  BY <2>1 DEF Step, Other
<1>9. line[i].p1 \in P(o1) /\ line[i].p2 \in P(o2)
  BY <1>6
<1> QED  BY <1>7, <1>8, <1>9

(* A path that cannot be mistaken is made of such elements.                *)
LEMMA PathIsUnmistakable ==
  ASSUME NEW s, IsScenario(s), NEW line, GoodLine(s, line), line # <<>>, NEW path,
         path = PathOf(line, Len(line), Path), IsUnmistakable(path)
  PROVE  AreUnmistakable(path.steps, Len(line) - 1)
<1>1. PICK n \in Nat : n = Len(line) - 1
  <2>1. Len(line) \in Nat \ {0}
    BY LineFacts DEF GoodLine
  <2> QED  BY <2>1
<1>2. path.steps = [i \in 1 .. n |-> Step(line[i], Path)]
  BY <1>1 DEF IsUnmistakable, PathOf
<1>3. ASSUME NEW i \in 1 .. n
      PROVE  IsElement(path.steps[i]) /\ ~HasBothQuotes(path.steps[i])
  <2>1. IsElement(Step(line[i], Path))
    BY <1>1, StepsAreElements
  <2>2. path.steps[i] = Step(line[i], Path) /\ i \in DOMAIN path.steps
    BY <1>2
  <2> QED  BY <2>1, <2>2 DEF IsUnmistakable
<1>4. path.steps = [i \in 1 .. n |-> path.steps[i]]
  BY <1>2
<1> QED  BY <1>1, <1>3, <1>4 DEF AreUnmistakable

(* What is merged is of one pair of containers.                            *)
LEMMA MergesAreOfOnePlace ==
  ASSUME NEW s, IsScenario(s), NEW rs, NEW o1, NEW o2, NEW g, NEW f, PlainCache(g, f, cache),
         \A i \in DOMAIN rs : GoodReport(s, rs[i]) /\ RootIs(rs[i].line, o1, o2)
                                /\ Conforms(g, f, rs[i].line, rs[i].kind),
         NEW pair \in Merges(rs),
         IsUnmistakable(PathOf(pair[1], Len(pair[1]), Path)), IsUnmistakable(PathOf(pair[2], Len(pair[2]), Path))
  PROVE  /\ pair[1][Len(pair[1]) - 1].o1 = pair[2][Len(pair[2]) - 1].o1
         /\ pair[1][Len(pair[1]) - 1].o2 = pair[2][Len(pair[2]) - 1].o2
<1>1. PICK p \in Mutual(rs) : pair = <<rs[p[1]].line, rs[p[2]].line>>
  BY DEF Merges
<1>2. /\ p[1] \in DOMAIN rs /\ p[2] \in DOMAIN rs
      /\ rs[p[1]].kind = "iterable_item_removed" /\ rs[p[2]].kind = "iterable_item_added"
      /\ TextAt(rs[p[1]].line) = TextAt(rs[p[2]].line)
  BY MutualFacts
<1>3. PICK line : /\ line = rs[p[1]].line /\ line # <<>> /\ GoodLine(s, line) /\ Len(line) > 1
                  /\ line[1].o1 = o1 /\ line[1].o2 = o2 /\ line \in LineType
                  /\ \E kind : Conforms(g, f, line, kind)
  BY <1>2 DEF GoodReport, GoodLine, RootIs
<1>4. PICK other : /\ other = rs[p[2]].line /\ other # <<>> /\ GoodLine(s, other) /\ Len(other) > 1
                   /\ other[1].o1 = o1 /\ other[1].o2 = o2 /\ other \in LineType
                   /\ \E kind : Conforms(g, f, other, kind)
  BY <1>2 DEF GoodReport, GoodLine, RootIs
<1>5. AnswerTo(line, Path) = PathOf(line, Len(line), Path)
  BY <1>3, PlainAnswer
<1>6. AnswerTo(other, Path) = PathOf(other, Len(other), Path)
  BY <1>4, PlainAnswer
<1>7. pair[1] = line /\ pair[2] = other
  BY <1>1, <1>3, <1>4
<1>8. PathOf(line, Len(line), Path) = PathOf(other, Len(other), Path)
  <2>1. PICK path, another : path = PathOf(line, Len(line), Path) /\ another = PathOf(other, Len(other), Path)
    OBVIOUS
  <2>2. IsUnmistakable(path) /\ IsUnmistakable(another)
    BY <1>7, <2>1
  <2>3. TextAt(line) = Written(path) /\ TextAt(other) = Written(another)
    BY <1>5, <1>6, <2>1 DEF TextAt
  <2>4. TextOf(path.steps) = TextOf(another.steps)
    <3>1. TextAt(line) = TextAt(other)
      BY <1>2, <1>3, <1>4
    <3>2. Written(path).text = Written(another).text
      BY <2>3, <3>1
    <3> QED  BY <3>2 DEF Written
  <2>5. AreUnmistakable(path.steps, Len(line) - 1)
    BY <1>3, <2>1, <2>2, PathIsUnmistakable
  <2>6. AreUnmistakable(another.steps, Len(other) - 1)
    BY <1>4, <2>1, <2>2, PathIsUnmistakable
  <2>7. path.steps = another.steps
    BY <2>4, <2>5, <2>6, OneTextOnePath
  <2>8. path = [found |-> TRUE, steps |-> path.steps] /\ another = [found |-> TRUE, steps |-> another.steps]
    BY <2>1, <2>2 DEF IsUnmistakable, PathOf
  <2> QED  BY <2>1, <2>7, <2>8
<1>9. PathOf(line, Len(line), Path).found /\ other[1].o1 = line[1].o1 /\ other[1].o2 = line[1].o2
  BY <1>3, <1>4, <1>7 DEF IsUnmistakable
<1>10. /\ line[Len(line) - 1].o1 = other[Len(other) - 1].o1
       /\ line[Len(line) - 1].o2 = other[Len(other) - 1].o2
  <2>1. line # <<>> /\ GoodLine(s, line) /\ Len(line) > 1 /\ other # <<>> /\ GoodLine(s, other) /\ Len(other) > 1
    BY <1>3, <1>4
  <2> QED  BY <2>1, <1>8, <1>9, SamePlace
<1> QED  BY <1>7, <1>10

-----------------------------------------------------------------------------
(* Parts of the steps.                                                     *)

(* No line at all is a good one.                                           *)
LEMMA NoLine ==
  /\ \A s : OpenLine(s, <<>>)
  /\ \A g, f, kind : Conforms(g, f, <<>>, kind)
  BY DEF OpenLine, GoodLine, LineType, Conforms

(* A report is added where its line belongs.                               *)
LEMMA AddKeeps ==
  ASSUME Reports, Walking, NEW report, Add(report), GoodReport(scenario, report),
         IF InWorker THEN RootIs(report.line, Leaf(change).o1, Leaf(change).o2)
                     ELSE RootIs(report.line, scenario.t1, scenario.t2),
         UNCHANGED <<scenario, change, phase>>
  PROVE  /\ Reports'
         /\ \A i \in DOMAIN reports' : reports'[i] = report \/ (i \in DOMAIN reports /\ reports'[i] = reports[i])
         /\ \A i \in DOMAIN local' : local'[i] = report \/ (i \in DOMAIN local /\ local'[i] = local[i])
<1>1. reports \in Seq(ReportType) /\ local \in Seq(ReportType) /\ report \in ReportType
  BY DEF Reports, Walking, GoodReport
<1>2. CASE ~InWorker
  <2>1. reports' = Append(reports, report) /\ local' = local
    BY <1>2 DEF Add, InWorker
  <2>2. \A i \in DOMAIN reports' : reports'[i] = report \/ (i \in DOMAIN reports /\ reports'[i] = reports[i])
    BY <1>1, <2>1
  <2>3. reports' \in Seq(ReportType)
    BY <1>1, <2>1
  <2> QED  BY <1>2, <2>1, <2>2, <2>3 DEF Reports, InWorker, RootIs
<1>3. CASE InWorker
  <2>1. local' = Append(local, report) /\ reports' = reports
    BY <1>3 DEF Add, InWorker
  <2>2. \A i \in DOMAIN local' : local'[i] = report \/ (i \in DOMAIN local /\ local'[i] = local[i])
    BY <1>1, <2>1
  <2>3. local' \in Seq(ReportType)
    BY <1>1, <2>1
  <2> QED  BY <1>3, <2>1, <2>2, <2>3 DEF Reports, InWorker, RootIs
<1> QED  BY <1>2, <1>3

(* The last element of a sequence is replaced.                             *)
LEMMA LastReplaced ==
  ASSUME NEW S, NEW q \in Seq(S), q # <<>>, NEW x \in S
  PROVE  /\ [q EXCEPT ![Len(q)] = x] \in Seq(S)
         /\ Len([q EXCEPT ![Len(q)] = x]) = Len(q)
         /\ [q EXCEPT ![Len(q)] = x][Len(q)] = x
         /\ \A k \in 1 .. Len(q) - 1 : [q EXCEPT ![Len(q)] = x][k] = q[k]
         /\ DOMAIN q = 1 .. Len(q) /\ Len(q) \in Nat \ {0}
<1>1. PICK n \in Nat \ {0} : n = Len(q) /\ DOMAIN q = 1 .. n
  OBVIOUS
<1>2. PICK r : r = [q EXCEPT ![n] = x]
  OBVIOUS
<1>3. r \in Seq(S) /\ Len(r) = n
  BY <1>1, <1>2
<1>4. r[n] = x /\ \A k \in 1 .. n - 1 : r[k] = q[k]
  BY <1>1, <1>2
<1> QED  BY <1>1, <1>2, <1>3, <1>4

(* Steps of the walk leave the questions of views and merging alone.       *)
LEMMA WalkKeeps ==
  ASSUME Inv, Walking, UNCHANGED <<scenario, phase, plan, views, merged>>, fresh' \in Nat \ {0}
  PROVE  Scene' /\ Planned' /\ ParentsFirst' /\ MergedAtOnePlace'
<1>1. phase = "walk" /\ phase' = "walk"
  BY DEF Walking
<1>2. Scene'
  BY DEF Inv, Structure, Scene
<1>3. Planned'
  BY <1>1 DEF Inv, Structure, Planned
<1>4. ParentsFirst'
  BY <1>1 DEF ParentsFirst
<1>5. MergedAtOnePlace'
  BY DEF Inv, MergedAtOnePlace
<1> QED  BY <1>2, <1>3, <1>4, <1>5

(* A step that asks nothing keeps the answer.                              *)
LEMMA NothingAsked ==
  ASSUME AnswersAreFresh, NoQuestion
  PROVE  AnswersAreFresh' /\ cache' = cache
  BY DEF AnswersAreFresh, NoQuestion

(* The frame on top changes.                                               *)
LEMMA TopKeeps ==
  ASSUME Frames(scenario, stack), stack # <<>>, NEW frame, GoodFrame(scenario, frame),
         NEW frames, frames = AtTop(frame), Main(frame.line) <=> Main(Top.line)
  PROVE  /\ Frames(scenario, frames) /\ Len(frames) = Len(stack) /\ frames # <<>>
         /\ frames[Len(stack)] = frame /\ Top = stack[Len(stack)]
         /\ DOMAIN frames = DOMAIN stack /\ DOMAIN stack = 1 .. Len(stack) /\ Len(stack) \in DOMAIN stack
         /\ \A k \in DOMAIN stack : k = Len(stack) \/ frames[k] = stack[k]
         /\ \A k \in DOMAIN stack : Main(frames[k].line) <=> Main(stack[k].line)
<1>1. PICK n \in Nat \ {0} : n = Len(stack) /\ DOMAIN stack = 1 .. n /\ stack \in Seq(FrameType)
  BY LastReplaced DEF Frames
<1>2. frame \in FrameType
  BY DEF GoodFrame
<1>3. frames = [stack EXCEPT ![n] = frame]
  BY <1>1 DEF AtTop
<1>4. frames \in Seq(FrameType) /\ Len(frames) = n /\ DOMAIN frames = 1 .. n /\ frames # <<>>
  BY <1>1, <1>2, <1>3
<1>5. frames[n] = frame /\ \A k \in 1 .. n - 1 : frames[k] = stack[k]
  BY <1>1, <1>3
<1>6. \A k \in 1 .. n : k = n \/ frames[k] = stack[k]
  BY <1>5
<1>7. Top = stack[n]
  BY <1>1 DEF Top
<1>8. \A k \in 1 .. n : GoodFrame(scenario, frames[k])
  BY <1>1, <1>5, <1>6 DEF Frames
<1>9. \A k \in 1 .. n : Main(frames[k].line) <=> Main(stack[k].line)
  BY <1>5, <1>6, <1>7
<1>10. Frames(scenario, frames)
  BY <1>4, <1>8 DEF Frames
<1> QED  BY <1>1, <1>4, <1>5, <1>6, <1>7, <1>9, <1>10

(* The order of the frames is kept when the innermost is replaced by one   *)
(* of the same process.                                                    *)
LEMMA TopKeepsOrder ==
  ASSUME Frames(scenario, stack), stack # <<>>, NEW frame, GoodFrame(scenario, frame),
         NEW frames, frames = AtTop(frame), Main(frame.line) <=> Main(Top.line),
         \A k \in DOMAIN stack : RootOf(stack[k].line), RootOf(frame.line)
  PROVE  /\ \A k \in DOMAIN frames : RootOf(frames[k].line)
         /\ Nested(stack) => Nested(frames)
         /\ Waiting(stack) /\ (Main(frame.line) => frame.work = <<>>) => Waiting(frames)
<1>1. /\ Len(frames) = Len(stack) /\ frames # <<>>
      /\ frames[Len(stack)] = frame
      /\ DOMAIN frames = DOMAIN stack /\ DOMAIN stack = 1 .. Len(stack) /\ Len(stack) \in DOMAIN stack
      /\ \A k \in DOMAIN stack : k = Len(stack) \/ frames[k] = stack[k]
      /\ \A k \in DOMAIN stack : Main(frames[k].line) <=> Main(stack[k].line)
  BY TopKeeps
<1>2. PICK n \in Nat \ {0} : n = Len(stack)
  BY LastReplaced DEF Frames
<1>3. \A k \in DOMAIN frames : RootOf(frames[k].line)
  BY <1>1
<1>4. Nested(stack) => Nested(frames)
  BY <1>1 DEF Nested
<1>5. ASSUME Waiting(stack), Main(frame.line) => frame.work = <<>>
      PROVE  Waiting(frames)
  <2>1. frames # <<>> /\ Main(frames[1].line)
    BY <1>1, <1>2, <1>5 DEF Waiting
  <2>2. ASSUME NEW k \in DOMAIN frames, Main(frames[k].line), k = Len(frames) \/ ~Main(frames[k + 1].line)
        PROVE  frames[k].work = <<>>
    <3>1. CASE k = n
      BY <3>1, <2>2, <1>1, <1>2, <1>5
    <3>2. CASE k # n
      <4>1. k \in DOMAIN stack /\ k + 1 \in DOMAIN stack
        BY <3>2, <1>1, <1>2
      <4>2. frames[k] = stack[k] /\ ~Main(stack[k + 1].line) /\ Main(stack[k].line)
        BY <3>2, <2>2, <4>1, <1>1, <1>2
      <4> QED  BY <4>1, <4>2, <1>5 DEF Waiting
    <3> QED  BY <3>1, <3>2
  <2> QED  BY <2>1, <2>2 DEF Waiting
<1> QED  BY <1>3, <1>4, <1>5

(* What is walked conforms for every report but a move.                    *)
LEMMA WalkedKind ==
  ASSUME NEW g, NEW f, NEW line, NEW kind, kind # Moved
  PROVE  Conforms(g, f, line, Walked) <=> Conforms(g, f, line, kind)
<1>1. \A n : Role(line, n, kind) = Walked /\ Role(line, n, Walked) = Walked
  BY DEF Role, Walked, Moved
<1> QED  BY <1>1 DEF Conforms

(* Dictionaries that are in use are not new.                               *)
LEMMA NewIsUnused ==
  ASSUME NEW g, NEW f \in Nat, PlainCache(g, f, cache), NEW d, d \in Nat, d >= f
  PROVE  \A key \in DOMAIN cache : key[1] # d
<1> TAKE key \in DOMAIN cache
<1>1. PICK e \in 0 .. f - 1 : key = <<e, Path.force, Path.get_parent_too, Path.use_t2>>
  BY DEF PlainCache
<1>2. key[1] = e
  BY <1>1
<1> QED  BY <1>2

(* The frame of a container that is entered.                               *)
LEMMA EnteredIsGood ==
  ASSUME NEW s, IsScenario(s), NEW line, OpenLine(s, line), line # <<>>,
         AreCompared(Leaf(line).o1, Leaf(line).o2),
         NEW work, work = s.pairs[<<Leaf(line).o1, Leaf(line).o2>>]
  PROVE  GoodFrame(s, [line |-> line, work |-> work, jobs |-> <<>>])
<1>1. line \in LineType /\ <<Leaf(line).o1, Leaf(line).o2>> \in DOMAIN s.pairs
  BY DEF OpenLine, GoodLine
<1>2. PICK o1, o2 : o1 = Leaf(line).o1 /\ o2 = Leaf(line).o2
  OBVIOUS
<1> DEFINE P(o) == DOMAIN Objects[o].items \cup {NoElement}
<1>3. work \in Seq((P(o1) \X P(o2)) \ {<<NoElement, NoElement>>})
  BY <1>1, <1>2 DEF IsScenario, IsMatching
<1>4. (P(o1) \X P(o2)) \ {<<NoElement, NoElement>>} \subseteq Places \X Places
  <2>1. o1 \in Present /\ o2 \in Present
    BY <1>1, <1>2 DEF IsScenario, Present
  <2>2. P(o1) \subseteq Places /\ P(o2) \subseteq Places
    BY <2>1 DEF Places
  <2> QED  BY <2>2
<1>5. work \in Seq(Places \X Places)
  <2> HIDE DEF P
  <2> QED  BY <1>3, <1>4
<1>6. PICK jobs \in Seq(LineType) : jobs = <<>>
  <2>1. <<>> \in Seq(LineType)
    OBVIOUS
  <2> QED  BY <2>1
<1>7. PICK frame : frame = [line |-> line, work |-> work, jobs |-> jobs]
  OBVIOUS
<1>8. frame \in FrameType /\ frame.line = line /\ frame.work = work /\ frame.jobs = <<>>
  BY <1>1, <1>5, <1>6, <1>7 DEF FrameType
<1>9. GoodFrame(s, frame)
  BY <1>8 DEF GoodFrame
<1> QED  BY <1>6, <1>7, <1>9

(* One step of the walk after another: nothing to say of one object.       *)
LEMMA DiffSameKeeps ==
  ASSUME Inv, DiffSame
  PROVE  Inv'
<1>1. /\ pending' = <<>> /\ Walking
      /\ UNCHANGED <<scenario, stack, change, phase, local, reports, fresh, plan, views, merged>>
  BY DEF DiffSame
<1>2. AnswersAreFresh' /\ cache' = cache
  BY NothingAsked DEF DiffSame, Inv
<1>3. Scene' /\ Planned' /\ ParentsFirst' /\ MergedAtOnePlace'
  BY <1>1, WalkKeeps DEF Inv, Structure, Scene
<1>4. Lines'
  BY <1>1, NoLine DEF Inv, Structure, Lines, InWorker
<1>5. Reports'
  BY <1>1 DEF Inv, Structure, Reports, InWorker
<1>6. Order'
  BY <1>1 DEF Inv, Structure, Order, InWorker, RootOf
<1>7. Caches'
  <2>1. PICK g : Ledger(g, fresh) /\ CacheHolds(g)
    BY DEF Inv, Caches
  <2>2. Ledger(g, fresh)'
    BY <2>1, <1>1, NoLine DEF Ledger
  <2>3. CacheHolds(g)'
    BY <2>1, <1>1, <1>2 DEF CacheHolds, Walking
  <2> QED  BY <2>2, <2>3 DEF Caches
<1> QED  BY <1>2, <1>3, <1>4, <1>5, <1>6, <1>7 DEF Inv, Structure

(* The line that is pending is of the process that is walking.             *)
LEMMA WhoseLine ==
  ASSUME Inv, Walking, NEW line, RootOf(line), InWorker => ~Main(line)
  PROVE  IF InWorker THEN RootIs(line, Leaf(change).o1, Leaf(change).o2)
                     ELSE RootIs(line, scenario.t1, scenario.t2) /\ Main(line)
  BY DEF RootOf

(* The reports conform when one is added that does.                        *)
LEMMA AddConforms ==
  ASSUME NEW h, NEW f, NEW report, Conforms(h, f, report.line, report.kind),
         \A i \in DOMAIN reports : Conforms(h, f, reports[i].line, reports[i].kind),
         \A i \in DOMAIN local : Conforms(h, f, local[i].line, local[i].kind),
         \A i \in DOMAIN reports' : reports'[i] = report \/ (i \in DOMAIN reports /\ reports'[i] = reports[i]),
         \A i \in DOMAIN local' : local'[i] = report \/ (i \in DOMAIN local /\ local'[i] = local[i])
  PROVE  /\ \A i \in DOMAIN reports' : Conforms(h, f, reports'[i].line, reports'[i].kind)
         /\ \A i \in DOMAIN local' : Conforms(h, f, local'[i].line, local'[i].kind)
  OBVIOUS

(* Two containers are entered.                                             *)
LEMMA EnterKeeps ==
  ASSUME Inv, Walking, pending # <<>>, Comparable(pending), pending' = <<>>,
         stack' = Append(stack, [line |-> pending, work |-> Pairs(pending), jobs |-> <<>>]),
         UNCHANGED <<scenario, change, phase>>
  PROVE  /\ Lines' /\ Order'
         /\ \A g : (\A k \in DOMAIN stack : FrameConforms(g, fresh, stack[k])) /\ Conforms(g, fresh, pending, Walked)
              => \A k \in DOMAIN stack' : FrameConforms(g, fresh, stack'[k])
<1>1. Lines /\ Order /\ Scene /\ IsScenario(scenario)
  BY DiffTreeAssumption DEF Inv, Structure, Scene
<1>2. PICK frame : /\ frame = [line |-> pending, work |-> Pairs(pending), jobs |-> <<>>]
                   /\ frame.line = pending /\ frame.jobs = <<>>
  OBVIOUS
<1>3. GoodFrame(scenario, frame)
  <2>1. OpenLine(scenario, pending) /\ AreCompared(Leaf(pending).o1, Leaf(pending).o2)
    BY <1>1 DEF Lines, Comparable
  <2>2. Pairs(pending) = scenario.pairs[<<Leaf(pending).o1, Leaf(pending).o2>>]
    BY DEF Pairs
  <2> QED  BY <1>1, <1>2, <2>1, <2>2, EnteredIsGood
<1>4. stack \in Seq(FrameType) /\ frame \in FrameType
  BY <1>1, <1>3 DEF Lines, Frames, GoodFrame
<1>5. PICK n \in Nat : n = Len(stack) /\ DOMAIN stack = 1 .. n
  BY <1>4
<1>6. /\ stack' \in Seq(FrameType) /\ Len(stack') = n + 1 /\ DOMAIN stack' = 1 .. n + 1
      /\ stack' # <<>> /\ stack'[n + 1] = frame
      /\ \A k \in 1 .. n : stack'[k] = stack[k]
  BY <1>2, <1>4, <1>5
<1>7. Frames(scenario', stack')
  <2>1. ASSUME NEW k \in 1 .. n + 1  PROVE GoodFrame(scenario, stack'[k])
    <3>1. CASE k \in 1 .. n
      BY <3>1, <1>1, <1>5, <1>6 DEF Lines, Frames
    <3>2. CASE k = n + 1
      BY <3>2, <1>3, <1>6
    <3> QED  BY <3>1, <3>2, <1>5
  <2> QED  BY <2>1, <1>6 DEF Frames
<1>8. Lines'
  BY <1>1, <1>7, NoLine DEF Lines, InWorker
<1>9. RootOf(pending) /\ (InWorker => ~Main(pending))
  BY <1>1 DEF Order
<1>10. \A k \in 1 .. n + 1 : stack'[k].line = pending \/ (k \in 1 .. n /\ stack'[k] = stack[k])
  BY <1>2, <1>5, <1>6
<1>11. \A k \in DOMAIN stack' : RootOf(stack'[k].line)
  BY <1>1, <1>5, <1>6, <1>9, <1>10 DEF Order
<1>12. Nested(stack')
  <2>1. ASSUME NEW k \in 1 .. n + 1, NEW l \in 1 .. n + 1, k < l, Main(stack'[l].line)
        PROVE  Main(stack'[k].line)
    <3>1. k \in 1 .. n /\ stack'[k] = stack[k]
      BY <2>1, <1>5, <1>6
    <3>2. CASE l \in 1 .. n
      <4>1. stack'[l] = stack[l]
        BY <3>2, <1>6
      <4> QED  BY <2>1, <3>1, <3>2, <4>1, <1>1, <1>5 DEF Order, Nested
    <3>3. CASE l = n + 1
      <4>1. ~InWorker
        BY <2>1, <3>3, <1>2, <1>6, <1>9
      <4> QED  BY <3>1, <4>1, <1>1, <1>5 DEF Order, RootOf
    <3> QED  BY <3>2, <3>3, <1>5
  <2> QED  BY <2>1, <1>6 DEF Nested
<1>13. ASSUME InWorker  PROVE Waiting(stack')
  <2>1. Waiting(stack) /\ ~Main(frame.line)
    BY <1>13, <1>1, <1>2, <1>9 DEF Order
  <2>2. 1 \in 1 .. n
    BY <2>1, <1>4, <1>5 DEF Waiting
  <2>3. Main(stack'[1].line)
    BY <2>1, <2>2, <1>6 DEF Waiting
  <2>4. ASSUME NEW k \in 1 .. n + 1, Main(stack'[k].line), k = n + 1 \/ ~Main(stack'[k + 1].line)
        PROVE  stack'[k].work = <<>>
    <3>1. k \in 1 .. n /\ stack'[k] = stack[k]
      BY <2>1, <2>4, <1>5, <1>6
    <3>2. k = n \/ ~Main(stack[k + 1].line)
      BY <2>4, <3>1, <1>5, <1>6
    <3> QED  BY <2>1, <2>4, <3>1, <3>2, <1>5 DEF Waiting
  <2> QED  BY <2>3, <2>4, <1>6 DEF Waiting
<1>14. Order'
  <2>1. phase = "walk" /\ phase' = "walk"
    BY DEF Walking
  <2> QED  BY <2>1, <1>11, <1>12, <1>13 DEF Order, InWorker, RootOf
<1>15. ASSUME NEW g, \A k \in DOMAIN stack : FrameConforms(g, fresh, stack[k]), Conforms(g, fresh, pending, Walked)
       PROVE  \A k \in DOMAIN stack' : FrameConforms(g, fresh, stack'[k])
  <2>1. FrameConforms(g, fresh, frame)
    BY <1>2, <1>15 DEF FrameConforms
  <2> QED  BY <2>1, <1>5, <1>6, <1>15
<1> QED  BY <1>8, <1>14, <1>15

(* _diff asks for the path, and reports or enters.                         *)
LEMMA DiffKeeps ==
  ASSUME Inv, Diff
  PROVE  Inv'
<1>1. /\ pending # <<>> /\ pending' = <<>> /\ Walking
      /\ Ask(pending, Path)
      /\ UNCHANGED <<scenario, change, phase, fresh, plan, views, merged>>
  BY DEF Diff
<1>2. Scene /\ Lines /\ Reports /\ Order /\ IsScenario(scenario)
  BY DiffTreeAssumption DEF Inv, Structure, Scene
<1>3. Scene' /\ Planned' /\ ParentsFirst' /\ MergedAtOnePlace'
  BY <1>1, WalkKeeps DEF Inv, Structure, Scene
<1>4. PICK g : Ledger(g, fresh) /\ PlainCache(g, fresh, cache)
  <2>1. PICK g : Ledger(g, fresh) /\ CacheHolds(g)
    BY DEF Inv, Caches
  <2>2. PlainCache(g, fresh, cache)
    BY <1>1, <2>1 DEF CacheHolds, Walking
  <2> QED  BY <2>1, <2>2
<1>5. Conforms(g, fresh, pending, Walked) /\ OpenLine(scenario, pending) /\ pending \in LineType
  BY <1>2, <1>4 DEF Ledger, Lines, OpenLine, GoodLine
<1>6. PlainCache(g, fresh, cache') /\ AnswersAreFresh'
  BY <1>1, <1>4, <1>5, AskPath
<1>7. CacheHolds(g)'
  BY <1>1, <1>6 DEF CacheHolds, Walking
<1>8. CASE Comparable(pending)
  <2>1. /\ stack' = Append(stack, [line |-> pending, work |-> Pairs(pending), jobs |-> <<>>])
        /\ UNCHANGED <<local, reports>>
    BY <1>8 DEF Diff
  <2>2. Lines' /\ Order' /\ (\A k \in DOMAIN stack' : FrameConforms(g, fresh, stack'[k]))
    <3>1. \A k \in DOMAIN stack : FrameConforms(g, fresh, stack[k])
      BY <1>4 DEF Ledger
    <3> QED  BY <1>1, <1>5, <1>8, <2>1, <3>1, EnterKeeps
  <2>3. Reports'
    BY <1>1, <1>2, <2>1 DEF Reports, InWorker
  <2>4. Ledger(g, fresh)'
    BY <1>1, <1>4, <2>1, <2>2, NoLine DEF Ledger
  <2> QED  BY <1>3, <1>6, <1>7, <2>2, <2>3, <2>4 DEF Inv, Structure, Caches
<1>9. CASE ~Comparable(pending)
  <2>1. Add(Report("values_changed", pending)) /\ UNCHANGED stack
    BY <1>9 DEF Diff
  <2>2. PICK report : /\ report = Report("values_changed", pending)
                      /\ report.kind = "values_changed" /\ report.line = pending
    <3>1. Report("values_changed", pending).kind = "values_changed" /\ Report("values_changed", pending).line = pending
      BY DEF Report
    <3> QED  BY <3>1
  <2>3. GoodReport(scenario, report)
    BY <1>1, <1>5, <1>9, <2>2, ValueIsGood DEF Comparable
  <2>4. IF InWorker THEN RootIs(report.line, Leaf(change).o1, Leaf(change).o2)
                    ELSE RootIs(report.line, scenario.t1, scenario.t2)
    <3>1. RootOf(pending) /\ (InWorker => ~Main(pending))
      BY <1>1, <1>2 DEF Order
    <3> QED  BY <1>1, <2>2, <3>1, WhoseLine
  <2>5. /\ Reports'
        /\ \A i \in DOMAIN reports' : reports'[i] = report \/ (i \in DOMAIN reports /\ reports'[i] = reports[i])
        /\ \A i \in DOMAIN local' : local'[i] = report \/ (i \in DOMAIN local /\ local'[i] = local[i])
    BY <1>1, <1>2, <2>1, <2>2, <2>3, <2>4, AddKeeps
  <2>6. Lines'
    BY <1>1, <1>2, <2>1, NoLine DEF Lines, InWorker
  <2>7. Order'
    BY <1>1, <1>2, <2>1 DEF Order, InWorker, RootOf
  <2>8. Conforms(g, fresh, report.line, report.kind)
    BY <1>5, <2>2, WalkedKind DEF Moved
  <2>9. /\ \A i \in DOMAIN reports' : Conforms(g, fresh, reports'[i].line, reports'[i].kind)
        /\ \A i \in DOMAIN local' : Conforms(g, fresh, local'[i].line, local'[i].kind)
    BY <1>4, <2>5, <2>8, AddConforms DEF Ledger
  <2>10. Ledger(g, fresh)'
    BY <1>1, <1>4, <2>1, <2>9, NoLine DEF Ledger
  <2> QED  BY <1>3, <1>6, <1>7, <2>5, <2>6, <2>7, <2>10 DEF Inv, Structure, Caches
<1> QED  BY <1>8, <1>9

(* More dictionaries: nothing changes for what there is.                   *)
LEMMA MoreLedger ==
  ASSUME NEW g, NEW h, NEW f \in Nat, NEW f2 \in Nat, f <= f2, \A d \in 0 .. f - 1 : h[d] = g[d],
         Ledger(g, f), PlainCache(g, f, cache)
  PROVE  Ledger(h, f2) /\ PlainCache(h, f2, cache)
<1>1. \A line, kind : Conforms(g, f, line, kind) => Conforms(h, f2, line, kind)
  BY MoreDictionaries
<1>2. PlainCache(h, f2, cache)
  BY MoreDictionaries
<1>3. \A frame : FrameConforms(g, f, frame) => FrameConforms(h, f2, frame)
  BY <1>1 DEF FrameConforms
<1>4. Ledger(h, f2)
  BY <1>1, <1>3 DEF Ledger
<1> QED  BY <1>2, <1>4

(* A container at one of its pairs.                                        *)
LEMMA AtPairFacts ==
  ASSUME Inv, AtPair
  PROVE  /\ IsScenario(scenario) /\ Scene /\ Lines /\ Reports /\ Order /\ Walking /\ stack # <<>>
         /\ Top = stack[Len(stack)] /\ Len(stack) \in DOMAIN stack
         /\ GoodFrame(scenario, Top) /\ GoodFrame(scenario, NextPair)
         /\ NextPair.line = Top.line /\ NextPair.jobs = Top.jobs
         /\ NextPair \in FrameType
         /\ Top.line # <<>> /\ OpenLine(scenario, Top.line) /\ Top.line \in LineType
         /\ AreCompared(Leaf(Top.line).o1, Leaf(Top.line).o2)
         /\ \E j \in DOMAIN scenario.pairs[<<Leaf(Top.line).o1, Leaf(Top.line).o2>>] :
              Pair = scenario.pairs[<<Leaf(Top.line).o1, Leaf(Top.line).o2>>][j]
         /\ Pair[1] # NoElement \/ Pair[2] # NoElement
         /\ RootOf(Top.line) /\ (InWorker => ~Main(Top.line))
<1>1. IsScenario(scenario) /\ Scene /\ Lines /\ Reports /\ Order
  BY DiffTreeAssumption DEF Inv, Structure, Scene
<1>2. Walking /\ stack # <<>> /\ Top.work # <<>>
  BY DEF AtPair, Working
<1>3. Top = stack[Len(stack)] /\ Len(stack) \in DOMAIN stack
  BY <1>1, <1>2, LastReplaced DEF Lines, Frames, Top
<1>4. PICK top : top = Top /\ GoodFrame(scenario, top) /\ top \in FrameType /\ top.work # <<>>
  BY <1>1, <1>2, <1>3 DEF Lines, Frames, GoodFrame
<1>5. /\ top.line # <<>> /\ OpenLine(scenario, top.line) /\ top.line \in LineType
      /\ AreCompared(Leaf(top.line).o1, Leaf(top.line).o2)
  BY <1>4 DEF GoodFrame, OpenLine, GoodLine
<1>6. PICK matched : matched = scenario.pairs[<<Leaf(top.line).o1, Leaf(top.line).o2>>]
  OBVIOUS
<1>7. \A i \in DOMAIN top.work : \E j \in DOMAIN matched : top.work[i] = matched[j]
  BY <1>4, <1>6 DEF GoodFrame
<1>8. PICK work \in Seq(Places \X Places) : work = top.work /\ work # <<>>
  BY <1>4 DEF FrameType
<1>9. PICK rest \in Seq(Places \X Places) :
        /\ rest = Tail(work)
        /\ \A i \in DOMAIN rest : \E k \in DOMAIN work : rest[i] = work[k]
  <2>1. Tail(work) \in Seq(Places \X Places) /\ Len(Tail(work)) = Len(work) - 1
    BY <1>8
  <2>2. ASSUME NEW i \in 1 .. Len(work) - 1  PROVE i + 1 \in DOMAIN work /\ Tail(work)[i] = work[i + 1]
    BY <1>8
  <2>3. DOMAIN Tail(work) = 1 .. Len(work) - 1
    BY <2>1
  <2> QED  BY <2>1, <2>2, <2>3
<1>10. PICK next : next = [top EXCEPT !.work = rest]
  OBVIOUS
<1>11. next \in FrameType /\ next.line = top.line /\ next.jobs = top.jobs /\ next.work = rest
  BY <1>4, <1>10 DEF FrameType
<1>12. \A i \in DOMAIN rest : \E j \in DOMAIN matched : rest[i] = matched[j]
  BY <1>7, <1>8, <1>9
<1>13. GoodFrame(scenario, next)
  <2>1. \A i \in DOMAIN top.jobs :
          /\ top.jobs[i] # <<>> /\ OpenLine(scenario, top.jobs[i])
          /\ scenario.workers /\ top.jobs[i][1].dict = 0 /\ RootIs(top.jobs[i], scenario.t1, scenario.t2)
    BY <1>4 DEF GoodFrame
  <2>2. \A i \in DOMAIN next.work : \E j \in DOMAIN matched : next.work[i] = matched[j]
    BY <1>11, <1>12
  <2>3. \A i \in DOMAIN next.jobs :
          /\ next.jobs[i] # <<>> /\ OpenLine(scenario, next.jobs[i])
          /\ scenario.workers /\ next.jobs[i][1].dict = 0 /\ RootIs(next.jobs[i], scenario.t1, scenario.t2)
    BY <2>1, <1>11
  <2>4. /\ matched = scenario.pairs[<<Leaf(next.line).o1, Leaf(next.line).o2>>]
        /\ AreCompared(Leaf(next.line).o1, Leaf(next.line).o2)
        /\ next.line # <<>> /\ OpenLine(scenario, next.line)
    BY <1>5, <1>6, <1>11
  <2> QED  BY <2>2, <2>3, <2>4, <1>11 DEF GoodFrame
<1>14. NextPair = next
  BY <1>4, <1>8, <1>9, <1>10 DEF NextPair
<1>15. \E j \in DOMAIN matched : Pair = matched[j]
  <2>1. 1 \in DOMAIN work /\ Head(work) = work[1]
    BY <1>8
  <2> QED  BY <2>1, <1>4, <1>7, <1>8 DEF Pair
<1>16. Pair[1] # NoElement \/ Pair[2] # NoElement
  <2>1. <<Leaf(top.line).o1, Leaf(top.line).o2>> \in DOMAIN scenario.pairs
    BY <1>5 DEF OpenLine
  <2>2. PICK j \in DOMAIN matched : Pair = matched[j]
    BY <1>15
  <2>3. PICK pair : pair = Pair
    OBVIOUS
  <2>4. pair[1] # NoElement \/ pair[2] # NoElement
    <3>1. PICK o1, o2 : o1 = Leaf(top.line).o1 /\ o2 = Leaf(top.line).o2
      OBVIOUS
    <3>2. <<o1, o2>> \in DOMAIN scenario.pairs /\ j \in DOMAIN scenario.pairs[<<o1, o2>>]
          /\ pair = scenario.pairs[<<o1, o2>>][j] /\ IsScenario(scenario)
      BY <2>1, <2>2, <2>3, <3>1, <1>1, <1>6
    <3> QED  BY <3>2, PairFacts
  <2> QED  BY <2>3, <2>4
<1>17. RootOf(Top.line)
  BY <1>1, <1>3 DEF Order
<1>18. ASSUME InWorker  PROVE ~Main(Top.line)
  BY <1>18, <1>1, <1>2, <1>3 DEF Order, Waiting
<1> QED  BY <1>1, <1>2, <1>3, <1>4, <1>5, <1>6, <1>11, <1>13, <1>14, <1>15, <1>16, <1>17, <1>18

(* A branch begins where its line does.                                    *)
LEMMA BranchRoot ==
  ASSUME NEW line \in LineType, line # <<>>, NEW pair, NEW dict, NEW new, IsBranch(new, line, pair, dict)
  PROVE  /\ new[1].o1 = line[1].o1 /\ new[1].o2 = line[1].o2 /\ new[1].dict = line[1].dict
         /\ new # <<>> /\ new \in LineType /\ Leaf(new).dict = dict
         /\ Main(new) <=> Main(line)
         /\ RootOf(line) => RootOf(new)
<1>1. PICK m \in Nat \ {0} : m = Len(line)
  BY LineFacts
<1>2. new[1].o1 = line[1].o1 /\ new[1].o2 = line[1].o2 /\ new[1].dict = line[1].dict
  BY <1>1 DEF IsBranch
<1>3. new # <<>> /\ new \in LineType /\ Leaf(new).dict = dict
  BY <1>1 DEF IsBranch
<1>4. (Main(new) <=> Main(line)) /\ (RootOf(line) => RootOf(new))
  BY <1>2 DEF Main, RootOf, RootIs
<1> QED  BY <1>2, <1>3, <1>4

(* What every step at a pair of items keeps of the lines and of their      *)
(* order.                                                                  *)
LEMMA PairStep ==
  ASSUME Inv, AtPair, NEW frame, GoodFrame(scenario, frame), Main(frame.line) <=> Main(Top.line),
         RootOf(frame.line), stack' = AtTop(frame), UNCHANGED <<scenario, change, phase>>,
         pending' # <<>> => RootOf(pending') /\ (InWorker => ~Main(pending')),
         OpenLine(scenario, pending')
  PROVE  /\ Lines' /\ Order'
         /\ \A h, f : (\A k \in DOMAIN stack : FrameConforms(h, f, stack[k])) /\ FrameConforms(h, f, frame)
              => \A k \in DOMAIN stack' : FrameConforms(h, f, stack'[k])
<1>1. /\ IsScenario(scenario) /\ Lines /\ Order /\ Walking /\ stack # <<>>
      /\ InWorker => ~Main(Top.line)
  BY AtPairFacts
<1>2. Frames(scenario, stack) /\ OpenLine(scenario, change)
  BY <1>1 DEF Lines
<1>3. PICK frames : frames = AtTop(frame) /\ stack' = frames
  OBVIOUS
<1>4. /\ Frames(scenario, frames)
      /\ frames[Len(stack)] = frame /\ DOMAIN frames = DOMAIN stack
      /\ \A k \in DOMAIN stack : k = Len(stack) \/ frames[k] = stack[k]
  BY <1>1, <1>2, <1>3, TopKeeps
<1>5. /\ \A k \in DOMAIN frames : RootOf(frames[k].line)
      /\ Nested(stack) => Nested(frames)
      /\ Waiting(stack) /\ (Main(frame.line) => frame.work = <<>>) => Waiting(frames)
  <2>1. \A k \in DOMAIN stack : RootOf(stack[k].line)
    BY <1>1 DEF Order
  <2> QED  BY <1>1, <1>2, <1>3, <2>1, TopKeepsOrder
<1>6. Lines'
  BY <1>1, <1>2, <1>3, <1>4 DEF Lines, InWorker
<1>7. Nested(frames) /\ (InWorker => Waiting(frames))
  BY <1>1, <1>5 DEF Order
<1>8. Order'
  <2>1. phase = "walk" /\ phase' = "walk"
    BY <1>1 DEF Walking
  <2> QED  BY <2>1, <1>3, <1>5, <1>7 DEF Order, InWorker, RootOf
<1>9. ASSUME NEW h, NEW f, \A k \in DOMAIN stack : FrameConforms(h, f, stack[k]), FrameConforms(h, f, frame)
      PROVE  \A k \in DOMAIN frames : FrameConforms(h, f, frames[k])
  BY <1>4, <1>9
<1> QED  BY <1>3, <1>6, <1>8, <1>9

(* The ledger, and how it is continued.                                    *)
LEMMA WalkLedger ==
  ASSUME Inv, Walking
  PROVE  fresh \in Nat \ {0} /\ \E g : Ledger(g, fresh) /\ PlainCache(g, fresh, cache)
<1>1. PICK g : Ledger(g, fresh) /\ CacheHolds(g)
  BY DEF Inv, Caches
<1>2. PlainCache(g, fresh, cache)
  BY <1>1 DEF CacheHolds, Walking
<1> QED  BY <1>1, <1>2 DEF Inv, Structure, Scene

(* A new dictionary may be for anything.                                   *)
LEMMA OneMore ==
  ASSUME Inv, Walking, NEW purpose
  PROVE  \E h : /\ h[fresh] = purpose
                /\ Ledger(h, fresh + 1) /\ PlainCache(h, fresh + 1, cache)
<1>1. PICK f \in Nat \ {0} : f = fresh
  BY WalkLedger
<1>2. PICK g : Ledger(g, f) /\ PlainCache(g, f, cache)
  BY <1>1, WalkLedger
<1>3. PICK h : h = [d \in 0 .. f |-> IF d = f THEN purpose ELSE g[d]]
  OBVIOUS
<1>4. h[f] = purpose /\ \A d \in 0 .. f - 1 : h[d] = g[d]
  BY <1>3
<1>5. Ledger(h, f + 1) /\ PlainCache(h, f + 1, cache)
  BY <1>2, <1>4, MoreLedger
<1> QED  BY <1>1, <1>4, <1>5

(* The two items of a pair are compared.                                   *)
LEMMA GoDeeperKeeps ==
  ASSUME Inv, GoDeeper
  PROVE  Inv'
<1>1. /\ AtPair /\ Pair[1] # NoElement /\ Pair[2] # NoElement /\ ~Moves /\ Walking
      /\ pending' = BranchDeeper(Top.line, Pair, fresh)
      /\ fresh' = fresh + 1 /\ stack' = AtTop(NextPair)
      /\ UNCHANGED <<scenario, change, phase, local, reports, plan, views, merged>>
  BY AtPairFacts DEF GoDeeper, Both
<1>2. /\ IsScenario(scenario) /\ Reports
      /\ GoodFrame(scenario, Top) /\ GoodFrame(scenario, NextPair)
      /\ NextPair.line = Top.line /\ NextPair.jobs = Top.jobs
      /\ RootOf(Top.line) /\ (InWorker => ~Main(Top.line))
      /\ Top = stack[Len(stack)] /\ Len(stack) \in DOMAIN stack
  BY <1>1, AtPairFacts
<1>3. PICK line \in LineType :
        /\ line = Top.line /\ line # <<>> /\ OpenLine(scenario, line)
        /\ AreCompared(Leaf(line).o1, Leaf(line).o2)
        /\ \E j \in DOMAIN scenario.pairs[<<Leaf(line).o1, Leaf(line).o2>>] :
             Pair = scenario.pairs[<<Leaf(line).o1, Leaf(line).o2>>][j]
  BY <1>1, AtPairFacts
<1>4. PICK pair : pair = Pair
  OBVIOUS
<1>5. PICK f \in Nat \ {0} : f = fresh
  BY <1>1, WalkLedger
<1>6. PICK new : new = BranchDeeper(line, pair, f) /\ IsBranch(new, line, pair, f)
  BY <1>2, <1>3, <1>4, BranchIsBranch
<1>7. OpenLine(scenario, new)
  <2>1. scenario.compare => pair[1] = pair[2]
    BY <1>1, <1>4 DEF Moves
  <2>2. PICK j \in DOMAIN scenario.pairs[<<Leaf(line).o1, Leaf(line).o2>>] :
          pair = scenario.pairs[<<Leaf(line).o1, Leaf(line).o2>>][j]
    BY <1>3, <1>4
  <2>3. \/ ~(/\ pair[1] # NoElement /\ pair[2] # NoElement
             /\ (scenario.compare => Leaf(line).moved \/ pair[1] = pair[2]))
        \/ OpenLine(scenario, new)
    <3>1. IsScenario(scenario) /\ OpenLine(scenario, line) /\ line # <<>> /\ AreCompared(Leaf(line).o1, Leaf(line).o2)
      BY <1>2, <1>3
    <3>2. IsBranch(new, line, pair, f) /\ f \in Nat
      BY <1>6
    <3> QED  BY <2>2, <3>1, <3>2, BranchIsGood
  <2> QED  BY <2>1, <2>3, <1>1, <1>4
<1>8. /\ new # <<>> /\ new \in LineType /\ (Main(new) <=> Main(line)) /\ (RootOf(line) => RootOf(new))
  BY <1>3, <1>6, BranchRoot
<1>9. pending' = new
  BY <1>1, <1>3, <1>4, <1>5, <1>6
<1>10. /\ Lines' /\ Order'
       /\ \A h, n : (\A k \in DOMAIN stack : FrameConforms(h, n, stack[k])) /\ FrameConforms(h, n, NextPair)
              => \A k \in DOMAIN stack' : FrameConforms(h, n, stack'[k])
  <2>1. PICK frame : frame = NextPair
    OBVIOUS
  <2>2. GoodFrame(scenario, frame) /\ (Main(frame.line) <=> Main(Top.line)) /\ RootOf(frame.line)
    BY <2>1, <1>2
  <2>3. pending' # <<>> => RootOf(pending') /\ (InWorker => ~Main(pending'))
    BY <1>2, <1>3, <1>8, <1>9
  <2>4. OpenLine(scenario, pending')
    BY <1>7, <1>9
  <2> QED  BY <1>1, <2>1, <2>2, <2>3, <2>4, PairStep
<1>11. PICK h : /\ h[f] = Purpose(new, Len(new), Role(new, Len(new), Walked))
                /\ Ledger(h, f + 1) /\ PlainCache(h, f + 1, cache)
  BY <1>1, <1>5, OneMore
<1>12. FrameConforms(h, f + 1, Top)
  BY <1>2, <1>11 DEF Ledger
<1>13. Conforms(h, f + 1, line, Walked) /\ FrameConforms(h, f + 1, NextPair)
  BY <1>2, <1>3, <1>12 DEF FrameConforms
<1>14. Conforms(h, f + 1, new, Walked)
  <2>1. f \in 0 .. (f + 1) - 1
    OBVIOUS
  <2> QED  BY <2>1, <1>3, <1>6, <1>11, <1>13, BranchConforms
<1>15. AnswersAreFresh' /\ cache' = cache
  BY NothingAsked DEF GoDeeper, Inv
<1>16. Ledger(h, fresh)'
  <2>1. \A k \in DOMAIN stack' : FrameConforms(h, f + 1, stack'[k])
    BY <1>10, <1>11, <1>13 DEF Ledger
  <2> QED  BY <1>1, <1>5, <1>9, <1>11, <1>14, <2>1 DEF Ledger
<1>17. CacheHolds(h)'
  BY <1>1, <1>5, <1>11, <1>15 DEF CacheHolds, Walking
<1>18. Reports'
  BY <1>1, <1>2 DEF Reports, InWorker
<1>19. Scene' /\ Planned' /\ ParentsFirst' /\ MergedAtOnePlace'
  <2>1. fresh' \in Nat \ {0}
    BY <1>1, <1>5
  <2> QED  BY <1>1, <2>1, WalkKeeps
<1> QED  BY <1>10, <1>15, <1>16, <1>17, <1>18, <1>19 DEF Inv, Structure, Caches

(* A report made at a pair of items.                                       *)
LEMMA PairReport ==
  ASSUME Inv, AtPair, NEW kind, NEW new, new # <<>>, RootOf(new), Main(new) <=> Main(Top.line),
         GoodReport(scenario, Report(kind, new)), Add(Report(kind, new)), UNCHANGED <<scenario, change, phase>>
  PROVE  /\ Reports'
         /\ \A h, f : Ledger(h, f) /\ Conforms(h, f, new, kind) =>
              /\ \A i \in DOMAIN reports' : Conforms(h, f, reports'[i].line, reports'[i].kind)
              /\ \A i \in DOMAIN local' : Conforms(h, f, local'[i].line, local'[i].kind)
<1>1. Reports /\ Walking /\ (InWorker => ~Main(new))
  BY AtPairFacts
<1>2. PICK report : report = Report(kind, new) /\ report.kind = kind /\ report.line = new
  <2>1. Report(kind, new).kind = kind /\ Report(kind, new).line = new
    BY DEF Report
  <2> QED  BY <2>1
<1>3. IF InWorker THEN RootIs(report.line, Leaf(change).o1, Leaf(change).o2)
                  ELSE RootIs(report.line, scenario.t1, scenario.t2)
  BY <1>1, <1>2, WhoseLine
<1>4. /\ Reports'
      /\ \A i \in DOMAIN reports' : reports'[i] = report \/ (i \in DOMAIN reports /\ reports'[i] = reports[i])
      /\ \A i \in DOMAIN local' : local'[i] = report \/ (i \in DOMAIN local /\ local'[i] = local[i])
  BY <1>1, <1>2, <1>3, AddKeeps
<1>5. ASSUME NEW h, NEW f, Ledger(h, f), Conforms(h, f, new, kind)
      PROVE  /\ \A i \in DOMAIN reports' : Conforms(h, f, reports'[i].line, reports'[i].kind)
             /\ \A i \in DOMAIN local' : Conforms(h, f, local'[i].line, local'[i].kind)
  <2>1. Conforms(h, f, report.line, report.kind)
    BY <1>2, <1>5
  <2>2. /\ \A i \in DOMAIN reports : Conforms(h, f, reports[i].line, reports[i].kind)
        /\ \A i \in DOMAIN local : Conforms(h, f, local[i].line, local[i].kind)
    BY <1>5 DEF Ledger
  <2> QED  BY <1>4, <2>1, <2>2, AddConforms
<1> QED  BY <1>4, <1>5

(* An item without a partner is reported.                                  *)
LEMMA ReportItemKeeps ==
  ASSUME Inv, ReportItem
  PROVE  Inv'
<1>1. /\ AtPair /\ (Pair[1] = NoElement \/ Pair[2] = NoElement) /\ Walking
      /\ fresh' = fresh + 1 /\ stack' = AtTop(NextPair)
      /\ UNCHANGED <<scenario, pending, change, phase, plan, views, merged>>
  BY AtPairFacts DEF ReportItem
<1>2. /\ IsScenario(scenario) /\ Lines /\ Order
      /\ GoodFrame(scenario, Top) /\ GoodFrame(scenario, NextPair)
      /\ NextPair.line = Top.line /\ NextPair.jobs = Top.jobs
      /\ RootOf(Top.line) /\ (InWorker => ~Main(Top.line))
      /\ Pair[1] # NoElement \/ Pair[2] # NoElement
      /\ Top = stack[Len(stack)] /\ Len(stack) \in DOMAIN stack
  BY <1>1, AtPairFacts
<1>3. PICK line \in LineType :
        /\ line = Top.line /\ line # <<>> /\ OpenLine(scenario, line)
        /\ AreCompared(Leaf(line).o1, Leaf(line).o2)
        /\ \E j \in DOMAIN scenario.pairs[<<Leaf(line).o1, Leaf(line).o2>>] :
             Pair = scenario.pairs[<<Leaf(line).o1, Leaf(line).o2>>][j]
  BY <1>1, AtPairFacts
<1>4. PICK pair : pair = Pair
  OBVIOUS
<1>5. PICK f \in Nat \ {0} : f = fresh
  BY <1>1, WalkLedger
<1>6. PICK new : new = BranchDeeper(line, pair, f) /\ IsBranch(new, line, pair, f)
  BY <1>2, <1>3, <1>4, BranchIsBranch
<1>7. GoodLine(scenario, new)
  <2>1. PICK j \in DOMAIN scenario.pairs[<<Leaf(line).o1, Leaf(line).o2>>] :
          pair = scenario.pairs[<<Leaf(line).o1, Leaf(line).o2>>][j]
    BY <1>3, <1>4
  <2> QED  BY <2>1, <1>2, <1>3, <1>6, BranchIsGood
<1>8. /\ new # <<>> /\ new \in LineType /\ (Main(new) <=> Main(line)) /\ (RootOf(line) => RootOf(new))
      /\ Leaf(new).dict = f
  BY <1>3, <1>6, BranchRoot
<1>9. PICK container : container = Kind(Leaf(line).o1)
  OBVIOUS
<1>10. PICK kind : kind = IF pair[1] = NoElement THEN AddedTo(container) ELSE RemovedFrom(container)
  OBVIOUS
<1>11. Ask(new, Path) /\ Add(Report(kind, new))
  BY <1>3, <1>4, <1>5, <1>6, <1>9, <1>10 DEF ReportItem
<1>12. GoodReport(scenario, Report(kind, new)) /\ kind # Moved
  <2>1. (pair[1] = NoElement \/ pair[2] = NoElement) /\ (pair[1] # NoElement \/ pair[2] # NoElement)
    BY <1>1, <1>2, <1>4
  <2> QED  BY <2>1, <1>3, <1>6, <1>7, <1>10, ItemIsGood
<1>13. /\ Reports'
       /\ \A h, n : Ledger(h, n) /\ Conforms(h, n, new, kind) =>
            /\ \A i \in DOMAIN reports' : Conforms(h, n, reports'[i].line, reports'[i].kind)
            /\ \A i \in DOMAIN local' : Conforms(h, n, local'[i].line, local'[i].kind)
  <2>1. RootOf(new) /\ (Main(new) <=> Main(Top.line))
    BY <1>2, <1>3, <1>8
  <2> QED  BY <2>1, <1>1, <1>8, <1>11, <1>12, PairReport
<1>14. /\ Lines' /\ Order'
       /\ \A h, n : (\A k \in DOMAIN stack : FrameConforms(h, n, stack[k])) /\ FrameConforms(h, n, NextPair)
              => \A k \in DOMAIN stack' : FrameConforms(h, n, stack'[k])
  <2>1. PICK frame : frame = NextPair
    OBVIOUS
  <2>2. GoodFrame(scenario, frame) /\ (Main(frame.line) <=> Main(Top.line)) /\ RootOf(frame.line)
    BY <2>1, <1>2
  <2>3. pending' = <<>> /\ OpenLine(scenario, pending')
    BY <1>1, NoLine DEF AtPair, Working
  <2> QED  BY <1>1, <2>1, <2>2, <2>3, PairStep
<1>15. PICK g : Ledger(g, f) /\ PlainCache(g, f, cache)
  BY <1>1, <1>5, WalkLedger
<1>16. PICK h : /\ h[f] = Purpose(new, Len(new), Role(new, Len(new), kind))
                /\ Ledger(h, f + 1) /\ PlainCache(h, f + 1, cache)
  BY <1>1, <1>5, OneMore
<1>17. FrameConforms(h, f + 1, Top)
  BY <1>2, <1>16 DEF Ledger
<1>18. Conforms(h, f + 1, line, Walked) /\ FrameConforms(h, f + 1, NextPair)
  BY <1>2, <1>3, <1>17 DEF FrameConforms
<1>19. Conforms(h, f + 1, new, kind)
  <2>1. f \in 0 .. (f + 1) - 1
    OBVIOUS
  <2> QED  BY <2>1, <1>3, <1>6, <1>16, <1>18, BranchConforms
<1>20. PlainCache(h, f + 1, cache') /\ AnswersAreFresh'
  <2>1. \A key \in DOMAIN cache : key[1] # Leaf(new).dict
    <3>1. \A key \in DOMAIN cache : key[1] # f
      BY <1>15, NewIsUnused
    <3> QED  BY <3>1, <1>8
  <2> QED  BY <2>1, <1>8, <1>11, <1>15, <1>16, <1>19, AskPath
<1>21. Ledger(h, fresh)'
  <2>1. \A k \in DOMAIN stack' : FrameConforms(h, f + 1, stack'[k])
    BY <1>14, <1>16, <1>18 DEF Ledger
  <2>2. /\ \A i \in DOMAIN reports' : Conforms(h, f + 1, reports'[i].line, reports'[i].kind)
        /\ \A i \in DOMAIN local' : Conforms(h, f + 1, local'[i].line, local'[i].kind)
    BY <1>13, <1>16, <1>19
  <2> QED  BY <1>1, <1>5, <1>16, <2>1, <2>2 DEF Ledger
<1>22. CacheHolds(h)'
  BY <1>1, <1>5, <1>20 DEF CacheHolds, Walking
<1>23. Scene' /\ Planned' /\ ParentsFirst' /\ MergedAtOnePlace'
  <2>1. fresh' \in Nat \ {0}
    BY <1>1, <1>5
  <2> QED  BY <1>1, <2>1, WalkKeeps
<1> QED  BY <1>13, <1>14, <1>20, <1>21, <1>22, <1>23 DEF Inv, Structure, Caches

(* A pair is left for the workers.                                         *)
LEMMA DeferKeeps ==
  ASSUME Inv, Defer
  PROVE  Inv'
<1>1. /\ AtPair /\ Pair[1] # NoElement /\ Pair[2] # NoElement /\ ~Moves /\ Walking
      /\ scenario.workers /\ ~InWorker
      /\ stack' = AtTop([NextPair EXCEPT !.jobs = Append(@, BranchDeeper(Top.line, Pair, fresh))])
      /\ fresh' = fresh + 1
      /\ UNCHANGED <<scenario, pending, change, phase, local, reports, plan, views, merged>>
  BY AtPairFacts DEF Defer, Both, Deferred, InWorker
<1>2. /\ IsScenario(scenario) /\ Reports
      /\ GoodFrame(scenario, Top) /\ GoodFrame(scenario, NextPair) /\ NextPair \in FrameType
      /\ NextPair.line = Top.line /\ NextPair.jobs = Top.jobs
      /\ RootOf(Top.line)
      /\ Top = stack[Len(stack)] /\ Len(stack) \in DOMAIN stack
  BY <1>1, AtPairFacts
<1>3. PICK line \in LineType :
        /\ line = Top.line /\ line # <<>> /\ OpenLine(scenario, line)
        /\ AreCompared(Leaf(line).o1, Leaf(line).o2)
        /\ \E j \in DOMAIN scenario.pairs[<<Leaf(line).o1, Leaf(line).o2>>] :
             Pair = scenario.pairs[<<Leaf(line).o1, Leaf(line).o2>>][j]
  BY <1>1, AtPairFacts
<1>4. PICK pair : pair = Pair
  OBVIOUS
<1>5. PICK f \in Nat \ {0} : f = fresh
  BY <1>1, WalkLedger
<1>6. PICK new : new = BranchDeeper(line, pair, f) /\ IsBranch(new, line, pair, f)
  BY <1>2, <1>3, <1>4, BranchIsBranch
<1>7. OpenLine(scenario, new)
  <2>1. scenario.compare => pair[1] = pair[2]
    BY <1>1, <1>4 DEF Moves
  <2>2. PICK j \in DOMAIN scenario.pairs[<<Leaf(line).o1, Leaf(line).o2>>] :
          pair = scenario.pairs[<<Leaf(line).o1, Leaf(line).o2>>][j]
    BY <1>3, <1>4
  <2>3. \/ ~(/\ pair[1] # NoElement /\ pair[2] # NoElement
             /\ (scenario.compare => Leaf(line).moved \/ pair[1] = pair[2]))
        \/ OpenLine(scenario, new)
    <3>1. IsScenario(scenario) /\ OpenLine(scenario, line) /\ line # <<>> /\ AreCompared(Leaf(line).o1, Leaf(line).o2)
      BY <1>2, <1>3
    <3>2. IsBranch(new, line, pair, f) /\ f \in Nat
      BY <1>6
    <3> QED  BY <2>2, <3>1, <3>2, BranchIsGood
  <2> QED  BY <2>1, <2>3, <1>1, <1>4
<1>8. /\ new # <<>> /\ new \in LineType /\ (Main(new) <=> Main(line)) /\ (RootOf(line) => RootOf(new))
  BY <1>3, <1>6, BranchRoot
<1>9. Main(new) /\ RootIs(new, scenario.t1, scenario.t2)
  BY <1>1, <1>2, <1>3, <1>8 DEF RootOf
<1>10. PICK next \in FrameType : /\ next = NextPair /\ GoodFrame(scenario, next)
                                 /\ next.line = line /\ next.jobs = Top.jobs
  BY <1>2, <1>3
<1>11. PICK frame \in FrameType :
         /\ frame = [next EXCEPT !.jobs = Append(@, new)]
         /\ frame.line = line /\ frame.work = next.work
         /\ \A i \in DOMAIN frame.jobs : frame.jobs[i] = new \/ (i \in DOMAIN next.jobs /\ frame.jobs[i] = next.jobs[i])
  <2>1. PICK jobs \in Seq(LineType) : jobs = next.jobs
    BY DEF FrameType
  <2>2. PICK more \in Seq(LineType) : more = Append(jobs, new)
    <3>1. Append(jobs, new) \in Seq(LineType)
      BY <1>8
    <3> QED  BY <3>1
  <2>3. \A i \in DOMAIN more : more[i] = new \/ (i \in DOMAIN jobs /\ more[i] = jobs[i])
    BY <2>2
  <2>4. PICK frame : frame = [next EXCEPT !.jobs = more]
    OBVIOUS
  <2>5. frame \in FrameType /\ frame.line = next.line /\ frame.work = next.work /\ frame.jobs = more
    BY <2>4 DEF FrameType
  <2>6. frame = [next EXCEPT !.jobs = Append(@, new)]
    BY <2>1, <2>2, <2>4
  <2>7. frame.line = line
    BY <2>5, <1>10
  <2>8. \A i \in DOMAIN frame.jobs : frame.jobs[i] = new \/ (i \in DOMAIN next.jobs /\ frame.jobs[i] = next.jobs[i])
    BY <2>1, <2>3, <2>5
  <2> QED  BY <2>5, <2>6, <2>7, <2>8
<1>12. GoodFrame(scenario, frame)
  <2>1. PICK matched : matched = scenario.pairs[<<Leaf(line).o1, Leaf(line).o2>>]
    OBVIOUS
  <2>2. \A i \in DOMAIN frame.work : \E j \in DOMAIN matched : frame.work[i] = matched[j]
    BY <2>1, <1>10, <1>11 DEF GoodFrame
  <2>3. \A i \in DOMAIN next.jobs :
          /\ next.jobs[i] # <<>> /\ OpenLine(scenario, next.jobs[i])
          /\ scenario.workers /\ next.jobs[i][1].dict = 0 /\ RootIs(next.jobs[i], scenario.t1, scenario.t2)
    BY <1>10 DEF GoodFrame
  <2>4. new[1].dict = 0
    BY <1>9 DEF Main
  <2>5. \A i \in DOMAIN frame.jobs :
          /\ frame.jobs[i] # <<>> /\ OpenLine(scenario, frame.jobs[i])
          /\ scenario.workers /\ frame.jobs[i][1].dict = 0 /\ RootIs(frame.jobs[i], scenario.t1, scenario.t2)
    BY <2>3, <2>4, <1>1, <1>7, <1>8, <1>9, <1>11
  <2> QED  BY <2>1, <2>2, <2>5, <1>3, <1>11 DEF GoodFrame
<1>13. stack' = AtTop(frame)
  BY <1>1, <1>3, <1>4, <1>5, <1>6, <1>10, <1>11
<1>14. /\ Lines' /\ Order'
       /\ \A h, n : (\A k \in DOMAIN stack : FrameConforms(h, n, stack[k])) /\ FrameConforms(h, n, frame)
              => \A k \in DOMAIN stack' : FrameConforms(h, n, stack'[k])
  <2>1. (Main(frame.line) <=> Main(Top.line)) /\ RootOf(frame.line)
    BY <1>2, <1>3, <1>11
  <2>2. pending' = <<>> /\ OpenLine(scenario, pending')
    BY <1>1, NoLine DEF AtPair, Working
  <2> QED  BY <1>1, <1>12, <1>13, <2>1, <2>2, PairStep
<1>15. PICK h : /\ h[f] = Purpose(new, Len(new), Role(new, Len(new), Walked))
                /\ Ledger(h, f + 1) /\ PlainCache(h, f + 1, cache)
  BY <1>1, <1>5, OneMore
<1>16. FrameConforms(h, f + 1, Top)
  BY <1>2, <1>15 DEF Ledger
<1>17. Conforms(h, f + 1, line, Walked)
  BY <1>3, <1>16 DEF FrameConforms
<1>18. Conforms(h, f + 1, new, Walked)
  <2>1. f \in 0 .. (f + 1) - 1
    OBVIOUS
  <2> QED  BY <2>1, <1>3, <1>6, <1>15, <1>17, BranchConforms
<1>19. FrameConforms(h, f + 1, frame)
  BY <1>10, <1>11, <1>16, <1>17, <1>18 DEF FrameConforms
<1>20. AnswersAreFresh' /\ cache' = cache
  BY NothingAsked DEF Defer, Inv
<1>21. Ledger(h, fresh)'
  <2>1. \A k \in DOMAIN stack' : FrameConforms(h, f + 1, stack'[k])
    BY <1>14, <1>15, <1>19 DEF Ledger
  <2> QED  BY <1>1, <1>5, <1>15, <2>1 DEF Ledger
<1>22. CacheHolds(h)'
  BY <1>1, <1>5, <1>15, <1>20 DEF CacheHolds, Walking
<1>23. Reports'
  BY <1>1, <1>2 DEF Reports, InWorker
<1>24. Scene' /\ Planned' /\ ParentsFirst' /\ MergedAtOnePlace'
  <2>1. fresh' \in Nat \ {0}
    BY <1>1, <1>5
  <2> QED  BY <1>1, <2>1, WalkKeeps
<1> QED  BY <1>14, <1>20, <1>21, <1>22, <1>23, <1>24 DEF Inv, Structure, Caches

(* The level above a move is marked.                                       *)
LEMMA MarkedNode ==
  ASSUME NEW l \in NodeType
  PROVE  LET m == [l EXCEPT !.moved = TRUE]
         IN  /\ m \in NodeType /\ m.moved
             /\ m.o1 = l.o1 /\ m.o2 = l.o2 /\ m.class = l.class
             /\ m.p1 = l.p1 /\ m.p2 = l.p2 /\ m.dict = l.dict
  BY DEF NodeType

(* Another node for the same objects, marked as moved, in place of the     *)
(* last one.                                                               *)
LEMMA MarkedEnd ==
  ASSUME NEW s, s.compare, NEW line, OpenLine(s, line), line # <<>>,
         NEW end \in NodeType, end.moved, end.o1 = Leaf(line).o1, end.o2 = Leaf(line).o2, end.dict = Leaf(line).dict,
         NEW new, new = [line EXCEPT ![Len(line)] = end]
  PROVE  /\ OpenLine(s, new) /\ new # <<>> /\ new \in LineType
         /\ Leaf(new).o1 = Leaf(line).o1 /\ Leaf(new).o2 = Leaf(line).o2 /\ Leaf(new).moved
         /\ new[1].o1 = line[1].o1 /\ new[1].o2 = line[1].o2 /\ new[1].dict = line[1].dict
         /\ \A g, f : Conforms(g, f, line, Walked) => Conforms(g, f, new, Walked)
<1>1. line \in LineType /\ GoodLine(s, line)
  BY DEF OpenLine, GoodLine
<1>2. PICK m \in Nat \ {0} : m = Len(line)
  BY <1>1, LineFacts
<1>3. PICK l \in NodeType : l = line[m]
  BY <1>1, <1>2, LineFacts
<1>4. end.o1 = l.o1 /\ end.o2 = l.o2 /\ end.dict = l.dict
  BY <1>2, <1>3 DEF Leaf
<1>5. new = [line EXCEPT ![m] = end]
  BY <1>2
<1>6. new \in LineType /\ Len(new) = m /\ new # <<>>
  BY <1>1, <1>2, <1>5 DEF LineType
<1>7. new[m] = end /\ \A i \in 1 .. m - 1 : new[i] = line[i]
  BY <1>1, <1>2, <1>5 DEF LineType
<1>8. \A i \in 1 .. m : new[i].o1 = line[i].o1 /\ new[i].o2 = line[i].o2 /\ new[i].dict = line[i].dict
  BY <1>3, <1>4, <1>7
<1>9. Leaf(new) = end /\ Leaf(line) = l
  BY <1>2, <1>3, <1>6, <1>7 DEF Leaf
<1>10. ASSUME NEW n \in 1 .. m - 1  PROVE IsAbove(s, new[n], new[n + 1]) /\ IsPassed(s, new[n])
  <2>1. IsAbove(s, line[n], line[n + 1]) /\ IsPassed(s, line[n])
    BY <1>2 DEF OpenLine, GoodLine
  <2>2. n + 1 \in 1 .. m
    BY <1>2
  <2>3. new[n] = line[n] /\ new[n + 1].o1 = line[n + 1].o1 /\ new[n + 1].o2 = line[n + 1].o2
    BY <2>2, <1>7, <1>8
  <2> QED  BY <2>1, <2>3 DEF IsAbove
<1>11. GoodLine(s, new)
  <2>1. new[1].o1 \in Present /\ new[1].o2 \in Present
    BY <1>1, <1>2, <1>8 DEF GoodLine
  <2>2. ASSUME NEW n \in 1 .. Len(new) - 2  PROVE IsPassed(s, new[n])
    <3>1. n \in 1 .. m - 1
      BY <1>6
    <3> QED  BY <3>1, <1>10
  <2>3. \A n \in 1 .. Len(new) - 1 : IsAbove(s, new[n], new[n + 1])
    BY <1>2, <1>6, <1>10
  <2> QED  BY <2>1, <2>2, <2>3, <1>6 DEF GoodLine
<1>12. OpenLine(s, new)
  <2>1. \A n \in 1 .. Len(new) - 1 : IsPassed(s, new[n])
    BY <1>6, <1>10
  <2>2. /\ l.o1 \in Present /\ l.o2 \in Present
        /\ AreCompared(l.o1, l.o2) => <<l.o1, l.o2>> \in DOMAIN s.pairs
    BY <1>9 DEF OpenLine
  <2>3. /\ Leaf(new).o1 \in Present /\ Leaf(new).o2 \in Present
        /\ AreCompared(Leaf(new).o1, Leaf(new).o2) => <<Leaf(new).o1, Leaf(new).o2>> \in DOMAIN s.pairs
    BY <2>2, <1>4, <1>9
  <2> QED  BY <2>1, <2>3, <1>11 DEF OpenLine
<1>13. ASSUME NEW g, NEW f, Conforms(g, f, line, Walked)  PROVE Conforms(g, f, new, Walked)
  <2>1. ASSUME NEW n \in 1 .. m  PROVE Purpose(new, n, Walked) = Purpose(line, n, Walked)
    <3>1. \A i \in 1 .. n - 1 : new[i] = line[i]
      BY <1>7
    <3>2. Relations(new, n) = Relations(line, n)
      BY <3>1 DEF Relations
    <3>3. n > 1 => new[n - 1] = line[n - 1]
      BY <1>2, <1>7
    <3>4. Own(new, n) = Own(line, n)
      BY <3>3, <1>8 DEF Own
    <3> QED  BY <3>2, <3>4 DEF Purpose
  <2>2. \A n : Role(line, n, Walked) = Walked /\ Role(new, n, Walked) = Walked
    BY DEF Role
  <2>3. ASSUME NEW n \in 1 .. m
        PROVE  new[n].dict \in 0 .. f - 1 /\ g[new[n].dict] = Purpose(new, n, Role(new, n, Walked))
    <3>1. line[n].dict \in 0 .. f - 1 /\ g[line[n].dict] = Purpose(line, n, Role(line, n, Walked))
      BY <1>2, <1>13 DEF Conforms
    <3> QED  BY <3>1, <2>1, <2>2, <1>8
  <2> QED  BY <2>3, <1>6 DEF Conforms
<1>14. new[1].o1 = line[1].o1 /\ new[1].o2 = line[1].o2 /\ new[1].dict = line[1].dict
  BY <1>2, <1>8
<1>15. Leaf(new).o1 = Leaf(line).o1 /\ Leaf(new).o2 = Leaf(line).o2 /\ Leaf(new).moved
  BY <1>4, <1>9
<1> QED  BY <1>6, <1>12, <1>13, <1>14, <1>15

(* Marking the last level changes nothing else of a line.                  *)
LEMMA MarkedLine ==
  ASSUME NEW s, s.compare, NEW line, OpenLine(s, line), line # <<>>
  PROVE  \E new :
           /\ new = Marked(line)
           /\ OpenLine(s, new) /\ new # <<>> /\ new \in LineType
           /\ Leaf(new).o1 = Leaf(line).o1 /\ Leaf(new).o2 = Leaf(line).o2 /\ Leaf(new).moved
           /\ new[1].o1 = line[1].o1 /\ new[1].o2 = line[1].o2 /\ new[1].dict = line[1].dict
           /\ \A g, f : Conforms(g, f, line, Walked) => Conforms(g, f, new, Walked)
<1>1. line \in LineType
  BY DEF OpenLine, GoodLine
<1>2. PICK end \in NodeType :
        /\ end.moved /\ end.o1 = Leaf(line).o1 /\ end.o2 = Leaf(line).o2 /\ end.dict = Leaf(line).dict
        /\ Marked(line) = [line EXCEPT ![Len(line)] = end]
  <2>1. PICK end \in NodeType :
          /\ end = [line[Len(line)] EXCEPT !.moved = TRUE]
          /\ end.moved /\ end.o1 = Leaf(line).o1 /\ end.o2 = Leaf(line).o2 /\ end.dict = Leaf(line).dict
    BY <1>1, LineFacts, MarkedNode
  <2>2. Marked(line) = [line EXCEPT ![Len(line)] = end]
    BY <2>1 DEF Marked
  <2> QED  BY <2>1, <2>2
<1>3. PICK new : new = Marked(line) /\ new = [line EXCEPT ![Len(line)] = end]
  BY <1>2
<1>4. /\ OpenLine(s, new) /\ new # <<>> /\ new \in LineType
      /\ Leaf(new).o1 = Leaf(line).o1 /\ Leaf(new).o2 = Leaf(line).o2 /\ Leaf(new).moved
      /\ new[1].o1 = line[1].o1 /\ new[1].o2 = line[1].o2 /\ new[1].dict = line[1].dict
      /\ \A g, f : Conforms(g, f, line, Walked) => Conforms(g, f, new, Walked)
  BY <1>2, <1>3, MarkedEnd
<1> QED  BY <1>3, <1>4

(* Two new dictionaries may be for anything.                               *)
LEMMA TwoMore ==
  ASSUME Inv, Walking, NEW purpose, NEW other
  PROVE  \E h : /\ h[fresh] = purpose /\ h[fresh + 1] = other
                /\ Ledger(h, fresh + 2) /\ PlainCache(h, fresh + 2, cache)
<1>1. PICK f \in Nat \ {0} : f = fresh
  BY WalkLedger
<1>2. PICK g : Ledger(g, f) /\ PlainCache(g, f, cache)
  BY <1>1, WalkLedger
<1>3. PICK h : h = [d \in 0 .. f + 1 |-> IF d = f THEN purpose ELSE IF d = f + 1 THEN other ELSE g[d]]
  OBVIOUS
<1>4. h[f] = purpose /\ h[f + 1] = other /\ \A d \in 0 .. f - 1 : h[d] = g[d]
  BY <1>3
<1>5. Ledger(h, f + 2) /\ PlainCache(h, f + 2, cache)
  BY <1>2, <1>4, MoreLedger
<1> QED  BY <1>1, <1>4, <1>5

(* A move is reported, and the level above is marked for what follows.     *)
LEMMA ReportMoveKeeps ==
  ASSUME Inv, ReportMove
  PROVE  Inv'
<1> DEFINE mark == Marked(Top.line)
<1>1. /\ AtPair /\ Pair[1] # NoElement /\ Pair[2] # NoElement /\ scenario.compare /\ Walking
      /\ Ask(BranchDeeper(Top.line, Pair, fresh), Path)
      /\ Add(Report(Moved, BranchDeeper(Top.line, Pair, fresh)))
      /\ pending' = BranchDeeper(mark, Pair, fresh + 1)
      /\ stack' = AtTop([NextPair EXCEPT !.line = mark])
      /\ fresh' = fresh + 2
      /\ UNCHANGED <<scenario, change, phase, plan, views, merged>>
  BY AtPairFacts DEF ReportMove, Both, Moves, Moved
<1>2. /\ IsScenario(scenario) /\ Lines
      /\ GoodFrame(scenario, Top) /\ GoodFrame(scenario, NextPair) /\ NextPair \in FrameType
      /\ NextPair.line = Top.line /\ NextPair.jobs = Top.jobs
      /\ RootOf(Top.line) /\ (InWorker => ~Main(Top.line))
      /\ Top = stack[Len(stack)] /\ Len(stack) \in DOMAIN stack
  BY <1>1, AtPairFacts
<1>3. PICK line \in LineType :
        /\ line = Top.line /\ line # <<>> /\ OpenLine(scenario, line)
        /\ AreCompared(Leaf(line).o1, Leaf(line).o2)
        /\ \E j \in DOMAIN scenario.pairs[<<Leaf(line).o1, Leaf(line).o2>>] :
             Pair = scenario.pairs[<<Leaf(line).o1, Leaf(line).o2>>][j]
  BY <1>1, AtPairFacts
<1>4. PICK pair : pair = Pair
  OBVIOUS
<1>5. PICK f \in Nat \ {0} : f = fresh
  BY <1>1, WalkLedger
<1>6. PICK new : new = BranchDeeper(line, pair, f) /\ IsBranch(new, line, pair, f)
  BY <1>2, <1>3, <1>4, BranchIsBranch
<1>7. PICK j \in DOMAIN scenario.pairs[<<Leaf(line).o1, Leaf(line).o2>>] :
        pair = scenario.pairs[<<Leaf(line).o1, Leaf(line).o2>>][j]
  BY <1>3, <1>4
<1>8. GoodReport(scenario, Report(Moved, new))
  <2>1. GoodLine(scenario, new)
    BY <1>2, <1>3, <1>6, <1>7, BranchIsGood
  <2> QED  BY <2>1, <1>1, <1>3, <1>6, MoveIsGood
<1>9. /\ new # <<>> /\ new \in LineType /\ (Main(new) <=> Main(line)) /\ RootOf(new)
      /\ Leaf(new).dict = f
  BY <1>2, <1>3, <1>6, BranchRoot
<1>10. PICK marked :
         /\ marked = mark
         /\ OpenLine(scenario, marked) /\ marked # <<>> /\ marked \in LineType
         /\ Leaf(marked).o1 = Leaf(line).o1 /\ Leaf(marked).o2 = Leaf(line).o2 /\ Leaf(marked).moved
         /\ marked[1].o1 = line[1].o1 /\ marked[1].o2 = line[1].o2 /\ marked[1].dict = line[1].dict
         /\ \A g, n : Conforms(g, n, line, Walked) => Conforms(g, n, marked, Walked)
  BY <1>1, <1>3, MarkedLine
<1> HIDE DEF mark
<1>11. (Main(marked) <=> Main(line)) /\ RootOf(marked)
  BY <1>2, <1>3, <1>10 DEF Main, RootOf, RootIs
<1>12. /\ AreCompared(Leaf(marked).o1, Leaf(marked).o2)
       /\ j \in DOMAIN scenario.pairs[<<Leaf(marked).o1, Leaf(marked).o2>>]
       /\ pair = scenario.pairs[<<Leaf(marked).o1, Leaf(marked).o2>>][j]
  BY <1>3, <1>7, <1>10
<1>13. PICK next : next = BranchDeeper(marked, pair, f + 1) /\ IsBranch(next, marked, pair, f + 1)
  BY <1>2, <1>10, <1>12, BranchIsBranch
<1>14. OpenLine(scenario, next)
  <2>1. \/ ~(/\ pair[1] # NoElement /\ pair[2] # NoElement
             /\ (scenario.compare => Leaf(marked).moved \/ pair[1] = pair[2]))
        \/ OpenLine(scenario, next)
    BY <1>2, <1>10, <1>12, <1>13, BranchIsGood
  <2> QED  BY <2>1, <1>1, <1>4, <1>10
<1>15. /\ next # <<>> /\ next \in LineType /\ (Main(next) <=> Main(line)) /\ RootOf(next)
  BY <1>10, <1>11, <1>13, BranchRoot
<1>16. PICK frame \in FrameType :
         /\ frame = [NextPair EXCEPT !.line = mark]
         /\ frame.line = marked /\ frame.work = NextPair.work /\ frame.jobs = NextPair.jobs
  <2>1. PICK rest \in FrameType : rest = NextPair
    BY <1>2
  <2>2. PICK frame : frame = [rest EXCEPT !.line = marked]
    OBVIOUS
  <2>3. frame \in FrameType /\ frame.line = marked /\ frame.work = rest.work /\ frame.jobs = rest.jobs
    BY <2>2, <1>10 DEF FrameType
  <2> QED  BY <2>1, <2>2, <2>3, <1>10
<1>17. GoodFrame(scenario, frame)
  <2>1. PICK matched : matched = scenario.pairs[<<Leaf(line).o1, Leaf(line).o2>>]
    OBVIOUS
  <2>2. PICK rest : rest = NextPair /\ rest.line = line /\ GoodFrame(scenario, rest)
    BY <1>2, <1>3
  <2>3. \A i \in DOMAIN frame.work : \E k \in DOMAIN matched : frame.work[i] = matched[k]
    BY <2>1, <2>2, <1>16 DEF GoodFrame
  <2>4. \A i \in DOMAIN frame.jobs :
          /\ frame.jobs[i] # <<>> /\ OpenLine(scenario, frame.jobs[i])
          /\ scenario.workers /\ frame.jobs[i][1].dict = 0 /\ RootIs(frame.jobs[i], scenario.t1, scenario.t2)
    BY <2>2, <1>16 DEF GoodFrame
  <2>5. matched = scenario.pairs[<<Leaf(frame.line).o1, Leaf(frame.line).o2>>]
    BY <2>1, <1>10, <1>16
  <2>6. /\ frame.line # <<>> /\ OpenLine(scenario, frame.line)
        /\ AreCompared(Leaf(frame.line).o1, Leaf(frame.line).o2)
    BY <1>10, <1>12, <1>16
  <2> QED  BY <2>3, <2>4, <2>5, <2>6 DEF GoodFrame
<1>18. pending' = next /\ stack' = AtTop(frame) /\ Ask(new, Path) /\ Add(Report(Moved, new))
  BY <1>1, <1>3, <1>4, <1>5, <1>6, <1>10, <1>13, <1>16
<1>19. /\ Reports'
       /\ \A h, n : Ledger(h, n) /\ Conforms(h, n, new, Moved) =>
            /\ \A i \in DOMAIN reports' : Conforms(h, n, reports'[i].line, reports'[i].kind)
            /\ \A i \in DOMAIN local' : Conforms(h, n, local'[i].line, local'[i].kind)
  <2>1. Main(new) <=> Main(Top.line)
    BY <1>3, <1>9
  <2> QED  BY <2>1, <1>1, <1>8, <1>9, <1>18, PairReport
<1>20. /\ Lines' /\ Order'
       /\ \A h, n : (\A k \in DOMAIN stack : FrameConforms(h, n, stack[k])) /\ FrameConforms(h, n, frame)
              => \A k \in DOMAIN stack' : FrameConforms(h, n, stack'[k])
  <2>1. (Main(frame.line) <=> Main(Top.line)) /\ RootOf(frame.line)
    BY <1>3, <1>11, <1>16
  <2>2. pending' # <<>> => RootOf(pending') /\ (InWorker => ~Main(pending'))
    BY <1>2, <1>3, <1>15, <1>18
  <2>3. OpenLine(scenario, pending')
    BY <1>14, <1>18
  <2> QED  BY <1>1, <1>17, <1>18, <2>1, <2>2, <2>3, PairStep
<1>21. PICK g : Ledger(g, f) /\ PlainCache(g, f, cache)
  BY <1>1, <1>5, WalkLedger
<1>22. PICK h : /\ h[f] = Purpose(new, Len(new), Role(new, Len(new), Moved))
                /\ h[f + 1] = Purpose(next, Len(next), Role(next, Len(next), Walked))
                /\ Ledger(h, f + 2) /\ PlainCache(h, f + 2, cache)
  BY <1>1, <1>5, TwoMore
<1>23. FrameConforms(h, f + 2, Top)
  BY <1>2, <1>22 DEF Ledger
<1>24. Conforms(h, f + 2, line, Walked) /\ Conforms(h, f + 2, marked, Walked) /\ FrameConforms(h, f + 2, frame)
  BY <1>2, <1>3, <1>10, <1>16, <1>23 DEF FrameConforms
<1>25. f \in 0 .. (f + 2) - 1 /\ f + 1 \in 0 .. (f + 2) - 1
  OBVIOUS
<1>26. Conforms(h, f + 2, new, Moved)
  BY <1>3, <1>6, <1>22, <1>24, <1>25, BranchConforms
<1>27. Conforms(h, f + 2, next, Walked)
  BY <1>10, <1>13, <1>22, <1>24, <1>25, BranchConforms
<1>28. PlainCache(h, f + 2, cache') /\ AnswersAreFresh'
  <2>1. \A key \in DOMAIN cache : key[1] # Leaf(new).dict
    <3>1. \A key \in DOMAIN cache : key[1] # f
      BY <1>21, NewIsUnused
    <3> QED  BY <3>1, <1>9
  <2> QED  BY <2>1, <1>9, <1>18, <1>21, <1>22, <1>26, AskPath
<1>29. Ledger(h, fresh)'
  <2>1. \A k \in DOMAIN stack' : FrameConforms(h, f + 2, stack'[k])
    BY <1>20, <1>22, <1>24 DEF Ledger
  <2>2. /\ \A i \in DOMAIN reports' : Conforms(h, f + 2, reports'[i].line, reports'[i].kind)
        /\ \A i \in DOMAIN local' : Conforms(h, f + 2, local'[i].line, local'[i].kind)
    BY <1>19, <1>22, <1>26
  <2> QED  BY <1>1, <1>5, <1>18, <1>22, <1>27, <2>1, <2>2 DEF Ledger
<1>30. CacheHolds(h)'
  BY <1>1, <1>5, <1>28 DEF CacheHolds, Walking
<1>31. Scene' /\ Planned' /\ ParentsFirst' /\ MergedAtOnePlace'
  <2>1. fresh' \in Nat \ {0}
    BY <1>1, <1>5
  <2> QED  BY <1>1, <2>1, WalkKeeps
<1> QED  BY <1>19, <1>20, <1>28, <1>29, <1>30, <1>31 DEF Inv, Structure, Caches

(* The level of a job is where the worker starts.                          *)
LEMMA StartedLine ==
  ASSUME NEW s, NEW job, OpenLine(s, job), job # <<>>, NEW f \in Nat
  PROVE  \E new : /\ new = <<Node(Leaf(job).o1, Leaf(job).o2, f)>>
                  /\ OpenLine(s, new) /\ new # <<>> /\ Len(new) = 1 /\ new[1].dict = f
                  /\ RootIs(new, Leaf(job).o1, Leaf(job).o2)
<1>1. PICK o1 \in Things, o2 \in Things : o1 = Leaf(job).o1 /\ o2 = Leaf(job).o2 /\ o1 \in Present /\ o2 \in Present
  BY DEF OpenLine, Things
<1>2. AreCompared(o1, o2) => <<o1, o2>> \in DOMAIN s.pairs
  BY <1>1 DEF OpenLine
<1>3. PICK node \in NodeType : /\ node = Node(o1, o2, f)
                               /\ node.o1 = o1 /\ node.o2 = o2 /\ ~node.moved /\ node.dict = f
  BY NewNode
<1>4. PICK new : new = <<node>>
  OBVIOUS
<1>5. new \in LineType /\ Len(new) = 1 /\ new[1] = node /\ new # <<>>
  BY <1>4 DEF LineType
<1>6. Leaf(new) = node
  BY <1>5 DEF Leaf
<1>7. GoodLine(s, new)
  BY <1>1, <1>3, <1>5 DEF GoodLine
<1>8. OpenLine(s, new)
  BY <1>1, <1>2, <1>3, <1>5, <1>6, <1>7 DEF OpenLine
<1>9. RootIs(new, o1, o2) /\ new[1].dict = f
  BY <1>3, <1>5 DEF RootIs
<1> QED  BY <1>1, <1>3, <1>4, <1>5, <1>8, <1>9

(* A worker begins with the two items of a pair.                           *)
LEMMA StartJobKeeps ==
  ASSUME Inv, StartJob
  PROVE  Inv'
<1>1. /\ Walking /\ stack # <<>> /\ pending = <<>> /\ Top.work = <<>> /\ Top.jobs # <<>> /\ ~InWorker
      /\ change' = Head(Top.jobs)
      /\ pending' = <<Node(Leaf(Head(Top.jobs)).o1, Leaf(Head(Top.jobs)).o2, fresh)>>
      /\ fresh' = fresh + 1
      /\ stack' = AtTop([Top EXCEPT !.jobs = Tail(@)])
      /\ UNCHANGED <<scenario, phase, local, reports, plan, views, merged>>
  BY DEF StartJob, Working, InWorker
<1>2. IsScenario(scenario) /\ Lines /\ Reports /\ Order
  BY DiffTreeAssumption DEF Inv, Structure, Scene
<1>3. Top = stack[Len(stack)] /\ Len(stack) \in DOMAIN stack /\ Frames(scenario, stack)
  BY <1>1, <1>2, LastReplaced DEF Lines, Frames, Top
<1>4. PICK top \in FrameType : top = Top /\ GoodFrame(scenario, top)
  BY <1>3 DEF Frames, GoodFrame
<1>5. PICK jobs \in Seq(LineType) : jobs = top.jobs /\ jobs # <<>>
  BY <1>1, <1>4 DEF FrameType
<1>6. PICK job : job = Head(jobs) /\ \E i \in DOMAIN jobs : job = jobs[i]
  <2>1. 1 \in DOMAIN jobs /\ Head(jobs) = jobs[1]
    BY <1>5
  <2> QED  BY <2>1
<1>7. PICK rest \in Seq(LineType) : rest = Tail(jobs) /\ \A i \in DOMAIN rest : \E k \in DOMAIN jobs : rest[i] = jobs[k]
  <2>1. Tail(jobs) \in Seq(LineType) /\ DOMAIN Tail(jobs) = 1 .. Len(jobs) - 1
    BY <1>5
  <2>2. ASSUME NEW i \in 1 .. Len(jobs) - 1  PROVE i + 1 \in DOMAIN jobs /\ Tail(jobs)[i] = jobs[i + 1]
    BY <1>5
  <2> QED  BY <2>1, <2>2
<1>8. \A i \in DOMAIN jobs :
        /\ jobs[i] # <<>> /\ OpenLine(scenario, jobs[i])
        /\ scenario.workers /\ jobs[i][1].dict = 0 /\ RootIs(jobs[i], scenario.t1, scenario.t2)
  BY <1>4, <1>5 DEF GoodFrame
<1>9. /\ job # <<>> /\ OpenLine(scenario, job) /\ scenario.workers
      /\ job[1].dict = 0 /\ RootIs(job, scenario.t1, scenario.t2)
  BY <1>6, <1>8
<1>10. PICK frame \in FrameType : /\ frame = [top EXCEPT !.jobs = rest]
                                  /\ frame.line = top.line /\ frame.work = <<>> /\ frame.jobs = rest
  <2>1. PICK frame : frame = [top EXCEPT !.jobs = rest]
    OBVIOUS
  <2>2. frame \in FrameType /\ frame.line = top.line /\ frame.work = top.work /\ frame.jobs = rest
    BY <2>1 DEF FrameType
  <2> QED  BY <2>1, <2>2, <1>1, <1>4
<1>11. GoodFrame(scenario, frame)
  <2>1. \A i \in DOMAIN frame.jobs :
          /\ frame.jobs[i] # <<>> /\ OpenLine(scenario, frame.jobs[i])
          /\ scenario.workers /\ frame.jobs[i][1].dict = 0 /\ RootIs(frame.jobs[i], scenario.t1, scenario.t2)
    BY <1>7, <1>8, <1>10
  <2>2. DOMAIN frame.work = {}
    BY <1>10
  <2>3. /\ frame.line # <<>> /\ OpenLine(scenario, frame.line)
        /\ AreCompared(Leaf(frame.line).o1, Leaf(frame.line).o2)
    BY <1>4, <1>10 DEF GoodFrame
  <2> QED  BY <2>1, <2>2, <2>3 DEF GoodFrame
<1>12. PICK f \in Nat \ {0} : f = fresh
  BY <1>1, WalkLedger
<1>13. PICK new : /\ new = <<Node(Leaf(job).o1, Leaf(job).o2, f)>>
                  /\ OpenLine(scenario, new) /\ new # <<>> /\ Len(new) = 1 /\ new[1].dict = f
                  /\ RootIs(new, Leaf(job).o1, Leaf(job).o2)
  BY <1>9, StartedLine
<1>14. change' = job /\ pending' = new /\ stack' = AtTop(frame) /\ InWorker'
  <2>1. change' = job /\ pending' = new /\ stack' = AtTop(frame)
    BY <1>1, <1>4, <1>5, <1>6, <1>7, <1>10, <1>12, <1>13
  <2> QED  BY <2>1, <1>9 DEF InWorker
<1>15. \A k \in DOMAIN stack : Main(stack[k].line) /\ RootOf(stack[k].line)
  BY <1>1, <1>2 DEF Order, RootOf
<1>16. PICK frames :
         /\ frames = AtTop(frame)
         /\ Frames(scenario, frames) /\ Len(frames) = Len(stack) /\ frames # <<>>
         /\ frames[Len(stack)] = frame
         /\ DOMAIN frames = DOMAIN stack /\ DOMAIN stack = 1 .. Len(stack)
         /\ \A k \in DOMAIN stack : k = Len(stack) \/ frames[k] = stack[k]
         /\ \A k \in DOMAIN stack : Main(frames[k].line) <=> Main(stack[k].line)
  <2>1. PICK frames : frames = AtTop(frame)
    OBVIOUS
  <2>2. Main(frame.line) <=> Main(Top.line)
    BY <1>4, <1>10
  <2>3. /\ Frames(scenario, frames) /\ Len(frames) = Len(stack) /\ frames # <<>>
        /\ frames[Len(stack)] = frame
        /\ DOMAIN frames = DOMAIN stack /\ DOMAIN stack = 1 .. Len(stack)
        /\ \A k \in DOMAIN stack : k = Len(stack) \/ frames[k] = stack[k]
        /\ \A k \in DOMAIN stack : Main(frames[k].line) <=> Main(stack[k].line)
    BY <2>1, <2>2, <1>1, <1>3, <1>11, TopKeeps
  <2> QED  BY <2>1, <2>3
<1>17. \A k \in DOMAIN frames : Main(frames[k].line)
  BY <1>15, <1>16
<1>18. \A k \in DOMAIN frames : RootIs(frames[k].line, scenario.t1, scenario.t2)
  <2>1. \A k \in DOMAIN stack : RootIs(stack[k].line, scenario.t1, scenario.t2)
    BY <1>15 DEF RootOf
  <2>2. RootIs(frame.line, scenario.t1, scenario.t2)
    BY <2>1, <1>3, <1>4, <1>10
  <2> QED  BY <2>1, <2>2, <1>16
<1>19. Nested(frames)
  BY <1>17 DEF Nested
<1>20. Waiting(frames)
  <2>1. 1 \in DOMAIN frames
    BY <1>3, <1>16, LastReplaced DEF Frames
  <2>2. \A k \in DOMAIN frames : (k = Len(frames) \/ ~Main(frames[k + 1].line)) => frames[k].work = <<>>
    <3> TAKE k \in DOMAIN frames
    <3>1. PICK n \in Nat \ {0} : n = Len(frames) /\ DOMAIN frames = 1 .. n
      BY <1>16, LastReplaced DEF Frames
    <3>2. CASE k = n
      BY <3>1, <3>2, <1>10, <1>16
    <3>3. CASE k # n
      <4>1. k + 1 \in DOMAIN frames
        BY <3>1, <3>3
      <4> QED  BY <3>1, <3>3, <4>1, <1>17
    <3> QED  BY <3>2, <3>3
  <2> QED  BY <2>1, <2>2, <1>16, <1>17 DEF Waiting
<1>21. Lines'
  BY <1>1, <1>9, <1>13, <1>14, <1>16 DEF Lines
<1>22. Order'
  <2>1. phase = "walk" /\ phase' = "walk"
    BY <1>1 DEF Walking
  <2>2. pending' = new /\ RootOf(pending)' /\ ~Main(pending')
    <3>1. ~(f = 0)
      OBVIOUS
    <3>2. ~Main(new)
      BY <3>1, <1>13 DEF Main
    <3> QED  BY <2>1, <3>2, <1>13, <1>14 DEF RootOf
  <2>3. (\A k \in DOMAIN stack : RootOf(stack[k].line))'
    BY <1>1, <1>14, <1>16, <1>17, <1>18 DEF RootOf
  <2>4. stack' = frames
    BY <1>14, <1>16
  <2> QED  BY <2>1, <2>2, <2>3, <2>4, <1>19, <1>20 DEF Order
<1>23. Reports'
  BY <1>1, <1>2 DEF Reports, InWorker
<1>24. PICK h : h[f] = Purpose(new, 1, Role(new, 1, Walked)) /\ Ledger(h, f + 1) /\ PlainCache(h, f + 1, cache)
  BY <1>1, <1>12, OneMore
<1>25. FrameConforms(h, f + 1, top)
  BY <1>3, <1>4, <1>24 DEF Ledger
<1>26. Conforms(h, f + 1, job, Walked) /\ FrameConforms(h, f + 1, frame)
  BY <1>5, <1>6, <1>7, <1>10, <1>25 DEF FrameConforms
<1>27. Conforms(h, f + 1, new, Walked)
  <2>1. f \in 0 .. (f + 1) - 1
    OBVIOUS
  <2>2. \A n \in 1 .. 1 : n = 1
    OBVIOUS
  <2> QED  BY <2>1, <2>2, <1>13, <1>24 DEF Conforms
<1>28. Ledger(h, fresh)'
  <2>1. \A k \in DOMAIN frames : FrameConforms(h, f + 1, frames[k])
    BY <1>16, <1>24, <1>26 DEF Ledger
  <2> QED  BY <1>1, <1>12, <1>14, <1>16, <1>24, <1>26, <1>27, <2>1 DEF Ledger
<1>29. AnswersAreFresh' /\ cache' = cache
  BY NothingAsked DEF StartJob, Inv
<1>30. CacheHolds(h)'
  BY <1>1, <1>12, <1>24, <1>29 DEF CacheHolds, Walking
<1>31. Scene' /\ Planned' /\ ParentsFirst' /\ MergedAtOnePlace'
  <2>1. fresh' \in Nat \ {0}
    BY <1>1, <1>12
  <2> QED  BY <1>1, <2>1, WalkKeeps
<1> QED  BY <1>21, <1>22, <1>23, <1>28, <1>29, <1>30, <1>31 DEF Inv, Structure, Caches

(* A container is done.                                                    *)
LEMMA ReturnKeeps ==
  ASSUME Inv, Return
  PROVE  Inv'
<1>1. /\ Walking /\ stack # <<>> /\ pending = <<>> /\ ~WorkerIsDone
      /\ stack' = SubSeq(stack, 1, Len(stack) - 1)
      /\ UNCHANGED <<scenario, pending, change, phase, local, reports, fresh, plan, views, merged>>
  BY DEF Return, Working
<1>2. Scene /\ Lines /\ Reports /\ Order
  BY DEF Inv, Structure
<1>3. PICK n \in Nat \ {0} : n = Len(stack) /\ DOMAIN stack = 1 .. n /\ stack \in Seq(FrameType)
  BY <1>1, <1>2, LastReplaced DEF Lines, Frames
<1>4. PICK frames \in Seq(FrameType) : /\ frames = stack' /\ Len(frames) = n - 1 /\ DOMAIN frames = 1 .. n - 1
                                       /\ \A k \in 1 .. n - 1 : frames[k] = stack[k]
  <2>1. SubSeq(stack, 1, n - 1) \in Seq(FrameType)
    BY <1>3
  <2>2. /\ Len(SubSeq(stack, 1, n - 1)) = n - 1 /\ DOMAIN SubSeq(stack, 1, n - 1) = 1 .. n - 1
        /\ \A k \in 1 .. n - 1 : SubSeq(stack, 1, n - 1)[k] = stack[k]
    BY <1>3
  <2> QED  BY <2>1, <2>2, <1>1, <1>3
<1>5. \A k \in 1 .. n - 1 : k \in 1 .. n
  OBVIOUS
<1>6. Lines'
  <2>1. Frames(scenario, frames)
    BY <1>2, <1>3, <1>4, <1>5 DEF Lines, Frames
  <2> QED  BY <2>1, <1>1, <1>2, <1>4 DEF Lines, InWorker
<1>7. Nested(frames)
  BY <1>2, <1>3, <1>4, <1>5 DEF Order, Nested
<1>8. ASSUME InWorker  PROVE Waiting(frames)
  <2>1. Waiting(stack)
    BY <1>2, <1>8 DEF Order
  <2>2. ~Main(stack[n].line)
    <3>1. change[1].dict = 0
      BY <1>2, <1>8 DEF Lines
    <3>2. Top.line[1].dict # change[1].dict
      BY <1>1, <1>8 DEF WorkerIsDone, Working
    <3>3. Top = stack[n]
      BY <1>3 DEF Top
    <3> QED  BY <3>1, <3>2, <3>3 DEF Main
  <2>3. n # 1
    BY <2>1, <2>2 DEF Waiting
  <2>4. 1 \in 1 .. n - 1 /\ frames # <<>>
    BY <2>3, <1>4
  <2>5. Main(frames[1].line)
    BY <2>1, <2>4, <1>4 DEF Waiting
  <2>6. ASSUME NEW k \in 1 .. n - 1, Main(frames[k].line), k = n - 1 \/ ~Main(frames[k + 1].line)
        PROVE  frames[k].work = <<>>
    <3>1. k \in DOMAIN stack /\ frames[k] = stack[k]
      BY <1>3, <1>4
    <3>2. ~Main(stack[k + 1].line)
      <4>1. CASE k = n - 1
        BY <4>1, <2>2
      <4>2. CASE k # n - 1
        <5>1. k + 1 \in 1 .. n - 1
          BY <4>2
        <5> QED  BY <4>2, <5>1, <2>6, <1>4
      <4> QED  BY <4>1, <4>2
    <3> QED  BY <2>1, <2>6, <3>1, <3>2 DEF Waiting
  <2> QED  BY <2>4, <2>5, <2>6, <1>4 DEF Waiting
<1>9. Order'
  <2>1. \A k \in DOMAIN frames : RootOf(frames[k].line)
    BY <1>2, <1>3, <1>4, <1>5 DEF Order
  <2>2. phase = "walk" /\ phase' = "walk"
    BY <1>1 DEF Walking
  <2> QED  BY <2>1, <2>2, <1>1, <1>4, <1>7, <1>8 DEF Order, InWorker, RootOf
<1>10. Reports'
  BY <1>1, <1>2 DEF Reports, InWorker
<1>11. AnswersAreFresh' /\ cache' = cache
  BY NothingAsked DEF Return, Inv
<1>12. Caches'
  <2>1. PICK g : Ledger(g, fresh) /\ CacheHolds(g)
    BY DEF Inv, Caches
  <2>2. \A k \in DOMAIN frames : FrameConforms(g, fresh, frames[k])
    BY <2>1, <1>3, <1>4, <1>5 DEF Ledger
  <2>3. Ledger(g, fresh)'
    BY <2>1, <2>2, <1>1, <1>4 DEF Ledger
  <2>4. CacheHolds(g)'
    BY <2>1, <1>1, <1>11 DEF CacheHolds, Walking
  <2> QED  BY <2>3, <2>4 DEF Caches
<1>13. Scene' /\ Planned' /\ ParentsFirst' /\ MergedAtOnePlace'
  BY <1>1, <1>2, WalkKeeps DEF Scene
<1> QED  BY <1>6, <1>9, <1>10, <1>11, <1>12, <1>13 DEF Inv, Structure

(* What the merging of reports rs adds to merged.                          *)
LEMMA MergesKeep ==
  ASSUME IsScenario(scenario), MergedAtOnePlace, NEW rs, NEW o1, NEW o2,
         NEW g, NEW f, PlainCache(g, f, cache),
         \A i \in DOMAIN rs : GoodReport(scenario, rs[i]) /\ RootIs(rs[i].line, o1, o2)
                                /\ Conforms(g, f, rs[i].line, rs[i].kind),
         merged' = merged \cup Merges(rs)
  PROVE  MergedAtOnePlace'
<1>1. ASSUME NEW pair \in merged',
             IsUnmistakable(PathOf(pair[1], Len(pair[1]), Path)),
             IsUnmistakable(PathOf(pair[2], Len(pair[2]), Path))
      PROVE  /\ pair[1][Len(pair[1]) - 1].o1 = pair[2][Len(pair[2]) - 1].o1
             /\ pair[1][Len(pair[1]) - 1].o2 = pair[2][Len(pair[2]) - 1].o2
  <2>1. CASE pair \in merged
    BY <2>1, <1>1 DEF MergedAtOnePlace
  <2>2. CASE pair \in Merges(rs)
    BY <2>2, <1>1, MergesAreOfOnePlace
  <2> QED  BY <2>1, <2>2
<1> QED  BY <1>1 DEF MergedAtOnePlace

(* A worker is done, and its tree is merged.                               *)
LEMMA EndJobKeeps ==
  ASSUME Inv, EndJob
  PROVE  Inv'
<1>1. /\ WorkerIsDone /\ InWorker /\ Walking /\ pending = <<>> /\ stack # <<>>
      /\ local' = Merge(local) /\ merged' = merged \cup Merges(local) /\ phase' = "rebase"
      /\ UNCHANGED <<scenario, pending, stack, change, reports, fresh, plan, views>>
  BY DEF EndJob, WorkerIsDone, Working
<1>2. Scene /\ IsScenario(scenario) /\ Lines /\ Reports /\ Order /\ Planned /\ MergedAtOnePlace
  BY DiffTreeAssumption DEF Inv, Structure, Scene
<1>3. phase = "walk"
  BY <1>1 DEF Walking
<1>4. PICK rs, o1, o2 : rs = local /\ o1 = Leaf(change).o1 /\ o2 = Leaf(change).o2
  OBVIOUS
<1>5. \A i \in DOMAIN rs : GoodReport(scenario, rs[i]) /\ RootIs(rs[i].line, o1, o2)
  BY <1>2, <1>4 DEF Reports
<1>6. PICK g : Ledger(g, fresh) /\ PlainCache(g, fresh, cache)
  BY <1>1, WalkLedger
<1>7. \A i \in DOMAIN rs : Conforms(g, fresh, rs[i].line, rs[i].kind)
  BY <1>4, <1>6 DEF Ledger
<1>8. PICK new : new = Merge(rs) /\ local' = new
  BY <1>1, <1>4
<1>9. ASSUME NEW i \in DOMAIN new
      PROVE  /\ GoodReport(scenario, new[i]) /\ RootIs(new[i].line, o1, o2)
             /\ Conforms(g, fresh, new[i].line, new[i].kind)
  <2>1. i \in DOMAIN Merge(rs)
    BY <1>8
  <2>2. /\ GoodReport(scenario, Merge(rs)[i]) /\ RootIs(Merge(rs)[i].line, o1, o2)
        /\ Conforms(g, fresh, Merge(rs)[i].line, Merge(rs)[i].kind)
    BY <2>1, <1>5, <1>7, MergeKeeps
  <2> QED  BY <2>2, <1>8
<1>10. MergedAtOnePlace'
  BY <1>1, <1>2, <1>4, <1>5, <1>6, <1>7, MergesKeep
<1>11. Reports'
  BY <1>1, <1>2, <1>3, <1>4, <1>8, <1>9 DEF Reports, InWorker
<1>12. Lines'
  BY <1>1, <1>2 DEF Lines, InWorker
<1>13. \A k \in DOMAIN stack : Main(stack[k].line)
  <2>1. PICK n \in Nat \ {0} : n = Len(stack) /\ DOMAIN stack = 1 .. n
    BY <1>1, <1>2, LastReplaced DEF Lines, Frames
  <2>2. Main(stack[n].line)
    <3>1. change[1].dict = 0 /\ Top.line[1].dict = change[1].dict /\ Top = stack[n]
      BY <1>1, <1>2, <2>1 DEF Lines, WorkerIsDone, Top
    <3> QED  BY <3>1 DEF Main
  <2>3. \A k \in 1 .. n : k < n => Main(stack[k].line)
    BY <2>1, <2>2, <1>2 DEF Order, Nested
  <2> QED  BY <2>1, <2>2, <2>3
<1>14. Order'
  <2>1. \A k \in DOMAIN stack : RootIs(stack[k].line, scenario.t1, scenario.t2)
    BY <1>2, <1>13 DEF Order, RootOf
  <2>2. (\A k \in DOMAIN stack : RootOf(stack[k].line))'
    BY <2>1, <1>1, <1>13 DEF RootOf
  <2> QED  BY <2>2, <1>1, <1>2 DEF Order, InWorker
<1>15. AnswersAreFresh' /\ cache' = cache
  BY NothingAsked DEF EndJob, Inv
<1>16. Ledger(g, fresh)'
  BY <1>1, <1>6, <1>8, <1>9 DEF Ledger
<1>17. CacheHolds(g)'
  BY <1>1, <1>6, <1>15 DEF CacheHolds
<1>18. Scene' /\ Planned' /\ ParentsFirst'
  <2>1. Scene'
    BY <1>1, <1>2 DEF Scene
  <2>2. Planned'
    BY <1>1, <1>2, <1>3 DEF Planned
  <2>3. ParentsFirst'
    BY <1>1 DEF ParentsFirst
  <2> QED  BY <2>1, <2>2, <2>3
<1> QED  BY <1>10, <1>11, <1>12, <1>14, <1>15, <1>16, <1>17, <1>18 DEF Inv, Structure, Caches

(* All reports of a worker have been rebased.                              *)
LEMMA EndRebaseKeeps ==
  ASSUME Inv, EndRebase
  PROVE  Inv'
<1>1. /\ phase = "rebase" /\ local' = <<>> /\ change' = <<>> /\ phase' = "walk"
      /\ UNCHANGED <<scenario, pending, stack, reports, fresh, plan, views, merged>>
  BY DEF EndRebase
<1>2. Scene /\ Lines /\ Reports /\ Order /\ Planned /\ MergedAtOnePlace
  BY DEF Inv, Structure
<1>3. ~InWorker' /\ DOMAIN local' = {} /\ local' \in Seq(ReportType)
  <2>1. DOMAIN <<>> = {} /\ <<>> \in Seq(ReportType)
    OBVIOUS
  <2> QED  BY <2>1, <1>1 DEF InWorker
<1>4. Lines'
  BY <1>1, <1>2, <1>3, NoLine DEF Lines
<1>5. Reports'
  BY <1>1, <1>2, <1>3 DEF Reports
<1>6. Order'
  <2>1. pending = <<>>
    BY <1>1, <1>2 DEF Order
  <2>2. \A k \in DOMAIN stack : Main(stack[k].line) /\ RootIs(stack[k].line, scenario.t1, scenario.t2)
    BY <1>1, <1>2 DEF Order, RootOf
  <2>3. (\A k \in DOMAIN stack : RootOf(stack[k].line))'
    BY <2>2, <1>1 DEF RootOf
  <2> QED  BY <2>1, <2>3, <1>1, <1>2, <1>3 DEF Order
<1>7. AnswersAreFresh' /\ cache' = cache
  BY NothingAsked DEF EndRebase, Inv
<1>8. Caches'
  <2>1. PICK g : Ledger(g, fresh) /\ CacheHolds(g)
    BY DEF Inv, Caches
  <2>2. Ledger(g, fresh)'
    BY <2>1, <1>1, <1>3, NoLine DEF Ledger
  <2>3. CacheHolds(g)'
    BY <2>1, <1>1, <1>7 DEF CacheHolds
  <2> QED  BY <2>2, <2>3 DEF Caches
<1>9. Scene' /\ Planned' /\ ParentsFirst' /\ MergedAtOnePlace'
  <2>1. Scene'
    BY <1>1, <1>2 DEF Scene
  <2>2. Planned'
    BY <1>1, <1>2 DEF Planned
  <2>3. ParentsFirst'
    BY <1>1 DEF ParentsFirst
  <2>4. MergedAtOnePlace'
    BY <1>1, <1>2 DEF MergedAtOnePlace
  <2> QED  BY <2>1, <2>2, <2>3, <2>4
<1> QED  BY <1>4, <1>5, <1>6, <1>7, <1>8, <1>9 DEF Inv, Structure

(* So many new dictionaries may be for anything.                           *)
LEMMA ManyMore ==
  ASSUME NEW g, NEW f \in Nat, NEW m \in Nat, Ledger(g, f), PlainCache(g, f, cache), NEW purposes
  PROVE  \E h : /\ \A n \in 1 .. m : h[f + n] = purposes[n]
                /\ Ledger(h, f + m + 1) /\ PlainCache(h, f + m + 1, cache)
<1>1. PICK h : h = [d \in 0 .. f + m |-> IF d < f THEN g[d] ELSE purposes[d - f]]
  OBVIOUS
<1>2. \A d \in 0 .. f - 1 : h[d] = g[d]
  <2> TAKE d \in 0 .. f - 1
  <2>1. d \in 0 .. f + m /\ d < f
    OBVIOUS
  <2> QED  BY <2>1, <1>1
<1>3. \A n \in 1 .. m : h[f + n] = purposes[n]
  <2> TAKE n \in 1 .. m
  <2>1. f + n \in 0 .. f + m /\ ~(f + n < f) /\ (f + n) - f = n
    OBVIOUS
  <2> QED  BY <2>1, <1>1
<1>4. PICK f2 \in Nat : f2 = f + m + 1 /\ f <= f2
  <2>1. f + m + 1 \in Nat /\ f <= f + m + 1
    OBVIOUS
  <2> QED  BY <2>1
<1>5. Ledger(h, f2) /\ PlainCache(h, f2, cache)
  BY <1>2, <1>4, MoreLedger
<1> QED  BY <1>3, <1>4, <1>5

(* A line with dictionaries of its own conforms to a ledger that says so.  *)
LEMMA NewDictionaries ==
  ASSUME NEW g, NEW f \in Nat, NEW line \in LineType, line # <<>>, NEW kind,
         \A n \in 1 .. Len(line) : line[n].dict = f + n,
         Ledger(g, f), PlainCache(g, f, cache)
  PROVE  \E h : /\ Conforms(h, f + Len(line) + 1, line, kind)
                /\ Ledger(h, f + Len(line) + 1) /\ PlainCache(h, f + Len(line) + 1, cache)
<1>1. PICK m \in Nat \ {0} : m = Len(line)
  BY LineFacts
<1>2. PICK purposes : purposes = [n \in 1 .. m |-> Purpose(line, n, Role(line, n, kind))]
  OBVIOUS
<1>3. PICK h : /\ \A n \in 1 .. m : h[f + n] = purposes[n]
               /\ Ledger(h, f + m + 1) /\ PlainCache(h, f + m + 1, cache)
  BY ManyMore
<1>4. \A n \in 1 .. m : h[f + n] = Purpose(line, n, Role(line, n, kind))
  BY <1>2, <1>3
<1>5. \A n \in 1 .. m : f + n \in 0 .. (f + m + 1) - 1
  BY <1>1
<1>6. Conforms(h, f + m + 1, line, kind)
  BY <1>1, <1>4, <1>5 DEF Conforms
<1> QED  BY <1>1, <1>3, <1>6

(* The next report of a worker is rebased.                                 *)
LEMMA RebaseKeeps ==
  ASSUME Inv, Rebase
  PROVE  Inv'
<1>1. /\ phase = "rebase"
      /\ UNCHANGED <<scenario, pending, stack, change, phase, plan, views, merged>>
  BY DEF Rebase
<1>2. Scene /\ IsScenario(scenario) /\ Lines /\ Reports /\ Order /\ Planned /\ MergedAtOnePlace
  BY DiffTreeAssumption DEF Inv, Structure, Scene
<1>3. PICK i \in DOMAIN local :
        /\ Ask(Spliced(local[i].line), Path)
        /\ reports' = Append(reports, Report(local[i].kind, Spliced(local[i].line)))
        /\ fresh' = fresh + Len(Spliced(local[i].line)) + 1
        /\ local' = [j \in DOMAIN local \ {i} |-> local[j]]
  BY DEF Rebase
<1>4. PICK report : report = local[i] /\ GoodReport(scenario, report) /\ RootIs(report.line, Leaf(change).o1, Leaf(change).o2)
  BY <1>2 DEF Reports
<1>5. PICK f \in Nat \ {0} : f = fresh
  BY <1>2 DEF Scene
<1>6. InWorker /\ OpenLine(scenario, change) /\ change # <<>> /\ change \in LineType
  BY <1>1, <1>2 DEF Order, Lines, OpenLine, GoodLine, InWorker
<1>7. PICK new : new = Spliced(report.line) /\ IsSplice(new, change, f, report.line)
  <2>1. Spliced(report.line) = Splice(change, f, report.line)
    BY <1>5 DEF Spliced, Splice
  <2>2. report.line \in LineType /\ report.line # <<>>
    BY <1>4 DEF GoodReport, GoodLine
  <2>3. IsSplice(Splice(change, f, report.line), change, f, report.line)
    BY <2>2, <1>6, SpliceShape
  <2> QED  BY <2>1, <2>3
<1>8. /\ GoodReport(scenario, Report(report.kind, new))
      /\ new # <<>> /\ new \in LineType /\ new[1].o1 = change[1].o1 /\ new[1].o2 = change[1].o2
  <2>1. scenario.workers
    BY <1>2, <1>6 DEF Lines
  <2> QED  BY <2>1, <1>2, <1>4, <1>6, <1>7, SpliceIsGood
<1>9. PICK more : more = Report(report.kind, new) /\ more.kind = report.kind /\ more.line = new /\ more \in ReportType
  <2>1. report.kind \in ReportKinds
    BY <1>4 DEF GoodReport, ReportType
  <2> QED  BY <2>1, <1>8, ReportFacts
<1>10. GoodReport(scenario, more) /\ RootIs(more.line, scenario.t1, scenario.t2)
  <2>1. RootIs(change, scenario.t1, scenario.t2)
    BY <1>2, <1>6 DEF Lines
  <2> QED  BY <2>1, <1>8, <1>9 DEF RootIs
<1>11. PICK m \in Nat \ {0} : m = Len(new)
  BY <1>8, LineFacts
<1>12. /\ Ask(new, Path) /\ reports' = Append(reports, more) /\ fresh' = f + m + 1
       /\ local' = [j \in DOMAIN local \ {i} |-> local[j]]
  BY <1>3, <1>4, <1>5, <1>7, <1>9, <1>11
<1>13. /\ reports' \in Seq(ReportType)
       /\ \A j \in DOMAIN reports' : reports'[j] = more \/ (j \in DOMAIN reports /\ reports'[j] = reports[j])
  <2>1. reports \in Seq(ReportType)
    BY <1>1, <1>2 DEF Reports
  <2> QED  BY <2>1, <1>9, <1>12
<1>14. \A j \in DOMAIN local' : j \in DOMAIN local /\ local'[j] = local[j]
  BY <1>12
<1>15. Reports'
  <2>1. \A j \in DOMAIN reports' : GoodReport(scenario, reports'[j]) /\ RootIs(reports'[j].line, scenario.t1, scenario.t2)
    BY <1>2, <1>10, <1>13 DEF Reports
  <2>2. \A j \in DOMAIN local' :
          GoodReport(scenario, local'[j]) /\ RootIs(local'[j].line, Leaf(change).o1, Leaf(change).o2)
    BY <1>2, <1>14 DEF Reports
  <2> QED  BY <2>1, <2>2, <1>1, <1>6, <1>13 DEF Reports, InWorker
<1>16. PICK g : Ledger(g, f) /\ PlainCache(g, f, cache)
  <2>1. PICK g : Ledger(g, fresh) /\ CacheHolds(g)
    BY DEF Inv, Caches
  <2> QED  BY <2>1, <1>1, <1>5 DEF CacheHolds
<1>17. \A n \in 1 .. m : new[n].dict = f + n
  BY <1>7, <1>11 DEF IsSplice
<1>18. PICK h : /\ Conforms(h, f + m + 1, new, report.kind)
                /\ Ledger(h, f + m + 1) /\ PlainCache(h, f + m + 1, cache)
  BY <1>8, <1>11, <1>16, <1>17, NewDictionaries
<1>19. PlainCache(h, f + m + 1, cache') /\ AnswersAreFresh'
  <2>1. \A key \in DOMAIN cache : key[1] # Leaf(new).dict
    <3>1. Leaf(new).dict = f + m
      BY <1>11, <1>17 DEF Leaf
    <3>2. f + m \in Nat /\ f + m >= f
      BY <1>11
    <3>3. \A key \in DOMAIN cache : key[1] # f + m
      BY <3>2, <1>16, NewIsUnused
    <3> QED  BY <3>1, <3>3
  <2> QED  BY <2>1, <1>8, <1>12, <1>16, <1>18, AskPath
<1>20. Ledger(h, fresh)'
  <2>1. \A j \in DOMAIN reports' : Conforms(h, f + m + 1, reports'[j].line, reports'[j].kind)
    BY <1>9, <1>13, <1>18 DEF Ledger
  <2>2. \A j \in DOMAIN local' : Conforms(h, f + m + 1, local'[j].line, local'[j].kind)
    BY <1>14, <1>18 DEF Ledger
  <2> QED  BY <2>1, <2>2, <1>1, <1>12, <1>18 DEF Ledger
<1>21. CacheHolds(h)'
  BY <1>1, <1>12, <1>19 DEF CacheHolds
<1>22. Lines' /\ Order'
  <2>1. Lines'
    BY <1>1, <1>2 DEF Lines, InWorker
  <2>2. Order'
    BY <1>1, <1>2 DEF Order, InWorker, RootOf
  <2> QED  BY <2>1, <2>2
<1>23. Scene' /\ Planned' /\ ParentsFirst' /\ MergedAtOnePlace'
  <2>1. fresh' \in Nat \ {0}
    BY <1>11, <1>12
  <2>2. Scene'
    BY <2>1, <1>1, <1>2 DEF Scene
  <2>3. Planned'
    BY <1>1, <1>2 DEF Planned
  <2>4. ParentsFirst'
    BY <1>1 DEF ParentsFirst
  <2>5. MergedAtOnePlace'
    BY <1>1, <1>2 DEF MergedAtOnePlace
  <2> QED  BY <2>2, <2>3, <2>4, <2>5
<1> QED  BY <1>15, <1>19, <1>20, <1>21, <1>22, <1>23 DEF Inv, Structure, Caches

-----------------------------------------------------------------------------
(* The questions of the views.                                             *)

(* A question that is planned is one of those about a report of its kind.  *)
LEMMA PlanFacts ==
  ASSUME NEW view, NEW rs, NEW q \in PlanOf(view, rs)
  PROVE  \E k \in DOMAIN Kinds, i \in DOMAIN rs, n \in 1 .. 3 :
           /\ q.at = <<k, i, n>> /\ q.line = rs[i].line /\ rs[i].kind = Kinds[k]
           /\ n \in DOMAIN Queries(view, Kinds[k]) /\ q.query = Queries(view, Kinds[k])[n]
<1>1. PICK t \in (DOMAIN Kinds) \X (DOMAIN rs) \X (1 .. 3) :
        /\ rs[t[2]].kind = Kinds[t[1]] /\ t[3] \in DOMAIN Queries(view, Kinds[t[1]])
        /\ q = [at |-> t, line |-> rs[t[2]].line, query |-> Queries(view, Kinds[t[1]])[t[3]]]
  BY DEF PlanOf
<1>2. PICK k \in DOMAIN Kinds, i \in DOMAIN rs, n \in 1 .. 3 : t = <<k, i, n>>
  BY <1>1
<1>3. q.at = t /\ q.line = rs[i].line /\ q.query = Queries(view, Kinds[k])[n]
  BY <1>1, <1>2
<1> QED  BY <1>1, <1>2, <1>3

(* The first question about a report is planned.                           *)
LEMMA IsPlanned ==
  ASSUME NEW view, NEW rs, NEW k \in DOMAIN Kinds, NEW i \in DOMAIN rs, rs[i].kind = Kinds[k],
         1 \in DOMAIN Queries(view, Kinds[k])
  PROVE  \E q \in PlanOf(view, rs) : q.at = <<k, i, 1>>
<1>1. PICK t : t = <<k, i, 1>>
  OBVIOUS
<1>2. t \in (DOMAIN Kinds) \X (DOMAIN rs) \X (1 .. 3) /\ t[1] = k /\ t[2] = i /\ t[3] = 1
  BY <1>1
<1>3. PICK q : q = [at |-> t, line |-> rs[t[2]].line, query |-> Queries(view, Kinds[t[1]])[t[3]]]
  OBVIOUS
<1>4. q \in PlanOf(view, rs)
  BY <1>2, <1>3 DEF PlanOf
<1>5. q.at = t
  BY <1>3
<1> QED  BY <1>1, <1>4, <1>5

(* The merging, like the pretty view, asks for plain paths.                *)
LEMMA PathsAreAsked ==
  ASSUME NEW kind, NEW n \in DOMAIN Queries("pretty", kind)
  PROVE  Queries("pretty", kind)[n] = Path
<1>1. Queries("pretty", kind) = <<Path>>
  BY DEF Queries, PrettyQueries
<1> QED  BY <1>1

(* The walk is over, and the merging begins.                               *)
LEMMA EndWalkKeeps ==
  ASSUME Inv, EndWalk
  PROVE  Inv'
<1> DEFINE items == [i \in OfKind(reports, "iterable_item_added") \cup OfKind(reports, "iterable_item_removed") |->
                       reports[i]]
<1>1. /\ Walking /\ pending = <<>> /\ stack = <<>> /\ phase' = "merge" /\ plan' = PlanOf("pretty", items)
      /\ UNCHANGED <<scenario, pending, stack, change, local, reports, fresh, views, merged>>
  BY DEF EndWalk
<1>2. Scene /\ Lines /\ Reports /\ Order /\ Planned /\ MergedAtOnePlace
  BY DEF Inv, Structure
<1>3. phase = "walk"
  BY <1>1 DEF Walking
<1>4. AnswersAreFresh' /\ cache' = cache
  BY NothingAsked DEF EndWalk, Inv
<1>5. Planned'
  <2>1. ASSUME NEW q \in PlanOf("pretty", items)
        PROVE  q.query = Path /\ \E i \in DOMAIN reports : q.line = reports[i].line
    <3>1. PICK rs : rs = items
      OBVIOUS
    <3>2. DOMAIN rs \subseteq DOMAIN reports /\ \A i \in DOMAIN rs : rs[i] = reports[i]
      BY <3>1 DEF OfKind
    <3> HIDE DEF items
    <3>3. PICK k \in DOMAIN Kinds, i \in DOMAIN rs, n \in 1 .. 3 :
            /\ q.line = rs[i].line
            /\ n \in DOMAIN Queries("pretty", Kinds[k]) /\ q.query = Queries("pretty", Kinds[k])[n]
      BY <2>1, <3>1, PlanFacts
    <3>4. q.query = Path
      BY <3>3, PathsAreAsked
    <3> QED  BY <3>2, <3>3, <3>4
  <2> HIDE DEF items
  <2> QED  BY <2>1, <1>1, <1>2, <1>3 DEF Planned
<1> HIDE DEF items
<1>6. ~InWorker
  BY <1>1, <1>2 DEF Order, Waiting
<1>7. Lines' /\ Reports' /\ Order'
  <2>1. Lines'
    BY <1>1, <1>2 DEF Lines, InWorker
  <2>2. Reports'
    BY <1>1, <1>2 DEF Reports, InWorker
  <2>3. Order'
    BY <1>1, <1>2, <1>6 DEF Order, InWorker
  <2> QED  BY <2>1, <2>2, <2>3
<1>8. Caches'
  <2>1. PICK g : Ledger(g, fresh) /\ CacheHolds(g)
    BY DEF Inv, Caches
  <2>2. Ledger(g, fresh)'
    BY <2>1, <1>1 DEF Ledger
  <2>3. CacheHolds(g)'
    BY <2>1, <1>1, <1>3, <1>4 DEF CacheHolds
  <2> QED  BY <2>2, <2>3 DEF Caches
<1>9. Scene' /\ ParentsFirst' /\ MergedAtOnePlace'
  <2>1. Scene'
    BY <1>1, <1>2 DEF Scene
  <2>2. ParentsFirst'
    BY <1>1 DEF ParentsFirst
  <2>3. MergedAtOnePlace'
    BY <1>1, <1>2 DEF MergedAtOnePlace
  <2> QED  BY <2>1, <2>2, <2>3
<1> QED  BY <1>4, <1>5, <1>7, <1>8, <1>9 DEF Inv, Structure

(* The results of the root are merged.                                     *)
LEMMA MergeAllKeeps ==
  ASSUME Inv, MergeAll
  PROVE  Inv'
<1>1. /\ phase = "merge" /\ plan = {} /\ phase' = "views"
      /\ reports' = Merge(reports) /\ merged' = merged \cup Merges(reports)
      /\ UNCHANGED <<scenario, pending, stack, change, local, fresh, plan, views>>
  BY DEF MergeAll
<1>2. Scene /\ IsScenario(scenario) /\ Lines /\ Reports /\ Order /\ Planned /\ MergedAtOnePlace
  BY DiffTreeAssumption DEF Inv, Structure, Scene
<1>3. PICK rs, o1, o2 : rs = reports /\ o1 = scenario.t1 /\ o2 = scenario.t2
  OBVIOUS
<1>4. \A i \in DOMAIN rs : GoodReport(scenario, rs[i]) /\ RootIs(rs[i].line, o1, o2)
  BY <1>2, <1>3 DEF Reports
<1>5. PICK g : Ledger(g, fresh) /\ PlainCache(g, fresh, cache)
  <2>1. PICK g : Ledger(g, fresh) /\ CacheHolds(g)
    BY DEF Inv, Caches
  <2> QED  BY <2>1, <1>1 DEF CacheHolds
<1>6. \A i \in DOMAIN rs : Conforms(g, fresh, rs[i].line, rs[i].kind)
  BY <1>3, <1>5 DEF Ledger
<1>7. PICK new : new = Merge(rs) /\ reports' = new
  BY <1>1, <1>3
<1>8. ASSUME NEW i \in DOMAIN new
      PROVE  /\ GoodReport(scenario, new[i]) /\ RootIs(new[i].line, o1, o2)
             /\ Conforms(g, fresh, new[i].line, new[i].kind)
  <2>1. i \in DOMAIN Merge(rs)
    BY <1>7
  <2>2. /\ GoodReport(scenario, Merge(rs)[i]) /\ RootIs(Merge(rs)[i].line, o1, o2)
        /\ Conforms(g, fresh, Merge(rs)[i].line, Merge(rs)[i].kind)
    BY <2>1, <1>4, <1>6, MergeKeeps
  <2> QED  BY <2>2, <1>7
<1>9. MergedAtOnePlace'
  BY <1>1, <1>2, <1>3, <1>4, <1>5, <1>6, MergesKeep
<1>10. Reports'
  BY <1>1, <1>2, <1>3, <1>7, <1>8 DEF Reports, InWorker
<1>11. Lines' /\ Order'
  <2>1. Lines'
    BY <1>1, <1>2 DEF Lines, InWorker
  <2>2. Order'
    BY <1>1, <1>2 DEF Order, InWorker
  <2> QED  BY <2>1, <2>2
<1>12. AnswersAreFresh' /\ cache' = cache
  BY NothingAsked DEF MergeAll, Inv
<1>13. Ledger(g, fresh)'
  BY <1>1, <1>5, <1>7, <1>8 DEF Ledger
<1>14. ASSUME NEW f, NEW c, NEW parents, PlainCache(g, f, c)  PROVE ViewCache(g, f, c, parents)
  <2>1. Path \in QueryType
    BY DEF Path, Query, QueryType
  <2>2. \A d, purpose : MayAsk(Path, d, purpose, parents)
    BY DEF MayAsk
  <2> QED  BY <2>1, <2>2, <1>14 DEF PlainCache, ViewCache
<1>15. CacheHolds(g)'
  BY <1>1, <1>5, <1>12, <1>14 DEF CacheHolds
<1>16. Scene' /\ Planned' /\ ParentsFirst'
  <2>1. Scene'
    BY <1>1, <1>2 DEF Scene
  <2>2. views = <<>> /\ <<>> \in Seq({"text", "delta", "pretty"})
    BY <1>1, <1>2 DEF Planned
  <2>3. Planned'
    BY <2>2, <1>1 DEF Planned
  <2>4. ParentsFirst'
    BY <1>1 DEF ParentsFirst
  <2> QED  BY <2>1, <2>3, <2>4
<1> QED  BY <1>9, <1>10, <1>11, <1>12, <1>13, <1>15, <1>16 DEF Inv, Structure, Caches

(* A view is begun.                                                        *)
LEMMA MakeViewKeeps ==
  ASSUME Inv, MakeView
  PROVE  Inv'
<1>1. /\ phase = "views" /\ plan = {}
      /\ UNCHANGED <<scenario, pending, stack, change, phase, local, reports, fresh, merged>>
  BY DEF MakeView
<1>2. Scene /\ IsScenario(scenario) /\ Lines /\ Reports /\ Order /\ Planned /\ MergedAtOnePlace
  BY DiffTreeAssumption DEF Inv, Structure, Scene
<1>3. PICK view \in {"text", "delta", "pretty"} : plan' = PlanOf(view, reports) /\ views' = Append(views, view)
  BY DEF MakeView
<1>4. AnswersAreFresh' /\ cache' = cache
  BY NothingAsked DEF MakeView, Inv
<1>5. views' \in Seq({"text", "delta", "pretty"}) /\ views' # <<>> /\ views'[Len(views')] = view
  <2>1. views \in Seq({"text", "delta", "pretty"})
    BY <1>1, <1>2 DEF Planned
  <2> QED  BY <2>1, <1>3
<1>6. (PlanOf(view, reports))' = PlanOf(view, reports)
  BY <1>1 DEF PlanOf, Queries, DeltaQueries
<1>7. Planned'
  <2>1. (plan \subseteq PlanOf(views[Len(views)], reports))'
    BY <1>1, <1>3, <1>5 DEF PlanOf, Queries, DeltaQueries
  <2> QED  BY <2>1, <1>1, <1>5 DEF Planned
<1>8. ParentsFirst'
  <2>1. ASSUME view = "delta", NEW i \in AskParent
        PROVE  \E q \in plan' : \E k \in {4, 5} : q.at = <<k, i, 1>>
    <3>1. i \in DOMAIN reports /\ scenario.compare /\ reports[i].kind \in {"iterable_item_added", "iterable_item_removed"}
      BY <2>1 DEF AskParent
    <3>2. PICK k \in {4, 5} : k \in DOMAIN Kinds /\ reports[i].kind = Kinds[k]
      BY <3>1 DEF Kinds
    <3>3. 1 \in DOMAIN Queries(view, Kinds[k])
      BY <2>1, <3>1, <3>2 DEF Queries, DeltaQueries, Moved
    <3>4. \E q \in PlanOf(view, reports) : q.at = <<k, i, 1>>
      <4>1. i \in DOMAIN reports /\ k \in DOMAIN Kinds /\ reports[i].kind = Kinds[k]
        BY <3>1, <3>2
      <4> QED  BY <4>1, <3>3, IsPlanned
    <3> QED  BY <3>4, <1>3
  <2> QED  BY <2>1, <1>1, <1>5 DEF ParentsFirst, AskParent
<1>9. Lines' /\ Reports' /\ Order'
  <2>1. Lines'
    BY <1>1, <1>2 DEF Lines, InWorker
  <2>2. Reports'
    BY <1>1, <1>2 DEF Reports, InWorker
  <2>3. Order'
    BY <1>1, <1>2 DEF Order, InWorker
  <2> QED  BY <2>1, <2>2, <2>3
<1>10. Caches'
  <2>1. PICK g : Ledger(g, fresh) /\ CacheHolds(g)
    BY DEF Inv, Caches
  <2>2. Ledger(g, fresh)'
    BY <2>1, <1>1 DEF Ledger
  <2>3. ParentDicts' = ParentDicts
    BY <1>1 DEF ParentDicts, Parent, AskParent
  <2>4. CacheHolds(g)'
    BY <2>1, <2>3, <1>1, <1>4 DEF CacheHolds
  <2> QED  BY <2>2, <2>4 DEF Caches
<1>11. Scene' /\ MergedAtOnePlace'
  <2>1. Scene'
    BY <1>1, <1>2 DEF Scene
  <2>2. MergedAtOnePlace'
    BY <1>1, <1>2 DEF MergedAtOnePlace
  <2> QED  BY <2>1, <2>2
<1> QED  BY <1>4, <1>7, <1>8, <1>9, <1>10, <1>11 DEF Inv, Structure

(* The questions that are asked, and what tells them apart.                *)
Alike(q, p) ==
  /\ q.force = p.force /\ q.get_parent_too = p.get_parent_too
  /\ q.use_t2 = p.use_t2 /\ q.reporting_move = p.reporting_move

ParentToo == [Forced EXCEPT !.get_parent_too = TRUE]
Questions == {Path, Reporting(OfT2(Path)), OfT2(Forced), ParentToo, Forced, Reporting(Forced)}

(* A plain question.                                                       *)
LEMMA PathFields ==
  /\ Path \in QueryType /\ Path.force = "None" /\ ~Path.get_parent_too /\ ~Path.use_t2
  /\ ~Path.reporting_move /\ ~Path.up
  BY DEF Path, Query, QueryType

(* A question asked of a node while a move is reported differs in nothing  *)
(* but that.                                                               *)
LEMMA ReportingFields ==
  ASSUME NEW q \in QueryType
  PROVE  /\ Reporting(q) \in QueryType /\ Reporting(q).force = q.force
         /\ Reporting(q).get_parent_too = q.get_parent_too /\ Reporting(q).use_t2 = q.use_t2
         /\ Reporting(q).reporting_move /\ Reporting(q).up = q.up
  BY DEF QueryType, Reporting

(* A question about the second tree differs in nothing but that.           *)
LEMMA T2Fields ==
  ASSUME NEW q \in QueryType
  PROVE  /\ OfT2(q) \in QueryType /\ OfT2(q).force = q.force
         /\ OfT2(q).get_parent_too = q.get_parent_too /\ OfT2(q).use_t2
         /\ OfT2(q).reporting_move = q.reporting_move /\ OfT2(q).up = q.up
  BY DEF QueryType, OfT2

(* A question asked of the parent differs in nothing but that.             *)
LEMMA UpFields ==
  ASSUME NEW q \in QueryType
  PROVE  /\ OfUp(q) \in QueryType /\ OfUp(q).force = q.force
         /\ OfUp(q).get_parent_too = q.get_parent_too /\ OfUp(q).use_t2 = q.use_t2
         /\ OfUp(q).reporting_move = q.reporting_move /\ OfUp(q).up
  BY DEF QueryType, OfUp

(* A question that a made-up representation may answer.                    *)
LEMMA FakeFields ==
  ASSUME NEW q \in QueryType, NEW fake, fake = [q EXCEPT !.force = "fake"]
  PROVE  /\ fake \in QueryType /\ fake.force = "fake"
         /\ fake.get_parent_too = q.get_parent_too /\ fake.use_t2 = q.use_t2
         /\ fake.reporting_move = q.reporting_move /\ fake.up = q.up
  BY DEF QueryType

(* A question that asks for the parent's path too.                         *)
LEMMA ParentTooFields ==
  ASSUME NEW q \in QueryType, NEW too, too = [q EXCEPT !.get_parent_too = TRUE]
  PROVE  /\ too \in QueryType /\ too.force = q.force
         /\ too.get_parent_too /\ too.use_t2 = q.use_t2
         /\ too.reporting_move = q.reporting_move /\ too.up = q.up
  BY DEF QueryType

(* All questions, field by field.                                          *)
LEMMA QuestionFields ==
  /\ Questions \subseteq QueryType
  /\ OfUp(Forced) \in QueryType /\ Reporting(OfUp(Forced)) \in QueryType
  /\ Alike(OfUp(Forced), Forced) /\ Alike(Reporting(OfUp(Forced)), Reporting(Forced))
  /\ OfUp(Forced).up /\ Reporting(OfUp(Forced)).up /\ \A q \in Questions : ~q.up
  /\ Path.force = "None" /\ ~Path.get_parent_too /\ ~Path.use_t2
  /\ Reporting(OfT2(Path)).force = "None" /\ Reporting(OfT2(Path)).use_t2
  /\ OfT2(Forced).force = "fake" /\ ~OfT2(Forced).get_parent_too /\ OfT2(Forced).use_t2
  /\ ParentToo.force = "fake" /\ ParentToo.get_parent_too
  /\ Forced.force = "fake" /\ ~Forced.get_parent_too /\ ~Forced.use_t2
  /\ Reporting(Forced).force = "fake" /\ ~Reporting(Forced).get_parent_too /\ ~Reporting(Forced).use_t2
<1>1. /\ Forced \in QueryType /\ Forced.force = "fake" /\ ~Forced.get_parent_too /\ ~Forced.use_t2
      /\ ~Forced.reporting_move /\ ~Forced.up
  <2>1. PICK p \in QueryType : p = Path
    BY PathFields
  <2>2. Forced = [p EXCEPT !.force = "fake"]
    BY <2>1 DEF Forced
  <2> QED  BY <2>1, <2>2, PathFields, FakeFields
<1>2. PICK forced \in QueryType : forced = Forced
  BY <1>1
<1>3. PICK up \in QueryType : /\ up = OfUp(Forced) /\ up.force = "fake" /\ ~up.get_parent_too
                             /\ ~up.use_t2 /\ ~up.reporting_move /\ up.up
  <2>1. forced.force = "fake" /\ ~forced.get_parent_too /\ ~forced.use_t2 /\ ~forced.reporting_move
    BY <1>1, <1>2
  <2> QED  BY <2>1, <1>2, UpFields
<1>5. PICK moved \in QueryType : /\ moved = Reporting(Forced) /\ moved.force = "fake" /\ ~moved.get_parent_too
                                /\ ~moved.use_t2 /\ moved.reporting_move /\ ~moved.up
  <2>1. forced.force = "fake" /\ ~forced.get_parent_too /\ ~forced.use_t2 /\ ~forced.up
    BY <1>1, <1>2
  <2> QED  BY <2>1, <1>2, ReportingFields
<1>7. PICK both \in QueryType : /\ both = Reporting(up) /\ both.force = "fake" /\ ~both.get_parent_too
                               /\ ~both.use_t2 /\ both.reporting_move /\ both.up
  BY <1>3, ReportingFields
<1>9. PICK t2 \in QueryType : t2 = OfT2(Path) /\ t2.force = "None" /\ t2.use_t2 /\ ~t2.up
  BY PathFields, T2Fields
<1>11. PICK moved2 \in QueryType : /\ moved2 = Reporting(t2) /\ moved2.force = "None"
                                  /\ moved2.use_t2 /\ ~moved2.up
  BY <1>9, ReportingFields
<1>13. PICK forced2 \in QueryType : /\ forced2 = OfT2(Forced) /\ forced2.force = "fake"
                                   /\ ~forced2.get_parent_too /\ forced2.use_t2 /\ ~forced2.up
  <2>1. forced.force = "fake" /\ ~forced.get_parent_too /\ ~forced.up
    BY <1>1, <1>2
  <2> QED  BY <2>1, <1>2, T2Fields
<1>15. PICK too \in QueryType : /\ too = ParentToo /\ too.force = "fake" /\ too.get_parent_too /\ ~too.up
  <2>1. forced.force = "fake" /\ ~forced.up
    BY <1>1, <1>2
  <2>2. ParentToo = [forced EXCEPT !.get_parent_too = TRUE]
    BY <1>2 DEF ParentToo
  <2> QED  BY <2>1, <2>2, ParentTooFields
<1>16. Alike(up, Forced)
  BY <1>2, <1>3, UpFields DEF Alike
<1>17. Alike(both, moved)
  <2>1. both.force = moved.force
    BY <1>5, <1>7
  <2>2. both.get_parent_too = moved.get_parent_too /\ both.use_t2 = moved.use_t2
    BY <1>5, <1>7 DEF QueryType
  <2>3. both.reporting_move = moved.reporting_move
    BY <1>5, <1>7 DEF QueryType
  <2> QED  BY <2>1, <2>2, <2>3 DEF Alike
<1>18. Questions = {Path, moved2, forced2, too, Forced, moved}
  BY <1>5, <1>9, <1>11, <1>13, <1>15 DEF Questions
<1>19. Questions \subseteq QueryType /\ \A q \in Questions : ~q.up
  BY <1>18, <1>1, <1>5, <1>11, <1>13, <1>15, PathFields
<1>20. both = Reporting(OfUp(Forced)) /\ moved2 = Reporting(OfT2(Path))
  BY <1>3, <1>7, <1>9, <1>11
<1> QED  BY <1>1, <1>3, <1>5, <1>7, <1>11, <1>13, <1>15, <1>16, <1>17, <1>19, <1>20, PathFields

(* Two questions with one key that a level may be asked are the same.      *)
LEMMA SameQuestion ==
  ASSUME NEW d, NEW purpose, NEW parents, NEW p, NEW q,
         MayAsk(p, d, purpose, parents), MayAsk(q, d, purpose, parents),
         p.force = q.force, p.get_parent_too = q.get_parent_too, p.use_t2 = q.use_t2
  PROVE  p = q
<1>1. p \in Questions /\ q \in Questions
  BY DEF MayAsk, Questions, ParentToo
<1>2. p = q \/ {p, q} \subseteq {Forced, Reporting(Forced)}
  BY <1>1, QuestionFields, Zenon DEF Questions
<1>3. CASE p = Forced /\ q = Reporting(Forced) /\ p # q
  <2>1. \A r \in {Path, Reporting(OfT2(Path)), OfT2(Forced), ParentToo} : p # r /\ q # r
    BY <1>3, QuestionFields, Zenon
  <2>2. purpose.role # Moved /\ (AreCompared(purpose.own[1], purpose.own[2]) => d \in parents)
    BY <1>3, <2>1 DEF MayAsk, ParentToo
  <2>3. purpose.role = Moved \/ (AreCompared(purpose.own[1], purpose.own[2]) /\ d \notin parents)
    BY <1>3, <2>1 DEF MayAsk, ParentToo
  <2> QED  BY <2>2, <2>3
<1>4. CASE q = Forced /\ p = Reporting(Forced) /\ p # q
  <2>1. \A r \in {Path, Reporting(OfT2(Path)), OfT2(Forced), ParentToo} : p # r /\ q # r
    BY <1>4, QuestionFields, Zenon
  <2>2. purpose.role # Moved /\ (AreCompared(purpose.own[1], purpose.own[2]) => d \in parents)
    BY <1>4, <2>1 DEF MayAsk, ParentToo
  <2>3. purpose.role = Moved \/ (AreCompared(purpose.own[1], purpose.own[2]) /\ d \notin parents)
    BY <1>4, <2>1 DEF MayAsk, ParentToo
  <2> QED  BY <2>2, <2>3
<1> QED  BY <1>2, <1>3, <1>4

(* Questions that differ only in the level they are asked of have one      *)
(* answer.                                                                 *)
LEMMA AlikePath ==
  ASSUME NEW q, NEW p, Alike(q, p), NEW line, NEW n
  PROVE  PathOf(line, n, q) = PathOf(line, n, p)
<1>1. q.force = p.force /\ q.use_t2 = p.use_t2 /\ q.reporting_move = p.reporting_move
  BY DEF Alike
<1>2. \A node : Step(node, q) = Step(node, p)
  BY <1>1, Zenon DEF Step
<1>3. \A node : Representable(node, q) <=> Representable(node, p)
  BY <1>1, <1>2, Zenon DEF Representable
<1> QED  BY <1>2, <1>3 DEF PathOf

(* A question of a view: its answer is that of a new question, and the     *)
(* caches go on to hold such answers.                                      *)
LEMMA AskView ==
  ASSUME NEW g, NEW f, NEW parents, ViewCache(g, f, cache, parents),
         NEW line \in LineType, NEW query, NEW n \in 1 .. Len(line), n = Asked(line, query),
         Ask(line, query), NEW kind, Conforms(g, f, line, kind),
         NEW base \in Questions, Alike(query, base),
         MayAsk(base, line[n].dict, g[line[n].dict], parents)
  PROVE  ViewCache(g, f, cache', parents) /\ AnswersAreFresh'
<1>1. PICK d : d = line[n].dict
  OBVIOUS
<1>2. PICK role : d \in 0 .. f - 1 /\ g[d] = Purpose(line, n, role)
  BY <1>1 DEF Conforms
<1>3. g[d].at = n /\ PathOf(g[d].rels, n, base) = PathOf(line, n, base)
  BY <1>2, PathByPurpose
<1>4. PathOf(line, n, query) = PathOf(line, n, base)
  BY AlikePath
<1>5. PICK new : new = CacheKey(line, n, query)
  OBVIOUS
<1>6. new = <<d, base.force, base.get_parent_too, base.use_t2>>
  BY <1>1, <1>5 DEF CacheKey, Alike
<1>7. MayAsk(base, d, g[d], parents)
  BY <1>1
<1>8. PICK path : path = AnswerTo(line, query)
  OBVIOUS
<1>9. path = IF new \in DOMAIN cache THEN cache[new] ELSE PathOf(line, n, query)
  BY <1>5, <1>8 DEF AnswerTo
<1>10. path = PathOf(line, n, query)
  <2>1. CASE new \in DOMAIN cache
    <3>1. PICK e \in 0 .. f - 1, q \in QueryType :
            /\ new = <<e, q.force, q.get_parent_too, q.use_t2>>
            /\ MayAsk(q, e, g[e], parents)
            /\ cache[new] = PathOf(g[e].rels, g[e].at, q)
      BY <2>1 DEF ViewCache
    <3>2. e = d /\ q.force = base.force /\ q.get_parent_too = base.get_parent_too /\ q.use_t2 = base.use_t2
      BY <3>1, <1>6
    <3>3. q = base
      BY <3>1, <3>2, <1>7, SameQuestion
    <3>4. cache[new] = PathOf(g[d].rels, g[d].at, base)
      BY <3>1, <3>2, <3>3
    <3> QED  BY <3>4, <2>1, <1>3, <1>4, <1>9
  <2>2. CASE new \notin DOMAIN cache
    BY <2>2, <1>9
  <2> QED  BY <2>1, <2>2
<1>11. answer' = [line |-> line, query |-> query, path |-> path]
  BY <1>8 DEF Ask
<1>12. AnswersAreFresh'
  <2>1. answer'.line = line /\ answer'.query = query /\ answer'.path = path
    BY <1>11
  <2>2. answer'.path = PathOf(answer'.line, Asked(answer'.line, answer'.query), answer'.query)
    BY <2>1, <1>10
  <2> QED  BY <2>2 DEF AnswersAreFresh
<1>13. cache' = [key \in DOMAIN cache \cup {new} |-> IF key \in DOMAIN cache THEN cache[key] ELSE path]
  BY <1>5, <1>8 DEF Ask
<1>14. ASSUME NEW key \in DOMAIN cache'
       PROVE  \E e \in 0 .. f - 1, q \in QueryType :
                /\ key = <<e, q.force, q.get_parent_too, q.use_t2>>
                /\ MayAsk(q, e, g[e], parents)
                /\ cache'[key] = PathOf(g[e].rels, g[e].at, q)
  <2>1. CASE key \in DOMAIN cache
    <3>1. cache'[key] = cache[key]
      BY <2>1, <1>13
    <3> QED  BY <2>1, <3>1 DEF ViewCache
  <2>2. CASE key \notin DOMAIN cache
    <3>1. key = new /\ cache'[key] = path
      BY <2>2, <1>13
    <3>2. base \in QueryType
      BY QuestionFields
    <3>3. path = PathOf(g[d].rels, g[d].at, base)
      BY <1>3, <1>4, <1>10
    <3> QED  BY <3>1, <3>2, <3>3, <1>2, <1>6, <1>7
  <2> QED  BY <2>1, <2>2
<1> QED  BY <1>12, <1>14 DEF ViewCache

(* A question the cache knows already changes nothing.                     *)
LEMMA AskAgain ==
  ASSUME NEW g, NEW f, NEW parents, ViewCache(g, f, cache, parents), NEW line, NEW query, NEW n,
         n = Asked(line, query), Ask(line, query), CacheKey(line, n, query) \in DOMAIN cache
  PROVE  ViewCache(g, f, cache', parents)
<1>1. PICK new \in DOMAIN cache : new = CacheKey(line, n, query)
  OBVIOUS
<1>2. PICK path : path = AnswerTo(line, query)
  OBVIOUS
<1>3. cache' = [key \in DOMAIN cache \cup {new} |-> IF key \in DOMAIN cache THEN cache[key] ELSE path]
  BY <1>1, <1>2 DEF Ask
<1>4. DOMAIN cache' = DOMAIN cache /\ \A key \in DOMAIN cache : cache'[key] = cache[key]
  BY <1>3
<1> QED  BY <1>4 DEF ViewCache

(* Keys only come.                                                         *)
LEMMA KeysStay ==
  ASSUME NEW line, NEW query, NEW n, n = Asked(line, query), Ask(line, query)
  PROVE  DOMAIN cache' = DOMAIN cache \cup {CacheKey(line, n, query)}
BY DEF Ask

(* The two questions to the level above a report share a key.              *)
LEMMA ParentKey ==
  ASSUME NEW line, NEW n
  PROVE  /\ CacheKey(line, n, OfUp(Forced)) = <<line[n].dict, "fake", FALSE, FALSE>>
         /\ CacheKey(line, n, Reporting(OfUp(Forced))) = <<line[n].dict, "fake", FALSE, FALSE>>
<1>1. ASSUME NEW q \in QueryType, q.force = "fake", ~q.get_parent_too, ~q.use_t2
      PROVE  CacheKey(line, n, q) = <<line[n].dict, "fake", FALSE, FALSE>>
  <2>1. q.get_parent_too \in BOOLEAN /\ q.use_t2 \in BOOLEAN
    BY DEF QueryType
  <2>2. q.get_parent_too = FALSE /\ q.use_t2 = FALSE
    BY <2>1, <1>1, Zenon
  <2> QED  BY <2>2, <1>1, Zenon DEF CacheKey
<1>2. /\ OfUp(Forced).force = "fake" /\ ~OfUp(Forced).get_parent_too /\ ~OfUp(Forced).use_t2
      /\ Reporting(OfUp(Forced)).force = "fake"
      /\ ~Reporting(OfUp(Forced)).get_parent_too /\ ~Reporting(OfUp(Forced)).use_t2
  BY QuestionFields DEF Alike
<1> QED  BY <1>1, <1>2, QuestionFields, Zenon

(* The questions about a report, by its kind.                              *)
LEMMA QuestionsOfMoves ==
  ASSUME NEW view \in {"text", "delta", "pretty"}, NEW n \in DOMAIN Queries(view, Moved)
  PROVE  \/ Queries(view, Moved)[n] \in {Path, Reporting(OfT2(Path)), Reporting(Forced)}
         \/ view = "delta" /\ Queries(view, Moved)[n] = Reporting(OfUp(Forced))
<1>1. CASE view = "text"
  <2>1. Queries(view, Moved) = <<Reporting(OfT2(Path)), Reporting(Forced)>>
    BY <1>1 DEF Queries, TextQueries, Moved
  <2> QED  BY <2>1
<1>2. CASE view = "delta"
  <2>1. Queries(view, Moved) = <<Reporting(OfUp(Forced)), Reporting(OfT2(Path)), Reporting(Forced)>>
    BY <1>2 DEF Queries, DeltaQueries, Moved
  <2> QED  BY <2>1, <1>2
<1>3. CASE view = "pretty"
  <2>1. Queries(view, Moved) = <<Path>>
    BY <1>3 DEF Queries, PrettyQueries
  <2> QED  BY <2>1
<1> QED  BY <1>1, <1>2, <1>3

(* ... and about the others.                                               *)
LEMMA QuestionsOfOthers ==
  ASSUME NEW view \in {"text", "delta", "pretty"}, NEW kind, kind # Moved, NEW n \in DOMAIN Queries(view, kind)
  PROVE  \/ Queries(view, kind)[n] \in {Path, Forced, OfT2(Forced), ParentToo}
         \/ /\ view = "delta" /\ scenario.compare /\ kind \in {"iterable_item_added", "iterable_item_removed"}
            /\ Queries(view, kind)[n] = OfUp(Forced)
<1>1. CASE view = "text"
  <2>1. Queries(view, kind) \in {<<Forced, OfT2(Forced)>>, <<Forced>>}
    BY <1>1 DEF Queries, TextQueries
  <2> QED  BY <2>1
<1>2. CASE view = "delta"
  <2>1. CASE kind = "values_changed"
    <3>1. Queries(view, kind) = <<Forced, OfT2(Forced)>>
      BY <1>2, <2>1 DEF Queries, DeltaQueries, Moved
    <3> QED  BY <3>1
  <2>2. CASE kind \in {"iterable_item_added", "iterable_item_removed"} /\ scenario.compare
    <3>1. Queries(view, kind) = <<OfUp(Forced), Forced>>
      BY <1>2, <2>2 DEF Queries, DeltaQueries, Moved
    <3> QED  BY <3>1, <2>2, <1>2
  <2>3. CASE kind \in {"iterable_item_added", "iterable_item_removed"} /\ ~scenario.compare
    <3>1. Queries(view, kind) = <<ParentToo>>
      BY <1>2, <2>3 DEF Queries, DeltaQueries, Moved, ParentToo
    <3> QED  BY <3>1
  <2>4. CASE kind \notin {"values_changed", "iterable_item_added", "iterable_item_removed"}
    <3>1. Queries(view, kind) = <<Forced>>
      BY <1>2, <2>4 DEF Queries, DeltaQueries
    <3> QED  BY <3>1
  <2> QED  BY <2>1, <2>2, <2>3, <2>4
<1>3. CASE view = "pretty"
  <2>1. Queries(view, kind) = <<Path>>
    BY <1>3 DEF Queries, PrettyQueries
  <2> QED  BY <2>1
<1> QED  BY <1>1, <1>2, <1>3

(* The level above a move holds two containers that are compared.          *)
LEMMA AboveMove ==
  ASSUME NEW s, NEW line, GoodLine(s, line), NEW n \in 1 .. Len(line) - 1
  PROVE  AreCompared(Own(line, n)[1], Own(line, n)[2])
<1>1. PICK m \in Nat : m = Len(line)
  BY DEF GoodLine, LineType
<1>2. IsAbove(s, line[n], line[n + 1])
  BY DEF GoodLine
<1>3. AreCompared(line[n].o1, line[n].o2)
  BY <1>2 DEF IsAbove
<1>4. n > 1 => line[n - 1].p2 # NoElement
  <2>1. ASSUME n > 1  PROVE line[n - 1].p2 # NoElement
    <3>1. n - 1 \in 1 .. Len(line) - 2
      BY <1>1, <2>1
    <3> QED  BY <3>1 DEF GoodLine, IsPassed
  <2> QED  BY <2>1
<1>5. Own(line, n) = <<line[n].o1, line[n].o2>>
  BY <1>4 DEF Own
<1> QED  BY <1>3, <1>5

(* A question of the current view: its answer, and the caches.             *)
LEMMA AnswerInView ==
  ASSUME Inv, phase = "views", NEW question \in plan,
         \A other \in plan \ {question} : Before(question.at, other.at),
         Ask(question.line, question.query),
         NEW g, Ledger(g, fresh), ViewCache(g, fresh, cache, ParentDicts)
  PROVE  ViewCache(g, fresh, cache', ParentDicts) /\ AnswersAreFresh'
<1>1. Scene /\ Reports /\ Planned /\ ParentsFirst
  BY DEF Inv, Structure
<1>2. PICK view \in {"text", "delta", "pretty"} : view = views[Len(views)] /\ question \in PlanOf(view, reports)
  <2>1. views \in Seq({"text", "delta", "pretty"}) /\ views # <<>> /\ plan \subseteq PlanOf(views[Len(views)], reports)
    BY <1>1 DEF Planned
  <2>2. views[Len(views)] \in {"text", "delta", "pretty"}
    BY <2>1
  <2> QED  BY <2>1, <2>2
<1>3. PICK k \in DOMAIN Kinds, i \in DOMAIN reports, n \in 1 .. 3 :
        /\ question.at = <<k, i, n>> /\ question.line = reports[i].line /\ reports[i].kind = Kinds[k]
        /\ n \in DOMAIN Queries(view, Kinds[k]) /\ question.query = Queries(view, Kinds[k])[n]
  BY <1>2, PlanFacts
<1>4. PICK line, kind, query :
        /\ line = reports[i].line /\ kind = reports[i].kind /\ query = question.query
        /\ query = Queries(view, kind)[n] /\ n \in DOMAIN Queries(view, kind) /\ question.line = line
  BY <1>3
<1>5. GoodReport(scenario, reports[i]) /\ GoodLine(scenario, line) /\ line \in LineType /\ line # <<>>
  BY <1>1, <1>4 DEF Reports, GoodReport, GoodLine
<1>6. PICK m \in Nat \ {0} : m = Len(line)
  BY <1>5, LineFacts
<1>7. Conforms(g, fresh, line, kind)
  BY <1>4 DEF Ledger
<1>8. \A l \in 1 .. m : g[line[l].dict] = Purpose(line, l, Role(line, l, kind))
  BY <1>6, <1>7 DEF Conforms
<1>9. \A l \in 1 .. m : g[line[l].dict].role = Role(line, l, kind) /\ g[line[l].dict].own = Own(line, l)
  <2>1. \A l, role : Purpose(line, l, role).role = role /\ Purpose(line, l, role).own = Own(line, l)
    BY DEF Purpose
  <2> QED  BY <2>1, <1>8
<1>10. Ask(line, query)
  BY <1>4
<1>11. ASSUME query \in Questions, MayAsk(query, line[m].dict, g[line[m].dict], ParentDicts)
       PROVE  ViewCache(g, fresh, cache', ParentDicts) /\ AnswersAreFresh'
  <2>1. m = Asked(line, query) /\ m \in 1 .. Len(line)
    BY <1>6, <1>11, QuestionFields DEF Asked
  <2>2. Alike(query, query)
    BY DEF Alike
  <2> QED  BY <2>1, <2>2, <1>5, <1>7, <1>10, <1>11, AskView
<1>12. CASE query \in {Path, Reporting(OfT2(Path)), OfT2(Forced), ParentToo}
  <2>1. query \in Questions /\ MayAsk(query, line[m].dict, g[line[m].dict], ParentDicts)
    BY <1>12 DEF Questions, MayAsk, ParentToo
  <2> QED  BY <2>1, <1>11
<1>13. CASE kind = Moved /\ query = Reporting(Forced)
  <2>1. g[line[m].dict].role = Moved
    BY <1>6, <1>9, <1>13 DEF Role
  <2>2. query \in Questions /\ MayAsk(query, line[m].dict, g[line[m].dict], ParentDicts)
    BY <2>1, <1>13 DEF Questions, MayAsk
  <2> QED  BY <2>2, <1>11
<1>14. CASE kind # Moved /\ query = Forced
  <2>1. g[line[m].dict].role # Moved
    BY <1>6, <1>9, <1>14 DEF Role, Walked, Moved
  <2>2. ~AreCompared(Own(line, m)[1], Own(line, m)[2])
    BY <1>4, <1>5, <1>6, <1>14 DEF GoodReport
  <2>3. query \in Questions /\ MayAsk(query, line[m].dict, g[line[m].dict], ParentDicts)
    BY <2>1, <2>2, <1>6, <1>9, <1>14 DEF Questions, MayAsk
  <2> QED  BY <2>3, <1>11
<1>15. ASSUME query.up, kind # "values_changed"
       PROVE  /\ m - 1 \in 1 .. Len(line) - 1 /\ m - 1 \in 1 .. Len(line) /\ m - 1 = Asked(line, query)
              /\ g[line[m - 1].dict].role = Walked
              /\ AreCompared(g[line[m - 1].dict].own[1], g[line[m - 1].dict].own[2])
  <2>1. m > 1
    BY <1>4, <1>5, <1>6, <1>15 DEF GoodReport
  <2>2. m - 1 \in 1 .. Len(line) - 1 /\ m - 1 \in 1 .. m /\ m - 1 # Len(line)
    BY <2>1, <1>6
  <2>3. m - 1 = Asked(line, query)
    BY <1>6, <1>15 DEF Asked
  <2>4. g[line[m - 1].dict].role = Walked
    BY <2>2, <1>9 DEF Role
  <2>5. AreCompared(Own(line, m - 1)[1], Own(line, m - 1)[2])
    BY <2>2, <1>5, AboveMove
  <2> QED  BY <2>2, <2>3, <2>4, <2>5, <1>6, <1>9
<1>16. CASE /\ scenario.compare /\ kind \in {"iterable_item_added", "iterable_item_removed"}
            /\ query = OfUp(Forced)
  <2>1. query.up /\ kind # "values_changed" /\ Alike(query, Forced) /\ Forced \in Questions
    BY <1>16, QuestionFields DEF Questions
  <2>2. line[m - 1].dict \in ParentDicts
    BY <1>4, <1>6, <1>16 DEF ParentDicts, AskParent, Parent
  <2>3. g[line[m - 1].dict].role # Moved
    BY <2>1, <1>15 DEF Walked, Moved
  <2>4. MayAsk(Forced, line[m - 1].dict, g[line[m - 1].dict], ParentDicts)
    BY <2>2, <2>3 DEF MayAsk
  <2> QED  BY <2>1, <2>4, <1>5, <1>7, <1>10, <1>15, AskView
<1>17. CASE view = "delta" /\ kind = Moved /\ query = Reporting(OfUp(Forced))
  <2>1. /\ query.up /\ query.reporting_move /\ kind # "values_changed"
        /\ Alike(query, Reporting(Forced)) /\ Reporting(Forced) \in Questions
    <3>1. Reporting(OfUp(Forced)).reporting_move
      BY QuestionFields, ReportingFields, UpFields
    <3> QED  BY <3>1, <1>17, QuestionFields DEF Questions, Moved
  <2>2. AnswersAreFresh'
    <3>1. answer'.query = query
      BY <1>10 DEF Ask
    <3> QED  BY <2>1, <3>1 DEF AnswersAreFresh
  <2>3. CASE line[m - 1].dict \notin ParentDicts
    <3>1. MayAsk(Reporting(Forced), line[m - 1].dict, g[line[m - 1].dict], ParentDicts)
      BY <2>1, <2>3, <1>15 DEF MayAsk
    <3> QED  BY <2>1, <3>1, <1>5, <1>7, <1>10, <1>15, AskView
  <2>4. CASE line[m - 1].dict \in ParentDicts
    <3>1. PICK j \in AskParent : line[m - 1].dict = Parent(j).dict
      BY <2>4 DEF ParentDicts
    <3>2. k = 6
      <4>1. \A l \in DOMAIN Kinds : Kinds[l] = Moved => l = 6
        BY DEF Kinds, Moved
      <4> QED  BY <4>1, <1>3, <1>4, <1>17
    <3>3. ASSUME NEW q \in plan, NEW l \in {4, 5}, q.at = <<l, j, 1>>
          PROVE  FALSE
      <4>1. q.at[1] = l /\ question.at[1] = 6
        BY <3>2, <3>3, <1>3
      <4>2. q # question
        BY <4>1
      <4>3. Before(question.at, q.at)
        BY <4>2
      <4>4. 6 < l \/ 6 = l
        BY <4>1, <4>3 DEF Before
      <4> QED  BY <4>4
    <3>4. <<Parent(j).dict, "fake", FALSE, FALSE>> \in DOMAIN cache
      BY <3>3, <1>1, <1>2, <1>17 DEF ParentsFirst
    <3>5. CacheKey(line, m - 1, query) \in DOMAIN cache
      BY <3>1, <3>4, <1>17, ParentKey
    <3> QED  BY <2>1, <2>2, <3>5, <1>10, <1>15, AskAgain
  <2> QED  BY <2>3, <2>4, <2>2
<1>18. CASE kind = Moved
  <2>1. \/ query \in {Path, Reporting(OfT2(Path)), Reporting(Forced)}
        \/ view = "delta" /\ query = Reporting(OfUp(Forced))
    BY <1>4, <1>18, QuestionsOfMoves
  <2> QED  BY <2>1, <1>12, <1>13, <1>17, <1>18
<1>19. CASE kind # Moved
  <2>1. \/ query \in {Path, Forced, OfT2(Forced), ParentToo}
        \/ /\ view = "delta" /\ scenario.compare /\ kind \in {"iterable_item_added", "iterable_item_removed"}
           /\ query = OfUp(Forced)
    BY <1>4, <1>19, QuestionsOfOthers
  <2> QED  BY <2>1, <1>12, <1>14, <1>16, <1>19
<1> QED  BY <1>18, <1>19

(* The merging or a view asks its next question.                           *)
LEMMA AnswerKeeps ==
  ASSUME Inv, Answer
  PROVE  Inv'
<1>1. PICK question \in plan :
        /\ \A other \in plan \ {question} : Before(question.at, other.at)
        /\ Ask(question.line, question.query)
        /\ plan' = plan \ {question}
  BY DEF Answer
<1>2. UNCHANGED <<scenario, pending, stack, change, phase, local, reports, fresh, views, merged>>
  BY DEF Answer
<1>3. Scene /\ Lines /\ Reports /\ Order /\ Planned /\ ParentsFirst /\ MergedAtOnePlace
  BY DEF Inv, Structure
<1>4. phase \in {"merge", "views"} /\ plan # {}
  BY <1>1, <1>3 DEF Planned, Scene
<1>5. PICK g : Ledger(g, fresh) /\ CacheHolds(g)
  BY DEF Inv, Caches
<1>6. CacheHolds(g)' /\ AnswersAreFresh'
  <2>1. CASE phase = "merge"
    <3>1. question.query = Path /\ \E i \in DOMAIN reports : question.line = reports[i].line
      BY <2>1, <1>3 DEF Planned
    <3>2. PICK i \in DOMAIN reports : question.line = reports[i].line
      BY <3>1
    <3>3. PICK line \in LineType : line = reports[i].line /\ line # <<>>
      BY <1>3 DEF Reports, GoodReport, GoodLine
    <3>4. PlainCache(g, fresh, cache)
      BY <2>1, <1>5 DEF CacheHolds
    <3>5. Conforms(g, fresh, line, reports[i].kind)
      BY <3>3, <1>5 DEF Ledger
    <3>6. Ask(line, Path)
      BY <1>1, <3>1, <3>2, <3>3
    <3>7. PlainCache(g, fresh, cache') /\ AnswersAreFresh'
      BY <3>3, <3>4, <3>5, <3>6, AskPath
    <3> QED  BY <2>1, <3>7, <1>2 DEF CacheHolds
  <2>2. CASE phase = "views"
    <3>1. ViewCache(g, fresh, cache, ParentDicts)
      BY <2>2, <1>5 DEF CacheHolds
    <3>2. ViewCache(g, fresh, cache', ParentDicts) /\ AnswersAreFresh'
      BY <2>2, <3>1, <1>1, <1>5, AnswerInView
    <3>3. ParentDicts' = ParentDicts
      BY <1>2 DEF ParentDicts, Parent, AskParent
    <3> QED  BY <2>2, <3>2, <3>3, <1>2 DEF CacheHolds
  <2> QED  BY <2>1, <2>2, <1>4
<1>7. Planned'
  <2>1. plan' \subseteq plan
    BY <1>1
  <2>2. phase' = phase /\ phase' \notin {"walk", "rebase"} /\ views' = views
    BY <1>2, <1>4
  <2>3. phase = "merge" => (\A q \in plan : q.query = Path /\ \E i \in DOMAIN reports : q.line = reports[i].line)'
    BY <2>1, <1>2, <1>3 DEF Planned
  <2>4. phase = "views" => (views # <<>> /\ plan \subseteq PlanOf(views[Len(views)], reports))'
    <3>1. phase = "views" => views # <<>> /\ plan \subseteq PlanOf(views[Len(views)], reports)
      BY <1>3, <1>4 DEF Planned
    <3>2. (PlanOf(views[Len(views)], reports))' = PlanOf(views[Len(views)], reports)
      BY <1>2 DEF PlanOf, Queries, DeltaQueries
    <3>3. (views # <<>>)' = (views # <<>>)
      BY <1>2
    <3> QED  BY <3>1, <3>2, <3>3, <2>1
  <2>5. phase = "views" => views' \in Seq({"text", "delta", "pretty"})
    BY <2>2, <1>3 DEF Planned
  <2>6. phase # "views" => views' = <<>>
    BY <2>2, <1>3 DEF Planned
  <2> QED  BY <2>2, <2>3, <2>4, <2>5, <2>6 DEF Planned
<1>8. ParentsFirst'
  <2>1. ASSUME phase = "views", views[Len(views)] = "delta", NEW i \in AskParent
        PROVE  \/ \E q \in plan' : \E k \in {4, 5} : q.at = <<k, i, 1>>
               \/ <<Parent(i).dict, "fake", FALSE, FALSE>> \in DOMAIN cache'
    <3>1. PICK n : n = Asked(question.line, question.query)
      OBVIOUS
    <3>2. DOMAIN cache' = DOMAIN cache \cup {CacheKey(question.line, n, question.query)}
      BY <3>1, <1>1, KeysStay
    <3>3. CASE <<Parent(i).dict, "fake", FALSE, FALSE>> \in DOMAIN cache
      BY <3>2, <3>3
    <3>4. ASSUME NEW q \in plan, q # question, NEW k \in {4, 5}, q.at = <<k, i, 1>>
          PROVE  \E r \in plan' : \E l \in {4, 5} : r.at = <<l, i, 1>>
      BY <3>4, <1>1
    <3>5. ASSUME NEW k \in {4, 5}, question.at = <<k, i, 1>>
          PROVE  <<Parent(i).dict, "fake", FALSE, FALSE>> \in DOMAIN cache'
      <4>1. question \in PlanOf("delta", reports)
        BY <2>1, <1>3, <1>4 DEF Planned
      <4>2. PICK l \in DOMAIN Kinds, j \in DOMAIN reports, o \in 1 .. 3 :
              /\ question.at = <<l, j, o>> /\ question.line = reports[j].line /\ reports[j].kind = Kinds[l]
              /\ question.query = Queries("delta", Kinds[l])[o]
        BY <4>1, PlanFacts
      <4>3. l = k /\ j = i /\ o = 1
        BY <4>2, <3>5
      <4>4. scenario.compare /\ reports[i].kind \in {"iterable_item_added", "iterable_item_removed"}
        BY <2>1 DEF AskParent
      <4>5. Queries("delta", reports[i].kind) = <<OfUp(Forced), Forced>>
        BY <4>4 DEF Queries, DeltaQueries, Moved
      <4>6. question.query = OfUp(Forced)
        BY <4>2, <4>3, <4>5
      <4>7. n = Len(question.line) - 1
        BY <4>6, <3>1, QuestionFields DEF Asked
      <4>8. CacheKey(question.line, n, question.query) = <<question.line[n].dict, "fake", FALSE, FALSE>>
        BY <4>6, ParentKey
      <4>9. question.line[n] = Parent(i)
        BY <4>2, <4>3, <4>7 DEF Parent
      <4> QED  BY <4>8, <4>9, <3>2
    <3>6. \/ \E q \in plan : \E k \in {4, 5} : q.at = <<k, i, 1>>
          \/ <<Parent(i).dict, "fake", FALSE, FALSE>> \in DOMAIN cache
      BY <2>1, <1>3, <1>4 DEF ParentsFirst
    <3>7. CASE \E q \in plan : \E k \in {4, 5} : q.at = <<k, i, 1>>
      <4>1. PICK q \in plan, k \in {4, 5} : q.at = <<k, i, 1>>
        BY <3>7
      <4> QED  BY <4>1, <3>4, <3>5
    <3> QED  BY <3>3, <3>6, <3>7
  <2> QED  BY <2>1, <1>2 DEF ParentsFirst, AskParent, Parent
<1>9. Lines' /\ Reports' /\ Order'
  <2>1. Lines'
    BY <1>2, <1>3 DEF Lines, InWorker
  <2>2. Reports'
    BY <1>2, <1>3 DEF Reports, InWorker
  <2>3. Order'
    BY <1>2, <1>3 DEF Order, InWorker, RootOf
  <2> QED  BY <2>1, <2>2, <2>3
<1>10. Scene' /\ MergedAtOnePlace' /\ Ledger(g, fresh)'
  <2>1. Scene'
    BY <1>2, <1>3 DEF Scene
  <2>2. MergedAtOnePlace'
    BY <1>2, <1>3 DEF MergedAtOnePlace
  <2>3. Ledger(g, fresh)'
    BY <1>2, <1>5 DEF Ledger
  <2> QED  BY <2>1, <2>2, <2>3
<1> QED  BY <1>6, <1>7, <1>8, <1>9, <1>10 DEF Inv, Structure, Caches

-----------------------------------------------------------------------------
(* The theorems.                                                           *)

(* The invariant holds in the beginning,                                   *)
LEMMA InitHolds ==
  ASSUME Init
  PROVE  Inv
<1>1. /\ scenario \in Scenarios /\ pending = <<Node(scenario.t1, scenario.t2, 0)>>
      /\ stack = <<>> /\ change = <<>> /\ phase = "walk" /\ local = <<>> /\ reports = <<>>
      /\ cache = <<>> /\ fresh = 1 /\ plan = {} /\ views = <<>> /\ merged = {}
      /\ answer = [line |-> pending, query |-> Path, path |-> PathOf(pending, 1, Path)]
  BY DEF Init
<1>2. IsScenario(scenario)
  BY <1>1, DiffTreeAssumption
<1>3. PICK s : s = scenario
  OBVIOUS
<1>4. PICK o1 \in Present, o2 \in Present : o1 = s.t1 /\ o2 = s.t2
  BY <1>2, <1>3 DEF IsScenario, Present
<1>5. AreCompared(o1, o2) => <<o1, o2>> \in DOMAIN s.pairs
  BY <1>2, <1>3, <1>4 DEF IsScenario
<1>6. PICK node \in NodeType : node = Node(o1, o2, 0) /\ node.o1 = o1 /\ node.o2 = o2 /\ ~node.moved /\ node.dict = 0
  <2>1. o1 \in Things /\ o2 \in Things
    BY DEF Things
  <2> QED  BY <2>1, NewNode
<1>7. PICK line : /\ line = pending /\ line = <<node>> /\ Len(line) = 1 /\ line[1] = node /\ line \in LineType /\ line # <<>>
                  /\ Leaf(line) = node
  <2>1. PICK line : line = <<node>>
    OBVIOUS
  <2>2. Len(line) = 1 /\ line[1] = node /\ line \in Seq(NodeType) /\ line # <<>>
    BY <2>1, <1>6
  <2>3. line = pending
    BY <2>1, <1>1, <1>3, <1>4, <1>6
  <2> QED  BY <2>1, <2>2, <2>3 DEF LineType, Leaf
<1>8. OpenLine(s, line)
  <2>1. GoodLine(s, line)
    BY <1>6, <1>7 DEF GoodLine
  <2> QED  BY <2>1, <1>3, <1>4, <1>6, <1>7, <1>5 DEF OpenLine
<1>9. OpenLine(s, <<>>)
  BY NoLine
<1>10. Scene
  BY <1>1 DEF Scene
<1>11. Lines
  <2>1. Frames(s, <<>>)
    BY DEF Frames
  <2> QED  BY <2>1, <1>1, <1>3, <1>4, <1>7, <1>8, <1>9 DEF Lines, InWorker
<1>12. Reports
  BY <1>1 DEF Reports, InWorker
<1>13. Order
  <2>1. RootOf(pending)
    BY <1>3, <1>4, <1>6, <1>7 DEF RootOf, Main, RootIs
  <2> QED  BY <2>1, <1>1 DEF Order, InWorker, Nested
<1>14. Planned /\ ParentsFirst /\ MergedAtOnePlace
  <2>1. Planned
    BY <1>1 DEF Planned
  <2>2. ParentsFirst
    BY <1>1 DEF ParentsFirst
  <2>3. MergedAtOnePlace
    BY <1>1 DEF MergedAtOnePlace
  <2> QED  BY <2>1, <2>2, <2>3
<1>15. AnswersAreFresh
  <2>1. answer.line = line /\ answer.query = Path /\ answer.path = PathOf(line, 1, Path)
    BY <1>1, <1>7
  <2>2. Asked(line, Path) = 1
    BY <1>7, PathFields DEF Asked
  <2> QED  BY <2>1, <2>2 DEF AnswersAreFresh
<1>16. Caches
  <2>1. PICK g : g = [d \in {0} |-> Purpose(line, 1, Walked)]
    OBVIOUS
  <2>2. Conforms(g, 1, line, Walked)
    <3>1. Role(line, 1, Walked) = Walked
      BY DEF Role, Walked, Moved
    <3>2. g[0] = Purpose(line, 1, Walked)
      BY <2>1
    <3> QED  BY <3>1, <3>2, <1>6, <1>7 DEF Conforms
  <2>3. Conforms(g, 1, <<>>, Walked)
    BY DEF Conforms
  <2>4. Ledger(g, fresh)
    BY <2>2, <2>3, <1>1, <1>7 DEF Ledger
  <2>5. CacheHolds(g)
    BY <1>1 DEF CacheHolds, PlainCache
  <2> QED  BY <2>4, <2>5 DEF Caches
<1> QED  BY <1>10, <1>11, <1>12, <1>13, <1>14, <1>15, <1>16 DEF Inv, Structure

(* and when nothing happens.                                               *)
LEMMA NothingChanges ==
  ASSUME Inv, UNCHANGED vars
  PROVE  Inv'
<1>1. UNCHANGED <<scenario, pending, stack, change, phase, local, reports, cache, fresh, plan, views, merged, answer>>
  BY DEF vars
<1>2. Scene' /\ Lines' /\ Reports' /\ Order'
  <2>1. Scene'
    BY <1>1 DEF Inv, Structure, Scene
  <2>2. Lines'
    BY <1>1 DEF Inv, Structure, Lines, InWorker
  <2>3. Reports'
    BY <1>1 DEF Inv, Structure, Reports, InWorker
  <2>4. Order'
    BY <1>1 DEF Inv, Structure, Order, InWorker, RootOf
  <2> QED  BY <2>1, <2>2, <2>3, <2>4
<1>3. Planned'
  <2>1. (PlanOf(views[Len(views)], reports))' = PlanOf(views[Len(views)], reports)
    BY <1>1 DEF PlanOf, Queries, DeltaQueries
  <2> QED  BY <2>1, <1>1 DEF Inv, Structure, Planned
<1>4. ParentsFirst'
  BY <1>1 DEF Inv, Structure, ParentsFirst, AskParent, Parent
<1>5. Caches'
  <2>1. PICK g : Ledger(g, fresh) /\ CacheHolds(g)
    BY DEF Inv, Caches
  <2>2. Ledger(g, fresh)'
    BY <2>1, <1>1 DEF Ledger
  <2>3. ParentDicts' = ParentDicts
    BY <1>1 DEF ParentDicts, Parent, AskParent
  <2>4. CacheHolds(g)'
    BY <2>1, <2>3, <1>1 DEF CacheHolds
  <2> QED  BY <2>2, <2>4 DEF Caches
<1>6. AnswersAreFresh' /\ MergedAtOnePlace'
  BY <1>1 DEF Inv, AnswersAreFresh, MergedAtOnePlace, PathOf, Asked
<1> QED  BY <1>2, <1>3, <1>4, <1>5, <1>6 DEF Inv, Structure

(* The invariant is inductive.                                             *)
THEOREM InvariantHolds == Spec => []Inv
<1>1. Inv /\ [Next]_vars => Inv'
  <2>1. SUFFICES ASSUME Inv, [Next]_vars  PROVE Inv'
    OBVIOUS
  <2>2. CASE UNCHANGED vars
    BY <2>1, <2>2, NothingChanges
  <2>3. CASE DiffSame \/ Diff
    BY <2>1, <2>3, DiffSameKeeps, DiffKeeps
  <2>4. CASE ReportItem \/ GoDeeper \/ ReportMove \/ Defer
    BY <2>1, <2>4, ReportItemKeeps, GoDeeperKeeps, ReportMoveKeeps, DeferKeeps
  <2>5. CASE StartJob \/ Return \/ EndJob
    BY <2>1, <2>5, StartJobKeeps, ReturnKeeps, EndJobKeeps
  <2>6. CASE Rebase \/ EndRebase
    BY <2>1, <2>6, RebaseKeeps, EndRebaseKeeps
  <2>7. CASE EndWalk \/ Answer \/ MergeAll \/ MakeView
    BY <2>1, <2>7, EndWalkKeeps, AnswerKeeps, MergeAllKeeps, MakeViewKeeps
  <2>8. CASE Stop
    BY <2>1, <2>8, NothingChanges DEF Stop
  <2> QED  BY <2>1, <2>2, <2>3, <2>4, <2>5, <2>6, <2>7, <2>8 DEF Next
<1> QED  BY <1>1, InitHolds, PTL DEF Spec

(* A cached path is that of the level that is asked: whatever is walked,   *)
(* marked as moved, rebased and merged, no level is left with the path of  *)
(* another place (DiffLevel.path).                                         *)
THEOREM AnswersAreAlwaysFresh == Spec => []AnswersAreFresh
<1>1. Inv => AnswersAreFresh
  BY DEF Inv
<1> QED  BY <1>1, InvariantHolds, PTL

(* Only a removal and an addition in one pair of containers become a       *)
(* change of a value (mutual_add_removes_to_become_value_changes).         *)
THEOREM MergesAreAtOnePlace == Spec => []MergedAtOnePlace
<1>1. Inv => MergedAtOnePlace
  BY DEF Inv
<1> QED  BY <1>1, InvariantHolds, PTL

(* The lines of all reports hang together, those that came from a worker   *)
(* and those that merging changed, too (branch_deeper,                     *)
(* _rebase_subtree_leaf).                                                  *)
THEOREM LinesAlwaysHangTogether == Spec => []LinesHangTogether
<1>1. Inv => LinesHangTogether
  <2>1. SUFFICES ASSUME Inv  PROVE LinesHangTogether
    OBVIOUS
  <2>2. Scene /\ IsScenario(scenario) /\ Reports /\ Order
    BY <2>1, DiffTreeAssumption DEF Inv, Structure, Scene
  <2>3. ASSUME NEW report, GoodReport(scenario, report)  PROVE IsLine(report.line)
    <3>1. GoodLine(scenario, report.line) /\ report.line # <<>>
      BY <2>3 DEF GoodReport
    <3> QED  BY <3>1, <2>2, GoodIsLine
  <2>4. \A i \in DOMAIN reports : IsLine(reports[i].line)
    BY <2>2, <2>3 DEF Reports
  <2>5. \A i \in DOMAIN local : IsLine(local[i].line)
    BY <2>2, <2>3 DEF Reports
  <2>6. \A key \in DOMAIN cache : key[1] < fresh
    <3>1. PICK g : CacheHolds(g)
      BY <2>1 DEF Inv, Caches
    <3>2. ASSUME NEW key \in DOMAIN cache  PROVE \E d \in 0 .. fresh - 1 : key[1] = d
      <4>1. CASE phase = "views"
        BY <3>1, <3>2, <4>1 DEF CacheHolds, ViewCache
      <4>2. CASE phase # "views"
        BY <3>1, <3>2, <4>2 DEF CacheHolds, PlainCache
      <4> QED  BY <4>1, <4>2
    <3>3. fresh \in Nat
      BY <2>2 DEF Scene
    <3> QED  BY <3>2, <3>3
  <2>7. phase # "walk" => stack = <<>> \/ InWorker
    BY <2>2 DEF Scene, Order
  <2>8. phase \in {"walk", "rebase", "merge", "views"}
    BY <2>2 DEF Scene
  <2> QED  BY <2>4, <2>5, <2>6, <2>7, <2>8 DEF LinesHangTogether
<1> QED  BY <1>1, InvariantHolds, PTL

=============================================================================
