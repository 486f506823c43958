------------------------- MODULE MCIgnoreOrderDiff -------------------------
(***************************************************************************)
(* Hashtables of up to three items of t1 (x and y) and of t2 (u and v, and *)
(* x again), repeated or not, with and without an item z in both: enough   *)
(* for pairing on and off, two pairs at once, repetitions on either side   *)
(* and a repetition change.  An index missing from a table is an item that *)
(* was filtered while hashing.                                             *)
(***************************************************************************)
EXTENDS IgnoreOrderDiff

CONSTANTS x, y, u, v, z,   \* hashes
          a, g, e          \* keys of the items, e a nested dictionary

OldTables == { x :> {0}, x :> {1}, x :> {0, 1}, x :> {0} @@ y :> {1},
               x :> {0, 2} @@ y :> {1} }
NewTables == { u :> {0}, u :> {0, 1}, u :> {1} @@ v :> {0}, u :> {0} @@ x :> {1},
               u :> {0, 2} @@ v :> {1}, x :> {0} }

SomeInputs ==
  { <<old, new>> : old \in OldTables, new \in NewTables }
    \cup { <<old @@ z :> {3}, new @@ z :> {3}>> : old \in OldTables, new \in NewTables }

NodesOfPairs ==
  <<x, u>> :> << <<a>>, <<e>>, <<e, g>> >> @@
  <<y, u>> :> << <<g>> >> @@
  <<x, v>> :> << <<e>>, <<e, a>> >> @@
  <<y, v>> :> << <<a>>, <<g>> >>

AllNear == { <<p[2], p[1]>> : p \in DOMAIN NodesOfPairs }

OptionsWith(limits, passLimits, excluded, included) ==
  [report_repetition: BOOLEAN, use_mp: BOOLEAN, max_diffs: limits, max_passes: passLimits,
   exclude_paths: excluded, include_paths: included]

(* Without filters every limit matters; with filters, no limit and one.    *)
ManyOptions ==
  OptionsWith({NoLimit} \cup 0 .. 9, {0, 1}, {{}}, {{}})
    \cup OptionsWith({NoLimit, 6}, {1}, {{<<0, e>>}, {<<g>>}, {<<0, a>>, <<1>>}}, {{}, {<<1>>}})

(* No limits, and one path filter of each kind or none.                    *)
FilterOptions ==
  OptionsWith({NoLimit}, {1}, {{}, {<<0, e>>}}, {{}, {<<1>>}})
=============================================================================
