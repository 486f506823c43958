--------------------------- MODULE DeltaContract ---------------------------
(***************************************************************************)
(* What a Delta promises its user (docs/delta.rst, "t1 + delta == t2",     *)
(* "t2 - delta == t1"): however often it is used, on whatever objects and  *)
(* in either direction, added to the t1 it was made from it answers with   *)
(* t2 and subtracted from t2 it answers with t1, up to the order of their  *)
(* items if they were compared without order.  Of another object it makes  *)
(* an object of the same type, or raises.  Nothing of a use can be seen in *)
(* the next one, and a delta that is written out and made again keeps what *)
(* was promised, but for what that form cannot say.                        *)
(***************************************************************************)
EXTENDS FiniteSets, Functions

VARIABLES
  t1, t2,     \* the objects it was made from
  unordered,  \* was their order ignored?
  lossy,      \* operator -> does it promise nothing of these two objects?
  call,       \* the current or last call, [op, arg]
  outcome     \* of the call: [status, obj]

vars == <<t1, t2, unordered, lossy, call, outcome>>

Init ==
  /\ outcome.status = "none"
  /\ call.op = "none"

Idle == outcome.status # "none" \/ call.op = "none"

Begin ==
  /\ Idle
  /\ call'.op \in {"+", "-"}
  /\ outcome'.status = "none"
  /\ UNCHANGED <<t1, t2, unordered, lossy>>

Count(items, x) == Cardinality({ i \in DOMAIN items : items[i] = x })

Same(a, b) ==
  \/ a = b
  \/ /\ unordered
     /\ a.kind = b.kind
     /\ \A x \in Range(a.items) \cup Range(b.items) : Count(a.items, x) = Count(b.items, x)

(* It is made again from what has been written of it.                      *)
Remake ==
  /\ Idle
  /\ call'.op = "none"
  /\ outcome'.status = "none"
  /\ \A op \in {"+", "-"} : lossy[op] => lossy'[op]
  /\ UNCHANGED <<t1, t2, unordered>>

Promised ==
  CASE call.op = "+" /\ call.arg = t1 /\ ~lossy["+"] -> {t2}
    [] call.op = "-" /\ call.arg = t2 /\ ~lossy["-"] -> {t1}
    [] OTHER -> {}

Answer ==
  /\ ~Idle
  /\ outcome'.status = "returned"
  /\ IF Promised # {} THEN \A obj \in Promised : Same(outcome'.obj, obj) ELSE outcome'.obj.kind = call.arg.kind
  /\ UNCHANGED <<t1, t2, unordered, lossy, call>>

Raise ==
  /\ ~Idle
  /\ Promised = {}
  /\ outcome'.status \in {"raised", "crashed"}
  /\ UNCHANGED <<t1, t2, unordered, lossy, call>>

Next == Remake \/ Begin \/ Answer \/ Raise

Spec == Init /\ [][Next]_vars

=============================================================================
