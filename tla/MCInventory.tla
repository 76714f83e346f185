----------------------------- MODULE MCInventory -----------------------------
(***************************************************************************)
(* Instances of the inventory-service for TLC: the two workers meet in the *)
(* requests of one task, so one task on both routes is the core of each.   *)
(***************************************************************************)
EXTENDS InventoryProperties

CONSTANTS t1, t2

Message(t, seq, attempt, target) ==
  [task |-> t, seq |-> seq, attempt |-> attempt, target |-> target]

(* The fallback of t1 while its first request is unanswered, and t2. *)
OneTask     == {Message(t1, 2, 1, Primary), Message(t1, 5, 1, Fallback)}
WithUnknown == OneTask \cup {Message(t2, 2, 1, Primary)}
=============================================================================
