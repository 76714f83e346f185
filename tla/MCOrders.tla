------------------------------ MODULE MCOrders ------------------------------
(***************************************************************************)
(* Instances of the coordination of orders for TLC.  Tasks only meet in    *)
(* the worker and share no row: one task, with every interleaving of its   *)
(* own messages, is the instance; the theorems are about any set of tasks. *)
(***************************************************************************)
EXTENDS OrdersProperties

CONSTANTS t1

OneTask == {t1}
=============================================================================
