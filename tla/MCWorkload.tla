------------------------------ MODULE MCWorkload ------------------------------
(***************************************************************************)
(* Instances of the load of an execution for TLC.                          *)
(***************************************************************************)
EXTENDS Consolidation

EveryFault == {"none", "overload", "inconsistent_data"}
=============================================================================
