------------------------------ MODULE MCProtocol ------------------------------
(***************************************************************************)
(* Instances of the experimental protocol for TLC: the scenarios with the  *)
(* hardest faults, so that the engines alternate and a fault can outlive   *)
(* the execution it was meant for.                                         *)
(***************************************************************************)
EXTENDS ProtocolProperties

TwoFaults == [recovery |-> "outage", timeout |-> "route"]
Both == <<"recovery", "timeout">>
=============================================================================
