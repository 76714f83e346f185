---------------------------- MODULE MCTraceability ----------------------------
(***************************************************************************)
(* Instances of the files of an execution for TLC.                         *)
(***************************************************************************)
EXTENDS TraceabilityProperties

CONSTANTS t1

OneTask == {t1}
=============================================================================
