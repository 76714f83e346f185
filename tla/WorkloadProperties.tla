-------------------------- MODULE WorkloadProperties --------------------------
(***************************************************************************)
(* What the bench relies on when it compares executions: the orders are    *)
(* numbered as they were made, and an accepted execution measured all of   *)
(* them.                                                                   *)
(***************************************************************************)
EXTENDS Workload

(* Threads that create orders at the same time, roll back or die leave the *)
(* numbers 1, 2, 3, ... without a gap or a repetition, and the line of an  *)
(* accepted request names the order made from its own body, whichever      *)
(* thread got the lock first.                                              *)
OrdersAccounted ==
  /\ \A r \in table : 1 .. r.number \subseteq Numbers
  /\ \A r, s \in table : r.number = s.number \/ r.index = s.index => r = s
  /\ \A i \in Orders : client[i].line.status = "202" =>
       \E r \in table : r.index = i /\ r.number = client[i].line.number

(* An execution without a failed request that settled measured every       *)
(* planned order once, each of them ended, and no order is created or      *)
(* changes after the files were collected; the tasks FAULT_APPLIED names   *)
(* are those of the orders that were altered, and none completed.  Only an *)
(* order whose sending thread died escapes: its line is missing, and       *)
(* nobody counts lines.                                                    *)
AcceptedRunIsComplete ==
  Accepted =>
    \A i \in Orders :
      \/ client[i].pc = "died"
      \/ /\ \E r \in tasks :
              /\ r.index = i /\ IsTerminal(r)
              /\ r.number \in Hit <=> BuildPlan[i].replaced
              /\ r.number \in Hit => r.status # "COMPLETED"
         /\ {r \in table : r.index = i} = {r \in tasks : r.index = i}
=============================================================================
