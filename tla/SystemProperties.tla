--------------------------- MODULE SystemProperties ---------------------------
(***************************************************************************)
(* What the two databases must tell of each other, though no transaction   *)
(* spans them.                                                             *)
(***************************************************************************)
EXTENDS System

IsReserved(t) == \E row \in reservations : row.task = t

(* A success of t that the orders-service has not recorded yet: stored and *)
(* not published, on its way, or on the way to its dead letters.           *)
SuccessPending(t) ==
  \E a \in answers :
    /\ a.request.task = t /\ a.result = "ok"
    /\ \/ a \notin published
       \/ \E m \in inbox \cup deadLetters : SameAnswer(m, AsReply(a))
       \/ InRequest(Worker) /\ SameAnswer(actor[Worker].msg, AsReply(a))

(* The success was recorded after the order had failed.                    *)
SucceededTooLate(t) ==
  /\ order[t] = "FAILED"
  /\ \/ Rows(t, "SUCCEEDED") = {} /\ Rows(t, "MESSAGE_DEAD_LETTERED") # {}
     \/ \E i \in Rows(t, "SUCCEEDED") :
          \E j \in Rows(t, "TASK_ABORTED") \cup Rows(t, "MESSAGE_DEAD_LETTERED") : j < i

(* The message of a success was rejected after an exception, and its dead  *)
(* letter could not be recorded either.                                    *)
SuccessLost(t) == losses > 0 /\ failures > 0 /\ Rows(t, "SUCCEEDED") = {}

(* An order is COMPLETED only over a reservation that was committed, and a *)
(* reservation is held for an order that completed, or will know of it, or *)
(* had failed before the success came: the stock the laboratory counts as  *)
(* failed_orders_with_reservation (run_scenario.py, lines 77 to 81).  It   *)
(* takes two exceptions for the orders-service not to hear of a success:   *)
(* one in the handler, one in the consumer of tasks.dlq.                   *)
StockAgrees ==
  \A t \in Tasks :
    /\ order[t] = "COMPLETED" => IsReserved(t)
    /\ IsReserved(t) =>
         order[t] = "COMPLETED" \/ SuccessPending(t) \/ SucceededTooLate(t) \/ SuccessLost(t)

(* Each service keeps to what the other was modelled and proved with.  The *)
(* requests reach the inventory-service one by one, in the order of their  *)
(* numbers and each from a task that made it, whatever raises or comes     *)
(* again in the orders-service; and queues, workers, faults and the end of *)
(* the container show the orders-service nothing but the answers, the      *)
(* repetitions and the dead letters of its environment.                    *)
ImplementsInventory    == Stock!Spec
ImplementsCoordination == Spec

(* Nothing starts the container again once it is gone (no restart policy). *)
Gone == Stock!ContainerDown /\ ~outage

(* An exception nothing comes back from: of the API, before the first      *)
(* request of the task was published (POST /orders answers 500), or of the *)
(* consumer of tasks.dlq, over a message that was rejected before.         *)
Dropped(t) == losses > 0 /\ ((\A r \in asked : r.task # t) \/ failures > 0)

(* Every task ends: handlers that raise, killed children, an outage and a  *)
(* window of faults all lead to an answer, a timeout or a dead letter, and *)
(* an API that raises after its request went out leaves it to the worker.  *)
(* Left waiting for ever is only a task that was dropped, or whose process *)
(* crashed, or whose container is gone.                                    *)
EveryTaskEndsHere ==
  \A t \in Tasks : Created(t) ~> Terminal(t) \/ Dropped(t) \/ crashes > 0 \/ Gone
=============================================================================
