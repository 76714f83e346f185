---------------------------- MODULE TaskLifecycle ----------------------------
(***************************************************************************)
(* What the orders-service promises of a task and its order, without       *)
(* messages, decisions or processes: the transitions of a row of tasks,    *)
(* each with its order.  docs/05 draws this state machine; the transitions *)
(* are those of the UPDATE statements of repositories.py, bounded by the   *)
(* limits the validator enforces.                                          *)
(***************************************************************************)
EXTENDS DecisionPoint

CONSTANT Tasks

VARIABLES row,    \* status, route and counters of each task
          order   \* status of its order

absent == [status |-> "ABSENT", target |-> None, attempt |-> 1, waits |-> 0,
           fallbackUsed |-> FALSE]

Live(t) == row[t].status \in ActiveStatuses

Init ==
  /\ row = [t \in Tasks |-> absent]
  /\ order = [t \in Tasks |-> "ABSENT"]

(* create_order_with_task *)
Create(t) ==
  /\ row[t].status = "ABSENT"
  /\ row' = [row EXCEPT ![t] = [absent EXCEPT !.status = "PENDING"]]
  /\ order' = [order EXCEPT ![t] = "PENDING"]

Becomes(t, new) == row' = [row EXCEPT ![t] = new] /\ UNCHANGED order

(* start_first_dispatch *)
Dispatch(t) ==
  /\ row[t].status \in {"PENDING", "WAITING"} /\ row[t].target = None
  /\ Becomes(t, [row[t] EXCEPT !.status = "DISPATCHED", !.target = Primary])

(* start_retry *)
ScheduleRetry(t) ==
  /\ Live(t) /\ row[t].target = Primary /\ row[t].attempt < MaxAttempts
  /\ Becomes(t, [row[t] EXCEPT !.status = "RETRYING", !.attempt = @ + 1])

(* mark_retry_dispatched *)
DispatchRetry(t) ==
  /\ row[t].status = "RETRYING"
  /\ Becomes(t, [row[t] EXCEPT !.status = "DISPATCHED"])

(* enter_wait *)
EnterWait(t) ==
  /\ Live(t) /\ row[t].waits < MaxWaits
  /\ Becomes(t, [row[t] EXCEPT !.status = "WAITING", !.waits = @ + 1])

(* start_fallback *)
StartFallback(t) ==
  /\ Live(t) /\ ~row[t].fallbackUsed
  /\ Becomes(t, [row[t] EXCEPT !.status = "FALLBACK_PROCESSING", !.target = Fallback,
                               !.fallbackUsed = TRUE])

(* complete_task, abort_task and dead_letter_task *)
Finish(t) ==
  \E status \in TerminalStatuses :
    /\ Live(t)
    /\ row' = [row EXCEPT ![t].status = status]
    /\ order' = [order EXCEPT ![t] = IF status = "COMPLETED" THEN "COMPLETED" ELSE "FAILED"]

Next ==
  \E t \in Tasks :
    \/ Create(t) \/ Dispatch(t) \/ ScheduleRetry(t) \/ DispatchRetry(t)
    \/ EnterWait(t) \/ StartFallback(t) \/ Finish(t)

Spec == Init /\ [][Next]_<<row, order>>
=============================================================================
