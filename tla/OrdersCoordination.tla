------------------------- MODULE OrdersCoordination -------------------------
(***************************************************************************)
(* The orders-service: the API process that opens an order and takes the   *)
(* first decision of its task, the Celery worker that consumes             *)
(* orders.events one message at a time, the raw consumer of tasks.dlq that *)
(* runs beside it, and the three tables they share (orders.db).            *)
(*                                                                         *)
(* A database transaction is one step.  Between two transactions of one    *)
(* handler, and between a transaction and the messages sent after its      *)
(* commit, the actor is at a control point (actor[a].pc) and anything else *)
(* may happen: another consumer writes, the process dies, the broker       *)
(* delivers the message again.                                             *)
(*                                                                         *)
(* The inventory-service is seen through the promise of its reply: each    *)
(* request is answered with one outcome, later than any timeout or never,  *)
(* and the recorded answer may be sent again.                              *)
(***************************************************************************)
EXTENDS DecisionPoint, Sequences, FiniteSets

CONSTANTS Tasks,          \* tasks; each has one order (1:1) and one API request
          Worker,         \* the only child of the orders-worker (--concurrency=1)
          Engine,         \* experiment.decision_engine
          \* bounds of the environment, each named in the guard that uses it
          MaxCrashes,     \* processes killed
          MaxFailures,    \* exceptions in a Celery worker: the message is dead-lettered
          MaxLosses,      \* exceptions nothing repairs: an API request, a dead letter
          MaxReemissions  \* recorded answers sent again by the inventory-service

ASSUME ActorsAssumption ==
  /\ Worker \notin Tasks
  /\ Engine \in {"RULES", "LLM"}
  /\ MaxCrashes \in Nat /\ MaxFailures \in Nat
  /\ MaxLosses \in Nat /\ MaxReemissions \in Nat

VARIABLES
  task,         \* tasks rows
  order,        \* orders.status
  events,       \* task_events rows of each task, in event_id order
  processed,    \* processed_events: <<task, request>> of the replies applied
  actor,        \* control state of the API request of each task and of the worker
  inbox,        \* messages of orders.events not yet acknowledged or being processed
  requests,     \* messages of inventory.primary and inventory.fallback
  replies,      \* answers recorded by the inventory-service (processed_messages)
  deadLetters,  \* messages of tasks.dlq
  expired,      \* tasks older than task_deadline_ms
  crashes, failures, losses, reemissions

database == <<task, order, events, processed>>
broker   == <<inbox, requests, deadLetters>>
bounds   == <<crashes, failures, losses, reemissions>>
vars     == <<task, order, events, processed, actor, inbox, requests, replies,
              deadLetters, expired, crashes, failures, losses, reemissions>>

Actors == Tasks \cup {Worker}

-----------------------------------------------------------------------------
(* Rows and messages.                                                      *)

Reported == {"SUCCEEDED", "FAILED"}     \* STOCK_RESERVATION_*, service = inventory
EventTypes ==
  {"TASK_CREATED", "REQUESTED", "INVENTORY_TIMEOUT", "RETRY_SCHEDULED",
   "WAIT_SCHEDULED", "WAIT_FINISHED", "FALLBACK_SCHEDULED", "TASK_COMPLETED",
   "TASK_ABORTED", "MESSAGE_DEAD_LETTERED"} \cup Reported

TaskRow ==
  [status: TaskStatuses \cup {"ABSENT"}, target: Targets, attempt: Nat, waits: Nat,
   fallbackUsed: BOOLEAN, seq: Nat, lastResult: TaskResults \cup {None}]

AbsentRow ==
  [status |-> "ABSENT", target |-> None, attempt |-> 1, waits |-> 0,
   fallbackUsed |-> FALSE, seq |-> 0, lastResult |-> None]

(* ref: the event_seq of the request an answer or a timeout is about, the  *)
(* wait_count of a wait, otherwise 0.  A request is identified by its own  *)
(* event_seq and an answer by the request it answers, which stand for the  *)
(* random message_id of each.                                              *)
EventRow ==
  [type: EventTypes, seq: Nat, attempt: Nat, target: Targets, ref: Nat,
   redelivered: BOOLEAN]

Kinds == Reported \cup {"REQUESTED", "timeout_check", "dispatch_attempt", "reevaluate"}

Message ==
  [kind: Kinds, task: Tasks, ref: Nat, attempt: Nat, target: Targets,
   reason: TaskResults \cup {None}, redelivered: BOOLEAN]

OrderStatuses == {"ABSENT", "PENDING", "COMPLETED", "FAILED"}

OrderStatusFor(status) ==
  IF status = "COMPLETED" THEN "COMPLETED"
  ELSE IF status \in {"ABORTED", "DEAD_LETTERED"} THEN "FAILED" ELSE "PENDING"

Terminal(t) == task[t].status \in TerminalStatuses
Created(t)  == task[t].status # "ABSENT"

NoDecision == Decide("none", None, None)
NoMessage  == [kind |-> "none"]

Free     == [pc |-> "idle", task |-> None, msg |-> NoMessage,
             decision |-> NoDecision, effects |-> <<>>]
Finished == [Free EXCEPT !.pc = "done"]

At(a, pc) == actor[a].pc = pc

-----------------------------------------------------------------------------
(* The trajectory.                                                         *)

(* advance_event_seq on a row already changed by the same transaction.     *)
Numbered(row) == [row EXCEPT !.seq = @ + 1]

(* record_internal_event and the row of a published request: target and    *)
(* attempt_number are those of the task row after the change.              *)
OwnEvent(type, ref, row) ==
  [type |-> type, seq |-> row.seq, attempt |-> row.attempt, target |-> row.target,
   ref |-> ref, redelivered |-> FALSE]

(* record_message of a message received from the inventory-service.        *)
ReplyEvent(m, seq, redelivered) ==
  [type |-> m.kind, seq |-> seq, attempt |-> m.attempt, target |-> m.target,
   ref |-> m.ref, redelivered |-> redelivered]

IsRequest(e) == e.type = "REQUESTED" /\ ~e.redelivered

(* latest_request: row i of the trajectory of t.                           *)
IsLatestRequest(t, i) ==
  /\ IsRequest(events[t][i])
  /\ \A j \in DOMAIN events[t] : IsRequest(events[t][j]) => j <= i

IsCurrentRequest(t, seq) ==
  \E i \in DOMAIN events[t] : IsLatestRequest(t, i) /\ events[t][i].seq = seq

(* is_awaiting_reply: any row of the inventory-service after the latest    *)
(* request counts as its reply.                                            *)
IsAwaitingReply(t, seq) ==
  \E i \in DOMAIN events[t] :
    /\ IsLatestRequest(t, i) /\ events[t][i].seq = seq
    /\ \A j \in DOMAIN events[t] : j > i => events[t][j].type \notin Reported

TimeoutRegistered(t, seq) ==
  \E i \in DOMAIN events[t] :
    events[t][i].type = "INVENTORY_TIMEOUT" /\ events[t][i].ref = seq

WaitAlreadyFinished(t, count) ==
  \E i \in DOMAIN events[t] :
    events[t][i].type = "WAIT_FINISHED" /\ events[t][i].ref = count

(* event_seq_of_message: the first row of the reply not marked redelivered.*)
IsFirstRowOf(t, i, m) ==
  LET same(j) == /\ events[t][j].type = m.kind /\ events[t][j].ref = m.ref
                 /\ ~events[t][j].redelivered
  IN  same(i) /\ \A j \in DOMAIN events[t] : same(j) => i <= j

(* The row of t becomes row and rows are appended to its trajectory.       *)
Write(t, row, rows) ==
  /\ task'   = [task EXCEPT ![t] = row]
  /\ events' = [events EXCEPT ![t] = @ \o rows]

-----------------------------------------------------------------------------
Init ==
  /\ task        = [t \in Tasks |-> AbsentRow]
  /\ order       = [t \in Tasks |-> "ABSENT"]
  /\ events      = [t \in Tasks |-> <<>>]
  /\ processed   = {}
  /\ actor       = [a \in Actors |-> Free]
  /\ inbox       = {}
  /\ requests    = {}
  /\ replies     = {}
  /\ deadLetters = {}
  /\ expired     = {}
  /\ crashes = 0 /\ failures = 0 /\ losses = 0 /\ reemissions = 0

(* POST /orders, first transaction: create_order_with_task.                *)
CreateOrder(t) ==
  LET row == [AbsentRow EXCEPT !.status = "PENDING", !.seq = 1]
  IN  /\ At(t, "idle") /\ ~Created(t)
      /\ Write(t, row, <<OwnEvent("TASK_CREATED", 0, row)>>)
      /\ order' = [order EXCEPT ![t] = "PENDING"]
      /\ actor' = [actor EXCEPT ![t] = [Free EXCEPT !.pc = "build", !.task = t]]
      /\ UNCHANGED <<processed, inbox, requests, replies, deadLetters, expired, bounds>>

-----------------------------------------------------------------------------
(* Decision points.                                                        *)

(* StateBuilder.build: what the queues show is up to the environment, the  *)
(* two routes are observed one after the other.                            *)
Snapshot(t, consumers, fallbackConsumers, queueSize) ==
  [phase |-> task[t].status, currentTarget |-> task[t].target,
   attempt |-> task[t].attempt, waits |-> task[t].waits,
   elapsed |-> IF t \in expired THEN TaskDeadline ELSE 0,
   service |-> ServiceStatus(consumers, task[t].lastResult),
   lastResult |-> task[t].lastResult, queueSize |-> queueSize,
   fallbackAvailable |-> fallbackConsumers > 0,
   fallbackUsed |-> task[t].fallbackUsed]

Snapshots(t) ==
  {Snapshot(t, c, f, q) : c \in {0, 1}, f \in {0, 1}, q \in {0, QueueHighWatermark}}

(* The Rules engine proposes its policy; a language model may propose any  *)
(* text, an unreadable one, or nothing before its timeout.  What fails to  *)
(* be read, an invented word and an empty reason code are each refused     *)
(* whatever the rest of the proposal says.                                 *)
Proposals ==
  [action: Actions, target: Targets, reason: {"TEXT"}]
    \cup {NoProposal, Decide(Invented, None, "TEXT"), Decide("ABORT", Invented, "TEXT"),
          Decide("ABORT", None, None)}

EngineOutputs(s) ==
  IF Engine = "RULES" THEN {[proposal |-> RulesPolicy(s), timedOut |-> FALSE]}
  ELSE [proposal: Proposals, timedOut: {FALSE}]
         \cup {[proposal |-> NoProposal, timedOut |-> TRUE]}

Executed(s, output) ==
  ResolveAction(output.proposal, Validate(output.proposal, s, output.timedOut))

(* Orchestrator.handle_decision_point up to the executor.                  *)
TakeDecision(a) ==
  /\ At(a, "build")
  /\ \E s \in Snapshots(actor[a].task) : \E o \in EngineOutputs(s) :
       actor' = [actor EXCEPT ![a].pc = "execute", ![a].decision = Executed(s, o)]
  /\ UNCHANGED <<database, broker, replies, expired, bounds>>

-----------------------------------------------------------------------------
(* DecisionExecutor.execute: one transaction, then the effects.            *)

Executing(a, action) == At(a, "execute") /\ actor[a].decision.action = action

ThenSend(a, messages) ==
  actor' = [actor EXCEPT ![a].pc = "effects", ![a].decision = NoDecision,
                         ![a].effects = messages]

InternalMessage(kind, t, ref) ==
  [kind |-> kind, task |-> t, ref |-> ref, attempt |-> 0, target |-> None,
   reason |-> None, redelivered |-> FALSE]

(* _publish_request, on the row it has just numbered: the row of the       *)
(* trajectory, and the publication and the timeout check left for after    *)
(* the commit.                                                             *)
RequestEvent(row) == OwnEvent("REQUESTED", row.seq, row)

(* Defect: the envelope is built with the number before advance_event_seq. *)
RequestMessagesNumberedBefore(t, row) ==
  << [kind |-> "REQUESTED", task |-> t, ref |-> row.seq - 1, attempt |-> row.attempt,
      target |-> row.target, reason |-> None, redelivered |-> FALSE],
     InternalMessage("timeout_check", t, row.seq - 1) >>

RequestMessages(t, row) ==
  << [kind |-> "REQUESTED", task |-> t, ref |-> row.seq, attempt |-> row.attempt,
      target |-> row.target, reason |-> None, redelivered |-> FALSE],
     InternalMessage("timeout_check", t, row.seq) >>

ExecuteContinue(a) ==
  LET t   == actor[a].task
      row == Numbered([task[t] EXCEPT !.status = "DISPATCHED", !.target = Primary])
  IN  /\ Executing(a, "CONTINUE")
      /\ task[t].status \in {"PENDING", "WAITING"} /\ task[t].target = None
      /\ Write(t, row, <<RequestEvent(row)>>)
      /\ ThenSend(a, RequestMessages(t, row))
      /\ UNCHANGED <<order, processed, broker, replies, expired, bounds>>

ExecuteRetry(a) ==
  LET t   == actor[a].task
      row == Numbered([task[t] EXCEPT !.status = "RETRYING", !.attempt = @ + 1])
  IN  /\ Executing(a, "RETRY")
      /\ task[t].target # None /\ ~Terminal(t)
      /\ Write(t, row, <<OwnEvent("RETRY_SCHEDULED", 0, row)>>)
      /\ ThenSend(a, <<InternalMessage("dispatch_attempt", t, row.seq)>>)
      /\ UNCHANGED <<order, processed, broker, replies, expired, bounds>>

ExecuteWait(a) ==
  LET t   == actor[a].task
      row == Numbered([task[t] EXCEPT !.status = "WAITING", !.waits = @ + 1])
  IN  /\ Executing(a, "WAIT")
      /\ ~Terminal(t)
      /\ Write(t, row, <<OwnEvent("WAIT_SCHEDULED", row.waits, row)>>)
      /\ ThenSend(a, <<InternalMessage("reevaluate", t, row.waits)>>)
      /\ UNCHANGED <<order, processed, broker, replies, expired, bounds>>

ExecuteFallback(a) ==
  LET t         == actor[a].task
      scheduled == Numbered([task[t] EXCEPT !.status = "FALLBACK_PROCESSING",
                                            !.target = actor[a].decision.target,
                                            !.fallbackUsed = TRUE])
      row       == Numbered(scheduled)
  IN  /\ Executing(a, "FALLBACK")
      /\ ~task[t].fallbackUsed /\ ~Terminal(t)
      /\ Write(t, row, <<OwnEvent("FALLBACK_SCHEDULED", 0, scheduled), RequestEvent(row)>>)
      /\ ThenSend(a, RequestMessages(t, row))
      /\ UNCHANGED <<order, processed, broker, replies, expired, bounds>>

(* Defect: the abort does not look at the status.                          *)
ExecuteAbortAnyStatus(a) ==
  LET t   == actor[a].task
      row == Numbered([task[t] EXCEPT !.status = "ABORTED"])
  IN  /\ Executing(a, "ABORT")
      /\ Write(t, row, <<OwnEvent("TASK_ABORTED", 0, row)>>)
      /\ order' = [order EXCEPT ![t] = OrderStatusFor("ABORTED")]
      /\ ThenSend(a, <<>>)
      /\ UNCHANGED <<processed, broker, replies, expired, bounds>>

(* A terminal task is left as it is, without an error.                     *)
ExecuteAbort(a) ==
  LET t   == actor[a].task
      row == Numbered([task[t] EXCEPT !.status = "ABORTED"])
  IN  /\ Executing(a, "ABORT")
      /\ IF Terminal(t) THEN UNCHANGED <<task, order, events>>
         ELSE /\ Write(t, row, <<OwnEvent("TASK_ABORTED", 0, row)>>)
              /\ order' = [order EXCEPT ![t] = OrderStatusFor("ABORTED")]
      /\ ThenSend(a, <<>>)
      /\ UNCHANGED <<processed, broker, replies, expired, bounds>>

(* The transaction finds the task in a state the decision does not apply   *)
(* to: RuntimeError.                                                       *)
Applicable(t, d) ==
  /\ d.action = "CONTINUE" =>
       task[t].status \in {"PENDING", "WAITING"} /\ task[t].target = None
  /\ d.action = "RETRY"    => task[t].target # None /\ ~Terminal(t)
  /\ d.action = "WAIT"     => ~Terminal(t)
  /\ d.action = "FALLBACK" => ~task[t].fallbackUsed /\ ~Terminal(t)

(* Defect: a message whose handler raised is acknowledged and discarded    *)
(* (task_acks_on_failure_or_timeout left at its default).                  *)
RejectDiscards(a) ==
  /\ actor' = [actor EXCEPT ![a] = IF a = Worker THEN Free ELSE Finished]
  /\ UNCHANGED deadLetters

(* An exception leaves the worker's message to the dead-letter exchange    *)
(* (rejected, not requeued) and the API request to an HTTP 500.            *)
Reject(a) ==
  IF a = Worker
  THEN /\ actor' = [actor EXCEPT ![a] = Free]
       /\ deadLetters' = deadLetters \cup {actor[a].msg}
  ELSE /\ actor' = [actor EXCEPT ![a] = Finished]
       /\ UNCHANGED deadLetters

ExecuteRaises(a) ==
  /\ At(a, "execute") /\ ~Applicable(actor[a].task, actor[a].decision)
  /\ Reject(a)
  /\ UNCHANGED <<database, inbox, requests, replies, expired, bounds>>

(* The effects, in order, after the commit.                                *)
SendNext(a) ==
  /\ At(a, "effects") /\ actor[a].effects # <<>>
  /\ LET m == Head(actor[a].effects)
     IN  IF m.kind = "REQUESTED"
         THEN requests' = requests \cup {m} /\ UNCHANGED inbox
         ELSE inbox' = inbox \cup {m} /\ UNCHANGED requests
  /\ actor' = [actor EXCEPT ![a].effects = Tail(@)]
  /\ UNCHANGED <<database, deadLetters, replies, expired, bounds>>

(* The handler returns: late acknowledgement, or the HTTP 202.             *)
Return(a) ==
  /\ At(a, "effects") /\ actor[a].effects = <<>>
  /\ actor' = [actor EXCEPT ![a] = IF a = Worker THEN Free ELSE Finished]
  /\ UNCHANGED <<database, broker, replies, expired, bounds>>

ExecuteDecision(a) ==
  \/ ExecuteContinue(a) \/ ExecuteRetry(a) \/ ExecuteWait(a) \/ ExecuteFallback(a)
  \/ ExecuteAbort(a) \/ ExecuteRaises(a)

-----------------------------------------------------------------------------
(* The worker takes a message and runs its first transaction.              *)

(* A handler that goes on to a decision point, or one that only has        *)
(* messages left to send before its acknowledgement.                       *)
Begin(m, pc, messages) ==
  /\ At(Worker, "idle") /\ m \in inbox
  /\ inbox' = inbox \ {m}
  /\ actor' = [actor EXCEPT ![Worker] =
                 [pc |-> pc, task |-> m.task, msg |-> m,
                  decision |-> NoDecision, effects |-> messages]]

IsReply(m) == m.kind \in Reported

(* is_event_processed: a task and a request stand for the message_id.      *)
IsProcessed(m) == <<m.task, m.ref>> \in processed

(* Defect: a repetition takes a number of its own.                         *)
HandleRepeatedAsNew(m) ==
  LET row == Numbered(task[m.task])
  IN  /\ IsReply(m) /\ IsProcessed(m)
      /\ Begin(m, "effects", <<>>)
      /\ Write(m.task, row, <<ReplyEvent(m, row.seq, TRUE)>>)
      /\ UNCHANGED <<order, processed, requests, replies, deadLetters, expired, bounds>>

(* handle_inventory_event, a reply applied before (_record_repeated).      *)
HandleRepeated(m) ==
  LET t == m.task
  IN  /\ IsReply(m) /\ IsProcessed(m)
      /\ Begin(m, "effects", <<>>)
      /\ events' = [events EXCEPT ![t] =
           @ \o IF \E i \in DOMAIN @ : IsFirstRowOf(t, i, m)
                THEN <<ReplyEvent(m, @[CHOOSE i \in DOMAIN @ : IsFirstRowOf(t, i, m)].seq, TRUE)>>
                ELSE <<>>]
      /\ UNCHANGED <<task, order, processed, requests, replies, deadLetters, expired, bounds>>

(* Defects: TASK_COMPLETED is recorded whether or not the task completed;  *)
(* only the success of the current request completes it.                   *)
HandleSucceededAlwaysRecorded(m) ==
  LET t        == m.task
      received == Numbered(task[t])
      row      == Numbered([received EXCEPT !.status = IF Terminal(t) THEN @ ELSE "COMPLETED"])
  IN  /\ m.kind = "SUCCEEDED" /\ ~IsProcessed(m)
      /\ Begin(m, "effects", <<>>)
      /\ processed' = processed \cup {<<t, m.ref>>}
      /\ Write(t, row, <<ReplyEvent(m, received.seq, m.redelivered),
                        OwnEvent("TASK_COMPLETED", 0, row)>>)
      /\ order' = [order EXCEPT ![t] = OrderStatusFor(row.status)]
      /\ UNCHANGED <<requests, replies, deadLetters, expired, bounds>>

HandleSucceededOnlyCurrent(m) ==
  LET t        == m.task
      received == Numbered(task[t])
      row      == Numbered([received EXCEPT !.status = "COMPLETED", !.lastResult = "ok"])
      reply    == ReplyEvent(m, received.seq, m.redelivered)
  IN  /\ m.kind = "SUCCEEDED" /\ ~IsProcessed(m)
      /\ Begin(m, "effects", <<>>)
      /\ processed' = processed \cup {<<t, m.ref>>}
      /\ IF Terminal(t) \/ ~IsCurrentRequest(t, m.ref)
         THEN Write(t, received, <<reply>>) /\ UNCHANGED order
         ELSE /\ Write(t, row, <<reply, OwnEvent("TASK_COMPLETED", 0, row)>>)
              /\ order' = [order EXCEPT ![t] = OrderStatusFor("COMPLETED")]
      /\ UNCHANGED <<requests, replies, deadLetters, expired, bounds>>

(* handle_inventory_event, a new success: complete_task, then              *)
(* TASK_COMPLETED if the task was not terminal.                            *)
HandleSucceeded(m) ==
  LET t        == m.task
      received == Numbered(task[t])
      row      == Numbered([received EXCEPT !.status = "COMPLETED", !.lastResult = "ok"])
      reply    == ReplyEvent(m, received.seq, m.redelivered)
  IN  /\ m.kind = "SUCCEEDED" /\ ~IsProcessed(m)
      /\ Begin(m, "effects", <<>>)
      /\ processed' = processed \cup {<<t, m.ref>>}
      /\ IF Terminal(t)
         THEN Write(t, received, <<reply>>) /\ UNCHANGED order
         ELSE /\ Write(t, row, <<reply, OwnEvent("TASK_COMPLETED", 0, row)>>)
              /\ order' = [order EXCEPT ![t] = OrderStatusFor("COMPLETED")]
      /\ UNCHANGED <<requests, replies, deadLetters, expired, bounds>>

(* _register_failure: the failure of the current request of a live task    *)
(* opens a decision point, any other is only recorded.                     *)
FailureResult(m) ==
  IF m.target = Fallback /\ m.reason # "invalid_data" THEN "fallback_failed" ELSE m.reason

HandleFailed(m) ==
  LET t        == m.task
      received == Numbered(task[t])
      current  == ~Terminal(t) /\ IsCurrentRequest(t, m.ref)
      row      == [received EXCEPT !.lastResult = IF current THEN FailureResult(m) ELSE @]
  IN  /\ m.kind = "FAILED" /\ ~IsProcessed(m)
      /\ Begin(m, IF current THEN "build" ELSE "effects", <<>>)
      /\ processed' = processed \cup {<<t, m.ref>>}
      /\ Write(t, row, <<ReplyEvent(m, row.seq, m.redelivered)>>)
      /\ UNCHANGED <<order, requests, replies, deadLetters, expired, bounds>>

(* Defect: a check delivered again registers its timeout again.            *)
TimeoutAppliesAgain(m) == ~Terminal(m.task) /\ IsAwaitingReply(m.task, m.ref)

(* orders.timeout_check: register_timeout.                                 *)
TimeoutApplies(m) ==
  /\ ~Terminal(m.task)
  /\ IsAwaitingReply(m.task, m.ref)
  /\ ~TimeoutRegistered(m.task, m.ref)

HandleTimeout(m) ==
  LET t   == m.task
      row == Numbered([task[t] EXCEPT !.lastResult =
               IF task[t].target = Fallback THEN "fallback_failed" ELSE "timeout"])
  IN  /\ m.kind = "timeout_check" /\ TimeoutApplies(m)
      /\ Begin(m, "build", <<>>)
      /\ Write(t, row, <<OwnEvent("INVENTORY_TIMEOUT", m.ref, row)>>)
      /\ UNCHANGED <<order, processed, requests, replies, deadLetters, expired, bounds>>

(* Defect: a reevaluation delivered again ends the same wait again.        *)
WaitAppliesAgain(m) == task[m.task].status = "WAITING" /\ task[m.task].waits = m.ref

(* orders.reevaluate: finish_wait.                                         *)
WaitApplies(m) ==
  /\ task[m.task].status = "WAITING" /\ task[m.task].waits = m.ref
  /\ ~WaitAlreadyFinished(m.task, m.ref)

HandleReevaluate(m) ==
  LET row == Numbered(task[m.task])
  IN  /\ m.kind = "reevaluate" /\ WaitApplies(m)
      /\ Begin(m, "build", <<>>)
      /\ Write(m.task, row, <<OwnEvent("WAIT_FINISHED", m.ref, row)>>)
      /\ UNCHANGED <<order, processed, requests, replies, deadLetters, expired, bounds>>

(* Defect: the dispatch only looks for a task that has not ended.          *)
HandleDispatchAnyLive(m) ==
  LET t   == m.task
      row == Numbered([task[t] EXCEPT !.status = "DISPATCHED"])
  IN  /\ m.kind = "dispatch_attempt" /\ ~Terminal(t)
      /\ Begin(m, "effects", RequestMessages(t, row))
      /\ Write(t, row, <<RequestEvent(row)>>)
      /\ UNCHANGED <<order, processed, requests, replies, deadLetters, expired, bounds>>

(* orders.dispatch_attempt: dispatch_scheduled_attempt.                    *)
HandleDispatch(m) ==
  LET t   == m.task
      row == Numbered([task[t] EXCEPT !.status = "DISPATCHED"])
  IN  /\ m.kind = "dispatch_attempt" /\ task[t].status = "RETRYING"
      /\ Begin(m, "effects", RequestMessages(t, row))
      /\ Write(t, row, <<RequestEvent(row)>>)
      /\ UNCHANGED <<order, processed, requests, replies, deadLetters, expired, bounds>>

(* An internal message that no longer applies: nothing is written.         *)
HandleStale(m) ==
  /\ \/ m.kind = "timeout_check" /\ ~TimeoutApplies(m)
     \/ m.kind = "reevaluate" /\ ~WaitApplies(m)
     \/ m.kind = "dispatch_attempt" /\ task[m.task].status # "RETRYING"
  /\ Begin(m, "effects", <<>>)
  /\ UNCHANGED <<database, requests, replies, deadLetters, expired, bounds>>

Handle(m) ==
  \/ HandleRepeated(m) \/ HandleSucceeded(m) \/ HandleFailed(m) \/ HandleTimeout(m)
  \/ HandleReevaluate(m) \/ HandleDispatch(m) \/ HandleStale(m)

-----------------------------------------------------------------------------
(* The consumer of tasks.dlq (dead_letters.handle_dead_letter).            *)

(* Defect: the task ends and its order is left PENDING.                    *)
RecordDeadLetterOfTaskOnly(m) ==
  LET t   == m.task
      row == Numbered(IF Terminal(t) THEN task[t]
                      ELSE [task[t] EXCEPT !.status = "DEAD_LETTERED"])
  IN  /\ m \in deadLetters
      /\ Write(t, row, <<OwnEvent("MESSAGE_DEAD_LETTERED", 0, row)>>)
      /\ UNCHANGED order

RecordDeadLetter(m) ==
  LET t   == m.task
      row == Numbered(IF Terminal(t) THEN task[t]
                      ELSE [task[t] EXCEPT !.status = "DEAD_LETTERED"])
  IN  /\ m \in deadLetters
      /\ Write(t, row, <<OwnEvent("MESSAGE_DEAD_LETTERED", 0, row)>>)
      /\ order' = IF Terminal(t) THEN order
                  ELSE [order EXCEPT ![t] = OrderStatusFor("DEAD_LETTERED")]

HandleDeadLetter(m) ==
  /\ RecordDeadLetter(m)
  /\ deadLetters' = deadLetters \ {m}
  /\ UNCHANGED <<processed, actor, inbox, requests, replies, expired, bounds>>

(* The connection is lost after the commit: the message is not             *)
(* acknowledged and comes again.                                           *)
HandleDeadLetterUnacknowledged(m) ==
  /\ crashes < MaxCrashes
  /\ RecordDeadLetter(m)
  /\ crashes' = crashes + 1
  /\ UNCHANGED <<processed, actor, broker, replies, expired, failures, losses, reemissions>>

(* It cannot be recorded: rejected, and tasks.dlq has no dead-letter       *)
(* exchange of its own.                                                    *)
DeadLetterLost(m) ==
  /\ losses < MaxLosses /\ m \in deadLetters
  /\ losses' = losses + 1
  /\ deadLetters' = deadLetters \ {m}
  /\ UNCHANGED <<database, actor, inbox, requests, replies, expired, crashes, failures,
                 reemissions>>

-----------------------------------------------------------------------------
(* Failures and crashes.                                                   *)

(* An exception in the first transaction of a handler (a locked database). *)
HandlerRaises(m) ==
  /\ failures < MaxFailures
  /\ At(Worker, "idle") /\ m \in inbox
  /\ failures' = failures + 1
  /\ inbox' = inbox \ {m}
  /\ deadLetters' = deadLetters \cup {m}
  /\ UNCHANGED <<database, actor, requests, replies, expired, crashes, losses, reemissions>>

(* An exception while the state is built, in the engine, in a recorder, in *)
(* the transaction of the executor or in an effect not yet carried out.    *)
Raises(a) ==
  /\ At(a, "build") \/ At(a, "execute") \/ (At(a, "effects") /\ actor[a].effects # <<>>)
  /\ Reject(a)
  /\ UNCHANGED <<database, inbox, requests, replies, expired, crashes, reemissions>>

WorkerRaises ==
  /\ failures < MaxFailures
  /\ Raises(Worker)
  /\ failures' = failures + 1
  /\ UNCHANGED losses

ApiRaises(t) ==
  /\ losses < MaxLosses
  /\ Raises(t)
  /\ losses' = losses + 1
  /\ UNCHANGED failures

(* The broker delivers again what was not acknowledged.  Only the handler  *)
(* of replies reads the flag.                                              *)
Redelivered(m) == [m EXCEPT !.redelivered = IsReply(m)]

(* Defect: a message is acknowledged when it is taken, not when it is done *)
(* (task_acks_late left at its default).                                   *)
WorkerCrashAckedEarly ==
  /\ crashes < MaxCrashes
  /\ ~At(Worker, "idle") \/ (\E m \in inbox : IsReply(m))
  /\ crashes' = crashes + 1
  /\ \E taken \in SUBSET {m \in inbox : IsReply(m) /\ ~m.redelivered} :
       inbox' = inbox \ taken
  /\ actor' = [actor EXCEPT ![Worker] = Free]
  /\ UNCHANGED <<database, requests, deadLetters, replies, expired, failures, losses,
                 reemissions>>

(* The worker's child or its container dies: the message it was at, and    *)
(* any of those already delivered to it (no prefetch limit), come again.   *)
WorkerCrash ==
  LET current == IF At(Worker, "idle") THEN {} ELSE {actor[Worker].msg}
  IN  /\ crashes < MaxCrashes
      /\ \E prefetched \in SUBSET {m \in inbox : IsReply(m) /\ ~m.redelivered} :
           /\ current \cup prefetched # {}
           /\ inbox' = (inbox \ prefetched)
                         \cup {Redelivered(m) : m \in current \cup prefetched}
      /\ crashes' = crashes + 1
      /\ actor' = [actor EXCEPT ![Worker] = Free]
      /\ UNCHANGED <<database, requests, deadLetters, replies, expired, failures, losses,
                     reemissions>>

(* The API process dies with the requests it is serving; nothing is        *)
(* redelivered.                                                            *)
InRequest(a) == ~At(a, "idle") /\ ~At(a, "done")

ApiCrash ==
  /\ crashes < MaxCrashes
  /\ \E t \in Tasks : InRequest(t)
  /\ crashes' = crashes + 1
  /\ actor' = [a \in Actors |-> IF a # Worker /\ InRequest(a) THEN Finished ELSE actor[a]]
  /\ UNCHANGED <<database, broker, replies, expired, failures, losses, reemissions>>

-----------------------------------------------------------------------------
(* The environment.                                                        *)

DeadlinePasses(t) ==
  /\ Created(t) /\ ~Terminal(t) /\ t \notin expired
  /\ expired' = expired \cup {t}
  /\ UNCHANGED <<database, actor, broker, replies, bounds>>

(* The inventory-service answers a request.                                *)
Answer(m, outcome) ==
  [m EXCEPT !.kind = IF outcome = "ok" THEN "SUCCEEDED" ELSE "FAILED",
            !.reason = IF outcome = "ok" THEN None ELSE outcome]

RequestAnswered(m) ==
  /\ m \in requests
  /\ \E outcome \in {"ok", "transient_error", "invalid_data"} :
       /\ replies' = replies \cup {Answer(m, outcome)}
       /\ inbox' = inbox \cup {Answer(m, outcome)}
  /\ requests' = requests \ {m}
  /\ UNCHANGED <<database, actor, deadLetters, expired, bounds>>

(* The request is delivered again after its answer was recorded, and the   *)
(* same answer is published again.                                         *)
AnswerSentAgain(m) ==
  /\ reemissions < MaxReemissions
  /\ m \in replies /\ m \notin inbox
  /\ reemissions' = reemissions + 1
  /\ inbox' = inbox \cup {m}
  /\ UNCHANGED <<database, actor, requests, replies, deadLetters, expired, crashes, failures,
                 losses>>

(* The inventory-service raises: its message goes to tasks.dlq too.        *)
RequestDeadLettered(m) ==
  /\ failures < MaxFailures /\ m \in requests
  /\ failures' = failures + 1
  /\ requests' = requests \ {m}
  /\ deadLetters' = deadLetters \cup {m}
  /\ UNCHANGED <<database, actor, inbox, replies, expired, crashes, losses, reemissions>>

(* It raises after its answer left: in the publication itself, or when the *)
(* request comes again.                                                    *)
RequestOf(m) == [m EXCEPT !.kind = "REQUESTED", !.reason = None]

AnsweredRequestDeadLettered(m) ==
  /\ failures < MaxFailures /\ m \in replies
  /\ failures' = failures + 1
  /\ deadLetters' = deadLetters \cup {RequestOf(m)}
  /\ UNCHANGED <<database, actor, inbox, requests, replies, expired, crashes, losses,
                 reemissions>>

-----------------------------------------------------------------------------
Act(a) == TakeDecision(a) \/ ExecuteDecision(a) \/ SendNext(a) \/ Return(a)

WorkerStep == Act(Worker) \/ \E m \in inbox : Handle(m)

Disturbance ==
  \/ \E m \in deadLetters : HandleDeadLetterUnacknowledged(m) \/ DeadLetterLost(m)
  \/ \E m \in inbox : HandlerRaises(m)
  \/ WorkerRaises \/ \E t \in Tasks : ApiRaises(t)
  \/ \E m \in requests : RequestDeadLettered(m)
  \/ \E m \in replies : AnswerSentAgain(m) \/ AnsweredRequestDeadLettered(m)
  \/ WorkerCrash \/ ApiCrash

Next ==
  \/ \E t \in Tasks : CreateOrder(t) \/ Act(t) \/ DeadlinePasses(t)
  \/ WorkerStep
  \/ \E m \in deadLetters : HandleDeadLetter(m)
  \/ \E m \in requests : RequestAnswered(m)
  \/ Disturbance

Spec == Init /\ [][Next]_vars

(* The processes keep running; the inventory-service is not assumed to.    *)
Fairness ==
  /\ \A t \in Tasks : WF_vars(Act(t))
  /\ WF_vars(WorkerStep)
  /\ WF_vars(\E m \in deadLetters : HandleDeadLetter(m))

FairSpec == Spec /\ Fairness

(* The inventory-service also answers every request in the end.            *)
FairInventorySpec == FairSpec /\ WF_vars(\E m \in requests : RequestAnswered(m))
=============================================================================
