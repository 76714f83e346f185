# Verification of rule2llm-orch-lab

TLA+ models of the program in `src/`, TLC configurations that check them on
small instances, and TLAPS proofs of the properties that matter most for any
instance. The program is a laboratory that compares two decision engines, a
fixed set of rules and a language model, for coordinating asynchronous
reservations between an orders-service and an inventory-service over RabbitMQ.

## 1. The system

| Component | State | Operations | Interacts by |
|---|---|---|---|
| Orders API (`services/orders/app/api`) | none of its own; `orders.db` | `POST /orders`: creates order and task, then the first decision point | writes `orders.db`, publishes to the inventory, schedules internal messages |
| Orders worker (`messaging/consumers.py`) | `orders.db`; one Celery child (`--concurrency=1`), unlimited prefetch | `handle_inventory_event`, `timeout_check`, `dispatch_attempt`, `reevaluate` | consumes `orders.events` with late acknowledgement |
| Dead-letter consumer (`dead_letter_consumer.py`) | `orders.db` | records a dead letter and ends its task | consumes `tasks.dlq` in the worker's parent process, beside the child |
| Orchestrator, executor, recorders | none | state, engine, validation, resolution, one transaction, then effects | called by API and worker |
| Rules engine, validator, `resolve_action` | none (pure) | propose, validate, resolve | called at each decision point |
| LLM engine (`llm/`) | none | asks a model, parses its text | HTTP; may time out or answer anything |
| State builder | none | reads task, trajectory and queues | reads `orders.db` and the broker |
| Inventory (`services/inventory`) | `inventory.db`: stock, reservations, `processed_messages` | `reserve_stock` on two routes, two worker processes | consumes the two routes, publishes the stored answer |
| Broker | queues `orders.events`, `inventory.primary`, `inventory.fallback`, `tasks.dlq` | delivery, redelivery, dead-lettering | Celery, kombu |
| Menu (`menu.py`) | the session: cycle, place in the plan, stop request, reports | full protocol, safe and forced stop by Ctrl+C | one child process per cell, its output and SIGINT |
| Protocol of executions (`scripts/experiment`, `scripts/pilot/new_execution.py`) | `data/pilot/<id>` with `run_status`, `invalid_runs.csv`; the containers | open, reset, readiness, scenario, validation, consolidation, repetition of an invalid one | docker compose, HTTP, files |
| Faults and load (`scripts/faults`, `scripts/scenarios`, `scripts/workload`) | the fault in place, `fault_events`, the load sent | `run_timeline` in a thread beside the load | control file, docker compose, HTTP |
| Recorders (`observability/recorders.py`) | `states.jsonl`, `decisions.jsonl` | a line before the engine is asked, a line before the decision is executed | files, read after the execution |
| Analysis (`scripts/analysis`, `check_traceability.py`) | metrics per execution | pure functions of the artifacts: check, outcomes, errors, recovery, blast radius | files |

What is hard: there is no lock and no outbox. Each handler runs a transaction,
then a decision on a snapshot read outside any transaction, then a second
transaction, then effects after its commit. Between any two of these the
process may die and its message come back, an exception may send the message
to `tasks.dlq`, an old answer or a timeout may arrive, or the dead-letter
consumer may end the task. `PROJECT.json` lists these hazards at their lines,
with the properties that cover them.

What makes the components correct:

* decision point: whatever an engine proposes, what is executed meets the
  contract of `Decision` and respects the limits; the Rules policy is never
  refused by the validator;
* coordination: a decision is executed on the row it was validated for; the
  order follows the task; the trajectory numbers every occurrence once and
  explains the row; answers, timeouts and waits take effect at most once;
  a task that ended never changes; every task ends;
* inventory: an answer is stored once per request, a task reserves once
  whatever the routes and redeliveries do, no success without its reservation,
  no request disappears, the two workers end together;
* both services: orders and stock agree but for the cases the summary counts
  and one that takes two exceptions; every task ends unless its process dies, or
  raises where nothing takes over;
* files: every effect has its decision, the check of the files finds a hole and
  nothing else, the metrics tell the outcome of the rows;
* load: orders are numbered as they are made, an accepted execution measured
  all of them, its recovery is that of D-24;
* protocol of executions: no fault outlives its execution, a VALID execution
  had its fault, at most one VALID per cell, an invalid one is recorded once,
  one Ctrl+C leaves nothing unfinished, every cell of the plan is accounted for
  unless its process failed before it had a directory.

## 2. Modules

| Module | What it models | Source |
|---|---|---|
| `DecisionPoint` | The policy, the validator and `resolve_action` as operators over an abstract `SYSTEM_STATE`. The rules stay in their order as lists of `[when, then]`. | `rules_engine.py`, `validator.py`, `shared/decision.py`, `shared/task.py` |
| `OrdersCoordination` | The orders-service: API requests, worker, dead-letter consumer, the tables of `orders.db`, and the broker around them. | `executor.py`, `event_handler.py`, `timeouts.py`, `waits.py`, `dead_letters.py`, `consumers.py`, `repositories.py`, `trajectory.py`, `api/orders.py`, `shared/messaging.py` |
| `OrdersProperties` | What the coordination must guarantee, and what the documentation says and the code does not do. | |
| `TaskLifecycle` | The promise: the transitions of a row of `tasks` with its order, no processes and no messages. | the UPDATEs of `repositories.py` |
| `Inventory` | The inventory-service: one worker per route, the database they share, the container, and the fault windows and outages of the laboratory. | `services/inventory`, `shared/faults.py`, `scripts/faults/injectors.py` |
| `InventoryProperties` | What the inventory must guarantee. | |
| `ReserveOnce` | The promise: a task reserved once, one answer per request, no workers and no queues. | `repositories.py`, `service.py` of the inventory |
| `System` | Both services: a request of the orders-service goes through the queue of its route to the workers of `Inventory`, their stored answers and rejections come back. | `shared/messaging.py`, `inventory/app/messaging`, `reservation/service.py` |
| `SystemProperties` | What the two databases must tell of each other. | |
| `StateBuilder` | What a snapshot shows of the trajectory: window of recent events, latency, redelivery flag. | `state_builder.py`, `trajectory.py` |
| `Traceability` | `states.jsonl` and `decisions.jsonl` beside the steps that write them, the check of the files, the outcome, the errors and the blast radius computed from them. | `orchestrator.py`, `recorders.py`, `check_traceability.py`, `consolidate.py` |
| `TraceabilityProperties` | What the files must say. | |
| `Workload` | One execution seen by its load: the plan, the open-loop generator, the threads of the API numbering orders, the fault window, settling and collection. | `generate_load.py`, `run_scenario.py`, `injectors.py`, `repositories.py`, `run_experiment.py` |
| `WorkloadProperties` | What the bench relies on when it compares executions. | |
| `Consolidation` | Percentile and recovery (D-24), with the definition they are checked against. | `consolidate.py` |
| `Protocol` | The menu, `run_experiment` in its child process, the thread of the fault window, and the operator's Ctrl+C. | `menu.py`, `scripts/experiment`, `scripts/faults`, `scripts/scenarios`, `scripts/pilot/new_execution.py`, `llm_readiness.py` |
| `ProtocolProperties` | What a session must leave on disk and on the bench. | |
| `MCOrders`, `MCInventory`, `MCSystem`, `MCTraceability`, `MCWorkload`, `MCProtocol` and the `.cfg` files | Instances for TLC. | |
| `OrdersCoordination_proofs`, `OrdersTrajectory_proofs`, `OrdersAnswers_proofs`, `Traceability_proofs`, `Inventory_proofs`, `System_proofs`, `Workload_proofs`, `Protocol_proofs` | Theorems; each orders module extends the one before, `Traceability_proofs` and `System_proofs` the last of them, `System_proofs` also an instance of `Inventory_proofs`. `Workload_proofs` covers `Consolidation`. | |

`OrdersCoordination` EXTENDS `DecisionPoint`; `OrdersProperties` EXTENDS the
coordination and instantiates `TaskLifecycle` with the refinement mapping
`row <- Shapes` (the row without its numbering and last result).
`InventoryProperties` EXTENDS `Inventory` and instantiates `ReserveOnce` with
the route of the row of each task and the answer published to each request.
`System` EXTENDS `OrdersProperties` and instantiates `Inventory` with
variables of its own; `SystemProperties` shows the composition to implement
both: the inventory (`Stock!Spec`) and the coordination whose inventory is the
promise of its reply (`RequestAnswered`, `AnswerSentAgain`,
`RequestDeadLettered`, `AnsweredRequestDeadLettered`), with the same variables
(`Spec`). `MaxFailures` bounds the exceptions of both services together,
`MaxStockFailures` those of the inventory, and every child it loses may repeat one
answer (`MaxStockCrashes <= MaxReemissions`). So what is checked and proved of
either alone is true of the two. `Traceability` EXTENDS `StateBuilder` and this the
coordination: its next-state relation is that of the coordination conjoined
with the lines each step appends. `Workload` stands alone: a task there only
ends. Operators
whose comment begins with *Defect* are variants of the definition below
them with a plausible mistake; no specification uses them, they serve to see
that each property can fail.

### State and steps

| Model | Code |
|---|---|
| `task[t]` | the row of `tasks` (status, current_target, attempt_number, wait_count, fallback_used, current_event_seq, last_result); one order per task |
| `order[t]` | `orders.status` |
| `events[t]` | the rows of `task_events` of the task in `event_id` order |
| `processed` | `processed_events` |
| `actor[a].pc` | where a handler is: `build` (a decision point is due), `execute` (a decision was taken, its transaction is next), `effects` (committed, messages left to send), `idle`/`done` |
| `actor[a].effects` | the list `effects` of the executor |
| `inbox`, `requests`, `deadLetters` | messages of `orders.events`, of the two inventory routes, of `tasks.dlq` |
| `replies` | answers the inventory has stored |

One step is one database transaction (SQLite runs them one at a time), one
effect, or one step of the environment. `TakeDecision` covers the snapshot, the
engine and the validator; what the database does meanwhile is interleaved
between it and the executor's transaction. A request is identified by its own
`event_seq` within its task instead of a random `message_id`, an answer by the
request it answers. Queues are sets: Celery's delayed tasks, the unlimited
prefetch and redelivery already deliver in any order. Taking an internal
message at any time includes delays that expire early or late with respect to
each other; a timeout check may therefore run before a prompt answer.

Failures: `WorkerCrash` gives back the message in work and any subset of the
prefetched ones, flagged redelivered; `ApiCrash` gives back nothing;
`Raises` is an exception anywhere in a handler (message rejected to
`tasks.dlq`, request answered with 500); the dead-letter consumer may record
without acknowledging, or lose a message it cannot record; the inventory may
answer late, never, twice, or dead-letter a request, also one it has answered.

In `Inventory`:

| Model | Code |
|---|---|
| `worker[w]` | where the child of a route is: `process` (taken, its simulated cost spent, its transaction next), `publish` (committed), `ack`; with the request, whether the fault strikes it, and the answer it holds |
| `process[w]` | the process `run_workers` started for the route: `up`, `stopping` after a SIGTERM, `down` |
| `reservations`, `processed` | the tables `reservations` and `processed_messages`; `issued` numbers the message_ids |
| `queued[r]` | how many deliveries of a request wait in the queue of its route |
| `fault`, `outage` | the window written to `fault_control.json`, as the draws it makes fail; `docker compose stop` until `start` |

A transaction is one step (`BEGIN IMMEDIATE` lets the two workers run theirs one at a
time). `Take` evaluates the fault before the transaction, as
`before_reservation` does; the window may close, or the request be found
answered, before it runs. Between any two steps a child may be lost
(`ChildLost`: the request is delivered again), a whole worker may end
(`Exit`), or an exception may dead-letter the request (`Raises`), also after
its answer was stored. When a worker ended, `MainSeesExit` terminates the other,
which ends after the request it is at (`Shutdown`). Nothing but the end of an
outage starts the container again. Catalog and durations are left out: stock
is a check of the SKU only, and the delays are steps without length.

In `System` the variables of the two modules are side by side
(`routeWorker`, `answers`, `rejected` are the `worker`, `processed` and
`deadLetters` of `Inventory`). `OrdersStep` is a step of the orders-service,
and what it publishes is queued at its route in the same step (`Enqueue`): the
publication is one effect of the executor, one message. `PublishReply` and
`RejectRequest` are the publication and the rejection of the inventory with what arrives
at `orders.events` and `tasks.dlq`; its other steps leave the orders-service alone.
All disturbances of `OrdersCoordination` that are not its inventory are steps of
`OrdersStep`: crashes and exceptions of the API and of the worker, dead letters
recorded twice or lost. `MaxLosses` bounds, as there, what nobody comes back to
(`ApiRaises`, `DeadLetterLost`).

In `Traceability`:

| Model | Code |
|---|---|
| `states`, `decisions` | the lines of the two files; an id is the place of its line |
| `Record` | `handle_decision_point`: `record_state` before the engine, `record_decision` after validation; an exception or a crash in between leaves the state without a decision, or neither |
| `CheckRow`, `CheckTrajectory`, `CheckStates`, `CheckDecisions` | the loops of `check_traceability`, over the trajectory, the states and the decisions |
| `Outcome`, `FailedTasks`, `Affected` | `task_outcomes`, `errors`, `blast_radius` |

In `Workload`:

| Model | Code |
|---|---|
| `BuildPlan` | the instants and the altered items of `build_plan`; the hash of the seed is the set `Sampled` |
| `client[i]` | the thread of the pool for planned order `i`: `planned`, `sent`, `done` with its line of `workload.jsonl`, `died` with what it raised in a future nobody reads |
| `api[i]` | the thread that serves it: `opening` (instant taken, lock not), `writing` (`BEGIN IMMEDIATE` held, number computed), `created`, then `202`, `500`, or `gone` with its process |
| `table`, `tasks` | rows of orders and tasks, and the copy `collect` makes |
| `window`, `phase` | instants of the two fault events; load, settled or not, collected or invalid |

Time is an integer and `Tick` is enabled only when the bench has nothing due:
the bench is punctual, the API and the tasks are as slow as they like, up to
`Horizon`, which is `settle_timeout_s`. A transaction is shorter than a unit
of time.

In `Protocol`:

| Model | Code |
|---|---|
| `menu`, `cycle`, `place` | `full_protocol` and `run_cycle`: next cell, `Popen` done (`spawned`), `stop.child` set (`running`), the report, the countdown |
| `stop`, `report` | `StopRequest`; the `CycleReport`s of the session |
| `runner`, `attempt` | how far `run_once` and `main` of `run_experiment` are; `dying` after an exception or a KeyboardInterrupt, while the interpreter waits for the thread of the fault |
| `timeline` | `run_timeline`: `waiting`, `open`, `closing` (start() raised), `ended` |
| `executions[n]` | a directory of `data/pilot`: `status` is `run_status` (`open` is null), `rows` its lines in `invalid_runs.csv`, `started`/`ended` its fault events, `summary` its consolidated metrics |
| `services`, `perturbed` | the `EXECUTION_ID` of the containers (0: none); the control file is there or the container stopped |

A step is one effect that another process, or an execution after this one, can see. What
the bench does is present by its outcome: it works or raises (`Fails`). Only the
reset and the readiness are in a `try`, which catches three kinds of exceptions,
and `check_llm_readiness` catches what the runtime raises; anything else ends
the process (`Dies`), and every step of `run_once` may. Three
processes interleave, the menu, the main thread and the thread of the fault,
and `Interrupt` comes between any two steps. The second Ctrl+C signals the process
group: the main thread abandons what it was doing, `docker compose` gets the
signal too (`CommandCut`, `ResetCut`), and the thread that closes the window goes
on; the next one ends even the wait for it. `perturbed` is about what was
asked of docker: a container that was started and has not returned to its queues
is no longer a fault in place. A process that dies while it opens its execution
leaves no directory or one that counts as `open`, though its metadata may not
have been written. Left out: a cut in the middle of a write of
`execution_metadata.json`, what the menu itself raises (`Popen`, its own output),
a thread that cannot be started, the continuous mode (bounded by `Cycles`), and
`preflight`, which runs before the session.

## 3. What TLC checks

`Engine`, `MaxAttempts` and `MaxWaits` are the configuration; `MaxCrashes`,
`MaxFailures`, `MaxLosses`, `MaxReemissions` bound the environment and appear
in the guards of the actions that use them. Deadlock is not checked: the
services, a session and an execution really stop, when every task ended and nothing is in flight.

| Run | Instance | Shows |
|---|---|---|
| `Decisions` | LLM, 1 attempt, 1 wait, 1 exception, 1 loss | types, limits, coordination, the order follows its task, final statuses |
| `WorkerCrash` | Rules, 2 attempts, 0 waits, 1 crash | one request per attempt, policy and validator agree, no answer lost, timeouts are due, publications are recorded, refinement of the lifecycle |
| `Traceability` | Rules, 1 attempt, 1 wait, a window of 3 events; one crash, exception, loss or repeated answer | numbering, trajectory explains the row, waits end once, an engine sees what it is asked about, effects have their decisions, the check of the files decides, the metrics tell the outcome |
| `System` | Rules, 1 attempt, 1 wait, both services; one crash, exception, fault window or outage in either, and 1 loss; fairness | orders and stock agree, refinement of `Inventory` and of `OrdersCoordination`, every task ends |
| `Inventory` | three requests: one task on both routes, a task outside the catalog; 1 process killed, 1 exception, 1 message sent twice, 1 window; fairness | answers once, success means reserved, no request lost, refinement of `ReserveOnce`, every request settled, never half up |
| `Workload` | 3 orders under no fault, an overload or altered items; 5 instants, 1 failure, windows of 1 and 2 orders | orders numbered as made, an accepted execution is complete, recovery is the earliest |
| `Protocol` | an outage and a route fault, both engines, 2 cycles (8 cells), 2 attempts; 2 failures of the bench, 3 Ctrl+C; fairness | no orphan fault, VALID had its fault, one VALID per cell, invalid recorded once, unfinished only if forced or failed, plan accounted for, the session ends |
| `LostDispatch`, `Awaiting`, `Repeats`, `Registered` | one fault each | the first four divergences of section 5 |
| `Recovered` | one task on both routes, 1 exception | the fifth |

Why these bounds are enough for what they show: tasks share only the worker,
each row, message and identity is of one task, so one task with all
interleavings of its own messages is the instance, and the theorems of
section 4 are about any set of tasks. Two
attempts are the least with an old and a current request, one wait the least
with a reevaluation in flight; a language model with retries is covered by the
theorems, which assume nothing of the engine. A proposal of the language model
is any action with any target and a text, plus what is unreadable, invented or
empty; the queues are empty or full, the routes with or without a consumer, the
deadline passed or not, which are the distinctions the policy and the
validator make. `MaxDisturbances` bounds the faults of all kinds together in
`Traceability` and `System`, where any single one may strike at any point; in
`System` losses are apart, so that a dead letter an exception made can be lost.
What needs more faults than a run has, such as a dead letter that is recorded
twice (an exception and a crash of its consumer) in `Decisions`, rests on the
theorems.

Fairness (`FairSpec`): weak fairness of each API request, of the worker and of
the dead-letter consumer, which only says that processes keep running; that
the inventory answers every request in the end is added in `FairInventorySpec`
for the two divergences about liveness, so that they do not blame a silent
inventory. `FairSystem` is the fairness of both services, each as it
justifies it, and assumes no answer: that a request is answered, dead-lettered
or found late is what `EveryTaskEndsHere` shows. `CreateOrder`, crashes,
exceptions, losses, windows and the passing of the deadline are never forced.
The property leaves out three cases, and all are needed:

* after a crash of the orders-service a task may wait for ever (section 5);
* once the inventory's container is gone, a late failure of the primary request
  makes `is_awaiting_reply` false, the timeout check of the fallback finds nothing
  to register, and the task stays `FALLBACK_PROCESSING`;
* a task is dropped by an exception nothing comes back from (`Dropped`). In
  `POST /orders`, before the first request is published, it answers 500 and leaves
  the task `PENDING`, or `DISPATCHED` without its request, with no message that
  could wake it. In the consumer of `tasks.dlq` it loses the dead letter, and with it
  the end of a task whose handler had raised before. The property says that
  these are the only ones: an API that raises after its request went out
  leaves the task to its answer, and a lost dead letter matters only after
  another exception.

`EveryTaskEndsHere` is checked with the Rules engine. The same instance with
`Engine = "LLM"` has a step for each proposal, most of them refused alike, and
takes more than five minutes; without crashes (`MaxCrashes` and `MaxStockCrashes` 0)
it passes (189,737 states). It is not one of the listed runs.

In `System` the requests a task can make with these limits are listed
(`OneAttempt`); a request outside the list would be a step the refinement of
`Inventory` refuses, so the list is checked too. The inventory may send an answer
twice only by a redelivery (`MaxReemissions` is what a single crash can cause).
`StockAgrees` names the cases in which stock is held for an order that did
not complete: its success is on its way; or came after the order had failed
(aborted, or ended by a dead letter), which is what the summary of a scenario
counts as `failed_orders_with_reservation`; or its message was rejected by an
exception and the consumer of `tasks.dlq` could not record it either, which
leaves stock for an order that may still be open (`SuccessLost`).

In `Traceability`, a window of three events is shorter than the trajectory of a task and
longer than one decision; `CheckTrajectory` is asked of every reachable
trajectory of an ended task and of each of these with one event taken out. A hole
is missed exactly when the repetition of the missing event comes before anything
new (`ReplacedByRepetition`), which is what the code accepts.

In `Workload` three orders are the least with one before, in and after a
fault, or two that race for a number with a third before them; `Horizon` lets
a task end late enough to be abnormal. There is no fairness: the horizon
ends the wait.

In the inventory the two workers meet only in the requests of one task, one on
each route, so these two requests are the core of each instance; the third
adds the refusal. `FairSpec` of `Inventory` is weakly fair to the work and the warm
shutdown of each worker, to the polling of `main`, and to the end of an outage,
which `run_timeline` always performs, also when it is interrupted. Requests,
faults, crashes and exceptions are never forced. `EveryRequestSettled` makes
an exception of a container that ended by itself: `docker-compose.yml` gives it
no restart policy.

In the protocol two failures are the least with which both ends of a window
fail, or a fault survives one execution and the reset of the next, and all
attempts of a cell are used up; three Ctrl+C are the least that
interrupt the wait of an interrupted process; two cycles let the other engine
open and pass the countdown. The two fault kinds differ in that
docker compose can be cut and the removal of a file cannot; a window of load
alone puts nothing in place. `FairSpec` of `Protocol` is
weakly fair to the main thread, to the thread of the fault and to the menu:
the waits of the code have limits (`settle_timeout_s`, `CONSUMERS_TIMEOUT_S`,
the timeout of each HTTP request), the calls of docker compose have none and
are assumed to return. Failures and Ctrl+C are never forced.

The exceptions that the properties name are reachable, and worth knowing:

* what raises outside the `try` of `run_once` (lines 171 to 189, 196 to 215,
  218), or in it as something else than `InspectionError`, `OSError` or `ValueError`,
  ends the process: the execution keeps `run_status` null, or is VALID
  without its metrics, has no line in `invalid_runs.csv`, no result for the
  menu, and is not repeated (`FinishedUnlessForced`, `PlanAccounted`);
* `open_execution` and the load of the configuration (lines 158 to 163;
  `new_execution.py`, lines 207 to 233) are outside it too: what raises before the
  `mkdir` leaves no directory, so that the cell has no result, no place in a list
  and nothing on disk. Each such cell takes one failure, and there are no others
  (`PlanAccounted`);
* `_mark_invalid` and `record_invalid` (lines 124 to 143) are called outside the
  `try`: what raises before the status is written leaves `run_status` null; what raises
  after it leaves an INVALID execution without its line, which the menu is never told
  of and does not repeat. That is a second failure, after the one that made
  the execution invalid (`InvalidRecordedOnce`);
* when both `start()` and `stop()` of a fault raise, no window is recorded,
  none is missing, and the execution is VALID without its fault
  (`ValidHadItsFault`);
* a forced stop may hit after the status was written and before the line in
  `invalid_runs.csv` (`InvalidRecordedOnce`), and may leave the inventory stopped
  when it cuts `docker compose start` (`NoOrphanFault`).

## 4. What is proved

For any set of tasks, of requests or of orders, any limits, either engine and
any numbers of faults:

| Theorem | Says |
|---|---|
| `ExecutedMeetsContract`, `ExecutedWithinLimits` | what is executed meets the contract and was within the limits of its snapshot |
| `TypeCorrect` | `Spec => []TypeOK` |
| `CoordinationHolds` | `Spec => []Coordinated` |
| `LimitsAlwaysHold`, `OrderAlwaysMirrorsTask`, `RaisedOnlyAfterDeadLetter` | the invariants of the same names |
| `CoordinationRefinesLifecycle` | `Spec => Lifecycle!Spec` under the mapping |
| `TerminalAlwaysFinal` | a task that ended never changes |
| `PublishedAlwaysRecorded` | the invariant `PublishedWasRecorded`: nothing travels that the trajectory does not hold |
| `AlwaysNumberedWithoutGaps`, `TrajectoryAlwaysExplainsTask` | the invariants `NumberedWithoutGaps` and `TrajectoryExplainsTask`: a task row is the sum of its trajectory |
| `AlwaysOneRequestPerAttempt`, `TimeoutsAlwaysDue`, `WaitsAlwaysEndOnce` | the invariants `OneRequestPerAttempt`, `TimeoutsAreDue` and `WaitsEndOnce`: no repetition requests, times out or wakes twice |
| `PolicyAccepted`, `RulesAreAlwaysAccepted` | the rules, on any snapshot whose last result fits its route, decide what the validator accepts; every decision point of a live task has such a snapshot (`RulesAlwaysAccepted`) |
| `NoAnswerDisappears` | `NoAnswerLost` as long as every dead letter could be recorded (`losses = 0`) |
| `PointAlwaysSeesItsCause` | the invariant `PointSeesItsCause`: window, redelivery flag and latency of a snapshot are about what the engine is asked |
| `EveryEffectHasItsRecordedDecision`, `MetricsAlwaysTellOutcome` | the invariants `EveryEffectHasItsDecision` and `MetricsTellOutcome` of the files |
| `TraceabilityAlwaysDecides` | the invariant `TraceabilityDecides`: the check finds nothing in what the code leaves, and any hole before the last event |
| `InventoryTypeCorrect` | `Spec => []InventoryTypeOK`: in particular a worker that left its transaction holds the stored answer of its request |
| `AlwaysAnsweredOnce`, `SuccessAlwaysReserved`, `NoRequestIsLost` | the invariants `AnsweredOnce`, `SuccessMeansReserved`, `NoRequestLost` |
| `InventoryKeepsPromise` | the inventory implements `ReserveOnce` |
| `StockAlwaysAgrees` | the invariant `StockAgrees` of the two databases |
| `SystemImplementsInventory`, `SystemImplementsCoordination` | the two services together implement each with its environment |
| `OrdersAlwaysAccounted`, `AcceptedRunAlwaysComplete` | the invariants `OrdersAccounted` and `AcceptedRunIsComplete` of the load |
| `RecoveryAlwaysEarliest` | the invariant `RecoveryIsEarliest`: the recovery computed is that of D-24 |
| `ProtocolTypeCorrect` | `Spec => []ProtocolTypeOK` |
| `ValidAlwaysHadItsFault`, `NeverOrphanFault` | the invariants `ValidHadItsFault` and `NoOrphanFault`: what the fault of an execution did, and what may be left of it |
| `AlwaysOneValidPerCell`, `InvalidAlwaysRecordedOnce`, `AlwaysFinishedUnlessForced`, `PlanAlwaysAccounted` | the invariants `OneValidPerCell`, `InvalidRecordedOnce`, `FinishedUnlessForced` and `PlanAccounted`: what a session leaves on disk |

The argument. A decision is validated on a snapshot and executed later, so no
limit follows from the validator alone: it must still hold when the
transaction runs. That needs that nobody else moves the task in between.
`Coordinated` says it: a handler is at one task (`OwnTask`); until the first
decision of a task commits, nothing about it was published, so the API
request is alone with it (`AloneAtFirst`); afterwards only the one worker
takes decisions; hence what was checked on the snapshot is true of the row
unless a dead letter ended the task (`DecisionsHold`). The last part,
`UnroutedNotDispatched`, is why a first dispatch that was validated on the
target alone also finds the status it needs. `Coordinated` is inductive only
together with the types and with `AllSound` (limits and order status of
every row), and these follow from the refinement: the proof shows that a step
of the coordination is a step of the lifecycle (`LifecycleStep`), that the
steps of the lifecycle keep `AllSound`, and that `DecisionsHold` and
`AloneAtFirst` are preserved. `--concurrency=1` is therefore a
condition of correctness and not of performance: with a second worker child,
`DecisionsHold` has no reason to hold.

The inventory. `InventoryInvariant` adds to the types what every transaction
leaves (`Recorded`: answers are unique by request and by number and no newer
than `issued`, a result other than a success is justified by its request, a
task has one row) and what a worker carries from one step to the next
(`Carried`: what was published is stored, only the primary worker may hold an
injected failure, a worker about to acknowledge has published). Only `Process` writes the tables,
and there `StoreRecorded` is one lemma for the four ways a first
transaction ends. `NoRequestLost` needs the last part of `Carried`: the
acknowledgement drops a request whose answer has left. In the refinement a
`Reserve` is the abstract one, the first publication of an answer is the
abstract `Answer`, and a later one repeats the same answer because of
`AnsweredOnce`; all other steps stutter.

Messages. `MessagesExplained` says of every message where it is from, in
the broker, in the hands of a handler or among the effects it has left to send:
a row of the trajectory of its task with its number, attempt and route.
Trajectories only grow (`StepAppends`), so what explained a message goes on
explaining it; the proof is about the messages a step makes, and
`KindsOfQueues` says which kinds can be where.

Trajectories. `Trajectories` says of the rows of each task, of its task row and of
the answers marked as processed that they are `Consistent`. It is the five
invariants together, because none is inductive alone: that a reply takes a new
number needs that a reply recorded was processed (`Applied`); that a timeout
precedes every answer needs that an answer comes after its request (`Grounded`,
which holds for a new answer because of `MessagesExplained`) and that numbers
grow; that a retry requests a new attempt needs that a task in `RETRYING` has
requested only smaller ones, on the primary route (`RequestsFit`). Since a
transaction only appends rows, the proof has two halves: what a row must
fulfil (`Continues`) for one append to keep `Consistent` (`ConsistentAppend`, one lemma
for each part), and, for each transaction, that its rows do. A transaction that
writes two rows passes through a row of the task nobody sees. A repetition is the one row that
does not continue the numbering (`ConsistentRepeat`).

The rules. What the policy decides is refused only if the last result of the
snapshot is one its route cannot give (`Fits`: never a success, none only before
the first request, a transient one only from the primary route). `RulesFit` says that the row of every task at a decision point fits,
and that of every waiting task, which comes to one without a new result. A failure
of the fallback route fits because `LatestRouted` holds: once the fallback was
used, the latest request went there, so an answer the handler does not discard as stale is from there. With
both and the order of the rules `PolicyAccepted` gives the theorem.

The answers. An answer is removed from `orders.events` when the worker takes
it, and from its hands when it is handled; what must be excluded is that it is
dropped there without a row. The handler drops an answer that `processed_events`
holds, so `Handled` says that a row of the trajectory is behind every entry. That
needs that the entry is of the same answer: `OneAnswer` (one kind of answer
for each request), which a new request keeps because its number is newer than all
there are (`EffectsFresh`, `MessagesExplained`), and on `Heard` (every answer in
the broker, in the hands of the worker or in a trajectory is one the inventory has stored). `Kept(m)`
then names where the answer is, and each step moves it on: a crash of the worker returns it to the queue, an
exception to the dead letters. The one way out is a dead letter that cannot be
recorded: `tasks.dlq` has no dead-letter exchange of its own, so what its consumer
rejects is gone, which `losses` counts (`DeadLetterLost`).

The snapshot. `Points` says of a handler at `build`, unless its task has
ended, which row opened the point: the last of the trajectory, repeating none
before it, with the number of the task row and the handler's own redelivery flag.
That the window ends in that row then follows from `NumberedWithoutGaps`: the distinct
rows carry the numbers `1 .. n` in the order they were written
(`DistinctAreFirsts`), so the last K of them, put in order (`Enumerated`: the
ascending enumeration of a finite set of numbers exists and is unique), are the
last K numbers (`WindowShown`). A timeout needs one more fact, part of `Points`:
nothing was heard since the request it is about, so the latency runs to now
(`LatencyTold`).

The files. A step is described once by what it writes of a task (`Writes`: no row, one,
or two, with the decision each is the effect of and the status it leaves); every
transaction is shown to be of that form, and the invariants are proved of the
form. A line and its effect are in different transactions, so neither number is
an invariant alone. `EffectsDecided` counts what the executor is about to do
(`Committed`) with the effects, and so holds at every crash in between: a step
that takes a decision raises both sides, the step that executes it moves the
decision from one side's term to the other. `Balanced` is the converse: a decision has its
effect, is at work, or was lost to a crash, a failure or a loss, of
which each excuses one; a dead letter may have overtaken a handler still
at its decision point, once for each task (`Stalled`, `Dead`), and there is none without a
failure (`FailureFirst`), which is why a failure counts twice in the property. The metrics need that the first
terminal row of a trajectory is what the task row says (`EndsTold`) although
repetitions and late answers may follow it.

The check of the files. `FoldLeft` over a trajectory is unrolled: the recursive
function its definition chooses exists (`FoldExists`), so what is found after row `k` is
`CheckRow` of what was found after row `k - 1` (`FoundByRow`). Of a trajectory numbered without
gaps `FoundIn` then says, row by row, that no error was found and what is
remembered: the ids seen, and a next number that only the rows already read are
below. So nothing is found in a complete trajectory (`TrajectoryAccepted`). With row `i` taken
out the same holds up to `i` (`BeforeTheHole`); the next row is either a repetition of
`i`, which takes its place (`HoleFilled`), or the next new row, whose number
is one too high (`HoleFound`). The other checks rest on `Filed`: a recorded window is
of rows that are still there, since trajectories only grow.

The two services. In `System` each service is the environment of the other, so
the invariants of both are used and neither is proved again: `SystemInvariant`
holds them side by side and adds what the queues keep. `Linked` is the center: a
request waits in `requests` exactly when the inventory was asked and has neither
answered nor rejected it, and `replies` are the published answers. With it a
`PublishReply` is `RequestAnswered` the first time and `AnswerSentAgain` or a
stutter later, a `RejectRequest` is `RequestDeadLettered` or
`AnsweredRequestDeadLettered`, and the other steps of the inventory stutter. That an
answer leaves again only at the price of a killed child is `Repeats`: the repetitions so
far, and the published answers a worker holds again (`Again`), are at most
`stockCrashes`. In the other direction a step of the orders-service is one
`Ask` of the inventory or a stutter. For that at most one request may leave in a
step, and it must be newer than all its task asked before (`Numbering`); as the API
process and the worker both have requests to publish, this needs that the
first request of a task is alone with it (`FirstAlone`). `Held` says that a handler with
work has a task, `Routed` that the rows of a task about a request name its route.
`StockAgrees` then relates the databases: `Endings` says by which row an order
ended and what came before it, a success in the trajectory was published (`Heard`,
`Linked`) and hence stored and reserved (`SuccessMeansReserved`), and a
success that was stored and published is somewhere (`NoAnswerLost`) as long as no dead
letter was lost. A dead letter of an answer takes an exception: while none was
counted, `tasks.dlq` is empty, whatever raises in the API, and no answer
is lost either (`Undisturbed`, `FailuresCounted`). So a success that is nowhere
took a failure and a loss, which is `SuccessLost`.

The three theorems assume that no possible request is left out,
`PossibleRequests = AllRequests`. A set that lacks one a task makes would not
model a smaller system but a broken queue; TLC needs a finite set, and the
`System` run checks that its list is complete for its limits.

The protocol. `ProtocolInvariant` follows the execution in work. `InHand` says
what its directory holds at each step of `run_experiment`, `Window` what the
thread of the fault has recorded at each step and what a status of VALID
vouches for, `Bench` when a fault may be on the bench and what excuses it, `Written`
what an execution that is behind is worth (`Worth`: it reached its end with its line
or its metrics, or a failure or the operator is why not), and `Placed` which cells
have no execution yet. `Kept` counts: of the cells that are behind (`Passed`), those
without a result, a place in a list or an abandoned execution (`Untold`) are no more than
the failures. A cell can only become one of them when its process ends by
itself without leaving an execution behind, which is a step that takes a
failure, and a step ends at most one process (`UntoldStep`); a cell once
settled stays so (`SettledStays`). `OneValidPerCell` needs
`Placed`: a cell is opened again only while none of its executions is VALID, and a plan
visits a cell once, which is where `ProtocolAssumption` is used (the names of
the scenarios are distinct, as files of one directory). A forced end can come at
any step; `Control` says that it always goes with two Ctrl+C or more and
that no process is at work after it but a dying one.

The load. `NumberingInvariant` adds to the types that the numbers are `1 .. n`
for some `n` (`Dense`), that the one thread that is writing holds the
next of them, and that what a thread answered is its row. That the writer is alone is
the guard of `Begin`, `BEGIN IMMEDIATE`; `BeginDeferred`, without it, breaks the
property. `CollectionInvariant` carries it to the verdict: after the joins no line
changes (`LinesStay`), the rows of an answered order that ended stay
(`EndedRowsStay`), so what was settled is what is collected and what is
collected stays true.

The recovery. The code sorts and takes the first window; D-24 speaks of k consecutive
orders and of no sequence. `CanBeSorted` shows that a finite set of rows with
distinct numbers can be put in the order of creation, `SortedPlaces` that each row
then has one place. Rows at k places in a row are a window of D-24
(`PlacesAreWindow`), and a window of D-24 takes k places in a row
(`WindowTakesPlaces`): its places have no gap because its rows are
consecutive, and there are k of them. So the two choose among the same first rows, and the least place is the earliest. The percentile is not unfolded: the theorem holds whatever
is called normal. That the recovery does not lie before the end of the fault needs
`InstantsFit`: no task ends before it was created.

Assumptions on the constants: `LimitsAssumption` (the pydantic configuration),
`ActorsAssumption` (the worker is not a task, the engine is one of two, the
bounds are numbers), `RequestsAssumption` (the fields of a request, numbers
as bounds), `SystemAssumption` (the requests of tasks, bounds, and that a
repetition is allowed for each killed child), `WorkloadAssumption` (numbers, positive intervals, the fault
types the model gives a meaning) and `ProtocolAssumption` (positive numbers of
cycles and attempts, distinct scenarios with a known fault). TLC evaluates them in every run of their
modules.

Only model-checked: liveness (`EveryTaskEndsHere`, `EveryRequestSettled`,
`NeverHalfUp`, `SessionEnds`), which needs fairness and ENABLED and is out of
the prover's reach. Every invariant and every action property a passing run checks, and
every refinement, is proved. Library theorems that take a predicate as a
parameter, such as induction, cannot be used either; where an induction is
needed, over the rows of a trajectory or the size of a set, the numbers that satisfy
the claim are made a set and its least counterexample is refuted (`LeastNumber`,
`UpTo`, `EveryNumber`). No theorem is about the value of the percentile or about the
instants of the plan, which is a recursive function of the intervals.

## 5. Where the code and its documents disagree

* **A lost dispatch is not detected** (`LostDispatch`). docs/08 and docs/13
  (D-04) justify the absence of an outbox by the timeout check. The timeout
  check is itself sent after the commit, after the publication.
* **A registered failure may get no decision** (`Registered`). Registration
  and decision are two transactions; after a crash in between, the redelivered
  message is recognised as already registered and ends there.
* **`is_awaiting_reply`** (`Awaiting`) takes the late answer to an old request
  for the answer to the current one, and its timeout is not registered.
* **Repetitions are not always recorded** (`Repeats`): the first occurrence is
  looked up among rows not flagged redelivered.
* **A stored answer may never leave** (`Recovered`). A test of the inventory
  simulates a publication that raises after the commit and takes the
  redelivery for the recovery; but an exception is not redelivered, the
  message is rejected to `tasks.dlq` (`task_reject_on_worker_lost` covers a
  lost process only). The reservation stays and the task is ended as failed.

Smaller ones, seen while modelling and not given a run of their own:

* `_latency_ms` takes any first row of the inventory after the latest request
  for its reply, as `is_awaiting_reply` does, and a reply recorded only with
  `redelivered = 1` never stops the latency; `PointSeesItsCause` is stated with
  these two exceptions.
* D-25 counts a task as affected by its recorded decisions: a decision point
  that was opened and, after a crash, never decided is not seen.
* docs/13 (line 478) speaks of FAILED orders with a reservation in the analysis;
  `run_scenario.py` counts them, `consolidate.py` does not read `inventory.db`.
* The docstring of `generate_load.py` says that each sending becomes a line;
  what a thread raises other than `OSError` stays in its future, and the
  execution has fewer lines than orders without anyone counting
  (`AcceptedRunIsComplete` names this case).
* Orders are numbered in the order their threads got the lock, not in that of the plan.

## 6. Not modelled

* **Language model engine, in part**: its output is any proposal; prompt,
  HTTP client and the reading of the text are not modelled. A parser that maps any
  text to a proposal or to none cannot make the model's engine do more than it does.
* **Envelope and contracts**: validation of fields; a message out of contract is
  one more rejected message.
* **Configuration**: loaded once before anything runs; its limits are constants.
* **Recorders and logging, in part**: the two files are in `Traceability`, the
  operational log is text.
* **Messaging configuration and broker, in part**: the Celery options are modelled by
  what they do; connection loss and the declaration of queues are not.
* **Analysis, in part**: means, throughput, cost of decisions and use of resources are
  arithmetic over the rows whose meaning is checked in `Traceability`.
* **Pilot tools** (`llm_bench.py`, `decision_scenarios.py`, exports): stand-alone
  scripts without shared state. GET endpoints only read.

## 7. Plan

1. **Done**: decision point, coordination of orders, its lifecycle, their proofs.
2. **Done**: the inventory, its promise, its divergence and its proofs.
3. **Done**: the protocol of executions and its proofs.
4. **Done**: the composition of the two services, both refinements and their proofs.
5. **Done**: the state builder, the files of an execution, their check and
   metrics, and their proofs.
6. **Done**: the load, its numbering and its recovery, with proofs.
7. **Left, model**: the reading of the language model's text, and two workers
   of the orders-service, the configuration the code excludes.
