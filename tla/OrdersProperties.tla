--------------------------- MODULE OrdersProperties ---------------------------
(***************************************************************************)
(* What the coordination of orders must guarantee, whatever the engine     *)
(* proposes and whichever order the consumers run in.                      *)
(***************************************************************************)
EXTENDS OrdersCoordination

ActorState ==
  [pc: {"idle", "build", "execute", "effects", "done"}, task: Tasks \cup {None},
   msg: Message \cup {NoMessage},
   decision: [action: Actions \cup {"none"}, target: Targets, reason: ReasonCodes \cup {None}],
   effects: Seq(Message)]

DatabaseType ==
  /\ task \in [Tasks -> TaskRow]
  /\ order \in [Tasks -> OrderStatuses]
  /\ events \in [Tasks -> Seq(EventRow)]
  /\ processed \subseteq Tasks \X Nat

ActorType ==
  /\ actor \in [Actors -> ActorState]
  /\ \A a \in Actors :
       /\ InRequest(a) => actor[a].task \in Tasks
       /\ At(a, "execute") => MeetsContract(actor[a].decision)
  /\ ~At(Worker, "done")
  /\ InRequest(Worker) => actor[Worker].msg \in Message

BrokerType ==
  /\ inbox \subseteq Message /\ requests \subseteq Message
  /\ replies \subseteq Message /\ deadLetters \subseteq Message

BoundsType ==
  /\ expired \subseteq Tasks
  /\ crashes \in 0 .. MaxCrashes /\ failures \in 0 .. MaxFailures
  /\ losses \in 0 .. MaxLosses /\ reemissions \in 0 .. MaxReemissions

(* Every variable holds what the tables and the broker can hold; a request *)
(* being served has its task, the worker its message, and a decision about *)
(* to be executed meets the contract of shared.decision.Decision, whatever *)
(* the engine proposed.                                                    *)
TypeOK == DatabaseType /\ ActorType /\ BrokerType /\ BoundsType

-----------------------------------------------------------------------------
(* The task row, the order and the trajectory tell the same story.         *)

(* An order follows its task: FAILED exactly when the task was aborted or  *)
(* dead-lettered, COMPLETED exactly when it completed, by whichever of the *)
(* API, the worker and the dead-letter consumer ended it.                  *)
OrderMirrorsTask ==
  \A t \in Tasks :
    order[t] = IF Created(t) THEN OrderStatusFor(task[t].status) ELSE "ABSENT"

Rows(t, type) == {i \in DOMAIN events[t] : events[t][i].type = type}

(* The rows that move the status of a task, and the status they leave.     *)
StatusAfter ==
  [TASK_CREATED |-> {"PENDING"}, REQUESTED |-> {"DISPATCHED", "FALLBACK_PROCESSING"},
   RETRY_SCHEDULED |-> {"RETRYING"}, WAIT_SCHEDULED |-> {"WAITING"},
   TASK_COMPLETED |-> {"COMPLETED"}, TASK_ABORTED |-> {"ABORTED"}]

IsLastMove(t, i) ==
  /\ events[t][i].type \in DOMAIN StatusAfter
  /\ \A j \in DOMAIN events[t] : events[t][j].type \in DOMAIN StatusAfter => j <= i

(* The trajectory of a task explains its row: the attempts, the waits, the *)
(* route and the status are those of the rows recorded, so the row and the *)
(* trajectory are never written apart (D-16, the window K is read from the *)
(* trajectory and the limits from the row).                                *)
TrajectoryExplainsTask ==
  \A t \in Tasks : Created(t) =>
    /\ task[t].attempt = 1 + Cardinality(Rows(t, "RETRY_SCHEDULED"))
    /\ task[t].waits = Cardinality(Rows(t, "WAIT_SCHEDULED"))
    /\ task[t].fallbackUsed <=> Rows(t, "FALLBACK_SCHEDULED") # {}
    /\ task[t].target = IF task[t].fallbackUsed THEN Fallback
                        ELSE IF Rows(t, "REQUESTED") # {} THEN Primary ELSE None
    /\ \E i \in DOMAIN events[t] :
         /\ IsLastMove(t, i)
         /\ \/ task[t].status \in StatusAfter[events[t][i].type]
            \/ /\ task[t].status = "DEAD_LETTERED"
               /\ events[t][i].type \notin {"TASK_COMPLETED", "TASK_ABORTED"}
               /\ \E j \in Rows(t, "MESSAGE_DEAD_LETTERED") : j > i

(* The second and later rows of one reply.                                 *)
RepeatsRow(t, i, j) ==
  /\ j < i /\ events[t][i].type \in Reported
  /\ events[t][j].type = events[t][i].type /\ events[t][j].ref = events[t][i].ref

FirstOccurrences(t) ==
  {i \in DOMAIN events[t] : ~\E j \in DOMAIN events[t] : RepeatsRow(t, i, j)}

(* The trajectory is numbered 1, 2, 3, ... up to current_event_seq in the  *)
(* order it is written; a repetition takes no number of its own but that   *)
(* of its first occurrence, and is marked redelivered.                     *)
NumberedWithoutGaps ==
  \A t \in Tasks :
    /\ {events[t][i].seq : i \in FirstOccurrences(t)} = 1 .. task[t].seq
    /\ \A i, j \in FirstOccurrences(t) : i < j => events[t][i].seq < events[t][j].seq
    /\ \A i \in DOMAIN events[t] \ FirstOccurrences(t) :
         /\ events[t][i].redelivered
         /\ \E j \in FirstOccurrences(t) :
              RepeatsRow(t, i, j) /\ events[t][j].seq = events[t][i].seq

(* A task that ended never changes again: a late reply, a late decision, a *)
(* late timeout or a dead letter is numbered in its trajectory and nothing *)
(* else (docs/05: no decision acts on a terminal task).                    *)
TerminalIsFinal ==
  [][\A t \in Tasks : Terminal(t) =>
       /\ task'[t] = [task[t] EXCEPT !.seq = task'[t].seq]
       /\ order'[t] = order[t]]_vars

-----------------------------------------------------------------------------
(* Limits, and what a decision may assume when it is executed.             *)

(* No sequence of proposals, repetitions and late messages takes a task    *)
(* past its attempts or its waits.                                         *)
LimitsHold ==
  \A t \in Tasks : task[t].attempt <= MaxAttempts /\ task[t].waits <= MaxWaits

(* A request is published once for each attempt on each route: the         *)
(* redelivery of a scheduled dispatch, or two of them pending at once,     *)
(* never publish the same attempt again, and the fallback route has one.   *)
OneRequestPerAttempt ==
  \A t \in Tasks : \A i, j \in Rows(t, "REQUESTED") :
    /\ events[t][i].target = events[t][j].target
    /\ events[t][i].attempt = events[t][j].attempt \/ events[t][i].target = Fallback
    => i = j

(* A decision the validator let through still applies to the row when its  *)
(* transaction runs, whatever happened since the state was built, unless   *)
(* the dead-letter consumer ended the task in between: that is the only    *)
(* way the executor raises.                                                *)
RaisesOnlyIfDeadLettered ==
  \A a \in Actors : At(a, "execute") =>
    \/ Applicable(actor[a].task, actor[a].decision)
    \/ task[actor[a].task].status = "DEAD_LETTERED"

(* The Rules policy is never refused by the validator it shares with the   *)
(* language model, and never falls through to UNMAPPED_STATE, at any       *)
(* decision point a live task reaches.                                     *)
RulesAlwaysAccepted ==
  Engine = "RULES" =>
    \A a \in Actors : At(a, "build") /\ ~Terminal(actor[a].task) =>
      \A s \in Snapshots(actor[a].task) :
        /\ FirstError(RulesPolicy(s), s) = None
        /\ RulesPolicy(s).reason # "UNMAPPED_STATE"

-----------------------------------------------------------------------------
(* Why decisions can be taken without a lock.                              *)

(* A handler works on one task: that of the order it opened or of the      *)
(* message it took, which is also the task of whatever it has to send.     *)
OwnTask ==
  /\ \A t \in Tasks : InRequest(t) => actor[t].task = t /\ Created(t)
  /\ \A a \in Actors : InRequest(a) =>
       \A i \in DOMAIN actor[a].effects : actor[a].effects[i].task = actor[a].task
  /\ InRequest(Worker) => actor[Worker].msg.task = actor[Worker].task

(* Until the first decision of a task is committed nothing about it has    *)
(* been published, so the API process is alone with it.                    *)
AloneAtFirst ==
  \A t \in Tasks : ~Created(t) \/ At(t, "build") \/ At(t, "execute") =>
    /\ \A m \in inbox \cup requests \cup replies \cup deadLetters : m.task # t
    /\ InRequest(Worker) => actor[Worker].task # t

(* What the validator checked on the snapshot is true of the row when the  *)
(* decision is executed, unless a dead letter ended the task in between.   *)
StillHolds(row, d) ==
  /\ row.status \in ActiveStatuses
  /\ d.action = "CONTINUE" => row.target = None
  /\ d.action = "RETRY"    => row.target = Primary /\ row.attempt < MaxAttempts
  /\ d.action = "WAIT"     => row.waits < MaxWaits
  /\ d.action = "FALLBACK" => d.target = Fallback /\ ~row.fallbackUsed

DecisionsHold ==
  \A a \in Actors : At(a, "execute") =>
    \/ actor[a].decision.action = "ABORT"
    \/ task[actor[a].task].status = "DEAD_LETTERED"
    \/ StillHolds(task[actor[a].task], actor[a].decision)

(* A live task without a route has not been dispatched.                    *)
UnroutedNotDispatched ==
  \A t \in Tasks : Created(t) /\ ~Terminal(t) /\ task[t].target = None =>
    task[t].status \in {"PENDING", "WAITING"}

(* One decision is in progress for a task at a time, and nothing but a     *)
(* dead letter can invalidate it.                                          *)
Coordinated == OwnTask /\ AloneAtFirst /\ DecisionsHold /\ UnroutedNotDispatched

-----------------------------------------------------------------------------
(* The lifecycle of a task.                                                *)

(* What a row says of the lifecycle, its numbering and last result aside.  *)
Shape(row) ==
  [status |-> row.status, target |-> row.target, attempt |-> row.attempt,
   waits |-> row.waits, fallbackUsed |-> row.fallbackUsed]

Shapes == [t \in Tasks |-> Shape(task[t])]

Lifecycle == INSTANCE TaskLifecycle WITH row <- Shapes

(* Consumers, decisions and messages together take a task only through the *)
(* transitions of its lifecycle, one transition and one task at a time,    *)
(* its order in the same transaction.                                      *)
ImplementsLifecycle == Lifecycle!Spec

-----------------------------------------------------------------------------
(* Messages.                                                               *)

AboutRequest == Reported \cup {"REQUESTED"}

(* Nothing is published that the trajectory does not hold: every request,  *)
(* answer, timeout check and dead letter about a request is about a        *)
(* recorded STOCK_RESERVATION_REQUESTED of that attempt and route.         *)
PublishedWasRecorded ==
  \A m \in inbox \cup requests \cup replies \cup deadLetters :
    /\ m.kind \in AboutRequest =>
         \E i \in Rows(m.task, "REQUESTED") :
           LET e == events[m.task][i]
           IN  e.seq = m.ref /\ e.attempt = m.attempt /\ e.target = m.target
    /\ m.kind = "timeout_check" =>
         \E i \in Rows(m.task, "REQUESTED") : events[m.task][i].seq = m.ref

SameAnswer(n, m) == n.task = m.task /\ n.kind = m.kind /\ n.ref = m.ref

(* No answer of the inventory-service disappears: it waits to be consumed, *)
(* is in the hands of the worker, is in the trajectory, or is on its way   *)
(* to ending the task as a dead letter.                                    *)
NoAnswerLost ==
  \A m \in replies :
    \/ \E i \in Rows(m.task, m.kind) : events[m.task][i].ref = m.ref
    \/ \E n \in inbox \cup deadLetters : SameAnswer(n, m)
    \/ InRequest(Worker) /\ SameAnswer(actor[Worker].msg, m)
    \/ Rows(m.task, "MESSAGE_DEAD_LETTERED") # {}

(* A timeout is registered once for a request, while that request was the  *)
(* latest one and before any answer to it.                                 *)
TimeoutsAreDue ==
  \A t \in Tasks : \A i \in Rows(t, "INVENTORY_TIMEOUT") :
    LET ref == events[t][i].ref
    IN  /\ \E k \in Rows(t, "REQUESTED") :
             /\ k < i /\ events[t][k].seq = ref
             /\ \A j \in Rows(t, "REQUESTED") : j < i => j <= k
        /\ \A j \in DOMAIN events[t] : j < i /\ events[t][j].ref = ref =>
             events[t][j].type \notin Reported \cup {"INVENTORY_TIMEOUT"}

(* Each wait ends at most once, and only the wait the task was in.         *)
WaitsEndOnce ==
  \A t \in Tasks : \A i \in Rows(t, "WAIT_FINISHED") :
    LET ref == events[t][i].ref
    IN  /\ ref = Cardinality({k \in Rows(t, "WAIT_SCHEDULED") : k < i})
        /\ \A j \in Rows(t, "WAIT_FINISHED") : events[t][j].ref = ref => j = i

-----------------------------------------------------------------------------
(* What the documentation says and the code does not do.                   *)

(* D-04, docs/08: a dispatch whose publication was lost is detected by the *)
(* timeout check and becomes a decision point.                             *)
LostDispatchDetected ==
  \A t \in Tasks : task[t].status = "DISPATCHED" ~> task[t].status # "DISPATCHED"

(* trajectory.is_awaiting_reply: the request is the current one of the     *)
(* task and has no reply of the inventory-service yet.                     *)
AwaitingMeansUnanswered ==
  \A t \in Tasks : \A i \in Rows(t, "REQUESTED") :
    LET seq == events[t][i].seq
    IN  IsLatestRequest(t, i)
          => (IsAwaitingReply(t, seq) <=>
                ~\E j \in DOMAIN events[t] :
                   events[t][j].type \in Reported /\ events[t][j].ref = seq)

(* event_handler: a repeated event enters the trajectory, with the number  *)
(* of its first occurrence.                                                *)
RepeatsAreRecorded ==
  [][\A m \in inbox :
       HandleRepeated(m) => Len(events'[m.task]) = Len(events[m.task]) + 1]_vars

(* shared/messaging: a worker that falls causes a redelivery that the      *)
(* idempotency of transport deals with; so a registered failure, timeout   *)
(* or end of a wait still gets its decision point.                         *)
RegisteredIsDecided ==
  \A t \in Tasks :
    At(Worker, "build") /\ actor[Worker].task = t
      ~> Terminal(t) \/ (At(Worker, "execute") /\ actor[Worker].task = t)
=============================================================================
