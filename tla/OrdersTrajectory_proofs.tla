------------------------ MODULE OrdersTrajectory_proofs ------------------------
(***************************************************************************)
(* For any tasks, limits, engine and numbers of faults: the trajectory of  *)
(* a task is numbered without gaps, explains its row, requests each        *)
(* attempt once, and registers only timeouts that are due and waits that   *)
(* end.  Rows are appended one by one; what is proved about one append is  *)
(* said of a sequence s of rows, of the row of the task and of the         *)
(* requests whose answers were applied.                                    *)
(***************************************************************************)
EXTENDS OrdersCoordination_proofs, FiniteSetTheorems

-----------------------------------------------------------------------------
(* Messages: nothing is published that the trajectory does not hold.       *)

(* What the inventory-service reports.                                     *)
Outcomes == {"ok", "transient_error", "invalid_data"}

(* The trajectories hold the request a message is about, a failure has a   *)
(* reason the inventory-service reports, and what the orders-service sends *)
(* itself is never flagged redelivered.                                    *)
Explained(m, rows) ==
  /\ m.kind \notin AboutRequest => ~m.redelivered
  /\ m.kind = "FAILED" => m.reason \in Outcomes \ {"ok"}
  /\ m.kind \in AboutRequest =>
       \E i \in DOMAIN rows[m.task] :
         /\ rows[m.task][i].type = "REQUESTED" /\ rows[m.task][i].seq = m.ref
         /\ rows[m.task][i].attempt = m.attempt /\ rows[m.task][i].target = m.target
  /\ m.kind = "timeout_check" =>
       \E i \in DOMAIN rows[m.task] :
         rows[m.task][i].type = "REQUESTED" /\ rows[m.task][i].seq = m.ref

Queued == inbox \cup requests \cup replies \cup deadLetters

(* What a handler holds is explained before it is sent, or given back.     *)
HandlerExplained(r, rows) ==
  /\ r.msg \in Message => Explained(r.msg, rows)
  /\ \A i \in DOMAIN r.effects : Explained(r.effects[i], rows)

MessagesExplained ==
  /\ \A m \in Queued : Explained(m, events)
  /\ \A a \in Actors : HandlerExplained(actor[a], events)

(* The queues of the inventory-service and its answers are about requests. *)
KindsOfQueues == \A m \in requests \cup replies : m.kind \in AboutRequest

-----------------------------------------------------------------------------
(* A trajectory only grows.                                                *)

Grows(t) ==
  /\ Len(events[t]) <= Len(events'[t])
  /\ \A i \in DOMAIN events[t] : events'[t][i] = events[t][i]

(* Rows are appended.                                                      *)
LEMMA AppendGrows ==
  ASSUME DatabaseType, NEW t \in Tasks, NEW S, NEW rows \in Seq(S),
         events' = [events EXCEPT ![t] = @ \o rows]
  PROVE  \A u \in Tasks : Grows(u)
<1>1. \A u \in Tasks : events[u] \in Seq(EventRow)
  BY DEF DatabaseType
<1>2. events'[t] = events[t] \o rows
  BY DEF DatabaseType
<1>3. \A u \in Tasks \ {t} : events'[u] = events[u]
  BY DEF DatabaseType
<1>4. Grows(t)
  <2>1. events[t] \in Seq(EventRow \cup S) /\ rows \in Seq(EventRow \cup S)
    BY <1>1
  <2> QED
    BY <1>2, <2>1 DEF Grows
<1>5. \A u \in Tasks \ {t} : Grows(u)
  BY <1>1, <1>3 DEF Grows
<1> QED
  BY <1>4, <1>5

(* A message explained stays explained.                                    *)
LEMMA StaysExplained ==
  ASSUME DatabaseType, NEW m, m.task \in Tasks, Explained(m, events), Grows(m.task),
         events' \in [Tasks -> Seq(EventRow)]
  PROVE  Explained(m, events')
<1> DEFINE t == m.task
<1>1. events[t] \in Seq(EventRow) /\ events'[t] \in Seq(EventRow)
  BY DEF DatabaseType
<1>2. \A i \in DOMAIN events[t] : i \in DOMAIN events'[t] /\ events'[t][i] = events[t][i]
  BY <1>1 DEF Grows
<1> QED
  BY <1>2 DEF Explained

(* Only a transaction changes a trajectory, by the rows it appends.        *)
Appends == \E t \in Tasks : \E S : \E rows \in Seq(S) : events' = [events EXCEPT ![t] = @ \o rows]

(* A transaction that writes one or two rows appends them.                 *)
LEMMA WriteAppends ==
  ASSUME NEW t \in Tasks, NEW row, NEW x, NEW y, Write(t, row, <<x>>) \/ Write(t, row, <<x, y>>)
  PROVE  Appends
<1>1. <<x>> \in Seq({x, y}) /\ <<x, y>> \in Seq({x, y})
  OBVIOUS
<1> QED
  BY <1>1 DEF Write, Appends

(* The executor.                                                           *)
LEMMA ActAppends ==
  ASSUME TypeOK, NEW a \in Actors, Act(a)
  PROVE  events' = events \/ Appends
<1>1. InRequest(a) => actor[a].task \in Tasks
  BY DEF TypeOK, ActorType
<1>2. CASE TakeDecision(a) \/ ExecuteRaises(a) \/ SendNext(a) \/ Return(a)
  BY <1>2 DEF TakeDecision, ExecuteRaises, SendNext, Return, database
<1>3. ASSUME At(a, "execute") PROVE actor[a].task \in Tasks
  BY <1>1, <1>3 DEF InRequest, At
<1>4. CASE ExecuteContinue(a)
  BY <1>3, <1>4, WriteAppends DEF ExecuteContinue, Executing
<1>5. CASE ExecuteRetry(a)
  BY <1>3, <1>5, WriteAppends DEF ExecuteRetry, Executing
<1>6. CASE ExecuteWait(a)
  BY <1>3, <1>6, WriteAppends DEF ExecuteWait, Executing
<1>7. CASE ExecuteFallback(a)
  BY <1>3, <1>7, WriteAppends DEF ExecuteFallback, Executing
<1>8. CASE ExecuteAbort(a)
  BY <1>3, <1>8, WriteAppends DEF ExecuteAbort, Executing
<1> QED
  BY <1>2, <1>4, <1>5, <1>6, <1>7, <1>8 DEF Act, ExecuteDecision

(* The handlers of messages.                                               *)
LEMMA HandleAppends ==
  ASSUME TypeOK, NEW m \in inbox, Handle(m)
  PROVE  events' = events \/ Appends
<1>1. m.task \in Tasks
  BY DEF TypeOK, BrokerType, Message
<1>2. CASE HandleRepeated(m)
  <2> DEFINE rows == IF \E i \in DOMAIN events[m.task] : IsFirstRowOf(m.task, i, m)
                     THEN <<ReplyEvent(m, events[m.task][CHOOSE i \in DOMAIN events[m.task] :
                                                           IsFirstRowOf(m.task, i, m)].seq, TRUE)>>
                     ELSE <<>>
  <2>1. events' = [events EXCEPT ![m.task] = @ \o rows]
    BY <1>1, <1>2 DEF HandleRepeated, TypeOK, DatabaseType
  <2>2. PICK x : rows = <<x>> \/ rows = <<>>
    OBVIOUS
  <2> HIDE DEF rows
  <2>3. rows \in Seq({x})
    <3>1. <<x>> \in Seq({x}) /\ <<>> \in Seq({x})
      OBVIOUS
    <3> QED
      BY <2>2, <3>1
  <2> QED
    BY <1>1, <2>1, <2>3 DEF Appends
<1>3. CASE HandleSucceeded(m)
  BY <1>1, <1>3, WriteAppends DEF HandleSucceeded
<1>4. CASE HandleFailed(m)
  BY <1>1, <1>4, WriteAppends DEF HandleFailed
<1>5. CASE HandleTimeout(m)
  BY <1>1, <1>5, WriteAppends DEF HandleTimeout
<1>6. CASE HandleReevaluate(m)
  BY <1>1, <1>6, WriteAppends DEF HandleReevaluate
<1>7. CASE HandleDispatch(m)
  BY <1>1, <1>7, WriteAppends DEF HandleDispatch
<1>8. CASE HandleStale(m)
  BY <1>8 DEF HandleStale, database
<1> QED
  BY <1>2, <1>3, <1>4, <1>5, <1>6, <1>7, <1>8 DEF Handle

(* Every step appends.                                                     *)
LEMMA StepAppends ==
  ASSUME TypeOK, [Next]_vars
  PROVE  events' = events \/ Appends
<1>1. ASSUME NEW t \in Tasks, CreateOrder(t) PROVE Appends
  BY <1>1, WriteAppends DEF CreateOrder
<1>2. ASSUME NEW m \in deadLetters, RecordDeadLetter(m) PROVE Appends
  <2>1. m.task \in Tasks
    BY DEF TypeOK, BrokerType, Message
  <2> QED
    BY <1>2, <2>1, WriteAppends DEF RecordDeadLetter
<1>3. ASSUME NEW m \in deadLetters,
             HandleDeadLetter(m) \/ HandleDeadLetterUnacknowledged(m) \/ DeadLetterLost(m)
      PROVE  events' = events \/ Appends
  BY <1>2, <1>3 DEF HandleDeadLetter, HandleDeadLetterUnacknowledged, DeadLetterLost, database
<1>4. CASE \/ WorkerRaises \/ \E t \in Tasks : ApiRaises(t)
           \/ \E m \in inbox : HandlerRaises(m)
           \/ WorkerCrash \/ ApiCrash
  BY <1>4 DEF WorkerRaises, ApiRaises, Raises, HandlerRaises, WorkerCrash, ApiCrash, database
<1>5. CASE \/ \E t \in Tasks : DeadlinePasses(t)
           \/ \E m \in requests : RequestAnswered(m) \/ RequestDeadLettered(m)
           \/ \E m \in replies : AnswerSentAgain(m) \/ AnsweredRequestDeadLettered(m)
           \/ UNCHANGED vars
  BY <1>5 DEF DeadlinePasses, RequestAnswered, RequestDeadLettered, AnswerSentAgain,
              AnsweredRequestDeadLettered, database, vars
<1> QED
  BY <1>1, <1>3, <1>4, <1>5, ActAppends, HandleAppends DEF Next, WorkerStep, Disturbance, Actors

(* What was explained stays explained.                                     *)
LEMMA StepExplains ==
  ASSUME TypeOK, [Next]_vars
  PROVE  /\ \A t \in Tasks : Grows(t)
         /\ \A m \in Message : Explained(m, events) => Explained(m, events')
<1>1. DatabaseType /\ events' \in [Tasks -> Seq(EventRow)]
  BY TypeStep DEF TypeOK, DatabaseType
<1>2. \A t \in Tasks : Grows(t)
  <2>1. CASE events' = events
    BY <1>1, <2>1 DEF Grows, DatabaseType
  <2>2. CASE Appends
    BY <1>1, <2>2, AppendGrows DEF Appends
  <2> QED
    BY <2>1, <2>2, StepAppends
<1>3. ASSUME NEW m \in Message, Explained(m, events) PROVE Explained(m, events')
  BY <1>1, <1>2, <1>3, StaysExplained DEF Message
<1> QED
  BY <1>2, <1>3

-----------------------------------------------------------------------------
(* What a handler is left with.                                            *)

(* The request of a row just appended, and its timeout check.              *)
LEMMA RequestExplained ==
  ASSUME DatabaseType, NEW t \in Tasks, NEW row, NEW rows,
         rows = <<RequestEvent(row)>> \/ \E x : rows = <<x, RequestEvent(row)>>,
         events' = [events EXCEPT ![t] = @ \o rows]
  PROVE  \A i \in DOMAIN RequestMessages(t, row) : Explained(RequestMessages(t, row)[i], events')
<1> DEFINE last == Len(events[t]) + Len(rows)
           request == RequestMessages(t, row)[1]
           check   == RequestMessages(t, row)[2]
<1>1. events[t] \in Seq(EventRow) /\ events'[t] = events[t] \o rows
  BY DEF DatabaseType
<1>2. last \in DOMAIN events'[t] /\ events'[t][last] = RequestEvent(row)
  <2>1. \E S : rows \in Seq(S) /\ rows # <<>> /\ rows[Len(rows)] = RequestEvent(row)
    <3>1. CASE rows = <<RequestEvent(row)>>
      <4>1. <<RequestEvent(row)>> \in Seq({RequestEvent(row)})
        OBVIOUS
      <4> QED
        BY <3>1, <4>1
    <3>2. ASSUME NEW x, rows = <<x, RequestEvent(row)>>
          PROVE  \E S : rows \in Seq(S) /\ rows # <<>> /\ rows[Len(rows)] = RequestEvent(row)
      <4>1. <<x, RequestEvent(row)>> \in Seq({x, RequestEvent(row)})
        OBVIOUS
      <4> QED
        BY <3>2, <4>1
    <3> QED
      BY <3>1, <3>2
  <2>2. PICK S : rows \in Seq(S) /\ rows # <<>> /\ rows[Len(rows)] = RequestEvent(row)
    BY <2>1
  <2>3. events[t] \in Seq(EventRow \cup S) /\ rows \in Seq(EventRow \cup S)
    BY <1>1, <2>2
  <2> QED
    BY <1>1, <2>2, <2>3
<1>3. /\ events'[t][last].type = "REQUESTED" /\ events'[t][last].seq = row.seq
      /\ events'[t][last].attempt = row.attempt /\ events'[t][last].target = row.target
  BY <1>2 DEF RequestEvent, OwnEvent
<1>4. /\ request.task = t /\ request.kind = "REQUESTED" /\ request.ref = row.seq
      /\ request.attempt = row.attempt /\ request.target = row.target
      /\ check.task = t /\ check.kind = "timeout_check" /\ check.ref = row.seq
      /\ ~check.redelivered
  BY DEF RequestMessages, InternalMessage
<1> HIDE DEF last, request, check
<1>5. Explained(request, events') /\ Explained(check, events')
  <2>1. Explained(request, events')
    BY <1>2, <1>3, <1>4 DEF Explained, AboutRequest
  <2>2. Explained(check, events')
    BY <1>2, <1>3, <1>4 DEF Explained, AboutRequest, Reported
  <2> QED
    BY <2>1, <2>2
<1>6. DOMAIN RequestMessages(t, row) = {1, 2}
  BY DEF RequestMessages
<1> QED
  BY <1>5, <1>6 DEF request, check

(* A scheduled attempt and a reevaluation are about no request.            *)
LEMMA ScheduledExplained ==
  ASSUME NEW t, NEW ref, NEW kind \in {"dispatch_attempt", "reevaluate"}
  PROVE  Explained(InternalMessage(kind, t, ref), events')
BY DEF Explained, InternalMessage, AboutRequest, Reported

(* One handler goes on with messages that are explained.                   *)
LEMMA HandlerKeeps ==
  ASSUME TypeOK, [Next]_vars, MessagesExplained, NEW a \in Actors, NEW r,
         actor' = [actor EXCEPT ![a] = r],
         r.msg \in Message => Explained(r.msg, events'),
         \A i \in DOMAIN r.effects : Explained(r.effects[i], events')
  PROVE  \A b \in Actors : HandlerExplained(actor'[b], events')
<1>1. actor \in [Actors -> ActorState]
  BY DEF TypeOK, ActorType
<1>2. actor'[a] = r
  BY <1>1
<1>3. HandlerExplained(actor'[a], events')
  BY <1>2 DEF HandlerExplained
<1>4. ASSUME NEW b \in Actors \ {a} PROVE HandlerExplained(actor'[b], events')
  <2>1. actor'[b] = actor[b] /\ HandlerExplained(actor[b], events)
    BY <1>1 DEF MessagesExplained
  <2>2. actor[b].effects \in Seq(Message)
    BY <1>1 DEF ActorState
  <2>3. \A i \in DOMAIN actor[b].effects : actor[b].effects[i] \in Message
    BY <2>2, ElementOfSeq
  <2> QED
    BY <2>1, <2>3, StepExplains DEF HandlerExplained
<1> QED
  BY <1>3, <1>4

(* What the queues hold stays explained, with what they receive.           *)
LEMMA QueuesKeep ==
  ASSUME TypeOK, [Next]_vars, MessagesExplained,
         \A m \in Queued' : m \in Queued \/ Explained(m, events')
  PROVE  \A m \in Queued' : Explained(m, events')
BY StepExplains DEF TypeOK, BrokerType, Queued, MessagesExplained

(* A handler that gives up holds nothing.                                  *)
LEMMA NothingHeld ==
  /\ Free.msg \notin Message /\ Finished.msg \notin Message
  /\ DOMAIN Free.effects = {} /\ DOMAIN Finished.effects = {}
BY DEF Free, Finished, NoMessage, Message, Kinds, Reported

(* What a handler holds stays explained.                                   *)
LEMMA HeldStays ==
  ASSUME TypeOK, [Next]_vars, MessagesExplained, NEW a \in Actors
  PROVE  /\ actor[a] \in ActorState
         /\ actor[a].msg \in Message => Explained(actor[a].msg, events')
         /\ \A i \in DOMAIN actor[a].effects : Explained(actor[a].effects[i], events')
<1>1. actor[a] \in ActorState /\ HandlerExplained(actor[a], events)
  BY DEF TypeOK, ActorType, MessagesExplained
<1>2. actor[a].effects \in Seq(Message)
  BY <1>1 DEF ActorState
<1>3. \A i \in DOMAIN actor[a].effects : actor[a].effects[i] \in Message
  BY <1>2, ElementOfSeq
<1> QED
  BY <1>1, <1>3, StepExplains DEF HandlerExplained

-----------------------------------------------------------------------------
(* The actions.                                                            *)

(* A transaction of the executor and the messages it leaves.               *)
LEMMA ThenSendExplained ==
  ASSUME TypeOK, [Next]_vars, MessagesExplained, NEW a \in Actors, NEW messages,
         ThenSend(a, messages), \A i \in DOMAIN messages : Explained(messages[i], events'),
         UNCHANGED <<broker, replies>>
  PROVE  MessagesExplained'
<1> DEFINE r == [actor[a] EXCEPT !.pc = "effects", !.decision = NoDecision,
                                 !.effects = messages]
<1>1. actor[a] \in ActorState
  BY DEF TypeOK, ActorType
<1>2. r.msg = actor[a].msg /\ r.effects = messages
  BY <1>1 DEF ActorState
<1>3. actor' = [actor EXCEPT ![a] = r]
  BY DEF ThenSend
<1> HIDE DEF r
<1>4. \A b \in Actors : HandlerExplained(actor'[b], events')
  <2>1. r.msg \in Message => Explained(r.msg, events')
    BY <1>2, HeldStays
  <2>2. \A i \in DOMAIN r.effects : Explained(r.effects[i], events')
    BY <1>2
  <2> QED
    BY <1>3, <2>1, <2>2, HandlerKeeps
<1>5. \A m \in Queued' : Explained(m, events')
  BY QueuesKeep DEF Queued, broker
<1> QED
  BY <1>4, <1>5 DEF MessagesExplained

(* The executor.                                                           *)
LEMMA ExecuteExplained ==
  ASSUME TypeOK, [Next]_vars, MessagesExplained, NEW a \in Actors, ExecuteDecision(a),
         ~ExecuteRaises(a)
  PROVE  MessagesExplained'
<1> DEFINE t == actor[a].task
<1>1. t \in Tasks
  BY DEF TypeOK, ActorType, InRequest, At, ExecuteDecision, ExecuteContinue, ExecuteRetry,
         ExecuteWait, ExecuteFallback, ExecuteAbort, Executing
<1>2. DatabaseType
  BY DEF TypeOK
<1>3. ASSUME NEW row, NEW rows, Write(t, row, rows),
             rows = <<RequestEvent(row)>> \/ \E x : rows = <<x, RequestEvent(row)>>,
             ThenSend(a, RequestMessages(t, row)), UNCHANGED <<broker, replies>>
      PROVE  MessagesExplained'
  <2>1. \A i \in DOMAIN RequestMessages(t, row) : Explained(RequestMessages(t, row)[i], events')
    BY <1>1, <1>2, <1>3, RequestExplained DEF Write
  <2> QED
    BY <1>3, <2>1, ThenSendExplained
<1>4. ASSUME NEW ref, NEW kind \in {"dispatch_attempt", "reevaluate"},
             ThenSend(a, <<InternalMessage(kind, t, ref)>>), UNCHANGED <<broker, replies>>
      PROVE  MessagesExplained'
  <2> DEFINE messages == <<InternalMessage(kind, t, ref)>>
  <2>1. \A i \in DOMAIN messages : messages[i] = InternalMessage(kind, t, ref)
    OBVIOUS
  <2>2. \A i \in DOMAIN messages : Explained(messages[i], events')
    BY <2>1, ScheduledExplained
  <2> QED
    BY <1>4, <2>2, ThenSendExplained
<1>5. CASE ExecuteContinue(a)
  <2> DEFINE row == Numbered([task[t] EXCEPT !.status = "DISPATCHED", !.target = Primary])
  <2>1. /\ Write(t, row, <<RequestEvent(row)>>) /\ ThenSend(a, RequestMessages(t, row))
        /\ UNCHANGED <<broker, replies>>
    BY <1>5 DEF ExecuteContinue
  <2> HIDE DEF row
  <2> QED
    BY <1>3, <2>1
<1>6. CASE ExecuteRetry(a)
  BY <1>4, <1>6 DEF ExecuteRetry
<1>7. CASE ExecuteWait(a)
  BY <1>4, <1>7 DEF ExecuteWait
<1>8. CASE ExecuteFallback(a)
  <2> DEFINE scheduled == Numbered([task[t] EXCEPT !.status = "FALLBACK_PROCESSING",
                                                   !.target = actor[a].decision.target,
                                                   !.fallbackUsed = TRUE])
             row == Numbered(scheduled)
  <2>1. /\ Write(t, row, <<OwnEvent("FALLBACK_SCHEDULED", 0, scheduled), RequestEvent(row)>>)
        /\ ThenSend(a, RequestMessages(t, row)) /\ UNCHANGED <<broker, replies>>
    BY <1>8 DEF ExecuteFallback
  <2> HIDE DEF row, scheduled
  <2> QED
    BY <1>3, <2>1
<1>9. CASE ExecuteAbort(a)
  <2>1. ThenSend(a, <<>>) /\ UNCHANGED <<broker, replies>>
    BY <1>9 DEF ExecuteAbort
  <2>2. \A i \in DOMAIN <<>> : Explained(<<>>[i], events')
    OBVIOUS
  <2> QED
    BY <2>1, <2>2, ThenSendExplained
<1> QED
  BY <1>5, <1>6, <1>7, <1>8, <1>9 DEF ExecuteDecision

(* A handler that raises gives its message to the dead letters.            *)
LEMMA RejectExplained ==
  ASSUME TypeOK, [Next]_vars, MessagesExplained, NEW a \in Actors, InRequest(a), Reject(a),
         UNCHANGED <<inbox, requests, replies>>
  PROVE  MessagesExplained'
<1>1. PICK r \in {Free, Finished} : actor' = [actor EXCEPT ![a] = r]
  BY DEF Reject
<1>2. \A b \in Actors : HandlerExplained(actor'[b], events')
  BY <1>1, NothingHeld, HandlerKeeps
<1>3. \A m \in Queued' : m \in Queued \/ (a = Worker /\ m = actor[a].msg)
  BY DEF Reject, Queued
<1>4. a = Worker => Explained(actor[a].msg, events')
  BY HeldStays DEF TypeOK, ActorType
<1>5. \A m \in Queued' : Explained(m, events')
  BY <1>3, <1>4, QueuesKeep
<1> QED
  BY <1>2, <1>5 DEF MessagesExplained

(* The other steps of a handler.                                           *)
LEMMA ActExplained ==
  ASSUME TypeOK, [Next]_vars, MessagesExplained, NEW a \in Actors, Act(a)
  PROVE  MessagesExplained'
<1>1. actor[a] \in ActorState
  BY DEF TypeOK, ActorType
<1>2. CASE TakeDecision(a)
  <2>1. PICK d : actor' = [actor EXCEPT ![a].pc = "execute", ![a].decision = d]
    BY <1>2 DEF TakeDecision
  <2> DEFINE r == [actor[a] EXCEPT !.pc = "execute", !.decision = d]
  <2>2. r.msg = actor[a].msg /\ r.effects = actor[a].effects
    BY <1>1 DEF ActorState
  <2>3. actor' = [actor EXCEPT ![a] = r]
    BY <2>1
  <2> HIDE DEF r
  <2>4. \A b \in Actors : HandlerExplained(actor'[b], events')
    BY <2>2, <2>3, HeldStays, HandlerKeeps
  <2>5. \A m \in Queued' : Explained(m, events')
    BY <1>2, QueuesKeep DEF TakeDecision, Queued, broker
  <2> QED
    BY <2>4, <2>5 DEF MessagesExplained
<1>3. CASE ExecuteDecision(a) /\ ~ExecuteRaises(a)
  BY <1>3, ExecuteExplained
<1>4. CASE ExecuteRaises(a)
  BY <1>4, RejectExplained DEF ExecuteRaises, InRequest, At
<1>5. CASE SendNext(a)
  <2> DEFINE r == [actor[a] EXCEPT !.effects = Tail(@)]
  <2>1. /\ actor[a].effects \in Seq(Message) /\ actor[a].effects # <<>>
        /\ r.msg = actor[a].msg /\ r.effects = Tail(actor[a].effects)
    BY <1>1, <1>5 DEF ActorState, SendNext
  <2>2. actor' = [actor EXCEPT ![a] = r]
    BY <1>5 DEF SendNext
  <2> HIDE DEF r
  <2>3. /\ 1 \in DOMAIN actor[a].effects /\ Head(actor[a].effects) = actor[a].effects[1]
        /\ \A i \in DOMAIN r.effects :
             i + 1 \in DOMAIN actor[a].effects /\ r.effects[i] = actor[a].effects[i + 1]
    BY <2>1
  <2>4. \A b \in Actors : HandlerExplained(actor'[b], events')
    BY <2>1, <2>2, <2>3, HeldStays, HandlerKeeps
  <2>5. \A m \in Queued' : m \in Queued \/ m = Head(actor[a].effects)
    BY <1>5 DEF SendNext, Queued
  <2>6. \A m \in Queued' : Explained(m, events')
    BY <2>3, <2>5, HeldStays, QueuesKeep
  <2> QED
    BY <2>4, <2>6 DEF MessagesExplained
<1>6. CASE Return(a)
  <2>1. PICK r \in {Free, Finished} : actor' = [actor EXCEPT ![a] = r]
    BY <1>6 DEF Return
  <2>2. \A b \in Actors : HandlerExplained(actor'[b], events')
    BY <2>1, NothingHeld, HandlerKeeps
  <2>3. \A m \in Queued' : Explained(m, events')
    BY <1>6, QueuesKeep DEF Return, Queued, broker
  <2> QED
    BY <2>2, <2>3 DEF MessagesExplained
<1> QED
  BY <1>2, <1>3, <1>4, <1>5, <1>6 DEF Act

(* The worker takes a message, with what its transaction leaves to send.   *)
LEMMA BeginExplained ==
  ASSUME TypeOK, [Next]_vars, MessagesExplained, NEW m \in inbox, NEW pc, NEW messages,
         Begin(m, pc, messages), \A i \in DOMAIN messages : Explained(messages[i], events'),
         UNCHANGED <<requests, replies, deadLetters>>
  PROVE  MessagesExplained'
<1> DEFINE r == [pc |-> pc, task |-> m.task, msg |-> m,
                 decision |-> NoDecision, effects |-> messages]
<1>1. Worker \in Actors /\ actor' = [actor EXCEPT ![Worker] = r]
  BY DEF Begin, Actors
<1>2. r.msg = m /\ r.effects = messages
  OBVIOUS
<1> HIDE DEF r
<1>3. Explained(m, events')
  BY StepExplains DEF MessagesExplained, Queued, TypeOK, BrokerType
<1>4. \A b \in Actors : HandlerExplained(actor'[b], events')
  BY <1>1, <1>2, <1>3, HandlerKeeps
<1>5. \A n \in Queued' : Explained(n, events')
  BY QueuesKeep DEF Begin, Queued
<1> QED
  BY <1>4, <1>5 DEF MessagesExplained

(* Every handler of the worker.                                            *)
LEMMA HandleExplained ==
  ASSUME TypeOK, [Next]_vars, MessagesExplained, NEW m \in inbox, Handle(m)
  PROVE  MessagesExplained'
<1>1. ASSUME NEW pc, Begin(m, pc, <<>>), UNCHANGED <<requests, replies, deadLetters>>
      PROVE  MessagesExplained'
  <2>1. \A i \in DOMAIN <<>> : Explained(<<>>[i], events')
    OBVIOUS
  <2> QED
    BY <1>1, <2>1, BeginExplained
<1>2. CASE HandleRepeated(m) \/ HandleSucceeded(m) \/ HandleStale(m)
  BY <1>1, <1>2 DEF HandleRepeated, HandleSucceeded, HandleStale
<1>3. CASE HandleFailed(m)
  BY <1>1, <1>3 DEF HandleFailed
<1>4. CASE HandleTimeout(m) \/ HandleReevaluate(m)
  BY <1>1, <1>4 DEF HandleTimeout, HandleReevaluate
<1>5. CASE HandleDispatch(m)
  <2> DEFINE t == m.task
             row == Numbered([task[t] EXCEPT !.status = "DISPATCHED"])
  <2>1. /\ Begin(m, "effects", RequestMessages(t, row)) /\ Write(t, row, <<RequestEvent(row)>>)
        /\ UNCHANGED <<requests, replies, deadLetters>>
    BY <1>5 DEF HandleDispatch
  <2>2. DatabaseType /\ t \in Tasks
    BY DEF TypeOK, BrokerType, Message
  <2> HIDE DEF row
  <2>3. \A i \in DOMAIN RequestMessages(t, row) : Explained(RequestMessages(t, row)[i], events')
    BY <2>1, <2>2, RequestExplained DEF Write
  <2> QED
    BY <2>1, <2>3, BeginExplained
<1> QED
  BY <1>2, <1>3, <1>4, <1>5 DEF Handle

(* Handlers are left or given up, and messages move between queues.        *)
LEMMA MovesExplained ==
  ASSUME TypeOK, [Next]_vars, MessagesExplained,
         \A a \in Actors : actor'[a] = actor[a] \/ actor'[a] \in {Free, Finished},
         \A m \in Queued' : m \in Queued \/ Explained(m, events')
  PROVE  MessagesExplained'
<1>1. \A a \in Actors : HandlerExplained(actor'[a], events')
  BY HeldStays, NothingHeld DEF HandlerExplained
<1> QED
  BY <1>1, QueuesKeep DEF MessagesExplained

(* A message marked redelivered, an answer, and the request of an answer   *)
(* are about the same request.                                             *)
LEMMA CopiesExplained ==
  ASSUME NEW m \in Message, Explained(m, events')
  PROVE  /\ Explained(Redelivered(m), events')
         /\ m.kind \in AboutRequest =>
              /\ Explained(RequestOf(m), events')
              /\ \A outcome \in Outcomes : Explained(Answer(m, outcome), events')
<1>1. Explained(Redelivered(m), events')
  <2>1. /\ Redelivered(m).kind = m.kind /\ Redelivered(m).task = m.task
        /\ Redelivered(m).ref = m.ref /\ Redelivered(m).reason = m.reason
        /\ Redelivered(m).attempt = m.attempt /\ Redelivered(m).target = m.target
        /\ Redelivered(m).redelivered = IsReply(m)
    BY DEF Redelivered, Message
  <2> QED
    BY <2>1 DEF Explained, IsReply, AboutRequest
<1>2. ASSUME NEW outcome \in Outcomes, m.kind \in AboutRequest
      PROVE  Explained(Answer(m, outcome), events')
  BY <1>2 DEF Answer, Explained, Message, AboutRequest, Reported, Outcomes
<1>3. ASSUME m.kind \in AboutRequest PROVE Explained(RequestOf(m), events')
  BY <1>3 DEF RequestOf, Explained, Message, AboutRequest, Reported
<1> QED
  BY <1>1, <1>2, <1>3

(* Dead letters, crashes, the environment and new orders.                  *)
LEMMA OthersExplained ==
  ASSUME TypeOK, [Next]_vars, MessagesExplained, KindsOfQueues,
         \/ \E t \in Tasks : CreateOrder(t) \/ DeadlinePasses(t)
         \/ \E m \in deadLetters :
              HandleDeadLetter(m) \/ HandleDeadLetterUnacknowledged(m) \/ DeadLetterLost(m)
         \/ \E m \in inbox : HandlerRaises(m)
         \/ WorkerCrash \/ ApiCrash
         \/ \E m \in requests : RequestAnswered(m) \/ RequestDeadLettered(m)
         \/ \E m \in replies : AnswerSentAgain(m) \/ AnsweredRequestDeadLettered(m)
         \/ UNCHANGED vars
  PROVE  MessagesExplained'
<1>1. /\ actor \in [Actors -> ActorState] /\ Worker \in Actors /\ Tasks \subseteq Actors
      /\ Queued \subseteq Message
  BY DEF TypeOK, ActorType, BrokerType, Actors, Queued
<1>2. \A m \in Queued : Explained(m, events')
  BY <1>1, StepExplains DEF MessagesExplained
<1>3. ASSUME NEW t \in Tasks, CreateOrder(t) PROVE MessagesExplained'
  <2> DEFINE r == [Free EXCEPT !.pc = "build", !.task = t]
  <2>1. actor' = [actor EXCEPT ![t] = r] /\ Queued' = Queued
    BY <1>3 DEF CreateOrder, Queued
  <2>2. r.msg \notin Message /\ DOMAIN r.effects = {}
    BY DEF Free, NoMessage, Message, Kinds, Reported
  <2> HIDE DEF r
  <2>3. \A b \in Actors : HandlerExplained(actor'[b], events')
    BY <1>1, <2>1, <2>2, HandlerKeeps
  <2> QED
    BY <1>2, <2>1, <2>3 DEF MessagesExplained
<1>4. ASSUME NEW m \in deadLetters,
             HandleDeadLetter(m) \/ HandleDeadLetterUnacknowledged(m) \/ DeadLetterLost(m)
      PROVE  MessagesExplained'
  <2>1. actor' = actor /\ Queued' \subseteq Queued
    BY <1>4 DEF HandleDeadLetter, HandleDeadLetterUnacknowledged, DeadLetterLost, broker, Queued
  <2> QED
    BY <2>1, MovesExplained
<1>5. ASSUME NEW m \in inbox, HandlerRaises(m) PROVE MessagesExplained'
  <2>1. actor' = actor /\ Queued' \subseteq Queued
    BY <1>5 DEF HandlerRaises, Queued
  <2> QED
    BY <2>1, MovesExplained
<1>6. CASE WorkerCrash
  <2> DEFINE current == IF At(Worker, "idle") THEN {} ELSE {actor[Worker].msg}
  <2>1. PICK prefetched \in SUBSET inbox :
          inbox' = (inbox \ prefetched) \cup {Redelivered(m) : m \in current \cup prefetched}
    BY <1>6 DEF WorkerCrash
  <2>2. actor' = [actor EXCEPT ![Worker] = Free] /\ UNCHANGED <<requests, replies, deadLetters>>
    BY <1>6 DEF WorkerCrash
  <2>3. \A m \in current \cup prefetched : m \in Message /\ Explained(m, events')
    <3>1. ASSUME ~At(Worker, "idle")
          PROVE  actor[Worker].msg \in Message /\ Explained(actor[Worker].msg, events')
      BY <1>1, <3>1, HeldStays DEF TypeOK, ActorType, InRequest
    <3> QED
      BY <1>1, <1>2, <2>1, <3>1 DEF Queued
  <2> HIDE DEF current
  <2>4. \A m \in Queued' : m \in Queued \/ Explained(m, events')
    BY <2>1, <2>2, <2>3, CopiesExplained DEF Queued
  <2>5. \A a \in Actors : actor'[a] = actor[a] \/ actor'[a] \in {Free, Finished}
    BY <1>1, <2>2
  <2> QED
    BY <2>4, <2>5, MovesExplained
<1>7. CASE ApiCrash
  <2>1. /\ \A a \in Actors : actor'[a] = actor[a] \/ actor'[a] \in {Free, Finished}
        /\ Queued' = Queued
    BY <1>1, <1>7 DEF ApiCrash, broker, Queued
  <2> QED
    BY <2>1, MovesExplained
<1>8. ASSUME NEW m \in requests, RequestAnswered(m) PROVE MessagesExplained'
  <2>1. PICK outcome \in Outcomes : /\ replies' = replies \cup {Answer(m, outcome)}
                                  /\ inbox' = inbox \cup {Answer(m, outcome)}
    BY <1>8 DEF RequestAnswered, Outcomes
  <2>2. actor' = actor /\ requests' \subseteq requests /\ deadLetters' = deadLetters
    BY <1>8 DEF RequestAnswered
  <2>3. Explained(Answer(m, outcome), events')
    BY <1>1, <1>2, CopiesExplained DEF Queued, KindsOfQueues
  <2>4. \A n \in Queued' : n \in Queued \/ Explained(n, events')
    BY <2>1, <2>2, <2>3 DEF Queued
  <2> QED
    BY <2>2, <2>4, MovesExplained
<1>9. ASSUME NEW m \in replies, AnsweredRequestDeadLettered(m) PROVE MessagesExplained'
  <2>1. actor' = actor /\ UNCHANGED <<inbox, requests, replies>>
        /\ deadLetters' = deadLetters \cup {RequestOf(m)}
    BY <1>9 DEF AnsweredRequestDeadLettered
  <2>2. Explained(RequestOf(m), events')
    BY <1>1, <1>2, CopiesExplained DEF Queued, KindsOfQueues
  <2>3. \A n \in Queued' : n \in Queued \/ Explained(n, events')
    BY <2>1, <2>2 DEF Queued
  <2> QED
    BY <2>1, <2>3, MovesExplained
<1>10. ASSUME \/ \E t \in Tasks : DeadlinePasses(t)
              \/ \E m \in requests : RequestDeadLettered(m)
              \/ \E m \in replies : AnswerSentAgain(m)
              \/ UNCHANGED vars
       PROVE  MessagesExplained'
  <2>1. actor' = actor /\ Queued' \subseteq Queued
    BY <1>10 DEF DeadlinePasses, RequestDeadLettered, AnswerSentAgain, broker, vars, Queued
  <2> QED
    BY <2>1, MovesExplained
<1> QED
  BY <1>3, <1>4, <1>5, <1>6, <1>7, <1>8, <1>9, <1>10

(* Only effects reach the queues of the inventory-service, and only        *)
(* requests are answered.                                                  *)
LEMMA QueuesMove ==
  ASSUME [Next]_vars
  PROVE  \/ requests' \subseteq requests /\ replies' = replies
         \/ \E a \in Actors : SendNext(a)
         \/ \E m \in requests : RequestAnswered(m)
<1>1. ASSUME NEW a \in Actors, ExecuteDecision(a) \/ TakeDecision(a) \/ Return(a) \/ Raises(a)
      PROVE  requests' = requests /\ replies' = replies
  BY <1>1 DEF ExecuteDecision, ExecuteContinue, ExecuteRetry, ExecuteWait, ExecuteFallback,
              ExecuteAbort, ExecuteRaises, TakeDecision, Return, Raises, broker
<1>2. ASSUME NEW m \in inbox, Handle(m) \/ HandlerRaises(m)
      PROVE  requests' = requests /\ replies' = replies
  BY <1>2 DEF Handle, HandleRepeated, HandleSucceeded, HandleFailed, HandleTimeout,
              HandleReevaluate, HandleDispatch, HandleStale, HandlerRaises
<1>3. ASSUME NEW m \in deadLetters,
             HandleDeadLetter(m) \/ HandleDeadLetterUnacknowledged(m) \/ DeadLetterLost(m)
      PROVE  requests' = requests /\ replies' = replies
  BY <1>3 DEF HandleDeadLetter, HandleDeadLetterUnacknowledged, DeadLetterLost, broker
<1>4. ASSUME \/ \E t \in Tasks : CreateOrder(t) \/ DeadlinePasses(t)
             \/ WorkerCrash \/ ApiCrash
             \/ \E m \in requests : RequestDeadLettered(m)
             \/ \E m \in replies : AnswerSentAgain(m) \/ AnsweredRequestDeadLettered(m)
             \/ UNCHANGED vars
      PROVE  requests' \subseteq requests /\ replies' = replies
  BY <1>4 DEF CreateOrder, DeadlinePasses, WorkerCrash, ApiCrash, RequestDeadLettered,
              AnswerSentAgain, AnsweredRequestDeadLettered, broker, vars
<1>5. ASSUME WorkerRaises \/ \E t \in Tasks : ApiRaises(t)
      PROVE  requests' = requests /\ replies' = replies
  BY <1>1, <1>5 DEF WorkerRaises, ApiRaises, Actors
<1> QED
  BY <1>1, <1>2, <1>3, <1>4, <1>5 DEF Next, WorkerStep, Act, Disturbance, Actors

(* So both hold only requests and their answers.                           *)
LEMMA KindsStep ==
  ASSUME TypeOK, [Next]_vars, KindsOfQueues
  PROVE  KindsOfQueues'
<1>1. CASE requests' \subseteq requests /\ replies' = replies
  BY <1>1 DEF KindsOfQueues
<1>2. ASSUME NEW a \in Actors, SendNext(a) PROVE KindsOfQueues'
  BY <1>2 DEF SendNext, KindsOfQueues, AboutRequest
<1>3. ASSUME NEW m \in requests, RequestAnswered(m) PROVE KindsOfQueues'
  <2>1. PICK outcome : replies' = replies \cup {Answer(m, outcome)}
    BY <1>3 DEF RequestAnswered
  <2>2. Answer(m, outcome).kind \in AboutRequest
    BY DEF Answer, AboutRequest, Reported, TypeOK, BrokerType, Message
  <2> QED
    BY <1>3, <2>1, <2>2 DEF RequestAnswered, KindsOfQueues
<1> QED
  BY <1>1, <1>2, <1>3, QueuesMove

(* Every step.                                                             *)
LEMMA ExplainedStep ==
  ASSUME TypeOK, [Next]_vars, MessagesExplained, KindsOfQueues
  PROVE  MessagesExplained'
<1>1. ASSUME NEW a \in Actors, Raises(a) PROVE MessagesExplained'
  BY <1>1, RejectExplained DEF Raises, InRequest, At
<1>2. CASE WorkerRaises \/ \E t \in Tasks : ApiRaises(t)
  BY <1>1, <1>2 DEF WorkerRaises, ApiRaises, Actors
<1> QED
  BY <1>2, ActExplained, HandleExplained, OthersExplained DEF Next, WorkerStep, Disturbance, Actors

(* Whatever is delivered again, raised, lost or answered late, a message   *)
(* about a request was preceded by the commit of that request.             *)
THEOREM PublishedAlwaysRecorded == Spec => []PublishedWasRecorded
<1>1. Init => MessagesExplained /\ KindsOfQueues
  <2> SUFFICES ASSUME Init PROVE MessagesExplained /\ KindsOfQueues
    OBVIOUS
  <2>1. \A a \in Actors : actor[a] = Free
    BY DEF Init
  <2> QED
    BY <2>1, NothingHeld DEF Init, MessagesExplained, HandlerExplained, Queued, KindsOfQueues
<1>2. MessagesExplained => PublishedWasRecorded
  BY DEF MessagesExplained, PublishedWasRecorded, Explained, Queued, Rows
<1>3. TypeOK /\ MessagesExplained /\ KindsOfQueues /\ [Next]_vars
        => (MessagesExplained /\ KindsOfQueues)'
  BY ExplainedStep, KindsStep
<1> QED
  BY <1>1, <1>2, <1>3, TypeCorrect, PTL DEF Spec

-----------------------------------------------------------------------------
(* Trajectories.                                                           *)

Of(s, type) == {i \in DOMAIN s : s[i].type = type}

Firsts(s) ==
  {i \in DOMAIN s :
     ~\E j \in DOMAIN s :
        j < i /\ s[i].type \in Reported /\ s[j].type = s[i].type /\ s[j].ref = s[i].ref}

Gapless(s, n) ==
  /\ {s[i].seq : i \in Firsts(s)} = 1 .. n
  /\ \A i, j \in Firsts(s) : i < j => s[i].seq < s[j].seq
  /\ \A i \in DOMAIN s \ Firsts(s) :
       /\ s[i].redelivered
       /\ \E j \in Firsts(s) : /\ j < i /\ s[i].type \in Reported
                              /\ s[j].type = s[i].type /\ s[j].ref = s[i].ref
                              /\ s[j].seq = s[i].seq

(* What was recorded of an answer was applied.                             *)
Applied(s, answered) == \A i \in DOMAIN s : s[i].type \in Reported => s[i].ref \in answered

(* Answers and timeouts come after their request.                          *)
Grounded(s) ==
  \A i \in DOMAIN s : s[i].type \in Reported \cup {"INVENTORY_TIMEOUT"} =>
    \E k \in Of(s, "REQUESTED") : k < i /\ s[k].seq = s[i].ref

RequestsOnce(s) ==
  \A i, j \in Of(s, "REQUESTED") :
    /\ s[i].target = s[j].target
    /\ s[i].attempt = s[j].attempt \/ s[i].target = Fallback
    => i = j

RequestsFit(s, row) ==
  /\ \A i \in Of(s, "REQUESTED") :
       /\ ~s[i].redelivered
       /\ s[i].attempt <= row.attempt
       /\ s[i].target = Fallback => row.fallbackUsed
       /\ row.status = "RETRYING" => s[i].attempt < row.attempt
  /\ row.status = "RETRYING" => row.target = Primary

Counted(s, row) ==
  /\ row.attempt = 1 + Cardinality(Of(s, "RETRY_SCHEDULED"))
  /\ row.waits = Cardinality(Of(s, "WAIT_SCHEDULED"))
  /\ row.fallbackUsed <=> Of(s, "FALLBACK_SCHEDULED") # {}
  /\ row.target = IF row.fallbackUsed THEN Fallback
                  ELSE IF Of(s, "REQUESTED") # {} THEN Primary ELSE None

StatusTold(s, row) ==
  \E i \in DOMAIN s :
    /\ s[i].type \in DOMAIN StatusAfter
    /\ \A j \in DOMAIN s : s[j].type \in DOMAIN StatusAfter => j <= i
    /\ \/ row.status \in StatusAfter[s[i].type]
       \/ /\ row.status = "DEAD_LETTERED"
          /\ s[i].type \notin {"TASK_COMPLETED", "TASK_ABORTED"}
          /\ \E j \in Of(s, "MESSAGE_DEAD_LETTERED") : j > i

TimeoutsDue(s) ==
  \A i \in Of(s, "INVENTORY_TIMEOUT") :
    /\ \E k \in Of(s, "REQUESTED") :
         /\ k < i /\ s[k].seq = s[i].ref
         /\ \A j \in Of(s, "REQUESTED") : j < i => j <= k
    /\ \A j \in DOMAIN s : j < i /\ s[j].ref = s[i].ref =>
         s[j].type \notin Reported \cup {"INVENTORY_TIMEOUT"}

WaitsOnce(s) ==
  \A i \in Of(s, "WAIT_FINISHED") :
    /\ s[i].ref = Cardinality({k \in Of(s, "WAIT_SCHEDULED") : k < i})
    /\ \A j \in Of(s, "WAIT_FINISHED") : s[j].ref = s[i].ref => j = i

(* The status aside, what a trajectory says of its row.                    *)
Consistent(s, row, answered) ==
  /\ Gapless(s, row.seq) /\ Applied(s, answered) /\ Grounded(s)
  /\ RequestsOnce(s) /\ RequestsFit(s, row) /\ Counted(s, row)
  /\ TimeoutsDue(s) /\ WaitsOnce(s)

-----------------------------------------------------------------------------
(* One row is appended.                                                    *)

(* Where the rows are.                                                     *)
LEMMA AppendFacts ==
  ASSUME NEW s \in Seq(EventRow), NEW e \in EventRow
  PROVE  /\ Append(s, e) \in Seq(EventRow) /\ Len(s) \in Nat
         /\ DOMAIN s = 1 .. Len(s)
         /\ DOMAIN Append(s, e) = DOMAIN s \cup {Len(s) + 1} /\ Len(s) + 1 \notin DOMAIN s
         /\ Append(s, e)[Len(s) + 1] = e
         /\ \A i \in DOMAIN s : Append(s, e)[i] = s[i] /\ i < Len(s) + 1 /\ i \in Nat
OBVIOUS

(* The rows of one type, and their number.                                 *)
LEMMA AppendOf ==
  ASSUME NEW s \in Seq(EventRow), NEW e \in EventRow, NEW type
  PROVE  /\ Of(Append(s, e), type)
              = IF e.type = type THEN Of(s, type) \cup {Len(s) + 1} ELSE Of(s, type)
         /\ Cardinality(Of(s, type)) \in Nat
         /\ Cardinality(Of(Append(s, e), type))
              = Cardinality(Of(s, type)) + IF e.type = type THEN 1 ELSE 0
<1>1. Of(Append(s, e), type) = IF e.type = type THEN Of(s, type) \cup {Len(s) + 1} ELSE Of(s, type)
  BY AppendFacts DEF Of
<1>2. IsFiniteSet(Of(s, type)) /\ Len(s) + 1 \notin Of(s, type)
  <2>1. IsFiniteSet(1 .. Len(s))
    BY FS_Interval
  <2>2. Of(s, type) \subseteq 1 .. Len(s)
    BY DEF Of
  <2> QED
    BY <2>1, <2>2, FS_Subset
<1>3. /\ Cardinality(Of(s, type)) \in Nat
      /\ Cardinality(Of(s, type) \cup {Len(s) + 1}) = Cardinality(Of(s, type)) + 1
  BY <1>2, FS_CardinalityType, FS_AddElement
<1> QED
  BY <1>1, <1>3

(* A row that repeats none takes the next number.                          *)
LEMMA NumberedAppend ==
  ASSUME NEW s \in Seq(EventRow), NEW e \in EventRow, NEW n \in Nat, Gapless(s, n),
         e.seq = n + 1,
         e.type \in Reported => ~\E i \in DOMAIN s : s[i].type = e.type /\ s[i].ref = e.ref
  PROVE  Gapless(Append(s, e), n + 1)
<1> DEFINE z == Append(s, e)
           last == Len(s) + 1
<1>1. /\ DOMAIN z = DOMAIN s \cup {last} /\ last \notin DOMAIN s /\ last \in Nat /\ z[last] = e
      /\ \A i \in DOMAIN s : z[i] = s[i] /\ i < last /\ i \in Nat
  BY AppendFacts
<1> HIDE DEF z, last
<1>2. Firsts(z) = Firsts(s) \cup {last}
  BY <1>1 DEF Firsts
<1>3. Firsts(s) \subseteq DOMAIN s
  BY DEF Firsts
<1>4. {z[i].seq : i \in Firsts(z)} = {s[i].seq : i \in Firsts(s)} \cup {n + 1}
  BY <1>1, <1>2, <1>3
<1>5. {z[i].seq : i \in Firsts(z)} = 1 .. n + 1
  BY <1>4 DEF Gapless
<1>6. \A i \in Firsts(s) : s[i].seq \in 1 .. n
  BY DEF Gapless
<1>7. \A i, j \in Firsts(z) : i < j => z[i].seq < z[j].seq
  BY <1>1, <1>2, <1>3, <1>6 DEF Gapless
<1>8. \A i \in DOMAIN z \ Firsts(z) :
       /\ z[i].redelivered
       /\ \E j \in Firsts(z) : /\ j < i /\ z[i].type \in Reported
                              /\ z[j].type = z[i].type /\ z[j].ref = z[i].ref
                              /\ z[j].seq = z[i].seq
  BY <1>1, <1>2, <1>3 DEF Gapless
<1> QED
  BY <1>5, <1>7, <1>8 DEF Gapless, z

(* A repetition takes the number of the row it repeats.                    *)
LEMMA RepeatedAppend ==
  ASSUME NEW s \in Seq(EventRow), NEW e \in EventRow, NEW n \in Nat, Gapless(s, n),
         NEW f \in DOMAIN s, ~s[f].redelivered, e.type \in Reported, e.redelivered,
         s[f].type = e.type, s[f].ref = e.ref, s[f].seq = e.seq
  PROVE  Gapless(Append(s, e), n)
<1> DEFINE z == Append(s, e)
           last == Len(s) + 1
<1>1. /\ DOMAIN z = DOMAIN s \cup {last} /\ last \notin DOMAIN s /\ last \in Nat /\ z[last] = e
      /\ \A i \in DOMAIN s : z[i] = s[i] /\ i < last /\ i \in Nat
  BY AppendFacts
<1> HIDE DEF z, last
<1>2. Firsts(z) = Firsts(s)
  BY <1>1 DEF Firsts
<1>3. Firsts(s) \subseteq DOMAIN s /\ f \in Firsts(s)
  BY DEF Firsts, Gapless
<1>4. {z[i].seq : i \in Firsts(z)} = {s[i].seq : i \in Firsts(s)}
  BY <1>1, <1>2, <1>3
<1>5. \A i, j \in Firsts(z) : i < j => z[i].seq < z[j].seq
  BY <1>1, <1>2, <1>3 DEF Gapless
<1>6. \A i \in DOMAIN z \ Firsts(z) :
       /\ z[i].redelivered
       /\ \E j \in Firsts(z) : /\ j < i /\ z[i].type \in Reported
                              /\ z[j].type = z[i].type /\ z[j].ref = z[i].ref
                              /\ z[j].seq = z[i].seq
  BY <1>1, <1>2, <1>3 DEF Gapless
<1> QED
  BY <1>4, <1>5, <1>6 DEF Gapless, z

(* Answers recorded are applied.                                           *)
LEMMA AppliedAppend ==
  ASSUME NEW s \in Seq(EventRow), NEW e \in EventRow, NEW A, NEW B, Applied(s, A), A \subseteq B,
         e.type \in Reported => e.ref \in B
  PROVE  Applied(Append(s, e), B)
<1> DEFINE z == Append(s, e)
           last == Len(s) + 1
<1>1. /\ DOMAIN z = DOMAIN s \cup {last} /\ z[last] = e
      /\ \A i \in DOMAIN s : z[i] = s[i]
  BY AppendFacts
<1> HIDE DEF z, last
<1>2. Applied(z, B)
  BY <1>1 DEF Applied
<1> QED
  BY <1>2 DEF z

(* An answer or a timeout is appended after its request.                   *)
LEMMA GroundedAppend ==
  ASSUME NEW s \in Seq(EventRow), NEW e \in EventRow, Grounded(s),
         e.type \in Reported \cup {"INVENTORY_TIMEOUT"} =>
           \E k \in Of(s, "REQUESTED") : s[k].seq = e.ref
  PROVE  Grounded(Append(s, e))
<1> DEFINE z == Append(s, e)
           last == Len(s) + 1
<1>1. /\ DOMAIN z = DOMAIN s \cup {last} /\ z[last] = e
      /\ \A i \in DOMAIN s : z[i] = s[i] /\ i < last
  BY AppendFacts
<1> HIDE DEF z, last
<1>2. ASSUME NEW i \in DOMAIN z, z[i].type \in Reported \cup {"INVENTORY_TIMEOUT"}
      PROVE  \E k \in Of(z, "REQUESTED") : k < i /\ z[k].seq = z[i].ref
  <2>1. CASE i \in DOMAIN s
    <3>1. PICK k \in Of(s, "REQUESTED") : k < i /\ s[k].seq = s[i].ref
      BY <1>1, <1>2, <2>1 DEF Grounded
    <3> QED
      BY <1>1, <2>1, <3>1 DEF Of
  <2>2. CASE i = last
    <3>1. PICK k \in Of(s, "REQUESTED") : s[k].seq = e.ref
      BY <1>1, <1>2, <2>2
    <3> QED
      BY <1>1, <2>2, <3>1 DEF Of
  <2> QED
    BY <1>1, <2>1, <2>2
<1>3. Grounded(z)
  BY <1>2 DEF Grounded
<1> QED
  BY <1>3 DEF z

(* A request is appended for a new attempt or route.                       *)
LEMMA RequestsOnceAppend ==
  ASSUME NEW s \in Seq(EventRow), NEW e \in EventRow, RequestsOnce(s),
         e.type = "REQUESTED" =>
           \A i \in Of(s, "REQUESTED") :
             s[i].target = e.target => s[i].attempt # e.attempt /\ e.target # Fallback
  PROVE  RequestsOnce(Append(s, e))
<1> DEFINE z == Append(s, e)
           last == Len(s) + 1
<1>1. /\ DOMAIN z = DOMAIN s \cup {last} /\ z[last] = e
      /\ \A i \in DOMAIN s : z[i] = s[i]
  BY AppendFacts
<1> HIDE DEF z, last
<1>2. \A i \in Of(z, "REQUESTED") : i \in Of(s, "REQUESTED") \/ (i = last /\ e.type = "REQUESTED")
  BY <1>1 DEF Of
<1>3. \A i \in Of(s, "REQUESTED") : z[i] = s[i]
  BY <1>1 DEF Of
<1>4. RequestsOnce(z)
  BY <1>1, <1>2, <1>3 DEF RequestsOnce
<1> QED
  BY <1>4 DEF z

(* Requests fit the row before and after.                                  *)
LEMMA RequestsFitAppend ==
  ASSUME NEW s \in Seq(EventRow), NEW e \in EventRow, NEW row \in TaskRow, NEW new \in TaskRow,
         RequestsFit(s, row),
         row.attempt <= new.attempt,
         row.fallbackUsed => new.fallbackUsed,
         new.status = "RETRYING" =>
           new.target = Primary /\ (row.status = "RETRYING" \/ row.attempt < new.attempt),
         e.type = "REQUESTED" =>
           /\ ~e.redelivered /\ e.attempt = new.attempt /\ new.status # "RETRYING"
           /\ e.target = Fallback => new.fallbackUsed
  PROVE  RequestsFit(Append(s, e), new)
<1> DEFINE z == Append(s, e)
           last == Len(s) + 1
<1>1. /\ DOMAIN z = DOMAIN s \cup {last} /\ z[last] = e
      /\ \A i \in DOMAIN s : z[i] = s[i] /\ s[i] \in EventRow
  BY AppendFacts
<1> HIDE DEF z, last
<1>2. row.attempt \in Nat /\ new.attempt \in Nat
  BY DEF TaskRow
<1>3. ASSUME NEW i \in Of(s, "REQUESTED")
      PROVE  /\ ~s[i].redelivered /\ s[i].attempt <= new.attempt
             /\ s[i].target = Fallback => new.fallbackUsed
             /\ new.status = "RETRYING" => s[i].attempt < new.attempt
  <2>1. s[i].attempt \in Nat
    BY <1>1 DEF Of, EventRow
  <2>2. /\ ~s[i].redelivered /\ s[i].attempt <= row.attempt
        /\ s[i].target = Fallback => row.fallbackUsed
        /\ row.status = "RETRYING" => s[i].attempt < row.attempt
    BY DEF RequestsFit
  <2> QED
    BY <1>2, <2>1, <2>2
<1>4. ASSUME NEW i \in Of(z, "REQUESTED")
      PROVE  \/ i \in Of(s, "REQUESTED") /\ z[i] = s[i]
             \/ z[i] = e /\ e.type = "REQUESTED"
  BY <1>1 DEF Of
<1>5. RequestsFit(z, new)
  BY <1>2, <1>3, <1>4 DEF RequestsFit
<1> QED
  BY <1>5 DEF z

(* The row counts what is appended.                                        *)
LEMMA CountedAppend ==
  ASSUME NEW s \in Seq(EventRow), NEW e \in EventRow, NEW row \in TaskRow, NEW new \in TaskRow,
         Counted(s, row),
         new.attempt = row.attempt + IF e.type = "RETRY_SCHEDULED" THEN 1 ELSE 0,
         new.waits = row.waits + IF e.type = "WAIT_SCHEDULED" THEN 1 ELSE 0,
         new.fallbackUsed <=> row.fallbackUsed \/ e.type = "FALLBACK_SCHEDULED",
         new.target = IF new.fallbackUsed THEN Fallback
                      ELSE IF e.type = "REQUESTED" THEN Primary ELSE row.target
  PROVE  Counted(Append(s, e), new)
<1> DEFINE z == Append(s, e)
           last == Len(s) + 1
<1>1. \A type : /\ Of(z, type) = IF e.type = type THEN Of(s, type) \cup {last} ELSE Of(s, type)
                /\ Cardinality(Of(s, type)) \in Nat
                /\ Cardinality(Of(z, type))
                     = Cardinality(Of(s, type)) + IF e.type = type THEN 1 ELSE 0
  BY AppendOf
<1> HIDE DEF z, last
<1>2. /\ row.attempt = 1 + Cardinality(Of(s, "RETRY_SCHEDULED"))
      /\ row.waits = Cardinality(Of(s, "WAIT_SCHEDULED"))
      /\ row.fallbackUsed <=> Of(s, "FALLBACK_SCHEDULED") # {}
      /\ row.target = IF row.fallbackUsed THEN Fallback
                      ELSE IF Of(s, "REQUESTED") # {} THEN Primary ELSE None
  BY DEF Counted
<1>3. new.attempt = 1 + Cardinality(Of(z, "RETRY_SCHEDULED"))
  BY <1>1, <1>2
<1>4. new.waits = Cardinality(Of(z, "WAIT_SCHEDULED"))
  BY <1>1, <1>2
<1>5. new.fallbackUsed <=> Of(z, "FALLBACK_SCHEDULED") # {}
  BY <1>1, <1>2
<1>6. new.target = IF new.fallbackUsed THEN Fallback
                   ELSE IF Of(z, "REQUESTED") # {} THEN Primary ELSE None
  <2>1. Of(z, "REQUESTED") # {} <=> e.type = "REQUESTED" \/ Of(s, "REQUESTED") # {}
    BY <1>1
  <2>2. ~new.fallbackUsed => ~row.fallbackUsed
    OBVIOUS
  <2> QED
    BY <1>2, <2>1, <2>2
<1>7. Counted(z, new)
  BY <1>3, <1>4, <1>5, <1>6 DEF Counted
<1> QED
  BY <1>7 DEF z

(* A timeout is appended when it is due.                                   *)
LEMMA TimeoutsAppend ==
  ASSUME NEW s \in Seq(EventRow), NEW e \in EventRow, TimeoutsDue(s),
         e.type = "INVENTORY_TIMEOUT" =>
           /\ \E k \in Of(s, "REQUESTED") :
                s[k].seq = e.ref /\ \A j \in Of(s, "REQUESTED") : j <= k
           /\ \A j \in DOMAIN s : s[j].ref = e.ref =>
                s[j].type \notin Reported \cup {"INVENTORY_TIMEOUT"}
  PROVE  TimeoutsDue(Append(s, e))
<1> DEFINE z == Append(s, e)
           last == Len(s) + 1
<1>1. /\ DOMAIN z = DOMAIN s \cup {last} /\ z[last] = e /\ last \in Nat
      /\ \A i \in DOMAIN s : z[i] = s[i] /\ i < last /\ i \in Nat
  BY AppendFacts
<1> HIDE DEF z, last
<1>2. \A j \in Of(z, "REQUESTED") : j \in Of(s, "REQUESTED") \/ j = last
  BY <1>1 DEF Of
<1>3. ASSUME NEW i \in Of(z, "INVENTORY_TIMEOUT")
      PROVE  /\ \E k \in Of(z, "REQUESTED") :
                  /\ k < i /\ z[k].seq = z[i].ref
                  /\ \A j \in Of(z, "REQUESTED") : j < i => j <= k
             /\ \A j \in DOMAIN z : j < i /\ z[j].ref = z[i].ref =>
                  z[j].type \notin Reported \cup {"INVENTORY_TIMEOUT"}
  <2>1. CASE i \in DOMAIN s
    <3>1. i \in Of(s, "INVENTORY_TIMEOUT") /\ z[i] = s[i] /\ i < last /\ i \in Nat
      BY <1>1, <2>1 DEF Of
    <3>2. PICK k \in Of(s, "REQUESTED") :
            k < i /\ s[k].seq = s[i].ref /\ \A j \in Of(s, "REQUESTED") : j < i => j <= k
      BY <3>1 DEF TimeoutsDue
    <3>3. k \in Of(z, "REQUESTED") /\ z[k] = s[k]
      BY <1>1, <3>2 DEF Of
    <3>4. \A j \in Of(z, "REQUESTED") : j < i => j <= k
      <4>1. ~(last < i)
        BY <1>1, <3>1
      <4> QED
        BY <1>2, <3>2, <4>1
    <3>5. \A j \in DOMAIN z : j < i /\ z[j].ref = z[i].ref =>
            z[j].type \notin Reported \cup {"INVENTORY_TIMEOUT"}
      BY <1>1, <3>1 DEF TimeoutsDue
    <3> QED
      BY <3>1, <3>2, <3>3, <3>4, <3>5
  <2>2. CASE i = last
    <3>1. e.type = "INVENTORY_TIMEOUT"
      BY <1>1, <2>2 DEF Of
    <3>2. PICK k \in Of(s, "REQUESTED") :
            s[k].seq = e.ref /\ \A j \in Of(s, "REQUESTED") : j <= k
      BY <3>1
    <3>3. k \in Of(z, "REQUESTED") /\ z[k] = s[k] /\ k < last
      BY <1>1, <3>2 DEF Of
    <3>4. \A j \in Of(z, "REQUESTED") : j < i => j <= k
      BY <1>1, <1>2, <2>2, <3>2
    <3>5. \A j \in DOMAIN z : j < i /\ z[j].ref = z[i].ref =>
            z[j].type \notin Reported \cup {"INVENTORY_TIMEOUT"}
      BY <1>1, <2>2, <3>1
    <3> QED
      BY <1>1, <2>2, <3>2, <3>3, <3>4, <3>5
  <2> QED
    BY <1>1, <2>1, <2>2 DEF Of
<1>4. TimeoutsDue(z)
  BY <1>3 DEF TimeoutsDue
<1> QED
  BY <1>4 DEF z

(* The end of a wait is appended once, while the task is in that wait.     *)
LEMMA WaitsAppend ==
  ASSUME NEW s \in Seq(EventRow), NEW e \in EventRow, WaitsOnce(s),
         e.type = "WAIT_FINISHED" =>
           /\ e.ref = Cardinality(Of(s, "WAIT_SCHEDULED"))
           /\ \A j \in Of(s, "WAIT_FINISHED") : s[j].ref # e.ref
  PROVE  WaitsOnce(Append(s, e))
<1> DEFINE z == Append(s, e)
           last == Len(s) + 1
<1>1. /\ DOMAIN z = DOMAIN s \cup {last} /\ z[last] = e /\ last \in Nat
      /\ \A i \in DOMAIN s : z[i] = s[i] /\ i < last /\ i \in Nat
  BY AppendFacts
<1> HIDE DEF z, last
<1>2. \A type : \A i \in Of(z, type) :
        \/ i \in Of(s, type) /\ z[i] = s[i]
        \/ i = last /\ e.type = type
  BY <1>1 DEF Of
<1>3. ASSUME NEW i \in DOMAIN s
      PROVE  {k \in Of(z, "WAIT_SCHEDULED") : k < i} = {k \in Of(s, "WAIT_SCHEDULED") : k < i}
  BY <1>1 DEF Of
<1>4. e.type = "WAIT_FINISHED" =>
        {k \in Of(z, "WAIT_SCHEDULED") : k < last} = Of(s, "WAIT_SCHEDULED")
  BY <1>1 DEF Of
<1>5. ASSUME NEW i \in Of(z, "WAIT_FINISHED")
      PROVE  /\ z[i].ref = Cardinality({k \in Of(z, "WAIT_SCHEDULED") : k < i})
             /\ \A j \in Of(z, "WAIT_FINISHED") : z[j].ref = z[i].ref => j = i
  <2>1. CASE i \in Of(s, "WAIT_FINISHED") /\ z[i] = s[i]
    <3>1. i \in DOMAIN s
      BY <2>1 DEF Of
    <3>2. s[i].ref = Cardinality({k \in Of(s, "WAIT_SCHEDULED") : k < i})
      BY <2>1 DEF WaitsOnce
    <3>3. \A j \in Of(z, "WAIT_FINISHED") : z[j].ref = z[i].ref => j = i
      <4> SUFFICES ASSUME NEW j \in Of(z, "WAIT_FINISHED"), z[j].ref = z[i].ref PROVE j = i
        OBVIOUS
      <4>1. j \in Of(s, "WAIT_FINISHED") /\ z[j] = s[j] => j = i
        BY <2>1 DEF WaitsOnce
      <4>2. ~(j = last /\ e.type = "WAIT_FINISHED")
        BY <1>1, <2>1
      <4> QED
        BY <1>2, <4>1, <4>2
    <3> QED
      BY <1>3, <2>1, <3>1, <3>2, <3>3
  <2>2. CASE i = last /\ e.type = "WAIT_FINISHED"
    <3>1. \A j \in Of(z, "WAIT_FINISHED") : z[j].ref = z[i].ref => j = i
      BY <1>1, <1>2, <2>2
    <3> QED
      BY <1>1, <1>4, <2>2, <3>1
  <2> QED
    BY <1>2, <2>1, <2>2
<1>6. WaitsOnce(z)
  BY <1>5 DEF WaitsOnce
<1> QED
  BY <1>6 DEF z

(* Rows are appended one at a time.                                        *)
LEMMA AppendRows ==
  ASSUME NEW s \in Seq(EventRow), NEW x \in EventRow
  PROVE  /\ s \o <<x>> = Append(s, x) /\ Append(s, x) \in Seq(EventRow)
         /\ \A y \in EventRow : s \o <<x, y>> = Append(Append(s, x), y)
<1>1. <<x>> \in Seq(EventRow) /\ s \o <<x>> = Append(s, x) /\ Append(s, x) \in Seq(EventRow)
  OBVIOUS
<1>2. ASSUME NEW y \in EventRow PROVE s \o <<x, y>> = Append(Append(s, x), y)
  <2>1. <<x, y>> \in Seq(EventRow)
    OBVIOUS
  <2> QED
    BY <1>1, <2>1
<1> QED
  BY <1>1, <1>2

(* What a row that repeats none and the row of the task must fulfil.       *)
Continues(s, e, row, new, A, B) ==
  /\ A \subseteq B
  /\ new.seq = row.seq + 1 /\ e.seq = new.seq
  /\ new.attempt = row.attempt + IF e.type = "RETRY_SCHEDULED" THEN 1 ELSE 0
  /\ new.waits = row.waits + IF e.type = "WAIT_SCHEDULED" THEN 1 ELSE 0
  /\ new.fallbackUsed <=> row.fallbackUsed \/ e.type = "FALLBACK_SCHEDULED"
  /\ new.target = IF new.fallbackUsed THEN Fallback
                  ELSE IF e.type = "REQUESTED" THEN Primary ELSE row.target
  /\ new.status = "RETRYING" =>
       \/ row.status = "RETRYING" /\ e.type \notin {"REQUESTED", "FALLBACK_SCHEDULED"}
       \/ e.type = "RETRY_SCHEDULED" /\ new.target = Primary
  /\ e.type \in Reported => e.ref \in B \ A
  /\ e.type \in Reported \cup {"INVENTORY_TIMEOUT"} =>
       \E k \in Of(s, "REQUESTED") : s[k].seq = e.ref
  /\ e.type = "REQUESTED" =>
       /\ ~e.redelivered /\ e.attempt = new.attempt
       /\ e.target = Fallback => new.fallbackUsed
       /\ \A i \in Of(s, "REQUESTED") :
            s[i].target = e.target => s[i].attempt # e.attempt /\ e.target # Fallback
  /\ e.type = "INVENTORY_TIMEOUT" =>
       /\ \E k \in Of(s, "REQUESTED") :
            s[k].seq = e.ref /\ \A j \in Of(s, "REQUESTED") : j <= k
       /\ \A j \in DOMAIN s : s[j].ref = e.ref =>
            s[j].type \notin Reported \cup {"INVENTORY_TIMEOUT"}
  /\ e.type = "WAIT_FINISHED" =>
       /\ e.ref = Cardinality(Of(s, "WAIT_SCHEDULED"))
       /\ \A j \in Of(s, "WAIT_FINISHED") : s[j].ref # e.ref

(* Such a row keeps the trajectory consistent.                             *)
LEMMA ConsistentAppend ==
  ASSUME NEW s \in Seq(EventRow), NEW e \in EventRow, NEW row \in TaskRow, NEW new \in TaskRow,
         NEW A, NEW B, Consistent(s, row, A), Continues(s, e, row, new, A, B)
  PROVE  Consistent(Append(s, e), new, B)
<1>1. row.seq \in Nat /\ row.attempt \in Nat /\ new.attempt \in Nat
  BY DEF TaskRow
<1>2. row.attempt <= new.attempt /\ (e.type = "RETRY_SCHEDULED" => row.attempt < new.attempt)
  BY <1>1 DEF Continues
<1>3. Gapless(Append(s, e), new.seq)
  <2>1. e.type \in Reported => ~\E i \in DOMAIN s : s[i].type = e.type /\ s[i].ref = e.ref
    BY DEF Consistent, Applied, Continues
  <2> QED
    BY <1>1, <2>1, NumberedAppend DEF Consistent, Continues
<1>4. Applied(Append(s, e), B) /\ Grounded(Append(s, e))
  BY AppliedAppend, GroundedAppend DEF Consistent, Continues
<1>5. RequestsOnce(Append(s, e))
  BY RequestsOnceAppend DEF Consistent, Continues
<1>6. RequestsFit(Append(s, e), new)
  <2>1. new.status = "RETRYING" =>
          new.target = Primary /\ (row.status = "RETRYING" \/ row.attempt < new.attempt)
    <3>1. CASE e.type = "RETRY_SCHEDULED" /\ new.target = Primary
      BY <1>2, <3>1
    <3>2. CASE row.status = "RETRYING" /\ e.type \notin {"REQUESTED", "FALLBACK_SCHEDULED"}
      <4>1. row.target = Primary /\ Primary # Fallback /\ Primary # None
        BY <3>2 DEF Consistent, RequestsFit, Primary, Fallback, None
      <4>2. ~row.fallbackUsed
        BY <4>1 DEF Consistent, Counted
      <4> QED
        BY <3>2, <4>1, <4>2 DEF Continues
    <3> QED
      BY <3>1, <3>2 DEF Continues
  <2>2. e.type = "REQUESTED" =>
          /\ ~e.redelivered /\ e.attempt = new.attempt /\ new.status # "RETRYING"
          /\ e.target = Fallback => new.fallbackUsed
    BY DEF Continues
  <2>3. row.fallbackUsed => new.fallbackUsed
    BY DEF Continues
  <2> QED
    BY <1>2, <2>1, <2>2, <2>3, RequestsFitAppend DEF Consistent
<1>7. Counted(Append(s, e), new)
  BY CountedAppend DEF Consistent, Continues
<1>8. TimeoutsDue(Append(s, e)) /\ WaitsOnce(Append(s, e))
  BY TimeoutsAppend, WaitsAppend DEF Consistent, Continues
<1> QED
  BY <1>3, <1>4, <1>5, <1>6, <1>7, <1>8 DEF Consistent

(* So does the row of a repetition.                                        *)
LEMMA ConsistentRepeat ==
  ASSUME NEW s \in Seq(EventRow), NEW e \in EventRow, NEW row \in TaskRow,
         NEW A, Consistent(s, row, A),
         NEW f \in DOMAIN s, ~s[f].redelivered, e.type \in Reported, e.redelivered,
         s[f].type = e.type, s[f].ref = e.ref, s[f].seq = e.seq
  PROVE  Consistent(Append(s, e), row, A)
<1>1. row.seq \in Nat /\ row.attempt \in Nat /\ row.waits \in Nat
  BY DEF TaskRow
<1>2. e.type \notin {"REQUESTED", "INVENTORY_TIMEOUT", "WAIT_FINISHED", "RETRY_SCHEDULED",
                     "WAIT_SCHEDULED", "FALLBACK_SCHEDULED"}
  BY DEF Reported
<1>3. Gapless(Append(s, e), row.seq)
  BY <1>1, RepeatedAppend DEF Consistent
<1>4. Applied(Append(s, e), A)
  <2>1. e.ref \in A
    BY DEF Consistent, Applied
  <2> QED
    BY <2>1, AppliedAppend DEF Consistent
<1>5. Grounded(Append(s, e))
  <2>1. \E k \in Of(s, "REQUESTED") : s[k].seq = e.ref
    BY DEF Consistent, Grounded
  <2> QED
    BY <2>1, GroundedAppend DEF Consistent
<1>6. RequestsOnce(Append(s, e))
  BY <1>2, RequestsOnceAppend DEF Consistent
<1>7. RequestsFit(Append(s, e), row)
  <2>1. row.status = "RETRYING" => row.target = Primary
    BY DEF Consistent, RequestsFit
  <2>2. row.attempt <= row.attempt
    BY <1>1
  <2> QED
    BY <1>2, <2>1, <2>2, RequestsFitAppend DEF Consistent
<1>8. Counted(Append(s, e), row)
  <2>1. row.target = IF row.fallbackUsed THEN Fallback
                     ELSE IF e.type = "REQUESTED" THEN Primary ELSE row.target
    BY <1>2 DEF Consistent, Counted
  <2>2. row.attempt = row.attempt + IF e.type = "RETRY_SCHEDULED" THEN 1 ELSE 0
    BY <1>1, <1>2
  <2>3. row.waits = row.waits + IF e.type = "WAIT_SCHEDULED" THEN 1 ELSE 0
    BY <1>1, <1>2
  <2> QED
    BY <1>2, <2>1, <2>2, <2>3, CountedAppend DEF Consistent
<1>9. TimeoutsDue(Append(s, e)) /\ WaitsOnce(Append(s, e))
  BY <1>2, TimeoutsAppend, WaitsAppend DEF Consistent
<1> QED
  BY <1>3, <1>4, <1>5, <1>6, <1>7, <1>8, <1>9 DEF Consistent

(* The rows that tell the status.                                          *)
LEMMA ToldAppend ==
  ASSUME NEW s \in Seq(EventRow), NEW e \in EventRow, NEW row, NEW new,
         \/ e.type \in DOMAIN StatusAfter /\ new.status \in StatusAfter[e.type]
         \/ /\ StatusTold(s, row) /\ e.type \notin DOMAIN StatusAfter
            /\ new.status = row.status
         \/ /\ StatusTold(s, row) /\ e.type = "MESSAGE_DEAD_LETTERED"
            /\ row.status \notin TerminalStatuses /\ new.status = "DEAD_LETTERED"
  PROVE  StatusTold(Append(s, e), new)
<1> DEFINE z == Append(s, e)
           last == Len(s) + 1
<1>1. /\ DOMAIN z = DOMAIN s \cup {last} /\ z[last] = e /\ last \in Nat
      /\ \A i \in DOMAIN s : z[i] = s[i] /\ i < last /\ i \in Nat
  BY AppendFacts
<1> HIDE DEF z, last
<1>2. CASE e.type \in DOMAIN StatusAfter /\ new.status \in StatusAfter[e.type]
  <2>1. \A j \in DOMAIN z : j <= last
    BY <1>1
  <2>2. StatusTold(z, new)
    BY <1>1, <1>2, <2>1 DEF StatusTold
  <2> QED
    BY <2>2 DEF z
<1>3. CASE /\ StatusTold(s, row) /\ e.type \notin DOMAIN StatusAfter
           /\ new.status = row.status
  <2>1. PICK i \in DOMAIN s :
          /\ s[i].type \in DOMAIN StatusAfter
          /\ \A j \in DOMAIN s : s[j].type \in DOMAIN StatusAfter => j <= i
          /\ \/ row.status \in StatusAfter[s[i].type]
             \/ /\ row.status = "DEAD_LETTERED"
                /\ s[i].type \notin {"TASK_COMPLETED", "TASK_ABORTED"}
                /\ \E j \in Of(s, "MESSAGE_DEAD_LETTERED") : j > i
    BY <1>3 DEF StatusTold
  <2>2. \A j \in DOMAIN z : z[j].type \in DOMAIN StatusAfter => j <= i
    BY <1>1, <1>3, <2>1
  <2>3. \A j \in Of(s, "MESSAGE_DEAD_LETTERED") : j \in Of(z, "MESSAGE_DEAD_LETTERED")
    BY <1>1 DEF Of
  <2>4. i \in DOMAIN z /\ z[i] = s[i]
    BY <1>1
  <2>5. StatusTold(z, new)
    BY <1>3, <2>1, <2>2, <2>3, <2>4 DEF StatusTold
  <2> QED
    BY <2>5 DEF z
<1>4. CASE /\ StatusTold(s, row) /\ e.type = "MESSAGE_DEAD_LETTERED"
           /\ row.status \notin TerminalStatuses /\ new.status = "DEAD_LETTERED"
  <2>1. PICK i \in DOMAIN s :
          /\ s[i].type \in DOMAIN StatusAfter
          /\ \A j \in DOMAIN s : s[j].type \in DOMAIN StatusAfter => j <= i
          /\ row.status \in StatusAfter[s[i].type]
    BY <1>4 DEF StatusTold, TerminalStatuses
  <2>2. e.type \notin DOMAIN StatusAfter
    BY <1>4 DEF StatusAfter
  <2>3. \A j \in DOMAIN z : z[j].type \in DOMAIN StatusAfter => j <= i
    BY <1>1, <2>1, <2>2
  <2>4. s[i].type \notin {"TASK_COMPLETED", "TASK_ABORTED"}
    BY <1>4, <2>1 DEF StatusAfter, TerminalStatuses
  <2>5. i \in DOMAIN z /\ z[i] = s[i] /\ last \in Of(z, "MESSAGE_DEAD_LETTERED") /\ last > i
    BY <1>1, <1>4, <2>1 DEF Of
  <2>6. StatusTold(z, new)
    BY <1>4, <2>1, <2>3, <2>4, <2>5 DEF StatusTold
  <2> QED
    BY <2>6 DEF z
<1> QED
  BY <1>2, <1>3, <1>4

-----------------------------------------------------------------------------
(* The trajectories.                                                       *)

Story(rows, row, answered) ==
  /\ Consistent(rows, row, answered)
  /\ row.status = "ABSENT" => rows = <<>> /\ row = AbsentRow
  /\ row.status # "ABSENT" => StatusTold(rows, row)

Answers(t, done) == {ref \in Nat : <<t, ref>> \in done}

Trajectories == \A t \in Tasks : Story(events[t], task[t], Answers(t, processed))

(* What is known of the task of a transaction.                             *)
LEMMA StoryOf ==
  ASSUME TypeOK, Trajectories, NEW t \in Tasks
  PROVE  /\ events[t] \in Seq(EventRow) /\ task[t] \in TaskRow
         /\ Story(events[t], task[t], Answers(t, processed))
BY DEF TypeOK, DatabaseType, Trajectories

(* A transaction changes the story of one task.                            *)
LEMMA OneStory ==
  ASSUME TypeOK, Trajectories, NEW t \in Tasks, NEW row, NEW rows,
         task' = [task EXCEPT ![t] = row], events' = [events EXCEPT ![t] = rows],
         processed' = processed \/ \E ref : processed' = processed \cup {<<t, ref>>},
         Story(rows, row, Answers(t, processed'))
  PROVE  Trajectories'
<1>1. task'[t] = row /\ events'[t] = rows
  BY DEF TypeOK, DatabaseType
<1>2. ASSUME NEW u \in Tasks \ {t}
      PROVE  /\ task'[u] = task[u] /\ events'[u] = events[u]
             /\ Answers(u, processed') = Answers(u, processed)
  BY DEF TypeOK, DatabaseType, Answers
<1>3. ASSUME NEW u \in Tasks PROVE Story(events'[u], task'[u], Answers(u, processed'))
  <2>1. CASE u = t
    BY <1>1, <2>1
  <2>2. CASE u # t
    BY <1>2, <2>2 DEF Trajectories
  <2> QED
    BY <2>1, <2>2
<1> QED
  BY <1>3 DEF Trajectories

(* The row tells the status of the task.                                   *)
Tells(e, row, new) ==
  \/ e.type \in DOMAIN StatusAfter /\ new.status \in StatusAfter[e.type]
  \/ e.type \notin DOMAIN StatusAfter /\ new.status = row.status
  \/ /\ e.type = "MESSAGE_DEAD_LETTERED" /\ row.status \notin TerminalStatuses
     /\ new.status = "DEAD_LETTERED"

(* The types of rows are told apart.                                       *)
LEMMA TypesOfRows ==
  /\ DOMAIN StatusAfter = {"TASK_CREATED", "REQUESTED", "RETRY_SCHEDULED", "WAIT_SCHEDULED",
                           "TASK_COMPLETED", "TASK_ABORTED"}
  /\ StatusAfter["TASK_CREATED"] = {"PENDING"}
  /\ StatusAfter["REQUESTED"] = {"DISPATCHED", "FALLBACK_PROCESSING"}
  /\ StatusAfter["RETRY_SCHEDULED"] = {"RETRYING"}
  /\ StatusAfter["WAIT_SCHEDULED"] = {"WAITING"}
  /\ StatusAfter["TASK_COMPLETED"] = {"COMPLETED"}
  /\ StatusAfter["TASK_ABORTED"] = {"ABORTED"}
BY DEF StatusAfter

(* A transaction that writes one row.                                      *)
LEMMA StoryAppend ==
  ASSUME TypeOK, Trajectories, NEW t \in Tasks, NEW e \in EventRow, NEW new \in TaskRow,
         Write(t, new, <<e>>),
         processed' = processed \/ \E ref : processed' = processed \cup {<<t, ref>>},
         Continues(events[t], e, task[t], new, Answers(t, processed), Answers(t, processed')),
         Tells(e, task[t], new), new.status # "ABSENT",
         Created(t) \/ e.type \in DOMAIN StatusAfter
  PROVE  Trajectories'
<1> DEFINE s == events[t]
<1>1. s \in Seq(EventRow) /\ task[t] \in TaskRow /\ Story(s, task[t], Answers(t, processed))
  BY StoryOf
<1>2. /\ task' = [task EXCEPT ![t] = new]
      /\ events' = [events EXCEPT ![t] = Append(s, e)]
  <2>1. s \o <<e>> = Append(s, e)
    BY <1>1, AppendRows
  <2> QED
    BY <2>1 DEF Write
<1>3. Consistent(Append(s, e), new, Answers(t, processed'))
  BY <1>1, ConsistentAppend DEF Story
<1>4. StatusTold(Append(s, e), new)
  <2>1. Created(t) => StatusTold(s, task[t])
    BY <1>1 DEF Story, Created
  <2> QED
    BY <1>1, <2>1, TypesOfRows, ToldAppend DEF Tells
<1>5. Story(Append(s, e), new, Answers(t, processed'))
  BY <1>3, <1>4 DEF Story
<1> QED
  BY <1>2, <1>5, OneStory

(* A row just numbered, and the row it leaves in the trajectory.           *)
LEMMA NumberedFields ==
  ASSUME NEW row \in TaskRow
  PROVE  /\ Numbered(row) \in TaskRow
         /\ Numbered(row).seq = row.seq + 1 /\ Numbered(row).status = row.status
         /\ Numbered(row).target = row.target /\ Numbered(row).attempt = row.attempt
         /\ Numbered(row).waits = row.waits /\ Numbered(row).fallbackUsed = row.fallbackUsed
BY DEF Numbered, TaskRow

(* The fields of a row of the own trajectory.                              *)
LEMMA OwnEventFields ==
  ASSUME NEW row \in TaskRow, NEW type \in EventTypes, NEW ref \in Nat
  PROVE  /\ OwnEvent(type, ref, row) \in EventRow
         /\ OwnEvent(type, ref, row).type = type /\ OwnEvent(type, ref, row).seq = row.seq
         /\ OwnEvent(type, ref, row).attempt = row.attempt
         /\ OwnEvent(type, ref, row).target = row.target
         /\ OwnEvent(type, ref, row).ref = ref /\ ~OwnEvent(type, ref, row).redelivered
BY OwnEventType DEF OwnEvent

-----------------------------------------------------------------------------
(* The transactions.                                                       *)

(* create_order_with_task.                                                 *)
LEMMA CreateStory ==
  ASSUME TypeOK, Trajectories, NEW t \in Tasks, CreateOrder(t)
  PROVE  Trajectories'
<1> DEFINE s == events[t]
           row == task[t]
           A == Answers(t, processed)
           new == [AbsentRow EXCEPT !.status = "PENDING", !.seq = 1]
           e == OwnEvent("TASK_CREATED", 0, new)
<1>1. s \in Seq(EventRow) /\ row \in TaskRow /\ row = AbsentRow /\ Consistent(s, row, A)
  BY StoryOf DEF CreateOrder, Created, Story
<1>2. /\ new \in TaskRow /\ new.status = "PENDING" /\ new.seq = row.seq + 1
      /\ new.attempt = row.attempt /\ new.waits = row.waits
      /\ new.fallbackUsed = row.fallbackUsed /\ new.target = row.target
      /\ row.attempt = row.attempt + 0 /\ row.waits = row.waits + 0
      /\ ~row.fallbackUsed
  <2>1. new \in TaskRow
    BY StatusTypes DEF AbsentRow, TaskRow, Targets
  <2> QED
    BY <1>1, <2>1 DEF AbsentRow
<1>3. Write(t, new, <<e>>) /\ processed' = processed
  BY DEF CreateOrder
<1> HIDE DEF new
<1>4. e \in EventRow /\ e.type = "TASK_CREATED" /\ e.seq = new.seq
  BY <1>2, OwnEventFields DEF EventTypes
<1> HIDE DEF e
<1>5. Continues(s, e, row, new, A, A)
  BY <1>2, <1>4 DEF Continues, Reported
<1>6. Tells(e, row, new)
  BY <1>2, <1>4, TypesOfRows DEF Tells
<1> QED
  BY <1>2, <1>3, <1>4, <1>5, <1>6, TypesOfRows, StoryAppend

(* start_first_dispatch.                                                   *)
LEMMA ContinueStory ==
  ASSUME TypeOK, Coordinated, Trajectories, NEW a \in Actors, ExecuteContinue(a)
  PROVE  Trajectories'
<1> DEFINE t == actor[a].task
           s == events[t]
           row == task[t]
           A == Answers(t, processed)
           changed == [row EXCEPT !.status = "DISPATCHED", !.target = Primary]
           new == Numbered(changed)
           e == OwnEvent("REQUESTED", new.seq, new)
<1>1. t \in Tasks /\ row.target = None
  BY ExecutorStart DEF ExecuteContinue, Executing
<1>2. s \in Seq(EventRow) /\ row \in TaskRow /\ Consistent(s, row, A)
  BY <1>1, StoryOf DEF Story
<1>3. ~row.fallbackUsed /\ Of(s, "REQUESTED") = {}
  BY <1>1, <1>2 DEF Consistent, Counted, None, Primary, Fallback
<1>4. Write(t, new, <<e>>) /\ processed' = processed
  BY DEF ExecuteContinue, RequestEvent
<1>5. /\ changed \in TaskRow /\ changed.status = "DISPATCHED" /\ changed.target = Primary
      /\ changed.seq = row.seq /\ changed.attempt = row.attempt /\ changed.waits = row.waits
      /\ changed.fallbackUsed = row.fallbackUsed
      /\ row.attempt = row.attempt + 0 /\ row.waits = row.waits + 0
  <2>1. changed \in TaskRow
    BY <1>2, ChangedRowType
  <2> QED
    BY <1>2, <2>1 DEF TaskRow
<1> HIDE DEF changed
<1>6. /\ new \in TaskRow /\ new.seq \in Nat /\ new.status = "DISPATCHED" /\ new.seq = row.seq + 1
      /\ new.attempt = row.attempt /\ new.waits = row.waits
      /\ new.fallbackUsed = row.fallbackUsed /\ new.target = Primary
  BY <1>5, NumberedFields DEF TaskRow
<1> HIDE DEF new
<1>7. e \in EventRow /\ e.type = "REQUESTED" /\ e.seq = new.seq /\ e.attempt = new.attempt
      /\ e.target = Primary /\ ~e.redelivered
  BY <1>6, OwnEventFields DEF EventTypes
<1> HIDE DEF e
<1>8. Continues(s, e, row, new, A, A)
  BY <1>3, <1>5, <1>6, <1>7 DEF Continues, Reported, Primary, Fallback
<1>9. Tells(e, row, new)
  BY <1>6, <1>7, TypesOfRows DEF Tells
<1> QED
  BY <1>1, <1>4, <1>6, <1>7, <1>8, <1>9, TypesOfRows, StoryAppend

(* start_retry.                                                            *)
LEMMA RetryStory ==
  ASSUME TypeOK, Coordinated, Trajectories, NEW a \in Actors, ExecuteRetry(a)
  PROVE  Trajectories'
<1> DEFINE t == actor[a].task
           s == events[t]
           row == task[t]
           A == Answers(t, processed)
           changed == [row EXCEPT !.status = "RETRYING", !.attempt = @ + 1]
           new == Numbered(changed)
           e == OwnEvent("RETRY_SCHEDULED", 0, new)
<1>1. t \in Tasks /\ row.target = Primary
  BY ExecutorStart, DecisionHolds DEF ExecuteRetry, Executing, StillHolds
<1>2. s \in Seq(EventRow) /\ row \in TaskRow /\ Consistent(s, row, A)
  BY <1>1, StoryOf DEF Story
<1>3. ~row.fallbackUsed
  BY <1>1, <1>2 DEF Consistent, Counted, Primary, Fallback
<1>4. Write(t, new, <<e>>) /\ processed' = processed
  BY DEF ExecuteRetry
<1>5. /\ changed \in TaskRow /\ changed.status = "RETRYING" /\ changed.target = Primary
      /\ changed.seq = row.seq /\ changed.attempt = row.attempt + 1 /\ changed.waits = row.waits
      /\ changed.fallbackUsed = row.fallbackUsed /\ row.waits = row.waits + 0
  <2>1. changed \in TaskRow
    BY <1>2, ChangedRowType
  <2> QED
    BY <1>1, <1>2, <2>1 DEF TaskRow
<1> HIDE DEF changed
<1>6. /\ new \in TaskRow /\ new.status = "RETRYING" /\ new.seq = row.seq + 1
      /\ new.attempt = row.attempt + 1 /\ new.waits = row.waits
      /\ new.fallbackUsed = row.fallbackUsed /\ new.target = Primary
  BY <1>5, NumberedFields
<1> HIDE DEF new
<1>7. e \in EventRow /\ e.type = "RETRY_SCHEDULED" /\ e.seq = new.seq
  <2>1. "RETRY_SCHEDULED" \in EventTypes
    BY DEF EventTypes
  <2> QED
    BY <1>6, <2>1, OwnEventFields
<1> HIDE DEF e
<1>8. Continues(s, e, row, new, A, A)
  BY <1>1, <1>3, <1>5, <1>6, <1>7 DEF Continues, Reported
<1>9. Tells(e, row, new)
  BY <1>6, <1>7, TypesOfRows DEF Tells
<1> QED
  BY <1>1, <1>4, <1>6, <1>7, <1>8, <1>9, TypesOfRows, StoryAppend

(* enter_wait.                                                             *)
LEMMA WaitStory ==
  ASSUME TypeOK, Coordinated, Trajectories, NEW a \in Actors, ExecuteWait(a)
  PROVE  Trajectories'
<1> DEFINE t == actor[a].task
           s == events[t]
           row == task[t]
           A == Answers(t, processed)
           changed == [row EXCEPT !.status = "WAITING", !.waits = @ + 1]
           new == Numbered(changed)
           e == OwnEvent("WAIT_SCHEDULED", new.waits, new)
<1>1. t \in Tasks
  BY ExecutorStart DEF ExecuteWait, Executing
<1>2. s \in Seq(EventRow) /\ row \in TaskRow /\ Consistent(s, row, A)
  BY <1>1, StoryOf DEF Story
<1>3. row.fallbackUsed => row.target = Fallback
  BY <1>2 DEF Consistent, Counted
<1>4. Write(t, new, <<e>>) /\ processed' = processed
  BY DEF ExecuteWait
<1>5. /\ changed \in TaskRow /\ changed.status = "WAITING" /\ changed.target = row.target
      /\ changed.seq = row.seq /\ changed.attempt = row.attempt
      /\ changed.waits = row.waits + 1
      /\ changed.fallbackUsed = row.fallbackUsed /\ row.attempt = row.attempt + 0
  <2>1. changed \in TaskRow
    BY <1>2, ChangedRowType
  <2> QED
    BY <1>1, <1>2, <2>1 DEF TaskRow
<1> HIDE DEF changed
<1>6. /\ new \in TaskRow /\ new.waits \in Nat /\ new.status = "WAITING" /\ new.seq = row.seq + 1
      /\ new.attempt = row.attempt /\ new.waits = row.waits + 1
      /\ new.fallbackUsed = row.fallbackUsed /\ new.target = row.target
  BY <1>5, NumberedFields DEF TaskRow
<1> HIDE DEF new
<1>7. e \in EventRow /\ e.type = "WAIT_SCHEDULED" /\ e.seq = new.seq
  BY <1>6, OwnEventFields DEF EventTypes
<1> HIDE DEF e
<1>8. Continues(s, e, row, new, A, A)
  BY <1>3, <1>5, <1>6, <1>7 DEF Continues, Reported
<1>9. Tells(e, row, new)
  BY <1>6, <1>7, TypesOfRows DEF Tells
<1> QED
  BY <1>1, <1>4, <1>6, <1>7, <1>8, <1>9, TypesOfRows, StoryAppend

(* A row of the trajectory that moves none of the counters.                *)
LEMMA PlainContinues ==
  ASSUME NEW s, NEW e \in EventRow, NEW row \in TaskRow, NEW new \in TaskRow, NEW A,
         Counted(s, row), new.seq = row.seq + 1, e.seq = new.seq,
         new.attempt = row.attempt, new.waits = row.waits,
         new.fallbackUsed = row.fallbackUsed, new.target = row.target,
         new.status = "RETRYING" => row.status = "RETRYING",
         e.type \in {"TASK_COMPLETED", "TASK_ABORTED", "MESSAGE_DEAD_LETTERED"}
  PROVE  Continues(s, e, row, new, A, A)
<1>1. row.attempt = row.attempt + 0 /\ row.waits = row.waits + 0
  BY DEF TaskRow
<1>2. row.fallbackUsed => row.target = Fallback
  BY DEF Counted
<1> QED
  BY <1>1, <1>2 DEF Continues, Reported

(* A transaction that writes two rows, the second of which tells the       *)
(* status.                                                                 *)
LEMMA StoryAppendTwo ==
  ASSUME TypeOK, Trajectories, NEW t \in Tasks, NEW x \in EventRow, NEW y \in EventRow,
         NEW mid \in TaskRow, NEW new \in TaskRow,
         Write(t, new, <<x, y>>),
         processed' = processed \/ \E ref : processed' = processed \cup {<<t, ref>>},
         Continues(events[t], x, task[t], mid, Answers(t, processed), Answers(t, processed')),
         Continues(Append(events[t], x), y, mid, new, Answers(t, processed'),
                   Answers(t, processed')),
         y.type \in DOMAIN StatusAfter, new.status \in StatusAfter[y.type],
         new.status # "ABSENT"
  PROVE  Trajectories'
<1> DEFINE s == events[t]
           z == Append(s, x)
<1>1. s \in Seq(EventRow) /\ task[t] \in TaskRow /\ Consistent(s, task[t], Answers(t, processed))
  BY StoryOf DEF Story
<1>2. z \in Seq(EventRow) /\ s \o <<x, y>> = Append(z, y)
  BY <1>1, AppendRows
<1>3. /\ task' = [task EXCEPT ![t] = new]
      /\ events' = [events EXCEPT ![t] = Append(z, y)]
  BY <1>2 DEF Write
<1>4. Consistent(z, mid, Answers(t, processed'))
  BY <1>1, ConsistentAppend
<1> HIDE DEF z
<1>5. Consistent(Append(z, y), new, Answers(t, processed'))
  BY <1>2, <1>4, ConsistentAppend DEF z
<1>6. StatusTold(Append(z, y), new)
  BY <1>2, ToldAppend
<1>7. Story(Append(z, y), new, Answers(t, processed'))
  BY <1>5, <1>6 DEF Story
<1> QED
  BY <1>3, <1>7, OneStory

(* start_fallback.                                                         *)
LEMMA FallbackStory ==
  ASSUME TypeOK, Coordinated, Trajectories, NEW a \in Actors, ExecuteFallback(a)
  PROVE  Trajectories'
<1> DEFINE t == actor[a].task
           s == events[t]
           row == task[t]
           A == Answers(t, processed)
           changed == [row EXCEPT !.status = "FALLBACK_PROCESSING",
                                  !.target = actor[a].decision.target, !.fallbackUsed = TRUE]
           mid == Numbered(changed)
           new == Numbered(mid)
           x == OwnEvent("FALLBACK_SCHEDULED", 0, mid)
           y == OwnEvent("REQUESTED", new.seq, new)
<1>1. t \in Tasks /\ actor[a].decision.target = Fallback /\ Fallback \in Targets
  BY ExecutorStart, DecisionHolds DEF ExecuteFallback, Executing, StillHolds
<1>2. s \in Seq(EventRow) /\ row \in TaskRow /\ Consistent(s, row, A) /\ ~row.fallbackUsed
  BY <1>1, StoryOf DEF Story, ExecuteFallback
<1>3. Write(t, new, <<x, y>>) /\ processed' = processed
  BY DEF ExecuteFallback, RequestEvent
<1>4. /\ changed \in TaskRow /\ changed.status = "FALLBACK_PROCESSING"
      /\ changed.target = Fallback /\ changed.seq = row.seq /\ changed.attempt = row.attempt
      /\ changed.waits = row.waits /\ changed.fallbackUsed
  <2>1. changed \in TaskRow
    BY <1>1, <1>2, ChangedRowType
  <2> QED
    BY <1>1, <1>2, <2>1 DEF TaskRow
<1> HIDE DEF changed
<1>5. /\ mid \in TaskRow /\ mid.seq \in Nat /\ mid.attempt \in Nat /\ mid.waits \in Nat
      /\ mid.status = "FALLBACK_PROCESSING"
      /\ mid.seq = row.seq + 1 /\ mid.attempt = row.attempt /\ mid.waits = row.waits
      /\ mid.fallbackUsed /\ mid.target = Fallback
  BY <1>4, NumberedFields DEF TaskRow
<1> HIDE DEF mid
<1>6. /\ new \in TaskRow /\ new.seq \in Nat /\ new.status = "FALLBACK_PROCESSING"
      /\ new.seq = mid.seq + 1
      /\ new.attempt = mid.attempt /\ new.waits = mid.waits
      /\ new.fallbackUsed /\ new.target = Fallback
  BY <1>5, NumberedFields DEF TaskRow
<1> HIDE DEF new
<1>7. x \in EventRow /\ x.type = "FALLBACK_SCHEDULED" /\ x.seq = mid.seq
  <2>1. "FALLBACK_SCHEDULED" \in EventTypes
    BY DEF EventTypes
  <2> QED
    BY <1>5, <2>1, OwnEventFields
<1> HIDE DEF x
<1>8. y \in EventRow /\ y.type = "REQUESTED" /\ y.seq = new.seq /\ y.attempt = new.attempt
      /\ y.target = Fallback /\ ~y.redelivered
  BY <1>6, OwnEventFields DEF EventTypes
<1> HIDE DEF y
<1>9. Continues(s, x, row, mid, A, A)
  <2>1. mid.attempt = row.attempt + 0 /\ mid.waits = row.waits + 0
    BY <1>5
  <2> QED
    BY <1>5, <1>7, <2>1 DEF Continues, Reported
<1>10. Continues(Append(s, x), y, mid, new, A, A)
  <2>1. new.attempt = mid.attempt + 0 /\ new.waits = mid.waits + 0
    BY <1>5, <1>6
  <2>2. \A i \in Of(Append(s, x), "REQUESTED") : Append(s, x)[i].target # Fallback
    <3> SUFFICES ASSUME NEW i \in Of(Append(s, x), "REQUESTED")
                 PROVE  Append(s, x)[i].target # Fallback
      OBVIOUS
    <3>1. i \in Of(s, "REQUESTED")
      BY <1>2, <1>7, AppendOf
    <3>2. Append(s, x)[i] = s[i]
      BY <1>2, <3>1, AppendFacts DEF Of
    <3> QED
      BY <1>2, <3>1, <3>2 DEF Consistent, RequestsFit
  <2> QED
    BY <1>6, <1>8, <1>5, <2>1, <2>2 DEF Continues, Reported
<1>11. y.type \in DOMAIN StatusAfter /\ new.status \in StatusAfter[y.type]
  BY <1>6, <1>8, TypesOfRows
<1> QED
  BY <1>1, <1>3, <1>5, <1>6, <1>7, <1>8, <1>9, <1>10, <1>11, StoryAppendTwo

(* abort_task: a task that ended is left as it is.                         *)
LEMMA AbortStory ==
  ASSUME TypeOK, Coordinated, Trajectories, NEW a \in Actors, ExecuteAbort(a)
  PROVE  Trajectories'
<1> DEFINE t == actor[a].task
           s == events[t]
           row == task[t]
           A == Answers(t, processed)
           changed == [row EXCEPT !.status = "ABORTED"]
           new == Numbered(changed)
           e == OwnEvent("TASK_ABORTED", 0, new)
<1>1. t \in Tasks /\ processed' = processed
  BY ExecutorStart DEF ExecuteAbort, Executing
<1>2. CASE Terminal(t)
  BY <1>1, <1>2 DEF ExecuteAbort, Trajectories
<1>3. CASE ~Terminal(t)
  <2>1. s \in Seq(EventRow) /\ row \in TaskRow /\ Consistent(s, row, A)
    BY <1>1, StoryOf DEF Story
  <2>2. Write(t, new, <<e>>)
    BY <1>3 DEF ExecuteAbort
  <2>3. /\ changed \in TaskRow /\ changed.status = "ABORTED" /\ changed.target = row.target
        /\ changed.seq = row.seq /\ changed.attempt = row.attempt
        /\ changed.waits = row.waits /\ changed.fallbackUsed = row.fallbackUsed
    <3>1. changed \in TaskRow
      BY <2>1, StatusTypes DEF TaskRow
    <3> QED
      BY <2>1, <3>1 DEF TaskRow
  <2> HIDE DEF changed
  <2>4. /\ new \in TaskRow /\ new.status = "ABORTED" /\ new.seq = row.seq + 1
        /\ new.attempt = row.attempt /\ new.waits = row.waits
        /\ new.fallbackUsed = row.fallbackUsed /\ new.target = row.target
    BY <2>3, NumberedFields
  <2> HIDE DEF new
  <2>5. e \in EventRow /\ e.type = "TASK_ABORTED" /\ e.seq = new.seq
    <3>1. "TASK_ABORTED" \in EventTypes
      BY DEF EventTypes
    <3> QED
      BY <2>4, <3>1, OwnEventFields
  <2> HIDE DEF e
  <2>6. Continues(s, e, row, new, A, A)
    BY <2>1, <2>4, <2>5, PlainContinues DEF Consistent
  <2>7. Tells(e, row, new)
    BY <2>4, <2>5, TypesOfRows DEF Tells
  <2> QED
    BY <1>1, <2>2, <2>4, <2>5, <2>6, <2>7, TypesOfRows, StoryAppend
<1> QED
  BY <1>2, <1>3

(* register_dead_letter.                                                   *)
LEMMA DeadLetterStory ==
  ASSUME TypeOK, Coordinated, Trajectories, NEW m \in deadLetters, RecordDeadLetter(m),
         processed' = processed
  PROVE  Trajectories'
<1> DEFINE t == m.task
           s == events[t]
           row == task[t]
           A == Answers(t, processed)
           changed == IF Terminal(t) THEN row ELSE [row EXCEPT !.status = "DEAD_LETTERED"]
           new == Numbered(changed)
           e == OwnEvent("MESSAGE_DEAD_LETTERED", 0, new)
<1>1. t \in Tasks /\ Created(t)
  BY CreatedTask
<1>2. s \in Seq(EventRow) /\ row \in TaskRow /\ Consistent(s, row, A)
  BY <1>1, StoryOf DEF Story
<1>3. Write(t, new, <<e>>)
  BY DEF RecordDeadLetter
<1>4. /\ changed \in TaskRow /\ changed.target = row.target
      /\ changed.seq = row.seq /\ changed.attempt = row.attempt
      /\ changed.waits = row.waits /\ changed.fallbackUsed = row.fallbackUsed
      /\ IF Terminal(t) THEN changed.status = row.status ELSE changed.status = "DEAD_LETTERED"
  <2>1. changed \in TaskRow
    BY <1>2, StatusTypes DEF TaskRow
  <2> QED
    BY <1>2, <2>1 DEF TaskRow
<1> HIDE DEF changed
<1>5. /\ new \in TaskRow /\ new.seq = row.seq + 1
      /\ new.attempt = row.attempt /\ new.waits = row.waits
      /\ new.fallbackUsed = row.fallbackUsed /\ new.target = row.target
      /\ IF Terminal(t) THEN new.status = row.status ELSE new.status = "DEAD_LETTERED"
  BY <1>4, NumberedFields
<1> HIDE DEF new
<1>6. e \in EventRow /\ e.type = "MESSAGE_DEAD_LETTERED" /\ e.seq = new.seq
  <2>1. "MESSAGE_DEAD_LETTERED" \in EventTypes
    BY DEF EventTypes
  <2> QED
    BY <1>5, <2>1, OwnEventFields
<1> HIDE DEF e
<1>7. Continues(s, e, row, new, A, A)
  BY <1>2, <1>5, <1>6, PlainContinues DEF Consistent
<1>8. Tells(e, row, new)
  BY <1>5, <1>6, TypesOfRows DEF Tells, Terminal
<1>9. new.status # "ABSENT"
  BY <1>1, <1>5 DEF Created
<1> QED
  BY <1>1, <1>3, <1>5, <1>6, <1>7, <1>8, <1>9, StoryAppend

-----------------------------------------------------------------------------
(* The handlers of the worker.                                             *)

(* What a handler starts from.                                             *)
LEMMA HandlerStory ==
  ASSUME TypeOK, Coordinated, Trajectories, NEW m \in inbox
  PROVE  /\ m \in Message /\ m.task \in Tasks /\ m.ref \in Nat /\ m.redelivered \in BOOLEAN
         /\ Created(m.task) /\ task[m.task] \in TaskRow /\ events[m.task] \in Seq(EventRow)
         /\ Consistent(events[m.task], task[m.task], Answers(m.task, processed))
BY HandlerStart, CreatedTask, StoryOf DEF Story

(* A new reply continues the trajectory.                                   *)
LEMMA ReplyContinues ==
  ASSUME TypeOK, Coordinated, Trajectories, MessagesExplained, NEW m \in inbox,
         IsReply(m), ~IsProcessed(m), processed' = processed \cup {<<m.task, m.ref>>},
         NEW new \in TaskRow, new.seq = task[m.task].seq + 1,
         new.status = task[m.task].status, new.attempt = task[m.task].attempt,
         new.waits = task[m.task].waits, new.fallbackUsed = task[m.task].fallbackUsed,
         new.target = task[m.task].target
  PROVE  /\ ReplyEvent(m, new.seq, m.redelivered) \in EventRow
         /\ ReplyEvent(m, new.seq, m.redelivered).type = m.kind
         /\ Continues(events[m.task], ReplyEvent(m, new.seq, m.redelivered), task[m.task], new,
                      Answers(m.task, processed), Answers(m.task, processed'))
<1> DEFINE s == events[m.task]
           row == task[m.task]
           e == ReplyEvent(m, new.seq, m.redelivered)
<1>1. /\ m \in Message /\ m.task \in Tasks /\ m.ref \in Nat /\ m.redelivered \in BOOLEAN
      /\ row \in TaskRow /\ s \in Seq(EventRow) /\ Counted(s, row)
  BY HandlerStory DEF Consistent
<1>2. new.seq \in Nat
  BY DEF TaskRow
<1>3. e \in EventRow
  BY <1>1, <1>2, ReplyEventType
<1>4. e.type = m.kind /\ e.seq = new.seq /\ e.ref = m.ref
  BY DEF ReplyEvent
<1> HIDE DEF e
<1>5. e.ref \in Answers(m.task, processed') \ Answers(m.task, processed)
      /\ Answers(m.task, processed) \subseteq Answers(m.task, processed')
  BY <1>1, <1>4 DEF Answers, IsProcessed
<1>6. \E k \in Of(s, "REQUESTED") : s[k].seq = e.ref
  <2>1. Explained(m, events) /\ m.kind \in AboutRequest
    BY DEF MessagesExplained, Queued, IsReply, AboutRequest
  <2> QED
    BY <1>4, <2>1 DEF Explained, Of
<1>7. row.attempt = row.attempt + 0 /\ row.waits = row.waits + 0
  BY <1>1 DEF TaskRow
<1>8. row.fallbackUsed => row.target = Fallback
  BY <1>1 DEF Counted
<1>9. e.type \in {"SUCCEEDED", "FAILED"}
  BY <1>4 DEF IsReply, Reported
<1>10. Continues(s, e, row, new, Answers(m.task, processed), Answers(m.task, processed'))
  BY <1>4, <1>5, <1>6, <1>7, <1>8, <1>9 DEF Continues, Reported
<1> QED
  BY <1>3, <1>4, <1>10 DEF e

(* _record_repeated.                                                       *)
LEMMA RepeatedStory ==
  ASSUME TypeOK, Coordinated, Trajectories, NEW m \in inbox, HandleRepeated(m)
  PROVE  Trajectories'
<1> DEFINE t == m.task
           s == events[t]
           row == task[t]
           A == Answers(t, processed)
           first == CHOOSE i \in DOMAIN s : IsFirstRowOf(t, i, m)
           e == ReplyEvent(m, s[first].seq, TRUE)
<1>1. /\ m \in Message /\ t \in Tasks /\ Created(t) /\ row \in TaskRow /\ s \in Seq(EventRow)
      /\ Consistent(s, row, A)
  BY HandlerStory
<1>2. StatusTold(s, row)
  BY <1>1, StoryOf DEF Story, Created
<1>3. IsReply(m) /\ task' = task /\ processed' = processed
  BY DEF HandleRepeated
<1>4. CASE ~\E i \in DOMAIN s : IsFirstRowOf(t, i, m)
  <2>1. events' = [events EXCEPT ![t] = @ \o <<>>]
    BY <1>4 DEF HandleRepeated, TypeOK, DatabaseType
  <2>2. events' = events
    BY <1>1, <2>1 DEF TypeOK, DatabaseType
  <2> QED
    BY <1>3, <2>2 DEF Trajectories
<1>5. CASE \E i \in DOMAIN s : IsFirstRowOf(t, i, m)
  <2>1. first \in DOMAIN s /\ IsFirstRowOf(t, first, m)
    BY <1>5
  <2>2. events' = [events EXCEPT ![t] = @ \o <<e>>]
    BY <1>5 DEF HandleRepeated, TypeOK, DatabaseType
  <2> HIDE DEF first
  <2>3. /\ ~s[first].redelivered /\ s[first].type = m.kind /\ s[first].ref = m.ref
        /\ s[first].seq \in Nat
    <3>1. s[first] \in EventRow
      BY <1>1, <2>1, ElementOfSeq
    <3> QED
      BY <2>1, <3>1 DEF IsFirstRowOf, EventRow
  <2>4. e \in EventRow
    BY <1>1, <1>3, <2>3, ReplyEventType
  <2>5. e.type = m.kind /\ e.seq = s[first].seq /\ e.ref = m.ref /\ e.redelivered
    BY DEF ReplyEvent
  <2> HIDE DEF e
  <2>6. Append(s, e) = s \o <<e>>
    BY <1>1, <2>4, AppendRows
  <2>7. Consistent(Append(s, e), row, A)
    BY <1>1, <1>3, <2>1, <2>3, <2>4, <2>5, ConsistentRepeat DEF IsReply
  <2>8. StatusTold(Append(s, e), row)
    <3>1. e.type \notin DOMAIN StatusAfter
      BY <1>3, <2>5, TypesOfRows DEF IsReply, Reported
    <3> QED
      BY <1>1, <1>2, <2>4, <3>1, ToldAppend
  <2>9. Story(Append(s, e), row, Answers(t, processed'))
    BY <1>1, <1>3, <2>7, <2>8 DEF Story, Created
  <2>10. task' = [task EXCEPT ![t] = row] /\ events' = [events EXCEPT ![t] = Append(s, e)]
    BY <1>3, <2>2, <2>6 DEF TypeOK, DatabaseType
  <2> QED
    BY <1>1, <1>3, <2>9, <2>10, OneStory
<1> QED
  BY <1>4, <1>5

(* A new failure.                                                          *)
LEMMA FailedStory ==
  ASSUME TypeOK, Coordinated, Trajectories, MessagesExplained, NEW m \in inbox, HandleFailed(m)
  PROVE  Trajectories'
<1> DEFINE t == m.task
           row == task[t]
           received == Numbered(row)
           current == ~Terminal(t) /\ IsCurrentRequest(t, m.ref)
           result == IF current THEN FailureResult(m) ELSE received.lastResult
           new == [received EXCEPT !.lastResult = result]
           e == ReplyEvent(m, new.seq, m.redelivered)
<1>1. m \in Message /\ t \in Tasks /\ Created(t) /\ row \in TaskRow
  BY HandlerStory
<1>2. /\ IsReply(m) /\ m.kind = "FAILED" /\ ~IsProcessed(m)
      /\ processed' = processed \cup {<<t, m.ref>>} /\ Write(t, new, <<e>>)
  BY DEF HandleFailed, IsReply, Reported
<1>3. /\ received \in TaskRow /\ received.status = row.status /\ received.seq = row.seq + 1
      /\ received.attempt = row.attempt /\ received.waits = row.waits
      /\ received.fallbackUsed = row.fallbackUsed /\ received.target = row.target
  BY <1>1, NumberedFields
<1>4. result \in TaskResults \cup {None}
  <2>1. FailureResult(m) \in TaskResults \cup {None}
    BY <1>1 DEF FailureResult, Message, TaskResults
  <2> HIDE DEF received
  <2> QED
    BY <1>3, <2>1 DEF TaskRow
<1> HIDE DEF result, received
<1>5. /\ new \in TaskRow /\ new.status = row.status /\ new.seq = row.seq + 1
      /\ new.attempt = row.attempt /\ new.waits = row.waits
      /\ new.fallbackUsed = row.fallbackUsed /\ new.target = row.target
  BY <1>3, <1>4 DEF TaskRow
<1> HIDE DEF new
<1>6. /\ e \in EventRow /\ e.type = "FAILED"
      /\ Continues(events[t], e, row, new, Answers(t, processed), Answers(t, processed'))
  BY <1>2, <1>5, ReplyContinues
<1> HIDE DEF e
<1>7. Tells(e, row, new)
  BY <1>5, <1>6, TypesOfRows DEF Tells
<1>8. new.status # "ABSENT"
  BY <1>1, <1>5 DEF Created
<1> QED
  BY <1>1, <1>2, <1>5, <1>6, <1>7, <1>8, StoryAppend

(* A new success.                                                          *)
LEMMA SucceededStory ==
  ASSUME TypeOK, Coordinated, Trajectories, MessagesExplained, NEW m \in inbox,
         HandleSucceeded(m)
  PROVE  Trajectories'
<1> DEFINE t == m.task
           s == events[t]
           row == task[t]
           B == Answers(t, processed')
           received == Numbered(row)
           changed == [received EXCEPT !.status = "COMPLETED", !.lastResult = "ok"]
           new == Numbered(changed)
           x == ReplyEvent(m, received.seq, m.redelivered)
           y == OwnEvent("TASK_COMPLETED", 0, new)
<1>1. /\ m \in Message /\ t \in Tasks /\ Created(t) /\ row \in TaskRow /\ s \in Seq(EventRow)
      /\ Consistent(s, row, Answers(t, processed))
  BY HandlerStory
<1>2. /\ IsReply(m) /\ m.kind = "SUCCEEDED" /\ ~IsProcessed(m)
      /\ processed' = processed \cup {<<t, m.ref>>}
      /\ IF Terminal(t) THEN Write(t, received, <<x>>) ELSE Write(t, new, <<x, y>>)
  BY DEF HandleSucceeded, IsReply, Reported
<1>3. /\ received \in TaskRow /\ received.status = row.status /\ received.seq = row.seq + 1
      /\ received.attempt = row.attempt /\ received.waits = row.waits
      /\ received.fallbackUsed = row.fallbackUsed /\ received.target = row.target
  BY <1>1, NumberedFields
<1> HIDE DEF received
<1>4. /\ changed \in TaskRow /\ changed.status = "COMPLETED" /\ changed.seq = received.seq
      /\ changed.attempt = received.attempt /\ changed.waits = received.waits
      /\ changed.fallbackUsed = received.fallbackUsed /\ changed.target = received.target
  <2>1. "COMPLETED" \in TaskStatuses /\ "ok" \in TaskResults
    BY StatusTypes DEF TaskResults
  <2>2. changed \in TaskRow
    BY <1>3, <2>1 DEF TaskRow
  <2> QED
    BY <1>3, <2>2 DEF TaskRow
<1> HIDE DEF changed
<1>5. /\ new \in TaskRow /\ new.status = "COMPLETED" /\ new.seq = received.seq + 1
      /\ new.attempt = received.attempt /\ new.waits = received.waits
      /\ new.fallbackUsed = received.fallbackUsed /\ new.target = received.target
  BY <1>4, NumberedFields
<1> HIDE DEF new
<1>6. /\ x \in EventRow /\ x.type = "SUCCEEDED"
      /\ Continues(s, x, row, received, Answers(t, processed), B)
  BY <1>2, <1>3, ReplyContinues
<1> HIDE DEF x
<1>7. y \in EventRow /\ y.type = "TASK_COMPLETED" /\ y.seq = new.seq
  <2>1. "TASK_COMPLETED" \in EventTypes
    BY DEF EventTypes
  <2> QED
    BY <1>5, <2>1, OwnEventFields
<1> HIDE DEF y
<1>8. CASE Terminal(t)
  <2>1. Tells(x, row, received)
    BY <1>3, <1>6, TypesOfRows DEF Tells
  <2>2. received.status # "ABSENT"
    BY <1>1, <1>3 DEF Created
  <2> QED
    BY <1>1, <1>2, <1>3, <1>6, <1>8, <2>1, <2>2, StoryAppend
<1>9. CASE ~Terminal(t)
  <2>1. Counted(Append(s, x), received)
    BY <1>1, <1>3, <1>6, ConsistentAppend DEF Consistent
  <2>2. Continues(Append(s, x), y, received, new, B, B)
    BY <1>3, <1>5, <1>7, <2>1, PlainContinues
  <2>3. y.type \in DOMAIN StatusAfter /\ new.status \in StatusAfter[y.type]
    BY <1>5, <1>7, TypesOfRows
  <2>4. Write(t, new, <<x, y>>)
    BY <1>2, <1>9
  <2> QED
    BY <1>1, <1>2, <1>3, <1>5, <1>6, <1>7, <2>2, <2>3, <2>4, StoryAppendTwo
<1> QED
  BY <1>8, <1>9

(* A request awaiting its reply has none, and is the latest.               *)
LEMMA AwaitingIsLatest ==
  ASSUME NEW t \in Tasks, events[t] \in Seq(EventRow), NEW row, NEW A,
         Consistent(events[t], row, A), NEW ref, IsAwaitingReply(t, ref)
  PROVE  /\ \E k \in Of(events[t], "REQUESTED") :
              /\ events[t][k].seq = ref
              /\ \A j \in Of(events[t], "REQUESTED") : j <= k
         /\ \A j \in DOMAIN events[t] : events[t][j].ref = ref => events[t][j].type \notin Reported
<1> DEFINE s == events[t]
<1>1. PICK k \in DOMAIN s : /\ IsLatestRequest(t, k) /\ s[k].seq = ref
                            /\ \A j \in DOMAIN s : j > k => s[j].type \notin Reported
  BY DEF IsAwaitingReply
<1>2. /\ s[k].type = "REQUESTED"
      /\ \A j \in DOMAIN s : s[j].type = "REQUESTED" /\ ~s[j].redelivered => j <= k
  BY <1>1 DEF IsLatestRequest, IsRequest
<1>3. \A j \in Of(s, "REQUESTED") : ~s[j].redelivered
  BY DEF Consistent, RequestsFit
<1>4. k \in Of(s, "REQUESTED") /\ \A j \in Of(s, "REQUESTED") : j <= k
  BY <1>2, <1>3 DEF Of
<1>5. ASSUME NEW j \in DOMAIN s, s[j].ref = ref, s[j].type \in Reported PROVE FALSE
  <2>1. DOMAIN s \subseteq Nat
    OBVIOUS
  <2>2. j <= k
    BY <1>1, <1>5, <2>1
  <2>3. PICK i \in Of(s, "REQUESTED") : i < j /\ s[i].seq = ref
    BY <1>5 DEF Consistent, Grounded
  <2>4. i \in Firsts(s) /\ k \in Firsts(s)
    BY <1>2, <2>3 DEF Firsts, Of, Reported
  <2>5. i \in Nat /\ j \in Nat /\ k \in Nat
    BY <1>4, <2>1, <2>3 DEF Of
  <2>6. i < k
    BY <2>2, <2>3, <2>5
  <2>7. s[i].seq < s[k].seq
    BY <2>4, <2>6 DEF Consistent, Gapless
  <2>8. s[k].seq \in Nat
    <3>1. s[k] \in EventRow
      BY ElementOfSeq
    <3> QED
      BY <3>1 DEF EventRow
  <2> QED
    BY <1>1, <2>3, <2>7, <2>8
<1> QED
  BY <1>1, <1>4, <1>5

(* register_timeout.                                                       *)
LEMMA TimeoutStory ==
  ASSUME TypeOK, Coordinated, Trajectories, NEW m \in inbox, HandleTimeout(m)
  PROVE  Trajectories'
<1> DEFINE t == m.task
           s == events[t]
           row == task[t]
           A == Answers(t, processed)
           result == IF row.target = Fallback THEN "fallback_failed" ELSE "timeout"
           changed == [row EXCEPT !.lastResult = result]
           new == Numbered(changed)
           e == OwnEvent("INVENTORY_TIMEOUT", m.ref, new)
<1>1. /\ t \in Tasks /\ m.ref \in Nat /\ Created(t) /\ row \in TaskRow /\ s \in Seq(EventRow)
      /\ Consistent(s, row, A)
  BY HandlerStory
<1>2. /\ IsAwaitingReply(t, m.ref) /\ ~TimeoutRegistered(t, m.ref)
      /\ Write(t, new, <<e>>) /\ processed' = processed
  BY DEF HandleTimeout, TimeoutApplies
<1>3. /\ changed \in TaskRow /\ changed.status = row.status /\ changed.target = row.target
      /\ changed.seq = row.seq /\ changed.attempt = row.attempt
      /\ changed.waits = row.waits /\ changed.fallbackUsed = row.fallbackUsed
  <2>1. result \in TaskResults
    BY DEF TaskResults, TransientResults
  <2> HIDE DEF result
  <2>2. changed \in TaskRow
    BY <1>1, <2>1 DEF TaskRow
  <2> QED
    BY <1>1, <2>2 DEF TaskRow
<1> HIDE DEF changed
<1>4. /\ new \in TaskRow /\ new.seq = row.seq + 1 /\ new.status = row.status
      /\ new.attempt = row.attempt /\ new.waits = row.waits
      /\ new.fallbackUsed = row.fallbackUsed /\ new.target = row.target
      /\ row.attempt = row.attempt + 0 /\ row.waits = row.waits + 0
  <2>1. row.attempt = row.attempt + 0 /\ row.waits = row.waits + 0
    BY <1>1 DEF TaskRow
  <2> QED
    BY <1>3, <2>1, NumberedFields
<1> HIDE DEF new
<1>5. e \in EventRow /\ e.type = "INVENTORY_TIMEOUT" /\ e.seq = new.seq /\ e.ref = m.ref
  <2>1. "INVENTORY_TIMEOUT" \in EventTypes
    BY DEF EventTypes
  <2> QED
    BY <1>1, <1>4, <2>1, OwnEventFields
<1> HIDE DEF e
<1>6. /\ \E k \in Of(s, "REQUESTED") :
           s[k].seq = e.ref /\ \A j \in Of(s, "REQUESTED") : j <= k
      /\ \A j \in DOMAIN s : s[j].ref = e.ref =>
           s[j].type \notin Reported \cup {"INVENTORY_TIMEOUT"}
  <2>1. /\ \E k \in Of(s, "REQUESTED") :
             s[k].seq = e.ref /\ \A j \in Of(s, "REQUESTED") : j <= k
        /\ \A j \in DOMAIN s : s[j].ref = e.ref => s[j].type \notin Reported
    BY <1>1, <1>2, <1>5, AwaitingIsLatest
  <2>2. \A j \in DOMAIN s : s[j].ref = e.ref => s[j].type # "INVENTORY_TIMEOUT"
    BY <1>2, <1>5 DEF TimeoutRegistered
  <2> QED
    BY <2>1, <2>2
<1>7. row.fallbackUsed => row.target = Fallback
  BY <1>1 DEF Consistent, Counted
<1>8. Continues(s, e, row, new, A, A)
  BY <1>4, <1>5, <1>6, <1>7 DEF Continues, Reported
<1>9. Tells(e, row, new)
  BY <1>4, <1>5, TypesOfRows DEF Tells
<1>10. new.status # "ABSENT"
  BY <1>1, <1>4 DEF Created
<1> QED
  BY <1>1, <1>2, <1>4, <1>5, <1>8, <1>9, <1>10, StoryAppend

(* finish_wait.                                                            *)
LEMMA ReevaluateStory ==
  ASSUME TypeOK, Coordinated, Trajectories, NEW m \in inbox, HandleReevaluate(m)
  PROVE  Trajectories'
<1> DEFINE t == m.task
           s == events[t]
           row == task[t]
           A == Answers(t, processed)
           new == Numbered(row)
           e == OwnEvent("WAIT_FINISHED", m.ref, new)
<1>1. /\ t \in Tasks /\ m.ref \in Nat /\ Created(t) /\ row \in TaskRow /\ s \in Seq(EventRow)
      /\ Consistent(s, row, A)
  BY HandlerStory
<1>2. /\ row.waits = m.ref /\ ~WaitAlreadyFinished(t, m.ref)
      /\ Write(t, new, <<e>>) /\ processed' = processed
  BY DEF HandleReevaluate, WaitApplies
<1>3. /\ new \in TaskRow /\ new.seq = row.seq + 1 /\ new.status = row.status
      /\ new.attempt = row.attempt /\ new.waits = row.waits
      /\ new.fallbackUsed = row.fallbackUsed /\ new.target = row.target
      /\ row.attempt = row.attempt + 0 /\ row.waits = row.waits + 0
  <2>1. row.attempt = row.attempt + 0 /\ row.waits = row.waits + 0
    BY <1>1 DEF TaskRow
  <2> QED
    BY <1>1, <2>1, NumberedFields
<1> HIDE DEF new
<1>4. e \in EventRow /\ e.type = "WAIT_FINISHED" /\ e.seq = new.seq /\ e.ref = m.ref
  <2>1. "WAIT_FINISHED" \in EventTypes
    BY DEF EventTypes
  <2> QED
    BY <1>1, <1>3, <2>1, OwnEventFields
<1> HIDE DEF e
<1>5. /\ e.ref = Cardinality(Of(s, "WAIT_SCHEDULED"))
      /\ \A j \in Of(s, "WAIT_FINISHED") : s[j].ref # e.ref
  <2>1. row.waits = Cardinality(Of(s, "WAIT_SCHEDULED"))
    BY <1>1 DEF Consistent, Counted
  <2>2. \A j \in Of(s, "WAIT_FINISHED") : s[j].ref # m.ref
    BY <1>2 DEF WaitAlreadyFinished, Of
  <2> QED
    BY <1>2, <1>4, <2>1, <2>2
<1>6. row.fallbackUsed => row.target = Fallback
  BY <1>1 DEF Consistent, Counted
<1>7. Continues(s, e, row, new, A, A)
  BY <1>3, <1>4, <1>5, <1>6 DEF Continues, Reported
<1>8. Tells(e, row, new)
  BY <1>3, <1>4, TypesOfRows DEF Tells
<1>9. new.status # "ABSENT"
  BY <1>1, <1>3 DEF Created
<1> QED
  BY <1>1, <1>2, <1>3, <1>4, <1>7, <1>8, <1>9, StoryAppend

(* dispatch_scheduled_attempt: a retry has not been requested yet.         *)
LEMMA DispatchStory ==
  ASSUME TypeOK, Coordinated, Trajectories, NEW m \in inbox, HandleDispatch(m)
  PROVE  Trajectories'
<1> DEFINE t == m.task
           s == events[t]
           row == task[t]
           A == Answers(t, processed)
           changed == [row EXCEPT !.status = "DISPATCHED"]
           new == Numbered(changed)
           e == OwnEvent("REQUESTED", new.seq, new)
<1>1. /\ t \in Tasks /\ Created(t) /\ row \in TaskRow /\ s \in Seq(EventRow)
      /\ Consistent(s, row, A)
  BY HandlerStory
<1>2. row.status = "RETRYING" /\ Write(t, new, <<e>>) /\ processed' = processed
  BY DEF HandleDispatch, RequestEvent
<1>3. /\ row.target = Primary /\ Primary # Fallback
      /\ \A i \in Of(s, "REQUESTED") : s[i].attempt < row.attempt
  BY <1>1, <1>2 DEF Consistent, RequestsFit, Primary, Fallback
<1>4. ~row.fallbackUsed
  BY <1>1, <1>3 DEF Consistent, Counted
<1>5. /\ changed \in TaskRow /\ changed.status = "DISPATCHED" /\ changed.target = row.target
      /\ changed.seq = row.seq /\ changed.attempt = row.attempt
      /\ changed.waits = row.waits /\ changed.fallbackUsed = row.fallbackUsed
  <2>1. changed \in TaskRow
    BY <1>1, StatusTypes DEF TaskRow
  <2> QED
    BY <1>1, <2>1 DEF TaskRow
<1> HIDE DEF changed
<1>6. /\ new \in TaskRow /\ new.seq \in Nat /\ new.seq = row.seq + 1
      /\ new.status = "DISPATCHED" /\ new.attempt = row.attempt /\ new.waits = row.waits
      /\ new.fallbackUsed = row.fallbackUsed /\ new.target = row.target
      /\ row.attempt = row.attempt + 0 /\ row.waits = row.waits + 0
  <2>1. row.attempt = row.attempt + 0 /\ row.waits = row.waits + 0
    BY <1>1 DEF TaskRow
  <2> QED
    BY <1>5, <2>1, NumberedFields DEF TaskRow
<1> HIDE DEF new
<1>7. e \in EventRow /\ e.type = "REQUESTED" /\ e.seq = new.seq /\ e.attempt = new.attempt
      /\ e.target = new.target /\ ~e.redelivered
  BY <1>6, OwnEventFields DEF EventTypes
<1> HIDE DEF e
<1>8. \A i \in Of(s, "REQUESTED") : s[i].attempt # e.attempt
  <2>1. \A i \in Of(s, "REQUESTED") : s[i].attempt \in Nat
    <3>1. \A i \in Of(s, "REQUESTED") : s[i] \in EventRow
      BY <1>1, ElementOfSeq DEF Of
    <3> QED
      BY <3>1 DEF EventRow
  <2> QED
    BY <1>3, <1>6, <1>7, <2>1
<1>9. Continues(s, e, row, new, A, A)
  BY <1>3, <1>4, <1>6, <1>7, <1>8 DEF Continues, Reported
<1>10. Tells(e, row, new)
  BY <1>6, <1>7, TypesOfRows DEF Tells
<1> QED
  BY <1>1, <1>2, <1>6, <1>7, <1>9, <1>10, StoryAppend

-----------------------------------------------------------------------------
(* The steps.                                                              *)

(* A step without a transaction.                                           *)
LEMMA StoryUntouched ==
  ASSUME Trajectories, UNCHANGED <<task, events, processed>>
  PROVE  Trajectories'
BY DEF Trajectories

(* The API request and the executor.                                       *)
LEMMA ActStory ==
  ASSUME TypeOK, Coordinated, Trajectories, NEW a \in Actors, Act(a)
  PROVE  Trajectories'
<1>1. CASE TakeDecision(a) \/ ExecuteRaises(a) \/ SendNext(a) \/ Return(a)
  BY <1>1, StoryUntouched DEF TakeDecision, ExecuteRaises, SendNext, Return, database
<1> QED
  BY <1>1, ContinueStory, RetryStory, WaitStory, FallbackStory, AbortStory
  DEF Act, ExecuteDecision

(* The worker.                                                             *)
LEMMA HandleStory ==
  ASSUME TypeOK, Coordinated, Trajectories, MessagesExplained, NEW m \in inbox, Handle(m)
  PROVE  Trajectories'
<1>1. CASE HandleStale(m)
  BY <1>1, StoryUntouched DEF HandleStale, database
<1> QED
  BY <1>1, RepeatedStory, SucceededStory, FailedStory, TimeoutStory, ReevaluateStory,
     DispatchStory DEF Handle

(* Every step.                                                             *)
LEMMA StoryStep ==
  ASSUME TypeOK, Coordinated, Trajectories, MessagesExplained, [Next]_vars
  PROVE  Trajectories'
<1>1. ASSUME NEW m \in deadLetters,
             HandleDeadLetter(m) \/ HandleDeadLetterUnacknowledged(m) \/ DeadLetterLost(m)
      PROVE  Trajectories'
  BY <1>1, DeadLetterStory, StoryUntouched
  DEF HandleDeadLetter, HandleDeadLetterUnacknowledged, DeadLetterLost, database
<1>2. CASE \/ WorkerRaises \/ \E t \in Tasks : ApiRaises(t)
           \/ \E m \in inbox : HandlerRaises(m)
           \/ WorkerCrash \/ ApiCrash
  BY <1>2, StoryUntouched
  DEF WorkerRaises, ApiRaises, Raises, HandlerRaises, WorkerCrash, ApiCrash, database
<1>3. CASE \/ \E t \in Tasks : DeadlinePasses(t)
           \/ \E m \in requests : RequestAnswered(m) \/ RequestDeadLettered(m)
           \/ \E m \in replies : AnswerSentAgain(m) \/ AnsweredRequestDeadLettered(m)
           \/ UNCHANGED vars
  BY <1>3, StoryUntouched DEF DeadlinePasses, RequestAnswered, RequestDeadLettered,
     AnswerSentAgain, AnsweredRequestDeadLettered, database, vars
<1> QED
  BY <1>1, <1>2, <1>3, CreateStory, ActStory, HandleStory
  DEF Next, WorkerStep, Disturbance, Actors

(* Nothing is recorded of a task that does not exist.                      *)
LEMMA InitStory == ASSUME Init PROVE Trajectories
<1> DEFINE s == <<>>
<1>1. DOMAIN s = {} /\ \A type : Of(s, type) = {}
  BY DEF Of
<1>2. Cardinality({}) = 0
  BY FS_EmptySet
<1>3. Gapless(s, AbsentRow.seq)
  BY <1>1 DEF Gapless, Firsts, AbsentRow
<1>4. Counted(s, AbsentRow) /\ RequestsFit(s, AbsentRow)
  <2>1. /\ AbsentRow.attempt = 1 /\ AbsentRow.waits = 0 /\ ~AbsentRow.fallbackUsed
        /\ AbsentRow.target = None /\ AbsentRow.status = "ABSENT"
    BY DEF AbsentRow
  <2>2. /\ Cardinality(Of(s, "RETRY_SCHEDULED")) = 0 /\ Cardinality(Of(s, "WAIT_SCHEDULED")) = 0
        /\ Of(s, "FALLBACK_SCHEDULED") = {} /\ Of(s, "REQUESTED") = {}
    BY <1>1, <1>2
  <2> HIDE DEF s
  <2>3. Counted(s, AbsentRow)
    BY <2>1, <2>2 DEF Counted
  <2> QED
    BY <2>1, <2>2, <2>3 DEF RequestsFit
<1>5. /\ Applied(s, {}) /\ Grounded(s) /\ RequestsOnce(s)
      /\ TimeoutsDue(s) /\ WaitsOnce(s)
  BY <1>1 DEF Applied, Grounded, RequestsOnce, TimeoutsDue, WaitsOnce
<1>6. Story(s, AbsentRow, {})
  BY <1>3, <1>4, <1>5 DEF Story, Consistent, AbsentRow
<1>7. \A t \in Tasks : Answers(t, processed) = {} /\ events[t] = s /\ task[t] = AbsentRow
  BY DEF Init, Answers
<1> QED
  BY <1>6, <1>7 DEF Trajectories

(* The trajectories are consistent, and every message is explained.        *)
Recorded == Trajectories /\ MessagesExplained /\ KindsOfQueues

(* The invariant of the trajectories, on top of that of the rows.          *)
LEMMA AlwaysRecorded == Spec => []Recorded
<1>1. Init => Recorded
  <2> SUFFICES ASSUME Init PROVE MessagesExplained /\ KindsOfQueues
    BY InitStory DEF Recorded
  <2>1. \A a \in Actors : actor[a] = Free
    BY DEF Init
  <2> QED
    BY <2>1, NothingHeld DEF Init, MessagesExplained, HandlerExplained, Queued, KindsOfQueues
<1>2. Safe /\ Recorded /\ [Next]_vars => Recorded'
  BY StoryStep, ExplainedStep, KindsStep DEF Safe, Recorded
<1> QED
  BY <1>1, <1>2, AlwaysSafe, PTL DEF Spec

(* advance_event_seq numbers the trajectory without gaps or repetitions,   *)
(* and a reply delivered again takes the number of its first row, whoever  *)
(* writes between its two deliveries.                                      *)
THEOREM AlwaysNumberedWithoutGaps == Spec => []NumberedWithoutGaps
<1>1. ASSUME Recorded PROVE NumberedWithoutGaps
  <2> SUFFICES ASSUME NEW t \in Tasks
               PROVE  /\ {events[t][i].seq : i \in FirstOccurrences(t)} = 1 .. task[t].seq
                      /\ \A i, j \in FirstOccurrences(t) :
                           i < j => events[t][i].seq < events[t][j].seq
                      /\ \A i \in DOMAIN events[t] \ FirstOccurrences(t) :
                           /\ events[t][i].redelivered
                           /\ \E j \in FirstOccurrences(t) :
                                RepeatsRow(t, i, j) /\ events[t][j].seq = events[t][i].seq
    BY DEF NumberedWithoutGaps
  <2>1. Gapless(events[t], task[t].seq)
    BY <1>1 DEF Recorded, Trajectories, Story, Consistent
  <2>2. FirstOccurrences(t) = Firsts(events[t])
    BY DEF FirstOccurrences, RepeatsRow, Firsts
  <2> QED
    BY <2>1, <2>2 DEF Gapless, RepeatsRow
<1> QED
  BY <1>1, AlwaysRecorded, PTL

(* No crash, repetition or order of messages publishes an attempt twice on *)
(* one route, or a second request on the fallback route.                   *)
THEOREM AlwaysOneRequestPerAttempt == Spec => []OneRequestPerAttempt
<1>1. Recorded => OneRequestPerAttempt
  BY DEF Recorded, Trajectories, Story, Consistent, RequestsOnce, OneRequestPerAttempt, Of, Rows
<1> QED
  BY <1>1, AlwaysRecorded, PTL

(* The task row is always the sum of its trajectory: no transaction        *)
(* changes one without the other.                                          *)
THEOREM TrajectoryAlwaysExplainsTask == Spec => []TrajectoryExplainsTask
<1>1. ASSUME Recorded PROVE TrajectoryExplainsTask
  <2>1. ASSUME NEW t \in Tasks, Created(t)
        PROVE  Counted(events[t], task[t]) /\ StatusTold(events[t], task[t])
    BY <1>1, <2>1 DEF Recorded, Trajectories, Story, Consistent, Created
  <2>2. \A t \in Tasks : \A type : Of(events[t], type) = Rows(t, type)
    BY DEF Of, Rows
  <2> QED
    BY <2>1, <2>2 DEF TrajectoryExplainsTask, Counted, StatusTold, IsLastMove
<1> QED
  BY <1>1, AlwaysRecorded, PTL

(* register_timeout records a timeout once, for the latest request, before *)
(* any answer to it, however late or often its check is delivered.         *)
THEOREM TimeoutsAlwaysDue == Spec => []TimeoutsAreDue
<1>1. Recorded => TimeoutsAreDue
  BY DEF Recorded, Trajectories, Story, Consistent, TimeoutsDue, TimeoutsAreDue, Of, Rows
<1> QED
  BY <1>1, AlwaysRecorded, PTL

(* finish_wait ends the wait the task is in, and ends it once, however     *)
(* often its reevaluation is delivered.                                    *)
THEOREM WaitsAlwaysEndOnce == Spec => []WaitsEndOnce
<1>1. Recorded => WaitsEndOnce
  BY DEF Recorded, Trajectories, Story, Consistent, WaitsOnce, WaitsEndOnce, Of, Rows
<1> QED
  BY <1>1, AlwaysRecorded, PTL
================================================================================
