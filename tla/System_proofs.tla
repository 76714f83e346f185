----------------------------- MODULE System_proofs -----------------------------
(***************************************************************************)
(* The two services together, for any tasks, limits and numbers of faults: *)
(* each keeps to what it was proved with alone, so what was proved of each *)
(* holds of both, and the two databases agree on the stock.                *)
(*                                                                         *)
(* Everything rests on the queues: a request waits in the one queue as     *)
(* long as it waits in the other and has neither an answer nor been        *)
(* rejected, answers are published as they were stored, and an answer      *)
(* leaves once more only for a worker that was killed.                     *)
(***************************************************************************)
EXTENDS SystemProperties, OrdersAnswers_proofs

Shop ==
  INSTANCE Inventory_proofs WITH
    Requests <- PossibleRequests,
    MaxCrashes <- MaxStockCrashes, MaxFailures <- MaxStockFailures, MaxDuplicates <- 0,
    worker <- routeWorker, processed <- answers, deadLetters <- rejected,
    crashes <- stockCrashes, failures <- stockFailures, duplicates <- 0

-----------------------------------------------------------------------------
(* The first request of a task, before it is published.                    *)

Unsent(t) == \E i \in DOMAIN actor[t].effects : actor[t].effects[i].kind = "REQUESTED"

(* As long as the API process has a request to publish, nothing else about *)
(* its task is on its way and the worker is at another one.                *)
FirstAlone ==
  \A t \in Tasks : Unsent(t) =>
    /\ \A m \in Published : m.task # t
    /\ InRequest(Worker) => actor[Worker].task # t

(* Whom a message can be about: a task there is a message of already, that *)
(* of the worker, or that of an API request that sends one.                *)
AboutKnown ==
  /\ \A m \in Published' : \/ \E n \in Published : n.task = m.task
                           \/ InRequest(Worker) /\ m.task = actor[Worker].task
                           \/ \E t \in Tasks : SendNext(t) /\ m.task = t
  /\ InRequest(Worker)' => \/ InRequest(Worker) /\ actor'[Worker].task = actor[Worker].task
                           \/ \E n \in Published : actor'[Worker].task = n.task

(* A handler that goes on.                                                 *)
LEMMA ActKnown ==
  ASSUME TypeOK, Exclusive, NEW a \in Actors, Act(a) \/ Raises(a)
  PROVE  AboutKnown
<1>1. /\ actor \in [Actors -> ActorState] /\ actor[a] \in ActorState /\ Worker \in Actors
      /\ actor[Worker] \in ActorState /\ Worker \notin Tasks
  BY ActorsAssumption DEF TypeOK, ActorType, Actors
<1>2. InRequest(a)
  BY DEF Act, TakeDecision, ExecuteDecision, ExecuteContinue, ExecuteRetry, ExecuteWait,
         ExecuteFallback, ExecuteAbort, Executing, ExecuteRaises, SendNext, Return, Raises, At,
         InRequest
<1>3. ASSUME NEW r, actor' = [actor EXCEPT ![a] = r], r.pc \in {"idle", "done"} \/ r.task = actor[a].task
      PROVE  InRequest(Worker)' => InRequest(Worker) /\ actor'[Worker].task = actor[Worker].task
  BY <1>1, <1>2, <1>3 DEF InRequest, At
<1>4. CASE TakeDecision(a)
  <2>1. PICK d : actor' = [actor EXCEPT ![a].pc = "execute", ![a].decision = d]
    BY <1>4 DEF TakeDecision
  <2> DEFINE r == [actor[a] EXCEPT !.pc = "execute", !.decision = d]
  <2>2. actor' = [actor EXCEPT ![a] = r] /\ r.task = actor[a].task
    BY <1>1, <2>1 DEF ActorState
  <2> HIDE DEF r
  <2>3. Published' = Published
    BY <1>4 DEF TakeDecision, broker, Published
  <2> QED
    BY <1>3, <2>2, <2>3 DEF AboutKnown
<1>5. CASE ExecuteDecision(a) /\ ~ExecuteRaises(a)
  <2>1. Published' = Published
    BY <1>5 DEF ExecuteDecision, ExecuteContinue, ExecuteRetry, ExecuteWait, ExecuteFallback,
                ExecuteAbort, broker, Published
  <2>2. PICK messages : ThenSend(a, messages)
    BY <1>5, ExecuteLeaves
  <2> DEFINE r == [actor[a] EXCEPT !.pc = "effects", !.decision = NoDecision,
                                   !.effects = messages]
  <2>3. actor' = [actor EXCEPT ![a] = r] /\ r.task = actor[a].task
    BY <1>1, <2>2 DEF ThenSend, ActorState
  <2> HIDE DEF r
  <2> QED
    BY <1>3, <2>1, <2>3 DEF AboutKnown
<1>6. CASE ExecuteRaises(a) \/ Raises(a)
  <2>1. PICK r : actor' = [actor EXCEPT ![a] = r] /\ r.pc \in {"idle", "done"}
    BY <1>6, FreeType DEF ExecuteRaises, Raises, Reject
  <2>2. \A m \in Published' : m \in Published \/ (a = Worker /\ m = actor[Worker].msg)
    BY <1>6 DEF ExecuteRaises, Raises, Reject, Published
  <2>3. a = Worker => actor[Worker].msg.task = actor[Worker].task
    BY <1>2 DEF Exclusive, OwnTask
  <2> QED
    BY <1>2, <1>3, <2>1, <2>2, <2>3 DEF AboutKnown
<1>7. CASE SendNext(a)
  <2> DEFINE m == Head(actor[a].effects)
             r == [actor[a] EXCEPT !.effects = Tail(@)]
  <2>1. actor' = [actor EXCEPT ![a] = r] /\ r.task = actor[a].task
    BY <1>1, <1>7 DEF SendNext, ActorState
  <2>2. actor[a].effects \in Seq(Message) /\ actor[a].effects # <<>>
    BY <1>1, <1>7 DEF SendNext, ActorState
  <2>3. m.task = actor[a].task
    BY <1>2, <2>2 DEF Exclusive, OwnTask
  <2>4. \A n \in Published' : n \in Published \/ n = m
    BY <1>7 DEF SendNext, Published
  <2>5. a \in Tasks => actor[a].task = a
    BY <1>2 DEF Exclusive, OwnTask
  <2> HIDE DEF r, m
  <2> QED
    BY <1>2, <1>3, <1>7, <2>1, <2>3, <2>4, <2>5 DEF AboutKnown, Actors
<1>8. CASE Return(a)
  <2>1. PICK r : actor' = [actor EXCEPT ![a] = r] /\ r.pc \in {"idle", "done"}
    BY <1>8, FreeType DEF Return
  <2>2. Published' = Published
    BY <1>8 DEF Return, broker, Published
  <2> QED
    BY <1>3, <2>1, <2>2 DEF AboutKnown
<1> QED
  BY <1>4, <1>5, <1>6, <1>7, <1>8 DEF Act, ExecuteDecision

(* Dead letters, crashes and answers, and a handler that begins.           *)
LEMMA OthersKnown ==
  ASSUME TypeOK, Exclusive,
         \/ \E t \in Tasks : CreateOrder(t) \/ DeadlinePasses(t)
         \/ \E m \in inbox : Handle(m) \/ HandlerRaises(m)
         \/ \E m \in deadLetters :
              HandleDeadLetter(m) \/ HandleDeadLetterUnacknowledged(m) \/ DeadLetterLost(m)
         \/ \E m \in requests : RequestAnswered(m) \/ RequestDeadLettered(m)
         \/ \E m \in replies : AnswerSentAgain(m) \/ AnsweredRequestDeadLettered(m)
         \/ WorkerCrash \/ ApiCrash
         \/ UNCHANGED vars
  PROVE  AboutKnown
<1>1. /\ actor \in [Actors -> ActorState] /\ Worker \in Actors /\ Worker \notin Tasks
  BY ActorsAssumption DEF TypeOK, ActorType, Actors
<1>2. ASSUME actor'[Worker] = actor[Worker] \/ actor'[Worker] \in {Free, Finished}
      PROVE  InRequest(Worker)' => InRequest(Worker) /\ actor'[Worker].task = actor[Worker].task
  BY <1>2, FreeType DEF InRequest, At
<1>3. \A m \in Message : /\ Redelivered(m).task = m.task /\ RequestOf(m).task = m.task
                         /\ \A outcome : Answer(m, outcome).task = m.task
  BY DEF Redelivered, RequestOf, Answer, Message
<1>4. \A m \in Published : m \in Message
  BY DEF Published, TypeOK, BrokerType
<1>5. ASSUME NEW m \in inbox, Handle(m) PROVE AboutKnown
  <2>1. PICK pc, messages : Begin(m, pc, messages)
    BY <1>5, HandleLeaves
  <2>2. actor'[Worker].task = m.task /\ inbox' \subseteq inbox
    BY <1>1, <2>1 DEF Begin
  <2>3. UNCHANGED <<requests, replies, deadLetters>>
    BY <1>5 DEF Handle, HandleRepeated, HandleSucceeded, HandleFailed, HandleTimeout,
                HandleReevaluate, HandleDispatch, HandleStale
  <2> QED
    BY <2>2, <2>3 DEF AboutKnown, Published
<1>6. CASE WorkerCrash
  <2> DEFINE current == IF At(Worker, "idle") THEN {} ELSE {actor[Worker].msg}
  <2>1. PICK prefetched \in SUBSET inbox :
          inbox' = (inbox \ prefetched) \cup {Redelivered(m) : m \in current \cup prefetched}
    BY <1>6 DEF WorkerCrash
  <2>2. UNCHANGED <<requests, replies, deadLetters>> /\ actor'[Worker] = Free
    BY <1>1, <1>6 DEF WorkerCrash
  <2>3. \A m \in current : m \in Message /\ InRequest(Worker) /\ m.task = actor[Worker].task
    BY DEF TypeOK, ActorType, InRequest, Exclusive, OwnTask
  <2> HIDE DEF current
  <2>4. ASSUME NEW m \in inbox'
        PROVE  \/ \E n \in Published : n.task = m.task
               \/ InRequest(Worker) /\ m.task = actor[Worker].task
    <3>1. m \in inbox \/ \E n \in current \cup prefetched : m = Redelivered(n)
      BY <2>1, <2>4
    <3>2. inbox \subseteq Published
      BY DEF Published
    <3> QED
      BY <1>3, <1>4, <2>1, <2>3, <3>1, <3>2
  <2>5. \A m \in Published' : m \in inbox' \/ m \in Published
    BY <2>2 DEF Published
  <2> QED
    BY <1>2, <2>2, <2>4, <2>5 DEF AboutKnown
<1>7. ASSUME NEW m \in Published, NEW n, n.task = m.task, Published' \subseteq Published \cup {n},
             actor'[Worker] = actor[Worker]
      PROVE  AboutKnown
  BY <1>2, <1>7 DEF AboutKnown
<1>8. ASSUME NEW m \in requests, RequestAnswered(m) PROVE AboutKnown
  <2>1. PICK outcome : /\ replies' = replies \cup {Answer(m, outcome)}
                       /\ inbox' = inbox \cup {Answer(m, outcome)}
    BY <1>8 DEF RequestAnswered
  <2>2. /\ Published' \subseteq Published \cup {Answer(m, outcome)} /\ m \in Published
        /\ actor' = actor
    BY <1>8, <2>1 DEF RequestAnswered, Published
  <2> QED
    BY <1>3, <1>4, <1>7, <2>2
<1>9. ASSUME NEW m \in replies, AnsweredRequestDeadLettered(m) PROVE AboutKnown
  <2>1. /\ Published' \subseteq Published \cup {RequestOf(m)} /\ m \in Published
        /\ actor' = actor
    BY <1>9 DEF AnsweredRequestDeadLettered, Published
  <2> QED
    BY <1>3, <1>4, <1>7, <2>1
<1>10. ASSUME Published' \subseteq Published,
              actor'[Worker] = actor[Worker] \/ actor'[Worker] \in {Free, Finished}
       PROVE  AboutKnown
  BY <1>2, <1>10 DEF AboutKnown
<1>11. CASE \/ \E t \in Tasks : CreateOrder(t) \/ DeadlinePasses(t)
            \/ \E m \in inbox : HandlerRaises(m)
            \/ \E m \in deadLetters :
                 HandleDeadLetter(m) \/ HandleDeadLetterUnacknowledged(m) \/ DeadLetterLost(m)
            \/ \E m \in requests : RequestDeadLettered(m)
            \/ \E m \in replies : AnswerSentAgain(m)
            \/ ApiCrash
            \/ UNCHANGED vars
  <2>1. Published' \subseteq Published
    BY <1>11 DEF CreateOrder, DeadlinePasses, HandlerRaises, HandleDeadLetter,
                 HandleDeadLetterUnacknowledged, DeadLetterLost, RequestDeadLettered,
                 AnswerSentAgain, ApiCrash, vars, broker, Published
  <2>2. actor'[Worker] = actor[Worker]
    BY <1>1, <1>11 DEF CreateOrder, DeadlinePasses, HandlerRaises, HandleDeadLetter,
                 HandleDeadLetterUnacknowledged, DeadLetterLost, RequestDeadLettered,
                 AnswerSentAgain, ApiCrash, vars
  <2> QED
    BY <1>10, <2>1, <2>2
<1> QED
  BY <1>5, <1>6, <1>8, <1>9, <1>11

(* Every step.                                                             *)
LEMMA StepKnown ==
  ASSUME TypeOK, Exclusive, [Next]_vars
  PROVE  AboutKnown
<1>1. ASSUME NEW a \in Actors, Act(a) \/ Raises(a) PROVE AboutKnown
  BY <1>1, ActKnown
<1> QED
  BY <1>1, OthersKnown DEF Next, WorkerStep, Disturbance, WorkerRaises, ApiRaises, Actors

(* An API request has a request to publish from the transaction of its     *)
(* first decision until it publishes it.                                   *)
LEMMA UnsentSince ==
  ASSUME TypeOK, EffectsFresh, [Next]_vars, NEW t \in Tasks, Unsent(t)'
  PROVE  \/ Unsent(t) /\ ~SendNext(t)
         \/ At(t, "execute") /\ Published' = Published /\ actor'[Worker] = actor[Worker]
<1>1. /\ actor \in [Actors -> ActorState] /\ Worker \in Actors /\ Worker # t /\ t \in Actors
      /\ \A a \in Actors : actor[a] \in ActorState
  BY ActorsAssumption DEF TypeOK, ActorType, Actors
<1>2. DOMAIN Free.effects = {} /\ DOMAIN Finished.effects = {}
  BY NothingHeld
<1>3. CASE actor'[t] \in {Free, Finished}
  BY <1>2, <1>3 DEF Unsent
<1>4. CASE SendNext(t)
  <2> DEFINE q == actor[t].effects
             r == [actor[t] EXCEPT !.effects = Tail(@)]
  <2>1. q \in Seq(Message) /\ q # <<>>
    BY <1>1, <1>4 DEF SendNext, ActorState
  <2>2. \A i \in DOMAIN Tail(q) : i + 1 \in DOMAIN q /\ Tail(q)[i] = q[i + 1] /\ i + 1 # 1
    BY <2>1
  <2>3. actor' = [actor EXCEPT ![t] = r] /\ r.effects = Tail(q)
    BY <1>1, <1>4 DEF SendNext, ActorState
  <2> HIDE DEF r
  <2>4. actor'[t].effects = Tail(q)
    BY <1>1, <2>3
  <2>5. \A i \in DOMAIN q : q[i].kind = "REQUESTED" => i = 1
    BY <1>1 DEF EffectsFresh
  <2> QED
    BY <2>2, <2>4, <2>5 DEF Unsent
<1>5. CASE TakeDecision(t)
  <2>1. PICK d : actor' = [actor EXCEPT ![t].pc = "execute", ![t].decision = d]
    BY <1>5 DEF TakeDecision
  <2> DEFINE r == [actor[t] EXCEPT !.pc = "execute", !.decision = d]
  <2>2. actor' = [actor EXCEPT ![t] = r] /\ r.effects = actor[t].effects
    BY <1>1, <2>1 DEF ActorState
  <2> HIDE DEF r
  <2>3. actor'[t].effects = actor[t].effects
    BY <1>1, <2>2
  <2>4. ~SendNext(t)
    BY <1>5 DEF TakeDecision, SendNext, At
  <2> QED
    BY <2>3, <2>4 DEF Unsent
<1>6. CASE ExecuteDecision(t) /\ ~ExecuteRaises(t)
  <2>1. At(t, "execute") /\ Published' = Published
    BY <1>6 DEF ExecuteDecision, ExecuteContinue, ExecuteRetry, ExecuteWait, ExecuteFallback,
                ExecuteAbort, Executing, broker, Published
  <2>2. PICK messages : ThenSend(t, messages)
    BY <1>1, <1>6, ExecuteLeaves
  <2>3. actor'[Worker] = actor[Worker]
    BY <1>1, <2>2 DEF ThenSend
  <2> QED
    BY <2>1, <2>3
<1>7. CASE ExecuteRaises(t) \/ Return(t) \/ ApiRaises(t)
  BY <1>1, <1>3, <1>7 DEF ExecuteRaises, Return, ApiRaises, Raises, Reject
<1>8. CASE CreateOrder(t)
  <2>1. actor'[t].effects = <<>>
    BY <1>1, <1>8 DEF CreateOrder, Free
  <2> QED
    BY <2>1 DEF Unsent
<1>9. CASE actor'[t] = actor[t]
  <2>1. ASSUME SendNext(t) PROVE FALSE
    <3> DEFINE q == actor[t].effects
    <3>1. q \in Seq(Message) /\ q # <<>>
      BY <1>1, <2>1 DEF SendNext, ActorState
    <3>2. actor'[t].effects = Tail(q)
      BY <1>1, <2>1 DEF SendNext, ActorState
    <3>3. Len(Tail(q)) = Len(q) - 1 /\ Len(q) \in Nat
      BY <3>1
    <3>4. Len(Tail(q)) = Len(q)
      BY <1>9, <3>2
    <3> QED
      BY ONLY <3>3, <3>4
  <2> QED
    BY <1>9, <2>1 DEF Unsent
<1>10. ASSUME NEW a \in Actors, a # t, Act(a) \/ Raises(a) PROVE actor'[t] = actor[t]
  <2>1. CASE ExecuteDecision(a) /\ ~ExecuteRaises(a)
    <3>1. PICK messages : ThenSend(a, messages)
      BY <2>1, ExecuteLeaves
    <3> QED
      BY <1>1, <1>10, <3>1 DEF ThenSend
  <2> QED
    BY <1>1, <1>10, <2>1 DEF Act, ExecuteDecision, TakeDecision, SendNext, Return, Raises,
                             ExecuteRaises, Reject
<1>11. ASSUME NEW u \in Tasks, u # t, CreateOrder(u) PROVE actor'[t] = actor[t]
  BY <1>1, <1>11 DEF CreateOrder
<1>12. ASSUME NEW m \in inbox, Handle(m) PROVE actor'[t] = actor[t]
  <2>1. PICK pc, messages : Begin(m, pc, messages)
    BY <1>12, HandleLeaves
  <2> QED
    BY <1>1, <2>1 DEF Begin
<1>13. CASE \/ \E u \in Tasks : DeadlinePasses(u)
            \/ \E m \in inbox : HandlerRaises(m)
            \/ \E m \in deadLetters :
                 HandleDeadLetter(m) \/ HandleDeadLetterUnacknowledged(m) \/ DeadLetterLost(m)
            \/ \E m \in requests : RequestAnswered(m) \/ RequestDeadLettered(m)
            \/ \E m \in replies : AnswerSentAgain(m) \/ AnsweredRequestDeadLettered(m)
            \/ UNCHANGED vars
  <2>1. actor'[t] = actor[t]
    BY <1>13
       DEF DeadlinePasses, HandlerRaises, HandleDeadLetter, HandleDeadLetterUnacknowledged,
           DeadLetterLost, RequestAnswered, RequestDeadLettered, AnswerSentAgain,
           AnsweredRequestDeadLettered, vars
  <2> QED
    BY <1>9, <2>1
<1>14. CASE WorkerCrash \/ ApiCrash
  <2>1. actor'[t] = actor[t] \/ actor'[t] = Finished
    BY <1>1, <1>14 DEF WorkerCrash, ApiCrash
  <2> QED
    BY <1>3, <1>9, <2>1
<1> QED
  <2>1. CASE \E a \in Actors : a # t /\ (Act(a) \/ Raises(a))
    BY <1>9, <1>10, <2>1
  <2>2. CASE \E u \in Tasks : CreateOrder(u)
    BY <1>8, <1>9, <1>11, <2>2
  <2>3. CASE \E m \in inbox : Handle(m)
    BY <1>9, <1>12, <2>3
  <2>4. CASE Act(t) \/ ApiRaises(t)
    BY <1>4, <1>5, <1>6, <1>7, <2>4 DEF Act, ExecuteDecision
  <2> QED
    BY <1>1, <1>13, <1>14, <2>1, <2>2, <2>3, <2>4
       DEF Next, WorkerStep, Disturbance, WorkerRaises, ApiRaises, Actors

(* As long as it is at it, nothing about the task is on its way and the    *)
(* worker is at another one.                                               *)
LEMMA FirstAloneStep ==
  ASSUME TypeOK, Exclusive, EffectsFresh, FirstAlone, [Next]_vars
  PROVE  FirstAlone'
<1>1. SUFFICES ASSUME NEW t \in Tasks, Unsent(t)'
               PROVE  /\ \A m \in Published' : m.task # t
                      /\ InRequest(Worker)' => actor'[Worker].task # t
  BY DEF FirstAlone
<1>2. CASE Unsent(t) /\ ~SendNext(t)
  <2>1. /\ \A m \in Published : m.task # t
        /\ InRequest(Worker) => actor[Worker].task # t
    BY <1>2 DEF FirstAlone
  <2>2. AboutKnown
    BY StepKnown
  <2> QED
    BY <1>2, <2>1, <2>2 DEF AboutKnown
<1>3. CASE At(t, "execute") /\ Published' = Published /\ actor'[Worker] = actor[Worker]
  <2>1. /\ \A m \in Published : m.task # t
        /\ InRequest(Worker) => actor[Worker].task # t
    BY <1>3 DEF Exclusive, AloneAtFirst, Published
  <2>2. InRequest(Worker)' <=> InRequest(Worker)
    BY <1>3 DEF InRequest, At
  <2> QED
    BY <1>3, <2>1, <2>2
<1> QED
  BY <1>1, <1>2, <1>3, UnsentSince

(* Whoever has messages left has committed its transaction.                *)
Held == \A a \in Actors : actor[a].effects = <<>> \/ At(a, "effects")

(* Messages are only left to be sent in that phase of a handler.           *)
LEMMA HeldStep ==
  ASSUME TypeOK, Held, [Next]_vars
  PROVE  Held'
<1>1. /\ actor \in [Actors -> ActorState] /\ Worker \in Actors
      /\ \A a \in Actors : actor[a] \in ActorState
  BY DEF TypeOK, ActorType, Actors
<1>2. ASSUME NEW a \in Actors, NEW r, actor' = [actor EXCEPT ![a] = r],
             r.effects = <<>> \/ r.pc = "effects"
      PROVE  Held'
  BY <1>1, <1>2 DEF Held, At
<1>3. Free.effects = <<>> /\ Finished.effects = <<>>
  BY DEF Free, Finished
<1>4. ASSUME NEW a \in Actors, Act(a) \/ Raises(a) PROVE Held'
  <2>1. CASE TakeDecision(a)
    <3>1. PICK d : actor' = [actor EXCEPT ![a].pc = "execute", ![a].decision = d]
      BY <2>1 DEF TakeDecision
    <3>2. actor[a].effects = <<>>
      BY <2>1 DEF Held, TakeDecision, At
    <3> DEFINE r == [actor[a] EXCEPT !.pc = "execute", !.decision = d]
    <3>3. actor' = [actor EXCEPT ![a] = r] /\ r.effects = actor[a].effects
      BY <1>1, <3>1 DEF ActorState
    <3> HIDE DEF r
    <3> QED
      BY <1>2, <3>2, <3>3
  <2>2. CASE ExecuteDecision(a) /\ ~ExecuteRaises(a)
    <3>1. PICK messages : ThenSend(a, messages)
      BY <2>2, ExecuteLeaves
    <3> DEFINE r == [actor[a] EXCEPT !.pc = "effects", !.decision = NoDecision,
                                     !.effects = messages]
    <3>2. actor' = [actor EXCEPT ![a] = r] /\ r.pc = "effects"
      BY <1>1, <3>1 DEF ThenSend, ActorState
    <3> HIDE DEF r
    <3> QED
      BY <1>2, <3>2
  <2>3. CASE SendNext(a)
    <3> DEFINE r == [actor[a] EXCEPT !.effects = Tail(@)]
    <3>1. actor' = [actor EXCEPT ![a] = r] /\ r.pc = "effects"
      BY <1>1, <2>3 DEF SendNext, At, ActorState
    <3> HIDE DEF r
    <3> QED
      BY <1>2, <3>1
  <2>4. CASE Return(a) \/ ExecuteRaises(a) \/ Raises(a)
    <3>1. PICK r \in {Free, Finished} : actor' = [actor EXCEPT ![a] = r]
      BY <2>4 DEF Return, ExecuteRaises, Raises, Reject
    <3> QED
      BY <1>2, <1>3, <3>1
  <2> QED
    BY <1>4, <2>1, <2>2, <2>3, <2>4 DEF Act, ExecuteDecision
<1>5. ASSUME NEW t \in Tasks, CreateOrder(t) PROVE Held'
  <2> DEFINE r == [Free EXCEPT !.pc = "build", !.task = t]
  <2>1. actor' = [actor EXCEPT ![t] = r] /\ r.effects = <<>> /\ t \in Actors
    BY <1>5 DEF CreateOrder, Free, Actors
  <2> HIDE DEF r
  <2> QED
    BY <1>2, <2>1
<1>6. ASSUME NEW m \in inbox, Handle(m) PROVE Held'
  <2>1. PICK pc, messages : Begin(m, pc, messages) /\ (pc = "effects" \/ messages = <<>>)
    BY <1>6 DEF Handle, HandleRepeated, HandleSucceeded, HandleFailed, HandleTimeout,
                HandleReevaluate, HandleDispatch, HandleStale
  <2> QED
    BY <1>1, <1>2, <2>1 DEF Begin
<1>7. CASE WorkerCrash \/ ApiCrash
  BY <1>1, <1>3, <1>7 DEF WorkerCrash, ApiCrash, Held, At
<1>8. CASE UNCHANGED actor
  BY <1>8 DEF Held, At
<1>9. CASE \/ \E t \in Tasks : DeadlinePasses(t)
           \/ \E m \in inbox : HandlerRaises(m)
           \/ \E m \in deadLetters :
                HandleDeadLetter(m) \/ HandleDeadLetterUnacknowledged(m) \/ DeadLetterLost(m)
           \/ \E m \in requests : RequestAnswered(m) \/ RequestDeadLettered(m)
           \/ \E m \in replies : AnswerSentAgain(m) \/ AnsweredRequestDeadLettered(m)
           \/ UNCHANGED vars
  <2>1. UNCHANGED actor
    BY <1>9
       DEF DeadlinePasses, HandlerRaises, HandleDeadLetter, HandleDeadLetterUnacknowledged,
           DeadLetterLost, RequestAnswered, RequestDeadLettered, AnswerSentAgain,
           AnsweredRequestDeadLettered, vars
  <2> QED
    BY <1>8, <2>1
<1> QED
  BY <1>1, <1>4, <1>5, <1>6, <1>7, <1>9
     DEF Next, WorkerStep, Disturbance, WorkerRaises, ApiRaises, Actors

-----------------------------------------------------------------------------
(* What the rows of a trajectory tell.                                     *)

(* How a row of a request, of the end of a task or of a dead letter comes  *)
(* to be written.                                                          *)
RowTells(t, e) ==
  \/ e.type \notin {"REQUESTED", "TASK_COMPLETED", "MESSAGE_DEAD_LETTERED"}
  \/ e.type = "REQUESTED" /\ e.target = task'[t].target
  \/ e.type = "TASK_COMPLETED" /\ \E m \in inbox : m.task = t /\ HandleSucceeded(m)
  \/ e.type = "MESSAGE_DEAD_LETTERED" /\ \E m \in deadLetters : m.task = t /\ RecordDeadLetter(m)

NewRows ==
  \A t \in Tasks : \A i \in DOMAIN events'[t] : i \in DOMAIN events[t] \/ RowTells(t, events'[t][i])

(* A transaction that writes one row.                                      *)
LEMMA OneRowTells ==
  ASSUME DatabaseType, NEW t \in Tasks, NEW row, NEW x, Write(t, row, <<x>>), RowTells(t, x)
  PROVE  NewRows
BY TransactionWritten DEF NewRows

(* A transaction of two rows.                                              *)
LEMMA TwoRowsTell ==
  ASSUME DatabaseType, NEW t \in Tasks, NEW row, NEW x, NEW y,
         Write(t, row, <<x, y>>), RowTells(t, x), RowTells(t, y)
  PROVE  NewRows
<1>1. \A u \in Tasks : \A i \in DOMAIN events'[u] :
        i \in DOMAIN events[u] \/ (u = t /\ events'[u][i] \in {x, y})
  <2> DEFINE rows == <<x, y>>
  <2>1. rows = <<x, y>> /\ events' = [events EXCEPT ![t] = @ \o rows]
    BY DEF Write
  <2> HIDE DEF rows
  <2>2. \A u \in Tasks : \A i \in DOMAIN events'[u] :
          i \in DOMAIN events[u] \/ (u = t /\ (events'[u][i] = x \/ events'[u][i] = y))
    BY <2>1, RowsWritten
  <2> QED
    BY <2>2
<1> QED
  BY <1>1 DEF NewRows

(* Rows that tell nothing, and the row of a request.                       *)
Plain == {"TASK_CREATED", "INVENTORY_TIMEOUT", "RETRY_SCHEDULED", "WAIT_SCHEDULED",
          "WAIT_FINISHED", "TASK_ABORTED"}

(* None of these rows tells of a request, a success or a dead letter.      *)
LEMMA PlainTells ==
  ASSUME DatabaseType, NEW t \in Tasks, NEW row, NEW ref, NEW type \in Plain,
         Write(t, row, <<OwnEvent(type, ref, row)>>)
  PROVE  NewRows
<1> DEFINE x == OwnEvent(type, ref, row)
<1>1. RowTells(t, x)
  BY DEF RowTells, OwnEvent, Plain
<1> HIDE DEF x
<1>2. Write(t, row, <<x>>)
  BY DEF x
<1> QED
  BY <1>1, <1>2, OneRowTells

(* A request, with or without the scheduling of the fallback before it.    *)
LEMMA RequestTells ==
  ASSUME DatabaseType, NEW t \in Tasks, NEW row,
         \/ Write(t, row, <<RequestEvent(row)>>)
         \/ \E scheduled :
              Write(t, row, <<OwnEvent("FALLBACK_SCHEDULED", 0, scheduled), RequestEvent(row)>>)
  PROVE  NewRows
<1> DEFINE y == RequestEvent(row)
<1>1. task'[t] = row
  BY DEF Write, DatabaseType
<1>2. RowTells(t, y)
  BY <1>1 DEF RequestEvent, OwnEvent, RowTells
<1>3. CASE Write(t, row, <<RequestEvent(row)>>)
  <2> HIDE DEF y
  <2>1. Write(t, row, <<y>>)
    BY <1>3 DEF y
  <2> QED
    BY <1>2, <2>1, OneRowTells
<1>4. ASSUME NEW scheduled,
             Write(t, row, <<OwnEvent("FALLBACK_SCHEDULED", 0, scheduled), RequestEvent(row)>>)
      PROVE  NewRows
  <2> DEFINE x == OwnEvent("FALLBACK_SCHEDULED", 0, scheduled)
  <2>1. RowTells(t, x)
    BY DEF RowTells, OwnEvent
  <2> HIDE DEF x, y
  <2>2. Write(t, row, <<x, y>>)
    BY <1>4 DEF x, y
  <2> QED
    BY <1>2, <2>1, <2>2, TwoRowsTell
<1> QED
  BY <1>3, <1>4

(* Every step.                                                             *)
LEMMA NewRowsTell ==
  ASSUME TypeOK, [Next]_vars
  PROVE  NewRows
<1>1. DatabaseType /\ \A m \in inbox \cup deadLetters : m.task \in Tasks
  BY DEF TypeOK, BrokerType, Message
<1>2. {"TASK_CREATED", "INVENTORY_TIMEOUT", "RETRY_SCHEDULED", "WAIT_SCHEDULED",
       "WAIT_FINISHED", "TASK_ABORTED"} \subseteq Plain
  BY DEF Plain
<1>5. ASSUME events' = events PROVE NewRows
  BY <1>5 DEF NewRows
<1>6. ASSUME NEW t \in Tasks, CreateOrder(t) PROVE NewRows
  BY <1>1, <1>2, <1>6, PlainTells DEF CreateOrder
<1>7. ASSUME NEW a \in Actors, Act(a) PROVE NewRows
  <2>1. At(a, "execute") => actor[a].task \in Tasks
    BY DEF TypeOK, ActorType, InRequest, At
  <2>2. CASE TakeDecision(a) \/ ExecuteRaises(a) \/ SendNext(a) \/ Return(a)
    BY <1>5, <2>2 DEF TakeDecision, ExecuteRaises, SendNext, Return, database
  <2>3. CASE ExecuteContinue(a)
    BY <1>1, <2>1, <2>3, RequestTells DEF ExecuteContinue, Executing
  <2>4. CASE ExecuteRetry(a)
    BY <1>1, <1>2, <2>1, <2>4, PlainTells DEF ExecuteRetry, Executing
  <2>5. CASE ExecuteWait(a)
    BY <1>1, <1>2, <2>1, <2>5, PlainTells DEF ExecuteWait, Executing
  <2>6. CASE ExecuteFallback(a)
    BY <1>1, <2>1, <2>6, RequestTells DEF ExecuteFallback, Executing
  <2>7. CASE ExecuteAbort(a)
    BY <1>1, <1>2, <1>5, <2>1, <2>7, PlainTells DEF ExecuteAbort, Executing
  <2> QED
    BY <1>7, <2>2, <2>3, <2>4, <2>5, <2>6, <2>7 DEF Act, ExecuteDecision
<1>8. ASSUME NEW m \in inbox, Handle(m) PROVE NewRows
  <2>1. CASE HandleStale(m)
    BY <1>5, <2>1 DEF HandleStale, database
  <2>2. CASE HandleTimeout(m)
    BY <1>1, <1>2, <2>2, PlainTells DEF HandleTimeout
  <2>3. CASE HandleReevaluate(m)
    BY <1>1, <1>2, <2>3, PlainTells DEF HandleReevaluate
  <2>4. CASE HandleDispatch(m)
    BY <1>1, <2>4, RequestTells DEF HandleDispatch
  <2>5. \A seq, redelivered : m.kind \in Reported => RowTells(m.task, ReplyEvent(m, seq, redelivered))
    BY DEF ReplyEvent, RowTells, Reported
  <2>6. CASE HandleSucceeded(m)
    <3>1. PICK row, seq, last :
            \/ Write(m.task, row, <<ReplyEvent(m, seq, m.redelivered)>>)
            \/ Write(m.task, row, <<ReplyEvent(m, seq, m.redelivered),
                                    OwnEvent("TASK_COMPLETED", 0, last)>>)
      BY <2>6 DEF HandleSucceeded
    <3> DEFINE x == ReplyEvent(m, seq, m.redelivered)
               y == OwnEvent("TASK_COMPLETED", 0, last)
    <3>2. RowTells(m.task, x)
      BY <2>5, <2>6 DEF HandleSucceeded, Reported
    <3>3. RowTells(m.task, y)
      BY <2>6 DEF OwnEvent, RowTells
    <3> HIDE DEF x, y
    <3>4. Write(m.task, row, <<x>>) \/ Write(m.task, row, <<x, y>>)
      BY <3>1 DEF x, y
    <3> QED
      BY <1>1, <3>2, <3>3, <3>4, OneRowTells, TwoRowsTell
  <2>7. CASE HandleFailed(m)
    <3>1. PICK row : Write(m.task, row, <<ReplyEvent(m, row.seq, m.redelivered)>>)
      BY <2>7 DEF HandleFailed
    <3> DEFINE x == ReplyEvent(m, row.seq, m.redelivered)
    <3>2. RowTells(m.task, x)
      BY <2>5, <2>7 DEF HandleFailed, Reported
    <3> HIDE DEF x
    <3>3. Write(m.task, row, <<x>>)
      BY <3>1 DEF x
    <3> QED
      BY <1>1, <3>2, <3>3, OneRowTells
  <2>8. CASE HandleRepeated(m)
    <3> DEFINE s == events[m.task]
               found == \E i \in DOMAIN s : IsFirstRowOf(m.task, i, m)
               e == ReplyEvent(m, s[CHOOSE i \in DOMAIN s : IsFirstRowOf(m.task, i, m)].seq,
                               TRUE)
    <3>1. events' = [events EXCEPT ![m.task] = @ \o IF found THEN <<e>> ELSE <<>>] /\ task' = task
      BY <1>1, <2>8 DEF HandleRepeated, DatabaseType
    <3>2. RowTells(m.task, e)
      BY <2>5, <2>8 DEF HandleRepeated, IsReply
    <3> HIDE DEF e
    <3>3. CASE found
      <4>1. task' = [task EXCEPT ![m.task] = task[m.task]]
        BY <1>1, <3>1 DEF DatabaseType
      <4>2. Write(m.task, task[m.task], <<e>>)
        BY <3>1, <3>3, <4>1 DEF Write
      <4> QED
        BY <1>1, <3>2, <4>2, OneRowTells
    <3>4. CASE ~found
      <4>1. s \in Seq(EventRow) /\ events' = [events EXCEPT ![m.task] = @ \o <<>>]
        BY <1>1, <3>1, <3>4 DEF DatabaseType
      <4>2. s \o <<>> = s
        BY <4>1
      <4> QED
        BY <1>1, <1>5, <4>1, <4>2 DEF DatabaseType
    <3> QED
      BY <3>3, <3>4
  <2> QED
    BY <1>8, <2>1, <2>2, <2>3, <2>4, <2>6, <2>7, <2>8 DEF Handle
<1>9. ASSUME NEW m \in deadLetters,
             HandleDeadLetter(m) \/ HandleDeadLetterUnacknowledged(m) \/ DeadLetterLost(m)
      PROVE  NewRows
  <2>1. CASE RecordDeadLetter(m)
    <3>1. PICK row : Write(m.task, row, <<OwnEvent("MESSAGE_DEAD_LETTERED", 0, row)>>)
      BY <2>1 DEF RecordDeadLetter
    <3> DEFINE x == OwnEvent("MESSAGE_DEAD_LETTERED", 0, row)
    <3>2. RowTells(m.task, x)
      BY <2>1 DEF OwnEvent, RowTells
    <3> HIDE DEF x
    <3>3. Write(m.task, row, <<x>>)
      BY <3>1 DEF x
    <3> QED
      BY <1>1, <3>2, <3>3, OneRowTells
  <2> QED
    BY <1>5, <1>9, <2>1
    DEF HandleDeadLetter, HandleDeadLetterUnacknowledged, DeadLetterLost, database
<1>10. CASE \/ WorkerRaises \/ \E t \in Tasks : ApiRaises(t)
            \/ \E m \in inbox : HandlerRaises(m)
            \/ WorkerCrash \/ ApiCrash
  BY <1>5, <1>10
  DEF WorkerRaises, ApiRaises, Raises, HandlerRaises, WorkerCrash, ApiCrash, database
<1>11. CASE \/ \E t \in Tasks : DeadlinePasses(t)
            \/ \E m \in requests : RequestAnswered(m) \/ RequestDeadLettered(m)
            \/ \E m \in replies : AnswerSentAgain(m) \/ AnsweredRequestDeadLettered(m)
            \/ UNCHANGED vars
  BY <1>5, <1>11 DEF DeadlinePasses, RequestAnswered, RequestDeadLettered,
     AnswerSentAgain, AnsweredRequestDeadLettered, database, vars
<1> QED
  BY <1>6, <1>7, <1>8, <1>9, <1>10, <1>11 DEF Next, WorkerStep, Disturbance, Actors

(* A dead letter takes an exception: without one tasks.dlq is empty, no    *)
(* task ended in it, and no answer is lost.                                *)
Undisturbed ==
  failures = 0 =>
    /\ deadLetters = {} /\ NoAnswerLost
    /\ \A t \in Tasks : Rows(t, "MESSAGE_DEAD_LETTERED") = {}

(* What is rejected without an exception counted is the message of a       *)
(* decision that no longer applies.                                        *)
LEMMA FailuresCounted ==
  ASSUME TypeOK, [Next]_vars
  PROVE  failures' = 0 =>
           failures = 0 /\ (deadLetters' \subseteq deadLetters \/ ExecuteRaises(Worker))
<1> DEFINE Claim == failures' = 0 =>
                      failures = 0 /\ (deadLetters' \subseteq deadLetters \/ ExecuteRaises(Worker))
<1>1. failures \in Nat
  BY DEF TypeOK, BoundsType
<1>2. failures' = failures + 1 => Claim
  BY <1>1
<1>3. failures' = failures /\ deadLetters' \subseteq deadLetters => Claim
  OBVIOUS
<1> HIDE DEF Claim
<1>4. ASSUME NEW a \in Actors, Act(a) PROVE Claim
  <2>1. failures' = failures /\ (deadLetters' = deadLetters \/ ExecuteRaises(a))
    BY <1>4 DEF Act, TakeDecision, ExecuteDecision, ExecuteContinue, ExecuteRetry, ExecuteWait,
       ExecuteFallback, ExecuteAbort, ExecuteRaises, SendNext, Return, broker, bounds
  <2>2. ExecuteRaises(a) /\ a # Worker => deadLetters' = deadLetters
    BY DEF ExecuteRaises, Reject
  <2> QED
    BY <1>3, <2>1, <2>2 DEF Claim
<1>5. ASSUME NEW m \in inbox, Handle(m) PROVE Claim
  BY <1>3, <1>5 DEF Handle, HandleRepeated, HandleSucceeded, HandleFailed, HandleTimeout,
     HandleReevaluate, HandleDispatch, HandleStale, bounds
<1>6. ASSUME \/ \E m \in inbox : HandlerRaises(m)
             \/ WorkerRaises
             \/ \E m \in requests : RequestDeadLettered(m)
             \/ \E m \in replies : AnsweredRequestDeadLettered(m)
      PROVE  Claim
  BY <1>2, <1>6 DEF HandlerRaises, WorkerRaises, RequestDeadLettered, AnsweredRequestDeadLettered
<1>7. ASSUME NEW t \in Tasks, ApiRaises(t) PROVE Claim
  <2>1. t # Worker
    BY ActorsAssumption
  <2> QED
    BY <1>3, <1>7, <2>1 DEF ApiRaises, Raises, Reject
<1>8. ASSUME NEW m \in deadLetters,
             HandleDeadLetter(m) \/ HandleDeadLetterUnacknowledged(m) \/ DeadLetterLost(m)
      PROVE  Claim
  BY <1>3, <1>8
  DEF HandleDeadLetter, HandleDeadLetterUnacknowledged, DeadLetterLost, broker, bounds
<1>9. ASSUME \/ \E t \in Tasks : CreateOrder(t) \/ DeadlinePasses(t)
             \/ \E m \in requests : RequestAnswered(m)
             \/ \E m \in replies : AnswerSentAgain(m)
             \/ WorkerCrash \/ ApiCrash \/ UNCHANGED vars
      PROVE  Claim
  BY <1>3, <1>9 DEF CreateOrder, DeadlinePasses, RequestAnswered, AnswerSentAgain, WorkerCrash,
     ApiCrash, broker, bounds, vars
<1> QED
  BY <1>4, <1>5, <1>6, <1>7, <1>8, <1>9 DEF Next, WorkerStep, Disturbance, Actors, Claim

(* Every step.                                                             *)
LEMMA UndisturbedStep ==
  ASSUME Safe, Recorded, Answered, Undisturbed, [Next]_vars
  PROVE  Undisturbed'
<1>1. /\ TypeOK /\ Trajectories /\ OneAnswer /\ EffectsFresh /\ Handled
      /\ RaisesOnlyIfDeadLettered
  BY RaisesExplained DEF Safe, Recorded, Answered
<1>2. SUFFICES ASSUME failures' = 0
               PROVE  /\ deadLetters' = {} /\ NoAnswerLost'
                      /\ \A t \in Tasks : Rows(t, "MESSAGE_DEAD_LETTERED")' = {}
  BY DEF Undisturbed
<1>3. /\ failures = 0 /\ deadLetters = {} /\ NoAnswerLost
      /\ \A t \in Tasks : Rows(t, "MESSAGE_DEAD_LETTERED") = {}
  BY <1>1, <1>2, FailuresCounted DEF Undisturbed
<1>4. ~ExecuteRaises(Worker)
  <2> SUFFICES ASSUME ExecuteRaises(Worker) PROVE FALSE
    OBVIOUS
  <2> DEFINE t == actor[Worker].task
  <2>1. At(Worker, "execute") /\ ~Applicable(t, actor[Worker].decision) /\ Worker \in Actors
    BY DEF ExecuteRaises, Actors
  <2>2. t \in Tasks /\ task[t].status = "DEAD_LETTERED"
    BY <1>1, <2>1 DEF RaisesOnlyIfDeadLettered, TypeOK, ActorType, InRequest, At
  <2>3. StatusTold(events[t], task[t])
    <3>1. Story(events[t], task[t], Answers(t, processed))
      BY <1>1, <2>2, StoryOf
    <3>2. task[t].status # "ABSENT"
      BY <2>2
    <3> QED
      BY <3>1, <3>2 DEF Story
  <2> HIDE DEF t
  <2>4. PICK i \in DOMAIN events[t] :
          \/ task[t].status \in StatusAfter[events[t][i].type] /\ events[t][i].type \in DOMAIN StatusAfter
          \/ \E j \in Of(events[t], "MESSAGE_DEAD_LETTERED") : j > i
    BY <2>3 DEF StatusTold
  <2>5. \A type \in DOMAIN StatusAfter : "DEAD_LETTERED" \notin StatusAfter[type]
    BY DEF StatusAfter
  <2>6. \E j \in DOMAIN events[t] : events[t][j].type = "MESSAGE_DEAD_LETTERED"
    BY <2>2, <2>4, <2>5 DEF Of
  <2> QED
    BY <1>3, <2>2, <2>6 DEF Rows
<1>5. deadLetters' = {}
  BY <1>1, <1>2, <1>3, <1>4, FailuresCounted
<1>6. ASSUME NEW t \in Tasks, NEW i \in DOMAIN events'[t],
             events'[t][i].type = "MESSAGE_DEAD_LETTERED"
      PROVE  FALSE
  <2>1. CASE i \in DOMAIN events[t]
    <3>1. events'[t][i] = events[t][i]
      BY <1>1, <2>1, RowsStay
    <3> QED
      BY <1>3, <1>6, <2>1, <3>1 DEF Rows
  <2>2. CASE i \notin DOMAIN events[t]
    <3>1. RowTells(t, events'[t][i])
      BY <1>1, <2>2, NewRowsTell DEF NewRows
    <3>2. PICK m \in deadLetters : TRUE
      BY <1>6, <3>1 DEF RowTells
    <3> QED
      BY <1>3, <3>2
  <2> QED
    BY <2>1, <2>2
<1>7. ASSUME NEW m \in replies' PROVE Kept(m)'
  <2>1. CASE m \in replies
    <3>1. Kept(m)
      BY <1>3, <2>1 DEF NoAnswerLost, Kept
    <3> QED
      BY <1>1, <1>3, <2>1, <3>1, KeptStep
  <2>2. CASE m \notin replies
    <3>1. m \in inbox'
      BY <1>7, <2>2, QueuesMove DEF SendNext, RequestAnswered
    <3> QED
      BY <3>1 DEF Kept, SameAnswer
  <2> QED
    BY <2>1, <2>2
<1>8. NoAnswerLost'
  BY <1>7 DEF NoAnswerLost, Kept
<1>9. \A t \in Tasks : Rows(t, "MESSAGE_DEAD_LETTERED")' = {}
  BY <1>6 DEF Rows
<1> QED
  BY <1>5, <1>8, <1>9

(* Requests are only made on a route.                                      *)
Routed ==
  \A t \in Tasks : \A i \in Rows(t, "REQUESTED") : events[t][i].target \in {Primary, Fallback}

(* A request is recorded with the route of its task, never without one.    *)
LEMMA RoutedRowsStep ==
  ASSUME TypeOK, Trajectories', Routed, [Next]_vars
  PROVE  Routed'
<1>1. SUFFICES ASSUME NEW t \in Tasks, NEW i \in DOMAIN events'[t],
                      events'[t][i].type = "REQUESTED"
               PROVE  events'[t][i].target \in {Primary, Fallback}
  BY DEF Routed, Rows
<1>2. CASE i \in DOMAIN events[t]
  BY <1>1, <1>2, RowsStay DEF Routed, Rows
<1>3. CASE i \notin DOMAIN events[t]
  <2>1. events'[t][i].target = task'[t].target
    BY <1>1, <1>3, NewRowsTell DEF NewRows, RowTells
  <2>2. Counted(events[t], task[t])'
    BY DEF Trajectories, Story, Consistent
  <2>3. i \in Of(events[t], "REQUESTED")'
    BY <1>1 DEF Of
  <2>4. task'[t].target = IF task'[t].fallbackUsed THEN Fallback
                          ELSE IF Of(events[t], "REQUESTED")' # {} THEN Primary ELSE None
    BY <2>2 DEF Counted
  <2> QED
    BY <2>1, <2>3, <2>4
<1> QED
  BY <1>2, <1>3

(* How a task ends: it completes with a success in its trajectory, a dead  *)
(* letter ends it, and a success recorded of a task that failed came after *)
(* what ended it.                                                          *)
EndedBefore(t, i) ==
  \E j \in Rows(t, "TASK_ABORTED") \cup Rows(t, "MESSAGE_DEAD_LETTERED") : j < i

Endings ==
  \A t \in Tasks :
    /\ Rows(t, "TASK_COMPLETED") # {} => Rows(t, "SUCCEEDED") # {}
    /\ Rows(t, "MESSAGE_DEAD_LETTERED") # {} => Terminal(t)
    /\ \A i \in Rows(t, "SUCCEEDED") :
         order[t] = "COMPLETED" \/ (order[t] = "FAILED" /\ EndedBefore(t, i))

(* Which statuses an ended order stands for.                               *)
LEMMA EndedOrder ==
  ASSUME TypeOK, OrderMirrorsTask, NEW t \in Tasks
  PROVE  /\ Terminal(t) <=> order[t] \in {"COMPLETED", "FAILED"}
         /\ order[t] = "COMPLETED" <=> task[t].status = "COMPLETED"
         /\ order[t] = "FAILED" <=> task[t].status \in {"ABORTED", "DEAD_LETTERED"}
<1>1. /\ order[t] = IF Created(t) THEN OrderStatusFor(task[t].status) ELSE "ABSENT"
      /\ task[t].status \in TaskStatuses \cup {"ABSENT"}
  BY DEF OrderMirrorsTask, TypeOK, DatabaseType, TaskRow
<1> QED
  BY <1>1 DEF Created, OrderStatusFor, Terminal, TerminalStatuses

(* A failed task has the row that says why.                                *)
LEMMA FailedRow ==
  ASSUME TypeOK, Trajectories, NEW t \in Tasks, task[t].status \in {"ABORTED", "DEAD_LETTERED"}
  PROVE  \E j \in DOMAIN events[t] : events[t][j].type \in {"TASK_ABORTED", "MESSAGE_DEAD_LETTERED"}
<1>1. StatusTold(events[t], task[t])
  BY DEF Trajectories, Story
<1>2. PICK i \in DOMAIN events[t] :
        /\ events[t][i].type \in DOMAIN StatusAfter
        /\ \/ task[t].status \in StatusAfter[events[t][i].type]
           \/ /\ task[t].status = "DEAD_LETTERED"
              /\ \E j \in Of(events[t], "MESSAGE_DEAD_LETTERED") : j > i
  BY <1>1 DEF StatusTold
<1>3. \A type \in DOMAIN StatusAfter :
        task[t].status \in StatusAfter[type] => type = "TASK_ABORTED"
  BY DEF StatusAfter
<1> QED
  BY <1>2, <1>3 DEF Of

(* Every step.                                                             *)
LEMMA EndingsStep ==
  ASSUME Safe, Recorded, Answered, Endings, [Next]_vars
  PROVE  Endings'
<1>1. /\ TypeOK /\ Coordinated /\ OrderMirrorsTask /\ Trajectories
      /\ OneAnswer /\ Heard /\ Handled
  BY SoundRows DEF Safe, Recorded, Answered
<1>2. TypeOK' /\ OrderMirrorsTask'
  <2>1. (TypeOK /\ AllSound => OrderMirrorsTask)'
    BY SoundRows, PTL
  <2> QED
    BY <2>1, SafeStep DEF Safe
<1>3. SUFFICES ASSUME NEW t \in Tasks
               PROVE  /\ Rows(t, "TASK_COMPLETED")' # {} => Rows(t, "SUCCEEDED")' # {}
                      /\ Rows(t, "MESSAGE_DEAD_LETTERED")' # {} => Terminal(t)'
                      /\ \A i \in Rows(t, "SUCCEEDED")' :
                           \/ order'[t] = "COMPLETED"
                           \/ order'[t] = "FAILED" /\ EndedBefore(t, i)'
  BY DEF Endings
<1>4. \A i \in DOMAIN events[t] : i \in DOMAIN events'[t] /\ events'[t][i] = events[t][i]
  BY <1>1, RowsStay
<1>5. \A type : Rows(t, type) \subseteq Rows(t, type)'
  BY <1>4 DEF Rows
<1>6. Terminal(t) => Terminal(t)' /\ order'[t] = order[t]
  <2>1. task[t] \in TaskRow
    BY <1>1 DEF TypeOK, DatabaseType
  <2>2. Terminal(t) => task'[t].status = task[t].status /\ order'[t] = order[t]
    BY <1>1, <2>1, EndedStep DEF TaskRow
  <2> QED
    BY <2>2 DEF Terminal
<1>7. ASSUME NEW i \in DOMAIN events'[t], i \notin DOMAIN events[t], NEW j \in DOMAIN events[t]
      PROVE  j < i
  <2>1. events[t] \in Seq(EventRow) /\ events'[t] \in Seq(EventRow)
    BY <1>1, <1>2 DEF TypeOK, DatabaseType
  <2> QED
    BY <1>7, <2>1
<1>8. ASSUME NEW i \in Rows(t, "TASK_COMPLETED")' PROVE Rows(t, "SUCCEEDED")' # {}
  <2>1. CASE i \in DOMAIN events[t]
    <3>1. i \in Rows(t, "TASK_COMPLETED")
      BY <1>4, <1>8, <2>1 DEF Rows
    <3> QED
      BY <1>5, <3>1 DEF Endings
  <2>2. CASE i \notin DOMAIN events[t]
    <3>1. i \in DOMAIN events'[t] /\ events'[t][i].type = "TASK_COMPLETED"
      BY <1>8 DEF Rows
    <3>2. RowTells(t, events'[t][i])
      BY <1>1, <2>2, <3>1, NewRowsTell DEF NewRows
    <3>3. PICK m \in inbox : m.task = t /\ HandleSucceeded(m)
      BY <3>1, <3>2 DEF RowTells
    <3>4. RecordedNow(m) /\ m.kind = "SUCCEEDED"
      BY <1>1, <3>3, NewReported DEF HandleSucceeded
    <3> QED
      BY <3>3, <3>4 DEF RecordedNow, Rows
  <2> QED
    BY <2>1, <2>2
<1>9. ASSUME NEW i \in Rows(t, "MESSAGE_DEAD_LETTERED")' PROVE Terminal(t)'
  <2>1. CASE i \in DOMAIN events[t]
    <3>1. i \in Rows(t, "MESSAGE_DEAD_LETTERED")
      BY <1>4, <1>9, <2>1 DEF Rows
    <3> QED
      BY <1>6, <3>1 DEF Endings
  <2>2. CASE i \notin DOMAIN events[t]
    <3>1. i \in DOMAIN events'[t] /\ events'[t][i].type = "MESSAGE_DEAD_LETTERED"
      BY <1>9 DEF Rows
    <3>2. RowTells(t, events'[t][i])
      BY <1>1, <2>2, <3>1, NewRowsTell DEF NewRows
    <3>3. PICK m \in deadLetters : m.task = t /\ RecordDeadLetter(m)
      BY <3>1, <3>2 DEF RowTells
    <3>4. ~Terminal(t) => task'[t].status = "DEAD_LETTERED"
      <4>1. task[t] \in TaskRow /\ t \in DOMAIN task
        BY <1>1 DEF TypeOK, DatabaseType
      <4> DEFINE dead == [task[t] EXCEPT !.status = "DEAD_LETTERED"]
      <4>2. dead.status = "DEAD_LETTERED" /\ dead \in TaskRow
        BY <4>1, StatusChanged DEF TaskStatuses, TerminalStatuses
      <4>3. ~Terminal(t) => task'[t] = Numbered(dead)
        BY <3>3, <4>1 DEF RecordDeadLetter, Write
      <4> HIDE DEF dead
      <4> QED
        BY <4>2, <4>3, NumberedKeeps
    <3> QED
      BY <1>6, <3>4 DEF Terminal, TerminalStatuses
  <2> QED
    BY <2>1, <2>2
<1>10. ASSUME NEW i \in Rows(t, "SUCCEEDED")
       PROVE  order'[t] = "COMPLETED" \/ (order'[t] = "FAILED" /\ EndedBefore(t, i)')
  <2>1. order[t] = "COMPLETED" \/ (order[t] = "FAILED" /\ EndedBefore(t, i))
    BY <1>10 DEF Endings
  <2>2. Terminal(t)
    BY <1>1, <2>1, EndedOrder
  <2>3. EndedBefore(t, i) => EndedBefore(t, i)'
    BY <1>5 DEF EndedBefore
  <2> QED
    BY <1>6, <2>1, <2>2, <2>3
<1>11. ASSUME NEW i \in Rows(t, "SUCCEEDED")', i \notin DOMAIN events[t]
       PROVE  order'[t] = "COMPLETED" \/ (order'[t] = "FAILED" /\ EndedBefore(t, i)')
  <2>1. i \in DOMAIN events'[t] /\ events'[t][i].type = "SUCCEEDED"
    BY <1>11 DEF Rows
  <2>2. PICK m \in inbox : HandleSucceeded(m) \/ HandleFailed(m) \/ HandleRepeated(m)
    BY <1>1, <1>11, <2>1, OthersUnreported DEF Unreported, Reported
  <2>3. m.task = t /\ m.kind = "SUCCEEDED"
    BY <1>1, <1>11, <2>1, <2>2, NewReported, RepeatedReported DEF Reports, Reported
  <2>4. ASSUME NEW j \in DOMAIN events[t],
               events[t][j].type \in {"TASK_ABORTED", "MESSAGE_DEAD_LETTERED"}
        PROVE  EndedBefore(t, i)'
    <3>1. j \in Rows(t, "TASK_ABORTED")' \cup Rows(t, "MESSAGE_DEAD_LETTERED")'
      BY <1>4, <2>4 DEF Rows
    <3>2. j < i
      BY <1>7, <1>11, <2>1
    <3> QED
      BY <3>1, <3>2 DEF EndedBefore
  <2>5. CASE HandleSucceeded(m)
    <3>1. CASE ~Terminal(t)
      BY <1>1, <2>3, <2>5, <3>1
         DEF HandleSucceeded, OrderStatusFor, TypeOK, DatabaseType
    <3>2. CASE Terminal(t)
      <4>1. order[t] = "COMPLETED" \/ (order[t] = "FAILED"
              /\ task[t].status \in {"ABORTED", "DEAD_LETTERED"})
        BY <1>1, <3>2, EndedOrder
      <4> QED
        BY <1>1, <1>6, <2>4, <3>2, <4>1, FailedRow
    <3> QED
      BY <3>1, <3>2
  <2>6. CASE HandleRepeated(m)
    <3>1. <<m.task, m.ref>> \in processed /\ m.kind \in Reported
      BY <2>6 DEF HandleRepeated, IsProcessed, IsReply
    <3>2. PICK k \in DOMAIN events[t] :
            events[t][k].type \in Reported /\ events[t][k].ref = m.ref
      BY <1>1, <2>3, <3>1 DEF Handled
    <3>3. PICK n \in replies :
            n.task = t /\ n.kind = events[t][k].type /\ n.ref = m.ref
      BY <1>1, <3>2 DEF Heard
    <3>4. PICK l \in replies : SameAnswer(l, m)
      BY <1>1, <3>1 DEF Heard, Known
    <3>5. n.kind = l.kind
      BY <1>1, <2>3, <3>3, <3>4 DEF OneAnswer, About, SameAnswer
    <3>6. k \in Rows(t, "SUCCEEDED")
      BY <2>3, <3>2, <3>3, <3>4, <3>5 DEF SameAnswer, Rows
    <3>7. order'[t] = "COMPLETED" \/ (order'[t] = "FAILED" /\ EndedBefore(t, k)')
      BY <1>10, <3>6
    <3>8. order[t] = "COMPLETED" \/ (order[t] = "FAILED" /\ EndedBefore(t, k))
      BY <3>6 DEF Endings
    <3>9. EndedBefore(t, k) =>
            \E j \in DOMAIN events[t] :
              events[t][j].type \in {"TASK_ABORTED", "MESSAGE_DEAD_LETTERED"}
      BY DEF EndedBefore, Rows
    <3>10. order'[t] = order[t]
      BY <2>6 DEF HandleRepeated
    <3> QED
      BY <2>4, <3>8, <3>9, <3>10
  <2>7. ~HandleFailed(m)
    BY <2>3 DEF HandleFailed
  <2> QED
    BY <2>2, <2>5, <2>6, <2>7
<1>12. \A i \in Rows(t, "SUCCEEDED")' : i \in Rows(t, "SUCCEEDED") \/ i \notin DOMAIN events[t]
  BY <1>4 DEF Rows
<1> QED
  BY <1>8, <1>9, <1>10, <1>11, <1>12

-----------------------------------------------------------------------------
(* Requests on their way from one service to the other.                    *)

AllRequests == [task: Tasks, seq: Nat, attempt: Nat, target: {Primary, Fallback}]

(* Nothing is lost in the conversion.                                      *)
LEMMA MessageOf ==
  ASSUME NEW r \in AllRequests
  PROVE  /\ AsMessage(r) \in Message /\ AsRequest(AsMessage(r)) = r
         /\ AsMessage(r).kind = "REQUESTED" /\ AsMessage(r).task = r.task
         /\ AsMessage(r).ref = r.seq /\ AsMessage(r).attempt = r.attempt
         /\ AsMessage(r).target = r.target
BY DEF AllRequests, AsMessage, AsRequest, Message, Kinds, Targets, Routes

(* A request is its four fields.                                           *)
LEMMA SameRequest ==
  ASSUME NEW q \in AllRequests, NEW r \in AllRequests, q.task = r.task, q.seq = r.seq,
         q.attempt = r.attempt, q.target = r.target
  PROVE  q = r
BY DEF AllRequests

(* A request is its message, and newer than any made of its task.          *)
NewestOf(m, known) ==
  /\ m = AsMessage(AsRequest(m))
  /\ \A r \in known : r.task = m.task => r.seq < m.ref

(* The requests made are in the trajectory, those to come follow them.     *)
Numbering ==
  /\ \A r \in asked : Explained(AsMessage(r), events)
  /\ \A a \in Actors : \A i \in DOMAIN actor[a].effects :
       actor[a].effects[i].kind = "REQUESTED" => NewestOf(actor[a].effects[i], asked)

(* A request to publish.                                                   *)
Sends(a) ==
  /\ SendNext(a) /\ 1 \in DOMAIN actor[a].effects
  /\ actor[a].effects[1].kind = "REQUESTED"
  /\ actor[a].effects[1] \notin requests
  /\ requests' = requests \cup {actor[a].effects[1]}
  /\ Sent = {AsRequest(actor[a].effects[1])}

(* A step publishes one request or none.                                   *)
LEMMA SentOne ==
  ASSUME TypeOK, EffectsFresh, [Next]_vars
  PROVE  \/ Sent = {} /\ requests' \subseteq requests
         \/ \E a \in Actors : Sends(a) /\ replies' = replies
<1>1. CASE requests' \subseteq requests
  BY <1>1 DEF Sent
<1>2. ASSUME NEW a \in Actors, SendNext(a), ~(requests' \subseteq requests)
      PROVE  Sends(a) /\ replies' = replies
  <2> DEFINE q == actor[a].effects
             m == q[1]
  <2>1. q \in Seq(Message) /\ q # <<>>
    BY <1>2 DEF SendNext, TypeOK, ActorType, ActorState
  <2>2. 1 \in DOMAIN q /\ Head(q) = m
    BY <2>1
  <2>3. m.kind = "REQUESTED" /\ requests' = requests \cup {m}
    BY <1>2, <2>2 DEF SendNext
  <2>4. m \notin requests
    BY <2>2, <2>3 DEF EffectsFresh, About
  <2>5. Sent = {AsRequest(m)}
    <3> HIDE DEF m
    <3>1. requests' \ requests = {m}
      BY <2>3, <2>4
    <3> QED
      BY <3>1 DEF Sent
  <2>6. replies' = replies
    BY <1>2 DEF SendNext
  <2> QED
    BY <1>2, <2>2, <2>3, <2>4, <2>5, <2>6 DEF Sends
<1>3. CASE \E m \in requests : RequestAnswered(m)
  BY <1>1, <1>3 DEF RequestAnswered
<1> QED
  BY <1>1, <1>2, <1>3, QueuesMove

(* Two actors never have a request to publish for the same task.           *)
LEMMA OneUnsent ==
  ASSUME TypeOK, Exclusive, FirstAlone, Held,
         NEW a \in Actors, NEW b \in Actors, a # b,
         NEW i \in DOMAIN actor[a].effects, actor[a].effects[i].kind = "REQUESTED",
         NEW j \in DOMAIN actor[b].effects, actor[b].effects[j].kind = "REQUESTED"
  PROVE  actor[a].effects[i].task # actor[b].effects[j].task
<1>1. \A c \in Actors : \A k \in DOMAIN actor[c].effects :
         InRequest(c) /\ actor[c].effects[k].task = actor[c].task
  BY DEF Held, InRequest, At, Exclusive, OwnTask
<1>2. \A t \in Tasks : InRequest(t) => actor[t].task = t
  BY DEF Exclusive, OwnTask
<1>3. ASSUME NEW t \in Tasks, NEW k \in DOMAIN actor[t].effects,
             actor[t].effects[k].kind = "REQUESTED", InRequest(Worker)
      PROVE  actor[Worker].task # t
  BY <1>3 DEF FirstAlone, Unsent
<1> QED
  BY <1>1, <1>2, <1>3 DEF Actors

(* What is to be published is on a route.                                  *)
LEMMA RequestPossible ==
  ASSUME TypeOK, MessagesExplained, Routed, NEW a \in Actors, NEW i \in DOMAIN actor[a].effects,
         actor[a].effects[i].kind = "REQUESTED"
  PROVE  /\ actor[a].effects[i] \in Message /\ Explained(actor[a].effects[i], events)
         /\ AsRequest(actor[a].effects[i]) \in AllRequests
<1> DEFINE m == actor[a].effects[i]
<1>1. actor[a].effects \in Seq(Message)
  BY DEF TypeOK, ActorType, ActorState
<1>2. m \in Message /\ Explained(m, events)
  BY <1>1, ElementOfSeq DEF MessagesExplained, HandlerExplained
<1>3. PICK k \in DOMAIN events[m.task] :
        events[m.task][k].type = "REQUESTED" /\ events[m.task][k].target = m.target
  BY <1>2 DEF Explained, AboutRequest
<1> HIDE DEF m
<1>4. m.target \in {Primary, Fallback}
  BY <1>2, <1>3 DEF Routed, Rows, Message
<1> QED
  BY <1>2, <1>4 DEF AllRequests, AsRequest, Message, m

(* Every step.                                                             *)
LEMMA NumberingStep ==
  ASSUME Safe, Recorded, Answered, FirstAlone, Held, Routed, Numbering,
         asked \subseteq AllRequests, [Next]_vars, asked' = asked \cup Sent
  PROVE  Numbering' /\ asked' \subseteq AllRequests
<1>1. /\ TypeOK /\ Exclusive /\ EffectsFresh /\ MessagesExplained /\ Trajectories
      /\ \A a \in Actors : actor[a].effects \in Seq(Message)
  BY DEF Safe, Coordinated, Exclusive, Recorded, Answered, TypeOK, ActorType, ActorState
<1>2. \A m \in Message : Explained(m, events) => Explained(m, events')
  BY <1>1, StepExplains
<1>3. ASSUME NEW r \in asked' PROVE Explained(AsMessage(r), events') /\ r \in AllRequests
  <2>1. CASE r \in asked
    BY <1>2, <2>1, MessageOf DEF Numbering
  <2>2. ASSUME NEW a \in Actors, Sends(a), r \in Sent
        PROVE  Explained(AsMessage(r), events') /\ r \in AllRequests
    <3> DEFINE m == actor[a].effects[1]
    <3>1. r = AsRequest(m) /\ 1 \in DOMAIN actor[a].effects /\ m.kind = "REQUESTED"
      BY <2>2 DEF Sends
    <3>2. m = AsMessage(AsRequest(m))
      BY <3>1 DEF Numbering, NewestOf
    <3>3. m \in Message /\ Explained(m, events) /\ AsRequest(m) \in AllRequests
      BY <1>1, <3>1, RequestPossible
    <3> HIDE DEF m
    <3> QED
      BY <1>2, <3>1, <3>2, <3>3
  <2> QED
    BY <1>1, <1>3, <2>1, <2>2, SentOne
<1>4. ASSUME NEW b \in Actors, NEW i \in DOMAIN actor'[b].effects,
             actor'[b].effects[i].kind = "REQUESTED"
      PROVE  NewestOf(actor'[b].effects[i], asked')
  <2> DEFINE m == actor'[b].effects[i]
  <2>2. ASSUME m = actor[b].effects[i], i \in DOMAIN actor[b].effects, Sent = {}
        PROVE  NewestOf(m, asked')
    BY <1>4, <2>2 DEF Numbering
  <2>3. ASSUME NEW a \in Actors, SendNext(a)
        PROVE  NewestOf(m, asked')
    <3> DEFINE q == actor[a].effects
    <3>1. q \in Seq(Message) /\ q # <<>>
      BY <1>1, <2>3 DEF SendNext
    <3>2. \A k \in DOMAIN Tail(q) : k + 1 \in DOMAIN q /\ Tail(q)[k] = q[k + 1] /\ k + 1 # 1
      BY <3>1
    <3>3. actor'[a].effects = Tail(q) /\ \A c \in Actors \ {a} : actor'[c] = actor[c]
      <4> DEFINE r == [actor[a] EXCEPT !.effects = Tail(@)]
      <4>1. r.effects = Tail(q)
        BY <1>1 DEF TypeOK, ActorType, ActorState
      <4>2. actor' = [actor EXCEPT ![a] = r]
        BY <2>3 DEF SendNext
      <4> HIDE DEF r
      <4> QED
        BY <1>1, <4>1, <4>2 DEF TypeOK, ActorType
    <3>4. b # a
      <4>1. SUFFICES ASSUME b = a PROVE FALSE
        OBVIOUS
      <4>2. i + 1 \in DOMAIN q /\ q[i + 1].kind = "REQUESTED" /\ i + 1 # 1
        BY <1>4, <3>2, <3>3, <4>1
      <4> QED
        BY <1>1, <4>2 DEF EffectsFresh
    <3>5. i \in DOMAIN actor[b].effects /\ m = actor[b].effects[i]
      BY <1>4, <3>3, <3>4
    <3>6. CASE Sent = {}
      BY <2>2, <3>5, <3>6
    <3>7. ASSUME NEW c \in Actors, Sends(c) PROVE c = a
      <4>1. 1 \in DOMAIN actor[c].effects /\ actor'[c].effects # actor[c].effects
        <5>1. actor[c].effects \in Seq(Message) /\ actor[c].effects # <<>>
          BY <1>1, <3>7 DEF Sends, SendNext
        <5>2. actor'[c].effects = Tail(actor[c].effects)
          BY <1>1, <3>7 DEF Sends, SendNext, TypeOK, ActorType, ActorState
        <5>3. /\ Len(Tail(actor[c].effects)) = Len(actor[c].effects) - 1
              /\ Len(actor[c].effects) \in Nat
          BY <5>1
        <5>4. Len(actor'[c].effects) # Len(actor[c].effects)
          BY <5>2, <5>3
        <5> QED
          BY <3>7, <5>4 DEF Sends
      <4> QED
        BY <3>3, <4>1
    <3>8. CASE Sends(a)
      <4>1. q[1].task # m.task
        BY <1>1, <1>4, <3>4, <3>5, <3>8, OneUnsent DEF Safe, Coordinated, Sends
      <4>2. AsRequest(q[1]).task = q[1].task
        BY DEF AsRequest
      <4>3. asked' = asked \cup {AsRequest(q[1])}
        BY <3>8 DEF Sends
      <4>4. NewestOf(m, asked)
        BY <1>4, <3>5 DEF Numbering
      <4> HIDE DEF m, q
      <4> QED
        BY <4>1, <4>2, <4>3, <4>4 DEF NewestOf
    <3> QED
      BY <1>1, <3>6, <3>7, <3>8, SentOne
  <2>4. ASSUME \A a \in Actors : ~SendNext(a) PROVE Sent = {}
    BY <1>1, <2>4, SentOne DEF Sends
  <2>5. ASSUME NEW a \in Actors, requests' = requests, Leaves(actor'[a].effects),
               \A c \in Actors \ {a} : actor'[c] = actor[c]
        PROVE  NewestOf(m, asked')
    <3>1. Sent = {}
      BY <2>5 DEF Sent
    <3>2. CASE b # a
      BY <1>4, <2>2, <2>5, <3>1, <3>2
    <3>3. CASE b = a
      <4>1. PICK t \in Tasks, row \in TaskRow :
              actor'[a].effects = RequestMessages(t, row) /\ row.seq > task[t].seq
        BY <1>4, <2>5, <3>3 DEF Leaves, AboutRequest
      <4>2. m = [kind |-> "REQUESTED", task |-> t, ref |-> row.seq, attempt |-> row.attempt,
                 target |-> row.target, reason |-> None, redelivered |-> FALSE]
        <5> DEFINE q == actor'[a].effects
        <5>1. /\ DOMAIN q = {1, 2} /\ q[2].kind = "timeout_check"
              /\ q[1] = [kind |-> "REQUESTED", task |-> t, ref |-> row.seq,
                         attempt |-> row.attempt, target |-> row.target, reason |-> None,
                         redelivered |-> FALSE]
          BY <4>1 DEF RequestMessages, InternalMessage
        <5>2. i = 1
          BY <1>4, <3>3, <5>1
        <5> QED
          BY <3>3, <5>1, <5>2
      <4>3. m = AsMessage(AsRequest(m)) /\ m.task = t /\ m.ref = row.seq
        BY <4>2 DEF AsMessage, AsRequest
      <4> HIDE DEF m
      <4>4. ASSUME NEW r \in asked', r.task = t PROVE r.seq < row.seq
        <5>1. r \in asked /\ r \in AllRequests
          BY <3>1, <4>4
        <5>2. AsMessage(r).ref <= task[AsMessage(r).task].seq
          BY <1>1, <5>1, MessageOf, RequestNumbered DEF Numbering, AboutRequest
        <5>3. r.seq <= task[t].seq /\ r.seq \in Nat
          BY <4>4, <5>1, <5>2, MessageOf DEF AllRequests
        <5>4. task[t].seq \in Nat /\ row.seq \in Nat
          BY <1>1, <4>1 DEF TypeOK, DatabaseType, TaskRow
        <5> QED
          BY <4>1, <5>3, <5>4
      <4> QED
        BY <4>3, <4>4 DEF NewestOf
    <3> QED
      BY <3>2, <3>3
  <2> HIDE DEF m
  <2>6. CASE actor'[b].effects = actor[b].effects /\ \A a \in Actors : ~SendNext(a)
    BY <1>4, <2>2, <2>4, <2>6 DEF m
  <2>7. ASSUME \A c \in Actors : \/ actor'[c].effects = actor[c].effects
                                 \/ DOMAIN actor'[c].effects = {}
        PROVE  NewestOf(m, asked')
    <3>1. actor'[b].effects = actor[b].effects
      BY <1>4, <2>7
    <3> QED
      BY <2>3, <2>6, <3>1 DEF m
  <2>8. CASE \E a \in Actors : SendNext(a)
    BY <2>3, <2>8 DEF m
  <2>9. CASE \E a \in Actors : /\ requests' = requests /\ replies' = replies
                              /\ Leaves(actor'[a].effects)
                              /\ \A c \in Actors \ {a} : actor'[c] = actor[c]
    BY <2>5, <2>9 DEF m
  <2> QED
    BY <1>1, <2>7, <2>8, <2>9, EffectsMove DEF m
<1> QED
  <2>1. asked' \subseteq AllRequests /\ \A r \in asked' : Explained(AsMessage(r), events')
    BY <1>3
  <2>2. \A r \in asked' : AsMessage(r)' = AsMessage(r)
    BY DEF AsMessage
  <2> QED
    BY <1>4, <2>1, <2>2 DEF Numbering, Explained, AboutRequest

-----------------------------------------------------------------------------
(* The inventory-service, with the requests of the orders-service.         *)

(* What Inventory assumes of its constants.                                *)
LEMMA ShopAssumption ==
  /\ \A r \in PossibleRequests :
       /\ DOMAIN r = {"task", "seq", "attempt", "target"}
       /\ r.seq \in Nat /\ r.target \in Shop!Routes
  /\ MaxStockCrashes \in Nat /\ MaxStockFailures \in Nat
  /\ 0 \in Nat /\ MaxWindows \in Nat
BY SystemAssumption, ActorsAssumption DEF Shop!Routes, Shop!Primary, Shop!Fallback, Primary, Fallback

(* What was proved of Inventory holds of the one composed here.            *)
LEMMA SameInventory ==
  /\ Stock!Routes = Shop!Routes
  /\ Stock!Init => Shop!Init
  /\ [Stock!Next]_(Stock!vars) => [Shop!Next]_(Shop!vars)
  /\ \A w \in Shop!Routes : Stock!Publish(w) => Shop!Publish(w)
  /\ \A w \in Shop!Routes : Stock!Raises(w) => Shop!Raises(w)
BY DEF Stock!AskedTasks, Shop!AskedTasks, Stock!Routes, Shop!Routes, Stock!Primary, Shop!Primary,
       Stock!Fallback, Shop!Fallback, Stock!database, Shop!database, Stock!sent, Shop!sent,
       Stock!lab, Shop!lab, Stock!vars, Shop!vars, Stock!Draw, Shop!Draw, Stock!Draws,
       Shop!Draws, Stock!Results, Shop!Results, Stock!Answers, Shop!Answers,
       Stock!NoRequest, Shop!NoRequest, Stock!NoAnswer, Shop!NoAnswer, Stock!Idle,
       Shop!Idle, Stock!Queue, Shop!Queue, Stock!Ask, Shop!Ask, Stock!AskAgain,
       Shop!AskAgain, Stock!At, Shop!At, Stock!Request, Shop!Request, Stock!Injected,
       Shop!Injected, Stock!Take, Shop!Take, Stock!Reply, Shop!Reply, Stock!Store,
       Shop!Store, Stock!Stored, Shop!Stored, Stock!Reserved, Shop!Reserved, Stock!Repeat,
       Shop!Repeat, Stock!FirstTime, Shop!FirstTime, Stock!Reserve, Shop!Reserve,
       Stock!AnswerReserved, Shop!AnswerReserved, Stock!RefuseData, Shop!RefuseData,
       Stock!FailInjected, Shop!FailInjected, Stock!Process, Shop!Process, Stock!Publish,
       Shop!Publish, Stock!Ack, Shop!Ack, Stock!Raises, Shop!Raises, Stock!Interrupt,
       Shop!Interrupt, Stock!Crashes, Shop!Crashes, Stock!ChildLost, Shop!ChildLost,
       Stock!Exit, Shop!Exit, Stock!Terminate, Shop!Terminate, Stock!MainSeesExit,
       Shop!MainSeesExit, Stock!Shutdown, Shop!Shutdown, Stock!ContainerDown,
       Shop!ContainerDown, Stock!OpenWindow, Shop!OpenWindow, Stock!FaultStarts,
       Shop!FaultStarts, Stock!FaultEnds, Shop!FaultEnds, Stock!OutageStarts,
       Shop!OutageStarts, Stock!OutageEnds, Shop!OutageEnds, Stock!Work, Shop!Work,
       Stock!Next, Shop!Next, Stock!Init, Shop!Init

(* What the orders-service does of its own accord.                         *)
LEMMA OrdersMove ==
  ASSUME OrdersStep
  PROVE  /\ Next /\ Enqueue /\ UNCHANGED <<replies, reemissions>>
         /\ requests \subseteq requests'
<1>1. Next
  BY DEF OrdersStep, Next, Disturbance
<1>2. Enqueue
  BY DEF OrdersStep
<1>3. ASSUME NEW a \in Actors, Act(a)
      PROVE  UNCHANGED <<replies, reemissions>> /\ requests \subseteq requests'
  BY <1>3 DEF Act, TakeDecision, ExecuteDecision, ExecuteContinue, ExecuteRetry, ExecuteWait,
     ExecuteFallback, ExecuteAbort, ExecuteRaises, SendNext, Return, broker, bounds
<1>4. ASSUME NEW m \in inbox, Handle(m)
      PROVE  UNCHANGED <<replies, reemissions>> /\ requests \subseteq requests'
  BY <1>4 DEF Handle, HandleRepeated, HandleSucceeded, HandleFailed, HandleTimeout,
     HandleReevaluate, HandleDispatch, HandleStale, bounds
<1>5. ASSUME \/ \E t \in Tasks : CreateOrder(t) \/ DeadlinePasses(t) \/ ApiRaises(t)
             \/ \E m \in deadLetters :
                  HandleDeadLetter(m) \/ HandleDeadLetterUnacknowledged(m) \/ DeadLetterLost(m)
             \/ \E m \in inbox : HandlerRaises(m)
             \/ WorkerRaises \/ WorkerCrash \/ ApiCrash
      PROVE  UNCHANGED <<replies, reemissions>> /\ requests \subseteq requests'
  BY <1>5 DEF CreateOrder, DeadlinePasses, ApiRaises, HandleDeadLetter,
     HandleDeadLetterUnacknowledged, DeadLetterLost, HandlerRaises, WorkerRaises, Raises,
     WorkerCrash, ApiCrash, broker, bounds
<1>6. \/ \E a \in Actors : Act(a)
      \/ \E m \in inbox : Handle(m)
      \/ \E t \in Tasks : CreateOrder(t) \/ DeadlinePasses(t) \/ ApiRaises(t)
      \/ \E m \in deadLetters :
           HandleDeadLetter(m) \/ HandleDeadLetterUnacknowledged(m) \/ DeadLetterLost(m)
      \/ \E m \in inbox : HandlerRaises(m)
      \/ WorkerRaises \/ WorkerCrash \/ ApiCrash
  BY DEF OrdersStep, WorkerStep, Actors
<1> QED
  BY <1>1, <1>2, <1>3, <1>4, <1>5, <1>6

(* Nothing sent, nothing queued.                                           *)
LEMMA NothingQueued ==
  ASSUME Shop!InventoryTypeOK, Enqueue, Sent = {}
  PROVE  UNCHANGED Stock!vars
<1>1. queued \in [PossibleRequests -> Nat]
  BY DEF Shop!InventoryTypeOK
<1>2. \A r \in PossibleRequests : queued'[r] = queued[r] + 0
  BY DEF Enqueue
<1>3. queued' = [r \in PossibleRequests |-> queued'[r]]
  BY DEF Enqueue
<1>4. queued' = queued
  BY <1>1, <1>2, <1>3
<1> QED
  BY <1>4 DEF Enqueue, Stock!vars

(* A request sent is one more delivery.                                    *)
LEMMA SentQueued ==
  ASSUME Shop!InventoryTypeOK, Enqueue, NEW r \in PossibleRequests, Sent = {r}, r \notin asked,
         \A q \in asked : q.task = r.task => q.seq < r.seq
  PROVE  Stock!Ask(r)
<1>1. queued \in [PossibleRequests -> Nat]
  BY DEF Shop!InventoryTypeOK
<1>2. \A q \in PossibleRequests : queued'[q] = queued[q] + IF q = r THEN 1 ELSE 0
  BY DEF Enqueue
<1>3. queued' = [q \in PossibleRequests |-> queued'[q]]
  BY DEF Enqueue
<1>4. queued' = [queued EXCEPT ![r] = @ + 1]
  BY <1>1, <1>2, <1>3
<1> QED
  BY <1>4 DEF Enqueue, Stock!Ask, Stock!Queue, Stock!database, Stock!sent, Stock!lab

-----------------------------------------------------------------------------
(* The messages of the one are the requests and the answers of the other.  *)

(* An answer to r has left.                                                *)
Left(r) == \E a \in published : a.request = r

(* A request is out while it is neither answered nor rejected, and the     *)
(* answers known are those published.                                      *)
Linked ==
  /\ \A r \in asked : AsMessage(r) \in requests <=> ~Left(r) /\ r \notin rejected
  /\ \A m \in requests : m = AsMessage(AsRequest(m)) /\ AsRequest(m) \in asked
  /\ replies = {AsReply(a) : a \in published}

(* An answer as the orders-service reads it.                               *)
LEMMA ReplyOf ==
  ASSUME NEW a \in Shop!Answers, a.request \in AllRequests
  PROVE  /\ AsReply(a).task = a.request.task /\ AsReply(a).ref = a.request.seq
         /\ AsReply(a).attempt = a.request.attempt /\ AsReply(a).target = a.request.target
         /\ AsReply(a).kind = IF a.result = "ok" THEN "SUCCEEDED" ELSE "FAILED"
         /\ RequestOf(AsReply(a)) = AsMessage(a.request)
         /\ a.result \in {"ok", "transient_error", "invalid_data"}
<1> DEFINE r == a.request
           m == AsMessage(r)
<1>1. m = [kind |-> "REQUESTED", task |-> r.task, ref |-> r.seq, attempt |-> r.attempt,
           target |-> r.target, reason |-> None, redelivered |-> FALSE]
  BY DEF AsMessage
<1>2. AsReply(a) = Answer(m, a.result)
  BY DEF AsReply
<1> HIDE DEF r, m
<1>3. RequestOf(Answer(m, a.result)) = m
  <2> DEFINE kind == IF a.result = "ok" THEN "SUCCEEDED" ELSE "FAILED"
             reason == IF a.result = "ok" THEN None ELSE a.result
  <2>1. Answer(m, a.result) = [m EXCEPT !.kind = kind, !.reason = reason]
    BY DEF Answer
  <2> DEFINE M == [kind: {"REQUESTED", kind}, task: {r.task}, ref: {r.seq},
                   attempt: {r.attempt}, target: {r.target}, reason: {None, reason},
                   redelivered: {FALSE}]
  <2> HIDE DEF kind, reason
  <2> DEFINE y == [m EXCEPT !.kind = kind, !.reason = reason]
             z == [y EXCEPT !.kind = "REQUESTED", !.reason = None]
  <2>2. m \in M /\ m.kind = "REQUESTED" /\ m.reason = None
    BY <1>1
  <2>3. y \in M
    BY <2>2
  <2> HIDE DEF y
  <2>4. z \in M /\ z.kind = "REQUESTED" /\ z.reason = None
    BY <2>3
  <2> HIDE DEF z
  <2>5. \A u \in M : /\ u.task = r.task /\ u.ref = r.seq /\ u.attempt = r.attempt
                     /\ u.target = r.target /\ u.redelivered = FALSE
    OBVIOUS
  <2>6. z.task = m.task /\ z.ref = m.ref /\ z.attempt = m.attempt /\ z.target = m.target
          /\ z.redelivered = m.redelivered /\ z.kind = m.kind /\ z.reason = m.reason
    BY ONLY <2>2, <2>4, <2>5
  <2>7. z = m
    BY ONLY <2>2, <2>4, <2>6
  <2> QED
    BY <2>1, <2>7 DEF RequestOf, y, z
<1>4. /\ Answer(m, a.result).task = r.task /\ Answer(m, a.result).ref = r.seq
      /\ Answer(m, a.result).attempt = r.attempt /\ Answer(m, a.result).target = r.target
      /\ Answer(m, a.result).kind = IF a.result = "ok" THEN "SUCCEEDED" ELSE "FAILED"
  BY <1>1 DEF Answer
<1>5. a.result \in {"ok", "transient_error", "invalid_data"}
  BY DEF Shop!Answers, Shop!Results
<1> QED
  BY <1>2, <1>3, <1>4, <1>5 DEF r, m

(* One answer to one request.                                              *)
LEMMA ReplyTo ==
  ASSUME NEW a \in Shop!Answers, NEW b \in Shop!Answers,
         a.request \in AllRequests, b.request \in AllRequests, AsReply(a) = AsReply(b)
  PROVE  a.request = b.request
BY ReplyOf, SameRequest

(* An answer leaves again at most once for each worker killed.             *)
Repeats ==
  IsFiniteSet(Shop!Again) /\ reemissions + Cardinality(Shop!Again) <= stockCrashes

SystemInvariant ==
  /\ Safe /\ Recorded /\ Answered
  /\ FirstAlone /\ Held /\ Routed /\ Endings /\ Numbering
  /\ Shop!InventoryInvariant /\ Shop!OneDelivery /\ Shop!OwnRows
  /\ Linked /\ Repeats /\ Undisturbed

(* What the invariant says of the requests and of the answers.             *)
LEMMA SystemFacts ==
  ASSUME PossibleRequests = AllRequests, SystemInvariant
  PROVE  /\ TypeOK /\ EffectsFresh /\ Shop!InventoryTypeOK
         /\ asked \subseteq AllRequests /\ rejected \subseteq asked
         /\ published \subseteq answers /\ answers \subseteq Shop!Answers
         /\ \A a \in answers : a.request \in asked
         /\ \A a, b \in answers : a.request = b.request => a = b
         /\ \A w \in Shop!Routes : Shop!Request(w) \in PossibleRequests =>
              Shop!Request(w) \in asked /\ Shop!Request(w) \notin rejected
<1>1. TypeOK /\ EffectsFresh
  BY DEF SystemInvariant, Safe, Answered
<1>2. Shop!InventoryTypeOK /\ Shop!Recorded /\ Shop!Carried /\ Shop!OneDelivery
  BY DEF SystemInvariant, Shop!InventoryInvariant
<1>3. asked \subseteq AllRequests /\ answers \subseteq Shop!Answers
  BY <1>2 DEF Shop!InventoryTypeOK
<1>4. published \subseteq answers /\ \A a, b \in answers : a.request = b.request => a = b
  BY <1>2 DEF Shop!Carried, Shop!Recorded
<1>5. /\ rejected \subseteq asked /\ \A a \in answers : a.request \in asked
      /\ \A w \in Shop!Routes : Shop!Request(w) \in PossibleRequests =>
           Shop!Request(w) \in asked /\ Shop!Request(w) \notin rejected
  BY <1>2 DEF Shop!OneDelivery
<1> QED
  BY <1>1, <1>2, <1>3, <1>4, <1>5

(* The links depend on what has been asked, answered and rejected.         *)
LEMMA LinksKept ==
  ASSUME Linked, UNCHANGED <<asked, published, rejected, requests, replies>>
  PROVE  Linked'
BY DEF Linked, Left, AsMessage, AsRequest, AsReply, Answer

(* A step of the orders-service is seen by the other as one request more,  *)
(* or not at all.                                                          *)
LEMMA OrdersLinks ==
  ASSUME PossibleRequests = AllRequests, SystemInvariant, OrdersStep
  PROVE  /\ [Stock!Next]_(Stock!vars) /\ Linked'
<1>1. /\ Next /\ Enqueue /\ UNCHANGED <<replies, reemissions>>
      /\ requests \subseteq requests'
  BY OrdersMove
<1>2. UNCHANGED <<published, rejected>> /\ asked' = asked \cup Sent
  BY <1>1 DEF Enqueue
<1>3. CASE Sent = {} /\ requests' \subseteq requests
  <2>1. UNCHANGED Stock!vars
    BY <1>1, <1>3, NothingQueued, SystemFacts
  <2>2. UNCHANGED <<asked, published, rejected, requests, replies>>
    BY <1>1, <1>2, <1>3
  <2> QED
    BY <2>1, <2>2, LinksKept DEF SystemInvariant
<1>4. ASSUME NEW a \in Actors, Sends(a) PROVE Stock!Next /\ Linked'
  <2> DEFINE m == actor[a].effects[1]
             r == AsRequest(m)
  <2>1. 1 \in DOMAIN actor[a].effects /\ m.kind = "REQUESTED"
    BY <1>4 DEF Sends
  <2>2. NewestOf(m, asked) /\ r \in AllRequests
    BY <2>1, SystemFacts, RequestPossible DEF SystemInvariant, Numbering, Recorded
  <2>3. m = AsMessage(r) /\ \A q \in asked : q.task = r.task => q.seq < r.seq
    BY <2>2 DEF NewestOf, AsRequest
  <2>4. Sent = {r} /\ requests' = requests \cup {m} /\ m \notin requests
    BY <1>4 DEF Sends
  <2> HIDE DEF m, r
  <2>5. r \notin asked
    BY <2>2, <2>3 DEF AllRequests
  <2>6. Stock!Ask(r)
    BY <1>1, <2>2, <2>3, <2>4, <2>5, SentQueued, SystemFacts
  <2>7. r \notin rejected /\ ~Left(r)
    BY <2>5, SystemFacts DEF Left
  <2>8. \A q \in asked : AsMessage(q) # m
    BY <2>2, <2>3, <2>5, MessageOf, SystemFacts
  <2>9. AsRequest(m) = r
    BY <2>2, <2>3, MessageOf
  <2>10. Linked'
    <3>1. asked' = asked \cup {r} /\ requests' = requests \cup {AsMessage(r)}
      BY <1>2, <2>3, <2>4
    <3>2. /\ \A q \in asked' : AsMessage(q) \in requests' <=> ~Left(q) /\ q \notin rejected
          /\ \A n \in requests' : n = AsMessage(AsRequest(n)) /\ AsRequest(n) \in asked'
      BY <2>3, <2>7, <2>8, <2>9, <3>1 DEF SystemInvariant, Linked
    <3>3. replies' = {AsReply(b) : b \in published}
      BY <1>1 DEF SystemInvariant, Linked
    <3> QED
      BY <1>2, <3>2, <3>3 DEF Linked, Left, AsMessage, AsRequest, AsReply, Answer
  <2> QED
    BY <2>2, <2>6, <2>10 DEF Stock!Next
<1> QED
  BY <1>1, <1>3, <1>4, SentOne, SystemFacts

(* What a worker about to publish, or about to raise, has.                 *)
LEMMA WorkerHas ==
  ASSUME PossibleRequests = AllRequests, SystemInvariant, NEW w \in Shop!Routes,
         ~Shop!At(w, "idle")
  PROVE  LET r == routeWorker[w].request
             a == routeWorker[w].reply
         IN  /\ r = Shop!Request(w) /\ r \in asked /\ r \in AllRequests /\ r \notin rejected
             /\ Shop!At(w, "publish") => a \in answers /\ a.request = r
<1>1. Shop!InventoryTypeOK
  BY SystemFacts
<1>2. Shop!Working(w) /\ Shop!Request(w) \in PossibleRequests
  BY <1>1, ShopAssumption, Shop!AtWork
<1>3. Shop!At(w, "publish") => routeWorker[w].reply \in Shop!Stored(Shop!Request(w))
  BY <1>2 DEF Shop!Working, Shop!At
<1> QED
  BY <1>2, <1>3, SystemFacts DEF Shop!Stored, Shop!Request

(* An answer can leave again while workers are killed.                     *)
LEMMA AgainBounded ==
  ASSUME PossibleRequests = AllRequests, SystemInvariant, NEW r \in Shop!Again
  PROVE  reemissions < MaxReemissions
<1>1. IsFiniteSet(Shop!Again) /\ reemissions + Cardinality(Shop!Again) <= stockCrashes
  BY DEF SystemInvariant, Repeats
<1>2. Cardinality(Shop!Again) \in Nat /\ Cardinality(Shop!Again) # 0
  BY <1>1, FS_CardinalityType, FS_EmptySet
<1>3. stockCrashes \in 0 .. MaxStockCrashes /\ reemissions \in 0 .. MaxReemissions
  BY SystemFacts DEF Shop!InventoryTypeOK, TypeOK, BoundsType
<1> QED
  BY <1>1, <1>2, <1>3, SystemAssumption, ActorsAssumption

(* An answer that leaves is an answer to a request that was out, the same  *)
(* answer once more, or seen by nobody.                                    *)
LEMMA PublishLinks ==
  ASSUME PossibleRequests = AllRequests, SystemInvariant, NEW w \in Shop!Routes, PublishReply(w)
  PROVE  /\ [Next]_vars /\ Linked'
         /\ \/ reemissions' = reemissions
            \/ reemissions' = reemissions + 1 /\ Left(Shop!Request(w))
<1> DEFINE r == routeWorker[w].request
           a == routeWorker[w].reply
           reply == AsReply(a)
           m == AsMessage(r)
<1>1. Shop!Publish(w) /\ Shop!At(w, "publish")
  BY SameInventory DEF PublishReply, Shop!Publish
<1>2. r = Shop!Request(w) /\ r \in asked /\ r \in AllRequests /\ a \in answers /\ a.request = r
  BY <1>1, WorkerHas DEF Shop!At
<1>3. /\ inbox' = inbox \cup {reply} /\ replies' = replies \cup {reply} /\ requests' = requests \ {m}
      /\ reemissions' = IF reply \in replies \ inbox THEN reemissions + 1 ELSE reemissions
      /\ UNCHANGED <<database, actor, deadLetters, expired, crashes, failures, losses>>
  BY DEF PublishReply
<1>4. published' = published \cup {a} /\ UNCHANGED <<asked, rejected>>
  BY <1>1 DEF Shop!Publish
<1>5. reply = Answer(m, a.result) /\ a.result \in {"ok", "transient_error", "invalid_data"}
  BY <1>2, ReplyOf, SystemFacts DEF AsReply
<1>6. replies = {AsReply(b) : b \in published} /\ (m \in requests <=> ~Left(r) /\ r \notin rejected)
  BY <1>2 DEF SystemInvariant, Linked
<1>7. r \notin rejected
  BY <1>1, WorkerHas DEF Shop!At
<1> HIDE DEF r, a, reply, m
<1>8. CASE Left(r)
  <2>1. a \in published
    BY <1>2, <1>8, SystemFacts DEF Left
  <2>2. reply \in replies /\ published' = published
    BY <1>4, <1>6, <2>1 DEF reply
  <2>3. UNCHANGED <<asked, published, rejected, requests, replies>>
    BY <1>3, <1>4, <1>6, <1>8, <2>2
  <2>4. Linked'
    BY <2>3, LinksKept DEF SystemInvariant
  <2>5. CASE reply \in inbox
    BY <1>3, <2>3, <2>4, <2>5 DEF vars, database
  <2>6. CASE reply \notin inbox
    <3>1. r \in Shop!Again
      BY <1>1, <1>2, <1>8, ShopAssumption, Shop!PublishAgain DEF SystemInvariant, Left
    <3>2. reemissions < MaxReemissions
      BY <3>1, AgainBounded
    <3>3. AnswerSentAgain(reply)
      BY <1>3, <2>2, <2>3, <2>6, <3>2 DEF AnswerSentAgain
    <3>4. reemissions' = reemissions + 1 /\ Left(Shop!Request(w))
      BY <1>2, <1>3, <1>8, <2>2, <2>6
    <3> QED
      BY <2>2, <2>4, <3>3, <3>4 DEF Next, Disturbance
  <2> QED
    BY <2>5, <2>6
<1>9. CASE ~Left(r)
  <2>1. m \in requests
    BY <1>6, <1>7, <1>9
  <2>2. reply \notin replies
    <3>1. SUFFICES ASSUME NEW b \in published, AsReply(b) = reply PROVE FALSE
      BY <1>6
    <3>2. b.request = r
      BY <1>2, <3>1, ReplyTo, SystemFacts DEF reply
    <3> QED
      BY <1>9, <3>2 DEF Left
  <2>3. RequestAnswered(m)
    BY <1>3, <1>5, <2>1, <2>2 DEF RequestAnswered, bounds
  <2>4. \A q \in asked : Left(q)' <=> Left(q) \/ q = r
    BY <1>2, <1>4 DEF Left
  <2>5. \A q \in asked : AsMessage(q) = m => q = r
    BY <1>2, MessageOf, SystemFacts DEF m
  <2>6. \A q \in asked' : AsMessage(q) \in requests' <=> ~Left(q)' /\ q \notin rejected'
    BY <1>3, <1>4, <2>4, <2>5 DEF SystemInvariant, Linked, m
  <2>7. \A n \in requests' : n = AsMessage(AsRequest(n)) /\ AsRequest(n) \in asked'
    BY <1>3, <1>4 DEF SystemInvariant, Linked
  <2>8. replies' = {AsReply(b) : b \in published'}
    BY <1>3, <1>4, <1>6 DEF reply
  <2>9. Linked'
    BY <2>6, <2>7, <2>8 DEF Linked, Left, AsMessage, AsRequest, AsReply, Answer
  <2> QED
    BY <1>3, <2>1, <2>2, <2>3, <2>9 DEF Next
<1> QED
  BY <1>8, <1>9

(* A request rejected is one that was out, or one answered already.        *)
LEMMA RejectLinks ==
  ASSUME PossibleRequests = AllRequests, SystemInvariant, NEW w \in Shop!Routes, RejectRequest(w)
  PROVE  [Next]_vars /\ Linked'
<1> DEFINE r == routeWorker[w].request
           m == AsMessage(r)
<1>1. Shop!Raises(w) /\ ~Shop!At(w, "idle")
  BY SameInventory DEF RejectRequest, Shop!Raises
<1>2. r = Shop!Request(w) /\ r \in asked /\ r \in AllRequests /\ r \notin rejected
  BY <1>1, WorkerHas
<1>3. /\ failures < MaxFailures /\ failures' = failures + 1
      /\ deadLetters' = deadLetters \cup {m} /\ requests' = requests \ {m}
      /\ UNCHANGED <<database, actor, inbox, replies, expired, crashes, losses, reemissions>>
  BY DEF RejectRequest
<1>4. rejected' = rejected \cup {r} /\ UNCHANGED <<asked, published>>
  BY <1>1, <1>2 DEF Shop!Raises
<1>5. replies = {AsReply(b) : b \in published} /\ (m \in requests <=> ~Left(r))
  BY <1>2 DEF SystemInvariant, Linked
<1>6. \A q \in asked : AsMessage(q) = m => q = r
  BY <1>2, MessageOf, SystemFacts
<1> HIDE DEF r, m
<1>7. Linked'
  <2>1. \A q \in asked' : AsMessage(q) \in requests' <=> ~Left(q) /\ q \notin rejected'
    BY <1>3, <1>4, <1>6 DEF SystemInvariant, Linked, m
  <2>2. \A n \in requests' : n = AsMessage(AsRequest(n)) /\ AsRequest(n) \in asked'
    BY <1>3, <1>4 DEF SystemInvariant, Linked
  <2>3. replies' = {AsReply(b) : b \in published}
    BY <1>3, <1>5
  <2> QED
    BY <1>4, <2>1, <2>2, <2>3 DEF Linked, Left, AsMessage, AsRequest, AsReply, Answer
<1>8. CASE ~Left(r)
  <2>1. m \in requests /\ RequestDeadLettered(m)
    BY <1>3, <1>5, <1>8 DEF RequestDeadLettered
  <2> QED
    BY <1>7, <2>1 DEF Next, Disturbance
<1>9. CASE Left(r)
  <2>1. PICK b \in published : b.request = r
    BY <1>9 DEF Left
  <2>2. AsReply(b) \in replies /\ requests' = requests
    BY <1>3, <1>5, <1>9, <2>1
  <2>3. RequestOf(AsReply(b)) = m
    BY <1>2, <2>1, ReplyOf, SystemFacts DEF m
  <2>4. AnsweredRequestDeadLettered(AsReply(b))
    BY <1>3, <2>2, <2>3 DEF AnsweredRequestDeadLettered
  <2> QED
    BY <1>7, <2>2, <2>4 DEF Next, Disturbance
<1> QED
  BY <1>8, <1>9

(* The other steps of the inventory-service change nothing the orders-     *)
(* service sees.                                                           *)
LEMMA QuietLinks ==
  ASSUME Linked,
         \/ /\ \/ \E w \in Stock!Routes :
                    \/ Stock!Take(w) \/ Stock!Process(w) \/ Stock!Ack(w)
                    \/ Stock!ChildLost(w) \/ Stock!Exit(w) \/ Stock!Shutdown(w)
               \/ Stock!MainSeesExit
               \/ Stock!FaultStarts \/ Stock!FaultEnds \/ Stock!OutageStarts \/ Stock!OutageEnds
            /\ UNCHANGED vars
         \/ UNCHANGED systemVars
  PROVE  [Stock!Next]_(Stock!vars) /\ UNCHANGED vars /\ UNCHANGED asked /\ Linked'
<1>1. UNCHANGED vars
  BY DEF systemVars
<1>2. UNCHANGED systemVars => UNCHANGED Stock!vars
  BY DEF systemVars, stockVars, Stock!vars
<1>3. [Stock!Next]_(Stock!vars)
  BY <1>2 DEF Stock!Next, Stock!Work
<1>4. UNCHANGED <<asked, published, rejected>>
  BY DEF Stock!Take, Stock!Process, Stock!Ack, Stock!ChildLost, Stock!Exit, Stock!Shutdown,
     Stock!MainSeesExit, Stock!FaultStarts, Stock!FaultEnds, Stock!OutageStarts,
     Stock!OutageEnds, Stock!sent, systemVars, stockVars
<1>5. UNCHANGED <<requests, replies>>
  BY <1>1 DEF vars
<1> QED
  BY <1>1, <1>3, <1>4, <1>5, LinksKept

(* Each step of the system is a step of either service to the other.       *)
LEMMA SystemMoves ==
  ASSUME PossibleRequests = AllRequests, SystemInvariant, [SystemNext]_systemVars
  PROVE  /\ [Next]_vars /\ [Stock!Next]_(Stock!vars) /\ Linked'
         /\ asked' = asked \cup Sent
         /\ \/ reemissions' = reemissions
            \/ /\ reemissions' = reemissions + 1
               /\ \E w \in Shop!Routes : Shop!Publish(w) /\ Left(Shop!Request(w))
<1>1. CASE OrdersStep
  BY <1>1, OrdersLinks, OrdersMove DEF Enqueue
<1>2. ASSUME NEW w \in Shop!Routes, PublishReply(w)
      PROVE  /\ [Next]_vars /\ [Stock!Next]_(Stock!vars) /\ Linked'
             /\ asked' = asked \cup Sent
             /\ \/ reemissions' = reemissions
                \/ /\ reemissions' = reemissions + 1
                   /\ Shop!Publish(w) /\ Left(Shop!Request(w))
  <2>1. Stock!Publish(w) /\ Shop!Publish(w) /\ w \in Stock!Routes
    BY <1>2, SameInventory DEF PublishReply
  <2>2. asked' = asked /\ Sent = {}
    BY <1>2, <2>1 DEF Shop!Publish, PublishReply, Sent
  <2>3. Stock!Next
    BY <2>1 DEF Stock!Next, Stock!Work
  <2> QED
    BY <1>2, <2>1, <2>2, <2>3, PublishLinks
<1>3. ASSUME NEW w \in Shop!Routes, RejectRequest(w)
      PROVE  /\ [Next]_vars /\ [Stock!Next]_(Stock!vars) /\ Linked'
             /\ asked' = asked \cup Sent /\ reemissions' = reemissions
  <2>1. Stock!Raises(w) /\ Shop!Raises(w) /\ w \in Stock!Routes
    BY <1>3, SameInventory DEF RejectRequest
  <2>2. asked' = asked /\ Sent = {} /\ reemissions' = reemissions
    BY <1>3, <2>1 DEF Shop!Raises, RejectRequest, Sent
  <2>3. Stock!Next
    BY <2>1 DEF Stock!Next
  <2> QED
    BY <1>3, <2>2, <2>3, RejectLinks
<1>4. CASE ~OrdersStep /\ ~\E w \in Shop!Routes : PublishReply(w) \/ RejectRequest(w)
  <2>1. Linked
    BY DEF SystemInvariant
  <2>2. [Stock!Next]_(Stock!vars) /\ UNCHANGED vars /\ UNCHANGED asked /\ Linked'
    BY <1>4, <2>1, SameInventory, QuietLinks DEF SystemNext, StockStep
  <2>3. Sent = {} /\ UNCHANGED reemissions
    BY <2>2 DEF Sent, vars
  <2> QED
    BY <2>2, <2>3
<1> QED
  BY <1>1, <1>2, <1>3, <1>4

(* Killed workers pay for the answers that leave again.                    *)
LEMMA RepeatsStep ==
  ASSUME SystemInvariant, [Shop!Next]_(Shop!vars), reemissions \in Nat, stockCrashes \in Nat,
         stockCrashes' \in Nat,
         \/ reemissions' = reemissions
         \/ /\ reemissions' = reemissions + 1
            /\ \E w \in Shop!Routes : Shop!Publish(w) /\ Left(Shop!Request(w))
  PROVE  Repeats'
<1> DEFINE S == Shop!Again
           T == Shop!Again'
<1>1. /\ IsFiniteSet(S) /\ reemissions + Cardinality(S) <= stockCrashes
      /\ Shop!InventoryInvariant /\ Shop!OneDelivery
  BY DEF SystemInvariant, Repeats
<1>2. Cardinality(S) \in Nat
  BY <1>1, FS_CardinalityType
<1>3. \/ T \subseteq S /\ stockCrashes' >= stockCrashes
      \/ \E r \in PossibleRequests : T \subseteq S \cup {r} /\ stockCrashes' = stockCrashes + 1
  BY <1>1, ShopAssumption, Shop!AgainStep
<1> HIDE DEF S, T
<1>4. CASE reemissions' = reemissions
  <2>1. CASE T \subseteq S /\ stockCrashes' >= stockCrashes
    <3>1. IsFiniteSet(T) /\ Cardinality(T) <= Cardinality(S) /\ Cardinality(T) \in Nat
      BY <1>1, <2>1, FS_Subset, FS_CardinalityType
    <3> QED
      BY <1>1, <1>2, <1>4, <2>1, <3>1, stockCrashes' \in Nat DEF Repeats, T
  <2>2. ASSUME NEW r \in PossibleRequests, T \subseteq S \cup {r}, stockCrashes' = stockCrashes + 1
        PROVE  Repeats'
    <3>1. /\ IsFiniteSet(S \cup {r})
          /\ Cardinality(S \cup {r}) = Cardinality(S) \/ Cardinality(S \cup {r}) = Cardinality(S) + 1
      BY <1>1, FS_AddElement
    <3>2. IsFiniteSet(T) /\ Cardinality(T) <= Cardinality(S \cup {r}) /\ Cardinality(T) \in Nat
      BY <2>2, <3>1, FS_Subset, FS_CardinalityType
    <3>3. Cardinality(T) <= Cardinality(S) + 1
      <4> DEFINE n == Cardinality(S \cup {r})
      <4>1. n = Cardinality(S) \/ n = Cardinality(S) + 1
        BY <3>1
      <4>2. Cardinality(T) <= n /\ Cardinality(T) \in Nat
        BY <3>2
      <4> HIDE DEF n
      <4> QED
        BY <1>2, <4>1, <4>2
    <3>4. reemissions' + Cardinality(T) <= stockCrashes'
      BY <1>1, <1>2, <1>4, <2>2, <3>2, <3>3
    <3> QED
      BY <3>2, <3>4 DEF Repeats, T
  <2> QED
    BY <1>3, <2>1, <2>2
<1>5. ASSUME NEW w \in Shop!Routes, Shop!Publish(w), Left(Shop!Request(w)),
             reemissions' = reemissions + 1
      PROVE  Repeats'
  <2>1. T \subseteq S \ {Shop!Request(w)} /\ stockCrashes' = stockCrashes /\ Shop!Request(w) \in S
    BY <1>1, <1>5, ShopAssumption, Shop!PublishAgain DEF Left, S, T
  <2>2. IsFiniteSet(S \ {Shop!Request(w)})
          /\ Cardinality(S \ {Shop!Request(w)}) = Cardinality(S) - 1
    BY <1>1, <2>1, FS_RemoveElement
  <2>3. IsFiniteSet(T) /\ Cardinality(T) <= Cardinality(S) - 1 /\ Cardinality(T) \in Nat
    BY <2>1, <2>2, FS_Subset, FS_CardinalityType
  <2> QED
    BY <1>1, <1>2, <1>5, <2>1, <2>3 DEF Repeats, T
<1> QED
  BY <1>4, <1>5

(* What the orders-service knows goes on to hold.                          *)
LEMMA OrdersInvariantStep ==
  ASSUME PossibleRequests = AllRequests, SystemInvariant, [Next]_vars, asked' = asked \cup Sent
  PROVE  /\ Safe' /\ Recorded' /\ Answered'
         /\ FirstAlone' /\ Held' /\ Routed' /\ Endings' /\ Numbering' /\ Undisturbed'
<1>1. /\ Safe /\ Recorded /\ Answered /\ FirstAlone /\ Held /\ Routed /\ Endings /\ Numbering
      /\ Undisturbed
      /\ asked \subseteq AllRequests /\ TypeOK /\ EffectsFresh /\ Exclusive
  BY SystemFacts DEF SystemInvariant, Safe, Coordinated, Exclusive
<1>2. Safe' /\ Recorded' /\ Answered'
  BY <1>1, SafeStep, StoryStep, ExplainedStep, KindsStep, AnsweredStep DEF Safe, Recorded
<1>3. FirstAlone' /\ Held' /\ Endings' /\ Numbering'
  BY <1>1, FirstAloneStep, HeldStep, EndingsStep, NumberingStep
<1>4. Routed'
  BY <1>1, <1>2, RoutedRowsStep DEF Recorded
<1>5. Undisturbed'
  BY <1>1, UndisturbedStep
<1> QED
  BY <1>2, <1>3, <1>4, <1>5

(* So does what the inventory-service knows.                               *)
LEMMA ShopInvariantStep ==
  ASSUME SystemInvariant, [Shop!Next]_(Shop!vars)
  PROVE  Shop!InventoryInvariant' /\ Shop!OneDelivery' /\ Shop!OwnRows'
<1>1. Shop!InventoryInvariant /\ Shop!OneDelivery /\ Shop!OwnRows
  BY DEF SystemInvariant
<1>2. Shop!InventoryInvariant'
  BY <1>1, ShopAssumption, Shop!InvariantStep
<1>3. Shop!OneDelivery'
  BY <1>1, ShopAssumption, Shop!DeliveryStep
<1>4. Shop!OwnRows'
  BY <1>1, ShopAssumption, Shop!OwnRowsStep
<1> QED
  BY <1>2, <1>3, <1>4

(* The invariant of the two services together.                             *)
LEMMA SystemStep ==
  ASSUME PossibleRequests = AllRequests, SystemInvariant, [SystemNext]_systemVars
  PROVE  SystemInvariant' /\ [Next]_vars /\ [Stock!Next]_(Stock!vars)
<1>1. /\ [Next]_vars /\ [Stock!Next]_(Stock!vars) /\ Linked'
      /\ asked' = asked \cup Sent
      /\ \/ reemissions' = reemissions
         \/ /\ reemissions' = reemissions + 1
            /\ \E w \in Shop!Routes : Shop!Publish(w) /\ Left(Shop!Request(w))
  BY SystemMoves
<1>2. [Shop!Next]_(Shop!vars)
  BY <1>1, SameInventory
<1>3. /\ Safe' /\ Recorded' /\ Answered'
      /\ FirstAlone' /\ Held' /\ Routed' /\ Endings' /\ Numbering' /\ Undisturbed'
  BY <1>1, OrdersInvariantStep
<1>4. Shop!InventoryInvariant' /\ Shop!OneDelivery' /\ Shop!OwnRows'
  BY <1>2, ShopInvariantStep
<1>5. reemissions \in Nat /\ stockCrashes \in Nat /\ stockCrashes' \in Nat
  <2>1. reemissions \in 0 .. MaxReemissions /\ stockCrashes \in 0 .. MaxStockCrashes
    BY SystemFacts DEF Shop!InventoryTypeOK, TypeOK, BoundsType
  <2>2. stockCrashes' \in 0 .. MaxStockCrashes
    BY <1>4 DEF Shop!InventoryInvariant, Shop!InventoryTypeOK
  <2> QED
    BY <2>1, <2>2
<1>6. Repeats'
  BY <1>1, <1>2, <1>5, RepeatsStep
<1> QED
  BY <1>1, <1>3, <1>4, <1>6 DEF SystemInvariant

(* It holds at the start.                                                  *)
LEMMA InitSystem ==
  ASSUME SystemInit
  PROVE  SystemInvariant
<1>1. Init /\ Shop!Init /\ Stock!Init
  BY SameInventory DEF SystemInit
<1>2. Safe /\ Answered
  BY <1>1, InitSafe, InitAnswered
<1>3. Recorded
  <2>1. \A a \in Actors : actor[a] = Free
    BY <1>1 DEF Init
  <2>2. MessagesExplained /\ KindsOfQueues
    BY <1>1, <2>1, NothingHeld DEF Init, MessagesExplained, HandlerExplained, Queued, KindsOfQueues
  <2> QED
    BY <1>1, <2>2, InitStory DEF Recorded
<1>4. FirstAlone /\ Held /\ Numbering
  <2>1. /\ \A a \in Actors : actor[a].effects = <<>>
        /\ asked = {}
    BY <1>1 DEF Init, Free, Shop!Init
  <2> QED
    BY <2>1 DEF FirstAlone, Unsent, Held, Numbering, Actors
<1>5. Routed /\ Endings
  BY <1>1 DEF Init, Routed, Endings, Rows
<1>6. Shop!InventoryInvariant /\ Shop!OneDelivery /\ Shop!OwnRows
  <2>1. Shop!InventoryInvariant
    BY <1>1, ShopAssumption, Shop!InitInvariant
  <2>2. Shop!OneDelivery /\ Shop!OwnRows
    BY <1>1, ShopAssumption, Shop!InitDelivery
  <2> QED
    BY <2>1, <2>2
<1>7. Linked /\ Repeats
  <2>1. /\ asked = {} /\ requests = {} /\ replies = {} /\ published = {}
        /\ reemissions = 0 /\ stockCrashes = 0
    BY <1>1 DEF Init, Shop!Init
  <2>2. Shop!Again = {}
    BY <2>1 DEF Shop!Again
  <2> QED
    BY <2>1, <2>2, FS_EmptySet DEF Linked, Repeats
<1>8. Undisturbed
  BY <1>1 DEF Init, Undisturbed, NoAnswerLost, Rows
<1> QED
  BY <1>2, <1>3, <1>4, <1>5, <1>6, <1>7, <1>8 DEF SystemInvariant

-----------------------------------------------------------------------------
(* What the two databases tell of each other.                              *)

(* An order completes only over a committed reservation.                   *)
LEMMA CompletedReserved ==
  ASSUME PossibleRequests = AllRequests, SystemInvariant, NEW t \in Tasks, order[t] = "COMPLETED"
  PROVE  IsReserved(t)
<1>1. /\ TypeOK /\ Trajectories /\ OrderMirrorsTask /\ Endings /\ Heard /\ Linked
      /\ Shop!SuccessMeansReserved
  BY SoundRows DEF SystemInvariant, Safe, Recorded, Answered, Shop!InventoryInvariant, Shop!Recorded
<1>2. task[t].status = "COMPLETED"
  BY <1>1, EndedOrder
<1>3. StatusTold(events[t], task[t])
  BY <1>1, <1>2, StoryOf DEF Story
<1>4. PICK i \in DOMAIN events[t] :
        events[t][i].type \in DOMAIN StatusAfter /\ "COMPLETED" \in StatusAfter[events[t][i].type]
  BY <1>2, <1>3 DEF StatusTold
<1>5. events[t][i].type = "TASK_COMPLETED"
  BY <1>4 DEF StatusAfter
<1>6. PICK k \in Rows(t, "SUCCEEDED") : TRUE
  BY <1>1, <1>4, <1>5 DEF Endings, Rows
<1>7. PICK n \in replies : n.task = t /\ n.kind = "SUCCEEDED"
  BY <1>1, <1>6 DEF Heard, Rows, Reported
<1>8. PICK a \in published : n = AsReply(a)
  BY <1>1, <1>7 DEF Linked
<1>9. a \in answers /\ a.request.task = t /\ a.result = "ok"
  BY <1>7, <1>8, ReplyOf, SystemFacts
<1> QED
  BY <1>1, <1>9 DEF Shop!SuccessMeansReserved, IsReserved

(* A reservation is held for an order that knows of it, will know of it,   *)
(* or had failed, or whose success could not be recorded.                  *)
LEMMA ReservedTold ==
  ASSUME PossibleRequests = AllRequests, SystemInvariant, NEW t \in Tasks, IsReserved(t)
  PROVE  order[t] = "COMPLETED" \/ SuccessPending(t) \/ SucceededTooLate(t) \/ SuccessLost(t)
<1>1. /\ TypeOK /\ OrderMirrorsTask /\ Endings /\ Linked
      /\ Shop!SuccessMeansReserved /\ Shop!OwnRows
      /\ losses = 0 \/ failures = 0 => NoAnswerLost
  BY SoundRows
  DEF SystemInvariant, Safe, Answered, Undisturbed, Shop!InventoryInvariant, Shop!Recorded
<1>2. PICK row \in reservations : row.task = t /\ row.by.task = t
  BY <1>1 DEF IsReserved, Shop!OwnRows
<1>3. PICK a \in answers : a.request = row.by /\ a.result = "ok"
  BY <1>1, <1>2 DEF Shop!SuccessMeansReserved, Shop!Stored
<1>4. CASE a \notin published
  BY <1>2, <1>3, <1>4 DEF SuccessPending
<1>5. CASE a \in published
  <2> DEFINE n == AsReply(a)
  <2>1. n \in replies /\ n.task = t /\ n.kind = "SUCCEEDED"
    BY <1>1, <1>2, <1>3, <1>5, ReplyOf, SystemFacts DEF Linked
  <2>2. losses = 0 \/ failures = 0 =>
          \/ \E i \in Rows(t, "SUCCEEDED") : events[t][i].ref = n.ref
          \/ \E m \in inbox \cup deadLetters : SameAnswer(m, n)
          \/ InRequest(Worker) /\ SameAnswer(actor[Worker].msg, n)
          \/ Rows(t, "MESSAGE_DEAD_LETTERED") # {}
    BY <1>1, <2>1 DEF NoAnswerLost
  <2>3. ASSUME NEW i \in Rows(t, "SUCCEEDED")
        PROVE  order[t] = "COMPLETED" \/ SucceededTooLate(t)
    BY <1>1, <2>3 DEF Endings, EndedBefore, SucceededTooLate
  <2>4. CASE Rows(t, "MESSAGE_DEAD_LETTERED") # {}
    <3>1. order[t] \in {"COMPLETED", "FAILED"}
      BY <1>1, <2>4, EndedOrder DEF Endings
    <3> QED
      BY <2>3, <2>4, <3>1 DEF SucceededTooLate
  <2>5. ASSUME \/ \E m \in inbox \cup deadLetters : SameAnswer(m, n)
               \/ InRequest(Worker) /\ SameAnswer(actor[Worker].msg, n)
        PROVE  SuccessPending(t)
    BY <1>2, <1>3, <2>5 DEF SuccessPending
  <2>6. CASE losses # 0 /\ failures # 0
    <3>1. losses > 0 /\ failures > 0
      BY <1>1, <2>6 DEF TypeOK, BoundsType
    <3> QED
      BY <2>3, <3>1 DEF SuccessLost
  <2> QED
    BY <2>2, <2>3, <2>4, <2>5, <2>6
<1> QED
  BY <1>4, <1>5

(* The invariant of the two services holds in every state they reach, and  *)
(* each step is a step of either.                                          *)
LEMMA AlwaysSystem ==
  ASSUME PossibleRequests = AllRequests
  PROVE  SystemSpec => []SystemInvariant /\ [][Next]_vars /\ [][Stock!Next]_(Stock!vars)
<1>1. SystemInit => SystemInvariant
  BY InitSystem
<1>2. SystemInvariant /\ [SystemNext]_systemVars
        => SystemInvariant' /\ [Next]_vars /\ [Stock!Next]_(Stock!vars)
  BY SystemStep
<1> QED
  BY <1>1, <1>2, PTL DEF SystemSpec

(* No transaction spans orders.db and inventory.db; still, whatever dies,  *)
(* raises, expires or comes again, an order is COMPLETED only over a       *)
(* reservation that was committed, and a reservation is held only for an   *)
(* order that completed, has its success on the way, or had failed before  *)
(* it came (failed_orders_with_reservation, run_scenario.py), unless an    *)
(* exception rejected the success and tasks.dlq could not record it.       *)
THEOREM StockAlwaysAgrees ==
  ASSUME PossibleRequests = AllRequests
  PROVE  SystemSpec => []StockAgrees
<1>1. SystemInvariant => StockAgrees
  BY CompletedReserved, ReservedTold DEF StockAgrees
<1> QED
  BY <1>1, AlwaysSystem, PTL

(* What the inventory-service was proved to do for any requests it does    *)
(* for those of the orders-service: they come one by one, numbered upwards *)
(* for each task, and never a second time.                                 *)
THEOREM SystemImplementsInventory ==
  ASSUME PossibleRequests = AllRequests
  PROVE  SystemSpec => ImplementsInventory
<1>1. SystemInit => Stock!Init
  BY DEF SystemInit
<1> QED
  BY <1>1, AlwaysSystem, PTL DEF SystemSpec, ImplementsInventory, Stock!Spec

(* What the orders-service was proved to do in any environment it does     *)
(* with the inventory-service for one: queues, workers, faults and the end *)
(* of the container show it nothing but the answers, the repetitions and   *)
(* the dead letters OrdersCoordination lets its environment choose.        *)
THEOREM SystemImplementsCoordination ==
  ASSUME PossibleRequests = AllRequests
  PROVE  SystemSpec => ImplementsCoordination
<1>1. SystemInit => Init
  BY DEF SystemInit
<1> QED
  BY <1>1, AlwaysSystem, PTL DEF SystemSpec, ImplementsCoordination, Spec
=============================================================================
