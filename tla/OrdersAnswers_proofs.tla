-------------------------- MODULE OrdersAnswers_proofs --------------------------
(***************************************************************************)
(* For any tasks, limits and numbers of faults: the policy of rules is     *)
(* never refused by the validator at a decision point a live task reaches, *)
(* and no answer of the inventory-service disappears.                      *)
(***************************************************************************)
EXTENDS OrdersTrajectory_proofs

-----------------------------------------------------------------------------
(* What a transaction does to the result and the route of a task.          *)

RowFits(t) == Fits(task[t].lastResult, task[t].target)

(* A task on its fallback route made its latest request there.             *)
LatestRouted(t) ==
  task[t].fallbackUsed =>
    \A i \in DOMAIN events[t] : IsLatestRequest(t, i) => events[t][i].target = Fallback

(* A live task at a decision point, or waiting for one, has a result and a *)
(* route the rules are about.                                              *)
RulesFit ==
  /\ \A a \in Actors : Deciding(a) /\ ~Terminal(actor[a].task) => RowFits(actor[a].task)
  /\ \A t \in Tasks : task[t].status = "WAITING" => RowFits(t)

(* A row is requested on the fallback route, or the route does not change. *)
RouteMoves(t) ==
  \/ /\ task'[t].fallbackUsed = task[t].fallbackUsed
     /\ \A i \in DOMAIN events'[t] : i \notin DOMAIN events[t] => events'[t][i].type # "REQUESTED"
  \/ ~task'[t].fallbackUsed
  \/ LET last == Len(events'[t])
     IN  /\ last \in DOMAIN events'[t] /\ events'[t][last].type = "REQUESTED"
         /\ ~events'[t][last].redelivered /\ events'[t][last].target = Fallback

(* The result and the route stay, the task leaves the decision behind, or  *)
(* it has another result of its route.                                     *)
ResultMoves(row, new) ==
  \/ new.status = row.status /\ new.lastResult = row.lastResult /\ new.target = row.target
  \/ new.status \notin {"PENDING", "WAITING"} /\ new.lastResult = row.lastResult
  \/ new.status \in TerminalStatuses
  \/ Fits(new.lastResult, new.target)

Moves(t) == RouteMoves(t) /\ ResultMoves(task[t], task'[t])

(* A transaction that writes one row of the trajectory.                    *)
LEMMA WriteMoves ==
  ASSUME TypeOK, NEW t \in Tasks, NEW new, NEW e \in EventRow, Write(t, new, <<e>>),
         (e.type # "REQUESTED" /\ new.fallbackUsed = task[t].fallbackUsed) \/ ~new.fallbackUsed,
         ResultMoves(task[t], new)
  PROVE  \A u \in Tasks : Moves(u)
<1>1. /\ task'[t] = new /\ events'[t] = events[t] \o <<e>> /\ events[t] \in Seq(EventRow)
      /\ \A u \in Tasks \ {t} : task'[u] = task[u] /\ events'[u] = events[u]
  BY DEF Write, TypeOK, DatabaseType
<1>2. events'[t] = Append(events[t], e)
  BY <1>1, AppendRows
<1>3. \A i \in DOMAIN events'[t] : i \notin DOMAIN events[t] => events'[t][i] = e
  BY <1>1, <1>2, AppendFacts
<1>4. Moves(t)
  BY <1>1, <1>3 DEF Moves, RouteMoves
<1>5. \A u \in Tasks \ {t} : Moves(u)
  BY <1>1 DEF Moves, RouteMoves, ResultMoves
<1> QED
  BY <1>4, <1>5

(* A step without a transaction, or with a repetition only.                *)
LEMMA StillMoves ==
  ASSUME TypeOK, task' = task,
         \A u \in Tasks : \A i \in DOMAIN events'[u] :
           i \notin DOMAIN events[u] => events'[u][i].type # "REQUESTED"
  PROVE  \A u \in Tasks : Moves(u)
BY DEF Moves, RouteMoves, ResultMoves

(* A row after a change of its status.                                     *)
LEMMA StatusChanged ==
  ASSUME NEW row \in TaskRow, NEW status \in TaskStatuses
  PROVE  /\ [row EXCEPT !.status = status] \in TaskRow
         /\ [row EXCEPT !.status = status].status = status
         /\ [row EXCEPT !.status = status].lastResult = row.lastResult
         /\ [row EXCEPT !.status = status].target = row.target
         /\ [row EXCEPT !.status = status].fallbackUsed = row.fallbackUsed
<1>1. [row EXCEPT !.status = status] \in TaskRow
  BY DEF TaskRow
<1> QED
  BY <1>1 DEF TaskRow

(* After a change of its last result.                                      *)
LEMMA ResultChanged ==
  ASSUME NEW row \in TaskRow, NEW result \in TaskResults \cup {None}
  PROVE  /\ [row EXCEPT !.lastResult = result] \in TaskRow
         /\ [row EXCEPT !.lastResult = result].status = row.status
         /\ [row EXCEPT !.lastResult = result].lastResult = result
         /\ [row EXCEPT !.lastResult = result].target = row.target
         /\ [row EXCEPT !.lastResult = result].fallbackUsed = row.fallbackUsed
<1>1. [row EXCEPT !.lastResult = result] \in TaskRow
  BY DEF TaskRow
<1> QED
  BY <1>1 DEF TaskRow

(* And numbered.                                                           *)
LEMMA NumberedKeeps ==
  ASSUME NEW row \in TaskRow
  PROVE  /\ Numbered(row) \in TaskRow
         /\ Numbered(row).status = row.status /\ Numbered(row).lastResult = row.lastResult
         /\ Numbered(row).target = row.target
         /\ Numbered(row).fallbackUsed = row.fallbackUsed
BY NumberedType DEF TaskRow, Numbered

(* The statuses and results transactions write.                            *)
LEMMA WrittenWords ==
  /\ {"PENDING", "DISPATCHED", "WAITING", "RETRYING", "FALLBACK_PROCESSING", "COMPLETED",
      "ABORTED", "DEAD_LETTERED"} \subseteq TaskStatuses
  /\ {"COMPLETED", "ABORTED", "DEAD_LETTERED"} = TerminalStatuses
  /\ {"ok", "timeout", "fallback_failed", "transient_error", "invalid_data"} \subseteq TaskResults
  /\ Primary \in Targets /\ Fallback \in Targets /\ None \in Targets
BY DEF TaskStatuses, ActiveStatuses, TerminalStatuses, TaskResults, TransientResults, Targets,
       Routes

-----------------------------------------------------------------------------
(* The transactions.                                                       *)

(* create_order_with_task.                                                 *)
LEMMA CreateMoves ==
  ASSUME TypeOK, NEW t \in Tasks, CreateOrder(t)
  PROVE  (\A u \in Tasks : Moves(u)) /\ RowFits(t)'
<1> DEFINE new == [AbsentRow EXCEPT !.status = "PENDING", !.seq = 1]
<1>1. new \in TaskRow /\ new.lastResult = None /\ new.target = None /\ ~new.fallbackUsed
  BY WrittenWords DEF AbsentRow, TaskRow
<1>2. Write(t, new, <<OwnEvent("TASK_CREATED", 0, new)>>)
  BY DEF CreateOrder
<1> HIDE DEF new
<1>3. OwnEvent("TASK_CREATED", 0, new) \in EventRow
  BY <1>1, OwnEventType DEF EventTypes
<1>4. Fits(new.lastResult, new.target)
  BY <1>1 DEF Fits, TransientResults, None
<1>5. task'[t] = new
  BY <1>2 DEF Write, TypeOK, DatabaseType
<1> QED
  BY <1>1, <1>2, <1>3, <1>4, <1>5, WriteMoves DEF ResultMoves, RowFits

(* The executor: only a wait keeps the task before its decision.           *)
LEMMA ExecuteMoves ==
  ASSUME TypeOK, Coordinated, Trajectories, RulesFit, NEW a \in Actors, ExecuteDecision(a)
  PROVE  \A u \in Tasks : Moves(u)
<1> DEFINE t == actor[a].task
           row == task[t]
<1>1. ASSUME At(a, "execute")
      PROVE  /\ t \in Tasks /\ row \in TaskRow /\ events[t] \in Seq(EventRow)
             /\ Consistent(events[t], row, Answers(t, processed))
             /\ ~Terminal(t) => RowFits(t)
  BY <1>1, CreatedTask, StoryOf DEF InRequest, At, Story, RulesFit, Deciding
<1>2. CASE ExecuteContinue(a)
  <2> DEFINE changed == [row EXCEPT !.status = "DISPATCHED", !.target = Primary]
             new == Numbered(changed)
  <2>1. t \in Tasks /\ row \in TaskRow /\ row.target = None /\ ~row.fallbackUsed
    BY <1>1, <1>2 DEF ExecuteContinue, Executing, Consistent, Counted, None, Fallback
  <2>2. Write(t, new, <<RequestEvent(new)>>)
    BY <1>2 DEF ExecuteContinue
  <2>3. changed \in TaskRow
    BY <2>1, ChangedRowType, WrittenWords
  <2>4. /\ changed.status = "DISPATCHED" /\ changed.lastResult = row.lastResult
        /\ ~changed.fallbackUsed
    BY <2>1 DEF TaskRow
  <2> HIDE DEF changed
  <2>5. /\ new \in TaskRow /\ new.seq \in Nat /\ new.status = "DISPATCHED"
        /\ new.lastResult = row.lastResult /\ ~new.fallbackUsed
    BY <2>3, <2>4, NumberedType DEF Numbered, TaskRow
  <2> HIDE DEF new
  <2>6. RequestEvent(new) \in EventRow
    BY <2>5, OwnEventType DEF RequestEvent, EventTypes
  <2> QED
    BY <2>1, <2>2, <2>5, <2>6, WriteMoves DEF ResultMoves
<1>3. CASE ExecuteRetry(a)
  <2> DEFINE changed == [row EXCEPT !.status = "RETRYING", !.attempt = @ + 1]
             new == Numbered(changed)
  <2>1. t \in Tasks /\ row \in TaskRow
    BY <1>1, <1>3 DEF ExecuteRetry, Executing
  <2>2. Write(t, new, <<OwnEvent("RETRY_SCHEDULED", 0, new)>>)
    BY <1>3 DEF ExecuteRetry
  <2>3. changed \in TaskRow
    BY <2>1, ChangedRowType, WrittenWords
  <2>4. /\ changed.status = "RETRYING" /\ changed.lastResult = row.lastResult
        /\ changed.fallbackUsed = row.fallbackUsed
    BY <2>1 DEF TaskRow
  <2> HIDE DEF changed
  <2>5. /\ new \in TaskRow /\ new.status = "RETRYING"
        /\ new.lastResult = row.lastResult /\ new.fallbackUsed = row.fallbackUsed
    BY <2>3, <2>4, NumberedType DEF Numbered, TaskRow
  <2> HIDE DEF new
  <2>6. /\ OwnEvent("RETRY_SCHEDULED", 0, new) \in EventRow
        /\ OwnEvent("RETRY_SCHEDULED", 0, new).type # "REQUESTED"
    BY <2>5, OwnEventFields DEF EventTypes
  <2> QED
    BY <2>1, <2>2, <2>5, <2>6, WriteMoves DEF ResultMoves
<1>4. CASE ExecuteWait(a)
  <2> DEFINE changed == [row EXCEPT !.status = "WAITING", !.waits = @ + 1]
             new == Numbered(changed)
  <2>1. t \in Tasks /\ row \in TaskRow /\ RowFits(t)
    BY <1>1, <1>4 DEF ExecuteWait, Executing
  <2>2. Write(t, new, <<OwnEvent("WAIT_SCHEDULED", new.waits, new)>>)
    BY <1>4 DEF ExecuteWait
  <2>3. changed \in TaskRow
    BY <2>1, ChangedRowType, WrittenWords
  <2>4. /\ changed.lastResult = row.lastResult /\ changed.target = row.target
        /\ changed.fallbackUsed = row.fallbackUsed
    BY <2>1 DEF TaskRow
  <2> HIDE DEF changed
  <2>5. /\ new \in TaskRow /\ new.waits \in Nat /\ new.target = row.target
        /\ new.lastResult = row.lastResult /\ new.fallbackUsed = row.fallbackUsed
    BY <2>3, <2>4, NumberedType DEF Numbered, TaskRow
  <2> HIDE DEF new
  <2>6. /\ OwnEvent("WAIT_SCHEDULED", new.waits, new) \in EventRow
        /\ OwnEvent("WAIT_SCHEDULED", new.waits, new).type # "REQUESTED"
    BY <2>5, OwnEventFields DEF EventTypes
  <2> QED
    BY <2>1, <2>2, <2>5, <2>6, WriteMoves DEF ResultMoves, RowFits
<1>5. CASE ExecuteFallback(a)
  <2> DEFINE changed == [row EXCEPT !.status = "FALLBACK_PROCESSING",
                                    !.target = actor[a].decision.target, !.fallbackUsed = TRUE]
             scheduled == Numbered(changed)
             new == Numbered(scheduled)
             x == OwnEvent("FALLBACK_SCHEDULED", 0, scheduled)
             e == RequestEvent(new)
  <2>1. /\ t \in Tasks /\ row \in TaskRow /\ events[t] \in Seq(EventRow)
        /\ actor[a].decision.target = Fallback
    <3>1. At(a, "execute") /\ actor[a].decision.action = "FALLBACK" /\ ~Terminal(t)
      BY <1>5 DEF ExecuteFallback, Executing
    <3> QED
      BY <1>1, <3>1, DecisionHolds DEF StillHolds
  <2>2. Write(t, new, <<x, e>>)
    BY <1>5 DEF ExecuteFallback
  <2>3. changed \in TaskRow
    BY <2>1, ChangedRowType, WrittenWords
  <2>4. /\ changed.status = "FALLBACK_PROCESSING" /\ changed.lastResult = row.lastResult
        /\ changed.target = Fallback
    BY <2>1 DEF TaskRow
  <2> HIDE DEF changed
  <2>5. /\ scheduled \in TaskRow /\ scheduled.status = "FALLBACK_PROCESSING"
        /\ scheduled.lastResult = row.lastResult /\ scheduled.target = Fallback
    BY <2>3, <2>4, NumberedType DEF Numbered, TaskRow
  <2> HIDE DEF scheduled
  <2>6. /\ new \in TaskRow /\ new.seq \in Nat /\ new.status = "FALLBACK_PROCESSING"
        /\ new.lastResult = row.lastResult /\ new.target = Fallback
    BY <2>5, NumberedType DEF Numbered, TaskRow
  <2> HIDE DEF new
  <2>7. x \in EventRow /\ e \in EventRow
    BY <2>5, <2>6, OwnEventType DEF RequestEvent, EventTypes
  <2>8. e.type = "REQUESTED" /\ ~e.redelivered /\ e.target = Fallback
    BY <2>6 DEF RequestEvent, OwnEvent
  <2> HIDE DEF x, e
  <2>9. /\ task'[t] = new /\ events'[t] = Append(Append(events[t], x), e)
        /\ \A u \in Tasks \ {t} : task'[u] = task[u] /\ events'[u] = events[u]
    <3>1. events'[t] = events[t] \o <<x, e>>
      BY <2>1, <2>2 DEF Write, TypeOK, DatabaseType
    <3> QED
      BY <2>1, <2>2, <2>7, <3>1, AppendRows DEF Write, TypeOK, DatabaseType
  <2>10. Len(events'[t]) \in DOMAIN events'[t] /\ events'[t][Len(events'[t])] = e
    <3>1. Append(events[t], x) \in Seq(EventRow)
      BY <2>1, <2>7, AppendRows
    <3>2. Len(Append(Append(events[t], x), e)) = Len(Append(events[t], x)) + 1
      BY <2>7, <3>1
    <3> QED
      BY <2>7, <2>9, <3>1, <3>2, AppendFacts
  <2>11. Moves(t)
    BY <2>6, <2>8, <2>9, <2>10 DEF Moves, RouteMoves, ResultMoves
  <2>12. \A u \in Tasks \ {t} : Moves(u)
    BY <2>9 DEF Moves, RouteMoves, ResultMoves
  <2> QED
    BY <2>11, <2>12
<1>6. CASE ExecuteAbort(a) /\ ~Terminal(t)
  <2> DEFINE changed == [row EXCEPT !.status = "ABORTED"]
             new == Numbered(changed)
  <2>1. t \in Tasks /\ row \in TaskRow
    BY <1>1, <1>6 DEF ExecuteAbort, Executing
  <2>2. Write(t, new, <<OwnEvent("TASK_ABORTED", 0, new)>>)
    BY <1>6 DEF ExecuteAbort
  <2>3. /\ changed \in TaskRow /\ changed.status = "ABORTED"
        /\ changed.fallbackUsed = row.fallbackUsed
    BY <2>1, StatusChanged, ResultChanged, NumberedKeeps, WrittenWords
  <2> HIDE DEF changed
  <2>4. /\ new \in TaskRow /\ new.status = "ABORTED" /\ new.fallbackUsed = row.fallbackUsed
    BY <2>3, NumberedFields
  <2> HIDE DEF new
  <2>5. /\ OwnEvent("TASK_ABORTED", 0, new) \in EventRow
        /\ OwnEvent("TASK_ABORTED", 0, new).type # "REQUESTED"
    BY <2>4, OwnEventFields DEF EventTypes
  <2> QED
    BY <2>1, <2>2, <2>4, <2>5, WriteMoves, WrittenWords DEF ResultMoves
<1>7. CASE ExecuteRaises(a) \/ (ExecuteAbort(a) /\ Terminal(t))
  <2>1. task' = task /\ events' = events
    BY <1>7 DEF ExecuteRaises, ExecuteAbort, database
  <2> QED
    BY <2>1, StillMoves
<1> QED
  BY <1>2, <1>3, <1>4, <1>5, <1>6, <1>7 DEF ExecuteDecision

(* A dead letter ends a live task, and says nothing of its result.         *)
LEMMA DeadLetterMoves ==
  ASSUME TypeOK, NEW m \in deadLetters, RecordDeadLetter(m)
  PROVE  \A u \in Tasks : Moves(u)
<1> DEFINE t == m.task
           row == task[t]
           changed == IF Terminal(t) THEN row ELSE [row EXCEPT !.status = "DEAD_LETTERED"]
           new == Numbered(changed)
<1>1. t \in Tasks /\ row \in TaskRow
  BY DEF TypeOK, DatabaseType, BrokerType, Message
<1>2. Write(t, new, <<OwnEvent("MESSAGE_DEAD_LETTERED", 0, new)>>)
  BY DEF RecordDeadLetter
<1>3. /\ changed \in TaskRow /\ changed.status \in TerminalStatuses
      /\ changed.fallbackUsed = row.fallbackUsed
  <2>1. CASE Terminal(t)
    BY <1>1, <2>1 DEF Terminal
  <2>2. CASE ~Terminal(t)
    <3> DEFINE ended == [row EXCEPT !.status = "DEAD_LETTERED"]
    <3>1. ended \in TaskRow /\ ended.status = "DEAD_LETTERED"
          /\ ended.fallbackUsed = row.fallbackUsed
      BY <1>1, StatusChanged, WrittenWords
    <3>2. changed = ended
      BY <2>2
    <3> HIDE DEF ended
    <3> QED
      BY <3>1, <3>2, WrittenWords
  <2> QED
    BY <2>1, <2>2
<1> HIDE DEF changed
<1>4. /\ new \in TaskRow /\ new.status \in TerminalStatuses
      /\ new.fallbackUsed = row.fallbackUsed
  BY <1>3, NumberedFields
<1> HIDE DEF new
<1>5. /\ OwnEvent("MESSAGE_DEAD_LETTERED", 0, new) \in EventRow
      /\ OwnEvent("MESSAGE_DEAD_LETTERED", 0, new).type # "REQUESTED"
  BY <1>4, OwnEventFields DEF EventTypes
<1> QED
  BY <1>1, <1>2, <1>4, <1>5, WriteMoves DEF ResultMoves

(* _record_repeated: the row is that of an answer.                         *)
LEMMA RepeatedMoves ==
  ASSUME TypeOK, NEW m \in inbox, HandleRepeated(m)
  PROVE  \A u \in Tasks : Moves(u)
<1> DEFINE t == m.task
           s == events[t]
           e == ReplyEvent(m, s[CHOOSE i \in DOMAIN s : IsFirstRowOf(t, i, m)].seq, TRUE)
           rows == IF \E i \in DOMAIN s : IsFirstRowOf(t, i, m) THEN <<e>> ELSE <<>>
<1>1. t \in Tasks /\ s \in Seq(EventRow) /\ events \in [Tasks -> Seq(EventRow)]
  BY DEF TypeOK, DatabaseType, BrokerType, Message
<1>2. task' = task /\ IsReply(m) /\ events' = [events EXCEPT ![t] = s \o rows]
  BY <1>1 DEF HandleRepeated
<1>3. e.type # "REQUESTED"
  BY <1>2 DEF ReplyEvent, IsReply, Reported
<1> HIDE DEF e
<1>4. rows \in Seq({e}) /\ \A i \in DOMAIN rows : rows[i] = e
  <2>1. <<e>> \in Seq({e}) /\ <<>> \in Seq({e})
    OBVIOUS
  <2>2. DOMAIN <<e>> = {1} /\ <<e>>[1] = e /\ DOMAIN <<>> = {}
    OBVIOUS
  <2>3. rows = <<e>> \/ rows = <<>>
    OBVIOUS
  <2> HIDE DEF rows
  <2>4. CASE rows = <<e>>
    BY <2>1, <2>2, <2>4
  <2>5. CASE rows = <<>>
    BY <2>1, <2>5
  <2> QED
    BY <2>3, <2>4, <2>5
<1> HIDE DEF rows
<1>5. \A i \in DOMAIN (s \o rows) : i \notin DOMAIN s => (s \o rows)[i] = e
  <2>1. s \in Seq(EventRow \cup {e}) /\ rows \in Seq(EventRow \cup {e})
    BY <1>1, <1>4
  <2>2. /\ DOMAIN (s \o rows) = 1 .. (Len(s) + Len(rows)) /\ DOMAIN s = 1 .. Len(s)
        /\ DOMAIN rows = 1 .. Len(rows) /\ Len(s) \in Nat /\ Len(rows) \in Nat
        /\ \A i \in 1 .. (Len(s) + Len(rows)) :
             i > Len(s) => (s \o rows)[i] = rows[i - Len(s)]
    BY <2>1
  <2>3. ASSUME NEW i \in DOMAIN (s \o rows), i \notin DOMAIN s PROVE (s \o rows)[i] = e
    <3>1. i > Len(s) /\ i - Len(s) \in DOMAIN rows
      BY <2>2, <2>3
    <3> QED
      BY <1>4, <2>2, <3>1
  <2> QED
    BY <2>3
<1>6. \A u \in Tasks : \A i \in DOMAIN events'[u] :
        i \notin DOMAIN events[u] => events'[u][i].type # "REQUESTED"
  BY <1>1, <1>2, <1>3, <1>5
<1> QED
  BY <1>2, <1>6, StillMoves

(* complete_task, or the row of an answer to a task that ended.            *)
LEMMA SucceededMoves ==
  ASSUME TypeOK, NEW m \in inbox, HandleSucceeded(m)
  PROVE  \A u \in Tasks : Moves(u)
<1> DEFINE t == m.task
           row == task[t]
           received == Numbered(row)
           changed == [received EXCEPT !.status = "COMPLETED", !.lastResult = "ok"]
           new == Numbered(changed)
           reply == ReplyEvent(m, received.seq, m.redelivered)
           completed == OwnEvent("TASK_COMPLETED", 0, new)
<1>1. /\ t \in Tasks /\ row \in TaskRow /\ m \in Message /\ m.kind = "SUCCEEDED"
      /\ events[t] \in Seq(EventRow)
  BY DEF HandleSucceeded, TypeOK, DatabaseType, BrokerType, Message
<1>2. /\ received \in TaskRow /\ received.status = row.status
      /\ received.fallbackUsed = row.fallbackUsed /\ received.lastResult = row.lastResult
      /\ received.target = row.target
  BY <1>1, StatusChanged, ResultChanged, NumberedKeeps, WrittenWords
<1>3. IF Terminal(t) THEN Write(t, received, <<reply>>) ELSE Write(t, new, <<reply, completed>>)
  BY DEF HandleSucceeded
<1> HIDE DEF received
<1>4. reply \in EventRow /\ reply.type # "REQUESTED"
  <2>1. received.seq \in Nat /\ m.redelivered \in BOOLEAN
    BY <1>1, <1>2 DEF TaskRow, Message
  <2>2. IsReply(m)
    BY <1>1 DEF IsReply, Reported
  <2>3. reply \in EventRow
    BY <1>1, <2>1, <2>2, ReplyEventType
  <2>4. reply.type # "REQUESTED"
    BY <1>1 DEF ReplyEvent
  <2> QED
    BY <2>3, <2>4
<1> HIDE DEF reply
<1>5. CASE Terminal(t)
  BY <1>1, <1>2, <1>3, <1>4, <1>5, WriteMoves DEF ResultMoves
<1>6. CASE ~Terminal(t)
  <2>1. changed \in TaskRow
    BY <1>2, WrittenWords DEF TaskRow
  <2>2. changed.status = "COMPLETED" /\ changed.fallbackUsed = row.fallbackUsed
    BY <1>2, <2>1 DEF TaskRow
  <2> HIDE DEF changed
  <2>3. /\ new \in TaskRow /\ new.status = "COMPLETED" /\ new.fallbackUsed = row.fallbackUsed
    BY <2>1, <2>2, NumberedFields
  <2> HIDE DEF new
  <2>4. completed \in EventRow /\ completed.type # "REQUESTED"
    BY <2>3, OwnEventFields DEF EventTypes
  <2> HIDE DEF completed
  <2>5. Write(t, new, <<reply, completed>>)
    BY <1>3, <1>6
  <2>6. /\ task'[t] = new /\ events'[t] = events[t] \o <<reply, completed>>
        /\ \A u \in Tasks \ {t} : task'[u] = task[u] /\ events'[u] = events[u]
    BY <1>1, <2>5 DEF Write, TypeOK, DatabaseType
  <2>7. events'[t] = Append(Append(events[t], reply), completed)
    BY <1>1, <1>4, <2>4, <2>6, AppendRows
  <2>8. \A i \in DOMAIN events'[t] :
          i \notin DOMAIN events[t] => events'[t][i] \in {reply, completed}
    <3>1. Append(events[t], reply) \in Seq(EventRow)
      BY <1>1, <1>4, AppendRows
    <3> QED
      BY <1>1, <1>4, <2>4, <2>7, <3>1, AppendFacts
  <2>9. Moves(t)
    BY <1>4, <2>3, <2>4, <2>6, <2>8, WrittenWords DEF Moves, RouteMoves, ResultMoves
  <2>10. \A u \in Tasks \ {t} : Moves(u)
    BY <2>6 DEF Moves, RouteMoves, ResultMoves
  <2> QED
    BY <2>9, <2>10
<1> QED
  BY <1>5, <1>6

(* Two requests of a task are told apart by their numbers.                 *)
LEMMA SeqIdentifies ==
  ASSUME NEW s \in Seq(EventRow), NEW n, Gapless(s, n),
         NEW i \in Of(s, "REQUESTED"), NEW k \in Of(s, "REQUESTED"), s[i].seq = s[k].seq
  PROVE  i = k
<1>1. i \in Firsts(s) /\ k \in Firsts(s)
  BY DEF Firsts, Of, Reported
<1>2. i \in Nat /\ k \in Nat /\ s[i] \in EventRow /\ s[k] \in EventRow
  BY ElementOfSeq DEF Of
<1>3. s[i].seq \in Nat /\ s[k].seq \in Nat
  BY <1>2 DEF EventRow
<1>4. ~(i < k) /\ ~(k < i)
  BY <1>1, <1>3 DEF Gapless
<1> QED
  BY <1>2, <1>4

(* _register_failure: the failure is one of the route the task is on.      *)
LEMMA FailedMoves ==
  ASSUME TypeOK, Coordinated, Trajectories, MessagesExplained,
         \A t \in Tasks : LatestRouted(t), NEW m \in inbox, HandleFailed(m)
  PROVE  /\ \A u \in Tasks : Moves(u)
         /\ ~Terminal(m.task) /\ IsCurrentRequest(m.task, m.ref) => RowFits(m.task)'
<1> DEFINE t == m.task
           s == events[t]
           row == task[t]
           received == Numbered(row)
           current == ~Terminal(t) /\ IsCurrentRequest(t, m.ref)
           result == IF current THEN FailureResult(m) ELSE received.lastResult
           new == [received EXCEPT !.lastResult = result]
           e == ReplyEvent(m, new.seq, m.redelivered)
<1>1. /\ m \in Message /\ t \in Tasks /\ row \in TaskRow /\ s \in Seq(EventRow)
      /\ m.redelivered \in BOOLEAN /\ Consistent(s, row, Answers(t, processed))
  BY HandlerStory
<1>2. m.kind = "FAILED" /\ Write(t, new, <<e>>)
  BY DEF HandleFailed
<1>3. /\ received \in TaskRow /\ received.status = row.status /\ received.target = row.target
      /\ received.fallbackUsed = row.fallbackUsed /\ received.lastResult = row.lastResult
  BY <1>1, StatusChanged, ResultChanged, NumberedKeeps, WrittenWords
<1>4. Explained(m, events)
  BY DEF MessagesExplained, Queued
<1>5. FailureResult(m) \in {"fallback_failed", "transient_error", "invalid_data"}
  BY <1>2, <1>4 DEF Explained, FailureResult, Outcomes
<1>6. result \in TaskResults \cup {None}
  BY <1>3, <1>5, WrittenWords DEF TaskRow
<1>7. ASSUME current, FailureResult(m) = "transient_error" PROVE row.target = Primary
  <2>1. m.target # Fallback
    BY <1>7 DEF FailureResult
  <2>2. PICK i \in Of(s, "REQUESTED") : s[i].seq = m.ref /\ s[i].target = m.target
    BY <1>2, <1>4 DEF Explained, AboutRequest, Reported, Of
  <2>3. PICK k \in DOMAIN s : IsLatestRequest(t, k) /\ s[k].seq = m.ref
    BY <1>7 DEF IsCurrentRequest
  <2>4. k \in Of(s, "REQUESTED")
    BY <2>3 DEF IsLatestRequest, IsRequest, Of
  <2>5. i = k
    BY <1>1, <2>2, <2>3, <2>4, SeqIdentifies DEF Consistent
  <2>6. ~row.fallbackUsed
    BY <1>1, <2>1, <2>2, <2>3, <2>5 DEF LatestRouted
  <2> QED
    BY <1>1, <2>4, <2>6 DEF Consistent, Counted
<1>8. current => Fits(result, row.target)
  BY <1>5, <1>7 DEF Fits, TransientResults, None
<1> HIDE DEF received, result
<1>9. /\ new \in TaskRow /\ new.status = row.status /\ new.target = row.target
      /\ new.fallbackUsed = row.fallbackUsed /\ new.lastResult = result
  <2>1. new \in TaskRow
    BY <1>3, <1>6 DEF TaskRow
  <2> QED
    BY <1>3, <2>1 DEF TaskRow
<1>10. ~current => result = row.lastResult
  BY <1>3 DEF result
<1> HIDE DEF new
<1>11. e \in EventRow /\ e.type # "REQUESTED"
  <2>1. new.seq \in Nat /\ IsReply(m)
    BY <1>2, <1>9 DEF TaskRow, IsReply, Reported
  <2>2. e \in EventRow
    BY <1>1, <2>1, ReplyEventType
  <2>3. e.type # "REQUESTED"
    BY <1>2 DEF ReplyEvent
  <2> QED
    BY <2>2, <2>3
<1> HIDE DEF e
<1>12. task'[t] = new
  BY <1>1, <1>2 DEF Write, TypeOK, DatabaseType
<1>13. ResultMoves(row, new)
  BY <1>8, <1>9, <1>10 DEF ResultMoves
<1> QED
  BY <1>1, <1>2, <1>8, <1>9, <1>11, <1>12, <1>13, WriteMoves DEF RowFits

(* register_timeout: a request is awaited, so the task has a route.        *)
LEMMA TimeoutMoves ==
  ASSUME TypeOK, Coordinated, Trajectories, NEW m \in inbox, HandleTimeout(m)
  PROVE  (\A u \in Tasks : Moves(u)) /\ RowFits(m.task)'
<1> DEFINE t == m.task
           s == events[t]
           row == task[t]
           result == IF row.target = Fallback THEN "fallback_failed" ELSE "timeout"
           changed == [row EXCEPT !.lastResult = result]
           new == Numbered(changed)
           e == OwnEvent("INVENTORY_TIMEOUT", m.ref, new)
<1>1. /\ t \in Tasks /\ m.ref \in Nat /\ row \in TaskRow /\ s \in Seq(EventRow)
      /\ Consistent(s, row, Answers(t, processed))
  BY HandlerStory
<1>2. IsAwaitingReply(t, m.ref) /\ Write(t, new, <<e>>)
  BY DEF HandleTimeout, TimeoutApplies
<1>3. row.target \in {Primary, Fallback}
  <2>1. Of(s, "REQUESTED") # {}
    BY <1>1, <1>2, AwaitingIsLatest
  <2> QED
    BY <1>1, <2>1 DEF Consistent, Counted
<1>4. Fits(result, row.target)
  BY <1>3 DEF Fits, TransientResults, None, Primary, Fallback
<1>5. result \in TaskResults \cup {None}
  BY WrittenWords
<1> HIDE DEF result
<1>6. /\ changed \in TaskRow /\ changed.target = row.target
      /\ changed.fallbackUsed = row.fallbackUsed /\ changed.lastResult = result
  BY <1>1, <1>5, StatusChanged, ResultChanged, NumberedKeeps, WrittenWords
<1> HIDE DEF changed
<1>7. /\ new \in TaskRow /\ new.target = row.target
      /\ new.fallbackUsed = row.fallbackUsed /\ new.lastResult = result
  BY <1>6, StatusChanged, ResultChanged, NumberedKeeps, WrittenWords
<1> HIDE DEF new
<1>8. e \in EventRow /\ e.type # "REQUESTED"
  BY <1>1, <1>7, OwnEventFields DEF EventTypes
<1> HIDE DEF e
<1>9. task'[t] = new
  BY <1>1, <1>2 DEF Write, TypeOK, DatabaseType
<1> QED
  BY <1>1, <1>2, <1>4, <1>7, <1>8, <1>9, WriteMoves DEF ResultMoves, RowFits

(* finish_wait.                                                            *)
LEMMA ReevaluateMoves ==
  ASSUME TypeOK, Coordinated, Trajectories, RulesFit, NEW m \in inbox, HandleReevaluate(m)
  PROVE  (\A u \in Tasks : Moves(u)) /\ RowFits(m.task)'
<1> DEFINE t == m.task
           row == task[t]
           new == Numbered(row)
           e == OwnEvent("WAIT_FINISHED", m.ref, new)
<1>1. t \in Tasks /\ m.ref \in Nat /\ row \in TaskRow
  BY HandlerStory
<1>2. row.status = "WAITING" /\ Write(t, new, <<e>>)
  BY DEF HandleReevaluate, WaitApplies
<1>3. /\ new \in TaskRow /\ new.target = row.target /\ new.status = row.status
      /\ new.fallbackUsed = row.fallbackUsed /\ new.lastResult = row.lastResult
  BY <1>1, StatusChanged, ResultChanged, NumberedKeeps, WrittenWords
<1> HIDE DEF new
<1>4. e \in EventRow /\ e.type # "REQUESTED"
  BY <1>1, <1>3, OwnEventFields DEF EventTypes
<1> HIDE DEF e
<1>5. task'[t] = new
  BY <1>1, <1>2 DEF Write, TypeOK, DatabaseType
<1>6. Fits(row.lastResult, row.target)
  BY <1>1, <1>2 DEF RulesFit, RowFits
<1> QED
  BY <1>1, <1>2, <1>3, <1>4, <1>5, <1>6, WriteMoves DEF ResultMoves, RowFits

(* dispatch_scheduled_attempt: only the primary route is tried again.      *)
LEMMA DispatchMoves ==
  ASSUME TypeOK, Coordinated, Trajectories, NEW m \in inbox, HandleDispatch(m)
  PROVE  \A u \in Tasks : Moves(u)
<1> DEFINE t == m.task
           row == task[t]
           changed == [row EXCEPT !.status = "DISPATCHED"]
           new == Numbered(changed)
<1>1. t \in Tasks /\ row \in TaskRow /\ Consistent(events[t], row, Answers(t, processed))
  BY HandlerStory
<1>2. row.status = "RETRYING" /\ Write(t, new, <<RequestEvent(new)>>)
  BY DEF HandleDispatch
<1>3. ~row.fallbackUsed
  BY <1>1, <1>2 DEF Consistent, RequestsFit, Counted, Primary, Fallback
<1>4. /\ changed \in TaskRow /\ changed.status = "DISPATCHED"
      /\ ~changed.fallbackUsed /\ changed.lastResult = row.lastResult
  BY <1>1, <1>3, StatusChanged, ResultChanged, NumberedKeeps, WrittenWords
<1> HIDE DEF changed
<1>5. /\ new \in TaskRow /\ new.status = "DISPATCHED" /\ ~new.fallbackUsed
      /\ new.lastResult = row.lastResult
  BY <1>4, StatusChanged, ResultChanged, NumberedKeeps, WrittenWords
<1> HIDE DEF new
<1>6. RequestEvent(new) \in EventRow
  BY <1>5, OwnEventFields DEF RequestEvent, EventTypes, TaskRow
<1> QED
  BY <1>1, <1>2, <1>5, <1>6, WriteMoves DEF ResultMoves

-----------------------------------------------------------------------------
(* Every step.                                                             *)

(* The result and the route of every task move as they may.                *)
LEMMA StepMoves ==
  ASSUME TypeOK, Coordinated, Trajectories, MessagesExplained, RulesFit,
         \A t \in Tasks : LatestRouted(t), [Next]_vars
  PROVE  \A u \in Tasks : Moves(u)
<1>1. ASSUME task' = task, events' = events PROVE \A u \in Tasks : Moves(u)
  BY <1>1, StillMoves
<1>2. ASSUME NEW a \in Actors, Act(a) PROVE \A u \in Tasks : Moves(u)
  <2>1. CASE TakeDecision(a) \/ SendNext(a) \/ Return(a)
    BY <1>1, <2>1 DEF TakeDecision, SendNext, Return, database
  <2> QED
    BY <1>2, <2>1, ExecuteMoves DEF Act
<1>3. ASSUME NEW m \in inbox, Handle(m) PROVE \A u \in Tasks : Moves(u)
  <2>1. CASE HandleStale(m)
    BY <1>1, <2>1 DEF HandleStale, database
  <2> QED
    BY <1>3, <2>1, RepeatedMoves, SucceededMoves, FailedMoves, TimeoutMoves, ReevaluateMoves,
       DispatchMoves DEF Handle
<1>4. ASSUME NEW m \in deadLetters,
             HandleDeadLetter(m) \/ HandleDeadLetterUnacknowledged(m) \/ DeadLetterLost(m)
      PROVE  \A u \in Tasks : Moves(u)
  BY <1>1, <1>4, DeadLetterMoves
  DEF HandleDeadLetter, HandleDeadLetterUnacknowledged, DeadLetterLost, database
<1>5. CASE \/ WorkerRaises \/ \E t \in Tasks : ApiRaises(t)
           \/ \E m \in inbox : HandlerRaises(m)
           \/ WorkerCrash \/ ApiCrash
  BY <1>1, <1>5
  DEF WorkerRaises, ApiRaises, Raises, HandlerRaises, WorkerCrash, ApiCrash, database
<1>6. CASE \/ \E t \in Tasks : DeadlinePasses(t)
           \/ \E m \in requests : RequestAnswered(m) \/ RequestDeadLettered(m)
           \/ \E m \in replies : AnswerSentAgain(m) \/ AnsweredRequestDeadLettered(m)
           \/ UNCHANGED vars
  BY <1>1, <1>6 DEF DeadlinePasses, RequestAnswered, RequestDeadLettered,
     AnswerSentAgain, AnsweredRequestDeadLettered, database, vars
<1> QED
  BY <1>2, <1>3, <1>4, <1>5, <1>6, CreateMoves DEF Next, WorkerStep, Disturbance, Actors

(* Who comes to a decision point: an order just opened, or the worker with *)
(* a failure, a timeout or the end of a wait it has just registered.       *)
LEMMA WhoBuilds ==
  ASSUME TypeOK, [Next]_vars, NEW b \in Actors, At(b, "build")'
  PROVE  \/ actor'[b] = actor[b]
         \/ /\ b \in Tasks
            /\ CreateOrder(b)
         \/ /\ b = Worker
            /\ \E m \in inbox :
                 /\ actor'[b].task = m.task
                 /\ \/ HandleFailed(m) /\ ~Terminal(m.task) /\ IsCurrentRequest(m.task, m.ref)
                    \/ HandleTimeout(m) \/ HandleReevaluate(m)
<1>1. actor \in [Actors -> ActorState] /\ Worker \in Actors /\ Tasks \subseteq Actors
  BY DEF TypeOK, ActorType, Actors
<1>2. \A a, r : actor' = [actor EXCEPT ![a] = r] /\ a # b => actor'[b] = actor[b]
  BY <1>1
<1>3. \A r : actor' = [actor EXCEPT ![b] = r] => actor'[b] = r /\ r.pc = "build"
  BY <1>1 DEF At
<1>4. Free.pc # "build" /\ Finished.pc # "build"
  BY DEF Free, Finished
<1>5. ASSUME NEW t \in Tasks, CreateOrder(t)
      PROVE  actor'[b] = actor[b] \/ (b \in Tasks /\ CreateOrder(b))
  BY <1>2, <1>5 DEF CreateOrder
<1>6. ASSUME NEW a \in Actors, Reject(a) PROVE actor'[b] = actor[b]
  BY <1>2, <1>3, <1>4, <1>6 DEF Reject
<1>7. ASSUME NEW a \in Actors, Act(a) PROVE actor'[b] = actor[b]
  <2>1. CASE a # b
    <3>1. \/ \E r : actor' = [actor EXCEPT ![a] = r]
          \/ Reject(a)
      BY <1>7 DEF Act, ExecuteDecision, TakeDecision, SendNext, Return, ExecuteRaises,
                  ExecuteContinue, ExecuteRetry, ExecuteWait, ExecuteFallback, ExecuteAbort,
                  ThenSend
    <3> QED
      BY <1>2, <1>6, <2>1, <3>1
  <2>2. CASE a = b
    <3>1. \A messages : ~ThenSend(b, messages)
      BY <1>1 DEF ThenSend, At, ActorState
    <3>2. ~SendNext(b)
      BY <1>1 DEF SendNext, At, ActorState
    <3>3. ~Return(b)
      BY <1>3, <1>4 DEF Return
    <3>4. ~TakeDecision(b)
      BY <1>1 DEF TakeDecision, At, ActorState
    <3> QED
      BY <1>6, <1>7, <2>2, <3>1, <3>2, <3>3, <3>4
      DEF Act, ExecuteDecision, ExecuteContinue, ExecuteRetry, ExecuteWait, ExecuteFallback,
          ExecuteAbort, ExecuteRaises
  <2> QED
    BY <2>1, <2>2
<1>8. ASSUME NEW m \in inbox, Handle(m), b = Worker
      PROVE  /\ actor'[b].task = m.task
             /\ \/ HandleFailed(m) /\ ~Terminal(m.task) /\ IsCurrentRequest(m.task, m.ref)
                \/ HandleTimeout(m) \/ HandleReevaluate(m)
  <2>1. ASSUME NEW pc, NEW messages, Begin(m, pc, messages)
        PROVE  actor'[b].task = m.task /\ pc = "build"
    BY <1>1, <1>8, <2>1 DEF Begin, At
  <2>2. ~HandleRepeated(m) /\ ~HandleSucceeded(m) /\ ~HandleStale(m)
    <3>1. \A messages : ~Begin(m, "effects", messages)
      BY <2>1
    <3>2. ~HandleRepeated(m)
      BY <3>1 DEF HandleRepeated
    <3>3. ~HandleSucceeded(m)
      BY <3>1 DEF HandleSucceeded
    <3>4. ~HandleStale(m)
      BY <3>1 DEF HandleStale
    <3> QED
      BY <3>2, <3>3, <3>4
  <2>3. ~HandleDispatch(m)
    BY <2>1 DEF HandleDispatch
  <2>4. CASE HandleFailed(m)
    <3> DEFINE current == ~Terminal(m.task) /\ IsCurrentRequest(m.task, m.ref)
               pc == IF current THEN "build" ELSE "effects"
    <3>1. Begin(m, pc, <<>>)
      BY <2>4 DEF HandleFailed
    <3>2. actor'[b].task = m.task /\ pc = "build"
      <4> HIDE DEF pc
      <4> QED
        BY <2>1, <3>1
    <3> QED
      BY <2>4, <3>2
  <2>5. CASE HandleTimeout(m) \/ HandleReevaluate(m)
    BY <2>1, <2>5 DEF HandleTimeout, HandleReevaluate
  <2> QED
    BY <1>8, <2>2, <2>3, <2>4, <2>5 DEF Handle
<1>9. ASSUME NEW m \in inbox, Handle(m), b # Worker PROVE actor'[b] = actor[b]
  <2>1. \E r : actor' = [actor EXCEPT ![Worker] = r]
    BY <1>9 DEF Handle, HandleRepeated, HandleSucceeded, HandleFailed, HandleTimeout,
                HandleReevaluate, HandleDispatch, HandleStale, Begin
  <2> QED
    BY <1>2, <1>9, <2>1
<1>10. ASSUME WorkerRaises \/ \E t \in Tasks : ApiRaises(t) PROVE actor'[b] = actor[b]
  BY <1>1, <1>6, <1>10 DEF WorkerRaises, ApiRaises, Raises
<1>11. ASSUME WorkerCrash PROVE actor'[b] = actor[b]
  BY <1>2, <1>3, <1>4, <1>11 DEF WorkerCrash
<1>12. ASSUME ApiCrash PROVE actor'[b] = actor[b]
  BY <1>1, <1>4, <1>12 DEF ApiCrash, At
<1>13. CASE \/ UNCHANGED vars
            \/ \E t \in Tasks : DeadlinePasses(t)
            \/ \E m \in inbox : HandlerRaises(m)
            \/ \E m \in deadLetters : \/ HandleDeadLetter(m) \/ HandleDeadLetterUnacknowledged(m)
                                      \/ DeadLetterLost(m)
            \/ \E m \in requests : RequestAnswered(m) \/ RequestDeadLettered(m)
            \/ \E m \in replies : AnswerSentAgain(m) \/ AnsweredRequestDeadLettered(m)
  <2>1. UNCHANGED actor
    BY <1>13 DEF vars, DeadlinePasses, HandlerRaises, HandleDeadLetter,
                 HandleDeadLetterUnacknowledged, DeadLetterLost, RequestAnswered,
                 RequestDeadLettered, AnswerSentAgain, AnsweredRequestDeadLettered
  <2> QED
    BY <2>1
<1>14. ASSUME NEW m \in inbox, Handle(m)
       PROVE  \/ actor'[b] = actor[b]
              \/ /\ b = Worker
                 /\ \E n \in inbox :
                      /\ actor'[b].task = n.task
                      /\ \/ HandleFailed(n) /\ ~Terminal(n.task) /\ IsCurrentRequest(n.task, n.ref)
                         \/ HandleTimeout(n) \/ HandleReevaluate(n)
  BY <1>8, <1>9, <1>14
<1>15. CASE \/ \E t \in Tasks : CreateOrder(t)
            \/ \E a \in Actors : Act(a)
            \/ \E m \in inbox : Handle(m)
  BY <1>5, <1>7, <1>14, <1>15
<1> QED
  BY <1>10, <1>11, <1>12, <1>13, <1>15 DEF Next, WorkerStep, Disturbance, Actors

(* The invariant about the rules.                                          *)
Ruled == RulesFit /\ \A t \in Tasks : LatestRouted(t)

(* A row of the trajectory of a task, before or appended.                  *)
LEMMA RoutedStep ==
  ASSUME TypeOK, TypeOK', [Next]_vars, NEW t \in Tasks, RouteMoves(t), LatestRouted(t)
  PROVE  LatestRouted(t)'
<1> SUFFICES ASSUME task'[t].fallbackUsed, NEW i \in DOMAIN events'[t], IsLatestRequest(t, i)'
             PROVE  events'[t][i].target = Fallback
  BY DEF LatestRouted
<1>1. /\ events[t] \in Seq(EventRow) /\ events'[t] \in Seq(EventRow)
      /\ Len(events[t]) <= Len(events'[t])
      /\ \A j \in DOMAIN events[t] : j \in DOMAIN events'[t] /\ events'[t][j] = events[t][j]
  <2>1. events[t] \in Seq(EventRow) /\ events'[t] \in Seq(EventRow)
    BY DEF TypeOK, DatabaseType
  <2> QED
    BY <2>1, StepExplains DEF Grows
<1>2. /\ events'[t][i].type = "REQUESTED" /\ ~events'[t][i].redelivered
      /\ \A j \in DOMAIN events'[t] :
           events'[t][j].type = "REQUESTED" /\ ~events'[t][j].redelivered => j <= i
  BY DEF IsLatestRequest, IsRequest
<1>3. CASE /\ task'[t].fallbackUsed = task[t].fallbackUsed
           /\ \A j \in DOMAIN events'[t] :
                j \notin DOMAIN events[t] => events'[t][j].type # "REQUESTED"
  <2>1. i \in DOMAIN events[t]
    BY <1>2, <1>3
  <2>2. IsLatestRequest(t, i)
    BY <1>1, <1>2, <2>1 DEF IsLatestRequest, IsRequest
  <2> QED
    BY <1>1, <1>3, <2>1, <2>2 DEF LatestRouted
<1>4. CASE LET last == Len(events'[t])
           IN  /\ last \in DOMAIN events'[t] /\ events'[t][last].type = "REQUESTED"
               /\ ~events'[t][last].redelivered /\ events'[t][last].target = Fallback
  <2>1. i <= Len(events'[t]) /\ Len(events'[t]) <= i /\ i \in Nat /\ Len(events'[t]) \in Nat
    BY <1>1, <1>2, <1>4
  <2> QED
    BY <1>4, <2>1
<1> QED
  BY <1>3, <1>4 DEF RouteMoves

(* Every step keeps it.                                                    *)
LEMMA RuledStep ==
  ASSUME Safe, Safe', Recorded, Ruled, [Next]_vars
  PROVE  Ruled'
<1>1. /\ TypeOK /\ TypeOK' /\ Coordinated /\ Trajectories /\ MessagesExplained /\ RulesFit
      /\ \A t \in Tasks : LatestRouted(t)
  BY DEF Safe, Recorded, Ruled
<1>2. \A u \in Tasks : Moves(u)
  BY <1>1, StepMoves
<1>3. \A t \in Tasks : LatestRouted(t)'
  BY <1>1, <1>2, RoutedStep DEF Moves
<1>4. ASSUME NEW t \in Tasks, task'[t].status = "WAITING" PROVE RowFits(t)'
  <2>1. ResultMoves(task[t], task'[t])
    BY <1>2 DEF Moves
  <2>2. task'[t].status \notin TerminalStatuses
    BY <1>4 DEF TerminalStatuses
  <2> QED
    BY <1>1, <1>4, <2>1, <2>2 DEF ResultMoves, RulesFit, RowFits
<1>5. ASSUME NEW b \in Actors, Deciding(b)',
             task'[actor'[b].task].status \notin TerminalStatuses
      PROVE  Fits(task'[actor'[b].task].lastResult, task'[actor'[b].task].target)
  <2>1. CASE actor'[b] = actor[b]
    <3> DEFINE u == actor[b].task
    <3>1. Deciding(b)
      BY <1>5, <2>1 DEF Deciding, At
    <3>2. u \in Tasks
      BY <1>1, <3>1, CreatedTask DEF Deciding, InRequest, At
    <3>3. task'[u].status \notin TerminalStatuses
      BY <1>5, <2>1 DEF Terminal
    <3>4. task'[u] = task[u]
      BY <1>1, <2>1, <3>1, <3>3, RowOfDecision DEF Terminal, TerminalStatuses
    <3>5. ~Terminal(u)
      BY <3>3, <3>4 DEF Terminal
    <3>6. RowFits(u)
      BY <1>1, <3>1, <3>5 DEF RulesFit
    <3> QED
      BY <2>1, <3>4, <3>6 DEF RowFits
  <2>2. CASE At(b, "execute")' /\ TakeDecision(b)
    <3>1. actor'[b].task = actor[b].task /\ task' = task /\ Deciding(b)
      BY <1>1, <2>2, TakenHolds DEF TakeDecision, database, Deciding
    <3>2. ~Terminal(actor[b].task)
      BY <1>5, <3>1 DEF Terminal
    <3> QED
      BY <1>1, <3>1, <3>2 DEF RulesFit, RowFits
  <2>3. CASE b \in Tasks /\ CreateOrder(b)
    <3>1. actor'[b].task = b
      <4>1. actor' = [actor EXCEPT ![b] = [Free EXCEPT !.pc = "build", !.task = b]]
        BY <2>3 DEF CreateOrder
      <4>2. [Free EXCEPT !.pc = "build", !.task = b].task = b
        BY DEF Free
      <4> HIDE DEF Free
      <4> QED
        BY <1>1, <4>1, <4>2 DEF TypeOK, ActorType
    <3>2. RowFits(b)'
      BY <1>1, <2>3, CreateMoves
    <3> QED
      BY <3>1, <3>2 DEF RowFits
  <2>4. ASSUME NEW m \in inbox, actor'[b].task = m.task,
               \/ HandleFailed(m) /\ ~Terminal(m.task) /\ IsCurrentRequest(m.task, m.ref)
               \/ HandleTimeout(m) \/ HandleReevaluate(m)
        PROVE  Fits(task'[actor'[b].task].lastResult, task'[actor'[b].task].target)
    <3>1. RowFits(m.task)'
      BY <1>1, <2>4, FailedMoves, TimeoutMoves, ReevaluateMoves
    <3> QED
      BY <2>4, <3>1 DEF RowFits
  <2> QED
    BY <1>1, <1>5, <2>1, <2>2, <2>3, <2>4, WhoBuilds, OnlyTakenExecute DEF Deciding
<1>6. RulesFit'
  BY <1>4, <1>5 DEF RulesFit, RowFits, Terminal
<1> QED
  BY <1>3, <1>6 DEF Ruled

(* At the beginning no task exists.                                        *)
LEMMA InitRuled == ASSUME Init PROVE Ruled
<1>1. \A a \in Actors : ~Deciding(a)
  BY DEF Init, Deciding, At, Free
<1>2. \A t \in Tasks : task[t].status # "WAITING" /\ ~task[t].fallbackUsed
  BY DEF Init, AbsentRow
<1> QED
  BY <1>1, <1>2 DEF Ruled, RulesFit, LatestRouted

(* Reachable states.                                                       *)
LEMMA AlwaysRuled == Spec => []Ruled
<1>1. Safe /\ Safe' /\ Recorded /\ Ruled /\ [Next]_vars => Ruled'
  BY RuledStep
<1> QED
  BY <1>1, InitRuled, AlwaysSafe, AlwaysRecorded, PTL DEF Spec

(* At every decision point a live task reaches, after any failures, waits, *)
(* late answers and crashes, and whatever the queues show: the policy of   *)
(* RulesDecisionEngine has a rule for the state and the validator it       *)
(* shares with the language model accepts what it proposes.                *)
THEOREM RulesAreAlwaysAccepted == Spec => []RulesAlwaysAccepted
<1>1. ASSUME Safe, Ruled PROVE RulesAlwaysAccepted
  <2> SUFFICES ASSUME NEW a \in Actors, At(a, "build"), ~Terminal(actor[a].task),
                      NEW s \in Snapshots(actor[a].task)
               PROVE  /\ FirstError(RulesPolicy(s), s) = None
                      /\ RulesPolicy(s).reason # "UNMAPPED_STATE"
    BY DEF RulesAlwaysAccepted
  <2> DEFINE t == actor[a].task
             row == task[t]
  <2>1. t \in Tasks /\ Created(t) /\ row \in TaskRow
    BY <1>1, CreatedTask DEF Safe, InRequest, At, TypeOK, DatabaseType
  <2>2. PICK c \in {0, 1}, f \in {0, 1}, q \in {0, QueueHighWatermark} :
          s = Snapshot(t, c, f, q)
    BY DEF Snapshots
  <2>3. /\ s.phase = row.status /\ s.currentTarget = row.target /\ s.attempt = row.attempt
        /\ s.waits = row.waits /\ s.lastResult = row.lastResult
        /\ s.fallbackUsed = row.fallbackUsed /\ s.fallbackAvailable = (f > 0)
        /\ s.elapsed = IF t \in expired THEN TaskDeadline ELSE 0
    BY <2>2 DEF Snapshot
  <2>4. row.status \in ActiveStatuses
    BY <1>1, <2>1, LiveStatus DEF Safe
  <2>5. Fits(row.lastResult, row.target)
    BY <1>1 DEF Ruled, RulesFit, Deciding, RowFits
  <2>6. row.target = None => row.status \in {"PENDING", "WAITING"}
    BY <1>1, <2>1 DEF Safe, Coordinated, UnroutedNotDispatched
  <2>7. s.attempt \in Nat /\ s.waits \in Nat /\ s.elapsed \in Nat
    BY <2>1, <2>3, LimitsAssumption DEF TaskRow
  <2>8. /\ s.fallbackUsed \in BOOLEAN /\ s.fallbackAvailable \in BOOLEAN
        /\ s.lastResult \in TaskResults \cup {None} /\ s.currentTarget \in Targets
    BY <2>1, <2>3 DEF TaskRow
  <2>9. /\ s.phase \in ActiveStatuses /\ Fits(s.lastResult, s.currentTarget)
        /\ s.currentTarget = None => s.phase \in {"PENDING", "WAITING"}
    BY <2>3, <2>4, <2>5, <2>6
  <2> QED
    BY <2>7, <2>8, <2>9, PolicyAccepted
<1> QED
  BY <1>1, AlwaysSafe, AlwaysRuled, PTL

-----------------------------------------------------------------------------
(* One answer for each request.                                            *)

About(m, n) == m.task = n.task /\ m.ref = n.ref

(* A request waits once and without an answer; its answers say the same.   *)
OneAnswer ==
  /\ \A m \in requests : m.kind = "REQUESTED" /\ \A n \in replies : ~About(m, n)
  /\ \A m, n \in requests : About(m, n) => m = n
  /\ \A m \in replies : m.kind \in Reported
  /\ \A m, n \in replies : About(m, n) => m.kind = n.kind

(* A handler has at most one request to send, the next message it sends:   *)
(* one nobody sent, and nobody else has to send.                           *)
EffectsFresh ==
  \A a \in Actors : \A i \in DOMAIN actor[a].effects :
    /\ actor[a].effects[i].kind \notin Reported
    /\ actor[a].effects[i].kind = "REQUESTED" =>
         /\ i = 1
         /\ \A n \in requests \cup replies : ~About(actor[a].effects[i], n)
         /\ \A b \in Actors \ {a} : \A j \in DOMAIN actor[b].effects :
              actor[b].effects[j].kind = "REQUESTED"
                => ~About(actor[a].effects[i], actor[b].effects[j])

(* The request of a row numbered after all those of its task.              *)
Leaves(messages) ==
  \/ \A i \in DOMAIN messages : messages[i].kind \notin AboutRequest
  \/ \E t \in Tasks, row \in TaskRow :
       messages = RequestMessages(t, row) /\ row.seq > task[t].seq

(* A scheduled message only.                                               *)
LEMMA ScheduledLeaves ==
  ASSUME NEW kind \in {"dispatch_attempt", "reevaluate"}, NEW t, NEW ref
  PROVE  Leaves(<<InternalMessage(kind, t, ref)>>) /\ Leaves(<<>>)
BY DEF Leaves, InternalMessage, AboutRequest, Reported

(* The executor: the messages of its transaction.                          *)
LEMMA ExecuteLeaves ==
  ASSUME TypeOK, NEW a \in Actors, ExecuteDecision(a), ~ExecuteRaises(a)
  PROVE  \E messages : ThenSend(a, messages) /\ Leaves(messages)
<1> DEFINE t == actor[a].task
<1>1. /\ t \in Tasks /\ task[t] \in TaskRow
      /\ actor[a].decision.target \in Targets
  BY DEF TypeOK, ActorType, DatabaseType, InRequest, At, ExecuteDecision, ExecuteContinue,
         ExecuteRetry, ExecuteWait, ExecuteFallback, ExecuteAbort, Executing, ActorState
<1>2. CASE ExecuteContinue(a)
  <2> DEFINE c == [task[t] EXCEPT !.status = "DISPATCHED", !.target = Primary]
             row == Numbered(c)
  <2>1. ThenSend(a, RequestMessages(t, row))
    BY <1>2 DEF ExecuteContinue
  <2>2. c \in TaskRow /\ c.seq = task[t].seq
    BY <1>1, WrittenWords DEF TaskRow
  <2> HIDE DEF c
  <2>3. row \in TaskRow /\ row.seq = c.seq + 1
    BY <2>2, NumberedFields
  <2> HIDE DEF row
  <2>4. row.seq > task[t].seq
    BY <1>1, <2>2, <2>3 DEF TaskRow
  <2> QED
    BY <1>1, <2>1, <2>3, <2>4 DEF Leaves
<1>3. CASE ExecuteFallback(a)
  <2> DEFINE c == [task[t] EXCEPT !.status = "FALLBACK_PROCESSING",
                                  !.target = actor[a].decision.target, !.fallbackUsed = TRUE]
             scheduled == Numbered(c)
             row == Numbered(scheduled)
  <2>1. ThenSend(a, RequestMessages(t, row))
    BY <1>3 DEF ExecuteFallback
  <2>2. c \in TaskRow /\ c.seq = task[t].seq
    BY <1>1, WrittenWords DEF TaskRow
  <2> HIDE DEF c
  <2>3. scheduled \in TaskRow /\ scheduled.seq = c.seq + 1
    BY <2>2, NumberedFields
  <2> HIDE DEF scheduled
  <2>4. row \in TaskRow /\ row.seq = scheduled.seq + 1
    BY <2>3, NumberedFields
  <2> HIDE DEF row
  <2>5. row.seq > task[t].seq
    BY <1>1, <2>2, <2>3, <2>4 DEF TaskRow
  <2> QED
    BY <1>1, <2>1, <2>4, <2>5 DEF Leaves
<1>4. CASE ExecuteRetry(a)
  BY <1>4, ScheduledLeaves DEF ExecuteRetry
<1>5. CASE ExecuteWait(a)
  BY <1>5, ScheduledLeaves DEF ExecuteWait
<1>6. CASE ExecuteAbort(a)
  BY <1>6, ScheduledLeaves DEF ExecuteAbort
<1> QED
  BY <1>2, <1>3, <1>4, <1>5, <1>6 DEF ExecuteDecision

(* The worker: the messages it has to send after its transaction.          *)
LEMMA HandleLeaves ==
  ASSUME TypeOK, NEW m \in inbox, Handle(m)
  PROVE  \E pc \in {"build", "effects"} : \E messages :
           Begin(m, pc, messages) /\ Leaves(messages)
<1>1. Leaves(<<>>)
  BY ScheduledLeaves
<1>2. CASE HandleRepeated(m) \/ HandleSucceeded(m) \/ HandleTimeout(m) \/ HandleReevaluate(m)
             \/ HandleStale(m)
  BY <1>1, <1>2 DEF HandleRepeated, HandleSucceeded, HandleTimeout, HandleReevaluate,
                    HandleStale
<1>3. CASE HandleFailed(m)
  <2>1. PICK pc \in {"build", "effects"} : Begin(m, pc, <<>>)
    BY <1>3 DEF HandleFailed
  <2> QED
    BY <1>1, <2>1
<1>4. CASE HandleDispatch(m)
  <2> DEFINE t == m.task
             c == [task[t] EXCEPT !.status = "DISPATCHED"]
             row == Numbered(c)
  <2>1. Begin(m, "effects", RequestMessages(t, row))
    BY <1>4 DEF HandleDispatch
  <2>2. t \in Tasks /\ task[t] \in TaskRow
    BY DEF TypeOK, BrokerType, DatabaseType, Message
  <2>3. c \in TaskRow /\ c.seq = task[t].seq
    BY <2>2, WrittenWords DEF TaskRow
  <2> HIDE DEF c
  <2>4. row \in TaskRow /\ row.seq = c.seq + 1
    BY <2>3, NumberedFields
  <2> HIDE DEF row
  <2>5. row.seq > task[t].seq
    BY <2>2, <2>3, <2>4 DEF TaskRow
  <2> QED
    BY <2>1, <2>2, <2>4, <2>5 DEF Leaves
<1> QED
  BY <1>2, <1>3, <1>4 DEF Handle

(* Effects are those of one transaction, or are dropped, or the first is   *)
(* sent.                                                                   *)
LEMMA EffectsMove ==
  ASSUME TypeOK, [Next]_vars
  PROVE  \/ \E a \in Actors : SendNext(a)
         \/ \A b \in Actors : \/ actor'[b].effects = actor[b].effects
                              \/ DOMAIN actor'[b].effects = {}
         \/ \E a \in Actors : /\ requests' = requests /\ replies' = replies
                              /\ Leaves(actor'[a].effects)
                              /\ \A b \in Actors \ {a} : actor'[b] = actor[b]
<1> DEFINE Quiet == \A b \in Actors : \/ actor'[b].effects = actor[b].effects
                                      \/ DOMAIN actor'[b].effects = {}
           Fresh == \E a \in Actors : /\ requests' = requests /\ replies' = replies
                                      /\ Leaves(actor'[a].effects)
                                      /\ \A b \in Actors \ {a} : actor'[b] = actor[b]
<1>1. /\ actor \in [Actors -> ActorState] /\ Worker \in Actors /\ Tasks \subseteq Actors
      /\ \A a \in Actors : actor[a] \in ActorState
  BY DEF TypeOK, ActorType, Actors
<1>2. ASSUME NEW a \in Actors, NEW r, actor' = [actor EXCEPT ![a] = r],
             r.effects = actor[a].effects \/ DOMAIN r.effects = {}
      PROVE  Quiet
  BY <1>1, <1>2
<1>3. DOMAIN Free.effects = {} /\ DOMAIN Finished.effects = {}
  BY NothingHeld
<1>4. ASSUME NEW a \in Actors, Reject(a) PROVE Quiet
  <2>1. PICK r \in {Free, Finished} : actor' = [actor EXCEPT ![a] = r]
    BY <1>4 DEF Reject
  <2> QED
    BY <1>2, <1>3, <2>1
<1>5. ASSUME NEW t \in Tasks, CreateOrder(t) PROVE Quiet
  <2> DEFINE r == [Free EXCEPT !.pc = "build", !.task = t]
  <2>1. actor' = [actor EXCEPT ![t] = r] /\ DOMAIN r.effects = {}
    BY <1>5 DEF CreateOrder, Free
  <2> HIDE DEF r
  <2> QED
    BY <1>1, <1>2, <2>1
<1>6. ASSUME NEW a \in Actors, Act(a), ~SendNext(a) PROVE Quiet \/ Fresh
  <2>1. CASE TakeDecision(a)
    <3>1. PICK d : actor' = [actor EXCEPT ![a].pc = "execute", ![a].decision = d]
      BY <2>1 DEF TakeDecision
    <3> DEFINE r == [actor[a] EXCEPT !.pc = "execute", !.decision = d]
    <3>2. actor' = [actor EXCEPT ![a] = r] /\ r.effects = actor[a].effects
      BY <1>1, <3>1 DEF ActorState
    <3> HIDE DEF r
    <3> QED
      BY <1>2, <3>2
  <2>2. CASE Return(a)
    <3>1. PICK r \in {Free, Finished} : actor' = [actor EXCEPT ![a] = r]
      BY <2>2 DEF Return
    <3> QED
      BY <1>2, <1>3, <3>1
  <2>3. CASE ExecuteRaises(a)
    BY <1>4, <2>3 DEF ExecuteRaises
  <2>4. CASE ExecuteDecision(a) /\ ~ExecuteRaises(a)
    <3>1. PICK messages : ThenSend(a, messages) /\ Leaves(messages)
      BY <2>4, ExecuteLeaves
    <3>2. requests' = requests /\ replies' = replies
      BY <2>4 DEF ExecuteDecision, ExecuteContinue, ExecuteRetry, ExecuteWait, ExecuteFallback,
                  ExecuteAbort, broker
    <3> DEFINE r == [actor[a] EXCEPT !.pc = "effects", !.decision = NoDecision,
                                     !.effects = messages]
    <3>3. actor' = [actor EXCEPT ![a] = r] /\ r.effects = messages
      BY <1>1, <3>1 DEF ThenSend, ActorState
    <3> HIDE DEF r
    <3>4. actor'[a].effects = messages /\ \A b \in Actors \ {a} : actor'[b] = actor[b]
      BY <1>1, <3>3
    <3> QED
      BY <3>1, <3>2, <3>4
  <2> QED
    BY <1>6, <2>1, <2>2, <2>3, <2>4 DEF Act
<1>7. ASSUME NEW m \in inbox, Handle(m) PROVE Fresh
  <2>1. PICK messages : Leaves(messages) /\ \E pc : Begin(m, pc, messages)
    BY <1>7, HandleLeaves
  <2>2. requests' = requests /\ replies' = replies
    BY <1>7 DEF Handle, HandleRepeated, HandleSucceeded, HandleFailed, HandleTimeout,
                HandleReevaluate, HandleDispatch, HandleStale
  <2>3. actor'[Worker].effects = messages /\ \A b \in Actors \ {Worker} : actor'[b] = actor[b]
    BY <1>1, <2>1 DEF Begin
  <2> QED
    BY <1>1, <2>1, <2>2, <2>3
<1>8. CASE WorkerRaises \/ \E t \in Tasks : ApiRaises(t)
  BY <1>1, <1>4, <1>8 DEF WorkerRaises, ApiRaises, Raises
<1>9. CASE WorkerCrash
  BY <1>1, <1>2, <1>3, <1>9 DEF WorkerCrash
<1>10. CASE ApiCrash
  BY <1>1, <1>3, <1>10 DEF ApiCrash
<1>11. CASE \/ \E t \in Tasks : DeadlinePasses(t)
            \/ \E m \in deadLetters : \/ HandleDeadLetter(m) \/ HandleDeadLetterUnacknowledged(m)
                                      \/ DeadLetterLost(m)
            \/ \E m \in inbox : HandlerRaises(m)
            \/ \E m \in requests : RequestAnswered(m) \/ RequestDeadLettered(m)
            \/ \E m \in replies : AnswerSentAgain(m) \/ AnsweredRequestDeadLettered(m)
            \/ UNCHANGED vars
  <2>1. UNCHANGED actor
    BY <1>11 DEF vars, DeadlinePasses, HandlerRaises, HandleDeadLetter,
                 HandleDeadLetterUnacknowledged, DeadLetterLost, RequestAnswered,
                 RequestDeadLettered, AnswerSentAgain, AnsweredRequestDeadLettered
  <2> QED
    BY <2>1
<1> HIDE DEF Quiet, Fresh
<1>12. CASE (\E a \in Actors : Act(a)) \/ \E m \in inbox : Handle(m)
  BY <1>6, <1>7, <1>12 DEF Quiet, Fresh
<1>13. CASE \/ \E t \in Tasks : CreateOrder(t) \/ ApiRaises(t)
            \/ WorkerRaises \/ WorkerCrash \/ ApiCrash
  BY <1>5, <1>8, <1>9, <1>10, <1>13 DEF Quiet, Fresh
<1>14. CASE Quiet
  BY <1>14 DEF Quiet
<1> QED
  BY <1>1, <1>11, <1>12, <1>13, <1>14 DEF Next, WorkerStep, Disturbance

(* An answer is recorded, a request sent.                                  *)
LEMMA OneAnswerStep ==
  ASSUME TypeOK, OneAnswer, EffectsFresh, [Next]_vars
  PROVE  OneAnswer'
<1>1. CASE requests' \subseteq requests /\ replies' = replies
  BY <1>1 DEF OneAnswer
<1>2. ASSUME NEW a \in Actors, SendNext(a) PROVE OneAnswer'
  <2> DEFINE q == actor[a].effects
             m == Head(q)
  <2>1. q \in Seq(Message) /\ q # <<>>
    BY <1>2 DEF SendNext, TypeOK, ActorType, ActorState
  <2>2. 1 \in DOMAIN q /\ m = q[1]
    BY <2>1
  <2>3. replies' = replies
    BY <1>2 DEF SendNext
  <2>4. CASE requests' = requests
    BY <2>3, <2>4 DEF OneAnswer
  <2>5. CASE m.kind = "REQUESTED" /\ requests' = requests \cup {m}
    <3>1. \A n \in requests \cup replies : ~About(m, n)
      BY <2>2, <2>5 DEF EffectsFresh
    <3>2. \A n \in requests : ~About(n, m)
      BY <3>1 DEF About
    <3> HIDE DEF m
    <3> QED
      BY <2>3, <2>5, <3>1, <3>2 DEF OneAnswer
  <2> QED
    BY <1>2, <2>4, <2>5 DEF SendNext
<1>3. ASSUME NEW m \in requests, RequestAnswered(m) PROVE OneAnswer'
  <2>1. PICK outcome : replies' = replies \cup {Answer(m, outcome)}
    BY <1>3 DEF RequestAnswered
  <2> DEFINE answer == Answer(m, outcome)
  <2>2. answer.task = m.task /\ answer.ref = m.ref /\ answer.kind \in Reported
    BY DEF Answer, Reported, TypeOK, BrokerType, Message
  <2>3. requests' = requests \ {m}
    BY <1>3 DEF RequestAnswered
  <2>4. \A n \in requests \ {m} : ~About(n, answer)
    BY <2>2 DEF OneAnswer, About
  <2>5. \A n \in replies : ~About(n, answer) /\ ~About(answer, n)
    BY <2>2 DEF OneAnswer, About
  <2> HIDE DEF answer
  <2>6. replies' = replies \cup {answer}
    BY <2>1 DEF answer
  <2> QED
    BY <2>2, <2>3, <2>4, <2>5, <2>6 DEF OneAnswer
<1> QED
  BY <1>1, <1>2, <1>3, QueuesMove

(* A request about which there is a message is numbered already.           *)
LEMMA RequestNumbered ==
  ASSUME TypeOK, Trajectories, NEW m \in Message, Explained(m, events), m.kind \in AboutRequest
  PROVE  m.ref <= task[m.task].seq
<1> DEFINE s == events[m.task]
<1>1. m.task \in Tasks /\ Gapless(s, task[m.task].seq)
  BY DEF Message, Trajectories, Story, Consistent
<1>2. PICK i \in DOMAIN s : s[i].type = "REQUESTED" /\ s[i].seq = m.ref
  BY DEF Explained
<1>3. i \in Firsts(s)
  BY <1>2 DEF Firsts, Reported
<1>4. s[i].seq \in 1 .. task[m.task].seq
  BY <1>1, <1>3 DEF Gapless
<1> QED
  BY <1>2, <1>4

(* A request not sent is still unknown to anyone.                          *)
LEMMA EffectsFreshStep ==
  ASSUME TypeOK, Trajectories, MessagesExplained, KindsOfQueues, EffectsFresh, [Next]_vars
  PROVE  EffectsFresh'
<1>1. \A a \in Actors : actor[a] \in ActorState /\ actor[a].effects \in Seq(Message)
  BY DEF TypeOK, ActorType, ActorState
<1>2. ASSUME NEW a \in Actors, SendNext(a) PROVE EffectsFresh'
  <2> DEFINE q == actor[a].effects
  <2>1. q \in Seq(Message) /\ q # <<>> /\ replies' = replies
    BY <1>1, <1>2 DEF SendNext
  <2>2. /\ 1 \in DOMAIN q /\ Head(q) = q[1]
        /\ \A i \in DOMAIN Tail(q) : i + 1 \in DOMAIN q /\ Tail(q)[i] = q[i + 1] /\ i + 1 # 1
    BY <2>1
  <2>3. \/ requests' = requests
        \/ q[1].kind = "REQUESTED" /\ requests' = requests \cup {q[1]}
    BY <1>2, <2>2 DEF SendNext
  <2>4. actor'[a].effects = Tail(q) /\ \A b \in Actors \ {a} : actor'[b] = actor[b]
    <3> DEFINE r == [actor[a] EXCEPT !.effects = Tail(@)]
    <3>1. r.effects = Tail(q)
      BY <1>1 DEF ActorState
    <3>2. actor' = [actor EXCEPT ![a] = r]
      BY <1>2 DEF SendNext
    <3> HIDE DEF r
    <3> QED
      BY <3>1, <3>2 DEF TypeOK, ActorType
  <2>5. \A i \in DOMAIN Tail(q) :
          Tail(q)[i].kind \notin Reported /\ Tail(q)[i].kind # "REQUESTED"
    BY <2>2 DEF EffectsFresh
  <2>6. ASSUME NEW b \in Actors \ {a}, NEW i \in DOMAIN actor[b].effects,
               actor[b].effects[i].kind = "REQUESTED"
        PROVE  /\ i = 1
               /\ \A n \in requests' \cup replies' : ~About(actor[b].effects[i], n)
               /\ \A c \in Actors \ {b} : \A j \in DOMAIN actor'[c].effects :
                    actor'[c].effects[j].kind = "REQUESTED"
                      => ~About(actor[b].effects[i], actor'[c].effects[j])
    <3>1. /\ i = 1
          /\ \A n \in requests \cup replies : ~About(actor[b].effects[i], n)
          /\ \A c \in Actors \ {b} : \A j \in DOMAIN actor[c].effects :
               actor[c].effects[j].kind = "REQUESTED"
                 => ~About(actor[b].effects[i], actor[c].effects[j])
      BY <2>6 DEF EffectsFresh
    <3>2. q[1].kind = "REQUESTED" => ~About(actor[b].effects[i], q[1])
      BY <2>2, <3>1
    <3>3. \A n \in requests' \cup replies' : ~About(actor[b].effects[i], n)
      BY <2>1, <2>3, <3>1, <3>2
    <3>4. \A c \in Actors \ {b} : \A j \in DOMAIN actor'[c].effects :
               actor'[c].effects[j].kind = "REQUESTED"
                 => ~About(actor[b].effects[i], actor'[c].effects[j])
      BY <2>4, <2>5, <3>1
    <3> QED
      BY <3>1, <3>3, <3>4
  <2>7. \A b \in Actors \ {a} : \A i \in DOMAIN actor[b].effects :
          actor[b].effects[i].kind \notin Reported
    BY DEF EffectsFresh
  <2> HIDE DEF q
  <2>8. ASSUME NEW b \in Actors, b # a, NEW i \in DOMAIN actor'[b].effects
        PROVE  /\ actor'[b].effects[i].kind \notin Reported
               /\ actor'[b].effects[i].kind = "REQUESTED" =>
                    /\ i = 1
                    /\ \A n \in requests' \cup replies' : ~About(actor'[b].effects[i], n)
                    /\ \A c \in Actors \ {b} : \A j \in DOMAIN actor'[c].effects :
                         actor'[c].effects[j].kind = "REQUESTED"
                           => ~About(actor'[b].effects[i], actor'[c].effects[j])
    <3>1. actor'[b] = actor[b] /\ i \in DOMAIN actor[b].effects
      BY <2>4, <2>8
    <3> QED
      BY <2>6, <2>7, <2>8, <3>1
  <2> QED
    BY <2>4, <2>5, <2>8 DEF EffectsFresh
<1>3. ASSUME ~\E a \in Actors : SendNext(a),
             \A b \in Actors : \/ actor'[b].effects = actor[b].effects
                               \/ DOMAIN actor'[b].effects = {}
      PROVE  EffectsFresh'
  <2>1. ASSUME NEW a \in Actors, NEW i \in DOMAIN actor[a].effects,
               actor[a].effects[i].kind = "REQUESTED", NEW n \in requests' \cup replies'
        PROVE  ~About(actor[a].effects[i], n)
    <3>1. \A k \in requests \cup replies : ~About(actor[a].effects[i], k)
      BY <2>1 DEF EffectsFresh
    <3>2. CASE requests' \subseteq requests /\ replies' = replies
      BY <2>1, <3>1, <3>2
    <3>3. ASSUME NEW m \in requests, RequestAnswered(m) PROVE ~About(actor[a].effects[i], n)
      <4>1. PICK outcome : replies' = replies \cup {Answer(m, outcome)}
        BY <3>3 DEF RequestAnswered
      <4>2. Answer(m, outcome).task = m.task /\ Answer(m, outcome).ref = m.ref
        BY DEF Answer, TypeOK, BrokerType, Message
      <4>3. requests' \subseteq requests
        BY <3>3 DEF RequestAnswered
      <4> QED
        BY <2>1, <3>1, <4>1, <4>2, <4>3 DEF About
    <3> QED
      BY <1>3, <3>2, <3>3, QueuesMove
  <2> QED
    BY <1>3, <2>1 DEF EffectsFresh
<1>4. ASSUME NEW a \in Actors, requests' = requests, replies' = replies,
             Leaves(actor'[a].effects), \A b \in Actors \ {a} : actor'[b] = actor[b]
      PROVE  EffectsFresh'
  <2>1. CASE \A i \in DOMAIN actor'[a].effects : actor'[a].effects[i].kind \notin AboutRequest
    BY <1>4, <2>1 DEF EffectsFresh, AboutRequest
  <2>2. ASSUME NEW t \in Tasks, NEW row \in TaskRow, row.seq > task[t].seq,
               actor'[a].effects = RequestMessages(t, row)
        PROVE  EffectsFresh'
    <3> DEFINE q == RequestMessages(t, row)
    <3>1. /\ DOMAIN q = {1, 2} /\ q[1].task = t /\ q[1].ref = row.seq
          /\ q[1].kind = "REQUESTED" /\ q[2].kind = "timeout_check"
      BY DEF RequestMessages, InternalMessage
    <3>2. ASSUME NEW m \in Message, Explained(m, events), m.kind \in AboutRequest
          PROVE  ~About(q[1], m) /\ ~About(m, q[1])
      <4>1. m.ref <= task[m.task].seq /\ m.ref \in Nat /\ m.task \in Tasks
        BY <3>2, RequestNumbered DEF Message
      <4>2. row.seq \in Nat /\ task[t].seq \in Nat
        BY DEF TypeOK, DatabaseType, TaskRow
      <4> QED
        BY <2>2, <3>1, <4>1, <4>2 DEF About
    <3>3. \A m \in requests \cup replies : ~About(q[1], m)
      BY <3>2 DEF TypeOK, BrokerType, KindsOfQueues, MessagesExplained, Queued
    <3>4. ASSUME NEW b \in Actors, NEW j \in DOMAIN actor[b].effects,
                 actor[b].effects[j].kind = "REQUESTED"
          PROVE  ~About(q[1], actor[b].effects[j]) /\ ~About(actor[b].effects[j], q[1])
      <4>1. actor[b].effects[j] \in Message
        BY <1>1, ElementOfSeq
      <4>2. Explained(actor[b].effects[j], events)
        BY DEF MessagesExplained, HandlerExplained
      <4> QED
        BY <3>2, <3>4, <4>1, <4>2 DEF AboutRequest
    <3> HIDE DEF q
    <3>5. actor'[a].effects = q
      BY <2>2 DEF q
    <3>6. /\ \A i \in DOMAIN q : /\ q[i].kind \notin Reported
                                 /\ q[i].kind = "REQUESTED" => i = 1
          /\ q[1].kind = "REQUESTED"
      BY <3>1 DEF Reported
    <3>7. ASSUME NEW i \in DOMAIN actor'[a].effects, actor'[a].effects[i].kind = "REQUESTED"
          PROVE  /\ i = 1
                 /\ \A n \in requests' \cup replies' : ~About(actor'[a].effects[i], n)
                 /\ \A b \in Actors \ {a} : \A j \in DOMAIN actor'[b].effects :
                      actor'[b].effects[j].kind = "REQUESTED"
                        => ~About(actor'[a].effects[i], actor'[b].effects[j])
      <4>1. i = 1 /\ actor'[a].effects[i] = q[1]
        BY <3>5, <3>6, <3>7
      <4>2. \A n \in requests' \cup replies' : ~About(actor'[a].effects[i], n)
        BY <1>4, <3>3, <4>1
      <4>3. \A b \in Actors \ {a} : \A j \in DOMAIN actor'[b].effects :
                      actor'[b].effects[j].kind = "REQUESTED"
                        => ~About(actor'[a].effects[i], actor'[b].effects[j])
        BY <1>4, <3>4, <4>1
      <4> QED
        BY <4>1, <4>2, <4>3
    <3>8. ASSUME NEW b \in Actors \ {a}, NEW i \in DOMAIN actor'[b].effects
          PROVE  /\ actor'[b].effects[i].kind \notin Reported
                 /\ actor'[b].effects[i].kind = "REQUESTED" =>
                      /\ i = 1
                      /\ \A n \in requests' \cup replies' : ~About(actor'[b].effects[i], n)
                      /\ \A c \in Actors \ {b} : \A j \in DOMAIN actor'[c].effects :
                           actor'[c].effects[j].kind = "REQUESTED"
                             => ~About(actor'[b].effects[i], actor'[c].effects[j])
      <4>1. actor'[b] = actor[b] /\ i \in DOMAIN actor[b].effects
        BY <1>4, <3>8
      <4>2. /\ actor[b].effects[i].kind \notin Reported
            /\ actor[b].effects[i].kind = "REQUESTED" =>
                 /\ i = 1
                 /\ \A n \in requests \cup replies : ~About(actor[b].effects[i], n)
                 /\ \A c \in Actors \ {b} : \A j \in DOMAIN actor[c].effects :
                      actor[c].effects[j].kind = "REQUESTED"
                        => ~About(actor[b].effects[i], actor[c].effects[j])
        BY <4>1 DEF EffectsFresh
      <4>3. ASSUME actor[b].effects[i].kind = "REQUESTED", NEW c \in Actors \ {b},
                   NEW j \in DOMAIN actor'[c].effects, actor'[c].effects[j].kind = "REQUESTED"
            PROVE  ~About(actor[b].effects[i], actor'[c].effects[j])
        <5>1. CASE c = a
          <6>1. actor'[a].effects[j] = q[1]
            BY <3>5, <3>6, <4>3, <5>1
          <6> QED
            BY <3>4, <4>1, <4>3, <5>1, <6>1
        <5>2. CASE c # a
          BY <1>4, <4>2, <4>3, <5>2
        <5> QED
          BY <5>1, <5>2
      <4> QED
        BY <1>4, <4>1, <4>2, <4>3
    <3> QED
      BY <3>5, <3>6, <3>7, <3>8 DEF EffectsFresh
  <2> QED
    BY <1>4, <2>1, <2>2 DEF Leaves
<1> QED
  BY <1>2, <1>3, <1>4, EffectsMove

-----------------------------------------------------------------------------
(* Where the messages of the worker go.                                    *)

(* The queues only receive, what they receive is an answer recorded or no  *)
(* answer, and the worker keeps the message it is at.                      *)
Gathers ==
  /\ inbox \subseteq inbox' /\ deadLetters \subseteq deadLetters'
  /\ \A m \in inbox' \cup deadLetters' :
       m \in inbox \cup deadLetters \/ m \in replies' \/ m.kind \notin Reported
  /\ actor'[Worker].msg = actor[Worker].msg
  /\ InRequest(Worker)' <=> InRequest(Worker)

(* Its message is done, given up, or taken.                                *)
Leaving ==
  /\ InRequest(Worker) /\ ~InRequest(Worker)' /\ inbox' = inbox
  /\ \/ Return(Worker) /\ deadLetters' = deadLetters
     \/ deadLetters' = deadLetters \cup {actor[Worker].msg}

Taking(m) ==
  /\ Handle(m) /\ ~InRequest(Worker) /\ InRequest(Worker)' /\ actor'[Worker].msg = m
  /\ inbox' = inbox \ {m} /\ deadLetters' = deadLetters

(* A message moves to tasks.dlq, or is recorded or lost there.             *)
Buries(m) ==
  /\ actor' = actor /\ inbox' = inbox /\ deadLetters' \subseteq deadLetters
  /\ deadLetters \ deadLetters' \subseteq {m}
  /\ RecordDeadLetter(m) \/ losses' > 0

(* One handler changes what does not concern the worker's message.         *)
LEMMA ActFlows ==
  ASSUME TypeOK, EffectsFresh, NEW a \in Actors, Act(a)
  PROVE  Gathers \/ Leaving
<1>1. /\ actor \in [Actors -> ActorState] /\ Worker \in Actors /\ actor[a] \in ActorState
      /\ Free.pc = "idle"
  BY DEF TypeOK, ActorType, Actors, Free
<1>2. \A r : actor' = [actor EXCEPT ![a] = r] /\ a # Worker => actor'[Worker] = actor[Worker]
  BY <1>1
<1>3. ASSUME actor'[Worker] = actor[Worker], inbox' = inbox, deadLetters' = deadLetters
      PROVE  Gathers
  BY <1>3 DEF Gathers, InRequest, At
<1>4. ASSUME NEW r, actor' = [actor EXCEPT ![a] = r], r.msg = actor[a].msg,
             r.pc \notin {"idle", "done"}, InRequest(a),
             deadLetters' = deadLetters, inbox \subseteq inbox',
             \A m \in inbox' : m \in inbox \/ m.kind \notin Reported
      PROVE  Gathers
  <2>1. a = Worker => actor'[Worker] = r
    BY <1>1, <1>4
  <2>2. actor'[Worker].msg = actor[Worker].msg /\ (InRequest(Worker)' <=> InRequest(Worker))
    BY <1>2, <1>4, <2>1 DEF InRequest, At
  <2> QED
    BY <1>4, <2>2 DEF Gathers
<1>5. CASE TakeDecision(a)
  <2>1. PICK d : actor' = [actor EXCEPT ![a].pc = "execute", ![a].decision = d]
    BY <1>5 DEF TakeDecision
  <2> DEFINE r == [actor[a] EXCEPT !.pc = "execute", !.decision = d]
  <2>2. actor' = [actor EXCEPT ![a] = r] /\ r.msg = actor[a].msg /\ r.pc = "execute"
    BY <1>1, <2>1 DEF ActorState
  <2> HIDE DEF r
  <2> QED
    BY <1>4, <1>5, <2>2 DEF TakeDecision, broker, InRequest, At
<1>6. CASE ExecuteDecision(a) /\ ~ExecuteRaises(a)
  <2>1. /\ inbox' = inbox /\ deadLetters' = deadLetters /\ InRequest(a)
        /\ \E messages : ThenSend(a, messages)
    BY <1>6 DEF ExecuteDecision, ExecuteContinue, ExecuteRetry, ExecuteWait, ExecuteFallback,
                ExecuteAbort, broker, Executing, InRequest, At
  <2>2. PICK messages : ThenSend(a, messages)
    BY <2>1
  <2> DEFINE r == [actor[a] EXCEPT !.pc = "effects", !.decision = NoDecision,
                                   !.effects = messages]
  <2>3. actor' = [actor EXCEPT ![a] = r] /\ r.msg = actor[a].msg /\ r.pc = "effects"
    BY <1>1, <2>2 DEF ThenSend, ActorState
  <2> HIDE DEF r
  <2> QED
    BY <1>4, <2>1, <2>3
<1>7. CASE ExecuteRaises(a)
  <2>1. CASE a = Worker
    <3>1. /\ actor' = [actor EXCEPT ![Worker] = Free] /\ inbox' = inbox
          /\ deadLetters' = deadLetters \cup {actor[Worker].msg} /\ At(Worker, "execute")
      BY <1>7, <2>1 DEF ExecuteRaises, Reject
    <3> QED
      BY <1>1, <3>1 DEF Leaving, InRequest, At
  <2>2. CASE a # Worker
    BY <1>2, <1>3, <1>7, <2>2 DEF ExecuteRaises, Reject
  <2> QED
    BY <2>1, <2>2
<1>8. CASE SendNext(a)
  <2> DEFINE q == actor[a].effects
             r == [actor[a] EXCEPT !.effects = Tail(@)]
  <2>1. actor' = [actor EXCEPT ![a] = r] /\ r.msg = actor[a].msg /\ r.pc = "effects"
    BY <1>1, <1>8 DEF SendNext, ActorState, At
  <2> HIDE DEF r
  <2>2. q \in Seq(Message) /\ q # <<>>
    BY <1>1, <1>8 DEF SendNext, ActorState
  <2>3. Head(q).kind \notin Reported
    BY <2>2 DEF EffectsFresh
  <2>4. /\ inbox \subseteq inbox' /\ deadLetters' = deadLetters
        /\ \A m \in inbox' : m \in inbox \/ m.kind \notin Reported
    BY <1>8, <2>3 DEF SendNext
  <2> QED
    BY <1>4, <1>8, <2>1, <2>4 DEF SendNext, InRequest, At
<1>9. CASE Return(a)
  <2>1. CASE a = Worker
    <3>1. /\ actor' = [actor EXCEPT ![Worker] = Free] /\ inbox' = inbox
          /\ deadLetters' = deadLetters /\ At(Worker, "effects")
      BY <1>9, <2>1 DEF Return, broker
    <3> QED
      BY <1>1, <1>9, <2>1, <3>1 DEF Leaving, InRequest, At
  <2>2. CASE a # Worker
    BY <1>2, <1>3, <1>9, <2>2 DEF Return, broker
  <2> QED
    BY <2>1, <2>2
<1> QED
  BY <1>5, <1>6, <1>7, <1>8, <1>9 DEF Act

(* Every step.                                                             *)
LEMMA StepFlows ==
  ASSUME TypeOK, OneAnswer, EffectsFresh, [Next]_vars
  PROVE  \/ Gathers \/ Leaving
         \/ \E m \in inbox : Taking(m) \/ HandlerRaises(m)
         \/ \E m \in deadLetters : Buries(m)
         \/ WorkerCrash
<1>1. /\ actor \in [Actors -> ActorState] /\ Worker \in Actors /\ Worker \notin Tasks
      /\ Tasks \subseteq Actors /\ Free.pc = "idle"
  BY ActorsAssumption DEF TypeOK, ActorType, Actors, Free
<1>2. ASSUME actor'[Worker] = actor[Worker], inbox \subseteq inbox', deadLetters \subseteq deadLetters',
             \A m \in inbox' \cup deadLetters' :
               m \in inbox \cup deadLetters \/ m \in replies' \/ m.kind \notin Reported
      PROVE  Gathers
  BY <1>2 DEF Gathers, InRequest, At
<1>3. ASSUME NEW a \in Actors, Act(a) PROVE Gathers \/ Leaving
  BY <1>3, ActFlows
<1>4. ASSUME NEW m \in inbox, Handle(m) PROVE Taking(m)
  <2>1. PICK pc \in {"build", "effects"} : \E messages : Begin(m, pc, messages)
    BY <1>4, HandleLeaves
  <2>2. deadLetters' = deadLetters
    BY <1>4 DEF Handle, HandleRepeated, HandleSucceeded, HandleFailed, HandleTimeout,
                HandleReevaluate, HandleDispatch, HandleStale
  <2> QED
    BY <1>1, <1>4, <2>1, <2>2 DEF Begin, Taking, InRequest, At
<1>5. ASSUME NEW m \in deadLetters,
             HandleDeadLetter(m) \/ HandleDeadLetterUnacknowledged(m) \/ DeadLetterLost(m)
      PROVE  Buries(m)
  BY <1>5 DEF HandleDeadLetter, HandleDeadLetterUnacknowledged, DeadLetterLost, Buries,
              broker, TypeOK, BoundsType
<1>6. ASSUME NEW t \in Tasks, CreateOrder(t) \/ DeadlinePasses(t) PROVE Gathers
  BY <1>1, <1>2, <1>6 DEF CreateOrder, DeadlinePasses, broker
<1>7. ASSUME NEW t \in Tasks, ApiRaises(t) PROVE Gathers
  BY <1>1, <1>2, <1>7 DEF ApiRaises, Raises, Reject
<1>8. ASSUME WorkerRaises PROVE Leaving
  BY <1>1, <1>8 DEF WorkerRaises, Raises, Reject, Leaving, InRequest, At
<1>9. ASSUME ApiCrash PROVE Gathers
  BY <1>1, <1>2, <1>9 DEF ApiCrash, broker
<1>10. ASSUME NEW m \in requests, RequestAnswered(m) PROVE Gathers
  <2>1. PICK outcome : /\ replies' = replies \cup {Answer(m, outcome)}
                       /\ inbox' = inbox \cup {Answer(m, outcome)}
    BY <1>10 DEF RequestAnswered
  <2> DEFINE answer == Answer(m, outcome)
  <2> HIDE DEF answer
  <2>2. replies' = replies \cup {answer} /\ inbox' = inbox \cup {answer}
    BY <2>1 DEF answer
  <2> QED
    BY <1>2, <1>10, <2>2 DEF RequestAnswered
<1>11. ASSUME NEW m \in requests, RequestDeadLettered(m) PROVE Gathers
  <2>1. m.kind \notin Reported
    BY DEF OneAnswer, Reported
  <2> QED
    BY <1>2, <1>11, <2>1 DEF RequestDeadLettered
<1>12. ASSUME NEW m \in replies, AnswerSentAgain(m) PROVE Gathers
  BY <1>2, <1>12 DEF AnswerSentAgain
<1>13. ASSUME NEW m \in replies, AnsweredRequestDeadLettered(m) PROVE Gathers
  <2>1. RequestOf(m).kind \notin Reported
    BY DEF RequestOf, Reported, TypeOK, BrokerType, Message
  <2> DEFINE request == RequestOf(m)
  <2>2. deadLetters' = deadLetters \cup {request}
    BY <1>13 DEF AnsweredRequestDeadLettered
  <2>3. request.kind \notin Reported
    BY <2>1
  <2> HIDE DEF request
  <2> QED
    BY <1>2, <1>13, <2>2, <2>3 DEF AnsweredRequestDeadLettered
<1>14. ASSUME UNCHANGED vars PROVE Gathers
  BY <1>2, <1>14 DEF vars
<1> QED
  BY <1>1, <1>3, <1>4, <1>5, <1>6, <1>7, <1>8, <1>9, <1>10, <1>11, <1>12, <1>13, <1>14
  DEF Next, WorkerStep, Disturbance

(* What comes back after a crash: the same message, marked redelivered.    *)
LEMMA CrashReturns ==
  ASSUME TypeOK, WorkerCrash
  PROVE  /\ \A m \in inbox : \E k \in inbox' : SameAnswer(k, m)
         /\ InRequest(Worker) => \E k \in inbox' : SameAnswer(k, actor[Worker].msg)
         /\ \A k \in inbox' : \/ k \in inbox
                              \/ \E m \in inbox : SameAnswer(m, k)
                              \/ InRequest(Worker) /\ SameAnswer(actor[Worker].msg, k)
         /\ deadLetters' = deadLetters /\ ~InRequest(Worker)'
<1> DEFINE current == IF At(Worker, "idle") THEN {} ELSE {actor[Worker].msg}
<1>1. PICK prefetched \in SUBSET inbox :
        inbox' = (inbox \ prefetched) \cup {Redelivered(m) : m \in current \cup prefetched}
  BY DEF WorkerCrash
<1>2. /\ inbox \subseteq Message /\ Worker \in Actors
      /\ InRequest(Worker) <=> ~At(Worker, "idle")
      /\ InRequest(Worker) => actor[Worker].msg \in Message
  BY DEF TypeOK, BrokerType, ActorType, InRequest, Actors
<1>3. \A m \in Message : SameAnswer(Redelivered(m), m) /\ SameAnswer(m, Redelivered(m))
  BY DEF SameAnswer, Redelivered, Message
<1>4. \A m \in Message : SameAnswer(m, m)
  BY DEF SameAnswer
<1>5. current = IF InRequest(Worker) THEN {actor[Worker].msg} ELSE {}
  BY <1>2
<1> HIDE DEF current
<1>6. \A m \in inbox : \E k \in inbox' : SameAnswer(k, m)
  BY <1>1, <1>2, <1>3, <1>4
<1>7. InRequest(Worker) => \E k \in inbox' : SameAnswer(k, actor[Worker].msg)
  BY <1>1, <1>2, <1>3, <1>5
<1>8. \A k \in inbox' : \/ k \in inbox
                        \/ \E m \in inbox : SameAnswer(m, k)
                        \/ InRequest(Worker) /\ SameAnswer(actor[Worker].msg, k)
  BY <1>1, <1>2, <1>3, <1>5
<1>9. deadLetters' = deadLetters /\ ~InRequest(Worker)'
  BY <1>2 DEF WorkerCrash, InRequest, At, Free, TypeOK, ActorType
<1> QED
  BY <1>6, <1>7, <1>8, <1>9

-----------------------------------------------------------------------------
(* What the trajectories record of answers.                                *)

(* The rows of one transaction.                                            *)
LEMMA RowsWritten ==
  ASSUME DatabaseType, NEW t \in Tasks, NEW x, NEW y, NEW rows,
         rows = <<x>> \/ rows = <<x, y>>, events' = [events EXCEPT ![t] = @ \o rows]
  PROVE  /\ \E i \in DOMAIN events'[t] : events'[t][i] = x
         /\ \A u \in Tasks : \A i \in DOMAIN events'[u] :
              \/ i \in DOMAIN events[u]
              \/ u = t /\ (events'[u][i] = x \/ (rows = <<x, y>> /\ events'[u][i] = y))
<1> DEFINE R == EventRow \cup {x, y}
<1>1. /\ events[t] \in Seq(R) /\ rows \in Seq(R) /\ events'[t] = events[t] \o rows
      /\ \A u \in Tasks : u # t => events'[u] = events[u]
  <2>1. <<x>> \in Seq(R) /\ <<x, y>> \in Seq(R)
    OBVIOUS
  <2>2. events[t] \in Seq(EventRow)
    BY DEF DatabaseType
  <2>3. rows \in Seq(R)
    <3> HIDE DEF R
    <3> QED
      BY <2>1
  <2>4. events[t] \in Seq(R)
    BY <2>2
  <2>5. events'[t] = events[t] \o rows /\ \A u \in Tasks : u # t => events'[u] = events[u]
    BY DEF DatabaseType
  <2> QED
    BY <2>3, <2>4, <2>5
<1> HIDE DEF R
<1>2. /\ Len(rows) \in {1, 2} /\ rows[1] = x
      /\ Len(rows) = 2 => rows = <<x, y>> /\ rows[2] = y
  OBVIOUS
<1>3. /\ Len(events[t]) \in Nat /\ DOMAIN events[t] = 1 .. Len(events[t])
      /\ DOMAIN events'[t] = 1 .. Len(events[t]) + Len(rows)
      /\ events'[t][Len(events[t]) + 1] = rows[1]
      /\ Len(rows) = 2 => events'[t][Len(events[t]) + 2] = rows[2]
  BY <1>1, <1>2
<1> DEFINE n == Len(events[t])
           k == Len(rows)
<1>4. \E i \in DOMAIN events'[t] : events'[t][i] = x
  <2>1. n + 1 \in 1 .. n + k
    <3> HIDE DEF n, k
    <3> QED
      BY <1>2, <1>3 DEF n, k
  <2> QED
    BY <1>2, <1>3, <2>1
<1>5. ASSUME NEW i \in DOMAIN events'[t], i \notin DOMAIN events[t]
      PROVE  events'[t][i] = x \/ (rows = <<x, y>> /\ events'[t][i] = y)
  <2>1. i = n + 1 \/ (k = 2 /\ i = n + 2)
    <3>1. i \in 1 .. n + k /\ i \notin 1 .. n /\ n \in Nat /\ k \in {1, 2}
      BY <1>2, <1>3, <1>5
    <3> HIDE DEF n, k
    <3> QED
      BY <3>1
  <2> QED
    BY <1>2, <1>3, <2>1
<1> QED
  BY <1>1, <1>4, <1>5

(* A transaction leaves the rows it writes, and no other new ones.         *)
LEMMA TransactionWritten ==
  ASSUME DatabaseType, NEW t \in Tasks, NEW row, NEW x, NEW y,
         Write(t, row, <<x>>) \/ Write(t, row, <<x, y>>)
  PROVE  /\ \E i \in DOMAIN events'[t] : events'[t][i] = x
         /\ \A u \in Tasks : \A i \in DOMAIN events'[u] :
              \/ i \in DOMAIN events[u]
              \/ u = t /\ events'[u][i] = x
              \/ u = t /\ ~Write(t, row, <<x>>) /\ events'[u][i] = y
<1>1. CASE Write(t, row, <<x>>)
  <2> DEFINE rows == <<x>>
  <2>1. rows = <<x>> /\ rows # <<x, x>> /\ events' = [events EXCEPT ![t] = @ \o rows]
    BY <1>1 DEF Write
  <2> HIDE DEF rows
  <2>2. \E i \in DOMAIN events'[t] : events'[t][i] = x
    BY <2>1, RowsWritten
  <2>3. \A u \in Tasks : \A i \in DOMAIN events'[u] :
          i \in DOMAIN events[u] \/ (u = t /\ events'[u][i] = x)
    BY <2>1, RowsWritten
  <2> QED
    BY <2>2, <2>3
<1>2. CASE Write(t, row, <<x, y>>) /\ ~Write(t, row, <<x>>)
  <2> DEFINE rows == <<x, y>>
  <2>1. rows = <<x, y>> /\ events' = [events EXCEPT ![t] = @ \o rows]
    BY <1>2 DEF Write
  <2> HIDE DEF rows
  <2>2. \E i \in DOMAIN events'[t] : events'[t][i] = x
    BY <2>1, RowsWritten
  <2>3. \A u \in Tasks : \A i \in DOMAIN events'[u] :
          i \in DOMAIN events[u] \/ (u = t /\ (events'[u][i] = x \/ events'[u][i] = y))
    BY <2>1, RowsWritten
  <2> QED
    BY <1>2, <2>2, <2>3
<1> QED
  BY <1>1, <1>2

(* No answer is recorded.                                                  *)
Unreported ==
  \A t \in Tasks : \A i \in DOMAIN events'[t] :
    events'[t][i].type \in Reported => i \in DOMAIN events[t]

(* The transactions of the orders-service itself record no answer.         *)
LEMMA OwnUnreported ==
  ASSUME DatabaseType, NEW t \in Tasks, NEW row, NEW x, NEW y,
         Write(t, row, <<x>>) \/ (Write(t, row, <<x, y>>) /\ y.type \notin Reported),
         x.type \notin Reported
  PROVE  Unreported
BY TransactionWritten DEF Unreported

(* The rows a handler records of the answer it took.                       *)
Reports(m) ==
  \A t \in Tasks : \A i \in DOMAIN events'[t] :
    events'[t][i].type \in Reported =>
      \/ i \in DOMAIN events[t]
      \/ t = m.task /\ events'[t][i].type = m.kind /\ events'[t][i].ref = m.ref

RecordedNow(m) ==
  \E i \in DOMAIN events'[m.task] :
    events'[m.task][i].type = m.kind /\ events'[m.task][i].ref = m.ref

(* A new answer.                                                           *)
LEMMA NewReported ==
  ASSUME TypeOK, NEW m \in inbox, HandleSucceeded(m) \/ HandleFailed(m)
  PROVE  /\ Reports(m) /\ RecordedNow(m)
         /\ processed' = processed \cup {<<m.task, m.ref>>}
<1>1. DatabaseType /\ m.task \in Tasks
  BY DEF TypeOK, BrokerType, Message
<1>2. ASSUME NEW row, NEW x, NEW y, x.type = m.kind, x.ref = m.ref, y.type \notin Reported,
             Write(m.task, row, <<x>>) \/ Write(m.task, row, <<x, y>>)
      PROVE  Reports(m) /\ RecordedNow(m)
  <2>1. /\ \E i \in DOMAIN events'[m.task] : events'[m.task][i] = x
        /\ \A u \in Tasks : \A i \in DOMAIN events'[u] :
             \/ i \in DOMAIN events[u]
             \/ u = m.task /\ events'[u][i] = x
             \/ u = m.task /\ ~Write(m.task, row, <<x>>) /\ events'[u][i] = y
    BY <1>1, <1>2, TransactionWritten
  <2> QED
    BY <1>2, <2>1 DEF Reports, RecordedNow
<1>3. \A seq : /\ ReplyEvent(m, seq, m.redelivered).type = m.kind
               /\ ReplyEvent(m, seq, m.redelivered).ref = m.ref
  BY DEF ReplyEvent
<1>4. \A row : OwnEvent("TASK_COMPLETED", 0, row).type \notin Reported
  BY DEF OwnEvent, Reported
<1>5. CASE HandleSucceeded(m)
  BY <1>2, <1>3, <1>4, <1>5 DEF HandleSucceeded
<1>6. CASE HandleFailed(m)
  <2>1. PICK row : Write(m.task, row, <<ReplyEvent(m, row.seq, m.redelivered)>>)
    BY <1>6 DEF HandleFailed
  <2> QED
    BY <1>2, <1>3, <1>4, <1>6, <2>1 DEF HandleFailed
<1> QED
  BY <1>5, <1>6

(* A repeated one.                                                         *)
LEMMA RepeatedReported ==
  ASSUME TypeOK, NEW m \in inbox, HandleRepeated(m)
  PROVE  Reports(m) /\ processed' = processed
<1>1. DatabaseType /\ m.task \in Tasks
  BY DEF TypeOK, BrokerType, Message
<1> DEFINE s == events[m.task]
           found == \E i \in DOMAIN s : IsFirstRowOf(m.task, i, m)
           e == ReplyEvent(m, s[CHOOSE i \in DOMAIN s : IsFirstRowOf(m.task, i, m)].seq, TRUE)
<1>2. e.type = m.kind /\ e.ref = m.ref
  BY DEF ReplyEvent
<1>3. events' = [events EXCEPT ![m.task] = @ \o IF found THEN <<e>> ELSE <<>>]
  BY <1>1 DEF HandleRepeated, DatabaseType
<1>4. processed' = processed
  BY DEF HandleRepeated
<1> HIDE DEF e
<1>5. CASE found
  <2>1. events' = [events EXCEPT ![m.task] = @ \o <<e>>]
    BY <1>3, <1>5
  <2>2. \A u \in Tasks : \A i \in DOMAIN events'[u] :
          \/ i \in DOMAIN events[u]
          \/ u = m.task /\ events'[u][i] = e
    <3> DEFINE rows == <<e>>
    <3>1. rows = <<e>> /\ rows # <<e, e>> /\ events' = [events EXCEPT ![m.task] = @ \o rows]
      BY <2>1
    <3> HIDE DEF rows
    <3> QED
      BY <1>1, <3>1, RowsWritten
  <2> QED
    BY <1>2, <1>4, <2>2 DEF Reports
<1>6. CASE ~found
  <2>1. events' = [events EXCEPT ![m.task] = @ \o <<>>]
    BY <1>3, <1>6
  <2>2. s \in Seq(EventRow)
    BY <1>1 DEF DatabaseType
  <2>3. s \o <<>> = s
    BY <2>2
  <2>4. events' = events
    BY <1>1, <2>1, <2>3 DEF DatabaseType
  <2> QED
    BY <1>4, <2>4 DEF Reports
<1> QED
  BY <1>5, <1>6

(* Anything else.                                                          *)
LEMMA OthersUnreported ==
  ASSUME TypeOK, [Next]_vars,
         ~\E m \in inbox : HandleSucceeded(m) \/ HandleFailed(m) \/ HandleRepeated(m)
  PROVE  Unreported /\ processed' = processed
<1>1. DatabaseType /\ \A m \in inbox \cup deadLetters : m.task \in Tasks
  BY DEF TypeOK, BrokerType, Message
<1>2. \A row, ref : \A type \in EventTypes \ Reported : OwnEvent(type, ref, row).type \notin Reported
  BY DEF OwnEvent
<1>3. {"TASK_CREATED", "REQUESTED", "INVENTORY_TIMEOUT", "RETRY_SCHEDULED", "WAIT_SCHEDULED",
       "WAIT_FINISHED", "FALLBACK_SCHEDULED", "TASK_ABORTED", "MESSAGE_DEAD_LETTERED"}
        \subseteq EventTypes \ Reported
  BY DEF EventTypes, Reported
<1>4. ASSUME events' = events, processed' = processed PROVE Unreported /\ processed' = processed
  BY <1>4 DEF Unreported
<1>5. ASSUME NEW t \in Tasks, CreateOrder(t) PROVE Unreported /\ processed' = processed
  BY <1>1, <1>2, <1>3, <1>5, OwnUnreported DEF CreateOrder
<1>6. ASSUME NEW a \in Actors, Act(a) PROVE Unreported /\ processed' = processed
  <2>1. At(a, "execute") => actor[a].task \in Tasks
    BY DEF TypeOK, ActorType, InRequest, At
  <2>2. CASE TakeDecision(a) \/ ExecuteRaises(a) \/ SendNext(a) \/ Return(a)
    BY <1>4, <2>2 DEF TakeDecision, ExecuteRaises, SendNext, Return, database
  <2>3. CASE ExecuteContinue(a)
    BY <1>1, <1>2, <1>3, <2>1, <2>3, OwnUnreported DEF ExecuteContinue, Executing, RequestEvent
  <2>4. CASE ExecuteRetry(a)
    BY <1>1, <1>2, <1>3, <2>1, <2>4, OwnUnreported DEF ExecuteRetry, Executing
  <2>5. CASE ExecuteWait(a)
    BY <1>1, <1>2, <1>3, <2>1, <2>5, OwnUnreported DEF ExecuteWait, Executing
  <2>6. CASE ExecuteFallback(a)
    BY <1>1, <1>2, <1>3, <2>1, <2>6, OwnUnreported DEF ExecuteFallback, Executing, RequestEvent
  <2>7. CASE ExecuteAbort(a)
    BY <1>1, <1>2, <1>3, <1>4, <2>1, <2>7, OwnUnreported DEF ExecuteAbort, Executing
  <2> QED
    BY <1>6, <2>2, <2>3, <2>4, <2>5, <2>6, <2>7 DEF Act, ExecuteDecision
<1>7. ASSUME NEW m \in inbox, Handle(m) PROVE Unreported /\ processed' = processed
  <2>1. CASE HandleStale(m)
    BY <1>4, <2>1 DEF HandleStale, database
  <2>2. CASE HandleTimeout(m)
    BY <1>1, <1>2, <1>3, <2>2, OwnUnreported DEF HandleTimeout
  <2>3. CASE HandleReevaluate(m)
    BY <1>1, <1>2, <1>3, <2>3, OwnUnreported DEF HandleReevaluate
  <2>4. CASE HandleDispatch(m)
    BY <1>1, <1>2, <1>3, <2>4, OwnUnreported DEF HandleDispatch, RequestEvent
  <2> QED
    BY <1>7, <2>1, <2>2, <2>3, <2>4 DEF Handle
<1>8. ASSUME NEW m \in deadLetters,
             HandleDeadLetter(m) \/ HandleDeadLetterUnacknowledged(m) \/ DeadLetterLost(m)
      PROVE  Unreported /\ processed' = processed
  <2>1. processed' = processed
    BY <1>8 DEF HandleDeadLetter, HandleDeadLetterUnacknowledged, DeadLetterLost, database
  <2>2. CASE RecordDeadLetter(m)
    BY <1>1, <1>2, <1>3, <2>1, <2>2, OwnUnreported DEF RecordDeadLetter
  <2> QED
    BY <1>4, <1>8, <2>1, <2>2
    DEF HandleDeadLetter, HandleDeadLetterUnacknowledged, DeadLetterLost, database
<1>9. CASE \/ WorkerRaises \/ \E t \in Tasks : ApiRaises(t)
           \/ \E m \in inbox : HandlerRaises(m)
           \/ WorkerCrash \/ ApiCrash
  BY <1>4, <1>9
  DEF WorkerRaises, ApiRaises, Raises, HandlerRaises, WorkerCrash, ApiCrash, database
<1>10. CASE \/ \E t \in Tasks : DeadlinePasses(t)
            \/ \E m \in requests : RequestAnswered(m) \/ RequestDeadLettered(m)
            \/ \E m \in replies : AnswerSentAgain(m) \/ AnsweredRequestDeadLettered(m)
            \/ UNCHANGED vars
  BY <1>4, <1>10 DEF DeadlinePasses, RequestAnswered, RequestDeadLettered,
     AnswerSentAgain, AnsweredRequestDeadLettered, database, vars
<1> QED
  BY <1>5, <1>6, <1>7, <1>8, <1>9, <1>10 DEF Next, WorkerStep, Disturbance, Actors

-----------------------------------------------------------------------------
(* No answer disappears.                                                   *)

Known(m, answers) == m.kind \in Reported => \E n \in answers : SameAnswer(n, m)

(* What is delivered, dead-lettered, in the worker's hands or recorded as  *)
(* an answer is one the inventory-service gave.                            *)
Heard ==
  /\ \A m \in inbox \cup deadLetters : Known(m, replies)
  /\ InRequest(Worker) => Known(actor[Worker].msg, replies)
  /\ \A t \in Tasks : \A i \in DOMAIN events[t] : events[t][i].type \in Reported =>
       \E n \in replies : n.task = t /\ n.kind = events[t][i].type /\ n.ref = events[t][i].ref

(* What was applied was recorded, and so is the answer the worker is at.   *)
Handled ==
  /\ \A p \in processed : \E i \in DOMAIN events[p[1]] :
       events[p[1]][i].type \in Reported /\ events[p[1]][i].ref = p[2]
  /\ InRequest(Worker) /\ actor[Worker].msg.kind \in Reported =>
       \E i \in DOMAIN events[actor[Worker].msg.task] :
         /\ events[actor[Worker].msg.task][i].type = actor[Worker].msg.kind
         /\ events[actor[Worker].msg.task][i].ref = actor[Worker].msg.ref

(* The rows stay where they are.                                           *)
LEMMA RowsStay ==
  ASSUME TypeOK, [Next]_vars, NEW t \in Tasks
  PROVE  \A i \in DOMAIN events[t] : i \in DOMAIN events'[t] /\ events'[t][i] = events[t][i]
<1>1. events[t] \in Seq(EventRow) /\ events'[t] \in Seq(EventRow) /\ Grows(t)
  <2>1. TypeOK'
    BY TypeStep
  <2> QED
    BY <2>1, StepExplains DEF TypeOK, DatabaseType
<1> QED
  BY <1>1 DEF Grows

(* The answers stay.                                                       *)
LEMMA RepliesStay ==
  ASSUME [Next]_vars
  PROVE  replies \subseteq replies'
BY QueuesMove DEF SendNext, RequestAnswered

(* Every step keeps what was heard.                                        *)
LEMMA HeardStep ==
  ASSUME TypeOK, OneAnswer, EffectsFresh, Heard, [Next]_vars
  PROVE  Heard'
<1>1. replies \subseteq replies'
  BY RepliesStay
<1>2. \A m, n : SameAnswer(m, n) /\ Known(m, replies) => Known(n, replies)
  BY DEF SameAnswer, Known
<1>3. \A m : Known(m, replies) => Known(m, replies')
  BY <1>1 DEF Known
<1>4. /\ \A m \in inbox \cup deadLetters : Known(m, replies')
      /\ InRequest(Worker) => Known(actor[Worker].msg, replies')
      /\ \A m \in replies' : Known(m, replies')
  BY <1>3 DEF Heard, Known, SameAnswer
<1>5. /\ \A m \in inbox' \cup deadLetters' : Known(m, replies')
      /\ InRequest(Worker)' => Known(actor'[Worker].msg, replies')
  <2>1. CASE Gathers
    <3>1. \A m : m.kind \notin Reported => Known(m, replies')
      BY DEF Known
    <3> QED
      BY <1>4, <2>1, <3>1 DEF Gathers
  <2>2. CASE Leaving
    BY <1>4, <2>2 DEF Leaving
  <2>3. ASSUME NEW m \in inbox, Taking(m)
        PROVE  /\ \A k \in inbox' \cup deadLetters' : Known(k, replies')
               /\ InRequest(Worker)' => Known(actor'[Worker].msg, replies')
    BY <1>4, <2>3 DEF Taking
  <2>4. ASSUME NEW m \in inbox, HandlerRaises(m)
        PROVE  /\ \A k \in inbox' \cup deadLetters' : Known(k, replies')
               /\ InRequest(Worker)' => Known(actor'[Worker].msg, replies')
    <3>1. ~InRequest(Worker)'
      BY <2>4 DEF HandlerRaises, InRequest, At
    <3> QED
      BY <1>4, <2>4, <3>1 DEF HandlerRaises
  <2>5. ASSUME NEW m \in deadLetters, Buries(m)
        PROVE  /\ \A k \in inbox' \cup deadLetters' : Known(k, replies')
               /\ InRequest(Worker)' => Known(actor'[Worker].msg, replies')
    BY <1>4, <2>5 DEF Buries, InRequest, At
  <2>6. CASE WorkerCrash
    <3>1. ASSUME NEW k \in inbox' PROVE Known(k, replies)
      BY <1>2, <2>6, CrashReturns DEF Heard
    <3> QED
      BY <1>3, <1>4, <2>6, <3>1, CrashReturns
  <2> QED
    BY <2>1, <2>2, <2>3, <2>4, <2>5, <2>6, StepFlows
<1>6. ASSUME NEW t \in Tasks, NEW i \in DOMAIN events'[t], events'[t][i].type \in Reported
      PROVE  \E n \in replies' :
               n.task = t /\ n.kind = events'[t][i].type /\ n.ref = events'[t][i].ref
  <2>1. CASE i \in DOMAIN events[t]
    <3>1. events'[t][i] = events[t][i]
      BY <2>1, RowsStay
    <3> QED
      BY <1>1, <1>6, <2>1, <3>1 DEF Heard
  <2>2. ASSUME NEW m \in inbox, Reports(m), m.kind \in Reported, i \notin DOMAIN events[t]
        PROVE  \E n \in replies' :
               n.task = t /\ n.kind = events'[t][i].type /\ n.ref = events'[t][i].ref
    <3>1. t = m.task /\ events'[t][i].type = m.kind /\ events'[t][i].ref = m.ref
      BY <1>6, <2>2 DEF Reports
    <3> QED
      BY <1>4, <2>2, <3>1 DEF Known, SameAnswer
  <2>3. CASE Unreported
    BY <1>6, <2>1, <2>3 DEF Unreported
  <2>4. ASSUME NEW m \in inbox, HandleSucceeded(m) \/ HandleFailed(m) \/ HandleRepeated(m)
        PROVE  Reports(m) /\ m.kind \in Reported
    BY <2>4, NewReported, RepeatedReported
    DEF HandleSucceeded, HandleFailed, HandleRepeated, IsReply, Reported
  <2> QED
    BY <2>1, <2>2, <2>3, <2>4, OthersUnreported
<1> QED
  BY <1>5, <1>6 DEF Heard

(* Every step keeps what was handled.                                      *)
LEMMA HandledStep ==
  ASSUME TypeOK, OneAnswer, EffectsFresh, Heard, Handled, [Next]_vars
  PROVE  Handled'
<1>1. \A t \in Tasks : \A i \in DOMAIN events[t] :
        i \in DOMAIN events'[t] /\ events'[t][i] = events[t][i]
  BY RowsStay
<1>2. \A p \in processed : p[1] \in Tasks
  BY DEF TypeOK, DatabaseType
<1>3. \A p \in processed' : \E i \in DOMAIN events'[p[1]] :
        events'[p[1]][i].type \in Reported /\ events'[p[1]][i].ref = p[2]
  <2>1. \A p \in processed : \E i \in DOMAIN events'[p[1]] :
          events'[p[1]][i].type \in Reported /\ events'[p[1]][i].ref = p[2]
    BY <1>1, <1>2 DEF Handled
  <2>2. ASSUME NEW m \in inbox, HandleSucceeded(m) \/ HandleFailed(m), NEW p \in processed'
        PROVE  \E i \in DOMAIN events'[p[1]] :
                 events'[p[1]][i].type \in Reported /\ events'[p[1]][i].ref = p[2]
    <3>1. processed' = processed \cup {<<m.task, m.ref>>} /\ RecordedNow(m)
      BY <2>2, NewReported
    <3>2. m.kind \in Reported
      BY <2>2 DEF HandleSucceeded, HandleFailed, Reported
    <3>3. CASE p = <<m.task, m.ref>>
      BY <3>1, <3>2, <3>3 DEF RecordedNow
    <3> QED
      BY <2>1, <2>2, <3>1, <3>3
  <2>3. ASSUME NEW m \in inbox, HandleRepeated(m) PROVE processed' = processed
    BY <2>3, RepeatedReported
  <2> QED
    BY <2>1, <2>2, <2>3, OthersUnreported
<1>4. ASSUME NEW m, m.task \in Tasks,
             \E i \in DOMAIN events[m.task] :
               events[m.task][i].type = m.kind /\ events[m.task][i].ref = m.ref
      PROVE  RecordedNow(m)
  BY <1>1, <1>4 DEF RecordedNow
<1>5. ASSUME NEW m \in inbox, Handle(m), m.kind \in Reported PROVE RecordedNow(m)
  <2>1. CASE HandleSucceeded(m) \/ HandleFailed(m)
    BY <2>1, NewReported
  <2>2. CASE HandleRepeated(m)
    <3>1. m.task \in Tasks
      BY DEF TypeOK, BrokerType, Message
    <3>2. <<m.task, m.ref>> \in processed
      BY <2>2 DEF HandleRepeated, IsProcessed
    <3>3. PICK i \in DOMAIN events[m.task] :
            events[m.task][i].type \in Reported /\ events[m.task][i].ref = m.ref
      BY <3>2 DEF Handled
    <3>4. PICK n \in replies : /\ n.task = m.task /\ n.kind = events[m.task][i].type
                               /\ n.ref = m.ref
      BY <3>1, <3>3 DEF Heard
    <3>5. PICK k \in replies : k.task = m.task /\ k.kind = m.kind /\ k.ref = m.ref
      BY <1>5 DEF Heard, Known, SameAnswer
    <3>6. n.kind = k.kind
      BY <3>4, <3>5 DEF OneAnswer, About
    <3> QED
      BY <1>4, <3>1, <3>3, <3>4, <3>5, <3>6
  <2>3. CASE HandleTimeout(m) \/ HandleReevaluate(m) \/ HandleDispatch(m) \/ HandleStale(m)
    BY <1>5, <2>3 DEF HandleTimeout, HandleReevaluate, HandleDispatch, HandleStale, Reported
  <2> QED
    BY <1>5, <2>1, <2>2, <2>3 DEF Handle
<1>6. ASSUME InRequest(Worker)', actor'[Worker].msg.kind \in Reported
      PROVE  RecordedNow(actor'[Worker].msg)
  <2>1. CASE InRequest(Worker) /\ actor'[Worker].msg = actor[Worker].msg
    <3>1. actor[Worker].msg.task \in Tasks
      BY <2>1 DEF TypeOK, ActorType, Message
    <3> QED
      BY <1>4, <1>6, <2>1, <3>1 DEF Handled
  <2>2. ASSUME NEW m \in inbox, Taking(m) PROVE RecordedNow(actor'[Worker].msg)
    BY <1>5, <1>6, <2>2 DEF Taking
  <2>3. ASSUME Leaving \/ WorkerCrash \/ \E m \in inbox : HandlerRaises(m)
        PROVE  ~InRequest(Worker)'
    BY <2>3, CrashReturns DEF Leaving, HandlerRaises, InRequest, At
  <2>4. ASSUME Gathers \/ \E m \in deadLetters : Buries(m)
        PROVE  InRequest(Worker) /\ actor'[Worker].msg = actor[Worker].msg
    BY <1>6, <2>4 DEF Gathers, Buries, InRequest, At
  <2> QED
    BY <1>6, <2>1, <2>2, <2>3, <2>4, StepFlows
<1> QED
  BY <1>3, <1>6 DEF Handled, RecordedNow

(* A dead letter is recorded.                                              *)
LEMMA DeadLetterRecorded ==
  ASSUME TypeOK, NEW m \in deadLetters, RecordDeadLetter(m)
  PROVE  \E i \in DOMAIN events'[m.task] : events'[m.task][i].type = "MESSAGE_DEAD_LETTERED"
<1>1. DatabaseType /\ m.task \in Tasks
  BY DEF TypeOK, BrokerType, Message
<1>2. PICK row : Write(m.task, row, <<OwnEvent("MESSAGE_DEAD_LETTERED", 0, row)>>)
  BY DEF RecordDeadLetter
<1>3. \E i \in DOMAIN events'[m.task] :
        events'[m.task][i] = OwnEvent("MESSAGE_DEAD_LETTERED", 0, row)
  BY <1>1, <1>2, TransactionWritten
<1> QED
  BY <1>3 DEF OwnEvent

(* Where the answer m is.                                                  *)
Kept(m) ==
  \/ \E i \in Rows(m.task, m.kind) : events[m.task][i].ref = m.ref
  \/ \E n \in inbox \cup deadLetters : SameAnswer(n, m)
  \/ InRequest(Worker) /\ SameAnswer(actor[Worker].msg, m)
  \/ Rows(m.task, "MESSAGE_DEAD_LETTERED") # {}

(* An answer recorded stays in the trajectory, one that is not moves with  *)
(* its message.                                                            *)
LEMMA KeptStep ==
  ASSUME TypeOK, OneAnswer, EffectsFresh, Handled, [Next]_vars,
         NEW m \in replies, Kept(m), losses' = 0 \/ deadLetters = {}
  PROVE  Kept(m)'
<1>1. m.task \in Tasks /\ m.kind \in Reported
  BY DEF TypeOK, BrokerType, Message, OneAnswer
<1>2. \A i \in DOMAIN events[m.task] :
        i \in DOMAIN events'[m.task] /\ events'[m.task][i] = events[m.task][i]
  BY <1>1, RowsStay
<1>3. ASSUME NEW i \in DOMAIN events'[m.task], events'[m.task][i].type = m.kind,
             events'[m.task][i].ref = m.ref
      PROVE  Kept(m)'
  BY <1>3 DEF Kept, Rows
<1>4. ASSUME NEW i \in DOMAIN events'[m.task], events'[m.task][i].type = "MESSAGE_DEAD_LETTERED"
      PROVE  Kept(m)'
  BY <1>4 DEF Kept, Rows
<1>5. ASSUME NEW n \in inbox' \cup deadLetters', SameAnswer(n, m) PROVE Kept(m)'
  BY <1>5 DEF Kept
<1>6. ASSUME InRequest(Worker)', SameAnswer(actor'[Worker].msg, m) PROVE Kept(m)'
  BY <1>6 DEF Kept
<1>7. CASE \E i \in Rows(m.task, m.kind) : events[m.task][i].ref = m.ref
  BY <1>2, <1>3, <1>7 DEF Rows
<1>8. CASE Rows(m.task, "MESSAGE_DEAD_LETTERED") # {}
  BY <1>2, <1>4, <1>8 DEF Rows
<1>9. ASSUME NEW n \in inbox \cup deadLetters, SameAnswer(n, m) PROVE Kept(m)'
  <2>1. CASE Gathers \/ Leaving
    BY <1>5, <1>9, <2>1 DEF Gathers, Leaving
  <2>2. ASSUME NEW k \in inbox, Taking(k) PROVE Kept(m)'
    BY <1>5, <1>6, <1>9, <2>2 DEF Taking
  <2>3. ASSUME NEW k \in inbox, HandlerRaises(k) PROVE Kept(m)'
    BY <1>5, <1>9, <2>3 DEF HandlerRaises
  <2>4. ASSUME NEW k \in deadLetters, Buries(k) PROVE Kept(m)'
    <3>1. CASE n \in inbox' \cup deadLetters'
      BY <1>5, <1>9, <3>1
    <3>2. CASE n = k
      <4>1. RecordDeadLetter(k) /\ k.task = m.task
        BY <1>9, <2>4, <3>2 DEF Buries, SameAnswer
      <4> QED
        BY <1>4, <4>1, DeadLetterRecorded
    <3> QED
      BY <1>9, <2>4, <3>1, <3>2 DEF Buries
  <2>5. CASE WorkerCrash
    <3>1. CASE n \in deadLetters
      BY <1>5, <1>9, <2>5, <3>1, CrashReturns
    <3>2. ASSUME n \in inbox PROVE Kept(m)'
      <4>1. PICK k \in inbox' : SameAnswer(k, n)
        BY <2>5, <3>2, CrashReturns
      <4> QED
        BY <1>5, <1>9, <4>1 DEF SameAnswer
    <3> QED
      BY <1>9, <3>1, <3>2
  <2> QED
    BY <2>1, <2>2, <2>3, <2>4, <2>5, StepFlows
<1>10. ASSUME InRequest(Worker), SameAnswer(actor[Worker].msg, m) PROVE Kept(m)'
  <2>1. \E i \in DOMAIN events[m.task] :
          events[m.task][i].type = m.kind /\ events[m.task][i].ref = m.ref
    BY <1>1, <1>10 DEF Handled, SameAnswer
  <2> QED
    BY <1>2, <1>3, <2>1
<1> QED
  BY <1>7, <1>8, <1>9, <1>10 DEF Kept

(* Losses are only counted.                                                *)
LEMMA LossesCounted ==
  ASSUME [Next]_vars
  PROVE  losses' = losses \/ losses' = losses + 1
<1>1. ASSUME NEW t \in Tasks, CreateOrder(t) \/ DeadlinePasses(t) PROVE losses' = losses
  BY <1>1 DEF CreateOrder, DeadlinePasses, bounds
<1>2. ASSUME NEW a \in Actors, Act(a) PROVE losses' = losses
  BY <1>2 DEF Act, TakeDecision, ExecuteDecision, ExecuteContinue, ExecuteRetry, ExecuteWait,
     ExecuteFallback, ExecuteAbort, ExecuteRaises, SendNext, Return, bounds
<1>3. ASSUME NEW m \in inbox, Handle(m) \/ HandlerRaises(m) PROVE losses' = losses
  BY <1>3 DEF Handle, HandleRepeated, HandleSucceeded, HandleFailed, HandleTimeout,
     HandleReevaluate, HandleDispatch, HandleStale, HandlerRaises, bounds
<1>4. ASSUME NEW m \in deadLetters,
             HandleDeadLetter(m) \/ HandleDeadLetterUnacknowledged(m) \/ DeadLetterLost(m)
      PROVE  losses' = losses \/ losses' = losses + 1
  BY <1>4 DEF HandleDeadLetter, HandleDeadLetterUnacknowledged, DeadLetterLost, bounds
<1>5. ASSUME WorkerRaises \/ \E t \in Tasks : ApiRaises(t)
      PROVE  losses' = losses \/ losses' = losses + 1
  BY <1>5 DEF WorkerRaises, ApiRaises
<1>6. ASSUME \/ \E m \in requests : RequestAnswered(m) \/ RequestDeadLettered(m)
             \/ \E m \in replies : AnswerSentAgain(m) \/ AnsweredRequestDeadLettered(m)
             \/ WorkerCrash \/ ApiCrash \/ UNCHANGED vars
      PROVE  losses' = losses
  BY <1>6 DEF RequestAnswered, RequestDeadLettered, AnswerSentAgain, AnsweredRequestDeadLettered,
     WorkerCrash, ApiCrash, bounds, vars
<1> QED
  BY <1>1, <1>2, <1>3, <1>4, <1>5, <1>6 DEF Next, WorkerStep, Disturbance, Actors

(* The invariant about the answers.                                        *)
Answered == OneAnswer /\ EffectsFresh /\ Heard /\ Handled /\ (losses = 0 => NoAnswerLost)

(* Every step keeps it: an answer is new in the inbox, or where it was.    *)
LEMMA AnsweredStep ==
  ASSUME Safe, Recorded, Answered, [Next]_vars
  PROVE  Answered'
<1>1. /\ TypeOK /\ Trajectories /\ MessagesExplained /\ KindsOfQueues
      /\ OneAnswer /\ EffectsFresh /\ Heard /\ Handled
  BY DEF Safe, Recorded, Answered
<1>2. OneAnswer' /\ EffectsFresh' /\ Heard' /\ Handled'
  BY <1>1, OneAnswerStep, EffectsFreshStep, HeardStep, HandledStep
<1>3. NoAnswerLost <=> \A m \in replies : Kept(m)
  BY DEF NoAnswerLost, Kept
<1>4. losses' = 0 => losses = 0
  BY <1>1, LossesCounted DEF TypeOK, BoundsType
<1>5. ASSUME losses' = 0, NEW m \in replies' PROVE Kept(m)'
  <2>1. CASE m \in replies
    BY <1>1, <1>3, <1>4, <1>5, <2>1, KeptStep DEF Answered
  <2>2. CASE m \notin replies
    <3>1. m \in inbox'
      BY <1>5, <2>2, QueuesMove DEF SendNext, RequestAnswered
    <3> QED
      BY <3>1 DEF Kept, SameAnswer
  <2> QED
    BY <2>1, <2>2
<1>6. losses' = 0 => NoAnswerLost'
  BY <1>5 DEF NoAnswerLost, Kept
<1> QED
  BY <1>2, <1>6 DEF Answered

(* At the beginning nothing was asked.                                     *)
LEMMA InitAnswered == ASSUME Init PROVE Answered
<1>1. \A a \in Actors : actor[a] = Free /\ DOMAIN actor[a].effects = {} /\ ~InRequest(a)
  BY DEF Init, Free, InRequest, At
<1>2. Worker \in Actors
  BY DEF Actors
<1>3. requests = {} /\ replies = {} /\ inbox = {} /\ deadLetters = {} /\ processed = {}
  BY DEF Init
<1>4. \A t \in Tasks : DOMAIN events[t] = {}
  BY DEF Init
<1>5. OneAnswer /\ NoAnswerLost
  BY <1>3 DEF OneAnswer, NoAnswerLost
<1>6. EffectsFresh
  BY <1>1 DEF EffectsFresh
<1>7. Heard /\ Handled
  BY <1>1, <1>2, <1>3, <1>4 DEF Heard, Handled
<1> QED
  BY <1>5, <1>6, <1>7 DEF Answered

(* Reachable states.                                                       *)
LEMMA AlwaysAnswered == Spec => []Answered
<1>1. Safe /\ Recorded /\ Answered /\ [Next]_vars => Answered'
  BY AnsweredStep
<1> QED
  BY <1>1, InitAnswered, AlwaysSafe, AlwaysRecorded, PTL DEF Spec

(* Whatever crashes, raises, is repeated or comes late, an answer of the   *)
(* inventory-service stays in orders.events, in the hands of the worker or *)
(* in tasks.dlq until it is in a trajectory: only a message that could not *)
(* be recorded from tasks.dlq (a loss) can take one with it.               *)
THEOREM NoAnswerDisappears == Spec => [](losses = 0 => NoAnswerLost)
<1>1. Answered => (losses = 0 => NoAnswerLost)
  BY DEF Answered
<1> QED
  BY <1>1, AlwaysAnswered, PTL
=============================================================================
