-------------------------- MODULE Traceability_proofs --------------------------
(***************************************************************************)
(* What the files of an execution say, for any number of tasks, any limits *)
(* and any number of disturbances.                                         *)
(***************************************************************************)
EXTENDS TraceabilityProperties, OrdersAnswers_proofs

-----------------------------------------------------------------------------
(* What a step writes of a task.                                           *)

(* The decision a row is the effect of.                                    *)
EffectOf(e) ==
  IF e.type = "REQUESTED" /\ e.attempt = 1 /\ e.target = Primary THEN "CONTINUE"
  ELSE IF e.type = "RETRY_SCHEDULED" THEN "RETRY"
  ELSE IF e.type = "WAIT_SCHEDULED" THEN "WAIT"
  ELSE IF e.type = "FALLBACK_SCHEDULED" THEN "FALLBACK"
  ELSE IF e.type = "TASK_ABORTED" THEN "ABORT" ELSE "none"

(* The status a row leaves.                                                *)
Ends(old, e, new) ==
  IF old \in TerminalStatuses THEN new = old
  ELSE IF e.type \in DOMAIN TerminalEvent THEN new = TerminalEvent[e.type]
  ELSE new \notin TerminalStatuses

Executes(t, action) ==
  \E a \in Actors :
    Executing(a, action) /\ actor[a].task = t /\ \E messages : ThenSend(a, messages)

(* A request has a route, and an attempt on the first one.                 *)
Routed(e) ==
  e.type = "REQUESTED" => e.target # None /\ (e.target = Primary => e.attempt >= 1)

(* One row.                                                                *)
WritesOne(t, e) ==
  /\ events'[t] = Append(events[t], e) /\ Ends(task[t].status, e, task'[t].status)
  /\ EffectOf(e) = "none" \/ Executes(t, EffectOf(e))
  /\ e.type = "TASK_CREATED" <=> ~Created(t)
  /\ e.type = "RETRY_SCHEDULED" => task[t].target # None
  /\ e.type = "MESSAGE_DEAD_LETTERED" => deadLetters # {}
  /\ Routed(e) /\ e.type \notin {"TASK_COMPLETED", "FALLBACK_SCHEDULED"}

(* Two rows: the second one is no effect, and the first one ends nothing.  *)
WritesTwo(t, e, f) ==
  /\ events'[t] = Append(Append(events[t], e), f) /\ Ends(task[t].status, f, task'[t].status)
  /\ EffectOf(e) = "none" \/ Executes(t, EffectOf(e))
  /\ EffectOf(f) = "none" /\ Created(t) /\ ~Terminal(t)
  /\ e.type \notin DOMAIN TerminalEvent \cup {"RETRY_SCHEDULED", "REQUESTED"}
  /\ f.type # "MESSAGE_DEAD_LETTERED" /\ Routed(f)
  /\ e.type = "FALLBACK_SCHEDULED" => f.type = "REQUESTED"
  /\ f.type = "TASK_COMPLETED" => e.type = "SUCCEEDED"

Writes(t) ==
  \/ events'[t] = events[t] /\ task'[t] = task[t]
  \/ \E e \in EventRow : WritesOne(t, e)
  \/ \E e, f \in EventRow : WritesTwo(t, e, f)

(* The rows of a transaction.                                              *)
LEMMA WrittenRow ==
  ASSUME DatabaseType, DatabaseType', NEW t \in Tasks, NEW row, NEW x, Write(t, row, <<x>>)
  PROVE  /\ x \in EventRow /\ events'[t] = Append(events[t], x) /\ task'[t] = row
         /\ events[t] \in Seq(EventRow)
         /\ \A u \in Tasks \ {t} : events'[u] = events[u] /\ task'[u] = task[u]
<1>1. /\ events[t] \in Seq(EventRow) /\ events'[t] \in Seq(EventRow) /\ task'[t] = row
      /\ events'[t] = events[t] \o <<x>>
      /\ \A u \in Tasks \ {t} : events'[u] = events[u] /\ task'[u] = task[u]
  BY DEF Write, DatabaseType
<1> DEFINE R == EventRow \cup {x}
<1>2. events[t] \in Seq(R) /\ x \in R
  BY <1>1
<1> HIDE DEF R
<1>3. events'[t] = Append(events[t], x) /\ events'[t][Len(events[t]) + 1] = x
      /\ Len(events[t]) + 1 \in DOMAIN events'[t]
  BY <1>1, <1>2
<1> QED
  BY <1>1, <1>3

LEMMA WrittenRows ==
  ASSUME DatabaseType, DatabaseType', NEW t \in Tasks, NEW row, NEW x, NEW y,
         Write(t, row, <<x, y>>)
  PROVE  /\ x \in EventRow /\ y \in EventRow /\ task'[t] = row
         /\ events'[t] = Append(Append(events[t], x), y)
         /\ \A u \in Tasks \ {t} : events'[u] = events[u] /\ task'[u] = task[u]
<1>1. /\ events[t] \in Seq(EventRow) /\ events'[t] \in Seq(EventRow) /\ task'[t] = row
      /\ events'[t] = events[t] \o <<x, y>>
      /\ \A u \in Tasks \ {t} : events'[u] = events[u] /\ task'[u] = task[u]
  BY DEF Write, DatabaseType
<1> DEFINE R == EventRow \cup {x, y}
<1>2. events[t] \in Seq(R) /\ x \in R /\ y \in R
  BY <1>1
<1> HIDE DEF R
<1>3. /\ events'[t] = Append(Append(events[t], x), y)
      /\ events'[t][Len(events[t]) + 1] = x /\ events'[t][Len(events[t]) + 2] = y
      /\ Len(events[t]) + 1 \in DOMAIN events'[t] /\ Len(events[t]) + 2 \in DOMAIN events'[t]
  <2>1. <<x, y>> \in Seq(R) /\ Len(<<x, y>>) = 2 /\ <<x, y>>[1] = x /\ <<x, y>>[2] = y
    BY <1>2
  <2>2. events[t] \o <<x, y>> = Append(Append(events[t], x), y)
    BY <1>2, <2>1
  <2> QED
    BY <1>1, <1>2, <2>2
<1> QED
  BY <1>1, <1>3

(* The transactions of one row that is nobody's effect and ends nothing.   *)
LEMMA PlainRow ==
  ASSUME DatabaseType, DatabaseType', NEW t \in Tasks, NEW row, NEW x, Write(t, row, <<x>>),
         x.type \notin DOMAIN TerminalEvent, EffectOf(x) = "none", x.type # "RETRY_SCHEDULED",
         Routed(x),
         x.type = "TASK_CREATED" <=> ~Created(t),
         row.status = task[t].status
           \/ (~Terminal(t) /\ row.status \notin TerminalStatuses)
  PROVE  \A u \in Tasks : Writes(u)
<1>1. /\ x \in EventRow /\ events'[t] = Append(events[t], x) /\ task'[t] = row
      /\ \A u \in Tasks \ {t} : events'[u] = events[u] /\ task'[u] = task[u]
  BY WrittenRow
<1>2. x.type \notin {"MESSAGE_DEAD_LETTERED", "TASK_COMPLETED", "FALLBACK_SCHEDULED"}
  BY DEF TerminalEvent, EffectOf
<1>3. Ends(task[t].status, x, task'[t].status)
  BY <1>1 DEF Ends, Terminal
<1>4. WritesOne(t, x)
  BY <1>1, <1>2, <1>3 DEF WritesOne
<1> QED
  BY <1>1, <1>4 DEF Writes

(* A retry follows the first dispatch, or the way to the fallback route.   *)
RetriesRouted ==
  \A t \in Tasks : Rows(t, "RETRY_SCHEDULED") # {} =>
    \E j \in DOMAIN events[t] : EffectOf(events[t][j]) \in {"CONTINUE", "FALLBACK"}

(* A task without a route is at its first attempt.                         *)
LEMMA FirstAttempt ==
  ASSUME TypeOK, Trajectories, RetriesRouted, NEW t \in Tasks, Created(t), task[t].target = None
  PROVE  task[t].attempt = 1 /\ ~task[t].fallbackUsed
<1>1. Counted(events[t], task[t])
  BY DEF Trajectories, Story, Consistent
<1>2. ~task[t].fallbackUsed /\ Of(events[t], "FALLBACK_SCHEDULED") = {}
      /\ Of(events[t], "REQUESTED") = {}
  BY <1>1 DEF Counted, None, Fallback, Primary
<1>3. Of(events[t], "RETRY_SCHEDULED") = {}
  BY <1>2 DEF RetriesRouted, Rows, Of, EffectOf
<1> QED
  BY <1>1, <1>2, <1>3, FS_EmptySet DEF Counted

(* The row of an effect is written.                                        *)
Effected(t) ==
  \/ \E e \in EventRow : WritesOne(t, e) /\ EffectOf(e) # "none"
  \/ \E e, f \in EventRow : WritesTwo(t, e, f) /\ EffectOf(e) # "none"

(* The effect of a decision: one row, and the status it leaves.            *)
LEMMA EffectWritten ==
  ASSUME DatabaseType, DatabaseType', NEW t \in Tasks, NEW row, NEW x, NEW action,
         Write(t, row, <<x>>), EffectOf(x) = action, Executes(t, action), Created(t), ~Terminal(t),
         Routed(x),
         x.type \notin {"TASK_CREATED", "MESSAGE_DEAD_LETTERED", "TASK_COMPLETED",
                        "FALLBACK_SCHEDULED"},
         IF x.type = "TASK_ABORTED" THEN row.status = "ABORTED" ELSE row.status \notin TerminalStatuses,
         x.type = "RETRY_SCHEDULED" => task[t].target # None
  PROVE  (\A u \in Tasks : Writes(u)) /\ (action # "none" => Effected(t))
<1>1. /\ x \in EventRow /\ events'[t] = Append(events[t], x) /\ task'[t] = row
      /\ \A u \in Tasks \ {t} : events'[u] = events[u] /\ task'[u] = task[u]
  BY WrittenRow
<1>2. Ends(task[t].status, x, task'[t].status)
  BY <1>1 DEF Ends, Terminal, TerminalEvent
<1>3. WritesOne(t, x)
  BY <1>1, <1>2 DEF WritesOne
<1> QED
  BY <1>1, <1>3 DEF Writes, Effected

(* The executor.                                                           *)
LEMMA ExecuteWrites ==
  ASSUME TypeOK, TypeOK', Coordinated, Trajectories, RetriesRouted, NEW a \in Actors,
         ExecuteDecision(a)
  PROVE  /\ \A u \in Tasks : Writes(u)
         /\ Effected(actor[a].task) \/ ExecuteRaises(a) \/ Terminal(actor[a].task)
<1> DEFINE t == actor[a].task
           row == task[t]
<1>1. ASSUME At(a, "execute")
      PROVE  t \in Tasks /\ row \in TaskRow /\ Created(t)
  BY <1>1, CreatedTask DEF InRequest, At, TypeOK, DatabaseType
<1>2. DatabaseType /\ DatabaseType'
  BY DEF TypeOK
<1>3. \A action : Executing(a, action) => At(a, "execute")
  BY DEF Executing
<1>4. \A action : Executing(a, action) /\ (\E messages : ThenSend(a, messages)) => Executes(t, action)
  BY DEF Executes
<1>5. Primary # Fallback
  BY DEF Primary, Fallback
<1>6. CASE ExecuteContinue(a)
  <2> DEFINE changed == [row EXCEPT !.status = "DISPATCHED", !.target = Primary]
             new == Numbered(changed)
             x == RequestEvent(new)
  <2>1. t \in Tasks /\ row \in TaskRow /\ row.target = None /\ Created(t) /\ ~Terminal(t)
        /\ row.attempt = 1
    <3>1. At(a, "execute") /\ row.target = None /\ row.status \in {"PENDING", "WAITING"}
      BY <1>6 DEF ExecuteContinue, Executing
    <3> QED
      BY <1>1, <3>1, FirstAttempt DEF Terminal, TerminalStatuses
  <2>2. Write(t, new, <<x>>) /\ Executes(t, "CONTINUE")
    BY <1>4, <1>6 DEF ExecuteContinue
  <2>3. changed \in TaskRow
    BY <2>1, ChangedRowType, WrittenWords
  <2>4. changed.status = "DISPATCHED" /\ changed.target = Primary /\ changed.attempt = 1
    BY <2>1 DEF TaskRow
  <2> HIDE DEF changed
  <2>5. new.status = "DISPATCHED" /\ new.target = Primary /\ new.attempt = 1
    BY <2>3, <2>4 DEF Numbered, TaskRow
  <2> HIDE DEF new
  <2>6. x.type = "REQUESTED" /\ EffectOf(x) = "CONTINUE" /\ Routed(x)
    BY <2>5 DEF RequestEvent, OwnEvent, EffectOf, Routed, Primary, None
  <2> HIDE DEF x
  <2> QED
    BY <1>2, <2>1, <2>2, <2>5, <2>6, EffectWritten DEF TerminalStatuses
<1>7. CASE ExecuteRetry(a)
  <2> DEFINE changed == [row EXCEPT !.status = "RETRYING", !.attempt = @ + 1]
             new == Numbered(changed)
             x == OwnEvent("RETRY_SCHEDULED", 0, new)
  <2>1. t \in Tasks /\ row \in TaskRow /\ row.target # None /\ Created(t) /\ ~Terminal(t)
    BY <1>1, <1>7 DEF ExecuteRetry, Executing
  <2>2. Write(t, new, <<x>>) /\ Executes(t, "RETRY")
    BY <1>4, <1>7 DEF ExecuteRetry
  <2>3. changed \in TaskRow
    BY <2>1, ChangedRowType, WrittenWords
  <2>4. changed.status = "RETRYING"
    BY <2>1 DEF TaskRow
  <2> HIDE DEF changed
  <2>5. new.status = "RETRYING"
    BY <2>3, <2>4 DEF Numbered, TaskRow
  <2> HIDE DEF new
  <2>6. x.type = "RETRY_SCHEDULED" /\ EffectOf(x) = "RETRY" /\ Routed(x)
    BY DEF OwnEvent, EffectOf, Routed
  <2> HIDE DEF x
  <2> QED
    BY <1>2, <2>1, <2>2, <2>5, <2>6, EffectWritten DEF TerminalStatuses
<1>8. CASE ExecuteWait(a)
  <2> DEFINE changed == [row EXCEPT !.status = "WAITING", !.waits = @ + 1]
             new == Numbered(changed)
             x == OwnEvent("WAIT_SCHEDULED", new.waits, new)
  <2>1. t \in Tasks /\ row \in TaskRow /\ Created(t) /\ ~Terminal(t)
    BY <1>1, <1>8 DEF ExecuteWait, Executing
  <2>2. Write(t, new, <<x>>) /\ Executes(t, "WAIT")
    BY <1>4, <1>8 DEF ExecuteWait
  <2>3. changed \in TaskRow
    BY <2>1, ChangedRowType, WrittenWords
  <2>4. changed.status = "WAITING"
    BY <2>1 DEF TaskRow
  <2> HIDE DEF changed
  <2>5. new.status = "WAITING"
    BY <2>3, <2>4 DEF Numbered, TaskRow
  <2> HIDE DEF new
  <2>6. x.type = "WAIT_SCHEDULED" /\ EffectOf(x) = "WAIT" /\ Routed(x)
    BY DEF OwnEvent, EffectOf, Routed
  <2> HIDE DEF x
  <2> QED
    BY <1>2, <2>1, <2>2, <2>5, <2>6, EffectWritten DEF TerminalStatuses
<1>9. CASE ExecuteFallback(a)
  <2> DEFINE changed == [row EXCEPT !.status = "FALLBACK_PROCESSING",
                                    !.target = actor[a].decision.target, !.fallbackUsed = TRUE]
             scheduled == Numbered(changed)
             new == Numbered(scheduled)
             x == OwnEvent("FALLBACK_SCHEDULED", 0, scheduled)
             e == RequestEvent(new)
  <2>1. /\ t \in Tasks /\ row \in TaskRow /\ Created(t) /\ ~Terminal(t)
        /\ actor[a].decision.target = Fallback
    <3>1. At(a, "execute") /\ actor[a].decision.action = "FALLBACK" /\ ~Terminal(t)
      BY <1>9 DEF ExecuteFallback, Executing
    <3> QED
      BY <1>1, <3>1, DecisionHolds DEF StillHolds
  <2>2. Write(t, new, <<x, e>>) /\ Executes(t, "FALLBACK")
    BY <1>4, <1>9 DEF ExecuteFallback
  <2>3. changed \in TaskRow
    BY <2>1, ChangedRowType, WrittenWords
  <2>4. changed.status = "FALLBACK_PROCESSING" /\ changed.target = Fallback
    BY <2>1 DEF TaskRow
  <2> HIDE DEF changed
  <2>5. /\ scheduled \in TaskRow /\ scheduled.status = "FALLBACK_PROCESSING"
        /\ scheduled.target = Fallback
    BY <2>3, <2>4, NumberedKeeps
  <2> HIDE DEF scheduled
  <2>6. new.status = "FALLBACK_PROCESSING" /\ new.target = Fallback
    BY <2>5, NumberedKeeps
  <2> HIDE DEF new
  <2>7. x.type = "FALLBACK_SCHEDULED" /\ EffectOf(x) = "FALLBACK"
    BY DEF OwnEvent, EffectOf
  <2>8. e.type = "REQUESTED" /\ EffectOf(e) = "none" /\ Routed(e)
    BY <1>5, <2>6 DEF RequestEvent, OwnEvent, EffectOf, Routed, Fallback, None
  <2> HIDE DEF x, e
  <2>9. /\ x \in EventRow /\ e \in EventRow /\ task'[t] = new
        /\ events'[t] = Append(Append(events[t], x), e)
        /\ \A u \in Tasks \ {t} : events'[u] = events[u] /\ task'[u] = task[u]
    BY <1>2, <2>1, <2>2, WrittenRows
  <2>10. Ends(task[t].status, e, task'[t].status)
    BY <2>1, <2>6, <2>8, <2>9 DEF Ends, Terminal, TerminalEvent, TerminalStatuses
  <2>11. WritesTwo(t, x, e)
    BY <2>1, <2>2, <2>7, <2>8, <2>9, <2>10 DEF WritesTwo, TerminalEvent
  <2> QED
    BY <2>1, <2>7, <2>9, <2>11 DEF Writes, Effected
<1>10. CASE ExecuteAbort(a) /\ ~Terminal(t)
  <2> DEFINE changed == [row EXCEPT !.status = "ABORTED"]
             new == Numbered(changed)
             x == OwnEvent("TASK_ABORTED", 0, new)
  <2>1. t \in Tasks /\ row \in TaskRow /\ Created(t) /\ ~Terminal(t)
    BY <1>1, <1>10 DEF ExecuteAbort, Executing
  <2>2. Write(t, new, <<x>>) /\ Executes(t, "ABORT")
    BY <1>4, <1>10 DEF ExecuteAbort
  <2>3. changed \in TaskRow /\ changed.status = "ABORTED"
    BY <2>1, StatusChanged, WrittenWords
  <2> HIDE DEF changed
  <2>4. new.status = "ABORTED"
    BY <2>3, NumberedKeeps
  <2> HIDE DEF new
  <2>5. x.type = "TASK_ABORTED" /\ EffectOf(x) = "ABORT" /\ Routed(x)
    BY DEF OwnEvent, EffectOf, Routed
  <2> HIDE DEF x
  <2> QED
    BY <1>2, <2>1, <2>2, <2>4, <2>5, EffectWritten
<1>11. CASE ExecuteRaises(a) \/ (ExecuteAbort(a) /\ Terminal(t))
  <2>1. task' = task /\ events' = events
    BY <1>11 DEF ExecuteRaises, ExecuteAbort, database
  <2> QED
    BY <1>11, <2>1 DEF Writes
<1> QED
  BY <1>6, <1>7, <1>8, <1>9, <1>10, <1>11 DEF ExecuteDecision

(* A task that is being retried is past its first attempt.                 *)
LEMMA PastFirstAttempt ==
  ASSUME TypeOK, Trajectories, NEW t \in Tasks, task[t].status = "RETRYING"
  PROVE  task[t].attempt # 1 /\ task[t].attempt >= 1
<1>1. /\ Counted(events[t], task[t]) /\ StatusTold(events[t], task[t])
      /\ events[t] \in Seq(EventRow)
  BY StoryOf DEF Story, Consistent
<1>2. Of(events[t], "RETRY_SCHEDULED") # {}
  BY <1>1 DEF StatusTold, StatusAfter, Of
<1>3. IsFiniteSet(Of(events[t], "RETRY_SCHEDULED"))
  <2>1. IsFiniteSet(1 .. Len(events[t])) /\ Of(events[t], "RETRY_SCHEDULED") \subseteq 1 .. Len(events[t])
    BY <1>1, FS_Interval DEF Of
  <2> QED
    BY <2>1, FS_Subset
<1>4. /\ Cardinality(Of(events[t], "RETRY_SCHEDULED")) \in Nat
      /\ Cardinality(Of(events[t], "RETRY_SCHEDULED")) # 0
  BY <1>2, <1>3, FS_CardinalityType, FS_EmptySet
<1> QED
  BY <1>1, <1>4 DEF Counted

(* A reply that is only recorded.                                          *)
LEMMA ReplyWritten ==
  ASSUME DatabaseType, DatabaseType', NEW m \in inbox, m.task \in Tasks, Created(m.task),
         IsReply(m), NEW row, NEW seq, NEW redelivered,
         Write(m.task, row, <<ReplyEvent(m, seq, redelivered)>>),
         row.status = task[m.task].status
  PROVE  \A u \in Tasks : Writes(u)
<1> DEFINE x == ReplyEvent(m, seq, redelivered)
<1>1. x.type \in Reported
  BY DEF ReplyEvent, IsReply
<1> HIDE DEF x
<1>2. Write(m.task, row, <<x>>)
  BY DEF x
<1>3. /\ x.type \notin DOMAIN TerminalEvent /\ EffectOf(x) = "none" /\ Routed(x)
      /\ x.type # "RETRY_SCHEDULED" /\ x.type # "TASK_CREATED"
  BY <1>1 DEF Reported, TerminalEvent, EffectOf, Routed
<1> QED
  BY <1>2, <1>3, PlainRow

(* The handlers of the worker.                                             *)
LEMMA HandleWrites ==
  ASSUME TypeOK, TypeOK', Coordinated, Trajectories, NEW m \in inbox, Handle(m)
  PROVE  \A u \in Tasks : Writes(u)
<1> DEFINE t == m.task
           row == task[t]
           received == Numbered(row)
<1>1. /\ t \in Tasks /\ row \in TaskRow /\ Created(t) /\ events[t] \in Seq(EventRow)
      /\ DatabaseType /\ DatabaseType'
  BY HandlerStory DEF TypeOK
<1>2. received \in TaskRow /\ received.status = row.status
  BY <1>1, NumberedKeeps
<1>3. ASSUME NEW new, NEW type, NEW ref, Write(t, new, <<OwnEvent(type, ref, new)>>),
             type \in {"INVENTORY_TIMEOUT", "WAIT_FINISHED"}, new.status = row.status
      PROVE  \A u \in Tasks : Writes(u)
  <2> DEFINE x == OwnEvent(type, ref, new)
  <2>1. x.type = type
    BY DEF OwnEvent
  <2> HIDE DEF x
  <2>2. Write(t, new, <<x>>)
    BY <1>3 DEF x
  <2>3. /\ x.type \notin DOMAIN TerminalEvent /\ EffectOf(x) = "none" /\ Routed(x)
        /\ x.type # "RETRY_SCHEDULED" /\ x.type # "TASK_CREATED"
    BY <1>3, <2>1 DEF TerminalEvent, EffectOf, Routed
  <2> QED
    BY <1>1, <1>3, <2>2, <2>3, PlainRow
<1>4. CASE HandleRepeated(m)
  <2> DEFINE first == CHOOSE i \in DOMAIN events[t] : IsFirstRowOf(t, i, m)
             seq == events[t][first].seq
             x == ReplyEvent(m, seq, TRUE)
  <2>1. IsReply(m) /\ task' = task
    BY <1>4 DEF HandleRepeated
  <2>2. CASE ~\E i \in DOMAIN events[t] : IsFirstRowOf(t, i, m)
    <3>1. events' = [events EXCEPT ![t] = @ \o <<>>]
      BY <1>1, <1>4, <2>2 DEF HandleRepeated, DatabaseType
    <3>2. events' = events
      BY <1>1, <3>1 DEF DatabaseType
    <3> QED
      BY <2>1, <3>2 DEF Writes
  <2>3. CASE \E i \in DOMAIN events[t] : IsFirstRowOf(t, i, m)
    <3>1. events' = [events EXCEPT ![t] = @ \o <<x>>]
      BY <1>1, <1>4, <2>3 DEF HandleRepeated, DatabaseType
    <3>2. Write(t, row, <<x>>)
      BY <1>1, <2>1, <3>1 DEF Write, DatabaseType
    <3> HIDE DEF seq
    <3> QED
      BY <1>1, <2>1, <3>2, ReplyWritten
  <2> QED
    BY <2>2, <2>3
<1>5. CASE HandleSucceeded(m)
  <2> DEFINE changed == [received EXCEPT !.status = "COMPLETED", !.lastResult = "ok"]
             new == Numbered(changed)
             x == ReplyEvent(m, received.seq, m.redelivered)
             y == OwnEvent("TASK_COMPLETED", 0, new)
  <2>1. m.kind = "SUCCEEDED" /\ IsReply(m)
    BY <1>5 DEF HandleSucceeded, IsReply, Reported
  <2>2. CASE Terminal(t)
    <3>1. Write(t, received, <<x>>)
      BY <1>5, <2>2 DEF HandleSucceeded
    <3> HIDE DEF received
    <3> QED
      BY <1>1, <1>2, <2>1, <3>1, ReplyWritten
  <2>3. CASE ~Terminal(t)
    <3>1. Write(t, new, <<x, y>>)
      BY <1>5, <2>3 DEF HandleSucceeded
    <3> HIDE DEF received
    <3>2. changed \in TaskRow /\ changed.status = "COMPLETED"
      <4>1. changed \in TaskRow
        BY <1>2, WrittenWords DEF TaskRow
      <4> QED
        BY <1>2, <4>1 DEF TaskRow
    <3> HIDE DEF changed
    <3>3. new.status = "COMPLETED"
      BY <3>2, NumberedKeeps
    <3> HIDE DEF new
    <3>4. x.type = "SUCCEEDED" /\ EffectOf(x) = "none"
      BY <2>1 DEF ReplyEvent, EffectOf
    <3>5. y.type = "TASK_COMPLETED" /\ EffectOf(y) = "none" /\ Routed(y)
      BY DEF OwnEvent, EffectOf, Routed
    <3> HIDE DEF x, y
    <3>6. /\ x \in EventRow /\ y \in EventRow /\ task'[t] = new
          /\ events'[t] = Append(Append(events[t], x), y)
          /\ \A u \in Tasks \ {t} : events'[u] = events[u] /\ task'[u] = task[u]
      BY <1>1, <3>1, WrittenRows
    <3>7. Ends(task[t].status, y, task'[t].status)
      BY <2>3, <3>3, <3>5, <3>6 DEF Ends, Terminal, TerminalEvent
    <3>8. WritesTwo(t, x, y)
      BY <1>1, <2>3, <3>4, <3>5, <3>6, <3>7 DEF WritesTwo, TerminalEvent
    <3> QED
      BY <3>6, <3>8 DEF Writes
  <2> QED
    BY <2>2, <2>3
<1>6. CASE HandleFailed(m)
  <2>1. m.kind = "FAILED" /\ IsReply(m)
    BY <1>6 DEF HandleFailed, IsReply, Reported
  <2>2. PICK result : Write(t, [received EXCEPT !.lastResult = result],
                            <<ReplyEvent(m, [received EXCEPT !.lastResult = result].seq, m.redelivered)>>)
    BY <1>6 DEF HandleFailed
  <2> DEFINE new == [received EXCEPT !.lastResult = result]
  <2>3. new.status = row.status
    <3> HIDE DEF received
    <3> QED
      BY <1>2 DEF TaskRow
  <2> HIDE DEF new
  <2>4. Write(t, new, <<ReplyEvent(m, new.seq, m.redelivered)>>)
    BY <2>2 DEF new
  <2> QED
    BY <1>1, <2>1, <2>3, <2>4, ReplyWritten
<1>7. CASE HandleTimeout(m)
  <2>1. PICK result \in TaskResults \cup {None} :
          Write(t, Numbered([row EXCEPT !.lastResult = result]),
                <<OwnEvent("INVENTORY_TIMEOUT", m.ref, Numbered([row EXCEPT !.lastResult = result]))>>)
    BY <1>7, WrittenWords DEF HandleTimeout
  <2> DEFINE new == Numbered([row EXCEPT !.lastResult = result])
  <2>2. new.status = row.status
    <3>1. [row EXCEPT !.lastResult = result] \in TaskRow
          /\ [row EXCEPT !.lastResult = result].status = row.status
      BY <1>1, ResultChanged
    <3> QED
      BY <3>1, NumberedKeeps
  <2> HIDE DEF new
  <2>3. Write(t, new, <<OwnEvent("INVENTORY_TIMEOUT", m.ref, new)>>)
    BY <2>1 DEF new
  <2> QED
    BY <1>3, <2>2, <2>3
<1>8. CASE HandleReevaluate(m)
  <2>1. Write(t, received, <<OwnEvent("WAIT_FINISHED", m.ref, received)>>)
    BY <1>8 DEF HandleReevaluate
  <2> HIDE DEF received
  <2> QED
    BY <1>2, <1>3, <2>1
<1>9. CASE HandleDispatch(m)
  <2> DEFINE changed == [row EXCEPT !.status = "DISPATCHED"]
             new == Numbered(changed)
             x == RequestEvent(new)
  <2>1. Write(t, new, <<x>>) /\ row.status = "RETRYING"
    BY <1>9 DEF HandleDispatch
  <2>2. row.attempt # 1 /\ row.attempt >= 1 /\ row.target = Primary
    <3>1. RequestsFit(events[t], row)
      BY <1>1 DEF Trajectories, Story, Consistent
    <3> QED
      BY <1>1, <2>1, <3>1, PastFirstAttempt DEF RequestsFit
  <2>3. /\ changed \in TaskRow /\ changed.status = "DISPATCHED"
        /\ changed.attempt = row.attempt /\ changed.target = row.target
    <3>1. changed \in TaskRow
      BY <1>1, StatusChanged, WrittenWords
    <3> QED
      BY <1>1, <3>1 DEF TaskRow
  <2> HIDE DEF changed
  <2>4. new.status = "DISPATCHED" /\ new.attempt = row.attempt /\ new.target = row.target
    BY <2>3, NumberedFields
  <2> HIDE DEF new
  <2>5. x.type = "REQUESTED" /\ EffectOf(x) = "none" /\ Routed(x)
    BY <2>2, <2>4 DEF RequestEvent, OwnEvent, EffectOf, Routed, Primary, None
  <2> HIDE DEF x
  <2>6. x.type \notin DOMAIN TerminalEvent
    BY <2>5 DEF TerminalEvent
  <2> QED
    BY <1>1, <2>1, <2>4, <2>5, <2>6, PlainRow DEF Terminal, TerminalStatuses
<1>10. CASE HandleStale(m)
  BY <1>10 DEF HandleStale, database, Writes
<1> QED
  BY <1>4, <1>5, <1>6, <1>7, <1>8, <1>9, <1>10 DEF Handle

(* The consumer of tasks.dlq.                                              *)
LEMMA DeadLetterWrites ==
  ASSUME TypeOK, TypeOK', Coordinated, NEW m \in deadLetters, RecordDeadLetter(m)
  PROVE  \A u \in Tasks : Writes(u)
<1> DEFINE t == m.task
           row == task[t]
           dead == [row EXCEPT !.status = "DEAD_LETTERED"]
           new == IF Terminal(t) THEN Numbered(row) ELSE Numbered(dead)
           x == OwnEvent("MESSAGE_DEAD_LETTERED", 0, new)
<1>1. t \in Tasks /\ row \in TaskRow /\ Created(t) /\ DatabaseType /\ DatabaseType'
  BY CreatedTask DEF TypeOK, DatabaseType
<1>2. Write(t, new, <<x>>)
  BY DEF RecordDeadLetter
<1>3. dead \in TaskRow /\ dead.status = "DEAD_LETTERED"
  BY <1>1, StatusChanged, WrittenWords
<1>4. new.status = IF Terminal(t) THEN row.status ELSE "DEAD_LETTERED"
  <2> HIDE DEF dead
  <2> QED
    BY <1>1, <1>3, NumberedKeeps
<1> HIDE DEF new
<1>5. x.type = "MESSAGE_DEAD_LETTERED" /\ EffectOf(x) = "none" /\ Routed(x)
  BY DEF OwnEvent, EffectOf, Routed
<1> HIDE DEF x
<1>6. /\ x \in EventRow /\ task'[t] = new /\ events'[t] = Append(events[t], x)
      /\ \A u \in Tasks \ {t} : events'[u] = events[u] /\ task'[u] = task[u]
  BY <1>1, <1>2, WrittenRow
<1>7. Ends(task[t].status, x, task'[t].status)
  BY <1>4, <1>5, <1>6 DEF Ends, Terminal, TerminalEvent
<1>8. WritesOne(t, x)
  BY <1>1, <1>5, <1>6, <1>7 DEF WritesOne
<1> QED
  BY <1>6, <1>8 DEF Writes

(* create_order_with_task.                                                 *)
LEMMA CreateWrites ==
  ASSUME TypeOK, TypeOK', NEW t \in Tasks, CreateOrder(t)
  PROVE  \A u \in Tasks : Writes(u)
<1> DEFINE new == [AbsentRow EXCEPT !.status = "PENDING", !.seq = 1]
           x == OwnEvent("TASK_CREATED", 0, new)
<1>1. Write(t, new, <<x>>) /\ ~Created(t) /\ DatabaseType /\ DatabaseType'
  BY DEF CreateOrder, TypeOK
<1>2. new.status = "PENDING"
  BY DEF AbsentRow
<1> HIDE DEF new
<1>3. x.type = "TASK_CREATED" /\ EffectOf(x) = "none" /\ Routed(x)
  BY DEF OwnEvent, EffectOf, Routed
<1> HIDE DEF x
<1>4. x.type \notin DOMAIN TerminalEvent
  BY <1>3 DEF TerminalEvent
<1> QED
  BY <1>1, <1>2, <1>3, <1>4, PlainRow DEF Created, Terminal, TerminalStatuses

(* Every step.                                                             *)
LEMMA StepWrites ==
  ASSUME TypeOK, Coordinated, Trajectories, RetriesRouted, [Next]_vars
  PROVE  \A t \in Tasks : Writes(t)
<1>1. TypeOK'
  BY TypeStep
<1>2. ASSUME task' = task, events' = events PROVE \A t \in Tasks : Writes(t)
  BY <1>2 DEF Writes
<1>3. ASSUME NEW a \in Actors, Act(a) PROVE \A t \in Tasks : Writes(t)
  BY <1>1, <1>2, <1>3, ExecuteWrites DEF Act, TakeDecision, SendNext, Return, database
<1>4. ASSUME NEW m \in deadLetters,
             HandleDeadLetter(m) \/ HandleDeadLetterUnacknowledged(m) \/ DeadLetterLost(m)
      PROVE  \A t \in Tasks : Writes(t)
  BY <1>1, <1>2, <1>4, DeadLetterWrites
     DEF HandleDeadLetter, HandleDeadLetterUnacknowledged, DeadLetterLost, database
<1>5. CASE \/ WorkerRaises \/ \E t \in Tasks : ApiRaises(t)
           \/ \E m \in inbox : HandlerRaises(m)
           \/ WorkerCrash \/ ApiCrash
  BY <1>2, <1>5
     DEF WorkerRaises, ApiRaises, Raises, HandlerRaises, WorkerCrash, ApiCrash, database
<1>6. CASE \/ \E t \in Tasks : DeadlinePasses(t)
           \/ \E m \in requests : RequestAnswered(m) \/ RequestDeadLettered(m)
           \/ \E m \in replies : AnswerSentAgain(m) \/ AnsweredRequestDeadLettered(m)
           \/ UNCHANGED vars
  BY <1>2, <1>6 DEF DeadlinePasses, RequestAnswered, RequestDeadLettered, AnswerSentAgain,
                    AnsweredRequestDeadLettered, database, vars
<1>7. ASSUME NEW t \in Tasks, CreateOrder(t) PROVE \A u \in Tasks : Writes(u)
  BY <1>1, <1>7, CreateWrites
<1>8. ASSUME NEW m \in inbox, Handle(m) PROVE \A u \in Tasks : Writes(u)
  BY <1>1, <1>8, HandleWrites
<1> QED
  BY <1>3, <1>4, <1>5, <1>6, <1>7, <1>8 DEF Next, WorkerStep, Disturbance, Actors

-----------------------------------------------------------------------------
(* Decision points.                                                        *)

(* Two handlers are never at a decision point of one task.                 *)
LEMMA OneDecides ==
  ASSUME TypeOK, Coordinated, NEW a \in Actors, NEW b \in Actors, Deciding(a), Deciding(b),
         actor[a].task = actor[b].task
  PROVE  a = b
<1>1. Worker \notin Tasks /\ InRequest(a) /\ InRequest(b)
  BY ActorsAssumption DEF Deciding, InRequest, At
<1>2. CASE a \in Tasks /\ b \in Tasks
  BY <1>1, <1>2 DEF Coordinated, OwnTask
<1>3. CASE a \in Tasks /\ b = Worker
  BY <1>1, <1>3 DEF Deciding, Coordinated, OwnTask, AloneAtFirst
<1>4. CASE a = Worker /\ b \in Tasks
  BY <1>1, <1>4 DEF Deciding, Coordinated, OwnTask, AloneAtFirst
<1> QED
  BY <1>2, <1>3, <1>4 DEF Actors

Spent == crashes + losses + failures

(* A handler leaves its decision point for a fault.                        *)
Disturbed(a) ==
  ~Deciding(a)' /\ UNCHANGED database /\ Spent' = Spent + 1 /\ UNCHANGED <<requests, replies>>

(* A transaction leaves the executor.                                      *)
LEMMA ExecutedOnce ==
  ASSUME TypeOK, NEW a \in Actors, ExecuteDecision(a)
  PROVE  /\ At(a, "execute") /\ ~Deciding(a)'
         /\ \A b \in Actors \ {a} : actor'[b] = actor[b]
         /\ Spent' = Spent
<1>1. actor \in [Actors -> ActorState] /\ actor[a] \in ActorState
  BY DEF TypeOK, ActorType
<1>2. Free.pc = "idle" /\ Finished.pc = "done"
  BY DEF Free, Finished
<1>3. At(a, "execute") /\ bounds' = bounds
  BY DEF ExecuteDecision, ExecuteContinue, ExecuteRetry, ExecuteWait, ExecuteFallback,
         ExecuteAbort, ExecuteRaises, Executing
<1>4. Reject(a) \/ \E messages : ThenSend(a, messages)
  BY DEF ExecuteDecision, ExecuteContinue, ExecuteRetry, ExecuteWait, ExecuteFallback,
         ExecuteAbort, ExecuteRaises
<1>5. CASE Reject(a)
  BY <1>1, <1>2, <1>3, <1>5 DEF Reject, Deciding, At, bounds, Spent
<1>6. ASSUME NEW messages, ThenSend(a, messages)
      PROVE  /\ At(a, "execute") /\ ~Deciding(a)'
             /\ \A b \in Actors \ {a} : actor'[b] = actor[b]
             /\ Spent' = Spent
  BY <1>1, <1>3, <1>6 DEF ThenSend, Deciding, At, bounds, Spent, ActorState
<1> QED
  BY <1>4, <1>5, <1>6

(* What happens to a handler at a decision point.                          *)
LEMMA DecidingMoves ==
  ASSUME TypeOK, [Next]_vars, NEW a \in Actors, Deciding(a)
  PROVE  actor'[a] = actor[a] \/ TakeDecision(a) \/ ExecuteDecision(a) \/ Disturbed(a)
<1>1. /\ actor \in [Actors -> ActorState] /\ actor[a] \in ActorState
      /\ Worker \in Actors /\ Worker \notin Tasks /\ Tasks \subseteq Actors
      /\ crashes \in Nat /\ losses \in Nat /\ failures \in Nat
  BY ActorsAssumption DEF TypeOK, ActorType, BoundsType, Actors
<1>2. \A b, r : actor' = [actor EXCEPT ![b] = r] /\ b # a => actor'[a] = actor[a]
  BY <1>1
<1>3. Free.pc = "idle" /\ Finished.pc = "done"
  BY DEF Free, Finished
<1>4. ASSUME NEW t \in Tasks, CreateOrder(t) PROVE actor'[a] = actor[a]
  BY <1>2, <1>4 DEF CreateOrder, Deciding, At
<1>5. ASSUME NEW b \in Actors, Act(b), b # a PROVE actor'[a] = actor[a]
  <2>1. CASE Reject(b)
    BY <1>2, <1>5, <2>1 DEF Reject
  <2>2. CASE ExecuteDecision(b)
    <3>1. Reject(b) \/ \E messages : ThenSend(b, messages)
      BY <2>2 DEF ExecuteDecision, ExecuteContinue, ExecuteRetry, ExecuteWait, ExecuteFallback,
                  ExecuteAbort, ExecuteRaises
    <3>2. ASSUME NEW messages, ThenSend(b, messages) PROVE actor'[a] = actor[a]
      BY <1>1, <1>5, <3>2 DEF ThenSend
    <3> QED
      BY <2>1, <3>1, <3>2
  <2>3. CASE TakeDecision(b)
    BY <1>1, <1>5, <2>3 DEF TakeDecision
  <2>4. CASE SendNext(b) \/ Return(b)
    BY <1>1, <1>5, <2>4 DEF SendNext, Return
  <2> QED
    BY <1>5, <2>2, <2>3, <2>4 DEF Act
<1>6. ASSUME Act(a) PROVE TakeDecision(a) \/ ExecuteDecision(a)
  BY <1>6 DEF Act, SendNext, Return, Deciding, At
<1>7. ASSUME NEW m \in inbox, Handle(m) PROVE actor'[a] = actor[a]
  <2>1. At(Worker, "idle") /\ \E r : actor' = [actor EXCEPT ![Worker] = r]
    BY <1>7 DEF Handle, HandleRepeated, HandleSucceeded, HandleFailed, HandleTimeout,
                HandleReevaluate, HandleDispatch, HandleStale, Begin
  <2> QED
    BY <1>2, <2>1 DEF Deciding, At
<1>8. ASSUME NEW b \in Actors, Raises(b), b # a PROVE actor'[a] = actor[a]
  BY <1>2, <1>8 DEF Raises, Reject
<1>9. ASSUME Raises(a) PROVE ~Deciding(a)' /\ UNCHANGED <<database, crashes, requests, replies>>
  BY <1>1, <1>3, <1>9 DEF Raises, Reject, Deciding, At
<1>10. ASSUME WorkerRaises PROVE actor'[a] = actor[a] \/ Disturbed(a)
  BY <1>1, <1>8, <1>9, <1>10 DEF WorkerRaises, Disturbed, Spent
<1>11. ASSUME NEW t \in Tasks, ApiRaises(t) PROVE actor'[a] = actor[a] \/ Disturbed(a)
  BY <1>1, <1>8, <1>9, <1>11 DEF ApiRaises, Disturbed, Spent
<1>12. ASSUME WorkerCrash PROVE actor'[a] = actor[a] \/ Disturbed(a)
  BY <1>1, <1>2, <1>3, <1>12 DEF WorkerCrash, Disturbed, Deciding, At, Spent
<1>13. ASSUME ApiCrash PROVE actor'[a] = actor[a] \/ Disturbed(a)
  BY <1>1, <1>3, <1>13 DEF ApiCrash, broker, Disturbed, Deciding, At, Spent
<1>14. CASE \/ UNCHANGED vars
            \/ \E t \in Tasks : DeadlinePasses(t)
            \/ \E m \in inbox : HandlerRaises(m)
            \/ \E m \in deadLetters : \/ HandleDeadLetter(m) \/ HandleDeadLetterUnacknowledged(m)
                                      \/ DeadLetterLost(m)
            \/ \E m \in requests : RequestAnswered(m) \/ RequestDeadLettered(m)
            \/ \E m \in replies : AnswerSentAgain(m) \/ AnsweredRequestDeadLettered(m)
  <2>1. UNCHANGED actor
    BY <1>14 DEF vars, DeadlinePasses, HandlerRaises, HandleDeadLetter,
                 HandleDeadLetterUnacknowledged, DeadLetterLost, RequestAnswered,
                 RequestDeadLettered, AnswerSentAgain, AnsweredRequestDeadLettered
  <2> QED
    BY <2>1
<1> QED
  BY <1>4, <1>5, <1>6, <1>7, <1>10, <1>11, <1>12, <1>13, <1>14
  DEF Next, WorkerStep, Disturbance, Actors

(* Faults are only counted, and only a failure sends to tasks.dlq what a   *)
(* dead letter had not ended.                                              *)
LEMMA FaultsCounted ==
  ASSUME TypeOK, RaisesOnlyIfDeadLettered, [Next]_vars
  PROVE  /\ Spent' >= Spent /\ failures' >= failures /\ Spent \in Nat /\ Spent' \in Nat
         /\ \/ deadLetters' \subseteq deadLetters
            \/ failures' > failures
            \/ \E t \in Tasks : task[t].status = "DEAD_LETTERED"
<1> DEFINE Counted1 == crashes' >= crashes /\ losses' >= losses /\ failures' >= failures
           Buried == \/ deadLetters' \subseteq deadLetters
                     \/ failures' > failures
                     \/ \E t \in Tasks : task[t].status = "DEAD_LETTERED"
<1>1. crashes \in Nat /\ losses \in Nat /\ failures \in Nat
      /\ crashes' \in Nat /\ losses' \in Nat /\ failures' \in Nat
  BY TypeStep DEF TypeOK, BoundsType
<1>2. ASSUME NEW t \in Tasks, CreateOrder(t) \/ DeadlinePasses(t) PROVE Counted1 /\ Buried
  BY <1>1, <1>2 DEF CreateOrder, DeadlinePasses, bounds, broker
<1>3. ASSUME NEW a \in Actors, Act(a) PROVE Counted1 /\ Buried
  <2>1. bounds' = bounds
    BY <1>3 DEF Act, TakeDecision, ExecuteDecision, ExecuteContinue, ExecuteRetry, ExecuteWait,
       ExecuteFallback, ExecuteAbort, ExecuteRaises, SendNext, Return
  <2>2. CASE ExecuteRaises(a)
    <3>1. At(a, "execute") /\ task[actor[a].task].status = "DEAD_LETTERED"
      BY <2>2 DEF ExecuteRaises, RaisesOnlyIfDeadLettered
    <3>2. actor[a].task \in Tasks
      BY <3>1 DEF TypeOK, ActorType, InRequest, At
    <3> QED
      BY <1>1, <2>1, <3>1, <3>2 DEF bounds
  <2>3. CASE ~ExecuteRaises(a)
    <3>1. deadLetters' = deadLetters
      BY <1>3, <2>3 DEF Act, TakeDecision, ExecuteDecision, ExecuteContinue, ExecuteRetry,
         ExecuteWait, ExecuteFallback, ExecuteAbort, SendNext, Return, broker
    <3> QED
      BY <1>1, <2>1, <3>1 DEF bounds
  <2> QED
    BY <2>2, <2>3
<1>4. ASSUME NEW m \in inbox, Handle(m) PROVE Counted1 /\ Buried
  <2>1. deadLetters' = deadLetters /\ bounds' = bounds
    BY <1>4 DEF Handle, HandleRepeated, HandleSucceeded, HandleFailed, HandleTimeout,
                HandleReevaluate, HandleDispatch, HandleStale
  <2> QED
    BY <1>1, <2>1 DEF bounds
<1>5. ASSUME NEW m \in deadLetters,
             HandleDeadLetter(m) \/ HandleDeadLetterUnacknowledged(m) \/ DeadLetterLost(m)
      PROVE  Counted1 /\ Buried
  BY <1>1, <1>5 DEF HandleDeadLetter, HandleDeadLetterUnacknowledged, DeadLetterLost, bounds, broker
<1>6. ASSUME \/ WorkerRaises \/ \E m \in inbox : HandlerRaises(m)
             \/ \E t \in Tasks : ApiRaises(t)
      PROVE  Counted1 /\ Buried
  <2>1. CASE WorkerRaises \/ \E m \in inbox : HandlerRaises(m)
    <3>1. failures' = failures + 1 /\ losses' = losses /\ crashes' = crashes
      BY <2>1 DEF WorkerRaises, Raises, HandlerRaises
    <3> QED
      BY <1>1, <3>1
  <2>2. CASE \E t \in Tasks : ApiRaises(t)
    <3>1. failures' = failures /\ losses' = losses + 1 /\ crashes' = crashes
      BY <2>2 DEF ApiRaises, Raises
    <3>2. deadLetters' = deadLetters
      BY <2>2, ActorsAssumption DEF ApiRaises, Raises, Reject
    <3> QED
      BY <1>1, <3>1, <3>2
  <2> QED
    BY <1>6, <2>1, <2>2
<1>7. ASSUME \/ \E m \in requests : RequestAnswered(m) \/ RequestDeadLettered(m)
             \/ \E m \in replies : AnswerSentAgain(m) \/ AnsweredRequestDeadLettered(m)
             \/ WorkerCrash \/ ApiCrash \/ UNCHANGED vars
      PROVE  Counted1 /\ Buried
  <2>1. CASE \E m \in requests : RequestDeadLettered(m)
    <3>1. failures' = failures + 1 /\ losses' = losses /\ crashes' = crashes
      BY <2>1 DEF RequestDeadLettered
    <3> QED
      BY <1>1, <3>1
  <2>2. CASE (\E m \in requests : RequestAnswered(m)) \/ (\E m \in replies : AnswerSentAgain(m))
             \/ UNCHANGED vars
    <3>1. failures' = failures /\ losses' = losses /\ crashes' = crashes /\ deadLetters' = deadLetters
      BY <2>2 DEF RequestAnswered, AnswerSentAgain, bounds, vars
    <3> QED
      BY <1>1, <3>1
  <2>3. CASE WorkerCrash \/ ApiCrash
    <3>1. failures' = failures /\ losses' = losses /\ crashes' = crashes + 1
          /\ deadLetters' = deadLetters
      BY <2>3 DEF WorkerCrash, ApiCrash, broker
    <3> QED
      BY <1>1, <3>1
  <2>4. CASE \E n \in replies : AnsweredRequestDeadLettered(n)
    <3>1. failures' = failures + 1 /\ losses' = losses /\ crashes' = crashes
      BY <2>4 DEF AnsweredRequestDeadLettered
    <3> QED
      BY <1>1, <3>1
  <2> QED
    BY <1>7, <2>1, <2>2, <2>3, <2>4
<1> HIDE DEF Counted1, Buried
<1>8. Counted1 /\ Buried
  <2>1. ASSUME Disturbance PROVE Counted1 /\ Buried
    BY <1>4, <1>5, <1>6, <1>7, <2>1 DEF Disturbance
  <2>2. ASSUME WorkerStep PROVE Counted1 /\ Buried
    BY <1>3, <1>4, <2>2 DEF WorkerStep, Actors
  <2> QED
    BY <1>2, <1>3, <1>5, <1>7, <2>1, <2>2 DEF Next, Actors
<1>9. Spent' >= Spent /\ failures' >= failures /\ Spent \in Nat /\ Spent' \in Nat
  <2>1. /\ crashes + losses + failures \in Nat /\ crashes' + losses' + failures' \in Nat
        /\ crashes' + losses' + failures' >= crashes + losses + failures
        /\ failures' >= failures
    <3>1. \A x, y, z, u, v, w \in Nat : u >= x /\ v >= y /\ w >= z =>
            x + y + z \in Nat /\ u + v + w \in Nat /\ u + v + w >= x + y + z
      OBVIOUS
    <3>2. crashes' >= crashes /\ losses' >= losses /\ failures' >= failures
      BY <1>8 DEF Counted1
    <3> QED
      BY <1>1, <3>1, <3>2
  <2>2. Spent = crashes + losses + failures /\ Spent' = crashes' + losses' + failures'
    BY DEF Spent
  <2> QED
    BY <2>1, <2>2
<1> QED
  BY <1>8, <1>9 DEF Buried

-----------------------------------------------------------------------------
(* The rows that are effects, and the steps that leave them.               *)

EffectsIn(s, kinds) == {i \in DOMAIN s : EffectOf(s[i]) \in kinds}

LEMMA EffectWords ==
  ASSUME NEW e
  PROVE  /\ EffectOf(e) \in Actions \cup {"none"} /\ "none" \notin Actions
         /\ EffectOf(e) # "none" => e.type \in {"REQUESTED", "RETRY_SCHEDULED", "WAIT_SCHEDULED",
                                               "FALLBACK_SCHEDULED", "TASK_ABORTED"}
BY DEF EffectOf, Actions

LEMMA EffectsCounted ==
  ASSUME NEW s \in Seq(EventRow), NEW kinds
  PROVE  IsFiniteSet(EffectsIn(s, kinds)) /\ Cardinality(EffectsIn(s, kinds)) \in Nat
<1>1. EffectsIn(s, kinds) \subseteq 1 .. Len(s) /\ Len(s) \in Int
  BY DEF EffectsIn
<1>2. IsFiniteSet(1 .. Len(s))
  BY <1>1, FS_Interval
<1>3. IsFiniteSet(EffectsIn(s, kinds))
  BY <1>1, <1>2, FS_Subset
<1> QED
  BY <1>3, FS_CardinalityType

LEMMA EffectAppended ==
  ASSUME NEW s \in Seq(EventRow), NEW e \in EventRow, NEW kinds
  PROVE  Cardinality(EffectsIn(Append(s, e), kinds))
           = IF EffectOf(e) \in kinds THEN Cardinality(EffectsIn(s, kinds)) + 1
             ELSE Cardinality(EffectsIn(s, kinds))
<1> DEFINE n == Len(s) + 1
<1>1. /\ Append(s, e) \in Seq(EventRow) /\ Len(Append(s, e)) = n /\ n \notin DOMAIN s
      /\ DOMAIN Append(s, e) = DOMAIN s \cup {n}
      /\ Append(s, e)[n] = e /\ \A i \in DOMAIN s : Append(s, e)[i] = s[i]
  OBVIOUS
<1>2. EffectsIn(Append(s, e), kinds)
        = IF EffectOf(e) \in kinds THEN EffectsIn(s, kinds) \cup {n} ELSE EffectsIn(s, kinds)
  BY <1>1 DEF EffectsIn
<1>3. n \notin EffectsIn(s, kinds)
  BY <1>1 DEF EffectsIn
<1> QED
  BY <1>2, <1>3, EffectsCounted, FS_AddElement

LEMMA NoEffectAppended ==
  ASSUME NEW s \in Seq(EventRow), NEW e \in EventRow, NEW f \in EventRow, NEW kinds,
         EffectOf(f) \notin kinds
  PROVE  EffectsIn(Append(Append(s, e), f), kinds) = EffectsIn(Append(s, e), kinds)
<1> DEFINE r == Append(s, e)
<1>1. r \in Seq(EventRow)
  OBVIOUS
<1> HIDE DEF r
<1>2. /\ DOMAIN Append(r, f) = DOMAIN r \cup {Len(r) + 1}
      /\ Append(r, f)[Len(r) + 1] = f /\ \A i \in DOMAIN r : Append(r, f)[i] = r[i]
  BY <1>1, AppendFacts
<1>3. EffectsIn(Append(r, f), kinds) = EffectsIn(r, kinds)
  BY <1>2 DEF EffectsIn
<1> QED
  BY <1>3 DEF r

(* A step adds at most one effect to a task, that of the action executed.  *)
LEMMA EffectsAdded ==
  ASSUME TypeOK, NEW t \in Tasks, Writes(t), NEW kinds \in SUBSET Actions
  PROVE  \/ Cardinality(EffectsIn(events'[t], kinds)) = Cardinality(EffectsIn(events[t], kinds))
         \/ /\ Cardinality(EffectsIn(events'[t], kinds))
                 = Cardinality(EffectsIn(events[t], kinds)) + 1
            /\ \E action \in kinds : Executes(t, action)
<1>1. events[t] \in Seq(EventRow) /\ "none" \notin kinds
  BY EffectWords DEF TypeOK, DatabaseType
<1>2. ASSUME NEW e \in EventRow, WritesOne(t, e)
      PROVE  \/ Cardinality(EffectsIn(events'[t], kinds))
                  = Cardinality(EffectsIn(events[t], kinds))
             \/ /\ Cardinality(EffectsIn(events'[t], kinds))
                     = Cardinality(EffectsIn(events[t], kinds)) + 1
                /\ \E action \in kinds : Executes(t, action)
  BY <1>1, <1>2, EffectAppended DEF WritesOne
<1>3. ASSUME NEW e \in EventRow, NEW f \in EventRow, WritesTwo(t, e, f)
      PROVE  \/ Cardinality(EffectsIn(events'[t], kinds))
                  = Cardinality(EffectsIn(events[t], kinds))
             \/ /\ Cardinality(EffectsIn(events'[t], kinds))
                     = Cardinality(EffectsIn(events[t], kinds)) + 1
                /\ \E action \in kinds : Executes(t, action)
  <2>1. Cardinality(EffectsIn(events'[t], kinds))
          = Cardinality(EffectsIn(Append(events[t], e), kinds))
    BY <1>1, <1>3, NoEffectAppended DEF WritesTwo
  <2> QED
    BY <1>1, <1>3, <2>1, EffectAppended DEF WritesTwo
<1>4. CASE events'[t] = events[t]
  BY <1>4
<1> QED
  BY <1>2, <1>3, <1>4 DEF Writes

(* The effect of an execution is counted.                                  *)
LEMMA EffectCounted ==
  ASSUME TypeOK, NEW t \in Tasks, Effected(t)
  PROVE  Cardinality(EffectsIn(events'[t], Actions))
           = Cardinality(EffectsIn(events[t], Actions)) + 1
<1>1. events[t] \in Seq(EventRow) /\ "none" \notin Actions
  BY EffectWords DEF TypeOK, DatabaseType
<1>2. CASE \E e \in EventRow : WritesOne(t, e) /\ EffectOf(e) # "none"
  BY <1>1, <1>2, EffectAppended, EffectWords DEF WritesOne
<1>3. ASSUME NEW e \in EventRow, NEW f \in EventRow, WritesTwo(t, e, f), EffectOf(e) # "none"
      PROVE  Cardinality(EffectsIn(events'[t], Actions))
               = Cardinality(EffectsIn(events[t], Actions)) + 1
  <2>1. Cardinality(EffectsIn(events'[t], Actions))
          = Cardinality(EffectsIn(Append(events[t], e), Actions))
    BY <1>1, <1>3, NoEffectAppended DEF WritesTwo
  <2> QED
    BY <1>1, <1>3, <2>1, EffectAppended, EffectWords
<1> QED
  BY <1>2, <1>3 DEF Effected

(* Every request has its route.                                            *)
RequestsRouted == \A t \in Tasks : \A i \in DOMAIN events[t] : Routed(events[t][i])

(* A task that is being or was retried went to a route first.              *)
LEMMA RoutedBefore ==
  ASSUME TypeOK, Trajectories, RetriesRouted, RequestsRouted, NEW t \in Tasks, Created(t),
         \/ task[t].target # None
         \/ \E i \in DOMAIN events[t] : events[t][i].type = "REQUESTED"
  PROVE  \E j \in DOMAIN events[t] : EffectOf(events[t][j]) \in {"CONTINUE", "FALLBACK"}
<1>1. /\ Counted(events[t], task[t]) /\ RequestsFit(events[t], task[t])
      /\ events[t] \in Seq(EventRow)
  BY DEF Trajectories, Story, Consistent, TypeOK, DatabaseType
<1>2. CASE Of(events[t], "FALLBACK_SCHEDULED") # {}
  BY <1>2 DEF Of, EffectOf
<1>3. CASE Of(events[t], "FALLBACK_SCHEDULED") = {}
  <2>1. ~task[t].fallbackUsed
    BY <1>1, <1>3 DEF Counted
  <2>2. PICK i \in DOMAIN events[t] : events[t][i].type = "REQUESTED"
    BY <1>1, <2>1 DEF Counted, Of
  <2>3. events[t][i] \in EventRow /\ Routed(events[t][i])
    BY <1>1, ElementOfSeq DEF RequestsRouted
  <2>4. /\ events[t][i].target # Fallback /\ events[t][i].target # None
        /\ events[t][i].target \in Targets /\ events[t][i].attempt <= task[t].attempt
        /\ events[t][i].attempt \in Nat
    BY <1>1, <2>1, <2>2, <2>3 DEF RequestsFit, Of, Routed, EventRow
  <2>5. events[t][i].target = Primary /\ events[t][i].attempt >= 1
    BY <2>2, <2>3, <2>4 DEF Targets, Routes, Routed
  <2>6. CASE events[t][i].attempt = 1
    BY <2>2, <2>5, <2>6 DEF EffectOf
  <2>7. CASE events[t][i].attempt # 1
    <3>1. task[t].attempt # 1 + 0
      BY <2>4, <2>5, <2>7 DEF TypeOK, DatabaseType, TaskRow
    <3>2. Of(events[t], "RETRY_SCHEDULED") # {}
      BY <1>1, <3>1, FS_EmptySet DEF Counted
    <3> QED
      BY <3>2 DEF RetriesRouted, Rows, Of
  <2> QED
    BY <2>6, <2>7
<1> QED
  BY <1>2, <1>3

LEMMA RetriesRoutedStep ==
  ASSUME TypeOK, Coordinated, Trajectories, RetriesRouted, RequestsRouted, [Next]_vars
  PROVE  RetriesRouted'
<1> SUFFICES ASSUME NEW t \in Tasks, Rows(t, "RETRY_SCHEDULED")' # {}
             PROVE  \E j \in DOMAIN events'[t] :
                      EffectOf(events'[t][j]) \in {"CONTINUE", "FALLBACK"}
  BY DEF RetriesRouted, EffectOf
<1>1. \A i \in DOMAIN events[t] : i \in DOMAIN events'[t] /\ events'[t][i] = events[t][i]
  BY RowsStay
<1>2. CASE \E j \in DOMAIN events[t] : EffectOf(events[t][j]) \in {"CONTINUE", "FALLBACK"}
  BY <1>1, <1>2
<1>3. CASE ~\E j \in DOMAIN events[t] : EffectOf(events[t][j]) \in {"CONTINUE", "FALLBACK"}
  <2>1. Rows(t, "RETRY_SCHEDULED") = {}
    BY <1>3 DEF RetriesRouted
  <2>2. events[t] \in Seq(EventRow)
    BY DEF TypeOK, DatabaseType
  <2>3. PICK i \in DOMAIN events'[t] : events'[t][i].type = "RETRY_SCHEDULED"
    BY DEF Rows
  <2>4. \A k \in DOMAIN events[t] : events[t][k].type # "RETRY_SCHEDULED"
    BY <2>1 DEF Rows
  <2>5. ASSUME NEW e \in EventRow, WritesOne(t, e) PROVE FALSE
    <3>1. e.type = "RETRY_SCHEDULED"
      BY <2>2, <2>3, <2>4, <2>5, AppendFacts DEF WritesOne
    <3>2. task[t].target # None /\ Created(t)
      BY <2>5, <3>1 DEF WritesOne
    <3> QED
      BY <1>3, <3>2, RoutedBefore
  <2>6. ASSUME NEW e \in EventRow, NEW f \in EventRow, WritesTwo(t, e, f) PROVE FALSE
    <3>1. e.type # "RETRY_SCHEDULED" /\ f.type # "RETRY_SCHEDULED"
      BY <2>6 DEF WritesTwo, EffectOf
    <3>2. Append(events[t], e) \in Seq(EventRow)
      BY <2>2
    <3> QED
      BY <2>2, <2>3, <2>4, <2>6, <3>1, <3>2, AppendFacts DEF WritesTwo
  <2>7. Writes(t) /\ events'[t] # events[t]
    BY <2>3, <2>4, StepWrites
  <2> QED
    BY <2>5, <2>6, <2>7 DEF Writes
<1> QED
  BY <1>2, <1>3

(* A task completes with the answer that completes it.                     *)
CompletionAnswered ==
  \A t \in Tasks : Rows(t, "TASK_COMPLETED") # {} => Rows(t, "SUCCEEDED") # {}

LEMMA RequestsRoutedStep ==
  ASSUME TypeOK, Coordinated, Trajectories, RetriesRouted, RequestsRouted, CompletionAnswered,
         [Next]_vars
  PROVE  RequestsRouted' /\ CompletionAnswered'
<1> SUFFICES ASSUME NEW t \in Tasks
             PROVE  /\ \A i \in DOMAIN events'[t] : Routed(events'[t][i])
                    /\ (\E i \in DOMAIN events'[t] : events'[t][i].type = "TASK_COMPLETED") =>
                         \E i \in DOMAIN events'[t] : events'[t][i].type = "SUCCEEDED"
  BY DEF RequestsRouted, CompletionAnswered, Rows, Routed
<1>1. Writes(t) /\ events[t] \in Seq(EventRow)
  BY StepWrites DEF TypeOK, DatabaseType
<1>2. /\ \A i \in DOMAIN events[t] : Routed(events[t][i])
      /\ (\E i \in DOMAIN events[t] : events[t][i].type = "TASK_COMPLETED") =>
           \E i \in DOMAIN events[t] : events[t][i].type = "SUCCEEDED"
  BY DEF RequestsRouted, CompletionAnswered, Rows
<1>3. CASE events'[t] = events[t]
  BY <1>2, <1>3
<1>4. ASSUME NEW e \in EventRow, WritesOne(t, e)
      PROVE  /\ \A i \in DOMAIN events'[t] : Routed(events'[t][i])
             /\ (\E i \in DOMAIN events'[t] : events'[t][i].type = "TASK_COMPLETED") =>
                  \E i \in DOMAIN events'[t] : events'[t][i].type = "SUCCEEDED"
  BY <1>1, <1>2, <1>4, AppendFacts DEF WritesOne
<1>5. ASSUME NEW e \in EventRow, NEW f \in EventRow, WritesTwo(t, e, f)
      PROVE  /\ \A i \in DOMAIN events'[t] : Routed(events'[t][i])
             /\ (\E i \in DOMAIN events'[t] : events'[t][i].type = "TASK_COMPLETED") =>
                  \E i \in DOMAIN events'[t] : events'[t][i].type = "SUCCEEDED"
  <2> DEFINE r == Append(events[t], e)
             n == Len(events[t]) + 1
             k == Len(r) + 1
  <2>1. /\ r \in Seq(EventRow) /\ DOMAIN r = DOMAIN events[t] \cup {n} /\ r[n] = e
        /\ \A i \in DOMAIN events[t] : r[i] = events[t][i]
    BY <1>1, AppendFacts
  <2> HIDE DEF r, n
  <2>2. /\ DOMAIN Append(r, f) = DOMAIN r \cup {k} /\ Append(r, f)[k] = f
        /\ \A i \in DOMAIN r : Append(r, f)[i] = r[i]
    BY <2>1, AppendFacts
  <2> HIDE DEF k
  <2>3. /\ events'[t] = Append(r, f) /\ e.type \notin {"REQUESTED", "TASK_COMPLETED"} /\ Routed(f)
        /\ f.type = "TASK_COMPLETED" => e.type = "SUCCEEDED"
    BY <1>5 DEF WritesTwo, r, TerminalEvent
  <2>4. Routed(e)
    BY <2>3 DEF Routed
  <2> QED
    BY <1>2, <2>1, <2>2, <2>3, <2>4
<1> QED
  BY <1>1, <1>3, <1>4, <1>5 DEF Writes

-----------------------------------------------------------------------------
(* What opens a decision point.                                            *)

(* The transaction that opens a point of task t: one row, e, with the      *)
(* number of the task.                                                     *)
Opens(t, e) ==
  /\ e \in EventRow /\ events'[t] = Append(events[t], e) /\ e.seq = task'[t].seq
  /\ task'[t].status = task[t].status /\ task'[t].target = task[t].target
  /\ ~Terminal(t)

LEMMA PointOpened ==
  ASSUME TypeOK, TypeOK', Coordinated, Trajectories, NEW m \in inbox,
         \/ HandleFailed(m) /\ ~Terminal(m.task) /\ IsCurrentRequest(m.task, m.ref)
         \/ HandleTimeout(m) \/ HandleReevaluate(m)
  PROVE  /\ m.task \in Tasks /\ Created(m.task) /\ At(Worker, "idle")
         /\ actor' = [actor EXCEPT ![Worker] =
                        [pc |-> "build", task |-> m.task, msg |-> m,
                         decision |-> NoDecision, effects |-> <<>>]]
         /\ \E e \in EventRow :
              /\ Opens(m.task, e) /\ e.ref = m.ref
              /\ \/ HandleFailed(m) /\ m.kind = "FAILED" /\ e.type = "FAILED"
                      /\ e.redelivered = m.redelivered
                 \/ HandleTimeout(m) /\ m.kind = "timeout_check" /\ e.type = "INVENTORY_TIMEOUT"
                      /\ ~e.redelivered
                 \/ HandleReevaluate(m) /\ m.kind = "reevaluate" /\ e.type = "WAIT_FINISHED"
                      /\ ~e.redelivered
<1> DEFINE t == m.task
           row == task[t]
           received == Numbered(row)
<1>1. /\ t \in Tasks /\ row \in TaskRow /\ Created(t) /\ events[t] \in Seq(EventRow)
      /\ m.ref \in Nat /\ DatabaseType /\ DatabaseType'
  BY HandlerStory DEF TypeOK
<1>2. received \in TaskRow /\ received.status = row.status /\ received.target = row.target
  BY <1>1, NumberedKeeps
<1>3. At(Worker, "idle")
  BY DEF HandleFailed, HandleTimeout, HandleReevaluate, Begin
<1>4. ASSUME HandleFailed(m), ~Terminal(m.task), IsCurrentRequest(m.task, m.ref)
      PROVE  /\ m.kind = "FAILED"
             /\ actor' = [actor EXCEPT ![Worker] =
                        [pc |-> "build", task |-> m.task, msg |-> m,
                         decision |-> NoDecision, effects |-> <<>>]]
             /\ \E e \in EventRow : /\ Opens(m.task, e) /\ e.ref = m.ref /\ e.type = "FAILED"
                                    /\ e.redelivered = m.redelivered
  <2>1. m.kind = "FAILED" /\ Begin(m, "build", <<>>)
    BY <1>4 DEF HandleFailed
  <2>2. PICK result : Write(t, [received EXCEPT !.lastResult = result],
                            <<ReplyEvent(m, [received EXCEPT !.lastResult = result].seq, m.redelivered)>>)
    BY <1>4 DEF HandleFailed
  <2> DEFINE new == [received EXCEPT !.lastResult = result]
             x == ReplyEvent(m, new.seq, m.redelivered)
  <2>3. new.status = row.status /\ new.target = row.target
    <3> HIDE DEF received
    <3> QED
      BY <1>2 DEF TaskRow
  <2>4. Write(t, new, <<x>>)
    BY <2>2
  <2> HIDE DEF new
  <2>5. x.type = "FAILED" /\ x.ref = m.ref /\ x.redelivered = m.redelivered /\ x.seq = new.seq
    BY <2>1 DEF ReplyEvent
  <2> HIDE DEF x
  <2>6. x \in EventRow /\ events'[t] = Append(events[t], x) /\ task'[t] = new
    BY <1>1, <2>4, WrittenRow
  <2>7. Opens(t, x)
    BY <1>4, <2>3, <2>5, <2>6 DEF Opens
  <2> QED
    BY <2>1, <2>5, <2>6, <2>7 DEF Begin
<1>5. ASSUME HandleTimeout(m)
      PROVE  /\ m.kind = "timeout_check"
             /\ actor' = [actor EXCEPT ![Worker] =
                        [pc |-> "build", task |-> m.task, msg |-> m,
                         decision |-> NoDecision, effects |-> <<>>]]
             /\ \E e \in EventRow : /\ Opens(m.task, e) /\ e.ref = m.ref
                                    /\ e.type = "INVENTORY_TIMEOUT" /\ ~e.redelivered
  <2>1. m.kind = "timeout_check" /\ Begin(m, "build", <<>>) /\ ~Terminal(t)
    BY <1>5 DEF HandleTimeout, TimeoutApplies
  <2>2. PICK result \in TaskResults \cup {None} :
          Write(t, Numbered([row EXCEPT !.lastResult = result]),
                <<OwnEvent("INVENTORY_TIMEOUT", m.ref, Numbered([row EXCEPT !.lastResult = result]))>>)
    BY <1>5, WrittenWords DEF HandleTimeout
  <2> DEFINE new == Numbered([row EXCEPT !.lastResult = result])
             x == OwnEvent("INVENTORY_TIMEOUT", m.ref, new)
  <2>3. new.status = row.status /\ new.target = row.target
    <3>1. [row EXCEPT !.lastResult = result] \in TaskRow
          /\ [row EXCEPT !.lastResult = result].status = row.status
          /\ [row EXCEPT !.lastResult = result].target = row.target
      BY <1>1, ResultChanged
    <3> QED
      BY <3>1, NumberedKeeps
  <2>4. Write(t, new, <<x>>)
    BY <2>2
  <2> HIDE DEF new
  <2>5. x.type = "INVENTORY_TIMEOUT" /\ x.ref = m.ref /\ ~x.redelivered /\ x.seq = new.seq
    BY DEF OwnEvent
  <2> HIDE DEF x
  <2>6. x \in EventRow /\ events'[t] = Append(events[t], x) /\ task'[t] = new
    BY <1>1, <2>4, WrittenRow
  <2>7. Opens(t, x)
    BY <2>1, <2>3, <2>5, <2>6 DEF Opens
  <2> QED
    BY <2>1, <2>5, <2>6, <2>7 DEF Begin
<1>6. ASSUME HandleReevaluate(m)
      PROVE  /\ m.kind = "reevaluate"
             /\ actor' = [actor EXCEPT ![Worker] =
                        [pc |-> "build", task |-> m.task, msg |-> m,
                         decision |-> NoDecision, effects |-> <<>>]]
             /\ \E e \in EventRow : /\ Opens(m.task, e) /\ e.ref = m.ref
                                    /\ e.type = "WAIT_FINISHED" /\ ~e.redelivered
  <2> DEFINE x == OwnEvent("WAIT_FINISHED", m.ref, received)
  <2>1. m.kind = "reevaluate" /\ Begin(m, "build", <<>>) /\ ~Terminal(t)
    BY <1>6 DEF HandleReevaluate, WaitApplies, Terminal, TerminalStatuses
  <2>2. Write(t, received, <<x>>)
    BY <1>6 DEF HandleReevaluate
  <2> HIDE DEF received
  <2>5. x.type = "WAIT_FINISHED" /\ x.ref = m.ref /\ ~x.redelivered /\ x.seq = received.seq
    BY DEF OwnEvent
  <2> HIDE DEF x
  <2>6. x \in EventRow /\ events'[t] = Append(events[t], x) /\ task'[t] = received
    BY <1>1, <2>2, WrittenRow
  <2>7. Opens(t, x)
    BY <1>2, <2>1, <2>5, <2>6 DEF Opens
  <2> QED
    BY <2>1, <2>5, <2>6, <2>7 DEF Begin
<1>7. HandleFailed(m) \/ HandleTimeout(m) \/ HandleReevaluate(m)
  OBVIOUS
<1> QED
  BY <1>1, <1>3, <1>4, <1>5, <1>6

(* Who decides after a step did before, or has just opened its point on a  *)
(* task that is not terminal.                                              *)
LEMMA WhoDecides ==
  ASSUME TypeOK, TypeOK', Coordinated, Trajectories, [Next]_vars, NEW a \in Actors, Deciding(a)'
  PROVE  \/ actor'[a] = actor[a] /\ Deciding(a)
         \/ TakeDecision(a)
         \/ ~Deciding(a) /\ task'[actor'[a].task].status \notin TerminalStatuses /\ actor'[a].task \in Tasks
<1>1. actor \in [Actors -> ActorState] /\ Worker \in Actors /\ Tasks \subseteq Actors
  BY DEF TypeOK, ActorType, Actors
<1>2. ASSUME actor'[a] = actor[a] PROVE Deciding(a)
  BY <1>2 DEF Deciding, At
<1>3. CASE At(a, "execute")'
  BY <1>2, <1>3, OnlyTakenExecute
<1>4. CASE At(a, "build")'
  <2>1. CASE a \in Tasks /\ CreateOrder(a)
    <3>1. ~Deciding(a) /\ actor'[a].task = a
      BY <1>1, <2>1 DEF CreateOrder, Deciding, At, Free
    <3>2. task'[a].status = "PENDING"
      <4> DEFINE new == [AbsentRow EXCEPT !.status = "PENDING", !.seq = 1]
                 x == OwnEvent("TASK_CREATED", 0, new)
      <4>1. Write(a, new, <<x>>)
        BY <2>1 DEF CreateOrder
      <4>2. new.status = "PENDING"
        BY DEF AbsentRow
      <4> HIDE DEF new, x
      <4> QED
        BY <2>1, <4>1, <4>2, WrittenRow DEF TypeOK
    <3> QED
      BY <2>1, <3>1, <3>2 DEF TerminalStatuses
  <2>2. ASSUME a = Worker, NEW m \in inbox, actor'[a].task = m.task,
               \/ HandleFailed(m) /\ ~Terminal(m.task) /\ IsCurrentRequest(m.task, m.ref)
               \/ HandleTimeout(m) \/ HandleReevaluate(m)
        PROVE  ~Deciding(a) /\ task'[actor'[a].task].status \notin TerminalStatuses /\ actor'[a].task \in Tasks
    <3>1. /\ m.task \in Tasks /\ At(Worker, "idle")
          /\ \E e \in EventRow : Opens(m.task, e)
      BY <2>2, PointOpened
    <3> QED
      BY <2>2, <3>1 DEF Opens, Deciding, At, Terminal
  <2> QED
    BY <1>2, <1>4, <2>1, <2>2, WhoBuilds
<1> QED
  BY <1>3, <1>4 DEF Deciding

-----------------------------------------------------------------------------
(* What a trajectory tells of the end of its task.                         *)

EndRows(s) == {i \in DOMAIN s : s[i].type \in DOMAIN TerminalEvent}

EndTold(s, status) ==
  IF status \in TerminalStatuses
  THEN \E i \in EndRows(s) :
         TerminalEvent[s[i].type] = status /\ \A j \in EndRows(s) : i <= j
  ELSE EndRows(s) = {}

LEMMA EndWords ==
  /\ DOMAIN TerminalEvent = {"TASK_COMPLETED", "TASK_ABORTED", "MESSAGE_DEAD_LETTERED"}
  /\ \A type \in DOMAIN TerminalEvent :
       /\ TerminalEvent[type] \in TerminalStatuses
       /\ TerminalEvent[type] = "DEAD_LETTERED" => type = "MESSAGE_DEAD_LETTERED"
       /\ TerminalEvent[type] = "ABORTED" => type = "TASK_ABORTED"
       /\ TerminalEvent[type] = "COMPLETED" => type = "TASK_COMPLETED"
BY DEF TerminalEvent, TerminalStatuses

LEMMA EndAppended ==
  ASSUME NEW s \in Seq(EventRow), NEW e \in EventRow, NEW old, NEW new,
         EndTold(s, old), Ends(old, e, new)
  PROVE  EndTold(Append(s, e), new)
<1> DEFINE n == Len(s) + 1
<1>1. /\ n \notin DOMAIN s /\ DOMAIN Append(s, e) = DOMAIN s \cup {n}
      /\ Append(s, e)[n] = e
      /\ \A i \in DOMAIN s : Append(s, e)[i] = s[i] /\ i < n /\ i \in Nat
      /\ n \in Nat
  BY AppendFacts
<1> HIDE DEF n
<1>2. EndRows(Append(s, e))
        = IF e.type \in DOMAIN TerminalEvent THEN EndRows(s) \cup {n} ELSE EndRows(s)
  BY <1>1 DEF EndRows
<1>3. CASE old \in TerminalStatuses
  <2>1. PICK i \in EndRows(s) :
          TerminalEvent[s[i].type] = old /\ \A j \in EndRows(s) : i <= j
    BY <1>3 DEF EndTold
  <2>2. i \in DOMAIN s /\ i < n
    BY <1>1 DEF EndRows
  <2>3. i \in EndRows(Append(s, e)) /\ \A j \in EndRows(Append(s, e)) : i <= j
    BY <1>1, <1>2, <2>1, <2>2
  <2>4. Append(s, e)[i] = s[i] /\ new = old
    BY <1>1, <1>3, <2>2 DEF Ends
  <2> QED
    BY <1>3, <2>1, <2>3, <2>4 DEF EndTold
<1>4. CASE old \notin TerminalStatuses /\ e.type \in DOMAIN TerminalEvent
  <2>1. EndRows(Append(s, e)) = {n}
    BY <1>2, <1>4 DEF EndTold
  <2>2. new = TerminalEvent[e.type] /\ new \in TerminalStatuses
    BY <1>4, EndWords DEF Ends
  <2> QED
    BY <1>1, <2>1, <2>2 DEF EndTold
<1>5. CASE old \notin TerminalStatuses /\ e.type \notin DOMAIN TerminalEvent
  BY <1>2, <1>5 DEF EndTold, Ends
<1> QED
  BY <1>3, <1>4, <1>5

(* What a step does to the status of a task.                               *)
Dead(t) == task[t].status = "DEAD_LETTERED"

LEMMA StatusMoves ==
  ASSUME NEW t \in Tasks, Writes(t)
  PROVE  /\ Terminal(t) => task'[t].status = task[t].status
         /\ Dead(t)' => Dead(t) \/ deadLetters # {}
<1>1. Terminal(t) => task'[t].status = task[t].status
  BY DEF Writes, WritesOne, WritesTwo, Ends, Terminal
<1>2. ASSUME Dead(t)', ~Dead(t) PROVE deadLetters # {}
  <2>1. "DEAD_LETTERED" \in TerminalStatuses
    BY DEF TerminalStatuses
  <2>2. task'[t].status = "DEAD_LETTERED" /\ task[t].status # "DEAD_LETTERED"
    BY <1>2 DEF Dead
  <2>3. \A f : Ends(task[t].status, f, task'[t].status) => f.type = "MESSAGE_DEAD_LETTERED"
    BY <2>1, <2>2, EndWords DEF Ends
  <2> QED
    BY <2>2, <2>3 DEF Writes, WritesOne, WritesTwo
<1> QED
  BY <1>1, <1>2

(* A handler at a decision point of a task that ended: by a dead letter.   *)
DeadEnd == \A a \in Actors : Deciding(a) /\ Terminal(actor[a].task) => Dead(actor[a].task)

(* No dead letter without a failure.                                       *)
FailureFirst == deadLetters # {} \/ (\E t \in Tasks : Dead(t)) => failures >= 1

EndsTold == \A t \in Tasks : EndTold(events[t], task[t].status)

Opened == \A t \in Tasks : Created(t) =>
            1 \in DOMAIN events[t] /\ events[t][1].type = "TASK_CREATED"

Traced ==
  /\ RetriesRouted /\ RequestsRouted /\ CompletionAnswered
  /\ DeadEnd /\ FailureFirst /\ EndsTold /\ Opened

LEMMA DeadEndStep ==
  ASSUME Safe, Safe', Recorded, Traced, [Next]_vars
  PROVE  DeadEnd'
<1> SUFFICES ASSUME NEW a \in Actors, Deciding(a)', task'[actor'[a].task].status \in TerminalStatuses
             PROVE  task'[actor'[a].task].status = "DEAD_LETTERED"
  BY DEF DeadEnd, Terminal, Dead
<1>1. TypeOK /\ TypeOK' /\ Coordinated /\ Trajectories /\ RetriesRouted /\ DeadEnd
  BY DEF Safe, Recorded, Traced
<1>2. \A t \in Tasks : Writes(t)
  BY <1>1, StepWrites
<1>3. CASE actor'[a] = actor[a] /\ Deciding(a)
  <2>1. actor[a].task \in Tasks
    BY <1>1, <1>3, CreatedTask DEF Deciding, InRequest, At
  <2>2. CASE Terminal(actor[a].task)
    BY <1>1, <1>2, <1>3, <2>1, <2>2, StatusMoves DEF DeadEnd, Dead
  <2>3. CASE ~Terminal(actor[a].task)
    BY <1>1, <1>3, <2>3, RowOfDecision DEF Terminal
  <2> QED
    BY <2>2, <2>3
<1>4. CASE TakeDecision(a)
  <2>1. task' = task /\ Deciding(a)
    BY <1>4 DEF TakeDecision, database, Deciding
  <2>2. actor'[a].task = actor[a].task
    BY <1>1, <1>4 DEF TakeDecision, TypeOK, ActorType, ActorState
  <2> QED
    BY <1>1, <2>1, <2>2 DEF DeadEnd, Terminal, Dead
<1> QED
  BY <1>1, <1>3, <1>4, WhoDecides

LEMMA FailureFirstStep ==
  ASSUME Safe, Recorded, Traced, [Next]_vars
  PROVE  FailureFirst'
<1>1. TypeOK /\ TypeOK' /\ Coordinated /\ Trajectories /\ RetriesRouted /\ FailureFirst
  BY TypeStep DEF Safe, Recorded, Traced
<1>2. /\ failures \in Nat /\ failures' \in Nat /\ failures' >= failures
      /\ \/ deadLetters' \subseteq deadLetters
         \/ failures' > failures
         \/ \E t \in Tasks : Dead(t)
  BY <1>1, RaisesExplained, FaultsCounted DEF TypeOK, BoundsType, Dead
<1>3. (\E t \in Tasks : Dead(t)') => failures >= 1
  BY <1>1, StepWrites, StatusMoves DEF FailureFirst
<1>4. (\E t \in Tasks : Dead(t)') => failures' >= 1
  BY <1>2, <1>3
<1>5. deadLetters' # {} => failures' >= 1
  BY <1>1, <1>2 DEF FailureFirst
<1> QED
  BY <1>4, <1>5 DEF FailureFirst

LEMMA EndsToldStep ==
  ASSUME Safe, Recorded, Traced, [Next]_vars
  PROVE  EndsTold' /\ Opened'
<1> SUFFICES ASSUME NEW t \in Tasks
             PROVE  /\ EndTold(events'[t], task'[t].status)
                    /\ task'[t].status # "ABSENT" =>
                         1 \in DOMAIN events'[t] /\ events'[t][1].type = "TASK_CREATED"
  BY DEF EndsTold, Opened, Created
<1>1. TypeOK /\ TypeOK' /\ Coordinated /\ Trajectories /\ RetriesRouted
      /\ EndTold(events[t], task[t].status) /\ events[t] \in Seq(EventRow)
  BY TypeStep DEF Safe, Recorded, Traced, EndsTold, TypeOK, DatabaseType
<1>2. Writes(t)
  BY <1>1, StepWrites
<1>3. EndTold(events'[t], task'[t].status)
  <2>1. ASSUME NEW e \in EventRow, WritesOne(t, e) PROVE EndTold(events'[t], task'[t].status)
    BY <1>1, <2>1, EndAppended DEF WritesOne
  <2>2. ASSUME NEW e \in EventRow, NEW f \in EventRow, WritesTwo(t, e, f)
        PROVE  EndTold(events'[t], task'[t].status)
    <3> DEFINE r == Append(events[t], e)
    <3>1. r \in Seq(EventRow)
      BY <1>1
    <3>2. Ends(task[t].status, e, task[t].status)
      BY <2>2 DEF WritesTwo, Ends, Terminal
    <3>3. EndTold(r, task[t].status)
      BY <1>1, <3>2, EndAppended
    <3>4. events'[t] = Append(r, f) /\ Ends(task[t].status, f, task'[t].status)
      BY <2>2 DEF WritesTwo
    <3> HIDE DEF r
    <3> QED
      BY <3>1, <3>3, <3>4, EndAppended
  <2> QED
    BY <1>1, <1>2, <2>1, <2>2 DEF Writes
<1>4. ASSUME task'[t].status # "ABSENT"
      PROVE  1 \in DOMAIN events'[t] /\ events'[t][1].type = "TASK_CREATED"
  <2>1. CASE Created(t)
    BY <2>1, RowsStay, <1>1 DEF Safe, Traced, Opened
  <2>2. CASE ~Created(t)
    <3>1. events[t] = <<>>
      BY <1>1, <2>2 DEF Trajectories, Story, Created
    <3>2. PICK e \in EventRow : WritesOne(t, e)
      BY <1>2, <1>4, <2>2 DEF Writes, WritesTwo, Created
    <3>3. e.type = "TASK_CREATED" /\ events'[t] = Append(<<>>, e)
      BY <2>2, <3>1, <3>2 DEF WritesOne
    <3> QED
      BY <3>3
  <2> QED
    BY <2>1, <2>2
<1> QED
  BY <1>3, <1>4

LEMMA InitTraced == ASSUME Init PROVE Traced
<1>1. \A t \in Tasks : task[t].status = "ABSENT" /\ events[t] = <<>>
  BY DEF Init, AbsentRow
<1>2. \A a \in Actors : actor[a].pc = "idle"
  BY DEF Init, Free
<1>3. deadLetters = {}
  BY DEF Init
<1>4. "ABSENT" \notin TerminalStatuses
  BY DEF TerminalStatuses
<1> QED
  BY <1>1, <1>2, <1>3, <1>4 DEF Traced, RetriesRouted, RequestsRouted,
     CompletionAnswered, Rows, DeadEnd, Deciding, At, FailureFirst, Dead,
     EndsTold, EndTold, EndRows, Opened, Created

LEMMA AlwaysTraced == Spec => []Traced
<1>1. Safe /\ Safe' /\ Recorded /\ Traced /\ [Next]_vars => Traced'
  <2> SUFFICES ASSUME Safe, Safe', Recorded, Traced, [Next]_vars PROVE Traced'
    OBVIOUS
  <2>1. RetriesRouted' /\ RequestsRouted' /\ CompletionAnswered'
    BY RetriesRoutedStep, RequestsRoutedStep DEF Safe, Recorded, Traced
  <2> QED
    BY <2>1, DeadEndStep, FailureFirstStep, EndsToldStep DEF Traced
<1> QED
  BY <1>1, InitTraced, AlwaysSafe, AlwaysRecorded, PTL DEF Spec

-----------------------------------------------------------------------------
(* The lines of the files.                                                 *)

NumberedLines(lines) ==
  /\ IsFiniteSet(lines)
  /\ \A x \in lines : x.id \in 1 .. Cardinality(lines)
  /\ \A x, y \in lines : x.id = y.id => x = y

LEMMA LineAdded ==
  ASSUME NEW lines, NumberedLines(lines), NEW x, x.id = Cardinality(lines) + 1
  PROVE  /\ NumberedLines(lines \cup {x}) /\ x \notin lines
         /\ Cardinality(lines \cup {x}) = Cardinality(lines) + 1
<1>1. Cardinality(lines) \in Nat
  BY FS_CardinalityType DEF NumberedLines
<1>2. \A y \in lines : y.id # x.id
  BY <1>1 DEF NumberedLines
<1>3. IsFiniteSet(lines \cup {x}) /\ Cardinality(lines \cup {x}) = Cardinality(lines) + 1
  BY <1>2, FS_AddElement DEF NumberedLines
<1>4. \A y \in lines \cup {x} : y.id \in 1 .. Cardinality(lines \cup {x})
  BY <1>1, <1>3 DEF NumberedLines
<1>5. \A y, z \in lines \cup {x} : y.id = z.id => y = z
  BY <1>2 DEF NumberedLines
<1> QED
  BY <1>2, <1>3, <1>4, <1>5 DEF NumberedLines

(* Taking a decision.                                                      *)
LEMMA Taken ==
  ASSUME TypeOK, NEW a \in Actors, TakeDecision(a)
  PROVE  /\ At(a, "build") /\ At(a, "execute")' /\ actor'[a].task = actor[a].task
         /\ \A b \in Actors \ {a} : actor'[b] = actor[b] /\ ~TakeDecision(b)
         /\ task' = task /\ events' = events /\ Spent' = Spent
<1>1. actor \in [Actors -> ActorState] /\ actor[a] \in ActorState
  BY DEF TypeOK, ActorType
<1>2. /\ At(a, "build") /\ actor'[a].pc = "execute" /\ actor'[a].task = actor[a].task
      /\ \A b \in Actors \ {a} : actor'[b] = actor[b]
  BY <1>1 DEF TakeDecision, ActorState
<1>3. \A b \in Actors : TakeDecision(b) => actor[b].pc = "build" /\ actor'[b].pc = "execute"
  BY <1>1 DEF TakeDecision, At, TypeOK, ActorType, ActorState
<1>4. \A b \in Actors \ {a} : ~TakeDecision(b)
  BY <1>2, <1>3
<1>5. task' = task /\ events' = events /\ bounds' = bounds
  BY DEF TakeDecision, database
<1>6. Spent' = Spent
  BY <1>5 DEF Spent, bounds
<1> QED
  BY <1>2, <1>4, <1>5, <1>6 DEF At

(* What is recorded at a decision point, and what is recorded of one that  *)
(* is interrupted.                                                         *)
LEMMA RecordMoves ==
  ASSUME TypeOK, [RecordedNext]_recordedVars
  PROVE  /\ [Next]_vars
         /\ \/ \E a \in Actors : /\ TakeDecision(a) /\ RecordState(actor[a].task)
                                 /\ RecordDecision(actor[a].task, actor'[a].decision)
            \/ /\ \A a \in Actors : ~TakeDecision(a)
               /\ decisions' = decisions
               /\ \/ states' = states
                  \/ \E a \in Actors : At(a, "build") /\ RecordState(actor[a].task)
<1>1. [Next]_vars
  BY DEF RecordedNext, recordedVars
<1>2. ASSUME NEW a \in Actors, TakeDecision(a)
      PROVE  Decides(a) /\ \A b \in Actors \ {a} : actor'[b] = actor[b]
  BY <1>2, Taken DEF Decides
<1>3. ASSUME NEW a \in Actors, Decides(a) PROVE TakeDecision(a)
  BY <1>1, <1>3, OnlyTakenExecute DEF Decides, At
<1>4. CASE UNCHANGED recordedVars
  <2>1. actor' = actor /\ states' = states /\ decisions' = decisions
    BY <1>4 DEF recordedVars, vars, files
  <2>2. \A a \in Actors : ~Decides(a)
    BY <2>1 DEF Decides, At
  <2> QED
    BY <1>1, <1>2, <2>1, <2>2
<1>5. CASE RecordedNext
  <2>1. CASE (\A a \in Actors : ~Decides(a)) /\ UNCHANGED files
    BY <1>1, <1>2, <2>1 DEF files
  <2>2. CASE \E a \in Actors : /\ Decides(a) /\ RecordState(actor[a].task)
                               /\ RecordDecision(actor[a].task, actor'[a].decision)
    BY <1>1, <1>3, <2>2
  <2>3. ASSUME NEW a \in Actors, Interrupts(a), RecordState(actor[a].task), UNCHANGED decisions
        PROVE  \A b \in Actors : ~TakeDecision(b)
    <3> SUFFICES ASSUME NEW b \in Actors, TakeDecision(b) PROVE FALSE
      OBVIOUS
    <3>1. b = a
      BY <1>2, <2>3 DEF Interrupts, At
    <3> QED
      BY <1>2, <2>3, <3>1 DEF Interrupts, Decides
  <2> QED
    BY <1>1, <1>5, <2>1, <2>2, <2>3 DEF RecordedNext, Record, Interrupts
<1> QED
  BY <1>4, <1>5

(* RecordedSpec only adds the files.                                       *)
LEMMA RecordedIsSpec == RecordedSpec => Spec
<1>1. RecordedInit => Init
  BY DEF RecordedInit
<1>2. [RecordedNext]_recordedVars => [Next]_vars
  BY DEF RecordedNext, recordedVars
<1> QED
  BY <1>1, <1>2, PTL DEF RecordedSpec, Spec

(* The decisions of a task.                                                *)
LEMMA DecisionsCounted ==
  ASSUME NumberedLines(decisions), NEW t, NEW action
  PROVE  /\ IsFiniteSet(DecisionsOf(t)) /\ Cardinality(DecisionsOf(t)) \in Nat
         /\ IsFiniteSet(DecisionsFor(t, action)) /\ Cardinality(DecisionsFor(t, action)) \in Nat
<1>1. DecisionsOf(t) \subseteq decisions /\ DecisionsFor(t, action) \subseteq decisions
  BY DEF DecisionsOf, DecisionsFor
<1>2. IsFiniteSet(DecisionsOf(t)) /\ IsFiniteSet(DecisionsFor(t, action))
  BY <1>1, FS_Subset DEF NumberedLines
<1> QED
  BY <1>2, FS_CardinalityType

LEMMA DecisionAdded ==
  ASSUME NumberedLines(decisions), NEW u, NEW executed, RecordDecision(u, executed)
  PROVE  /\ NumberedLines(decisions')
         /\ Cardinality(DecisionsOf(u)') = Cardinality(DecisionsOf(u)) + 1
         /\ \A t : t # u => DecisionsOf(t)' = DecisionsOf(t)
         /\ \A t, action :
              IF t = u /\ action = executed.action
              THEN Cardinality(DecisionsFor(t, action)') = Cardinality(DecisionsFor(t, action)) + 1
              ELSE DecisionsFor(t, action)' = DecisionsFor(t, action)
<1> DEFINE x == [id |-> Cardinality(decisions) + 1, state |-> Cardinality(states) + 1,
                 task |-> u, action |-> executed.action]
<1>1. decisions' = decisions \cup {x}
  BY DEF RecordDecision
<1>2. x.id = Cardinality(decisions) + 1 /\ x.task = u /\ x.action = executed.action
  OBVIOUS
<1> HIDE DEF x
<1>3. NumberedLines(decisions') /\ x \notin decisions
  BY <1>1, <1>2, LineAdded
<1>4. /\ DecisionsOf(u)' = DecisionsOf(u) \cup {x} /\ x \notin DecisionsOf(u)
      /\ \A t : t # u => DecisionsOf(t)' = DecisionsOf(t)
  BY <1>1, <1>2, <1>3 DEF DecisionsOf
<1>5. \A t, action :
        /\ x \notin DecisionsFor(t, action)
        /\ DecisionsFor(t, action)'
             = IF t = u /\ action = executed.action THEN DecisionsFor(t, action) \cup {x}
               ELSE DecisionsFor(t, action)
  BY <1>1, <1>2, <1>3 DEF DecisionsOf, DecisionsFor
<1>6. Cardinality(DecisionsOf(u)') = Cardinality(DecisionsOf(u)) + 1
  BY <1>4, DecisionsCounted, FS_AddElement
<1>7. \A t, action :
        IF t = u /\ action = executed.action
        THEN Cardinality(DecisionsFor(t, action)') = Cardinality(DecisionsFor(t, action)) + 1
        ELSE DecisionsFor(t, action)' = DecisionsFor(t, action)
  <2> TAKE t, action
  <2>1. CASE t = u /\ action = executed.action
    BY <1>5, <2>1, DecisionsCounted, FS_AddElement
  <2>2. CASE ~(t = u /\ action = executed.action)
    BY <1>5, <2>2
  <2> QED
    BY <2>1, <2>2
<1> QED
  BY <1>3, <1>4, <1>6, <1>7

(* A task whose effect is about to be executed.                            *)
Committed(t, action) == \E a \in Actors : Executing(a, action) /\ actor[a].task = t

(* Who executes after a step did before, or has just decided.              *)
LEMMA CommittedMoves ==
  ASSUME TypeOK, [Next]_vars, NEW t, NEW action, Committed(t, action)'
  PROVE  \/ \E a \in Actors : Executing(a, action) /\ actor[a].task = t /\ actor'[a] = actor[a]
         \/ \E a \in Actors : /\ TakeDecision(a) /\ actor[a].task = t
                              /\ actor'[a].decision.action = action
<1>1. PICK a \in Actors : Executing(a, action)' /\ actor'[a].task = t
  BY DEF Committed
<1>2. At(a, "execute")' /\ actor'[a].decision.action = action
  BY <1>1 DEF Executing
<1>3. TakeDecision(a) => actor'[a].task = actor[a].task
  BY DEF TakeDecision, TypeOK, ActorType, ActorState
<1> QED
  BY <1>1, <1>2, <1>3, OnlyTakenExecute DEF Executing, At

(* Each effect has its decision, those about to be executed included.      *)
EffectDecided(t, action) ==
  Cardinality(EffectsIn(events[t], {action})) + (IF Committed(t, action) THEN 1 ELSE 0)
    <= Cardinality(DecisionsFor(t, action))

EffectsDecided == \A t \in Tasks : \A action \in Actions : EffectDecided(t, action)

LEMMA EffectsDecidedStep ==
  ASSUME Safe, Safe', Recorded, Traced, NumberedLines(decisions), EffectsDecided,
         [RecordedNext]_recordedVars
  PROVE  EffectsDecided'
<1> SUFFICES ASSUME NEW t \in Tasks, NEW action \in Actions
             PROVE  EffectDecided(t, action)'
  BY DEF EffectsDecided
<1> DEFINE E == Cardinality(EffectsIn(events[t], {action}))
           F == Cardinality(EffectsIn(events'[t], {action}))
           D == Cardinality(DecisionsFor(t, action))
           G == Cardinality(DecisionsFor(t, action)')
<1>1. /\ TypeOK /\ TypeOK' /\ Coordinated /\ Trajectories /\ RetriesRouted /\ [Next]_vars
      /\ events[t] \in Seq(EventRow)
  BY RecordMoves DEF Safe, Recorded, Traced, TypeOK, DatabaseType
<1>2. E \in Nat /\ D \in Nat /\ E + (IF Committed(t, action) THEN 1 ELSE 0) <= D
  BY <1>1, EffectsCounted, DecisionsCounted DEF EffectsDecided, EffectDecided
<1>3. F = E \/ (F = E + 1 /\ Executes(t, action))
  <2>1. {action} \in SUBSET Actions /\ Writes(t)
    BY <1>1, StepWrites
  <2> QED
    BY <1>1, <2>1, EffectsAdded
<1>4. ASSUME NEW a \in Actors, TakeDecision(a), RecordDecision(actor[a].task, actor'[a].decision)
      PROVE  F + (IF Committed(t, action)' THEN 1 ELSE 0) <= G
  <2>1. F = E
    BY <1>4 DEF TakeDecision, database
  <2>2. /\ Deciding(a) /\ At(a, "build") /\ At(a, "execute")'
        /\ \A b \in Actors : TakeDecision(b) => b = a
    BY <1>1, <1>4, Taken DEF Deciding
  <2>3. CASE t = actor[a].task /\ action = actor'[a].decision.action
    <3>1. ~Committed(t, action)
      BY <1>1, <2>2, <2>3, OneDecides DEF Committed, Executing, Deciding, At
    <3>2. G = D + 1
      BY <1>4, <2>3, DecisionAdded
    <3> HIDE DEF E, F, D, G
    <3> QED
      BY <1>2, <2>1, <3>1, <3>2
  <2>4. CASE ~(t = actor[a].task /\ action = actor'[a].decision.action)
    <3>1. Committed(t, action)' => Committed(t, action)
      <4>1. (\E b \in Actors : Executing(b, action) /\ actor[b].task = t /\ actor'[b] = actor[b])
              => Committed(t, action)
        BY DEF Committed
      <4> QED
        BY <1>1, <2>2, <2>4, <4>1, CommittedMoves
    <3>2. G = D
      BY <1>4, <2>4, DecisionAdded
    <3> HIDE DEF E, F, D, G
    <3> QED
      BY <1>2, <2>1, <3>1, <3>2
  <2> QED
    BY <2>3, <2>4
<1>5. ASSUME \A a \in Actors : ~TakeDecision(a), decisions' = decisions
      PROVE  F + (IF Committed(t, action)' THEN 1 ELSE 0) <= G
  <2>1. G = D
    BY <1>5 DEF DecisionsFor, DecisionsOf
  <2>2. Committed(t, action)' =>
          \E b \in Actors : Executing(b, action) /\ actor[b].task = t /\ actor'[b] = actor[b]
    BY <1>1, <1>5, CommittedMoves
  <2>3. CASE F = E
    <3>1. Committed(t, action)' => Committed(t, action)
      BY <2>2 DEF Committed
    <3> HIDE DEF E, F, D, G
    <3> QED
      BY <1>2, <2>1, <2>3, <3>1
  <2>4. CASE F = E + 1 /\ Executes(t, action)
    <3>1. PICK a \in Actors : /\ Executing(a, action) /\ actor[a].task = t
                              /\ \E messages : ThenSend(a, messages)
      BY <2>4 DEF Executes
    <3>2. actor'[a].pc = "effects" /\ actor[a].pc = "execute"
      BY <1>1, <3>1 DEF ThenSend, Executing, At, TypeOK, ActorType, ActorState
    <3>3. \A b \in Actors : Executing(b, action) /\ actor[b].task = t => b = a
      BY <1>1, <3>1, OneDecides DEF Executing, Deciding
    <3>4. ~Committed(t, action)' /\ Committed(t, action)
      BY <2>2, <3>1, <3>2, <3>3 DEF Committed
    <3> HIDE DEF E, F, D, G
    <3> QED
      BY <1>2, <2>1, <2>4, <3>4
  <2> QED
    BY <1>3, <2>3, <2>4
<1>6. F + (IF Committed(t, action)' THEN 1 ELSE 0) <= G
  BY <1>1, <1>4, <1>5, RecordMoves
<1> QED
  BY <1>6 DEF EffectDecided

(* Each decision has its effect, is about to be executed, or was disturbed *)
(* or overtaken by a dead letter.                                          *)
AtWork(t)  == \E a \in Actors : At(a, "execute") /\ actor[a].task = t
Stalled(t) == Dead(t) /\ \E a \in Actors : Deciding(a) /\ actor[a].task = t

One(P) == IF P THEN 1 ELSE 0

Balanced(t) ==
  Cardinality(DecisionsOf(t)) + One(Stalled(t))
    <= Cardinality(EffectsIn(events[t], Actions)) + One(AtWork(t)) + Spent + One(Dead(t))

LEMMA StalledMoves ==
  ASSUME Safe, Safe', Recorded, Traced, [Next]_vars, NEW t \in Tasks, Stalled(t)'
  PROVE  \E a \in Actors :
           /\ Deciding(a) /\ actor[a].task = t /\ Deciding(a)'
           /\ actor'[a] = actor[a] \/ TakeDecision(a)
<1>1. TypeOK /\ TypeOK' /\ Coordinated /\ Trajectories
  BY DEF Safe, Recorded
<1>2. /\ task'[t].status = "DEAD_LETTERED"
      /\ \E a \in Actors : Deciding(a)' /\ actor'[a].task = t
  BY DEF Stalled, Dead
<1>3. PICK a \in Actors : Deciding(a)' /\ actor'[a].task = t
  BY <1>2
<1>4. task'[t].status \in TerminalStatuses
  BY <1>2 DEF TerminalStatuses
<1>5. TakeDecision(a) => Deciding(a) /\ actor'[a].task = actor[a].task
  BY <1>1, Taken DEF Deciding
<1> QED
  BY <1>1, <1>3, <1>4, <1>5, WhoDecides

(* The executor leaves its effect, or finds the task ended by a dead       *)
(* letter.                                                                 *)
LEMMA ExecutionEnds ==
  ASSUME Safe, Safe', Recorded, Traced, [Next]_vars, NEW a \in Actors, ExecuteDecision(a),
         NEW t \in Tasks, actor[a].task = t
  PROVE  \/ Cardinality(EffectsIn(events'[t], Actions))
              = Cardinality(EffectsIn(events[t], Actions)) + 1
         \/ Stalled(t) /\ ~Stalled(t)'
<1>1. TypeOK /\ TypeOK' /\ Coordinated /\ Trajectories /\ RetriesRouted /\ DeadEnd
  BY DEF Safe, Recorded, Traced
<1>2. Effected(t) \/ ExecuteRaises(a) \/ Terminal(t)
  BY <1>1, ExecuteWrites
<1>3. Deciding(a) /\ At(a, "execute") /\ ~Deciding(a)'
  BY <1>1, ExecutedOnce DEF Deciding
<1>4. CASE Effected(t)
  BY <1>1, <1>4, EffectCounted
<1>5. CASE ~Effected(t)
  <2>1. Dead(t)
    BY <1>1, <1>2, <1>3, <1>5, RaisesExplained
       DEF ExecuteRaises, RaisesOnlyIfDeadLettered, DeadEnd, Dead, Applicable
  <2>2. Stalled(t)
    BY <1>3, <2>1 DEF Stalled
  <2>3. ASSUME Stalled(t)' PROVE FALSE
    <3>1. PICK b \in Actors : Deciding(b) /\ actor[b].task = t /\ Deciding(b)'
      BY <2>3, StalledMoves
    <3>2. b = a
      BY <1>1, <1>3, <3>1, OneDecides
    <3> QED
      BY <1>3, <3>1, <3>2
  <2> QED
    BY <2>2, <2>3
<1> QED
  BY <1>4, <1>5

(* A handler at execute goes on, leaves its effect or is disturbed.        *)
LEMMA AtWorkMoves ==
  ASSUME Safe, Safe', Recorded, Traced, [Next]_vars, NEW t \in Tasks, AtWork(t), ~AtWork(t)'
  PROVE  \/ Spent' = Spent + 1
         \/ Cardinality(EffectsIn(events'[t], Actions))
              = Cardinality(EffectsIn(events[t], Actions)) + 1
         \/ Stalled(t) /\ ~Stalled(t)'
<1>1. TypeOK
  BY DEF Safe
<1>2. PICK a \in Actors : At(a, "execute") /\ actor[a].task = t
  BY DEF AtWork
<1>3. actor'[a] # actor[a]
  BY <1>2 DEF AtWork, At
<1>4. Deciding(a) /\ ~TakeDecision(a)
  BY <1>2 DEF Deciding, TakeDecision, At
<1>5. CASE Disturbed(a)
  BY <1>5 DEF Disturbed
<1>6. CASE ExecuteDecision(a)
  BY <1>2, <1>6, ExecutionEnds
<1> QED
  BY <1>1, <1>3, <1>4, <1>5, <1>6, DecidingMoves

LEMMA Balances ==
  ASSUME NEW d \in Nat, NEW D \in Nat, NEW e \in Nat, NEW E \in Nat, NEW s \in Nat, NEW S \in Nat,
         NEW st \in {0, 1}, NEW St \in {0, 1}, NEW w \in {0, 1}, NEW W \in {0, 1},
         NEW x \in {0, 1}, NEW X \in {0, 1},
         d + st <= e + w + s + x, E >= e, S >= s, X >= x, St = 1 => st = 1 \/ (x = 0 /\ X = 1),
         \/ D = d + 1 /\ w = 0 /\ W = 1
         \/ D = d /\ (W >= w \/ S = s + 1 \/ E = e + 1 \/ (st = 1 /\ St = 0))
  PROVE  D + St <= E + W + S + X
OBVIOUS

LEMMA BalancedStep ==
  ASSUME Safe, Safe', Recorded, Traced, NumberedLines(decisions), \A t \in Tasks : Balanced(t),
         [RecordedNext]_recordedVars, NEW t \in Tasks
  PROVE  Balanced(t)'
<1> DEFINE d == Cardinality(DecisionsOf(t))
           D == Cardinality(DecisionsOf(t)')
           e == Cardinality(EffectsIn(events[t], Actions))
           E == Cardinality(EffectsIn(events'[t], Actions))
           st == One(Stalled(t))
           St == One(Stalled(t)')
           w == One(AtWork(t))
           W == One(AtWork(t)')
           x == One(Dead(t))
           X == One(Dead(t)')
<1>1. /\ TypeOK /\ TypeOK' /\ Coordinated /\ Trajectories /\ RetriesRouted /\ [Next]_vars
      /\ events[t] \in Seq(EventRow) /\ events'[t] \in Seq(EventRow)
  BY RecordMoves DEF Safe, Recorded, Traced, TypeOK, DatabaseType
<1>2. Writes(t)
  BY <1>1, StepWrites
<1>3. NumberedLines(decisions')
  BY <1>1, RecordMoves, DecisionAdded
<1>4. d \in Nat /\ D \in Nat
  <2>1. d \in Nat
    BY DecisionsCounted
  <2>2. DecisionsOf(t)' \subseteq decisions' /\ IsFiniteSet(decisions')
    BY <1>3 DEF DecisionsOf, NumberedLines
  <2> QED
    BY <2>1, <2>2, FS_Subset, FS_CardinalityType
<1>5. /\ e \in Nat /\ E \in Nat /\ E >= e
  <2>1. e \in Nat /\ E \in Nat
    BY <1>1, EffectsCounted
  <2>2. E = e \/ E = e + 1
    BY <1>1, <1>2, EffectsAdded
  <2> HIDE DEF e, E
  <2> QED
    BY <2>1, <2>2
<1>6. Spent \in Nat /\ Spent' \in Nat /\ Spent' >= Spent
  BY <1>1, RaisesExplained, FaultsCounted
<1>7. /\ st \in {0, 1} /\ St \in {0, 1} /\ w \in {0, 1} /\ W \in {0, 1}
      /\ x \in {0, 1} /\ X \in {0, 1}
  BY DEF One
<1>8. Dead(t) => Dead(t)'
  BY <1>2, StatusMoves DEF Dead, Terminal, TerminalStatuses
<1>9. Stalled(t)' => Dead(t)' /\ (Dead(t) => Stalled(t))
  <2>1. Stalled(t)' => Dead(t)'
    BY DEF Stalled
  <2>2. Stalled(t)' => \E a \in Actors : Deciding(a) /\ actor[a].task = t
    BY <1>1, StalledMoves
  <2>3. (\E a \in Actors : Deciding(a) /\ actor[a].task = t) /\ Dead(t) => Stalled(t)
    BY DEF Stalled
  <2> QED
    BY <2>1, <2>2, <2>3
<1>10. X >= x /\ (St = 1 => st = 1 \/ (x = 0 /\ X = 1))
  BY <1>8, <1>9 DEF One
<1>11. AtWork(t) => \/ AtWork(t)' \/ Spent' = Spent + 1 \/ E = e + 1
                    \/ Stalled(t) /\ ~Stalled(t)'
  BY <1>1, AtWorkMoves
<1>12. W >= w \/ Spent' = Spent + 1 \/ E = e + 1 \/ (st = 1 /\ St = 0)
  BY <1>11 DEF One
<1>13. \/ D = d + 1 /\ w = 0 /\ W = 1
       \/ D = d
  <2>1. ASSUME NEW a \in Actors, TakeDecision(a), actor[a].task = t,
               RecordDecision(actor[a].task, actor'[a].decision)
        PROVE  D = d + 1 /\ w = 0 /\ W = 1
    <3>1. D = d + 1
      BY <2>1, DecisionAdded
    <3>2. At(a, "build") /\ At(a, "execute")' /\ actor'[a].task = t
      BY <1>1, <2>1, Taken
    <3>3. AtWork(t)'
      BY <3>2 DEF AtWork
    <3>4. ~AtWork(t)
      BY <1>1, <2>1, <3>2, OneDecides DEF AtWork, Deciding, At
    <3> QED
      BY <3>1, <3>3, <3>4 DEF One
  <2>2. ASSUME NEW u, u # t, NEW executed, RecordDecision(u, executed) PROVE D = d
    BY <2>2, DecisionAdded
  <2>3. ASSUME decisions' = decisions PROVE D = d
    BY <2>3 DEF DecisionsOf
  <2> QED
    BY <1>1, <2>1, <2>2, <2>3, RecordMoves
<1>14. d + st <= e + w + Spent + x
  BY DEF Balanced
<1> HIDE DEF d, D, e, E, st, St, w, W, x, X
<1>15. D + St <= E + W + Spent' + X
  <2>1. \/ D = d + 1 /\ w = 0 /\ W = 1
        \/ D = d /\ (W >= w \/ Spent' = Spent + 1 \/ E = e + 1 \/ (st = 1 /\ St = 0))
    BY <1>12, <1>13
  <2>2. \A s, S \in Nat :
          d + st <= e + w + s + x /\ S >= s
            /\ (\/ D = d + 1 /\ w = 0 /\ W = 1
                \/ D = d /\ (W >= w \/ S = s + 1 \/ E = e + 1 \/ (st = 1 /\ St = 0)))
          => D + St <= E + W + S + X
    BY <1>4, <1>5, <1>7, <1>10, Balances
  <2> QED
    BY <1>6, <1>14, <2>1, <2>2
<1> QED
  BY <1>15 DEF Balanced, D, E, St, W, X, One

(* What the decisions and the effects of each task always keep.            *)
Matched == NumberedLines(decisions) /\ EffectsDecided /\ \A t \in Tasks : Balanced(t)

LEMMA MatchedStep ==
  ASSUME Safe, Safe', Recorded, Traced, Matched, [RecordedNext]_recordedVars
  PROVE  Matched'
<1>1. TypeOK /\ NumberedLines(decisions)
  BY DEF Safe, Matched
<1>2. NumberedLines(decisions)'
  <2>1. NumberedLines(decisions')
    BY <1>1, RecordMoves, DecisionAdded
  <2> QED
    BY <2>1 DEF NumberedLines
<1>3. EffectsDecided'
  BY EffectsDecidedStep DEF Matched
<1>4. \A t \in Tasks : Balanced(t)'
  BY BalancedStep DEF Matched
<1> QED
  BY <1>2, <1>3, <1>4 DEF Matched

LEMMA InitMatched == ASSUME RecordedInit PROVE Matched
<1>1. /\ decisions = {} /\ \A t \in Tasks : events[t] = <<>>
      /\ \A a \in Actors : actor[a].pc = "idle"
      /\ crashes = 0 /\ losses = 0 /\ failures = 0
  BY DEF RecordedInit, Init, Free
<1>2. Cardinality({}) = 0 /\ IsFiniteSet({})
  BY FS_EmptySet
<1>3. \A t \in Tasks : \A kinds : EffectsIn(events[t], kinds) = {}
  BY <1>1 DEF EffectsIn
<1>4. \A t : DecisionsOf(t) = {} /\ \A action : DecisionsFor(t, action) = {}
  BY <1>1 DEF DecisionsOf, DecisionsFor
<1>5. \A t : ~AtWork(t) /\ ~Stalled(t) /\ \A action : ~Committed(t, action)
  BY <1>1 DEF AtWork, Stalled, Committed, Executing, Deciding, At
<1>6. EffectsDecided
  BY <1>2, <1>3, <1>4, <1>5 DEF EffectsDecided, EffectDecided
<1>7. Spent = 0
  BY <1>1 DEF Spent
<1>8. \A t \in Tasks : Balanced(t)
  BY <1>2, <1>3, <1>4, <1>5, <1>7 DEF Balanced, One
<1> QED
  BY <1>1, <1>2, <1>6, <1>8 DEF Matched, NumberedLines

LEMMA AlwaysMatched == RecordedSpec => []Matched
<1>1. Safe /\ Safe' /\ Recorded /\ Traced /\ Matched /\ [RecordedNext]_recordedVars => Matched'
  BY MatchedStep
<1> QED
  BY <1>1, InitMatched, RecordedIsSpec, AlwaysSafe, AlwaysRecorded, AlwaysTraced, PTL DEF RecordedSpec

(* The rows that are effects, as the property counts them.                 *)
LEMMA EffectsAreRows ==
  ASSUME NEW t \in Tasks
  PROVE  /\ \A action \in Actions : EffectRows(t, action) = EffectsIn(events[t], {action})
         /\ Effects(t) = EffectsIn(events[t], Actions)
<1>1. \A action \in Actions : EffectRows(t, action) = EffectsIn(events[t], {action})
  <2> SUFFICES ASSUME NEW action \in Actions
               PROVE  EffectRows(t, action) = EffectsIn(events[t], {action})
    OBVIOUS
  <2>1. CASE action = "CONTINUE"
    BY <2>1 DEF EffectRows, EffectsIn, EffectOf, Rows
  <2>2. CASE action = "RETRY"
    BY <2>2 DEF EffectRows, EffectsIn, EffectOf, Rows
  <2>3. CASE action = "WAIT"
    BY <2>3 DEF EffectRows, EffectsIn, EffectOf, Rows
  <2>4. CASE action = "FALLBACK"
    BY <2>4 DEF EffectRows, EffectsIn, EffectOf, Rows
  <2>5. CASE action = "ABORT"
    BY <2>5 DEF EffectRows, EffectsIn, EffectOf, Rows
  <2> QED
    BY <2>1, <2>2, <2>3, <2>4, <2>5 DEF Actions
<1>2. Effects(t) = UNION {EffectsIn(events[t], {action}) : action \in Actions}
  BY <1>1 DEF Effects
<1>3. UNION {EffectsIn(events[t], {action}) : action \in Actions} = EffectsIn(events[t], Actions)
  BY DEF EffectsIn
<1> QED
  BY <1>1, <1>2, <1>3

LEMMA MatchedEffects ==
  ASSUME Safe, Traced, Matched
  PROVE  EveryEffectHasItsDecision
<1> SUFFICES ASSUME NEW t \in Tasks
             PROVE  /\ \A action \in Actions :
                         Cardinality(EffectRows(t, action)) <= Cardinality(DecisionsFor(t, action))
                    /\ Cardinality(DecisionsOf(t))
                         <= Cardinality(Effects(t))
                              + Cardinality({a \in Actors : At(a, "execute") /\ actor[a].task = t})
                              + crashes + losses + 2 * failures
  BY DEF EveryEffectHasItsDecision
<1> DEFINE W == {a \in Actors : At(a, "execute") /\ actor[a].task = t}
           w == Cardinality(W)
           d == Cardinality(DecisionsOf(t))
           e == Cardinality(Effects(t))
<1>1. /\ events[t] \in Seq(EventRow) /\ TypeOK /\ Coordinated
      /\ crashes \in Nat /\ losses \in Nat /\ failures \in Nat
  BY DEF Safe, TypeOK, DatabaseType, BoundsType
<1>2. ASSUME NEW action \in Actions
      PROVE  Cardinality(EffectRows(t, action)) <= Cardinality(DecisionsFor(t, action))
  <2> DEFINE n == Cardinality(EffectsIn(events[t], {action}))
             k == Cardinality(DecisionsFor(t, action))
  <2>1. n \in Nat /\ k \in Nat
    BY <1>1, EffectsCounted, DecisionsCounted DEF Matched
  <2>2. n + (IF Committed(t, action) THEN 1 ELSE 0) <= k
    BY DEF Matched, EffectsDecided, EffectDecided
  <2> HIDE DEF n, k
  <2>3. n <= k
    BY <2>1, <2>2
  <2> QED
    BY <2>3, EffectsAreRows DEF n, k
<1>3. d \in Nat /\ e \in Nat
  BY <1>1, EffectsCounted, DecisionsCounted, EffectsAreRows DEF Matched
<1>4. w \in Nat /\ One(AtWork(t)) <= w
  <2>1. \A a, b \in W : a = b
    BY <1>1, OneDecides DEF Deciding
  <2>2. CASE W = {}
    <3>1. w = 0 /\ ~AtWork(t)
      BY <2>2, FS_EmptySet DEF AtWork
    <3> QED
      BY <3>1 DEF One
  <2>3. CASE W # {}
    <3>1. PICK a \in W : W = {a}
      BY <2>1, <2>3
    <3>2. w = 1
      BY <3>1, FS_Singleton
    <3> QED
      BY <3>2 DEF One
  <2> QED
    BY <2>2, <2>3
<1>5. One(Dead(t)) <= failures
  BY <1>1 DEF Traced, FailureFirst, One
<1>6. d + One(Stalled(t)) <= e + One(AtWork(t)) + Spent + One(Dead(t))
  BY EffectsAreRows DEF Matched, Balanced
<1>7. d <= e + w + crashes + losses + 2 * failures
  <2>1. /\ One(Stalled(t)) \in {0, 1} /\ One(AtWork(t)) \in {0, 1} /\ One(Dead(t)) \in {0, 1}
        /\ Spent = crashes + losses + failures
    BY DEF One, Spent
  <2> HIDE DEF d, e, w
  <2> QED
    BY <1>1, <1>3, <1>4, <1>5, <1>6, <2>1
<1> QED
  BY <1>2, <1>7

(* RNF-008, for any number of tasks and of disturbances: no effect without *)
(* the decision recorded before it, although no transaction binds the      *)
(* files to the database; and no more decisions without effect than        *)
(* crashes, exceptions and dead letters account for.                       *)
THEOREM EveryEffectHasItsRecordedDecision == RecordedSpec => []EveryEffectHasItsDecision
<1>1. Safe /\ Traced /\ Matched => EveryEffectHasItsDecision
  BY MatchedEffects
<1> QED
  BY <1>1, RecordedIsSpec, AlwaysSafe, AlwaysTraced, AlwaysMatched, PTL

-----------------------------------------------------------------------------
(* What the metrics read.                                                  *)

LEMMA AtMostOne ==
  ASSUME NEW S, IsFiniteSet(S), Cardinality(S) <= 1
  PROVE  \A x, y \in S : x = y
<1>1. Cardinality(S) \in Nat
  BY FS_CardinalityType
<1>2. Cardinality(S) = 0 \/ Cardinality(S) = 1
  BY <1>1
<1> QED
  BY <1>2, FS_EmptySet, FS_Singleton

(* With one decision a task has one effect.                                *)
LEMMA OneEffect ==
  ASSUME TypeOK, NumberedLines(decisions), EffectsDecided, NEW t \in Tasks,
         Cardinality(DecisionsOf(t)) <= 1,
         NEW i \in DOMAIN events[t], EffectOf(events[t][i]) # "none",
         NEW j \in DOMAIN events[t], EffectOf(events[t][j]) # "none"
  PROVE  i = j
<1> DEFINE E(a) == EffectsIn(events[t], {a})
<1>1. events[t] \in Seq(EventRow)
  BY DEF TypeOK, DatabaseType
<1>2. \A a : /\ IsFiniteSet(E(a)) /\ Cardinality(E(a)) \in Nat
             /\ IsFiniteSet(DecisionsFor(t, a)) /\ Cardinality(DecisionsFor(t, a)) \in Nat
             /\ IsFiniteSet(DecisionsOf(t)) /\ Cardinality(DecisionsOf(t)) \in Nat
             /\ DecisionsFor(t, a) \subseteq DecisionsOf(t)
  BY <1>1, EffectsCounted, DecisionsCounted DEF DecisionsFor
<1>3. \A a : Cardinality(DecisionsFor(t, a)) <= 1
  <2> SUFFICES ASSUME NEW a PROVE Cardinality(DecisionsFor(t, a)) <= 1
    OBVIOUS
  <2>1. Cardinality(DecisionsFor(t, a)) <= Cardinality(DecisionsOf(t))
    BY <1>2, FS_Subset
  <2>2. Cardinality(DecisionsFor(t, a)) \in Nat /\ Cardinality(DecisionsOf(t)) \in Nat
    BY <1>2
  <2> QED
    BY <2>1, <2>2
<1>4. \A a \in Actions : Cardinality(E(a)) <= Cardinality(DecisionsFor(t, a))
  <2> SUFFICES ASSUME NEW a \in Actions
               PROVE  Cardinality(E(a)) <= Cardinality(DecisionsFor(t, a))
    OBVIOUS
  <2>1. EffectDecided(t, a)
    BY DEF EffectsDecided
  <2> QED
    BY <1>2, <2>1 DEF EffectDecided
<1> DEFINE a == EffectOf(events[t][i])
           b == EffectOf(events[t][j])
<1>5. a \in Actions /\ b \in Actions /\ i \in E(a) /\ j \in E(b)
  BY EffectWords DEF EffectsIn
<1> HIDE DEF a, b, E
<1>6. \A c \in Actions : E(c) # {} => DecisionsFor(t, c) # {}
  BY <1>2, <1>4, FS_EmptySet
<1>7. PICK d \in DecisionsFor(t, a), f \in DecisionsFor(t, b) : TRUE
  BY <1>5, <1>6
<1>8. d = f
  BY <1>2, <1>7, AtMostOne
<1>9. a = b
  BY <1>7, <1>8 DEF DecisionsFor
<1>10. Cardinality(E(a)) <= 1
  BY <1>2, <1>3, <1>4, <1>5
<1> QED
  BY <1>2, <1>5, <1>9, <1>10, AtMostOne

(* The outcome the analysis reads.                                         *)
LEMMA OutcomeTold ==
  ASSUME TypeOK, EndsTold, NEW t \in Tasks
  PROVE  Outcome(t) = IF Created(t) /\ Terminal(t) THEN task[t].status ELSE None
<1>1. EndTold(events[t], task[t].status) /\ TerminalRows(t) = EndRows(events[t])
  BY DEF EndsTold, TerminalRows, EndRows
<1>2. CASE Terminal(t)
  <2>1. PICK i \in TerminalRows(t) : /\ TerminalEvent[events[t][i].type] = task[t].status
                                     /\ \A j \in TerminalRows(t) : i <= j
    BY <1>1, <1>2 DEF EndTold, Terminal
  <2>2. TerminalRows(t) \subseteq Nat
    BY DEF TerminalRows, TypeOK, DatabaseType
  <2> DEFINE least == CHOOSE k \in TerminalRows(t) : \A j \in TerminalRows(t) : k <= j
  <2>3. least \in TerminalRows(t) /\ \A j \in TerminalRows(t) : least <= j
    BY <2>1
  <2>4. least = i
    BY <2>1, <2>2, <2>3
  <2>5. Created(t)
    BY <1>2 DEF Created, Terminal, TerminalStatuses
  <2> QED
    BY <1>2, <2>1, <2>4, <2>5 DEF Outcome
<1>3. CASE ~Terminal(t)
  BY <1>1, <1>3 DEF EndTold, Terminal, Outcome
<1> QED
  BY <1>2, <1>3

(* The tasks counted as failed are those of the orders that failed.        *)
LEMMA FailuresCounted ==
  ASSUME TypeOK, EndsTold, OrderMirrorsTask
  PROVE  FailedTasks = {t \in Tasks : order[t] \in {"PENDING", "FAILED"}}
<1> SUFFICES ASSUME NEW t \in Tasks
             PROVE  Created(t) /\ Outcome(t) # "COMPLETED" <=> order[t] \in {"PENDING", "FAILED"}
  BY DEF FailedTasks
<1>1. Outcome(t) = IF Created(t) /\ Terminal(t) THEN task[t].status ELSE None
  BY OutcomeTold
<1>2. order[t] = IF Created(t) THEN OrderStatusFor(task[t].status) ELSE "ABSENT"
  BY DEF OrderMirrorsTask
<1>3. CASE ~Created(t)
  BY <1>1, <1>2, <1>3 DEF None
<1>4. CASE Created(t) /\ ~Terminal(t)
  BY <1>1, <1>2, <1>4 DEF OrderStatusFor, Terminal, TerminalStatuses, None
<1>5. CASE Created(t) /\ Terminal(t)
  BY <1>1, <1>2, <1>5 DEF OrderStatusFor, Terminal, TerminalStatuses
<1> QED
  BY <1>3, <1>4, <1>5

(* A task outside the blast radius asked once and never waited.            *)
LEMMA StraightToSuccess ==
  ASSUME TypeOK, Trajectories, Traced, NumberedLines(decisions), EffectsDecided,
         NEW t \in Tasks, Created(t), t \notin Affected
  PROVE  Cardinality(Rows(t, "REQUESTED")) = 1 /\ Rows(t, "WAIT_SCHEDULED") = {}
<1> DEFINE s == events[t]
<1>1. /\ s \in Seq(EventRow) /\ Grounded(s) /\ RequestsOnce(s) /\ RequestsFit(s, task[t])
      /\ Counted(s, task[t]) /\ task[t] \in TaskRow
      /\ RetriesRouted /\ RequestsRouted /\ CompletionAnswered /\ EndsTold
  BY DEF Trajectories, Story, Consistent, Traced, TypeOK, DatabaseType
<1>2. Cardinality(DecisionsOf(t)) <= 1 /\ Outcome(t) = "COMPLETED"
  BY DecisionsCounted DEF Affected
<1>3. \A i, j \in DOMAIN s : EffectOf(s[i]) # "none" /\ EffectOf(s[j]) # "none" => i = j
  BY <1>2, OneEffect
<1>4. \E i \in DOMAIN s : s[i].type = "REQUESTED"
  <2>1. task[t].status = "COMPLETED" /\ EndTold(s, task[t].status)
    BY <1>1, <1>2, OutcomeTold DEF None, EndsTold
  <2>2. PICK i \in DOMAIN s : s[i].type \in DOMAIN TerminalEvent /\ TerminalEvent[s[i].type] = "COMPLETED"
    BY <2>1 DEF EndTold, EndRows, TerminalStatuses
  <2>3. Rows(t, "TASK_COMPLETED") # {}
    BY <2>2, EndWords DEF Rows
  <2>4. PICK j \in DOMAIN s : s[j].type = "SUCCEEDED"
    BY <1>1, <2>3 DEF CompletionAnswered, Rows
  <2> QED
    BY <1>1, <2>4 DEF Grounded, Reported, Of
<1>5. PICK k \in DOMAIN s : EffectOf(s[k]) \in {"CONTINUE", "FALLBACK"}
  BY <1>1, <1>4, RoutedBefore
<1>6. \A i \in DOMAIN s : EffectOf(s[i]) # "none" => EffectOf(s[i]) \in {"CONTINUE", "FALLBACK"}
  BY <1>3, <1>5
<1>7. Rows(t, "WAIT_SCHEDULED") = {} /\ Rows(t, "RETRY_SCHEDULED") = {}
  BY <1>6 DEF Rows, EffectOf
<1>8. task[t].attempt = 1
  <2>1. Of(s, "RETRY_SCHEDULED") = {}
    BY <1>7 DEF Of, Rows
  <2>2. task[t].attempt = 1 + Cardinality({})
    BY <1>1, <2>1 DEF Counted
  <2> QED
    BY <2>2, FS_EmptySet
<1>9. \A i \in Of(s, "REQUESTED") :
        IF s[i].target = Fallback THEN task[t].fallbackUsed
        ELSE s[i].attempt = 1 /\ s[i].target = Primary /\ EffectOf(s[i]) = "CONTINUE"
  <2> SUFFICES ASSUME NEW i \in Of(s, "REQUESTED")
               PROVE  IF s[i].target = Fallback THEN task[t].fallbackUsed
                      ELSE s[i].attempt = 1 /\ s[i].target = Primary /\ EffectOf(s[i]) = "CONTINUE"
    OBVIOUS
  <2>1. i \in DOMAIN s /\ s[i].type = "REQUESTED"
    BY DEF Of
  <2>2. s[i] \in EventRow /\ Routed(s[i])
    BY <1>1, <2>1, ElementOfSeq DEF RequestsRouted
  <2>3. s[i].attempt <= task[t].attempt /\ (s[i].target = Fallback => task[t].fallbackUsed)
    BY <1>1 DEF RequestsFit
  <2>4. s[i].target # Fallback => s[i].target = Primary /\ s[i].attempt >= 1
    BY <2>1, <2>2 DEF Routed, EventRow, Targets, Routes
  <2>5. s[i].attempt \in Nat
    BY <2>2 DEF EventRow
  <2> QED
    BY <1>8, <2>1, <2>3, <2>4, <2>5 DEF EffectOf
<1>10. task[t].fallbackUsed => \E i \in DOMAIN s : EffectOf(s[i]) = "FALLBACK"
  BY <1>1 DEF Counted, Of, EffectOf
<1>11. \A i, j \in Of(s, "REQUESTED") : i = j
  <2> SUFFICES ASSUME NEW i \in Of(s, "REQUESTED"), NEW j \in Of(s, "REQUESTED") PROVE i = j
    OBVIOUS
  <2>1. i \in DOMAIN s /\ j \in DOMAIN s
    BY DEF Of
  <2>2. s[i].target = s[j].target
    BY <1>3, <1>9, <1>10, <2>1
  <2> QED
    BY <1>1, <1>9, <2>2 DEF RequestsOnce
<1>12. PICK i \in DOMAIN s : s[i].type = "REQUESTED"
  BY <1>4
<1>13. Rows(t, "REQUESTED") = {i}
  BY <1>11, <1>12 DEF Rows, Of
<1> QED
  BY <1>7, <1>13, FS_Singleton

(* RNF-008, the metrics: the outcome the analysis reads from a trajectory  *)
(* is the status of its task, the tasks it counts as failed are those of   *)
(* the orders that did not complete, and a task outside the blast radius   *)
(* was asked once and never waited, whatever was repeated, lost or         *)
(* interrupted while the files were written.                               *)
THEOREM MetricsAlwaysTellOutcome == RecordedSpec => []MetricsTellOutcome
<1>1. TypeOK /\ Trajectories /\ OrderMirrorsTask /\ Traced /\ Matched => MetricsTellOutcome
  <2> SUFFICES ASSUME TypeOK, Trajectories, OrderMirrorsTask, Traced, Matched
               PROVE  MetricsTellOutcome
    OBVIOUS
  <2>1. EndsTold
    BY DEF Traced
  <2>2. \A t \in Tasks :
          Outcome(t) = IF Created(t) /\ Terminal(t) THEN task[t].status ELSE None
    BY <2>1, OutcomeTold
  <2>3. FailedTasks = {t \in Tasks : order[t] \in {"PENDING", "FAILED"}}
    BY <2>1, FailuresCounted
  <2>4. \A t \in Tasks : Created(t) /\ t \notin Affected =>
          Cardinality(Rows(t, "REQUESTED")) = 1 /\ Rows(t, "WAIT_SCHEDULED") = {}
    BY StraightToSuccess DEF Matched
  <2> QED
    BY <2>2, <2>3, <2>4 DEF MetricsTellOutcome
<1>2. Safe => TypeOK
  BY DEF Safe
<1>3. Recorded => Trajectories
  BY DEF Recorded
<1> QED
  BY <1>1, <1>2, <1>3, RecordedIsSpec, AlwaysSafe, AlwaysRecorded, AlwaysTraced, AlwaysMatched,
     OrderAlwaysMirrorsTask, PTL

-----------------------------------------------------------------------------
(* The row a decision point was opened by.                                 *)

(* It is the last one of the trajectory and new in it, and a timeout is    *)
(* that of a request nothing was heard of since.                           *)
LatestIn(s, i)   == IsRequest(s[i]) /\ \A j \in DOMAIN s : IsRequest(s[j]) => j <= i
QuietSince(s, i) == \A j \in DOMAIN s : j > i => s[j].type \notin Reported

PointedAt(s, row, type, flagged) ==
  LET n == Len(s)
  IN  /\ n \in Firsts(s) /\ s[n].seq = row.seq /\ s[n].type = type
      /\ s[n].redelivered <=> flagged
      /\ type = "FAILED" => \E i \in DOMAIN s : LatestIn(s, i)
      /\ type = "INVENTORY_TIMEOUT" => \E i \in DOMAIN s : LatestIn(s, i) /\ QuietSince(s, i)

Pointed(a) ==
  PointedAt(events[actor[a].task], task[actor[a].task], Cause(a),
            a = Worker /\ actor[a].msg.redelivered)

Points == \A a \in Actors : At(a, "build") /\ ~Terminal(actor[a].task) => Pointed(a)

(* A scheduled fallback was requested.                                     *)
FallbacksAsked ==
  \A t \in Tasks : Rows(t, "FALLBACK_SCHEDULED") # {} => Rows(t, "REQUESTED") # {}

(* What was last asked before a row that is no request.                    *)
LEMMA LatestAppended ==
  ASSUME NEW s \in Seq(EventRow), NEW e \in EventRow, e.type # "REQUESTED", NEW i \in DOMAIN s,
         LatestIn(s, i)
  PROVE  /\ i \in DOMAIN Append(s, e) /\ LatestIn(Append(s, e), i)
         /\ QuietSince(s, i) /\ e.type \notin Reported => QuietSince(Append(s, e), i)
<1> DEFINE z == Append(s, e)
           n == Len(s) + 1
<1>1. /\ DOMAIN z = DOMAIN s \cup {n} /\ z[n] = e
      /\ \A j \in DOMAIN s : z[j] = s[j]
  BY AppendFacts
<1> HIDE DEF z, n
<1>2. ~IsRequest(z[n])
  BY <1>1 DEF IsRequest
<1>3. i \in DOMAIN z /\ LatestIn(z, i)
  BY <1>1, <1>2 DEF LatestIn
<1>4. QuietSince(s, i) /\ e.type \notin Reported => QuietSince(z, i)
  BY <1>1 DEF QuietSince
<1> QED
  BY <1>3, <1>4 DEF z

NewIn(s, e) ==
  e.type \in Reported => \A j \in DOMAIN s : s[j].type = e.type => s[j].ref # e.ref

(* A new row opens a point.                                                *)
LEMMA PointAppended ==
  ASSUME NEW s \in Seq(EventRow), NEW e \in EventRow, NEW row, e.seq = row.seq,
         e.type # "REQUESTED", NewIn(s, e),
         e.type = "FAILED" => \E i \in DOMAIN s : LatestIn(s, i),
         e.type = "INVENTORY_TIMEOUT" => \E i \in DOMAIN s : LatestIn(s, i) /\ QuietSince(s, i)
  PROVE  PointedAt(Append(s, e), row, e.type, e.redelivered)
<1> DEFINE z == Append(s, e)
           n == Len(s) + 1
<1>1. /\ z \in Seq(EventRow) /\ DOMAIN z = DOMAIN s \cup {n} /\ z[n] = e /\ n = Len(z)
      /\ \A i \in DOMAIN s : z[i] = s[i] /\ i < n /\ i \in Nat
      /\ n \in Nat /\ n \notin DOMAIN s
  BY AppendFacts
<1>2. e.type = "FAILED" => \E i \in DOMAIN z : LatestIn(z, i)
  BY LatestAppended
<1>3. e.type = "INVENTORY_TIMEOUT" => \E i \in DOMAIN z : LatestIn(z, i) /\ QuietSince(z, i)
  BY LatestAppended DEF Reported
<1> HIDE DEF z, n
<1>4. n \in Firsts(z)
  <2> SUFFICES ASSUME NEW j \in DOMAIN z, j < n, z[n].type \in Reported,
                      z[j].type = z[n].type, z[j].ref = z[n].ref
               PROVE  FALSE
    BY <1>1 DEF Firsts
  <2>1. j \in DOMAIN s \/ j = n
    BY <1>1
  <2>2. j # n
    <3> SUFFICES ASSUME j = n PROVE FALSE
      OBVIOUS
    <3>1. n < n /\ n \in Nat
      BY <1>1
    <3> QED
      BY <3>1
  <2>3. j \in DOMAIN s /\ z[j] = s[j] /\ z[n] = e
    BY <1>1, <2>1, <2>2
  <2> QED
    BY <2>3 DEF NewIn
<1> QED
  BY <1>1, <1>2, <1>3, <1>4 DEF PointedAt, z

(* A handler of the worker opens a point.                                  *)
LEMMA PointOfMessage ==
  ASSUME Safe, Safe', Recorded, NEW m \in inbox,
         \/ HandleFailed(m) /\ ~Terminal(m.task) /\ IsCurrentRequest(m.task, m.ref)
         \/ HandleTimeout(m) \/ HandleReevaluate(m)
  PROVE  Pointed(Worker)'
<1> DEFINE t == m.task
<1>1. TypeOK /\ TypeOK' /\ Coordinated /\ Trajectories /\ MessagesExplained
  BY DEF Safe, Recorded
<1>2. /\ t \in Tasks /\ actor'[Worker].task = t /\ actor'[Worker].msg = m
      /\ \E e \in EventRow :
           /\ Opens(t, e) /\ e.ref = m.ref
           /\ \/ HandleFailed(m) /\ m.kind = "FAILED" /\ e.type = "FAILED"
                   /\ e.redelivered = m.redelivered
              \/ HandleTimeout(m) /\ m.kind = "timeout_check" /\ e.type = "INVENTORY_TIMEOUT"
                   /\ ~e.redelivered
              \/ HandleReevaluate(m) /\ m.kind = "reevaluate" /\ e.type = "WAIT_FINISHED"
                   /\ ~e.redelivered
  BY <1>1, PointOpened DEF TypeOK, ActorType, Actors
<1>3. PICK e \in EventRow :
           /\ Opens(t, e) /\ e.ref = m.ref
           /\ \/ HandleFailed(m) /\ m.kind = "FAILED" /\ e.type = "FAILED"
                   /\ e.redelivered = m.redelivered
              \/ HandleTimeout(m) /\ m.kind = "timeout_check" /\ e.type = "INVENTORY_TIMEOUT"
                   /\ ~e.redelivered
              \/ HandleReevaluate(m) /\ m.kind = "reevaluate" /\ e.type = "WAIT_FINISHED"
                   /\ ~e.redelivered
  BY <1>2
<1>4. /\ events[t] \in Seq(EventRow) /\ m.redelivered \in BOOLEAN /\ e.redelivered \in BOOLEAN
      /\ Applied(events[t], Answers(t, processed)) /\ m.ref \in Nat
  BY <1>1, <1>2, HandlerStory DEF Consistent, EventRow
<1>5. m.kind \in {"timeout_check", "reevaluate"} => ~m.redelivered
  <2>1. Explained(m, events)
    BY <1>1 DEF MessagesExplained, Queued
  <2> QED
    BY <2>1 DEF Explained, AboutRequest, Reported
<1>6. e.redelivered <=> m.redelivered
  BY <1>3, <1>4, <1>5
<1>7. NewIn(events[t], e)
  <2> SUFFICES ASSUME e.type \in Reported, NEW j \in DOMAIN events[t],
                      events[t][j].type = e.type, events[t][j].ref = e.ref
               PROVE  FALSE
    BY DEF NewIn
  <2>1. HandleFailed(m)
    BY <1>3 DEF Reported
  <2>2. <<t, m.ref>> \in processed
    BY <1>3, <1>4 DEF Applied, Answers
  <2> QED
    BY <2>1, <2>2 DEF HandleFailed, IsProcessed
<1>8. /\ e.type = "FAILED" => \E i \in DOMAIN events[t] : LatestIn(events[t], i)
      /\ e.type = "INVENTORY_TIMEOUT" =>
           \E i \in DOMAIN events[t] : LatestIn(events[t], i) /\ QuietSince(events[t], i)
  <2>1. CASE HandleFailed(m) /\ e.type = "FAILED"
    <3>1. IsCurrentRequest(t, m.ref)
      BY <2>1 DEF HandleTimeout, HandleReevaluate, HandleFailed
    <3> QED
      BY <2>1, <3>1 DEF IsCurrentRequest, IsLatestRequest, LatestIn
  <2>2. CASE HandleTimeout(m) /\ e.type = "INVENTORY_TIMEOUT"
    <3>1. PICK i \in DOMAIN events[t] :
             IsLatestRequest(t, i) /\ \A j \in DOMAIN events[t] : j > i => events[t][j].type \notin Reported
      BY <2>2 DEF HandleTimeout, TimeoutApplies, IsAwaitingReply
    <3> QED
      BY <2>2, <3>1 DEF IsLatestRequest, LatestIn, QuietSince
  <2> QED
    BY <1>3, <2>1, <2>2
<1>9. PointedAt(Append(events[t], e), task'[t], e.type, e.redelivered)
  <2>1. e.type # "REQUESTED" /\ e.seq = task'[t].seq
    BY <1>3 DEF Opens
  <2> QED
    BY <1>4, <1>7, <1>8, <2>1, PointAppended
<1>10. e.type = Cause(Worker)'
  BY <1>2, <1>3, ActorsAssumption DEF Cause
<1>11. PointedAt(events'[t], task'[t], Cause(Worker)', m.redelivered)
  BY <1>3, <1>6, <1>9, <1>10 DEF Opens, PointedAt
<1> QED
  BY <1>2, <1>11 DEF Pointed, PointedAt

LEMMA FallbacksAskedStep ==
  ASSUME TypeOK, Coordinated, Trajectories, RetriesRouted, FallbacksAsked, [Next]_vars
  PROVE  FallbacksAsked'
<1> SUFFICES ASSUME NEW t \in Tasks, NEW k \in DOMAIN events'[t],
                    events'[t][k].type = "FALLBACK_SCHEDULED"
             PROVE  \E i \in DOMAIN events'[t] : events'[t][i].type = "REQUESTED"
  BY DEF FallbacksAsked, Rows
<1>1. Writes(t) /\ events[t] \in Seq(EventRow)
  BY StepWrites DEF TypeOK, DatabaseType
<1>2. CASE k \in DOMAIN events[t]
  <2>1. events'[t][k] = events[t][k]
    BY <1>2, RowsStay
  <2>2. PICK i \in DOMAIN events[t] : events[t][i].type = "REQUESTED"
    BY <1>2, <2>1 DEF FallbacksAsked, Rows
  <2> QED
    BY <2>2, RowsStay
<1>3. CASE k \notin DOMAIN events[t]
  <2>1. ASSUME NEW e \in EventRow, WritesOne(t, e) PROVE FALSE
    <3>1. events'[t][k] = e
      BY <1>1, <1>3, <2>1, AppendFacts DEF WritesOne
    <3> QED
      BY <2>1, <3>1 DEF WritesOne
  <2>2. ASSUME NEW e \in EventRow, NEW f \in EventRow, WritesTwo(t, e, f)
        PROVE  \E i \in DOMAIN events'[t] : events'[t][i].type = "REQUESTED"
    <3> DEFINE r == Append(events[t], e)
    <3>1. /\ r \in Seq(EventRow) /\ DOMAIN r = DOMAIN events[t] \cup {Len(events[t]) + 1}
          /\ r[Len(events[t]) + 1] = e
      BY <1>1, AppendFacts
    <3>2. events'[t] = Append(r, f)
      BY <2>2 DEF WritesTwo
    <3> HIDE DEF r
    <3>3. /\ DOMAIN events'[t] = DOMAIN r \cup {Len(r) + 1} /\ events'[t][Len(r) + 1] = f
          /\ \A i \in DOMAIN r : events'[t][i] = r[i]
      BY <3>1, <3>2, AppendFacts
    <3>4. e.type = "FALLBACK_SCHEDULED" \/ f.type = "FALLBACK_SCHEDULED"
      BY <1>3, <3>1, <3>3
    <3>5. f.type = "REQUESTED"
      BY <2>2, <3>4 DEF WritesTwo, EffectOf
    <3> QED
      BY <3>3, <3>5
  <2> QED
    BY <1>1, <1>3, <2>1, <2>2 DEF Writes
<1> QED
  BY <1>2, <1>3

LEMMA PointsStep ==
  ASSUME Safe, Safe', Recorded, Points, [Next]_vars
  PROVE  Points'
<1> SUFFICES ASSUME NEW a \in Actors, At(a, "build")', task'[actor'[a].task].status \notin TerminalStatuses
             PROVE  Pointed(a)'
  BY DEF Points, Terminal
<1>1. TypeOK /\ TypeOK' /\ Coordinated /\ Trajectories
  BY DEF Safe, Recorded
<1>2. CASE actor'[a] = actor[a]
  <2> DEFINE t == actor[a].task
  <2>1. At(a, "build") /\ task'[t].status \notin TerminalStatuses
    BY <1>2 DEF At, Terminal
  <2>2. task'[t] = task[t] /\ events'[t] = events[t]
    BY <1>1, <1>2, <2>1, RowOfDecision DEF Deciding, TerminalStatuses, Terminal
  <2>3. Pointed(a)
    BY <2>1, <2>2 DEF Points, Terminal
  <2> QED
    BY <1>2, <2>2, <2>3 DEF Pointed, PointedAt, Cause
<1>3. CASE a \in Tasks /\ CreateOrder(a)
  <2> DEFINE row == [AbsentRow EXCEPT !.status = "PENDING", !.seq = 1]
             x == OwnEvent("TASK_CREATED", 0, row)
  <2>1. actor'[a].task = a
    BY <1>1, <1>3 DEF CreateOrder, TypeOK, ActorType, Free
  <2>2. events[a] = <<>>
    BY <1>1, <1>3 DEF CreateOrder, Created, Trajectories, Story
  <2>3. Write(a, row, <<x>>)
    BY <1>3 DEF CreateOrder
  <2>4. x.type = "TASK_CREATED" /\ x.seq = row.seq /\ ~x.redelivered
    BY DEF OwnEvent
  <2> HIDE DEF row, x
  <2>5. x \in EventRow /\ events'[a] = Append(events[a], x) /\ task'[a] = row
        /\ events[a] \in Seq(EventRow)
    BY <1>1, <1>3, <2>3, WrittenRow DEF TypeOK
  <2>6. NewIn(events[a], x)
    BY <2>2 DEF NewIn
  <2>7. PointedAt(events'[a], task'[a], "TASK_CREATED", x.redelivered)
    BY <2>4, <2>5, <2>6, PointAppended
  <2>8. Cause(a)' = "TASK_CREATED" /\ a # Worker
    BY <1>3, ActorsAssumption DEF Cause
  <2>9. PointedAt(events'[a], task'[a], "TASK_CREATED", FALSE)
    BY <2>4, <2>7 DEF PointedAt
  <2> QED
    BY <2>1, <2>8, <2>9 DEF Pointed
<1> QED
  BY <1>1, <1>2, <1>3, WhoBuilds, PointOfMessage

LEMMA AlwaysPointed == Spec => [](Points /\ FallbacksAsked)
<1>1. Init => Points /\ FallbacksAsked
  <2> SUFFICES ASSUME Init PROVE Points /\ FallbacksAsked
    OBVIOUS
  <2>1. Points
    BY DEF Init, Points, At, Free
  <2>2. FallbacksAsked
    BY DEF Init, FallbacksAsked, Rows
  <2> QED
    BY <2>1, <2>2
<1>2. Safe /\ Safe' /\ Recorded /\ Traced /\ Points /\ FallbacksAsked /\ [Next]_vars
        => Points' /\ FallbacksAsked'
  BY PointsStep, FallbacksAskedStep DEF Safe, Recorded, Traced
<1> QED
  BY <1>1, <1>2, AlwaysSafe, AlwaysRecorded, AlwaysTraced, PTL DEF Spec

-----------------------------------------------------------------------------
(* Sequences in ascending order.                                           *)

(* N numbers in ascending order among the first N are these.               *)
LEMMA Climbs ==
  ASSUME NEW N \in Nat, NEW g \in [1 .. N -> 1 .. N],
         \A i, j \in 1 .. N : i < j => g[i] < g[j]
  PROVE  \A k \in 1 .. N : g[k] = k
<1>0. \A k \in 1 .. N : g[k] \in Int
  OBVIOUS
<1>1. \A k \in 1 .. N : g[k] >= k
  <2> DEFINE low == {k \in 1 .. N : g[k] < k}
  <2>1. low = {}
    <3> SUFFICES ASSUME low # {} PROVE FALSE
      OBVIOUS
    <3>1. PICK m \in low : \A j \in low : m <= j
      <4>1. low \subseteq Nat
        OBVIOUS
      <4> HIDE DEF low
      <4> QED
        BY <4>1, LeastNumber
    <3>2. m \in 1 .. N /\ g[m] < m /\ g[m] \in Int
      BY <3>1
    <3>3. m - 1 \notin low
      <4> SUFFICES ASSUME m - 1 \in low PROVE FALSE
        OBVIOUS
      <4> HIDE DEF low
      <4>1. m <= m - 1
        BY <3>1
      <4> QED
        BY <3>2, <4>1
    <3>4. m # 1
      BY <3>2
    <3>5. m - 1 \in 1 .. N
      BY <3>2, <3>4
    <3>6. ~(g[m - 1] < m - 1) /\ g[m - 1] < g[m] /\ g[m - 1] \in Int
      BY <3>2, <3>3, <3>5
    <3> QED
      BY <3>2, <3>6
  <2> SUFFICES ASSUME NEW k \in 1 .. N PROVE g[k] >= k
    OBVIOUS
  <2>2. ~(g[k] < k) /\ g[k] \in Int
    BY <2>1
  <2> QED
    BY <2>2
<1>2. \A k \in 1 .. N : g[k] <= k
  <2> DEFINE high == {d \in 0 .. N - 1 : g[N - d] > N - d}
  <2>1. high = {}
    <3> SUFFICES ASSUME high # {} PROVE FALSE
      OBVIOUS
    <3>1. PICK m \in high : \A j \in high : m <= j
      <4>1. high \subseteq Nat
        OBVIOUS
      <4> HIDE DEF high
      <4> QED
        BY <4>1, LeastNumber
    <3>2. m \in 0 .. N - 1 /\ g[N - m] > N - m
      BY <3>1
    <3>3. m - 1 \notin high
      <4> SUFFICES ASSUME m - 1 \in high PROVE FALSE
        OBVIOUS
      <4> HIDE DEF high
      <4>1. m <= m - 1
        BY <3>1
      <4> QED
        BY <3>2, <4>1
    <3>4. m # 0
      BY <3>2
    <3> DEFINE k == N - m
    <3>5. m - 1 \in 0 .. N - 1 /\ k \in 1 .. N /\ k + 1 \in 1 .. N /\ N - (m - 1) = k + 1
      BY <3>2, <3>4
    <3>6. ~(g[N - (m - 1)] > N - (m - 1))
      BY <3>3, <3>5
    <3>7. g[k] > k
      BY <3>2
    <3> HIDE DEF k
    <3>8. g[k] < g[k + 1] /\ g[k] \in Int /\ g[k + 1] \in Int
      <4>1. k < k + 1
        BY <3>5
      <4> QED
        BY <1>0, <3>5, <4>1
    <3>9. ~(g[k + 1] > k + 1)
      BY <3>5, <3>6
    <3> QED
      BY <3>5, <3>7, <3>8, <3>9
  <2> SUFFICES ASSUME NEW k \in 1 .. N PROVE g[k] <= k
    OBVIOUS
  <2>2. N - k \in 0 .. N - 1 /\ N - (N - k) = k
    OBVIOUS
  <2>3. ~(g[N - (N - k)] > N - (N - k))
    BY <2>1, <2>2
  <2>4. g[k] \in Int
    OBVIOUS
  <2> QED
    BY <2>2, <2>3, <2>4
<1> QED
  BY <1>1, <1>2

(* A set of places has one enumeration in ascending order.                 *)
LEMMA Enumerated ==
  ASSUME NEW places, places \subseteq Nat, NEW N \in Nat, NEW at \in [1 .. N -> places],
         \A i, j \in 1 .. N : i < j => at[i] < at[j],
         \A p \in places : \E k \in 1 .. N : at[k] = p
  PROVE  IsFiniteSet(places) /\ Cardinality(places) = N /\ Ascending(places) = at
<1>1. \A i, j \in 1 .. N : at[i] = at[j] => i = j
  <2> SUFFICES ASSUME NEW i \in 1 .. N, NEW j \in 1 .. N, at[i] = at[j], i # j PROVE FALSE
    OBVIOUS
  <2>1. i < j \/ j < i
    OBVIOUS
  <2>2. at[i] < at[j] \/ at[j] < at[i]
    BY <2>1
  <2>3. at[i] \in Nat
    OBVIOUS
  <2> QED
    BY <2>2, <2>3
<1>2. IsFiniteSet(places) /\ Cardinality(places) = N
  <2>1. at \in Bijection(1 .. N, places)
    BY <1>1 DEF Bijection, Injection, Surjection, IsInjective
  <2>2. IsFiniteSet(1 .. N) /\ Cardinality(1 .. N) = N
    BY FS_Interval
  <2>3. ExistsBijection(1 .. N, places)
    BY <2>1 DEF ExistsBijection
  <2> QED
    BY <2>2, <2>3, FS_Bijection
<1> DEFINE h == Ascending(places)
<1>3. h \in [1 .. N -> places] /\ \A i, j \in 1 .. N : i < j => h[i] < h[j]
  BY <1>2 DEF Ascending
<1> HIDE DEF h
<1> DEFINE index == [p \in places |-> CHOOSE k \in 1 .. N : at[k] = p]
           g == [k \in 1 .. N |-> index[h[k]]]
<1>4. \A p \in places : index[p] \in 1 .. N /\ at[index[p]] = p
  OBVIOUS
<1>5. \A p, r \in places : p < r => index[p] < index[r]
  <2> SUFFICES ASSUME NEW p \in places, NEW r \in places, p < r, ~(index[p] < index[r]) PROVE FALSE
    OBVIOUS
  <2>1. index[p] \in 1 .. N /\ index[r] \in 1 .. N /\ at[index[p]] = p /\ at[index[r]] = r
    BY <1>4
  <2> HIDE DEF index
  <2>2. index[r] = index[p] \/ index[r] < index[p]
    BY <2>1
  <2>3. r = p \/ r < p
    BY <2>1, <2>2
  <2>4. p \in Nat /\ r \in Nat
    BY places \subseteq Nat
  <2> QED
    BY <2>3, <2>4
<1> HIDE DEF index
<1>6. \A k \in 1 .. N : index[h[k]] \in 1 .. N
  BY <1>3, <1>4
<1>7. g \in [1 .. N -> 1 .. N] /\ \A k \in 1 .. N : g[k] = index[h[k]]
  BY <1>6
<1>8. \A i, j \in 1 .. N : i < j => g[i] < g[j]
  BY <1>3, <1>5, <1>7
<1>9. \A k \in 1 .. N : g[k] = k
  <2> HIDE DEF g
  <2> QED
    BY <1>7, <1>8, Climbs
<1>10. \A k \in 1 .. N : h[k] = at[k]
  <2> SUFFICES ASSUME NEW k \in 1 .. N PROVE h[k] = at[k]
    OBVIOUS
  <2>1. index[h[k]] = k
    BY <1>7, <1>9
  <2> QED
    BY <1>3, <1>4, <2>1
<1>11. h = at
  BY <1>3, <1>10
<1> QED
  BY <1>2, <1>11 DEF h

-----------------------------------------------------------------------------
(* The window of recent events.                                            *)

(* Rows of distinct message ids are those that repeat no answer.           *)
LEMMA DistinctAreFirsts ==
  ASSUME NEW s \in Seq(EventRow), NEW n \in Nat, Gapless(s, n)
  PROVE  DistinctRows(s) = Firsts(s)
<1>1. \A i \in DOMAIN s : i \in Nat /\ s[i] \in EventRow
  OBVIOUS
<1>2. DistinctRows(s) \subseteq Firsts(s)
  <2> SUFFICES ASSUME NEW i \in DistinctRows(s), NEW j \in DOMAIN s, j < i,
                      s[i].type \in Reported, s[j].type = s[i].type, s[j].ref = s[i].ref
               PROVE  FALSE
    BY DEF Firsts, DistinctRows
  <2>1. MessageId(s[j]) = MessageId(s[i]) /\ MessageId(s[i]) # NoId
    BY DEF MessageId, NoId
  <2>2. i <= j /\ i \in DOMAIN s
    BY <2>1 DEF DistinctRows
  <2> QED
    BY <1>1, <2>2
<1>3. Firsts(s) \subseteq DistinctRows(s)
  <2> SUFFICES ASSUME NEW i \in Firsts(s), MessageId(s[i]) # NoId,
                      NEW j \in DOMAIN s, MessageId(s[j]) = MessageId(s[i]), j < i
               PROVE  FALSE
    BY <1>1 DEF Firsts, DistinctRows
  <2>1. i \in DOMAIN s
    BY DEF Firsts
  <2>2. CASE s[i].type \in Reported
    <3>1. MessageId(s[i]) = <<s[i].type, s[i].ref>>
      BY <2>2 DEF MessageId
    <3>2. s[j].type = s[i].type /\ s[j].ref = s[i].ref
      BY <2>2, <3>1 DEF MessageId, NoId, Reported
    <3> QED
      BY <2>2, <3>2 DEF Firsts
  <2>3. CASE s[i].type \notin Reported
    <3>1. s[i].type = "REQUESTED" /\ MessageId(s[i]) = <<s[i].type, s[i].seq>>
      BY <2>3 DEF MessageId
    <3>2. s[j].type = "REQUESTED" /\ s[j].seq = s[i].seq
      BY <3>1 DEF MessageId, NoId, Reported
    <3>3. j \in Firsts(s)
      BY <3>2 DEF Firsts, Reported
    <3>4. s[j].seq < s[i].seq /\ s[i].seq \in 1 .. n
      BY <3>3 DEF Gapless
    <3> QED
      BY <3>2, <3>4
  <2> QED
    BY <2>2, <2>3
<1> QED
  BY <1>2, <1>3

(* The window shows the rows of the last numbers.                          *)
LEMMA WindowShown ==
  ASSUME NEW s \in Seq(EventRow), NEW q \in Nat, Gapless(s, q)
  PROVE  LET n == IF q < RecentEventsLimit THEN q ELSE RecentEventsLimit
         IN  /\ n \in Nat /\ n <= q
             /\ \E shown \in [1 .. n -> Firsts(s)] :
                  /\ RecentEvents(s) = [k \in 1 .. n |->
                        [seq |-> s[shown[k]].seq, type |-> s[shown[k]].type,
                         attempt |-> s[shown[k]].attempt]]
                  /\ \A k \in 1 .. n : s[shown[k]].seq = q - n + k
<1> DEFINE F == Firsts(s)
           K == RecentEventsLimit
           n == IF q < K THEN q ELSE K
           at == [k \in 1 .. q |-> CHOOSE j \in F : s[j].seq = k]
           latest == {i \in F : Cardinality({j \in F : j >= i}) <= K}
<1>1. DistinctRows(s) = F
  BY DistinctAreFirsts
<1>2. F \subseteq Nat /\ \A i, j \in F : i < j => s[i].seq < s[j].seq
  BY DEF Gapless, Firsts
<1>3. \A i \in F : s[i].seq \in 1 .. q
  BY DEF Gapless
<1>4. K \in Nat /\ n \in Nat /\ n <= q /\ n <= K
  BY WindowAssumption
<1>5. at \in [1 .. q -> F] /\ \A k \in 1 .. q : s[at[k]].seq = k
  <2> SUFFICES ASSUME NEW k \in 1 .. q PROVE \E j \in F : s[j].seq = k
    OBVIOUS
  <2> QED
    BY DEF Gapless
<1> HIDE DEF at, n, K, F
<1>6. \A i, j \in F : s[i].seq = s[j].seq => i = j
  <2> SUFFICES ASSUME NEW i \in F, NEW j \in F, s[i].seq = s[j].seq, i # j PROVE FALSE
    OBVIOUS
  <2>1. i \in Nat /\ j \in Nat /\ s[i].seq \in Nat
    BY <1>2, <1>3
  <2>2. i < j \/ j < i
    BY <2>1
  <2> QED
    BY <1>2, <2>1, <2>2
<1>7. \A i \in F : at[s[i].seq] = i
  BY <1>3, <1>5, <1>6
<1>8. \A k, l \in 1 .. q : k < l => at[k] < at[l]
  <2> SUFFICES ASSUME NEW k \in 1 .. q, NEW l \in 1 .. q, k < l, ~(at[k] < at[l]) PROVE FALSE
    OBVIOUS
  <2>1. at[k] \in F /\ at[l] \in F /\ s[at[k]].seq = k /\ s[at[l]].seq = l
    BY <1>5
  <2>2. at[k] \in Nat /\ at[l] \in Nat
    BY <1>2, <2>1
  <2>3. at[k] = at[l] \/ at[l] < at[k]
    BY <2>2
  <2>4. at[k] = at[l] => k = l
    BY <2>1
  <2>5. at[l] < at[k] => l < k
    BY <1>2, <2>1
  <2> HIDE DEF at
  <2> QED
    BY <2>3, <2>4, <2>5
<1>9. \A i, j \in F : j >= i <=> s[j].seq >= s[i].seq
  <2> SUFFICES ASSUME NEW i \in F, NEW j \in F PROVE j >= i <=> s[j].seq >= s[i].seq
    OBVIOUS
  <2>1. i \in Nat /\ j \in Nat /\ s[i].seq \in Nat /\ s[j].seq \in Nat
    BY <1>2, <1>3
  <2>2. i < j => s[i].seq < s[j].seq
    BY <1>2
  <2>3. j < i => s[j].seq < s[i].seq
    BY <1>2
  <2> QED
    BY <2>1, <2>2, <2>3
<1>10. ASSUME NEW b \in 0 .. q
       PROVE  LET places == {j \in F : s[j].seq > b}
              IN  /\ Cardinality(places) = q - b
                  /\ Ascending(places) = [k \in 1 .. q - b |-> at[b + k]]
  <2> DEFINE places == {j \in F : s[j].seq > b}
             N == q - b
             shown == [k \in 1 .. N |-> at[b + k]]
  <2>1. N \in Nat /\ \A k \in 1 .. N : b + k \in 1 .. q /\ b + k > b
    OBVIOUS
  <2>2. places \subseteq Nat
    BY <1>2
  <2>3. shown \in [1 .. N -> places] /\ \A k \in 1 .. N : shown[k] = at[b + k]
    BY <1>5, <2>1
  <2>4. \A k, l \in 1 .. N : k < l => shown[k] < shown[l]
    <3> SUFFICES ASSUME NEW k \in 1 .. N, NEW l \in 1 .. N, k < l PROVE shown[k] < shown[l]
      OBVIOUS
    <3>1. b + k \in 1 .. q /\ b + l \in 1 .. q /\ b + k < b + l
      OBVIOUS
    <3>2. at[b + k] < at[b + l]
      BY <1>8, <3>1
    <3> QED
      BY <2>3, <3>2
  <2>5. \A p \in places : \E k \in 1 .. N : shown[k] = p
    <3> SUFFICES ASSUME NEW p \in places PROVE \E k \in 1 .. N : shown[k] = p
      OBVIOUS
    <3>1. p \in F /\ s[p].seq \in 1 .. q /\ s[p].seq > b
      BY <1>3
    <3>2. s[p].seq - b \in 1 .. N /\ b + (s[p].seq - b) = s[p].seq
      BY <3>1
    <3>3. at[s[p].seq] = p
      BY <1>7, <3>1
    <3> QED
      BY <2>3, <3>2, <3>3
  <2> HIDE DEF shown, N, places
  <2>6. Cardinality(places) = N /\ Ascending(places) = shown
    <3>1. N \in Nat
      BY <2>1
    <3>2. shown \in [1 .. N -> places]
      BY <2>3
    <3> QED
      BY <3>1, <2>2, <3>2, <2>4, <2>5, Enumerated, ZenonT(60)
  <2> QED
    BY <2>6 DEF shown, N, places
<1>11. \A i \in F : Cardinality({j \in F : j >= i}) = q - s[i].seq + 1
  <2> SUFFICES ASSUME NEW i \in F PROVE Cardinality({j \in F : j >= i}) = q - s[i].seq + 1
    OBVIOUS
  <2> DEFINE b == s[i].seq - 1
  <2>1. b \in 0 .. q /\ q - b = q - s[i].seq + 1
    BY <1>3
  <2>2. \A j \in F : j >= i <=> s[j].seq > b
    BY <1>3, <1>9
  <2>3. {j \in F : j >= i} = {j \in F : s[j].seq > b}
    BY <2>2
  <2> HIDE DEF b
  <2>4. Cardinality({j \in F : s[j].seq > b}) = q - b
    BY <1>10, <2>1
  <2> QED
    BY <2>1, <2>3, <2>4
<1>12. latest = {j \in F : s[j].seq > q - n}
  <2>1. \A i \in F : s[i].seq \in 1 .. q /\ Cardinality({j \in F : j >= i}) = q - s[i].seq + 1
    BY <1>3, <1>11
  <2>2. \A x \in 1 .. q : q - x + 1 <= K <=> x > q - n
    BY <1>4 DEF n
  <2> QED
    BY <2>1, <2>2
<1>13. q - n \in 0 .. q /\ q - (q - n) = n /\ \A k \in 1 .. n : q - n + k \in 1 .. q
  BY <1>4
<1>14. Ascending(latest) = [k \in 1 .. n |-> at[q - n + k]]
  BY <1>10, <1>12, <1>13
<1> DEFINE w == RecentEvents(s)
<1>15. w = [k \in 1 .. n |-> [seq |-> s[at[q - n + k]].seq, type |-> s[at[q - n + k]].type,
                             attempt |-> s[at[q - n + k]].attempt]]
  <2>1. w = LET inOrder == Ascending(latest)
            IN  [k \in DOMAIN inOrder |->
                   [seq |-> s[inOrder[k]].seq, type |-> s[inOrder[k]].type,
                    attempt |-> s[inOrder[k]].attempt]]
    BY <1>1 DEF RecentEvents, K
  <2> HIDE DEF w, latest
  <2> QED
    BY <1>14, <2>1
<1> DEFINE shown == [k \in 1 .. n |-> at[q - n + k]]
<1>16. shown \in [1 .. n -> F] /\ \A k \in 1 .. n : shown[k] = at[q - n + k]
  BY <1>5, <1>13
<1>17. \A k \in 1 .. n : s[shown[k]].seq = q - n + k
  BY <1>5, <1>13, <1>16
<1> HIDE DEF shown, latest
<1>18. w = [k \in 1 .. n |-> [seq |-> s[shown[k]].seq, type |-> s[shown[k]].type,
                             attempt |-> s[shown[k]].attempt]]
  <2> HIDE DEF w
  <2> QED
    BY <1>15, <1>16
<1> QED
  BY <1>4, <1>16, <1>17, <1>18 DEF n, K, F

(* It ends in the last row, when that one is new.                          *)
LEMMA WindowEnds ==
  ASSUME NEW s \in Seq(EventRow), NEW q \in Nat, Gapless(s, q),
         Len(s) \in Firsts(s), s[Len(s)].seq = q
  PROVE  LET n == IF q < RecentEventsLimit THEN q ELSE RecentEventsLimit
         IN  /\ n \in 1 .. q /\ Len(RecentEvents(s)) = n
             /\ \A k \in 1 .. n : RecentEvents(s)[k].seq = q - n + k
             /\ RecentEvents(s)[n].type = s[Len(s)].type
<1> DEFINE n == IF q < RecentEventsLimit THEN q ELSE RecentEventsLimit
           w == RecentEvents(s)
<1>1. n \in 1 .. q
  <2>1. q \in 1 .. q
    BY DEF Gapless
  <2> QED
    BY <2>1, WindowAssumption
<1>2. PICK shown \in [1 .. n -> Firsts(s)] :
        /\ w = [k \in 1 .. n |->
                 [seq |-> s[shown[k]].seq, type |-> s[shown[k]].type,
                  attempt |-> s[shown[k]].attempt]]
        /\ \A k \in 1 .. n : s[shown[k]].seq = q - n + k
  BY WindowShown
<1> HIDE DEF n, w
<1>3. Len(w) = n
  BY <1>1, <1>2
<1>4. \A k \in 1 .. n : w[k].seq = q - n + k
  BY <1>2
<1>5. w[n].type = s[Len(s)].type
  <2>1. n \in 1 .. n /\ q - n + n = q
    BY <1>1
  <2>2. shown[n] \in Firsts(s) /\ s[shown[n]].seq = s[Len(s)].seq
    BY <1>2, <2>1
  <2>3. shown[n] \in Nat /\ Len(s) \in Nat /\ s[Len(s)].seq \in Nat
    BY <2>2 DEF Firsts
  <2>4. \A i, j \in Firsts(s) : i < j => s[i].seq < s[j].seq
    BY DEF Gapless
  <2>5. ~(shown[n] < Len(s)) /\ ~(Len(s) < shown[n])
    BY <2>2, <2>3, <2>4
  <2>6. shown[n] = Len(s)
    BY <2>3, <2>5
  <2> QED
    BY <1>2, <2>1, <2>6
<1> QED
  BY <1>1, <1>3, <1>4, <1>5 DEF n, w

-----------------------------------------------------------------------------
(* The snapshot.                                                           *)

(* The latency of a task is that of its last request.                      *)
LEMMA LatencyTold ==
  ASSUME TypeOK, Trajectories, FallbacksAsked, NEW t \in Tasks
  PROVE  /\ Latency(t) = None <=> task[t].target = None
         /\ \A i \in DOMAIN events[t] :
              LatestIn(events[t], i) /\ QuietSince(events[t], i) => Latency(t) = "to now"
         /\ \A i, j \in DOMAIN events[t] :
              /\ LatestIn(events[t], i) /\ i < j
              /\ events[t][j].type \in Reported /\ ~events[t][j].redelivered
              => Latency(t) = "to the reply"
<1> DEFINE s == events[t]
<1>1. /\ s \in Seq(EventRow) /\ RequestsFit(s, task[t]) /\ Counted(s, task[t])
  BY StoryOf DEF Story, Consistent
<1>2. \A i \in DOMAIN s : i \in Nat /\ (IsRequest(s[i]) <=> s[i].type = "REQUESTED")
  BY <1>1 DEF RequestsFit, Of, IsRequest
<1>3. (\A i \in DOMAIN s : ~IsRequest(s[i])) <=> task[t].target = None
  <2>1. Of(s, "FALLBACK_SCHEDULED") # {} => Of(s, "REQUESTED") # {}
    BY DEF FallbacksAsked, Rows, Of
  <2>2. task[t].target = None <=> Of(s, "REQUESTED") = {}
    BY <1>1, <2>1 DEF Counted, None, Primary, Fallback
  <2> QED
    BY <1>2, <2>2 DEF Of
<1>4. Latency(t) = None <=> task[t].target = None
  BY <1>3 DEF Latency, None
<1>5. \A i \in DOMAIN s : IsLatestRequest(t, i) <=> LatestIn(s, i)
  BY DEF IsLatestRequest, LatestIn
<1>6. \A i, j \in DOMAIN s : LatestIn(s, i) /\ LatestIn(s, j) => i = j
  BY <1>2 DEF LatestIn
<1>7. ASSUME NEW i \in DOMAIN s, LatestIn(s, i), QuietSince(s, i) PROVE Latency(t) = "to now"
  <2>1. IsRequest(s[i])
    BY <1>7 DEF LatestIn
  <2>2. ~\E k, j \in DOMAIN s :
            /\ IsLatestRequest(t, k) /\ k < j
            /\ s[j].type \in Reported /\ ~s[j].redelivered
    BY <1>2, <1>5, <1>6, <1>7 DEF QuietSince
  <2> QED
    BY <2>1, <2>2 DEF Latency
<1>8. ASSUME NEW i \in DOMAIN s, NEW j \in DOMAIN s, LatestIn(s, i), i < j,
             s[j].type \in Reported, ~s[j].redelivered
      PROVE  Latency(t) = "to the reply"
  <2>1. IsRequest(s[i]) /\ IsLatestRequest(t, i)
    BY <1>5, <1>8 DEF LatestIn
  <2> QED
    BY <1>8, <2>1 DEF Latency
<1> QED
  BY <1>4, <1>7, <1>8

(* A snapshot shows the point it is taken at.                              *)
LEMMA PointSeen ==
  ASSUME Safe, Recorded, Points, FallbacksAsked
  PROVE  PointSeesItsCause
<1> SUFFICES ASSUME NEW a \in Actors, At(a, "build"), ~Terminal(actor[a].task)
             PROVE  LET t == actor[a].task
                        s == SystemState(t)
                        n == Len(s.window)
                    IN  /\ n = IF s.seq < RecentEventsLimit THEN s.seq ELSE RecentEventsLimit
                        /\ \A k \in 1 .. n : s.window[k].seq = s.seq - n + k
                        /\ s.window[n].type = Cause(a)
                        /\ s.redelivered <=> (a = Worker /\ actor[a].msg.redelivered)
                        /\ s.latency = None <=> task[t].target = None
                        /\ Cause(a) = "INVENTORY_TIMEOUT" => s.latency = "to now"
                        /\ Cause(a) = "FAILED" /\ ~s.redelivered => s.latency = "to the reply"
  BY DEF PointSeesItsCause
<1> DEFINE t == actor[a].task
           rows == events[t]
           q == task[t].seq
           last == Len(rows)
<1>1. TypeOK /\ Coordinated /\ Trajectories
  BY DEF Safe, Recorded
<1>2. t \in Tasks
  BY <1>1, CreatedTask DEF At, InRequest
<1>3. rows \in Seq(EventRow) /\ q \in Nat /\ Gapless(rows, q)
  BY <1>1, <1>2, StoryOf DEF Story, Consistent, TaskRow
<1>4. PointedAt(rows, task[t], Cause(a), a = Worker /\ actor[a].msg.redelivered)
  BY DEF Points, Pointed
<1>5. last \in Firsts(rows) /\ rows[last].seq = q /\ rows[last].type = Cause(a)
      /\ (rows[last].redelivered <=> (a = Worker /\ actor[a].msg.redelivered))
  BY <1>4 DEF PointedAt
<1> DEFINE n == IF q < RecentEventsLimit THEN q ELSE RecentEventsLimit
           window == RecentEvents(rows)
<1>6. /\ n \in 1 .. q /\ Len(window) = n
      /\ \A k \in 1 .. n : window[k].seq = q - n + k
      /\ window[n].type = Cause(a)
  BY <1>3, <1>5, WindowEnds
<1>7. LastEventRedelivered(rows) <=> (a = Worker /\ actor[a].msg.redelivered)
  BY <1>3, <1>5 DEF LastEventRedelivered, Firsts
<1>8. Latency(t) = None <=> task[t].target = None
  BY <1>1, <1>2, LatencyTold
<1>9. Cause(a) = "INVENTORY_TIMEOUT" => Latency(t) = "to now"
  BY <1>1, <1>2, <1>4, LatencyTold DEF PointedAt
<1>10. ASSUME Cause(a) = "FAILED", ~LastEventRedelivered(rows) PROVE Latency(t) = "to the reply"
  <2>1. PICK i \in DOMAIN rows : LatestIn(rows, i)
    BY <1>4, <1>10 DEF PointedAt
  <2>2. last \in DOMAIN rows /\ last \in Nat /\ i \in Nat /\ i <= last
    BY <1>3, <1>5 DEF Firsts
  <2>3. i # last
    BY <1>5, <1>10, <2>1 DEF LatestIn, IsRequest
  <2>4. i < last /\ rows[last].type \in Reported /\ ~rows[last].redelivered
    BY <1>5, <1>7, <1>10, <2>2, <2>3 DEF Reported
  <2> QED
    BY <1>1, <1>2, <2>1, <2>2, <2>4, LatencyTold
<1> DEFINE s == SystemState(t)
<1>11. /\ s.window = window /\ s.seq = q /\ s.latency = Latency(t)
       /\ s.redelivered = LastEventRedelivered(rows)
  BY DEF SystemState
<1> HIDE DEF s, window, q, last, rows
<1> QED
  BY <1>6, <1>7, <1>8, <1>9, <1>10, <1>11 DEF s

(* An engine sees what it is asked about, of every decision point: the     *)
(* window is an unbroken run of numbers that ends in the event that opened *)
(* the point, and the flag and the latency are about that event.           *)
THEOREM PointAlwaysSeesItsCause == Spec => []PointSeesItsCause
<1>1. Safe /\ Recorded /\ Points /\ FallbacksAsked => PointSeesItsCause
  BY PointSeen
<1> QED
  BY <1>1, AlwaysSafe, AlwaysRecorded, AlwaysPointed, PTL

-----------------------------------------------------------------------------
(* The check of a trajectory, row by row.                                  *)

(* What holds of the first number, and of the next one of each, holds of   *)
(* all.                                                                    *)
LEMMA UpTo ==
  ASSUME NEW a \in Nat, NEW b \in Int, NEW S, a \in S,
         \A k \in a .. b - 1 : k \in S => k + 1 \in S
  PROVE  a .. b \subseteq S
<1> DEFINE without == {k \in a .. b : k \notin S}
<1> SUFFICES ASSUME without # {} PROVE FALSE
  OBVIOUS
<1>1. PICK m \in without : \A k \in without : m <= k
  <2>1. without \subseteq Nat
    OBVIOUS
  <2> HIDE DEF without
  <2> QED
    BY <2>1, LeastNumber
<1>2. m \in a .. b /\ m \notin S
  BY <1>1
<1>3. m # a
  BY <1>2
<1>4. m - 1 \in a .. b - 1 /\ m - 1 + 1 = m /\ m - 1 \in a .. b
  BY <1>2, <1>3
<1>5. m - 1 \notin without
  <2> SUFFICES ASSUME m - 1 \in without PROVE FALSE
    OBVIOUS
  <2> HIDE DEF without
  <2>1. m <= m - 1
    BY <1>1
  <2> QED
    BY <1>2, <2>1
<1>6. m - 1 \in S
  BY <1>4, <1>5
<1> QED
  BY <1>2, <1>4, <1>6

Nothing == [expected |-> 1, first |-> {}, errors |-> {}]

(* What a fold over the first n rows computes of each set of them.         *)
FoldsTo(rows, n, f) ==
  f = [S \in SUBSET (1 .. n) |->
         IF S = {} THEN Nothing ELSE CheckRow(f[S \ {Max(S)}], rows[Max(S)])]

LEMMA LastOf ==
  ASSUME NEW n \in Nat, NEW S \in SUBSET (1 .. n + 1), n + 1 \in S
  PROVE  Max(S) = n + 1 /\ S \ {n + 1} \in SUBSET (1 .. n)
<1>1. \A x \in S : x \in Int /\ n + 1 >= x
  OBVIOUS
<1>2. \A x \in S : (\A y \in S : x >= y) => x = n + 1
  BY <1>1
<1>3. Max(S) = n + 1
  BY <1>1, <1>2 DEF Max
<1>4. S \ {n + 1} \in SUBSET (1 .. n)
  OBVIOUS
<1> QED
  BY <1>3, <1>4

LEMMA FoldExists ==
  ASSUME NEW rows, NEW N \in Nat
  PROVE  \E f : FoldsTo(rows, N, f)
<1>1. \E f : FoldsTo(rows, 0, f)
  <2> DEFINE f == [S \in SUBSET (1 .. 0) |-> Nothing]
  <2>1. 1 .. 0 = {}
    OBVIOUS
  <2>2. f = [S \in SUBSET (1 .. 0) |->
               IF S = {} THEN Nothing ELSE CheckRow(f[S \ {Max(S)}], rows[Max(S)])]
    BY <2>1
  <2> QED
    BY <2>2 DEF FoldsTo
<1>2. ASSUME NEW n \in Nat, NEW f, FoldsTo(rows, n, f)
      PROVE  \E g : FoldsTo(rows, n + 1, g)
  <2> DEFINE D == SUBSET (1 .. n + 1)
             g == [S \in D |-> IF n + 1 \in S THEN CheckRow(f[S \ {n + 1}], rows[n + 1]) ELSE f[S]]
  <2>0. 1 .. n + 1 = (1 .. n) \cup {n + 1} /\ n + 1 \notin 1 .. n
    OBVIOUS
  <2>1. \A S \in SUBSET (1 .. n) :
           f[S] = IF S = {} THEN Nothing ELSE CheckRow(f[S \ {Max(S)}], rows[Max(S)])
    BY <1>2 DEF FoldsTo
  <2>2. \A S \in SUBSET (1 .. n) : g[S] = f[S]
    <3> SUFFICES ASSUME NEW S \in SUBSET (1 .. n) PROVE g[S] = f[S]
      OBVIOUS
    <3>1. S \in D /\ n + 1 \notin S
      BY <2>0
    <3> QED
      BY <3>1
  <2>3. ASSUME NEW S \in D, n + 1 \in S
        PROVE  g[S] = CheckRow(g[S \ {Max(S)}], rows[Max(S)]) /\ S # {}
    <3>1. Max(S) = n + 1 /\ S \ {n + 1} \in SUBSET (1 .. n)
      BY <2>3, LastOf
    <3>2. g[S] = CheckRow(f[S \ {n + 1}], rows[n + 1])
      BY <2>3
    <3>3. g[S \ {n + 1}] = f[S \ {n + 1}]
      BY <2>2, <3>1
    <3> HIDE DEF g
    <3> QED
      BY <2>3, <3>1, <3>2, <3>3
  <2>4. ASSUME NEW S \in D, n + 1 \notin S
        PROVE  g[S] = IF S = {} THEN Nothing ELSE CheckRow(g[S \ {Max(S)}], rows[Max(S)])
    <3>1. S \in SUBSET (1 .. n) /\ S \ {Max(S)} \in SUBSET (1 .. n)
      BY <2>0, <2>4
    <3>2. g[S] = f[S] /\ g[S \ {Max(S)}] = f[S \ {Max(S)}]
      BY <2>2, <3>1
    <3> HIDE DEF g
    <3> QED
      BY <2>1, <3>1, <3>2
  <2>5. \A S \in D : g[S] = IF S = {} THEN Nothing ELSE CheckRow(g[S \ {Max(S)}], rows[Max(S)])
    <3> HIDE DEF g
    <3> QED
      BY <2>3, <2>4
  <2>6. g = [S \in D |-> g[S]]
    OBVIOUS
  <2> HIDE DEF g
  <2>7. g = [S \in D |-> IF S = {} THEN Nothing ELSE CheckRow(g[S \ {Max(S)}], rows[Max(S)])]
    BY <2>5, <2>6
  <2> QED
    BY <2>7 DEF FoldsTo
<1> DEFINE S == {n \in Nat : \E f : FoldsTo(rows, n, f)}
<1>3. 0 \in S /\ \A n \in 0 .. N - 1 : n \in S => n + 1 \in S
  BY <1>1, <1>2
<1> HIDE DEF S
<1>4. 0 .. N \subseteq S
  BY <1>3, UpTo
<1> QED
  BY <1>4 DEF S

(* What is found after each row.                                           *)
Finds(rows, found) ==
  /\ found[0] = Nothing
  /\ \A k \in DOMAIN rows : found[k] = CheckRow(found[k - 1], rows[k])

LEMMA FoundByRow ==
  ASSUME NEW X, NEW rows \in Seq(X)
  PROVE  \E found : /\ Finds(rows, found)
                    /\ FoldLeft(CheckRow, Nothing, rows) = found[Len(rows)]
<1> DEFINE N == Len(rows)
           f == CHOOSE g : FoldsTo(rows, N, g)
           found == [k \in 0 .. N |-> f[1 .. k]]
<1>1. N \in Nat /\ DOMAIN rows = 1 .. N
  OBVIOUS
<1>2. FoldsTo(rows, N, f)
  BY <1>1, FoldExists
<1>3. FoldLeft(CheckRow, Nothing, rows) = f[1 .. N]
  BY <1>1 DEF FoldLeft, MapThenFoldSet, FoldsTo
<1> HIDE DEF f
<1>4. \A S \in SUBSET (1 .. N) :
        f[S] = IF S = {} THEN Nothing ELSE CheckRow(f[S \ {Max(S)}], rows[Max(S)])
  BY <1>2 DEF FoldsTo
<1> HIDE DEF N
<1>5. f[1 .. 0] = Nothing
  <2>1. 1 .. 0 = {} /\ {} \in SUBSET (1 .. N)
    BY <1>1
  <2> QED
    BY <1>4, <2>1
<1>6. ASSUME NEW k \in 1 .. N PROVE f[1 .. k] = CheckRow(f[1 .. (k - 1)], rows[k])
  <2> DEFINE n == k - 1
  <2>1. n \in Nat /\ n + 1 = k
    BY <1>1
  <2> HIDE DEF n
  <2>2. Max(1 .. k) = k
    <3>1. 1 .. n + 1 \in SUBSET (1 .. n + 1) /\ n + 1 \in 1 .. n + 1
      BY <2>1
    <3>2. Max(1 .. n + 1) = n + 1
      BY <2>1, <3>1, LastOf
    <3> QED
      BY <2>1, <3>2
  <2>3. 1 .. k \in SUBSET (1 .. N) /\ 1 .. k # {} /\ (1 .. k) \ {k} = 1 .. (k - 1)
    <3>1. k \in Int /\ k >= 1 /\ k <= N /\ N \in Int
      BY <1>1
    <3>2. \A x : x \in 1 .. k /\ x # k <=> x \in 1 .. (k - 1)
      BY <3>1
    <3>3. k \in 1 .. k /\ \A x \in 1 .. k : x \in 1 .. N
      BY <3>1
    <3> QED
      BY <3>2, <3>3
  <2> QED
    BY <1>4, <2>2, <2>3
<1>7. 0 \in 0 .. N /\ N \in 0 .. N /\ \A k \in 1 .. N : k \in 0 .. N /\ k - 1 \in 0 .. N
  BY <1>1
<1>8. Finds(rows, found)
  BY <1>1, <1>5, <1>6, <1>7 DEF Finds
<1>9. found[N] = f[1 .. N]
  BY <1>7
<1> HIDE DEF found
<1> QED
  BY <1>3, <1>8, <1>9 DEF N

(* What the check keeps of the first k rows of a trajectory.               *)
IdsTold(s, k) ==
  {[id |-> MessageId(s[j]), seq |-> s[j].seq] :
     j \in {i \in Firsts(s) : i <= k /\ MessageId(s[i]) # NoId}}

FoundIn(s, k, found) ==
  /\ found.errors = {} /\ found.first = IdsTold(s, k) /\ found.expected \in Nat \ {0}
  /\ \A j \in Firsts(s) : j <= k <=> s[j].seq < found.expected

(* The ids of a trajectory.                                                *)
LEMMA RowIds ==
  ASSUME NEW s \in Seq(EventRow), NEW n \in Nat, Gapless(s, n)
  PROVE  /\ Firsts(s) \subseteq DOMAIN s
         /\ \A i \in DOMAIN s : i \in Nat \ {0} /\ s[i].seq \in Nat
         /\ \A i \in Firsts(s) : s[i].seq \in 1 .. n
         /\ \A i, j \in Firsts(s) :
              MessageId(s[i]) = MessageId(s[j]) /\ MessageId(s[i]) # NoId => i = j
         /\ \A i \in DOMAIN s \ Firsts(s) :
              /\ MessageId(s[i]) # NoId
              /\ \E j \in Firsts(s) : /\ j < i /\ MessageId(s[j]) = MessageId(s[i])
                                     /\ s[j].seq = s[i].seq
<1>1. Firsts(s) \subseteq DOMAIN s /\ \A i \in DOMAIN s : i \in Nat \ {0} /\ s[i].seq \in Nat
  <2>1. \A i \in DOMAIN s : i \in Nat \ {0} /\ s[i] \in EventRow
    OBVIOUS
  <2>2. \A e \in EventRow : e.seq \in Nat
    BY DEF EventRow
  <2> QED
    BY <2>1, <2>2 DEF Firsts
<1>2. \A i \in Firsts(s) : s[i].seq \in 1 .. n
  BY DEF Gapless
<1>3. ASSUME NEW i \in Firsts(s), NEW j \in Firsts(s),
             MessageId(s[i]) = MessageId(s[j]), MessageId(s[i]) # NoId
      PROVE  i = j
  <2>1. DistinctRows(s) = Firsts(s)
    BY DistinctAreFirsts
  <2>2. i <= j /\ j <= i
    BY <1>1, <1>3, <2>1 DEF DistinctRows
  <2> QED
    BY <1>1, <2>2
<1>4. ASSUME NEW i \in DOMAIN s \ Firsts(s)
      PROVE  /\ MessageId(s[i]) # NoId
             /\ \E j \in Firsts(s) : /\ j < i /\ MessageId(s[j]) = MessageId(s[i])
                                    /\ s[j].seq = s[i].seq
  <2>1. PICK j \in Firsts(s) : /\ j < i /\ s[i].type \in Reported
                              /\ s[j].type = s[i].type /\ s[j].ref = s[i].ref
                              /\ s[j].seq = s[i].seq
    BY DEF Gapless
  <2>2. MessageId(s[j]) = MessageId(s[i]) /\ MessageId(s[i]) # NoId
    BY <2>1 DEF MessageId, NoId
  <2> QED
    BY <2>1, <2>2
<1> QED
  BY <1>1, <1>2, <1>3, <1>4

(* What one row adds to what was found.                                    *)
LEMMA NewRow ==
  ASSUME NEW found, NEW e, \A x \in found.first : x.id # MessageId(e)
  PROVE  /\ "errors" \in DOMAIN CheckRow(found, e) /\ CheckRow(found, e).expected = e.seq + 1
         /\ CheckRow(found, e).first
              = found.first \cup IF MessageId(e) = NoId THEN {}
                                 ELSE {[id |-> MessageId(e), seq |-> e.seq]}
         /\ CheckRow(found, e).errors
              = found.errors \cup IF e.seq = found.expected THEN {} ELSE {"GAP"}
<1>1. {n \in found.first : n.id = MessageId(e)} = {}
  OBVIOUS
<1> QED
  BY <1>1 DEF CheckRow

LEMMA RepeatedRow ==
  ASSUME NEW found, NEW e, \E x \in found.first : x.id = MessageId(e),
         \A x \in found.first : x.id = MessageId(e) => x.seq = e.seq
  PROVE  CheckRow(found, e) = found
BY DEF CheckRow

LEMMA ErrorsStay ==
  ASSUME NEW found, NEW e, "errors" \in DOMAIN found, "GAP" \in found.errors
  PROVE  "errors" \in DOMAIN CheckRow(found, e) /\ "GAP" \in CheckRow(found, e).errors
BY DEF CheckRow

LEMMA SameRow ==
  ASSUME NEW found, NEW e, NEW f, MessageId(e) = MessageId(f), e.seq = f.seq
  PROVE  CheckRow(found, e) = CheckRow(found, f)
BY DEF CheckRow

(* A row that repeats one of the first k changes nothing.                  *)
LEMMA RepetitionFound ==
  ASSUME NEW s \in Seq(EventRow), NEW n \in Nat, Gapless(s, n), NEW k, NEW found,
         found.first = IdsTold(s, k), NEW i \in DOMAIN s,
         MessageId(s[i]) # NoId,
         \E j \in Firsts(s) : j <= k /\ MessageId(s[j]) = MessageId(s[i]) /\ s[j].seq = s[i].seq
  PROVE  CheckRow(found, s[i]) = found
<1>1. PICK j \in Firsts(s) : j <= k /\ MessageId(s[j]) = MessageId(s[i]) /\ s[j].seq = s[i].seq
  OBVIOUS
<1> DEFINE told == [id |-> MessageId(s[j]), seq |-> s[j].seq]
<1>2. told \in found.first /\ told.id = MessageId(s[i])
  BY <1>1 DEF IdsTold
<1>3. ASSUME NEW x \in found.first, x.id = MessageId(s[i]) PROVE x.seq = s[i].seq
  <2>1. PICK l \in Firsts(s) : /\ x = [id |-> MessageId(s[l]), seq |-> s[l].seq]
                              /\ MessageId(s[l]) # NoId
    BY DEF IdsTold
  <2>2. l = j
    BY <1>1, <1>3, <2>1, RowIds
  <2> QED
    BY <1>1, <2>1, <2>2
<1> HIDE DEF told
<1> QED
  BY <1>2, <1>3, RepeatedRow

(* One more row.                                                           *)
LEMMA FoundStep ==
  ASSUME NEW s \in Seq(EventRow), NEW n \in Nat, Gapless(s, n), NEW k \in DOMAIN s, NEW found,
         FoundIn(s, k - 1, found)
  PROVE  /\ FoundIn(s, k, CheckRow(found, s[k]))
         /\ k \notin Firsts(s) => CheckRow(found, s[k]) = found
<1> DEFINE F == Firsts(s)
           id(i) == MessageId(s[i])
           new == CheckRow(found, s[k])
<1>1. /\ F \subseteq DOMAIN s /\ \A i \in DOMAIN s : i \in Nat \ {0} /\ s[i].seq \in Nat
      /\ \A i, j \in F : id(i) = id(j) /\ id(i) # NoId => i = j
      /\ \A i \in F : s[i].seq \in 1 .. n
  BY RowIds
<1>2. /\ found.errors = {} /\ found.first = IdsTold(s, k - 1) /\ found.expected \in Nat \ {0}
      /\ \A j \in F : j <= k - 1 <=> s[j].seq < found.expected
  BY DEF FoundIn
<1>3. CASE k \notin F
  <2>1. /\ id(k) # NoId
        /\ \E j \in F : j < k /\ id(j) = id(k) /\ s[j].seq = s[k].seq
    BY <1>3, RowIds
  <2>2. \A j \in F : j <= k - 1 <=> j <= k
    BY <1>1, <1>3
  <2>3. \A j \in F : j < k => j <= k - 1
    BY <1>1
  <2> HIDE DEF F
  <2>4. new = found
    BY <1>2, <2>1, <2>3, RepetitionFound DEF F
  <2>5. IdsTold(s, k) = IdsTold(s, k - 1)
    BY <2>2 DEF IdsTold, F
  <2> QED
    BY <1>2, <2>2, <2>4, <2>5 DEF FoundIn, F
<1>4. CASE k \in F
  <2>1. \A x \in found.first : x.id # id(k)
    <3> SUFFICES ASSUME NEW x \in found.first, x.id = id(k) PROVE FALSE
      OBVIOUS
    <3>1. PICK j \in F : j <= k - 1 /\ id(j) # NoId /\ x.id = id(j)
      BY <1>2 DEF IdsTold
    <3>2. j = k
      BY <1>1, <1>4, <3>1
    <3> QED
      BY <1>1, <1>4, <3>1, <3>2
  <2>2. s[k].seq = found.expected
    <3>1. ~(s[k].seq < found.expected) /\ s[k].seq \in 1 .. n /\ k \in Nat
      BY <1>1, <1>2, <1>4
    <3>2. ASSUME s[k].seq > found.expected PROVE FALSE
      <4>1. found.expected \in 1 .. n
        BY <1>2, <3>1, <3>2
      <4>2. PICK j \in F : s[j].seq = found.expected
        BY <4>1 DEF Gapless
      <4>3. ~(j <= k - 1) /\ j # k /\ j \in Nat
        BY <1>1, <1>2, <3>2, <4>2
      <4>4. k < j
        BY <3>1, <4>3
      <4>5. s[k].seq < s[j].seq
        BY <1>4, <4>4 DEF Gapless
      <4> QED
        BY <1>2, <3>1, <3>2, <4>2, <4>5
    <3> QED
      BY <1>2, <3>1, <3>2
  <2>3. /\ new.expected = s[k].seq + 1 /\ new.errors = {}
        /\ new.first = found.first \cup IF id(k) = NoId THEN {}
                                        ELSE {[id |-> id(k), seq |-> s[k].seq]}
    BY <1>2, <2>1, <2>2, NewRow
  <2>4. \A j \in F : j <= k <=> j <= k - 1 \/ j = k
    BY <1>1
  <2>5. new.first = IdsTold(s, k)
    <3> HIDE DEF new
    <3> QED
      BY <1>2, <1>4, <2>3, <2>4 DEF IdsTold, F
  <2>6. \A j \in F : j <= k <=> s[j].seq < new.expected
    <3> SUFFICES ASSUME NEW j \in F PROVE j <= k <=> s[j].seq < new.expected
      OBVIOUS
    <3> HIDE DEF new
    <3>1. j \in Nat /\ k \in Nat /\ s[j].seq \in Nat /\ s[k].seq \in Nat
      BY <1>1, <1>4
    <3>2. (j < k => s[j].seq < s[k].seq) /\ (k < j => s[k].seq < s[j].seq)
      BY <1>4 DEF Gapless
    <3> QED
      BY <2>3, <3>1, <3>2
  <2>7. new.expected \in Nat \ {0}
    <3> HIDE DEF new
    <3> QED
      BY <1>1, <1>4, <2>3
  <2> HIDE DEF new
  <2>8. FoundIn(s, k, new)
    BY <2>3, <2>5, <2>6, <2>7 DEF FoundIn
  <2> QED
    BY <1>4, <2>8 DEF new
<1> QED
  BY <1>3, <1>4

(* What is found after each row of a trajectory.                           *)
LEMMA TrajectoryFound ==
  ASSUME NEW s \in Seq(EventRow), NEW n \in Nat, Gapless(s, n), NEW found, Finds(s, found)
  PROVE  /\ \A k \in 0 .. Len(s) : FoundIn(s, k, found[k])
         /\ \A k \in DOMAIN s \ Firsts(s) : found[k] = found[k - 1]
<1>1. DOMAIN s = 1 .. Len(s) /\ Len(s) \in Nat
  OBVIOUS
<1>2. FoundIn(s, 0, found[0])
  <2>1. \A j \in Firsts(s) : ~(j <= 0) /\ ~(s[j].seq < 1)
    BY RowIds
  <2>2. IdsTold(s, 0) = {}
    BY <2>1 DEF IdsTold
  <2> QED
    BY <2>1, <2>2 DEF Finds, FoundIn, Nothing
<1>3. ASSUME NEW k \in DOMAIN s, FoundIn(s, k - 1, found[k - 1])
      PROVE  FoundIn(s, k, found[k]) /\ (k \notin Firsts(s) => found[k] = found[k - 1])
  BY <1>3, FoundStep DEF Finds
<1> DEFINE S == {k \in 0 .. Len(s) : FoundIn(s, k, found[k])}
<1>4. 0 \in S
  BY <1>1, <1>2
<1>5. ASSUME NEW k \in 0 .. Len(s) - 1, k \in S PROVE k + 1 \in S
  <2>1. k + 1 \in DOMAIN s /\ k + 1 - 1 = k /\ k + 1 \in 0 .. Len(s)
    BY <1>1
  <2>2. FoundIn(s, k + 1, found[k + 1])
    BY <1>3, <1>5, <2>1
  <2> QED
    BY <2>1, <2>2
<1>6. 0 .. Len(s) \subseteq S
  <2>1. \A k \in 0 .. Len(s) - 1 : k \in S => k + 1 \in S
    BY <1>5
  <2>2. 0 \in Nat /\ Len(s) \in Int
    BY <1>1
  <2> HIDE DEF S
  <2> QED
    BY <1>4, <2>1, <2>2, UpTo
<1>7. \A k \in 0 .. Len(s) : FoundIn(s, k, found[k])
  BY <1>6
<1>8. \A k \in DOMAIN s : k - 1 \in 0 .. Len(s)
  BY <1>1
<1> QED
  BY <1>3, <1>7, <1>8

(* Nothing is wrong in it.                                                 *)
LEMMA TrajectoryAccepted ==
  ASSUME NEW s \in Seq(EventRow), NEW n \in Nat, Gapless(s, n),
         s # <<>> => s[1].type = "TASK_CREATED"
  PROVE  CheckTrajectory(s) = {}
<1>1. PICK found : Finds(s, found) /\ FoldLeft(CheckRow, Nothing, s) = found[Len(s)]
  BY FoundByRow
<1>2. found[Len(s)].errors = {}
  <2>1. Len(s) \in 0 .. Len(s)
    OBVIOUS
  <2> QED
    BY <1>1, <2>1, TrajectoryFound DEF FoundIn
<1> QED
  BY <1>1, <1>2 DEF CheckTrajectory, Nothing

(* Where the rows are when one is missing.                                 *)
LEMMA WithoutFacts ==
  ASSUME NEW s \in Seq(EventRow), NEW i \in DOMAIN s
  PROVE  /\ Without(s, i) \in Seq(EventRow) /\ Len(Without(s, i)) = Len(s) - 1
         /\ DOMAIN Without(s, i) = 1 .. Len(s) - 1
         /\ \A p \in 1 .. i - 1 : Without(s, i)[p] = s[p]
         /\ \A p \in i + 1 .. Len(s) : Without(s, i)[p - 1] = s[p]
<1> DEFINE N == Len(s) - 1
           z == Without(s, i)
<1>1. N \in Nat /\ i \in 1 .. N + 1 /\ DOMAIN s = 1 .. N + 1
  OBVIOUS
<1>2. z = [k \in 1 .. N |-> IF k < i THEN s[k] ELSE s[k + 1]]
  BY DEF Without
<1>3. \A k \in 1 .. N : s[k] \in EventRow /\ s[k + 1] \in EventRow
  BY <1>1
<1> HIDE DEF N, z
<1>4. z \in [1 .. N -> EventRow]
  BY <1>2, <1>3
<1>5. z \in Seq(EventRow) /\ Len(z) = N /\ DOMAIN z = 1 .. N
  BY <1>1, <1>4
<1>6. \A p \in 1 .. i - 1 : z[p] = s[p]
  BY <1>1, <1>2
<1>7. ASSUME NEW p \in i + 1 .. N + 1 PROVE z[p - 1] = s[p]
  <2>1. p - 1 \in 1 .. N /\ ~(p - 1 < i) /\ p - 1 + 1 = p
    BY <1>1
  <2> QED
    BY <1>2, <2>1
<1> QED
  BY <1>5, <1>6, <1>7 DEF N, z

(* Up to the next event, or to a repetition of what is missing, the check  *)
(* finds what it found before the hole.                                    *)
LEMMA BeforeTheHole ==
  ASSUME NEW s \in Seq(EventRow), NEW n \in Nat, Gapless(s, n), NEW i \in Firsts(s),
         NEW found, Finds(s, found), NEW lost, Finds(Without(s, i), lost),
         NEW m \in i + 1 .. Len(s) + 1,
         \A p \in i + 1 .. m - 1 : p \notin Firsts(s) /\ MessageId(s[p]) # MessageId(s[i])
  PROVE  lost[m - 2] = found[i - 1]
<1> DEFINE z == Without(s, i)
           N == Len(s)
<1>1. N \in Nat /\ DOMAIN s = 1 .. N /\ i \in 1 .. N
  BY RowIds
<1>2. /\ DOMAIN z = 1 .. N - 1 /\ \A p \in 1 .. i - 1 : z[p] = s[p]
      /\ \A p \in i + 1 .. N : z[p - 1] = s[p]
  BY <1>1, WithoutFacts
<1>rows. /\ \A k \in 1 .. N - 1 : lost[k] = CheckRow(lost[k - 1], z[k])
      /\ \A k \in 1 .. N : found[k] = CheckRow(found[k - 1], s[k])
  BY <1>1, <1>2 DEF Finds
<1> HIDE DEF z, N
<1> DEFINE A == {p \in 0 .. i - 1 : lost[p] = found[p]}
<1>3. i - 1 \in A
  <2>1. 0 \in A
    BY <1>1 DEF Finds, z
  <2>2. ASSUME NEW p \in 0 .. (i - 1) - 1, p \in A PROVE p + 1 \in A
    <3>1. p + 1 \in 1 .. i - 1 /\ p + 1 \in 1 .. N /\ p + 1 \in 1 .. N - 1 /\ p + 1 - 1 = p
      BY <1>1
    <3>2. lost[p + 1] = CheckRow(lost[p], z[p + 1]) /\ found[p + 1] = CheckRow(found[p], s[p + 1])
      BY <1>rows, <3>1
    <3>3. lost[p + 1] = found[p + 1]
      BY <1>2, <2>2, <3>1, <3>2
    <3> QED
      BY <3>1, <3>3
  <2>3. 0 .. i - 1 \subseteq A
    <3>1. \A p \in 0 .. (i - 1) - 1 : p \in A => p + 1 \in A
      BY <2>2
    <3>2. 0 \in Nat /\ i - 1 \in Int
      BY <1>1
    <3> HIDE DEF A
    <3> QED
      BY <2>1, <3>1, <3>2, UpTo
  <2>4. i - 1 \in 0 .. i - 1
    BY <1>1
  <2> QED
    BY <2>3, <2>4
<1> DEFINE B == {q \in i - 1 .. m - 2 : lost[q] = found[i - 1]}
<1>4. i - 1 \in B
  <2>1. i - 1 \in i - 1 .. m - 2
    BY <1>1
  <2> QED
    BY <1>3, <2>1
<1>5. ASSUME NEW q \in i - 1 .. (m - 2) - 1, q \in B PROVE q + 1 \in B
  <2> DEFINE p == q + 2
  <2>1. /\ p \in i + 1 .. N /\ p \in 1 .. N /\ q + 1 \in 1 .. N - 1 /\ q + 1 \in i - 1 .. m - 2
        /\ p - 1 = q + 1 /\ q + 1 - 1 = q /\ p \in i + 1 .. m - 1 /\ i - 1 \in 0 .. N
    BY <1>1 DEF N
  <2> HIDE DEF p
  <2>2. lost[q + 1] = CheckRow(lost[q], s[p])
    <3>1. lost[q + 1] = CheckRow(lost[q], z[q + 1])
      BY <1>rows, <2>1
    <3>2. z[q + 1] = s[p]
      BY <1>2, <2>1
    <3> QED
      BY <3>1, <3>2
  <2>3. /\ p \notin Firsts(s) /\ MessageId(s[p]) # MessageId(s[i])
        /\ \A r \in i + 1 .. m - 1 : r \notin Firsts(s)
    BY <2>1
  <2>4. MessageId(s[p]) # NoId
    BY <1>1, <2>1, <2>3, RowIds
  <2>5. PICK r \in Firsts(s) : r < p /\ MessageId(s[r]) = MessageId(s[p]) /\ s[r].seq = s[p].seq
    BY <1>1, <2>1, <2>3, RowIds
  <2>6. r <= i - 1
    <3>1. r \in Nat /\ i \in Nat /\ p \in Nat /\ r # i
      BY <1>1, <2>1, <2>3, <2>5, RowIds
    <3>2. r \notin i + 1 .. m - 1 /\ p <= m - 1 /\ m \in Int
      BY <2>1, <2>3
    <3> QED
      BY <2>5, <3>1, <3>2
  <2>7. found[i - 1].first = IdsTold(s, i - 1)
    BY <2>1, TrajectoryFound DEF FoundIn, N
  <2>8. CheckRow(found[i - 1], s[p]) = found[i - 1]
    BY <1>1, <2>1, <2>4, <2>5, <2>6, <2>7, RepetitionFound
  <2> QED
    BY <1>5, <2>1, <2>2, <2>8
<1>6. i - 1 .. m - 2 \subseteq B
  <2>1. i - 1 \in Nat /\ m - 2 \in Int
    BY <1>1
  <2>2. \A q \in i - 1 .. (m - 2) - 1 : q \in B => q + 1 \in B
    BY <1>5
  <2> HIDE DEF B
  <2> QED
    BY <1>4, <2>1, <2>2, UpTo
<1>7. m - 2 \in i - 1 .. m - 2
  BY <1>1
<1> QED
  BY <1>6, <1>7

(* A repetition fills the hole.                                            *)
LEMMA HoleFilled ==
  ASSUME NEW s \in Seq(EventRow), NEW n \in Nat, Gapless(s, n), NEW i \in Firsts(s),
         NEW found, Finds(s, found), NEW lost, Finds(Without(s, i), lost),
         ReplacedByRepetition(s, i)
  PROVE  MessageId(s[i]) # NoId /\ lost[Len(s) - 1].errors = {}
<1> DEFINE z == Without(s, i)
           N == Len(s)
           id(p) == MessageId(s[p])
           again == {p \in i + 1 .. N : id(p) = id(i)}
<1>1. N \in Nat /\ DOMAIN s = 1 .. N /\ i \in 1 .. N
  BY RowIds
<1>2. /\ DOMAIN z = 1 .. N - 1 /\ \A p \in i + 1 .. N : z[p - 1] = s[p]
  BY <1>1, WithoutFacts
<1>3. /\ \A p \in 1 .. N - 1 : lost[p] = CheckRow(lost[p - 1], z[p])
      /\ \A p \in 1 .. N : found[p] = CheckRow(found[p - 1], s[p])
  BY <1>1, <1>2 DEF Finds
<1>4. PICK last \in DOMAIN s :
        /\ last > i /\ id(i) # NoId /\ id(last) = id(i)
        /\ \A k \in Firsts(s) : k > i => k > last
  BY DistinctAreFirsts DEF ReplacedByRepetition
<1> HIDE DEF z, N
<1>5. PICK j \in again : \A p \in again : j <= p
  <2>1. again \subseteq Nat /\ last \in again
    BY <1>1, <1>4
  <2> HIDE DEF again
  <2> QED
    BY <2>1, LeastNumber
<1>6. j \in i + 1 .. N /\ id(j) = id(i) /\ j <= last /\ last \in 1 .. N
  BY <1>1, <1>4, <1>5
<1>7. \A p \in i + 1 .. j : p \notin Firsts(s)
  <2> SUFFICES ASSUME NEW p \in i + 1 .. j, p \in Firsts(s) PROVE FALSE
    OBVIOUS
  <2>1. p > i /\ p <= last /\ p \in Int
    BY <1>1, <1>6
  <2> QED
    BY <1>1, <1>4, <1>6, <2>1
<1>8. \A p \in i + 1 .. j - 1 : id(p) # id(i)
  <2> SUFFICES ASSUME NEW p \in i + 1 .. j - 1, id(p) = id(i) PROVE FALSE
    OBVIOUS
  <2>1. p \in again /\ ~(j <= p)
    BY <1>1, <1>6
  <2> HIDE DEF again
  <2> QED
    BY <1>5, <2>1
<1>9. lost[j - 2] = found[i - 1]
  <2>1. j \in i + 1 .. Len(s) + 1
    BY <1>1, <1>6 DEF N
  <2>2. \A p \in i + 1 .. j - 1 : p \notin Firsts(s) /\ MessageId(s[p]) # MessageId(s[i])
    BY <1>1, <1>6, <1>7, <1>8
  <2> QED
    BY <2>1, <2>2, BeforeTheHole
<1>10. s[j].seq = s[i].seq
  <2>1. j \in DOMAIN s \ Firsts(s)
    BY <1>1, <1>6, <1>7
  <2>2. PICK r \in Firsts(s) : id(r) = id(j) /\ s[r].seq = s[j].seq
    BY <2>1, RowIds
  <2>3. r = i
    BY <1>4, <1>6, <2>2, RowIds
  <2> QED
    BY <2>2, <2>3
<1>11. lost[j - 1] = found[i]
  <2>1. j - 1 \in 1 .. N - 1 /\ j - 1 - 1 = j - 2
    BY <1>1, <1>6
  <2>2. lost[j - 1] = CheckRow(lost[j - 2], s[j])
    BY <1>2, <1>3, <1>6, <2>1
  <2>3. CheckRow(found[i - 1], s[j]) = CheckRow(found[i - 1], s[i])
    BY <1>6, <1>10, SameRow
  <2>4. found[i] = CheckRow(found[i - 1], s[i])
    BY <1>1, <1>3
  <2> QED
    BY <1>9, <2>2, <2>3, <2>4
<1> DEFINE A == {p \in i .. j : found[p] = found[i]}
<1>12. found[j] = found[i]
  <2>1. i \in Nat /\ j \in Int /\ i \in A /\ j \in i .. j
    BY <1>1, <1>6
  <2>2. ASSUME NEW p \in i .. j - 1, p \in A PROVE p + 1 \in A
    <3>1. p + 1 \in i .. j /\ p + 1 \in i + 1 .. j /\ p + 1 \in DOMAIN s /\ p + 1 - 1 = p
      BY <1>1, <1>6
    <3>2. found[p + 1] = found[p]
      BY <1>7, <3>1, TrajectoryFound
    <3> QED
      BY <2>2, <3>1, <3>2
  <2>3. \A p \in i .. j - 1 : p \in A => p + 1 \in A
    BY <2>2
  <2>4. i .. j \subseteq A
    <3> HIDE DEF A
    <3> QED
      BY <2>1, <2>3, UpTo
  <2> QED
    BY <2>1, <2>4
<1> DEFINE B == {p \in j - 1 .. N - 1 : lost[p] = found[p + 1]}
<1>13. lost[N - 1] = found[N]
  <2>1. j - 1 \in Nat /\ N - 1 \in Int /\ j - 1 + 1 = j /\ N - 1 + 1 = N /\ N - 1 \in j - 1 .. N - 1
    BY <1>1, <1>6
  <2>2. j - 1 \in B
    <3>1. j - 1 \in j - 1 .. N - 1
      BY <1>1, <1>6
    <3> QED
      BY <1>11, <1>12, <2>1, <3>1
  <2>3. ASSUME NEW p \in j - 1 .. (N - 1) - 1, p \in B PROVE p + 1 \in B
    <3>1. /\ p + 1 \in j - 1 .. N - 1 /\ p + 1 \in 1 .. N - 1 /\ p + 1 + 1 \in i + 1 .. N
          /\ p + 1 + 1 \in 1 .. N /\ p + 1 - 1 = p /\ p + 1 + 1 - 1 = p + 1
      BY <1>1, <1>6
    <3>2. lost[p + 1] = CheckRow(lost[p], z[p + 1]) /\ z[p + 1] = s[p + 1 + 1]
      BY <1>2, <1>3, <3>1
    <3>3. found[p + 1 + 1] = CheckRow(found[p + 1], s[p + 1 + 1])
      BY <1>3, <3>1
    <3>4. lost[p] = found[p + 1]
      BY <2>3
    <3> QED
      BY <3>1, <3>2, <3>3, <3>4
  <2>4. \A p \in j - 1 .. (N - 1) - 1 : p \in B => p + 1 \in B
    BY <2>3
  <2>5. j - 1 .. N - 1 \subseteq B
    <3>1. j - 1 \in Nat /\ N - 1 \in Int
      BY <2>1
    <3> HIDE DEF B
    <3> QED
      BY <2>2, <2>4, <3>1, UpTo
  <2>6. lost[N - 1] = found[N - 1 + 1]
    BY <2>1, <2>5
  <2> QED
    BY <2>1, <2>6
<1>14. found[N].errors = {}
  <2>1. N \in 0 .. N
    BY <1>1
  <2> QED
    BY <2>1, TrajectoryFound DEF FoundIn, N
<1> QED
  BY <1>4, <1>13, <1>14 DEF N

(* Nothing fills the hole before the next event: it is found.              *)
LEMMA HoleFound ==
  ASSUME NEW s \in Seq(EventRow), NEW n \in Nat, Gapless(s, n), NEW i \in Firsts(s),
         NEW found, Finds(s, found), NEW lost, Finds(Without(s, i), lost),
         NEW k \in Firsts(s), k > i, ~ReplacedByRepetition(s, i)
  PROVE  "GAP" \in lost[Len(s) - 1].errors
<1> DEFINE z == Without(s, i)
           N == Len(s)
           id(p) == MessageId(s[p])
           after == {p \in Firsts(s) : p > i}
<1>1. N \in Nat /\ DOMAIN s = 1 .. N /\ i \in 1 .. N /\ Firsts(s) \subseteq 1 .. N
  BY RowIds
<1>2. /\ DOMAIN z = 1 .. N - 1 /\ \A p \in i + 1 .. N : z[p - 1] = s[p]
  BY <1>1, WithoutFacts
<1>3. \A p \in 1 .. N - 1 : lost[p] = CheckRow(lost[p - 1], z[p])
  BY <1>2 DEF Finds
<1> HIDE DEF z, N
<1>4. PICK m \in after : \A p \in after : m <= p
  <2>1. after \subseteq Nat /\ k \in after
    BY <1>1
  <2> HIDE DEF after
  <2> QED
    BY <2>1, LeastNumber
<1>5. /\ m \in Firsts(s) /\ m \in i + 1 .. N
      /\ \A p \in Firsts(s) : p > i => m <= p
  BY <1>1, <1>4
<1>6. \A p \in i + 1 .. m - 1 : p \notin Firsts(s) /\ MessageId(s[p]) # MessageId(s[i])
  <2> SUFFICES ASSUME NEW p \in i + 1 .. m - 1
               PROVE  p \notin Firsts(s) /\ id(p) # id(i)
    OBVIOUS
  <2>1. p > i /\ p < m /\ p \in DOMAIN s /\ p \in Int
    BY <1>1, <1>5
  <2>2. p \notin Firsts(s)
    BY <1>1, <1>5, <2>1
  <2>3. id(p) # NoId
    BY <2>1, <2>2, RowIds
  <2>4. \A r \in DistinctRows(s) : r > i => r > p
    <3> SUFFICES ASSUME NEW r \in Firsts(s), r > i PROVE r > p
      BY DistinctAreFirsts
    <3>1. m <= r /\ r \in Int /\ m \in Int
      BY <1>1, <1>5
    <3> QED
      BY <2>1, <3>1
  <2> QED
    BY <2>1, <2>2, <2>3, <2>4 DEF ReplacedByRepetition
<1>7. lost[m - 2] = found[i - 1]
  <2>1. m \in i + 1 .. Len(s) + 1
    BY <1>1, <1>5 DEF N
  <2> QED
    BY <1>6, <2>1, BeforeTheHole
<1>8. FoundIn(s, i - 1, found[i - 1])
  <2>1. i - 1 \in 0 .. Len(s)
    BY <1>1 DEF N
  <2> QED
    BY <2>1, TrajectoryFound
<1>9. \A x \in found[i - 1].first : x.id # id(m)
  <2> SUFFICES ASSUME NEW x \in found[i - 1].first, x.id = id(m) PROVE FALSE
    OBVIOUS
  <2>1. PICK l \in Firsts(s) : l <= i - 1 /\ id(l) # NoId /\ x.id = id(l)
    BY <1>8 DEF FoundIn, IdsTold
  <2>2. l = m
    BY <1>5, <2>1, RowIds
  <2> QED
    BY <1>1, <1>5, <2>1, <2>2
<1>10. s[m].seq # found[i - 1].expected
  <2>1. ~(s[i].seq < found[i - 1].expected) /\ found[i - 1].expected \in Nat
    BY <1>1, <1>8 DEF FoundIn
  <2>2. s[i].seq < s[m].seq
    BY <1>1, <1>5 DEF Gapless
  <2>3. s[i].seq \in Nat /\ s[m].seq \in Nat
    BY <1>1, <1>5, RowIds
  <2> QED
    BY <2>1, <2>2, <2>3
<1> DEFINE A == {p \in m - 1 .. N - 1 : "errors" \in DOMAIN lost[p] /\ "GAP" \in lost[p].errors}
<1>11. m - 1 \in A
  <2>1. m - 1 \in m - 1 .. N - 1 /\ m - 1 \in 1 .. N - 1 /\ m - 1 - 1 = m - 2
    BY <1>1, <1>5
  <2>2. lost[m - 1] = CheckRow(found[i - 1], s[m])
    BY <1>2, <1>3, <1>5, <1>7, <2>1
  <2>3. "errors" \in DOMAIN lost[m - 1] /\ "GAP" \in lost[m - 1].errors
    BY <1>9, <1>10, <2>2, NewRow
  <2> QED
    BY <2>1, <2>3
<1>12. ASSUME NEW p \in m - 1 .. (N - 1) - 1, p \in A PROVE p + 1 \in A
  <2>1. p + 1 \in m - 1 .. N - 1 /\ p + 1 \in 1 .. N - 1 /\ p + 1 - 1 = p
    BY <1>1, <1>5
  <2>2. lost[p + 1] = CheckRow(lost[p], z[p + 1])
    BY <1>3, <2>1
  <2>3. "errors" \in DOMAIN lost[p] /\ "GAP" \in lost[p].errors
    BY <1>12
  <2>4. "errors" \in DOMAIN lost[p + 1] /\ "GAP" \in lost[p + 1].errors
    BY <2>2, <2>3, ErrorsStay
  <2> QED
    BY <2>1, <2>4
<1>13. m - 1 .. N - 1 \subseteq A
  <2>1. \A p \in m - 1 .. (N - 1) - 1 : p \in A => p + 1 \in A
    BY <1>12
  <2>2. m - 1 \in Nat /\ N - 1 \in Int
    BY <1>1, <1>5
  <2> HIDE DEF A
  <2> QED
    BY <1>11, <2>1, <2>2, UpTo
<1>14. N - 1 \in m - 1 .. N - 1
  BY <1>1, <1>5
<1> QED
  BY <1>13, <1>14 DEF N

(* The check finds the hole exactly where nothing fills it.                *)
LEMMA HoleDecided ==
  ASSUME NEW s \in Seq(EventRow), NEW n \in Nat, Gapless(s, n), s[1].type = "TASK_CREATED",
         NEW i \in Firsts(s), NEW k \in Firsts(s), k > i
  PROVE  CheckTrajectory(Without(s, i)) = {} <=> ReplacedByRepetition(s, i)
<1> DEFINE z == Without(s, i)
           N == Len(s)
<1>1. N \in Nat /\ DOMAIN s = 1 .. N /\ i \in 1 .. N /\ k \in 1 .. N /\ N - 1 >= 1
  BY RowIds
<1>2. /\ z \in Seq(EventRow) /\ Len(z) = N - 1 /\ z # <<>>
      /\ \A p \in 1 .. i - 1 : z[p] = s[p]
  <2>1. /\ z \in Seq(EventRow) /\ Len(z) = N - 1
        /\ \A p \in 1 .. i - 1 : z[p] = s[p]
    BY <1>1, WithoutFacts
  <2>2. Len(z) # 0
    BY <1>1, <2>1
  <2> HIDE DEF z
  <2> QED
    BY <2>1, <2>2
<1>3. PICK found : Finds(s, found)
  BY FoundByRow
<1>4. PICK lost : Finds(z, lost) /\ FoldLeft(CheckRow, Nothing, z) = lost[Len(z)]
  <2> HIDE DEF z
  <2> QED
    BY <1>2, FoundByRow
<1>5. CheckTrajectory(z)
        = lost[N - 1].errors \cup IF z[1].type = "TASK_CREATED" THEN {} ELSE {"NOT_CREATED"}
  <2> HIDE DEF z, N
  <2> QED
    BY <1>2, <1>4 DEF CheckTrajectory, Nothing
<1>6. CASE ReplacedByRepetition(s, i)
  <2>1. MessageId(s[i]) # NoId /\ lost[N - 1].errors = {}
    BY <1>3, <1>4, <1>6, HoleFilled
  <2>2. i # 1
    <3>1. MessageId(s[1]) = NoId
      BY DEF MessageId, NoId, Reported
    <3> QED
      BY <2>1, <3>1
  <2>3. 1 \in 1 .. i - 1
    BY <1>1, <2>2
  <2>4. z[1].type = "TASK_CREATED"
    BY <1>2, <2>3
  <2> HIDE DEF z
  <2> QED
    BY <1>5, <1>6, <2>1, <2>4 DEF z
<1>7. CASE ~ReplacedByRepetition(s, i)
  <2>1. "GAP" \in lost[N - 1].errors
    BY <1>3, <1>4, <1>7, HoleFound
  <2> QED
    BY <1>5, <1>7, <2>1
<1> QED
  BY <1>6, <1>7

-----------------------------------------------------------------------------
(* The files an execution leaves.                                          *)

(* A trajectory opens with the creation of its task.                       *)
LEMMA FirstRow ==
  ASSUME Trajectories, Traced, NEW t \in Tasks, events[t] # <<>>
  PROVE  events[t][1].type = "TASK_CREATED"
BY DEF Traced, Opened, Trajectories, Story, Created

(* A snapshot is of a trajectory that goes on from there.                  *)
Reads(point) ==
  LET rows == events[point.task]
  IN  /\ point.task \in Tasks /\ rows # <<>>
      /\ \A k \in DOMAIN point.window : \E i \in DOMAIN rows :
           point.window[k].seq = rows[i].seq /\ point.window[k].type = rows[i].type

(* The lines of the files fit together.                                    *)
Filed ==
  /\ NumberedLines(states)
  /\ \A s \in states : Reads(s.point)
  /\ \A d \in decisions : \E s \in states : s.id = d.state /\ s.point.task = d.task

LEMMA SnapshotReads ==
  ASSUME Safe, Recorded, NEW a \in Actors, At(a, "build")
  PROVE  Reads(SystemState(actor[a].task))
<1> DEFINE t == actor[a].task
           rows == events[t]
           point == SystemState(t)
<1>1. TypeOK /\ Coordinated /\ Trajectories
  BY DEF Safe, Recorded
<1>2. t \in Tasks /\ Created(t)
  BY <1>1, CreatedTask DEF At, InRequest
<1>3. rows \in Seq(EventRow) /\ task[t].seq \in Nat /\ Gapless(rows, task[t].seq)
  BY <1>1, <1>2, StoryOf DEF Story, Consistent, TaskRow
<1>4. rows # <<>>
  <2>1. StatusTold(rows, task[t])
    BY <1>1, <1>2 DEF Trajectories, Story, Created
  <2> QED
    BY <2>1 DEF StatusTold
<1>5. point.task = t /\ point.window = RecentEvents(rows)
  BY DEF SystemState
<1>6. ASSUME NEW k \in DOMAIN RecentEvents(rows)
      PROVE  \E i \in DOMAIN rows : /\ RecentEvents(rows)[k].seq = rows[i].seq
                                    /\ RecentEvents(rows)[k].type = rows[i].type
  <2> DEFINE q == task[t].seq
             n == IF q < RecentEventsLimit THEN q ELSE RecentEventsLimit
  <2>1. PICK shown \in [1 .. n -> Firsts(rows)] :
          RecentEvents(rows) = [j \in 1 .. n |->
                 [seq |-> rows[shown[j]].seq, type |-> rows[shown[j]].type,
                  attempt |-> rows[shown[j]].attempt]]
    BY <1>3, WindowShown
  <2> HIDE DEF n, rows
  <2>2. k \in 1 .. n
    BY <2>1
  <2>3. shown[k] \in DOMAIN rows
    BY <2>1, <2>2 DEF Firsts
  <2> QED
    BY <2>1, <2>2, <2>3
<1> HIDE DEF point
<1> QED
  BY <1>2, <1>4, <1>5, <1>6 DEF Reads, point

LEMMA FiledStep ==
  ASSUME Safe, Safe', Recorded, Filed, [RecordedNext]_recordedVars
  PROVE  Filed'
<1>1. TypeOK /\ [Next]_vars
  BY RecordMoves DEF Safe
<1>2. \A t \in Tasks : \A i \in DOMAIN events[t] :
        i \in DOMAIN events'[t] /\ events'[t][i] = events[t][i]
  BY <1>1, RowsStay
<1>3. ASSUME NEW point, Reads(point) PROVE Reads(point)'
  <2> DEFINE t == point.task
  <2>1. t \in Tasks /\ events[t] \in Seq(EventRow) /\ events'[t] \in Seq(EventRow) /\ events[t] # <<>>
    BY <1>3 DEF Reads, Safe, TypeOK, DatabaseType
  <2>2. events'[t] # <<>>
    <3>1. 1 \in DOMAIN events[t]
      BY <2>1
    <3>2. 1 \in DOMAIN events'[t]
      BY <1>2, <2>1, <3>1
    <3> QED
      BY <2>1, <3>2
  <2>3. \A k \in DOMAIN point.window : \E i \in DOMAIN events'[t] :
           point.window[k].seq = events'[t][i].seq /\ point.window[k].type = events'[t][i].type
    BY <1>2, <1>3, <2>1 DEF Reads
  <2> QED
    BY <2>1, <2>2, <2>3 DEF Reads
<1>4. ASSUME NEW a \in Actors, At(a, "build"), RecordState(actor[a].task)
      PROVE  /\ NumberedLines(states') /\ states \subseteq states'
             /\ \A s \in states' : Reads(s.point)'
             /\ \E s \in states' : /\ s.id = Cardinality(states) + 1
                                   /\ s.point.task = actor[a].task
  <2> DEFINE x == [id |-> Cardinality(states) + 1, point |-> SystemState(actor[a].task)]
  <2>1. states' = states \cup {x}
    BY <1>4 DEF RecordState
  <2>2. x.id = Cardinality(states) + 1 /\ x.point = SystemState(actor[a].task)
        /\ x.point.task = actor[a].task
    BY DEF SystemState
  <2> HIDE DEF x
  <2>3. NumberedLines(states')
    BY <2>1, <2>2, LineAdded DEF Filed
  <2>4. \A s \in states' : Reads(s.point)
    BY <1>4, <2>1, <2>2, SnapshotReads DEF Filed
  <2> QED
    BY <1>3, <2>1, <2>2, <2>3, <2>4
<1>5. CASE \E a \in Actors : /\ TakeDecision(a) /\ RecordState(actor[a].task)
                             /\ RecordDecision(actor[a].task, actor'[a].decision)
  <2>1. PICK a \in Actors : /\ TakeDecision(a) /\ RecordState(actor[a].task)
                            /\ RecordDecision(actor[a].task, actor'[a].decision)
    BY <1>5
  <2>2. At(a, "build")
    BY <1>1, <2>1, Taken
  <2>3. /\ NumberedLines(states') /\ states \subseteq states'
        /\ \A s \in states' : Reads(s.point)'
        /\ \E s \in states' : s.id = Cardinality(states) + 1 /\ s.point.task = actor[a].task
    BY <1>4, <2>1, <2>2
  <2>4. \A d \in decisions' :
          d \in decisions \/ (d.state = Cardinality(states) + 1 /\ d.task = actor[a].task)
    BY <2>1 DEF RecordDecision
  <2>5. \A d \in decisions' : \E s \in states' : s.id = d.state /\ s.point.task = d.task
    BY <2>3, <2>4 DEF Filed
  <2> QED
    BY <2>3, <2>5 DEF Filed, NumberedLines
<1>6. CASE decisions' = decisions /\ states' = states
  <2>1. \A s \in states' : Reads(s.point)'
    BY <1>3, <1>6 DEF Filed
  <2> QED
    BY <1>6, <2>1 DEF Filed, NumberedLines
<1>7. CASE decisions' = decisions /\ \E a \in Actors : At(a, "build") /\ RecordState(actor[a].task)
  <2>1. /\ NumberedLines(states') /\ states \subseteq states'
        /\ \A s \in states' : Reads(s.point)'
    BY <1>4, <1>7
  <2>2. \A d \in decisions' : \E s \in states' : s.id = d.state /\ s.point.task = d.task
    BY <1>7, <2>1 DEF Filed
  <2> QED
    BY <2>1, <2>2 DEF Filed, NumberedLines
<1> QED
  BY <1>1, <1>5, <1>6, <1>7, RecordMoves

LEMMA AlwaysFiled == RecordedSpec => []Filed
<1>1. RecordedInit => Filed
  BY FS_EmptySet DEF RecordedInit, Filed, NumberedLines
<1>2. Safe /\ Safe' /\ Recorded /\ Filed /\ [RecordedNext]_recordedVars => Filed'
  BY FiledStep
<1> QED
  BY <1>1, <1>2, RecordedIsSpec, AlwaysSafe, AlwaysRecorded, PTL DEF RecordedSpec

(* Nothing is wrong in the files.                                          *)
LEMMA FilesAccepted ==
  ASSUME TypeOK, Trajectories, Traced, Filed, NumberedLines(decisions)
  PROVE  TraceabilityErrors = {}
<1>1. \A t \in Tasks : CheckTrajectory(events[t]) = {}
  <2> SUFFICES ASSUME NEW t \in Tasks PROVE CheckTrajectory(events[t]) = {}
    OBVIOUS
  <2>1. events[t] \in Seq(EventRow) /\ task[t].seq \in Nat /\ Gapless(events[t], task[t].seq)
    BY StoryOf DEF Story, Consistent, TaskRow
  <2>2. events[t] # <<>> => events[t][1].type = "TASK_CREATED"
    BY FirstRow
  <2> QED
    BY <2>1, <2>2, TrajectoryAccepted
<1>2. CheckStates = {}
  <2>1. ASSUME NEW s \in states
        PROVE  LET rows     == events[s.point.task]
                   window   == s.point.window
                   recorded == {<<rows[i].seq, rows[i].type>> : i \in DOMAIN rows}
               IN  /\ rows # <<>>
                   /\ \A k \in DOMAIN window : <<window[k].seq, window[k].type>> \in recorded
                   /\ \A z \in states : z.id = s.id => z = s
    BY DEF Filed, Reads, NumberedLines
  <2> QED
    BY <2>1 DEF CheckStates
<1>3. CheckDecisions = {}
  BY DEF CheckDecisions, Filed, NumberedLines
<1> QED
  BY <1>1, <1>2, <1>3 DEF TraceabilityErrors

(* RNF-008, the check: it finds nothing wrong in the files an execution    *)
(* leaves, of any number of tasks and whatever was repeated, lost or       *)
(* interrupted while they were written, and it finds any one event that is *)
(* missing from the trajectory of a task that ended, unless a repetition   *)
(* of it stands in its place.                                              *)
THEOREM TraceabilityAlwaysDecides == RecordedSpec => []TraceabilityDecides
<1>1. TypeOK /\ Trajectories /\ Traced /\ Filed /\ Matched => TraceabilityDecides
  <2> SUFFICES ASSUME TypeOK, Trajectories, Traced, Filed, Matched
               PROVE  TraceabilityDecides
    OBVIOUS
  <2>1. TraceabilityErrors = {}
    BY FilesAccepted DEF Matched
  <2>2. ASSUME NEW t \in Tasks, NEW i \in DistinctRows(events[t]), NEW k \in DistinctRows(events[t]),
               k > i
        PROVE  CheckTrajectory(Without(events[t], i)) = {} <=> ReplacedByRepetition(events[t], i)
    <3>1. events[t] \in Seq(EventRow) /\ task[t].seq \in Nat /\ Gapless(events[t], task[t].seq)
      BY StoryOf DEF Story, Consistent, TaskRow
    <3>2. i \in Firsts(events[t]) /\ k \in Firsts(events[t])
      BY <3>1, DistinctAreFirsts
    <3>3. events[t] # <<>>
      BY <3>1, <3>2 DEF Firsts
    <3>4. events[t][1].type = "TASK_CREATED"
      BY <3>3, FirstRow
    <3> QED
      BY <2>2, <3>1, <3>2, <3>4, HoleDecided
  <2> QED
    BY <2>1, <2>2 DEF TraceabilityDecides
<1>2. Safe => TypeOK
  BY DEF Safe
<1>3. Recorded => Trajectories
  BY DEF Recorded
<1> QED
  BY <1>1, <1>2, <1>3, RecordedIsSpec, AlwaysSafe, AlwaysRecorded, AlwaysTraced, AlwaysMatched,
     AlwaysFiled, PTL
=============================================================================
