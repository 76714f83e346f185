----------------------------- MODULE StateBuilder -----------------------------
(***************************************************************************)
(* What the state builder reads of the trajectory: the window of recent    *)
(* events, the latency of the inventory and the redelivery flag, which     *)
(* only the language model is shown.  The fields the policy and the        *)
(* validator read are in Snapshot.                                         *)
(***************************************************************************)
EXTENDS OrdersCoordination, SequencesExt

CONSTANTS RecentEventsLimit   \* context.recent_events_limit

ASSUME WindowAssumption == RecentEventsLimit \in Nat \ {0}

(* The message_id of a row.  An internal event has none.                   *)
NoId == <<>>
MessageId(e) ==
  IF e.type \in Reported THEN <<e.type, e.ref>>
  ELSE IF e.type = "REQUESTED" THEN <<e.type, e.seq>> ELSE NoId

(* Defect: a repetition is told by its flag and not by its message_id.     *)
FlaggedRows(rows) == {i \in DOMAIN rows : ~rows[i].redelivered}

(* Rows no earlier row has the message_id of.                              *)
DistinctRows(rows) ==
  {i \in DOMAIN rows :
     MessageId(rows[i]) # NoId =>
       \A j \in DOMAIN rows : MessageId(rows[j]) = MessageId(rows[i]) => i <= j}

(* ORDER BY seq; the window is read backwards and reversed.                *)
Ascending(places) ==
  CHOOSE s \in [1 .. Cardinality(places) -> places] :
    \A i, j \in 1 .. Cardinality(places) : i < j => s[i] < s[j]

(* trajectory.recent_events: the last K distinct rows, in order.           *)
RecentEvents(rows) ==
  LET distinct == DistinctRows(rows)
      latest   == {i \in distinct :
                     Cardinality({j \in distinct : j >= i}) <= RecentEventsLimit}
      inOrder  == Ascending(latest)
  IN  [k \in DOMAIN inOrder |->
         [seq |-> rows[inOrder[k]].seq, type |-> rows[inOrder[k]].type,
          attempt |-> rows[inOrder[k]].attempt]]

(* _latency_ms: from the last request to the first row of the inventory    *)
(* after it that is not flagged redelivered, or to now.                    *)
Latency(t) ==
  IF \A i \in DOMAIN events[t] : ~IsRequest(events[t][i]) THEN None
  ELSE IF \E i, j \in DOMAIN events[t] :
            /\ IsLatestRequest(t, i) /\ i < j
            /\ events[t][j].type \in Reported /\ ~events[t][j].redelivered
       THEN "to the reply" ELSE "to now"

LastEventRedelivered(rows) == rows # <<>> /\ rows[Len(rows)].redelivered

(* StateBuilder.build, of the trajectory and the numbering.                *)
SystemState(t) ==
  [task |-> t, seq |-> task[t].seq, window |-> RecentEvents(events[t]),
   latency |-> Latency(t), redelivered |-> LastEventRedelivered(events[t])]

-----------------------------------------------------------------------------
(* What the snapshot must show.                                            *)

(* The row that opened the decision point actor a is at.                   *)
Cause(a) ==
  IF a \in Tasks THEN "TASK_CREATED"
  ELSE CASE actor[a].msg.kind = "FAILED"        -> "FAILED"
         [] actor[a].msg.kind = "timeout_check" -> "INVENTORY_TIMEOUT"
         [] actor[a].msg.kind = "reevaluate"    -> "WAIT_FINISHED"

(* An engine sees what it is asked about: the window of recent events      *)
(* (trajectory.recent_events) is an unbroken run of numbers that ends in   *)
(* the number of the snapshot and in the event that opened the point,      *)
(* whatever repetitions were recorded in between; the redelivery flag and  *)
(* the latency of the snapshot are about that event too.                   *)
PointSeesItsCause ==
  \A a \in Actors : At(a, "build") /\ ~Terminal(actor[a].task) =>
    LET t == actor[a].task
        s == SystemState(t)
        n == Len(s.window)
    IN  /\ n = IF s.seq < RecentEventsLimit THEN s.seq ELSE RecentEventsLimit
        /\ \A k \in 1 .. n : s.window[k].seq = s.seq - n + k
        /\ s.window[n].type = Cause(a)
        /\ s.redelivered <=> (a = Worker /\ actor[a].msg.redelivered)
        /\ s.latency = None <=> task[t].target = None
        /\ Cause(a) = "INVENTORY_TIMEOUT" => s.latency = "to now"
        /\ Cause(a) = "FAILED" /\ ~s.redelivered => s.latency = "to the reply"
=============================================================================
