------------------------------- MODULE Workload -------------------------------
(***************************************************************************)
(* The load of one execution: the generator sends the planned orders at    *)
(* their instants whatever happened to the earlier ones, the threads of    *)
(* the API create them in one SQLite database, the bench waits for them,   *)
(* collects the files and gives its verdict.  Time is an integer; the      *)
(* bench is punctual, the API and the tasks are not.  What a task goes     *)
(* through is in OrdersCoordination: here it ends.                         *)
(***************************************************************************)
EXTENDS Naturals, FiniteSets, Sequences

CONSTANTS Requests,          \* planned orders, in the order of the dataset
          Interval,          \* between two of them
          OverloadInterval,  \* in the window of an overload
          FaultTypes,        \* faults of the scenarios
          FaultStart, FaultDuration,
          Sampled,           \* orders the hash of the seed selects
          \* bounds of the environment
          Horizon,           \* last instant
          MaxErrors          \* requests, threads and processes that fail

Orders == 1 .. Requests

ASSUME WorkloadAssumption ==
  /\ Requests \in Nat \ {0}
  /\ Interval \in Nat \ {0} /\ OverloadInterval \in Nat \ {0}
  /\ FaultTypes \subseteq {"none", "overload", "inconsistent_data"}
  /\ FaultStart \in Nat /\ FaultDuration \in Nat \ {0}
  /\ Sampled \subseteq Orders
  /\ Horizon \in Nat /\ MaxErrors \in Nat

VARIABLES
  faultType, \* of the scenario
  now,
  client,    \* thread that sends each order, then its line of workload.jsonl
  api,       \* thread that serves it
  table,     \* rows of orders and tasks
  window,    \* instants of FAULT_STARTED and FAULT_ENDED
  phase,     \* of apply_scenario and finish
  tasks,     \* table as the files of the execution hold it
  errors

vars == <<faultType, now, client, api, table, window, phase, tasks, errors>>
bench == <<window, phase, tasks>>

-----------------------------------------------------------------------------
(* The plan.                                                               *)

InWindow(offset) ==
  /\ faultType # "none"
  /\ FaultStart <= offset /\ offset < FaultStart + FaultDuration

SendOffsets ==
  LET offset[i \in Orders] ==
        IF i = 1 THEN 0
        ELSE offset[i - 1] + IF faultType = "overload" /\ InWindow(offset[i - 1])
                             THEN OverloadInterval ELSE Interval
  IN  offset

(* The plan of an execution: the instant of each order, and whether its    *)
(* first item is replaced by one out of the catalogue.                     *)
BuildPlan ==
  LET offsets == SendOffsets
  IN  [i \in Orders |->
         [offset |-> offsets[i],
          replaced |-> faultType = "inconsistent_data" /\ InWindow(offsets[i]) /\ i \in Sampled]]

-----------------------------------------------------------------------------
NoLine == [status |-> "none", number |-> 0]

Init ==
  /\ faultType \in FaultTypes
  /\ now = 0
  /\ client = [i \in Orders |-> [pc |-> "planned", line |-> NoLine]]
  /\ api = [i \in Orders |-> [pc |-> "none", created |-> 0, number |-> 0]]
  /\ table = {} /\ tasks = {}
  /\ window = <<>> /\ phase = "load"
  /\ errors = 0

Fails == errors < MaxErrors /\ errors' = errors + 1

-----------------------------------------------------------------------------
(* The generator: open loop, one thread of the pool for each order.        *)

IsDue(i) == client[i].pc = "planned" /\ BuildPlan[i].offset <= now

Send(i) ==
  /\ IsDue(i) /\ \A j \in 1 .. i - 1 : client[j].pc # "planned"
  /\ client' = [client EXCEPT ![i].pc = "sent"]
  /\ UNCHANGED <<faultType, now, api, table, bench, errors>>

Writes(i, status, number) ==
  client' = [client EXCEPT ![i] = [pc |-> "done", line |-> [status |-> status, number |-> number]]]

ReadAnswer(i) ==
  /\ client[i].pc = "sent" /\ api[i].pc \in {"202", "500"}
  /\ Writes(i, api[i].pc, IF api[i].pc = "202" THEN api[i].number ELSE 0)
  /\ UNCHANGED <<faultType, now, api, table, bench, errors>>

(* An OSError: the connection is lost with the process, or is refused, or  *)
(* the client waited too long while the API goes on.                       *)
SendFails(i) ==
  /\ client[i].pc = "sent"
  /\ \/ api[i].pc = "gone" /\ UNCHANGED <<api, errors>>
     \/ api[i].pc = "none" /\ Fails /\ api' = [api EXCEPT ![i].pc = "gone"]
     \/ api[i].pc \notin {"gone", "202", "500"} /\ Fails /\ UNCHANGED api
  /\ Writes(i, "none", 0)
  /\ UNCHANGED <<faultType, now, table, bench>>

(* Any other exception, or a file that cannot be written, stays in the     *)
(* future nobody reads.                                                    *)
ThreadDies(i) ==
  /\ client[i].pc = "sent" /\ api[i].pc # "none"
  /\ Fails
  /\ client' = [client EXCEPT ![i].pc = "died"]
  /\ UNCHANGED <<faultType, now, api, table, bench>>

-----------------------------------------------------------------------------
(* The API: POST /orders in a thread of its pool.                          *)

(* The instant of creation is taken before the database is locked.         *)
Receive(i) ==
  /\ client[i].pc # "planned" /\ api[i].pc = "none"
  /\ api' = [api EXCEPT ![i] = [pc |-> "opening", created |-> now, number |-> 0]]
  /\ UNCHANGED <<faultType, now, client, table, bench, errors>>

Writing == \E j \in Orders : api[j].pc = "writing"

Numbers == {r.number : r \in table}

(* COALESCE(MAX(rowid), 0) + 1 *)
NextOrderNumber ==
  1 + CHOOSE n \in Numbers \cup {0} : \A m \in Numbers : m <= n

(* Defect: BEGIN without IMMEDIATE reads the maximum under no lock. *)
BeginDeferred(i) ==
  /\ api[i].pc = "opening"
  /\ api' = [api EXCEPT ![i].pc = "writing", ![i].number = NextOrderNumber]
  /\ UNCHANGED <<faultType, now, client, table, bench, errors>>

(* BEGIN IMMEDIATE *)
Begin(i) ==
  /\ api[i].pc = "opening" /\ ~Writing
  /\ api' = [api EXCEPT ![i].pc = "writing", ![i].number = NextOrderNumber]
  /\ UNCHANGED <<faultType, now, client, table, bench, errors>>

Commit(i) ==
  /\ api[i].pc = "writing"
  /\ table' = table \cup {[number |-> api[i].number, index |-> i, created |-> api[i].created,
                           status |-> "PENDING", finished |-> 0]}
  /\ api' = [api EXCEPT ![i].pc = "created"]
  /\ UNCHANGED <<faultType, now, client, bench, errors>>

(* The initial decision point; the task is in the hands of the workers.    *)
FirstDecision(i) ==
  /\ api[i].pc = "created"
  /\ api' = [api EXCEPT ![i].pc = "202"]
  /\ table' = {IF r.index = i THEN [r EXCEPT !.status = "LIVE"] ELSE r : r \in table}
  /\ UNCHANGED <<faultType, now, client, bench, errors>>

(* A database locked for too long, a transaction rolled back, or a         *)
(* decision point that raises after the order was created.                 *)
ApiRaises(i) ==
  /\ \/ api[i].pc = "opening" /\ Writing
     \/ api[i].pc \in {"writing", "created"}
  /\ Fails
  /\ api' = [api EXCEPT ![i].pc = "500"]
  /\ UNCHANGED <<faultType, now, client, table, bench>>

InRequest(i) == api[i].pc \in {"opening", "writing", "created"}

ApiDies ==
  /\ \E i \in Orders : InRequest(i)
  /\ Fails
  /\ api' = [i \in Orders |-> IF InRequest(i) THEN [api[i] EXCEPT !.pc = "gone"] ELSE api[i]]
  /\ UNCHANGED <<faultType, now, client, table, bench>>

(* A task ends; no item out of the catalogue is reserved (D-03).           *)
EndTask(r) ==
  /\ r.status = "LIVE"
  /\ \E status \in IF BuildPlan[r.index].replaced THEN {"ABORTED"} ELSE {"COMPLETED", "ABORTED"} :
       table' = (table \ {r}) \cup {[r EXCEPT !.status = status, !.finished = now]}
  /\ UNCHANGED <<faultType, now, client, api, bench, errors>>

-----------------------------------------------------------------------------
(* The bench.                                                              *)

(* run_timeline of a WorkloadWindow: the records of the window.            *)
StartIsDue == faultType # "none" /\ window = <<>> /\ now >= FaultStart
EndIsDue   == Len(window) = 1 /\ now >= FaultStart + FaultDuration

MarkWindow ==
  /\ StartIsDue \/ EndIsDue
  /\ window' = Append(window, now)
  /\ UNCHANGED <<faultType, now, client, api, table, phase, tasks, errors>>

(* Both joins of apply_scenario.                                           *)
LoadJoined ==
  /\ \A i \in Orders : client[i].pc \in {"done", "died"}
  /\ faultType = "none" \/ Len(window) = 2

IsTerminal(r) == r.status \in {"COMPLETED", "ABORTED"}
OrderIds == {client[i].line.number : i \in Orders} \ {0}
AllTerminal == \A r \in table : r.number \in OrderIds => IsTerminal(r)

(* The bench acts in the unit of time in which it can, and a transaction   *)
(* is shorter than it.                                                     *)
Tick ==
  /\ now < Horizon /\ ~StartIsDue /\ ~EndIsDue /\ ~Writing
  /\ \A i \in Orders :
       ~IsDue(i) /\ ~(client[i].pc = "sent" /\ api[i].pc \in {"202", "500", "gone"})
  /\ phase = "load" /\ ~(LoadJoined /\ AllTerminal)
  /\ now' = now + 1
  /\ UNCHANGED <<faultType, client, api, table, bench, errors>>

(* The orders the lines name are polled until they end or time runs out.   *)
Settle ==
  /\ phase = "load" /\ LoadJoined
  /\ phase' = IF AllTerminal THEN "settled" ELSE "unsettled"
  /\ AllTerminal \/ now = Horizon
  /\ UNCHANGED <<faultType, now, client, api, table, window, tasks, errors>>

(* collect *)
Collect ==
  /\ phase \in {"settled", "unsettled"}
  /\ phase' = IF phase = "settled" THEN "collected" ELSE "invalid"
  /\ tasks' = table
  /\ UNCHANGED <<faultType, now, client, api, table, window, errors>>

-----------------------------------------------------------------------------
Next ==
  \/ \E i \in Orders :
       \/ Send(i) \/ ReadAnswer(i) \/ SendFails(i) \/ ThreadDies(i)
       \/ Receive(i) \/ Begin(i) \/ Commit(i) \/ FirstDecision(i) \/ ApiRaises(i)
  \/ ApiDies
  \/ \E r \in table : EndTask(r)
  \/ MarkWindow \/ Tick \/ Settle \/ Collect

Spec == Init /\ [][Next]_vars

-----------------------------------------------------------------------------
(* The verdict of validate on the requests.                                *)

(* Defect: a request without a status is not counted. *)
HttpErrorsAnswered == Cardinality({i \in Orders : client[i].line.status = "500"})

HttpErrors ==
  Cardinality({i \in Orders : client[i].pc = "done" /\ client[i].line.status # "202"})

(* The orders FAULT_APPLIED names: their thread also wrote their line.     *)
Hit == {client[i].line.number : i \in {j \in Orders : BuildPlan[j].replaced}} \ {0}

Accepted == phase = "collected" /\ HttpErrors = 0
=============================================================================
