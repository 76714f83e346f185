------------------------------ MODULE Inventory ------------------------------
(***************************************************************************)
(* The inventory-service: one container with one Celery worker per route,  *)
(* the database the two workers share (inventory.db), and the faults the   *)
(* laboratory injects (fault_control.json, stopping the container).        *)
(*                                                                         *)
(* A worker takes a request, spends its simulated cost outside any         *)
(* transaction (before_reservation), runs one transaction, publishes the   *)
(* answer after the commit and acknowledges last.  Each of these is a step *)
(* and the worker may die, or raise, between any two of them.              *)
(***************************************************************************)
EXTENDS Naturals, FiniteSets

CONSTANTS Requests,       \* messages STOCK_RESERVATION_REQUESTED
          Unknown,        \* tasks with an item outside the catalog
          \* bounds of the environment
          MaxCrashes,     \* processes killed
          MaxFailures,    \* exceptions: the request is dead-lettered
          MaxDuplicates,  \* messages published a second time
          MaxWindows      \* fault windows of each kind

Primary  == "inventory.primary"
Fallback == "inventory.fallback"
Routes   == {Primary, Fallback}
AskedTasks == {r.task : r \in Requests}

(* seq is the event_seq of the request: its place among those of its task. *)
ASSUME RequestsAssumption ==
  /\ \A r \in Requests :
       /\ DOMAIN r = {"task", "seq", "attempt", "target"}
       /\ r.seq \in Nat /\ r.target \in Routes
  /\ MaxCrashes \in Nat /\ MaxFailures \in Nat
  /\ MaxDuplicates \in Nat /\ MaxWindows \in Nat

VARIABLES
  asked,         \* requests published so far
  queued,        \* deliveries of each request waiting in the queue of its route
  worker,        \* control state of the worker of each route
  process,       \* of each worker: "up", "stopping" after a SIGTERM, "down"
  reservations,  \* reservations rows
  processed,     \* processed_messages rows: the answer to each request
  issued,        \* messages built so far: the last of their message_ids
  published,     \* answers published to orders.events
  deadLetters,   \* requests in tasks.dlq
  fault,         \* the draws that fail; none without a fault_control.json
  outage,        \* the container was stopped by the laboratory
  crashes, failures, duplicates, windows

database == <<reservations, processed, issued>>
sent     == <<published, deadLetters>>
lab      == <<fault, outage, windows>>
vars     == <<asked, queued, worker, process, reservations, processed, issued, published,
              deadLetters, fault, outage, crashes, failures, duplicates, windows>>

(* sampled: the draw depends on nothing but the seed of the window, the    *)
(* task and the attempt.                                                   *)
Draw(r) == <<r.task, r.attempt>>
Draws   == {Draw(r) : r \in Requests}

Results == {"ok", "transient_error", "invalid_data"}

(* id: the message_id of the answer, by which the orders-service           *)
(* recognises a repetition.                                                *)
Answers == [id: Nat, request: Requests, result: Results, route: Routes]

NoRequest == [task |-> "none"]
NoAnswer  == [id |-> 0]
Idle == [pc |-> "idle", request |-> NoRequest, injected |-> FALSE, reply |-> NoAnswer]

Init ==
  /\ asked        = {}
  /\ queued       = [r \in Requests |-> 0]
  /\ worker       = [w \in Routes |-> Idle]
  /\ process      = [w \in Routes |-> "up"]
  /\ reservations = {}
  /\ processed    = {}
  /\ issued       = 0
  /\ published    = {}
  /\ deadLetters  = {}
  /\ fault        = {}
  /\ outage       = FALSE
  /\ crashes = 0 /\ failures = 0 /\ duplicates = 0 /\ windows = 0

-----------------------------------------------------------------------------
(* The orders-service.                                                     *)

Queue(r) == queued' = [queued EXCEPT ![r] = @ + 1]

Ask(r) ==
  /\ r \notin asked
  /\ \A q \in asked : q.task = r.task => q.seq < r.seq
  /\ asked' = asked \cup {r}
  /\ Queue(r)
  /\ UNCHANGED <<worker, process, database, sent, lab, crashes, failures, duplicates>>

(* The same message again, as duplicate_message_test sends it.             *)
AskAgain(r) ==
  /\ duplicates < MaxDuplicates /\ r \in asked
  /\ duplicates' = duplicates + 1
  /\ Queue(r)
  /\ UNCHANGED <<asked, worker, process, database, sent, lab, crashes, failures>>

-----------------------------------------------------------------------------
(* A worker.                                                               *)

At(w, pc)  == worker[w].pc = pc
Request(w) == worker[w].request

(* before_reservation with an intermittent error.  A fault of type timeout *)
(* delays the request and leaves no other trace.                           *)
Injected(r) == r.target = Primary /\ Draw(r) \in fault

Take(w) ==
  /\ process[w] = "up" /\ At(w, "idle")
  /\ \E r \in Requests :
       /\ r.target = w /\ queued[r] > 0
       /\ queued' = [queued EXCEPT ![r] = @ - 1]
       /\ worker' = [worker EXCEPT ![w] =
            [pc |-> "process", request |-> r, injected |-> Injected(r), reply |-> NoAnswer]]
  /\ UNCHANGED <<asked, process, database, sent, lab, crashes, failures, duplicates>>

Reply(w, answer) == worker' = [worker EXCEPT ![w].pc = "publish", ![w].reply = answer]

(* Defect: only a success is worth keeping. *)
StoreSuccess(w, result, route) ==
  LET answer == [id |-> issued + 1, request |-> Request(w), result |-> result, route |-> route]
  IN  /\ processed' = IF result = "ok" THEN processed \cup {answer} ELSE processed
      /\ issued' = issued + 1
      /\ Reply(w, answer)

(* insert_processed_message, in the transaction that decides the answer. *)
Store(w, result, route) ==
  LET answer == [id |-> issued + 1, request |-> Request(w), result |-> result, route |-> route]
  IN  /\ processed' = processed \cup {answer}
      /\ issued' = issued + 1
      /\ Reply(w, answer)

Stored(r)   == {a \in processed : a.request = r}
Reserved(t) == {row \in reservations : row.task = t}

(* find_processed_message: the transaction answers what it stored before.  *)
Repeat(w) ==
  /\ At(w, "process")
  /\ \E answer \in Stored(Request(w)) : Reply(w, answer)
  /\ UNCHANGED database

(* Defect: an injected failure is answered before the message is looked up.*)
FirstTimeOrInjected(w) ==
  At(w, "process") /\ (worker[w].injected \/ Stored(Request(w)) = {})

FirstTime(w) == At(w, "process") /\ Stored(Request(w)) = {}

(* Defect: nothing is looked up before the reservation. *)
ReserveAgain(w) ==
  LET r == Request(w)
  IN  /\ FirstTime(w) /\ ~worker[w].injected
      /\ r.task \notin Unknown
      /\ reservations' = reservations \cup {[task |-> r.task, route |-> r.target, by |-> r]}
      /\ Store(w, "ok", r.target)

Reserve(w) ==
  LET r == Request(w)
  IN  /\ FirstTime(w) /\ ~worker[w].injected
      /\ Reserved(r.task) = {} /\ r.task \notin Unknown
      /\ reservations' = reservations \cup {[task |-> r.task, route |-> r.target, by |-> r]}
      /\ Store(w, "ok", r.target)

(* Defect: the answer names the route it was asked on. *)
AnswerOwnRoute(w) ==
  /\ FirstTime(w) /\ ~worker[w].injected
  /\ \E row \in Reserved(Request(w).task) : Store(w, "ok", w)
  /\ UNCHANGED reservations

(* find_reservation: the answer names the route that reserved. *)
AnswerReserved(w) ==
  /\ FirstTime(w) /\ ~worker[w].injected
  /\ \E row \in Reserved(Request(w).task) : Store(w, "ok", row.route)
  /\ UNCHANGED reservations

(* unknown_skus *)
RefuseData(w) ==
  LET r == Request(w)
  IN  /\ FirstTime(w) /\ ~worker[w].injected
      /\ Reserved(r.task) = {} /\ r.task \in Unknown
      /\ Store(w, "invalid_data", r.target)
      /\ UNCHANGED reservations

FailInjected(w) ==
  /\ FirstTime(w) /\ worker[w].injected
  /\ Store(w, "transient_error", w)
  /\ UNCHANGED reservations

Process(w) ==
  /\ Repeat(w) \/ Reserve(w) \/ AnswerReserved(w) \/ RefuseData(w) \/ FailInjected(w)
  /\ UNCHANGED <<asked, queued, process, sent, lab, crashes, failures, duplicates>>

Publish(w) ==
  /\ At(w, "publish")
  /\ published' = published \cup {worker[w].reply}
  /\ worker' = [worker EXCEPT ![w].pc = "ack"]
  /\ UNCHANGED <<asked, queued, process, database, deadLetters, lab, crashes, failures,
                 duplicates>>

Ack(w) ==
  /\ At(w, "ack")
  /\ worker' = [worker EXCEPT ![w] = Idle]
  /\ UNCHANGED <<asked, queued, process, database, sent, lab, crashes, failures, duplicates>>

(* Defect: what raises is acknowledged and forgotten                       *)
(* (task_acks_on_failure_or_timeout left at its default).                  *)
RaisesDiscarded(w) ==
  /\ failures < MaxFailures /\ ~At(w, "idle")
  /\ failures' = failures + 1
  /\ worker' = [worker EXCEPT ![w] = Idle]
  /\ UNCHANGED <<asked, queued, process, database, sent, lab, crashes, duplicates>>

(* An exception: before the commit it undoes the transaction, after it the *)
(* answer is stored and may not have left.  The request is rejected and    *)
(* not requeued.                                                           *)
Raises(w) ==
  /\ failures < MaxFailures /\ ~At(w, "idle")
  /\ failures' = failures + 1
  /\ deadLetters' = deadLetters \cup {Request(w)}
  /\ worker' = [worker EXCEPT ![w] = Idle]
  /\ UNCHANGED <<asked, queued, process, database, published, lab, crashes, duplicates>>

-----------------------------------------------------------------------------
(* The container.                                                          *)

(* Defect: the request is acknowledged when taken (task_acks_late). *)
InterruptAcked(w) ==
  /\ worker' = [worker EXCEPT ![w] = Idle]
  /\ UNCHANGED queued

(* What was not acknowledged is delivered again. *)
Interrupt(w) ==
  /\ worker' = [worker EXCEPT ![w] = Idle]
  /\ queued' = IF At(w, "idle") THEN queued ELSE [queued EXCEPT ![Request(w)] = @ + 1]

Crashes == crashes < MaxCrashes /\ crashes' = crashes + 1

(* The child of a worker is killed and its parent starts another. *)
ChildLost(w) ==
  /\ Crashes /\ ~At(w, "idle")
  /\ Interrupt(w)
  /\ UNCHANGED <<asked, process, database, sent, lab, failures, duplicates>>

(* The worker itself ends. *)
Exit(w) ==
  /\ Crashes /\ process[w] # "down"
  /\ process' = [process EXCEPT ![w] = "down"]
  /\ Interrupt(w)
  /\ UNCHANGED <<asked, database, sent, lab, failures, duplicates>>

(* forward: SIGTERM to every worker that is still alive. *)
Terminate == process' = [w \in Routes |-> IF process[w] = "up" THEN "stopping" ELSE process[w]]

(* Defect: main waits for both workers before it ends. *)
MainWaitsForAll ==
  /\ \A w \in Routes : process[w] = "down"
  /\ UNCHANGED vars

(* run_workers.main: one worker ended, the other is told to. *)
MainSeesExit ==
  /\ \E w \in Routes : process[w] = "down"
  /\ \E w \in Routes : process[w] = "up"
  /\ Terminate
  /\ UNCHANGED <<asked, queued, worker, database, sent, lab, crashes, failures, duplicates>>

(* Warm shutdown: the worker ends with the request it is at. *)
Shutdown(w) ==
  /\ process[w] = "stopping" /\ At(w, "idle")
  /\ process' = [process EXCEPT ![w] = "down"]
  /\ UNCHANGED <<asked, queued, worker, database, sent, lab, crashes, failures, duplicates>>

ContainerDown == \A w \in Routes : process[w] = "down"

-----------------------------------------------------------------------------
(* The injectors of the laboratory.                                        *)

OpenWindow == windows < MaxWindows /\ windows' = windows + 1

(* PrimaryRouteFault *)
FaultStarts ==
  /\ OpenWindow /\ fault = {}
  /\ fault' \in SUBSET Draws
  /\ UNCHANGED <<asked, queued, worker, process, database, sent, outage, crashes, failures,
                 duplicates>>

FaultEnds ==
  /\ fault # {}
  /\ fault' = {}
  /\ UNCHANGED <<asked, queued, worker, process, database, sent, outage, windows, crashes,
                 failures, duplicates>>

(* InventoryOutage: docker compose stop, and start once it has stopped. *)
OutageStarts ==
  /\ OpenWindow /\ ~outage
  /\ outage' = TRUE
  /\ Terminate
  /\ UNCHANGED <<asked, queued, worker, database, sent, fault, crashes, failures, duplicates>>

OutageEnds ==
  /\ outage /\ ContainerDown
  /\ outage' = FALSE
  /\ process' = [w \in Routes |-> "up"]
  /\ UNCHANGED <<asked, queued, worker, database, sent, fault, windows, crashes, failures,
                 duplicates>>

-----------------------------------------------------------------------------
Work(w) == Take(w) \/ Process(w) \/ Publish(w) \/ Ack(w)

Next ==
  \/ \E r \in Requests : Ask(r) \/ AskAgain(r)
  \/ \E w \in Routes : Work(w) \/ Raises(w) \/ ChildLost(w) \/ Exit(w) \/ Shutdown(w)
  \/ MainSeesExit
  \/ FaultStarts \/ FaultEnds \/ OutageStarts \/ OutageEnds

Spec == Init /\ [][Next]_vars

(* Processes that are up keep running, the main process keeps polling, and *)
(* run_timeline always ends the outage it started.                         *)
Fairness ==
  /\ \A w \in Routes : WF_vars(Work(w)) /\ WF_vars(Shutdown(w))
  /\ WF_vars(MainSeesExit)
  /\ WF_vars(OutageEnds)

FairSpec == Spec /\ Fairness
=============================================================================
