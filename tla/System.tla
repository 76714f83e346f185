-------------------------------- MODULE System --------------------------------
(***************************************************************************)
(* The two services together.  In place of the outcome OrdersCoordination  *)
(* lets the environment choose, a request goes through the queue of its    *)
(* route to the workers of Inventory, and the answer they stored comes     *)
(* back to orders.events.  The services share nothing but their queues:    *)
(* each has its database, and none sees what the other has committed.      *)
(***************************************************************************)
EXTENDS OrdersProperties

CONSTANTS PossibleRequests,  \* requests a task can make
          Unknown,           \* tasks with an item outside the catalog
          \* bounds of the environment of the inventory-service
          MaxStockCrashes, MaxStockFailures, MaxWindows,
          MaxDisturbances    \* of every kind in both services, losses apart

(* MaxFailures bounds the exceptions of both services, MaxStockFailures    *)
(* those of the inventory-service; every child it loses may repeat one     *)
(* answer.                                                                 *)
ASSUME SystemAssumption ==
  /\ PossibleRequests \subseteq
       [task: Tasks, seq: Nat, attempt: Nat, target: {Primary, Fallback}]
  /\ MaxStockCrashes \in Nat /\ MaxStockFailures \in Nat /\ MaxWindows \in Nat
  /\ MaxStockCrashes <= MaxReemissions

VARIABLES
  asked, queued, routeWorker, process, reservations, answers, issued, published,
  rejected, fault, outage, windows, stockCrashes, stockFailures

stockVars == <<asked, queued, routeWorker, process, reservations, answers, issued, published,
               rejected, fault, outage, windows, stockCrashes, stockFailures>>

Stock ==
  INSTANCE Inventory WITH
    Requests <- PossibleRequests,
    MaxCrashes <- MaxStockCrashes, MaxFailures <- MaxStockFailures, MaxDuplicates <- 0,
    worker <- routeWorker, processed <- answers, deadLetters <- rejected,
    crashes <- stockCrashes, failures <- stockFailures, duplicates <- 0

systemVars == <<vars, stockVars>>

SystemInit == Init /\ Stock!Init

-----------------------------------------------------------------------------
(* The queues between the services.                                        *)

(* A message of orders as the inventory-service reads it, and back.        *)
AsRequest(m) == [task |-> m.task, seq |-> m.ref, attempt |-> m.attempt, target |-> m.target]

AsMessage(r) ==
  [kind |-> "REQUESTED", task |-> r.task, ref |-> r.seq, attempt |-> r.attempt,
   target |-> r.target, reason |-> None, redelivered |-> FALSE]

(* _succeeded_event, _failed_event: the answer carries the event_seq, the  *)
(* attempt and the target of its request.                                  *)
AsReply(answer) == Answer(AsMessage(answer.request), answer.result)

Sent == {AsRequest(m) : m \in requests' \ requests}

(* Whatever the orders-service publishes on a route is queued there.       *)
Enqueue ==
  /\ asked' = asked \cup Sent
  /\ queued' = [r \in PossibleRequests |-> queued[r] + IF r \in Sent THEN 1 ELSE 0]
  /\ UNCHANGED <<routeWorker, process, reservations, answers, issued, published, rejected,
                 fault, outage, windows, stockCrashes, stockFailures>>

OrdersStep ==
  /\ \/ \E t \in Tasks : CreateOrder(t) \/ Act(t) \/ DeadlinePasses(t) \/ ApiRaises(t)
     \/ WorkerStep
     \/ \E m \in deadLetters :
          HandleDeadLetter(m) \/ HandleDeadLetterUnacknowledged(m) \/ DeadLetterLost(m)
     \/ \E m \in inbox : HandlerRaises(m)
     \/ WorkerRaises \/ WorkerCrash \/ ApiCrash
  /\ Enqueue

(* An answer published again is one more delivery of the same message.     *)
PublishReply(w) ==
  LET reply == AsReply(routeWorker[w].reply)
  IN  /\ Stock!Publish(w)
      /\ inbox' = inbox \cup {reply}
      /\ replies' = replies \cup {reply}
      /\ requests' = requests \ {AsMessage(routeWorker[w].request)}
      /\ reemissions' = IF reply \in replies \ inbox THEN reemissions + 1 ELSE reemissions
      /\ UNCHANGED <<database, actor, deadLetters, expired, crashes, failures, losses>>

(* Defect: what the inventory-service rejects is bound to no queue.        *)
RejectRequestUnbound(w) ==
  /\ Stock!Raises(w)
  /\ failures < MaxFailures /\ failures' = failures + 1
  /\ requests' = requests \ {AsMessage(routeWorker[w].request)}
  /\ UNCHANGED <<database, actor, inbox, replies, deadLetters, expired, crashes, losses,
                 reemissions>>

(* A request the inventory-service rejects reaches tasks.dlq, which the    *)
(* orders-service consumes.                                                *)
RejectRequest(w) ==
  LET request == AsMessage(routeWorker[w].request)
  IN  /\ Stock!Raises(w)
      /\ failures < MaxFailures /\ failures' = failures + 1
      /\ deadLetters' = deadLetters \cup {request}
      /\ requests' = requests \ {request}
      /\ UNCHANGED <<database, actor, inbox, replies, expired, crashes, losses, reemissions>>

StockStep ==
  \/ \E w \in Stock!Routes : PublishReply(w) \/ RejectRequest(w)
  \/ /\ \/ \E w \in Stock!Routes :
             \/ Stock!Take(w) \/ Stock!Process(w) \/ Stock!Ack(w)
             \/ Stock!ChildLost(w) \/ Stock!Exit(w) \/ Stock!Shutdown(w)
        \/ Stock!MainSeesExit
        \/ Stock!FaultStarts \/ Stock!FaultEnds \/ Stock!OutageStarts \/ Stock!OutageEnds
     /\ UNCHANGED vars

Disturbances == crashes + failures + stockCrashes + windows

SystemNext == (OrdersStep \/ StockStep) /\ Disturbances' <= MaxDisturbances

SystemSpec == SystemInit /\ [][SystemNext]_systemVars

FairSystem == SystemSpec /\ Fairness /\ Stock!Fairness
=============================================================================
