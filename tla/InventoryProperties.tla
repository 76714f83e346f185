-------------------------- MODULE InventoryProperties --------------------------
(***************************************************************************)
(* What the inventory-service must guarantee whatever dies, raises, comes  *)
(* again or is injected between two steps of its two workers.              *)
(***************************************************************************)
EXTENDS Inventory

Rows == [task: AskedTasks, route: Routes, by: Requests]

Working(w) ==
  /\ worker[w] \in [pc: {"process", "publish", "ack"}, request: Requests,
                    injected: BOOLEAN, reply: Answers \cup {NoAnswer}]
  /\ Request(w).target = w
  /\ ~At(w, "process") => worker[w].reply \in Stored(Request(w))

(* Every variable holds what the tables, the queues and the processes can  *)
(* hold; a worker that has left its transaction holds the stored answer of *)
(* the request it is at.                                                   *)
InventoryTypeOK ==
  /\ asked \subseteq Requests /\ deadLetters \subseteq Requests
  /\ queued \in [Requests -> Nat]
  /\ DOMAIN worker = Routes
  /\ \A w \in Routes : worker[w] = Idle \/ Working(w)
  /\ process \in [Routes -> {"up", "stopping", "down"}]
  /\ reservations \subseteq Rows
  /\ processed \subseteq Answers /\ published \subseteq Answers
  /\ issued \in Nat
  /\ fault \subseteq Draws /\ outage \in BOOLEAN
  /\ crashes \in 0 .. MaxCrashes /\ failures \in 0 .. MaxFailures
  /\ duplicates \in 0 .. MaxDuplicates /\ windows \in 0 .. MaxWindows

(* A request has one answer with one message_id, the stored one: a         *)
(* redelivery, a message sent twice or a fault window that opens or closes *)
(* in between never produces another, so the orders-service recognises     *)
(* every repetition (service.py, lines 9 to 11).                           *)
AnsweredOnce ==
  /\ published \subseteq processed
  /\ \A a, b \in processed : a.request = b.request \/ a.id = b.id => a = b

(* "O Orders nunca recebe sucesso de uma reserva não persistida"           *)
(* (service.py, lines 5 and 6): a stored success names the route on which  *)
(* its task is reserved, and there is no reservation whose request was not *)
(* answered with its success.                                              *)
SuccessMeansReserved ==
  /\ \A a \in processed : a.result = "ok" =>
       \E row \in reservations : row.task = a.request.task /\ row.route = a.route
  /\ \A row \in reservations :
       \E a \in Stored(row.by) : a.result = "ok" /\ a.route = row.route

(* No request disappears: it waits in its queue, a worker has it, its      *)
(* answer has left, or it is a dead letter.                                *)
NoRequestLost ==
  \A r \in asked :
    \/ queued[r] > 0
    \/ \E w \in Routes : Request(w) = r
    \/ \E a \in published : a.request = r
    \/ r \in deadLetters

-----------------------------------------------------------------------------
(* The promise.                                                            *)

None == "none"

RouteOf(t) ==
  IF Reserved(t) = {} THEN None ELSE (CHOOSE row \in Reserved(t) : TRUE).route

AnswersTo(r) == {[result |-> a.result, route |-> a.route] : a \in {b \in published : b.request = r}}

Promise ==
  INSTANCE ReserveOnce WITH
    reserved <- [t \in AskedTasks |-> RouteOf(t)],
    answered <- [r \in Requests |->
                   IF AnswersTo(r) = {} THEN [result |-> None] ELSE CHOOSE a \in AnswersTo(r) : TRUE]

(* Two workers, redeliveries and faults together keep the promise: a task  *)
(* is reserved once and for good, and each request gets one answer that    *)
(* agrees with that reservation.                                           *)
ImplementsReserveOnce == Promise!Spec

-----------------------------------------------------------------------------
(* Progress.                                                               *)

(* The container ended and the laboratory did not stop it: nothing starts  *)
(* it again (docker-compose.yml has no restart policy).                    *)
Gone == ContainerDown /\ ~outage

Settled(r) == r \in deadLetters \/ \E a \in published : a.request = r

(* Every request is answered or becomes a dead letter, through outages and *)
(* killed children: there is always a later moment at which no request is  *)
(* open, unless the container is gone.                                     *)
EveryRequestSettled == []<>(Gone \/ \A r \in asked : Settled(r))

(* "O serviço nunca fica meio de pé" (run_workers.py, lines 10 to 12):     *)
(* when one worker has ended the other ends too.                           *)
NeverHalfUp ==
  (\E w \in Routes : process[w] = "down") ~> ContainerDown

-----------------------------------------------------------------------------
(* What a test says and the code does not do.                              *)

(* test_reply_lost_after_commit_is_recovered_by_redelivery: an answer that *)
(* was stored and whose publication raised leaves in the end.              *)
StoredAnswerLeaves ==
  \A r \in Requests : Stored(r) # {} ~> \E a \in published : a.request = r
=============================================================================
