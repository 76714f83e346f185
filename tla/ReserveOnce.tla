----------------------------- MODULE ReserveOnce -----------------------------
(***************************************************************************)
(* What the inventory-service promises to whoever sends it requests: a     *)
(* task is reserved once, on one route, and stays reserved; a request has  *)
(* one answer, however many times it is delivered; a success names the     *)
(* route of the reservation its task already has.                          *)
(***************************************************************************)
CONSTANTS Requests, Unknown, Primary, None

VARIABLES reserved,   \* the route a task is reserved on
          answered    \* the answer each request got

AskedTasks == {r.task : r \in Requests}

NoAnswer == [result |-> None]

Init ==
  /\ reserved = [t \in AskedTasks |-> None]
  /\ answered = [r \in Requests |-> NoAnswer]

(* reserve_primary, reserve_fallback: the route asked for. *)
Reserve(r) ==
  /\ reserved[r.task] = None /\ r.task \notin Unknown
  /\ reserved' = [reserved EXCEPT ![r.task] = r.target]
  /\ UNCHANGED answered

(* An injected fault only strikes the primary route. *)
Answer(r) ==
  /\ answered[r] = NoAnswer
  /\ \E result \in {"ok", "transient_error", "invalid_data"}, route \in {r.target, reserved[r.task]} :
       /\ result = "ok" => route = reserved[r.task] /\ route # None
       /\ result # "ok" => route = r.target
       /\ result = "transient_error" => r.target = Primary
       /\ result = "invalid_data" => r.task \in Unknown
       /\ answered' = [answered EXCEPT ![r] = [result |-> result, route |-> route]]
  /\ UNCHANGED reserved

Next == \E r \in Requests : Reserve(r) \/ Answer(r)

Spec == Init /\ [][Next]_<<reserved, answered>>
=============================================================================
