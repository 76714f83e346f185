------------------------------- MODULE MCSystem -------------------------------
(***************************************************************************)
(* Instances of the two services together for TLC.                         *)
(***************************************************************************)
EXTENDS SystemProperties

CONSTANTS t1

OneTask == {t1}

Request(seq, attempt, target) ==
  [task |-> t1, seq |-> seq, attempt |-> attempt, target |-> target]

(* Requests a task can make with one attempt on each route and one wait.   *)
OneAttempt == {Request(seq, 1, Primary) : seq \in {2, 4}} \cup
              {Request(seq, 1, Fallback) : seq \in 3 .. 8}
=============================================================================
