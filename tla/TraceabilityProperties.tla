------------------------ MODULE TraceabilityProperties ------------------------
(***************************************************************************)
(* What the files of an execution must say, whatever was delivered twice,  *)
(* interrupted or dead-lettered while they were written.                   *)
(***************************************************************************)
EXTENDS Traceability, OrdersProperties

-----------------------------------------------------------------------------
(* The decisions.                                                          *)

(* The rows an executed decision leaves, one for each decision.            *)
EffectRows(t, action) ==
  CASE action = "CONTINUE" -> {i \in Rows(t, "REQUESTED") :
                                 events[t][i].attempt = 1 /\ events[t][i].target = Primary}
    [] action = "RETRY"    -> Rows(t, "RETRY_SCHEDULED")
    [] action = "WAIT"     -> Rows(t, "WAIT_SCHEDULED")
    [] action = "FALLBACK" -> Rows(t, "FALLBACK_SCHEDULED")
    [] action = "ABORT"    -> Rows(t, "TASK_ABORTED")

DecisionsFor(t, action) == {d \in DecisionsOf(t) : d.action = action}

Effects(t) == UNION {EffectRows(t, action) : action \in Actions}

(* RNF-008: nothing is executed that decisions.jsonl does not hold, though *)
(* no transaction binds the file to the database; and a recorded decision  *)
(* without its effect is still to be executed or was disturbed (a failure  *)
(* interrupts one decision, and its dead letter may overtake another).     *)
EveryEffectHasItsDecision ==
  \A t \in Tasks :
    /\ \A action \in Actions :
         Cardinality(EffectRows(t, action)) <= Cardinality(DecisionsFor(t, action))
    /\ Cardinality(DecisionsOf(t))
         <= Cardinality(Effects(t))
              + Cardinality({a \in Actors : At(a, "execute") /\ actor[a].task = t})
              + crashes + losses + 2 * failures

-----------------------------------------------------------------------------
(* The check of the files.                                                 *)

Without(rows, i) == [k \in 1 .. Len(rows) - 1 |-> IF k < i THEN rows[k] ELSE rows[k + 1]]

(* A row stands in for row i: it repeats it before anything new comes.     *)
ReplacedByRepetition(rows, i) ==
  \E j \in DOMAIN rows :
    /\ j > i /\ MessageId(rows[i]) # NoId /\ MessageId(rows[j]) = MessageId(rows[i])
    /\ \A k \in DistinctRows(rows) : k > i => k > j

(* check_traceability decides: whenever the files are collected with no    *)
(* handler at work it finds nothing wrong in them, and it finds the hole   *)
(* where any one event before the last is missing from the trajectory of a *)
(* task that ended.                                                        *)
TraceabilityDecides ==
  (\A a \in Actors : ~InRequest(a)) =>
    /\ TraceabilityErrors = {}
    /\ \A t \in Tasks : Terminal(t) =>
         \A i \in DistinctRows(events[t]) :
           (\E k \in DistinctRows(events[t]) : k > i)
             => (CheckTrajectory(Without(events[t], i)) = {}
                   <=> ReplacedByRepetition(events[t], i))

-----------------------------------------------------------------------------
(* The metrics.                                                            *)

(* The analysis reads the outcome of a task from its trajectory alone, and *)
(* finds the status of its row and of its order also when repetitions,     *)
(* late answers and dead letters were recorded after the end; a task       *)
(* outside the blast radius (D-25) went straight to its success.           *)
MetricsTellOutcome ==
  /\ \A t \in Tasks :
       Outcome(t) = IF Created(t) /\ Terminal(t) THEN task[t].status ELSE None
  /\ FailedTasks = {t \in Tasks : order[t] \in {"PENDING", "FAILED"}}
  /\ \A t \in Tasks : Created(t) /\ t \notin Affected =>
       /\ Cardinality(Rows(t, "REQUESTED")) = 1
       /\ Rows(t, "WAIT_SCHEDULED") = {}
=============================================================================
