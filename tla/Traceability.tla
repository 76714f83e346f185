----------------------------- MODULE Traceability -----------------------------
(***************************************************************************)
(* What an execution leaves to be read afterwards: the snapshot each       *)
(* decision point was taken on (states.jsonl), the decision itself         *)
(* (decisions.jsonl), the trajectory exported from task_events, the check  *)
(* that accepts or refuses these files, and the metrics computed from      *)
(* them.                                                                   *)
(*                                                                         *)
(* The two files are written at the decision points of OrdersCoordination, *)
(* outside any transaction: RecordedNext is its next-state relation with   *)
(* what each step appends.                                                 *)
(***************************************************************************)
EXTENDS StateBuilder

CONSTANTS MaxDisturbances   \* bound: crashes, failures, losses and repetitions together

VARIABLES
  states,      \* lines of states.jsonl
  decisions    \* lines of decisions.jsonl

files        == <<states, decisions>>
recordedVars == <<vars, files>>

-----------------------------------------------------------------------------
(* Orchestrator.handle_decision_point: the lines it appends.               *)

(* The ids are random; they stand for the order of the lines.              *)
RecordState(t) ==
  states' = states \cup {[id |-> Cardinality(states) + 1, point |-> SystemState(t)]}

RecordDecision(t, executed) ==
  decisions' = decisions \cup
    {[id |-> Cardinality(decisions) + 1, state |-> Cardinality(states) + 1, task |-> t,
      action |-> executed.action]}

Decides(a)    == At(a, "build") /\ At(a, "execute")'
Interrupts(a) == At(a, "build") /\ ~At(a, "build")' /\ ~At(a, "execute")'

(* Defect: a line that cannot be written does not stop the decision.       *)
RecordIfPossible ==
  \/ UNCHANGED files
  \/ \E a \in Actors :
       /\ Decides(a)
       /\ RecordState(actor[a].task)
       /\ RecordDecision(actor[a].task, actor'[a].decision)

(* The snapshot is recorded before the engine is asked, the decision       *)
(* before it is executed.  What is interrupted in between may leave the    *)
(* first without the second.                                               *)
Record ==
  \/ /\ \A a \in Actors : ~Decides(a)
     /\ UNCHANGED files
  \/ \E a \in Actors :
       /\ Decides(a)
       /\ RecordState(actor[a].task)
       /\ RecordDecision(actor[a].task, actor'[a].decision)
  \/ /\ \E a \in Actors : Interrupts(a) /\ RecordState(actor[a].task)
     /\ UNCHANGED decisions

RecordedInit == Init /\ states = {} /\ decisions = {}
RecordedNext ==
  /\ Next /\ Record
  /\ crashes' + failures' + losses' + reemissions' <= MaxDisturbances

RecordedSpec == RecordedInit /\ [][RecordedNext]_recordedVars

-----------------------------------------------------------------------------
(* check_traceability: the errors found in the files.                      *)

(* Defect: a repetition is expected to take the next number too.           *)
CheckRowNumbersRepeats(found, e) ==
  [found EXCEPT !.expected = e.seq + 1,
                !.errors = IF e.seq = found.expected THEN @ ELSE @ \cup {"GAP"}]

(* One row: a repetition has the number of its first occurrence, any other *)
(* row the next one.                                                       *)
CheckRow(found, e) ==
  LET id    == MessageId(e)
      first == {n \in found.first : n.id = id}
  IN  IF first # {}
      THEN IF \A n \in first : n.seq = e.seq THEN found
           ELSE [found EXCEPT !.errors = @ \cup {"RENUMBERED"}]
      ELSE [expected |-> e.seq + 1,
            first    |-> found.first \cup
                           IF id = NoId THEN {} ELSE {[id |-> id, seq |-> e.seq]},
            errors   |-> found.errors \cup IF e.seq = found.expected THEN {} ELSE {"GAP"}]

(* check_trajectories, of one task.                                        *)
CheckTrajectory(rows) ==
  IF rows = <<>> THEN {}
  ELSE FoldLeft(CheckRow, [expected |-> 1, first |-> {}, errors |-> {}], rows).errors
         \cup IF rows[1].type = "TASK_CREATED" THEN {} ELSE {"NOT_CREATED"}

(* check_states: the ids are unique, the task is known and its window is   *)
(* in its trajectory.                                                      *)
CheckStates ==
  UNION {LET rows     == events[s.point.task]
             window   == s.point.window
             recorded == {<<rows[i].seq, rows[i].type>> : i \in DOMAIN rows}
         IN  (IF rows = <<>> THEN {"UNKNOWN_TASK"} ELSE {})
             \cup (IF \A k \in DOMAIN window : <<window[k].seq, window[k].type>> \in recorded
                   THEN {} ELSE {"WINDOW"})
             \cup (IF \A z \in states : z.id = s.id => z = s THEN {} ELSE {"DUPLICATED"})
         : s \in states}

(* check_decisions: each decision points to a state of its task.           *)
CheckDecisions ==
  UNION {(IF \E s \in states : s.id = d.state /\ s.point.task = d.task THEN {} ELSE {"NO_STATE"})
         \cup (IF \A z \in decisions : z.id = d.id => z = d THEN {} ELSE {"DUPLICATED"})
         : d \in decisions}

(* check, on the trajectories exported by collect_artifacts.               *)
TraceabilityErrors ==
  UNION {CheckTrajectory(events[t]) : t \in Tasks} \cup CheckStates \cup CheckDecisions

-----------------------------------------------------------------------------
(* consolidate: what the analysis reads of a task.                         *)

TerminalEvent ==
  [TASK_COMPLETED |-> "COMPLETED", TASK_ABORTED |-> "ABORTED",
   MESSAGE_DEAD_LETTERED |-> "DEAD_LETTERED"]

TerminalRows(t) == {i \in DOMAIN events[t] : events[t][i].type \in DOMAIN TerminalEvent}

(* Defect: the last terminal event gives the status.                       *)
LastOutcome(t) ==
  IF TerminalRows(t) = {} THEN None
  ELSE TerminalEvent[events[t][CHOOSE i \in TerminalRows(t) :
                                 \A j \in TerminalRows(t) : j <= i].type]

(* task_outcomes: the first terminal event gives the status.               *)
Outcome(t) ==
  IF TerminalRows(t) = {} THEN None
  ELSE TerminalEvent[events[t][CHOOSE i \in TerminalRows(t) :
                                 \A j \in TerminalRows(t) : i <= j].type]

DecisionsOf(t) == {d \in decisions : d.task = t}

(* errors: what is counted against the error rate.                         *)
FailedTasks == {t \in Tasks : Created(t) /\ Outcome(t) # "COMPLETED"}

(* blast_radius: D-25.                                                     *)
Affected ==
  {t \in Tasks : Created(t) /\ (Cardinality(DecisionsOf(t)) > 1 \/ Outcome(t) # "COMPLETED")}
=============================================================================
