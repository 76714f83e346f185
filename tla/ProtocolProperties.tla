-------------------------- MODULE ProtocolProperties --------------------------
(***************************************************************************)
(* What the data of a session must be worth whatever fails on the bench    *)
(* and whenever the operator presses Ctrl+C.                               *)
(***************************************************************************)
EXTENDS Protocol, FiniteSets

Numbers == DOMAIN executions

(* The execution in work, if there is one.                                 *)
Current == IF runner = "none" THEN {} ELSE {Last} \cap Numbers

(* The executions that never reached their end: no run_status, or VALID    *)
(* without the metrics consolidated.                                       *)
Unfinished ==
  {n \in Numbers \ Current :
     \/ executions[n].status = "open"
     \/ executions[n].status = "VALID" /\ ~executions[n].summary}

(* The INVALID executions without a line in invalid_runs.csv.              *)
Unrecorded == {n \in Numbers \ Current : executions[n].status = "INVALID" /\ executions[n].rows = 0}

Began == {Plan(k)[i] : k \in 1 .. cycle, i \in 1 .. 2 * Len(Scenarios)}

(* A cell has a result, left an execution that did not reach its end or    *)
(* its line, or is listed as not run or as interrupted.                    *)
Accounted(c) ==
  \/ \E n \in report.results \cup Unfinished \cup Unrecorded : executions[n].cell = c
  \/ c \in report.notRun \cup report.interrupted

-----------------------------------------------------------------------------

(* Every variable holds what the menu, the process and the files can hold; *)
(* only the execution in work has a timeline, and the containers run for   *)
(* an execution that was opened.                                           *)
ProtocolTypeOK ==
  /\ menu \in {"plan", "launch", "spawned", "running", "report", "countdown", "over"}
  /\ cycle \in 1 .. Cycles /\ place \in 1 .. 2 * Len(Scenarios)
  /\ stop \in [count: 0 .. MaxInterrupts, forced: BOOLEAN]
  /\ report \in [results: SUBSET Numbers, notRun: SUBSET Cells, interrupted: SUBSET Cells]
  /\ runner \in {"none", "open", "reset", "readiness", "llm", "ready", "refused", "unready",
                 "apply", "load", "settle", "validate", "valid", "consolidate", "invalid",
                 "record", "print", "dying"}
  /\ attempt \in 0 .. MaxAttempts
  /\ timeline \in {"none", "waiting", "open", "closing", "ended"}
  /\ timeline \in {"waiting", "open", "closing"} => runner \in {"load", "dying"}
  /\ executions \in Seq([cell: Cells, status: {"open", "VALID", "INVALID"}, rows: Nat,
                         started: {0, 1}, ended: {0, 1}, summary: BOOLEAN])
  /\ services \in {0} \cup Numbers /\ perturbed \in BOOLEAN
  /\ failures \in 0 .. MaxFailures

(* A VALID execution of a scenario with a fault had its fault: the window  *)
(* was opened and closed while it ran.  The last guard counts what was     *)
(* recorded (check_traceability.py, lines 169 to 181), so it takes two     *)
(* failures of the bench, one at each end, for a VALID execution without.  *)
ValidHadItsFault ==
  \A n \in Numbers :
    executions[n].status = "VALID" /\ HasWindow(executions[n].cell.scenario) =>
      /\ executions[n].ended = executions[n].started
      /\ executions[n].started = 1 \/ failures >= 2

(* "A falha é sempre removida, mesmo se algo falhar no meio (sem           *)
(* perturbação órfã)" (injectors.py, line 165): when the process is gone   *)
(* the fault is too, unless what removes it failed after what puts it      *)
(* worked or failed as well, the operator cut docker compose, or a third   *)
(* Ctrl+C did not wait for the timeline.                                   *)
NoOrphanFault ==
  runner = "none" /\ perturbed =>
    LET faulty == executions[services] IN
    \/ failures >= (IF faulty.started = 1 THEN 1 ELSE 2)
    \/ stop.forced /\ Fault[faulty.cell.scenario] = "outage"
    \/ stop.forced /\ stop.count >= 3

(* A cell of the plan gives at most one VALID execution, whatever number   *)
(* of attempts it took.                                                    *)
OneValidPerCell ==
  \A m, n \in Numbers :
    executions[m].status = "VALID" /\ executions[n].status = "VALID" /\ m # n =>
      executions[m].cell # executions[n].cell

(* invalid_runs.csv has one line for each INVALID execution and none for   *)
(* the others.  The status is written first and nothing catches what       *)
(* raises between the two (run_experiment.py, lines 139 to 143), so one    *)
(* that a failure, after the one that made it INVALID, or the operator cut *)
(* there has no line: but the menu was told of none of these.              *)
InvalidRecordedOnce ==
  \A n \in Numbers :
    /\ executions[n].rows <= 1
    /\ executions[n].rows = 1 => executions[n].status = "INVALID"
    /\ n \in Unrecorded => n \notin report.results /\ (stop.forced \/ failures >= 2)

(* "A execução em andamento termina normalmente" (menu.py, line 184): one  *)
(* Ctrl+C, whenever it comes, leaves no execution unfinished; a failure of *)
(* the bench does, or an operator who forces.                              *)
FinishedUnlessForced == Unfinished # {} => stop.forced \/ failures > 0

(* When the session is over every cell of its cycles is accounted for: it  *)
(* has a result, is listed as not run or as interrupted, or left on disk   *)
(* an execution without its end or its line.  A process that dies before   *)
(* the directory of its execution exists (run_experiment.py, line 158)     *)
(* leaves nothing at all, so of the cells no one can tell about there are  *)
(* no more than failures of the bench.  What is listed as not run was not. *)
PlanAccounted ==
  menu = "over" =>
    /\ Cardinality({c \in Began : ~Accounted(c)}) <= failures
    /\ \A n \in Numbers : executions[n].cell \notin report.notRun

(* A session ends, whatever fails and whenever it is interrupted.          *)
SessionEnds == <>(menu = "over")
=============================================================================
