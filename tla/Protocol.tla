------------------------------- MODULE Protocol -------------------------------
(***************************************************************************)
(* The experimental protocol: the menu runs a plan of executions in        *)
(* cycles, each in a process of its own (run_experiment), which repeats an *)
(* invalid execution; a thread of that process opens and closes the window *)
(* of the fault while the load is sent; the operator presses Ctrl+C.       *)
(* What the bench does (docker, files, HTTP) is here by its outcome: it    *)
(* works or it raises.                                                     *)
(***************************************************************************)
EXTENDS Naturals, Sequences

CONSTANTS Scenarios,      \* sequence of the scenarios, names of files of a directory
          Fault,          \* fault of each: "none", "route", "outage" or "load"
          Cycles,         \* cycles the operator asked for
          MaxAttempts,    \* executions of one cell of the plan
          \* bounds of the environment
          MaxFailures,    \* failures of the bench
          MaxInterrupts   \* Ctrl+C pressed

ASSUME ProtocolAssumption ==
  /\ Scenarios \in Seq(DOMAIN Fault) /\ Len(Scenarios) > 0
  /\ \A i, j \in DOMAIN Scenarios : Scenarios[i] = Scenarios[j] => i = j
  /\ \A s \in DOMAIN Fault : Fault[s] \in {"none", "route", "outage", "load"}
  /\ Cycles \in Nat \ {0} /\ MaxAttempts \in Nat \ {0}
  /\ MaxFailures \in Nat /\ MaxInterrupts \in Nat

VARIABLES
  menu,         \* control state of the menu
  cycle, place, \* the repetition and the place in its plan
  stop,         \* StopRequest: how many Ctrl+C, and whether one was forced
  report,       \* executions reported, cells not run, cells interrupted
  runner,       \* control state of run_experiment, "none" without a process
  attempt,      \* of the cell in work
  timeline,     \* the thread of the fault
  executions,   \* directories of data/pilot by number, with their metadata
  services,     \* the execution the containers run for, 0 for none
  perturbed,    \* the fault is in place
  failures

session == <<menu, cycle, place, stop, report>>
bench   == <<services, perturbed>>
vars    == <<menu, cycle, place, stop, report, runner, attempt, timeline, executions,
             services, perturbed, failures>>

Engines == <<"RULES", "LLM">>
Cells == [scenario: DOMAIN Fault, engine: {"RULES", "LLM"}, repetition: 1 .. Cycles]

(* schedule: scenario by scenario, the engine that opens alternates.       *)
Opens(k) == IF k % 2 = 1 THEN 1 ELSE 2
Plan(k) ==
  [i \in 1 .. 2 * Len(Scenarios) |->
     [scenario   |-> Scenarios[(i + 1) \div 2],
      engine     |-> IF i % 2 = 1 THEN Engines[Opens(k)] ELSE Engines[3 - Opens(k)],
      repetition |-> k]]

Cell == Plan(cycle)[place]
Rest(first) == {Plan(cycle)[i] : i \in first .. 2 * Len(Scenarios)}

Init ==
  /\ menu = "plan" /\ cycle = 1 /\ place = 1
  /\ stop = [count |-> 0, forced |-> FALSE]
  /\ report = [results |-> {}, notRun |-> {}, interrupted |-> {}]
  /\ runner = "none" /\ attempt = 0 /\ timeline = "none"
  /\ executions = <<>>
  /\ services = 0 /\ perturbed = FALSE
  /\ failures = 0

-----------------------------------------------------------------------------
(* The executor.                                                           *)

Last == Len(executions)
This == executions[Last]
Mark(status) == executions' = [executions EXCEPT ![Last].status = status]

Fails == failures < MaxFailures /\ failures' = failures + 1

(* What raises outside the one try of run_once ends the process.           *)
Dies == Fails /\ runner' = "dying"

Fresh == [cell |-> Cell, status |-> "open", rows |-> 0, started |-> 0, ended |-> 0, summary |-> FALSE]

(* open_execution and the load of the configuration it wrote: what raises  *)
(* there leaves no directory, or one whose metadata may be missing.        *)
Open ==
  /\ runner = "open"
  /\ \/ /\ executions' = Append(executions, Fresh)
        /\ runner' = "reset" /\ UNCHANGED failures
     \/ Dies /\ executions' = Append(executions, Fresh)
     \/ Dies /\ UNCHANGED executions
  /\ UNCHANGED <<session, attempt, timeline, bench>>

(* down -v, which takes the fault away with the containers, and up.        *)
Down == services' = 0 /\ perturbed' = FALSE
Up   == services' = Last /\ perturbed' = FALSE

(* InspectionError, OSError and ValueError are caught and make the         *)
(* execution invalid; anything else ends the process.                      *)
Reset ==
  /\ runner = "reset"
  /\ \/ Up /\ runner' = "readiness" /\ UNCHANGED failures
     \/ /\ Fails /\ runner' \in {"invalid", "dying"}
        /\ Down \/ Up \/ UNCHANGED bench
  /\ UNCHANGED <<session, attempt, timeline, executions>>

(* A check that fails refuses the execution; what raises is caught, or     *)
(* not, as in the reset.                                                   *)
Readiness ==
  /\ runner = "readiness"
  /\ \/ /\ services = Last /\ ~perturbed
        /\ runner' = IF This.cell.engine = "LLM" THEN "llm" ELSE "ready"
        /\ UNCHANGED failures
     \/ Fails /\ runner' \in {"refused", "invalid", "dying"}
  /\ UNCHANGED <<session, attempt, timeline, executions, bench>>

(* Defect: a model that is not ready is registered at once, and again.     *)
LLMReadinessTwice ==
  /\ runner = "llm"
  /\ \/ runner' = "ready" /\ UNCHANGED <<executions, failures>>
     \/ /\ Fails /\ runner' = "unready"
        /\ executions' = [executions EXCEPT ![Last].status = "INVALID", ![Last].rows = 1]
     \/ Dies /\ UNCHANGED executions
  /\ UNCHANGED <<session, attempt, timeline, bench>>

(* What the runtime raises is caught; what the log of the warm-up raises   *)
(* is not.                                                                 *)
LLMReadiness ==
  /\ runner = "llm"
  /\ \/ runner' = "ready" /\ UNCHANGED <<executions, failures>>
     \/ Fails /\ runner' \in {"unready", "dying"} /\ UNCHANGED executions
  /\ UNCHANGED <<session, attempt, timeline, bench>>

(* The metadata is on disk only after the versions were read; for a model  *)
(* that is not ready it already says INVALID (apply_llm_readiness).        *)
WriteMetadata ==
  /\ runner \in {"ready", "refused", "unready"}
  /\ \/ /\ runner' = IF runner = "ready" THEN "apply" ELSE "invalid"
        /\ IF runner = "unready" THEN Mark("INVALID") ELSE UNCHANGED executions
        /\ UNCHANGED failures
     \/ Dies /\ UNCHANGED executions
  /\ UNCHANGED <<session, attempt, timeline, bench>>

HasWindow(s) == Fault[s] # "none"
Perturbs(s)  == Fault[s] \in {"route", "outage"}

(* apply_scenario: on the services of this execution, the load and the     *)
(* timeline start together.                                                *)
Apply ==
  /\ runner = "apply"
  /\ \/ /\ runner' = IF services = Last THEN "load" ELSE "dying"
        /\ timeline' = IF services = Last /\ HasWindow(This.cell.scenario) THEN "waiting" ELSE "none"
        /\ UNCHANGED failures
     \/ Dies /\ UNCHANGED timeline
  /\ UNCHANGED <<session, attempt, executions, bench>>

TimelineOver == timeline \in {"none", "ended"}

(* Defect: only the generator is joined.                                   *)
LoadSentAlone ==
  /\ runner = "load"
  /\ runner' = "settle"
  /\ UNCHANGED <<session, attempt, timeline, executions, bench, failures>>

(* join of the generator and of the timeline                               *)
LoadSent ==
  /\ runner = "load" /\ TimelineOver
  /\ runner' = "settle"
  /\ UNCHANGED <<session, attempt, timeline, executions, bench, failures>>

(* Defect: fault_events is not looked at. *)
AnyWindow(e) == TRUE

(* check_fault_events: as many windows opened as closed.                   *)
WindowsClosed(e) == e.started = e.ended

(* The wait for the orders and the queues, the collection and the summary. *)
Settle ==
  /\ runner = "settle"
  /\ \/ runner' = "validate" /\ UNCHANGED failures
     \/ Dies
  /\ UNCHANGED <<session, attempt, timeline, executions, bench>>

(* What did not settle, is missing or does not match is a failure of the   *)
(* bench.                                                                  *)
Validate ==
  /\ runner = "validate"
  /\ \/ /\ runner' = IF WindowsClosed(This) THEN "valid" ELSE "invalid"
        /\ UNCHANGED failures
     \/ Fails /\ runner' = "invalid"
  /\ UNCHANGED <<session, attempt, timeline, executions, bench>>

MarkValid ==
  /\ runner = "valid"
  /\ \/ Mark("VALID") /\ runner' = "consolidate" /\ UNCHANGED failures
     \/ Dies /\ UNCHANGED executions
  /\ UNCHANGED <<session, attempt, timeline, bench>>

Consolidate ==
  /\ runner = "consolidate"
  /\ \/ /\ executions' = [executions EXCEPT ![Last].summary = TRUE]
        /\ runner' = "print"
        /\ UNCHANGED failures
     \/ Dies /\ UNCHANGED executions
  /\ UNCHANGED <<session, attempt, timeline, bench>>

MarkInvalid ==
  /\ runner = "invalid"
  /\ \/ Mark("INVALID") /\ runner' = "record" /\ UNCHANGED failures
     \/ Dies /\ UNCHANGED executions
  /\ UNCHANGED <<session, attempt, timeline, bench>>

(* record_invalid appends to invalid_runs.csv; the status is on disk       *)
(* already when it raises.                                                 *)
Record ==
  /\ runner = "record"
  /\ \/ /\ executions' = [executions EXCEPT ![Last].rows = @ + 1]
        /\ runner' = "print" /\ UNCHANGED failures
     \/ Dies /\ UNCHANGED executions
  /\ UNCHANGED <<session, attempt, timeline, bench>>

(* Defect: every attempt is made. *)
PrintAllAttempts ==
  /\ runner = "print"
  /\ report' = [report EXCEPT !.results = @ \cup {Last}]
  /\ IF attempt = MaxAttempts
     THEN runner' = "none" /\ UNCHANGED attempt
     ELSE runner' = "open" /\ attempt' = attempt + 1
  /\ UNCHANGED <<menu, cycle, place, stop, timeline, executions, bench, failures>>

(* The line the menu reads; a valid execution ends the attempts.           *)
PrintResult ==
  /\ runner = "print"
  /\ report' = [report EXCEPT !.results = @ \cup {Last}]
  /\ IF This.status = "VALID" \/ attempt = MaxAttempts
     THEN runner' = "none" /\ UNCHANGED attempt
     ELSE runner' = "open" /\ attempt' = attempt + 1
  /\ UNCHANGED <<menu, cycle, place, stop, timeline, executions, bench, failures>>

(* The interpreter waits for the timeline, which is not a daemon.          *)
Die ==
  /\ runner = "dying" /\ TimelineOver
  /\ runner' = "none"
  /\ UNCHANGED <<session, attempt, timeline, executions, bench, failures>>

Executor ==
  \/ Open \/ Reset \/ Readiness \/ LLMReadiness \/ WriteMetadata \/ Apply \/ LoadSent
  \/ Settle \/ Validate \/ MarkValid \/ Consolidate \/ MarkInvalid \/ Record \/ PrintResult \/ Die

-----------------------------------------------------------------------------
(* The timeline of the fault: run_timeline.                                *)

(* Defect: without the finally. *)
StartWindowUnguarded ==
  /\ timeline = "waiting"
  /\ \/ /\ perturbed' = Perturbs(This.cell.scenario)
        /\ executions' = [executions EXCEPT ![Last].started = 1]
        /\ timeline' = "open"
        /\ UNCHANGED failures
     \/ /\ Fails /\ timeline' = "ended"
        /\ perturbed' \in {perturbed, Perturbs(This.cell.scenario)}
        /\ UNCHANGED executions
  /\ UNCHANGED <<session, runner, attempt, services>>

(* The perturbation first, FAULT_STARTED after it.                         *)
StartWindow ==
  /\ timeline = "waiting"
  /\ \/ /\ perturbed' = Perturbs(This.cell.scenario)
        /\ executions' = [executions EXCEPT ![Last].started = 1]
        /\ timeline' = "open"
        /\ UNCHANGED failures
     \/ /\ Fails /\ timeline' = "closing"
        /\ perturbed' \in {perturbed, Perturbs(This.cell.scenario)}
        /\ UNCHANGED executions
  /\ UNCHANGED <<session, runner, attempt, services>>

EndWindow ==
  /\ timeline \in {"open", "closing"}
  /\ timeline' = "ended"
  /\ \/ /\ perturbed' = FALSE
        /\ executions' = [executions EXCEPT ![Last].ended = 1]
        /\ UNCHANGED failures
     \/ /\ Fails
        /\ perturbed' \in {perturbed, FALSE}
        /\ UNCHANGED executions
  /\ UNCHANGED <<session, runner, attempt, services>>

Timeline == StartWindow \/ EndWindow

-----------------------------------------------------------------------------
(* Ctrl+C in the menu.                                                     *)

Outage == Fault[This.cell.scenario] = "outage"

(* docker compose is in the process group too: the command it was given is *)
(* done or not, and start() or stop() raises.                              *)
CommandCut ==
  /\ timeline \notin {"none", "ended"} /\ Outage
  /\ timeline' = IF timeline = "waiting" THEN "closing" ELSE "ended"
  /\ perturbed' \in {perturbed, timeline = "waiting"}
  /\ UNCHANGED services

ResetCut ==
  runner = "reset" /\ (Down \/ Up) /\ UNCHANGED timeline

(* killpg with SIGINT: the main thread leaves what it does; a second one   *)
(* ends the wait for the timeline, which dies with the process.            *)
Signalled ==
  IF runner = "dying"
  THEN runner' = "none" /\ timeline' = "none" /\ UNCHANGED bench
  ELSE runner' = "dying" /\ (CommandCut \/ ResetCut \/ UNCHANGED <<timeline, bench>>)

(* stop.child is set and its process has not ended.                        *)
Running == menu = "running" /\ runner # "none"

(* Defect: without a session of its own, Ctrl+C reaches the process.       *)
InterruptAll ==
  /\ menu # "over" /\ stop.count < MaxInterrupts
  /\ IF Running
     THEN /\ stop' = [count |-> stop.count + 1, forced |-> stop.forced \/ stop.count >= 1]
          /\ Signalled
     ELSE /\ stop' = [stop EXCEPT !.count = @ + 1]
          /\ UNCHANGED <<runner, timeline, bench>>
  /\ UNCHANGED <<menu, cycle, place, report, attempt, executions, failures>>

(* StopRequest.handle: the first asks, the next ones force.                *)
Interrupt ==
  /\ menu # "over" /\ stop.count < MaxInterrupts
  /\ IF Running /\ stop.count >= 1
     THEN stop' = [count |-> stop.count + 1, forced |-> TRUE] /\ Signalled
     ELSE /\ stop' = [stop EXCEPT !.count = @ + 1]
          /\ UNCHANGED <<runner, timeline, bench>>
  /\ UNCHANGED <<menu, cycle, place, report, attempt, executions, failures>>

-----------------------------------------------------------------------------
(* The menu.                                                               *)

Requested == stop.count >= 1

(* Defect: the cell it stops at is left out. *)
NextCellSkipped ==
  /\ menu = "plan"
  /\ IF Requested
     THEN /\ menu' = "report"
          /\ report' = [report EXCEPT !.notRun = @ \cup Rest(place + 1)]
     ELSE menu' = "launch" /\ UNCHANGED report
  /\ UNCHANGED <<cycle, place, stop, runner, attempt, timeline, executions, bench, failures>>

NextCell ==
  /\ menu = "plan"
  /\ IF Requested
     THEN /\ menu' = "report"
          /\ report' = [report EXCEPT !.notRun = @ \cup Rest(place)]
     ELSE menu' = "launch" /\ UNCHANGED report
  /\ UNCHANGED <<cycle, place, stop, runner, attempt, timeline, executions, bench, failures>>

Launch ==
  /\ menu = "launch"
  /\ menu' = "spawned" /\ runner' = "open" /\ attempt' = 1
  /\ UNCHANGED <<cycle, place, stop, report, timeline, executions, bench, failures>>

(* stop.child = child *)
Watch ==
  /\ menu = "spawned"
  /\ menu' = "running"
  /\ UNCHANGED <<cycle, place, stop, report, runner, attempt, timeline, executions, bench,
                 failures>>

(* Defect: the menu waits for a result line. *)
ChildAnswers ==
  /\ menu = "running" /\ runner = "none" /\ Last \in report.results
  /\ IF place < 2 * Len(Scenarios)
     THEN menu' = "plan" /\ place' = place + 1 /\ UNCHANGED report
     ELSE menu' = "report" /\ UNCHANGED <<place, report>>
  /\ UNCHANGED <<cycle, stop, runner, attempt, timeline, executions, bench, failures>>

ChildEnds ==
  /\ menu = "running" /\ runner = "none"
  /\ \/ /\ stop.forced
        /\ menu' = "report"
        /\ report' = [report EXCEPT !.interrupted = @ \cup {Cell}, !.notRun = @ \cup Rest(place + 1)]
        /\ UNCHANGED place
     \/ /\ ~stop.forced /\ place < 2 * Len(Scenarios)
        /\ menu' = "plan" /\ place' = place + 1
        /\ UNCHANGED report
     \/ /\ ~stop.forced /\ place = 2 * Len(Scenarios)
        /\ menu' = "report"
        /\ UNCHANGED <<place, report>>
  /\ UNCHANGED <<cycle, stop, runner, attempt, timeline, executions, bench, failures>>

EndCycle ==
  /\ menu = "report"
  /\ menu' = IF Requested \/ cycle = Cycles THEN "over" ELSE "countdown"
  /\ UNCHANGED <<cycle, place, stop, report, runner, attempt, timeline, executions, bench,
                 failures>>

Countdown ==
  /\ menu = "countdown"
  /\ IF Requested
     THEN menu' = "over" /\ UNCHANGED <<cycle, place>>
     ELSE menu' = "plan" /\ cycle' = cycle + 1 /\ place' = 1
  /\ UNCHANGED <<stop, report, runner, attempt, timeline, executions, bench, failures>>

Menu == NextCell \/ Launch \/ Watch \/ ChildEnds \/ EndCycle \/ Countdown

-----------------------------------------------------------------------------
Next == Executor \/ Timeline \/ Menu \/ Interrupt

Spec == Init /\ [][Next]_vars

(* Processes run, waits have a limit of time and docker compose returns.   *)
FairSpec == Spec /\ WF_vars(Executor) /\ WF_vars(Timeline) /\ WF_vars(Menu)
=============================================================================
