--------------------------- MODULE Protocol_proofs ---------------------------
(***************************************************************************)
(* Proofs about the experimental protocol, for any plan and any number of  *)
(* cycles, attempts, failures of the bench and Ctrl+C.                     *)
(*                                                                         *)
(* ProtocolInvariant says where the execution in work stands at each step  *)
(* of run_experiment (InHand), what the window of the fault has recorded   *)
(* and left on the bench (Window, Bench), what an execution that is behind *)
(* is worth (Written), which cells the executions are of (Placed) and how  *)
(* many cells no one can tell about (Kept).                                *)
(***************************************************************************)
EXTENDS ProtocolProperties, FiniteSetTheorems, TLAPS

Live == {"waiting", "open", "closing"}

(* The execution in work is Last; before "open" appends there is none.     *)
AtWork == runner \notin {"none", "open", "dying"}

(* The steps before the window of the fault, and up to the verdict.        *)
Before == {"reset", "readiness", "llm", "ready", "refused", "unready", "apply"}
Trial  == Before \cup {"load", "settle", "validate", "valid"}

Finished(e)   == (e.status = "INVALID" /\ e.rows = 1) \/ (e.status = "VALID" /\ e.summary)
Incomplete(e) == e.status = "open" \/ (e.status = "VALID" /\ ~e.summary)
Unlined(e)    == e.status = "INVALID" /\ e.rows = 0
Abandoned(e)  == e.rows = 0 /\ ~e.summary

(* The executions whose status, line and summary are no longer touched.    *)
Over == {n \in Numbers : n < Last \/ runner \in {"none", "open", "print", "dying"}}

-----------------------------------------------------------------------------
(* The inductive invariant.                                                *)

Control ==
  /\ menu \in {"spawned", "running"} \/ runner = "none"
  /\ stop.forced => /\ stop.count >= 2
                    /\ menu \in {"running", "report", "over"}
                    /\ runner \in {"none", "dying"}
  /\ menu = "countdown" => cycle < Cycles
  /\ report.notRun \cup report.interrupted # {} => Requested /\ menu \in {"report", "over"}

InHand ==
  /\ AtWork =>
       /\ Last > 0 /\ This.cell = Cell
       /\ runner \in Trial => This.status = "open"
       /\ runner = "consolidate" => This.status = "VALID"
       /\ runner = "invalid" => This.status # "VALID"
       /\ runner = "record" => This.status = "INVALID"
       /\ runner = "print" => Finished(This)
       /\ runner # "print" => Abandoned(This)
       /\ runner \in {"refused", "unready", "invalid", "record"} => failures > 0

HadFault(e) ==
  HasWindow(e.cell.scenario) =>
    e.ended = e.started /\ (e.started = 1 \/ failures >= 2)

Window ==
  /\ timeline \in Live =>
       /\ Last > 0 /\ This.status = "open" /\ This.ended = 0
       /\ This.started = (IF timeline = "open" THEN 1 ELSE 0)
       /\ runner = "dying" => stop.forced
  /\ timeline = "closing" => failures >= 1 \/ (stop.forced /\ Outage)
  /\ runner \in Before => This.started = 0 /\ This.ended = 0
  /\ runner \in {"load", "settle", "validate"} =>
       /\ HasWindow(This.cell.scenario) => timeline # "none"
       /\ timeline \notin Live => This.started = This.ended \/ failures > 0
       /\ timeline = "ended" /\ This.started = This.ended => This.started = 1 \/ failures >= 2
  /\ runner = "valid" => HadFault(This)
  /\ \A n \in Numbers : executions[n].status = "VALID" => HadFault(executions[n])

(* What may have left a fault on the bench.                                *)
Excused(e) ==
  \/ failures >= (IF e.started = 1 THEN 1 ELSE 2)
  \/ stop.forced /\ Fault[e.cell.scenario] = "outage"
  \/ stop.forced /\ stop.count >= 3

Bench ==
  /\ timeline \in Live => services = Last
  /\ timeline = "waiting" \/ runner \in {"llm", "ready", "unready", "apply"} =>
       services = Last /\ ~perturbed
  /\ perturbed => services \in Numbers
  /\ perturbed /\ timeline \notin Live => Excused(executions[services])

(* What an execution that is behind is worth.                              *)
Worth(e) ==
  \/ Finished(e)
  \/ stop.forced
  \/ failures > 0 /\ Incomplete(e)
  \/ failures >= 2 /\ Unlined(e)

Written ==
  /\ \A n \in Numbers :
       executions[n].rows <= 1 /\ (executions[n].rows = 1 => executions[n].status = "INVALID")
  /\ \A n \in Over : Worth(executions[n])
  /\ \A n \in report.results : n \in Over /\ Finished(executions[n])

Placed ==
  /\ \A n \in Numbers :
       /\ executions[n].cell.repetition <= cycle
       /\ menu \in {"plan", "launch"} => executions[n].cell \notin Rest(place)
       /\ menu \in {"spawned", "running"} => executions[n].cell \notin Rest(place + 1)
       /\ executions[n].cell \notin report.notRun
  /\ runner \notin {"none", "dying"} =>
       \A n \in Numbers :
         executions[n].status = "VALID" /\ executions[n].cell = Cell =>
           n = Last /\ runner \in {"consolidate", "print"}

(* A cell that has a result, left an execution its process abandoned or is *)
(* listed: it stays accounted for.                                         *)
Settled(c) ==
  \/ \E n \in report.results : executions[n].cell = c
  \/ \E n \in Over : Abandoned(executions[n]) /\ executions[n].cell = c
  \/ c \in report.notRun \cup report.interrupted

Behind(k, i) == k < cycle \/ i < place \/ menu \in {"report", "countdown", "over"}

(* The process of the cell in work ends by itself.                         *)
Ending == menu \in {"spawned", "running"} /\ runner \in {"none", "dying"} /\ ~stop.forced

Passed ==
  {c \in Cells :
     \/ \E k \in 1 .. cycle, i \in 1 .. 2 * Len(Scenarios) : Behind(k, i) /\ c = Plan(k)[i]
     \/ Ending /\ c = Cell}

(* Each cell no one can tell about took a failure of the bench.            *)
Untold == {c \in Passed : ~Settled(c)}

Kept == IsFiniteSet(Untold) /\ Cardinality(Untold) <= failures

ProtocolInvariant ==
  /\ ProtocolTypeOK /\ Control /\ InHand /\ Window /\ Bench
  /\ Written /\ Placed /\ OneValidPerCell /\ Kept

-----------------------------------------------------------------------------
(* Facts about the plan and the directories.                               *)

(* The directories of the executions.                                      *)
Execution ==
  [cell: Cells, status: {"open", "VALID", "INVALID"}, rows: Nat,
   started: {0, 1}, ended: {0, 1}, summary: BOOLEAN]

(* A place of the plan holds a cell of its repetition.                     *)
LEMMA PlanType ==
  ASSUME NEW k \in 1 .. Cycles, NEW i \in 1 .. 2 * Len(Scenarios)
  PROVE  Plan(k)[i] \in Cells /\ Plan(k)[i].repetition = k
<1> Len(Scenarios) \in Nat /\ Cycles \in Nat
  BY ProtocolAssumption
<1>1. (i + 1) \div 2 \in 1 .. Len(Scenarios)
  OBVIOUS
<1>2. Scenarios[(i + 1) \div 2] \in DOMAIN Fault
  BY <1>1, ProtocolAssumption
<1>3. Engines[Opens(k)] \in {"RULES", "LLM"} /\ Engines[3 - Opens(k)] \in {"RULES", "LLM"}
  BY DEF Engines, Opens
<1>4. QED
  BY <1>2, <1>3 DEF Plan, Cells

(* No two places of the plan hold the same cell.                           *)
LEMMA PlanDistinct ==
  ASSUME NEW k \in 1 .. Cycles,
         NEW i \in 1 .. 2 * Len(Scenarios), NEW j \in 1 .. 2 * Len(Scenarios),
         Plan(k)[i] = Plan(k)[j]
  PROVE  i = j
<1> Len(Scenarios) \in Nat /\ Cycles \in Nat
  BY ProtocolAssumption
<1>1. (i + 1) \div 2 \in 1 .. Len(Scenarios) /\ (j + 1) \div 2 \in 1 .. Len(Scenarios)
  OBVIOUS
<1>2. Scenarios[(i + 1) \div 2] = Scenarios[(j + 1) \div 2]
  BY DEF Plan
<1>3. (i + 1) \div 2 = (j + 1) \div 2
  BY <1>1, <1>2, ProtocolAssumption
<1>4. Engines[Opens(k)] # Engines[3 - Opens(k)]
  BY DEF Engines, Opens
<1>5. i % 2 = 1 <=> j % 2 = 1
  BY <1>4 DEF Plan
<1>6. QED
  BY <1>3, <1>5

(* A directory more, and a directory whose metadata is written again.      *)
LEMMA Appended ==
  ASSUME NEW T, NEW s \in Seq(T), NEW e \in T, NEW s2, s2 = Append(s, e)
  PROVE  /\ s2 \in Seq(T) /\ Len(s2) = Len(s) + 1 /\ DOMAIN s2 = 1 .. Len(s) + 1
         /\ s2[Len(s) + 1] = e /\ \A n \in DOMAIN s : n \in DOMAIN s2 /\ s2[n] = s[n]
OBVIOUS

(* A sequence whose last element is replaced.                              *)
LEMMA Rewritten ==
  ASSUME NEW T, NEW s \in Seq(T), Len(s) > 0, NEW e \in T, NEW s2,
         s2 = [s EXCEPT ![Len(s)] = e]
  PROVE  /\ s2 \in Seq(T) /\ Len(s2) = Len(s) /\ DOMAIN s2 = DOMAIN s
         /\ s2[Len(s)] = e /\ \A n \in DOMAIN s : n # Len(s) => s2[n] = s[n]
OBVIOUS

-----------------------------------------------------------------------------
(* Types.                                                                  *)

(* A new session is of the types.                                          *)
LEMMA InitType == Init => ProtocolTypeOK
<1> SUFFICES ASSUME Init PROVE ProtocolTypeOK
  OBVIOUS
<1>1. executions \in Seq(Execution) /\ DOMAIN executions = {}
  BY DEF Init
<1>2. cycle \in 1 .. Cycles /\ place \in 1 .. 2 * Len(Scenarios)
  BY ProtocolAssumption DEF Init
<1>3. stop \in [count: 0 .. MaxInterrupts, forced: BOOLEAN] /\ attempt \in 0 .. MaxAttempts
      /\ failures \in 0 .. MaxFailures
  BY ProtocolAssumption DEF Init
<1>4. QED
  BY <1>1, <1>2, <1>3 DEF Init, ProtocolTypeOK, Numbers, Execution

(* The execution in work is one of the directories.                        *)
LEMMA ThisType ==
  ASSUME ProtocolTypeOK, Last > 0
  PROVE  This \in Execution /\ Last \in Numbers
<1>1. executions \in Seq(Execution)
  BY DEF ProtocolTypeOK, Execution
<1>2. QED
  BY <1>1 DEF This, Last, Numbers

(* What is written into the metadata of an execution.                      *)
LEMMA MetadataType ==
  ASSUME NEW e \in Execution
  PROVE  /\ \A status \in {"open", "VALID", "INVALID"} : [e EXCEPT !.status = status] \in Execution
         /\ [e EXCEPT !.summary = TRUE] \in Execution
         /\ [e EXCEPT !.rows = @ + 1] \in Execution
         /\ [e EXCEPT !.started = 1] \in Execution
         /\ [e EXCEPT !.ended = 1] \in Execution
<1>1. \A status \in {"open", "VALID", "INVALID"} : [e EXCEPT !.status = status] \in Execution
  BY DEF Execution
<1>2. [e EXCEPT !.summary = TRUE] \in Execution
  BY DEF Execution
<1>3. [e EXCEPT !.rows = @ + 1] \in Execution
  BY DEF Execution
<1>4. [e EXCEPT !.started = 1] \in Execution /\ [e EXCEPT !.ended = 1] \in Execution
  BY DEF Execution
<1>5. QED
  BY <1>1, <1>2, <1>3, <1>4

(* The process of an execution keeps the types.                            *)
LEMMA ExecutorType ==
  ASSUME ProtocolTypeOK, Control, InHand, Executor
  PROVE  ProtocolTypeOK'
<1> USE DEF session, bench, Last, Numbers
<1>0. /\ executions \in Seq(Execution) /\ Last \in Nat /\ failures \in 0 .. MaxFailures
      /\ Cell \in Cells /\ MaxFailures \in Nat
  <2>1. executions \in Seq(Execution) /\ failures \in 0 .. MaxFailures
    BY DEF ProtocolTypeOK, Execution
  <2>2. Cell \in Cells
    BY PlanType DEF ProtocolTypeOK, Cell
  <2>3. QED
    BY <2>1, <2>2, ProtocolAssumption
<1>1. CASE Open
  <2>1. executions' \in Seq(Execution) /\ DOMAIN executions \subseteq DOMAIN executions'
    <3>1. Fresh \in Execution
      BY <1>0 DEF Fresh, Execution
    <3>2. CASE executions' = Append(executions, Fresh)
      BY <1>0, <3>1, <3>2, Appended
    <3>3. CASE executions' = executions
      BY <1>0, <3>3
    <3>4. QED
      BY <1>1, <3>2, <3>3 DEF Open
  <2>2. runner' \in {"reset", "dying"} /\ failures' \in 0 .. MaxFailures
    BY <1>0, <1>1 DEF Open, Dies, Fails
  <2>3. QED
    BY <1>1, <2>1, <2>2 DEF Open, ProtocolTypeOK, Execution
<1>2. CASE Reset
  <2>1. Last > 0
    BY <1>2 DEF Reset, InHand, AtWork
  <2>2. services' \in {0} \cup Numbers /\ perturbed' \in BOOLEAN
    <3>1. Last \in Numbers /\ services \in {0} \cup Numbers /\ perturbed \in BOOLEAN
      BY <2>1, ThisType DEF ProtocolTypeOK
    <3>2. QED
      BY <1>2, <3>1 DEF Reset, Down, Up
  <2>3. QED
    BY <1>0, <1>2, <2>2 DEF Reset, Fails, ProtocolTypeOK
<1>3. CASE Readiness
  BY <1>0, <1>3 DEF Readiness, Fails, ProtocolTypeOK
<1>4. CASE Apply
  BY <1>0, <1>4 DEF Apply, Dies, Fails, ProtocolTypeOK
<1>5. CASE LoadSent \/ Settle \/ Validate \/ Die
  BY <1>0, <1>5 DEF LoadSent, TimelineOver, Settle, Dies, Validate, Die, Fails, ProtocolTypeOK
<1>6. CASE PrintResult
  <2>1. Last > 0
    BY <1>6 DEF PrintResult, InHand, AtWork
  <2>2. report' \in [results: SUBSET Numbers, notRun: SUBSET Cells, interrupted: SUBSET Cells]
    <3>1. report.results \cup {Last} \subseteq Numbers
      BY <1>0, <2>1, ThisType DEF ProtocolTypeOK
    <3>2. report \in [results: SUBSET Numbers, notRun: SUBSET Cells, interrupted: SUBSET Cells]
      BY DEF ProtocolTypeOK
    <3>3. report' = [report EXCEPT !.results = @ \cup {Last}]
      BY <1>6 DEF PrintResult
    <3>4. QED
      BY <3>1, <3>2, <3>3
  <2>3. attempt' \in 0 .. MaxAttempts
    BY <1>6, ProtocolAssumption DEF PrintResult, ProtocolTypeOK
  <2>4. QED
    BY <1>6, <2>2, <2>3 DEF PrintResult, ProtocolTypeOK
<1>7. CASE LLMReadiness
  BY <1>0, <1>7 DEF LLMReadiness, Fails, ProtocolTypeOK
<1>8. CASE WriteMetadata \/ MarkValid \/ Consolidate \/ MarkInvalid \/ Record
  <2>1. Last > 0
    BY <1>8 DEF WriteMetadata, MarkValid, Consolidate, MarkInvalid, Record, InHand, AtWork
  <2>2. PICK e \in Execution : executions' = [executions EXCEPT ![Last] = e]
    <3>1. /\ This \in Execution
          /\ \A status \in {"open", "VALID", "INVALID"} : [This EXCEPT !.status = status] \in Execution
          /\ [This EXCEPT !.summary = TRUE] \in Execution
          /\ [This EXCEPT !.rows = @ + 1] \in Execution
      BY <2>1, ThisType, MetadataType
    <3>2. executions = [executions EXCEPT ![Last] = This]
      BY <1>0 DEF This
    <3>3. CASE WriteMetadata
      BY <1>0, <3>1, <3>2, <3>3 DEF WriteMetadata, Mark, This
    <3>4. CASE MarkValid
      BY <1>0, <3>1, <3>2, <3>4 DEF MarkValid, Mark, This
    <3>5. CASE Consolidate
      BY <1>0, <3>1, <3>2, <3>5 DEF Consolidate, This
    <3>6. CASE MarkInvalid
      BY <1>0, <3>1, <3>2, <3>6 DEF MarkInvalid, Mark, This
    <3>7. CASE Record
      BY <1>0, <3>1, <3>2, <3>7 DEF Record, This
    <3>8. QED
      BY <1>8, <3>3, <3>4, <3>5, <3>6, <3>7
  <2>3. executions' \in Seq(Execution) /\ DOMAIN executions' = DOMAIN executions
    BY <1>0, <2>1, <2>2, Rewritten
  <2>4. /\ runner' \in {"apply", "invalid", "consolidate", "print", "record", "dying"}
        /\ failures' \in 0 .. MaxFailures
        /\ UNCHANGED <<session, attempt, timeline, bench>> /\ runner \notin {"load", "dying"}
    BY <1>0, <1>8 DEF WriteMetadata, MarkValid, Consolidate, MarkInvalid, Record, Dies, Fails
  <2>5. QED
    BY <1>0, <2>3, <2>4 DEF ProtocolTypeOK, Execution
<1>9. QED
  BY <1>1, <1>2, <1>3, <1>4, <1>5, <1>6, <1>7, <1>8 DEF Executor

(* So do the thread of the fault, the operator and the menu.               *)
LEMMA TimelineType ==
  ASSUME ProtocolTypeOK, InHand, Window, Timeline
  PROVE  ProtocolTypeOK'
<1> USE DEF session, Last, Numbers
<1>0. /\ executions \in Seq(Execution) /\ failures \in 0 .. MaxFailures /\ MaxFailures \in Nat
      /\ Last > 0 /\ This \in Execution
  BY ThisType, ProtocolAssumption
  DEF ProtocolTypeOK, Execution, Timeline, StartWindow, EndWindow, Window, Live
<1>1. executions' \in Seq(Execution) /\ DOMAIN executions' = DOMAIN executions
  <2>1. PICK e \in Execution : executions' = [executions EXCEPT ![Last] = e]
    <3>1. executions = [executions EXCEPT ![Last] = This]
      BY <1>0 DEF This
    <3>2. [This EXCEPT !.started = 1] \in Execution /\ [This EXCEPT !.ended = 1] \in Execution
      BY <1>0, MetadataType
    <3>3. CASE StartWindow
      BY <1>0, <3>1, <3>2, <3>3 DEF StartWindow, This
    <3>4. CASE EndWindow
      BY <1>0, <3>1, <3>2, <3>4 DEF EndWindow, This
    <3>5. QED
      BY <3>3, <3>4 DEF Timeline
  <2>2. QED
    BY <1>0, <2>1, Rewritten
<1>2. perturbed' \in BOOLEAN
  <2>1. Perturbs(This.cell.scenario) \in BOOLEAN /\ perturbed \in BOOLEAN
    BY DEF Perturbs, ProtocolTypeOK
  <2>2. QED
    BY <2>1, Zenon DEF Timeline, StartWindow, EndWindow
<1>3. failures' \in 0 .. MaxFailures
  <2>1. UNCHANGED failures \/ Fails
    BY DEF Timeline, StartWindow, EndWindow
  <2>2. QED
    BY <1>0, <2>1 DEF Fails
<1>4. /\ timeline \in {"waiting", "open", "closing"} /\ timeline' \in {"open", "closing", "ended"}
      /\ UNCHANGED <<session, runner, attempt, services>>
  BY DEF Timeline, StartWindow, EndWindow
<1>5. QED
  BY <1>1, <1>2, <1>3, <1>4 DEF ProtocolTypeOK, Execution

(* Ctrl+C keeps the types.                                                 *)
LEMMA InterruptType ==
  ASSUME ProtocolTypeOK, InHand, Window, Interrupt
  PROVE  ProtocolTypeOK'
<1> USE DEF Last, Numbers
<1>1. stop' \in [count: 0 .. MaxInterrupts, forced: BOOLEAN]
  <2>1. stop \in [count: 0 .. MaxInterrupts, forced: BOOLEAN] /\ MaxInterrupts \in Nat
    BY ProtocolAssumption DEF ProtocolTypeOK
  <2>2. stop.count + 1 \in 0 .. MaxInterrupts
    BY <2>1 DEF Interrupt
  <2>3. stop' = [count |-> stop.count + 1, forced |-> TRUE] \/ stop' = [stop EXCEPT !.count = @ + 1]
    BY DEF Interrupt
  <2>4. CASE stop' = [count |-> stop.count + 1, forced |-> TRUE]
    BY <2>2, <2>4
  <2>5. CASE stop' = [stop EXCEPT !.count = @ + 1]
    BY <2>1, <2>2, <2>5
  <2>6. QED
    BY <2>3, <2>4, <2>5
<1>2. UNCHANGED <<menu, cycle, place, report, attempt, executions, failures>>
  BY DEF Interrupt
<1>3. CASE UNCHANGED <<runner, timeline, bench>>
  BY <1>1, <1>2, <1>3 DEF bench, ProtocolTypeOK
<1>4. CASE Running /\ Signalled
  <2>1. CASE runner = "dying"
    BY <1>1, <1>2, <1>4, <2>1 DEF Signalled, bench, ProtocolTypeOK
  <2>2. CASE runner # "dying"
    <3>1. /\ timeline' \in {"none", "waiting", "open", "closing", "ended"}
          /\ services' \in {0} \cup Numbers /\ perturbed' \in BOOLEAN
      <4>1. CASE CommandCut
        BY <4>1 DEF CommandCut, ProtocolTypeOK
      <4>2. CASE ResetCut
        <5>1. Last \in Numbers
          BY <4>2, ThisType DEF ResetCut, InHand, AtWork
        <5>2. QED
          BY <4>2, <5>1 DEF ResetCut, Down, Up, ProtocolTypeOK
      <4>3. CASE UNCHANGED <<timeline, bench>>
        BY <4>3 DEF bench, ProtocolTypeOK
      <4>4. QED
        BY <1>4, <2>2, <4>1, <4>2, <4>3 DEF Signalled
    <3>2. QED
      BY <1>1, <1>2, <1>4, <2>2, <3>1 DEF Signalled, ProtocolTypeOK
  <2>3. QED
    BY <2>1, <2>2
<1>5. QED
  BY <1>3, <1>4 DEF Interrupt

(* The steps of the menu keep the types.                                   *)
LEMMA MenuType ==
  ASSUME ProtocolTypeOK, Control, Menu
  PROVE  ProtocolTypeOK'
<1> USE DEF Last, Numbers
<1>0. Len(Scenarios) \in Nat /\ Cycles \in Nat \ {0} /\ MaxAttempts \in Nat \ {0} /\ Len(Scenarios) > 0
  BY ProtocolAssumption
<1>1. \A first \in Nat \ {0} : Rest(first) \subseteq Cells
  BY <1>0, PlanType DEF Rest, ProtocolTypeOK
<1>2. Cell \in Cells
  BY PlanType DEF Cell, ProtocolTypeOK
<1>3. report' \in [results: SUBSET Numbers, notRun: SUBSET Cells, interrupted: SUBSET Cells]
  <2>1. Rest(place) \subseteq Cells /\ Rest(place + 1) \subseteq Cells
    BY <1>0, <1>1 DEF ProtocolTypeOK
  <2>2. report \in [results: SUBSET Numbers, notRun: SUBSET Cells, interrupted: SUBSET Cells]
    BY DEF ProtocolTypeOK
  <2>3. \/ report' = report
        \/ report' = [report EXCEPT !.notRun = @ \cup Rest(place)]
        \/ report' = [report EXCEPT !.interrupted = @ \cup {Cell}, !.notRun = @ \cup Rest(place + 1)]
    BY DEF Menu, NextCell, Launch, Watch, ChildEnds, EndCycle, Countdown
  <2>4. QED
    BY <1>2, <2>1, <2>2, <2>3
<1>4. cycle' \in 1 .. Cycles /\ place' \in 1 .. 2 * Len(Scenarios) /\ attempt' \in 0 .. MaxAttempts
  BY <1>0 DEF Menu, NextCell, Launch, Watch, ChildEnds, EndCycle, Countdown, Control, ProtocolTypeOK
<1>5. /\ menu' \in {"plan", "launch", "spawned", "running", "report", "countdown", "over"}
      /\ runner' = runner \/ (runner' = "open" /\ runner = "none")
      /\ UNCHANGED <<stop, timeline, executions, bench, failures>>
  BY DEF Menu, NextCell, Launch, Watch, ChildEnds, EndCycle, Countdown, Control, ProtocolTypeOK
<1>6. QED
  BY <1>3, <1>4, <1>5 DEF bench, ProtocolTypeOK

(* Every step keeps the types.                                             *)
LEMMA TypeStep ==
  ASSUME ProtocolTypeOK, Control, InHand, Window, [Next]_vars
  PROVE  ProtocolTypeOK'
<1>1. CASE UNCHANGED vars
  BY <1>1 DEF vars, ProtocolTypeOK, Numbers, Last
<1>2. QED
  BY <1>1, ExecutorType, TimelineType, InterruptType, MenuType DEF Next

-----------------------------------------------------------------------------
(* What a step writes into the directories.                                *)

(* Numbers is 1 .. Last.                                                   *)
LEMMA NumbersFacts ==
  ASSUME ProtocolTypeOK
  PROVE  Last \in Nat /\ Numbers = 1 .. Last
BY DEF ProtocolTypeOK, Last, Numbers

(* The metadata of the execution in work is written again.                 *)
LEMMA EditedThis ==
  ASSUME ProtocolTypeOK, Last > 0, NEW e \in Execution, executions' = [executions EXCEPT ![Last] = e]
  PROVE  /\ Last' = Last /\ Numbers' = Numbers /\ This' = e
         /\ \A n \in Numbers : n # Last => executions'[n] = executions[n]
<1>1. executions \in Seq(Execution)
  BY DEF ProtocolTypeOK, Execution
<1>2. QED
  BY <1>1, Rewritten DEF Last, Numbers, This

(* The process opens its execution, or dies before there is a directory.   *)
Opening  == Open /\ executions' = Append(executions, Fresh)
Unopened == Open /\ Dies /\ executions' = executions

(* Opening appends a fresh execution of the cell and touches no other.     *)
LEMMA OpenFacts ==
  ASSUME ProtocolTypeOK, Opening
  PROVE  /\ Last' = Last + 1 /\ Numbers' = 1 .. Last + 1 /\ This' = Fresh
         /\ \A n \in Numbers : executions'[n] = executions[n]
         /\ runner = "open" /\ UNCHANGED <<session, attempt, timeline, bench>>
         /\ runner' = "reset" \/ (runner' = "dying" /\ failures' = failures + 1)
<1>1. executions \in Seq(Execution)
  BY DEF ProtocolTypeOK, Execution
<1>2. Fresh \in Execution
  BY PlanType DEF Fresh, Execution, Cell, ProtocolTypeOK
<1>3. executions' = Append(executions, Fresh)
  BY DEF Opening
<1>4. /\ runner = "open" /\ UNCHANGED <<session, attempt, timeline, bench>>
      /\ runner' = "reset" \/ (runner' = "dying" /\ failures' = failures + 1)
  BY DEF Opening, Open, Dies, Fails
<1>5. QED
  BY <1>1, <1>2, <1>3, <1>4, Appended DEF Last, Numbers, This

(* The writes of the executor.                                             *)
Says(e, status, rows, summary) ==
  /\ e.cell = This.cell /\ e.started = This.started /\ e.ended = This.ended
  /\ e.status = status /\ e.rows = rows /\ e.summary = summary

(* What the executor writes of status, line and summary is of the          *)
(* execution in work, and nothing else of it changes.                      *)
LEMMA StatusFacts ==
  ASSUME ProtocolTypeOK, InHand,
         WriteMetadata \/ MarkValid \/ Consolidate \/ MarkInvalid \/ Record
  PROVE  /\ Last > 0 /\ Last' = Last /\ Numbers' = Numbers
         /\ \A n \in Numbers : n # Last => executions'[n] = executions[n]
         /\ WriteMetadata =>
              Says(This', IF runner = "unready" /\ runner' = "invalid" THEN "INVALID" ELSE This.status,
                   This.rows, This.summary)
         /\ MarkValid =>
              Says(This', IF runner' = "consolidate" THEN "VALID" ELSE This.status, This.rows, This.summary)
         /\ Consolidate =>
              Says(This', This.status, This.rows, IF runner' = "print" THEN TRUE ELSE This.summary)
         /\ MarkInvalid =>
              Says(This', IF runner' = "record" THEN "INVALID" ELSE This.status, This.rows, This.summary)
         /\ Record =>
              Says(This', This.status, IF runner' = "print" THEN This.rows + 1 ELSE This.rows, This.summary)
<1>1. Last > 0 /\ This \in Execution /\ executions \in Seq(Execution)
  BY ThisType
  DEF WriteMetadata, MarkValid, Consolidate, MarkInvalid, Record, InHand, AtWork, ProtocolTypeOK, Execution
<1>2. /\ \A status \in {"open", "VALID", "INVALID"} : [This EXCEPT !.status = status] \in Execution
      /\ [This EXCEPT !.summary = TRUE] \in Execution
      /\ [This EXCEPT !.rows = @ + 1] \in Execution
  BY <1>1, MetadataType
<1>3. /\ Says(This, This.status, This.rows, This.summary)
      /\ \A status \in {"open", "VALID", "INVALID"} :
           Says([This EXCEPT !.status = status], status, This.rows, This.summary)
      /\ Says([This EXCEPT !.summary = TRUE], This.status, This.rows, TRUE)
      /\ Says([This EXCEPT !.rows = @ + 1], This.status, This.rows + 1, This.summary)
  BY <1>1 DEF Says, Execution
<1>4. executions = [executions EXCEPT ![Last] = This]
  BY <1>1 DEF This
<1>5. \A e \in Execution :
        executions' = [executions EXCEPT ![Last] = e] =>
          /\ Last' = Last /\ Numbers' = Numbers /\ This' = e
          /\ \A n \in Numbers : n # Last => executions'[n] = executions[n]
  BY <1>1, EditedThis
<1>6. CASE WriteMetadata
  <2>1. CASE runner = "unready" /\ runner' = "invalid"
    <3>0. Mark("INVALID")
      BY <1>6, <2>1 DEF WriteMetadata, Dies
    <3>1. executions' = [executions EXCEPT ![Last] = [This EXCEPT !.status = "INVALID"]]
      BY <3>0 DEF Mark, This
    <3>2. QED
      BY <1>1, <1>2, <1>3, <1>5, <1>6, <2>1, <3>1
         DEF MarkValid, Consolidate, MarkInvalid, Record
  <2>2. CASE ~(runner = "unready" /\ runner' = "invalid")
    <3>1. executions' = [executions EXCEPT ![Last] = This]
      BY <1>4, <1>6, <2>2 DEF WriteMetadata, Dies
    <3>2. QED
      BY <1>1, <1>3, <1>5, <1>6, <2>2, <3>1
         DEF WriteMetadata, MarkValid, Consolidate, MarkInvalid, Record
  <2>3. QED
    BY <2>1, <2>2
<1>7. CASE MarkValid
  <2>1. CASE runner' = "consolidate"
    <3>1. executions' = [executions EXCEPT ![Last] = [This EXCEPT !.status = "VALID"]]
      BY <1>7, <2>1 DEF MarkValid, Mark, This, Dies
    <3>2. QED
      BY <1>1, <1>2, <1>3, <1>5, <1>7, <2>1, <3>1
         DEF WriteMetadata, MarkValid, Consolidate, MarkInvalid, Record
  <2>2. CASE runner' # "consolidate"
    <3>1. executions' = [executions EXCEPT ![Last] = This]
      BY <1>4, <1>7, <2>2 DEF MarkValid
    <3>2. QED
      BY <1>1, <1>3, <1>5, <1>7, <2>2, <3>1
         DEF WriteMetadata, MarkValid, Consolidate, MarkInvalid, Record
  <2>3. QED
    BY <2>1, <2>2
<1>8. CASE Consolidate
  <2>1. CASE runner' = "print"
    <3>1. executions' = [executions EXCEPT ![Last] = [This EXCEPT !.summary = TRUE]]
      BY <1>8, <2>1 DEF Consolidate, Dies, This
    <3>2. QED
      BY <1>1, <1>2, <1>3, <1>5, <1>8, <2>1, <3>1
         DEF WriteMetadata, MarkValid, Consolidate, MarkInvalid, Record
  <2>2. CASE runner' # "print"
    <3>1. executions' = [executions EXCEPT ![Last] = This]
      BY <1>4, <1>8, <2>2 DEF Consolidate
    <3>2. QED
      BY <1>1, <1>3, <1>5, <1>8, <2>2, <3>1
         DEF WriteMetadata, MarkValid, Consolidate, MarkInvalid, Record
  <2>3. QED
    BY <2>1, <2>2
<1>9. CASE MarkInvalid
  <2>1. CASE runner' = "record"
    <3>1. executions' = [executions EXCEPT ![Last] = [This EXCEPT !.status = "INVALID"]]
      BY <1>9, <2>1 DEF MarkInvalid, Mark, This, Dies
    <3>2. QED
      BY <1>1, <1>2, <1>3, <1>5, <1>9, <2>1, <3>1
         DEF WriteMetadata, MarkValid, Consolidate, MarkInvalid, Record
  <2>2. CASE runner' # "record"
    <3>1. executions' = [executions EXCEPT ![Last] = This]
      BY <1>4, <1>9, <2>2 DEF MarkInvalid
    <3>2. QED
      BY <1>1, <1>3, <1>5, <1>9, <2>2, <3>1
         DEF WriteMetadata, MarkValid, Consolidate, MarkInvalid, Record
  <2>3. QED
    BY <2>1, <2>2
<1>10. CASE Record
  <2>1. CASE runner' = "print"
    <3>1. executions' = [executions EXCEPT ![Last] = [This EXCEPT !.rows = @ + 1]]
      BY <1>10, <2>1 DEF Record, This, Dies
    <3>2. QED
      BY <1>1, <1>2, <1>3, <1>5, <1>10, <2>1, <3>1
         DEF WriteMetadata, MarkValid, Consolidate, MarkInvalid, Record
  <2>2. CASE runner' # "print"
    <3>1. executions' = [executions EXCEPT ![Last] = This]
      BY <1>4, <1>10, <2>2 DEF Record
    <3>2. QED
      BY <1>1, <1>3, <1>5, <1>10, <2>2, <3>1
         DEF WriteMetadata, MarkValid, Consolidate, MarkInvalid, Record
  <2>3. QED
    BY <2>1, <2>2
<1>11. QED
  BY <1>6, <1>7, <1>8, <1>9, <1>10

(* The events of the thread of the fault.                                  *)
Shows(e, started, ended) ==
  /\ e.cell = This.cell /\ e.status = This.status /\ e.rows = This.rows /\ e.summary = This.summary
  /\ e.started = started /\ e.ended = ended

(* What the thread of the fault writes is the events of the execution in   *)
(* work.                                                                   *)
LEMMA EventFacts ==
  ASSUME ProtocolTypeOK, InHand, Window, Timeline
  PROVE  /\ Last > 0 /\ Last' = Last /\ Numbers' = Numbers
         /\ \A n \in Numbers : n # Last => executions'[n] = executions[n]
         /\ StartWindow => Shows(This', IF timeline' = "open" THEN 1 ELSE This.started, This.ended)
         /\ EndWindow => Shows(This', This.started, IF failures' = failures THEN 1 ELSE This.ended)
<1>1. Last > 0 /\ This \in Execution /\ executions \in Seq(Execution) /\ failures \in Nat
  <2>1. Last > 0
    BY DEF Timeline, StartWindow, EndWindow, Window, Live
  <2>2. executions \in Seq(Execution) /\ failures \in Nat
    BY ProtocolAssumption DEF ProtocolTypeOK, Execution
  <2>3. QED
    BY <2>1, <2>2, ThisType
<1>2. [This EXCEPT !.started = 1] \in Execution /\ [This EXCEPT !.ended = 1] \in Execution
  BY <1>1, MetadataType
<1>3. /\ Shows(This, This.started, This.ended)
      /\ Shows([This EXCEPT !.started = 1], 1, This.ended)
      /\ Shows([This EXCEPT !.ended = 1], This.started, 1)
  BY <1>1 DEF Shows, Execution
<1>4. executions = [executions EXCEPT ![Last] = This]
  BY <1>1 DEF This
<1>5. \A e \in Execution :
        executions' = [executions EXCEPT ![Last] = e] =>
          /\ Last' = Last /\ Numbers' = Numbers /\ This' = e
          /\ \A n \in Numbers : n # Last => executions'[n] = executions[n]
  BY <1>1, EditedThis
<1>6. CASE StartWindow
  <2>1. timeline' = "open" => executions' = [executions EXCEPT ![Last] = [This EXCEPT !.started = 1]]
    BY <1>6 DEF StartWindow, This
  <2>2. timeline' # "open" => executions' = [executions EXCEPT ![Last] = This]
    BY <1>4, <1>6 DEF StartWindow
  <2>3. timeline = "waiting"
    BY <1>6 DEF StartWindow
  <2>4. ~EndWindow
    BY <2>3 DEF EndWindow
  <2>5. QED
    BY <1>1, <1>2, <1>3, <1>5, <1>6, <2>1, <2>2, <2>4
<1>7. CASE EndWindow
  <2>1. failures' = failures => executions' = [executions EXCEPT ![Last] = [This EXCEPT !.ended = 1]]
    <3>1. failures' = failures => ~Fails
      BY <1>1 DEF Fails
    <3>2. QED
      BY <1>7, <3>1 DEF EndWindow, This
  <2>2. failures' # failures => executions' = [executions EXCEPT ![Last] = This]
    BY <1>4, <1>7 DEF EndWindow
  <2>3. timeline # "waiting"
    BY <1>7 DEF EndWindow
  <2>4. ~StartWindow
    BY <2>3 DEF StartWindow
  <2>5. QED
    BY <1>1, <1>2, <1>3, <1>5, <1>7, <2>1, <2>2, <2>4
<1>8. QED
  BY <1>6, <1>7 DEF Timeline

(* The steps that write nothing into the directories.                      *)
Quiet ==
  \/ Reset \/ Readiness \/ LLMReadiness \/ Apply \/ LoadSent \/ Settle \/ Validate
  \/ PrintResult \/ Die \/ Interrupt \/ Menu \/ Unopened \/ UNCHANGED vars

(* The other steps write no execution.                                     *)
LEMMA QuietFacts ==
  ASSUME Quiet
  PROVE  executions' = executions /\ Last' = Last /\ Numbers' = Numbers /\ This' = This
<1>1. executions' = executions
  BY DEF Quiet, Reset, Readiness, LLMReadiness, Apply, LoadSent, Settle, Validate, PrintResult, Die,
         Interrupt, Menu, NextCell, Launch, Watch, ChildEnds, EndCycle, Countdown, Unopened, vars
<1>2. QED
  BY <1>1 DEF Last, Numbers, This

(* Every step is one of these.                                             *)
LEMMA StepKinds ==
  ASSUME [Next]_vars
  PROVE  \/ Quiet \/ Opening \/ Timeline
         \/ WriteMetadata \/ MarkValid \/ Consolidate \/ MarkInvalid \/ Record
<1>1. Open => Opening \/ Unopened
  BY DEF Open, Opening, Unopened
<1>2. QED
  BY <1>1 DEF Next, Executor, Quiet

(* An execution stays with its cell; one that is behind stays as it is,    *)
(* but for the window of its fault, and this too once the window is over.  *)
LEMMA ExecutionsStay ==
  ASSUME ProtocolTypeOK, InHand, Window, [Next]_vars, NEW n \in Numbers
  PROVE  /\ n \in Numbers' /\ executions'[n].cell = executions[n].cell
         /\ n \in Over =>
              /\ n \in Over' /\ executions'[n].status = executions[n].status
              /\ executions'[n].rows = executions[n].rows
              /\ executions'[n].summary = executions[n].summary
         /\ n < Last \/ timeline \notin Live =>
              /\ executions'[n].started = executions[n].started
              /\ executions'[n].ended = executions[n].ended
<1>1. Last \in Nat /\ Numbers = 1 .. Last /\ n \in 1 .. Last
  BY NumbersFacts
<1>2. Last > 0 /\ This \in Execution /\ executions[Last] = This /\ executions'[Last'] = This'
  BY <1>1, ThisType DEF This
<1>3. CASE Quiet
  <2>1. executions' = executions /\ Last' = Last /\ Numbers' = Numbers
    BY <1>3, QuietFacts
  <2>2. CASE runner' \in {"none", "open", "print", "dying"}
    BY <2>1, <2>2, <1>1 DEF Over
  <2>3. CASE runner' \notin {"none", "open", "print", "dying"}
    <3>1. runner \notin {"none", "open", "print", "dying"}
      BY <1>3, <2>3
      DEF Quiet, Reset, Readiness, LLMReadiness, Apply, LoadSent, Settle, Validate, PrintResult, Die,
          Interrupt, Signalled, Menu, NextCell, Launch, Watch, ChildEnds, EndCycle, Countdown,
          Unopened, Dies, vars
    <3>2. QED
      BY <2>1, <3>1 DEF Over
  <2>4. QED
    BY <2>2, <2>3
<1>4. CASE Opening
  <2>1. Last' = Last + 1 /\ Numbers' = 1 .. Last + 1 /\ executions'[n] = executions[n]
    BY <1>4, OpenFacts
  <2>2. QED
    BY <1>1, <2>1 DEF Over
<1>5. CASE Timeline
  <2>1. /\ Last' = Last /\ Numbers' = Numbers
        /\ n # Last => executions'[n] = executions[n]
    BY <1>5, EventFacts
  <2>2. runner' = runner /\ timeline \in Live
    BY <1>5 DEF Timeline, StartWindow, EndWindow, Live
  <2>3. This'.cell = This.cell /\ This'.status = This.status /\ This'.rows = This.rows
        /\ This'.summary = This.summary
    BY <1>5, EventFacts DEF Timeline, Shows
  <2>4. QED
    BY <1>1, <1>2, <2>1, <2>2, <2>3 DEF Over
<1>6. CASE WriteMetadata \/ MarkValid \/ Consolidate \/ MarkInvalid \/ Record
  <2>1. /\ Last' = Last /\ Numbers' = Numbers
        /\ n # Last => executions'[n] = executions[n]
    BY <1>6, StatusFacts
  <2>2. runner \notin {"none", "open", "print", "dying"}
    BY <1>6 DEF WriteMetadata, MarkValid, Consolidate, MarkInvalid, Record
  <2>3. This'.cell = This.cell /\ This'.started = This.started /\ This'.ended = This.ended
    BY <1>6, StatusFacts DEF Says
  <2>4. QED
    BY <1>1, <1>2, <2>1, <2>2, <2>3 DEF Over
<1>7. QED
  BY <1>3, <1>4, <1>5, <1>6, StepKinds

-----------------------------------------------------------------------------
(* The control of the menu and of its child.                               *)

(* Only Ctrl+C counts, forces and kills; it does so with a child running.  *)
LEMMA StopStays ==
  ASSUME ProtocolTypeOK, [Next]_vars
  PROVE  /\ stop'.count >= stop.count /\ (stop.forced => stop'.forced)
         /\ failures' \in Nat /\ failures' >= failures
         /\ Interrupt \/ stop' = stop
<1>1. stop \in [count: 0 .. MaxInterrupts, forced: BOOLEAN] /\ failures \in Nat /\ MaxInterrupts \in Nat
  BY ProtocolAssumption DEF ProtocolTypeOK
<1>2. stop' = stop \/ stop' = [count |-> stop.count + 1, forced |-> TRUE]
      \/ stop' = [stop EXCEPT !.count = @ + 1]
  BY DEF Next, Executor, Open, Reset, Readiness, LLMReadiness, WriteMetadata, Apply, LoadSent, Settle,
         Validate, MarkValid, Consolidate, MarkInvalid, Record, PrintResult, Die, Timeline,
         StartWindow, EndWindow, Menu, NextCell, Launch, Watch, ChildEnds, EndCycle, Countdown,
         Interrupt, session, vars
<1>3. UNCHANGED failures \/ Fails
  BY DEF Next, Executor, Open, Reset, Readiness, LLMReadiness, WriteMetadata, Apply, LoadSent, Settle,
         Validate, MarkValid, Consolidate, MarkInvalid, Record, PrintResult, Die, Dies, Timeline,
         StartWindow, EndWindow, Menu, NextCell, Launch, Watch, ChildEnds, EndCycle, Countdown,
         Interrupt, vars
<1>4. Interrupt \/ stop' = stop
  BY DEF Next, Executor, Open, Reset, Readiness, LLMReadiness, WriteMetadata, Apply, LoadSent, Settle,
         Validate, MarkValid, Consolidate, MarkInvalid, Record, PrintResult, Die, Timeline,
         StartWindow, EndWindow, Menu, NextCell, Launch, Watch, ChildEnds, EndCycle, Countdown,
         session, vars
<1>5. stop'.count >= stop.count /\ (stop.forced => stop'.forced)
  BY <1>1, <1>2
<1>6. QED
  BY <1>1, <1>3, <1>4, <1>5 DEF Fails

(* The control is kept.                                                    *)
LEMMA ControlStep ==
  ASSUME ProtocolTypeOK, Control, [Next]_vars
  PROVE  Control'
<1> USE DEF Requested
<1>0. stop \in [count: 0 .. MaxInterrupts, forced: BOOLEAN] /\ MaxInterrupts \in Nat
      /\ report \in [results: SUBSET Numbers, notRun: SUBSET Cells, interrupted: SUBSET Cells]
      /\ cycle \in 1 .. Cycles /\ Cycles \in Nat
  BY ProtocolAssumption DEF ProtocolTypeOK
<1>1. CASE UNCHANGED vars
  BY <1>1 DEF Control, vars
<1>2. CASE Executor /\ ~PrintResult
  <2>1. UNCHANGED session /\ runner \notin {"none"} /\ (runner = "dying" => runner' = "none")
    BY <1>2 DEF Executor, Open, Reset, Readiness, LLMReadiness, WriteMetadata, Apply, LoadSent, Settle,
           Validate, MarkValid, Consolidate, MarkInvalid, Record, Die
  <2>2. QED
    BY <2>1 DEF Control, session
<1>3. CASE PrintResult
  <2>1. report'.notRun = report.notRun /\ report'.interrupted = report.interrupted
    BY <1>0, <1>3 DEF PrintResult
  <2>2. QED
    BY <1>3, <2>1 DEF PrintResult, Control
<1>4. CASE Timeline
  BY <1>4 DEF Timeline, StartWindow, EndWindow, Control, session
<1>5. CASE Interrupt
  <2>1. CASE Running /\ stop.count >= 1
    <3>1. stop'.count >= 2 /\ menu = "running" /\ runner' \in {"none", "dying"}
      BY <1>0, <1>5, <2>1 DEF Interrupt, Running, Signalled
    <3>2. QED
      BY <1>0, <1>5, <3>1 DEF Interrupt, Control
  <2>2. CASE ~(Running /\ stop.count >= 1)
    <3>1. stop' = [stop EXCEPT !.count = @ + 1] /\ runner' = runner
      BY <1>5, <2>2 DEF Interrupt
    <3>2. stop'.count = stop.count + 1 /\ stop'.forced = stop.forced
      BY <1>0, <3>1
    <3>3. QED
      BY <1>0, <1>5, <3>1, <3>2 DEF Interrupt, Control
  <2>3. QED
    BY <2>1, <2>2
<1>6. CASE NextCell
  BY <1>0, <1>6 DEF NextCell, Control
<1>7. CASE Launch \/ Watch
  BY <1>0, <1>7 DEF Launch, Watch, Control
<1>8. CASE ChildEnds
  BY <1>0, <1>8 DEF ChildEnds, Control
<1>9. CASE EndCycle \/ Countdown
  BY <1>0, <1>9 DEF EndCycle, Countdown, Control
<1>10. QED
  BY <1>1, <1>2, <1>3, <1>4, <1>5, <1>6, <1>7, <1>8, <1>9 DEF Next, Menu

-----------------------------------------------------------------------------
(* The execution in work.                                                  *)

(* What it says of the execution in work is kept.                          *)
LEMMA InHandStep ==
  ASSUME ProtocolTypeOK, Control, InHand, Window, [Next]_vars
  PROVE  InHand'
<1>0. Last \in Nat /\ (Last > 0 => This \in Execution)
      /\ stop \in [count: 0 .. MaxInterrupts, forced: BOOLEAN]
      /\ failures \in Nat /\ failures' \in Nat /\ failures' >= failures
  BY NumbersFacts, ThisType, StopStays, ProtocolAssumption DEF ProtocolTypeOK
<1>1. UNCHANGED <<cycle, place>> => Cell' = Cell
  BY DEF Cell
<1>2. CASE UNCHANGED vars
  <2>1. executions' = executions /\ Last' = Last /\ This' = This
    BY <1>2, QuietFacts DEF Quiet
  <2>2. QED
    BY <1>1, <1>2, <2>1 DEF vars, InHand, AtWork
<1>3. CASE Reset \/ Readiness \/ LLMReadiness \/ Apply \/ LoadSent \/ Settle \/ Validate \/ Die
  <2>1. Last' = Last /\ This' = This
    BY <1>3, QuietFacts DEF Quiet
  <2>2. Cell' = Cell
    BY <1>1, <1>3
    DEF Reset, Readiness, LLMReadiness, Apply, LoadSent, Settle, Validate, Die, session
  <2>3. AtWork' => /\ runner' \notin {"consolidate", "record", "print"}
                   /\ runner \in Trial \ {"refused", "unready"}
    BY <1>3
    DEF Reset, Readiness, LLMReadiness, Apply, LoadSent, Settle, Validate, Die, Dies, AtWork, Trial,
        Before
  <2>4. AtWork' /\ runner' \in {"refused", "unready", "invalid"} => failures' > 0
    <3>1. Fails => failures' > 0
      BY <1>0 DEF Fails
    <3>2. CASE Validate /\ ~Fails
      <4>1. timeline \notin Live
        BY <3>2 DEF Validate, ProtocolTypeOK, Live
      <4>2. This.started = This.ended \/ failures > 0
        BY <3>2, <4>1 DEF Validate, Window
      <4>3. QED
        BY <3>2, <4>2 DEF Validate, WindowsClosed
    <3>3. CASE ~Validate \/ Fails
      BY <1>3, <3>1, <3>3
      DEF Reset, Readiness, LLMReadiness, Apply, LoadSent, Settle, Die, Dies, AtWork
    <3>4. QED
      BY <3>2, <3>3
  <2>5. QED
    BY <2>1, <2>2, <2>3, <2>4 DEF InHand, Abandoned, AtWork, Trial, Before
<1>4. CASE PrintResult
  BY <1>4 DEF PrintResult, InHand, AtWork
<1>5. CASE Open
  <2>1. CASE Unopened
    BY <2>1 DEF Unopened, Dies, InHand, AtWork
  <2>2. CASE Opening
    <3>1. Last' = Last + 1 /\ This' = Fresh /\ runner' \in {"reset", "dying"} /\ Cell' = Cell
      BY <1>1, <2>2, OpenFacts DEF session
    <3>2. QED
      BY <1>0, <3>1 DEF InHand, AtWork, Trial, Before, Fresh, Abandoned
  <2>3. QED
    BY <1>5, <2>1, <2>2 DEF Open, Opening, Unopened
<1>6. CASE WriteMetadata
  <2>1. Last > 0 /\ Last' = Last
    BY <1>6, StatusFacts
  <2>2. Says(This', IF runner = "unready" /\ runner' = "invalid" THEN "INVALID" ELSE This.status,
             This.rows, This.summary)
    BY <1>6, StatusFacts
  <2>3. Cell' = Cell /\ stop' = stop
    BY <1>1, <1>6 DEF WriteMetadata, session
  <2>4. runner \in {"ready", "refused", "unready"} /\ runner' \in {"apply", "invalid", "dying"}
    BY <1>6 DEF WriteMetadata, Dies
  <2>5. runner' = "invalid" => failures' > 0
    BY <1>0, <1>6 DEF WriteMetadata, Dies, InHand, AtWork
  <2>6. QED
    BY <2>1, <2>2, <2>3, <2>4, <2>5 DEF InHand, AtWork, Trial, Before, Abandoned, Says
<1>7. CASE MarkValid
  <2>1. /\ Last > 0 /\ Last' = Last
        /\ runner' = "consolidate" => Says(This', "VALID", This.rows, This.summary)
    BY <1>7, StatusFacts
  <2>2. runner = "valid" /\ runner' \in {"consolidate", "dying"} /\ Cell' = Cell
    BY <1>1, <1>7 DEF MarkValid, Dies, session
  <2>3. QED
    BY <2>1, <2>2 DEF InHand, AtWork, Trial, Before, Says, Abandoned
<1>8. CASE Consolidate
  <2>1. /\ Last > 0 /\ Last' = Last
        /\ Says(This', This.status, This.rows, IF runner' = "print" THEN TRUE ELSE This.summary)
    BY <1>8, StatusFacts
  <2>2. runner = "consolidate" /\ runner' \in {"print", "dying"} /\ Cell' = Cell /\ stop' = stop
    BY <1>1, <1>8 DEF Consolidate, Dies, session
  <2>3. QED
    BY <2>1, <2>2 DEF InHand, AtWork, Trial, Before, Says, Finished, Abandoned
<1>9. CASE MarkInvalid
  <2>1. /\ Last > 0 /\ Last' = Last
        /\ runner' = "record" => Says(This', "INVALID", This.rows, This.summary)
    BY <1>9, StatusFacts
  <2>2. runner = "invalid" /\ runner' \in {"record", "dying"} /\ Cell' = Cell
    BY <1>1, <1>9 DEF MarkInvalid, Dies, session
  <2>3. QED
    BY <1>0, <2>1, <2>2 DEF InHand, AtWork, Trial, Before, Says, Abandoned
<1>10. CASE Record
  <2>1. /\ Last > 0 /\ Last' = Last
        /\ runner' = "print" => Says(This', This.status, This.rows + 1, This.summary)
    BY <1>10, StatusFacts
  <2>2. runner = "record" /\ runner' \in {"print", "dying"} /\ Cell' = Cell
    BY <1>1, <1>10 DEF Record, Dies, session
  <2>3. QED
    BY <2>1, <2>2 DEF InHand, AtWork, Trial, Before, Says, Finished, Abandoned
<1>11. CASE Timeline
  <2>1. Last > 0 /\ Last' = Last
    BY <1>11, EventFacts
  <2>2. This'.cell = This.cell /\ This'.status = This.status /\ This'.rows = This.rows
        /\ This'.summary = This.summary
    BY <1>11, EventFacts DEF Timeline, Shows
  <2>3. Cell' = Cell /\ runner' = runner
    BY <1>1, <1>11 DEF Timeline, StartWindow, EndWindow, session
  <2>4. QED
    BY <1>0, <2>1, <2>2, <2>3 DEF InHand, AtWork, Finished, Abandoned
<1>12. CASE Interrupt
  <2>1. Last' = Last /\ This' = This /\ Cell' = Cell /\ failures' = failures
    BY <1>1, <1>12, QuietFacts DEF Quiet, Interrupt
  <2>2. CASE Running /\ stop.count >= 1
    <3>1. runner' = "none" \/ runner' = "dying"
      BY <1>12, <2>2 DEF Interrupt, Signalled
    <3>2. QED
      BY <3>1 DEF InHand, AtWork
  <2>3. CASE ~(Running /\ stop.count >= 1)
    <3>1. runner' = runner
      BY <1>12, <2>3 DEF Interrupt
    <3>2. QED
      BY <2>1, <3>1 DEF InHand, AtWork
  <2>4. QED
    BY <2>2, <2>3
<1>13. CASE Menu
  <2>1. CASE Watch
    <3>1. Last' = Last /\ This' = This /\ Cell' = Cell /\ runner' = runner /\ failures' = failures
      BY <1>1, <1>13, <2>1, QuietFacts DEF Quiet, Watch
    <3>2. QED
      BY <3>1 DEF InHand, AtWork
  <2>2. CASE ~Watch
    <3>1. runner' \in {"none", "open"}
      BY <1>13, <2>2
      DEF Menu, NextCell, Launch, ChildEnds, EndCycle, Countdown, Control, ProtocolTypeOK
    <3>2. QED
      BY <3>1 DEF InHand, AtWork
  <2>3. QED
    BY <2>1, <2>2
<1>14. QED
  BY <1>2, <1>3, <1>4, <1>5, <1>6, <1>7, <1>8, <1>9, <1>10, <1>11, <1>12, <1>13
  DEF Next, Executor

-----------------------------------------------------------------------------
(* The window of the fault.                                                *)

(* Only MarkValid makes an execution VALID, the one in work.               *)
LEMMA ValidOrigin ==
  ASSUME ProtocolTypeOK, InHand, Window, [Next]_vars, NEW n \in Numbers',
         executions'[n].status = "VALID"
  PROVE  \/ n \in Numbers /\ executions[n].status = "VALID"
         \/ MarkValid /\ n = Last /\ n \in Numbers
<1>1. Last \in Nat /\ Numbers = 1 .. Last
  BY NumbersFacts
<1>2. CASE n \in Numbers /\ executions[n].status # "VALID"
  <2>1. CASE Quiet
    BY <1>2, <2>1, QuietFacts
  <2>2. CASE Opening
    BY <1>2, <2>2, OpenFacts
  <2>3. CASE Timeline
    BY <1>2, <2>3, EventFacts DEF Shows, Timeline, This
  <2>4. CASE WriteMetadata \/ Consolidate \/ MarkInvalid \/ Record
    BY <1>2, <2>4, StatusFacts DEF Says, This
  <2>5. CASE MarkValid
    BY <1>2, <2>5, StatusFacts
  <2>6. QED
    BY <2>1, <2>2, <2>3, <2>4, <2>5, StepKinds
<1>3. CASE n \notin Numbers
  <2>1. Opening
    BY <1>3, StepKinds, QuietFacts, EventFacts, StatusFacts
  <2>2. n = Last + 1 /\ executions'[n] = Fresh
    BY <1>1, <1>3, <2>1, OpenFacts DEF This
  <2>3. QED
    BY <2>2 DEF Fresh
<1>4. QED
  BY <1>2, <1>3

(* Only what had its fault becomes VALID, and its events are over.         *)
LEMMA ValidStep ==
  ASSUME ProtocolTypeOK, InHand, Window, [Next]_vars, NEW n \in Numbers',
         executions'[n].status = "VALID"
  PROVE  HadFault(executions[n])'
<1>0. Last \in Nat /\ Numbers = 1 .. Last /\ failures \in Nat
      /\ failures' \in Nat /\ failures' >= failures
  BY NumbersFacts, StopStays, ProtocolAssumption DEF ProtocolTypeOK
<1>1. CASE n \in Numbers /\ executions[n].status = "VALID"
  <2>1. n < Last \/ timeline \notin Live
    BY <1>0, <1>1 DEF Window, This
  <2>2. /\ executions'[n].cell = executions[n].cell
        /\ executions'[n].started = executions[n].started
        /\ executions'[n].ended = executions[n].ended
    BY <1>1, <2>1, ExecutionsStay
  <2>3. HadFault(executions[n])
    BY <1>1 DEF Window
  <2>4. QED
    BY <1>0, <2>2, <2>3 DEF HadFault
<1>2. CASE MarkValid /\ n = Last
  <2>1. Last' = Last /\ This'.started = This.started /\ This'.ended = This.ended
        /\ This'.cell = This.cell
    BY <1>2, StatusFacts DEF Says
  <2>2. HadFault(This)
    BY <1>2 DEF Window, MarkValid
  <2>3. executions'[n] = This'
    BY <1>2, <2>1 DEF This
  <2>4. QED
    BY <1>0, <2>1, <2>2, <2>3 DEF HadFault
<1>3. QED
  BY <1>1, <1>2, ValidOrigin

(* What the window has recorded is kept.                                   *)
LEMMA WindowStep ==
  ASSUME ProtocolTypeOK, Control, InHand, Window, [Next]_vars
  PROVE  Window'
<1>0. /\ Last \in Nat /\ (Last > 0 => This \in Execution)
      /\ stop \in [count: 0 .. MaxInterrupts, forced: BOOLEAN] /\ failures \in Nat
      /\ failures' \in Nat /\ failures' >= failures /\ (stop.forced => stop'.forced)
  BY NumbersFacts, ThisType, StopStays, ProtocolAssumption DEF ProtocolTypeOK
<1>1. \A n \in Numbers' : (executions[n].status = "VALID" => HadFault(executions[n]))'
  BY ValidStep
<1>2. timeline \in Live => runner \in {"load", "dying"}
  BY DEF ProtocolTypeOK, Live
<1> USE DEF Outage
<1>3. CASE UNCHANGED vars
  <2>1. Last' = Last /\ This' = This
    BY <1>3, QuietFacts DEF Quiet
  <2>2. QED
    BY <1>1, <1>3, <2>1 DEF vars, Window, HadFault
<1>4. CASE Open
  <2>1. Opening => Last' = Last + 1 /\ This' = Fresh
    BY OpenFacts
  <2>2. /\ runner = "open" /\ timeline' = timeline
        /\ runner' = "dying" \/ (runner' = "reset" /\ Opening)
    BY <1>4 DEF Open, Dies, Opening
  <2>3. timeline' \notin Live
    BY <1>2, <2>2 DEF Live
  <2>4. QED
    BY <1>0, <1>1, <2>1, <2>2, <2>3 DEF Window, Live, Fresh, Before
<1>5. CASE Reset \/ Readiness \/ LLMReadiness
  <2>1. Last' = Last /\ This' = This
    BY <1>5, QuietFacts DEF Quiet
  <2>2. timeline' = timeline /\ runner \in Before /\ runner' \in Before \cup {"invalid", "dying"}
    BY <1>5 DEF Reset, Readiness, LLMReadiness, Before
  <2>3. timeline' \notin Live
    BY <1>2, <2>2 DEF Before
  <2>4. QED
    BY <1>1, <2>1, <2>2, <2>3 DEF Window, Live, Before
<1>6. CASE Apply
  <2>1. Last' = Last /\ This' = This
    BY <1>6, QuietFacts DEF Quiet
  <2>2. /\ Last > 0 /\ This.status = "open" /\ This.started = 0 /\ This.ended = 0
    BY <1>6 DEF Apply, InHand, AtWork, Trial, Before, Window
  <2>3. \/ runner' = "load" /\ timeline' = (IF HasWindow(This.cell.scenario) THEN "waiting" ELSE "none")
        \/ runner' = "dying" /\ timeline' = "none"
        \/ runner' = "dying" /\ timeline' = timeline /\ timeline \notin Live
    BY <1>2, <1>6 DEF Apply, Dies
  <2>4. QED
    BY <1>0, <1>1, <2>1, <2>2, <2>3 DEF Window, Live, Before
<1>7. CASE LoadSent
  <2>1. Last' = Last /\ This' = This
    BY <1>7, QuietFacts DEF Quiet
  <2>2. /\ runner = "load" /\ runner' = "settle" /\ timeline' = timeline
        /\ timeline \notin Live /\ failures' = failures
    BY <1>7 DEF LoadSent, TimelineOver, Live
  <2>3. QED
    BY <1>1, <2>1, <2>2 DEF Window, Live, Before
<1>8. CASE Settle
  <2>1. Last' = Last /\ This' = This
    BY <1>8, QuietFacts DEF Quiet
  <2>2. /\ runner = "settle" /\ runner' \in {"validate", "dying"} /\ timeline' = timeline
        /\ timeline \notin Live
    BY <1>2, <1>8 DEF Settle, Dies
  <2>3. QED
    BY <1>0, <1>1, <2>1, <2>2 DEF Window, Live, Before
<1>9. CASE Validate
  <2>1. Last' = Last /\ This' = This
    BY <1>9, QuietFacts DEF Quiet
  <2>2. /\ runner = "validate" /\ timeline' = timeline /\ timeline \notin Live
        /\ runner' = "invalid" \/ (runner' = "valid" /\ WindowsClosed(This) /\ failures' = failures)
    BY <1>2, <1>9 DEF Validate
  <2>3. timeline \in {"none", "ended"}
    BY <2>2 DEF ProtocolTypeOK, Live
  <2>4. WindowsClosed(This) => HadFault(This)
    BY <2>2, <2>3 DEF Window, WindowsClosed, HadFault
  <2>5. runner' = "valid" => HadFault(This)'
    BY <2>1, <2>2, <2>4 DEF HadFault
  <2>6. QED
    BY <1>1, <2>1, <2>2, <2>5 DEF Window, Live, Before
<1>10. CASE WriteMetadata
  <2>1. Last' = Last /\ This'.started = This.started /\ This'.ended = This.ended
    BY <1>10, StatusFacts DEF Says
  <2>2. /\ runner \in Before /\ runner' \in Before \cup {"invalid", "dying"}
        /\ timeline' = timeline
    BY <1>10 DEF WriteMetadata, Dies, Before
  <2>3. timeline' \notin Live
    BY <1>2, <2>2 DEF Before
  <2>4. runner' \notin {"load", "settle", "validate", "valid"}
    BY <2>2 DEF Before
  <2>5. QED
    BY <1>1, <2>1, <2>2, <2>3, <2>4 DEF Window, Live, Before
<1>11. CASE MarkValid \/ Consolidate \/ MarkInvalid \/ Record \/ PrintResult
  <2>1. /\ runner \in {"valid", "consolidate", "invalid", "record", "print"} /\ timeline' = timeline
        /\ runner' \in {"consolidate", "print", "dying", "record", "none", "open"}
    BY <1>11 DEF MarkValid, Consolidate, Dies, MarkInvalid, Record, PrintResult
  <2>2. timeline' \notin Live
    BY <1>2, <2>1
  <2>3. QED
    BY <1>1, <2>1, <2>2 DEF Window, Live, Before
<1>12. CASE Die
  <2>1. runner' = "none" /\ timeline' = timeline /\ timeline \notin Live
    BY <1>12 DEF Die, TimelineOver, Live
  <2>2. QED
    BY <1>1, <2>1 DEF Window, Live, Before
<1>13. CASE StartWindow
  <2>1. /\ Last > 0 /\ Last' = Last
        /\ Shows(This', IF timeline' = "open" THEN 1 ELSE This.started, This.ended)
    BY <1>13, EventFacts DEF Timeline
  <2>2. /\ timeline = "waiting" /\ runner' = runner /\ stop' = stop
        /\ timeline' = "open" \/ (timeline' = "closing" /\ failures' = failures + 1)
    BY <1>13 DEF StartWindow, session, Fails
  <2>3. runner \in {"load", "dying"}
    BY <1>2, <2>2 DEF Live
  <2>4. This.status = "open" /\ This.ended = 0 /\ This.started = 0 /\ (runner = "dying" => stop.forced)
    BY <2>2 DEF Window, Live
  <2>5. failures' = failures + 1 => failures' >= 1
    BY <1>0
  <2>6. timeline' \in Live /\ timeline' # "ended" /\ timeline' # "none"
    BY <2>2 DEF Live
  <2>7. QED
    BY <1>1, <2>1, <2>2, <2>3, <2>4, <2>5, <2>6 DEF Window, Shows, Before
<1>14. CASE EndWindow
  <2>1. /\ Last > 0 /\ Last' = Last
        /\ Shows(This', This.started, IF failures' = failures THEN 1 ELSE This.ended)
    BY <1>14, EventFacts DEF Timeline
  <2>2. /\ timeline \in {"open", "closing"} /\ timeline' = "ended" /\ runner' = runner /\ stop' = stop
        /\ failures' = failures \/ failures' = failures + 1
    BY <1>14 DEF EndWindow, session, Fails
  <2>3. runner \in {"load", "dying"}
    BY <1>2, <2>2 DEF Live
  <2>4. This.ended = 0 /\ This.started = (IF timeline = "open" THEN 1 ELSE 0)
    BY <2>2 DEF Window, Live
  <2>5. runner = "load" => ~stop.forced
    BY DEF Control
  <2>6. runner = "load" /\ This'.started = This'.ended => This'.started = 1 \/ failures' >= 2
    <3>1. CASE timeline = "open"
      BY <2>1, <2>4, <3>1 DEF Shows
    <3>2. CASE timeline = "closing"
      BY <1>0, <2>1, <2>2, <2>4, <2>5, <3>2 DEF Shows, Window
    <3>3. QED
      BY <2>2, <3>1, <3>2
  <2>7. runner = "load" => This'.started = This'.ended \/ failures' > 0
    <3>1. CASE timeline = "open"
      BY <1>0, <2>1, <2>2, <2>4, <3>1 DEF Shows
    <3>2. CASE timeline = "closing"
      BY <1>0, <2>5, <3>2 DEF Window
    <3>3. QED
      BY <2>2, <3>1, <3>2
  <2>8. QED
    BY <1>1, <2>2, <2>3, <2>6, <2>7 DEF Window, Live, Before
<1>15. CASE Interrupt
  <2>1. Last' = Last /\ This' = This /\ failures' = failures
    BY <1>15, QuietFacts DEF Quiet, Interrupt
  <2>2. CASE Running /\ stop.count >= 1
    <3>1. stop'.forced /\ runner' \in {"none", "dying"}
      BY <1>15, <2>2 DEF Interrupt, Signalled
    <3>2. \/ timeline' \notin Live
          \/ timeline' = timeline
          \/ timeline = "waiting" /\ timeline' = "closing" /\ Fault[This.cell.scenario] = "outage"
      BY <1>15, <2>2 DEF Interrupt, Signalled, CommandCut, ResetCut, Live
    <3>3. QED
      BY <1>1, <2>1, <3>1, <3>2 DEF Window, Live, Before
  <2>3. CASE ~(Running /\ stop.count >= 1)
    <3>1. stop' = [stop EXCEPT !.count = @ + 1] /\ runner' = runner /\ timeline' = timeline
      BY <1>15, <2>3 DEF Interrupt
    <3>2. stop'.forced = stop.forced
      BY <1>0, <3>1
    <3>3. HadFault(This) => HadFault(This)'
      BY <2>1 DEF HadFault
    <3>4. QED
      BY <1>1, <2>1, <3>1, <3>2, <3>3 DEF Window
  <2>4. QED
    BY <2>2, <2>3
<1>16. CASE Menu
  <2>1. Last' = Last /\ This' = This
    BY <1>16, QuietFacts DEF Quiet
  <2>2. timeline' = timeline /\ failures' = failures /\ stop' = stop
    BY <1>16 DEF Menu, NextCell, Launch, Watch, ChildEnds, EndCycle, Countdown
  <2>3. runner' = runner \/ (runner = "none" /\ runner' = "open")
    BY <1>16
    DEF Menu, NextCell, Launch, Watch, ChildEnds, EndCycle, Countdown, Control, ProtocolTypeOK
  <2>4. HadFault(This) => HadFault(This)'
    BY <2>1, <2>2 DEF HadFault
  <2>5. QED
    BY <1>1, <1>2, <2>1, <2>2, <2>3, <2>4 DEF Window, Before
<1>17. QED
  BY <1>3, <1>4, <1>5, <1>6, <1>7, <1>8, <1>9, <1>10, <1>11, <1>12, <1>13, <1>14, <1>15, <1>16
  DEF Next, Executor, Timeline

-----------------------------------------------------------------------------
(* What is left on the bench.                                              *)

(* An excuse stays one.                                                    *)
LEMMA ExcuseStays ==
  ASSUME ProtocolTypeOK, InHand, Window, [Next]_vars, NEW n \in Numbers,
         n < Last \/ timeline \notin Live, Excused(executions[n])
  PROVE  Excused(executions[n])'
<1>1. /\ executions'[n].cell = executions[n].cell
      /\ executions'[n].started = executions[n].started
  BY ExecutionsStay
<1>2. /\ stop'.count >= stop.count /\ (stop.forced => stop'.forced) /\ failures' >= failures
      /\ failures \in Nat /\ failures' \in Nat
  BY StopStays, ProtocolAssumption DEF ProtocolTypeOK
<1>3. CASE failures >= (IF executions[n].started = 1 THEN 1 ELSE 2)
  BY <1>1, <1>2, <1>3 DEF Excused
<1>4. CASE stop.forced /\ Fault[executions[n].cell.scenario] = "outage"
  BY <1>1, <1>2, <1>4 DEF Excused
<1>5. CASE stop.forced /\ stop.count >= 3
  <2>1. stop' = stop \/ Interrupt
    BY StopStays
  <2>2. stop'.count >= 3
    BY <1>5, <2>1 DEF Interrupt, ProtocolTypeOK
  <2>3. QED
    BY <1>2, <1>5, <2>2 DEF Excused
<1>6. QED
  BY <1>3, <1>4, <1>5 DEF Excused

(* Numbers only grow.                                                      *)
LEMMA LastGrows ==
  ASSUME ProtocolTypeOK, Control, InHand, Window, [Next]_vars
  PROVE  /\ Last \in Nat /\ Numbers = 1 .. Last /\ Last' \in Nat /\ Numbers' = 1 .. Last'
         /\ Last' >= Last /\ (Last' # Last => Opening)
<1>1. Last' \in Nat /\ Numbers' = 1 .. Last'
  BY TypeStep, NumbersFacts DEF ProtocolTypeOK, Last, Numbers
<1>2. Last' >= Last /\ (Last' # Last => Opening)
  <2>1. CASE Opening
    BY <2>1, OpenFacts, NumbersFacts
  <2>2. CASE ~Opening
    <3>1. Last' = Last
      BY <2>2, StepKinds, QuietFacts, EventFacts, StatusFacts
    <3>2. QED
      BY <3>1, NumbersFacts
  <2>3. QED
    BY <2>1, <2>2
<1>3. QED
  BY <1>1, <1>2, NumbersFacts

(* A fault that was left is still excused.                                 *)
LEMMA LeftOnBench ==
  ASSUME ProtocolTypeOK, Control, InHand, Window, Bench, [Next]_vars,
         UNCHANGED bench, timeline \notin Live
  PROVE  perturbed' => services' \in Numbers' /\ Excused(executions[services])'
<1>1. perturbed' => services \in Numbers /\ Excused(executions[services])
  BY DEF Bench, bench
<1>2. \A n \in Numbers : Excused(executions[n]) => Excused(executions[n])'
  BY ExcuseStays
<1>3. \A n \in Numbers : n = services => (Excused(executions[n])' <=> Excused(executions[services])')
  BY DEF Excused, bench
<1>4. services \in Numbers => services' \in Numbers'
  BY LastGrows DEF bench
<1>5. QED
  BY <1>1, <1>2, <1>3, <1>4

(* What is said of the bench is kept.                                      *)
LEMMA BenchStep ==
  ASSUME ProtocolTypeOK, Control, InHand, Window, Bench, [Next]_vars
  PROVE  Bench'
<1>0. /\ Last \in Nat /\ Numbers = 1 .. Last /\ Last' \in Nat /\ Numbers' = 1 .. Last'
      /\ Last' >= Last /\ (Last' # Last => Opening)
  BY LastGrows
<1>1. /\ timeline \in Live => runner \in {"load", "dying"} /\ services = Last /\ Last > 0
      /\ stop \in [count: 0 .. MaxInterrupts, forced: BOOLEAN] /\ failures \in Nat
      /\ MaxInterrupts \in Nat
  BY ProtocolAssumption DEF ProtocolTypeOK, Live, Bench, Window
<1>2. UNCHANGED bench /\ timeline \notin Live =>
        (perturbed' => services' \in Numbers' /\ Excused(executions[services])')
  BY LeftOnBench
<1>3. CASE Open
  <2>1. UNCHANGED bench /\ timeline' = timeline /\ timeline \notin Live /\ runner' \in {"reset", "dying"}
    BY <1>1, <1>3 DEF Open, Dies
  <2>2. QED
    BY <1>2, <2>1 DEF Bench, Live
<1>4. CASE \/ Readiness \/ LLMReadiness \/ WriteMetadata \/ LoadSent \/ Settle \/ Validate \/ MarkValid
           \/ Consolidate \/ MarkInvalid \/ Record \/ PrintResult \/ Die
  <2>1. UNCHANGED bench /\ timeline' = timeline /\ Last' = Last
    BY <1>0, <1>4
    DEF Readiness, LLMReadiness, WriteMetadata, LoadSent, Settle, Validate, MarkValid,
        Consolidate, MarkInvalid, Record, PrintResult, Die, Opening, Open
  <2>2. timeline \notin Live
    BY <1>1, <1>4
    DEF Readiness, LLMReadiness, WriteMetadata, LoadSent, Settle, Validate, MarkValid, TimelineOver,
        Consolidate, MarkInvalid, Record, PrintResult, Die, Live
  <2>3. runner' \in {"llm", "ready", "unready", "apply"} => services = Last /\ ~perturbed
    BY <1>4
    DEF Readiness, LLMReadiness, WriteMetadata, LoadSent, Settle, Validate, MarkValid,
        Consolidate, MarkInvalid, Record, PrintResult, Die, Dies, Bench
  <2>4. QED
    BY <1>2, <2>1, <2>2, <2>3 DEF Bench, bench, Live
<1>5. CASE Apply
  <2>1. UNCHANGED bench /\ Last' = Last /\ services = Last /\ ~perturbed
    BY <1>0, <1>5 DEF Apply, Opening, Open, Bench
  <2>2. runner' \in {"load", "dying"}
    BY <1>5 DEF Apply, Dies
  <2>3. QED
    BY <2>1, <2>2 DEF Bench, bench
<1>6. CASE Reset
  <2>1. timeline' = timeline /\ timeline \notin Live /\ Last' = Last
        /\ runner' \in {"readiness", "invalid", "dying"}
    BY <1>0, <1>1, <1>6 DEF Reset, Opening, Open
  <2>2. CASE UNCHANGED bench
    BY <1>2, <2>1, <2>2 DEF Bench, Live
  <2>3. CASE perturbed' = FALSE
    BY <2>1, <2>3 DEF Bench, Live
  <2>4. QED
    BY <1>6, <2>2, <2>3 DEF Reset, Down, Up
<1>7. CASE StartWindow
  <2>1. /\ timeline = "waiting" /\ timeline' \in {"open", "closing"} /\ runner' = runner
        /\ services' = services /\ Last' = Last
    BY <1>0, <1>7 DEF StartWindow, Opening, Open
  <2>2. runner \in {"load", "dying"} /\ services = Last /\ Last > 0
    BY <1>1, <2>1 DEF Live
  <2>3. QED
    BY <1>0, <2>1, <2>2 DEF Bench, Live
<1>8. CASE EndWindow
  <2>1. /\ timeline \in {"open", "closing"} /\ timeline' = "ended" /\ runner' = runner
        /\ services' = services /\ Last' = Last /\ stop' = stop
        /\ perturbed' => failures' = failures + 1
    BY <1>0, <1>8 DEF EndWindow, Opening, Open, Fails, session
  <2>2. runner \in {"load", "dying"} /\ services = Last /\ Last > 0
    BY <1>1, <2>1 DEF Live
  <2>3. perturbed' => Excused(executions[services])'
    <3>1. This'.started = This.started /\ This'.cell = This.cell
      BY <1>8, EventFacts DEF Timeline, Shows
    <3>2. executions'[services'] = This'
      BY <2>1, <2>2 DEF This
    <3>3. This.started = (IF timeline = "open" THEN 1 ELSE 0)
      BY <2>1 DEF Window, Live
    <3>4. CASE timeline = "open"
      <4>1. perturbed' => failures' >= 1
        BY <1>1, <2>1
      <4>2. QED
        BY <3>1, <3>2, <3>3, <3>4, <4>1 DEF Excused
    <3>5. CASE timeline = "closing"
      <4>1. perturbed' => failures' >= 2 \/ (stop'.forced /\ Fault[This'.cell.scenario] = "outage")
        BY <1>1, <2>1, <3>1, <3>5 DEF Window, Outage
      <4>2. QED
        BY <3>1, <3>2, <3>3, <3>5, <4>1 DEF Excused
    <3>6. QED
      BY <2>1, <3>4, <3>5
  <2>4. QED
    BY <1>0, <2>1, <2>2, <2>3 DEF Bench, Live
<1>9. CASE Interrupt
  <2>0. executions' = executions /\ This' = This /\ Last' = Last /\ failures' = failures
    BY <1>9, QuietFacts DEF Quiet, Interrupt
  <2>1. CASE ~(Running /\ stop.count >= 1)
    <3>1. UNCHANGED bench /\ runner' = runner /\ timeline' = timeline
      BY <1>9, <2>1 DEF Interrupt
    <3>2. CASE timeline \in Live
      BY <1>0, <1>1, <2>0, <3>1, <3>2 DEF Bench, bench
    <3>3. CASE timeline \notin Live
      BY <1>2, <2>0, <3>1, <3>3 DEF Bench, bench
    <3>4. QED
      BY <3>2, <3>3
  <2>2. CASE Running /\ stop.count >= 1 /\ runner = "dying"
    <3>1. /\ UNCHANGED bench /\ runner' = "none" /\ timeline' = "none"
          /\ stop'.count = stop.count + 1 /\ stop'.forced
      BY <1>9, <2>2 DEF Interrupt, Signalled
    <3>2. CASE timeline \in Live
      <4>1. stop'.count >= 3
        BY <1>1, <2>2, <3>1, <3>2 DEF Window, Control
      <4>2. perturbed' => Excused(executions[services])'
        BY <3>1, <4>1 DEF Excused
      <4>3. services' \in Numbers'
        BY <1>0, <1>1, <2>0, <3>1, <3>2 DEF bench
      <4>4. QED
        BY <3>1, <4>2, <4>3 DEF Bench, Live
    <3>3. CASE timeline \notin Live
      BY <1>2, <3>1, <3>3 DEF Bench, Live
    <3>4. QED
      BY <3>2, <3>3
  <2>3. CASE Running /\ stop.count >= 1 /\ runner # "dying"
    <3>1. runner' = "dying" /\ stop'.forced
      BY <1>9, <2>3 DEF Interrupt, Signalled
    <3>2. CASE CommandCut
      <4>1. /\ timeline \in Live /\ services' = services /\ Fault[This.cell.scenario] = "outage"
            /\ timeline = "waiting" => timeline' = "closing"
            /\ timeline # "waiting" => timeline' = "ended"
        BY <3>2 DEF CommandCut, Live, Outage, ProtocolTypeOK
      <4>2. executions'[services'] = This'
        BY <1>1, <2>0, <4>1 DEF This
      <4>3. Excused(executions[services])'
        BY <2>0, <3>1, <4>1, <4>2 DEF Excused
      <4>4. QED
        BY <1>0, <1>1, <2>0, <3>1, <4>1, <4>3 DEF Bench
    <3>3. CASE ResetCut
      <4>1. perturbed' = FALSE /\ timeline' = timeline /\ timeline \notin Live
        BY <1>1, <3>3 DEF ResetCut, Down, Up
      <4>2. QED
        BY <3>1, <4>1 DEF Bench, Live
    <3>4. CASE UNCHANGED <<timeline, bench>>
      <4>1. CASE timeline \in Live
        BY <1>0, <1>1, <2>0, <3>1, <3>4, <4>1 DEF Bench, bench
      <4>2. CASE timeline \notin Live
        BY <1>2, <3>1, <3>4, <4>2 DEF Bench, bench, Live
      <4>3. QED
        BY <4>1, <4>2
    <3>5. QED
      BY <1>9, <2>3, <3>2, <3>3, <3>4 DEF Interrupt, Signalled
  <2>4. QED
    BY <2>1, <2>2, <2>3
<1>10. CASE Menu \/ UNCHANGED vars
  <2>1. UNCHANGED bench /\ timeline' = timeline /\ Last' = Last
    BY <1>10, QuietFacts
    DEF Quiet, Menu, NextCell, Launch, Watch, ChildEnds, EndCycle, Countdown, vars, bench
  <2>2. runner' = runner \/ runner' = "open"
    BY <1>10 DEF Menu, NextCell, Launch, Watch, ChildEnds, EndCycle, Countdown, vars
  <2>3. CASE timeline \in Live
    BY <1>0, <1>1, <2>1, <2>2, <2>3 DEF Bench, bench
  <2>4. CASE timeline \notin Live
    BY <1>2, <2>1, <2>2, <2>4 DEF Bench, bench, Live
  <2>5. QED
    BY <2>3, <2>4
<1>11. QED
  BY <1>3, <1>4, <1>5, <1>6, <1>7, <1>8, <1>9, <1>10 DEF Next, Executor, Timeline

-----------------------------------------------------------------------------
(* What an execution that is behind is worth.                              *)

(* The process that dies of a failure had written neither the line of its  *)
(* execution nor its summary; it is INVALID only after another failure.    *)
LEMMA DyingWorth ==
  ASSUME ProtocolTypeOK, Control, InHand, Window, Bench, Executor, AtWork, runner' = "dying"
  PROVE  /\ Last' = Last /\ This' = This /\ This.cell = Cell /\ Abandoned(This)
         /\ failures' = failures + 1 /\ failures' > 0 /\ (This.status = "INVALID" => failures' >= 2)
<1>0. failures \in Nat /\ Last > 0 /\ This.cell = Cell /\ runner \notin {"none", "open", "dying"}
  BY ProtocolAssumption DEF ProtocolTypeOK, InHand, AtWork
<1>1. executions' = executions /\ failures' = failures + 1 /\ runner # "print"
  BY <1>0
  DEF Executor, Open, Reset, Readiness, LLMReadiness, WriteMetadata, Apply, LoadSent, Settle, Validate,
      MarkValid, Consolidate, MarkInvalid, Record, PrintResult, Die, Dies, Fails, Bench
<1>2. This.status = "INVALID" => failures > 0
  BY <1>0, <1>1 DEF InHand, AtWork, Trial, Before, ProtocolTypeOK
<1>3. QED
  BY <1>0, <1>1, <1>2 DEF InHand, AtWork, Last, This

(* An execution comes behind with its result, or when its process dies of  *)
(* a failure of the bench or of Ctrl+C.                                    *)
LEMMA BecomesOver ==
  ASSUME ProtocolTypeOK, Control, InHand, Window, Bench, [Next]_vars, NEW n \in Over', n \notin Over
  PROVE  n = Last' /\ (runner' = "print" \/ stop'.forced \/ Worth(executions[n])')
<1>0. /\ Last \in Nat /\ Numbers = 1 .. Last /\ Last' \in Nat /\ Numbers' = 1 .. Last'
      /\ Last' >= Last /\ (Last' # Last => Opening) /\ failures \in Nat
  BY LastGrows, ProtocolAssumption DEF ProtocolTypeOK
<1>1. CASE Opening
  <2>1. /\ Last' = Last + 1 /\ runner = "open" /\ This' = Fresh
        /\ runner' = "reset" \/ (runner' = "dying" /\ failures' = failures + 1)
    BY <1>1, OpenFacts
  <2>2. n = Last' /\ failures' > 0
    BY <1>0, <2>1 DEF Over
  <2>3. executions'[n] = Fresh
    BY <2>1, <2>2 DEF This
  <2>4. QED
    BY <2>2, <2>3 DEF Worth, Incomplete, Fresh
<1>2. CASE ~Opening
  <2>1. Last' = Last /\ n = Last /\ runner \notin {"none", "open", "print", "dying"}
        /\ runner' \in {"none", "open", "print", "dying"}
    BY <1>0, <1>2 DEF Over
  <2>2. CASE Executor
    <3>1. runner' \in {"print", "dying"}
      BY <2>1, <2>2
      DEF Executor, Open, Reset, Readiness, LLMReadiness, WriteMetadata, Apply, LoadSent, Settle,
          Validate, MarkValid, Consolidate, MarkInvalid, Record, PrintResult, Die, Dies
    <3>2. CASE runner' = "dying"
      <4>1. /\ This' = This /\ Abandoned(This) /\ failures' > 0
            /\ This.status = "INVALID" => failures' >= 2
        BY <2>1, <2>2, <3>2, DyingWorth DEF AtWork
      <4>2. executions'[n] = This /\ This.status \in {"open", "VALID", "INVALID"}
        <5>1. executions'[n] = This
          BY <2>1, <4>1 DEF This
        <5>2. Last > 0
          BY <2>1 DEF InHand, AtWork
        <5>3. This \in Execution
          BY <5>2, ThisType
        <5>4. QED
          BY <5>1, <5>3 DEF Execution
      <4>3. QED
        BY <2>1, <4>1, <4>2 DEF Worth, Incomplete, Unlined, Abandoned
    <3>3. QED
      BY <2>1, <3>1, <3>2
  <2>3. CASE Timeline \/ Menu \/ UNCHANGED vars
    BY <2>1, <2>3
    DEF Timeline, StartWindow, EndWindow, Menu, NextCell, Launch, Watch, ChildEnds, EndCycle,
        Countdown, Control, ProtocolTypeOK, vars
  <2>4. CASE Interrupt
    BY <2>1, <2>4 DEF Interrupt, Signalled
  <2>5. QED
    BY <2>2, <2>3, <2>4 DEF Next
<1>3. QED
  BY <1>1, <1>2

(* The menu is told of executions that have their line or their summary.   *)
LEMMA ToldStep ==
  ASSUME ProtocolTypeOK, Control, InHand, Window, Written, [Next]_vars, NEW n \in report'.results
  PROVE  n \in Over' /\ Finished(executions'[n])
<1>0. report \in [results: SUBSET Numbers, notRun: SUBSET Cells, interrupted: SUBSET Cells]
  BY DEF ProtocolTypeOK
<1>1. n \in report.results \/ (PrintResult /\ n = Last)
  BY <1>0
  DEF Next, Executor, Open, Reset, Readiness, LLMReadiness, WriteMetadata, Apply, LoadSent, Settle,
      Validate, MarkValid, Consolidate, MarkInvalid, Record, PrintResult, Die, Timeline, StartWindow,
      EndWindow, Menu, NextCell, Launch, Watch, ChildEnds, EndCycle, Countdown, Interrupt, session, vars
<1>2. CASE n \in report.results
  <2>1. n \in Over /\ n \in Numbers /\ Finished(executions[n])
    BY <1>0, <1>2 DEF Written
  <2>2. QED
    BY <2>1, ExecutionsStay DEF Finished
<1>3. CASE PrintResult /\ n = Last
  <2>1. executions' = executions /\ Last' = Last /\ Numbers' = Numbers
    BY <1>3, QuietFacts DEF Quiet
  <2>2. Last > 0 /\ Finished(executions[Last]) /\ runner' \in {"none", "open"}
    BY <1>3 DEF PrintResult, InHand, AtWork, This
  <2>3. Last \in Numbers
    BY <2>2, ThisType
  <2>4. QED
    BY <1>3, <2>1, <2>2, <2>3 DEF Over, Finished
<1>4. QED
  BY <1>1, <1>2, <1>3

(* It keeps what it is worth.                                              *)
LEMMA WrittenStep ==
  ASSUME ProtocolTypeOK, Control, InHand, Window, Bench, Written, [Next]_vars
  PROVE  Written'
<1>0. /\ Last \in Nat /\ Numbers = 1 .. Last /\ Last' \in Nat /\ Numbers' = 1 .. Last'
      /\ Last' >= Last /\ (Last' # Last => Opening) /\ failures \in Nat /\ failures' \in Nat
      /\ failures' >= failures /\ (stop.forced => stop'.forced)
  BY LastGrows, StopStays, ProtocolAssumption DEF ProtocolTypeOK
<1>1. ASSUME NEW n \in Numbers'
      PROVE  executions'[n].rows <= 1 /\ (executions'[n].rows = 1 => executions'[n].status = "INVALID")
  <2>1. CASE n \notin Numbers
    <3>1. Opening /\ n = Last'
      BY <1>0, <2>1, OpenFacts
    <3>2. executions'[n] = Fresh
      BY <3>1, OpenFacts DEF This
    <3>3. QED
      BY <3>2 DEF Fresh
  <2>2. CASE n \in Numbers
    <3>1. executions[n].rows <= 1 /\ (executions[n].rows = 1 => executions[n].status = "INVALID")
      BY <2>2 DEF Written
    <3>2. CASE Quiet
      BY <2>2, <3>1, <3>2, QuietFacts
    <3>3. CASE Opening
      BY <2>2, <3>1, <3>3, OpenFacts
    <3>4. CASE Timeline
      BY <2>2, <3>1, <3>4, EventFacts DEF Timeline, Shows, This
    <3>5. CASE WriteMetadata \/ MarkValid \/ Consolidate \/ MarkInvalid \/ Record
      <4>1. Last' = Last /\ \A m \in Numbers : m # Last => executions'[m] = executions[m]
        BY <3>5, StatusFacts
      <4>2. CASE n # Last
        BY <2>2, <3>1, <4>1, <4>2
      <4>3. CASE n = Last
        <5>1. executions[n] = This /\ executions'[n] = This'
          BY <4>1, <4>3 DEF This
        <5>2. This.rows = 0 /\ (runner = "record" => This.status = "INVALID")
          BY <3>5
          DEF WriteMetadata, MarkValid, Consolidate, MarkInvalid, Record, InHand, AtWork, Abandoned
        <5>3. CASE Record
          <6>1. This'.status = This.status /\ This'.rows \in {This.rows, This.rows + 1}
            BY <5>3, StatusFacts DEF Says
          <6>2. This.rows = 0 /\ This.status = "INVALID"
            BY <5>2, <5>3 DEF Record
          <6>3. QED
            BY <5>1, <6>1, <6>2
        <5>4. CASE WriteMetadata \/ MarkValid \/ Consolidate \/ MarkInvalid
          <6>1. This'.rows = This.rows
            BY <5>4, StatusFacts DEF Says
          <6>2. QED
            BY <5>1, <5>2, <6>1
        <5>5. QED
          BY <3>5, <5>3, <5>4
      <4>4. QED
        BY <4>2, <4>3
    <3>6. QED
      BY <3>2, <3>3, <3>4, <3>5, StepKinds
  <2>3. QED
    BY <2>1, <2>2
<1>2. ASSUME NEW n \in Over'
      PROVE  Worth(executions[n])'
  <2>1. CASE n \in Over
    <3>1. n \in Numbers
      BY <2>1 DEF Over
    <3>2. /\ executions'[n].status = executions[n].status /\ executions'[n].rows = executions[n].rows
          /\ executions'[n].summary = executions[n].summary
      BY <2>1, <3>1, ExecutionsStay
    <3>3. Worth(executions[n])
      BY <2>1 DEF Written, Worth
    <3>4. QED
      BY <1>0, <3>2, <3>3 DEF Worth, Finished, Incomplete, Unlined
  <2>2. CASE n \notin Over
    <3>1. n = Last' /\ (runner' = "print" \/ stop'.forced \/ Worth(executions[n])')
      BY <2>2, BecomesOver
    <3>2. CASE runner' = "print"
      <4>1. InHand'
        BY InHandStep
      <4>2. Finished(executions[n])'
        BY <3>1, <3>2, <4>1 DEF InHand, AtWork, This
      <4>3. QED
        BY <4>2 DEF Worth, Finished
    <3>3. QED
      BY <3>1, <3>2 DEF Worth
  <2>3. QED
    BY <2>1, <2>2
<1>3. \A n \in report'.results : n \in Over' /\ Finished(executions'[n])
  BY ToldStep
<1>4. QED
  BY <1>1, <1>2, <1>3 DEF Written, Worth, Finished, Incomplete, Unlined

-----------------------------------------------------------------------------
(* The executions and the plan.                                            *)

(* What the rest of a plan is made of.                                     *)
LEMMA RestFacts ==
  ASSUME ProtocolTypeOK
  PROVE  /\ Cell \in Rest(place) /\ Cell \notin Rest(place + 1)
         /\ Rest(place + 1) \subseteq Rest(place)
         /\ Cell.repetition = cycle
         /\ place \in Nat /\ cycle \in Nat /\ Len(Scenarios) \in Nat
<1>1. place \in 1 .. 2 * Len(Scenarios) /\ cycle \in 1 .. Cycles /\ Len(Scenarios) \in Nat /\ Cycles \in Nat
  BY ProtocolAssumption DEF ProtocolTypeOK
<1>2. Cell \in Rest(place) /\ Rest(place + 1) \subseteq Rest(place)
  BY <1>1 DEF Rest, Cell
<1>3. Cell \notin Rest(place + 1)
  <2>1. SUFFICES ASSUME NEW i \in place + 1 .. 2 * Len(Scenarios), Plan(cycle)[i] = Plan(cycle)[place]
                 PROVE  FALSE
    BY DEF Rest, Cell
  <2>2. i \in 1 .. 2 * Len(Scenarios) /\ i # place
    BY <1>1
  <2>3. QED
    BY <1>1, <2>1, <2>2, PlanDistinct
<1>4. Cell.repetition = cycle
  BY <1>1, PlanType DEF Cell
<1>5. QED
  BY <1>1, <1>2, <1>3, <1>4

(* A directory holds the metadata of an execution.                         *)
LEMMA ExecutionType ==
  ASSUME ProtocolTypeOK, NEW n \in Numbers
  PROVE  executions[n] \in Execution /\ executions[n].cell.repetition \in Nat
<1>1. executions \in Seq(Execution)
  BY DEF ProtocolTypeOK, Execution
<1>2. executions[n] \in Execution
  BY <1>1 DEF Numbers
<1>3. executions[n].cell \in Cells
  BY <1>2 DEF Execution
<1>4. QED
  BY <1>2, <1>3, ProtocolAssumption DEF Cells

(* No cell of the next repetition has an execution.                        *)
LEMMA NextRepetition ==
  ASSUME ProtocolTypeOK, Placed, cycle + 1 \in 1 .. Cycles, NEW n \in Numbers
  PROVE  executions[n].cell \notin {Plan(cycle + 1)[i] : i \in 1 .. 2 * Len(Scenarios)}
<1>1. executions[n].cell.repetition <= cycle /\ cycle \in Nat
  BY RestFacts DEF Placed
<1>2. \A i \in 1 .. 2 * Len(Scenarios) : Plan(cycle + 1)[i].repetition = cycle + 1
  BY PlanType
<1>3. executions[n].cell.repetition # cycle + 1
  BY <1>1, ExecutionType
<1>4. QED
  BY <1>2, <1>3

(* The executions stay in their place.                                     *)
LEMMA PlacesStep ==
  ASSUME ProtocolTypeOK, Control, InHand, Window, Placed, [Next]_vars, NEW n \in Numbers'
  PROVE  /\ executions'[n].cell.repetition <= cycle'
         /\ menu' \in {"plan", "launch"} => executions'[n].cell \notin Rest(place)'
         /\ menu' \in {"spawned", "running"} => executions'[n].cell \notin Rest(place + 1)'
         /\ executions'[n].cell \notin report'.notRun
<1>0. /\ Last \in Nat /\ Numbers = 1 .. Last /\ Last' \in Nat /\ Numbers' = 1 .. Last'
      /\ Last' >= Last /\ (Last' # Last => Opening)
      /\ report \in [results: SUBSET Numbers, notRun: SUBSET Cells, interrupted: SUBSET Cells]
  BY LastGrows DEF ProtocolTypeOK
<1>1. CASE n \notin Numbers
  <2>1. Opening
    BY <1>0, <1>1
  <2>2. executions'[n] = Fresh
    BY <1>0, <1>1, <2>1, OpenFacts DEF This
  <2>3. UNCHANGED session /\ menu \in {"spawned", "running"} /\ report.notRun = {}
    BY <2>1 DEF Opening, Open, Control
  <2>4. executions'[n].cell = Cell
    BY <2>2 DEF Fresh
  <2>5. Cell.repetition = cycle /\ cycle \in Nat /\ Cell \notin Rest(place + 1)
    BY RestFacts
  <2>6. QED
    BY <2>3, <2>4, <2>5 DEF session, Rest
<1>2. CASE n \in Numbers
  <2>0. /\ executions'[n].cell = executions[n].cell
        /\ executions[n].cell.repetition <= cycle
        /\ menu \in {"plan", "launch"} => executions[n].cell \notin Rest(place)
        /\ menu \in {"spawned", "running"} => executions[n].cell \notin Rest(place + 1)
        /\ executions[n].cell \notin report.notRun
    BY <1>2, ExecutionsStay DEF Placed
  <2>1. CASE UNCHANGED <<menu, cycle, place>> /\ report'.notRun = report.notRun
    BY <2>0, <2>1 DEF Rest
  <2>2. CASE Executor \/ Timeline \/ Interrupt \/ Watch \/ UNCHANGED vars
    <3>1. CASE Watch
      BY <2>0, <3>1 DEF Watch, Rest
    <3>2. CASE ~Watch
      <4>1. UNCHANGED <<menu, cycle, place>>
        BY <2>2, <3>2
        DEF Executor, Open, Reset, Readiness, LLMReadiness, WriteMetadata, Apply, LoadSent, Settle,
            Validate, MarkValid, Consolidate, MarkInvalid, Record, PrintResult, Die, Timeline,
            StartWindow, EndWindow, Interrupt, session, vars
      <4>2. report' = report \/ report' = [report EXCEPT !.results = @ \cup {Last}]
        BY <2>2, <3>2
        DEF Executor, Open, Reset, Readiness, LLMReadiness, WriteMetadata, Apply, LoadSent, Settle,
            Validate, MarkValid, Consolidate, MarkInvalid, Record, PrintResult, Die, Timeline,
            StartWindow, EndWindow, Interrupt, session, vars
      <4>3. report'.notRun = report.notRun
        BY <1>0, <4>2
      <4>4. QED
        BY <2>1, <4>1, <4>3
    <3>3. QED
      BY <3>1, <3>2
  <2>3. CASE NextCell
    <3>1. UNCHANGED <<cycle, place>> /\ menu = "plan" /\ menu' \in {"launch", "report"}
      BY <2>3 DEF NextCell
    <3>2. report'.notRun \subseteq report.notRun \cup Rest(place)
      BY <1>0, <2>3 DEF NextCell
    <3>3. QED
      BY <2>0, <3>1, <3>2 DEF Rest
  <2>4. CASE Launch
    <3>1. UNCHANGED <<cycle, place, report>> /\ menu = "launch" /\ menu' = "spawned"
      BY <2>4 DEF Launch
    <3>2. Rest(place + 1)' = Rest(place + 1) /\ Rest(place + 1) \subseteq Rest(place)
      BY <3>1, RestFacts DEF Rest
    <3>3. QED
      BY <2>0, <3>1, <3>2
  <2>5. CASE ChildEnds
    <3>1. menu = "running" /\ UNCHANGED cycle
      BY <2>5 DEF ChildEnds
    <3>2. report'.notRun \subseteq report.notRun \cup Rest(place + 1)
      BY <1>0, <2>5 DEF ChildEnds
    <3>3. menu' = "report" \/ (menu' = "plan" /\ place' = place + 1)
      BY <2>5 DEF ChildEnds
    <3>4. menu' = "plan" => Rest(place)' = Rest(place + 1)
      BY <3>1, <3>3 DEF Rest
    <3>5. QED
      BY <2>0, <3>1, <3>2, <3>3, <3>4
  <2>6. CASE EndCycle
    BY <2>0, <2>6 DEF EndCycle
  <2>7. CASE Countdown
    <3>1. CASE Requested
      BY <2>0, <2>7, <3>1 DEF Countdown
    <3>2. CASE ~Requested
      <4>1. menu' = "plan" /\ cycle' = cycle + 1 /\ place' = 1 /\ report' = report /\ cycle < Cycles
        BY <2>7, <3>2 DEF Countdown, Control
      <4>2. cycle + 1 \in 1 .. Cycles
        BY <4>1, ProtocolAssumption DEF ProtocolTypeOK
      <4>3. executions[n].cell \notin {Plan(cycle + 1)[i] : i \in 1 .. 2 * Len(Scenarios)}
        BY <1>2, <4>2, NextRepetition
      <4>4. Rest(place)' = {Plan(cycle + 1)[i] : i \in 1 .. 2 * Len(Scenarios)}
        BY <4>1 DEF Rest
      <4>5. executions[n].cell.repetition <= cycle'
        <5>1. executions[n].cell.repetition \in Nat /\ cycle \in Nat
          BY <1>2, ExecutionType, RestFacts
        <5>2. QED
          BY <2>0, <4>1, <5>1
      <4>6. QED
        BY <2>0, <4>1, <4>3, <4>4, <4>5
    <3>3. QED
      BY <3>1, <3>2
  <2>8. QED
    BY <2>2, <2>3, <2>4, <2>5, <2>6, <2>7 DEF Next, Menu
<1>3. QED
  BY <1>1, <1>2

(* A VALID execution of the cell in work is the one that ends the work.    *)
LEMMA PlacedStep ==
  ASSUME ProtocolTypeOK, Control, InHand, Window, Placed, [Next]_vars
  PROVE  Placed'
<1>1. \A n \in Numbers' :
        /\ executions'[n].cell.repetition <= cycle'
        /\ menu' \in {"plan", "launch"} => executions'[n].cell \notin Rest(place)'
        /\ menu' \in {"spawned", "running"} => executions'[n].cell \notin Rest(place + 1)'
        /\ executions'[n].cell \notin report'.notRun
  BY PlacesStep
<1>2. ASSUME runner' \notin {"none", "dying"}, NEW n \in Numbers',
             executions'[n].status = "VALID", executions'[n].cell = Cell'
      PROVE  n = Last' /\ runner' \in {"consolidate", "print"}
  <2>1. CASE MarkValid /\ n = Last
    <3>1. Last' = Last
      BY <2>1, StatusFacts
    <3>2. QED
      BY <1>2, <2>1, <3>1 DEF MarkValid, Dies
  <2>2. CASE n \in Numbers /\ executions[n].status = "VALID"
    <3>0. executions'[n].cell = executions[n].cell
      BY <2>2, ExecutionsStay
    <3>1. CASE Menu
      <4>1. CASE Launch
        <5>1. Cell' = Cell /\ menu = "launch"
          BY <4>1 DEF Launch, Cell
        <5>2. executions[n].cell \notin Rest(place)
          BY <2>2, <5>1 DEF Placed
        <5>3. QED
          BY <1>2, <3>0, <5>1, <5>2, RestFacts
      <4>2. CASE Watch
        <5>1. Cell' = Cell /\ runner' = runner /\ Last' = Last
          BY <4>2, QuietFacts DEF Watch, Cell, Quiet, Menu
        <5>2. QED
          BY <1>2, <2>2, <3>0, <5>1 DEF Placed
      <4>3. CASE ~Launch /\ ~Watch
        <5>1. runner' = runner /\ runner = "none"
          BY <3>1, <4>3
          DEF Menu, NextCell, ChildEnds, EndCycle, Countdown, Control, ProtocolTypeOK
        <5>2. QED
          BY <1>2, <5>1
      <4>4. QED
        BY <4>1, <4>2, <4>3
    <3>2. CASE ~Menu
      <4>1. UNCHANGED <<cycle, place>>
        BY <3>2
        DEF Next, Executor, Open, Reset, Readiness, LLMReadiness, WriteMetadata, Apply, LoadSent,
            Settle, Validate, MarkValid, Consolidate, MarkInvalid, Record, PrintResult, Die, Timeline,
            StartWindow, EndWindow, Interrupt, session, vars
      <4>2. Cell' = Cell
        BY <4>1 DEF Cell
      <4>3. runner \notin {"none", "dying"}
        BY <1>2, <3>2
        DEF Next, Executor, Open, Reset, Readiness, LLMReadiness, WriteMetadata, Apply, LoadSent,
            Settle, Validate, MarkValid, Consolidate, MarkInvalid, Record, PrintResult, Die, Timeline,
            StartWindow, EndWindow, Interrupt, Signalled, session, vars
      <4>4. n = Last /\ runner \in {"consolidate", "print"}
        BY <1>2, <2>2, <3>0, <4>2, <4>3 DEF Placed
      <4>5. Last' = Last
        BY <4>4, LastGrows DEF Opening, Open
      <4>6. CASE Executor
        <5>1. Consolidate \/ PrintResult
          BY <4>4, <4>6
          DEF Executor, Open, Reset, Readiness, LLMReadiness, WriteMetadata, Apply, LoadSent,
              Settle, Validate, MarkValid, MarkInvalid, Record, Die
        <5>2. This.status = "VALID"
          BY <2>2, <4>4 DEF This
        <5>3. PrintResult => runner' = "none"
          BY <5>2 DEF PrintResult
        <5>4. QED
          BY <1>2, <4>4, <4>5, <5>1, <5>3 DEF Consolidate, Dies
      <4>7. CASE ~Executor
        <5>1. runner' = runner \/ runner' \in {"none", "dying"}
          BY <3>2, <4>7 DEF Next, Timeline, StartWindow, EndWindow, Interrupt, Signalled, vars
        <5>2. QED
          BY <1>2, <4>4, <4>5, <5>1
      <4>8. QED
        BY <4>6, <4>7
    <3>3. QED
      BY <3>1, <3>2
  <2>3. QED
    BY <1>2, <2>1, <2>2, ValidOrigin
<1>3. QED
  BY <1>1, <1>2 DEF Placed

(* The execution that becomes VALID is the first of its cell.              *)
LEMMA OneValidStep ==
  ASSUME ProtocolTypeOK, Control, InHand, Window, Placed, OneValidPerCell, [Next]_vars
  PROVE  OneValidPerCell'
<1>1. \A n \in Numbers' :
        executions'[n].status = "VALID" =>
          \/ n \in Numbers /\ executions[n].status = "VALID"
          \/ MarkValid /\ n = Last /\ n \in Numbers
  BY ValidOrigin
<1>2. \A n \in Numbers : executions'[n].cell = executions[n].cell
  BY ExecutionsStay
<1>3. MarkValid =>
        \A n \in Numbers : executions[n].status = "VALID" => executions[n].cell # executions[Last].cell
  <2>1. MarkValid => runner = "valid" /\ executions[Last].cell = Cell
    BY DEF MarkValid, InHand, AtWork, This
  <2>2. QED
    BY <2>1 DEF Placed
<1>4. SUFFICES ASSUME NEW m \in Numbers', NEW n \in Numbers', m # n,
                      executions'[m].status = "VALID", executions'[n].status = "VALID"
               PROVE  executions'[m].cell # executions'[n].cell
  BY DEF OneValidPerCell
<1>5. CASE m \in Numbers /\ n \in Numbers /\ executions[m].status = "VALID" /\ executions[n].status = "VALID"
  BY <1>2, <1>4, <1>5 DEF OneValidPerCell
<1>6. CASE ~(m \in Numbers /\ n \in Numbers /\ executions[m].status = "VALID" /\ executions[n].status = "VALID")
  <2>1. MarkValid /\ m \in Numbers /\ n \in Numbers
    BY <1>1, <1>4, <1>6
  <2>2. (m = Last /\ executions[n].status = "VALID") \/ (n = Last /\ executions[m].status = "VALID")
    BY <1>1, <1>4, <1>6
  <2>3. QED
    BY <1>2, <1>3, <2>1, <2>2
<1>7. QED
  BY <1>5, <1>6

-----------------------------------------------------------------------------
(* The cells no one can tell about.                                        *)

(* The report only grows.                                                  *)
LEMMA ReportGrows ==
  ASSUME ProtocolTypeOK, [Next]_vars
  PROVE  /\ report.results \subseteq report'.results
         /\ report.notRun \cup report.interrupted \subseteq report'.notRun \cup report'.interrupted
<1>1. report \in [results: SUBSET Numbers, notRun: SUBSET Cells, interrupted: SUBSET Cells]
  BY DEF ProtocolTypeOK
<1>2. \/ report' = report
      \/ report' = [report EXCEPT !.results = @ \cup {Last}]
      \/ report' = [report EXCEPT !.notRun = @ \cup Rest(place)]
      \/ report' = [report EXCEPT !.interrupted = @ \cup {Cell}, !.notRun = @ \cup Rest(place + 1)]
  BY DEF Next, Executor, Open, Reset, Readiness, LLMReadiness, WriteMetadata, Apply, LoadSent, Settle,
         Validate, MarkValid, Consolidate, MarkInvalid, Record, PrintResult, Die, Timeline,
         StartWindow, EndWindow, Menu, NextCell, Launch, Watch, ChildEnds, EndCycle, Countdown,
         Interrupt, session, vars
<1>3. QED
  BY <1>1, <1>2

(* What is accounted for stays so.                                         *)
LEMMA SettledStays ==
  ASSUME ProtocolTypeOK, InHand, Window, [Next]_vars, NEW c, Settled(c)
  PROVE  Settled(c)'
<1>1. CASE \E n \in report.results : executions[n].cell = c
  <2>1. PICK n \in report.results : executions[n].cell = c
    BY <1>1
  <2>2. n \in Numbers /\ n \in report'.results
    BY <2>1, ReportGrows DEF ProtocolTypeOK
  <2>3. executions'[n].cell = c
    BY <2>1, <2>2, ExecutionsStay
  <2>4. QED
    BY <2>2, <2>3 DEF Settled
<1>2. CASE \E n \in Over : Abandoned(executions[n]) /\ executions[n].cell = c
  <2>1. PICK n \in Over : Abandoned(executions[n]) /\ executions[n].cell = c
    BY <1>2
  <2>2. n \in Numbers
    BY DEF Over
  <2>3. /\ n \in Over' /\ executions'[n].cell = c
        /\ executions'[n].rows = executions[n].rows
        /\ executions'[n].summary = executions[n].summary
    BY <2>1, <2>2, ExecutionsStay
  <2>4. Abandoned(executions'[n])
    BY <2>1, <2>3 DEF Abandoned
  <2>5. QED
    BY <2>3, <2>4 DEF Settled, Abandoned
<1>3. CASE c \in report.notRun \cup report.interrupted
  BY <1>3, ReportGrows DEF Settled
<1>4. QED
  BY <1>1, <1>2, <1>3 DEF Settled

(* A process that ends by itself accounts for its cell: it printed a       *)
(* result, or died and left its execution; unless it died without one,     *)
(* which is a failure.                                                     *)
LEMMA EndingStep ==
  ASSUME ProtocolTypeOK, Control, InHand, Window, Bench, [Next]_vars, Ending', ~Ending
  PROVE  Cell' = Cell /\ (Settled(Cell)' \/ failures' = failures + 1)
<1>0. /\ Last \in Nat /\ Numbers = 1 .. Last /\ failures \in Nat
      /\ report \in [results: SUBSET Numbers, notRun: SUBSET Cells, interrupted: SUBSET Cells]
  BY NumbersFacts, ProtocolAssumption DEF ProtocolTypeOK
<1>1. ~Menu /\ ~Timeline /\ vars' # vars
  BY DEF Ending, Menu, NextCell, Launch, Watch, ChildEnds, EndCycle, Countdown, Timeline, StartWindow,
         EndWindow, Control, session, vars
<1>2. ~Interrupt
  <2>1. SUFFICES ASSUME Interrupt PROVE FALSE
    OBVIOUS
  <2>2. CASE Running /\ stop.count >= 1
    BY <2>1, <2>2 DEF Interrupt, Ending
  <2>3. CASE ~(Running /\ stop.count >= 1)
    <3>1. UNCHANGED <<menu, runner>> /\ stop' = [stop EXCEPT !.count = @ + 1]
      BY <2>1, <2>3 DEF Interrupt
    <3>2. stop'.forced = stop.forced
      BY <3>1 DEF ProtocolTypeOK
    <3>3. QED
      BY <3>1, <3>2 DEF Ending
  <2>4. QED
    BY <2>2, <2>3
<1>3. Executor /\ UNCHANGED <<menu, cycle, place, stop>>
  BY <1>1, <1>2
  DEF Next, Executor, Open, Reset, Readiness, LLMReadiness, WriteMetadata, Apply, LoadSent, Settle,
      Validate, MarkValid, Consolidate, MarkInvalid, Record, PrintResult, Die, session, vars
<1>4. Cell' = Cell
  BY <1>3 DEF Cell
<1>5. runner \notin {"none", "dying"} /\ runner' \in {"none", "dying"}
  BY <1>3 DEF Ending
<1>6. CASE runner = "open"
  BY <1>3, <1>4, <1>6
  DEF Executor, Open, Reset, Readiness, LLMReadiness, WriteMetadata, Apply, LoadSent, Settle, Validate,
      MarkValid, Consolidate, MarkInvalid, Record, PrintResult, Die, Dies, Fails, Ending
<1>7. CASE runner # "open" /\ runner' = "none"
  <2>1. PrintResult
    BY <1>3, <1>5, <1>7
    DEF Executor, Open, Reset, Readiness, LLMReadiness, WriteMetadata, Apply, LoadSent, Settle,
        Validate, MarkValid, Consolidate, MarkInvalid, Record, Die, Dies
  <2>2. executions' = executions
    BY <2>1, QuietFacts DEF Quiet
  <2>3. Last > 0 /\ executions[Last].cell = Cell
    BY <2>1 DEF PrintResult, InHand, AtWork, This
  <2>4. Last \in report'.results
    BY <1>0, <2>1 DEF PrintResult
  <2>5. QED
    BY <1>4, <2>2, <2>3, <2>4 DEF Settled
<1>8. CASE runner # "open" /\ runner' = "dying"
  BY <1>3, <1>4, <1>5, <1>8, DyingWorth DEF AtWork
<1>9. QED
  BY <1>5, <1>6, <1>7, <1>8

(* The menu passes a cell when its process has ended, or lists it.         *)
LEMMA BehindStep ==
  ASSUME ProtocolTypeOK, Control, [Next]_vars,
         NEW k \in 1 .. cycle', NEW i \in 1 .. 2 * Len(Scenarios), Behind(k, i)'
  PROVE  \/ k \in 1 .. cycle /\ Behind(k, i)
         \/ Ending /\ Plan(k)[i] = Cell
         \/ Plan(k)[i] \in report'.notRun \cup report'.interrupted
<1>0. /\ report \in [results: SUBSET Numbers, notRun: SUBSET Cells, interrupted: SUBSET Cells]
      /\ place \in 1 .. 2 * Len(Scenarios) /\ cycle \in 1 .. Cycles
      /\ Len(Scenarios) \in Nat /\ Cycles \in Nat
  BY ProtocolAssumption DEF ProtocolTypeOK
<1>1. k < cycle' \/ i < place' \/ menu' \in {"report", "countdown", "over"}
  BY DEF Behind
<1>2. SUFFICES ASSUME ~(k \in 1 .. cycle /\ (k < cycle \/ i < place \/ menu \in {"report", "countdown", "over"}))
               PROVE  \/ Ending /\ Plan(k)[i] = Cell
                      \/ Plan(k)[i] \in report'.notRun \cup report'.interrupted
  BY DEF Behind
<1>3. CASE ~Menu
  <2>1. UNCHANGED <<menu, cycle, place>>
    BY <1>3
    DEF Next, Executor, Open, Reset, Readiness, LLMReadiness, WriteMetadata, Apply, LoadSent, Settle,
        Validate, MarkValid, Consolidate, MarkInvalid, Record, PrintResult, Die, Timeline, StartWindow,
        EndWindow, Interrupt, session, vars
  <2>2. QED
    BY <1>1, <1>2, <2>1
<1>4. CASE NextCell
  <2>1. UNCHANGED <<cycle, place>> /\ menu = "plan"
    BY <1>4 DEF NextCell
  <2>2. menu' = "report" /\ k = cycle /\ i >= place
    BY <1>0, <1>1, <1>2, <1>4, <2>1 DEF NextCell
  <2>3. report' = [report EXCEPT !.notRun = @ \cup Rest(place)]
    BY <1>4, <2>2 DEF NextCell
  <2>4. Plan(k)[i] \in Rest(place)
    BY <1>0, <2>2 DEF Rest
  <2>5. QED
    BY <1>0, <2>3, <2>4
<1>5. CASE Launch \/ Watch
  BY <1>1, <1>2, <1>5 DEF Launch, Watch
<1>6. CASE ChildEnds
  <2>1. cycle' = cycle /\ menu = "running" /\ runner = "none"
    BY <1>6 DEF ChildEnds
  <2>2. k = cycle /\ i >= place
    BY <1>0, <1>1, <1>2, <2>1
  <2>3. CASE stop.forced
    <3>1. report' = [report EXCEPT !.interrupted = @ \cup {Cell}, !.notRun = @ \cup Rest(place + 1)]
      BY <1>6, <2>3 DEF ChildEnds
    <3>2. Plan(k)[i] = Cell \/ Plan(k)[i] \in Rest(place + 1)
      BY <1>0, <2>2 DEF Cell, Rest
    <3>3. QED
      BY <1>0, <3>1, <3>2
  <2>4. CASE ~stop.forced
    <3>1. i = place
      BY <1>0, <1>1, <1>6, <2>2, <2>4 DEF ChildEnds
    <3>2. QED
      BY <2>1, <2>2, <2>4, <3>1 DEF Ending, Cell
  <2>5. QED
    BY <2>3, <2>4
<1>7. CASE EndCycle \/ Countdown
  BY <1>0, <1>1, <1>2, <1>7 DEF EndCycle, Countdown
<1>8. QED
  BY <1>3, <1>4, <1>5, <1>6, <1>7 DEF Menu

(* A cell comes to be untold only with the failure of its process.         *)
LEMMA UntoldStep ==
  ASSUME ProtocolTypeOK, Control, InHand, Window, Bench, [Next]_vars, NEW c \in Untold'
  PROVE  c \in Untold \/ (c = Cell /\ failures' = failures + 1)
<1>1. c \in Cells /\ ~Settled(c)'
  BY DEF Untold, Passed
<1>2. Settled(c) => Settled(c)'
  BY SettledStays
<1>3. c \in Passed => c \in Untold
  BY <1>1, <1>2 DEF Untold
<1>4. CASE \E k \in 1 .. cycle', i \in 1 .. 2 * Len(Scenarios) : Behind(k, i)' /\ c = Plan(k)[i]
  <2>1. PICK k \in 1 .. cycle', i \in 1 .. 2 * Len(Scenarios) : Behind(k, i)' /\ c = Plan(k)[i]
    BY <1>4
  <2>2. \/ k \in 1 .. cycle /\ Behind(k, i)
        \/ Ending /\ c = Cell
        \/ c \in report'.notRun \cup report'.interrupted
    BY <2>1, BehindStep
  <2>3. c \notin report'.notRun \cup report'.interrupted
    BY <1>1 DEF Settled
  <2>4. QED
    BY <1>1, <1>3, <2>1, <2>2, <2>3 DEF Passed
<1>5. CASE Ending' /\ c = Cell'
  <2>1. CASE Ending
    <3>1. UNCHANGED <<cycle, place>>
      BY <1>5, <2>1
      DEF Ending, Next, Executor, Open, Reset, Readiness, LLMReadiness, WriteMetadata, Apply, LoadSent,
          Settle, Validate, MarkValid, Consolidate, MarkInvalid, Record, PrintResult, Die, Timeline,
          StartWindow, EndWindow, Menu, NextCell, Launch, Watch, ChildEnds, EndCycle, Countdown,
          Interrupt, session, vars
    <3>2. c = Cell
      BY <1>5, <3>1 DEF Cell
    <3>3. QED
      BY <1>1, <1>3, <2>1, <3>2 DEF Passed
  <2>2. CASE ~Ending
    <3>1. Cell' = Cell /\ (Settled(Cell)' \/ failures' = failures + 1)
      BY <1>5, <2>2, EndingStep
    <3>2. Settled(Cell)' => Settled(c)'
      BY <1>5 DEF Settled
    <3>3. QED
      BY <1>1, <1>5, <3>1, <3>2
  <2>3. QED
    BY <2>1, <2>2
<1>6. QED
  BY <1>4, <1>5 DEF Untold, Passed

(* So there are no more of these than failures.                            *)
LEMMA KeptStep ==
  ASSUME ProtocolTypeOK, Control, InHand, Window, Bench, Kept, [Next]_vars
  PROVE  Kept'
<1>0. failures \in Nat /\ failures' \in Nat /\ failures' >= failures
  BY StopStays, ProtocolAssumption DEF ProtocolTypeOK
<1>1. IsFiniteSet(Untold) /\ Cardinality(Untold) \in Nat /\ Cardinality(Untold) <= failures
  BY FS_CardinalityType DEF Kept
<1>2. \A c \in Untold' : c \in Untold \/ (c = Cell /\ failures' = failures + 1)
  BY UntoldStep
<1>3. CASE failures' = failures + 1
  <2>1. Untold' \subseteq Untold \cup {Cell}
    BY <1>2
  <2>2. /\ IsFiniteSet(Untold \cup {Cell})
        /\ Cardinality(Untold \cup {Cell}) \in Nat
        /\ Cardinality(Untold \cup {Cell}) <= failures + 1
    <3>1. /\ IsFiniteSet(Untold \cup {Cell})
          /\ Cardinality(Untold \cup {Cell}) \in {Cardinality(Untold), Cardinality(Untold) + 1}
      BY <1>1, FS_AddElement
    <3>2. QED
      BY <1>0, <1>1, <3>1
  <2>3. IsFiniteSet(Untold') /\ Cardinality(Untold') <= Cardinality(Untold \cup {Cell})
    BY <2>1, <2>2, FS_Subset
  <2>4. Cardinality(Untold') \in Nat
    BY <2>3, FS_CardinalityType
  <2>5. QED
    BY <1>0, <1>3, <2>2, <2>3, <2>4 DEF Kept
<1>4. CASE failures' # failures + 1
  <2>1. Untold' \subseteq Untold
    BY <1>2, <1>4
  <2>2. IsFiniteSet(Untold') /\ Cardinality(Untold') <= Cardinality(Untold)
    BY <1>1, <2>1, FS_Subset
  <2>3. Cardinality(Untold') \in Nat
    BY <2>2, FS_CardinalityType
  <2>4. QED
    BY <1>0, <1>1, <2>2, <2>3 DEF Kept
<1>5. QED
  BY <1>3, <1>4

-----------------------------------------------------------------------------
(* The theorems.                                                           *)

(* A new session fulfils the invariant.                                    *)
LEMMA ProtocolInit == Init => ProtocolInvariant
<1> SUFFICES ASSUME Init PROVE ProtocolInvariant
  OBVIOUS
<1>1. ProtocolTypeOK
  BY InitType
<1>2. Last = 0 /\ Numbers = {}
  BY DEF Init, Last, Numbers
<1>3. Control /\ InHand /\ Window /\ Bench
  BY <1>2 DEF Init, Control, InHand, AtWork, Window, Bench, Live, Before
<1>4. Written /\ Placed /\ OneValidPerCell
  BY <1>2 DEF Init, Written, Over, Placed, OneValidPerCell
<1>5. Kept
  <2>1. Passed = {}
    BY ProtocolAssumption DEF Init, Passed, Behind, Ending
  <2>2. Untold = {}
    BY <2>1 DEF Untold
  <2>3. QED
    BY <2>2, FS_EmptySet DEF Init, Kept
<1>6. QED
  BY <1>1, <1>3, <1>4, <1>5 DEF ProtocolInvariant

(* Every step keeps it.                                                    *)
LEMMA ProtocolStep == ProtocolInvariant /\ [Next]_vars => ProtocolInvariant'
<1> SUFFICES ASSUME ProtocolInvariant, [Next]_vars PROVE ProtocolInvariant'
  OBVIOUS
<1>1. /\ ProtocolTypeOK /\ Control /\ InHand /\ Window /\ Bench
      /\ Written /\ Placed /\ OneValidPerCell /\ Kept
  BY DEF ProtocolInvariant
<1>2. ProtocolTypeOK' /\ Control' /\ InHand' /\ Window' /\ Bench'
  BY <1>1, TypeStep, ControlStep, InHandStep, WindowStep, BenchStep
<1>3. Written' /\ Placed' /\ OneValidPerCell' /\ Kept'
  BY <1>1, WrittenStep, PlacedStep, OneValidStep, KeptStep
<1>4. QED
  BY <1>2, <1>3 DEF ProtocolInvariant

(* The control, the directories, the bench and the report are what         *)
(* ProtocolInvariant says in every state of every session.                 *)
LEMMA AlwaysProtocol == Spec => []ProtocolInvariant
BY ProtocolInit, ProtocolStep, PTL DEF Spec

(* Every variable holds what it can hold; in particular the thread of the  *)
(* fault only acts for a load that was sent, or a process that is dying.   *)
THEOREM ProtocolTypeCorrect == Spec => []ProtocolTypeOK
<1>1. ProtocolInvariant => ProtocolTypeOK
  BY DEF ProtocolInvariant
<1>2. QED
  BY <1>1, AlwaysProtocol, PTL

(* A VALID execution of a scenario with a fault had its fault.             *)
THEOREM ValidAlwaysHadItsFault == Spec => []ValidHadItsFault
<1>1. ProtocolInvariant => ValidHadItsFault
  BY DEF ProtocolInvariant, Window, HadFault, ValidHadItsFault
<1>2. QED
  BY <1>1, AlwaysProtocol, PTL

(* "Sem perturbação órfã": no process leaves its fault behind, but for the *)
(* excuses.                                                                *)
THEOREM NeverOrphanFault == Spec => []NoOrphanFault
<1>1. ProtocolInvariant => NoOrphanFault
  <2> SUFFICES ASSUME ProtocolInvariant, runner = "none", perturbed
               PROVE  Excused(executions[services])
    BY DEF NoOrphanFault, Excused
  <2>1. timeline \notin Live
    BY DEF ProtocolInvariant, ProtocolTypeOK, Live
  <2>2. QED
    BY <2>1 DEF ProtocolInvariant, Bench
<1>2. QED
  BY <1>1, AlwaysProtocol, PTL

(* A cell of the plan gives at most one VALID execution.                   *)
THEOREM AlwaysOneValidPerCell == Spec => []OneValidPerCell
<1>1. ProtocolInvariant => OneValidPerCell
  BY DEF ProtocolInvariant
<1>2. QED
  BY <1>1, AlwaysProtocol, PTL

(* What is not in work is behind.                                          *)
LEMMA NotCurrentIsOver ==
  ASSUME ProtocolTypeOK, NEW n \in Numbers \ Current
  PROVE  n \in Over
BY NumbersFacts DEF Current, Over

(* invalid_runs.csv has at most one line for an execution, of an INVALID   *)
(* one; it has one for each of those the menu was told of, and lacks only  *)
(* the line of one that was cut in between.                                *)
THEOREM InvalidAlwaysRecordedOnce == Spec => []InvalidRecordedOnce
<1>1. ProtocolInvariant => InvalidRecordedOnce
  <2> SUFFICES ASSUME ProtocolInvariant, NEW n \in Numbers
               PROVE  /\ executions[n].rows <= 1
                      /\ executions[n].rows = 1 => executions[n].status = "INVALID"
                      /\ n \in Unrecorded => n \notin report.results /\ (stop.forced \/ failures >= 2)
    BY DEF InvalidRecordedOnce
  <2>1. executions[n].rows <= 1 /\ (executions[n].rows = 1 => executions[n].status = "INVALID")
    BY DEF ProtocolInvariant, Written
  <2>2. ASSUME n \in Unrecorded
        PROVE  n \notin report.results /\ (stop.forced \/ failures >= 2)
    <3>1. n \in Over
      BY <2>2, NotCurrentIsOver DEF ProtocolInvariant, Unrecorded
    <3>2. ~Finished(executions[n]) /\ ~Incomplete(executions[n])
      BY <2>2 DEF Unrecorded, Finished, Incomplete
    <3>3. QED
      BY <3>1, <3>2 DEF ProtocolInvariant, Written, Worth
  <2>3. QED
    BY <2>1, <2>2
<1>2. QED
  BY <1>1, AlwaysProtocol, PTL

(* One Ctrl+C leaves no execution unfinished.                              *)
THEOREM AlwaysFinishedUnlessForced == Spec => []FinishedUnlessForced
<1>1. ProtocolInvariant => FinishedUnlessForced
  <2> SUFFICES ASSUME ProtocolInvariant, NEW n \in Unfinished PROVE stop.forced \/ failures > 0
    BY DEF FinishedUnlessForced
  <2>1. n \in Numbers \ Current /\ Incomplete(executions[n])
    BY DEF Unfinished, Incomplete
  <2>2. n \in Over
    BY <2>1, NotCurrentIsOver DEF ProtocolInvariant
  <2>3. ~Finished(executions[n])
    BY <2>1 DEF Finished, Incomplete
  <2>4. QED
    BY <2>1, <2>2, <2>3 DEF ProtocolInvariant, Written, Worth, Incomplete, Unlined
<1>2. QED
  BY <1>1, AlwaysProtocol, PTL

(* When the session is over the cells of its cycles no one can tell about  *)
(* are no more than the failures, and what is listed as not run was not.   *)
THEOREM PlanAlwaysAccounted == Spec => []PlanAccounted
<1>1. ProtocolInvariant => PlanAccounted
  <2> SUFFICES ASSUME ProtocolInvariant, menu = "over"
               PROVE  /\ Cardinality({c \in Began : ~Accounted(c)}) <= failures
                      /\ \A n \in Numbers : executions[n].cell \notin report.notRun
    BY DEF PlanAccounted
  <2>0. ProtocolTypeOK /\ runner = "none" /\ failures \in Nat
    BY ProtocolAssumption DEF ProtocolInvariant, Control, ProtocolTypeOK
  <2>1. ASSUME NEW c \in Began PROVE c \in Passed
    <3>1. PICK k \in 1 .. cycle, i \in 1 .. 2 * Len(Scenarios) : c = Plan(k)[i]
      BY DEF Began
    <3>2. k \in 1 .. Cycles
      BY <2>0, ProtocolAssumption DEF ProtocolTypeOK
    <3>3. c \in Cells
      BY <3>1, <3>2, PlanType
    <3>4. QED
      BY <3>1, <3>3 DEF Passed, Behind
  <2>2. ASSUME NEW c, Settled(c) PROVE Accounted(c)
    <3>1. ASSUME NEW n \in Over, Abandoned(executions[n]) PROVE n \in Unfinished \cup Unrecorded
      <4>1. n \in Numbers \ Current
        BY <2>0 DEF Over, Current
      <4>2. executions[n].status \in {"open", "VALID", "INVALID"}
        BY <2>0, <4>1, ExecutionType DEF Execution
      <4>3. QED
        BY <3>1, <4>1, <4>2 DEF Unfinished, Unrecorded, Abandoned
    <3>2. QED
      BY <2>2, <3>1 DEF Settled, Accounted
  <2>3. {c \in Began : ~Accounted(c)} \subseteq Untold
    BY <2>1, <2>2 DEF Untold
  <2>4. IsFiniteSet(Untold) /\ Cardinality(Untold) <= failures
    BY DEF ProtocolInvariant, Kept
  <2>5. Cardinality({c \in Began : ~Accounted(c)}) <= failures
    <3>1. /\ IsFiniteSet({c \in Began : ~Accounted(c)})
          /\ Cardinality({c \in Began : ~Accounted(c)}) <= Cardinality(Untold)
      BY <2>3, <2>4, FS_Subset
    <3>2. /\ Cardinality({c \in Began : ~Accounted(c)}) \in Nat
          /\ Cardinality(Untold) \in Nat
      BY <2>4, <3>1, FS_CardinalityType
    <3>3. QED
      BY <2>0, <2>4, <3>1, <3>2
  <2>6. \A n \in Numbers : executions[n].cell \notin report.notRun
    BY DEF ProtocolInvariant, Placed
  <2>7. QED
    BY <2>5, <2>6
<1>2. QED
  BY <1>1, AlwaysProtocol, PTL
=============================================================================
