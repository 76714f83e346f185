--------------------------- MODULE Inventory_proofs ---------------------------
(***************************************************************************)
(* Proofs about the inventory-service, for any requests and any number of  *)
(* crashes, exceptions, repetitions and fault windows.                     *)
(*                                                                         *)
(* The argument rests on one step, Process: a transaction looks up the     *)
(* message, then the reservation, and writes both with the answer. All     *)
(* other steps move what it wrote.                                         *)
(***************************************************************************)
EXTENDS InventoryProperties, TLAPS

(* A request has the route it asks for and a task.                         *)
LEMMA RequestFacts ==
  ASSUME NEW r \in Requests
  PROVE  r.target \in Routes /\ r.task \in AskedTasks /\ Draw(r) \in Draws
BY RequestsAssumption DEF AskedTasks, Draws

(* An idle worker is not working.                                          *)
LEMMA IdleFacts ==
  Idle.pc = "idle" /\ Idle.request = NoRequest /\ \A w : Working(w) => ~At(w, "idle")
BY DEF Idle, Working, At

-----------------------------------------------------------------------------
(* Types.                                                                  *)

WorkersType == DOMAIN worker = Routes /\ \A w \in Routes : worker[w] = Idle \/ Working(w)

DataType ==
  /\ reservations \subseteq Rows
  /\ processed \subseteq Answers /\ published \subseteq Answers
  /\ issued \in Nat

EnvironmentType ==
  /\ asked \subseteq Requests /\ deadLetters \subseteq Requests
  /\ queued \in [Requests -> Nat]
  /\ process \in [Routes -> {"up", "stopping", "down"}]
  /\ fault \subseteq Draws /\ outage \in BOOLEAN
  /\ crashes \in 0 .. MaxCrashes /\ failures \in 0 .. MaxFailures
  /\ duplicates \in 0 .. MaxDuplicates /\ windows \in 0 .. MaxWindows

(* Working depends on the worker and on the answers stored for its request.*)
LEMMA WorkingKept ==
  ASSUME NEW w, Working(w), worker'[w] = worker[w], processed \subseteq processed'
  PROVE  Working(w)'
BY DEF Working, Request, At, Stored

(* A step that changes at most one worker keeps the others.                *)
LEMMA WorkersKept ==
  ASSUME WorkersType, NEW w \in Routes, NEW x,
         worker' = [worker EXCEPT ![w] = x],
         processed \subseteq processed',
         x = Idle \/ Working(w)'
  PROVE  WorkersType'
<1>1. DOMAIN worker' = Routes /\ worker'[w] = x
  BY DEF WorkersType
<1>2. ASSUME NEW v \in Routes, v # w PROVE worker'[v] = Idle \/ Working(v)'
  <2>1. worker'[v] = worker[v]
    BY <1>2 DEF WorkersType
  <2>2. QED
    BY <2>1, WorkingKept DEF WorkersType
<1>3. QED
  BY <1>1, <1>2 DEF WorkersType

(* What Store leaves: one more answer, with the next identity.             *)
LEMMA StoreFacts ==
  ASSUME InventoryTypeOK, NEW w \in Routes, At(w, "process"),
         NEW result \in Results, NEW route \in Routes, Store(w, result, route)
  PROVE  LET answer == [id |-> issued + 1, request |-> Request(w),
                        result |-> result, route |-> route]
         IN  /\ answer \in Answers
             /\ processed' = processed \cup {answer}
             /\ issued' = issued + 1
             /\ WorkersType'
<1> DEFINE answer == [id |-> issued + 1, request |-> Request(w),
                      result |-> result, route |-> route]
<1>1. Working(w)
  BY IdleFacts DEF InventoryTypeOK, At
<1>2. answer \in Answers /\ answer.request = Request(w)
  BY <1>1 DEF Answers, Working, InventoryTypeOK, Request
<1>3. /\ processed' = processed \cup {answer}
      /\ issued' = issued + 1
      /\ worker' = [worker EXCEPT ![w].pc = "publish", ![w].reply = answer]
  BY DEF Store, Reply
<1> DEFINE x == [worker[w] EXCEPT !.pc = "publish", !.reply = answer]
<1>4. worker' = [worker EXCEPT ![w] = x] /\ worker'[w] = x
  BY <1>3 DEF InventoryTypeOK
<1>5. Working(w)'
  <2> HIDE DEF answer
  <2> DEFINE Busy == [pc: {"process", "publish", "ack"}, request: Requests,
                      injected: BOOLEAN, reply: Answers \cup {NoAnswer}]
  <2>a. worker[w] \in Busy
    BY <1>1 DEF Working
  <2>b. \A y \in Busy : LET z == [y EXCEPT !.pc = "publish", !.reply = answer]
        IN z \in Busy /\ z.request = y.request /\ z.pc = "publish" /\ z.reply = answer
    BY <1>2
  <2>1. /\ worker'[w].request = worker[w].request /\ worker'[w].pc = "publish"
        /\ worker'[w].reply = answer
        /\ worker'[w] \in [pc: {"process", "publish", "ack"}, request: Requests,
                           injected: BOOLEAN, reply: Answers \cup {NoAnswer}]
    BY <1>4, <2>a, <2>b
  <2>2. answer \in {a \in processed' : a.request = worker'[w].request}
    BY <1>2, <1>3, <2>1 DEF Request
  <2>3. QED
    BY <1>1, <2>1, <2>2 DEF Working, Request, At, Stored
<1>6. WorkersType'
  BY <1>3, <1>4, <1>5, WorkersKept DEF InventoryTypeOK, WorkersType
<1>7. QED
  BY <1>2, <1>3, <1>6

(* Before its transaction, a working worker has a request of its route.    *)
LEMMA AtWork ==
  ASSUME InventoryTypeOK, NEW w \in Routes, ~At(w, "idle")
  PROVE  Working(w) /\ Request(w) \in Requests /\ Request(w).target = w
BY IdleFacts DEF InventoryTypeOK, At, Working, Request

(* The transaction.                                                        *)
LEMMA ProcessType ==
  ASSUME InventoryTypeOK, NEW w \in Routes, Process(w)
  PROVE  InventoryTypeOK'
<1>1. EnvironmentType'
  BY DEF Process, sent, lab, InventoryTypeOK, EnvironmentType
<1>2. At(w, "process") /\ published' = published
  BY DEF Process, Repeat, Reserve, AnswerReserved, RefuseData, FailInjected, FirstTime, sent
<1>3. Working(w) /\ Request(w) \in Requests /\ Request(w).target = w
  BY <1>2, AtWork DEF At
<1>4. ASSUME NEW result \in Results, NEW route \in Routes, Store(w, result, route),
             reservations' \subseteq Rows
      PROVE  DataType' /\ WorkersType'
  <2> DEFINE answer == [id |-> issued + 1, request |-> Request(w),
                        result |-> result, route |-> route]
  <2>1. /\ answer \in Answers
        /\ processed' = processed \cup {answer}
        /\ issued' = issued + 1
        /\ WorkersType'
    BY <1>2, <1>4, StoreFacts
  <2> HIDE DEF answer
  <2>2. QED
    BY <1>2, <1>4, <2>1 DEF InventoryTypeOK, DataType
<1>5. CASE Repeat(w)
  <2>1. PICK answer \in Stored(Request(w)) :
          worker' = [worker EXCEPT ![w].pc = "publish", ![w].reply = answer]
    BY <1>5 DEF Repeat, Reply
  <2>2. UNCHANGED <<reservations, processed, issued>>
    BY <1>5 DEF Repeat, database
  <2> DEFINE Busy == [pc: {"process", "publish", "ack"}, request: Requests,
                      injected: BOOLEAN, reply: Answers \cup {NoAnswer}]
  <2>3. worker[w] \in Busy /\ answer \in Answers
    BY <1>3 DEF Working, Stored, InventoryTypeOK
  <2>4. \A y \in Busy : LET z == [y EXCEPT !.pc = "publish", !.reply = answer]
        IN z \in Busy /\ z.request = y.request /\ z.pc = "publish" /\ z.reply = answer
    BY <2>3
  <2>5. /\ worker'[w].request = worker[w].request /\ worker'[w].pc = "publish"
        /\ worker'[w].reply = answer /\ worker'[w] \in Busy
        /\ worker' = [worker EXCEPT ![w] = worker'[w]]
    BY <2>1, <2>3, <2>4 DEF InventoryTypeOK
  <2>6. Working(w)'
    BY <1>3, <2>1, <2>2, <2>5 DEF Working, Request, At, Stored
  <2>7. WorkersType'
    BY <2>2, <2>5, <2>6, WorkersKept DEF InventoryTypeOK, WorkersType
  <2>8. QED
    BY <1>1, <1>2, <2>2, <2>7 DEF InventoryTypeOK, EnvironmentType, WorkersType
<1>6. CASE Reserve(w)
  <2>1. reservations' \subseteq Rows
    BY <1>3, <1>6, RequestFacts DEF Reserve, Rows, InventoryTypeOK
  <2>2. Store(w, "ok", Request(w).target)
    BY <1>6 DEF Reserve
  <2>3. QED
    BY <1>1, <1>3, <1>4, <2>1, <2>2
    DEF Results, InventoryTypeOK, EnvironmentType, WorkersType, DataType
<1>7. CASE AnswerReserved(w)
  <2>1. PICK row \in Reserved(Request(w).task) : Store(w, "ok", row.route)
    BY <1>7 DEF AnswerReserved
  <2>2. row.route \in Routes /\ reservations' \subseteq Rows
    BY <1>7 DEF AnswerReserved, Reserved, InventoryTypeOK, Rows
  <2>3. QED
    BY <1>1, <1>4, <2>1, <2>2
    DEF Results, InventoryTypeOK, EnvironmentType, WorkersType, DataType
<1>8. CASE RefuseData(w) \/ FailInjected(w)
  <2>1. reservations' \subseteq Rows
    BY <1>8 DEF RefuseData, FailInjected, InventoryTypeOK
  <2>2. Store(w, "invalid_data", w) \/ Store(w, "transient_error", w)
    BY <1>3, <1>8 DEF RefuseData, FailInjected
  <2>3. QED
    BY <1>1, <1>4, <2>1, <2>2
    DEF Results, InventoryTypeOK, EnvironmentType, WorkersType, DataType
<1>9. QED
  BY <1>5, <1>6, <1>7, <1>8 DEF Process

(* A worker takes, publishes, acknowledges, raises or is interrupted.      *)
LEMMA WorkerType ==
  ASSUME InventoryTypeOK, NEW w \in Routes,
         Take(w) \/ Publish(w) \/ Ack(w) \/ Raises(w) \/ ChildLost(w) \/ Exit(w)
  PROVE  InventoryTypeOK'
<1>1. UNCHANGED <<reservations, processed, issued>>
  BY DEF Take, Publish, Ack, Raises, ChildLost, Exit, database
<1>2. CASE Take(w)
  <2>1. PICK r \in Requests :
          /\ r.target = w /\ queued[r] > 0
          /\ queued' = [queued EXCEPT ![r] = @ - 1]
          /\ worker' = [worker EXCEPT ![w] =
               [pc |-> "process", request |-> r, injected |-> Injected(r), reply |-> NoAnswer]]
    BY <1>2 DEF Take
  <2>2. worker'[w] =
          [pc |-> "process", request |-> r, injected |-> Injected(r), reply |-> NoAnswer]
    BY <2>1 DEF InventoryTypeOK
  <2>3. Injected(r) \in BOOLEAN
    BY DEF Injected
  <2>4. Working(w)'
    BY <2>1, <2>2, <2>3 DEF Working, Request, At
  <2>5. WorkersType'
    BY <1>1, <2>1, <2>2, <2>4, WorkersKept DEF InventoryTypeOK, WorkersType
  <2>6. queued' \in [Requests -> Nat]
    BY <2>1 DEF InventoryTypeOK
  <2>7. QED
    BY <1>1, <1>2, <2>5, <2>6 DEF Take, sent, lab, InventoryTypeOK, WorkersType
<1>3. CASE Publish(w)
  <2>1. Working(w) /\ At(w, "publish")
    BY <1>3, AtWork DEF Publish, At
  <2>2. worker[w].reply \in Stored(Request(w))
    BY <2>1 DEF Working, At
  <2>3. published' \subseteq Answers
    BY <1>3, <2>2 DEF Publish, Stored, InventoryTypeOK
  <2> DEFINE Busy == [pc: {"process", "publish", "ack"}, request: Requests,
                      injected: BOOLEAN, reply: Answers \cup {NoAnswer}]
  <2>4. worker[w] \in Busy
    BY <2>1 DEF Working
  <2>5. \A y \in Busy : LET z == [y EXCEPT !.pc = "ack"]
        IN z \in Busy /\ z.request = y.request /\ z.pc = "ack" /\ z.reply = y.reply
    OBVIOUS
  <2>6. /\ worker'[w].request = worker[w].request /\ worker'[w].pc = "ack"
        /\ worker'[w].reply = worker[w].reply /\ worker'[w] \in Busy
        /\ worker' = [worker EXCEPT ![w] = worker'[w]]
    BY <1>3, <2>4, <2>5 DEF Publish, InventoryTypeOK
  <2>7. Working(w)'
    BY <1>1, <2>1, <2>2, <2>6 DEF Working, Request, At, Stored
  <2>8. WorkersType'
    BY <1>1, <2>6, <2>7, WorkersKept DEF InventoryTypeOK, WorkersType
  <2>9. QED
    BY <1>1, <1>3, <2>3, <2>8 DEF Publish, lab, InventoryTypeOK, WorkersType
<1>4. CASE Ack(w) \/ Raises(w) \/ ChildLost(w) \/ Exit(w)
  <2>1. worker' = [worker EXCEPT ![w] = Idle]
    BY <1>4 DEF Ack, Raises, ChildLost, Exit, Interrupt
  <2>2. WorkersType'
    BY <1>1, <2>1, WorkersKept DEF InventoryTypeOK, WorkersType
  <2>3. queued' \in [Requests -> Nat]
    <3>1. CASE At(w, "idle") \/ queued' = queued
      BY <1>4, <3>1 DEF Ack, Raises, ChildLost, Exit, Interrupt, InventoryTypeOK
    <3>2. CASE ~At(w, "idle") /\ queued' = [queued EXCEPT ![Request(w)] = @ + 1]
      BY <3>2, AtWork DEF InventoryTypeOK
    <3>3. QED
      BY <1>4, <3>1, <3>2 DEF Ack, Raises, ChildLost, Exit, Interrupt
  <2>4. deadLetters' \subseteq Requests
    BY <1>4, AtWork DEF Ack, Raises, ChildLost, Exit, sent, InventoryTypeOK
  <2>5. process' \in [Routes -> {"up", "stopping", "down"}]
    BY <1>4 DEF Ack, Raises, ChildLost, Exit, InventoryTypeOK
  <2>6. crashes' \in 0 .. MaxCrashes /\ failures' \in 0 .. MaxFailures
    BY <1>4, RequestsAssumption DEF Ack, Raises, ChildLost, Exit, Crashes, InventoryTypeOK
  <2>7. QED
    BY <1>1, <1>4, <2>2, <2>3, <2>4, <2>5, <2>6
    DEF Ack, Raises, ChildLost, Exit, sent, lab, InventoryTypeOK, WorkersType
<1>5. QED
  BY <1>2, <1>3, <1>4

(* The orders-service, the container and the laboratory.                   *)
LEMMA OutsideType ==
  ASSUME InventoryTypeOK,
         \/ \E r \in Requests : Ask(r) \/ AskAgain(r)
         \/ \E w \in Routes : Shutdown(w)
         \/ MainSeesExit \/ FaultStarts \/ FaultEnds \/ OutageStarts \/ OutageEnds
         \/ UNCHANGED vars
  PROVE  InventoryTypeOK'
<1>1. UNCHANGED <<worker, database, sent>>
  BY DEF Ask, AskAgain, Shutdown, MainSeesExit, FaultStarts, FaultEnds, OutageStarts,
         OutageEnds, vars, database, sent
<1>2. WorkersType'
  BY <1>1, WorkingKept DEF InventoryTypeOK, WorkersType, database
<1>3. queued' \in [Requests -> Nat] /\ asked' \subseteq Requests
  BY DEF InventoryTypeOK, Ask, AskAgain, Queue, Shutdown, MainSeesExit, FaultStarts, FaultEnds,
         OutageStarts, OutageEnds, vars
<1>4. process' \in [Routes -> {"up", "stopping", "down"}]
  BY DEF InventoryTypeOK, Ask, AskAgain, Shutdown, MainSeesExit, FaultStarts, FaultEnds,
         OutageStarts, OutageEnds, Terminate, vars
<1>5. fault' \subseteq Draws /\ outage' \in BOOLEAN
  BY DEF InventoryTypeOK, Ask, AskAgain, Shutdown, MainSeesExit, FaultStarts, FaultEnds,
         OutageStarts, OutageEnds, lab, vars
<1>6. windows' \in 0 .. MaxWindows
  <2>1. windows' = windows \/ OpenWindow
    BY DEF Ask, AskAgain, Shutdown, MainSeesExit, FaultStarts, FaultEnds, OutageStarts,
           OutageEnds, lab, vars
  <2>2. QED
    BY <2>1, RequestsAssumption DEF OpenWindow, InventoryTypeOK
<1>7. duplicates' \in 0 .. MaxDuplicates
  BY RequestsAssumption
  DEF InventoryTypeOK, Ask, AskAgain, Shutdown, MainSeesExit, FaultStarts, FaultEnds,
      OutageStarts, OutageEnds, vars
<1>8. UNCHANGED <<crashes, failures, deadLetters>>
  BY DEF Ask, AskAgain, Shutdown, MainSeesExit, FaultStarts, FaultEnds, OutageStarts,
         OutageEnds, vars, sent
<1>9. QED
  BY <1>1, <1>2, <1>3, <1>4, <1>5, <1>6, <1>7, <1>8
  DEF InventoryTypeOK, WorkersType, database, sent

(* The types are inductive.                                                *)
LEMMA TypeStep == InventoryTypeOK /\ [Next]_vars => InventoryTypeOK'
BY ProcessType, WorkerType, OutsideType DEF Next, Work

(* The types hold at the start.                                            *)
LEMMA InitInventory == ASSUME Init PROVE InventoryTypeOK
<1>1. WorkersType
  BY DEF Init, WorkersType
<1>2. EnvironmentType
  <2>1. /\ crashes \in 0 .. MaxCrashes /\ failures \in 0 .. MaxFailures
        /\ duplicates \in 0 .. MaxDuplicates /\ windows \in 0 .. MaxWindows
    BY RequestsAssumption DEF Init
  <2>2. queued \in [Requests -> Nat] /\ process \in [Routes -> {"up", "stopping", "down"}]
    BY DEF Init
  <2>3. QED
    BY <2>1, <2>2 DEF Init, EnvironmentType
<1>3. DataType
  BY DEF Init, DataType
<1>4. QED
  BY <1>1, <1>2, <1>3 DEF InventoryTypeOK, WorkersType, EnvironmentType, DataType

(* The tables, the queues and the two workers hold what they can hold.     *)
THEOREM InventoryTypeCorrect == Spec => []InventoryTypeOK
BY InitInventory, TypeStep, PTL DEF Spec

-----------------------------------------------------------------------------
(* The answers and the reservations.                                       *)

(* What the reasons of an answer say of its request.                       *)
Justified(a) ==
  /\ a.result # "ok" => a.route = a.request.target
  /\ a.result = "transient_error" => a.request.target = Primary
  /\ a.result = "invalid_data" => a.request.task \in Unknown

(* What every transaction leaves.                                          *)
Recorded ==
  /\ \A a, b \in processed : a.request = b.request \/ a.id = b.id => a = b
  /\ \A a \in processed : a.id <= issued /\ Justified(a)
  /\ SuccessMeansReserved
  /\ \A x, y \in reservations : x.task = y.task => x = y

(* What the workers and the queue of answers hold besides.                 *)
Carried ==
  /\ published \subseteq processed
  /\ \A w \in Routes : worker[w].injected => w = Primary
  /\ \A w \in Routes : At(w, "ack") => worker[w].reply \in published

(* A transaction that found no answer writes a new one.                    *)
LEMMA StoreRecorded ==
  ASSUME InventoryTypeOK, Recorded, NEW w \in Routes, FirstTime(w),
         NEW result \in Results, NEW route \in Routes, Store(w, result, route),
         result # "ok" => route = w,
         result = "transient_error" => w = Primary,
         result = "invalid_data" => Request(w).task \in Unknown,
         reservations \subseteq reservations',
         result = "ok" => \E row \in reservations' :
                            row.task = Request(w).task /\ row.route = route,
         \A row \in reservations' \ reservations :
           row.by = Request(w) /\ row.route = route /\ result = "ok",
         \A x, y \in reservations' : x.task = y.task => x = y
  PROVE  Recorded'
<1> DEFINE answer == [id |-> issued + 1, request |-> Request(w),
                      result |-> result, route |-> route]
<1>1. At(w, "process") /\ \A a \in processed : a.request # Request(w)
  BY DEF FirstTime, Stored
<1>2. /\ answer \in Answers /\ processed' = processed \cup {answer}
      /\ issued' = issued + 1
  BY <1>1, StoreFacts
<1>3. /\ answer.id = issued + 1 /\ answer.request = Request(w)
      /\ answer.result = result /\ answer.route = route
  OBVIOUS
<1>4. issued \in Nat /\ \A a \in processed : a.id \in Nat /\ a.id <= issued
  BY DEF InventoryTypeOK, Recorded, Answers
<1>5. Request(w).target = w
  BY <1>1, AtWork DEF At
<1> HIDE DEF answer
<1>6. \A a, b \in processed' : a.request = b.request \/ a.id = b.id => a = b
  <2>1. \A a \in processed : a.id # answer.id /\ a.request # answer.request
    BY <1>1, <1>3, <1>4
  <2>2. QED
    BY <1>2, <2>1 DEF Recorded
<1>7. \A a \in processed' : a.id <= issued' /\ Justified(a)
  <2>1. answer.id <= issued' /\ Justified(answer)
    BY <1>2, <1>3, <1>4, <1>5 DEF Justified
  <2>2. \A a \in processed : a.id <= issued'
    BY <1>2, <1>4
  <2>3. QED
    BY <1>2, <2>1, <2>2 DEF Recorded
<1>8. SuccessMeansReserved'
  <2>1. \A a \in processed' : a.result = "ok" =>
          \E row \in reservations' : row.task = a.request.task /\ row.route = a.route
    BY <1>2, <1>3 DEF Recorded, SuccessMeansReserved
  <2>2. ASSUME NEW row \in reservations'
        PROVE  \E a \in Stored(row.by)' : a.result = "ok" /\ a.route = row.route
    BY <1>2, <1>3 DEF Recorded, SuccessMeansReserved, Stored
  <2>3. QED
    BY <2>1, <2>2 DEF SuccessMeansReserved
<1>9. QED
  BY <1>6, <1>7, <1>8 DEF Recorded

(* The three ways a first transaction ends, and the repetition.            *)
LEMMA ProcessRecorded ==
  ASSUME InventoryTypeOK, Recorded, Carried, NEW w \in Routes, Process(w)
  PROVE  Recorded' /\ Carried'
<1>1. At(w, "process") /\ published' = published
  BY DEF Process, Repeat, Reserve, AnswerReserved, RefuseData, FailInjected, FirstTime, sent
<1>2. Working(w) /\ Request(w) \in Requests /\ Request(w).target = w
  BY <1>1, AtWork DEF At
<1>3. \E answer : Reply(w, answer)
  BY DEF Process, Repeat, Reserve, AnswerReserved, RefuseData, FailInjected, Store
<1>4. processed \subseteq processed'
  BY DEF Process, Repeat, Reserve, AnswerReserved, RefuseData, FailInjected, Store, database
<1>5. Carried'
  <2>1. PICK answer : worker' = [worker EXCEPT ![w].pc = "publish", ![w].reply = answer]
    BY <1>3 DEF Reply
  <2>2. \A v \in Routes : v # w => worker'[v] = worker[v]
    BY <2>1 DEF InventoryTypeOK
  <2>3. worker'[w].injected = worker[w].injected /\ worker'[w].pc = "publish"
    BY <1>2, <2>1 DEF Working, InventoryTypeOK
  <2>4. QED
    BY <1>1, <1>4, <2>2, <2>3 DEF Carried, At
<1>6. CASE Repeat(w)
  BY <1>5, <1>6 DEF Repeat, database, Recorded, SuccessMeansReserved, Stored, Justified
<1>7. CASE Reserve(w)
  <2> DEFINE row == [task |-> Request(w).task, route |-> w, by |-> Request(w)]
  <2>1. reservations' = reservations \cup {row} /\ FirstTime(w) /\ Store(w, "ok", w)
    BY <1>2, <1>7 DEF Reserve
  <2>2. row.task = Request(w).task /\ row.route = w /\ row.by = Request(w)
    OBVIOUS
  <2>3. \A x \in reservations : x.task # row.task
    BY <1>7 DEF Reserve, Reserved
  <2> HIDE DEF row
  <2>4. \A x, y \in reservations' : x.task = y.task => x = y
    BY <2>1, <2>3 DEF Recorded
  <2>5. QED
    BY <1>5, <2>1, <2>2, <2>4, StoreRecorded DEF Results
<1>8. CASE AnswerReserved(w)
  <2>1. PICK row \in Reserved(Request(w).task) : Store(w, "ok", row.route)
    BY <1>8 DEF AnswerReserved
  <2>2. row \in reservations /\ row.task = Request(w).task /\ row.route \in Routes
    BY DEF Reserved, InventoryTypeOK, Rows
  <2>3. reservations' = reservations /\ FirstTime(w)
    BY <1>8 DEF AnswerReserved
  <2>4. \A x, y \in reservations' : x.task = y.task => x = y
    BY <2>3 DEF Recorded
  <2>5. QED
    BY <1>5, <2>1, <2>2, <2>3, <2>4, StoreRecorded DEF Results
<1>9. CASE RefuseData(w)
  <2>1. /\ reservations' = reservations /\ FirstTime(w)
        /\ Store(w, "invalid_data", w) /\ Request(w).task \in Unknown
    BY <1>2, <1>9 DEF RefuseData
  <2>2. \A x, y \in reservations' : x.task = y.task => x = y
    BY <2>1 DEF Recorded
  <2>3. QED
    BY <1>5, <2>1, <2>2, StoreRecorded DEF Results
<1>10. CASE FailInjected(w)
  <2>1. /\ reservations' = reservations /\ FirstTime(w)
        /\ Store(w, "transient_error", w) /\ w = Primary
    BY <1>10 DEF FailInjected, Carried
  <2>2. \A x, y \in reservations' : x.task = y.task => x = y
    BY <2>1 DEF Recorded
  <2>3. QED
    BY <1>5, <2>1, <2>2, StoreRecorded DEF Results
<1>11. QED
  BY <1>6, <1>7, <1>8, <1>9, <1>10 DEF Process

(* Every other step leaves the database alone.                             *)
LEMMA OtherRecorded ==
  ASSUME InventoryTypeOK, Recorded, Carried, [Next]_vars,
         ~\E w \in Routes : Process(w)
  PROVE  Recorded' /\ Carried'
<1>1. UNCHANGED database
  BY DEF Next, Work, Ask, AskAgain, Take, Publish, Ack, Raises, ChildLost, Exit, Shutdown,
         MainSeesExit, FaultStarts, FaultEnds, OutageStarts, OutageEnds, vars, database
<1>2. Recorded'
  BY <1>1 DEF database, Recorded, SuccessMeansReserved, Stored, Justified
<1>3. ASSUME NEW w \in Routes, Publish(w) PROVE Carried'
  <2>1. Working(w)
    BY <1>3, AtWork DEF Publish, At
  <2>2. worker[w].reply \in processed
    BY <1>3, <2>1 DEF Publish, Working, At, Stored
  <2>3. /\ \A v \in Routes : v # w => worker'[v] = worker[v]
        /\ worker'[w].injected = worker[w].injected
        /\ worker'[w].reply = worker[w].reply
    BY <1>3, <2>1 DEF Publish, Working, InventoryTypeOK
  <2>4. QED
    BY <1>1, <1>3, <2>2, <2>3 DEF Publish, database, Carried, At
<1>4. ASSUME NEW w \in Routes, Take(w) PROVE Carried'
  <2>1. PICK r \in Requests : r.target = w /\ worker' = [worker EXCEPT ![w] =
          [pc |-> "process", request |-> r, injected |-> Injected(r), reply |-> NoAnswer]]
    BY <1>4 DEF Take
  <2>2. /\ \A v \in Routes : v # w => worker'[v] = worker[v]
        /\ worker'[w].injected = Injected(r) /\ worker'[w].pc = "process"
    BY <2>1 DEF InventoryTypeOK
  <2>3. published' \subseteq processed'
    BY <1>1, <1>4 DEF Take, sent, database, Carried
  <2>4. Injected(r) => w = Primary
    BY <2>1 DEF Injected
  <2>5. \A v \in Routes : worker'[v].injected => v = Primary
    BY <2>2, <2>4 DEF Carried
  <2>6. \A v \in Routes : worker'[v].pc = "ack" => worker'[v].reply \in published'
    BY <1>4, <2>2 DEF Take, sent, Carried, At
  <2>7. QED
    BY <2>3, <2>5, <2>6 DEF Carried, At
<1>5. ASSUME NEW w \in Routes, Ack(w) \/ Raises(w) \/ ChildLost(w) \/ Exit(w)
      PROVE  Carried'
  <2>1. worker' = [worker EXCEPT ![w] = Idle] /\ published' = published
    BY <1>5 DEF Ack, Raises, ChildLost, Exit, Interrupt, sent
  <2>2. /\ \A v \in Routes : v # w => worker'[v] = worker[v]
        /\ worker'[w].injected = FALSE /\ worker'[w].pc = "idle"
    BY <2>1 DEF InventoryTypeOK, Idle
  <2>3. published' \subseteq processed'
    BY <1>1, <2>1 DEF database, Carried
  <2>4. \A v \in Routes : worker'[v].injected => v = Primary
    <3>1. SUFFICES ASSUME NEW v \in Routes, worker'[v].injected PROVE v = Primary
      OBVIOUS
    <3>2. v # w
      BY <2>2, <3>1
    <3>3. QED
      BY <2>2, <3>1, <3>2 DEF Carried
  <2>5. \A v \in Routes : worker'[v].pc = "ack" => worker'[v].reply \in published'
    BY <2>1, <2>2 DEF Carried, At
  <2>6. QED
    BY <2>3, <2>4, <2>5 DEF Carried, At
<1>6. ASSUME UNCHANGED <<worker, published>> PROVE Carried'
  <2>1. worker' = worker /\ published' = published /\ processed' = processed
    BY <1>1, <1>6 DEF database
  <2>2. QED
    BY <2>1 DEF Carried, At
<1>7. ASSUME \/ \E r \in Requests : Ask(r) \/ AskAgain(r)
             \/ \E w \in Routes : Shutdown(w)
             \/ MainSeesExit \/ FaultStarts \/ FaultEnds \/ OutageStarts \/ OutageEnds
             \/ UNCHANGED vars
      PROVE  UNCHANGED <<worker, published>>
  BY <1>7 DEF Ask, AskAgain, Shutdown, MainSeesExit, FaultStarts, FaultEnds, OutageStarts,
             OutageEnds, vars, sent
<1>8. Carried'
  BY <1>3, <1>4, <1>5, <1>6, <1>7 DEF Next, Work
<1>9. QED
  BY <1>2, <1>8

(* The inductive invariant.                                                *)
InventoryInvariant == InventoryTypeOK /\ Recorded /\ Carried

(* It holds at the start.                                                  *)
LEMMA InitInvariant == ASSUME Init PROVE InventoryInvariant
<1>1. Recorded /\ Carried
  BY DEF Init, Recorded, Carried, SuccessMeansReserved, At, Idle
<1>2. QED
  BY <1>1, InitInventory DEF InventoryInvariant

(* Every step keeps it.                                                    *)
LEMMA InvariantStep == InventoryInvariant /\ [Next]_vars => InventoryInvariant'
BY TypeStep, ProcessRecorded, OtherRecorded DEF InventoryInvariant

(* It holds in every reachable state.                                      *)
LEMMA AlwaysInvariant == Spec => []InventoryInvariant
BY InitInvariant, InvariantStep, PTL DEF Spec

(* service.py, lines 9 to 11: one answer, with one message_id, for each    *)
(* request, and only committed answers leave.                              *)
THEOREM AlwaysAnsweredOnce == Spec => []AnsweredOnce
<1>1. InventoryInvariant => AnsweredOnce
  BY DEF InventoryInvariant, Recorded, Carried, AnsweredOnce
<1>2. QED
  BY <1>1, AlwaysInvariant, PTL

(* service.py, lines 5 and 6: no success without its reservation, and no   *)
(* reservation without its success.                                        *)
THEOREM SuccessAlwaysReserved == Spec => []SuccessMeansReserved
<1>1. InventoryInvariant => SuccessMeansReserved
  BY DEF InventoryInvariant, Recorded
<1>2. QED
  BY <1>1, AlwaysInvariant, PTL

-----------------------------------------------------------------------------
(* No request disappears.                                                  *)

(* Where a request may be.                                                 *)
Kept(r) ==
  \/ queued[r] > 0
  \/ \E w \in Routes : Request(w) = r
  \/ \E a \in published : a.request = r
  \/ r \in deadLetters

(* An idle worker is at no request.                                        *)
LEMMA IdleAtNone ==
  ASSUME InventoryTypeOK, NEW w \in Routes, At(w, "idle")
  PROVE  worker[w] = Idle /\ Request(w) \notin Requests
<1>1. worker[w] = Idle
  BY IdleFacts DEF InventoryTypeOK
<1>2. DOMAIN NoRequest = {"task"}
  BY DEF NoRequest
<1>3. NoRequest \notin Requests
  BY <1>2, RequestsAssumption
<1>4. QED
  BY <1>1, <1>3, IdleFacts DEF Request

(* A worker that lets go of its request leaves it somewhere else.          *)
LEMMA LetGoKeeps ==
  ASSUME InventoryInvariant, NEW w \in Routes, NEW r \in Requests, Kept(r),
         Ack(w) \/ Raises(w) \/ ChildLost(w) \/ Exit(w)
  PROVE  Kept(r)'
<1>1. InventoryTypeOK /\ Carried
  BY DEF InventoryInvariant
<1>2. worker' = [worker EXCEPT ![w] = Idle] /\ published' = published
  BY DEF Ack, Raises, ChildLost, Exit, Interrupt, sent
<1>3. \A v \in Routes : v # w => worker'[v] = worker[v]
  BY <1>1, <1>2 DEF InventoryTypeOK
<1>4. queued \in [Requests -> Nat]
  BY <1>1 DEF InventoryTypeOK
<1>5. CASE Request(w) = r
  <2>1. ~At(w, "idle")
    BY <1>1, <1>5, IdleAtNone
  <2>2. CASE Ack(w)
    <3>1. worker[w].reply \in published
      BY <1>1, <2>2 DEF Ack, Carried
    <3>2. worker[w].reply.request = r
      BY <1>1, <1>5, <2>1, <2>2, AtWork DEF Ack, At, Working, Stored
    <3>3. QED
      BY <1>2, <3>1, <3>2 DEF Kept
  <2>3. CASE Raises(w)
    BY <1>5, <2>3 DEF Raises, Kept
  <2>4. CASE ChildLost(w) \/ Exit(w)
    <3>1. queued' = [queued EXCEPT ![r] = @ + 1]
      BY <1>5, <2>1, <2>4 DEF ChildLost, Exit, Interrupt
    <3>2. queued'[r] > 0
      BY <1>4, <3>1
    <3>3. QED
      BY <3>2 DEF Kept
  <2>5. QED
    BY <2>2, <2>3, <2>4
<1>6. CASE Request(w) # r
  <2>1. queued[r] > 0 => queued'[r] > 0
    <3>1. CASE queued' = queued
      BY <3>1
    <3>2. CASE queued' = [queued EXCEPT ![Request(w)] = @ + 1]
      BY <1>4, <1>6, <3>2
    <3>3. QED
      BY <3>1, <3>2 DEF Ack, Raises, ChildLost, Exit, Interrupt
  <2>2. deadLetters \subseteq deadLetters'
    BY DEF Ack, Raises, ChildLost, Exit, sent
  <2>3. ASSUME NEW v \in Routes, Request(v) = r PROVE Request(v)' = r
    BY <1>3, <1>6, <2>3 DEF Request
  <2>4. QED
    BY <1>2, <2>1, <2>2, <2>3 DEF Kept
<1>7. QED
  BY <1>5, <1>6

(* A worker that takes a request was at none.                              *)
LEMMA TakeKeeps ==
  ASSUME InventoryTypeOK, NEW w \in Routes, NEW r \in Requests, Kept(r), Take(w)
  PROVE  Kept(r)'
<1>1. PICK q \in Requests :
        /\ queued' = [queued EXCEPT ![q] = @ - 1]
        /\ worker' = [worker EXCEPT ![w] =
             [pc |-> "process", request |-> q, injected |-> Injected(q), reply |-> NoAnswer]]
  BY DEF Take
<1>2. UNCHANGED <<published, deadLetters>> /\ Request(w) \notin Requests
  BY IdleAtNone DEF Take, sent
<1>3. Request(w)' = q /\ \A v \in Routes : v # w => worker'[v] = worker[v]
  BY <1>1 DEF InventoryTypeOK, Request
<1>4. r # q => queued'[r] = queued[r]
  BY <1>1 DEF InventoryTypeOK
<1>5. \A v \in Routes : Request(v) = r => Request(v)' = r
  BY <1>2, <1>3 DEF Request
<1>6. QED
  BY <1>2, <1>3, <1>4, <1>5 DEF Kept

(* What changes no queue but by adding to it, and no worker's request.     *)
LEMMA OthersKeep ==
  ASSUME InventoryTypeOK, NEW r \in Requests, Kept(r),
         \/ \E q \in Requests : Ask(q) \/ AskAgain(q)
         \/ \E w \in Routes : Process(w) \/ Publish(w) \/ Shutdown(w)
         \/ MainSeesExit \/ FaultStarts \/ FaultEnds \/ OutageStarts \/ OutageEnds
         \/ UNCHANGED vars
  PROVE  Kept(r)'
<1>1. queued \in [Requests -> Nat]
  BY DEF InventoryTypeOK
<1>2. CASE \E q \in Requests : Ask(q) \/ AskAgain(q)
  <2>1. PICK q \in Requests : queued' = [queued EXCEPT ![q] = @ + 1]
    BY <1>2 DEF Ask, AskAgain, Queue
  <2>2. queued[r] > 0 => queued'[r] > 0
    BY <1>1, <2>1
  <2>3. UNCHANGED <<worker, published, deadLetters>>
    BY <1>2 DEF Ask, AskAgain, sent
  <2>4. QED
    BY <2>2, <2>3 DEF Kept, Request
<1>3. ASSUME NEW w \in Routes, Process(w) \/ Publish(w)
      PROVE  Kept(r)'
  <2>1. UNCHANGED <<queued, deadLetters>> /\ published \subseteq published'
    BY <1>3 DEF Process, Publish, sent
  <2>2. Working(w)
    BY <1>3, AtWork DEF Process, Repeat, Reserve, AnswerReserved, RefuseData, FailInjected,
                        FirstTime, Publish, At
  <2>3. \/ \E x : worker' = [worker EXCEPT ![w].pc = "publish", ![w].reply = x]
        \/ worker' = [worker EXCEPT ![w].pc = "ack"]
    BY <1>3 DEF Process, Publish, Repeat, Reserve, AnswerReserved, RefuseData, FailInjected,
                Store, Reply
  <2>4. \A v \in Routes : worker'[v].request = worker[v].request
    BY <2>2, <2>3 DEF Working, InventoryTypeOK
  <2>5. QED
    BY <2>1, <2>4 DEF Kept, Request
<1>4. ASSUME \/ \E w \in Routes : Shutdown(w)
             \/ MainSeesExit \/ FaultStarts \/ FaultEnds \/ OutageStarts \/ OutageEnds
             \/ UNCHANGED vars
      PROVE  Kept(r)'
  <2>1. UNCHANGED <<queued, worker, published, deadLetters>>
    BY <1>4 DEF Shutdown, MainSeesExit, FaultStarts, FaultEnds, OutageStarts, OutageEnds,
                vars, sent
  <2>2. QED
    BY <2>1 DEF Kept, Request
<1>5. QED
  BY <1>2, <1>3, <1>4

(* A request is asked when it enters its queue, and then only moves.       *)
LEMMA NoRequestLostStep ==
  ASSUME InventoryInvariant, NoRequestLost, [Next]_vars
  PROVE  NoRequestLost'
<1>1. InventoryTypeOK
  BY DEF InventoryInvariant
<1>2. \A r \in asked : r \in Requests /\ Kept(r)
  BY <1>1 DEF InventoryTypeOK, NoRequestLost, Kept
<1>3. ASSUME NEW r \in Requests, Kept(r) PROVE Kept(r)'
  BY <1>1, <1>3, LetGoKeeps, TakeKeeps, OthersKeep DEF Next, Work
<1>4. ASSUME NEW r \in asked', r \notin asked PROVE Kept(r)'
  <2>1. PICK q \in Requests : Ask(q)
    BY <1>4 DEF Next, Work, Ask, AskAgain, Take, Process, Publish, Ack, Raises, ChildLost,
                Exit, Shutdown, MainSeesExit, FaultStarts, FaultEnds, OutageStarts,
                OutageEnds, vars
  <2>2. r = q /\ queued' = [queued EXCEPT ![q] = @ + 1]
    BY <1>4, <2>1 DEF Ask, Queue
  <2>3. queued'[r] > 0
    BY <1>1, <2>2 DEF InventoryTypeOK
  <2>4. QED
    BY <2>3 DEF Kept
<1>5. QED
  BY <1>2, <1>3, <1>4 DEF NoRequestLost, Kept

(* A request that was published is in its queue, with a worker, answered   *)
(* or a dead letter, whatever dies or raises.                              *)
THEOREM NoRequestIsLost == Spec => []NoRequestLost
<1>1. Init => NoRequestLost
  BY DEF Init, NoRequestLost
<1>2. QED
  BY <1>1, AlwaysInvariant, NoRequestLostStep, PTL DEF Spec

-----------------------------------------------------------------------------
(* The refinement.                                                         *)

(* A task has at most one reservation, so the choice has no freedom.       *)
LEMMA RouteOfRow ==
  ASSUME Recorded, NEW row \in reservations
  PROVE  RouteOf(row.task) = row.route
<1>1. \A x \in Reserved(row.task) : x = row
  BY DEF Recorded, Reserved
<1>2. row \in Reserved(row.task)
  BY DEF Reserved
<1>3. (CHOOSE x \in Reserved(row.task) : TRUE) = row
  BY <1>1, <1>2
<1>4. QED
  BY <1>2, <1>3 DEF RouteOf

(* What a request was answered.                                            *)
AnswerOf(r) ==
  IF AnswersTo(r) = {} THEN [result |-> None] ELSE CHOOSE a \in AnswersTo(r) : TRUE

(* A request has at most one answer, so this choice has no freedom either. *)
LEMMA AnswerOfPublished ==
  ASSUME AnsweredOnce, NEW a \in published
  PROVE  AnswerOf(a.request) = [result |-> a.result, route |-> a.route]
<1>1. {b \in published : b.request = a.request} = {a}
  BY DEF AnsweredOnce
<1>2. AnswersTo(a.request) = {[result |-> a.result, route |-> a.route]}
  BY <1>1 DEF AnswersTo
<1>3. QED
  BY <1>2 DEF AnswerOf

(* A step that publishes nothing answers nothing.                          *)
LEMMA AnswersKept ==
  ASSUME published' = published
  PROVE  [r \in Requests |-> AnswerOf(r)]' = [r \in Requests |-> AnswerOf(r)]
<1>1. ASSUME NEW r \in Requests PROVE AnswerOf(r)' = AnswerOf(r)
  <2>1. AnswersTo(r)' = AnswersTo(r)
    BY DEF AnswersTo
  <2>2. QED
    BY <2>1 DEF AnswerOf
<1>2. QED
  BY <1>1

(* A step that reserves nothing moves no task to another route.            *)
LEMMA RoutesKept ==
  ASSUME reservations' = reservations
  PROVE  [t \in AskedTasks |-> RouteOf(t)]' = [t \in AskedTasks |-> RouteOf(t)]
<1>1. \A t : RouteOf(t)' = RouteOf(t)
  BY DEF RouteOf, Reserved
<1>2. QED
  BY <1>1

(* A step that neither reserves nor publishes is not seen.                 *)
LEMMA Unseen ==
  ASSUME UNCHANGED <<reservations, published>>
  PROVE  UNCHANGED <<[t \in AskedTasks |-> RouteOf(t)],
                     [r \in Requests |->
                        IF AnswersTo(r) = {} THEN [result |-> None]
                        ELSE CHOOSE a \in AnswersTo(r) : TRUE]>>
BY RoutesKept, AnswersKept DEF AnswerOf

(* A transaction reserves a task that was not, or changes nothing that was *)
(* promised.                                                               *)
LEMMA ProcessRefines ==
  ASSUME InventoryInvariant, InventoryInvariant', NEW w \in Routes, Process(w)
  PROVE  \/ \E r \in Requests : Promise!Reserve(r)
         \/ UNCHANGED <<reservations, published>>
<1>1. published' = published
  BY DEF Process, sent
<1>2. CASE Reserve(w)
  <2>1. PICK r \in Requests : r = Request(w) /\ r.target = w /\ r.task \in AskedTasks
    BY <1>2, AtWork, RequestFacts DEF Reserve, FirstTime, At, InventoryInvariant
  <2>2. RouteOf(r.task) = None /\ r.task \notin Unknown
    BY <1>2, <2>1 DEF Reserve, RouteOf
  <2>3. reservations' = reservations \cup {[task |-> r.task, route |-> w, by |-> r]}
    BY <1>2, <2>1 DEF Reserve
  <2>4. RouteOf(r.task)' = w
    <3> DEFINE row == [task |-> r.task, route |-> w, by |-> r]
    <3>1. row \in reservations' /\ row.task = r.task /\ row.route = w
      BY <2>3
    <3> HIDE DEF row
    <3>2. \A x \in reservations' : x.task = r.task => x = row
      BY <3>1 DEF InventoryInvariant, Recorded
    <3>3. Reserved(r.task)' = {row}
      BY <3>1, <3>2 DEF Reserved
    <3>4. (CHOOSE x \in Reserved(r.task)' : TRUE) = row
      BY <3>3
    <3>5. QED
      BY <3>1, <3>3, <3>4 DEF RouteOf
  <2>5. ASSUME NEW t \in AskedTasks, t # r.task PROVE RouteOf(t)' = RouteOf(t)
    <3>1. Reserved(t)' = Reserved(t)
      BY <2>3, <2>5 DEF Reserved
    <3>2. QED
      BY <3>1 DEF RouteOf
  <2>6. [t \in AskedTasks |-> RouteOf(t)'] = [[t \in AskedTasks |-> RouteOf(t)] EXCEPT ![r.task] = w]
    BY <2>1, <2>4, <2>5
  <2>7. [q \in Requests |-> AnswerOf(q)]' = [q \in Requests |-> AnswerOf(q)]
    BY <1>1, AnswersKept
  <2>8. Promise!Reserve(r)
    BY <2>1, <2>2, <2>6, <2>7 DEF Promise!Reserve, AnswerOf
  <2>9. QED
    BY <2>1, <2>8
<1>3. CASE ~Reserve(w)
  BY <1>1, <1>3 DEF Process, Repeat, AnswerReserved, RefuseData, FailInjected, database
<1>4. QED
  BY <1>2, <1>3

(* The first publication answers the request, the others repeat it.        *)
LEMMA PublishRefines ==
  ASSUME InventoryInvariant, InventoryInvariant', NEW w \in Routes, Publish(w)
  PROVE  \/ \E r \in Requests : Promise!Answer(r)
         \/ UNCHANGED <<reservations, published>>
<1>1. PICK r \in Requests : r = Request(w) /\ r.target = w /\ r.task \in AskedTasks
  BY AtWork, RequestFacts DEF Publish, At, InventoryInvariant
<1>2. PICK a : a = worker[w].reply
  OBVIOUS
<1>3. a \in processed /\ a.request = r /\ a \in Answers
  BY <1>1, <1>2, AtWork DEF Publish, At, InventoryInvariant, InventoryTypeOK, Working, Stored
<1>4. published' = published \cup {a} /\ reservations' = reservations
  BY <1>2 DEF Publish, database
<1>5. AnsweredOnce /\ AnsweredOnce' /\ Recorded
  BY DEF InventoryInvariant, Recorded, Carried, AnsweredOnce
<1>6. CASE \E b \in published : b.request = r
  BY <1>3, <1>4, <1>5, <1>6 DEF AnsweredOnce
<1>7. CASE \A b \in published : b.request # r
  <2>1. AnswerOf(r) = [result |-> None]
    BY <1>7 DEF AnswersTo, AnswerOf
  <2>2. AnswerOf(r)' = [result |-> a.result, route |-> a.route]
    <3>1. \A b \in published' : b.request = r => b = a
      BY <1>4, <1>7
    <3>2. {b \in published' : b.request = r} = {a}
      BY <1>3, <1>4, <3>1
    <3>3. AnswersTo(r)' = {[result |-> a.result, route |-> a.route]}
      BY <3>2 DEF AnswersTo
    <3>4. QED
      BY <3>3 DEF AnswerOf
  <2>3. ASSUME NEW q \in Requests, q # r PROVE AnswerOf(q)' = AnswerOf(q)
    <3>1. {b \in published' : b.request = q} = {b \in published : b.request = q}
      BY <1>3, <1>4, <2>3
    <3>2. AnswersTo(q)' = AnswersTo(q)
      BY <3>1 DEF AnswersTo
    <3>3. QED
      BY <3>2 DEF AnswerOf
  <2>4. [q \in Requests |-> AnswerOf(q)'] =
          [[q \in Requests |-> AnswerOf(q)] EXCEPT ![r] = [result |-> a.result, route |-> a.route]]
    BY <1>1, <2>2, <2>3
  <2>5. \A t \in AskedTasks : RouteOf(t)' = RouteOf(t)
    BY <1>4 DEF RouteOf, Reserved
  <2>6. a.result = "ok" => a.route = RouteOf(r.task) /\ a.route # None
    <3>1. SUFFICES ASSUME a.result = "ok" PROVE a.route = RouteOf(r.task) /\ a.route # None
      OBVIOUS
    <3>2. PICK row \in reservations : row.task = r.task /\ row.route = a.route
      BY <1>3, <1>5, <3>1 DEF Recorded, SuccessMeansReserved
    <3>3. a.route \in Routes
      BY <1>3 DEF Answers
    <3>4. QED
      BY <1>5, <3>2, <3>3, RouteOfRow DEF Routes, Primary, Fallback, None
  <2>7. /\ a.result # "ok" => a.route = r.target
        /\ a.result = "transient_error" => r.target = Primary
        /\ a.result = "invalid_data" => r.task \in Unknown
    BY <1>3, <1>5 DEF Recorded, Justified
  <2>8. a.result \in {"ok", "transient_error", "invalid_data"}
        /\ a.route \in {r.target, RouteOf(r.task)}
    BY <1>3, <2>6, <2>7 DEF Answers, Results
  <2>9. Promise!Answer(r)
    BY <1>1, <2>1, <2>4, <2>5, <2>6, <2>7, <2>8
    DEF Promise!Answer, Promise!NoAnswer, AnswerOf
  <2>10. QED
    BY <1>1, <2>9
<1>8. QED
  BY <1>6, <1>7

(* Every step of the inventory is one of the promise or a stutter.         *)
LEMMA StepRefines ==
  ASSUME InventoryInvariant, InventoryInvariant', [Next]_vars
  PROVE  \/ Promise!Next
         \/ UNCHANGED <<reservations, published>>
<1>1. ASSUME NEW w \in Routes, Process(w)
      PROVE  Promise!Next \/ UNCHANGED <<reservations, published>>
  BY <1>1, ProcessRefines DEF Promise!Next
<1>2. ASSUME NEW w \in Routes, Publish(w)
      PROVE  Promise!Next \/ UNCHANGED <<reservations, published>>
  BY <1>2, PublishRefines DEF Promise!Next
<1>3. CASE ~\E w \in Routes : Process(w) \/ Publish(w)
  BY <1>3 DEF Next, Work, Ask, AskAgain, Take, Ack, Raises, ChildLost, Exit, Shutdown,
              MainSeesExit, FaultStarts, FaultEnds, OutageStarts, OutageEnds, vars, database,
              sent
<1>4. QED
  BY <1>1, <1>2, <1>3

(* The initial states agree: nothing reserved, nothing answered.           *)
LEMMA InitRefines == Init => Promise!Init
<1>1. SUFFICES ASSUME Init PROVE Promise!Init
  OBVIOUS
<1>2. \A t : Reserved(t) = {}
  BY <1>1 DEF Init, Reserved
<1>3. \A t : RouteOf(t) = None
  BY <1>2 DEF RouteOf
<1>4. \A r : AnswersTo(r) = {}
  BY <1>1 DEF Init, AnswersTo
<1>5. QED
  BY <1>3, <1>4 DEF Promise!Init, Promise!NoAnswer, Promise!AskedTasks, AskedTasks

(* The two workers over the shared database keep the promise of            *)
(* ReserveOnce: a task reserved once and for good, one answer to each      *)
(* request, and successes that name the route of the reservation.          *)
THEOREM InventoryKeepsPromise == Spec => ImplementsReserveOnce
<1>1. InventoryInvariant /\ InventoryInvariant' /\ [Next]_vars =>
        [Promise!Next]_<<[t \in AskedTasks |-> RouteOf(t)],
                         [r \in Requests |->
                            IF AnswersTo(r) = {} THEN [result |-> None]
                            ELSE CHOOSE a \in AnswersTo(r) : TRUE]>>
  BY StepRefines, Unseen
<1>2. QED
  BY <1>1, InitRefines, AlwaysInvariant, PTL DEF Spec, ImplementsReserveOnce, Promise!Spec
-----------------------------------------------------------------------------
(* Deliveries, as long as no message is sent twice.                        *)

(* A request is in its queue once, with a worker, or nowhere, and nowhere  *)
(* when it is a dead letter; only what was asked is answered or rejected.  *)
OneDelivery ==
  /\ \A r \in Requests :
       /\ queued[r] <= 1
       /\ queued[r] = 1 => \A w \in Routes : Request(w) # r
       /\ queued[r] = 1 \/ (\E w \in Routes : Request(w) = r)
            => r \in asked /\ r \notin deadLetters
  /\ deadLetters \subseteq asked /\ \A a \in processed : a.request \in asked

(* Requests whose answer has left and will leave once more.                *)
Again ==
  {r \in Requests :
     /\ \E a \in published : a.request = r
     /\ queued[r] = 1 \/ \E w \in Routes : Request(w) = r /\ ~At(w, "ack")}

(* A worker has a request exactly when it is not idle.                     *)
LEMMA WorkerAt ==
  ASSUME InventoryInvariant, NEW w \in Routes
  PROVE  /\ DOMAIN worker = Routes /\ queued \in [Requests -> Nat] /\ Idle.request = NoRequest
         /\ NoRequest \notin Requests
         /\ At(w, "idle") => Request(w) = NoRequest
         /\ ~At(w, "idle") => Request(w) \in Requests /\ Request(w).target = w
<1>1. DOMAIN NoRequest = {"task"}
  BY DEF NoRequest
<1>2. NoRequest \notin Requests
  BY <1>1, RequestsAssumption
<1>3. InventoryTypeOK
  BY DEF InventoryInvariant
<1>4. At(w, "idle") => Request(w) = NoRequest
  BY <1>3, IdleAtNone, IdleFacts DEF Request
<1> QED
  BY <1>2, <1>3, <1>4, AtWork, IdleFacts DEF InventoryTypeOK

(* No two workers have one request.                                        *)
LEMMA OneWorker ==
  ASSUME InventoryInvariant, NEW v \in Routes, NEW w \in Routes, Request(v) = Request(w),
         Request(v) \in Requests
  PROVE  v = w
BY WorkerAt

(* A step that leaves the queues, the requests of the workers and the      *)
(* answers as they are.                                                    *)
Rests ==
  /\ UNCHANGED <<asked, queued, processed, published, deadLetters>>
  /\ \A w \in Routes : worker'[w] = worker[w]
  /\ crashes' >= crashes

(* What each step does to the queues and to what the workers have.         *)
LEMMA DeliveryMoves ==
  ASSUME InventoryInvariant, duplicates' = duplicates, [Next]_vars
  PROVE  \/ \E r \in Requests : Ask(r)
         \/ \E w \in Routes : Take(w) \/ Publish(w) \/ Ack(w) \/ Raises(w)
         \/ \E w \in Routes : (ChildLost(w) \/ Exit(w)) /\ ~At(w, "idle")
         \/ \E w \in Routes : Process(w)
         \/ Rests
<1>1. InventoryTypeOK
  BY DEF InventoryInvariant
<1>2. ASSUME NEW r \in Requests, AskAgain(r) PROVE FALSE
  BY <1>1, <1>2 DEF AskAgain, InventoryTypeOK
<1>3. ASSUME NEW w \in Routes, Exit(w), At(w, "idle") PROVE Rests
  <2>1. worker[w] = Idle
    BY <1>1, <1>3, IdleAtNone
  <2>2. \A v \in Routes : worker'[v] = worker[v]
    BY <1>1, <1>3, <2>1 DEF Exit, Interrupt, InventoryTypeOK
  <2> QED
    BY <1>1, <1>3, <2>2 DEF Exit, Interrupt, Crashes, database, sent, InventoryTypeOK, Rests
<1>4. CASE \/ \E w \in Routes : Shutdown(w)
           \/ MainSeesExit \/ FaultStarts \/ FaultEnds \/ OutageStarts \/ OutageEnds
           \/ UNCHANGED vars
  BY <1>1, <1>4 DEF Shutdown, MainSeesExit, FaultStarts, FaultEnds, OutageStarts, OutageEnds,
     database, sent, vars, InventoryTypeOK, Rests
<1>5. ASSUME NEW w \in Routes, ChildLost(w) PROVE ~At(w, "idle")
  BY <1>5 DEF ChildLost
<1> QED
  BY <1>2, <1>3, <1>4, <1>5 DEF Next, Work

(* The request of a worker that changes alone.                             *)
LEMMA OthersHold ==
  ASSUME InventoryInvariant, NEW w \in Routes, NEW x, worker' = [worker EXCEPT ![w] = x]
  PROVE  /\ worker'[w] = x /\ Request(w)' = x.request
         /\ \A v \in Routes \ {w} : worker'[v] = worker[v] /\ Request(v)' = Request(v)
BY WorkerAt DEF Request

(* A worker goes on with the request it has.                               *)
LEMMA WorkerGoesOn ==
  ASSUME InventoryInvariant, NEW w \in Routes, Process(w) \/ Publish(w)
  PROVE  /\ \A v \in Routes : Request(v)' = Request(v)
         /\ \A v \in Routes \ {w} : worker'[v] = worker[v]
         /\ UNCHANGED <<asked, queued, deadLetters, crashes>>
         /\ ~At(w, "idle") /\ Request(w) \in Requests
         /\ Process(w) => worker'[w].pc = "publish" /\ published' = published
         /\ Publish(w) => worker'[w].pc = "ack"
<1>1. ~At(w, "idle") /\ UNCHANGED <<asked, queued, deadLetters, crashes>>
  BY DEF Process, Repeat, Reserve, AnswerReserved, RefuseData, FailInjected, FirstTime, Publish, At,
         sent
<1>2. Working(w)
  BY <1>1, AtWork DEF InventoryInvariant
<1>3. DOMAIN worker = Routes
  BY WorkerAt
<1>4. CASE Process(w)
  <2>1. PICK answer : worker' = [worker EXCEPT ![w].pc = "publish", ![w].reply = answer]
    BY <1>4 DEF Process, Repeat, Reserve, AnswerReserved, RefuseData, FailInjected, Reply, Store
  <2> DEFINE x == [worker[w] EXCEPT !.pc = "publish", !.reply = answer]
  <2>2. worker' = [worker EXCEPT ![w] = x] /\ x.request = Request(w) /\ x.pc = "publish"
    BY <1>2, <1>3, <2>1 DEF Working, Request
  <2> HIDE DEF x
  <2>3. ~Publish(w) /\ published' = published
    <3>1. At(w, "process")
      BY <1>4 DEF Process, Repeat, Reserve, AnswerReserved, RefuseData, FailInjected, FirstTime
    <3> QED
      BY <1>4, <3>1 DEF Process, Publish, At, sent
  <2> QED
    BY <1>1, <1>4, <2>2, <2>3, OthersHold, WorkerAt
<1>5. CASE Publish(w)
  <2> DEFINE x == [worker[w] EXCEPT !.pc = "ack"]
  <2>1. worker' = [worker EXCEPT ![w] = x] /\ x.request = Request(w) /\ x.pc = "ack"
    BY <1>2, <1>3, <1>5 DEF Publish, Working, Request
  <2> HIDE DEF x
  <2>2. ~Process(w)
    BY <1>5 DEF Process, Repeat, Reserve, AnswerReserved, RefuseData, FailInjected, FirstTime,
                Publish, At
  <2> QED
    BY <1>1, <1>5, <2>1, <2>2, OthersHold, WorkerAt
<1> QED
  BY <1>4, <1>5

(* No step makes a second delivery of a request.                           *)
LEMMA DeliveryStep ==
  ASSUME InventoryInvariant, OneDelivery, duplicates' = duplicates, [Next]_vars
  PROVE  OneDelivery'
<1>1. /\ DOMAIN worker = Routes /\ queued \in [Requests -> Nat] /\ Idle.request = NoRequest
      /\ NoRequest \notin Requests
      /\ \A w \in Routes : At(w, "idle") => Request(w) = NoRequest
      /\ \A w \in Routes : ~At(w, "idle") => Request(w) \in Requests /\ Request(w).target = w
  BY WorkerAt DEF Routes
<1>2. ASSUME NEW q \in Requests, Ask(q) PROVE OneDelivery'
  <2>1. /\ queued[q] = 0 /\ q \notin deadLetters /\ \A w \in Routes : Request(w) # q
    BY <1>1, <1>2 DEF Ask, OneDelivery
  <2>2. /\ queued' = [queued EXCEPT ![q] = @ + 1] /\ asked' = asked \cup {q}
        /\ worker' = worker /\ deadLetters' = deadLetters /\ processed' = processed
    BY <1>2 DEF Ask, Queue, sent, database
  <2>3. queued'[q] = 1 /\ \A r \in Requests \ {q} : queued'[r] = queued[r]
    BY <1>1, <2>1, <2>2
  <2> QED
    BY <2>1, <2>2, <2>3 DEF OneDelivery, Request
<1>3. ASSUME NEW w \in Routes, Take(w) PROVE OneDelivery'
  <2>1. PICK q \in Requests :
          /\ queued[q] > 0 /\ queued' = [queued EXCEPT ![q] = @ - 1]
          /\ worker' = [worker EXCEPT ![w] =
                [pc |-> "process", request |-> q, injected |-> Injected(q), reply |-> NoAnswer]]
    BY <1>3 DEF Take
  <2> DEFINE x == [pc |-> "process", request |-> q, injected |-> Injected(q), reply |-> NoAnswer]
  <2>2. worker' = [worker EXCEPT ![w] = x] /\ x.request = q
    BY <2>1
  <2> HIDE DEF x
  <2>3. Request(w)' = q /\ \A v \in Routes \ {w} : Request(v)' = Request(v)
    BY <2>2, OthersHold
  <2>4. /\ asked' = asked /\ deadLetters' = deadLetters /\ processed' = processed
        /\ Request(w) = NoRequest
    BY <1>1, <1>3 DEF Take, sent, database
  <2>5. queued[q] = 1 /\ q \in asked /\ q \notin deadLetters /\ \A v \in Routes : Request(v) # q
    BY <1>1, <2>1 DEF OneDelivery
  <2>6. queued'[q] = 0 /\ \A r \in Requests \ {q} : queued'[r] = queued[r]
    BY <1>1, <2>1, <2>5
  <2> QED
    BY <1>1, <2>3, <2>4, <2>5, <2>6 DEF OneDelivery
<1>4. ASSUME NEW w \in Routes, Process(w) \/ Publish(w) PROVE OneDelivery'
  <2>1. /\ UNCHANGED <<asked, queued, deadLetters>> /\ Request(w) \in Requests
        /\ \A v \in Routes : Request(v)' = Request(v)
    BY <1>4, WorkerGoesOn
  <2>2. \A a \in processed' : a \in processed \/ a.request = Request(w)
    <3>1. CASE Publish(w)
      BY <3>1 DEF Publish, database
    <3>2. CASE Process(w)
      <4>1. \/ processed' = processed
            \/ \E result, route : processed' = processed \cup
                 {[id |-> issued + 1, request |-> Request(w), result |-> result, route |-> route]}
        BY <3>2 DEF Process, Repeat, Reserve, AnswerReserved, RefuseData, FailInjected, Store,
                    database
      <4> QED
        BY <4>1
    <3> QED
      BY <1>4, <3>1, <3>2
  <2>3. Request(w) \in asked
    BY <2>1 DEF OneDelivery
  <2> QED
    BY <2>1, <2>2, <2>3 DEF OneDelivery
<1>5. ASSUME NEW w \in Routes, Ack(w) \/ Raises(w) PROVE OneDelivery'
  <2>1. /\ worker' = [worker EXCEPT ![w] = Idle] /\ UNCHANGED <<asked, queued, processed>>
        /\ deadLetters' = deadLetters \/ deadLetters' = deadLetters \cup {Request(w)}
        /\ ~At(w, "idle")
    BY <1>5 DEF Ack, Raises, sent, database, At
  <2>2. Request(w)' = NoRequest /\ \A v \in Routes \ {w} : Request(v)' = Request(v)
    BY <1>1, <2>1, OthersHold
  <2>3. Request(w) \in asked /\ queued[Request(w)] = 0
    BY <1>1, <2>1 DEF OneDelivery
  <2>4. \A v \in Routes \ {w} : Request(v) # Request(w)
    BY <1>1, <2>1, OneWorker
  <2> QED
    BY <1>1, <2>1, <2>2, <2>3, <2>4 DEF OneDelivery
<1>6. ASSUME NEW w \in Routes, ChildLost(w) \/ Exit(w), ~At(w, "idle") PROVE OneDelivery'
  <2>1. /\ worker' = [worker EXCEPT ![w] = Idle] /\ UNCHANGED <<asked, processed, deadLetters>>
        /\ queued' = [queued EXCEPT ![Request(w)] = @ + 1]
    BY <1>6 DEF ChildLost, Exit, Interrupt, sent, database
  <2>2. Request(w)' = NoRequest /\ \A v \in Routes \ {w} : Request(v)' = Request(v)
    BY <1>1, <2>1, OthersHold
  <2>3. Request(w) \in Requests /\ Request(w) \in asked /\ queued[Request(w)] = 0
        /\ Request(w) \notin deadLetters
    BY <1>1, <1>6 DEF OneDelivery
  <2>4. \A v \in Routes \ {w} : Request(v) # Request(w)
    BY <1>1, <1>6, OneWorker
  <2>5. queued'[Request(w)] = 1 /\ \A r \in Requests \ {Request(w)} : queued'[r] = queued[r]
    BY <1>1, <2>1, <2>3
  <2> QED
    BY <1>1, <2>1, <2>2, <2>3, <2>4, <2>5 DEF OneDelivery
<1>7. CASE Rests
  BY <1>7 DEF OneDelivery, Request, Rests
<1> QED
  BY <1>2, <1>3, <1>4, <1>5, <1>6, <1>7, DeliveryMoves

(* What is published was asked for.                                        *)
LEMMA PublishedAsked ==
  ASSUME InventoryInvariant, OneDelivery, NEW a \in published
  PROVE  a.request \in asked
BY DEF InventoryInvariant, Carried, OneDelivery

(* A publication is the last of a delivery: it is one answer less to leave *)
(* again, if the answer had left before.                                   *)
LEMMA PublishAgain ==
  ASSUME InventoryInvariant, OneDelivery, NEW w \in Routes, Publish(w)
  PROVE  /\ Again' \subseteq Again \ {Request(w)} /\ crashes' = crashes
         /\ (\E a \in published : a.request = Request(w)) => Request(w) \in Again
<1>1. /\ \A v \in Routes : Request(v)' = Request(v)
      /\ \A v \in Routes \ {w} : worker'[v] = worker[v]
      /\ UNCHANGED <<queued, crashes>> /\ Request(w) \in Requests /\ worker'[w].pc = "ack"
  BY WorkerGoesOn
<1>2. At(w, "publish") /\ published' = published \cup {worker[w].reply}
  BY DEF Publish
<1>3. worker[w].reply.request = Request(w)
  BY <1>2, AtWork DEF At, Working, Stored, InventoryInvariant
<1>4. queued[Request(w)] # 1
  BY <1>1 DEF OneDelivery
<1>5. ASSUME NEW r \in Again' PROVE r \in Again \ {Request(w)}
  <2>1. r \in Requests /\ queued'[r] = queued[r]
    BY <1>1, <1>5 DEF Again
  <2>2. r # Request(w)
    BY <1>1, <1>4, <1>5, OneWorker DEF Again, At
  <2>3. \E a \in published : a.request = r
    BY <1>2, <1>3, <1>5, <2>2 DEF Again
  <2>4. queued[r] = 1 \/ \E v \in Routes : Request(v) = r /\ ~At(v, "ack")
    BY <1>1, <1>5, <2>1, <2>2 DEF Again, At
  <2> QED
    BY <2>1, <2>2, <2>3, <2>4 DEF Again
<1>6. (\E a \in published : a.request = Request(w)) => Request(w) \in Again
  BY <1>1, <1>2 DEF Again, At
<1> QED
  BY <1>1, <1>5, <1>6

(* Only what kills a worker makes one more answer leave again.             *)
LEMMA AgainStep ==
  ASSUME InventoryInvariant, OneDelivery, duplicates' = duplicates, [Next]_vars
  PROVE  \/ Again' \subseteq Again /\ crashes' >= crashes
         \/ \E r \in Requests : Again' \subseteq Again \cup {r} /\ crashes' = crashes + 1
<1>1. /\ DOMAIN worker = Routes /\ queued \in [Requests -> Nat] /\ Idle.request = NoRequest
      /\ NoRequest \notin Requests
      /\ \A w \in Routes : At(w, "idle") => Request(w) = NoRequest
      /\ \A w \in Routes : ~At(w, "idle") => Request(w) \in Requests /\ Request(w).target = w
  BY WorkerAt DEF Routes
<1>2. crashes \in Nat
  BY RequestsAssumption DEF InventoryInvariant, InventoryTypeOK
<1>3. ASSUME NEW q \in Requests, Ask(q) PROVE Again' \subseteq Again /\ crashes' = crashes
  <2>1. /\ q \notin asked /\ queued' = [queued EXCEPT ![q] = @ + 1]
        /\ UNCHANGED <<worker, published, crashes>>
    BY <1>3 DEF Ask, Queue, sent
  <2>2. \A a \in published : a.request # q
    BY <2>1, PublishedAsked
  <2>3. \A r \in Requests \ {q} : queued'[r] = queued[r]
    BY <1>1, <2>1
  <2> QED
    BY <2>1, <2>2, <2>3 DEF Again, Request, At
<1>4. ASSUME NEW w \in Routes, Take(w) PROVE Again' \subseteq Again /\ crashes' = crashes
  <2>1. PICK q \in Requests :
          /\ queued[q] > 0 /\ queued' = [queued EXCEPT ![q] = @ - 1]
          /\ worker' = [worker EXCEPT ![w] =
                [pc |-> "process", request |-> q, injected |-> Injected(q), reply |-> NoAnswer]]
    BY <1>4 DEF Take
  <2> DEFINE x == [pc |-> "process", request |-> q, injected |-> Injected(q), reply |-> NoAnswer]
  <2>2. worker' = [worker EXCEPT ![w] = x] /\ x.request = q
    BY <2>1
  <2> HIDE DEF x
  <2>3. Request(w)' = q /\ \A v \in Routes \ {w} : worker'[v] = worker[v] /\ Request(v)' = Request(v)
    BY <2>2, OthersHold
  <2>4. queued[q] = 1 /\ \A r \in Requests \ {q} : queued'[r] = queued[r]
    BY <1>1, <2>1 DEF OneDelivery
  <2>5. UNCHANGED <<published, crashes>>
    BY <1>4 DEF Take, sent
  <2>6. ASSUME NEW r \in Again' PROVE r \in Again
    <3>1. CASE r = q
      BY <2>4, <2>5, <2>6, <3>1 DEF Again
    <3>2. CASE r # q
      BY <2>3, <2>4, <2>5, <2>6, <3>2 DEF Again, At
    <3> QED
      BY <3>1, <3>2
  <2> QED
    BY <2>5, <2>6
<1>5. ASSUME NEW w \in Routes, Process(w) PROVE Again' \subseteq Again /\ crashes' = crashes
  <2>1. /\ \A v \in Routes : Request(v)' = Request(v)
        /\ \A v \in Routes \ {w} : worker'[v] = worker[v]
        /\ UNCHANGED <<queued, published, crashes>>
    BY <1>5, WorkerGoesOn
  <2>2. At(w, "process")
    BY <1>5 DEF Process, Repeat, Reserve, AnswerReserved, RefuseData, FailInjected, FirstTime
  <2> QED
    BY <2>1, <2>2 DEF Again, At
<1>6. ASSUME NEW w \in Routes, Ack(w) \/ Raises(w) PROVE Again' \subseteq Again /\ crashes' = crashes
  <2>1. worker' = [worker EXCEPT ![w] = Idle] /\ UNCHANGED <<queued, published, crashes>>
    BY <1>6 DEF Ack, Raises, sent
  <2>2. /\ Request(w)' = NoRequest
        /\ \A v \in Routes \ {w} : worker'[v] = worker[v] /\ Request(v)' = Request(v)
    BY <1>1, <2>1, OthersHold
  <2> QED
    BY <1>1, <2>1, <2>2 DEF Again, At
<1>7. ASSUME NEW w \in Routes, ChildLost(w) \/ Exit(w), ~At(w, "idle")
      PROVE  /\ Again' \subseteq Again \cup {Request(w)} /\ crashes' = crashes + 1
             /\ Request(w) \in Requests
  <2>1. /\ worker' = [worker EXCEPT ![w] = Idle] /\ published' = published
        /\ queued' = [queued EXCEPT ![Request(w)] = @ + 1] /\ crashes' = crashes + 1
    BY <1>7 DEF ChildLost, Exit, Interrupt, Crashes, sent
  <2>2. /\ Request(w)' = NoRequest
        /\ \A v \in Routes \ {w} : worker'[v] = worker[v] /\ Request(v)' = Request(v)
    BY <1>1, <2>1, OthersHold
  <2>3. \A r \in Requests \ {Request(w)} : queued'[r] = queued[r]
    BY <1>1, <2>1
  <2> QED
    BY <1>1, <1>7, <2>1, <2>2, <2>3 DEF Again, At
<1>8. ASSUME Rests PROVE Again' = Again /\ crashes' >= crashes
  BY <1>8 DEF Again, Request, At, Rests
<1>9. ASSUME NEW w \in Routes, Publish(w) PROVE Again' \subseteq Again /\ crashes' = crashes
  BY <1>9, PublishAgain
<1> QED
  BY <1>2, <1>3, <1>4, <1>5, <1>6, <1>7, <1>8, <1>9, DeliveryMoves

(* A reservation is of the task of the request that made it.               *)
OwnRows == \A row \in reservations : row.task = row.by.task

(* What reserves is the transaction of a first request.                    *)
LEMMA ReservationsMove ==
  ASSUME [Next]_vars
  PROVE  \/ reservations' = reservations
         \/ \E w \in Routes : Reserve(w)
BY DEF Next, Work, Ask, AskAgain, Take, Process, Repeat, AnswerReserved, RefuseData, FailInjected,
       Publish, Ack, Raises, ChildLost, Exit, Shutdown, MainSeesExit, FaultStarts, FaultEnds,
       OutageStarts, OutageEnds, database, vars

(* A row is only added by Reserve.                                         *)
LEMMA OwnRowsStep ==
  ASSUME OwnRows, [Next]_vars
  PROVE  OwnRows'
<1>1. ASSUME NEW w \in Routes, Reserve(w), NEW row \in reservations' PROVE row.task = row.by.task
  <2>1. reservations' = reservations \cup
          {[task |-> Request(w).task, route |-> Request(w).target, by |-> Request(w)]}
    BY <1>1 DEF Reserve
  <2> QED
    BY <1>1, <2>1 DEF OwnRows
<1> QED
  BY <1>1, ReservationsMove DEF OwnRows

(* Nothing is queued, in a worker or reserved at the start.                *)
LEMMA InitDelivery == ASSUME Init PROVE OneDelivery /\ OwnRows
<1>1. \A w \in Routes : Request(w) \notin Requests
  <2>1. DOMAIN NoRequest = {"task"} /\ Idle.request = NoRequest
    BY DEF NoRequest, Idle
  <2>2. NoRequest \notin Requests
    BY <2>1, RequestsAssumption
  <2> QED
    BY <2>1, <2>2 DEF Init, Request
<1> QED
  BY <1>1 DEF Init, OneDelivery, OwnRows
=============================================================================
