---------------------------- MODULE Workload_proofs ----------------------------
(***************************************************************************)
(* For any plan, any window and any numbers of failures: the orders are    *)
(* accounted for, an accepted execution is complete, and its recovery is   *)
(* the earliest.                                                           *)
(***************************************************************************)
EXTENDS Consolidation, TLAPS, FiniteSetTheorems, WellFoundedInduction

Lines == [status : {"none", "202", "500"}, number : Nat]
Clients == [pc : {"planned", "sent", "done", "died"}, line : Lines]
Apis == [pc : {"none", "opening", "writing", "created", "202", "500", "gone"},
         created : Nat, number : Nat]
Rows == [number : Nat \ {0}, index : Orders, created : Nat,
         status : {"PENDING", "LIVE", "COMPLETED", "ABORTED"}, finished : Nat]

Types ==
  /\ faultType \in FaultTypes /\ now \in Nat
  /\ client \in [Orders -> Clients]
  /\ api \in [Orders -> Apis]
  /\ table \in SUBSET Rows
  /\ phase \in {"load", "settled", "unsettled", "collected", "invalid"}

(* The numbers in use are 1 .. n, whatever n is. *)
Dense == \E n \in Nat : Numbers = 1 .. n

Distinct == \A r, s \in table : r.number = s.number \/ r.index = s.index => r = s

(* One thread writes, with the number that follows. *)
OneWriter ==
  \A i \in Orders : api[i].pc = "writing" =>
    /\ api[i].number = NextOrderNumber
    /\ \A j \in Orders : api[j].pc = "writing" => j = i

(* A row is the work of the thread of its order, which has committed. *)
RowsHaveThreads ==
  \A r \in table :
    /\ api[r.index].pc \in {"created", "202", "500", "gone"}
    /\ api[r.index].number = r.number

ThreadsHaveRows ==
  \A i \in Orders : api[i].pc \in {"created", "202"} =>
    \E r \in table : r.index = i /\ r.number = api[i].number

LinesAreAnswers ==
  \A i \in Orders :
    IF client[i].line.status = "202"
    THEN /\ client[i].pc = "done"
         /\ api[i].pc = "202" /\ client[i].line.number = api[i].number
    ELSE client[i].line.number = 0

NumberingInvariant ==
  Types /\ Dense /\ Distinct /\ OneWriter /\ RowsHaveThreads /\ ThreadsHaveRows /\ LinesAreAnswers

-----------------------------------------------------------------------------
(* The number that follows 1 .. n is n + 1. *)
LEMMA NextNumber ==
  ASSUME NEW n \in Nat, Numbers = 1 .. n
  PROVE  NextOrderNumber = n + 1
<1> DEFINE Largest(k) == \A m \in Numbers : m <= k
<1>1. n \in Numbers \cup {0} /\ Largest(n)
  OBVIOUS
<1>2. \A k \in Numbers \cup {0} : Largest(k) => k = n
  OBVIOUS
<1> DEFINE chosen == CHOOSE k \in Numbers \cup {0} : Largest(k)
<1>3. chosen \in Numbers \cup {0} /\ Largest(chosen)
  <2> HIDE DEF Largest
  <2> QED
    BY <1>1, Zenon
<1>4. chosen = n
  <2> HIDE DEF chosen, Largest
  <2> QED
    BY <1>2, <1>3
<1>5. NextOrderNumber = 1 + chosen
  BY DEF NextOrderNumber
<1> QED
  <2> HIDE DEF chosen
  <2> QED
    BY <1>4, <1>5

(* Dense numbers are a prefix of the naturals. *)
LEMMA DensePrefix == Types /\ Dense => \A r \in table : 1 .. r.number \subseteq Numbers
<1> SUFFICES ASSUME Types, Dense, NEW r \in table
             PROVE  1 .. r.number \subseteq Numbers
  OBVIOUS
<1>1. PICK n \in Nat : Numbers = 1 .. n
  BY DEF Dense
<1>2. r.number \in 1 .. n
  BY <1>1 DEF Numbers
<1> QED
  BY <1>1, <1>2

(* The invariant implies the property. *)
LEMMA NumberingAccounts == NumberingInvariant => OrdersAccounted
<1> SUFFICES ASSUME NumberingInvariant PROVE OrdersAccounted
  OBVIOUS
<1>1. \A r \in table : 1 .. r.number \subseteq Numbers
  BY DensePrefix DEF NumberingInvariant
<1>2. \A r, s \in table : r.number = s.number \/ r.index = s.index => r = s
  BY DEF NumberingInvariant, Distinct
<1>3. ASSUME NEW i \in Orders, client[i].line.status = "202"
      PROVE  \E r \in table : r.index = i /\ r.number = client[i].line.number
  <2>1. api[i].pc = "202" /\ client[i].line.number = api[i].number
    BY <1>3 DEF NumberingInvariant, LinesAreAnswers
  <2> QED
    BY <2>1 DEF NumberingInvariant, ThreadsHaveRows
<1> QED
  BY <1>1, <1>2, <1>3 DEF OrdersAccounted

-----------------------------------------------------------------------------
(* The initial states are numbered. *)
LEMMA NumberingInit == Init => NumberingInvariant
<1> SUFFICES ASSUME Init PROVE NumberingInvariant
  OBVIOUS
<1> USE DEF Init
<1>1. Types
  BY DEF Types, Clients, Apis, Lines, NoLine
<1>2. Dense
  <2>1. Numbers = 1 .. 0
    BY DEF Numbers
  <2> QED
    BY <2>1 DEF Dense
<1>3. Distinct
  BY DEF Distinct
<1>4. OneWriter
  BY DEF OneWriter
<1>5. RowsHaveThreads /\ ThreadsHaveRows
  BY DEF RowsHaveThreads, ThreadsHaveRows
<1>6. LinesAreAnswers
  BY DEF LinesAreAnswers, NoLine
<1> QED
  BY <1>1, <1>2, <1>3, <1>4, <1>5, <1>6 DEF NumberingInvariant

(* A step that leaves the rows and the numbers of the threads. *)
LEMMA RowsUntouched ==
  ASSUME NumberingInvariant, UNCHANGED table
  PROVE  Dense' /\ Distinct' /\ NextOrderNumber' = NextOrderNumber
<1>1. Numbers' = Numbers
  BY DEF Numbers
<1>2. Dense'
  BY <1>1 DEF NumberingInvariant, Dense
<1>3. Distinct'
  BY DEF NumberingInvariant, Distinct
<1> QED
  BY <1>1, <1>2, <1>3 DEF NextOrderNumber

(* The threads of the clients. *)
LEMMA ClientSteps ==
  ASSUME NumberingInvariant, NEW i \in Orders, Send(i) \/ ReadAnswer(i) \/ ThreadDies(i)
  PROVE  NumberingInvariant'
<1> USE DEF NumberingInvariant
<1>0. UNCHANGED <<table, api, faultType, now, phase>>
  BY DEF Send, ReadAnswer, ThreadDies, bench, Fails
<1>1. Types'
  <2>1. CASE Send(i)
    BY <2>1 DEF Types, Clients, Send, bench
  <2>2. CASE ReadAnswer(i)
    <3> DEFINE number == IF api[i].pc = "202" THEN api[i].number ELSE 0
    <3>1. api[i].pc \in {"202", "500"} /\ number \in Nat
      BY <2>2 DEF Types, Apis, ReadAnswer
    <3>2. [pc |-> "done", line |-> [status |-> api[i].pc, number |-> number]] \in Clients
      BY <3>1 DEF Clients, Lines
    <3>3. client' \in [Orders -> Clients]
      BY <2>2, <3>2 DEF Types, ReadAnswer, Writes
    <3> QED
      BY <1>0, <3>3 DEF Types
  <2>3. CASE ThreadDies(i)
    BY <2>3, <1>0 DEF Types, Clients, ThreadDies
  <2> QED
    BY <2>1, <2>2, <2>3
<1>2. Dense' /\ Distinct' /\ NextOrderNumber' = NextOrderNumber
  BY <1>0, RowsUntouched
<1>3. OneWriter'
  BY <1>0, <1>2 DEF OneWriter
<1>4. RowsHaveThreads' /\ ThreadsHaveRows'
  BY <1>0 DEF RowsHaveThreads, ThreadsHaveRows
<1>5. LinesAreAnswers'
  <2>1. CASE Send(i)
    BY <2>1, <1>0 DEF LinesAreAnswers, Types, Clients, Lines, Send, IsDue
  <2>2. CASE ReadAnswer(i)
    <3> DEFINE number == IF api[i].pc = "202" THEN api[i].number ELSE 0
    <3> DEFINE line == [status |-> api[i].pc, number |-> number]
    <3>1. api[i].pc \in {"202", "500"}
      BY <2>2 DEF ReadAnswer
    <3>2. client'[i] = [pc |-> "done", line |-> line]
      BY <2>2 DEF Types, ReadAnswer, Writes
    <3>3. \A j \in Orders \ {i} : client'[j] = client[j]
      BY <2>2 DEF Types, ReadAnswer, Writes
    <3>4. SUFFICES ASSUME NEW j \in Orders
                   PROVE  IF client'[j].line.status = "202"
                          THEN /\ client'[j].pc = "done"
                               /\ api[j].pc = "202" /\ client'[j].line.number = api[j].number
                          ELSE client'[j].line.number = 0
      BY <1>0 DEF LinesAreAnswers
    <3>5. CASE j = i
      BY <3>1, <3>2, <3>5
    <3>6. CASE j # i
      BY <3>3, <3>6 DEF LinesAreAnswers
    <3> QED
      BY <3>5, <3>6
  <2>3. CASE ThreadDies(i)
    BY <2>3, <1>0 DEF LinesAreAnswers, Types, Clients, Lines, ThreadDies
  <2> QED
    BY <2>1, <2>2, <2>3
<1> QED
  BY <1>1, <1>2, <1>3, <1>4, <1>5

(* A line without an answer changes nothing. *)
LEMMA SendFailsStep ==
  ASSUME NumberingInvariant, NEW i \in Orders, SendFails(i)
  PROVE  NumberingInvariant'
<1> USE DEF NumberingInvariant
<1> DEFINE line == [status |-> "none", number |-> 0]
<1>0. UNCHANGED <<table, faultType, now, phase>>
  BY DEF SendFails, bench
<1>1. /\ client' = [client EXCEPT ![i] = [pc |-> "done", line |-> line]]
      /\ ~(client[i].pc = "done") /\ ~(api[i].pc = "202")
  BY DEF SendFails, Writes
<1>2. \/ api' = api
      \/ api[i].pc = "none" /\ api' = [api EXCEPT ![i].pc = "gone"]
  BY DEF SendFails
<1>3. Types'
  <2>1. [pc |-> "done", line |-> line] \in Clients
    BY DEF Clients, Lines
  <2>2. client' \in [Orders -> Clients]
    BY <1>1, <2>1 DEF Types
  <2>3. api' \in [Orders -> Apis]
    BY <1>2 DEF Types, Apis
  <2> QED
    BY <1>0, <2>2, <2>3 DEF Types
<1>4. Dense' /\ Distinct' /\ NextOrderNumber' = NextOrderNumber
  BY <1>0, RowsUntouched
<1>5. \A j \in Orders :
        /\ api'[j].number = api[j].number
        /\ \/ api'[j].pc = api[j].pc
           \/ j = i /\ api[j].pc = "none" /\ api'[j].pc = "gone"
  BY <1>2 DEF Types, Apis
<1>6. OneWriter'
  BY <1>4, <1>5 DEF OneWriter
<1>7. RowsHaveThreads'
  BY <1>0, <1>5 DEF RowsHaveThreads, Types, Rows
<1>8. ThreadsHaveRows'
  BY <1>0, <1>5 DEF ThreadsHaveRows
<1>9. LinesAreAnswers'
  <2>1. client'[i] = [pc |-> "done", line |-> line]
    BY <1>1 DEF Types
  <2>2. \A j \in Orders \ {i} : client'[j] = client[j]
    BY <1>1 DEF Types
  <2>3. SUFFICES ASSUME NEW j \in Orders
                 PROVE  IF client'[j].line.status = "202"
                        THEN /\ client'[j].pc = "done"
                             /\ api'[j].pc = "202" /\ client'[j].line.number = api'[j].number
                        ELSE client'[j].line.number = 0
    BY DEF LinesAreAnswers
  <2>4. CASE j = i
    BY <2>1, <2>4
  <2>5. CASE j # i
    BY <2>2, <2>5, <1>5 DEF LinesAreAnswers
  <2> QED
    BY <2>4, <2>5
<1> QED
  BY <1>3, <1>4, <1>6, <1>7, <1>8, <1>9

(* The threads of the API that leave the rows alone. *)
LEMMA ApiSteps ==
  ASSUME NumberingInvariant, NEW i \in Orders, Receive(i) \/ Begin(i) \/ ApiRaises(i)
  PROVE  NumberingInvariant'
<1> USE DEF NumberingInvariant
<1>0. UNCHANGED <<table, client, faultType, now, phase>>
  BY DEF Receive, Begin, ApiRaises, bench, Fails
<1>1. PICK n \in Nat : Numbers = 1 .. n
  BY DEF Dense
<1>2. NextOrderNumber = n + 1
  BY <1>1, NextNumber
<1>3. Dense' /\ Distinct' /\ NextOrderNumber' = NextOrderNumber
  BY <1>0, RowsUntouched
<1>4. api' \in [Orders -> Apis]
  BY <1>2 DEF Types, Apis, Receive, Begin, ApiRaises
<1>5. Types'
  BY <1>0, <1>4 DEF Types
<1>6. /\ api[i].pc \in {"none", "opening", "writing", "created"}
      /\ api'[i].pc \in {"opening", "writing", "500"}
      /\ api[i].pc \in {"none", "opening"} \/ api'[i].number = api[i].number
  BY DEF Types, Apis, Receive, Begin, ApiRaises
<1>7. \A j \in Orders \ {i} : api'[j] = api[j]
  BY DEF Types, Receive, Begin, ApiRaises
<1>8. OneWriter'
  <2>1. CASE Begin(i)
    <3>1. api'[i].number = NextOrderNumber
      BY <2>1 DEF Begin, Types, Apis
    <3>2. \A j \in Orders : api'[j].pc = "writing" => j = i
      BY <2>1, <1>7 DEF Begin, Writing
    <3> QED
      BY <1>3, <3>1, <3>2 DEF OneWriter
  <2>2. CASE ~Begin(i)
    <3>1. api'[i].pc # "writing"
      BY <2>2 DEF Receive, ApiRaises, Types, Apis
    <3> QED
      BY <1>3, <1>7, <3>1 DEF OneWriter
  <2> QED
    BY <2>1, <2>2
<1>9. RowsHaveThreads'
  <2>1. SUFFICES ASSUME NEW r \in table
                 PROVE  /\ api'[r.index].pc \in {"created", "202", "500", "gone"}
                        /\ api'[r.index].number = r.number
    BY <1>0 DEF RowsHaveThreads
  <2>2. r.index \in Orders
    BY DEF Types, Rows
  <2>3. CASE r.index = i
    <3>1. ApiRaises(i)
      BY <2>3 DEF RowsHaveThreads, Receive, Begin
    <3>2. api' = [api EXCEPT ![i].pc = "500"]
      BY <3>1 DEF ApiRaises
    <3> QED
      BY <2>3, <3>2 DEF Types, Apis, RowsHaveThreads
  <2>4. CASE r.index # i
    BY <2>2, <2>4, <1>7 DEF RowsHaveThreads
  <2> QED
    BY <2>3, <2>4
<1>10. ThreadsHaveRows'
  BY <1>0, <1>6, <1>7 DEF ThreadsHaveRows
<1>11. LinesAreAnswers'
  BY <1>0, <1>6, <1>7 DEF LinesAreAnswers
<1> QED
  BY <1>3, <1>5, <1>8, <1>9, <1>10, <1>11

(* The process of the API dies with its threads. *)
LEMMA ApiDiesStep == NumberingInvariant /\ ApiDies => NumberingInvariant'
<1> SUFFICES ASSUME NumberingInvariant, ApiDies PROVE NumberingInvariant'
  OBVIOUS
<1> USE DEF NumberingInvariant
<1>0. UNCHANGED <<table, client, faultType, now, phase>>
  BY DEF ApiDies, bench, Fails
<1>1. api' = [i \in Orders |-> IF InRequest(i) THEN [api[i] EXCEPT !.pc = "gone"] ELSE api[i]]
  BY DEF ApiDies
<1>2. api' \in [Orders -> Apis]
  BY <1>1 DEF Types, Apis
<1>3. Types'
  BY <1>0, <1>2 DEF Types
<1>4. \A i \in Orders :
        /\ api'[i].number = api[i].number
        /\ \/ api'[i].pc = api[i].pc /\ api[i].pc \notin {"opening", "writing", "created"}
           \/ api[i].pc \in {"opening", "writing", "created"} /\ api'[i].pc = "gone"
  BY <1>1 DEF Types, Apis, InRequest
<1>5. Dense' /\ Distinct' /\ NextOrderNumber' = NextOrderNumber
  BY <1>0, RowsUntouched
<1>6. OneWriter'
  BY <1>4 DEF OneWriter
<1>7. RowsHaveThreads'
  BY <1>0, <1>4 DEF RowsHaveThreads, Types, Rows
<1>8. ThreadsHaveRows' /\ LinesAreAnswers'
  BY <1>0, <1>4 DEF ThreadsHaveRows, LinesAreAnswers
<1> QED
  BY <1>3, <1>5, <1>6, <1>7, <1>8

(* The row of an order appears with the number after the last. *)
LEMMA CommitStep ==
  ASSUME NumberingInvariant, NEW i \in Orders, Commit(i)
  PROVE  NumberingInvariant'
<1> USE DEF NumberingInvariant
<1> DEFINE row == [number |-> api[i].number, index |-> i, created |-> api[i].created,
                   status |-> "PENDING", finished |-> 0]
<1>0. UNCHANGED <<client, faultType, now, phase>>
  BY DEF Commit, bench
<1>1. /\ api[i].pc = "writing" /\ api' = [api EXCEPT ![i].pc = "created"]
      /\ table' = table \cup {row}
  BY DEF Commit
<1>2. PICK n \in Nat : Numbers = 1 .. n
  BY DEF Dense
<1>3. api[i].number = n + 1
  BY <1>1, <1>2, NextNumber DEF OneWriter
<1>4. row \in Rows
  BY <1>3 DEF Rows, Types, Apis
<1>5. Types'
  <2>1. api' \in [Orders -> Apis]
    BY <1>1 DEF Types, Apis
  <2> QED
    BY <1>0, <1>1, <1>4, <2>1 DEF Types
<1>6. Dense'
  <2>1. Numbers' = Numbers \cup {n + 1}
    <3>1. row.number = n + 1
      BY <1>3
    <3> HIDE DEF row
    <3> QED
      BY <1>1, <3>1 DEF Numbers
  <2>2. Numbers' = 1 .. n + 1
    BY <2>1, <1>2
  <2> QED
    BY <2>2 DEF Dense
<1>7. \A r \in table : r.number # row.number /\ r.index # row.index
  <2>1. \A r \in table : r.number \in 1 .. n
    BY <1>2 DEF Numbers
  <2>2. \A r \in table : r.index # i
    BY <1>1 DEF RowsHaveThreads
  <2> QED
    BY <2>1, <2>2, <1>3
<1>8. Distinct'
  BY <1>1, <1>7 DEF Distinct
<1>9. /\ api'[i].pc = "created" /\ api'[i].number = api[i].number
      /\ \A j \in Orders \ {i} : api'[j] = api[j]
  BY <1>1 DEF Types, Apis
<1>10. OneWriter'
  BY <1>1, <1>9 DEF OneWriter
<1>11. RowsHaveThreads'
  <2>1. SUFFICES ASSUME NEW r \in table \cup {row}
                 PROVE  /\ api'[r.index].pc \in {"created", "202", "500", "gone"}
                        /\ api'[r.index].number = r.number
    BY <1>1 DEF RowsHaveThreads
  <2>2. CASE r = row
    BY <2>2, <1>9
  <2>3. CASE r \in table
    BY <2>3, <1>7, <1>9 DEF RowsHaveThreads, Types, Rows
  <2> QED
    BY <2>2, <2>3
<1>12. ThreadsHaveRows'
  <2>1. SUFFICES ASSUME NEW j \in Orders, api'[j].pc \in {"created", "202"}
                 PROVE  \E r \in table' : r.index = j /\ r.number = api'[j].number
    BY DEF ThreadsHaveRows
  <2>2. CASE j = i
    <3>1. row \in table'
      BY <1>1
    <3> QED
      BY <2>2, <3>1, <1>9
  <2>3. CASE j # i
    BY <2>1, <2>3, <1>1, <1>9 DEF ThreadsHaveRows
  <2> QED
    BY <2>2, <2>3
<1>13. LinesAreAnswers'
  BY <1>0, <1>1, <1>9 DEF LinesAreAnswers
<1> QED
  BY <1>5, <1>6, <1>8, <1>10, <1>11, <1>12, <1>13

(* What keeps the number and the order of every row keeps the rest. *)
LEMMA RowsKept ==
  ASSUME NumberingInvariant, NEW kept, table' \in SUBSET Rows,
         \A r \in table' : \E s \in table : r = kept[s],
         \A s \in table : /\ kept[s] \in table'
                          /\ kept[s].number = s.number /\ kept[s].index = s.index
  PROVE  /\ Numbers' = Numbers /\ Dense' /\ Distinct'
         /\ \A r \in table' : \E s \in table : r.number = s.number /\ r.index = s.index
<1>1. Numbers' = Numbers
  BY DEF Numbers
<1>2. Dense'
  BY <1>1 DEF NumberingInvariant, Dense
<1>3. Distinct'
  BY DEF NumberingInvariant, Distinct
<1> QED
  BY <1>1, <1>2, <1>3

(* A status written in a row moves no number. *)
LEMMA StatusSteps ==
  ASSUME NumberingInvariant,
         (\E i \in Orders : FirstDecision(i)) \/ (\E r \in table : EndTask(r))
  PROVE  NumberingInvariant'
<1> USE DEF NumberingInvariant
<1>0. UNCHANGED <<client, faultType, now, phase>>
  BY DEF FirstDecision, EndTask, bench
<1>1. \E kept :
        /\ table' \in SUBSET Rows
        /\ \A r \in table' : \E s \in table : r = kept[s]
        /\ \A s \in table : /\ kept[s] \in table'
                            /\ kept[s].number = s.number /\ kept[s].index = s.index
  <2>1. CASE \E i \in Orders : FirstDecision(i)
    <3>1. PICK i \in Orders : FirstDecision(i)
      BY <2>1
    <3> DEFINE kept == [r \in table |-> IF r.index = i THEN [r EXCEPT !.status = "LIVE"] ELSE r]
    <3>2. table' = {kept[r] : r \in table}
      BY <3>1 DEF FirstDecision
    <3>3. \A r \in table : kept[r] \in Rows /\ kept[r].number = r.number /\ kept[r].index = r.index
      BY DEF Types, Rows
    <3> HIDE DEF kept
    <3>4. table' \in SUBSET Rows
      BY <3>2, <3>3
    <3> QED
      BY <3>2, <3>3, <3>4
  <2>2. CASE \E r \in table : EndTask(r)
    <3>1. PICK q \in table : EndTask(q)
      BY <2>2
    <3>2. PICK status \in {"COMPLETED", "ABORTED"} :
            table' = (table \ {q}) \cup {[q EXCEPT !.status = status, !.finished = now]}
      BY <3>1 DEF EndTask
    <3> DEFINE kept == [r \in table |->
                         IF r = q THEN [r EXCEPT !.status = status, !.finished = now] ELSE r]
    <3>3. table' = {kept[r] : r \in table}
      BY <3>2
    <3>4. \A r \in table : kept[r] \in Rows /\ kept[r].number = r.number /\ kept[r].index = r.index
      BY DEF Types, Rows
    <3> HIDE DEF kept
    <3>5. table' \in SUBSET Rows
      BY <3>3, <3>4
    <3> QED
      BY <3>3, <3>4, <3>5
  <2> QED
    BY <2>1, <2>2
<1>2. /\ Numbers' = Numbers /\ Dense' /\ Distinct' /\ table' \in SUBSET Rows
      /\ \A r \in table' : \E s \in table : r.number = s.number /\ r.index = s.index
      /\ \A s \in table : \E r \in table' : r.number = s.number /\ r.index = s.index
  BY <1>1, RowsKept
<1>3. /\ api' \in [Orders -> Apis]
      /\ \A j \in Orders :
           /\ api'[j].number = api[j].number
           /\ api'[j].pc = api[j].pc \/ (api[j].pc = "created" /\ api'[j].pc = "202")
  <2>1. CASE \E i \in Orders : FirstDecision(i)
    <3>1. PICK i \in Orders : FirstDecision(i)
      BY <2>1
    <3>2. api[i].pc = "created" /\ api' = [api EXCEPT ![i].pc = "202"]
      BY <3>1 DEF FirstDecision
    <3> QED
      BY <3>2 DEF Types, Apis
  <2>2. CASE \E r \in table : EndTask(r)
    <3>1. api' = api
      BY <2>2 DEF EndTask
    <3> QED
      BY <3>1 DEF Types
  <2> QED
    BY <2>1, <2>2
<1>4. Types'
  BY <1>0, <1>2, <1>3 DEF Types
<1>5. NextOrderNumber' = NextOrderNumber
  BY <1>2 DEF NextOrderNumber
<1>6. OneWriter'
  BY <1>3, <1>5 DEF OneWriter
<1>7. RowsHaveThreads'
  BY <1>2, <1>3 DEF RowsHaveThreads, Types, Rows
<1>8. ThreadsHaveRows'
  BY <1>2, <1>3 DEF ThreadsHaveRows
<1>9. LinesAreAnswers'
  BY <1>0, <1>3 DEF LinesAreAnswers
<1> QED
  BY <1>2, <1>4, <1>6, <1>7, <1>8, <1>9

(* The bench reads. *)
LEMMA BenchSteps ==
  ASSUME NumberingInvariant, MarkWindow \/ Tick \/ Settle \/ Collect \/ UNCHANGED vars
  PROVE  NumberingInvariant'
<1> USE DEF NumberingInvariant
<1>0. UNCHANGED <<table, client, api, faultType>>
  BY DEF MarkWindow, Tick, Settle, Collect, bench, vars
<1>1. Types'
  <2>1. now' \in Nat /\ phase' \in {"load", "settled", "unsettled", "collected", "invalid"}
    BY DEF Types, MarkWindow, Tick, Settle, Collect, bench, vars
  <2> QED
    BY <1>0, <2>1 DEF Types
<1>2. Dense' /\ Distinct' /\ NextOrderNumber' = NextOrderNumber
  BY <1>0, RowsUntouched
<1>3. OneWriter'
  BY <1>0, <1>2 DEF OneWriter
<1>4. RowsHaveThreads' /\ ThreadsHaveRows' /\ LinesAreAnswers'
  BY <1>0 DEF RowsHaveThreads, ThreadsHaveRows, LinesAreAnswers
<1> QED
  BY <1>1, <1>2, <1>3, <1>4

(* Every step keeps the invariant. *)
LEMMA NumberingNext == NumberingInvariant /\ [Next]_vars => NumberingInvariant'
<1> SUFFICES ASSUME NumberingInvariant, [Next]_vars PROVE NumberingInvariant'
  OBVIOUS
<1>1. CASE \E i \in Orders : Send(i) \/ ReadAnswer(i) \/ ThreadDies(i)
  BY <1>1, ClientSteps
<1>2. CASE \E i \in Orders : SendFails(i)
  BY <1>2, SendFailsStep
<1>3. CASE \E i \in Orders : Receive(i) \/ Begin(i) \/ ApiRaises(i)
  BY <1>3, ApiSteps
<1>4. CASE ApiDies
  BY <1>4, ApiDiesStep
<1>5. CASE \E i \in Orders : Commit(i)
  BY <1>5, CommitStep
<1>6. CASE (\E i \in Orders : FirstDecision(i)) \/ (\E r \in table : EndTask(r))
  BY <1>6, StatusSteps
<1>7. CASE MarkWindow \/ Tick \/ Settle \/ Collect \/ UNCHANGED vars
  BY <1>7, BenchSteps
<1> QED
  BY <1>1, <1>2, <1>3, <1>4, <1>5, <1>6, <1>7 DEF Next

(* Whichever threads meet, roll back or die, orders are numbered 1, 2, 3,  *)
(* ... and an answer names the order made from its own request.            *)
THEOREM OrdersAlwaysAccounted == Spec => []OrdersAccounted
<1>1. Spec => []NumberingInvariant
  BY NumberingInit, NumberingNext, PTL DEF Spec
<1> QED
  BY <1>1, NumberingAccounts, PTL

-----------------------------------------------------------------------------
(* What is true of the orders that were answered once the bench goes on.   *)

LoadEnded == phase # "load" => \A i \in Orders : client[i].pc \in {"done", "died"}

Answered(i) == client[i].line.status = "202"
RowsOf(i) == {r \in table : r.index = i}

AnsweredEnded ==
  phase \in {"settled", "collected"} =>
    \A i \in Orders : Answered(i) => \A r \in RowsOf(i) : IsTerminal(r)

AnsweredCollected ==
  phase = "collected" =>
    \A i \in Orders : Answered(i) => {r \in tasks : r.index = i} = RowsOf(i)

(* No altered order completes. *)
ReplacedFails == \A r \in table : r.status = "COMPLETED" => ~BuildPlan[r.index].replaced

CollectionInvariant ==
  NumberingInvariant /\ LoadEnded /\ AnsweredEnded /\ AnsweredCollected /\ ReplacedFails

(* Initially nothing is measured. *)
LEMMA CollectionInit == Init => CollectionInvariant
<1> SUFFICES ASSUME Init PROVE CollectionInvariant
  OBVIOUS
<1>1. NumberingInvariant
  BY NumberingInit
<1>2. LoadEnded /\ AnsweredEnded /\ AnsweredCollected /\ ReplacedFails
  BY DEF Init, LoadEnded, AnsweredEnded, AnsweredCollected, ReplacedFails
<1> QED
  BY <1>1, <1>2 DEF CollectionInvariant

(* No line is written after the joins. *)
LEMMA LinesStay ==
  ASSUME LoadEnded, phase # "load", [Next]_vars
  PROVE  client' = client
<1>1. \A i \in Orders : client[i].pc \notin {"planned", "sent"}
  BY DEF LoadEnded
<1>2. ~\E i \in Orders : Send(i) \/ ReadAnswer(i) \/ SendFails(i) \/ ThreadDies(i)
  BY <1>1 DEF Send, IsDue, ReadAnswer, SendFails, ThreadDies
<1>3. ASSUME NEW i \in Orders,
             Receive(i) \/ Begin(i) \/ Commit(i) \/ FirstDecision(i) \/ ApiRaises(i)
      PROVE  client' = client
  BY <1>3 DEF Receive, Begin, Commit, FirstDecision, ApiRaises, bench
<1>4. ASSUME ApiDies \/ (\E r \in table : EndTask(r)) \/ MarkWindow \/ Tick \/ Settle \/ Collect
      PROVE  client' = client
  BY <1>4 DEF ApiDies, EndTask, MarkWindow, Tick, Settle, Collect, bench
<1>5. ASSUME UNCHANGED vars PROVE client' = client
  BY <1>5 DEF vars
<1> QED
  BY <1>2, <1>3, <1>4, <1>5 DEF Next

(* How the rows of a step come from the rows before it. *)
LEMMA RowsStep ==
  ASSUME NumberingInvariant, [Next]_vars
  PROVE  \/ table' = table
         \/ \E i \in Orders : Commit(i)
         \/ \E i \in Orders : FirstDecision(i)
         \/ \E r \in table : EndTask(r)
<1>1. ASSUME NEW i \in Orders,
             \/ Send(i) \/ ReadAnswer(i) \/ SendFails(i) \/ ThreadDies(i)
             \/ Receive(i) \/ Begin(i) \/ ApiRaises(i)
      PROVE  table' = table
  BY <1>1 DEF Send, ReadAnswer, SendFails, ThreadDies, Receive, Begin, ApiRaises, bench
<1>2. ASSUME ApiDies \/ MarkWindow \/ Tick \/ Settle \/ Collect \/ UNCHANGED vars
      PROVE  table' = table
  BY <1>2 DEF ApiDies, MarkWindow, Tick, Settle, Collect, bench, vars
<1> QED
  BY <1>1, <1>2 DEF Next

(* The rows of an answered order that ended change no more. *)
LEMMA EndedRowsStay ==
  ASSUME NumberingInvariant, [Next]_vars,
         NEW i \in Orders, Answered(i), \A r \in RowsOf(i) : IsTerminal(r)
  PROVE  RowsOf(i)' = RowsOf(i)
<1>1. api[i].pc = "202"
  BY DEF NumberingInvariant, LinesAreAnswers, Answered
<1>2. CASE table' = table
  BY <1>2 DEF RowsOf
<1>3. ASSUME NEW j \in Orders, Commit(j) PROVE RowsOf(i)' = RowsOf(i)
  <2>1. j # i
    BY <1>1, <1>3 DEF Commit
  <2>2. PICK row : row.index = j /\ table' = table \cup {row}
    BY <1>3 DEF Commit
  <2> QED
    BY <2>1, <2>2 DEF RowsOf
<1>4. ASSUME NEW j \in Orders, FirstDecision(j) PROVE RowsOf(i)' = RowsOf(i)
  <2>1. j # i
    BY <1>1, <1>4 DEF FirstDecision
  <2>2. table' = {IF r.index = j THEN [r EXCEPT !.status = "LIVE"] ELSE r : r \in table}
    BY <1>4 DEF FirstDecision
  <2>3. \A r \in table : [r EXCEPT !.status = "LIVE"].index = r.index
    BY DEF NumberingInvariant, Types, Rows
  <2> QED
    BY <2>1, <2>2, <2>3 DEF RowsOf
<1>5. ASSUME NEW q \in table, EndTask(q) PROVE RowsOf(i)' = RowsOf(i)
  <2>1. q.index # i
    BY <1>5 DEF EndTask, RowsOf, IsTerminal
  <2>2. PICK status : table' = (table \ {q}) \cup {[q EXCEPT !.status = status, !.finished = now]}
    BY <1>5 DEF EndTask
  <2>3. [q EXCEPT !.status = status, !.finished = now].index = q.index
    BY DEF NumberingInvariant, Types, Rows
  <2> QED
    BY <2>1, <2>2, <2>3 DEF RowsOf
<1> QED
  BY <1>2, <1>3, <1>4, <1>5, RowsStep

(* The plan of an execution is made once. *)
LEMMA PlanStays == [Next]_vars => BuildPlan' = BuildPlan
<1> SUFFICES ASSUME [Next]_vars PROVE BuildPlan' = BuildPlan
  OBVIOUS
<1>1. faultType' = faultType
  BY DEF Next, vars, Send, ReadAnswer, SendFails, ThreadDies, Receive, Begin, Commit,
         FirstDecision, ApiRaises, ApiDies, EndTask, MarkWindow, Tick, Settle, Collect
<1>2. SendOffsets' = SendOffsets
  BY <1>1 DEF SendOffsets, InWindow
<1> QED
  BY <1>1, <1>2 DEF BuildPlan, InWindow

(* An altered order never completes. *)
LEMMA ReplacedStep ==
  ASSUME NumberingInvariant, ReplacedFails, [Next]_vars
  PROVE  ReplacedFails'
<1>1. \A r \in table : r.status = "COMPLETED" => ~BuildPlan'[r.index].replaced
  BY PlanStays DEF ReplacedFails
<1>2. CASE table' = table
  BY <1>1, <1>2 DEF ReplacedFails
<1>3. ASSUME NEW i \in Orders, Commit(i) PROVE ReplacedFails'
  <2>1. PICK row : row.status = "PENDING" /\ table' = table \cup {row}
    BY <1>3 DEF Commit
  <2> QED
    BY <1>1, <2>1 DEF ReplacedFails
<1>4. ASSUME NEW i \in Orders, FirstDecision(i) PROVE ReplacedFails'
  <2>1. table' = {IF r.index = i THEN [r EXCEPT !.status = "LIVE"] ELSE r : r \in table}
    BY <1>4 DEF FirstDecision
  <2>2. \A r \in table : [r EXCEPT !.status = "LIVE"].status = "LIVE"
    BY DEF NumberingInvariant, Types, Rows
  <2> QED
    BY <1>1, <2>1, <2>2 DEF ReplacedFails
<1>5. ASSUME NEW q \in table, EndTask(q) PROVE ReplacedFails'
  <2>1. PICK status :
          /\ status = "COMPLETED" => ~BuildPlan[q.index].replaced
          /\ table' = (table \ {q}) \cup {[q EXCEPT !.status = status, !.finished = now]}
    BY <1>5 DEF EndTask
  <2> DEFINE row == [q EXCEPT !.status = status, !.finished = now]
  <2>2. row.index = q.index /\ row.status = status
    BY DEF NumberingInvariant, Types, Rows
  <2>3. \A r \in table' : r \in table \/ r = row
    BY <2>1
  <2> HIDE DEF row
  <2>4. row.status = "COMPLETED" => ~BuildPlan'[row.index].replaced
    BY <2>1, <2>2, PlanStays
  <2> QED
    BY <1>1, <2>3, <2>4 DEF ReplacedFails
<1> QED
  BY <1>2, <1>3, <1>4, <1>5, RowsStep

(* The phases of the bench go forward, and only its steps move them. *)
LEMMA PhaseStep ==
  ASSUME [Next]_vars
  PROVE  \/ phase' = phase /\ tasks' = tasks
         \/ Settle
         \/ Collect
<1>1. ASSUME NEW i \in Orders,
             \/ Send(i) \/ ReadAnswer(i) \/ SendFails(i) \/ ThreadDies(i)
             \/ Receive(i) \/ Begin(i) \/ Commit(i) \/ FirstDecision(i) \/ ApiRaises(i)
      PROVE  phase' = phase /\ tasks' = tasks
  BY <1>1 DEF Send, ReadAnswer, SendFails, ThreadDies, Receive, Begin, Commit, FirstDecision,
              ApiRaises, bench
<1>2. ASSUME ApiDies \/ (\E r \in table : EndTask(r)) \/ MarkWindow \/ Tick \/ UNCHANGED vars
      PROVE  phase' = phase /\ tasks' = tasks
  BY <1>2 DEF ApiDies, EndTask, MarkWindow, Tick, bench, vars
<1> QED
  BY <1>1, <1>2 DEF Next

(* At the joins, the orders that the lines name are the answered ones. *)
LEMMA SettledEnded ==
  ASSUME NumberingInvariant, AllTerminal, NEW i \in Orders, Answered(i), NEW r \in RowsOf(i)
  PROVE  IsTerminal(r)
<1>1. client[i].line.number = r.number
  BY DEF NumberingInvariant, LinesAreAnswers, RowsHaveThreads, Answered, RowsOf
<1>2. r.number \in OrderIds
  BY <1>1 DEF OrderIds, NumberingInvariant, Types, Rows, RowsOf
<1> QED
  BY <1>2 DEF AllTerminal, RowsOf

(* Every step keeps what is measured. *)
LEMMA CollectionNext == CollectionInvariant /\ [Next]_vars => CollectionInvariant'
<1> SUFFICES ASSUME CollectionInvariant, [Next]_vars PROVE CollectionInvariant'
  OBVIOUS
<1> USE DEF CollectionInvariant
<1>1. NumberingInvariant'
  BY NumberingNext
<1>2. ReplacedFails'
  BY ReplacedStep
<1>3. phase # "load" => client' = client
  BY LinesStay
<1>4. \A i \in Orders : phase # "load" => (Answered(i)' <=> Answered(i))
  BY <1>3 DEF Answered
<1>5. CASE phase' = phase /\ tasks' = tasks
  <2>1. LoadEnded'
    BY <1>3, <1>5 DEF LoadEnded
  <2>2. ASSUME phase \in {"settled", "collected"}, NEW i \in Orders, Answered(i)
        PROVE  RowsOf(i)' = RowsOf(i) /\ \A r \in RowsOf(i) : IsTerminal(r)
    <3>1. \A r \in RowsOf(i) : IsTerminal(r)
      BY <2>2 DEF AnsweredEnded
    <3> QED
      BY <2>2, <3>1, EndedRowsStay
  <2>3. AnsweredEnded'
    <3> SUFFICES ASSUME phase' \in {"settled", "collected"}, NEW i \in Orders, Answered(i)',
                        NEW r \in RowsOf(i)'
                 PROVE  IsTerminal(r)
      BY DEF AnsweredEnded, IsTerminal
    <3> QED
      BY <1>4, <1>5, <2>2
  <2>4. AnsweredCollected'
    <3> SUFFICES ASSUME phase' = "collected", NEW i \in Orders, Answered(i)'
                 PROVE  {r \in tasks' : r.index = i} = RowsOf(i)'
      BY DEF AnsweredCollected
    <3>1. Answered(i)
      BY <1>4, <1>5
    <3>2. {r \in tasks : r.index = i} = RowsOf(i)
      BY <1>5, <3>1 DEF AnsweredCollected
    <3> QED
      BY <1>5, <2>2, <3>1, <3>2
  <2> QED
    BY <1>1, <1>2, <2>1, <2>3, <2>4
<1>6. CASE Settle
  <2>1. /\ phase' \in {"settled", "unsettled"}
        /\ phase' = "settled" => AllTerminal
        /\ client' = client /\ table' = table
        /\ \A i \in Orders : client[i].pc \in {"done", "died"}
    BY <1>6 DEF Settle, LoadJoined
  <2>2. LoadEnded' /\ AnsweredCollected'
    BY <2>1 DEF LoadEnded, AnsweredCollected
  <2>3. AnsweredEnded'
    <3> SUFFICES ASSUME AllTerminal, NEW i \in Orders, Answered(i), NEW r \in RowsOf(i)
                 PROVE  IsTerminal(r)
      BY <2>1 DEF AnsweredEnded, Answered, RowsOf, IsTerminal
    <3> QED
      BY SettledEnded
  <2> QED
    BY <1>1, <1>2, <2>2, <2>3
<1>7. CASE Collect
  <2>1. /\ phase # "load" /\ phase' # "settled"
        /\ phase' = "collected" => phase = "settled"
        /\ tasks' = table /\ client' = client /\ table' = table
    BY <1>7 DEF Collect
  <2>2. LoadEnded'
    BY <2>1 DEF LoadEnded
  <2>3. AnsweredEnded'
    BY <2>1 DEF AnsweredEnded, Answered, RowsOf, IsTerminal
  <2>4. AnsweredCollected'
    BY <2>1 DEF AnsweredCollected, Answered, RowsOf
  <2> QED
    BY <1>1, <1>2, <2>2, <2>3, <2>4
<1> QED
  BY <1>5, <1>6, <1>7, PhaseStep

(* The verdict on the requests leaves out no line. *)
LEMMA NoErrors ==
  ASSUME HttpErrors = 0, NEW i \in Orders, client[i].pc = "done"
  PROVE  Answered(i)
<1> DEFINE failed == {j \in Orders : client[j].pc = "done" /\ client[j].line.status # "202"}
<1>1. IsFiniteSet(failed)
  <2>1. IsFiniteSet(Orders)
    BY FS_Interval, WorkloadAssumption DEF Orders
  <2> QED
    BY <2>1, FS_Subset
<1>2. failed = {}
  BY <1>1, FS_EmptySet DEF HttpErrors
<1> QED
  BY <1>2 DEF Answered

(* The invariant implies the property. *)
LEMMA CollectionIsComplete == CollectionInvariant => AcceptedRunIsComplete
<1> SUFFICES ASSUME CollectionInvariant, phase = "collected", HttpErrors = 0,
                    NEW i \in Orders, client[i].pc # "died"
             PROVE  /\ \E r \in tasks :
                         /\ r.index = i /\ IsTerminal(r)
                         /\ r.number \in Hit <=> BuildPlan[i].replaced
                         /\ r.number \in Hit => r.status # "COMPLETED"
                    /\ RowsOf(i) = {r \in tasks : r.index = i}
  BY DEF AcceptedRunIsComplete, Accepted, RowsOf
<1> USE DEF CollectionInvariant, NumberingInvariant
<1>1. Answered(i)
  BY NoErrors DEF LoadEnded
<1>2. RowsOf(i) = {r \in tasks : r.index = i}
  BY <1>1 DEF AnsweredCollected
<1>3. PICK r \in table : r.index = i /\ r.number = client[i].line.number
  BY <1>1, NumberingAccounts DEF OrdersAccounted, Answered
<1>4. r \in tasks /\ IsTerminal(r)
  BY <1>1, <1>2, <1>3 DEF RowsOf, AnsweredEnded
<1>5. r.number \in Hit => BuildPlan[i].replaced
  <2> SUFFICES ASSUME r.number \in Hit PROVE BuildPlan[i].replaced
    OBVIOUS
  <2>1. PICK j \in Orders : BuildPlan[j].replaced /\ client[j].line.number = r.number
    BY DEF Hit
  <2>2. r.number # 0
    BY DEF Hit
  <2>3. Answered(j)
    BY <2>1, <2>2 DEF LinesAreAnswers, Answered
  <2>4. PICK s \in table : s.index = j /\ s.number = client[j].line.number
    BY <2>3, NumberingAccounts DEF OrdersAccounted, Answered
  <2>5. s = r
    BY <2>1, <2>4 DEF Distinct
  <2> QED
    BY <1>3, <2>1, <2>4, <2>5
<1>6. BuildPlan[i].replaced => r.number \in Hit
  <2>1. r.number # 0
    BY DEF Types, Rows
  <2> QED
    BY <1>3, <2>1 DEF Hit
<1>7. r.number \in Hit => r.status # "COMPLETED"
  BY <1>3, <1>5 DEF ReplacedFails
<1>8. r.number \in Hit <=> BuildPlan[i].replaced
  <2>1. BuildPlan[i].replaced \in BOOLEAN
    BY DEF BuildPlan
  <2> QED
    BY <1>5, <1>6, <2>1
<1> QED
  BY <1>2, <1>3, <1>4, <1>7, <1>8

(* What an accepted execution measured is everything that was planned.     *)
THEOREM AcceptedRunAlwaysComplete == Spec => []AcceptedRunIsComplete
<1>1. Spec => []CollectionInvariant
  BY CollectionInit, CollectionNext, PTL DEF Spec
<1> QED
  BY <1>1, CollectionIsComplete, PTL

-----------------------------------------------------------------------------
(* Ordered enumerations of finite sets of rows.                            *)

(* A set of numbers has a least one.                                       *)
LEMMA LeastNumber ==
  ASSUME NEW S, S \subseteq Nat, S # {}
  PROVE  \E m \in S : \A j \in S : m <= j
<1> DEFINE less == OpToRel(<, Nat)
<1>1. PICK m \in S : \A j \in S : <<j, m>> \notin less
  <2> HIDE DEF less
  <2>1. IsWellFoundedOn(less, Nat)
    BY NatLessThanWellFounded DEF less
  <2>2. QED
    BY <2>1, WFMin
<1>2. \A j \in S : ~(j < m)
  BY <1>1 DEF OpToRel
<1>3. QED
  BY <1>2

(* A set with 0 and the number after each of its own has all numbers.      *)
LEMMA EveryNumber ==
  ASSUME NEW S, 0 \in S, \A k \in Nat : k \in S => k + 1 \in S
  PROVE  Nat \subseteq S
<1> DEFINE without == {k \in Nat : k \notin S}
<1> SUFFICES ASSUME without # {} PROVE FALSE
  OBVIOUS
<1>1. PICK m \in without : \A k \in without : m <= k
  <2>1. without \subseteq Nat
    OBVIOUS
  <2> HIDE DEF without
  <2> QED
    BY <2>1, LeastNumber
<1>2. m \in Nat /\ m \notin S
  BY <1>1
<1>3. m # 0
  BY <1>2
<1>4. m - 1 \in Nat /\ m - 1 + 1 = m /\ ~(m <= m - 1)
  BY <1>2, <1>3
<1>5. m - 1 \notin without
  <2> HIDE DEF without
  <2> QED
    BY <1>1, <1>4
<1> QED
  BY <1>2, <1>4, <1>5

(* Sets of n rows without two of the same number. *)
Lists(n) ==
  {T \in SUBSET Rows :
     /\ IsFiniteSet(T) /\ Cardinality(T) = n
     /\ \A r, s \in T : r.number = s.number => r = s}

LEMMA OneLess ==
  ASSUME NEW n \in Nat, NEW T \in Lists(n + 1), NEW x \in T
  PROVE  T \ {x} \in Lists(n)
<1>1. IsFiniteSet(T) /\ Cardinality(T) = n + 1
  BY DEF Lists
<1>2. IsFiniteSet(T \ {x}) /\ Cardinality(T \ {x}) = n + 1 - 1
  BY <1>1, FS_RemoveElement
<1>3. T \ {x} \in SUBSET Rows /\ \A r, s \in T \ {x} : r.number = s.number => r = s
  BY DEF Lists
<1> QED
  BY <1>2, <1>3 DEF Lists

(* Two rows with numbers of their own are ordered one way. *)
LEMMA CreationOrders ==
  /\ \A r, s \in Rows : r.number # s.number => ByCreation(r, s) \/ ByCreation(s, r)
  /\ \A r, s \in Rows : ~(ByCreation(r, s) /\ ByCreation(s, r))
  /\ \A r, s, t \in Rows : ByCreation(r, s) /\ ByCreation(s, t) => ByCreation(r, t)
  BY DEF Rows, ByCreation

(* The last one created. *)
HasLast(T) == \E m \in T : \A r \in T : r = m \/ ByCreation(r, m)

LEMMA LastCreated == \A n \in Nat : \A T \in Lists(n + 1) : HasLast(T)
<1> DEFINE good == {n \in Nat : \A T \in Lists(n + 1) : HasLast(T)}
<1>1. 0 \in good
  <2> SUFFICES ASSUME NEW T \in Lists(1) PROVE HasLast(T)
    OBVIOUS
  <2>1. \E x : T = {x}
    BY FS_Singleton DEF Lists
  <2> QED
    BY <2>1 DEF HasLast
<1>2. ASSUME NEW n \in Nat, n \in good
      PROVE  n + 1 \in good
  <2> SUFFICES ASSUME NEW T \in Lists(n + 1 + 1) PROVE HasLast(T)
    OBVIOUS
  <2>1. PICK x : x \in T
    <3>1. IsFiniteSet(T) /\ Cardinality(T) = n + 1 + 1
      BY DEF Lists
    <3>2. Cardinality(T) # 0
      BY <3>1
    <3>3. T # {}
      BY <3>2, FS_EmptySet
    <3> QED
      BY <3>3
  <2>2. T \ {x} \in Lists(n + 1)
    BY <2>1, OneLess
  <2>3. HasLast(T \ {x})
    BY <1>2, <2>2
  <2>4. PICK m \in T \ {x} : \A r \in T \ {x} : r = m \/ ByCreation(r, m)
    BY <2>3 DEF HasLast
  <2>5. T \subseteq Rows /\ x \in Rows /\ m \in Rows /\ m.number # x.number
    BY <2>1, <2>4 DEF Lists
  <2>6. CASE ByCreation(x, m)
    BY <2>4, <2>6 DEF HasLast
  <2>7. CASE ByCreation(m, x)
    <3>1. \A r \in T : r = x \/ ByCreation(r, x)
      BY <2>4, <2>5, <2>7, CreationOrders
    <3> QED
      BY <2>1, <3>1 DEF HasLast
  <2> QED
    BY <2>5, <2>6, <2>7, CreationOrders
<1> HIDE DEF good
<1>3. \A k \in Nat : k \in good => k + 1 \in good
  BY <1>2
<1>4. Nat \subseteq good
  BY <1>1, <1>3, EveryNumber
<1> QED
  BY <1>4 DEF good

(* Every such set can be put in the order of creation. *)
InCreationOrder(s, n, T) ==
  s \in [1 .. n -> T] /\ \A i, j \in 1 .. n : i < j => ByCreation(s[i], s[j])

LEMMA CanBeSorted ==
  \A n \in Nat : \A T \in Lists(n) : \E s : InCreationOrder(s, n, T)
<1> DEFINE good == {n \in Nat : \A T \in Lists(n) : \E s : InCreationOrder(s, n, T)}
<1>1. 0 \in good
  <2> SUFFICES ASSUME NEW T \in Lists(0) PROVE \E s : InCreationOrder(s, 0, T)
    OBVIOUS
  <2>1. [i \in 1 .. 0 |-> {}] \in [1 .. 0 -> T]
    OBVIOUS
  <2>2. \A i \in 1 .. 0 : FALSE
    OBVIOUS
  <2> QED
    BY <2>1, <2>2 DEF InCreationOrder
<1>2. ASSUME NEW n \in Nat, n \in good
      PROVE  n + 1 \in good
  <2> SUFFICES ASSUME NEW T \in Lists(n + 1) PROVE \E s : InCreationOrder(s, n + 1, T)
    OBVIOUS
  <2>1. PICK m \in T : \A r \in T : r = m \/ ByCreation(r, m)
    BY LastCreated DEF HasLast
  <2>2. T \ {m} \in Lists(n)
    BY OneLess
  <2>3. PICK s : InCreationOrder(s, n, T \ {m})
    BY <1>2, <2>2
  <2> DEFINE longer == [i \in 1 .. n + 1 |-> IF i = n + 1 THEN m ELSE s[i]]
  <2>4. \A i \in 1 .. n + 1 : i = n + 1 \/ i \in 1 .. n
    OBVIOUS
  <2>5. \A i \in 1 .. n : s[i] \in T /\ ByCreation(s[i], m) /\ i # n + 1 /\ i \in 1 .. n + 1
    BY <2>1, <2>3 DEF InCreationOrder
  <2>6. longer \in [1 .. n + 1 -> T]
    BY <2>4, <2>5
  <2>7. ASSUME NEW i \in 1 .. n + 1, NEW j \in 1 .. n + 1, i < j
        PROVE  ByCreation(longer[i], longer[j])
    <3>1. i \in 1 .. n /\ longer[i] = s[i]
      BY <2>7
    <3>2. CASE j = n + 1
      BY <2>5, <3>1, <3>2
    <3>3. CASE j \in 1 .. n
      <4>1. longer[j] = s[j]
        BY <2>5, <3>3
      <4> QED
        BY <2>3, <2>7, <3>1, <3>3, <4>1 DEF InCreationOrder
    <3> QED
      BY <2>4, <3>2, <3>3
  <2> HIDE DEF longer
  <2> QED
    BY <2>6, <2>7 DEF InCreationOrder
<1> HIDE DEF good
<1>3. \A k \in Nat : k \in good => k + 1 \in good
  BY <1>2
<1>4. Nat \subseteq good
  BY <1>1, <1>3, EveryNumber
<1> QED
  BY <1>4 DEF good

(* In such a sequence every row has one place, and the places are in the   *)
(* order of creation.                                                      *)
LEMMA SortedPlaces ==
  ASSUME NEW n \in Nat, NEW T \in Lists(n), NEW s, InCreationOrder(s, n, T)
  PROVE  /\ \A i, j \in 1 .. n : ByCreation(s[i], s[j]) <=> i < j
         /\ \A i, j \in 1 .. n : s[i] = s[j] => i = j
         /\ \A t \in T : \E i \in 1 .. n : s[i] = t
<1>1. s \in [1 .. n -> T] /\ T \subseteq Rows /\ IsFiniteSet(T) /\ Cardinality(T) = n
  BY DEF InCreationOrder, Lists
<1>2. \A i, j \in 1 .. n : i < j => ByCreation(s[i], s[j])
  BY DEF InCreationOrder
<1>3. \A i \in 1 .. n : s[i] \in Rows /\ ~ByCreation(s[i], s[i])
  BY <1>1, CreationOrders
<1>4. \A i, j \in 1 .. n : i < j \/ i = j \/ j < i
  OBVIOUS
<1>5. \A i, j \in 1 .. n : s[i] = s[j] => i = j
  BY <1>2, <1>3, <1>4, Zenon
<1>6. \A i, j \in 1 .. n : ByCreation(s[i], s[j]) => i < j
  BY <1>2, <1>3, <1>4, CreationOrders, Zenon
<1>7. \A t \in T : \E i \in 1 .. n : s[i] = t
  <2>1. s \in Injection(1 .. n, T)
    BY <1>1, <1>5 DEF Injection, IsInjective
  <2>2. Cardinality(1 .. n) = n
    BY FS_Interval
  <2>3. s \in Surjection(1 .. n, T)
    BY <1>1, <2>1, <2>2, FS_Injection
  <2> QED
    BY <2>3 DEF Surjection
<1> QED
  BY <1>2, <1>5, <1>6, <1>7

(* A set of places has as many members as the set of their rows. *)
LEMMA AsManyPlaces ==
  ASSUME NEW n \in Nat, NEW T \in Lists(n), NEW s, InCreationOrder(s, n, T),
         NEW P \in SUBSET (1 .. n)
  PROVE  Cardinality({s[p] : p \in P}) = Cardinality(P)
<1> DEFINE chosen == {s[p] : p \in P}
           f == [p \in P |-> s[p]]
<1>1. IsFiniteSet(P)
  <2>1. IsFiniteSet(1 .. n)
    BY FS_Interval
  <2> QED
    BY <2>1, FS_Subset
<1>2. \A i, j \in 1 .. n : s[i] = s[j] => i = j
  BY SortedPlaces
<1>3. f \in Bijection(P, chosen)
  <2>1. f \in [P -> chosen]
    OBVIOUS
  <2>2. \A c \in chosen : \E p \in P : f[p] = c
    OBVIOUS
  <2>3. \A i, j \in P : f[i] = f[j] => i = j
    BY <1>2
  <2> HIDE DEF f, chosen
  <2> QED
    BY <2>1, <2>2, <2>3 DEF Bijection, Injection, Surjection, IsInjective
<1> HIDE DEF f, chosen
<1>4. ExistsBijection(P, chosen)
  BY <1>3 DEF ExistsBijection
<1>5. Cardinality(chosen) = Cardinality(P)
  BY <1>1, <1>4, FS_Bijection
<1> QED
  BY <1>5 DEF chosen

-----------------------------------------------------------------------------
(* The windows of the recovery.                                            *)

(* The places from i on are those of a window of k normal rows. *)
NormalFrom(s, n, i, k) == i + k - 1 <= n /\ \A j \in i .. i + k - 1 : Normal(s[j])

IsFirst(t, k) == \E rows \in SUBSET After : RecoveryWindow(t, rows, k)

(* The rows at k places that follow one another are a window. *)
LEMMA PlacesAreWindow ==
  ASSUME NEW n \in Nat, After \in Lists(n), NEW s, InCreationOrder(s, n, After),
         NEW k \in Nat \ {0}, NEW i \in 1 .. n, NormalFrom(s, n, i, k)
  PROVE  IsFirst(s[i], k)
<1> DEFINE P == i .. i + k - 1
           rows == {s[p] : p \in P}
<1>1. P \in SUBSET (1 .. n) /\ i \in P /\ \A p \in P : Normal(s[p])
  BY DEF NormalFrom
<1>2. s \in [1 .. n -> After]
  BY DEF InCreationOrder
<1>3. rows \in SUBSET After /\ s[i] \in rows
  BY <1>1, <1>2
<1>4. Cardinality(rows) = k
  <2>1. Cardinality(P) = k
    BY FS_Interval
  <2> QED
    BY <1>1, <2>1, AsManyPlaces
<1>5. /\ \A p, q \in 1 .. n : ByCreation(s[p], s[q]) <=> p < q
      /\ \A t \in After : \E p \in 1 .. n : s[p] = t
  BY SortedPlaces
<1>6. Consecutive(rows)
  <2> SUFFICES ASSUME NEW t \in After \ rows
               PROVE  \/ \A r \in rows : ByCreation(t, r)
                      \/ \A r \in rows : ByCreation(r, t)
    BY DEF Consecutive
  <2>1. PICK q \in 1 .. n : s[q] = t
    BY <1>5
  <2>2. q \notin P
    BY <2>1
  <2>3. CASE q < i
    <3>1. \A p \in P : q < p
      BY <2>3
    <3> QED
      BY <1>1, <1>5, <2>1, <3>1
  <2>4. CASE q > i + k - 1
    <3>1. \A p \in P : p < q
      BY <2>4
    <3> QED
      BY <1>1, <1>5, <2>1, <3>1
  <2> QED
    BY <2>2, <2>3, <2>4
<1>7. \A r \in rows : Normal(r) /\ (r = s[i] \/ ByCreation(s[i], r))
  <2>1. \A p \in P : p = i \/ i < p
    OBVIOUS
  <2> QED
    BY <1>1, <1>5, <2>1
<1> HIDE DEF rows
<1>8. RecoveryWindow(s[i], rows, k)
  BY <1>3, <1>4, <1>6, <1>7 DEF RecoveryWindow
<1> QED
  BY <1>3, <1>8 DEF IsFirst

(* A window takes k places that follow one another. *)
LEMMA WindowTakesPlaces ==
  ASSUME NEW n \in Nat, After \in Lists(n), NEW s, InCreationOrder(s, n, After),
         NEW k \in Nat \ {0}, NEW i \in 1 .. n, IsFirst(s[i], k)
  PROVE  NormalFrom(s, n, i, k)
<1>1. PICK rows \in SUBSET After : RecoveryWindow(s[i], rows, k)
  BY DEF IsFirst
<1>2. /\ s[i] \in rows /\ Cardinality(rows) = k /\ Consecutive(rows)
      /\ \A r \in rows : Normal(r) /\ (r = s[i] \/ ByCreation(s[i], r))
  BY <1>1 DEF RecoveryWindow
<1>3. /\ \A p, q \in 1 .. n : ByCreation(s[p], s[q]) <=> p < q
      /\ \A p, q \in 1 .. n : s[p] = s[q] => p = q
      /\ \A t \in After : \E p \in 1 .. n : s[p] = t
  BY SortedPlaces
<1>4. s \in [1 .. n -> After]
  BY DEF InCreationOrder
<1> DEFINE P == {p \in 1 .. n : s[p] \in rows}
<1>5. P \in SUBSET (1 .. n) /\ i \in P
  BY <1>2
<1>6. \A p \in P : i <= p
  <2> SUFFICES ASSUME NEW p \in P PROVE i <= p
    OBVIOUS
  <2>1. s[p] = s[i] \/ ByCreation(s[i], s[p])
    BY <1>2
  <2> QED
    BY <1>3, <2>1
<1>7. Cardinality(P) = k
  <2>1. {s[p] : p \in P} = rows
    BY <1>3
  <2> QED
    BY <1>2, <1>5, <2>1, AsManyPlaces
<1>8. ASSUME NEW q \in 1 .. n, q \notin P, NEW p \in P, i < q
      PROVE  p < q
  <2>1. s[q] \in After \ rows
    BY <1>4, <1>8
  <2>2. \/ \A r \in rows : ByCreation(s[q], r)
        \/ \A r \in rows : ByCreation(r, s[q])
    BY <1>2, <2>1 DEF Consecutive
  <2>3. ~ByCreation(s[q], s[i])
    BY <1>3, <1>8
  <2>4. ByCreation(s[p], s[q])
    BY <1>2, <2>2, <2>3
  <2> QED
    BY <1>3, <2>4
<1>9. ASSUME NEW q \in i .. i + k - 1
      PROVE  q \in P
  <2> SUFFICES ASSUME q \notin P PROVE FALSE
    OBVIOUS
  <2>1. i < q
    BY <1>5, <1>9
  <2>2. \A p \in P : p < q
    <3>1. CASE q <= n
      BY <1>8, <2>1, <3>1
    <3>2. CASE q > n
      BY <3>2
    <3> QED
      BY <3>1, <3>2
  <2>3. P \subseteq i .. q - 1
    BY <1>5, <1>6, <2>2
  <2>4. IsFiniteSet(i .. q - 1) /\ Cardinality(i .. q - 1) = q - i
    <3>1. q - 1 \in Int /\ i \in Int /\ ~(i > q - 1) /\ q - 1 - i + 1 = q - i
      BY <2>1
    <3> QED
      BY <3>1, FS_Interval
  <2> HIDE DEF P
  <2>5. Cardinality(P) <= q - i
    BY <2>3, <2>4, FS_Subset
  <2> QED
    BY <1>7, <2>5
<1>10. i + k - 1 \in P
  BY <1>9
<1> QED
  BY <1>2, <1>9, <1>10 DEF NormalFrom

(* The instants and numbers of the collected rows. *)
CollectedRows ==
  /\ window \in Seq(Nat)
  /\ tasks \in SUBSET Rows /\ IsFiniteSet(tasks)
  /\ \A r, s \in tasks : r.number = s.number => r = s
  /\ \A r \in tasks : r.status = "COMPLETED" => r.created <= r.finished

Firsts(k) == {t \in After : IsFirst(t, k)}

(* The recovery is the first row of the first window. *)
LEMMA RecoveryFound == CollectedRows => RecoveryIsEarliest
<1> SUFFICES ASSUME CollectedRows, HasReference, NEW k \in 1 .. WindowTasks
             PROVE  IF Firsts(k) = {} THEN Recovery(k) = <<>>
                    ELSE /\ Recovery(k) # <<>>
                         /\ Recovery(k)[1] \in Firsts(k)
                         /\ \A t \in Firsts(k) :
                              t = Recovery(k)[1] \/ ByCreation(Recovery(k)[1], t)
                         /\ Recovery(k)[1].finished >= window[2]
  BY DEF RecoveryIsEarliest, Firsts, IsFirst
<1> DEFINE n == Cardinality(After)
           s == InOrder(After, ByCreation)
           windows == {i \in Places(s, k) : \A j \in i .. i + k - 1 : Normal(s[j])}
<1>1. After \subseteq tasks /\ IsFiniteSet(After)
  <2>1. After \in SUBSET tasks
    BY DEF After
  <2> QED
    BY <2>1, FS_Subset DEF CollectedRows
<1>2. n \in Nat
  BY <1>1, FS_CardinalityType
<1>3. After \in Lists(n)
  BY <1>1 DEF Lists, CollectedRows
<1>4. InCreationOrder(s, n, After)
  <2> HIDE DEF n
  <2>1. \E z : InCreationOrder(z, n, After)
    BY <1>2, <1>3, CanBeSorted
  <2>2. s = CHOOSE z \in [1 .. n -> After] :
              \A i, j \in 1 .. n : i < j => ByCreation(z[i], z[j])
    BY DEF InOrder, n
  <2> HIDE DEF s
  <2> QED
    BY <2>1, <2>2, Zenon DEF InCreationOrder
<1> HIDE DEF s
<1>5. s \in [1 .. n -> After]
  BY <1>4 DEF InCreationOrder
<1>6. k \in Nat \ {0}
  BY ConsolidationAssumption
<1>7. Len(s) = n
  BY <1>2, <1>5
<1>8. windows = {i \in 1 .. n : NormalFrom(s, n, i, k)}
  BY <1>7, Zenon DEF Places, NormalFrom
<1>9. Recovery(k) = IF windows = {} THEN <<>> ELSE <<s[Min(windows)]>>
  BY DEF Recovery, s
<1> HIDE DEF windows, n
<1>10. \A i \in 1 .. n : i \in windows <=> IsFirst(s[i], k)
  BY <1>2, <1>3, <1>4, <1>6, <1>8, PlacesAreWindow, WindowTakesPlaces
<1>11. /\ \A i, j \in 1 .. n : ByCreation(s[i], s[j]) <=> i < j
       /\ \A t \in After : \E i \in 1 .. n : s[i] = t
  BY <1>2, <1>3, <1>4, SortedPlaces
<1>12. \A t \in Firsts(k) : \E i \in windows : s[i] = t
  BY <1>10, <1>11 DEF Firsts
<1>13. CASE windows = {}
  <2>1. Firsts(k) = {}
    BY <1>12, <1>13 DEF Firsts
  <2> QED
    BY <1>9, <1>13, <2>1
<1>14. CASE windows # {}
  <2> DEFINE m == Min(windows)
  <2>1. m \in windows /\ \A i \in windows : m <= i
    <3>1. windows \subseteq Nat
      BY <1>8
    <3>2. \E i \in windows : \A j \in windows : i <= j
      BY <1>14, <3>1, LeastNumber
    <3> QED
      BY <3>2 DEF Min
  <2>2. Recovery(k) # <<>> /\ Recovery(k)[1] = s[m]
    BY <1>9, <1>14
  <2> HIDE DEF m
  <2>3. m \in 1 .. n /\ NormalFrom(s, n, m, k)
    BY <1>8, <2>1
  <2>4. s[m] \in Firsts(k)
    BY <1>5, <1>10, <2>1, <2>3 DEF Firsts
  <2>5. \A t \in Firsts(k) : t = s[m] \/ ByCreation(s[m], t)
    <3> SUFFICES ASSUME NEW t \in Firsts(k) PROVE t = s[m] \/ ByCreation(s[m], t)
      OBVIOUS
    <3>1. PICK i \in windows : s[i] = t
      BY <1>12
    <3>2. i \in 1 .. n /\ (m = i \/ m < i)
      BY <1>8, <2>1, <2>3
    <3> QED
      BY <1>11, <2>3, <3>1, <3>2
  <2>6. s[m].finished >= window[2]
    <3>1. s[m] \in After /\ s[m] \in tasks
      BY <1>1, <1>5, <2>3
    <3>2. Normal(s[m])
      BY <1>6, <2>3 DEF NormalFrom
    <3>3. s[m].status = "COMPLETED" /\ s[m].created >= window[2]
      BY <3>1, <3>2 DEF Normal, After
    <3>4. window[2] \in Nat
      <4>1. window \in [1 .. 2 -> Nat]
        BY DEF CollectedRows, HasReference
      <4> QED
        BY <4>1
    <3>5. /\ s[m].created <= s[m].finished
          /\ s[m].created \in Nat /\ s[m].finished \in Nat
      BY <3>1, <3>3 DEF CollectedRows, Rows
    <3> QED
      BY <3>3, <3>4, <3>5
  <2>7. Firsts(k) # {}
    BY <2>4
  <2> QED
    BY <2>2, <2>4, <2>5, <2>6, <2>7
<1> QED
  BY <1>13, <1>14

(* Nothing is created or ended after now, or ended before it was created.  *)
InstantsFit ==
  /\ \A i \in Orders : api[i].created <= now
  /\ \A r \in table :
       /\ r.created <= now
       /\ r.status = "COMPLETED" => r.created <= r.finished

RecoveryInvariant == NumberingInvariant /\ InstantsFit /\ CollectedRows

LEMMA RecoveryInit == Init => RecoveryInvariant
<1> SUFFICES ASSUME Init PROVE RecoveryInvariant
  OBVIOUS
<1>1. NumberingInvariant
  BY NumberingInit
<1>2. InstantsFit
  BY DEF Init, InstantsFit
<1>3. CollectedRows
  BY FS_EmptySet DEF Init, CollectedRows
<1> QED
  BY <1>1, <1>2, <1>3 DEF RecoveryInvariant

(* An order has one row. *)
LEMMA TableFinite == NumberingInvariant => IsFiniteSet(table)
<1> SUFFICES ASSUME NumberingInvariant PROVE IsFiniteSet(table)
  OBVIOUS
<1> DEFINE f == [r \in table |-> r.index]
<1>1. f \in [table -> Orders]
  BY DEF NumberingInvariant, Types, Rows
<1>2. \A r, s \in table : f[r] = f[s] => r = s
  BY DEF NumberingInvariant, Distinct
<1> HIDE DEF f
<1>3. f \in Injection(table, Orders)
  BY <1>1, <1>2 DEF Injection, IsInjective
<1>4. IsFiniteSet(Orders)
  BY FS_Interval, WorkloadAssumption DEF Orders
<1> QED
  BY <1>3, <1>4, FS_Injection

LEMMA InstantsStep == RecoveryInvariant /\ [Next]_vars => InstantsFit'
<1> SUFFICES ASSUME RecoveryInvariant, [Next]_vars PROVE InstantsFit'
  OBVIOUS
<1>0. /\ now \in Nat /\ api \in [Orders -> Apis] /\ table \in SUBSET Rows /\ InstantsFit
      /\ \A i \in Orders : api[i].created \in Nat
      /\ \A r \in table : r.created \in Nat /\ r.finished \in Nat
  BY DEF RecoveryInvariant, NumberingInvariant, Types, Apis, Rows
<1>1. CASE UNCHANGED <<now, table>> /\ \A i \in Orders : api'[i].created = api[i].created
  BY <1>0, <1>1 DEF InstantsFit
<1>2. CASE \E i \in Orders : Send(i) \/ ReadAnswer(i) \/ ThreadDies(i)
  BY <1>1, <1>2 DEF Send, ReadAnswer, ThreadDies
<1>3. ASSUME NEW i \in Orders, SendFails(i)
      PROVE  InstantsFit'
  BY <1>0, <1>1, <1>3 DEF SendFails, Apis
<1>4. ASSUME NEW i \in Orders, Receive(i)
      PROVE  InstantsFit'
  <2>1. api'[i].created = now /\ \A j \in Orders \ {i} : api'[j].created = api[j].created
    BY <1>0, <1>4 DEF Receive
  <2> QED
    BY <1>0, <1>4, <2>1 DEF Receive, InstantsFit
<1>5. ASSUME NEW i \in Orders, Begin(i) \/ ApiRaises(i)
      PROVE  InstantsFit'
  BY <1>0, <1>1, <1>5 DEF Begin, ApiRaises, Apis
<1>6. ASSUME NEW i \in Orders, Commit(i)
      PROVE  InstantsFit'
  <2>1. /\ now' = now
        /\ \A j \in Orders : api'[j].created = api[j].created
        /\ \A r \in table' : r \in table \/ (r.created = api[i].created /\ r.status = "PENDING")
    BY <1>0, <1>6 DEF Commit, Apis
  <2> QED
    BY <1>0, <2>1 DEF InstantsFit
<1>7. ASSUME NEW i \in Orders, FirstDecision(i)
      PROVE  InstantsFit'
  <2>1. /\ now' = now
        /\ \A j \in Orders : api'[j].created = api[j].created
    BY <1>0, <1>7 DEF FirstDecision, Apis
  <2>2. ASSUME NEW r \in table'
        PROVE  r \in table \/ \E s \in table : r.created = s.created /\ r.status = "LIVE"
    <3>1. PICK s \in table : r = IF s.index = i THEN [s EXCEPT !.status = "LIVE"] ELSE s
      BY <1>7, <2>2 DEF FirstDecision
    <3>2. s \in Rows
      BY <1>0
    <3> QED
      BY <3>1, <3>2 DEF Rows
  <2> QED
    BY <1>0, <2>1, <2>2 DEF InstantsFit
<1>8. CASE ApiDies
  <2>1. \A j \in Orders : api'[j].created = api[j].created
    BY <1>0, <1>8 DEF ApiDies, Apis
  <2> QED
    BY <1>1, <1>8, <2>1 DEF ApiDies
<1>9. ASSUME NEW r \in table, EndTask(r)
      PROVE  InstantsFit'
  <2>1. now' = now /\ api' = api
    BY <1>9 DEF EndTask
  <2>2. \A s \in table' : s \in table \/ (s.created = r.created /\ s.finished = now)
    <3>1. PICK status \in {"COMPLETED", "ABORTED"} :
            table' = (table \ {r}) \cup {[r EXCEPT !.status = status, !.finished = now]}
      BY <1>9 DEF EndTask
    <3>2. r \in Rows
      BY <1>0
    <3> QED
      BY <3>1, <3>2 DEF Rows
  <2> QED
    BY <1>0, <2>1, <2>2 DEF InstantsFit
<1>10. CASE MarkWindow \/ Settle \/ Collect
  BY <1>1, <1>10 DEF MarkWindow, Settle, Collect
<1>11. CASE Tick
  <2>1. now' = now + 1 /\ table' = table /\ api' = api
    BY <1>11 DEF Tick
  <2> QED
    BY <1>0, <2>1 DEF InstantsFit
<1>12. CASE UNCHANGED vars
  BY <1>1, <1>12 DEF vars
<1> QED
  BY <1>2, <1>3, <1>4, <1>5, <1>6, <1>7, <1>8, <1>9, <1>10, <1>11, <1>12 DEF Next

LEMMA CollectedStep == RecoveryInvariant /\ [Next]_vars => CollectedRows'
<1> SUFFICES ASSUME RecoveryInvariant, [Next]_vars PROVE CollectedRows'
  OBVIOUS
<1>1. CollectedRows /\ now \in Nat
  BY DEF RecoveryInvariant, NumberingInvariant, Types
<1>2. CASE UNCHANGED <<window, tasks>>
  BY <1>1, <1>2 DEF CollectedRows
<1>3. CASE MarkWindow
  <2>1. window' = Append(window, now) /\ tasks' = tasks
    BY <1>3 DEF MarkWindow
  <2>2. window' \in Seq(Nat)
    BY <1>1, <2>1 DEF CollectedRows
  <2> QED
    BY <1>1, <2>1, <2>2 DEF CollectedRows
<1>4. CASE Collect
  <2>1. window' = window /\ tasks' = table
    BY <1>4 DEF Collect
  <2>2. IsFiniteSet(table)
    BY TableFinite DEF RecoveryInvariant
  <2>3. /\ table \in SUBSET Rows
        /\ \A r, s \in table : r.number = s.number => r = s
        /\ \A r \in table : r.status = "COMPLETED" => r.created <= r.finished
    BY DEF RecoveryInvariant, InstantsFit, NumberingInvariant, Types, Distinct
  <2> QED
    BY <1>1, <2>1, <2>2, <2>3 DEF CollectedRows
<1>5. ASSUME NEW i \in Orders,
             \/ Send(i) \/ ReadAnswer(i) \/ SendFails(i) \/ ThreadDies(i)
             \/ Receive(i) \/ Begin(i) \/ Commit(i) \/ FirstDecision(i) \/ ApiRaises(i)
      PROVE  UNCHANGED <<window, tasks>>
  BY <1>5 DEF Send, ReadAnswer, SendFails, ThreadDies, Receive, Begin, Commit,
              FirstDecision, ApiRaises, bench
<1>6. CASE ApiDies \/ \E r \in table : EndTask(r)
  BY <1>2, <1>6 DEF ApiDies, EndTask, bench
<1>7. CASE Tick \/ Settle
  BY <1>2, <1>7 DEF Tick, Settle, bench
<1>8. CASE UNCHANGED vars
  BY <1>2, <1>8 DEF vars
<1> QED
  BY <1>2, <1>3, <1>4, <1>5, <1>6, <1>7, <1>8 DEF Next

(* D-24 as it is computed is D-24 as it is defined, for every execution,   *)
(* every percentile and every k: no thread that numbers its order late and *)
(* no task that ends before another can move it.                           *)
THEOREM RecoveryAlwaysEarliest == Spec => []RecoveryIsEarliest
<1>1. RecoveryInvariant /\ [Next]_vars => RecoveryInvariant'
  BY NumberingNext, InstantsStep, CollectedStep DEF RecoveryInvariant
<1>2. RecoveryInvariant => RecoveryIsEarliest
  BY RecoveryFound DEF RecoveryInvariant
<1>3. Spec => []RecoveryInvariant
  BY <1>1, RecoveryInit, PTL DEF Spec
<1> QED
  BY <1>2, <1>3, PTL
================================================================================
