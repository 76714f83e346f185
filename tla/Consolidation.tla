---------------------------- MODULE Consolidation ----------------------------
(***************************************************************************)
(* The recovery of an execution from its fault (D-24), computed from the   *)
(* files that the load left.                                               *)
(***************************************************************************)
EXTENDS WorkloadProperties, FiniteSetsExt, SequencesExt

CONSTANT WindowTasks  \* largest k of D-24

ASSUME ConsolidationAssumption == WindowTasks \in Nat \ {0}

(* sorted(): the rows by a key no two of them have.                        *)
InOrder(rows, Before(_, _)) ==
  CHOOSE s \in [1 .. Cardinality(rows) -> rows] :
    \A i, j \in 1 .. Cardinality(rows) : i < j => Before(s[i], s[j])

E2e(r) == r.finished - r.created

(* The percentile 95 of the latencies, linearly interpolated, in 1/20 of   *)
(* the unit of time.                                                       *)
P95(rows) ==
  LET ordered  == InOrder(rows, LAMBDA r, s : \/ E2e(r) < E2e(s)
                                              \/ E2e(r) = E2e(s) /\ r.number < s.number)
      position == (Len(ordered) - 1) * 19
      low      == 1 + position \div 20
      high     == 1 + (position + 19) \div 20
      lowest   == E2e(ordered[low])
  IN  20 * lowest + (E2e(ordered[high]) - lowest) * (position % 20)

(* task_outcomes: by instant of creation, then by number.                  *)
ByCreation(r, s) ==
  \/ r.created < s.created
  \/ r.created = s.created /\ r.number < s.number

Baseline == {r \in tasks : r.status = "COMPLETED" /\ r.created < window[1]}
After    == {r \in tasks : r.created >= window[2]}
Normal(r) == r.status = "COMPLETED" /\ 20 * E2e(r) <= P95(Baseline)

(* Defect: the last place of a window is not looked at. *)
PlacesButLast(after, k) == {i \in 1 .. Len(after) : i + k - 1 < Len(after)}

Places(after, k) == {i \in 1 .. Len(after) : i + k - 1 <= Len(after)}

(* The first row of the first window of k normal tasks: <<>> without one.  *)
Recovery(k) ==
  LET after   == InOrder(After, ByCreation)
      windows == {i \in Places(after, k) : \A j \in i .. i + k - 1 : Normal(after[j])}
  IN  IF windows = {} THEN <<>> ELSE <<after[Min(windows)]>>

HasReference == Len(window) = 2 /\ Baseline # {}

-----------------------------------------------------------------------------
(* Rows that follow one another in the order of creation after the fault.  *)
Consecutive(rows) ==
  \A t \in After \ rows :
    \/ \A r \in rows : ByCreation(t, r)
    \/ \A r \in rows : ByCreation(r, t)

RecoveryWindow(first, rows, k) ==
  /\ first \in rows /\ Cardinality(rows) = k /\ Consecutive(rows)
  /\ \A r \in rows : Normal(r) /\ (r = first \/ ByCreation(first, r))

(* D-24: the recovery is the end of the first order of the earliest window *)
(* of k consecutive normal orders created after the fault, wherever the    *)
(* threads of the API put their numbers; there is none without a window.   *)
RecoveryIsEarliest ==
  phase = "collected" /\ HasReference =>
    \A k \in 1 .. WindowTasks :
      LET firsts == {t \in After : \E rows \in SUBSET After : RecoveryWindow(t, rows, k)}
      IN  IF firsts = {} THEN Recovery(k) = <<>>
          ELSE /\ Recovery(k) # <<>>
               /\ Recovery(k)[1] \in firsts
               /\ \A t \in firsts : t = Recovery(k)[1] \/ ByCreation(Recovery(k)[1], t)
               /\ Recovery(k)[1].finished >= window[2]
=============================================================================
