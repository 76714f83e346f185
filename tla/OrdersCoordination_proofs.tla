---------------------- MODULE OrdersCoordination_proofs ----------------------
(***************************************************************************)
(* What a decision point can end with, for every proposal and every state, *)
(* the types of the coordination of orders, and how it keeps to the        *)
(* lifecycle of a task, for any number of tasks, any limits, any engine    *)
(* and any number of crashes and lost or repeated messages.                *)
(*                                                                         *)
(* The inductive invariant is Coordinated: a decision is executed on the   *)
(* row its validator saw, because no second handler is at a decision point *)
(* of the same task.  Between the API process and the worker that is       *)
(* AloneAtFirst; between two messages of the worker it is that there is    *)
(* only one worker.                                                        *)
(***************************************************************************)
EXTENDS OrdersProperties, WellFoundedInduction, TLAPS

-----------------------------------------------------------------------------
(* Decision points.                                                        *)

(* A set of numbers has a least one.                                       *)
LEMMA LeastNumber ==
  ASSUME NEW S, S \subseteq Nat, S # {}
  PROVE  \E m \in S : \A j \in S : m <= j
<1> DEFINE less == OpToRel(<, Nat)
<1>1. PICK m \in S : \A j \in S : <<j, m>> \notin less
  <2> HIDE DEF less
  <2>1. IsWellFoundedOn(less, Nat)
    BY NatLessThanWellFounded DEF less
  <2>2. QED
    BY <2>1, WFMin
<1>2. \A j \in S : ~(j < m)
  BY <1>1 DEF OpToRel
<1>3. QED
  BY <1>2

(* FirstMatch returns an alternative whose condition holds, and the        *)
(* condition of every alternative before it does not.                      *)
LEMMA FirstMatchIsFirst ==
  ASSUME NEW alternatives, NEW n \in Nat, DOMAIN alternatives = 1 .. n,
         NEW k \in 1 .. n, alternatives[k].when
  PROVE  \E i \in 1 .. n :
           /\ alternatives[i].when
           /\ \A j \in 1 .. n : alternatives[j].when => i <= j
           /\ FirstMatch(alternatives) = alternatives[i].then
<1> DEFINE holds == {i \in DOMAIN alternatives : alternatives[i].when}
<1>1. PICK m \in holds : \A j \in holds : m <= j
  <2>1. holds \subseteq Nat /\ holds # {}
    OBVIOUS
  <2>2. QED
    <3> HIDE DEF holds
    <3>1. QED
      BY <2>1, LeastNumber
<1>2. (CHOOSE i \in holds : \A j \in holds : i <= j) \in holds
      /\ \A j \in holds : (CHOOSE i \in holds : \A l \in holds : i <= l) <= j
  BY <1>1
<1>3. QED
  BY <1>2 DEF FirstMatch

(* A proposal the validator accepts.                                       *)
LEMMA Accepted ==
  ASSUME NEW p, NEW s, FirstError(p, s) = None
  PROVE  /\ p.action \in Actions /\ p.target \in Targets /\ p.reason # None
         /\ p.action = "CONTINUE" => p.target # Fallback
         /\ ~RepeatsDispatch(p, s)
         /\ ~ExceedsAttempts(p, s)
         /\ p.action = "RETRY" => p.target = s.currentTarget /\ p.target = Primary
         /\ p.action = "FALLBACK" => p.target = Fallback /\ ~s.fallbackUsed
         /\ ~ForbidsTarget(p)
         /\ ~(p.action = "WAIT" /\ s.waits >= MaxWaits)
         /\ s.phase \notin TerminalStatuses
<1> DEFINE rules == ErrorRules(p, s)
<1>1. DOMAIN rules = 1 .. 17 /\ rules[17].when
  BY DEF ErrorRules
<1>2. FirstMatch(rules) = None
  BY DEF FirstError
<1>3. PICK i \in 1 .. 17 : /\ \A j \in 1 .. 17 : rules[j].when => i <= j
                           /\ rules[i].then = None
  <2> HIDE DEF rules
  <2>1. 17 \in Nat /\ 17 \in 1 .. 17
    OBVIOUS
  <2>2. \E i \in 1 .. 17 : /\ rules[i].when
                           /\ \A j \in 1 .. 17 : rules[j].when => i <= j
                           /\ FirstMatch(rules) = rules[i].then
    BY <1>1, <2>1, FirstMatchIsFirst, Zenon
  <2>3. QED
    BY <1>2, <2>2
<1>4. i = 17
  <2>1. \A j \in 1 .. 16 : rules[j].then # None
    BY DEF ErrorRules, None
  <2> HIDE DEF rules
  <2> QED
    BY <1>3, <2>1
<1>5. \A j \in 1 .. 16 : ~rules[j].when
  <2> HIDE DEF rules
  <2> QED
    BY <1>3, <1>4
<1>6. /\ p # NoProposal /\ p.action \in Actions /\ p.target \in Targets /\ p.reason # None
      /\ ~(p.action = "CONTINUE" /\ p.target = Fallback)
      /\ ~RepeatsDispatch(p, s) /\ ~ExceedsAttempts(p, s)
      /\ ~(p.action = "RETRY" /\ (p.target = None \/ p.target # s.currentTarget))
      /\ ~(p.action = "RETRY" /\ p.target = Fallback)
      /\ ~(p.action = "FALLBACK" /\ s.fallbackUsed)
      /\ ~(p.action = "FALLBACK" /\ p.target # Fallback)
      /\ ~ForbidsTarget(p)
      /\ ~(p.action = "WAIT" /\ s.waits >= MaxWaits)
      /\ s.phase \notin TerminalStatuses
  <2>1. /\ ~rules[1].when /\ ~rules[2].when /\ ~rules[3].when /\ ~rules[4].when
        /\ ~rules[6].when /\ ~rules[7].when /\ ~rules[8].when /\ ~rules[9].when
        /\ ~rules[10].when /\ ~rules[12].when /\ ~rules[13].when /\ ~rules[14].when
        /\ ~rules[15].when /\ ~rules[16].when
    <3> HIDE DEF rules
    <3> QED
      BY <1>5
  <2>2. QED
    BY <2>1 DEF ErrorRules
<1>7. QED
  BY <1>6 DEF Targets, Routes

(* resolve_action never raises: whatever the engine proposed, and whatever *)
(* the validator said, the decision that is executed meets the contract of *)
(* shared.decision.Decision.                                               *)
THEOREM ExecutedMeetsContract ==
  ASSUME NEW p, NEW s, NEW timedOut \in BOOLEAN
  PROVE  MeetsContract(ResolveAction(p, Validate(p, s, timedOut)))
<1> DEFINE error == Validate(p, s, timedOut)
<1>1. CASE error # None
  BY <1>1 DEF ResolveAction, MeetsContract, Decide, Actions, Targets, None
<1>2. CASE error = None
  <2>1. FirstError(p, s) = None /\ ResolveAction(p, error) = p
    BY <1>2 DEF Validate, ResolveAction, None
  <2>2. QED
    BY <2>1, Accepted DEF MeetsContract, ForbidsTarget, None, Primary, Fallback
<1>3. QED
  BY <1>1, <1>2

(* A decision other than ABORT that is executed was within the limits and  *)
(* on the right route of the state it was taken from.                      *)
THEOREM ExecutedWithinLimits ==
  ASSUME NEW p, NEW s, s.attempt \in Nat, s.waits \in Nat, NEW timedOut \in BOOLEAN
  PROVE  LET d == ResolveAction(p, Validate(p, s, timedOut))
         IN  /\ d.action = "CONTINUE" => s.currentTarget = None
             /\ d.action = "RETRY"    => s.currentTarget = Primary /\ s.attempt < MaxAttempts
             /\ d.action = "WAIT"     => s.waits < MaxWaits
             /\ d.action = "FALLBACK" => d.target = Fallback /\ ~s.fallbackUsed
             /\ d.action # "ABORT"    => s.phase \notin TerminalStatuses
<1> DEFINE error == Validate(p, s, timedOut)
<1>1. CASE error # None
  BY <1>1 DEF ResolveAction, Decide
<1>2. CASE error = None
  <2>1. FirstError(p, s) = None /\ ResolveAction(p, error) = p
    BY <1>2 DEF Validate, ResolveAction, None
  <2>2. QED
    BY <2>1, Accepted, LimitsAssumption DEF RepeatsDispatch, ExceedsAttempts
<1>3. QED
  BY <1>1, <1>2

(* The policy always proposes one of the five actions on a known route.    *)
LEMMA PolicyType ==
  ASSUME NEW s, s.currentTarget \in Targets
  PROVE  RulesPolicy(s) \in Decisions
<1> DEFINE rules == PolicyRules(s)
<1>1. DOMAIN rules = 1 .. 12 /\ rules[12].when
  BY DEF PolicyRules
<1>2. \A i \in 1 .. 12 : rules[i].then \in Decisions
  <2>1. \A action \in Actions, target \in Targets, reason \in ReasonCodes :
          Decide(action, target, reason) \in Decisions
    BY DEF Decide, Decisions
  <2>2. /\ s.currentTarget \in Targets /\ None \in Targets /\ Fallback \in Targets
        /\ Primary \in Targets
    BY DEF Targets, Routes
  <2>3. \A i \in 1 .. 12 : \E action \in Actions, target \in Targets, reason \in ReasonCodes :
          rules[i].then = Decide(action, target, reason)
    BY <2>2 DEF PolicyRules, Actions, ReasonCodes
  <2>4. QED
    BY <2>1, <2>3
<1>3. \E i \in 1 .. 12 : FirstMatch(rules) = rules[i].then
  <2> HIDE DEF rules
  <2>1. 12 \in Nat /\ 12 \in 1 .. 12
    OBVIOUS
  <2>2. QED
    BY <1>1, <2>1, FirstMatchIsFirst, Zenon
<1>4. QED
  <2> HIDE DEF rules
  <2>1. FirstMatch(rules) \in Decisions
    BY <1>2, <1>3
  <2>2. QED
    BY <2>1 DEF rules, RulesPolicy

(* And what is executed is a decision whenever what was proposed is a      *)
(* record of three words.                                                  *)
LEMMA ExecutedType ==
  ASSUME NEW p, NEW s, NEW timedOut \in BOOLEAN,
         \E words : p \in [action: words, target: words, reason: ReasonCodes \cup {None}]
  PROVE  ResolveAction(p, Validate(p, s, timedOut))
           \in Decisions
<1> DEFINE error == Validate(p, s, timedOut)
<1>1. CASE error # None
  <2>1. \E reason \in ReasonCodes : ResolveAction(p, error) = Decide("ABORT", None, reason)
    BY <1>1 DEF ResolveAction, ReasonCodes
  <2>2. QED
    BY <2>1 DEF Decide, Decisions, Actions, Targets
<1>2. CASE error = None
  <2>1. FirstError(p, s) = None /\ ResolveAction(p, error) = p
    BY <1>2 DEF Validate, ResolveAction, None
  <2>2. p.action \in Actions /\ p.target \in Targets /\ p.reason # None
    BY <2>1, Accepted
  <2>3. QED
    BY <2>1, <2>2 DEF Decisions
<1>3. QED
  BY <1>1, <1>2

(* A proposal nothing is wrong with.                                       *)
LEMMA NothingWrong ==
  ASSUME NEW p, NEW s, \A j \in 1 .. 16 : ~ErrorRules(p, s)[j].when
  PROVE  FirstError(p, s) = None
<1> DEFINE rules == ErrorRules(p, s)
<1>1. DOMAIN rules = 1 .. 17 /\ rules[17].when /\ rules[17].then = None
  BY DEF ErrorRules
<1>2. PICK i \in 1 .. 17 : rules[i].when /\ FirstMatch(rules) = rules[i].then
  <2> HIDE DEF rules
  <2>1. 17 \in Nat /\ 17 \in 1 .. 17
    OBVIOUS
  <2> QED
    BY <1>1, <2>1, FirstMatchIsFirst, Zenon
<1>3. i = 17
  <2> HIDE DEF rules
  <2> QED
    BY <1>2 DEF rules
<1> QED
  BY <1>1, <1>2, <1>3 DEF FirstError

(* What the policy proposes: the first of its rules that applies.          *)
LEMMA PolicyDecides ==
  ASSUME NEW s
  PROVE  \E i \in 1 .. 12 :
           /\ PolicyRules(s)[i].when /\ RulesPolicy(s) = PolicyRules(s)[i].then
           /\ \A j \in 1 .. 12 : PolicyRules(s)[j].when => i <= j
<1> DEFINE rules == PolicyRules(s)
<1>1. DOMAIN rules = 1 .. 12 /\ rules[12].when
  BY DEF PolicyRules
<1>2. 12 \in Nat /\ 12 \in 1 .. 12
  OBVIOUS
<1> HIDE DEF rules
<1>3. \E i \in 1 .. 12 : /\ rules[i].when
                         /\ \A j \in 1 .. 12 : rules[j].when => i <= j
                         /\ FirstMatch(rules) = rules[i].then
  BY <1>1, <1>2, FirstMatchIsFirst, Zenon
<1> QED
  BY <1>3 DEF rules, RulesPolicy

(* A state the engine of rules may be asked about: without a result the    *)
(* task was not dispatched yet, and a transient one is of the primary      *)
(* route.                                                                  *)
Fits(lastResult, target) ==
  /\ lastResult # "ok"
  /\ lastResult = None => target = None
  /\ lastResult \in TransientResults => target = Primary

(* In such a state the policy and the validator agree: what the policy     *)
(* proposes is never refused, and one of its rules is about the state.     *)
THEOREM PolicyAccepted ==
  ASSUME NEW s, s.attempt \in Nat, s.waits \in Nat, s.elapsed \in Nat,
         s.fallbackAvailable \in BOOLEAN, s.fallbackUsed \in BOOLEAN,
         s.lastResult \in TaskResults \cup {None}, s.currentTarget \in Targets,
         s.phase \in ActiveStatuses, Fits(s.lastResult, s.currentTarget),
         s.currentTarget = None => s.phase \in {"PENDING", "WAITING"}
  PROVE  FirstError(RulesPolicy(s), s) = None /\ RulesPolicy(s).reason # "UNMAPPED_STATE"
<1> DEFINE rules == PolicyRules(s)
           p == RulesPolicy(s)
<1>1. PICK i \in 1 .. 12 : /\ rules[i].when /\ p = rules[i].then
                           /\ \A j \in 1 .. 12 : rules[j].when => i <= j
  BY PolicyDecides
<1>2. ASSUME NEW action \in Actions, NEW target \in Targets, NEW reason \in ReasonCodes,
             p = Decide(action, target, reason), reason # "UNMAPPED_STATE",
             action # "ABORT" => s.elapsed < TaskDeadline,
             action = "CONTINUE" => target = Primary /\ s.currentTarget = None,
             action = "RETRY" => /\ target = Primary /\ s.currentTarget = Primary
                                 /\ s.attempt < MaxAttempts,
             action = "WAIT" => target = None /\ s.waits < MaxWaits,
             action = "FALLBACK" =>
               target = Fallback /\ s.fallbackAvailable /\ ~s.fallbackUsed,
             action = "ABORT" => target = None
      PROVE  FirstError(p, s) = None /\ p.reason # "UNMAPPED_STATE"
  <2>1. p.action = action /\ p.target = target /\ p.reason = reason /\ p # NoProposal
    BY <1>2 DEF Decide, NoProposal, Actions
  <2>2. reason # None /\ s.phase \notin TerminalStatuses
    BY DEF ReasonCodes, None, ActiveStatuses, TerminalStatuses
  <2> HIDE DEF p
  <2>3. /\ ~RepeatsDispatch(p, s) /\ ~ExceedsAttempts(p, s) /\ ~ForbidsTarget(p)
        /\ ~(s.elapsed >= TaskDeadline /\ p.action # "ABORT")
        /\ ~(p.action = "WAIT" /\ s.waits >= MaxWaits)
    BY <1>2, <2>1, LimitsAssumption DEF RepeatsDispatch, ExceedsAttempts, ForbidsTarget
  <2>4. /\ ~(p.action = "CONTINUE" /\ p.target = Fallback)
        /\ ~(p.action = "RETRY" /\ (p.target = None \/ p.target # s.currentTarget))
        /\ ~(p.action = "RETRY" /\ p.target = Fallback)
        /\ ~(p.action = "FALLBACK" /\ ~s.fallbackAvailable)
        /\ ~(p.action = "FALLBACK" /\ s.fallbackUsed)
        /\ ~(p.action = "FALLBACK" /\ p.target # Fallback)
    BY <1>2, <2>1 DEF Primary, Fallback, None
  <2>5. /\ p # NoProposal /\ p.action \in Actions /\ p.target \in Targets /\ p.reason # None
    BY <2>1, <2>2
  <2>6. \A j \in 1 .. 16 : ~ErrorRules(p, s)[j].when
    <3> DEFINE errors == ErrorRules(p, s)
    <3>1. /\ ~errors[1].when /\ ~errors[2].when /\ ~errors[3].when /\ ~errors[4].when
          /\ ~errors[5].when /\ ~errors[6].when /\ ~errors[7].when /\ ~errors[8].when
          /\ ~errors[9].when /\ ~errors[10].when /\ ~errors[11].when /\ ~errors[12].when
          /\ ~errors[13].when /\ ~errors[14].when /\ ~errors[15].when /\ ~errors[16].when
      BY <2>2, <2>3, <2>4, <2>5 DEF ErrorRules
    <3>2. \A j \in 1 .. 16 : ~errors[j].when
      <4> HIDE DEF errors
      <4> QED
        BY <3>1
    <3> QED
      BY <3>2
  <2> QED
    BY <1>2, <2>1, <2>6, NothingWrong
<1>3. None \in Targets /\ Primary \in Targets /\ Fallback \in Targets
  BY DEF Targets, Routes
<1>4. ASSUME NEW reason \in ReasonCodes, reason # "UNMAPPED_STATE",
             p = Decide("ABORT", None, reason)
      PROVE  FirstError(p, s) = None /\ p.reason # "UNMAPPED_STATE"
  BY <1>2, <1>3, <1>4 DEF Actions
<1>5. ASSUME i > 1 PROVE s.elapsed < TaskDeadline
  <2>1. ~rules[1].when
    BY <1>1, <1>5
  <2>2. ~(s.elapsed >= TaskDeadline)
    BY <2>1 DEF PolicyRules
  <2> QED
    BY <2>2, LimitsAssumption
<1>6. CASE i \in {1, 2, 3, 5, 7, 10}
  <2>1. \E reason \in ReasonCodes \ {"UNMAPPED_STATE"} : p = Decide("ABORT", None, reason)
    BY <1>1, <1>6 DEF PolicyRules, ReasonCodes
  <2> QED
    BY <1>4, <2>1
<1>7. CASE i \in {4, 6}
  <2>1. /\ s.waits < MaxWaits
        /\ \E reason \in ReasonCodes \ {"UNMAPPED_STATE"} : p = Decide("WAIT", None, reason)
    BY <1>1, <1>7 DEF PolicyRules, ReasonCodes
  <2> QED
    BY <1>2, <1>3, <1>5, <1>7, <2>1 DEF Actions
<1>8. CASE i = 8
  <2>1. /\ MayRetry(s)
        /\ p = Decide("RETRY", s.currentTarget, "TRANSIENT_RETRY")
    BY <1>1, <1>8 DEF PolicyRules
  <2>2. s.currentTarget = Primary /\ s.attempt < MaxAttempts
    BY <2>1 DEF MayRetry, Fits
  <2> QED
    BY <1>2, <1>3, <1>5, <1>8, <2>1, <2>2 DEF Actions, ReasonCodes
<1>9. CASE i = 9
  <2>1. /\ s.fallbackAvailable /\ ~s.fallbackUsed
        /\ p = Decide("FALLBACK", Fallback, "PRIMARY_EXHAUSTED")
    BY <1>1, <1>9 DEF PolicyRules
  <2> QED
    BY <1>2, <1>3, <1>5, <1>9, <2>1 DEF Actions, ReasonCodes
<1>10. CASE i \in {11, 12}
  <2>1. ~rules[2].when /\ ~rules[3].when /\ ~rules[10].when
    BY <1>1, <1>10
  <2>2. s.lastResult = None
    BY <2>1 DEF PolicyRules, Fits, TaskResults
  <2>3. s.currentTarget = None /\ s.phase \in {"PENDING", "WAITING"}
    BY <2>2 DEF Fits
  <2>4. rules[11].when
    BY <2>3 DEF PolicyRules
  <2>5. p = Decide("CONTINUE", Primary, "NORMAL_FLOW")
    BY <1>1, <1>10, <2>4 DEF PolicyRules
  <2> QED
    BY <1>2, <1>3, <1>5, <1>10, <2>3, <2>5 DEF Actions, ReasonCodes
<1> QED
  BY <1>6, <1>7, <1>8, <1>9, <1>10

-----------------------------------------------------------------------------
(* The helpers return rows and messages.                                   *)

(* A numbered row is a row.                                                *)
LEMMA NumberedType ==
  ASSUME NEW row \in TaskRow
  PROVE  Numbered(row) \in TaskRow
BY DEF Numbered, TaskRow

(* A row of the own trajectory is an event.                                *)
LEMMA OwnEventType ==
  ASSUME NEW row \in TaskRow, NEW type \in EventTypes, NEW ref \in Nat
  PROVE  OwnEvent(type, ref, row) \in EventRow
BY DEF OwnEvent, EventRow, TaskRow

(* A reply is recorded as an event.                                        *)
LEMMA ReplyEventType ==
  ASSUME NEW m \in Message, IsReply(m), NEW seq \in Nat, NEW redelivered \in BOOLEAN
  PROVE  ReplyEvent(m, seq, redelivered) \in EventRow
BY DEF ReplyEvent, EventRow, Message, IsReply, Reported, EventTypes

(* An internal message is a message.                                       *)
LEMMA InternalMessageType ==
  ASSUME NEW t \in Tasks, NEW ref \in Nat,
         NEW kind \in {"timeout_check", "dispatch_attempt", "reevaluate"}
  PROVE  InternalMessage(kind, t, ref) \in Message
BY DEF InternalMessage, Message, Kinds, Targets

(* What _publish_request leaves to send are two messages.                  *)
LEMMA RequestMessagesType ==
  ASSUME NEW t \in Tasks, NEW row \in TaskRow
  PROVE  RequestMessages(t, row) \in Seq(Message)
<1>1. [kind |-> "REQUESTED", task |-> t, ref |-> row.seq, attempt |-> row.attempt,
       target |-> row.target, reason |-> None, redelivered |-> FALSE] \in Message
  BY DEF Message, Kinds, TaskRow
<1>2. InternalMessage("timeout_check", t, row.seq) \in Message
  BY InternalMessageType DEF TaskRow
<1>3. QED
  BY <1>1, <1>2 DEF RequestMessages

(* The answer to a request is a message.                                   *)
LEMMA AnswerType ==
  ASSUME NEW m \in Message, NEW outcome \in {"ok", "transient_error", "invalid_data"}
  PROVE  Answer(m, outcome) \in Message
BY DEF Answer, Message, Kinds, Reported, TaskResults, TransientResults

(* A transaction that writes a row and events keeps the tables typed.      *)
LEMMA WriteType ==
  ASSUME DatabaseType, NEW t \in Tasks, NEW row \in TaskRow, NEW rows \in Seq(EventRow),
         Write(t, row, rows)
  PROVE  /\ task' \in [Tasks -> TaskRow]
         /\ events' \in [Tasks -> Seq(EventRow)]
<1>1. events[t] \in Seq(EventRow)
  BY DEF DatabaseType
<1>2. events[t] \o rows \in Seq(EventRow)
  BY <1>1
<1>3. QED
  BY <1>2 DEF DatabaseType, Write

(* The control state of one actor is replaced.                             *)
LEMMA ActorReplaced ==
  ASSUME ActorType, NEW a \in Actors, NEW r \in ActorState,
         actor' = [actor EXCEPT ![a] = r],
         r.pc \notin {"idle", "done"} => r.task \in Tasks,
         r.pc = "execute" => MeetsContract(r.decision),
         a = Worker => r.pc # "done" /\ (r.pc # "idle" => r.msg \in Message)
  PROVE  ActorType'
<1>1. actor' \in [Actors -> ActorState]
  BY DEF ActorType
<1>2. \A b \in Actors : actor'[b] = IF b = a THEN r ELSE actor[b]
  BY DEF ActorType
<1>3. ASSUME NEW b \in Actors
      PROVE  /\ InRequest(b)' => actor'[b].task \in Tasks
             /\ At(b, "execute")' => MeetsContract(actor'[b].decision)
  BY <1>2 DEF ActorType, InRequest, At
<1>4. Worker \in Actors
  BY DEF Actors
<1>5. ~At(Worker, "done")' /\ (InRequest(Worker)' => actor'[Worker].msg \in Message)
  BY <1>2, <1>4 DEF ActorType, InRequest, At
<1>6. QED
  BY <1>1, <1>3, <1>5 DEF ActorType, MeetsContract

(* The empty decision fits an actor.                                       *)
LEMMA NoDecisionType ==
  NoDecision \in [action: Actions \cup {"none"}, target: Targets, reason: ReasonCodes \cup {None}]
BY DEF NoDecision, Decide, Targets

(* So do the idle and the finished actor.                                  *)
LEMMA FreeType ==
  /\ Free \in ActorState /\ Free.pc = "idle"
  /\ Finished \in ActorState /\ Finished.pc = "done"
<1>1. <<>> \in Seq(Message)
  OBVIOUS
<1>2. Free \in ActorState /\ Free.pc = "idle"
  BY <1>1, NoDecisionType DEF Free, ActorState
<1>3. QED
  BY <1>2 DEF Finished, ActorState

(* A committed handler with messages left to send.                         *)
LEMMA ThenSendType ==
  ASSUME ActorType, NEW a \in Actors, At(a, "execute"), NEW messages \in Seq(Message),
         ThenSend(a, messages)
  PROVE  ActorType'
<1> DEFINE r == [actor[a] EXCEPT !.pc = "effects", !.decision = NoDecision,
                                 !.effects = messages]
<1>1. actor[a] \in ActorState /\ actor[a].task \in Tasks
      /\ (a = Worker => actor[a].msg \in Message)
  BY DEF ActorType, At, InRequest
<1>2. r \in ActorState /\ r.pc = "effects" /\ r.task = actor[a].task
      /\ r.msg = actor[a].msg
  BY <1>1, NoDecisionType DEF ActorState
<1>3. actor' = [actor EXCEPT ![a] = r]
  BY DEF ThenSend
<1> HIDE DEF r
<1>4. QED
  BY <1>1, <1>2, <1>3, ActorReplaced

(* The worker after the first transaction of a handler.                    *)
LEMMA BeginType ==
  ASSUME ActorType, BrokerType, NEW m, NEW pc \in {"build", "effects"},
         NEW messages \in Seq(Message), Begin(m, pc, messages)
  PROVE  /\ ActorType'
         /\ inbox' \subseteq Message
<1> DEFINE r == [pc |-> pc, task |-> m.task, msg |-> m,
                 decision |-> NoDecision, effects |-> messages]
<1>1. m \in Message /\ m.task \in Tasks
  BY DEF BrokerType, Begin, Message
<1>2. r \in ActorState
  BY <1>1, NoDecisionType DEF ActorState
<1>3. Worker \in Actors /\ actor' = [actor EXCEPT ![Worker] = r]
  BY DEF Begin, Actors
<1>4. ActorType'
  <2> HIDE DEF r
  <2>1. r.pc \in {"build", "effects"} /\ r.task \in Tasks /\ r.msg \in Message
    BY <1>1 DEF r
  <2>2. QED
    BY <1>2, <1>3, <2>1, ActorReplaced
<1>5. QED
  BY <1>4 DEF BrokerType, Begin

-----------------------------------------------------------------------------
(* What a decision point leaves to be executed is a decision that meets    *)
(* its contract, by either engine.                                         *)
LEMMA OutputType ==
  ASSUME ActorsAssumption, NEW s, s.currentTarget \in Targets, NEW o \in EngineOutputs(s)
  PROVE  /\ o.timedOut \in BOOLEAN
         /\ \E words : o.proposal \in [action: words, target: words,
                                      reason: ReasonCodes \cup {None}]
<1> DEFINE words == Actions \cup Targets \cup {Invented, "unreadable"}
<1>1. RulesPolicy(s) \in Decisions
  BY PolicyType
<1>2. Decisions \subseteq [action: words, target: words, reason: ReasonCodes \cup {None}]
  BY DEF Decisions
<1>3. Proposals \subseteq [action: words, target: words, reason: ReasonCodes \cup {None}]
  BY DEF Proposals, NoProposal, Decide, Actions, Targets, ReasonCodes
<1>4. NoProposal \in Proposals
  BY DEF Proposals
<1>5. o.timedOut \in BOOLEAN /\ o.proposal \in Decisions \cup Proposals
  <2>1. \/ o \in {[proposal |-> RulesPolicy(s), timedOut |-> FALSE]}
        \/ o \in [proposal: Proposals, timedOut: {FALSE}]
        \/ o \in {[proposal |-> NoProposal, timedOut |-> TRUE]}
    BY Zenon DEF EngineOutputs
  <2>2. CASE o = [proposal |-> RulesPolicy(s), timedOut |-> FALSE]
    BY <1>1, <2>2
  <2>3. CASE o \in [proposal: Proposals, timedOut: {FALSE}]
    BY <2>3
  <2>4. CASE o = [proposal |-> NoProposal, timedOut |-> TRUE]
    BY <1>4, <2>4
  <2>5. QED
    BY <2>1, <2>2, <2>3, <2>4
<1>6. o.proposal \in [action: words, target: words, reason: ReasonCodes \cup {None}]
  BY <1>2, <1>3, <1>5
<1>7. QED
  BY <1>5, <1>6

(* Whatever the engine proposes, what is executed is a decision.           *)
LEMMA DecidedType ==
  ASSUME DatabaseType, NEW t \in Tasks, NEW s \in Snapshots(t), NEW o \in EngineOutputs(s)
  PROVE  /\ Executed(s, o) \in Decisions
         /\ MeetsContract(Executed(s, o))
<1>1. s.currentTarget \in Targets
  BY DEF Snapshots, Snapshot, DatabaseType, TaskRow
<1>2. /\ o.timedOut \in BOOLEAN
      /\ \E words : o.proposal \in [action: words, target: words,
                                   reason: ReasonCodes \cup {None}]
  BY <1>1, OutputType, ActorsAssumption
<1>3. QED
  BY <1>2, ExecutedType, ExecutedMeetsContract DEF Executed

-----------------------------------------------------------------------------
(* Each action keeps the types.                                            *)

(* The order statuses of the task statuses.                                *)
LEMMA StatusTypes ==
  /\ {"PENDING", "DISPATCHED", "WAITING", "RETRYING", "FALLBACK_PROCESSING", "COMPLETED",
      "ABORTED", "DEAD_LETTERED"} = TaskStatuses
  /\ \A status : OrderStatusFor(status) \in OrderStatuses
BY DEF TaskStatuses, ActiveStatuses, TerminalStatuses, OrderStatusFor, OrderStatuses

(* create_order_with_task.                                                 *)
LEMMA CreateOrderType ==
  ASSUME TypeOK, NEW t \in Tasks, CreateOrder(t)
  PROVE  TypeOK'
<1> DEFINE row == [AbsentRow EXCEPT !.status = "PENDING", !.seq = 1]
           r   == [Free EXCEPT !.pc = "build", !.task = t]
<1>1. row \in TaskRow
  BY StatusTypes DEF AbsentRow, TaskRow, Targets
<1>2. <<OwnEvent("TASK_CREATED", 0, row)>> \in Seq(EventRow)
  <2>1. OwnEvent("TASK_CREATED", 0, row) \in EventRow
    BY <1>1, OwnEventType DEF EventTypes
  <2>2. QED
    BY <2>1
<1>3. DatabaseType'
  <2>1. order' \in [Tasks -> OrderStatuses]
    BY DEF TypeOK, DatabaseType, CreateOrder, OrderStatuses
  <2>2. Write(t, row, <<OwnEvent("TASK_CREATED", 0, row)>>) /\ processed' = processed
    BY DEF CreateOrder
  <2> HIDE DEF row
  <2>3. QED
    BY <1>1, <1>2, <2>1, <2>2, WriteType DEF TypeOK, DatabaseType
<1>4. ActorType'
  <2>1. r \in ActorState /\ r.pc = "build" /\ r.task = t
    BY FreeType DEF ActorState
  <2>2. actor' = [actor EXCEPT ![t] = r] /\ t \in Actors /\ t # Worker
    BY ActorsAssumption DEF CreateOrder, Actors
  <2> HIDE DEF r
  <2>3. QED
    BY <2>1, <2>2, ActorReplaced DEF TypeOK
<1>5. QED
  BY <1>3, <1>4 DEF TypeOK, CreateOrder, bounds, BrokerType, BoundsType

(* A decision is taken.                                                    *)
LEMMA TakeDecisionType ==
  ASSUME TypeOK, NEW a \in Actors, TakeDecision(a)
  PROVE  TypeOK'
<1>1. PICK s \in Snapshots(actor[a].task) : \E o \in EngineOutputs(s) :
        actor' = [actor EXCEPT ![a].pc = "execute", ![a].decision = Executed(s, o)]
  BY DEF TakeDecision
<1>2. PICK o \in EngineOutputs(s) :
        actor' = [actor EXCEPT ![a].pc = "execute", ![a].decision = Executed(s, o)]
  BY <1>1
<1> DEFINE d == Executed(s, o)
           r == [actor[a] EXCEPT !.pc = "execute", !.decision = d]
<1>3. actor[a] \in ActorState /\ actor[a].task \in Tasks
      /\ (a = Worker => actor[a].msg \in Message)
  BY DEF TypeOK, ActorType, At, InRequest, TakeDecision
<1>4. d \in Decisions /\ MeetsContract(d)
  BY <1>3, DecidedType DEF TypeOK
<1>5. ActorType'
  <2> HIDE DEF d
  <2>1. d \in [action: Actions \cup {"none"}, target: Targets, reason: ReasonCodes \cup {None}]
    BY <1>4 DEF Decisions
  <2>2. r \in ActorState /\ r.pc = "execute" /\ r.task = actor[a].task
        /\ r.msg = actor[a].msg /\ r.decision = d
    BY <1>3, <2>1 DEF ActorState
  <2>3. actor' = [actor EXCEPT ![a] = r]
    BY <1>2 DEF d
  <2> HIDE DEF r
  <2>4. QED
    BY <1>3, <1>4, <2>2, <2>3, ActorReplaced DEF TypeOK
<1>6. QED
  BY <1>5 DEF TypeOK, TakeDecision, database, broker, bounds, DatabaseType, BrokerType,
              BoundsType

(* The transactions of the executor write one row and the rows of the      *)
(* trajectory, and leave messages to be sent.                              *)
LEMMA ExecutedRowType ==
  ASSUME TypeOK, NEW a \in Actors, At(a, "execute"),
         NEW row \in TaskRow, NEW rows \in Seq(EventRow), NEW messages \in Seq(Message),
         Write(actor[a].task, row, rows), ThenSend(a, messages),
         order' \in [Tasks -> OrderStatuses],
         UNCHANGED <<processed, broker, replies, expired, bounds>>
  PROVE  TypeOK'
<1>1. actor[a].task \in Tasks
  BY DEF TypeOK, ActorType, At, InRequest
<1>2. DatabaseType'
  BY <1>1, WriteType DEF TypeOK, DatabaseType
<1>3. ActorType'
  BY ThenSendType DEF TypeOK
<1>4. QED
  BY <1>2, <1>3 DEF TypeOK, broker, bounds, BrokerType, BoundsType

(* The row an executor starts from, and its order.                         *)
LEMMA ExecutorStart ==
  ASSUME TypeOK, NEW a \in Actors, At(a, "execute")
  PROVE  /\ actor[a].task \in Tasks /\ task[actor[a].task] \in TaskRow
         /\ actor[a].decision.target \in Targets
         /\ \A t \in Tasks : \A status :
              [order EXCEPT ![t] = OrderStatusFor(status)] \in [Tasks -> OrderStatuses]
<1>1. actor[a].task \in Tasks /\ actor[a].decision.target \in Targets
  BY DEF TypeOK, ActorType, ActorState, At, InRequest
<1>2. task[actor[a].task] \in TaskRow
  BY <1>1 DEF TypeOK, DatabaseType
<1>3. \A t \in Tasks : \A status :
        [order EXCEPT ![t] = OrderStatusFor(status)] \in [Tasks -> OrderStatuses]
  BY StatusTypes DEF TypeOK, DatabaseType
<1>4. QED
  BY <1>1, <1>2, <1>3

(* The changes of the executor make rows.                                  *)
LEMMA ChangedRowType ==
  ASSUME NEW row \in TaskRow
  PROVE  /\ [row EXCEPT !.status = "DISPATCHED", !.target = Primary] \in TaskRow
         /\ [row EXCEPT !.status = "RETRYING", !.attempt = @ + 1] \in TaskRow
         /\ [row EXCEPT !.status = "WAITING", !.waits = @ + 1] \in TaskRow
         /\ \A target \in Targets :
              [row EXCEPT !.status = "FALLBACK_PROCESSING", !.target = target,
                          !.fallbackUsed = TRUE] \in TaskRow
<1>1. {"DISPATCHED", "RETRYING", "WAITING", "FALLBACK_PROCESSING"} \subseteq TaskStatuses
      /\ Primary \in Targets
  BY StatusTypes DEF Targets, Routes
<1>2. row.attempt + 1 \in Nat /\ row.waits + 1 \in Nat
  BY DEF TaskRow
<1>3. QED
  BY <1>1, <1>2 DEF TaskRow

(* _continue.                                                              *)
LEMMA ExecuteContinueType ==
  ASSUME TypeOK, NEW a \in Actors, ExecuteContinue(a)
  PROVE  TypeOK'
<1> DEFINE t   == actor[a].task
           row == Numbered([task[t] EXCEPT !.status = "DISPATCHED", !.target = Primary])
<1>1. At(a, "execute")
  BY DEF ExecuteContinue, Executing
<1>2. [task[t] EXCEPT !.status = "DISPATCHED", !.target = Primary] \in TaskRow
  BY <1>1, ExecutorStart, ChangedRowType
<1>3. row \in TaskRow
  BY <1>2, NumberedType
<1>4. Write(t, row, <<RequestEvent(row)>>) /\ ThenSend(a, RequestMessages(t, row))
      /\ UNCHANGED <<order, processed, broker, replies, expired, bounds>>
  BY DEF ExecuteContinue
<1> HIDE DEF row
<1>5. RequestEvent(row) \in EventRow
  BY <1>3, OwnEventType DEF RequestEvent, EventTypes, TaskRow
<1>6. RequestMessages(t, row) \in Seq(Message)
  BY <1>1, <1>3, ExecutorStart, RequestMessagesType
<1>7. <<RequestEvent(row)>> \in Seq(EventRow)
  BY <1>5
<1>8. order' \in [Tasks -> OrderStatuses]
  BY <1>4 DEF TypeOK, DatabaseType
<1>9. QED
  BY <1>1, <1>3, <1>4, <1>6, <1>7, <1>8, ExecutedRowType

(* _retry.                                                                 *)
LEMMA ExecuteRetryType ==
  ASSUME TypeOK, NEW a \in Actors, ExecuteRetry(a)
  PROVE  TypeOK'
<1> DEFINE t   == actor[a].task
           row == Numbered([task[t] EXCEPT !.status = "RETRYING", !.attempt = @ + 1])
           rows == <<OwnEvent("RETRY_SCHEDULED", 0, row)>>
           messages == <<InternalMessage("dispatch_attempt", t, row.seq)>>
<1>1. At(a, "execute")
  BY DEF ExecuteRetry, Executing
<1>2. [task[t] EXCEPT !.status = "RETRYING", !.attempt = @ + 1] \in TaskRow
  BY <1>1, ExecutorStart, ChangedRowType
<1>3. row \in TaskRow
  BY <1>2, NumberedType
<1>4. Write(t, row, rows) /\ ThenSend(a, messages)
      /\ UNCHANGED <<order, processed, broker, replies, expired, bounds>>
  BY DEF ExecuteRetry
<1> HIDE DEF row
<1>5. OwnEvent("RETRY_SCHEDULED", 0, row) \in EventRow
  BY <1>3, OwnEventType DEF EventTypes
<1>6. InternalMessage("dispatch_attempt", t, row.seq) \in Message
  BY <1>1, <1>3, ExecutorStart, InternalMessageType DEF TaskRow
<1>7. rows \in Seq(EventRow) /\ messages \in Seq(Message)
  BY <1>5, <1>6
<1>8. order' \in [Tasks -> OrderStatuses]
  BY <1>4 DEF TypeOK, DatabaseType
<1>9. QED
  BY <1>1, <1>3, <1>4, <1>7, <1>8, ExecutedRowType

(* _wait.                                                                  *)
LEMMA ExecuteWaitType ==
  ASSUME TypeOK, NEW a \in Actors, ExecuteWait(a)
  PROVE  TypeOK'
<1> DEFINE t   == actor[a].task
           row == Numbered([task[t] EXCEPT !.status = "WAITING", !.waits = @ + 1])
           rows == <<OwnEvent("WAIT_SCHEDULED", row.waits, row)>>
           messages == <<InternalMessage("reevaluate", t, row.waits)>>
<1>1. At(a, "execute")
  BY DEF ExecuteWait, Executing
<1>2. [task[t] EXCEPT !.status = "WAITING", !.waits = @ + 1] \in TaskRow
  BY <1>1, ExecutorStart, ChangedRowType
<1>3. row \in TaskRow
  BY <1>2, NumberedType
<1>4. Write(t, row, rows) /\ ThenSend(a, messages)
      /\ UNCHANGED <<order, processed, broker, replies, expired, bounds>>
  BY DEF ExecuteWait
<1> HIDE DEF row
<1>5. OwnEvent("WAIT_SCHEDULED", row.waits, row) \in EventRow
  BY <1>3, OwnEventType DEF EventTypes, TaskRow
<1>6. InternalMessage("reevaluate", t, row.waits) \in Message
  BY <1>1, <1>3, ExecutorStart, InternalMessageType DEF TaskRow
<1>7. rows \in Seq(EventRow) /\ messages \in Seq(Message)
  BY <1>5, <1>6
<1>8. order' \in [Tasks -> OrderStatuses]
  BY <1>4 DEF TypeOK, DatabaseType
<1>9. QED
  BY <1>1, <1>3, <1>4, <1>7, <1>8, ExecutedRowType

(* _fallback.                                                              *)
LEMMA ExecuteFallbackType ==
  ASSUME TypeOK, NEW a \in Actors, ExecuteFallback(a)
  PROVE  TypeOK'
<1> DEFINE t         == actor[a].task
           scheduled == Numbered([task[t] EXCEPT !.status = "FALLBACK_PROCESSING",
                                                 !.target = actor[a].decision.target,
                                                 !.fallbackUsed = TRUE])
           row       == Numbered(scheduled)
           rows      == <<OwnEvent("FALLBACK_SCHEDULED", 0, scheduled), RequestEvent(row)>>
<1>1. At(a, "execute")
  BY DEF ExecuteFallback, Executing
<1>2. [task[t] EXCEPT !.status = "FALLBACK_PROCESSING", !.target = actor[a].decision.target,
                      !.fallbackUsed = TRUE] \in TaskRow
  BY <1>1, ExecutorStart, ChangedRowType
<1>3. scheduled \in TaskRow /\ row \in TaskRow
  BY <1>2, NumberedType
<1>4. Write(t, row, rows) /\ ThenSend(a, RequestMessages(t, row))
      /\ UNCHANGED <<order, processed, broker, replies, expired, bounds>>
  BY DEF ExecuteFallback
<1> HIDE DEF row, scheduled
<1>5. OwnEvent("FALLBACK_SCHEDULED", 0, scheduled) \in EventRow
  BY <1>3, OwnEventType DEF EventTypes
<1>6. RequestEvent(row) \in EventRow
  BY <1>3, OwnEventType DEF RequestEvent, EventTypes, TaskRow
<1>7. rows \in Seq(EventRow)
  BY <1>5, <1>6
<1>8. RequestMessages(t, row) \in Seq(Message)
  BY <1>1, <1>3, ExecutorStart, RequestMessagesType
<1>9. order' \in [Tasks -> OrderStatuses]
  BY <1>4 DEF TypeOK, DatabaseType
<1>10. QED
  BY <1>1, <1>3, <1>4, <1>7, <1>8, <1>9, ExecutedRowType

(* _abort.                                                                 *)
LEMMA ExecuteAbortType ==
  ASSUME TypeOK, NEW a \in Actors, ExecuteAbort(a)
  PROVE  TypeOK'
<1> DEFINE t   == actor[a].task
           row == Numbered([task[t] EXCEPT !.status = "ABORTED"])
<1>1. At(a, "execute") /\ ThenSend(a, <<>>)
      /\ UNCHANGED <<processed, broker, replies, expired, bounds>>
  BY DEF ExecuteAbort, Executing
<1>2. CASE Terminal(t)
  <2>1. UNCHANGED <<task, order, events>>
    BY <1>2 DEF ExecuteAbort
  <2>2. ActorType'
    <3>1. <<>> \in Seq(Message)
      OBVIOUS
    <3>2. QED
      BY <1>1, <3>1, ThenSendType DEF TypeOK
  <2>3. QED
    BY <1>1, <2>1, <2>2 DEF TypeOK, DatabaseType, BrokerType, BoundsType, broker, bounds
<1>3. CASE ~Terminal(t)
  <2>1. [task[t] EXCEPT !.status = "ABORTED"] \in TaskRow
    BY <1>1, ExecutorStart, StatusTypes DEF TaskRow
  <2>2. row \in TaskRow
    BY <2>1, NumberedType
  <2>3. Write(t, row, <<OwnEvent("TASK_ABORTED", 0, row)>>)
        /\ order' = [order EXCEPT ![t] = OrderStatusFor("ABORTED")]
    BY <1>3 DEF ExecuteAbort
  <2> HIDE DEF row
  <2>4. OwnEvent("TASK_ABORTED", 0, row) \in EventRow
    BY <2>2, OwnEventType DEF EventTypes
  <2>5. <<OwnEvent("TASK_ABORTED", 0, row)>> \in Seq(EventRow) /\ <<>> \in Seq(Message)
    BY <2>4
  <2>6. order' \in [Tasks -> OrderStatuses]
    BY <1>1, <2>3, ExecutorStart
  <2>7. QED
    BY <1>1, <2>2, <2>3, <2>5, <2>6, ExecutedRowType
<1>4. QED
  BY <1>2, <1>3

(* A handler that raises.                                                  *)
LEMMA ExecuteRaisesType ==
  ASSUME TypeOK, NEW a \in Actors, Reject(a), InRequest(a),
         UNCHANGED <<database, inbox, requests, replies, expired, crashes, reemissions>>,
         failures' \in 0 .. MaxFailures, losses' \in 0 .. MaxLosses
  PROVE  TypeOK'
<1>1. ActorType'
  BY FreeType, ActorReplaced DEF TypeOK, Reject
<1>2. deadLetters' \subseteq Message
  BY DEF TypeOK, Reject, ActorType, BrokerType
<1>3. QED
  BY <1>1, <1>2 DEF TypeOK, DatabaseType, BrokerType, BoundsType, database

(* An effect.                                                              *)
LEMMA SendNextType ==
  ASSUME TypeOK, NEW a \in Actors, SendNext(a)
  PROVE  TypeOK'
<1> DEFINE m == Head(actor[a].effects)
           r == [actor[a] EXCEPT !.effects = Tail(@)]
<1>1. actor[a] \in ActorState /\ actor[a].task \in Tasks /\ actor[a].pc = "effects"
      /\ (a = Worker => actor[a].msg \in Message) /\ actor[a].effects # <<>>
  BY DEF TypeOK, ActorType, At, InRequest, SendNext
<1>2. actor[a].effects \in Seq(Message)
  BY <1>1 DEF ActorState
<1>3. m \in Message /\ Tail(actor[a].effects) \in Seq(Message)
  BY <1>1, <1>2
<1>4. r \in ActorState /\ r.pc = "effects" /\ r.task = actor[a].task
      /\ r.msg = actor[a].msg
  BY <1>1, <1>3 DEF ActorState
<1>5. actor' = [actor EXCEPT ![a] = r]
  BY DEF SendNext
<1>6. ActorType'
  <2> HIDE DEF r
  <2>1. QED
    BY <1>1, <1>4, <1>5, ActorReplaced DEF TypeOK
<1>7. inbox' \subseteq Message /\ requests' \subseteq Message
  BY <1>3 DEF SendNext, TypeOK, BrokerType
<1>8. QED
  BY <1>6, <1>7 DEF TypeOK, SendNext, database, bounds, DatabaseType, BrokerType, BoundsType

(* The handler returns.                                                    *)
LEMMA ReturnType ==
  ASSUME TypeOK, NEW a \in Actors, Return(a)
  PROVE  TypeOK'
<1>1. ActorType'
  BY FreeType, ActorReplaced DEF TypeOK, Return
<1>2. QED
  BY <1>1 DEF TypeOK, Return, database, broker, bounds, DatabaseType, BrokerType, BoundsType

-----------------------------------------------------------------------------
(* What is known of a message the worker takes.                            *)
LEMMA HandlerStart ==
  ASSUME TypeOK, NEW m \in inbox
  PROVE  /\ m \in Message /\ m.task \in Tasks /\ m.ref \in Nat /\ m.redelivered \in BOOLEAN
         /\ task[m.task] \in TaskRow
BY DEF TypeOK, BrokerType, DatabaseType, Message

(* The transaction of a handler writes one row and rows of the trajectory. *)
LEMMA HandledRowType ==
  ASSUME TypeOK, NEW m \in inbox, NEW pc \in {"build", "effects"},
         NEW row \in TaskRow, NEW rows \in Seq(EventRow), NEW messages \in Seq(Message),
         Begin(m, pc, messages), Write(m.task, row, rows),
         order' \in [Tasks -> OrderStatuses], processed' \subseteq Tasks \X Nat,
         UNCHANGED <<requests, replies, deadLetters, expired, bounds>>
  PROVE  TypeOK'
<1>1. DatabaseType'
  BY HandlerStart, WriteType DEF TypeOK, DatabaseType
<1>2. ActorType' /\ inbox' \subseteq Message
  BY BeginType DEF TypeOK
<1>3. QED
  BY <1>1, <1>2 DEF TypeOK, bounds, BrokerType, BoundsType

(* An element of a trajectory is an event.                                 *)
LEMMA ElementOfSeq ==
  ASSUME NEW S, NEW q \in Seq(S), NEW i \in DOMAIN q
  PROVE  q[i] \in S
OBVIOUS

(* A reply applied before.                                                 *)
LEMMA HandleRepeatedType ==
  ASSUME TypeOK, NEW m \in inbox, HandleRepeated(m)
  PROVE  TypeOK'
<1> DEFINE t == m.task
           first == CHOOSE i \in DOMAIN events[t] : IsFirstRowOf(t, i, m)
           row == ReplyEvent(m, events[t][first].seq, TRUE)
           rows == IF \E i \in DOMAIN events[t] : IsFirstRowOf(t, i, m) THEN <<row>> ELSE <<>>
<1>1. m \in Message /\ t \in Tasks /\ events[t] \in Seq(EventRow) /\ IsReply(m)
  BY HandlerStart DEF TypeOK, DatabaseType, HandleRepeated
<1>2. rows \in Seq(EventRow)
  <2>1. CASE \E i \in DOMAIN events[t] : IsFirstRowOf(t, i, m)
    <3>1. first \in DOMAIN events[t]
      BY <2>1
    <3>2. events[t][first].seq \in Nat
      <4> HIDE DEF first
      <4>1. events[t][first] \in EventRow
        BY <1>1, <3>1, ElementOfSeq
      <4>2. QED
        BY <4>1 DEF EventRow
    <3>3. row \in EventRow
      BY <1>1, <3>2, ReplyEventType
    <3> HIDE DEF row
    <3>4. QED
      BY <2>1, <3>3
  <2>2. CASE ~\E i \in DOMAIN events[t] : IsFirstRowOf(t, i, m)
    BY <2>2
  <2>3. QED
    BY <2>1, <2>2
<1>3. events' = [events EXCEPT ![t] = @ \o rows]
  BY DEF HandleRepeated
<1>4. Begin(m, "effects", <<>>)
      /\ UNCHANGED <<task, order, processed, requests, replies, deadLetters, expired, bounds>>
  BY DEF HandleRepeated
<1> HIDE DEF rows
<1>5. events[t] \o rows \in Seq(EventRow)
  BY <1>1, <1>2
<1>6. DatabaseType'
  BY <1>1, <1>3, <1>4, <1>5 DEF TypeOK, DatabaseType
<1>7. ActorType' /\ inbox' \subseteq Message
  <2>1. <<>> \in Seq(Message)
    OBVIOUS
  <2>2. QED
    BY <1>4, <2>1, BeginType DEF TypeOK
<1>8. QED
  BY <1>4, <1>6, <1>7 DEF TypeOK, bounds, BrokerType, BoundsType

(* A new success.                                                          *)
LEMMA HandleSucceededType ==
  ASSUME TypeOK, NEW m \in inbox, HandleSucceeded(m)
  PROVE  TypeOK'
<1> DEFINE t        == m.task
           received == Numbered(task[t])
           changed  == [received EXCEPT !.status = "COMPLETED", !.lastResult = "ok"]
           row      == Numbered(changed)
           reply    == ReplyEvent(m, received.seq, m.redelivered)
           own      == OwnEvent("TASK_COMPLETED", 0, row)
<1>1. m \in Message /\ t \in Tasks /\ task[t] \in TaskRow /\ m.ref \in Nat
      /\ m.redelivered \in BOOLEAN
  BY HandlerStart
<1>2. received \in TaskRow
  BY <1>1, NumberedType
<1>3. changed \in TaskRow
  <2> HIDE DEF received
  <2>1. "COMPLETED" \in TaskStatuses /\ "ok" \in TaskResults
    BY StatusTypes DEF TaskResults
  <2>2. QED
    BY <1>2, <2>1 DEF TaskRow
<1>4. row \in TaskRow
  BY <1>3, NumberedType
<1>5. IsReply(m) /\ received.seq \in Nat
  BY <1>2 DEF HandleSucceeded, IsReply, Reported, TaskRow
<1>6. reply \in EventRow
  BY <1>1, <1>5, ReplyEventType
<1>7. own \in EventRow
  BY <1>4, OwnEventType DEF EventTypes
<1>8. <<>> \in Seq(Message) /\ <<reply>> \in Seq(EventRow) /\ <<reply, own>> \in Seq(EventRow)
  BY <1>6, <1>7
<1>9. Begin(m, "effects", <<>>) /\ processed' \subseteq Tasks \X Nat
      /\ UNCHANGED <<requests, replies, deadLetters, expired, bounds>>
  BY <1>1 DEF HandleSucceeded, TypeOK, DatabaseType
<1>10. \/ Write(t, received, <<reply>>) /\ UNCHANGED order
       \/ /\ Write(t, row, <<reply, own>>)
          /\ order' = [order EXCEPT ![t] = OrderStatusFor("COMPLETED")]
  BY DEF HandleSucceeded
<1>11. order' \in [Tasks -> OrderStatuses]
  BY <1>10, StatusTypes DEF TypeOK, DatabaseType
<1> HIDE DEF received, row, reply, own
<1>12. QED
  BY <1>2, <1>4, <1>8, <1>9, <1>10, <1>11, HandledRowType

(* A new failure.                                                          *)
LEMMA HandleFailedType ==
  ASSUME TypeOK, NEW m \in inbox, HandleFailed(m)
  PROVE  TypeOK'
<1> DEFINE t        == m.task
           received == Numbered(task[t])
           current  == ~Terminal(t) /\ IsCurrentRequest(t, m.ref)
           result   == IF current THEN FailureResult(m) ELSE received.lastResult
           row      == [received EXCEPT !.lastResult = result]
           reply    == ReplyEvent(m, row.seq, m.redelivered)
           pc       == IF current THEN "build" ELSE "effects"
<1>1. m \in Message /\ t \in Tasks /\ task[t] \in TaskRow /\ m.ref \in Nat
      /\ m.redelivered \in BOOLEAN
  BY HandlerStart
<1>2. received \in TaskRow
  BY <1>1, NumberedType
<1>3. result \in TaskResults \cup {None}
  <2>1. FailureResult(m) \in TaskResults \cup {None}
    BY <1>1 DEF FailureResult, Message, TaskResults
  <2> HIDE DEF received
  <2>2. QED
    BY <1>2, <2>1 DEF TaskRow
<1>4. row \in TaskRow
  <2> HIDE DEF received, result
  <2>1. QED
    BY <1>2, <1>3 DEF TaskRow
<1>5. IsReply(m) /\ row.seq \in Nat
  BY <1>4 DEF HandleFailed, IsReply, Reported, TaskRow
<1>6. reply \in EventRow
  BY <1>1, <1>5, ReplyEventType
<1>7. <<>> \in Seq(Message) /\ <<reply>> \in Seq(EventRow)
  BY <1>6
<1>8. Begin(m, pc, <<>>) /\ processed' \subseteq Tasks \X Nat /\ UNCHANGED order
      /\ UNCHANGED <<requests, replies, deadLetters, expired, bounds>>
  BY <1>1 DEF HandleFailed, TypeOK, DatabaseType
<1>9. Write(t, row, <<reply>>)
  BY DEF HandleFailed
<1>10. order' \in [Tasks -> OrderStatuses] /\ pc \in {"build", "effects"}
  BY <1>8 DEF TypeOK, DatabaseType
<1> HIDE DEF row, reply, pc
<1>11. QED
  BY <1>4, <1>7, <1>8, <1>9, <1>10, HandledRowType

(* register_timeout.                                                       *)
LEMMA HandleTimeoutType ==
  ASSUME TypeOK, NEW m \in inbox, HandleTimeout(m)
  PROVE  TypeOK'
<1> DEFINE t       == m.task
           result  == IF task[t].target = Fallback THEN "fallback_failed" ELSE "timeout"
           changed == [task[t] EXCEPT !.lastResult = result]
           row     == Numbered(changed)
           own     == OwnEvent("INVENTORY_TIMEOUT", m.ref, row)
<1>1. t \in Tasks /\ task[t] \in TaskRow /\ m.ref \in Nat
  BY HandlerStart
<1>2. result \in TaskResults
  BY DEF TaskResults, TransientResults
<1>3. changed \in TaskRow
  <2> HIDE DEF result
  <2>1. QED
    BY <1>1, <1>2 DEF TaskRow
<1>4. row \in TaskRow
  BY <1>3, NumberedType
<1>5. own \in EventRow
  BY <1>1, <1>4, OwnEventType DEF EventTypes
<1>6. <<>> \in Seq(Message) /\ <<own>> \in Seq(EventRow)
  BY <1>5
<1>7. Begin(m, "build", <<>>) /\ Write(t, row, <<own>>)
      /\ UNCHANGED <<order, processed, requests, replies, deadLetters, expired, bounds>>
  BY DEF HandleTimeout
<1>8. order' \in [Tasks -> OrderStatuses] /\ processed' \subseteq Tasks \X Nat
  BY <1>7 DEF TypeOK, DatabaseType
<1> HIDE DEF row, own
<1>9. QED
  BY <1>4, <1>6, <1>7, <1>8, HandledRowType

(* finish_wait.                                                            *)
LEMMA HandleReevaluateType ==
  ASSUME TypeOK, NEW m \in inbox, HandleReevaluate(m)
  PROVE  TypeOK'
<1> DEFINE t   == m.task
           row == Numbered(task[t])
           own == OwnEvent("WAIT_FINISHED", m.ref, row)
<1>1. row \in TaskRow
  BY HandlerStart, NumberedType
<1>2. own \in EventRow
  BY <1>1, HandlerStart, OwnEventType DEF EventTypes
<1>3. <<>> \in Seq(Message) /\ <<own>> \in Seq(EventRow)
  BY <1>2
<1>4. Begin(m, "build", <<>>) /\ Write(t, row, <<own>>)
      /\ UNCHANGED <<order, processed, requests, replies, deadLetters, expired, bounds>>
  BY DEF HandleReevaluate
<1>5. order' \in [Tasks -> OrderStatuses] /\ processed' \subseteq Tasks \X Nat
  BY <1>4 DEF TypeOK, DatabaseType
<1> HIDE DEF row, own
<1>6. QED
  BY <1>1, <1>3, <1>4, <1>5, HandledRowType

(* dispatch_scheduled_attempt.                                             *)
LEMMA HandleDispatchType ==
  ASSUME TypeOK, NEW m \in inbox, HandleDispatch(m)
  PROVE  TypeOK'
<1> DEFINE t       == m.task
           changed == [task[t] EXCEPT !.status = "DISPATCHED"]
           row     == Numbered(changed)
<1>1. t \in Tasks /\ task[t] \in TaskRow
  BY HandlerStart
<1>2. changed \in TaskRow
  <2>1. "DISPATCHED" \in TaskStatuses
    BY StatusTypes
  <2>2. QED
    BY <1>1, <2>1 DEF TaskRow
<1>3. row \in TaskRow
  BY <1>2, NumberedType
<1>4. Begin(m, "effects", RequestMessages(t, row)) /\ Write(t, row, <<RequestEvent(row)>>)
      /\ UNCHANGED <<order, processed, requests, replies, deadLetters, expired, bounds>>
  BY DEF HandleDispatch
<1> HIDE DEF row
<1>5. RequestEvent(row) \in EventRow
  BY <1>3, OwnEventType DEF RequestEvent, EventTypes, TaskRow
<1>6. <<RequestEvent(row)>> \in Seq(EventRow) /\ RequestMessages(t, row) \in Seq(Message)
  BY <1>1, <1>3, <1>5, RequestMessagesType
<1>7. order' \in [Tasks -> OrderStatuses] /\ processed' \subseteq Tasks \X Nat
  BY <1>4 DEF TypeOK, DatabaseType
<1>8. QED
  BY <1>3, <1>4, <1>6, <1>7, HandledRowType

(* A message that no longer applies.                                       *)
LEMMA HandleStaleType ==
  ASSUME TypeOK, NEW m \in inbox, HandleStale(m)
  PROVE  TypeOK'
<1>1. Begin(m, "effects", <<>>)
      /\ UNCHANGED <<database, requests, replies, deadLetters, expired, bounds>>
  BY DEF HandleStale
<1>2. ActorType' /\ inbox' \subseteq Message
  <2>1. <<>> \in Seq(Message)
    OBVIOUS
  <2>2. QED
    BY <1>1, <2>1, BeginType DEF TypeOK
<1>3. QED
  BY <1>1, <1>2 DEF TypeOK, database, bounds, DatabaseType, BrokerType, BoundsType


-----------------------------------------------------------------------------
(* handle_dead_letter, its transaction.                                    *)
LEMMA RecordDeadLetterType ==
  ASSUME TypeOK, NEW m \in deadLetters, RecordDeadLetter(m), UNCHANGED processed
  PROVE  DatabaseType'
<1> DEFINE t       == m.task
           changed == IF Terminal(t) THEN task[t]
                      ELSE [task[t] EXCEPT !.status = "DEAD_LETTERED"]
           row     == Numbered(changed)
           own     == OwnEvent("MESSAGE_DEAD_LETTERED", 0, row)
<1>1. t \in Tasks /\ task[t] \in TaskRow
  BY DEF TypeOK, BrokerType, DatabaseType, Message
<1>2. changed \in TaskRow
  <2>1. "DEAD_LETTERED" \in TaskStatuses
    BY StatusTypes
  <2>2. QED
    BY <1>1, <2>1 DEF TaskRow
<1>3. row \in TaskRow
  BY <1>2, NumberedType
<1>4. own \in EventRow
  BY <1>3, OwnEventType DEF EventTypes
<1>5. Write(t, row, <<own>>) /\ <<own>> \in Seq(EventRow)
  BY <1>4 DEF RecordDeadLetter
<1>6. order' \in [Tasks -> OrderStatuses]
  BY StatusTypes DEF RecordDeadLetter, TypeOK, DatabaseType
<1> HIDE DEF row, own
<1>7. QED
  BY <1>1, <1>3, <1>5, <1>6, WriteType DEF TypeOK, DatabaseType

(* handle_dead_letter, acknowledged or not, or lost.                       *)
LEMMA HandleDeadLetterType ==
  ASSUME TypeOK, NEW m \in deadLetters,
         HandleDeadLetter(m) \/ HandleDeadLetterUnacknowledged(m) \/ DeadLetterLost(m)
  PROVE  TypeOK'
<1>1. CASE HandleDeadLetter(m)
  <2>1. DatabaseType'
    BY <1>1, RecordDeadLetterType DEF HandleDeadLetter
  <2>2. QED
    BY <1>1, <2>1 DEF TypeOK, HandleDeadLetter, bounds, ActorType, BrokerType, BoundsType,
                      InRequest, At
<1>2. CASE HandleDeadLetterUnacknowledged(m)
  <2>1. DatabaseType'
    BY <1>2, RecordDeadLetterType DEF HandleDeadLetterUnacknowledged
  <2>2. BoundsType'
    BY <1>2, ActorsAssumption DEF HandleDeadLetterUnacknowledged, TypeOK, BoundsType
  <2>3. QED
    BY <1>2, <2>1, <2>2 DEF TypeOK, HandleDeadLetterUnacknowledged, broker, ActorType,
                            BrokerType, InRequest, At
<1>3. CASE DeadLetterLost(m)
  <2>1. BoundsType'
    BY <1>3, ActorsAssumption DEF DeadLetterLost, TypeOK, BoundsType
  <2>2. QED
    BY <1>3, <2>1 DEF TypeOK, DeadLetterLost, database, DatabaseType, ActorType, BrokerType,
                      InRequest, At
<1>4. QED
  BY <1>1, <1>2, <1>3

(* An exception before the first commit.                                   *)
LEMMA HandlerRaisesType ==
  ASSUME TypeOK, NEW m \in inbox, HandlerRaises(m)
  PROVE  TypeOK'
<1>1. BoundsType'
  BY ActorsAssumption DEF HandlerRaises, TypeOK, BoundsType
<1>2. QED
  BY <1>1 DEF TypeOK, HandlerRaises, database, DatabaseType, ActorType, BrokerType, InRequest, At

(* The worker dies.                                                        *)
LEMMA WorkerCrashType ==
  ASSUME TypeOK, WorkerCrash
  PROVE  TypeOK'
<1>1. ActorType'
  <2>1. Worker \in Actors /\ actor' = [actor EXCEPT ![Worker] = Free]
    BY DEF WorkerCrash, Actors
  <2>2. QED
    BY <2>1, FreeType, ActorReplaced DEF TypeOK
<1>2. BoundsType'
  BY ActorsAssumption DEF WorkerCrash, TypeOK, BoundsType
<1>3. inbox' \subseteq Message
  <2> DEFINE current == IF At(Worker, "idle") THEN {} ELSE {actor[Worker].msg}
  <2>1. current \subseteq Message
    BY DEF TypeOK, ActorType, InRequest
  <2>2. \A m \in Message : Redelivered(m) \in Message
    <3>1. \A m \in Message, b \in BOOLEAN : [m EXCEPT !.redelivered = b] \in Message
      BY DEF Message
    <3>2. \A m : IsReply(m) \in BOOLEAN
      BY DEF IsReply
    <3>3. QED
      BY <3>1, <3>2, Zenon DEF Redelivered
  <2>3. PICK prefetched \in SUBSET inbox :
          inbox' = (inbox \ prefetched) \cup {Redelivered(m) : m \in current \cup prefetched}
    BY DEF WorkerCrash
  <2>4. QED
    BY <2>1, <2>2, <2>3 DEF TypeOK, BrokerType
<1>4. QED
  BY <1>1, <1>2, <1>3 DEF TypeOK, WorkerCrash, database, DatabaseType, BrokerType

(* The API process dies.                                                   *)
LEMMA ApiCrashType ==
  ASSUME TypeOK, ApiCrash
  PROVE  TypeOK'
<1>1. ActorType'
  <2>1. actor' \in [Actors -> ActorState]
    BY FreeType DEF ApiCrash, TypeOK, ActorType
  <2>2. \A a \in Actors : actor'[a] = actor[a] \/ (a # Worker /\ actor'[a] = Finished)
    BY DEF ApiCrash
  <2>3. Worker \in Actors
    BY DEF Actors
  <2>4. QED
    BY <2>1, <2>2, <2>3, FreeType DEF TypeOK, ActorType, InRequest, At, MeetsContract
<1>2. BoundsType'
  BY ActorsAssumption DEF ApiCrash, TypeOK, BoundsType
<1>3. QED
  BY <1>1, <1>2 DEF TypeOK, ApiCrash, database, broker, DatabaseType, BrokerType

(* Time, the inventory-service and the broker.                             *)
LEMMA EnvironmentType ==
  ASSUME TypeOK,
         \/ \E t \in Tasks : DeadlinePasses(t)
         \/ \E m \in requests : RequestAnswered(m) \/ RequestDeadLettered(m)
         \/ \E m \in replies : AnswerSentAgain(m) \/ AnsweredRequestDeadLettered(m)
  PROVE  TypeOK'
<1>1. ASSUME NEW t \in Tasks, DeadlinePasses(t) PROVE TypeOK'
  BY <1>1 DEF DeadlinePasses, TypeOK, database, broker, bounds, DatabaseType, ActorType,
              BrokerType, BoundsType, InRequest, At
<1>2. ASSUME NEW m \in requests, RequestAnswered(m) PROVE TypeOK'
  <2>1. PICK outcome \in {"ok", "transient_error", "invalid_data"} :
          /\ replies' = replies \cup {Answer(m, outcome)}
          /\ inbox' = inbox \cup {Answer(m, outcome)}
    BY <1>2 DEF RequestAnswered
  <2>2. Answer(m, outcome) \in Message
    BY AnswerType DEF TypeOK, BrokerType
  <2>3. QED
    BY <1>2, <2>1, <2>2 DEF RequestAnswered, TypeOK, database, bounds, DatabaseType, ActorType,
                            BrokerType, BoundsType, InRequest, At
<1>3. ASSUME NEW m \in requests, RequestDeadLettered(m) PROVE TypeOK'
  <2>1. BoundsType'
    BY <1>3, ActorsAssumption DEF RequestDeadLettered, TypeOK, BoundsType
  <2>2. QED
    BY <1>3, <2>1 DEF RequestDeadLettered, TypeOK, database, DatabaseType, ActorType,
                      BrokerType, InRequest, At
<1>4. ASSUME NEW m \in replies, AnswerSentAgain(m) PROVE TypeOK'
  <2>1. BoundsType'
    BY <1>4, ActorsAssumption DEF AnswerSentAgain, TypeOK, BoundsType
  <2>2. QED
    BY <1>4, <2>1 DEF AnswerSentAgain, TypeOK, database, DatabaseType, ActorType,
                      BrokerType, InRequest, At
<1>5. ASSUME NEW m \in replies, AnsweredRequestDeadLettered(m) PROVE TypeOK'
  <2>1. BoundsType'
    BY <1>5, ActorsAssumption DEF AnsweredRequestDeadLettered, TypeOK, BoundsType
  <2>2. RequestOf(m) \in Message
    BY DEF RequestOf, TypeOK, BrokerType, Message, Kinds
  <2>3. QED
    BY <1>5, <2>1, <2>2 DEF AnsweredRequestDeadLettered, TypeOK, database, DatabaseType,
                            ActorType, BrokerType, InRequest, At
<1>6. QED
  BY <1>1, <1>2, <1>3, <1>4, <1>5

(* Nothing exists at first.                                                *)
LEMMA InitType == ASSUME Init PROVE TypeOK
<1>1. AbsentRow \in TaskRow
  BY DEF AbsentRow, TaskRow, Targets
<1>2. DatabaseType
  BY <1>1 DEF Init, DatabaseType, OrderStatuses
<1>3. ActorType
  <2>1. Worker \in Actors /\ \A a \in Actors : actor[a] = Free
    BY DEF Init, Actors
  <2>2. actor \in [Actors -> ActorState]
    BY FreeType DEF Init
  <2>3. QED
    BY <2>1, <2>2, FreeType DEF ActorType, InRequest, At
<1>4. QED
  BY <1>2, <1>3, ActorsAssumption DEF Init, TypeOK, BrokerType, BoundsType

(* Every step of a handler after its first transaction.                    *)
LEMMA ActType ==
  ASSUME TypeOK, NEW a \in Actors, Act(a)
  PROVE  TypeOK'
<1>1. CASE ExecuteRaises(a)
  <2>1. InRequest(a) /\ Reject(a) /\ failures' \in 0 .. MaxFailures /\ losses' \in 0 .. MaxLosses
        /\ UNCHANGED <<database, inbox, requests, replies, expired, crashes, reemissions>>
    BY <1>1 DEF ExecuteRaises, InRequest, At, bounds, TypeOK, BoundsType
  <2>2. QED
    BY <2>1, ExecuteRaisesType
<1>2. QED
  BY <1>1, TakeDecisionType, ExecuteContinueType, ExecuteRetryType, ExecuteWaitType,
     ExecuteFallbackType, ExecuteAbortType, SendNextType, ReturnType
  DEF Act, ExecuteDecision

(* An exception at a decision point or in an effect.                       *)
LEMMA RaisesType ==
  ASSUME TypeOK, WorkerRaises \/ \E t \in Tasks : ApiRaises(t)
  PROVE  TypeOK'
<1>1. PICK a \in Actors :
        Raises(a) /\ failures' \in 0 .. MaxFailures /\ losses' \in 0 .. MaxLosses
  BY ActorsAssumption DEF WorkerRaises, ApiRaises, Actors, TypeOK, BoundsType
<1>2. InRequest(a) /\ Reject(a)
      /\ UNCHANGED <<database, inbox, requests, replies, expired, crashes, reemissions>>
  BY <1>1 DEF Raises, InRequest, At
<1>3. QED
  BY <1>1, <1>2, ExecuteRaisesType

(* Every step keeps the types.                                             *)
LEMMA TypeStep == ASSUME TypeOK, [Next]_vars PROVE TypeOK'
<1>1. ASSUME NEW t \in Tasks, CreateOrder(t) PROVE TypeOK'
  BY <1>1, CreateOrderType
<1>2. ASSUME NEW a \in Actors, Act(a) PROVE TypeOK'
  BY <1>2, ActType
<1>3. ASSUME NEW m \in inbox, Handle(m) PROVE TypeOK'
  BY <1>3, HandleRepeatedType, HandleSucceededType, HandleFailedType, HandleTimeoutType,
     HandleReevaluateType, HandleDispatchType, HandleStaleType DEF Handle
<1>4. ASSUME NEW m \in deadLetters,
             HandleDeadLetter(m) \/ HandleDeadLetterUnacknowledged(m) \/ DeadLetterLost(m)
      PROVE  TypeOK'
  BY <1>4, HandleDeadLetterType
<1>5. ASSUME NEW m \in inbox, HandlerRaises(m) PROVE TypeOK'
  BY <1>5, HandlerRaisesType
<1>6. CASE WorkerCrash \/ ApiCrash
  BY <1>6, WorkerCrashType, ApiCrashType
<1>7. CASE UNCHANGED vars
  BY <1>7 DEF vars, TypeOK, DatabaseType, ActorType, BrokerType, BoundsType, InRequest, At
<1>8. QED
  BY <1>1, <1>2, <1>3, <1>4, <1>5, <1>6, <1>7, EnvironmentType, RaisesType
  DEF Next, WorkerStep, Disturbance, Actors

(* The types hold in every state the program reaches, for any number of    *)
(* tasks, any limits and any engine: in particular the executor is never   *)
(* given a decision that breaks the contract of shared.decision.Decision.  *)
THEOREM TypeCorrect == Spec => []TypeOK
<1>1. QED
  BY InitType, TypeStep, PTL DEF Spec

-----------------------------------------------------------------------------
(* The two modules speak of the same routes and statuses.                  *)
LEMMA LifecycleWords ==
  /\ Lifecycle!None = None /\ Lifecycle!Primary = Primary /\ Lifecycle!Fallback = Fallback
  /\ Lifecycle!ActiveStatuses = ActiveStatuses
  /\ Lifecycle!TerminalStatuses = TerminalStatuses
BY DEF Lifecycle!None, None, Lifecycle!Primary, Primary, Lifecycle!Fallback, Fallback,
       Lifecycle!ActiveStatuses, ActiveStatuses, Lifecycle!TerminalStatuses, TerminalStatuses

ShapeType ==
  [status: TaskStatuses \cup {"ABSENT"}, target: Targets, attempt: Nat, waits: Nat,
   fallbackUsed: BOOLEAN]

(* A shape has the fields of its row, and numbering leaves it alone.       *)
LEMMA ShapeOfRow ==
  ASSUME NEW row \in TaskRow
  PROVE  /\ Shape(row) \in ShapeType
         /\ Shape(row).status = row.status /\ Shape(row).target = row.target
         /\ Shape(row).attempt = row.attempt /\ Shape(row).waits = row.waits
         /\ Shape(row).fallbackUsed = row.fallbackUsed
         /\ Shape(Numbered(row)) = Shape(row)
BY DEF Shape, ShapeType, TaskRow, Numbered

(* Shapes are told apart by their fields.                                  *)
LEMMA SameShape ==
  ASSUME NEW x \in ShapeType, NEW y \in ShapeType,
         x.status = y.status, x.target = y.target, x.attempt = y.attempt,
         x.waits = y.waits, x.fallbackUsed = y.fallbackUsed
  PROVE  x = y
BY DEF ShapeType

(* The changes of a row, and of its shape.                                 *)
LEMMA ChangedShape ==
  ASSUME NEW row \in TaskRow
  PROVE  /\ Shape([row EXCEPT !.status = "DISPATCHED", !.target = Primary])
              = [Shape(row) EXCEPT !.status = "DISPATCHED", !.target = Primary]
         /\ Shape([row EXCEPT !.status = "RETRYING", !.attempt = @ + 1])
              = [Shape(row) EXCEPT !.status = "RETRYING", !.attempt = @ + 1]
         /\ Shape([row EXCEPT !.status = "WAITING", !.waits = @ + 1])
              = [Shape(row) EXCEPT !.status = "WAITING", !.waits = @ + 1]
         /\ Shape([row EXCEPT !.status = "FALLBACK_PROCESSING", !.target = Fallback,
                              !.fallbackUsed = TRUE])
              = [Shape(row) EXCEPT !.status = "FALLBACK_PROCESSING", !.target = Fallback,
                                   !.fallbackUsed = TRUE]
         /\ \A status \in TaskStatuses :
              Shape([row EXCEPT !.status = status]) = [Shape(row) EXCEPT !.status = status]
<1>1. {"DISPATCHED", "RETRYING", "WAITING", "FALLBACK_PROCESSING"} \subseteq TaskStatuses
      /\ Primary \in Targets /\ Fallback \in Targets /\ row.attempt + 1 \in Nat /\ row.waits + 1 \in Nat
  BY StatusTypes DEF Targets, Routes, TaskRow
<1>2. Shape(row) \in ShapeType /\ Shape(row).attempt = row.attempt
      /\ Shape(row).waits = row.waits
  BY ShapeOfRow
<1>3. Shape([row EXCEPT !.status = "DISPATCHED", !.target = Primary])
        = [Shape(row) EXCEPT !.status = "DISPATCHED", !.target = Primary]
  <2> DEFINE x == Shape([row EXCEPT !.status = "DISPATCHED", !.target = Primary])
             y == [Shape(row) EXCEPT !.status = "DISPATCHED", !.target = Primary]
  <2>1. x \in ShapeType
    BY ChangedRowType, ShapeOfRow
  <2>2. y \in ShapeType
    BY <1>1, <1>2 DEF ShapeType
  <2>3. x.status = y.status /\ x.target = y.target /\ x.attempt = y.attempt
        /\ x.waits = y.waits /\ x.fallbackUsed = y.fallbackUsed
    BY DEF Shape, TaskRow
  <2> HIDE DEF x, y
  <2>4. x = y
    BY <2>1, <2>2, <2>3, SameShape
  <2>5. QED
    BY <2>4 DEF x, y
<1>4. Shape([row EXCEPT !.status = "RETRYING", !.attempt = @ + 1])
        = [Shape(row) EXCEPT !.status = "RETRYING", !.attempt = @ + 1]
  <2> DEFINE x == Shape([row EXCEPT !.status = "RETRYING", !.attempt = @ + 1])
             y == [Shape(row) EXCEPT !.status = "RETRYING", !.attempt = @ + 1]
  <2>1. x \in ShapeType
    BY ChangedRowType, ShapeOfRow
  <2>2. y \in ShapeType
    BY <1>1, <1>2 DEF ShapeType
  <2>3. x.status = y.status /\ x.target = y.target /\ x.attempt = y.attempt
        /\ x.waits = y.waits /\ x.fallbackUsed = y.fallbackUsed
    BY DEF Shape, TaskRow
  <2> HIDE DEF x, y
  <2>4. x = y
    BY <2>1, <2>2, <2>3, SameShape
  <2>5. QED
    BY <2>4 DEF x, y
<1>5. Shape([row EXCEPT !.status = "WAITING", !.waits = @ + 1])
        = [Shape(row) EXCEPT !.status = "WAITING", !.waits = @ + 1]
  <2> DEFINE x == Shape([row EXCEPT !.status = "WAITING", !.waits = @ + 1])
             y == [Shape(row) EXCEPT !.status = "WAITING", !.waits = @ + 1]
  <2>1. x \in ShapeType
    BY ChangedRowType, ShapeOfRow
  <2>2. y \in ShapeType
    BY <1>1, <1>2 DEF ShapeType
  <2>3. x.status = y.status /\ x.target = y.target /\ x.attempt = y.attempt
        /\ x.waits = y.waits /\ x.fallbackUsed = y.fallbackUsed
    BY DEF Shape, TaskRow
  <2> HIDE DEF x, y
  <2>4. x = y
    BY <2>1, <2>2, <2>3, SameShape
  <2>5. QED
    BY <2>4 DEF x, y
<1>6. Shape([row EXCEPT !.status = "FALLBACK_PROCESSING", !.target = Fallback,
                        !.fallbackUsed = TRUE])
        = [Shape(row) EXCEPT !.status = "FALLBACK_PROCESSING", !.target = Fallback,
                             !.fallbackUsed = TRUE]
  <2> DEFINE x == Shape([row EXCEPT !.status = "FALLBACK_PROCESSING", !.target = Fallback,
                                    !.fallbackUsed = TRUE])
             y == [Shape(row) EXCEPT !.status = "FALLBACK_PROCESSING", !.target = Fallback,
                                     !.fallbackUsed = TRUE]
  <2>1. x \in ShapeType
    BY <1>1, ChangedRowType, ShapeOfRow
  <2>2. y \in ShapeType
    BY <1>1, <1>2 DEF ShapeType
  <2>3. x.status = y.status /\ x.target = y.target /\ x.attempt = y.attempt
        /\ x.waits = y.waits /\ x.fallbackUsed = y.fallbackUsed
    BY DEF Shape, TaskRow
  <2> HIDE DEF x, y
  <2>4. x = y
    BY <2>1, <2>2, <2>3, SameShape
  <2>5. QED
    BY <2>4 DEF x, y
<1>7. ASSUME NEW status \in TaskStatuses
      PROVE  Shape([row EXCEPT !.status = status]) = [Shape(row) EXCEPT !.status = status]
  <2> DEFINE x == Shape([row EXCEPT !.status = status])
             y == [Shape(row) EXCEPT !.status = status]
  <2>1. x \in ShapeType
    BY DEF Shape, ShapeType, TaskRow
  <2>2. y \in ShapeType
    BY <1>2 DEF ShapeType
  <2>3. x.status = y.status /\ x.target = y.target /\ x.attempt = y.attempt
        /\ x.waits = y.waits /\ x.fallbackUsed = y.fallbackUsed
    BY DEF Shape, TaskRow
  <2> HIDE DEF x, y
  <2>4. x = y
    BY <2>1, <2>2, <2>3, SameShape
  <2>5. QED
    BY <2>4 DEF x, y
<1>8. QED
  BY <1>3, <1>4, <1>5, <1>6, <1>7

(* A row written is a change of one shape.                                 *)
LEMMA ShapesChanged ==
  ASSUME DatabaseType, NEW t \in Tasks, NEW row, NEW rows, Write(t, row, rows)
  PROVE  /\ Shapes[t] = Shape(task[t])
         /\ Shapes' = [Shapes EXCEPT ![t] = Shape(row)]
<1>1. \A u \in Tasks : task'[u] = IF u = t THEN row ELSE task[u]
  BY DEF DatabaseType, Write
<1>2. Shapes' = [u \in Tasks |-> Shape(task'[u])]
  BY DEF Shapes, Shape
<1>3. QED
  BY <1>1, <1>2 DEF Shapes

(* The task a handler is at, or a message is about, was created.           *)
LEMMA CreatedTask ==
  ASSUME TypeOK, Coordinated
  PROVE  /\ \A a \in Actors : InRequest(a) => actor[a].task \in Tasks /\ Created(actor[a].task)
         /\ \A m \in inbox \cup requests \cup replies \cup deadLetters :
              m.task \in Tasks /\ Created(m.task)
<1>1. \A m \in inbox \cup requests \cup replies \cup deadLetters :
        m.task \in Tasks /\ Created(m.task)
  BY DEF TypeOK, BrokerType, Message, Coordinated, AloneAtFirst
<1>2. ASSUME NEW a \in Actors, InRequest(a)
      PROVE  actor[a].task \in Tasks /\ Created(actor[a].task)
  <2>1. actor[a].task \in Tasks
    BY <1>2 DEF TypeOK, ActorType
  <2>2. CASE a \in Tasks
    BY <1>2, <2>2 DEF Coordinated, OwnTask
  <2>3. CASE a = Worker
    BY <1>2, <2>1, <2>3 DEF Coordinated, AloneAtFirst
  <2>4. QED
    BY <2>1, <2>2, <2>3 DEF Actors
<1>3. QED
  BY <1>1, <1>2

(* Terminal and active statuses are the two halves of a created task.      *)
LEMMA LiveStatus ==
  ASSUME TypeOK, NEW t \in Tasks, Created(t)
  PROVE  Terminal(t) <=> task[t].status \notin ActiveStatuses
BY DEF TypeOK, DatabaseType, TaskRow, Created, Terminal, TaskStatuses, ActiveStatuses,
       TerminalStatuses

(* A decision about to be executed on a live task still holds.             *)
LEMMA DecisionHolds ==
  ASSUME TypeOK, Coordinated, NEW a \in Actors, At(a, "execute"),
         actor[a].decision.action # "ABORT", ~Terminal(actor[a].task)
  PROVE  StillHolds(task[actor[a].task], actor[a].decision)
BY DEF Coordinated, DecisionsHold, Terminal, TerminalStatuses

-----------------------------------------------------------------------------
(* Each transaction of the executor is one transition of the lifecycle.    *)

(* start_first_dispatch.                                                   *)
LEMMA ContinueStep ==
  ASSUME TypeOK, Coordinated, NEW a \in Actors, ExecuteContinue(a)
  PROVE  Lifecycle!Dispatch(actor[a].task)
<1> DEFINE t   == actor[a].task
           c   == [task[t] EXCEPT !.status = "DISPATCHED", !.target = Primary]
           row == Numbered(c)
<1>1. t \in Tasks /\ task[t] \in TaskRow
  BY ExecutorStart DEF ExecuteContinue, Executing
<1>2. Write(t, row, <<RequestEvent(row)>>)
      /\ task[t].status \in {"PENDING", "WAITING"} /\ task[t].target = None
      /\ UNCHANGED order
  BY DEF ExecuteContinue
<1>3. Shapes[t] = Shape(task[t]) /\ Shapes' = [Shapes EXCEPT ![t] = Shape(row)]
  BY <1>1, <1>2, ShapesChanged DEF TypeOK
<1>4. Shape(row) = [Shapes[t] EXCEPT !.status = "DISPATCHED", !.target = Primary]
  <2>1. c \in TaskRow /\ Shape(c) = [Shapes[t] EXCEPT !.status = "DISPATCHED", !.target = Primary]
    BY <1>1, <1>3, ChangedShape, ChangedRowType
  <2>2. QED
    BY <2>1, ShapeOfRow
<1>5. Shapes[t].status = task[t].status /\ Shapes[t].target = task[t].target
  BY <1>1, <1>3, ShapeOfRow
<1> HIDE DEF row
<1>6. QED
  BY <1>2, <1>3, <1>4, <1>5, LifecycleWords DEF Lifecycle!Dispatch, Lifecycle!Becomes

(* start_retry.                                                            *)
LEMMA RetryStep ==
  ASSUME TypeOK, Coordinated, NEW a \in Actors, ExecuteRetry(a)
  PROVE  Lifecycle!ScheduleRetry(actor[a].task)
<1> DEFINE t   == actor[a].task
           c   == [task[t] EXCEPT !.status = "RETRYING", !.attempt = @ + 1]
           row == Numbered(c)
<1>1. At(a, "execute") /\ actor[a].decision.action = "RETRY" /\ ~Terminal(t)
  BY DEF ExecuteRetry, Executing
<1>2. t \in Tasks /\ task[t] \in TaskRow
  BY <1>1, ExecutorStart
<1>3. StillHolds(task[t], actor[a].decision)
  BY <1>1, DecisionHolds
<1>4. Write(t, row, <<OwnEvent("RETRY_SCHEDULED", 0, row)>>) /\ UNCHANGED order
  BY DEF ExecuteRetry
<1>5. Shapes[t] = Shape(task[t]) /\ Shapes' = [Shapes EXCEPT ![t] = Shape(row)]
  BY <1>2, <1>4, ShapesChanged DEF TypeOK
<1>6. Shape(row) = [Shapes[t] EXCEPT !.status = "RETRYING", !.attempt = @ + 1]
  <2>1. c \in TaskRow /\ Shape(c) = [Shapes[t] EXCEPT !.status = "RETRYING", !.attempt = @ + 1]
    BY <1>2, <1>5, ChangedShape, ChangedRowType
  <2>2. QED
    BY <2>1, ShapeOfRow
<1>7. Shapes[t].status \in ActiveStatuses /\ Shapes[t].target = Primary
      /\ Shapes[t].attempt < MaxAttempts
  BY <1>1, <1>2, <1>3, <1>5, ShapeOfRow DEF StillHolds
<1> HIDE DEF row
<1>8. QED
  BY <1>4, <1>5, <1>6, <1>7, LifecycleWords
  DEF Lifecycle!ScheduleRetry, Lifecycle!Live, Lifecycle!Becomes

(* enter_wait.                                                             *)
LEMMA WaitStep ==
  ASSUME TypeOK, Coordinated, NEW a \in Actors, ExecuteWait(a)
  PROVE  Lifecycle!EnterWait(actor[a].task)
<1> DEFINE t   == actor[a].task
           c   == [task[t] EXCEPT !.status = "WAITING", !.waits = @ + 1]
           row == Numbered(c)
<1>1. At(a, "execute") /\ actor[a].decision.action = "WAIT" /\ ~Terminal(t)
  BY DEF ExecuteWait, Executing
<1>2. t \in Tasks /\ task[t] \in TaskRow
  BY <1>1, ExecutorStart
<1>3. StillHolds(task[t], actor[a].decision)
  BY <1>1, DecisionHolds
<1>4. Write(t, row, <<OwnEvent("WAIT_SCHEDULED", row.waits, row)>>) /\ UNCHANGED order
  BY DEF ExecuteWait
<1>5. Shapes[t] = Shape(task[t]) /\ Shapes' = [Shapes EXCEPT ![t] = Shape(row)]
  BY <1>2, <1>4, ShapesChanged DEF TypeOK
<1>6. Shape(row) = [Shapes[t] EXCEPT !.status = "WAITING", !.waits = @ + 1]
  <2>1. c \in TaskRow /\ Shape(c) = [Shapes[t] EXCEPT !.status = "WAITING", !.waits = @ + 1]
    BY <1>2, <1>5, ChangedShape, ChangedRowType
  <2>2. QED
    BY <2>1, ShapeOfRow
<1>7. Shapes[t].status \in ActiveStatuses /\ Shapes[t].waits < MaxWaits
  BY <1>1, <1>2, <1>3, <1>5, ShapeOfRow DEF StillHolds
<1> HIDE DEF row
<1>8. QED
  BY <1>4, <1>5, <1>6, <1>7, LifecycleWords
  DEF Lifecycle!EnterWait, Lifecycle!Live, Lifecycle!Becomes

(* start_fallback.                                                         *)
LEMMA FallbackStep ==
  ASSUME TypeOK, Coordinated, NEW a \in Actors, ExecuteFallback(a)
  PROVE  Lifecycle!StartFallback(actor[a].task)
<1> DEFINE t         == actor[a].task
           c         == [task[t] EXCEPT !.status = "FALLBACK_PROCESSING",
                                        !.target = actor[a].decision.target,
                                        !.fallbackUsed = TRUE]
           scheduled == Numbered(c)
           row       == Numbered(scheduled)
           rows      == <<OwnEvent("FALLBACK_SCHEDULED", 0, scheduled), RequestEvent(row)>>
<1>1. At(a, "execute") /\ actor[a].decision.action = "FALLBACK" /\ ~Terminal(t)
  BY DEF ExecuteFallback, Executing
<1>2. t \in Tasks /\ task[t] \in TaskRow
  BY <1>1, ExecutorStart
<1>3. StillHolds(task[t], actor[a].decision)
  BY <1>1, DecisionHolds
<1>4. Write(t, row, rows) /\ UNCHANGED order
  BY DEF ExecuteFallback
<1>5. Shapes[t] = Shape(task[t]) /\ Shapes' = [Shapes EXCEPT ![t] = Shape(row)]
  BY <1>2, <1>4, ShapesChanged DEF TypeOK
<1>6. actor[a].decision.target = Fallback
  BY <1>1, <1>3 DEF StillHolds
<1>7. Shape(row) = [Shapes[t] EXCEPT !.status = "FALLBACK_PROCESSING", !.target = Fallback,
                                     !.fallbackUsed = TRUE]
  <2>1. c \in TaskRow /\ Shape(c) = [Shapes[t] EXCEPT !.status = "FALLBACK_PROCESSING",
                                           !.target = Fallback, !.fallbackUsed = TRUE]
    BY <1>2, <1>5, <1>6, ChangedShape, ChangedRowType DEF Targets, Routes
  <2>2. scheduled \in TaskRow /\ Shape(scheduled) = Shape(c)
    BY <2>1, ShapeOfRow, NumberedType
  <2>3. QED
    BY <2>1, <2>2, ShapeOfRow
<1>8. Shapes[t].status \in ActiveStatuses /\ ~Shapes[t].fallbackUsed
  BY <1>1, <1>2, <1>3, <1>5, ShapeOfRow DEF StillHolds
<1> HIDE DEF row
<1>9. QED
  BY <1>4, <1>5, <1>7, <1>8, LifecycleWords
  DEF Lifecycle!StartFallback, Lifecycle!Live, Lifecycle!Becomes

(* A live task is given a terminal status, with the status of its order.   *)
LEMMA FinishStep ==
  ASSUME TypeOK, NEW t \in Tasks, Created(t), ~Terminal(t),
         NEW status \in TerminalStatuses, NEW c \in TaskRow, NEW row \in TaskRow, NEW rows,
         c = [task[t] EXCEPT !.status = status], Shape(row) = Shape(c),
         Write(t, row, rows), order' = [order EXCEPT ![t] = OrderStatusFor(status)]
  PROVE  Lifecycle!Finish(t)
<1>1. task[t] \in TaskRow /\ status \in TaskStatuses
  BY DEF TypeOK, DatabaseType, TaskStatuses
<1>2. Shapes[t] = Shape(task[t]) /\ Shapes' = [Shapes EXCEPT ![t] = Shape(row)]
  BY ShapesChanged DEF TypeOK
<1>3. Shapes' = [Shapes EXCEPT ![t].status = status]
  <2>1. Shape(c) = [Shapes[t] EXCEPT !.status = status]
    <3>1. Shape([task[t] EXCEPT !.status = status]) = [Shape(task[t]) EXCEPT !.status = status]
      BY <1>1, ChangedShape
    <3>2. QED
      BY <1>2, <3>1
  <2>2. QED
    BY <1>2, <2>1
<1>4. Shapes[t].status \in ActiveStatuses
  BY <1>1, <1>2, LiveStatus, ShapeOfRow
<1>5. OrderStatusFor(status) = IF status = "COMPLETED" THEN "COMPLETED" ELSE "FAILED"
  BY DEF OrderStatusFor, TerminalStatuses
<1>6. QED
  BY <1>3, <1>4, <1>5, LifecycleWords DEF Lifecycle!Finish, Lifecycle!Live

(* Only the number or the last result of the row changes.                  *)
LEMMA ShapeKept ==
  ASSUME TypeOK, NEW t \in Tasks, NEW row, NEW rows, Write(t, row, rows),
         Shape(row) = Shape(task[t])
  PROVE  UNCHANGED Shapes
<1>1. Shapes[t] = Shape(task[t]) /\ Shapes' = [Shapes EXCEPT ![t] = Shape(row)]
  BY ShapesChanged DEF TypeOK
<1>2. Shapes \in [Tasks -> {Shapes[u] : u \in Tasks}]
  BY DEF Shapes
<1>3. QED
  BY <1>1, <1>2

(* create_order_with_task.                                                 *)
LEMMA CreateStep ==
  ASSUME TypeOK, NEW t \in Tasks, CreateOrder(t)
  PROVE  Lifecycle!Create(t)
<1> DEFINE row == [AbsentRow EXCEPT !.status = "PENDING", !.seq = 1]
           new == [Lifecycle!absent EXCEPT !.status = "PENDING"]
<1>1. Write(t, row, <<OwnEvent("TASK_CREATED", 0, row)>>) /\ ~Created(t)
      /\ order' = [order EXCEPT ![t] = "PENDING"]
  BY DEF CreateOrder
<1>2. Shapes[t] = Shape(task[t]) /\ Shapes' = [Shapes EXCEPT ![t] = Shape(row)]
  BY <1>1, ShapesChanged DEF TypeOK
<1>3. Shape(row) = new
  <2>1. Lifecycle!absent \in ShapeType /\ AbsentRow \in TaskRow /\ "PENDING" \in TaskStatuses
    BY LifecycleWords, StatusTypes
    DEF Lifecycle!absent, ShapeType, AbsentRow, TaskRow, Targets
  <2>2. new \in ShapeType /\ row \in TaskRow
    BY <2>1 DEF ShapeType, TaskRow
  <2>3. new.status = row.status /\ new.target = row.target /\ new.attempt = row.attempt
        /\ new.waits = row.waits /\ new.fallbackUsed = row.fallbackUsed
    BY LifecycleWords DEF Lifecycle!absent, AbsentRow
  <2> HIDE DEF new, row
  <2>4. QED
    BY <2>2, <2>3, ShapeOfRow, SameShape
<1>4. Shapes[t].status = "ABSENT"
  BY <1>1, <1>2 DEF Created, Shape
<1> HIDE DEF row
<1>5. QED
  BY <1>1, <1>2, <1>3, <1>4 DEF Lifecycle!Create

(* Whether a step takes a task through its lifecycle, or leaves it and its *)
(* order as they are.                                                      *)
Follows == Lifecycle!Next \/ UNCHANGED <<Shapes, order>>

(* abort_task, or nothing on a terminal task.                              *)
LEMMA AbortStep ==
  ASSUME TypeOK, Coordinated, NEW a \in Actors, ExecuteAbort(a)
  PROVE  Follows
<1> DEFINE t   == actor[a].task
           c   == [task[t] EXCEPT !.status = "ABORTED"]
           row == Numbered(c)
<1>1. t \in Tasks /\ task[t] \in TaskRow /\ Created(t)
  BY ExecutorStart, CreatedTask DEF ExecuteAbort, Executing, InRequest, At
<1>2. CASE Terminal(t)
  BY <1>2 DEF ExecuteAbort, Follows, Shapes, Shape
<1>3. CASE ~Terminal(t)
  <2>1. Write(t, row, <<OwnEvent("TASK_ABORTED", 0, row)>>)
        /\ order' = [order EXCEPT ![t] = OrderStatusFor("ABORTED")]
    BY <1>3 DEF ExecuteAbort
  <2>2. "ABORTED" \in TerminalStatuses /\ "ABORTED" \in TaskStatuses
    BY DEF TerminalStatuses, TaskStatuses
  <2>3. c \in TaskRow /\ c = [task[t] EXCEPT !.status = "ABORTED"]
    BY <1>1, <2>2 DEF TaskRow
  <2>4. row \in TaskRow /\ Shape(row) = Shape(c)
    BY <2>3, NumberedType, ShapeOfRow
  <2> HIDE DEF c, row
  <2>5. Lifecycle!Finish(t)
    BY <1>1, <1>3, <2>1, <2>2, <2>3, <2>4, FinishStep
  <2>6. QED
    BY <1>1, <2>5 DEF Follows, Lifecycle!Next
<1>4. QED
  BY <1>2, <1>3

(* complete_task, or only a number on a terminal task.                     *)
LEMMA SucceededStep ==
  ASSUME TypeOK, Coordinated, NEW m \in inbox, HandleSucceeded(m)
  PROVE  Follows
<1> DEFINE t        == m.task
           received == Numbered(task[t])
           changed  == [received EXCEPT !.status = "COMPLETED", !.lastResult = "ok"]
           row      == Numbered(changed)
           c        == [task[t] EXCEPT !.status = "COMPLETED"]
           reply    == ReplyEvent(m, received.seq, m.redelivered)
           rows     == <<reply, OwnEvent("TASK_COMPLETED", 0, row)>>
<1>1. t \in Tasks /\ task[t] \in TaskRow /\ Created(t)
  BY HandlerStart, CreatedTask
<1>2. received \in TaskRow /\ Shape(received) = Shape(task[t])
  BY <1>1, NumberedType, ShapeOfRow
<1>3. CASE Terminal(t)
  <2>1. Write(t, received, <<reply>>) /\ UNCHANGED order
    BY <1>3 DEF HandleSucceeded
  <2> HIDE DEF received
  <2>2. QED
    BY <1>1, <1>2, <2>1, ShapeKept DEF Follows
<1>4. CASE ~Terminal(t)
  <2>1. Write(t, row, rows) /\ order' = [order EXCEPT ![t] = OrderStatusFor("COMPLETED")]
    BY <1>4 DEF HandleSucceeded
  <2>2. "COMPLETED" \in TerminalStatuses /\ "COMPLETED" \in TaskStatuses /\ "ok" \in TaskResults
    BY DEF TerminalStatuses, TaskStatuses, TaskResults
  <2>3. c \in TaskRow /\ c = [task[t] EXCEPT !.status = "COMPLETED"]
    BY <1>1, <2>2 DEF TaskRow
  <2>4. changed \in TaskRow
    <3> HIDE DEF received
    <3>1. QED
      BY <1>2, <2>2 DEF TaskRow
  <2>5. Shape(changed) = Shape(c)
    BY <1>1 DEF Shape, Numbered, TaskRow
  <2>6. row \in TaskRow /\ Shape(row) = Shape(c)
    BY <2>4, <2>5, NumberedType, ShapeOfRow
  <2> HIDE DEF c, row
  <2>7. Lifecycle!Finish(t)
    BY <1>1, <1>4, <2>1, <2>2, <2>3, <2>6, FinishStep
  <2>8. QED
    BY <1>1, <2>7 DEF Follows, Lifecycle!Next
<1>5. QED
  BY <1>3, <1>4

(* dead_letter_task, or only a number on a terminal task.                  *)
LEMMA DeadLetterStep ==
  ASSUME TypeOK, Coordinated, NEW m \in deadLetters, RecordDeadLetter(m)
  PROVE  Follows
<1> DEFINE t   == m.task
           c   == [task[t] EXCEPT !.status = "DEAD_LETTERED"]
           changed == IF Terminal(t) THEN task[t] ELSE c
           row == Numbered(changed)
           own == OwnEvent("MESSAGE_DEAD_LETTERED", 0, row)
<1>1. t \in Tasks /\ task[t] \in TaskRow /\ Created(t)
  BY CreatedTask DEF TypeOK, DatabaseType
<1>2. "DEAD_LETTERED" \in TerminalStatuses /\ "DEAD_LETTERED" \in TaskStatuses
  BY DEF TerminalStatuses, TaskStatuses
<1>3. c \in TaskRow /\ c = [task[t] EXCEPT !.status = "DEAD_LETTERED"]
  BY <1>1, <1>2 DEF TaskRow
<1>4. Write(t, row, <<own>>)
      /\ order' = IF Terminal(t) THEN order
                  ELSE [order EXCEPT ![t] = OrderStatusFor("DEAD_LETTERED")]
  BY DEF RecordDeadLetter
<1>5. CASE Terminal(t)
  <2>1. Shape(row) = Shape(task[t])
    BY <1>1, <1>5, ShapeOfRow
  <2> HIDE DEF row
  <2>2. QED
    BY <1>1, <1>4, <1>5, <2>1, ShapeKept DEF Follows
<1>6. CASE ~Terminal(t)
  <2>1. row \in TaskRow /\ Shape(row) = Shape(c)
    <3> HIDE DEF c
    <3>1. QED
      BY <1>3, <1>6, NumberedType, ShapeOfRow
  <2> HIDE DEF c, row
  <2>2. Lifecycle!Finish(t)
    BY <1>1, <1>2, <1>3, <1>4, <1>6, <2>1, FinishStep
  <2>3. QED
    BY <1>1, <2>2 DEF Follows, Lifecycle!Next
<1>7. QED
  BY <1>5, <1>6

(* mark_retry_dispatched.                                                  *)
LEMMA DispatchStep ==
  ASSUME TypeOK, NEW m \in inbox, HandleDispatch(m)
  PROVE  Follows
<1> DEFINE t   == m.task
           c   == [task[t] EXCEPT !.status = "DISPATCHED"]
           row == Numbered(c)
<1>1. t \in Tasks /\ task[t] \in TaskRow
  BY HandlerStart
<1>2. Write(t, row, <<RequestEvent(row)>>) /\ task[t].status = "RETRYING" /\ UNCHANGED order
  BY DEF HandleDispatch
<1>3. Shapes[t] = Shape(task[t]) /\ Shapes' = [Shapes EXCEPT ![t] = Shape(row)]
  BY <1>1, <1>2, ShapesChanged DEF TypeOK
<1>4. "DISPATCHED" \in TaskStatuses
  BY DEF TaskStatuses, ActiveStatuses
<1>5. Shape(row) = [Shapes[t] EXCEPT !.status = "DISPATCHED"]
  <2>1. c \in TaskRow
    BY <1>1, <1>4 DEF TaskRow
  <2>2. Shape(c) = [Shape(task[t]) EXCEPT !.status = "DISPATCHED"]
    BY <1>1, <1>4, ChangedShape
  <2> HIDE DEF c
  <2>3. QED
    BY <1>3, <2>1, <2>2, ShapeOfRow
<1>6. Shapes[t].status = "RETRYING"
  BY <1>1, <1>2, <1>3, ShapeOfRow
<1> HIDE DEF row
<1>7. QED
  BY <1>1, <1>2, <1>3, <1>5, <1>6
  DEF Follows, Lifecycle!Next, Lifecycle!DispatchRetry, Lifecycle!Becomes

(* The other handlers number a message and take the result it reports.     *)
LEMMA RegisteredStep ==
  ASSUME TypeOK, NEW m \in inbox,
         \/ HandleRepeated(m) \/ HandleFailed(m) \/ HandleTimeout(m)
         \/ HandleReevaluate(m) \/ HandleStale(m)
  PROVE  UNCHANGED <<Shapes, order>>
<1>1. m.task \in Tasks /\ task[m.task] \in TaskRow
  BY HandlerStart
<1>2. ASSUME NEW row \in TaskRow, NEW result \in TaskResults \cup {None}
      PROVE  Shape([row EXCEPT !.lastResult = result]) = Shape(row)
             /\ [row EXCEPT !.lastResult = result] \in TaskRow
  BY DEF Shape, TaskRow
<1>3. CASE HandleRepeated(m) \/ HandleStale(m)
  BY <1>3 DEF HandleRepeated, HandleStale, database, Shapes, Shape
<1>4. CASE HandleFailed(m)
  <2> DEFINE t        == m.task
             received == Numbered(task[t])
             current  == ~Terminal(t) /\ IsCurrentRequest(t, m.ref)
             result   == IF current THEN FailureResult(m) ELSE received.lastResult
             row      == [received EXCEPT !.lastResult = result]
  <2>1. received \in TaskRow /\ Shape(received) = Shape(task[t])
    BY <1>1, NumberedType, ShapeOfRow
  <2>2. Shape(row) = Shape(task[t])
    <3>1. Shape(row) = Shape(received)
      <4> HIDE DEF received, result
      <4>1. QED
        BY <2>1 DEF Shape, TaskRow
    <3>2. QED
      BY <2>1, <3>1
  <2>3. Write(t, row, <<ReplyEvent(m, row.seq, m.redelivered)>>) /\ UNCHANGED order
    BY <1>4 DEF HandleFailed
  <2> HIDE DEF row
  <2>4. QED
    BY <1>1, <2>2, <2>3, ShapeKept
<1>5. CASE HandleTimeout(m)
  <2> DEFINE t      == m.task
             result == IF task[t].target = Fallback THEN "fallback_failed" ELSE "timeout"
             c      == [task[t] EXCEPT !.lastResult = result]
             row    == Numbered(c)
  <2>1. result \in TaskResults
    BY DEF TaskResults, TransientResults
  <2>2. c \in TaskRow /\ Shape(c) = Shape(task[t])
    <3> HIDE DEF result
    <3>1. QED
      BY <1>1, <1>2, <2>1
  <2>3. Shape(row) = Shape(task[t])
    BY <2>2, ShapeOfRow
  <2>4. Write(t, row, <<OwnEvent("INVENTORY_TIMEOUT", m.ref, row)>>) /\ UNCHANGED order
    BY <1>5 DEF HandleTimeout
  <2> HIDE DEF row
  <2>5. QED
    BY <1>1, <2>3, <2>4, ShapeKept
<1>6. CASE HandleReevaluate(m)
  <2> DEFINE row == Numbered(task[m.task])
  <2>1. Shape(row) = Shape(task[m.task])
    BY <1>1, ShapeOfRow
  <2>2. Write(m.task, row, <<OwnEvent("WAIT_FINISHED", m.ref, row)>>) /\ UNCHANGED order
    BY <1>6 DEF HandleReevaluate
  <2> HIDE DEF row
  <2>3. QED
    BY <1>1, <2>1, <2>2, ShapeKept
<1>7. QED
  BY <1>3, <1>4, <1>5, <1>6

(* Every step of a handler after its first transaction.                    *)
LEMMA ActStep ==
  ASSUME TypeOK, Coordinated, NEW a \in Actors, Act(a)
  PROVE  Follows
<1>1. CASE TakeDecision(a) \/ ExecuteRaises(a) \/ SendNext(a) \/ Return(a)
  BY <1>1 DEF TakeDecision, ExecuteRaises, SendNext, Return, database, Follows, Shapes, Shape
<1>2. CASE ExecuteContinue(a) \/ ExecuteRetry(a) \/ ExecuteWait(a) \/ ExecuteFallback(a)
  <2>1. actor[a].task \in Tasks
    BY <1>2, ExecutorStart
    DEF ExecuteContinue, ExecuteRetry, ExecuteWait, ExecuteFallback, Executing
  <2>2. QED
    BY <1>2, <2>1, ContinueStep, RetryStep, WaitStep, FallbackStep DEF Follows, Lifecycle!Next
<1>3. CASE ExecuteAbort(a)
  BY <1>3, AbortStep
<1>4. QED
  BY <1>1, <1>2, <1>3 DEF Act, ExecuteDecision

(* Every step of the coordination is a step of the lifecycle or leaves it  *)
(* where it is.                                                            *)
LEMMA LifecycleStep ==
  ASSUME TypeOK, Coordinated, [Next]_vars
  PROVE  Follows
<1>1. ASSUME NEW t \in Tasks, CreateOrder(t) PROVE Follows
  BY <1>1, CreateStep DEF Follows, Lifecycle!Next
<1>2. ASSUME NEW a \in Actors, Act(a) PROVE Follows
  BY <1>2, ActStep
<1>3. ASSUME NEW m \in inbox, Handle(m) PROVE Follows
  BY <1>3, SucceededStep, DispatchStep, RegisteredStep DEF Handle, Follows
<1>4. ASSUME NEW m \in deadLetters,
             HandleDeadLetter(m) \/ HandleDeadLetterUnacknowledged(m)
      PROVE  Follows
  BY <1>4, DeadLetterStep DEF HandleDeadLetter, HandleDeadLetterUnacknowledged
<1>5. CASE \/ UNCHANGED vars \/ WorkerRaises \/ WorkerCrash \/ ApiCrash
           \/ \E t \in Tasks : ApiRaises(t) \/ DeadlinePasses(t)
           \/ \E m \in inbox : HandlerRaises(m)
           \/ \E m \in deadLetters : DeadLetterLost(m)
           \/ \E m \in requests : RequestAnswered(m) \/ RequestDeadLettered(m)
           \/ \E m \in replies : AnswerSentAgain(m) \/ AnsweredRequestDeadLettered(m)
  <2>1. UNCHANGED <<task, order>>
    BY <1>5 DEF vars, WorkerRaises, ApiRaises, Raises, WorkerCrash, ApiCrash, DeadlinePasses,
                HandlerRaises, DeadLetterLost, RequestAnswered, RequestDeadLettered,
                AnswerSentAgain, AnsweredRequestDeadLettered, database
  <2>2. QED
    BY <2>1 DEF Follows, Shapes, Shape
<1>6. QED
  BY <1>1, <1>2, <1>3, <1>4, <1>5 DEF Next, WorkerStep, Disturbance, Actors

-----------------------------------------------------------------------------
(* What the lifecycle keeps.                                               *)

(* A shape and the status of its order, as the lifecycle leaves them.      *)
Sound(x, status) ==
  /\ x \in ShapeType
  /\ x.attempt <= MaxAttempts /\ x.waits <= MaxWaits
  /\ status = IF x.status = "ABSENT" THEN "ABSENT" ELSE OrderStatusFor(x.status)
  /\ x.status \in ActiveStatuses /\ x.target = None => x.status \in {"PENDING", "WAITING"}

AllSound == \A t \in Tasks : Sound(Shapes[t], order[t])

(* What a transition may do to one task.                                   *)
LEMMA TransitionIsSound ==
  ASSUME NEW x \in ShapeType, NEW y, NEW status, NEW newStatus, Sound(x, status),
         \/ y = [Lifecycle!absent EXCEPT !.status = "PENDING"] /\ newStatus = "PENDING"
         \/ /\ x.status \in {"PENDING", "WAITING"}
            /\ y = [x EXCEPT !.status = "DISPATCHED", !.target = Primary]
            /\ newStatus = status
         \/ /\ x.status \in ActiveStatuses /\ x.target = Primary /\ x.attempt < MaxAttempts
            /\ y = [x EXCEPT !.status = "RETRYING", !.attempt = @ + 1] /\ newStatus = status
         \/ /\ x.status = "RETRYING" /\ y = [x EXCEPT !.status = "DISPATCHED"]
            /\ newStatus = status
         \/ /\ x.status \in ActiveStatuses /\ x.waits < MaxWaits
            /\ y = [x EXCEPT !.status = "WAITING", !.waits = @ + 1] /\ newStatus = status
         \/ /\ x.status \in ActiveStatuses
            /\ y = [x EXCEPT !.status = "FALLBACK_PROCESSING", !.target = Fallback,
                             !.fallbackUsed = TRUE]
            /\ newStatus = status
         \/ \E final \in TerminalStatuses :
              /\ y = [x EXCEPT !.status = final]
              /\ newStatus = IF final = "COMPLETED" THEN "COMPLETED" ELSE "FAILED"
  PROVE  Sound(y, newStatus) /\ y.status # "ABSENT"
<1>1. /\ Primary \in Targets /\ Fallback \in Targets /\ Primary # None /\ Fallback # None
      /\ \A final \in TerminalStatuses : final \in TaskStatuses /\ final # "ABSENT"
                                        /\ final \notin ActiveStatuses
      /\ {"PENDING", "DISPATCHED", "RETRYING", "WAITING", "FALLBACK_PROCESSING"} = ActiveStatuses
      /\ ActiveStatuses \subseteq TaskStatuses /\ "ABSENT" \notin ActiveStatuses
      /\ \A s \in ActiveStatuses : OrderStatusFor(s) = "PENDING"
      /\ \A s \in TerminalStatuses :
           OrderStatusFor(s) = IF s = "COMPLETED" THEN "COMPLETED" ELSE "FAILED"
  BY DEF Targets, Routes, Primary, Fallback, None, TerminalStatuses, TaskStatuses,
         ActiveStatuses, OrderStatusFor
<1>2. x.attempt \in Nat /\ x.waits \in Nat /\ x.target \in Targets
  BY DEF ShapeType
<1>typed. /\ [x EXCEPT !.status = "RETRYING", !.attempt = x.attempt + 1] \in ShapeType
          /\ [x EXCEPT !.status = "WAITING", !.waits = x.waits + 1] \in ShapeType
  <2>1. "RETRYING" \in TaskStatuses /\ "WAITING" \in TaskStatuses
    BY <1>1
  <2>2. x.attempt + 1 \in Nat /\ x.waits + 1 \in Nat
    BY <1>2
  <2>3. \A s \in TaskStatuses, n \in Nat :
           /\ [x EXCEPT !.status = s, !.attempt = n] \in ShapeType
           /\ [x EXCEPT !.status = s, !.waits = n] \in ShapeType
    BY DEF ShapeType
  <2>4. QED
    BY <2>1, <2>2, <2>3
<1>3. CASE y = [Lifecycle!absent EXCEPT !.status = "PENDING"] /\ newStatus = "PENDING"
  <2>1. Lifecycle!absent \in ShapeType
    BY LifecycleWords DEF Lifecycle!absent, ShapeType, Targets
  <2>2. y \in ShapeType
    BY <1>1, <1>3, <2>1 DEF ShapeType
  <2>3. y.status = "PENDING" /\ y.attempt = 1 /\ y.waits = 0
    BY <1>3 DEF Lifecycle!absent
  <2>4. QED
    BY <1>1, <1>3, <2>2, <2>3, LimitsAssumption DEF Sound
<1>4. CASE /\ x.status \in {"PENDING", "WAITING"}
           /\ y = [x EXCEPT !.status = "DISPATCHED", !.target = Primary]
           /\ newStatus = status
  BY <1>1, <1>2, <1>4 DEF Sound, ShapeType
<1>5. CASE /\ x.status \in ActiveStatuses /\ x.target = Primary /\ x.attempt < MaxAttempts
           /\ y = [x EXCEPT !.status = "RETRYING", !.attempt = @ + 1] /\ newStatus = status
  <2>1. x.status \in ActiveStatuses /\ status = "PENDING" /\ newStatus = "PENDING"
    BY <1>1, <1>5 DEF Sound
  <2>2. y \in ShapeType
    BY <1>typed, <1>5
  <2>3. y.status = "RETRYING" /\ y.attempt = x.attempt + 1 /\ y.waits = x.waits /\ y.target = Primary
    BY <1>2, <1>5 DEF ShapeType, Sound
  <2>4. QED
    BY <1>1, <1>2, <1>5, <2>1, <2>2, <2>3, LimitsAssumption DEF Sound
<1>6. CASE /\ x.status = "RETRYING" /\ y = [x EXCEPT !.status = "DISPATCHED"]
           /\ newStatus = status
  <2>1. x.status \in ActiveStatuses /\ status = "PENDING" /\ newStatus = "PENDING"
    BY <1>1, <1>6 DEF Sound
  <2>2. y \in ShapeType
    BY <1>1, <1>2, <1>6 DEF ShapeType
  <2>3. y.status = "DISPATCHED" /\ y.attempt = x.attempt /\ y.waits = x.waits /\ y.target = x.target
    BY <1>2, <1>6 DEF ShapeType, Sound
  <2>4. QED
    BY <1>1, <1>2, <1>6, <2>1, <2>2, <2>3, LimitsAssumption DEF Sound
<1>7. CASE /\ x.status \in ActiveStatuses /\ x.waits < MaxWaits
           /\ y = [x EXCEPT !.status = "WAITING", !.waits = @ + 1] /\ newStatus = status
  <2>1. x.status \in ActiveStatuses /\ status = "PENDING" /\ newStatus = "PENDING"
    BY <1>1, <1>7 DEF Sound
  <2>2. y \in ShapeType
    BY <1>typed, <1>7
  <2>3. y.status = "WAITING" /\ y.attempt = x.attempt /\ y.waits = x.waits + 1 /\ y.target = x.target
    BY <1>2, <1>7 DEF ShapeType, Sound
  <2>4. QED
    BY <1>1, <1>2, <1>7, <2>1, <2>2, <2>3, LimitsAssumption DEF Sound
<1>8. CASE /\ x.status \in ActiveStatuses
           /\ y = [x EXCEPT !.status = "FALLBACK_PROCESSING", !.target = Fallback,
                            !.fallbackUsed = TRUE]
           /\ newStatus = status
  BY <1>1, <1>2, <1>8 DEF Sound, ShapeType
<1>9. CASE \E final \in TerminalStatuses :
              /\ y = [x EXCEPT !.status = final]
              /\ newStatus = IF final = "COMPLETED" THEN "COMPLETED" ELSE "FAILED"
  BY <1>1, <1>2, <1>9 DEF Sound, ShapeType
<1>10. QED
  BY <1>3, <1>4, <1>5, <1>6, <1>7, <1>8, <1>9

(* A step of the lifecycle changes at most one task, and soundly.          *)
LEMMA LifecycleKeeps ==
  ASSUME TypeOK, AllSound, Follows
  PROVE  /\ AllSound'
         /\ \A t \in Tasks : Created(t) => Created(t)'
<1>1. Shapes \in [Tasks -> ShapeType] /\ order \in [Tasks -> OrderStatuses]
      /\ \A t \in Tasks : Shapes[t].status = task[t].status
  BY ShapeOfRow DEF TypeOK, DatabaseType, Shapes
<1>2. \A t \in Tasks : Shapes'[t].status = task'[t].status
  BY DEF Shapes, Shape
<1>3. CASE UNCHANGED <<Shapes, order>>
  BY <1>1, <1>2, <1>3 DEF AllSound, Sound, Created
<1>4. CASE Lifecycle!Next
  <2>1. PICK t \in Tasks :
          \/ Lifecycle!Create(t) \/ Lifecycle!Dispatch(t) \/ Lifecycle!ScheduleRetry(t)
          \/ Lifecycle!DispatchRetry(t) \/ Lifecycle!EnterWait(t)
          \/ Lifecycle!StartFallback(t) \/ Lifecycle!Finish(t)
    BY <1>4 DEF Lifecycle!Next
  <2> DEFINE x == Shapes[t]
             status == order[t]
             y == Shapes'[t]
             newStatus == order'[t]
  <2>2. \A u \in Tasks \ {t} : Shapes'[u] = Shapes[u] /\ order'[u] = order[u]
    BY <1>1, <2>1
    DEF Lifecycle!Create, Lifecycle!Dispatch, Lifecycle!ScheduleRetry, Lifecycle!DispatchRetry,
        Lifecycle!EnterWait, Lifecycle!StartFallback, Lifecycle!Finish, Lifecycle!Becomes
  <2>3. Sound(y, newStatus) /\ y.status # "ABSENT"
    <3>1. x \in ShapeType /\ Sound(x, status)
      BY <1>1 DEF AllSound
    <3>2. CASE Lifecycle!Create(t)
      <4>1. y = [Lifecycle!absent EXCEPT !.status = "PENDING"] /\ newStatus = "PENDING"
        BY <1>1, <3>2 DEF Lifecycle!Create
      <4> HIDE DEF x, y, status, newStatus
      <4>2. QED
        BY <3>1, <4>1, TransitionIsSound
    <3>3. CASE Lifecycle!Dispatch(t)
      <4>1. x.status \in {"PENDING", "WAITING"} /\ newStatus = status
            /\ y = [x EXCEPT !.status = "DISPATCHED", !.target = Primary]
        BY <1>1, <3>3, LifecycleWords DEF Lifecycle!Dispatch, Lifecycle!Becomes
      <4> HIDE DEF x, y, status, newStatus
      <4>2. QED
        BY <3>1, <4>1, TransitionIsSound
    <3>4. CASE Lifecycle!ScheduleRetry(t)
      <4>1. x.status \in ActiveStatuses /\ x.target = Primary /\ x.attempt < MaxAttempts
            /\ y = [x EXCEPT !.status = "RETRYING", !.attempt = @ + 1] /\ newStatus = status
        BY <1>1, <3>4, LifecycleWords
        DEF Lifecycle!ScheduleRetry, Lifecycle!Live, Lifecycle!Becomes
      <4> HIDE DEF x, y, status, newStatus
      <4>2. QED
        BY <3>1, <4>1, TransitionIsSound
    <3>5. CASE Lifecycle!DispatchRetry(t)
      <4>1. x.status = "RETRYING" /\ y = [x EXCEPT !.status = "DISPATCHED"]
            /\ newStatus = status
        BY <1>1, <3>5 DEF Lifecycle!DispatchRetry, Lifecycle!Becomes
      <4> HIDE DEF x, y, status, newStatus
      <4>2. QED
        BY <3>1, <4>1, TransitionIsSound
    <3>6. CASE Lifecycle!EnterWait(t)
      <4>1. x.status \in ActiveStatuses /\ x.waits < MaxWaits
            /\ y = [x EXCEPT !.status = "WAITING", !.waits = @ + 1] /\ newStatus = status
        BY <1>1, <3>6, LifecycleWords
        DEF Lifecycle!EnterWait, Lifecycle!Live, Lifecycle!Becomes
      <4> HIDE DEF x, y, status, newStatus
      <4>2. QED
        BY <3>1, <4>1, TransitionIsSound
    <3>7. CASE Lifecycle!StartFallback(t)
      <4>1. x.status \in ActiveStatuses /\ newStatus = status
            /\ y = [x EXCEPT !.status = "FALLBACK_PROCESSING", !.target = Fallback,
                             !.fallbackUsed = TRUE]
        BY <1>1, <3>7, LifecycleWords
        DEF Lifecycle!StartFallback, Lifecycle!Live, Lifecycle!Becomes
      <4> HIDE DEF x, y, status, newStatus
      <4>2. QED
        BY <3>1, <4>1, TransitionIsSound
    <3>8. CASE Lifecycle!Finish(t)
      <4>1. \E final \in TerminalStatuses :
              /\ y = [x EXCEPT !.status = final]
              /\ newStatus = IF final = "COMPLETED" THEN "COMPLETED" ELSE "FAILED"
        BY <1>1, <3>8, LifecycleWords DEF Lifecycle!Finish
      <4> HIDE DEF x, y, status, newStatus
      <4>2. QED
        BY <3>1, <4>1, TransitionIsSound
    <3>9. QED
      BY <2>1, <3>2, <3>3, <3>4, <3>5, <3>6, <3>7, <3>8
  <2>4. AllSound'
    BY <2>2, <2>3 DEF AllSound, Sound, OrderStatusFor
  <2>5. \A u \in Tasks : Created(u) => Created(u)'
    BY <1>1, <1>2, <2>2, <2>3 DEF Created
  <2>6. QED
    BY <2>4, <2>5
<1>5. QED
  BY <1>3, <1>4 DEF Follows

(* The properties the lifecycle keeps, said of the rows.                   *)
LEMMA SoundRows ==
  ASSUME TypeOK, AllSound
  PROVE  LimitsHold /\ OrderMirrorsTask /\ UnroutedNotDispatched
<1>1. \A t \in Tasks :
        /\ Shapes[t].status = task[t].status /\ Shapes[t].attempt = task[t].attempt
        /\ Shapes[t].waits = task[t].waits /\ Shapes[t].target = task[t].target
        /\ task[t].status \in TaskStatuses \cup {"ABSENT"}
  BY ShapeOfRow DEF TypeOK, DatabaseType, Shapes, TaskRow
<1>2. QED
  BY <1>1 DEF AllSound, Sound, LimitsHold, OrderMirrorsTask, UnroutedNotDispatched, Created,
              Terminal, TaskStatuses

-----------------------------------------------------------------------------
(* One handler at a time is at a decision point of a task.                 *)

Exclusive == OwnTask /\ AloneAtFirst

Published == inbox \cup requests \cup replies \cup deadLetters

(* Task t is being opened: not created yet, or its first decision pending. *)
Opening(t) == ~Created(t) \/ At(t, "build") \/ At(t, "execute")

(* A handler goes on with the task it is at, or returns.                   *)
LEMMA HandlerGoesOn ==
  ASSUME TypeOK, Exclusive, NEW a \in Actors, InRequest(a), NEW r,
         actor' = [actor EXCEPT ![a] = r],
         \/ r.pc \in {"idle", "done"}
         \/ /\ r.pc \in {"execute", "effects"}
            /\ r.task = actor[a].task /\ r.msg = actor[a].msg
            /\ \A i \in DOMAIN r.effects : r.effects[i].task = r.task,
         r.pc = "execute" => At(a, "build"),
         \A t \in Tasks : Created(t) => Created(t)',
         \A m \in Published' :
           m \in Published \/ (m.task = actor[a].task /\ (a = Worker \/ At(a, "effects")))
  PROVE  Exclusive'
<1>1. \A b \in Actors : actor'[b] = IF b = a THEN r ELSE actor[b]
  BY DEF TypeOK, ActorType
<1>2. Worker \in Actors /\ Tasks \subseteq Actors /\ Worker \notin Tasks
  BY ActorsAssumption DEF Actors
<1>3. OwnTask'
  <2>1. \A t \in Tasks : InRequest(t)' => actor'[t].task = t /\ Created(t)'
    BY <1>1, <1>2 DEF Exclusive, OwnTask, InRequest, At
  <2>2. \A b \in Actors : InRequest(b)' =>
          \A i \in DOMAIN actor'[b].effects : actor'[b].effects[i].task = actor'[b].task
    BY <1>1 DEF Exclusive, OwnTask, InRequest, At
  <2>3. InRequest(Worker)' => actor'[Worker].msg.task = actor'[Worker].task
    BY <1>1, <1>2 DEF Exclusive, OwnTask, InRequest, At
  <2>4. QED
    BY <2>1, <2>2, <2>3 DEF OwnTask
<1>4. ASSUME NEW t \in Tasks, Opening(t)'
      PROVE  /\ \A m \in Published' : m.task # t
             /\ InRequest(Worker)' => actor'[Worker].task # t
  <2>1. Opening(t)
    BY <1>1, <1>2, <1>4 DEF Opening, At
  <2>2. (\A m \in Published : m.task # t) /\ (InRequest(Worker) => actor[Worker].task # t)
    BY <2>1 DEF Exclusive, AloneAtFirst, Opening, Published
  <2>3. ASSUME NEW m \in Published', m.task = t PROVE FALSE
    <3>1. actor[a].task = t /\ (a = Worker \/ At(a, "effects"))
      BY <2>2, <2>3
    <3>2. a # Worker
      BY <2>2, <3>1
    <3>3. a = t /\ At(t, "effects") /\ Created(t)
      BY <1>2, <3>1, <3>2 DEF Exclusive, OwnTask, Actors
    <3>4. QED
      BY <2>1, <3>3 DEF Opening, At
  <2>4. InRequest(Worker)' => actor'[Worker].task # t
    BY <1>1, <1>2, <2>2 DEF InRequest, At
  <2>5. QED
    BY <2>3, <2>4
<1>5. QED
  BY <1>3, <1>4 DEF Exclusive, AloneAtFirst, Opening, Published

(* The worker takes a message.                                             *)
LEMMA HandlerBegins ==
  ASSUME TypeOK, Exclusive, NEW m \in inbox, NEW pc \in {"build", "effects"}, NEW messages,
         Begin(m, pc, messages), UNCHANGED <<requests, replies, deadLetters>>,
         \A i \in DOMAIN messages : messages[i].task = m.task,
         \A t \in Tasks : Created(t) => Created(t)'
  PROVE  Exclusive'
<1> DEFINE r == [pc |-> pc, task |-> m.task, msg |-> m,
                 decision |-> NoDecision, effects |-> messages]
<1>1. \A b \in Actors : actor'[b] = IF b = Worker THEN r ELSE actor[b]
  BY DEF Begin, TypeOK, ActorType
<1>2. Worker \in Actors /\ Tasks \subseteq Actors /\ Worker \notin Tasks
  BY ActorsAssumption DEF Actors
<1>3. OwnTask'
  <2>1. \A t \in Tasks : InRequest(t)' => actor'[t].task = t /\ Created(t)'
    BY <1>1, <1>2 DEF Exclusive, OwnTask, InRequest, At
  <2>2. \A b \in Actors : InRequest(b)' =>
          \A i \in DOMAIN actor'[b].effects : actor'[b].effects[i].task = actor'[b].task
    BY <1>1 DEF Exclusive, OwnTask, InRequest, At
  <2>3. InRequest(Worker)' => actor'[Worker].msg.task = actor'[Worker].task
    BY <1>1, <1>2
  <2>4. QED
    BY <2>1, <2>2, <2>3 DEF OwnTask
<1>4. ASSUME NEW t \in Tasks, Opening(t)'
      PROVE  /\ \A n \in Published' : n.task # t
             /\ InRequest(Worker)' => actor'[Worker].task # t
  <2>1. Opening(t)
    BY <1>1, <1>2, <1>4 DEF Opening, At
  <2>2. \A n \in Published : n.task # t
    BY <2>1 DEF Exclusive, AloneAtFirst, Opening, Published
  <2>3. Published' \subseteq Published /\ m \in Published
    BY DEF Published, Begin
  <2>4. QED
    BY <1>1, <1>2, <2>2, <2>3
<1>5. QED
  BY <1>3, <1>4 DEF Exclusive, AloneAtFirst, Opening, Published

(* Messages move between queues, or handlers are given up.                 *)
LEMMA MessagesMove ==
  ASSUME TypeOK, Exclusive,
         \A a \in Actors : \/ actor'[a] = actor[a]
                           \/ actor'[a] \in {Free, Finished},
         \A t \in Tasks : Created(t) => Created(t)',
         \A m \in Published' : \/ \E n \in Published : n.task = m.task
                               \/ InRequest(Worker) /\ m.task = actor[Worker].task
  PROVE  Exclusive'
<1>1. Worker \in Actors /\ Tasks \subseteq Actors
  BY DEF Actors
<1>2. \A a \in Actors : InRequest(a)' => InRequest(a) /\ actor'[a] = actor[a]
  BY FreeType DEF InRequest, At
<1>3. OwnTask'
  BY <1>1, <1>2 DEF Exclusive, OwnTask
<1>4. ASSUME NEW t \in Tasks, Opening(t)'
      PROVE  /\ \A m \in Published' : m.task # t
             /\ InRequest(Worker)' => actor'[Worker].task # t
  <2>1. Opening(t)
    BY <1>1, <1>2, <1>4 DEF Opening, At, InRequest
  <2>2. (\A m \in Published : m.task # t) /\ (InRequest(Worker) => actor[Worker].task # t)
    BY <2>1 DEF Exclusive, AloneAtFirst, Opening, Published
  <2>3. QED
    BY <1>1, <1>2, <2>2
<1>5. QED
  BY <1>3, <1>4 DEF Exclusive, AloneAtFirst, Opening, Published

(* A new order is in the hands of its API request alone.                   *)
LEMMA OrderOpens ==
  ASSUME TypeOK, Exclusive, NEW t \in Tasks, CreateOrder(t),
         \A u \in Tasks : Created(u) => Created(u)'
  PROVE  Exclusive'
<1> DEFINE r == [Free EXCEPT !.pc = "build", !.task = t]
<1>1. Worker \in Actors /\ Tasks \subseteq Actors /\ Worker \notin Tasks
  BY ActorsAssumption DEF Actors
<1>2. \A a \in Actors : actor'[a] = IF a = t THEN r ELSE actor[a]
  BY DEF CreateOrder, TypeOK, ActorType
<1>3. r.pc = "build" /\ r.task = t /\ r.effects = <<>>
  BY DEF Free
<1>4. ~Created(t) /\ Created(t)'
  BY DEF CreateOrder, Write, Created, TypeOK, DatabaseType
<1>5. OwnTask'
  <2> HIDE DEF r
  <2>1. \A u \in Tasks : InRequest(u)' => actor'[u].task = u /\ Created(u)'
    BY <1>1, <1>2, <1>3, <1>4 DEF Exclusive, OwnTask, InRequest, At
  <2>2. \A b \in Actors : InRequest(b)' =>
          \A i \in DOMAIN actor'[b].effects : actor'[b].effects[i].task = actor'[b].task
    BY <1>2, <1>3 DEF Exclusive, OwnTask, InRequest, At
  <2>3. InRequest(Worker)' => actor'[Worker].msg.task = actor'[Worker].task
    BY <1>1, <1>2 DEF Exclusive, OwnTask, InRequest, At
  <2>4. QED
    BY <2>1, <2>2, <2>3 DEF OwnTask
<1>6. ASSUME NEW u \in Tasks, Opening(u)'
      PROVE  /\ \A m \in Published' : m.task # u
             /\ InRequest(Worker)' => actor'[Worker].task # u
  <2>1. Opening(u)
    BY <1>1, <1>2, <1>4, <1>6 DEF Opening, At
  <2>2. (\A m \in Published : m.task # u) /\ (InRequest(Worker) => actor[Worker].task # u)
    BY <2>1 DEF Exclusive, AloneAtFirst, Opening, Published
  <2>3. Published' = Published
    BY DEF CreateOrder, Published
  <2>4. QED
    BY <1>1, <1>2, <2>2, <2>3 DEF InRequest, At
<1>7. QED
  BY <1>5, <1>6 DEF Exclusive, AloneAtFirst, Opening, Published

(* A request and its timeout check are about the task they are sent for.   *)
LEMMA MessagesOfTask ==
  ASSUME NEW t, NEW row
  PROVE  \A i \in DOMAIN RequestMessages(t, row) : RequestMessages(t, row)[i].task = t
<1> DEFINE first == [kind |-> "REQUESTED", task |-> t, ref |-> row.seq,
                     attempt |-> row.attempt, target |-> row.target, reason |-> None,
                     redelivered |-> FALSE]
           second == InternalMessage("timeout_check", t, row.seq)
<1>1. RequestMessages(t, row) = <<first, second>>
  BY DEF RequestMessages
<1>2. first.task = t /\ second.task = t
  BY DEF InternalMessage
<1> HIDE DEF first, second
<1>3. QED
  BY <1>1, <1>2

(* A handler stays with its task and sends only about it.                  *)
LEMMA ActExclusive ==
  ASSUME TypeOK, Exclusive, NEW a \in Actors, Act(a) \/ Raises(a),
         \A t \in Tasks : Created(t) => Created(t)'
  PROVE  Exclusive'
<1>0. actor[a] \in ActorState
  BY DEF TypeOK, ActorType
<1>1. CASE TakeDecision(a)
  <2>1. PICK s \in Snapshots(actor[a].task) : \E o \in EngineOutputs(s) :
          actor' = [actor EXCEPT ![a].pc = "execute", ![a].decision = Executed(s, o)]
    BY <1>1 DEF TakeDecision
  <2>2. PICK o \in EngineOutputs(s) :
          actor' = [actor EXCEPT ![a].pc = "execute", ![a].decision = Executed(s, o)]
    BY <2>1
  <2> DEFINE d == Executed(s, o)
             r == [actor[a] EXCEPT !.pc = "execute", !.decision = d]
  <2>3. At(a, "build") /\ InRequest(a) /\ Published' = Published
    BY <1>1 DEF TakeDecision, At, InRequest, broker, Published
  <2>4. \A i \in DOMAIN actor[a].effects : actor[a].effects[i].task = actor[a].task
    BY <2>3 DEF Exclusive, OwnTask
  <2>5. actor' = [actor EXCEPT ![a] = r]
    BY <2>2
  <2> HIDE DEF d
  <2>6. r.pc = "execute" /\ r.task = actor[a].task /\ r.msg = actor[a].msg
        /\ r.effects = actor[a].effects
    BY <1>0 DEF ActorState
  <2> HIDE DEF r
  <2>7. QED
    BY <2>3, <2>4, <2>5, <2>6, HandlerGoesOn
<1>2. ASSUME NEW messages, ThenSend(a, messages), At(a, "execute"), UNCHANGED broker,
             UNCHANGED replies, \A i \in DOMAIN messages : messages[i].task = actor[a].task
      PROVE  Exclusive'
  <2> DEFINE r == [actor[a] EXCEPT !.pc = "effects", !.decision = NoDecision,
                                   !.effects = messages]
  <2>1. InRequest(a) /\ Published' = Published
    BY <1>2 DEF At, InRequest, broker, Published
  <2>2. actor' = [actor EXCEPT ![a] = r]
    BY <1>2 DEF ThenSend
  <2>3. r.pc = "effects" /\ r.task = actor[a].task /\ r.msg = actor[a].msg
        /\ r.effects = messages
    BY <1>0 DEF ActorState
  <2> HIDE DEF r
  <2>4. QED
    BY <1>2, <2>1, <2>2, <2>3, HandlerGoesOn
<1>3. CASE \/ ExecuteContinue(a) \/ ExecuteRetry(a) \/ ExecuteWait(a)
           \/ ExecuteFallback(a) \/ ExecuteAbort(a)
  <2>1. At(a, "execute") /\ UNCHANGED broker /\ UNCHANGED replies
    BY <1>3 DEF ExecuteContinue, ExecuteRetry, ExecuteWait, ExecuteFallback, ExecuteAbort,
                Executing
  <2>2. \E messages : ThenSend(a, messages)
                     /\ \A i \in DOMAIN messages : messages[i].task = actor[a].task
    <3>1. CASE ExecuteContinue(a)
      BY <3>1, MessagesOfTask DEF ExecuteContinue
    <3>2. CASE ExecuteFallback(a)
      BY <3>2, MessagesOfTask DEF ExecuteFallback
    <3>3. \A kind, ref : InternalMessage(kind, actor[a].task, ref).task = actor[a].task
      BY DEF InternalMessage
    <3>4. \A m : m.task = actor[a].task =>
                   \A i \in DOMAIN <<m>> : <<m>>[i].task = actor[a].task
      OBVIOUS
    <3>5. CASE ExecuteRetry(a)
      <4>1. \E ref : ThenSend(a, <<InternalMessage("dispatch_attempt", actor[a].task, ref)>>)
        BY <3>5 DEF ExecuteRetry
      <4>2. QED
        BY <3>3, <3>4, <4>1
    <3>6. CASE ExecuteWait(a)
      <4>1. \E ref : ThenSend(a, <<InternalMessage("reevaluate", actor[a].task, ref)>>)
        BY <3>6 DEF ExecuteWait
      <4>2. QED
        BY <3>3, <3>4, <4>1
    <3>7. CASE ExecuteAbort(a)
      BY <3>7 DEF ExecuteAbort
    <3>8. QED
      BY <1>3, <3>1, <3>2, <3>5, <3>6, <3>7
  <2>3. QED
    BY <1>2, <2>1, <2>2
<1>4. CASE SendNext(a)
  <2> DEFINE m == Head(actor[a].effects)
             r == [actor[a] EXCEPT !.effects = Tail(@)]
  <2>1. At(a, "effects") /\ InRequest(a) /\ actor[a].effects # <<>>
        /\ actor[a].effects \in Seq(Message)
    BY <1>0, <1>4 DEF SendNext, At, InRequest, ActorState
  <2>2. \A i \in DOMAIN actor[a].effects : actor[a].effects[i].task = actor[a].task
    BY <2>1 DEF Exclusive, OwnTask
  <2>3. m.task = actor[a].task
    BY <2>1, <2>2
  <2>4. \A i \in DOMAIN Tail(actor[a].effects) : Tail(actor[a].effects)[i].task = actor[a].task
    BY <2>1, <2>2
  <2>5. actor' = [actor EXCEPT ![a] = r]
    BY <1>4 DEF SendNext
  <2>6. r.pc = "effects" /\ r.task = actor[a].task /\ r.msg = actor[a].msg
        /\ r.effects = Tail(actor[a].effects)
    BY <1>0, <2>1 DEF ActorState, At
  <2>7. \A n \in Published' : n \in Published \/ n = m
    BY <1>4 DEF SendNext, Published
  <2> HIDE DEF r, m
  <2>8. QED
    BY <2>1, <2>3, <2>4, <2>5, <2>6, <2>7, HandlerGoesOn
<1>5. CASE Return(a)
  <2>1. InRequest(a) /\ Published' = Published
    BY <1>5 DEF Return, At, InRequest, broker, Published
  <2>2. \E r : actor' = [actor EXCEPT ![a] = r] /\ r.pc \in {"idle", "done"}
    BY <1>5, FreeType DEF Return
  <2>3. PICK r : actor' = [actor EXCEPT ![a] = r] /\ r.pc \in {"idle", "done"}
    BY <2>2
  <2>4. QED
    BY <2>1, <2>3, HandlerGoesOn
<1>6. CASE ExecuteRaises(a) \/ Raises(a)
  <2>1. InRequest(a) /\ Reject(a) /\ UNCHANGED <<inbox, requests, replies>>
    BY <1>6 DEF ExecuteRaises, Raises, At, InRequest
  <2>2. PICK r : actor' = [actor EXCEPT ![a] = r] /\ r.pc \in {"idle", "done"}
    BY <2>1, FreeType DEF Reject
  <2>3. a = Worker => actor[a].msg.task = actor[a].task
    BY <2>1 DEF Exclusive, OwnTask
  <2>4. \A m \in Published' : m \in Published \/ (a = Worker /\ m = actor[a].msg)
    BY <2>1 DEF Reject, Published
  <2>5. QED
    BY <2>1, <2>2, <2>3, <2>4, HandlerGoesOn
<1>7. QED
  BY <1>1, <1>3, <1>4, <1>5, <1>6 DEF Act, ExecuteDecision

(* A message brings the worker to a task that has been published.          *)
LEMMA HandleExclusive ==
  ASSUME TypeOK, Exclusive, NEW m \in inbox, Handle(m),
         \A t \in Tasks : Created(t) => Created(t)'
  PROVE  Exclusive'
<1>1. ASSUME NEW pc \in {"build", "effects"}, Begin(m, pc, <<>>)
      PROVE  UNCHANGED <<requests, replies, deadLetters>> => Exclusive'
  BY <1>1, HandlerBegins
<1>2. CASE HandleDispatch(m)
  <2>1. PICK row : Begin(m, "effects", RequestMessages(m.task, row))
                   /\ UNCHANGED <<requests, replies, deadLetters>>
    BY <1>2 DEF HandleDispatch
  <2>2. \A i \in DOMAIN RequestMessages(m.task, row) :
          RequestMessages(m.task, row)[i].task = m.task
    BY MessagesOfTask
  <2> DEFINE messages == RequestMessages(m.task, row)
  <2> HIDE DEF messages
  <2>3. QED
    BY <2>1, <2>2, HandlerBegins DEF messages
<1>3. CASE \/ HandleRepeated(m) \/ HandleSucceeded(m) \/ HandleFailed(m)
           \/ HandleTimeout(m) \/ HandleReevaluate(m) \/ HandleStale(m)
  <2>1. UNCHANGED <<requests, replies, deadLetters>>
        /\ (Begin(m, "effects", <<>>) \/ Begin(m, "build", <<>>))
    BY <1>3 DEF HandleRepeated, HandleSucceeded, HandleFailed, HandleTimeout,
                HandleReevaluate, HandleStale
  <2>2. QED
    BY <1>1, <2>1
<1>4. QED
  BY <1>2, <1>3 DEF Handle

(* Dead letters, crashes, answers and losses move messages of the same task. *)
LEMMA MovesExclusive ==
  ASSUME TypeOK, Exclusive, \A t \in Tasks : Created(t) => Created(t)',
         \/ \E m \in deadLetters :
              \/ HandleDeadLetter(m) \/ HandleDeadLetterUnacknowledged(m)
              \/ DeadLetterLost(m)
         \/ \E m \in inbox : HandlerRaises(m)
         \/ \E m \in requests : RequestAnswered(m) \/ RequestDeadLettered(m)
         \/ \E m \in replies : AnswerSentAgain(m) \/ AnsweredRequestDeadLettered(m)
         \/ WorkerCrash \/ ApiCrash
         \/ \E t \in Tasks : DeadlinePasses(t)
         \/ UNCHANGED vars
  PROVE  Exclusive'
<1>1. \A a \in Actors : actor'[a] = actor[a] \/ actor'[a] \in {Free, Finished}
  BY DEF HandleDeadLetter, HandleDeadLetterUnacknowledged, DeadLetterLost, HandlerRaises,
         RequestAnswered, RequestDeadLettered, AnswerSentAgain,
         AnsweredRequestDeadLettered, WorkerCrash, ApiCrash,
         DeadlinePasses, vars, TypeOK, ActorType
<1>2. CASE WorkerCrash
  <2> DEFINE current == IF At(Worker, "idle") THEN {} ELSE {actor[Worker].msg}
  <2>1. PICK prefetched \in SUBSET inbox :
          inbox' = (inbox \ prefetched) \cup {Redelivered(m) : m \in current \cup prefetched}
    BY <1>2 DEF WorkerCrash
  <2>2. ASSUME NEW m \in current
        PROVE  m \in Message /\ InRequest(Worker) /\ m.task = actor[Worker].task
    BY DEF TypeOK, ActorType, InRequest, Exclusive, OwnTask
  <2>3. \A m \in Message : Redelivered(m).task = m.task
    BY DEF Redelivered, Message
  <2>4. \A m \in inbox : m \in Message
    BY DEF TypeOK, BrokerType
  <2>5. ASSUME NEW m \in inbox'
        PROVE  \/ \E n \in inbox : n.task = m.task
               \/ InRequest(Worker) /\ m.task = actor[Worker].task
    <3> HIDE DEF current
    <3>1. m \in inbox \/ \E n \in current \cup prefetched : m = Redelivered(n)
      BY <2>1, <2>5
    <3>2. QED
      BY <2>2, <2>3, <2>4, <3>1
  <2>6. UNCHANGED <<requests, replies, deadLetters>>
    BY <1>2 DEF WorkerCrash
  <2> HIDE DEF current
  <2>7. \A m \in Published' : \/ \E n \in Published : n.task = m.task
                              \/ InRequest(Worker) /\ m.task = actor[Worker].task
    BY <2>5, <2>6 DEF Published
  <2>8. QED
    BY <1>1, <2>7, MessagesMove
<1>3. CASE \E m \in requests : RequestAnswered(m)
  <2>1. PICK m \in requests : RequestAnswered(m)
    BY <1>3
  <2>2. PICK outcome \in {"ok", "transient_error", "invalid_data"} :
          /\ replies' = replies \cup {Answer(m, outcome)}
          /\ inbox' = inbox \cup {Answer(m, outcome)}
    BY <2>1 DEF RequestAnswered
  <2>3. Answer(m, outcome).task = m.task
    <3>1. m \in Message
      BY DEF TypeOK, BrokerType
    <3>2. QED
      BY <3>1 DEF Answer, Message
  <2>4. \A n \in Published' : n \in Published \/ n = Answer(m, outcome)
    BY <2>1, <2>2 DEF RequestAnswered, Published
  <2>5. m \in Published
    BY DEF Published
  <2>6. \A n \in Published' : \E o \in Published : o.task = n.task
    BY <2>3, <2>4, <2>5
  <2>7. QED
    BY <1>1, <2>6, MessagesMove
<1>4. CASE \/ \E m \in deadLetters :
                \/ HandleDeadLetter(m) \/ HandleDeadLetterUnacknowledged(m)
                \/ DeadLetterLost(m)
           \/ \E m \in inbox : HandlerRaises(m)
           \/ \E m \in requests : RequestDeadLettered(m)
           \/ \E m \in replies : AnswerSentAgain(m)
           \/ ApiCrash
           \/ \E t \in Tasks : DeadlinePasses(t)
           \/ UNCHANGED vars
  <2>1. Published' \subseteq Published
    BY <1>4 DEF Published, HandleDeadLetter, HandleDeadLetterUnacknowledged, DeadLetterLost,
                HandlerRaises, RequestDeadLettered, AnswerSentAgain, ApiCrash, DeadlinePasses,
                broker, vars
  <2>2. QED
    BY <1>1, <2>1, MessagesMove
<1>5. ASSUME NEW m \in replies, AnsweredRequestDeadLettered(m) PROVE Exclusive'
  <2>1. Published' \subseteq Published \cup {RequestOf(m)}
    BY <1>5 DEF Published, AnsweredRequestDeadLettered
  <2>2. RequestOf(m).task = m.task
    BY DEF RequestOf, TypeOK, BrokerType, Message
  <2>3. m \in Published
    BY DEF Published
  <2>4. \A n \in Published' : \E o \in Published : o.task = n.task
    BY <2>1, <2>2, <2>3
  <2>5. QED
    BY <1>1, <2>4, MessagesMove
<1>6. QED
  BY <1>2, <1>3, <1>4, <1>5

(* No step puts two handlers on one task.                                  *)
LEMMA ExclusiveStep ==
  ASSUME TypeOK, Exclusive, [Next]_vars, \A t \in Tasks : Created(t) => Created(t)'
  PROVE  Exclusive'
<1>1. ASSUME NEW a \in Actors, Act(a) \/ Raises(a) PROVE Exclusive'
  BY <1>1, ActExclusive
<1>2. ASSUME NEW t \in Tasks, CreateOrder(t) PROVE Exclusive'
  BY <1>2, OrderOpens
<1>3. ASSUME NEW m \in inbox, Handle(m) PROVE Exclusive'
  BY <1>3, HandleExclusive
<1>4. QED
  BY <1>1, <1>2, <1>3, MovesExclusive
  DEF Next, WorkerStep, Disturbance, WorkerRaises, ApiRaises, Actors

-----------------------------------------------------------------------------
(* A decision holds from the snapshot it is taken on to its transaction.   *)

Holds(row, d) ==
  d.action = "ABORT" \/ row.status = "DEAD_LETTERED" \/ StillHolds(row, d)

(* When it is taken.                                                       *)
LEMMA TakenHolds ==
  ASSUME TypeOK, Coordinated, NEW a \in Actors, TakeDecision(a)
  PROVE  /\ At(a, "execute")' /\ actor'[a].task = actor[a].task
         /\ Holds(task[actor[a].task], actor'[a].decision)
<1> DEFINE t == actor[a].task
<1>1. PICK s \in Snapshots(t) : \E o \in EngineOutputs(s) :
        actor' = [actor EXCEPT ![a].pc = "execute", ![a].decision = Executed(s, o)]
  BY DEF TakeDecision
<1>2. PICK o \in EngineOutputs(s) :
        actor' = [actor EXCEPT ![a].pc = "execute", ![a].decision = Executed(s, o)]
  BY <1>1
<1> DEFINE d == Executed(s, o)
<1>3. t \in Tasks /\ Created(t) /\ task[t] \in TaskRow /\ actor[a] \in ActorState
  BY CreatedTask DEF TakeDecision, InRequest, At, TypeOK, DatabaseType, ActorType
<1>4. /\ s.phase = task[t].status /\ s.currentTarget = task[t].target
      /\ s.attempt = task[t].attempt /\ s.waits = task[t].waits
      /\ s.fallbackUsed = task[t].fallbackUsed
  BY DEF Snapshots, Snapshot
<1>5. s.attempt \in Nat /\ s.waits \in Nat /\ s.currentTarget \in Targets
  BY <1>3, <1>4 DEF TaskRow
<1>6. o.timedOut \in BOOLEAN
  BY <1>5, OutputType, ActorsAssumption
<1>7. /\ d.action = "CONTINUE" => s.currentTarget = None
      /\ d.action = "RETRY"    => s.currentTarget = Primary /\ s.attempt < MaxAttempts
      /\ d.action = "WAIT"     => s.waits < MaxWaits
      /\ d.action = "FALLBACK" => d.target = Fallback /\ ~s.fallbackUsed
      /\ d.action # "ABORT"    => s.phase \notin TerminalStatuses
  BY <1>5, <1>6, ExecutedWithinLimits DEF Executed
<1> HIDE DEF d
<1>8. Holds(task[t], d)
  <2>1. s.phase \notin TerminalStatuses => task[t].status \in ActiveStatuses
    BY <1>3, <1>4 DEF TaskRow, TaskStatuses, Created
  <2>2. QED
    BY <1>4, <1>7, <2>1 DEF Holds, StillHolds
<1>9. actor'[a].pc = "execute" /\ actor'[a].task = t /\ actor'[a].decision = d
  BY <1>2, <1>3 DEF d, ActorState, TypeOK, ActorType
<1>10. QED
  BY <1>8, <1>9 DEF At

(* A handler at a decision point.                                          *)
Deciding(b) == At(b, "build") \/ At(b, "execute")

(* While another actor moves: the row is another task's, or a dead letter  *)
(* is recorded.                                                            *)
LEMMA RowOfDecision ==
  ASSUME TypeOK, Coordinated, [Next]_vars, NEW b \in Actors, Deciding(b), actor'[b] = actor[b]
  PROVE  \/ /\ task'[actor[b].task] = task[actor[b].task]
            /\ events'[actor[b].task] = events[actor[b].task]
         \/ task'[actor[b].task].status = "DEAD_LETTERED"
         \/ Terminal(actor[b].task)
             /\ task'[actor[b].task].status = task[actor[b].task].status
<1> DEFINE u == actor[b].task
           Kept == task'[u] = task[u] /\ events'[u] = events[u]
<1>1. /\ u \in Tasks /\ Created(u) /\ InRequest(b) /\ task \in [Tasks -> TaskRow]
      /\ events \in [Tasks -> Seq(EventRow)]
  BY CreatedTask DEF Deciding, InRequest, At, TypeOK, DatabaseType
<1>2. Worker \in Actors /\ Tasks \subseteq Actors /\ Worker \notin Tasks
  BY ActorsAssumption DEF Actors
<1>3. \A t \in Tasks : \A row, rows : Write(t, row, rows) /\ t # u => Kept
  BY <1>1 DEF Write
<1>4. ASSUME NEW t \in Tasks, CreateOrder(t) PROVE Kept
  BY <1>1, <1>3, <1>4 DEF CreateOrder
<1>5. ASSUME NEW a \in Actors, Act(a) PROVE Kept
  <2>1. CASE UNCHANGED <<task, events>>
    BY <2>1
  <2>2. CASE ~UNCHANGED <<task, events>>
    <3>1. At(a, "execute") /\ \E row, rows : Write(actor[a].task, row, rows)
      <4>1. \/ ExecuteContinue(a) \/ ExecuteRetry(a) \/ ExecuteWait(a)
            \/ ExecuteFallback(a) \/ (ExecuteAbort(a) /\ ~Terminal(actor[a].task))
        BY <1>5, <2>2 DEF Act, ExecuteDecision, TakeDecision, SendNext, Return, ExecuteRaises,
                          ExecuteAbort, database
      <4>2. QED
        BY <4>1 DEF ExecuteContinue, ExecuteRetry, ExecuteWait, ExecuteFallback, ExecuteAbort,
                    Executing
    <3>2. At(a, "effects")'
      <4>1. \E messages : ThenSend(a, messages)
        BY <1>5, <2>2 DEF Act, ExecuteDecision, TakeDecision, SendNext, Return, ExecuteRaises,
                          ExecuteContinue, ExecuteRetry, ExecuteWait, ExecuteFallback,
                          ExecuteAbort, database
      <4>2. actor[a] \in ActorState
        BY DEF TypeOK, ActorType
      <4>3. QED
        BY <4>1, <4>2 DEF ThenSend, At, TypeOK, ActorType, ActorState
    <3>3. a # b
      BY <3>2 DEF Deciding, At
    <3>4. actor[a].task # u
      <4>1. CASE a \in Tasks /\ b \in Tasks
        BY <1>1, <3>1, <3>3, <4>1 DEF Deciding, Coordinated, OwnTask, InRequest, At
      <4>2. CASE a \in Tasks /\ b = Worker
        BY <1>1, <3>1, <4>2 DEF Deciding, Coordinated, OwnTask, AloneAtFirst, InRequest, At
      <4>3. CASE a = Worker /\ b \in Tasks
        BY <1>1, <3>1, <4>3 DEF Deciding, Coordinated, OwnTask, AloneAtFirst, InRequest, At
      <4>4. QED
        BY <3>3, <4>1, <4>2, <4>3 DEF Actors
    <3>5. actor[a].task \in Tasks
      BY <3>1, CreatedTask DEF InRequest, At
    <3>6. QED
      BY <1>3, <3>1, <3>4, <3>5
  <2>3. QED
    BY <2>1, <2>2
<1>6. ASSUME NEW m \in inbox, Handle(m) PROVE Kept
  <2>1. /\ At(Worker, "idle")
        /\ \/ UNCHANGED <<task, events>>
           \/ \E row, rows : Write(m.task, row, rows)
           \/ task' = task /\ (\E rows : events' = [events EXCEPT ![m.task] = rows])
    BY <1>6 DEF Handle, HandleRepeated, HandleSucceeded, HandleFailed, HandleTimeout,
                HandleReevaluate, HandleDispatch, HandleStale, Begin, database
  <2>2. b \in Tasks /\ u = b
    BY <1>1, <2>1 DEF Deciding, At, Actors, Coordinated, OwnTask
  <2>3. m.task # u
    BY <1>1, <2>2 DEF Deciding, Coordinated, AloneAtFirst
  <2>4. m.task \in Tasks
    BY CreatedTask
  <2>5. ASSUME task' = task, NEW rows, events' = [events EXCEPT ![m.task] = rows]
        PROVE  Kept
    BY <1>1, <2>3, <2>4, <2>5
  <2>6. QED
    BY <1>3, <2>1, <2>3, <2>4, <2>5
<1>7. ASSUME NEW m \in deadLetters, RecordDeadLetter(m)
      PROVE  \/ Kept \/ task'[u].status = "DEAD_LETTERED"
             \/ Terminal(u) /\ task'[u].status = task[u].status
  <2> DEFINE t   == m.task
             c   == [task[t] EXCEPT !.status = "DEAD_LETTERED"]
             row == Numbered(IF Terminal(t) THEN task[t] ELSE c)
  <2>1. t \in Tasks /\ \E rows : Write(t, row, rows)
    BY <1>7, CreatedTask DEF RecordDeadLetter
  <2>2. CASE t # u
    <3> HIDE DEF row
    <3>1. QED
      BY <1>3, <2>1, <2>2
  <2>3. CASE t = u
    <3>1. task'[u] = row
      <4> HIDE DEF row
      <4>1. QED
        BY <1>1, <2>1, <2>3 DEF Write
    <3>2. CASE Terminal(u)
      BY <1>1, <2>3, <3>1, <3>2 DEF Numbered, TaskRow
    <3>3. CASE ~Terminal(u)
      <4>1. task[u] \in TaskRow
        BY <1>1
      <4>2. row.status = "DEAD_LETTERED"
        BY <2>3, <3>3, <4>1 DEF Numbered, TaskRow
      <4>3. QED
        BY <3>1, <4>2
    <3>4. QED
      BY <3>2, <3>3
  <2>4. QED
    BY <2>2, <2>3
<1>8. CASE UNCHANGED <<task, events>>
  BY <1>8
<1>9. CASE \/ UNCHANGED vars \/ WorkerRaises \/ WorkerCrash \/ ApiCrash
           \/ \E t \in Tasks : ApiRaises(t) \/ DeadlinePasses(t)
           \/ \E m \in inbox : HandlerRaises(m)
           \/ \E m \in deadLetters : DeadLetterLost(m)
           \/ \E m \in requests : RequestAnswered(m) \/ RequestDeadLettered(m)
           \/ \E m \in replies : AnswerSentAgain(m) \/ AnsweredRequestDeadLettered(m)
  <2>1. UNCHANGED <<task, events>>
    BY <1>9 DEF vars, WorkerRaises, ApiRaises, Raises, WorkerCrash, ApiCrash, DeadlinePasses,
                HandlerRaises, DeadLetterLost, RequestAnswered, RequestDeadLettered,
                AnswerSentAgain, AnsweredRequestDeadLettered, database
  <2>2. QED
    BY <2>1
<1>10. QED
  BY <1>4, <1>5, <1>6, <1>7, <1>9
  DEF Next, WorkerStep, Disturbance, Actors, HandleDeadLetter, HandleDeadLetterUnacknowledged

(* Only TakeDecision brings a handler to the executor.                     *)
LEMMA OnlyTakenExecute ==
  ASSUME TypeOK, [Next]_vars, NEW b \in Actors, At(b, "execute")'
  PROVE  TakeDecision(b) \/ actor'[b] = actor[b]
<1>1. actor \in [Actors -> ActorState] /\ Worker \in Actors
  BY DEF TypeOK, ActorType, Actors
<1>2. \A a, r : actor' = [actor EXCEPT ![a] = r] /\ a # b => actor'[b] = actor[b]
  BY <1>1
<1>3. \A r : actor' = [actor EXCEPT ![b] = r] => r.pc = "execute"
  BY <1>1 DEF At
<1>4. Free.pc # "execute" /\ Finished.pc # "execute"
  BY DEF Free, Finished
<1>5. ASSUME NEW t \in Tasks, CreateOrder(t) PROVE actor'[b] = actor[b]
  <2>1. [Free EXCEPT !.pc = "build", !.task = t].pc = "build"
    BY DEF Free
  <2>2. QED
    BY <1>2, <1>3, <1>5, <2>1 DEF CreateOrder
<1>6. ASSUME NEW a \in Actors, Reject(a) PROVE actor'[b] = actor[b]
  BY <1>2, <1>3, <1>4, <1>6 DEF Reject
<1>7. ASSUME NEW a \in Actors, Act(a) PROVE TakeDecision(b) \/ actor'[b] = actor[b]
  <2>1. CASE a # b
    <3>1. \/ \E r : actor' = [actor EXCEPT ![a] = r]
          \/ Reject(a)
      BY <1>7 DEF Act, ExecuteDecision, TakeDecision, SendNext, Return, ExecuteRaises,
                  ExecuteContinue, ExecuteRetry, ExecuteWait, ExecuteFallback, ExecuteAbort,
                  ThenSend
    <3>2. QED
      BY <1>2, <1>6, <2>1, <3>1
  <2>2. CASE a = b
    <3>1. \A messages : ~ThenSend(b, messages)
      BY <1>1 DEF ThenSend, At, ActorState
    <3>2. ~SendNext(b)
      BY <1>1 DEF SendNext, At, ActorState
    <3>3. ~Return(b)
      BY <1>3, <1>4 DEF Return
    <3>4. QED
      BY <1>6, <1>7, <2>2, <3>1, <3>2, <3>3
      DEF Act, ExecuteDecision, ExecuteContinue, ExecuteRetry, ExecuteWait, ExecuteFallback,
          ExecuteAbort, ExecuteRaises
  <2>3. QED
    BY <2>1, <2>2
<1>8. ASSUME NEW m \in inbox, Handle(m) PROVE actor'[b] = actor[b]
  <2>1. PICK pc \in {"build", "effects"} : \E messages : Begin(m, pc, messages)
    BY <1>8 DEF Handle, HandleRepeated, HandleSucceeded, HandleFailed, HandleTimeout,
                HandleReevaluate, HandleDispatch, HandleStale
  <2>2. PICK messages : Begin(m, pc, messages)
    BY <2>1
  <2>3. [pc |-> pc, task |-> m.task, msg |-> m,
         decision |-> NoDecision, effects |-> messages].pc # "execute"
    OBVIOUS
  <2>4. QED
    BY <1>2, <1>3, <2>2, <2>3 DEF Begin
<1>9. ASSUME WorkerRaises \/ \E t \in Tasks : ApiRaises(t) PROVE actor'[b] = actor[b]
  BY <1>1, <1>6, <1>9 DEF WorkerRaises, ApiRaises, Raises, Actors
<1>10. ASSUME WorkerCrash PROVE actor'[b] = actor[b]
  BY <1>2, <1>3, <1>4, <1>10 DEF WorkerCrash
<1>11. ASSUME ApiCrash PROVE actor'[b] = actor[b]
  BY <1>1, <1>4, <1>11 DEF ApiCrash, At
<1>12. CASE \/ UNCHANGED vars
            \/ \E t \in Tasks : DeadlinePasses(t)
            \/ \E m \in inbox : HandlerRaises(m)
            \/ \E m \in deadLetters : \/ HandleDeadLetter(m) \/ HandleDeadLetterUnacknowledged(m)
                                      \/ DeadLetterLost(m)
            \/ \E m \in requests : RequestAnswered(m) \/ RequestDeadLettered(m)
            \/ \E m \in replies : AnswerSentAgain(m) \/ AnsweredRequestDeadLettered(m)
  <2>1. UNCHANGED actor
    BY <1>12 DEF vars, DeadlinePasses, HandlerRaises, HandleDeadLetter,
                 HandleDeadLetterUnacknowledged, DeadLetterLost, RequestAnswered,
                 RequestDeadLettered, AnswerSentAgain, AnsweredRequestDeadLettered
  <2>2. QED
    BY <2>1
<1>13. QED
  BY <1>5, <1>7, <1>8, <1>9, <1>10, <1>11, <1>12 DEF Next, WorkerStep, Disturbance, Actors

(* A decision is still good when its transaction comes.                    *)
LEMMA DecisionsHoldStep ==
  ASSUME TypeOK, Coordinated, [Next]_vars
  PROVE  DecisionsHold'
<1> SUFFICES ASSUME NEW b \in Actors, At(b, "execute")'
             PROVE  Holds(task'[actor'[b].task], actor'[b].decision)
  BY DEF DecisionsHold, Holds
<1>1. CASE TakeDecision(b)
  BY <1>1, TakenHolds DEF TakeDecision, database
<1>2. CASE actor'[b] = actor[b]
  <2> DEFINE u == actor[b].task
  <2>1. At(b, "execute") /\ Holds(task[u], actor[b].decision)
    BY <1>2 DEF At, Coordinated, DecisionsHold, Holds
  <2>2. CASE task'[u] = task[u]
    BY <1>2, <2>1, <2>2
  <2>3. CASE task'[u].status = "DEAD_LETTERED"
    BY <1>2, <2>3 DEF Holds
  <2>4. CASE Terminal(u) /\ task'[u].status = task[u].status
    BY <1>2, <2>1, <2>4 DEF Holds, StillHolds, Terminal, TerminalStatuses, ActiveStatuses
  <2>5. QED
    BY <1>2, <2>1, <2>2, <2>3, <2>4, RowOfDecision DEF Deciding
<1>3. QED
  BY <1>1, <1>2, OnlyTakenExecute

-----------------------------------------------------------------------------
(* The invariant and what follows from it.                                 *)

Safe == TypeOK /\ Coordinated /\ AllSound

(* Nothing is created and nobody is at work.                               *)
LEMMA InitSafe == ASSUME Init PROVE Safe /\ Lifecycle!Init
<1>1. TypeOK
  BY InitType
<1>2. Coordinated
  <2>1. \A a \in Actors : ~InRequest(a) /\ ~At(a, "execute")
    BY DEF Init, InRequest, At, Free
  <2>2. \A t \in Tasks : ~Created(t)
    BY DEF Init, Created, AbsentRow
  <2>3. Worker \in Actors /\ Tasks \subseteq Actors
    BY DEF Actors
  <2>4. inbox \cup requests \cup replies \cup deadLetters = {}
    BY DEF Init
  <2>5. QED
    BY <2>1, <2>2, <2>3, <2>4
    DEF Coordinated, OwnTask, AloneAtFirst, DecisionsHold, UnroutedNotDispatched
<1>3. Lifecycle!Init
  <2>1. Shape(AbsentRow) = Lifecycle!absent
    BY LifecycleWords DEF Shape, AbsentRow, Lifecycle!absent
  <2>2. QED
    BY <2>1 DEF Init, Lifecycle!Init, Shapes
<1>4. AllSound
  <2>1. Lifecycle!absent \in ShapeType /\ Lifecycle!absent.status = "ABSENT"
        /\ Lifecycle!absent.attempt = 1 /\ Lifecycle!absent.waits = 0
    BY LifecycleWords DEF Lifecycle!absent, ShapeType, Targets
  <2>2. Sound(Lifecycle!absent, "ABSENT")
    BY <2>1, LimitsAssumption DEF Sound, ActiveStatuses
  <2>3. QED
    BY <1>3, <2>2 DEF AllSound, Lifecycle!Init
<1>5. QED
  BY <1>1, <1>2, <1>3, <1>4 DEF Safe

(* Every step keeps the invariant and is a transition of the lifecycle.    *)
LEMMA SafeStep == ASSUME Safe, [Next]_vars PROVE Safe' /\ Follows
<1>1. TypeOK' /\ Follows
  BY TypeStep, LifecycleStep DEF Safe
<1>2. AllSound' /\ \A t \in Tasks : Created(t) => Created(t)'
  BY <1>1, LifecycleKeeps DEF Safe
<1>3. Exclusive'
  BY <1>2, ExclusiveStep DEF Safe, Coordinated, Exclusive
<1>4. DecisionsHold'
  BY DecisionsHoldStep DEF Safe
<1>5. UnroutedNotDispatched'
  <2>1. (TypeOK /\ AllSound => UnroutedNotDispatched)'
    BY SoundRows, PTL
  <2>2. QED
    BY <1>1, <1>2, <2>1
<1>6. QED
  BY <1>1, <1>2, <1>3, <1>4, <1>5 DEF Safe, Coordinated, Exclusive

(* The state of the system is safe and its steps are transitions.          *)
LEMMA AlwaysSafe == Spec => []Safe /\ Lifecycle!Init /\ [][Follows]_vars
<1>1. Safe /\ [Next]_vars => Safe' /\ Follows
  BY SafeStep
<1>2. QED
  BY InitSafe, <1>1, PTL DEF Spec

(* One decision is in progress for a task at a time, however the API       *)
(* process, the worker and the dead-letter consumer interleave; and what   *)
(* the validator checked still holds when the executor's transaction runs, *)
(* unless a dead letter ended the task in between.                         *)
THEOREM CoordinationHolds == Spec => []Coordinated
<1>1. Safe => Coordinated
  BY DEF Safe
<1>2. QED
  BY AlwaysSafe, <1>1, PTL

(* For any max_attempts and max_waits and any engine, no interleaving of   *)
(* decisions, repeated and late messages takes a task past its limits.     *)
THEOREM LimitsAlwaysHold == Spec => []LimitsHold
<1>1. Safe => LimitsHold
  BY SoundRows DEF Safe
<1>2. QED
  BY AlwaysSafe, <1>1, PTL

(* orders.status is what order_status_for says of tasks.status in every    *)
(* state, for every writer of the two tables.                              *)
THEOREM OrderAlwaysMirrorsTask == Spec => []OrderMirrorsTask
<1>1. Safe => OrderMirrorsTask
  BY SoundRows DEF Safe
<1>2. QED
  BY AlwaysSafe, <1>1, PTL

(* The executor raises after a dead letter only.                           *)
LEMMA RaisesExplained ==
  ASSUME Safe
  PROVE  RaisesOnlyIfDeadLettered
<1> SUFFICES ASSUME NEW a \in Actors, At(a, "execute"),
                    task[actor[a].task].status # "DEAD_LETTERED"
             PROVE  Applicable(actor[a].task, actor[a].decision)
  BY DEF RaisesOnlyIfDeadLettered
<1> DEFINE t == actor[a].task
           d == actor[a].decision
<1>1. t \in Tasks /\ Created(t)
  BY CreatedTask DEF Safe, InRequest, At
<1>2. CASE d.action = "ABORT"
  BY <1>2 DEF Applicable
<1>3. CASE StillHolds(task[t], d)
  <2>1. ~Terminal(t)
    BY <1>3 DEF StillHolds, Terminal, ActiveStatuses, TerminalStatuses
  <2>2. task[t].target = None => task[t].status \in {"PENDING", "WAITING"}
    BY <1>1, <2>1 DEF Safe, Coordinated, UnroutedNotDispatched
  <2> QED
    BY <1>3, <2>1, <2>2 DEF StillHolds, Applicable, Primary, None
<1> QED
  BY <1>2, <1>3 DEF Safe, Coordinated, DecisionsHold

(* The RuntimeErrors of the executor (executor.py: the row did not move)   *)
(* are raised only when the consumer of tasks.dlq ended the task while     *)
(* the decision was being taken.                                           *)
THEOREM RaisedOnlyAfterDeadLetter == Spec => []RaisesOnlyIfDeadLettered
  BY RaisesExplained, AlwaysSafe, PTL

(* The orders-service, with its messages, processes and crashes, refines   *)
(* the lifecycle of its tasks: each transaction is one transition of one   *)
(* task with its order, or changes neither.                                *)
THEOREM CoordinationRefinesLifecycle == Spec => ImplementsLifecycle
<1>1. UNCHANGED vars => UNCHANGED <<Shapes, order>>
  BY DEF vars, Shapes, Shape
<1>2. QED
  BY AlwaysSafe, <1>1, PTL DEF Follows, ImplementsLifecycle, Lifecycle!Spec

-----------------------------------------------------------------------------
(* A task that ended.                                                      *)

(* What a transaction on another task does to it, and one that numbers a   *)
(* late message in its own trajectory.                                     *)
LEMMA EndedKept ==
  ASSUME DatabaseType, NEW t \in Tasks, NEW u \in Tasks, NEW row, NEW rows, Write(u, row, rows),
         u # t \/ row = [task[t] EXCEPT !.seq = @ + 1]
  PROVE  task'[t] = [task[t] EXCEPT !.seq = task'[t].seq]
<1>1. task'[t] = IF u = t THEN row ELSE task[t]
  BY DEF DatabaseType, Write
<1>2. task[t] \in TaskRow
  BY DEF DatabaseType
<1>3. QED
  BY <1>1, <1>2 DEF TaskRow

(* No step moves a task that ended, nor its order.                         *)
LEMMA EndedStep ==
  ASSUME TypeOK, Coordinated, [Next]_vars, NEW t \in Tasks, Terminal(t)
  PROVE  task'[t] = [task[t] EXCEPT !.seq = task'[t].seq] /\ order'[t] = order[t]
<1> DEFINE Kept == task'[t] = [task[t] EXCEPT !.seq = task'[t].seq] /\ order'[t] = order[t]
<1>1. DatabaseType /\ task[t] \in TaskRow /\ order \in [Tasks -> OrderStatuses]
  BY DEF TypeOK, DatabaseType
<1>2. \A u \in Tasks : \A row, rows :
        Write(u, row, rows) /\ u # t => task'[t] = [task[t] EXCEPT !.seq = task'[t].seq]
  BY <1>1, EndedKept
<1>3. \A u \in Tasks : \A status : u # t => [order EXCEPT ![u] = status][t] = order[t]
  BY <1>1
<1>4. ASSUME NEW u \in Tasks, CreateOrder(u) PROVE Kept
  <2>1. u # t
    BY <1>4 DEF CreateOrder, Created, Terminal, TerminalStatuses
  <2>2. QED
    BY <1>2, <1>3, <1>4, <2>1 DEF CreateOrder
<1>5. ASSUME NEW a \in Actors, Act(a) PROVE Kept
  <2>1. CASE UNCHANGED <<task, order>>
    BY <1>1, <2>1 DEF TaskRow
  <2>2. CASE ~UNCHANGED <<task, order>>
    <3>1. \/ ExecuteContinue(a) \/ ExecuteRetry(a) \/ ExecuteWait(a)
          \/ ExecuteFallback(a) \/ (ExecuteAbort(a) /\ ~Terminal(actor[a].task))
      BY <1>5, <2>2 DEF Act, ExecuteDecision, TakeDecision, SendNext, Return, ExecuteRaises,
                        ExecuteAbort, database
    <3>2. At(a, "execute") /\ \E row, rows : Write(actor[a].task, row, rows)
      BY <3>1 DEF ExecuteContinue, ExecuteRetry, ExecuteWait, ExecuteFallback, ExecuteAbort,
                  Executing
    <3>3. order' = order \/ \E status : order' = [order EXCEPT ![actor[a].task] = status]
      BY <3>1 DEF ExecuteContinue, ExecuteRetry, ExecuteWait, ExecuteFallback, ExecuteAbort
    <3>4. ~Terminal(actor[a].task)
      BY <3>1 DEF ExecuteContinue, ExecuteRetry, ExecuteWait, ExecuteFallback, Terminal,
                  TerminalStatuses
    <3>5. actor[a].task \in Tasks /\ actor[a].task # t
      BY <3>2, <3>4, CreatedTask DEF InRequest, At
    <3>6. QED
      BY <1>2, <1>3, <3>2, <3>3, <3>5
  <2>3. QED
    BY <2>1, <2>2
<1>6. ASSUME NEW m \in inbox, Handle(m) PROVE Kept
  <2>1. m.task \in Tasks
    BY CreatedTask
  <2>2. CASE UNCHANGED <<task, order>>
    BY <1>1, <2>2 DEF TaskRow
  <2>3. CASE m.task # t
    <3>1. \/ UNCHANGED <<task, order>>
          \/ /\ \E row, rows : Write(m.task, row, rows)
             /\ order' = order \/ \E status : order' = [order EXCEPT ![m.task] = status]
      BY <1>6 DEF Handle, HandleRepeated, HandleSucceeded, HandleFailed, HandleTimeout,
                  HandleReevaluate, HandleDispatch, HandleStale, database
    <3>2. QED
      BY <1>2, <1>3, <2>1, <2>2, <2>3, <3>1
  <2>4. CASE m.task = t /\ HandleSucceeded(m)
    <3>1. order' = order /\ \E rows : Write(t, Numbered(task[t]), rows)
      BY <2>4 DEF HandleSucceeded
    <3>2. QED
      BY <1>1, <3>1, EndedKept DEF Numbered
  <2>5. CASE m.task = t /\ HandleFailed(m)
    <3> DEFINE received == Numbered(task[t])
    <3>1. order' = order
          /\ \E rows : Write(t, [received EXCEPT !.lastResult = received.lastResult], rows)
      BY <2>5 DEF HandleFailed
    <3>2. [received EXCEPT !.lastResult = received.lastResult] = [task[t] EXCEPT !.seq = @ + 1]
      BY <1>1 DEF Numbered, TaskRow
    <3>3. QED
      BY <1>1, <3>1, <3>2, EndedKept
  <2>6. CASE m.task = t /\ (HandleTimeout(m) \/ HandleReevaluate(m) \/ HandleDispatch(m))
    BY <2>6 DEF HandleTimeout, TimeoutApplies, HandleReevaluate, WaitApplies, HandleDispatch,
                Terminal, TerminalStatuses
  <2>7. QED
    BY <1>6, <2>2, <2>3, <2>4, <2>5, <2>6 DEF Handle, HandleRepeated, HandleStale, database
<1>7. ASSUME NEW m \in deadLetters, RecordDeadLetter(m) PROVE Kept
  <2>1. m.task \in Tasks
    BY CreatedTask
  <2>2. CASE m.task = t
    <3>1. order' = order /\ \E rows : Write(t, Numbered(task[t]), rows)
      BY <1>7, <2>2 DEF RecordDeadLetter
    <3>2. QED
      BY <1>1, <3>1, EndedKept DEF Numbered
  <2>3. CASE m.task # t
    <3>1. /\ \E row, rows : Write(m.task, row, rows)
          /\ order' = order \/ \E status : order' = [order EXCEPT ![m.task] = status]
      BY <1>7 DEF RecordDeadLetter
    <3>2. QED
      BY <1>2, <1>3, <2>1, <2>3, <3>1
  <2>4. QED
    BY <2>2, <2>3
<1>8. CASE \/ UNCHANGED vars \/ WorkerRaises \/ WorkerCrash \/ ApiCrash
           \/ \E u \in Tasks : ApiRaises(u) \/ DeadlinePasses(u)
           \/ \E m \in inbox : HandlerRaises(m)
           \/ \E m \in deadLetters : DeadLetterLost(m)
           \/ \E m \in requests : RequestAnswered(m) \/ RequestDeadLettered(m)
           \/ \E m \in replies : AnswerSentAgain(m) \/ AnsweredRequestDeadLettered(m)
  <2>1. UNCHANGED <<task, order>>
    BY <1>8 DEF vars, WorkerRaises, ApiRaises, Raises, WorkerCrash, ApiCrash, DeadlinePasses,
                HandlerRaises, DeadLetterLost, RequestAnswered, RequestDeadLettered,
                AnswerSentAgain, AnsweredRequestDeadLettered, database
  <2>2. QED
    BY <1>1, <2>1 DEF TaskRow
<1>9. QED
  BY <1>4, <1>5, <1>6, <1>7, <1>8
  DEF Next, WorkerStep, Disturbance, Actors, HandleDeadLetter, HandleDeadLetterUnacknowledged

(* docs/05, 5.1: no decision acts on a terminal task; nor does a late      *)
(* reply, timeout, wait or dead letter, which only take a number in its    *)
(* trajectory.                                                             *)
THEOREM TerminalAlwaysFinal == Spec => TerminalIsFinal
<1>1. ASSUME Safe, [Next]_vars
      PROVE  \A t \in Tasks : Terminal(t) =>
               /\ task'[t] = [task[t] EXCEPT !.seq = task'[t].seq]
               /\ order'[t] = order[t]
  BY <1>1, EndedStep DEF Safe
<1>2. QED
  BY <1>1, AlwaysSafe, PTL DEF Spec, TerminalIsFinal
=============================================================================
