---------------------------- MODULE DecisionPoint ----------------------------
(***************************************************************************)
(* The pure part of a decision point of the orders-service: the            *)
(* SYSTEM_STATE an engine sees, the Rules policy, the validator shared by  *)
(* every engine and the resolution of a proposal into the decision that is *)
(* executed (Orchestrator.handle_decision_point, lines 73 to 82).          *)
(*                                                                         *)
(* A SYSTEM_STATE is reduced to the fields the policy and the validator    *)
(* read.  A reason code of a proposal is kept because the validator tells  *)
(* an empty one apart.                                                     *)
(***************************************************************************)
EXTENDS Naturals

CONSTANTS MaxAttempts,         \* messaging.max_attempts
          MaxWaits,            \* messaging.max_waits
          TaskDeadline,        \* messaging.task_deadline_ms
          QueueHighWatermark   \* messaging.queue_high_watermark

(* The configuration is loaded through a pydantic model with positive      *)
(* limits and a non-negative number of waits.                              *)
ASSUME LimitsAssumption ==
  /\ MaxAttempts \in Nat \ {0}
  /\ MaxWaits \in Nat
  /\ TaskDeadline \in Nat \ {0}
  /\ QueueHighWatermark \in Nat \ {0}

None == "none"   \* SQL NULL and Python None

Actions == {"CONTINUE", "RETRY", "WAIT", "FALLBACK", "ABORT"}

Primary  == "inventory.primary"
Fallback == "inventory.fallback"
Routes   == {Primary, Fallback}
Targets  == Routes \cup {None}

(* TaskStatus.PROCESSING exists in the enumeration and is never assigned.  *)
TerminalStatuses == {"COMPLETED", "ABORTED", "DEAD_LETTERED"}
ActiveStatuses   ==
  {"PENDING", "DISPATCHED", "WAITING", "RETRYING", "FALLBACK_PROCESSING"}
TaskStatuses     == ActiveStatuses \cup TerminalStatuses

TransientResults == {"timeout", "transient_error"}
TaskResults      == TransientResults \cup {"ok", "invalid_data", "fallback_failed"}

(* The catalog of the code, and the one text any free text stands for.     *)
ReasonCodes ==
  {"NORMAL_FLOW", "TRANSIENT_RETRY", "PRIMARY_EXHAUSTED", "SERVICE_UNAVAILABLE",
   "SERVICE_UNAVAILABLE_LIMIT", "QUEUE_PRESSURE", "QUEUE_PRESSURE_LIMIT",
   "ATTEMPTS_EXHAUSTED", "FALLBACK_FAILED", "INVALID_DATA", "TASK_DEADLINE_EXCEEDED",
   "UNMAPPED_STATE", "INVALID_DECISION", "LLM_DECISION_TIMEOUT", "TEXT"}

Decisions == [action: Actions, target: Targets, reason: ReasonCodes]

(* What an engine may have read as a decision: text invented by a language *)
(* model is Invented, an empty or absent reason code is None.  NoProposal  *)
(* is an output that could not be read as a decision at all.               *)
Invented   == "invented"
NoProposal == [action |-> "unreadable", target |-> None, reason |-> None]

Decide(action, target, reason) ==
  [action |-> action, target |-> target, reason |-> reason]

ServiceStatus(consumers, lastResult) ==
  IF consumers = 0 THEN "unavailable"
  ELSE IF lastResult \in TransientResults THEN "degraded" ELSE "available"

-----------------------------------------------------------------------------
(* An ordered list of alternatives [when, then]: the first whose condition *)
(* holds.  The last condition of each list below is TRUE.                  *)
FirstMatch(alternatives) ==
  LET holds == {i \in DOMAIN alternatives : alternatives[i].when}
  IN  alternatives[CHOOSE i \in holds : \A j \in holds : i <= j].then

(* Defect: the last attempt allowed is retried once more.                  *)
MayRetryPastLimit(s) == s.lastResult \in TransientResults /\ s.attempt <= MaxAttempts

MayRetry(s) == s.lastResult \in TransientResults /\ s.attempt < MaxAttempts

(* RulesDecisionEngine.policy: the first rule that matches decides.  The   *)
(* RETRY of a task with no target cannot be built; no task that timed out  *)
(* or failed is without one.                                               *)
PolicyRules(s) == <<
  [when |-> s.elapsed >= TaskDeadline,
   then |-> Decide("ABORT", None, "TASK_DEADLINE_EXCEEDED")],
  [when |-> s.lastResult = "invalid_data",
   then |-> Decide("ABORT", None, "INVALID_DATA")],
  [when |-> s.lastResult = "fallback_failed",
   then |-> Decide("ABORT", None, "FALLBACK_FAILED")],
  [when |-> s.service = "unavailable" /\ s.waits < MaxWaits,
   then |-> Decide("WAIT", None, "SERVICE_UNAVAILABLE")],
  [when |-> s.service = "unavailable",
   then |-> Decide("ABORT", None, "SERVICE_UNAVAILABLE_LIMIT")],
  [when |-> s.queueSize >= QueueHighWatermark /\ s.waits < MaxWaits,
   then |-> Decide("WAIT", None, "QUEUE_PRESSURE")],
  [when |-> s.queueSize >= QueueHighWatermark,
   then |-> Decide("ABORT", None, "QUEUE_PRESSURE_LIMIT")],
  [when |-> MayRetry(s),
   then |-> Decide("RETRY", s.currentTarget, "TRANSIENT_RETRY")],
  [when |-> s.lastResult \in TransientResults /\ s.fallbackAvailable /\ ~s.fallbackUsed,
   then |-> Decide("FALLBACK", Fallback, "PRIMARY_EXHAUSTED")],
  [when |-> s.lastResult \in TransientResults,
   then |-> Decide("ABORT", None, "ATTEMPTS_EXHAUSTED")],
  [when |-> s.phase \in {"PENDING", "WAITING"},
   then |-> Decide("CONTINUE", Primary, "NORMAL_FLOW")],
  [when |-> TRUE,
   then |-> Decide("ABORT", None, "UNMAPPED_STATE")] >>

RulesPolicy(s) == FirstMatch(PolicyRules(s))

(* Conditions of the validator.  Defects: a limit off by one, a target     *)
(* nobody looks at, a first dispatch that may be repeated.                 *)
ExceedsAttemptsLate(p, s) == p.action = "RETRY" /\ s.attempt > MaxAttempts

ExceedsAttempts(p, s) == p.action = "RETRY" /\ s.attempt >= MaxAttempts

ForbidsTargetToWaitOnly(p) == p.action = "WAIT" /\ p.target # None

ForbidsTarget(p) == p.action \in {"WAIT", "ABORT"} /\ p.target # None

RepeatsDispatchOnRouteOnly(p, s) == p.action = "CONTINUE" /\ s.currentTarget = Fallback

RepeatsDispatch(p, s) == p.action = "CONTINUE" /\ s.currentTarget # None

(* DecisionValidator._first_error, None when the proposal is valid.        *)
ErrorRules(p, s) == <<
  [when |-> p = NoProposal,                 then |-> "MALFORMED_DECISION"],
  [when |-> p.action \notin Actions,        then |-> "UNKNOWN_ACTION"],
  [when |-> p.target \notin Targets,        then |-> "UNKNOWN_TARGET"],
  [when |-> p.reason = None,                then |-> "MISSING_REASON_CODE"],
  [when |-> s.elapsed >= TaskDeadline /\ p.action # "ABORT",
   then |-> "TASK_DEADLINE_EXCEEDED"],
  [when |-> p.action = "CONTINUE" /\ p.target = Fallback,
   then |-> "INVALID_CONTINUE_TARGET"],
  [when |-> RepeatsDispatch(p, s),
   then |-> "CONTINUE_AFTER_DISPATCH"],
  [when |-> ExceedsAttempts(p, s),
   then |-> "RETRY_LIMIT_EXCEEDED"],
  [when |-> p.action = "RETRY" /\ (p.target = None \/ p.target # s.currentTarget),
   then |-> "INVALID_RETRY_TARGET"],
  [when |-> p.action = "RETRY" /\ p.target = Fallback,
   then |-> "FALLBACK_RETRY_LIMIT"],
  [when |-> p.action = "FALLBACK" /\ ~s.fallbackAvailable,
   then |-> "FALLBACK_NOT_AVAILABLE"],
  [when |-> p.action = "FALLBACK" /\ s.fallbackUsed,
   then |-> "FALLBACK_ALREADY_USED"],
  [when |-> p.action = "FALLBACK" /\ p.target # Fallback,
   then |-> "INVALID_FALLBACK_TARGET"],
  [when |-> ForbidsTarget(p),
   then |-> "TARGET_NOT_ALLOWED"],
  [when |-> p.action = "WAIT" /\ s.waits >= MaxWaits,
   then |-> "WAIT_LIMIT_EXCEEDED"],
  [when |-> s.phase \in TerminalStatuses,   then |-> "TERMINAL_TASK"],
  [when |-> TRUE,                           then |-> None] >>

FirstError(p, s) == FirstMatch(ErrorRules(p, s))

(* DecisionValidator.validate: timedOut, the engine produced no decision.  *)
Validate(p, s, timedOut) ==
  IF timedOut THEN "LLM_DECISION_TIMEOUT" ELSE FirstError(p, s)

(* shared.decision.resolve_action.                                         *)
ResolveAction(p, error) ==
  IF error = "LLM_DECISION_TIMEOUT" THEN Decide("ABORT", None, "LLM_DECISION_TIMEOUT")
  ELSE IF error # None THEN Decide("ABORT", None, "INVALID_DECISION")
  ELSE p

(* The model validator of shared.decision.Decision: resolve_action raises  *)
(* on a valid proposal that breaks it.                                     *)
MeetsContract(d) ==
  /\ d.action \in Actions
  /\ d.target \in Targets
  /\ d.reason # None
  /\ d.action = "CONTINUE" => d.target # Fallback
  /\ d.action \in {"RETRY", "FALLBACK"} => d.target # None
  /\ d.action \in {"WAIT", "ABORT"} => d.target = None
=============================================================================
