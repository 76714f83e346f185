CONSTANTS
  t1 = t1
  Tasks <- OneTask
  Worker = worker
  Engine = "LLM"
  MaxAttempts = 1
  MaxWaits = 1
  TaskDeadline = 60000
  QueueHighWatermark = 20
  MaxCrashes = 0
  MaxFailures = 1
  MaxLosses = 1
  MaxReemissions = 0

SPECIFICATION Spec

\* the service stops when its tasks have ended and nothing is in flight
CHECK_DEADLOCK FALSE

INVARIANT TypeOK
INVARIANT LimitsHold
INVARIANT Coordinated
INVARIANT OrderMirrorsTask
PROPERTY TerminalIsFinal
