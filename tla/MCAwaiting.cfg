CONSTANTS
  t1 = t1
  Tasks <- OneTask
  Worker = worker
  Engine = "RULES"
  MaxAttempts = 2
  MaxWaits = 1
  TaskDeadline = 60000
  QueueHighWatermark = 20
  MaxCrashes = 0
  MaxFailures = 0
  MaxLosses = 0
  MaxReemissions = 0

SPECIFICATION Spec

\* the service stops when its tasks have ended and nothing is in flight
CHECK_DEADLOCK FALSE

INVARIANT AwaitingMeansUnanswered
