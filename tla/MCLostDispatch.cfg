CONSTANTS
  t1 = t1
  Tasks <- OneTask
  Worker = worker
  Engine = "RULES"
  MaxAttempts = 1
  MaxWaits = 0
  TaskDeadline = 60000
  QueueHighWatermark = 20
  MaxCrashes = 1
  MaxFailures = 0
  MaxLosses = 0
  MaxReemissions = 0

SPECIFICATION FairInventorySpec

\* the service stops when its tasks have ended and nothing is in flight
CHECK_DEADLOCK FALSE

PROPERTY LostDispatchDetected
