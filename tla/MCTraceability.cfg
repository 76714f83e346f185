CONSTANTS
  t1 = t1
  Tasks <- OneTask
  Worker = worker
  Engine = "RULES"
  MaxAttempts = 1
  MaxWaits = 1
  TaskDeadline = 60000
  QueueHighWatermark = 20
  MaxCrashes = 1
  MaxFailures = 1
  MaxLosses = 1
  MaxReemissions = 1
  MaxDisturbances = 1
  RecentEventsLimit = 3

SPECIFICATION RecordedSpec

\* the service stops when its tasks have ended and nothing is in flight
CHECK_DEADLOCK FALSE

INVARIANT EveryEffectHasItsDecision
INVARIANT TraceabilityDecides
INVARIANT MetricsTellOutcome
INVARIANT PointSeesItsCause
INVARIANT NumberedWithoutGaps
INVARIANT TrajectoryExplainsTask
INVARIANT WaitsEndOnce
