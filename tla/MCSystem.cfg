CONSTANTS
  t1 = t1
  Tasks <- OneTask
  PossibleRequests <- OneAttempt
  Unknown = {}
  Worker = worker
  Engine = "RULES"
  MaxAttempts = 1
  MaxWaits = 1
  TaskDeadline = 60000
  QueueHighWatermark = 20
  MaxCrashes = 1
  MaxFailures = 1
  MaxLosses = 1
  MaxReemissions = 2
  MaxStockCrashes = 1
  MaxStockFailures = 1
  MaxWindows = 1
  MaxDisturbances = 1

SPECIFICATION FairSystem

\* the services stop when every task has ended and every queue is empty
CHECK_DEADLOCK FALSE

INVARIANT StockAgrees
PROPERTY ImplementsInventory
PROPERTY ImplementsCoordination
PROPERTY EveryTaskEndsHere
