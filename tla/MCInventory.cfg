CONSTANTS
  t1 = t1
  t2 = t2
  Requests <- WithUnknown
  Unknown = {t2}
  MaxCrashes = 1
  MaxFailures = 1
  MaxDuplicates = 1
  MaxWindows = 1

SPECIFICATION FairSpec

\* the service stops when every request is settled and no window is left
CHECK_DEADLOCK FALSE

INVARIANT InventoryTypeOK
INVARIANT AnsweredOnce
INVARIANT SuccessMeansReserved
INVARIANT NoRequestLost
PROPERTY ImplementsReserveOnce
PROPERTY EveryRequestSettled
PROPERTY NeverHalfUp
