CONSTANTS
  Requests = 3
  Interval = 2
  OverloadInterval = 1
  FaultTypes <- EveryFault
  FaultStart = 2
  FaultDuration = 1
  Sampled = {2}
  WindowTasks = 2
  Horizon = 4
  MaxErrors = 1

SPECIFICATION Spec

\* the execution ends
CHECK_DEADLOCK FALSE

INVARIANT OrdersAccounted
INVARIANT AcceptedRunIsComplete
INVARIANT RecoveryIsEarliest
