CONSTANTS
  Scenarios <- Both
  Fault <- TwoFaults
  Cycles = 2
  MaxAttempts = 2
  MaxFailures = 2
  MaxInterrupts = 3

SPECIFICATION FairSpec

\* the session ends
CHECK_DEADLOCK FALSE

INVARIANT ProtocolTypeOK
INVARIANT ValidHadItsFault
INVARIANT NoOrphanFault
INVARIANT OneValidPerCell
INVARIANT InvalidRecordedOnce
INVARIANT FinishedUnlessForced
INVARIANT PlanAccounted
PROPERTY SessionEnds
