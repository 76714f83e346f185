CONSTANTS
  t1 = t1
  t2 = t2
  Requests <- OneTask
  Unknown = {}
  MaxCrashes = 0
  MaxFailures = 1
  MaxDuplicates = 0
  MaxWindows = 0

SPECIFICATION FairSpec

\* the service stops when every request is settled
CHECK_DEADLOCK FALSE

PROPERTY StoredAnswerLeaves
