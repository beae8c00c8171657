SPECIFICATION FairSpec
CONSTANTS
  Tasks = {t0, t1, t2}
  FirstTask = t0
  Blocks = {b1, b2, b3, b4}
  FirstStore = b1
  FirstLocks = b2
  NULL = NULL
  MAXFAULTS = 2
INVARIANTS OwnBucket GroupShares OrphansExplained
PROPERTIES KvReturns
CHECK_DEADLOCK FALSE
