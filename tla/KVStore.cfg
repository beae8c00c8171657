SPECIFICATION FairSpec
CONSTANTS
  Threads = {t1, t2}
  Keys <- MCKeys
  Values <- MCValues
  NBUCKETS = 2
  NoThread = NoThread
  Missing = Missing
INVARIANTS UniqueKeys NodeStillValid
PROPERTIES Linearizable CallsReturn
