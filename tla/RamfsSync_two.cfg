SPECIFICATION Spec
CONSTANTS
  f1 = f1
  f2 = f2
  w1 = w1
  w2 = w2
  n1 = n1
  n2 = n2
  Files = {f1, f2}
  Names = {n1, n2}
  NameOf <- OwnNames
  Dirs = {d1, d2}
  Flushers = {w1, w2}
  Jobs <- AnyJobs
  Inodes = {i1, i2}
  NoFile = NoFile
  NoDir = NoDir
  NoIno = NoIno
  MAXPAGES = 1
  MAXWRITES = 1
  MAXCRASHES = 0
INVARIANTS SavedKept LoserCovered
PROPERTIES FinalNeverVanishes
