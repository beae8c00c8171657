SPECIFICATION FairSpec
CONSTANTS
  f1 = f1
  f2 = f2
  w1 = w1
  w2 = w2
  n1 = n1
  n2 = n2
  Files = {f1}
  Names = {n1}
  NameOf <- OneFile
  Dirs = {d1}
  Flushers = {w1}
  Jobs <- OneJob
  Inodes = {i1, i2, i3}
  NoFile = NoFile
  NoDir = NoDir
  NoIno = NoIno
  MAXPAGES = 2
  MAXWRITES = 2
  MAXCRASHES = 1
INVARIANTS FinalWhole FlushExact
PROPERTIES FlushReturns
