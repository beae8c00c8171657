SPECIFICATION Spec
CONSTANTS
  Subjects = {"vtask"}
  Tasks = {t1, t2}
  Watched = {t1}
  Stacks = {s1, s2}
  NrCpus = 2
  NoStack = NoStack
  NrCachedStacks = 1
  StackPages = 2
  RamPages = 32
  PageSize = 4
  LongBits = 16
  MinThreads = 1
  MaxThreads = 2
  CountBound = 1
  Procs = {p1, p2}
  Tracers = {p2}
  Mms = {m1, m2}
  Files = {f1, f2}
  Layout <- MCLayout
  Exe0 = f1
  NoMm = NoMm
  NoFile = NoFile
  ForkBound = 1
  Viewers = {v1, v2}
  Spaces = {a1, a2}
  TaskPages = 2
  VvarPages = 2
  VdsoPages = 1
  StackTop = 10
  PmdPages = 8
  MapWindow = 14
  MinAddr = 6
  MoveTo = {18}
  Others <- MCOthers
  PidPage <- MCPidPage
  Nobody = Nobody
  NoFrame = NoFrame
  NoArea = NoArea
  Children = {k1}
  Threads = {h1}
  Requests <- MCRequests
  Null = Null
  Sharers = {u1, u2, u3}
  FirstTask = u1
  CallBound = 4
  UnshareCalls <- MCUnshareCalls
  CloneSets <- MCCloneSets
  NoObj = NoObj
  Flags = {"THREAD", "SIGHAND", "VM", "FILES", "FS", "IO", "PIDFD", "NEWNS"}
  Signals = {term, winch}
  Fatal = {term}
INVARIANTS ChildPid
CHECK_DEADLOCK FALSE
