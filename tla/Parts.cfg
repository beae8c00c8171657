SPECIFICATION Spec
CONSTANTS
  Subjects = {"ranks", "threads", "capture", "acpi", "tree", "proc"}
  NotUsed = NotUsed
  WorldSize = 3
  Devices = {1, 2, 3}
  Rounds = 2
  Warmups = 1
  GpuCounts = {1, 2, 3}
  SizeCount = 2
  BufferSize = 7
  HeaderSize = 2
  CapLens = {0, 1, 3}
  Limits = {0, 3}
  ArrivalBound = 4
  TableSize = 80
  Data1 = 56
  Data2 = 192
  Text = 232
  Oems = {76, 126}
  Firmware <- MCFirmware
  RootPointer <- MCRoot
  ConfigTables <- MCConfigTables
  InstallBound = 2
  LoadBound = 2
  Inodes = {1, 2, 3}
  Dentries = {1, 2, 3}
  Names = {a, b}
  Types = {{"REG"}}
  Params <- MCParams
  Default = "0755"
  None = None
  Writers = {w1, w2}
  Readers = {r1}
  Counts = {1, 2}
  MaxPath = 3
  PathMax = 7
  BindBound = 3
  Buffers <- MCBuffers
  Characters <- MCCharacters
  Directory <- MCDirectory
  Other <- MCOther
  NoPath = NoPath
SYMMETRY Symmetry
INVARIANTS NcclSound VerdictHonest CaptureFaithful TableArrives TreeExact PathParsed BindExact
CHECK_DEADLOCK FALSE
