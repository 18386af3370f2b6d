SPECIFICATION Spec
CONSTANTS
  NULL = NULL
  Parts = {"nanopb"}
  NoFile = NoFile
  BUFFER_SIZE = 2
  Sources <- MCSources
  MaxRuns = 3
  MaxFaults = 3
  Selections = {1, 2, 3, 7}
  MaxAnswers = 3
  MaxFailures = 2
  MaxProcesses = 6
  Closed = Closed
  Journaled = TRUE
  MaxTables = 3
  MaxFailedCalls = 1
  MaxDeaths = 1
  None = None
  Base = 3
  kMaxUint = 25
  Pad = 2
  UsedNumbers = {2, 25}
  Foreign <- MCForeign
  MaxFiles = 2
  MaxErrors = 1
  Bits = 4
  Width <- MCWidth
  kBytesHeader = 1
  WordBits = 3
  MaxRequired = 6
  kRawValue = 3
  Types <- MCNested
  Buffers = {8, 60}
  MaxMessages = 1
  PB_range = 4
  BTB_range = 2
  Addresses = {1, 2, 3, 5, 6, 8}
  TagBits = 2
  MaxBranches = 5
  ASSOC = 2
  SETS = 2
  MaxTag = 3
  MaxReferences = 5
INVARIANT NonZeroIsEncoded
CHECK_DEADLOCK FALSE
