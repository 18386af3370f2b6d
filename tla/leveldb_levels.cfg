SPECIFICATION AllSpec
CONSTANTS
  NULL = NULL
  None = None
  Parts = {"snapshots", "split", "repair", "memtable", "schedule", "limits", "lock"}
  Keys = {1, 2}
  SplitKeys = {1, 2, 3}
  kMaxSequenceNumber = 99
  Users = {1}
  Writes = 3
  OldTables = {4, 5}
  OldLogs = {6, 7}
  Garbage <- MCGarbage
  MaxDamaged = 2
  MaxTrouble = 2
  UserKeys = {1, 2}
  Walkers = {1}
  kMaxHeight = 2
  MaxEntries = 3
  MaxWalks = 2
  KeyBytes = 3
  ValueBytes = 10
  NodeBytes = 8
  PointerBytes = 4
  kBlockSize = 48
  Databases = {1, 2}
  BGTHREAD = 0
  MaxItems = 3
  Readers = {1, 2, 3}
  mmap_limit = 1
  open_read_only_file_limit <- Unset
  PointerSize = 8
  RLIMIT_NOFILE = 9
  RLIM_INFINITY = 99
  kMaxInt = 99
  MaxFiles = 4
  Processes = {1, 2}
  Lockers <- MCLockers
INVARIANTS
  ReadsSeeHistory
  LevelsDisjoint
  RepairSafe
  MemTableConsistent
  EnvSharedSafely
CHECK_DEADLOCK FALSE
