SPECIFICATION FairSpec
CONSTANTS
  NULL = NULL
  kMaxSequenceNumber = 100
  kNumLevels = 2
  kL0_CompactionTrigger = 2
  kMaxMemCompactLevel = 0
  MaxFileSize = 1
  LevelBytes = 8
  OverlapFactor = 10
  ExpandFactor = 25
  MinSeeks = 100
  Writers = {w1, w2}
  Readers = {r1}
  Keys = {1, 2}
  BatchSizes = {2}
  kL0_SlowdownWritesTrigger = 2
  kL0_StopWritesTrigger = 3
  WriteBufferSize = 0
  SmallBatch = 2
  LargeGroup = 3
  Faults = {"newfile", "append", "sync", "table", "manifest"}
  MaxCalls = 3
  MaxRestarts = 1
  MaxFaults = 1
INVARIANTS ReopensOnceCreated ReadsSeeHistory GetSeesSnapshot LiveFilesExist PromisedWritesSurvive
PROPERTY WritesReturn
CHECK_DEADLOCK FALSE
