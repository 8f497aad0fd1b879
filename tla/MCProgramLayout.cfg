SPECIFICATION Spec
CONSTANTS
  Configs <- MCConfigs
  MaxLen = 2
  MaxCores = 16
  MaxThreads = 6
  DefaultThreads = 4
  MaxDoorbells = 4
  DbSize = 4
  DescSize = 16
  LineSize = 128
  LinesPerThread = 2
  PageSize = 4096
  L2tcmMax = 1048576
  VtcmMax = 8388608
INVARIANTS
  RequestsReachBuffers
  NumbersAgree
  SemaphoresAgree
  DoorbellsStartRight
  
CHECK_DEADLOCK FALSE
