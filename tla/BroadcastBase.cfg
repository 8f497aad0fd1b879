SPECIFICATION Spec
CONSTANTS
  Configs <- MCConfigs
  MaxLen = 1
  MaxCores = 16
  MaxThreads = 6
  DefaultThreads = 4
  MaxDoorbells = 4
  DbSize = 4
  DescSize = 16
  LineSize = 128
  LinesPerThread = 2
  PageSize = 4096
  L2tcmMax = 1048576
  VtcmMax = 8388608
INVARIANT BroadcastsReachBuffers
CHECK_DEADLOCK FALSE
