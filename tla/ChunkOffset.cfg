SPECIFICATION FairSpec
CONSTANTS
  n0 = n0
  n1 = n1
  n2 = n2
  Self <- n0
  Others <- MCOthers
  Lines = 2
  PerLine = 2
  Masks <- MCSelfMask
  ChunkCounts = {1, 2}
  MaxBroadcasts = 3
INVARIANT DoorbellMeansData
CHECK_DEADLOCK FALSE
