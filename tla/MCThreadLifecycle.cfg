SPECIFICATION FairSpec
CONSTANTS
  NumThreads = 2
  HangLimit = 2
  MaxDmas <- MCMaxDmas
  MaxDoorbells = 1
INVARIANTS
  TypeOK
  InitBeforeUse
  CleanupFinishesPayloads
  
PROPERTIES
  ExitDoorbellEndsThreads
CHECK_DEADLOCK FALSE
