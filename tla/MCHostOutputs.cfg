SPECIFICATION Spec
CONSTANTS
  n1 = n1
  n2 = n2
  n3 = n3
  NSPs <- MCNSPs
  NumOutputs = 2
  OutputNsps <- MCOutputNsps
  HasInputsMask <- MCMask
  WaitArgs = {FALSE, TRUE}
  ClearArgs = {FALSE, TRUE}
  Inferences = 2
  SemMax = 4095
INVARIANTS
  NoOutputRace
  StartsWhenAllHaveSent
  SemNeverUnderflows
PROPERTIES
  ImplementsHandover
CHECK_DEADLOCK FALSE
