SPECIFICATION Spec
CONSTANTS
  n1 = n1
  n2 = n2
  n3 = n3
  NSPs <- MCTwoNSPs
  NumOutputs = 1
  OutputNsps <- MCOneSender
  HasInputsMask <- MCTwoNSPs
  WaitArgs = {FALSE, TRUE}
  ClearArgs = {FALSE, TRUE}
  Inferences = 2
  SemMax = 4095
INVARIANT
  StartsWhenAllHaveSent
CHECK_DEADLOCK FALSE
