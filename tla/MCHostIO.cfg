SPECIFICATION FairSpec
CONSTANTS
  n1 = n1
  n2 = n2
  NSPs <- MCNSPs
  NumInputs = 1
  InputNsps <- MCInputNsps
  Awaits <- MCAwaits
  NumOutputs = 1
  OutputNsps <- MCOutputNsps
  WaitArgs = {FALSE}
  ClearArgs = {FALSE, TRUE}
  Inferences = 2
  SemMax = 4095
INVARIANTS
  NoRace
  ResultsMatchInferences
PROPERTY EveryInferenceCompletes
CHECK_DEADLOCK FALSE
