SPECIFICATION LookSpec
CONSTANTS
  n1 = n1
  n2 = n2
  n3 = n3
  NSPs <- MCNSPs
  NumInputs = 2
  InputNsps <- MCInputNsps
  Awaits <- MCAwaits
  WaitArgs = {FALSE, TRUE}
  ClearArgs = {FALSE, TRUE}
  Inferences = 2
  Partial = {0}
  Lookers = {n2}
INVARIANTS
  TypeOK
  NoInputRace
  HeldInputIsCurrent
  NoDoorbellLost
  LookupsAreCurrent
  WaitedLookupsSucceed
PROPERTIES
  ImplementsHandover
CHECK_DEADLOCK FALSE
