SPECIFICATION Spec
CONSTANTS
  Drivers = {1, 2}
  ArgsOf <- MCArgsOf
INVARIANTS
  
  ConstantsAreOwn
  
PROPERTY NothingLeftBehind
CHECK_DEADLOCK FALSE
