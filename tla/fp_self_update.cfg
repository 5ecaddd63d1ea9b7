SPECIFICATION FairSpec
CONSTANTS
  WordBits = 8
  FloatBits = 7
  Setups <- SelfUpdate
  Restarts <- NoRestarts
  Calls = {0}
  MaxCycles = 60
PROPERTY RunReturns
CHECK_DEADLOCK FALSE
