SPECIFICATION FairSpec
CONSTANTS
  WordBits = 8
  FloatBits = 4
  Setups <- PipeSetups
  Restarts <- PipeRestarts
  Calls = {0}
  MaxCycles = 12
INVARIANTS TypeOK NoneLost OperandsReady
PROPERTIES ImplementsRoundedOrder RunReturns
CHECK_DEADLOCK FALSE
