SPECIFICATION FairSpec
CONSTANTS
  WordBits = 8
  Setups <- PipeSetups
  Restarts <- PipeRestarts
  Garbage = {0, 5}
  Calls = {0, 1}
  MaxCycles = 40
INVARIANTS TypeOK PipeInOrder StallsAccounted
PROPERTIES ImplementsProgramOrder RunReturns
CHECK_DEADLOCK FALSE
