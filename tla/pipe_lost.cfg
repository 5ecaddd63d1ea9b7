SPECIFICATION FairSpec
CONSTANTS
  WordBits = 8
  Setups <- LostInstruction
  Restarts <- NoRestarts
  Garbage = {0}
  Calls = {0, 1}
  MaxCycles = 40
PROPERTIES RunReturns
CHECK_DEADLOCK FALSE
