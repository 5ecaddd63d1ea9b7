SPECIFICATION FairSpec
CONSTANTS
  WordBits = 8
  RobSize = 4
  IssueWidth = 2
  StationType <- Stations2
  UnitType <- Units1
  Programs <- BranchPrograms
  Latencies <- BranchLatencies
  IntFiles <- LoopFiles
  FpFiles <- OneFpFile
  Memories <- LoopMemory
INVARIANTS RingInOrder RegisterTags NoEarlyEnd
PROPERTIES ImplementsProgramOrder Terminates
