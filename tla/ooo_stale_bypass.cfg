SPECIFICATION Spec
CONSTANTS
  WordBits = 8
  RobSize = 4
  IssueWidth = 1
  StationType <- Stations2
  UnitType <- Units1
  Programs <- WrongPathLoad
  Latencies <- FirstLatency
  IntFiles <- BranchFiles
  FpFiles <- OneFpFile
  Memories <- Pointers
PROPERTY ImplementsProgramOrder
