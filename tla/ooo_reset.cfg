SPECIFICATION ResetSpec
CONSTANTS
  WordBits = 8
  RobSize = 4
  IssueWidth = 1
  StationType <- Stations2
  UnitType <- Units1
  Programs <- TwoOperations
  Latencies <- FirstLatency
  IntFiles <- OneIntFile
  FpFiles <- OneFpFile
  Memories <- OneMemory
PROPERTY RestartsInOrder
