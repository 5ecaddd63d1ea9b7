SPECIFICATION Spec
CONSTANTS
  WordBits = 8
  RobSize = 4
  IssueWidth = 1
  StationType <- Stations2
  UnitType <- Units1
  Programs <- StraightPrograms
  Latencies <- StraightLatencies
  IntFiles <- AddressFiles
  FpFiles <- PointerFiles
  Memories <- Pointers
INVARIANTS TypeOK TagsPending RegisterTags StationsMatch UnitsHeld
PROPERTY ImplementsProgramOrder
