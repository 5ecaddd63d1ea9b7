\* The assembler, with every reload after a reset.
SPECIFICATION FairSpec
CONSTANTS
  WordBits = 8
  Sources <- LoaderSources
INVARIANTS
  TypeOK
  JumpsReachLabels
  OperandsOfSource
PROPERTY LoadEnds
\* A driver need not load another program.
CHECK_DEADLOCK FALSE
