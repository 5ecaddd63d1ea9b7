\* The traces of the plain and of the blocked multiplication.
SPECIFICATION FairSpec
CONSTANT Arguments <- MatrixArguments
INVARIANTS
  TypeOK
  AccessesInMatrices
PROPERTIES
  ImplementsProduct
  TraceComplete
\* The program ends.
CHECK_DEADLOCK FALSE
