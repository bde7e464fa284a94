CONSTANTS
  Strings <- const_Strings
  D <- const_D
  Wrap <- const_Wrap
  MaxBlocks = 4
  MaxFailures = 1
  MaxCrashes = 1

SPECIFICATION Spec

\* Nobody calls when the file is full.
CHECK_DEADLOCK FALSE

INVARIANTS
  TypeOK
  ChunksOwnedOnce
  LossBounded

PROPERTIES
  CallEnds
  ImplementsStrings
