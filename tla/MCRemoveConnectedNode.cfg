CONSTANTS
  Precision <- const_Precision
  Calls <- connected_Calls
  MaxOps = 4
  MaxCrashes = 0

SPECIFICATION Spec

\* The store stops when it is called no more.
CHECK_DEADLOCK FALSE

INVARIANTS
  RelationshipPointersTyped
