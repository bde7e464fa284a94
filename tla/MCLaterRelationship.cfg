CONSTANTS
  Precision <- const_Precision
  Calls <- later_Calls
  MaxOps = 5
  MaxCrashes = 0

SPECIFICATION Spec

\* The store stops when it is called no more.
CHECK_DEADLOCK FALSE

INVARIANTS
  RelationshipFound
