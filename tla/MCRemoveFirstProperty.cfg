CONSTANTS
  Precision <- const_Precision
  Calls <- first_Calls
  MaxOps = 3
  MaxCrashes = 0

SPECIFICATION Spec

\* The store stops when it is called no more.
CHECK_DEADLOCK FALSE

INVARIANTS
  PropertyPointersTyped
