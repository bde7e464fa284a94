CONSTANTS
  Precision <- const_Precision
  Calls <- const_Calls
  MaxOps = 6
  MaxCrashes = 1

SPECIFICATION CarefulSpec

\* The store stops when it is called no more.
CHECK_DEADLOCK FALSE

INVARIANTS
  TypeOK
  NodeListLinked
  BlocksOwnedOnce
  ReachableNotFree

PROPERTIES
  ImplementsModel
