CONSTANTS
  Precision <- const_Precision
  Calls <- chains_Calls
  MaxOps = 5
  MaxCrashes = 1

SPECIFICATION CarefulSpec

\* The store stops when it is called no more.
CHECK_DEADLOCK FALSE

INVARIANTS
  BlocksOwnedOnce
  ReachableNotFree
  PropertyPointersTyped
  RelationshipChainsExact
  RelationshipPointersTyped

PROPERTIES
  ImplementsModel
