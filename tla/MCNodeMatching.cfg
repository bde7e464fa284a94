CONSTANTS
  Precision <- const_Precision
  Stored <- const_Stored
  Wanted <- const_Wanted
  MaxStored = 3
  MaxWanted = 2

SPECIFICATION Spec

\* The bounds are reached.
CHECK_DEADLOCK FALSE

INVARIANTS
  MatchExact
  FoundByItself
