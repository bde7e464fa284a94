CONSTANTS
  Precision <- const_Precision
  Calls <- none
  Queries <- const_Queries
  CallsOf <- AllCalls
  NoValue = NoValue
  Null = Null
  MaxQueries = 3
  MaxOps = 100
  MaxCrashes = 1

SPECIFICATION EvalSpec

\* The server waits for a query, or a SELECT never ends.
CHECK_DEADLOCK FALSE

INVARIANTS
  MetaSaved
  FreeListsInFile
  StaysOnFile
  InsertConnects
  SelectExact

PROPERTIES
  SelectEnds
