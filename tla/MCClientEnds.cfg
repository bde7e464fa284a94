CONSTANTS
  Client = {c1, c2, c3}
  Backlog <- const_Backlog
  None = None

SPECIFICATION Spec

\* The server waits in accept when every client has ended.
CHECK_DEADLOCK FALSE

PROPERTY
  ClientEnds
