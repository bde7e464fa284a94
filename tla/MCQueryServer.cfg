CONSTANTS
  Client = {c1, c2, c3}
  Backlog <- const_Backlog
  None = None

SPECIFICATION AttendedSpec

\* The server waits in accept when every client has ended.
CHECK_DEADLOCK FALSE

INVARIANTS
  TypeOK
  ExecutedInOrder
  NobodyAbandoned
  AnswerIsOwn

PROPERTIES
  AnswerArrives
  SentIsExecuted
  ImplementsService
