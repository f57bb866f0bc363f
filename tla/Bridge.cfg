\* Three requests and one session.
SPECIFICATION Spec
CONSTANTS
  MaxRequests = 3
  MaxSessions = 1
  MaxEvents = 2
  MaxReaders = 1
INVARIANTS
  TypeOK
  AnswerIsFinal
  ExitSettlesAll
  EventsInOrder
  ClosedLeavesNothing
  PendingIsTimed
