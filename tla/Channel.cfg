\* Two threads share one plugin process.
SPECIFICATION Spec
CONSTANTS
  Callers = {c1, c2}
  NoCaller = NoCaller
  Sessions = {s1}
  MaxCalls = 2
  MaxFrames = 4
CHECK_DEADLOCK FALSE
INVARIANTS
  TypeOK
  NoAbandonedEntry
  EventsConserved
  EventsBeforeAnswer
PROPERTIES
  ImplementsCallChannel
  DeathReleasesCallers
