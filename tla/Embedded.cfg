\* Two extensions of a host that invokes, ticks, polls, drains and resets.
SPECIFICATION Spec
CONSTANTS
  Extensions = {e1, e2}
  Loads <- MCLoads
  Guests <- MCGuests
  Limits = {1, 9}
  DefaultFuel = 3
  Capacity = 2
  LeakThreshold = 2
  StreakThreshold = 2
  MaxSteps = 7
SYMMETRY Symmetry
INVARIANTS
  TypeOK
  HandleNamesOne
  ChargedOnce
  ReportsMatchHistory
  PollMissesNothing
PROPERTIES
  ImplementsAuditStream
