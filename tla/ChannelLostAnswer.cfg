\* One thread makes one call to a plugin that answers it.
SPECIFICATION Spec
CONSTANTS
  Callers = {c1}
  NoCaller = NoCaller
  Sessions = {s1}
  MaxCalls = 1
  MaxFrames = 2
CHECK_DEADLOCK FALSE
PROPERTIES
  AnsweredCallReturns
