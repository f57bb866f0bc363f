\* Three calls of the host under way at once, five in all, three processes.
CONSTANTS
  c1 = c1
  c2 = c2
  c3 = c3
  Calls = {c1, c2, c3}
  MaxCalls = 5
  MaxRuntimes = 3
SYMMETRY CallSymmetry
SPECIFICATION Spec
INVARIANTS
  TypeOK
  DecisionsEndWithDeactivation
  LifecycleSound
\* The host has made its calls and every call has returned.
CHECK_DEADLOCK FALSE
