\* A host names an extension or a session the daemon does not know.
SPECIFICATION Spec
CONSTANTS
  Extensions = {e1}
  MaxSessions = 2
  MaxInstances = 1
  Quota = 2
  Capacity = 1
  MaxBatch = 1
INVARIANTS
  HostMistakesAreAnswered
