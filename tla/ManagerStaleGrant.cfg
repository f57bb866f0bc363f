\* A prompt that is still open when a deactivation completes, answered after it.
CONSTANTS
  c1 = c1
  c2 = c2
  c3 = c3
  Calls = {c1, c2, c3}
  MaxCalls = 5
  MaxRuntimes = 3
SYMMETRY CallSymmetry
SPECIFICATION Spec
INVARIANT PromptedSinceDeactivation
\* The host has made its calls and every call has returned.
CHECK_DEADLOCK FALSE
