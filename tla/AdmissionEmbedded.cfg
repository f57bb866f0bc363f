\* A host that embeds the kernel goes on after a failed load.
SPECIFICATION Spec
CONSTANTS
  Extensions = {e1, e2}
  Embedded = TRUE
  Requests <- MCRequests
  Contexts <- MCContexts
  Policies <- MCPolicies
  Calibrations = {2}
  Modulus = 64
  DefaultCap = 1
  DefaultFuel = 1
  MaxOverrides = 1
INVARIANTS
  ReservedForTheLoad
