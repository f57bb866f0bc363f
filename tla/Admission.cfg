\* Two extensions in the daemon, loaded and re-loaded as residents or not under
\* changing policies.
SPECIFICATION Spec
CONSTANTS
  Extensions = {e1, e2}
  Embedded = FALSE
  Requests <- MCRequests
  Contexts <- MCContexts
  Policies <- MCPolicies
  Calibrations = {2}
  Modulus = 64
  DefaultCap = 1
  DefaultFuel = 1
  MaxOverrides = 1
INVARIANTS
  TypeOK
  TierIsStrictest
  ReservedForTheLoad
  InstanceAsAdmitted
PROPERTIES
  ExceptionsAreRecorded
  LoadedIsVouched
