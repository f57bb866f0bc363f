\* Three sessions, an event quota of two and room for one tombstone.
SPECIFICATION Spec
CONSTANTS
  Extensions = {e1}
  MaxSessions = 3
  MaxInstances = 2
  Quota = 2
  Capacity = 1
  MaxBatch = 3
INVARIANTS
  TypeOK
  AppendedAsDescribed
  NothingAfterEnd
  HostAgrees
  TombstonesBounded
  PluginSessionsHeld
