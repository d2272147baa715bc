SPECIFICATION Spec
CONSTANTS
  h1 = h1
  h2 = h2
  Hosts = {h1, h2}
  Home = h1
  None = None
  MinReplicas = 2
  Faults = {"node", "disk"}
  Protections = {"none", "protected", "pinned"}
  MaxBoot = 2
  MaxStarts = 3
  MaxBeats = 1
INVARIANTS
  TypeOK
PROPERTIES
  DamageStays
  ClearedIsDeleted
  ProtectedIsKept
