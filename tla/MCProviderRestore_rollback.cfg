SPECIFICATION FairSpec
CONSTANTS
  a1 = a1
  a2 = a2
  f1 = f1
  f2 = f2
  Attempts = {a1, a2}
  Files = {f1, f2}
  Nested = {f2}
  Payload <- MCPayload
  Order <- MCOrder
  Optional = {2}
  Offers <- MCOffers
  Old = Old
  Absent = Absent
  None = None
  Faults = {"io", "provider", "node", "commit", "coordinator"}
  MaxCrashes = 1
  MaxRestarts = 1
CHECK_DEADLOCK FALSE
INVARIANTS
  TypeOK
  RollbackCapable
  CleanupExact
  CommittedFilesKept
  JournalsDiscarded
PROPERTIES
  AttemptsEnd
