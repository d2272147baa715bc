SPECIFICATION FairSpec
CONSTANTS
  a1 = a1
  Attempts = {a1}
  None = None
  Faults = {"rpc", "store", "coordinator", "node", "provider"}
  MaxEpoch = 2
  MaxBoot = 2
  MaxWorkloadGeneration = 0
CHECK_DEADLOCK FALSE
INVARIANTS
  CommitIsEvidenced
  PromotedIsAnchored
PROPERTIES
  RequestsEnd
  ReservationsEnd
