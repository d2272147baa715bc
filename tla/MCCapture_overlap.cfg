SPECIFICATION Spec
CONSTANTS
  a1 = a1
  a2 = a2
  Attempts = {a1,a2}
  None = None
  Faults = {"overlap"}
  MaxEpoch = 1
  MaxBoot = 1
  MaxWorkloadGeneration = 0
SYMMETRY AttemptSymmetry
CHECK_DEADLOCK FALSE
INVARIANTS
  TypeOK
  NoFalseSuccess
  SupersessionOrdered
  CommitIsEvidenced
  CounterNamesCommit
PROPERTIES
  LifecycleFollowsTable
