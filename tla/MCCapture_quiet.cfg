SPECIFICATION Spec
CONSTANTS
  a1 = a1
  a2 = a2
  Attempts = {a1,a2}
  None = None
  Faults = {"rpc", "coordinator"}
  MaxEpoch = 2
  MaxBoot = 1
  MaxWorkloadGeneration = 1
SYMMETRY AttemptSymmetry
CHECK_DEADLOCK FALSE
INVARIANTS
  CommittedHasData
  CommitIsFinal
PROPERTIES
  CommitsAtomically
