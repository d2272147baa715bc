SPECIFICATION Spec
CONSTANTS
  a1 = a1
  a2 = a2
  a3 = a3
  Attempts = {a1,a2,a3}
  None = None
  Faults = {}
  MaxEpoch = 1
  MaxBoot = 1
  MaxWorkloadGeneration = 1
SYMMETRY AttemptSymmetry
CHECK_DEADLOCK FALSE
INVARIANT SupersessionReciprocal
