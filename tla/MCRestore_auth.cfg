SPECIFICATION Spec
CONSTANTS
  n1 = n1
  n2 = n2
  r1 = r1
  c1 = c1
  Nodes = {n1,n2}
  Restores = {r1}
  Checkpoints = {c1}
  None = None
  Faults = {"rpc","failpoint","detach"}
  MaxAttach = 1
  MaxFence = 1
SYMMETRY RestoreSymmetry
CHECK_DEADLOCK FALSE
INVARIANTS
  AuthoritySingle
  TokenFixesEpoch
  AbortsPutBack
PROPERTIES
  StaleStaysStale
