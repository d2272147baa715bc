SPECIFICATION Spec
CONSTANTS
  n1 = n1
  r1 = r1
  c1 = c1
  Nodes = {n1}
  Restores = {r1}
  Checkpoints = {c1}
  None = None
  Faults = {"coordinator"}
  MaxAttach = 0
  MaxFence = 0
CHECK_DEADLOCK FALSE
INVARIANTS
  NotStuck
