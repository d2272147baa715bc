SPECIFICATION FairSpec
CONSTANTS
  n1 = n1
  r1 = r1
  c1 = c1
  Nodes = {n1}
  Restores = {r1}
  Checkpoints = {c1}
  None = None
  Faults = {"rpc","failpoint","coordinator","store","provider"}
  MaxAttach = 1
  MaxFence = 0
CHECK_DEADLOCK FALSE
INVARIANTS
  TypeOK
  NoFalseRestore
  CommittedStays
  FailedRestoreNotCommitted
PROPERTIES
  RestoresEnd
  StaleDetached
