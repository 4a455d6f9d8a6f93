SPECIFICATION Spec
CONSTANTS
  b1 = b1
  b2 = b2
  w1 = w1
  w2 = w2
  c1 = c1
  c2 = c2
  p1 = p1
  p2 = p2
  None = None
  Removing = Removing
  Turns = {b1, b2}
  Panel = {w1, w2}
  Calls = {c1, c2}
  Ports = {p1, p2}
  Workloads <- AloneAndShared
SYMMETRY SandboxSymmetry
INVARIANTS TypeOK AddressIsCurrent ReadyHasAddress ContainersAreTemporary
CHECK_DEADLOCK FALSE
