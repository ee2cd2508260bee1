\* Two lifecycles contending for one worktree path, two faults.
CONSTANTS
  l1 = l1
  l2 = l2
  l3 = l3
  p1 = p1
  p2 = p2
  r1 = r1
  r2 = r2
  None = None
  Lifecycle = {l1, l2}
  Path = {p1}
  PathOf <- Contended
  Receipt = {r1, r2}
  Deny <- Reasons
  MaxFaults = 2
SPECIFICATION Spec
SYMMETRY Symmetry
CHECK_DEADLOCK FALSE
INVARIANTS
  OneActivePerPath
  RetiredIsClean
PROPERTY ReceiptFixed
