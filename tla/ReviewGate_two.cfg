CONSTANTS
  r1 = r1
  r2 = r2
  w1 = w1
  w2 = w2
  g1 = g1
  None = None
  Run = {r1, r2}
  Root = {w1, w2}
  Gate = {g1}
SPECIFICATION Spec
SYMMETRY Symmetry
CHECK_DEADLOCK FALSE
INVARIANTS
  MergedReviewed
  FlagBlocks
  ReceiptStands
  RetriesAccounted
