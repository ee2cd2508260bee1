CONSTANTS
  w1 = w1
  w2 = w2
  w3 = w3
  p1 = p1
  p2 = p2
  e1 = e1
  None = None
  Watcher = {w1, w2, w3}
  Publisher = {p1, p2}
  Entry = {e1}
  EntryOf <- Entries
  For <- Addressees
  Review = {e1}
  Weeks = 1
  Faults = 1
SPECIFICATION Spec
SYMMETRY Symmetry
CHECK_DEADLOCK FALSE
INVARIANTS
  EvidenceFirst
  NothingVanishes
  ClaimHeld
  RevokedDeliversNothing
PROPERTY InboxSpec
