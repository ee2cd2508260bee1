\* Three concurrent Stop slots: two hooks may take over the same dead owner.
CONSTANTS
  g1 = g1
  g2 = g2
  g3 = g3
  Gen = {g1, g2, g3}
  None = None
  Host <- OneMachine
  Watching = FALSE
  BirthProbe = TRUE
  MaxMishaps = 1
SPECIFICATION Spec
SYMMETRY Symmetry
PROPERTY LiveOwnerKeepsLease
