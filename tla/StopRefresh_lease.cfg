\* Two machines sharing the repository, births unreadable: a dead owner's lease is
\* recovered by its time to live.
CONSTANTS
  g1 = g1
  g2 = g2
  g3 = g3
  Gen = {g1, g2}
  None = None
  Host <- TwoMachines
  Watching = FALSE
  BirthProbe = FALSE
  MaxMishaps = 1
SPECIFICATION FairSpec
PROPERTY LeaseRecovered
