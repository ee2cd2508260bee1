\* Two concurrent Stop slots on one linux machine, with crashes, failures and pid
\* reuse: safety, and liveness under fair scheduling.
CONSTANTS
  g1 = g1
  g2 = g2
  g3 = g3
  Gen = {g1, g2}
  None = None
  Host <- OneMachine
  Watching = TRUE
  BirthProbe = TRUE
  MaxMishaps = 2
SPECIFICATION FairSpec
INVARIANTS
  DemandDurable
  DemandReachable
  OneRefreshAtATime
  RefreshHoldsDemand
PROPERTIES DemandServed LeaseRecovered LiveOwnerKeepsLease
