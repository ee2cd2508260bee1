\* Three attempts, two on one machine and one on another, with two faults.
CONSTANTS
  a1 = a1
  a2 = a2
  a3 = a3
  Attempt = {a1, a2, a3}
  Host <- TwoMachines
  MaxFaults = 2
SPECIFICATION DoctorSpec
SYMMETRY Symmetry
CHECK_DEADLOCK FALSE
INVARIANTS
  MutualExclusion
  ResidueNeverBlocks
PROPERTY LiveClaimKept
