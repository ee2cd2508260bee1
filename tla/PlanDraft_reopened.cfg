CONSTANTS
  k1 = k1
  k2 = k2
  k3 = k3
  k4 = k4
  k5 = k5
  cA = cA
  cB = cB
  cC = cC
  pA = pA
  pB = pB
  d1 = d1
  d2 = d2
  None = None
  Projection = projection
  Call = {k1, k2}
  Command = {cA, cB, cC}
  Plan = {pA, pB}
  Digest = {d1, d2}
  CommandOf <- Commands
  DigestOf <- Digests
  PlanOf <- Plans
  Present = {}
  Calls = 2
  Faults = 0
SPECIFICATION Spec
CHECK_DEADLOCK FALSE
INVARIANT LedgerReadable
