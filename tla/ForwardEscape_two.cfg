\* Two workers on one command that is sent with two payloads: safety, refinement
\* of the outbox, and convergence.
CONSTANTS
  w1 = w1
  w2 = w2
  w3 = w3
  c1 = c1
  c2 = c2
  p1 = p1
  p2 = p2
  failed = failed
  threw = threw
  v1 = v1
  v2 = v2
  None = None
  Worker = {w1, w2}
  Command = {c1}
  Payload = {p1, p2}
  Reason = {failed}
  Revision = {v1, v2}
SPECIFICATION FairSpec
INVARIANTS
  NobodyShutOut
  IntentFirst
  ProjectionBound
PROPERTIES OutboxSpec OutboxConverges
