\* Two subagents and a team member; overlaps, lost hooks and writes, and time.
CONSTANTS
  a1 = a1
  a2 = a2
  a3 = a3
  m1 = m1
  sweeper = sweeper
  Sweeper = sweeper
  Agent = {a1, a2}
  Member = {m1}
SPECIFICATION FairSpec
CHECK_DEADLOCK FALSE
INVARIANT CalmExact
PROPERTIES
  SettledForGood
  SelfHeals
