SPECIFICATION FairSpec
CONSTANTS
  m1 = m1
  m2 = m2
  m3 = m3
  p1 = p1
  p2 = p2
  Messages = {m1, m2, m3}
  Kind <- OneOfEach
  Polls = {p1, p2}
  BatchSize = 2
  HasDlq = TRUE
  MaxFaults = 2
INVARIANTS
  ProposalsAreBounded
PROPERTIES
  IncompleteTriggersAreReported
  ImplementsTriggers
