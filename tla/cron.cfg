SPECIFICATION FairSpec
CONSTANTS
  Runners = {r1, r2}
  Reviewers = {alice}
  Order <- LendingOrder
  Upstream <- LendingUpstream
  Automatic = {"ltv_assessment"}
  Outcomes <- LendingOutcomes
  None = None
  MaxUpsets = 1
  r1 = r1
  r2 = r2
  alice = alice
INVARIANTS
  EvaluatedBehindTheGate
  NoDoubleWrites
  WaitingRowsAreTheMachines
PROPERTIES
  EveryDecisionIsMade
