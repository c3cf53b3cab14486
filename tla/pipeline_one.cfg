SPECIFICATION FairSpec
CONSTANTS
  r1 = r1
  Runs = {r1}
  Decisions = {"fraud_screening", "compliance_check", "income_verification", "dti_calculation", "closing_readiness"}
  Registered = {"fraud_screening", "compliance_check", "income_verification", "dti_calculation", "closing_readiness"}
  Fraud = "fraud_screening"
  Compliance = "compliance_check"
  Closing = "closing_readiness"
  NumWaves <- LendingWaves
  WaveOf <- LendingWaveOf
  DependsOn <- LendingDependsOn
  Mode <- ShadowMode
  Risk <- LendingRisk
  Threshold <- LendingThreshold
  AuditWired = TRUE
  CriticScope = {"medium"}
  Confidences = {70, 80}
  Proposals = {"allow"}
INVARIANTS
  OnlyBlocksBelowTrouble
  FraudBlockStopsPipeline
  NobodyIsBypassed
PROPERTIES
  ImplementsFlow
  EveryDecisionSettles
CHECK_DEADLOCK FALSE
