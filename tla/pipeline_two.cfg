SPECIFICATION Spec
CONSTANTS
  r1 = r1
  r2 = r2
  Runs = {r1, r2}
  Decisions = {"fraud_screening", "compliance_check", "closing_readiness"}
  Registered = {"compliance_check", "closing_readiness"}
  Fraud = "fraud_screening"
  Compliance = "compliance_check"
  Closing = "closing_readiness"
  NumWaves <- LendingWaves
  WaveOf <- LendingWaveOf
  DependsOn <- LendingDependsOn
  Mode <- LendingMode
  Risk <- LendingRisk
  Threshold <- LendingThreshold
  AuditWired = TRUE
  CriticScope = {"medium", "high"}
  Confidences = {80}
  Proposals = {"allow", "escalate"}
SYMMETRY RunSymmetry
CHECK_DEADLOCK FALSE
INVARIANTS
  EvidenceBeforeEffect
  OneEffectPerRun
  OwnUpstreamVisible
  FailureCascades
