SPECIFICATION Spec
CONSTANTS
  Decisions <- LendingDecisions
  Fraud = "fraud_screening"
  Compliance = "compliance_check"
  Closing = "closing_readiness"
  Upstream <- ShippedUpstream
  Boundary <- ShippedBoundary
  Guard <- ShippedGuard
  Confidences <- Reported
  Findings <- Findable
  Bundled <- InBundle
INVARIANTS
  AgentCannotLiftHardBlock
  AllowNeedsPositiveEvidence
  WorseFindingsNeverRelax
  PipelineAbstractionIsSound
