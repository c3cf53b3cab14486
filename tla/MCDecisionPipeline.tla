------------------------- MODULE MCDecisionPipeline -------------------------
(***************************************************************************)
(* Small cuts of the graph of domains/lending/decisions.yaml, with its     *)
(* edges, modes, risk levels and guard, closed under what they keep.       *)
(***************************************************************************)
EXTENDS DecisionPipeline, TLC

LendingDependsOn ==
    [d \in Decisions |->
        Decisions \cap
        CASE d = "dti_calculation"       -> {"income_verification"}
          [] d = "ltv_assessment"        -> {"credit_assessment"}
          [] d = "underwriting_decision" -> {"fraud_screening", "credit_assessment",
                                             "income_verification", "dti_calculation",
                                             "ltv_assessment"}
          [] d = "closing_readiness"     -> {"underwriting_decision", "compliance_check"}
          [] OTHER                       -> {}]

LendingMode ==
    [d \in Decisions |->
        IF d \in {"income_verification", "compliance_check", "underwriting_decision",
                  "closing_readiness", "title_assessment"}
        THEN "human_approval" ELSE "auto_execute"]

(* dti_calculation moved to shadow, as a decision being introduced is. *)
ShadowMode == [LendingMode EXCEPT !["dti_calculation"] = "shadow"]

LendingRisk ==
    [d \in Decisions |->
        CASE d \in {"fraud_screening", "compliance_check", "underwriting_decision",
                    "closing_readiness", "title_assessment"}  -> "high"
          [] d \in {"dti_calculation", "ltv_assessment"}      -> "low"
          [] OTHER                                            -> "medium"]

LendingThreshold == [d \in Decisions |-> IF d = "dti_calculation" THEN 75 ELSE 0]

(* execution_order keeps the order of the shipped waves. *)
WaveNames == <<{"fraud_screening", "compliance_check", "credit_assessment",
                "title_assessment"},
               {"income_verification"}, {"dti_calculation"}, {"ltv_assessment"},
               {"underwriting_decision"}, {"closing_readiness"}>>
Kept == SelectSeq(WaveNames, LAMBDA w : w \cap Decisions # {})

(* Runs differ in nothing but their name. *)
RunSymmetry == Permutations(Runs)

LendingWaves == Len(Kept)
LendingWaveOf == [d \in Decisions |-> CHOOSE w \in 1..LendingWaves : d \in Kept[w]]
=============================================================================
