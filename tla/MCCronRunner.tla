---------------------------- MODULE MCCronRunner ----------------------------
(* Two lending decisions of two waves: one that a reviewer must act on, one *)
(* made automatically from it.                                              *)
EXTENDS CronRunner

Lending == {"credit_assessment", "ltv_assessment"}

LendingOrder == <<"credit_assessment", "ltv_assessment">>

LendingUpstream ==
    [d \in Lending |-> IF d = "credit_assessment" THEN {} ELSE {"credit_assessment"}]

(* What the reviewers dispute is the first decision. *)
LendingOutcomes ==
    [d \in Lending |->
        IF d = "credit_assessment" THEN {"allow", "block"} ELSE {"allow"}]
=============================================================================
