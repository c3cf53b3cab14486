--------------------------- MODULE ExceptionRules ---------------------------
(***************************************************************************)
(* core/exceptions: the compensating factors of a file, the level of       *)
(* approval its score asks for, whether an exception is possible at all,   *)
(* and who may approve it, with the catalogue's thresholds at their        *)
(* defaults.  Numbers are whole (months, percent, points); zero stands for *)
(* a missing input, as it does in the code.                                *)
(***************************************************************************)
EXTENDS Integers, FiniteSets

Levels == {"uw_approval", "uw_manager_approval", "senior_uw_approval", "insufficient_factors"}

Roles == {"uw", "uw_manager", "senior_credit_officer", "credit_committee"}

-----------------------------------------------------------------------------
(* _STRENGTH_SCORE of a factor with up to three thresholds, best first. *)
Points(strong, moderate, weak) ==
    IF strong THEN 3 ELSE IF moderate THEN 2 ELSE IF weak THEN 1 ELSE 0

(* detect_reserves: 12, 6 or 2 months once rounded to a tenth.  Of the      *)
(* halves in between, the floating-point 5.95 rounds up, 11.95 and 1.95 do *)
(* not.                                                                    *)
ReservePoints(file) ==
    IF file.piti = 0 THEN 0
    ELSE Points(20 * file.liquid > 239 * file.piti, 20 * file.liquid >= 119 * file.piti,
                20 * file.liquid > 39 * file.piti)

(* detect_low_ltv *)
LtvPoints(file) ==
    IF file.ltv = 0 THEN 0 ELSE Points(file.ltv <= 75, file.ltv <= 80, FALSE)

(* min_credit_score_applied, 620 when no rule gives one *)
CreditFloor(file) == IF file.floor = 0 THEN 620 ELSE file.floor

(* detect_excellent_credit: above the floor that applies *)
CreditPoints(file) ==
    IF file.score = 0 THEN 0
    ELSE Points(file.score - CreditFloor(file) >= 60, file.score - CreditFloor(file) >= 30, FALSE)

(* detect_long_employment; unemployed or undated is -1 *)
EmploymentPoints(file) == Points(file.tenure >= 60, file.tenure >= 36, FALSE)

(* detect_limited_debt: 10 or 20 percent once rounded to a tenth; the      *)
(* halves 10.05 and 20.05 round up.                                        *)
DebtPoints(file) ==
    IF file.income = 0 THEN 0
    ELSE Points(2000 * file.debts < 201 * file.income, 2000 * file.debts < 401 * file.income, FALSE)

(* detect_large_down_payment: the second reading of the same ltv *)
DownPaymentPoints(file) ==
    IF file.ltv = 0 THEN 0 ELSE Points(100 - file.ltv >= 20, 100 - file.ltv >= 10, FALSE)

(* detect_all; payment shock is never present *)
Score(file) ==
    ReservePoints(file) + LtvPoints(file) + CreditPoints(file) + EmploymentPoints(file)
        + DebtPoints(file) + DownPaymentPoints(file)

(* detect_all: the level the score asks for *)
LevelOf(score) ==
    IF score >= 9 THEN "senior_uw_approval"
    ELSE IF score >= 5 THEN "uw_manager_approval"
    ELSE IF score >= 2 THEN "uw_approval" ELSE "insufficient_factors"

(* exception_max_{dti,ltv}_overlay_breach_pct, five percent each *)
MaxBreach == 5

(* Further away from the overlay than that, on either side. *)
Breach(value, overlay) ==
    LET gap == IF value > overlay THEN value - overlay ELSE overlay - value
    IN  100 * gap > MaxBreach * overlay

(* evaluate_exception_eligibility; Absent is None. *)
Absent == -1

Eligibility(value, overlay, floor, factors) ==
    IF floor # Absent /\ value # Absent /\ value < floor THEN "below_agency_floor"
    ELSE IF overlay \notin {Absent, 0} /\ value # Absent /\ Breach(value, overlay)
         THEN "breach_exceeds_maximum"
    ELSE IF factors = 0 THEN "compensating_factors_required"
    ELSE "eligible_with_factors"

Eligible(reason) == reason \in {"compensating_factors_required", "eligible_with_factors"}

-----------------------------------------------------------------------------
(* APPROVER_AUTHORITY *)
Authority(role) ==
    CASE role = "uw"         -> {"uw_approval"}
      [] role = "uw_manager" -> {"uw_approval", "uw_manager_approval"}
      [] OTHER               -> Levels \ {"insufficient_factors"}

(* can_approve *)
CanApprove(role, level, belowFloor) == ~belowFloor /\ level \in Authority(role)
=============================================================================
