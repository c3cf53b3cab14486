--------------------------- MODULE MCPolicyCheck ---------------------------
(***************************************************************************)
(* The two decisions of domains/lending/decisions.yaml that carry a        *)
(* contamination_guard, with their shipped clauses and those of a bulletin.*)
(***************************************************************************)
EXTENDS PolicyCheck

LendingDecisions ==
    {"fraud_screening", "compliance_check", "closing_readiness",
     "income_verification", "title_assessment", "dti_calculation", "underwriting_decision"}

Fact(name)               == [kind |-> "fact", on |-> name, bound |-> 0]
ConfidenceBelow(u, pct)  == [kind |-> "confidence_below", on |-> u, bound |-> pct]
UpstreamsCleared         == [kind |-> "all_cleared", on |-> "", bound |-> 0]
UpstreamBlocked          == [kind |-> "any_blocked", on |-> "", bound |-> 0]

(* dti_calculation: every expression compares one ratio, so the findings   *)
(* are the bands the ratio can lie in, a missing ratio, and one that does  *)
(* not compare with a number.                                              *)
DtiBoundary ==
    [automate_if  |-> {Fact("dti <= 0.36")},
     recommend_if |-> {Fact("dti > 0.36"), Fact("dti <= 0.43")},
     block_if     |-> {Fact("dti > 0.50")},
     escalate_if  |-> {ConfidenceBelow("income_verification", 85)}]
DtiGuard == [threshold |-> 75, failIfBlocked |-> FALSE]

DtiBand(le36, le43, gt50) ==
    [f \in {"dti <= 0.36", "dti > 0.36", "dti <= 0.43", "dti > 0.50"} |->
        CASE f = "dti <= 0.36" -> le36
          [] f = "dti > 0.36"  -> IF le36 = "yes" THEN "no" ELSE IF le36 = "no" THEN "yes" ELSE le36
          [] f = "dti <= 0.43" -> le43
          [] OTHER             -> gt50]
DtiFindings ==
    {DtiBand("yes", "yes", "no"), DtiBand("no", "yes", "no"), DtiBand("no", "no", "no"),
     DtiBand("no", "no", "yes"), DtiBand("missing", "missing", "missing"),
     DtiBand("error", "error", "error")}

(* underwriting_decision over two of its seven upstreams: to the engine    *)
(* they are interchangeable but for fraud_screening.                       *)
UwBoundary ==
    [automate_if  |-> {UpstreamsCleared, Fact("risk <= 0.25"), Fact("no_exceptions")},
     recommend_if |-> {Fact("risk > 0.25"), Fact("risk <= 0.60")},
     block_if     |-> {UpstreamBlocked, Fact("fraud.decision == block")},
     escalate_if  |-> {Fact("risk > 0.60"), Fact("senior_review")}]
UwGuard == [threshold |-> 0, failIfBlocked |-> TRUE]

Not(value) == IF value = "yes" THEN "no" ELSE IF value = "no" THEN "yes" ELSE value

UwFinding(band, noExceptions, senior, cleared, blocked) ==
    [f \in {"risk <= 0.25", "risk > 0.25", "risk <= 0.60", "risk > 0.60",
            "no_exceptions", "senior_review", "fraud.decision == block",
            "all_upstream_auto_cleared", "any_upstream_hard_block"} |->
        CASE f = "risk <= 0.25"              -> band[1]
          [] f = "risk > 0.25"               -> Not(band[1])
          [] f = "risk <= 0.60"              -> band[2]
          [] f = "risk > 0.60"               -> Not(band[2])
          [] f = "no_exceptions"             -> noExceptions
          [] f = "senior_review"             -> senior
          [] f = "all_upstream_auto_cleared" -> cleared
          [] f = "any_upstream_hard_block"   -> blocked
          [] OTHER                           -> "no"]

(* None of these keys is in the bundle; the agent's payload brings them    *)
(* all, the flags computed from the stored upstream records, which need    *)
(* not be this run's.                                                      *)
UwBundled == {UwFinding(<<"missing", "missing">>, "missing", "missing", "missing", "missing")}
UwFindings ==
    UwBundled \cup
    {UwFinding(band, x, s, flags[1], flags[2]) :
        band \in {<<"yes", "yes">>, <<"no", "yes">>, <<"no", "no">>},
        x \in {"yes", "no"}, s \in {"yes", "no"},
        flags \in {<<"missing", "missing">>, <<"yes", "no">>, <<"no", "no">>, <<"no", "yes">>}}

ShippedUpstream == [dti_calculation       |-> {"income_verification"},
                    underwriting_decision |-> {"income_verification", "fraud_screening"}]

(* A tighter version of each: no automation, a lower ceiling, more confidence. *)
DtiBulletin == [DtiBoundary EXCEPT !["automate_if"] = {}, !["block_if"] = {Fact("dti > 0.36")}]
UwBulletin == [UwBoundary EXCEPT !["automate_if"] = {}, !["escalate_if"] = {Fact("risk > 0.25")}]

ShippedBoundary == [dti_calculation       |-> [yaml |-> DtiBoundary, bulletin |-> DtiBulletin],
                    underwriting_decision |-> [yaml |-> UwBoundary, bulletin |-> UwBulletin]]
ShippedGuard ==
    [dti_calculation       |-> [yaml |-> DtiGuard, bulletin |-> [DtiGuard EXCEPT !.threshold = 85]],
     underwriting_decision |-> [yaml |-> UwGuard, bulletin |-> [UwGuard EXCEPT !.threshold = 85]]]
Findable == [dti_calculation |-> DtiFindings, underwriting_decision |-> UwFindings]
InBundle == [dti_calculation |-> DtiFindings, underwriting_decision |-> UwBundled]

(* Both sides of the guard's 0.75 and of the escalate rule's 0.85; no      *)
(* confidence matters to underwriting_decision.                            *)
Reported == [dti_calculation |-> {70, 75, 84, 85}, underwriting_decision |-> {80}]
=============================================================================
