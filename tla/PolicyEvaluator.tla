-------------------------- MODULE PolicyEvaluator --------------------------
(***************************************************************************)
(* The boundary engine (core/policy_engine/evaluator.py) as operators: the *)
(* pipeline-level hard rules, the contamination guard, the boundary        *)
(* clauses in priority order and the safe default.  There is no state      *)
(* here: evaluate() is a function of the decision, the clauses and guard   *)
(* of the policy version it resolved, the upstream summaries and the       *)
(* context it is given.                                                    *)
(*                                                                         *)
(* A boundary expression is a record [kind, on, bound]; the kinds are the  *)
(* four shapes the shipped clauses use.  What an expression over entity    *)
(* data evaluates to is one of "yes", "no", "missing" (the lookup fails)   *)
(* and "error" (the comparison raises).  Confidences are integers, percent.*)
(***************************************************************************)
EXTENDS Integers

CONSTANTS
    Decisions,   \* decision ids of the specification
    Fraud,       \* "fraud_screening"
    Compliance,  \* "compliance_check"
    Closing      \* "closing_readiness"

ASSUME EvaluatorAssumption == {Fraud, Compliance, Closing} \subseteq Decisions

Outcomes == {"allow", "block", "recommend", "escalate"}

(* UpstreamSummary; a call carries a function from upstream ids to these. *)
Summary(confidences) == [outcome : Outcomes, confidence : confidences]

Blocked(up) == {u \in DOMAIN up : up[u].outcome = "block"}

-----------------------------------------------------------------------------
(* A definition named ..._as_... is a plausible slip in the one it precedes *)
(* and stands for; the properties are shown to tell the two apart.          *)

(* _check_hard_rules: the most specific rule names the reason. *)
HardRule(d, up) ==
    CASE d = Closing /\ Compliance \in Blocked(up) -> "compliance_block_stops_closing"
      [] d # Fraud /\ Fraud \in Blocked(up)        -> "fraud_block_stops_pipeline"
      [] Blocked(up) # {}                          -> "upstream_block_propagates"
      [] OTHER                                     -> "none"

(* _check_contamination: threshold 0 stands for an absent threshold. *)
LowConfidence(threshold, up) == \E u \in DOMAIN up : up[u].confidence < threshold

(* ... reads fail_if_any_upstream_blocked only. *)
Contaminated_as_BlockedOnly(guard, up) == guard.failIfBlocked /\ Blocked(up) # {}

Contaminated(guard, up) ==
    \/ LowConfidence(guard.threshold, up)
    \/ guard.failIfBlocked /\ Blocked(up) # {}

-----------------------------------------------------------------------------
(* _merge_upstream_into_context: setdefault keeps what the context already *)
(* holds.  So a stored upstream record (context.stored, a function on the  *)
(* upstreams that have one) hides the run's own summary except for the     *)
(* "decision" key, which a stored record does not carry, and a flag of the *)
(* context (one the agent put into its payload) hides the run's own flag.  *)
MergedConfidence(context, up, u) ==
    IF u \in DOMAIN context.stored THEN context.stored[u].confidence ELSE up[u].confidence

Flag(context, name, merged) ==
    \/ context.facts[name] = "yes"
    \/ context.facts[name] = "missing" /\ merged

AnyUpstreamHardBlock(context, up) ==
    Flag(context, "any_upstream_hard_block", Blocked(up) # {})

AllCleared(up) == \A u \in DOMAIN up : up[u].outcome = "allow"

AllUpstreamAutoCleared(context, up) ==
    Flag(context, "all_upstream_auto_cleared", DOMAIN up # {} /\ AllCleared(up))

(* _evaluate_rule: a failed lookup makes a comparison false and "is null"  *)
(* true; _evaluate_clause turns an exception into "not matched".           *)
RuleHolds(rule, context, up) ==
    \/ rule.kind = "fact"         /\ context.facts[rule.on] = "yes"
    \/ rule.kind = "is_null"      /\ context.facts[rule.on] = "missing"
    \/ /\ rule.kind = "confidence_below"
       /\ rule.on \in DOMAIN up
       /\ MergedConfidence(context, up, rule.on) < rule.bound
    \/ rule.kind = "all_cleared"  /\ AllUpstreamAutoCleared(context, up)
    \/ rule.kind = "any_blocked"  /\ AnyUpstreamHardBlock(context, up)

(* block_if and escalate_if fire on any rule, recommend_if and automate_if *)
(* only on all of them; a clause with no rules is passed over.             *)
AnyClauses == {"block_if", "escalate_if"}

Fires(clause, boundary, context, up) ==
    LET rules == boundary[clause]
    IN  /\ rules # {}
        /\ IF clause \in AnyClauses
             THEN \E rule \in rules : RuleHolds(rule, context, up)
             ELSE \A rule \in rules : RuleHolds(rule, context, up)

ClauseNames == {"block_if", "escalate_if", "recommend_if", "automate_if"}

ClauseOutcome_as_Swapped == [block_if     |-> "block",
                             escalate_if  |-> "recommend",
                             recommend_if |-> "escalate",
                             automate_if  |-> "allow"]

ClauseOutcome == [block_if     |-> "block",
                  escalate_if  |-> "escalate",
                  recommend_if |-> "recommend",
                  automate_if  |-> "allow"]

(* automate_if is looked at before escalate_if and recommend_if. *)
Before_as_AutomateEarly == [block_if     |-> {},
                            escalate_if  |-> {"block_if"},
                            recommend_if |-> {"block_if", "escalate_if"},
                            automate_if  |-> {"block_if"}]

(* _CLAUSE_PRIORITY *)
Before == [block_if     |-> {},
           escalate_if  |-> {"block_if"},
           recommend_if |-> {"block_if", "escalate_if"},
           automate_if  |-> {"block_if", "escalate_if", "recommend_if"}]

FirstFiring(boundary, context, up) ==
    {c \in ClauseNames : /\ Fires(c, boundary, context, up)
                         /\ \A b \in Before[c] : ~Fires(b, boundary, context, up)}

-----------------------------------------------------------------------------
(* PolicyDecision *)
Ruling(outcome, by, contamination) ==
    [outcome |-> outcome, by |-> by, contamination |-> contamination]

(* A firing clause wins over the hard rules. *)
Evaluate_as_ClausesFirst(d, boundary, guard, up, context) ==
    LET hard   == HardRule(d, up)
        firing == FirstFiring(boundary, context, up)
    IN  IF firing # {} THEN LET c == CHOOSE c \in firing : TRUE
                            IN  Ruling(ClauseOutcome[c], c, FALSE)
        ELSE IF hard # "none" THEN Ruling("block", hard, FALSE)
        ELSE IF Contaminated(guard, up) THEN Ruling("block", "contamination_guard", TRUE)
        ELSE Ruling("escalate", "safe_default", FALSE)

(* PolicyEvaluator.evaluate *)
Evaluate(d, boundary, guard, up, context) ==
    LET hard   == HardRule(d, up)
        firing == FirstFiring(boundary, context, up)
    IN  IF hard # "none" THEN Ruling("block", hard, FALSE)
        ELSE IF Contaminated(guard, up) THEN Ruling("block", "contamination_guard", TRUE)
        ELSE IF firing = {} THEN Ruling("escalate", "safe_default", FALSE)
        ELSE LET c == CHOOSE c \in firing : TRUE
             IN  Ruling(ClauseOutcome[c], c, FALSE)

(* What a caller that does not look at the clauses can know of the outcome *)
PossibleOutcomes(threshold, up) ==
    IF Blocked(up) # {} \/ LowConfidence(threshold, up) THEN {"block"} ELSE Outcomes
=============================================================================
