---------------------------- MODULE PolicyCheck ----------------------------
(***************************************************************************)
(* Steps 2 to 4 of AtomicTool.run: the policy pre-check over the bundle,   *)
(* the agent's reasoning, and the policy re-check over the bundle overlaid *)
(* with the agent's output_payload.  One behaviour is one decision of one  *)
(* application; which decision, and its inputs (summaries, stored upstream *)
(* records, facts), are fixed by the time the bundle is built, and every   *)
(* combination of them is an initial state.  The clauses are not: each     *)
(* check asks the policy store for the version effective at the time of    *)
(* the evaluation, and people activate versions meanwhile.                 *)
(***************************************************************************)
EXTENDS PolicyEvaluator

CONSTANTS
    Upstream,      \* depends_on, a function on the decisions checked
    Boundary,      \* of each decision and version: [ClauseNames -> sets of rules];
                   \* "yaml" stands for no version, the clauses of decisions.yaml
    Guard,         \* of each decision and version: [threshold, failIfBlocked]
    Confidences,   \* of each decision: what an upstream of it may report
    Findings,      \* of each decision: what the rule evaluator can find for the
                   \* facts of its boundary, functions from fact names to FactValues
    Bundled        \* of each decision: what it can find over the bundle alone

FactValues == {"yes", "no", "missing", "error"}

(* The facts of a decision are those its boundaries mention. *)
ASSUME PolicyAssumption ==
    \A d \in DOMAIN Boundary :
        /\ Confidences[d] \subseteq Int
        /\ \A v \in DOMAIN Boundary[d] : Guard[d][v].threshold \in Int
        /\ Bundled[d] \subseteq Findings[d]
        /\ \A f \in Findings[d] : Findings[d] \subseteq [DOMAIN f -> FactValues]

VARIABLES
    decision,  \* the decision being run
    up,        \* upstream summaries handed over by the executor
    stored,    \* upstream records the bundle picked up from the store
    version,   \* the version in force now
    stamp,     \* policy_version_id of the last check
    facts,     \* what each fact evaluates to over the bundle
    payload,   \* ... over the bundle overlaid with the agent's output_payload
    pre,       \* first PolicyDecision, or NoRuling
    post       \* final PolicyDecision, or NoRuling

vars == <<decision, up, stored, version, stamp, facts, payload, pre, post>>

NoRuling == Ruling("none", "none", FALSE)
NoPayload == [f \in {} |-> "no"]

UpstreamSummaries(d) == [Upstream[d] -> Summary(Confidences[d])]

(* A stored record exists for any subset of the upstreams: a shadow-mode   *)
(* upstream leaves none, an earlier or a concurrent run may have left one. *)
StoredRecords(d) == UNION {[S -> [confidence : Confidences[d]]] : S \in SUBSET Upstream[d]}

Init ==
    /\ decision \in DOMAIN Boundary
    /\ up \in UpstreamSummaries(decision)
    /\ stored \in StoredRecords(decision)
    /\ version \in DOMAIN Boundary[decision]
    /\ stamp = version
    /\ facts \in Bundled[decision]
    /\ payload = NoPayload
    /\ pre = NoRuling
    /\ post = NoRuling

(* _policy_context: the agent's values have the highest precedence. *)
Context(overlay) ==
    [facts |-> IF overlay = NoPayload THEN facts ELSE overlay, stored |-> stored]

Rule(v, context) == Evaluate(decision, Boundary[decision][v], Guard[decision][v], up, context)

(* _resolve_active_version answers otherwise from now on. *)
Activate ==
    /\ version' \in DOMAIN Boundary[decision] \ {version}
    /\ UNCHANGED <<decision, up, stored, stamp, facts, payload, pre, post>>

PreCheck ==
    /\ pre = NoRuling
    /\ pre' = Rule(version, Context(NoPayload))
    /\ stamp' = version
    /\ UNCHANGED <<decision, up, stored, version, facts, payload, post>>

(* agent.reason: the agent's computed values, its flags about the upstreams *)
(* among them, may turn the facts into any findings; an empty payload       *)
(* leaves them.  The proposed outcome is absent because _reconcile ignores  *)
(* it.                                                                      *)
Reason ==
    /\ pre # NoRuling
    /\ post = NoRuling
    /\ payload = NoPayload
    /\ payload' \in Findings[decision]
    /\ UNCHANGED <<decision, up, stored, version, stamp, facts, pre, post>>

(* _reconcile: the agent's outcome counts for nothing, its numbers do.      *)
PostCheck ==
    /\ pre # NoRuling
    /\ post = NoRuling
    /\ post' = Rule(version, Context(payload))
    /\ stamp' = version
    /\ UNCHANGED <<decision, up, stored, version, facts, payload, pre>>

Next == Activate \/ PreCheck \/ Reason \/ PostCheck

Spec == Init /\ [][Next]_vars

-----------------------------------------------------------------------------
RulingType ==
    [outcome : Outcomes \cup {"none"},
     by : ClauseNames \cup {"none", "safe_default", "contamination_guard",
                            "compliance_block_stops_closing",
                            "fraud_block_stops_pipeline", "upstream_block_propagates"},
     contamination : BOOLEAN]

(* Type invariant of the two-phase policy check. *)
TypeOK ==
    /\ decision \in DOMAIN Boundary
    /\ up \in UpstreamSummaries(decision)
    /\ stored \in StoredRecords(decision)
    /\ {version, stamp} \subseteq DOMAIN Boundary[decision]
    /\ facts \in Findings[decision]
    /\ payload \in Findings[decision] \cup {NoPayload}
    /\ pre \in RulingType
    /\ post \in RulingType

(* The agent cannot talk its way past a hard rule or a contaminated        *)
(* upstream: whatever the pre-check blocked on those grounds the re-check, *)
(* made against the agent's own numbers, blocks for the same reason        *)
(* (atomic_tool.py: "Hard rules ... always win").  Only a version activated *)
(* in between, with a lower threshold, can lift a contamination.           *)
AgentCannotLiftHardBlock ==
    post # NoRuling /\ pre.by \notin ClauseNames \cup {"safe_default"} /\ post # pre =>
        /\ pre.by = "contamination_guard"
        /\ \A u \in DOMAIN up : up[u].confidence >= Guard[decision][stamp].threshold

Clauses == Boundary[decision][stamp]

(* Nothing is allowed by omission: an "allow" needs a non-empty            *)
(* automate_if whose every rule holds, no blocked and no under-confident   *)
(* upstream, and no block or escalate rule that holds.  An empty clause    *)
(* list and a rule whose lookup failed are the ways this could go wrong.   *)
(* That the upstreams cleared, where automate_if asks for it, need not be  *)
(* so: the agent's own word for it does.                                   *)
AllowNeedsPositiveEvidence ==
    post.outcome = "allow" =>
        /\ Clauses["automate_if"] # {}
        /\ \A rule \in Clauses["automate_if"] :
              /\ RuleHolds(rule, Context(payload), up)
              /\ rule.kind = "all_cleared" =>
                    \/ AllCleared(up)
                    \/ Context(payload).facts["all_upstream_auto_cleared"] = "yes"
        /\ Blocked(up) = {}
        /\ \A u \in DOMAIN up : up[u].confidence >= Guard[decision][stamp].threshold
        /\ \A rule \in Clauses["block_if"] \cup Clauses["escalate_if"] :
              ~RuleHolds(rule, Context(payload), up)

Severity == [allow |-> 0, recommend |-> 1, escalate |-> 2, block |-> 3]

(* Worse evidence never relaxes a ruling: had more upstreams blocked or    *)
(* their confidence been lower, and had the findings been ones under which *)
(* more block and escalate rules hold, fewer automate rules and the same   *)
(* recommend rules, the ruling would have been at least as severe.  It     *)
(* compares two evaluations and depends on the hard rules, the guard, the  *)
(* OR/AND reading of the four clauses and their order.  The agent's flags  *)
(* are among the findings: a worse upstream alone need not change them.    *)
Ruled(findings, ups) ==
    Evaluate(decision, Boundary[decision][stamp], Guard[decision][stamp], ups,
             [facts |-> findings, stored |-> stored])

Holding(clauses, findings, ups) ==
    LET context == [facts |-> findings, stored |-> stored]
    IN  {rule \in UNION {Clauses[c] : c \in clauses} : RuleHolds(rule, context, ups)}

AtLeastAsAdverse(worse, worseUp, findings) ==
    /\ Blocked(up) \subseteq Blocked(worseUp)
    /\ \A u \in DOMAIN up : worseUp[u].confidence <= up[u].confidence
    /\ Holding(AnyClauses, findings, up) \subseteq Holding(AnyClauses, worse, worseUp)
    /\ Holding({"recommend_if"}, findings, up) = Holding({"recommend_if"}, worse, worseUp)
    /\ Holding({"automate_if"}, worse, worseUp) \subseteq Holding({"automate_if"}, findings, up)

WorseFindingsNeverRelax ==
    post # NoRuling =>
        \A worse \in Findings[decision], worseUp \in UpstreamSummaries(decision) :
            AtLeastAsAdverse(worse, worseUp, Context(payload).facts) =>
                Severity[Ruled(worse, worseUp).outcome] >= Severity[post.outcome]

(* What DecisionPipeline assumes of a ruling is what evaluate() delivers. *)
PipelineAbstractionIsSound ==
    post # NoRuling => post.outcome \in PossibleOutcomes(Guard[decision][stamp].threshold, up)
=============================================================================
