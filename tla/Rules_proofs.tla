----------------------------- MODULE Rules_proofs ----------------------------
(***************************************************************************)
(* Proofs about the rules.  How they are applied, by the boundary engine   *)
(* and the two checks around the agent: for every decision, boundary,      *)
(* guard, set of findings and any number of versions activated meanwhile.  *)
(* How their versions change: for any number of users and rows, whatever   *)
(* the order of drafts, schedules, shadows and emergencies.                *)
(***************************************************************************)
EXTENDS PolicyCheck, RuleVersions, FiniteSetTheorems, SequenceTheorems, WellFoundedInduction, TLAPS

-----------------------------------------------------------------------------
(* The hard rules speak exactly when an upstream blocked.                  *)
LEMMA HardRules ==
    ASSUME NEW d, NEW ups
    PROVE  /\ HardRule(d, ups) # "none" <=> Blocked(ups) # {}
           /\ HardRule(d, ups) \in {"compliance_block_stops_closing", "fraud_block_stops_pipeline",
                                    "upstream_block_propagates", "none"}
  BY DEF HardRule

(* Of the clauses that fire the first in the order of priority is taken.   *)
LEMMA FirstClause ==
    ASSUME NEW boundary, NEW ups, NEW context
    PROVE  LET fires(c) == Fires(c, boundary, context, ups)
               first    == FirstFiring(boundary, context, ups)
           IN  /\ fires("block_if") => first = {"block_if"}
               /\ ~fires("block_if") /\ fires("escalate_if") => first = {"escalate_if"}
               /\ ~fires("block_if") /\ ~fires("escalate_if") /\ fires("recommend_if")
                    => first = {"recommend_if"}
               /\ ~fires("block_if") /\ ~fires("escalate_if") /\ ~fires("recommend_if")
                    => first = IF fires("automate_if") THEN {"automate_if"} ELSE {}
  BY DEF FirstFiring, ClauseNames, Before

(* evaluate() by cases: what each way of ruling says.                      *)
LEMMA RulingsByCase ==
    ASSUME NEW d, NEW boundary, NEW guard, NEW ups, NEW context
    PROVE  LET fires(c) == Fires(c, boundary, context, ups)
               hard     == HardRule(d, ups)
               ruling   == Evaluate(d, boundary, guard, ups, context)
               open     == hard = "none" /\ ~Contaminated(guard, ups)
           IN  /\ hard # "none" => ruling = Ruling("block", hard, FALSE)
               /\ hard = "none" /\ Contaminated(guard, ups)
                    => ruling = Ruling("block", "contamination_guard", TRUE)
               /\ open /\ fires("block_if") => ruling = Ruling("block", "block_if", FALSE)
               /\ open /\ ~fires("block_if") /\ fires("escalate_if")
                    => ruling = Ruling("escalate", "escalate_if", FALSE)
               /\ open /\ ~fires("block_if") /\ ~fires("escalate_if") /\ fires("recommend_if")
                    => ruling = Ruling("recommend", "recommend_if", FALSE)
               /\ open /\ ~fires("block_if") /\ ~fires("escalate_if") /\ ~fires("recommend_if")
                    => ruling = IF fires("automate_if")
                                THEN Ruling("allow", "automate_if", FALSE)
                                ELSE Ruling("escalate", "safe_default", FALSE)
  <1> DEFINE fires(c) == Fires(c, boundary, context, ups)
             first == FirstFiring(boundary, context, ups)
             hard == HardRule(d, ups)
             ruling == Evaluate(d, boundary, guard, ups, context)
  <1>1. hard # "none" => ruling = Ruling("block", hard, FALSE)
    BY DEF Evaluate
  <1>2. hard = "none" /\ Contaminated(guard, ups)
            => ruling = Ruling("block", "contamination_guard", TRUE)
    BY DEF Evaluate
  <1>3. ASSUME hard = "none", ~Contaminated(guard, ups)
        PROVE  /\ first = {} => ruling = Ruling("escalate", "safe_default", FALSE)
               /\ \A c : first = {c} => ruling = Ruling(ClauseOutcome[c], c, FALSE)
    <2>1. \A c : (CHOOSE x \in {c} : TRUE) = c
      OBVIOUS
    <2> QED
      BY <1>3, <2>1 DEF Evaluate
  <1>4. /\ ClauseOutcome["block_if"] = "block" /\ ClauseOutcome["escalate_if"] = "escalate"
        /\ ClauseOutcome["recommend_if"] = "recommend" /\ ClauseOutcome["automate_if"] = "allow"
    BY DEF ClauseOutcome
  <1>5. /\ fires("block_if") => first = {"block_if"}
        /\ ~fires("block_if") /\ fires("escalate_if") => first = {"escalate_if"}
        /\ ~fires("block_if") /\ ~fires("escalate_if") /\ fires("recommend_if")
              => first = {"recommend_if"}
        /\ ~fires("block_if") /\ ~fires("escalate_if") /\ ~fires("recommend_if")
              => first = IF fires("automate_if") THEN {"automate_if"} ELSE {}
    BY FirstClause
  <1> HIDE DEF fires, first, hard, ruling
  <1>6. ASSUME hard = "none", ~Contaminated(guard, ups)
        PROVE  /\ fires("block_if") => ruling = Ruling("block", "block_if", FALSE)
               /\ ~fires("block_if") /\ fires("escalate_if")
                    => ruling = Ruling("escalate", "escalate_if", FALSE)
               /\ ~fires("block_if") /\ ~fires("escalate_if") /\ fires("recommend_if")
                    => ruling = Ruling("recommend", "recommend_if", FALSE)
               /\ ~fires("block_if") /\ ~fires("escalate_if") /\ ~fires("recommend_if")
                    => ruling = IF fires("automate_if")
                                THEN Ruling("allow", "automate_if", FALSE)
                                ELSE Ruling("escalate", "safe_default", FALSE)
    BY <1>3, <1>4, <1>5, <1>6
  <1> QED
    BY <1>1, <1>2, <1>6 DEF fires, first, hard, ruling

Hards == {"compliance_block_stops_closing", "fraud_block_stops_pipeline",
          "upstream_block_propagates"}

(* A ruling is one of the ways evaluate() rules.                           *)
LEMMA RulingForm ==
    ASSUME NEW d, NEW boundary, NEW guard, NEW ups, NEW context
    PROVE  LET ruling == Evaluate(d, boundary, guard, ups, context)
           IN  /\ ruling \in RulingType /\ ruling.outcome \in Outcomes /\ ruling # NoRuling
               /\ ruling.by \notin ClauseNames \cup {"safe_default"} =>
                    HardRule(d, ups) # "none" \/ Contaminated(guard, ups)
  <1> DEFINE fires(c) == Fires(c, boundary, context, ups)
             ruling == Evaluate(d, boundary, guard, ups, context)
             hard == HardRule(d, ups)
             Said(o, b, t) == ruling = Ruling(o, b, t)
  <1>1. /\ hard # "none" => Said("block", hard, FALSE)
        /\ hard = "none" /\ Contaminated(guard, ups) => Said("block", "contamination_guard", TRUE)
    BY RulingsByCase
  <1>2. ASSUME hard = "none", ~Contaminated(guard, ups)
        PROVE  \/ Said("block", "block_if", FALSE)
               \/ Said("escalate", "escalate_if", FALSE)
               \/ Said("recommend", "recommend_if", FALSE)
               \/ Said("allow", "automate_if", FALSE)
               \/ Said("escalate", "safe_default", FALSE)
    <2>1. CASE fires("block_if")
      BY <1>2, <2>1, RulingsByCase
    <2>2. CASE ~fires("block_if") /\ fires("escalate_if")
      BY <1>2, <2>2, RulingsByCase
    <2>3. CASE ~fires("block_if") /\ ~fires("escalate_if") /\ fires("recommend_if")
      BY <1>2, <2>3, RulingsByCase
    <2>4. CASE ~fires("block_if") /\ ~fires("escalate_if") /\ ~fires("recommend_if")
      BY <1>2, <2>4, RulingsByCase
    <2> QED
      BY <2>1, <2>2, <2>3, <2>4
  <1>3. hard \in Hards \cup {"none"}
    BY HardRules DEF Hards
  <1>4. ASSUME NEW o \in Outcomes, NEW t \in BOOLEAN, Said(o, ruling.by, t),
               ruling.by \in ClauseNames \cup Hards \cup {"safe_default", "contamination_guard"}
        PROVE  ruling \in RulingType /\ ruling.outcome \in Outcomes /\ ruling # NoRuling
    BY <1>4 DEF Ruling, NoRuling, RulingType, Outcomes, Hards
  <1> HIDE DEF fires, ruling, hard
  <1>5. \A o, b, t : Said(o, b, t) => ruling.by = b /\ Said(o, ruling.by, t)
    BY DEF Ruling
  <1> HIDE DEF Said
  <1>6. CASE hard # "none"
    <2>1. /\ ruling.by = hard /\ ruling.by \in Hards /\ Said("block", ruling.by, FALSE)
      BY <1>1, <1>3, <1>5, <1>6
    <2>2. ruling \in RulingType /\ ruling.outcome \in Outcomes /\ ruling # NoRuling
      BY <1>4, <2>1 DEF Outcomes
    <2> QED
      BY <1>6, <2>2 DEF hard, ruling
  <1>7. CASE hard = "none" /\ Contaminated(guard, ups)
    <2>1. ruling.by = "contamination_guard" /\ Said("block", ruling.by, TRUE)
      BY <1>1, <1>5, <1>7
    <2>2. ruling \in RulingType /\ ruling.outcome \in Outcomes /\ ruling # NoRuling
      BY <1>4, <2>1 DEF Outcomes
    <2> QED
      BY <1>7, <2>2 DEF ruling
  <1>8. CASE hard = "none" /\ ~Contaminated(guard, ups)
    <2>1. /\ ruling.by \in ClauseNames \cup {"safe_default"}
          /\ \E o \in Outcomes : Said(o, ruling.by, FALSE)
      BY <1>2, <1>5, <1>8 DEF Outcomes, ClauseNames
    <2>2. ruling \in RulingType /\ ruling.outcome \in Outcomes /\ ruling # NoRuling
      BY <1>4, <2>1
    <2> QED
      BY <2>1, <2>2 DEF ruling
  <1> QED
    BY <1>6, <1>7, <1>8

-----------------------------------------------------------------------------
(* The pre-check was made over the bundle by some version, the final       *)
(* ruling by the stamped version over what the agent left.                 *)
RuledByStamp == post # NoRuling => post = Rule(stamp, Context(payload))

CheckInv ==
    /\ TypeOK
    /\ pre = NoRuling => post = NoRuling /\ payload = NoPayload
    /\ pre # NoRuling => \E v \in DOMAIN Boundary[decision] : pre = Rule(v, Context(NoPayload))
    /\ RuledByStamp

LEMMA RuleForm ==
    ASSUME NEW v, NEW context
    PROVE  Rule(v, context) \in RulingType /\ Rule(v, context).outcome \in Outcomes
           /\ Rule(v, context) # NoRuling
  BY RulingForm DEF Rule

LEMMA CheckInit == Init => CheckInv
  <1> SUFFICES ASSUME Init PROVE CheckInv
    OBVIOUS
  <1>1. NoRuling \in RulingType
    BY DEF NoRuling, Ruling, RulingType
  <1>2. facts \in Findings[decision] /\ decision \in DOMAIN Boundary
    BY PolicyAssumption DEF Init
  <1> QED
    BY <1>1, <1>2 DEF Init, CheckInv, TypeOK, RuledByStamp

LEMMA CheckStep == CheckInv /\ [Next]_vars => CheckInv'
  <1> SUFFICES ASSUME CheckInv, [Next]_vars PROVE CheckInv'
    OBVIOUS
  <1> USE DEF CheckInv
  <1>1. CASE Activate
    <2>1. /\ version' \in DOMAIN Boundary[decision]
          /\ UNCHANGED <<decision, up, stored, stamp, facts, payload, pre, post>>
      BY <1>1 DEF Activate
    <2>2. TypeOK'
      BY <2>1 DEF TypeOK, UpstreamSummaries, StoredRecords
    <2> QED
      BY <2>1, <2>2 DEF RuledByStamp, Rule, Context
  <1>2. CASE PreCheck
    <2>1. /\ pre = NoRuling /\ post = NoRuling /\ payload = NoPayload
          /\ pre' = Rule(version, Context(NoPayload)) /\ stamp' = version
          /\ UNCHANGED <<decision, up, stored, version, facts, payload, post>>
      BY <1>2 DEF PreCheck
    <2>2. pre' \in RulingType /\ pre' # NoRuling /\ version \in DOMAIN Boundary[decision]
      BY <2>1, RuleForm DEF TypeOK
    <2>3. TypeOK'
      BY <2>1, <2>2 DEF TypeOK, UpstreamSummaries, StoredRecords
    <2> QED
      BY <2>1, <2>2, <2>3 DEF RuledByStamp, Rule, Context
  <1>3. CASE Reason
    <2>1. /\ pre # NoRuling /\ post = NoRuling /\ payload' \in Findings[decision]
          /\ UNCHANGED <<decision, up, stored, version, stamp, facts, pre, post>>
      BY <1>3 DEF Reason
    <2>2. TypeOK'
      BY <2>1 DEF TypeOK, UpstreamSummaries, StoredRecords
    <2> QED
      BY <2>1, <2>2 DEF RuledByStamp, Rule, Context
  <1>4. CASE PostCheck
    <2>1. /\ pre # NoRuling /\ post' = Rule(version, Context(payload)) /\ stamp' = version
          /\ UNCHANGED <<decision, up, stored, version, facts, payload, pre>>
      BY <1>4 DEF PostCheck
    <2>2. post' \in RulingType /\ version \in DOMAIN Boundary[decision]
      BY <2>1, RuleForm DEF TypeOK
    <2>3. TypeOK'
      BY <2>1, <2>2 DEF TypeOK, UpstreamSummaries, StoredRecords
    <2> QED
      BY <2>1, <2>3 DEF RuledByStamp, Rule, Context
  <1>5. CASE UNCHANGED vars
    <2>1. UNCHANGED <<decision, up, stored, version, stamp, facts, payload, pre, post>>
      BY <1>5 DEF vars
    <2>2. TypeOK'
      BY <2>1 DEF TypeOK, UpstreamSummaries, StoredRecords
    <2> QED
      BY <2>1, <2>2 DEF RuledByStamp, Rule, Context
  <1> QED
    BY <1>1, <1>2, <1>3, <1>4, <1>5 DEF Next

(* The inductive invariant of the two checks.                              *)
THEOREM CheckInvariant == Spec => []CheckInv
  BY CheckInit, CheckStep, PTL DEF Spec

(* Types of the two checks.                                                *)
THEOREM CheckTypes == Spec => []TypeOK
  BY CheckInvariant, PTL DEF CheckInv

-----------------------------------------------------------------------------
(* Numbers of the guard and of the upstreams compare.                      *)
LEMMA Confident ==
    ASSUME TypeOK, ~LowConfidence(Guard[decision][stamp].threshold, up)
    PROVE  \A u \in DOMAIN up : up[u].confidence >= Guard[decision][stamp].threshold
  <1>1. /\ decision \in DOMAIN Boundary /\ stamp \in DOMAIN Boundary[decision]
        /\ Guard[decision][stamp].threshold \in Int /\ Confidences[decision] \subseteq Int
    BY PolicyAssumption DEF TypeOK
  <1>2. \A u \in DOMAIN up : up[u].confidence \in Int
    BY <1>1 DEF TypeOK, UpstreamSummaries, Summary
  <1> QED
    BY <1>1, <1>2 DEF LowConfidence

(* Whatever the agent computes and whatever is activated between the       *)
(* checks, a hard rule blocks again for the same reason, and a contaminated*)
(* upstream does unless the threshold it fell short of is gone.            *)
THEOREM HardBlocksStand == Spec => []AgentCannotLiftHardBlock
  <1>1. CheckInv => AgentCannotLiftHardBlock
    <2> SUFFICES ASSUME CheckInv, post # NoRuling, post # pre,
                        pre.by \notin ClauseNames \cup {"safe_default"}
                 PROVE  /\ pre.by = "contamination_guard"
                        /\ \A u \in DOMAIN up : up[u].confidence >= Guard[decision][stamp].threshold
      BY DEF AgentCannotLiftHardBlock
    <2>1. PICK v \in DOMAIN Boundary[decision] : pre = Rule(v, Context(NoPayload))
      BY DEF CheckInv
    <2>2. post = Rule(stamp, Context(payload))
      BY DEF CheckInv, RuledByStamp
    <2>3. HardRule(decision, up) = "none"
      <3> SUFFICES ASSUME HardRule(decision, up) # "none" PROVE FALSE
        OBVIOUS
      <3>1. pre = Ruling("block", HardRule(decision, up), FALSE)
        BY <2>1, RulingsByCase DEF Rule
      <3>2. post = Ruling("block", HardRule(decision, up), FALSE)
        BY <2>2, RulingsByCase DEF Rule
      <3> QED
        BY <3>1, <3>2
    <2>4. Contaminated(Guard[decision][v], up)
      BY <2>1, <2>3, RulingForm DEF Rule
    <2>5. pre = Ruling("block", "contamination_guard", TRUE)
      BY <2>1, <2>3, <2>4, RulingsByCase DEF Rule
    <2>6. ~Contaminated(Guard[decision][stamp], up)
      <3> SUFFICES ASSUME Contaminated(Guard[decision][stamp], up) PROVE FALSE
        OBVIOUS
      <3>1. post = Ruling("block", "contamination_guard", TRUE)
        BY <2>2, <2>3, RulingsByCase DEF Rule
      <3> QED
        BY <2>5, <3>1
    <2>7. pre.by = "contamination_guard"
      BY <2>5 DEF Ruling
    <2>8. \A u \in DOMAIN up : up[u].confidence >= Guard[decision][stamp].threshold
      BY <2>6, Confident DEF Contaminated, CheckInv
    <2> QED
      BY <2>7, <2>8
  <1> QED
    BY CheckInvariant, <1>1, PTL

(* How severe a ruling is, by the clauses that fire.                       *)
LEMMA SeverityOf ==
    ASSUME NEW d, NEW boundary, NEW guard, NEW ups, NEW context
    PROVE  LET fires(c) == Fires(c, boundary, context, ups)
               hard     == HardRule(d, ups)
               severity == Severity[Evaluate(d, boundary, guard, ups, context).outcome]
           IN  /\ hard # "none" \/ Contaminated(guard, ups) => severity = 3
               /\ hard = "none" /\ ~Contaminated(guard, ups) =>
                    severity = IF fires("block_if") THEN 3
                               ELSE IF fires("escalate_if") THEN 2
                               ELSE IF fires("recommend_if") THEN 1
                               ELSE IF fires("automate_if") THEN 0 ELSE 2
  <1> DEFINE hard == HardRule(d, ups)
             contaminated == Contaminated(guard, ups)
             fires(c) == Fires(c, boundary, context, ups)
             ruling == Evaluate(d, boundary, guard, ups, context)
  <1>1. /\ hard # "none" => ruling = Ruling("block", hard, FALSE)
        /\ hard = "none" /\ contaminated => ruling = Ruling("block", "contamination_guard", TRUE)
    BY RulingsByCase
  <1>2. ASSUME hard = "none", ~contaminated
        PROVE  /\ fires("block_if") => ruling = Ruling("block", "block_if", FALSE)
               /\ ~fires("block_if") /\ fires("escalate_if")
                    => ruling = Ruling("escalate", "escalate_if", FALSE)
               /\ ~fires("block_if") /\ ~fires("escalate_if") /\ fires("recommend_if")
                    => ruling = Ruling("recommend", "recommend_if", FALSE)
               /\ ~fires("block_if") /\ ~fires("escalate_if") /\ ~fires("recommend_if")
                    => ruling = IF fires("automate_if") THEN Ruling("allow", "automate_if", FALSE)
                                ELSE Ruling("escalate", "safe_default", FALSE)
    BY <1>2, RulingsByCase
  <1>3. /\ \A b, t : Severity[Ruling("block", b, t).outcome] = 3
        /\ \A b, t : Severity[Ruling("escalate", b, t).outcome] = 2
        /\ \A b, t : Severity[Ruling("recommend", b, t).outcome] = 1
        /\ \A b, t : Severity[Ruling("allow", b, t).outcome] = 0
    BY DEF Severity, Ruling
  <1> HIDE DEF hard, contaminated, fires, ruling
  <1>4. hard # "none" \/ contaminated => Severity[ruling.outcome] = 3
    BY <1>1, <1>3
  <1>5. hard = "none" /\ ~contaminated =>
            Severity[ruling.outcome] = IF fires("block_if") THEN 3
                                       ELSE IF fires("escalate_if") THEN 2
                                       ELSE IF fires("recommend_if") THEN 1
                                       ELSE IF fires("automate_if") THEN 0 ELSE 2
    BY <1>2, <1>3
  <1> QED
    BY <1>4, <1>5 DEF hard, contaminated, fires, ruling

(* A ruling says "allow" only where nothing speaks against it and a list   *)
(* of rules speaks for it.                                                 *)
LEMMA AllowedByAutomate ==
    ASSUME NEW v, NEW context, Rule(v, context).outcome = "allow"
    PROVE  /\ Blocked(up) = {} /\ ~Contaminated(Guard[decision][v], up)
           /\ Fires("automate_if", Boundary[decision][v], context, up)
           /\ ~Fires("block_if", Boundary[decision][v], context, up)
           /\ ~Fires("escalate_if", Boundary[decision][v], context, up)
  <1> DEFINE severity == Severity[Rule(v, context).outcome]
             fires(c) == Fires(c, Boundary[decision][v], context, up)
  <1>1. severity = 0
    BY DEF Severity
  <1> HIDE DEF severity
  <1>2. HardRule(decision, up) = "none" /\ ~Contaminated(Guard[decision][v], up)
    BY <1>1, SeverityOf DEF severity, Rule
  <1>3. severity = IF fires("block_if") THEN 3
                   ELSE IF fires("escalate_if") THEN 2
                   ELSE IF fires("recommend_if") THEN 1
                   ELSE IF fires("automate_if") THEN 0 ELSE 2
    BY <1>2, SeverityOf DEF severity, Rule
  <1> HIDE DEF fires
  <1>4. ~fires("block_if") /\ ~fires("escalate_if") /\ fires("automate_if")
    BY <1>1, <1>3
  <1> QED
    BY <1>2, <1>4, HardRules DEF fires

(* Nothing is allowed by omission.                                         *)
THEOREM AllowIsEarned == Spec => []AllowNeedsPositiveEvidence
  <1>1. CheckInv => AllowNeedsPositiveEvidence
    <2> SUFFICES ASSUME CheckInv, post.outcome = "allow"
                 PROVE  /\ Clauses["automate_if"] # {}
                        /\ \A rule \in Clauses["automate_if"] :
                              /\ RuleHolds(rule, Context(payload), up)
                              /\ rule.kind = "all_cleared" =>
                                    \/ AllCleared(up)
                                    \/ Context(payload).facts["all_upstream_auto_cleared"] = "yes"
                        /\ Blocked(up) = {}
                        /\ \A u \in DOMAIN up : up[u].confidence >= Guard[decision][stamp].threshold
                        /\ \A rule \in Clauses["block_if"] \cup Clauses["escalate_if"] :
                              ~RuleHolds(rule, Context(payload), up)
      BY DEF AllowNeedsPositiveEvidence
    <2>1. Rule(stamp, Context(payload)).outcome = "allow"
      BY DEF CheckInv, RuledByStamp, NoRuling, Ruling
    <2>2. /\ Blocked(up) = {} /\ ~Contaminated(Guard[decision][stamp], up)
          /\ Fires("automate_if", Clauses, Context(payload), up)
          /\ ~Fires("block_if", Clauses, Context(payload), up)
          /\ ~Fires("escalate_if", Clauses, Context(payload), up)
      BY <2>1, AllowedByAutomate DEF Clauses
    <2>3. /\ Clauses["automate_if"] # {}
          /\ \A rule \in Clauses["automate_if"] : RuleHolds(rule, Context(payload), up)
      BY <2>2 DEF Fires, AnyClauses
    <2>4. \A rule \in Clauses["block_if"] \cup Clauses["escalate_if"] :
              ~RuleHolds(rule, Context(payload), up)
      BY <2>2 DEF Fires, AnyClauses
    <2>5. \A u \in DOMAIN up : up[u].confidence >= Guard[decision][stamp].threshold
      BY <2>2, Confident DEF CheckInv, Contaminated
    <2>6. ASSUME NEW rule \in Clauses["automate_if"], rule.kind = "all_cleared"
          PROVE  \/ AllCleared(up)
                 \/ Context(payload).facts["all_upstream_auto_cleared"] = "yes"
      BY <2>3, <2>6 DEF RuleHolds, AllUpstreamAutoCleared, Flag
    <2> QED
      BY <2>2, <2>3, <2>4, <2>5, <2>6
  <1> QED
    BY CheckInvariant, <1>1, PTL

(* What DecisionPipeline takes for granted of a ruling, the engine delivers*)
(* for every boundary.                                                     *)
THEOREM PipelineMayAbstract == Spec => []PipelineAbstractionIsSound
  <1>1. CheckInv => PipelineAbstractionIsSound
    <2> SUFFICES ASSUME CheckInv, post # NoRuling
                 PROVE  post.outcome \in PossibleOutcomes(Guard[decision][stamp].threshold, up)
      BY DEF PipelineAbstractionIsSound
    <2>1. post = Rule(stamp, Context(payload)) /\ post.outcome \in Outcomes
      BY RuleForm DEF CheckInv, RuledByStamp
    <2>2. CASE Blocked(up) # {}
      <3>1. HardRule(decision, up) # "none"
        BY <2>2, HardRules
      <3>2. post = Ruling("block", HardRule(decision, up), FALSE)
        BY <2>1, <3>1, RulingsByCase DEF Rule
      <3> QED
        BY <2>2, <3>2 DEF PossibleOutcomes, Ruling
    <2>3. CASE Blocked(up) = {} /\ LowConfidence(Guard[decision][stamp].threshold, up)
      <3>1. HardRule(decision, up) = "none" /\ Contaminated(Guard[decision][stamp], up)
        BY <2>3, HardRules DEF Contaminated
      <3>2. post = Ruling("block", "contamination_guard", TRUE)
        BY <2>1, <3>1, RulingsByCase DEF Rule
      <3> QED
        BY <2>3, <3>2 DEF PossibleOutcomes, Ruling
    <2>4. CASE Blocked(up) = {} /\ ~LowConfidence(Guard[decision][stamp].threshold, up)
      BY <2>1, <2>4 DEF PossibleOutcomes
    <2> QED
      BY <2>2, <2>3, <2>4
  <1> QED
    BY CheckInvariant, <1>1, PTL

-----------------------------------------------------------------------------
(* Evidence under which no fewer of the adverse rules hold, the same       *)
(* recommend rules and no more automate rules makes no adverse clause      *)
(* silent and automate_if not fire anew.                                   *)
LEMMA WorseFires ==
    ASSUME NEW worse, NEW worseUp, NEW findings, AtLeastAsAdverse(worse, worseUp, findings),
           NEW one, one = [facts |-> findings, stored |-> stored],
           NEW two, two = [facts |-> worse, stored |-> stored]
    PROVE  /\ \A c \in AnyClauses : Fires(c, Clauses, one, up) => Fires(c, Clauses, two, worseUp)
           /\ Fires("recommend_if", Clauses, one, up) <=> Fires("recommend_if", Clauses, two, worseUp)
           /\ Fires("automate_if", Clauses, two, worseUp) => Fires("automate_if", Clauses, one, up)
  <1>1. \A c \in AnyClauses : \A rule \in Clauses[c] :
            RuleHolds(rule, one, up) => RuleHolds(rule, two, worseUp)
    <2> SUFFICES ASSUME NEW c \in AnyClauses, NEW rule \in Clauses[c], RuleHolds(rule, one, up)
                 PROVE  RuleHolds(rule, two, worseUp)
      OBVIOUS
    <2>1. rule \in Holding(AnyClauses, findings, up)
      BY DEF Holding
    <2>2. rule \in Holding(AnyClauses, worse, worseUp)
      BY <2>1 DEF AtLeastAsAdverse
    <2> QED
      BY <2>2 DEF Holding
  <1>2. \A rule \in Clauses["recommend_if"] :
            RuleHolds(rule, one, up) <=> RuleHolds(rule, two, worseUp)
    <2> SUFFICES ASSUME NEW rule \in Clauses["recommend_if"]
                 PROVE  RuleHolds(rule, one, up) <=> RuleHolds(rule, two, worseUp)
      OBVIOUS
    <2>1. RuleHolds(rule, one, up) <=> rule \in Holding({"recommend_if"}, findings, up)
      BY DEF Holding
    <2>2. RuleHolds(rule, two, worseUp) <=> rule \in Holding({"recommend_if"}, worse, worseUp)
      BY DEF Holding
    <2> QED
      BY <2>1, <2>2 DEF AtLeastAsAdverse
  <1>3. \A rule \in Clauses["automate_if"] :
            RuleHolds(rule, two, worseUp) => RuleHolds(rule, one, up)
    <2> SUFFICES ASSUME NEW rule \in Clauses["automate_if"], RuleHolds(rule, two, worseUp)
                 PROVE  RuleHolds(rule, one, up)
      OBVIOUS
    <2>1. rule \in Holding({"automate_if"}, worse, worseUp)
      BY DEF Holding
    <2>2. rule \in Holding({"automate_if"}, findings, up)
      BY <2>1 DEF AtLeastAsAdverse
    <2> QED
      BY <2>2 DEF Holding
  <1>4. \A c \in AnyClauses : Fires(c, Clauses, one, up) => Fires(c, Clauses, two, worseUp)
    BY <1>1 DEF Fires
  <1>5. Fires("recommend_if", Clauses, one, up) <=> Fires("recommend_if", Clauses, two, worseUp)
    BY <1>2 DEF Fires, AnyClauses
  <1>6. Fires("automate_if", Clauses, two, worseUp) => Fires("automate_if", Clauses, one, up)
    BY <1>3 DEF Fires, AnyClauses
  <1> QED
    BY <1>4, <1>5, <1>6

(* What stopped a decision before its clauses were read stops it on worse  *)
(* upstreams.                                                              *)
LEMMA WorseUpstreams ==
    ASSUME NEW ups \in UpstreamSummaries(decision), NEW worseUp \in UpstreamSummaries(decision),
           TypeOK, Blocked(ups) \subseteq Blocked(worseUp),
           \A u \in DOMAIN ups : worseUp[u].confidence <= ups[u].confidence
    PROVE  /\ HardRule(decision, ups) # "none" => HardRule(decision, worseUp) # "none"
           /\ Contaminated(Guard[decision][stamp], ups)
                 => Contaminated(Guard[decision][stamp], worseUp)
  <1>1. /\ decision \in DOMAIN Boundary /\ stamp \in DOMAIN Boundary[decision]
        /\ Guard[decision][stamp].threshold \in Int /\ Confidences[decision] \subseteq Int
    BY PolicyAssumption DEF TypeOK
  <1>2. /\ DOMAIN ups = DOMAIN worseUp
        /\ \A u \in DOMAIN ups : ups[u].confidence \in Int /\ worseUp[u].confidence \in Int
    BY <1>1 DEF UpstreamSummaries, Summary
  <1>3. LowConfidence(Guard[decision][stamp].threshold, ups)
            => LowConfidence(Guard[decision][stamp].threshold, worseUp)
    BY <1>1, <1>2 DEF LowConfidence
  <1> QED
    BY <1>3, HardRules DEF Contaminated

(* Worse evidence never relaxes a ruling.                                  *)
THEOREM WorseNeverRelaxes == Spec => []WorseFindingsNeverRelax
  <1>1. CheckInv => WorseFindingsNeverRelax
    <2> SUFFICES ASSUME CheckInv, post # NoRuling, NEW worse \in Findings[decision],
                        NEW worseUp \in UpstreamSummaries(decision),
                        AtLeastAsAdverse(worse, worseUp, Context(payload).facts)
                 PROVE  Severity[Ruled(worse, worseUp).outcome] >= Severity[post.outcome]
      BY DEF WorseFindingsNeverRelax
    <2> DEFINE findings == Context(payload).facts
               one == Context(payload)
               two == [facts |-> worse, stored |-> stored]
               guard == Guard[decision][stamp]
    <2>1. /\ post = Evaluate(decision, Clauses, guard, up, one)
          /\ Ruled(worse, worseUp) = Evaluate(decision, Clauses, guard, worseUp, two)
      BY DEF CheckInv, RuledByStamp, Rule, Ruled, Clauses
    <2>2. one = [facts |-> findings, stored |-> stored]
      BY DEF Context
    <2>3. /\ HardRule(decision, up) # "none" => HardRule(decision, worseUp) # "none"
          /\ Contaminated(guard, up) => Contaminated(guard, worseUp)
      <3>1. up \in UpstreamSummaries(decision) /\ TypeOK
        BY DEF CheckInv, TypeOK
      <3> QED
        BY <3>1, WorseUpstreams DEF AtLeastAsAdverse
    <2> DEFINE fires(c, context, ups) == Fires(c, Clauses, context, ups)
               stopped(ups) == HardRule(decision, ups) # "none" \/ Contaminated(guard, ups)
               severity(context, ups) ==
                   Severity[Evaluate(decision, Clauses, guard, ups, context).outcome]
    <2>4. /\ fires("block_if", one, up) => fires("block_if", two, worseUp)
          /\ fires("escalate_if", one, up) => fires("escalate_if", two, worseUp)
          /\ fires("recommend_if", one, up) <=> fires("recommend_if", two, worseUp)
          /\ fires("automate_if", two, worseUp) => fires("automate_if", one, up)
      <3> HIDE DEF one, two
      <3>1. two = [facts |-> worse, stored |-> stored]
        BY DEF two
      <3> QED
        BY <2>2, <3>1, WorseFires DEF AnyClauses
    <2>5. ASSUME NEW context, NEW ups
          PROVE  /\ stopped(ups) => severity(context, ups) = 3
                 /\ ~stopped(ups) =>
                      severity(context, ups) =
                          IF fires("block_if", context, ups) THEN 3
                          ELSE IF fires("escalate_if", context, ups) THEN 2
                          ELSE IF fires("recommend_if", context, ups) THEN 1
                          ELSE IF fires("automate_if", context, ups) THEN 0 ELSE 2
      BY SeverityOf
    <2>6. stopped(up) => stopped(worseUp)
      BY <2>3
    <2>7. severity(two, worseUp) >= severity(one, up)
      <3> HIDE DEF one, two, stopped, fires, severity
      <3> QED
        BY <2>4, <2>5, <2>6
    <2> QED
      BY <2>1, <2>7
  <1> QED
    BY CheckInvariant, <1>1, PTL


-----------------------------------------------------------------------------
(* The versions of the rules.                                              *)

(* Types of the rows, and which fields go together: whatever handlers      *)
(* commit over one another, an emergency has been active since it was      *)
(* inserted, what expires never had a period and what waits has none yet.  *)
Moments == {Never} \cup Nat

RowType ==
    [version : Nat, status : Statuses, emergency : BOOLEAN, from : Moments, to : Moments,
     due : Moments, expires : Moments, created : Moments, ratified : BOOLEAN, replaced : Nat]

Settled(row) == row.status \in {"active", "superseded"}

RowOK(row) ==
    /\ row.from \in {Never} \cup 0..now /\ row.to \in {Never} \cup 0..now
    /\ row.emergency => Settled(row) /\ row.expires = Never /\ row.from = row.created
    /\ row.expires # Never => row.status \in {"shadow", "active", "superseded"} /\ row.from = Never
    /\ ~Settled(row) => row.from = Never /\ row.to = Never

RowsOK ==
    /\ rows \in Seq(RowType) /\ Len(rows) \in 1..MaxRows
    /\ \A r \in DOMAIN rows : RowOK(rows[r]) /\ rows[r].version \in 1..r
    /\ now \in 0..MaxTime
    /\ governed \in [0..MaxTime -> SUBSET Nat]
    /\ causes \subseteq {"overlap", "late revert", "other prior", "expiry"}

(* What a transaction has read: of the right kind for good, and up to date *)
(* until another commits.                                                  *)
Reads ==
    [op : Changes \cup {"approve", "ratify"}, found : SUBSET Nat, target : Nat,
     version : Nat, overtaken : BOOLEAN]

ReadOK(t) ==
    /\ t \in Reads /\ t.found \subseteq DOMAIN rows
    /\ t.op \in Changes => t.version \in 1..Len(rows) + 1
    /\ t.op = "emergency" => \A r \in t.found : Settled(rows[r])
    /\ t.op = "approve" =>
           /\ t.target \in DOMAIN rows
           /\ ~rows[t.target].emergency /\ rows[t.target].expires = Never
           /\ rows[t.target].status \notin {"scheduled", "shadow"}
    /\ t.op = "ratify" => t.target \in DOMAIN rows /\ rows[t.target].emergency

Fresh(t) ==
    /\ t.op \in Changes => t.found = Found(t.op) /\ t.version = NextVersion
    /\ t.op = "approve" => t.found = With("active") /\ t.target \in With("pending_approval")

TxnsOK ==
    /\ DOMAIN txn = Users
    /\ \A u \in Users : txn[u] # NoTxn => ReadOK(txn[u]) /\ (~txn[u].overtaken => Fresh(txn[u]))

(* The rows a job still has to treat. *)
JobOK ==
    /\ job \in [next : 1..4, todo : SUBSET DOMAIN rows]
    /\ job.next = 1 => job.todo = {}
    /\ job.next = 2 => \A r \in job.todo : /\ ~rows[r].emergency /\ rows[r].expires = Never
                                           /\ rows[r].status \notin {"pending_approval", "shadow", "deleted"}
    /\ job.next = 3 => \A r \in job.todo : rows[r].emergency
    /\ job.next = 4 => \A r \in job.todo : rows[r].expires # Never

-----------------------------------------------------------------------------
(* While nothing disturbs the versions: one is active, one draft and one   *)
(* shadow wait at most, and a number names one row.                        *)
OneActive == \E a \in DOMAIN rows : With("active") = {a}

OneWaits ==
    \A s \in {"pending_approval", "shadow"} : \A r, q \in With(s) : r = q

OneNumber == \A r, q \in Live : rows[r].version = rows[q].version => r = q

(* A version has a period from its activation on, open while it governs.   *)
PeriodsOK ==
    \A r \in DOMAIN rows :
        /\ rows[r].status = "active" => rows[r].from # Never /\ rows[r].to = Never
        /\ rows[r].status = "superseded" /\ rows[r].from # Never => rows[r].to # Never

(* What an emergency replaced has governed, until the emergency at least,  *)
(* under a lower number.                                                   *)
ReplacedOK ==
    \A r \in DOMAIN rows : rows[r].emergency =>
        LET p == rows[r].replaced
        IN  /\ p \in DOMAIN rows /\ Settled(rows[p])
            /\ rows[r].from # Never /\ rows[p].from # Never
            /\ rows[p].version < rows[r].version
            /\ rows[p].to = Never \/ rows[r].from <= rows[p].to

(* The version that governed at the end of a tick is the newest whose      *)
(* period holds it.                                                        *)
Covers(row, t) ==
    Settled(row) /\ row.from # Never /\ row.from <= t /\ (row.to = Never \/ row.to > t)

HistoryOK ==
    \A t \in 0..now - 1 : \E g \in DOMAIN rows :
        /\ governed[t] = {g} /\ Covers(rows[g], t)
        /\ \A r \in DOMAIN rows : Covers(rows[r], t) => rows[r].version <= rows[g].version

ScheduledStill == job.next = 2 => job.todo \subseteq With("scheduled")

(* An emergency whose time is up: it governed when this tick began, is in  *)
(* force, not ratified, and no later one replaced it in this tick.         *)
Replaces(q, r) == rows[q].emergency /\ rows[q].replaced = r

ReplacedAt(t, r) == \E q \in DOMAIN rows : Replaces(q, r) /\ rows[q].created = t

Lapsed(r) ==
    /\ now > 0 /\ r \in governed[now - 1]
    /\ Unratified(r) /\ rows[r].created + RatifyWithin < now
    /\ ~ReplacedAt(now, r)

(* Once the job has looked for the emergencies whose time is up it has     *)
(* them to treat.                                                          *)
LapsedAreSeen ==
    job.next >= 3 => \A r \in DOMAIN rows : Lapsed(r) => job.next = 3 /\ r \in job.todo

LapsedEnded ==
    \A t \in 0..now - 2 : \A r \in governed[t] \cap governed[t + 1] :
        rows[r].emergency =>
            \/ rows[r].ratified \/ rows[r].created + RatifyWithin > t
            \/ ReplacedAt(t + 1, r)

CalmOK ==
    /\ OneActive /\ OneWaits /\ OneNumber /\ PeriodsOK /\ ReplacedOK
    /\ HistoryOK /\ ScheduledStill /\ LapsedAreSeen /\ LapsedEnded

ShapeInv == RowsOK /\ TxnsOK /\ JobOK

(* The inductive invariant of the versions.                                *)
RulesInv == ShapeInv /\ (causes = {} => CalmOK)

-----------------------------------------------------------------------------
(* Among some rows there is one with the highest version.                  *)
LEMMA HighestIs ==
    ASSUME \A r \in DOMAIN rows : rows[r].version \in 1..MaxRows,
           MaxRows \in Nat,
           NEW S \in SUBSET DOMAIN rows, S # {}
    PROVE  Highest(S) \in S /\ \A q \in S : rows[q].version <= rows[Highest(S)].version
  <1> DEFINE Missing(r) == MaxRows - rows[r].version
             T == {Missing(r) : r \in S}
  <1>1. T \subseteq Nat /\ T # {}
    OBVIOUS
  <1>2. PICK x \in T : \A y \in T : <<y, x>> \notin OpToRel(<, Nat)
    <2> HIDE DEF T
    <2> QED
      BY <1>1, NatLessThanWellFounded, WFMin
  <1>3. \A y \in T : ~(y < x)
    <2> SUFFICES ASSUME NEW y \in T, y < x PROVE FALSE
      OBVIOUS
    <2>1. <<y, x>> \in Nat \X Nat
      BY <1>1
    <2> QED
      BY <1>2, <2>1 DEF OpToRel
  <1>4. PICK r \in S : x = Missing(r)
    BY <1>2
  <1>5. \A q \in S : rows[q].version <= rows[r].version
    <2> SUFFICES ASSUME NEW q \in S PROVE rows[q].version <= rows[r].version
      OBVIOUS
    <2>1. Missing(q) \in T /\ ~(Missing(q) < Missing(r))
      BY <1>3, <1>4
    <2>2. rows[q].version \in 1..MaxRows /\ rows[r].version \in 1..MaxRows
      OBVIOUS
    <2> QED
      BY <2>1, <2>2
  <1> QED
    BY <1>5 DEF Highest

LEMMA RowsBasics ==
    ASSUME RowsOK
    PROVE  /\ Len(rows) \in Nat /\ DOMAIN rows = 1..Len(rows)
           /\ rows \in [1..Len(rows) -> RowType]
           /\ \A r \in 1..Len(rows) : /\ rows[r] \in RowType /\ RowOK(rows[r])
                                      /\ rows[r].version \in 1..MaxRows /\ rows[r].version \in 1..r
           /\ MaxRows \in Nat /\ MaxTime \in Nat /\ now \in Nat
  <1>1. Len(rows) \in Nat /\ DOMAIN rows = 1..Len(rows) /\ MaxRows \in Nat /\ MaxTime \in Nat /\ now \in Nat
    <2>1. rows \in Seq(RowType) /\ MaxRows \in Nat /\ MaxTime \in Nat
      BY RulesAssumption DEF RowsOK, RulesAssumption
    <2>2. now \in 0..MaxTime
      BY DEF RowsOK
    <2> QED
      BY <2>1, <2>2, LenProperties
  <1>2. \A r \in 1..Len(rows) : rows[r] \in RowType
    BY <1>1, ElementOfSeq DEF RowsOK
  <1>3. Len(rows) <= MaxRows
    <2>1. PICK n \in 1..MaxRows : n = Len(rows)
      BY DEF RowsOK
    <2> QED
      BY <1>1, <2>1
  <1>4. \A r \in 1..Len(rows) : rows[r].version \in 1..r => rows[r].version \in 1..MaxRows
    BY <1>1, <1>3
  <1>5. rows \in [1..Len(rows) -> RowType]
    BY LenProperties DEF RowsOK
  <1> QED
    BY <1>1, <1>2, <1>4, <1>5 DEF RowsOK

(* The next version number is free, and not beyond the number of rows.     *)
LEMMA NextVersionIs ==
    ASSUME RowsOK
    PROVE  /\ NextVersion \in 1..Len(rows) + 1
           /\ \A r \in Live : rows[r].version < NextVersion
  <1>1. Live \in SUBSET DOMAIN rows
    BY DEF Live
  <1>2. CASE Live = {}
    BY <1>2, RowsBasics DEF NextVersion
  <1>3. CASE Live # {}
    <2>1. PICK h \in Live : h = Highest(Live) /\ \A q \in Live : rows[q].version <= rows[h].version
      BY <1>1, <1>3, RowsBasics, HighestIs
    <2>2. /\ h \in 1..Len(rows) /\ rows[h].version \in 1..h /\ Len(rows) \in Nat
          /\ \A q \in Live : rows[q].version \in 1..MaxRows
      BY <1>1, RowsBasics
    <2>3. NextVersion = rows[h].version + 1
      BY <1>3, <2>1 DEF NextVersion
    <2> QED
      BY <2>1, <2>2, <2>3, RowsBasics
  <1> QED
    BY <1>2, <1>3

LEMMA PriorIs ==
    ASSUME RowsOK, NEW r \in DOMAIN rows
    PROVE  /\ Prior(r) \in {0} \cup DOMAIN rows
           /\ Prior(r) # 0 => /\ rows[Prior(r)].status = "superseded"
                              /\ rows[Prior(r)].version < rows[r].version
  <1> DEFINE S == {q \in With("superseded") : rows[q].version < rows[r].version}
  <1>1. S \in SUBSET DOMAIN rows
    BY DEF With
  <1>2. S # {} => Highest(S) \in S
    <2> HIDE DEF S
    <2> QED
      BY <1>1, RowsBasics, HighestIs
  <1>3. Prior(r) = IF S = {} THEN 0 ELSE Highest(S)
    BY DEF Prior, HighestOf
  <1>4. 0 \notin DOMAIN rows
    BY RowsBasics
  <1> QED
    BY <1>1, <1>2, <1>3, <1>4 DEF With

-----------------------------------------------------------------------------
(* What each step makes of the rows, row by row.                           *)
Same == Len(rows') = Len(rows) /\ DOMAIN rows' = 1..Len(rows) /\ rows' \in Seq(RowType)

Grown(new) ==
    /\ Len(rows) + 1 <= MaxRows
    /\ Len(rows') = Len(rows) + 1 /\ DOMAIN rows' = 1..Len(rows) + 1 /\ rows' \in Seq(RowType)
    /\ rows'[Len(rows) + 1] = new /\ new \in RowType

LEMMA AppendedRows ==
    ASSUME NEW n \in Nat, NEW f \in [1..n -> RowType], NEW new \in RowType
    PROVE  /\ Append(f, new) \in Seq(RowType) /\ Len(Append(f, new)) = n + 1
           /\ DOMAIN Append(f, new) = 1..n + 1
           /\ \A r \in 1..n : Append(f, new)[r] = f[r]
           /\ Append(f, new)[n + 1] = new
  <1>1. f \in Seq(RowType) /\ Len(f) = n
    OBVIOUS
  <1> QED
    BY <1>1, AppendProperties

LEMMA RowTypes ==
    ASSUME NEW o \in RowType, now \in Nat
    PROVE  /\ \A s \in Statuses : [o EXCEPT !.status = s] \in RowType
           /\ Superseded(o) \in RowType /\ Activated(o) \in RowType /\ Reactivated(o) \in RowType
           /\ [o EXCEPT !.ratified = TRUE] \in RowType
  BY DEF RowType, Statuses, Superseded, Activated, Reactivated, Moments, Never

LEMMA NewRowTypes ==
    ASSUME NEW v \in Nat, NEW s \in Statuses
    PROVE  Row(v, s) \in RowType
  BY DEF RowType, Row, Moments, Never

LEMMA SameRows ==
    ASSUME NEW n \in Nat, NEW f \in [1..n -> RowType]
    PROVE  f \in Seq(RowType) /\ Len(f) = n /\ DOMAIN f = 1..n
  OBVIOUS

LEMMA TxnBasics ==
    ASSUME ShapeInv, NEW u \in Users, NEW op \in Changes \cup {"approve", "ratify"}, txn[u].op = op
    PROVE  txn[u] # NoTxn /\ ReadOK(txn[u]) /\ (~txn[u].overtaken => Fresh(txn[u]))
  <1>1. NoTxn.op = "none" /\ op # "none"
    BY DEF NoTxn, Changes
  <1> QED
    BY <1>1 DEF ShapeInv, TxnsOK

LEMMA DraftRows ==
    ASSUME ShapeInv, NEW u \in Users, Draft(u)
    PROVE  /\ Grown(Row(txn[u].version, "pending_approval"))
           /\ \A r \in 1..Len(rows) :
                 rows'[r] = IF r \in txn[u].found /\ rows[r].status = "pending_approval"
                            THEN [rows[r] EXCEPT !.status = "deleted"] ELSE rows[r]
  <1> DEFINE n == Len(rows)
             g == [r \in 1..n |-> IF r \in txn[u].found /\ rows[r].status = "pending_approval"
                                  THEN [rows[r] EXCEPT !.status = "deleted"] ELSE rows[r]]
             new == Row(txn[u].version, "pending_approval")
  <1>1. /\ n \in Nat /\ DOMAIN rows = 1..n /\ \A r \in 1..n : rows[r] \in RowType
        /\ MaxRows \in Nat /\ now \in Nat
    BY RowsBasics DEF ShapeInv
  <1>2. ReadOK(txn[u]) /\ txn[u].op = "draft"
    BY TxnBasics DEF Draft, Changes
  <1>3. g \in [1..n -> RowType] /\ new \in RowType
    <2>1. "deleted" \in Statuses /\ "pending_approval" \in Statuses /\ txn[u].version \in Nat
      BY <1>2 DEF Statuses, ReadOK, Reads
    <2> QED
      BY <1>1, <2>1, RowTypes, NewRowTypes
  <1>4. rows' = Append(g, new) /\ n < MaxRows
    BY <1>1 DEF Draft, Set, Still, Room
  <1> HIDE DEF g, new, n
  <1>5. Grown(new) /\ \A r \in 1..n : rows'[r] = g[r]
    BY <1>1, <1>3, <1>4, AppendedRows DEF Grown, n
  <1> QED
    BY <1>5 DEF g, new, n

LEMMA ShadowRows ==
    ASSUME ShapeInv, NEW u \in Users, Shadow(u)
    PROVE  /\ Grown([Row(txn[u].version, "shadow") EXCEPT !.expires = now + ShadowFor])
           /\ \A r \in 1..Len(rows) :
                 rows'[r] = IF r \in txn[u].found /\ rows[r].status = "shadow"
                            THEN [rows[r] EXCEPT !.status = "superseded"] ELSE rows[r]
  <1> DEFINE n == Len(rows)
             g == [r \in 1..n |-> IF r \in txn[u].found /\ rows[r].status = "shadow"
                            THEN [rows[r] EXCEPT !.status = "superseded"] ELSE rows[r]]
             new == [Row(txn[u].version, "shadow") EXCEPT !.expires = now + ShadowFor]
  <1>1. /\ n \in Nat /\ DOMAIN rows = 1..n /\ \A r \in 1..n : rows[r] \in RowType
        /\ MaxRows \in Nat /\ now \in Nat
    BY RowsBasics DEF ShapeInv
  <1>2. ReadOK(txn[u]) /\ txn[u].op = "shadow"
    BY TxnBasics DEF Shadow, Changes
  <1>3. g \in [1..n -> RowType] /\ new \in RowType
    <2>1. "superseded" \in Statuses /\ "shadow" \in Statuses /\ txn[u].version \in Nat
      BY <1>2 DEF Statuses, ReadOK, Reads
    <2>2. g \in [1..n -> RowType]
      BY <1>1, <2>1, RowTypes
    <2>3. new \in RowType
      <3>1. Row(txn[u].version, "shadow") \in RowType
        BY <2>1, NewRowTypes
      <3>2. now + ShadowFor \in Moments
        BY <1>1, RulesAssumption DEF RulesAssumption, Moments
      <3> QED
        BY <3>1, <3>2 DEF RowType
    <2> QED
      BY <2>2, <2>3
  <1>4. rows' = Append(g, new) /\ n < MaxRows
    BY <1>1 DEF Shadow, Set, Still, Room
  <1> HIDE DEF g, new, n
  <1>5. Grown(new) /\ \A r \in 1..n : rows'[r] = g[r]
    BY <1>1, <1>3, <1>4, AppendedRows DEF Grown, n
  <1> QED
    BY <1>5 DEF g, new, n


LEMMA EmergencyRows ==
    ASSUME ShapeInv, NEW u \in Users, Emergency(u)
    PROVE  /\ Grown([Row(txn[u].version, "active") EXCEPT
                        !.emergency = TRUE, !.from = now, !.created = now, !.replaced = HighestOf(txn[u].found)])
           /\ \A r \in 1..Len(rows) :
                 rows'[r] = IF r \in txn[u].found THEN Superseded(rows[r]) ELSE rows[r]
  <1> DEFINE n == Len(rows)
             g == [r \in 1..n |-> IF r \in txn[u].found THEN Superseded(rows[r]) ELSE rows[r]]
             new == [Row(txn[u].version, "active") EXCEPT
                        !.emergency = TRUE, !.from = now, !.created = now, !.replaced = HighestOf(txn[u].found)]
  <1>1. /\ n \in Nat /\ DOMAIN rows = 1..n /\ \A r \in 1..n : rows[r] \in RowType
        /\ MaxRows \in Nat /\ now \in Nat
    BY RowsBasics DEF ShapeInv
  <1>2. ReadOK(txn[u]) /\ txn[u].op = "emergency"
    BY TxnBasics DEF Emergency, Changes
  <1>3. g \in [1..n -> RowType] /\ new \in RowType
    <2>1. "superseded" \in Statuses /\ "active" \in Statuses /\ txn[u].version \in Nat
      BY <1>2 DEF Statuses, ReadOK, Reads
    <2>2. g \in [1..n -> RowType]
      BY <1>1, <2>1, RowTypes
    <2>3. new \in RowType
      <3>1. Row(txn[u].version, "active") \in RowType
        BY <2>1, NewRowTypes
      <3>2. now \in Moments
        BY <1>1 DEF Moments
      <3>3. HighestOf(txn[u].found) \in Nat
        <4>1. txn[u].found \in SUBSET DOMAIN rows
          BY <1>2 DEF ReadOK
        <4>2. txn[u].found # {} => Highest(txn[u].found) \in DOMAIN rows
          BY <4>1, RowsBasics, HighestIs DEF ShapeInv
        <4> QED
          BY <1>1, <4>2 DEF HighestOf
      <3> QED
        BY <3>1, <3>2, <3>3 DEF RowType
    <2> QED
      BY <2>2, <2>3
  <1>4. rows' = Append(g, new) /\ n < MaxRows
    BY <1>1 DEF Emergency, Set, Still, Room
  <1> HIDE DEF g, new, n
  <1>5. Grown(new) /\ \A r \in 1..n : rows'[r] = g[r]
    BY <1>1, <1>3, <1>4, AppendedRows DEF Grown, n
  <1> QED
    BY <1>5 DEF g, new, n

LEMMA ScheduleRows ==
    ASSUME ShapeInv, NEW u \in Users, Schedule(u)
    PROVE  /\ \E due \in now..MaxTime : Grown([Row(txn[u].version, "scheduled") EXCEPT !.due = due])
           /\ \A r \in 1..Len(rows) : rows'[r] = rows[r]
  <1>1. /\ Len(rows) \in Nat /\ rows \in [1..Len(rows) -> RowType]
        /\ MaxRows \in Nat /\ now \in Nat /\ MaxTime \in Nat
    BY RowsBasics DEF ShapeInv
  <1>2. ReadOK(txn[u]) /\ txn[u].op = "scheduled"
    BY TxnBasics DEF Schedule, Changes
  <1>3. PICK due \in now..MaxTime :
            rows' = Append(rows, [Row(txn[u].version, "scheduled") EXCEPT !.due = due])
    BY DEF Schedule
  <1> DEFINE new == [Row(txn[u].version, "scheduled") EXCEPT !.due = due]
  <1>4. new \in RowType
    <2>1. txn[u].version \in Nat /\ "scheduled" \in Statuses /\ due \in Moments
      BY <1>1, <1>2 DEF ReadOK, Reads, Statuses, Moments
    <2>2. Row(txn[u].version, "scheduled") \in RowType
      BY <2>1, NewRowTypes
    <2> QED
      BY <2>1, <2>2 DEF RowType
  <1>5. rows' = Append(rows, new) /\ Len(rows) + 1 <= MaxRows
    BY <1>1, <1>3 DEF Schedule, Room
  <1> HIDE DEF new
  <1>6. Grown(new) /\ \A r \in 1..Len(rows) : rows'[r] = rows[r]
    BY <1>1, <1>4, <1>5, AppendedRows DEF Grown
  <1> QED
    BY <1>6 DEF new

LEMMA ApproveRows ==
    ASSUME ShapeInv, NEW u \in Users, Approve(u)
    PROVE  /\ Same
           /\ \A r \in 1..Len(rows) :
                 LET o == IF r \in txn[u].found /\ rows[r].status = "active"
                          THEN Superseded(rows[r]) ELSE rows[r]
                 IN  rows'[r] = IF r = txn[u].target /\ rows[r].status # "deleted"
                                THEN Activated(o) ELSE o
  <1> DEFINE n == Len(rows)
             f == [r \in 1..n |-> IF r \in txn[u].found /\ rows[r].status = "active"
                                  THEN Superseded(rows[r]) ELSE rows[r]]
             g == [r \in 1..n |-> IF r = txn[u].target /\ rows[r].status # "deleted"
                                  THEN Activated(f[r]) ELSE f[r]]
  <1>1. /\ n \in Nat /\ DOMAIN rows = 1..n /\ \A r \in 1..n : rows[r] \in RowType
        /\ now \in Nat
    BY RowsBasics DEF ShapeInv
  <1>2. f \in [1..n -> RowType]
    BY <1>1, RowTypes
  <1>3. g \in [1..n -> RowType]
    <2> HIDE DEF f
    <2> QED
      BY <1>1, <1>2, RowTypes
  <1>4. rows' = g
    BY <1>1 DEF Approve, Set, Still, Live
  <1>5. Same
    <2> HIDE DEF g, n
    <2> QED
      BY <1>1, <1>3, <1>4, SameRows DEF Same, n
  <1> QED
    BY <1>4, <1>5

LEMMA RatifyRows ==
    ASSUME ShapeInv, NEW u \in Users, Ratify(u)
    PROVE  /\ Same
           /\ \A r \in 1..Len(rows) :
                 rows'[r] = IF r = txn[u].target THEN [rows[r] EXCEPT !.ratified = TRUE] ELSE rows[r]
  <1> DEFINE n == Len(rows)
             g == [r \in 1..n |-> IF r = txn[u].target
                                  THEN [rows[r] EXCEPT !.ratified = TRUE] ELSE rows[r]]
  <1>1. /\ n \in Nat /\ DOMAIN rows = 1..n /\ \A r \in 1..n : rows[r] \in RowType
        /\ now \in Nat /\ rows \in [1..n -> RowType]
    BY RowsBasics DEF ShapeInv
  <1>2. ReadOK(txn[u]) /\ txn[u].op = "ratify"
    BY TxnBasics DEF Ratify
  <1>3. g \in [1..n -> RowType]
    BY <1>1, RowTypes
  <1>4. rows' = g
    BY <1>1, <1>2 DEF Ratify, ReadOK
  <1>5. Same
    <2> HIDE DEF g, n
    <2> QED
      BY <1>1, <1>3, <1>4, SameRows DEF Same, n
  <1> QED
    BY <1>4, <1>5

LEMMA RevertRows ==
    ASSUME ShapeInv, NEW r \in DOMAIN rows, rows' = Reverted(r)
    PROVE  /\ Same
           /\ \A q \in 1..Len(rows) :
                 rows'[q] = IF q = r THEN Superseded(rows[q])
                            ELSE IF q = Prior(r) THEN Reactivated(rows[q]) ELSE rows[q]
  <1> DEFINE n == Len(rows)
             g == [q \in 1..n |-> IF q = r THEN Superseded(rows[q])
                                  ELSE IF q = Prior(r) THEN Reactivated(rows[q]) ELSE rows[q]]
  <1>1. /\ n \in Nat /\ DOMAIN rows = 1..n /\ \A q \in 1..n : rows[q] \in RowType
        /\ now \in Nat
    BY RowsBasics DEF ShapeInv
  <1>2. g \in [1..n -> RowType]
    BY <1>1, RowTypes
  <1>3. Prior(r) # r /\ 0 \notin 1..n
    <2>1. rows[r].version \in Int
      BY <1>1, RowsBasics DEF ShapeInv
    <2> QED
      BY <1>1, <2>1, PriorIs DEF ShapeInv
  <1>4. rows' = g
    BY <1>1, <1>3 DEF Reverted, Set
  <1>5. Same
    <2> HIDE DEF g, n
    <2> QED
      BY <1>1, <1>2, <1>4, SameRows DEF Same, n
  <1> QED
    BY <1>4, <1>5

LEMMA ActivateRows ==
    ASSUME ShapeInv, NEW r \in DOMAIN rows, ActivateScheduled(r)
    PROVE  /\ Same
           /\ \A q \in 1..Len(rows) :
                 LET o == IF rows[q].status = "active" THEN Superseded(rows[q]) ELSE rows[q]
                 IN  rows'[q] = IF q = r THEN Activated(o) ELSE o
  <1> DEFINE n == Len(rows)
             f == [q \in 1..n |-> IF rows[q].status = "active" THEN Superseded(rows[q]) ELSE rows[q]]
             g == [q \in 1..n |-> IF q = r THEN Activated(f[q]) ELSE f[q]]
  <1>1. /\ n \in Nat /\ DOMAIN rows = 1..n /\ \A q \in 1..n : rows[q] \in RowType
        /\ now \in Nat
    BY RowsBasics DEF ShapeInv
  <1>2. f \in [1..n -> RowType]
    BY <1>1, RowTypes
  <1>3. g \in [1..n -> RowType]
    <2> HIDE DEF f
    <2> QED
      BY <1>1, <1>2, RowTypes
  <1>4. rows' = g
    BY <1>1 DEF ActivateScheduled, Set, With
  <1>5. Same
    <2> HIDE DEF g, n
    <2> QED
      BY <1>1, <1>3, <1>4, SameRows DEF Same, n
  <1> QED
    BY <1>4, <1>5

LEMMA ExpireRows ==
    ASSUME ShapeInv, NEW r \in DOMAIN rows, Expire(r)
    PROVE  /\ Same
           /\ \A q \in 1..Len(rows) : rows'[q] = IF q = r THEN Superseded(rows[q]) ELSE rows[q]
  <1> DEFINE n == Len(rows)
             g == [q \in 1..n |-> IF q = r THEN Superseded(rows[q]) ELSE rows[q]]
  <1>1. /\ n \in Nat /\ DOMAIN rows = 1..n /\ \A q \in 1..n : rows[q] \in RowType
        /\ now \in Nat
    BY RowsBasics DEF ShapeInv
  <1>2. g \in [1..n -> RowType]
    BY <1>1, RowTypes
  <1>3. rows' = g
    BY <1>1 DEF Expire, Set
  <1>4. Same
    <2> HIDE DEF g, n
    <2> QED
      BY <1>1, <1>2, <1>3, SameRows DEF Same, n
  <1> QED
    BY <1>3, <1>4

-----------------------------------------------------------------------------
(* What may become of a row in a step, whoever takes it.                   *)
RowMove(o, m) ==
    \/ m = o
    \/ o.status = "pending_approval" /\ m = [o EXCEPT !.status = "deleted"]
    \/ o.status = "shadow" /\ m = [o EXCEPT !.status = "superseded"]
    \/ (Settled(o) \/ o.expires # Never) /\ m = Superseded(o)
    \/ /\ ~o.emergency /\ o.expires = Never /\ o.status \notin {"deleted", "shadow"}
       /\ m = Activated(o) \/ m = Activated(Superseded(o))
    \/ o.status = "superseded" /\ m = Reactivated(o)
    \/ o.emergency /\ m = [o EXCEPT !.ratified = TRUE]

RowsStep ==
    /\ Same \/ \E new : Grown(new) /\ RowOK(new) /\ new.version \in 1..Len(rows) + 1
    /\ \A r \in 1..Len(rows) : RowMove(rows[r], rows'[r])

LEMMA MoveKeeps ==
    ASSUME NEW o \in RowType, NEW m, RowOK(o), RowMove(o, m), now \in Nat
    PROVE  /\ RowOK(m)
           /\ m.version = o.version /\ m.emergency = o.emergency /\ m.expires = o.expires
           /\ m.replaced = o.replaced /\ m.created = o.created /\ m.due = o.due
           /\ o.ratified => m.ratified
           /\ \A s \in {"pending_approval", "scheduled", "shadow"} : m.status = s => o.status = s
           /\ m.status = "deleted" => o.status \in {"deleted", "pending_approval"}
           /\ o.status = "deleted" => m.status = "deleted"
           /\ Settled(o) => Settled(m)
           /\ m.status \in Statuses
  <1> USE DEF RowOK, RowType, Settled, Superseded, Activated, Reactivated, Never, Statuses
  <1>1. CASE m = o
    BY <1>1
  <1>2. CASE o.status = "pending_approval" /\ m = [o EXCEPT !.status = "deleted"]
    BY <1>2
  <1>3. CASE o.status = "shadow" /\ m = [o EXCEPT !.status = "superseded"]
    BY <1>3
  <1>4. CASE (Settled(o) \/ o.expires # Never) /\ m = Superseded(o)
    BY <1>4
  <1>5. CASE /\ ~o.emergency /\ o.expires = Never /\ o.status \notin {"deleted", "shadow"}
             /\ m = Activated(o) \/ m = Activated(Superseded(o))
    <2>1. CASE m = Activated(o)
      BY <1>5, <2>1
    <2>2. CASE m = Activated(Superseded(o))
      <3>1. /\ m.status = "active" /\ m.from = now /\ m.to = now
            /\ m.version = o.version /\ m.emergency = o.emergency /\ m.expires = o.expires
            /\ m.replaced = o.replaced /\ m.created = o.created /\ m.due = o.due
            /\ m.ratified = o.ratified
        BY <2>2
      <3> QED
        BY <1>5, <3>1
    <2> QED
      BY <1>5, <2>1, <2>2
  <1>6. CASE o.status = "superseded" /\ m = Reactivated(o)
    BY <1>6
  <1>7. CASE o.emergency /\ m = [o EXCEPT !.ratified = TRUE]
    BY <1>7
  <1> QED
    BY <1>1, <1>2, <1>3, <1>4, <1>5, <1>6, <1>7 DEF RowMove

LEMMA NewRows ==
    ASSUME NEW v \in Nat, now \in Nat, ShadowFor \in Nat
    PROVE  /\ \A s \in {"pending_approval", "scheduled"} : RowOK(Row(v, s))
           /\ \A due : RowOK([Row(v, "scheduled") EXCEPT !.due = due])
           /\ RowOK([Row(v, "shadow") EXCEPT !.expires = now + ShadowFor])
           /\ \A p : RowOK([Row(v, "active") EXCEPT !.emergency = TRUE, !.from = now,
                                                   !.created = now, !.replaced = p])
           /\ \A due : [Row(v, "scheduled") EXCEPT !.due = due].version = v
           /\ [Row(v, "shadow") EXCEPT !.expires = now + ShadowFor].version = v
           /\ \A p : [Row(v, "active") EXCEPT !.emergency = TRUE, !.from = now,
                                             !.created = now, !.replaced = p].version = v
           /\ \A s : Row(v, s).version = v
  BY DEF RowOK, Row, Settled, Never

(* Every commit and every job makes such a step.                           *)
LEMMA CommitSteps ==
    ASSUME ShapeInv, NEW u \in Users, Commit(u)
    PROVE  RowsStep
  <1>1. /\ Len(rows) \in Nat /\ DOMAIN rows = 1..Len(rows) /\ now \in Nat
        /\ \A r \in 1..Len(rows) : rows[r] \in RowType /\ RowOK(rows[r])
    BY RowsBasics DEF ShapeInv
  <1>2. ShadowFor \in Nat
    BY RulesAssumption DEF RulesAssumption
  <1>3. \A op \in Changes : txn[u].op = op => txn[u].version \in 1..Len(rows) + 1 /\ txn[u].version \in Nat
    BY TxnBasics DEF ReadOK, Reads
  <1>4. CASE Draft(u)
    <2>1. txn[u].version \in 1..Len(rows) + 1 /\ txn[u].version \in Nat
      BY <1>3, <1>4 DEF Draft, Changes
    <2>2. \A r \in 1..Len(rows) : RowMove(rows[r], rows'[r])
      BY <1>4, DraftRows DEF RowMove
    <2>3. Grown(Row(txn[u].version, "pending_approval"))
      BY <1>4, DraftRows
    <2>4. RowOK(Row(txn[u].version, "pending_approval")) /\ Row(txn[u].version, "pending_approval").version = txn[u].version
      BY <1>1, <1>2, <2>1, NewRows
    <2> QED
      BY <2>1, <2>2, <2>3, <2>4 DEF RowsStep
  <1>5. CASE Schedule(u)
    <2>1. txn[u].version \in 1..Len(rows) + 1 /\ txn[u].version \in Nat
      BY <1>3, <1>5 DEF Schedule, Changes
    <2>2. \A r \in 1..Len(rows) : RowMove(rows[r], rows'[r])
      BY <1>5, ScheduleRows DEF RowMove
    <2>3. PICK due : Grown([Row(txn[u].version, "scheduled") EXCEPT !.due = due])
      BY <1>5, ScheduleRows
    <2>4. /\ RowOK([Row(txn[u].version, "scheduled") EXCEPT !.due = due])
          /\ [Row(txn[u].version, "scheduled") EXCEPT !.due = due].version = txn[u].version
      BY <1>1, <1>2, <2>1, NewRows
    <2> QED
      BY <2>1, <2>2, <2>3, <2>4 DEF RowsStep
  <1>6. CASE Shadow(u)
    <2> DEFINE new == [Row(txn[u].version, "shadow") EXCEPT !.expires = now + ShadowFor]
    <2>1. txn[u].version \in 1..Len(rows) + 1 /\ txn[u].version \in Nat
      BY <1>3, <1>6 DEF Shadow, Changes
    <2>2. \A r \in 1..Len(rows) : RowMove(rows[r], rows'[r])
      BY <1>6, ShadowRows DEF RowMove
    <2>3. Grown(new)
      BY <1>6, ShadowRows
    <2>4. RowOK(new) /\ new.version = txn[u].version
      BY <1>1, <1>2, <2>1, NewRows
    <2> HIDE DEF new
    <2> QED
      BY <2>1, <2>2, <2>3, <2>4 DEF RowsStep
  <1>7. CASE Emergency(u)
    <2> DEFINE new == [Row(txn[u].version, "active") EXCEPT
                          !.emergency = TRUE, !.from = now, !.created = now,
                          !.replaced = HighestOf(txn[u].found)]
    <2>1. txn[u].version \in 1..Len(rows) + 1 /\ txn[u].version \in Nat
      BY <1>3, <1>7 DEF Emergency, Changes
    <2>2. \A r \in txn[u].found : Settled(rows[r])
      BY <1>7, TxnBasics DEF Emergency, Changes, ReadOK
    <2>3. \A r \in 1..Len(rows) : RowMove(rows[r], rows'[r])
      BY <1>7, <2>2, EmergencyRows DEF RowMove
    <2>4. Grown(new)
      BY <1>7, EmergencyRows
    <2>5. RowOK(new) /\ new.version = txn[u].version
      BY <1>1, <1>2, <2>1, NewRows
    <2> HIDE DEF new
    <2> QED
      BY <2>1, <2>3, <2>4, <2>5 DEF RowsStep
  <1>8. CASE Approve(u)
    <2>1. /\ ~rows[txn[u].target].emergency /\ rows[txn[u].target].expires = Never
          /\ rows[txn[u].target].status \notin {"scheduled", "shadow"}
      BY <1>8, TxnBasics DEF Approve, ReadOK
    <2>2. \A r \in 1..Len(rows) : RowMove(rows[r], rows'[r])
      BY <1>8, <2>1, ApproveRows DEF RowMove, Settled
    <2> QED
      BY <1>8, <2>2, ApproveRows DEF RowsStep
  <1>9. CASE Ratify(u)
    <2>1. rows[txn[u].target].emergency
      BY <1>9, TxnBasics DEF Ratify, ReadOK
    <2>2. \A r \in 1..Len(rows) : RowMove(rows[r], rows'[r])
      BY <1>9, <2>1, RatifyRows DEF RowMove
    <2> QED
      BY <1>9, <2>2, RatifyRows DEF RowsStep
  <1>10. CASE Refuse(u)
    <2>1. txn[u].target \in DOMAIN rows /\ rows[txn[u].target].emergency
      BY <1>10, TxnBasics DEF Refuse, ReadOK
    <2>2. PICK r \in DOMAIN rows : r = txn[u].target
      BY <2>1
    <2>3. rows' = Reverted(r) /\ Settled(rows[r])
      BY <1>1, <1>10, <2>1, <2>2 DEF Refuse, RowOK
    <2>4. Prior(r) # 0 => rows[Prior(r)].status = "superseded"
      BY PriorIs DEF ShapeInv
    <2>5. \A q \in 1..Len(rows) : RowMove(rows[q], rows'[q])
      BY <1>1, <2>3, <2>4, RevertRows DEF RowMove
    <2> QED
      BY <2>3, <2>5, RevertRows DEF RowsStep
  <1> QED
    BY <1>4, <1>5, <1>6, <1>7, <1>8, <1>9, <1>10 DEF Commit

LEMMA JobIndex ==
    ASSUME JobOK, NEW r
    PROVE  /\ Treats("scheduled", r) => job.next = 2
           /\ Treats("emergency", r) => job.next = 3
           /\ Treats("expiration", r) => job.next = 4
  <1>1. job.next = 1 => job.todo = {}
    BY DEF JobOK
  <1>2. job.next \in {1, 2, 3, 4}
    BY DEF JobOK
  <1>3. Jobs[1] = "scheduled" /\ Jobs[2] = "emergency" /\ Jobs[3] = "expiration"
    BY DEF Jobs
  <1> QED
    BY <1>1, <1>2, <1>3 DEF Treats

LEMMA JobSteps ==
    ASSUME ShapeInv, NEW r, Step(r)
    PROVE  RowsStep
  <1>1. /\ Len(rows) \in Nat /\ DOMAIN rows = 1..Len(rows) /\ now \in Nat
        /\ \A q \in 1..Len(rows) : rows[q] \in RowType /\ RowOK(rows[q])
    BY RowsBasics DEF ShapeInv
  <1>2. r \in DOMAIN rows
    BY DEF Step, ActivateScheduled, RevertUnratified, Expire, Treats, ShapeInv, JobOK
  <1>3. CASE ActivateScheduled(r)
    <2>1. /\ ~rows[r].emergency /\ rows[r].expires = Never
          /\ rows[r].status \notin {"pending_approval", "shadow", "deleted"}
      BY <1>3, JobIndex DEF ActivateScheduled, Treats, ShapeInv, JobOK
    <2>2. \A q \in 1..Len(rows) : RowMove(rows[q], rows'[q])
      BY <1>2, <1>3, <2>1, ActivateRows DEF RowMove, Settled
    <2> QED
      BY <1>2, <1>3, <2>2, ActivateRows DEF RowsStep
  <1>4. CASE RevertUnratified(r)
    <2>1. rows[r].emergency
      BY <1>4, JobIndex DEF RevertUnratified, Treats, ShapeInv, JobOK
    <2>2. rows' = Reverted(r) /\ Settled(rows[r])
      BY <1>1, <1>2, <1>4, <2>1 DEF RevertUnratified, RowOK
    <2>3. Prior(r) # 0 => rows[Prior(r)].status = "superseded"
      BY <1>2, PriorIs DEF ShapeInv
    <2>4. \A q \in 1..Len(rows) : RowMove(rows[q], rows'[q])
      BY <1>1, <1>2, <2>2, <2>3, RevertRows DEF RowMove
    <2> QED
      BY <1>2, <2>2, <2>4, RevertRows DEF RowsStep
  <1>5. CASE Expire(r)
    <2>1. rows[r].expires # Never
      BY <1>5, JobIndex DEF Expire, Treats, ShapeInv, JobOK
    <2>2. \A q \in 1..Len(rows) : RowMove(rows[q], rows'[q])
      BY <1>2, <1>5, <2>1, ExpireRows DEF RowMove
    <2> QED
      BY <1>2, <1>5, <2>2, ExpireRows DEF RowsStep
  <1> QED
    BY <1>3, <1>4, <1>5 DEF Step

-----------------------------------------------------------------------------
(* The types and the shape of rows, transactions and job are kept.         *)
Causes == {"overlap", "late revert", "other prior", "expiry"}

LEMMA RowsStepKeeps ==
    ASSUME RowsOK, RowsStep
    PROVE  /\ Len(rows') \in Len(rows)..MaxRows /\ DOMAIN rows' = 1..Len(rows') /\ rows' \in Seq(RowType)
           /\ \A r \in DOMAIN rows : r \in DOMAIN rows' /\ RowMove(rows[r], rows'[r])
           /\ \A r \in DOMAIN rows' : r \notin DOMAIN rows =>
                  r = Len(rows) + 1 /\ RowOK(rows'[r]) /\ rows'[r].version \in 1..r
           /\ \A r \in DOMAIN rows' : RowOK(rows'[r]) /\ rows'[r].version \in 1..r
  <1>1. /\ Len(rows) \in Nat /\ DOMAIN rows = 1..Len(rows) /\ now \in Nat /\ MaxRows \in Nat
        /\ \A r \in 1..Len(rows) : rows[r] \in RowType /\ RowOK(rows[r]) /\ rows[r].version \in 1..r
    BY RowsBasics
  <1>2. \A r \in 1..Len(rows) : RowOK(rows'[r]) /\ rows'[r].version \in 1..r
    BY <1>1, MoveKeeps DEF RowsStep
  <1>3. CASE Same
    <2>1. Len(rows) <= MaxRows
      <3>1. PICK n \in 1..MaxRows : n = Len(rows)
        BY DEF RowsOK
      <3> QED
        BY <1>1, <3>1
    <2> QED
      BY <1>1, <1>2, <1>3, <2>1 DEF Same, RowsStep
  <1>4. CASE \E new : Grown(new) /\ RowOK(new) /\ new.version \in 1..Len(rows) + 1
    BY <1>1, <1>2, <1>4 DEF Grown, RowsStep
  <1> QED
    BY <1>3, <1>4 DEF RowsStep

LEMMA RowsKept ==
    ASSUME RowsOK, RowsStep, UNCHANGED <<now, governed>>, causes' \subseteq Causes
    PROVE  RowsOK'
  <1>1. /\ Len(rows') \in 1..MaxRows /\ rows' \in Seq(RowType)
        /\ \A r \in DOMAIN rows' : RowOK(rows'[r]) /\ rows'[r].version \in 1..r
    <2>1. PICK n \in 1..MaxRows : n = Len(rows)
      BY DEF RowsOK
    <2>2. PICK m \in n..MaxRows : m = Len(rows')
      BY <2>1, RowsStepKeeps
    <2>3. m \in 1..MaxRows
      BY <2>2, RowsBasics
    <2> QED
      BY <2>2, <2>3, RowsStepKeeps
  <1> QED
    BY <1>1 DEF RowsOK, RowOK, Causes

LEMMA ReadKept ==
    ASSUME RowsOK, RowsStep, NEW t, ReadOK(t)
    PROVE  ReadOK(t)' /\ ReadOK([t EXCEPT !.overtaken = TRUE])'
  <1>1. /\ Len(rows) \in Nat /\ DOMAIN rows = 1..Len(rows) /\ now \in Nat
        /\ \A r \in DOMAIN rows : rows[r] \in RowType /\ RowOK(rows[r])
    BY RowsBasics
  <1>2. \A r \in DOMAIN rows :
            /\ r \in DOMAIN rows'
            /\ rows'[r].emergency = rows[r].emergency /\ rows'[r].expires = rows[r].expires
            /\ \A s \in {"scheduled", "shadow"} : rows'[r].status = s => rows[r].status = s
            /\ Settled(rows[r]) => Settled(rows'[r])
    BY <1>1, RowsStepKeeps, MoveKeeps
  <1>3. Len(rows') \in Nat /\ Len(rows) <= Len(rows')
    BY <1>1, RowsStepKeeps, RowsBasics
  <1>4. ReadOK(t)'
    BY <1>1, <1>2, <1>3 DEF ReadOK, Reads
  <1> QED
    BY <1>4 DEF ReadOK, Reads

LEMMA TxnsKept ==
    ASSUME ShapeInv, RowsStep,
           \A v \in Users : txn[v] # NoTxn => txn'[v] \in {NoTxn, [txn[v] EXCEPT !.overtaken = TRUE]},
           \A v \in Users : txn[v] = NoTxn => txn'[v] = NoTxn,
           DOMAIN txn' = Users
    PROVE  TxnsOK'
  <1> SUFFICES ASSUME NEW v \in Users, txn'[v] # NoTxn
               PROVE  ReadOK(txn[v])' /\ txn'[v].overtaken
    BY DEF TxnsOK
  <1>1. PICK t : t = txn[v]
    OBVIOUS
  <1>2. ReadOK(t) /\ txn'[v] = [t EXCEPT !.overtaken = TRUE]
    BY <1>1 DEF ShapeInv, TxnsOK
  <1>3. ReadOK([t EXCEPT !.overtaken = TRUE])'
    BY <1>2, ReadKept DEF ShapeInv
  <1>4. [t EXCEPT !.overtaken = TRUE].overtaken
    BY <1>2 DEF ReadOK, Reads
  <1>5. PICK s : s = [t EXCEPT !.overtaken = TRUE]
    OBVIOUS
  <1>6. ReadOK(s)' /\ s = txn'[v]
    BY <1>2, <1>3, <1>5
  <1>7. ReadOK(txn[v])'
    BY <1>6 DEF ReadOK
  <1> QED
    BY <1>2, <1>4, <1>7

LEMMA JobKept ==
    ASSUME ShapeInv, RowsStep, job' \in [next : {job.next}, todo : SUBSET job.todo]
    PROVE  JobOK'
  <1>1. /\ Len(rows) \in Nat /\ DOMAIN rows = 1..Len(rows) /\ now \in Nat
        /\ \A r \in DOMAIN rows : rows[r] \in RowType /\ RowOK(rows[r])
    BY RowsBasics DEF ShapeInv
  <1>2. \A r \in DOMAIN rows :
            /\ r \in DOMAIN rows'
            /\ rows'[r].emergency = rows[r].emergency /\ rows'[r].expires = rows[r].expires
            /\ \A s \in {"pending_approval", "shadow"} : rows'[r].status = s => rows[r].status = s
            /\ rows'[r].status = "deleted" => rows[r].status \in {"deleted", "pending_approval"}
    BY <1>1, RowsStepKeeps, MoveKeeps DEF ShapeInv
  <1>3. job'.next = job.next /\ job'.todo \subseteq job.todo /\ job' \in [next : {job.next}, todo : SUBSET job.todo]
    OBVIOUS
  <1>4. job.todo \subseteq DOMAIN rows /\ job.next \in 1..4
    BY DEF ShapeInv, JobOK
  <1>5. job' \in [next : 1..4, todo : SUBSET DOMAIN rows']
    BY <1>2, <1>3, <1>4
  <1>6. job'.next = 1 => job'.todo = {}
    BY <1>3 DEF ShapeInv, JobOK
  <1>7. job'.next = 2 => \A r \in job'.todo :
            /\ ~rows'[r].emergency /\ rows'[r].expires = Never
            /\ rows'[r].status \notin {"pending_approval", "shadow", "deleted"}
    BY <1>2, <1>3, <1>4 DEF ShapeInv, JobOK
  <1>8. job'.next = 3 => \A r \in job'.todo : rows'[r].emergency
    BY <1>2, <1>3, <1>4 DEF ShapeInv, JobOK
  <1>9. job'.next = 4 => \A r \in job'.todo : rows'[r].expires # Never
    BY <1>2, <1>3, <1>4 DEF ShapeInv, JobOK
  <1> QED
    BY <1>5, <1>6, <1>7, <1>8, <1>9 DEF JobOK

(* The other transactions go on overtaken. *)
LEMMA CommitShape ==
    ASSUME ShapeInv, NEW u \in Users, Commit(u)
    PROVE  ShapeInv' /\ RowsStep /\ UNCHANGED <<job, now, governed>> /\ causes \subseteq causes'
  <1>1. RowsStep
    BY CommitSteps
  <1>2. End(u) /\ UNCHANGED <<job, now, governed>>
    BY DEF Commit, Draft, Schedule, Shadow, Emergency, Approve, Ratify, Refuse
  <1>3. causes \subseteq causes' /\ causes' \subseteq causes \cup Causes
    BY DEF Commit, Draft, Schedule, Shadow, Emergency, Approve, Ratify, Refuse, Caused, RevertCauses, Causes
  <1>4. RowsOK'
    BY <1>1, <1>2, <1>3, RowsKept DEF ShapeInv, RowsOK, Causes
  <1>5. TxnsOK'
    BY <1>1, <1>2, TxnsKept DEF End
  <1>6. job \in [next : {job.next}, todo : SUBSET job.todo]
    BY DEF ShapeInv, JobOK
  <1>7. JobOK'
    BY <1>1, <1>2, <1>6, JobKept
  <1> QED
    BY <1>1, <1>2, <1>3, <1>4, <1>5, <1>7 DEF ShapeInv

LEMMA StepShape ==
    ASSUME ShapeInv, NEW r, Step(r)
    PROVE  ShapeInv' /\ RowsStep /\ UNCHANGED <<now, governed>> /\ causes \subseteq causes'
  <1>1. RowsStep
    BY JobSteps
  <1>2. Done(r) /\ Overtake /\ UNCHANGED <<now, governed>>
    BY DEF Step, ActivateScheduled, RevertUnratified, Expire
  <1>3. causes \subseteq causes' /\ causes' \subseteq causes \cup Causes
    BY DEF Step, ActivateScheduled, RevertUnratified, Expire, RevertCauses, Causes
  <1>4. RowsOK'
    BY <1>1, <1>2, <1>3, RowsKept DEF ShapeInv, RowsOK, Causes
  <1>5. TxnsOK'
    BY <1>1, <1>2, TxnsKept DEF Overtake
  <1>6. job' \in [next : {job.next}, todo : SUBSET job.todo]
    BY <1>2 DEF ShapeInv, JobOK, Done
  <1>7. JobOK'
    BY <1>1, <1>6, JobKept
  <1> QED
    BY <1>1, <1>2, <1>3, <1>4, <1>5, <1>7 DEF ShapeInv

LEMMA SameReadings ==
    ASSUME UNCHANGED rows
    PROVE  /\ \A s : With(s)' = With(s)
           /\ \A S : HighestOf(S)' = HighestOf(S)
           /\ NextVersion' = NextVersion
           /\ \A t : Fresh(t) => Fresh(t)'
           /\ \A t : ReadOK(t) => ReadOK(t)'
  <1>1. /\ \A s : With(s)' = With(s)
        /\ Live' = Live
    BY DEF With, Live
  <1>2. \A S : Highest(S)' = Highest(S)
    BY DEF Highest
  <1>3. \A S : HighestOf(S)' = HighestOf(S)
    BY <1>2 DEF HighestOf
  <1>4. NextVersion' = NextVersion
    BY <1>1, <1>2 DEF NextVersion
  <1>5. \A op : Found(op)' = Found(op)
    BY <1>1, <1>3 DEF Found
  <1>6. \A t : Fresh(t) => Fresh(t)'
    BY <1>1, <1>4, <1>5 DEF Fresh
  <1>7. \A t : ReadOK(t) => ReadOK(t)'
    BY DEF ReadOK
  <1> QED
    BY <1>1, <1>3, <1>4, <1>6, <1>7

(* Transactions that go on, and perhaps one that begins, over the same rows. *)
LEMMA TxnsRead ==
    ASSUME TxnsOK, UNCHANGED rows, DOMAIN txn' = Users,
           \A v \in Users : \/ txn'[v] \in {NoTxn, txn[v]}
                            \/ ReadOK(txn'[v]) /\ Fresh(txn'[v])
    PROVE  TxnsOK'
  <1> SUFFICES ASSUME NEW v \in Users, txn'[v] # NoTxn
               PROVE  ReadOK(txn[v])' /\ (~txn'[v].overtaken => Fresh(txn[v])')
    BY DEF TxnsOK
  <1>1. PICK t : t = txn'[v]
    OBVIOUS
  <1>2. ReadOK(t) /\ (~t.overtaken => Fresh(t))
    BY <1>1 DEF TxnsOK
  <1>3. ReadOK(t)' /\ (~t.overtaken => Fresh(t)')
    BY <1>2, SameReadings
  <1>4. ReadOK(txn[v])'
    BY <1>1, <1>3 DEF ReadOK
  <1>5. ~txn'[v].overtaken => Fresh(txn[v])'
    BY <1>1, <1>3 DEF Fresh
  <1> QED
    BY <1>4, <1>5

LEMMA RowsStay ==
    ASSUME RowsOK, UNCHANGED rows
    PROVE  RowsStep
  BY RowsBasics DEF RowsOK, RowsStep, Same, RowMove

LEMMA BeginShape ==
    ASSUME ShapeInv, NEW u \in Users, NEW op, NEW found, NEW target, NEW number,
           Begin(u, op, found, target, number),
           NEW t, t = [op |-> op, found |-> found, target |-> target,
                       version |-> number, overtaken |-> FALSE],
           ReadOK(t), Fresh(t)
    PROVE  ShapeInv'
  <1>1. UNCHANGED <<rows, job, now, governed, causes>> /\ txn' = [txn EXCEPT ![u] = t]
    BY DEF Begin
  <1>2. RowsOK'
    BY <1>1 DEF ShapeInv, RowsOK, RowOK
  <1>3. JobOK'
    BY <1>1 DEF ShapeInv, JobOK
  <1>4. TxnsOK'
    BY <1>1, TxnsRead DEF ShapeInv, TxnsOK
  <1> QED
    BY <1>2, <1>3, <1>4 DEF ShapeInv

LEMMA HandlerShape ==
    ASSUME ShapeInv, NEW u \in Users,
           (\E op \in Changes : Propose(u, op)) \/ Review(u) \/ Judge(u) \/ Abandon(u)
    PROVE  ShapeInv' /\ UNCHANGED <<rows, job, now, governed, causes>>
  <1>1. /\ Len(rows) \in Nat /\ DOMAIN rows = 1..Len(rows)
        /\ \A r \in DOMAIN rows : rows[r] \in RowType /\ RowOK(rows[r])
    BY RowsBasics DEF ShapeInv
  <1>2. \A s : With(s) \subseteq DOMAIN rows
    BY DEF With
  <1>3. With("active") # {} => Highest(With("active")) \in With("active")
    BY <1>2, RowsBasics, HighestIs DEF ShapeInv
  <1>4. With("pending_approval") # {} => Highest(With("pending_approval")) \in With("pending_approval")
    BY <1>2, RowsBasics, HighestIs DEF ShapeInv
  <1>9. UNCHANGED <<rows, job, now, governed, causes>>
    BY DEF Propose, Review, Judge, Abandon, Begin
  <1>5. ASSUME NEW op \in Changes, Propose(u, op)
        PROVE  ShapeInv'
    <2>1. PICK t : t = [op |-> op, found |-> Found(op), target |-> 0,
                        version |-> NextVersion, overtaken |-> FALSE]
      OBVIOUS
    <2>2. /\ t.op = op /\ t.found = Found(op) /\ t.target = 0
          /\ t.version = NextVersion /\ t.overtaken = FALSE
      BY <2>1
    <2>3. Found(op) \subseteq DOMAIN rows
      BY <1>2, <1>3 DEF Found, HighestOf
    <2>4. op = "emergency" => \A r \in Found(op) : Settled(rows[r])
      BY <1>3 DEF Found, HighestOf, Settled, With
    <2>5. NextVersion \in 1..Len(rows) + 1 /\ NextVersion \in Nat
      BY <1>1, NextVersionIs DEF ShapeInv
    <2>6. t \in Reads
      BY <1>1, <2>1, <2>3, <2>5 DEF Reads
    <2>7. op \notin {"approve", "ratify"}
      BY DEF Changes
    <2>8. ReadOK(t) /\ Fresh(t)
      BY <2>2, <2>3, <2>4, <2>5, <2>6, <2>7 DEF ReadOK, Fresh
    <2>9. PICK found : found = Found(op)
      OBVIOUS
    <2>10. PICK number : number = NextVersion
      OBVIOUS
    <2>11. Begin(u, op, found, 0, number)
      BY <1>5, <2>9, <2>10 DEF Propose
    <2> QED
      BY <2>1, <2>8, <2>9, <2>10, <2>11, BeginShape
  <1>6. CASE Review(u)
    <2>1. PICK target : target = Highest(With("pending_approval"))
      OBVIOUS
    <2>2. PICK found : found = With("active")
      OBVIOUS
    <2>3. PICK t : t = [op |-> "approve", found |-> found, target |-> target,
                        version |-> 0, overtaken |-> FALSE]
      OBVIOUS
    <2>4. Begin(u, "approve", found, target, 0)
      BY <1>6, <2>1, <2>2 DEF Review
    <2>5. target \in With("pending_approval")
      BY <1>4, <1>6, <2>1 DEF Review
    <2>6. target \in DOMAIN rows /\ rows[target].status = "pending_approval"
      BY <2>5 DEF With
    <2>7. ~rows[target].emergency /\ rows[target].expires = Never
      BY <1>1, <2>6 DEF RowOK, Settled
    <2>8. t \in Reads /\ target \in Nat
      BY <1>1, <1>2, <2>2, <2>3, <2>6 DEF Reads
    <2>9. ReadOK(t) /\ Fresh(t)
      BY <1>2, <2>2, <2>3, <2>5, <2>6, <2>7, <2>8 DEF ReadOK, Fresh, Changes
    <2> QED
      BY <1>9, <2>3, <2>4, <2>9, BeginShape
  <1>7. CASE Judge(u)
    <2>1. PICK r \in Live : rows[r].emergency /\ Begin(u, "ratify", {}, r, 0)
      BY <1>7 DEF Judge
    <2>2. PICK t : t = [op |-> "ratify", found |-> {}, target |-> r,
                        version |-> 0, overtaken |-> FALSE]
      OBVIOUS
    <2>3. r \in DOMAIN rows /\ t \in Reads
      BY <1>1, <2>2 DEF Live, Reads
    <2>4. ReadOK(t) /\ Fresh(t)
      BY <2>1, <2>2, <2>3 DEF ReadOK, Fresh, Changes
    <2>5. PICK none : none = {}
      OBVIOUS
    <2> QED
      BY <1>9, <2>1, <2>2, <2>4, BeginShape
  <1>8. CASE Abandon(u)
    <2>1. UNCHANGED <<rows, job, now, governed, causes>> /\ txn' = [txn EXCEPT ![u] = NoTxn]
      BY <1>8 DEF Abandon
    <2>2. RowsOK' /\ JobOK'
      BY <2>1 DEF ShapeInv, RowsOK, RowOK, JobOK
    <2>3. TxnsOK'
      BY <2>1, TxnsRead DEF ShapeInv, TxnsOK
    <2> QED
      BY <1>9, <2>2, <2>3 DEF ShapeInv
  <1> QED
    BY <1>5, <1>6, <1>7, <1>8, <1>9

LEMMA CollectShape ==
    ASSUME ShapeInv, Collect
    PROVE  ShapeInv'
  <1>1. UNCHANGED <<rows, txn, now, governed, causes>>
    BY DEF Collect
  <1>2. RowsOK' /\ TxnsOK'
    <2>1. RowsOK'
      BY <1>1 DEF ShapeInv, RowsOK, RowOK
    <2>2. TxnsOK'
      BY <1>1, TxnsRead DEF ShapeInv, TxnsOK
    <2> QED
      BY <2>1, <2>2
  <1>3. \A r \in DOMAIN rows : rows[r] \in RowType /\ RowOK(rows[r])
    BY RowsBasics DEF ShapeInv
  <1>4. job.next \in {1, 2, 3, 4} /\ DOMAIN Jobs = {1, 2, 3}
    BY DEF ShapeInv, JobOK, Jobs
  <1>5. /\ job' = [next |-> job.next + 1, todo |-> Due(Jobs[job.next])] /\ job.next \in {1, 2, 3}
    BY <1>4 DEF Collect
  <1>6. Jobs[1] = "scheduled" /\ Jobs[2] = "emergency" /\ Jobs[3] = "expiration"
    BY DEF Jobs
  <1>7. \A name : Due(name) \subseteq DOMAIN rows
    BY DEF Due
  <1>8. \A r \in Due("scheduled") : /\ ~rows[r].emergency /\ rows[r].expires = Never
                                    /\ rows[r].status = "scheduled"
    BY <1>3 DEF Due, RowOK, Settled
  <1>9. \A r \in Due("emergency") : rows[r].emergency
    BY DEF Due, Unratified
  <1>10. \A r \in Due("expiration") : rows[r].expires # Never
    BY DEF Due
  <1>11. CASE job.next = 1
    <2>1. job' = [next |-> 2, todo |-> Due("scheduled")]
      BY <1>5, <1>6, <1>11
    <2> QED
      BY <1>1, <1>2, <1>7, <1>8, <2>1 DEF ShapeInv, JobOK
  <1>12. CASE job.next = 2
    <2>1. job' = [next |-> 3, todo |-> Due("emergency")]
      BY <1>5, <1>6, <1>12
    <2> QED
      BY <1>1, <1>2, <1>7, <1>9, <2>1 DEF ShapeInv, JobOK
  <1>13. CASE job.next = 3
    <2>1. job' = [next |-> 4, todo |-> Due("expiration")]
      BY <1>5, <1>6, <1>13
    <2> QED
      BY <1>1, <1>2, <1>7, <1>10, <2>1 DEF ShapeInv, JobOK
  <1> QED
    BY <1>5, <1>11, <1>12, <1>13

LEMMA TickShape ==
    ASSUME ShapeInv, Tick
    PROVE  ShapeInv'
  <1>1. /\ UNCHANGED <<rows, txn, causes>> /\ now' = now + 1 /\ job' = NoJob
        /\ governed' = [governed EXCEPT ![now] = With("active")] /\ now < MaxTime
    BY DEF Tick
  <1>2. now \in Nat /\ MaxTime \in Nat /\ DOMAIN rows = 1..Len(rows) /\ Len(rows) \in Nat
    BY RowsBasics DEF ShapeInv
  <1>3. now' \in 0..MaxTime /\ 0..now \subseteq 0..now'
    BY <1>1, <1>2
  <1>4. governed' \in [0..MaxTime -> SUBSET Nat]
    <2>1. With("active") \in SUBSET Nat
      BY <1>2 DEF With
    <2>2. governed \in [0..MaxTime -> SUBSET Nat]
      BY DEF ShapeInv, RowsOK
    <2> QED
      BY <1>1, <2>1, <2>2
  <1>5. RowsOK'
    BY <1>1, <1>3, <1>4 DEF ShapeInv, RowsOK, RowOK
  <1>6. JobOK'
    BY <1>1 DEF JobOK, NoJob
  <1>7. TxnsOK'
    BY <1>1, TxnsRead DEF ShapeInv, TxnsOK
  <1> QED
    BY <1>5, <1>6, <1>7 DEF ShapeInv

LEMMA InitShape ==
    ASSUME RulesInit
    PROVE  ShapeInv /\ rows = <<rows[1]>> /\ DOMAIN rows = {1} /\ Len(rows) = 1
           /\ rows[1] = [Row(1, "active") EXCEPT !.from = 0]
  <1> DEFINE first == [Row(1, "active") EXCEPT !.from = 0]
  <1>1. first \in RowType
    <2>1. Row(1, "active") \in RowType
      BY NewRowTypes DEF Statuses
    <2> QED
      BY <2>1 DEF RowType, Moments
  <1>2. first.version = 1 /\ RowOK(first)
    BY DEF RulesInit, RowOK, Row, Settled, Never
  <1>3. rows = <<first>>
    BY DEF RulesInit
  <1> HIDE DEF first
  <1>4. rows \in Seq(RowType) /\ Len(rows) = 1 /\ DOMAIN rows = {1} /\ rows[1] = first
    BY <1>1, <1>3
  <1>5. RowsOK
    BY <1>2, <1>4, RulesAssumption DEF RulesInit, RowsOK, RulesAssumption
  <1>6. TxnsOK
    BY DEF RulesInit, TxnsOK
  <1>7. JobOK
    BY DEF RulesInit, JobOK, NoJob
  <1> QED
    BY <1>3, <1>4, <1>5, <1>6, <1>7 DEF ShapeInv, first

-----------------------------------------------------------------------------
(* Steps that disturb nothing.  A row moves in one of these ways: a        *)
(* version in force is superseded, one that waited is activated, and only  *)
(* the version that the emergency in force replaced is revived.            *)
CalmMove(r) ==
    LET o == rows[r]
        m == rows'[r]
    IN  \/ m = o
        \/ o.status = "pending_approval" /\ m = [o EXCEPT !.status = "deleted"]
        \/ o.status = "shadow" /\ m = [o EXCEPT !.status = "superseded"]
        \/ (o.status = "active" \/ o.expires # Never) /\ m = Superseded(o)
        \/ o.status \in {"pending_approval", "scheduled"} /\ m = Activated(o)
        \/ /\ o.status = "superseded" /\ m = Reactivated(o)
           /\ \E e \in DOMAIN rows : rows[e].status = "active" /\ Replaces(e, r)
        \/ o.emergency /\ m = [o EXCEPT !.ratified = TRUE]

NewCalm(new) ==
    /\ RowOK(new) /\ new.version = NextVersion
    /\ \/ ~Settled(new)
       \/ /\ new.status = "active" /\ new.from = now /\ new.to = Never /\ new.created = now
          /\ new.emergency
          /\ \E a \in DOMAIN rows : rows[a].status = "active" /\ new.replaced = a

CalmStep ==
    /\ RowsStep
    /\ Same \/ \E new : Grown(new) /\ NewCalm(new)
    /\ \A r \in 1..Len(rows) : CalmMove(r)

Calm == ShapeInv /\ CalmOK

LEMMA TheActive ==
    ASSUME Calm
    PROVE  \E a \in DOMAIN rows : /\ With("active") = {a} /\ rows[a].status = "active"
                                  /\ \A r \in DOMAIN rows : rows[r].status = "active" => r = a
                                  /\ HighestOf(With("active")) = a /\ Highest(With("active")) = a
  <1>1. PICK a \in DOMAIN rows : With("active") = {a}
    BY DEF Calm, CalmOK, OneActive
  <1>2. Highest(With("active")) \in With("active")
    <2>1. With("active") \in SUBSET DOMAIN rows /\ With("active") # {}
      BY <1>1
    <2> QED
      BY <2>1, RowsBasics, HighestIs DEF Calm, ShapeInv
  <1>3. HighestOf(With("active")) = a /\ Highest(With("active")) = a
    BY <1>1, <1>2 DEF HighestOf
  <1> QED
    BY <1>1, <1>3 DEF With

(* A commit that causes nothing had read what still holds. *)
LEMMA CalmTxn ==
    ASSUME Calm, NEW u \in Users, NEW op \in Changes \cup {"approve", "ratify"}, txn[u].op = op,
           Caused(u, {}), causes' = {}
    PROVE  ReadOK(txn[u]) /\ Fresh(txn[u])
  <1>1. ~txn[u].overtaken
    BY DEF Caused
  <1> QED
    BY <1>1, TxnBasics DEF Calm

(* What is left to prove of a calm step, for each.                         *)
Orderly(step) ==
    /\ CalmStep /\ OneActive' /\ OneWaits'
    /\ \A r \in DOMAIN rows : rows[r].status = "scheduled" /\ r # step => rows'[r].status = "scheduled"

LEMMA CalmDraft ==
    ASSUME Calm, NEW u \in Users, Draft(u), causes' = {}
    PROVE  Orderly(0)
  <1>1. /\ Len(rows) \in Nat /\ DOMAIN rows = 1..Len(rows) /\ now \in Nat /\ ShapeInv
        /\ \A r \in 1..Len(rows) : rows[r] \in RowType /\ RowOK(rows[r])
    BY RowsBasics DEF Calm, ShapeInv
  <1>2. Fresh(txn[u]) /\ ReadOK(txn[u]) /\ txn[u].op = "draft"
    BY CalmTxn DEF Draft, Changes
  <1>3. txn[u].found = With("pending_approval") /\ txn[u].version = NextVersion
    BY <1>2 DEF Fresh, Found, Changes
  <1>4. PICK new : new = Row(txn[u].version, "pending_approval")
    OBVIOUS
  <1>5. /\ Grown(new)
        /\ \A r \in 1..Len(rows) :
              rows'[r] = IF rows[r].status = "pending_approval"
                         THEN [rows[r] EXCEPT !.status = "deleted"] ELSE rows[r]
    BY <1>1, <1>3, <1>4, DraftRows DEF With
  <1>6. new.status = "pending_approval" /\ new.version = NextVersion /\ ~Settled(new)
    BY <1>3, <1>4 DEF Row, Settled
  <1>7. RowOK(new)
    <2>1. NextVersion \in Nat /\ ShadowFor \in Nat
      BY <1>1, NextVersionIs, RulesAssumption DEF ShapeInv, RulesAssumption
    <2> QED
      BY <1>1, <1>3, <1>4, <2>1, NewRows
  <1>8. CalmStep
    <2>1. RowsStep
      BY <1>1, CommitSteps DEF Commit
    <2>2. NewCalm(new)
      BY <1>6, <1>7 DEF NewCalm
    <2> QED
      BY <1>5, <2>1, <2>2 DEF CalmStep, CalmMove
  <1>9. \A r \in 1..Len(rows) : /\ rows'[r].status \in {rows[r].status, "deleted"}
                                /\ rows'[r].status # "pending_approval"
                                /\ rows[r].status # "pending_approval" => rows'[r].status = rows[r].status
    BY <1>1, <1>5 DEF RowType
  <1>10. DOMAIN rows' = 1..Len(rows) + 1 /\ rows'[Len(rows) + 1].status = "pending_approval"
    BY <1>5, <1>6 DEF Grown
  <1>11. OneActive'
    <2>1. PICK a \in DOMAIN rows : rows[a].status = "active" /\ \A r \in DOMAIN rows : rows[r].status = "active" => r = a
      BY TheActive
    <2>2. a \in DOMAIN rows' /\ \A r \in DOMAIN rows' : rows'[r].status = "active" <=> r = a
      BY <1>1, <1>9, <1>10, <2>1
    <2> QED
      BY <2>2 DEF OneActive, With
  <1>12. OneWaits'
    <2>1. \A r \in DOMAIN rows' : rows'[r].status = "pending_approval" => r = Len(rows) + 1
      BY <1>1, <1>9, <1>10
    <2>2. \A r \in DOMAIN rows' : rows'[r].status = "shadow" => r \in DOMAIN rows /\ rows[r].status = "shadow"
      BY <1>1, <1>9, <1>10
    <2> QED
      BY <2>1, <2>2 DEF OneWaits, With, Calm, CalmOK
  <1> QED
    BY <1>1, <1>8, <1>9, <1>11, <1>12 DEF Orderly

LEMMA CalmSchedule ==
    ASSUME Calm, NEW u \in Users, Schedule(u), causes' = {}
    PROVE  Orderly(0)
  <1>1. /\ Len(rows) \in Nat /\ DOMAIN rows = 1..Len(rows) /\ now \in Nat /\ ShapeInv
    BY RowsBasics DEF Calm, ShapeInv
  <1>2. Fresh(txn[u]) /\ ReadOK(txn[u]) /\ txn[u].op = "scheduled"
    BY CalmTxn DEF Schedule, Changes
  <1>3. txn[u].version = NextVersion
    BY <1>2 DEF Fresh, Changes
  <1>4. PICK due : /\ Grown([Row(txn[u].version, "scheduled") EXCEPT !.due = due])
                   /\ \A r \in 1..Len(rows) : rows'[r] = rows[r]
    BY <1>1, ScheduleRows
  <1>5. PICK new : new = [Row(txn[u].version, "scheduled") EXCEPT !.due = due]
    OBVIOUS
  <1>6. new.status = "scheduled" /\ new.version = NextVersion /\ ~Settled(new)
    BY <1>3, <1>5 DEF Row, Settled
  <1>7. RowOK(new)
    <2>1. NextVersion \in Nat /\ ShadowFor \in Nat
      BY <1>1, NextVersionIs, RulesAssumption DEF ShapeInv, RulesAssumption
    <2> QED
      BY <1>1, <1>3, <1>5, <2>1, NewRows
  <1>8. CalmStep
    <2>1. RowsStep
      BY <1>1, CommitSteps DEF Commit
    <2>2. NewCalm(new)
      BY <1>6, <1>7 DEF NewCalm
    <2> QED
      BY <1>4, <1>5, <2>1, <2>2 DEF CalmStep, CalmMove
  <1>9. DOMAIN rows' = 1..Len(rows) + 1 /\ rows'[Len(rows) + 1].status = "scheduled"
    BY <1>4, <1>5, <1>6 DEF Grown
  <1>10. OneActive'
    <2>1. PICK a \in DOMAIN rows : rows[a].status = "active" /\ \A r \in DOMAIN rows : rows[r].status = "active" => r = a
      BY TheActive
    <2>2. a \in DOMAIN rows' /\ \A r \in DOMAIN rows' : rows'[r].status = "active" <=> r = a
      BY <1>1, <1>4, <1>9, <2>1
    <2> QED
      BY <2>2 DEF OneActive, With
  <1>11. OneWaits'
    <2>1. \A s \in {"pending_approval", "shadow"} : \A r \in DOMAIN rows' :
              rows'[r].status = s => r \in DOMAIN rows /\ rows[r].status = s
      BY <1>1, <1>4, <1>9
    <2> QED
      BY <2>1 DEF OneWaits, With, Calm, CalmOK
  <1> QED
    BY <1>1, <1>4, <1>8, <1>10, <1>11 DEF Orderly

LEMMA CalmShadow ==
    ASSUME Calm, NEW u \in Users, Shadow(u), causes' = {}
    PROVE  Orderly(0)
  <1>1. /\ Len(rows) \in Nat /\ DOMAIN rows = 1..Len(rows) /\ now \in Nat /\ ShapeInv
        /\ \A r \in 1..Len(rows) : rows[r] \in RowType /\ RowOK(rows[r])
    BY RowsBasics DEF Calm, ShapeInv
  <1>2. Fresh(txn[u]) /\ ReadOK(txn[u]) /\ txn[u].op = "shadow"
    BY CalmTxn DEF Shadow, Changes
  <1>3. txn[u].found = With("shadow") /\ txn[u].version = NextVersion
    BY <1>2 DEF Fresh, Found, Changes
  <1>4. PICK new : new = [Row(txn[u].version, "shadow") EXCEPT !.expires = now + ShadowFor]
    OBVIOUS
  <1>5. /\ Grown(new)
        /\ \A r \in 1..Len(rows) :
              rows'[r] = IF rows[r].status = "shadow"
                         THEN [rows[r] EXCEPT !.status = "superseded"] ELSE rows[r]
    BY <1>1, <1>3, <1>4, ShadowRows DEF With
  <1>6. new.status = "shadow" /\ new.version = NextVersion /\ ~Settled(new)
    BY <1>3, <1>4 DEF Row, Settled
  <1>7. RowOK(new)
    <2>1. NextVersion \in Nat /\ ShadowFor \in Nat
      BY <1>1, NextVersionIs, RulesAssumption DEF ShapeInv, RulesAssumption
    <2> QED
      BY <1>1, <1>3, <1>4, <2>1, NewRows
  <1>8. CalmStep
    <2>1. RowsStep
      BY <1>1, CommitSteps DEF Commit
    <2>2. NewCalm(new)
      BY <1>6, <1>7 DEF NewCalm
    <2> QED
      BY <1>5, <2>1, <2>2 DEF CalmStep, CalmMove
  <1>9. \A r \in 1..Len(rows) : /\ rows'[r].status # "shadow"
                                /\ rows[r].status # "shadow" => rows'[r].status = rows[r].status
                                /\ rows[r].status = "shadow" => rows'[r].status = "superseded"
    BY <1>1, <1>5 DEF RowType
  <1>10. DOMAIN rows' = 1..Len(rows) + 1 /\ rows'[Len(rows) + 1].status = "shadow"
    BY <1>5, <1>6 DEF Grown
  <1>11. OneActive'
    <2>1. PICK a \in DOMAIN rows : rows[a].status = "active" /\ \A r \in DOMAIN rows : rows[r].status = "active" => r = a
      BY TheActive
    <2>2. a \in DOMAIN rows' /\ \A r \in DOMAIN rows' : rows'[r].status = "active" <=> r = a
      BY <1>1, <1>9, <1>10, <2>1
    <2> QED
      BY <2>2 DEF OneActive, With
  <1>12. OneWaits'
    <2>1. \A r \in DOMAIN rows' : rows'[r].status = "shadow" => r = Len(rows) + 1
      BY <1>1, <1>9, <1>10
    <2>2. \A r \in DOMAIN rows' : rows'[r].status = "pending_approval" =>
              r \in DOMAIN rows /\ rows[r].status = "pending_approval"
      BY <1>1, <1>9, <1>10
    <2> QED
      BY <2>1, <2>2 DEF OneWaits, With, Calm, CalmOK
  <1> QED
    BY <1>1, <1>8, <1>9, <1>11, <1>12 DEF Orderly

LEMMA CalmEmergency ==
    ASSUME Calm, NEW u \in Users, Emergency(u), causes' = {}
    PROVE  Orderly(0)
  <1>1. /\ Len(rows) \in Nat /\ DOMAIN rows = 1..Len(rows) /\ now \in Nat /\ ShapeInv
        /\ \A r \in 1..Len(rows) : rows[r] \in RowType /\ RowOK(rows[r])
    BY RowsBasics DEF Calm, ShapeInv
  <1>2. Fresh(txn[u]) /\ ReadOK(txn[u]) /\ txn[u].op = "emergency"
    BY CalmTxn DEF Emergency, Changes
  <1>3. PICK a \in DOMAIN rows :
            /\ rows[a].status = "active" /\ \A r \in DOMAIN rows : rows[r].status = "active" => r = a
            /\ HighestOf(With("active")) = a /\ With("active") = {a} /\ Highest(With("active")) = a
    BY TheActive
  <1>4. txn[u].found = {a} /\ txn[u].version = NextVersion /\ HighestOf(txn[u].found) = a
    <2>1. txn[u].found = {HighestOf(With("active"))} \ {0} /\ txn[u].version = NextVersion
      BY <1>2 DEF Fresh, Found, Changes
    <2>2. txn[u].found = {a}
      BY <1>1, <1>3, <2>1
    <2>3. HighestOf(txn[u].found) = a
      BY <1>3, <2>2
    <2> QED
      BY <2>1, <2>2, <2>3
  <1>5. PICK new : new = [Row(txn[u].version, "active") EXCEPT
                             !.emergency = TRUE, !.from = now, !.created = now,
                             !.replaced = HighestOf(txn[u].found)]
    OBVIOUS
  <1>6. Grown(new)
    BY <1>1, <1>5, EmergencyRows
  <1>7. \A r \in 1..Len(rows) : rows'[r] = IF r = a THEN Superseded(rows[r]) ELSE rows[r]
    BY <1>1, <1>4, EmergencyRows
  <1>8. /\ new.status = "active" /\ new.version = NextVersion /\ new.emergency
        /\ new.from = now /\ new.to = Never /\ new.created = now /\ new.replaced = a
    BY <1>4, <1>5 DEF Row
  <1>9. RowOK(new)
    <2>1. NextVersion \in Nat /\ ShadowFor \in Nat
      BY <1>1, NextVersionIs, RulesAssumption DEF ShapeInv, RulesAssumption
    <2> QED
      BY <1>1, <1>4, <1>5, <2>1, NewRows
  <1>10. CalmStep
    <2>1. RowsStep
      BY <1>1, CommitSteps DEF Commit
    <2>2. NewCalm(new)
      BY <1>3, <1>8, <1>9 DEF NewCalm
    <2>3. \A r \in 1..Len(rows) : CalmMove(r)
      BY <1>3, <1>7 DEF CalmMove
    <2> QED
      BY <1>6, <2>1, <2>2, <2>3 DEF CalmStep
  <1>11. \A r \in 1..Len(rows) : /\ rows'[r].status # "active"
                                 /\ r # a => rows'[r].status = rows[r].status
                                 /\ r = a => rows'[r].status = "superseded"
    BY <1>1, <1>3, <1>7 DEF RowType, Superseded
  <1>12. DOMAIN rows' = 1..Len(rows) + 1 /\ rows'[Len(rows) + 1].status = "active"
    BY <1>6, <1>8 DEF Grown
  <1>13. OneActive'
    <2>1. \A r \in DOMAIN rows' : rows'[r].status = "active" <=> r = Len(rows) + 1
      BY <1>1, <1>11, <1>12
    <2> QED
      BY <1>1, <1>12, <2>1 DEF OneActive, With
  <1>14. OneWaits'
    <2>1. \A s \in {"pending_approval", "shadow"} : \A r \in DOMAIN rows' :
              rows'[r].status = s => r \in DOMAIN rows /\ rows[r].status = s
      BY <1>1, <1>11, <1>12
    <2> QED
      BY <2>1 DEF OneWaits, With, Calm, CalmOK
  <1> QED
    BY <1>1, <1>3, <1>10, <1>11, <1>13, <1>14 DEF Orderly

(* One that waited takes the place of the version in force. *)
LEMMA CalmPromote ==
    ASSUME Calm, NEW x \in DOMAIN rows, rows[x].status \in {"pending_approval", "scheduled"},
           RowsStep, Same,
           \A r \in 1..Len(rows) :
               rows'[r] = IF r = x THEN Activated(rows[r])
                          ELSE IF rows[r].status = "active" THEN Superseded(rows[r]) ELSE rows[r]
    PROVE  Orderly(x)
  <1>1. /\ Len(rows) \in Nat /\ DOMAIN rows = 1..Len(rows)
        /\ \A r \in 1..Len(rows) : rows[r] \in RowType
    BY RowsBasics DEF Calm, ShapeInv
  <1>2. CalmStep
    BY <1>1 DEF CalmStep, CalmMove
  <1>3. \A r \in 1..Len(rows) :
            rows'[r].status = IF r = x THEN "active"
                              ELSE IF rows[r].status = "active" THEN "superseded" ELSE rows[r].status
    BY <1>1 DEF RowType, Activated, Superseded
  <1>4. DOMAIN rows' = DOMAIN rows
    BY <1>1 DEF Same
  <1>5. OneActive'
    <2>1. \A r \in DOMAIN rows' : rows'[r].status = "active" <=> r = x
      BY <1>1, <1>3, <1>4
    <2> QED
      BY <1>4, <2>1 DEF OneActive, With
  <1>6. OneWaits'
    <2>1. \A s \in {"pending_approval", "shadow"} : \A r \in DOMAIN rows' :
              rows'[r].status = s => r \in DOMAIN rows /\ rows[r].status = s
      BY <1>1, <1>3, <1>4
    <2> QED
      BY <2>1 DEF OneWaits, With, Calm, CalmOK
  <1> QED
    BY <1>1, <1>2, <1>3, <1>5, <1>6 DEF Orderly

LEMMA CalmApprove ==
    ASSUME Calm, NEW u \in Users, Approve(u), causes' = {}
    PROVE  Orderly(0)
  <1>1. /\ Len(rows) \in Nat /\ DOMAIN rows = 1..Len(rows) /\ ShapeInv
    BY RowsBasics DEF Calm, ShapeInv
  <1>2. Fresh(txn[u]) /\ ReadOK(txn[u]) /\ txn[u].op = "approve"
    BY CalmTxn DEF Approve
  <1>3. PICK x \in DOMAIN rows : x = txn[u].target /\ rows[x].status = "pending_approval"
    BY <1>2 DEF Fresh, With
  <1>4. txn[u].found = With("active")
    BY <1>2 DEF Fresh
  <1>5. \A r \in 1..Len(rows) : r \in txn[u].found <=> rows[r].status = "active"
    BY <1>1, <1>4 DEF With
  <1>6. /\ Same
        /\ \A r \in 1..Len(rows) :
               rows'[r] = IF r = x THEN Activated(rows[r])
                          ELSE IF rows[r].status = "active" THEN Superseded(rows[r]) ELSE rows[r]
    BY <1>1, <1>3, <1>5, ApproveRows
  <1>7. RowsStep
    BY <1>1, CommitSteps DEF Commit
  <1>8. Orderly(x)
    BY <1>3, <1>6, <1>7, CalmPromote
  <1> QED
    BY <1>3, <1>8 DEF Orderly

LEMMA CalmActivate ==
    ASSUME Calm, NEW x \in DOMAIN rows, ActivateScheduled(x)
    PROVE  Orderly(x)
  <1>1. /\ Len(rows) \in Nat /\ DOMAIN rows = 1..Len(rows) /\ ShapeInv
    BY RowsBasics DEF Calm, ShapeInv
  <1>2. rows[x].status = "scheduled"
    BY <1>1, JobIndex DEF ActivateScheduled, Treats, ShapeInv, Calm, CalmOK, ScheduledStill, With
  <1>3. /\ Same
        /\ \A r \in 1..Len(rows) :
               rows'[r] = IF r = x THEN Activated(rows[r])
                          ELSE IF rows[r].status = "active" THEN Superseded(rows[r]) ELSE rows[r]
    BY <1>1, <1>2, ActivateRows
  <1>4. RowsStep
    BY <1>1, JobSteps DEF Step
  <1> QED
    BY <1>2, <1>3, <1>4, CalmPromote

LEMMA CalmRatify ==
    ASSUME Calm, NEW u \in Users, Ratify(u)
    PROVE  Orderly(0)
  <1>1. /\ Len(rows) \in Nat /\ DOMAIN rows = 1..Len(rows) /\ ShapeInv
        /\ \A r \in 1..Len(rows) : rows[r] \in RowType
    BY RowsBasics DEF Calm, ShapeInv
  <1>2. txn[u].op = "ratify"
    BY DEF Ratify
  <1>3. rows[txn[u].target].emergency
    BY <1>1, <1>2, TxnBasics DEF ReadOK
  <1>4. /\ Same
        /\ \A r \in 1..Len(rows) :
               rows'[r] = IF r = txn[u].target THEN [rows[r] EXCEPT !.ratified = TRUE] ELSE rows[r]
    BY <1>1, RatifyRows
  <1>5. RowsStep
    BY <1>1, CommitSteps DEF Commit
  <1>6. CalmStep
    BY <1>3, <1>4, <1>5 DEF CalmStep, CalmMove
  <1>7. \A r \in DOMAIN rows : rows'[r].status = rows[r].status
    BY <1>1, <1>4 DEF RowType
  <1>8. DOMAIN rows' = DOMAIN rows
    BY <1>1, <1>4 DEF Same
  <1>9. OneActive' /\ OneWaits'
    BY <1>7, <1>8 DEF OneActive, OneWaits, With, Calm, CalmOK
  <1> QED
    BY <1>6, <1>7, <1>9 DEF Orderly

(* An emergency in force gives way to the version it replaced. *)
LEMMA CalmRevert ==
    ASSUME Calm, NEW e \in DOMAIN rows, rows[e].emergency, RevertCauses(e) = {},
           rows' = Reverted(e), RowsStep
    PROVE  Orderly(0)
  <1>1. /\ Len(rows) \in Nat /\ DOMAIN rows = 1..Len(rows) /\ ShapeInv /\ RowsOK
        /\ \A r \in 1..Len(rows) : rows[r] \in RowType
    BY RowsBasics DEF Calm, ShapeInv
  <1>2. rows[e].status = "active" /\ Prior(e) = rows[e].replaced
    BY DEF RevertCauses
  <1>3. PICK p \in DOMAIN rows : p = rows[e].replaced /\ Replaces(e, p)
    BY DEF Calm, CalmOK, ReplacedOK, Replaces
  <1>4. p = Prior(e) /\ p # 0 /\ rows[p].status = "superseded" /\ p # e
    BY <1>1, <1>2, <1>3, PriorIs
  <1>5. /\ Same
        /\ \A r \in 1..Len(rows) :
               rows'[r] = IF r = e THEN Superseded(rows[r])
                          ELSE IF r = p THEN Reactivated(rows[r]) ELSE rows[r]
    BY <1>1, <1>4, RevertRows
  <1>6. CalmStep
    BY <1>2, <1>3, <1>4, <1>5 DEF CalmStep, CalmMove
  <1>7. \A r \in DOMAIN rows :
            rows'[r].status = IF r = e THEN "superseded" ELSE IF r = p THEN "active" ELSE rows[r].status
    <2>1. \A o \in RowType : Superseded(o).status = "superseded" /\ Reactivated(o).status = "active"
      BY DEF RowType, Superseded, Reactivated
    <2>2. \A r \in 1..Len(rows) :
              rows'[r].status = IF r = e THEN "superseded" ELSE IF r = p THEN "active" ELSE rows[r].status
      BY <1>1, <1>5, <2>1
    <2> QED
      BY <1>1, <2>2
  <1>8. DOMAIN rows' = DOMAIN rows
    BY <1>1, <1>5 DEF Same
  <1>9. OneActive'
    <2>1. \A r \in DOMAIN rows : rows[r].status = "active" => r = e
      BY <1>2, TheActive
    <2>2. \A r \in DOMAIN rows' : rows'[r].status = "active" <=> r = p
      BY <1>4, <1>7, <1>8, <2>1
    <2> QED
      BY <1>8, <2>2 DEF OneActive, With
  <1>10. OneWaits'
    <2>1. \A s \in {"pending_approval", "shadow"} : \A r \in DOMAIN rows' :
              rows'[r].status = s => r \in DOMAIN rows /\ rows[r].status = s
      BY <1>7, <1>8
    <2> QED
      BY <2>1 DEF OneWaits, With, Calm, CalmOK
  <1> QED
    BY <1>2, <1>4, <1>6, <1>7, <1>9, <1>10 DEF Orderly

(* A shadow whose time is up never had a period. *)
LEMMA CalmExpire ==
    ASSUME Calm, NEW x \in DOMAIN rows, Expire(x), causes' = {}
    PROVE  Orderly(0)
  <1>1. /\ Len(rows) \in Nat /\ DOMAIN rows = 1..Len(rows) /\ ShapeInv
        /\ \A r \in 1..Len(rows) : rows[r] \in RowType /\ RowOK(rows[r])
    BY RowsBasics DEF Calm, ShapeInv
  <1>2. rows[x].status # "active"
    BY DEF Expire
  <1>3. rows[x].expires # Never
    BY <1>1, JobIndex DEF Expire, Treats, ShapeInv, JobOK
  <1>4. rows[x].status \in {"shadow", "superseded"}
    BY <1>1, <1>2, <1>3 DEF RowOK
  <1>5. /\ Same
        /\ \A r \in 1..Len(rows) : rows'[r] = IF r = x THEN Superseded(rows[r]) ELSE rows[r]
    BY <1>1, ExpireRows
  <1>6. RowsStep
    BY <1>1, JobSteps DEF Step
  <1>7. CalmStep
    BY <1>3, <1>5, <1>6 DEF CalmStep, CalmMove
  <1>8. \A r \in DOMAIN rows : rows'[r].status = IF r = x THEN "superseded" ELSE rows[r].status
    BY <1>1, <1>5 DEF RowType, Superseded
  <1>9. DOMAIN rows' = DOMAIN rows
    BY <1>1, <1>5 DEF Same
  <1>10. OneActive'
    <2>1. PICK a \in DOMAIN rows : rows[a].status = "active" /\ \A r \in DOMAIN rows : rows[r].status = "active" => r = a
      BY TheActive
    <2>2. \A r \in DOMAIN rows' : rows'[r].status = "active" <=> r = a
      BY <1>2, <1>8, <1>9, <2>1
    <2> QED
      BY <1>9, <2>2 DEF OneActive, With
  <1>11. OneWaits'
    <2>1. \A s \in {"pending_approval", "shadow"} : \A r \in DOMAIN rows' :
              rows'[r].status = s => r \in DOMAIN rows /\ rows[r].status = s
      BY <1>8, <1>9
    <2> QED
      BY <2>1 DEF OneWaits, With, Calm, CalmOK
  <1> QED
    BY <1>4, <1>7, <1>8, <1>10, <1>11 DEF Orderly

-----------------------------------------------------------------------------
(* A calm step keeps numbers, periods, replacements and history. *)
LEMMA CalmBasics ==
    ASSUME Calm, CalmStep
    PROVE  /\ Len(rows) \in Nat /\ DOMAIN rows = 1..Len(rows) /\ now \in Nat
           /\ \A r \in DOMAIN rows : /\ rows[r] \in RowType /\ RowOK(rows[r]) /\ rows[r].version \in Nat
                                     /\ r \in DOMAIN rows' /\ RowMove(rows[r], rows'[r]) /\ CalmMove(r)
           /\ \A r \in DOMAIN rows' :
                 r \notin DOMAIN rows => r = Len(rows) + 1 /\ NewCalm(rows'[r]) /\ rows'[r] \in RowType
           /\ \A r \in DOMAIN rows' : rows'[r].version \in Nat /\ RowOK(rows'[r])
           /\ DOMAIN rows' \subseteq Nat
  <1>1. RowsOK /\ RowsStep
    BY DEF Calm, ShapeInv, CalmStep
  <1>2. /\ Len(rows) \in Nat /\ DOMAIN rows = 1..Len(rows) /\ now \in Nat
        /\ \A r \in DOMAIN rows : rows[r] \in RowType /\ RowOK(rows[r]) /\ rows[r].version \in 1..r
    BY <1>1, RowsBasics
  <1>3. /\ Len(rows') \in Len(rows)..MaxRows /\ DOMAIN rows' = 1..Len(rows')
        /\ \A r \in DOMAIN rows : r \in DOMAIN rows' /\ RowMove(rows[r], rows'[r])
        /\ \A r \in DOMAIN rows' : RowOK(rows'[r]) /\ rows'[r].version \in 1..r
    BY <1>1, RowsStepKeeps
  <1>4. \A r \in DOMAIN rows' :
            r \notin DOMAIN rows => r = Len(rows) + 1 /\ NewCalm(rows'[r]) /\ rows'[r] \in RowType
    BY <1>2 DEF CalmStep, Same, Grown
  <1>5. MaxRows \in Nat
    BY <1>1, RowsBasics
  <1>6. DOMAIN rows' \subseteq Nat /\ \A r \in DOMAIN rows' : 1..r \subseteq Nat
    BY <1>2, <1>3, <1>5
  <1>7. \A r \in DOMAIN rows : CalmMove(r)
    BY <1>2 DEF CalmStep
  <1> QED
    BY <1>2, <1>3, <1>4, <1>6, <1>7

LEMMA CalmNumbers ==
    ASSUME Calm, CalmStep
    PROVE  OneNumber'
  <1>1. \A r \in DOMAIN rows : rows'[r].version = rows[r].version /\ (rows[r].status = "deleted" => rows'[r].status = "deleted")
    BY CalmBasics, MoveKeeps
  <1>2. \A r \in Live' : \/ /\ r \in Live /\ rows'[r].version = rows[r].version
                            /\ rows[r].version < NextVersion
                         \/ r = Len(rows) + 1 /\ rows'[r].version = NextVersion
    <2> SUFFICES ASSUME NEW r \in Live'
                 PROVE  \/ /\ r \in Live /\ rows'[r].version = rows[r].version
                           /\ rows[r].version < NextVersion
                        \/ r = Len(rows) + 1 /\ rows'[r].version = NextVersion
      OBVIOUS
    <2>1. r \in DOMAIN rows' /\ rows'[r].status # "deleted"
      BY DEF Live
    <2>2. CASE r \in DOMAIN rows
      <3>1. r \in Live
        BY <1>1, <2>1, <2>2 DEF Live
      <3> QED
        BY <1>1, <2>2, <3>1, NextVersionIs DEF Calm, ShapeInv
    <2>3. CASE r \notin DOMAIN rows
      BY <2>1, <2>3, CalmBasics DEF NewCalm
    <2> QED
      BY <2>2, <2>3
  <1>3. NextVersion \in Nat /\ \A r \in Live : rows[r].version \in Nat
    BY CalmBasics, NextVersionIs DEF Calm, ShapeInv, Live
  <1>4. \A r, q \in Live : rows[r].version = rows[q].version => r = q
    BY DEF Calm, CalmOK, OneNumber
  <1> QED
    BY <1>2, <1>3, <1>4 DEF OneNumber

LEMMA CalmPeriods ==
    ASSUME Calm, CalmStep
    PROVE  PeriodsOK'
  <1> SUFFICES ASSUME NEW r \in DOMAIN rows'
               PROVE  /\ rows'[r].status = "active" => rows'[r].from # Never /\ rows'[r].to = Never
                      /\ rows'[r].status = "superseded" /\ rows'[r].from # Never => rows'[r].to # Never
    BY DEF PeriodsOK
  <1>1. CASE r \notin DOMAIN rows
    BY <1>1, CalmBasics DEF NewCalm, Settled, Never
  <1>2. CASE r \in DOMAIN rows
    <2> DEFINE o == rows[r]
               m == rows'[r]
    <2>1. o \in RowType /\ RowOK(o) /\ CalmMove(r) /\ now \in Nat
      BY <1>2, CalmBasics
    <2>2. /\ o.status = "active" => o.from # Never /\ o.to = Never
          /\ o.status = "superseded" /\ o.from # Never => o.to # Never
      BY <1>2 DEF Calm, CalmOK, PeriodsOK
    <2>3. CASE o.status = "pending_approval" /\ m = [o EXCEPT !.status = "deleted"]
      BY <2>1, <2>3 DEF RowType
    <2>4. CASE o.status = "shadow" /\ m = [o EXCEPT !.status = "superseded"]
      BY <2>1, <2>4 DEF RowType, RowOK, Settled
    <2>5. CASE m = Superseded(o)
      BY <2>1, <2>5 DEF RowType, Superseded, Never
    <2>6. CASE o.status \in {"pending_approval", "scheduled"} /\ m = Activated(o)
      BY <2>1, <2>6 DEF RowType, RowOK, Settled, Activated, Never
    <2>7. CASE m = Reactivated(o) /\ \E e \in DOMAIN rows : Replaces(e, r)
      <3>1. o.from # Never
        BY <2>7 DEF Replaces, Calm, CalmOK, ReplacedOK
      <3> QED
        BY <2>1, <2>7, <3>1 DEF RowType, Reactivated, Never
    <2>8. CASE m = [o EXCEPT !.ratified = TRUE]
      BY <2>1, <2>2, <2>8 DEF RowType
    <2> QED
      BY <2>1, <2>2, <2>3, <2>4, <2>5, <2>6, <2>7, <2>8 DEF CalmMove
  <1> QED
    BY <1>1, <1>2

(* A version that has governed keeps the beginning of its period; the end  *)
(* moves to now or is opened.                                              *)
LEMMA CalmFrom ==
    ASSUME Calm, CalmStep, NEW r \in DOMAIN rows, Settled(rows[r])
    PROVE  /\ rows'[r].from = rows[r].from /\ rows'[r].to \in {rows[r].to, now, Never}
           /\ Settled(rows'[r])
  <1>1. rows[r] \in RowType /\ CalmMove(r)
    BY CalmBasics
  <1>2. rows'[r].from = rows[r].from /\ rows'[r].to \in {rows[r].to, now, Never}
    BY <1>1 DEF CalmMove, RowType, Settled, Superseded, Activated, Reactivated
  <1>3. Settled(rows'[r])
    BY CalmBasics, MoveKeeps
  <1> QED
    BY <1>2, <1>3

LEMMA CalmReplaced ==
    ASSUME Calm, CalmStep
    PROVE  ReplacedOK'
  <1> SUFFICES ASSUME NEW r \in DOMAIN rows', rows'[r].emergency,
                      NEW p, p = rows'[r].replaced
               PROVE  /\ p \in DOMAIN rows' /\ Settled(rows'[p])
                      /\ rows'[r].from # Never /\ rows'[p].from # Never
                      /\ rows'[p].version < rows'[r].version
                      /\ rows'[p].to = Never \/ rows'[r].from <= rows'[p].to
    BY DEF ReplacedOK, Settled
  <1>1. CASE r \in DOMAIN rows
    <2>1. /\ rows'[r].emergency = rows[r].emergency /\ rows'[r].replaced = rows[r].replaced
          /\ rows'[r].version = rows[r].version
      BY <1>1, CalmBasics, MoveKeeps
    <2>2. /\ p \in DOMAIN rows /\ Settled(rows[p])
          /\ rows[r].from # Never /\ rows[p].from # Never
          /\ rows[p].version < rows[r].version
          /\ rows[p].to = Never \/ rows[r].from <= rows[p].to
      BY <1>1, <2>1 DEF Calm, CalmOK, ReplacedOK
    <2>3. Settled(rows[r]) /\ rows[r].from \in 0..now /\ now \in Nat
      BY <1>1, <2>1, <2>2, CalmBasics DEF RowOK
    <2>4. rows'[r].from = rows[r].from
      BY <1>1, <2>3, CalmFrom
    <2>5. rows'[p].from = rows[p].from /\ rows'[p].to \in {rows[p].to, now, Never} /\ Settled(rows'[p])
      BY <2>2, CalmFrom
    <2>6. p \in DOMAIN rows' /\ rows'[p].version = rows[p].version
      BY <2>2, CalmBasics, MoveKeeps
    <2>7. rows[r].from <= now
      BY <2>3
    <2> QED
      BY <2>1, <2>2, <2>4, <2>5, <2>6, <2>7
  <1>2. CASE r \notin DOMAIN rows
    <2>1. NewCalm(rows'[r]) /\ RowOK(rows'[r]) /\ now \in Nat
      BY <1>2, CalmBasics
    <2>2. /\ rows'[r].from = now /\ rows'[r].version = NextVersion
          /\ \E a \in DOMAIN rows : rows[a].status = "active" /\ p = a
      BY <2>1 DEF NewCalm, RowOK
    <2>3. p \in DOMAIN rows /\ rows[p].status = "active"
      BY <2>2
    <2>4. rows[p].from # Never /\ rows[p].to = Never /\ Settled(rows[p])
      BY <2>3 DEF Calm, CalmOK, PeriodsOK, Settled
    <2>5. rows'[p].from = rows[p].from /\ rows'[p].to \in {Never, now} /\ Settled(rows'[p])
      BY <2>3, <2>4, CalmFrom
    <2>6. p \in DOMAIN rows' /\ rows'[p].version = rows[p].version
      BY <2>3, CalmBasics, MoveKeeps
    <2>7. rows[p].version < NextVersion
      BY <2>3, NextVersionIs DEF Live, Calm, ShapeInv
    <2>8. now # Never /\ now <= now
      BY <2>1 DEF Never
    <2> QED
      BY <2>2, <2>4, <2>5, <2>6, <2>7, <2>8
  <1> QED
    BY <1>1, <1>2

(* What a past tick is covered by stays, and only a revived version covers *)
(* more, below one that did.                                               *)
LEMMA CalmCovers ==
    ASSUME Calm, CalmStep, NEW t \in 0..now - 1, NEW r \in DOMAIN rows
    PROVE  /\ Covers(rows[r], t) => Covers(rows'[r], t)
           /\ Covers(rows'[r], t) =>
                 \E q \in DOMAIN rows : Covers(rows[q], t) /\ rows[r].version <= rows[q].version
  <1> DEFINE o == rows[r]
             m == rows'[r]
  <1>1. o \in RowType /\ RowOK(o) /\ CalmMove(r) /\ now \in Nat /\ o.version \in Nat
    BY CalmBasics
  <1>2. t \in Nat /\ t < now
    BY <1>1
  <1>3. /\ o.status = "active" => o.from # Never /\ o.to = Never
        /\ o.status = "superseded" /\ o.from # Never => o.to # Never
    BY DEF Calm, CalmOK, PeriodsOK
  <1>4. SUFFICES ASSUME ~(Covers(m, t) <=> Covers(o, t))
                 PROVE  /\ ~Covers(o, t)
                        /\ \E q \in DOMAIN rows : Covers(rows[q], t) /\ o.version <= rows[q].version
    BY <1>1
  <1>5. CASE m = o
    BY <1>4, <1>5
  <1>6. CASE o.status = "pending_approval" /\ m = [o EXCEPT !.status = "deleted"]
    BY <1>1, <1>4, <1>6 DEF RowType, Covers, Settled
  <1>7. CASE o.status = "shadow" /\ m = [o EXCEPT !.status = "superseded"]
    BY <1>1, <1>4, <1>7 DEF RowType, RowOK, Covers, Settled
  <1>8. CASE (o.status = "active" \/ o.expires # Never) /\ m = Superseded(o)
    <2>1. m.from = o.from /\ m.to = now /\ m.status = "superseded"
      BY <1>1, <1>8 DEF RowType, Superseded
    <2>2. o.expires # Never => o.from = Never
      BY <1>1 DEF RowOK
    <2> QED
      BY <1>2, <1>3, <1>4, <1>8, <2>1, <2>2 DEF Covers, Settled
  <1>9. CASE o.status \in {"pending_approval", "scheduled"} /\ m = Activated(o)
    <2>1. m.from = now
      BY <1>1, <1>9 DEF RowType, Activated
    <2> QED
      BY <1>1, <1>2, <1>4, <1>9, <2>1 DEF Covers, Settled
  <1>10. CASE /\ o.status = "superseded" /\ m = Reactivated(o)
              /\ \E e \in DOMAIN rows : rows[e].status = "active" /\ Replaces(e, r)
    <2>1. PICK e \in DOMAIN rows : rows[e].status = "active" /\ Replaces(e, r)
      BY <1>10
    <2>2. /\ rows[e].from # Never /\ rows[r].from # Never /\ rows[r].version < rows[e].version
          /\ rows[r].to = Never \/ rows[e].from <= rows[r].to
      BY <2>1 DEF Calm, CalmOK, ReplacedOK, Replaces
    <2>3. m.from = o.from /\ m.to = Never /\ m.status = "active"
      BY <1>1, <1>10 DEF RowType, Reactivated
    <2>4. Covers(m, t) /\ ~Covers(o, t)
      BY <1>4, <1>10, <2>3 DEF Covers, Settled
    <2>5. o.to # Never /\ ~(o.to > t) /\ o.from <= t
      BY <1>10, <2>3, <2>4 DEF Covers, Settled
    <2>6. rows[e].from <= o.to /\ rows[e].from \in 0..now /\ o.to \in 0..now
      <3>1. RowOK(rows[e])
        BY CalmBasics
      <3> QED
        BY <1>1, <2>2, <2>5, <3>1 DEF RowOK
    <2>7. rows[e].from <= t
      BY <1>2, <2>5, <2>6
    <2>8. rows[e].to = Never
      BY <2>1 DEF Calm, CalmOK, PeriodsOK
    <2>9. Covers(rows[e], t)
      BY <2>1, <2>2, <2>7, <2>8 DEF Covers, Settled
    <2>10. rows[e].version \in Nat
      BY CalmBasics
    <2>11. o.version <= rows[e].version
      BY <1>1, <2>2, <2>10
    <2> QED
      BY <2>4, <2>9, <2>11
  <1>11. CASE m = [o EXCEPT !.ratified = TRUE]
    BY <1>1, <1>4, <1>11 DEF RowType, Covers, Settled
  <1> QED
    BY <1>1, <1>5, <1>6, <1>7, <1>8, <1>9, <1>10, <1>11 DEF CalmMove

LEMMA CalmHistory ==
    ASSUME Calm, CalmStep, UNCHANGED <<now, governed>>
    PROVE  HistoryOK'
  <1> SUFFICES ASSUME NEW t \in 0..now - 1
               PROVE  \E g \in DOMAIN rows' :
                          /\ governed[t] = {g} /\ Covers(rows'[g], t)
                          /\ \A r \in DOMAIN rows' : Covers(rows'[r], t) => rows'[r].version <= rows'[g].version
    BY DEF HistoryOK, Covers, Settled
  <1>1. PICK g \in DOMAIN rows :
            /\ governed[t] = {g} /\ Covers(rows[g], t)
            /\ \A r \in DOMAIN rows : Covers(rows[r], t) => rows[r].version <= rows[g].version
    BY DEF Calm, CalmOK, HistoryOK
  <1>2. g \in DOMAIN rows' /\ Covers(rows'[g], t)
    BY <1>1, CalmCovers, CalmBasics
  <1>3. \A r \in DOMAIN rows : rows'[r].version = rows[r].version /\ rows[r].version \in Nat
    BY CalmBasics, MoveKeeps
  <1>4. ASSUME NEW r \in DOMAIN rows', Covers(rows'[r], t)
        PROVE  rows'[r].version <= rows'[g].version
    <2>1. r \in DOMAIN rows
      <3> SUFFICES ASSUME r \notin DOMAIN rows PROVE FALSE
        OBVIOUS
      <3>1. NewCalm(rows'[r]) /\ now \in Nat
        BY CalmBasics
      <3>2. Settled(rows'[r]) /\ rows'[r].from <= t
        BY <1>4 DEF Covers
      <3>3. rows'[r].from = now
        BY <3>1, <3>2 DEF NewCalm
      <3> QED
        BY <3>1, <3>2, <3>3
    <2>2. PICK q \in DOMAIN rows : Covers(rows[q], t) /\ rows[r].version <= rows[q].version
      BY <1>4, <2>1, CalmCovers
    <2>3. rows[q].version <= rows[g].version
      BY <1>1, <2>2
    <2> QED
      BY <1>3, <2>1, <2>2, <2>3
  <1> QED
    BY <1>1, <1>2, <1>4

(* Who was replaced, ratified and created when: only more is ratified and  *)
(* replaced.                                                               *)
LEMMA CalmEmergencies ==
    ASSUME Calm, CalmStep, NEW r \in DOMAIN rows
    PROVE  /\ rows'[r].emergency = rows[r].emergency /\ rows'[r].created = rows[r].created
           /\ rows[r].ratified => rows'[r].ratified
           /\ \A t : ReplacedAt(t, r) => (\E q \in DOMAIN rows' : Replaces(q, r)' /\ rows'[q].created = t)
  <1>1. /\ rows'[r].emergency = rows[r].emergency /\ rows'[r].created = rows[r].created
        /\ rows[r].ratified => rows'[r].ratified
    BY CalmBasics, MoveKeeps
  <1>2. ASSUME NEW q \in DOMAIN rows, Replaces(q, r)
        PROVE  q \in DOMAIN rows' /\ Replaces(q, r)' /\ rows'[q].created = rows[q].created
    <2>1. /\ q \in DOMAIN rows' /\ rows'[q].emergency = rows[q].emergency
          /\ rows'[q].replaced = rows[q].replaced /\ rows'[q].created = rows[q].created
      BY CalmBasics, MoveKeeps
    <2> QED
      BY <1>2, <2>1 DEF Replaces
  <1> QED
    BY <1>1, <1>2 DEF ReplacedAt

LEMMA CalmLapsedEnded ==
    ASSUME Calm, CalmStep, UNCHANGED <<now, governed>>
    PROVE  LapsedEnded'
  <1> SUFFICES ASSUME NEW t \in 0..now - 2, NEW r \in governed[t] \cap governed[t + 1],
                      rows'[r].emergency
               PROVE  \/ rows'[r].ratified \/ rows'[r].created + RatifyWithin > t
                      \/ \E q \in DOMAIN rows' : Replaces(q, r)' /\ rows'[q].created = t + 1
    BY DEF LapsedEnded, Replaces, ReplacedAt
  <1>1. now \in Nat /\ t + 1 \in 0..now - 1
    BY CalmBasics
  <1>2. r \in DOMAIN rows
    BY <1>1 DEF Calm, CalmOK, HistoryOK
  <1>3. rows[r].emergency
    BY <1>2, CalmEmergencies
  <1>4. \/ rows[r].ratified \/ rows[r].created + RatifyWithin > t
        \/ ReplacedAt(t + 1, r)
    BY <1>3 DEF Calm, CalmOK, LapsedEnded
  <1> QED
    BY <1>2, <1>4, CalmEmergencies

(* No emergency's time is up that was not before the step: what replaced a *)
(* version that governed when the tick began is younger than that, so that *)
(* nothing revives the version but the end of an emergency of this tick.   *)
LEMMA CalmLapsed ==
    ASSUME Calm, CalmStep, UNCHANGED <<now, governed>>, NEW r \in DOMAIN rows', Lapsed(r)'
    PROVE  r \in DOMAIN rows /\ Lapsed(r)
  <1>1. /\ rows'[r].emergency /\ rows'[r].status = "active" /\ ~rows'[r].ratified
        /\ rows'[r].created + RatifyWithin < now
        /\ now > 0 /\ r \in governed[now - 1]
        /\ ~\E q \in DOMAIN rows' : Replaces(q, r)' /\ rows'[q].created = now
    BY DEF Lapsed, Unratified, ReplacedAt
  <1>2. RatifyWithin \in Nat /\ now \in Nat
    BY RulesAssumption, CalmBasics DEF RulesAssumption
  <1>3. r \in DOMAIN rows
    <2> SUFFICES ASSUME r \notin DOMAIN rows PROVE FALSE
      OBVIOUS
    <2>1. NewCalm(rows'[r])
      BY CalmBasics
    <2>2. rows'[r].created = now
      BY <1>1, <2>1 DEF NewCalm, Settled
    <2> QED
      BY <1>1, <1>2, <2>2
  <1>4. /\ rows[r].emergency /\ ~rows[r].ratified /\ rows[r].created + RatifyWithin < now
        /\ ~ReplacedAt(now, r)
    BY <1>1, <1>3, CalmEmergencies
  <1>5. rows[r].status = "active"
    <2>1. rows[r] \in RowType /\ RowOK(rows[r]) /\ CalmMove(r)
      BY <1>3, CalmBasics
    <2>2. rows[r].status \in {"active", "superseded"}
      BY <1>4, <2>1 DEF RowOK, Settled
    <2>3. ~\E e \in DOMAIN rows : rows[e].status = "active" /\ Replaces(e, r)
      <3> SUFFICES ASSUME NEW e \in DOMAIN rows, rows[e].status = "active", Replaces(e, r)
                   PROVE  FALSE
        OBVIOUS
      <3>1. now - 1 \in 0..now - 1
        BY <1>1, <1>2
      <3>2. \A q \in DOMAIN rows : Covers(rows[q], now - 1) => rows[q].version <= rows[r].version
        BY <1>1, <3>1 DEF Calm, CalmOK, HistoryOK
      <3>3. rows[r].version < rows[e].version /\ rows[e].from # Never
        BY DEF Calm, CalmOK, ReplacedOK, Replaces
      <3>4. rows[e].to = Never
        BY DEF Calm, CalmOK, PeriodsOK
      <3>5. rows[e].version \in Nat /\ rows[r].version \in Nat /\ RowOK(rows[e])
        BY <1>3, CalmBasics
      <3>6. ~Covers(rows[e], now - 1)
        BY <3>2, <3>3, <3>5
      <3>7. ~(rows[e].from <= now - 1)
        BY <3>3, <3>4, <3>6 DEF Covers, Settled
      <3>8. rows[e].from \in 0..now /\ rows[e].from = rows[e].created
        BY <3>3, <3>5 DEF RowOK, Replaces
      <3>9. rows[e].created = now
        BY <1>2, <3>7, <3>8
      <3> QED
        BY <1>4, <3>9 DEF ReplacedAt
    <2> QED
      BY <1>1, <1>4, <2>1, <2>2, <2>3 DEF CalmMove, RowType, Superseded, Settled
  <1> QED
    BY <1>1, <1>3, <1>4, <1>5 DEF Lapsed, Unratified

LEMMA OrderlyKeeps ==
    ASSUME Calm, NEW x, Orderly(x), UNCHANGED <<now, governed>>
    PROVE  /\ OneActive' /\ OneWaits' /\ OneNumber' /\ PeriodsOK' /\ ReplacedOK'
           /\ HistoryOK' /\ LapsedEnded'
  BY CalmNumbers, CalmPeriods, CalmReplaced, CalmHistory, CalmLapsedEnded DEF Orderly

LEMMA CommitCalm ==
    ASSUME Calm, NEW u \in Users, Commit(u), causes' = {}
    PROVE  CalmOK'
  <1>1. ShapeInv /\ UNCHANGED <<job, now, governed>>
    BY CommitShape DEF Calm
  <1>2. Orderly(0)
    <2>1. CASE Refuse(u)
      <3>1. PICK e : e = txn[u].target
        OBVIOUS
      <3>2. e \in DOMAIN rows /\ rows[e].emergency
        BY <1>1, <2>1, <3>1, TxnBasics DEF Refuse, ReadOK
      <3>3. rows' = Reverted(e) /\ RevertCauses(e) = {}
        BY <2>1, <3>1 DEF Refuse, Caused
      <3> QED
        BY <1>1, <3>2, <3>3, CommitSteps, CalmRevert
    <2> QED
      BY <2>1, CalmDraft, CalmSchedule, CalmShadow, CalmEmergency, CalmApprove, CalmRatify DEF Commit
  <1>3. ScheduledStill'
    <2>1. 0 \notin DOMAIN rows
      BY <1>1, RowsBasics DEF ShapeInv
    <2>2. \A r \in With("scheduled") : r \in DOMAIN rows' /\ rows'[r].status = "scheduled"
      BY <1>2, <2>1, CalmBasics DEF Orderly, With
    <2> QED
      BY <1>1, <2>2 DEF ScheduledStill, With, Calm, CalmOK
  <1>4. LapsedAreSeen'
    <2> SUFFICES ASSUME job.next >= 3, NEW r \in DOMAIN rows', Lapsed(r)'
                 PROVE  job.next = 3 /\ r \in job.todo
      BY <1>1 DEF LapsedAreSeen
    <2>1. r \in DOMAIN rows /\ Lapsed(r)
      BY <1>1, <1>2, CalmLapsed DEF Orderly
    <2> QED
      BY <2>1 DEF Calm, CalmOK, LapsedAreSeen
  <1> QED
    BY <1>1, <1>2, <1>3, <1>4, OrderlyKeeps DEF CalmOK

LEMMA StepCalm ==
    ASSUME Calm, NEW x, Step(x), causes' = {}
    PROVE  CalmOK'
  <1>1. ShapeInv /\ UNCHANGED <<now, governed>> /\ RowsStep
    BY StepShape DEF Calm
  <1>2. x \in DOMAIN rows /\ x \in job.todo /\ Done(x)
    BY <1>1 DEF Step, ActivateScheduled, RevertUnratified, Expire, Treats, ShapeInv, JobOK
  <1>3. job'.next = job.next /\ job'.todo = job.todo \ {x}
    BY <1>1, <1>2 DEF Done, ShapeInv, JobOK
  <1>4. Orderly(x) \/ Orderly(0)
    <2>1. CASE RevertUnratified(x)
      <3>1. rows[x].emergency
        BY <1>1, <1>2, <2>1, JobIndex DEF RevertUnratified, ShapeInv, JobOK
      <3>2. rows' = Reverted(x) /\ RevertCauses(x) = {}
        BY <2>1 DEF RevertUnratified
      <3> QED
        BY <1>1, <1>2, <3>1, <3>2, CalmRevert
    <2> QED
      BY <1>2, <2>1, CalmActivate, CalmExpire DEF Step
  <1>5. PICK s : Orderly(s) /\ s \in {x, 0}
    BY <1>4
  <1>6. ScheduledStill'
    <2>1. 0 \notin DOMAIN rows
      BY <1>1, RowsBasics DEF ShapeInv
    <2>2. CalmStep
      BY <1>5 DEF Orderly
    <2>3. \A r \in With("scheduled") : r # x => r \in DOMAIN rows' /\ rows'[r].status = "scheduled"
      BY <1>5, <2>1, <2>2, CalmBasics DEF Orderly, With
    <2> QED
      BY <1>3, <2>3 DEF ScheduledStill, With, Calm, CalmOK
  <1>7. LapsedAreSeen'
    <2> SUFFICES ASSUME job.next >= 3, NEW r \in DOMAIN rows', Lapsed(r)'
                 PROVE  job.next = 3 /\ r \in job.todo /\ r # x
      BY <1>3 DEF LapsedAreSeen
    <2>1. r \in DOMAIN rows /\ Lapsed(r)
      BY <1>1, <1>5, CalmLapsed DEF Orderly
    <2>2. job.next = 3 /\ r \in job.todo
      BY <2>1 DEF Calm, CalmOK, LapsedAreSeen
    <2>3. RevertUnratified(x)
      BY <1>1, <2>2, JobIndex DEF Step, ActivateScheduled, Expire, ShapeInv
    <2>4. r # x
      <3>1. \A o \in RowType : Superseded(o).status = "superseded"
        BY DEF RowType, Superseded
      <3>2. rows'[x].status = "superseded"
        BY <1>1, <1>2, <2>3, <3>1, RevertRows, RowsBasics DEF RevertUnratified, ShapeInv
      <3> QED
        BY <3>2 DEF Lapsed, Unratified
    <2> QED
      BY <2>2, <2>4
  <1> QED
    BY <1>1, <1>5, <1>6, <1>7, OrderlyKeeps DEF CalmOK

(* Steps that leave the rows and the history. *)
LEMMA RowsCalm ==
    ASSUME CalmOK, UNCHANGED <<rows, now, governed>>
    PROVE  /\ OneActive' /\ OneWaits' /\ OneNumber' /\ PeriodsOK' /\ ReplacedOK'
           /\ HistoryOK' /\ LapsedEnded'
           /\ \A r : Lapsed(r)' = Lapsed(r)
  <1> USE DEF CalmOK
  <1>1. OneActive' /\ OneWaits'
    BY DEF OneActive, OneWaits, With
  <1>2. OneNumber' /\ PeriodsOK'
    BY DEF OneNumber, Live, PeriodsOK
  <1>3. ReplacedOK'
    BY DEF ReplacedOK, Settled
  <1>4. HistoryOK'
    BY DEF HistoryOK, Covers, Settled
  <1>5. LapsedEnded'
    BY DEF LapsedEnded, Replaces, ReplacedAt
  <1>6. \A r : Lapsed(r)' = Lapsed(r)
    BY DEF Lapsed, Unratified, Replaces, ReplacedAt
  <1> QED
    BY <1>1, <1>2, <1>3, <1>4, <1>5, <1>6

LEMMA HandlerCalm ==
    ASSUME CalmOK, UNCHANGED <<rows, job, now, governed>>
    PROVE  CalmOK'
  <1>1. ScheduledStill'
    BY DEF CalmOK, ScheduledStill, With
  <1>2. LapsedAreSeen'
    BY RowsCalm DEF CalmOK, LapsedAreSeen
  <1> QED
    BY <1>1, <1>2, RowsCalm DEF CalmOK

LEMMA CollectCalm ==
    ASSUME Calm, Collect
    PROVE  CalmOK'
  <1>1. UNCHANGED <<rows, now, governed>> /\ job.todo = {}
    BY DEF Collect
  <1>2. job.next \in {1, 2, 3, 4} /\ DOMAIN Jobs = {1, 2, 3}
    BY DEF Calm, ShapeInv, JobOK, Jobs
  <1>3. job' = [next |-> job.next + 1, todo |-> Due(Jobs[job.next])] /\ job.next \in {1, 2, 3}
    BY <1>2 DEF Collect
  <1>4. Jobs[1] = "scheduled" /\ Jobs[2] = "emergency"
    BY DEF Jobs
  <1>5. ScheduledStill'
    <2>1. job'.next = 2 => job'.todo = Due("scheduled")
      BY <1>3, <1>4
    <2>2. Due("scheduled") \subseteq With("scheduled")
      BY DEF Due, With
    <2> QED
      BY <1>1, <2>1, <2>2 DEF ScheduledStill, With
  <1>6. LapsedAreSeen'
    <2> SUFFICES ASSUME job'.next >= 3, NEW r \in DOMAIN rows, Lapsed(r)
                 PROVE  job'.next = 3 /\ r \in job'.todo
      BY <1>1, RowsCalm DEF LapsedAreSeen, Calm
    <2>1. job.next # 3
      BY <1>1 DEF Calm, CalmOK, LapsedAreSeen
    <2>2. job.next = 2
      BY <1>3, <2>1
    <2>3. job'.next = 3 /\ job'.todo = Due("emergency")
      BY <1>3, <1>4, <2>2
    <2>4. r \in Due("emergency")
      BY DEF Due, Lapsed
    <2> QED
      BY <2>3, <2>4
  <1> QED
    BY <1>1, <1>5, <1>6, RowsCalm DEF Calm, CalmOK

LEMMA TickCalm ==
    ASSUME Calm, Tick
    PROVE  CalmOK'
  <1>1. /\ UNCHANGED rows /\ now' = now + 1 /\ job' = NoJob /\ now < MaxTime
        /\ governed' = [governed EXCEPT ![now] = With("active")] /\ job.todo = {}
        /\ job.next > Len(Jobs)
    BY DEF Tick
  <1>2. /\ Len(rows) \in Nat /\ DOMAIN rows = 1..Len(rows) /\ now \in Nat /\ MaxTime \in Nat
        /\ \A r \in DOMAIN rows : /\ rows[r] \in RowType /\ RowOK(rows[r]) /\ rows[r].version \in Nat
    BY RowsBasics DEF Calm, ShapeInv
  <1>3. OneActive' /\ OneWaits'
    BY <1>1 DEF Calm, CalmOK, OneActive, OneWaits, With
  <1>4. OneNumber' /\ PeriodsOK'
    BY <1>1 DEF Calm, CalmOK, OneNumber, Live, PeriodsOK
  <1>5. ReplacedOK'
    BY <1>1 DEF Calm, CalmOK, ReplacedOK, Settled
  <1>6. PICK a \in DOMAIN rows : /\ With("active") = {a} /\ rows[a].status = "active"
                                 /\ \A r \in DOMAIN rows : rows[r].status = "active" => r = a
    BY TheActive
  <1>7. governed'[now] = {a} /\ \A t \in 0..now - 1 : governed'[t] = governed[t]
    <2>1. governed \in [0..MaxTime -> SUBSET Nat] /\ now \in 0..MaxTime
      BY DEF Calm, ShapeInv, RowsOK
    <2>2. \A t \in 0..now - 1 : t # now /\ t \in 0..MaxTime
      BY <1>1, <1>2
    <2> QED
      BY <1>1, <1>6, <2>1, <2>2
  <1>8. Covers(rows[a], now) /\ \A r \in DOMAIN rows : Covers(rows[r], now) => r = a
    <2>1. rows[a].from # Never /\ rows[a].to = Never /\ RowOK(rows[a])
      BY <1>2, <1>6 DEF Calm, CalmOK, PeriodsOK
    <2>2. Covers(rows[a], now)
      BY <1>2, <1>6, <2>1 DEF Covers, Settled, RowOK
    <2>3. ASSUME NEW r \in DOMAIN rows, Covers(rows[r], now), r # a
          PROVE  FALSE
      <3>1. rows[r].status = "superseded" /\ rows[r].from # Never
        BY <1>6, <2>3 DEF Covers, Settled
      <3>2. rows[r].to # Never
        BY <3>1 DEF Calm, CalmOK, PeriodsOK
      <3>3. rows[r].to \in 0..now
        BY <1>2, <3>2 DEF RowOK
      <3> QED
        BY <1>2, <2>3, <3>2, <3>3 DEF Covers
    <2> QED
      BY <2>2, <2>3
  <1>9. HistoryOK'
    <2> SUFFICES ASSUME NEW t \in 0..now
                 PROVE  \E g \in DOMAIN rows :
                            /\ governed'[t] = {g} /\ Covers(rows[g], t)
                            /\ \A r \in DOMAIN rows : Covers(rows[r], t) => rows[r].version <= rows[g].version
      <3>1. 0..now' - 1 = 0..now
        BY <1>1, <1>2
      <3> QED
        BY <1>1, <3>1 DEF HistoryOK, Covers, Settled
    <2>1. CASE t = now
      <3>1. rows[a].version <= rows[a].version
        BY <1>2
      <3> QED
        BY <1>7, <1>8, <2>1, <3>1
    <2>2. CASE t # now
      <3>1. t \in 0..now - 1
        BY <1>2, <2>2
      <3> QED
        BY <1>7, <3>1 DEF Calm, CalmOK, HistoryOK
    <2> QED
      BY <2>1, <2>2
  <1>10. ScheduledStill' /\ LapsedAreSeen'
    BY <1>1 DEF ScheduledStill, LapsedAreSeen, NoJob
  <1>11. LapsedEnded'
    <2> SUFFICES ASSUME NEW t \in 0..now' - 2, NEW r \in governed'[t] \cap governed'[t + 1],
                        rows[r].emergency
                 PROVE  \/ rows[r].ratified \/ rows[r].created + RatifyWithin > t
                        \/ ReplacedAt(t + 1, r)
      BY <1>1 DEF LapsedEnded, Replaces, ReplacedAt
    <2>1. t \in 0..now - 1 /\ t + 1 \in 0..now
      BY <1>1, <1>2
    <2>2. CASE t + 1 = now
      <3>1. r = a
        BY <1>7, <2>2
      <3>2. job.next = 4
        <4>1. Len(Jobs) = 3
          BY DEF Jobs
        <4> QED
          BY <1>1, <4>1 DEF Calm, ShapeInv, JobOK
      <3>3. ~Lapsed(a)
        BY <3>2 DEF Calm, CalmOK, LapsedAreSeen
      <3>4. rows[a].created \in Int /\ RatifyWithin \in Int
        BY <1>2, RulesAssumption DEF RowType, Moments, Never, RulesAssumption
      <3>5. ~(rows[a].created + RatifyWithin > t) => rows[a].created + RatifyWithin < now
        BY <1>2, <2>1, <2>2, <3>4
      <3>6. now > 0 /\ t = now - 1
        BY <1>2, <2>1, <2>2
      <3>7. a \in governed[now - 1]
        BY <1>7, <2>1, <3>1, <3>6
      <3> QED
        BY <1>6, <2>2, <3>1, <3>3, <3>5, <3>6, <3>7 DEF Lapsed, Unratified
    <2>3. CASE t + 1 # now
      <3>1. t \in 0..now - 2 /\ t + 1 \in 0..now - 1
        BY <1>2, <2>1, <2>3
      <3>2. r \in governed[t] \cap governed[t + 1]
        BY <1>7, <2>1, <3>1
      <3> QED
        BY <3>1, <3>2 DEF Calm, CalmOK, LapsedEnded
    <2> QED
      BY <2>2, <2>3
  <1> QED
    BY <1>3, <1>4, <1>5, <1>9, <1>10, <1>11 DEF CalmOK

LEMMA InitCalm ==
    ASSUME RulesInit
    PROVE  CalmOK
  <1>1. /\ DOMAIN rows = {1} /\ rows[1] = [Row(1, "active") EXCEPT !.from = 0]
        /\ now = 0 /\ job = NoJob
    BY InitShape DEF RulesInit
  <1>2. /\ rows[1].status = "active" /\ rows[1].from = 0 /\ rows[1].to = Never
        /\ ~rows[1].emergency
    BY <1>1 DEF Row
  <1>3. OneActive /\ OneWaits /\ OneNumber
    BY <1>1, <1>2 DEF OneActive, OneWaits, OneNumber, With, Live
  <1>4. PeriodsOK /\ ReplacedOK
    <2>1. 0 # Never
      BY DEF Never
    <2>2. \A r \in DOMAIN rows : r = 1
      BY <1>1
    <2>3. PeriodsOK
      BY <1>2, <2>1, <2>2 DEF PeriodsOK
    <2>4. ReplacedOK
      BY <1>2, <2>2 DEF ReplacedOK
    <2> QED
      BY <2>3, <2>4
  <1>5. HistoryOK /\ LapsedEnded
    BY <1>1 DEF HistoryOK, LapsedEnded
  <1>6. ScheduledStill /\ LapsedAreSeen
    BY <1>1 DEF ScheduledStill, LapsedAreSeen, NoJob
  <1> QED
    BY <1>3, <1>4, <1>5, <1>6 DEF CalmOK

LEMMA RulesInvNext ==
    ASSUME RulesInv, [RulesNext]_rulevars
    PROVE  RulesInv'
  <1>1. causes' = {} /\ causes = {} => Calm
    BY DEF RulesInv, Calm
  <1>2. CASE UNCHANGED rulevars
    <2>1. UNCHANGED <<rows, txn, job, now, governed, causes>>
      BY <1>2 DEF rulevars
    <2>2. ShapeInv'
      <3>1. RowsOK' /\ JobOK'
        BY <2>1 DEF RulesInv, ShapeInv, RowsOK, RowOK, JobOK
      <3>2. TxnsOK'
        BY <2>1, TxnsRead DEF RulesInv, ShapeInv, TxnsOK
      <3> QED
        BY <3>1, <3>2 DEF ShapeInv
    <2> QED
      BY <2>1, <2>2, HandlerCalm DEF RulesInv
  <1>3. ASSUME NEW u \in Users,
               (\E op \in Changes : Propose(u, op)) \/ Review(u) \/ Judge(u) \/ Abandon(u)
        PROVE  RulesInv'
    <2>1. ShapeInv' /\ UNCHANGED <<rows, job, now, governed, causes>>
      BY <1>3, HandlerShape DEF RulesInv
    <2> QED
      BY <2>1, HandlerCalm DEF RulesInv
  <1>4. ASSUME NEW u \in Users, Commit(u)
        PROVE  RulesInv'
    <2>1. ShapeInv' /\ causes \subseteq causes'
      BY <1>4, CommitShape DEF RulesInv
    <2>2. causes' = {} => CalmOK'
      BY <1>1, <1>4, <2>1, CommitCalm
    <2> QED
      BY <2>1, <2>2 DEF RulesInv
  <1>5. CASE Collect
    <2>1. ShapeInv' /\ UNCHANGED causes
      BY <1>5, CollectShape DEF RulesInv, Collect
    <2>2. causes' = {} => CalmOK'
      BY <1>1, <1>5, <2>1, CollectCalm
    <2> QED
      BY <2>1, <2>2 DEF RulesInv
  <1>6. CASE Tick
    <2>1. ShapeInv' /\ UNCHANGED causes
      BY <1>6, TickShape DEF RulesInv, Tick
    <2>2. causes' = {} => CalmOK'
      BY <1>1, <1>6, <2>1, TickCalm
    <2> QED
      BY <2>1, <2>2 DEF RulesInv
  <1>7. ASSUME NEW r, Step(r)
        PROVE  RulesInv'
    <2>1. ShapeInv' /\ causes \subseteq causes'
      BY <1>7, StepShape DEF RulesInv
    <2>2. causes' = {} => CalmOK'
      BY <1>1, <1>7, <2>1, StepCalm
    <2> QED
      BY <2>1, <2>2 DEF RulesInv
  <1> QED
    BY <1>2, <1>3, <1>4, <1>5, <1>6, <1>7 DEF RulesNext

(* The inductive invariant of the versions, for any number of users and    *)
(* rows and any periods.                                                   *)
THEOREM RulesInvariant == RulesSpec => []RulesInv
  <1>1. RulesInit => RulesInv
    BY InitShape, InitCalm DEF RulesInv
  <1> QED
    BY <1>1, RulesInvNext, PTL DEF RulesSpec

(* Types of the versions. *)
THEOREM RulesTypes == RulesSpec => []RulesTypeOK
  <1>1. RulesInv => RulesTypeOK
    <2> SUFFICES ASSUME RulesInv PROVE RulesTypeOK
      OBVIOUS
    <2>1. RowsOK /\ TxnsOK /\ JobOK
      BY DEF RulesInv, ShapeInv
    <2>2. \A r \in DOMAIN rows : /\ rows[r].version \in 1..MaxRows /\ rows[r].status \in Statuses
                                 /\ RowOK(rows[r])
      BY <2>1, RowsBasics DEF RowType
    <2>3. 0..now \subseteq 0..MaxTime
      <3>1. now \in 0..MaxTime /\ MaxTime \in Nat
        BY <2>1, RowsBasics DEF RowsOK
      <3> QED
        BY <3>1
    <2>4. Len(Jobs) + 1 = 4
      BY DEF Jobs
    <2> QED
      BY <2>1, <2>2, <2>3, <2>4 DEF RulesTypeOK, RowsOK, RowOK, TxnsOK, JobOK
  <1> QED
    BY <1>1, RulesInvariant, PTL

(* One version governs, one draft and one shadow wait and a number names   *)
(* one row, as long as nothing of what may disturb the versions happened.  *)
THEOREM RulesTidy == RulesSpec => []TidyUnlessDisturbed
  <1>1. RulesInv => TidyUnlessDisturbed
    <2> SUFFICES ASSUME RulesInv, causes = {} PROVE Tidy
      BY DEF TidyUnlessDisturbed
    <2>1. Calm /\ CalmOK
      BY DEF RulesInv, Calm
    <2>2. \E a : With("active") = {a}
      BY <2>1 DEF CalmOK, OneActive
    <2>3. \A s \in {"pending_approval", "shadow"} : With(s) = {} \/ \E x : With(s) = {x}
      <3> SUFFICES ASSUME NEW s \in {"pending_approval", "shadow"}, With(s) # {}
                   PROVE  \E x : With(s) = {x}
        OBVIOUS
      <3>1. \A r, q \in With(s) : r = q
        BY <2>1 DEF CalmOK, OneWaits
      <3>2. PICK x \in With(s) : TRUE
        OBVIOUS
      <3> QED
        BY <3>1, <3>2
    <2>4. \A x : Cardinality({x}) = 1
      BY FS_Singleton
    <2>5. Cardinality({}) = 0
      BY FS_EmptySet
    <2>6. \A s \in {"pending_approval", "shadow"} : Cardinality(With(s)) \in {0, 1}
      BY <2>3, <2>4, <2>5
    <2>7. Cardinality(With("pending_approval")) <= 1 /\ Cardinality(With("shadow")) <= 1
      BY <2>6
    <2> QED
      BY <2>1, <2>2, <2>4, <2>7 DEF Tidy, CalmOK, OneNumber
  <1> QED
    BY <1>1, RulesInvariant, PTL

(* The lookup of a past tick finds the version that governed it, although  *)
(* reverts reopen old periods.                                             *)
THEOREM RulesLookup == RulesSpec => []LookupIsHistory
  <1>1. RulesInv => LookupIsHistory
    <2> SUFFICES ASSUME RulesInv, causes = {}, NEW t \in 0..now - 1
                 PROVE  governed[t] = {Lookup(t)}
      BY DEF LookupIsHistory
    <2>1. Calm /\ CalmOK /\ ShapeInv /\ RowsOK
      BY DEF RulesInv, Calm, ShapeInv
    <2>2. PICK g \in DOMAIN rows :
              /\ governed[t] = {g} /\ Covers(rows[g], t)
              /\ \A r \in DOMAIN rows : Covers(rows[r], t) => rows[r].version <= rows[g].version
      BY <2>1 DEF CalmOK, HistoryOK
    <2> DEFINE S == {r \in With("active") \cup With("superseded") :
                        rows[r].from # Never /\ rows[r].from <= t
                        /\ (rows[r].to = Never \/ rows[r].to > t)}
    <2>3. \A r \in DOMAIN rows : r \in S <=> Covers(rows[r], t)
      BY DEF Covers, With, Settled
    <2>4. S \in SUBSET DOMAIN rows /\ g \in S
      BY <2>2, <2>3 DEF With
    <2>5. Lookup(t) = HighestOf(S)
      BY DEF Lookup
    <2> HIDE DEF S
    <2>6. PICK h \in S : h = Highest(S) /\ \A q \in S : rows[q].version <= rows[h].version
      BY <2>1, <2>4, RowsBasics, HighestIs
    <2>7. Lookup(t) = h
      BY <2>4, <2>5, <2>6 DEF HighestOf
    <2>8. rows[h].version = rows[g].version
      <3>1. rows[g].version <= rows[h].version /\ rows[h].version <= rows[g].version
        BY <2>2, <2>3, <2>4, <2>6
      <3>2. rows[g].version \in Nat /\ rows[h].version \in Nat
        BY <2>1, <2>4, RowsBasics DEF RowType
      <3> QED
        BY <3>1, <3>2
    <2>9. h \in Live /\ g \in Live
      BY <2>3, <2>4 DEF Covers, Settled, Live
    <2>10. h = g
      BY <2>1, <2>8, <2>9 DEF CalmOK, OneNumber
    <2> QED
      BY <2>2, <2>7, <2>10
  <1> QED
    BY <1>1, RulesInvariant, PTL

(* An emergency that nobody ratified in its time does not govern for two   *)
(* ticks more, unless one of the second tick took its place and was        *)
(* refused within it.                                                      *)
THEOREM RulesEmergencies == RulesSpec => []EmergenciesEnd
  <1>1. RulesInv => EmergenciesEnd
    <2> SUFFICES ASSUME RulesInv, causes = {}, NEW t \in 0..now - 2,
                        NEW r \in governed[t] \cap governed[t + 1], rows[r].emergency
                 PROVE  \/ rows[r].ratified \/ rows[r].created + RatifyWithin > t
                        \/ \E q \in DOMAIN rows :
                              rows[q].emergency /\ rows[q].replaced = r /\ rows[q].created = t + 1
      BY DEF EmergenciesEnd
    <2> QED
      BY DEF RulesInv, CalmOK, LapsedEnded, Replaces, ReplacedAt
  <1> QED
    BY <1>1, RulesInvariant, PTL
=============================================================================
