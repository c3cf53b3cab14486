-------------------------- MODULE DecisionPipeline --------------------------
(***************************************************************************)
(* One application going through the decision graph: DAGExecutor walks the *)
(* waves of execution_order, every decision of a wave is an asyncio task   *)
(* that runs AtomicTool (build the bundle, evaluate, write the trace, pass *)
(* the audit gate, route), and ModeRouter enacts the outcome on the human  *)
(* queue and the decision-scoped store.  Several runs of the same          *)
(* application may overlap: each POST /applications/{id}/run starts one.    *)
(*                                                                         *)
(* A step of a task is what it does between two awaits on a store.  A      *)
(* process crash needs no action: a run that takes no further step leaves  *)
(* exactly the state its last step left, and nothing resumes it.           *)
(***************************************************************************)
EXTENDS PolicyEvaluator, Sequences

CONSTANTS
    Runs,          \* run_application() calls on the application
    NumWaves,      \* waves of execution_order
    WaveOf,        \* the wave each decision is in
    DependsOn,     \* depends_on
    Registered,    \* decisions with an agent
    Mode,          \* mode of each decision
    Risk,          \* risk_level of each decision
    Threshold,     \* block_if_upstream_confidence_below, 0 if absent
    AuditWired,    \* whether an audit engine and store are configured
    CriticScope,   \* risk levels the critic reviews
    Confidences,   \* confidences an agent may report, percent
    Proposals      \* outcomes the boundary clauses may give

ASSUME PipelineAssumption ==
    /\ NumWaves \in Nat
    /\ WaveOf \in [Decisions -> 1..NumWaves]
    /\ DependsOn \in [Decisions -> SUBSET Decisions]
    /\ Registered \subseteq Decisions
    /\ Mode \in [Decisions -> {"shadow", "recommend", "human_approval", "auto_execute"}]
    /\ Threshold \in [Decisions -> Nat]
    /\ AuditWired \in BOOLEAN
    /\ Confidences \subseteq Nat
    /\ Proposals \subseteq Outcomes

VARIABLES
    wave,        \* 0 before the run, 1..NumWaves the wave it is at, NumWaves + 1 done
    awaiting,    \* whether it is in asyncio.gather
    fraudBlocked,
    stage,       \* how far each decision of the run has come
    bundle,      \* versions of the upstream records its bundle was built from
    verdict,     \* final outcome and agent confidence
    trace,       \* the DecisionTrace written, as far as the properties look
    audit,       \* <<run, decision>> pairs with an AuditRecord
    queue,       \* of each decision, its human queue items in the order they were added
    log,         \* durable decision records, oldest first; the last is the active one
    announced    \* <<run, decision>> pairs a RECORD_UPDATED event was published for

control == <<wave, awaiting, fraudBlocked>>
evidence == <<trace, audit>>
effects == <<queue, log>>
vars == <<control, stage, bundle, verdict, evidence, effects, announced>>

None == [outcome |-> "none", confidence |-> 0]
NoTrace == [outcome |-> "none", reviewed |-> FALSE]

(* started .. queued: inside AtomicTool.run, named for the last step done; *)
(* routed and raised: the task has a result, or an exception;              *)
(* completed, skipped, failed: the executor's three lists.                 *)
Running  == {"started", "built", "judged", "traced", "audited", "queued"}
Resolved == {"routed", "raised"}
Final    == {"completed", "skipped", "failed"}
Stages   == {"pending"} \cup Running \cup Resolved \cup Final

Init ==
    /\ wave = [r \in Runs |-> 0]
    /\ awaiting = [r \in Runs |-> FALSE]
    /\ fraudBlocked = [r \in Runs |-> FALSE]
    /\ stage = [r \in Runs |-> [d \in Decisions |-> "pending"]]
    /\ bundle = [r \in Runs |-> [d \in Decisions |-> [u \in Decisions |-> 0]]]
    /\ verdict = [r \in Runs |-> [d \in Decisions |-> None]]
    /\ trace = [r \in Runs |-> [d \in Decisions |-> NoTrace]]
    /\ audit = {}
    /\ queue = [d \in Decisions |-> <<>>]
    /\ log = [d \in Decisions |-> <<>>]
    /\ announced = {}

-----------------------------------------------------------------------------
(* DAGExecutor.run_application *)

Begin(r) ==
    /\ wave[r] = 0
    /\ wave' = [wave EXCEPT ![r] = 1]
    /\ UNCHANGED <<awaiting, fraudBlocked, stage, bundle, verdict, evidence, effects, announced>>

InWave(r) == {d \in Decisions : WaveOf[d] = wave[r]}

(* A definition named ..._as_... is a plausible slip in the one it precedes *)
(* and stands for; the properties are shown to tell the two apart.          *)

(* Only decisions that never ran count as missing, not failed ones. *)
Missing_as_NotRun(r, d) == {u \in DependsOn[d] : stage[r][u] \in {"pending", "skipped"}}

(* outcomes, the executor's dictionary, has the decisions it completed. *)
Missing(r, d) == {u \in DependsOn[d] : stage[r][u] # "completed"}

(* The fraud block reaches only the dependents of fraud_screening. *)
MayStart_as_DependentsOnly(r, d) ==
    /\ d \in Registered
    /\ fraudBlocked[r] => Fraud \notin DependsOn[d]
    /\ Missing(r, d) = {}

(* No upstream check: the wave order is trusted. *)
MayStart_as_TrustWaves(r, d) ==
    /\ d \in Registered
    /\ fraudBlocked[r] => d = Fraud

MayStart(r, d) ==
    /\ d \in Registered
    /\ fraudBlocked[r] => d = Fraud
    /\ Missing(r, d) = {}

(* A wave without tasks is not passed over. *)
Dispatch_as_NoContinue(r) ==
    /\ wave[r] \in 1..NumWaves
    /\ ~awaiting[r]
    /\ LET tasks == {d \in InWave(r) : MayStart(r, d)}
       IN  /\ stage' = [stage EXCEPT ![r] = [d \in Decisions |->
                           IF d \in tasks THEN "started"
                           ELSE IF d \in InWave(r) THEN "skipped" ELSE @[d]]]
           /\ awaiting' = [awaiting EXCEPT ![r] = tasks # {}]
    /\ UNCHANGED <<wave, fraudBlocked, bundle, verdict, evidence, effects, announced>>

(* The loop over a wave: it creates tasks but collects none, so no check   *)
(* in it depends on how far the tasks it has created already came.  A wave *)
(* without tasks is passed over.                                           *)
Dispatch(r) ==
    /\ wave[r] \in 1..NumWaves
    /\ ~awaiting[r]
    /\ LET tasks == {d \in InWave(r) : MayStart(r, d)}
       IN  /\ stage' = [stage EXCEPT ![r] = [d \in Decisions |->
                           IF d \in tasks THEN "started"
                           ELSE IF d \in InWave(r) THEN "skipped" ELSE @[d]]]
           /\ awaiting' = [awaiting EXCEPT ![r] = tasks # {}]
           /\ wave' = [wave EXCEPT ![r] = IF tasks = {} THEN @ + 1 ELSE @]
    /\ UNCHANGED <<fraudBlocked, bundle, verdict, evidence, effects, announced>>

(* ModeRouter.route, the first branch that applies *)
Action(d, outcome) ==
    IF outcome = "block" THEN "block"
    ELSE IF Mode[d] = "shadow" THEN "shadow_record"
    ELSE IF \/ Mode[d] \in {"recommend", "human_approval"}
            \/ outcome \in {"recommend", "escalate"}
         THEN "queue_human"
    ELSE "auto_writeback"

RouteOf(r, d) == Action(d, verdict[r][d].outcome)

(* gather(return_exceptions=True) has returned: every task is folded into  *)
(* the executor's state and the next wave begins.                          *)
Collect(r) ==
    LET tasks == {d \in InWave(r) : stage[r][d] \in Running \cup Resolved}
        done  == {d \in tasks : stage[r][d] = "routed"}
    IN  /\ awaiting[r]
        /\ \A d \in tasks : stage[r][d] \in Resolved
        /\ stage' = [stage EXCEPT ![r] = [d \in Decisions |->
                        IF d \in done THEN "completed"
                        ELSE IF d \in tasks THEN "failed" ELSE @[d]]]
        /\ fraudBlocked' = [fraudBlocked EXCEPT ![r] =
                               @ \/ (Fraud \in done /\ verdict[r][Fraud].outcome = "block")]
        /\ announced' = announced \cup
               {<<r, d>> : d \in {x \in done : RouteOf(r, x) \in {"auto_writeback", "block"}}}
        /\ awaiting' = [awaiting EXCEPT ![r] = FALSE]
        /\ wave' = [wave EXCEPT ![r] = @ + 1]
        /\ UNCHANGED <<bundle, verdict, evidence, effects>>

-----------------------------------------------------------------------------
(* AtomicTool.run *)

Advance(r, d, from, to) ==
    /\ stage[r][d] = from
    /\ stage' = [stage EXCEPT ![r][d] = to]

(* Blocked upstreams are not handed on. *)
Upstream_as_Unblocked(r, d) ==
    [u \in {x \in DependsOn[d] : verdict[r][x].outcome # "block"} |-> verdict[r][u]]

(* _upstream_for: the summaries come from the run itself ... *)
Upstream(r, d) == [u \in DependsOn[d] |-> verdict[r][u]]

(* The bundle is built from a copy that lags one version behind. *)
Build_as_Lagging(r, d) ==
    /\ Advance(r, d, "started", "built")
    /\ bundle' = [bundle EXCEPT ![r][d] =
                     [u \in Decisions |->
                         IF u \in DependsOn[d] /\ Len(log[u]) > 0 THEN Len(log[u]) - 1 ELSE 0]]
    /\ UNCHANGED <<control, verdict, evidence, effects, announced>>

(* ... the bundle from the store, whose active record another run may have *)
(* written.                                                                *)
Build(r, d) ==
    /\ Advance(r, d, "started", "built")
    /\ bundle' = [bundle EXCEPT ![r][d] =
                     [u \in Decisions |-> IF u \in DependsOn[d] THEN Len(log[u]) ELSE 0]]
    /\ UNCHANGED <<control, verdict, evidence, effects, announced>>

(* Both policy evaluations and agent.reason between them (PolicyCheck). *)
Judge(r, d) ==
    /\ Advance(r, d, "built", "judged")
    /\ \E outcome \in PossibleOutcomes(Threshold[d], Upstream(r, d)), c \in Confidences :
          /\ outcome \in Proposals \cup {"block"}
          /\ verdict' = [verdict EXCEPT ![r][d] = [outcome |-> outcome, confidence |-> c]]
    /\ UNCHANGED <<control, bundle, evidence, effects, announced>>

(* The critic's review is folded into the trace before it is written. *)
WriteTrace(r, d) ==
    /\ Advance(r, d, "judged", "traced")
    /\ trace' = [trace EXCEPT ![r][d] =
                    [outcome |-> verdict[r][d].outcome, reviewed |-> Risk[d] \in CriticScope]]
    /\ UNCHANGED <<control, bundle, verdict, audit, effects, announced>>

(* A failing gate is logged and passed. *)
AuditGate_as_FailOpen(r, d) ==
    /\ Advance(r, d, "traced", "audited")
    /\ audit' \in {audit, audit \cup {<<r, d>>}}
    /\ UNCHANGED <<control, bundle, verdict, trace, effects, announced>>

(* The gate is passed over when no engine or store is wired. *)
AuditGate(r, d) ==
    /\ Advance(r, d, "traced", "audited")
    /\ audit' = IF AuditWired THEN audit \cup {<<r, d>>} ELSE audit
    /\ UNCHANGED <<control, bundle, verdict, trace, effects, announced>>

(* SHADOW_RECORD: nothing is written. *)
Observe(r, d) ==
    /\ RouteOf(r, d) = "shadow_record"
    /\ Advance(r, d, "audited", "routed")
    /\ UNCHANGED <<control, bundle, verdict, evidence, effects, announced>>

(* A queue that cannot be reached is logged and passed. *)
Enqueue_as_BestEffort(r, d) ==
    /\ RouteOf(r, d) = "queue_human"
    /\ Advance(r, d, "audited", "queued")
    /\ queue' \in {queue, [queue EXCEPT ![d] =
                              Append(@, [run |-> r, proposed |-> verdict[r][d].outcome])]}
    /\ UNCHANGED <<control, bundle, verdict, evidence, log, announced>>

Enqueue(r, d) ==
    /\ RouteOf(r, d) = "queue_human"
    /\ Advance(r, d, "audited", "queued")
    /\ queue' = [queue EXCEPT ![d] = Append(@, [run |-> r, proposed |-> verdict[r][d].outcome])]
    /\ UNCHANGED <<control, bundle, verdict, evidence, log, announced>>

(* After a write that failed the decision is routed once more. *)
Writeback_as_Rerouted(r, d) ==
    /\ \/ stage[r][d] = "queued"
       \/ stage[r][d] = "audited" /\ RouteOf(r, d) \in {"block", "auto_writeback"}
    /\ \/ /\ log' = [log EXCEPT ![d] = Append(@, [run        |-> r,
                                                  outcome    |-> verdict[r][d].outcome,
                                                  confidence |-> verdict[r][d].confidence])]
          /\ \E result \in Resolved : stage' = [stage EXCEPT ![r][d] = result]
       \/ log' = log /\ stage' = [stage EXCEPT ![r][d] = "audited"]
    /\ UNCHANGED <<control, bundle, verdict, evidence, queue, announced>>

(* _writeback: the durable insert, then the hot cache, which may fail and  *)
(* leave the record behind a task that raised.                             *)
Writeback(r, d) ==
    /\ \/ stage[r][d] = "queued"
       \/ stage[r][d] = "audited" /\ RouteOf(r, d) \in {"block", "auto_writeback"}
    /\ log' = [log EXCEPT ![d] = Append(@, [run        |-> r,
                                            outcome    |-> verdict[r][d].outcome,
                                            confidence |-> verdict[r][d].confidence])]
    /\ \E result \in Resolved : stage' = [stage EXCEPT ![r][d] = result]
    /\ UNCHANGED <<control, bundle, verdict, evidence, queue, announced>>

(* Any step may raise instead of completing: a builder, agent, critic,     *)
(* audit or store error ends the task with what it had persisted so far.   *)
Raise(r, d) ==
    /\ stage[r][d] \in Running
    /\ stage' = [stage EXCEPT ![r][d] = "raised"]
    /\ UNCHANGED <<control, bundle, verdict, evidence, effects, announced>>

-----------------------------------------------------------------------------
Task(r, d) ==
    \/ Build(r, d) \/ Judge(r, d) \/ WriteTrace(r, d) \/ AuditGate(r, d)
    \/ Observe(r, d) \/ Enqueue(r, d) \/ Writeback(r, d) \/ Raise(r, d)

Executor(r) == Dispatch(r) \/ Collect(r)

Next == \E r \in Runs : Begin(r) \/ Executor(r) \/ \E d \in Decisions : Task(r, d)

Spec == Init /\ [][Next]_vars

(* The event loop runs every ready task, and every awaited call answers or *)
(* raises; a run need not be requested.                                    *)
Fairness ==
    \A r \in Runs : WF_vars(Executor(r)) /\ \A d \in Decisions : WF_vars(Task(r, d))

FairSpec == Spec /\ Fairness

-----------------------------------------------------------------------------
Records(d) == DOMAIN log[d]
Items(d) == DOMAIN queue[d]

Recorded(r, d) == \E i \in Records(d) : log[d][i].run = r
Asked(r, d) == \E i \in Items(d) : queue[d][i].run = r

ControlType ==
    /\ wave \in [Runs -> 0..NumWaves + 1]
    /\ awaiting \in [Runs -> BOOLEAN]
    /\ fraudBlocked \in [Runs -> BOOLEAN]
    /\ announced \subseteq Runs \X Decisions

TaskType ==
    /\ stage \in [Runs -> [Decisions -> Stages]]
    /\ bundle \in [Runs -> [Decisions -> [Decisions -> Nat]]]
    /\ verdict \in [Runs -> [Decisions -> Summary(Confidences) \cup {None}]]

EvidenceType ==
    /\ trace \in [Runs -> [Decisions ->
                    [outcome : Outcomes \cup {"none"}, reviewed : BOOLEAN]]]
    /\ audit \subseteq Runs \X Decisions

QueueItems == [run : Runs, proposed : Outcomes]
DecisionRecords == [run : Runs, outcome : Outcomes, confidence : Confidences]

EffectType ==
    /\ queue \in [Decisions -> Seq(QueueItems)]
    /\ log \in [Decisions -> Seq(DecisionRecords)]

(* Type invariant of the pipeline. *)
TypeOK == ControlType /\ TaskType /\ EvidenceType /\ EffectType

(* no_execution_without_trace and audit_record_required_before_writeback:  *)
(* at every moment, so also if the process dies or a step fails there,     *)
(* what reached the human queue or the store has a trace that states the   *)
(* same outcome, the critic's review if its risk is in scope, and, where   *)
(* the gate is wired, an audit record.                                     *)
Evidenced(r, d, outcome) ==
    /\ trace[r][d].outcome = outcome
    /\ Risk[d] \in CriticScope => trace[r][d].reviewed
    /\ AuditWired => <<r, d>> \in audit

EvidenceBeforeEffect ==
    \A d \in Decisions :
        /\ \A i \in Records(d) : Evidenced(log[d][i].run, d, log[d][i].outcome)
        /\ \A i \in Items(d) : Evidenced(queue[d][i].run, d, queue[d][i].proposed)

(* upstream_block_propagates_to_dependents and the contamination guard, as *)
(* seen from outside: once an upstream was blocked or too uncertain in a   *)
(* run, that run enacts nothing but a block on the dependents, and asks no *)
(* human about them.                                                       *)
Troubled(r, d) ==
    \E u \in DependsOn[d] : \/ verdict[r][u].outcome = "block"
                            \/ verdict[r][u].confidence < Threshold[d]

OnlyBlocksBelowTrouble ==
    \A r \in Runs, d \in Decisions :
        Troubled(r, d) =>
            /\ \A i \in Records(d) : log[d][i].run = r => log[d][i].outcome = "block"
            /\ ~Asked(r, d)

(* fraud_block_stops_pipeline: after a fraud block that the executor has   *)
(* collected no later decision of the run ever starts, though it does not  *)
(* depend on fraud_screening; and nothing else stops the pipeline.         *)
FraudBlockStopsPipeline ==
    \A r \in Runs :
        /\ fraudBlocked[r] <=>
              stage[r][Fraud] = "completed" /\ verdict[r][Fraud].outcome = "block"
        /\ fraudBlocked[r] =>
              \A d \in Decisions :
                 WaveOf[d] > WaveOf[Fraud] => stage[r][d] \in {"pending", "skipped"}

(* A decision whose upstream failed or was skipped does not run and leaves *)
(* nothing behind, even where the failed upstream left a durable record or *)
(* another run's record of it is there to be read.                         *)
FailureCascades ==
    \A r \in Runs, d \in Decisions :
        (\E u \in DependsOn[d] : stage[r][u] \in {"raised", "failed", "skipped"}) =>
            /\ stage[r][d] \in {"pending", "skipped"}
            /\ trace[r][d] = NoTrace
            /\ ~Recorded(r, d)

(* Nobody is bypassed: at every moment, whatever step failed, a proposal   *)
(* is in the store only if the human it waits for was asked, nobody is     *)
(* asked about a decision the machine has settled itself, and a shadow     *)
(* observation reached neither.  A completed proposal was asked about, and *)
(* a completed automatic decision is on record.  That a proposal is stored *)
(* before the human answers, and a block in shadow mode at all, is what    *)
(* the code does; the property does not ask for it.                        *)
NobodyIsBypassed ==
    \A r \in Runs, d \in Decisions :
        /\ Asked(r, d) => RouteOf(r, d) = "queue_human"
        /\ Recorded(r, d) => \/ RouteOf(r, d) \in {"block", "auto_writeback"}
                             \/ RouteOf(r, d) = "queue_human" /\ Asked(r, d)
        /\ stage[r][d] = "completed" =>
              /\ RouteOf(r, d) = "queue_human" => Asked(r, d)
              /\ RouteOf(r, d) \in {"block", "auto_writeback"} /\ Mode[d] # "shadow" => Recorded(r, d)

(* A record_updated event is only published for a record its subscribers   *)
(* find in the store: the executor publishes after the task returned, and  *)
(* from the route, not from the store.                                     *)
AnnouncedIsStored ==
    \A a \in announced : Recorded(a[1], a[2])

(* A run writes a decision's record at most once and puts it to the humans *)
(* at most once, whatever step of it failed and whatever runs overlap it.  *)
OneEffectPerRun ==
    \A d \in Decisions :
        /\ \A i, j \in Records(d) : log[d][i].run = log[d][j].run => i = j
        /\ \A i, j \in Items(d) : queue[d][i].run = queue[d][j].run => i = j

(* The record of an upstream the run itself wrote is in the store before a *)
(* dependent's bundle is built: the bundle shows it or a newer one.        *)
OwnUpstreamVisible ==
    \A r \in Runs, d \in Decisions : \A u \in DependsOn[d] :
        verdict[r][d] # None /\ RouteOf(r, u) # "shadow_record" =>
            \E i \in Records(u) : log[u][i].run = r /\ i <= bundle[r][d][u]

(* The run does what the decision graph promises.                          *)
Disposition(r, d) ==
    CASE stage[r][d] = "completed"           -> verdict[r][d].outcome
      [] stage[r][d] \in {"skipped", "failed"} -> stage[r][d]
      [] OTHER                               -> "open"

Dispositions == [r \in Runs |-> [d \in Decisions |-> Disposition(r, d)]]

Flow == INSTANCE DecisionFlow WITH disposition <- Dispositions

(* Every step of the executor and its tasks is a lawful settlement of a    *)
(* set of decisions, or settles nothing (refinement of DecisionFlow).      *)
ImplementsFlow == Flow!Spec

(* A requested run settles every decision of the graph: no failing task,   *)
(* missing agent or fraud block leaves one hanging.                        *)
EveryDecisionSettles ==
    \A r \in Runs : wave[r] = 1 ~> \A d \in Decisions : stage[r][d] \in Final

=============================================================================
