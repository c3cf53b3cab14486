# Verification of the decision engine

TLA+ models of the protocol parts of this repository, the TLC runs that check
them on small instances, and TLAPS proofs of the results that hold for every
value of the constants. Source paths below are relative to `src/`.

    tlc -workers 2 -config pipeline_one.cfg MCDecisionPipeline     # one run
    tlapm DecisionPipeline_proofs.tla                              # one proof module

`PROJECT.json` lists every run, the source lines each definition stands for, the
seeded mistakes every property is shown to detect, the hazards and the theorems.

## 1. The system

The engine decides on loan applications by sending each of them through a graph
of *decisions* (fraud screening, income verification, DTI, underwriting, ...).
A decision is made by a persona (an agent), ruled on by a policy engine, traced,
audited, routed by its mode (`shadow`, `recommend`, `human_approval`,
`auto_execute`), and stored. There are two paths: the *event path*
(`POST /applications/{id}/run` → `DAGExecutor` → `AtomicTool` → `ModeRouter` →
context store) and the *batch path* (an SQS message or a schedule →
`PersonaRunner` → `decision_outputs`), whose rows reviewers act on through the
API.

### Inventory

| Component | Source | State | Operations | Hard behaviour | What makes it correct |
|---|---|---|---|---|---|
| Policy evaluator | `core/policy_engine/evaluator.py` | none | `evaluate` | priority of hard rules, guard and clauses; any-of and all-of; missing facts | nothing allowed by omission; worse evidence is never treated milder |
| Atomic tool | `core/decision_agents/atomic_tool.py` | one call's locals | `run` | two evaluations around an agent; an exception at any await | evidence precedes effect; the agent cannot lift a hard block |
| Mode router, human queue | `core/decision_agents/mode_router.py` | queue items | `route`, `_writeback`, `resolve`, `find_open` | item and record are two writes | nobody who has to be asked is bypassed; one item and one record a run |
| DAG executor | `core/execution/dag_executor.py` | one run's outcomes and flags | `run_application` | concurrent tasks of a wave; fraud stop; partial failure; overlapping runs | a run settles every decision, lawfully |
| Context builder | `core/context_store/context_builder.py` | none | `build` | store and run may disagree | the run's own upstream records are visible |
| Context store | `core/context_store/{lending,postgres_store,redis_cache,base}.py` | versioned records, hot cache | `get`, `set`, `delete`, `snapshot` | cache filled from a value read before an await; failures between two stores; time travel | one active record; the past changes only by a record stamped by then; the cache holds nothing that was not stored |
| Circuit breaker | `core/infra/circuit_breaker.py` | state, failures, opening time | `allow`, `record_success`, `record_failure`, `call` | results that arrive in a later state; rolling window | trips are earned, recovery happens |
| Batch runner, decision store | `core/cron/runner.py`, `core/decision_store.py` | rows by version, timeline | `run_all_waves`, `run_persona`, `write_decision`, `get_pending`, `get_upstream` | overlapping sweeps, retry of a commit that succeeded, dead sweeps | the review gate; no decision written twice; every decision made |
| Human review of rows | `api/accord/pipeline.py` | the same rows | `approve`, `override`, `revert` | select, then update without a lock, against sweeps | append-only history; a revert restores the machine's outcome |
| SQS consumer | `core/infra/sqs_consumer.py` | messages in flight | `poll_once`, `run`, `_default_dispatch`, `_delete_message`, `_send_to_dlq` | at-least-once delivery, overlapping polls, swallowed failures | a trigger is only lost to an error a sweep swallowed; those that name nothing are reported |
| Pattern detector | `core/cron/pattern_detector.py` | `policy_proposals` | `detect_patterns` after each sweep | check, then insert, in overlapping sweeps | few proposals of one pattern |
| Rule versions | `api/accord/rules.py`, `scripts/rules_cron.py` | `tenant_rules` | draft, approve, schedule, shadow, emergency, ratify, rollback, lookup; four scheduled jobs | transactions that overlap at READ COMMITTED; reverts of reverts | one version governs; the examiner's lookup tells the past |
| Exceptions workflow | `core/exceptions/` | `loan_exceptions`, `loan_actions` | score, eligibility, `populate_exception_records`, `transition_status` | statements without a transaction; the writer rerun under a review | a grant has the authority the file asks for; a decision is logged and settles |
| Underwriters' desk | `api/accord/pipeline.py`, `api/accord/workbench.py`, `core/db/tenant_pool.py` | a loan's assignment and entity rows | `reassign`, `decide` with its actions, communications, the workbench's hand-over | one fact in two rows; the assignment's UPDATE may miss, the hand-over writes one row only | the rows agree; who holds the loan decides it |
| Conditions | `core/conditions/condition_engine.py`, `api/accord/conditions.py` | `loan_condition_instances` | create, receive, satisfy, waive | four writers, each with its own test or none | a condition never goes back |
| Event ingest | `api/ingest.py`, `api/routes.py` | event log, shared entities | `append`, `hydrate` (twice per request) | a merge reads a cache that may lag; calls overlap and fail | nothing is lost in sequence; the log explains the store |
| Workbench, reflection | `ui/routes.py`, `core/trace/{trace_writer,reflection}.py` | human reviews, lessons, receipts | `ack`, `decline`, `override`, `capture` | oldest trace against oldest item; handlers interleave; the page stops offering | one receipt per item; what waits is resolved; lessons are overrides |
| Policy store | `core/policy_engine/store.py` | versions with validity | `put_policy_version`, `close_version`, `active_version` | a version activated while a decision is judged | the record's stamp names the version that ruled |
| Replayer | `core/simulation/replayer.py` | frozen store | `run` | isolation from the live store | replay reads only what was known |
| Calculators, catalogue, extraction, reports, UI, auth, scripts | the rest of `core/`, `domains/`, `api/`, `ui/`, `frontend/` | none, or rows of one request | reads and arithmetic | none of the above | not about protocol |

How they interact: the executor calls tools as asyncio tasks and awaits a whole
wave; a tool calls the evaluator twice, writes trace and audit record, and calls
the router; the router writes the queue and the context store; builders of later
tools read that store. A sweep reads and writes `decision_outputs` row by row;
reviewers change the same rows; the two are coupled only through those rows.
Sweeps are started by the consumer (`POST /sqs-poll` or its loop) and end with the
pattern detector, whose proposals the rules API closes. Events reach the shared
entities through the ingest, people reach traces and queue through the workbench,
and loans, conditions and rules through the accord API, whose every request is one
transaction of the `TenantPool`.

## 2. Modules

| Module | Models | Composes |
|---|---|---|
| `PolicyEvaluator` | `evaluate()` as operators | |
| `PolicyCheck` | pre-check, agent, re-check of one decision | `PolicyEvaluator` |
| `DecisionFlow` | abstract specification of a run | `PolicyEvaluator` (names) |
| `DecisionPipeline` | executor, tasks, router, store and queue over overlapping runs | `PolicyEvaluator` abstracted; refines `DecisionFlow` |
| `CircuitBreaker` | breaker, its callers, the dependency | |
| `ContextStore` | durable history, hot cache, clients, for one key | |
| `EventIngest` | event log, hydrator and the requests that call it twice, for one entity | extends `ContextStore` |
| `CronRunner` | overlapping sweeps and reviewers over one application's rows | |
| `TriggerQueue` | abstract at-least-once queue | |
| `SqsConsumer` | polls, sweeps, proposals, dead letters, SQS | refines `TriggerQueue` |
| `RuleVersions` | overlapping handlers and scheduled jobs over one tenant's rules | |
| `ExceptionRules` | score, level, eligibility, authority as operators | |
| `ExceptionDesk` | writer and reviewers over the exceptions of one decision | extends `ExceptionRules` |
| `LoanDesk` | requests about one loan and its conditions | |
| `HumanReview` | workbench over the traces and items of overlapping runs | on what `DecisionPipeline` proves of a run |
| `MC*` | finite instances | |
| `DecisionPipeline_proofs` | theorems about the pipeline and its refinement | `DecisionPipeline` |
| `Rules_proofs` | theorems about one decision's checks and about the versions of the rules | `PolicyCheck`, `RuleVersions` |
| `EventIngest_proofs` | theorems about store and ingest | `EventIngest` |
| `Infra_proofs` | theorems about consumer and breaker, the refinement of `TriggerQueue` | `SqsConsumer`, `CircuitBreaker` |
| `CronRunner_proofs`, `ExceptionDesk_proofs`, `LoanDesk_proofs`, `HumanReview_proofs` | theorems about the module they are named after | that module |

A definition named `X_as_Y` is a plausible slip in `X`. No specification uses
one; each property is shown to fail when `X` is replaced by it. `CircuitBreaker` and
`RuleVersions` name their specifications `BreakerSpec` and `RulesSpec` (and so on), so
that a proof module can extend them beside another.

### PolicyEvaluator and PolicyCheck

`HardRule`, `Contaminated`, `Fires` and `Evaluate` follow `evaluate()` in order:
hard rules, contamination guard, the four clauses by priority, and the
safe default (escalate). A rule is a fact of the application, a bound on one upstream's
confidence, or one of the two derived flags; the text of expressions is abstracted
to what the rule evaluator finds: `yes`, `no`, `missing` or `error`. The flags
`all_upstream_auto_cleared` and `any_upstream_hard_block` are computed from the upstreams
only where the context has none (`evaluator.py:637-638` uses `setdefault`), so the agent's
payload replaces them in the re-check.
`PolicyCheck` is `AtomicTool.run` from the bundle to the second ruling: `PreCheck`,
`Reason` (the agent may change any finding of the decision, its flags included),
`PostCheck`. All inputs are chosen in `Init`: `Bundled` is what can be found over the
bundle alone, where the flags are missing, `Findings` what can be found with the agent's
payload over it. A payload that carries the name of an upstream is covered through the
facts only. `Activate` makes another version the active one at
any moment: each evaluation resolves the version anew and stamps it, and the two
versions read the facts differently. That the stamp names the version that ruled is part
of `CheckInv` and no property of its own: `PostCheck` sets the two together. Which version a date selects is left open.

### DecisionPipeline and DecisionFlow

| Action | Code |
|---|---|
| `Begin`, `Dispatch` | `run_application`, the loop over a wave; one step, since nothing in it looks at what the tasks created so far have done |
| `Collect` | after `asyncio.gather`: completed, failed, the fraud flag, `RECORD_UPDATED` events (no component subscribes) |
| `Build` | `ContextBuilder.build`, as the versions of the upstream records read |
| `Judge` | both evaluations and the agent, as the set `PossibleOutcomes` that `PipelineAbstractionIsSound` justifies |
| `WriteTrace`, `AuditGate` | critic, trace and audit record |
| `Observe`, `Enqueue`, `Writeback` | the branches of `ModeRouter.route` and `_writeback` |
| `Raise` | any step of a task raises |

Each step of a task is what it does between two awaits on a store. The
shipped in-memory backends (`api/deps.py:278-281`) do not suspend when
uncontended, but the protocol they implement has Postgres, Redis and network-calling
agents behind the same awaits, which do. A process crash is a run that takes no
further step. The queue is the sequence of items of a decision, so a second item of one
run would show. `DecisionFlow` forgets tasks, stores and failures in between: each
decision of each run is open until it is settled once, lawfully.

### CircuitBreaker

Every action is a region under the lock. A refused call changes nothing and is no
action. Time is a pair of saturating ages. `Recover` is the environment: a call begun
before it may still fail and report so after it, one begun later succeeds. The
path for exceptions that are not `Exception` (a cancelled call reports nothing)
is left out. The breaker has no call site in the repository yet; `call()` is
the client. `Pruned` is the tail of the list that still counts, which is what
`_prune` leaves of a list in order of time; that the list is in order is proved.

### ContextStore

`Insert`, `Tombstone` and `Load` are durable calls (a lock or a transaction);
`Cache` and `Evict` are hot calls; other clients run in between. `backend` is chosen
in `Init`: the in-memory store, or Postgres with the foreign key of `schema.sql`,
which is the database's behaviour and modelled from the schema. `Stamp` is the lineage's
`written_at`, taken by the caller before `set`: what counts as the start of a record is
this stamp in memory and the insert's `created_at` in Postgres (`Start`), while the
predecessor always ends at the insert. The ghost `stored` keeps the time of the insert.
Keys do not interact, so there is one. `BreakOff` is an exception, a cancellation or a crash
between the two stores. A cache hit changes nothing and is no action.

### CronRunner

| Action | Code |
|---|---|
| `Poll` | `get_pending` as `run_persona` calls it; nothing pending moves the sweep on |
| `Evaluate` | `_process_one` up to the write: the upstream versions it read and some outcome |
| `BeginWrite`, `Commit` | `write_decision`: `SELECT MAX(version)`, then the insert at its commit |
| `UniqueViolation` | the unique index on the version refuses a concurrent insert; logged, not retried |
| `ConnectionLost`, `AnswerLost` | a connection error before and after the commit; `Retry` |
| `Abort` | a dead process, or an exception outside the loop's `try`; another sweep starts |
| `Select`; `Approve`, `Override`, `Revert` | `_latest_decision` and the statements after it |

The unique index is part of the deployed schema
(`docs/perf/PERF-B-DB-OPTIMIZATION.md`). Persona bundles, conditions, pattern
detection and evidence enrichment are best-effort side writes or reads and are
left out, so are pools, batching and the timeline except for what a revert reads from it.
`Evaluate` allows every outcome, since a failed policy evaluation or a safe
default falls back to the persona's proposal. The ghost `lost` collects the decisions
of which a commit was not answered (`AnswerLost`).

### EventIngest

| Action | Code |
|---|---|
| `Receive` | the sink appends to the log and hydrates |
| `Hit`, `Fetch`, `Sign`, `Write` | `_write_shared`: `store.get()` from the cache or the history, the lineage, then `store.set()` |
| `Rehydrate` | the route hydrates the same event again |
| `Other`, `Warm` | other clients' `get` and `delete`, and the hot half of every call |
| `Refused`, `Fail` | the database refuses an insert; a call breaks off |

A value is the set of its fields, each with the event it came from, so that a lost
update shows. An event is ingested once; a caller who posts again posts another event.

### SqsConsumer and TriggerQueue

`Receive`, `Take`, `Delete` and `DeadLetter` are `poll_once` in order; `EndWaves` and
`RaiseWaves` are the sweep of `_default_dispatch`, which counts the error of one
application and goes on, or raises; `Detect` and `Propose` are the pattern detector's two
statements. `Expire` and `Overrun` are the queue's visibility timeout, `Crash` loses
a batch. A body that cannot be read is skipped: it is neither deleted nor lettered and
shows again until the queue drops it. `TriggerQueue` knows triggers that wait and sweeps that end: the consumer is
that queue if what a sweep swallowed counts as swept. What sweeps do to rows is
`CronRunner`.

### RuleVersions

A handler is two steps: `Propose`, `Review` or `Judge` reads, `Draft`, `Schedule`,
`Shadow`, `Emergency`, `Approve`, `Ratify` or `Refuse` writes and commits; a WHERE on a
status is tested again on the rows the statement found, as READ COMMITTED does. The
pool opens the transaction (`core/db/tenant_pool.py:45-52`), so no handler leaves half
its writes. `update_overlay` and `rollback` draft as `update_rules` does. `Collect` and
`Step` are the jobs, row by row; `Tick` is the scheduler's period. The ghost `causes`
collects the four things after which the code promises nothing: a commit over another
commit, a late revert, a revert to another version than the one replaced, and the
expiry of a governing version. Nothing else disturbs the versions, which is the point.

### ExceptionRules and ExceptionDesk

The engines are operators over one file, with the catalogue's thresholds at their
defaults. Reserves and debts are compared after the rounding to a tenth; at the exact
halves the floating-point values decide, and the operators say how. The credit floor is
an input. `Populate` is the writer (`Clear`, then one
`Insert` a signal) and `Transition` the workflow (`Read`, `Update`, `Log`). Neither opens
a transaction; the one caller of the writer passes a raw connection, and
`transition_status` has no caller outside tests. The caller is assumed to pass
`granted` together with the status. A move to `under_review` is logged as
`deny_exception`; rows of level `insufficient_factors` can be neither granted nor denied;
`approval_routing` passes no actual value, overlay or floor, so those gates never fire;
a rerun of the writer wipes grants; a higher score asks for a more senior approver.

### LoanDesk

A request is `Start` (reads and checks, and which assignments its WHERE means),
`UpdateAssignment` (waits for the locks, tests its WHERE on the rows as they are by then),
`Commit` (entity and conditions) or `Rollback`. The importer writes one assignment row per
loan. `Route` is the other writer of it, the hand-over to the senior of
`POST /loans/{id}/actions` (`api/accord/workbench.py:136-162`): it moves the active
assignment, or inserts a second row where none is active, and leaves the entity alone in
both cases. The entity is updated even when the assignment was not found. The ghosts
`missed` and `routed` record the two: until the first miss, and while there is one
assignment, the rows agree, but for the holder after a hand-over. There is no guard on the
status, so a decided loan can be escalated, parked or advanced again.

### HumanReview

`Ack`, `Decline` and `Override` attach a review and go on in steps: `Capture`,
`FindOpen`, `Resolve`. The page shows the oldest trace, `find_open` answers the oldest
item, so a double submit resolves the items of two runs while one trace was reviewed.
The page offers to approve or decline while an item waits and the trace it shows has no
review (`Offers`, `ui/views.py:1809-1810`); the handlers do not test that. The ghost
`upset` becomes true when the one review that is offered came to nothing: an override, or
a request sent before there was an item, reviewed the shown trace first, or a request
broke off. After that, and for a second item of the decision, nothing on the page resolves
what waits; `QueueDrains` says that it is only so. Overrides never take an item off the
queue, and the docstring of `resolve` ("idempotent") holds of one item, not of the
handler. `persona_send_back` records nothing. The lessons filed by
`api/accord/workbench.py:85-115` name no trace and compare no outcomes; they are not
modelled. That a run writes its trace before its item, and one item at most, is proved in
`DecisionPipeline_proofs`.

## 3. Runs

Each module states its types in `TypeOK` (`BreakerTypeOK`, `IngestTypeOK` and
`RulesTypeOK` where the module has names of its own). They are theorems (section 4), as
is that updates are only announced for what is stored (`UpdatesAreTrue`); the runs are
kept for what could really be wrong. Every safety property in the table is proved too;
the run is its small instance.

| Run | Shows | Bounds, and why they are enough |
|---|---|---|
| `policy` | `AgentCannotLiftHardBlock`; `AllowNeedsPositiveEvidence`; `WorseFindingsNeverRelax`; `PipelineAbstractionIsSound` | the two decisions of `decisions.yaml` with a contamination guard; confidences on both sides of each threshold; every band of each ratio; two of underwriting's upstreams, which the engine treats alike but for fraud; each flag set, unset or absent in the payload; two policy versions |
| `pipeline_one` | `OnlyBlocksBelowTrouble`; `FraudBlockStopsPipeline`; `NobodyIsBypassed`; `ImplementsFlow`; `EveryDecisionSettles` | five decisions on four waves: a fraud stop, a guarded edge, a chain of human and automatic decisions, one decision in shadow mode; every failure |
| `pipeline_two` | `EvidenceBeforeEffect`; `OneEffectPerRun`; `OwnUpstreamVisible`; `FailureCascades` | two overlapping runs over one edge, with decisions inside the critic's scope; two runs are enough for every pairwise interleaving on a record. Runs are symmetric; no liveness is checked here |
| `breaker` | `TripsAreEarned`; `Recovers` | three callers: one trips, one is late, one is the trial; threshold 2, window 3, cooldown 2, so a failure can outlive a cooldown |
| `store` | `OneRecordAtATime`; `CacheNeverAhead`; `HistoryIsStable`; `NothingLostInSequence` | two clients, both backends, a lead and a partial KYC result in either order, four records (each event hydrated twice, or a deletion in between), time 0 to 1 |
| `cron` | `EvaluatedBehindTheGate`; `NoDoubleWrites`; `WaitingRowsAreTheMachines`; `EveryDecisionIsMade` | two sweeps, one reviewer, one upset (lost connection, dead sweep or revert), a human decision and an automatic one gated on it |
| `sqs` | `ProposalsAreBounded`; `IncompleteTriggersAreReported`; `ImplementsTriggers` | a trigger of each kind, two polls with batches of two, two faults: enough for a redelivery during a sweep and a failure after it |
| `rules` | `TidyUnlessDisturbed`; `LookupIsHistory`; `EmergenciesEnd` | two overlapping users (symmetric), three rows, time 0 to 3 with ratification due at once: two emergencies, or a draft and an emergency, and three runs of the jobs, so that an emergency can outlive one and meet another in the next |
| `exceptions` | `GrantsMatchTheFile`; `DecisionsAreLogged`; `WriterIsIdempotent`; `DecisionsSettle` | a manager and an officer, two writers, one signal (signals do not interact), a file of each level, one of which owes it to the rounding, two rows, so one rerun of the writer, one lost connection |
| `desk` | `TablesAgree`; `ClosedByTheHolder`; `ConditionsAdvance` | an underwriter, two seniors, an admin, one blocking condition, three requests: one that reads, one that moves the loan meanwhile (by the workbench too, which may insert a second assignment), one that acts on the result |
| `review` | `OneReceiptPerItem`; `LessonsComeFromOverrides`; `QueueDrains` | two runs, two reviewers: a double submit, a stale item, a first trace without an item, an override before or after the approval |

One run finds a disagreement between the code and what is said of it: `doc_prior`. A
comment says that refusing an emergency reactivates "the prior version"
(`rules.py:767`); the code takes the newest superseded version below it, so of two
emergencies in a row, the refusal of the second revives the first, even if that was
refused too (`rules_cron.py:47` does the same).

Other disagreements seen while modelling; the models do what the code does:

- a `human_approval` decision is written back after its item is queued, not after a
  human signed: `mode_router.py:248` with `README.md:139` and `docs/PRD.md:64`, against
  "nothing is written to the context store yet" (`mode_router.py:169-171`) and
  `docs/PRD.md:304`. `NobodyIsBypassed` asks for what both tell: the human is asked first;
- an allow may rest on the agent's word: `underwriting_decision.py:227-228` puts flags on
  its payload that it computes from the stored upstream records, which need not be of this
  run, `atomic_tool.py:490-493` lays the payload over the context and
  `evaluator.py:637-638` keeps what it finds there. `AllowNeedsPositiveEvidence` says so;
- HALF_OPEN lets every caller through until the first answers, not one trial
  (`circuit_breaker.py:97`, header line 12);
- `snapshot(as_of=t)` drops what was superseded after *t* (`lending.py:246`,
  `replayer.py:68-71`);
- in memory a record counts as active from the time its lineage was stamped, its
  predecessor until the insert (`postgres_store.py:351`, `:438`): two versions are active
  in between, and a late insert changes what a past instant reads;
- on Postgres the second set of a key is refused by the foreign key on
  `superseded_by` (`postgres_store.py:132`, header lines 24-26);
- a retry after a lost answer writes a second version of a decision (`runner.py:276`),
  and overlapping sweeps write one each, against "decisions are idempotent ... no
  double-write" (`docs/ha/HA-A-MULTI-AZ-RDS.md:118-119`). `NoDoubleWrites` leaves both out;
- a message whose body cannot be read is skipped and never reaches the dead letter queue
  (`sqs_consumer.py:133-137`), against `docs/ha/HA-A-MULTI-AZ-RDS.md:122-123` and
  `docs/ha/HA-F-RUNBOOK.md:49-50`; no redrive policy is configured in the repository;
- the workbench's hand-over moves or inserts the assignment and not the entity
  (`workbench.py:136-162`), and inserts the stage `underwriting`, which is none of those in
  `create_workbench_tables.sql:15`;
- an override, or a second item of a decision, leaves items the page no longer offers to
  resolve (`ui/views.py:1810`);
- `return_to_uw` hands the loan to `previous_assignee`, who need not be the one who
  escalated it (`pipeline.py:1200-1205`);
- rule changes are "frozen during active examination" (`rules.py:447`) only where
  they are proposed: a pending draft is approved, a scheduled version activated and an
  emergency reverted all the same;
- an insert into `activity_log` that is called best effort aborts the transaction it
  is in; where it comes last, the handler answers ok although nothing was kept
  (`pipeline.py:1069-1076`, `1090-1097`);
- `cached_agg` may keep an aggregate that was read before a write and stored after
  `invalidate_agg_cache` (`pipeline.py:199-210`), which an override calls before its
  transaction has committed (`pipeline.py:1135`);
- shadow blocks are written (`mode_router.py:195`, `docs/PRD.md:302`); the critic's
  default scope (`critic_agent.py:51`, `docs/PRD.md:340`); queued writebacks publish no
  event (`dag_executor.py:309`, `docs/PRD.md:657`); a block in the store does not
  reach an overlapping run (`dag_executor.py:246`, `mode_router.py:166`); a run started
  later overwrites the time a replay evaluates at (`dag_executor.py:194`);
- a success admitted before the trip closes an OPEN breaker (`circuit_breaker.py:104`);
  a reader may cache a record that was deleted meanwhile (`lending.py:136`); versions
  restart after a delete (`postgres_store.py:355`);
- "dropping failed message" though it is not deleted (`sqs_consumer.py:107`); a
  decision marked stale by a revert is never evaluated again, and one in flight during
  the revert is not marked (`pipeline.py:3031`, `decision_store.py:364`); a dependent
  decision may read a reopened, unreviewed version (`decision_store.py:385`).

`CHECK_DEADLOCK FALSE` appears where the system may stop: the pipeline, whose runs end,
and the rules and exceptions, whose rows and clock are bounded.

### Fairness

- Pipeline: the event loop runs every ready task, and every awaited call answers or
  raises (weak fairness of each task and of the executor). A run need not be requested.
- Breaker: the clock ticks, callers keep coming and a started call ends. Nothing
  is assumed about whether it succeeds unless it began after the dependency recovered.
- Consumer: a poll goes on with what it holds, a hidden message shows again, and polls,
  which recur, do not miss a visible message for ever (strong fairness, because a
  message is hidden again and again). No fairness on producers, faults or reviewers.
- Workbench: somebody approves while the page offers it (strong fairness of `Ack` under
  `Offers`: overrides, which are not owed, may take the offer away for good), and a request
  that does not break off goes on (weak fairness of each handler).
- Store, rules, exceptions and desk need none: their properties are safety. That
  emergencies end is counted in the scheduler's ticks, each of which runs all jobs.
- Batch path: sweeps recur, a reviewer finishes what they opened, and every row
  that can be opened again and again is opened (strong fairness, because opening
  one row keeps the others waiting). Nothing is assumed of what the
  reviewer does; faults and reverts are bounded.

## 4. Proofs

Every safety invariant and every action property of the runs is proved, for all values
of the constants that meet the module's named assumption: the types of the constants,
and the few facts named below. TLC evaluates these assumptions on the instances.
Each module has an inductive invariant, since none of the properties is inductive as it
stands; `RulesInv`, the largest, was also checked by TLC on the `rules` instance.

| Module | Assumption beyond types | Inductive invariant | Theorems |
|---|---|---|---|
| `DecisionPipeline` | none; any graph, runs, modes | `TypeInv`, `WavePosition`, `EvidenceInv`, `FlowInv` | `NoEffectWithoutEvidence`, `RoutesTakeEffect`, `EffectsHappenOnce`, `UpdatesAreTrue`, `FraudStops`, `FailuresCascade`, `TroubleOnlyBlocks`, `OwnUpstreamsShown`, `PipelineImplementsFlow` |
| `PolicyCheck` | the findings of a decision are of the same facts, those over the bundle among them | `CheckInv` | `HardBlocksStand`, `AllowIsEarned`, `PipelineMayAbstract`, `WorseNeverRelaxes` |
| `RuleVersions` | at least one row | `RulesInv` | `RulesTidy`, `RulesLookup`, `RulesEmergencies` |
| `ContextStore` | none | `StoreInv` | `StoreOneRecordAtATime`, `StoreCacheNeverAhead`, `StoreHistoryIsStable` |
| `EventIngest` | an event's fields are fields of its kind | `IngestInv` | the same three of the ingest, `IngestImplementsStore`, `IngestNothingLost` |
| `SqsConsumer` | finitely many polls; batches not empty | `ConsumerInv`, `ProposalInv` | `ProposalBound`, `DeletedWasSwept`, `ConsumerImplementsTriggers` |
| `CircuitBreaker` | threshold and cooldown not zero | `BreakerInv` | `BreakerTrips` |
| `CronRunner` | finitely many sweeps; an order that is not empty | `CronInv` | `CronGate`, `CronWaiting`, `CronNoDoubleWrites` |
| `ExceptionDesk` | finitely many writers and reviewers, none called "nobody" | `ExceptionInv` | `ExceptionGrants`, `ExceptionLog`, `ExceptionWriter`, `ExceptionSettles` |
| `LoanDesk` | the named users exist, `Nobody` is none of them | `DeskInv` | `DeskTablesAgree`, `DeskClosedByTheHolder`, `DeskConditionsAdvance` |
| `HumanReview` | `"none"` is no outcome | `ReviewInv` | `ReviewOneReceipt`, `ReviewLessons` |

Each has its types as a theorem as well (`TypeCorrect`, `CheckTypes`, `RulesTypes`,
`StoreTypes`, `IngestTypes`, `ConsumerInvariant`, `BreakerInvariant`, `CronTypes`,
`ExceptionTypes`, `DeskTypes`, `ReviewTypes`).

### The pipeline

No assumption on the order of the waves is needed: the executor checks the upstreams
when it dispatches. The argument:

1. `TypeInv`: `TypeOK`, that a judged decision has a verdict, and that a run which awaits
   is inside a wave.
2. `WavePosition` ties each decision's stage to the wave its run is at: earlier
   waves are settled, later ones pending. Without it, "after the fraud block"
   has no meaning.
3. `EvidenceInv` (per run and decision): which of trace, audit record, queue item
   and record exist is a function of the stage, and they state the verdict. It
   is needed because the properties look at effects, while the guards look
   at stages. From it: `NoEffectWithoutEvidence`, `RoutesTakeEffect`,
   `EffectsHappenOnce` (item and record are the only ones of their run and decision,
   since its stage is past the only steps that append), `UpdatesAreTrue`.
4. `FlowInv`: what has started had all its upstreams completed, its verdict is
   within what those allow, and the fraud flag is exact. From it: `FraudStops`,
   `FailuresCascade`, `TroubleOnlyBlocks`, `OwnUpstreamsShown`.
5. `PipelineImplementsFlow`: every step maps to a lawful `Settle` or to a stutter.

### One decision's checks

`RulingsByCase` says what an evaluation returns: a hard rule, the guard, the
first clause that fires, or the default. `CheckInv` says that the pre-check was made over
the bundle by some version, and the final ruling by the stamped version over what the
agent left. `HardBlocksStand` follows because hard rules read only what the agent cannot
write; `AllowIsEarned` because only `automate_if` yields `allow`, and it comes after the
clauses that speak against it; `WorseNeverRelaxes` because of the order of the clauses,
of which of them take any rule (`WorseFires`), and because hard rules and guard follow the
upstreams alone (`WorseUpstreams`). `PipelineMayAbstract`
is what lets `DecisionPipeline` take an outcome out of `PossibleOutcomes`.

### Rule versions

The properties hold while `causes` is empty, so `RulesInv` has two parts. `ShapeInv`
holds for good: the rows are well formed, what a transaction read was true and is still
true unless another has committed (`Fresh`), and the jobs hold rows of the kind they
collected. `CalmOK` holds until something disturbs the versions: one row is active, no
number is live twice, periods are closed where a version was replaced, the row an
emergency replaced governed until it at least and has a lower number, every instant is
covered by what was active then, and a lapsed emergency that governed at the last tick is
either in a job's hands or ended by the next period, unless an emergency declared in this
very tick stands in its place (`ReplacedAt`). The properties speak of one row or one instant; the other
parts are needed because a revert looks for the highest superseded number and a
lookup for the highest that covers, and neither says that it is the row meant.
The steps are not taken one by one through each part: `RowMove` (`CalmMove` while
undisturbed) says in which few ways any step changes a row, and each part is shown to
survive those. The hard case is the revival of a version: it reopens only instants
that the emergency, with a higher number, covers, so the lookup of the past does not
change. That a highest version exists (`HighestIs`) comes from the well-foundedness of `<`.

### Store and ingest

`StoreInv`: the records' periods, from insert to end, follow one another without overlap,
a record's stamp is no later than its insert, only the last may be open, and what is
cached or on its way into the cache is a record of the history that says something.
`OneRecordAtATime` and `CacheNeverAhead` are read off it. `HistoryIsStable` is its action
form: a step closes the last period now or appends, and what it appends is found at a past
instant only if it was stamped by then. The answer is the newest of several active
records, so the proof compares newest elements before and after (`ForemostIsUnique`,
`ForemostExtended`, `AnswersAfter`).
`IngestImplementsStore` shows that each step of the ingest is a step of the store or
leaves it alone, so the three hold of the ingest without another proof.
`NothingLostInSequence` needs more: `SequenceOK` says that while requests do not
overlap, the cache follows the history, and the entity shows, per field, what the log
owes it since the last reset; in the middle of a request, what it owed before
the event at hand. The greatest position of a finite set exists by
well-foundedness of strict inclusion (`MaxExists`).

### Consumer and breaker

`ConsumerInv` ties what a poll knows of its message to the queue at each of its steps:
a message that is deleted was a good one, and swept for, if only with an error the sweep
swallowed. With that every step maps to a step of `TriggerQueue` or to a stutter
(`ConsumerImplementsTriggers`, the part without fairness). `ProposalInv` counts:
fresh proposals and polls about to insert one never exceed the polls together, since a
poll only comes to insert when it found none.
`BreakerInv` adds to the types that ages never grow along the list (`OldestFirst`).
Without it the tail that `_prune` keeps would not be the failures in the window, and a trip
would not be earned.

### Batch path

`CronInv`: `ShapeOK` (types and versions without gaps), `GateOK` (every upstream
version a row or a sweep cites has a reviewed or automatic version no newer than it),
`WaitingOK` (until the first review is on the timeline, all rows are the machine's) and
`CountOK` (of a decision no commit of which went unanswered, machine rows and writes on
their way are no more than the sweeps). `CountOK` is why nothing is written twice although
nothing locks the rows: several sweeps may find a decision pending before the first of
them writes it, and none does after.

### Exceptions, desk and review

`ExceptionInv` carries a reviewer's authority from the read to the update (`AuthorityOK`)
and a decision from the update to its log entry (`LogOK`); both would be lost in
between, since the three statements share no transaction. `WritersOK`: while runs of
the writer do not overlap, one is at work, on signals that have no live row yet.
`DeskInv` is `TablesAgree` and what a request holds between its checks and its commit
(`TxnsOK`): the two sets of columns it will write agree but for a hand-over, what it found
are rows of the loan, and who closes is senior and looked for the loan among their own. The
row lock (`LockOK`) is why the entity is written before anybody else moves the row.
`ReviewInv`: the queue holds a run once, and a receipt is there for exactly the runs that
have left it (`QueueOK`); a lesson, also the one a handler carries to `Capture`, says
something else than the trace, which does not change again (`LearningOK`).

### Only model-checked

Liveness: `EveryDecisionSettles`, `Recovers`, `EveryDecisionIsMade`,
`IncompleteTriggersAreReported`, `QueueDrains` and the fairness in `ImplementsTriggers`. Fairness and
`ENABLED` are outside the prover. The mutants and `doc_prior` are counterexamples, which
what TLC is there to find. No module declares a recursive operator. Where a proof needs
induction over data (a greatest element, above), well-foundedness takes its place,
which is a library theorem the provers can use.

## 5. Plan

Modules done, in this order: `PolicyEvaluator`/`PolicyCheck`,
`DecisionFlow`/`DecisionPipeline`, `CircuitBreaker`, `ContextStore`, `CronRunner`,
`TriggerQueue`/`SqsConsumer`, `RuleVersions`, `ExceptionRules`/`ExceptionDesk`,
`LoanDesk`, `EventIngest`, `HumanReview`; version drift in `PolicyCheck`.

Left: which version `active_version` selects for a date, and the replayer with the
store's `snapshot`; the freeze of an examination in `RuleVersions`; attention requests and
notifications at the desk; the portfolio's aggregate cache.

Abstract specifications still worth stating: a versioned register that
`ContextStore` implements when calls do not overlap; "each decision is made behind its
gate" that `CronRunner` implements.

Theorems: of the runs' properties, only those that need fairness, and the violation,
have none. The next ones are the two refinements above, and the
safety of the modules that are left.

## 6. Not modelled

Calculators, resolvers, extraction, catalogue, reports, the pages of the UI,
authentication and scripts, which make up most of the repository's lines: they compute,
move or render data of one request and keep no protocol state. The evidence cache is
not wired into any caller (its header says so). Notifications, attention requests and
activity entries follow the modelled writes and nothing reads them back.
Expressions, prompts, formats and SQL projections are abstracted to what the
control depends on. Floating-point confidences are percentages at and around each threshold.
Several applications and several tenants are left out: no modelled row, queue item
or bundle is shared between them.
