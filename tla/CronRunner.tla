----------------------------- MODULE CronRunner -----------------------------
(***************************************************************************)
(* The batch path: PersonaRunner sweeps (core/cron/runner.py) over the     *)
(* versioned rows of decision_outputs (core/decision_store.py), while      *)
(* reviewers approve, override and revert the same rows                    *)
(* (api/accord/pipeline.py).  Two sweeps overlap when one outlives the     *)
(* interval of the schedule or a redelivered message starts another.       *)
(*                                                                         *)
(* One application: applications share no row.  A transaction is one step  *)
(* where it commits; a SELECT that a later statement relies on is a step   *)
(* of its own (READ COMMITTED, no row lock).  The unique index on          *)
(* (application_id, decision_id, version, tenant_id) belongs to the        *)
(* deployed schema.                                                        *)
(***************************************************************************)
EXTENDS Integers, Sequences, FiniteSets

CONSTANTS
    Runners,      \* overlapping sweeps
    Reviewers,    \* people acting through the API
    Order,        \* the decisions, wave by wave
    Upstream,     \* [decision -> the decisions it is gated on]
    Automatic,    \* decisions with mode auto_execute
    Outcomes,     \* [decision -> the outcomes told apart]
    None,
    MaxUpsets     \* bound on lost connections, dead sweeps and reverts

Decisions == {Order[i] : i \in DOMAIN Order}

ASSUME CronAssumption ==
    /\ Order \in Seq(Decisions) /\ Order # <<>>
    /\ IsFiniteSet(Runners)
    /\ Upstream \in [Decisions -> SUBSET Decisions]
    /\ Automatic \subseteq Decisions
    /\ DOMAIN Outcomes = Decisions
    /\ \A d \in Decisions : None \notin Outcomes[d]
    /\ MaxUpsets \in Nat

VARIABLES
    rows,      \* decision_outputs; a row's version is its place
    reviewed,  \* decision_timeline: from_state of the first human action
    proposed,  \* decision_timeline: every to_state of trigger cron_eval
    sweep,     \* what each runner is doing
    desk,      \* the row each reviewer's transaction has selected
    faults, reverts,
    lost       \* the decisions of which a commit was not answered (a ghost)

vars == <<rows, reviewed, proposed, sweep, desk, faults, reverts, lost>>

Visit(d) ==
    [at |-> d, step |-> "poll", try |-> 1, cites |-> <<>>, outcome |-> None,
     version |-> 0]

NoRow == [decision |-> None, version |-> 0, outcome |-> None]

Init ==
    /\ rows = [d \in Decisions |-> <<>>]
    /\ reviewed = [d \in Decisions |-> None]
    /\ proposed = [d \in Decisions |-> {}]
    /\ sweep = [r \in Runners |-> Visit(1)]
    /\ desk = [h \in Reviewers |-> NoRow]
    /\ faults = 0
    /\ reverts = 0
    /\ lost = {}

-----------------------------------------------------------------------------
(* A definition named ..._as_... is a plausible slip in the one it precedes *)
(* and stands for; the properties are shown to tell the two apart.          *)

Latest(d) == Len(rows[d])

(* The human-approval gate: a machine decided, or a reviewer has acted. *)
Final(d, v) == d \in Automatic \/ rows[d][v].acted

(* Waits for rows, not for reviews. *)
Pending_as_Proposed(d) ==
    /\ rows[d] = <<>>
    /\ \A u \in Upstream[d] : rows[u] # <<>>

(* COUNT(decision_id) for COUNT(DISTINCT decision_id). *)
Pending_as_Rows(d) ==
    /\ rows[d] = <<>>
    /\ Cardinality(UNION {{<<u, v>> : v \in {w \in DOMAIN rows[u] : Final(u, w)}} :
                              u \in Upstream[d]}) = Cardinality(Upstream[d])

(* Drops NOT IN (SELECT ...). *)
Pending_as_Again(d) ==
    \A u \in Upstream[d] : \E v \in DOMAIN rows[u] : Final(u, v)

(* get_pending *)
Pending(d) ==
    /\ rows[d] = <<>>
    /\ \A u \in Upstream[d] : \E v \in DOMAIN rows[u] : Final(u, v)

(* _downstream *)
Downstream(d) ==
    LET Closure[n \in 0 .. Len(Order)] ==
            IF n = 0 THEN {e \in Decisions : d \in Upstream[e]}
            ELSE Closure[n - 1] \cup
                 {e \in Decisions : Upstream[e] \cap Closure[n - 1] # {}}
    IN  Closure[Len(Order)]

(* The for loops of run_all_waves; the next sweep starts over. *)
After(i) == Visit(IF i < Len(Order) THEN i + 1 ELSE 1)

-----------------------------------------------------------------------------
(* One sweep. *)

At(r, step) == sweep[r].step = step

Doing(r) == Order[sweep[r].at]

(* run_persona: the application is on the list, or the decision has nothing *)
(* to do.                                                                   *)
Poll(r) ==
    /\ At(r, "poll")
    /\ sweep' = [sweep EXCEPT ![r] =
                    IF Pending(Doing(r)) THEN [@ EXCEPT !.step = "evaluate"]
                                         ELSE After(@.at)]
    /\ UNCHANGED <<rows, reviewed, proposed, desk, faults, reverts, lost>>

(* get_upstream reads the newest version of each upstream; the persona and  *)
(* the policy evaluator settle on some outcome without touching the tables. *)
Evaluate(r) ==
    /\ At(r, "evaluate")
    /\ \E o \in Outcomes[Doing(r)] :
           sweep' = [sweep EXCEPT
                        ![r].step = "write",
                        ![r].cites = [u \in Upstream[Doing(r)] |-> Latest(u)],
                        ![r].outcome = o]
    /\ UNCHANGED <<rows, reviewed, proposed, desk, faults, reverts, lost>>

(* write_decision, to its SELECT MAX(version) *)
BeginWrite(r) ==
    /\ At(r, "write")
    /\ sweep' = [sweep EXCEPT ![r].step = "insert",
                              ![r].version = Latest(Doing(r)) + 1]
    /\ UNCHANGED <<rows, reviewed, proposed, desk, faults, reverts, lost>>

Insert(r) ==
    LET d == Doing(r)
    IN  /\ Latest(d) < sweep[r].version
        /\ rows' = [rows EXCEPT ![d] =
                        Append(@, [by |-> "runner",
                                   outcome |-> sweep[r].outcome,
                                   acted |-> d \in Automatic,
                                   cites |-> sweep[r].cites,
                                   stale |-> FALSE])]
        /\ proposed' = [proposed EXCEPT ![d] = @ \cup {sweep[r].outcome}]

(* write_decision commits and _process_one returns. *)
Commit(r) ==
    /\ At(r, "insert")
    /\ Insert(r)
    /\ sweep' = [sweep EXCEPT ![r] = After(@.at)]
    /\ UNCHANGED <<reviewed, desk, faults, reverts, lost>>

(* The version is taken: no connection error, so logged and left. *)
UniqueViolation(r) ==
    /\ At(r, "insert")
    /\ Latest(Doing(r)) >= sweep[r].version
    /\ sweep' = [sweep EXCEPT ![r] = After(@.at)]
    /\ UNCHANGED <<rows, reviewed, proposed, desk, faults, reverts, lost>>

(* The except branch of run_persona: reset the pools, try once more. *)
Retry(r) ==
    sweep' = [sweep EXCEPT ![r] =
                 IF @.try = 1
                 THEN [Visit(@.at) EXCEPT !.step = "evaluate", !.try = 2]
                 ELSE After(@.at)]

(* The connection is lost before the commit: nothing was written. *)
ConnectionLost(r) ==
    /\ sweep[r].step # "poll"
    /\ faults + reverts < MaxUpsets
    /\ faults' = faults + 1
    /\ Retry(r)
    /\ UNCHANGED <<rows, reviewed, proposed, desk, reverts, lost>>

(* It is lost after the commit, before the answer. *)
AnswerLost(r) ==
    /\ At(r, "insert")
    /\ faults + reverts < MaxUpsets
    /\ faults' = faults + 1
    /\ Insert(r)
    /\ Retry(r)
    /\ lost' = lost \cup {Doing(r)}
    /\ UNCHANGED <<reviewed, desk, reverts>>

(* The process dies, or get_pending raises: the sweep is over, the schedule *)
(* starts another.                                                          *)
Abort(r) ==
    /\ faults + reverts < MaxUpsets
    /\ faults' = faults + 1
    /\ sweep' = [sweep EXCEPT ![r] = Visit(1)]
    /\ UNCHANGED <<rows, reviewed, proposed, desk, reverts, lost>>

-----------------------------------------------------------------------------
(* One review. *)

(* _latest_decision *)
Select(h, d) ==
    /\ desk[h] = NoRow
    /\ rows[d] # <<>>
    /\ desk' = [desk EXCEPT ![h] =
                   [decision |-> d, version |-> Latest(d),
                    outcome |-> rows[d][Latest(d)].outcome]]
    /\ UNCHANGED <<rows, reviewed, proposed, sweep, faults, reverts, lost>>

(* ORDER BY transition_at DESC. *)
Log_as_Newest(h) ==
    reviewed' = [reviewed EXCEPT ![desk[h].decision] = desk[h].outcome]

(* The timeline row of an approval or an override; the revert reads the     *)
(* oldest.                                                                  *)
Log(h) ==
    reviewed' = [reviewed EXCEPT ![desk[h].decision] =
                    IF @ = None THEN desk[h].outcome ELSE @]

Approve(h) ==
    /\ desk[h] # NoRow
    /\ rows' = [rows EXCEPT ![desk[h].decision][desk[h].version].acted = TRUE]
    /\ Log(h)
    /\ desk' = [desk EXCEPT ![h] = NoRow]
    /\ UNCHANGED <<proposed, sweep, faults, reverts, lost>>

Override(h) ==
    /\ desk[h] # NoRow
    /\ \E o \in Outcomes[desk[h].decision] :
           rows' = [rows EXCEPT ![desk[h].decision][desk[h].version] =
                       [@ EXCEPT !.acted = TRUE, !.outcome = o]]
    /\ Log(h)
    /\ desk' = [desk EXCEPT ![h] = NoRow]
    /\ UNCHANGED <<proposed, sweep, faults, reverts, lost>>

(* The row copied forward with the machine's outcome, not yet acted on. *)
Reopened(h) ==
    LET d == desk[h].decision
    IN  [rows[d][desk[h].version] EXCEPT
            !.by = "revert", !.acted = FALSE, !.stale = FALSE,
            !.outcome = IF reviewed[d] = None THEN desk[h].outcome ELSE reviewed[d]]

(* A fresh version with the machine's outcome, and every newest row         *)
(* downstream marked stale; if the version is taken, nothing (500).         *)
Revert(h) ==
    LET d == desk[h].decision
        v == desk[h].version
    IN  /\ desk[h] # NoRow
        /\ faults + reverts < MaxUpsets
        /\ IF Latest(d) = v
           THEN rows' = [e \in Decisions |->
                            IF e = d THEN Append(rows[d], Reopened(h))
                            ELSE IF e \in Downstream(d) /\ rows[e] # <<>>
                                 THEN [rows[e] EXCEPT ![Latest(e)].stale = TRUE]
                                 ELSE rows[e]]
           ELSE UNCHANGED rows
        /\ reverts' = reverts + 1
        /\ desk' = [desk EXCEPT ![h] = NoRow]
        /\ UNCHANGED <<reviewed, proposed, sweep, faults, lost>>

-----------------------------------------------------------------------------
Sweep(r) == Poll(r) \/ Evaluate(r) \/ BeginWrite(r) \/ Commit(r) \/ UniqueViolation(r)

Fault(r) == ConnectionLost(r) \/ AnswerLost(r) \/ Abort(r)

Act(h) == Approve(h) \/ Override(h) \/ Revert(h)

Next ==
    \/ \E r \in Runners : Sweep(r) \/ Fault(r)
    \/ \E h \in Reviewers : Act(h) \/ \E d \in Decisions : Select(h, d)

Spec == Init /\ [][Next]_vars

(* Sweeps go on, and reviewers finish what they open and open, again and    *)
(* again, whatever waits for them.                                          *)
FairSpec ==
    /\ Spec
    /\ \A r \in Runners : WF_vars(Sweep(r))
    /\ \A h \in Reviewers : WF_vars(Act(h))
    /\ \A h \in Reviewers, d \in Decisions : SF_vars(Select(h, d))

-----------------------------------------------------------------------------
Row(d) ==
    [by : {"runner", "revert"}, outcome : Outcomes[d], acted : BOOLEAN,
     cites : [Upstream[d] -> Nat], stale : BOOLEAN]

TypeOK ==
    /\ \A d \in Decisions : rows[d] \in Seq(Row(d))
    /\ \A d \in Decisions : reviewed[d] \in Outcomes[d] \cup {None}
    /\ \A d \in Decisions : proposed[d] \subseteq Outcomes[d]
    /\ \A r \in Runners :
          /\ sweep[r].at \in DOMAIN Order
          /\ sweep[r].step \in {"poll", "evaluate", "write", "insert"}
          /\ sweep[r].try \in {1, 2}
          /\ sweep[r].outcome \in Outcomes[Doing(r)] \cup {None}
          /\ sweep[r].version \in Nat
    /\ \A h \in Reviewers :
          desk[h] # NoRow => /\ desk[h].decision \in Decisions
                            /\ desk[h].version \in DOMAIN rows[desk[h].decision]
    /\ faults \in Nat /\ reverts \in Nat /\ faults + reverts <= MaxUpsets
    /\ lost \subseteq Decisions

MachineRows(d) == {v \in DOMAIN rows[d] : rows[d][v].by = "runner"}

(* The gate of get_pending holds through everything that happens between   *)
(* the poll and the insert: behind every upstream version a decision was   *)
(* computed from, or one of its predecessors, stands a reviewer or an      *)
(* automatic approval.                                                     *)
EvaluatedBehindTheGate ==
    \A d \in Decisions : \A v \in DOMAIN rows[d] : \A u \in Upstream[d] :
        \E w \in 1 .. rows[d][v].cites[u] : Final(u, w)

(* Statements that abort, retries, dead sweeps and later passes write      *)
(* nothing twice: there are no more machine rows of a decision than sweeps *)
(* that can be under way at once.  Not so after a commit whose answer was  *)
(* lost, which the retry repeats.                                          *)
NoDoubleWrites ==
    \A d \in Decisions \ lost : Cardinality(MachineRows(d)) <= Cardinality(Runners)

(* However approvals, overrides, duplicate evaluations and reverts follow  *)
(* each other, what waits for a review carries an outcome the machine      *)
(* proposed and never one a reviewer imposed before a revert.              *)
WaitingRowsAreTheMachines ==
    \A d \in Decisions : \A v \in DOMAIN rows[d] :
        ~rows[d][v].acted => rows[d][v].outcome \in proposed[d]

(* Lost connections, dead sweeps, taken versions and reverts only delay:   *)
(* every decision of the application is made.                              *)
EveryDecisionIsMade == \A d \in Decisions : <>(rows[d] # <<>>)

=============================================================================
