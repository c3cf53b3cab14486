---------------------------- MODULE RuleVersions ----------------------------
(***************************************************************************)
(* api/accord/rules.py and scripts/rules_cron.py: the versions of one      *)
(* tenant's overlay rules, as drafted, approved, scheduled, shadowed,      *)
(* rolled back and overridden in an emergency.                             *)
(*                                                                         *)
(* A handler is one READ COMMITTED transaction: what it read when it began *)
(* may be outdated when it commits, an UPDATE or DELETE still tests its    *)
(* WHERE on the rows it found, and no constraint keeps versions apart.     *)
(* The scheduled jobs read what is due and then treat each row in a        *)
(* transaction of its own.  What the rules say is left out.                *)
(***************************************************************************)
EXTENDS Integers, Sequences, FiniteSets

CONSTANTS
    Users,          \* handlers that may overlap
    MaxRows,        \* bound: rows ever inserted, the initial one included
    MaxTime,        \* bound: the clock stops there
    RatifyWithin,   \* 24 hours
    ShadowFor       \* shadow_duration_days

ASSUME RulesAssumption ==
    /\ MaxRows \in Nat \ {0} /\ MaxTime \in Nat
    /\ RatifyWithin \in Nat /\ ShadowFor \in Nat

VARIABLES
    rows,       \* tenant_rules in order of insertion; a deleted row keeps its place
    txn,        \* txn[u]: the transaction of u and what it has read
    job,        \* the job that comes next and the rows the one before has left
    now,        \* the clock
    governed,   \* governed[t]: the active rows when tick t ended
    causes      \* ghost: what may have untidied the rows (see Tidy)

rulevars == <<rows, txn, job, now, governed, causes>>

Never == -1
Statuses == {"pending_approval", "scheduled", "shadow", "active", "superseded", "deleted"}
Changes == {"draft", "scheduled", "shadow", "emergency"}
Jobs == <<"scheduled", "emergency", "expiration">>

(* change_type matters only where it is an emergency. *)
Row(version, status) ==
    [version |-> version, status |-> status, emergency |-> FALSE, from |-> Never, to |-> Never,
     due |-> Never, expires |-> Never, created |-> Never, ratified |-> FALSE, replaced |-> 0]

NoTxn == [op |-> "none"]
NoJob == [next |-> 1, todo |-> {}]

With(status) == {r \in DOMAIN rows : rows[r].status = status}
Live == {r \in DOMAIN rows : rows[r].status # "deleted"}

(* _active_version, and every other ORDER BY version DESC LIMIT 1 *)
Highest(S) == CHOOSE r \in S : \A q \in S : rows[q].version <= rows[r].version
HighestOf(S) == IF S = {} THEN 0 ELSE Highest(S)

(* _next_version *)
NextVersion == IF Live = {} THEN 1 ELSE rows[Highest(Live)].version + 1

RulesInit ==
    /\ now = 0
    /\ rows = <<[Row(1, "active") EXCEPT !.from = 0]>>
    /\ txn = [u \in Users |-> NoTxn]
    /\ job = NoJob
    /\ governed = [t \in 0..MaxTime |-> {}]
    /\ causes = {}

-----------------------------------------------------------------------------
(* A definition named ..._as_... is a plausible slip in the one it precedes *)
(* and stands for; the properties are shown to tell the two apart.          *)

(* The rows of ids that match are given what an UPDATE sets. *)
Set(rs, ids, change(_)) == [r \in DOMAIN rs |-> IF r \in ids THEN change(rs[r]) ELSE rs[r]]

Superseded(row) == [row EXCEPT !.status = "superseded", !.to = now]

Activated(row) == [row EXCEPT !.status = "active", !.from = now]

(* The old period is not reopened. *)
Reactivated_as_Closed(row) == [row EXCEPT !.status = "active"]

Reactivated(row) == [row EXCEPT !.status = "active", !.to = Never]

(* A WHERE on the status, tested again on the rows the statement had found. *)
Still(ids, status) == {r \in ids : rows[r].status = status}

(* What a transaction has read when it begins: the rows its first UPDATE or *)
(* DELETE will find, the row it is about and the number for a new one.      *)
Begin(u, op, found, target, version) ==
    /\ txn[u] = NoTxn
    /\ txn' = [txn EXCEPT ![u] = [op |-> op, found |-> found, target |-> target,
                                 version |-> version, overtaken |-> FALSE]]
    /\ UNCHANGED <<rows, job, now, governed, causes>>

(* The transaction of u ends; the others run on with what they have read. *)
End(u) ==
    txn' = [v \in Users |-> IF v = u \/ txn[v] = NoTxn THEN NoTxn
                            ELSE [txn[v] EXCEPT !.overtaken = TRUE]]

Overtake == txn' = [v \in Users |-> IF txn[v] = NoTxn THEN NoTxn
                                    ELSE [txn[v] EXCEPT !.overtaken = TRUE]]

Caused(u, more) == causes' = causes \cup more \cup (IF txn[u].overtaken THEN {"overlap"} ELSE {})

Room == Len(rows) < MaxRows

-----------------------------------------------------------------------------
(* What a new row of each type takes the place of. *)
Found(op) ==
    CASE op = "draft"     -> With("pending_approval")
      [] op = "shadow"    -> With("shadow")
      [] op = "emergency" -> {HighestOf(With("active"))} \ {0}
      [] OTHER            -> {}

(* update_rules, rollback, schedule, shadow, emergency: only a shadow needs *)
(* an active version.  What an examination or validate_overlay refuses     *)
(* never begins.                                                           *)
Propose(u, op) ==
    /\ op = "shadow" => With("active") # {}
    /\ Room
    /\ Begin(u, op, Found(op), 0, NextVersion)

(* update_rules, rollback: a new draft in place of any other.  A draft that *)
(* was activated meanwhile no longer matches the DELETE.                    *)
Draft(u) ==
    /\ txn[u].op = "draft"
    /\ Room
    /\ rows' = Append(Set(rows, Still(txn[u].found, "pending_approval"),
                          LAMBDA row : [row EXCEPT !.status = "deleted"]),
                      Row(txn[u].version, "pending_approval"))
    /\ End(u) /\ Caused(u, {})
    /\ UNCHANGED <<job, now, governed>>

(* schedule *)
Schedule(u) ==
    /\ txn[u].op = "scheduled"
    /\ Room
    /\ \E due \in now..MaxTime :
          rows' = Append(rows, [Row(txn[u].version, "scheduled") EXCEPT !.due = due])
    /\ End(u) /\ Caused(u, {})
    /\ UNCHANGED <<job, now, governed>>

(* shadow: one at a time *)
Shadow(u) ==
    /\ txn[u].op = "shadow"
    /\ Room
    /\ rows' = Append(Set(rows, Still(txn[u].found, "shadow"),
                          LAMBDA row : [row EXCEPT !.status = "superseded"]),
                      [Row(txn[u].version, "shadow") EXCEPT !.expires = now + ShadowFor])
    /\ End(u) /\ Caused(u, {})
    /\ UNCHANGED <<job, now, governed>>

(* emergency: supersedes the one version it read as active *)
Emergency(u) ==
    /\ txn[u].op = "emergency"
    /\ Room
    /\ rows' = Append(Set(rows, txn[u].found, Superseded),
                      [Row(txn[u].version, "active") EXCEPT
                          !.emergency = TRUE, !.from = now, !.created = now, !.replaced = HighestOf(txn[u].found)])
    /\ End(u) /\ Caused(u, {})
    /\ UNCHANGED <<job, now, governed>>

(* approve_rules reads the draft *)
Review(u) ==
    /\ With("pending_approval") # {}
    /\ Begin(u, "approve", With("active"), Highest(With("pending_approval")), 0)

(* The version in force is not superseded. *)
Approve_as_Beside(u) ==
    /\ txn[u].op = "approve"
    /\ rows' = Set(rows, {txn[u].target} \cap Live, Activated)
    /\ End(u) /\ Caused(u, {})
    /\ UNCHANGED <<job, now, governed>>

(* approve_rules commits; the draft may be gone. *)
Approve(u) ==
    /\ txn[u].op = "approve"
    /\ rows' = Set(Set(rows, Still(txn[u].found, "active"), Superseded),
                   {txn[u].target} \cap Live, Activated)
    /\ End(u) /\ Caused(u, {})
    /\ UNCHANGED <<job, now, governed>>

(* ratify: any emergency version, whatever has become of it *)
Judge(u) == \E r \in Live : rows[r].emergency /\ Begin(u, "ratify", {}, r, 0)

Ratify(u) ==
    /\ txn[u].op = "ratify"
    /\ rows' = [rows EXCEPT ![txn[u].target].ratified = TRUE]
    /\ End(u)
    /\ UNCHANGED <<job, now, governed, causes>>

(* The newest superseded version below r, governing or not. *)
Prior(r) == HighestOf({q \in With("superseded") : rows[q].version < rows[r].version})

(* Ghost: what reverting r may untidy, if it is not in force or if not the *)
(* version it replaced is the one revived.                                 *)
RevertCauses(r) ==
    (IF rows[r].status # "active" THEN {"late revert"} ELSE {}) \cup
    (IF Prior(r) # rows[r].replaced THEN {"other prior"} ELSE {})

Reverted(r) == Set(Set(rows, {r}, Superseded), {Prior(r)} \ {0}, Reactivated)

(* ratify with ratified = false *)
Refuse(u) ==
    /\ txn[u].op = "ratify"
    /\ rows' = Reverted(txn[u].target)
    /\ End(u) /\ Caused(u, RevertCauses(txn[u].target))
    /\ UNCHANGED <<job, now, governed>>

-----------------------------------------------------------------------------
(* The jobs of rules_cron.py: what they find due.                          *)
Unratified(r) ==
    rows[r].emergency /\ rows[r].status = "active" /\ ~rows[r].ratified

(* Only the newest version is looked at. *)
Due_as_Newest(name) ==
    {r \in DOMAIN rows :
        CASE name = "scheduled"  -> rows[r].status = "scheduled" /\ rows[r].due <= now
          [] name = "emergency"  -> /\ Unratified(r) /\ rows[r].created + RatifyWithin < now
                                    /\ r = Highest(Live)
          [] name = "expiration" -> /\ rows[r].status \in {"active", "shadow"}
                                    /\ rows[r].expires # Never /\ rows[r].expires <= now}

Due(name) ==
    {r \in DOMAIN rows :
        CASE name = "scheduled"  -> rows[r].status = "scheduled" /\ rows[r].due <= now
          [] name = "emergency"  -> Unratified(r) /\ rows[r].created + RatifyWithin < now
          [] name = "expiration" -> /\ rows[r].status \in {"active", "shadow"}
                                    /\ rows[r].expires # Never /\ rows[r].expires <= now}

(* main: the jobs in turn *)
Collect ==
    /\ job.todo = {} /\ job.next \in DOMAIN Jobs
    /\ job' = [next |-> job.next + 1, todo |-> Due(Jobs[job.next])]
    /\ UNCHANGED <<rows, txn, now, governed, causes>>

Treats(name, r) == r \in job.todo /\ Jobs[job.next - 1] = name

Done(r) == job' = [job EXCEPT !.todo = @ \ {r}]

(* activate_scheduled *)
ActivateScheduled(r) ==
    /\ Treats("scheduled", r)
    /\ rows' = Set(Set(rows, With("active"), Superseded), {r}, Activated)
    /\ Done(r) /\ Overtake
    /\ UNCHANGED <<now, governed, causes>>

(* revert_unratified_emergencies: the row is not looked at again *)
RevertUnratified(r) ==
    /\ Treats("emergency", r)
    /\ rows' = Reverted(r)
    /\ causes' = causes \cup RevertCauses(r)
    /\ Done(r) /\ Overtake
    /\ UNCHANGED <<now, governed>>

(* expire_rules; complete_shadows does to the shadows what it leaves.      *)
Expire(r) ==
    /\ Treats("expiration", r)
    /\ rows' = Set(rows, {r}, Superseded)
    /\ causes' = causes \cup (IF rows[r].status = "active" THEN {"expiry"} ELSE {})
    /\ Done(r) /\ Overtake
    /\ UNCHANGED <<now, governed>>

(* A tick is a period of the scheduler: rules_cron runs once. *)
Tick ==
    /\ now < MaxTime
    /\ job.todo = {} /\ job.next > Len(Jobs)
    /\ job' = NoJob
    /\ now' = now + 1
    /\ governed' = [governed EXCEPT ![now] = With("active")]
    /\ UNCHANGED <<rows, txn, causes>>

-----------------------------------------------------------------------------
Commit(u) ==
    \/ Draft(u) \/ Schedule(u) \/ Shadow(u) \/ Emergency(u)
    \/ Approve(u) \/ Ratify(u) \/ Refuse(u)

(* A transaction that finds no room is given up: a bound, not the code. *)
Abandon(u) ==
    /\ txn[u] # NoTxn /\ ~Room
    /\ txn' = [txn EXCEPT ![u] = NoTxn]
    /\ UNCHANGED <<rows, job, now, governed, causes>>

Step(r) == ActivateScheduled(r) \/ RevertUnratified(r) \/ Expire(r)

RulesNext ==
    \/ \E u \in Users : \/ \E op \in Changes : Propose(u, op)
                        \/ Review(u) \/ Judge(u) \/ Commit(u) \/ Abandon(u)
    \/ Collect \/ Tick
    \/ \E r \in 1..MaxRows : Step(r)

RulesSpec == RulesInit /\ [][RulesNext]_rulevars

-----------------------------------------------------------------------------
(* Type invariant of the versions. *)
RulesTypeOK ==
    /\ Len(rows) \in 1..MaxRows
    /\ \A r \in DOMAIN rows :
          /\ rows[r].version \in 1..MaxRows
          /\ rows[r].status \in Statuses
          /\ rows[r].from \in {Never} \cup 0..MaxTime /\ rows[r].to \in {Never} \cup 0..MaxTime
    /\ DOMAIN txn = Users
    /\ job.next \in 1..Len(Jobs) + 1 /\ job.todo \subseteq DOMAIN rows
    /\ now \in 0..MaxTime
    /\ causes \subseteq {"overlap", "late revert", "other prior", "expiry"}

(* What the handlers take for granted. *)
Tidy ==
    /\ Cardinality(With("active")) = 1
    /\ Cardinality(With("pending_approval")) <= 1
    /\ Cardinality(With("shadow")) <= 1
    /\ \A r, q \in Live : rows[r].version = rows[q].version => r = q

(* One version governs, one draft and one shadow wait and a version number *)
(* names one row, unless a handler committed over another's commit, an     *)
(* emergency was reverted when it no longer governed or when another than  *)
(* the version before it was the newest superseded, or a governing version *)
(* expired.  Nothing else disturbs it, in whatever order drafts, schedules *)
(* and emergencies come.                                                   *)
TidyUnlessDisturbed == causes = {} => Tidy

(* lookup(date): the newest version whose period holds the date *)
Lookup(t) ==
    HighestOf({r \in With("active") \cup With("superseded") :
                  rows[r].from # Never /\ rows[r].from <= t
                  /\ (rows[r].to = Never \/ rows[r].to > t)})

(* The examiner's lookup answers, for every tick that is past, the version *)
(* that governed when it ended, although reverts reopen old periods, again *)
(* unless something disturbed the versions.                                *)
LookupIsHistory == causes = {} => \A t \in 0..now - 1 : governed[t] = {Lookup(t)}

(* An emergency that nobody has ratified within its 24 hours is gone after *)
(* the next run of the scheduler, however often later emergencies took its *)
(* place before: it does not govern at the end of two ticks in a row,      *)
(* unless an emergency declared in the second of them stood in its place   *)
(* when the jobs looked and was refused in that same tick.                 *)
EmergenciesEnd ==
    causes = {} =>
        \A t \in 0..now - 2 : \A r \in governed[t] \cap governed[t + 1] :
            rows[r].emergency =>
                \/ rows[r].ratified
                \/ rows[r].created + RatifyWithin > t
                \/ \E q \in DOMAIN rows :
                      rows[q].emergency /\ rows[q].replaced = r /\ rows[q].created = t + 1

-----------------------------------------------------------------------------
(* What a comment says and the code does not do. *)

(* "revert: supersede emergency, reactivate the prior version" (rules.py,  *)
(* ratify): of an emergency in force that is refused undisturbed, the      *)
(* version it replaced governs again.                                      *)
RevertRestoresPrior ==
    [][\A u \in Users :
          Refuse(u) /\ causes = {} /\ ~txn[u].overtaken /\ rows[txn[u].target].status = "active"
              => rows'[rows[txn[u].target].replaced].status = "active"]_rulevars
=============================================================================
