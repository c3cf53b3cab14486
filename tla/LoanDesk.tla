------------------------------ MODULE LoanDesk ------------------------------
(***************************************************************************)
(* The underwriters' desk (api/accord/pipeline.py, and the hand-over to    *)
(* the senior in api/accord/workbench.py): who holds one loan and where it *)
(* stands, kept twice, in loan_assignments and in its entity_states row,   *)
(* with the conditions that gate it (core/conditions/condition_engine.py,  *)
(* api/accord/conditions.py).                                              *)
(*                                                                         *)
(* A request is one READ COMMITTED transaction (core/db/tenant_pool.py).   *)
(* It reads and checks, updates the assignments its WHERE finds, which it  *)
(* then keeps locked, and after them the entity, and commits.  Another     *)
(* request may commit after its reads, and, if no assignment was found,    *)
(* after that too.  Notifications and attention requests are left out.     *)
(***************************************************************************)
EXTENDS Naturals, Sequences

CONSTANTS
    Users,         \* of the tenant
    RoleOf,        \* the role in each one's token
    Senior,        \* the first active senior underwriter by name
    Holder,        \* whom the importer gave the loan to
    Importer,      \* and who imported it
    Nobody,        \* NULL
    Conditions,    \* codes of conditions the personas may raise
    AssigneeOf,    \* who has to bring each in
    BlocksClosing, \* those prior to closing
    MaxRequests    \* bound: requests that touch the two rows

Roles ==
    {"admin", "manager", "processor", "underwriter", "senior_uw", "closer", "compliance", "viewer"}

ASSUME DeskAssumption ==
    /\ RoleOf \in [Users -> Roles]
    /\ {Senior, Holder, Importer} \subseteq Users /\ Nobody \notin Users
    /\ AssigneeOf \in [Conditions -> {"borrower", "title", "lender", "underwriter"}]
    /\ BlocksClosing \subseteq Conditions
    /\ MaxRequests \in Nat

VARIABLES
    asg,      \* the loan_assignments rows of the loan, in order of insertion
    ent,      \* the same facts in the entity_states row
    conds,    \* loan_condition_instances: status by code
    txn,      \* txn[u]: the transaction of u's request
    missed,   \* ghost: an update of the assignment has not found it
    routed,   \* ghost: the workbench was the last to hand the loan over
    requests  \* requests that may still be made

vars == <<asg, ent, conds, txn, missed, routed, requests>>

NoTxn == [at |-> "none"]

Init ==
    /\ asg = <<[to |-> Holder, prev |-> Nobody, by |-> Importer, status |-> "active", stage |-> "verify"]>>
    /\ ent = [to |-> Holder, status |-> "active", stage |-> "verify"]
    /\ conds = [c \in Conditions |-> "none"]
    /\ txn = [u \in Users |-> NoTxn]
    /\ missed = FALSE /\ routed = FALSE
    /\ requests = MaxRequests

-----------------------------------------------------------------------------
(* The columns a request sets in the assignments of the loan, in all       *)
(* ("any"), in those with assigned_to=uid ("mine") or in those with        *)
(* status='active' ("active"), and then in the entity.                     *)
Start(u, where, assignment, entity) ==
    /\ requests > 0 /\ requests' = requests - 1
    /\ txn[u] = NoTxn
    /\ txn' = [txn EXCEPT ![u] = [at |-> "read", where |-> where, found |-> {}, waives |-> FALSE,
                                  assignment |-> assignment, entity |-> entity]]
    /\ UNCHANGED <<asg, ent, conds, missed, routed>>

-----------------------------------------------------------------------------
(* A definition named ..._as_... is a plausible slip in the one it precedes *)
(* and stands for; the properties are shown to tell the two apart.          *)

(* The assignment is moved, the entity is forgotten. *)
Reassign_as_Half(u, v) ==
    /\ RoleOf[u] \in {"admin", "manager"}
    /\ Start(u, "any", [to |-> v], <<>>)

(* reassign *)
Reassign(u, v) ==
    /\ RoleOf[u] \in {"admin", "manager"}
    /\ Start(u, "any", [to |-> v], [to |-> v])

(* What follows is decide, for anybody who may do more than read. *)
MayDecide(u) == RoleOf[u] \notin {"viewer", "compliance"}

(* The override_decision permission of role_permissions *)
CanOverride(u) == RoleOf[u] \in {"senior_uw", "admin"}

(* The loan is looked up by its number, whoever holds it. *)
Close_as_Anyones(u, status) ==
    /\ CanOverride(u)
    /\ Start(u, "any", [status |-> status], [status |-> status])

(* approve and deny, and an override of a decision to either *)
Close(u, status) ==
    /\ CanOverride(u)
    /\ Start(u, "mine", [status |-> status], [status |-> status])

(* An override that waives what blocks the closing *)
Waive(u) ==
    /\ CanOverride(u)
    /\ requests > 0 /\ requests' = requests - 1
    /\ txn[u] = NoTxn
    /\ txn' = [txn EXCEPT ![u] = [at |-> "updated", where |-> "any", found |-> {}, waives |-> TRUE,
                                  assignment |-> <<>>, entity |-> <<>>]]
    /\ UNCHANGED <<asg, ent, conds, missed, routed>>

(* A document taken back after review. *)
MarkReceived_as_Again(u, c) ==
    /\ MayDecide(u)
    /\ conds[c] # "none"
    /\ conds' = [conds EXCEPT ![c] = "submitted"]
    /\ UNCHANGED <<asg, ent, txn, missed, routed, requests>>

(* mark_condition_received; the test is in the UPDATE *)
MarkReceived(u, c) ==
    /\ MayDecide(u)
    /\ conds[c] \notin {"none", "approved", "waived"}
    /\ conds' = [conds EXCEPT ![c] = "submitted"]
    /\ UNCHANGED <<asg, ent, txn, missed, routed, requests>>

(* advance_to_underwriting; nothing sets in_review *)
Advance(u) ==
    /\ MayDecide(u)
    /\ ~ \E c \in Conditions : AssigneeOf[c] \in {"borrower", "title", "lender"} /\ conds[c] = "open"
    /\ Start(u, "any", [stage |-> "underwrite", status |-> "active"], [stage |-> "underwrite"])

(* escalate, whoever holds the loan and whatever its status *)
Escalate(u) ==
    /\ MayDecide(u)
    /\ Start(u, "any", [to |-> Senior, by |-> u, status |-> "active", stage |-> "decide"],
                       [to |-> Senior, stage |-> "decide"])

(* _route_senior_review of the workbench, for an action senior_review or   *)
(* escalate by anybody: it moves the active assignment, not the entity.    *)
Route(u) == Start(u, "active", [to |-> Senior, by |-> u], <<>>)

(* snooze_pending_docs, and request_info of POST /communications *)
Park(u) ==
    Start(u, "mine", [status |-> "pending_borrower"], [status |-> "pending_borrower"])

(* previous_assignee or assigned_by of an assignment that u holds; which   *)
(* of several is the latest is left open.                                  *)
Origins(u) ==
    {IF asg[r].prev # Nobody THEN asg[r].prev ELSE asg[r].by :
        r \in {q \in DOMAIN asg : asg[q].to = u}} \ {Nobody}

(* return_to_uw *)
ReturnToUw(u) ==
    /\ MayDecide(u)
    /\ \E v \in Origins(u) :
          Start(u, "mine", [to |-> v, by |-> u, status |-> "active"], [to |-> v])

(* request_more_info *)
RequestMoreInfo(u) ==
    /\ RoleOf[u] \in {"senior_uw", "admin"}
    /\ \E v \in Origins(u) :
          Start(u, "mine", [to |-> v, by |-> u, status |-> "active", stage |-> "underwrite"],
                           [to |-> v, stage |-> "underwrite"])

(* recommend_approval *)
Recommend(u) ==
    /\ RoleOf[u] \in {"underwriter", "processor"}
    /\ ~ \E c \in BlocksClosing : conds[c] = "open"
    /\ Start(u, "mine", [to |-> Senior, by |-> u, status |-> "pending_decision", stage |-> "decide"],
                      [to |-> Senior, stage |-> "decide"])

(* simulate_response *)
Respond(u) == Start(u, "any", [status |-> "active"], [status |-> "active"])

Request(u) ==
    \/ \E v \in Users : Reassign(u, v)
    \/ \E status \in {"decided", "denied"} : Close(u, status)
    \/ Waive(u) \/ Advance(u) \/ Escalate(u) \/ Route(u) \/ Park(u)
    \/ ReturnToUw(u) \/ RequestMoreInfo(u) \/ Recommend(u) \/ Respond(u)

-----------------------------------------------------------------------------
Locked(r) == \E v \in Users : txn[v].at = "updated" /\ r \in txn[v].found

Matches(u, row) ==
    /\ txn[u].where = "mine" => row.to = u
    /\ txn[u].where = "active" => row.status = "active"

(* UPDATE loan_assignments waits for the locks, then tests its WHERE on    *)
(* the rows as they are by then.                                           *)
UpdateAssignment(u) ==
    /\ txn[u].at = "read"
    /\ LET found == {r \in DOMAIN asg : Matches(u, asg[r])}
       IN  /\ \A r \in found : ~Locked(r)
           /\ txn' = [txn EXCEPT ![u].at = "updated", ![u].found = found]
           /\ missed' = (missed \/ (txn[u].where = "mine" /\ found = {}))
    /\ UNCHANGED <<asg, ent, conds, routed, requests>>

(* UPDATE ... SET columns *)
Updated(row, columns) ==
    [x \in DOMAIN row |-> IF x \in DOMAIN columns THEN columns[x] ELSE row[x]]

(* A hand-over keeps the previous assignee. *)
Assigned(row, columns) ==
    Updated(IF "to" \in DOMAIN columns THEN [row EXCEPT !.prev = row.to] ELSE row, columns)

(* The workbench's hand-over of a loan without an active assignment *)
SecondAssignment(u) ==
    [to |-> Senior, prev |-> Nobody, by |-> u, status |-> "active", stage |-> "underwriting"]

(* WHERE status='open' AND blocks_closing=true *)
Waived ==
    [c \in Conditions |-> IF c \in BlocksClosing /\ conds[c] = "open" THEN "waived" ELSE conds[c]]

(* The entity is updated whether or not an assignment was found, and the   *)
(* request commits; what the workbench inserts is seen from then on.       *)
Commit(u) ==
    LET t == txn[u]
        moved == [r \in DOMAIN asg |-> IF r \in t.found THEN Assigned(asg[r], t.assignment) ELSE asg[r]]
    IN  /\ t.at = "updated"
        /\ asg' = IF t.where = "active" /\ t.found = {} THEN Append(moved, SecondAssignment(u)) ELSE moved
        /\ ent' = Updated(ent, t.entity)
        /\ conds' = IF t.waives THEN Waived ELSE conds
        /\ txn' = [txn EXCEPT ![u] = NoTxn]
        /\ routed' = (t.where = "active" \/ (routed /\ "to" \notin DOMAIN t.assignment))
        /\ UNCHANGED <<missed, requests>>

(* A statement fails or the connection is lost: all is rolled back, also   *)
(* when the statement was a best-effort entry of activity_log.             *)
Rollback(u) ==
    /\ txn[u] # NoTxn
    /\ txn' = [txn EXCEPT ![u] = NoTxn]
    /\ UNCHANGED <<asg, ent, conds, missed, routed, requests>>

-----------------------------------------------------------------------------
(* create_condition: ON CONFLICT DO NOTHING *)
Raise(c) ==
    /\ conds[c] = "none"
    /\ conds' = [conds EXCEPT ![c] = "open"]
    /\ UNCHANGED <<asg, ent, txn, missed, routed, requests>>

(* satisfy_condition and waive_condition look at the id and nothing else *)
Clear(c, status) ==
    /\ conds[c] # "none"
    /\ conds' = [conds EXCEPT ![c] = status]
    /\ UNCHANGED <<asg, ent, txn, missed, routed, requests>>

Condition(c) ==
    \/ Raise(c)
    \/ \E status \in {"approved", "waived"} : Clear(c, status)
    \/ \E u \in Users : MarkReceived(u, c)

Next ==
    \/ \E u \in Users : Request(u) \/ UpdateAssignment(u) \/ Commit(u) \/ Rollback(u)
    \/ \E c \in Conditions : Condition(c)

Spec == Init /\ [][Next]_vars

-----------------------------------------------------------------------------
Statuses == {"active", "pending_borrower", "pending_decision", "decided", "denied"}

Stages == {"verify", "underwrite", "decide", "underwriting"}

(* Type invariant of the desk. *)
TypeOK ==
    /\ asg \in Seq([to : Users, prev : Users \cup {Nobody}, by : Users, status : Statuses, stage : Stages])
    /\ Len(asg) >= 1
    /\ ent \in [to : Users, status : Statuses \ {"pending_decision"}, stage : Stages]
    /\ conds \in [Conditions -> {"none", "open", "submitted", "approved", "waived"}]
    /\ \A u \in Users : txn[u].at \in {"none", "read", "updated"}
    /\ missed \in BOOLEAN /\ routed \in BOOLEAN /\ requests \in 0..MaxRequests

(* As long as a loan has one assignment and every update of it has found   *)
(* it, however requests overlap, the assignment and the entity tell the    *)
(* same stage, a loan finished in the assignment is finished alike in the  *)
(* entity, and both name the same holder, unless it was the workbench that *)
(* handed the loan over last: it leaves the entity alone, and it inserts a *)
(* second assignment where none is active.                                 *)
TablesAgree ==
    ~missed /\ Len(asg) = 1 =>
        /\ routed \/ asg[1].to = ent.to
        /\ asg[1].stage = ent.stage
        /\ asg[1].status \in {"decided", "denied"} => ent.status = asg[1].status

(* An assignment is only closed by whoever holds it at that moment, not by *)
(* one who held it when the request came, and never by a role that cannot  *)
(* override, also where the loan has several assignments.                  *)
ClosedByTheHolder ==
    [][\A r \in DOMAIN asg :
          asg'[r].status \in {"decided", "denied"} \ {asg[r].status} =>
              \E u \in Users : txn[u] # NoTxn /\ txn'[u] = NoTxn /\ asg[r].to = u /\ CanOverride(u)]_vars

Rank == [none |-> 0, open |-> 1, submitted |-> 2, approved |-> 3, waived |-> 3]

(* A condition never goes back, whichever of the engine, the conditions    *)
(* API, a received document and an override's waiver writes it last.       *)
ConditionsAdvance ==
    [][\A c \in Conditions : Rank[conds[c]] <= Rank[conds'[c]]]_vars

=============================================================================
