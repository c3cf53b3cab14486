---------------------------- MODULE LoanDesk_proofs ----------------------------
(***************************************************************************)
(* Proofs about the underwriters' desk: the assignment and the entity      *)
(* agree while there is one assignment and every update of it finds it,    *)
(* only the holder closes a loan, and conditions never go back.            *)
(***************************************************************************)
EXTENDS LoanDesk, TLAPS

Closed == {"decided", "denied"}

Assignments ==
    [to : Users, prev : Users \cup {Nobody}, by : Users, status : Statuses, stage : Stages]

Entities == [to : Users, status : Statuses \ {"pending_decision"}, stage : Stages]

(* Columns of a row an UPDATE may set, with their values.                  *)
ColumnsOK(f, names) ==
    /\ DOMAIN f \subseteq names
    /\ "to" \in DOMAIN f => f["to"] \in Users
    /\ "by" \in DOMAIN f => f["by"] \in Users
    /\ "status" \in DOMAIN f => f["status"] \in Statuses
    /\ "stage" \in DOMAIN f => f["stage"] \in Stages

(* The two updates of a request are in step, but the workbench's: the      *)
(* holder and the stage are set in both tables or in neither; the entity's *)
(* status only to the assignment's, and always when that closes the loan.  *)
InStep(where, a, e) ==
    /\ ColumnsOK(a, {"to", "by", "status", "stage"})
    /\ ColumnsOK(e, {"to", "status", "stage"})
    /\ where = "active" => DOMAIN a = {"to", "by"} /\ DOMAIN e = {}
    /\ where # "active" => ("to" \in DOMAIN a <=> "to" \in DOMAIN e)
    /\ "to" \in DOMAIN e => a["to"] = e["to"]
    /\ "stage" \in DOMAIN a <=> "stage" \in DOMAIN e
    /\ "stage" \in DOMAIN a => a["stage"] = e["stage"]
    /\ "status" \in DOMAIN e => "status" \in DOMAIN a /\ e["status"] = a["status"]
                                /\ e["status"] # "pending_decision"
    /\ "status" \in DOMAIN a /\ a["status"] \in Closed => "status" \in DOMAIN e

Closes(t) == "status" \in DOMAIN t.assignment /\ t.assignment["status"] \in Closed

(* A transaction under way: an override that only waives has no columns to *)
(* set, one that closes is a senior's and looks for the loan among its own,*)
(* and the workbench's adds no status.                                     *)
TxnOK(u) ==
    txn[u] # NoTxn =>
        /\ txn[u] = [at |-> txn[u].at, where |-> txn[u].where, found |-> txn[u].found,
                     waives |-> txn[u].waives,
                     assignment |-> txn[u].assignment, entity |-> txn[u].entity]
        /\ txn[u].at \in {"read", "updated"} /\ txn[u].where \in {"any", "mine", "active"}
        /\ txn[u].found \subseteq DOMAIN asg /\ txn[u].waives \in BOOLEAN
        /\ InStep(txn[u].where, txn[u].assignment, txn[u].entity)
        /\ txn[u].waives => /\ txn[u].at = "updated" /\ txn[u].where = "any" /\ txn[u].found = {}
                            /\ DOMAIN txn[u].assignment = {} /\ DOMAIN txn[u].entity = {}
        /\ Closes(txn[u]) => txn[u].where = "mine" /\ CanOverride(u)

TxnsOK == DOMAIN txn = Users /\ txn = [u \in Users |-> txn[u]] /\ \A u \in Users : TxnOK(u)

-----------------------------------------------------------------------------
(* SET of some columns of a row keeps the others.                          *)
LEMMA SetAssignment ==
    ASSUME NEW f, ColumnsOK(f, {"to", "by", "status", "stage"}), NEW row \in Assignments
    PROVE  /\ Updated(row, f) \in Assignments
           /\ Updated(row, f).to = IF "to" \in DOMAIN f THEN f["to"] ELSE row.to
           /\ Updated(row, f).status = IF "status" \in DOMAIN f THEN f["status"] ELSE row.status
           /\ Updated(row, f).stage = IF "stage" \in DOMAIN f THEN f["stage"] ELSE row.stage
  <1>1. DOMAIN row = {"to", "prev", "by", "status", "stage"}
    BY DEF Assignments
  <1>2. Updated(row, f) = [to     |-> IF "to" \in DOMAIN f THEN f["to"] ELSE row.to,
                    prev   |-> row.prev,
                    by     |-> IF "by" \in DOMAIN f THEN f["by"] ELSE row.by,
                    status |-> IF "status" \in DOMAIN f THEN f["status"] ELSE row.status,
                    stage  |-> IF "stage" \in DOMAIN f THEN f["stage"] ELSE row.stage]
    BY <1>1 DEF ColumnsOK, Updated
  <1> QED
    BY <1>2 DEF ColumnsOK, Assignments

LEMMA SetEntity ==
    ASSUME NEW f, ColumnsOK(f, {"to", "status", "stage"}), NEW row \in Entities,
           "status" \in DOMAIN f => f["status"] # "pending_decision"
    PROVE  /\ Updated(row, f) \in Entities
           /\ Updated(row, f).to = IF "to" \in DOMAIN f THEN f["to"] ELSE row.to
           /\ Updated(row, f).status = IF "status" \in DOMAIN f THEN f["status"] ELSE row.status
           /\ Updated(row, f).stage = IF "stage" \in DOMAIN f THEN f["stage"] ELSE row.stage
  <1>1. DOMAIN row = {"to", "status", "stage"}
    BY DEF Entities
  <1>2. Updated(row, f) = [to     |-> IF "to" \in DOMAIN f THEN f["to"] ELSE row.to,
                    status |-> IF "status" \in DOMAIN f THEN f["status"] ELSE row.status,
                    stage  |-> IF "stage" \in DOMAIN f THEN f["stage"] ELSE row.stage]
    BY <1>1 DEF ColumnsOK, Updated
  <1> QED
    BY <1>2 DEF ColumnsOK, Entities

-----------------------------------------------------------------------------
(* The transaction of u has the lock of row r.                             *)
Locks(u, r) == txn[u].at = "updated" /\ r \in txn[u].found

(* At most one transaction has the lock of a row; a row it looked for      *)
(* among its own stays its own; one that missed the assignment is on       *)
(* record; and one that looks for any row finds the first.                 *)
LockOK ==
    /\ \A u, v \in Users : \A r \in DOMAIN asg : Locks(u, r) /\ Locks(v, r) => u = v
    /\ \A u \in Users : \A r \in DOMAIN asg : Locks(u, r) /\ txn[u].where = "mine" => asg[r].to = u
    /\ \A u \in Users : txn[u].at = "updated" /\ txn[u].where = "mine" /\ txn[u].found = {} => missed
    /\ \A u \in Users : txn[u].at = "updated" /\ txn[u].where = "any" /\ ~txn[u].waives => 1 \in txn[u].found

RowsOK ==
    /\ asg \in Seq(Assignments) /\ Len(asg) >= 1 /\ ent \in Entities
    /\ conds \in [Conditions -> {"none", "open", "submitted", "approved", "waived"}]
    /\ missed \in BOOLEAN /\ routed \in BOOLEAN /\ requests \in 0..MaxRequests

DeskInv == RowsOK /\ TxnsOK /\ LockOK /\ TablesAgree

LEMMA TheRows ==
    ASSUME RowsOK
    PROVE  /\ Len(asg) \in Nat \ {0} /\ DOMAIN asg = 1..Len(asg) /\ 1 \in DOMAIN asg
           /\ \A r \in DOMAIN asg : asg[r] \in Assignments
  BY DEF RowsOK

LEMMA DeskInit == Init => DeskInv
  <1> SUFFICES ASSUME Init PROVE DeskInv
    OBVIOUS
  <1>1. RowsOK
    <2>1. asg \in Seq(Assignments) /\ Len(asg) >= 1
      <3> DEFINE row == [to |-> Holder, prev |-> Nobody, by |-> Importer, status |-> "active", stage |-> "verify"]
      <3>1. row \in Assignments
        BY DeskAssumption DEF Assignments, Statuses, Stages
      <3>2. asg = <<row>>
        BY DEF Init
      <3> HIDE DEF row
      <3> QED
        BY <3>1, <3>2
    <2>2. ent \in Entities
      BY DeskAssumption DEF Init, Entities, Statuses, Stages
    <2>3. conds \in [Conditions -> {"none", "open", "submitted", "approved", "waived"}]
      BY DEF Init
    <2>4. missed \in BOOLEAN /\ routed \in BOOLEAN
      BY DEF Init
    <2>5. requests = MaxRequests /\ requests \in 0..MaxRequests
      <3>1. MaxRequests \in Nat
        BY DeskAssumption
      <3> QED
        BY <3>1 DEF Init
    <2> QED
      BY <2>1, <2>2, <2>3, <2>4, <2>5 DEF RowsOK
  <1>2. TxnsOK
    BY DEF Init, TxnsOK, TxnOK
  <1>3. LockOK /\ TablesAgree
    BY DEF Init, LockOK, Locks, NoTxn, TablesAgree, Closed
  <1> QED
    BY <1>1, <1>2, <1>3 DEF DeskInv

(* A request that starts: its columns are in step and it does not touch    *)
(* the rows yet.                                                           *)
LEMMA StartKeeps ==
    ASSUME DeskInv, NEW u \in Users, NEW where \in {"any", "mine", "active"}, NEW a, NEW e,
           InStep(where, a, e),
           "status" \in DOMAIN a /\ a["status"] \in Closed => where = "mine" /\ CanOverride(u),
           Start(u, where, a, e)
    PROVE  DeskInv'
  <1> DEFINE t == [at |-> "read", where |-> where, found |-> {}, waives |-> FALSE,
                   assignment |-> a, entity |-> e]
  <1>1. /\ txn' = [txn EXCEPT ![u] = t]
        /\ asg' = asg /\ ent' = ent /\ conds' = conds /\ missed' = missed /\ routed' = routed
        /\ requests' \in 0..MaxRequests
    BY DeskAssumption DEF Start, DeskInv, RowsOK
  <1>2. txn'[u] = t /\ \A v \in Users \ {u} : txn'[v] = txn[v]
    BY <1>1 DEF DeskInv, TxnsOK
  <1>3. RowsOK' /\ TablesAgree'
    BY <1>1 DEF DeskInv, RowsOK, TablesAgree
  <1>4. TxnOK(u)'
    BY <1>2 DEF TxnOK, Closes, CanOverride, NoTxn
  <1>5. ASSUME NEW v \in Users, v # u PROVE TxnOK(v)'
    BY <1>1, <1>2, <1>5 DEF DeskInv, TxnsOK, TxnOK
  <1>6. TxnsOK'
    BY <1>1, <1>4, <1>5 DEF DeskInv, TxnsOK
  <1>7. LockOK'
    BY <1>1, <1>2 DEF DeskInv, LockOK, Locks
  <1> QED
    BY <1>3, <1>6, <1>7 DEF DeskInv

(* Every request sets the columns of the two rows in step.                 *)
LEMMA RequestKeeps ==
    ASSUME DeskInv, NEW u \in Users, Request(u)
    PROVE  DeskInv'
  <1> USE DEF InStep, ColumnsOK, Statuses, Stages, Closed
  <1>1. ASSUME NEW v \in Users, Reassign(u, v) PROVE DeskInv'
    BY <1>1, StartKeeps DEF Reassign
  <1>2. ASSUME NEW s \in {"decided", "denied"}, Close(u, s) PROVE DeskInv'
    BY <1>2, StartKeeps DEF Close
  <1>3. CASE Advance(u)
    <2>1. InStep("any", [stage |-> "underwrite", status |-> "active"],
                 [stage |-> "underwrite"])
      BY <1>3 DEF Advance
    <2> QED
      BY <1>3, <2>1, StartKeeps DEF Advance
  <1>4. CASE Escalate(u)
    <2>1. InStep("any", [to |-> Senior, by |-> u, status |-> "active", stage |-> "decide"],
                 [to |-> Senior, stage |-> "decide"])
      BY <1>4, DeskAssumption DEF Escalate
    <2> QED
      BY <1>4, <2>1, StartKeeps DEF Escalate
  <1>5. CASE Park(u)
    BY <1>5, StartKeeps DEF Park
  <1>6. Origins(u) \subseteq Users
    <2>1. \A r \in DOMAIN asg : asg[r] \in Assignments
      BY TheRows DEF DeskInv
    <2> QED
      BY <2>1 DEF Origins, Assignments
  <1>7. CASE ReturnToUw(u)
    <2>1. PICK v \in Origins(u) :
              Start(u, "mine", [to |-> v, by |-> u, status |-> "active"], [to |-> v])
      BY <1>7 DEF ReturnToUw
    <2>2. InStep("mine", [to |-> v, by |-> u, status |-> "active"], [to |-> v])
      BY <1>6
    <2> QED
      BY <2>1, <2>2, StartKeeps
  <1>8. CASE RequestMoreInfo(u)
    <2>1. PICK v \in Origins(u) :
              Start(u, "mine", [to |-> v, by |-> u, status |-> "active", stage |-> "underwrite"],
                               [to |-> v, stage |-> "underwrite"])
      BY <1>8 DEF RequestMoreInfo
    <2>2. InStep("mine", [to |-> v, by |-> u, status |-> "active", stage |-> "underwrite"],
                         [to |-> v, stage |-> "underwrite"])
      BY <1>6
    <2> QED
      BY <2>1, <2>2, StartKeeps
  <1>9. CASE Recommend(u)
    <2>1. InStep("mine", [to |-> Senior, by |-> u, status |-> "pending_decision", stage |-> "decide"],
                 [to |-> Senior, stage |-> "decide"])
      BY <1>9, DeskAssumption DEF Recommend
    <2> QED
      BY <1>9, <2>1, StartKeeps DEF Recommend
  <1>10. CASE Respond(u)
    BY <1>10, StartKeeps DEF Respond
  <1>12. CASE Route(u)
    <2>1. InStep("active", [to |-> Senior, by |-> u], <<>>)
      BY DeskAssumption
    <2> QED
      BY <1>12, <2>1, StartKeeps DEF Route
  <1>11. CASE Waive(u)
    <2> DEFINE t == [at |-> "updated", where |-> "any", found |-> {}, waives |-> TRUE,
                     assignment |-> <<>>, entity |-> <<>>]
    <2>1. /\ txn' = [txn EXCEPT ![u] = t]
          /\ asg' = asg /\ ent' = ent /\ conds' = conds /\ missed' = missed /\ routed' = routed
          /\ requests' \in 0..MaxRequests
      BY <1>11, DeskAssumption DEF Waive, DeskInv, RowsOK
    <2>2. txn'[u] = t /\ \A v \in Users \ {u} : txn'[v] = txn[v]
      BY <2>1 DEF DeskInv, TxnsOK
    <2>3. RowsOK' /\ TablesAgree'
      BY <2>1 DEF DeskInv, RowsOK, TablesAgree
    <2>4. DOMAIN t.assignment = {} /\ DOMAIN t.entity = {}
      OBVIOUS
    <2>5. TxnOK(u)'
      BY <2>2, <2>4 DEF TxnOK, Closes, NoTxn
    <2>6. ASSUME NEW v \in Users, v # u PROVE TxnOK(v)'
      BY <2>1, <2>2, <2>6 DEF DeskInv, TxnsOK, TxnOK
    <2>7. TxnsOK'
      BY <2>1, <2>5, <2>6 DEF DeskInv, TxnsOK
    <2>8. LockOK'
      BY <2>1, <2>2 DEF DeskInv, LockOK, Locks
    <2> QED
      BY <2>3, <2>7, <2>8 DEF DeskInv
  <1> QED
    BY <1>1, <1>2, <1>3, <1>4, <1>5, <1>7, <1>8, <1>9, <1>10, <1>11, <1>12 DEF Request

(* The UPDATE of the assignments takes the locks, or finds nothing.        *)
LEMMA UpdateKeeps ==
    ASSUME DeskInv, NEW u \in Users, UpdateAssignment(u)
    PROVE  DeskInv'
  <1> DEFINE found == {r \in DOMAIN asg : Matches(u, asg[r])}
             t == txn[u]
  <1>1. /\ t.at = "read" /\ \A r \in found : ~Locked(r)
        /\ txn' = [txn EXCEPT ![u].at = "updated", ![u].found = found]
        /\ missed' = (missed \/ (t.where = "mine" /\ found = {}))
        /\ asg' = asg /\ ent' = ent /\ conds' = conds /\ routed' = routed /\ requests' = requests
    BY DEF UpdateAssignment
  <1>2. TxnOK(u) /\ t # NoTxn
    <2>1. t.at = "read"
      BY <1>1
    <2> QED
      BY <2>1 DEF DeskInv, TxnsOK, NoTxn
  <1>3. txn'[u] = [at |-> "updated", where |-> t.where, found |-> found, waives |-> t.waives,
                   assignment |-> t.assignment, entity |-> t.entity]
    <2> HIDE DEF found
    <2> QED
      BY <1>1, <1>2 DEF TxnOK, DeskInv, TxnsOK
  <1>4. \A v \in Users \ {u} : txn'[v] = txn[v]
    BY <1>1 DEF DeskInv, TxnsOK
  <1>5. RowsOK' /\ TablesAgree'
    BY <1>1 DEF DeskInv, RowsOK, TablesAgree
  <1>6. ~t.waives
    BY <1>1, <1>2 DEF TxnOK
  <1>7. TxnOK(u)'
    <2>1. found \subseteq DOMAIN asg'
      BY <1>1
    <2> HIDE DEF found
    <2> QED
      BY <1>2, <1>3, <1>6, <2>1 DEF TxnOK, Closes
  <1>8. ASSUME NEW v \in Users, v # u PROVE TxnOK(v)'
    BY <1>1, <1>4, <1>8 DEF DeskInv, TxnsOK, TxnOK
  <1>9. TxnsOK'
    BY <1>1, <1>7, <1>8 DEF DeskInv, TxnsOK
  <1>10. LockOK'
    <2>1. \A v \in Users \ {u} : \A r \in found : ~Locks(v, r)
      BY <1>1 DEF Locked, Locks
    <2>2. \A v \in Users \ {u} : \A r : Locks(v, r)' = Locks(v, r)
      BY <1>4 DEF Locks
    <2>3. \A r : Locks(u, r)' => r \in found
      BY <1>3 DEF Locks
    <2>4. \A v, w \in Users : \A r \in DOMAIN asg : Locks(v, r)' /\ Locks(w, r)' => v = w
      <3> HIDE DEF found
      <3> QED
        BY <2>1, <2>2, <2>3 DEF DeskInv, LockOK
    <2>5. \A v \in Users : \A r \in DOMAIN asg :
              Locks(v, r)' /\ txn'[v].where = "mine" => asg[r].to = v
      <3>1. \A r \in DOMAIN asg : Locks(u, r)' /\ txn'[u].where = "mine" => asg[r].to = u
        BY <1>3, <2>3 DEF Matches
      <3> QED
        BY <1>4, <2>2, <3>1 DEF DeskInv, LockOK
    <2>6. \A v \in Users : txn'[v].at = "updated" /\ txn'[v].where = "mine" /\ txn'[v].found = {} => missed'
      <3>1. txn'[u].where = "mine" /\ txn'[u].found = {} => missed'
        <4>1. txn'[u].where = t.where /\ txn'[u].found = found
          BY <1>3
        <4>2. missed' = (missed \/ (t.where = "mine" /\ found = {}))
          BY <1>1
        <4>3. CASE t.where = "mine" /\ found = {}
          <5> HIDE DEF found
          <5> QED
            BY <4>2, <4>3, Zenon
        <4> HIDE DEF found, t
        <4> QED
          BY <4>1, <4>3
      <3> QED
        BY <1>1, <1>4, <3>1 DEF DeskInv, LockOK
    <2>7. \A v \in Users :
              txn'[v].at = "updated" /\ txn'[v].where = "any" /\ ~txn'[v].waives => 1 \in txn'[v].found
      <3>1. t.where = "any" => 1 \in found
        BY TheRows DEF DeskInv, Matches
      <3> QED
        BY <1>3, <1>4, <3>1 DEF DeskInv, LockOK
    <2> QED
      BY <1>1, <2>4, <2>5, <2>6, <2>7 DEF LockOK, Locks
  <1> QED
    BY <1>5, <1>9, <1>10 DEF DeskInv

(* A transaction that ends leaves the others and their locks as they were. *)
LEMMA EndKeepsTxns ==
    ASSUME DeskInv, NEW u \in Users, txn' = [txn EXCEPT ![u] = NoTxn], missed' = missed,
           \A r \in DOMAIN asg : r \in DOMAIN asg' /\ (asg'[r].to = asg[r].to \/ Locks(u, r))
    PROVE  TxnsOK' /\ LockOK'
  <1>1. txn'[u] = NoTxn /\ \A v \in Users \ {u} : txn'[v] = txn[v]
    BY DEF DeskInv, TxnsOK
  <1>2. ASSUME NEW v \in Users PROVE TxnOK(v)'
    BY <1>1 DEF DeskInv, TxnsOK, TxnOK
  <1>3. TxnsOK'
    BY <1>2 DEF DeskInv, TxnsOK
  <1>4. ASSUME NEW v \in Users, NEW r, Locks(v, r)'
        PROVE  v # u /\ Locks(v, r) /\ r \in DOMAIN asg
    <2>1. v # u
      BY <1>1, <1>4 DEF Locks, NoTxn
    <2>2. Locks(v, r)
      BY <1>1, <1>4, <2>1 DEF Locks
    <2>3. TxnOK(v) /\ txn[v] # NoTxn
      BY <2>2 DEF DeskInv, TxnsOK, Locks, NoTxn
    <2> QED
      BY <2>1, <2>2, <2>3 DEF TxnOK, Locks
  <1>5. LockOK'
    <2>1. \A v, w \in Users : \A r \in DOMAIN asg' : Locks(v, r)' /\ Locks(w, r)' => v = w
      BY <1>4 DEF DeskInv, LockOK
    <2>2. \A v \in Users : \A r \in DOMAIN asg' :
              Locks(v, r)' /\ txn'[v].where = "mine" => asg'[r].to = v
      BY <1>1, <1>4 DEF DeskInv, LockOK
    <2>3. \A v \in Users : txn'[v].at = "updated" => v # u /\ txn'[v] = txn[v]
      BY <1>1 DEF NoTxn
    <2> QED
      BY <2>1, <2>2, <2>3 DEF DeskInv, LockOK
  <1> QED
    BY <1>3, <1>5

(* What the commit makes of the assignments: the rows it found move, and a *)
(* new one comes after them if the workbench found none that is active.    *)
LEMMA CommitRows ==
    ASSUME DeskInv, NEW u \in Users, Commit(u)
    PROVE  /\ asg' \in Seq(Assignments) /\ Len(asg') >= Len(asg)
           /\ Len(asg') = 1 => ~(txn[u].where = "active" /\ txn[u].found = {})
           /\ \A r \in DOMAIN asg :
                 /\ r \in DOMAIN asg'
                 /\ r \notin txn[u].found => asg'[r] = asg[r]
                 /\ r \in txn[u].found =>
                       LET a == txn[u].assignment
                       IN  /\ asg'[r].to = IF "to" \in DOMAIN a THEN a["to"] ELSE asg[r].to
                           /\ asg'[r].status = IF "status" \in DOMAIN a THEN a["status"] ELSE asg[r].status
                           /\ asg'[r].stage = IF "stage" \in DOMAIN a THEN a["stage"] ELSE asg[r].stage
  <1> DEFINE t == txn[u]
             moved == [r \in DOMAIN asg |-> IF r \in t.found THEN Assigned(asg[r], t.assignment) ELSE asg[r]]
             new == SecondAssignment(u)
  <1>1. t # NoTxn /\ TxnOK(u) /\ ColumnsOK(t.assignment, {"to", "by", "status", "stage"})
    <2>1. t.at = "updated"
      BY DEF Commit
    <2>2. t # NoTxn /\ TxnOK(u)
      BY <2>1 DEF DeskInv, TxnsOK, NoTxn
    <2> QED
      BY <2>2 DEF TxnOK, InStep
  <1>2. /\ Len(asg) \in Nat \ {0} /\ DOMAIN asg = 1..Len(asg)
        /\ \A r \in DOMAIN asg : asg[r] \in Assignments
    BY TheRows DEF DeskInv
  <1>3. asg' = IF t.where = "active" /\ t.found = {} THEN Append(moved, new) ELSE moved
    BY DEF Commit
  <1>4. ASSUME NEW row \in Assignments
        PROVE  LET a == t.assignment
                   m == Assigned(row, a)
               IN  /\ m \in Assignments
                   /\ m.to = IF "to" \in DOMAIN a THEN a["to"] ELSE row.to
                   /\ m.status = IF "status" \in DOMAIN a THEN a["status"] ELSE row.status
                   /\ m.stage = IF "stage" \in DOMAIN a THEN a["stage"] ELSE row.stage
    <2> DEFINE a == t.assignment
               base == IF "to" \in DOMAIN a THEN [row EXCEPT !.prev = row.to] ELSE row
    <2>1. /\ base \in Assignments
          /\ base.to = row.to /\ base.status = row.status /\ base.stage = row.stage
      BY DEF Assignments
    <2>2. Assigned(row, a) = Updated(base, a) /\ ColumnsOK(a, {"to", "by", "status", "stage"})
      BY <1>1 DEF Assigned
    <2> HIDE DEF base, t
    <2> QED
      BY <2>1, <2>2, SetAssignment
  <1>5. \A r \in DOMAIN asg : moved[r] \in Assignments
    BY <1>2, <1>4
  <1>6. moved \in Seq(Assignments) /\ Len(moved) = Len(asg) /\ DOMAIN moved = DOMAIN asg
    <2> HIDE DEF t
    <2> QED
      BY <1>2, <1>5
  <1>7. new \in Assignments
    BY DeskAssumption DEF SecondAssignment, Assignments, Statuses, Stages
  <1>8. /\ asg' \in Seq(Assignments) /\ Len(asg') >= Len(asg)
        /\ Len(asg') = 1 => ~(t.where = "active" /\ t.found = {})
        /\ \A r \in DOMAIN asg : r \in DOMAIN asg' /\ asg'[r] = moved[r]
    <2> HIDE DEF moved, new, t
    <2> QED
      BY <1>2, <1>3, <1>6, <1>7
  <1>9. ASSUME NEW r \in DOMAIN asg
        PROVE  /\ r \notin t.found => asg'[r] = asg[r]
               /\ r \in t.found => asg'[r] = Assigned(asg[r], t.assignment)
    BY <1>8
  <1> HIDE DEF moved, new
  <1> QED
    BY <1>2, <1>4, <1>8, <1>9

(* The commit: if it found the assignment the two rows move together, but  *)
(* for the holder when it is the workbench's.                              *)
LEMMA CommitKeeps ==
    ASSUME DeskInv, NEW u \in Users, Commit(u)
    PROVE  DeskInv'
  <1> DEFINE t == txn[u]
  <1>1. /\ t.at = "updated" /\ t # NoTxn /\ TxnOK(u)
        /\ ent' = Updated(ent, t.entity)
        /\ conds' = IF t.waives THEN Waived ELSE conds
        /\ txn' = [txn EXCEPT ![u] = NoTxn]
        /\ routed' = (t.where = "active" \/ (routed /\ "to" \notin DOMAIN t.assignment))
        /\ missed' = missed /\ requests' = requests
    BY DEF Commit, DeskInv, TxnsOK, NoTxn
  <1>2. InStep(t.where, t.assignment, t.entity)
    BY <1>1 DEF TxnOK
  <1>3. /\ ent' \in Entities
        /\ ent'.to = IF "to" \in DOMAIN t.entity THEN t.entity["to"] ELSE ent.to
        /\ ent'.status = IF "status" \in DOMAIN t.entity THEN t.entity["status"] ELSE ent.status
        /\ ent'.stage = IF "stage" \in DOMAIN t.entity THEN t.entity["stage"] ELSE ent.stage
    <2>1. ColumnsOK(t.entity, {"to", "status", "stage"}) /\ ent \in Entities
          /\ ("status" \in DOMAIN t.entity => t.entity["status"] # "pending_decision")
      BY <1>2 DEF InStep, DeskInv, RowsOK
    <2> HIDE DEF t
    <2> QED
      BY <1>1, <2>1, SetEntity
  <1>4. conds' \in [Conditions -> {"none", "open", "submitted", "approved", "waived"}]
    BY <1>1 DEF Waived, DeskInv, RowsOK
  <1>5. RowsOK'
    <2>1. asg' \in Seq(Assignments) /\ Len(asg') >= 1
      BY CommitRows, TheRows DEF DeskInv, RowsOK
    <2>2. routed' \in BOOLEAN
      BY <1>1
    <2> QED
      BY <1>1, <1>3, <1>4, <2>1, <2>2 DEF DeskInv, RowsOK
  <1>6. TablesAgree'
    <2> SUFFICES ASSUME ~missed, Len(asg') = 1
                 PROVE  /\ routed' \/ asg'[1].to = ent'.to
                        /\ asg'[1].stage = ent'.stage
                        /\ asg'[1].status \in {"decided", "denied"} => ent'.status = asg'[1].status
      BY <1>1 DEF TablesAgree
    <2>1. Len(asg) = 1 /\ 1 \in DOMAIN asg /\ DOMAIN asg = {1}
      BY CommitRows, TheRows DEF DeskInv
    <2>2. ~(t.where = "active" /\ t.found = {})
      BY CommitRows
    <2>3. /\ routed \/ asg[1].to = ent.to
          /\ asg[1].stage = ent.stage
          /\ asg[1].status \in {"decided", "denied"} => ent.status = asg[1].status
      BY <2>1 DEF DeskInv, TablesAgree
    <2>4. t.waives \/ 1 \in t.found
      <3>1. t.found \subseteq {1} /\ t.where \in {"any", "mine", "active"}
        BY <1>1, <2>1 DEF TxnOK
      <3>2. t.where = "mine" => t.found # {}
        BY <1>1 DEF DeskInv, LockOK
      <3>3. t.where = "any" /\ ~t.waives => 1 \in t.found
        BY <1>1 DEF DeskInv, LockOK
      <3> QED
        BY <2>2, <3>1, <3>2, <3>3
    <2>5. CASE t.waives
      <3>1. asg'[1] = asg[1]
        BY <1>1, <2>1, <2>5, CommitRows DEF TxnOK
      <3>2. t.where = "any" /\ DOMAIN t.assignment = {} /\ DOMAIN t.entity = {}
        BY <1>1, <2>5 DEF TxnOK
      <3> QED
        BY <1>1, <1>3, <2>3, <3>1, <3>2
    <2>6. CASE 1 \in t.found
      <3>1. /\ asg'[1].to = IF "to" \in DOMAIN t.assignment THEN t.assignment["to"] ELSE asg[1].to
            /\ asg'[1].status =
                  IF "status" \in DOMAIN t.assignment THEN t.assignment["status"] ELSE asg[1].status
            /\ asg'[1].stage =
                  IF "stage" \in DOMAIN t.assignment THEN t.assignment["stage"] ELSE asg[1].stage
        BY <2>1, <2>6, CommitRows
      <3> HIDE DEF t
      <3> QED
        BY <1>1, <1>2, <1>3, <2>3, <3>1 DEF InStep, Closed
    <2> QED
      BY <2>4, <2>5, <2>6
  <1>7. \A r \in DOMAIN asg : r \in DOMAIN asg' /\ (asg'[r].to = asg[r].to \/ Locks(u, r))
    BY <1>1, CommitRows DEF Locks
  <1>8. TxnsOK' /\ LockOK'
    BY <1>1, <1>7, EndKeepsTxns
  <1> QED
    BY <1>5, <1>6, <1>8 DEF DeskInv

LEMMA DeskNext == DeskInv /\ [Next]_vars => DeskInv'
  <1> SUFFICES ASSUME DeskInv, [Next]_vars PROVE DeskInv'
    OBVIOUS
  <1>1. CASE UNCHANGED vars
    BY <1>1 DEF vars, DeskInv, RowsOK, TxnsOK, TxnOK, LockOK, Locks, TablesAgree
  <1>2. ASSUME NEW u \in Users, Rollback(u) PROVE DeskInv'
    <2>1. TxnsOK' /\ LockOK'
      BY <1>2, TheRows, EndKeepsTxns DEF Rollback, DeskInv
    <2>2. RowsOK' /\ TablesAgree'
      BY <1>2 DEF Rollback, DeskInv, RowsOK, TablesAgree
    <2> QED
      BY <2>1, <2>2 DEF DeskInv
  <1>3. ASSUME NEW c \in Conditions, Condition(c) PROVE DeskInv'
    <2>1. RowsOK'
      BY <1>3 DEF Condition, Raise, Clear, MarkReceived, DeskInv, RowsOK
    <2>2. asg' = asg /\ ent' = ent /\ txn' = txn /\ missed' = missed /\ routed' = routed
      BY <1>3 DEF Condition, Raise, Clear, MarkReceived
    <2> QED
      BY <2>1, <2>2 DEF DeskInv, TxnsOK, TxnOK, LockOK, Locks, TablesAgree
  <1> QED
    BY <1>1, <1>2, <1>3, RequestKeeps, UpdateKeeps, CommitKeeps DEF Next

-----------------------------------------------------------------------------
CloseStep ==
    \A r \in DOMAIN asg :
        asg'[r].status \in {"decided", "denied"} \ {asg[r].status} =>
            \E u \in Users : txn[u] # NoTxn /\ txn'[u] = NoTxn /\ asg[r].to = u /\ CanOverride(u)

(* Only a commit writes an assignment, and the status it writes is one     *)
(* that closes only if its transaction has the row lock of a loan it found *)
(* among its own.                                                          *)
LEMMA CloseStepNext == DeskInv /\ [Next]_vars => CloseStep
  <1> SUFFICES ASSUME DeskInv, [Next]_vars, NEW r \in DOMAIN asg,
                      asg'[r].status \in Closed, asg'[r].status # asg[r].status
               PROVE  \E u \in Users : /\ txn[u] # NoTxn /\ txn'[u] = NoTxn
                                       /\ asg[r].to = u /\ CanOverride(u)
    BY DEF CloseStep, Closed
  <1>1. PICK u \in Users : Commit(u)
    BY DEF Next, vars, Request, Start, Reassign, Close, Waive, Advance, Escalate, Route, Park,
           ReturnToUw, RequestMoreInfo, Recommend, Respond, UpdateAssignment, Rollback,
           Condition, Raise, Clear, MarkReceived
  <1>2. /\ txn[u].at = "updated" /\ txn[u] # NoTxn /\ TxnOK(u)
        /\ txn' = [txn EXCEPT ![u] = NoTxn]
    BY <1>1 DEF Commit, DeskInv, TxnsOK, NoTxn
  <1>3. r \in txn[u].found
    BY <1>1, CommitRows
  <1>4. Closes(txn[u])
    BY <1>1, <1>3, CommitRows DEF Closes
  <1>5. txn[u].where = "mine" /\ CanOverride(u)
    BY <1>2, <1>4 DEF TxnOK
  <1>6. asg[r].to = u
    BY <1>2, <1>3, <1>5 DEF DeskInv, LockOK, Locks
  <1>7. txn'[u] = NoTxn
    BY <1>2 DEF DeskInv, TxnsOK
  <1> QED
    BY <1>2, <1>5, <1>6, <1>7

ConditionStep == \A c \in Conditions : Rank[conds[c]] <= Rank[conds'[c]]

(* Whoever writes a condition writes a status that is no further back.     *)
LEMMA ConditionStepNext == DeskInv /\ [Next]_vars => ConditionStep
  <1> SUFFICES ASSUME DeskInv, [Next]_vars, NEW k \in Conditions
               PROVE  Rank[conds[k]] <= Rank[conds'[k]]
    BY DEF ConditionStep
  <1>1. conds \in [Conditions -> {"none", "open", "submitted", "approved", "waived"}]
    BY DEF DeskInv, RowsOK
  <1>2. /\ Rank["none"] = 0 /\ Rank["open"] = 1 /\ Rank["submitted"] = 2
        /\ Rank["approved"] = 3 /\ Rank["waived"] = 3
    BY DEF Rank
  <1>3. CASE conds' = conds
    BY <1>1, <1>2, <1>3
  <1>4. ASSUME NEW c \in Conditions, Condition(c)
        PROVE  Rank[conds[k]] <= Rank[conds'[k]]
    <2>1. \/ conds[c] = "none" /\ conds' = [conds EXCEPT ![c] = "open"]
          \/ conds[c] # "none" /\ \E status \in {"approved", "waived"} :
                                     conds' = [conds EXCEPT ![c] = status]
          \/ conds[c] \in {"open", "submitted"} /\ conds' = [conds EXCEPT ![c] = "submitted"]
      BY <1>1, <1>4 DEF Condition, Raise, Clear, MarkReceived
    <2>2. CASE k # c
      <3>1. conds'[k] = conds[k]
        BY <1>1, <2>1, <2>2
      <3> QED
        BY <1>1, <1>2, <3>1
    <2>3. CASE k = c
      <3>1. \/ conds[k] = "none" /\ conds'[k] = "open"
            \/ conds'[k] \in {"approved", "waived"}
            \/ conds[k] \in {"open", "submitted"} /\ conds'[k] = "submitted"
        BY <1>1, <2>1, <2>3
      <3> QED
        BY <1>1, <1>2, <3>1
    <2> QED
      BY <2>2, <2>3
  <1>5. ASSUME NEW u \in Users, Commit(u)
        PROVE  Rank[conds[k]] <= Rank[conds'[k]]
    <2>1. conds'[k] = conds[k] \/ conds'[k] = "waived"
      BY <1>1, <1>5 DEF Commit, Waived
    <2> QED
      BY <1>1, <1>2, <2>1
  <1>6. ASSUME NEW u \in Users, Request(u) \/ UpdateAssignment(u) \/ Rollback(u)
        PROVE  conds' = conds
    BY <1>6 DEF Request, Start, Reassign, Close, Waive, Advance, Escalate, Route, Park,
                ReturnToUw, RequestMoreInfo, Recommend, Respond, UpdateAssignment, Rollback
  <1> QED
    BY <1>3, <1>4, <1>5, <1>6 DEF Next, vars

-----------------------------------------------------------------------------
(* Type correctness of the desk.                                           *)
THEOREM DeskTypes == Spec => []TypeOK
  <1>1. DeskInv => TypeOK
    BY DEF DeskInv, RowsOK, TxnsOK, TxnOK, TypeOK, NoTxn, Assignments, Entities
  <1> QED
    BY <1>1, DeskInit, DeskNext, PTL DEF Spec

(* A single assignment and its entity agree on stage and closing, and on   *)
(* the holder unless the workbench was the last to hand the loan over, for *)
(* any number of overlapping requests, until an update misses it.          *)
THEOREM DeskTablesAgree == Spec => []TablesAgree
  <1>1. DeskInv => TablesAgree
    BY DEF DeskInv
  <1> QED
    BY <1>1, DeskInit, DeskNext, PTL DEF Spec

(* Nobody closes a loan that is somebody else's by the time of the commit. *)
THEOREM DeskClosedByTheHolder == Spec => ClosedByTheHolder
  <1>1. Spec => [][CloseStep]_vars
    BY DeskInit, DeskNext, CloseStepNext, PTL DEF Spec
  <1> QED
    BY <1>1 DEF ClosedByTheHolder, CloseStep

(* No writer sends a condition back.                                       *)
THEOREM DeskConditionsAdvance == Spec => ConditionsAdvance
  <1>1. Spec => [][ConditionStep]_vars
    BY DeskInit, DeskNext, ConditionStepNext, PTL DEF Spec
  <1> QED
    BY <1>1 DEF ConditionsAdvance, ConditionStep

=============================================================================
