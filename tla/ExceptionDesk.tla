---------------------------- MODULE ExceptionDesk ----------------------------
(***************************************************************************)
(* core/exceptions: the exceptions of one approval_routing decision, from  *)
(* the engines' analysis through the writer's rows to the reviewers'       *)
(* transitions.  The writer and the workflow send their statements one by  *)
(* one on a connection without a transaction, so runs of the writer and    *)
(* transitions of the same exception interleave.                           *)
(***************************************************************************)
EXTENDS ExceptionRules, Sequences

CONSTANTS
    Reviewers,    \* callers of transition_status
    RoleOf,       \* the role each acts in
    Writers,      \* runs of populate_exception_records that may overlap
    Signals,      \* blocking signals of the decision
    Files,        \* inputs it may have been made on
    MaxRows,      \* bound: rows ever inserted
    MaxFaults     \* bound: connections lost

ASSUME DeskAssumption ==
    /\ RoleOf \in [Reviewers -> Roles] /\ "nobody" \notin Reviewers
    /\ MaxRows \in Nat /\ MaxFaults \in Nat
    /\ IsFiniteSet(Reviewers) /\ IsFiniteSet(Writers)

VARIABLES
    file,       \* what the decision was made on
    legacy,     \* its payload has no compensating_factors_analysis
    rows,       \* loan_exceptions in order of insertion; a deleted row keeps its place
    review,     \* review[r]: the transition r is making
    writer,     \* writer[w]: signals whose rows it still has to insert
    overlap,    \* ghost: the last run of the writer began while another was under way
    log,        \* exception entries in loan_actions: <<exception, reviewer, action>>
    faults      \* connections that may still be lost

vars == <<file, legacy, rows, review, writer, overlap, log, faults>>

Idle == [at |-> "idle"]

Live == {i \in DOMAIN rows : rows[i].status # "deleted"}

(* approval_routing: no actual value, overlay or floor is at hand, so a    *)
(* blocking signal is eligible whatever they are.                          *)
Available == {s \in Signals : Eligible(Eligibility(Absent, Absent, Absent, Score(file)))}

(* cf_analysis["approval_level"], None in a payload without the analysis *)
Level == IF legacy THEN "none" ELSE LevelOf(Score(file))

(* threshold_source or "uw_approval" *)
Required(row) == IF row.level = "none" THEN "uw_approval" ELSE row.level

Init ==
    /\ file \in Files
    /\ legacy \in BOOLEAN
    /\ rows = <<>>
    /\ review = [r \in Reviewers |-> Idle]
    /\ writer = [w \in Writers |-> {}]
    /\ overlap = FALSE
    /\ log = {}
    /\ faults = MaxFaults

-----------------------------------------------------------------------------
(* A definition named ..._as_... is a plausible slip in the one it precedes *)
(* and stands for; the properties are shown to tell the two apart.          *)

(* The rows of another run are left where they are. *)
Clear_as_Keep(w) ==
    /\ writer[w] = {}
    /\ Len(rows) + Cardinality(Available) <= MaxRows
    /\ writer' = [writer EXCEPT ![w] = Available]
    /\ overlap' = (\E v \in Writers : writer[v] # {})
    /\ UNCHANGED <<file, legacy, rows, review, log, faults>>

(* populate_exception_records: the rows of this decision go, children first *)
Clear(w) ==
    /\ writer[w] = {}
    /\ Len(rows) + Cardinality(Available) <= MaxRows
    /\ rows' = [i \in DOMAIN rows |-> [rows[i] EXCEPT !.status = "deleted"]]
    /\ writer' = [writer EXCEPT ![w] = Available]
    /\ overlap' = (\E v \in Writers : writer[v] # {})
    /\ UNCHANGED <<file, legacy, review, log, faults>>

(* One INSERT for each eligible signal. *)
Insert(w, s) ==
    /\ s \in writer[w]
    /\ Len(rows) < MaxRows
    /\ rows' = Append(rows, [signal |-> s, level |-> Level, status |-> "requested", by |-> "nobody"])
    /\ writer' = [writer EXCEPT ![w] = @ \ {s}]
    /\ UNCHANGED <<file, legacy, review, overlap, log, faults>>

(* _VALID_TRANSITIONS *)
Transitions(status) ==
    CASE status = "requested"    -> {"under_review", "denied"}
      [] status = "under_review" -> {"granted", "denied"}
      [] OTHER                   -> {}

(* The authority is asked for when a review is opened, not when it is closed. *)
Read_as_Opening(r, i, to) ==
    /\ review[r] = Idle
    /\ i \in Live
    /\ to = "under_review" => CanApprove(RoleOf[r], Required(rows[i]), FALSE)
    /\ to \in Transitions(rows[i].status)
    /\ review' = [review EXCEPT ![r] = [at |-> "update", id |-> i, to |-> to]]
    /\ UNCHANGED <<file, legacy, rows, writer, overlap, log, faults>>

(* transition_status: the checks, on the row as it is now.  The floor flag *)
(* of a row is false: the writer only stores eligible signals.  The caller *)
(* passes granted together with the status it asks for.                    *)
Read(r, i, to) ==
    /\ review[r] = Idle
    /\ i \in Live
    /\ CanApprove(RoleOf[r], Required(rows[i]), FALSE)
    /\ to \in Transitions(rows[i].status)
    /\ review' = [review EXCEPT ![r] = [at |-> "update", id |-> i, to |-> to]]
    /\ UNCHANGED <<file, legacy, rows, writer, overlap, log, faults>>

(* The update finds the exception by its signal. *)
Update_as_BySignal(r) ==
    /\ review[r].at = "update"
    /\ LET i == review[r].id
           found == {k \in Live : rows[k].signal = rows[i].signal}
       IN  rows' = [k \in DOMAIN rows |->
                       IF k \in found THEN [rows[k] EXCEPT !.status = review[r].to, !.by = r]
                       ELSE rows[k]]
    /\ review' = [review EXCEPT ![r].at = "log"]
    /\ UNCHANGED <<file, legacy, writer, overlap, log, faults>>

(* The UPDATE tests nothing but the id; a row that is gone is not noticed. *)
Update(r) ==
    /\ review[r].at = "update"
    /\ LET i == review[r].id
       IN  rows' = IF i \in Live
                   THEN [rows EXCEPT ![i].status = review[r].to, ![i].by = r] ELSE rows
    /\ review' = [review EXCEPT ![r].at = "log"]
    /\ UNCHANGED <<file, legacy, writer, overlap, log, faults>>

(* The entry is only written for grants. *)
Log_as_Grants(r) ==
    /\ review[r].at = "log"
    /\ log' = IF review[r].to = "granted" THEN log \cup {<<review[r].id, r, "grant_exception">>} ELSE log
    /\ review' = [review EXCEPT ![r] = Idle]
    /\ UNCHANGED <<file, legacy, rows, writer, overlap, faults>>

(* Whatever is not a grant, a move to review included, is logged a denial. *)
Log(r) ==
    /\ review[r].at = "log"
    /\ log' = log \cup {<<review[r].id, r, IF review[r].to = "granted" THEN "grant_exception"
                                                                     ELSE "deny_exception">>}
    /\ review' = [review EXCEPT ![r] = Idle]
    /\ UNCHANGED <<file, legacy, rows, writer, overlap, faults>>

(* The connection of a reviewer or of a writer breaks between statements. *)
Break ==
    /\ faults > 0 /\ faults' = faults - 1
    /\ \/ \E r \in Reviewers : /\ review[r] # Idle
                               /\ review' = [review EXCEPT ![r] = Idle]
                               /\ UNCHANGED writer
       \/ \E w \in Writers : /\ writer[w] # {}
                             /\ writer' = [writer EXCEPT ![w] = {}]
                             /\ UNCHANGED review
    /\ UNCHANGED <<file, legacy, rows, overlap, log>>

-----------------------------------------------------------------------------
Populate(w) == Clear(w) \/ \E s \in Signals : Insert(w, s)

Transition(r) ==
    \/ \E i \in 1..MaxRows, to \in {"under_review", "granted", "denied"} : Read(r, i, to)
    \/ Update(r) \/ Log(r)

Next == Break \/ (\E w \in Writers : Populate(w)) \/ (\E r \in Reviewers : Transition(r))

Spec == Init /\ [][Next]_vars

-----------------------------------------------------------------------------
(* Type invariant of the desk. *)
TypeOK ==
    /\ file \in Files /\ legacy \in BOOLEAN
    /\ Len(rows) <= MaxRows
    /\ \A i \in DOMAIN rows :
          /\ rows[i].signal \in Signals /\ rows[i].level \in Levels \cup {"none"}
          /\ rows[i].status \in {"requested", "under_review", "granted", "denied", "deleted"}
          /\ rows[i].by \in Reviewers \cup {"nobody"}
    /\ writer \in [Writers -> SUBSET Signals] /\ overlap \in BOOLEAN
    /\ \A r \in Reviewers : review[r] = Idle \/ review[r].id \in DOMAIN rows
    /\ \A e \in log : e[1] \in DOMAIN rows /\ e[2] \in Reviewers
    /\ faults \in 0..MaxFaults

(* A grant was given by somebody whose role covers what the score of the   *)
(* file asks for, after an earlier look at it, through engine, writer and  *)
(* workflow, whatever else runs.                                           *)
GrantsMatchTheFile ==
    \A i \in Live :
        rows[i].status = "granted" =>
            /\ rows[i].by \in Reviewers
            /\ legacy \/ LevelOf(Score(file)) \in Authority(RoleOf[rows[i].by])

Settled(i) ==
    /\ rows[i].status \in {"granted", "denied"}
    /\ ~ \E r \in Reviewers : review[r] # Idle /\ review[r].at = "update" /\ review[r].id = i

(* A decision may be overturned by a reviewer who read the row before it   *)
(* was made, even reopened by one; but when none is left who did, nobody   *)
(* touches it again, whatever happens to other rows of the same signal,    *)
(* until the writer runs again.                                            *)
DecisionsSettle ==
    [][\A i \in Live :
          Settled(i) => (Settled(i)' /\ rows'[i] = rows[i]) \/ rows'[i].status = "deleted"]_vars

(* What stands in a row is in the loan's log under the name of the one who *)
(* put it there, unless that reviewer is about to log or was cut off.      *)
DecisionsAreLogged ==
    faults = MaxFaults =>
        \A i \in Live :
            LET r == rows[i].by
            IN  r \in Reviewers =>
                    \/ review[r] # Idle /\ review[r].at = "log" /\ review[r].id = i
                    \/ <<i, r, IF rows[i].status = "granted" THEN "grant_exception"
                                                            ELSE "deny_exception">> \in log

(* Runs of the writer that do not overlap leave one row for a signal at    *)
(* most, however often they are repeated or cut off.                       *)
WriterIsIdempotent ==
    ~overlap => \A s \in Signals : Cardinality({i \in Live : rows[i].signal = s}) <= 1
=============================================================================
