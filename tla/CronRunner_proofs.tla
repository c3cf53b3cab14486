-------------------------- MODULE CronRunner_proofs --------------------------
(***************************************************************************)
(* Proofs about the batch path: for any plan of decisions, any number of   *)
(* overlapping sweeps and reviewers, and however many faults and reverts,  *)
(* nothing is computed ahead of its gate, a waiting row is the machine's,  *)
(* and nothing is written twice but by sweeps that overlap or after a      *)
(* commit that was not answered.                                           *)
(***************************************************************************)
EXTENDS CronRunner, FiniteSetTheorems, TLAPS

Steps == {"poll", "evaluate", "write", "insert"}

AnyOutcome == UNION {Outcomes[d] : d \in Decisions}

AnyCites == {<<>>} \cup UNION {[Upstream[d] -> Nat] : d \in Decisions}

Visits ==
    [at : DOMAIN Order, step : Steps, try : {1, 2}, cites : AnyCites,
     outcome : AnyOutcome \cup {None}, version : Nat]

Picks == [decision : Decisions \cup {None}, version : Nat, outcome : AnyOutcome \cup {None}]

RowsOK ==
    /\ rows = [d \in Decisions |-> rows[d]]
    /\ \A d \in Decisions : rows[d] \in Seq(Row(d))

(* What a sweep computed is an outcome of its decision.                    *)
SweepsOK ==
    /\ sweep \in [Runners -> Visits]
    /\ \A r \in Runners :
          /\ sweep[r].outcome \in Outcomes[Doing(r)] \cup {None}
          /\ sweep[r].step \in {"write", "insert"} =>
                /\ sweep[r].outcome \in Outcomes[Doing(r)]
                /\ sweep[r].cites \in [Upstream[Doing(r)] -> Nat]

(* A reviewer holds a row that exists.                                     *)
DeskOK ==
    /\ desk \in [Reviewers -> Picks]
    /\ \A h \in Reviewers : desk[h] # NoRow =>
          /\ desk[h].decision \in Decisions
          /\ desk[h].version \in DOMAIN rows[desk[h].decision]
          /\ desk[h].outcome \in Outcomes[desk[h].decision]

TimelineOK ==
    /\ reviewed = [d \in Decisions |-> reviewed[d]]
    /\ proposed = [d \in Decisions |-> proposed[d]]
    /\ \A d \in Decisions : reviewed[d] \in Outcomes[d] \cup {None}
    /\ \A d \in Decisions : proposed[d] \subseteq Outcomes[d]

CountersOK ==
    /\ faults \in Nat /\ reverts \in Nat /\ faults + reverts <= MaxUpsets
    /\ lost \subseteq Decisions

ShapeOK == RowsOK /\ SweepsOK /\ DeskOK /\ TimelineOK /\ CountersOK

(* Every upstream decision has a final row, and one no newer than cited.   *)
Ready(d) == \A u \in Upstream[d] : \E w \in DOMAIN rows[u] : Final(u, w)

Backed(d, cites) ==
    \A u \in Upstream[d] : \E w \in 1 .. cites[u] : w \in DOMAIN rows[u] /\ Final(u, w)

GateOK ==
    /\ \A d \in Decisions : \A v \in DOMAIN rows[d] : Backed(d, rows[d][v].cites)
    /\ \A r \in Runners :
          /\ sweep[r].step # "poll" => Ready(Doing(r))
          /\ sweep[r].step \in {"write", "insert"} => Backed(Doing(r), sweep[r].cites)

(* Until a reviewer's first action on a decision is logged, all its rows,  *)
(* and what reviewers read from them, are the machine's; the log's first   *)
(* entry therefore is as well.                                             *)
WaitingOK ==
    /\ WaitingRowsAreTheMachines
    /\ \A d \in Decisions : reviewed[d] = None =>
          \A v \in DOMAIN rows[d] : rows[d][v].outcome \in proposed[d]
    /\ \A d \in Decisions : reviewed[d] # None => reviewed[d] \in proposed[d]
    /\ \A h \in Reviewers :
          desk[h] # NoRow /\ reviewed[desk[h].decision] = None =>
              desk[h].outcome \in proposed[desk[h].decision]

(* A sweep beyond the poll of a decision still has a row of it to write.   *)
Writing(d) == {r \in Runners : sweep[r].step # "poll" /\ Doing(r) = d}

CountOK ==
    \A d \in Decisions \ lost :
        Cardinality(MachineRows(d)) + Cardinality(Writing(d)) <= Cardinality(Runners)

CronInv == ShapeOK /\ GateOK /\ WaitingOK /\ CountOK

-----------------------------------------------------------------------------
(* A visit of a decision of the plan.                                      *)
LEMMA Plan ==
    /\ 1 \in DOMAIN Order
    /\ \A i \in DOMAIN Order : i \in Nat /\ Order[i] \in Decisions
    /\ \A i \in DOMAIN Order : Visit(i) \in Visits
    /\ \A i \in DOMAIN Order : \E j \in DOMAIN Order : After(i) = Visit(j)
  <1>1. /\ DOMAIN Order = 1 .. Len(Order) /\ Len(Order) \in Nat /\ Len(Order) > 0
    BY CronAssumption
  <1>2. 1 \in DOMAIN Order
    BY <1>1
  <1>3. \A i \in DOMAIN Order : i \in Nat /\ Order[i] \in Decisions
    BY <1>1 DEF Decisions
  <1>4. \A i \in DOMAIN Order : Visit(i) \in Visits
    BY DEF Visit, Visits, Steps, AnyCites
  <1>5. ASSUME NEW i \in DOMAIN Order PROVE \E j \in DOMAIN Order : After(i) = Visit(j)
    <2>1. CASE i < Len(Order)
      BY <1>1, <2>1 DEF After
    <2>2. CASE ~(i < Len(Order))
      BY <1>2, <2>2 DEF After
    <2> QED
      BY <2>1, <2>2
  <1> QED
    BY <1>2, <1>3, <1>4, <1>5

LEMMA CronInit == Init => CronInv
  <1> SUFFICES ASSUME Init PROVE CronInv
    OBVIOUS
  <1>1. \A d \in Decisions : rows[d] = <<>> /\ DOMAIN rows[d] = {} /\ rows[d] \in Seq(Row(d))
    BY DEF Init
  <1>2. \A r \in Runners : /\ sweep[r] = Visit(1) /\ sweep[r].step = "poll"
                           /\ sweep[r].outcome = None
    BY DEF Init, Visit
  <1>3. RowsOK
    BY <1>1 DEF Init, RowsOK
  <1>4. SweepsOK
    BY <1>2, Plan DEF Init, SweepsOK
  <1>5. DeskOK
    BY DEF Init, DeskOK, Picks, NoRow
  <1>6. TimelineOK /\ CountersOK
    BY CronAssumption DEF Init, TimelineOK, CountersOK
  <1>7. GateOK
    BY <1>1, <1>2 DEF GateOK
  <1>8. WaitingOK
    BY <1>1 DEF Init, WaitingOK, WaitingRowsAreTheMachines
  <1>9. CountOK
    <2> SUFFICES ASSUME NEW d \in Decisions
                 PROVE  Cardinality(MachineRows(d)) + Cardinality(Writing(d)) <= Cardinality(Runners)
      BY DEF CountOK
    <2>1. MachineRows(d) = {} /\ Writing(d) = {}
      BY <1>1, <1>2 DEF MachineRows, Writing
    <2> QED
      BY <2>1, FS_EmptySet, FS_CardinalityType, CronAssumption DEF Init
  <1> QED
    BY <1>3, <1>4, <1>5, <1>6, <1>7, <1>8, <1>9 DEF CronInv, ShapeOK

-----------------------------------------------------------------------------
(* Rows are only appended; what a row cites and who wrote it stays, and a  *)
(* row that was acted on stays so.                                         *)
Grow ==
    \A d \in Decisions : \A v \in DOMAIN rows[d] :
        /\ v \in DOMAIN rows'[d]
        /\ rows'[d][v].cites = rows[d][v].cites
        /\ rows'[d][v].by = rows[d][v].by
        /\ rows[d][v].acted => rows'[d][v].acted

(* A new row cites what a sweep has read, or what an older row cites.      *)
Sourced ==
    \A d \in Decisions : \A v \in DOMAIN rows'[d] :
        \/ v \in DOMAIN rows[d]
        \/ \E r \in Runners : /\ At(r, "insert") /\ Doing(r) = d
                              /\ rows'[d][v].cites = sweep[r].cites
        \/ \E w \in DOMAIN rows[d] : rows'[d][v].cites = rows[d][w].cites

LEMMA AppendRow ==
    ASSUME NEW d, NEW s \in Seq(Row(d)), NEW row \in Row(d)
    PROVE  /\ Append(s, row) \in Seq(Row(d))
           /\ Len(Append(s, row)) = Len(s) + 1
           /\ DOMAIN Append(s, row) = DOMAIN s \cup {Len(s) + 1}
           /\ Len(s) + 1 \notin DOMAIN s
           /\ \A v \in DOMAIN s : Append(s, row)[v] = s[v]
           /\ Append(s, row)[Len(s) + 1] = row
  OBVIOUS

(* The row a sweep inserts.                                                *)
Written(r) ==
    [by |-> "runner", outcome |-> sweep[r].outcome, acted |-> Doing(r) \in Automatic,
     cites |-> sweep[r].cites, stale |-> FALSE]

LEMMA SweepFacts ==
    ASSUME ShapeOK, NEW r \in Runners
    PROVE  /\ sweep[r] \in Visits
           /\ sweep[r].at \in DOMAIN Order
           /\ Doing(r) \in Decisions
           /\ At(r, "insert") => Written(r) \in Row(Doing(r))
  <1>1. sweep[r] \in Visits /\ sweep[r].at \in DOMAIN Order
    BY DEF ShapeOK, SweepsOK, Visits
  <1>2. Doing(r) \in Decisions
    BY <1>1, Plan DEF Doing
  <1>3. ASSUME At(r, "insert") PROVE Written(r) \in Row(Doing(r))
    <2>1. /\ sweep[r].outcome \in Outcomes[Doing(r)]
          /\ sweep[r].cites \in [Upstream[Doing(r)] -> Nat]
      BY <1>3 DEF ShapeOK, SweepsOK, At
    <2> QED
      BY <2>1 DEF Written, Row
  <1> QED
    BY <1>1, <1>2, <1>3

LEMMA InsertedRow ==
    ASSUME ShapeOK, NEW r \in Runners, At(r, "insert"), Insert(r)
    PROVE  /\ rows'[Doing(r)] = Append(rows[Doing(r)], Written(r))
           /\ \A e \in Decisions \ {Doing(r)} : rows'[e] = rows[e]
           /\ proposed' = [proposed EXCEPT ![Doing(r)] = @ \cup {sweep[r].outcome}]
           /\ RowsOK' /\ Grow /\ Sourced
  <1> DEFINE d == Doing(r)
  <1>1. rows' = [rows EXCEPT ![d] = Append(rows[d], Written(r))]
    BY Zenon DEF Insert, Written
  <1>2. /\ d \in Decisions /\ Written(r) \in Row(d)
        /\ rows = [e \in Decisions |-> rows[e]] /\ rows[d] \in Seq(Row(d))
    BY SweepFacts DEF ShapeOK, RowsOK
  <1>3. /\ rows' = [e \in Decisions |-> rows'[e]]
        /\ rows'[d] = Append(rows[d], Written(r))
        /\ \A e \in Decisions \ {d} : rows'[e] = rows[e]
    BY <1>1, <1>2
  <1>4. /\ rows'[d] \in Seq(Row(d))
        /\ DOMAIN rows'[d] = DOMAIN rows[d] \cup {Len(rows[d]) + 1}
        /\ \A v \in DOMAIN rows[d] : rows'[d][v] = rows[d][v]
        /\ rows'[d][Len(rows[d]) + 1] = Written(r)
    BY <1>2, <1>3, AppendRow
  <1>5. RowsOK'
    BY <1>3, <1>4 DEF ShapeOK, RowsOK, Row
  <1>6. Grow
    BY <1>3, <1>4 DEF Grow
  <1>7. Written(r).cites = sweep[r].cites
    BY DEF Written
  <1>8. Sourced
    BY <1>3, <1>4, <1>7 DEF Sourced
  <1> QED
    BY <1>3, <1>5, <1>6, <1>8 DEF Insert

(* The row of a review: acted on, the outcome as it was or imposed.        *)
LEMMA ReviewedRow ==
    ASSUME ShapeOK, NEW h \in Reviewers, Approve(h) \/ Override(h)
    PROVE  /\ \A e \in Decisions : DOMAIN rows'[e] = DOMAIN rows[e]
           /\ \A e \in Decisions \ {desk[h].decision} : rows'[e] = rows[e]
           /\ \A v \in DOMAIN rows[desk[h].decision] \ {desk[h].version} :
                 rows'[desk[h].decision][v] = rows[desk[h].decision][v]
           /\ rows'[desk[h].decision][desk[h].version].acted
           /\ RowsOK' /\ Grow /\ Sourced
  <1> DEFINE d == desk[h].decision
             v == desk[h].version
  <1>1. /\ d \in Decisions /\ v \in DOMAIN rows[d]
        /\ rows = [e \in Decisions |-> rows[e]] /\ rows[d] \in Seq(Row(d))
    BY DEF ShapeOK, RowsOK, DeskOK, Approve, Override
  <1>2. rows[d][v] \in Row(d)
    BY <1>1
  <1>3. PICK row \in Row(d) : /\ rows' = [rows EXCEPT ![d][v] = row]
                              /\ row.acted /\ row.cites = rows[d][v].cites
                              /\ row.by = rows[d][v].by
    <2>1. CASE Approve(h)
      <3> DEFINE row == [rows[d][v] EXCEPT !.acted = TRUE]
      <3>1. row \in Row(d) /\ row.acted /\ row.cites = rows[d][v].cites /\ row.by = rows[d][v].by
        BY <1>2 DEF Row
      <3>2. rows' = [rows EXCEPT ![d][v] = row]
        BY <2>1, <1>1 DEF Approve
      <3> QED
        BY <3>1, <3>2
    <2>2. CASE Override(h)
      <3>1. PICK o \in Outcomes[d] :
                rows' = [rows EXCEPT ![d][v] = [rows[d][v] EXCEPT !.acted = TRUE, !.outcome = o]]
        BY <2>2, <1>1 DEF Override
      <3> DEFINE row == [rows[d][v] EXCEPT !.acted = TRUE, !.outcome = o]
      <3>2. row \in Row(d) /\ row.acted /\ row.cites = rows[d][v].cites /\ row.by = rows[d][v].by
        BY <1>2 DEF Row
      <3> QED
        BY <3>1, <3>2
    <2> QED
      BY <2>1, <2>2
  <1>4. /\ rows' = [e \in Decisions |-> rows'[e]]
        /\ \A e \in Decisions \ {d} : rows'[e] = rows[e]
        /\ rows'[d] = [rows[d] EXCEPT ![v] = row]
    BY <1>1, <1>3
  <1>5. /\ rows'[d] \in Seq(Row(d)) /\ DOMAIN rows'[d] = DOMAIN rows[d]
        /\ rows'[d][v] = row
        /\ \A w \in DOMAIN rows[d] \ {v} : rows'[d][w] = rows[d][w]
    BY <1>1, <1>4
  <1>6. RowsOK'
    BY <1>4, <1>5 DEF ShapeOK, RowsOK, Row
  <1>7. Grow
    BY <1>3, <1>4, <1>5 DEF Grow
  <1>8. Sourced
    BY <1>4, <1>5 DEF Sourced
  <1> QED
    BY <1>3, <1>4, <1>5, <1>6, <1>7, <1>8

(* A revert appends one row to the decision's, and only marks others.      *)
LEMMA RevertedRow ==
    ASSUME ShapeOK, NEW h \in Reviewers, Revert(h), Latest(desk[h].decision) = desk[h].version
    PROVE  /\ rows'[desk[h].decision] = Append(rows[desk[h].decision], Reopened(h))
           /\ Reopened(h) \in Row(desk[h].decision)
           /\ Reopened(h).by = "revert"
           /\ Reopened(h).outcome = IF reviewed[desk[h].decision] = None THEN desk[h].outcome
                                    ELSE reviewed[desk[h].decision]
           /\ \A e \in Decisions \ {desk[h].decision} :
                 /\ DOMAIN rows'[e] = DOMAIN rows[e]
                 /\ \A v \in DOMAIN rows[e] :
                       /\ rows'[e][v].acted = rows[e][v].acted
                       /\ rows'[e][v].outcome = rows[e][v].outcome
                       /\ rows'[e][v].by = rows[e][v].by
           /\ RowsOK' /\ Grow /\ Sourced
  <1> DEFINE d == desk[h].decision
             v == desk[h].version
  <1>1. /\ d \in Decisions /\ v \in DOMAIN rows[d] /\ desk[h].outcome \in Outcomes[d]
        /\ rows = [e \in Decisions |-> rows[e]] /\ \A e \in Decisions : rows[e] \in Seq(Row(e))
        /\ reviewed[d] \in Outcomes[d] \cup {None}
    BY DEF ShapeOK, RowsOK, DeskOK, TimelineOK, Revert
  <1>2. rows[d][v] \in Row(d)
    BY <1>1
  <1>3. /\ Reopened(h) \in Row(d) /\ Reopened(h).by = "revert"
        /\ Reopened(h).outcome = IF reviewed[d] = None THEN desk[h].outcome ELSE reviewed[d]
        /\ Reopened(h).cites = rows[d][v].cites
    BY <1>1, <1>2 DEF Reopened, Row
  <1> DEFINE mark(e) == e \in Downstream(d) /\ rows[e] # <<>>
  <1>4. rows' = [e \in Decisions |->
                    IF e = d THEN Append(rows[d], Reopened(h))
                    ELSE IF mark(e) THEN [rows[e] EXCEPT ![Latest(e)].stale = TRUE]
                    ELSE rows[e]]
    BY DEF Revert
  <1> HIDE DEF mark
  <1>5. /\ rows' = [e \in Decisions |-> rows'[e]] /\ rows'[d] = Append(rows[d], Reopened(h))
    BY <1>1, <1>4
  <1>6. ASSUME NEW e \in Decisions \ {d}
        PROVE  /\ rows'[e] \in Seq(Row(e)) /\ DOMAIN rows'[e] = DOMAIN rows[e]
               /\ \A w \in DOMAIN rows[e] : /\ rows'[e][w].acted = rows[e][w].acted
                                            /\ rows'[e][w].outcome = rows[e][w].outcome
                                            /\ rows'[e][w].by = rows[e][w].by
                                            /\ rows'[e][w].cites = rows[e][w].cites
    <2>1. CASE ~mark(e)
      BY <2>1, <1>1, <1>4
    <2>2. CASE mark(e)
      <3>1. rows'[e] = [rows[e] EXCEPT ![Latest(e)] = [rows[e][Latest(e)] EXCEPT !.stale = TRUE]]
        BY <2>2, <1>4
      <3>2. rows[e] \in Seq(Row(e)) /\ Latest(e) \in DOMAIN rows[e]
        BY <2>2, <1>1 DEF mark, Latest
      <3> DEFINE row == [rows[e][Latest(e)] EXCEPT !.stale = TRUE]
                 old == rows[e][Latest(e)]
      <3>3. old \in Row(e)
        BY <3>2
      <3>4. row \in Row(e) /\ row.acted = old.acted /\ row.outcome = old.outcome
            /\ row.by = old.by /\ row.cites = old.cites
        BY <3>3 DEF Row
      <3> HIDE DEF row
      <3>5. rows'[e] \in Seq(Row(e)) /\ DOMAIN rows'[e] = DOMAIN rows[e]
        BY <3>1, <3>2, <3>4 DEF row
      <3>6. ASSUME NEW w \in DOMAIN rows[e] PROVE rows'[e][w] = IF w = Latest(e) THEN row ELSE rows[e][w]
        BY <3>1, <3>2 DEF row
      <3> QED
        BY <3>4, <3>5, <3>6
    <2> QED
      BY <2>1, <2>2
  <1>7. /\ rows'[d] \in Seq(Row(d))
        /\ DOMAIN rows'[d] = DOMAIN rows[d] \cup {Len(rows[d]) + 1}
        /\ \A w \in DOMAIN rows[d] : rows'[d][w] = rows[d][w]
        /\ rows'[d][Len(rows[d]) + 1] = Reopened(h)
    <2>1. rows[d] \in Seq(Row(d))
      BY <1>1
    <2> HIDE DEF d
    <2> QED
      BY <2>1, <1>3, <1>5, AppendRow
  <1>8. RowsOK'
    BY <1>5, <1>6, <1>7 DEF RowsOK, Row
  <1>9. Grow
    BY <1>6, <1>7 DEF Grow
  <1>10. Sourced
    <2>1. rows'[d][Len(rows[d]) + 1].cites = rows[d][v].cites
      BY <1>3, <1>7
    <2> HIDE DEF d, v
    <2>2. ASSUME NEW e \in Decisions, NEW w \in DOMAIN rows'[e], w \notin DOMAIN rows[e]
          PROVE  \E x \in DOMAIN rows[e] : rows'[e][w].cites = rows[e][x].cites
      <3>1. e = d
        BY <1>6, <2>2
      <3>2. w = Len(rows[d]) + 1
        BY <1>7, <2>2, <3>1
      <3> QED
        BY <1>1, <2>1, <3>1, <3>2
    <2> QED
      BY <2>2 DEF Sourced
  <1> QED
    BY <1>3, <1>5, <1>6, <1>8, <1>9, <1>10

-----------------------------------------------------------------------------
LEMMA RowsStep ==
    ASSUME ShapeOK, [Next]_vars
    PROVE  RowsOK' /\ Grow /\ Sourced
  <1>1. CASE UNCHANGED rows
    BY <1>1 DEF ShapeOK, RowsOK, Row, Grow, Sourced
  <1>2. ASSUME NEW r \in Runners, Sweep(r) \/ Fault(r) PROVE RowsOK' /\ Grow /\ Sourced
    <2>1. CASE Commit(r) \/ AnswerLost(r)
      BY <2>1, InsertedRow DEF Commit, AnswerLost
    <2>2. CASE ~(Commit(r) \/ AnswerLost(r))
      BY <2>2, <1>1, <1>2 DEF Sweep, Fault, Poll, Evaluate, BeginWrite, UniqueViolation,
                              ConnectionLost, Abort
    <2> QED
      BY <2>1, <2>2
  <1>3. ASSUME NEW h \in Reviewers, Act(h) PROVE RowsOK' /\ Grow /\ Sourced
    <2>1. CASE Approve(h) \/ Override(h)
      BY <2>1, ReviewedRow
    <2>2. CASE Revert(h) /\ Latest(desk[h].decision) = desk[h].version
      BY <2>2, RevertedRow
    <2>3. CASE Revert(h) /\ Latest(desk[h].decision) # desk[h].version
      BY <2>3, <1>1 DEF Revert
    <2> QED
      BY <1>3, <2>1, <2>2, <2>3 DEF Act
  <1>4. ASSUME NEW h \in Reviewers, NEW d \in Decisions, Select(h, d) PROVE RowsOK' /\ Grow /\ Sourced
    BY <1>1, <1>4 DEF Select
  <1>5. CASE UNCHANGED vars
    BY <1>1, <1>5 DEF vars
  <1> QED
    BY <1>2, <1>3, <1>4, <1>5 DEF Next

(* What is ready or backed stays so.                                       *)
LEMMA StaysBacked ==
    ASSUME ShapeOK, Grow, NEW d \in Decisions
    PROVE  /\ Ready(d) => \A u \in Upstream[d] : \E w \in DOMAIN rows'[u] : Final(u, w)'
           /\ \A cites : Backed(d, cites) =>
                \A u \in Upstream[d] : \E w \in 1 .. cites[u] : w \in DOMAIN rows'[u] /\ Final(u, w)'
  <1>1. \A u \in Upstream[d] : u \in Decisions
    BY CronAssumption
  <1>2. \A u \in Decisions : \A w \in DOMAIN rows[u] :
            w \in DOMAIN rows'[u] /\ (Final(u, w) => Final(u, w)')
    BY DEF Grow, Final
  <1>3. Ready(d) => \A u \in Upstream[d] : \E w \in DOMAIN rows'[u] : Final(u, w)'
    BY <1>1, <1>2 DEF Ready
  <1>4. ASSUME NEW cites, Backed(d, cites)
        PROVE \A u \in Upstream[d] : \E w \in 1 .. cites[u] : w \in DOMAIN rows'[u] /\ Final(u, w)'
    BY <1>1, <1>2, <1>4 DEF Backed
  <1> QED
    BY <1>3, <1>4

(* Where a sweep may be after a step: beyond a poll only on the decision   *)
(* it was on, which is ready, and which had no row if the step passed the  *)
(* poll.                                                                   *)
Moves(r, s) ==
    /\ s \in Visits
    /\ s.outcome \in Outcomes[Order[s.at]] \cup {None}
    /\ s.step # "poll" => s.at = sweep[r].at /\ Ready(Doing(r))
    /\ s.step # "poll" /\ sweep[r].step = "poll" => rows[Doing(r)] = <<>>
    /\ s.step \in {"write", "insert"} =>
          /\ s.outcome \in Outcomes[Doing(r)]
          /\ s.cites \in [Upstream[Doing(r)] -> Nat]
          /\ Backed(Doing(r), s.cites)

LEMMA NextVisit ==
    ASSUME ShapeOK, NEW r \in Runners, NEW i \in DOMAIN Order
    PROVE  /\ Moves(r, After(i)) /\ After(i).step = "poll"
           /\ Moves(r, Visit(i)) /\ Visit(i).step = "poll"
  <1>1. ASSUME NEW j \in DOMAIN Order PROVE Moves(r, Visit(j)) /\ Visit(j).step = "poll"
    BY Plan DEF Moves, Visit
  <1> QED
    BY <1>1, Plan

LEMMA RetryMoves ==
    ASSUME ShapeOK, GateOK, NEW r \in Runners, sweep[r].step # "poll", Retry(r)
    PROVE  \E s : Moves(r, s) /\ sweep' = [sweep EXCEPT ![r] = s]
  <1>1. sweep[r] \in Visits /\ sweep[r].at \in DOMAIN Order /\ Visit(sweep[r].at) \in Visits
    BY SweepFacts, Plan
  <1>2. CASE sweep[r].try = 1
    <2> DEFINE s == [Visit(sweep[r].at) EXCEPT !.step = "evaluate", !.try = 2]
    <2>1. sweep' = [sweep EXCEPT ![r] = s]
      BY <1>2 DEF Retry
    <2>2. s \in Visits /\ s.step = "evaluate" /\ s.at = sweep[r].at /\ s.outcome = None
      BY <1>1 DEF Visits, Visit, Steps
    <2>3. Ready(Doing(r))
      BY DEF GateOK
    <2> HIDE DEF s
    <2>4. Moves(r, s)
      BY <2>2, <2>3 DEF Moves
    <2> QED
      BY <2>1, <2>4
  <1>3. CASE sweep[r].try # 1
    <2>1. sweep' = [sweep EXCEPT ![r] = After(sweep[r].at)]
      BY <1>3 DEF Retry
    <2> QED
      BY <1>1, <2>1, NextVisit
  <1> QED
    BY <1>2, <1>3

LEMMA RunnerMoves ==
    ASSUME ShapeOK, GateOK, NEW r \in Runners, Sweep(r) \/ Fault(r)
    PROVE  \E s : Moves(r, s) /\ sweep' = [sweep EXCEPT ![r] = s]
  <1> DEFINE d == Doing(r)
  <1>1. /\ sweep[r] \in Visits /\ sweep[r].at \in DOMAIN Order
        /\ d \in Decisions /\ Order[sweep[r].at] = d
        /\ sweep[r].outcome \in Outcomes[d] \cup {None}
        /\ \A u \in Upstream[d] : u \in Decisions
    BY SweepFacts, CronAssumption DEF Doing, ShapeOK, SweepsOK
  <1>2. \A u \in Decisions : Latest(u) \in Nat /\ DOMAIN rows[u] = 1 .. Latest(u)
    BY DEF ShapeOK, RowsOK, Latest
  <1>3. CASE Poll(r)
    <2>1. CASE ~Pending(d)
      <3>1. sweep' = [sweep EXCEPT ![r] = After(sweep[r].at)]
        BY <1>3, <2>1 DEF Poll
      <3> QED
        BY <1>1, <3>1, NextVisit
    <2>2. CASE Pending(d)
      <3> DEFINE s == [sweep[r] EXCEPT !.step = "evaluate"]
      <3>1. sweep' = [sweep EXCEPT ![r] = s]
        BY <1>3, <2>2 DEF Poll
      <3>2. s \in Visits /\ s.step = "evaluate" /\ s.at = sweep[r].at /\ s.outcome = sweep[r].outcome
        BY <1>1 DEF Visits, Steps
      <3>3. Ready(d) /\ rows[d] = <<>>
        BY <2>2 DEF Pending, Ready
      <3> HIDE DEF s
      <3>4. Moves(r, s)
        BY <1>1, <3>2, <3>3 DEF Moves
      <3> QED
        BY <3>1, <3>4
    <2> QED
      BY <2>1, <2>2
  <1>4. CASE Evaluate(r)
    <2> DEFINE cites == [u \in Upstream[d] |-> Latest(u)]
    <2>1. PICK o \in Outcomes[d] :
              sweep' = [sweep EXCEPT ![r].step = "write", ![r].cites = cites, ![r].outcome = o]
      BY <1>4 DEF Evaluate
    <2> DEFINE s == [sweep[r] EXCEPT !.step = "write", !.cites = cites, !.outcome = o]
    <2>2. sweep' = [sweep EXCEPT ![r] = s]
      BY <2>1, <1>1 DEF ShapeOK, SweepsOK, Visits
    <2>3. Ready(d) /\ sweep[r].step = "evaluate"
      BY <1>4 DEF GateOK, Evaluate, At
    <2>4. cites \in [Upstream[d] -> Nat]
      BY <1>1, <1>2
    <2>5. Backed(d, cites)
      BY <1>1, <1>2, <2>3 DEF Ready, Backed
    <2>6. /\ s \in Visits /\ s.step = "write" /\ s.at = sweep[r].at /\ s.outcome = o
          /\ s.cites = cites
      <3> HIDE DEF cites
      <3>1. cites \in AnyCites /\ o \in AnyOutcome
        BY <2>1, <2>4, <1>1 DEF AnyCites, AnyOutcome
      <3> QED
        BY <1>1, <3>1 DEF Visits, Steps
    <2> HIDE DEF s, cites
    <2>7. Moves(r, s)
      BY <1>1, <2>3, <2>4, <2>5, <2>6 DEF Moves
    <2> QED
      BY <2>2, <2>7
  <1>5. CASE BeginWrite(r)
    <2> DEFINE s == [sweep[r] EXCEPT !.step = "insert", !.version = Latest(d) + 1]
    <2>1. sweep' = [sweep EXCEPT ![r] = s]
      BY <1>5, <1>1 DEF BeginWrite, ShapeOK, SweepsOK, Visits
    <2>2. Latest(d) + 1 \in Nat
      BY <1>1, <1>2
    <2>3. /\ s \in Visits /\ s.step = "insert" /\ s.at = sweep[r].at
          /\ s.outcome = sweep[r].outcome /\ s.cites = sweep[r].cites
      BY <1>1, <2>2 DEF Visits, Steps
    <2>4. sweep[r].step = "write"
      BY <1>5 DEF BeginWrite, At
    <2>5. /\ Ready(d) /\ Backed(d, sweep[r].cites)
          /\ sweep[r].outcome \in Outcomes[d] /\ sweep[r].cites \in [Upstream[d] -> Nat]
      BY <2>4 DEF GateOK, ShapeOK, SweepsOK
    <2> HIDE DEF s
    <2>6. Moves(r, s)
      BY <1>1, <2>3, <2>4, <2>5 DEF Moves
    <2> QED
      BY <2>1, <2>6
  <1>6. CASE Commit(r) \/ UniqueViolation(r)
    <2>1. sweep' = [sweep EXCEPT ![r] = After(sweep[r].at)]
      BY <1>6 DEF Commit, UniqueViolation
    <2> QED
      BY <1>1, <2>1, NextVisit
  <1>7. CASE ConnectionLost(r) \/ AnswerLost(r)
    BY <1>7, RetryMoves DEF ConnectionLost, AnswerLost, At
  <1>8. CASE Abort(r)
    BY <1>8, Plan, NextVisit DEF Abort
  <1> QED
    BY <1>3, <1>4, <1>5, <1>6, <1>7, <1>8 DEF Sweep, Fault

-----------------------------------------------------------------------------
(* Every sweep stays where it is or moves.                                 *)
LEMMA SweepStep ==
    ASSUME ShapeOK, GateOK, [Next]_vars
    PROVE  /\ sweep' \in [Runners -> Visits]
           /\ \A q \in Runners : sweep'[q] = sweep[q] \/ Moves(q, sweep'[q])
  <1>1. CASE UNCHANGED sweep
    BY <1>1 DEF ShapeOK, SweepsOK
  <1>2. ASSUME NEW r \in Runners, Sweep(r) \/ Fault(r)
        PROVE  /\ sweep' \in [Runners -> Visits]
               /\ \A q \in Runners : sweep'[q] = sweep[q] \/ Moves(q, sweep'[q])
    <2>1. PICK s : Moves(r, s) /\ sweep' = [sweep EXCEPT ![r] = s]
      BY <1>2, RunnerMoves
    <2>2. s \in Visits
      BY <2>1 DEF Moves
    <2>3. /\ sweep' \in [Runners -> Visits] /\ sweep'[r] = s
          /\ \A q \in Runners \ {r} : sweep'[q] = sweep[q]
      BY <2>1, <2>2 DEF ShapeOK, SweepsOK
    <2> QED
      BY <2>1, <2>3
  <1>3. ASSUME NEW h \in Reviewers, Act(h) \/ \E d \in Decisions : Select(h, d)
        PROVE  UNCHANGED sweep
    BY <1>3 DEF Act, Approve, Override, Revert, Select
  <1>4. CASE \E h \in Reviewers : Act(h) \/ \E d \in Decisions : Select(h, d)
    <2>1. UNCHANGED sweep
      BY <1>3, <1>4
    <2> QED
      BY <1>1, <2>1
  <1>5. CASE UNCHANGED vars
    BY <1>1, <1>5 DEF vars
  <1>6. CASE \E r \in Runners : Sweep(r) \/ Fault(r)
    BY <1>2, <1>6
  <1> QED
    BY <1>4, <1>5, <1>6 DEF Next

LEMMA SweepsStep ==
    ASSUME ShapeOK, GateOK, [Next]_vars
    PROVE  SweepsOK'
  <1>1. ASSUME NEW q \in Runners
        PROVE  /\ sweep'[q].outcome \in Outcomes[Order[sweep'[q].at]] \cup {None}
               /\ sweep'[q].step \in {"write", "insert"} =>
                    /\ sweep'[q].outcome \in Outcomes[Order[sweep'[q].at]]
                    /\ sweep'[q].cites \in [Upstream[Order[sweep'[q].at]] -> Nat]
    <2>1. CASE sweep'[q] = sweep[q]
      BY <2>1 DEF ShapeOK, SweepsOK, Doing
    <2>2. CASE Moves(q, sweep'[q])
      BY <2>2 DEF Moves, Doing
    <2> QED
      BY <2>1, <2>2, SweepStep
  <1> QED
    BY <1>1, SweepStep DEF SweepsOK, Doing

LEMMA GateStep ==
    ASSUME ShapeOK, GateOK, [Next]_vars
    PROVE  GateOK'
  <1>0. Grow /\ Sourced
    BY RowsStep
  <1>1. ASSUME NEW d \in Decisions, NEW v \in DOMAIN rows'[d] PROVE Backed(d, rows[d][v].cites)'
    <2>1. PICK cites : Backed(d, cites) /\ rows'[d][v].cites = cites
      <3>1. CASE v \in DOMAIN rows[d]
        BY <1>0, <3>1 DEF Grow, GateOK
      <3>2. CASE \E r \in Runners : /\ At(r, "insert") /\ Doing(r) = d
                                    /\ rows'[d][v].cites = sweep[r].cites
        BY <3>2 DEF GateOK, At
      <3>3. CASE \E w \in DOMAIN rows[d] : rows'[d][v].cites = rows[d][w].cites
        BY <3>3 DEF GateOK
      <3> QED
        BY <1>0, <3>1, <3>2, <3>3 DEF Sourced
    <2> QED
      BY <1>0, <2>1, StaysBacked DEF Backed
  <1>2. ASSUME NEW q \in Runners
        PROVE  /\ sweep'[q].step # "poll" => Ready(Doing(q))'
               /\ sweep'[q].step \in {"write", "insert"} => Backed(Doing(q), sweep[q].cites)'
    <2>1. /\ sweep'[q].step # "poll" => Ready(Doing(q))
          /\ sweep'[q].step \in {"write", "insert"} => Backed(Doing(q), sweep'[q].cites)
          /\ sweep'[q].step # "poll" => sweep'[q].at = sweep[q].at
      BY SweepStep DEF Moves, GateOK
    <2>2. Doing(q) \in Decisions
      BY SweepFacts
    <2>3. sweep'[q].step # "poll" => Doing(q)' = Doing(q)
      BY <2>1 DEF Doing
    <2> DEFINE d == Doing(q)
               cites == sweep'[q].cites
    <2>4. /\ Ready(d) => \A u \in Upstream[d] : \E w \in DOMAIN rows'[u] : Final(u, w)'
          /\ Backed(d, cites) =>
                \A u \in Upstream[d] : \E w \in 1 .. cites[u] : w \in DOMAIN rows'[u] /\ Final(u, w)'
      BY <1>0, <2>2, StaysBacked
    <2>5. sweep'[q].step # "poll" => Ready(Doing(q))'
      BY <2>1, <2>3, <2>4 DEF Ready
    <2>6. sweep'[q].step \in {"write", "insert"} => Backed(Doing(q), sweep[q].cites)'
      BY <2>1, <2>3, <2>4 DEF Backed
    <2> QED
      BY <2>5, <2>6
  <1> QED
    BY <1>1, <1>2 DEF GateOK

LEMMA CountersStep ==
    ASSUME ShapeOK, [Next]_vars
    PROVE  CountersOK' /\ lost \subseteq lost'
  <1>1. CountersOK /\ MaxUpsets \in Nat
    BY CronAssumption DEF ShapeOK
  <1>2. \/ UNCHANGED <<faults, reverts>>
        \/ faults + reverts < MaxUpsets /\ faults' = faults + 1 /\ reverts' = reverts
        \/ faults + reverts < MaxUpsets /\ faults' = faults /\ reverts' = reverts + 1
    <2>1. ASSUME NEW r \in Runners, Sweep(r) PROVE UNCHANGED <<faults, reverts>>
      BY <2>1 DEF Sweep, Poll, Evaluate, BeginWrite, Commit, UniqueViolation
    <2>2. ASSUME NEW r \in Runners, Fault(r)
          PROVE  faults + reverts < MaxUpsets /\ faults' = faults + 1 /\ reverts' = reverts
      BY <2>2 DEF Fault, ConnectionLost, AnswerLost, Abort
    <2>3. ASSUME NEW h \in Reviewers, NEW d \in Decisions, Approve(h) \/ Override(h) \/ Select(h, d)
          PROVE  UNCHANGED <<faults, reverts>>
      BY <2>3 DEF Approve, Override, Select
    <2>4. ASSUME NEW h \in Reviewers, Approve(h) \/ Override(h) PROVE UNCHANGED <<faults, reverts>>
      BY <2>4 DEF Approve, Override
    <2>5. ASSUME NEW h \in Reviewers, Revert(h)
          PROVE faults + reverts < MaxUpsets /\ faults' = faults /\ reverts' = reverts + 1
      BY <2>5 DEF Revert
    <2> QED
      BY <2>1, <2>2, <2>3, <2>4, <2>5 DEF Next, Act, vars
  <1>3. \/ lost' = lost
        \/ \E r \in Runners : AnswerLost(r) /\ lost' = lost \cup {Doing(r)}
    BY DEF Next, vars, Sweep, Fault, Act, Poll, Evaluate, BeginWrite, Commit, UniqueViolation,
           ConnectionLost, AnswerLost, Abort, Select, Approve, Override, Revert
  <1>4. \A r \in Runners : Doing(r) \in Decisions
    BY Plan DEF ShapeOK, SweepsOK, Visits, Doing
  <1> QED
    BY <1>1, <1>2, <1>3, <1>4 DEF CountersOK

(* The timeline and the reviewers' rows: types, and whose outcomes they    *)
(* are.                                                                    *)
LEMMA DeskStep ==
    ASSUME ShapeOK, WaitingOK, [Next]_vars
    PROVE  DeskOK' /\ TimelineOK' /\ WaitingOK'
  <1> USE DEF ShapeOK
  <1>0. RowsOK' /\ Grow
    BY RowsStep
  <1>1. CASE UNCHANGED <<desk, reviewed, proposed, rows>>
    BY <1>1 DEF DeskOK, TimelineOK, WaitingOK, WaitingRowsAreTheMachines
  <1>2. ASSUME NEW r \in Runners, Sweep(r) \/ Fault(r) PROVE DeskOK' /\ TimelineOK' /\ WaitingOK'
    <2>1. CASE Commit(r) \/ AnswerLost(r)
      <3> DEFINE d == Doing(r)
      <3>1. /\ At(r, "insert") /\ Insert(r) /\ UNCHANGED <<desk, reviewed>>
        BY <2>1 DEF Commit, AnswerLost
      <3>2. /\ d \in Decisions /\ Written(r) \in Row(d) /\ Written(r).outcome = sweep[r].outcome
            /\ sweep[r].outcome \in Outcomes[d] /\ rows[d] \in Seq(Row(d))
        BY <3>1, SweepFacts DEF SweepsOK, At, Written, RowsOK
      <3>3. /\ rows'[d] = Append(rows[d], Written(r))
            /\ \A e \in Decisions \ {d} : rows'[e] = rows[e]
            /\ proposed' = [proposed EXCEPT ![d] = @ \cup {sweep[r].outcome}]
        BY <3>1, InsertedRow
      <3>4. /\ DOMAIN rows'[d] = DOMAIN rows[d] \cup {Len(rows[d]) + 1}
            /\ \A v \in DOMAIN rows[d] : rows'[d][v] = rows[d][v]
            /\ rows'[d][Len(rows[d]) + 1] = Written(r)
        BY <3>2, <3>3, AppendRow
      <3>5. /\ proposed' = [e \in Decisions |-> proposed'[e]]
            /\ proposed'[d] = proposed[d] \cup {sweep[r].outcome}
            /\ \A e \in Decisions \ {d} : proposed'[e] = proposed[e]
        BY <3>2, <3>3 DEF TimelineOK
      <3>6. TimelineOK'
        BY <3>1, <3>2, <3>5 DEF TimelineOK
      <3>7. DeskOK'
        BY <3>1, <1>0 DEF DeskOK, Grow
      <3>8. \A e \in Decisions : \A v \in DOMAIN rows'[e] :
                \/ v \in DOMAIN rows[e] /\ rows'[e][v] = rows[e][v]
                \/ rows'[e][v].outcome \in proposed'[e]
        BY <3>2, <3>3, <3>4, <3>5
      <3>9. \A e \in Decisions : proposed[e] \subseteq proposed'[e]
        BY <3>5
      <3>10. WaitingRowsAreTheMachines'
        BY <3>8, <3>9 DEF WaitingOK, WaitingRowsAreTheMachines
      <3>11. \A e \in Decisions : reviewed'[e] = None =>
                \A v \in DOMAIN rows'[e] : rows'[e][v].outcome \in proposed'[e]
        BY <3>1, <3>8, <3>9 DEF WaitingOK
      <3>12. \A e \in Decisions : reviewed'[e] # None => reviewed'[e] \in proposed'[e]
        BY <3>1, <3>9 DEF WaitingOK
      <3>13. ASSUME NEW h \in Reviewers, desk'[h] # NoRow, reviewed'[desk'[h].decision] = None
             PROVE  desk'[h].outcome \in proposed'[desk'[h].decision]
        BY <3>1, <3>9, <3>13 DEF WaitingOK, DeskOK
      <3> QED
        BY <3>6, <3>7, <3>10, <3>11, <3>12, <3>13 DEF WaitingOK
    <2>2. CASE ~(Commit(r) \/ AnswerLost(r))
      BY <2>2, <1>1, <1>2 DEF Sweep, Fault, Poll, Evaluate, BeginWrite, UniqueViolation,
                              ConnectionLost, Abort
    <2> QED
      BY <2>1, <2>2
  <1>3. ASSUME NEW h \in Reviewers, NEW d \in Decisions, Select(h, d)
        PROVE DeskOK' /\ TimelineOK' /\ WaitingOK'
    <2>1. /\ rows[d] \in Seq(Row(d)) /\ rows[d] # <<>>
          /\ UNCHANGED <<rows, reviewed, proposed>>
      BY <1>3 DEF Select, RowsOK
    <2> DEFINE pick == [decision |-> d, version |-> Latest(d), outcome |-> rows[d][Latest(d)].outcome]
    <2>2. Latest(d) \in DOMAIN rows[d] /\ Latest(d) \in Nat
      BY <2>1 DEF Latest
    <2>3. rows[d][Latest(d)] \in Row(d)
      BY <2>1, <2>2
    <2>4. rows[d][Latest(d)].outcome \in Outcomes[d]
      BY <2>3 DEF Row
    <2>5. pick \in Picks
      BY <2>2, <2>4 DEF Picks, AnyOutcome
    <2>6. desk' = [desk EXCEPT ![h] = pick]
      BY <1>3 DEF Select
    <2>7. /\ desk' \in [Reviewers -> Picks] /\ desk'[h] = pick
          /\ \A g \in Reviewers \ {h} : desk'[g] = desk[g]
      BY <2>5, <2>6 DEF DeskOK
    <2>8. pick.decision = d /\ pick.version = Latest(d) /\ pick.outcome = rows[d][Latest(d)].outcome
      OBVIOUS
    <2> HIDE DEF pick
    <2>9. DeskOK'
      BY <2>1, <2>2, <2>4, <2>7, <2>8 DEF DeskOK
    <2>10. TimelineOK'
      BY <2>1 DEF TimelineOK
    <2>11. ASSUME NEW g \in Reviewers, desk'[g] # NoRow, reviewed'[desk'[g].decision] = None
           PROVE  desk'[g].outcome \in proposed'[desk'[g].decision]
      BY <2>1, <2>2, <2>7, <2>8, <2>11 DEF WaitingOK
    <2>12. WaitingRowsAreTheMachines'
      BY <2>1 DEF WaitingOK, WaitingRowsAreTheMachines
    <2> QED
      BY <2>1, <2>9, <2>10, <2>11, <2>12 DEF WaitingOK
  <1>4. ASSUME NEW h \in Reviewers, Act(h) PROVE DeskOK' /\ TimelineOK' /\ WaitingOK'
    <2> DEFINE d == desk[h].decision
               v == desk[h].version
    <2>1. /\ desk[h] # NoRow /\ desk' = [desk EXCEPT ![h] = NoRow] /\ UNCHANGED proposed
      BY <1>4 DEF Act, Approve, Override, Revert
    <2>2. /\ d \in Decisions /\ v \in DOMAIN rows[d] /\ desk[h].outcome \in Outcomes[d]
          /\ desk[h].outcome # None
      BY <2>1, CronAssumption DEF DeskOK
    <2>3. /\ desk' \in [Reviewers -> Picks] /\ desk'[h] = NoRow
          /\ \A g \in Reviewers \ {h} : desk'[g] = desk[g]
      BY <2>1 DEF DeskOK, Picks, NoRow
    <2>4. DeskOK'
      BY <1>0, <2>3 DEF DeskOK, Grow
    <2>5. CASE Approve(h) \/ Override(h)
      <3>1. reviewed' = [reviewed EXCEPT ![d] = IF @ = None THEN desk[h].outcome ELSE @]
        BY <2>5 DEF Approve, Override, Log
      <3>2. /\ reviewed' = [e \in Decisions |-> reviewed'[e]]
            /\ reviewed'[d] = IF reviewed[d] = None THEN desk[h].outcome ELSE reviewed[d]
            /\ \A e \in Decisions \ {d} : reviewed'[e] = reviewed[e]
        BY <2>2, <3>1 DEF TimelineOK
      <3>3. reviewed'[d] # None /\ reviewed'[d] \in proposed[d]
        BY <2>1, <2>2, <3>2 DEF WaitingOK
      <3>4. TimelineOK'
        BY <2>1, <2>2, <3>2, <3>3 DEF TimelineOK
      <3>5. /\ \A e \in Decisions : DOMAIN rows'[e] = DOMAIN rows[e]
            /\ \A e \in Decisions \ {d} : rows'[e] = rows[e]
            /\ \A w \in DOMAIN rows[d] \ {v} : rows'[d][w] = rows[d][w]
            /\ rows'[d][v].acted
        BY <2>5, ReviewedRow
      <3>6. WaitingRowsAreTheMachines'
        BY <2>1, <3>5 DEF WaitingOK, WaitingRowsAreTheMachines
      <3>7. \A e \in Decisions : reviewed'[e] = None =>
                e # d /\ rows'[e] = rows[e] /\ reviewed[e] = None
        BY <3>2, <3>3, <3>5
      <3>8. \A e \in Decisions : reviewed'[e] # None => reviewed'[e] \in proposed'[e]
        BY <2>1, <3>2, <3>3 DEF WaitingOK
      <3>9. ASSUME NEW g \in Reviewers, desk'[g] # NoRow, reviewed'[desk'[g].decision] = None
            PROVE  desk'[g].outcome \in proposed'[desk'[g].decision]
        <4>1. g # h /\ desk'[g] = desk[g] /\ desk[g].decision \in Decisions
          BY <2>3, <3>9 DEF DeskOK
        <4> QED
          BY <2>1, <3>7, <3>9, <4>1 DEF WaitingOK
      <3>10. \A e \in Decisions : reviewed'[e] = None =>
                \A w \in DOMAIN rows'[e] : rows'[e][w].outcome \in proposed'[e]
        BY <2>1, <3>7 DEF WaitingOK
      <3> QED
        BY <2>4, <3>4, <3>6, <3>8, <3>9, <3>10 DEF WaitingOK
    <2>6. CASE Revert(h)
      <3>1. UNCHANGED <<reviewed, proposed>>
        BY <2>6 DEF Revert
      <3>2. TimelineOK'
        BY <3>1 DEF TimelineOK
      <3>3. \A e \in Decisions : \A w \in DOMAIN rows'[e] :
               \/ /\ w \in DOMAIN rows[e] /\ rows'[e][w].acted = rows[e][w].acted
                  /\ rows'[e][w].outcome = rows[e][w].outcome
               \/ rows'[e][w].outcome \in proposed[e]
        <4>1. CASE Latest(d) # v
          BY <2>6, <4>1 DEF Revert
        <4>2. CASE Latest(d) = v
          <5>1. /\ rows'[d] = Append(rows[d], Reopened(h)) /\ Reopened(h) \in Row(d)
                /\ Reopened(h).outcome = IF reviewed[d] = None THEN desk[h].outcome ELSE reviewed[d]
                /\ \A e \in Decisions \ {d} :
                     /\ DOMAIN rows'[e] = DOMAIN rows[e]
                     /\ \A w \in DOMAIN rows[e] : /\ rows'[e][w].acted = rows[e][w].acted
                                                  /\ rows'[e][w].outcome = rows[e][w].outcome
            BY <2>6, <4>2, RevertedRow
          <5>2. Reopened(h).outcome \in proposed[d]
            BY <2>1, <2>2, <5>1 DEF WaitingOK
          <5>3. rows[d] \in Seq(Row(d))
            BY <2>2 DEF RowsOK
          <5> HIDE DEF d
          <5>4. /\ DOMAIN rows'[d] = DOMAIN rows[d] \cup {Len(rows[d]) + 1}
                /\ \A w \in DOMAIN rows[d] : rows'[d][w] = rows[d][w]
                /\ rows'[d][Len(rows[d]) + 1] = Reopened(h)
            BY <5>1, <5>3, AppendRow
          <5> QED
            BY <5>1, <5>2, <5>4
        <4> QED
          BY <4>1, <4>2
      <3>4. WaitingRowsAreTheMachines'
        BY <3>1, <3>3 DEF WaitingOK, WaitingRowsAreTheMachines
      <3>5. \A e \in Decisions : reviewed'[e] = None =>
                \A w \in DOMAIN rows'[e] : rows'[e][w].outcome \in proposed'[e]
        BY <3>1, <3>3 DEF WaitingOK
      <3>6. ASSUME NEW g \in Reviewers, desk'[g] # NoRow, reviewed'[desk'[g].decision] = None
            PROVE  desk'[g].outcome \in proposed'[desk'[g].decision]
        <4>1. g # h /\ desk'[g] = desk[g]
          BY <2>3, <3>6
        <4> QED
          BY <3>1, <3>6, <4>1 DEF WaitingOK
      <3> QED
        BY <2>4, <3>1, <3>2, <3>4, <3>5, <3>6 DEF WaitingOK
    <2> QED
      BY <1>4, <2>5, <2>6 DEF Act
  <1> QED
    <2>1. CASE UNCHANGED vars
      BY <2>1, <1>1 DEF vars
    <2> QED
      BY <1>2, <1>3, <1>4, <2>1 DEF Next

-----------------------------------------------------------------------------
(* Counting the rows of a decision and the sweeps still writing one.       *)
LEMMA CountFacts ==
    ASSUME ShapeOK, NEW d \in Decisions
    PROVE  /\ IsFiniteSet(MachineRows(d)) /\ Cardinality(MachineRows(d)) \in Nat
           /\ IsFiniteSet(Writing(d)) /\ Cardinality(Writing(d)) \in Nat
           /\ Cardinality(Runners) \in Nat
           /\ \A W \in SUBSET Runners : /\ IsFiniteSet(W) /\ Cardinality(W) \in Nat
                                        /\ Cardinality(W) <= Cardinality(Runners)
           /\ \A W \in SUBSET Writing(d) : /\ Cardinality(W) \in Nat
                                           /\ Cardinality(W) <= Cardinality(Writing(d))
  <1>1. rows[d] \in Seq(Row(d))
    BY DEF ShapeOK, RowsOK
  <1>2. MachineRows(d) \in SUBSET (1 .. Len(rows[d])) /\ Len(rows[d]) \in Nat
    BY <1>1 DEF MachineRows
  <1>3. IsFiniteSet(1 .. Len(rows[d]))
    BY <1>2, FS_Interval
  <1>4. IsFiniteSet(MachineRows(d)) /\ Cardinality(MachineRows(d)) \in Nat
    BY <1>2, <1>3, FS_Subset, FS_CardinalityType
  <1>5. Cardinality(Runners) \in Nat /\ IsFiniteSet(Runners)
    BY CronAssumption, FS_CardinalityType
  <1>6. \A W \in SUBSET Runners : /\ IsFiniteSet(W) /\ Cardinality(W) \in Nat
                                  /\ Cardinality(W) <= Cardinality(Runners)
    BY <1>5, FS_Subset, FS_CardinalityType
  <1>7. Writing(d) \in SUBSET Runners
    BY DEF Writing
  <1>8. \A W \in SUBSET Writing(d) : /\ Cardinality(W) \in Nat
                                     /\ Cardinality(W) <= Cardinality(Writing(d))
    BY <1>6, <1>7, FS_Subset, FS_CardinalityType
  <1> QED
    BY <1>1, <1>4, <1>5, <1>6, <1>7, <1>8

(* An insert is the runner's own row; the sweeps still writing are fewer,  *)
(* or the decision is one of which an answer was lost.                     *)
LEMMA CountInsert ==
    ASSUME ShapeOK, GateOK, CountOK, NEW r \in Runners, Commit(r) \/ AnswerLost(r),
           NEW d \in Decisions \ lost'
    PROVE  Cardinality(MachineRows(d)') + Cardinality(Writing(d)') <= Cardinality(Runners)
  <1>1. At(r, "insert") /\ Insert(r) /\ sweep[r].step # "poll"
    BY DEF Commit, AnswerLost, At
  <1>2. PICK s : Moves(r, s) /\ sweep' = [sweep EXCEPT ![r] = s]
    BY RunnerMoves DEF Sweep, Fault
  <1>3. sweep'[r] = s /\ \A q \in Runners \ {r} : sweep'[q] = sweep[q]
    BY <1>2 DEF ShapeOK, SweepsOK
  <1>4. Writing(d)' \subseteq Writing(d)
    BY <1>1, <1>2, <1>3 DEF Writing, Moves, Doing
  <1>5. /\ rows'[Doing(r)] = Append(rows[Doing(r)], Written(r))
        /\ \A e \in Decisions \ {Doing(r)} : rows'[e] = rows[e]
    BY <1>1, InsertedRow
  <1>6. Cardinality(MachineRows(d)) + Cardinality(Writing(d)) <= Cardinality(Runners)
    BY DEF CountOK, Commit, AnswerLost
  <1>7. /\ Cardinality(Writing(d)') \in Nat /\ Cardinality(Writing(d)') <= Cardinality(Writing(d))
    BY <1>4, CountFacts
  <1>8. CASE d # Doing(r)
    <2>1. MachineRows(d)' = MachineRows(d)
      BY <1>5, <1>8 DEF MachineRows
    <2> QED
      BY <2>1, <1>6, <1>7, CountFacts
  <1>9. CASE d = Doing(r)
    <2>1. Written(r) \in Row(d) /\ Written(r).by = "runner" /\ rows[d] \in Seq(Row(d))
      BY <1>1, <1>9, SweepFacts DEF Written, ShapeOK, RowsOK
    <2>2. /\ DOMAIN rows'[d] = DOMAIN rows[d] \cup {Len(rows[d]) + 1}
          /\ \A v \in DOMAIN rows[d] : rows'[d][v] = rows[d][v]
          /\ rows'[d][Len(rows[d]) + 1] = Written(r)
      BY <1>5, <1>9, <2>1, AppendRow
    <2>3. MachineRows(d)' = MachineRows(d) \cup {Len(rows[d]) + 1}
      BY <2>1, <2>2 DEF MachineRows
    <2>4. /\ Cardinality(MachineRows(d)') \in Nat
          /\ Cardinality(MachineRows(d)') <= Cardinality(MachineRows(d)) + 1
      <3> DEFINE M == MachineRows(d)
                 n == Len(rows[d]) + 1
      <3>1. IsFiniteSet(M) /\ Cardinality(M) \in Nat
        BY CountFacts
      <3> HIDE DEF M, n
      <3>2. /\ IsFiniteSet(M \cup {n})
            /\ Cardinality(M \cup {n}) = IF n \in M THEN Cardinality(M) ELSE Cardinality(M) + 1
        BY <3>1, FS_AddElement
      <3>3. /\ Cardinality(M \cup {n}) \in Nat
            /\ Cardinality(M \cup {n}) <= Cardinality(M) + 1
        BY <3>1, <3>2, FS_CardinalityType
      <3> QED
        BY <2>3, <3>3 DEF M, n
    <2>5. CASE AnswerLost(r)
      <3>1. d \in lost'
        BY <1>9, <2>5 DEF AnswerLost
      <3> QED
        BY <3>1
    <2>6. CASE Commit(r)
      <3>1. sweep' = [sweep EXCEPT ![r] = After(sweep[r].at)]
        BY <2>6 DEF Commit
      <3>2. sweep'[r].step = "poll"
        BY <3>1, SweepFacts, NextVisit DEF ShapeOK, SweepsOK
      <3>3. Writing(d)' \subseteq Writing(d) \ {r} /\ r \in Writing(d)
        BY <1>1, <1>4, <1>9, <3>2 DEF Writing
      <3>4. /\ IsFiniteSet(Writing(d) \ {r})
            /\ Cardinality(Writing(d) \ {r}) = Cardinality(Writing(d)) - 1
        BY <3>3, CountFacts, FS_RemoveElement
      <3>5. Cardinality(Writing(d)') <= Cardinality(Writing(d)) - 1
        BY <3>3, <3>4, FS_Subset
      <3> QED
        BY <3>1, <3>5, <1>6, <1>7, <2>4, CountFacts
    <2> QED
      BY <2>5, <2>6
  <1> QED
    BY <1>8, <1>9

LEMMA CountStep ==
    ASSUME ShapeOK, GateOK, CountOK, [Next]_vars
    PROVE  CountOK'
  <1>1. CASE \E r \in Runners : Commit(r) \/ AnswerLost(r)
    BY <1>1, CountInsert DEF CountOK
  <1>2. CASE ~ \E r \in Runners : Commit(r) \/ AnswerLost(r)
    <2> SUFFICES ASSUME NEW d \in Decisions \ lost'
                 PROVE  Cardinality(MachineRows(d)') + Cardinality(Writing(d)')
                            <= Cardinality(Runners)
      BY DEF CountOK
    <2>1. MachineRows(d)' = MachineRows(d)
      <3>1. CASE UNCHANGED rows
        BY <3>1 DEF MachineRows
      <3>2. ASSUME NEW r \in Runners, Sweep(r) \/ Fault(r) PROVE UNCHANGED rows
        BY <3>2, <1>2 DEF Sweep, Fault, Poll, Evaluate, BeginWrite, UniqueViolation,
                          ConnectionLost, Abort
      <3>3. ASSUME NEW h \in Reviewers, NEW e \in Decisions, Select(h, e) PROVE UNCHANGED rows
        BY <3>3 DEF Select
      <3>4. ASSUME NEW h \in Reviewers, Act(h) PROVE MachineRows(d)' = MachineRows(d)
        <4>1. CASE Approve(h) \/ Override(h)
          <5>1. DOMAIN rows'[d] = DOMAIN rows[d] /\ Grow
            BY <4>1, ReviewedRow
          <5> QED
            BY <5>1 DEF MachineRows, Grow
        <4>2. CASE Revert(h) /\ Latest(desk[h].decision) = desk[h].version
          <5> DEFINE e == desk[h].decision
          <5>1. /\ rows'[e] = Append(rows[e], Reopened(h)) /\ Reopened(h) \in Row(e)
                /\ Reopened(h).by = "revert" /\ Grow
                /\ d # e => DOMAIN rows'[d] = DOMAIN rows[d]
            BY <4>2, RevertedRow
          <5>2. CASE d # e
            BY <5>1, <5>2 DEF MachineRows, Grow
          <5>3. CASE d = e
            <6>1. rows[d] \in Seq(Row(d))
              BY DEF ShapeOK, RowsOK
            <6>2. /\ DOMAIN rows'[d] = DOMAIN rows[d] \cup {Len(rows[d]) + 1}
                  /\ \A v \in DOMAIN rows[d] : rows'[d][v] = rows[d][v]
                  /\ rows'[d][Len(rows[d]) + 1] = Reopened(h)
              BY <5>1, <5>3, <6>1, AppendRow
            <6> QED
              BY <5>1, <6>2 DEF MachineRows
          <5> QED
            BY <5>2, <5>3
        <4>3. CASE Revert(h) /\ Latest(desk[h].decision) # desk[h].version
          BY <4>3, <3>1 DEF Revert
        <4> QED
          BY <3>4, <4>1, <4>2, <4>3 DEF Act
      <3>5. CASE UNCHANGED vars
        BY <3>5, <3>1 DEF vars
      <3>6. CASE \E r \in Runners : Sweep(r) \/ Fault(r)
        BY <3>1, <3>2, <3>6
      <3>7. CASE \E h \in Reviewers : Act(h) \/ \E e \in Decisions : Select(h, e)
        BY <3>1, <3>3, <3>4, <3>7
      <3> QED
        BY <3>5, <3>6, <3>7 DEF Next
    <2>2. d \in Decisions \ lost
      BY CountersStep
    <2>3. CASE Writing(d)' \subseteq Writing(d)
      <3>1. Cardinality(Writing(d)') \in Nat /\ Cardinality(Writing(d)') <= Cardinality(Writing(d))
        BY <2>3, CountFacts
      <3>2. Cardinality(MachineRows(d)) + Cardinality(Writing(d)) <= Cardinality(Runners)
        BY <2>2 DEF CountOK
      <3> QED
        BY <2>1, <2>2, <3>1, <3>2, CountFacts
    <2>4. CASE ~(Writing(d)' \subseteq Writing(d))
      <3>1. PICK q \in Runners : q \in Writing(d)' /\ q \notin Writing(d)
        BY <2>4 DEF Writing
      <3>2. Moves(q, sweep'[q]) /\ sweep'[q].step # "poll" /\ Doing(q) = d
        BY <3>1, SweepStep DEF Writing, Moves, Doing
      <3>3. rows[d] = <<>>
        BY <3>1, <3>2 DEF Writing, Moves
      <3>4. MachineRows(d)' = {}
        BY <2>1, <3>3 DEF MachineRows
      <3>5. Writing(d)' \in SUBSET Runners
        BY DEF Writing
      <3>6. Cardinality(Writing(d)') \in Nat /\ Cardinality(Writing(d)') <= Cardinality(Runners)
        BY <3>5, CountFacts
      <3>7. Cardinality(MachineRows(d)') = 0
        BY <3>4, FS_EmptySet
      <3> QED
        BY <2>2, <3>6, <3>7, CountFacts
    <2> QED
      BY <2>3, <2>4
  <1> QED
    BY <1>1, <1>2

-----------------------------------------------------------------------------
(* The inductive invariant of the batch path.                              *)
THEOREM CronInvariant == Spec => []CronInv
  <1>1. CronInv /\ [Next]_vars => CronInv'
    <2> SUFFICES ASSUME CronInv, [Next]_vars PROVE CronInv'
      OBVIOUS
    <2>1. ShapeOK /\ GateOK /\ WaitingOK /\ CountOK
      BY DEF CronInv
    <2> QED
      BY <2>1, RowsStep, SweepsStep, GateStep, CountersStep, DeskStep, CountStep
      DEF CronInv, ShapeOK
  <1> QED
    BY CronInit, <1>1, PTL DEF Spec

(* Types of the batch path, for every plan of decisions.                   *)
THEOREM CronTypes == Spec => []TypeOK
  <1>1. CronInv => TypeOK
    <2> SUFFICES ASSUME ShapeOK PROVE TypeOK
      BY DEF CronInv
    <2>1. ASSUME NEW r \in Runners
          PROVE  /\ sweep[r].at \in DOMAIN Order /\ sweep[r].step \in Steps
                 /\ sweep[r].try \in {1, 2} /\ sweep[r].version \in Nat
                 /\ sweep[r].outcome \in Outcomes[Doing(r)] \cup {None}
      BY DEF ShapeOK, SweepsOK, Visits
    <2> QED
      BY <2>1 DEF ShapeOK, RowsOK, TimelineOK, CountersOK, DeskOK, TypeOK, Steps
  <1> QED
    BY CronInvariant, <1>1, PTL

(* No decision is computed from an upstream version behind which nobody    *)
(* stands, whatever happens between the poll and the insert.               *)
THEOREM CronGate == Spec => []EvaluatedBehindTheGate
  <1>1. CronInv => EvaluatedBehindTheGate
    BY DEF CronInv, GateOK, Backed, EvaluatedBehindTheGate
  <1> QED
    BY CronInvariant, <1>1, PTL

(* What waits for a review carries an outcome the machine proposed.        *)
THEOREM CronWaiting == Spec => []WaitingRowsAreTheMachines
  <1>1. CronInv => WaitingRowsAreTheMachines
    BY DEF CronInv, WaitingOK
  <1> QED
    BY CronInvariant, <1>1, PTL

(* Retries, dead sweeps and later passes write nothing twice: a decision   *)
(* of which no commit went unanswered has no more machine rows than there  *)
(* can be sweeps at once, for any number of faults.                        *)
THEOREM CronNoDoubleWrites == Spec => []NoDoubleWrites
  <1>1. CronInv => NoDoubleWrites
    <2> SUFFICES ASSUME ShapeOK, CountOK, NEW d \in Decisions \ lost
                 PROVE  Cardinality(MachineRows(d)) <= Cardinality(Runners)
      BY DEF CronInv, NoDoubleWrites
    <2>1. Cardinality(MachineRows(d)) + Cardinality(Writing(d)) <= Cardinality(Runners)
      BY DEF CountOK
    <2> QED
      BY <2>1, CountFacts
  <1> QED
    BY CronInvariant, <1>1, PTL

=============================================================================
