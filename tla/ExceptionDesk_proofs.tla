------------------------- MODULE ExceptionDesk_proofs -------------------------
(***************************************************************************)
(* Proofs about the exceptions of a decision: for every file, any number   *)
(* of reviewers and of overlapping writers, grants match the authority the *)
(* file asks for, decisions are logged and settle, and writers that do not *)
(* overlap leave one row for a signal.                                     *)
(***************************************************************************)
EXTENDS ExceptionDesk, FiniteSetTheorems, TLAPS

Statuses == {"requested", "under_review", "granted", "denied", "deleted"}

Verdicts == {"under_review", "granted", "denied"}

Exceptions ==
    [signal : Signals, level : Levels \cup {"none"}, status : Statuses,
     by : Reviewers \cup {"nobody"}]

Shape ==
    /\ file \in Files /\ legacy \in BOOLEAN
    /\ rows \in Seq(Exceptions) /\ Len(rows) <= MaxRows
    /\ writer \in [Writers -> SUBSET Signals] /\ overlap \in BOOLEAN
    /\ DOMAIN review = Reviewers
    /\ review = [r \in Reviewers |-> review[r]]
    /\ \A r \in Reviewers : review[r] = Idle \/
          review[r] \in [at : {"update", "log"}, id : DOMAIN rows, to : Verdicts]
    /\ \A e \in log : e[1] \in DOMAIN rows /\ e[2] \in Reviewers
    /\ faults \in 0 .. MaxFaults

(* Every row asks for the level of the file; whoever has decided one, or   *)
(* is about to, covers it.                                                 *)
Covers(r, i) == CanApprove(RoleOf[r], Required(rows[i]), FALSE)

AuthorityOK ==
    /\ \A i \in DOMAIN rows : rows[i].level = Level
    /\ \A i \in DOMAIN rows : rows[i].status = "granted" =>
          rows[i].by \in Reviewers /\ Covers(rows[i].by, i)
    /\ \A r \in Reviewers : review[r] # Idle => Covers(r, review[r].id)

Entry(i, r, status) ==
    <<i, r, IF status = "granted" THEN "grant_exception" ELSE "deny_exception">>

(* A reviewer about to log still finds his decision in the row, unless     *)
(* somebody else's is there now.                                           *)
LogOK ==
    /\ DecisionsAreLogged
    /\ \A r \in Reviewers :
          review[r] # Idle /\ review[r].at = "log" =>
              LET i == review[r].id
              IN  i \in Live /\ rows[i].by = r => rows[i].status = review[r].to

(* While runs do not overlap one writer is at work, on signals that have   *)
(* no live row yet.                                                        *)
WritersOK ==
    ~overlap =>
        /\ \A v, w \in Writers : writer[v] # {} /\ writer[w] # {} => v = w
        /\ \A i \in Live, w \in Writers : rows[i].signal \notin writer[w]
        /\ \A i, j \in Live : rows[i].signal = rows[j].signal => i = j

ExceptionInv == Shape /\ AuthorityOK /\ LogOK /\ WritersOK

-----------------------------------------------------------------------------
LEMMA ALevel ==
    /\ LevelOf(Score(file)) \in Levels /\ LevelOf(Score(file)) # "none"
    /\ Level \in Levels \cup {"none"}
    /\ ~legacy => Level = LevelOf(Score(file))
  BY DEF LevelOf, Levels, Level

LEMMA AppendExceptions ==
    ASSUME NEW s \in Seq(Exceptions), NEW row \in Exceptions
    PROVE  /\ Append(s, row) \in Seq(Exceptions)
           /\ Len(Append(s, row)) = Len(s) + 1
           /\ DOMAIN Append(s, row) = DOMAIN s \cup {Len(s) + 1}
           /\ \A i \in DOMAIN s : Append(s, row)[i] = s[i]
           /\ Append(s, row)[Len(s) + 1] = row
           /\ Len(s) + 1 \notin DOMAIN s
  OBVIOUS

LEMMA ExceptionSequence ==
    ASSUME NEW n \in Nat, NEW s \in [1 .. n -> Exceptions]
    PROVE  s \in Seq(Exceptions) /\ DOMAIN s = 1 .. n /\ Len(s) = n
  OBVIOUS

LEMMA ExceptionInit == Init => ExceptionInv
  <1> SUFFICES ASSUME Init PROVE ExceptionInv
    OBVIOUS
  <1>1. rows = <<>> /\ rows \in Seq(Exceptions) /\ Len(rows) = 0 /\ DOMAIN rows = {} /\ Live = {}
    BY DEF Init, Live
  <1>2. Shape
    <2>1. /\ Len(rows) <= MaxRows /\ faults \in 0 .. MaxFaults
      BY <1>1, DeskAssumption DEF Init
    <2>2. /\ DOMAIN review = Reviewers /\ review = [r \in Reviewers |-> review[r]]
          /\ \A r \in Reviewers : review[r] = Idle
      BY DEF Init
    <2>3. /\ writer \in [Writers -> SUBSET Signals] /\ overlap \in BOOLEAN /\ log = {}
          /\ file \in Files /\ legacy \in BOOLEAN
      BY DEF Init
    <2> QED
      BY <1>1, <2>1, <2>2, <2>3 DEF Shape
  <1>3. AuthorityOK
    BY <1>1 DEF Init, AuthorityOK
  <1>4. LogOK
    BY <1>1 DEF Init, LogOK, DecisionsAreLogged
  <1>5. WritersOK
    BY <1>1 DEF Init, WritersOK
  <1> QED
    BY <1>2, <1>3, <1>4, <1>5 DEF ExceptionInv

-----------------------------------------------------------------------------
(* The writer's first statement: no row is live afterwards.                *)
LEMMA ClearStep ==
    ASSUME ExceptionInv, NEW w \in Writers, Clear(w)
    PROVE  ExceptionInv'
  <1> USE DEF ExceptionInv
  <1>1. /\ rows \in Seq(Exceptions) /\ Available \subseteq Signals
        /\ rows' = [i \in DOMAIN rows |-> [rows[i] EXCEPT !.status = "deleted"]]
        /\ UNCHANGED <<file, legacy, review, log, faults>>
    BY DEF Shape, Clear, Available
  <1>2. ASSUME NEW i \in DOMAIN rows
        PROVE  /\ [rows[i] EXCEPT !.status = "deleted"] \in Exceptions
               /\ [rows[i] EXCEPT !.status = "deleted"].status = "deleted"
               /\ [rows[i] EXCEPT !.status = "deleted"].level = rows[i].level
    <2>1. rows[i] \in Exceptions
      BY <1>1
    <2> QED
      BY <2>1 DEF Exceptions, Statuses
  <1>3. DOMAIN rows = 1 .. Len(rows) /\ Len(rows) \in Nat
    BY <1>1
  <1>4. /\ rows' \in Seq(Exceptions) /\ DOMAIN rows' = DOMAIN rows /\ Len(rows') = Len(rows)
        /\ \A i \in DOMAIN rows : rows'[i].status = "deleted" /\ rows'[i].level = rows[i].level
    <2>1. rows' \in [1 .. Len(rows) -> Exceptions]
      BY <1>1, <1>2, <1>3
    <2>2. rows' \in Seq(Exceptions) /\ DOMAIN rows' = 1 .. Len(rows) /\ Len(rows') = Len(rows)
      BY <1>3, <2>1, ExceptionSequence
    <2> QED
      BY <1>1, <1>2, <1>3, <2>2
  <1>5. Live' = {}
    BY <1>4 DEF Live
  <1>6. overlap' \in BOOLEAN /\ writer' \in [Writers -> SUBSET Signals]
    BY <1>1 DEF Clear, Shape
  <1>7. Shape'
    BY <1>1, <1>4, <1>6 DEF Shape, Idle
  <1>8. Level' = Level
    BY <1>1 DEF Level
  <1>9. \A r \in Reviewers : review[r] # Idle =>
            review[r].id \in DOMAIN rows /\ Required(rows'[review[r].id]) = Required(rows[review[r].id])
    BY <1>4 DEF Shape, Required
  <1>10. AuthorityOK'
    BY <1>1, <1>4, <1>8, <1>9 DEF AuthorityOK, Covers, Idle
  <1>11. LogOK'
    BY <1>1, <1>5 DEF LogOK, DecisionsAreLogged
  <1>12. WritersOK'
    <2>1. /\ writer' = [writer EXCEPT ![w] = Available]
          /\ overlap' = (\E v \in Writers : writer[v] # {})
      BY DEF Clear
    <2>2. ~overlap' => \A v \in Writers : v # w => writer'[v] = {}
      BY <2>1 DEF Shape
    <2> QED
      BY <1>5, <2>2 DEF WritersOK
  <1> QED
    BY <1>7, <1>10, <1>11, <1>12

LEMMA InsertStep ==
    ASSUME ExceptionInv, NEW w \in Writers, NEW s \in Signals, Insert(w, s)
    PROVE  ExceptionInv'
  <1> USE DEF ExceptionInv
  <1> DEFINE row == [signal |-> s, level |-> Level, status |-> "requested", by |-> "nobody"]
             n == Len(rows) + 1
  <1>1. /\ rows \in Seq(Exceptions) /\ rows' = Append(rows, row) /\ s \in writer[w]
        /\ Len(rows) < MaxRows /\ MaxRows \in Nat
        /\ writer' = [writer EXCEPT ![w] = @ \ {s}]
        /\ UNCHANGED <<file, legacy, review, overlap, log, faults>>
    BY DeskAssumption DEF Shape, Insert
  <1>2. row \in Exceptions /\ row.status = "requested" /\ row.level = Level /\ row.signal = s
        /\ row.by = "nobody"
    BY ALevel DEF Exceptions, Statuses
  <1> HIDE DEF row
  <1>3. /\ rows' \in Seq(Exceptions) /\ Len(rows') = n /\ DOMAIN rows' = DOMAIN rows \cup {n}
        /\ n \notin DOMAIN rows
        /\ \A i \in DOMAIN rows : rows'[i] = rows[i]
        /\ rows'[n] = row
    BY <1>1, <1>2, AppendExceptions
  <1>4. Len(rows') <= MaxRows
    BY <1>1, <1>3
  <1> HIDE DEF n
  <1>5. /\ writer' \in [Writers -> SUBSET Signals]
        /\ writer'[w] = writer[w] \ {s} /\ \A v \in Writers \ {w} : writer'[v] = writer[v]
    BY <1>1 DEF Shape
  <1>6. Shape'
    BY <1>1, <1>3, <1>4, <1>5 DEF Shape, Idle
  <1>7. Live' = Live \cup {n} /\ n \notin Live
    BY <1>2, <1>3 DEF Live
  <1>8. Level' = Level
    BY <1>1 DEF Level
  <1>9. \A r \in Reviewers : review[r] # Idle => review[r].id \in DOMAIN rows
    BY DEF Shape
  <1>10. AuthorityOK'
    BY <1>1, <1>2, <1>3, <1>8, <1>9 DEF AuthorityOK, Covers, Idle
  <1>11. LogOK'
    <2>1. "nobody" \notin Reviewers
      BY DeskAssumption
    <2>2. DecisionsAreLogged'
      BY <2>1, <1>1, <1>2, <1>3, <1>7 DEF LogOK, DecisionsAreLogged, Live
    <2> QED
      BY <1>1, <1>2, <1>3, <1>7, <1>9, <2>2 DEF LogOK, Idle
  <1>12. WritersOK'
    <2> SUFFICES ASSUME ~overlap
                 PROVE  /\ \A v, x \in Writers : writer'[v] # {} /\ writer'[x] # {} => v = x
                        /\ \A i \in Live', x \in Writers : rows'[i].signal \notin writer'[x]
                        /\ \A i, j \in Live' : rows'[i].signal = rows'[j].signal => i = j
      BY <1>1 DEF WritersOK
    <2>1. \A v \in Writers : v # w => writer[v] = {}
      BY <1>1 DEF WritersOK
    <2>2. \A i \in Live : i \in DOMAIN rows /\ rows'[i].signal = rows[i].signal /\ rows[i].signal # s
      BY <1>1, <1>3 DEF WritersOK, Live
    <2> QED
      BY <1>2, <1>3, <1>5, <1>7, <2>1, <2>2 DEF WritersOK
  <1> QED
    BY <1>6, <1>10, <1>11, <1>12

-----------------------------------------------------------------------------
LEMMA ReadStep ==
    ASSUME ExceptionInv, NEW r \in Reviewers, NEW i, NEW to \in Verdicts, Read(r, i, to)
    PROVE  ExceptionInv'
  <1> USE DEF ExceptionInv
  <1> DEFINE now == [at |-> "update", id |-> i, to |-> to]
  <1>1. /\ i \in Live /\ i \in DOMAIN rows /\ review[r] = Idle /\ review' = [review EXCEPT ![r] = now]
        /\ Covers(r, i)
        /\ UNCHANGED <<file, legacy, rows, writer, overlap, log, faults>>
    BY DEF Read, Live, Covers
  <1>2. now \in [at : {"update", "log"}, id : DOMAIN rows, to : Verdicts]
    BY <1>1
  <1>3. now.at = "update" /\ now.id = i
    OBVIOUS
  <1> HIDE DEF now
  <1>4. /\ review'[r] = now /\ \A q \in Reviewers \ {r} : review'[q] = review[q]
        /\ DOMAIN review' = Reviewers /\ review' = [q \in Reviewers |-> review'[q]]
    BY <1>1 DEF Shape
  <1>5. Live' = Live /\ Level' = Level
    BY <1>1 DEF Live, Level
  <1>6. Shape'
    BY <1>1, <1>2, <1>4 DEF Shape, Idle
  <1>7. AuthorityOK'
    BY <1>1, <1>3, <1>4, <1>5 DEF AuthorityOK, Covers, Idle
  <1>8. LogOK'
    <2>1. DecisionsAreLogged'
      BY <1>1, <1>4, <1>5 DEF LogOK, DecisionsAreLogged, Idle
    <2> QED
      BY <1>1, <1>3, <1>4, <1>5, <2>1 DEF LogOK, Idle
  <1>9. WritersOK'
    BY <1>1, <1>5 DEF WritersOK
  <1> QED
    BY <1>6, <1>7, <1>8, <1>9

LEMMA UpdateStep ==
    ASSUME ExceptionInv, NEW r \in Reviewers, Update(r)
    PROVE  ExceptionInv'
  <1> USE DEF ExceptionInv
  <1> DEFINE i == review[r].id
             to == review[r].to
  <1>1. /\ review[r] # Idle /\ review[r].at = "update"
        /\ UNCHANGED <<file, legacy, writer, overlap, log, faults>>
        /\ review' = [review EXCEPT ![r].at = "log"]
    BY DEF Update, Idle
  <1>2. /\ review[r] \in [at : {"update", "log"}, id : DOMAIN rows, to : Verdicts]
        /\ i \in DOMAIN rows /\ to \in Verdicts /\ rows \in Seq(Exceptions) /\ Covers(r, i)
    BY <1>1 DEF Shape, AuthorityOK
  <1>3. /\ review'[r] \in [at : {"update", "log"}, id : DOMAIN rows, to : Verdicts]
        /\ review'[r].id = i /\ review'[r].to = to /\ review'[r].at = "log"
        /\ \A q \in Reviewers \ {r} : review'[q] = review[q]
        /\ DOMAIN review' = Reviewers /\ review' = [q \in Reviewers |-> review'[q]]
    BY <1>1, <1>2 DEF Shape
  <1>4. Level' = Level
    BY <1>1 DEF Level
  <1>5. /\ rows' \in Seq(Exceptions) /\ Len(rows') = Len(rows) /\ DOMAIN rows' = DOMAIN rows
        /\ \A k \in DOMAIN rows : k # i \/ i \notin Live => rows'[k] = rows[k]
        /\ \A k \in DOMAIN rows : rows'[k].level = rows[k].level /\ rows'[k].signal = rows[k].signal
        /\ i \in Live => rows'[i].status = to /\ rows'[i].by = r
        /\ Live' = Live
    <2>1. CASE i \notin Live
      <3>1. rows' = rows
        BY <2>1 DEF Update
      <3> QED
        BY <2>1, <3>1, <1>2 DEF Live
    <2>2. CASE i \in Live
      <3> DEFINE row == [rows[i] EXCEPT !.status = to, !.by = r]
      <3>1. rows[i] \in Exceptions
        BY <1>2
      <3>2. /\ row \in Exceptions /\ row.status = to /\ row.by = r
            /\ row.level = rows[i].level /\ row.signal = rows[i].signal
        BY <3>1, <1>2 DEF Exceptions, Statuses, Verdicts
      <3>3. rows' = [rows EXCEPT ![i] = row]
        BY <2>2, <1>2 DEF Update
      <3> HIDE DEF row
      <3>4. /\ rows' \in Seq(Exceptions) /\ Len(rows') = Len(rows) /\ DOMAIN rows' = DOMAIN rows
            /\ rows'[i] = row /\ \A k \in DOMAIN rows \ {i} : rows'[k] = rows[k]
        BY <1>2, <3>2, <3>3
      <3>5. Live' = Live
        BY <2>2, <1>2, <3>2, <3>4 DEF Live, Verdicts
      <3> QED
        BY <2>2, <3>2, <3>4, <3>5
    <2> QED
      BY <2>1, <2>2
  <1>6. Shape'
    BY <1>1, <1>2, <1>3, <1>5 DEF Shape, Idle
  <1>7. \A q \in Reviewers, k \in DOMAIN rows : Covers(q, k)' = Covers(q, k)
    BY <1>5 DEF Covers, Required
  <1>8. AuthorityOK'
    <2>1. \A k \in DOMAIN rows' : rows'[k].level = Level'
      BY <1>4, <1>5 DEF AuthorityOK
    <2>2. ASSUME NEW k \in DOMAIN rows, rows'[k].status = "granted"
          PROVE  rows'[k].by \in Reviewers /\ Covers(rows[k].by, k)'
      <3>1. CASE k # i \/ i \notin Live
        <4>1. rows'[k] = rows[k] /\ rows[k].by \in Reviewers /\ Covers(rows[k].by, k)
          BY <1>5, <2>2, <3>1 DEF AuthorityOK
        <4> QED
          BY <4>1 DEF Covers
      <3>2. CASE k = i /\ i \in Live
        <4>1. rows'[k].by = r /\ Required(rows'[k]) = Required(rows[k])
          BY <1>5, <3>2 DEF Required
        <4> QED
          BY <4>1, <1>2, <3>2 DEF Covers
      <3> QED
        BY <3>1, <3>2
    <2>3. ASSUME NEW q \in Reviewers, review'[q] # Idle PROVE Covers(q, review[q].id)'
      <3>1. review[q] # Idle /\ review'[q].id = review[q].id
        BY <1>1, <1>3, <2>3
      <3>2. Covers(q, review[q].id) /\ review[q].id \in DOMAIN rows
        BY <3>1 DEF AuthorityOK, Shape
      <3>3. Required(rows'[review[q].id]) = Required(rows[review[q].id])
        BY <3>2, <1>5 DEF Required
      <3> QED
        BY <3>1, <3>2, <3>3 DEF Covers
    <2> QED
      BY <2>1, <2>2, <2>3, <1>5 DEF AuthorityOK, Idle
  <1>9. LogOK'
    <2>1. DecisionsAreLogged'
      <3> SUFFICES ASSUME faults = MaxFaults, NEW k \in Live, rows'[k].by \in Reviewers
                   PROVE  LET q == rows'[k].by
                          IN  \/ review'[q] # Idle /\ review'[q].at = "log" /\ review'[q].id = k
                              \/ Entry(k, q, rows'[k].status) \in log
        BY <1>1, <1>5 DEF DecisionsAreLogged, Entry, Idle
      <3>1. CASE k = i
        BY <3>1, <1>3, <1>5 DEF Idle
      <3>2. CASE k # i
        <4>1. rows'[k] = rows[k]
          BY <1>5, <3>2 DEF Live
        <4>2. LET q == rows[k].by
              IN  \/ review[q] # Idle /\ review[q].at = "log" /\ review[q].id = k
                  \/ Entry(k, q, rows[k].status) \in log
          BY <4>1 DEF LogOK, DecisionsAreLogged, Entry
        <4> QED
          BY <4>1, <4>2, <1>1, <1>3, <3>2
      <3> QED
        BY <3>1, <3>2
    <2>2. ASSUME NEW q \in Reviewers, review'[q] # Idle, review'[q].at = "log",
                 review'[q].id \in Live, rows'[review'[q].id].by = q
          PROVE  rows'[review'[q].id].status = review'[q].to
      <3>1. CASE q = r
        BY <3>1, <2>2, <1>3, <1>5
      <3>2. CASE q # r
        <4>1. review'[q] = review[q] /\ review[q].id \in DOMAIN rows
          BY <3>2, <2>2, <1>3 DEF Live
        <4>2. CASE review[q].id = i
          BY <4>1, <4>2, <3>2, <2>2, <1>5
        <4>3. CASE review[q].id # i
          BY <4>1, <4>3, <2>2, <1>5 DEF LogOK
        <4> QED
          BY <4>2, <4>3
      <3> QED
        BY <3>1, <3>2
    <2> QED
      BY <2>1, <2>2, <1>5 DEF LogOK, Idle
  <1>10. WritersOK'
    <2>1. \A k \in Live : rows'[k].signal = rows[k].signal
      BY <1>5 DEF Live
    <2> QED
      BY <2>1, <1>1, <1>5 DEF WritersOK
  <1> QED
    BY <1>6, <1>8, <1>9, <1>10

(* The entry covers the row he has set, and only then does he forget it.   *)
LEMMA LogStep ==
    ASSUME ExceptionInv, NEW r \in Reviewers, Log(r)
    PROVE  ExceptionInv'
  <1> USE DEF ExceptionInv
  <1> DEFINE i == review[r].id
             to == review[r].to
  <1>1. /\ review[r] # Idle /\ review[r].at = "log"
        /\ log' = log \cup {Entry(i, r, to)}
        /\ review' = [review EXCEPT ![r] = Idle]
        /\ UNCHANGED <<file, legacy, rows, writer, overlap, faults>>
    BY DEF Log, Idle, Entry
  <1>2. /\ i \in DOMAIN rows /\ to \in Verdicts
        /\ review'[r] = Idle /\ \A q \in Reviewers \ {r} : review'[q] = review[q]
        /\ DOMAIN review' = Reviewers /\ review' = [q \in Reviewers |-> review'[q]]
    BY <1>1 DEF Shape
  <1>3. Live' = Live /\ Level' = Level
    BY <1>1 DEF Live, Level
  <1>4. Shape'
    <2>1. \A e \in log' : e[1] \in DOMAIN rows /\ e[2] \in Reviewers
      BY <1>1, <1>2 DEF Shape, Entry
    <2> QED
      BY <1>1, <1>2, <2>1 DEF Shape, Idle
  <1>5. AuthorityOK'
    BY <1>1, <1>2, <1>3 DEF AuthorityOK, Covers, Idle
  <1>6. DecisionsAreLogged'
    <2> SUFFICES ASSUME faults = MaxFaults, NEW k \in Live, rows[k].by \in Reviewers
                 PROVE  LET q == rows[k].by
                        IN  \/ review'[q] # Idle /\ review'[q].at = "log" /\ review'[q].id = k
                            \/ Entry(k, q, rows[k].status) \in log'
      BY <1>1, <1>3 DEF DecisionsAreLogged, Entry, Idle
    <2> DEFINE q == rows[k].by
    <2>1. \/ review[q] # Idle /\ review[q].at = "log" /\ review[q].id = k
          \/ Entry(k, q, rows[k].status) \in log
      BY DEF LogOK, DecisionsAreLogged, Entry
    <2>2. CASE Entry(k, q, rows[k].status) \in log
      BY <1>1, <2>2
    <2>3. CASE q # r /\ review[q] # Idle /\ review[q].at = "log" /\ review[q].id = k
      BY <1>2, <2>3
    <2>4. CASE q = r /\ review[q].id = k
      <3>1. rows[k].status = to
        BY <1>1, <2>4 DEF LogOK
      <3> QED
        BY <1>1, <2>4, <3>1
    <2> QED
      BY <2>1, <2>2, <2>3, <2>4
  <1>7. LogOK'
    BY <1>1, <1>2, <1>3, <1>6 DEF LogOK, Idle
  <1>8. WritersOK'
    BY <1>1, <1>3 DEF WritersOK
  <1> QED
    BY <1>4, <1>5, <1>7, <1>8

(* A broken connection is the last: the log is no longer vouched for.      *)
LEMMA BreakStep ==
    ASSUME ExceptionInv, Break
    PROVE  ExceptionInv'
  <1> USE DEF ExceptionInv
  <1>1. /\ faults \in 0 .. MaxFaults /\ faults > 0 /\ faults' = faults - 1 /\ MaxFaults \in Nat
        /\ UNCHANGED <<file, legacy, rows, overlap, log>>
    BY DeskAssumption DEF Break, Shape
  <1>2. faults' \in 0 .. MaxFaults /\ faults' # MaxFaults
    BY <1>1
  <1>3. /\ DOMAIN review' = Reviewers /\ review' = [q \in Reviewers |-> review'[q]]
        /\ \A q \in Reviewers : review'[q] = review[q] \/ review'[q] = Idle
    BY DEF Break, Shape
  <1>4. /\ writer' \in [Writers -> SUBSET Signals]
        /\ \A w \in Writers : writer'[w] = writer[w] \/ writer'[w] = {}
    BY DEF Break, Shape
  <1>5. Live' = Live /\ Level' = Level
    BY <1>1 DEF Live, Level
  <1>6. Shape'
    BY <1>1, <1>2, <1>3, <1>4 DEF Shape, Idle
  <1>7. AuthorityOK'
    BY <1>1, <1>3, <1>5 DEF AuthorityOK, Covers, Idle
  <1>8. LogOK'
    BY <1>1, <1>2, <1>3, <1>5 DEF LogOK, DecisionsAreLogged, Idle
  <1>9. WritersOK'
    BY <1>1, <1>4, <1>5 DEF WritersOK
  <1> QED
    BY <1>6, <1>7, <1>8, <1>9

-----------------------------------------------------------------------------
LEMMA ExceptionStep == ExceptionInv /\ [Next]_vars => ExceptionInv'
  <1> SUFFICES ASSUME ExceptionInv, [Next]_vars PROVE ExceptionInv'
    OBVIOUS
  <1>1. CASE Break
    BY <1>1, BreakStep
  <1>2. ASSUME NEW w \in Writers, Populate(w) PROVE ExceptionInv'
    BY <1>2, ClearStep, InsertStep DEF Populate
  <1>3. ASSUME NEW r \in Reviewers, Transition(r) PROVE ExceptionInv'
    BY <1>3, ReadStep, UpdateStep, LogStep DEF Transition, Verdicts
  <1>4. CASE UNCHANGED vars
    <2>1. Live' = Live /\ Level' = Level
      BY <1>4 DEF vars, Live, Level
    <2>2. Shape'
      BY <1>4 DEF vars, ExceptionInv, Shape, Idle
    <2>3. AuthorityOK' /\ WritersOK'
      BY <1>4, <2>1 DEF vars, ExceptionInv, AuthorityOK, Covers, WritersOK, Idle
    <2>4. LogOK'
      BY <1>4, <2>1 DEF vars, ExceptionInv, LogOK, DecisionsAreLogged, Idle
    <2> QED
      BY <2>2, <2>3, <2>4 DEF ExceptionInv
  <1> QED
    BY <1>1, <1>2, <1>3, <1>4 DEF Next

(* The inductive invariant of the desk.                                    *)
THEOREM ExceptionInvariant == Spec => []ExceptionInv
  BY ExceptionInit, ExceptionStep, PTL DEF Spec

(* Types, for every set of files and of reviewers.                         *)
THEOREM ExceptionTypes == Spec => []TypeOK
  <1>1. ExceptionInv => TypeOK
    <2> SUFFICES ASSUME Shape PROVE TypeOK
      BY DEF ExceptionInv
    <2>1. ASSUME NEW i \in DOMAIN rows
          PROVE  /\ rows[i].signal \in Signals /\ rows[i].level \in Levels \cup {"none"}
                 /\ rows[i].status \in Statuses /\ rows[i].by \in Reviewers \cup {"nobody"}
      <3>1. rows[i] \in Exceptions
        BY DEF Shape
      <3> QED
        BY <3>1 DEF Exceptions
    <2> QED
      BY <2>1 DEF Shape, TypeOK, Statuses
  <1> QED
    BY ExceptionInvariant, <1>1, PTL

(* The role of whoever grants an exception covers the level the score of   *)
(* the file asks for.                                                      *)
THEOREM ExceptionGrants == Spec => []GrantsMatchTheFile
  <1>1. ExceptionInv => GrantsMatchTheFile
    <2> SUFFICES ASSUME AuthorityOK, NEW i \in Live, rows[i].status = "granted"
                 PROVE  /\ rows[i].by \in Reviewers
                        /\ legacy \/ LevelOf(Score(file)) \in Authority(RoleOf[rows[i].by])
      BY DEF ExceptionInv, GrantsMatchTheFile
    <2>1. /\ rows[i].level = Level /\ rows[i].by \in Reviewers
          /\ Required(rows[i]) \in Authority(RoleOf[rows[i].by])
      BY DEF AuthorityOK, Covers, CanApprove, Live
    <2> QED
      BY <2>1, ALevel DEF Required
  <1> QED
    BY ExceptionInvariant, <1>1, PTL

(* What stands in a row is in the log under the name of who put it there.  *)
THEOREM ExceptionLog == Spec => []DecisionsAreLogged
  <1>1. ExceptionInv => DecisionsAreLogged
    BY DEF ExceptionInv, LogOK
  <1> QED
    BY ExceptionInvariant, <1>1, PTL

(* Runs of the writer that do not overlap leave one row for a signal.      *)
THEOREM ExceptionWriter == Spec => []WriterIsIdempotent
  <1>1. ExceptionInv => WriterIsIdempotent
    <2> SUFFICES ASSUME WritersOK, ~overlap, NEW s \in Signals
                 PROVE  Cardinality({i \in Live : rows[i].signal = s}) <= 1
      BY DEF ExceptionInv, WriterIsIdempotent
    <2> DEFINE S == {i \in Live : rows[i].signal = s}
    <2>1. \A i, j \in S : i = j
      BY DEF WritersOK
    <2> HIDE DEF S
    <2>2. S = {} \/ \E i : S = {i}
      BY <2>1
    <2>3. Cardinality(S) <= 1
      BY <2>2, FS_EmptySet, FS_Singleton
    <2> QED
      BY <2>3 DEF S
  <1> QED
    BY ExceptionInvariant, <1>1, PTL

(* Once nobody who read a row before its decision is left, nobody touches  *)
(* the decision again until the writer runs.                               *)
THEOREM ExceptionSettles == Spec => DecisionsSettle
  <1> DEFINE Kept(i) == (Settled(i)' /\ rows'[i] = rows[i]) \/ rows'[i].status = "deleted"
  <1>1. ExceptionInv /\ [Next]_vars => [\A i \in Live : Settled(i) => Kept(i)]_vars
    <2> SUFFICES ASSUME Shape, Next, NEW i \in Live, Settled(i) PROVE Kept(i)
      BY DEF ExceptionInv
    <2>1. /\ i \in DOMAIN rows /\ rows[i].status \in {"granted", "denied"}
          /\ ~ \E r \in Reviewers : review[r] # Idle /\ review[r].at = "update" /\ review[r].id = i
          /\ rows \in Seq(Exceptions)
      BY DEF Live, Settled, Shape
    <2>2. CASE Break
      <3>1. /\ UNCHANGED rows
            /\ \A q \in Reviewers : review'[q] = review[q] \/ review'[q] = Idle
        BY <2>2 DEF Break, Shape
      <3> QED
        BY <2>1, <3>1 DEF Settled, Idle
    <2>3. ASSUME NEW w \in Writers, Clear(w) PROVE Kept(i)
      <3>1. rows'[i] = [rows[i] EXCEPT !.status = "deleted"] /\ rows[i] \in Exceptions
        BY <2>1, <2>3 DEF Clear
      <3> QED
        BY <3>1 DEF Exceptions
    <2>4. ASSUME NEW w \in Writers, NEW s \in Signals, Insert(w, s) PROVE Kept(i)
      <3>1. rows'[i] = rows[i] /\ UNCHANGED review
        BY <2>1, <2>4 DEF Insert
      <3> QED
        BY <2>1, <3>1 DEF Settled, Idle
    <2>5. ASSUME NEW r \in Reviewers, NEW k, NEW to, Read(r, k, to) PROVE Kept(i)
      <3>1. to \in Transitions(rows[k].status) /\ UNCHANGED rows
        BY <2>5 DEF Read
      <3>2. k # i
        BY <2>1, <3>1 DEF Transitions
      <3>3. /\ review'[r].id = k /\ \A q \in Reviewers \ {r} : review'[q] = review[q]
        BY <2>5 DEF Read, Shape
      <3> QED
        BY <2>1, <3>1, <3>2, <3>3 DEF Settled, Idle
    <2>6. ASSUME NEW r \in Reviewers, Update(r) PROVE Kept(i)
      <3>1. review[r] # Idle /\ review[r].at = "update" /\ review[r].id # i
        BY <2>1, <2>6 DEF Update, Idle
      <3>2. rows'[i] = rows[i]
        BY <2>1, <2>6, <3>1 DEF Update
      <3>3. review[r] \in [at : {"update", "log"}, id : DOMAIN rows, to : Verdicts]
        BY <3>1 DEF Shape
      <3>4. review'[r].id # i /\ \A q \in Reviewers \ {r} : review'[q] = review[q]
        BY <2>6, <3>1, <3>3 DEF Update, Shape
      <3> QED
        BY <2>1, <3>2, <3>4 DEF Settled, Idle
    <2>7. ASSUME NEW r \in Reviewers, Log(r) PROVE Kept(i)
      <3>1. /\ UNCHANGED rows /\ review'[r] = Idle
            /\ \A q \in Reviewers \ {r} : review'[q] = review[q]
        BY <2>7 DEF Log, Shape
      <3> QED
        BY <2>1, <3>1 DEF Settled, Idle
    <2> QED
      BY <2>2, <2>3, <2>4, <2>5, <2>6, <2>7 DEF Next, Populate, Transition
  <1> QED
    BY ExceptionInvariant, <1>1, PTL DEF Spec, DecisionsSettle

=============================================================================
