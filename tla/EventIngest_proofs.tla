-------------------------- MODULE EventIngest_proofs --------------------------
(***************************************************************************)
(* Proofs about the context store and the ingest that runs over it: the    *)
(* store's history is a partition of the past, whoever calls it, every     *)
(* step of the ingest is a step of the store, and requests that come one   *)
(* after the other lose nothing.                                           *)
(***************************************************************************)
EXTENDS EventIngest, FiniteSetTheorems, SequenceTheorems, WellFoundedInduction, TLAPS

-----------------------------------------------------------------------------
(* The history of one key: versions never run ahead of the history, a      *)
(* record is stored after its stamp and before its end, which lies in the  *)
(* past or is open, only the newest is open, and none is stored before the *)
(* one before it has ended.                                                *)
RecordOK(i) ==
    /\ records[i].version <= i
    /\ records[i].from <= records[i].stored
    /\ records[i].stored <= now
    /\ records[i].stored <= records[i].until
    /\ records[i].until = Never => i = Len(records) /\ ~records[i].tombstone
    /\ records[i].until # Never => records[i].until <= now

HistoryOK ==
    /\ \A i \in DOMAIN records : RecordOK(i)
    /\ \A i, j \in DOMAIN records : i < j => records[i].until <= records[j].stored

(* What is cached, or is about to be, is a record that says something.     *)
Cacheable(i) == i \in DOMAIN records /\ ~records[i].tombstone

CacheOK ==
    /\ hot # NoRecord => Cacheable(hot)
    /\ \A c \in Clients : step[c] = "caching" => Cacheable(held[c])

StoreInv == TypeOK /\ HistoryOK /\ CacheOK

Entries == [version : 1..MaxRecords, from : 0..MaxTime, stored : 0..MaxTime, until : 0..Never,
            tombstone : BOOLEAN]

-----------------------------------------------------------------------------
(* The newest of one record, or of none, needs no comparison of versions.  *)
LEMMA NewestOfOne ==
    /\ Newest({}) = NoRecord
    /\ \A i \in DOMAIN records : records[i].version \in Nat /\ i \in Nat => Newest({i}) = i
  BY DEF Newest, Precedes

LEMMA RecordsAreEntries ==
    ASSUME TypeOK
    PROVE  /\ records \in Seq(Entries) /\ Len(records) \in Nat
           /\ DOMAIN records = 1..Len(records)
           /\ \A i \in 1..Len(records) : records[i] \in Entries
  <1>1. records \in Seq(Entries)
    BY DEF TypeOK, Entries
  <1> QED
    BY <1>1, ElementOfSeq

(* The open record is the last one of the history, if any is.              *)
LEMMA LatestIsLast ==
    ASSUME TypeOK, HistoryOK
    PROVE  Latest = IF Len(records) # 0 /\ records[Len(records)].until = Never
                    THEN Len(records) ELSE NoRecord
  <1> DEFINE open == {i \in DOMAIN records : records[i].until = Never}
  <1>1. records \in Seq(Entries) /\ DOMAIN records = 1..Len(records) /\ Len(records) \in Nat
    BY DEF TypeOK, Entries
  <1>2. open = IF Len(records) # 0 /\ records[Len(records)].until = Never
               THEN {Len(records)} ELSE {}
    BY <1>1 DEF HistoryOK, RecordOK
  <1>3. Latest = Newest(open)
    BY DEF Latest
  <1>4. CASE Len(records) # 0 /\ records[Len(records)].until = Never
    <2>1. Len(records) \in DOMAIN records /\ records[Len(records)].version \in Nat
      <3>1. Len(records) \in 1..Len(records)
        BY <1>1, <1>4
      <3>2. records[Len(records)] \in Entries
        BY <3>1, RecordsAreEntries
      <3>3. records[Len(records)].version \in 1..MaxRecords
        BY <3>2 DEF Entries
      <3> QED
        BY <1>1, <3>1, <3>3, StoreAssumption
    <2>2. Newest({Len(records)}) = Len(records)
      BY <1>1, <2>1, NewestOfOne
    <2>3. open = {Len(records)}
      BY <1>2, <1>4
    <2> HIDE DEF open
    <2> QED
      BY <1>3, <1>4, <2>2, <2>3
  <1>5. CASE ~(Len(records) # 0 /\ records[Len(records)].until = Never)
    BY <1>2, <1>3, <1>5, NewestOfOne
  <1> QED
    BY <1>4, <1>5

(* What is in the store and active at an instant, one record at most.      *)
StoredAt(t) == {i \in ActiveAt(t) : records[i].stored <= t}

LEMMA OneActive ==
    ASSUME TypeOK, HistoryOK, NEW t \in Nat
    PROVE  StoredAt(t) = {} \/ \E i \in DOMAIN records : StoredAt(t) = {i}
  <1>1. records \in Seq(Entries) /\ DOMAIN records = 1..Len(records) /\ Len(records) \in Nat
    BY DEF TypeOK, Entries
  <1>2. ASSUME NEW i \in StoredAt(t), NEW j \in StoredAt(t), i < j
        PROVE  FALSE
    <2>1. records[i].until <= records[j].stored
      BY <1>2 DEF StoredAt, ActiveAt, HistoryOK
    <2>2. records[i] \in Entries /\ records[j] \in Entries
      BY <1>1 DEF StoredAt, ActiveAt
    <2> QED
      BY <1>2, <2>1, <2>2, StoreAssumption DEF StoredAt, ActiveAt, Entries, Never
  <1>3. \A i, j \in StoredAt(t) : i = j
    BY <1>1, <1>2 DEF StoredAt, ActiveAt
  <1> QED
    BY <1>3 DEF StoredAt, ActiveAt

(* A durable write supersedes the last record, if it is open, and appends. *)
LEMMA AppendedHistory ==
    ASSUME StoreInv, Len(records) < MaxRecords, NEW tombstone \in BOOLEAN, NEW from \in 0..now,
           records' = Append(Superseded, Entry(from, tombstone))
    PROVE  /\ records' \in Seq(Entries)
           /\ Len(records') = Len(records) + 1
           /\ records'[Len(records) + 1] = Entry(from, tombstone)
           /\ Entry(from, tombstone).version <= Len(records) + 1
           /\ \A i \in 1..Len(records) :
                 records'[i] = IF i = Latest THEN [records[i] EXCEPT !.until = now]
                               ELSE records[i]
           /\ \A i \in 1..Len(records) : i # Latest => records[i].until # Never
  <1>1. records \in Seq(Entries) /\ DOMAIN records = 1..Len(records) /\ Len(records) \in Nat
    BY DEF TypeOK, Entries, StoreInv
  <1>2. /\ Latest = IF Len(records) # 0 /\ records[Len(records)].until = Never
                    THEN Len(records) ELSE NoRecord
        /\ Latest \in 0..Len(records)
        /\ Latest # 0 => Latest \in DOMAIN records
    BY <1>1, LatestIsLast DEF StoreInv, NoRecord
  <1>3. now \in 0..MaxTime /\ MaxTime \in Nat /\ MaxRecords \in Nat
    BY StoreAssumption DEF StoreInv, TypeOK
  <1>4. Entry(from, tombstone) \in Entries /\ Entry(from, tombstone).version <= Len(records) + 1
    <2> DEFINE version == IF Latest = NoRecord THEN 1 ELSE records[Latest].version + 1
               until == IF tombstone THEN now ELSE Never
    <2>1. ASSUME Latest # NoRecord
          PROVE  version \in 1..MaxRecords /\ version <= Len(records) + 1
      <3>1. records[Latest] \in Entries
        BY <1>1, <1>2, <2>1, ElementOfSeq DEF NoRecord
      <3>2. records[Latest].version \in Nat /\ records[Latest].version <= Latest
        BY <1>2, <1>3, <2>1, <3>1 DEF StoreInv, HistoryOK, RecordOK, NoRecord, Entries
      <3>3. version \in 1..MaxRecords /\ version <= Len(records) + 1
        BY <1>1, <1>2, <1>3, <2>1, <3>2
      <3> QED
        BY <3>3
    <2>2. version \in 1..MaxRecords /\ version <= Len(records) + 1
      BY <1>1, <1>3, <2>1
    <2>3. until \in 0..Never
      BY <1>3 DEF Never
    <2>4. Entry(from, tombstone) = [version |-> version, from |-> from, stored |-> now,
                                    until |-> until, tombstone |-> tombstone]
      BY DEF Entry
    <2>5. from \in 0..MaxTime
      BY <1>3
    <2> HIDE DEF version, until
    <2> QED
      BY <1>3, <2>5, <2>2, <2>3, <2>4 DEF Entries
  <1>5. /\ Superseded \in Seq(Entries) /\ Len(Superseded) = Len(records)
        /\ \A i \in 1..Len(records) :
              Superseded[i] = IF i = Latest THEN [records[i] EXCEPT !.until = now] ELSE records[i]
    <2>1. CASE Latest = NoRecord
      BY <1>1, <2>1 DEF Superseded, NoRecord
    <2>2. CASE Latest # NoRecord
      <3>1. records[Latest] \in Entries
        BY <1>1, <1>2, <2>2, ElementOfSeq DEF NoRecord
      <3> DEFINE closed == [records[Latest] EXCEPT !.until = now]
      <3>2. now \in 0..Never
        BY <1>3 DEF Never
      <3>3. closed \in Entries
        BY <3>1, <3>2 DEF Entries
      <3>4. Superseded = [records EXCEPT ![Latest] = closed]
        BY <2>2 DEF Superseded
      <3>5. Latest \in 1..Len(records)
        BY <1>1, <1>2, <2>2 DEF NoRecord
      <3> HIDE DEF closed
      <3>6. /\ Superseded \in Seq(Entries) /\ Len(Superseded) = Len(records)
            /\ \A i \in 1..Len(records) : Superseded[i] = IF i = Latest THEN closed ELSE records[i]
        BY <1>1, <3>3, <3>4, <3>5, ExceptSeq
      <3> QED
        BY <3>6 DEF closed
    <2> QED
      BY <2>1, <2>2
  <1>6. /\ records' \in Seq(Entries)
        /\ Len(records') = Len(records) + 1
        /\ records'[Len(records) + 1] = Entry(from, tombstone)
        /\ \A i \in 1..Len(records) : records'[i] = Superseded[i]
    BY <1>1, <1>4, <1>5, AppendProperties
  <1>7. ASSUME NEW i \in 1..Len(records), i # Latest
        PROVE  records[i].until # Never
    <2>1. records[i].until = Never => i = Len(records)
      BY <1>1 DEF StoreInv, HistoryOK, RecordOK
    <2>2. Len(records) # 0
      BY <1>1
    <2>3. records[Len(records)].until = Never => Latest = Len(records)
      BY <1>2, <2>2
    <2> QED
      BY <1>7, <2>1, <2>3
  <1> QED
    <2>1. \A i \in 1..Len(records) :
             records'[i] = IF i = Latest THEN [records[i] EXCEPT !.until = now] ELSE records[i]
      BY <1>5, <1>6
    <2> QED
      BY <1>4, <1>6, <1>7, <2>1

(* A durable write keeps the history in order: what was open ends now, at  *)
(* the instant the new record begins.                                      *)
LEMMA HistoryGrows ==
    ASSUME StoreInv, Len(records) < MaxRecords, NEW tombstone \in BOOLEAN, NEW from \in 0..now,
           records' = Append(Superseded, Entry(from, tombstone)), now' = now
    PROVE  /\ HistoryOK'
           /\ \A i : Cacheable(i) => Cacheable(i)'
           /\ \A i : i = Len(records) + 1 /\ ~tombstone => Cacheable(i)'
  <1> DEFINE n == Len(records)
  <1>1. /\ records \in Seq(Entries) /\ DOMAIN records = 1..n /\ n \in Nat
        /\ records' \in Seq(Entries) /\ DOMAIN records' = 1..n + 1 /\ Len(records') = n + 1
        /\ \A i \in 1..n : records[i] \in Entries
    <2>1. /\ records \in Seq(Entries) /\ DOMAIN records = 1..n /\ n \in Nat
          /\ \A i \in 1..n : records[i] \in Entries
      BY RecordsAreEntries DEF StoreInv
    <2>2. records' \in Seq(Entries) /\ Len(records') = n + 1
      BY AppendedHistory
    <2>3. DOMAIN records' = 1..n + 1
      BY <2>2
    <2> QED
      BY <2>1, <2>2, <2>3
  <1>2. now \in 0..MaxTime /\ MaxTime \in Nat /\ Never = MaxTime + 1
    BY StoreAssumption DEF StoreInv, TypeOK, Never
  <1>3. /\ records'[n + 1].version <= n + 1
        /\ records'[n + 1].from = from /\ records'[n + 1].stored = now
        /\ records'[n + 1].until = IF tombstone THEN now ELSE Never
        /\ records'[n + 1].tombstone = tombstone
    BY AppendedHistory DEF Entry
  <1>4. ASSUME NEW i \in 1..n
        PROVE  /\ records'[i].version = records[i].version
               /\ records'[i].from = records[i].from
               /\ records'[i].stored = records[i].stored
               /\ records'[i].tombstone = records[i].tombstone
               /\ records'[i].until = IF i = Latest THEN now ELSE records[i].until
    <2>1. records[i] \in Entries
      BY <1>1
    <2>2. records'[i] = IF i = Latest THEN [records[i] EXCEPT !.until = now] ELSE records[i]
      BY AppendedHistory
    <2> QED
      BY <2>1, <2>2 DEF Entries
  <1>5. ASSUME NEW i \in 1..n
        PROVE  /\ records'[i].until <= now /\ records'[i].until \in Nat
               /\ records'[i].stored <= records'[i].until
               /\ records'[i].version <= i
               /\ records'[i].until # Never
    <2>1. records[i] \in Entries
      BY <1>1
    <2>2. RecordOK(i)
      BY <1>1 DEF StoreInv, HistoryOK
    <2>3. i # Latest => records[i].until # Never
      BY AppendedHistory
    <2>4. /\ records[i].version <= i /\ records[i].stored <= now
          /\ records[i].stored <= records[i].until
          /\ records[i].stored \in Nat /\ records[i].until \in Nat
          /\ records[i].until # Never => records[i].until <= now
      BY <1>2, <2>1, <2>2 DEF RecordOK, Entries
    <2>5. CASE i = Latest
      <3>1. records'[i].until = now
        BY <1>4, <2>5
      <3>2. now \in Nat /\ now <= now /\ now # Never
        BY <1>2
      <3>3. records'[i].version <= i /\ records'[i].stored <= now
        BY <1>4, <2>4
      <3> QED
        BY <3>1, <3>2, <3>3
    <2>6. CASE i # Latest
      BY <1>4, <2>3, <2>4, <2>6
    <2> QED
      BY <2>5, <2>6
  <1>6. ASSUME NEW i \in 1..n + 1
        PROVE  RecordOK(i)'
    <2>1. CASE i \in 1..n
      <3>1. records[i].stored <= now /\ records[i].from <= records[i].stored
        BY <1>1, <2>1 DEF StoreInv, HistoryOK, RecordOK
      <3> QED
        BY <1>2, <1>4, <1>5, <2>1, <3>1 DEF RecordOK, Never
    <2>2. CASE i = n + 1
      <3>1. from <= now /\ from \in Nat
        BY <1>2
      <3> QED
        BY <1>1, <1>2, <1>3, <2>2, <3>1 DEF RecordOK, Never
    <2> QED
      BY <1>1, <2>1, <2>2
  <1>7. ASSUME NEW i \in 1..n + 1, NEW j \in 1..n + 1, i < j
        PROVE  records'[i].until <= records'[j].stored
    <2>1. i \in 1..n
      BY <1>1, <1>7
    <2>2. CASE j = n + 1
      BY <1>3, <1>5, <2>1, <2>2
    <2>3. CASE j \in 1..n
      <3>1. records[i].until <= records[j].stored /\ records[j].stored <= now
        BY <1>1, <1>7, <2>1, <2>3 DEF StoreInv, HistoryOK, RecordOK
      <3>2. i # Latest
        <4>1. records[i].until # Never
          BY <1>1, <1>7, <2>1, <2>3 DEF StoreInv, HistoryOK, RecordOK
        <4>2. TypeOK /\ HistoryOK
          BY DEF StoreInv
        <4> QED
          BY <1>1, <2>1, <2>3, <1>7, LatestIsLast, <4>2 DEF NoRecord
      <3> QED
        BY <1>4, <2>1, <2>3, <3>1, <3>2
    <2> QED
      BY <1>1, <2>2, <2>3
  <1>8. HistoryOK'
    BY <1>1, <1>6, <1>7 DEF HistoryOK
  <1>9. \A i : Cacheable(i) => Cacheable(i)'
    BY <1>1, <1>4 DEF Cacheable
  <1>10. ASSUME NEW i, i = Len(records) + 1, ~tombstone
         PROVE  Cacheable(i)'
    <2>1. i \in DOMAIN records'
      BY <1>1, <1>10
    <2> QED
      BY <1>3, <1>10, <2>1 DEF Cacheable
  <1> QED
    BY <1>8, <1>9, <1>10

LEMMA StoreInvInit == Init => StoreInv
  <1> SUFFICES ASSUME Init PROVE StoreInv
    OBVIOUS
  <1>1. TypeOK
    <2>1. records \in Seq(Entries) /\ Len(records) = 0
      BY DEF Init
    <2> QED
      BY <2>1, StoreAssumption DEF Init, TypeOK, Entries, NoRecord, Positions
  <1> QED
    BY <1>1 DEF Init, StoreInv, HistoryOK, CacheOK, NoRecord

(* A stamp is of the past or the present; only stamping takes the time.    *)
LEMMA StampsNext == TypeOK /\ [Next]_vars => stamp' \in [Clients -> 0..now']
  <1> SUFFICES ASSUME TypeOK, [Next]_vars PROVE stamp' \in [Clients -> 0..now']
    OBVIOUS
  <1>1. now \in Nat /\ stamp \in [Clients -> 0..now]
    BY StoreAssumption DEF TypeOK
  <1>2. CASE Tick
    BY <1>1, <1>2 DEF Tick
  <1>3. CASE UNCHANGED vars \/ Expire
    BY <1>1, <1>3 DEF vars, Expire
  <1>4. ASSUME NEW c \in Clients, NEW i, NEW j, NEW r, Go(c, i, j, r), now' = now
        PROVE  stamp' \in [Clients -> 0..now']
    BY <1>1, <1>4 DEF Go
  <1>5. ASSUME NEW c \in Clients,
               Miss(c) \/ Stamp(c) \/ Insert(c) \/ Tombstone(c) \/ Refuse(c) \/ Finish(c)
        PROVE  stamp' \in [Clients -> 0..now']
    BY <1>4, <1>5 DEF Miss, Stamp, Insert, Tombstone, Refuse, Finish, Load, Cache, Evict, BreakOff
  <1> QED
    BY <1>2, <1>3, <1>5 DEF Next

LEMMA StartsByNow == TypeOK => now \in 0..now /\ \A c \in Clients : Start(c) \in 0..now
  BY StoreAssumption DEF TypeOK, Start

(* Every step of the store keeps its invariant; the durable writes are the *)
(* ones that change the history, the hot calls only move records it holds. *)
LEMMA StoreInvNext == StoreInv /\ [Next]_vars => StoreInv'
  <1> SUFFICES ASSUME StoreInv, [Next]_vars PROVE StoreInv'
    OBVIOUS
  <1> USE StoreAssumption
  <1>0. Entries = [version : 1..MaxRecords, from : 0..MaxTime, stored : 0..MaxTime,
                   until : 0..Never, tombstone : BOOLEAN]
    BY DEF Entries
  <1>s. stamp' \in [Clients -> 0..now']
    BY StampsNext DEF StoreInv
  <1>1. CASE UNCHANGED vars
    BY <1>s, <1>1 DEF vars, StoreInv, TypeOK, HistoryOK, RecordOK, CacheOK, Cacheable
  <1>2. CASE Tick
    <2>1. TypeOK'
      BY <1>s, <1>2 DEF Tick, StoreInv, TypeOK
    <2>2. HistoryOK'
      <3>1. /\ records' = records /\ now' = now + 1 /\ now \in Nat /\ Never \in Nat
            /\ DOMAIN records = 1..Len(records)
            /\ \A i \in 1..Len(records) : records[i] \in Entries
        BY <1>2, RecordsAreEntries DEF Tick, StoreInv, TypeOK, Never
      <3>2. ASSUME NEW i \in DOMAIN records PROVE RecordOK(i)'
        <4>1. records[i] \in Entries /\ RecordOK(i)
          BY <3>1 DEF StoreInv, HistoryOK
        <4> QED
          BY <3>1, <4>1 DEF RecordOK, Entries, Never
      <3> QED
        BY <3>1, <3>2 DEF StoreInv, HistoryOK
    <2> QED
      BY <1>2, <2>1, <2>2 DEF Tick, StoreInv, CacheOK, Cacheable
  <1>3. CASE Expire
    BY <1>s, <1>3 DEF Expire, StoreInv, TypeOK, HistoryOK, RecordOK, CacheOK, Cacheable, Positions, NoRecord
  <1>4. ASSUME NEW c \in Clients, Miss(c) \/ Stamp(c) \/ Evict(c) \/ BreakOff(c) \/ Refuse(c)
        PROVE  StoreInv'
    <2>1. TypeOK'
      <3>1. NoRecord \in Positions
        BY DEF Positions, NoRecord
      <3>2. held' \in [Clients -> Positions] /\ hot' \in Positions
        BY <1>4, <3>1 DEF Miss, Stamp, Evict, BreakOff, Refuse, Go, StoreInv, TypeOK
      <3>3. step' \in [Clients -> {"idle", "missed", "stamped", "caching", "evicting", "refused"}]
        BY <1>4 DEF Miss, Stamp, Evict, BreakOff, Refuse, Go, StoreInv, TypeOK
      <3> QED
        BY <1>s, <1>4, <3>2, <3>3 DEF Miss, Stamp, Evict, BreakOff, Refuse, StoreInv, TypeOK
    <2>2. HistoryOK'
      BY <1>4 DEF Miss, Stamp, Evict, BreakOff, Refuse, StoreInv, HistoryOK, RecordOK
    <2>3. CacheOK'
      BY <1>4 DEF Miss, Stamp, Evict, BreakOff, Refuse, Go, StoreInv, TypeOK, CacheOK, Cacheable
    <2> QED
      BY <2>1, <2>2, <2>3 DEF StoreInv
  <1>5. ASSUME NEW c \in Clients, Load(c)
        PROVE  StoreInv'
    <2>1. Latest # NoRecord => Cacheable(Latest) /\ Latest \in Positions
      <3>1. records \in Seq(Entries) /\ DOMAIN records = 1..Len(records) /\ Len(records) \in Nat
        BY <1>0 DEF StoreInv, TypeOK
      <3>2. Latest = IF Len(records) # 0 /\ records[Len(records)].until = Never
                     THEN Len(records) ELSE NoRecord
        BY LatestIsLast DEF StoreInv
      <3>3. CASE Len(records) # 0 /\ records[Len(records)].until = Never
        <4>1. Len(records) \in DOMAIN records /\ Latest = Len(records)
          BY <3>1, <3>2, <3>3
        <4>2. ~records[Len(records)].tombstone /\ Len(records) <= MaxRecords
          BY <3>3, <4>1 DEF StoreInv, HistoryOK, RecordOK, TypeOK
        <4> QED
          BY <3>1, <4>1, <4>2 DEF Cacheable, Positions
      <3>4. ~(Len(records) # 0 /\ records[Len(records)].until = Never) => Latest = NoRecord
        BY <3>2
      <3> QED
        BY <3>3, <3>4
    <2>2. /\ step' = [step EXCEPT ![c] = IF Latest = NoRecord THEN "idle" ELSE "caching"]
          /\ held' = [held EXCEPT ![c] = Latest]
          /\ UNCHANGED <<backend, now, records, hot>>
      BY <1>5 DEF Load, Go
    <2>3. Latest \in Positions
      BY <2>1 DEF Positions, NoRecord
    <2>4. TypeOK'
      BY <1>s, <2>2, <2>3 DEF StoreInv, TypeOK
    <2>5. HistoryOK'
      BY <2>2 DEF StoreInv, HistoryOK, RecordOK
    <2>6. \A d \in Clients : step'[d] = "caching" => Cacheable(held'[d])
      BY <2>1, <2>2 DEF StoreInv, TypeOK, CacheOK
    <2> QED
      BY <2>2, <2>4, <2>5, <2>6 DEF StoreInv, CacheOK, Cacheable
  <1>6. ASSUME NEW c \in Clients, Cache(c)
        PROVE  StoreInv'
    <2>1. TypeOK'
      BY <1>s, <1>6 DEF Cache, Go, StoreInv, TypeOK, Positions, NoRecord
    <2>2. HistoryOK'
      BY <1>6 DEF Cache, StoreInv, HistoryOK, RecordOK
    <2>3. CacheOK'
      BY <1>6 DEF Cache, Go, StoreInv, TypeOK, CacheOK, Cacheable
    <2> QED
      BY <2>1, <2>2, <2>3 DEF StoreInv
  <1>7. ASSUME NEW tombstone \in BOOLEAN, Len(records) < MaxRecords,
               NEW from \in 0..now,
               records' = Append(Superseded, Entry(from, tombstone)),
               UNCHANGED <<backend, now, hot>>,
               NEW c \in Clients,
               \/ ~tombstone /\ Go(c, "stamped", "caching", Len(records) + 1)
               \/ tombstone /\ Go(c, "idle", "evicting", NoRecord)
        PROVE  StoreInv'
    <2>1. /\ records' \in Seq(Entries) /\ Len(records') = Len(records) + 1
          /\ Len(records) \in Nat
      BY <1>0, <1>7, AppendedHistory DEF StoreInv, TypeOK
    <2>2. TypeOK'
      <3>1. held' \in [Clients -> Positions]
        <4>1. Len(records) + 1 \in Positions /\ NoRecord \in Positions
          BY <1>7, <2>1 DEF Positions, NoRecord
        <4> QED
          BY <1>7, <4>1 DEF Go, StoreInv, TypeOK
      <3>2. step' \in [Clients -> {"idle", "missed", "stamped", "caching", "evicting", "refused"}]
        BY <1>7 DEF Go, StoreInv, TypeOK
      <3> QED
        BY <1>0, <1>s, <1>7, <2>1, <3>1, <3>2 DEF StoreInv, TypeOK, Positions, Never
    <2>3. /\ HistoryOK'
          /\ \A i : Cacheable(i) => Cacheable(i)'
          /\ \A i : i = Len(records) + 1 /\ ~tombstone => Cacheable(i)'
      BY <1>7, HistoryGrows
    <2>4. CacheOK'
      <3>1. hot' # NoRecord => Cacheable(hot)'
        BY <1>7, <2>3 DEF StoreInv, CacheOK, Cacheable
      <3>2. ASSUME NEW d \in Clients, step'[d] = "caching" PROVE Cacheable(held[d])'
        <4>1. CASE d = c
          <5>1. ~tombstone /\ held'[d] = Len(records) + 1
            BY <1>7, <3>2, <4>1 DEF Go, StoreInv, TypeOK
          <5> QED
            BY <2>3, <5>1 DEF Cacheable
        <4>2. CASE d # c
          <5>1. step[d] = "caching" /\ held'[d] = held[d]
            BY <1>7, <3>2, <4>2 DEF Go, StoreInv, TypeOK
          <5>2. Cacheable(held[d])
            BY <5>1 DEF StoreInv, CacheOK
          <5> QED
            BY <2>3, <5>1, <5>2 DEF Cacheable
        <4> QED
          BY <4>1, <4>2
      <3> QED
        BY <3>1, <3>2 DEF CacheOK
    <2> QED
      BY <2>2, <2>3, <2>4 DEF StoreInv
  <1>8. ASSUME NEW c \in Clients, Insert(c)
        PROVE  StoreInv'
    <2>1. Start(c) \in 0..now
      BY DEF Start, StoreInv, TypeOK
    <2> QED
      BY <1>7, <1>8, <2>1 DEF Insert
  <1>9. ASSUME NEW c \in Clients, Tombstone(c)
        PROVE  StoreInv'
    <2>1. CASE Latest # NoRecord
      <3>1. now \in 0..now
        BY DEF StoreInv, TypeOK
      <3> QED
        BY <1>7, <1>9, <2>1, <3>1 DEF Tombstone
    <2>2. CASE Latest = NoRecord
      <3>1. UNCHANGED <<backend, now, records, hot>> /\ Go(c, "idle", "evicting", NoRecord)
        BY <1>9, <2>2 DEF Tombstone
      <3>2. TypeOK'
        BY <1>s, <3>1 DEF Go, StoreInv, TypeOK, Positions, NoRecord
      <3>3. HistoryOK'
        BY <3>1 DEF StoreInv, HistoryOK, RecordOK
      <3>4. CacheOK'
        BY <3>1 DEF Go, StoreInv, TypeOK, CacheOK, Cacheable
      <3> QED
        BY <3>2, <3>3, <3>4 DEF StoreInv
    <2> QED
      BY <2>1, <2>2
  <1> QED
    BY <1>1, <1>2, <1>3, <1>4, <1>5, <1>6, <1>8, <1>9 DEF Next, Finish

-----------------------------------------------------------------------------
(* The invariant says that the past is partitioned.                        *)
LEMMA OneRecordFollows == StoreInv => OneRecordAtATime
  <1> SUFFICES ASSUME StoreInv PROVE OneRecordAtATime
    OBVIOUS
  <1>1. now \in 0..MaxTime /\ MaxTime \in Nat /\ Never = MaxTime + 1 /\ now \in Nat
    BY StoreAssumption DEF StoreInv, TypeOK, Never
  <1>2. ASSUME NEW t \in 0..now
        PROVE  Cardinality(StoredAt(t)) <= 1
    <2>1. t \in Nat
      BY <1>1
    <2>2. StoredAt(t) = {} \/ \E i \in DOMAIN records : StoredAt(t) = {i}
      BY <2>1, OneActive DEF StoreInv
    <2>3. Cardinality(StoredAt(t)) = 0 \/ Cardinality(StoredAt(t)) = 1
      BY <2>2, FS_EmptySet, FS_Singleton
    <2> QED
      BY <2>3
  <1>3. AsOf(now) = Latest
    <2>1. ASSUME NEW i \in DOMAIN records
          PROVE  i \in ActiveAt(now) <=> records[i].until = Never
      <3>1. records[i] \in Entries /\ RecordOK(i)
        BY RecordsAreEntries DEF StoreInv, HistoryOK
      <3>2. /\ records[i].from <= now
            /\ records[i].until \in Nat
            /\ records[i].until # Never => records[i].until <= now
            /\ records[i].until = Never => ~records[i].tombstone
        BY <1>1, <3>1 DEF RecordOK, Entries
      <3> QED
        BY <1>1, <3>2 DEF ActiveAt
    <2>2. ActiveAt(now) = {i \in DOMAIN records : records[i].until = Never}
      BY <2>1 DEF ActiveAt
    <2> QED
      BY <2>2 DEF AsOf, Latest
  <1> QED
    BY <1>2, <1>3 DEF OneRecordAtATime, StoredAt

LEMMA CacheNeverAheadFollows == StoreInv => CacheNeverAhead
  BY DEF StoreInv, CacheOK, Cacheable, CacheNeverAhead

-----------------------------------------------------------------------------
(* A finite set of positions has a greatest one.                           *)
LEMMA MaxExists ==
    ASSUME NEW n \in Nat, NEW S \in SUBSET (0..n), S # {}
    PROVE  \E i \in S : \A j \in S : j <= i
  <1> DEFINE Above(i) == {j \in S : i < j}
             T == {Above(i) : i \in S}
  <1>1. IsFiniteSet(0..n)
    BY FS_Interval
  <1>2. IsFiniteSet(S)
    BY <1>1, FS_Subset
  <1>3. IsWellFoundedOn(StrictSubsetOrdering(S), SUBSET S)
    BY <1>2, FS_StrictSubsetOrderingWellFounded, FS_FiniteSubsetsOfFinite
  <1>4. T \subseteq SUBSET S /\ T # {}
    OBVIOUS
  <1>5. PICK x \in T : \A y \in T : <<y, x>> \notin StrictSubsetOrdering(S)
    <2> HIDE DEF T
    <2> QED
      BY <1>3, <1>4, WFMin
  <1>6. PICK i \in S : x = Above(i)
    BY <1>5
  <1>7. SUFFICES ASSUME NEW j \in S, ~(j <= i) PROVE FALSE
    BY <1>6
  <1>8. j \in Above(i) /\ j \notin Above(j) /\ Above(j) \subseteq Above(i)
    <2>1. S \subseteq Int /\ i < j /\ ~(j < j)
      BY <1>7
    <2>2. \A k \in S : j < k => i < k
      BY <2>1
    <2> QED
      BY <2>1, <2>2
  <1>9. Above(j) \in T /\ Above(j) \in SUBSET S /\ Above(i) \in SUBSET S
    OBVIOUS
  <1> HIDE DEF Above, T
  <1>10. <<Above(j), x>> \in StrictSubsetOrdering(S)
    BY <1>6, <1>8, <1>9 DEF StrictSubsetOrdering
  <1> QED
    BY <1>5, <1>9, <1>10

(* What Newest picks, for any history: the highest version, and of two the *)
(* first; one record always leads a set of them.                           *)
Leads(r, i, j) ==
    \/ r[j].version < r[i].version
    \/ r[j].version = r[i].version /\ i <= j

Foremost(r, S) ==
    IF S = {} THEN NoRecord ELSE CHOOSE i \in S : \A j \in S : Leads(r, i, j)

LEMMA NewestIsForemost == \A S : Newest(S) = Foremost(records, S)
  BY DEF Newest, Precedes, Foremost, Leads

LEMMA ForemostLeads ==
    ASSUME NEW n \in Nat, NEW m \in Nat, NEW r, NEW S \in SUBSET (1..n), S # {},
           \A i \in S : r[i].version \in 0..m
    PROVE  Foremost(r, S) \in S /\ \A j \in S : Leads(r, Foremost(r, S), j)
  <1> DEFINE V == {r[i].version : i \in S}
  <1>1. PICK v \in V : \A w \in V : w <= v
    <2>1. V \in SUBSET (0..m) /\ V # {}
      OBVIOUS
    <2> HIDE DEF V
    <2> QED
      BY <2>1, MaxExists
  <1> DEFINE D == {n - i : i \in {k \in S : r[k].version = v}}
  <1>2. PICK d \in D : \A e \in D : e <= d
    <2>1. D \in SUBSET (0..n)
      OBVIOUS
    <2>2. D # {}
      OBVIOUS
    <2> HIDE DEF D
    <2> QED
      BY <2>1, <2>2, MaxExists
  <1>3. PICK i \in S : r[i].version = v /\ d = n - i
    BY <1>2
  <1>4. ASSUME NEW j \in S
        PROVE  Leads(r, i, j)
    <2>1. r[j].version <= v /\ r[j].version \in Nat /\ v \in Nat
      BY <1>1
    <2>2. r[j].version = v => n - j <= n - i
      BY <1>2, <1>3
    <2> QED
      BY <1>3, <2>1, <2>2 DEF Leads
  <1> QED
    BY <1>3, <1>4 DEF Foremost

LEMMA ForemostIsUnique ==
    ASSUME NEW n \in Nat, NEW m \in Nat, NEW r, NEW S \in SUBSET (1..n),
           \A i \in S : r[i].version \in 0..m,
           NEW i \in S, \A j \in S : Leads(r, i, j)
    PROVE  Foremost(r, S) = i
  <1>1. PICK f \in S : f = Foremost(r, S) /\ Leads(r, f, i)
    BY ForemostLeads
  <1>2. Leads(r, i, f)
    OBVIOUS
  <1>3. r[i].version \in Nat /\ r[f].version \in Nat /\ i \in Nat /\ f \in Nat
    OBVIOUS
  <1> QED
    BY <1>1, <1>2, <1>3 DEF Leads

(* Another history with the same versions, and perhaps one record more.    *)
LEMMA ForemostExtended ==
    ASSUME NEW n \in Nat, NEW m \in Nat, NEW r, NEW s, NEW S \in SUBSET (1..n),
           \A i \in S : r[i].version \in 0..m /\ s[i].version = r[i].version,
           s[n + 1].version \in 0..m
    PROVE  /\ Foremost(s, S) = Foremost(r, S)
           /\ Foremost(s, S \cup {n + 1}) \in {Foremost(r, S), n + 1}
  <1>1. CASE S = {}
    <2>1. Foremost(s, {n + 1}) \in {n + 1}
      <3>1. {n + 1} \in SUBSET (1..n + 1) /\ {n + 1} # {} /\ n + 1 \in Nat
        OBVIOUS
      <3>2. \A i \in {n + 1} : s[i].version \in 0..m
        OBVIOUS
      <3> QED
        BY <3>1, <3>2, ForemostLeads
    <2>2. S \cup {n + 1} = {n + 1}
      BY <1>1
    <2> QED
      BY <1>1, <2>1, <2>2 DEF Foremost
  <1>2. CASE S # {}
    <2>1. PICK f \in S : f = Foremost(r, S) /\ \A j \in S : Leads(r, f, j)
      BY <1>2, ForemostLeads
    <2>2. \A j \in S : Leads(s, f, j)
      BY <2>1 DEF Leads
    <2>3. \A i \in S : s[i].version \in 0..m
      OBVIOUS
    <2>4. Foremost(s, S) = f
      BY <2>2, <2>3, ForemostIsUnique
    <2> DEFINE T == S \cup {n + 1}
    <2>5. T \in SUBSET (1..n + 1) /\ n + 1 \in Nat /\ \A i \in T : s[i].version \in 0..m
      OBVIOUS
    <2>6. PICK g \in T : g = Foremost(s, T) /\ \A j \in T : Leads(s, g, j)
      <3> HIDE DEF T
      <3>1. T # {}
        BY DEF T
      <3> QED
        BY <2>5, <3>1, ForemostLeads
    <2>7. CASE g \in S
      <3>1. \A j \in S : Leads(s, g, j)
        BY <2>6
      <3>2. Foremost(s, S) = g
        BY <2>3, <2>7, <3>1, ForemostIsUnique
      <3> QED
        BY <2>1, <2>4, <2>6, <3>2
    <2>8. CASE g = n + 1
      BY <2>1, <2>4, <2>6, <2>8
    <2> QED
      BY <2>7, <2>8
  <1> QED
    BY <1>1, <1>2

(* A durable write leaves what was active before now as it was, but that a *)
(* record stamped earlier counts as active from its stamp.                 *)
LEMMA PastIsKept ==
    ASSUME StoreInv, Len(records) < MaxRecords, NEW tombstone \in BOOLEAN, NEW from \in 0..now,
           records' = Append(Superseded, Entry(from, tombstone)),
           NEW t \in 0..now - 1
    PROVE  ActiveAt(t)' = IF ~tombstone /\ from <= t THEN ActiveAt(t) \cup {Len(records) + 1}
                          ELSE ActiveAt(t)
  <1> DEFINE n == Len(records)
  <1>1. /\ DOMAIN records = 1..n /\ n \in Nat
        /\ \A i \in 1..n : records[i] \in Entries
    BY RecordsAreEntries DEF StoreInv
  <1>2. now \in 0..MaxTime /\ MaxTime \in Nat /\ Never = MaxTime + 1 /\ t \in Nat /\ t < now
    BY StoreAssumption DEF StoreInv, TypeOK, Never
  <1>3. DOMAIN records' = 1..n + 1
    BY <1>1, AppendedHistory
  <1>4. /\ records'[n + 1].from = from
        /\ records'[n + 1].tombstone = tombstone
        /\ ~tombstone => records'[n + 1].until = Never
    BY AppendedHistory DEF Entry
  <1>5. ASSUME NEW i \in 1..n
        PROVE  /\ records'[i].from = records[i].from
               /\ records'[i].tombstone = records[i].tombstone
               /\ records'[i].until = IF i = Latest THEN now ELSE records[i].until
    <2>1. records[i] \in Entries
      BY <1>1
    <2>2. records'[i] = IF i = Latest THEN [records[i] EXCEPT !.until = now] ELSE records[i]
      BY AppendedHistory
    <2> QED
      BY <2>1, <2>2 DEF Entries
  <1>6. Latest \in 1..n => records[Latest].until = Never
    <2>1. Latest = IF Len(records) # 0 /\ records[Len(records)].until = Never
                   THEN Len(records) ELSE NoRecord
      BY LatestIsLast DEF StoreInv
    <2>2. CASE Len(records) # 0 /\ records[Len(records)].until = Never
      BY <2>1, <2>2
    <2>3. CASE ~(Len(records) # 0 /\ records[Len(records)].until = Never)
      <3>1. Latest = 0
        BY <2>1, <2>3 DEF NoRecord
      <3> QED
        BY <1>1, <3>1
    <2> QED
      BY <2>2, <2>3
  <1>7. ASSUME NEW i \in 1..n
        PROVE  t < records'[i].until <=> t < records[i].until
    <2>1. CASE i = Latest
      <3>1. records'[i].until = now /\ records[i].until = Never
        BY <1>5, <1>6, <2>1
      <3> QED
        BY <1>2, <3>1
    <2>2. CASE i # Latest
      BY <1>5, <2>2
    <2> QED
      BY <2>1, <2>2
  <1>8. ASSUME NEW i
        PROVE  i \in ActiveAt(t)' <=> i \in ActiveAt(t) \/ (i = n + 1 /\ ~tombstone /\ from <= t)
    <2>1. CASE i \in 1..n
      <3>1. i # n + 1
        BY <1>1, <2>1
      <3> QED
        BY <1>1, <1>3, <1>5, <1>7, <2>1, <3>1 DEF ActiveAt
    <2>2. CASE i = n + 1
      <3>1. i \in DOMAIN records' /\ i \notin DOMAIN records /\ t < Never
        BY <1>1, <1>2, <1>3, <2>2
      <3> QED
        BY <1>4, <2>2, <3>1 DEF ActiveAt
    <2>3. CASE i \notin 1..n + 1
      <3>1. i \notin 1..n /\ i # n + 1
        BY <1>1, <2>3
      <3> QED
        BY <1>1, <1>3, <2>3, <3>1 DEF ActiveAt
    <2> QED
      BY <1>1, <2>1, <2>2, <2>3
  <1> QED
    BY <1>8

HistoryStep ==
    \A t \in 0..now - 1 :
        AsOf(t)' # AsOf(t) =>
            /\ backend = "memory"
            /\ \E c \in Clients : step[c] = "stamped" /\ stamp[c] <= t
            /\ AsOf(t)' = Len(records) + 1

(* What a durable write can make of the answer for an earlier instant.     *)
LEMMA AnswersAfter ==
    ASSUME StoreInv, Len(records) < MaxRecords, NEW tombstone \in BOOLEAN, NEW from \in 0..now,
           records' = Append(Superseded, Entry(from, tombstone)),
           NEW t \in 0..now - 1
    PROVE  /\ AsOf(t)' \in {AsOf(t), Len(records) + 1}
           /\ ~(~tombstone /\ from <= t) => AsOf(t)' = AsOf(t)
  <1> DEFINE n == Len(records)
             S == ActiveAt(t)
  <1>1. /\ DOMAIN records = 1..n /\ n \in Nat /\ MaxRecords \in Nat
        /\ \A i \in 1..n : records[i] \in Entries
    BY RecordsAreEntries, StoreAssumption DEF StoreInv
  <1>2. PICK r : r = records'
    OBVIOUS
  <1>3. /\ \A i \in 1..n : records[i].version \in 0..MaxRecords /\ r[i].version = records[i].version
        /\ r[n + 1].version \in 0..MaxRecords
    <2>1. ASSUME NEW i \in 1..n
          PROVE  records[i].version \in 0..MaxRecords /\ r[i].version = records[i].version
      <3>1. records[i] \in Entries
        BY <1>1
      <3>2. r[i] = IF i = Latest THEN [records[i] EXCEPT !.until = now] ELSE records[i]
        BY <1>2, AppendedHistory
      <3> QED
        BY <1>1, <3>1, <3>2 DEF Entries
    <2>2. r \in Seq(Entries) /\ Len(r) = n + 1
      BY <1>2, AppendedHistory
    <2>3. r[n + 1] \in Entries
      BY <1>1, <2>2, ElementOfSeq
    <2> QED
      BY <1>1, <2>1, <2>3 DEF Entries
  <1>4. S \in SUBSET (1..n)
    BY <1>1 DEF ActiveAt
  <1>5. PICK q : q = records
    OBVIOUS
  <1>6. AsOf(t) = Foremost(q, S)
    BY <1>5, NewestIsForemost DEF AsOf
  <1>7. ASSUME NEW T, T = ActiveAt(t)'
        PROVE  AsOf(t)' = Foremost(r, T)
    BY <1>2, <1>7 DEF AsOf, Newest, Precedes, Foremost, Leads
  <1>8. ActiveAt(t)' = IF ~tombstone /\ from <= t THEN S \cup {n + 1} ELSE S
    BY PastIsKept
  <1> HIDE DEF S, n
  <1>9. PICK k \in Nat : k = n
    BY <1>1
  <1>10. PICK T : T = S
    OBVIOUS
  <1>11. T \in SUBSET (1..k) /\ r[k + 1].version \in 0..MaxRecords
    BY <1>3, <1>4, <1>9, <1>10
  <1>12. \A i \in T : q[i].version \in 0..MaxRecords /\ r[i].version = q[i].version
    BY <1>3, <1>4, <1>5, <1>10
  <1>13. /\ Foremost(r, T) = Foremost(q, T)
         /\ Foremost(r, T \cup {k + 1}) \in {Foremost(q, T), k + 1}
    BY <1>1, <1>11, <1>12, ForemostExtended
  <1> QED
    BY <1>6, <1>7, <1>8, <1>9, <1>10, <1>13 DEF n

(* What was found as of an earlier instant is found again after any step,  *)
(* unless the step stores what had been stamped by then.                   *)
LEMMA HistoryStepNext == StoreInv /\ [Next]_vars => HistoryStep
  <1> SUFFICES ASSUME StoreInv, [Next]_vars, NEW t \in 0..now - 1, AsOf(t)' # AsOf(t)
               PROVE  /\ backend = "memory"
                      /\ \E c \in Clients : step[c] = "stamped" /\ stamp[c] <= t
                      /\ AsOf(t)' = Len(records) + 1
    BY DEF HistoryStep
  <1>1. now \in Nat /\ \A c \in Clients : Start(c) \in 0..now
    BY DEF StoreInv, TypeOK, Start
  <1>2. ASSUME records' = records
        PROVE  FALSE
    BY <1>2 DEF AsOf, ActiveAt, Newest, Precedes
  <1>3. ASSUME NEW c \in Clients, Insert(c)
        PROVE  /\ backend = "memory"
               /\ step[c] = "stamped" /\ stamp[c] <= t
               /\ AsOf(t)' = Len(records) + 1
    <2>1. /\ Len(records) < MaxRecords
          /\ records' = Append(Superseded, Entry(Start(c), FALSE))
          /\ step[c] = "stamped"
      BY <1>3 DEF Insert, Go
    <2>2. AsOf(t)' = Len(records) + 1 /\ Start(c) <= t
      BY <1>1, <2>1, AnswersAfter
    <2> QED
      BY <1>1, <2>1, <2>2 DEF Start
  <1>4. ASSUME NEW c \in Clients, Tombstone(c)
        PROVE  FALSE
    <2>1. Latest # NoRecord
      BY <1>2, <1>4 DEF Tombstone
    <2>2. Len(records) < MaxRecords /\ records' = Append(Superseded, Entry(now, TRUE))
      BY <1>4, <2>1 DEF Tombstone
    <2>3. now \in 0..now
      BY <1>1
    <2> QED
      BY <2>2, <2>3, AnswersAfter
  <1>5. \/ records' = records
        \/ \E c \in Clients : Insert(c) \/ Tombstone(c)
    BY DEF Next, vars, Tick, Expire, Finish, Miss, Stamp, Load, Refuse, Cache, Evict, BreakOff
  <1> QED
    BY <1>2, <1>3, <1>4, <1>5

-----------------------------------------------------------------------------
(* A step of the ingest is a step of the store: it cannot reach a state of *)
(* the store that the store's own callers could not.                       *)
LEMMA IngestStepsStore == [IngestNext]_allvars => [Next]_vars
  <1> SUFFICES ASSUME [IngestNext]_allvars PROVE [Next]_vars
    OBVIOUS
  <1>1. CASE UNCHANGED allvars
    BY <1>1 DEF allvars
  <1>2. CASE (Tick \/ Expire) /\ UNCHANGED ingest
    BY <1>2 DEF Next
  <1>3. ASSUME NEW c \in Clients, NEW e \in Events, Receive(c, e)
        PROVE  [Next]_vars
    BY <1>3 DEF Receive
  <1>4. ASSUME NEW c \in Clients, Request(c)
        PROVE  [Next]_vars
    BY <1>4 DEF Request, Hit, Fetch, Sign, Write, Warm, Rehydrate, Next, Finish
  <1>5. ASSUME NEW c \in Clients, Other(c) \/ Refused(c) \/ Fail(c)
        PROVE  [Next]_vars
    BY <1>5 DEF Other, Refused, Fail, Next, Finish
  <1> QED
    BY <1>1, <1>2, <1>3, <1>4, <1>5 DEF IngestNext

(* The ingest implements the store it runs over.                           *)
THEOREM IngestImplementsStore == IngestSpec => Spec
  <1>1. IngestInit => Init
    BY DEF IngestInit
  <1> QED
    BY <1>1, IngestStepsStore, PTL DEF IngestSpec, Spec

(* The store's invariant, for any number of callers, whether a call may    *)
(* break off between the history and the cache or not.                     *)
THEOREM StoreInvariant == Spec => []StoreInv
  BY StoreInvInit, StoreInvNext, PTL DEF Spec

(* Type correctness of the store: versions start again at a deletion and   *)
(* yet never run past the length of the history.                           *)
THEOREM StoreTypes == Spec => []TypeOK
  <1>1. StoreInv => TypeOK
    BY DEF StoreInv
  <1> QED
    BY <1>1, StoreInvariant, PTL

(* At no instant up to now were two records in the store and active, and   *)
(* the history as of now agrees with get_latest(), under the store's own   *)
(* callers, whenever they stamp what they write ...                        *)
THEOREM StoreOneRecordAtATime == Spec => []OneRecordAtATime
  BY StoreInvariant, OneRecordFollows, PTL

(* ... and under the ingest.                                               *)
THEOREM IngestOneRecordAtATime == IngestSpec => []OneRecordAtATime
  BY IngestImplementsStore, StoreOneRecordAtATime, PTL

(* A cached record is one the durable store has, whatever breaks off.      *)
THEOREM StoreCacheNeverAhead == Spec => []CacheNeverAhead
  BY StoreInvariant, CacheNeverAheadFollows, PTL

THEOREM IngestCacheNeverAhead == IngestSpec => []CacheNeverAhead
  BY IngestImplementsStore, StoreCacheNeverAhead, PTL

(* Append-only: replay and audit as of an earlier instant read the same    *)
(* record at every later time, until one stamped by then is stored, and    *)
(* with Postgres, which dates a record by its insert, for ever.            *)
THEOREM StoreHistoryIsStable == Spec => HistoryIsStable
  <1>1. StoreInv /\ [Next]_vars => [HistoryStep]_vars
    BY HistoryStepNext
  <1>2. Spec => [][HistoryStep]_vars
    BY <1>1, StoreInvariant, PTL DEF Spec
  <1> QED
    BY <1>2 DEF HistoryIsStable, HistoryStep

THEOREM IngestHistoryIsStable == IngestSpec => HistoryIsStable
  BY IngestImplementsStore, StoreHistoryIsStable, PTL

-----------------------------------------------------------------------------
(* What a field owes to the log, for a prefix of a log and a deletion.     *)
Greatest(S) == CHOOSE i \in S : \A j \in S : j <= i

Resets(l, n, s) == {0, s} \cup {i \in 1..n : ~Merges(l[i])}

Bearers(l, n, s, f) ==
    {i \in 1..n : f \in Carries[l[i]] /\ i > s /\ i >= Greatest(Resets(l, n, s))}

Owed(l, n, s, f) ==
    IF Bearers(l, n, s, f) = {} THEN NoEvent ELSE l[Greatest(Bearers(l, n, s, f))]

LEMMA DueIsOwed ==
    ASSUME log \in Seq(Events), NEW f
    PROVE  Due(f) = Owed(log, Len(log), since, f)
  <1>1. DOMAIN log = 1..Len(log)
    OBVIOUS
  <1> QED
    BY <1>1 DEF Due, Owed, Bearers, Resets, Greatest

LEMMA GreatestIsOne ==
    ASSUME NEW n \in Nat, NEW S \in SUBSET (0..n), S # {}
    PROVE  Greatest(S) \in S /\ \A j \in S : j <= Greatest(S)
  BY MaxExists DEF Greatest

LEMMA GreatestIsUnique ==
    ASSUME NEW n \in Nat, NEW S \in SUBSET (0..n), NEW m \in S, \A j \in S : j <= m
    PROVE  Greatest(S) = m
  <1>1. Greatest(S) \in S /\ m <= Greatest(S)
    BY GreatestIsOne
  <1>2. PICK g \in S : g = Greatest(S) /\ m <= g
    BY <1>1
  <1>3. g <= m /\ g \in 0..n /\ m \in 0..n
    BY <1>2
  <1> QED
    BY <1>2, <1>3

(* Only the part of the log that counts matters.                           *)
LEMMA OwedByPrefix ==
    ASSUME NEW n \in Nat, NEW s \in 0..n, NEW l, NEW m, NEW f,
           \A i \in 1..n : l[i] = m[i]
    PROVE  Owed(l, n, s, f) = Owed(m, n, s, f)
  <1>1. Resets(l, n, s) = Resets(m, n, s)
    BY DEF Resets
  <1>2. Bearers(l, n, s, f) = Bearers(m, n, s, f)
    BY <1>1 DEF Bearers
  <1>3. CASE Bearers(l, n, s, f) = {}
    BY <1>2, <1>3 DEF Owed
  <1>4. CASE Bearers(l, n, s, f) # {}
    <2>1. Bearers(l, n, s, f) \in SUBSET (0..n) /\ Bearers(l, n, s, f) \subseteq 1..n
      BY DEF Bearers
    <2>2. Greatest(Bearers(l, n, s, f)) \in 1..n
      BY <1>4, <2>1, GreatestIsOne
    <2> QED
      BY <1>2, <1>4, <2>2 DEF Owed
  <1> QED
    BY <1>3, <1>4

(* Nothing is owed right after a deletion.                                 *)
LEMMA NothingOwed ==
    ASSUME NEW n \in Nat, NEW l, NEW f
    PROVE  Owed(l, n, n, f) = NoEvent
  <1>1. Bearers(l, n, n, f) = {}
    BY DEF Bearers
  <1> QED
    BY <1>1 DEF Owed

(* The newest event of the log, and what it changes.                       *)
LEMMA OwedAfter ==
    ASSUME NEW n \in Nat, n # 0, NEW s \in 0..n - 1, NEW l, NEW f
    PROVE  /\ f \in Carries[l[n]] => Owed(l, n, s, f) = l[n]
           /\ f \notin Carries[l[n]] /\ Merges(l[n]) => Owed(l, n, s, f) = Owed(l, n - 1, s, f)
           /\ f \notin Carries[l[n]] /\ ~Merges(l[n]) => Owed(l, n, s, f) = NoEvent
  <1>1. /\ Resets(l, n, s) \in SUBSET (0..n) /\ Resets(l, n, s) # {}
        /\ Bearers(l, n, s, f) \in SUBSET (0..n)
    BY DEF Resets, Bearers
  <1>2. ASSUME f \in Carries[l[n]] PROVE Owed(l, n, s, f) = l[n]
    <2>1. n >= Greatest(Resets(l, n, s))
      <3>1. Greatest(Resets(l, n, s)) \in Resets(l, n, s)
        BY <1>1, GreatestIsOne
      <3>2. Greatest(Resets(l, n, s)) \in 0..n
        BY <1>1, <3>1
      <3> QED
        BY <3>2
    <2>2. n \in Bearers(l, n, s, f)
      BY <1>2, <2>1 DEF Bearers
    <2>3. \A j \in Bearers(l, n, s, f) : j <= n
      BY DEF Bearers
    <2>4. Greatest(Bearers(l, n, s, f)) = n
      BY <1>1, <2>2, <2>3, GreatestIsUnique
    <2> QED
      BY <2>2, <2>4 DEF Owed
  <1>3. ASSUME f \notin Carries[l[n]], Merges(l[n])
        PROVE  Owed(l, n, s, f) = Owed(l, n - 1, s, f)
    <2>1. \A i : i \in 1..n <=> i \in 1..n - 1 \/ i = n
      OBVIOUS
    <2>2. Resets(l, n, s) = Resets(l, n - 1, s)
      BY <1>3, <2>1 DEF Resets
    <2>3. Bearers(l, n, s, f) = Bearers(l, n - 1, s, f)
      BY <1>3, <2>1, <2>2 DEF Bearers
    <2> QED
      BY <2>3 DEF Owed
  <1>4. ASSUME f \notin Carries[l[n]], ~Merges(l[n])
        PROVE  Owed(l, n, s, f) = NoEvent
    <2>1. n \in Resets(l, n, s) /\ \A j \in Resets(l, n, s) : j <= n
      BY <1>4 DEF Resets
    <2>2. Greatest(Resets(l, n, s)) = n
      BY <1>1, <2>1, GreatestIsUnique
    <2>3. Bearers(l, n, s, f) = {}
      BY <1>4, <2>2 DEF Bearers
    <2> QED
      BY <2>3 DEF Owed
  <1> QED
    BY <1>2, <1>3, <1>4

-----------------------------------------------------------------------------
(* What holds while requests come one after the other.  A refused call     *)
(* ends the sequence as soon as its request breaks off.                    *)
Calm == sequential /\ \A c \in Clients : step[c] # "refused"

Rest(c) == \A d \in Clients \ {c} : ~Busy(d)

Shown(f) == IF Latest = NoRecord THEN NoEvent ELSE values[Latest][f]

(* The event at hand is the newest; a merge has read the open record.      *)
RequestOK(c) ==
    /\ at[c] = "free" => ~again[c]
    /\ at[c] # "free" => log # <<>> /\ event[c] = log[Len(log)] /\ since < Len(log)
    /\ at[c] = "read" => Merges(event[c])
    /\ base[c] = IF at[c] = "write" /\ Merges(event[c]) THEN Latest ELSE NoRecord

(* The cache lags only while a call is between its two halves.             *)
CacheFollows(c) ==
    /\ step[c] \notin {"caching", "evicting"} => hot \in {NoRecord, Latest}
    /\ step[c] = "caching" => held[c] = Latest

(* The entity shows what the log says, but for an event not yet written.   *)
Pending(c) == at[c] \in {"read", "write"} /\ ~again[c]

ContentOK(c) ==
    \A f \in FieldNames :
        Shown(f) = Owed(log, IF Pending(c) THEN Len(log) - 1 ELSE Len(log), since, f)

Orderly(c) == CacheFollows(c) /\ ContentOK(c)

(* One client at a time has the store, and it finds it in order; when all  *)
(* rest, whoever is next does.  Without clients nothing is ever written.   *)
SequenceOK ==
    Calm => /\ \A c \in Clients : /\ RequestOK(c)
                                  /\ Busy(c) => Rest(c)
                                  /\ Rest(c) => Orderly(c)
            /\ Clients = {} => Latest = NoRecord

BaseOK == \A c \in Clients : base[c] # NoRecord => base[c] \in DOMAIN records

IngestInv == StoreInv /\ IngestTypeOK /\ BaseOK /\ SequenceOK

-----------------------------------------------------------------------------
(* A write of c is the only thing that adds a record.                      *)
LEMMA LatestKept ==
    ASSUME UNCHANGED records
    PROVE  Latest' = Latest
  BY DEF Latest, Newest, Precedes

LEMMA LatestAppended ==
    ASSUME StoreInv, Len(records) < MaxRecords, NEW tombstone \in BOOLEAN, NEW from \in 0..now,
           records' = Append(Superseded, Entry(from, tombstone)), UNCHANGED now
    PROVE  Latest' = IF tombstone THEN NoRecord ELSE Len(records) + 1
  <1> DEFINE n == Len(records)
  <1>1. /\ records' \in Seq(Entries) /\ DOMAIN records' = 1..n + 1 /\ n \in Nat
        /\ DOMAIN records = 1..n /\ \A i \in 1..n : records[i] \in Entries
    BY AppendedHistory, RecordsAreEntries DEF StoreInv
  <1>2. now \in 0..MaxTime /\ MaxTime \in Nat /\ Never = MaxTime + 1 /\ now # Never
    BY StoreAssumption DEF StoreInv, TypeOK, Never
  <1>3. ASSUME NEW i \in 1..n PROVE records'[i].until # Never
    <2>1. records[i] \in Entries
      BY <1>1
    <2>2. records'[i] = IF i = Latest THEN [records[i] EXCEPT !.until = now] ELSE records[i]
      BY AppendedHistory
    <2>3. i # Latest => records[i].until # Never
      BY AppendedHistory
    <2>4. i = Latest => records'[i].until = now
      BY <2>1, <2>2 DEF Entries
    <2> QED
      BY <1>2, <2>2, <2>3, <2>4
  <1>4. records'[n + 1].until = IF tombstone THEN now ELSE Never
    BY AppendedHistory DEF Entry
  <1>5. {i \in DOMAIN records' : records'[i].until = Never} =
            IF tombstone THEN {} ELSE {n + 1}
    BY <1>1, <1>2, <1>3, <1>4
  <1>6. Newest({})' = NoRecord
    BY DEF Newest, NoRecord
  <1>7. ASSUME NEW i, i = n + 1 PROVE Newest({i})' = i
    <2>1. i \in DOMAIN records' /\ records'[i] \in Entries
      BY <1>1, <1>7, ElementOfSeq
    <2>2. records'[i].version \in Nat
      BY <2>1, StoreAssumption DEF Entries
    <2> QED
      BY <2>2 DEF Newest
  <1>8. CASE tombstone
    BY <1>5, <1>6, <1>8 DEF Newest, Latest
  <1>9. CASE ~tombstone
    <2>1. PICK i : i = n + 1
      OBVIOUS
    <2>2. {j \in DOMAIN records' : records'[j].until = Never} = {i}
      BY <1>5, <1>9, <2>1
    <2>3. Latest' = Newest({i})'
      <3>1. ASSUME NEW S, S = {j \in DOMAIN records' : records'[j].until = Never}
            PROVE  Latest' = Newest(S)'
        BY <3>1 DEF Newest, Latest
      <3> QED
        BY <2>2, <3>1
    <2> QED
      BY <1>7, <1>9, <2>1, <2>3
  <1> QED
    BY <1>8, <1>9

LEMMA LatestInHistory ==
    ASSUME StoreInv
    PROVE  Latest # NoRecord => Latest \in DOMAIN records
  <1>1. TypeOK /\ HistoryOK /\ DOMAIN records = 1..Len(records) /\ Len(records) \in Nat
    BY RecordsAreEntries DEF StoreInv
  <1> QED
    BY <1>1, LatestIsLast

LEMMA HydratedIsValue ==
    ASSUME NEW e \in Events \cup {NoEvent}, NEW old \in Values
    PROVE  Hydrated(e, old) \in Values
  BY DEF Hydrated, Values

LEMMA UnsetIsValue == Unset \in Values
  BY DEF Unset, Values, NoEvent

(* The history only grows, and only by a write or a deletion.              *)
LEMMA IngestTypeNext ==
    ASSUME StoreInv, StoreInv', IngestTypeOK, BaseOK, [IngestNext]_allvars
    PROVE  IngestTypeOK' /\ BaseOK'
  <1>0. /\ TypeOK /\ TypeOK' /\ NoRecord \in Positions
        /\ DOMAIN records = 1..Len(records) /\ Len(records) \in Nat
        /\ values \in Seq(Values) /\ Len(values) = Len(records)
        /\ DOMAIN values = DOMAIN records
        /\ log \in Seq(Events) /\ Len(log) \in Nat /\ since \in 0..Len(log)
        /\ sequential \in BOOLEAN
        /\ event \in [Clients -> Events \cup {NoEvent}] /\ again \in [Clients -> BOOLEAN]
        /\ at \in [Clients -> {"free", "read", "write", "written"}]
        /\ base \in [Clients -> Positions]
    <2>1. values \in Seq(Values) /\ Len(values) = Len(records)
      BY DEF IngestTypeOK
    <2>2. DOMAIN records = 1..Len(records) /\ Len(records) \in Nat
      BY RecordsAreEntries DEF StoreInv
    <2>3. NoRecord \in Positions
      BY StoreAssumption DEF NoRecord, Positions
    <2> QED
      BY <2>1, <2>2, <2>3 DEF IngestTypeOK, StoreInv
  <1> DEFINE Kept == UNCHANGED <<log, values, since, records>>
             Clean == /\ event' \in [Clients -> Events \cup {NoEvent}]
                      /\ again' \in [Clients -> BOOLEAN]
                      /\ at' \in [Clients -> {"free", "read", "write", "written"}]
                      /\ sequential' \in BOOLEAN
             Bases == /\ base' \in [Clients -> Positions]
                      /\ \A c \in Clients : base'[c] # NoRecord => base'[c] \in DOMAIN records
  <1>1. ASSUME Kept, Clean, Bases
        PROVE  IngestTypeOK' /\ BaseOK'
    BY <1>0, <1>1 DEF IngestTypeOK, BaseOK
  <1>2. UNCHANGED base => Bases
    BY <1>0 DEF BaseOK
  <1>3. \A c \in Clients : \A b : base' = [base EXCEPT ![c] = b] /\ b \in Positions
                              /\ (b # NoRecord => b \in DOMAIN records) => Bases
    BY <1>0 DEF BaseOK
  <1>4. \A c \in Clients : First(event[c]) \in {"read", "write"}
    BY DEF First
  <1> HIDE DEF Bases
  <1>5. CASE UNCHANGED allvars
    BY <1>0, <1>1, <1>2, <1>5 DEF allvars, vars, ingest
  <1>6. CASE (Tick \/ Expire) /\ UNCHANGED ingest
    BY <1>0, <1>1, <1>2, <1>6 DEF ingest, Tick, Expire
  <1>7. ASSUME NEW c \in Clients, NEW e \in Events, Receive(c, e)
        PROVE  IngestTypeOK' /\ BaseOK'
    <2>1. log' \in Seq(Events) /\ Len(log') = Len(log) + 1
      BY <1>0, <1>7 DEF Receive
    <2>2. Clean
      BY <1>0, <1>7 DEF Receive, First, Starts
    <2>3. since' \in 0..Len(log') /\ UNCHANGED <<values, records, base>>
      BY <1>0, <1>7, <2>1 DEF Receive, vars
    <2> QED
      BY <1>0, <2>1, <2>2, <2>3 DEF IngestTypeOK, BaseOK
  <1>8. ASSUME NEW c \in Clients, Hit(c)
        PROVE  IngestTypeOK' /\ BaseOK'
    <2>1. Kept /\ Clean
      BY <1>0, <1>8 DEF Hit, vars
    <2>2. hot \in Positions /\ hot \in DOMAIN records
      BY <1>8 DEF Hit, StoreInv, TypeOK, CacheOK, Cacheable
    <2>3. Bases
      BY <1>3, <1>8, <2>2 DEF Hit
    <2> QED
      BY <1>1, <2>1, <2>3
  <1>9. ASSUME NEW c \in Clients, Fetch(c)
        PROVE  IngestTypeOK' /\ BaseOK'
    <2>1. Kept /\ Clean
      BY <1>0, <1>9 DEF Fetch, Miss, Load
    <2>2. Latest \in Positions /\ (Latest # NoRecord => Latest \in DOMAIN records)
      <3>1. Latest # NoRecord => Latest \in DOMAIN records
        BY LatestInHistory
      <3>2. Len(records) <= MaxRecords /\ MaxRecords \in Nat
        BY <1>0, StoreAssumption DEF TypeOK
      <3> QED
        BY <1>0, <3>1, <3>2 DEF Positions
    <2>3. Bases
      BY <1>2, <1>3, <1>9, <2>2 DEF Fetch
    <2> QED
      BY <1>1, <2>1, <2>3
  <1>10. ASSUME NEW c \in Clients, Write(c)
         PROVE  IngestTypeOK' /\ BaseOK'
    <2> DEFINE new == Hydrated(event[c], IF base[c] = NoRecord THEN Unset ELSE values[base[c]])
    <2>1. new \in Values
      <3>1. base[c] # NoRecord => values[base[c]] \in Values
        BY <1>0, ElementOfSeq DEF BaseOK
      <3> QED
        BY <1>0, <3>1, HydratedIsValue, UnsetIsValue
    <2>2. values' = Append(values, new)
      BY <1>10 DEF Write
    <2> HIDE DEF new
    <2>3. values' \in Seq(Values) /\ Len(values') = Len(values) + 1
      BY <1>0, <2>1, <2>2
    <2>4. Len(records') = Len(records) + 1 /\ DOMAIN records' = 1..Len(records')
      <3>1. /\ Len(records) < MaxRecords
            /\ records' = Append(Superseded, Entry(Start(c), FALSE))
            /\ Start(c) \in 0..now
        BY <1>10, StartsByNow DEF Write, Insert, StoreInv
      <3>2. records' \in Seq(Entries) /\ Len(records') = Len(records) + 1
        BY <3>1, AppendedHistory
      <3> QED
        BY <3>2
    <2>5. Clean /\ UNCHANGED <<log, since>>
      BY <1>0, <1>10 DEF Write
    <2>6. Bases
      BY <1>0, <1>3, <1>10 DEF Write
    <2>7. BaseOK'
      BY <1>0, <2>4, <2>6 DEF Bases, BaseOK
    <2> QED
      BY <1>0, <2>3, <2>4, <2>5, <2>6, <2>7 DEF IngestTypeOK, Bases
  <1>11. ASSUME NEW c \in Clients, Sign(c) \/ Warm(c) \/ Rehydrate(c) \/ Refused(c)
         PROVE  IngestTypeOK' /\ BaseOK'
    <2>1. Kept /\ Clean /\ UNCHANGED base
      BY <1>0, <1>4, <1>11 DEF Sign, Stamp, Warm, Cache, Rehydrate, Refused, Refuse, ingest, vars
    <2> QED
      BY <1>1, <1>2, <2>1
  <1>12. ASSUME NEW c \in Clients, Fail(c)
         PROVE  IngestTypeOK' /\ BaseOK'
    <2>1. Kept /\ Clean
      BY <1>0, <1>12 DEF Fail, BreakOff, vars
    <2>2. Bases
      BY <1>0, <1>3, <1>12 DEF Fail
    <2> QED
      BY <1>1, <2>1, <2>2
  <1>13. ASSUME NEW c \in Clients, Other(c)
         PROVE  IngestTypeOK' /\ BaseOK'
    <2>1. Clean /\ UNCHANGED <<log, base>>
      BY <1>0, <1>13 DEF Other, Starts
    <2>2. CASE Kept
      BY <1>1, <1>2, <2>1, <2>2
    <2>3. ASSUME Tombstone(c), values' = IF Latest = NoRecord THEN values ELSE Append(values, Unset),
                 since' = Len(log)
          PROVE  IngestTypeOK' /\ BaseOK'
      <3>1. since' \in 0..Len(log)
        BY <1>0, <2>3
      <3>2. CASE Latest = NoRecord
        <4>1. UNCHANGED <<values, records>>
          BY <2>3, <3>2 DEF Tombstone
        <4> QED
          BY <1>0, <2>1, <3>1, <4>1 DEF IngestTypeOK, BaseOK
      <3>3. CASE Latest # NoRecord
        <4>1. values' \in Seq(Values) /\ Len(values') = Len(values) + 1
          BY <1>0, <2>3, <3>3, UnsetIsValue
        <4>2. Len(records') = Len(records) + 1 /\ DOMAIN records' = 1..Len(records')
          <5>1. /\ Len(records) < MaxRecords
                /\ records' = Append(Superseded, Entry(now, TRUE))
                /\ now \in 0..now
            BY <2>3, <3>3, StartsByNow DEF Tombstone, StoreInv
          <5>2. records' \in Seq(Entries) /\ Len(records') = Len(records) + 1
            BY <5>1, AppendedHistory
          <5> QED
            BY <5>2
        <4>3. BaseOK'
          BY <1>0, <2>1, <4>2 DEF BaseOK
        <4> QED
          BY <1>0, <2>1, <3>1, <4>1, <4>2, <4>3 DEF IngestTypeOK
      <3> QED
        BY <3>2, <3>3
    <2> QED
      BY <1>13, <2>2, <2>3 DEF Other, Miss, Load, Evict
  <1> QED
    BY <1>5, <1>6, <1>7, <1>8, <1>9, <1>10, <1>11, <1>12, <1>13 DEF IngestNext, Request

Turn(c) == (\E e \in Events : Receive(c, e)) \/ Request(c) \/ Other(c)

(* Once requests have overlapped or broken off, they have.                 *)
LEMMA CalmStep ==
    ASSUME TypeOK, IngestTypeOK, [IngestNext]_allvars, Calm'
    PROVE  /\ Calm
           /\ \/ UNCHANGED allvars
              \/ (Tick \/ Expire) /\ UNCHANGED ingest
              \/ \E c \in Clients : Turn(c)
  <1>0. /\ step \in [Clients -> {"idle", "missed", "stamped", "caching", "evicting", "refused"}]
        /\ sequential \in BOOLEAN
        /\ sequential' /\ \A c \in Clients : step'[c] # "refused"
    BY DEF TypeOK, IngestTypeOK, Calm
  <1>1. CASE UNCHANGED allvars
    BY <1>0, <1>1 DEF allvars, vars, ingest, Calm
  <1>2. CASE (Tick \/ Expire) /\ UNCHANGED ingest
    BY <1>0, <1>2 DEF ingest, Tick, Expire, Calm
  <1>3. ASSUME NEW c \in Clients, Turn(c)
        PROVE  Calm
    <2>1. sequential
      BY <1>0, <1>3 DEF Turn, Receive, Starts, Request, Hit, Fetch, Sign, Write, Warm, Rehydrate,
                        ingest, Other
    <2>2. step' = step \/ \E s : Go(c, s, step'[c], held'[c]) /\ s # "refused"
      BY <1>0, <1>3 DEF Turn, Receive, vars, Request, Hit, Fetch, Sign, Write, Warm, Rehydrate, Other,
                        Go, Miss, Load, Stamp, Insert, Cache, Tombstone, Evict
    <2>3. \A d \in Clients : step[d] # "refused"
      BY <1>0, <2>2 DEF Go
    <2> QED
      BY <2>1, <2>3 DEF Calm
  <1>4. ASSUME NEW c \in Clients, Refused(c) \/ Fail(c)
        PROVE  FALSE
    BY <1>0, <1>4 DEF Refused, Refuse, Go, Fail
  <1> QED
    BY <1>1, <1>2, <1>3, <1>4 DEF IngestNext, Turn

(* A turn is the turn of one client.                                       *)
LEMMA OthersRest ==
    ASSUME TypeOK, IngestTypeOK, SequenceOK, Calm, Calm', NEW c \in Clients, Turn(c)
    PROVE  /\ Rest(c) /\ Rest(c)'
           /\ \A d \in Clients \ {c} :
                 at'[d] = at[d] /\ again'[d] = again[d] /\ base'[d] = base[d]
  <1>0. /\ step \in [Clients -> {"idle", "missed", "stamped", "caching", "evicting", "refused"}]
        /\ at \in [Clients -> {"free", "read", "write", "written"}]
        /\ again \in [Clients -> BOOLEAN] /\ base \in [Clients -> Positions]
        /\ sequential'
    BY DEF TypeOK, IngestTypeOK, Calm
  <1>1. Busy(c) \/ Starts(c)
    BY <1>0 DEF Turn, Receive, Request, Hit, Fetch, Sign, Write, Warm, Rehydrate, Other,
                Go, Miss, Load, Stamp, Insert, Cache, Tombstone, Evict, Busy
  <1>2. Rest(c)
    BY <1>0, <1>1 DEF SequenceOK, Starts, Rest
  <1>3. ASSUME NEW d \in Clients \ {c}
        PROVE  at'[d] = at[d] /\ again'[d] = again[d] /\ base'[d] = base[d] /\ step'[d] = step[d]
    BY <1>0, <1>3 DEF Turn, Receive, vars, Request, Hit, Fetch, Sign, Write, Warm, Rehydrate, Other,
                      Go, Miss, Load, Stamp, Insert, Cache, Tombstone, Evict, ingest
  <1> QED
    BY <1>2, <1>3 DEF Rest, Busy

(* ... who leaves the store in order for whoever comes next.               *)
LEMMA InOrderForAll ==
    ASSUME NEW c \in Clients, Rest(c)', Orderly(c)', \A d \in Clients : RequestOK(d)'
    PROVE  SequenceOK'
  <1>1. ASSUME NEW d \in Clients, d # c
        PROVE  ~Busy(d)' /\ (Rest(d)' => Orderly(d)')
    <2>1. ~Busy(d)'
      BY <1>1 DEF Rest
    <2>2. ASSUME Rest(d)' PROVE Orderly(d)'
      <3>1. ~Busy(c)'
        BY <1>1, <2>2 DEF Rest
      <3>2. CacheFollows(d)'
        BY <2>1, <3>1 DEF Orderly, CacheFollows, Busy
      <3>3. ~Pending(c)' /\ ~Pending(d)'
        BY <2>1, <3>1 DEF Pending, Busy
      <3> QED
        BY <3>2, <3>3 DEF Orderly, ContentOK
    <2> QED
      BY <2>1, <2>2
  <1> QED
    BY <1>1 DEF SequenceOK

(* The value written is what the log, with the event at hand, asks for.    *)
LEMMA WrittenIsOwed ==
    ASSUME IngestTypeOK, NEW c \in Clients, at[c] = "write", RequestOK(c), ContentOK(c),
           NEW f \in FieldNames
    PROVE  Hydrated(event[c], IF base[c] = NoRecord THEN Unset ELSE values[base[c]])[f]
               = Owed(log, Len(log), since, f)
  <1> DEFINE n == Len(log)
             e == event[c]
             old == IF base[c] = NoRecord THEN Unset ELSE values[base[c]]
  <1>1. log \in Seq(Events) /\ n \in Nat /\ n # 0 /\ since \in 0..n - 1 /\ e = log[n]
    BY DEF IngestTypeOK, RequestOK
  <1>2. Hydrated(e, old)[f] = IF f \in Carries[e] THEN e ELSE old[f]
    BY DEF Hydrated
  <1>3. base[c] = IF Merges(e) THEN Latest ELSE NoRecord
    BY DEF RequestOK
  <1>4. /\ f \in Carries[e] => Owed(log, n, since, f) = e
        /\ f \notin Carries[e] /\ Merges(e) => Owed(log, n, since, f) = Owed(log, n - 1, since, f)
        /\ f \notin Carries[e] /\ ~Merges(e) => Owed(log, n, since, f) = NoEvent
    BY <1>1, OwedAfter
  <1>5. Merges(e) => old[f] = Shown(f)
    BY <1>3 DEF Shown, Unset
  <1>6. ~Merges(e) => old[f] = NoEvent
    BY <1>3 DEF Unset
  <1>7. Shown(f) = Owed(log, n - 1, since, f) \/ Shown(f) = Owed(log, n, since, f)
    BY DEF ContentOK
  <1> HIDE DEF n, e, old
  <1>8. Hydrated(e, old)[f] = Owed(log, n, since, f)
    BY <1>2, <1>4, <1>5, <1>6, <1>7
  <1> QED
    BY <1>8 DEF n, e, old

(* What a turn does to the one whose turn it is.                           *)
LEMMA TurnInOrder ==
    ASSUME StoreInv, IngestTypeOK, NEW c \in Clients, Rest(c), RequestOK(c), Orderly(c), Turn(c)
    PROVE  RequestOK(c)' /\ Orderly(c)'
  <1>0. /\ step \in [Clients -> {"idle", "missed", "stamped", "caching", "evicting", "refused"}]
        /\ held \in [Clients -> Positions]
        /\ log \in Seq(Events) /\ Len(log) \in Nat /\ since \in 0..Len(log)
        /\ event \in [Clients -> Events \cup {NoEvent}] /\ again \in [Clients -> BOOLEAN]
        /\ at \in [Clients -> {"free", "read", "write", "written"}]
        /\ base \in [Clients -> Positions]
        /\ values \in Seq(Values) /\ Len(values) = Len(records) /\ Len(records) \in Nat
    <2>1. Len(records) \in Nat
      BY RecordsAreEntries DEF StoreInv
    <2> QED
      BY <2>1 DEF IngestTypeOK, TypeOK
  <1>1. UNCHANGED records => Latest' = Latest
    BY LatestKept
  <1>2. CacheFollows(c) /\ ContentOK(c)
    BY DEF Orderly
  <1>3. ASSUME UNCHANGED <<records, values, log, since>>, Pending(c)' = Pending(c)
        PROVE  ContentOK(c)'
    BY <1>1, <1>2, <1>3 DEF ContentOK, Shown
  <1>4. ASSUME NEW e \in Events, Receive(c, e)
        PROVE  RequestOK(c)' /\ Orderly(c)'
    <2>1. /\ log' = Append(log, e) /\ Len(log') = Len(log) + 1 /\ log'[Len(log) + 1] = e
          /\ \A i \in 1..Len(log) : log'[i] = log[i]
          /\ log' # <<>>
      <3>1. log' = Append(log, e)
        BY <1>4 DEF Receive
      <3>2. /\ log' \in Seq(Events) /\ Len(log') = Len(log) + 1 /\ log'[Len(log) + 1] = e
            /\ \A i \in 1..Len(log) : log'[i] = log[i]
        BY <1>0, <3>1, AppendProperties
      <3>3. log' # <<>>
        BY <1>0, <3>2
      <3> QED
        BY <3>1, <3>2, <3>3
    <2>2. /\ at[c] = "free" /\ step[c] = "idle"
          /\ at'[c] = First(e) /\ event'[c] = e /\ base' = base /\ again' = again
          /\ UNCHANGED <<records, hot, step, held, values, since>>
      BY <1>0, <1>4 DEF Receive, vars
    <2>3. RequestOK(c)'
      BY <1>0, <2>1, <2>2 DEF RequestOK, First, Merges
    <2>4. CacheFollows(c)'
      BY <1>1, <1>2, <2>2 DEF CacheFollows
    <2>5. ~Pending(c) /\ Pending(c)'
      BY <2>2 DEF Pending, RequestOK, First
    <2>6. ASSUME NEW f \in FieldNames
          PROVE  Shown(f)' = Owed(log', Len(log') - 1, since', f)
      <3>1. Shown(f)' = Shown(f)
        BY <1>1, <2>2 DEF Shown
      <3>2. Shown(f) = Owed(log, Len(log), since, f)
        BY <1>2, <2>5 DEF ContentOK
      <3>3. Owed(log, Len(log), since, f) = Owed(log', Len(log), since, f)
        <4>1. ASSUME NEW m, m = log'
              PROVE  Owed(log, Len(log), since, f) = Owed(m, Len(log), since, f)
          <5>1. \A i \in 1..Len(log) : log[i] = m[i]
            BY <2>1, <4>1
          <5> QED
            BY <1>0, <5>1, OwedByPrefix
        <4> QED
          BY <4>1
      <3>4. Len(log') - 1 = Len(log) /\ since' = since
        BY <1>0, <2>1, <2>2
      <3> QED
        BY <3>1, <3>2, <3>3, <3>4
    <2>7. ContentOK(c)'
      BY <2>5, <2>6 DEF ContentOK
    <2> QED
      BY <2>3, <2>4, <2>7 DEF Orderly
  <1>5. CASE Hit(c)
    <2>1. /\ at[c] = "read" /\ step[c] = "idle" /\ hot # NoRecord
          /\ at'[c] = "write" /\ base'[c] = hot /\ event' = event /\ again' = again
          /\ UNCHANGED <<records, hot, step, held, values, log, since>>
      BY <1>0, <1>5 DEF Hit, vars
    <2>2. hot = Latest
      BY <1>2, <2>1 DEF CacheFollows
    <2>3. RequestOK(c)'
      BY <1>1, <2>1, <2>2 DEF RequestOK, Merges
    <2>4. CacheFollows(c)' /\ ContentOK(c)'
      BY <1>1, <1>2, <1>3, <2>1 DEF CacheFollows, Pending
    <2> QED
      BY <2>3, <2>4 DEF Orderly
  <1>6. ASSUME Miss(c), UNCHANGED <<at, base, log, event, again, values, since>>
        PROVE  RequestOK(c)' /\ Orderly(c)'
    <2>1. /\ hot = NoRecord /\ step'[c] = "missed" /\ UNCHANGED <<records, hot>>
      BY <1>0, <1>6 DEF Miss, Go
    <2> QED
      BY <1>1, <1>3, <1>6, <2>1 DEF Orderly, CacheFollows, RequestOK, Merges, Pending
  <1>7. ASSUME Load(c), UNCHANGED <<log, event, again, values, since>>,
               \/ at[c] = "read" /\ at' = [at EXCEPT ![c] = "write"]
                                 /\ base' = [base EXCEPT ![c] = Latest]
               \/ at[c] = "free" /\ UNCHANGED <<at, base>>
        PROVE  RequestOK(c)' /\ Orderly(c)'
    <2>1. /\ step[c] = "missed" /\ UNCHANGED <<records, hot>>
          /\ step'[c] = IF Latest = NoRecord THEN "idle" ELSE "caching"
          /\ held'[c] = Latest
      BY <1>0, <1>7 DEF Load, Go
    <2>2. CacheFollows(c)'
      BY <1>1, <1>2, <2>1 DEF CacheFollows
    <2>3. RequestOK(c)'
      BY <1>0, <1>1, <1>7, <2>1 DEF RequestOK, Merges
    <2>4. ContentOK(c)'
      BY <1>0, <1>3, <1>7, <2>1 DEF Pending
    <2> QED
      BY <2>2, <2>3, <2>4 DEF Orderly
  <1>8. CASE Write(c)
    <2> DEFINE new == Hydrated(event[c], IF base[c] = NoRecord THEN Unset ELSE values[base[c]])
    <2>1. /\ at[c] = "write" /\ at'[c] = "written" /\ base'[c] = NoRecord
          /\ UNCHANGED <<log, event, again, since>>
          /\ step'[c] = "caching" /\ held'[c] = Len(records) + 1
          /\ values' = Append(values, new)
      BY <1>0, <1>8 DEF Write, Insert, Go
    <2>2. Latest' = Len(records) + 1
      <3>1. Start(c) \in 0..now
        BY StartsByNow DEF StoreInv
      <3> QED
        BY <1>8, <3>1, LatestAppended DEF Write, Insert
    <2>3. RequestOK(c)' /\ CacheFollows(c)'
      BY <2>1, <2>2 DEF RequestOK, CacheFollows, Merges
    <2>4. \A f \in FieldNames : new[f] = Owed(log, Len(log), since, f)
      BY <1>2, <2>1, WrittenIsOwed
    <2> HIDE DEF new
    <2>5. Latest' # NoRecord /\ values'[Latest'] = new
      BY <1>0, <2>1, <2>2 DEF NoRecord
    <2>6. ~Pending(c)'
      BY <2>1 DEF Pending
    <2>7. ContentOK(c)'
      BY <2>1, <2>4, <2>5, <2>6 DEF ContentOK, Shown
    <2> QED
      BY <2>3, <2>7 DEF Orderly
  <1>9. CASE Warm(c)
    <2>1. /\ step[c] = "caching" /\ step'[c] = "idle" /\ hot' = held[c]
          /\ UNCHANGED <<records, log, event, at, base, again, values, since>>
      BY <1>0, <1>9 DEF Warm, Cache, Go, ingest
    <2> QED
      BY <1>1, <1>2, <1>3, <2>1 DEF Orderly, CacheFollows, RequestOK, Merges, Pending
  <1>10. CASE Rehydrate(c)
    <2>1. /\ at[c] = "written" /\ step[c] = "idle"
          /\ again'[c] = ~again[c]
          /\ at'[c] = IF again[c] THEN "free" ELSE First(event[c])
          /\ ~again[c] => event'[c] = event[c]
          /\ UNCHANGED <<records, hot, step, held, log, base, values, since>>
      BY <1>0, <1>10 DEF Rehydrate, vars
    <2>2. RequestOK(c)'
      BY <1>0, <1>1, <2>1 DEF RequestOK, Merges, First
    <2>3. ~Pending(c) /\ ~Pending(c)'
      BY <1>0, <2>1 DEF Pending
    <2>4. CacheFollows(c)'
      BY <1>1, <1>2, <2>1 DEF CacheFollows
    <2>5. ContentOK(c)'
      <3>1. Pending(c)' = FALSE /\ Pending(c) = FALSE
        BY <2>3 DEF Pending
      <3> QED
        BY <1>3, <2>1, <3>1
    <2> QED
      BY <2>2, <2>4, <2>5 DEF Orderly
  <1>11. ASSUME at[c] = "free", Tombstone(c),
                values' = IF Latest = NoRecord THEN values ELSE Append(values, Unset),
                since' = Len(log), UNCHANGED <<log, event, at, base, again>>
         PROVE  RequestOK(c)' /\ Orderly(c)'
    <2>1. Latest' = NoRecord /\ step'[c] = "evicting"
      <3>1. CASE Latest = NoRecord
        BY <1>0, <1>1, <1>11, <3>1 DEF Tombstone, Go
      <3>2. CASE Latest # NoRecord
        <4>1. now \in 0..now
          BY StartsByNow DEF StoreInv
        <4> QED
          BY <1>0, <1>11, <3>2, <4>1, LatestAppended DEF Tombstone, Go
      <3> QED
        BY <3>1, <3>2
    <2>2. RequestOK(c)' /\ CacheFollows(c)'
      BY <1>11, <2>1 DEF RequestOK, CacheFollows
    <2>3. ~Pending(c)'
      BY <1>11 DEF Pending
    <2>4. \A f : Owed(log, Len(log), Len(log), f) = NoEvent
      BY <1>0, NothingOwed
    <2>5. ContentOK(c)'
      BY <1>11, <2>1, <2>3, <2>4 DEF ContentOK, Shown
    <2> QED
      BY <2>2, <2>5 DEF Orderly
  <1>12. ASSUME Evict(c), UNCHANGED <<log, event, at, base, again, values, since>>
         PROVE  RequestOK(c)' /\ Orderly(c)'
    <2>1. step'[c] = "idle" /\ hot' = NoRecord /\ UNCHANGED records
      BY <1>0, <1>12 DEF Evict, Go
    <2> QED
      BY <1>1, <1>3, <1>12, <2>1 DEF Orderly, CacheFollows, RequestOK, Merges, Pending
  <1>13. CASE Fetch(c)
    BY <1>6, <1>7, <1>13 DEF Fetch
  <1>14. CASE Other(c)
    BY <1>6, <1>7, <1>11, <1>12, <1>14 DEF Other
  <1>15. CASE Sign(c)
    <2>1. /\ step[c] = "idle" /\ step'[c] = "stamped"
          /\ UNCHANGED <<records, hot, log, event, at, base, again, values, since>>
      BY <1>0, <1>15 DEF Sign, Stamp, Go, ingest
    <2> QED
      BY <1>1, <1>2, <1>3, <2>1 DEF Orderly, CacheFollows, RequestOK, Merges, Pending
  <1> QED
    BY <1>4, <1>5, <1>8, <1>9, <1>10, <1>13, <1>14, <1>15 DEF Turn, Request

LEMMA IngestInvInit == IngestInit => IngestInv
  <1> SUFFICES ASSUME IngestInit PROVE IngestInv
    OBVIOUS
  <1>1. StoreInv /\ records = <<>> /\ hot = NoRecord
    BY StoreInvInit DEF IngestInit, Init
  <1>2. IngestTypeOK
    <2>1. log \in Seq(Events) /\ Len(log) = 0 /\ values \in Seq(Values) /\ Len(values) = Len(records)
      BY <1>1 DEF IngestInit
    <2>2. NoRecord \in Positions
      BY StoreAssumption DEF NoRecord, Positions
    <2> QED
      BY <1>1, <2>1, <2>2 DEF IngestInit, IngestTypeOK, StoreInv
  <1>3. BaseOK
    BY DEF IngestInit, BaseOK
  <1>4. Latest = NoRecord
    BY <1>1 DEF Latest, Newest
  <1>5. ASSUME NEW c \in Clients
        PROVE  RequestOK(c) /\ ~Busy(c) /\ Orderly(c)
    <2>1. at[c] = "free" /\ again[c] = FALSE /\ base[c] = NoRecord /\ step[c] = "idle"
      BY <1>5 DEF IngestInit, Init
    <2>2. \A f : Owed(log, 0, 0, f) = NoEvent
      BY NothingOwed
    <2>3. Len(log) = 0 /\ since = 0
      BY DEF IngestInit
    <2>4. ContentOK(c)
      BY <1>4, <2>1, <2>2, <2>3 DEF ContentOK, Shown, Pending
    <2> QED
      BY <1>1, <1>4, <2>1, <2>4 DEF RequestOK, Busy, Orderly, CacheFollows
  <1>6. SequenceOK
    BY <1>4, <1>5 DEF SequenceOK
  <1> QED
    BY <1>1, <1>2, <1>3, <1>6 DEF IngestInv

LEMMA IngestInvNext == IngestInv /\ [IngestNext]_allvars => IngestInv'
  <1> SUFFICES ASSUME IngestInv, [IngestNext]_allvars PROVE IngestInv'
    OBVIOUS
  <1>1. StoreInv /\ TypeOK /\ IngestTypeOK /\ BaseOK /\ SequenceOK
    BY DEF IngestInv, StoreInv
  <1>2. StoreInv'
    BY <1>1, StoreInvNext, IngestStepsStore
  <1>3. IngestTypeOK' /\ BaseOK'
    BY <1>1, <1>2, IngestTypeNext
  <1>4. ASSUME Calm'
        PROVE  SequenceOK'
    <2>1. Calm
      BY <1>1, <1>4, CalmStep
    <2>2. ASSUME NEW c \in Clients, Turn(c)
          PROVE  SequenceOK'
      <3>1. /\ Rest(c) /\ Rest(c)'
            /\ \A d \in Clients \ {c} :
                  at'[d] = at[d] /\ again'[d] = again[d] /\ base'[d] = base[d]
        BY <1>1, <1>4, <2>1, <2>2, OthersRest
      <3>2. Orderly(c) /\ \A d \in Clients : RequestOK(d)
        BY <1>1, <2>1, <3>1 DEF SequenceOK
      <3>3. RequestOK(c)' /\ Orderly(c)'
        BY <1>1, <2>2, <3>1, <3>2, TurnInOrder
      <3>4. ASSUME NEW d \in Clients, d # c
            PROVE  RequestOK(d)'
        <4>1. at[d] = "free" /\ at'[d] = "free" /\ again'[d] = again[d] /\ base'[d] = base[d]
          BY <3>1, <3>4 DEF Rest, Busy
        <4> QED
          BY <3>2, <4>1 DEF RequestOK
      <3> QED
        BY <3>1, <3>3, <3>4, InOrderForAll
    <2>3. ASSUME UNCHANGED <<records, step, held, ingest>>, hot' \in {hot, NoRecord}
          PROVE  SequenceOK'
      <3>1. Latest' = Latest
        BY <2>3, LatestKept
      <3>2. \A c \in Clients : /\ RequestOK(c)' = RequestOK(c) /\ Busy(c)' = Busy(c)
                               /\ ContentOK(c)' = ContentOK(c)
                               /\ CacheFollows(c) => CacheFollows(c)'
        BY <2>3, <3>1 DEF ingest, RequestOK, Merges, Busy, ContentOK, Shown, Pending, CacheFollows
      <3>3. \A c \in Clients : Rest(c)' = Rest(c)
        BY <2>3 DEF Rest, Busy, ingest
      <3>4. \A c \in Clients : Orderly(c) => Orderly(c)'
        BY <3>2 DEF Orderly
      <3> QED
        BY <1>1, <2>1, <3>1, <3>2, <3>3, <3>4 DEF SequenceOK
    <2>4. CASE UNCHANGED allvars
      BY <2>3, <2>4 DEF allvars, vars
    <2>5. CASE (Tick \/ Expire) /\ UNCHANGED ingest
      BY <2>3, <2>5 DEF Tick, Expire
    <2> QED
      BY <1>1, <1>4, <2>2, <2>4, <2>5, CalmStep
  <1>5. SequenceOK'
    BY <1>4 DEF SequenceOK
  <1> QED
    BY <1>2, <1>3, <1>5 DEF IngestInv

LEMMA NothingLostFollows == IngestInv => NothingLostInSequence
  <1> SUFFICES ASSUME IngestInv, sequential, Latest # NoRecord,
                      \A c \in Clients : ~Busy(c), NEW f \in FieldNames
               PROVE  values[Latest][f] = Due(f)
    BY DEF NothingLostInSequence
  <1>1. log \in Seq(Events)
    BY DEF IngestInv, IngestTypeOK
  <1>2. Calm
    BY DEF Calm, Busy
  <1>3. ASSUME NEW c \in Clients
        PROVE  Shown(f) = Owed(log, Len(log), since, f)
    <2>1. ContentOK(c) /\ ~Pending(c)
      BY <1>2 DEF IngestInv, SequenceOK, Rest, Orderly, Pending, Busy
    <2> QED
      BY <2>1 DEF ContentOK
  <1>4. Clients # {}
    BY <1>2 DEF IngestInv, SequenceOK
  <1> QED
    BY <1>1, <1>3, <1>4, DueIsOwed DEF Shown

-----------------------------------------------------------------------------
(* The inductive invariant of the ingest: while requests come one after    *)
(* the other, the cache follows the history and the entity the log.        *)
THEOREM IngestInvariant == IngestSpec => []IngestInv
  BY IngestInvInit, IngestInvNext, PTL DEF IngestSpec

(* Types of the ingest.                                                    *)
THEOREM IngestTypes == IngestSpec => []IngestTypeOK
  <1>1. IngestInv => IngestTypeOK
    BY DEF IngestInv
  <1> QED
    BY <1>1, IngestInvariant, PTL

(* While no request overlaps another or breaks off, every field of the     *)
(* entity comes from the newest event that carries it, for any events of   *)
(* any kinds, though every event is hydrated twice, merges read a cache    *)
(* and the entity may be deleted.                                          *)
THEOREM IngestNothingLost == IngestSpec => []NothingLostInSequence
  BY IngestInvariant, NothingLostFollows, PTL

=============================================================================
