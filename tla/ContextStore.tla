---------------------------- MODULE ContextStore ----------------------------
(***************************************************************************)
(* core/context_store for one key (entity and decision scope; keys do not  *)
(* interact): LendingContextStore composes a durable, append-only version  *)
(* history with a hot cache.  A durable call is one step (a lock or a      *)
(* transaction), a hot call is another, and calls of several tasks         *)
(* interleave between them.                                                *)
(*                                                                         *)
(* A record is its position in the history; 0 stands for no record.        *)
(***************************************************************************)
EXTENDS Integers, Sequences, FiniteSets

CONSTANTS
    Clients,     \* tasks that call the store
    Backends,    \* "memory" (InMemoryDurableStore), "postgres" or both
    MayFail,     \* whether a call may break off after its durable step
    MaxRecords,  \* bound on the history
    MaxTime      \* bound on the clock

ASSUME StoreAssumption ==
    /\ Backends \subseteq {"memory", "postgres"}
    /\ MayFail \in BOOLEAN
    /\ MaxRecords \in Nat
    /\ MaxTime \in Nat

VARIABLES
    backend,   \* the durable store the process is configured with
    now,
    records,   \* the history: version, [from, until) it counts as active in,
               \* whether it is a tombstone; and when it was stored (a ghost)
    hot,       \* cached record
    step,      \* what each client does next
    held,      \* the record it is about to cache
    stamp      \* written_at of the lineage of a record it is about to store

vars == <<backend, now, records, hot, step, held, stamp>>

NoRecord == 0
Never == MaxTime + 1     \* superseded_at IS NULL

Init ==
    /\ backend \in Backends
    /\ now = 0
    /\ records = <<>>
    /\ hot = NoRecord
    /\ step = [c \in Clients |-> "idle"]
    /\ held = [c \in Clients |-> NoRecord]
    /\ stamp = [c \in Clients |-> 0]

-----------------------------------------------------------------------------
(* A definition named ..._as_... is a plausible slip in the one it precedes *)
(* and stands for; the properties are shown to tell the two apart.          *)

(* Of two records of one version, max() keeps the first.                   *)
Precedes(i, j) ==
    \/ records[j].version < records[i].version
    \/ records[j].version = records[i].version /\ i <= j

Newest(S) ==
    IF S = {} THEN NoRecord ELSE CHOOSE i \in S : \A j \in S : Precedes(i, j)

(* _latest_unlocked *)
Latest == Newest({i \in DOMAIN records : records[i].until = Never})

(* ... superseded_at >= at. *)
ActiveAt_as_Closed(t) ==
    {i \in DOMAIN records :
        ~records[i].tombstone /\ records[i].from <= t /\ t <= records[i].until}

ActiveAt(t) ==
    {i \in DOMAIN records :
        ~records[i].tombstone /\ records[i].from <= t /\ t < records[i].until}

(* get_at_time *)
AsOf(t) == Newest(ActiveAt(t))

-----------------------------------------------------------------------------
Tick ==
    /\ now < MaxTime
    /\ now' = now + 1
    /\ UNCHANGED <<backend, records, hot, step, held, stamp>>

(* The cache entry's TTL; ttl_for() is never 0. *)
Expire ==
    /\ hot # NoRecord
    /\ hot' = NoRecord
    /\ UNCHANGED <<backend, now, records, step, held, stamp>>

Go(c, from, to, record) ==
    /\ step[c] = from
    /\ step' = [step EXCEPT ![c] = to]
    /\ held' = [held EXCEPT ![c] = record]
    /\ stamp' = [stamp EXCEPT ![c] = IF to = "stamped" THEN now ELSE 0]

(* get() that misses; one that hits returns and changes nothing. *)
Miss(c) ==
    /\ hot = NoRecord
    /\ Go(c, "idle", "missed", NoRecord)
    /\ UNCHANGED <<backend, now, records, hot>>

(* get(): the durable read; no record, nothing to cache. *)
Load(c) ==
    /\ Go(c, "missed", IF Latest = NoRecord THEN "idle" ELSE "caching", Latest)
    /\ UNCHANGED <<backend, now, records, hot>>

(* The caller of set() builds the record's lineage, which takes the time.  *)
Stamp(c) ==
    /\ Go(c, "idle", "stamped", NoRecord)
    /\ UNCHANGED <<backend, now, records, hot>>

(* The previous active record stops being so now. *)
Superseded ==
    IF Latest = NoRecord THEN records ELSE [records EXCEPT ![Latest].until = now]

(* What get_at_time() takes for the start of a record: written_at in       *)
(* memory, created_at in Postgres, which the insert sets.                  *)
Start(c) == IF backend = "memory" THEN stamp[c] ELSE now

Entry(from, tombstone) ==
    [version   |-> IF Latest = NoRecord THEN 1 ELSE records[Latest].version + 1,
     from      |-> from,
     stored    |-> now,
     until     |-> IF tombstone THEN now ELSE Never,
     tombstone |-> tombstone]

(* PostgresDurableStore points superseded_by at the new row before that    *)
(* row is inserted, and the foreign key of schema.sql is checked at the    *)
(* end of each statement; version 1 of a scope can be inserted only once.  *)
Accepted(tombstone) ==
    backend = "postgres" =>
        /\ Latest = NoRecord
        /\ ~tombstone => \A i \in DOMAIN records : records[i].version # 1

(* The cache is written before the durable insert, which may fail. *)
Insert_as_CacheFirst(c) ==
    /\ Len(records) < MaxRecords
    /\ Go(c, "stamped", "caching", Len(records) + 1)
    /\ hot' = Len(records) + 1
    /\ records' \in {records, Append(Superseded, Entry(Start(c), FALSE))}
    /\ UNCHANGED <<backend, now>>

(* set(): the durable insert. *)
Insert(c) ==
    /\ Len(records) < MaxRecords
    /\ Accepted(FALSE)
    /\ Go(c, "stamped", "caching", Len(records) + 1)
    /\ records' = Append(Superseded, Entry(Start(c), FALSE))
    /\ UNCHANGED <<backend, now, hot>>

(* The active record is removed. *)
Tombstone_as_Purge(c) ==
    /\ Len(records) < MaxRecords
    /\ Go(c, "idle", "evicting", NoRecord)
    /\ records' = IF Latest = NoRecord THEN records ELSE SubSeq(records, 1, Len(records) - 1)
    /\ UNCHANGED <<backend, now, hot>>

(* delete(): nothing to tombstone without an active record. *)
Tombstone(c) ==
    /\ Len(records) < MaxRecords
    /\ Latest # NoRecord => Accepted(TRUE)
    /\ Go(c, "idle", "evicting", NoRecord)
    /\ records' = IF Latest = NoRecord THEN records ELSE Append(Superseded, Entry(now, TRUE))
    /\ UNCHANGED <<backend, now, hot>>

(* The database rejects a set() or a delete(), which raises. *)
Refuse(c) ==
    /\ \/ ~Accepted(FALSE) /\ Go(c, "stamped", "refused", NoRecord)
       \/ Latest # NoRecord /\ ~Accepted(TRUE) /\ Go(c, "idle", "refused", NoRecord)
    /\ UNCHANGED <<backend, now, records, hot>>

(* hot.set of get() and set(); the record a get() caches was active when   *)
(* it was read.                                                            *)
Cache(c) ==
    /\ Go(c, "caching", "idle", NoRecord)
    /\ hot' = held[c]
    /\ UNCHANGED <<backend, now, records>>

(* hot.invalidate of delete() *)
Evict(c) ==
    /\ Go(c, "evicting", "idle", NoRecord)
    /\ hot' = NoRecord
    /\ UNCHANGED <<backend, now, records>>

(* A refused call raises; the hot call of another may raise, its task may  *)
(* be cancelled or the process die.                                        *)
BreakOff(c) ==
    /\ step[c] = "refused" \/ (MayFail /\ step[c] # "idle")
    /\ Go(c, step[c], "idle", NoRecord)
    /\ UNCHANGED <<backend, now, records, hot>>

-----------------------------------------------------------------------------
Finish(c) == Load(c) \/ Cache(c) \/ Evict(c) \/ BreakOff(c)

Next ==
    \/ Tick
    \/ Expire
    \/ \E c \in Clients :
          Miss(c) \/ Stamp(c) \/ Insert(c) \/ Tombstone(c) \/ Refuse(c) \/ Finish(c)

Spec == Init /\ [][Next]_vars

-----------------------------------------------------------------------------
Positions == 0..MaxRecords

(* Type invariant of the store. *)
TypeOK ==
    /\ backend \in Backends
    /\ now \in 0..MaxTime
    /\ records \in Seq([version : 1..MaxRecords, from : 0..MaxTime, stored : 0..MaxTime,
                        until : 0..Never, tombstone : BOOLEAN])
    /\ Len(records) <= MaxRecords
    /\ hot \in Positions
    /\ step \in [Clients -> {"idle", "missed", "stamped", "caching", "evicting", "refused"}]
    /\ held \in [Clients -> Positions]
    /\ stamp \in [Clients -> 0..now]

(* The history and the present agree: at no instant were two records in    *)
(* the store and active, and the record active as of now is the one        *)
(* get_latest() finds, though a delete() makes the version numbers start   *)
(* again.  In memory a record also counts as active from its stamp until   *)
(* it was stored, when the one before it still was.                        *)
OneRecordAtATime ==
    /\ \A t \in 0..now : Cardinality({i \in ActiveAt(t) : records[i].stored <= t}) <= 1
    /\ AsOf(now) = Latest

(* Append-only: nothing that happens later changes what was active at an   *)
(* earlier instant, which is what replay and audit read, but a record      *)
(* stored in memory since whose lineage had been stamped by that instant;  *)
(* then it is this record that is found.                                   *)
HistoryIsStable ==
    [][\A t \in 0..now - 1 :
          AsOf(t)' # AsOf(t) =>
              /\ backend = "memory"
              /\ \E c \in Clients : step[c] = "stamped" /\ stamp[c] <= t
              /\ AsOf(t)' = Len(records) + 1]_vars

(* The cache never shows a record the durable store does not have, also if *)
(* the process dies between the two writes; and never a tombstone.         *)
CacheNeverAhead ==
    hot # NoRecord => hot \in DOMAIN records /\ ~records[hot].tombstone

=============================================================================
