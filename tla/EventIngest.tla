----------------------------- MODULE EventIngest -----------------------------
(***************************************************************************)
(* api/ingest.py over the context store, for one shared entity: an event   *)
(* is appended to the log and hydrated, that is, written to the entity as  *)
(* a new record or merged into the one store.get() answers, from the cache *)
(* or the history.  POST /events and the webhooks (api/routes.py) hydrate  *)
(* every event a second time.  Requests overlap; other clients read the    *)
(* entity and may delete it.                                               *)
(***************************************************************************)
EXTENDS ContextStore

CONSTANTS
    Events,
    Kind,      \* the type of an event
    Carries    \* the fields of an event that are not None

Kinds == {"lead", "application", "kyc", "declared", "payroll"}

(* What the hydrator copies from an event of a kind; ids and times that    *)
(* every kind sets are "seen".                                             *)
Fields ==
    [lead        |-> {"source", "seen"},
     application |-> {"seen"},
     kyc         |-> {"kyc", "match", "seen"},
     declared    |-> {"stated", "seen"},
     payroll     |-> {"verified", "seen"}]

(* Every kind but a lead is merged. *)
Merges(e) == Kind[e] # "lead"

FieldNames == UNION {Fields[k] : k \in Kinds}

ASSUME IngestAssumption ==
    /\ Kind \in [Events -> Kinds]
    /\ Carries \in [Events -> SUBSET FieldNames]
    /\ \A e \in Events : Carries[e] \subseteq Fields[Kind[e]]

VARIABLES
    log,        \* EventLog
    event,      \* the event a client's request hydrates
    at,         \* "free", "read" (the store), "write" (to it) or "written"
    base,       \* the record a merge has read
    again,      \* whether the request has hydrated once
    values,     \* values[i]: the event each field of record i comes from
    sequential, \* whether no request overlapped another or broke off so far
    since       \* length of the log when the entity was last deleted

ingest == <<log, event, at, base, again, values, sequential, since>>

allvars == <<vars, ingest>>

NoEvent == "none"
Unset == [f \in FieldNames |-> NoEvent]

IngestInit ==
    /\ Init
    /\ log = <<>>
    /\ event = [c \in Clients |-> NoEvent]
    /\ at = [c \in Clients |-> "free"]
    /\ base = [c \in Clients |-> NoRecord]
    /\ again = [c \in Clients |-> FALSE]
    /\ values = <<>>
    /\ sequential = TRUE
    /\ since = 0

-----------------------------------------------------------------------------
(* A definition named ..._as_... is a plausible slip in the one it precedes *)
(* and stands for; the properties are shown to tell the two apart.          *)

Busy(c) == at[c] # "free" \/ step[c] # "idle"

(* A call that starts while another is under way overlaps it. *)
Starts(c) == sequential' = (sequential /\ \A d \in Clients \ {c} : ~Busy(d))

First(e) == IF Merges(e) THEN "read" ELSE "write"

(* POST /events: log.append(event), then hydrate(event). *)
Receive(c, e) ==
    /\ at[c] = "free" /\ step[c] = "idle"
    /\ \A i \in DOMAIN log : log[i] # e
    /\ log' = Append(log, e)
    /\ event' = [event EXCEPT ![c] = e]
    /\ at' = [at EXCEPT ![c] = First(e)]
    /\ Starts(c)
    /\ UNCHANGED <<vars, base, again, values, since>>

(* _write_shared(merge=True): store.get() finds the cache ... *)
Hit(c) ==
    /\ at[c] = "read" /\ step[c] = "idle" /\ hot # NoRecord
    /\ at' = [at EXCEPT ![c] = "write"]
    /\ base' = [base EXCEPT ![c] = hot]
    /\ UNCHANGED <<vars, log, event, again, values, sequential, since>>

(* ... or misses it and reads the history. *)
Fetch(c) ==
    /\ at[c] = "read"
    /\ \/ Miss(c) /\ UNCHANGED <<at, base>>
       \/ Load(c) /\ at' = [at EXCEPT ![c] = "write"]
                  /\ base' = [base EXCEPT ![c] = Latest]
    /\ UNCHANGED <<log, event, again, values, sequential, since>>

(* The merge flag is forgotten. *)
Hydrated_as_Whole(e, old) ==
    [f \in FieldNames |-> IF f \in Carries[e] THEN e ELSE NoEvent]

(* The value written: a merge keeps what the event does not carry. *)
Hydrated(e, old) == [f \in FieldNames |-> IF f \in Carries[e] THEN e ELSE old[f]]

(* The lineage of the write. *)
Sign(c) ==
    /\ at[c] = "write"
    /\ Stamp(c)
    /\ UNCHANGED ingest

(* store.set(): the durable insert. *)
Write(c) ==
    /\ at[c] = "write"
    /\ Insert(c)
    /\ values' = Append(values,
                        Hydrated(event[c], IF base[c] = NoRecord THEN Unset ELSE values[base[c]]))
    /\ at' = [at EXCEPT ![c] = "written"]
    /\ base' = [base EXCEPT ![c] = NoRecord]
    /\ UNCHANGED <<log, event, again, sequential, since>>

(* The hot call of a get() or a set(). *)
Warm(c) ==
    /\ Cache(c)
    /\ UNCHANGED ingest

(* The route hydrates again and answers. *)
Rehydrate(c) ==
    /\ at[c] = "written" /\ step[c] = "idle"
    /\ again' = [again EXCEPT ![c] = ~@]
    /\ at' = [at EXCEPT ![c] = IF again[c] THEN "free" ELSE First(event[c])]
    /\ event' = [event EXCEPT ![c] = IF again[c] THEN NoEvent ELSE @]
    /\ UNCHANGED <<vars, log, base, values, sequential, since>>

(* The database refuses the insert or the deletion, which raises. *)
Refused(c) ==
    /\ at[c] = "free" \/ (at[c] = "write" /\ step[c] = "stamped")
    /\ Refuse(c)
    /\ UNCHANGED ingest

(* A refused call ends its request; so does another that raises, is        *)
(* cancelled or dies with its process.                                     *)
Fail(c) ==
    /\ \/ BreakOff(c)
       \/ /\ MayFail /\ at[c] # "free" /\ step[c] = "idle"
          /\ UNCHANGED vars
    /\ at' = [at EXCEPT ![c] = "free"]
    /\ event' = [event EXCEPT ![c] = NoEvent]
    /\ base' = [base EXCEPT ![c] = NoRecord]
    /\ again' = [again EXCEPT ![c] = FALSE]
    /\ sequential' = FALSE
    /\ UNCHANGED <<log, values, since>>

(* The other clients' get() and delete(). *)
Other(c) ==
    /\ at[c] = "free"
    /\ \/ /\ Miss(c)
          /\ Starts(c) /\ UNCHANGED <<values, since>>
       \/ /\ Load(c)
          /\ UNCHANGED <<values, sequential, since>>
       \/ /\ Tombstone(c)
          /\ values' = IF Latest = NoRecord THEN values ELSE Append(values, Unset)
          /\ since' = Len(log)
          /\ Starts(c)
       \/ /\ Evict(c)
          /\ UNCHANGED <<values, sequential, since>>
    /\ UNCHANGED <<log, event, at, base, again>>

Request(c) == Hit(c) \/ Fetch(c) \/ Sign(c) \/ Write(c) \/ Warm(c) \/ Rehydrate(c)

IngestNext ==
    \/ (Tick \/ Expire) /\ UNCHANGED ingest
    \/ \E c \in Clients :
        \/ \E e \in Events : Receive(c, e)
        \/ Request(c)
        \/ Other(c)
        \/ Refused(c)
        \/ Fail(c)

IngestSpec == IngestInit /\ [][IngestNext]_allvars

-----------------------------------------------------------------------------
Values == [FieldNames -> Events \cup {NoEvent}]

(* Type invariant of the ingest. *)
IngestTypeOK ==
    /\ TypeOK
    /\ log \in Seq(Events)
    /\ event \in [Clients -> Events \cup {NoEvent}]
    /\ at \in [Clients -> {"free", "read", "write", "written"}]
    /\ base \in [Clients -> Positions]
    /\ again \in [Clients -> BOOLEAN]
    /\ values \in Seq(Values) /\ Len(values) = Len(records)
    /\ sequential \in BOOLEAN
    /\ since \in 0..Len(log)

(* The event a field should come from once everything logged is hydrated:  *)
(* the newest that carries it and no lead or deletion is newer than.       *)
Due(f) ==
    LET resets == {0, since} \cup {i \in DOMAIN log : ~Merges(log[i])}
        last == CHOOSE i \in resets : \A j \in resets : j <= i
        bearers == {i \in DOMAIN log : /\ f \in Carries[log[i]]
                                       /\ i > since /\ i >= last}
    IN IF bearers = {} THEN NoEvent
       ELSE log[CHOOSE i \in bearers : \A j \in bearers : j <= i]

(* While no request overlaps another or breaks off, nothing is lost: each  *)
(* field of the entity comes from the newest event that carries it, though *)
(* merges read a cache that other clients fill, expire and evict, though   *)
(* every event is hydrated twice and the entity may be deleted in between. *)
NothingLostInSequence ==
    (sequential /\ Latest # NoRecord /\ \A c \in Clients : ~Busy(c)) =>
        \A f \in FieldNames : values[Latest][f] = Due(f)

=============================================================================
