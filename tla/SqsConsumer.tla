----------------------------- MODULE SqsConsumer -----------------------------
(***************************************************************************)
(* core/infra/sqs_consumer.py: polls that receive batches of triggers,     *)
(* sweep the tenant's applications for each and delete what was handled.   *)
(* The run() loop and every POST /sqs-poll are polls of their own, so they *)
(* overlap.  After its waves a sweep looks for override patterns and       *)
(* raises policy proposals (core/cron/pattern_detector.py); one pattern is *)
(* followed here.                                                          *)
(*                                                                         *)
(* The queue is external: it hands out receipts, hides what it has handed  *)
(* out and shows it again when the visibility timeout has passed.          *)
(***************************************************************************)
EXTENDS Integers, FiniteSets

CONSTANTS
    Messages,     \* triggers in the life of the queue
    Kind,         \* "valid"; "incomplete": names no tenant or application; "garbled": no JSON
    Polls,        \* polls that may overlap
    BatchSize,    \* DEFAULT_MAX_MSG
    HasDlq,       \* whether a dead letter queue is configured
    MaxFaults     \* crashes, failed calls and sweeps that outlive the visibility timeout

ASSUME ConsumerAssumption ==
    /\ Kind \in [Messages -> {"valid", "incomplete", "garbled"}]
    /\ BatchSize \in Nat \ {0}
    /\ HasDlq \in BOOLEAN
    /\ MaxFaults \in Nat
    /\ IsFiniteSet(Polls)

VARIABLES
    queue,       \* queue[m]: "unsent", "visible", "inflight" or "gone"
    receipt,     \* the poll that holds the newest receipt of m
    at,          \* at[p]: where a poll is with its current message
    todo,        \* received by p and not looked at yet
    current,     \* the message p is handling
    letters,     \* messages with a letter in it
    decided,     \* messages whose application a sweep made for them has decided
    swallowed,   \* messages whose application met an error such a sweep only counted
    fresh,       \* pending proposals of the last seven days
    faults       \* faults that may still happen

vars == <<queue, receipt, at, todo, current, letters, decided, swallowed,
          fresh, faults>>

sweeps == <<decided, swallowed, fresh>>

NoPoll == "none"
NoMessage == "none"

Good == {m \in Messages : Kind[m] = "valid"}

Init ==
    /\ queue = [m \in Messages |-> "unsent"]
    /\ receipt = [m \in Messages |-> NoPoll]
    /\ at = [p \in Polls |-> "batch"]
    /\ todo = [p \in Polls |-> {}]
    /\ current = [p \in Polls |-> NoMessage]
    /\ letters = {} /\ decided = {} /\ swallowed = {}
    /\ fresh = 0
    /\ faults = MaxFaults

-----------------------------------------------------------------------------
(* A definition named ..._as_... is a plausible slip in the one it precedes *)
(* and stands for; the properties are shown to tell the two apart.          *)

Fault == faults > 0 /\ faults' = faults - 1

NoFault == UNCHANGED faults

Goto(p, step) == at' = [at EXCEPT ![p] = step]

(* A producer. *)
Send(m) ==
    /\ queue[m] = "unsent"
    /\ queue' = [queue EXCEPT ![m] = "visible"]
    /\ UNCHANGED <<receipt, at, todo, current, letters, sweeps, faults>>

Holds(p, m) == receipt[m] = p /\ (m \in todo[p] \/ m = current[p])

(* The visibility timeout of a message nobody is handling. *)
Expire(m) ==
    /\ queue[m] = "inflight"
    /\ \A p \in Polls : ~Holds(p, m)
    /\ queue' = [queue EXCEPT ![m] = "visible"]
    /\ UNCHANGED <<receipt, at, todo, current, letters, sweeps, faults>>

(* The sweeps of a batch take longer than DEFAULT_VISIBILITY. *)
Overrun(m) ==
    /\ queue[m] = "inflight"
    /\ \E p \in Polls : Holds(p, m)
    /\ Fault
    /\ queue' = [queue EXCEPT ![m] = "visible"]
    /\ UNCHANGED <<receipt, at, todo, current, letters, sweeps>>

(* poll_once: receive_message.  One that fails or is empty ends the poll.  *)
Receive(p, batch) ==
    /\ at[p] = "batch" /\ todo[p] = {}
    /\ batch # {} /\ Cardinality(batch) <= BatchSize
    /\ \A m \in batch : queue[m] = "visible"
    /\ queue' = [m \in Messages |-> IF m \in batch THEN "inflight" ELSE queue[m]]
    /\ receipt' = [m \in Messages |-> IF m \in batch THEN p ELSE receipt[m]]
    /\ todo' = [todo EXCEPT ![p] = batch]
    /\ UNCHANGED <<at, current, letters, sweeps, faults>>

(* A message that cannot be parsed ends the poll. *)
Take_as_GiveUp(p, m) ==
    /\ at[p] = "batch" /\ m \in todo[p]
    /\ todo' = [todo EXCEPT ![p] = IF Kind[m] = "garbled" THEN @ ELSE @ \ {m}]
    /\ current' = [current EXCEPT ![p] = m]
    /\ Goto(p, CASE Kind[m] = "garbled"    -> "stopped"
                 [] Kind[m] = "incomplete" -> "failed"
                 [] Kind[m] = "valid"      -> "sweep")
    /\ UNCHANGED <<queue, receipt, letters, sweeps, faults>>

(* poll_once: the next message of the batch.  What cannot be parsed is     *)
(* skipped and left to the queue; _default_dispatch refuses, or raises on, *)
(* what names no tenant or application.                                    *)
Take(p, m) ==
    /\ at[p] = "batch" /\ m \in todo[p]
    /\ todo' = [todo EXCEPT ![p] = @ \ {m}]
    /\ current' = [current EXCEPT ![p] = IF Kind[m] = "garbled" THEN NoMessage ELSE m]
    /\ Goto(p, CASE Kind[m] = "garbled"    -> "batch"
                 [] Kind[m] = "incomplete" -> "failed"
                 [] Kind[m] = "valid"      -> "sweep")
    /\ UNCHANGED <<queue, receipt, letters, sweeps, faults>>

(* run_all_waves has gone over the tenant's applications.  run_persona     *)
(* counts the error of one application and goes on.                        *)
EndWaves(p) ==
    /\ at[p] = "sweep"
    /\ \/ decided' = decided \cup {current[p]} /\ UNCHANGED <<swallowed, faults>>
       \/ Fault /\ swallowed' = swallowed \cup {current[p]} /\ UNCHANGED decided
    /\ Goto(p, "detect")
    /\ UNCHANGED <<queue, receipt, todo, current, letters, fresh>>

(* run_all_waves raises: a poll of the database failed. *)
RaiseWaves(p) ==
    /\ at[p] = "sweep"
    /\ Fault
    /\ Goto(p, "failed")
    /\ UNCHANGED <<queue, receipt, todo, current, letters, sweeps>>

(* Every sweep raises the proposal again. *)
Detect_as_Unchecked(p) ==
    /\ at[p] = "detect"
    /\ Goto(p, "propose") \/ Goto(p, "handled")
    /\ UNCHANGED <<queue, receipt, todo, current, letters, sweeps, faults>>

(* detect_patterns: the pattern is there and has no pending proposal of    *)
(* this week.  run_pattern_detection swallows every error.                 *)
Detect(p) ==
    /\ at[p] = "detect"
    /\ (fresh = 0 /\ Goto(p, "propose")) \/ Goto(p, "handled")
    /\ UNCHANGED <<queue, receipt, todo, current, letters, sweeps, faults>>

Propose(p) ==
    /\ at[p] = "propose"
    /\ fresh' = fresh + 1
    /\ Goto(p, "handled")
    /\ UNCHANGED <<queue, receipt, todo, current, letters, decided, swallowed,
                   faults>>

(* The proposal is accepted or dismissed (rules.py act_on_proposal), or a  *)
(* week has passed; the pattern is still there.                            *)
CloseProposal ==
    /\ fresh > 0
    /\ fresh' = fresh - 1
    /\ UNCHANGED <<queue, receipt, at, todo, current, letters, decided, swallowed,
                   faults>>

(* _delete_message: an old receipt may or may not do, an error is logged. *)
Delete(p) ==
    /\ at[p] = "handled"
    /\ \/ queue' = [queue EXCEPT ![current[p]] = "gone"] /\ NoFault
       \/ receipt[current[p]] # p /\ UNCHANGED <<queue, faults>>
       \/ Fault /\ UNCHANGED queue
    /\ current' = [current EXCEPT ![p] = NoMessage]
    /\ Goto(p, "batch")
    /\ UNCHANGED <<receipt, todo, letters, sweeps>>

(* A failed message is deleted once its letter is on the way. *)
DeadLetter_as_Moved(p) ==
    /\ at[p] = "failed"
    /\ \/ letters' = (IF HasDlq THEN letters \cup {current[p]} ELSE letters) /\ NoFault
       \/ HasDlq /\ Fault /\ UNCHANGED letters
    /\ queue' = [queue EXCEPT ![current[p]] = "gone"]
    /\ current' = [current EXCEPT ![p] = NoMessage]
    /\ Goto(p, "batch")
    /\ UNCHANGED <<receipt, todo, sweeps>>

(* _send_to_dlq: the message itself stays in the queue, so it comes back.  *)
DeadLetter(p) ==
    /\ at[p] = "failed"
    /\ \/ letters' = (IF HasDlq THEN letters \cup {current[p]} ELSE letters) /\ NoFault
       \/ HasDlq /\ Fault /\ UNCHANGED letters
    /\ current' = [current EXCEPT ![p] = NoMessage]
    /\ Goto(p, "batch")
    /\ UNCHANGED <<queue, receipt, todo, sweeps>>

(* The process dies and is started again; its batch is forgotten. *)
Crash(p) ==
    /\ at[p] # "batch" \/ todo[p] # {}
    /\ Fault
    /\ todo' = [todo EXCEPT ![p] = {}]
    /\ current' = [current EXCEPT ![p] = NoMessage]
    /\ Goto(p, "batch")
    /\ UNCHANGED <<queue, receipt, letters, sweeps>>

-----------------------------------------------------------------------------
Handle(p) ==
    \/ \E m \in todo[p] : Take(p, m)
    \/ EndWaves(p) \/ RaiseWaves(p) \/ Detect(p) \/ Propose(p)
    \/ Delete(p) \/ DeadLetter(p)

Deliver(m) == \E p \in Polls, batch \in SUBSET Messages : m \in batch /\ Receive(p, batch)

Next ==
    \/ \E m \in Messages : Send(m) \/ Expire(m) \/ Overrun(m) \/ Deliver(m)
    \/ \E p \in Polls : Handle(p) \/ Crash(p)
    \/ CloseProposal

Spec == Init /\ [][Next]_vars

(* Polls go on with what they hold, hidden messages show again, and polls  *)
(* that go on forever do not miss a visible message forever.               *)
FairSpec ==
    /\ Spec
    /\ \A p \in Polls : WF_vars(Handle(p))
    /\ \A m \in Messages : WF_vars(Expire(m)) /\ SF_vars(Deliver(m))

-----------------------------------------------------------------------------
(* Type invariant of the consumer. *)
TypeOK ==
    /\ queue \in [Messages -> {"unsent", "visible", "inflight", "gone"}]
    /\ receipt \in [Messages -> Polls \cup {NoPoll}]
    /\ at \in [Polls -> {"batch", "sweep", "detect", "propose", "handled", "failed"}]
    /\ todo \in [Polls -> SUBSET Messages]
    /\ current \in [Polls -> Messages \cup {NoMessage}]
    /\ {letters, decided, swallowed} \subseteq SUBSET Messages
    /\ fresh \in Nat
    /\ faults \in 0..MaxFaults

(* However many sweeps overlap, and whatever reviewers close in between, a *)
(* pattern never has more fresh proposals than polls that could each have  *)
(* missed the other's: check and insert of detect_patterns are two         *)
(* statements.                                                             *)
ProposalsAreBounded == fresh <= Cardinality(Polls)

(* With a dead letter queue a trigger that can be read and names no tenant *)
(* or application ends up there, although bodies that cannot be read, of   *)
(* which no letter is ever sent, circulate with it and take places in its  *)
(* batches.                                                                *)
IncompleteTriggersAreReported ==
    HasDlq => \A m \in {k \in Messages : Kind[k] = "incomplete"} :
                  queue[m] # "unsent" ~> m \in letters

(* What whoever sends triggers can tell of each, and which were swept for. *)
Status ==
    [m \in Messages |-> CASE queue[m] = "unsent" -> "unsent"
                          [] queue[m] = "gone"   -> "done"
                          [] OTHER               -> "pending"]

Swept == decided \cup swallowed

(* The consumer is the at-least-once queue of TriggerQueue, liveness       *)
(* included.                                                               *)
Triggers == INSTANCE TriggerQueue WITH status <- Status, swept <- Swept

ImplementsTriggers == Triggers!Spec
=============================================================================
