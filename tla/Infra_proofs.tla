----------------------------- MODULE Infra_proofs ----------------------------
(***************************************************************************)
(* Proofs about core/infra.  The trigger consumer: how many proposals      *)
(* overlapping sweeps can raise for one pattern, and that a trigger is     *)
(* deleted only after a sweep made for it, which is TriggerQueue without   *)
(* its liveness.  The circuit breaker: that a trip is earned.              *)
(***************************************************************************)
EXTENDS SqsConsumer, CircuitBreaker, FiniteSetTheorems, SequenceTheorems, TLAPS

-----------------------------------------------------------------------------
(* What a poll is doing says what it knows of its message: while it sweeps *)
(* the message is a good one, from the end of the waves on it was swept    *)
(* for, and nobody handles what was not sent.                              *)
Sent == {m \in Messages : queue[m] # "unsent"}

PollOK(p) ==
    /\ todo[p] \subseteq Sent
    /\ at[p] # "batch" => current[p] \in Sent
    /\ at[p] \in {"sweep", "detect", "propose", "handled"} => current[p] \in Good
    /\ at[p] \in {"detect", "propose", "handled"} => current[p] \in decided \cup swallowed

QueueOK ==
    /\ decided \cup swallowed \subseteq Good \cap Sent
    /\ \A m \in Messages : queue[m] = "gone" => m \in decided \cup swallowed

ConsumerInv == TypeOK /\ QueueOK /\ \A p \in Polls : PollOK(p)

(* Polls that found no fresh proposal and have not inserted theirs yet.    *)
Proposing == {p \in Polls : at[p] = "propose"}

(* Each of them may add one, so they count as much as those there are.     *)
ProposalInv == fresh \in Nat /\ fresh + Cardinality(Proposing) <= Cardinality(Polls)

-----------------------------------------------------------------------------
LEMMA ConsumerInit == Init => ConsumerInv
  BY ConsumerAssumption
  DEF Init, ConsumerInv, TypeOK, QueueOK, PollOK, Good, Sent, NoPoll, NoMessage

LEMMA FaultType ==
    ASSUME TypeOK, Fault \/ NoFault
    PROVE  faults' \in 0..MaxFaults
  BY ConsumerAssumption DEF TypeOK, Fault, NoFault

(* The queue hands messages out and hides them; it deletes nothing.        *)
LEMMA QueueNext ==
    ASSUME ConsumerInv, NEW m \in Messages,
           Send(m) \/ Expire(m) \/ Overrun(m) \/ Deliver(m)
    PROVE  ConsumerInv'
  <1>1. CASE Send(m) \/ Expire(m) \/ Overrun(m)
    <2>1. TypeOK'
      <3>1. faults' \in 0..MaxFaults
        BY <1>1, FaultType DEF Send, Expire, Overrun, NoFault, ConsumerInv
      <3> QED
        BY <1>1, <3>1 DEF Send, Expire, Overrun, sweeps, ConsumerInv, TypeOK
    <2>2. Sent \subseteq Sent'
      BY <1>1 DEF Send, Expire, Overrun, ConsumerInv, TypeOK, Sent
    <2>3. QueueOK'
      BY <1>1, <2>2 DEF Send, Expire, Overrun, sweeps, ConsumerInv, TypeOK, QueueOK
    <2>4. \A p \in Polls : PollOK(p)'
      BY <1>1, <2>2 DEF Send, Expire, Overrun, sweeps, ConsumerInv, PollOK
    <2> QED
      BY <2>1, <2>3, <2>4 DEF ConsumerInv
  <1>2. ASSUME NEW p \in Polls, NEW batch \in SUBSET Messages, Receive(p, batch)
        PROVE  ConsumerInv'
    <2>1. TypeOK'
      BY <1>2 DEF Receive, sweeps, ConsumerInv, TypeOK
    <2>2. Sent \subseteq Sent' /\ batch \subseteq Sent'
      BY <1>2 DEF Receive, ConsumerInv, TypeOK, Sent
    <2>3. QueueOK'
      BY <1>2, <2>2 DEF Receive, sweeps, ConsumerInv, TypeOK, QueueOK
    <2>4. ASSUME NEW q \in Polls PROVE PollOK(q)'
      <3>1. todo'[q] \subseteq Sent'
        BY <1>2, <2>2 DEF Receive, ConsumerInv, TypeOK, PollOK
      <3> QED
        BY <1>2, <2>2, <3>1 DEF Receive, sweeps, ConsumerInv, TypeOK, PollOK
    <2> QED
      BY <2>1, <2>3, <2>4 DEF ConsumerInv
  <1> QED
    BY <1>1, <1>2 DEF Deliver

(* A poll takes its messages one by one; it deletes what it has handled.   *)
LEMMA PollNext ==
    ASSUME ConsumerInv, NEW p \in Polls, Handle(p) \/ Crash(p)
    PROVE  ConsumerInv'
  <1>1. ASSUME NEW m \in todo[p], Take(p, m)
        PROVE  ConsumerInv'
    <2>1. m \in Messages /\ m \in Sent
      BY DEF ConsumerInv, PollOK, Sent
    <2>2. TypeOK'
      <3>1. Kind[m] \in {"valid", "incomplete", "garbled"}
        BY <2>1, ConsumerAssumption
      <3> QED
        BY <1>1, <2>1, <3>1 DEF Take, Goto, sweeps, ConsumerInv, TypeOK, NoMessage
    <2>3. QueueOK'
      BY <1>1 DEF Take, sweeps, ConsumerInv, QueueOK, Sent
    <2>4. ASSUME NEW q \in Polls PROVE PollOK(q)'
      <3>1. Kind[m] \in {"valid", "incomplete", "garbled"}
        BY <2>1, ConsumerAssumption
      <3>2. Sent' = Sent /\ decided' = decided /\ swallowed' = swallowed
        BY <1>1 DEF Take, Sent, sweeps
      <3>3. CASE q # p
        <4>1. at'[q] = at[q] /\ todo'[q] = todo[q] /\ current'[q] = current[q]
          BY <1>1, <3>3 DEF Take, Goto, ConsumerInv, TypeOK
        <4> QED
          BY <3>2, <4>1 DEF ConsumerInv, PollOK
      <3>4. CASE q = p
        <4>1. /\ todo'[p] = todo[p] \ {m}
              /\ current'[p] = IF Kind[m] = "garbled" THEN NoMessage ELSE m
              /\ at'[p] = CASE Kind[m] = "garbled"    -> "batch"
                            [] Kind[m] = "incomplete" -> "failed"
                            [] Kind[m] = "valid"      -> "sweep"
          BY <1>1 DEF Take, Goto, ConsumerInv, TypeOK
        <4>2. todo'[p] \subseteq Sent
          BY <4>1 DEF ConsumerInv, PollOK
        <4> QED
          BY <2>1, <3>1, <3>2, <3>4, <4>1, <4>2 DEF PollOK, Good
      <3> QED
        BY <3>3, <3>4
    <2> QED
      BY <2>2, <2>3, <2>4 DEF ConsumerInv
  <1>2. CASE EndWaves(p)
    <2>1. current[p] \in Good /\ current[p] \in Messages /\ current[p] \in Sent
      BY <1>2 DEF EndWaves, ConsumerInv, PollOK, Good
    <2>2. TypeOK'
      <3>1. faults' \in 0..MaxFaults
        BY <1>2, FaultType DEF EndWaves, NoFault, ConsumerInv
      <3> QED
        BY <1>2, <2>1, <3>1 DEF EndWaves, Goto, ConsumerInv, TypeOK
    <2>3. QueueOK' /\ decided \cup swallowed \subseteq (decided \cup swallowed)'
                   /\ current[p] \in (decided \cup swallowed)' /\ Sent' = Sent
      BY <1>2, <2>1 DEF EndWaves, ConsumerInv, QueueOK, Sent
    <2>4. \A q \in Polls : PollOK(q)'
      BY <1>2, <2>1, <2>3 DEF EndWaves, Goto, ConsumerInv, TypeOK, PollOK
    <2> QED
      BY <2>2, <2>3, <2>4 DEF ConsumerInv
  <1>3. CASE RaiseWaves(p) \/ Detect(p) \/ Propose(p)
    <2>1. TypeOK'
      <3>1. faults' \in 0..MaxFaults
        BY <1>3, FaultType DEF RaiseWaves, Detect, Propose, NoFault, ConsumerInv
      <3> QED
        BY <1>3, <3>1 DEF RaiseWaves, Detect, Propose, Goto, sweeps, ConsumerInv, TypeOK
    <2>2. QueueOK'
      BY <1>3 DEF RaiseWaves, Detect, Propose, sweeps, ConsumerInv, QueueOK, Sent
    <2>3. \A q \in Polls : PollOK(q)'
      BY <1>3 DEF RaiseWaves, Detect, Propose, Goto, sweeps, ConsumerInv, TypeOK, PollOK, Sent
    <2> QED
      BY <2>1, <2>2, <2>3 DEF ConsumerInv
  <1>4. CASE Delete(p)
    <2>1. current[p] \in Messages /\ current[p] \in decided \cup swallowed /\ current[p] \in Sent
      BY <1>4 DEF Delete, ConsumerInv, PollOK, Good
    <2>2. TypeOK'
      <3>1. faults' \in 0..MaxFaults
        BY <1>4, FaultType DEF Delete, NoFault, ConsumerInv
      <3> QED
        BY <1>4, <2>1, <3>1 DEF Delete, Goto, sweeps, ConsumerInv, TypeOK
    <2>3. Sent' = Sent
      BY <1>4, <2>1 DEF Delete, ConsumerInv, TypeOK, Sent
    <2>4. QueueOK'
      BY <1>4, <2>1, <2>3 DEF Delete, sweeps, ConsumerInv, TypeOK, QueueOK
    <2>5. \A q \in Polls : PollOK(q)'
      BY <1>4, <2>3 DEF Delete, Goto, sweeps, ConsumerInv, TypeOK, PollOK
    <2> QED
      BY <2>2, <2>4, <2>5 DEF ConsumerInv
  <1>5. CASE DeadLetter(p)
    <2>1. current[p] \in Messages
      BY <1>5 DEF DeadLetter, ConsumerInv, PollOK, Sent
    <2>2. TypeOK'
      <3>1. faults' \in 0..MaxFaults
        BY <1>5, FaultType DEF DeadLetter, NoFault, ConsumerInv
      <3> QED
        BY <1>5, <2>1, <3>1 DEF DeadLetter, Goto, sweeps, ConsumerInv, TypeOK
    <2>3. QueueOK'
      BY <1>5 DEF DeadLetter, sweeps, ConsumerInv, QueueOK, Sent
    <2>4. \A q \in Polls : PollOK(q)'
      BY <1>5 DEF DeadLetter, Goto, sweeps, ConsumerInv, TypeOK, PollOK, Sent
    <2> QED
      BY <2>2, <2>3, <2>4 DEF ConsumerInv
  <1>6. CASE Crash(p)
    <2>1. TypeOK'
      <3>1. faults' \in 0..MaxFaults
        BY <1>6, FaultType DEF Crash, ConsumerInv
      <3> QED
        BY <1>6, <3>1 DEF Crash, Goto, sweeps, ConsumerInv, TypeOK
    <2>2. QueueOK'
      BY <1>6 DEF Crash, sweeps, ConsumerInv, QueueOK, Sent
    <2>3. \A q \in Polls : PollOK(q)'
      BY <1>6 DEF Crash, Goto, sweeps, ConsumerInv, TypeOK, PollOK, Sent
    <2> QED
      BY <2>1, <2>2, <2>3 DEF ConsumerInv
  <1> QED
    BY <1>1, <1>2, <1>3, <1>4, <1>5, <1>6 DEF Handle

LEMMA ConsumerNext == ConsumerInv /\ [Next]_vars => ConsumerInv'
  <1> SUFFICES ASSUME ConsumerInv, [Next]_vars PROVE ConsumerInv'
    OBVIOUS
  <1>1. CASE UNCHANGED vars
    BY <1>1 DEF vars, ConsumerInv, TypeOK, QueueOK, PollOK, Sent
  <1>2. CASE CloseProposal
    BY <1>2 DEF CloseProposal, ConsumerInv, TypeOK, QueueOK, PollOK, Sent
  <1> QED
    BY <1>1, <1>2, QueueNext, PollNext DEF Next

-----------------------------------------------------------------------------
(* How many polls are about to insert, step by step.                       *)
LEMMA ProposalNext == ConsumerInv /\ ProposalInv /\ [Next]_vars => ProposalInv'
  <1> SUFFICES ASSUME ConsumerInv, ProposalInv, [Next]_vars PROVE ProposalInv'
    OBVIOUS
  <1>0. /\ IsFiniteSet(Polls) /\ Proposing \subseteq Polls /\ IsFiniteSet(Proposing)
        /\ Cardinality(Polls) \in Nat /\ Cardinality(Proposing) \in Nat
        /\ at \in [Polls -> {"batch", "sweep", "detect", "propose", "handled", "failed"}]
        /\ fresh \in Nat /\ fresh + Cardinality(Proposing) <= Cardinality(Polls)
    <2>1. Proposing \subseteq Polls
      BY DEF Proposing
    <2> QED
      BY <2>1, ConsumerAssumption, FS_Subset, FS_CardinalityType
      DEF ProposalInv, ConsumerInv, TypeOK
  <1>1. ASSUME Proposing' \subseteq Proposing, fresh' \in Nat, fresh' <= fresh
        PROVE  ProposalInv'
    <2>1. Cardinality(Proposing') <= Cardinality(Proposing) /\ Cardinality(Proposing') \in Nat
      BY <1>0, <1>1, FS_Subset, FS_CardinalityType
    <2> QED
      BY <1>0, <1>1, <2>1 DEF ProposalInv
  <1>2. CASE UNCHANGED vars
    BY <1>0, <1>1, <1>2 DEF vars, Proposing
  <1>3. CASE CloseProposal
    <2>1. Proposing' = Proposing /\ fresh' \in Nat /\ fresh' <= fresh
      BY <1>0, <1>3 DEF CloseProposal, Proposing
    <2> QED
      BY <1>1, <2>1
  <1>4. ASSUME NEW m \in Messages, Send(m) \/ Expire(m) \/ Overrun(m) \/ Deliver(m)
        PROVE  ProposalInv'
    <2>1. at' = at /\ fresh' = fresh
      BY <1>4 DEF Send, Expire, Overrun, Deliver, Receive, sweeps
    <2> QED
      BY <1>0, <1>1, <2>1 DEF Proposing
  <1>5. ASSUME NEW p \in Polls, NEW step \in {"batch", "sweep", "detect", "handled", "failed"},
               Goto(p, step), fresh' = fresh
        PROVE  ProposalInv'
    <2>1. Proposing' \subseteq Proposing
      BY <1>0, <1>5 DEF Goto, Proposing
    <2> QED
      BY <1>0, <1>1, <1>5, <2>1
  <1>6. ASSUME NEW p \in Polls, NEW m \in todo[p], Take(p, m)
        PROVE  ProposalInv'
    <2>1. Kind[m] \in {"valid", "incomplete", "garbled"}
      BY ConsumerAssumption DEF ConsumerInv, TypeOK
    <2>2. \E step \in {"batch", "sweep", "failed"} : Goto(p, step)
      BY <1>6, <2>1 DEF Take
    <2> QED
      BY <1>5, <1>6, <2>2 DEF Take, sweeps
  <1>7. ASSUME NEW p \in Polls, EndWaves(p) \/ RaiseWaves(p) \/ Delete(p) \/ DeadLetter(p) \/ Crash(p)
        PROVE  ProposalInv'
    BY <1>5, <1>7 DEF EndWaves, RaiseWaves, Delete, DeadLetter, Crash, sweeps
  <1>8. ASSUME NEW p \in Polls, Detect(p)
        PROVE  ProposalInv'
    <2>1. fresh' = fresh /\ ((fresh = 0 /\ Goto(p, "propose")) \/ Goto(p, "handled"))
      BY <1>8 DEF Detect, sweeps
    <2>2. CASE fresh = 0 /\ Goto(p, "propose")
      <3>1. Proposing' \subseteq Polls
        BY DEF Proposing
      <3>2. Cardinality(Proposing') <= Cardinality(Polls) /\ Cardinality(Proposing') \in Nat
        BY <1>0, <3>1, FS_Subset, FS_CardinalityType
      <3> QED
        BY <1>0, <2>1, <2>2, <3>2 DEF ProposalInv
    <2> QED
      BY <1>5, <2>1, <2>2
  <1>9. ASSUME NEW p \in Polls, Propose(p)
        PROVE  ProposalInv'
    <2>1. p \in Proposing /\ fresh' = fresh + 1
      BY <1>9 DEF Propose, Proposing
    <2>2. Proposing' = Proposing \ {p}
      BY <1>0, <1>9 DEF Propose, Goto, Proposing
    <2>3. Cardinality(Proposing') = Cardinality(Proposing) - 1
      BY <1>0, <2>1, <2>2, FS_RemoveElement
    <2> QED
      BY <1>0, <2>1, <2>3 DEF ProposalInv
  <1> QED
    BY <1>2, <1>3, <1>4, <1>6, <1>7, <1>8, <1>9 DEF Next, Handle

LEMMA ProposalInit == Init => ProposalInv
  <1> SUFFICES ASSUME Init PROVE ProposalInv
    OBVIOUS
  <1>1. Proposing = {} /\ fresh = 0
    BY DEF Init, Proposing
  <1> QED
    BY <1>1, ConsumerAssumption, FS_EmptySet, FS_CardinalityType DEF ProposalInv

LEMMA ProposalInvBounds == ConsumerInv /\ ProposalInv => ProposalsAreBounded
  <1> SUFFICES ASSUME ConsumerInv, ProposalInv PROVE ProposalsAreBounded
    OBVIOUS
  <1>1. Proposing \subseteq Polls
    BY DEF Proposing
  <1>2. Cardinality(Proposing) \in Nat /\ Cardinality(Polls) \in Nat
    BY <1>1, ConsumerAssumption, FS_Subset, FS_CardinalityType
  <1> QED
    BY <1>2 DEF ProposalInv, ProposalsAreBounded

-----------------------------------------------------------------------------
LEMMA TriggersInit == Init => Triggers!Init
  BY DEF Init, Triggers!Init, Status, Swept

(* A step of the consumer sends a trigger, ends the waves of a sweep for   *)
(* one, deletes one it has swept for, or is nothing to whoever sends.      *)
LEMMA TriggersNext ==
    ConsumerInv /\ [Next]_vars => [Triggers!Next]_<<Status, Swept>>
  <1> SUFFICES ASSUME ConsumerInv, [Next]_vars
               PROVE  Triggers!Next \/ UNCHANGED <<Status, Swept>>
    OBVIOUS
  <1>1. ASSUME queue' = queue, decided' = decided, swallowed' = swallowed
        PROVE  UNCHANGED <<Status, Swept>>
    BY <1>1 DEF Status, Swept
  <1>2. CASE UNCHANGED vars \/ CloseProposal
    BY <1>1, <1>2 DEF vars, CloseProposal
  <1>3. ASSUME NEW m \in Messages, Send(m)
        PROVE  Triggers!Next
    <2>1. Triggers!Send(m)
      BY <1>3 DEF Send, Triggers!Send, sweeps, ConsumerInv, TypeOK, Status, Swept
    <2> QED
      BY <2>1 DEF Triggers!Next
  <1>4. ASSUME NEW m \in Messages, Expire(m) \/ Overrun(m) \/ Deliver(m)
        PROVE  UNCHANGED <<Status, Swept>>
    <2>1. Swept' = Swept
      BY <1>4 DEF Expire, Overrun, Deliver, Receive, sweeps, Swept
    <2>2. ASSUME NEW k \in Messages PROVE Status'[k] = Status[k]
      BY <1>4 DEF Expire, Overrun, Deliver, Receive, Status, ConsumerInv, TypeOK
    <2>3. Status' = Status
      BY <2>2 DEF Status
    <2> QED
      BY <2>1, <2>3
  <1>5. ASSUME NEW p \in Polls, EndWaves(p)
        PROVE  Triggers!Next
    <2>1. current[p] \in Good /\ current[p] \in Messages /\ queue[current[p]] # "unsent"
      BY <1>5 DEF EndWaves, ConsumerInv, PollOK, Good, Sent
    <2>2. Triggers!Sweep(current[p])
      BY <1>5, <2>1 DEF EndWaves, Triggers!Sweep, ConsumerInv, TypeOK, Status, Swept
    <2> QED
      BY <2>1, <2>2 DEF Triggers!Next
  <1>6. ASSUME NEW p \in Polls, Delete(p)
        PROVE  Triggers!Next \/ UNCHANGED <<Status, Swept>>
    <2>1. /\ current[p] \in Messages /\ current[p] \in decided \cup swallowed
          /\ queue[current[p]] # "unsent"
      BY <1>6 DEF Delete, ConsumerInv, PollOK, Good, Sent
    <2>2. Swept' = Swept /\ decided' = decided /\ swallowed' = swallowed
      BY <1>6 DEF Delete, sweeps, Swept
    <2>3. CASE queue' = queue
      BY <1>1, <2>2, <2>3
    <2>4. CASE queue' = [queue EXCEPT ![current[p]] = "gone"] /\ queue[current[p]] = "gone"
      <3>1. queue' = queue
        BY <2>1, <2>4 DEF ConsumerInv, TypeOK
      <3> QED
        BY <1>1, <2>2, <3>1
    <2>5. CASE queue' = [queue EXCEPT ![current[p]] = "gone"] /\ queue[current[p]] # "gone"
      <3>1. Triggers!Acknowledge(current[p])
        <4>1. queue[current[p]] \in {"visible", "inflight"}
          BY <2>1, <2>5 DEF ConsumerInv, TypeOK
        <4>2. Status[current[p]] = "pending"
          BY <2>1, <4>1 DEF Status
        <4>3. Status' = [Status EXCEPT ![current[p]] = "done"]
          BY <2>1, <2>5 DEF Status, ConsumerInv, TypeOK
        <4> QED
          BY <2>1, <2>2, <4>2, <4>3 DEF Triggers!Acknowledge, Swept
      <3> QED
        BY <2>1, <3>1 DEF Triggers!Next
    <2> QED
      BY <1>6, <2>3, <2>4, <2>5 DEF Delete
  <1>7. ASSUME NEW p \in Polls,
               \/ \E m \in todo[p] : Take(p, m)
               \/ RaiseWaves(p) \/ Detect(p) \/ Propose(p) \/ DeadLetter(p) \/ Crash(p)
        PROVE  UNCHANGED <<Status, Swept>>
    BY <1>1, <1>7 DEF Take, RaiseWaves, Detect, Propose, DeadLetter, Crash, sweeps
  <1> QED
    BY <1>2, <1>3, <1>4, <1>5, <1>6, <1>7 DEF Next, Handle

-----------------------------------------------------------------------------
(* Type correctness of the consumer, and what each poll knows of the       *)
(* message it handles.                                                     *)
THEOREM ConsumerInvariant == Spec => []ConsumerInv
  BY ConsumerInit, ConsumerNext, PTL DEF Spec

(* detect_patterns checks and inserts in two statements, and yet sweeps    *)
(* that overlap never leave more fresh proposals than there are polls.     *)
THEOREM ProposalBound == Spec => []ProposalsAreBounded
  <1>1. Spec => []ProposalInv
    BY ProposalInit, ProposalNext, ConsumerInvariant, PTL DEF Spec
  <1> QED
    BY <1>1, ConsumerInvariant, ProposalInvBounds, PTL

(* A message is deleted only after a sweep made for it went over its       *)
(* application, whatever times out, crashes or comes twice.                *)
THEOREM DeletedWasSwept ==
    Spec => [](\A m \in Messages : queue[m] = "gone" => m \in Good \cap (decided \cup swallowed))
  <1>1. ConsumerInv =>
            \A m \in Messages : queue[m] = "gone" => m \in Good \cap (decided \cup swallowed)
    BY DEF ConsumerInv, QueueOK
  <1> QED
    BY <1>1, ConsumerInvariant, PTL

(* Step by step the consumer is the at-least-once queue of TriggerQueue:   *)
(* its initial states and its safety.                                      *)
THEOREM ConsumerImplementsTriggers == Spec => Triggers!SafeSpec
  BY TriggersInit, TriggersNext, ConsumerInvariant, PTL DEF Spec, Triggers!SafeSpec


-----------------------------------------------------------------------------
(* The circuit breaker.                                                    *)

(* How old the failures on record are never grows along the list: they are *)
(* recorded in the order of time and age alike.                            *)
OldestFirst == \A i, j \in DOMAIN failures : i <= j => failures[j] <= failures[i]

BreakerInv == BreakerTypeOK /\ OldestFirst

(* The failures that count are the last ones of the list.                  *)
LEMMA TailCounts ==
    ASSUME BreakerAssumption, NEW ages \in Seq(0..Window + 1),
           \A i, j \in DOMAIN ages : i <= j => ages[j] <= ages[i]
    PROVE  LET cut == Len(ages) - Cardinality(InWindow(ages))
           IN  /\ cut \in 0..Len(ages)
               /\ \A i \in DOMAIN ages : i > cut => ages[i] <= Window
  <1> DEFINE n == Len(ages)
             K == InWindow(ages)
  <1>1. n \in Nat /\ DOMAIN ages = 1..n /\ K \subseteq 1..n /\ Window \in Nat
    BY DEF InWindow, BreakerAssumption
  <1>2. IsFiniteSet(1..n) /\ Cardinality(1..n) = n
    <2> HIDE DEF n
    <2>1. 1 \in Int /\ n \in Int /\ (1 > n <=> n = 0) /\ n - 1 + 1 = n
      BY <1>1
    <2> QED
      BY <2>1, FS_Interval
  <1>3. IsFiniteSet(K) /\ Cardinality(K) \in Nat /\ Cardinality(K) <= n
    BY <1>1, <1>2, FS_Subset, FS_CardinalityType
  <1>4. ASSUME NEW i \in DOMAIN ages, i > n - Cardinality(K), ~(ages[i] <= Window)
        PROVE  FALSE
    <2>1. K \subseteq (i + 1)..n
      <3> SUFFICES ASSUME NEW k \in K PROVE k \in (i + 1)..n
        OBVIOUS
      <3>1. k \in 1..n /\ i \in 1..n /\ ages[k] <= Window
        BY <1>1 DEF InWindow
      <3>2. ages[i] \in Int /\ ages[k] \in Int
        BY <3>1, <1>1, ElementOfSeq
      <3>3. ~(k <= i)
        BY <1>1, <1>4, <3>1, <3>2
      <3> QED
        BY <1>1, <3>1, <3>3
    <2>2. IsFiniteSet((i + 1)..n) /\ Cardinality((i + 1)..n) = n - i
      <3> HIDE DEF n
      <3>1. i \in 1..n
        BY <1>1
      <3>2. i + 1 \in Int /\ n \in Int /\ (i + 1 > n <=> n - i = 0) /\ n - (i + 1) + 1 = n - i
        BY <1>1, <3>1
      <3> QED
        BY <3>2, FS_Interval
    <2>3. Cardinality(K) <= n - i
      BY <2>1, <2>2, FS_Subset
    <2> HIDE DEF K, n
    <2> QED
      BY <1>1, <1>3, <1>4, <2>3
  <1>5. n - Cardinality(K) \in 0..n
    <2> HIDE DEF K, n
    <2> QED
      BY <1>1, <1>3
  <1> QED
    BY <1>4, <1>5

(* Pruning keeps the order, and all that it keeps counts.                  *)
LEMMA PrunedCounts ==
    ASSUME BreakerAssumption, NEW ages \in Seq(0..Window + 1),
           \A i, j \in DOMAIN ages : i <= j => ages[j] <= ages[i]
    PROVE  /\ Pruned(ages) \in Seq(0..Window + 1)
           /\ \A i \in DOMAIN Pruned(ages) : Pruned(ages)[i] <= Window
           /\ \A i, j \in DOMAIN Pruned(ages) : i <= j => Pruned(ages)[j] <= Pruned(ages)[i]
  <1>1. PICK n \in Nat : n = Len(ages)
    OBVIOUS
  <1>2. PICK cut \in 0..n : /\ cut = n - Cardinality(InWindow(ages))
                            /\ \A i \in DOMAIN ages : i > cut => ages[i] <= Window
    BY <1>1, TailCounts
  <1>3. Pruned(ages) = SubSeq(ages, cut + 1, n) /\ DOMAIN ages = 1..n
    BY <1>1, <1>2 DEF Pruned
  <1>4. cut + 1 \in 1..n + 1 /\ n \in Nat /\ cut \in Nat
    OBVIOUS
  <1>5. \A i \in 1..n : ages[i] \in 0..Window + 1
    BY <1>3, ElementOfSeq
  <1>6. /\ SubSeq(ages, cut + 1, n) \in Seq(0..Window + 1)
        /\ Len(SubSeq(ages, cut + 1, n)) = n - cut
        /\ \A i \in 1..n - cut : SubSeq(ages, cut + 1, n)[i] = ages[cut + i]
    <2>1. CASE cut = n
      BY <1>1, <1>3, <1>4, <2>1
    <2>2. CASE cut < n
      BY <1>1, <1>3, <1>4, <1>5, <2>2
    <2> QED
      BY <2>1, <2>2, <1>4
  <1>7. \A i \in 1..n - cut : cut + i \in 1..n /\ cut + i > cut
    BY <1>4
  <1>8. PICK m \in Nat : m = n - cut
    BY <1>4
  <1>9. PICK s \in Seq(0..Window + 1) :
            s = Pruned(ages) /\ DOMAIN s = 1..m /\ \A i \in 1..m : s[i] = ages[cut + i]
    <2>1. PICK s \in Seq(0..Window + 1) : s = SubSeq(ages, cut + 1, n)
      BY <1>6
    <2>2. Len(s) = m /\ \A i \in 1..m : s[i] = ages[cut + i]
      BY <1>6, <1>8, <2>1
    <2>3. DOMAIN s = 1..m
      BY <2>2, LenProperties
    <2> QED
      BY <1>3, <2>1, <2>2, <2>3
  <1>10. \A i \in 1..m : s[i] <= Window
    BY <1>2, <1>3, <1>7, <1>8, <1>9
  <1>11. \A i, j \in 1..m : i <= j => s[j] <= s[i]
    <2> SUFFICES ASSUME NEW i \in 1..m, NEW j \in 1..m, i <= j
                 PROVE  ages[cut + j] <= ages[cut + i]
      BY <1>9
    <2>1. cut + i \in DOMAIN ages /\ cut + j \in DOMAIN ages /\ cut + i <= cut + j
      BY <1>3, <1>7, <1>8
    <2> QED
      BY <2>1
  <1> QED
    BY <1>9, <1>10, <1>11

(* The breaker's variables keep their types and the record its order, and  *)
(* a trip from CLOSED is earned, step by step.                             *)
LEMMA BreakerStep ==
    ASSUME BreakerAssumption, BreakerInv, BreakerNext
    PROVE  /\ BreakerInv'
           /\ state = "CLOSED" /\ state' = "OPEN" => Cardinality(InWindow(failures')) >= FailureThreshold
  <1> USE DEF BreakerInv
  <1>1. CASE Tick
    <2>1. PICK n \in Nat : n = Len(failures) /\ DOMAIN failures = 1..n
      BY DEF BreakerTypeOK
    <2>2. /\ \A i \in 1..n : failures[i] \in 0..Window + 1
          /\ Window \in Nat /\ Cooldown \in Nat
      BY <2>1, ElementOfSeq DEF BreakerTypeOK, BreakerAssumption
    <2>3. /\ failures' = [i \in 1..n |-> Older(failures[i], Window + 1)]
          /\ \A i \in 1..n : Older(failures[i], Window + 1) \in 0..Window + 1
      BY <1>1, <2>1, <2>2 DEF Tick, Older
    <2>4. failures' \in Seq(0..Window + 1)
      BY <2>3
    <2>5. BreakerTypeOK'
      BY <1>1, <2>2, <2>4 DEF Tick, Older, BreakerTypeOK, NotOpened
    <2>6. OldestFirst'
      <3> SUFFICES ASSUME NEW i \in 1..n, NEW j \in 1..n, i <= j
                   PROVE  Older(failures[j], Window + 1) <= Older(failures[i], Window + 1)
        BY <2>3 DEF OldestFirst
      <3>1. failures[j] <= failures[i]
        BY <2>1 DEF OldestFirst
      <3> QED
        BY <2>2, <3>1 DEF Older
    <2> QED
      BY <1>1, <2>5, <2>6 DEF Tick
  <1>2. CASE Look
    BY <1>2 DEF Look, Observed, BreakerTypeOK, OldestFirst
  <1>3. CASE Recover
    BY <1>3 DEF Recover, BreakerTypeOK, OldestFirst
  <1>4. ASSUME NEW c \in Callers, Admit(c)
        PROVE  BreakerInv' /\ ~(state = "CLOSED" /\ state' = "OPEN")
    BY <1>4 DEF Admit, Observed, BreakerTypeOK, OldestFirst
  <1>5. ASSUME NEW c \in Callers, RecordSuccess(c)
        PROVE  BreakerInv' /\ ~(state = "CLOSED" /\ state' = "OPEN")
    BY <1>5 DEF RecordSuccess, BreakerTypeOK, OldestFirst, NotOpened
  <1>6. ASSUME NEW c \in Callers, RecordFailure(c)
        PROVE  /\ BreakerInv'
               /\ state = "CLOSED" /\ state' = "OPEN" =>
                      Cardinality(InWindow(failures')) >= FailureThreshold
    <2> DEFINE more == Append(failures, 0)
    <2>1. Window \in Nat /\ Cooldown \in Nat /\ FailureThreshold \in Nat
      BY DEF BreakerAssumption
    <2>2. PICK n \in Nat : n = Len(failures) /\ DOMAIN failures = 1..n
      BY DEF BreakerTypeOK
    <2>3. /\ more \in Seq(0..Window + 1) /\ DOMAIN more = 1..n + 1
          /\ \A i \in 1..n : more[i] = failures[i] /\ failures[i] \in 0..Window + 1
          /\ more[n + 1] = 0
      BY <2>1, <2>2, AppendProperties, ElementOfSeq DEF BreakerTypeOK
    <2>4. \A i, j \in DOMAIN more : i <= j => more[j] <= more[i]
      <3> SUFFICES ASSUME NEW i \in 1..n + 1, NEW j \in 1..n + 1, i <= j
                   PROVE  more[j] <= more[i]
        BY <2>3
      <3> HIDE DEF more
      <3>1. CASE j = n + 1
        <4>1. more[j] = 0
          BY <2>3, <3>1
        <4>2. more[i] \in 0..Window + 1
          BY <2>1, <2>3, ElementOfSeq
        <4> QED
          BY <4>1, <4>2
      <3>2. CASE j # n + 1
        <4>1. i \in 1..n /\ j \in 1..n
          BY <3>2
        <4> QED
          BY <2>2, <2>3, <4>1 DEF OldestFirst
      <3> QED
        BY <3>1, <3>2
    <2> DEFINE counted == Pruned(more)
    <2>5. /\ counted \in Seq(0..Window + 1)
          /\ \A i \in DOMAIN counted : counted[i] <= Window
          /\ \A i, j \in DOMAIN counted : i <= j => counted[j] <= counted[i]
      <3> HIDE DEF more
      <3> QED
        BY <2>3, <2>4, PrunedCounts
    <2>6. /\ state' \in {state, "OPEN"} /\ openAge' \in {openAge, 0}
          /\ caller' = [caller EXCEPT ![c] = "idle"] /\ UNCHANGED healthy
          /\ failures' = failures \/ failures' = counted
          /\ state = "CLOSED" /\ state' = "OPEN" => failures' = counted /\ Len(counted) >= FailureThreshold
      BY <1>6 DEF RecordFailure, Trip
    <2> HIDE DEF more, counted
    <2>7. BreakerTypeOK' /\ OldestFirst'
      BY <2>1, <2>5, <2>6 DEF BreakerTypeOK, OldestFirst
    <2>8. InWindow(counted) = 1..Len(counted)
      BY <2>5 DEF InWindow
    <2>9. Cardinality(InWindow(counted)) = Len(counted)
      <3>1. PICK m \in Nat : m = Len(counted)
        BY <2>5
      <3>2. Cardinality(1..m) = m
        BY FS_Interval
      <3> QED
        BY <2>8, <3>1, <3>2
    <2>10. state = "CLOSED" /\ state' = "OPEN" => Cardinality(InWindow(failures')) >= FailureThreshold
      BY <2>6, <2>9
    <2> QED
      BY <2>7, <2>10
  <1> QED
    BY <1>1, <1>2, <1>3, <1>4, <1>5, <1>6 DEF BreakerNext, Return

(* The breaker's variables keep their types and the failures on record     *)
(* their order, for any threshold, window, cooldown and number of callers. *)
THEOREM BreakerInvariant == BreakerSpec => []BreakerInv
  <1>1. BreakerInit => BreakerInv
    <2>1. <<>> \in Seq(0..Window + 1) /\ DOMAIN <<>> = {}
      BY EmptySeq
    <2> QED
      BY <2>1, BreakerAssumption
       DEF BreakerInit, BreakerInv, BreakerTypeOK, OldestFirst, NotOpened, BreakerAssumption
  <1>2. BreakerInv /\ [BreakerNext]_breakervars => BreakerInv'
    <2>1. BreakerInv /\ UNCHANGED breakervars => BreakerInv'
      BY DEF BreakerInv, BreakerTypeOK, OldestFirst, breakervars
    <2> QED
      BY <2>1, BreakerStep, BreakerAssumption
  <1> QED
    BY <1>1, <1>2, PTL DEF BreakerSpec

(* A closed circuit opens only on FailureThreshold failures in the window, *)
(* however many calls were admitted before and report now.                 *)
THEOREM BreakerTrips == BreakerSpec => TripsAreEarned
  <1>1. BreakerInv /\ [BreakerNext]_breakervars =>
            [state = "CLOSED" /\ state' = "OPEN" =>
                Cardinality(InWindow(failures')) >= FailureThreshold]_breakervars
    BY BreakerStep, BreakerAssumption
  <1> QED
    BY <1>1, BreakerInvariant, PTL DEF BreakerSpec, TripsAreEarned
=============================================================================
