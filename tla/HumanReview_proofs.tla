-------------------------- MODULE HumanReview_proofs --------------------------
(***************************************************************************)
(* Proofs about the workbench: an item leaves the queue with exactly one   *)
(* receipt, and agents learn from overrides only, for any number of        *)
(* reviewers and runs.                                                     *)
(***************************************************************************)
EXTENDS HumanReview, FiniteSetTheorems, SequenceTheorems, TLAPS

Receipts == [run : Runs, resolution : Resolutions]

(* The queue holds each run once, only runs that queued, and a receipt,    *)
(* one at most, is there for what has left it.                             *)
QueueOK ==
    /\ \A i, j \in DOMAIN open : open[i] = open[j] => i = j
    /\ \A i \in DOMAIN open : open[i] \in queued
    /\ \A i, j \in DOMAIN receipts : receipts[i].run = receipts[j].run => i = j
    /\ \A r \in Runs :
          (\E i \in DOMAIN receipts : receipts[i].run = r) <=> r \in queued /\ ~Waits(r)

(* A lesson says something else than the trace, which is written and       *)
(* therefore never changes again, and which has a review.                  *)
LessonOK(l) ==
    /\ trace[l.run] # "none" /\ review[l.run] # "none"
    /\ l.human # trace[l.run]

LearningOK ==
    /\ \A i \in DOMAIN traces : trace[traces[i]] # "none"
    /\ \A l \in lessons : LessonOK(l)
    /\ \A v \in Reviewers : handler[v].step = "capture" => LessonOK(handler[v].lesson)

ReviewInv == TypeOK /\ QueueOK /\ LearningOK

-----------------------------------------------------------------------------
(* What the handler of a reviewer carries at each of its steps.            *)
LEMMA HandlerTypes ==
    ASSUME TypeOK, NEW v \in Reviewers
    PROVE  /\ handler[v].step = "capture" =>
                  handler[v].lesson \in Lessons /\ handler[v].resolution \in Resolutions \cup {"override"}
           /\ handler[v].step \in {"find", "resolve"} => handler[v].resolution \in Resolutions
           /\ handler[v].step = "resolve" => handler[v].run \in Runs
  BY DEF TypeOK, Idle

LEMMA ReviewInit == Init => ReviewInv
  <1> SUFFICES ASSUME Init PROVE ReviewInv
    OBVIOUS
  <1>1. /\ traces \in Seq(Runs) /\ open \in Seq(Runs) /\ receipts \in Seq(Receipts)
        /\ DOMAIN traces = {} /\ DOMAIN open = {} /\ DOMAIN receipts = {}
    BY DEF Init
  <1>2. TypeOK
    BY <1>1 DEF Init, TypeOK, Receipts
  <1>3. QueueOK
    BY <1>1 DEF Init, QueueOK, Waits
  <1>4. LearningOK
    BY <1>1 DEF Init, LearningOK, Idle
  <1> QED
    BY <1>2, <1>3, <1>4 DEF ReviewInv

(* What is at the end of a sequence one longer, and before it.             *)
LEMMA AppendAt ==
    ASSUME NEW S, NEW s \in Seq(S), NEW e \in S
    PROVE  /\ Append(s, e) \in Seq(S) /\ Len(s) \in Nat
           /\ DOMAIN s = 1..Len(s) /\ DOMAIN Append(s, e) = DOMAIN s \cup {Len(s) + 1}
           /\ \A i \in DOMAIN s : Append(s, e)[i] = s[i] /\ i # Len(s) + 1
           /\ Append(s, e)[Len(s) + 1] = e
  <1>1. /\ Append(s, e) \in Seq(S) /\ Len(Append(s, e)) = Len(s) + 1
        /\ \A i \in 1..Len(s) : Append(s, e)[i] = s[i]
        /\ Append(s, e)[Len(s) + 1] = e
    BY AppendProperties
  <1>2. Len(s) \in Nat /\ DOMAIN s = 1..Len(s) /\ DOMAIN Append(s, e) = 1..Len(s) + 1
    BY <1>1
  <1> QED
    BY <1>1, <1>2

(* pop() takes one item out and leaves the others in their order.          *)
LEMMA PopAt ==
    ASSUME open \in Seq(Runs), NEW i \in DOMAIN open
    PROVE  /\ Without(i) \in Seq(Runs)
           /\ \A j \in DOMAIN Without(i) : \E k \in DOMAIN open \ {i} : Without(i)[j] = open[k]
           /\ \A k \in DOMAIN open \ {i} : \E j \in DOMAIN Without(i) : Without(i)[j] = open[k]
           /\ \A j, k \in DOMAIN Without(i) :
                 Without(i)[j] = Without(i)[k] =>
                    j = k \/ \E m, n \in DOMAIN open : m # n /\ open[m] = open[n]
  <1> DEFINE n == Len(open)
             s == Without(i)
             at(j) == IF j < i THEN j ELSE j + 1
  <1>1. n \in Nat /\ DOMAIN open = 1..n /\ i \in 1..n /\ \A j \in 1..n : open[j] \in Runs
    BY ElementOfSeq
  <1>2. DOMAIN s = 1..n - 1 /\ n - 1 \in Nat /\ \A j \in 1..n - 1 : s[j] = open[at(j)]
    BY <1>1 DEF Without
  <1>3. \A j \in 1..n - 1 : at(j) \in 1..n /\ at(j) # i
    BY <1>1
  <1>4. s \in Seq(Runs)
    <2>1. s \in [1..n - 1 -> Runs]
      BY <1>1, <1>3 DEF Without
    <2> HIDE DEF s
    <2> QED
      BY <1>2, <2>1
  <1>5. ASSUME NEW j \in DOMAIN s PROVE \E k \in DOMAIN open \ {i} : s[j] = open[k]
    <2>1. at(j) \in DOMAIN open \ {i} /\ s[j] = open[at(j)]
      BY <1>1, <1>2, <1>3
    <2> QED
      BY <2>1
  <1>6. ASSUME NEW k \in DOMAIN open \ {i} PROVE \E j \in DOMAIN s : s[j] = open[k]
    <2>1. CASE k < i
      <3>1. k \in 1..n - 1 /\ at(k) = k
        BY <1>1, <2>1
      <3> QED
        BY <1>2, <3>1
    <2>2. CASE ~(k < i)
      <3>1. k - 1 \in 1..n - 1 /\ at(k - 1) = k
        BY <1>1, <2>2
      <3> QED
        BY <1>2, <3>1
    <2> QED
      BY <2>1, <2>2
  <1>7. ASSUME NEW j \in DOMAIN s, NEW k \in DOMAIN s, s[j] = s[k], j # k
        PROVE  \E m, l \in DOMAIN open : m # l /\ open[m] = open[l]
    <2>1. at(j) # at(k)
      BY <1>1, <1>2, <1>7
    <2>2. at(j) \in DOMAIN open /\ at(k) \in DOMAIN open /\ open[at(j)] = open[at(k)]
      BY <1>1, <1>2, <1>3, <1>7
    <2> HIDE DEF at
    <2> QED
      BY <2>1, <2>2
  <1> QED
    BY <1>4, <1>5, <1>6, <1>7

-----------------------------------------------------------------------------
(* A run writes its trace or puts its item on the queue.                   *)
LEMMA TraceKeeps ==
    ASSUME ReviewInv, NEW r \in Runs, NEW outcome \in Outcomes, WriteTrace(r, outcome)
    PROVE  ReviewInv'
  <1>1. /\ trace[r] = "none" /\ trace' = [trace EXCEPT ![r] = outcome]
        /\ traces' = Append(traces, r) /\ outcome # "none"
        /\ UNCHANGED <<queued, open, receipts, review, lessons, handler, upset>>
    BY ReviewAssumption DEF WriteTrace
  <1>2. /\ traces' \in Seq(Runs) /\ DOMAIN traces' = DOMAIN traces \cup {Len(traces) + 1}
        /\ \A i \in DOMAIN traces : traces'[i] = traces[i]
        /\ traces'[Len(traces) + 1] = r
        /\ \A i \in DOMAIN traces : traces[i] \in Runs
    <2>1. traces \in Seq(Runs)
      BY DEF ReviewInv, TypeOK
    <2> QED
      BY <1>1, <2>1, AppendAt, ElementOfSeq
  <1>3. TypeOK'
    BY <1>1, <1>2 DEF ReviewInv, TypeOK
  <1>4. QueueOK'
    BY <1>1 DEF ReviewInv, QueueOK, Waits
  <1>5. ASSUME NEW q \in Runs PROVE trace'[q] = IF q = r THEN outcome ELSE trace[q]
    BY <1>1 DEF ReviewInv, TypeOK
  <1>6. ASSUME NEW l \in Lessons, LessonOK(l) PROVE LessonOK(l)'
    BY <1>1, <1>5, <1>6 DEF LessonOK, Lessons
  <1>7. LearningOK'
    <2>1. \A i \in DOMAIN traces' : trace'[traces'[i]] # "none"
      BY <1>1, <1>2, <1>5 DEF ReviewInv, LearningOK
    <2>2. \A l \in lessons' : LessonOK(l)'
      BY <1>1, <1>6 DEF ReviewInv, TypeOK, LearningOK
    <2>3. ASSUME NEW v \in Reviewers, handler'[v].step = "capture"
          PROVE  LessonOK(handler[v].lesson)'
      <3>1. handler[v].lesson \in Lessons /\ LessonOK(handler[v].lesson)
        BY <1>1, <2>3, HandlerTypes DEF ReviewInv, LearningOK
      <3> QED
        BY <1>1, <1>6, <3>1 DEF LessonOK
    <2> QED
      BY <2>1, <2>2, <2>3 DEF LearningOK
  <1> QED
    BY <1>3, <1>4, <1>7 DEF ReviewInv

LEMMA EnqueueKeeps ==
    ASSUME ReviewInv, NEW r \in Runs, Enqueue(r)
    PROVE  ReviewInv'
  <1>1. /\ r \notin queued /\ queued' = queued \cup {r} /\ open' = Append(open, r)
        /\ UNCHANGED <<trace, traces, receipts, review, lessons, handler, upset>>
    BY DEF Enqueue
  <1>2. /\ open' \in Seq(Runs) /\ DOMAIN open' = DOMAIN open \cup {Len(open) + 1}
        /\ \A i \in DOMAIN open : open'[i] = open[i] /\ i # Len(open) + 1
        /\ open'[Len(open) + 1] = r
    <2>1. open \in Seq(Runs)
      BY DEF ReviewInv, TypeOK
    <2> QED
      BY <1>1, <2>1, AppendAt
  <1>3. TypeOK'
    BY <1>1, <1>2 DEF ReviewInv, TypeOK
  <1>4. \A i \in DOMAIN open : open[i] \in queued /\ open[i] # r
    BY <1>1 DEF ReviewInv, QueueOK
  <1>5. \A q \in Runs : Waits(q)' <=> Waits(q) \/ q = r
    BY <1>2 DEF Waits
  <1>6. QueueOK'
    <2>1. \A i, j \in DOMAIN open' : open'[i] = open'[j] => i = j
      BY <1>2, <1>4 DEF ReviewInv, QueueOK
    <2>2. \A i \in DOMAIN open' : open'[i] \in queued'
      BY <1>1, <1>2, <1>4
    <2>3. \A q \in Runs :
             (\E i \in DOMAIN receipts' : receipts'[i].run = q) <=> q \in queued' /\ ~Waits(q)'
      BY <1>1, <1>5 DEF ReviewInv, QueueOK
    <2> QED
      BY <1>1, <2>1, <2>2, <2>3 DEF ReviewInv, QueueOK
  <1>7. LearningOK'
    BY <1>1 DEF ReviewInv, LearningOK, LessonOK
  <1> QED
    BY <1>3, <1>6, <1>7 DEF ReviewInv

(* A review is attached; what the handler goes on with is in order.        *)
LEMMA AttachKeeps ==
    ASSUME ReviewInv, NEW r \in Runs, NEW outcome \in Outcomes, NEW v \in Reviewers, NEW next,
           trace[r] # "none", Attach(r, outcome), Goto(v, next),
           UNCHANGED <<runs, open, receipts, lessons>>, upset' \in BOOLEAN,
           \/ next \in [step : {"find"}, resolution : Resolutions]
           \/ /\ next \in [step : {"capture"}, resolution : Resolutions \cup {"override"},
                           lesson : Lessons]
              /\ next.lesson.run = r /\ next.lesson.human # trace[r]
    PROVE  ReviewInv'
  <1>1. /\ review' = [review EXCEPT ![r] = outcome]
        /\ handler' = [handler EXCEPT ![v] = next]
        /\ trace' = trace /\ traces' = traces /\ queued' = queued
        /\ open' = open /\ receipts' = receipts /\ lessons' = lessons
        /\ outcome # "none"
    BY ReviewAssumption DEF Attach, Goto, runs
  <1>2. TypeOK'
    BY <1>1 DEF ReviewInv, TypeOK
  <1>3. QueueOK'
    BY <1>1 DEF ReviewInv, QueueOK, Waits
  <1>4. ASSUME NEW l \in Lessons, LessonOK(l) PROVE LessonOK(l)'
    BY <1>1, <1>4 DEF ReviewInv, TypeOK, LessonOK, Lessons
  <1>5. LearningOK'
    <2>1. ASSUME NEW w \in Reviewers, handler'[w].step = "capture"
          PROVE  LessonOK(handler[w].lesson)'
      <3>1. CASE w # v
        <4>1. handler'[w] = handler[w]
          BY <1>1, <3>1 DEF ReviewInv, TypeOK
        <4>2. handler[w].lesson \in Lessons /\ LessonOK(handler[w].lesson)
          BY <2>1, <4>1, HandlerTypes DEF ReviewInv, LearningOK
        <4> QED
          BY <1>4, <4>1, <4>2 DEF LessonOK
      <3>2. CASE w = v
        <4>1. handler'[w] = next
          BY <1>1, <3>2 DEF ReviewInv, TypeOK
        <4>2. next.lesson.run = r /\ next.lesson.human # trace[r]
          BY <2>1, <4>1
        <4>3. trace'[r] # "none" /\ review'[r] # "none"
          BY <1>1 DEF ReviewInv, TypeOK
        <4> QED
          BY <1>1, <4>1, <4>2, <4>3 DEF LessonOK
      <3> QED
        BY <3>1, <3>2
    <2>2. \A l \in lessons' : LessonOK(l)'
      BY <1>1, <1>4 DEF ReviewInv, TypeOK, LearningOK
    <2> QED
      BY <1>1, <2>1, <2>2 DEF ReviewInv, LearningOK
  <1> QED
    BY <1>2, <1>3, <1>5 DEF ReviewInv

(* The oldest trace is one that was written.                               *)
LEMMA ShownTrace ==
    ASSUME ReviewInv, traces # <<>>
    PROVE  Shown \in Runs /\ trace[Shown] # "none" /\ trace[Shown] \in Outcomes
  <1>1. traces \in Seq(Runs)
    BY DEF ReviewInv, TypeOK
  <1>2. 1 \in DOMAIN traces /\ Shown = traces[1]
    BY <1>1 DEF Shown
  <1>3. traces[1] \in Runs
    BY <1>1, <1>2, ElementOfSeq
  <1> QED
    BY <1>2, <1>3 DEF ReviewInv, LearningOK, TypeOK

LEMMA ReviewKeeps ==
    ASSUME ReviewInv, NEW v \in Reviewers,
           Ack(v) \/ Decline(v) \/ \E r \in Runs, o \in NewOutcomes : Override(v, r, o)
    PROVE  ReviewInv'
  <1>1. CASE Ack(v)
    <2>1. [step |-> "find", resolution |-> "approve"] \in [step : {"find"}, resolution : Resolutions]
      BY DEF Resolutions
    <2>2. upset' \in BOOLEAN
      BY <1>1 DEF Ack, Spoils, ReviewInv, TypeOK
    <2> QED
      BY <1>1, <2>1, <2>2, ShownTrace, AttachKeeps DEF Ack
  <1>2. CASE Decline(v)
    <2> DEFINE r == Shown
               next == [step |-> "capture", resolution |-> "decline",
                        lesson |-> [run |-> r, human |-> "block"]]
    <2>1. /\ r \in Runs /\ trace[r] # "none" /\ trace[r] # "block"
          /\ Attach(r, "block") /\ Goto(v, next) /\ UNCHANGED <<runs, open, receipts, lessons>>
      BY <1>2, ShownTrace DEF Decline
    <2>2. next \in [step : {"capture"}, resolution : Resolutions \cup {"override"}, lesson : Lessons]
      BY <2>1, ReviewAssumption DEF Resolutions, Lessons
    <2>3. next.lesson.run = r /\ next.lesson.human # trace[r]
      BY <2>1
    <2>4. upset' \in BOOLEAN
      BY <1>2 DEF Decline, Spoils, ReviewInv, TypeOK
    <2> HIDE DEF r, next
    <2> QED
      BY <2>1, <2>2, <2>3, <2>4, AttachKeeps, ReviewAssumption
  <1>3. ASSUME NEW r \in Runs, NEW o \in NewOutcomes, Override(v, r, o)
        PROVE  ReviewInv'
    <2> DEFINE next == [step |-> "capture", resolution |-> "override",
                        lesson |-> [run |-> r, human |-> o]]
    <2>1. /\ trace[r] # "none" /\ o # trace[r] /\ o \in Outcomes
          /\ Attach(r, o) /\ Goto(v, next) /\ UNCHANGED <<runs, open, receipts, lessons>>
      BY <1>3, ReviewAssumption DEF Override
    <2>2. next \in [step : {"capture"}, resolution : Resolutions \cup {"override"}, lesson : Lessons]
      BY <2>1 DEF Lessons
    <2>3. next.lesson.run = r /\ next.lesson.human # trace[r]
      BY <2>1
    <2>4. upset' \in BOOLEAN
      BY <1>3 DEF Override, Spoils, ReviewInv, TypeOK
    <2> HIDE DEF next
    <2> QED
      BY <2>1, <2>2, <2>3, <2>4, AttachKeeps
  <1> QED
    BY <1>1, <1>2, <1>3

(* A handler that goes idle or to the queue leaves the other handlers'     *)
(* lessons as they were.                                                   *)
LEMMA StepKeeps ==
    ASSUME ReviewInv, NEW v \in Reviewers, NEW next, Goto(v, next),
           \/ next = Idle
           \/ next \in [step : {"find"}, resolution : Resolutions]
           \/ next \in [step : {"resolve"}, resolution : Resolutions, run : Runs],
           UNCHANGED <<runs, review>>,
           \/ lessons' = lessons
           \/ handler[v].step = "capture" /\ lessons' = lessons \cup {handler[v].lesson},
           open' \in Seq(Runs), receipts' \in Seq(Receipts), upset' \in BOOLEAN, QueueOK'
    PROVE  ReviewInv'
  <1>1. handler' = [handler EXCEPT ![v] = next] /\ next.step # "capture"
    BY DEF Goto, Idle
  <1>2. \A w \in Reviewers : handler'[w].step = "capture" => handler'[w] = handler[w]
    BY <1>1 DEF ReviewInv, TypeOK
  <1>3. LearningOK'
    BY <1>2 DEF ReviewInv, LearningOK, LessonOK, runs
  <1>4. lessons' \subseteq Lessons
    <2>1. lessons \subseteq Lessons
      BY DEF ReviewInv, TypeOK
    <2>2. handler[v].step = "capture" => handler[v].lesson \in Lessons
      BY HandlerTypes DEF ReviewInv
    <2> QED
      BY <2>1, <2>2
  <1>5. handler' \in [Reviewers ->
            {Idle}
            \cup [step : {"find"}, resolution : Resolutions]
            \cup [step : {"resolve"}, resolution : Resolutions, run : Runs]
            \cup [step : {"capture"}, resolution : Resolutions \cup {"override"}, lesson : Lessons]]
    BY <1>1 DEF ReviewInv, TypeOK
  <1>6. TypeOK'
    <2>1. /\ trace' \in [Runs -> Outcomes \cup {"none"}] /\ traces' \in Seq(Runs)
          /\ queued' \subseteq Runs /\ review' \in [Runs -> Outcomes \cup {"none"}]
          /\ receipts' \in Seq([run : Runs, resolution : Resolutions])
      BY DEF ReviewInv, TypeOK, Receipts, runs
    <2> QED
      BY <1>4, <1>5, <2>1, Zenon DEF TypeOK
  <1> QED
    BY <1>3, <1>6 DEF ReviewInv

(* The other steps of a request.                                           *)
LEMMA HandlerKeeps ==
    ASSUME ReviewInv, NEW v \in Reviewers, Handler(v) \/ BreakOff(v)
    PROVE  ReviewInv'
  <1>0. open \in Seq(Runs) /\ receipts \in Seq(Receipts) /\ upset' \in BOOLEAN
    BY DEF ReviewInv, TypeOK, Receipts, Handler, Capture, FindOpen, Resolve, BreakOff
  <1>1. CASE BreakOff(v)
    <2>1. /\ Goto(v, Idle) /\ UNCHANGED <<runs, review>> /\ lessons' = lessons
          /\ UNCHANGED <<open, receipts, trace, traces, queued>>
      BY <1>1 DEF BreakOff, runs
    <2>2. QueueOK'
      BY <2>1 DEF ReviewInv, QueueOK, Waits
    <2> QED
      BY <1>0, <2>1, <2>2, StepKeeps
  <1>2. CASE Capture(v)
    <2> DEFINE next == IF handler[v].resolution = "override" THEN Idle
                       ELSE [step |-> "find", resolution |-> handler[v].resolution]
    <2>1. /\ handler[v].step = "capture" /\ Goto(v, next) /\ UNCHANGED <<runs, review>>
          /\ lessons' = lessons \cup {handler[v].lesson}
          /\ UNCHANGED <<open, receipts, trace, traces, queued>>
      BY <1>2 DEF Capture, runs
    <2>2. next = Idle \/ next \in [step : {"find"}, resolution : Resolutions]
      BY <2>1, HandlerTypes DEF ReviewInv
    <2>3. QueueOK'
      BY <2>1 DEF ReviewInv, QueueOK, Waits
    <2> HIDE DEF next
    <2> QED
      BY <1>0, <2>1, <2>2, <2>3, StepKeeps
  <1>3. CASE FindOpen(v)
    <2> DEFINE next == IF open = <<>> THEN Idle
                       ELSE [step |-> "resolve", run |-> Head(open),
                             resolution |-> handler[v].resolution]
    <2>1. /\ handler[v].step = "find" /\ Goto(v, next) /\ UNCHANGED <<runs, review>>
          /\ lessons' = lessons /\ UNCHANGED <<open, receipts, trace, traces, queued>>
      BY <1>3 DEF FindOpen, runs
    <2>2. next = Idle \/ next \in [step : {"resolve"}, resolution : Resolutions, run : Runs]
      <3>1. handler[v].resolution \in Resolutions
        BY <2>1, HandlerTypes DEF ReviewInv
      <3>2. open # <<>> => Head(open) \in Runs
        BY DEF ReviewInv, TypeOK
      <3> QED
        BY <3>1, <3>2
    <2>3. QueueOK'
      BY <2>1 DEF ReviewInv, QueueOK, Waits
    <2> HIDE DEF next
    <2> QED
      BY <1>0, <2>1, <2>2, <2>3, StepKeeps
  <1>4. CASE Resolve(v)
    <2>1. /\ handler[v].step = "resolve" /\ Goto(v, Idle) /\ UNCHANGED <<runs, review>>
          /\ lessons' = lessons /\ UNCHANGED <<trace, traces, queued>>
          /\ handler[v].run \in Runs /\ handler[v].resolution \in Resolutions
      BY <1>4, HandlerTypes DEF Resolve, runs, ReviewInv
    <2>2. CASE UNCHANGED <<open, receipts>>
      <3>1. QueueOK'
        BY <2>1, <2>2 DEF ReviewInv, QueueOK, Waits
      <3> QED
        BY <1>0, <2>1, <2>2, <3>1, StepKeeps
    <2>3. ASSUME NEW i \in DOMAIN open, open[i] = handler[v].run, open' = Without(i),
                 receipts' = Append(receipts, Receipt(v))
          PROVE  ReviewInv'
      <3> DEFINE q == handler[v].run
      <3>0. open \in Seq(Runs) /\ receipts \in Seq(Receipts)
        BY DEF ReviewInv, TypeOK, Receipts
      <3>1. Receipt(v) \in Receipts /\ Receipt(v).run = q
        BY <2>1 DEF Receipt, Receipts
      <3>2. /\ receipts' \in Seq(Receipts)
            /\ DOMAIN receipts' = DOMAIN receipts \cup {Len(receipts) + 1}
            /\ \A j \in DOMAIN receipts : receipts'[j] = receipts[j] /\ j # Len(receipts) + 1
            /\ receipts'[Len(receipts) + 1].run = q
        BY <2>3, <3>0, <3>1, AppendAt
      <3>3. /\ open' \in Seq(Runs)
            /\ \A j \in DOMAIN open' : \E k \in DOMAIN open \ {i} : open'[j] = open[k]
            /\ \A k \in DOMAIN open \ {i} : \E j \in DOMAIN open' : open'[j] = open[k]
            /\ \A j, k \in DOMAIN open' : open'[j] = open'[k] =>
                  j = k \/ \E m, n \in DOMAIN open : m # n /\ open[m] = open[n]
        BY <2>3, <3>0, PopAt
      <3>4. \A m, n \in DOMAIN open : open[m] = open[n] => m = n
        BY DEF ReviewInv, QueueOK
      <3>5. \A j, k \in DOMAIN open' : open'[j] = open'[k] => j = k
        BY <3>3, <3>4
      <3>6. \A r \in Runs : Waits(r)' <=> Waits(r) /\ r # q
        <4>1. \A k \in DOMAIN open \ {i} : open[k] # q
          BY <2>3, <3>4
        <4> QED
          BY <2>3, <3>3, <4>1 DEF Waits
      <3>7. \A j \in DOMAIN open' : open'[j] \in queued'
        BY <2>1, <3>3 DEF ReviewInv, QueueOK
      <3>8. Waits(q) /\ q \in queued /\ \A j \in DOMAIN receipts : receipts[j].run # q
        BY <2>1, <2>3 DEF Waits, ReviewInv, QueueOK
      <3>9. \A j, k \in DOMAIN receipts' : receipts'[j].run = receipts'[k].run => j = k
        BY <3>2, <3>8 DEF ReviewInv, QueueOK
      <3>10. ASSUME NEW r \in Runs
             PROVE  (\E j \in DOMAIN receipts' : receipts'[j].run = r) <=> r \in queued' /\ ~Waits(r)'
        <4>1. CASE r = q
          BY <2>1, <3>2, <3>6, <3>8, <4>1
        <4>2. CASE r # q
          <5>1. (\E j \in DOMAIN receipts' : receipts'[j].run = r)
                <=> \E j \in DOMAIN receipts : receipts[j].run = r
            BY <3>2, <4>2
          <5> QED
            BY <2>1, <3>6, <4>2, <5>1 DEF ReviewInv, QueueOK
        <4> QED
          BY <4>1, <4>2
      <3>11. QueueOK'
        BY <3>5, <3>7, <3>9, <3>10 DEF QueueOK
      <3> QED
        BY <1>0, <2>1, <3>2, <3>3, <3>11, StepKeeps
    <2> QED
      BY <1>4, <2>2, <2>3 DEF Resolve
  <1> QED
    BY <1>1, <1>2, <1>3, <1>4 DEF Handler

LEMMA ReviewNext == ReviewInv /\ [Next]_vars => ReviewInv'
  <1> SUFFICES ASSUME ReviewInv, [Next]_vars PROVE ReviewInv'
    OBVIOUS
  <1>1. CASE UNCHANGED vars
    BY <1>1 DEF vars, runs, ReviewInv, TypeOK, QueueOK, Waits, LearningOK, LessonOK
  <1> QED
    BY <1>1, TraceKeeps, EnqueueKeeps, ReviewKeeps, HandlerKeeps DEF Next

LEMMA OneReceiptFollows == ReviewInv => OneReceiptPerItem
  <1> SUFFICES ASSUME ReviewInv, NEW r \in Runs
               PROVE  /\ Waits(r) => r \in queued
                      /\ Cardinality({i \in DOMAIN receipts : receipts[i].run = r}) =
                            IF r \in queued /\ ~Waits(r) THEN 1 ELSE 0
    BY DEF OneReceiptPerItem
  <1> DEFINE R == {i \in DOMAIN receipts : receipts[i].run = r}
  <1>1. Waits(r) => r \in queued
    BY DEF Waits, ReviewInv, QueueOK
  <1>2. CASE r \in queued /\ ~Waits(r)
    <2>1. PICK i \in DOMAIN receipts : receipts[i].run = r
      BY <1>2 DEF ReviewInv, QueueOK
    <2>2. R = {i}
      BY <2>1 DEF ReviewInv, QueueOK
    <2> QED
      BY <1>1, <1>2, <2>2, FS_Singleton
  <1>3. CASE ~(r \in queued /\ ~Waits(r))
    <2>1. R = {}
      BY <1>3 DEF ReviewInv, QueueOK
    <2> QED
      BY <1>1, <1>3, <2>1, FS_EmptySet
  <1> QED
    BY <1>2, <1>3

-----------------------------------------------------------------------------
(* Type correctness of the workbench.                                      *)
THEOREM ReviewTypes == Spec => []TypeOK
  <1>1. ReviewInv => TypeOK
    BY DEF ReviewInv
  <1> QED
    BY <1>1, ReviewInit, ReviewNext, PTL DEF Spec

(* Double submits and reviewers who found the same item: one receipt for   *)
(* each item that has left the queue, none for one that waits.             *)
THEOREM ReviewOneReceipt == Spec => []OneReceiptPerItem
  BY ReviewInit, ReviewNext, OneReceiptFollows, PTL DEF Spec

(* Whatever overlaps or breaks off, a lesson differs from the trace it     *)
(* names, and that trace was reviewed.                                     *)
THEOREM ReviewLessons == Spec => []LessonsComeFromOverrides
  <1>1. ReviewInv => LessonsComeFromOverrides
    BY DEF ReviewInv, LearningOK, LessonOK, LessonsComeFromOverrides
  <1> QED
    BY <1>1, ReviewInit, ReviewNext, PTL DEF Spec

=============================================================================
