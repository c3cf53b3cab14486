----------------------------- MODULE HumanReview -----------------------------
(***************************************************************************)
(* People at the workbench, for one decision of one application:           *)
(* ui/routes.py (ack, decline, override) and POST /override of             *)
(* api/routes.py attach a HumanReview to a trace, capture a lesson from an *)
(* override and take an item off the human queue.  Every call awaited in a *)
(* handler lets other handlers and the runs go on.                         *)
(*                                                                         *)
(* Of a run it matters here that it writes one trace and, after it, at     *)
(* most one item that proposes the same (EvidenceBeforeEffect and          *)
(* OneEffectPerRun of DecisionPipeline).  The page shows the oldest trace, *)
(* find_open() answers the oldest open item: they need not be of one run.  *)
(* A page offers to approve or decline while an item waits and the trace   *)
(* it shows has no review (ui/views.py); what the handlers accept does not *)
(* depend on it.                                                           *)
(***************************************************************************)
EXTENDS Naturals, Sequences, FiniteSets

CONSTANTS
    Runs,
    Reviewers,
    Outcomes,      \* DecisionOutcome; "block" is one
    NewOutcomes    \* outcomes reviewers put in the AI's place

ASSUME ReviewAssumption ==
    /\ "block" \in Outcomes
    /\ "none" \notin Outcomes
    /\ NewOutcomes \subseteq Outcomes

VARIABLES
    trace,       \* outcome in the trace of a run, "none" before it is written
    traces,      \* runs with a trace, oldest first
    queued,      \* runs that have put an item on the queue
    open,        \* runs with an open item, oldest first
    receipts,    \* HumanQueueResolutions, oldest first
    review,      \* final outcome in the human review of a trace
    lessons,     \* AgentLearnings: the trace's run and what the human decided
    handler,     \* what the request of each reviewer does next
    upset        \* ghost: the one review the page offers came to nothing

runs == <<trace, traces, queued>>
vars == <<runs, open, receipts, review, lessons, handler, upset>>

Idle == [step |-> "idle"]

Init ==
    /\ trace = [r \in Runs |-> "none"]
    /\ traces = <<>> /\ queued = {} /\ open = <<>> /\ receipts = <<>>
    /\ review = [r \in Runs |-> "none"]
    /\ lessons = {}
    /\ handler = [v \in Reviewers |-> Idle]
    /\ upset = FALSE

-----------------------------------------------------------------------------
(* A definition named ..._as_... is a plausible slip in the one it precedes *)
(* and stands for; the properties are shown to tell the two apart.          *)

(* trace_writer.write; the dictionary keeps the order of insertion. *)
WriteTrace(r, outcome) ==
    /\ trace[r] = "none"
    /\ trace' = [trace EXCEPT ![r] = outcome]
    /\ traces' = Append(traces, r)
    /\ UNCHANGED <<queued, open, receipts, review, lessons, handler, upset>>

(* The trace that the page shows *)
Shown == Head(traces)

(* human_queue.enqueue: the router asks a human about anything but a block. *)
Enqueue(r) ==
    /\ trace[r] \notin {"none", "block"} /\ r \notin queued
    /\ queued' = queued \cup {r}
    /\ open' = Append(open, r)
    /\ UNCHANGED <<trace, traces, receipts, review, lessons, handler, upset>>

Goto(v, to) == handler' = [handler EXCEPT ![v] = to]

(* attach_human_review: a later review takes the place of an earlier one. *)
Attach(r, outcome) == review' = [review EXCEPT ![r] = outcome]

(* can_act of the page as it would be loaded now *)
Offers == open # <<>> /\ review[Shown] = "none"

(* The trace shown gets its first review by a request that resolves nothing. *)
Spoils(r) == upset' = (upset \/ (r = Shown /\ review[r] = "none"))

(* persona_ack: the AI's outcome is confirmed. *)
Ack(v) ==
    /\ handler[v] = Idle /\ traces # <<>>
    /\ Attach(Shown, trace[Shown])
    /\ Goto(v, [step |-> "find", resolution |-> "approve"])
    /\ IF open = <<>> THEN Spoils(Shown) ELSE UNCHANGED upset
    /\ UNCHANGED <<runs, open, receipts, lessons>>

(* persona_decline: the outcome becomes a block, unless it is one. *)
Decline(v) ==
    /\ handler[v] = Idle /\ traces # <<>>
    /\ trace[Shown] # "block"
    /\ Attach(Shown, "block")
    /\ Goto(v, [step |-> "capture", resolution |-> "decline",
                lesson |-> [run |-> Shown, human |-> "block"]])
    /\ IF open = <<>> THEN Spoils(Shown) ELSE UNCHANGED upset
    /\ UNCHANGED <<runs, open, receipts, lessons>>

(* post_override, submit_override: any trace, any other outcome; the queue *)
(* is not looked at, and the page offers nothing from then on.             *)
Override(v, r, outcome) ==
    /\ handler[v] = Idle /\ trace[r] # "none"
    /\ outcome # trace[r]
    /\ Attach(r, outcome)
    /\ Goto(v, [step |-> "capture", resolution |-> "override",
                lesson |-> [run |-> r, human |-> outcome]])
    /\ Spoils(r)
    /\ UNCHANGED <<runs, open, receipts, lessons>>

(* The lesson states the review the trace has by now. *)
Capture_as_Reread(v) ==
    /\ handler[v].step = "capture"
    /\ lessons' = lessons \cup {[handler[v].lesson EXCEPT !.human = review[handler[v].lesson.run]]}
    /\ Goto(v, IF handler[v].resolution = "override" THEN Idle
               ELSE [step |-> "find", resolution |-> handler[v].resolution])
    /\ UNCHANGED <<runs, open, receipts, review, upset>>

(* reflection.capture *)
Capture(v) ==
    /\ handler[v].step = "capture"
    /\ lessons' = lessons \cup {handler[v].lesson}
    /\ Goto(v, IF handler[v].resolution = "override" THEN Idle
               ELSE [step |-> "find", resolution |-> handler[v].resolution])
    /\ UNCHANGED <<runs, open, receipts, review, upset>>

(* Only the item of the run whose trace the page shows. *)
FindOpen_as_Shown(v) ==
    /\ handler[v].step = "find"
    /\ LET r == Shown
       IN Goto(v, IF \A i \in DOMAIN open : open[i] # r THEN Idle
                  ELSE [step |-> "resolve", run |-> r, resolution |-> handler[v].resolution])
    /\ UNCHANGED <<runs, open, receipts, review, lessons, upset>>

(* human_queue.find_open *)
FindOpen(v) ==
    /\ handler[v].step = "find"
    /\ Goto(v, IF open = <<>> THEN Idle
               ELSE [step |-> "resolve", run |-> Head(open), resolution |-> handler[v].resolution])
    /\ UNCHANGED <<runs, open, receipts, review, lessons, upset>>

Receipt(v) == [run |-> handler[v].run, resolution |-> handler[v].resolution]

Waits(r) == \E i \in DOMAIN open : open[i] = r

(* The queue without the item at i, the dictionary's pop. *)
Without(i) == [j \in 1..Len(open) - 1 |-> IF j < i THEN open[j] ELSE open[j + 1]]

(* The receipt is written whether or not the item was still there. *)
Resolve_as_Blindly(v) ==
    /\ handler[v].step = "resolve"
    /\ \/ \E i \in DOMAIN open : open[i] = handler[v].run /\ open' = Without(i)
       \/ ~Waits(handler[v].run) /\ UNCHANGED open
    /\ receipts' = Append(receipts, Receipt(v))
    /\ Goto(v, Idle)
    /\ UNCHANGED <<runs, review, lessons, upset>>

(* human_queue.resolve: nothing happens if another handler was faster. *)
Resolve(v) ==
    /\ handler[v].step = "resolve"
    /\ \/ /\ \E i \in DOMAIN open : open[i] = handler[v].run /\ open' = Without(i)
          /\ receipts' = Append(receipts, Receipt(v))
       \/ ~Waits(handler[v].run) /\ UNCHANGED <<open, receipts>>
    /\ Goto(v, Idle)
    /\ UNCHANGED <<runs, review, lessons, upset>>

Handler(v) == Capture(v) \/ FindOpen(v) \/ Resolve(v)

(* The request of the reviewer raises, is cancelled or its process dies. *)
BreakOff(v) ==
    /\ handler[v] # Idle
    /\ Goto(v, Idle)
    /\ upset' = (upset \/ handler[v].resolution # "override")
    /\ UNCHANGED <<runs, open, receipts, review, lessons>>

Next ==
    \/ \E r \in Runs : Enqueue(r) \/ \E o \in Outcomes : WriteTrace(r, o)
    \/ \E v \in Reviewers :
        \/ Ack(v)
        \/ Decline(v)
        \/ \E r \in Runs, o \in NewOutcomes : Override(v, r, o)
        \/ Handler(v)
        \/ BreakOff(v)

Spec == Init /\ [][Next]_vars

(* While the page offers it somebody approves, and the event loop lets a   *)
(* request go on, unless it breaks off.  The runs owe nothing.             *)
FairSpec ==
    /\ Spec
    /\ SF_vars(\E v \in Reviewers : Offers /\ Ack(v))
    /\ \A v \in Reviewers : WF_vars(Handler(v))

-----------------------------------------------------------------------------
Resolutions == {"approve", "decline"}
Lessons == [run : Runs, human : Outcomes]

(* Type invariant of the desk. *)
TypeOK ==
    /\ trace \in [Runs -> Outcomes \cup {"none"}]
    /\ traces \in Seq(Runs)
    /\ queued \subseteq Runs
    /\ open \in Seq(Runs)
    /\ receipts \in Seq([run : Runs, resolution : Resolutions])
    /\ review \in [Runs -> Outcomes \cup {"none"}]
    /\ lessons \subseteq Lessons
    /\ handler \in [Reviewers ->
            {Idle}
            \cup [step : {"find"}, resolution : Resolutions]
            \cup [step : {"resolve"}, resolution : Resolutions, run : Runs]
            \cup [step : {"capture"}, resolution : Resolutions \cup {"override"}, lesson : Lessons]]
    /\ upset \in BOOLEAN

(* Double submits and concurrent reviewers who found the same item: an     *)
(* item leaves the queue with exactly one receipt, and none without.       *)
OneReceiptPerItem ==
    \A r \in Runs :
        /\ Waits(r) => r \in queued
        /\ Cardinality({i \in DOMAIN receipts : receipts[i].run = r}) =
              IF r \in queued /\ ~Waits(r) THEN 1 ELSE 0

(* Agents learn from overrides only: however reviews overwrite one another *)
(* and requests overlap or break off, a lesson says another outcome than   *)
(* the trace it names, and that trace was reviewed.  The lessons that      *)
(* api/accord/workbench.py files name no trace and are not among these.    *)
LessonsComeFromOverrides ==
    \A l \in lessons : l.human # trace[l.run] /\ review[l.run] # "none"

(* Whatever traces and items of overlapping runs mix, where items wait one *)
(* is resolved in the end, unless the one review the page offers came to   *)
(* nothing: an override or a request sent before the item was there        *)
(* reviewed the trace it shows first, or a request broke off after the     *)
(* review.  A second item of the decision need never be resolved: the page *)
(* does not offer to.                                                      *)
QueueDrains == queued # {} ~> receipts # <<>> \/ upset
=============================================================================
