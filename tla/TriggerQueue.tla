---------------------------- MODULE TriggerQueue ----------------------------
(***************************************************************************)
(* What the trigger queue promises whoever sends to it: a trigger is kept  *)
(* until a sweep that began after its delivery has ended, and a good one   *)
(* is done with in the end.  No polls, receipts, visibility timeouts or    *)
(* dead letters here.                                                      *)
(***************************************************************************)
CONSTANTS
    Messages,    \* triggers that may be sent
    Good         \* those that name a tenant and an application

VARIABLES
    status,    \* status[m]: "unsent", "pending" or "done"
    swept      \* triggers on whose behalf a sweep has ended

Init ==
    /\ status = [m \in Messages |-> "unsent"]
    /\ swept = {}

Send(m) ==
    /\ status[m] = "unsent"
    /\ status' = [status EXCEPT ![m] = "pending"]
    /\ UNCHANGED swept

Sweep(m) ==
    /\ m \in Good
    /\ status[m] # "unsent"
    /\ swept' = swept \cup {m}
    /\ UNCHANGED status

Acknowledge(m) ==
    /\ status[m] = "pending"
    /\ m \in swept
    /\ status' = [status EXCEPT ![m] = "done"]
    /\ UNCHANGED swept

Next == \E m \in Messages : Send(m) \/ Sweep(m) \/ Acknowledge(m)

SafeSpec == Init /\ [][Next]_<<status, swept>>

(* A good trigger is swept and acknowledged in the end. *)
Spec ==
    /\ SafeSpec
    /\ \A m \in Good : WF_<<status, swept>>(Sweep(m) \/ Acknowledge(m))
=============================================================================
