---------------------------- MODULE DecisionFlow ----------------------------
(***************************************************************************)
(* What running an application through the decision graph promises,        *)
(* without tasks, waves in flight, traces, stores or failures in between:  *)
(* each decision of a run is open until it is settled, once, by an         *)
(* outcome, by being skipped or by having failed, and only lawfully.  The  *)
(* laws are the hard rules of domains/lending/decisions.yaml that the      *)
(* executor and the policy engine share.                                   *)
(***************************************************************************)
EXTENDS PolicyEvaluator

CONSTANTS
    Runs,         \* run_application() calls
    DependsOn,    \* depends_on of each decision
    Registered    \* the decisions that have an agent

VARIABLE disposition    \* disposition[run][decision]

Dispositions == Outcomes \cup {"open", "skipped", "failed"}

Init == disposition = [r \in Runs |-> [d \in Decisions |-> "open"]]

Halted(r) == disposition[r][Fraud] = "block"

Undecided(r, d) == {u \in DependsOn[d] : disposition[r][u] \notin Outcomes}

(* A decision may run only with an agent, before any fraud block and on    *)
(* top of upstreams that were all decided; below a block it can only block.*)
MayRun(r, d) == d \in Registered /\ ~Halted(r) /\ Undecided(r, d) = {}

Lawful(r, d, x) ==
    \/ x = "skipped" /\ ~MayRun(r, d)
    \/ x = "failed"  /\ MayRun(r, d)
    \/ /\ x \in Outcomes
       /\ MayRun(r, d)
       /\ (\E u \in DependsOn[d] : disposition[r][u] = "block") => x = "block"

(* A wave settles its decisions together. *)
Settle(r) ==
    /\ disposition' \in [Runs -> [Decisions -> Dispositions]]
    /\ \A q \in Runs \ {r} : disposition'[q] = disposition[q]
    /\ \A d \in Decisions :
          disposition'[r][d] # disposition[r][d] =>
              disposition[r][d] = "open" /\ Lawful(r, d, disposition'[r][d])

Next == \E r \in Runs : Settle(r)

Spec == Init /\ [][Next]_disposition

-----------------------------------------------------------------------------
TypeOK == disposition \in [Runs -> [Decisions -> Dispositions]]
=============================================================================
