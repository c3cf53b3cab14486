--------------------------- MODULE CircuitBreaker ---------------------------
(***************************************************************************)
(* core/infra/circuit_breaker.py: the breaker around one external          *)
(* dependency, shared by the threads of the process.  call() takes the     *)
(* lock twice, once to ask and once to report, and runs the dependency in  *)
(* between without it; every step here is one of those locked regions.     *)
(*                                                                         *)
(* Time is kept as ages, which saturate where the code no longer tells     *)
(* them apart: a failure older than the window, an opening older than the  *)
(* cooldown.                                                               *)
(***************************************************************************)
EXTENDS Integers, Sequences, FiniteSets

CONSTANTS
    Callers,           \* threads
    FailureThreshold,  \* failures in the window that trip it
    Window,            \* ticks a failure counts
    Cooldown           \* ticks from OPEN to HALF_OPEN

ASSUME BreakerAssumption ==
    FailureThreshold \in Nat \ {0} /\ Window \in Nat /\ Cooldown \in Nat \ {0}

VARIABLES
    state,      \* _state
    failures,   \* ages of _failures, oldest first
    openAge,    \* age of _opened_at, or NotOpened
    caller,     \* "idle", "calling", or "answered": calling a dependency that is back
    healthy     \* whether the dependency has recovered for good (environment)

breakervars == <<state, failures, openAge, caller, healthy>>

NotOpened == -1

BreakerInit ==
    /\ state = "CLOSED"
    /\ failures = <<>>
    /\ openAge = NotOpened
    /\ caller = [c \in Callers |-> "idle"]
    /\ healthy = FALSE

-----------------------------------------------------------------------------
(* A definition named ..._as_... is a plausible slip in the one it precedes *)
(* and stands for; the properties are shown to tell the two apart.          *)

Older(age, most) == IF age < most THEN age + 1 ELSE most

Tick ==
    /\ failures' = [i \in DOMAIN failures |-> Older(failures[i], Window + 1)]
    /\ openAge' = IF openAge = NotOpened THEN NotOpened ELSE Older(openAge, Cooldown)
    /\ UNCHANGED <<state, caller, healthy>>

(* _maybe_half_open: the transition happens when somebody looks. *)
Observed ==
    IF state = "OPEN" /\ openAge >= Cooldown THEN "HALF_OPEN" ELSE state

(* state, snapshot() *)
Look ==
    /\ state' = Observed
    /\ UNCHANGED <<failures, openAge, caller, healthy>>

(* allow() does not look whether the cooldown is over. *)
Admit_as_Unlooked(c) ==
    /\ caller[c] = "idle"
    /\ state \in {"CLOSED", "HALF_OPEN"}
    /\ caller' = [caller EXCEPT ![c] = IF healthy THEN "answered" ELSE "calling"]
    /\ UNCHANGED <<state, failures, openAge, healthy>>

(* allow() said yes.  A refused call raises CircuitOpenError and changes   *)
(* nothing.                                                                *)
Admit(c) ==
    /\ caller[c] = "idle"
    /\ Observed \in {"CLOSED", "HALF_OPEN"}
    /\ state' = Observed
    /\ caller' = [caller EXCEPT ![c] = IF healthy THEN "answered" ELSE "calling"]
    /\ UNCHANGED <<failures, openAge, healthy>>

RecordSuccess(c) ==
    /\ caller[c] # "idle"
    /\ failures' = <<>>
    /\ state' = "CLOSED"
    /\ openAge' = NotOpened
    /\ caller' = [caller EXCEPT ![c] = "idle"]
    /\ UNCHANGED healthy

Trip == state' = "OPEN" /\ openAge' = 0

(* Nothing is pruned: failures never expire. *)
Pruned_as_Forever(ages) == ages

(* Those of a list of ages that still count. *)
InWindow(ages) == {i \in DOMAIN ages : ages[i] <= Window}

(* _prune: the list is in the order of time, so what stays is its tail. *)
Pruned(ages) == SubSeq(ages, Len(ages) - Cardinality(InWindow(ages)) + 1, Len(ages))

(* A call begun before the dependency was back may still fail, whenever it *)
(* reports.                                                                *)
RecordFailure(c) ==
    /\ caller[c] = "calling"
    /\ LET counted == Pruned(Append(failures, 0))
       IN  IF state = "HALF_OPEN" THEN Trip /\ UNCHANGED failures
           ELSE /\ failures' = counted
                /\ IF Len(counted) >= FailureThreshold THEN Trip ELSE UNCHANGED <<state, openAge>>
    /\ caller' = [caller EXCEPT ![c] = "idle"]
    /\ UNCHANGED healthy

(* The environment: what is called from now on is answered. *)
Recover ==
    /\ ~healthy
    /\ healthy' = TRUE
    /\ UNCHANGED <<state, failures, openAge, caller>>

-----------------------------------------------------------------------------
Return(c) == RecordSuccess(c) \/ RecordFailure(c)

BreakerNext == Tick \/ Look \/ Recover \/ \E c \in Callers : Admit(c) \/ Return(c)

BreakerSpec == BreakerInit /\ [][BreakerNext]_breakervars

(* The clock runs, callers keep coming, and a call ends. *)
BreakerFairSpec ==
    /\ BreakerSpec
    /\ WF_breakervars(Tick)
    /\ \A c \in Callers : WF_breakervars(Admit(c)) /\ WF_breakervars(Return(c))

-----------------------------------------------------------------------------
(* Type invariant of the breaker. *)
BreakerTypeOK ==
    /\ state \in {"CLOSED", "OPEN", "HALF_OPEN"}
    /\ failures \in Seq(0..Window + 1)
    /\ openAge \in {NotOpened} \cup 0..Cooldown
    /\ caller \in [Callers -> {"idle", "calling", "answered"}]
    /\ healthy \in BOOLEAN

(* A closed circuit opens only on FailureThreshold failures in the window. *)
TripsAreEarned ==
    [][state = "CLOSED" /\ state' = "OPEN" =>
          Cardinality(InWindow(failures')) >= FailureThreshold]_breakervars

(* Once the dependency is back the circuit closes and stays closed, though *)
(* calls from before may still fail: in CLOSED, where they count with the  *)
(* failures on record, in OPEN, where they start the cooldown anew, and in *)
(* HALF_OPEN beside the trial that was answered.                           *)
Recovers == <>healthy => <>[](state = "CLOSED")

=============================================================================
