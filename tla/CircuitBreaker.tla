--------------------------- MODULE CircuitBreaker ---------------------------
(***************************************************************************)
(* One circuit breaker and its callers (core/resilience.py; the guarded    *)
(* runs are ResilienceManager.execute and the phase loop of                *)
(* cognitive_orchestrator.py).  Each method of the breaker holds its lock; *)
(* the guarded work runs between can_execute and the record, outside it.   *)
(***************************************************************************)
EXTENDS Naturals

CONSTANTS
    Callers,
    FailureThreshold,
    RecoveryTimeout,     \* in ticks of the clock
    HalfOpenMaxCalls

ASSUME BreakerAssumption ==
    /\ FailureThreshold \in Nat \ {0}
    /\ RecoveryTimeout \in Nat
    /\ HalfOpenMaxCalls \in Nat \ {0}

VARIABLES
    state,      \* _state
    failures,   \* _failures; above the threshold counts are not told apart
    quiet,      \* ticks since _last_failure_time, up to RecoveryTimeout
    successes,  \* _successes_during_half_open
    running,    \* callers whose work was admitted and has not been recorded
    ended       \* for the properties: how the work that ended last did end

breakerVars == <<state, failures, quiet, successes, running, ended>>

BreakerInit ==
    /\ state = "closed"
    /\ failures = 0
    /\ quiet = RecoveryTimeout
    /\ successes = 0
    /\ running = {}
    /\ ended = "success"

-----------------------------------------------------------------------------
\* Mutant: the count of an earlier recovery is still there.
EnterHalfOpenKeepsCount ==
    /\ state = "open" /\ quiet >= RecoveryTimeout
    /\ state' = "half_open"
    /\ UNCHANGED successes

\* Mutant: the first call after opening is the probe.
EnterHalfOpenAtOnce ==
    /\ state = "open"
    /\ state' = "half_open"
    /\ successes' = 0

EnterHalfOpen ==
    /\ state = "open" /\ quiet >= RecoveryTimeout
    /\ state' = "half_open"
    /\ successes' = 0

\* can_execute returns True; when it returns False nothing changes.
Admit(p) ==
    /\ p \notin running
    /\ \/ state = "closed" /\ UNCHANGED <<state, successes>>
       \/ EnterHalfOpen
       \/ /\ state = "half_open" /\ successes < HalfOpenMaxCalls
          /\ UNCHANGED <<state, successes>>
    /\ running' = running \cup {p}
    /\ UNCHANGED <<failures, quiet, ended>>

\* Mutant: closing does not forget the failures.
RecordSuccessKeepsFailures(p) ==
    /\ p \in running
    /\ running' = running \ {p}
    /\ ended' = "success"
    /\ successes' = IF state = "half_open" THEN successes + 1 ELSE successes
    /\ state' = IF state = "half_open" /\ successes' >= HalfOpenMaxCalls
                THEN "closed" ELSE state
    /\ UNCHANGED <<failures, quiet>>

\* A success recorded while the breaker is open, of work admitted before, is
\* ignored; one recorded while it is half open counts for the recovery.
RecordSuccess(p) ==
    /\ p \in running
    /\ running' = running \ {p}
    /\ ended' = "success"
    /\ \/ /\ state = "half_open" /\ successes + 1 >= HalfOpenMaxCalls
          /\ successes' = successes + 1
          /\ state' = "closed" /\ failures' = 0
       \/ /\ state = "half_open" /\ successes + 1 < HalfOpenMaxCalls
          /\ successes' = successes + 1
          /\ UNCHANGED <<state, failures>>
       \/ /\ state = "closed"
          /\ failures' = IF failures = 0 THEN 0 ELSE failures - 1
          /\ UNCHANGED <<state, successes>>
       \/ state = "open" /\ UNCHANGED <<state, failures, successes>>
    /\ UNCHANGED quiet

\* Mutant: the count goes one past the threshold.
OneMoreLate(n) == IF n <= FailureThreshold THEN n + 1 ELSE n

OneMore(n) == IF n < FailureThreshold THEN n + 1 ELSE n

RecordFailure(p) ==
    /\ p \in running
    /\ running' = running \ {p}
    /\ ended' = "failure"
    /\ failures' = OneMore(failures)
    /\ quiet' = 0
    /\ state' = IF state = "half_open" \/ failures' >= FailureThreshold
                THEN "open" ELSE state
    /\ UNCHANGED successes

\* Mutant: a cancelled probe counts as one that failed.
CancelReopens(p) ==
    /\ p \in running
    /\ running' = running \ {p}
    /\ ended' = "cancelled"
    /\ state' = IF state = "half_open" THEN "open" ELSE state
    /\ UNCHANGED <<failures, quiet, successes>>

\* The work is cancelled: CancelledError is not an Exception, so execute
\* records nothing.
Cancel(p) ==
    /\ p \in running
    /\ running' = running \ {p}
    /\ ended' = "cancelled"
    /\ UNCHANGED <<state, failures, quiet, successes>>

ClockTick ==
    /\ quiet < RecoveryTimeout
    /\ quiet' = quiet + 1
    /\ UNCHANGED <<state, failures, successes, running, ended>>

Finish(p) == RecordSuccess(p) \/ RecordFailure(p) \/ Cancel(p)

BreakerNext == ClockTick \/ \E p \in Callers : Admit(p) \/ Finish(p)

BreakerSpec == BreakerInit /\ [][BreakerNext]_breakerVars

\* The loops call their plugins on every cycle, the work of a call ends, and
\* the clock advances.
FairBreakerSpec ==
    /\ BreakerSpec
    /\ WF_breakerVars(ClockTick)
    /\ \A p \in Callers : WF_breakerVars(Admit(p)) /\ WF_breakerVars(Finish(p))

-----------------------------------------------------------------------------
BreakerTypeOK ==
    /\ state \in {"closed", "open", "half_open"}
    /\ failures \in 0 .. FailureThreshold
    /\ quiet \in 0 .. RecoveryTimeout
    /\ successes \in 0 .. HalfOpenMaxCalls
    /\ running \subseteq Callers
    /\ ended \in {"success", "failure", "cancelled"}

\* A breaker that lets everything through has seen fewer failures than its
\* threshold, also right after a recovery and whatever late records of calls
\* admitted before the opening still arrive.
ClosedIsHealthy == state = "closed" => failures < FailureThreshold

\* Probing goes on only while nothing has failed for the recovery time: a late
\* failure of an old call ends the probing as much as that of a probe does.
HalfOpenIsQuiet == state = "half_open" => quiet >= RecoveryTimeout

\* A half-open breaker still has a success to wait for, so it never refuses
\* the calls that would close it.
HalfOpenAdmits == state = "half_open" => successes < HalfOpenMaxCalls

\* A module that stops failing and goes on succeeding is used again and stays in
\* use: no order of late records, timeouts and probes that are cancelled between
\* the successes leaves the breaker shut, or reopens it for ever.
Recovers ==
    <>[](ended # "failure") /\ []<>(ended = "success") => <>[](state = "closed")
=============================================================================
