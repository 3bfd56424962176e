--------------------------- MODULE CircuitBreaker ---------------------------
(***************************************************************************)
(* rag/core/fallback/circuit_breaker.py: one breaker shared by many        *)
(* callers of `call`.  The coroutine runs without an await up to the       *)
(* guarded function and from its result on, so admission is one step and   *)
(* completion another, and any number of calls are in flight in between:   *)
(* a call can finish under a state it was not admitted in.                 *)
(*                                                                         *)
(* consecutive_failures is only compared with FailureThreshold, where it   *)
(* saturates here.  Rejected calls (CircuitBreakerError) change nothing    *)
(* and are not steps.                                                      *)
(***************************************************************************)
EXTENDS Integers, FiniteSets

CONSTANTS
    Callers,            \* coroutines that use the breaker
    FailureThreshold,   \* config.failure_threshold
    SuccessThreshold,   \* config.success_threshold
    HalfOpenMaxCalls,   \* config.half_open_max_calls
    Cancellable,        \* whether a caller's task may be cancelled
    MaxAdmin            \* bound on reset / force_open / force_close calls

ASSUME BreakerAssumption ==
    /\ IsFiniteSet(Callers)
    /\ FailureThreshold \in Nat \ {0}
    /\ SuccessThreshold \in Nat \ {0}
    /\ HalfOpenMaxCalls \in Nat \ {0}
    /\ Cancellable \in BOOLEAN
    /\ MaxAdmin \in Nat

VARIABLES
    state,                  \* _state
    half_open_calls,        \* _half_open_calls
    half_open_successes,    \* _half_open_successes
    consecutive_failures,   \* _stats.consecutive_failures, saturating
    due,                    \* recovery_timeout has passed since the last change
    running,                \* callers whose guarded function is running
    up,                     \* the guarded service works, from now on
    admin,                  \* administrative calls so far
    probes,                 \* history: running calls admitted in this half-open window
    lost,                   \* history: a probe of this half-open window was cancelled
    streak,                 \* history: successes since the last change or failure, saturating
    closedBy                \* history: force_close closed it, with no success since, or not

breaker == <<state, half_open_calls, half_open_successes, due>>
history == <<probes, lost, streak, closedBy>>
breakerVars == <<breaker, consecutive_failures, running, up, admin, history>>

States == {"closed", "open", "half_open"}

BreakerInit ==
    /\ state = "closed"
    /\ half_open_calls = 0
    /\ half_open_successes = 0
    /\ consecutive_failures = 0
    /\ due = FALSE
    /\ running = {}
    /\ up = FALSE
    /\ admin = 0
    /\ probes = {}
    /\ lost = FALSE
    /\ streak = 0
    /\ closedBy = "breaker"

-----------------------------------------------------------------------------
Saturated(n, bound) == IF n > bound THEN bound ELSE n

\* Mutations of TransitionTo: the success window, or the slots, are not reset.
KeepSuccesses(new) ==
    /\ state' = new
    /\ half_open_calls' = 0
    /\ UNCHANGED half_open_successes
    /\ due' = FALSE
    /\ probes' = {}
    /\ lost' = FALSE
    /\ streak' = 0

KeepCalls(new) ==
    /\ state' = new
    /\ UNCHANGED half_open_calls
    /\ half_open_successes' = 0
    /\ due' = FALSE
    /\ probes' = {}
    /\ lost' = FALSE
    /\ streak' = 0

\* _transition_to, and the history that starts afresh with it.
TransitionTo(new) ==
    /\ state' = new
    /\ half_open_calls' = 0
    /\ half_open_successes' = 0
    /\ due' = FALSE
    /\ probes' = {}
    /\ lost' = FALSE
    /\ streak' = 0

AdmitProbe(c) ==
    /\ state = "half_open"
    /\ half_open_calls < HalfOpenMaxCalls
    /\ c \notin running
    /\ half_open_calls' = half_open_calls + 1
    /\ running' = running \union {c}
    /\ probes' = probes \union {c}
    /\ UNCHANGED <<state, half_open_successes, consecutive_failures, due, up,
                   admin, lost, streak, closedBy>>

AdmitClosed(c) ==
    /\ state = "closed"
    /\ c \notin running
    /\ running' = running \union {c}
    /\ UNCHANGED <<breaker, consecutive_failures, up, admin, history>>

\* The state property: reading it after the recovery timeout opens the
\* half-open window.  Callers read it before they are admitted, health
\* endpoints at any time.
ReadState ==
    /\ state = "open"
    /\ due
    /\ TransitionTo("half_open")
    /\ UNCHANGED <<consecutive_failures, running, up, admin, closedBy>>

Succeed(c) ==
    /\ c \in running
    /\ running' = running \ {c}
    /\ consecutive_failures' = 0
    /\ closedBy' = "breaker"
    /\ \/ /\ state = "half_open"
          /\ half_open_successes + 1 >= SuccessThreshold
          /\ TransitionTo("closed")
       \/ /\ state = "half_open"
          /\ half_open_successes + 1 < SuccessThreshold
          /\ half_open_successes' = half_open_successes + 1
          /\ probes' = probes \ {c}
          /\ streak' = Saturated(streak + 1, SuccessThreshold)
          /\ UNCHANGED <<state, half_open_calls, due, lost>>
       \/ /\ state # "half_open"
          /\ probes' = probes \ {c}
          /\ streak' = Saturated(streak + 1, SuccessThreshold)
          /\ UNCHANGED <<breaker, lost>>
    /\ UNCHANGED <<up, admin>>

\* _on_failure: whether this failure opens the circuit.
Trips(failures) ==
    \/ state = "half_open"
    \/ state = "closed" /\ failures >= FailureThreshold

\* The guarded function raises.
Fail(c) ==
    LET failures == consecutive_failures + 1 IN
    /\ c \in running
    /\ ~up
    /\ running' = running \ {c}
    /\ consecutive_failures' = Saturated(failures, FailureThreshold)
    /\ \/ /\ Trips(failures)
          /\ TransitionTo("open")
          /\ closedBy' = "breaker"
       \/ /\ ~Trips(failures)
          /\ probes' = probes \ {c}
          /\ streak' = 0
          /\ UNCHANGED <<breaker, closedBy, lost>>
    /\ UNCHANGED <<up, admin>>

\* The caller is cancelled at its await: CancelledError is no Exception, so
\* neither _on_success nor _on_failure runs.
Cancel(c) ==
    /\ Cancellable
    /\ c \in running
    /\ running' = running \ {c}
    /\ probes' = probes \ {c}
    /\ lost' = (lost \/ c \in probes)
    /\ UNCHANGED <<breaker, consecutive_failures, up, admin, streak, closedBy>>

RecoveryTimeout ==
    /\ state = "open"
    /\ ~due
    /\ due' = TRUE
    /\ UNCHANGED <<state, half_open_calls, half_open_successes,
                   consecutive_failures, running, up, admin, history>>

\* The guarded service returns, and stays.
ServiceReturns ==
    /\ ~up
    /\ up' = TRUE
    /\ UNCHANGED <<breaker, consecutive_failures, running, admin, history>>

Reset ==
    /\ admin < MaxAdmin
    /\ admin' = admin + 1
    /\ TransitionTo("closed")
    /\ consecutive_failures' = 0
    /\ closedBy' = "breaker"
    /\ UNCHANGED <<running, up>>

ForceOpen ==
    /\ admin < MaxAdmin
    /\ admin' = admin + 1
    /\ TransitionTo("open")
    /\ closedBy' = "breaker"
    /\ UNCHANGED <<consecutive_failures, running, up>>

\* The failures counted so far are kept.
ForceClose ==
    /\ admin < MaxAdmin
    /\ admin' = admin + 1
    /\ TransitionTo("closed")
    /\ closedBy' = "operator"
    /\ UNCHANGED <<consecutive_failures, running, up>>

Admit(c) == AdmitClosed(c) \/ AdmitProbe(c)
Finish(c) == Succeed(c) \/ Fail(c)

BreakerNext ==
    \/ \E c \in Callers : Admit(c) \/ Finish(c) \/ Cancel(c)
    \/ ReadState \/ RecoveryTimeout \/ ServiceReturns
    \/ Reset \/ ForceOpen \/ ForceClose

BreakerSpec == BreakerInit /\ [][BreakerNext]_breakerVars

\* Calls end, time passes, and callers keep coming: recovery is only promised
\* to a breaker that is used.
BreakerFairness ==
    /\ \A c \in Callers : WF_breakerVars(Finish(c))
    /\ WF_breakerVars(\E c \in Callers : Admit(c))
    /\ WF_breakerVars(ReadState)
    /\ WF_breakerVars(RecoveryTimeout)

BreakerFairSpec == BreakerSpec /\ BreakerFairness

-----------------------------------------------------------------------------
Flags == due \in BOOLEAN /\ up \in BOOLEAN /\ lost \in BOOLEAN

BreakerTypeOK ==
    /\ Flags
    /\ state \in States
    /\ half_open_calls \in Nat
    /\ half_open_successes \in Nat
    /\ consecutive_failures \in 0..FailureThreshold
    /\ running \subseteq Callers
    /\ admin \in Nat
    /\ probes \subseteq running
    /\ streak \in 0..SuccessThreshold
    /\ closedBy \in {"breaker", "operator"}

\* A recovering service is spared: while the circuit tests it, the calls in
\* flight that this window admitted never exceed half_open_max_calls, however
\* the windows, late results, cancellations and resets before it overlapped.
ProbesBounded ==
    /\ Cardinality(probes) <= HalfOpenMaxCalls
    /\ probes # {} => state = "half_open"

\* A closed circuit has not been failing: as many consecutive failures as
\* failure_threshold are never seen under it, except when an operator forced
\* it closed, even when the failures belong to calls of an earlier period.
ClosedIsHealthy ==
    state = "closed" /\ closedBy # "operator" => consecutive_failures < FailureThreshold

\* B4 (tests/unit/test_audit_stage1_cb_dataset.py): short of an operator, the
\* circuit closes only on the last of success_threshold successes with neither
\* a failure nor a state change among them.
EarnedClose ==
    [][state = "half_open" /\ state' = "closed" /\ admin' = admin =>
          streak + 1 >= SuccessThreshold /\ consecutive_failures' = 0]_breakerVars

\* Once the service has returned for good the circuit closes, unless a probe of
\* the half-open window was cancelled: admissions, late results, operators and
\* expired timeouts in any order leave no other way to stay out of service.
Recovers == up ~> state = "closed" \/ lost

\* The inductive invariant behind ProbesBounded, ClosedIsHealthy, EarnedClose.
BreakerInv ==
    /\ BreakerTypeOK
    /\ Cardinality(probes) <= half_open_calls
    /\ half_open_calls <= HalfOpenMaxCalls
    /\ state # "half_open" => half_open_calls = 0 /\ half_open_successes = 0
    /\ half_open_successes <= streak
    /\ half_open_successes < SuccessThreshold
    /\ ClosedIsHealthy
=============================================================================
