---------------------------- MODULE CircuitBreaker ----------------------------
(***************************************************************************)
(* Threads that call one dependency through one shared CircuitBreaker.     *)
(* CircuitBreaker.call is three steps: allow() under the lock, func        *)
(* outside it, record_success() or record_failure() under the lock again.  *)
(* Any number of threads may be between the first step and the last.       *)
(***************************************************************************)
EXTENDS Breaker

CONSTANT Callers        \* the threads that share the breaker

VARIABLES
    breaker,    \* the object
    running,    \* callers whose func is running, allow() behind them
    streak,     \* history: failures recorded since the last success
    quiet,      \* history: time since a failure was last recorded
    healthy     \* the dependency: does a call that ends now succeed

vars == <<breaker, running, streak, quiet, healthy>>

Init ==
    /\ breaker = NewBreaker
    /\ running = {}
    /\ streak = 0
    /\ quiet = RecoveryTimeout
    /\ healthy \in BOOLEAN

\* call, its guard: allow() says yes and func starts.
Admit(c) ==
    /\ c \notin running
    /\ Allowed(breaker)
    /\ breaker' = MaybeHalfOpen(breaker)
    /\ running' = running \cup {c}
    /\ UNCHANGED <<streak, quiet, healthy>>

\* Mutant: a rejected call counts as one more failure to wait out.
RejectRestartsClock(c) ==
    /\ c \notin running
    /\ ~Allowed(breaker)
    /\ breaker' = [breaker EXCEPT !.openFor = 0]
    /\ UNCHANGED <<running, streak, quiet, healthy>>

\* call, its guard: allow() says no and CircuitBreakerError is raised.
Reject(c) ==
    /\ c \notin running
    /\ ~Allowed(breaker)
    /\ breaker' = MaybeHalfOpen(breaker)
    /\ UNCHANGED <<running, streak, quiet, healthy>>

\* func returned.
Succeed(c) ==
    /\ c \in running
    /\ healthy
    /\ breaker' = RecordSuccess(breaker)
    /\ running' = running \ {c}
    /\ streak' = 0
    /\ UNCHANGED <<quiet, healthy>>

\* func raised; the exception goes on to the caller.
Fail(c) ==
    /\ c \in running
    /\ ~healthy
    /\ breaker' = RecordFailure(breaker)
    /\ running' = running \ {c}
    /\ streak' = Saturate(streak, FailureThreshold)
    /\ quiet' = 0
    /\ UNCHANGED healthy

\* The `state` property, or an allow() outside any call
\* (ModelManager.is_ready): it may half-open the breaker and calls nothing.
Probe ==
    /\ breaker' = MaybeHalfOpen(breaker)
    /\ UNCHANGED <<running, streak, quiet, healthy>>

Tick ==
    /\ breaker' = Aged(breaker)
    /\ quiet' = Saturate(quiet, RecoveryTimeout)
    /\ UNCHANGED <<running, streak, healthy>>

\* The dependency breaks or recovers.
Flip ==
    /\ healthy' = ~healthy
    /\ UNCHANGED <<breaker, running, streak, quiet>>

Next ==
    \/ \E c \in Callers : Admit(c) \/ Reject(c) \/ Succeed(c) \/ Fail(c)
    \/ Probe
    \/ Tick
    \/ Flip

Spec == Init /\ [][Next]_vars

\* Time passes, and a func that has started ends.  Nobody is obliged to
\* call: the liveness property that needs callers says so itself.
Fairness ==
    /\ WF_vars(Tick)
    /\ \A c \in Callers : WF_vars(Succeed(c) \/ Fail(c))

FairSpec == Spec /\ Fairness
-------------------------------------------------------------------------------
TypeOK ==
    /\ breaker \in CircuitBreaker
    /\ running \subseteq Callers
    /\ streak \in 0..FailureThreshold
    /\ quiet \in 0..RecoveryTimeout
    /\ healthy \in BOOLEAN

\* The inductive invariant.  The counter is the streak of failures; outside
\* "closed" that streak has reached the threshold, inside it has not; and
\* _opened_at is the time of the LAST failure, stragglers included.
BreakerInv ==
    /\ breaker.failures = streak
    /\ breaker.state = "closed" <=> streak < FailureThreshold
    /\ breaker.state = "open" => breaker.openFor = quiet
    /\ breaker.state = "half_open" => quiet = RecoveryTimeout

\* What the breaker is for, as a caller sees it: a call is let through only
\* while fewer than failure_threshold failures have been recorded since the
\* last success, or when recovery_timeout has passed since the last failure
\* anyone recorded, whichever callers were in flight and in whatever order
\* they came back.
BackoffRespected ==
    [][\A c \in Callers : c \in running' \ running =>
            streak < FailureThreshold \/ quiet = RecoveryTimeout]_vars

\* The converse: a caller is turned away only after a streak of
\* failure_threshold failures, the last of them less than recovery_timeout
\* ago.  A healthy dependency is never cut off by a stale failure count.
NeverRejectsWithoutCause ==
    ~Allowed(breaker) => streak = FailureThreshold /\ quiet < RecoveryTimeout

\* An open breaker does not stay shut: failures of calls that were let
\* through before it opened postpone the deadline, but there are finitely
\* many of those.
EventuallyWilling == breaker.state = "open" ~> Allowed(breaker)

\* Once the dependency has recovered for good and somebody keeps getting
\* through, the breaker closes for good.
RecoversWhenHealthy ==
    (<>[]healthy /\ []<><<\E c \in Callers : Admit(c)>>_vars)
        => <>[](breaker.state = "closed")
===============================================================================
