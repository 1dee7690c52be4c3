------------------------------- MODULE Breaker -------------------------------
(***************************************************************************)
(* One object of class CircuitBreaker (src/visionforge/reliability.py) as  *)
(* a value, and its locked methods as operators from value to value.  Each *)
(* method body runs under self._lock, so it is one step of whoever calls   *)
(* it; `call`, which is not, is in the modules that extend this one.       *)
(*                                                                         *)
(* Two exact abstractions keep the object finite.  The code only compares  *)
(* _failures with failure_threshold and the time since _opened_at with     *)
(* recovery_timeout, so `failures` saturates at the threshold, and         *)
(* `openFor`, the time since _opened_at, saturates at the timeout.         *)
(***************************************************************************)
EXTENDS Naturals

CONSTANTS
    FailureThreshold,   \* failure_threshold, 5 by default
    RecoveryTimeout     \* recovery_timeout, 30 s by default, in clock ticks

ASSUME ThresholdAssumption == FailureThreshold \in Nat \ {0}
ASSUME TimeoutAssumption == RecoveryTimeout \in Nat

CircuitState == {"closed", "open", "half_open"}

CircuitBreaker ==
    [state : CircuitState, failures : 0..FailureThreshold, openFor : 0..RecoveryTimeout]

\* Counting up to a limit, the only thing the code tells apart.
Saturate(n, limit) == IF n < limit THEN n + 1 ELSE limit

\* _opened_at starts at 0.0 of a monotonic clock, which is long ago; it is
\* read only while open, after it has been set.
NewBreaker == [state |-> "closed", failures |-> 0, openFor |-> RecoveryTimeout]

MaybeHalfOpen(b) ==
    IF b.state = "open" /\ b.openFor >= RecoveryTimeout
    THEN [b EXCEPT !.state = "half_open"]
    ELSE b

\* allow() first moves an expired open breaker to half-open, then answers.
Allowed(b) == MaybeHalfOpen(b).state \in {"closed", "half_open"}

\* Mutants: a success forgets to reset the count, or to close the circuit.
RecordSuccessKeepsCount(b) == [b EXCEPT !.state = "closed"]
RecordSuccessKeepsState(b) == [b EXCEPT !.failures = 0]

RecordSuccess(b) == [state |-> "closed", failures |-> 0, openFor |-> b.openFor]

\* Mutant: a failure that arrives while the circuit is open leaves
\* _opened_at alone.
RecordFailureKeepsTime(b) ==
    LET n == Saturate(b.failures, FailureThreshold)
    IN  IF b.state = "half_open" \/ (b.state = "closed" /\ n >= FailureThreshold)
        THEN [state |-> "open", failures |-> n, openFor |-> 0]
        ELSE [b EXCEPT !.failures = n]

RecordFailure(b) ==
    LET n == Saturate(b.failures, FailureThreshold)
    IN  IF b.state = "half_open" \/ n >= FailureThreshold
        THEN [state |-> "open", failures |-> n, openFor |-> 0]
        ELSE [b EXCEPT !.failures = n]

\* One tick of time_func.
Aged(b) == [b EXCEPT !.openFor = Saturate(@, RecoveryTimeout)]
==============================================================================
