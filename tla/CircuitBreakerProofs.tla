------------------------- MODULE CircuitBreakerProofs -------------------------
(***************************************************************************)
(* CircuitBreaker for every set of callers, threshold and timeout: types,  *)
(* the inductive invariant, and the two promises that follow from it.      *)
(***************************************************************************)
EXTENDS CircuitBreaker, TLAPS

\* Counting up to a limit stays within it.
LEMMA SaturateBounded ==
    ASSUME NEW limit \in Nat, NEW n \in 0..limit
    PROVE  Saturate(n, limit) \in 0..limit
BY DEF Saturate

\* The methods of the object return objects of the class.
LEMMA MethodsTyped ==
    ASSUME NEW b \in CircuitBreaker
    PROVE  /\ MaybeHalfOpen(b) \in CircuitBreaker
           /\ RecordSuccess(b) \in CircuitBreaker
           /\ RecordFailure(b) \in CircuitBreaker
           /\ Aged(b) \in CircuitBreaker
<1> USE ThresholdAssumption, TimeoutAssumption DEF CircuitBreaker, CircuitState
<1>1. MaybeHalfOpen(b) \in CircuitBreaker
  BY DEF MaybeHalfOpen
<1>2. RecordSuccess(b) \in CircuitBreaker
  BY DEF RecordSuccess
<1>3. RecordFailure(b) \in CircuitBreaker
  BY DEF RecordFailure, Saturate
<1>4. Aged(b) \in CircuitBreaker
  BY DEF Aged, Saturate
<1> QED
  BY <1>1, <1>2, <1>3, <1>4

\* Type correctness: the object, the callers in flight and the histories
\* keep their types whatever the callers do.
THEOREM TypeCorrect == Spec => []TypeOK
<1>1. Init => TypeOK
  BY ThresholdAssumption, TimeoutAssumption
  DEF Init, TypeOK, NewBreaker, CircuitBreaker, CircuitState
<1>2. TypeOK /\ [Next]_vars => TypeOK'
  <2> SUFFICES ASSUME TypeOK, [Next]_vars
               PROVE  TypeOK'
    OBVIOUS
  <2> USE ThresholdAssumption, TimeoutAssumption, SaturateBounded, MethodsTyped DEF TypeOK
  <2>1. ASSUME NEW c \in Callers, Admit(c)
        PROVE  TypeOK'
    BY <2>1 DEF Admit
  <2>2. ASSUME NEW c \in Callers, Reject(c)
        PROVE  TypeOK'
    BY <2>2 DEF Reject
  <2>3. ASSUME NEW c \in Callers, Succeed(c)
        PROVE  TypeOK'
    BY <2>3 DEF Succeed
  <2>4. ASSUME NEW c \in Callers, Fail(c)
        PROVE  TypeOK'
    BY <2>4 DEF Fail
  <2>5. CASE Probe
    BY <2>5 DEF Probe
  <2>6. CASE Tick
    BY <2>6 DEF Tick
  <2>7. CASE Flip
    BY <2>7 DEF Flip
  <2>8. CASE UNCHANGED vars
    BY <2>8 DEF vars
  <2> QED
    BY <2>1, <2>2, <2>3, <2>4, <2>5, <2>6, <2>7, <2>8 DEF Next
<1> QED
  BY <1>1, <1>2, PTL DEF Spec

\* The inductive invariant: the failure counter is the streak of failures
\* the callers saw, it decides the state, and _opened_at is the time of the
\* last failure even when stragglers report after the circuit has opened.
THEOREM BreakerInvariant == Spec => []BreakerInv
<1>1. Init => BreakerInv
  BY ThresholdAssumption, TimeoutAssumption DEF Init, BreakerInv, NewBreaker
<1>2. TypeOK /\ BreakerInv /\ [Next]_vars => BreakerInv'
  <2> SUFFICES ASSUME TypeOK, BreakerInv, [Next]_vars
               PROVE  BreakerInv'
    OBVIOUS
  <2> USE ThresholdAssumption, TimeoutAssumption
      DEF TypeOK, BreakerInv, CircuitBreaker, CircuitState
  <2>1. ASSUME breaker' = MaybeHalfOpen(breaker), UNCHANGED <<streak, quiet>>
        PROVE  BreakerInv'
    BY <2>1 DEF MaybeHalfOpen
  <2>2. ASSUME NEW c \in Callers, Admit(c) \/ Reject(c)
        PROVE  BreakerInv'
    BY <2>1, <2>2 DEF Admit, Reject
  <2>3. ASSUME NEW c \in Callers, Succeed(c)
        PROVE  BreakerInv'
    BY <2>3 DEF Succeed, RecordSuccess
  <2>4. ASSUME NEW c \in Callers, Fail(c)
        PROVE  BreakerInv'
    BY <2>4 DEF Fail, RecordFailure, Saturate
  <2>5. CASE Probe
    BY <2>1, <2>5 DEF Probe
  <2>6. CASE Tick
    BY <2>6 DEF Tick, Aged, Saturate
  <2>7. CASE Flip
    BY <2>7 DEF Flip
  <2>8. CASE UNCHANGED vars
    BY <2>8 DEF vars
  <2> QED
    BY <2>2, <2>3, <2>4, <2>5, <2>6, <2>7, <2>8 DEF Next
<1> QED
  BY <1>1, <1>2, TypeCorrect, PTL DEF Spec

\* A caller is let through only on a short streak of failures or after a
\* full recovery_timeout without one.
THEOREM Backoff == Spec => BackoffRespected
<1>1. TypeOK /\ BreakerInv /\ [Next]_vars
        => [\A c \in Callers : c \in running' \ running =>
                streak < FailureThreshold \/ quiet = RecoveryTimeout]_vars
  <2> SUFFICES ASSUME TypeOK, BreakerInv, Next,
                      NEW c \in Callers, c \in running' \ running
               PROVE  streak < FailureThreshold \/ quiet = RecoveryTimeout
    OBVIOUS
  <2>1. Admit(c)
    BY DEF Next, Admit, Reject, Succeed, Fail, Probe, Tick, Flip
  <2>2. breaker.state = "closed" \/ breaker.state = "half_open"
          \/ (breaker.state = "open" /\ breaker.openFor >= RecoveryTimeout)
    BY <2>1 DEF Admit, Allowed, MaybeHalfOpen, TypeOK, CircuitBreaker, CircuitState
  <2> QED
    BY <2>2, TimeoutAssumption, ThresholdAssumption DEF BreakerInv, TypeOK, CircuitBreaker
<1> QED
  BY <1>1, TypeCorrect, BreakerInvariant, PTL DEF Spec, BackoffRespected

\* A caller is turned away only while a streak of failure_threshold failures
\* stands whose last one is less than recovery_timeout old.
THEOREM RejectsWithCause == Spec => []NeverRejectsWithoutCause
<1>1. TypeOK /\ BreakerInv => NeverRejectsWithoutCause
  BY ThresholdAssumption, TimeoutAssumption
  DEF TypeOK, BreakerInv, NeverRejectsWithoutCause, Allowed, MaybeHalfOpen,
      CircuitBreaker, CircuitState
<1> QED
  BY <1>1, TypeCorrect, BreakerInvariant, PTL
===============================================================================
