\* Three threads on one breaker, two failures to open it, two ticks to
\* recover: stragglers of every kind exist, and every interleaving is covered.
CONSTANTS
    Callers = {c1, c2, c3}
    FailureThreshold = 2
    RecoveryTimeout = 2
SPECIFICATION FairSpec
INVARIANTS BreakerInv NeverRejectsWithoutCause
PROPERTIES BackoffRespected EventuallyWilling RecoversWhenHealthy
