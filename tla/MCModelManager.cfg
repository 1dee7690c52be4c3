\* Three models, two of which fit; the event loop uses them all, a job thread
\* one of them.  One failure opens a breaker for one tick.
CONSTANTS
    Threads = {t1, t2}
    JobThreads = {t2}
    Keys = {k1, k2, k3}
    JobKeys = {k2}
    NoKey = NoKey
    WarmKeys = {k1}
    MaxCached = 2
    FailureThreshold = 1
    RecoveryTimeout = 1
SPECIFICATION FairSpec
ACTION_CONSTRAINT Callers
INVARIANTS CacheIsMostRecent OneBreakerPerKey
PROPERTIES BecomesReady CallsReturn
