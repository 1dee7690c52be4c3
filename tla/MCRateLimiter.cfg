\* Two threads on one key (keys share nothing), a minute of three ticks, and
\* rates that give a third, two thirds and four thirds of a token a tick; waits
\* are told in units of two ticks.
CONSTANTS
    Threads = {t1, t2}
    Keys = {k1}
    Minute = 3
    Grain = 2
    Rates = {0, 1, 4}
    DefaultRate = 2
SPECIFICATION FairSpec
INVARIANTS NeverTooMany NeverTooFew RetryAfterClose
PROPERTY NobodyStarves
