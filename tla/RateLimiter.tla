------------------------------ MODULE RateLimiter ------------------------------
(***************************************************************************)
(* TokenBucketRateLimiter (src/visionforge/security/ratelimit.py), called  *)
(* by threads with cost 1, as require_api_key (api/deps.py) calls it.      *)
(*                                                                         *)
(* check takes two locks one after the other: the global one to find or    *)
(* make the bucket, then the bucket's own to draw from it.  A reset in     *)
(* between leaves it drawing from a bucket nobody else will find, so       *)
(* buckets have identity, as a number per key.                             *)
(*                                                                         *)
(* A token is Minute units and a clock tick the Minute'th part of a minute,*)
(* so that a bucket of rate r holds r * Minute units and gains r a tick:   *)
(* the code's fractions without fractions.  The time since a bucket's last *)
(* draw saturates at Minute, which fills any bucket.  What a client is     *)
(* told to wait is rounded to a hundredth of a second, Grain ticks.        *)
(***************************************************************************)
EXTENDS Integers, FiniteSets

CONSTANTS
    Threads,
    Keys,           \* "key:<id>:<name>" or "ip:<host>"
    Minute,         \* 60 s
    Grain,          \* 10 ms; coarser in the runs
    Rates,          \* rates per minute a caller may pass; 0 means the default
    DefaultRate     \* self.rate_per_min

ASSUME RateAssumption ==
    /\ IsFiniteSet(Threads)
    /\ Minute \in Nat \ {0}
    /\ Grain \in Nat \ {0}
    /\ Rates \subseteq Nat
    /\ DefaultRate \in Nat \ {0}

VARIABLES
    buckets,    \* _buckets: the number of each key's bucket, 0 where absent
    bucket,     \* the _Bucket objects that something refers to
    key,        \* the key each thread is checking, NoKey between checks
    held,       \* the bucket it was given
    hits,       \* history: for each w, the calls allowed in this tick and the w before it
    wait        \* history: half ticks until the last retry_after and half a Grain
                \* more are over, NoWait once allowed

vars == <<buckets, bucket, key, held, hits, wait>>

NoKey == "none"
NoWait == -1

Effective(rate) == IF rate = 0 THEN DefaultRate ELSE rate

\* In units.
Capacity(b) == b.rate * Minute
Cost == Minute

Bucket ==
    {b \in [tokens : Nat, idle : 0..Minute, rate : {Effective(r) : r \in Rates}] :
        b.tokens <= Capacity(b)}

Smaller(m, n) == IF m < n THEN m ELSE n

NewBucket(rate) == [tokens |-> rate * Minute, idle |-> 0, rate |-> rate]

\* Mutant: whole tokens only, the fraction lost.
CreditWholeTokens(b) ==
    Smaller(Capacity(b), b.tokens + Cost * ((b.idle * b.rate) \div Cost))

\* min(capacity, tokens + elapsed * refill_per_sec).
Credit(b) == Smaller(Capacity(b), b.tokens + b.idle * b.rate)

Init ==
    /\ buckets = [k \in Keys |-> 0]
    /\ bucket = << >>
    /\ key = [t \in Threads |-> NoKey]
    /\ held = [t \in Threads |-> 0]
    /\ hits = [k \in Keys |-> [w \in 0..Minute |-> 0]]
    /\ wait = [k \in Keys |-> NoWait]
-------------------------------------------------------------------------------
Numbers == 1..(Cardinality(Threads) + 1)

Referred(bks, hld) ==
    {<<k, bks[k]>> : k \in {j \in Keys : bks[j] # 0}}
        \cup {<<key[t], hld[t]>> : t \in {u \in Threads : hld[u] # 0}}

Fresh(k) == CHOOSE n \in Numbers : <<k, n>> \notin Referred(buckets, held)

\* Mutant: the look-up and the insertion are not one locked step, and the
\* later insertion wins.
GetBucketAnew(t, k, rate) ==
    /\ held[t] = 0
    /\ buckets' = [buckets EXCEPT ![k] = Fresh(k)]
    /\ held' = [held EXCEPT ![t] = buckets'[k]]
    /\ key' = [key EXCEPT ![t] = k]
    /\ bucket' = [i \in DOMAIN bucket \cup {<<k, buckets'[k]>>} |->
                    IF i \in DOMAIN bucket THEN bucket[i] ELSE NewBucket(Effective(rate))]
    /\ UNCHANGED <<hits, wait>>

\* _get_bucket: the rate of the first caller is the bucket's for life.
GetBucket(t, k, rate) ==
    /\ held[t] = 0
    /\ buckets' = IF buckets[k] = 0 THEN [buckets EXCEPT ![k] = Fresh(k)] ELSE buckets
    /\ held' = [held EXCEPT ![t] = buckets'[k]]
    /\ key' = [key EXCEPT ![t] = k]
    /\ bucket' = [i \in DOMAIN bucket \cup {<<k, buckets'[k]>>} |->
                    IF i \in DOMAIN bucket THEN bucket[i] ELSE NewBucket(Effective(rate))]
    /\ UNCHANGED <<hits, wait>>

Mine(t) == <<key[t], held[t]>>

\* A check returns; its bucket may have been kept alive by it alone.
Return(t, drawn) ==
    /\ key' = [key EXCEPT ![t] = NoKey]
    /\ held' = [held EXCEPT ![t] = 0]
    /\ bucket' = [i \in Referred(buckets, held') |->
                    IF i = Mine(t) THEN drawn ELSE bucket[i]]

\* Calls that draw from a bucket a reset has dropped leave no history.
Registered(t) == buckets[key[t]] = held[t]

\* check, its locked half: credit the time gone by and draw one token ...
Allow(t) ==
    LET b == bucket[Mine(t)]
    IN  /\ held[t] # 0
        /\ Credit(b) >= Cost
        /\ Return(t, [b EXCEPT !.tokens = Credit(b) - Cost, !.idle = 0])
        /\ IF Registered(t)
           THEN /\ hits' = [hits EXCEPT ![key[t]] = [w \in 0..Minute |-> @[w] + 1]]
                /\ wait' = [wait EXCEPT ![key[t]] = NoWait]
           ELSE UNCHANGED <<hits, wait>>
        /\ UNCHANGED buckets

\* The waits a client can be told, and the units that come in during one beyond
\* (if below zero, short of) those that are needed.
Grains == {Grain * m : m \in 0..Minute}
Over(b, told) == told * b.rate - (Cost - Credit(b))

\* Mutant: the wait cut off, not rounded.
RetryAfterFloor(b) == {told \in Grains : Over(b, told) \in (-(Grain * b.rate) + 1)..0}

\* round(needed / refill_per_sec, 2): the nearest Grain, above or below; of two
\* that are equally near it may be either, as the floating point has it.
RetryAfter(b) == {told \in Grains :
    -(Grain * b.rate) <= 2 * Over(b, told) /\ 2 * Over(b, told) <= Grain * b.rate}

\* The client is told how long to wait: the countdown begins.
Tell(t, b) ==
    IF Registered(t)
    THEN \E told \in RetryAfter(b) : wait' = [wait EXCEPT ![key[t]] = 2 * told + Grain]
    ELSE UNCHANGED wait

\* Mutant: the turned-away call pays as well.
DenyCharges(t) ==
    LET b == bucket[Mine(t)]
    IN  /\ held[t] # 0
        /\ Credit(b) < Cost
        /\ Return(t, [b EXCEPT !.tokens = 0, !.idle = 0])
        /\ Tell(t, b)
        /\ UNCHANGED <<buckets, hits>>

\* ... or say how long to wait.
Deny(t) ==
    LET b == bucket[Mine(t)]
    IN  /\ held[t] # 0
        /\ Credit(b) < Cost
        /\ Return(t, [b EXCEPT !.tokens = Credit(b), !.idle = 0])
        /\ Tell(t, b)
        /\ UNCHANGED <<buckets, hits>>

\* reset of one key, clear of them all.
Reset(ks) ==
    /\ buckets' = [k \in Keys |-> IF k \in ks THEN 0 ELSE buckets[k]]
    /\ bucket' = [i \in Referred(buckets', held) |-> bucket[i]]
    /\ hits' = [k \in Keys |-> IF k \in ks THEN [w \in 0..Minute |-> 0] ELSE hits[k]]
    /\ wait' = [k \in Keys |-> IF k \in ks THEN NoWait ELSE wait[k]]
    /\ UNCHANGED <<key, held>>

Tick ==
    /\ bucket' = [i \in DOMAIN bucket |-> [bucket[i] EXCEPT !.idle = Smaller(@ + 1, Minute)]]
    /\ hits' = [k \in Keys |-> [w \in 0..Minute |-> IF w = 0 THEN 0 ELSE hits[k][w - 1]]]
    /\ wait' = [k \in Keys |-> IF wait[k] = NoWait THEN NoWait
                             ELSE IF wait[k] < 2 THEN 0 ELSE wait[k] - 2]
    /\ UNCHANGED <<buckets, key, held>>

Next ==
    \/ \E t \in Threads, k \in Keys, rate \in Rates : GetBucket(t, k, rate)
    \/ \E t \in Threads : Allow(t) \/ Deny(t)
    \/ \E k \in Keys : Reset({k})
    \/ Reset(Keys)
    \/ Tick

Spec == Init /\ [][Next]_vars

\* Time passes and a check that has begun ends.
FairSpec == Spec /\ WF_vars(Tick) /\ \A t \in Threads : WF_vars(Allow(t) \/ Deny(t))
-------------------------------------------------------------------------------
TypeOK ==
    /\ buckets \in [Keys -> Numbers \cup {0}]
    /\ DOMAIN bucket = Referred(buckets, held)
    /\ \A i \in DOMAIN bucket : bucket[i] \in Bucket
    /\ key \in [Threads -> Keys \cup {NoKey}]
    /\ held \in [Threads -> Numbers \cup {0}]
    /\ hits \in [Keys -> [0..Minute -> Nat]]
    /\ wait \in [Keys -> Nat \cup {NoWait}]

Current(k) == bucket[<<k, buckets[k]>>]

\* The limit: however calls interleave, any stretch of w ticks lets through at
\* most a full bucket and what comes in during it.  In particular never more
\* than two minutes' worth in any one minute.
NeverTooMany ==
    \A k \in Keys : buckets[k] # 0 =>
        \A w \in 0..Minute :
            hits[k][w] * Cost <= Capacity(Current(k)) + w * Current(k).rate

\* The other side: a key is turned away only when its own calls of the last
\* minute have used up a minute's worth: being turned away, however often,
\* costs nothing.
NeverTooFew ==
    \A k \in Keys : buckets[k] # 0 /\ Credit(Current(k)) < Cost =>
        hits[k][Minute - 1] >= Current(k).rate

\* retry_after is right to half a Grain, either way.  As long as nobody has been
\* let through since, the key is short of a token until half a Grain before the
\* time it was told is up, and is no longer short half a Grain after it.  (Not:
\* when it is up.  A wait that was rounded down sends a client back too early.)
RetryAfterClose ==
    \A k \in Keys : buckets[k] # 0 /\ wait[k] # NoWait =>
        /\ wait[k] > 2 * Grain => Credit(Current(k)) < Cost
        /\ wait[k] = 0 => Credit(Current(k)) >= Cost

\* Clients that keep trying, however often, are let through again and again.
NobodyStarves ==
    \A k \in Keys :
        []<><<\E t \in Threads : key[t] = k /\ (Allow(t) \/ Deny(t))>>_vars
            => []<><<\E t \in Threads : key[t] = k /\ Allow(t)>>_vars
===============================================================================
