----------------------------- MODULE ModelManager -----------------------------
(***************************************************************************)
(* ModelManager (src/visionforge/models/manager.py) over ModelRegistry     *)
(* (models/registry.py), called by any number of threads.                  *)
(*                                                                         *)
(* A key is a valid "backend:task" pair.  _lock protects _cache and        *)
(* _breakers, but one infer takes it up to three times: to look for the    *)
(* backend, to insert the one it loaded outside the lock, and to fetch its *)
(* breaker.  Evictions by other threads and a shutdown come in between.    *)
(*                                                                         *)
(* Breakers have identity: a thread goes on calling through the object it  *)
(* fetched after the dictionary has dropped it.  `object` is the heap; the *)
(* id of a breaker is its key and a number.  A load, with all its retries, *)
(* ends in success or in an exception: the attempts touch nothing that is  *)
(* modelled here.                                                          *)
(***************************************************************************)
EXTENDS Breaker, Sequences, FiniteSets, Functions

CONSTANTS
    Threads,    \* the event loop, the job threads, the warmup thread
    Keys,       \* "backend:task" for the pairs that resolve accepts
    NoKey,      \* the key of a thread that works on none
    WarmKeys,   \* the keys of warmup's tasks, each with its default backend
    MaxCached   \* max_cached, 4 by default

ASSUME ManagerAssumption ==
    /\ IsFiniteSet(Threads) /\ IsFiniteSet(Keys)
    /\ NoKey \notin Keys
    /\ WarmKeys \subseteq Keys
    /\ MaxCached \in Nat

VARIABLES
    cache,      \* _cache: its keys, least recently used first
    breakers,   \* _breakers: the number of each key's breaker, 0 where absent
    object,     \* the CircuitBreaker objects that something refers to
    built,      \* the registry's own _cache: the keys whose backend exists
    warmed,     \* _warmed, as keys
    pc,         \* where each thread is
    op,         \* the method it is in
    key,        \* the key it works on
    held,       \* the number of the breaker it fetched for it, 0 when none
    overtaken,  \* history: threads whose breaker was dropped after they fetched it
    recency     \* history: keys in the order of their last use

vars == <<cache, breakers, object, built, warmed, pc, op, key, held, overtaken, recency>>

\* Enough for every reference to a key's breakers there can be at once.
Numbers == 1..(Cardinality(Threads) + 1)

Init ==
    /\ cache = <<>>
    /\ breakers = [k \in Keys |-> 0]
    /\ object = <<>>
    /\ built = {}
    /\ warmed = {}
    /\ pc = [t \in Threads |-> "idle"]
    /\ op = [t \in Threads |-> "infer"]
    /\ key = [t \in Threads |-> NoKey]
    /\ held = [t \in Threads |-> 0]
    /\ overtaken = {}
    /\ recency = <<>>
-------------------------------------------------------------------------------
Cached == Range(cache)

\* Mutant: a hit does not count as a use.
KeepPlace(s, k) == IF k \in Range(s) THEN s ELSE Append(s, k)

Without(s, k) ==
    IF k \in Range(s)
    THEN LET i == CHOOSE n \in DOMAIN s : s[n] = k
         IN  SubSeq(s, 1, i - 1) \o SubSeq(s, i + 1, Len(s))
    ELSE s

MoveToEnd(s, k) == Append(Without(s, k), k)

\* The breakers that the dictionary or a thread refers to.
Referred(brs, hld) ==
    {<<k, brs[k]>> : k \in {j \in Keys : brs[j] # 0}}
        \cup {<<key[t], hld[t]>> : t \in {u \in Threads : hld[u] # 0}}

\* CircuitBreaker(): a number not in use.
Fresh(k) == CHOOSE n \in Numbers : <<k, n>> \notin Referred(breakers, held)

\* Mutant: an assignment where the code has setdefault.
Overwrite(k) == [breakers EXCEPT ![k] = Fresh(k)]

\* _breakers.setdefault(k, CircuitBreaker()).
SetDefault(k) == IF breakers[k] = 0 THEN Overwrite(k) ELSE breakers

\* The heap under new references: objects new, kept or collected.
Heap(brs, hld) ==
    [i \in Referred(brs, hld) |-> IF i \in DOMAIN object THEN object[i] ELSE NewBreaker]

\* Breakers may leave the dictionary while a thread is calling through them.
Overtaken(dropped) == overtaken \cup {t \in Threads : held[t] # 0 /\ key[t] \in dropped}

\* A thread returns to its caller, or raises into it.
Return(t) ==
    /\ pc' = [pc EXCEPT ![t] = "idle"]
    /\ op' = [op EXCEPT ![t] = "infer"]
    /\ key' = [key EXCEPT ![t] = NoKey]
    /\ held' = [held EXCEPT ![t] = 0]
    /\ overtaken' = overtaken \ {t}

Enter(t, method, k, place) ==
    /\ pc' = [pc EXCEPT ![t] = place]
    /\ op' = [op EXCEPT ![t] = method]
    /\ key' = [key EXCEPT ![t] = k]
-------------------------------------------------------------------------------
\* infer or warmup enters get_backend, which finds the key ...
Hit(t, method, k) ==
    /\ pc[t] = "idle"
    /\ k \in Cached
    /\ cache' = MoveToEnd(cache, k)
    /\ recency' = Append(Without(recency, k), k)
    /\ Enter(t, method, k, "loaded")
    /\ UNCHANGED <<breakers, object, built, warmed, held, overtaken>>

\* ... or does not, and gets the object from the registry, which builds it
\* once and keeps it for good.
Miss(t, method, k) ==
    /\ pc[t] = "idle"
    /\ k \notin Cached
    /\ built' = built \cup {k}
    /\ Enter(t, method, k, "loading")
    /\ UNCHANGED <<cache, breakers, object, warmed, held, overtaken, recency>>

\* The last attempt raised: through infer to its caller, or into warmup's
\* outer handler.
LoadRaises(t) ==
    /\ pc[t] = "loading"
    /\ Return(t)
    /\ UNCHANGED <<cache, breakers, object, built, warmed, recency>>

\* _evict_if_needed: popitem(last=False) while there are too many.
Evict(entries) ==
    LET over == IF Len(entries) > MaxCached THEN Len(entries) - MaxCached ELSE 0
    IN  [kept |-> SubSeq(entries, over + 1, Len(entries)),
         out |-> Range(SubSeq(entries, 1, over))]

\* Mutant: the backend is cached, its breaker left to the first infer.
LoadedWithoutBreaker(t) ==
    LET k == key[t]
        after == Evict(MoveToEnd(cache, k))
    IN  /\ pc[t] = "loading"
        /\ cache' = after.kept
        /\ breakers' = [j \in Keys |-> IF j \in after.out THEN 0 ELSE breakers[j]]
        /\ object' = Heap(breakers', held)
        /\ overtaken' = Overtaken(after.out)
        /\ recency' = Append(Without(recency, k), k)
        /\ pc' = [pc EXCEPT ![t] = "loaded"]
        /\ UNCHANGED <<built, warmed, op, key, held>>

\* get_backend, its second locked block: insert, move to the end, make a
\* breaker if the key has none, evict.  Another thread may have inserted
\* the same key since the miss.
Loaded(t) ==
    LET k == key[t]
        after == Evict(MoveToEnd(cache, k))
    IN  /\ pc[t] = "loading"
        /\ cache' = after.kept
        /\ breakers' = [j \in Keys |-> IF j \in after.out THEN 0 ELSE SetDefault(k)[j]]
        /\ object' = Heap(breakers', held)
        /\ overtaken' = Overtaken(after.out)
        /\ recency' = Append(Without(recency, k), k)
        /\ pc' = [pc EXCEPT ![t] = "loaded"]
        /\ UNCHANGED <<built, warmed, op, key, held>>

\* warmup calls the backend itself, with no breaker, ignores what it raises,
\* and notes the task, without the lock.
Warm(t) ==
    /\ pc[t] = "loaded"
    /\ op[t] = "warmup"
    /\ warmed' = warmed \cup {key[t]}
    /\ Return(t)
    /\ UNCHANGED <<cache, breakers, object, built, recency>>

\* infer fetches the breaker, or makes one if the key has lost its own: an
\* eviction since get_backend leaves a breaker whose backend is not cached.
Fetch(t) ==
    /\ pc[t] = "loaded"
    /\ op[t] = "infer"
    /\ breakers' = SetDefault(key[t])
    /\ held' = [held EXCEPT ![t] = breakers'[key[t]]]
    /\ object' = Heap(breakers', held')
    /\ pc' = [pc EXCEPT ![t] = "fetched"]
    /\ UNCHANGED <<cache, built, warmed, op, key, overtaken, recency>>

\* The breaker the thread calls through.
Mine(t) == <<key[t], held[t]>>

\* breaker.call: allow() ...
Admit(t) ==
    /\ pc[t] = "fetched"
    /\ Allowed(object[Mine(t)])
    /\ object' = [object EXCEPT ![Mine(t)] = MaybeHalfOpen(@)]
    /\ pc' = [pc EXCEPT ![t] = "inferring"]
    /\ UNCHANGED <<cache, breakers, built, warmed, op, key, held, overtaken, recency>>

\* Mutant: a rejected call waits for the breaker to open up.
RejectWaits(t) ==
    /\ pc[t] = "fetched"
    /\ ~Allowed(object[Mine(t)])
    /\ pc' = [pc EXCEPT ![t] = "loaded"]
    /\ held' = [held EXCEPT ![t] = 0]
    /\ object' = Heap(breakers, held')
    /\ overtaken' = overtaken \ {t}
    /\ UNCHANGED <<cache, breakers, built, warmed, op, key, recency>>

\* ... which says no, so that CircuitBreakerError goes to the caller ...
Reject(t) ==
    /\ pc[t] = "fetched"
    /\ ~Allowed(object[Mine(t)])
    /\ Return(t)
    /\ object' = Heap(breakers, held')
    /\ UNCHANGED <<cache, breakers, built, warmed, recency>>

\* ... or the backend's own infer, which returns or raises.
Answer(t, Record(_)) ==
    /\ pc[t] = "inferring"
    /\ Return(t)
    /\ object' = [i \in Referred(breakers, held') |->
                    IF i = Mine(t) THEN Record(object[i]) ELSE object[i]]
    /\ UNCHANGED <<cache, breakers, built, warmed, recency>>

Succeed(t) == Answer(t, RecordSuccess)
Fail(t) == Answer(t, RecordFailure)

\* is_ready: with something cached it asks the breakers in turn and stops at
\* the first that says yes, the only one asking can change.
Willing(k) == breakers[k] # 0 /\ Allowed(object[<<k, breakers[k]>>])
Ready == cache # <<>> /\ \E k \in Keys : Willing(k)

IsReady ==
    /\ cache # <<>>
    /\ \E k \in Keys :
        /\ Willing(k)
        /\ object' = [object EXCEPT ![<<k, breakers[k]>>] = MaybeHalfOpen(@)]
    /\ UNCHANGED <<cache, breakers, built, warmed, pc, op, key, held, overtaken, recency>>

\* The registry keeps its objects; threads in the middle of a call go on.
Shutdown ==
    /\ cache' = <<>>
    /\ breakers' = [k \in Keys |-> 0]
    /\ object' = Heap(breakers', held)
    /\ warmed' = {}
    /\ overtaken' = Overtaken(Keys)
    /\ recency' = <<>>
    /\ UNCHANGED <<built, pc, op, key, held>>

Tick ==
    /\ object' = [i \in DOMAIN object |-> Aged(object[i])]
    /\ UNCHANGED <<cache, breakers, built, warmed, pc, op, key, held, overtaken, recency>>

\* What a thread that has entered a method does next.
Advance(t) ==
    LoadRaises(t) \/ Loaded(t) \/ Warm(t) \/ Fetch(t) \/ Admit(t) \/ Reject(t)
        \/ Succeed(t) \/ Fail(t)

Next ==
    \/ \E t \in Threads, k \in Keys : Hit(t, "infer", k) \/ Miss(t, "infer", k)
    \/ \E t \in Threads, k \in WarmKeys : Hit(t, "warmup", k) \/ Miss(t, "warmup", k)
    \/ \E t \in Threads : Advance(t)
    \/ IsReady
    \/ Shutdown
    \/ Tick

Spec == Init /\ [][Next]_vars

\* Threads run, loads and inferences end, and time passes.  Nobody has to
\* call, to shut down, or to ask for readiness.
FairSpec == Spec /\ WF_vars(Tick) /\ \A t \in Threads : WF_vars(Advance(t))
-------------------------------------------------------------------------------
TypeOK ==
    /\ cache \in Seq(Keys)
    /\ breakers \in [Keys -> Numbers \cup {0}]
    /\ object \in [Referred(breakers, held) -> CircuitBreaker]
    /\ built \subseteq Keys
    /\ warmed \subseteq WarmKeys
    /\ pc \in [Threads -> {"idle", "loading", "loaded", "fetched", "inferring"}]
    /\ op \in [Threads -> {"infer", "warmup"}]
    /\ key \in [Threads -> Keys \cup {NoKey}]
    /\ held \in [Threads -> Numbers \cup {0}]
    /\ overtaken \subseteq Threads
    /\ recency \in Seq(Keys)

\* The cache is exactly the max_cached most recently used keys, and no key
\* is in it twice, although two threads may load one key at the same time.
CacheIsMostRecent ==
    LET n == IF Len(recency) < MaxCached THEN Len(recency) ELSE MaxCached
    IN  cache = SubSeq(recency, Len(recency) - n + 1, Len(recency))

\* One breaker per backend (manager.py, its second promise): a thread that is
\* between fetching a breaker and recording its outcome holds the very object
\* later callers of the key get, unless an eviction or a shutdown has dropped
\* it since, and then it does not hold the registered one.
OneBreakerPerKey ==
    \A t \in Threads : held[t] # 0 =>
        (t \in overtaken <=> breakers[key[t]] # held[t])

\* A service with a model loaded does not stay unready: every breaker gives
\* its backend another chance.
BecomesReady == cache # <<>> ~> (Ready \/ cache = <<>>)

\* Every call comes back, whatever the others do to the dictionaries.
CallsReturn == \A t \in Threads : pc[t] # "idle" ~> pc[t] = "idle"
===============================================================================
