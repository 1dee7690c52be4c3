--------------------------- MODULE ModelManagerProofs ---------------------------
(***************************************************************************)
(* Theorems about ModelManager, for any number of threads, any set of keys *)
(* and any size of the cache.                                              *)
(***************************************************************************)
EXTENDS ModelManager, Integers, SequenceTheorems, FiniteSetTheorems, TLAPS

Places == {"idle", "loading", "loaded", "fetched", "inferring"}

\* The part of the state that says who refers to which breaker.
ReferencesOK ==
    /\ breakers \in [Keys -> Numbers \cup {0}]
    /\ held \in [Threads -> Numbers \cup {0}]
    /\ key \in [Threads -> Keys \cup {NoKey}]
    /\ pc \in [Threads -> Places]
    /\ overtaken \subseteq Threads

\* A thread holds a breaker from the fetch to the end of the call.
HoldersOK ==
    /\ \A t \in Threads : held[t] # 0 <=> pc[t] \in {"fetched", "inferring"}
    /\ \A t \in Threads : pc[t] # "idle" => key[t] \in Keys
    /\ \A t \in overtaken : held[t] # 0

ManagerInv == ReferencesOK /\ HoldersOK /\ OneBreakerPerKey

\* There are more numbers than threads, so one is nobody's.
LEMMA SomeNumberIsFree ==
    ASSUME ReferencesOK
    PROVE  \E n \in Numbers : \A t \in Threads : held[t] # n
<1>. SUFFICES ASSUME \A n \in Numbers : \E t \in Threads : held[t] = n PROVE FALSE
  OBVIOUS
<1>. DEFINE holders == {t \in Threads : held[t] \in Numbers}
            f == [t \in holders |-> held[t]]
<1>1. IsFiniteSet(Threads) /\ Cardinality(Threads) \in Nat
  BY ManagerAssumption, FS_CardinalityType
<1>2. IsFiniteSet(holders) /\ Cardinality(holders) <= Cardinality(Threads)
  BY <1>1, FS_Subset
<1>3. f \in Surjection(holders, Numbers)
  BY DEF Surjection
<1>. HIDE DEF holders, f
<1>4. Cardinality(Numbers) <= Cardinality(holders)
  BY <1>2, <1>3, FS_Surjection, Zenon
<1>5. Cardinality(Numbers) = Cardinality(Threads) + 1
  BY <1>1, FS_Interval DEF Numbers
<1>6. Cardinality(holders) \in Nat
  BY <1>2, FS_CardinalityType
<1>. QED
  BY <1>1, <1>2, <1>4, <1>5, <1>6

\* A new breaker is nobody's, if the dictionary has none for its key.
LEMMA FreshIsNobodys ==
    ASSUME ReferencesOK, NEW k \in Keys, breakers[k] = 0
    PROVE  /\ Fresh(k) \in Numbers
           /\ \A t \in Threads : key[t] = k => held[t] # Fresh(k)
<1>0. 0 \notin Numbers
  BY DEF Numbers
<1>1. PICK n \in Numbers : \A t \in Threads : held[t] # n
  BY SomeNumberIsFree
<1>2. <<k, n>> \notin Referred(breakers, held)
  BY <1>0, <1>1 DEF Referred
<1>3. Fresh(k) \in Numbers /\ <<k, Fresh(k)>> \notin Referred(breakers, held)
  BY <1>2 DEF Fresh
<1>4. ASSUME NEW t \in Threads, key[t] = k, held[t] = Fresh(k) PROVE FALSE
  <2>1. held[t] # 0
    BY <1>0, <1>3, <1>4
  <2>2. <<key[t], held[t]>> \in Referred(breakers, held)
    BY <2>1 DEF Referred
  <2>. QED
    BY <1>3, <1>4, <2>2
<1>. QED
  BY <1>3, <1>4

\* What setdefault does to the dictionary.
LEMMA SetDefaultIs ==
    ASSUME ReferencesOK, NEW k \in Keys
    PROVE  /\ SetDefault(k) \in [Keys -> Numbers \cup {0}]
           /\ SetDefault(k)[k] \in Numbers
           /\ \A j \in Keys : j # k \/ breakers[k] # 0 => SetDefault(k)[j] = breakers[j]
           /\ breakers[k] = 0 => \A t \in Threads : key[t] = k => held[t] # SetDefault(k)[k]
<1>1. CASE breakers[k] = 0
  <2>1. SetDefault(k) = [breakers EXCEPT ![k] = Fresh(k)]
    BY <1>1 DEF SetDefault, Overwrite
  <2>. QED
    BY <1>1, <2>1, FreshIsNobodys DEF ReferencesOK
<1>2. CASE breakers[k] # 0
  BY <1>2 DEF SetDefault, ReferencesOK
<1>. QED
  BY <1>1, <1>2
-------------------------------------------------------------------------------
\* A thread that returns lets go of its breaker and is counted no more.
LEMMA ReturnKeeps ==
    ASSUME ManagerInv, NEW t \in Threads, Return(t), UNCHANGED breakers
    PROVE  ManagerInv'
<1>1. ReferencesOK'
  BY DEF Return, ManagerInv, ReferencesOK, Places
<1>2. HoldersOK'
  BY DEF Return, ManagerInv, ReferencesOK, HoldersOK
<1>3. OneBreakerPerKey'
  BY DEF Return, ManagerInv, ReferencesOK, HoldersOK, OneBreakerPerKey
<1>. QED
  BY <1>1, <1>2, <1>3 DEF ManagerInv

LEMMA EnterKeeps ==
    ASSUME ManagerInv, NEW t \in Threads, NEW k \in Keys, NEW m, NEW place \in {"loading", "loaded"},
           pc[t] = "idle", Enter(t, m, k, place), UNCHANGED <<breakers, held, overtaken>>
    PROVE  ManagerInv'
<1>1. held[t] = 0
  BY DEF ManagerInv, HoldersOK
<1>2. ReferencesOK'
  BY DEF Enter, ManagerInv, ReferencesOK, Places
<1>3. HoldersOK'
  BY <1>1 DEF Enter, ManagerInv, ReferencesOK, HoldersOK
<1>4. OneBreakerPerKey'
  BY <1>1 DEF Enter, ManagerInv, ReferencesOK, OneBreakerPerKey
<1>. QED
  BY <1>2, <1>3, <1>4 DEF ManagerInv

LEMMA NothingReferred ==
    ASSUME ManagerInv, UNCHANGED <<breakers, held, overtaken, pc, key>>
    PROVE  ManagerInv'
BY DEF ManagerInv, ReferencesOK, HoldersOK, OneBreakerPerKey

\* The breakers of evicted backends go; the one just loaded may be among them.
LEMMA LoadedKeeps ==
    ASSUME ManagerInv, NEW t \in Threads, Loaded(t)
    PROVE  ManagerInv'
<1>. DEFINE k == key[t]
            out == Evict(MoveToEnd(cache, k)).out
<1>1. k \in Keys /\ held[t] = 0 /\ pc[t] = "loading"
  BY DEF Loaded, ManagerInv, HoldersOK
<1>2. /\ breakers' = [j \in Keys |-> IF j \in out THEN 0 ELSE SetDefault(k)[j]]
      /\ overtaken' = overtaken \cup {u \in Threads : held[u] # 0 /\ key[u] \in out}
      /\ pc' = [pc EXCEPT ![t] = "loaded"]
      /\ UNCHANGED <<key, held>>
  BY DEF Loaded, Overtaken
<1>. HIDE DEF k, out
<1>3. /\ SetDefault(k) \in [Keys -> Numbers \cup {0}]
      /\ \A j \in Keys : j # k \/ breakers[k] # 0 => SetDefault(k)[j] = breakers[j]
      /\ breakers[k] = 0 => \A u \in Threads : key[u] = k => held[u] # SetDefault(k)[k]
  BY <1>1, SetDefaultIs DEF ManagerInv
<1>4. ReferencesOK'
  BY <1>2, <1>3 DEF ManagerInv, ReferencesOK, Places
<1>5. HoldersOK'
  BY <1>1, <1>2 DEF ManagerInv, ReferencesOK, HoldersOK
<1>6. ASSUME NEW u \in Threads, held[u] # 0 PROVE u \in overtaken' <=> breakers'[key[u]] # held[u]
  <2>1. key[u] \in Keys
    BY <1>6 DEF ManagerInv, HoldersOK
  <2>2. u \in overtaken <=> breakers[key[u]] # held[u]
    BY <1>6 DEF ManagerInv, OneBreakerPerKey
  <2>3. CASE key[u] \in out
    BY <1>2, <1>6, <2>1, <2>3
  <2>4. CASE key[u] \notin out
    <3>1. breakers'[key[u]] = SetDefault(k)[key[u]] /\ (u \in overtaken' <=> u \in overtaken)
      BY <1>2, <2>1, <2>4
    <3>. QED
      BY <1>3, <1>6, <2>1, <2>2, <3>1
  <2>. QED
    BY <2>3, <2>4
<1>7. OneBreakerPerKey'
  BY <1>2, <1>6 DEF OneBreakerPerKey
<1>. QED
  BY <1>4, <1>5, <1>7 DEF ManagerInv

LEMMA FetchKeeps ==
    ASSUME ManagerInv, NEW t \in Threads, Fetch(t)
    PROVE  ManagerInv'
<1>. DEFINE k == key[t]
<1>1. k \in Keys /\ held[t] = 0 /\ t \notin overtaken
  BY DEF Fetch, ManagerInv, HoldersOK
<1>2. /\ breakers' = SetDefault(k)
      /\ held' = [held EXCEPT ![t] = breakers'[k]]
      /\ pc' = [pc EXCEPT ![t] = "fetched"]
      /\ UNCHANGED <<key, overtaken>>
  BY DEF Fetch
<1>. HIDE DEF k
<1>3. /\ SetDefault(k) \in [Keys -> Numbers \cup {0}] /\ SetDefault(k)[k] \in Numbers
      /\ \A j \in Keys : j # k \/ breakers[k] # 0 => SetDefault(k)[j] = breakers[j]
      /\ breakers[k] = 0 => \A u \in Threads : key[u] = k => held[u] # SetDefault(k)[k]
  BY <1>1, SetDefaultIs DEF ManagerInv
<1>4. breakers'[k] # 0
  BY <1>2, <1>3 DEF Numbers
<1>5. ReferencesOK'
  BY <1>2, <1>3 DEF ManagerInv, ReferencesOK, Places
<1>6. HoldersOK'
  BY <1>1, <1>2, <1>4 DEF ManagerInv, ReferencesOK, HoldersOK, k
<1>7. ASSUME NEW u \in Threads, held'[u] # 0 PROVE u \in overtaken' <=> breakers'[key'[u]] # held'[u]
  <2>1. CASE u = t
    BY <1>1, <1>2, <2>1 DEF ManagerInv, ReferencesOK, k
  <2>2. CASE u # t
    <3>1. held'[u] = held[u] /\ held[u] # 0
      BY <1>2, <1>7, <2>2 DEF ManagerInv, ReferencesOK
    <3>2. key[u] \in Keys /\ (u \in overtaken <=> breakers[key[u]] # held[u])
      BY <3>1 DEF ManagerInv, HoldersOK, OneBreakerPerKey
    <3>. QED
      BY <1>2, <1>3, <3>1, <3>2
  <2>. QED
    BY <2>1, <2>2
<1>8. OneBreakerPerKey'
  BY <1>7 DEF OneBreakerPerKey
<1>. QED
  BY <1>5, <1>6, <1>8 DEF ManagerInv

\* All breakers go at once; their holders go on.
LEMMA ShutdownKeeps ==
    ASSUME ManagerInv, Shutdown
    PROVE  ManagerInv'
<1>1. /\ breakers' = [k \in Keys |-> 0]
      /\ overtaken' = overtaken \cup {t \in Threads : held[t] # 0 /\ key[t] \in Keys}
      /\ UNCHANGED <<pc, key, held>>
  BY DEF Shutdown, Overtaken
<1>2. ReferencesOK' /\ HoldersOK'
  BY <1>1 DEF ManagerInv, ReferencesOK, HoldersOK
<1>3. OneBreakerPerKey'
  BY <1>1 DEF ManagerInv, HoldersOK, OneBreakerPerKey
<1>. QED
  BY <1>2, <1>3 DEF ManagerInv
-------------------------------------------------------------------------------
LEMMA ManagerNext ==
    ManagerInv /\ [Next]_vars => ManagerInv'
<1>. SUFFICES ASSUME ManagerInv, [Next]_vars PROVE ManagerInv'
  OBVIOUS
<1>1. CASE UNCHANGED vars \/ IsReady \/ Tick
  BY <1>1, NothingReferred DEF vars, IsReady, Tick
<1>2. ASSUME NEW t \in Threads, NEW k \in Keys, NEW m, Hit(t, m, k) \/ Miss(t, m, k) PROVE ManagerInv'
  BY <1>2, EnterKeeps DEF Hit, Miss
<1>3. ASSUME NEW t \in Threads, LoadRaises(t) \/ Warm(t) \/ Reject(t) \/ Succeed(t) \/ Fail(t) PROVE ManagerInv'
  BY <1>3, ReturnKeeps DEF LoadRaises, Warm, Reject, Succeed, Fail, Answer
<1>4. ASSUME NEW t \in Threads, Admit(t) PROVE ManagerInv'
  <2>1. ReferencesOK' /\ OneBreakerPerKey'
    BY <1>4 DEF Admit, ManagerInv, ReferencesOK, OneBreakerPerKey, Places
  <2>2. HoldersOK'
    BY <1>4 DEF Admit, ManagerInv, ReferencesOK, HoldersOK
  <2>. QED
    BY <2>1, <2>2 DEF ManagerInv
<1>5. CASE Shutdown
  BY <1>5, ShutdownKeeps
<1>. QED
  BY <1>1, <1>2, <1>3, <1>4, <1>5, LoadedKeeps, FetchKeeps, ManagerAssumption DEF Next, Advance

\* As long as a breaker is a key's registered one, everyone who holds a breaker
\* of the key holds that one (OneBreakerPerKey of ModelManager).
THEOREM OneBreaker == Spec => []OneBreakerPerKey
<1>1. Init => ManagerInv
  BY DEF Init, ManagerInv, ReferencesOK, HoldersOK, OneBreakerPerKey, Places
<1>2. ManagerInv /\ [Next]_vars => ManagerInv'
  BY ManagerNext
<1>3. ManagerInv => OneBreakerPerKey
  BY DEF ManagerInv
<1>. QED
  BY <1>1, <1>2, <1>3, PTL DEF Spec
-------------------------------------------------------------------------------
\* r is s with the key at the given place, or a new one, moved to the end.
MovedFrom(s, k, r, at) ==
    /\ at <= Len(s) => s[at] = k /\ Len(r) = Len(s)
    /\ at = Len(s) + 1 => k \notin Range(s) /\ Len(r) = Len(s) + 1
    /\ r[Len(r)] = k
    /\ \A j \in 1..(Len(r) - 1) : r[j] = IF j < at THEN s[j] ELSE s[j + 1]

\* Moving a key to the end of an order without duplicates takes it out of its
\* place, if it has one, and leaves an order without duplicates.
LEMMA MovedIs ==
    ASSUME NEW s \in Seq(Keys), NEW k \in Keys, IsInjective(s), NEW r, r = MoveToEnd(s, k)
    PROVE  /\ r \in Seq(Keys) /\ IsInjective(r)
           /\ \E at \in 1..(Len(s) + 1) : MovedFrom(s, k, r, at)
<1>. DEFINE n == Len(s)
            w == Without(s, k)
<1>0. n \in Nat /\ n = Len(s)
  BY LenProperties
<1>1. s \in [1..n -> Keys] /\ DOMAIN s = 1..n
  BY LenProperties
<1>. HIDE DEF n
<1>2. CASE k \notin Range(s)
  <2>1. r = Append(s, k)
    BY <1>2 DEF MoveToEnd, Without
  <2>2. r \in Seq(Keys) /\ Len(r) = n + 1 /\ r[n + 1] = k /\ \A i \in 1..n : r[i] = s[i]
    BY <1>0, <2>1, AppendProperties
  <2>3. \A i \in 1..n : s[i] # k
    BY <1>0, <1>1, <1>2 DEF Range
  <2>4. IsInjective(r)
    <3>1. DOMAIN r = 1..(n + 1)
      BY <2>2, LenProperties
    <3>2. \A i \in 1..(n + 1) : i = n + 1 \/ i \in 1..n
      BY <1>0, <1>1
    <3>3. \A i, j \in 1..n : s[i] = s[j] => i = j
      BY <1>0, <1>1 DEF IsInjective
    <3>. QED
      BY <2>2, <2>3, <3>1, <3>2, <3>3 DEF IsInjective
  <2>5. \A j \in 1..(Len(r) - 1) : r[j] = IF j < n + 1 THEN s[j] ELSE s[j + 1]
    BY <1>0, <1>1, <2>2
  <2>6. n + 1 \in 1..(n + 1) /\ ~(n + 1 <= n)
    BY <1>0, <1>1
  <2>. QED
    BY <1>0, <1>1, <1>2, <2>2, <2>4, <2>5, <2>6 DEF MovedFrom
<1>3. CASE k \in Range(s)
  <2>. DEFINE at == CHOOSE m \in DOMAIN s : s[m] = k
              a == SubSeq(s, 1, at - 1)
              b == SubSeq(s, at + 1, n)
  <2>1. at \in 1..n /\ s[at] = k
    BY <1>0, <1>1, <1>3 DEF Range
  <2>2. w = a \o b
    BY <1>0, <1>3 DEF Without
  <2>. HIDE DEF at
  <2>3. a \in Seq(Keys) /\ Len(a) = at - 1 /\ \A i \in 1..(at - 1) : a[i] = s[i]
    <3>1. \A i \in 1..(at - 1) : s[i] \in Keys
      BY <1>0, <1>1, <2>1
    <3>2. /\ a \in Seq(Keys) /\ Len(a) = IF 1 <= at - 1 THEN (at - 1) - 1 + 1 ELSE 0
          /\ \A i \in 1..((at - 1) - 1 + 1) : a[i] = s[1 + i - 1]
      BY <2>1, <3>1, SubSeqProperties
    <3>. QED
      BY <2>1, <3>2
  <2>4. b \in Seq(Keys) /\ Len(b) = n - at /\ \A i \in 1..(n - at) : b[i] = s[at + i]
    <3>1. \A i \in (at + 1)..n : s[i] \in Keys
      BY <1>0, <1>1, <2>1
    <3>2. /\ b \in Seq(Keys) /\ Len(b) = IF at + 1 <= n THEN n - (at + 1) + 1 ELSE 0
          /\ \A i \in 1..(n - (at + 1) + 1) : b[i] = s[(at + 1) + i - 1]
      BY <1>0, <1>1, <2>1, <3>1, SubSeqProperties
    <3>3. /\ (IF at + 1 <= n THEN n - (at + 1) + 1 ELSE 0) = n - at /\ n - (at + 1) + 1 = n - at
          /\ \A i \in 1..(n - at) : (at + 1) + i - 1 = at + i
      BY <1>0, <2>1
    <3>. QED
      BY <3>2, <3>3
  <2>. HIDE DEF a, b, w
  <2>5. /\ w \in Seq(Keys) /\ Len(w) = n - 1
        /\ \A i \in 1..(n - 1) : w[i] = IF i < at THEN s[i] ELSE s[i + 1]
    <3>1. /\ w \in Seq(Keys) /\ Len(w) = Len(a) + Len(b)
          /\ \A i \in 1..(Len(a) + Len(b)) : w[i] = IF i <= Len(a) THEN a[i] ELSE b[i - Len(a)]
      BY <2>2, <2>3, <2>4, ConcatProperties
    <3>2. Len(a) + Len(b) = n - 1
      BY <1>0, <1>1, <2>1, <2>3, <2>4
    <3>3. ASSUME NEW i \in 1..(n - 1) PROVE w[i] = IF i < at THEN s[i] ELSE s[i + 1]
      <4>1. CASE i < at
        BY <1>0, <1>1, <2>1, <2>3, <3>1, <3>2, <4>1
      <4>2. CASE ~(i < at)
        <5>1. i - Len(a) \in 1..(n - at) /\ at + (i - Len(a)) = i + 1 /\ ~(i <= Len(a))
          BY <1>0, <1>1, <2>1, <2>3, <4>2
        <5>. QED
          BY <2>4, <3>1, <3>2, <4>2, <5>1
      <4>. QED
        BY <4>1, <4>2
    <3>. QED
      BY <3>1, <3>2, <3>3
  <2>6. r = Append(w, k)
    BY DEF MoveToEnd, w
  <2>7. r \in Seq(Keys) /\ Len(r) = n /\ r[n] = k /\ \A i \in 1..(n - 1) : r[i] = w[i]
    <3>1. /\ r \in Seq(Keys) /\ Len(r) = Len(w) + 1 /\ r[Len(w) + 1] = k
          /\ \A i \in 1..Len(w) : r[i] = w[i]
      BY <2>5, <2>6, AppendProperties
    <3>2. Len(w) + 1 = n
      BY <1>0, <1>1, <2>1, <2>5
    <3>. QED
      BY <2>5, <3>1, <3>2
  <2>8. \A j \in 1..(n - 1) : r[j] = IF j < at THEN s[j] ELSE s[j + 1]
    BY <2>5, <2>7
  <2>9. IsInjective(r)
    <3>1. DOMAIN r = 1..n
      BY <2>7, LenProperties
    <3>2. \A i, j \in 1..n : s[i] = s[j] => i = j
      BY <1>0, <1>1 DEF IsInjective
    <3>0. \A i \in 1..n : i # n => i \in 1..(n - 1)
      BY <1>0
    <3>. DEFINE from(i) == IF i = n THEN at ELSE IF i < at THEN i ELSE i + 1
    <3>3. \A i \in 1..n : from(i) \in 1..n /\ r[i] = s[from(i)]
      <4>. SUFFICES ASSUME NEW i \in 1..n PROVE from(i) \in 1..n /\ r[i] = s[from(i)]
        OBVIOUS
      <4>1. CASE i = n
        BY <2>1, <2>7, <4>1
      <4>2. CASE i # n
        <5>1. i \in 1..(n - 1)
          BY <3>0, <4>2
        <5>. QED
          BY <1>0, <1>1, <2>1, <2>8, <4>2, <5>1
      <4>. QED
        BY <4>1, <4>2
    <3>4. \A i, j \in 1..n : from(i) = from(j) => i = j
      BY <1>0, <2>1
    <3>. HIDE DEF from
    <3>. QED
      BY <3>1, <3>2, <3>3, <3>4 DEF IsInjective
  <2>10. at \in 1..(n + 1) /\ at # n + 1
    BY <1>0, <1>1, <2>1
  <2>. QED
    BY <1>0, <1>1, <2>1, <2>7, <2>8, <2>9, <2>10 DEF MovedFrom
<1>. QED
  BY <1>2, <1>3

\* What is left after an eviction is the end of what was there.
LEMMA KeptIs ==
    ASSUME NEW e \in Seq(Keys), NEW c, c = Evict(e).kept
    PROVE  /\ c \in Seq(Keys)
           /\ Len(c) = IF Len(e) < MaxCached THEN Len(e) ELSE MaxCached
           /\ \A j \in 1..Len(c) : c[j] = e[Len(e) - Len(c) + j]
<1>. DEFINE n == Len(e)
            over == IF n > MaxCached THEN n - MaxCached ELSE 0
<1>0. n \in Nat /\ MaxCached \in Nat
  BY ManagerAssumption, LenProperties
<1>1. n = Len(e) /\ \A i \in 1..n : e[i] \in Keys
  BY LenProperties
<1>2. c = SubSeq(e, over + 1, n)
  BY DEF Evict
<1>. HIDE DEF n
<1>3. over \in 0..n /\ n - over = IF n < MaxCached THEN n ELSE MaxCached
  BY <1>0
<1>. HIDE DEF over
<1>4. \A i \in (over + 1)..n : e[i] \in Keys
  BY <1>0, <1>1, <1>3
<1>5. /\ c \in Seq(Keys) /\ Len(c) = IF over + 1 <= n THEN n - (over + 1) + 1 ELSE 0
      /\ \A i \in 1..(n - (over + 1) + 1) : c[i] = e[(over + 1) + i - 1]
  BY <1>0, <1>2, <1>3, <1>4, SubSeqProperties
<1>6. Len(c) = n - over
  BY <1>0, <1>3, <1>5
<1>7. ASSUME NEW j \in 1..Len(c) PROVE c[j] = e[n - Len(c) + j]
  <2>1. j \in 1..(n - (over + 1) + 1) /\ (over + 1) + j - 1 = n - Len(c) + j
    BY <1>0, <1>3, <1>6
  <2>. QED
    BY <1>5, <2>1
<1>. QED
  BY <1>1, <1>3, <1>5, <1>6, <1>7

\* c is the end of r, as long as it may be.
MostRecent(c, r) ==
    /\ Len(c) = IF Len(r) < MaxCached THEN Len(r) ELSE MaxCached
    /\ \A j \in 1..Len(c) : c[j] = r[Len(r) - Len(c) + j]

RecencyOK ==
    /\ cache \in Seq(Keys) /\ recency \in Seq(Keys)
    /\ IsInjective(recency)
    /\ MostRecent(cache, recency)

\* The end of an order without duplicates has none either.
LEMMA CacheDistinct == ASSUME RecencyOK PROVE IsInjective(cache)
<1>1. /\ Len(cache) \in Nat /\ DOMAIN cache = 1..Len(cache)
      /\ Len(recency) \in Nat /\ DOMAIN recency = 1..Len(recency)
      /\ Len(cache) <= Len(recency)
  BY ManagerAssumption, LenProperties DEF RecencyOK, MostRecent
<1>2. ASSUME NEW i \in 1..Len(cache), NEW j \in 1..Len(cache), cache[i] = cache[j] PROVE i = j
  <2>. DEFINE d == Len(recency) - Len(cache)
  <2>1. d + i \in 1..Len(recency) /\ d + j \in 1..Len(recency)
    BY <1>1
  <2>2. recency[d + i] = recency[d + j]
    BY <1>2 DEF RecencyOK, MostRecent
  <2>3. d + i = d + j
    BY <1>1, <2>1, <2>2 DEF RecencyOK, IsInjective
  <2>. QED
    BY <1>1, <2>3
<1>. QED
  BY <1>1, <1>2 DEF IsInjective

\* A use moves a key to the end of both orders; an eviction then takes from the
\* front of the cache what is no longer among the most recent.
LEMMA UseKeepsRecency ==
    ASSUME RecencyOK, NEW k \in Keys, NEW e, NEW c, NEW r,
           e = MoveToEnd(cache, k), c = Evict(e).kept, r = MoveToEnd(recency, k)
    PROVE  /\ c \in Seq(Keys) /\ r \in Seq(Keys) /\ IsInjective(r) /\ MostRecent(c, r)
           /\ k \in Range(cache) => e \in Seq(Keys) /\ MostRecent(e, r)
<1>. DEFINE m == Len(cache)
            n == Len(recency)
            p == Len(e)
            q == Len(r)
<1>0. m = Len(cache) /\ n = Len(recency) /\ p = Len(e) /\ q = Len(r)
  OBVIOUS
<1>. HIDE DEF m, n, p, q
<1>1. /\ m \in Nat /\ n \in Nat /\ m <= n /\ MaxCached \in Nat
      /\ m = IF n < MaxCached THEN n ELSE MaxCached
      /\ \A j \in 1..m : cache[j] = recency[n - m + j]
  <2>1. m \in Nat /\ n \in Nat /\ MaxCached \in Nat
    BY <1>0, ManagerAssumption, LenProperties DEF RecencyOK
  <2>2. m = IF n < MaxCached THEN n ELSE MaxCached
    BY <1>0 DEF RecencyOK, MostRecent
  <2>3. \A j \in 1..m : cache[j] = recency[n - m + j]
    BY <1>0 DEF RecencyOK, MostRecent
  <2>. QED
    BY <2>1, <2>2, <2>3
<1>2. /\ e \in Seq(Keys)
      /\ \E at \in 1..(Len(cache) + 1) : MovedFrom(cache, k, e, at)
  <2>1. cache \in Seq(Keys) /\ IsInjective(cache)
    BY CacheDistinct DEF RecencyOK
  <2>. QED
    BY <2>1, MovedIs
<1>3. /\ r \in Seq(Keys) /\ IsInjective(r)
      /\ \E at \in 1..(Len(recency) + 1) : MovedFrom(recency, k, r, at)
  <2>1. recency \in Seq(Keys) /\ IsInjective(recency)
    BY DEF RecencyOK
  <2>. QED
    BY <2>1, MovedIs
<1>4. PICK a \in 1..(m + 1) :
        /\ a <= m => cache[a] = k /\ p = m
        /\ a = m + 1 => k \notin Range(cache) /\ p = m + 1
        /\ e[p] = k
        /\ \A j \in 1..(p - 1) : e[j] = IF j < a THEN cache[j] ELSE cache[j + 1]
  BY <1>0, <1>2 DEF MovedFrom
<1>5. PICK z \in 1..(n + 1) :
        /\ z <= n => recency[z] = k /\ q = n
        /\ z = n + 1 => k \notin Range(recency) /\ q = n + 1
        /\ r[q] = k
        /\ \A j \in 1..(q - 1) : r[j] = IF j < z THEN recency[j] ELSE recency[j + 1]
  BY <1>0, <1>3 DEF MovedFrom
<1>6. p \in Nat /\ q \in Nat /\ p <= m + 1 /\ p >= m /\ q >= n /\ DOMAIN cache = 1..m /\ DOMAIN recency = 1..n
  <2>1. (a <= m \/ a = m + 1) /\ (z <= n \/ z = n + 1)
    BY <1>1
  <2>. QED
    <3>1. p \in Nat /\ q \in Nat /\ DOMAIN cache = 1..m /\ DOMAIN recency = 1..n
      BY <1>0, <1>2, <1>3, LenProperties DEF RecencyOK
    <3>2. (p = m \/ p = m + 1) /\ (q = n \/ q = n + 1)
      BY <1>4, <1>5, <2>1
    <3>. QED
      BY <1>1, <3>1, <3>2
<1>7. /\ c \in Seq(Keys) /\ Len(c) = IF p < MaxCached THEN p ELSE MaxCached
      /\ \A j \in 1..Len(c) : c[j] = e[p - Len(c) + j]
  <2>1. e \in Seq(Keys)
    BY <1>2
  <2>. QED
    BY <2>1, KeptIs DEF p
<1>8. \A i, j \in 1..n : recency[i] = recency[j] => i = j
  BY <1>6 DEF RecencyOK, IsInjective
<1>9. CASE a <= m
  <2>1. z = n - m + a /\ q = n /\ p = m
    <3>1. n - m + a \in 1..n /\ recency[n - m + a] = k
      BY <1>1, <1>4, <1>9
    <3>2. z # n + 1
      <4>1. k \in Range(recency)
        BY <1>6, <3>1 DEF Range
      <4>. QED
        BY <1>5, <4>1
    <3>3. z \in 1..n
      BY <1>1, <3>2
    <3>. QED
      BY <1>4, <1>5, <1>8, <1>9, <3>1, <3>3
  <2>2. ASSUME NEW j \in 1..m PROVE e[j] = r[n - m + j]
    <3>1. CASE j = m
      BY <1>1, <1>4, <1>5, <2>1, <3>1
    <3>2. CASE j # m
      <4>1. j \in 1..(p - 1) /\ n - m + j \in 1..(q - 1) /\ (j < a <=> n - m + j < z)
        BY <1>1, <2>1, <3>2
      <4>2. e[j] = IF j < a THEN cache[j] ELSE cache[j + 1]
        BY <1>4, <4>1
      <4>3. r[n - m + j] = IF j < a THEN recency[n - m + j] ELSE recency[n - m + j + 1]
        BY <1>5, <4>1
      <4>4. j + 1 \in 1..m /\ n - m + (j + 1) = n - m + j + 1
        BY <1>1, <3>2
      <4>5. cache[j + 1] = recency[n - m + j + 1]
        BY <1>1, <4>4
      <4>6. cache[j] = recency[n - m + j]
        BY <1>1
      <4>. QED
        BY <4>2, <4>3, <4>5, <4>6
    <3>. QED
      BY <3>1, <3>2
  <2>0. q - m = n - m
    BY <2>1
  <2>3. MostRecent(e, r)
    <3>1. Len(e) = IF Len(r) < MaxCached THEN Len(r) ELSE MaxCached
      BY <1>0, <1>1, <2>1
    <3>2. \A j \in 1..Len(e) : e[j] = r[Len(r) - Len(e) + j]
      BY <1>0, <2>0, <2>1, <2>2
    <3>. QED
      BY <3>1, <3>2 DEF MostRecent
  <2>4. Len(c) = m /\ \A j \in 1..m : c[j] = e[j]
    <3>1. Len(c) = m
      BY <1>1, <1>7, <2>1
    <3>2. \A j \in 1..m : p - m + j = j
      BY <1>1, <2>1
    <3>. QED
      BY <1>7, <3>1, <3>2
  <2>5. MostRecent(c, r)
    <3>1. Len(c) = IF Len(r) < MaxCached THEN Len(r) ELSE MaxCached
      BY <1>0, <1>1, <2>1, <2>4
    <3>2. ASSUME NEW j \in 1..Len(c) PROVE c[j] = r[Len(r) - Len(c) + j]
      <4>1. j \in 1..m /\ Len(r) - Len(c) = n - m
        BY <1>0, <2>0, <2>4
      <4>. QED
        BY <2>2, <2>4, <4>1
    <3>. QED
      BY <3>1, <3>2 DEF MostRecent
  <2>. QED
    BY <1>2, <1>3, <1>7, <2>3, <2>5
<1>10. CASE a = m + 1
  <2>1. p = m + 1 /\ k \notin Range(cache) /\ \A j \in 1..m : e[j] = cache[j]
    BY <1>1, <1>4, <1>10
  <2>2. z <= n => z <= n - m
    <3>. SUFFICES ASSUME z <= n, z > n - m PROVE FALSE
      BY <1>1
    <3>1. z - (n - m) \in 1..m /\ n - m + (z - (n - m)) = z
      BY <1>1
    <3>2. cache[z - (n - m)] = k
      BY <1>1, <1>5, <3>1
    <3>. QED
      BY <1>6, <2>1, <3>1, <3>2 DEF Range
  <2>. DEFINE l == Len(c)
  <2>3. l = IF q < MaxCached THEN q ELSE MaxCached
    <3>1. CASE z <= n
      BY <1>1, <1>5, <1>7, <2>1, <2>2, <3>1
    <3>2. CASE z = n + 1
      BY <1>1, <1>5, <1>7, <2>1, <3>2
    <3>. QED
      BY <1>1, <3>1, <3>2
  <2>4. l \in Nat /\ l <= p /\ l <= q
    BY <1>1, <1>6, <1>7, <2>1, <2>3
  <2>. HIDE DEF l
  <2>5. ASSUME NEW j \in 1..l PROVE c[j] = r[q - l + j]
    <3>1. c[j] = e[p - l + j]
      BY <1>7 DEF l
    <3>2. CASE j = l
      BY <1>4, <1>5, <1>6, <2>4, <3>1, <3>2
    <3>3. CASE j # l
      <4>1. p - l + j \in 1..m /\ q - l + j \in 1..(q - 1)
        <5>1. j \in Nat \ {0} /\ j < l
          BY <2>4, <3>3
        <5>. QED
          BY <1>1, <1>6, <2>1, <2>4, <5>1
      <4>2. c[j] = recency[n - m + (p - l + j)]
        BY <1>1, <2>1, <3>1, <4>1
      <4>3. r[q - l + j] = IF q - l + j < z THEN recency[q - l + j] ELSE recency[q - l + j + 1]
        BY <1>5, <4>1
      <4>4. CASE z = n + 1
        <5>1. q - l + j < z /\ q - l + j = n - m + (p - l + j)
          BY <1>1, <1>5, <1>6, <2>1, <2>4, <3>3, <4>4
        <5>. QED
          BY <4>2, <4>3, <5>1
      <4>5. CASE z <= n
        <5>1. q = n /\ m = MaxCached /\ l = m
          BY <1>1, <1>5, <2>2, <2>3, <4>5
        <5>2. ~(q - l + j < z) /\ q - l + j + 1 = n - m + (p - l + j)
          BY <1>1, <2>1, <2>2, <4>5, <5>1
        <5>. QED
          BY <4>2, <4>3, <5>2
      <4>. QED
        BY <1>1, <4>4, <4>5
    <3>. QED
      BY <3>2, <3>3
  <2>6. MostRecent(c, r)
    BY <1>0, <2>3, <2>5 DEF MostRecent, l
  <2>. QED
    BY <1>2, <1>3, <1>7, <2>1, <2>6
<1>. QED
  BY <1>1, <1>9, <1>10

LEMMA RecencyNext ==
    ASSUME ManagerInv, RecencyOK, [Next]_vars
    PROVE  RecencyOK'
<1>1. CASE UNCHANGED <<cache, recency>>
  BY <1>1 DEF RecencyOK, MostRecent
<1>2. ASSUME NEW t \in Threads, NEW k \in Keys, NEW m, Hit(t, m, k) PROVE RecencyOK'
  <2>1. k \in Range(cache) /\ cache' = MoveToEnd(cache, k) /\ recency' = MoveToEnd(recency, k)
    BY <1>2 DEF Hit, Cached, MoveToEnd
  <2>2. cache' \in Seq(Keys) /\ recency' \in Seq(Keys) /\ IsInjective(recency') /\ MostRecent(cache', recency')
    BY <2>1, UseKeepsRecency
  <2>. QED
    BY <2>2 DEF RecencyOK
<1>3. ASSUME NEW t \in Threads, Loaded(t) PROVE RecencyOK'
  <2>. DEFINE k == key[t]
  <2>1. k \in Keys
    BY <1>3 DEF Loaded, ManagerInv, HoldersOK
  <2>2. cache' = Evict(MoveToEnd(cache, k)).kept /\ recency' = MoveToEnd(recency, k)
    BY <1>3 DEF Loaded, MoveToEnd
  <2>. HIDE DEF k
  <2>3. cache' \in Seq(Keys) /\ recency' \in Seq(Keys) /\ IsInjective(recency') /\ MostRecent(cache', recency')
    BY <2>1, <2>2, UseKeepsRecency
  <2>. QED
    BY <2>3 DEF RecencyOK
<1>4. CASE Shutdown
  <2>1. cache' = << >> /\ recency' = << >>
    BY <1>4 DEF Shutdown
  <2>2. << >> \in Seq(Keys) /\ Len(<< >>) = 0 /\ IsInjective(<< >>)
    BY DEF IsInjective
  <2>3. MostRecent(<< >>, << >>)
    BY <2>2, ManagerAssumption DEF MostRecent
  <2>. QED
    BY <2>1, <2>2, <2>3 DEF RecencyOK
<1>5. ASSUME NEW t \in Threads, Advance(t) PROVE RecencyOK'
  BY <1>1, <1>3, <1>5 DEF Advance, LoadRaises, Warm, Fetch, Admit, Reject, Succeed, Fail, Answer
<1>6. ASSUME NEW t \in Threads, NEW k \in Keys, NEW m, Miss(t, m, k) PROVE RecencyOK'
  BY <1>1, <1>6 DEF Miss
<1>7. CASE UNCHANGED vars \/ IsReady \/ Tick
  BY <1>1, <1>7 DEF vars, IsReady, Tick
<1>. QED
  BY <1>2, <1>4, <1>5, <1>6, <1>7, ManagerAssumption DEF Next

\* The cache is bounded and holds the most recently used keys, and no key twice
\* (CacheIsMostRecent of ModelManager), although a load runs outside the lock
\* and two threads may insert the same key.
THEOREM MostRecentAreCached == Spec => []CacheIsMostRecent
<1>1. Init => ManagerInv /\ RecencyOK
  <2>. SUFFICES ASSUME Init PROVE ManagerInv /\ RecencyOK
    OBVIOUS
  <2>1. ManagerInv
    BY DEF Init, ManagerInv, ReferencesOK, HoldersOK, OneBreakerPerKey, Places
  <2>2. cache = << >> /\ recency = << >> /\ << >> \in Seq(Keys) /\ Len(<< >>) = 0 /\ IsInjective(<< >>)
    BY DEF Init, IsInjective
  <2>3. MostRecent(<< >>, << >>)
    BY <2>2, ManagerAssumption DEF MostRecent
  <2>. QED
    BY <2>1, <2>2, <2>3 DEF RecencyOK
<1>2. ManagerInv /\ RecencyOK /\ [Next]_vars => (ManagerInv /\ RecencyOK)'
  BY ManagerNext, RecencyNext
<1>3. RecencyOK => CacheIsMostRecent
  <2>. SUFFICES ASSUME RecencyOK PROVE CacheIsMostRecent
    OBVIOUS
  <2>. DEFINE q == Len(recency)
              n == IF q < MaxCached THEN q ELSE MaxCached
              s == SubSeq(recency, q - n + 1, q)
  <2>0. q \in Nat /\ MaxCached \in Nat /\ \A i \in 1..q : recency[i] \in Keys
    BY ManagerAssumption, LenProperties DEF RecencyOK
  <2>1. cache \in Seq(Keys) /\ Len(cache) = n /\ \A j \in 1..n : cache[j] = recency[q - n + j]
    BY DEF RecencyOK, MostRecent
  <2>. HIDE DEF q
  <2>2. n \in 0..q
    BY <2>0
  <2>. HIDE DEF n
  <2>3. q - n + 1 \in Int /\ q \in Int /\ \A i \in (q - n + 1)..q : recency[i] \in Keys
    BY <2>0, <2>2
  <2>4. /\ s \in Seq(Keys) /\ Len(s) = IF q - n + 1 <= q THEN q - (q - n + 1) + 1 ELSE 0
        /\ \A i \in 1..(q - (q - n + 1) + 1) : s[i] = recency[(q - n + 1) + i - 1]
    BY <2>3, SubSeqProperties
  <2>5. Len(s) = n /\ q - (q - n + 1) + 1 = n /\ \A i \in 1..n : (q - n + 1) + i - 1 = q - n + i
    BY <2>0, <2>2, <2>4
  <2>6. \A i \in 1..n : s[i] = cache[i]
    BY <2>1, <2>4, <2>5
  <2>7. cache = s
    BY <2>1, <2>4, <2>5, <2>6, SeqEqual
  <2>. QED
    BY <2>7 DEF CacheIsMostRecent, n, q, s
<1>. QED
  BY <1>1, <1>2, <1>3, PTL DEF Spec
-------------------------------------------------------------------------------
\* The methods of a breaker make breakers of breakers.
LEMMA BreakersTyped ==
    /\ NewBreaker \in CircuitBreaker
    /\ \A b \in CircuitBreaker :
        /\ MaybeHalfOpen(b) \in CircuitBreaker /\ Aged(b) \in CircuitBreaker
        /\ RecordSuccess(b) \in CircuitBreaker /\ RecordFailure(b) \in CircuitBreaker
<1>1. FailureThreshold \in Nat /\ RecoveryTimeout \in Nat
  BY ThresholdAssumption, TimeoutAssumption
<1>2. \A m \in Nat : \A n \in 0..m : Saturate(n, m) \in 0..m
  BY DEF Saturate
<1>. QED
  BY <1>1, <1>2 DEF CircuitBreaker, CircuitState, NewBreaker, MaybeHalfOpen, Aged, RecordSuccess, RecordFailure

ObjectsOK == object \in [Referred(breakers, held) -> CircuitBreaker]

\* Only the keys of warmup's tasks are being warmed up, and only they have been.
WarmupOK ==
    /\ built \subseteq Keys /\ warmed \subseteq WarmKeys
    /\ op \in [Threads -> {"infer", "warmup"}]
    /\ \A t \in Threads : op[t] = "warmup" => key[t] \in WarmKeys

\* What is referred to does not depend on the keys of threads that hold nothing.
LEMMA ReferredIs ==
    ASSUME held' = held \/ \E t \in Threads : held' = [held EXCEPT ![t] = 0],
           held = [t \in Threads |-> held[t]],
           \A u \in Threads : held'[u] # 0 => key'[u] = key[u]
    PROVE  /\ Referred(breakers', held') = Referred(breakers, held)' 
           /\ breakers' = breakers => Referred(breakers, held') \subseteq Referred(breakers, held)
<1>1. \A u \in Threads : held'[u] # 0 => held'[u] = held[u]
  OBVIOUS
<1>. QED
  BY <1>1 DEF Referred

LEMMA HeapTyped ==
    ASSUME ObjectsOK, NEW b, NEW h
    PROVE  Heap(b, h) \in [Referred(b, h) -> CircuitBreaker]
BY BreakersTyped DEF ObjectsOK, Heap

TypesInv == ManagerInv /\ RecencyOK /\ ObjectsOK /\ WarmupOK

LEMMA ObjectsNext ==
    ASSUME TypesInv, [Next]_vars
    PROVE  ObjectsOK'
<1>. USE DEF TypesInv
<1>0. held = [t \in Threads |-> held[t]] /\ \A t \in Threads : held[t] # 0 <=> pc[t] \in {"fetched", "inferring"}
  BY DEF ManagerInv, ReferencesOK, HoldersOK
<1>1. ASSUME NEW t \in Threads, NEW k, NEW m, NEW place, pc[t] = "idle", Enter(t, m, k, place),
             UNCHANGED <<breakers, held, object>>
      PROVE  ObjectsOK'
  <2>1. \A u \in Threads : held[u] # 0 => key'[u] = key[u]
    BY <1>0, <1>1 DEF Enter, ManagerInv, ReferencesOK
  <2>2. Referred(breakers, held)' = Referred(breakers, held)
    BY <1>0, <1>1, <2>1, ReferredIs
  <2>. QED
    BY <1>1, <2>2 DEF ObjectsOK
<1>2. ASSUME NEW t \in Threads, Return(t), UNCHANGED breakers
      PROVE  /\ held' = [held EXCEPT ![t] = 0]
             /\ Referred(breakers, held)' = Referred(breakers, held')
             /\ Referred(breakers, held') \subseteq Referred(breakers, held)
             /\ held[t] = 0 => Referred(breakers, held)' = Referred(breakers, held)
  <2>1. held' = [held EXCEPT ![t] = 0] /\ key' = [key EXCEPT ![t] = NoKey]
    BY <1>2 DEF Return
  <2>2. \A u \in Threads : held'[u] # 0 => key'[u] = key[u]
    BY <1>0, <2>1 DEF ManagerInv, ReferencesOK
  <2>3. /\ Referred(breakers', held') = Referred(breakers, held)'
        /\ Referred(breakers, held') \subseteq Referred(breakers, held)
    BY <1>0, <1>2, <2>1, <2>2, ReferredIs
  <2>4. held[t] = 0 => held' = held
    BY <1>0, <2>1
  <2>. QED
    BY <1>2, <2>1, <2>3, <2>4
<1>3. ASSUME NEW t \in Threads, LoadRaises(t) \/ Warm(t) PROVE ObjectsOK'
  <2>1. Return(t) /\ UNCHANGED <<breakers, object>> /\ held[t] = 0
    BY <1>0, <1>3 DEF LoadRaises, Warm
  <2>. QED
    BY <1>2, <2>1 DEF ObjectsOK
<1>4. ASSUME NEW t \in Threads, Loaded(t) PROVE ObjectsOK'
  <2>1. object' = Heap(breakers', held) /\ UNCHANGED <<held, key>>
    BY <1>4 DEF Loaded
  <2>2. Referred(breakers, held)' = Referred(breakers', held)
    BY <2>1 DEF Referred
  <2>3. Heap(breakers', held) \in [Referred(breakers', held) -> CircuitBreaker]
    BY HeapTyped
  <2>. QED
    BY <2>1, <2>2, <2>3 DEF ObjectsOK
<1>5. ASSUME NEW t \in Threads, Fetch(t) PROVE ObjectsOK'
  <2>1. object' = Heap(breakers', held') /\ UNCHANGED key
    BY <1>5 DEF Fetch
  <2>2. Referred(breakers, held)' = Referred(breakers', held')
    BY <2>1 DEF Referred
  <2>3. Heap(breakers', held') \in [Referred(breakers', held') -> CircuitBreaker]
    BY HeapTyped
  <2>. QED
    BY <2>1, <2>2, <2>3 DEF ObjectsOK
<1>6. ASSUME NEW t \in Threads, Admit(t) PROVE ObjectsOK'
  <2>1. object' = [object EXCEPT ![Mine(t)] = MaybeHalfOpen(@)] /\ UNCHANGED <<breakers, held, key>>
    BY <1>6 DEF Admit
  <2>2. Referred(breakers, held)' = Referred(breakers, held)
    BY <2>1 DEF Referred
  <2>. QED
    BY <2>1, <2>2, BreakersTyped DEF ObjectsOK
<1>7. ASSUME NEW t \in Threads, Reject(t) PROVE ObjectsOK'
  <2>1. Return(t) /\ UNCHANGED breakers /\ object' = Heap(breakers, held')
    BY <1>7 DEF Reject
  <2>2. Heap(breakers, held') \in [Referred(breakers, held') -> CircuitBreaker]
    BY HeapTyped
  <2>. QED
    BY <1>2, <2>1, <2>2 DEF ObjectsOK
<1>8. ASSUME NEW t \in Threads, Succeed(t) \/ Fail(t) PROVE ObjectsOK'
  <2>1. Return(t) /\ UNCHANGED breakers
    BY <1>8 DEF Succeed, Fail, Answer
  <2>2. \/ object' = [i \in Referred(breakers, held') |->
                        IF i = Mine(t) THEN RecordSuccess(object[i]) ELSE object[i]]
        \/ object' = [i \in Referred(breakers, held') |->
                        IF i = Mine(t) THEN RecordFailure(object[i]) ELSE object[i]]
    BY <1>8 DEF Succeed, Fail, Answer
  <2>3. \A i \in Referred(breakers, held') : object[i] \in CircuitBreaker
    BY <1>2, <2>1 DEF ObjectsOK
  <2>4. object' \in [Referred(breakers, held') -> CircuitBreaker]
    BY <2>2, <2>3, BreakersTyped
  <2>. QED
    BY <1>2, <2>1, <2>4 DEF ObjectsOK
<1>9. CASE IsReady
  <2>1. PICK k \in Keys : object' = [object EXCEPT ![<<k, breakers[k]>>] = MaybeHalfOpen(@)]
    BY <1>9 DEF IsReady
  <2>2. Referred(breakers, held)' = Referred(breakers, held)
    BY <1>9 DEF IsReady, Referred
  <2>. QED
    BY <2>1, <2>2, BreakersTyped DEF ObjectsOK
<1>10. CASE Shutdown
  <2>1. object' = Heap(breakers', held) /\ UNCHANGED <<held, key>>
    BY <1>10 DEF Shutdown
  <2>2. Referred(breakers, held)' = Referred(breakers', held)
    BY <2>1 DEF Referred
  <2>3. Heap(breakers', held) \in [Referred(breakers', held) -> CircuitBreaker]
    BY HeapTyped
  <2>. QED
    BY <2>1, <2>2, <2>3 DEF ObjectsOK
<1>11. CASE Tick
  <2>1. Referred(breakers, held)' = Referred(breakers, held)
    BY <1>11 DEF Tick, Referred
  <2>2. object' = [i \in DOMAIN object |-> Aged(object[i])]
    BY <1>11 DEF Tick
  <2>. QED
    BY <2>1, <2>2, BreakersTyped DEF ObjectsOK
<1>12. CASE UNCHANGED vars
  <2>1. Referred(breakers, held)' = Referred(breakers, held)
    BY <1>12 DEF vars, Referred
  <2>. QED
    BY <1>12, <2>1 DEF vars, ObjectsOK
<1>13. ASSUME NEW t \in Threads, NEW k \in Keys, NEW m, Hit(t, m, k) \/ Miss(t, m, k) PROVE ObjectsOK'
  BY <1>1, <1>13 DEF Hit, Miss
<1>. QED
  BY <1>3, <1>4, <1>5, <1>6, <1>7, <1>8, <1>9, <1>10, <1>11, <1>12, <1>13, ManagerAssumption
  DEF Next, Advance

LEMMA WarmupNext ==
    ASSUME TypesInv, [Next]_vars
    PROVE  WarmupOK'
<1>. USE DEF TypesInv
<1>1. key \in [Threads -> Keys \cup {NoKey}] /\ \A t \in Threads : pc[t] # "idle" => key[t] \in Keys
  BY DEF ManagerInv, ReferencesOK, HoldersOK
<1>2. ASSUME NEW t \in Threads, NEW k \in Keys, NEW m, NEW place, Enter(t, m, k, place),
             m = "infer" \/ (m = "warmup" /\ k \in WarmKeys),
             warmed' = warmed, built' = built \/ built' = built \cup {k}
      PROVE  WarmupOK'
  <2>1. op' = [op EXCEPT ![t] = m] /\ key' = [key EXCEPT ![t] = k]
    BY <1>2 DEF Enter
  <2>. QED
    BY <1>1, <1>2, <2>1 DEF WarmupOK
<1>3. ASSUME NEW t \in Threads, Return(t), built' = built, warmed' \subseteq WarmKeys PROVE WarmupOK'
  <2>1. op' = [op EXCEPT ![t] = "infer"] /\ key' = [key EXCEPT ![t] = NoKey]
    BY <1>3 DEF Return
  <2>. QED
    BY <1>1, <1>3, <2>1 DEF WarmupOK
<1>4. ASSUME NEW t \in Threads, LoadRaises(t) \/ Reject(t) \/ Succeed(t) \/ Fail(t) PROVE WarmupOK'
  BY <1>3, <1>4 DEF LoadRaises, Reject, Succeed, Fail, Answer, WarmupOK
<1>5. ASSUME NEW t \in Threads, Warm(t) PROVE WarmupOK'
  BY <1>3, <1>5 DEF Warm, WarmupOK
<1>6. CASE UNCHANGED <<built, warmed, op, key>>
  BY <1>6 DEF WarmupOK
<1>7. ASSUME NEW t \in Threads, Advance(t) PROVE WarmupOK'
  BY <1>4, <1>5, <1>6, <1>7 DEF Advance, Loaded, Fetch, Admit
<1>8. CASE UNCHANGED vars \/ IsReady \/ Tick
  BY <1>6, <1>8 DEF vars, IsReady, Tick
<1>9. CASE Shutdown
  BY <1>9 DEF Shutdown, WarmupOK
<1>10. ASSUME NEW t \in Threads, NEW k \in Keys, Hit(t, "infer", k) \/ Miss(t, "infer", k) PROVE WarmupOK'
  BY <1>2, <1>10 DEF Hit, Miss
<1>11. ASSUME NEW t \in Threads, NEW k \in WarmKeys, Hit(t, "warmup", k) \/ Miss(t, "warmup", k) PROVE WarmupOK'
  BY <1>2, <1>11, ManagerAssumption DEF Hit, Miss
<1>. QED
  BY <1>7, <1>8, <1>9, <1>10, <1>11 DEF Next

\* What the state is made of (TypeOK of ModelManager): among the rest, that the
\* breakers in existence are those that something refers to.
THEOREM TypesHold == Spec => []TypeOK
<1>1. Init => TypesInv
  <2>. SUFFICES ASSUME Init PROVE TypesInv
    OBVIOUS
  <2>1. ManagerInv
    BY DEF Init, ManagerInv, ReferencesOK, HoldersOK, OneBreakerPerKey, Places
  <2>2. cache = << >> /\ recency = << >> /\ << >> \in Seq(Keys) /\ Len(<< >>) = 0 /\ IsInjective(<< >>)
    BY DEF Init, IsInjective
  <2>3. MostRecent(<< >>, << >>)
    BY <2>2, ManagerAssumption DEF MostRecent
  <2>4. Referred(breakers, held) = {}
    BY DEF Init, Referred
  <2>5. ObjectsOK
    <3>1. << >> \in Seq(CircuitBreaker) /\ Len(<< >>) = 0
      BY EmptySeq
    <3>2. << >> \in [1..0 -> CircuitBreaker] /\ 1..0 = {}
      BY <3>1, LenProperties
    <3>. QED
      BY <2>4, <3>2 DEF Init, ObjectsOK
  <2>6. WarmupOK
    BY DEF Init, WarmupOK
  <2>. QED
    BY <2>1, <2>2, <2>3, <2>5, <2>6 DEF RecencyOK, TypesInv
<1>2. TypesInv /\ [Next]_vars => TypesInv'
  BY ManagerNext, RecencyNext, ObjectsNext, WarmupNext DEF TypesInv
<1>3. TypesInv => TypeOK
  BY DEF TypesInv, ManagerInv, ReferencesOK, RecencyOK, ObjectsOK, WarmupOK, TypeOK, Places
<1>. QED
  BY <1>1, <1>2, <1>3, PTL DEF Spec
===============================================================================
