--------------------------- MODULE RateLimiterProofs ---------------------------
(***************************************************************************)
(* Theorems about RateLimiter, for any number of threads and keys, any     *)
(* rates, and a minute of any number of ticks.                             *)
(***************************************************************************)
EXTENDS RateLimiter, FiniteSetTheorems, TLAPS

\* A bucket as far as retry_after goes.
BucketState == [tokens : Nat, idle : 0..Minute, rate : Nat \ {0}]

\* With w half ticks to go the bucket will have a whole token then, and will not
\* have had one before two Grains' worth of half ticks were left.
Due(b, w) ==
    /\ w \in Nat
    /\ 2 * (b.tokens + b.idle * b.rate) + w * b.rate >= 2 * Cost
    /\ w > 2 * Grain => 2 * (b.tokens + b.idle * b.rate) + (w - 2 * Grain) * b.rate <= 2 * Cost

BucketsOK ==
    /\ buckets = [k \in Keys |-> buckets[k]]
    /\ held = [t \in Threads |-> held[t]] /\ key = [t \in Threads |-> key[t]]
    /\ Referred(buckets, held) \subseteq DOMAIN bucket
    /\ \A i \in DOMAIN bucket : bucket[i] \in BucketState

WaitsOK ==
    /\ wait = [k \in Keys |-> wait[k]]
    /\ \A k \in Keys : buckets[k] = 0 => wait[k] = NoWait
    /\ \A k \in Keys : buckets[k] # 0 /\ wait[k] # NoWait => Due(Current(k), wait[k])

RetryInv == BucketsOK /\ WaitsOK

-------------------------------------------------------------------------------
\* More time is more tokens.
LEMMA Products ==
    ASSUME NEW a \in Nat, NEW b \in Nat, NEW r \in Nat \ {0}
    PROVE  (a + b) * r >= a * r /\ (a + b) * r = a * r + b * r /\ a * r \in Nat /\ a * r >= a
<1>1. (a + b) * r = a * r + b * r /\ a * r \in Nat /\ b * r \in Nat
  OBVIOUS
<1>2. a * r >= a
  <2>1. PICK f \in Nat : r = f + 1
    <3>1. r - 1 \in Nat /\ r = (r - 1) + 1
      OBVIOUS
    <3>. QED
      BY <3>1
  <2>2. a * r = a * f + a /\ a * f \in Nat
    BY <2>1
  <2>. QED
    BY <2>2
<1>. QED
  BY <1>1, <1>2

\* A bucket's capacity never stands between it and one token.
LEMMA ShortOfOne ==
    ASSUME NEW b \in BucketState
    PROVE  /\ Credit(b) < Cost <=> b.tokens + b.idle * b.rate < Cost
           /\ Credit(b) < Cost => Credit(b) = b.tokens + b.idle * b.rate /\ Credit(b) \in Nat
<1>1. b.tokens \in Nat /\ b.idle \in Nat /\ b.rate \in Nat \ {0} /\ Minute \in Nat \ {0}
  BY RateAssumption DEF BucketState
<1>2. Capacity(b) \in Nat /\ Capacity(b) >= Cost
  <2>1. Minute * b.rate >= Minute /\ Minute * b.rate \in Nat /\ Minute * b.rate = b.rate * Minute
    BY <1>1, Products
  <2>. QED
    BY <2>1 DEF Capacity, Cost
<1>3. b.idle * b.rate \in Nat
  BY <1>1, Products
<1>. QED
  BY <1>1, <1>2, <1>3 DEF Credit, Smaller, Cost

\* What a client is told, when it is told.
LEMMA DenyIsDue ==
    ASSUME NEW b \in BucketState, Credit(b) < Cost, NEW told \in RetryAfter(b)
    PROVE  Due([b EXCEPT !.tokens = Credit(b), !.idle = 0], 2 * told + Grain)
<1>. DEFINE c == Credit(b)
            r == b.rate
            new == [b EXCEPT !.tokens = c, !.idle = 0]
            w == 2 * told + Grain
<1>1. /\ c \in Nat /\ r \in Nat \ {0} /\ Minute \in Nat \ {0} /\ Grain \in Nat \ {0}
      /\ Cost = Minute
  BY ShortOfOne, RateAssumption DEF BucketState, Cost
<1>2. new.tokens = c /\ new.idle = 0 /\ new.rate = r
  BY DEF BucketState
<1>3. /\ -(Grain * r) <= 2 * (told * r - (Minute - c))
      /\ 2 * (told * r - (Minute - c)) <= Grain * r
  BY DEF RetryAfter, Over, Cost
<1>4. told \in Nat
  <2>1. PICK m \in 0..Minute : told = Grain * m
    BY DEF RetryAfter, Grains
  <2>. QED
    BY <1>1, <2>1
<1>. HIDE DEF c, r, new
<1>5. /\ w * r = 2 * (told * r) + Grain * r /\ (w - 2 * Grain) * r = 2 * (told * r) - Grain * r
      /\ told * r \in Nat /\ Grain * r \in Nat /\ w \in Nat
  BY <1>1, <1>4
<1>. HIDE DEF w
<1>6. 2 * c + w * r >= 2 * Minute /\ 2 * c + (w - 2 * Grain) * r <= 2 * Minute
  <2>. DEFINE x == told * r
              y == Grain * r
  <2>1. /\ x \in Nat /\ y \in Nat /\ w * r = 2 * x + y /\ (w - 2 * Grain) * r = 2 * x - y
        /\ -y <= 2 * (x - (Minute - c)) /\ 2 * (x - (Minute - c)) <= y
    BY <1>3, <1>5
  <2>. HIDE DEF x, y
  <2>. QED
    BY <1>1, <2>1
<1>7. new.tokens + new.idle * new.rate = c
  BY <1>1, <1>2
<1>8. Due(new, w)
  BY <1>1, <1>2, <1>5, <1>6, <1>7 DEF Due
<1>. QED
  BY <1>8 DEF new, w, c

\* A tick brings it nearer by one.
LEMMA TickIsDue ==
    ASSUME NEW b \in BucketState, NEW w, Due(b, w)
    PROVE  Due([b EXCEPT !.idle = Smaller(@ + 1, Minute)], IF w < 2 THEN 0 ELSE w - 2)
<1>. DEFINE t == b.tokens
            n == b.idle
            r == b.rate
            g == 2 * Grain
            new == [b EXCEPT !.idle = Smaller(@ + 1, Minute)]
            v == IF w < 2 THEN 0 ELSE w - 2
<1>1. /\ t \in Nat /\ n \in 0..Minute /\ r \in Nat \ {0} /\ Minute \in Nat \ {0}
      /\ w \in Nat /\ g \in Nat /\ g >= 2 /\ Cost = Minute
  BY RateAssumption DEF BucketState, Due, Cost
<1>2. new.tokens = t /\ new.idle = Smaller(n + 1, Minute) /\ new.rate = r
  BY DEF BucketState
<1>3. /\ 2 * (t + n * r) + w * r >= 2 * Minute
      /\ w > g => 2 * (t + n * r) + (w - g) * r <= 2 * Minute
  BY DEF Due, Cost
<1>. HIDE DEF t, n, r, g, new
<1>4. v \in Nat /\ v * r \in Nat /\ n * r \in Nat /\ w * r \in Nat
  BY <1>1
<1>5. CASE n = Minute
  <2>1. new.idle = n /\ n * r >= Minute
    BY <1>1, <1>2, <1>5, Products DEF Smaller
  <2>2. w <= g
    <3>. SUFFICES ASSUME w > g PROVE FALSE
      BY <1>1
    <3>1. w - g \in Nat \ {0} /\ (w - g) * r >= w - g
      BY <1>1, Products
    <3>2. (w - g) * r \in Nat
      BY <1>1, <3>1
    <3>. QED
      BY <1>1, <1>3, <1>4, <2>1, <3>1, <3>2
  <2>3. v <= g
    BY <1>1, <2>2
  <2>4. 2 * (t + n * r) + v * r >= 2 * Minute
    BY <1>1, <1>4, <2>1
  <2>5. Due(new, v)
    BY <1>1, <1>2, <1>4, <2>1, <2>3, <2>4 DEF Due, g
  <2>. QED
    BY <2>5 DEF new
<1>6. CASE n < Minute
  <2>1. new.idle = n + 1 /\ (n + 1) * r = n * r + r
    BY <1>1, <1>2, <1>6 DEF Smaller
  <2>2. v * r + 2 * r >= w * r
    <3>1. CASE w < 2
      <4>1. w = 0 \/ w = 1
        BY <1>1, <3>1
      <4>2. w * r <= r
        BY <1>1, <4>1
      <4>. QED
        BY <1>1, <1>4, <4>2
    <3>2. CASE ~(w < 2)
      <4>1. v = w - 2 /\ (w - 2) * r = w * r - 2 * r
        BY <1>1, <3>2
      <4>. QED
        BY <1>1, <1>4, <4>1
    <3>. QED
      BY <3>1, <3>2
  <2>3. 2 * (t + (n + 1) * r) + v * r >= 2 * Minute
    BY <1>1, <1>3, <1>4, <2>1, <2>2
  <2>4. v > g => 2 * (t + (n + 1) * r) + (v - g) * r <= 2 * Minute
    <3>. SUFFICES ASSUME v > g PROVE 2 * (t + (n + 1) * r) + (v - g) * r <= 2 * Minute
      OBVIOUS
    <3>1. v = w - 2 /\ w > g /\ (w - g) - 2 = v - g
      BY <1>1
    <3>2. ((w - g) - 2) * r = (w - g) * r - 2 * r /\ (w - g) * r \in Int
      BY <1>1
    <3>3. (v - g) * r = (w - g) * r - 2 * r
      BY <3>1, <3>2
    <3>. HIDE DEF v
    <3>. QED
      BY <1>1, <1>3, <1>4, <2>1, <3>1, <3>2, <3>3
  <2>. HIDE DEF v
  <2>5. Due(new, v)
    BY <1>1, <1>2, <1>4, <2>1, <2>3, <2>4 DEF Due, g
  <2>. QED
    BY <2>5 DEF new, v
<1>. QED
  BY <1>1, <1>5, <1>6

\* What is due is there when nothing is left to go, and not there yet while more
\* than two Grains' worth of half ticks are.
LEMMA DueIsClose ==
    ASSUME NEW b \in BucketState, NEW w, Due(b, w)
    PROVE  /\ w > 2 * Grain => Credit(b) < Cost
           /\ w = 0 => Credit(b) >= Cost
<1>. DEFINE have == b.tokens + b.idle * b.rate
<1>1. /\ b.tokens \in Nat /\ b.idle \in Nat /\ b.rate \in Nat \ {0} /\ w \in Nat
      /\ Cost \in Nat /\ Grain \in Nat
  BY RateAssumption DEF BucketState, Due, Cost
<1>2. have \in Nat /\ (Credit(b) < Cost <=> have < Cost) /\ Credit(b) \in Nat
  <2>1. b.idle * b.rate \in Nat /\ b.rate * Minute \in Nat
    BY <1>1, RateAssumption
  <2>. QED
    BY <1>1, <2>1, ShortOfOne DEF Credit, Capacity, Smaller
<1>3. CASE w > 2 * Grain
  <2>1. w - 2 * Grain \in Nat \ {0} /\ (w - 2 * Grain) * b.rate >= w - 2 * Grain
    BY <1>1, <1>3, Products
  <2>2. (w - 2 * Grain) * b.rate \in Nat /\ 2 * have + (w - 2 * Grain) * b.rate <= 2 * Cost
    BY <1>1, <1>3, <2>1 DEF Due
  <2>. HIDE DEF have
  <2>3. have < Cost
    BY <1>1, <1>2, <2>1, <2>2
  <2>. QED
    BY <1>1, <1>2, <1>3, <2>3
<1>4. CASE w = 0
  <2>1. w * b.rate = 0 /\ 2 * have + w * b.rate >= 2 * Cost
    BY <1>1, <1>4 DEF Due
  <2>. HIDE DEF have
  <2>. QED
    BY <1>1, <1>2, <1>4, <2>1
<1>. QED
  BY <1>3, <1>4
-------------------------------------------------------------------------------
\* A key's bucket is among those that are referred to.
LEMMA CurrentIsThere ==
    ASSUME BucketsOK, NEW k \in Keys, buckets[k] # 0
    PROVE  <<k, buckets[k]>> \in DOMAIN bucket /\ Current(k) \in BucketState
BY DEF BucketsOK, Referred, Current

\* The look-up leaves every bucket as it is, and adds one at most, for a key
\* that had none and so owes nobody an answer.
LEMMA GetBucketKeeps ==
    ASSUME RetryInv, NEW t \in Threads, NEW k \in Keys, NEW rate \in Rates, GetBucket(t, k, rate)
    PROVE  RetryInv'
<1>. DEFINE n == IF buckets[k] = 0 THEN Fresh(k) ELSE buckets[k]
<1>1. /\ buckets' = [buckets EXCEPT ![k] = n] /\ held' = [held EXCEPT ![t] = n]
      /\ key' = [key EXCEPT ![t] = k] /\ held[t] = 0 /\ wait' = wait
      /\ bucket' = [i \in DOMAIN bucket \cup {<<k, n>>} |->
                        IF i \in DOMAIN bucket THEN bucket[i] ELSE NewBucket(Effective(rate))]
  <2>1. buckets' = [buckets EXCEPT ![k] = n] /\ buckets'[k] = n
    BY DEF GetBucket, RetryInv, BucketsOK
  <2>. QED
    BY <2>1 DEF GetBucket
<1>. HIDE DEF n
<1>2. \A j \in Keys : j # k => buckets'[j] = buckets[j]
  BY <1>1 DEF RetryInv, BucketsOK
<1>3. Referred(buckets, held)' \subseteq Referred(buckets, held) \cup {<<k, n>>}
  BY <1>1 DEF Referred, RetryInv, BucketsOK
<1>4. NewBucket(Effective(rate)) \in BucketState
  <2>1. Effective(rate) \in Nat \ {0}
    BY RateAssumption DEF Effective
  <2>2. Effective(rate) * Minute \in Nat /\ 0 \in 0..Minute
    BY <2>1, RateAssumption
  <2>. QED
    BY <2>1, <2>2 DEF NewBucket, BucketState
<1>5. BucketsOK'
  <2>1. \A i \in DOMAIN bucket' : bucket'[i] \in BucketState
    BY <1>1, <1>4 DEF RetryInv, BucketsOK
  <2>2. Referred(buckets, held)' \subseteq DOMAIN bucket'
    BY <1>1, <1>3 DEF RetryInv, BucketsOK
  <2>. QED
    BY <1>1, <2>1, <2>2 DEF RetryInv, BucketsOK
<1>6. \A j \in Keys : buckets[j] # 0 => buckets'[j] = buckets[j] /\ Current(j)' = Current(j)
  <2>. SUFFICES ASSUME NEW j \in Keys, buckets[j] # 0
                PROVE  buckets'[j] = buckets[j] /\ Current(j)' = Current(j)
    OBVIOUS
  <2>1. buckets'[j] = buckets[j]
    BY <1>1, <1>2 DEF RetryInv, BucketsOK, n
  <2>2. <<j, buckets[j]>> \in DOMAIN bucket
    BY CurrentIsThere DEF RetryInv
  <2>. QED
    BY <1>1, <2>1, <2>2 DEF Current
<1>7. WaitsOK'
  BY <1>1, <1>2, <1>6 DEF RetryInv, WaitsOK
<1>. QED
  BY <1>5, <1>7 DEF RetryInv

\* What a check that ends does to the buckets: it writes to its own.
LEMMA ReturnIs ==
    ASSUME BucketsOK, NEW t \in Threads, NEW new \in BucketState, held[t] # 0,
           Return(t, new), UNCHANGED buckets
    PROVE  /\ BucketsOK'
           /\ \A k \in Keys : buckets[k] # 0 =>
                Current(k)' = IF key[t] = k /\ Registered(t) THEN new ELSE Current(k)
<1>1. /\ key' = [key EXCEPT ![t] = NoKey] /\ held' = [held EXCEPT ![t] = 0]
      /\ bucket' = [i \in Referred(buckets, held') |-> IF i = Mine(t) THEN new ELSE bucket[i]]
  BY DEF Return
<1>2. Referred(buckets, held') \subseteq Referred(buckets, held)
  BY <1>1 DEF Referred, BucketsOK
<1>3. Referred(buckets, held)' \subseteq Referred(buckets, held')
  BY <1>1 DEF Referred, BucketsOK
<1>4. \A i \in DOMAIN bucket' : bucket'[i] \in BucketState
  BY <1>1, <1>2 DEF BucketsOK
<1>5. BucketsOK'
  BY <1>1, <1>3, <1>4 DEF BucketsOK
<1>6. ASSUME NEW k \in Keys, buckets[k] # 0
      PROVE  Current(k)' = IF key[t] = k /\ Registered(t) THEN new ELSE Current(k)
  <2>1. <<k, buckets[k]>> \in Referred(buckets, held')
    BY <1>6 DEF Referred
  <2>2. Current(k)' = IF <<k, buckets[k]>> = Mine(t) THEN new ELSE bucket[<<k, buckets[k]>>]
    BY <1>1, <2>1 DEF Current
  <2>3. <<k, buckets[k]>> = Mine(t) <=> key[t] = k /\ Registered(t)
    BY DEF Mine, Registered
  <2>. QED
    BY <2>2, <2>3 DEF Current
<1>. QED
  BY <1>5, <1>6

LEMMA MineIsThere ==
    ASSUME BucketsOK, NEW t \in Threads, held[t] # 0
    PROVE  bucket[Mine(t)] \in BucketState
BY DEF BucketsOK, Referred, Mine

LEMMA AllowKeeps ==
    ASSUME RetryInv, NEW t \in Threads, Allow(t)
    PROVE  RetryInv'
<1>. DEFINE b == bucket[Mine(t)]
            new == [b EXCEPT !.tokens = Credit(b) - Cost, !.idle = 0]
<1>1. held[t] # 0 /\ Credit(b) >= Cost /\ Return(t, new) /\ buckets' = buckets
  BY DEF Allow
<1>2. b \in BucketState
  BY <1>1, MineIsThere DEF RetryInv
<1>3. Credit(b) \in Nat
  <2>1. b.tokens \in Nat /\ b.idle \in Nat /\ b.rate \in Nat \ {0} /\ Minute \in Nat
    BY <1>2, RateAssumption DEF BucketState
  <2>2. b.idle * b.rate \in Nat /\ b.rate * Minute \in Nat
    BY <2>1
  <2>. QED
    BY <2>1, <2>2 DEF Credit, Capacity, Smaller
<1>4. new \in BucketState
  <2>1. Credit(b) - Cost \in Nat /\ 0 \in 0..Minute
    BY <1>1, <1>3, RateAssumption DEF Cost
  <2>. HIDE DEF b
  <2>. QED
    BY <1>2, <2>1 DEF BucketState
<1>. HIDE DEF new
<1>5. /\ BucketsOK'
      /\ \A k \in Keys : buckets[k] # 0 =>
            Current(k)' = IF key[t] = k /\ Registered(t) THEN new ELSE Current(k)
  BY <1>1, <1>4, ReturnIs DEF RetryInv
<1>6. wait' = IF Registered(t) THEN [wait EXCEPT ![key[t]] = NoWait] ELSE wait
  BY DEF Allow
<1>7. WaitsOK'
  BY <1>1, <1>5, <1>6 DEF RetryInv, WaitsOK
<1>. QED
  BY <1>5, <1>7 DEF RetryInv

LEMMA DenyKeeps ==
    ASSUME RetryInv, NEW t \in Threads, Deny(t)
    PROVE  RetryInv'
<1>. DEFINE b == bucket[Mine(t)]
            new == [b EXCEPT !.tokens = Credit(b), !.idle = 0]
<1>1. held[t] # 0 /\ Credit(b) < Cost /\ Return(t, new) /\ buckets' = buckets
  BY DEF Deny
<1>2. b \in BucketState
  BY <1>1, MineIsThere DEF RetryInv
<1>3. new \in BucketState
  <2>1. Credit(b) \in Nat /\ 0 \in 0..Minute
    BY <1>1, <1>2, ShortOfOne, RateAssumption
  <2>. HIDE DEF b
  <2>. QED
    BY <1>2, <2>1 DEF BucketState
<1>4. PICK told : /\ Registered(t) => told \in RetryAfter(b)
                 /\ wait' = IF Registered(t) THEN [wait EXCEPT ![key[t]] = 2 * told + Grain] ELSE wait
  BY DEF Deny, Tell
<1>. DEFINE w == 2 * told + Grain
<1>5. Registered(t) => Due(new, w)
  BY <1>1, <1>2, <1>4, DenyIsDue
<1>. HIDE DEF new
<1>6. /\ BucketsOK'
      /\ \A k \in Keys : buckets[k] # 0 =>
            Current(k)' = IF key[t] = k /\ Registered(t) THEN new ELSE Current(k)
  BY <1>1, <1>3, ReturnIs DEF RetryInv
<1>. HIDE DEF b, w
<1>7. ASSUME NEW k \in Keys
      PROVE  /\ buckets'[k] = 0 => wait'[k] = NoWait
             /\ buckets'[k] # 0 /\ wait'[k] # NoWait => Due(Current(k)', wait'[k])
  <2>1. CASE key[t] = k /\ Registered(t)
    <3>1. buckets[k] # 0 /\ wait'[k] = w
      BY <1>1, <1>4, <2>1 DEF Registered, RetryInv, WaitsOK, w
    <3>. QED
      BY <1>1, <1>5, <1>6, <2>1, <3>1
  <2>2. CASE ~(key[t] = k /\ Registered(t))
    <3>1. wait'[k] = wait[k] /\ (buckets[k] # 0 => Current(k)' = Current(k))
      BY <1>4, <1>6, <2>2 DEF RetryInv, WaitsOK
    <3>. QED
      BY <1>1, <3>1 DEF RetryInv, WaitsOK
  <2>. QED
    BY <2>1, <2>2
<1>8. WaitsOK'
  BY <1>4, <1>7 DEF RetryInv, WaitsOK
<1>. QED
  BY <1>6, <1>8 DEF RetryInv

LEMMA ResetKeeps ==
    ASSUME RetryInv, NEW ks \in SUBSET Keys, Reset(ks)
    PROVE  RetryInv'
<1>1. /\ buckets' = [k \in Keys |-> IF k \in ks THEN 0 ELSE buckets[k]]
      /\ bucket' = [i \in Referred(buckets', held) |-> bucket[i]]
      /\ wait' = [k \in Keys |-> IF k \in ks THEN NoWait ELSE wait[k]]
      /\ UNCHANGED <<key, held>>
  BY DEF Reset
<1>2. Referred(buckets', held) \subseteq Referred(buckets, held)
  BY <1>1 DEF Referred
<1>3. Referred(buckets, held)' = Referred(buckets', held)
  BY <1>1 DEF Referred
<1>4. BucketsOK'
  <2>1. \A i \in DOMAIN bucket' : bucket'[i] \in BucketState
    BY <1>1, <1>2 DEF RetryInv, BucketsOK
  <2>. QED
    BY <1>1, <1>3, <2>1 DEF RetryInv, BucketsOK
<1>5. \A k \in Keys : buckets'[k] # 0 => buckets[k] # 0 /\ wait'[k] = wait[k] /\ Current(k)' = Current(k)
  <2>. SUFFICES ASSUME NEW k \in Keys, buckets'[k] # 0
                PROVE  buckets[k] # 0 /\ wait'[k] = wait[k] /\ Current(k)' = Current(k)
    OBVIOUS
  <2>1. k \notin ks /\ buckets'[k] = buckets[k] /\ wait'[k] = wait[k]
    BY <1>1
  <2>2. <<k, buckets'[k]>> \in Referred(buckets', held)
    BY DEF Referred
  <2>. QED
    BY <1>1, <2>1, <2>2 DEF Current
<1>6. WaitsOK'
  BY <1>1, <1>5 DEF RetryInv, WaitsOK
<1>. QED
  BY <1>4, <1>6 DEF RetryInv

LEMMA TickKeeps ==
    ASSUME RetryInv, Tick
    PROVE  RetryInv'
<1>1. /\ bucket' = [i \in DOMAIN bucket |-> [bucket[i] EXCEPT !.idle = Smaller(@ + 1, Minute)]]
      /\ wait' = [k \in Keys |-> IF wait[k] = NoWait THEN NoWait
                               ELSE IF wait[k] < 2 THEN 0 ELSE wait[k] - 2]
      /\ UNCHANGED <<buckets, key, held>>
  BY DEF Tick
<1>2. \A i \in DOMAIN bucket : bucket'[i] \in BucketState
  <2>. SUFFICES ASSUME NEW i \in DOMAIN bucket PROVE bucket'[i] \in BucketState
    OBVIOUS
  <2>1. bucket[i] \in BucketState
    BY DEF RetryInv, BucketsOK
  <2>2. Smaller(bucket[i].idle + 1, Minute) \in 0..Minute
    BY <2>1, RateAssumption DEF BucketState, Smaller
  <2>. QED
    BY <1>1, <2>1, <2>2 DEF BucketState
<1>3. BucketsOK'
  BY <1>1, <1>2 DEF RetryInv, BucketsOK, Referred
<1>4. ASSUME NEW k \in Keys
      PROVE  /\ buckets'[k] = 0 => wait'[k] = NoWait
             /\ buckets'[k] # 0 /\ wait'[k] # NoWait => Due(Current(k)', wait'[k])
  <2>0. wait'[k] = IF wait[k] = NoWait THEN NoWait ELSE IF wait[k] < 2 THEN 0 ELSE wait[k] - 2
    BY <1>1
  <2>1. wait[k] = NoWait => wait'[k] = NoWait
    BY <2>0
  <2>2. CASE buckets[k] # 0 /\ wait[k] # NoWait
    <3>1. <<k, buckets[k]>> \in DOMAIN bucket /\ Current(k) \in BucketState
      BY <2>2, CurrentIsThere DEF RetryInv
    <3>2. Current(k)' = [Current(k) EXCEPT !.idle = Smaller(@ + 1, Minute)]
      BY <1>1, <3>1 DEF Current
    <3>3. Due(Current(k), wait[k])
      BY <2>2 DEF RetryInv, WaitsOK
    <3>4. Due(Current(k)', wait'[k])
      BY <2>0, <2>2, <3>1, <3>2, <3>3, TickIsDue
    <3>. QED
      BY <1>1, <2>2, <3>4
  <2>. QED
    BY <1>1, <2>1, <2>2 DEF RetryInv, WaitsOK
<1>5. WaitsOK'
  BY <1>1, <1>4 DEF WaitsOK
<1>. QED
  BY <1>3, <1>5 DEF RetryInv

\* A client that waits half a Grain longer than it was told finds a token, and
\* one that comes more than half a Grain before its time does not
\* (RetryAfterClose of RateLimiter).
THEOREM RetryAfterIsClose == Spec => []RetryAfterClose
<1>1. Init => RetryInv
  BY DEF Init, RetryInv, BucketsOK, WaitsOK, Referred
<1>2. RetryInv /\ [Next]_vars => RetryInv'
  <2>. SUFFICES ASSUME RetryInv, [Next]_vars PROVE RetryInv'
    OBVIOUS
  <2>1. CASE UNCHANGED vars
    BY <2>1 DEF vars, RetryInv, BucketsOK, WaitsOK, Referred, Current, Due
  <2>2. CASE \E k \in Keys : Reset({k})
    BY <2>2, ResetKeeps
  <2>3. CASE Reset(Keys)
    BY <2>3, ResetKeeps
  <2>. QED
    BY <2>1, <2>2, <2>3, GetBucketKeeps, AllowKeeps, DenyKeeps, TickKeeps DEF Next
<1>3. RetryInv => RetryAfterClose
  <2>. SUFFICES ASSUME RetryInv, NEW k \in Keys, buckets[k] # 0, wait[k] # NoWait
                PROVE  /\ wait[k] > 2 * Grain => Credit(Current(k)) < Cost
                       /\ wait[k] = 0 => Credit(Current(k)) >= Cost
    BY DEF RetryAfterClose
  <2>. QED
    BY CurrentIsThere, DueIsClose DEF RetryInv, WaitsOK
<1>. QED
  BY <1>1, <1>2, <1>3, PTL DEF Spec
-------------------------------------------------------------------------------
\* There is always a number that no reference to one of k's buckets bears: the
\* threads that hold one are fewer than the numbers.
LEMMA FreshIs ==
    ASSUME NEW k \in Keys, buckets[k] = 0
    PROVE  Fresh(k) \in Numbers /\ <<k, Fresh(k)>> \notin Referred(buckets, held)
<1>. DEFINE S == {u \in Threads : held[u] \in Numbers}
            f == [u \in S |-> held[u]]
<1>1. Cardinality(Threads) \in Nat /\ Cardinality(Numbers) = Cardinality(Threads) + 1
      /\ 0 \notin Numbers
  <2>1. Cardinality(Threads) \in Nat
    BY RateAssumption, FS_CardinalityType
  <2>2. Cardinality(1..(Cardinality(Threads) + 1)) = Cardinality(Threads) + 1
    BY <2>1, FS_Interval
  <2>. QED
    BY <2>1, <2>2 DEF Numbers
<1>2. IsFiniteSet(S) /\ Cardinality(S) <= Cardinality(Threads)
  BY RateAssumption, FS_Subset
<1>3. \E n \in Numbers : <<k, n>> \notin Referred(buckets, held)
  <2>. SUFFICES ASSUME \A n \in Numbers : <<k, n>> \in Referred(buckets, held) PROVE FALSE
    OBVIOUS
  <2>1. \A n \in Numbers : \E u \in S : f[u] = n
    BY <1>1 DEF Referred
  <2>2. f \in Surjection(S, Numbers)
    BY <2>1 DEF Surjection
  <2>3. Cardinality(Numbers) <= Cardinality(S)
    BY <1>2, <2>2, FS_Surjection DEF ExistsSurjection
  <2>. QED
    BY <1>1, <1>2, <2>3, FS_CardinalityType
<1>. QED
  BY <1>3 DEF Fresh

\* The types of a bucket suffice for what was said of buckets above.
LEMMA TypesAreOK == ASSUME TypeOK PROVE BucketsOK
<1>1. \A i \in DOMAIN bucket : bucket[i] \in BucketState
  <2>. SUFFICES ASSUME NEW i \in DOMAIN bucket PROVE bucket[i] \in BucketState
    OBVIOUS
  <2>1. bucket[i] \in Bucket
    BY DEF TypeOK
  <2>2. \A r \in Rates : Effective(r) \in Nat \ {0}
    BY RateAssumption DEF Effective
  <2>. QED
    BY <2>1, <2>2 DEF Bucket, BucketState
<1>. QED
  BY <1>1 DEF TypeOK, BucketsOK

\* A bucket never holds more than it can.
LEMMA CreditIs ==
    ASSUME NEW b \in Bucket
    PROVE  /\ Credit(b) \in Nat /\ Capacity(b) \in Nat /\ Credit(b) <= Capacity(b)
           /\ b.rate \in Nat \ {0} /\ b.tokens \in Nat /\ b.idle \in 0..Minute
           /\ b.idle * b.rate \in Nat
<1>1. b.rate \in Nat \ {0} /\ b.tokens \in Nat /\ b.idle \in 0..Minute /\ Minute \in Nat
  BY RateAssumption DEF Bucket, Effective
<1>2. b.idle * b.rate \in Nat /\ b.rate * Minute \in Nat
  BY <1>1
<1>. QED
  BY <1>1, <1>2 DEF Credit, Capacity, Smaller

LEMMA NewBucketIs ==
    ASSUME NEW rate \in Rates
    PROVE  /\ NewBucket(Effective(rate)) \in Bucket
           /\ Credit(NewBucket(Effective(rate))) = Capacity(NewBucket(Effective(rate)))
<1>. DEFINE r == Effective(rate)
<1>1. r \in Nat \ {0} /\ r \in {Effective(q) : q \in Rates} /\ Minute \in Nat
  BY RateAssumption DEF Effective
<1>. HIDE DEF r
<1>2. r * Minute \in Nat /\ 0 * r = 0 /\ 0 \in 0..Minute
  BY <1>1
<1>3. NewBucket(r) \in Bucket
  BY <1>1, <1>2 DEF NewBucket, Bucket, Capacity
<1>4. Credit(NewBucket(r)) = Capacity(NewBucket(r))
  BY <1>1, <1>2 DEF NewBucket, Credit, Capacity, Smaller
<1>. QED
  BY <1>3, <1>4 DEF r

\* What a draw leaves, whether or not it takes a token along.
LEMMA DrawnIs ==
    ASSUME NEW b \in Bucket, NEW n \in Nat, n <= Credit(b)
    PROVE  LET new == [b EXCEPT !.tokens = n, !.idle = 0]
           IN  new \in Bucket /\ Credit(new) = n /\ new.rate = b.rate /\ Capacity(new) = Capacity(b)
<1>. DEFINE new == [b EXCEPT !.tokens = n, !.idle = 0]
<1>1. new.tokens = n /\ new.idle = 0 /\ new.rate = b.rate /\ Capacity(new) = Capacity(b)
  BY DEF Bucket, Capacity
<1>2. n <= Capacity(b) /\ 0 * b.rate = 0 /\ Capacity(b) \in Nat /\ 0 \in 0..Minute
  BY CreditIs, RateAssumption
<1>3. new \in Bucket
  BY <1>1, <1>2 DEF Bucket
<1>. HIDE DEF new
<1>4. Credit(new) = n
  BY <1>1, <1>2 DEF Credit, Smaller
<1>. QED
  BY <1>1, <1>3, <1>4 DEF new

\* A tick brings a tick's worth of tokens, or fills the bucket.
LEMMA TickCredits ==
    ASSUME NEW b \in Bucket
    PROVE  LET new == [b EXCEPT !.idle = Smaller(@ + 1, Minute)]
           IN  /\ new \in Bucket /\ new.rate = b.rate /\ Capacity(new) = Capacity(b)
               /\ Credit(new) <= Credit(b) + b.rate
               /\ Credit(new) = Capacity(b) \/ Credit(new) = Credit(b) + b.rate
<1>. DEFINE n == Smaller(b.idle + 1, Minute)
            new == [b EXCEPT !.idle = Smaller(@ + 1, Minute)]
            t == b.tokens
            r == b.rate
<1>1. /\ r \in Nat \ {0} /\ t \in Nat /\ b.idle \in 0..Minute /\ Minute \in Nat \ {0}
      /\ b.idle * r \in Nat /\ Capacity(b) \in Nat
  BY CreditIs, RateAssumption
<1>2. n \in 0..Minute /\ (b.idle = Minute => n = Minute) /\ (b.idle # Minute => n = b.idle + 1)
  <2>. DEFINE i == b.idle
  <2>1. i \in 0..Minute /\ Minute \in Nat
    BY <1>1
  <2>. HIDE DEF i
  <2>2. Smaller(i + 1, Minute) \in 0..Minute /\ (i = Minute => Smaller(i + 1, Minute) = Minute)
        /\ (i # Minute => Smaller(i + 1, Minute) = i + 1)
    BY <2>1 DEF Smaller
  <2>. QED
    BY <2>2 DEF i
<1>3. new.tokens = t /\ new.idle = n /\ new.rate = r /\ Capacity(new) = Capacity(b)
  BY DEF Bucket, Capacity
<1>4. new \in Bucket
  BY <1>2, <1>3 DEF Bucket
<1>. HIDE DEF n, new, t, r
<1>5. Credit(new) = Smaller(Capacity(b), t + n * r) /\ Credit(b) = Smaller(Capacity(b), t + b.idle * r)
  BY <1>3 DEF Credit, t, r
<1>6. CASE b.idle = Minute
  <2>1. Capacity(b) = Minute * r
    BY <1>1 DEF Capacity, r
  <2>2. Credit(new) = Capacity(b) /\ Credit(b) = Capacity(b)
    BY <1>1, <1>2, <1>5, <1>6, <2>1 DEF Smaller
  <2>. QED
    BY <1>1, <1>3, <1>4, <2>2 DEF new, r
<1>7. CASE b.idle # Minute
  <2>1. n * r = b.idle * r + r
    BY <1>1, <1>2, <1>7
  <2>2. /\ Credit(new) <= Credit(b) + r
        /\ Credit(new) = Capacity(b) \/ Credit(new) = Credit(b) + r
    BY <1>1, <1>5, <2>1 DEF Smaller
  <2>. QED
    BY <1>3, <1>4, <2>2 DEF new, r
<1>. QED
  BY <1>6, <1>7
-------------------------------------------------------------------------------
\* What each step does to the bucket a key has, for use in two invariants.
LEMMA GetBucketIs ==
    ASSUME TypeOK, NEW t \in Threads, NEW k \in Keys, NEW rate \in Rates, GetBucket(t, k, rate)
    PROVE  /\ TypeOK'
           /\ \A j \in Keys : buckets'[j] # 0 =>
                Current(j)' = IF buckets[j] = 0 THEN NewBucket(Effective(rate)) ELSE Current(j)
<1>. DEFINE n == IF buckets[k] = 0 THEN Fresh(k) ELSE buckets[k]
<1>1. /\ buckets' = [buckets EXCEPT ![k] = n] /\ held' = [held EXCEPT ![t] = n]
      /\ key' = [key EXCEPT ![t] = k] /\ held[t] = 0 /\ wait' = wait /\ hits' = hits
      /\ bucket' = [i \in DOMAIN bucket \cup {<<k, n>>} |->
                        IF i \in DOMAIN bucket THEN bucket[i] ELSE NewBucket(Effective(rate))]
  <2>1. buckets' = [buckets EXCEPT ![k] = n] /\ buckets'[k] = n
    BY DEF GetBucket, TypeOK
  <2>. QED
    BY <2>1 DEF GetBucket
<1>2. n \in Numbers /\ n # 0 /\ (buckets[k] = 0 => <<k, n>> \notin DOMAIN bucket)
  <2>1. buckets[k] = 0 => n \in Numbers /\ <<k, n>> \notin DOMAIN bucket
    BY FreshIs DEF TypeOK
  <2>2. 0 \notin Numbers
    BY RateAssumption, FS_CardinalityType DEF Numbers
  <2>. QED
    BY <2>1, <2>2 DEF TypeOK
<1>3. buckets[k] # 0 => n = buckets[k]
  OBVIOUS
<1>. HIDE DEF n
<1>4. Referred(buckets, held)' = Referred(buckets, held) \cup {<<k, n>>}
  <2>1. Referred(buckets, held)' \subseteq Referred(buckets, held) \cup {<<k, n>>}
    BY <1>1 DEF Referred, TypeOK
  <2>2. <<k, n>> \in Referred(buckets, held)'
    BY <1>1, <1>2 DEF Referred, TypeOK
  <2>3. \A j \in Keys : buckets[j] # 0 => buckets'[j] = buckets[j]
    BY <1>1, <1>3 DEF TypeOK
  <2>4. \A u \in Threads : held[u] # 0 => held'[u] = held[u] /\ key'[u] = key[u]
    BY <1>1 DEF TypeOK
  <2>5. Referred(buckets, held) \subseteq Referred(buckets, held)'
    <3>1. \A j \in Keys : buckets[j] # 0 => <<j, buckets[j]>> \in Referred(buckets, held)'
      <4>. SUFFICES ASSUME NEW j \in Keys, buckets[j] # 0
                    PROVE  <<j, buckets[j]>> \in Referred(buckets, held)'
        OBVIOUS
      <4>1. buckets'[j] # 0 /\ <<j, buckets[j]>> = <<j, buckets'[j]>>
        BY <2>3
      <4>. QED
        BY <4>1 DEF Referred
    <3>2. \A u \in Threads : held[u] # 0 => <<key[u], held[u]>> \in Referred(buckets, held)'
      BY <2>4 DEF Referred
    <3>. QED
      BY <3>1, <3>2 DEF Referred
  <2>. QED
    BY <2>1, <2>2, <2>5
<1>5. \A i \in DOMAIN bucket' : bucket'[i] \in Bucket
  BY <1>1, NewBucketIs DEF TypeOK
<1>6. TypeOK'
  <2>1. buckets' \in [Keys -> Numbers \cup {0}] /\ held' \in [Threads -> Numbers \cup {0}]
        /\ key' \in [Threads -> Keys \cup {NoKey}]
    BY <1>1, <1>2 DEF TypeOK
  <2>2. DOMAIN bucket' = Referred(buckets, held)'
    BY <1>1, <1>4 DEF TypeOK
  <2>. QED
    BY <1>1, <1>5, <2>1, <2>2 DEF TypeOK
<1>7. ASSUME NEW j \in Keys, buckets'[j] # 0
      PROVE  Current(j)' = IF buckets[j] = 0 THEN NewBucket(Effective(rate)) ELSE Current(j)
  <2>1. CASE buckets[j] # 0
    <3>1. buckets'[j] = buckets[j]
      BY <1>1, <1>3, <2>1 DEF TypeOK
    <3>2. <<j, buckets[j]>> \in DOMAIN bucket
      BY <2>1, CurrentIsThere, TypesAreOK
    <3>. QED
      BY <1>1, <2>1, <3>1, <3>2 DEF Current
  <2>2. CASE buckets[j] = 0
    <3>1. j = k /\ buckets'[j] = n
      BY <1>1, <1>7, <2>2 DEF TypeOK
    <3>2. <<j, buckets'[j]>> \in DOMAIN bucket' /\ <<j, buckets'[j]>> \notin DOMAIN bucket
      BY <1>1, <1>2, <2>2, <3>1
    <3>. QED
      BY <1>1, <2>2, <3>2 DEF Current
  <2>. QED
    BY <2>1, <2>2
<1>. QED
  BY <1>6, <1>7

LEMMA ReturnKeepsTypes ==
    ASSUME TypeOK, NEW t \in Threads, NEW new \in Bucket, held[t] # 0,
           Return(t, new), UNCHANGED buckets,
           hits' \in [Keys -> [0..Minute -> Nat]], wait' \in [Keys -> Nat \cup {NoWait}]
    PROVE  TypeOK'
<1>1. /\ key' = [key EXCEPT ![t] = NoKey] /\ held' = [held EXCEPT ![t] = 0]
      /\ bucket' = [i \in Referred(buckets, held') |-> IF i = Mine(t) THEN new ELSE bucket[i]]
  BY DEF Return
<1>2. Referred(buckets, held') \subseteq DOMAIN bucket
  BY <1>1 DEF Referred, TypeOK
<1>3. Referred(buckets, held)' = Referred(buckets, held')
  <2>1. \A u \in Threads : held'[u] # 0 => key'[u] = key[u]
    BY <1>1 DEF TypeOK
  <2>. QED
    BY <2>1 DEF Referred
<1>4. \A i \in DOMAIN bucket' : bucket'[i] \in Bucket
  BY <1>1, <1>2 DEF TypeOK
<1>5. held' \in [Threads -> Numbers \cup {0}] /\ key' \in [Threads -> Keys \cup {NoKey}]
  BY <1>1 DEF TypeOK
<1>. QED
  BY <1>1, <1>3, <1>4, <1>5 DEF TypeOK

LEMMA AllowIs ==
    ASSUME TypeOK, NEW t \in Threads, Allow(t)
    PROVE  /\ TypeOK'
           /\ \A k \in Keys : buckets[k] # 0 =>
                IF key[t] = k /\ Registered(t)
                THEN /\ Credit(Current(k)') = Credit(Current(k)) - Cost
                     /\ Capacity(Current(k)') = Capacity(Current(k))
                     /\ Current(k)'.rate = Current(k).rate
                     /\ \A w \in 0..Minute : hits'[k][w] = hits[k][w] + 1
                ELSE Current(k)' = Current(k) /\ hits'[k] = hits[k]
<1>. DEFINE b == bucket[Mine(t)]
            new == [b EXCEPT !.tokens = Credit(b) - Cost, !.idle = 0]
<1>1. /\ held[t] # 0 /\ Credit(b) >= Cost /\ Return(t, new) /\ buckets' = buckets
      /\ hits' = IF Registered(t)
                 THEN [hits EXCEPT ![key[t]] = [w \in 0..Minute |-> hits[key[t]][w] + 1]] ELSE hits
      /\ wait' = IF Registered(t) THEN [wait EXCEPT ![key[t]] = NoWait] ELSE wait
  <2>1. Registered(t) => hits' = [hits EXCEPT ![key[t]] = [w \in 0..Minute |-> hits[key[t]][w] + 1]]
    <3>. SUFFICES ASSUME Registered(t)
                  PROVE  hits' = [hits EXCEPT ![key[t]] = [w \in 0..Minute |-> hits[key[t]][w] + 1]]
      OBVIOUS
    <3>1. hits' = [hits EXCEPT ![key[t]] = [w \in 0..Minute |-> @[w] + 1]]
      BY DEF Allow
    <3>. QED
      BY <3>1
  <2>. QED
    BY <2>1 DEF Allow
<1>2. Mine(t) \in DOMAIN bucket
  BY <1>1 DEF TypeOK, Referred, Mine
<1>3. b \in Bucket /\ Credit(b) \in Nat
  BY <1>2, CreditIs DEF TypeOK
<1>4. /\ new \in Bucket /\ Credit(new) = Credit(b) - Cost
      /\ new.rate = b.rate /\ Capacity(new) = Capacity(b)
  <2>1. Credit(b) - Cost \in Nat /\ Credit(b) - Cost <= Credit(b)
    BY <1>1, <1>3, RateAssumption DEF Cost
  <2>. HIDE DEF b
  <2>. QED
    BY <1>3, <2>1, DrawnIs
<1>5. new \in BucketState
  <2>1. \A r \in Rates : Effective(r) \in Nat \ {0}
    BY RateAssumption DEF Effective
  <2>. HIDE DEF new
  <2>. QED
    BY <1>4, <2>1 DEF Bucket, BucketState
<1>. HIDE DEF new
<1>6. \A k \in Keys : buckets[k] # 0 =>
        Current(k)' = IF key[t] = k /\ Registered(t) THEN new ELSE Current(k)
  BY <1>1, <1>5, ReturnIs, TypesAreOK
<1>7. hits' \in [Keys -> [0..Minute -> Nat]] /\ wait' \in [Keys -> Nat \cup {NoWait}]
  <2>1. \A k \in Keys : [w \in 0..Minute |-> hits[k][w] + 1] \in [0..Minute -> Nat]
    <3>1. hits \in [Keys -> [0..Minute -> Nat]]
      BY DEF TypeOK
    <3>2. \A k \in Keys, w \in 0..Minute : hits[k][w] \in Nat
      BY <3>1
    <3>3. \A k \in Keys, w \in 0..Minute : hits[k][w] + 1 \in Nat
      BY <3>2
    <3>. QED
      BY <3>3
  <2>2. hits' \in [Keys -> [0..Minute -> Nat]]
    BY <1>1, <2>1 DEF TypeOK
  <2>3. wait' \in [Keys -> Nat \cup {NoWait}]
    BY <1>1 DEF TypeOK
  <2>. QED
    BY <2>2, <2>3
<1>8. TypeOK'
  BY <1>1, <1>4, <1>7, ReturnKeepsTypes
<1>9. ASSUME NEW k \in Keys, buckets[k] # 0
      PROVE  IF key[t] = k /\ Registered(t)
             THEN /\ Credit(Current(k)') = Credit(Current(k)) - Cost
                  /\ Capacity(Current(k)') = Capacity(Current(k))
                  /\ Current(k)'.rate = Current(k).rate
                  /\ \A w \in 0..Minute : hits'[k][w] = hits[k][w] + 1
             ELSE Current(k)' = Current(k) /\ hits'[k] = hits[k]
  <2>1. CASE key[t] = k /\ Registered(t)
    <3>1. b = Current(k) /\ Current(k)' = new
      BY <1>6, <1>9, <2>1 DEF Mine, Registered, Current
    <3>2. hits'[k] = [w \in 0..Minute |-> hits[k][w] + 1]
      BY <1>1, <2>1 DEF TypeOK
    <3>. HIDE DEF b
    <3>. QED
      BY <1>4, <2>1, <3>1, <3>2
  <2>2. CASE ~(key[t] = k /\ Registered(t))
    BY <1>1, <1>6, <1>9, <2>2 DEF TypeOK
  <2>. QED
    BY <2>1, <2>2
<1>. QED
  BY <1>8, <1>9

LEMMA DenyIs ==
    ASSUME TypeOK, NEW t \in Threads, Deny(t)
    PROVE  /\ TypeOK' /\ hits' = hits
           /\ \A k \in Keys : buckets[k] # 0 =>
                /\ Credit(Current(k)') = Credit(Current(k))
                /\ Capacity(Current(k)') = Capacity(Current(k))
                /\ Current(k)'.rate = Current(k).rate
<1>. DEFINE b == bucket[Mine(t)]
            new == [b EXCEPT !.tokens = Credit(b), !.idle = 0]
<1>1. /\ held[t] # 0 /\ Credit(b) < Cost /\ Return(t, new) /\ buckets' = buckets /\ hits' = hits
  BY DEF Deny
<1>2. Mine(t) \in DOMAIN bucket
  BY <1>1 DEF TypeOK, Referred, Mine
<1>3. b \in Bucket /\ Credit(b) \in Nat /\ b \in BucketState
  BY <1>1, <1>2, CreditIs, TypesAreOK, MineIsThere DEF TypeOK
<1>4. wait' = wait \/ \E w \in Nat : wait' = [wait EXCEPT ![key[t]] = w]
  <2>1. \A told \in RetryAfter(b) : 2 * told + Grain \in Nat
    BY <1>1, <1>3, DenyIsDue DEF Due
  <2>. HIDE DEF new
  <2>. QED
    BY <2>1 DEF Deny, Tell
<1>5. /\ new \in Bucket /\ Credit(new) = Credit(b)
      /\ new.rate = b.rate /\ Capacity(new) = Capacity(b)
  <2>1. Credit(b) <= Credit(b)
    BY <1>3
  <2>. HIDE DEF b
  <2>. QED
    BY <1>3, <2>1, DrawnIs
<1>6. new \in BucketState
  <2>1. \A r \in Rates : Effective(r) \in Nat \ {0}
    BY RateAssumption DEF Effective
  <2>. HIDE DEF new
  <2>. QED
    BY <1>5, <2>1 DEF Bucket, BucketState
<1>. HIDE DEF new
<1>7. \A k \in Keys : buckets[k] # 0 =>
        Current(k)' = IF key[t] = k /\ Registered(t) THEN new ELSE Current(k)
  BY <1>1, <1>6, ReturnIs, TypesAreOK
<1>8. wait' \in [Keys -> Nat \cup {NoWait}]
  BY <1>4 DEF TypeOK
<1>9. TypeOK'
  <2>1. hits' \in [Keys -> [0..Minute -> Nat]]
    BY <1>1 DEF TypeOK
  <2>. QED
    BY <1>1, <1>5, <1>8, <2>1, ReturnKeepsTypes
<1>10. ASSUME NEW k \in Keys, buckets[k] # 0
       PROVE  /\ Credit(Current(k)') = Credit(Current(k))
              /\ Capacity(Current(k)') = Capacity(Current(k))
              /\ Current(k)'.rate = Current(k).rate
  <2>1. CASE key[t] = k /\ Registered(t)
    <3>1. b = Current(k) /\ Current(k)' = new
      BY <1>7, <1>10, <2>1 DEF Mine, Registered, Current
    <3>. HIDE DEF b
    <3>. QED
      BY <1>5, <3>1
  <2>2. CASE ~(key[t] = k /\ Registered(t))
    BY <1>7, <1>10, <2>2
  <2>. QED
    BY <2>1, <2>2
<1>. QED
  BY <1>1, <1>9, <1>10

LEMMA ResetIs ==
    ASSUME TypeOK, NEW ks \in SUBSET Keys, Reset(ks)
    PROVE  /\ TypeOK'
           /\ \A k \in Keys : k \in ks => buckets'[k] = 0 /\ hits'[k] = [w \in 0..Minute |-> 0]
           /\ \A k \in Keys : k \notin ks => buckets'[k] = buckets[k] /\ hits'[k] = hits[k]
           /\ \A k \in Keys : k \notin ks /\ buckets[k] # 0 => Current(k)' = Current(k)
<1>1. /\ buckets' = [k \in Keys |-> IF k \in ks THEN 0 ELSE buckets[k]]
      /\ bucket' = [i \in Referred(buckets', held) |-> bucket[i]]
      /\ hits' = [k \in Keys |-> IF k \in ks THEN [w \in 0..Minute |-> 0] ELSE hits[k]]
      /\ wait' = [k \in Keys |-> IF k \in ks THEN NoWait ELSE wait[k]]
      /\ UNCHANGED <<key, held>>
  BY DEF Reset
<1>2. Referred(buckets', held) \subseteq DOMAIN bucket
  BY <1>1 DEF Referred, TypeOK
<1>3. Referred(buckets, held)' = Referred(buckets', held)
  BY <1>1 DEF Referred
<1>4. TypeOK'
  <2>1. \A i \in DOMAIN bucket' : bucket'[i] \in Bucket
    BY <1>1, <1>2 DEF TypeOK
  <2>2. hits' \in [Keys -> [0..Minute -> Nat]]
    <3>1. [w \in 0..Minute |-> 0] \in [0..Minute -> Nat]
      OBVIOUS
    <3>. QED
      BY <1>1, <3>1 DEF TypeOK
  <2>. QED
    BY <1>1, <1>3, <2>1, <2>2 DEF TypeOK
<1>5. ASSUME NEW k \in Keys, k \notin ks, buckets[k] # 0 PROVE Current(k)' = Current(k)
  <2>1. <<k, buckets'[k]>> \in Referred(buckets', held) /\ buckets'[k] = buckets[k]
    BY <1>1, <1>5 DEF Referred
  <2>. QED
    BY <1>1, <2>1 DEF Current
<1>. QED
  BY <1>1, <1>4, <1>5

LEMMA TickIs ==
    ASSUME TypeOK, Tick
    PROVE  /\ TypeOK' /\ buckets' = buckets
           /\ \A k \in Keys :
                hits'[k] = [w \in 0..Minute |-> IF w = 0 THEN 0 ELSE hits[k][w - 1]]
           /\ \A k \in Keys : buckets[k] # 0 =>
                Current(k)' = [Current(k) EXCEPT !.idle = Smaller(@ + 1, Minute)]
<1>1. /\ bucket' = [i \in DOMAIN bucket |-> [bucket[i] EXCEPT !.idle = Smaller(@ + 1, Minute)]]
      /\ hits' = [k \in Keys |-> [w \in 0..Minute |-> IF w = 0 THEN 0 ELSE hits[k][w - 1]]]
      /\ wait' = [k \in Keys |-> IF wait[k] = NoWait THEN NoWait
                               ELSE IF wait[k] < 2 THEN 0 ELSE wait[k] - 2]
      /\ UNCHANGED <<buckets, key, held>>
  BY DEF Tick
<1>2. \A i \in DOMAIN bucket' : bucket'[i] \in Bucket
  BY <1>1, TickCredits DEF TypeOK
<1>3. hits' \in [Keys -> [0..Minute -> Nat]]
  <2>. SUFFICES ASSUME NEW k \in Keys, NEW w \in 0..Minute, w # 0 PROVE hits[k][w - 1] \in Nat
    BY <1>1
  <2>1. w - 1 \in 0..Minute
    BY RateAssumption
  <2>. QED
    BY <2>1 DEF TypeOK
<1>4. wait' \in [Keys -> Nat \cup {NoWait}]
  BY <1>1 DEF TypeOK
<1>5. DOMAIN bucket' = Referred(buckets, held)'
  BY <1>1 DEF Referred, TypeOK
<1>6. TypeOK'
  BY <1>1, <1>2, <1>3, <1>4, <1>5 DEF TypeOK
<1>7. ASSUME NEW k \in Keys, buckets[k] # 0
      PROVE  Current(k)' = [Current(k) EXCEPT !.idle = Smaller(@ + 1, Minute)]
  <2>1. <<k, buckets[k]>> \in DOMAIN bucket
    BY <1>7, CurrentIsThere, TypesAreOK
  <2>. QED
    BY <1>1, <2>1 DEF Current
<1>. QED
  BY <1>1, <1>6, <1>7
-------------------------------------------------------------------------------
\* What a bucket has in it and what its key was let through to, together: at
\* most a full bucket and what comes in over any stretch, and no less than what
\* came in over a stretch that a full bucket could hold.  A key without a bucket
\* was let through to nothing.
Flow(k, w) ==
    /\ hits[k][w] * Cost + Credit(Current(k)) <= Capacity(Current(k)) + w * Current(k).rate
    /\ w < Minute => hits[k][w] * Cost + Credit(Current(k)) >= (w + 1) * Current(k).rate

FlowInv ==
    /\ TypeOK
    /\ \A k \in Keys : buckets[k] = 0 => hits[k] = [w \in 0..Minute |-> 0]
    /\ \A k \in Keys, w \in 0..Minute : buckets[k] # 0 => Flow(k, w)

LEMMA CurrentIsBucket ==
    ASSUME TypeOK, NEW k \in Keys, buckets[k] # 0
    PROVE  Current(k) \in Bucket
BY CurrentIsThere, TypesAreOK DEF TypeOK, Current

\* The terms of Flow are numbers.
LEMMA FlowTerms ==
    ASSUME TypeOK, NEW k \in Keys, NEW w \in 0..Minute, buckets[k] # 0
    PROVE  /\ hits[k][w] \in Nat /\ hits[k][w] * Cost \in Nat
           /\ Credit(Current(k)) \in Nat /\ Capacity(Current(k)) \in Nat
           /\ Credit(Current(k)) <= Capacity(Current(k))
           /\ Capacity(Current(k)) = Minute * Current(k).rate
           /\ Current(k).rate \in Nat \ {0} /\ w * Current(k).rate \in Nat
           /\ (w + 1) * Current(k).rate = w * Current(k).rate + Current(k).rate
           /\ (hits[k][w] + 1) * Cost = hits[k][w] * Cost + Cost
           /\ Cost \in Nat \ {0} /\ Minute = Cost
           /\ w < Minute => (w + 1) * Current(k).rate <= Minute * Current(k).rate
<1>. DEFINE b == Current(k)
            r == b.rate
            h == hits[k][w]
<1>1. b \in Bucket
  BY CurrentIsBucket
<1>. HIDE DEF b
<1>2. r \in Nat \ {0} /\ w \in Nat /\ h \in Nat /\ Minute \in Nat \ {0}
  BY <1>1, CreditIs, RateAssumption DEF TypeOK
<1>3. Credit(b) \in Nat /\ Capacity(b) \in Nat /\ Credit(b) <= Capacity(b) /\ Capacity(b) = r * Minute
  BY <1>1, CreditIs DEF Capacity
<1>. HIDE DEF r, h
<1>4. /\ r * Minute = Minute * r /\ h * Minute \in Nat /\ w * r \in Nat
      /\ (w + 1) * r = w * r + r /\ (h + 1) * Minute = h * Minute + Minute
  BY <1>2
<1>5. w < Minute => (w + 1) * r <= Minute * r
  <2>. SUFFICES ASSUME w < Minute PROVE (w + 1) * r <= Minute * r
    OBVIOUS
  <2>1. Minute - (w + 1) \in Nat /\ w + 1 \in Nat /\ Minute = (w + 1) + (Minute - (w + 1))
    BY <1>2
  <2>2. ((w + 1) + (Minute - (w + 1))) * r >= (w + 1) * r
    BY <1>2, <2>1, Products
  <2>. QED
    BY <2>1, <2>2
<1>. QED
  BY <1>2, <1>3, <1>4, <1>5 DEF Cost, b, r, h

LEMMA GetBucketFlows ==
    ASSUME FlowInv, NEW t \in Threads, NEW k \in Keys, NEW rate \in Rates, GetBucket(t, k, rate)
    PROVE  FlowInv'
<1>1. /\ TypeOK' /\ hits' = hits
      /\ \A j \in Keys : buckets'[j] # 0 =>
            Current(j)' = IF buckets[j] = 0 THEN NewBucket(Effective(rate)) ELSE Current(j)
  <2>1. TypeOK
    BY DEF FlowInv
  <2>2. hits' = hits
    BY DEF GetBucket
  <2>. QED
    BY <2>1, <2>2, GetBucketIs
<1>2. \A j \in Keys : buckets'[j] = 0 => buckets[j] = 0
  <2>1. buckets' = buckets \/ (buckets[k] = 0 /\ \E n : buckets' = [buckets EXCEPT ![k] = n])
    BY DEF GetBucket
  <2>. QED
    BY <2>1 DEF FlowInv, TypeOK
<1>3. ASSUME NEW j \in Keys, NEW w \in 0..Minute, buckets'[j] # 0 PROVE Flow(j, w)'
  <2>1. CASE buckets[j] # 0
    BY <1>1, <1>3, <2>1 DEF FlowInv, Flow
  <2>2. CASE buckets[j] = 0
    <3>. DEFINE b == Current(j)'
    <3>1. b = NewBucket(Effective(rate)) /\ hits'[j][w] = 0
      BY <1>1, <1>3, <2>2 DEF FlowInv
    <3>2. b \in Bucket /\ Credit(b) = Capacity(b)
      BY <3>1, NewBucketIs
    <3>. HIDE DEF b
    <3>3. /\ b.rate \in Nat \ {0} /\ Capacity(b) \in Nat /\ Capacity(b) = b.rate * Minute
          /\ Minute \in Nat \ {0} /\ w \in Nat
      BY <3>2, CreditIs, RateAssumption DEF Capacity
    <3>4. w * b.rate \in Nat /\ Minute * b.rate = b.rate * Minute
      BY <3>3
    <3>5. w < Minute => (w + 1) * b.rate <= Minute * b.rate
      <4>. SUFFICES ASSUME w < Minute PROVE (w + 1) * b.rate <= Minute * b.rate
        OBVIOUS
      <4>1. Minute - (w + 1) \in Nat /\ w + 1 \in Nat /\ Minute = (w + 1) + (Minute - (w + 1))
        BY <3>3
      <4>2. ((w + 1) + (Minute - (w + 1))) * b.rate >= (w + 1) * b.rate
        BY <3>3, <4>1, Products
      <4>. QED
        BY <4>1, <4>2
    <3>6. hits'[j][w] * Cost = 0
      BY <3>1, <3>3 DEF Cost
    <3>7. /\ hits'[j][w] * Cost + Credit(b) <= Capacity(b) + w * b.rate
          /\ w < Minute => hits'[j][w] * Cost + Credit(b) >= (w + 1) * b.rate
      BY <3>2, <3>3, <3>4, <3>5, <3>6
    <3>. QED
      BY <3>7 DEF Flow, b
  <2>. QED
    BY <2>1, <2>2
<1>. QED
  BY <1>1, <1>2, <1>3 DEF FlowInv

LEMMA AllowFlows ==
    ASSUME FlowInv, NEW t \in Threads, Allow(t)
    PROVE  FlowInv'
<1>1. /\ TypeOK' /\ buckets' = buckets
      /\ \A k \in Keys : buckets[k] # 0 =>
            IF key[t] = k /\ Registered(t)
            THEN /\ Credit(Current(k)') = Credit(Current(k)) - Cost
                 /\ Capacity(Current(k)') = Capacity(Current(k))
                 /\ Current(k)'.rate = Current(k).rate
                 /\ \A w \in 0..Minute : hits'[k][w] = hits[k][w] + 1
            ELSE Current(k)' = Current(k) /\ hits'[k] = hits[k]
  BY AllowIs DEF FlowInv, Allow
<1>2. \A k \in Keys : buckets[k] = 0 => hits'[k] = hits[k]
  <2>. SUFFICES ASSUME NEW k \in Keys, buckets[k] = 0 PROVE hits'[k] = hits[k]
    OBVIOUS
  <2>1. ~(key[t] = k /\ Registered(t))
    BY DEF Allow, Registered
  <2>. QED
    BY <2>1 DEF Allow, FlowInv, TypeOK
<1>3. ASSUME NEW k \in Keys, NEW w \in 0..Minute, buckets[k] # 0 PROVE Flow(k, w)'
  <2>1. CASE key[t] = k /\ Registered(t)
    <3>1. /\ Credit(Current(k)') = Credit(Current(k)) - Cost
          /\ Capacity(Current(k)') = Capacity(Current(k))
          /\ Current(k)'.rate = Current(k).rate /\ hits'[k][w] = hits[k][w] + 1
      BY <1>1, <1>3, <2>1
    <3>2. Flow(k, w)
      BY <1>3 DEF FlowInv
    <3>3. hits'[k][w] * Cost + Credit(Current(k)') = hits[k][w] * Cost + Credit(Current(k))
      BY <1>3, <3>1, FlowTerms DEF FlowInv
    <3>. QED
      BY <3>1, <3>2, <3>3 DEF Flow
  <2>2. CASE ~(key[t] = k /\ Registered(t))
    BY <1>1, <1>3, <2>2 DEF FlowInv, Flow
  <2>. QED
    BY <2>1, <2>2
<1>. QED
  BY <1>1, <1>2, <1>3 DEF FlowInv

LEMMA DenyFlows ==
    ASSUME FlowInv, NEW t \in Threads, Deny(t)
    PROVE  FlowInv'
<1>1. /\ TypeOK' /\ buckets' = buckets /\ hits' = hits
      /\ \A k \in Keys : buckets[k] # 0 =>
            /\ Credit(Current(k)') = Credit(Current(k))
            /\ Capacity(Current(k)') = Capacity(Current(k))
            /\ Current(k)'.rate = Current(k).rate
  BY DenyIs DEF FlowInv, Deny
<1>. QED
  BY <1>1 DEF FlowInv, Flow

LEMMA ResetFlows ==
    ASSUME FlowInv, NEW ks \in SUBSET Keys, Reset(ks)
    PROVE  FlowInv'
<1>1. /\ TypeOK'
      /\ \A k \in Keys : k \in ks => buckets'[k] = 0 /\ hits'[k] = [w \in 0..Minute |-> 0]
      /\ \A k \in Keys : k \notin ks => buckets'[k] = buckets[k] /\ hits'[k] = hits[k]
      /\ \A k \in Keys : k \notin ks /\ buckets[k] # 0 => Current(k)' = Current(k)
  BY ResetIs DEF FlowInv
<1>2. ASSUME NEW k \in Keys, NEW w \in 0..Minute, buckets'[k] # 0 PROVE Flow(k, w)'
  <2>1. k \notin ks /\ buckets[k] # 0 /\ hits'[k] = hits[k] /\ Current(k)' = Current(k)
    BY <1>1, <1>2
  <2>. QED
    BY <2>1 DEF FlowInv, Flow
<1>. QED
  BY <1>1, <1>2 DEF FlowInv

LEMMA TickFlows ==
    ASSUME FlowInv, Tick
    PROVE  FlowInv'
<1>1. /\ TypeOK' /\ buckets' = buckets
      /\ \A k \in Keys : hits'[k] = [w \in 0..Minute |-> IF w = 0 THEN 0 ELSE hits[k][w - 1]]
      /\ \A k \in Keys : buckets[k] # 0 =>
            Current(k)' = [Current(k) EXCEPT !.idle = Smaller(@ + 1, Minute)]
  BY TickIs DEF FlowInv
<1>2. ASSUME NEW k \in Keys, buckets[k] = 0 PROVE hits'[k] = [w \in 0..Minute |-> 0]
  <2>1. hits[k] = [w \in 0..Minute |-> 0]
    BY <1>2 DEF FlowInv
  <2>2. \A w \in 0..Minute : w # 0 => w - 1 \in 0..Minute
    BY RateAssumption
  <2>3. \A w \in 0..Minute : w # 0 => hits[k][w - 1] = 0
    BY <2>1, <2>2
  <2>4. [w \in 0..Minute |-> IF w = 0 THEN 0 ELSE hits[k][w - 1]] = [w \in 0..Minute |-> 0]
    BY <2>3
  <2>. QED
    BY <1>1, <2>4
<1>3. ASSUME NEW k \in Keys, NEW w \in 0..Minute, buckets[k] # 0 PROVE Flow(k, w)'
  <2>. DEFINE b == Current(k)
              new == Current(k)'
              r == Current(k).rate
  <2>1. b \in Bucket
    BY <1>3, CurrentIsBucket DEF FlowInv
  <2>2. new = [b EXCEPT !.idle = Smaller(@ + 1, Minute)]
    BY <1>1, <1>3
  <2>3. /\ new.rate = r /\ Capacity(new) = Capacity(b) /\ Credit(new) <= Credit(b) + r
        /\ Credit(new) = Capacity(b) \/ Credit(new) = Credit(b) + r
        /\ Credit(new) <= Capacity(b) /\ Credit(new) \in Nat
    BY <2>1, <2>2, TickCredits, CreditIs
  <2>4. /\ hits[k][w] \in Nat /\ Credit(b) \in Nat /\ Capacity(b) \in Nat /\ Cost \in Nat
        /\ Capacity(b) = Minute * r /\ r \in Nat \ {0} /\ w * r \in Nat
        /\ (w + 1) * r = w * r + r /\ (w < Minute => (w + 1) * r <= Minute * r)
    BY <1>3, FlowTerms DEF FlowInv
  <2>5. CASE w = 0
    <3>1. hits'[k][w] * Cost = 0 /\ w * r = 0
      <4>1. hits'[k][w] = 0
        BY <1>1, <2>5, RateAssumption
      <4>. QED
        BY <2>4, <2>5, <4>1
    <3>2. r <= Capacity(b)
      <4>1. w < Minute
        BY <2>5, RateAssumption
      <4>. HIDE DEF b, r
      <4>. QED
        BY <2>4, <3>1, <4>1
    <3>3. /\ hits'[k][w] * Cost + Credit(new) <= Capacity(new) + w * new.rate
          /\ hits'[k][w] * Cost + Credit(new) >= (w + 1) * new.rate
      <4>1. w * new.rate = 0 /\ (w + 1) * new.rate = r
        BY <2>3, <2>4, <3>1
      <4>. HIDE DEF b, r, new
      <4>. QED
        BY <2>3, <2>4, <3>1, <3>2, <4>1
    <3>. QED
      BY <3>3 DEF Flow
  <2>6. CASE w # 0
    <3>1. w - 1 \in 0..Minute /\ w - 1 < Minute /\ (w - 1) + 1 = w
      BY <2>6, RateAssumption
    <3>2. hits'[k][w] = hits[k][w - 1]
      <4>1. hits'[k] = [v \in 0..Minute |-> IF v = 0 THEN 0 ELSE hits[k][v - 1]]
        BY <1>1
      <4>. QED
        BY <2>6, <4>1
    <3>3. /\ hits[k][w - 1] * Cost \in Nat /\ (w - 1) * r \in Nat
          /\ ((w - 1) + 1) * r = (w - 1) * r + r
      BY <1>3, <3>1, FlowTerms DEF FlowInv
    <3>4. Flow(k, w - 1)
      BY <1>3, <3>1 DEF FlowInv
    <3>5. /\ hits[k][w - 1] * Cost + Credit(b) <= Capacity(b) + (w - 1) * r
          /\ hits[k][w - 1] * Cost + Credit(b) >= w * r
      BY <3>1, <3>4 DEF Flow
    <3>6. w * r = (w - 1) * r + r
      BY <3>1, <3>3
    <3>7. /\ hits'[k][w] * Cost + Credit(new) <= Capacity(new) + w * new.rate
          /\ w < Minute => hits'[k][w] * Cost + Credit(new) >= (w + 1) * new.rate
      <4>. HIDE DEF b, r, new
      <4>. DEFINE x == hits[k][w - 1] * Cost
                  y == (w - 1) * r
      <4>1. x \in Nat /\ y \in Nat /\ x + Credit(b) <= Capacity(b) + y /\ x + Credit(b) >= y + r
            /\ hits'[k][w] * Cost = x /\ w * new.rate = y + r /\ (w + 1) * new.rate = y + r + r
            /\ (w < Minute => y + r + r <= Capacity(b))
        BY <2>3, <2>4, <3>2, <3>3, <3>5, <3>6
      <4>. HIDE DEF x, y
      <4>. QED
        BY <2>3, <2>4, <4>1
    <3>. QED
      BY <3>7 DEF Flow
  <2>. QED
    BY <2>5, <2>6
<1>. QED
  BY <1>1, <1>2, <1>3 DEF FlowInv

LEMMA FlowHolds == Spec => []FlowInv
<1>1. Init => FlowInv
  <2>. SUFFICES ASSUME Init PROVE FlowInv
    OBVIOUS
  <2>1. Referred(buckets, held) = {}
    BY DEF Init, Referred
  <2>2. hits \in [Keys -> [0..Minute -> Nat]] /\ wait \in [Keys -> Nat \cup {NoWait}]
    <3>1. [w \in 0..Minute |-> 0] \in [0..Minute -> Nat]
      OBVIOUS
    <3>. QED
      BY <3>1 DEF Init
  <2>3. DOMAIN bucket = {}
    BY DEF Init
  <2>4. TypeOK
    BY <2>1, <2>2, <2>3 DEF Init, TypeOK
  <2>. QED
    BY <2>4 DEF Init, FlowInv
<1>2. FlowInv /\ [Next]_vars => FlowInv'
  <2>. SUFFICES ASSUME FlowInv, [Next]_vars PROVE FlowInv'
    OBVIOUS
  <2>1. CASE UNCHANGED vars
    <3>1. TypeOK'
      BY <2>1 DEF vars, FlowInv, TypeOK, Referred
    <3>. QED
      BY <2>1, <3>1 DEF vars, FlowInv, Flow, Current
  <2>2. CASE \E k \in Keys : Reset({k})
    BY <2>2, ResetFlows
  <2>3. CASE Reset(Keys)
    BY <2>3, ResetFlows
  <2>. QED
    BY <2>1, <2>2, <2>3, GetBucketFlows, AllowFlows, DenyFlows, TickFlows DEF Next
<1>. QED
  BY <1>1, <1>2, PTL DEF Spec

\* What the state is made of (TypeOK of RateLimiter).
THEOREM TypesHold == Spec => []TypeOK
<1>1. FlowInv => TypeOK
  BY DEF FlowInv
<1>. QED
  BY <1>1, FlowHolds, PTL

\* The limit (NeverTooMany of RateLimiter): however the two locks of a check
\* interleave with other checks and with resets, no stretch of ticks lets more
\* through than a full bucket and what comes in meanwhile.
THEOREM TheLimitHolds == Spec => []NeverTooMany
<1>1. FlowInv => NeverTooMany
  <2>. SUFFICES ASSUME FlowInv, NEW k \in Keys, buckets[k] # 0, NEW w \in 0..Minute
                PROVE  hits[k][w] * Cost <= Capacity(Current(k)) + w * Current(k).rate
    BY DEF NeverTooMany
  <2>1. Flow(k, w)
    BY DEF FlowInv
  <2>2. /\ hits[k][w] * Cost \in Nat /\ Credit(Current(k)) \in Nat
        /\ Capacity(Current(k)) \in Nat /\ w * Current(k).rate \in Nat
    BY FlowTerms DEF FlowInv
  <2>. QED
    BY <2>1, <2>2 DEF Flow
<1>. QED
  BY <1>1, FlowHolds, PTL

\* And nothing is lost (NeverTooFew of RateLimiter): a key is turned away only
\* when the calls let through in the last minute number its rate or more.
THEOREM NothingIsLost == Spec => []NeverTooFew
<1>1. FlowInv => NeverTooFew
  <2>. SUFFICES ASSUME FlowInv, NEW k \in Keys, buckets[k] # 0, Credit(Current(k)) < Cost
                PROVE  hits[k][Minute - 1] >= Current(k).rate
    BY DEF NeverTooFew
  <2>. DEFINE w == Minute - 1
              h == hits[k][w]
              r == Current(k).rate
  <2>1. w \in 0..Minute /\ w < Minute /\ w + 1 = Minute /\ Minute \in Nat \ {0}
    BY RateAssumption
  <2>2. h * Cost + Credit(Current(k)) >= Minute * r
    <3>1. Flow(k, w)
      BY <2>1 DEF FlowInv
    <3>. QED
      BY <2>1, <3>1 DEF Flow
  <2>3. h \in Nat /\ Credit(Current(k)) \in Nat /\ r \in Nat \ {0} /\ Cost = Minute
    BY <2>1, FlowTerms DEF FlowInv
  <2>. HIDE DEF w, h, r
  <2>4. h * Minute \in Nat /\ Minute * r \in Nat /\ h * Minute + Minute > Minute * r
    BY <2>1, <2>2, <2>3
  <2>5. h >= r
    <3>. SUFFICES ASSUME h < r PROVE FALSE
      BY <2>3
    <3>1. r - (h + 1) \in Nat /\ h + 1 \in Nat /\ r = (h + 1) + (r - (h + 1))
      BY <2>3
    <3>2. ((h + 1) + (r - (h + 1))) * Minute >= (h + 1) * Minute
      BY <2>1, <3>1, Products
    <3>3. r * Minute >= (h + 1) * Minute
      BY <3>1, <3>2
    <3>4. (h + 1) * Minute = h * Minute + Minute /\ r * Minute = Minute * r
      BY <2>1, <2>3
    <3>. DEFINE x == h * Minute
                y == Minute * r
                z == (h + 1) * Minute
    <3>5. x \in Nat /\ y \in Nat /\ x + Minute > y /\ y >= z /\ z = x + Minute
      BY <2>4, <3>3, <3>4
    <3>. HIDE DEF x, y, z
    <3>. QED
      BY <2>1, <3>5
  <2>. QED
    BY <2>5 DEF w, h, r
<1>. QED
  BY <1>1, FlowHolds, PTL
===============================================================================
