-------------------------- MODULE RateLimiterProofs --------------------------
(***************************************************************************)
(* Proofs about RateLimiter, for every set of handlers and keys, every     *)
(* limit, window and sweep interval, and every delay of a request.         *)
(***************************************************************************)
EXTENDS RateLimiter, FiniteSetTheorems, TLAPS

\* A handler in allow read the clock in the past and has not answered yet.
ReadInThePast ==
    \A h \in Handlers : pc[h] = "lock" => stamp[h] <= now /\ retryAfter[h] = 0

\* The inductive invariant.
IInv == TypeOK /\ ReadInThePast

-----------------------------------------------------------------------------
\* Sweeping leaves zero values or the windows as they were.
LEMMA SweptType ==
    ASSUME TypeOK, NEW t \in Int
    PROVE  /\ Swept(t) \in [Keys -> [resetAt : Int, count : Nat]]
           /\ \A k \in Keys : t < windows[k].resetAt => Swept(t)[k] = windows[k]
BY DEF TypeOK, Swept, ZeroWindow, Zero

\* The window a request is counted in.
LEMMA CountedType ==
    ASSUME TypeOK, NEW k \in Keys, NEW t \in Nat
    PROVE  Counted(k, t) \in [resetAt : Int, count : Nat]
<1>1. Swept(t)[k] \in [resetAt : Int, count : Nat]
  BY SweptType
<1>2. Window[k] \in Nat
  BY LimitAssumption
<1> QED
  BY <1>1, <1>2 DEF Counted, Zero

\* Rounding up to whole seconds never falls short.
LEMMA RoundUp ==
    ASSUME NEW d \in Int
    PROVE  /\ RetryAfterSeconds(d) \in Nat
           /\ RetryAfterSeconds(d) * Second >= d
<1>1. Second \in Nat \ {0}
  BY LimitAssumption
<1>2. CASE d <= 0
  BY <1>1, <1>2 DEF RetryAfterSeconds
<1>3. CASE d > 0
  <2> DEFINE q == (d + Second - 1) \div Second
             r == (d + Second - 1) % Second
  <2>1. q \in Nat /\ r \in 0..(Second - 1) /\ d + Second - 1 = Second * q + r
    BY <1>1, <1>3
  <2>2. q * Second = Second * q
    BY <1>1, <2>1
  <2>3. q * Second >= d
    BY <1>1, <2>1, <2>2
  <2> QED
    BY <1>3, <2>1, <2>3 DEF RetryAfterSeconds
<1> QED
  BY <1>2, <1>3

\* The initial state satisfies the inductive invariant.
LEMMA InitIInv == Init => IInv
BY LimitAssumption DEF Init, IInv, TypeOK, ReadInThePast, ZeroWindow, Zero

\* Every step keeps the inductive invariant.
LEMMA NextIInv ==
    ASSUME IInv, [Next]_vars
    PROVE  IInv'
<1> USE DEF IInv
<1>1. ASSUME NEW h \in Handlers, NEW k \in Keys, ReadClock(h, k)
      PROVE  IInv'
  BY <1>1 DEF ReadClock, TypeOK, ReadInThePast
<1>2. ASSUME NEW h \in Handlers, Allow(h)
      PROVE  IInv'
  <2>1. key[h] \in Keys /\ stamp[h] \in Nat /\ Window[key[h]] \in Nat
    BY LimitAssumption DEF TypeOK
  <2>2. Counted(key[h], stamp[h]) \in [resetAt : Int, count : Nat]
    BY <2>1, CountedType
  <2>3. windows' \in [Keys -> [resetAt : Int, count : Nat]]
    <3>1. windows' = [Swept(stamp[h]) EXCEPT ![key[h]] = Counted(key[h], stamp[h])]
      BY <1>2 DEF Allow
    <3>2. Swept(stamp[h]) \in [Keys -> [resetAt : Int, count : Nat]]
      BY <2>1, SweptType
    <3> QED
      BY <2>1, <2>2, <3>1, <3>2
  <2>4. nextSweep' \in Int
    BY <1>2, <2>1, LimitAssumption DEF Allow, NextSweep, Lesser, TypeOK
  <2>5. retryAfter' \in [Handlers -> Nat]
    <3>1. RetryAfterSeconds(Counted(key[h], stamp[h]).resetAt - stamp[h]) \in Nat
      BY <2>1, <2>2, RoundUp
    <3> QED
      BY <1>2, <3>1 DEF Allow, TypeOK
  <2>6. ReadInThePast'
    BY <1>2 DEF Allow, TypeOK, ReadInThePast
  <2> QED
    BY <1>2, <2>3, <2>4, <2>5, <2>6 DEF Allow, TypeOK
<1>3. CASE Tick
  <2>1. now' = now + 1 /\ UNCHANGED <<maxDelay, windows, nextSweep, pc, key, stamp, retryAfter>>
    BY <1>3, Zenon DEF Tick
  <2> QED
    BY <2>1 DEF TypeOK, ReadInThePast
<1>4. CASE UNCHANGED vars
  BY <1>4 DEF vars, TypeOK, ReadInThePast
<1> QED
  BY <1>1, <1>2, <1>3, <1>4 DEF Next

\* The inductive invariant holds in every reachable state.
THEOREM Invariance == Spec => []IInv
BY InitIInv, NextIInv, PTL DEF Spec

\* Every field of the limiter keeps its type.
THEOREM TypeCorrect == Spec => []TypeOK
<1>1. IInv => TypeOK
  BY DEF IInv
<1> QED
  BY Invariance, <1>1, PTL

\* A running window survives every sweep and every late request.
THEOREM WindowsKept == Spec => LiveWindowKept
<1>1. ASSUME IInv, [Next]_vars
      PROVE  [\A k \in Keys : now < windows[k].resetAt =>
                /\ windows'[k].resetAt = windows[k].resetAt
                /\ windows'[k].count >= windows[k].count]_vars
  <2> SUFFICES ASSUME NEW k \in Keys, now < windows[k].resetAt
               PROVE  /\ windows'[k].resetAt = windows[k].resetAt
                      /\ windows'[k].count >= windows[k].count
    OBVIOUS
  <2>0. windows[k].resetAt \in Int /\ windows[k].count \in Nat /\ now \in Nat
    BY <1>1 DEF IInv, TypeOK
  <2>1. ASSUME NEW h \in Handlers, Allow(h)
        PROVE  /\ windows'[k].resetAt = windows[k].resetAt
               /\ windows'[k].count >= windows[k].count
    <3>1. key[h] \in Keys /\ stamp[h] \in Nat /\ stamp[h] < windows[k].resetAt
      BY <1>1, <2>0, <2>1 DEF Allow, IInv, TypeOK, ReadInThePast
    <3>2. Swept(stamp[h])[k] = windows[k]
      BY <1>1, <3>1, SweptType DEF IInv
    <3>3. windows'[k] = IF k = key[h] THEN Counted(k, stamp[h]) ELSE windows[k]
      <4>1. windows' = [Swept(stamp[h]) EXCEPT ![key[h]] = Counted(key[h], stamp[h])]
        BY <2>1 DEF Allow
      <4>2. Swept(stamp[h]) \in [Keys -> [resetAt : Int, count : Nat]]
        BY <1>1, <3>1, SweptType DEF IInv
      <4> QED
        BY <3>1, <3>2, <4>1, <4>2
    <3>4. windows[k] \in [resetAt : Int, count : Nat]
      BY <1>1 DEF IInv, TypeOK
    <3>5. Counted(k, stamp[h]) = [windows[k] EXCEPT !.count = @ + 1]
      BY <2>0, <3>1, <3>2 DEF Counted, Zero
    <3> QED
      BY <2>0, <3>3, <3>4, <3>5
  <2>2. (\E h \in Handlers : Allow(h)) \/ windows' = windows
    BY <1>1 DEF Next, ReadClock, Tick, vars
  <2> QED
    BY <2>0, <2>1, <2>2
<1> QED
  BY Invariance, <1>1, PTL DEF Spec, LiveWindowKept

\* A refused client that waits for Retry-After outlives the window.
THEOREM RetryAfterCorrect == Spec => RetryAfterSuffices
<1>1. ASSUME IInv, [Next]_vars
      PROVE  [\A h \in Handlers : (pc[h] = "lock" /\ retryAfter'[h] > 0) =>
                now + retryAfter'[h] * Second >= windows'[key[h]].resetAt]_vars
  <2> SUFFICES ASSUME NEW h \in Handlers, pc[h] = "lock", retryAfter'[h] > 0
               PROVE  now + retryAfter'[h] * Second >= windows'[key[h]].resetAt
    OBVIOUS
  <2>1. Allow(h)
    <3>1. retryAfter[h] = 0 /\ retryAfter \in [Handlers -> Nat] /\ pc \in [Handlers -> {"idle", "lock"}]
      BY <1>1 DEF IInv, TypeOK, ReadInThePast
    <3>2. ASSUME NEW g \in Handlers, NEW c \in Keys, ReadClock(g, c)
          PROVE  FALSE
      BY <3>1, <3>2 DEF ReadClock
    <3>3. ASSUME NEW g \in Handlers, Allow(g), g # h
          PROVE  FALSE
      BY <3>1, <3>3 DEF Allow
    <3>4. ~ Tick /\ ~ UNCHANGED vars
      <4>1. Tick => retryAfter' = retryAfter
        BY Zenon DEF Tick
      <4> QED
        BY <3>1, <4>1 DEF vars
    <3> QED
      BY <1>1, <3>2, <3>3, <3>4 DEF Next
  <2> DEFINE k == key[h]
             t == stamp[h]
             w == Counted(k, t)
  <2>2. k \in Keys /\ t \in Nat /\ t <= now /\ now \in Nat /\ retryAfter[h] = 0
    BY <1>1 DEF IInv, TypeOK, ReadInThePast
  <2>3. windows'[k] = w /\ w.resetAt \in Int
    <3>1. windows' = [Swept(t) EXCEPT ![k] = w]
      BY <2>1 DEF Allow
    <3>2. Swept(t) \in [Keys -> [resetAt : Int, count : Nat]]
      BY <1>1, <2>2, SweptType DEF IInv
    <3>3. w \in [resetAt : Int, count : Nat]
      BY <1>1, <2>2, CountedType DEF IInv
    <3> HIDE DEF w, k, t
    <3> QED
      BY <2>2, <3>1, <3>2, <3>3
  <2>4. retryAfter'[h] = RetryAfterSeconds(w.resetAt - t)
    BY <1>1, <2>1, <2>2 DEF Allow, IInv, TypeOK
  <2>5. retryAfter'[h] * Second >= w.resetAt - t /\ retryAfter'[h] \in Nat
    BY <2>2, <2>3, <2>4, RoundUp
  <2>6. retryAfter'[h] * Second \in Int
    BY <2>5, LimitAssumption
  <2> HIDE DEF w
  <2> QED
    BY <2>2, <2>3, <2>5, <2>6
<1> QED
  BY Invariance, <1>1, PTL DEF Spec, RetryAfterSuffices

-----------------------------------------------------------------------------
(* Eviction *)

\* A request does not wait longer for the lock than a window lasts.
DelaysWithinWindows == \A d \in Delays, k \in Keys : d <= Window[k]

\* Handlers are late by maxDelay at most, the next sweep is at most an interval
\* away, and no stored window ended more than an interval before it.
SweptInTime ==
    /\ maxDelay \in Delays
    /\ \A h \in Handlers : pc[h] = "lock" => now <= stamp[h] + maxDelay
    /\ nextSweep <= now + MaxSweepInterval
    /\ \A k \in Keys : \/ windows[k] = ZeroWindow
                       \/ windows[k].resetAt >= nextSweep - MaxSweepInterval

\* What allow leaves in the table: when the sweep was due, nothing that has ended by
\* the clock of the request; otherwise the windows that were there, and perhaps one
\* that starts with this request.
LEMMA Stored ==
    ASSUME IInv, SweptInTime, NEW h \in Handlers, Allow(h), NEW k \in Keys
    PROVE  LET t == stamp[h]
               due == SweepDue(t)
           IN  /\ due => \/ windows'[k] = ZeroWindow
                         \/ windows'[k].resetAt > t
               /\ ~ due => \/ windows'[k] = ZeroWindow
                           \/ windows'[k].resetAt >= nextSweep - MaxSweepInterval
                           \/ windows'[k].resetAt = t + Window[k]
<1> DEFINE t == stamp[h]
           s == Swept(t)
           w == Counted(key[h], t)
<1>1. key[h] \in Keys /\ t \in Nat
  BY DEF IInv, TypeOK
<1>2. s \in [Keys -> [resetAt : Int, count : Nat]] /\ w \in [resetAt : Int, count : Nat]
  <2>1. t \in Int
    BY <1>1
  <2>2. s \in [Keys -> [resetAt : Int, count : Nat]]
    BY <2>1, SweptType DEF IInv
  <2>3. w \in [resetAt : Int, count : Nat]
    BY <1>1, CountedType DEF IInv
  <2> QED
    BY <2>2, <2>3
<1>3. windows'[k] = IF k = key[h] THEN w ELSE s[k]
  <2>1. windows' = [s EXCEPT ![key[h]] = w]
    BY DEF Allow
  <2> HIDE DEF s, w
  <2> QED
    BY <1>1, <1>2, <2>1
<1>4. w.resetAt = t + Window[key[h]] \/ (w.resetAt = s[key[h]].resetAt /\ s[key[h]].resetAt > t)
  BY <1>1, <1>2 DEF Counted
<1>5. Window[key[h]] \in Nat \ {0}
  BY <1>1, LimitAssumption
<1>6. ASSUME NEW c \in Keys
      PROVE  /\ SweepDue(t) => s[c] = ZeroWindow \/ s[c].resetAt > t
             /\ ~ SweepDue(t) => s[c] = windows[c]
  BY <1>1 DEF Swept, IInv, TypeOK
<1>7. CASE SweepDue(t)
  BY <1>1, <1>2, <1>3, <1>4, <1>5, <1>6, <1>7
<1>8. CASE ~ SweepDue(t)
  <2>1. ASSUME NEW c \in Keys
        PROVE  s[c] = ZeroWindow \/ s[c].resetAt >= nextSweep - MaxSweepInterval
    BY <1>6, <1>8 DEF SweptInTime
  <2>2. s[key[h]].resetAt > t => s[key[h]] # ZeroWindow
    BY <1>1 DEF ZeroWindow, Zero
  <2> QED
    BY <1>1, <1>2, <1>3, <1>4, <1>8, <2>1, <2>2
<1> QED
  BY <1>7, <1>8

\* Every step keeps the schedule of the sweep.
LEMMA NextSweptInTime ==
    ASSUME DelaysWithinWindows, IInv, SweptInTime, [Next]_vars
    PROVE  SweptInTime'
<1>1. MaxSweepInterval \in Nat /\ now \in Nat /\ nextSweep \in Int /\ maxDelay \in Nat
  BY LimitAssumption DEF IInv, TypeOK
<1>2. ASSUME NEW h \in Handlers, NEW k \in Keys, ReadClock(h, k)
      PROVE  SweptInTime'
  BY <1>1, <1>2 DEF ReadClock, IInv, TypeOK, SweptInTime
<1>3. ASSUME NEW h \in Handlers, Allow(h)
      PROVE  SweptInTime'
  <2> DEFINE t == stamp[h]
  <2>1. /\ t \in Nat /\ t <= now /\ now <= t + maxDelay /\ key[h] \in Keys
        /\ maxDelay' = maxDelay /\ now' = now /\ nextSweep' = NextSweep(t, Window[key[h]])
    BY <1>3 DEF Allow, IInv, TypeOK, ReadInThePast, SweptInTime
  <2>2. \A g \in Handlers : pc'[g] = "lock" => now' <= stamp'[g] + maxDelay'
    BY <1>3 DEF Allow, IInv, TypeOK, SweptInTime
  <2>3. Window[key[h]] \in Nat
    BY <2>1, LimitAssumption
  <2>4. SweepDue(t) => nextSweep' <= t + MaxSweepInterval /\ nextSweep' \in Int
    BY <1>1, <2>1, <2>3 DEF NextSweep, Lesser
  <2>5. ~ SweepDue(t) => nextSweep' = nextSweep
    BY <2>1 DEF NextSweep
  <2>6. ASSUME NEW k \in Keys
        PROVE  windows'[k] = ZeroWindow \/ windows'[k].resetAt >= nextSweep' - MaxSweepInterval
    <3>1. windows'[k].resetAt \in Int
      BY <1>3, NextIInv DEF IInv, TypeOK, Next
    <3>2. CASE SweepDue(t)
      <4>1. windows'[k] = ZeroWindow \/ windows'[k].resetAt > t
        BY <1>3, <3>2, Stored
      <4> QED
        BY <1>1, <2>1, <2>4, <3>1, <3>2, <4>1
    <3>3. CASE ~ SweepDue(t)
      <4>1. \/ windows'[k] = ZeroWindow
            \/ windows'[k].resetAt >= nextSweep - MaxSweepInterval
            \/ windows'[k].resetAt = t + Window[k]
        BY <1>3, <3>3, Stored
      <4>2. Window[k] \in Nat /\ maxDelay <= Window[k]
        BY LimitAssumption DEF DelaysWithinWindows, SweptInTime
      <4>3. t + Window[k] >= nextSweep - MaxSweepInterval
        BY <1>1, <2>1, <4>2 DEF SweptInTime
      <4> QED
        BY <2>5, <3>3, <4>1, <4>3
    <3> QED
      BY <3>2, <3>3
  <2>7. nextSweep' <= now' + MaxSweepInterval
    BY <1>1, <2>1, <2>4, <2>5 DEF SweptInTime
  <2> QED
    BY <2>1, <2>2, <2>6, <2>7 DEF SweptInTime
<1>4. CASE Tick
  <2>1. /\ now' = now + 1 /\ UNCHANGED <<maxDelay, windows, nextSweep, pc, stamp>>
        /\ \A h \in Handlers : pc[h] = "lock" => now - stamp[h] < maxDelay
    BY <1>4, Zenon DEF Tick
  <2>2. \A h \in Handlers : stamp[h] \in Nat
    BY DEF IInv, TypeOK
  <2> QED
    BY <1>1, <2>1, <2>2 DEF SweptInTime
<1>5. CASE UNCHANGED vars
  BY <1>5 DEF vars, SweptInTime
<1> QED
  BY <1>2, <1>3, <1>4, <1>5 DEF Next

\* The windows of clients that went away are evicted in time (sweepExpired), as long
\* as no request waits longer for the lock than a window lasts.
THEOREM StaleWindowsEvicted ==
    ASSUME DelaysWithinWindows
    PROVE  Spec => EvictedInTime
<1>1. Init => SweptInTime
  BY LimitAssumption DEF Init, SweptInTime, Zero
<1>2. IInv /\ SweptInTime /\ [Next]_vars => SweptInTime'
  BY NextSweptInTime
<1>3. ASSUME IInv, SweptInTime, [Next]_vars
      PROVE  [\A h \in Handlers : (pc[h] = "lock" /\ pc'[h] = "idle" /\ stamp[h] = now) =>
                 \A k \in Keys : \/ windows'[k] = ZeroWindow
                                 \/ windows'[k].resetAt > now - MaxSweepInterval]_vars
  <2> SUFFICES ASSUME NEW h \in Handlers, pc[h] = "lock", pc'[h] = "idle", stamp[h] = now,
                      NEW k \in Keys
               PROVE  windows'[k] = ZeroWindow \/ windows'[k].resetAt > now - MaxSweepInterval
    OBVIOUS
  <2>1. Allow(h)
    <3>1. pc \in [Handlers -> {"idle", "lock"}]
      BY <1>3 DEF IInv, TypeOK
    <3>2. Tick => pc' = pc
      BY Zenon DEF Tick
    <3> QED
      BY <1>3, <3>1, <3>2 DEF Next, Allow, ReadClock, vars
  <2>2. /\ now \in Nat /\ MaxSweepInterval \in Nat \ {0} /\ nextSweep \in Int
        /\ windows'[k].resetAt \in Int /\ Window[k] \in Nat \ {0}
    BY <1>3, NextIInv, LimitAssumption DEF IInv, TypeOK
  <2>3. CASE SweepDue(now)
    BY <1>3, <2>1, <2>2, <2>3, Stored
  <2>4. CASE ~ SweepDue(now)
    <3>1. now < nextSweep
      BY <2>2, <2>4 DEF SweepDue
    <3>2. \/ windows'[k] = ZeroWindow
          \/ windows'[k].resetAt >= nextSweep - MaxSweepInterval
          \/ windows'[k].resetAt = now + Window[k]
      BY <1>3, <2>1, <2>4, Stored
    <3> QED
      BY <2>2, <3>1, <3>2
  <2> QED
    BY <2>3, <2>4
<1> QED
  BY <1>1, <1>2, <1>3, Invariance, PTL DEF Spec, EvictedInTime
-----------------------------------------------------------------------------
(* Bursts *)

\* S holds at most n requests, and fewer unless the first of them, which was there
\* at t, still is.
Spent(S, t, n) ==
    /\ IsFiniteSet(S)
    /\ Cardinality(S) <= n
    /\ Cardinality(S) < n \/ \E r \in S : r.at <= t

\* The admitted requests rec of key k at time t are those of at most three windows: C of
\* the one that was created last, at c, B of the one before, created at b, and A of the
\* one before that.  w is what is stored, d the longest delay of a request.
Cohorts(k, d, t, w, rec, A, B, C, b, c) ==
    /\ rec = A \cup B \cup C
    /\ IsFiniteSet(A) /\ Cardinality(A) < Limit[k] /\ \A r \in A : r.at <= b
    /\ Spent(B, b, Limit[k]) /\ \A r \in B : r.at <= c
    /\ Spent(C, c, Limit[k]) /\ \A r \in C : r.at <= t
    /\ b \in Int /\ c \in Int /\ b + Window[k] - d <= c /\ c <= t
    /\ w.resetAt = Zero => c + Window[k] - d <= t
    /\ w.resetAt # Zero => /\ w.resetAt >= 0
                           /\ c + Window[k] - d <= w.resetAt
                           /\ w.count < Limit[k] => Spent(C, c, w.count)

\* No admitted request has left its span.
Recent(k, t, rec) == \A r \in rec : r.at \in Int /\ r.at > t - Window[k]

HasCohorts(k, d, t, w, rec) ==
    /\ Recent(k, t, rec)
    /\ \E A, B, C \in SUBSET rec, b, c \in Int : Cohorts(k, d, t, w, rec, A, B, C, b, c)

DelaysBounded == \A h \in Handlers : pc[h] = "lock" => now - stamp[h] <= maxDelay

\* The inductive invariant of the bound on bursts.
BurstInv ==
    /\ IInv
    /\ DelaysBounded
    /\ DOMAIN recent = Keys
    /\ \A k \in Keys : 2 * maxDelay <= Window[k] =>
          HasCohorts(k, maxDelay, now, windows[k], recent[k])

\* What is left of S is spent too.
LEMMA SpentSubset ==
    ASSUME NEW S, NEW T \in SUBSET S, NEW t, NEW n \in Int, Spent(S, t, n)
    PROVE  Spent(T, t, n)
<1>1. /\ IsFiniteSet(T) /\ Cardinality(T) \in Nat /\ Cardinality(S) \in Nat
      /\ Cardinality(T) <= Cardinality(S)
      /\ Cardinality(S) = Cardinality(T) => S = T
  BY FS_Subset, FS_CardinalityType DEF Spent
<1> QED
  BY <1>1 DEF Spent

\* One more request.
LEMMA SpentAdd ==
    ASSUME NEW S, NEW x, NEW t, NEW n \in Int, Spent(S, t, n)
    PROVE  Spent(S \cup {x}, t, n + 1)
<1>1. IsFiniteSet(S) /\ Cardinality(S) \in Nat
  BY FS_CardinalityType DEF Spent
<1>2. /\ IsFiniteSet(S \cup {x})
      /\ Cardinality(S \cup {x}) = IF x \in S THEN Cardinality(S) ELSE Cardinality(S) + 1
  BY <1>1, FS_AddElement
<1>3. Cardinality(S \cup {x}) \in Nat /\ Cardinality(S \cup {x}) <= Cardinality(S) + 1
  BY <1>1, <1>2
<1> QED
  BY <1>1, <1>2, <1>3 DEF Spent

\* A larger bound.
LEMMA SpentMore ==
    ASSUME NEW S, NEW t, NEW m \in Int, NEW n \in Int, m < n, Spent(S, t, m)
    PROVE  Spent(S, t, n)
<1>1. Cardinality(S) \in Nat
  BY FS_CardinalityType DEF Spent
<1> QED
  BY <1>1 DEF Spent

\* The bound on bursts follows from the cohorts.
LEMMA CohortsBound ==
    ASSUME NEW k \in Keys, NEW d \in Nat, NEW t \in Int, NEW w, NEW rec,
           HasCohorts(k, d, t, w, rec)
    PROVE  Cardinality(rec) <= (IF d = 0 THEN 2 ELSE 3) * Limit[k] - 1
<1>1. PICK A, B, C \in SUBSET rec, b, c \in Int : Cohorts(k, d, t, w, rec, A, B, C, b, c)
  BY DEF HasCohorts
<1>2. Limit[k] \in Nat \ {0} /\ Window[k] \in Nat \ {0}
  BY LimitAssumption
<1>3. IsFiniteSet(A) /\ IsFiniteSet(B) /\ IsFiniteSet(C) /\ rec = (A \cup B) \cup C
  BY <1>1 DEF Cohorts, Spent
<1>4. /\ IsFiniteSet(A \cup B)
      /\ Cardinality(A \cup B) \in Nat /\ Cardinality(A \cap B) \in Nat
      /\ Cardinality(A) \in Nat /\ Cardinality(B) \in Nat /\ Cardinality(C) \in Nat
      /\ Cardinality(A \cup B) = Cardinality(A) + Cardinality(B) - Cardinality(A \cap B)
  BY <1>3, FS_Union, FS_CardinalityType, FS_Intersection
<1>5. Cardinality(rec) \in Nat /\ Cardinality(rec) <= Cardinality(A \cup B) + Cardinality(C)
  <2>1. /\ IsFiniteSet(rec)
        /\ Cardinality(rec) = Cardinality(A \cup B) + Cardinality(C) - Cardinality((A \cup B) \cap C)
    BY <1>3, <1>4, FS_Union
  <2>2. Cardinality(rec) \in Nat /\ Cardinality((A \cup B) \cap C) \in Nat
    BY <1>4, <2>1, FS_CardinalityType, FS_Intersection
  <2> QED
    BY <1>4, <2>1, <2>2
<1>6. /\ Cardinality(A) <= Limit[k] - 1 /\ Cardinality(B) <= Limit[k]
      /\ Cardinality(C) <= Limit[k]
  BY <1>1, <1>2, <1>4 DEF Cohorts, Spent
<1>7. Cardinality(rec) <= 3 * Limit[k] - 1
  BY <1>2, <1>4, <1>5, <1>6
<1>8. CASE d = 0
  <2>1. \A r \in A \cup B : r.at \in Int /\ r.at > b
    BY <1>1, <1>2, <1>8 DEF HasCohorts, Recent, Cohorts
  <2>2. A = {} /\ Cardinality(B) < Limit[k]
    BY <1>1, <2>1 DEF Cohorts, Spent
  <2>3. Cardinality(A) = 0
    BY <2>2, FS_EmptySet
  <2>4. Cardinality(rec) <= 2 * Limit[k] - 1
    BY <1>2, <1>4, <1>5, <1>6, <2>2, <2>3
  <2> QED
    BY <1>8, <2>4
<1> QED
  BY <1>2, <1>7, <1>8

\* The window is swept, or nothing is done to it.
LEMMA CohortsSwept ==
    ASSUME NEW k \in Keys, NEW d \in Nat, NEW t \in Int, NEW s \in Int, s <= t,
           NEW w \in [resetAt : Int, count : Nat], NEW v, NEW rec,
           v = w \/ (v = ZeroWindow /\ s >= w.resetAt),
           HasCohorts(k, d, t, w, rec)
    PROVE  HasCohorts(k, d, t, v, rec)
<1>1. PICK A, B, C \in SUBSET rec, b, c \in Int : Cohorts(k, d, t, w, rec, A, B, C, b, c)
  BY DEF HasCohorts
<1>2. Limit[k] \in Nat \ {0} /\ Window[k] \in Nat \ {0}
  BY LimitAssumption
<1>3. Cohorts(k, d, t, v, rec, A, B, C, b, c)
  BY <1>1, <1>2 DEF Cohorts, ZeroWindow, Zero
<1> QED
  BY <1>3 DEF HasCohorts

\* A request is counted in the window that is stored, and admitted or not.
LEMMA CohortsCounted ==
    ASSUME NEW k \in Keys, NEW d \in Nat, NEW t \in Int,
           NEW w \in [resetAt : Int, count : Nat], NEW rec, NEW x, x.at = t,
           w.resetAt # Zero,
           HasCohorts(k, d, t, w, rec),
           NEW v, v = [w EXCEPT !.count = @ + 1]
    PROVE  /\ v.count > Limit[k] => HasCohorts(k, d, t, v, rec)
           /\ v.count <= Limit[k] => HasCohorts(k, d, t, v, rec \cup {x})
<1>1. PICK A, B, C \in SUBSET rec, b, c \in Int : Cohorts(k, d, t, w, rec, A, B, C, b, c)
  BY DEF HasCohorts
<1>2. Limit[k] \in Nat \ {0} /\ Window[k] \in Nat \ {0}
  BY LimitAssumption
<1>3. v.resetAt = w.resetAt /\ v.count = w.count + 1 /\ w.count \in Nat /\ w.resetAt \in Int
  OBVIOUS
<1>4. CASE v.count > Limit[k]
  <2>1. Cohorts(k, d, t, v, rec, A, B, C, b, c)
    BY <1>1, <1>2, <1>3, <1>4 DEF Cohorts
  <2> QED
    BY <1>2, <1>3, <1>4, <2>1 DEF HasCohorts
<1>5. CASE v.count <= Limit[k]
  <2> DEFINE D == C \cup {x}
  <2>1. Spent(C, c, w.count)
    BY <1>1, <1>2, <1>3, <1>5 DEF Cohorts
  <2>2. Spent(D, c, v.count)
    <3>1. \E n \in Int : n = w.count
      BY <1>3
    <3>2. Spent(D, c, w.count + 1)
      BY <2>1, <3>1, SpentAdd
    <3> QED
      BY <1>3, <3>2
  <2>3. Spent(D, c, Limit[k])
    BY <1>2, <1>3, <1>5, <2>2, SpentMore
  <2>4. \A r \in D : r.at <= t
    BY <1>1 DEF Cohorts
  <2>5. rec \cup {x} = A \cup B \cup D
    BY <1>1 DEF Cohorts
  <2> HIDE DEF D
  <2>6. Cohorts(k, d, t, v, rec \cup {x}, A, B, D, b, c)
    BY <1>1, <1>3, <2>2, <2>3, <2>4, <2>5 DEF Cohorts
  <2>7. Recent(k, t, rec \cup {x})
    BY <1>2 DEF HasCohorts, Recent
  <2>8. HasCohorts(k, d, t, v, rec \cup {x})
    <3>1. A \in SUBSET (rec \cup {x}) /\ B \in SUBSET (rec \cup {x}) /\ D \in SUBSET (rec \cup {x})
      BY <2>5
    <3> QED
      BY <2>6, <2>7, <3>1 DEF HasCohorts
  <2> QED
    BY <1>2, <1>3, <1>5, <2>8
<1> QED
  BY <1>2, <1>3, <1>4, <1>5

\* A request starts a window: by then all requests of the last window but one are more
\* than a window's length old, and so is the first of the last one.
LEMMA CohortsStarted ==
    ASSUME NEW k \in Keys, NEW d \in Nat, 2 * d <= Window[k], NEW t \in Int,
           NEW s \in Nat, s <= t, t - s <= d,
           NEW w \in [resetAt : Int, count : Nat], NEW rec, NEW x, x.at = t,
           w.resetAt = Zero \/ s >= w.resetAt,
           HasCohorts(k, d, t, w, rec)
    PROVE  HasCohorts(k, d, t, [resetAt |-> s + Window[k], count |-> 1], rec \cup {x})
<1> DEFINE v == [resetAt |-> s + Window[k], count |-> 1]
<1>1. PICK A, B, C \in SUBSET rec, b, c \in Int : Cohorts(k, d, t, w, rec, A, B, C, b, c)
  BY DEF HasCohorts
<1>2. Limit[k] \in Nat \ {0} /\ Window[k] \in Nat \ {0}
  BY LimitAssumption
<1>3. c + Window[k] - d <= t
  BY <1>1, <1>2 DEF Cohorts
<1>4. b <= t - Window[k]
  BY <1>1, <1>2, <1>3 DEF Cohorts
<1>5. \A r \in A \cup B : r.at \in Int /\ r.at > b
  BY <1>1, <1>2, <1>4 DEF HasCohorts, Recent, Cohorts
<1>6. A = {}
  BY <1>1, <1>5 DEF Cohorts
<1>7. IsFiniteSet(B) /\ Cardinality(B) < Limit[k] /\ \A r \in B : r.at <= c
  BY <1>1, <1>5 DEF Cohorts, Spent
<1>8. Spent({x}, t, 1)
  <2>1. IsFiniteSet({x}) /\ Cardinality({x}) = 1
    BY FS_Singleton
  <2> QED
    BY <2>1 DEF Spent
<1>9. Spent({x}, t, Limit[k])
  BY <1>2, <1>8, SpentMore
<1>10. Spent(C, c, Limit[k]) /\ \A r \in C : r.at <= t
  BY <1>1 DEF Cohorts
<1>11. rec \cup {x} = B \cup C \cup {x}
  BY <1>1, <1>6 DEF Cohorts
<1>12. v.resetAt = s + Window[k] /\ v.count = 1 /\ v.resetAt # Zero /\ v.resetAt >= 0
  BY <1>2 DEF Zero
<1> HIDE DEF v
<1>13. Cohorts(k, d, t, v, rec \cup {x}, B, C, {x}, c, t)
  BY <1>2, <1>3, <1>7, <1>8, <1>9, <1>10, <1>11, <1>12 DEF Cohorts
<1>14. Recent(k, t, rec \cup {x})
  BY <1>2 DEF HasCohorts, Recent
<1>15. HasCohorts(k, d, t, v, rec \cup {x})
  <2>1. B \in SUBSET (rec \cup {x}) /\ C \in SUBSET (rec \cup {x}) /\ {x} \in SUBSET (rec \cup {x})
    BY <1>11
  <2> QED
    BY <1>13, <1>14, <2>1 DEF HasCohorts
<1> QED
  BY <1>15 DEF v

\* Time passes: requests leave the span.
LEMMA CohortsAge ==
    ASSUME NEW k \in Keys, NEW d \in Nat, NEW t \in Int,
           NEW w \in [resetAt : Int, count : Nat], NEW rec,
           HasCohorts(k, d, t, w, rec)
    PROVE  HasCohorts(k, d, t + 1, w, {r \in rec : r.at > t + 1 - Window[k]})
<1> DEFINE Left(S) == {r \in S : r.at > t + 1 - Window[k]}
<1>1. PICK A, B, C \in SUBSET rec, b, c \in Int : Cohorts(k, d, t, w, rec, A, B, C, b, c)
  BY DEF HasCohorts
<1>2. Limit[k] \in Nat \ {0} /\ Window[k] \in Nat \ {0}
  BY LimitAssumption
<1>3. Left(rec) = Left(A) \cup Left(B) \cup Left(C)
  BY <1>1 DEF Cohorts
<1>4. Left(A) \in SUBSET A /\ Left(B) \in SUBSET B /\ Left(C) \in SUBSET C
  OBVIOUS
<1>5. \A r \in rec : r.at \in Int
  BY DEF HasCohorts, Recent
<1>6. Recent(k, t + 1, Left(rec))
  <2>1. \A r \in Left(rec) : r.at \in Int /\ r.at > (t + 1) - Window[k]
    BY <1>2, <1>5
  <2> HIDE DEF Left
  <2> QED
    BY <2>1 DEF Recent
<1> HIDE DEF Left
<1>7. IsFiniteSet(Left(A)) /\ Cardinality(Left(A)) < Limit[k]
  <2>1. /\ IsFiniteSet(Left(A)) /\ Cardinality(Left(A)) <= Cardinality(A)
        /\ Cardinality(Left(A)) \in Nat /\ Cardinality(A) \in Nat /\ Cardinality(A) < Limit[k]
    BY <1>1, <1>4, FS_Subset, FS_CardinalityType DEF Cohorts
  <2> QED
    BY <1>2, <2>1
<1>8. Spent(Left(B), b, Limit[k]) /\ Spent(Left(C), c, Limit[k])
  BY <1>1, <1>2, <1>4, SpentSubset DEF Cohorts
<1>9. w.count \in Nat /\ w.resetAt \in Int
  OBVIOUS
<1>10. w.resetAt # Zero /\ w.count < Limit[k] => Spent(Left(C), c, w.count)
  BY <1>1, <1>4, <1>9, SpentSubset DEF Cohorts
<1>11. /\ \A r \in Left(A) : r.at <= b
       /\ \A r \in Left(B) : r.at <= c
       /\ \A r \in Left(C) : r.at <= t + 1
  BY <1>1, <1>4, <1>5 DEF Cohorts
<1>12. /\ b + Window[k] - d <= c /\ c <= t + 1
       /\ w.resetAt = Zero => c + Window[k] - d <= t + 1
       /\ w.resetAt # Zero => w.resetAt >= 0 /\ c + Window[k] - d <= w.resetAt
  BY <1>1, <1>2 DEF Cohorts
<1>13. Cohorts(k, d, t + 1, w, Left(rec), Left(A), Left(B), Left(C), b, c)
  BY <1>3, <1>7, <1>8, <1>10, <1>11, <1>12 DEF Cohorts
<1>14. HasCohorts(k, d, t + 1, w, Left(rec))
  <2>1. Left(A) \in SUBSET Left(rec) /\ Left(B) \in SUBSET Left(rec) /\ Left(C) \in SUBSET Left(rec)
    BY <1>3
  <2> QED
    BY <1>6, <1>13, <2>1 DEF HasCohorts
<1> QED
  BY <1>14 DEF Left

\* Nothing is stored and nothing was admitted.
LEMMA InitBurst == Init => BurstInv
<1> SUFFICES ASSUME Init
             PROVE  BurstInv
  OBVIOUS
<1>1. IInv /\ DelaysBounded /\ DOMAIN recent = Keys
  BY InitIInv DEF Init, DelaysBounded
<1>2. ASSUME NEW k \in Keys
      PROVE  HasCohorts(k, maxDelay, now, windows[k], recent[k])
  <2>1. /\ Limit[k] \in Nat \ {0} /\ Window[k] \in Nat \ {0}
        /\ maxDelay \in Nat /\ now = 0 /\ windows[k].resetAt = Zero /\ recent[k] = {}
    BY LimitAssumption DEF Init, ZeroWindow
  <2>2. \A t : Spent({}, t, Limit[k])
    BY <2>1, FS_EmptySet DEF Spent
  <2>3. IsFiniteSet({}) /\ Cardinality({}) < Limit[k]
    BY <2>1, FS_EmptySet
  <2>4. Cohorts(k, maxDelay, now, windows[k], recent[k], {}, {}, {}, - 2 * Window[k], - Window[k])
    BY <2>1, <2>2, <2>3 DEF Cohorts
  <2>5. - 2 * Window[k] \in Int /\ - Window[k] \in Int
    BY <2>1
  <2> QED
    BY <2>1, <2>4, <2>5 DEF HasCohorts, Recent
<1> QED
  BY <1>1, <1>2 DEF BurstInv

\* The critical section of allow: what is left of the window w after the sweep is current,
\* and the request x, which read the clock at s, is counted in it.
LEMMA CohortsAllow ==
    ASSUME NEW k \in Keys, NEW d \in Nat, 2 * d <= Window[k], NEW t \in Int,
           NEW s \in Nat, s <= t, t - s <= d,
           NEW w \in [resetAt : Int, count : Nat],
           NEW current \in [resetAt : Int, count : Nat],
           current = w \/ (current = ZeroWindow /\ s >= w.resetAt),
           NEW rec, NEW x, x.at = t,
           HasCohorts(k, d, t, w, rec),
           NEW v, \/ /\ current.resetAt = Zero \/ s >= current.resetAt
                     /\ v = [resetAt |-> s + Window[k], count |-> 1]
                  \/ /\ current.resetAt # Zero
                     /\ v = [current EXCEPT !.count = @ + 1],
           NEW new, \/ v.count <= Limit[k] /\ new = rec \cup {x}
                    \/ v.count > Limit[k] /\ new = rec
    PROVE  HasCohorts(k, d, t, v, new)
<1>1. HasCohorts(k, d, t, current, rec)
  BY CohortsSwept
<1>2. CASE /\ current.resetAt = Zero \/ s >= current.resetAt
           /\ v = [resetAt |-> s + Window[k], count |-> 1]
  <2>1. v = [resetAt |-> s + Window[k], count |-> 1]
    BY <1>2
  <2>2. v.count <= Limit[k]
    BY <2>1, LimitAssumption
  <2>3. HasCohorts(k, d, t, v, rec \cup {x})
    BY <1>1, <1>2, <2>1, CohortsStarted
  <2> QED
    <3>1. v.count \in Int /\ Limit[k] \in Int
      BY <2>1, LimitAssumption
    <3>2. new = rec \cup {x}
      BY <2>2, <3>1
    <3> QED
      BY <2>3, <3>2
<1>3. CASE current.resetAt # Zero /\ v = [current EXCEPT !.count = @ + 1]
  <2>1. v = [current EXCEPT !.count = @ + 1]
    BY <1>3
  <2>2. /\ v.count > Limit[k] => HasCohorts(k, d, t, v, rec)
        /\ v.count <= Limit[k] => HasCohorts(k, d, t, v, rec \cup {x})
    BY <1>1, <1>3, <2>1, CohortsCounted
  <2>3. v.count \in Int /\ Limit[k] \in Int
    BY <2>1, LimitAssumption
  <2> QED
    BY <2>2, <2>3
<1> QED
  BY <1>2, <1>3

\* The critical section of allow keeps the cohorts of every key.
LEMMA AllowBurst ==
    ASSUME BurstInv, NEW h \in Handlers, Allow(h),
           NEW k \in Keys, 2 * maxDelay <= Window[k]
    PROVE  HasCohorts(k, maxDelay, now, windows'[k], recent'[k])
<1>1. PICK d \in Nat, t \in Nat, s \in Nat, w \in [resetAt : Int, count : Nat] :
          d = maxDelay /\ t = now /\ s = stamp[h] /\ w = windows[k]
  BY DEF BurstInv, IInv, TypeOK
<1>2. s <= t /\ t - s <= d /\ key[h] \in Keys /\ windows \in [Keys -> [resetAt : Int, count : Nat]]
  BY <1>1 DEF Allow, BurstInv, DelaysBounded, IInv, TypeOK, ReadInThePast
<1>3. Swept(s) \in [Keys -> [resetAt : Int, count : Nat]]
  <2>1. TypeOK /\ s \in Int
    BY DEF BurstInv, IInv
  <2> QED
    BY <2>1, SweptType
<1>4. PICK current \in [resetAt : Int, count : Nat] : current = Swept(s)[k]
  BY <1>3
<1>5. current = w \/ (current = ZeroWindow /\ s >= w.resetAt)
  BY <1>1, <1>4 DEF Swept
<1>6. PICK rec, x : rec = recent[k] /\ x = Admitted(k)
  OBVIOUS
<1>7. HasCohorts(k, d, t, w, rec) /\ x.at = t 
      /\ t \in Int /\ s \in Int /\ 2 * d <= Window[k]
  BY <1>1, <1>6 DEF BurstInv, Admitted
<1>8. windows' = [Swept(s) EXCEPT ![key[h]] = Counted(key[h], s)]
  BY <1>1 DEF Allow
<1>9. recent' = IF Counted(key[h], s).count <= Limit[key[h]]
                THEN [recent EXCEPT ![key[h]] = @ \cup {Admitted(key[h])}] ELSE recent
  BY <1>1, Zenon DEF Allow
<1>10. CASE k # key[h]
  <2>1. windows'[k] = current /\ recent'[k] = rec
    BY <1>2, <1>3, <1>4, <1>6, <1>8, <1>9, <1>10 DEF BurstInv
  <2>2. HasCohorts(k, d, t, current, rec)
    BY <1>2, <1>5, <1>7, CohortsSwept
  <2> QED
    BY <1>1, <2>1, <2>2
<1>11. CASE k = key[h]
  <2>1. PICK v : v = Counted(k, s)
    OBVIOUS
  <2>2. \/ /\ current.resetAt = Zero \/ s >= current.resetAt
           /\ v = [resetAt |-> s + Window[k], count |-> 1]
        \/ /\ current.resetAt # Zero
           /\ v = [current EXCEPT !.count = @ + 1]
    BY <1>4, <2>1, Zenon DEF Counted
  <2>3. windows'[k] = v
    BY <1>3, <1>8, <1>11, <2>1
  <2>4. PICK new : new = IF v.count <= Limit[k] THEN rec \cup {x} ELSE rec
    OBVIOUS
  <2>5. recent'[k] = new
    <3>1. DOMAIN recent = Keys
      BY DEF BurstInv
    <3> QED
      BY <1>6, <1>9, <1>11, <2>1, <2>4, <3>1
  <2>7. v.count \in Int /\ Limit[k] \in Int
    BY <2>2, LimitAssumption
  <2>6. HasCohorts(k, d, t, v, new)
    <3>1. \/ v.count <= Limit[k] /\ new = rec \cup {x}
          \/ v.count > Limit[k] /\ new = rec
      BY <2>4, <2>7
    <3>2. s <= t /\ t - s <= d /\ 2 * d <= Window[k] /\ x.at = t
      BY <1>2, <1>7
    <3>3. HasCohorts(k, d, t, w, rec) /\ t \in Int
      BY <1>7
    <3> QED
      BY <1>5, <2>2, <3>1, <3>2, <3>3, CohortsAllow
  <2> QED
    BY <1>1, <2>3, <2>5, <2>6
<1> QED
  BY <1>10, <1>11

\* Every step keeps the invariant of the bound on bursts.
LEMMA NextBurst ==
    ASSUME BurstInv, [Next]_vars
    PROVE  BurstInv'
<1>1. IInv'
  BY NextIInv DEF BurstInv
<1>2. ASSUME NEW h \in Handlers, NEW k \in Keys, ReadClock(h, k)
      PROVE  BurstInv'
  <2>1. DelaysBounded'
    BY <1>2 DEF BurstInv, IInv, TypeOK, DelaysBounded, ReadClock
  <2> QED
    BY <1>1, <1>2, <2>1 DEF BurstInv, ReadClock
<1>3. ASSUME NEW h \in Handlers, Allow(h)
      PROVE  BurstInv'
  <2>1. DelaysBounded'
    BY <1>3 DEF BurstInv, IInv, TypeOK, DelaysBounded, Allow
  <2>2. maxDelay' = maxDelay /\ now' = now
    BY <1>3 DEF Allow
  <2>3. \A k \in Keys : 2 * maxDelay <= Window[k] =>
           HasCohorts(k, maxDelay, now, windows'[k], recent'[k])
    BY <1>3, AllowBurst
  <2>4. DOMAIN recent' = Keys
    BY <1>3 DEF Allow, BurstInv
  <2> QED
    BY <1>1, <2>1, <2>2, <2>3, <2>4 DEF BurstInv
<1>4. CASE Tick
  <2>1. /\ now' = now + 1 /\ UNCHANGED <<maxDelay, windows, pc, stamp>>
        /\ \A h \in Handlers : pc[h] = "lock" => now - stamp[h] < maxDelay
        /\ \A k \in Keys : recent'[k] = {r \in recent[k] : r.at > now + 1 - Window[k]}
    BY <1>4 DEF Tick
  <2>2. DelaysBounded'
    BY <2>1 DEF BurstInv, IInv, TypeOK, DelaysBounded
  <2>4. DOMAIN recent' = Keys
    BY <1>4 DEF Tick
  <2>3. ASSUME NEW k \in Keys, 2 * maxDelay <= Window[k]
        PROVE  HasCohorts(k, maxDelay, now + 1, windows[k], recent'[k])
    <3>1. maxDelay \in Nat /\ now \in Int /\ windows[k] \in [resetAt : Int, count : Nat]
      BY DEF BurstInv, IInv, TypeOK
    <3> QED
      BY <2>1, <2>3, <3>1, CohortsAge DEF BurstInv
  <2> QED
    BY <1>1, <2>1, <2>2, <2>3, <2>4 DEF BurstInv
<1>5. CASE UNCHANGED vars
  BY <1>1, <1>5 DEF vars, BurstInv, DelaysBounded
<1> QED
  BY <1>2, <1>3, <1>4, <1>5 DEF Next

\* Whatever the limit, the window and the delays up to half a window: a span of one
\* window's length admits at most two limits, or three with delays, less one.
THEOREM BurstsBounded == Spec => []BurstBounded
<1>1. BurstInv => BurstBounded
  <2> SUFFICES ASSUME BurstInv, NEW k \in Keys, 2 * maxDelay <= Window[k]
               PROVE  Cardinality(recent[k]) <= (IF maxDelay = 0 THEN 2 ELSE 3) * Limit[k] - 1
    BY DEF BurstBounded
  <2>1. maxDelay \in Nat /\ now \in Int
    BY DEF BurstInv, IInv, TypeOK
  <2> QED
    BY <2>1, CohortsBound DEF BurstInv
<1> QED
  BY <1>1, InitBurst, NextBurst, PTL DEF Spec
=============================================================================
