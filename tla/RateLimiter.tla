----------------------------- MODULE RateLimiter -----------------------------
(***************************************************************************)
(* The fixed-window rate limiter in front of the token and readiness       *)
(* endpoints (src/internal/authapp/ratelimit.go).  A handler reads the     *)
(* clock before it takes the limiter's lock, so the critical sections of   *)
(* allow run in another order than their clock readings; one limiter and   *)
(* one sweep schedule serve every endpoint and every remote address.       *)
(***************************************************************************)
EXTENDS Integers, FiniteSets

CONSTANTS
    Handlers,           \* goroutines that serve requests
    Keys,               \* endpoint|remoteIP
    Limit, Window,      \* per key: the effectiveRateLimit of its endpoint
    MaxSweepInterval,   \* maxLimiterSweepInterval
    Second,             \* clock ticks in time.Second
    Delays,             \* longest times from the clock reading to the lock
    MaxNow,             \* bound on the clock
    MaxCount            \* bound on the requests counted in one window

\* normalizeRateLimit refuses limits and windows that are not positive.
ASSUME LimitAssumption == /\ Keys # {}
                          /\ Limit \in [Keys -> Nat \ {0}]
                          /\ Window \in [Keys -> Nat \ {0}]
                          /\ MaxSweepInterval \in Nat \ {0}
                          /\ Second \in Nat \ {0}
                          /\ Delays \subseteq Nat
                          /\ MaxNow \in Nat
                          /\ MaxCount \in Nat

VARIABLES
    maxDelay,   \* how long this run's handlers may wait for the lock
    now,        \* the clock behind l.now()
    windows,    \* fixedWindowRateLimiter.windows; absent keys hold the zero value
    nextSweep,  \* fixedWindowRateLimiter.nextSweep
    pc, key,    \* per handler: place in allow, and the key of its request
    stamp,      \* per handler: the clock it read
    retryAfter, \* per handler: the Retry-After of its last 429 answer, 0 if none
    recent      \* history, per key: the requests that were admitted in the last
                \* window-length: [at, nth], the nth of those admitted at that time

vars == <<maxDelay, now, windows, nextSweep, pc, key, stamp, retryAfter, recent>>

Zero == -1                                  \* the zero time.Time
ZeroWindow == [resetAt |-> Zero, count |-> 0]

Lesser(a, b) == IF a < b THEN a ELSE b

Init ==
    /\ maxDelay \in Delays
    /\ now = 0
    /\ windows = [k \in Keys |-> ZeroWindow]
    /\ nextSweep = Zero
    /\ pc = [h \in Handlers |-> "idle"]
    /\ key = [h \in Handlers |-> CHOOSE k \in Keys : TRUE]
    /\ stamp = [h \in Handlers |-> 0]
    /\ retryAfter = [h \in Handlers |-> 0]
    /\ recent = [k \in Keys |-> {}]

-----------------------------------------------------------------------------
\* A request arrives: rateLimit calls allow, which reads the clock.
ReadClock(h, k) ==
    /\ pc[h] = "idle"
    /\ windows[k].count < MaxCount \/ now >= windows[k].resetAt
    /\ pc' = [pc EXCEPT ![h] = "lock"]
    /\ key' = [key EXCEPT ![h] = k]
    /\ stamp' = [stamp EXCEPT ![h] = now]
    /\ retryAfter' = [retryAfter EXCEPT ![h] = 0]
    /\ UNCHANGED <<maxDelay, now, windows, nextSweep, recent>>

SweepDue(t) == nextSweep = Zero \/ t >= nextSweep

\* Mutant: a sweep that is due drops every window.
SweepEverything(t) ==
    IF SweepDue(t) THEN [k \in Keys |-> ZeroWindow] ELSE windows

\* sweepExpired: what is left of the windows.
Swept(t) ==
    IF SweepDue(t)
    THEN [k \in Keys |-> IF t >= windows[k].resetAt THEN ZeroWindow ELSE windows[k]]
    ELSE windows

\* Mutant: the sweep interval is counted from the end of the window.
NextSweepTooLate(t, w) == IF SweepDue(t) THEN t + w + MaxSweepInterval ELSE nextSweep

\* sweepExpired: when the next one is due.
NextSweep(t, w) == IF SweepDue(t) THEN t + Lesser(w, MaxSweepInterval) ELSE nextSweep

\* Mutant: the request that starts a window is not counted.
CountedFromZero(k, t) ==
    LET current == Swept(t)[k] IN
    IF current.resetAt = Zero \/ t >= current.resetAt
    THEN [resetAt |-> t + Window[k], count |-> 0]
    ELSE [current EXCEPT !.count = @ + 1]

\* The window of key k after one more request that read the clock at t.
Counted(k, t) ==
    LET current == Swept(t)[k] IN
    IF current.resetAt = Zero \/ t >= current.resetAt
    THEN [resetAt |-> t + Window[k], count |-> 1]
    ELSE [current EXCEPT !.count = @ + 1]

\* Mutant: whole seconds are rounded down.
RetryAfterFloor(d) == IF d <= 0 THEN 1 ELSE d \div Second

\* Round up to whole seconds, at least one.
RetryAfterSeconds(d) ==
    IF d <= 0 THEN 1 ELSE (d + Second - 1) \div Second

Admitted(k) == [at |-> now, nth |-> Cardinality({r \in recent[k] : r.at = now}) + 1]

\* The critical section of allow, and the answer rateLimit gives.
Allow(h) ==
    LET k == key[h]
        t == stamp[h]
        w == Counted(k, t)
    IN  /\ pc[h] = "lock"
        /\ windows' = [Swept(t) EXCEPT ![k] = w]
        /\ nextSweep' = NextSweep(t, Window[k])
        /\ IF w.count <= Limit[k]
           THEN /\ recent' = [recent EXCEPT ![k] = @ \cup {Admitted(k)}]
                /\ UNCHANGED retryAfter
           ELSE /\ retryAfter' = [retryAfter EXCEPT ![h] = RetryAfterSeconds(w.resetAt - t)]
                /\ UNCHANGED recent
        /\ pc' = [pc EXCEPT ![h] = "idle"]
        /\ stamp' = [stamp EXCEPT ![h] = 0]
        /\ UNCHANGED <<maxDelay, now, key>>

\* Time passes; no handler waits longer than maxDelay for the lock.
Tick ==
    /\ now < MaxNow
    /\ \A h \in Handlers : pc[h] = "lock" => now - stamp[h] < maxDelay
    /\ now' = now + 1
    /\ recent' = [k \in Keys |-> {r \in recent[k] : r.at > now + 1 - Window[k]}]
    /\ UNCHANGED <<maxDelay, windows, nextSweep, pc, key, stamp, retryAfter>>

Next == \/ \E h \in Handlers : Allow(h) \/ \E k \in Keys : ReadClock(h, k)
        \/ Tick

Spec == Init /\ [][Next]_vars
-----------------------------------------------------------------------------
(* Properties *)

\* Every field keeps its Go type.
TypeOK ==
    /\ maxDelay \in Nat
    /\ now \in Nat
    /\ windows \in [Keys -> [resetAt : Int, count : Nat]]
    /\ nextSweep \in Int
    /\ pc \in [Handlers -> {"idle", "lock"}]
    /\ key \in [Handlers -> Keys]
    /\ stamp \in [Handlers -> Nat]
    /\ retryAfter \in [Handlers -> Nat]

\* A window that is running by the clock is neither dropped nor restarted nor
\* counted down, whatever clock readings the requests for other keys bring to
\* the sweep, and however late a request for this key gets the lock.
LiveWindowKept ==
    [][\A k \in Keys : now < windows[k].resetAt =>
          /\ windows'[k].resetAt = windows[k].resetAt
          /\ windows'[k].count >= windows[k].count]_vars

\* How many requests of a key any span of one window length admits.  Windows
\* start with a request, so the end of one and the start of the next make up
\* one less than twice the limit.  A request that is delayed between the clock
\* reading and the lock can start a window that is already partly over; if no
\* delay is longer than half a window, a span meets at most three windows, and
\* the first request of the earliest is not in it.
BurstBounded ==
    \A k \in Keys : 2 * maxDelay <= Window[k] =>
        Cardinality(recent[k]) <= (IF maxDelay = 0 THEN 2 ELSE 3) * Limit[k] - 1

\* A client that waits for Retry-After from the moment it is refused finds the
\* window that refused it over, although the time is computed from an earlier
\* reading of the clock and rounded to seconds.
RetryAfterSuffices ==
    [][\A h \in Handlers : (pc[h] = "lock" /\ retryAfter'[h] > 0) =>
          now + retryAfter'[h] * Second >= windows'[key[h]].resetAt]_vars

\* Windows of clients that went away do not accumulate: when a request that was
\* not delayed leaves allow, no stored window ended longer than the sweep
\* interval ago, whichever endpoints' windows set the sweep schedule.
EvictedInTime ==
    [][\A h \in Handlers : (pc[h] = "lock" /\ pc'[h] = "idle" /\ stamp[h] = now) =>
          \A k \in Keys : \/ windows'[k] = ZeroWindow
                          \/ windows'[k].resetAt > now - MaxSweepInterval]_vars
=============================================================================
