------------------------------ MODULE TokenCache ------------------------------
(***************************************************************************)
(* The token cache of client.Provider (src/client/cache.go): goroutines    *)
(* ask for a token, a fresh one comes from the cache, otherwise one HTTP   *)
(* acquisition per (audience, scopes) is shared by everyone who waits.     *)
(*                                                                         *)
(* Every action is one critical section of p.mu, one select, or one        *)
(* unlocked step of a goroutine between two of those.                      *)
(***************************************************************************)
EXTENDS TokenRequests, FiniteSets

CONSTANTS
    Callers,            \* goroutines that call Provider.TokenResponse
    Calls,              \* addresses of inflightCall objects, reused once garbage
    NoCall,             \* the nil *inflightCall
    MaxNow              \* bound on the clock

ASSUME CallersAssumption == IsFiniteSet(Callers)
ASSUME CallsAssumption == NoCall \notin Calls
ASSUME ClockAssumption == MaxNow \in Nat

VARIABLES
    now,        \* time.Now()
    cache,      \* Provider.cache
    inflight,   \* Provider.inflight
    calls,      \* the inflightCall objects and the runCall goroutine of each
    pc,         \* where each caller is in tokenResponse
    ctx,        \* each caller's context: "nil", "live" or "done"
    key,        \* the cache key of each caller's request
    joined,     \* the call each caller waits for
    ret         \* what each caller's tokenResponse returned, once it has

vars == <<now, cache, inflight, calls, pc, ctx, key, joined, ret>>

-----------------------------------------------------------------------------
(* The critical sections' helpers *)

\* Mutant: lookups no longer purge.
PurgeNothing(t) == cache

PurgeStale(t) ==
    [k \in Keys |-> IF cache[k] # NoToken /\ FreshAt(cache[k], t)
                    THEN cache[k] ELSE NoToken]

-----------------------------------------------------------------------------
(* Call objects *)

\* stage: the runCall goroutine is in requestToken ("requesting"), between
\* requestToken and p.mu.Lock() ("returned"), or has closed call.done ("done").
CallObjects == [stage : {"none", "requesting", "returned", "done"},
                key : Keys \cup {NoKey}, waiters : Nat, abandoned : BOOLEAN,
                result : Results]

Waiting(c) == pc[c] \in {"wait", "release"}
Joiners(k) == {c \in Callers : Waiting(c) /\ joined[c] = k}

Completed(k) == calls[k].stage = "done"
Running(k)   == calls[k].stage \in {"requesting", "returned"}

\* An object nobody points to any more may be allocated again.
Garbage(k) == /\ calls[k].stage \in {"none", "done"}
              /\ \A c \in Callers : joined[c] # k

-----------------------------------------------------------------------------
Init ==
    /\ now = 0
    /\ cache = [k \in Keys |-> NoToken]
    /\ inflight = [k \in Keys |-> NoCall]
    /\ calls = [i \in Calls |-> [stage |-> "none", key |-> NoKey, waiters |-> 0,
                                 abandoned |-> FALSE, result |-> NoResult]]
    /\ pc = [c \in Callers |-> "idle"]
    /\ ctx = [c \in Callers |-> "live"]
    /\ key = [c \in Callers |-> NoKey]
    /\ joined = [c \in Callers |-> NoCall]
    /\ ret = [c \in Callers |-> NoResult]

Return(c, result) ==
    /\ pc' = [pc EXCEPT ![c] = "idle"]
    /\ joined' = [joined EXCEPT ![c] = NoCall]
    /\ ret' = [ret EXCEPT ![c] = result]

-----------------------------------------------------------------------------
(* The callers: TokenResponse and tokenResponse *)

\* TokenResponse with no audience anywhere returns before touching the cache.
RejectTarget(c, r) ==
    /\ pc[c] = "idle"
    /\ Target(r).audience = Blank
    /\ Return(c, Misused)
    /\ UNCHANGED <<now, cache, inflight, calls, ctx, key>>

\* TokenResponse up to and including the critical section of cached().
Lookup(c, r, x) ==
    LET k == Target(r)
        purged == PurgeStale(now)
    IN  /\ pc[c] = "idle"
        /\ k \in Keys
        /\ ctx' = [ctx EXCEPT ![c] = x]
        /\ key' = [key EXCEPT ![c] = k]
        /\ cache' = purged
        /\ \/ /\ purged[k] # NoToken
              /\ Return(c, Token(purged[k]))
           \/ /\ purged[k] = NoToken
              /\ pc' = [pc EXCEPT ![c] = "check"]
              /\ ret' = [ret EXCEPT ![c] = NoResult]
              /\ UNCHANGED joined
        /\ UNCHANGED <<now, inflight, calls>>

\* The ctx == nil and ctx.Err() tests.
CheckContext(c) ==
    /\ pc[c] = "check"
    /\ \/ ctx[c] = "nil" /\ Return(c, Misused)
       \/ ctx[c] = "done" /\ Return(c, Canceled)
       \/ /\ ctx[c] = "live"
          /\ pc' = [pc EXCEPT ![c] = "join"]
          /\ UNCHANGED <<joined, ret>>
    /\ UNCHANGED <<now, cache, inflight, calls, ctx, key>>

\* The object joinOrStartCall allocates; its runCall goroutine is started.
NewCall(k) ==
    [stage |-> "requesting", key |-> k, waiters |-> 1,
     abandoned |-> FALSE, result |-> NoResult]

\* joinOrStartCall, one critical section.
JoinOrStartCall(c) ==
    LET k == key[c]
        purged == PurgeStale(now)
    IN  /\ pc[c] = "join"
        /\ cache' = purged
        /\ \/ /\ purged[k] # NoToken
              /\ Return(c, Token(purged[k]))
              /\ UNCHANGED <<inflight, calls>>
           \/ /\ purged[k] = NoToken
              /\ inflight[k] # NoCall
              /\ calls' = [calls EXCEPT ![inflight[k]].waiters = @ + 1]
              /\ joined' = [joined EXCEPT ![c] = inflight[k]]
              /\ pc' = [pc EXCEPT ![c] = "wait"]
              /\ UNCHANGED <<inflight, ret>>
           \/ /\ purged[k] = NoToken
              /\ inflight[k] = NoCall
              /\ \E i \in Calls :
                    /\ Garbage(i)
                    /\ calls' = [calls EXCEPT ![i] = NewCall(k)]
                    /\ inflight' = [inflight EXCEPT ![k] = i]
                    /\ joined' = [joined EXCEPT ![c] = i]
              /\ pc' = [pc EXCEPT ![c] = "wait"]
              /\ UNCHANGED ret
        /\ UNCHANGED <<now, ctx, key>>

\* waitForCall, case <-call.done.
WaitDone(c) ==
    /\ pc[c] = "wait"
    /\ Completed(joined[c])
    /\ Return(c, calls[joined[c]].result)
    /\ UNCHANGED <<now, cache, inflight, calls, ctx, key>>

\* Mutant: waitForCall receives from call.done only.
WaitForDoneOnly(c) == FALSE

\* waitForCall, case <-ctx.Done(), before releaseWaiter takes the lock.
WaitCanceled(c) ==
    /\ pc[c] = "wait"
    /\ ctx[c] = "done"
    /\ pc' = [pc EXCEPT ![c] = "release"]
    /\ UNCHANGED <<now, cache, inflight, calls, ctx, key, joined, ret>>

\* Mutant: a canceled waiter returns without giving up its place.
ReleaseNothing(c) ==
    /\ pc[c] = "release"
    /\ Return(c, Canceled)
    /\ UNCHANGED <<now, cache, inflight, calls, ctx, key>>

\* Mutant: the first waiter to be canceled abandons the call for everybody.
ReleaseAbandonsAll(c) ==
    LET i == joined[c]
    IN  /\ pc[c] = "release"
        /\ Return(c, Canceled)
        /\ IF Completed(i) \/ calls[i].abandoned \/ inflight[key[c]] # i
           THEN UNCHANGED <<calls, inflight>>
           ELSE /\ calls' = [calls EXCEPT ![i].waiters = @ - 1, ![i].abandoned = TRUE]
                /\ inflight' = [inflight EXCEPT ![key[c]] = NoCall]
        /\ UNCHANGED <<now, cache, ctx, key>>

\* releaseWaiter; the caller then returns ctx.Err().
ReleaseWaiter(c) ==
    LET i == joined[c]
        k == key[c]
        last == calls[i].waiters - 1 <= 0
    IN  /\ pc[c] = "release"
        /\ Return(c, Canceled)
        /\ IF Completed(i) \/ calls[i].abandoned \/ inflight[k] # i
           THEN UNCHANGED <<calls, inflight>>
           ELSE /\ calls' = [calls EXCEPT ![i].waiters = @ - 1, ![i].abandoned = last]
                /\ inflight' = IF last THEN [inflight EXCEPT ![k] = NoCall] ELSE inflight
        /\ UNCHANGED <<now, cache, ctx, key>>

-----------------------------------------------------------------------------
(* The runCall goroutine *)

\* Mutant: releaseWaiter forgets call.cancel.
NeverCanceled(i) == FALSE

\* The request context comes from context.WithoutCancel, so only abandonment
\* (releaseWaiter calling call.cancel) cancels a request that is under way.
RequestCanceled(i) == calls[i].abandoned

\* A 200 answer: refused when it carries no bearer token or expires_in <= 0,
\* else stamped with the clock before runCall takes the lock.
Decoded(k, wellFormed, n) ==
    IF wellFormed /\ n > 0
    THEN Token([key |-> k, expiresIn |-> n, expiresAt |-> now + Seconds(n)])
    ELSE Failed

RequestReturns(i, r) ==
    calls' = [calls EXCEPT ![i].stage = "returned", ![i].result = r]

\* requestToken returns: an authenticator, transport, status or decode error,
\* a decoded answer, or the cancellation of the request context.
RequestToken(i) ==
    /\ calls[i].stage = "requesting"
    /\ \/ RequestReturns(i, Failed)
       \/ RequestCanceled(i) /\ RequestReturns(i, Canceled)
       \/ \E wellFormed \in BOOLEAN, n \in ExpiresIns :
             RequestReturns(i, Decoded(calls[i].key, wellFormed, n))
    /\ UNCHANGED <<now, cache, inflight, pc, ctx, key, joined, ret>>

\* Mutant: runCall does not compare the published call with its own.
FinishUnconditionally(i) ==
    LET k == calls[i].key
        stored == calls[i].result.kind = "token" /\ ~calls[i].abandoned
    IN  /\ calls[i].stage = "returned"
        /\ calls' = [calls EXCEPT ![i].stage = "done"]
        /\ cache' = IF stored THEN [cache EXCEPT ![k] = calls[i].result.token] ELSE cache
        /\ inflight' = [inflight EXCEPT ![k] = NoCall]
        /\ UNCHANGED <<now, pc, ctx, key, joined, ret>>

\* Mutant: call.done is closed only when a token was obtained.
FinishClosesOnSuccess(i) ==
    LET k == calls[i].key IN
    /\ calls[i].stage = "returned"
    /\ calls[i].result.kind = "token"
    /\ calls' = [calls EXCEPT ![i].stage = "done"]
    /\ cache' = IF inflight[k] = i
                THEN [cache EXCEPT ![k] = calls[i].result.token] ELSE cache
    /\ inflight' = IF inflight[k] = i THEN [inflight EXCEPT ![k] = NoCall] ELSE inflight
    /\ UNCHANGED <<now, pc, ctx, key, joined, ret>>

\* The critical section of runCall.
FinishCall(i) ==
    LET k == calls[i].key
        current == inflight[k] = i
        stored == calls[i].result.kind = "token" /\ ~calls[i].abandoned
    IN  /\ calls[i].stage = "returned"
        /\ calls' = [calls EXCEPT ![i].stage = "done"]
        /\ cache' = IF current /\ stored
                    THEN [cache EXCEPT ![k] = calls[i].result.token] ELSE cache
        /\ inflight' = IF current THEN [inflight EXCEPT ![k] = NoCall] ELSE inflight
        /\ UNCHANGED <<now, pc, ctx, key, joined, ret>>

-----------------------------------------------------------------------------
(* The environment *)

\* A caller's context is canceled or times out while its request runs.
CancelContext(c) ==
    /\ pc[c] # "idle"
    /\ ctx[c] = "live"
    /\ ctx' = [ctx EXCEPT ![c] = "done"]
    /\ UNCHANGED <<now, cache, inflight, calls, pc, key, joined, ret>>

Tick ==
    /\ now < MaxNow
    /\ now' = now + 1
    /\ UNCHANGED <<cache, inflight, calls, pc, ctx, key, joined, ret>>

-----------------------------------------------------------------------------
Request(c) == \E r \in Requests :
                 \/ RejectTarget(c, r)
                 \/ \E x \in {"nil", "live", "done"} : Lookup(c, r, x)

Continue(c) == \/ CheckContext(c)
               \/ JoinOrStartCall(c)
               \/ WaitDone(c)
               \/ WaitCanceled(c)
               \/ ReleaseWaiter(c)

Next == \/ \E c \in Callers : Request(c) \/ Continue(c) \/ CancelContext(c)
        \/ \E i \in Calls : RequestToken(i) \/ FinishCall(i)
        \/ Tick

Spec == Init /\ [][Next]_vars

\* Every goroutine that is past its last return keeps running; the strong form
\* stands for a heap that never runs out of call objects, which only the
\* finite set Calls can.
CallerFairness == \A c \in Callers : /\ WF_vars(Continue(c))
                                     /\ SF_vars(JoinOrStartCall(c))

\* net/http returns from a request whose context is canceled, and runCall then
\* needs nothing but the lock.
RunCallFairness == \A i \in Calls : /\ WF_vars(RequestCanceled(i) /\ RequestToken(i))
                                    /\ WF_vars(FinishCall(i))

\* The default http.Client has a timeout, so every request returns.
NetworkFairness == \A i \in Calls : WF_vars(RequestToken(i))

\* FairSpec says nothing about the token endpoint: it may never answer.
FairSpec == Spec /\ CallerFairness /\ RunCallFairness

-----------------------------------------------------------------------------
(* Properties *)

\* Every variable of the provider and of the goroutines keeps its Go type.
TypeOK ==
    /\ now \in Nat
    /\ cache \in [Keys -> Tokens \cup {NoToken}]
    /\ inflight \in [Keys -> Calls \cup {NoCall}]
    /\ calls \in [Calls -> CallObjects]
    /\ pc \in [Callers -> {"idle", "check", "join", "wait", "release"}]
    /\ ctx \in [Callers -> {"nil", "live", "done"}]
    /\ key \in [Callers -> Keys \cup {NoKey}]
    /\ joined \in [Callers -> Calls \cup {NoCall}]
    /\ ret \in [Callers -> Results]

\* A published call (an entry of Provider.inflight) is still running, not
\* abandoned, belongs to its key, and its waiters counter is exactly the number
\* of goroutines between joinOrStartCall and the end of releaseWaiter: an
\* undercount would abandon a call somebody waits for, an overcount would keep
\* a call nobody waits for alive.
WaitersCounted ==
    \A k \in Keys, i \in Calls : inflight[k] = i =>
        /\ Running(i) /\ ~calls[i].abandoned
        /\ calls[i].key = k
        /\ calls[i].waiters = Cardinality(Joiners(i))
        /\ calls[i].waiters > 0

\* A goroutine that waits is never orphaned: the call it joined has closed its
\* done channel or is still the published call of its key, whatever other
\* waiters, successors of the call or expired tokens did in the meantime.
NoOrphanedWaiter ==
    \A c \in Callers : Waiting(c) =>
        Completed(joined[c]) \/ inflight[key[c]] = joined[c]

\* Concurrent goroutines share one acquisition (README: "shares one token
\* acquisition between concurrent goroutines"): at most one request per key is
\* on the network whose context is not canceled.
SingleFlight ==
    \A i, j \in Calls :
        (/\ Running(i) /\ ~RequestCanceled(i)
         /\ Running(j) /\ ~RequestCanceled(j)
         /\ calls[i].key = calls[j].key) => i = j

\* A goroutine sees a cancellation error only when its own context is done:
\* neither the goroutine that started the shared request nor another waiter can
\* cancel it under a goroutine that still wants the token.
NoForeignCancellation ==
    \A c \in Callers : ret[c] = Canceled => ctx[c] = "done"

\* What a lookup finds for k at this instant.
Servable(k) == PurgeStale(now)[k]
Alive(token, k) == token.expiresAt > now /\ token.key = k

\* A token handed out of the cache has not expired at that instant, for every
\* expires_in the endpoint may answer: lifetimes shorter than the skew, and
\* lifetimes that overflow time.Duration.  That a goroutine gets the token it got
\* before is not seen in ret, hence the first conjunct, on what lookups find.
ServedBeforeExpiry ==
    [][/\ \A k \in Keys : Servable(k) # NoToken => Alive(Servable(k), k)
       /\ \A c \in Callers :
            (/\ pc[c] \in {"idle", "join"}
             /\ ret'[c] # ret[c]
             /\ ret'[c].kind = "token") => Alive(ret'[c].token, key'[c])]_vars

\* The late end of an abandoned request changes neither the cache nor the
\* table of published calls, so it cannot unpublish its successor.
AbandonedLeavesNoTrace ==
    [][\A i \in Calls :
         (calls[i].abandoned /\ calls[i].stage = "returned" /\ calls'[i].stage = "done")
            => UNCHANGED <<cache, inflight>>]_vars

\* Where TokenSource sees a goroutine, and the outcome a waiting goroutine can
\* already see because its call has completed.
PhaseOf(c) == IF pc[c] = "idle" THEN "idle" ELSE IF Waiting(c) THEN "sharing" ELSE "asking"
OutcomeFor(c) == IF Waiting(c) /\ Completed(joined[c]) THEN calls[joined[c]].result ELSE NoResult

Abstract == INSTANCE TokenSource WITH
    want      <- key,
    phase     <- [c \in Callers |-> PhaseOf(c)],
    outcome   <- [c \in Callers |-> OutcomeFor(c)],
    stock     <- cache,
    acquiring <- [k \in Keys |-> inflight[k] # NoCall]

\* Call objects, the waiters counter and the critical sections amount to the
\* shared acquisitions of TokenSource (README: "shares one token acquisition
\* between concurrent goroutines"): whoever shares one gets its one outcome,
\* only its last caller stops it, nothing an abandoned request does later is
\* seen, and only tokens that are not fresh are dropped.
ImplementsTokenSource == Abstract!Spec

\* A goroutine whose context is done returns even when the token endpoint never
\* answers (FairSpec assumes nothing of the network).
CanceledCallerReturns ==
    \A c \in Callers : (pc[c] # "idle" /\ ctx[c] = "done") ~> (pc[c] = "idle")

\* The request nobody waits for any more ends: no goroutine is leaked by
\* abandonment, even when the token endpoint never answers.
AbandonedCallEnds ==
    \A i \in Calls : (Running(i) /\ calls[i].abandoned) ~> Completed(i)

\* Every TokenResponse returns, whatever its context, if requests return.
EveryCallerReturns ==
    NetworkFairness => \A c \in Callers : pc[c] # "idle" ~> pc[c] = "idle"
=============================================================================
