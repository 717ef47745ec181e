---------------------------- MODULE RemoteProvider ----------------------------
(***************************************************************************)
(* The JWKS cache of jwk.RemoteProvider (src/jwk/remote.go): verifiers ask *)
(* for a key by kid; a fresh cached key is served at once, otherwise one   *)
(* GET at a time, guarded by refreshGate, refreshes the whole key set, and *)
(* a goroutine that queued behind it uses its outcome.  When the refresh   *)
(* fails a cached key is served within the stale window.                   *)
(***************************************************************************)
EXTENDS Keys, FiniteSets

CONSTANTS
    Callers,            \* goroutines that call Key or Refresh
    Nobody,             \* refreshGate is empty
    Documents,          \* the JWKS documents the server publishes, in order: each a
                        \* sequence of keys, not always a good one
    Queries,            \* [kid, alg] arguments of Key
    Contexts,           \* contexts callers pass: "nil", "live" or "done"
    RefreshInterval,    \* RemoteProvider.refreshInterval
    MaxStale,           \* RemoteProvider.maxStale
    MaxNow,             \* bound on the clock
    MaxRefreshes        \* bound on refreshVersion

ASSUME GateAssumption == Nobody \notin Callers
\* NewRemoteProvider replaces durations that are not positive by defaults.
ASSUME ProviderAssumption == /\ RefreshInterval \in Nat \ {0}
                             /\ MaxStale \in Nat \ {0}
                             /\ MaxNow \in Nat
                             /\ MaxRefreshes \in Nat
                             /\ Len(Documents) \in Nat \ {0}
                             /\ Contexts \subseteq {"nil", "live", "done"}

VARIABLES
    now,                \* time.Now()
    published,          \* index of the document the server publishes
    gate,               \* the goroutine whose token is in refreshGate
    keys,               \* index of the document in RemoteProvider.keys, 0: none
    fetchedAt, expiresAt,
    generation, refreshVersion,
    lastRefreshErr, lastRefreshCanceledByCaller,
    pc, op, ctx,        \* per caller: place in the code, arguments, context
    snap,               \* per caller: remoteSnapshot taken when Key began
    got,                \* per caller: what fetch or refreshIfUnchanged returned
    ret,                \* per caller: what Key or Refresh returned
    asked               \* per caller (history): why it sent a GET, if it did

provider == <<keys, fetchedAt, expiresAt, generation, refreshVersion,
              lastRefreshErr, lastRefreshCanceledByCaller>>
vars == <<now, published, gate, provider, pc, op, ctx, snap, got, ret, asked>>

Never == -1     \* the zero time.Time

-----------------------------------------------------------------------------
(* Snapshots *)

\* What the provider makes of each document.
Decoded == [d \in 1..Len(Documents) |-> decodeSet(Documents[d])]

Found(kid) == keys # 0 /\ kid \in DOMAIN Decoded[keys].keys
Fresh == now < expiresAt

\* Mutant: the stale window is not enforced.
StaleForever == fetchedAt # Never

StaleOK == fetchedAt # Never /\ now - fetchedAt <= MaxStale

\* The answer of Key when the snapshot has the kid.
Served(q) == IF forAlgorithm(Decoded[keys].keys[q.kid], q.alg) THEN "key" ELSE "mismatch"

NoSnapshot == [generation |-> 0, version |-> 0, getting |-> FALSE]
Explicit == [kid |-> "", alg |-> ""]        \* op of Refresh

\* getting is history: a GET was under way when the snapshot was taken.
Snapshot == [generation |-> generation, version |-> refreshVersion,
             getting |-> gate # Nobody]

Errors == {"failed", "canceled", "misused"}
Success(d) == [err |-> "nil", doc |-> d]
Failure(e) == [err |-> e, doc |-> 0]

Init ==
    /\ now = 0 /\ published = 1 /\ gate = Nobody
    /\ keys = 0 /\ fetchedAt = Never /\ expiresAt = Never
    /\ generation = 0 /\ refreshVersion = 0
    /\ lastRefreshErr = "nil" /\ lastRefreshCanceledByCaller = FALSE
    /\ pc = [c \in Callers |-> "idle"]
    /\ op = [c \in Callers |-> Explicit]
    /\ ctx = [c \in Callers |-> "live"]
    /\ snap = [c \in Callers |-> NoSnapshot]
    /\ got = [c \in Callers |-> Failure("nil")]
    /\ ret = [c \in Callers |-> "none"]
    /\ asked = [c \in Callers |-> "no"]

Return(c, r) == /\ pc' = [pc EXCEPT ![c] = "idle"]
                /\ ret' = [ret EXCEPT ![c] = r]

\* A refresh attempt ends with error e: Refresh returns it, Key goes on.
Attempted(c, e) ==
    /\ IF op[c] = Explicit
       THEN Return(c, e) /\ got' = [got EXCEPT ![c] = Failure("nil")]
       ELSE /\ pc' = [pc EXCEPT ![c] = "recheck"]
            /\ got' = [got EXCEPT ![c] = Failure(e)]
            /\ UNCHANGED ret

\* Every operation sends at most one GET, so this keeps refreshVersion bounded
\* without ever stopping an operation that has begun.
RefreshesLeft == refreshVersion + Cardinality({c \in Callers : pc[c] # "idle"}) < MaxRefreshes

-----------------------------------------------------------------------------
(* Key and Refresh *)

\* Key up to the test of its first snapshot.
BeginKey(c, q, x) ==
    /\ pc[c] = "idle" /\ RefreshesLeft
    /\ op' = [op EXCEPT ![c] = q]
    /\ ctx' = [ctx EXCEPT ![c] = x]
    /\ snap' = [snap EXCEPT ![c] = Snapshot]
    /\ asked' = [asked EXCEPT ![c] = "no"]
    /\ IF Found(q.kid) /\ Fresh
       THEN Return(c, Served(q))
       ELSE pc' = [pc EXCEPT ![c] = "lock"] /\ ret' = [ret EXCEPT ![c] = "none"]
    /\ UNCHANGED <<now, published, gate, provider, got>>

BeginRefresh(c, x) ==
    /\ pc[c] = "idle" /\ RefreshesLeft
    /\ op' = [op EXCEPT ![c] = Explicit]
    /\ ctx' = [ctx EXCEPT ![c] = x]
    /\ asked' = [asked EXCEPT ![c] = "no"]
    /\ pc' = [pc EXCEPT ![c] = "lock"]
    /\ ret' = [ret EXCEPT ![c] = "none"]
    /\ UNCHANGED <<now, published, gate, provider, snap, got>>

\* Mutant: the send on refreshGate is not in a select with ctx.Done().
LockIgnoresContext(c) ==
    /\ pc[c] = "lock"
    /\ ctx[c] = "nil"
    /\ Attempted(c, "misused")
    /\ UNCHANGED <<now, published, gate, provider, op, ctx, snap, asked>>

\* lockRefresh fails: a nil context, or the ctx.Done() branch of its select.
LockFails(c) ==
    /\ pc[c] = "lock"
    /\ ctx[c] # "live"
    /\ Attempted(c, IF ctx[c] = "nil" THEN "misused" ELSE "canceled")
    /\ UNCHANGED <<now, published, gate, provider, op, ctx, snap, asked>>

\* refreshLocked begins: the GET goes out.
StartGet(c, why) ==
    /\ gate' = c
    /\ pc' = [pc EXCEPT ![c] = "get"]
    /\ asked' = [asked EXCEPT ![c] = why]
    /\ UNCHANGED <<got, ret>>

\* Mutant: a canceled attempt is final for everybody who queued behind it.
WhyGetNeverRetries(c) ==
    CASE op[c] = Explicit -> "explicit"
      [] op[c] # Explicit /\ generation = snap[c].generation
            /\ refreshVersion = snap[c].version -> "first"
      [] OTHER -> "no"

\* Why refreshIfUnchanged sends a GET rather than use an outcome it queued for:
\* "first": nobody refreshed since the snapshot; "retry": the last attempt was
\* canceled by its own caller and this caller is still there; "no": it does not.
WhyGet(c) ==
    CASE op[c] = Explicit -> "explicit"
      [] op[c] # Explicit /\ generation = snap[c].generation
            /\ refreshVersion = snap[c].version -> "first"
      [] op[c] # Explicit /\ generation = snap[c].generation
            /\ refreshVersion # snap[c].version
            /\ lastRefreshCanceledByCaller /\ ctx[c] = "live" -> "retry"
      [] OTHER -> "no"

\* Mutant: GETs are not serialised.
LockWithoutGate(c) ==
    /\ pc[c] = "lock"
    /\ ctx[c] # "nil"
    /\ IF WhyGet(c) # "no"
       THEN StartGet(c, WhyGet(c))
       ELSE /\ Attempted(c, IF generation # snap[c].generation THEN "nil" ELSE lastRefreshErr)
            /\ UNCHANGED <<gate, asked>>
    /\ UNCHANGED <<now, published, provider, op, ctx, snap>>

\* lockRefresh succeeds; then Refresh, or the comparison of refreshIfUnchanged,
\* which reads fields that only the holder of the gate writes.
LockRefresh(c) ==
    /\ pc[c] = "lock"
    /\ ctx[c] # "nil"
    /\ gate = Nobody
    /\ IF WhyGet(c) # "no"
       THEN StartGet(c, WhyGet(c))
       ELSE /\ Attempted(c, IF generation # snap[c].generation THEN "nil" ELSE lastRefreshErr)
            /\ UNCHANGED <<gate, asked>>
    /\ UNCHANGED <<now, published, provider, op, ctx, snap>>

\* fetch: a document that decodes, a transport, status or decode error, or the
\* context's.
GetReply(c) ==
    /\ pc[c] = "get"
    /\ \/ Decoded[published].ok /\ got' = [got EXCEPT ![c] = Success(published)]
       \/ got' = [got EXCEPT ![c] = Failure("failed")]
       \/ ctx[c] = "done" /\ got' = [got EXCEPT ![c] = Failure("canceled")]
    /\ pc' = [pc EXCEPT ![c] = "store"]
    /\ UNCHANGED <<now, published, gate, provider, op, ctx, snap, ret, asked>>

\* Mutant: a failed attempt does not count.
RecordSuccessOnly(e) ==
    /\ refreshVersion' = refreshVersion + (IF e = "nil" THEN 1 ELSE 0)
    /\ lastRefreshErr' = e
    /\ lastRefreshCanceledByCaller' = (e = "canceled")

\* Mutant: the error of a failed attempt is not kept.
RecordWithoutError(e) ==
    /\ refreshVersion' = refreshVersion + 1
    /\ lastRefreshErr' = lastRefreshErr
    /\ lastRefreshCanceledByCaller' = (e = "canceled")

\* What every refresh attempt leaves for the goroutines queued behind it.
RecordOutcome(e) ==
    /\ refreshVersion' = refreshVersion + 1
    /\ lastRefreshErr' = e
    /\ lastRefreshCanceledByCaller' = (e = "canceled")

\* Mutant: the gate is released on the success path only.
UnlockOnSuccess(c) == gate' = IF got[c].err = "nil" THEN Nobody ELSE gate

UnlockRefresh(c) == gate' = Nobody

\* The rest of refreshLocked, and the deferred unlockRefresh.
Store(c) ==
    /\ pc[c] = "store"
    /\ RecordOutcome(got[c].err)
    /\ IF got[c].err = "nil"
       THEN /\ keys' = got[c].doc
            /\ fetchedAt' = now
            /\ expiresAt' = now + RefreshInterval
            /\ generation' = generation + 1
       ELSE UNCHANGED <<keys, fetchedAt, expiresAt, generation>>
    /\ UnlockRefresh(c)
    /\ Attempted(c, got[c].err)
    /\ UNCHANGED <<now, published, op, ctx, snap, asked>>

\* Key after refreshIfUnchanged: the second snapshot.
Recheck(c) ==
    /\ pc[c] = "recheck"
    /\ Return(c, IF got[c].err = "nil"
                 THEN IF Found(op[c].kid) THEN Served(op[c]) ELSE "notFound"
                 ELSE IF Found(op[c].kid) /\ StaleOK THEN Served(op[c]) ELSE got[c].err)
    /\ got' = [got EXCEPT ![c] = Failure("nil")]
    /\ UNCHANGED <<now, published, gate, provider, op, ctx, snap, asked>>

-----------------------------------------------------------------------------
(* The environment *)

CancelContext(c) ==
    /\ pc[c] # "idle"
    /\ ctx[c] = "live"
    /\ ctx' = [ctx EXCEPT ![c] = "done"]
    /\ UNCHANGED <<now, published, gate, provider, pc, op, snap, got, ret, asked>>

\* The authorization server rotates its keys.
Publish ==
    /\ published < Len(Documents)
    /\ published' = published + 1
    /\ UNCHANGED <<now, gate, provider, pc, op, ctx, snap, got, ret, asked>>

Tick ==
    /\ now < MaxNow
    /\ now' = now + 1
    /\ UNCHANGED <<published, gate, provider, pc, op, ctx, snap, got, ret, asked>>

-----------------------------------------------------------------------------
Begin(c) == \E x \in Contexts :
               BeginRefresh(c, x) \/ \E q \in Queries : BeginKey(c, q, x)

Continue(c) == LockFails(c) \/ LockRefresh(c) \/ Store(c) \/ Recheck(c)

Next == \/ \E c \in Callers : Begin(c) \/ Continue(c) \/ GetReply(c) \/ CancelContext(c)
        \/ Publish \/ Tick

Spec == Init /\ [][Next]_vars

\* Goroutines run; a channel serves its blocked senders in order, so nobody is
\* passed over for ever at the gate; net/http returns from a request whose
\* context is done.
FairSpec == /\ Spec
            /\ \A c \in Callers : /\ WF_vars(Continue(c))
                                  /\ SF_vars(LockRefresh(c))
                                  /\ WF_vars(ctx[c] = "done" /\ GetReply(c))

\* The default http.Client has a timeout, so every GET returns.
NetworkFairness == \A c \in Callers : WF_vars(GetReply(c))
-----------------------------------------------------------------------------
(* Properties *)

\* Every field keeps its Go type.
TypeOK ==
    /\ now \in Nat
    /\ published \in 1..Len(Documents)
    /\ gate \in Callers \cup {Nobody}
    /\ keys \in 0..Len(Documents)
    /\ fetchedAt \in Nat \cup {Never} /\ expiresAt \in Nat \cup {Never}
    /\ generation \in Nat /\ refreshVersion \in Nat
    /\ lastRefreshErr \in {"nil", "failed", "canceled"}
    /\ lastRefreshCanceledByCaller \in BOOLEAN
    /\ pc \in [Callers -> {"idle", "lock", "get", "store", "recheck"}]
    /\ op \in [Callers -> Queries \cup {Explicit}]
    /\ ctx \in [Callers -> {"nil", "live", "done"}]
    /\ snap \in [Callers -> [generation : Nat, version : Nat, getting : BOOLEAN]]
    /\ got \in [Callers -> [err : Errors \cup {"nil"}, doc : 0..Len(Documents)]]
    /\ ret \in [Callers -> {"none", "nil", "key", "mismatch", "notFound"} \cup Errors]
    /\ asked \in [Callers -> {"no", "first", "retry", "explicit"}]

\* A cancellation error reaches only a caller whose own context is done: the
\* goroutine that held the gate and was canceled does not poison the goroutines
\* that queued behind it.
NoForeignCancellation ==
    \A c \in Callers : ret[c] = "canceled" => ctx[c] = "done"

\* When refreshIfUnchanged reports success the key set was replaced after the
\* caller's snapshot, by the caller or by somebody it queued behind: the error
\* of a failed attempt never turns into a nil error on its way to a waiter.
SuccessMeansNewKeys ==
    \A c \in Callers : (pc[c] = "recheck" /\ got[c].err = "nil") => generation > snap[c].generation

\* Goroutines that took their snapshot before the same refresh attempt send one
\* GET between them, however many they are and whether it succeeds or fails;
\* only a canceled attempt is repeated.
OneGetPerSnapshot ==
    \A c, d \in Callers :
        (asked[c] = "first" /\ asked[d] = "first" /\ snap[c].version = snap[d].version) => c = d

\* GETs never overlap, and key sets are applied in the order the server
\* published them: an old document never replaces a newer one.
KeySetsInOrder == [][keys' >= keys /\ fetchedAt' >= fetchedAt]_vars

\* A key that Key returns is fresh, or within the stale window measured from the
\* last successful fetch, or was fetched during this very call.
ServedKeyJustified ==
    [][\A c \in Callers :
         (pc[c] # "idle" /\ ret[c] # ret'[c] /\ ret'[c] = "key") =>
            \/ now < expiresAt
            \/ now - fetchedAt <= MaxStale
            \/ generation > snap[c].generation]_vars

\* README: "a token whose `kid` is not in the current cache, also triggers a
\* JWKS HTTP GET".  ErrKeyNotFound is returned only when some GET was sent
\* after Key was called.
NotFoundAfterGet ==
    [][\A c \in Callers :
         (pc[c] = "recheck" /\ ret'[c] = "notFound") =>
            refreshVersion + (IF gate # Nobody THEN 1 ELSE 0) >
            snap[c].version + (IF snap[c].getting THEN 1 ELSE 0)]_vars

\* A caller whose context is done returns even when the JWKS endpoint hangs,
\* whether it waits for the gate or holds it.
CanceledCallerReturns ==
    \A c \in Callers : (pc[c] # "idle" /\ ctx[c] = "done") ~> (pc[c] = "idle")

\* Every Key and every Refresh returns if GETs return.
EveryCallerReturns ==
    NetworkFairness => \A c \in Callers : pc[c] # "idle" ~> pc[c] = "idle"
=============================================================================
