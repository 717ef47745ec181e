----------------------------- MODULE KeyRotation -----------------------------
(***************************************************************************)
(* Signing-key rotation across the system: replicas of the authorization   *)
(* server that are restarted, one after the other, with the configurations *)
(* T0..T3 of docs/architecture.md; a shared HTTP cache that honours the    *)
(* Cache-Control of the JWKS endpoint; and verifiers, each with a          *)
(* RemoteProvider cache and a clock of its own.  The provider is the       *)
(* sequential one: RemoteProvider models its concurrency.                  *)
(***************************************************************************)
EXTENDS Integers, FiniteSets

CONSTANTS
    Replicas,           \* processes of the authorization server
    Verifiers,          \* resource servers
    Skew,               \* per verifier: how far its clock is ahead of the issuer's
    TTL,                \* accessTokenTTL
    Leeway,             \* Verifier.leeway
    RefreshInterval,    \* RemoteProvider.refreshInterval
    MaxStale,           \* RemoteProvider.maxStale
    MaxAge,             \* max-age of the JWKS response, 0 without an HTTP cache
    MaxTokens, MaxNow   \* bounds

\* Clocks agree up to the leeway of the verifiers.
ASSUME SkewAssumption == /\ Skew \in [Verifiers -> Int]
                         /\ \A v \in Verifiers : Skew[v] <= Leeway /\ -Skew[v] <= Leeway
ASSUME DurationAssumption == /\ TTL \in Nat \ {0} /\ Leeway \in Nat
                             /\ RefreshInterval \in Nat \ {0} /\ MaxStale \in Nat \ {0}
                             /\ MaxAge \in Nat
                             /\ Replicas # {}
                             /\ MaxTokens \in Nat /\ MaxNow \in Nat

Steps == 0..3

\* Mutant: the new key signs as soon as it is published.
activeAtOnce(step) == IF step < 1 THEN "old" ELSE "new"

\* The active signer of step T0, T1, T2, T3.
activeSigner(step) == IF step < 2 THEN "old" ELSE "new"

\* The signers of a configuration: what its JWKS response publishes.
signers(step) == CASE step = 0 -> {"old"} [] step = 3 -> {"new"} [] OTHER -> {"old", "new"}

VARIABLES
    planned,    \* the operator waits between the steps of the rotation
    now,        \* the issuer's clock
    stage,      \* per replica: the step whose configuration it runs with
    since,      \* when the last replica reached the lowest step
    tokens,     \* tokens in use: the key that signed them and when
    cache,      \* per verifier: RemoteProvider.keys and fetchedAt
    proxy,      \* the HTTP cache's copy of the JWKS response
    last        \* the last verdict

vars == <<planned, now, stage, since, tokens, cache, proxy, last>>

Never == [keys |-> {}, at |-> -1]
NoVerdict == [ok |-> TRUE, reached |-> FALSE, kid |-> "", exp |-> 0]

Init ==
    /\ planned \in BOOLEAN
    /\ now = 0
    /\ stage = [r \in Replicas |-> 0]
    /\ since = 0
    /\ tokens = {}
    /\ cache = [v \in Verifiers |-> Never]
    /\ proxy = Never
    /\ last = NoVerdict

-----------------------------------------------------------------------------
(* The authorization server *)

\* issueAccessToken and Sign on replica r: the active signer's kid, nbf and iat
\* at the clock, exp one TTL later.
IssueToken(r) ==
    /\ Cardinality(tokens) < MaxTokens
    /\ tokens' = tokens \cup {[kid |-> activeSigner(stage[r]), iat |-> now, exp |-> now + TTL]}
    /\ UNCHANGED <<planned, now, stage, since, cache, proxy, last>>

\* How long the operator waits at a step, all replicas having reached it: at T2 "max
\* token TTL + clock skew", as the document says; and at T1, where it names no wait,
\* until no HTTP cache holds a JWKS response without the new key.
Wait(step) == IF step = 1 THEN MaxAge ELSE IF step = 2 THEN TTL + Leeway ELSE 0

\* Replica r is restarted with the configuration of the next step.
Restart(r) ==
    /\ stage[r] < 3
    /\ \A q \in Replicas : stage[q] >= stage[r]
    /\ planned => now - since >= Wait(stage[r])
    /\ stage' = [stage EXCEPT ![r] = @ + 1]
    /\ since' = IF \A q \in Replicas : stage'[q] = stage'[r] THEN now ELSE since
    /\ UNCHANGED <<planned, now, tokens, cache, proxy, last>>

\* JWKSHTTP on replica r behind the HTTP cache: the response a GET brings.
Response(r) ==
    IF proxy # Never /\ now - proxy.at < MaxAge
    THEN proxy
    ELSE [keys |-> signers(stage[r]), at |-> now]

-----------------------------------------------------------------------------
(* The verifiers *)

Fresh(v) == cache[v] # Never /\ now < cache[v].at + RefreshInterval

\* Mutant: a key is served from a stale cache for ever.
StaleForever(v) == cache[v] # Never

StaleOK(v) == cache[v] # Never /\ now - cache[v].at <= MaxStale

\* jwt's validation of exp, nbf and iat on the clock of v, which WithLeeway widens.
TimesOK(v, t) ==
    /\ now + Skew[v] < t.exp + Leeway
    /\ now + Skew[v] >= t.iat - Leeway

Verdict(v, t, keys, reached) ==
    [ok |-> t.kid \in keys /\ TimesOK(v, t), reached |-> reached, kid |-> t.kid, exp |-> t.exp]

\* Verify with the key in the fresh cache.
VerifyCached(v, t) ==
    /\ Fresh(v) /\ t.kid \in cache[v].keys
    /\ last' = Verdict(v, t, cache[v].keys, TRUE)
    /\ UNCHANGED <<planned, now, stage, since, tokens, cache, proxy>>

\* Verify with a GET that replica r or the HTTP cache answers: the cache has
\* expired, or does not have the kid.
VerifyFetched(v, t, r) ==
    /\ ~ (Fresh(v) /\ t.kid \in cache[v].keys)
    /\ proxy' = Response(r)
    /\ cache' = [cache EXCEPT ![v] = [keys |-> Response(r).keys, at |-> now]]
    /\ last' = Verdict(v, t, Response(r).keys, TRUE)
    /\ UNCHANGED <<planned, now, stage, since, tokens>>

\* Verify with a GET that fails: what the stale cache has is still good.
VerifyUnreached(v, t) ==
    /\ ~ (Fresh(v) /\ t.kid \in cache[v].keys)
    /\ last' = Verdict(v, t, IF StaleOK(v) THEN cache[v].keys ELSE {}, FALSE)
    /\ UNCHANGED <<planned, now, stage, since, tokens, cache, proxy>>

\* Time passes; callers drop the tokens that no verifier accepts any more.
Tick ==
    /\ now < MaxNow
    /\ now' = now + 1
    /\ tokens' = {t \in tokens : now < t.exp + 2 * Leeway}
    /\ last' = NoVerdict
    /\ UNCHANGED <<planned, stage, since, cache, proxy>>

Next ==
    \/ \E r \in Replicas : IssueToken(r) \/ Restart(r)
    \/ \E v \in Verifiers, t \in tokens : \/ VerifyCached(v, t)
                                          \/ VerifyUnreached(v, t)
                                          \/ \E r \in Replicas : VerifyFetched(v, t, r)
    \/ Tick

Spec == Init /\ [][Next]_vars
-----------------------------------------------------------------------------
(* Properties *)

\* A planned rotation, with the wait at T1, is invisible: as long as the JWKS endpoint can be reached,
\* no verifier refuses a token that has not expired, whichever replica issued it,
\* whichever replica or HTTP cache answered the GET, whatever the verifier has
\* cached, and however far, within the leeway, its clock is off.
NoOutage == (planned /\ last.reached /\ now < last.exp) => last.ok

Larger(a, b) == IF a > b THEN a ELSE b

\* A key that was withdrawn at once, with tokens signed by it still alive, is
\* refused by every verifier, reached or not, after the longer of the refresh
\* interval and the stale window, plus the age of a cached JWKS response.
WithdrawnKeyDies ==
    (last.ok /\ last.kid = "old" /\ \A r \in Replicas : stage[r] = 3) =>
        now - since <= Larger(RefreshInterval, MaxStale) + MaxAge
=============================================================================
