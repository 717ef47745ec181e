------------------------------ MODULE EndToEnd ------------------------------
(***************************************************************************)
(* One service calls another: the client's token cache, the token endpoint *)
(* with its client store, and the guards of the resource servers' routes.  *)
(* The token endpoint is TokenService; the client acquires one token per   *)
(* target at a time, which is what TokenCache does for its callers.        *)
(* Handlers and answers of the token endpoint take at most MaxDelay a step; *)
(* a request with a token may be held back for any time, or be a retry.    *)
(***************************************************************************)
EXTENDS TokenService, Guard, FiniteSets

CONSTANTS
    Targets,            \* [audience, scopes] that the client asks tokens for
    ClientID, Secret,   \* the credentials of the client
    Routes,             \* [guard, args, skew]: a guard, the arguments of Require, and
                        \* how far the resource server's clock is ahead
    Issuer, KID,        \* Server.issuer, the kid of the active signer
    AccessTokenTTL,     \* tokenService.accessTokenTTL
    RefreshSkew,        \* Provider.refreshSkew
    Second,             \* clock ticks in a second
    MaxDelay,           \* bound on the time a step or an answer of a handler takes
    MaxWire, MaxUpserts, MaxNow     \* bounds

\* Clocks agree up to the leeway of the verifiers; newGuard drops blank scopes.
ASSUME RoutesAssumption ==
    \A r \in Routes : /\ r.guard.requiredScopes \subseteq Scope \ {Blank}
                      /\ r.guard.verifier # NoVerifier =>
                            /\ r.skew \in Int /\ r.guard.verifier.leeway \in Int
                            /\ r.skew <= r.guard.verifier.leeway
                            /\ -r.skew <= r.guard.verifier.leeway
ASSUME DurationsAssumption == /\ Second \in Nat \ {0} /\ RefreshSkew \in Nat \ {0}
                              /\ AccessTokenTTL \in Nat /\ AccessTokenTTL >= Second
                              /\ MaxDelay \in Nat /\ MaxWire \in Nat
                              /\ MaxUpserts \in Nat /\ MaxNow \in Nat

VARIABLES
    now,        \* the client's and the issuer's clock
    asked,      \* per handler: the target whose token it is asked for, until the
                \* client has its answer
    stamp,      \* per handler: when it took its last step
    cache,      \* Provider.cache, per target
    wire,       \* requests on their way to a route, each with its target and the
                \* time its token was taken from the cache
    verdict,    \* after a request arrived, the request and what its guard made of it
    left,       \* history, per record: when it was last taken from the client store,
                \* if it was
    upserts     \* how often Upsert was called

endVars == <<now, asked, stamp, cache, wire, verdict, left, upserts>>
allVars == <<vars, endVars>>

\* The form and the credentials of requestToken.
TokenRequest(t) ==
    [method |-> "POST", form |-> TRUE, grant |-> "client_credentials",
     id |-> ClientID, secret |-> Secret, audience |-> t.audience, scopes |-> t.scopes]

ASSUME TargetsAssumption == /\ None \notin Targets
                            /\ {TokenRequest(t) : t \in Targets} \subseteq Requests
                            /\ KID # ""

EndInit ==
    /\ Init
    /\ now = 0
    /\ asked = [h \in Handlers |-> None]
    /\ stamp = [h \in Handlers |-> 0]
    /\ cache = [t \in Targets |-> None]
    /\ wire = {}
    /\ verdict = None
    /\ left = [c \in Records |-> {}]
    /\ upserts = 0
-----------------------------------------------------------------------------
(* The client *)

\* Mutant: a token is used until it expires.
FreshUntilExpiry(e, time) == e.expiresAt > time

\* freshAt
FreshAt(e, time) ==
    LET ttl == e.expiresIn * Second
        skew == IF RefreshSkew >= ttl THEN ttl \div 10 ELSE RefreshSkew
    IN  e.expiresIn > 0 /\ e.expiresAt - time > skew

Cached(t) == cache[t] # None /\ FreshAt(cache[t], now)

\* purgeStaleLocked, which every lookup begins with.
Purged == [t \in Targets |-> IF Cached(t) THEN cache[t] ELSE None]

\* No fresh token and no call in flight for target t: handler h gets the request.
Ask(h, t) ==
    /\ asked[h] = None /\ ~ Cached(t)
    /\ \A g \in Handlers : asked[g] # t
    /\ Receive(h, TokenRequest(t))
    /\ asked' = [asked EXCEPT ![h] = t]
    /\ stamp' = [stamp EXCEPT ![h] = now]
    /\ cache' = Purged
    /\ UNCHANGED <<now, wire, left, upserts>>

\* A step of handler h inside the token service; Issue reads the clock.
Serve(h) ==
    /\ FindClient(h) \/ StoreFails(h) \/ Issue(h)
    /\ stamp' = [stamp EXCEPT ![h] = now]
    /\ UNCHANGED <<now, asked, cache, wire, left, upserts>>

\* jwt.NewNumericDate
NumericDate(time) == (time \div Second) * Second

\* What issueAccessToken signed for handler h when its clock read at.
AccessToken(h, at) ==
    [iss |-> Issuer, sub |-> token[h].clientID, aud |-> token[h].audience,
     exp |-> NumericDate(at + AccessTokenTTL), nbf |-> NumericDate(at), iat |-> NumericDate(at),
     clientID |-> token[h].clientID, scope |-> token[h].scope, use |-> "access",
     alg |-> "EdDSA", kid |-> KID]

\* The answer reaches the client: runCall stores a token, an error is returned.
\* The handler's goroutine is over.
Deliver(h) ==
    LET seconds == AccessTokenTTL \div Second
    IN  /\ asked[h] # None /\ pc[h] = "idle"
        /\ cache' = [cache EXCEPT ![asked[h]] =
                        IF answer[h] # "token" THEN None
                        ELSE [token |-> AccessToken(h, stamp[h]), expiresIn |-> seconds,
                              expiresAt |-> now + seconds * Second]]
        /\ asked' = [asked EXCEPT ![h] = None]
        /\ stamp' = [stamp EXCEPT ![h] = 0]
        /\ request' = [request EXCEPT ![h] = None]
        /\ answer' = [answer EXCEPT ![h] = ""]
        /\ token' = [token EXCEPT ![h] = None]
        /\ seen' = [seen EXCEPT ![h] = {}]
        /\ UNCHANGED <<now, wire, left, upserts, clients, pc, client>>

\* RoundTrip: the request leaves with a fresh token of its target.
Send(t, r) ==
    /\ Cached(t) /\ Cardinality(wire) < MaxWire
    /\ wire' = wire \cup {[target |-> t, route |-> r,
                           header |-> <<"Bearer", cache[t].token>>, at |-> now]}
    /\ cache' = Purged
    /\ UNCHANGED <<now, asked, stamp, left, upserts, vars>>

\* Somebody who uses no Provider sends a request without a bearer token.
SendBare(r, header) ==
    /\ Cardinality(wire) < MaxWire
    /\ wire' = wire \cup {[target |-> None, route |-> r,
                           header |-> header, at |-> now]}
    /\ UNCHANGED <<now, asked, stamp, cache, left, upserts, vars>>
-----------------------------------------------------------------------------
\* Request m arrives at the guard of its route.
Arrive(m) ==
    /\ wire' = wire \ {m}
    /\ verdict' = [request |-> m,
                   code |-> Outcome(GuardOf(m.route), m.header, now + m.route.skew)]
    /\ UNCHANGED <<now, asked, stamp, cache, left, upserts, vars>>

\* Upsert of the authorization server's operator.
Replace(c) ==
    /\ upserts < MaxUpserts
    /\ upserts' = upserts + 1
    /\ clients[c.id] # Normalize(c)
    /\ Upsert(c)
    /\ left' = [d \in Records |-> IF d = clients[c.id] THEN {now} ELSE left[d]]
    /\ UNCHANGED <<now, asked, stamp, cache, wire>>

Tick ==
    /\ now < MaxNow
    /\ \A h \in Handlers : asked[h] # None => now - stamp[h] < MaxDelay
    /\ now' = now + 1
    /\ UNCHANGED <<asked, stamp, cache, wire, left, upserts, vars>>

EndNext ==
    \/ \E m \in wire : Arrive(m)
    \/ /\ \/ \E h \in Handlers : \/ \E t \in Targets : Ask(h, t)
                                 \/ Serve(h)
                                 \/ Deliver(h)
          \/ \E t \in Targets, r \in Routes : Send(t, r)
          \/ \E r \in Routes, header \in {<<>>, <<"Basic", None>>} : SendBare(r, header)
          \/ \E c \in Clients : Replace(c)
          \/ Tick
       /\ verdict' = None

EndSpec == EndInit /\ [][EndNext]_allVars
-----------------------------------------------------------------------------
(* Properties *)

\* Record c was in the client store after the given time.
InStoreAfter(c, time) == clients[c.id] = c \/ \E l \in left[c] : l > time

\* The scopes that the code of a route names, in Require or else in its builder.
Named(route) == IF route.args = {} THEN route.guard.requiredScopes ELSE route.args \ {Blank}

\* Disabling or narrowing a client takes effect: whatever the token cache holds
\* and however long its callers hold a token back, a guard lets a request of the
\* client through only if one record of the client, in the store within the last
\* AccessTokenTTL plus leeway, clock skew and the delay of a handler, was enabled
\* and allowed the audience and all scopes of the route.
AdmittedWasAllowed ==
    (verdict # None /\ verdict.code = "next") =>
        LET v == GuardOf(verdict.request.route).verifier
            horizon == AccessTokenTTL + v.leeway - verdict.request.route.skew + MaxDelay
        IN  \E c \in Records :
                /\ InStoreAfter(c, now - horizon)
                /\ Authenticates(c, TokenRequest(verdict.request.target))
                /\ v.audience # "" => v.audience \in c.audiences
                /\ \A s \in Named(verdict.request.route) : SetCovers(c.allowed, s)

\* How long before its expiry the client stops using a token.
EffectiveSkew ==
    LET ttl == (AccessTokenTTL \div Second) * Second
    IN  IF RefreshSkew >= ttl THEN ttl \div 10 ELSE RefreshSkew

\* The target asks for what the route wants.
Suits(t, route) ==
    LET guard == GuardOf(route)
        v == guard.verifier
    IN  /\ v # NoVerifier /\ v.issuer \in {"", Issuer} /\ v.use \in {"", "access"}
        /\ v.audience \in {"", t.audience} /\ (v.algs = {} \/ "EdDSA" \in v.algs)
        /\ v.provider # NoProvider /\ KID \in v.provider
        /\ \A s \in guard.requiredScopes : s \in t.scopes /\ ~ containsScopeWildcard(s)

\* A token that the client's cache considers fresh is good: a request sent with
\* it to a route that wants no more than the token was asked for is never refused,
\* although the answer of the token endpoint and the request take up to MaxDelay
\* each, the expiry is rounded down to seconds and the verifier's clock is off by
\* up to the leeway, as long as the delays stay within the refresh skew.
FreshTokenAdmitted ==
    (/\ verdict # None /\ verdict.request.target # None
     /\ Suits(verdict.request.target, verdict.request.route)
     /\ now - verdict.request.at <= MaxDelay
     /\ 2 * MaxDelay + Second <= EffectiveSkew + 1) =>
        verdict.code = "next"
=============================================================================
