----------------------------- MODULE TokenRequests -----------------------------
(***************************************************************************)
(* What a token request asks for, what it returns and how long a token may *)
(* be used: Provider.target (src/client/provider.go), cacheKey and freshAt *)
(* (src/client/cache.go).                                                  *)
(***************************************************************************)
EXTENDS Integers

CONSTANTS
    Requests,           \* [audience, scopes] arguments of TokenResponse
    Blank,              \* an audience that is empty after TrimSpace
    DefaultAudience,    \* Provider.audience
    DefaultScopes,      \* Provider.scopes
    ExpiresIns,         \* expires_in values the token endpoint may answer
    Second,             \* clock ticks in time.Second
    MaxDuration,        \* largest time.Duration (2^63-1 in Go)
    RefreshSkew,        \* Provider.refreshSkew in ticks
    NoToken             \* no entry in Provider.cache

\* normalizeConfig (src/client/config.go) replaces RefreshSkew <= 0 by 60s.
ASSUME TimeAssumption == /\ Second \in Nat \ {0}
                         /\ RefreshSkew \in Nat \ {0}
                         /\ MaxDuration \in Nat \ {0}
                         /\ ExpiresIns \subseteq Int

\* Provider.target: blank arguments fall back to the provider's own.
Target(r) ==
    [audience |-> IF r.audience = Blank THEN DefaultAudience ELSE r.audience,
     scopes   |-> IF r.scopes = {} THEN DefaultScopes ELSE r.scopes]

\* The key of a caller that has made no request yet.
NoKey == [audience |-> Blank, scopes |-> {}]

Keys == {t \in {Target(r) : r \in Requests} : t.audience # Blank}

\* time.Duration arithmetic: a signed machine word that wraps.
Wrap(d) == ((d + MaxDuration + 1) % (2 * (MaxDuration + 1))) - (MaxDuration + 1)
Seconds(n) == Wrap(n * Second)

\* Go's integer division truncates toward zero.
Tenth(d) == IF d >= 0 THEN d \div 10 ELSE -((-d) \div 10)

Tokens == [key : Keys, expiresIn : Int, expiresAt : Int]

FreshAt(token, t) ==
    LET ttl  == Seconds(token.expiresIn)
        skew == IF RefreshSkew >= ttl THEN Tenth(ttl) ELSE RefreshSkew
    IN  /\ token.expiresIn > 0
        /\ token.expiresAt - t > skew

Failed   == [kind |-> "failed"]     \* status, decode, transport or timeout error
Canceled == [kind |-> "canceled"]   \* the error of a context that was canceled
Misused  == [kind |-> "misused"]    \* nil context or no audience
NoResult == [kind |-> "none"]
Token(t) == [kind |-> "token", token |-> t]

Results == {Failed, Canceled, Misused, NoResult} \cup
           [kind : {"token"}, token : Tokens]
=============================================================================
