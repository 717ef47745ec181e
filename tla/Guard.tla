------------------------------- MODULE Guard -------------------------------
(***************************************************************************)
(* The resource server's side of a request: Verifier.Verify                *)
(* (src/verifier.go) and the middleware a Builder makes of it              *)
(* (src/ginorion/builder.go, src/ginorion/middleware.go).  They keep no    *)
(* state: a builder, a guard, a verifier and a token are records.          *)
(***************************************************************************)
EXTENDS Scopes

CONSTANTS
    NoVerifier,         \* the nil *Verifier
    NoProvider,         \* the nil KeyProvider
    RemoteKids,         \* the kids that the JWKS endpoint of a builder publishes
    DefaultLeeway       \* Verifier.leeway unless it is set

DefaultAlgorithms == {"EdDSA", "RS256", "PS256", "ES256"}

\* VerifierFor; a key provider is the set of the kids it has keys for.
NewVerifier(issuer, audience, provider) ==
    [issuer |-> issuer, audience |-> audience, provider |-> provider,
     leeway |-> DefaultLeeway, algs |-> DefaultAlgorithms, use |-> "access"]

\* Mutant: the expiry of a token is not looked at.
TimesIgnoringExpiry(v, t, clock) == clock >= t.nbf - v.leeway /\ clock >= t.iat - v.leeway

\* jwt's validation of exp, nbf and iat, widened by the leeway.
TimesOK(v, t, clock) ==
    LET leeway == IF v.leeway > 0 THEN v.leeway ELSE 0
    IN  /\ clock < t.exp + leeway
        /\ clock >= t.nbf - leeway
        /\ clock >= t.iat - leeway

\* Verify accepts token t at the given reading of its clock.
Verifies(v, t, clock) ==
    /\ v.provider # NoProvider
    /\ t.alg \in (IF v.algs = {} THEN DefaultAlgorithms ELSE v.algs)
    /\ t.kid # "" /\ t.kid \in v.provider
    /\ TimesOK(v, t, clock)
    /\ v.issuer \in {"", t.iss}
    /\ v.audience \in {"", t.aud}
    /\ v.use \in {"", t.use}
    /\ t.sub # "" /\ t.clientID # ""
-----------------------------------------------------------------------------
(* Builder and Guard *)

\* Build returns no error.
Builds(b) ==
    \/ b.verifier # NoVerifier
    \/ b.issuer # "" /\ b.audience # "" /\ (b.provider # NoProvider \/ b.jwksURL # "")

buildVerifier(b) ==
    IF b.verifier # NoVerifier THEN b.verifier
    ELSE NewVerifier(b.issuer, b.audience,
                     IF b.provider # NoProvider THEN b.provider ELSE RemoteKids)

newGuard(verifier, scopes) == [verifier |-> verifier, requiredScopes |-> scopes \ {Blank}]

Build(b) == newGuard(buildVerifier(b), b.scopes)

\* Any argument of Require, be it blank, replaces the scopes of the builder.
firstScopes(primary, fallback) == IF primary # {} THEN primary ELSE fallback

\* The guard of a route's handler: what Require(args) makes of the guard that
\* Build returned.  The older Middleware(verifier, WithScopes(scopes)) is the route
\* of newGuard(verifier, scopes) without arguments.
GuardOf(route) ==
    newGuard(route.guard.verifier, firstScopes(route.args, route.guard.requiredScopes))

\* BearerToken returns no error; a header is the sequence of its fields, the scheme
\* in a canonical spelling, as EqualFold ignores case.
BearerToken(header) == Len(header) = 2 /\ header[1] = "Bearer"

\* The middleware: the code of the error it answers with, or "next".
Outcome(guard, header, clock) ==
    IF ~ BearerToken(header) THEN "missing_bearer_token"
    ELSE IF guard.verifier = NoVerifier THEN "auth_misconfigured"
    ELSE IF ~ Verifies(guard.verifier, header[2], clock) THEN "invalid_token"
    ELSE IF ~ HasAllScopes(header[2].scope, guard.requiredScopes) THEN "insufficient_scope"
    ELSE "next"
=============================================================================
