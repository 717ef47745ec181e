----------------------------- MODULE ClientRecords -----------------------------
(***************************************************************************)
(* Client records of the authorization server (src/server/client.go): what *)
(* Normalize makes of a record, which records Validate accepts, and which  *)
(* secrets a record knows.  Lists are sets, as in Scopes; "" is a string   *)
(* that is empty after TrimSpace.                                          *)
(***************************************************************************)
EXTENDS Scopes

\* A hex digest is that of some secret, or no SHA-256 digest at all.
Digest(secret) == <<"sha256", secret>>
IsDigest(d) == d[1] = "sha256"

Normalize(c) == [c EXCEPT !.audiences = @ \ {""}, !.allowed = @ \ {Blank}, !.defaults = @ \ {Blank}]

hasCredentials(c) == c.secrets \ {""} # {} \/ c.digests # {}

\* Mutant: defaults may hold wildcards, like the allowed scopes.
PolicyWithWildcardDefaults(c) ==
    \A s \in Normalize(c).allowed \cup Normalize(c).defaults : ValidWildcard(s)

ValidateScopePolicy(c) ==
    /\ \A s \in Normalize(c).allowed : ValidWildcard(s)
    /\ \A s \in Normalize(c).defaults : ~ containsScopeWildcard(s)

Validate(c) ==
    LET n == Normalize(c)
    IN  /\ n.id # ""
        /\ hasCredentials(n)
        /\ \A d \in n.digests : IsDigest(d)
        /\ n.audiences # {}
        /\ ValidateScopePolicy(n)
        /\ \A s \in n.defaults : SetCovers(n.allowed, s)

\* VerifySecret: the secret is stored, or its digest is.
VerifySecret(c, secret) ==
    /\ secret # ""
    /\ secret \in c.secrets \/ Digest(secret) \in c.digests
=============================================================================
