------------------------------- MODULE Scopes -------------------------------
(***************************************************************************)
(* The scope language (src/scopes.go, src/server/scopes.go, src/claims.go).*)
(* A scope is the sequence of its dot-separated segments: "orders.read" is *)
(* <<"orders", "read">>, the blank string is <<"">>.  Scopes reach these   *)
(* functions through NormalizeScopes, which splits at white space, so no   *)
(* segment holds any, and which sorts and removes duplicates, so a list of *)
(* scopes is a set.                                                        *)
(***************************************************************************)
EXTENDS Integers, Sequences

CONSTANTS
    Segments,   \* the segments scopes are made of
    Starred     \* the segments with an asterisk in them

ASSUME SegmentsAssumption == /\ {"", "*", "**"} \subseteq Segments
                             /\ {"*", "**"} \subseteq Starred
                             /\ Starred \subseteq Segments
                             /\ "" \notin Starred

Scope == Seq(Segments) \ {<<>>}
Blank == <<"">>

containsScopeWildcard(s) == \E i \in 1..Len(s) : s[i] \in Starred

\* wildcardScopeParts succeeds: a prefix that is not blank, one "*" or "**" as
\* the last segment and no other asterisk.
IsPattern(s) ==
    /\ Len(s) > 1
    /\ s[Len(s)] \in {"*", "**"}
    /\ \A i \in 1..(Len(s) - 1) : s[i] \notin Starred
    /\ Len(s) = 2 => s[1] # ""

\* ValidateScopeWildcard returns no error.
ValidWildcard(s) == containsScopeWildcard(s) => IsPattern(s)

\* required begins with the prefix of owned and a dot, and something follows.
UnderPrefix(owned, required) ==
    /\ Len(required) >= Len(owned)
    /\ \A i \in 1..(Len(owned) - 1) : required[i] = owned[i]
    /\ ~ (Len(required) = Len(owned) /\ required[Len(required)] = "")

\* Mutant: a one-segment wildcard covers any number of segments.
CoversDeep(owned, required) ==
    /\ owned # Blank /\ required # Blank
    /\ \/ owned = required
       \/ ValidWildcard(required) /\ IsPattern(owned) /\ UnderPrefix(owned, required)

ScopeCovers(owned, required) ==
    /\ owned # Blank /\ required # Blank
    /\ \/ owned = required
       \/ /\ ValidWildcard(required)
          /\ IsPattern(owned)
          /\ UnderPrefix(owned, required)
          /\ \/ owned[Len(owned)] = "**"
             \/ Len(required) = Len(owned) /\ required[Len(required)] \notin Starred

\* scopeSetCovers and isScopeAllowed: the same loop in two packages.
SetCovers(owned, required) == \E s \in owned : ScopeCovers(s, required)

\* Claims.HasAllScopes
HasAllScopes(owned, required) == \A s \in required : SetCovers(owned, s)

\* expandWildcardScopeRequest
Expand(requested, allowed) ==
    {s \in allowed : ~ containsScopeWildcard(s) /\ ScopeCovers(requested, s)}

\* Mutant: a selector that matches nothing is passed over.
ResolvePartly(requested, allowed) ==
    [ok     |-> \A s \in requested : ValidWildcard(s),
     scopes |-> {s \in requested : ~ containsScopeWildcard(s) /\ SetCovers(allowed, s)}
                \cup UNION {Expand(s, allowed) : s \in {r \in requested : containsScopeWildcard(r)}}]

\* resolveRequestedScopes: the scopes to issue, unless some requested scope is
\* malformed, not allowed, or a selector that selects nothing.
resolveRequestedScopes(requested, allowed) ==
    LET selectors == {s \in requested : containsScopeWildcard(s)}
    IN  [ok     |-> /\ \A s \in requested : ValidWildcard(s)
                    /\ \A s \in selectors : Expand(s, allowed) # {}
                    /\ \A s \in requested \ selectors : SetCovers(allowed, s),
         scopes |-> (requested \ selectors) \cup UNION {Expand(s, allowed) : s \in selectors}]
=============================================================================
