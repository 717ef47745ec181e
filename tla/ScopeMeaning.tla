---------------------------- MODULE ScopeMeaning ----------------------------
(***************************************************************************)
(* A reference definition of covering, by which the token service and the  *)
(* guards compare scopes: the set of concrete scopes that a scope or a     *)
(* pattern stands for.                                                     *)
(***************************************************************************)
EXTENDS TokenService

CONSTANT MaxSegments    \* the longest scope looked at

\* Were there a single segment "a" to put in its place, "p.*" would stand for nothing
\* but "p.a".
ASSUME MeaningAssumption ==
    /\ MaxSegments \in Nat
    /\ \E x, y \in Segments \ Starred : x # y /\ x # "" /\ y # ""

ShortScope == (UNION {[1..n -> Segments] : n \in 1..MaxSegments}) \ {Blank}

\* Concrete scopes one segment longer than the patterns: long enough to tell
\* "p.*" from "p.**".
Concrete == (UNION {[1..n -> Segments \ Starred] : n \in 1..(MaxSegments + 1)}) \ {Blank}

\* What a scope stands for: itself, or for the pattern "p.*" the scopes p.x of
\* one more segment, and for "p.**" the scopes with at least one more.
Meaning(s) ==
    LET prefix == SubSeq(s, 1, Len(s) - 1)
        rest(c) == SubSeq(c, Len(s), Len(c))
        below == {c \in Concrete : /\ Len(c) >= Len(s)
                                   /\ SubSeq(c, 1, Len(s) - 1) = prefix
                                   /\ rest(c) # Blank}
    IN  CASE ~ containsScopeWildcard(s) -> {s}
          [] s[Len(s)] = "*"  -> {c \in below : Len(c) = Len(s)}
          [] s[Len(s)] = "**" -> below

\* Covering is containment: for scopes that ValidateScopeWildcard accepts, owned
\* covers required exactly when every concrete scope required stands for is one
\* that owned stands for.  Hence covering is transitive, a recursive wildcard
\* covers the ones below it, and no one-segment wildcard covers a recursive one.
CoversAsMeant ==
    LET valid == {s \in ShortScope : ValidWildcard(s)}
        meaning == [s \in valid |-> Meaning(s)]
    IN  \A owned, required \in valid :
            ScopeCovers(owned, required) <=> meaning[required] \subseteq meaning[owned]

\* Covering is containment (src/scopes.go ScopeCovers).  This does not depend on the
\* state and is evaluated in the initial one.
CoversIsContainment == Init => CoversAsMeant
=============================================================================
