----------------------------- MODULE MCTokenCache -----------------------------
(* TokenCache on small instances. *)
EXTENDS TokenCache, TLC

\* Two spellings of one request: blank arguments and the provider's own.  The
\* first has no audience at all when the provider has none.
MCRequests == {[audience |-> Blank, scopes |-> {}],
               [audience |-> "billing", scopes |-> {"read"}]}
MCScopes == {"read"}

\* Lifetimes in seconds, of ten ticks when MaxDuration is 63: 0 is refused,
\* and 13 overflows time.Duration to two ticks, which is shorter than the skew.
MCExpiresIns == {0, 13}

MCSymmetry == Permutations(Callers) \cup Permutations(Calls)
=============================================================================
