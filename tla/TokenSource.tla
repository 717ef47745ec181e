------------------------------ MODULE TokenSource ------------------------------
(***************************************************************************)
(* What client.Provider promises its callers (README: "shares one token    *)
(* acquisition between concurrent goroutines"), without call objects,      *)
(* counters and locks.  A key is being acquired or it is not; whoever      *)
(* waits for it gets the one outcome of the acquisition, and only the last *)
(* one to give up stops it.                                                *)
(***************************************************************************)
EXTENDS TokenRequests

CONSTANTS Callers

VARIABLES
    now,        \* the clock
    ctx,        \* per caller: its context, "nil", "live" or "done"
    want,       \* per caller: the key it asks for
    phase,      \* per caller: "idle", "asking" or "sharing" an acquisition
    outcome,    \* per caller: how the acquisition it shares ended, if it did
    stock,      \* per key: the token kept
    acquiring,  \* per key: whether a token is being acquired
    ret         \* per caller: what its last request returned

vars == <<now, ctx, want, phase, outcome, stock, acquiring, ret>>

Init ==
    /\ now = 0
    /\ ctx = [c \in Callers |-> "live"]
    /\ want = [c \in Callers |-> NoKey]
    /\ phase = [c \in Callers |-> "idle"]
    /\ outcome = [c \in Callers |-> NoResult]
    /\ stock = [k \in Keys |-> NoToken]
    /\ acquiring = [k \in Keys |-> FALSE]
    /\ ret = [c \in Callers |-> NoResult]

HasFresh(k) == stock[k] # NoToken /\ FreshAt(stock[k], now)

\* Whoever looks clears away the tokens that are not fresh, and nothing else.
DropStale == stock' = [k \in Keys |-> IF HasFresh(k) THEN stock[k] ELSE NoToken]

Return(c, result) ==
    /\ phase' = [phase EXCEPT ![c] = "idle"]
    /\ outcome' = [outcome EXCEPT ![c] = NoResult]
    /\ ret' = [ret EXCEPT ![c] = result]

\* Callers that share the acquisition of k, which has not ended.
Sharing(k) == {c \in Callers : /\ phase[c] = "sharing"
                               /\ want[c] = k
                               /\ outcome[c] = NoResult}
-----------------------------------------------------------------------------
\* A request without an audience is refused at once.
Refuse(c) ==
    /\ phase[c] = "idle"
    /\ Return(c, Misused)
    /\ UNCHANGED <<now, ctx, want, stock, acquiring>>

\* A request is answered with the fresh token kept for its key, or goes on.
Ask(c, k, x) ==
    /\ phase[c] = "idle"
    /\ ctx' = [ctx EXCEPT ![c] = x]
    /\ want' = [want EXCEPT ![c] = k]
    /\ DropStale
    /\ \/ HasFresh(k) /\ Return(c, Token(stock[k]))
       \/ /\ ~HasFresh(k)
          /\ phase' = [phase EXCEPT ![c] = "asking"]
          /\ ret' = [ret EXCEPT ![c] = NoResult]
          /\ UNCHANGED outcome
    /\ UNCHANGED <<now, acquiring>>

\* Only the caller's own context makes it give up before it shares anything.
Decline(c) ==
    /\ phase[c] = "asking"
    /\ \/ ctx[c] = "nil" /\ Return(c, Misused)
       \/ ctx[c] = "done" /\ Return(c, Canceled)
    /\ UNCHANGED <<now, ctx, want, stock, acquiring>>

\* A caller takes a token that has come in meanwhile, or shares the acquisition
\* of its key, the one that is under way if there is one.
Share(c) ==
    LET k == want[c]
    IN  /\ phase[c] = "asking"
        /\ DropStale
        /\ \/ HasFresh(k) /\ Return(c, Token(stock[k])) /\ UNCHANGED acquiring
           \/ /\ ~HasFresh(k)
              /\ phase' = [phase EXCEPT ![c] = "sharing"]
              /\ acquiring' = [acquiring EXCEPT ![k] = TRUE]
              /\ UNCHANGED <<outcome, ret>>
        /\ UNCHANGED <<now, ctx, want>>

\* A caller whose own context is done leaves; the acquisition stops if nobody
\* else shares it, and goes on for the others if somebody does.
Leave(c) ==
    LET k == want[c]
    IN  /\ phase[c] = "sharing"
        /\ ctx[c] = "done"
        /\ Return(c, Canceled)
        /\ acquiring' = IF Sharing(k) = {c}
                        THEN [acquiring EXCEPT ![k] = FALSE] ELSE acquiring
        /\ UNCHANGED <<now, ctx, want, stock>>

\* Everybody who shares the acquisition of k, and nobody else, gets the outcome.
GiveOut(k, result) ==
    outcome' = [c \in Callers |-> IF c \in Sharing(k) THEN result ELSE outcome[c]]

\* An acquisition ends with an error, which is nobody's cancellation, or with a
\* token for its key, which is kept.
End(k) ==
    /\ acquiring[k]
    /\ acquiring' = [acquiring EXCEPT ![k] = FALSE]
    /\ \/ GiveOut(k, Failed) /\ UNCHANGED stock
       \/ /\ stock'[k] \in Tokens
          /\ stock'[k].key = k
          /\ stock'[k].expiresIn > 0
          /\ stock' = [stock EXCEPT ![k] = stock'[k]]
          /\ GiveOut(k, Token(stock'[k]))
    /\ UNCHANGED <<now, ctx, want, phase, ret>>

\* A caller collects the outcome.
Collect(c) ==
    /\ phase[c] = "sharing"
    /\ outcome[c] # NoResult
    /\ Return(c, outcome[c])
    /\ UNCHANGED <<now, ctx, want, stock, acquiring>>

Cancel(c) ==
    /\ phase[c] # "idle"
    /\ ctx[c] = "live"
    /\ ctx' = [ctx EXCEPT ![c] = "done"]
    /\ UNCHANGED <<now, want, phase, outcome, stock, acquiring, ret>>

Tick ==
    /\ now' = now + 1
    /\ UNCHANGED <<ctx, want, phase, outcome, stock, acquiring, ret>>

CallerStep(c) ==
    \/ Refuse(c)
    \/ \E k \in Keys, x \in {"nil", "live", "done"} : Ask(c, k, x)
    \/ Decline(c)
    \/ Share(c)
    \/ Leave(c)
    \/ Collect(c)
    \/ Cancel(c)

Next ==
    \/ \E c \in Callers : CallerStep(c)
    \/ \E k \in Keys : End(k)
    \/ Tick

Spec == Init /\ [][Next]_vars
=============================================================================
