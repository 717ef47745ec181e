-------------------------- MODULE KeyRotationProofs --------------------------
(***************************************************************************)
(* Proofs about KeyRotation, for every set of replicas and verifiers and   *)
(* all durations.                                                          *)
(***************************************************************************)
EXTENDS KeyRotation, TLAPS

-----------------------------------------------------------------------------
(* The inductive invariant *)

CopyType == [keys : SUBSET {"old", "new"}, at : Int]

\* Replicas are at most one step apart, and nothing is dated in the future.
Ordered ==
    /\ now \in Nat
    /\ stage \in [Replicas -> Steps]
    /\ \A q, r \in Replicas : stage[q] <= stage[r] + 1
    /\ since \in Nat /\ since <= now
    /\ \A t \in tokens : /\ t.kid \in {"old", "new"} /\ t.iat \in Nat /\ t.iat <= now
                         /\ t.exp = t.iat + TTL
    /\ cache \in [Verifiers -> CopyType]
    /\ \A v \in Verifiers : cache[v].at <= now
    /\ proxy \in CopyType /\ proxy.at <= now

All(step) == \A r \in Replicas : stage[r] >= step
Some(step) == \E r \in Replicas : stage[r] >= step

\* A planned rotation: tokens of the new key exist only when the HTTP cache has the
\* new key or its copy is too old to be used, and when a replica no longer
\* publishes the old key no token of it is alive.
InStep ==
    /\ \A t \in tokens : t.kid = "new" => Some(2)
    /\ (proxy # Never /\ "new" \notin proxy.keys) =>
          /\ All(1) => proxy.at <= since \/ proxy.at + MaxAge <= now
          /\ Some(2) => proxy.at + MaxAge <= now
    /\ \A t \in tokens : t.kid = "old" =>
          /\ All(2) => t.iat <= since \/ t.exp + Leeway <= now
          /\ Some(3) => t.exp + Leeway <= now
    /\ (proxy # Never /\ "old" \notin proxy.keys) => Some(3)

\* After the old key was withdrawn: the copies that still have it are from before.
Withdrawn ==
    All(3) => /\ "old" \in proxy.keys => proxy.at <= since
              /\ \A v \in Verifiers : "old" \in cache[v].keys => cache[v].at <= since + MaxAge

\* The inductive invariant.
IInv == Ordered /\ (planned => InStep) /\ Withdrawn /\ NoOutage /\ WithdrawnKeyDies
-----------------------------------------------------------------------------
\* What the durations of the configuration are.
LEMMA Durations ==
    /\ TTL \in Nat /\ Leeway \in Nat /\ RefreshInterval \in Nat /\ MaxStale \in Nat /\ MaxAge \in Nat
    /\ Larger(RefreshInterval, MaxStale) \in Nat
    /\ RefreshInterval <= Larger(RefreshInterval, MaxStale)
    /\ MaxStale <= Larger(RefreshInterval, MaxStale)
BY DurationAssumption DEF Larger

\* What the configurations T0..T3 publish and sign with.
LEMMA Configurations ==
    ASSUME NEW step \in Steps
    PROVE  /\ signers(step) \subseteq {"old", "new"} /\ signers(step) # {}
           /\ step >= 1 => "new" \in signers(step)
           /\ "old" \notin signers(step) => step = 3
           /\ "old" \in signers(step) => step < 3
           /\ activeSigner(step) \in {"old", "new"}
           /\ activeSigner(step) = "old" <=> step < 2
BY DEF signers, activeSigner, Steps

\* The initial state satisfies the inductive invariant.
LEMMA InitIInv == Init => IInv
<1> SUFFICES ASSUME Init
             PROVE  IInv
  OBVIOUS
<1>1. Ordered
  BY DEF Init, Ordered, Never, CopyType, Steps
<1>2. InStep /\ Withdrawn
  BY DEF Init, InStep, Withdrawn, Never
<1>3. NoOutage /\ WithdrawnKeyDies
  BY DEF Init, NoOutage, WithdrawnKeyDies, NoVerdict
<1> QED
  BY <1>1, <1>2, <1>3 DEF IInv

\* A replica issues a token.
LEMMA IssueStep ==
    ASSUME IInv, NEW r \in Replicas, IssueToken(r)
    PROVE  IInv'
<1> DEFINE t == [kid |-> activeSigner(stage[r]), iat |-> now, exp |-> now + TTL]
<1>1. /\ tokens' = tokens \cup {t}
      /\ UNCHANGED <<planned, now, stage, since, cache, proxy, last>>
  BY DEF IssueToken
<1>2. stage[r] \in Steps /\ now \in Nat
  BY DEF IInv, Ordered
<1>3. t.kid \in {"old", "new"} /\ (t.kid = "old" <=> stage[r] < 2) /\ t.iat = now /\ t.exp = now + TTL
  BY <1>2, Configurations
<1>4. Ordered'
  BY <1>1, <1>2, <1>3 DEF IInv, Ordered
<1>5. ASSUME planned'
      PROVE  InStep'
  <2>1. InStep
    BY <1>1, <1>5 DEF IInv
  <2>2. t.kid = "new" => Some(2)
    BY <1>2, <1>3 DEF Some, Steps
  <2>3. t.kid = "old" => ~ All(2) /\ ~ Some(3)
    BY <1>2, <1>3 DEF IInv, Ordered, All, Some, Steps
  <2> QED
    BY <1>1, <2>1, <2>2, <2>3 DEF InStep, All, Some
<1>6. Withdrawn' /\ NoOutage' /\ WithdrawnKeyDies'
  BY <1>1 DEF IInv, Withdrawn, NoOutage, WithdrawnKeyDies, All
<1> QED
  BY <1>4, <1>5, <1>6 DEF IInv

\* A replica is restarted with the configuration of the next step.
LEMMA RestartStep ==
    ASSUME IInv, NEW r \in Replicas, Restart(r)
    PROVE  IInv'
<1>1. /\ stage[r] < 3 /\ \A q \in Replicas : stage[q] >= stage[r]
      /\ planned => now - since >= Wait(stage[r])
      /\ stage' = [stage EXCEPT ![r] = @ + 1]
      /\ since' = IF \A q \in Replicas : stage'[q] = stage'[r] THEN now ELSE since
      /\ UNCHANGED <<planned, now, tokens, cache, proxy, last>>
  BY DEF Restart
<1>2. /\ Ordered /\ Withdrawn /\ now \in Nat /\ since \in Nat /\ since <= now /\ proxy.at \in Int
      /\ proxy.at <= now
      /\ \A q \in Replicas : stage[q] \in 0..3
      /\ \A v \in Verifiers : cache[v].at \in Int /\ cache[v].at <= now
  BY DEF IInv, Ordered, Steps, CopyType
<1>3. stage'[r] = stage[r] + 1 /\ \A q \in Replicas \ {r} : stage'[q] = stage[q]
  BY <1>1, <1>2 DEF Ordered
<1>4. Ordered'
  <2>1. stage' \in [Replicas -> Steps]
    BY <1>1, <1>2 DEF Ordered, Steps
  <2>2. \A p, q \in Replicas : stage'[p] <= stage'[q] + 1
    BY <1>1, <1>2, <1>3 DEF Ordered
  <2>3. since' \in Nat /\ since' <= now
    BY <1>1, <1>2
  <2> QED
    BY <1>1, <1>2, <2>1, <2>2, <2>3 DEF Ordered
<1>5. ASSUME NEW step \in 1..3, All(step)'
      PROVE  All(step) \/ since' = now
  <2>1. CASE stage[r] >= step
    BY <1>1, <1>2, <2>1 DEF All
  <2>2. CASE stage[r] < step
    <3>1. stage'[r] = step /\ \A q \in Replicas : stage'[q] >= step /\ stage'[q] \in 0..3
      BY <1>2, <1>3, <1>4, <1>5, <2>2 DEF All, Ordered, Steps
    <3>2. \A q \in Replicas \ {r} : stage[q] <= stage[r] + 1
      BY <1>2 DEF Ordered
    <3>3. \A q \in Replicas : stage'[q] = stage'[r]
      BY <1>2, <1>3, <3>1, <3>2
    <3> QED
      BY <1>1, <3>3
  <2> QED
    BY <1>2, <2>1, <2>2
<1>6. ASSUME planned'
      PROVE  InStep'
  <2>1. InStep /\ now - since >= Wait(stage[r])
    BY <1>1, <1>6 DEF IInv
  <2>2. \A step \in 1..3 : Some(step) => Some(step)'
    BY <1>2, <1>3 DEF Some
  <2>3. \A step \in 1..3 : Some(step)' => \/ Some(step)
                                          \/ All(step - 1) /\ stage[r] = step - 1
    BY <1>1, <1>2, <1>3 DEF Some, All
  <2>4. since' >= since /\ since' \in Nat
    BY <1>1, <1>2
  <2>5. ASSUME proxy # Never, "new" \notin proxy.keys
        PROVE  /\ All(1)' => proxy.at <= since' \/ proxy.at + MaxAge <= now
               /\ Some(2)' => proxy.at + MaxAge <= now
    <3>1. All(1)' => proxy.at <= since' \/ proxy.at + MaxAge <= now
      BY <1>2, <1>5, <2>1, <2>4, <2>5 DEF InStep
    <3>2. (All(1) /\ stage[r] = 1) => proxy.at + MaxAge <= now
      BY <1>2, <2>1, <2>5, Durations DEF InStep, Wait
    <3> QED
      BY <2>1, <2>3, <2>5, <3>1, <3>2 DEF InStep
  <2>6. ASSUME NEW t \in tokens, t.kid = "old"
        PROVE  /\ All(2)' => t.iat <= since' \/ t.exp + Leeway <= now
               /\ Some(3)' => t.exp + Leeway <= now
    <3>1. t.iat \in Nat /\ t.iat <= now /\ t.exp = t.iat + TTL
      BY <1>2 DEF Ordered
    <3>2. All(2)' => t.iat <= since' \/ t.exp + Leeway <= now
      BY <1>2, <1>5, <2>1, <2>4, <2>6, <3>1 DEF InStep
    <3>3. (All(2) /\ stage[r] = 2) => t.exp + Leeway <= now
      BY <1>2, <2>1, <2>6, <3>1, Durations DEF InStep, Wait
    <3> QED
      BY <2>1, <2>3, <2>6, <3>2, <3>3 DEF InStep
  <2>7. (\A t \in tokens : t.kid = "new" => Some(2)')
        /\ ((proxy # Never /\ "old" \notin proxy.keys) => Some(3)')
    BY <2>1, <2>2 DEF InStep
  <2> QED
    BY <1>1, <2>5, <2>6, <2>7 DEF InStep
<1>7. Withdrawn'
  <2> SUFFICES ASSUME All(3)'
               PROVE  since' = now
    BY <1>1, <1>2, Durations DEF Withdrawn
  <2>1. ~ All(3)
    BY <1>1, <1>2 DEF All
  <2> QED
    BY <1>5, <2>1
<1>8. NoOutage'
  BY <1>1 DEF IInv, NoOutage
<1>9. WithdrawnKeyDies'
  <2> SUFFICES ASSUME \A q \in Replicas : stage'[q] = 3
               PROVE  now - since' <= Larger(RefreshInterval, MaxStale) + MaxAge
    BY <1>1 DEF WithdrawnKeyDies
  <2>1. All(3)' /\ ~ All(3)
    BY <1>1, <1>2 DEF All
  <2>2. since' = now
    BY <1>5, <2>1
  <2> QED
    BY <1>2, <2>2, Durations
<1> QED
  BY <1>4, <1>6, <1>7, <1>8, <1>9 DEF IInv

\* A token that has not expired by the issuer's clock passes the checks of its times
\* on a verifier's clock: the leeway makes up for the difference.
LEMMA LivesOn ==
    ASSUME Ordered, NEW v \in Verifiers, NEW t \in tokens, now < t.exp
    PROVE  TimesOK(v, t)
<1>1. /\ now \in Nat /\ t.iat \in Nat /\ t.iat <= now /\ t.exp = t.iat + TTL
      /\ TTL \in Nat /\ Leeway \in Nat
  BY Durations DEF Ordered
<1>2. Skew[v] \in Int /\ Skew[v] <= Leeway /\ -Skew[v] <= Leeway
  BY SkewAssumption
<1> QED
  BY <1>1, <1>2 DEF TimesOK

\* What a GET brings: a copy of the HTTP cache that is young enough, or what replica
\* r publishes.
LEMMA Responded ==
    ASSUME Ordered, NEW r \in Replicas
    PROVE  /\ Response(r) \in CopyType /\ Response(r).at <= now
           /\ \/ Response(r) = proxy /\ proxy # Never /\ now - proxy.at < MaxAge
              \/ Response(r) = [keys |-> signers(stage[r]), at |-> now]
BY Configurations DEF Ordered, Response, CopyType

\* A verification changes the verdict, the cache of the verifier and the HTTP cache
\* at most.
LEMMA StillInStep ==
    ASSUME IInv, UNCHANGED <<planned, now, stage, since, tokens>>,
           \/ proxy' = proxy
           \/ \E r \in Replicas : proxy' = Response(r)
    PROVE  planned' => InStep'
<1> SUFFICES ASSUME planned, proxy' # proxy
             PROVE  InStep'
  BY DEF IInv, InStep, All, Some
<1>1. InStep /\ Ordered
  BY DEF IInv
<1>2. PICK r \in Replicas : proxy' = [keys |-> signers(stage[r]), at |-> now]
  BY <1>1, Responded
<1>3. stage[r] \in Steps /\ \A q \in Replicas : stage[q] \in 0..3
  BY <1>1 DEF Ordered, Steps
<1>4. "new" \notin proxy'.keys => stage[r] < 1
  BY <1>2, <1>3, Configurations DEF Steps
<1>5. "old" \notin proxy'.keys => stage[r] = 3
  BY <1>2, <1>3, Configurations
<1>6. "new" \notin proxy'.keys => ~ All(1) /\ ~ Some(2)
  BY <1>1, <1>3, <1>4 DEF All, Some, Ordered
<1> QED
  BY <1>1, <1>3, <1>5, <1>6 DEF InStep, All, Some

\* Verify with the key in the fresh cache.
LEMMA CachedStep ==
    ASSUME IInv, NEW v \in Verifiers, NEW t \in tokens, VerifyCached(v, t)
    PROVE  IInv'
<1>1. /\ Fresh(v) /\ t.kid \in cache[v].keys
      /\ last' = Verdict(v, t, cache[v].keys, TRUE)
      /\ UNCHANGED <<planned, now, stage, since, tokens, cache, proxy>>
  BY DEF VerifyCached
<1>2. Ordered' /\ Withdrawn' /\ (planned' => InStep')
  BY <1>1 DEF IInv, Ordered, Withdrawn, InStep, All, Some
<1>3. last'.exp = t.exp /\ last'.kid = t.kid /\ (last'.ok <=> TimesOK(v, t))
  BY <1>1, Zenon DEF Verdict
<1>4. NoOutage'
  BY <1>1, <1>3, LivesOn DEF NoOutage, IInv
<1>5. WithdrawnKeyDies'
  <2> SUFFICES ASSUME t.kid = "old", \A r \in Replicas : stage[r] = 3
               PROVE  now - since <= Larger(RefreshInterval, MaxStale) + MaxAge
    BY <1>1, <1>3 DEF WithdrawnKeyDies
  <2>1. cache[v].at <= since + MaxAge
    BY <1>1 DEF IInv, Withdrawn, All
  <2>2. cache[v].at \in Int /\ now \in Nat /\ since \in Nat
    BY DEF IInv, Ordered, CopyType
  <2> QED
    BY <1>1, <2>1, <2>2, Durations DEF Fresh
<1> QED
  BY <1>2, <1>4, <1>5 DEF IInv

\* Verify with a GET that fails.
LEMMA UnreachedStep ==
    ASSUME IInv, NEW v \in Verifiers, NEW t \in tokens, VerifyUnreached(v, t)
    PROVE  IInv'
<1> DEFINE keys == IF StaleOK(v) THEN cache[v].keys ELSE {}
<1>1. /\ last' = Verdict(v, t, keys, FALSE)
      /\ UNCHANGED <<planned, now, stage, since, tokens, cache, proxy>>
  BY DEF VerifyUnreached
<1>2. Ordered' /\ Withdrawn' /\ (planned' => InStep')
  BY <1>1 DEF IInv, Ordered, Withdrawn, InStep, All, Some
<1>3. ~ last'.reached /\ last'.kid = t.kid /\ (last'.ok => t.kid \in keys)
  BY <1>1, Zenon DEF Verdict
<1>4. NoOutage'
  BY <1>3 DEF NoOutage
<1>5. WithdrawnKeyDies'
  <2> SUFFICES ASSUME t.kid = "old", t.kid \in keys, \A r \in Replicas : stage[r] = 3
               PROVE  now - since <= Larger(RefreshInterval, MaxStale) + MaxAge
    BY <1>1, <1>3 DEF WithdrawnKeyDies
  <2>1. StaleOK(v) /\ "old" \in cache[v].keys
    OBVIOUS
  <2>2. cache[v].at <= since + MaxAge
    BY <2>1 DEF IInv, Withdrawn, All
  <2>3. cache[v].at \in Int /\ now \in Nat /\ since \in Nat
    BY DEF IInv, Ordered, CopyType
  <2> QED
    BY <2>1, <2>2, <2>3, Durations DEF StaleOK
<1> QED
  BY <1>2, <1>4, <1>5 DEF IInv

\* Verify with a GET that replica r or the HTTP cache answers.
LEMMA FetchedStep ==
    ASSUME IInv, NEW v \in Verifiers, NEW t \in tokens, NEW r \in Replicas, VerifyFetched(v, t, r)
    PROVE  IInv'
<1> DEFINE response == Response(r)
<1>1. /\ proxy' = response
      /\ cache' = [cache EXCEPT ![v] = [keys |-> response.keys, at |-> now]]
      /\ last' = Verdict(v, t, response.keys, TRUE)
      /\ UNCHANGED <<planned, now, stage, since, tokens>>
  BY DEF VerifyFetched
<1>2. /\ Ordered /\ Withdrawn /\ now \in Nat /\ since \in Nat /\ since <= now
      /\ stage[r] \in Steps /\ \A q \in Replicas : stage[q] \in 0..3
      /\ t.kid \in {"old", "new"} /\ t.exp \in Int /\ MaxAge \in Nat
  BY Durations DEF IInv, Ordered, Steps
<1>3. /\ response \in CopyType /\ response.at <= now
      /\ \/ response = proxy /\ proxy # Never /\ now - proxy.at < MaxAge
         \/ response = [keys |-> signers(stage[r]), at |-> now]
  BY <1>2, Responded
<1>4. response.keys \subseteq {"old", "new"} /\ response.at \in Int
  BY <1>3 DEF CopyType
<1>5. Ordered'
  <2>1. cache' \in [Verifiers -> CopyType] /\ \A u \in Verifiers : cache'[u].at <= now
    BY <1>1, <1>2, <1>4 DEF Ordered, CopyType
  <2> QED
    BY <1>1, <1>2, <1>3, <2>1 DEF Ordered
<1>6. planned' => InStep'
  BY <1>1, StillInStep
<1>7. ASSUME All(3), "old" \in response.keys
      PROVE  response.at <= since /\ now < since + MaxAge
  <2>1. "old" \notin signers(stage[r])
    BY <1>2, <1>7, Configurations DEF All
  <2>2. response = proxy /\ now - proxy.at < MaxAge /\ proxy.at \in Int
    BY <1>3, <1>4, <1>7, <2>1
  <2> QED
    BY <1>2, <1>7, <2>2 DEF Withdrawn
<1>8. Withdrawn'
  <2> SUFFICES ASSUME All(3)
               PROVE  /\ "old" \in proxy'.keys => proxy'.at <= since
                      /\ \A u \in Verifiers : "old" \in cache'[u].keys => cache'[u].at <= since + MaxAge
    BY <1>1 DEF Withdrawn, All
  <2>1. ASSUME NEW u \in Verifiers, "old" \in cache'[u].keys
        PROVE  cache'[u].at <= since + MaxAge
    <3>1. CASE u = v
      <4>1. cache'[v] = [keys |-> response.keys, at |-> now]
        BY <1>1, <1>2 DEF Ordered
      <4>2. cache'[v].keys = response.keys /\ cache'[v].at = now
        BY <4>1
      <4>3. now < since + MaxAge
        BY <1>7, <2>1, <3>1, <4>2
      <4> QED
        BY <1>2, <3>1, <4>2, <4>3
    <3>2. CASE u # v
      BY <1>1, <1>2, <2>1, <3>2 DEF Ordered, Withdrawn
    <3> QED
      BY <3>1, <3>2
  <2> QED
    BY <1>1, <1>7, <2>1
<1>9. last'.exp = t.exp /\ last'.kid = t.kid /\ (last'.ok <=> t.kid \in response.keys /\ TimesOK(v, t))
  BY <1>1, Zenon DEF Verdict
<1>10. NoOutage'
  <2> SUFFICES ASSUME planned, now < t.exp
               PROVE  t.kid \in response.keys
    BY <1>1, <1>2, <1>9, LivesOn DEF NoOutage
  <2>1. InStep /\ proxy.at \in Int
    BY <1>2 DEF IInv, Ordered, CopyType
  <2>2. CASE t.kid = "new"
    <3>1. Some(2)
      BY <2>1, <2>2 DEF InStep
    <3>2. stage[r] >= 1
      BY <1>2, <3>1 DEF Some, Ordered
    <3>3. "new" \in signers(stage[r])
      BY <1>2, <3>2, Configurations
    <3>4. (proxy # Never /\ now - proxy.at < MaxAge) => "new" \in proxy.keys
      BY <1>2, <2>1, <3>1 DEF InStep
    <3> QED
      BY <1>3, <2>2, <3>3, <3>4
  <2>3. CASE t.kid = "old"
    <3>1. ~ Some(3)
      BY <1>2, <2>1, <2>3, Durations DEF InStep
    <3>2. "old" \in signers(stage[r])
      BY <1>2, <3>1, Configurations DEF Some
    <3>3. proxy # Never => "old" \in proxy.keys
      BY <2>1, <3>1 DEF InStep
    <3> QED
      BY <1>3, <2>3, <3>2, <3>3
  <2> QED
    BY <1>2, <2>2, <2>3
<1>11. WithdrawnKeyDies'
  <2> SUFFICES ASSUME t.kid = "old", "old" \in response.keys, \A q \in Replicas : stage[q] = 3
               PROVE  now - since <= Larger(RefreshInterval, MaxStale) + MaxAge
    BY <1>1, <1>9 DEF WithdrawnKeyDies
  <2>1. now < since + MaxAge
    BY <1>7 DEF All
  <2> QED
    BY <1>2, <2>1, Durations
<1> QED
  BY <1>5, <1>6, <1>8, <1>10, <1>11 DEF IInv

\* Time passes.
LEMMA TickStep ==
    ASSUME IInv, Tick
    PROVE  IInv'
<1>1. /\ now' = now + 1 /\ tokens' \subseteq tokens /\ last' = NoVerdict
      /\ UNCHANGED <<planned, stage, since, cache, proxy>>
  BY DEF Tick
<1>2. Ordered /\ now \in Nat /\ MaxAge \in Nat /\ Leeway \in Nat /\ TTL \in Nat
      /\ proxy.at \in Int /\ proxy.at <= now
      /\ \A t \in tokens : t.exp \in Int
  BY Durations DEF IInv, Ordered, CopyType
<1>3. Ordered'
  <2>1. \A v \in Verifiers : cache[v].at \in Int
    BY <1>2 DEF Ordered, CopyType
  <2> QED
    BY <1>1, <1>2, <2>1 DEF Ordered
<1>4. planned' => InStep'
  BY <1>1, <1>2 DEF IInv, InStep, All, Some
<1>5. Withdrawn'
  BY <1>1 DEF IInv, Withdrawn, All
<1>6. NoOutage' /\ WithdrawnKeyDies'
  BY <1>1 DEF NoOutage, WithdrawnKeyDies, NoVerdict
<1> QED
  BY <1>3, <1>4, <1>5, <1>6 DEF IInv

\* Every step preserves the inductive invariant.
LEMMA StepIInv == IInv /\ [Next]_vars => IInv'
<1> SUFFICES ASSUME IInv, [Next]_vars
             PROVE  IInv'
  OBVIOUS
<1>1. CASE Next
  BY <1>1, IssueStep, RestartStep, CachedStep, UnreachedStep, FetchedStep, TickStep DEF Next
<1>2. CASE UNCHANGED vars
  BY <1>2 DEF vars, IInv, Ordered, InStep, Withdrawn, NoOutage, WithdrawnKeyDies, All, Some
<1> QED
  BY <1>1, <1>2

\* The inductive invariant holds in every reachable state.
LEMMA Invariance == Spec => []IInv
BY InitIInv, StepIInv, PTL DEF Spec

-----------------------------------------------------------------------------
(* Theorems *)

\* The rotation of docs/architecture.md, with the wait at T1, is invisible, whatever the lifetimes, caches,
\* leeway, clocks and number of replicas.
THEOREM RotationInvisible == Spec => []NoOutage
<1>1. IInv => NoOutage
  BY DEF IInv
<1> QED
  BY <1>1, Invariance, PTL

\* A key that no replica publishes any more (JWKSHTTP) dies with the last copy of it
\* (RemoteProvider), in a time that is known in advance.
THEOREM WithdrawalWorks == Spec => []WithdrawnKeyDies
<1>1. IInv => WithdrawnKeyDies
  BY DEF IInv
<1> QED
  BY <1>1, Invariance, PTL
=============================================================================
