------------------------- MODULE RemoteProviderProofs -------------------------
(***************************************************************************)
(* Proofs about RemoteProvider, for every number of goroutines, every      *)
(* sequence of JWKS documents, good or bad, and every interval.            *)
(***************************************************************************)
EXTENDS RemoteProvider, TLAPS

\* The goroutine whose token is in refreshGate is the one between lockRefresh and
\* unlockRefresh.
GateHeld ==
    \A c \in Callers : pc[c] \in {"get", "store"} <=> gate = c

\* Snapshots are taken from counters that only grow.
SnapshotsBehind ==
    \A c \in Callers : /\ snap[c].version <= refreshVersion
                       /\ snap[c].generation <= generation

\* A success that was recorded after a snapshot raised the generation.
SuccessCounted ==
    \A c \in Callers :
        (lastRefreshErr = "nil" /\ snap[c].version < refreshVersion)
            => snap[c].generation < generation

\* Cancellation errors on their way to a caller: its own, or the one that
\* refreshIfUnchanged leaves to callers that are canceled too.
OwnErrors ==
    /\ lastRefreshCanceledByCaller <=> lastRefreshErr = "canceled"
    /\ \A c \in Callers : /\ got[c].err = "canceled" => ctx[c] = "done"
                          /\ got[c].err # "nil" => pc[c] \in {"store", "recheck"}
                          /\ pc[c] = "store" => got[c].err # "misused"

\* A GET that some snapshot called for is under way, or has been counted.
FirstGetCounted ==
    \A c \in Callers :
        asked[c] = "first" =>
            \/ gate = c /\ snap[c].version = refreshVersion
            \/ snap[c].version < refreshVersion

\* The document in the cache, the one that waits to be stored, the server's.
DocumentsOrdered ==
    /\ keys <= published /\ fetchedAt <= now
    /\ \A c \in Callers : (pc[c] = "store" /\ got[c].err = "nil")
                             => got[c].doc \in keys..published

\* The inductive invariant.
IInv == /\ TypeOK /\ GateHeld /\ SnapshotsBehind /\ SuccessCounted /\ OwnErrors
        /\ FirstGetCounted /\ DocumentsOrdered
        /\ NoForeignCancellation /\ SuccessMeansNewKeys /\ OneGetPerSnapshot

USE DEF Never, Errors

-----------------------------------------------------------------------------
\* The initial state satisfies the inductive invariant.
LEMMA InitIInv == Init => IInv
<1> SUFFICES ASSUME Init
             PROVE  IInv
  OBVIOUS
<1>1. /\ \A c \in Callers : /\ pc[c] = "idle" /\ ctx[c] = "live" /\ op[c] = Explicit
                             /\ snap[c] = NoSnapshot /\ got[c] = Failure("nil")
                             /\ ret[c] = "none" /\ asked[c] = "no"
      /\ now = 0 /\ published = 1 /\ gate = Nobody /\ keys = 0 /\ fetchedAt = Never
      /\ generation = 0 /\ refreshVersion = 0 /\ lastRefreshErr = "nil"
      /\ lastRefreshCanceledByCaller = FALSE
  BY Zenon DEF Init
<1>2. TypeOK
  <2>1. /\ NoSnapshot \in [generation : Nat, version : Nat, getting : BOOLEAN]
        /\ Failure("nil") \in [err : Errors \cup {"nil"}, doc : 0..Len(Documents)]
        /\ published \in 1..Len(Documents) /\ keys \in 0..Len(Documents)
    BY <1>1, ProviderAssumption DEF NoSnapshot, Failure
  <2> QED
    BY <2>1 DEF TypeOK, Init
<1>3. GateHeld
  BY <1>1, GateAssumption DEF GateHeld
<1>4. SnapshotsBehind /\ SuccessCounted /\ FirstGetCounted
  BY <1>1 DEF SnapshotsBehind, SuccessCounted, FirstGetCounted, NoSnapshot
<1>5. OwnErrors
  BY <1>1 DEF OwnErrors, Failure
<1>6. DocumentsOrdered /\ NoForeignCancellation /\ SuccessMeansNewKeys /\ OneGetPerSnapshot
  BY <1>1 DEF DocumentsOrdered, NoForeignCancellation, SuccessMeansNewKeys, OneGetPerSnapshot
<1> QED
  BY <1>2, <1>3, <1>4, <1>5, <1>6 DEF IInv

\* Why a caller sends a GET: four reasons, of which each implies what is tested.
LEMMA Reasons ==
    ASSUME NEW c \in Callers
    PROVE  /\ WhyGet(c) \in {"no", "first", "retry", "explicit"}
           /\ WhyGet(c) = "first" => refreshVersion = snap[c].version
           /\ WhyGet(c) = "no" => /\ op[c] # Explicit
                                  /\ generation = snap[c].generation =>
                                        /\ refreshVersion # snap[c].version
                                        /\ ~ (lastRefreshCanceledByCaller /\ ctx[c] = "live")
<1>1. CASE op[c] = Explicit
  BY <1>1, Zenon DEF WhyGet
<1>2. CASE op[c] # Explicit /\ generation = snap[c].generation
             /\ refreshVersion = snap[c].version
  BY <1>2, Zenon DEF WhyGet
<1>3. CASE op[c] # Explicit /\ generation = snap[c].generation
             /\ refreshVersion # snap[c].version
             /\ lastRefreshCanceledByCaller /\ ctx[c] = "live"
  BY <1>3, Zenon DEF WhyGet
<1>4. CASE op[c] # Explicit /\ (generation = snap[c].generation =>
             /\ refreshVersion # snap[c].version
             /\ ~ (lastRefreshCanceledByCaller /\ ctx[c] = "live"))
  <2>1. WhyGet(c) = "no"
    BY <1>4, Zenon DEF WhyGet
  <2> QED
    BY <1>4, <2>1
<1> QED
  BY <1>1, <1>2, <1>3, <1>4

\* What a caller without a GET of its own gets is a success of somebody else or an
\* error that is not somebody else's cancellation.
LEMMA SharedOutcome ==
    ASSUME IInv, NEW c \in Callers, ctx[c] # "nil", WhyGet(c) = "no",
           NEW e, e = IF generation # snap[c].generation THEN "nil" ELSE lastRefreshErr
    PROVE  /\ e \in {"nil", "failed", "canceled"}
           /\ e = "nil" => generation > snap[c].generation
           /\ e = "canceled" => ctx[c] = "done"
<1>1. op[c] # Explicit /\ (generation = snap[c].generation =>
        refreshVersion # snap[c].version /\ ~ (lastRefreshCanceledByCaller /\ ctx[c] = "live"))
  BY Reasons
<1>2. /\ ctx[c] \in {"nil", "live", "done"} /\ generation \in Nat /\ refreshVersion \in Nat
      /\ snap[c].generation \in Nat /\ snap[c].version \in Nat
      /\ lastRefreshErr \in {"nil", "failed", "canceled"}
  BY DEF IInv, TypeOK
<1>3. snap[c].version <= refreshVersion /\ snap[c].generation <= generation
  BY DEF IInv, SnapshotsBehind
<1>4. CASE generation # snap[c].generation
  BY <1>2, <1>3, <1>4
<1>5. CASE generation = snap[c].generation
  <2>1. lastRefreshErr # "nil"
    BY <1>1, <1>2, <1>3, <1>5 DEF IInv, SuccessCounted
  <2>2. lastRefreshErr = "canceled" => lastRefreshCanceledByCaller
    BY DEF IInv, OwnErrors
  <2> QED
    BY <1>1, <1>2, <1>5, <2>1, <2>2
<1> QED
  BY <1>4, <1>5

\* A snapshot is typed and shows the counters as they are.
LEMMA SnapshotNow ==
    ASSUME TypeOK
    PROVE  /\ Snapshot \in [generation : Nat, version : Nat, getting : BOOLEAN]
           /\ Snapshot.generation = generation /\ Snapshot.version = refreshVersion
<1>1. (gate # Nobody) \in BOOLEAN
  BY Zenon
<1>2. generation \in Nat /\ refreshVersion \in Nat
  BY DEF TypeOK
<1> QED
  BY <1>1, <1>2 DEF Snapshot

\* What the end of a refresh attempt leaves for its caller, and only for it.
LEMMA AttemptedResult ==
    ASSUME TypeOK, NEW c \in Callers, NEW e \in Errors \cup {"nil"}, Attempted(c, e)
    PROVE  /\ pc' \in [Callers -> {"idle", "lock", "get", "store", "recheck"}]
           /\ got' \in [Callers -> [err : Errors \cup {"nil"}, doc : 0..Len(Documents)]]
           /\ ret' \in [Callers -> {"none", "nil", "key", "mismatch", "notFound"} \cup Errors]
           /\ \A d \in Callers : d # c => pc'[d] = pc[d] /\ got'[d] = got[d] /\ ret'[d] = ret[d]
           /\ \/ pc'[c] = "idle" /\ got'[c].err = "nil" /\ ret'[c] = e
              \/ pc'[c] = "recheck" /\ got'[c].err = e /\ ret'[c] = ret[c]
<1>1. /\ Failure("nil") \in [err : Errors \cup {"nil"}, doc : 0..Len(Documents)]
      /\ Failure(e) \in [err : Errors \cup {"nil"}, doc : 0..Len(Documents)]
      /\ Failure("nil").err = "nil" /\ Failure(e).err = e
  BY ProviderAssumption DEF Failure
<1>2. CASE op[c] = Explicit
  <2>1. /\ pc' = [pc EXCEPT ![c] = "idle"] /\ ret' = [ret EXCEPT ![c] = e]
        /\ got' = [got EXCEPT ![c] = Failure("nil")]
    BY <1>2, Zenon DEF Attempted, Return
  <2> QED
    BY <1>1, <2>1 DEF TypeOK
<1>3. CASE op[c] # Explicit
  <2>1. /\ pc' = [pc EXCEPT ![c] = "recheck"] /\ ret' = ret
        /\ got' = [got EXCEPT ![c] = Failure(e)]
    BY <1>3, Zenon DEF Attempted
  <2> QED
    BY <1>1, <2>1 DEF TypeOK
<1> QED
  BY <1>2, <1>3

\* Every step keeps the inductive invariant.
LEMMA NextIInv ==
    ASSUME IInv, [Next]_vars
    PROVE  IInv'
<1> USE DEF IInv, provider
<1>1. ASSUME NEW c \in Callers, NEW q \in Queries, NEW x \in Contexts, BeginKey(c, q, x)
      PROVE  IInv'
  <2>1. /\ Snapshot \in [generation : Nat, version : Nat, getting : BOOLEAN]
        /\ Snapshot.generation = generation /\ Snapshot.version = refreshVersion
    BY SnapshotNow
  <2>2. \E p \in {"idle", "lock"}, r \in {"none", "key", "mismatch"} :
           pc' = [pc EXCEPT ![c] = p] /\ ret' = [ret EXCEPT ![c] = r]
    <3>1. Served(q) \in {"key", "mismatch"}
      BY DEF Served
    <3> QED
      BY <1>1, <3>1 DEF BeginKey, Return
  <2>3. /\ pc[c] = "idle" /\ x \in {"nil", "live", "done"}
        /\ op' = [op EXCEPT ![c] = q] /\ ctx' = [ctx EXCEPT ![c] = x]
        /\ snap' = [snap EXCEPT ![c] = Snapshot] /\ asked' = [asked EXCEPT ![c] = "no"]
        /\ UNCHANGED <<now, published, gate, provider, got>>
    BY <1>1, ProviderAssumption DEF BeginKey
  <2>4. TypeOK'
    BY <2>1, <2>2, <2>3 DEF TypeOK
  <2>5. GateHeld'
    BY <2>1, <2>2, <2>3 DEF TypeOK, GateHeld
  <2>6. SnapshotsBehind' /\ SuccessCounted'
    BY <2>1, <2>2, <2>3 DEF TypeOK, SnapshotsBehind, SuccessCounted
  <2>7. OwnErrors'
    BY <2>1, <2>2, <2>3 DEF TypeOK, OwnErrors
  <2>8. FirstGetCounted' /\ OneGetPerSnapshot'
    BY <2>1, <2>2, <2>3 DEF TypeOK, GateHeld, SnapshotsBehind, FirstGetCounted, OneGetPerSnapshot
  <2>9. DocumentsOrdered'
    BY <2>1, <2>2, <2>3 DEF TypeOK, GateHeld, DocumentsOrdered
  <2>10. NoForeignCancellation'
    BY <2>1, <2>2, <2>3 DEF TypeOK, NoForeignCancellation, OwnErrors
  <2>11. SuccessMeansNewKeys'
    BY <2>1, <2>2, <2>3 DEF TypeOK, SuccessMeansNewKeys, SnapshotsBehind
  <2> QED
    BY <2>4, <2>5, <2>6, <2>7, <2>8, <2>9, <2>10, <2>11
<1>2. ASSUME NEW c \in Callers, NEW x \in Contexts, BeginRefresh(c, x)
      PROVE  IInv'
  <2>1. /\ pc[c] = "idle" /\ x \in {"nil", "live", "done"}
        /\ op' = [op EXCEPT ![c] = Explicit] /\ ctx' = [ctx EXCEPT ![c] = x]
        /\ pc' = [pc EXCEPT ![c] = "lock"] /\ ret' = [ret EXCEPT ![c] = "none"]
        /\ asked' = [asked EXCEPT ![c] = "no"]
        /\ UNCHANGED <<now, published, gate, provider, snap, got>>
    BY <1>2, ProviderAssumption DEF BeginRefresh
  <2>2. TypeOK'
    BY <2>1 DEF TypeOK
  <2>3. GateHeld'
    BY <2>1 DEF TypeOK, GateHeld
  <2>4. SnapshotsBehind' /\ SuccessCounted'
    BY <2>1 DEF TypeOK, SnapshotsBehind, SuccessCounted
  <2>5. OwnErrors'
    BY <2>1 DEF TypeOK, OwnErrors
  <2>6. FirstGetCounted' /\ OneGetPerSnapshot'
    BY <2>1 DEF TypeOK, GateHeld, SnapshotsBehind, FirstGetCounted, OneGetPerSnapshot
  <2>7. DocumentsOrdered'
    BY <2>1 DEF TypeOK, GateHeld, DocumentsOrdered
  <2>8. NoForeignCancellation'
    BY <2>1 DEF TypeOK, NoForeignCancellation, OwnErrors
  <2>9. SuccessMeansNewKeys'
    BY <2>1 DEF TypeOK, SuccessMeansNewKeys, SnapshotsBehind
  <2> QED
    BY <2>2, <2>3, <2>4, <2>5, <2>6, <2>7, <2>8, <2>9
<1>3. ASSUME NEW c \in Callers, LockFails(c)
      PROVE  IInv'
  <2> DEFINE e == IF ctx[c] = "nil" THEN "misused" ELSE "canceled"
  <2>1. /\ e \in Errors \cup {"nil"} /\ Attempted(c, e)
        /\ pc[c] = "lock" /\ ctx[c] \in {"nil", "done"}
        /\ UNCHANGED <<now, published, gate, provider, op, ctx, snap, asked>>
    BY <1>3 DEF LockFails, TypeOK
  <2>2. e # "nil" /\ (e = "canceled" => ctx[c] = "done")
    BY <2>1
  <2> HIDE DEF e
  <2>3. /\ pc' \in [Callers -> {"idle", "lock", "get", "store", "recheck"}]
        /\ got' \in [Callers -> [err : Errors \cup {"nil"}, doc : 0..Len(Documents)]]
        /\ ret' \in [Callers -> {"none", "nil", "key", "mismatch", "notFound"} \cup Errors]
        /\ \A d \in Callers : d # c => pc'[d] = pc[d] /\ got'[d] = got[d] /\ ret'[d] = ret[d]
        /\ \/ pc'[c] = "idle" /\ got'[c].err = "nil" /\ ret'[c] = e
           \/ pc'[c] = "recheck" /\ got'[c].err = e /\ ret'[c] = ret[c]
    BY <2>1, AttemptedResult
  <2>4. TypeOK'
    BY <2>1, <2>3 DEF TypeOK
  <2>5. GateHeld'
    BY <2>1, <2>2, <2>3 DEF TypeOK, GateHeld
  <2>6. SnapshotsBehind' /\ SuccessCounted'
    BY <2>1 DEF SnapshotsBehind, SuccessCounted
  <2>7. OwnErrors'
    <3>1. lastRefreshCanceledByCaller' <=> lastRefreshErr' = "canceled"
      BY <2>1 DEF OwnErrors
    <3>2. \A d \in Callers : /\ got'[d].err = "canceled" => ctx'[d] = "done"
                             /\ got'[d].err # "nil" => pc'[d] \in {"store", "recheck"}
                             /\ pc'[d] = "store" => got'[d].err # "misused"
      BY <2>1, <2>2, <2>3 DEF OwnErrors
    <3> QED
      BY <3>1, <3>2 DEF OwnErrors
  <2>8. FirstGetCounted' /\ OneGetPerSnapshot'
    BY <2>1 DEF FirstGetCounted, OneGetPerSnapshot
  <2>9. DocumentsOrdered'
    BY <2>1, <2>2, <2>3 DEF TypeOK, GateHeld, DocumentsOrdered
  <2>10. NoForeignCancellation'
    BY <2>1, <2>2, <2>3 DEF TypeOK, NoForeignCancellation, OwnErrors
  <2>11. SuccessMeansNewKeys'
    BY <2>1, <2>2, <2>3 DEF TypeOK, SuccessMeansNewKeys, SnapshotsBehind
  <2> QED
    BY <2>4, <2>5, <2>6, <2>7, <2>8, <2>9, <2>10, <2>11
<1>4. ASSUME NEW c \in Callers, LockRefresh(c)
      PROVE  IInv'
  <2>1. /\ pc[c] = "lock" /\ ctx[c] # "nil" /\ gate = Nobody
        /\ UNCHANGED <<now, published, provider, op, ctx, snap>>
    BY <1>4 DEF LockRefresh
  <2>2. CASE WhyGet(c) # "no"
    <3>1. /\ gate' = c /\ pc' = [pc EXCEPT ![c] = "get"]
          /\ asked' = [asked EXCEPT ![c] = WhyGet(c)]
          /\ UNCHANGED <<got, ret>>
      BY <1>4, <2>2 DEF LockRefresh, StartGet
    <3>2. /\ WhyGet(c) \in {"first", "retry", "explicit"}
          /\ WhyGet(c) = "first" => refreshVersion = snap[c].version
      BY <2>2, Reasons
    <3>3. TypeOK'
      BY <2>1, <3>1, <3>2 DEF TypeOK
    <3>4. GateHeld'
      BY <2>1, <3>1, <3>2, GateAssumption DEF TypeOK, GateHeld
    <3>5. SnapshotsBehind' /\ SuccessCounted'
      BY <2>1, <3>1, <3>2, GateAssumption DEF TypeOK, SnapshotsBehind, SuccessCounted
    <3>6. OwnErrors'
      BY <2>1, <3>1, <3>2, GateAssumption DEF TypeOK, OwnErrors
    <3>7. FirstGetCounted'
      BY <2>1, <3>1, <3>2, GateAssumption DEF TypeOK, SnapshotsBehind, FirstGetCounted
    <3>8. OneGetPerSnapshot'
      <4>1. \A d \in Callers : asked[d] = "first" => snap[d].version # refreshVersion
        <5> SUFFICES ASSUME NEW d \in Callers, asked[d] = "first"
                     PROVE  snap[d].version # refreshVersion
          OBVIOUS
        <5>1. snap[d].version \in Nat /\ refreshVersion \in Nat
          BY DEF TypeOK
        <5>2. gate # d
          BY <2>1, GateAssumption
        <5>3. snap[d].version < refreshVersion
          BY <5>2 DEF FirstGetCounted
        <5> QED
          BY <5>1, <5>3
      <4> QED
        BY <2>1, <3>1, <3>2, <4>1 DEF TypeOK, OneGetPerSnapshot
    <3>9. DocumentsOrdered'
      BY <2>1, <3>1, <3>2, GateAssumption DEF TypeOK, GateHeld, DocumentsOrdered
    <3>10. NoForeignCancellation'
      BY <2>1, <3>1, <3>2, GateAssumption DEF TypeOK, NoForeignCancellation, OwnErrors
    <3>11. SuccessMeansNewKeys'
      BY <2>1, <3>1, <3>2, GateAssumption DEF TypeOK, SuccessMeansNewKeys, SnapshotsBehind
    <3> QED
      BY <3>3, <3>4, <3>5, <3>6, <3>7, <3>8, <3>9, <3>10, <3>11
  <2>3. CASE WhyGet(c) = "no"
    <3> DEFINE e == IF generation # snap[c].generation THEN "nil" ELSE lastRefreshErr
    <3>1. Attempted(c, e) /\ UNCHANGED <<gate, asked>>
      BY <1>4, <2>3, Zenon DEF LockRefresh
    <3>2. /\ e \in {"nil", "failed", "canceled"}
          /\ e = "nil" => generation > snap[c].generation
          /\ e = "canceled" => ctx[c] = "done"
      BY <2>1, <2>3, SharedOutcome
    <3> HIDE DEF e
    <3>3. /\ pc' \in [Callers -> {"idle", "lock", "get", "store", "recheck"}]
          /\ got' \in [Callers -> [err : Errors \cup {"nil"}, doc : 0..Len(Documents)]]
          /\ ret' \in [Callers -> {"none", "nil", "key", "mismatch", "notFound"} \cup Errors]
          /\ \A d \in Callers : d # c => pc'[d] = pc[d] /\ got'[d] = got[d] /\ ret'[d] = ret[d]
          /\ \/ pc'[c] = "idle" /\ got'[c].err = "nil" /\ ret'[c] = e
             \/ pc'[c] = "recheck" /\ got'[c].err = e /\ ret'[c] = ret[c]
      BY <3>1, <3>2, AttemptedResult
    <3>4. TypeOK'
      BY <2>1, <3>1, <3>3 DEF TypeOK
    <3>5. GateHeld'
      BY <2>1, <3>1, <3>2, <3>3 DEF TypeOK, GateHeld
    <3>6. SnapshotsBehind' /\ SuccessCounted'
      BY <2>1, <3>1, <3>2, <3>3 DEF TypeOK, SnapshotsBehind, SuccessCounted
    <3>7. OwnErrors'
      <4>1. lastRefreshCanceledByCaller' <=> lastRefreshErr' = "canceled"
        BY <2>1 DEF OwnErrors
      <4>2. \A d \in Callers : /\ got'[d].err = "canceled" => ctx'[d] = "done"
                               /\ got'[d].err # "nil" => pc'[d] \in {"store", "recheck"}
                               /\ pc'[d] = "store" => got'[d].err # "misused"
        BY <2>1, <3>1, <3>2, <3>3 DEF OwnErrors
      <4> QED
        BY <4>1, <4>2 DEF OwnErrors
    <3>8. FirstGetCounted' /\ OneGetPerSnapshot'
      BY <2>1, <3>1, <3>2, <3>3
      DEF TypeOK, SnapshotsBehind, FirstGetCounted, OneGetPerSnapshot
    <3>9. DocumentsOrdered'
      BY <2>1, <3>1, <3>2, <3>3 DEF TypeOK, GateHeld, DocumentsOrdered
    <3>10. NoForeignCancellation'
      BY <2>1, <3>1, <3>2, <3>3 DEF TypeOK, NoForeignCancellation, OwnErrors
    <3>11. SuccessMeansNewKeys'
      BY <2>1, <3>1, <3>2, <3>3 DEF TypeOK, SuccessMeansNewKeys, SnapshotsBehind
    <3> QED
      BY <3>4, <3>5, <3>6, <3>7, <3>8, <3>9, <3>10, <3>11
  <2> QED
    BY <2>2, <2>3
<1>5. ASSUME NEW c \in Callers, GetReply(c)
      PROVE  IInv'
  <2>1. \E g \in [err : {"nil", "failed", "canceled"}, doc : 0..Len(Documents)] :
           /\ got' = [got EXCEPT ![c] = g]
           /\ g.err = "nil" => g.doc = published
           /\ g.err = "canceled" => ctx[c] = "done"
    <3>1. /\ Success(published) \in [err : {"nil", "failed", "canceled"}, doc : 0..Len(Documents)]
          /\ Failure("failed") \in [err : {"nil", "failed", "canceled"}, doc : 0..Len(Documents)]
          /\ Failure("canceled") \in [err : {"nil", "failed", "canceled"}, doc : 0..Len(Documents)]
          /\ Success(published).err = "nil" /\ Success(published).doc = published
          /\ Failure("failed").err = "failed" /\ Failure("canceled").err = "canceled"
      BY ProviderAssumption DEF Success, Failure, TypeOK
    <3> QED
      BY <1>5, <3>1 DEF GetReply
  <2>2. /\ pc[c] = "get" /\ pc' = [pc EXCEPT ![c] = "store"]
        /\ UNCHANGED <<now, published, gate, provider, op, ctx, snap, ret, asked>>
    BY <1>5 DEF GetReply
  <2>3. TypeOK'
    BY <2>1, <2>2 DEF TypeOK
  <2>4. GateHeld'
    BY <2>1, <2>2, ProviderAssumption DEF TypeOK, GateHeld
  <2>5. SnapshotsBehind' /\ SuccessCounted'
    BY <2>2 DEF SnapshotsBehind, SuccessCounted
  <2>6. OwnErrors'
    BY <2>1, <2>2, ProviderAssumption DEF TypeOK, OwnErrors
  <2>7. FirstGetCounted' /\ OneGetPerSnapshot'
    BY <2>2 DEF FirstGetCounted, OneGetPerSnapshot
  <2>8. DocumentsOrdered'
    BY <2>1, <2>2, ProviderAssumption DEF TypeOK, GateHeld, DocumentsOrdered
  <2>9. NoForeignCancellation'
    BY <2>1, <2>2, ProviderAssumption DEF TypeOK, NoForeignCancellation, OwnErrors
  <2>10. SuccessMeansNewKeys'
    BY <2>1, <2>2, ProviderAssumption DEF TypeOK, SuccessMeansNewKeys, SnapshotsBehind
  <2> QED
    BY <2>3, <2>4, <2>5, <2>6, <2>7, <2>8, <2>9, <2>10
<1>6. ASSUME NEW c \in Callers, Store(c)
      PROVE  IInv'
  <2> DEFINE e == got[c].err
  <2>1. /\ pc[c] = "store" /\ gate = c /\ gate' = Nobody
        /\ refreshVersion' = refreshVersion + 1 /\ lastRefreshErr' = e
        /\ Attempted(c, e)
        /\ UNCHANGED <<now, published, op, ctx, snap, asked>>
    BY <1>6 DEF Store, RecordOutcome, UnlockRefresh, GateHeld
  <2>2. /\ e \in {"nil", "failed", "canceled"}
        /\ e = "canceled" => ctx[c] = "done"
        /\ \A d \in Callers : pc[d] = "store" => c = d
    BY <2>1 DEF TypeOK, GateHeld, OwnErrors
  <2>3. \/ /\ e = "nil" /\ keys' = got[c].doc /\ fetchedAt' = now
           /\ expiresAt' = now + RefreshInterval /\ generation' = generation + 1
        \/ e # "nil" /\ UNCHANGED <<keys, fetchedAt, expiresAt, generation>>
    BY <1>6 DEF Store
  <2>4. /\ e = "nil" => got[c].doc \in keys..published
        /\ refreshVersion \in Nat /\ generation \in Nat /\ now \in Nat
        /\ got[c].doc \in 0..Len(Documents) /\ RefreshInterval \in Nat
    BY <2>1, ProviderAssumption DEF TypeOK, DocumentsOrdered
  <2>5. lastRefreshCanceledByCaller' = (e = "canceled")
    BY <1>6, Zenon DEF Store, RecordOutcome
  <2> HIDE DEF e
  <2>6. /\ pc' \in [Callers -> {"idle", "lock", "get", "store", "recheck"}]
        /\ got' \in [Callers -> [err : Errors \cup {"nil"}, doc : 0..Len(Documents)]]
        /\ ret' \in [Callers -> {"none", "nil", "key", "mismatch", "notFound"} \cup Errors]
        /\ \A d \in Callers : d # c => pc'[d] = pc[d] /\ got'[d] = got[d] /\ ret'[d] = ret[d]
        /\ \/ pc'[c] = "idle" /\ got'[c].err = "nil" /\ ret'[c] = e
           \/ pc'[c] = "recheck" /\ got'[c].err = e /\ ret'[c] = ret[c]
    BY <2>1, <2>2, AttemptedResult
  <2>7. TypeOK'
    <3>1. lastRefreshCanceledByCaller' \in BOOLEAN
      BY <2>5, Zenon
    <3>2. /\ keys' \in 0..Len(Documents) /\ generation' \in Nat /\ refreshVersion' \in Nat
          /\ fetchedAt' \in Nat \cup {Never} /\ expiresAt' \in Nat \cup {Never}
      BY <2>1, <2>3, <2>4 DEF TypeOK
    <3> QED
      BY <2>1, <2>2, <2>6, <3>1, <3>2 DEF TypeOK
  <2>8. GateHeld'
    BY <2>1, <2>6, GateAssumption DEF GateHeld
  <2>9. SnapshotsBehind' /\ SuccessCounted'
    <3>1. \A d \in Callers : /\ snap[d].version \in Nat /\ snap[d].generation \in Nat
                             /\ snap[d].version <= refreshVersion
                             /\ snap[d].generation <= generation
      BY DEF TypeOK, SnapshotsBehind
    <3> QED
      BY <2>1, <2>3, <2>4, <3>1 DEF SnapshotsBehind, SuccessCounted
  <2>10. OwnErrors'
    <3>1. lastRefreshCanceledByCaller' <=> lastRefreshErr' = "canceled"
      BY <2>1, <2>5, Zenon
    <3>2. \A d \in Callers : /\ got'[d].err = "canceled" => ctx'[d] = "done"
                             /\ got'[d].err # "nil" => pc'[d] \in {"store", "recheck"}
                             /\ pc'[d] = "store" => got'[d].err # "misused"
      BY <2>1, <2>2, <2>6 DEF OwnErrors
    <3> QED
      BY <3>1, <3>2 DEF OwnErrors
  <2>11. FirstGetCounted' /\ OneGetPerSnapshot'
    BY <2>1, <2>4 DEF TypeOK, SnapshotsBehind, FirstGetCounted, OneGetPerSnapshot
  <2>12. DocumentsOrdered'
    <3>1. keys' <= published /\ fetchedAt' <= now
      BY <2>2, <2>3, <2>4 DEF TypeOK, DocumentsOrdered
    <3>2. \A d \in Callers : pc'[d] # "store"
      BY <2>2, <2>6
    <3> QED
      BY <2>1, <3>1, <3>2 DEF DocumentsOrdered
  <2>13. NoForeignCancellation'
    BY <2>1, <2>2, <2>6 DEF NoForeignCancellation
  <2>14. SuccessMeansNewKeys'
    <3>1. \A d \in Callers : snap[d].generation \in Nat /\ snap[d].generation <= generation
      BY DEF TypeOK, SnapshotsBehind
    <3> QED
      BY <2>1, <2>3, <2>4, <2>6, <3>1 DEF SuccessMeansNewKeys
  <2> QED
    BY <2>7, <2>8, <2>9, <2>10, <2>11, <2>12, <2>13, <2>14
<1>7. ASSUME NEW c \in Callers, Recheck(c)
      PROVE  IInv'
  <2>1. \E r \in {"key", "mismatch", "notFound", "failed", "canceled", "misused"} :
           ret' = [ret EXCEPT ![c] = r] /\ (r = "canceled" => got[c].err = "canceled")
    <3>1. Served(op[c]) \in {"key", "mismatch"}
      BY DEF Served
    <3>2. got[c].err \in {"nil", "failed", "canceled", "misused"}
      BY DEF TypeOK
    <3> QED
      BY <1>7, <3>1, <3>2 DEF Recheck, Return
  <2>2. /\ pc[c] = "recheck" /\ pc' = [pc EXCEPT ![c] = "idle"]
        /\ got' = [got EXCEPT ![c] = Failure("nil")]
        /\ UNCHANGED <<now, published, gate, provider, op, ctx, snap, asked>>
    BY <1>7 DEF Recheck, Return
  <2>3. /\ Failure("nil") \in [err : Errors \cup {"nil"}, doc : 0..Len(Documents)]
        /\ Failure("nil").err = "nil"
    BY ProviderAssumption DEF Failure
  <2>4. TypeOK'
    BY <2>1, <2>2, <2>3 DEF TypeOK
  <2>5. GateHeld'
    BY <2>1, <2>2, <2>3 DEF TypeOK, GateHeld
  <2>6. SnapshotsBehind' /\ SuccessCounted'
    BY <2>2 DEF SnapshotsBehind, SuccessCounted
  <2>7. OwnErrors'
    BY <2>1, <2>2, <2>3 DEF TypeOK, OwnErrors
  <2>8. FirstGetCounted' /\ OneGetPerSnapshot'
    BY <2>2 DEF FirstGetCounted, OneGetPerSnapshot
  <2>9. DocumentsOrdered'
    BY <2>1, <2>2, <2>3 DEF TypeOK, GateHeld, DocumentsOrdered
  <2>10. NoForeignCancellation'
    BY <2>1, <2>2, <2>3 DEF TypeOK, NoForeignCancellation, OwnErrors
  <2>11. SuccessMeansNewKeys'
    BY <2>1, <2>2, <2>3 DEF TypeOK, SuccessMeansNewKeys, SnapshotsBehind
  <2> QED
    BY <2>4, <2>5, <2>6, <2>7, <2>8, <2>9, <2>10, <2>11
<1>8. ASSUME NEW c \in Callers, CancelContext(c)
      PROVE  IInv'
  <2>1. /\ ctx[c] = "live" /\ ctx' = [ctx EXCEPT ![c] = "done"]
        /\ UNCHANGED <<now, published, gate, provider, pc, op, snap, got, ret, asked>>
    BY <1>8 DEF CancelContext
  <2>2. TypeOK'
    BY <2>1 DEF TypeOK
  <2>3. GateHeld'
    BY <2>1 DEF TypeOK, GateHeld
  <2>4. SnapshotsBehind' /\ SuccessCounted'
    BY <2>1 DEF SnapshotsBehind, SuccessCounted
  <2>5. OwnErrors'
    BY <2>1 DEF TypeOK, OwnErrors
  <2>6. FirstGetCounted' /\ OneGetPerSnapshot'
    BY <2>1 DEF FirstGetCounted, OneGetPerSnapshot
  <2>7. DocumentsOrdered'
    BY <2>1 DEF TypeOK, GateHeld, DocumentsOrdered
  <2>8. NoForeignCancellation'
    BY <2>1 DEF TypeOK, NoForeignCancellation, OwnErrors
  <2>9. SuccessMeansNewKeys'
    BY <2>1 DEF TypeOK, SuccessMeansNewKeys, SnapshotsBehind
  <2> QED
    BY <2>2, <2>3, <2>4, <2>5, <2>6, <2>7, <2>8, <2>9
<1>9. CASE Publish
  <2>1. /\ published' = published + 1 /\ published < Len(Documents)
        /\ UNCHANGED <<now, gate, provider, pc, op, ctx, snap, got, ret, asked>>
    BY <1>9 DEF Publish
  <2>2. TypeOK' /\ DocumentsOrdered'
    BY <2>1, ProviderAssumption DEF TypeOK, DocumentsOrdered
  <2> QED
    BY <2>1, <2>2 DEF GateHeld, SnapshotsBehind, SuccessCounted, OwnErrors,
                      FirstGetCounted, NoForeignCancellation, SuccessMeansNewKeys,
                      OneGetPerSnapshot
<1>10. CASE Tick
  <2>1. /\ now' = now + 1
        /\ UNCHANGED <<published, gate, provider, pc, op, ctx, snap, got, ret, asked>>
    BY <1>10 DEF Tick
  <2>2. TypeOK' /\ DocumentsOrdered'
    BY <2>1 DEF TypeOK, DocumentsOrdered
  <2> QED
    BY <2>1, <2>2 DEF GateHeld, SnapshotsBehind, SuccessCounted, OwnErrors,
                      FirstGetCounted, NoForeignCancellation, SuccessMeansNewKeys,
                      OneGetPerSnapshot
<1>11. CASE UNCHANGED vars
  <2>1. UNCHANGED <<now, published, gate, provider, pc, op, ctx, snap, got, ret, asked>>
    BY <1>11 DEF vars
  <2> QED
    BY <2>1 DEF TypeOK, GateHeld, SnapshotsBehind, SuccessCounted, OwnErrors, FirstGetCounted,
                DocumentsOrdered, NoForeignCancellation, SuccessMeansNewKeys,
                      OneGetPerSnapshot
<1> QED
  BY <1>1, <1>2, <1>3, <1>4, <1>5, <1>6, <1>7, <1>8, <1>9, <1>10, <1>11
  DEF Next, Begin, Continue

-----------------------------------------------------------------------------
\* The inductive invariant holds in every reachable state.
THEOREM Invariance == Spec => []IInv
BY InitIInv, NextIInv, PTL DEF Spec

\* Every field of the provider and every local of its callers keeps its type.
THEOREM TypeCorrect == Spec => []TypeOK
<1>1. IInv => TypeOK
  BY DEF IInv
<1> QED
  BY Invariance, <1>1, PTL

\* However many goroutines queue at refreshGate, a cancellation reaches only those
\* that are canceled themselves.
THEOREM CancellationOwned == Spec => []NoForeignCancellation
<1>1. IInv => NoForeignCancellation
  BY DEF IInv
<1> QED
  BY Invariance, <1>1, PTL

\* A nil error of refreshIfUnchanged means a key set newer than the snapshot.
THEOREM SuccessIsNew == Spec => []SuccessMeansNewKeys
<1>1. IInv => SuccessMeansNewKeys
  BY DEF IInv
<1> QED
  BY Invariance, <1>1, PTL

\* Goroutines with the same snapshot of refreshVersion send one GET between them.
THEOREM OneGet == Spec => []OneGetPerSnapshot
<1>1. IInv => OneGetPerSnapshot
  BY DEF IInv
<1> QED
  BY Invariance, <1>1, PTL

\* No step of any number of goroutines replaces a key set by an older one.
THEOREM InOrder == Spec => KeySetsInOrder
<1>1. ASSUME IInv, [Next]_vars
      PROVE  [keys' >= keys /\ fetchedAt' >= fetchedAt]_vars
  <2>1. keys \in Int /\ fetchedAt \in Int /\ now \in Int /\ fetchedAt <= now
    BY <1>1 DEF IInv, TypeOK, DocumentsOrdered
  <2>2. ASSUME NEW c \in Callers, Store(c)
        PROVE  keys' >= keys /\ fetchedAt' >= fetchedAt
    <3>1. got[c].err = "nil" => got[c].doc \in Int /\ got[c].doc >= keys
      BY <1>1, <2>2 DEF IInv, TypeOK, DocumentsOrdered, Store
    <3> QED
      BY <2>1, <2>2, <3>1 DEF Store
  <2>3. ASSUME NEW c \in Callers, LockFails(c) \/ LockRefresh(c) \/ Recheck(c) \/ GetReply(c)
                                    \/ CancelContext(c)
        PROVE  UNCHANGED <<keys, fetchedAt>>
    BY <2>3, Zenon DEF LockFails, LockRefresh, Recheck, GetReply, CancelContext, provider
  <2>4. ASSUME NEW c \in Callers, Begin(c)
        PROVE  UNCHANGED <<keys, fetchedAt>>
    BY <2>4, Zenon DEF Begin, BeginKey, BeginRefresh, provider
  <2>5. ASSUME Publish \/ Tick \/ UNCHANGED vars
        PROVE  UNCHANGED <<keys, fetchedAt>>
    BY <2>5 DEF Publish, Tick, vars, provider
  <2> QED
    BY <1>1, <2>1, <2>2, <2>3, <2>4, <2>5 DEF Next, Continue
<1> QED
  BY Invariance, <1>1, PTL DEF Spec, KeySetsInOrder

\* A key that Key returns after its first snapshot is fresh, within the stale window,
\* or fetched since the call began, for every interval and every clock.
THEOREM KeyJustified == Spec => ServedKeyJustified
<1> DEFINE J(c) == (pc[c] # "idle" /\ ret[c] # ret'[c] /\ ret'[c] = "key") =>
                       \/ now < expiresAt
                       \/ now - fetchedAt <= MaxStale
                       \/ generation > snap[c].generation
<1>1. ASSUME IInv, [Next]_vars
      PROVE  [\A c \in Callers : J(c)]_vars
  <2>1. ASSUME NEW c \in Callers, NEW d \in Callers, Recheck(d)
        PROVE  J(c)
    <3>1. CASE c # d
      BY <1>1, <2>1, <3>1 DEF Recheck, Return, IInv, TypeOK
    <3>2. CASE c = d /\ got[c].err = "nil"
      BY <1>1, <2>1, <3>2 DEF Recheck, IInv, SuccessMeansNewKeys
    <3>3. CASE c = d /\ got[c].err # "nil"
      <4>1. got[c].err \in {"failed", "canceled", "misused"}
        BY <1>1, <3>3 DEF IInv, TypeOK
      <4>2. ret'[c] = "key" => StaleOK
        BY <1>1, <2>1, <3>3, <4>1 DEF Recheck, Return, IInv, TypeOK
      <4> QED
        BY <4>2 DEF StaleOK
    <3> QED
      BY <3>1, <3>2, <3>3
  <2>2. ASSUME NEW c \in Callers, NEW d \in Callers, NEW e \in Errors \cup {"nil"},
               Attempted(d, e)
        PROVE  ret'[c] = ret[c] \/ ret'[c] # "key"
    BY <1>1, <2>2, AttemptedResult DEF IInv
  <2>3. ASSUME NEW c \in Callers, NEW d \in Callers, LockFails(d) \/ LockRefresh(d) \/ Store(d)
        PROVE  ret'[c] = ret[c] \/ ret'[c] # "key"
    <3>1. \/ ret' = ret
          \/ Attempted(d, "misused") \/ Attempted(d, "canceled") \/ Attempted(d, "nil")
          \/ Attempted(d, lastRefreshErr) \/ Attempted(d, got[d].err)
      BY <2>3 DEF LockFails, LockRefresh, StartGet, Store
    <3>2. lastRefreshErr \in Errors \cup {"nil"} /\ got[d].err \in Errors \cup {"nil"}
      BY <1>1 DEF IInv, TypeOK
    <3> QED
      BY <2>2, <3>1, <3>2
  <2>4. ASSUME NEW c \in Callers, NEW d \in Callers, Begin(d)
        PROVE  J(c)
    BY <1>1, <2>4 DEF Begin, BeginKey, BeginRefresh, Return, IInv, TypeOK
  <2>5. ASSUME NEW d \in Callers, GetReply(d) \/ CancelContext(d)
        PROVE  ret' = ret
    BY <2>5, Zenon DEF GetReply, CancelContext
  <2>6. CASE Publish \/ Tick \/ UNCHANGED vars
    BY <2>6, Zenon DEF Publish, Tick, vars
  <2> QED
    BY <1>1, <2>1, <2>3, <2>4, <2>5, <2>6 DEF Next, Continue
<1> QED
  BY Invariance, <1>1, PTL DEF Spec, ServedKeyJustified
-----------------------------------------------------------------------------
(* What keeps every operation going *)

\* The steps that a Key or a Refresh has before it at most.
StepsLeft == [p \in {"idle", "lock", "get", "store", "recheck"} |->
                CASE p = "lock" -> 4 [] p = "get" -> 3 [] p = "store" -> 2
                  [] p = "recheck" -> 1 [] p = "idle" -> 0]

\* No step of any goroutine takes an operation back: one that queued at refreshGate does
\* not queue again, whatever it finds there.
OperationsAdvance ==
    [][\A c \in Callers : \/ pc'[c] = pc[c] \/ pc[c] = "idle"
                          \/ StepsLeft[pc'[c]] < StepsLeft[pc[c]]]_vars

\* A goroutine with steps left can take one, or waits for one that can: at refreshGate it
\* is canceled, or the gate is free, or its holder waits for nothing but the reply to its GET.
NobodyStuck ==
    \A c \in Callers :
        \/ pc[c] # "lock" \/ ctx[c] # "live" \/ gate = Nobody
        \/ gate \in Callers /\ pc[gate] \in {"get", "store"}

\* The gate is never kept by a goroutine that is done with it, on any path of
\* refreshLocked and refreshIfUnchanged, however many goroutines queue.
THEOREM GateIsReturned == Spec => []NobodyStuck
<1>1. IInv => NobodyStuck
  BY DEF IInv, TypeOK, GateHeld, NobodyStuck
<1> QED
  BY Invariance, <1>1, PTL

\* Every Key and Refresh is over after four steps of its own.
THEOREM OperationsEnd == Spec => OperationsAdvance
<1> DEFINE A(c) == \/ pc'[c] = pc[c] \/ pc[c] = "idle"
                   \/ StepsLeft[pc'[c]] < StepsLeft[pc[c]]
<1>1. ASSUME IInv, [Next]_vars
      PROVE  [\A c \in Callers : A(c)]_vars
  <2>1. /\ StepsLeft["lock"] = 4 /\ StepsLeft["get"] = 3 /\ StepsLeft["store"] = 2
        /\ StepsLeft["recheck"] = 1 /\ StepsLeft["idle"] = 0
    BY DEF StepsLeft
  <2>2. pc \in [Callers -> {"idle", "lock", "get", "store", "recheck"}]
    BY <1>1 DEF IInv, TypeOK
  <2>3. ASSUME NEW d \in Callers, NEW e, Attempted(d, e)
        PROVE  pc' = [pc EXCEPT ![d] = "idle"] \/ pc' = [pc EXCEPT ![d] = "recheck"]
    BY <2>3 DEF Attempted, Return
  <2>4. ASSUME NEW d \in Callers, LockFails(d) \/ LockRefresh(d)
        PROVE  /\ pc[d] = "lock"
               /\ \E p \in {"idle", "recheck", "get"} : pc' = [pc EXCEPT ![d] = p]
    BY <2>3, <2>4 DEF LockFails, LockRefresh, StartGet
  <2>5. ASSUME NEW d \in Callers, Store(d)
        PROVE  /\ pc[d] = "store"
               /\ \E p \in {"idle", "recheck"} : pc' = [pc EXCEPT ![d] = p]
    BY <2>3, <2>5 DEF Store
  <2>6. ASSUME NEW d \in Callers, Recheck(d)
        PROVE  pc[d] = "recheck" /\ pc' = [pc EXCEPT ![d] = "idle"]
    BY <2>6 DEF Recheck, Return
  <2>7. ASSUME NEW d \in Callers, GetReply(d)
        PROVE  pc[d] = "get" /\ pc' = [pc EXCEPT ![d] = "store"]
    BY <2>7, Zenon DEF GetReply
  <2>8. ASSUME NEW d \in Callers, Begin(d)
        PROVE  pc[d] = "idle" /\ \E p : pc' = [pc EXCEPT ![d] = p]
    BY <2>8, Zenon DEF Begin, BeginKey, BeginRefresh, Return
  <2>9. ASSUME NEW d \in Callers, CancelContext(d) PROVE pc' = pc
    BY <2>9, Zenon DEF CancelContext
  <2>10. CASE Publish \/ Tick \/ UNCHANGED vars
    <3>1. pc' = pc
      BY <2>10, Zenon DEF Publish, Tick, vars
    <3> QED
      BY <3>1
  <2>11. ASSUME NEW d \in Callers, NEW c \in Callers,
                Begin(d) \/ Continue(d) \/ GetReply(d) \/ CancelContext(d)
         PROVE  A(c)
    <3>1. CASE Begin(d)
      BY <2>2, <2>8, <3>1
    <3>2. CASE LockFails(d) \/ LockRefresh(d)
      BY <2>1, <2>2, <2>4, <3>2
    <3>3. CASE Store(d)
      BY <2>1, <2>2, <2>5, <3>3
    <3>4. CASE Recheck(d)
      BY <2>1, <2>2, <2>6, <3>4
    <3>5. CASE GetReply(d)
      BY <2>1, <2>2, <2>7, <3>5
    <3>6. CASE CancelContext(d)
      BY <2>9, <3>6
    <3> QED
      BY <2>11, <3>1, <3>2, <3>3, <3>4, <3>5, <3>6 DEF Continue
  <2> QED
    BY <1>1, <2>10, <2>11 DEF Next
<1> QED
  BY Invariance, <1>1, PTL DEF Spec, OperationsAdvance
=============================================================================
