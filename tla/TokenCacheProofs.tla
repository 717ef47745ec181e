--------------------------- MODULE TokenCacheProofs ---------------------------
(***************************************************************************)
(* Proofs about TokenCache, for every set of callers, calls and requests:  *)
(* its properties, and that it implements TokenSource.                     *)
(***************************************************************************)
EXTENDS TokenCache, FiniteSetTheorems, TLAPS

\* Where a caller is determines what it points to.
CallerConsistent(c) ==
    /\ Waiting(c) => /\ joined[c] \in Calls
                     /\ key[c] \in Keys
                     /\ calls[joined[c]].key = key[c]
                     /\ calls[joined[c]].stage # "none"
                     /\ ~calls[joined[c]].abandoned
                     /\ Completed(joined[c]) \/ inflight[key[c]] = joined[c]
    /\ ~Waiting(c) => joined[c] = NoCall
    /\ pc[c] \in {"check", "join"} => key[c] \in Keys
    /\ pc[c] = "release" => ctx[c] = "done"

CallersConsistent == \A c \in Callers : CallerConsistent(c)

\* A running call that is not abandoned is the published call of its key, and
\* only an abandoned call can end in a cancellation.
CallsConsistent ==
    \A i \in Calls :
        /\ calls[i].stage # "none" => calls[i].key \in Keys
        /\ Running(i) /\ ~calls[i].abandoned => inflight[calls[i].key] = i
        /\ calls[i].result = Canceled => calls[i].abandoned

\* What WaitersCounted says of one published call.
Counted(k, i) ==
    /\ Running(i) /\ ~calls[i].abandoned
    /\ calls[i].key = k
    /\ calls[i].waiters = Cardinality(Joiners(i))
    /\ calls[i].waiters > 0

\* The inductive invariant.
IInv == /\ TypeOK
        /\ WaitersCounted
        /\ CallersConsistent
        /\ CallsConsistent
        /\ NoForeignCancellation

-----------------------------------------------------------------------------
\* The set of goroutines that wait for a call is finite, so its cardinality is a
\* natural number and follows one arrival or one departure.
LEMMA JoinersFinite ==
    \A i : /\ IsFiniteSet(Joiners(i))
           /\ Cardinality(Joiners(i)) \in Nat
<1> SUFFICES ASSUME NEW i
             PROVE  /\ IsFiniteSet(Joiners(i))
                    /\ Cardinality(Joiners(i)) \in Nat
  OBVIOUS
<1>1. IsFiniteSet(Joiners(i))
  BY CallersAssumption, FS_Subset DEF Joiners
<1> QED
  BY <1>1, FS_CardinalityType

\* Duration arithmetic stays in the integers.
LEMMA SecondsType == \A n \in Int : Seconds(n) \in Int
BY TimeAssumption DEF Seconds, Wrap

\* Purging only removes entries.
LEMMA PurgeType ==
    ASSUME TypeOK, NEW t \in Int
    PROVE  /\ PurgeStale(t) \in [Keys -> Tokens \cup {NoToken}]
           /\ \A k \in Keys : PurgeStale(t)[k] # NoToken =>
                /\ PurgeStale(t)[k] = cache[k]
                /\ PurgeStale(t)[k] \in Tokens
                /\ FreshAt(cache[k], t)
BY DEF TypeOK, PurgeStale

\* The initial state satisfies the inductive invariant.
LEMMA InitIInv == Init => IInv
<1> SUFFICES ASSUME Init PROVE IInv
  OBVIOUS
<1>1. TypeOK
  BY CallsAssumption DEF Init, TypeOK, CallObjects, Results, NoResult
<1>2. WaitersCounted /\ CallersConsistent
  BY CallsAssumption DEF Init, WaitersCounted, CallersConsistent, CallerConsistent, Waiting
<1>3. CallsConsistent
  BY DEF Init, CallsConsistent, Running, NoResult, Canceled
<1>4. NoForeignCancellation
  BY DEF Init, NoForeignCancellation, NoResult, Canceled
<1> QED
  BY <1>1, <1>2, <1>3, <1>4 DEF IInv

-----------------------------------------------------------------------------
\* A goroutine that returns leaves the set of waiters it was in, and no other.
LEMMA ReturnJoiners ==
    ASSUME TypeOK, NEW c \in Callers, NEW r, Return(c, r)
    PROVE  \A i \in Calls : Joiners(i)' = Joiners(i) \ {c}
BY CallsAssumption DEF TypeOK, Return, Joiners, Waiting

\* A goroutine that joins a call enters its set of waiters, and no other.
LEMMA JoinJoiners ==
    ASSUME TypeOK, NEW c \in Callers, ~Waiting(c), NEW j \in Calls,
           pc' = [pc EXCEPT ![c] = "wait"],
           joined' = [joined EXCEPT ![c] = j]
    PROVE  /\ c \notin Joiners(j)
           /\ Joiners(j)' = Joiners(j) \cup {c}
           /\ \A i \in Calls \ {j} : Joiners(i)' = Joiners(i)
BY DEF TypeOK, Joiners, Waiting

\* Steps that move a goroutine between two places on the same side of
\* joinOrStartCall leave every set of waiters as it was.
LEMMA SameJoiners ==
    ASSUME TypeOK, NEW c \in Callers, NEW p,
           pc' = [pc EXCEPT ![c] = p], joined' = joined,
           Waiting(c) <=> p \in {"wait", "release"}
    PROVE  \A i \in Calls : Joiners(i)' = Joiners(i)
BY DEF TypeOK, Joiners, Waiting

\* requestToken returns a result of the right type, a cancellation only when
\* the call is abandoned.
LEMMA DecodedType ==
    ASSUME TypeOK, NEW k \in Keys, NEW w \in BOOLEAN, NEW n \in ExpiresIns
    PROVE  Decoded(k, w, n) \in Results /\ Decoded(k, w, n) # Canceled
<1>1. Seconds(n) \in Int /\ n \in Int
  BY SecondsType, TimeAssumption
<1>2. now + Seconds(n) \in Int
  BY <1>1 DEF TypeOK
<1> QED
  BY <1>1, <1>2 DEF Decoded, Token, Failed, Canceled, Results, Tokens

\* The updates of one call object that joinOrStartCall and requestToken make.
LEMMA CallUpdates ==
    ASSUME calls \in [Calls -> CallObjects], NEW i \in Calls, NEW r \in Results
    PROVE  /\ [calls EXCEPT ![i].waiters = @ + 1] \in [Calls -> CallObjects]
           /\ [calls EXCEPT ![i].stage = "returned", ![i].result = r]
                \in [Calls -> CallObjects]
<1>1. [calls[i] EXCEPT !.waiters = @ + 1] \in CallObjects
  BY DEF CallObjects
<1>2. [[calls[i] EXCEPT !.stage = "returned"] EXCEPT !.result = r] \in CallObjects
  BY DEF CallObjects
<1> QED
  BY <1>1, <1>2

-----------------------------------------------------------------------------
\* Every step keeps the types.
LEMMA TypeStep ==
    ASSUME IInv, [Next]_vars
    PROVE  TypeOK'
<1> USE DEF IInv
<1>1. ASSUME NEW c \in Callers, NEW r \in Requests, RejectTarget(c, r)
      PROVE  TypeOK'
  BY <1>1 DEF TypeOK, RejectTarget, Return, Results
<1>2. ASSUME NEW c \in Callers, NEW r \in Requests, NEW x \in {"nil", "live", "done"},
             Lookup(c, r, x)
      PROVE  TypeOK'
  <2>1. now \in Int
    BY DEF TypeOK
  <2>2. /\ PurgeStale(now) \in [Keys -> Tokens \cup {NoToken}]
        /\ \A k \in Keys : PurgeStale(now)[k] # NoToken => PurgeStale(now)[k] \in Tokens
    BY <2>1, PurgeType
  <2> QED
    BY <1>2, <2>2 DEF TypeOK, Lookup, Return, Results, Token
<1>3. ASSUME NEW c \in Callers, CheckContext(c)
      PROVE  TypeOK'
  BY <1>3 DEF TypeOK, CheckContext, Return, Results
<1>4. ASSUME NEW c \in Callers, JoinOrStartCall(c)
      PROVE  TypeOK'
  <2>1. now \in Int /\ key[c] \in Keys
    BY <1>4 DEF TypeOK, CallersConsistent, CallerConsistent, JoinOrStartCall
  <2>2. /\ PurgeStale(now) \in [Keys -> Tokens \cup {NoToken}]
        /\ \A k \in Keys : PurgeStale(now)[k] # NoToken => PurgeStale(now)[k] \in Tokens
    BY <2>1, PurgeType
  <2>3. CASE PurgeStale(now)[key[c]] # NoToken
    BY <1>4, <2>1, <2>2, <2>3 DEF TypeOK, JoinOrStartCall, Return, Results, Token
  <2>4. CASE PurgeStale(now)[key[c]] = NoToken /\ inflight[key[c]] # NoCall
    <3>1. inflight[key[c]] \in Calls
      BY <2>1, <2>4 DEF TypeOK
    <3>2. calls' = [calls EXCEPT ![inflight[key[c]]].waiters = @ + 1]
      BY <1>4, <2>4 DEF JoinOrStartCall
    <3>3. calls' \in [Calls -> CallObjects]
      BY <3>1, <3>2, CallUpdates DEF TypeOK, Results
    <3> QED
      BY <1>4, <2>1, <2>2, <2>4, <3>1, <3>3 DEF TypeOK, JoinOrStartCall
  <2>5. CASE PurgeStale(now)[key[c]] = NoToken /\ inflight[key[c]] = NoCall
    <3>1. PICK j \in Calls : /\ calls' = [calls EXCEPT ![j] = NewCall(key[c])]
                             /\ inflight' = [inflight EXCEPT ![key[c]] = j]
                             /\ joined' = [joined EXCEPT ![c] = j]
      BY <1>4, <2>5 DEF JoinOrStartCall
    <3>2. NewCall(key[c]) \in CallObjects
      BY <2>1 DEF NewCall, CallObjects, Results
    <3>3. calls' \in [Calls -> CallObjects]
      BY <3>1, <3>2 DEF TypeOK
    <3> QED
      BY <1>4, <2>1, <2>2, <2>5, <3>1, <3>3 DEF TypeOK, JoinOrStartCall
  <2> QED
    BY <2>3, <2>4, <2>5
<1>5. ASSUME NEW c \in Callers, WaitDone(c)
      PROVE  TypeOK'
  BY <1>5 DEF TypeOK, WaitDone, Return, CallersConsistent, CallerConsistent, Waiting, CallObjects
<1>6. ASSUME NEW c \in Callers, WaitCanceled(c) \/ CancelContext(c)
      PROVE  TypeOK'
  BY <1>6 DEF TypeOK, WaitCanceled, CancelContext
<1>7. ASSUME NEW c \in Callers, ReleaseWaiter(c)
      PROVE  TypeOK'
  <2>1. /\ joined[c] \in Calls /\ key[c] \in Keys
        /\ inflight[key[c]] = joined[c] => calls[joined[c]].waiters - 1 \in Nat
    BY <1>7, CallsAssumption
    DEF TypeOK, ReleaseWaiter, CallersConsistent, CallerConsistent, Waiting, WaitersCounted, CallObjects
  <2>2. calls' \in [Calls -> CallObjects]
    BY <1>7, <2>1 DEF TypeOK, ReleaseWaiter, CallObjects
  <2>3. inflight' \in [Keys -> Calls \cup {NoCall}]
    BY <1>7, <2>1 DEF TypeOK, ReleaseWaiter
  <2> QED
    BY <1>7, <2>2, <2>3 DEF TypeOK, ReleaseWaiter, Return, Results
<1>8. ASSUME NEW i \in Calls, RequestToken(i)
      PROVE  TypeOK'
  <2>1. calls[i].key \in Keys
    BY <1>8 DEF RequestToken, CallsConsistent
  <2>2. PICK r : r \in Results /\ RequestReturns(i, r)
    <3>1. \A w \in BOOLEAN, n \in ExpiresIns : Decoded(calls[i].key, w, n) \in Results
      BY <2>1, DecodedType
    <3>2. Failed \in Results /\ Canceled \in Results
      BY DEF Results
    <3> QED
      BY <1>8, <3>1, <3>2 DEF RequestToken
  <2> QED
    BY <1>8, <2>2, CallUpdates DEF TypeOK, RequestToken, RequestReturns
<1>9. ASSUME NEW i \in Calls, FinishCall(i)
      PROVE  TypeOK'
  <2>1. calls[i].key \in Keys
    BY <1>9 DEF FinishCall, CallsConsistent
  <2>2. calls[i].result.kind = "token" => calls[i].result.token \in Tokens
    BY DEF TypeOK, CallObjects, Results, Failed, Canceled, Misused, NoResult
  <2> QED
    BY <1>9, <2>1, <2>2 DEF TypeOK, FinishCall, CallObjects
<1>10. CASE Tick \/ UNCHANGED vars
  BY <1>10 DEF TypeOK, Tick, vars
<1> QED
  BY <1>1, <1>2, <1>3, <1>4, <1>5, <1>6, <1>7, <1>8, <1>9, <1>10 DEF Next, Request, Continue

-----------------------------------------------------------------------------
\* What IInv says beyond the types.
Structure == /\ WaitersCounted
             /\ CallersConsistent
             /\ CallsConsistent
             /\ NoForeignCancellation

\* Steps of a goroutine that is not waiting and touches neither the calls nor
\* the table of published calls.
LEMMA QuietStep ==
    ASSUME IInv, TypeOK', NEW c \in Callers, UNCHANGED <<calls, inflight>>,
           \A d \in Callers \ {c} : /\ pc'[d] = pc[d] /\ ctx'[d] = ctx[d]
                                     /\ key'[d] = key[d] /\ joined'[d] = joined[d]
                                     /\ ret'[d] = ret[d],
           ~Waiting(c), ~Waiting(c)', joined'[c] = NoCall,
           pc'[c] \in {"check", "join"} => key'[c] \in Keys,
           ret'[c] = Canceled => ctx'[c] = "done"
    PROVE  Structure'
<1> USE DEF IInv
<1>1. \A i \in Calls : Joiners(i)' = Joiners(i)
  BY DEF Joiners, Waiting
<1>2. WaitersCounted'
  BY <1>1 DEF WaitersCounted, Running, TypeOK
<1>3. \A d \in Callers : Waiting(d)' <=> Waiting(d)
  BY DEF Waiting
<1>5. CallersConsistent'
  BY <1>3 DEF CallersConsistent, CallerConsistent, Waiting, Completed
<1>6. CallsConsistent'
  BY DEF CallsConsistent, Running
<1>7. NoForeignCancellation'
  BY DEF NoForeignCancellation
<1> QED
  BY <1>2, <1>5, <1>6, <1>7 DEF Structure

\* joinOrStartCall keeps the structure: the three branches of its critical
\* section.
LEMMA JoinOrStartCallStep ==
    ASSUME IInv, TypeOK', NEW c \in Callers, JoinOrStartCall(c)
    PROVE  Structure'
<1> DEFINE k == key[c]
<1>0. /\ k \in Keys /\ ~Waiting(c) /\ joined[c] = NoCall
      /\ UNCHANGED <<ctx, key>>
  BY DEF JoinOrStartCall, IInv, CallersConsistent, CallerConsistent, Waiting
<1>1. CASE PurgeStale(now)[k] # NoToken
  <2>1. Return(c, Token(PurgeStale(now)[k])) /\ UNCHANGED <<calls, inflight>>
    BY <1>1 DEF JoinOrStartCall
  <2>2. Token(PurgeStale(now)[k]) # Canceled
    BY DEF Token, Canceled
  <2> QED
    BY <1>0, <2>1, <2>2, QuietStep DEF Return, IInv, TypeOK, Waiting
<1>2. CASE PurgeStale(now)[k] = NoToken /\ inflight[k] # NoCall
  <2>0. PICK i \in Calls : i = inflight[k]
    BY <1>0, <1>2 DEF IInv, TypeOK
  <2>1. /\ calls' = [calls EXCEPT ![i].waiters = @ + 1]
        /\ joined' = [joined EXCEPT ![c] = i]
        /\ pc' = [pc EXCEPT ![c] = "wait"]
        /\ UNCHANGED <<inflight, ret, ctx, key>>
    BY <1>0, <1>2, <2>0 DEF JoinOrStartCall
  <2>2. calls[i] \in CallObjects
    BY DEF IInv, TypeOK
  <2>3. /\ calls'[i].waiters = calls[i].waiters + 1
        /\ calls'[i].stage = calls[i].stage /\ calls'[i].key = calls[i].key
        /\ calls'[i].abandoned = calls[i].abandoned
        /\ calls'[i].result = calls[i].result
        /\ \A j \in Calls \ {i} : calls'[j] = calls[j]
    BY <2>1, <2>2 DEF IInv, TypeOK, CallObjects
  <2>4. /\ c \notin Joiners(i)
        /\ Joiners(i)' = Joiners(i) \cup {c}
        /\ \A j \in Calls \ {i} : Joiners(j)' = Joiners(j)
    BY <1>0, <2>1, <2>2, JoinJoiners DEF IInv
  <2>5. Cardinality(Joiners(i)') = Cardinality(Joiners(i)) + 1
    BY <2>4, JoinersFinite, FS_AddElement
  <2>6. /\ Running(i) /\ ~calls[i].abandoned /\ calls[i].key = k
        /\ calls[i].waiters = Cardinality(Joiners(i)) /\ calls[i].waiters > 0
    BY <1>0, <1>2, <2>0 DEF IInv, WaitersCounted
  <2>7. WaitersCounted'
    <3> SUFFICES ASSUME NEW q \in Keys, NEW j \in Calls, j = inflight[q]
                 PROVE  Counted(q, j)'
      BY <2>1 DEF WaitersCounted, Counted
    <3>1. Counted(q, j)
      BY DEF IInv, WaitersCounted, Counted
    <3>2. CASE j = i
      BY <2>2, <2>3, <2>5, <2>6, <3>1, <3>2 DEF Counted, Running, CallObjects
    <3>3. CASE j # i
      BY <2>3, <2>4, <3>1, <3>3 DEF Counted, Running
    <3> QED
      BY <3>2, <3>3
  <2>8. CallersConsistent'
    <3> SUFFICES ASSUME NEW d \in Callers
                 PROVE  CallerConsistent(d)'
      BY DEF CallersConsistent
    <3>1. CASE d = c
      BY <1>0, <2>0, <2>1, <2>3, <2>6, <3>1
      DEF IInv, TypeOK, CallerConsistent, Waiting, Running
    <3>2. CASE d # c
      <4>1. /\ pc'[d] = pc[d] /\ joined'[d] = joined[d]
            /\ CallerConsistent(d)
        BY <2>1, <3>2 DEF IInv, TypeOK, CallersConsistent
      <4> QED
        BY <2>1, <2>3, <4>1 DEF CallerConsistent, Waiting, Completed
    <3> QED
      BY <3>1, <3>2
  <2>9. CallsConsistent'
    BY <2>1, <2>3 DEF IInv, CallsConsistent, Running
  <2>10. NoForeignCancellation'
    BY <2>1 DEF IInv, NoForeignCancellation
  <2> QED
    BY <2>7, <2>8, <2>9, <2>10 DEF Structure
<1>3. CASE PurgeStale(now)[k] = NoToken /\ inflight[k] = NoCall
  <2>1. PICK i \in Calls : /\ Garbage(i)
                           /\ calls' = [calls EXCEPT ![i] = NewCall(k)]
                           /\ inflight' = [inflight EXCEPT ![k] = i]
                           /\ joined' = [joined EXCEPT ![c] = i]
    BY <1>3 DEF JoinOrStartCall
  <2>2. pc' = [pc EXCEPT ![c] = "wait"] /\ UNCHANGED <<ret, ctx, key>>
    BY <1>3, <1>0 DEF JoinOrStartCall
  <2>3. Joiners(i) = {} /\ ~Running(i)
    BY <2>1 DEF Garbage, Joiners, Running
  <2>4. /\ Joiners(i)' = {c}
        /\ \A j \in Calls \ {i} : Joiners(j)' = Joiners(j)
    <3>1. Joiners(i)' = Joiners(i) \cup {c}
      BY <1>0, <2>1, <2>2, JoinJoiners DEF IInv
    <3>2. \A j \in Calls \ {i} : Joiners(j)' = Joiners(j)
      BY <1>0, <2>1, <2>2, JoinJoiners DEF IInv
    <3> QED
      BY <2>3, <3>1, <3>2
  <2>5. Cardinality(Joiners(i)') = 1
    BY <2>4, FS_Singleton
  <2>6. calls'[i] = NewCall(k) /\ \A j \in Calls \ {i} : calls'[j] = calls[j]
    BY <2>1 DEF IInv, TypeOK
  <2>7. inflight'[k] = i /\ \A q \in Keys \ {k} : inflight'[q] = inflight[q]
    BY <1>0, <2>1 DEF IInv, TypeOK
  <2>8. \A q \in Keys : inflight[q] # NoCall => inflight[q] \in Calls \ {i}
    BY <2>3 DEF IInv, TypeOK, WaitersCounted
  <2>9. WaitersCounted'
    <3> SUFFICES ASSUME NEW q \in Keys, NEW j \in Calls, j = inflight'[q]
                 PROVE  Counted(q, j)'
      BY DEF WaitersCounted, Counted
    <3>1. CASE q = k
      BY <2>5, <2>6, <2>7, <3>1 DEF NewCall, Running, Counted
    <3>2. CASE q # k
      <4>1. j = inflight[q] /\ j \in Calls \ {i} /\ Counted(q, j)
        BY <2>7, <2>8, <3>2, CallsAssumption DEF IInv, WaitersCounted, Counted
      <4> QED
        BY <2>4, <2>6, <4>1 DEF Counted, Running
    <3> QED
      BY <3>1, <3>2
  <2>10. CallersConsistent'
    <3> SUFFICES ASSUME NEW d \in Callers
                 PROVE  CallerConsistent(d)'
      BY DEF CallersConsistent
    <3>1. CASE d = c
      BY <1>0, <2>1, <2>2, <2>6, <2>7, <3>1
      DEF IInv, TypeOK, CallerConsistent, Waiting, NewCall
    <3>2. CASE d # c
      <4>1. /\ pc'[d] = pc[d] /\ joined'[d] = joined[d] /\ joined[d] # i
            /\ CallerConsistent(d)
        BY <2>1, <2>2, <3>2 DEF IInv, TypeOK, CallersConsistent, Garbage
      <4>2. Waiting(d) => joined[d] # NoCall
        BY <4>1, CallsAssumption DEF CallerConsistent
      <4> QED
        BY <1>3, <2>2, <2>6, <2>7, <4>1, <4>2 DEF CallerConsistent, Waiting, Completed
    <3> QED
      BY <3>1, <3>2
  <2>11. CallsConsistent'
    BY <1>0, <1>3, <2>1, <2>6, <2>7, CallsAssumption
    DEF IInv, TypeOK, CallsConsistent, Running, NewCall, NoResult, Canceled
  <2>12. NoForeignCancellation'
    BY <2>2 DEF IInv, NoForeignCancellation
  <2> QED
    BY <2>9, <2>10, <2>11, <2>12 DEF Structure
<1> QED
  BY <1>1, <1>2, <1>3

\* A goroutine that returns from a completed call disturbs no published call.
LEMMA LeaveCompletedStep ==
    ASSUME IInv, NEW c \in Callers, Waiting(c), Completed(joined[c]),
           NEW r, Return(c, r), r = Canceled => ctx[c] = "done",
           UNCHANGED <<calls, inflight, ctx, key>>
    PROVE  Structure'
<1>1. WaitersCounted'
  <2> SUFFICES ASSUME NEW q \in Keys, NEW j \in Calls, inflight[q] = j
               PROVE  Counted(q, j)'
    BY DEF WaitersCounted, Counted
  <2>1. Counted(q, j) /\ j # joined[c]
    BY DEF IInv, WaitersCounted, Counted, Running, Completed
  <2>2. Joiners(j)' = Joiners(j)
    BY <2>1, ReturnJoiners DEF IInv, Joiners
  <2> QED
    BY <2>1, <2>2 DEF Counted, Running
<1>2. CallersConsistent'
  <2> SUFFICES ASSUME NEW d \in Callers
               PROVE  CallerConsistent(d)'
    BY DEF CallersConsistent
  <2>1. CASE d = c
    BY <2>1 DEF IInv, TypeOK, Return, CallerConsistent, Waiting
  <2>2. CASE d # c
    BY <2>2 DEF IInv, TypeOK, Return, CallersConsistent, CallerConsistent, Waiting, Completed
  <2> QED
    BY <2>1, <2>2
<1>3. CallsConsistent'
  BY DEF IInv, CallsConsistent, Running
<1>4. NoForeignCancellation'
  BY DEF IInv, TypeOK, NoForeignCancellation, Return
<1> QED
  BY <1>1, <1>2, <1>3, <1>4 DEF Structure

\* waitForCall, the done branch.
LEMMA WaitDoneStep ==
    ASSUME IInv, NEW c \in Callers, WaitDone(c)
    PROVE  Structure'
<1>1. Waiting(c) /\ joined[c] \in Calls /\ ~calls[joined[c]].abandoned
  BY DEF WaitDone, IInv, CallersConsistent, CallerConsistent, Waiting
<1>2. calls[joined[c]].result # Canceled
  BY <1>1 DEF IInv, CallsConsistent
<1> QED
  BY <1>1, <1>2, LeaveCompletedStep DEF WaitDone

\* releaseWaiter: the call goes on while somebody else waits for it, and is
\* abandoned by the last one.
LEMMA ReleaseWaiterStep ==
    ASSUME IInv, NEW c \in Callers, ReleaseWaiter(c)
    PROVE  Structure'
<1> DEFINE k == key[c]
<1>0. PICK i \in Calls : i = joined[c]
  BY DEF ReleaseWaiter, IInv, CallersConsistent, CallerConsistent, Waiting
<1>1. /\ Waiting(c) /\ ctx[c] = "done" /\ k \in Keys /\ calls[i].key = k
      /\ ~calls[i].abandoned /\ calls[i].stage # "none"
      /\ Completed(i) \/ inflight[k] = i
      /\ Return(c, Canceled) /\ UNCHANGED <<ctx, key>>
  BY <1>0 DEF ReleaseWaiter, IInv, CallersConsistent, CallerConsistent, Waiting
<1>2. CASE Completed(i)
  BY <1>0, <1>1, <1>2, LeaveCompletedStep DEF ReleaseWaiter
<1>3. CASE ~Completed(i)
  <2> DEFINE last == calls[i].waiters - 1 <= 0
  <2>1. inflight[k] = i /\ Counted(k, i)
    BY <1>1, <1>3 DEF IInv, WaitersCounted, Counted
  <2>2. /\ calls' = [calls EXCEPT ![i].waiters = @ - 1, ![i].abandoned = last]
        /\ inflight' = IF last THEN [inflight EXCEPT ![k] = NoCall] ELSE inflight
    BY <1>0, <1>1, <1>3, <2>1 DEF ReleaseWaiter
  <2>3. calls[i] \in CallObjects
    BY DEF IInv, TypeOK
  <2>4. /\ calls'[i].waiters = calls[i].waiters - 1
        /\ calls'[i].abandoned = last
        /\ calls'[i].stage = calls[i].stage /\ calls'[i].key = calls[i].key
        /\ calls'[i].result = calls[i].result
        /\ \A j \in Calls \ {i} : calls'[j] = calls[j]
    BY <2>2, <2>3 DEF IInv, TypeOK, CallObjects
  <2>5. /\ c \in Joiners(i) /\ Joiners(i)' = Joiners(i) \ {c}
        /\ \A j \in Calls \ {i} : Joiners(j)' = Joiners(j)
    BY <1>0, <1>1, ReturnJoiners DEF IInv, Joiners
  <2>6. Cardinality(Joiners(i)') = Cardinality(Joiners(i)) - 1
    BY <2>5, JoinersFinite, FS_RemoveElement
  <2>7. last => Joiners(i) \ {c} = {}
    <3>1. last => Cardinality(Joiners(i) \ {c}) = 0
      BY <2>1, <2>3, <2>5, <2>6 DEF Counted, CallObjects
    <3>2. IsFiniteSet(Joiners(i) \ {c})
      BY JoinersFinite, FS_Subset
    <3> QED
      BY <3>1, <3>2, FS_EmptySet
  <2>8. \A q \in Keys \ {k} : inflight'[q] = inflight[q] /\ inflight[q] # i
    BY <1>1, <2>1, <2>2 DEF IInv, TypeOK, WaitersCounted
  <2>9. inflight'[k] = IF last THEN NoCall ELSE i
    BY <1>1, <2>1, <2>2 DEF IInv, TypeOK
  <2>10. WaitersCounted'
    <3> SUFFICES ASSUME NEW q \in Keys, NEW j \in Calls, inflight'[q] = j
                 PROVE  Counted(q, j)'
      BY DEF WaitersCounted, Counted
    <3>1. CASE q = k
      BY <2>1, <2>3, <2>4, <2>6, <2>9, <3>1, CallsAssumption DEF Counted, Running, CallObjects
    <3>2. CASE q # k
      <4>1. inflight[q] = j /\ j # i /\ Counted(q, j)
        BY <2>8, <3>2 DEF IInv, WaitersCounted, Counted
      <4> QED
        BY <2>4, <2>5, <4>1 DEF Counted, Running
    <3> QED
      BY <3>1, <3>2
  <2>11. CallersConsistent'
    <3> SUFFICES ASSUME NEW d \in Callers
                 PROVE  CallerConsistent(d)'
      BY DEF CallersConsistent
    <3>1. CASE d = c
      BY <1>1, <3>1 DEF IInv, TypeOK, Return, CallerConsistent, Waiting
    <3>2. CASE d # c
      <4>1. /\ pc'[d] = pc[d] /\ joined'[d] = joined[d]
            /\ CallerConsistent(d)
        BY <1>1, <3>2 DEF IInv, TypeOK, Return, CallersConsistent
      <4>2. CASE ~Waiting(d)
        BY <1>1, <4>1, <4>2 DEF CallerConsistent, Waiting
      <4>3. CASE Waiting(d) /\ joined[d] = i
        <5>1. ~last /\ key[d] = k
          BY <1>1, <2>7, <3>2, <4>1, <4>3 DEF CallerConsistent, Joiners
        <5> QED
          BY <1>1, <2>4, <2>9, <4>1, <4>3, <5>1 DEF CallerConsistent, Waiting, Completed
      <4>4. CASE Waiting(d) /\ joined[d] # i
        <5>1. joined[d] \in Calls /\ calls'[joined[d]] = calls[joined[d]]
          BY <2>4, <4>1, <4>4 DEF CallerConsistent
        <5>2. Completed(joined[d]) \/ inflight'[key[d]] = joined[d]
          BY <2>1, <2>8, <4>1, <4>4 DEF CallerConsistent
        <5> QED
          BY <1>1, <4>1, <4>4, <5>1, <5>2 DEF CallerConsistent, Waiting, Completed
      <4> QED
        BY <4>2, <4>3, <4>4
    <3> QED
      BY <3>1, <3>2
  <2>12. CallsConsistent'
    <3> SUFFICES ASSUME NEW j \in Calls
                 PROVE  /\ calls'[j].stage # "none" => calls'[j].key \in Keys
                        /\ Running(j)' /\ ~calls'[j].abandoned => inflight'[calls'[j].key] = j
                        /\ calls'[j].result = Canceled => calls'[j].abandoned
      BY DEF CallsConsistent
    <3>1. CASE j = i
      BY <1>1, <2>4, <2>9, <3>1 DEF IInv, CallsConsistent
    <3>2. CASE j # i
      <4>1. Running(j) /\ ~calls[j].abandoned => calls[j].key \in Keys \ {k}
        BY <2>1, <3>2 DEF IInv, CallsConsistent, Running
      <4> QED
        BY <2>4, <2>8, <3>2, <4>1 DEF IInv, CallsConsistent, Running
    <3> QED
      BY <3>1, <3>2
  <2>13. NoForeignCancellation'
    BY <1>1 DEF IInv, TypeOK, NoForeignCancellation, Return
  <2> QED
    BY <2>10, <2>11, <2>12, <2>13 DEF Structure
<1> QED
  BY <1>2, <1>3

\* requestToken: an answer reaches the call object and nothing else.
LEMMA RequestTokenStep ==
    ASSUME IInv, NEW i \in Calls, RequestToken(i)
    PROVE  Structure'
<1>1. PICK r : RequestReturns(i, r) /\ (r = Canceled => calls[i].abandoned)
  <2>1. calls[i].key \in Keys
    BY DEF IInv, RequestToken, CallsConsistent
  <2>2. Failed # Canceled
    BY DEF Failed, Canceled
  <2>3. \A w \in BOOLEAN, n \in ExpiresIns : Decoded(calls[i].key, w, n) # Canceled
    BY <2>1, DecodedType DEF IInv
  <2> QED
    BY <2>2, <2>3 DEF RequestToken, RequestCanceled
<1>2. calls[i].stage = "requesting" /\ UNCHANGED <<inflight, pc, ctx, key, joined, ret>>
  BY DEF RequestToken
<1>3. /\ calls'[i].stage = "returned" /\ calls'[i].result = r
      /\ calls'[i].key = calls[i].key /\ calls'[i].waiters = calls[i].waiters
      /\ calls'[i].abandoned = calls[i].abandoned
      /\ \A j \in Calls \ {i} : calls'[j] = calls[j]
  BY <1>1 DEF IInv, TypeOK, RequestReturns, CallObjects
<1>4. \A j : Joiners(j)' = Joiners(j)
  BY <1>2 DEF Joiners, Waiting
<1>5. WaitersCounted'
  BY <1>2, <1>3, <1>4 DEF IInv, WaitersCounted, Running
<1>6. CallersConsistent'
  <2> SUFFICES ASSUME NEW d \in Callers
               PROVE  CallerConsistent(d)'
    BY DEF CallersConsistent
  <2>1. CallerConsistent(d)
    BY DEF IInv, CallersConsistent
  <2>2. CASE joined[d] = i
    BY <1>2, <1>3, <2>1, <2>2 DEF CallerConsistent, Waiting, Completed
  <2>3. CASE joined[d] # i
    BY <1>2, <1>3, <2>1, <2>3 DEF CallerConsistent, Waiting, Completed
  <2> QED
    BY <2>2, <2>3
<1>7. CallsConsistent'
  BY <1>1, <1>2, <1>3 DEF IInv, CallsConsistent, Running
<1>8. NoForeignCancellation'
  BY <1>2 DEF IInv, NoForeignCancellation
<1> QED
  BY <1>5, <1>6, <1>7, <1>8 DEF Structure

\* runCall: only the published call leaves the table, and nobody else's waiters
\* notice.
LEMMA FinishCallStep ==
    ASSUME IInv, NEW i \in Calls, FinishCall(i)
    PROVE  Structure'
<1> DEFINE k == calls[i].key
<1>1. /\ calls[i].stage = "returned" /\ k \in Keys
      /\ UNCHANGED <<pc, ctx, key, joined, ret>>
  BY DEF FinishCall, IInv, CallsConsistent
<1>2. /\ calls'[i].stage = "done" /\ calls'[i].result = calls[i].result
      /\ calls'[i].key = k /\ calls'[i].waiters = calls[i].waiters
      /\ calls'[i].abandoned = calls[i].abandoned
      /\ \A j \in Calls \ {i} : calls'[j] = calls[j]
  BY DEF FinishCall, IInv, TypeOK, CallObjects
<1>3. \A j : Joiners(j)' = Joiners(j)
  BY <1>1 DEF Joiners, Waiting
<1>4. /\ inflight'[k] # i
      /\ \A q \in Keys : inflight[q] # i => inflight'[q] = inflight[q]
      /\ \A q \in Keys, j \in Calls : inflight'[q] = j => inflight[q] = j /\ j # i
  <2>1. \A q \in Keys : inflight[q] = i => q = k
    BY DEF IInv, WaitersCounted
  <2>2. inflight' = IF inflight[k] = i THEN [inflight EXCEPT ![k] = NoCall] ELSE inflight
    BY DEF FinishCall
  <2> QED
    BY <1>1, <2>1, <2>2, CallsAssumption DEF IInv, TypeOK
<1>5. WaitersCounted'
  BY <1>2, <1>3, <1>4 DEF IInv, WaitersCounted, Running
<1>6. CallersConsistent'
  <2> SUFFICES ASSUME NEW d \in Callers
               PROVE  CallerConsistent(d)'
    BY DEF CallersConsistent
  <2>1. CallerConsistent(d)
    BY DEF IInv, CallersConsistent
  <2>2. CASE joined[d] = i
    BY <1>1, <1>2, <2>1, <2>2 DEF CallerConsistent, Waiting, Completed
  <2>3. CASE joined[d] # i
    BY <1>1, <1>2, <1>4, <2>1, <2>3 DEF CallerConsistent, Waiting, Completed
  <2> QED
    BY <2>2, <2>3
<1>7. CallsConsistent'
  BY <1>1, <1>2, <1>4 DEF IInv, CallsConsistent, Running
<1>8. NoForeignCancellation'
  BY <1>1 DEF IInv, NoForeignCancellation
<1> QED
  BY <1>5, <1>6, <1>7, <1>8 DEF Structure

\* Every step keeps the inductive invariant.
LEMMA NextIInv ==
    ASSUME IInv, [Next]_vars
    PROVE  IInv'
<1>0. TypeOK'
  BY TypeStep
<1> SUFFICES Structure'
  BY <1>0 DEF IInv, Structure
<1>1. ASSUME NEW c \in Callers, NEW r \in Requests, RejectTarget(c, r)
      PROVE  Structure'
  <2>1. ~Waiting(c) /\ Misused # Canceled
    BY <1>1 DEF RejectTarget, Waiting, Misused, Canceled
  <2> QED
    BY <1>0, <1>1, <2>1, QuietStep DEF RejectTarget, Return, IInv, TypeOK, Waiting
<1>2. ASSUME NEW c \in Callers, NEW r \in Requests, NEW x \in {"nil", "live", "done"},
             Lookup(c, r, x)
      PROVE  Structure'
  <2>1. /\ ~Waiting(c) /\ NoResult # Canceled /\ joined[c] = NoCall
        /\ \A t : Token(t) # Canceled
    BY <1>2 DEF Lookup, Waiting, NoResult, Token, Canceled, IInv, CallersConsistent,
                CallerConsistent
  <2> QED
    BY <1>0, <1>2, <2>1, QuietStep DEF Lookup, Return, IInv, TypeOK, Waiting
<1>3. ASSUME NEW c \in Callers, CheckContext(c)
      PROVE  Structure'
  <2>1. /\ ~Waiting(c) /\ Misused # Canceled /\ joined[c] = NoCall /\ key[c] \in Keys
        /\ (ret[c] = Canceled => ctx[c] = "done")
    BY <1>3 DEF CheckContext, Waiting, Misused, Canceled, IInv, CallersConsistent,
                CallerConsistent, NoForeignCancellation
  <2> QED
    BY <1>0, <1>3, <2>1, QuietStep DEF CheckContext, Return, IInv, TypeOK, Waiting
<1>4. ASSUME NEW c \in Callers, JoinOrStartCall(c) \/ WaitDone(c) \/ ReleaseWaiter(c)
      PROVE  Structure'
  BY <1>0, <1>4, JoinOrStartCallStep, WaitDoneStep, ReleaseWaiterStep
<1>5. ASSUME NEW c \in Callers, WaitCanceled(c) \/ CancelContext(c)
      PROVE  Structure'
  <2>1. /\ UNCHANGED <<calls, inflight, key, joined, ret>>
        /\ \A d \in Callers : /\ Waiting(d)' <=> Waiting(d)
                              /\ ctx[d] = "done" => ctx'[d] = "done"
                              /\ pc'[d] = "release" => pc[d] = "release" \/ ctx[d] = "done"
                              /\ pc'[d] \in {"check", "join"} => pc'[d] = pc[d]
    BY <1>5 DEF WaitCanceled, CancelContext, IInv, TypeOK, Waiting
  <2>2. \A i : Joiners(i)' = Joiners(i)
    BY <2>1 DEF Joiners
  <2>3. WaitersCounted'
    BY <2>1, <2>2 DEF IInv, WaitersCounted, Running
  <2>4. CallersConsistent' /\ CallsConsistent' /\ NoForeignCancellation'
    BY <2>1 DEF IInv, CallersConsistent, CallerConsistent, CallsConsistent, Completed, Running,
                NoForeignCancellation
  <2> QED
    BY <2>3, <2>4 DEF Structure
<1>6. ASSUME NEW i \in Calls, RequestToken(i) \/ FinishCall(i)
      PROVE  Structure'
  BY <1>6, RequestTokenStep, FinishCallStep
<1>7. CASE Tick \/ UNCHANGED vars
  BY <1>7 DEF Tick, vars, IInv, Structure, WaitersCounted, Joiners, Waiting, Running, Completed,
              CallersConsistent, CallerConsistent, CallsConsistent, NoForeignCancellation
<1> QED
  BY <1>1, <1>2, <1>3, <1>4, <1>5, <1>6, <1>7 DEF Next, Request, Continue

-----------------------------------------------------------------------------
\* The inductive invariant holds in every reachable state of the provider.
THEOREM Invariance == Spec => []IInv
BY InitIInv, NextIInv, PTL DEF Spec

\* Every variable of the provider keeps its type.
THEOREM TypeCorrect == Spec => []TypeOK
<1>1. IInv => TypeOK
  BY DEF IInv
<1> QED
  BY Invariance, <1>1, PTL

\* The waiters counter of a published call is the number of goroutines between
\* joinOrStartCall and the end of releaseWaiter.
THEOREM WaitersCorrect == Spec => []WaitersCounted
<1>1. IInv => WaitersCounted
  BY DEF IInv
<1> QED
  BY Invariance, <1>1, PTL

\* No goroutine waits for a call that can no longer reach it.
THEOREM NoOrphans == Spec => []NoOrphanedWaiter
<1>1. IInv => NoOrphanedWaiter
  BY DEF IInv, CallersConsistent, CallerConsistent, NoOrphanedWaiter
<1> QED
  BY Invariance, <1>1, PTL

\* At most one request per key is under way that is not canceled.
THEOREM OneAcquisition == Spec => []SingleFlight
<1>1. IInv => SingleFlight
  BY DEF IInv, CallsConsistent, SingleFlight, RequestCanceled
<1> QED
  BY Invariance, <1>1, PTL

\* A cancellation error reaches only a goroutine whose own context is done.
THEOREM OwnCancellation == Spec => []NoForeignCancellation
<1>1. IInv => NoForeignCancellation
  BY DEF IInv
<1> QED
  BY Invariance, <1>1, PTL

\* Only runCall takes a call from "returned" to "done".
LEMMA OnlyFinishCompletes ==
    ASSUME IInv, [Next]_vars, NEW i \in Calls,
           calls[i].stage = "returned", calls'[i].stage = "done"
    PROVE  FinishCall(i)
<1> USE DEF IInv, TypeOK, CallObjects
<1>1. ASSUME NEW c \in Callers, JoinOrStartCall(c)
      PROVE  FALSE
  <2>1. key[c] \in Keys
    BY <1>1 DEF JoinOrStartCall, CallersConsistent, CallerConsistent
  <2> QED
    BY <1>1, <2>1 DEF JoinOrStartCall, NewCall
<1>2. ASSUME NEW c \in Callers, ReleaseWaiter(c)
      PROVE  FALSE
  BY <1>2 DEF ReleaseWaiter
<1>3. ASSUME NEW c \in Callers,
             Request(c) \/ CheckContext(c) \/ WaitDone(c) \/ WaitCanceled(c) \/ CancelContext(c)
      PROVE  FALSE
  BY <1>3 DEF Request, RejectTarget, Lookup, CheckContext, WaitDone, WaitCanceled, CancelContext
<1>4. ASSUME NEW j \in Calls, RequestToken(j)
      PROVE  FALSE
  BY <1>4 DEF RequestToken, RequestReturns
<1>5. ASSUME NEW j \in Calls, FinishCall(j)
      PROVE  FinishCall(i)
  BY <1>5 DEF FinishCall
<1>6. CASE Tick \/ UNCHANGED vars
  BY <1>6 DEF Tick, vars
<1> QED
  BY <1>1, <1>2, <1>3, <1>4, <1>5, <1>6 DEF Next, Continue

\* The end of an abandoned request changes neither the cache nor the table of
\* published calls.
THEOREM AbandonedHarmless == Spec => AbandonedLeavesNoTrace
<1>1. ASSUME IInv, [Next]_vars
      PROVE  [\A i \in Calls :
                (calls[i].abandoned /\ calls[i].stage = "returned" /\ calls'[i].stage = "done")
                   => UNCHANGED <<cache, inflight>>]_vars
  <2> SUFFICES ASSUME NEW i \in Calls, calls[i].abandoned,
                      calls[i].stage = "returned", calls'[i].stage = "done"
               PROVE  UNCHANGED <<cache, inflight>>
    OBVIOUS
  <2>1. FinishCall(i)
    BY <1>1, OnlyFinishCompletes
  <2>2. inflight[calls[i].key] # i
    BY <1>1, <2>1 DEF IInv, WaitersCounted, CallsConsistent, FinishCall
  <2> QED
    BY <2>1, <2>2 DEF FinishCall
<1> QED
  BY Invariance, <1>1, PTL DEF Spec, AbandonedLeavesNoTrace

-----------------------------------------------------------------------------
\* A token that was stamped at or before t and is fresh at t has not expired at
\* t, whatever time.Duration did to its lifetime: a lifetime that wrapped to a
\* negative duration is never fresh.
LEMMA FreshIsAlive ==
    ASSUME NEW token \in Tokens, NEW t \in Int, FreshAt(token, t),
           token.expiresAt <= t + Seconds(token.expiresIn)
    PROVE  token.expiresAt > t
<1>1. /\ token.expiresAt \in Int /\ token.expiresIn \in Int
      /\ Seconds(token.expiresIn) \in Int
  BY SecondsType DEF Tokens
<1>2. RefreshSkew \in Nat
  BY TimeAssumption
<1> QED
  BY <1>1, <1>2 DEF FreshAt, Tenth

\* Every token, in the cache or in a call object, belongs to the key it is filed
\* under and was stamped in the past.
Stamped(token, k) == /\ token.key = k
                     /\ token.expiresAt <= now + Seconds(token.expiresIn)

TokensStamped ==
    /\ \A k \in Keys : cache[k] # NoToken => Stamped(cache[k], k)
    /\ \A i \in Calls : calls[i].result.kind = "token" =>
                          Stamped(calls[i].result.token, calls[i].key)

\* Stamps stay in the past as the clock advances.
LEMMA StampedLater ==
    ASSUME TypeOK, now' \in Nat, now <= now', NEW token \in Tokens, NEW k, Stamped(token, k)
    PROVE  Stamped(token, k)'
<1>1. token.expiresAt \in Int /\ Seconds(token.expiresIn) \in Int
  BY SecondsType DEF Tokens
<1> QED
  BY <1>1 DEF TypeOK, Stamped, Seconds, Wrap

\* A result of kind "token" holds a token.
LEMMA ResultToken ==
    ASSUME TypeOK, NEW i \in Calls, calls[i].result.kind = "token"
    PROVE  calls[i].result.token \in Tokens
BY DEF TypeOK, CallObjects, Results, Failed, Canceled, Misused, NoResult

\* Initially there are no tokens, and every step keeps them stamped.
LEMMA InitStamped == Init => TokensStamped
BY DEF Init, TokensStamped, NoResult

LEMMA NextStamped ==
    ASSUME IInv, TokensStamped, [Next]_vars
    PROVE  TokensStamped'
<1>0. TypeOK /\ TypeOK'
  BY TypeStep DEF IInv
<1>1. now' \in Nat /\ now <= now'
  <2>1. Tick \/ now' = now
    BY DEF Next, Request, Continue, RejectTarget, Lookup, CheckContext, JoinOrStartCall, WaitDone,
           WaitCanceled, ReleaseWaiter, CancelContext, RequestToken, FinishCall, vars
  <2> QED
    BY <1>0, <2>1 DEF Tick, TypeOK
<1>2. ASSUME NEW k \in Keys, cache[k] # NoToken
      PROVE  Stamped(cache[k], k) /\ cache[k] \in Tokens
  BY <1>0, <1>2 DEF TokensStamped, TypeOK
<1>3. ASSUME NEW i \in Calls, calls[i].result.kind = "token"
      PROVE  Stamped(calls[i].result.token, calls[i].key) /\ calls[i].result.token \in Tokens
  BY <1>0, <1>3, ResultToken DEF TokensStamped
<1>4. ASSUME NEW k \in Keys, cache'[k] # NoToken,
             cache'[k] = cache[k]
               \/ \E i \in Calls : /\ calls[i].key = k /\ calls[i].result.kind = "token"
                                   /\ cache'[k] = calls[i].result.token
      PROVE  Stamped(cache[k], k)'
  <2>1. PICK token \in Tokens : cache'[k] = token /\ Stamped(token, k)
    BY <1>2, <1>3, <1>4
  <2>2. Stamped(token, k)'
    BY <1>0, <1>1, <2>1, StampedLater
  <2> QED
    BY <2>1, <2>2 DEF Stamped
<1>5. ASSUME NEW i \in Calls, calls'[i].result.kind = "token",
             calls'[i].result = calls[i].result, calls'[i].key = calls[i].key
      PROVE  Stamped(calls[i].result.token, calls[i].key)'
  <2>1. PICK token \in Tokens : calls[i].result.token = token /\ Stamped(token, calls[i].key)
    BY <1>3, <1>5
  <2>2. PICK k : k = calls[i].key
    OBVIOUS
  <2>3. Stamped(token, k)'
    BY <1>0, <1>1, <2>1, <2>2, StampedLater
  <2> QED
    BY <1>5, <2>1, <2>2, <2>3 DEF Stamped
<1>6. ASSUME NEW k \in Keys, cache'[k] # NoToken
      PROVE  \/ cache'[k] = cache[k]
             \/ \E i \in Calls : /\ calls[i].key = k /\ calls[i].result.kind = "token"
                                 /\ cache'[k] = calls[i].result.token
  <2>1. CASE cache' = PurgeStale(now) \/ cache' = cache
    BY <1>6, <2>1 DEF PurgeStale
  <2>2. ASSUME NEW i \in Calls, FinishCall(i)
        PROVE  \/ cache'[k] = cache[k]
               \/ /\ calls[i].key = k /\ calls[i].result.kind = "token"
                  /\ cache'[k] = calls[i].result.token
    BY <1>0, <2>2 DEF FinishCall, TypeOK
  <2>3. \/ cache' = PurgeStale(now) \/ cache' = cache
        \/ \E i \in Calls : FinishCall(i)
    BY DEF Next, Request, Continue, RejectTarget, Lookup, CheckContext, JoinOrStartCall, WaitDone,
           WaitCanceled, ReleaseWaiter, CancelContext, RequestToken, Tick, vars
  <2> QED
    BY <2>1, <2>2, <2>3
<1>7. ASSUME NEW i \in Calls, calls'[i].result.kind = "token"
      PROVE  Stamped(calls[i].result.token, calls[i].key)'
  <2> USE <1>0 DEF TypeOK, CallObjects
  <2>1. ASSUME NEW c \in Callers, JoinOrStartCall(c)
        PROVE  calls'[i].result = calls[i].result /\ calls'[i].key = calls[i].key
    <3>1. key[c] \in Keys
      BY <2>1 DEF JoinOrStartCall, IInv, CallersConsistent, CallerConsistent
    <3> QED
      BY <1>7, <2>1, <3>1 DEF JoinOrStartCall, NewCall, NoResult
  <2>2. ASSUME NEW c \in Callers, ReleaseWaiter(c)
        PROVE  calls'[i].result = calls[i].result /\ calls'[i].key = calls[i].key
    BY <2>2 DEF ReleaseWaiter
  <2>3. ASSUME NEW j \in Calls, FinishCall(j)
        PROVE  calls'[i].result = calls[i].result /\ calls'[i].key = calls[i].key
    BY <2>3 DEF FinishCall
  <2>4. ASSUME NEW j \in Calls, RequestToken(j), j # i
        PROVE  calls'[i].result = calls[i].result /\ calls'[i].key = calls[i].key
    BY <2>4 DEF RequestToken, RequestReturns
  <2>5. ASSUME RequestToken(i)
        PROVE  Stamped(calls[i].result.token, calls[i].key)'
    <3>1. calls[i].key \in Keys /\ now' = now
      BY <2>5 DEF RequestToken, IInv, CallsConsistent
    <3>2. PICK n \in ExpiresIns, w \in BOOLEAN :
             RequestReturns(i, Decoded(calls[i].key, w, n)) /\ Decoded(calls[i].key, w, n) # Failed
      BY <1>7, <2>5 DEF RequestToken, RequestReturns, Failed, Canceled
    <3>3. Decoded(calls[i].key, w, n) =
            Token([key |-> calls[i].key, expiresIn |-> n, expiresAt |-> now + Seconds(n)])
      BY <3>2 DEF Decoded
    <3>4. /\ calls'[i].result.token.key = calls[i].key
          /\ calls'[i].result.token.expiresIn = n
          /\ calls'[i].result.token.expiresAt = now + Seconds(n)
          /\ calls'[i].key = calls[i].key
      BY <3>2, <3>3 DEF RequestReturns, Token
    <3>5. Seconds(n) \in Int
      BY SecondsType, TimeAssumption
    <3> QED
      BY <3>1, <3>4, <3>5 DEF Stamped, Seconds, Wrap
  <2>6. \/ calls' = calls
        \/ \E c \in Callers : JoinOrStartCall(c) \/ ReleaseWaiter(c)
        \/ \E j \in Calls : RequestToken(j) \/ FinishCall(j)
    BY DEF Next, Request, Continue, RejectTarget, Lookup, CheckContext, WaitDone,
           WaitCanceled, CancelContext, Tick, vars
  <2> HIDE <1>0 DEF TypeOK, CallObjects
  <2>7. ASSUME ~RequestToken(i)
        PROVE  calls'[i].result = calls[i].result /\ calls'[i].key = calls[i].key
    <3>1. CASE calls' = calls
      BY <3>1
    <3>2. CASE \E c \in Callers : JoinOrStartCall(c) \/ ReleaseWaiter(c)
      BY <2>1, <2>2, <3>2
    <3>3. CASE \E j \in Calls : RequestToken(j) \/ FinishCall(j)
      BY <2>3, <2>4, <2>7, <3>3
    <3> QED
      BY <2>6, <3>1, <3>2, <3>3
  <2> QED
    BY <1>5, <1>7, <2>5, <2>7
<1> QED
  BY <1>4, <1>6, <1>7 DEF TokensStamped

\* A token handed out of the cache belongs to the caller's key and has not
\* expired at that instant, for every expires_in and every refresh skew.
THEOREM FreshServed == Spec => ServedBeforeExpiry
<1>1. ASSUME IInv, TokensStamped, NEW k \in Keys, Servable(k) # NoToken
      PROVE  Alive(Servable(k), k)
  <2>1. /\ Servable(k) = cache[k] /\ cache[k] \in Tokens /\ FreshAt(cache[k], now)
    BY <1>1, PurgeType DEF Servable, IInv, TypeOK
  <2>2. Stamped(cache[k], k) /\ now \in Int
    BY <1>1, <2>1 DEF TokensStamped, IInv, TypeOK
  <2>3. cache[k].expiresAt > now
    BY <2>1, <2>2, FreshIsAlive DEF Stamped
  <2> QED
    BY <2>1, <2>2, <2>3 DEF Alive, Stamped
<1>2. ASSUME IInv, TokensStamped, [Next]_vars,
             NEW c \in Callers, pc[c] \in {"idle", "join"},
             ret'[c] # ret[c], ret'[c].kind = "token"
      PROVE  Alive(ret'[c].token, key'[c])
  <2> USE <1>2 DEF IInv, TypeOK
  <2>1. PICK k \in Keys : /\ key'[c] = k
                          /\ PurgeStale(now)[k] # NoToken
                          /\ ret'[c] = Token(PurgeStale(now)[k])
    <3>1. ASSUME NEW r \in Requests, RejectTarget(c, r)
          PROVE  FALSE
      BY <3>1 DEF RejectTarget, Return, Misused
    <3>2. ASSUME NEW r \in Requests, NEW x, Lookup(c, r, x)
          PROVE  \E k \in Keys : /\ key'[c] = k
                                 /\ PurgeStale(now)[k] # NoToken
                                 /\ ret'[c] = Token(PurgeStale(now)[k])
      BY <3>2 DEF Lookup, Return, NoResult
    <3>3. ASSUME JoinOrStartCall(c)
          PROVE  \E k \in Keys : /\ key'[c] = k
                                 /\ PurgeStale(now)[k] # NoToken
                                 /\ ret'[c] = Token(PurgeStale(now)[k])
      BY <3>3 DEF JoinOrStartCall, Return, CallersConsistent, CallerConsistent
    <3>4. \/ \E r \in Requests : RejectTarget(c, r)
                               \/ \E x \in {"nil", "live", "done"} : Lookup(c, r, x)
          \/ JoinOrStartCall(c)
      <4>1. ASSUME NEW d \in Callers, d # c, Request(d) \/ Continue(d)
            PROVE  FALSE
        BY <4>1 DEF Request, RejectTarget, Lookup, Continue, CheckContext, JoinOrStartCall,
                    WaitDone, WaitCanceled, ReleaseWaiter, Return
      <4>2. ASSUME CheckContext(c) \/ WaitDone(c) \/ WaitCanceled(c) \/ ReleaseWaiter(c)
            PROVE  FALSE
        BY <4>2 DEF CheckContext, WaitDone, WaitCanceled, ReleaseWaiter
      <4>3. ASSUME \/ \E d \in Callers : CancelContext(d)
                   \/ \E i \in Calls : RequestToken(i) \/ FinishCall(i)
                   \/ Tick
                   \/ UNCHANGED vars
            PROVE  FALSE
        BY <4>3 DEF CancelContext, RequestToken, FinishCall, Tick, vars
      <4> QED
        BY <4>1, <4>2, <4>3 DEF Next, Request, Continue
    <3> QED
      BY <3>1, <3>2, <3>3, <3>4
  <2>2. Alive(PurgeStale(now)[k], k)
    BY <1>1, <1>2, <2>1 DEF Servable
  <2> QED
    BY <2>1, <2>2 DEF Token
<1>3. IInv /\ TokensStamped /\ [Next]_vars =>
        [/\ \A k \in Keys : Servable(k) # NoToken => Alive(Servable(k), k)
         /\ \A c \in Callers :
              (/\ pc[c] \in {"idle", "join"}
               /\ ret'[c] # ret[c]
               /\ ret'[c].kind = "token") => Alive(ret'[c].token, key'[c])]_vars
  BY <1>1, <1>2
<1>4. IInv /\ TokensStamped /\ [Next]_vars => TokensStamped'
  BY NextStamped
<1>5. Init => TokensStamped
  BY InitStamped
<1> QED
  BY Invariance, <1>3, <1>4, <1>5, PTL DEF Spec, ServedBeforeExpiry
-----------------------------------------------------------------------------
(***************************************************************************)
(* TokenCache implements TokenSource: the refinement mapping is Abstract  *)
(* of TokenCache, the invariant is IInv with what completed calls hold.    *)
(***************************************************************************)

\* A request that has returned holds an error, or a token for its own key.
Answered(i) ==
    \/ calls[i].result = Failed
    \/ calls[i].result = Canceled /\ calls[i].abandoned
    \/ \E t \in Tokens : /\ calls[i].result = Token(t)
                         /\ t.key = calls[i].key
                         /\ t.expiresIn > 0

AnswersConsistent == \A i \in Calls : calls[i].stage \in {"returned", "done"} => Answered(i)

RInv == IInv /\ AnswersConsistent

-----------------------------------------------------------------------------
\* The vocabulary of TokenSource is that of TokenCache.
LEMMA SameVocabulary ==
    /\ Abstract!Keys = Keys
    /\ Abstract!NoKey = NoKey
    /\ Abstract!Tokens = Tokens
    /\ Abstract!NoResult = NoResult
    /\ Abstract!Failed = Failed
    /\ Abstract!Canceled = Canceled
    /\ Abstract!Misused = Misused
    /\ \A t : Abstract!Token(t) = Token(t)
    /\ \A t, n : Abstract!FreshAt(t, n) = FreshAt(t, n)
BY DEF Abstract!Keys, Keys, Abstract!Target, Target, Abstract!NoKey, NoKey, Abstract!Tokens, Tokens,
       Abstract!NoResult, NoResult, Abstract!Failed, Failed, Abstract!Canceled, Canceled,
       Abstract!Misused, Misused, Abstract!Token, Token, Abstract!FreshAt, FreshAt,
       Abstract!Seconds, Seconds, Abstract!Wrap, Wrap, Abstract!Tenth, Tenth

\* Only requestToken stores a result, and what it stores is an answer.
LEMMA DecodedAnswer ==
    ASSUME TypeOK, NEW k \in Keys, NEW w \in BOOLEAN, NEW n \in ExpiresIns
    PROVE  \/ Decoded(k, w, n) = Failed
           \/ \E t \in Tokens : Decoded(k, w, n) = Token(t) /\ t.key = k /\ t.expiresIn > 0
<1> DEFINE t == [key |-> k, expiresIn |-> n, expiresAt |-> now + Seconds(n)]
<1>1. n \in Int /\ now + Seconds(n) \in Int
  BY SecondsType, TimeAssumption DEF TypeOK
<1>2. t \in Tokens /\ t.key = k /\ t.expiresIn = n
  BY <1>1 DEF Tokens
<1>3. CASE w /\ n > 0
  <2>1. Decoded(k, w, n) = Token(t)
    BY <1>3 DEF Decoded
  <2> QED
    BY <1>2, <1>3, <2>1
<1>4. CASE ~(w /\ n > 0)
  BY <1>4 DEF Decoded
<1> QED
  BY <1>3, <1>4

\* The results of finished requests stay answers.
LEMMA NextAnswers ==
    ASSUME RInv, [Next]_vars
    PROVE  AnswersConsistent'
<1> SUFFICES ASSUME NEW i \in Calls, calls'[i].stage \in {"returned", "done"}
             PROVE  Answered(i)'
  BY DEF AnswersConsistent
<1> USE DEF RInv, IInv
<1>0. calls[i] \in CallObjects
  BY DEF TypeOK
<1>1. ASSUME NEW c \in Callers, JoinOrStartCall(c)
      PROVE  /\ calls'[i].result = calls[i].result /\ calls'[i].key = calls[i].key
             /\ calls'[i].stage = calls[i].stage /\ calls'[i].abandoned = calls[i].abandoned
  <2>1. key[c] \in Keys
    BY <1>1 DEF JoinOrStartCall, CallersConsistent, CallerConsistent
  <2> QED
    BY <1>0, <1>1, <2>1 DEF JoinOrStartCall, NewCall, TypeOK, CallObjects
<1>2. ASSUME NEW c \in Callers, ReleaseWaiter(c)
      PROVE  /\ calls'[i].result = calls[i].result /\ calls'[i].key = calls[i].key
             /\ calls'[i].stage = calls[i].stage
             /\ calls[i].abandoned => calls'[i].abandoned
  BY <1>0, <1>2 DEF ReleaseWaiter, TypeOK, CallObjects
<1>3. ASSUME NEW j \in Calls, FinishCall(j)
      PROVE  /\ calls'[i].result = calls[i].result /\ calls'[i].key = calls[i].key
             /\ calls[i].stage \in {"returned", "done"}
             /\ calls'[i].abandoned = calls[i].abandoned
  BY <1>0, <1>3 DEF FinishCall, TypeOK, CallObjects
<1>4. ASSUME NEW j \in Calls, RequestToken(j)
      PROVE  Answered(i)'
  <2>1. CASE j = i
    <3>0. calls[i].key \in Keys
      BY <1>4, <2>1 DEF RequestToken, CallsConsistent
    <3>1. PICK r : /\ RequestReturns(i, r)
                   /\ \/ r = Failed
                      \/ r = Canceled /\ calls[i].abandoned
                      \/ \E t \in Tokens : r = Token(t) /\ t.key = calls[i].key /\ t.expiresIn > 0
      BY <1>4, <2>1, <3>0, DecodedAnswer DEF RequestToken, RequestCanceled
    <3>2. /\ calls'[i].result = r /\ calls'[i].key = calls[i].key
          /\ calls'[i].abandoned = calls[i].abandoned
      BY <1>0, <3>1 DEF RequestReturns, TypeOK, CallObjects
    <3> QED
      BY <3>1, <3>2 DEF Answered, Failed, Canceled, Token
  <2>2. CASE j # i
    <3>1. calls'[i] = calls[i]
      BY <1>0, <1>4, <2>2 DEF RequestToken, RequestReturns, TypeOK
    <3> QED
      BY <3>1 DEF Answered, AnswersConsistent, Failed, Canceled, Token
  <2> QED
    BY <2>1, <2>2
<1>5. ASSUME calls' = calls
      PROVE  Answered(i)'
  BY <1>5 DEF Answered, AnswersConsistent, Failed, Canceled, Token
<1>6. \/ calls' = calls
      \/ \E c \in Callers : JoinOrStartCall(c) \/ ReleaseWaiter(c)
      \/ \E j \in Calls : RequestToken(j) \/ FinishCall(j)
  BY DEF Next, Request, Continue, RejectTarget, Lookup, CheckContext, WaitDone,
         WaitCanceled, CancelContext, Tick, vars
<1>7. ASSUME calls'[i].result = calls[i].result, calls'[i].key = calls[i].key,
             calls[i].stage \in {"returned", "done"},
             calls[i].abandoned => calls'[i].abandoned
      PROVE  Answered(i)'
  BY <1>7 DEF Answered, AnswersConsistent, Failed, Canceled, Token
<1> QED
  BY <1>1, <1>2, <1>3, <1>4, <1>5, <1>6, <1>7

-----------------------------------------------------------------------------
\* The goroutines that share an acquisition in TokenSource are those that wait
\* for the published call.
LEMMA Sharers ==
    ASSUME RInv, NEW c \in Callers
    PROVE  /\ (Waiting(c) /\ OutcomeFor(c) = NoResult)
                <=> (Waiting(c) /\ inflight[key[c]] = joined[c])
           /\ Waiting(c) => /\ key[c] \in Keys
                            /\ joined[c] \in Calls
                            /\ Completed(joined[c]) <=> inflight[key[c]] # joined[c]
<1>1. CASE ~Waiting(c)
  BY <1>1
<1>2. CASE Waiting(c)
  <2>1. /\ joined[c] \in Calls /\ key[c] \in Keys
        /\ Completed(joined[c]) \/ inflight[key[c]] = joined[c]
    BY <1>2 DEF RInv, IInv, CallersConsistent, CallerConsistent
  <2>2. inflight[key[c]] = joined[c] => ~Completed(joined[c])
    BY <2>1 DEF RInv, IInv, WaitersCounted, Running, Completed
  <2>3. Completed(joined[c]) => calls[joined[c]].result # NoResult
    <3> SUFFICES ASSUME Completed(joined[c])
                 PROVE  calls[joined[c]].result # NoResult
      OBVIOUS
    <3>1. Answered(joined[c])
      BY <2>1 DEF RInv, AnswersConsistent, Completed
    <3>2. CASE calls[joined[c]].result \in {Failed, Canceled}
      BY <3>2 DEF Failed, Canceled, NoResult
    <3>3. CASE \E t \in Tokens : calls[joined[c]].result = Token(t)
      BY <3>3 DEF Token, NoResult
    <3> QED
      BY <3>1, <3>2, <3>3 DEF Answered
  <2> QED
    BY <1>2, <2>1, <2>2, <2>3 DEF OutcomeFor
<1> QED
  BY <1>1, <1>2

\* The set of sharers that TokenSource speaks of.
LEMMA SharingSet ==
    ASSUME RInv, NEW k \in Keys
    PROVE  Abstract!Sharing(k) =
              {c \in Callers : Waiting(c) /\ key[c] = k /\ inflight[k] = joined[c]}
<1>1. Abstract!Sharing(k) =
        {c \in Callers : PhaseOf(c) = "sharing" /\ key[c] = k /\ OutcomeFor(c) = NoResult}
  BY SameVocabulary DEF Abstract!Sharing
<1>2. \A c \in Callers : PhaseOf(c) = "sharing" <=> Waiting(c)
  BY DEF PhaseOf, Waiting
<1> QED
  BY <1>1, <1>2, Sharers

\* A goroutine that does not move, and whose completed call keeps its result,
\* stays where TokenSource sees it.
LEMMA Unmoved ==
    ASSUME NEW c \in Callers, pc'[c] = pc[c], joined'[c] = joined[c],
           Waiting(c) => /\ Completed(joined[c])' <=> Completed(joined[c])
                         /\ Completed(joined[c]) => calls'[joined[c]].result = calls[joined[c]].result
    PROVE  PhaseOf(c)' = PhaseOf(c) /\ OutcomeFor(c)' = OutcomeFor(c)
BY DEF PhaseOf, OutcomeFor, Waiting, Completed

\* While no call changes its stage or result, only goroutines that move change.
LEMMA OneMoves ==
    ASSUME TypeOK, NEW c \in Callers, NEW p, NEW o,
           PhaseOf(c)' = p, OutcomeFor(c)' = o,
           \A d \in Callers \ {c} : PhaseOf(d)' = PhaseOf(d) /\ OutcomeFor(d)' = OutcomeFor(d)
    PROVE  /\ [d \in Callers |-> PhaseOf(d)]' = [[d \in Callers |-> PhaseOf(d)] EXCEPT ![c] = p]
           /\ [d \in Callers |-> OutcomeFor(d)]' =
                 [[d \in Callers |-> OutcomeFor(d)] EXCEPT ![c] = o]
OBVIOUS

\* A goroutine that returns does in TokenSource what Return there says.
LEMMA ReturnMaps ==
    ASSUME RInv, NEW c \in Callers, NEW r, Return(c, r),
           \A d \in Callers \ {c} : PhaseOf(d)' = PhaseOf(d) /\ OutcomeFor(d)' = OutcomeFor(d)
    PROVE  Abstract!Return(c, r)
<1>1. PhaseOf(c)' = "idle" /\ OutcomeFor(c)' = NoResult
  BY DEF RInv, IInv, TypeOK, Return, PhaseOf, OutcomeFor, Waiting
<1>2. /\ [d \in Callers |-> PhaseOf(d)]' = [[d \in Callers |-> PhaseOf(d)] EXCEPT ![c] = "idle"]
      /\ [d \in Callers |-> OutcomeFor(d)]' =
            [[d \in Callers |-> OutcomeFor(d)] EXCEPT ![c] = NoResult]
  BY <1>1, OneMoves DEF RInv, IInv
<1>3. ret' = [ret EXCEPT ![c] = r]
  BY DEF Return
<1> QED
  BY <1>2, <1>3, SameVocabulary DEF Abstract!Return

\* The mapped view of a provider in which nobody moves.
LEMMA NobodyMoves ==
    ASSUME \A d \in Callers : PhaseOf(d)' = PhaseOf(d) /\ OutcomeFor(d)' = OutcomeFor(d)
    PROVE  /\ [d \in Callers |-> PhaseOf(d)]' = [d \in Callers |-> PhaseOf(d)]
           /\ [d \in Callers |-> OutcomeFor(d)]' = [d \in Callers |-> OutcomeFor(d)]
OBVIOUS

\* Purging drops what TokenSource allows to be dropped.
LEMMA PurgeMaps ==
    ASSUME RInv
    PROVE  /\ cache' = PurgeStale(now) => Abstract!DropStale
           /\ \A k \in Keys : /\ Abstract!HasFresh(k) <=> PurgeStale(now)[k] # NoToken
                              /\ PurgeStale(now)[k] # NoToken => PurgeStale(now)[k] = cache[k]
BY SameVocabulary DEF Abstract!DropStale, Abstract!HasFresh, PurgeStale

-----------------------------------------------------------------------------
(* One lemma per operation: what it is in TokenSource. *)

\* A goroutine that only looks at the cache or at its context moves alone.
LEMMA MovesAlone ==
    ASSUME NEW c \in Callers, calls' = calls,
           \A d \in Callers \ {c} : pc'[d] = pc[d] /\ joined'[d] = joined[d]
    PROVE  \A d \in Callers \ {c} : PhaseOf(d)' = PhaseOf(d) /\ OutcomeFor(d)' = OutcomeFor(d)
BY Unmoved DEF Completed

LEMMA RejectTargetMaps ==
    ASSUME RInv, NEW c \in Callers, NEW r \in Requests, RejectTarget(c, r)
    PROVE  Abstract!Refuse(c)
<1>1. \A d \in Callers \ {c} : PhaseOf(d)' = PhaseOf(d) /\ OutcomeFor(d)' = OutcomeFor(d)
  BY MovesAlone DEF RInv, IInv, TypeOK, RejectTarget, Return
<1>2. Abstract!Return(c, Misused)
  BY <1>1, ReturnMaps DEF RejectTarget
<1>3. PhaseOf(c) = "idle"
  BY DEF RejectTarget, PhaseOf
<1> QED
  BY <1>2, <1>3, SameVocabulary DEF Abstract!Refuse, RejectTarget

LEMMA LookupMaps ==
    ASSUME RInv, NEW c \in Callers, NEW r \in Requests, NEW x \in {"nil", "live", "done"},
           Lookup(c, r, x)
    PROVE  Abstract!Ask(c, Target(r), x)
<1> DEFINE k == Target(r)
<1>0. k \in Keys /\ PhaseOf(c) = "idle" /\ OutcomeFor(c) = NoResult
  BY DEF Lookup, PhaseOf, OutcomeFor, Waiting
<1>1. \A d \in Callers \ {c} : PhaseOf(d)' = PhaseOf(d) /\ OutcomeFor(d)' = OutcomeFor(d)
  BY MovesAlone DEF RInv, IInv, TypeOK, Lookup, Return
<1>2. Abstract!DropStale
  BY PurgeMaps DEF Lookup
<1>3. CASE PurgeStale(now)[k] # NoToken
  <2>1. Return(c, Token(PurgeStale(now)[k])) /\ PurgeStale(now)[k] = cache[k]
    BY <1>0, <1>3, PurgeMaps DEF Lookup
  <2>2. Abstract!Return(c, Token(cache[k]))
    BY <1>1, <2>1, ReturnMaps
  <2>3. Abstract!HasFresh(k)
    BY <1>0, <1>3, PurgeMaps
  <2> QED
    BY <1>0, <1>2, <2>2, <2>3, SameVocabulary DEF Abstract!Ask, Lookup
<1>4. CASE PurgeStale(now)[k] = NoToken
  <2>1. /\ pc' = [pc EXCEPT ![c] = "check"]
        /\ ret' = [ret EXCEPT ![c] = NoResult]
    BY <1>4 DEF Lookup
  <2>2. PhaseOf(c)' = "asking" /\ OutcomeFor(c)' = NoResult
    BY <2>1 DEF PhaseOf, OutcomeFor, Waiting, RInv, IInv, TypeOK
  <2>3. [d \in Callers |-> PhaseOf(d)]' = [[d \in Callers |-> PhaseOf(d)] EXCEPT ![c] = "asking"]
    BY <1>1, <2>2, OneMoves DEF RInv, IInv
  <2>4. [d \in Callers |-> OutcomeFor(d)]' = [d \in Callers |-> OutcomeFor(d)]
    BY <1>0, <1>1, <2>2
  <2>5. ~Abstract!HasFresh(k)
    BY <1>0, <1>4, PurgeMaps
  <2> QED
    BY <1>0, <1>2, <2>1, <2>3, <2>4, <2>5, SameVocabulary DEF Abstract!Ask, Lookup
<1> QED
  BY <1>3, <1>4

\* The tests of the context: a return, or a step TokenSource does not see.
LEMMA CheckContextMaps ==
    ASSUME RInv, NEW c \in Callers, CheckContext(c)
    PROVE  Abstract!Decline(c) \/ UNCHANGED Abstract!vars
<1>1. \A d \in Callers \ {c} : PhaseOf(d)' = PhaseOf(d) /\ OutcomeFor(d)' = OutcomeFor(d)
  BY MovesAlone DEF RInv, IInv, TypeOK, CheckContext, Return
<1>2. PhaseOf(c) = "asking" /\ OutcomeFor(c) = NoResult
  BY DEF CheckContext, PhaseOf, OutcomeFor, Waiting
<1>3. CASE ctx[c] = "nil" /\ Return(c, Misused)
  BY <1>1, <1>2, <1>3, ReturnMaps, SameVocabulary DEF Abstract!Decline, CheckContext
<1>4. CASE ctx[c] = "done" /\ Return(c, Canceled)
  BY <1>1, <1>2, <1>4, ReturnMaps, SameVocabulary DEF Abstract!Decline, CheckContext
<1>5. CASE pc' = [pc EXCEPT ![c] = "join"] /\ UNCHANGED <<joined, ret>>
  <2>1. PhaseOf(c)' = PhaseOf(c) /\ OutcomeFor(c)' = OutcomeFor(c)
    BY <1>2, <1>5 DEF PhaseOf, OutcomeFor, Waiting, RInv, IInv, TypeOK
  <2>2. \A d \in Callers : PhaseOf(d)' = PhaseOf(d) /\ OutcomeFor(d)' = OutcomeFor(d)
    BY <1>1, <2>1
  <2> QED
    BY <1>5, <2>2, NobodyMoves DEF Abstract!vars, CheckContext
<1> QED
  BY <1>3, <1>4, <1>5 DEF CheckContext

\* joinOrStartCall takes a token or shares the acquisition, the one under way if
\* there is one.
LEMMA JoinOrStartCallMaps ==
    ASSUME RInv, NEW c \in Callers, JoinOrStartCall(c)
    PROVE  Abstract!Share(c)
<1> DEFINE k == key[c]
<1>0. /\ k \in Keys /\ PhaseOf(c) = "asking" /\ OutcomeFor(c) = NoResult /\ ~Waiting(c)
      /\ Abstract!DropStale
  BY PurgeMaps DEF RInv, IInv, CallersConsistent, CallerConsistent, JoinOrStartCall,
                   PhaseOf, OutcomeFor, Waiting
<1>1. CASE PurgeStale(now)[k] # NoToken
  <2>1. /\ Return(c, Token(PurgeStale(now)[k])) /\ PurgeStale(now)[k] = cache[k]
        /\ UNCHANGED <<inflight, calls>>
    BY <1>0, <1>1, PurgeMaps DEF JoinOrStartCall
  <2>2. \A d \in Callers \ {c} : PhaseOf(d)' = PhaseOf(d) /\ OutcomeFor(d)' = OutcomeFor(d)
    BY <2>1, MovesAlone DEF RInv, IInv, TypeOK, Return
  <2>3. Abstract!Return(c, Token(cache[k]))
    BY <2>1, <2>2, ReturnMaps
  <2>4. Abstract!HasFresh(k)
    BY <1>0, <1>1, PurgeMaps
  <2> QED
    BY <1>0, <2>1, <2>3, <2>4, SameVocabulary DEF Abstract!Share, JoinOrStartCall
<1>2. CASE PurgeStale(now)[k] = NoToken
  <2>1. PICK i \in Calls :
          /\ joined' = [joined EXCEPT ![c] = i]
          /\ pc' = [pc EXCEPT ![c] = "wait"]
          /\ ret' = ret
          /\ inflight' = [inflight EXCEPT ![k] = i]
          /\ ~Completed(i)'
          /\ Completed(i) => \A d \in Callers : joined[d] # i
          /\ \A j \in Calls \ {i} : calls'[j] = calls[j]
    <3>1. CASE inflight[k] # NoCall
      <4>1. PICK i \in Calls : i = inflight[k]
        BY <1>0, <3>1 DEF RInv, IInv, TypeOK
      <4>2. Running(i) /\ calls[i] \in CallObjects
        BY <1>0, <4>1 DEF RInv, IInv, WaitersCounted, TypeOK
      <4>3. /\ calls' = [calls EXCEPT ![i].waiters = @ + 1]
            /\ joined' = [joined EXCEPT ![c] = i]
            /\ pc' = [pc EXCEPT ![c] = "wait"]
            /\ ret' = ret
            /\ inflight' = inflight
        BY <1>0, <1>2, <3>1, <4>1 DEF JoinOrStartCall
      <4>4. calls'[i].stage = calls[i].stage /\ \A j \in Calls \ {i} : calls'[j] = calls[j]
        BY <4>2, <4>3 DEF RInv, IInv, TypeOK, CallObjects
      <4>5. inflight' = [inflight EXCEPT ![k] = i]
        BY <1>0, <4>1, <4>3 DEF RInv, IInv, TypeOK
      <4> QED
        BY <4>2, <4>3, <4>4, <4>5 DEF Running, Completed
    <3>2. CASE inflight[k] = NoCall
      <4>1. PICK i \in Calls : /\ Garbage(i)
                               /\ calls' = [calls EXCEPT ![i] = NewCall(k)]
                               /\ inflight' = [inflight EXCEPT ![k] = i]
                               /\ joined' = [joined EXCEPT ![c] = i]
                               /\ pc' = [pc EXCEPT ![c] = "wait"]
                               /\ ret' = ret
        BY <1>0, <1>2, <3>2 DEF JoinOrStartCall
      <4>2. calls'[i].stage = "requesting" /\ \A j \in Calls \ {i} : calls'[j] = calls[j]
        BY <4>1 DEF NewCall, RInv, IInv, TypeOK
      <4> QED
        BY <4>1, <4>2 DEF Completed, Garbage
    <3> QED
      BY <3>1, <3>2
  <2>2. ASSUME NEW d \in Callers \ {c}
        PROVE  PhaseOf(d)' = PhaseOf(d) /\ OutcomeFor(d)' = OutcomeFor(d)
    <3>1. pc'[d] = pc[d] /\ joined'[d] = joined[d]
      BY <2>1 DEF RInv, IInv, TypeOK
    <3>2. ASSUME Waiting(d)
          PROVE  /\ Completed(joined[d])' <=> Completed(joined[d])
                 /\ Completed(joined[d]) => calls'[joined[d]].result = calls[joined[d]].result
      <4>1. joined[d] \in Calls
        BY <3>2, Sharers
      <4>2. CASE joined[d] = i
        BY <2>1, <3>1, <4>2 DEF Completed
      <4>3. CASE joined[d] # i
        BY <2>1, <3>1, <4>1, <4>3 DEF Completed
      <4> QED
        BY <4>2, <4>3
    <3> QED
      BY <3>1, <3>2, Unmoved
  <2>3. PhaseOf(c)' = "sharing" /\ OutcomeFor(c)' = NoResult
    BY <2>1 DEF PhaseOf, OutcomeFor, Waiting, Completed, RInv, IInv, TypeOK
  <2>4. /\ [d \in Callers |-> PhaseOf(d)]' = [[d \in Callers |-> PhaseOf(d)] EXCEPT ![c] = "sharing"]
        /\ [d \in Callers |-> OutcomeFor(d)]' = [d \in Callers |-> OutcomeFor(d)]
    BY <1>0, <2>2, <2>3
  <2>5. [q \in Keys |-> inflight[q] # NoCall]' =
          [[q \in Keys |-> inflight[q] # NoCall] EXCEPT ![k] = TRUE]
    BY <1>0, <2>1, CallsAssumption DEF RInv, IInv, TypeOK
  <2>6. ~Abstract!HasFresh(k)
    BY <1>0, <1>2, PurgeMaps
  <2> QED
    BY <1>0, <2>1, <2>4, <2>5, <2>6, SameVocabulary DEF Abstract!Share, JoinOrStartCall
<1> QED
  BY <1>1, <1>2

\* waitForCall collects the outcome.
LEMMA WaitDoneMaps ==
    ASSUME RInv, NEW c \in Callers, WaitDone(c)
    PROVE  Abstract!Collect(c)
<1>1. Waiting(c) /\ PhaseOf(c) = "sharing" /\ Completed(joined[c])
  BY DEF WaitDone, Waiting, PhaseOf
<1>2. OutcomeFor(c) # NoResult /\ OutcomeFor(c) = calls[joined[c]].result
  BY <1>1, Sharers DEF OutcomeFor
<1>3. \A d \in Callers \ {c} : PhaseOf(d)' = PhaseOf(d) /\ OutcomeFor(d)' = OutcomeFor(d)
  BY MovesAlone DEF RInv, IInv, TypeOK, WaitDone, Return
<1>4. Abstract!Return(c, OutcomeFor(c))
  BY <1>2, <1>3, ReturnMaps DEF WaitDone
<1> QED
  BY <1>1, <1>2, <1>4, SameVocabulary DEF Abstract!Collect, WaitDone

\* Leaving the select for releaseWaiter is not seen.
LEMMA WaitCanceledMaps ==
    ASSUME RInv, NEW c \in Callers, WaitCanceled(c)
    PROVE  UNCHANGED Abstract!vars
<1>1. \A d \in Callers \ {c} : PhaseOf(d)' = PhaseOf(d) /\ OutcomeFor(d)' = OutcomeFor(d)
  BY MovesAlone DEF RInv, IInv, TypeOK, WaitCanceled
<1>2. PhaseOf(c)' = PhaseOf(c) /\ OutcomeFor(c)' = OutcomeFor(c)
  BY DEF WaitCanceled, PhaseOf, OutcomeFor, Waiting, Completed, RInv, IInv, TypeOK
<1>3. \A d \in Callers : PhaseOf(d)' = PhaseOf(d) /\ OutcomeFor(d)' = OutcomeFor(d)
  BY <1>1, <1>2
<1> QED
  BY <1>3, NobodyMoves DEF Abstract!vars, WaitCanceled

\* releaseWaiter: the call is abandoned exactly when nobody else shares it.
LEMMA ReleaseWaiterMaps ==
    ASSUME RInv, NEW c \in Callers, ReleaseWaiter(c)
    PROVE  Abstract!Leave(c)
<1> DEFINE k == key[c]
           i == joined[c]
<1>0. /\ Waiting(c) /\ k \in Keys /\ i \in Calls /\ calls[i] \in CallObjects
      /\ ctx[c] = "done" /\ ~calls[i].abandoned /\ PhaseOf(c) = "sharing"
      /\ Return(c, Canceled)
  BY DEF ReleaseWaiter, Waiting, PhaseOf, RInv, IInv, TypeOK, CallersConsistent, CallerConsistent
<1>1. /\ \A j \in Calls : /\ calls'[j].stage = calls[j].stage
                          /\ calls'[j].result = calls[j].result
  BY <1>0 DEF ReleaseWaiter, RInv, IInv, TypeOK, CallObjects
<1>2. ASSUME NEW d \in Callers \ {c}
      PROVE  PhaseOf(d)' = PhaseOf(d) /\ OutcomeFor(d)' = OutcomeFor(d)
  <2>1. pc'[d] = pc[d] /\ joined'[d] = joined[d]
    BY <1>0 DEF Return, RInv, IInv, TypeOK
  <2>2. Waiting(d) => joined[d] \in Calls
    BY Sharers
  <2> QED
    BY <1>1, <2>1, <2>2, Unmoved DEF Completed
<1>3. Abstract!Return(c, Canceled)
  BY <1>0, <1>2, ReturnMaps
<1>4. CASE Completed(i)
  <2>1. UNCHANGED inflight /\ inflight[k] # i
    BY <1>0, <1>4, Sharers DEF ReleaseWaiter
  <2>2. c \notin Abstract!Sharing(k)
    BY <1>0, <2>1, SharingSet
  <2> QED
    BY <1>0, <1>3, <2>1, <2>2, SameVocabulary DEF Abstract!Leave, ReleaseWaiter
<1>5. CASE ~Completed(i)
  <2>1. inflight[k] = i
    BY <1>0, <1>5, Sharers
  <2>2. inflight' = IF calls[i].waiters - 1 <= 0
                    THEN [inflight EXCEPT ![k] = NoCall] ELSE inflight
    BY <1>0, <1>5, <2>1 DEF ReleaseWaiter
  <2>3. Abstract!Sharing(k) = Joiners(i)
    <3>1. \A d \in Callers : (Waiting(d) /\ joined[d] = i) => key[d] = k
      BY <1>0 DEF RInv, IInv, CallersConsistent, CallerConsistent
    <3> QED
      BY <1>0, <2>1, <3>1, SharingSet DEF Joiners
  <2>4. calls[i].waiters = Cardinality(Joiners(i)) /\ c \in Joiners(i)
    BY <1>0, <2>1 DEF RInv, IInv, WaitersCounted, Joiners
  <2>5. calls[i].waiters - 1 <= 0 <=> Joiners(i) = {c}
    <3>1. /\ IsFiniteSet(Joiners(i) \ {c})
          /\ Cardinality(Joiners(i) \ {c}) = Cardinality(Joiners(i)) - 1
          /\ Cardinality(Joiners(i) \ {c}) \in Nat
      BY <2>4, JoinersFinite, FS_RemoveElement, FS_CardinalityType
    <3>2. Cardinality(Joiners(i) \ {c}) = 0 <=> Joiners(i) \ {c} = {}
      BY <3>1, FS_EmptySet
    <3>3. Cardinality(Joiners(i)) \in Nat
      BY JoinersFinite
    <3> QED
      BY <2>4, <3>1, <3>2, <3>3
  <2>6. [q \in Keys |-> inflight[q] # NoCall]' =
          IF Abstract!Sharing(k) = {c}
          THEN [[q \in Keys |-> inflight[q] # NoCall] EXCEPT ![k] = FALSE]
          ELSE [q \in Keys |-> inflight[q] # NoCall]
    BY <1>0, <2>2, <2>3, <2>5 DEF RInv, IInv, TypeOK
  <2> QED
    BY <1>0, <1>3, <2>6, SameVocabulary DEF Abstract!Leave, ReleaseWaiter
<1> QED
  BY <1>4, <1>5

\* The return of an HTTP request is not seen before runCall takes the lock.
LEMMA RequestTokenMaps ==
    ASSUME RInv, NEW i \in Calls, RequestToken(i)
    PROVE  UNCHANGED Abstract!vars
<1>1. /\ calls[i].stage = "requesting" /\ calls'[i].stage = "returned"
      /\ \A j \in Calls \ {i} : calls'[j] = calls[j]
      /\ UNCHANGED <<now, cache, inflight, pc, ctx, key, joined, ret>>
  BY DEF RequestToken, RequestReturns, RInv, IInv, TypeOK, CallObjects
<1>2. ASSUME NEW d \in Callers
      PROVE  PhaseOf(d)' = PhaseOf(d) /\ OutcomeFor(d)' = OutcomeFor(d)
  <2>1. Waiting(d) => joined[d] \in Calls
    BY Sharers
  <2>2. CASE joined[d] = i
    BY <1>1, <2>2, Unmoved DEF Completed
  <2>3. CASE joined[d] # i
    BY <1>1, <2>1, <2>3, Unmoved DEF Completed
  <2> QED
    BY <2>2, <2>3
<1> QED
  BY <1>1, <1>2, NobodyMoves DEF Abstract!vars

\* runCall under the lock: the end of the acquisition for all who share it; for
\* an abandoned call, nothing.
LEMMA FinishCallMaps ==
    ASSUME RInv, NEW i \in Calls, FinishCall(i)
    PROVE  (\E k \in Keys : Abstract!End(k)) \/ UNCHANGED Abstract!vars
<1> DEFINE k == calls[i].key
           r == calls[i].result
<1>0. /\ calls[i].stage = "returned" /\ calls[i] \in CallObjects /\ k \in Keys
      /\ calls'[i].stage = "done" /\ calls'[i].result = r
      /\ \A j \in Calls \ {i} : calls'[j] = calls[j]
      /\ UNCHANGED <<now, pc, ctx, key, joined, ret>>
  BY DEF FinishCall, RInv, IInv, TypeOK, CallObjects, CallsConsistent
<1>1. \A d \in Callers : Waiting(d) => joined[d] \in Calls
  BY Sharers
<1>2. ASSUME NEW d \in Callers, ~ (Waiting(d) /\ joined[d] = i)
      PROVE  PhaseOf(d)' = PhaseOf(d) /\ OutcomeFor(d)' = OutcomeFor(d)
  <2>1. Waiting(d) => joined[d] \in Calls \ {i}
    BY <1>1, <1>2
  <2> QED
    BY <1>0, <2>1, Unmoved DEF Completed
<1>3. CASE calls[i].abandoned
  <2>1. inflight[k] # i
    BY <1>0, <1>3 DEF RInv, IInv, WaitersCounted
  <2>2. \A d \in Callers : ~ (Waiting(d) /\ joined[d] = i)
    BY <1>3 DEF RInv, IInv, CallersConsistent, CallerConsistent
  <2>3. cache' = cache /\ inflight' = inflight
    BY <2>1 DEF FinishCall
  <2> QED
    BY <1>0, <1>2, <2>2, <2>3, NobodyMoves DEF Abstract!vars
<1>4. CASE ~calls[i].abandoned
  <2>1. inflight[k] = i
    BY <1>0, <1>4 DEF RInv, IInv, CallsConsistent, Running
  <2>2. Abstract!Sharing(k) = {d \in Callers : Waiting(d) /\ joined[d] = i}
    <3>1. \A d \in Callers : (Waiting(d) /\ joined[d] = i) => key[d] = k
      BY DEF RInv, IInv, CallersConsistent, CallerConsistent
    <3> QED
      BY <1>0, <2>1, <3>1, SharingSet
  <2>3. ASSUME NEW d \in Callers
        PROVE  /\ PhaseOf(d)' = PhaseOf(d)
               /\ OutcomeFor(d)' = IF d \in Abstract!Sharing(k) THEN r ELSE OutcomeFor(d)
    <3>1. CASE Waiting(d) /\ joined[d] = i
      BY <1>0, <2>2, <3>1 DEF PhaseOf, OutcomeFor, Waiting, Completed
    <3>2. CASE ~ (Waiting(d) /\ joined[d] = i)
      BY <1>2, <2>2, <3>2
    <3> QED
      BY <3>1, <3>2
  <2>4. /\ [d \in Callers |-> PhaseOf(d)]' = [d \in Callers |-> PhaseOf(d)]
        /\ Abstract!GiveOut(k, r)
    BY <2>3 DEF Abstract!GiveOut
  <2>5. [q \in Keys |-> inflight[q] # NoCall]' =
          [[q \in Keys |-> inflight[q] # NoCall] EXCEPT ![k] = FALSE]
    BY <1>0, <2>1 DEF FinishCall, RInv, IInv, TypeOK
  <2>6. inflight[k] # NoCall
    BY <2>1, CallsAssumption
  <2>7. CASE r = Failed
    <3>1. cache' = cache
      BY <2>7 DEF FinishCall, Failed
    <3> QED
      BY <1>0, <2>4, <2>5, <2>6, <2>7, <3>1, SameVocabulary DEF Abstract!End
  <2>8. CASE \E t \in Tokens : r = Token(t) /\ t.key = k /\ t.expiresIn > 0
    <3>1. PICK t \in Tokens : r = Token(t) /\ t.key = k /\ t.expiresIn > 0
      BY <2>8
    <3>2. r.kind = "token" /\ r.token = t
      BY <3>1 DEF Token
    <3>3. cache' = [cache EXCEPT ![k] = t]
      BY <1>4, <2>1, <3>2 DEF FinishCall
    <3>4. cache'[k] = t
      BY <1>0, <3>3 DEF RInv, IInv, TypeOK
    <3>5. /\ cache'[k] \in Abstract!Tokens /\ cache'[k].key = k /\ cache'[k].expiresIn > 0
          /\ cache' = [cache EXCEPT ![k] = cache'[k]]
          /\ Abstract!GiveOut(k, Abstract!Token(cache'[k]))
      <4>1. r = Abstract!Token(t)
        BY <3>1, SameVocabulary
      <4>2. Abstract!GiveOut(k, Abstract!Token(t))
        BY <2>4, <4>1
      <4>3. Abstract!GiveOut(k, Abstract!Token(cache'[k]))
        BY <3>4, <4>2 DEF Abstract!GiveOut
      <4>4. cache'[k] \in Abstract!Tokens
        BY <3>4, SameVocabulary
      <4>5. cache'[k].key = k /\ cache'[k].expiresIn > 0
        BY <3>1, <3>4
      <4>6. cache' = [cache EXCEPT ![k] = cache'[k]]
        BY <3>3, <3>4
      <4> QED
        BY <4>3, <4>4, <4>5, <4>6
    <3> HIDE DEF r
    <3> QED
      BY <1>0, <2>4, <2>5, <2>6, <3>5 DEF Abstract!End
  <2>9. Answered(i)
    BY <1>0 DEF RInv, AnswersConsistent
  <2> QED
    BY <1>4, <2>7, <2>8, <2>9 DEF Answered
<1> QED
  BY <1>3, <1>4

-----------------------------------------------------------------------------
\* The provider as it starts is a token source as it starts.
LEMMA InitMaps == Init => Abstract!Init
<1> SUFFICES ASSUME Init PROVE Abstract!Init
  OBVIOUS
<1>1. \A c \in Callers : PhaseOf(c) = "idle" /\ OutcomeFor(c) = NoResult
  BY DEF Init, PhaseOf, OutcomeFor, Waiting
<1>2. \A k \in Keys : (inflight[k] # NoCall) = FALSE
  BY DEF Init
<1> QED
  BY <1>1, <1>2, SameVocabulary DEF Init, Abstract!Init

\* Every step of the provider is a step of the token source or is not seen.
LEMMA NextMaps ==
    ASSUME RInv, [Next]_vars
    PROVE  [Abstract!Next]_(Abstract!vars)
<1>1. ASSUME NEW c \in Callers, Request(c)
      PROVE  Abstract!Next
  <2>1. ASSUME NEW r \in Requests, RejectTarget(c, r)
        PROVE  Abstract!Next
    BY <2>1, RejectTargetMaps DEF Abstract!Next, Abstract!CallerStep
  <2>2. ASSUME NEW r \in Requests, NEW x \in {"nil", "live", "done"}, Lookup(c, r, x)
        PROVE  Abstract!Next
    <3>1. Abstract!Ask(c, Target(r), x) /\ Target(r) \in Abstract!Keys
      BY <2>2, LookupMaps, SameVocabulary DEF Lookup
    <3> QED
      BY <3>1 DEF Abstract!Next, Abstract!CallerStep
  <2> QED
    BY <1>1, <2>1, <2>2 DEF Request
<1>2. ASSUME NEW c \in Callers, Continue(c)
      PROVE  Abstract!Next \/ UNCHANGED Abstract!vars
  BY <1>2, CheckContextMaps, JoinOrStartCallMaps, WaitDoneMaps, WaitCanceledMaps, ReleaseWaiterMaps
  DEF Continue, Abstract!Next, Abstract!CallerStep
<1>3. ASSUME NEW c \in Callers, CancelContext(c)
      PROVE  Abstract!Next
  <2>1. \A d \in Callers : PhaseOf(d)' = PhaseOf(d) /\ OutcomeFor(d)' = OutcomeFor(d)
    BY <1>3 DEF CancelContext, PhaseOf, OutcomeFor, Waiting, Completed
  <2>2. PhaseOf(c) # "idle"
    BY <1>3 DEF CancelContext, PhaseOf
  <2>3. Abstract!Cancel(c)
    BY <1>3, <2>1, <2>2, NobodyMoves DEF CancelContext, Abstract!Cancel
  <2> QED
    BY <2>3 DEF Abstract!Next, Abstract!CallerStep
<1>4. ASSUME NEW i \in Calls, RequestToken(i) \/ FinishCall(i)
      PROVE  Abstract!Next \/ UNCHANGED Abstract!vars
  BY <1>4, RequestTokenMaps, FinishCallMaps, SameVocabulary DEF Abstract!Next
<1>5. CASE Tick
  <2>1. \A d \in Callers : PhaseOf(d)' = PhaseOf(d) /\ OutcomeFor(d)' = OutcomeFor(d)
    BY <1>5 DEF Tick, PhaseOf, OutcomeFor, Waiting, Completed
  <2> QED
    BY <1>5, <2>1, NobodyMoves DEF Tick, Abstract!Tick, Abstract!Next
<1>6. CASE UNCHANGED vars
  <2>1. \A d \in Callers : PhaseOf(d)' = PhaseOf(d) /\ OutcomeFor(d)' = OutcomeFor(d)
    BY <1>6 DEF vars, PhaseOf, OutcomeFor, Waiting, Completed
  <2> QED
    BY <1>6, <2>1, NobodyMoves DEF vars, Abstract!vars
<1> QED
  BY <1>1, <1>2, <1>3, <1>4, <1>5, <1>6 DEF Next

\* Call objects, counters and critical sections implement shared acquisitions.
THEOREM CacheIsTokenSource == Spec => ImplementsTokenSource
<1>1. Init => AnswersConsistent
  BY DEF Init, AnswersConsistent
<1>2. IInv /\ AnswersConsistent /\ [Next]_vars => AnswersConsistent'
  BY NextAnswers DEF RInv
<1>3. IInv /\ AnswersConsistent /\ [Next]_vars => [Abstract!Next]_(Abstract!vars)
  BY NextMaps DEF RInv
<1> QED
  BY Invariance, InitMaps, <1>1, <1>2, <1>3, PTL DEF Spec, ImplementsTokenSource, Abstract!Spec
=============================================================================
