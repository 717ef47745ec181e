---------------------------- MODULE KeyFileProofs ----------------------------
(***************************************************************************)
(* Proofs about KeyFile, for every set of processes and of keys.           *)
(***************************************************************************)
EXTENDS KeyFile, TLAPS

\* Keys in the file and in processes that hold one were generated.
KeysGenerated ==
    /\ file \in Keys => file \in used
    /\ \A p \in Processes : pc[p] \in {"open", "write", "serve"} => key[p] \in used

\* Processes that are started one at a time: while one of them is about to write,
\* the file holds no key, nobody serves and nobody ever served.
WritesFirstKey ==
    alone =>
        /\ \A p, q \in Processes : Starting(p) /\ Starting(q) => p = q
        /\ served \subseteq {file}
        /\ \A p \in Processes : /\ pc[p] = "serve" => key[p] = file /\ file \in Keys
                                /\ pc[p] = "open" => file = Missing
                                /\ pc[p] = "write" => file = Empty

\* The inductive invariant.
IInv == TypeOK /\ KeysGenerated /\ WritesFirstKey

-----------------------------------------------------------------------------
\* The initial states satisfy the inductive invariant.
LEMMA InitIInv == Init => IInv
BY KeyFileAssumption DEF Init, IInv, TypeOK, KeysGenerated, WritesFirstKey, Starting

\* Every step preserves the types, and generated keys stay generated.
LEMMA StepTypes == TypeOK /\ KeysGenerated /\ [Next]_vars => TypeOK' /\ KeysGenerated'
<1> SUFFICES ASSUME TypeOK, KeysGenerated, [Next]_vars
             PROVE  TypeOK' /\ KeysGenerated'
  OBVIOUS
<1> USE KeyFileAssumption DEF TypeOK, KeysGenerated
<1>1. ASSUME NEW p \in Processes, Start(p)
      PROVE  TypeOK' /\ KeysGenerated'
  BY <1>1 DEF Start, Goto
<1>2. ASSUME NEW p \in Processes, Validate(p)
      PROVE  TypeOK' /\ KeysGenerated'
  BY <1>2 DEF Validate, Goto, Down
<1>3. ASSUME NEW p \in Processes, Load(p)
      PROVE  TypeOK' /\ KeysGenerated'
  <2>1. CASE file \in Keys /\ Serve(p, file) /\ UNCHANGED used
    BY <1>3, <2>1 DEF Load, Serve
  <2>2. CASE file = Empty /\ Down(p) /\ UNCHANGED <<used, served>>
    BY <1>3, <2>2 DEF Load, Down
  <2>3. CASE file = Missing /\ Generate(p)
    <3>1. PICK k \in Keys : key' = [key EXCEPT ![p] = k] /\ used' = used \cup {k}
      BY <2>3 DEF Generate
    <3> QED
      BY <1>3, <2>3, <3>1 DEF Load, Generate, Goto
  <2> QED
    BY <1>3, <2>1, <2>2, <2>3 DEF Load
<1>4. ASSUME NEW p \in Processes, Open(p)
      PROVE  TypeOK' /\ KeysGenerated'
  BY <1>4 DEF Open, Goto
<1>5. ASSUME NEW p \in Processes, Write(p)
      PROVE  TypeOK' /\ KeysGenerated'
  BY <1>5 DEF Write, Serve
<1>6. ASSUME NEW p \in Processes, Crash(p)
      PROVE  TypeOK' /\ KeysGenerated'
  BY <1>6 DEF Crash, Down
<1>7. CASE UNCHANGED vars
  BY <1>7 DEF vars
<1> QED
  BY <1>1, <1>2, <1>3, <1>4, <1>5, <1>6, <1>7 DEF Next

\* Every step preserves the inductive invariant.
LEMMA StepIInv == IInv /\ [Next]_vars => IInv'
<1> SUFFICES ASSUME IInv, [Next]_vars
             PROVE  WritesFirstKey'
  BY StepTypes DEF IInv
<1> SUFFICES ASSUME alone'
             PROVE  WritesFirstKey'
  BY DEF WritesFirstKey
<1> USE KeyFileAssumption DEF IInv, TypeOK, KeysGenerated, WritesFirstKey, Starting
<1>0. alone
  BY DEF Next, Start, Validate, Load, Open, Write, Crash, vars
<1>1. ASSUME NEW p \in Processes, Start(p)
      PROVE  WritesFirstKey'
  BY <1>0, <1>1 DEF Start, Goto
<1>2. ASSUME NEW p \in Processes, Validate(p)
      PROVE  WritesFirstKey'
  BY <1>0, <1>2 DEF Validate, Goto, Down
<1>3. ASSUME NEW p \in Processes, Load(p)
      PROVE  WritesFirstKey'
  <2>1. CASE file \in Keys /\ Serve(p, file) /\ UNCHANGED used
    BY <1>0, <1>3, <2>1 DEF Load, Serve
  <2>2. CASE file = Empty /\ Down(p) /\ UNCHANGED <<used, served>>
    BY <1>0, <1>3, <2>2 DEF Load, Down
  <2>3. CASE file = Missing /\ Generate(p)
    BY <1>0, <1>3, <2>3 DEF Load, Generate, Goto
  <2> QED
    BY <1>3, <2>1, <2>2, <2>3 DEF Load
<1>4. ASSUME NEW p \in Processes, Open(p)
      PROVE  WritesFirstKey'
  <2>1. served = {}
    BY <1>0, <1>4 DEF Open
  <2> QED
    BY <1>0, <1>4, <2>1 DEF Open, Goto
<1>5. ASSUME NEW p \in Processes, Write(p)
      PROVE  WritesFirstKey'
  <2>1. served = {} /\ key[p] \in Keys
    BY <1>0, <1>5 DEF Write
  <2> QED
    BY <1>0, <1>5, <2>1 DEF Write, Serve
<1>6. ASSUME NEW p \in Processes, Crash(p)
      PROVE  WritesFirstKey'
  BY <1>0, <1>6 DEF Crash, Down
<1>7. CASE UNCHANGED vars
  BY <1>0, <1>7 DEF vars
<1> QED
  BY <1>1, <1>2, <1>3, <1>4, <1>5, <1>6, <1>7 DEF Next

\* Every reachable state satisfies the inductive invariant.
LEMMA Invariance == Spec => []IInv
BY InitIInv, StepIInv, PTL DEF Spec

-----------------------------------------------------------------------------
\* The file, the processes and the keys keep their types.
THEOREM TypeCorrect == Spec => []TypeOK
<1>1. IInv => TypeOK
  BY DEF IInv
<1> QED
  BY <1>1, Invariance, PTL

\* LoadOrCreateEd25519Signer with starts one at a time: one key for the life of
\* the file, through crashes and restarts of any number of processes.
THEOREM OneKey == Spec => []OneKeyServed
<1>1. IInv => OneKeyServed
  BY DEF IInv, WritesFirstKey, OneKeyServed
<1> QED
  BY <1>1, Invariance, PTL

\* LoadOrCreateEd25519Signer with starts in any order: a file that has a key while
\* no start is about to write keeps that key for good, and no more processes serve
\* with another one.
THEOREM KeySettles == Spec => SettledForGood
<1>1. TypeOK /\ [Next]_vars
        => [Settled => Settled' /\ file' = file /\ Strays' \subseteq Strays]_vars
  <2> SUFFICES ASSUME TypeOK, Next, Settled
               PROVE  Settled' /\ file' = file /\ Strays' \subseteq Strays
    OBVIOUS
  <2>1. PICK p \in Processes : Start(p) \/ Validate(p) \/ Load(p) \/ Open(p) \/ Write(p) \/ Crash(p)
    BY DEF Next
  <2> USE <2>1, KeyFileAssumption DEF TypeOK, Settled, Goto, Down, Serve
  <2>2. ~ Open(p) /\ ~ Write(p)
    BY DEF Open, Write
  <2>3. Settled' /\ file' = file
    <3>1. CASE Load(p)
      BY <3>1 DEF Load
    <3> QED
      BY <2>2, <3>1 DEF Start, Validate, Crash
  <2>4. Strays' \subseteq Strays
    <3> SUFFICES ASSUME NEW q \in Processes, pc'[q] = "serve", key'[q] # file
                 PROVE  pc[q] = "serve" /\ key[q] # file
      BY <2>3 DEF Strays
    <3>1. CASE Load(p)
      BY <3>1 DEF Load
    <3> QED
      BY <2>2, <3>1 DEF Start, Validate, Crash
  <2> QED
    BY <2>3, <2>4
<1> QED
  BY <1>1, TypeCorrect, PTL DEF Spec, SettledForGood
=============================================================================
