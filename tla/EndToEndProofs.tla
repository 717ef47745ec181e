--------------------------- MODULE EndToEndProofs ---------------------------
(***************************************************************************)
(* Proofs about the scope language (Scopes, ScopeMeaning), about the token *)
(* endpoint (TokenService) and about the calls that it is a part of        *)
(* (EndToEnd), for every set of handlers, client records, requests,        *)
(* scopes, targets and routes, and every lifetime, leeway, clock skew and  *)
(* delay.                                                                  *)
(***************************************************************************)
EXTENDS EndToEnd, ScopeMeaning, TLAPS

-----------------------------------------------------------------------------
(* Scopes *)

\* A concrete scope covers nothing but itself.
LEMMA ConcreteCoversItself ==
    ASSUME NEW s \in Scope, NEW t, ~ containsScopeWildcard(s), ScopeCovers(s, t)
    PROVE  s = t
<1>1. Len(s) \in Nat
  BY DEF Scope
<1>2. ASSUME IsPattern(s)
      PROVE  FALSE
  <2>1. Len(s) > 1 /\ s[Len(s)] \in {"*", "**"}
    BY <1>2 DEF IsPattern
  <2>2. {"*", "**"} \subseteq Starred
    BY SegmentsAssumption
  <2>3. Len(s) \in 1..Len(s)
    BY <1>1, <2>1
  <2> QED
    BY <2>1, <2>2, <2>3 DEF containsScopeWildcard
<1> QED
  BY <1>2 DEF ScopeCovers

\* Every scope but the blank one covers itself.
LEMMA CoversSelf ==
    ASSUME NEW s, s # Blank
    PROVE  ScopeCovers(s, s)
BY DEF ScopeCovers

\* resolveRequestedScopes: the scopes it returns are concrete, the policy covers
\* them and they were asked for; and nothing asked for is passed over.
LEMMA Resolved ==
    ASSUME NEW requested \in SUBSET (Scope \ {Blank}), NEW allowed \in SUBSET (Scope \ {Blank}),
           resolveRequestedScopes(requested, allowed).ok
    PROVE  LET issued == resolveRequestedScopes(requested, allowed).scopes
           IN  /\ issued \subseteq Scope
               /\ \A i \in issued : /\ ~ containsScopeWildcard(i)
                                    /\ SetCovers(allowed, i)
                                    /\ SetCovers(requested, i)
               /\ \A s \in requested : \E i \in issued : ScopeCovers(s, i)
<1> DEFINE selectors == {s \in requested : containsScopeWildcard(s)}
           issued == (requested \ selectors) \cup UNION {Expand(s, allowed) : s \in selectors}
<1>1. resolveRequestedScopes(requested, allowed).scopes = issued
  BY DEF resolveRequestedScopes
<1>2. /\ \A s \in selectors : Expand(s, allowed) # {}
      /\ \A s \in requested \ selectors : SetCovers(allowed, s)
  BY DEF resolveRequestedScopes
<1>3. \A s \in selectors : \A i \in Expand(s, allowed) :
          i \in allowed /\ ~ containsScopeWildcard(i) /\ ScopeCovers(s, i)
  BY DEF Expand
<1>4. ASSUME NEW i \in issued
      PROVE  i \in Scope /\ ~ containsScopeWildcard(i) /\ SetCovers(allowed, i) /\ SetCovers(requested, i)
  <2>1. CASE i \in requested \ selectors
    <3>1. ScopeCovers(i, i)
      BY <2>1, CoversSelf
    <3> QED
      BY <1>2, <2>1, <3>1 DEF SetCovers
  <2>2. CASE i \notin requested \ selectors
    <3>1. PICK s \in selectors : i \in Expand(s, allowed)
      BY <2>2
    <3>2. i \in allowed /\ ~ containsScopeWildcard(i) /\ ScopeCovers(s, i)
      BY <1>3, <3>1
    <3>3. ScopeCovers(i, i)
      BY <3>2, CoversSelf
    <3> QED
      BY <3>1, <3>2, <3>3 DEF SetCovers
  <2> QED
    BY <2>1, <2>2
<1>5. ASSUME NEW s \in requested
      PROVE  \E i \in issued : ScopeCovers(s, i)
  <2>1. CASE s \in selectors
    <3>1. PICK i \in Expand(s, allowed) : ScopeCovers(s, i)
      BY <1>2, <1>3, <2>1
    <3> QED
      BY <2>1, <3>1
  <2>2. CASE s \notin selectors
    BY <2>2, CoversSelf
  <2> QED
    BY <2>1, <2>2
<1> QED
  BY <1>1, <1>4, <1>5
-----------------------------------------------------------------------------
(* TokenService *)

\* Whatever a handler knows of a client, it has from a record that the store held
\* while it served its request.
ClientSeen ==
    \A h \in Handlers : /\ pc[h] # "idle" => answer[h] = "" /\ request[h] \in Requests
                        /\ pc[h] = "find" => Stored(request[h].id) \subseteq seen[h]
                        /\ pc[h] = "issue" => client[h] \in seen[h]

\* An answer given after the store was read is what Decide says of one record.
AnswerJustified ==
    \A h \in Handlers : answer[h] \in {"invalid_target", "invalid_scope", "token"} =>
        \E c \in seen[h] :
            /\ Decide(c, request[h]) = answer[h]
            /\ answer[h] = "token" => request[h] \in Requests /\ token[h] = Claims(c, request[h])

\* The inductive invariant.
IInv == TypeOK /\ ClientSeen /\ AnswerJustified

-----------------------------------------------------------------------------
\* Normalize leaves the fields of a record and no blank scope in its policy.
LEMMA Normalized ==
    ASSUME NEW c \in Clients
    PROVE  LET n == Normalize(c)
           IN  /\ DOMAIN n = DOMAIN c
               /\ n.id = c.id /\ n.disabled = c.disabled
               /\ n.secrets = c.secrets /\ n.digests = c.digests
               /\ n.audiences = c.audiences \ {""}
               /\ n.allowed = c.allowed \ {Blank}
               /\ n.defaults = c.defaults \ {Blank}
BY InputsAssumption DEF Normalize

\* A stored record has an id, and its policy consists of scopes.
LEMMA RecordType ==
    ASSUME NEW c \in Records
    PROVE  /\ c.id \in ClientIDs
           /\ c.allowed \in SUBSET (Scope \ {Blank})
           /\ c.defaults \in SUBSET (Scope \ {Blank})
<1>1. PICK d \in Clients : d.id # "" /\ c = Normalize(d)
  BY DEF Records
<1>2. d.id \in ClientIDs \cup {""} /\ d.allowed \cup d.defaults \subseteq Scope
  BY InputsAssumption
<1> QED
  BY <1>1, <1>2, Normalized

\* Normalize changes nothing in a stored record.
LEMMA NormalizedTwice ==
    ASSUME NEW c \in Records
    PROVE  Normalize(c) = c
<1>1. PICK d \in Clients : c = Normalize(d)
  BY DEF Records
<1>2. /\ c = [x \in DOMAIN d |-> c[x]] /\ DOMAIN c = DOMAIN d
      /\ c.audiences = d.audiences \ {""}
      /\ c.allowed = d.allowed \ {Blank} /\ c.defaults = d.defaults \ {Blank}
  BY <1>1, InputsAssumption DEF Normalize
<1>3. /\ c.audiences \ {""} = c.audiences
      /\ c.allowed \ {Blank} = c.allowed /\ c.defaults \ {Blank} = c.defaults
  BY <1>2
<1>4. /\ Normalize(c) = [x \in DOMAIN c |-> Normalize(c)[x]]
      /\ \A x \in DOMAIN c : Normalize(c)[x] = c[x]
  BY <1>2, <1>3 DEF Normalize
<1> QED
  BY <1>2, <1>4

\* The initial state satisfies the inductive invariant.
LEMMA InitIInv == Init => IInv
<1> SUFFICES ASSUME Init
             PROVE  IInv
  OBVIOUS
<1>1. token \in [Handlers -> {None}] /\ seen \in [Handlers -> SUBSET Records]
  BY DEF Init
<1>2. TypeOK
  BY <1>1 DEF Init, TypeOK
<1>3. ClientSeen /\ AnswerJustified
  BY DEF Init, ClientSeen, AnswerJustified
<1> QED
  BY <1>2, <1>3 DEF IInv

\* What the store holds under an id is a record or nothing.
LEMMA StoredType ==
    ASSUME TypeOK, NEW id
    PROVE  Stored(id) \subseteq Records
BY DEF TypeOK, Stored

\* Receive preserves the inductive invariant.
LEMMA ReceiveStep ==
    ASSUME IInv, NEW h \in Handlers, NEW r \in Requests, Receive(h, r)
    PROVE  IInv'
<1> DEFINE early == Early(r)
<1>1. /\ pc'[h] = IF early = "" THEN "find" ELSE "idle"
      /\ early \in {"", "invalid_request", "unsupported_grant_type", "invalid_client"}
      /\ answer'[h] = early
      /\ request'[h] = r /\ token'[h] = None /\ seen'[h] = Stored(r.id)
      /\ UNCHANGED <<clients, client>>
  BY DEF Receive, Early, IInv, TypeOK
<1>2. \A g \in Handlers \ {h} : /\ pc'[g] = pc[g] /\ request'[g] = request[g]
                                /\ answer'[g] = answer[g] /\ token'[g] = token[g]
                                /\ seen'[g] = seen[g]
  BY DEF Receive, IInv, TypeOK
<1>3. Stored(r.id) \subseteq Records
  BY StoredType DEF IInv
<1>4. TypeOK'
  <2>1. /\ seen' \in [Handlers -> SUBSET Records]
        /\ request' \in [Handlers -> Requests \cup {None}]
        /\ pc' \in [Handlers -> {"idle", "find", "issue"}]
    BY <1>3 DEF Receive, IInv, TypeOK
  <2>2. token' = [token EXCEPT ![h] = None] /\ answer' = [answer EXCEPT ![h] = early]
    BY <1>1 DEF Receive, IInv, TypeOK
  <2>3. /\ token' \in [Handlers -> AccessTokens \cup {None}]
        /\ client' \in [Handlers -> Records \cup {None}]
        /\ clients' \in [ClientIDs -> Records \cup {None}]
    BY <1>1, <2>2 DEF IInv, TypeOK
  <2>4. answer' \in [Handlers -> {"", "token", "invalid_request", "unsupported_grant_type",
                                  "invalid_client", "invalid_target", "invalid_scope",
                                  "server_error"}]
    BY <1>1, <2>2 DEF IInv, TypeOK
  <2> QED
    BY <2>1, <2>3, <2>4 DEF TypeOK
<1>5. ClientSeen'
  BY <1>1, <1>2, <1>3 DEF IInv, ClientSeen, Stored
<1>6. AnswerJustified'
  BY <1>1, <1>2 DEF IInv, AnswerJustified
<1> QED
  BY <1>4, <1>5, <1>6 DEF IInv

\* FindClient preserves the inductive invariant.
LEMMA FindClientStep ==
    ASSUME IInv, NEW h \in Handlers, FindClient(h)
    PROVE  IInv'
<1> DEFINE found == {c \in Stored(request[h].id) : ~ c.disabled}
<1>1. /\ pc[h] = "find" /\ answer[h] = "" /\ request[h] \in Requests
      /\ found \subseteq seen[h] /\ found \subseteq Records
      /\ UNCHANGED <<clients, request, token, seen>>
  BY StoredType DEF FindClient, IInv, ClientSeen
<1>2. CASE /\ pc' = [pc EXCEPT ![h] = "issue"] /\ UNCHANGED answer
           /\ \E c \in found : client' = [client EXCEPT ![h] = c]
  <2>1. PICK c \in found : client' = [client EXCEPT ![h] = c]
    BY <1>2
  <2>2. TypeOK'
    BY <1>1, <1>2, <2>1 DEF IInv, TypeOK
  <2>3. ClientSeen'
    BY <1>1, <1>2, <2>1 DEF IInv, TypeOK, ClientSeen, Stored
  <2>4. AnswerJustified'
    BY <1>1, <1>2 DEF IInv, AnswerJustified
  <2> QED
    BY <2>2, <2>3, <2>4 DEF IInv
<1>3. CASE /\ pc' = [pc EXCEPT ![h] = "idle"] /\ UNCHANGED client
           /\ answer' = [answer EXCEPT ![h] = "invalid_client"]
  <2>1. TypeOK'
    BY <1>1, <1>3 DEF IInv, TypeOK
  <2>2. ClientSeen'
    BY <1>1, <1>3 DEF IInv, TypeOK, ClientSeen, Stored
  <2>3. AnswerJustified'
    BY <1>1, <1>3 DEF IInv, TypeOK, AnswerJustified
  <2> QED
    BY <2>1, <2>2, <2>3 DEF IInv
<1> QED
  BY <1>2, <1>3 DEF FindClient

\* StoreFails preserves the inductive invariant.
LEMMA StoreFailsStep ==
    ASSUME IInv, NEW h \in Handlers, StoreFails(h)
    PROVE  IInv'
<1>1. TypeOK'
  BY DEF StoreFails, IInv, TypeOK, ClientSeen
<1>2. ClientSeen'
  BY DEF StoreFails, IInv, TypeOK, ClientSeen, Stored
<1>3. AnswerJustified'
  BY DEF StoreFails, IInv, TypeOK, AnswerJustified
<1> QED
  BY <1>1, <1>2, <1>3 DEF IInv

\* Issue preserves the inductive invariant.
LEMMA IssueStep ==
    ASSUME IInv, NEW h \in Handlers, Issue(h)
    PROVE  IInv'
<1> DEFINE c == client[h]
           r == request[h]
<1>1. /\ pc[h] = "issue" /\ c \in seen[h] /\ c \in Records /\ r \in Requests
      /\ pc' = [pc EXCEPT ![h] = "idle"] /\ client' = [client EXCEPT ![h] = None]
      /\ answer'[h] \in {Decide(c, r), "server_error"}
      /\ UNCHANGED <<clients, request, seen>>
  BY DEF Issue, IInv, TypeOK, ClientSeen
<1>2. Decide(c, r) \in {"invalid_client", "invalid_request", "invalid_target", "invalid_scope", "token"}
  BY DEF Decide
<1>3. ASSUME Decide(c, r) = "token"
      PROVE  Claims(c, r) \in AccessTokens
  <2>1. /\ r.audience \in c.audiences
        /\ resolveRequestedScopes(Requested(c, r), c.allowed).ok
    BY <1>3 DEF Decide
  <2>2. /\ Requested(c, r) \in SUBSET (Scope \ {Blank})
        /\ c.allowed \in SUBSET (Scope \ {Blank}) /\ c.id \in ClientIDs
    BY <1>1, RecordType, InputsAssumption DEF Requested
  <2>3. resolveRequestedScopes(Requested(c, r), c.allowed).scopes \subseteq Scope
    BY <2>1, <2>2, Resolved
  <2> QED
    BY <1>1, <2>1, <2>2, <2>3 DEF Claims, AccessTokens
<1>4. TypeOK'
  <2>1. CASE /\ answer' = [answer EXCEPT ![h] = Decide(c, r)]
             /\ token' = [token EXCEPT ![h] = IF Decide(c, r) = "token" THEN Claims(c, r) ELSE None]
    <3>1. token' \in [Handlers -> AccessTokens \cup {None}]
      BY <1>3, <2>1 DEF IInv, TypeOK
    <3> QED
      BY <1>1, <1>2, <2>1, <3>1 DEF IInv, TypeOK
  <2>2. CASE answer' = [answer EXCEPT ![h] = "server_error"] /\ UNCHANGED token
    BY <1>1, <2>2 DEF IInv, TypeOK
  <2> QED
    BY <2>1, <2>2 DEF Issue
<1>5. ClientSeen'
  <2>1. ASSUME NEW g \in Handlers \ {h}
        PROVE  answer'[g] = answer[g] /\ pc'[g] = pc[g] /\ client'[g] = client[g]
    BY DEF Issue, IInv, TypeOK
  <2>2. pc'[h] = "idle"
    BY <1>1 DEF IInv, TypeOK
  <2> QED
    BY <1>1, <2>1, <2>2 DEF IInv, ClientSeen, Stored
<1>6. AnswerJustified'
  <2>1. ASSUME NEW g \in Handlers \ {h}
        PROVE  answer'[g] = answer[g] /\ token'[g] = token[g]
    BY DEF Issue, IInv, TypeOK
  <2>2. answer'[h] = "token" => token'[h] = Claims(c, r)
    BY DEF Issue, IInv, TypeOK
  <2>3. answer'[h] = "server_error" \/ answer'[h] = Decide(c, r)
    BY <1>1
  <2> QED
    BY <1>1, <2>1, <2>2, <2>3 DEF IInv, AnswerJustified
<1> QED
  BY <1>4, <1>5, <1>6 DEF IInv

\* Upsert preserves the inductive invariant.
LEMMA UpsertStep ==
    ASSUME IInv, NEW d \in Clients, Upsert(d)
    PROVE  IInv'
<1> DEFINE c == Normalize(d)
<1>1. /\ clients' = [clients EXCEPT ![c.id] = c] /\ c.id \in ClientIDs /\ c \in Records
      /\ pc' = pc /\ request' = request /\ client' = client /\ answer' = answer /\ token' = token
  <2>1. c.id = d.id /\ c.id # ""
    BY Normalized DEF Upsert
  <2>2. c.id \in ClientIDs /\ c \in Records
    BY <2>1, InputsAssumption DEF Records
  <2> QED
    BY <2>2 DEF Upsert
<1>2. TypeOK'
  <2>1. seen' \in [Handlers -> SUBSET Records]
    BY <1>1 DEF Upsert, IInv, TypeOK
  <2> QED
    BY <1>1, <2>1 DEF IInv, TypeOK
<1>3. ASSUME NEW h \in Handlers
      PROVE  /\ seen[h] \subseteq seen'[h]
             /\ (pc[h] # "idle" /\ request[h].id = c.id) => c \in seen'[h]
  BY DEF Upsert
<1>4. ClientSeen'
  <2> SUFFICES ASSUME NEW h \in Handlers
               PROVE  /\ pc[h] # "idle" => answer[h] = "" /\ request[h] \in Requests
                      /\ pc[h] = "find" => Stored(request[h].id)' \subseteq seen'[h]
                      /\ pc[h] = "issue" => client[h] \in seen'[h]
    BY <1>1 DEF ClientSeen
  <2>1. ASSUME pc[h] = "find"
        PROVE  Stored(request[h].id)' \subseteq seen'[h]
    <3>1. CASE request[h].id = c.id
      <4>1. Stored(request[h].id)' \subseteq {c}
        BY <1>1, <3>1 DEF Stored, IInv, TypeOK
      <4> QED
        BY <1>3, <2>1, <3>1, <4>1
    <3>2. CASE request[h].id # c.id
      <4>1. Stored(request[h].id)' = Stored(request[h].id)
        BY <1>1, <3>2 DEF Stored, IInv, TypeOK
      <4> QED
        BY <1>3, <2>1, <4>1 DEF IInv, ClientSeen
    <3> QED
      BY <3>1, <3>2
  <2> QED
    BY <1>3, <2>1 DEF IInv, ClientSeen
<1>5. AnswerJustified'
  <2> SUFFICES ASSUME NEW h \in Handlers, answer[h] \in {"invalid_target", "invalid_scope", "token"}
               PROVE  \E e \in seen'[h] :
                         /\ Decide(e, request[h]) = answer[h]
                         /\ answer[h] = "token" => request[h] \in Requests
                                                  /\ token[h] = Claims(e, request[h])
    BY <1>1 DEF AnswerJustified
  <2> QED
    BY <1>3 DEF IInv, AnswerJustified
<1> QED
  BY <1>2, <1>4, <1>5 DEF IInv

\* Every step preserves the inductive invariant.
LEMMA StepIInv == IInv /\ [Next]_vars => IInv'
<1> SUFFICES ASSUME IInv, [Next]_vars
             PROVE  IInv'
  OBVIOUS
<1>1. CASE Next
  BY <1>1, ReceiveStep, FindClientStep, StoreFailsStep, IssueStep, UpsertStep DEF Next
<1>2. CASE UNCHANGED vars
  BY <1>2 DEF vars, IInv, TypeOK, ClientSeen, AnswerJustified, Stored
<1> QED
  BY <1>1, <1>2

\* The inductive invariant holds in every reachable state.
LEMMA Invariance == Spec => []IInv
BY InitIInv, StepIInv, PTL DEF Spec

\* What follows for a handler that answered with a token: one record, which its
\* client had while the request was served, decided it and its claims.
LEMMA TokenJustified ==
    ASSUME IInv, NEW h \in Handlers, answer[h] = "token"
    PROVE  LET r == request[h]
           IN  \E c \in seen[h] :
                  /\ Authenticates(c, r) /\ r.audience \in c.audiences
                  /\ resolveRequestedScopes(Requested(c, r), c.allowed).ok
                  /\ token[h] = Claims(c, r)
                  /\ Requested(c, r) \in SUBSET (Scope \ {Blank})
                  /\ c.allowed \in SUBSET (Scope \ {Blank})
<1> DEFINE r == request[h]
<1>1. PICK c \in seen[h] : Decide(c, r) = "token" /\ r \in Requests /\ token[h] = Claims(c, r)
  BY DEF IInv, AnswerJustified
<1>2. /\ Authenticates(c, r) /\ r.audience \in c.audiences
      /\ resolveRequestedScopes(Requested(c, r), c.allowed).ok
  BY <1>1 DEF Decide, Authenticates
<1>3. c \in Records
  BY <1>1 DEF IInv, TypeOK
<1>4. Requested(c, r) \in SUBSET (Scope \ {Blank}) /\ c.allowed \in SUBSET (Scope \ {Blank})
  BY <1>1, <1>3, RecordType, InputsAssumption DEF Requested
<1> QED
  BY <1>1, <1>2, <1>4

-----------------------------------------------------------------------------
(* Theorems *)

\* Clients, requests and tokens are what the handlers (token_service.go, http.go)
\* take them for.
THEOREM TypeCorrect == Spec => []TypeOK
<1>1. IInv => TypeOK
  BY DEF IInv
<1> QED
  BY <1>1, Invariance, PTL

\* A token is one that a single record of the client allows (issue decides on the
\* copy FindClient returned), whatever Upsert does meanwhile.
THEOREM TokensWithinPolicy == Spec => []IssuedWithinPolicy
<1>1. ASSUME IInv, NEW h \in Handlers, answer[h] = "token"
      PROVE  \E c \in seen[h] :
                /\ Authenticates(c, request[h])
                /\ token[h].clientID = c.id
                /\ token[h].audience \in c.audiences
                /\ \A s \in RouteScopes :
                      HasAllScopes(token[h].scope, {s}) => SetCovers(c.allowed, s)
  <2> DEFINE r == request[h]
  <2>1. PICK c \in seen[h] :
                  /\ Authenticates(c, r) /\ r.audience \in c.audiences
                  /\ resolveRequestedScopes(Requested(c, r), c.allowed).ok
                  /\ token[h] = Claims(c, r)
                  /\ Requested(c, r) \in SUBSET (Scope \ {Blank})
                  /\ c.allowed \in SUBSET (Scope \ {Blank})
    BY <1>1, TokenJustified
  <2> DEFINE issued == resolveRequestedScopes(Requested(c, r), c.allowed).scopes
  <2>2. token[h].clientID = c.id /\ token[h].audience = r.audience /\ token[h].scope = issued
    BY <2>1 DEF Claims
  <2>3. issued \subseteq Scope /\ \A i \in issued : ~ containsScopeWildcard(i) /\ SetCovers(c.allowed, i)
    BY <2>1, Resolved
  <2>4. ASSUME NEW s \in RouteScopes, HasAllScopes(issued, {s})
        PROVE  SetCovers(c.allowed, s)
    <3>1. PICK i \in issued : ScopeCovers(i, s)
      BY <2>4 DEF HasAllScopes, SetCovers
    <3> QED
      BY <2>3, <3>1, ConcreteCoversItself
  <2> QED
    BY <2>1, <2>2, <2>4
<1>2. IInv => IssuedWithinPolicy
  BY <1>1 DEF IssuedWithinPolicy
<1> QED
  BY <1>2, Invariance, PTL

\* A token carries no wildcard: resolveRequestedScopes expands every selector.
THEOREM TokensConcrete == Spec => []ConcreteScopes
<1>1. ASSUME IInv, NEW h \in Handlers, answer[h] = "token", NEW s \in token[h].scope
      PROVE  ~ containsScopeWildcard(s)
  <2> DEFINE r == request[h]
  <2>1. PICK c \in seen[h] :
                  /\ resolveRequestedScopes(Requested(c, r), c.allowed).ok
                  /\ token[h] = Claims(c, r)
                  /\ Requested(c, r) \in SUBSET (Scope \ {Blank})
                  /\ c.allowed \in SUBSET (Scope \ {Blank})
    BY <1>1, TokenJustified
  <2>2. s \in resolveRequestedScopes(Requested(c, r), c.allowed).scopes
    BY <1>1, <2>1 DEF Claims
  <2> QED
    BY <2>1, <2>2, Resolved
<1>2. IInv => ConcreteScopes
  BY <1>1 DEF ConcreteScopes
<1> QED
  BY <1>2, Invariance, PTL

\* resolveRequestedScopes passes over nothing that was asked for and adds nothing.
THEOREM RequestsHonoured == Spec => []HonouredInFull
<1>1. ASSUME IInv, NEW h \in Handlers, answer[h] = "token", request[h].scopes # {}
      PROVE  /\ \A s \in request[h].scopes : \E i \in token[h].scope : ScopeCovers(s, i)
             /\ \A i \in token[h].scope : SetCovers(request[h].scopes, i)
  <2> DEFINE r == request[h]
  <2>1. PICK c \in seen[h] :
                  /\ resolveRequestedScopes(Requested(c, r), c.allowed).ok
                  /\ token[h] = Claims(c, r)
                  /\ Requested(c, r) \in SUBSET (Scope \ {Blank})
                  /\ c.allowed \in SUBSET (Scope \ {Blank})
    BY <1>1, TokenJustified
  <2>2. token[h].scope = resolveRequestedScopes(Requested(c, r), c.allowed).scopes
    BY <2>1 DEF Claims
  <2>3. Requested(c, r) = r.scopes
    BY <1>1 DEF Requested
  <2> QED
    BY <2>1, <2>2, <2>3, Resolved
<1>2. IInv => HonouredInFull
  BY <1>1 DEF HonouredInFull
<1> QED
  BY <1>2, Invariance, PTL

\* issue looks at the secret before anything that depends on the policy.
THEOREM SecretFirst == Spec => []AnswersNeedSecret
<1>1. ASSUME IInv, NEW h \in Handlers, answer[h] \in {"invalid_target", "invalid_scope", "token"}
      PROVE  \E c \in seen[h] : Authenticates(c, request[h])
  <2>1. PICK c \in seen[h] : Decide(c, request[h]) = answer[h]
    BY <1>1 DEF IInv, AnswerJustified
  <2>2. Authenticates(c, request[h])
    BY <1>1, <2>1 DEF Decide, Authenticates
  <2> QED
    BY <2>1, <2>2
<1>2. IInv => AnswersNeedSecret
  BY <1>1 DEF AnswersNeedSecret
<1> QED
  BY <1>2, Invariance, PTL

\* A client whose records pass Validate is not refused for its own default scopes:
\* they hold no selector and the policy covers each of them (client.go).
THEOREM DefaultsIssued == Spec => []DefaultsHonoured
<1>1. ASSUME IInv, NEW h \in Handlers, answer[h] = "invalid_scope", request[h].scopes = {}
      PROVE  \E c \in seen[h] : ~ Validate(c)
  <2>1. PICK c \in seen[h] : Decide(c, request[h]) = "invalid_scope"
    BY <1>1 DEF IInv, AnswerJustified
  <2>2. ~ resolveRequestedScopes(c.defaults, c.allowed).ok
    BY <1>1, <2>1 DEF Decide, Requested
  <2>3. c \in Records
    BY <1>1, <2>1 DEF IInv, TypeOK
  <2>4. ASSUME Validate(c)
        PROVE  FALSE
    <3>1. Normalize(c) = c
      BY <2>3, NormalizedTwice
    <3>2. \A s \in c.defaults : ~ containsScopeWildcard(s) /\ SetCovers(c.allowed, s)
      <4>1. ValidateScopePolicy(c) /\ \A s \in c.defaults : SetCovers(c.allowed, s)
        BY <2>4, <3>1, Zenon DEF Validate
      <4>2. \A s \in c.defaults : ~ containsScopeWildcard(s)
        BY <3>1, <4>1, Zenon DEF ValidateScopePolicy
      <4> QED
        BY <4>1, <4>2
    <3>3. resolveRequestedScopes(c.defaults, c.allowed).ok
      <4> DEFINE selectors == {s \in c.defaults : containsScopeWildcard(s)}
      <4>1. resolveRequestedScopes(c.defaults, c.allowed).ok
              <=> /\ \A s \in c.defaults : ValidWildcard(s)
                  /\ \A s \in selectors : Expand(s, c.allowed) # {}
                  /\ \A s \in c.defaults \ selectors : SetCovers(c.allowed, s)
        BY DEF resolveRequestedScopes
      <4>2. selectors = {}
        BY <3>2
      <4>3. \A s \in c.defaults : ValidWildcard(s)
        BY <3>2 DEF ValidWildcard
      <4> QED
        BY <3>2, <4>1, <4>2, <4>3
    <3> QED
      BY <2>2, <3>3
  <2> QED
    BY <2>1, <2>4
<1>2. IInv => DefaultsHonoured
  BY <1>1 DEF DefaultsHonoured
<1> QED
  BY <1>2, Invariance, PTL
-----------------------------------------------------------------------------
(* TokenService implements Issuance; the refinement mapping is Abstract. *)

\* The store holds a record under the record's own id.
Filed == \A id \in ClientIDs : clients[id] # None => clients[id].id = id

\* A handler that is at work has no token yet.
Tokenless == \A h \in Handlers : answer[h] = "" => token[h] = None

RInv == IInv /\ Filed /\ Tokenless

Phases == [h \in Handlers |-> PhaseOf(h)]
Verdict == [h \in Handlers |-> Pending(h)]

-----------------------------------------------------------------------------
\* The vocabulary of Issuance is that of TokenService.
LEMMA SameVocabulary ==
    /\ \A s : Abstract!containsScopeWildcard(s) <=> containsScopeWildcard(s)
    /\ \A s, t : Abstract!ScopeCovers(s, t) <=> ScopeCovers(s, t)
    /\ \A S, t : Abstract!SetCovers(S, t) <=> SetCovers(S, t)
    /\ \A c, w : Abstract!VerifySecret(c, w) <=> VerifySecret(c, w)
    /\ \A c : Abstract!Normalize(c) = Normalize(c)
<1>1. \A s : Abstract!containsScopeWildcard(s) <=> containsScopeWildcard(s)
  BY DEF Abstract!containsScopeWildcard, containsScopeWildcard
<1>2. \A s : Abstract!IsPattern(s) <=> IsPattern(s)
  BY DEF Abstract!IsPattern, IsPattern
<1>3. \A s : Abstract!ValidWildcard(s) <=> ValidWildcard(s)
  BY <1>1, <1>2 DEF Abstract!ValidWildcard, ValidWildcard
<1>4. \A s, t : Abstract!UnderPrefix(s, t) <=> UnderPrefix(s, t)
  BY DEF Abstract!UnderPrefix, UnderPrefix
<1>5. \A s, t : Abstract!ScopeCovers(s, t) <=> ScopeCovers(s, t)
  BY <1>2, <1>3, <1>4 DEF Abstract!ScopeCovers, ScopeCovers, Abstract!Blank, Blank
<1>6. \A S, t : Abstract!SetCovers(S, t) <=> SetCovers(S, t)
  BY <1>5 DEF Abstract!SetCovers, SetCovers
<1>7. \A c, w : Abstract!VerifySecret(c, w) <=> VerifySecret(c, w)
  BY DEF Abstract!VerifySecret, VerifySecret, Abstract!Digest, Digest
<1>8. \A c : Abstract!Normalize(c) = Normalize(c)
  BY DEF Abstract!Normalize, Normalize, Abstract!Blank, Blank
<1> QED
  BY <1>1, <1>5, <1>6, <1>7, <1>8

\* resolveRequestedScopes succeeds exactly when Issuance is satisfied, and what it
\* returns is what Issuance grants.
LEMMA ResolveIsGrant ==
    ASSUME NEW c \in Records, NEW wanted \in SUBSET (Scope \ {Blank})
    PROVE  LET resolved == resolveRequestedScopes(wanted, c.allowed)
           IN  /\ resolved.ok <=> Abstract!Satisfied(c, wanted)
               /\ resolved.ok => resolved.scopes = Abstract!Grant(c, wanted)
<1> DEFINE allowed == c.allowed
           resolved == resolveRequestedScopes(wanted, allowed)
           granted == Abstract!Grant(c, wanted)
           selectors == {s \in wanted : containsScopeWildcard(s)}
<1>0. allowed \in SUBSET (Scope \ {Blank})
  BY RecordType
<1>1. \A g : g \in granted <=> /\ g \in wanted \cup allowed
                               /\ ~ containsScopeWildcard(g)
                               /\ SetCovers(wanted, g) /\ SetCovers(allowed, g)
  BY SameVocabulary DEF Abstract!Grant
<1>2. Abstract!Satisfied(c, wanted)
        <=> \A s \in wanted : \E g \in granted : ScopeCovers(s, g) /\ (g = s \/ g \in allowed)
  BY SameVocabulary DEF Abstract!Satisfied
<1>3. \A s, g : g \in Expand(s, allowed)
                  <=> g \in allowed /\ ~ containsScopeWildcard(g) /\ ScopeCovers(s, g)
  BY DEF Expand
<1>4. /\ resolved.ok <=> /\ \A s \in wanted : ValidWildcard(s)
                         /\ \A s \in selectors : Expand(s, allowed) # {}
                         /\ \A s \in wanted \ selectors : SetCovers(allowed, s)
      /\ resolved.scopes = (wanted \ selectors) \cup UNION {Expand(s, allowed) : s \in selectors}
  BY DEF resolveRequestedScopes
<1>5. ASSUME resolved.ok
      PROVE  resolved.scopes = granted
  <2>1. ASSUME NEW i \in resolved.scopes
        PROVE  i \in granted
    <3>1. ~ containsScopeWildcard(i) /\ SetCovers(allowed, i) /\ SetCovers(wanted, i)
      BY <1>0, <1>5, Resolved
    <3>2. i \in wanted \cup allowed
      BY <1>3, <1>4
    <3> QED
      BY <1>1, <3>1, <3>2
  <2>2. ASSUME NEW g \in granted
        PROVE  g \in resolved.scopes
    <3>1. CASE g \in wanted
      BY <1>1, <1>4, <3>1
    <3>2. CASE g \notin wanted
      <4>1. PICK s \in wanted : ScopeCovers(s, g)
        BY <1>1 DEF SetCovers
      <4>2. s \in selectors
        BY <3>2, <4>1, ConcreteCoversItself
      <4>3. g \in Expand(s, allowed)
        BY <1>1, <1>3, <3>2, <4>1
      <4> QED
        BY <1>4, <4>2, <4>3
    <3> QED
      BY <3>1, <3>2
  <2> QED
    BY <2>1, <2>2
<1>6. ASSUME resolved.ok, NEW s \in wanted
      PROVE  \E g \in granted : ScopeCovers(s, g) /\ (g = s \/ g \in allowed)
  <2>1. CASE s \in selectors
    <3>1. PICK g \in Expand(s, allowed) : TRUE
      BY <1>4, <1>6, <2>1
    <3>2. g \in allowed /\ ScopeCovers(s, g)
      BY <1>3, <3>1
    <3>3. g \in resolved.scopes
      BY <1>4, <2>1, <3>1
    <3> QED
      BY <1>5, <1>6, <3>2, <3>3
  <2>2. CASE s \notin selectors
    <3>1. s \in granted
      BY <1>4, <1>5, <1>6, <2>2
    <3> QED
      BY <3>1, CoversSelf
  <2> QED
    BY <2>1, <2>2
<1>7. ASSUME Abstract!Satisfied(c, wanted)
      PROVE  resolved.ok
  <2>1. ASSUME NEW s \in wanted
        PROVE  /\ ValidWildcard(s)
               /\ s \in selectors => Expand(s, allowed) # {}
               /\ s \notin selectors => SetCovers(allowed, s)
    <3>1. PICK g \in granted : ScopeCovers(s, g) /\ (g = s \/ g \in allowed)
      BY <1>2, <1>7
    <3>2. ~ containsScopeWildcard(g) /\ SetCovers(allowed, g)
      BY <1>1
    <3>3. CASE s \in selectors
      <4>1. g # s
        BY <3>2, <3>3
      <4>2. ValidWildcard(s)
        BY <3>1, <4>1 DEF ScopeCovers, ValidWildcard
      <4> QED
        BY <1>3, <3>1, <3>2, <3>3, <4>1, <4>2
    <3>4. CASE s \notin selectors
      <4>1. g = s
        BY <3>1, <3>4, ConcreteCoversItself
      <4> QED
        BY <3>2, <3>4, <4>1 DEF ValidWildcard
    <3> QED
      BY <3>3, <3>4
  <2> QED
    BY <1>4, <2>1
<1> QED
  BY <1>2, <1>5, <1>6, <1>7

\* What issue decides about a record is what Issuance decides.
LEMMA DecisionIsVerdict ==
    ASSUME NEW c \in Records, NEW r \in Requests, ~ c.disabled
    PROVE  [answer |-> Decide(c, r),
            token  |-> IF Decide(c, r) = "token" THEN Claims(c, r) ELSE None]
             \in Abstract!Verdicts(c, r)
<1> DEFINE wanted == Requested(c, r)
           resolved == resolveRequestedScopes(wanted, c.allowed)
<1>1. wanted \in SUBSET (Scope \ {Blank})
  BY RecordType, InputsAssumption DEF Requested
<1>2. Abstract!Wanted(c, r) = wanted
  BY DEF Abstract!Wanted, Requested
<1>3. /\ resolved.ok <=> Abstract!Satisfied(c, wanted)
      /\ resolved.ok => resolved.scopes = Abstract!Grant(c, wanted)
  BY <1>1, ResolveIsGrant
<1>4. Abstract!Granted(c, r) <=> /\ VerifySecret(c, r.secret)
                                 /\ r.audience # "" /\ r.audience \in c.audiences
                                 /\ resolved.ok
  BY <1>2, <1>3, SameVocabulary DEF Abstract!Granted
<1>5. Abstract!Granted(c, r) <=> Decide(c, r) = "token"
  BY <1>4 DEF Decide
<1>6. CASE Abstract!Granted(c, r)
  <2>1. Claims(c, r) = [clientID |-> c.id, audience |-> r.audience,
                        scope |-> Abstract!Grant(c, wanted)]
    BY <1>3, <1>4, <1>6 DEF Claims
  <2> QED
    BY <1>2, <1>5, <1>6, <2>1 DEF Abstract!Verdicts
<1>7. CASE ~ Abstract!Granted(c, r) /\ VerifySecret(c, r.secret)
  <2>1. Decide(c, r) \in {"invalid_request", "invalid_target", "invalid_scope"}
    BY <1>5, <1>7 DEF Decide
  <2>2. \A code \in {"invalid_request", "invalid_target", "invalid_scope"} :
            Abstract!Refusal(code) \in Abstract!Verdicts(c, r)
    BY <1>7, SameVocabulary DEF Abstract!Verdicts
  <2> QED
    BY <1>5, <1>7, <2>1, <2>2 DEF Abstract!Refusal
<1>8. CASE ~ VerifySecret(c, r.secret)
  <2>1. Decide(c, r) = "invalid_client"
    BY <1>8 DEF Decide
  <2>2. Abstract!Verdicts(c, r) = {Abstract!Refusal("invalid_client")}
    BY <1>4, <1>8, SameVocabulary DEF Abstract!Verdicts
  <2> QED
    BY <2>1, <2>2 DEF Abstract!Refusal
<1> QED
  BY <1>6, <1>7, <1>8

\* The enabled clients that a request can be from are those FindClient finds.
LEMMA EnabledIsFound ==
    ASSUME RInv, NEW r \in Requests
    PROVE  Abstract!Enabled(r) = {c \in Stored(r.id) : ~ c.disabled}
<1>1. \A id \in ClientIDs : clients[id] # None => clients[id].id = id
  BY DEF RInv, Filed
<1> QED
  BY <1>1 DEF Abstract!Enabled, Stored

-----------------------------------------------------------------------------
\* A step that leaves the other handlers alone moves only h in Issuance.
LEMMA OneMoves ==
    ASSUME TypeOK, TypeOK', NEW h \in Handlers,
           \A g \in Handlers \ {h} : /\ pc'[g] = pc[g] /\ request'[g] = request[g]
                                     /\ client'[g] = client[g]
    PROVE  /\ Phases' = [Phases EXCEPT ![h] = PhaseOf(h)']
           /\ Verdict' = [Verdict EXCEPT ![h] = Pending(h)']
<1>1. ASSUME NEW g \in Handlers \ {h}
      PROVE  PhaseOf(g)' = PhaseOf(g) /\ Pending(g)' = Pending(g)
  <2>1. pc'[g] = pc[g] /\ request'[g] = request[g] /\ client'[g] = client[g]
    OBVIOUS
  <2>2. PhaseOf(g)' = PhaseOf(g)
    BY <2>1 DEF PhaseOf
  <2>3. Pending(g)' = Pending(g)
    BY <2>1 DEF Pending
  <2> QED
    BY <2>2, <2>3
<1> QED
  BY <1>1 DEF Phases, Verdict

\* A step that leaves every handler's work alone is not seen by Issuance.
LEMMA NobodyMoves ==
    ASSUME UNCHANGED <<pc, request, client>>
    PROVE  Phases' = Phases /\ Verdict' = Verdict
<1>1. ASSUME NEW g \in Handlers
      PROVE  PhaseOf(g)' = PhaseOf(g) /\ Pending(g)' = Pending(g)
  BY DEF PhaseOf, Pending
<1> QED
  BY <1>1 DEF Phases, Verdict

\* A handler that is not at issue has nothing decided.
LEMMA NothingPending ==
    ASSUME NEW h \in Handlers, pc[h] # "issue"
    PROVE  Pending(h) = None
BY DEF Pending

\* TokenHTTP refuses without a look at the store what Issuance calls malformed.
LEMMA EarlyIsMalformed ==
    ASSUME NEW r \in Requests
    PROVE  /\ Early(r) = "" <=> Abstract!WellFormed(r)
           /\ Early(r) \in {"", "invalid_request", "unsupported_grant_type", "invalid_client"}
<1>1. CASE r.form
  BY <1>1 DEF Early, Abstract!WellFormed
<1>2. CASE ~ r.form
  <2>1. Early(r) = "invalid_request"
    BY <1>2 DEF Early
  <2>2. ~ Abstract!WellFormed(r)
    BY <1>2 DEF Abstract!WellFormed
  <2> QED
    BY <2>1, <2>2
<1> QED
  BY <1>1, <1>2

\* Receive refuses a request that is no token request, or accepts it.
LEMMA ReceiveMaps ==
    ASSUME RInv, TypeOK', NEW h \in Handlers, NEW r \in Requests, Receive(h, r)
    PROVE  Abstract!Next
<1> DEFINE early == Early(r)
<1>1. /\ request[h] = None /\ pc[h] = "idle"
      /\ request' = [request EXCEPT ![h] = r]
      /\ token' = [token EXCEPT ![h] = None]
      /\ UNCHANGED <<clients, client>>
  BY InputsAssumption DEF Receive, RInv, IInv, TypeOK, ClientSeen
<1>2. /\ answer' = [answer EXCEPT ![h] = early]
      /\ pc' = [pc EXCEPT ![h] = IF early = "" THEN "find" ELSE "idle"]
      /\ early = "" <=> Abstract!WellFormed(r)
      /\ early \in {"", "invalid_request", "unsupported_grant_type", "invalid_client"}
  BY EarlyIsMalformed DEF Receive
<1>3. /\ Phases' = [Phases EXCEPT ![h] = PhaseOf(h)']
      /\ Verdict' = [Verdict EXCEPT ![h] = Pending(h)']
  BY <1>1, <1>2, OneMoves DEF RInv, IInv, TypeOK
<1>4. pc'[h] = IF early = "" THEN "find" ELSE "idle"
  BY <1>2 DEF RInv, IInv, TypeOK
<1>5. Pending(h)' = None /\ Verdict[h] = None
  BY <1>1, <1>4 DEF Pending, Verdict
<1>6. PhaseOf(h)' = IF early = "" THEN "waiting" ELSE "idle"
  BY <1>4 DEF PhaseOf
<1>7. CASE early = ""
  <2>1. Verdict' = Verdict
    BY <1>3, <1>5 DEF Verdict
  <2>2. Abstract!Accept(h, r)
    BY <1>1, <1>2, <1>3, <1>6, <1>7, <2>1 DEF Abstract!Accept, Phases, Verdict
  <2> QED
    BY <2>2 DEF Abstract!Next
<1>8. CASE early # ""
  <2>1. Abstract!Reply(h, Abstract!Refusal(early))
    BY <1>1, <1>2, <1>3, <1>5, <1>6, <1>8
    DEF Abstract!Reply, Abstract!Refusal, Phases, Verdict
  <2>2. Abstract!RefuseMalformed(h, r)
    BY <1>1, <1>2, <1>8, <2>1 DEF Abstract!RefuseMalformed
  <2> QED
    BY <2>2 DEF Abstract!Next
<1> QED
  BY <1>7, <1>8

\* FindClient is the instant that counts: its answer, or the copy of the record
\* that it takes, settles the decision.
LEMMA FindClientMaps ==
    ASSUME RInv, TypeOK', NEW h \in Handlers, FindClient(h)
    PROVE  Abstract!Next
<1> DEFINE r == request[h]
           found == {c \in Stored(r.id) : ~ c.disabled}
<1>1. /\ pc[h] = "find" /\ r \in Requests
      /\ found = Abstract!Enabled(r) /\ found \subseteq Records
      /\ UNCHANGED <<clients, request, token, seen>>
  BY EnabledIsFound, StoredType DEF FindClient, RInv, IInv, ClientSeen
<1>2. Phases[h] = "waiting" /\ Verdict[h] = None
  BY <1>1 DEF Phases, Verdict, PhaseOf, Pending
<1>3. CASE /\ pc' = [pc EXCEPT ![h] = "issue"] /\ UNCHANGED answer
           /\ \E c \in found : client' = [client EXCEPT ![h] = c]
  <2>1. PICK c \in found : client' = [client EXCEPT ![h] = c]
    BY <1>3
  <2>2. pc'[h] = "issue" /\ client'[h] = c /\ request'[h] = r
    BY <1>1, <1>3, <2>1 DEF RInv, IInv, TypeOK
  <2>3. PhaseOf(h)' = "decided"
    BY <2>2 DEF PhaseOf
  <2> DEFINE v == [answer |-> Decide(c, r),
                   token  |-> IF Decide(c, r) = "token" THEN Claims(c, r) ELSE None]
  <2>4. Pending(h)' = v
    BY <2>2 DEF Pending
  <2>5. /\ Phases' = [Phases EXCEPT ![h] = "decided"]
        /\ Verdict' = [Verdict EXCEPT ![h] = v]
    BY <1>1, <1>3, <2>1, <2>3, <2>4, OneMoves DEF RInv, IInv, TypeOK
  <2>6. v \in Abstract!Verdicts(c, r)
    BY <1>1, <2>1, DecisionIsVerdict
  <2>7. Abstract!Judge(h)
    BY <1>1, <1>2, <1>3, <2>1, <2>5, <2>6 DEF Abstract!Judge, Phases, Verdict
  <2> QED
    BY <2>7 DEF Abstract!Next
<1>4. CASE /\ found = {} /\ pc' = [pc EXCEPT ![h] = "idle"] /\ UNCHANGED client
           /\ answer' = [answer EXCEPT ![h] = "invalid_client"]
  <2>1. pc'[h] = "idle"
    BY <1>4 DEF RInv, IInv, TypeOK
  <2>2. PhaseOf(h)' = "idle" /\ Pending(h)' = None
    BY <2>1 DEF PhaseOf, Pending
  <2>3. /\ Phases' = [Phases EXCEPT ![h] = "idle"]
        /\ Verdict' = [Verdict EXCEPT ![h] = None]
    BY <1>1, <1>4, <2>2, OneMoves DEF RInv, IInv, TypeOK
  <2>4. token' = [token EXCEPT ![h] = None]
    BY <1>1 DEF RInv, IInv, TypeOK, ClientSeen, Tokenless
  <2>5. Abstract!RefuseStranger(h)
    BY <1>1, <1>2, <1>4, <2>3, <2>4
    DEF Abstract!RefuseStranger, Abstract!Reply, Abstract!Refusal, Phases, Verdict
  <2> QED
    BY <2>5 DEF Abstract!Next
<1> QED
  BY <1>3, <1>4 DEF FindClient

\* A failing store makes the answer a server error.
LEMMA StoreFailsMaps ==
    ASSUME RInv, TypeOK', NEW h \in Handlers, StoreFails(h)
    PROVE  Abstract!Next
<1>1. Phases[h] = "waiting" /\ answer[h] = "" /\ UNCHANGED <<clients, request, client, token>>
  BY DEF StoreFails, RInv, IInv, ClientSeen, Phases, PhaseOf
<1>2. /\ pc' = [pc EXCEPT ![h] = "idle"]
      /\ answer' = [answer EXCEPT ![h] = "server_error"]
  BY DEF StoreFails
<1>3. pc'[h] = "idle"
  BY <1>2 DEF RInv, IInv, TypeOK
<1>4. PhaseOf(h)' = "idle" /\ Pending(h)' = None
  BY <1>3 DEF PhaseOf, Pending
<1>5. /\ Phases' = [Phases EXCEPT ![h] = "idle"]
      /\ Verdict' = [Verdict EXCEPT ![h] = None]
  BY <1>1, <1>2, <1>4, OneMoves DEF RInv, IInv, TypeOK
<1>6. token' = [token EXCEPT ![h] = None]
  BY <1>1 DEF RInv, IInv, TypeOK, Tokenless
<1>7. Abstract!Fail(h)
  BY <1>1, <1>2, <1>5, <1>6
  DEF Abstract!Fail, Abstract!Reply, Abstract!Refusal, Phases, Verdict
<1> QED
  BY <1>7 DEF Abstract!Next

\* The answer of issue is what was decided when the client was found, or a server
\* error where a token was due.
LEMMA IssueMaps ==
    ASSUME RInv, TypeOK', NEW h \in Handlers, Issue(h)
    PROVE  Abstract!Next
<1> DEFINE decision == Decide(client[h], request[h])
           v == [answer |-> decision,
                 token  |-> IF decision = "token" THEN Claims(client[h], request[h]) ELSE None]
<1>1. /\ pc[h] = "issue" /\ answer[h] = "" /\ UNCHANGED <<clients, request>>
      /\ pc' = [pc EXCEPT ![h] = "idle"] /\ client' = [client EXCEPT ![h] = None]
  BY DEF Issue, RInv, IInv, ClientSeen
<1>2. Phases[h] = "decided" /\ Verdict[h] = v
  BY <1>1 DEF Phases, Verdict, PhaseOf, Pending
<1>3. pc'[h] = "idle"
  BY <1>1 DEF RInv, IInv, TypeOK
<1>4. PhaseOf(h)' = "idle" /\ Pending(h)' = None
  BY <1>3 DEF PhaseOf, Pending
<1>5. /\ Phases' = [Phases EXCEPT ![h] = "idle"]
      /\ Verdict' = [Verdict EXCEPT ![h] = None]
  BY <1>1, <1>4, OneMoves DEF RInv, IInv, TypeOK
<1>6. CASE answer' = [answer EXCEPT ![h] = v.answer] /\ token' = [token EXCEPT ![h] = v.token]
  <2>1. Abstract!Reply(h, Verdict[h])
    BY <1>2, <1>5, <1>6 DEF Abstract!Reply, Phases, Verdict
  <2>2. Abstract!Answer(h)
    BY <1>1, <1>2, <2>1 DEF Abstract!Answer, Phases, Verdict
  <2> QED
    BY <2>2 DEF Abstract!Next
<1>7. CASE /\ answer' = [answer EXCEPT ![h] = "server_error"]
           /\ decision = "token" /\ UNCHANGED token
  <2>1. token' = [token EXCEPT ![h] = None]
    BY <1>1, <1>7 DEF RInv, IInv, TypeOK, Tokenless
  <2>2. Phases[h] = "decided" /\ Verdict[h].answer = "token"
    BY <1>2, <1>7
  <2>3. Abstract!Fail(h)
    BY <1>1, <1>5, <1>7, <2>1, <2>2
    DEF Abstract!Fail, Abstract!Reply, Abstract!Refusal, Phases, Verdict
  <2> QED
    BY <2>3 DEF Abstract!Next
<1> QED
  BY <1>6, <1>7 DEF Issue

\* Upsert replaces a record, and nothing that was decided changes with it.
LEMMA UpsertMaps ==
    ASSUME RInv, NEW c \in Clients, Upsert(c)
    PROVE  Abstract!Next
<1>1. Phases' = Phases /\ Verdict' = Verdict
  BY NobodyMoves DEF Upsert
<1>2. Abstract!Replace(c)
  BY <1>1, SameVocabulary DEF Upsert, Abstract!Replace, Phases, Verdict
<1> QED
  BY <1>2 DEF Abstract!Next

\* Every step of the handlers is a step of Issuance or is not seen.
LEMMA NextMaps ==
    ASSUME RInv, TypeOK', [Next]_vars
    PROVE  [Abstract!Next]_(Abstract!vars)
<1>1. CASE Next
  BY <1>1, ReceiveMaps, FindClientMaps, StoreFailsMaps, IssueMaps, UpsertMaps DEF Next
<1>2. CASE UNCHANGED vars
  <2>1. Phases' = Phases /\ Verdict' = Verdict
    BY <1>2, NobodyMoves DEF vars
  <2> QED
    BY <1>2, <2>1 DEF vars, Abstract!vars, Phases, Verdict
<1> QED
  BY <1>1, <1>2

\* The handlers start as Issuance does.
LEMMA InitMaps == Init => Abstract!Init
BY DEF Init, Abstract!Init, PhaseOf, Pending

\* Every step preserves what the mapping needs.
LEMMA StepRInv == RInv /\ TypeOK' /\ [Next]_vars => Filed' /\ Tokenless'
<1> SUFFICES ASSUME RInv, TypeOK', [Next]_vars
             PROVE  Filed' /\ Tokenless'
  OBVIOUS
<1>0. ASSUME NEW h \in Handlers, NEW code, answer' = [answer EXCEPT ![h] = code], code # "",
             token' = token, clients' = clients
      PROVE  Filed' /\ Tokenless'
  <2>1. Filed /\ Tokenless /\ DOMAIN answer = Handlers
    BY DEF RInv, IInv, TypeOK
  <2>2. \A g \in Handlers : answer'[g] = "" => answer[g] = ""
    BY <1>0, <2>1
  <2> QED
    BY <1>0, <2>1, <2>2 DEF Filed, Tokenless
<1>1. ASSUME NEW h \in Handlers, NEW r \in Requests, Receive(h, r)
      PROVE  Filed' /\ Tokenless'
  <2>1. clients' = clients /\ token' = [token EXCEPT ![h] = None]
        /\ answer' = [answer EXCEPT ![h] = Early(r)]
    BY <1>1 DEF Receive
  <2>2. Filed /\ Tokenless /\ DOMAIN answer = Handlers /\ DOMAIN token = Handlers
    BY DEF RInv, IInv, TypeOK
  <2> QED
    BY <2>1, <2>2 DEF Filed, Tokenless
<1>2. ASSUME NEW h \in Handlers, FindClient(h)
      PROVE  Filed' /\ Tokenless'
  <2>1. /\ clients' = clients /\ token' = token
        /\ answer' = answer \/ answer' = [answer EXCEPT ![h] = "invalid_client"]
    BY <1>2 DEF FindClient
  <2>2. CASE answer' = answer
    BY <2>1, <2>2 DEF RInv, Filed, Tokenless
  <2>3. CASE answer' = [answer EXCEPT ![h] = "invalid_client"]
    BY <1>0, <2>1, <2>3
  <2> QED
    BY <2>1, <2>2, <2>3
<1>3. ASSUME NEW h \in Handlers, StoreFails(h)
      PROVE  Filed' /\ Tokenless'
  <2>1. /\ clients' = clients /\ token' = token
        /\ answer' = [answer EXCEPT ![h] = "server_error"]
    BY <1>3 DEF StoreFails
  <2> QED
    BY <1>0, <2>1
<1>4. ASSUME NEW h \in Handlers, Issue(h)
      PROVE  Filed' /\ Tokenless'
  <2>1. answer'[h] # ""
    BY <1>4 DEF Issue, Decide, RInv, IInv, TypeOK
  <2>2. ASSUME NEW g \in Handlers \ {h}
        PROVE  answer'[g] = answer[g] /\ token'[g] = token[g]
    <3> DEFINE decision == Decide(client[h], request[h])
               claims == Claims(client[h], request[h])
    <3>1. /\ answer \in [Handlers -> {"", "token", "invalid_request", "unsupported_grant_type",
                                      "invalid_client", "invalid_target", "invalid_scope",
                                      "server_error"}]
          /\ token \in [Handlers -> AccessTokens \cup {None}]
      BY DEF RInv, IInv, TypeOK
    <3>2. \/ /\ answer' = [answer EXCEPT ![h] = decision]
             /\ token' = [token EXCEPT ![h] = IF decision = "token" THEN claims ELSE None]
          \/ answer' = [answer EXCEPT ![h] = "server_error"] /\ token' = token
      BY <1>4 DEF Issue
    <3> QED
      BY <3>1, <3>2
  <2>3. UNCHANGED clients
    BY <1>4 DEF Issue
  <2> QED
    BY <2>1, <2>2, <2>3 DEF RInv, Filed, Tokenless
<1>5. ASSUME NEW c \in Clients, Upsert(c)
      PROVE  Filed' /\ Tokenless'
  <2>1. answer' = answer /\ token' = token
    BY <1>5 DEF Upsert
  <2>2. Filed'
    BY <1>5 DEF Upsert, RInv, Filed, IInv, TypeOK
  <2> QED
    BY <2>1, <2>2 DEF RInv, Tokenless
<1>6. CASE UNCHANGED vars
  BY <1>6 DEF vars, RInv, Filed, Tokenless
<1> QED
  BY <1>1, <1>2, <1>3, <1>4, <1>5, <1>6 DEF Next

\* Handlers that take several steps on copies of records decide as Issuance does.
THEOREM HandlersIssue == Spec => ImplementsIssuance
<1>1. Init => Filed /\ Tokenless
  BY DEF Init, Filed, Tokenless
<1>2. IInv => TypeOK
  BY DEF IInv
<1>3. IInv /\ IInv' /\ Filed /\ Tokenless /\ [Next]_vars => Filed' /\ Tokenless'
  BY StepRInv DEF RInv, IInv
<1>4. IInv /\ IInv' /\ Filed /\ Tokenless /\ [Next]_vars => [Abstract!Next]_(Abstract!vars)
  BY NextMaps DEF RInv, IInv
<1> QED
  BY Invariance, InitMaps, <1>1, <1>3, <1>4, PTL DEF Spec, ImplementsIssuance, Abstract!Spec

-----------------------------------------------------------------------------
(* The inductive invariant: where a token comes from *)

\* What issueAccessToken makes of claims.
Signed(claims, at) ==
    [iss |-> Issuer, sub |-> claims.clientID, aud |-> claims.audience,
     exp |-> NumericDate(at + AccessTokenTTL), nbf |-> NumericDate(at), iat |-> NumericDate(at),
     clientID |-> claims.clientID, scope |-> claims.scope, use |-> "access",
     alg |-> "EdDSA", kid |-> KID]

\* Record c is in the store, or has been since the given time.
StoredSince(c, time) == clients[c.id] = c \/ \E l \in left[c] : l >= time

\* Record c allows a token for target t, and was in the store not long before.
Allows(c, t, at) ==
    Decide(c, TokenRequest(t)) = "token" /\ StoredSince(c, at - MaxDelay)

\* The token tok was signed for target t on behalf of some record.
Genuine(t, tok, at) ==
    \E c \in Records : Allows(c, t, at) /\ tok = Signed(Claims(c, TokenRequest(t)), at)

Lifetime == (AccessTokenTTL \div Second) * Second

EndTypes ==
    /\ now \in Nat
    /\ asked \in [Handlers -> Targets \cup {None}]
    /\ stamp \in [Handlers -> Nat]
    /\ left \in [Records -> SUBSET Nat]
    /\ cache = [t \in Targets |-> cache[t]]
    /\ \A id \in ClientIDs : clients[id] # None => clients[id].id = id

HandlerOK(h) ==
    /\ asked[h] = None => request[h] = None /\ pc[h] = "idle"
    /\ asked[h] # None =>
          /\ request[h] = TokenRequest(asked[h])
          /\ stamp[h] <= now /\ now <= stamp[h] + MaxDelay
          /\ pc[h] = "issue" => client[h] \in Records /\ StoredSince(client[h], stamp[h])
          /\ (pc[h] = "idle" /\ answer[h] = "token") =>
                \E c \in Records : /\ Allows(c, asked[h], stamp[h])
                                   /\ token[h] = Claims(c, TokenRequest(asked[h]))

EntryOK(t) ==
    cache[t] # None =>
        /\ cache[t].expiresIn = AccessTokenTTL \div Second
        /\ \E at \in 0..now : /\ Genuine(t, cache[t].token, at)
                              /\ cache[t].expiresAt \in Int
                              /\ cache[t].expiresAt <= at + MaxDelay + Lifetime

RequestOK(m) ==
    /\ m.route \in Routes
    /\ \/ m.target = None /\ ~ BearerToken(m.header)
       \/ /\ m.target \in Targets
          /\ m.at \in 0..now
          /\ \E at \in 0..m.at :
                /\ m.header = <<"Bearer", m.header[2]>>
                /\ Genuine(m.target, m.header[2], at)
                /\ m.at + EffectiveSkew < at + MaxDelay + Lifetime

VerdictOK ==
    verdict # None =>
        LET m == verdict.request
        IN  /\ RequestOK(m)
            /\ verdict.code = Outcome(GuardOf(m.route), m.header, now + m.route.skew)

EndIInv == /\ IInv /\ EndTypes
           /\ \A h \in Handlers : HandlerOK(h)
           /\ \A t \in Targets : EntryOK(t)
           /\ \A m \in wire : RequestOK(m)
           /\ VerdictOK

-----------------------------------------------------------------------------
(* Arithmetic *)

\* jwt.NewNumericDate loses less than a second.
LEMMA RoundedDown ==
    ASSUME NEW x \in Int
    PROVE  NumericDate(x) \in Int /\ NumericDate(x) <= x /\ x < NumericDate(x) + Second
<1> DEFINE q == x \div Second
           r == x % Second
<1>1. Second \in Nat \ {0}
  BY DurationsAssumption
<1>2. q \in Int /\ r \in 0..(Second - 1) /\ x = Second * q + r
  BY <1>1
<1>3. q * Second = Second * q
  BY <1>1, <1>2
<1>4. q * Second \in Int
  BY <1>1, <1>2
<1> QED
  BY <1>1, <1>2, <1>3, <1>4 DEF NumericDate

\* The lifetime in whole seconds, which is what the client is told (expires_in), and
\* how long before its expiry it stops using a token, are whole numbers.
LEMMA LifetimeRounded ==
    /\ Lifetime \in Int /\ Lifetime <= AccessTokenTTL /\ AccessTokenTTL < Lifetime + Second
    /\ EffectiveSkew \in Int
<1>1. AccessTokenTTL \in Nat /\ RefreshSkew \in Nat /\ Second \in Nat /\ MaxDelay \in Nat
  BY DurationsAssumption
<1>2. Lifetime = NumericDate(AccessTokenTTL)
  BY DEF Lifetime, NumericDate
<1>3. Lifetime \in Int /\ Lifetime <= AccessTokenTTL /\ AccessTokenTTL < Lifetime + Second
  BY <1>1, <1>2, RoundedDown
<1>4. EffectiveSkew = IF RefreshSkew >= Lifetime THEN Lifetime \div 10 ELSE RefreshSkew
  BY DEF EffectiveSkew, Lifetime
<1>5. Lifetime \div 10 \in Int
  BY <1>3
<1> QED
  BY <1>1, <1>3, <1>4, <1>5

-----------------------------------------------------------------------------
(* What every step keeps *)

\* Time does not go back, and a record that was in the store at some time was in it
\* since that time for ever after.
Grows ==
    /\ now' \in Nat /\ now <= now'
    /\ \A c \in Records, time \in Int :
          (time <= now /\ StoredSince(c, time)) => StoredSince(c, time)'

\* A token that was signed for a target stays one that was.
LEMMA GenuineKept ==
    ASSUME EndTypes, Grows, NEW t, NEW tok, NEW at \in 0..now, Genuine(t, tok, at)
    PROVE  Genuine(t, tok, at)'
<1>1. PICK c \in Records : Allows(c, t, at) /\ tok = Signed(Claims(c, TokenRequest(t)), at)
  BY DEF Genuine
<1>2. MaxDelay \in Nat /\ now \in Nat
  BY DurationsAssumption DEF EndTypes
<1>3. at - MaxDelay \in Int /\ at - MaxDelay <= now
  BY <1>2
<1>4. StoredSince(c, at - MaxDelay)'
  BY <1>1, <1>3 DEF Allows, Grows
<1> QED
  BY <1>1, <1>4 DEF Genuine, Allows

\* So does the token of a request on its way.
LEMMA RequestKept ==
    ASSUME EndTypes, Grows, NEW m, RequestOK(m)
    PROVE  RequestOK(m)'
<1>1. CASE m.target \in Targets /\ ~ (m.target = None /\ ~ BearerToken(m.header))
  <2>1. PICK at \in 0..m.at : /\ m.header = <<"Bearer", m.header[2]>>
                              /\ Genuine(m.target, m.header[2], at)
                              /\ m.at + EffectiveSkew < at + MaxDelay + Lifetime
    BY <1>1 DEF RequestOK
  <2>2. m.at \in 0..now /\ m.at \in 0..now' /\ at \in 0..now
    BY <1>1, <2>1 DEF RequestOK, Grows, EndTypes
  <2>3. Genuine(m.target, m.header[2], at)'
    BY <2>1, <2>2, GenuineKept
  <2> QED
    BY <1>1, <2>1, <2>2, <2>3 DEF RequestOK
<1>2. CASE m.target = None /\ ~ BearerToken(m.header)
  BY <1>2 DEF RequestOK
<1> QED
  BY <1>1, <1>2 DEF RequestOK

\* A cache entry that stays is as good as it was.
LEMMA EntryKept ==
    ASSUME EndTypes, Grows, NEW t, EntryOK(t), cache'[t] \in {cache[t], None}
    PROVE  EntryOK(t)'
<1> SUFFICES ASSUME cache'[t] # None
             PROVE  EntryOK(t)'
  BY DEF EntryOK
<1>1. cache'[t] = cache[t] /\ cache[t] # None
  OBVIOUS
<1>2. PICK at \in 0..now : /\ Genuine(t, cache[t].token, at)
                           /\ cache[t].expiresAt \in Int
                           /\ cache[t].expiresAt <= at + MaxDelay + Lifetime
  BY <1>1 DEF EntryOK
<1>3. at \in 0..now'
  BY DEF EndTypes, Grows
<1>4. PICK tok : tok = cache[t].token
  OBVIOUS
<1>5. Genuine(t, tok, at)'
  BY <1>2, <1>4, GenuineKept
<1>6. Genuine(t, cache[t].token, at)'
  BY <1>1, <1>4, <1>5 DEF Genuine
<1> QED
  BY <1>1, <1>2, <1>3, <1>6 DEF EntryOK

\* A handler that does nothing and has time left stays as it is.
LEMMA HandlerKept ==
    ASSUME EndTypes, Grows, NEW h \in Handlers, HandlerOK(h),
           asked'[h] = asked[h], stamp'[h] = stamp[h], request'[h] = request[h], pc'[h] = pc[h],
           client'[h] = client[h], answer'[h] = answer[h], token'[h] = token[h],
           asked[h] # None => now' <= stamp[h] + MaxDelay
    PROVE  HandlerOK(h)'
<1> SUFFICES ASSUME asked[h] # None
             PROVE  HandlerOK(h)'
  BY DEF HandlerOK
<1>1. stamp[h] \in Nat /\ now \in Nat /\ now' \in Nat /\ stamp[h] <= now /\ now <= now'
      /\ MaxDelay \in Nat
  BY DurationsAssumption DEF EndTypes, HandlerOK, Grows
<1>2. ASSUME NEW c \in Records, StoredSince(c, stamp[h])
      PROVE  StoredSince(c, stamp[h])'
  <2>1. PICK time \in Int : time = stamp[h]
    BY <1>1
  <2>2. StoredSince(c, time)'
    BY <1>1, <1>2, <2>1 DEF Grows
  <2> QED
    BY <2>1, <2>2 DEF StoredSince
<1>3. ASSUME NEW c \in Records, Allows(c, asked[h], stamp[h])
      PROVE  Allows(c, asked[h], stamp[h])'
  <2>1. PICK time \in Int : time = stamp[h] - MaxDelay
    BY <1>1
  <2>2. StoredSince(c, time)'
    BY <1>1, <1>3, <2>1 DEF Grows, Allows
  <2> QED
    BY <1>3, <2>1, <2>2 DEF StoredSince, Allows
<1>4. (pc[h] = "issue" => client[h] \in Records /\ StoredSince(client[h], stamp[h]))'
  <2> SUFFICES ASSUME pc[h] = "issue"
               PROVE  client'[h] \in Records /\ StoredSince(client[h], stamp[h])'
    OBVIOUS
  <2>1. PICK c \in Records : c = client[h] /\ StoredSince(c, stamp[h])
    BY DEF HandlerOK
  <2>2. StoredSince(c, stamp[h])'
    BY <1>2, <2>1
  <2> QED
    BY <2>1, <2>2 DEF StoredSince
<1>5. ((pc[h] = "idle" /\ answer[h] = "token") =>
           \E c \in Records : /\ Allows(c, asked[h], stamp[h])
                              /\ token[h] = Claims(c, TokenRequest(asked[h])))'
  <2> SUFFICES ASSUME pc[h] = "idle", answer[h] = "token"
               PROVE  (\E c \in Records : /\ Allows(c, asked[h], stamp[h])
                                          /\ token[h] = Claims(c, TokenRequest(asked[h])))'
    OBVIOUS
  <2>1. PICK c \in Records : /\ Allows(c, asked[h], stamp[h])
                             /\ token[h] = Claims(c, TokenRequest(asked[h]))
    BY DEF HandlerOK
  <2>2. Allows(c, asked[h], stamp[h])'
    BY <1>3, <2>1
  <2> QED
    BY <2>1, <2>2
<1> QED
  BY <1>1, <1>4, <1>5 DEF HandlerOK

\* A step that touches the cache by purgeStaleLocked at most, and no request on its
\* way, keeps what is known of them.
LEMMA RestKept ==
    ASSUME EndIInv, Grows, cache' = Purged \/ cache' = cache, wire' = wire, verdict' = None
    PROVE  /\ \A t \in Targets : EntryOK(t)'
           /\ \A m \in wire' : RequestOK(m)'
           /\ VerdictOK'
           /\ cache' = [t \in Targets |-> cache'[t]]
<1>1. ASSUME NEW t \in Targets
      PROVE  EntryOK(t)'
  <2>1. cache'[t] \in {cache[t], None}
    BY DEF Purged
  <2> QED
    BY <2>1, EntryKept DEF EndIInv
<1>2. ASSUME NEW m \in wire'
      PROVE  RequestOK(m)'
  BY <1>2, RequestKept DEF EndIInv
<1>3. VerdictOK'
  BY DEF VerdictOK
<1>4. cache' = [t \in Targets |-> cache'[t]]
  BY DEF Purged, EndIInv, EndTypes
<1> QED
  BY <1>1, <1>2, <1>3, <1>4

\* Nothing is lost as long as Upsert is not called.
LEMMA GrowsQuietly ==
    ASSUME EndTypes, clients' = clients, left' = left, now' \in {now, now + 1}
    PROVE  Grows
<1>1. now' \in Nat /\ now <= now'
  BY DEF EndTypes
<1>2. \A c \in Records, time \in Int : StoredSince(c, time) => StoredSince(c, time)'
  BY DEF StoredSince
<1> QED
  BY <1>1, <1>2 DEF Grows

\* A record that has been in the store since some time has been since any earlier one.
LEMMA StoredEarlier ==
    ASSUME EndTypes, NEW c \in Records, NEW later \in Int, NEW time \in Int, time <= later,
           StoredSince(c, later)
    PROVE  StoredSince(c, time)
<1>1. CASE \E l \in left[c] : l >= later
  <2>1. PICK l \in left[c] : l >= later
    BY <1>1
  <2>2. l \in Nat
    BY DEF EndTypes
  <2> QED
    BY <2>1, <2>2 DEF StoredSince
<1> QED
  BY <1>1 DEF StoredSince

-----------------------------------------------------------------------------
(* Every step preserves the inductive invariant *)

\* The initial state satisfies the inductive invariant.
LEMMA EndInitIInv == EndInit => EndIInv
<1> SUFFICES ASSUME EndInit
             PROVE  EndIInv
  OBVIOUS
<1>1. IInv
  BY InitIInv DEF EndInit
<1>2. EndTypes
  BY DEF EndInit, Init, EndTypes
<1>3. \A h \in Handlers : HandlerOK(h)
  BY DEF EndInit, Init, HandlerOK
<1>4. (\A t \in Targets : EntryOK(t)) /\ (\A m \in wire : RequestOK(m)) /\ VerdictOK
  BY DEF EndInit, EntryOK, VerdictOK
<1> QED
  BY <1>1, <1>2, <1>3, <1>4 DEF EndIInv

\* A request to the token endpoint (Ask).
LEMMA AskStep ==
    ASSUME EndIInv, NEW h \in Handlers, NEW t \in Targets, Ask(h, t), verdict' = None
    PROVE  EndIInv'
<1>1. PICK r \in Requests : r = TokenRequest(t)
  BY TargetsAssumption
<1>2. Receive(h, r)
  BY <1>1 DEF Ask
<1>3. IInv'
  BY <1>2, ReceiveStep DEF EndIInv
<1>4. clients' = clients /\ client' = client /\ left' = left /\ now' = now /\ wire' = wire
      /\ cache' = Purged
  BY <1>2 DEF Receive, Ask
<1>5. EndTypes /\ Grows
  BY <1>4, GrowsQuietly DEF EndIInv
<1>6. (\A u \in Targets : EntryOK(u)') /\ (\A m \in wire' : RequestOK(m)') /\ VerdictOK'
      /\ cache' = [u \in Targets |-> cache'[u]]
  BY <1>4, <1>5, RestKept
<1>7. EndTypes'
  <2>1. asked' \in [Handlers -> Targets \cup {None}] /\ stamp' \in [Handlers -> Nat]
    BY <1>5 DEF Ask, EndTypes
  <2> QED
    BY <1>4, <1>5, <1>6, <2>1 DEF EndTypes
<1>8. HandlerOK(h)'
  <2>1. Early(r) # "token"
    BY DEF Early
  <2>2. asked'[h] = t /\ stamp'[h] = now /\ request'[h] = r /\ answer'[h] = Early(r)
        /\ pc'[h] # "issue"
    BY <1>2, <1>5 DEF Receive, Ask, EndIInv, IInv, TypeOK, EndTypes
  <2>3. now \in Nat /\ MaxDelay \in Nat
    BY <1>5, DurationsAssumption DEF EndTypes
  <2>4. t # None
    BY TargetsAssumption
  <2>5. request'[h] = TokenRequest(asked[h])'
    BY <1>1, <2>2
  <2> QED
    BY <1>4, <2>1, <2>2, <2>3, <2>4, <2>5 DEF HandlerOK
<1>9. ASSUME NEW g \in Handlers \ {h}
      PROVE  HandlerOK(g)'
  <2>1. asked'[g] = asked[g] /\ stamp'[g] = stamp[g] /\ request'[g] = request[g] /\ pc'[g] = pc[g]
        /\ client'[g] = client[g] /\ answer'[g] = answer[g] /\ token'[g] = token[g]
    BY <1>2, <1>4, <1>5 DEF Receive, Ask, EndIInv, IInv, TypeOK, EndTypes
  <2>2. HandlerOK(g)
    BY DEF EndIInv
  <2>3. asked[g] # None => now' <= stamp[g] + MaxDelay
    BY <1>4, <2>2 DEF HandlerOK
  <2> QED
    BY <1>5, <2>1, <2>2, <2>3, HandlerKept
<1> QED
  BY <1>3, <1>6, <1>7, <1>8, <1>9 DEF EndIInv

\* A step inside the token service (Serve).
LEMMA ServeStep ==
    ASSUME EndIInv, NEW h \in Handlers, Serve(h), verdict' = None
    PROVE  EndIInv'
<1>1. EndTypes /\ IInv /\ HandlerOK(h) /\ TypeOK
  BY DEF EndIInv, IInv
<1>2. IInv'
  BY <1>1, FindClientStep, StoreFailsStep, IssueStep DEF Serve
<1>3. clients' = clients /\ request' = request /\ asked' = asked /\ cache' = cache
      /\ left' = left /\ now' = now /\ wire' = wire /\ stamp' = [stamp EXCEPT ![h] = now]
      /\ pc[h] # "idle"
  BY DEF Serve, FindClient, StoreFails, Issue
<1>4. Grows
  BY <1>1, <1>3, GrowsQuietly
<1>5. (\A u \in Targets : EntryOK(u)') /\ (\A m \in wire' : RequestOK(m)') /\ VerdictOK'
      /\ cache' = [u \in Targets |-> cache'[u]]
  BY <1>3, <1>4, RestKept
<1>6. EndTypes'
  <2>1. stamp' \in [Handlers -> Nat]
    BY <1>1, <1>3 DEF EndTypes
  <2> QED
    BY <1>1, <1>3, <1>5, <2>1 DEF EndTypes
<1>7. /\ asked[h] # None /\ request[h] = TokenRequest(asked[h])
      /\ now \in Nat /\ stamp[h] \in Nat /\ MaxDelay \in Nat
      /\ stamp[h] <= now /\ now <= stamp[h] + MaxDelay /\ stamp'[h] = now
  BY <1>1, <1>3, DurationsAssumption DEF HandlerOK, EndTypes
<1>8. HandlerOK(h)'
  <2>1. ASSUME pc'[h] = "issue"
        PROVE  client'[h] \in Records /\ StoredSince(client[h], stamp[h])'
    <3>1. FindClient(h)
      BY <1>1, <2>1 DEF Serve, StoreFails, Issue, TypeOK
    <3>2. PICK c \in Stored(request[h].id) : client' = [client EXCEPT ![h] = c]
      BY <1>1, <2>1, <3>1 DEF FindClient, TypeOK
    <3>3. c \in Records /\ clients[c.id] = c
      BY <1>1, <3>2 DEF Stored, TypeOK, EndTypes
    <3>4. client'[h] = c
      BY <1>1, <3>2 DEF TypeOK
    <3> QED
      BY <1>3, <3>3, <3>4 DEF StoredSince
  <2>2. ASSUME answer'[h] = "token"
        PROVE  (\E c \in Records : /\ Allows(c, asked[h], stamp[h])
                                   /\ token[h] = Claims(c, TokenRequest(asked[h])))'
    <3>1. answer[h] = ""
      BY <1>1, <1>3 DEF IInv, ClientSeen
    <3>2. Issue(h)
      BY <1>1, <2>2, <3>1 DEF Serve, FindClient, StoreFails, TypeOK
    <3>3. PICK c \in Records : c = client[h] /\ StoredSince(c, stamp[h])
      BY <1>1, <1>7, <3>2 DEF Issue, HandlerOK
    <3>4. Decide(c, request[h]) = "token" /\ token'[h] = Claims(c, request[h])
      BY <1>1, <2>2, <3>2, <3>3 DEF Issue, TypeOK
    <3>5. PICK since \in Int : since = stamp[h]
      BY <1>7
    <3>6. PICK before \in Int : before = now - MaxDelay
      BY <1>7
    <3>7. StoredSince(c, before)
      BY <1>1, <1>7, <3>3, <3>5, <3>6, StoredEarlier
    <3>8. Allows(c, asked[h], stamp[h])'
      BY <1>3, <1>7, <3>4, <3>6, <3>7 DEF Allows, StoredSince
    <3> QED
      BY <1>3, <1>7, <3>4, <3>8
  <2> QED
    BY <1>3, <1>7, <2>1, <2>2 DEF HandlerOK
<1>9. ASSUME NEW g \in Handlers \ {h}
      PROVE  HandlerOK(g)'
  <2>1. pc'[g] = pc[g] /\ client'[g] = client[g] /\ answer'[g] = answer[g] /\ token'[g] = token[g]
    BY <1>1 DEF Serve, FindClient, StoreFails, Issue, TypeOK
  <2>2. HandlerOK(g) /\ stamp'[g] = stamp[g]
    BY <1>1, <1>3 DEF EndIInv, EndTypes
  <2>3. asked[g] # None => now' <= stamp[g] + MaxDelay
    BY <1>3, <2>2 DEF HandlerOK
  <2> QED
    BY <1>1, <1>3, <1>4, <2>1, <2>2, <2>3, HandlerKept
<1> QED
  BY <1>2, <1>5, <1>6, <1>8, <1>9 DEF EndIInv

\* The answer reaches the client (Deliver).
LEMMA DeliverStep ==
    ASSUME EndIInv, NEW h \in Handlers, Deliver(h), verdict' = None
    PROVE  EndIInv'
<1> DEFINE t == asked[h]
           seconds == AccessTokenTTL \div Second
<1>1. EndTypes /\ IInv /\ HandlerOK(h) /\ TypeOK /\ t \in Targets /\ t # None /\ EntryOK(t)
  BY DEF EndIInv, IInv, Deliver, EndTypes
<1>2. /\ pc[h] = "idle" /\ pc' = pc /\ client' = client /\ clients' = clients
      /\ now' = now /\ left' = left /\ wire' = wire
      /\ asked' = [asked EXCEPT ![h] = None] /\ stamp' = [stamp EXCEPT ![h] = 0]
      /\ request' = [request EXCEPT ![h] = None] /\ answer' = [answer EXCEPT ![h] = ""]
      /\ token' = [token EXCEPT ![h] = None] /\ seen' = [seen EXCEPT ![h] = {}]
      /\ cache' = [cache EXCEPT ![t] =
                      IF answer[h] # "token" THEN None
                      ELSE [token |-> AccessToken(h, stamp[h]), expiresIn |-> seconds,
                            expiresAt |-> now + seconds * Second]]
  BY DEF Deliver
<1>3. IInv'
  <2>1. TypeOK'
    <3>1. seen' \in [Handlers -> SUBSET Records]
      BY <1>1, <1>2 DEF TypeOK
    <3>2. token' \in [Handlers -> AccessTokens \cup {None}]
          /\ request' \in [Handlers -> Requests \cup {None}]
      BY <1>1, <1>2 DEF TypeOK
    <3>3. answer' \in [Handlers -> {"", "token", "invalid_request", "unsupported_grant_type",
                                    "invalid_client", "invalid_target", "invalid_scope",
                                    "server_error"}]
      BY <1>1, <1>2 DEF TypeOK
    <3> QED
      BY <1>1, <1>2, <3>1, <3>2, <3>3 DEF TypeOK
  <2>2. ClientSeen'
    BY <1>1, <1>2 DEF IInv, TypeOK, ClientSeen, Stored
  <2>3. AnswerJustified'
    BY <1>1, <1>2 DEF IInv, TypeOK, AnswerJustified
  <2> QED
    BY <2>1, <2>2, <2>3 DEF IInv
<1>4. Grows
  BY <1>1, <1>2, GrowsQuietly
<1>5. EndTypes'
  <2>1. asked' \in [Handlers -> Targets \cup {None}] /\ stamp' \in [Handlers -> Nat]
    BY <1>1, <1>2 DEF EndTypes
  <2>2. cache' = [u \in Targets |-> cache'[u]]
    BY <1>1, <1>2 DEF EndTypes
  <2> QED
    BY <1>1, <1>2, <2>1, <2>2 DEF EndTypes
<1>6. ASSUME NEW g \in Handlers
      PROVE  HandlerOK(g)'
  <2>1. CASE g = h
    BY <1>1, <1>2, <2>1 DEF HandlerOK, EndTypes, TypeOK
  <2>2. CASE g # h
    <3>1. asked'[g] = asked[g] /\ stamp'[g] = stamp[g] /\ request'[g] = request[g]
          /\ answer'[g] = answer[g] /\ token'[g] = token[g]
      BY <1>1, <1>2, <2>2 DEF TypeOK, EndTypes
    <3>2. HandlerOK(g)
      BY DEF EndIInv
    <3>3. asked[g] # None => now' <= stamp[g] + MaxDelay
      BY <1>2, <3>2 DEF HandlerOK
    <3> QED
      BY <1>1, <1>2, <1>4, <3>1, <3>2, <3>3, HandlerKept
  <2> QED
    BY <2>1, <2>2
<1>7. ASSUME NEW u \in Targets
      PROVE  EntryOK(u)'
  <2>1. CASE u # t \/ answer[h] # "token"
    <3>1. cache'[u] \in {cache[u], None}
      BY <1>1, <1>2, <2>1 DEF EndTypes
    <3> QED
      BY <1>1, <1>4, <3>1, EntryKept DEF EndIInv
  <2>2. CASE u = t /\ answer[h] = "token"
    <3>1. PICK c \in Records : /\ Allows(c, u, stamp[h])
                               /\ token[h] = Claims(c, TokenRequest(u))
      BY <1>1, <1>2, <2>2 DEF HandlerOK
    <3>2. PICK at \in 0..now : at = stamp[h] /\ now <= at + MaxDelay /\ at \in Int /\ now \in Nat
                               /\ MaxDelay \in Nat
      BY <1>1, DurationsAssumption DEF HandlerOK, EndTypes
    <3>3. PICK tok : tok = AccessToken(h, at)
      OBVIOUS
    <3>4. tok = Signed(token[h], at)
      BY <3>3 DEF AccessToken, Signed
    <3>5. Genuine(u, tok, at)
      BY <3>1, <3>2, <3>4 DEF Genuine
    <3>6. Genuine(u, tok, at)'
      BY <1>1, <1>4, <3>5, GenuineKept
    <3>7. /\ cache'[u] = [token |-> tok, expiresIn |-> seconds, expiresAt |-> now + Lifetime]
          /\ cache'[u].token = tok /\ cache'[u].expiresIn = seconds
          /\ cache'[u].expiresAt = now + Lifetime
      BY <1>1, <1>2, <2>2, <3>2, <3>3 DEF EndTypes, Lifetime
    <3>8. Lifetime \in Int
      BY LifetimeRounded
    <3>9. Genuine(u, cache[u].token, at)'
      BY <3>6, <3>7 DEF Genuine
    <3>10. cache'[u].expiresAt \in Int /\ cache'[u].expiresAt <= at + MaxDelay + Lifetime
      BY <3>2, <3>7, <3>8
    <3> QED
      BY <1>2, <2>2, <3>2, <3>7, <3>9, <3>10 DEF EntryOK
  <2> QED
    BY <2>1, <2>2
<1>8. ASSUME NEW m \in wire'
      PROVE  RequestOK(m)'
  BY <1>1, <1>2, <1>4, RequestKept DEF EndIInv
<1> QED
  BY <1>3, <1>5, <1>6, <1>7, <1>8 DEF EndIInv, VerdictOK

\* What the handlers keep while the token service stands still and their time is not up.
LEMMA HandlersKept ==
    ASSUME EndIInv, Grows, vars' = vars, asked' = asked, stamp' = stamp,
           \A h \in Handlers : asked[h] # None => now' <= stamp[h] + MaxDelay
    PROVE  IInv' /\ \A h \in Handlers : HandlerOK(h)'
<1>1. IInv'
  BY StepIInv DEF EndIInv
<1>2. clients' = clients /\ pc' = pc /\ request' = request /\ client' = client /\ answer' = answer
      /\ token' = token
  BY DEF vars
<1>3. ASSUME NEW h \in Handlers
      PROVE  HandlerOK(h)'
  BY <1>2, HandlerKept DEF EndIInv
<1> QED
  BY <1>1, <1>3

\* No time passes and the token service stands still: all but the wire and the
\* verdict is as it was.
LEMMA QuietStep ==
    ASSUME EndIInv, vars' = vars, now' = now, asked' = asked, stamp' = stamp, left' = left,
           cache' = Purged \/ cache' = cache
    PROVE  /\ IInv' /\ EndTypes' /\ Grows
           /\ \A h \in Handlers : HandlerOK(h)'
           /\ \A t \in Targets : EntryOK(t)'
           /\ \A m \in wire : RequestOK(m)'
<1>1. EndTypes /\ clients' = clients
  BY DEF EndIInv, vars
<1>2. Grows
  BY <1>1, GrowsQuietly
<1>3. \A h \in Handlers : asked[h] # None => now' <= stamp[h] + MaxDelay
  BY DEF EndIInv, HandlerOK
<1>4. IInv' /\ \A h \in Handlers : HandlerOK(h)'
  BY <1>2, <1>3, HandlersKept
<1>5. ASSUME NEW t \in Targets
      PROVE  EntryOK(t)'
  <2>1. cache'[t] \in {cache[t], None}
    BY DEF Purged
  <2> QED
    BY <1>1, <1>2, <2>1, EntryKept DEF EndIInv
<1>6. ASSUME NEW m \in wire
      PROVE  RequestOK(m)'
  BY <1>1, <1>2, RequestKept DEF EndIInv
<1>7. EndTypes'
  <2>1. cache' = [t \in Targets |-> cache'[t]]
    BY <1>1 DEF Purged, EndTypes
  <2> QED
    BY <1>1, <2>1 DEF EndTypes
<1> QED
  BY <1>2, <1>4, <1>5, <1>6, <1>7

\* A request leaves with a token that the cache considers fresh (Send).
LEMMA SendStep ==
    ASSUME EndIInv, NEW t \in Targets, NEW r \in Routes, Send(t, r), verdict' = None
    PROVE  EndIInv'
<1>1. /\ cache[t] # None /\ FreshAt(cache[t], now) /\ cache' = Purged
      /\ vars' = vars /\ now' = now /\ asked' = asked /\ stamp' = stamp /\ left' = left
  BY DEF Send, Cached
<1>2. /\ IInv' /\ EndTypes' /\ Grows
      /\ \A h \in Handlers : HandlerOK(h)'
      /\ \A u \in Targets : EntryOK(u)'
      /\ \A m \in wire : RequestOK(m)'
  BY <1>1, QuietStep
<1>3. PICK tok : tok = cache[t].token
  OBVIOUS
<1>4. PICK time \in Nat : time = now
  BY DEF EndIInv, EndTypes
<1> DEFINE sent == [target |-> t, route |-> r, header |-> <<"Bearer", tok>>, at |-> time]
<1>5. PICK at \in 0..now : /\ Genuine(t, tok, at)
                           /\ cache[t].expiresAt \in Int
                           /\ cache[t].expiresAt <= at + MaxDelay + Lifetime
  BY <1>1, <1>3 DEF EndIInv, EntryOK
<1>6. cache[t].expiresAt - time > EffectiveSkew
  <2>1. cache[t].expiresIn = AccessTokenTTL \div Second
    BY <1>1 DEF EndIInv, EntryOK
  <2> QED
    BY <1>1, <1>4, <2>1 DEF FreshAt, EffectiveSkew
<1>7. time + EffectiveSkew < at + MaxDelay + Lifetime
  BY <1>4, <1>5, <1>6, LifetimeRounded, DurationsAssumption
<1>8. Genuine(t, tok, at)'
  BY <1>2, <1>5, GenuineKept DEF EndIInv
<1>9. RequestOK(sent)'
  <2>1. sent.header = <<"Bearer", sent.header[2]>> /\ sent.header[2] = tok
    OBVIOUS
  <2>2. time \in 0..now' /\ at \in 0..time
    BY <1>1, <1>4, <1>5
  <2> QED
    BY <1>7, <1>8, <2>1, <2>2 DEF RequestOK
<1>10. wire' = wire \cup {sent}
  BY <1>3, <1>4 DEF Send
<1> QED
  BY <1>2, <1>9, <1>10 DEF EndIInv, VerdictOK

\* A request leaves without a bearer token (SendBare).
LEMMA BareStep ==
    ASSUME EndIInv, NEW r \in Routes, NEW header \in {<<>>, <<"Basic", None>>},
           SendBare(r, header), verdict' = None
    PROVE  EndIInv'
<1>1. /\ vars' = vars /\ now' = now /\ asked' = asked /\ stamp' = stamp /\ left' = left
      /\ cache' = cache
  BY DEF SendBare
<1>2. /\ IInv' /\ EndTypes' /\ Grows
      /\ \A h \in Handlers : HandlerOK(h)'
      /\ \A u \in Targets : EntryOK(u)'
      /\ \A m \in wire : RequestOK(m)'
  BY <1>1, QuietStep
<1>3. PICK time : time = now
  OBVIOUS
<1> DEFINE sent == [target |-> None, route |-> r, header |-> header, at |-> time]
<1>4. ~ BearerToken(header)
  BY DEF BearerToken
<1>5. RequestOK(sent)'
  BY <1>4 DEF RequestOK
<1>6. wire' = wire \cup {sent}
  BY <1>3 DEF SendBare
<1> QED
  BY <1>2, <1>5, <1>6 DEF EndIInv, VerdictOK

\* A request arrives at the guard of its route (Arrive).
LEMMA ArriveStep ==
    ASSUME EndIInv, NEW m \in wire, Arrive(m)
    PROVE  EndIInv'
<1>1. /\ vars' = vars /\ now' = now /\ asked' = asked /\ stamp' = stamp /\ left' = left
      /\ cache' = cache /\ wire' = wire \ {m}
  BY DEF Arrive
<1>2. /\ IInv' /\ EndTypes' /\ Grows
      /\ \A h \in Handlers : HandlerOK(h)'
      /\ \A u \in Targets : EntryOK(u)'
      /\ \A n \in wire : RequestOK(n)'
  BY <1>1, QuietStep
<1>3. verdict'.request = m
      /\ verdict'.code = Outcome(GuardOf(m.route), m.header, now' + m.route.skew)
  BY <1>1 DEF Arrive
<1>4. VerdictOK'
  BY <1>2, <1>3 DEF VerdictOK
<1> QED
  BY <1>1, <1>2, <1>4 DEF EndIInv

\* The operator replaces a client record (Replace).
LEMMA ReplaceStep ==
    ASSUME EndIInv, NEW c \in Clients, Replace(c), verdict' = None
    PROVE  EndIInv'
<1> DEFINE n == Normalize(c)
<1>1. EndTypes /\ TypeOK
  BY DEF EndIInv, IInv
<1>2. IInv'
  BY UpsertStep DEF EndIInv, Replace
<1>3. n.id \in ClientIDs /\ n.id = c.id /\ n \in Records /\ n # None
  <2>1. n.id = c.id /\ n.id # ""
    BY Normalized DEF Replace, Upsert
  <2> QED
    BY <2>1, InputsAssumption DEF Records
<1>4. /\ clients' = [clients EXCEPT ![n.id] = n]
      /\ left' = [d \in Records |-> IF d = clients[n.id] THEN {now} ELSE left[d]]
      /\ pc' = pc /\ request' = request /\ client' = client /\ answer' = answer /\ token' = token
      /\ now' = now /\ asked' = asked /\ stamp' = stamp /\ cache' = cache /\ wire' = wire
  BY <1>3 DEF Replace, Upsert
<1>5. Grows
  <2>1. ASSUME NEW d \in Records, NEW time \in Int, time <= now, StoredSince(d, time)
        PROVE  StoredSince(d, time)'
    <3>1. now \in Nat
      BY <1>1 DEF EndTypes
    <3>2. CASE d = clients[n.id]
      BY <1>4, <2>1, <3>1, <3>2 DEF StoredSince
    <3>3. CASE d # clients[n.id]
      <4>1. left'[d] = left[d]
        BY <1>4, <3>3
      <4>2. clients[d.id] = d => clients'[d.id] = d
        BY <1>1, <1>3, <1>4, <3>3, RecordType DEF TypeOK
      <4> QED
        BY <2>1, <4>1, <4>2 DEF StoredSince
    <3> QED
      BY <3>2, <3>3
  <2>2. now' \in Nat /\ now <= now'
    BY <1>1, <1>4 DEF EndTypes
  <2> QED
    BY <2>1, <2>2 DEF Grows
<1>6. (\A t \in Targets : EntryOK(t)') /\ (\A m \in wire' : RequestOK(m)') /\ VerdictOK'
      /\ cache' = [t \in Targets |-> cache'[t]]
  BY <1>4, <1>5, RestKept
<1>7. EndTypes'
  <2>1. left' \in [Records -> SUBSET Nat]
    BY <1>1, <1>4 DEF EndTypes
  <2>2. \A id \in ClientIDs : clients'[id] # None => clients'[id].id = id
    BY <1>1, <1>3, <1>4 DEF EndTypes, TypeOK
  <2> QED
    BY <1>1, <1>4, <1>6, <2>1, <2>2 DEF EndTypes
<1>8. ASSUME NEW h \in Handlers
      PROVE  HandlerOK(h)'
  <2>1. HandlerOK(h) /\ (asked[h] # None => now' <= stamp[h] + MaxDelay)
    BY <1>4 DEF EndIInv, HandlerOK
  <2> QED
    BY <1>1, <1>4, <1>5, <2>1, HandlerKept
<1> QED
  BY <1>2, <1>6, <1>7, <1>8 DEF EndIInv

\* Time passes (Tick).
LEMMA TickStep ==
    ASSUME EndIInv, Tick, verdict' = None
    PROVE  EndIInv'
<1>1. /\ vars' = vars /\ asked' = asked /\ stamp' = stamp /\ left' = left /\ now' = now + 1
      /\ cache' = cache /\ wire' = wire /\ clients' = clients
      /\ \A h \in Handlers : asked[h] # None => now - stamp[h] < MaxDelay
  BY DEF Tick, vars
<1>2. EndTypes /\ MaxDelay \in Nat
  BY DurationsAssumption DEF EndIInv
<1>3. Grows
  BY <1>1, <1>2, GrowsQuietly
<1>4. ASSUME NEW h \in Handlers, asked[h] # None
      PROVE  now' <= stamp[h] + MaxDelay
  <2>1. stamp[h] \in Nat /\ now \in Nat
    BY <1>2 DEF EndTypes
  <2> QED
    BY <1>1, <1>2, <1>4, <2>1
<1>5. IInv' /\ \A h \in Handlers : HandlerOK(h)'
  BY <1>1, <1>3, <1>4, HandlersKept
<1>6. (\A t \in Targets : EntryOK(t)') /\ (\A m \in wire' : RequestOK(m)') /\ VerdictOK'
      /\ cache' = [t \in Targets |-> cache'[t]]
  BY <1>1, <1>3, RestKept
<1>7. EndTypes'
  BY <1>1, <1>2, <1>6 DEF EndTypes
<1> QED
  BY <1>5, <1>6, <1>7 DEF EndIInv

\* Every step preserves the inductive invariant.
LEMMA EndStepIInv == EndIInv /\ [EndNext]_allVars => EndIInv'
<1> SUFFICES ASSUME EndIInv, [EndNext]_allVars
             PROVE  EndIInv'
  OBVIOUS
<1>1. CASE EndNext
  BY <1>1, AskStep, ServeStep, DeliverStep, SendStep, BareStep, ArriveStep, ReplaceStep, TickStep
     DEF EndNext
<1>2. CASE UNCHANGED allVars
  <2>1. /\ vars' = vars /\ now' = now /\ asked' = asked /\ stamp' = stamp /\ left' = left
        /\ cache' = cache /\ wire' = wire /\ verdict' = verdict
    BY <1>2 DEF allVars, endVars
  <2>2. /\ IInv' /\ EndTypes' /\ Grows
        /\ \A h \in Handlers : HandlerOK(h)'
        /\ \A u \in Targets : EntryOK(u)'
        /\ \A n \in wire : RequestOK(n)'
    BY <2>1, QuietStep
  <2>3. VerdictOK'
    <3> SUFFICES ASSUME verdict # None
                 PROVE  VerdictOK'
      BY <2>1 DEF VerdictOK
    <3>1. PICK m : m = verdict.request
      OBVIOUS
    <3>2. RequestOK(m) /\ verdict.code = Outcome(GuardOf(m.route), m.header, now + m.route.skew)
      BY <3>1 DEF EndIInv, VerdictOK
    <3>3. RequestOK(m)'
      BY <2>2, <3>2, RequestKept DEF EndIInv
    <3> QED
      BY <2>1, <3>1, <3>2, <3>3 DEF VerdictOK
  <2> QED
    BY <2>1, <2>2, <2>3 DEF EndIInv
<1> QED
  BY <1>1, <1>2

\* The inductive invariant holds in every reachable state.
LEMMA EndInvariance == EndSpec => []EndIInv
BY EndInitIInv, EndStepIInv, PTL DEF EndSpec

-----------------------------------------------------------------------------
(* Theorems *)

\* What a genuine token says of the record that allowed it.
LEMMA TokenSays ==
    ASSUME NEW t \in Targets, NEW tok, NEW at \in Nat, NEW c \in Records,
           Decide(c, TokenRequest(t)) = "token", tok = Signed(Claims(c, TokenRequest(t)), at)
    PROVE  /\ tok.iss = Issuer /\ tok.use = "access" /\ tok.alg = "EdDSA" /\ tok.kid = KID
           /\ tok.sub # "" /\ tok.clientID # ""
           /\ tok.aud = t.audience /\ t.audience \in c.audiences
           /\ Authenticates(c, TokenRequest(t))
           /\ tok.exp \in Int /\ tok.exp <= at + AccessTokenTTL
           /\ at + AccessTokenTTL < tok.exp + Second
           /\ tok.nbf \in Int /\ tok.nbf <= at /\ tok.iat = tok.nbf
           /\ tok.scope \subseteq Scope /\ t.scopes \subseteq Scope \ {Blank}
           /\ \A i \in tok.scope : ~ containsScopeWildcard(i) /\ SetCovers(c.allowed, i)
           /\ \A s \in t.scopes : \E i \in tok.scope : ScopeCovers(s, i)
<1> DEFINE r == TokenRequest(t)
           scopes == Requested(c, r)
<1>1. r.audience = t.audience /\ r.scopes = t.scopes
  BY DEF TokenRequest
<1>2. r.scopes \subseteq Scope \ {Blank}
  BY TargetsAssumption, InputsAssumption
<1>3. /\ Authenticates(c, r) /\ r.audience \in c.audiences
      /\ resolveRequestedScopes(scopes, c.allowed).ok
  BY DEF Decide, Authenticates
<1>4. scopes \in SUBSET (Scope \ {Blank}) /\ c.allowed \in SUBSET (Scope \ {Blank})
  BY <1>2, RecordType DEF Requested
<1>5. /\ tok.iss = Issuer /\ tok.use = "access" /\ tok.alg = "EdDSA" /\ tok.kid = KID
      /\ tok.sub = c.id /\ tok.clientID = c.id /\ tok.aud = r.audience
      /\ tok.scope = resolveRequestedScopes(scopes, c.allowed).scopes
      /\ tok.exp = NumericDate(at + AccessTokenTTL)
      /\ tok.nbf = NumericDate(at) /\ tok.iat = NumericDate(at)
  BY DEF Signed, Claims
<1>6. /\ tok.scope \subseteq Scope
      /\ \A i \in tok.scope : ~ containsScopeWildcard(i) /\ SetCovers(c.allowed, i)
      /\ \A s \in scopes : \E i \in tok.scope : ScopeCovers(s, i)
  BY <1>3, <1>4, <1>5, Resolved
<1>7. \A s \in t.scopes : s \in scopes
  BY <1>1 DEF Requested
<1>8. c.id # ""
  BY RecordType, InputsAssumption
<1>9. /\ tok.exp \in Int /\ tok.exp <= at + AccessTokenTTL
      /\ at + AccessTokenTTL < tok.exp + Second
      /\ tok.nbf \in Int /\ tok.nbf <= at
  <2>1. at \in Int /\ at + AccessTokenTTL \in Int
    BY DurationsAssumption
  <2> QED
    BY <1>5, <2>1, RoundedDown
<1>10. tok.sub # "" /\ tok.clientID # ""
  BY <1>5, <1>8
<1> QED
  BY <1>1, <1>2, <1>3, <1>5, <1>6, <1>7, <1>9, <1>10

\* What Require and Build make of the scopes that a route names.
LEMMA GuardSays ==
    ASSUME NEW route \in Routes
    PROVE  /\ GuardOf(route).verifier = route.guard.verifier
           /\ GuardOf(route).requiredScopes = Named(route)
<1>1. route.guard.requiredScopes \subseteq Scope \ {Blank}
  BY RoutesAssumption
<1> QED
  BY <1>1 DEF GuardOf, newGuard, firstScopes, Named

\* Narrowing or disabling a client takes effect within the lifetime of a token: what
\* the middleware lets through, a record in the store not long before allowed.
THEOREM NarrowingTakesEffect == EndSpec => []AdmittedWasAllowed
<1>1. ASSUME EndIInv
      PROVE  AdmittedWasAllowed
  <2> SUFFICES ASSUME verdict # None, verdict.code = "next"
               PROVE  AdmittedWasAllowed
    BY DEF AdmittedWasAllowed
  <2>0. PICK m, tok : m = verdict.request /\ tok = m.header[2]
    OBVIOUS
  <2> DEFINE v == GuardOf(m.route).verifier
             horizon == AccessTokenTTL + v.leeway - m.route.skew + MaxDelay
  <2>1. RequestOK(m) /\ Outcome(GuardOf(m.route), m.header, now + m.route.skew) = "next"
    BY <1>1, <2>0 DEF EndIInv, VerdictOK
  <2>2. /\ BearerToken(m.header) /\ v # NoVerifier
        /\ Verifies(v, tok, now + m.route.skew)
        /\ HasAllScopes(tok.scope, GuardOf(m.route).requiredScopes)
    BY <2>0, <2>1 DEF Outcome
  <2>3. PICK at \in 0..m.at : Genuine(m.target, tok, at)
    BY <2>0, <2>1, <2>2 DEF RequestOK
  <2>4. m.route \in Routes /\ m.target \in Targets /\ m.at \in 0..now /\ now \in Nat /\ at \in Nat
    BY <1>1, <2>1, <2>2, <2>3 DEF RequestOK, EndIInv, EndTypes
  <2>5. PICK c \in Records : /\ Decide(c, TokenRequest(m.target)) = "token"
                             /\ StoredSince(c, at - MaxDelay)
                             /\ tok = Signed(Claims(c, TokenRequest(m.target)), at)
    BY <2>3 DEF Genuine, Allows
  <2>6. /\ tok.aud \in c.audiences /\ Authenticates(c, TokenRequest(m.target))
        /\ tok.exp \in Int /\ tok.exp <= at + AccessTokenTTL
        /\ tok.scope \subseteq Scope
        /\ \A i \in tok.scope : ~ containsScopeWildcard(i) /\ SetCovers(c.allowed, i)
    BY <2>4, <2>5, TokenSays
  <2>7. v = m.route.guard.verifier /\ GuardOf(m.route).requiredScopes = Named(m.route)
    BY <2>4, GuardSays
  <2>8. m.route.skew \in Int /\ v.leeway \in Int /\ v.leeway >= 0
    BY <2>2, <2>4, <2>7, RoutesAssumption
  <2>9. InStoreAfter(c, now - horizon)
    <3>1. now + m.route.skew < tok.exp + v.leeway
      <4>1. TimesOK(v, tok, now + m.route.skew)
        BY <2>2 DEF Verifies
      <4> QED
        BY <2>8, <4>1 DEF TimesOK
    <3>2. AccessTokenTTL \in Nat /\ MaxDelay \in Nat
      BY DurationsAssumption
    <3>3. at - MaxDelay > now - horizon
      BY <2>4, <2>6, <2>8, <3>1, <3>2
    <3>4. ASSUME NEW l \in left[c], l >= at - MaxDelay
          PROVE  l > now - horizon
      <4>1. l \in Nat
        BY <1>1 DEF EndIInv, EndTypes
      <4> QED
        BY <2>4, <2>8, <3>2, <3>3, <3>4, <4>1
    <3> QED
      BY <2>5, <3>4 DEF StoredSince, InStoreAfter
  <2>10. v.audience # "" => v.audience \in c.audiences
    BY <2>2, <2>6 DEF Verifies
  <2>11. ASSUME NEW s \in Named(m.route)
         PROVE  SetCovers(c.allowed, s)
    <3>1. PICK i \in tok.scope : ScopeCovers(i, s)
      BY <2>2, <2>7 DEF HasAllScopes, SetCovers
    <3>2. i = s
      BY <2>6, <3>1, ConcreteCoversItself
    <3> QED
      BY <2>6, <3>2
  <2> QED
    BY <2>0, <2>6, <2>9, <2>10, <2>11 DEF AdmittedWasAllowed
<1> QED
  BY <1>1, EndInvariance, PTL

\* A token that freshAt lets out of the cache is still good when it arrives: the
\* refresh skew makes up for the delays and the rounding of NewNumericDate, the
\* leeway of the verifier for the clocks.
THEOREM FreshIsAdmitted == EndSpec => []FreshTokenAdmitted
<1>1. ASSUME EndIInv
      PROVE  FreshTokenAdmitted
  <2> SUFFICES ASSUME verdict # None, verdict.request.target # None,
                      Suits(verdict.request.target, verdict.request.route),
                      now - verdict.request.at <= MaxDelay,
                      2 * MaxDelay + Second <= EffectiveSkew + 1
               PROVE  verdict.code = "next"
    BY DEF FreshTokenAdmitted
  <2>0. PICK m, tok : m = verdict.request /\ tok = m.header[2]
    OBVIOUS
  <2> DEFINE v == GuardOf(m.route).verifier
  <2>1. /\ RequestOK(m) /\ now \in Nat
        /\ verdict.code = Outcome(GuardOf(m.route), m.header, now + m.route.skew)
    BY <1>1, <2>0 DEF EndIInv, EndTypes, VerdictOK
  <2>2. PICK at \in 0..m.at : /\ m.header = <<"Bearer", tok>>
                              /\ Genuine(m.target, tok, at)
                              /\ m.at + EffectiveSkew < at + MaxDelay + Lifetime
    BY <2>0, <2>1 DEF RequestOK
  <2>3. m.route \in Routes /\ m.target \in Targets /\ m.at \in 0..now /\ at \in Nat
    BY <2>0, <2>1, <2>2 DEF RequestOK
  <2>4. PICK c \in Records : /\ Decide(c, TokenRequest(m.target)) = "token"
                             /\ tok = Signed(Claims(c, TokenRequest(m.target)), at)
    BY <2>2 DEF Genuine, Allows
  <2>5. /\ tok.iss = Issuer /\ tok.use = "access" /\ tok.alg = "EdDSA" /\ tok.kid = KID
        /\ tok.sub # "" /\ tok.clientID # "" /\ tok.aud = m.target.audience
        /\ tok.exp \in Int /\ at + AccessTokenTTL < tok.exp + Second
        /\ tok.nbf \in Int /\ tok.nbf <= at /\ tok.iat = tok.nbf
        /\ tok.scope \subseteq Scope /\ m.target.scopes \subseteq Scope \ {Blank}
        /\ \A s \in m.target.scopes : \E i \in tok.scope : ScopeCovers(s, i)
    <3>1. PICK t \in Targets : t = m.target
      BY <2>3
    <3>2. /\ Decide(c, TokenRequest(t)) = "token"
          /\ tok = Signed(Claims(c, TokenRequest(t)), at)
      BY <2>4, <3>1
    <3>3. /\ tok.iss = Issuer /\ tok.use = "access" /\ tok.alg = "EdDSA" /\ tok.kid = KID
          /\ tok.sub # "" /\ tok.clientID # "" /\ tok.aud = t.audience
      BY <2>3, <3>2, TokenSays
    <3>4. /\ tok.exp \in Int /\ at + AccessTokenTTL < tok.exp + Second
          /\ tok.nbf \in Int /\ tok.nbf <= at /\ tok.iat = tok.nbf
      BY <2>3, <3>2, TokenSays
    <3>5. /\ tok.scope \subseteq Scope /\ t.scopes \subseteq Scope \ {Blank}
          /\ \A s \in t.scopes : \E i \in tok.scope : ScopeCovers(s, i)
      BY <2>3, <3>2, TokenSays
    <3> QED
      BY <3>1, <3>3, <3>4, <3>5
  <2>6. /\ v # NoVerifier /\ v.issuer \in {"", Issuer} /\ v.use \in {"", "access"}
        /\ v.audience \in {"", m.target.audience} /\ (v.algs = {} \/ "EdDSA" \in v.algs)
        /\ v.provider # NoProvider /\ KID \in v.provider
        /\ \A s \in GuardOf(m.route).requiredScopes :
              s \in m.target.scopes /\ ~ containsScopeWildcard(s)
    BY <2>0 DEF Suits
  <2>7. BearerToken(m.header)
    BY <2>2 DEF BearerToken
  <2>8. TimesOK(v, tok, now + m.route.skew)
    <3>1. /\ m.route.skew \in Int /\ v.leeway \in Int
          /\ m.route.skew <= v.leeway /\ -m.route.skew <= v.leeway
      BY <2>3, <2>6, GuardSays, RoutesAssumption
    <3>2. /\ Lifetime \in Int /\ Lifetime <= AccessTokenTTL /\ EffectiveSkew \in Int
          /\ AccessTokenTTL \in Nat /\ MaxDelay \in Nat /\ Second \in Nat /\ m.at \in Int
      BY <2>3, LifetimeRounded, DurationsAssumption
    <3>3. /\ at <= m.at /\ m.at <= now /\ now <= m.at + MaxDelay
          /\ m.at + EffectiveSkew < at + MaxDelay + Lifetime
      BY <2>0, <2>1, <2>2, <2>3, <3>2
    <3>4. /\ tok.exp \in Int /\ at + AccessTokenTTL < tok.exp + Second
          /\ tok.nbf \in Int /\ tok.nbf <= at /\ tok.iat = tok.nbf
      BY <2>5
    <3>5. now < tok.exp
      BY <2>1, <2>3, <3>2, <3>3, <3>4
    <3>6. tok.nbf <= now
      BY <2>1, <2>3, <3>2, <3>3, <3>4
    <3> QED
      BY <2>1, <3>1, <3>4, <3>5, <3>6 DEF TimesOK
  <2>9. Verifies(v, tok, now + m.route.skew)
    <3>1. tok.alg \in (IF v.algs = {} THEN DefaultAlgorithms ELSE v.algs)
      BY <2>5, <2>6 DEF DefaultAlgorithms
    <3>2. tok.kid # "" /\ tok.kid \in v.provider
      BY <2>5, <2>6, TargetsAssumption
    <3> QED
      BY <2>5, <2>6, <2>8, <3>1, <3>2, Zenon DEF Verifies
  <2>10. HasAllScopes(tok.scope, GuardOf(m.route).requiredScopes)
    <3>1. ASSUME NEW s \in GuardOf(m.route).requiredScopes
          PROVE  SetCovers(tok.scope, s)
      <4>1. s \in m.target.scopes /\ s \in Scope /\ s # Blank /\ ~ containsScopeWildcard(s)
        BY <2>5, <2>6
      <4>2. PICK i \in tok.scope : ScopeCovers(s, i)
        BY <2>5, <4>1
      <4>3. s = i /\ ScopeCovers(s, s)
        BY <4>1, <4>2, ConcreteCoversItself, CoversSelf
      <4> QED
        BY <4>2, <4>3 DEF SetCovers
    <3> QED
      BY <3>1 DEF HasAllScopes
  <2> QED
    BY <2>0, <2>1, <2>6, <2>7, <2>9, <2>10 DEF Outcome
<1> QED
  BY <1>1, EndInvariance, PTL
-----------------------------------------------------------------------------
(* The meaning of scopes *)

\* strings.Split: a scope of n segments is a sequence of them.
LEMMA Segmented ==
    ASSUME NEW S, NEW n \in Nat, NEW s \in [1..n -> S]
    PROVE  s \in Seq(S) /\ Len(s) = n /\ DOMAIN s = 1..n /\ \A i \in 1..n : s[i] \in S
OBVIOUS

\* Scopes are equal if their segments are.
LEMMA SameSegments ==
    ASSUME NEW S, NEW s \in Seq(S), NEW t \in Seq(S), Len(s) = Len(t),
           \A i \in 1..Len(s) : s[i] = t[i]
    PROVE  s = t
OBVIOUS

\* The two halves of what UnderPrefix and Meaning compare, segment by segment.
LEMMA PrefixOf ==
    ASSUME NEW s \in Seq(Segments), NEW c \in Seq(Segments), NEW m \in Nat \ {0},
           m <= Len(s), m <= Len(c)
    PROVE  SubSeq(c, 1, m - 1) = SubSeq(s, 1, m - 1) <=> \A i \in 1..(m - 1) : c[i] = s[i]
<1>1. /\ Len(SubSeq(c, 1, m - 1)) = m - 1 /\ Len(SubSeq(s, 1, m - 1)) = m - 1
      /\ SubSeq(c, 1, m - 1) \in Seq(Segments) /\ SubSeq(s, 1, m - 1) \in Seq(Segments)
      /\ \A i \in 1..(m - 1) : SubSeq(c, 1, m - 1)[i] = c[i] /\ SubSeq(s, 1, m - 1)[i] = s[i]
  OBVIOUS
<1> QED
  BY <1>1

\* Nothing follows the prefix and its dot.
LEMMA RestOf ==
    ASSUME NEW c \in Seq(Segments), NEW m \in Nat \ {0}, m <= Len(c)
    PROVE  SubSeq(c, m, Len(c)) = Blank <=> Len(c) = m /\ c[m] = ""
<1>1. PICK e : e = ""
  OBVIOUS
<1>2. e \in Segments
  BY <1>1, SegmentsAssumption
<1>3. PICK n, r : n = Len(c) /\ r = SubSeq(c, m, n)
  OBVIOUS
<1>4. n \in Nat /\ m <= n
  BY <1>3
<1>5. Len(r) = n - m + 1 /\ r \in Seq(Segments) /\ r[1] = c[m]
  BY <1>3
<1>6. <<e>> \in Seq(Segments) /\ Len(<<e>>) = 1 /\ <<e>>[1] = e
  BY <1>2
<1>7. ASSUME r = <<e>> PROVE n = m /\ c[m] = e
  BY <1>4, <1>5, <1>6, <1>7
<1>8. ASSUME n = m, c[m] = e PROVE r = <<e>>
  BY <1>4, <1>5, <1>6, <1>8
<1> QED
  BY <1>1, <1>3, <1>7, <1>8 DEF Blank
\* The scopes that are looked at.
LEMMA ShortScopes ==
    ASSUME NEW s \in ShortScope
    PROVE  /\ s \in Seq(Segments) /\ Len(s) \in 1..MaxSegments /\ Len(s) \in Nat \ {0}
           /\ s # Blank /\ DOMAIN s = 1..Len(s)
<1>1. PICK n \in 1..MaxSegments : s \in [1..n -> Segments]
  BY DEF ShortScope
<1>0. MaxSegments \in Nat
  BY MeaningAssumption
<1>2. n \in Nat \ {0}
  BY <1>0
<1>3. s \in Seq(Segments) /\ Len(s) = n /\ DOMAIN s = 1..n
  BY <1>1, <1>2, Segmented
<1>4. s # Blank
  BY DEF ShortScope
<1> QED
  BY <1>2, <1>3, <1>4

\* The scopes without an asterisk, which guards require of a token and Issue puts in one.
LEMMA ConcreteScope ==
    ASSUME NEW c
    PROVE  c \in Concrete <=> /\ c \in Seq(Segments) /\ Len(c) \in 1..(MaxSegments + 1)
                              /\ c # Blank /\ ~ containsScopeWildcard(c)
<1>0. MaxSegments \in Nat
  BY MeaningAssumption
<1>1. ASSUME c \in Concrete
      PROVE  /\ c \in Seq(Segments) /\ Len(c) \in 1..(MaxSegments + 1)
             /\ c # Blank /\ ~ containsScopeWildcard(c)
  <2>1. PICK n \in 1..(MaxSegments + 1) : c \in [1..n -> Segments \ Starred]
    BY <1>1 DEF Concrete
  <2>2. n \in Nat
    BY <1>0
  <2>3. c \in [1..n -> Segments]
    BY <2>1
  <2>4. c \in Seq(Segments) /\ Len(c) = n
    BY <2>2, <2>3, Segmented
  <2>5. c # Blank
    BY <1>1 DEF Concrete
  <2>6. \A i \in 1..n : c[i] \notin Starred
    BY <2>1
  <2> QED
    BY <2>4, <2>5, <2>6 DEF containsScopeWildcard
<1>2. ASSUME c \in Seq(Segments), Len(c) \in 1..(MaxSegments + 1), c # Blank,
             ~ containsScopeWildcard(c)
      PROVE  c \in Concrete
  <2>1. c \in [1..Len(c) -> Segments \ Starred]
    BY <1>2 DEF containsScopeWildcard
  <2>2. c \in UNION {[1..n -> Segments \ Starred] : n \in 1..(MaxSegments + 1)}
    BY <1>2, <2>1
  <2> QED
    BY <1>2, <2>2 DEF Concrete
<1> QED
  BY <1>1, <1>2

\* wildcardScopeParts gives a scope with a wildcard its meaning: a concrete scope is
\* under its prefix, for "*" by one segment.
LEMMA PatternMeaning ==
    ASSUME NEW s \in ShortScope, IsPattern(s), NEW c
    PROVE  /\ containsScopeWildcard(s)
           /\ c \in Meaning(s) <=> /\ c \in Concrete /\ UnderPrefix(s, c)
                                   /\ s[Len(s)] = "**" \/ Len(c) = Len(s)
<1>1. PICK m : m = Len(s) /\ m \in Nat \ {0} /\ s \in Seq(Segments)
  BY ShortScopes
<1>2. s[m] \in {"*", "**"} /\ s[m] \in Starred
  BY <1>1, SegmentsAssumption DEF IsPattern
<1>3. containsScopeWildcard(s)
  BY <1>1, <1>2 DEF containsScopeWildcard
<1> DEFINE below == {d \in Concrete : /\ Len(d) >= Len(s)
                                      /\ SubSeq(d, 1, Len(s) - 1) = SubSeq(s, 1, Len(s) - 1)
                                      /\ SubSeq(d, Len(s), Len(d)) # Blank}
<1>4. /\ s[m] = "*" => Meaning(s) = {d \in below : Len(d) = Len(s)}
      /\ s[m] = "**" => Meaning(s) = below
  <2>1. "*" # "**"
    OBVIOUS
  <2> QED
    BY <1>1, <1>3, <2>1 DEF Meaning
<1>5. c \in below <=> c \in Concrete /\ UnderPrefix(s, c)
  <2>1. ASSUME c \in Concrete, Len(c) >= m
        PROVE  c \in below <=> UnderPrefix(s, c)
    <3>1. c \in Seq(Segments) /\ m <= Len(s) /\ m <= Len(c)
      BY <1>1, <2>1, ConcreteScope
    <3>2. SubSeq(c, 1, m - 1) = SubSeq(s, 1, m - 1) <=> \A i \in 1..(m - 1) : c[i] = s[i]
      BY <1>1, <3>1, PrefixOf
    <3>3. SubSeq(c, m, Len(c)) = Blank <=> Len(c) = m /\ c[m] = ""
      BY <1>1, <3>1, RestOf
    <3>4. c \in below <=> (\A i \in 1..(m - 1) : c[i] = s[i]) /\ ~ (Len(c) = m /\ c[m] = "")
      BY <1>1, <2>1, <3>2, <3>3
    <3> QED
      BY <1>1, <2>1, <3>4 DEF UnderPrefix
  <2> QED
    BY <1>1, <2>1 DEF UnderPrefix
<1> HIDE DEF below
<1> QED
  BY <1>1, <1>2, <1>3, <1>4, <1>5
\* Segments to put in the place of an asterisk.
Plain == (Segments \ Starred) \ {""}

\* What a concrete scope in the place of the asterisks of a pattern shows: the pattern
\* stands for each of them.
LEMMA Instances ==
    ASSUME NEW s \in ShortScope, IsPattern(s), NEW x \in Plain, NEW n, n = Len(s)
    PROVE  \E one, two :
              /\ one \in Meaning(s) /\ Len(one) = n
              /\ one[n] = x /\ \A i \in 1..(n - 1) : one[i] = s[i]
              /\ s[n] = "**" => two \in Meaning(s) /\ Len(two) = n + 1
<1>1. s \in Seq(Segments) /\ n \in 1..MaxSegments /\ n \in Nat \ {0}
  BY ShortScopes
<1>2. n > 1 /\ \A i \in 1..(n - 1) : s[i] \notin Starred
  BY DEF IsPattern
<1>3. PICK one, two : one = [s EXCEPT ![n] = x] /\ two = Append(one, x)
  OBVIOUS
<1>4. x \in Segments /\ x \notin Starred
  BY DEF Plain
<1>5. /\ one \in Seq(Segments) /\ Len(one) = n /\ one[n] = x
      /\ \A i \in 1..(n - 1) : one[i] = s[i]
  BY <1>1, <1>3, <1>4
<1>6. /\ two \in Seq(Segments) /\ Len(two) = n + 1 /\ two[n + 1] = x /\ two[n] = x
      /\ \A i \in 1..(n - 1) : two[i] = s[i]
  <2>1. two \in Seq(Segments) /\ Len(two) = n + 1 /\ two[n + 1] = x
    BY <1>1, <1>3, <1>4, <1>5
  <2>2. \A i \in 1..n : two[i] = one[i]
    BY <1>1, <1>3, <1>4, <1>5
  <2> QED
    BY <1>1, <1>5, <2>1, <2>2
<1>7. ~ containsScopeWildcard(one) /\ ~ containsScopeWildcard(two)
  <2>1. \A i \in 1..n : one[i] \notin Starred
    BY <1>1, <1>2, <1>4, <1>5
  <2>2. \A i \in 1..(n + 1) : two[i] \notin Starred
    BY <1>1, <1>2, <1>4, <1>6
  <2> QED
    BY <1>5, <1>6, <2>1, <2>2 DEF containsScopeWildcard
<1>8. one # Blank /\ two # Blank
  <2>1. Len(Blank) = 1
    BY DEF Blank
  <2>2. n # 1 /\ n + 1 # 1
    BY <1>1, <1>2
  <2> QED
    BY <1>5, <1>6, <2>1, <2>2
<1>9. one \in Concrete /\ two \in Concrete
  <2>1. MaxSegments \in Nat
    BY MeaningAssumption
  <2>2. n \in 1..(MaxSegments + 1) /\ n + 1 \in 1..(MaxSegments + 1)
    BY <1>1, <2>1
  <2> QED
    BY <1>5, <1>6, <1>7, <1>8, <2>2, ConcreteScope
<1>10. UnderPrefix(s, one) /\ UnderPrefix(s, two)
  <2>1. n + 1 >= n /\ n >= n /\ n + 1 # n
    BY <1>1
  <2>2. x # ""
    BY DEF Plain
  <2> QED
    BY <1>5, <1>6, <2>1, <2>2 DEF UnderPrefix
<1>11. one \in Meaning(s) /\ (s[n] = "**" => two \in Meaning(s))
  BY <1>5, <1>9, <1>10, PatternMeaning
<1> QED
  BY <1>5, <1>6, <1>11

\* A scope without a wildcard stands for itself.
LEMMA PlainMeaning ==
    ASSUME NEW s \in ShortScope, ~ containsScopeWildcard(s)
    PROVE  Meaning(s) = {s} /\ s \in Concrete /\ ~ IsPattern(s) /\ ValidWildcard(s)
<1>1. s \in Seq(Segments) /\ Len(s) \in 1..(MaxSegments + 1) /\ s # Blank /\ Len(s) \in Nat \ {0}
  <2>1. MaxSegments \in Nat
    BY MeaningAssumption
  <2>2. s \in Seq(Segments) /\ Len(s) \in 1..MaxSegments /\ s # Blank /\ Len(s) \in Nat \ {0}
    BY ShortScopes
  <2> QED
    BY <2>1, <2>2
<1>2. Meaning(s) = {s}
  <2>1. s[Len(s)] \notin Starred
    BY <1>1 DEF containsScopeWildcard
  <2>2. s[Len(s)] # "*" /\ s[Len(s)] # "**"
    BY <2>1, SegmentsAssumption
  <2> QED
    BY <2>2 DEF Meaning
<1>3. ~ IsPattern(s)
  BY PatternMeaning
<1> QED
  BY <1>1, <1>2, <1>3, ConcreteScope DEF ValidWildcard

\* For a concrete scope covering is being among those the owned one stands for.
LEMMA ConcreteCovered ==
    ASSUME NEW o \in ShortScope, ValidWildcard(o),
           NEW r \in ShortScope, ~ containsScopeWildcard(r)
    PROVE  ScopeCovers(o, r) <=> r \in Meaning(o)
<1>1. o # Blank /\ r # Blank /\ r \in Concrete /\ ValidWildcard(r) /\ r[Len(r)] \notin Starred
  <2>1. r # Blank /\ o # Blank /\ Len(r) \in 1..Len(r)
    BY ShortScopes
  <2> QED
    BY <2>1, PlainMeaning DEF containsScopeWildcard
<1>2. CASE containsScopeWildcard(o)
  <2>1. IsPattern(o) /\ o # r
    BY <1>2 DEF ValidWildcard
  <2> QED
    BY <1>1, <2>1, PatternMeaning DEF ScopeCovers
<1>3. CASE ~ containsScopeWildcard(o)
  <2>1. ~ IsPattern(o) /\ Meaning(o) = {o}
    BY <1>3, PlainMeaning
  <2> QED
    BY <1>1, <2>1 DEF ScopeCovers
<1> QED
  BY <1>2, <1>3

\* A pattern is covered by itself and by the recursive patterns that it is under, which
\* are those that stand for everything it stands for: what is short of that fails at an
\* instance of the pattern.
LEMMA PatternCovered ==
    ASSUME NEW o \in ShortScope, ValidWildcard(o), NEW r \in ShortScope, IsPattern(r)
    PROVE  ScopeCovers(o, r) <=> Meaning(r) \subseteq Meaning(o)
<1>1. PICK m, n : /\ m = Len(o) /\ n = Len(r) /\ m \in Nat \ {0} /\ n \in Nat \ {0}
                  /\ o \in Seq(Segments) /\ r \in Seq(Segments) /\ o # Blank /\ r # Blank
  BY ShortScopes
<1>2. r[n] \in {"*", "**"} /\ r[n] \in Starred /\ r[n] # ""
  BY <1>1, SegmentsAssumption DEF IsPattern
<1>3. UnderPrefix(o, r) <=> n >= m /\ \A i \in 1..(m - 1) : r[i] = o[i]
  BY <1>1, <1>2 DEF UnderPrefix
<1>4. ScopeCovers(o, r) <=> o = r \/ (IsPattern(o) /\ UnderPrefix(o, r) /\ o[m] = "**")
  <2>1. ValidWildcard(r)
    BY DEF ValidWildcard
  <2> QED
    BY <1>1, <1>2, <2>1 DEF ScopeCovers
<1>5. ASSUME IsPattern(o), UnderPrefix(o, r), o[m] = "**", NEW c \in Meaning(r)
      PROVE  c \in Meaning(o)
  <2>1. c \in Concrete /\ UnderPrefix(r, c)
    BY PatternMeaning
  <2>2. PICK k : k = Len(c) /\ k \in Nat
    BY <2>1, ConcreteScope
  <2>3. k >= n /\ \A i \in 1..(n - 1) : c[i] = r[i]
    BY <1>1, <2>1, <2>2 DEF UnderPrefix
  <2>4. n >= m /\ \A i \in 1..(m - 1) : r[i] = o[i]
    BY <1>3, <1>5
  <2>5. k >= m /\ (k = m => k = n) /\ \A i \in 1..(m - 1) : c[i] = o[i]
    <3>1. k >= m /\ (k = m => k = n) /\ \A i \in 1..(m - 1) : i \in 1..(n - 1)
      BY <1>1, <2>2, <2>3, <2>4
    <3> QED
      BY <2>3, <2>4, <3>1
  <2>6. UnderPrefix(o, c)
    BY <1>1, <2>1, <2>2, <2>5 DEF UnderPrefix
  <2> QED
    BY <1>1, <1>5, <2>1, <2>6, PatternMeaning
<1>6. ASSUME Meaning(r) \subseteq Meaning(o)
      PROVE  o = r \/ (IsPattern(o) /\ UnderPrefix(o, r) /\ o[m] = "**")
  <2>1. PICK x, y \in Plain : x # y
    BY MeaningAssumption DEF Plain
  <2>2. PICK cx, cy, dx :
            /\ cx \in Meaning(o) /\ cx[n] = x /\ Len(cx) = n
            /\ \A i \in 1..(n - 1) : cx[i] = r[i]
            /\ cy \in Meaning(o) /\ cy[n] = y
            /\ r[n] = "**" => dx \in Meaning(o) /\ Len(dx) = n + 1
    <3>1. PICK cx, dx :
              /\ cx \in Meaning(r) /\ Len(cx) = n
              /\ cx[n] = x /\ \A i \in 1..(n - 1) : cx[i] = r[i]
              /\ r[n] = "**" => dx \in Meaning(r) /\ Len(dx) = n + 1
      BY <1>1, Instances
    <3>2. PICK cy : cy \in Meaning(r) /\ cy[n] = y
      BY <1>1, Instances
    <3> QED
      BY <1>6, <3>1, <3>2
  <2>3. IsPattern(o)
    <3>1. ASSUME ~ containsScopeWildcard(o) PROVE FALSE
      BY <2>1, <2>2, <3>1, PlainMeaning
    <3> QED
      BY <3>1 DEF ValidWildcard
  <2>4. n >= m /\ \A i \in 1..(m - 1) : cx[i] = o[i]
    BY <1>1, <2>2, <2>3, PatternMeaning DEF UnderPrefix
  <2>5. UnderPrefix(o, r)
    <3>1. \A i \in 1..(m - 1) : r[i] = o[i]
      BY <1>1, <2>2, <2>4
    <3> QED
      BY <1>3, <2>4, <3>1
  <2>6. ASSUME o[m] # "**" PROVE o = r
    <3>1. n = m /\ (r[n] = "**" => n + 1 = m)
      BY <1>1, <2>2, <2>3, <2>6, PatternMeaning
    <3>2. r[n] = "*" /\ o[m] = "*"
      <4>1. r[n] # "**"
        BY <1>1, <3>1
      <4> QED
        BY <1>1, <1>2, <2>3, <2>6, <4>1 DEF IsPattern
    <3>3. \A i \in 1..(n - 1) : r[i] = o[i]
      BY <1>1, <1>3, <2>5, <3>1
    <3>4. \A i \in 1..n : i \in 1..(n - 1) \/ i = n
      BY <1>1
    <3>5. r[n] = o[n]
      BY <3>1, <3>2
    <3>6. \A i \in 1..n : r[i] = o[i]
      BY <3>3, <3>4, <3>5
    <3> QED
      BY <1>1, <3>1, <3>6, SameSegments
  <2> QED
    BY <2>3, <2>5, <2>6
<1> QED
  BY <1>4, <1>5, <1>6

\* CoversIsContainment, for scopes of any segments and any length: ScopeCovers decides
\* whether one scope stands for everything another one stands for.
THEOREM CoveringIsContainment == Spec => []CoversIsContainment
<1>1. CoversAsMeant
  <2> DEFINE valid == {s \in ShortScope : ValidWildcard(s)}
             meaning == [s \in valid |-> Meaning(s)]
  <2>1. ASSUME NEW owned \in valid, NEW required \in valid
        PROVE  ScopeCovers(owned, required) <=> meaning[required] \subseteq meaning[owned]
    <3>1. owned \in ShortScope /\ required \in ShortScope
          /\ ValidWildcard(owned) /\ ValidWildcard(required)
      OBVIOUS
    <3>2. meaning[required] = Meaning(required) /\ meaning[owned] = Meaning(owned)
      OBVIOUS
    <3> HIDE DEF valid, meaning
    <3>3. CASE containsScopeWildcard(required)
      <4>1. IsPattern(required)
        BY <3>1, <3>3 DEF ValidWildcard
      <4> QED
        BY <3>1, <3>2, <4>1, PatternCovered
    <3>4. CASE ~ containsScopeWildcard(required)
      <4>1. Meaning(required) = {required}
        BY <3>1, <3>4, PlainMeaning
      <4>2. ScopeCovers(owned, required) <=> required \in Meaning(owned)
        BY <3>1, <3>4, ConcreteCovered
      <4> QED
        BY <3>2, <4>1, <4>2
    <3> QED
      BY <3>3, <3>4
  <2> QED
    BY <2>1 DEF CoversAsMeant
<1> QED
  BY <1>1, PTL DEF CoversIsContainment
=============================================================================
