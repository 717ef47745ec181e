---------------------------- MODULE TokenService ----------------------------
(***************************************************************************)
(* Token issuance (src/server/token_service.go, http.go, store.go): the    *)
(* token endpoint's handlers run concurrently with each other and with     *)
(* Upsert on the client store they share.  A handler reads the store once, *)
(* under the read lock, and decides on the copy it got.                    *)
(***************************************************************************)
EXTENDS ClientRecords

CONSTANTS
    Handlers,           \* goroutines that serve POST /oauth2/token
    ClientIDs,
    Clients,            \* the client records Upsert is called with
    Requests,           \* the token requests
    RouteScopes,        \* the scopes resource servers require on their routes
    None                \* no client, no token, no request

\* In a request id is trimmed, "" stands for an absent field, and form says
\* whether the body could be parsed.
ASSUME InputsAssumption == /\ \A c \in Clients :
                                 /\ DOMAIN c = {"id", "secrets", "digests", "audiences",
                                                "allowed", "defaults", "disabled"}
                                 /\ c.id \in ClientIDs \cup {""}
                                 /\ c.allowed \cup c.defaults \subseteq Scope
                           /\ "" \notin ClientIDs
                           /\ \A r \in Requests : r.scopes \subseteq Scope \ {Blank}
                           /\ RouteScopes \subseteq Scope
                           /\ None \notin {Normalize(c) : c \in Clients} \cup Requests

\* What the store holds of the records it is given.
Records == {Normalize(c) : c \in {d \in Clients : d.id # ""}}

VARIABLES
    clients,    \* MemoryClientStore.clients
    pc,         \* per handler: "idle", "find", "issue"
    request,    \* per handler: the one request it serves, or None before that
    client,     \* per handler: the client FindClient returned
    answer,     \* per handler: the OAuth error code it answered, "token" or ""
    token,      \* per handler: the claims of the token it answered with
    seen        \* history, per handler: the records its request's client has had
                \* in the store since the request came in

vars == <<clients, pc, request, client, answer, token, seen>>

Init ==
    /\ clients = [id \in ClientIDs |-> None]
    /\ pc = [h \in Handlers |-> "idle"]
    /\ request = [h \in Handlers |-> None]
    /\ client = [h \in Handlers |-> None]
    /\ answer = [h \in Handlers |-> ""]
    /\ token = [h \in Handlers |-> None]
    /\ seen = [h \in Handlers |-> {}]

Stored(id) == IF id \in ClientIDs THEN {clients[id]} \ {None} ELSE {}
-----------------------------------------------------------------------------
\* What TokenHTTP answers without a look at the store, or "".
Early(r) ==
    IF r.method # "POST" \/ ~ r.form THEN "invalid_request"
    ELSE IF r.grant # "client_credentials" THEN "unsupported_grant_type"
    ELSE IF r.id = "" \/ r.secret = "" THEN "invalid_client"
    ELSE ""

\* TokenHTTP up to the store.
Receive(h, r) ==
    /\ request[h] = None
    /\ pc' = [pc EXCEPT ![h] = IF Early(r) = "" THEN "find" ELSE "idle"]
    /\ request' = [request EXCEPT ![h] = r]
    /\ answer' = [answer EXCEPT ![h] = Early(r)]
    /\ token' = [token EXCEPT ![h] = None]
    /\ seen' = [seen EXCEPT ![h] = Stored(r.id)]
    /\ UNCHANGED <<clients, client>>

\* FindClient: a disabled client is not found either.
FindClient(h) ==
    LET found == {c \in Stored(request[h].id) : ~ c.disabled}
    IN  /\ pc[h] = "find"
        /\ \/ /\ found # {}
              /\ pc' = [pc EXCEPT ![h] = "issue"]
              /\ \E c \in found : client' = [client EXCEPT ![h] = c]
              /\ UNCHANGED answer
           \/ /\ found = {}
              /\ pc' = [pc EXCEPT ![h] = "idle"]
              /\ answer' = [answer EXCEPT ![h] = "invalid_client"]
              /\ UNCHANGED client
        /\ UNCHANGED <<clients, request, token, seen>>

\* FindClient of a store other than the memory store may fail.
StoreFails(h) ==
    /\ pc[h] = "find"
    /\ pc' = [pc EXCEPT ![h] = "idle"]
    /\ answer' = [answer EXCEPT ![h] = "server_error"]
    /\ UNCHANGED <<clients, request, client, token, seen>>

\* The scopes a request is resolved with.
Requested(c, r) == IF r.scopes = {} THEN c.defaults ELSE r.scopes

\* issue, after the client is found: the error code, or "token".
Decide(c, r) ==
    IF c.disabled \/ ~ VerifySecret(c, r.secret) THEN "invalid_client"
    ELSE IF r.audience = "" THEN "invalid_request"
    ELSE IF r.audience \notin c.audiences THEN "invalid_target"
    ELSE IF ~ resolveRequestedScopes(Requested(c, r), c.allowed).ok THEN "invalid_scope"
    ELSE "token"

\* The claims issueAccessToken signs.
Claims(c, r) ==
    [clientID |-> c.id, audience |-> r.audience,
     scope |-> resolveRequestedScopes(Requested(c, r), c.allowed).scopes]

\* Mutant: the scopes come from the store as it is now.
IssueFromStore(h) ==
    LET c == client[h]
        r == request[h]
        now == CHOOSE n \in Stored(r.id) : TRUE
    IN  /\ pc[h] = "issue"
        /\ pc' = [pc EXCEPT ![h] = "idle"]
        /\ answer' = [answer EXCEPT ![h] = Decide([c EXCEPT !.allowed = now.allowed], r)]
        /\ token' = [token EXCEPT ![h] = IF answer'[h] = "token"
                                         THEN Claims([c EXCEPT !.allowed = now.allowed], r) ELSE None]
        /\ client' = [client EXCEPT ![h] = None]
        /\ UNCHANGED <<clients, request, seen>>

\* The rest of issue, on the copy of the client; randomID and Sign may fail.
Issue(h) ==
    LET decision == Decide(client[h], request[h])
    IN  /\ pc[h] = "issue"
        /\ pc' = [pc EXCEPT ![h] = "idle"]
        /\ \/ /\ answer' = [answer EXCEPT ![h] = decision]
              /\ token' = [token EXCEPT ![h] = IF decision = "token"
                                               THEN Claims(client[h], request[h]) ELSE None]
           \/ /\ decision = "token"
              /\ answer' = [answer EXCEPT ![h] = "server_error"]
              /\ UNCHANGED token
        /\ client' = [client EXCEPT ![h] = None]
        /\ UNCHANGED <<clients, request, seen>>

\* Upsert replaces the record of the client's id; without an id it does nothing.
Upsert(c) ==
    LET n == Normalize(c)
    IN  /\ n.id # ""
        /\ clients' = [clients EXCEPT ![n.id] = n]
        /\ seen' = [h \in Handlers |->
                      IF pc[h] # "idle" /\ request[h].id = n.id THEN seen[h] \cup {n} ELSE seen[h]]
        /\ UNCHANGED <<pc, request, client, answer, token>>

Next ==
    \/ \E h \in Handlers : \/ \E r \in Requests : Receive(h, r)
                           \/ FindClient(h)
                           \/ StoreFails(h)
                           \/ Issue(h)
    \/ \E c \in Clients : Upsert(c)

Spec == Init /\ [][Next]_vars
-----------------------------------------------------------------------------
(* Properties *)

AccessTokens == [clientID : ClientIDs, audience : UNION {c.audiences : c \in Records},
                 scope : SUBSET Scope]

\* Clients, requests and tokens are what the handlers take them for.
TypeOK ==
    /\ clients \in [ClientIDs -> Records \cup {None}]
    /\ pc \in [Handlers -> {"idle", "find", "issue"}]
    /\ request \in [Handlers -> Requests \cup {None}]
    /\ client \in [Handlers -> Records \cup {None}]
    /\ answer \in [Handlers -> {"", "token", "invalid_request", "unsupported_grant_type",
                                "invalid_client", "invalid_target", "invalid_scope", "server_error"}]
    /\ token \in [Handlers -> AccessTokens \cup {None}]
    /\ seen \in [Handlers -> SUBSET Records]

\* The record c lets its client authenticate with the secret of request r.
Authenticates(c, r) == ~ c.disabled /\ VerifySecret(c, r.secret)

\* Whatever is upserted while a request is served, the token it gets is one that a
\* single record, in the store at some time during the request, allows: that
\* record is enabled, has the secret, and allows the audience and every scope that
\* a route can require and HasAllScopes finds covered by the token's scopes.
IssuedWithinPolicy ==
    \A h \in Handlers : answer[h] = "token" =>
        \E c \in seen[h] :
            /\ Authenticates(c, request[h])
            /\ token[h].clientID = c.id
            /\ token[h].audience \in c.audiences
            /\ \A s \in RouteScopes :
                  HasAllScopes(token[h].scope, {s}) => SetCovers(c.allowed, s)

\* A token carries concrete scopes only, whatever selectors the request and
\* whatever wildcards the policy hold, so a token covers a scope only by holding it.
ConcreteScopes ==
    \A h \in Handlers : answer[h] = "token" =>
        \A s \in token[h].scope : ~ containsScopeWildcard(s)

\* A request is honoured in full or refused: the token has each concrete scope
\* asked for and, of each selector, something; and nothing that was not asked for.
HonouredInFull ==
    \A h \in Handlers : (answer[h] = "token" /\ request[h].scopes # {}) =>
        /\ \A s \in request[h].scopes : \E i \in token[h].scope : ScopeCovers(s, i)
        /\ \A i \in token[h].scope : SetCovers(request[h].scopes, i)

\* Who does not know a secret of the client learns nothing about it: an answer
\* that depends on the client's audiences or scopes is given only to a request
\* that some record of the client, at some time during the request, authenticates.
AnswersNeedSecret ==
    \A h \in Handlers : answer[h] \in {"invalid_target", "invalid_scope", "token"} =>
        \E c \in seen[h] : Authenticates(c, request[h])

\* A client whose records all pass Validate (client.go) can rely on its default
\* scopes: a request that names no scopes is never refused for its scopes,
\* whatever wildcards the policy holds.
DefaultsHonoured ==
    \A h \in Handlers : (answer[h] = "invalid_scope" /\ request[h].scopes = {}) =>
        \E c \in seen[h] : ~ Validate(c)

\* What a handler that holds a record will answer unless something fails.
Pending(h) ==
    IF pc[h] # "issue" THEN None
    ELSE LET decision == Decide(client[h], request[h])
         IN  [answer |-> decision,
              token  |-> IF decision = "token" THEN Claims(client[h], request[h]) ELSE None]

PhaseOf(h) == CASE pc[h] = "idle"  -> "idle"
                [] pc[h] = "find"  -> "waiting"
                [] pc[h] = "issue" -> "decided"

Abstract == INSTANCE Issuance WITH
    phase   <- [h \in Handlers |-> PhaseOf(h)],
    verdict <- [h \in Handlers |-> Pending(h)]

\* A handler that works on a copy of the record while Upsert replaces the stored
\* one (store.go), expands selectors and looks at things in its own order
\* (token_service.go, scopes.go) amounts to a decision taken in one instant by the
\* policy of Issuance: a token if and only if it is due, with exactly the scopes
\* that are wanted and allowed.
ImplementsIssuance == Abstract!Spec
=============================================================================
