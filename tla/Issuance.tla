------------------------------- MODULE Issuance -------------------------------
(***************************************************************************)
(* What the token endpoint promises, without handlers that take several    *)
(* steps: a request is decided in one instant, on the record the store     *)
(* holds at that instant, and answered later with that decision.  The      *)
(* scopes it grants are a set, not the result of an expansion.             *)
(***************************************************************************)
EXTENDS ClientRecords

CONSTANTS Handlers, ClientIDs, Clients, Requests, None

VARIABLES
    clients,    \* per client: its record
    phase,      \* per handler: "idle", "waiting" for a decision, or "decided"
    request,    \* per handler: the one request it serves
    verdict,    \* per handler: what was decided
    answer,     \* per handler: its answer
    token       \* per handler: the claims of the token it answered with

vars == <<clients, phase, request, verdict, answer, token>>

Init ==
    /\ clients = [id \in ClientIDs |-> None]
    /\ phase = [h \in Handlers |-> "idle"]
    /\ request = [h \in Handlers |-> None]
    /\ verdict = [h \in Handlers |-> None]
    /\ answer = [h \in Handlers |-> ""]
    /\ token = [h \in Handlers |-> None]
-----------------------------------------------------------------------------
(* The policy *)

\* The clients that request r can be from: enabled, and of its id.
Enabled(r) == {c \in {clients[id] : id \in ClientIDs} \ {None} : c.id = r.id /\ ~ c.disabled}

Wanted(c, r) == IF r.scopes = {} THEN c.defaults ELSE r.scopes

\* The scopes granted: the concrete ones, among those wanted and those the policy
\* lists, that are wanted and allowed.
Grant(c, wanted) ==
    {s \in wanted \cup c.allowed : /\ ~ containsScopeWildcard(s)
                                   /\ SetCovers(wanted, s)
                                   /\ SetCovers(c.allowed, s)}

\* All or nothing: a concrete scope is granted itself, a selector selects at least
\* one scope that the policy lists.
Satisfied(c, wanted) ==
    \A s \in wanted : \E g \in Grant(c, wanted) : /\ ScopeCovers(s, g)
                                                  /\ g = s \/ g \in c.allowed

Granted(c, r) ==
    /\ VerifySecret(c, r.secret)
    /\ r.audience # "" /\ r.audience \in c.audiences
    /\ Satisfied(c, Wanted(c, r))

Refusal(code) == [answer |-> code, token |-> None]

\* Decisions on record c: a token if and only if it is due; who does not know a
\* secret is told nothing else.
Verdicts(c, r) ==
    IF Granted(c, r)
    THEN {[answer |-> "token",
           token  |-> [clientID |-> c.id, audience |-> r.audience,
                       scope |-> Grant(c, Wanted(c, r))]]}
    ELSE IF VerifySecret(c, r.secret)
    THEN {Refusal("invalid_request"), Refusal("invalid_target"), Refusal("invalid_scope")}
    ELSE {Refusal("invalid_client")}
-----------------------------------------------------------------------------
Reply(h, v) ==
    /\ phase' = [phase EXCEPT ![h] = "idle"]
    /\ verdict' = [verdict EXCEPT ![h] = None]
    /\ answer' = [answer EXCEPT ![h] = v.answer]
    /\ token' = [token EXCEPT ![h] = v.token]

\* A request for a token, from somebody who claims to be a client.
WellFormed(r) ==
    /\ r.method = "POST" /\ r.form /\ r.grant = "client_credentials"
    /\ r.id # "" /\ r.secret # ""

\* Any other request is refused at once, whatever the store holds.
RefuseMalformed(h, r) ==
    /\ request[h] = None
    /\ ~ WellFormed(r)
    /\ request' = [request EXCEPT ![h] = r]
    /\ \E code \in {"invalid_request", "unsupported_grant_type", "invalid_client"} :
          Reply(h, Refusal(code))
    /\ UNCHANGED clients

Accept(h, r) ==
    /\ request[h] = None
    /\ WellFormed(r)
    /\ request' = [request EXCEPT ![h] = r]
    /\ phase' = [phase EXCEPT ![h] = "waiting"]
    /\ answer' = [answer EXCEPT ![h] = ""]
    /\ token' = [token EXCEPT ![h] = None]
    /\ UNCHANGED <<clients, verdict>>

\* The one instant that counts.
Judge(h) ==
    /\ phase[h] = "waiting"
    /\ phase' = [phase EXCEPT ![h] = "decided"]
    /\ \E c \in Enabled(request[h]) : \E v \in Verdicts(c, request[h]) :
          verdict' = [verdict EXCEPT ![h] = v]
    /\ UNCHANGED <<clients, request, answer, token>>

\* An unknown or disabled client is refused.
RefuseStranger(h) ==
    /\ phase[h] = "waiting"
    /\ Enabled(request[h]) = {}
    /\ Reply(h, Refusal("invalid_client"))
    /\ UNCHANGED <<clients, request>>

Answer(h) ==
    /\ phase[h] = "decided"
    /\ Reply(h, verdict[h])
    /\ UNCHANGED <<clients, request>>

\* A failure makes an answer a server error; it never makes a refusal a token.
Fail(h) ==
    /\ \/ phase[h] = "waiting"
       \/ phase[h] = "decided" /\ verdict[h].answer = "token"
    /\ Reply(h, Refusal("server_error"))
    /\ UNCHANGED <<clients, request>>

\* The operator replaces a record.
Replace(c) ==
    /\ Normalize(c).id # ""
    /\ clients' = [clients EXCEPT ![Normalize(c).id] = Normalize(c)]
    /\ UNCHANGED <<phase, request, verdict, answer, token>>

Next ==
    \/ \E h \in Handlers : \/ \E r \in Requests : RefuseMalformed(h, r) \/ Accept(h, r)
                           \/ Judge(h)
                           \/ RefuseStranger(h)
                           \/ Answer(h)
                           \/ Fail(h)
    \/ \E c \in Clients : Replace(c)

Spec == Init /\ [][Next]_vars
=============================================================================
