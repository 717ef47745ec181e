--------------------------- MODULE MCTokenService ---------------------------
(***************************************************************************)
(* Instances of TokenService: one handler, as handlers share nothing but   *)
(* the store, and records that differ in their secret, in the audiences    *)
(* and in the scopes they allow; one is disabled, and one has a policy     *)
(* that only a store, which nobody validates, can hold.                    *)
(***************************************************************************)
EXTENDS ScopeMeaning

MCSegments == {"", "a", "b", "*", "**", "a*"}

Policy(secrets, audiences, allowed, defaults, disabled) ==
    [id |-> "c", secrets |-> secrets \ {"t"}, digests |-> {Digest(s) : s \in secrets \cap {"t"}},
     audiences |-> audiences, allowed |-> allowed, defaults |-> defaults, disabled |-> disabled]

MCClients ==
    {Policy({"s"}, {"x"}, {<<"a", "a">>, <<"a", "b", "b">>, <<"b", "*">>}, {<<"a", "a">>}, FALSE),
     Policy({"t"}, {"x", "y"}, {<<"a", "a">>, <<"a", "b">>, <<"b", "**">>}, {}, FALSE),
     Policy({"s", "t"}, {"x"}, {<<"a", "a">>}, {}, TRUE),
     Policy({"t"}, {"x"}, {<<"**">>, <<"*", "a">>, <<"a", "a">>, <<"a", "">>}, {<<"a", "*">>}, FALSE),
     Policy({"s", ""}, {"x", ""}, {<<"b", "**">>, <<"">>}, {<<"b", "*">>, <<"">>}, FALSE)}

Req(grant, id, secret, audience, scopes) ==
    [method |-> "POST", form |-> TRUE, grant |-> grant, id |-> id,
     secret |-> secret, audience |-> audience, scopes |-> scopes]

MCScope == {<<"">>, <<"a">>} \cup [1..2 -> MCSegments]
           \cup {<<"a", "b", "b">>, <<"b", "a", "a">>, <<"a", "b", "*">>, <<"a", "*", "b">>}

MCScopes == {{}} \cup {{s} : s \in MCScope \ {<<"">>}}
            \cup {{<<"a", "*">>, s} : s \in {<<"b", "*">>, <<"b", "a">>, <<"a", "b">>, <<"*", "a">>}}

MCRequests ==
    {Req("client_credentials", "c", s, "x", scopes) : s \in {"s", "t"}, scopes \in MCScopes}
    \cup {Req("client_credentials", "c", s, a, {<<"a", "a">>}) : s \in {"s", "wrong", ""}, a \in {"", "y"}}
    \cup {Req("password", "c", "s", "x", {}), Req("client_credentials", "d", "s", "x", {})}
    \cup {[Req("client_credentials", "c", "s", "x", {}) EXCEPT !.method = "GET"]}
=============================================================================
