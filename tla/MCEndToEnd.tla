----------------------------- MODULE MCEndToEnd -----------------------------
(***************************************************************************)
(* Instances of EndToEnd: a client that is narrowed, widened and disabled; *)
(* two scopes; guards with verifiers at both ends of the leeway, of other  *)
(* audiences and issuers, and without a verifier.                          *)
(***************************************************************************)
EXTENDS EndToEnd

A == <<"a">>
B == <<"b">>

Record(allowed, disabled) ==
    [id |-> "c", secrets |-> {}, digests |-> {Digest("s")}, audiences |-> {"x"},
     allowed |-> allowed, defaults |-> {A}, disabled |-> disabled]

MCClients == {Record({A, B}, FALSE), Record({A}, FALSE), Record({A, B}, TRUE)}

MCTargets == {[audience |-> "x", scopes |-> {A, B}]}

MCRequests == {[method |-> "POST", form |-> TRUE, grant |-> "client_credentials", id |-> "c",
                secret |-> "s", audience |-> t.audience, scopes |-> t.scopes] : t \in MCTargets}

MCBuilder == [verifier |-> NoVerifier, issuer |-> "i", audience |-> "x", provider |-> NoProvider,
              jwksURL |-> "url", scopes |-> {A}]

Unrestricted == [NewVerifier("", "", {"k"}) EXCEPT !.use = "", !.algs = {}]

Route(guard, args, skew) == [guard |-> guard, args |-> args, skew |-> skew]

MCRoutes ==
    {Route(Build(MCBuilder), {}, 1),
     Route(Build(MCBuilder), {A, B}, -1),
     Route(Build([MCBuilder EXCEPT !.audience = "y", !.provider = {"k"}]), {}, 0),
     Route(Build([MCBuilder EXCEPT !.verifier = Unrestricted]), {Blank}, -1),
     Route(newGuard(NoVerifier, {}), {}, 0)}

ASSUME \A b \in {MCBuilder} : Builds(b)
=============================================================================
