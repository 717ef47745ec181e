------------------------------ MODULE MCRoutes ------------------------------
(***************************************************************************)
(* Routes with parameters, catch-alls and trailing slashes around the      *)
(* ready paths, and two mounts that can stand side by side.                *)
(***************************************************************************)
EXTENDS Routes

MCSegments == {"", "readyz", ":x", ":y", "*all", "a", "b", "keys", "jwks.json", "oauth", "token",
               "openid-configuration", "healthz", "d2", "h2"}

MCPrefix == <<"a">>

MCAppPatterns == {<<"readyz">>, <<"readyz", "">>, <<":x">>, <<":y">>, <<"*all">>,
                  <<"a", ":x">>, <<"a", "*all">>, <<":x", "readyz">>}

MCRequests == {<<"">>, <<"readyz">>, <<"readyz", "">>, <<"a">>, <<"a", "">>, <<"a", "readyz">>,
               <<"a", "b">>, <<"keys">>, <<"jwks.json">>, <<"b", "readyz">>}

MCReady == {Unset, <<"readyz">>, <<"readyz", "">>, <<"a">>, <<"a", "readyz">>, <<"a", ":x">>}

\* The endpoints of a first and a second mount; one takes the ready path for its keys.
MCSetters ==
    {[token |-> Unset, jwks |-> k, discovery |-> Unset, health |-> Unset, ready |-> r] :
        k \in {Unset, <<"readyz">>}, r \in MCReady}
    \cup {[token |-> <<"t2">>, jwks |-> <<"keys">>, discovery |-> <<"d2">>, health |-> <<"h2">>,
           ready |-> r] : r \in {Unset, <<"a">>}}
=============================================================================
