--------------------------- MODULE MCRemoteProvider ---------------------------
(* RemoteProvider on a small instance. *)
EXTENDS RemoteProvider

MCTrimSpace(s) == IF s = " " THEN "" ELSE s
MCOnCurve(x, y) == x = y

Ed25519(kid, alg) == [NewEd25519Key(kid, 1) EXCEPT !.alg = alg]

RSA(kid, exponent) ==
    [kid |-> kid, use |-> "", alg |-> "", kty |-> "RSA", crv |-> "",
     x |-> NoOctets, y |-> NoOctets, n |-> Octets(256, 3233), e |-> Octets(3, exponent)]

\* A rotation to an RSA key, which is published beside the old one and declares no
\* algorithm.  In between the server publishes it with an exponent that is even.
MCDocuments == <<<<Ed25519("old", EdDSA)>>,
                 <<Ed25519("old", EdDSA), RSA("new", 65536)>>,
                 <<Ed25519("old", EdDSA), RSA("new", 65537)>>>>
MCNewKey == {[kid |-> "new", alg |-> "RS256"]}
\* The second query names another algorithm than its key declares.
MCQueries == MCNewKey \cup {[kid |-> "old", alg |-> "RS256"]}
=============================================================================
