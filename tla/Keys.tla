-------------------------------- MODULE Keys --------------------------------
(***************************************************************************)
(* JSON Web Keys (src/jwk/key.go, decode.go, static.go): which documents a *)
(* provider accepts, and which key it hands out for a kid and an algorithm.*)
(* A key field is [size, value]: how many octets it encodes and the number *)
(* they spell; an absent field has size 0, one that is not base64url -1.   *)
(***************************************************************************)
EXTENDS Integers, Sequences

CONSTANTS
    TrimSpace(_),       \* strings.TrimSpace
    OnCurve(_, _),      \* whether P-256 has a point with these coordinates
    MaxInt              \* the largest int

EdDSA == "EdDSA"
RSAAlgorithms == {"RS256", "RS384", "RS512", "PS256", "PS384", "PS512"}

Octets(size, value) == [size |-> size, value |-> value]
NoOctets == Octets(0, 0)

decodesEd25519(k) == k.crv = "Ed25519" /\ k.x.size = 32

decodesRSA(k) ==
    /\ k.n.size > 0 /\ k.n.value > 1 /\ k.n.value % 2 = 1
    /\ k.e.size \in 1..8
    /\ k.e.value \in 3..MaxInt /\ k.e.value % 2 = 1

decodesECDSA(k) ==
    /\ k.crv = "P-256"
    /\ k.x.size = 32 /\ k.y.size = 32 /\ OnCurve(k.x.value, k.y.value)

\* DecodePublicKey returns no error.
Decodes(k) ==
    \/ k.kty = "OKP" /\ decodesEd25519(k)
    \/ k.kty = "RSA" /\ decodesRSA(k)
    \/ k.kty = "EC" /\ decodesECDSA(k)

\* The key that DecodePublicKey returns: its type and its numbers.
PublicKey(k) == <<k.kty>> \o (CASE k.kty = "OKP" -> <<k.x.value>>
                                [] k.kty = "RSA" -> <<k.n.value, k.e.value>>
                                [] k.kty = "EC"  -> <<k.x.value, k.y.value>>)

\* Mutant: an Ed25519 key must declare the name of its curve.
AlgorithmIsCurve(k) == k.alg = "" \/ k.alg = k.crv

validateDeclaredAlgorithm(k) ==
    \/ k.alg = ""
    \/ k.kty = "OKP" /\ k.crv = "Ed25519" /\ k.alg = EdDSA
    \/ k.kty = "RSA" /\ k.alg \in RSAAlgorithms
    \/ k.kty = "EC" /\ k.crv = "P-256" /\ k.alg = "ES256"

\* decodeSet: the decoded keys by kid, unless any key of the document is bad.
decodeSet(set) ==
    [ok   |-> /\ set # <<>>
              /\ \A i \in DOMAIN set : /\ TrimSpace(set[i].kid) # ""
                                       /\ set[i].use \in {"", "sig"}
                                       /\ validateDeclaredAlgorithm(set[i])
                                       /\ Decodes(set[i])
              /\ \A i, j \in DOMAIN set : set[i].kid = set[j].kid => i = j,
     keys |-> [kid \in {set[i].kid : i \in DOMAIN set} |->
                 LET k == set[CHOOSE i \in DOMAIN set : set[i].kid = kid]
                 IN  [publicKey |-> PublicKey(k), declaredAlg |-> k.alg]]]

\* decodedKey.forAlgorithm returns no error.
forAlgorithm(key, alg) == key.declaredAlg = "" \/ alg = "" \/ key.declaredAlg = alg

\* NewEd25519Key
NewEd25519Key(kid, pub) ==
    [kid |-> TrimSpace(kid), use |-> "sig", alg |-> EdDSA, kty |-> "OKP", crv |-> "Ed25519",
     x |-> Octets(32, pub), y |-> NoOctets, n |-> NoOctets, e |-> NoOctets]
=============================================================================
