---------------------------- MODULE MCJWKSCache ----------------------------
(***************************************************************************)
(* Small instance of JWKSCache: a document with the first key, one in the  *)
(* middle of a rotation (the new kid twice, an encryption key under it,    *)
(* one with an even exponent) and one without a usable signing key.        *)
(***************************************************************************)
EXTENDS JWKSCache

Modulus(id, bits) == [id |-> id, bits |-> bits]
F4 == [bytes |-> 3, value |-> 65537]
Sig(kid, id) ==
  [kid |-> kid, kty |-> "RSA", use |-> "sig", alg |-> "RS256", n |-> Modulus(id, 2048), e |-> F4]

MCKids == {"new"}
MCDocuments ==
  { <<Sig("old", "n1")>>,
    << [Sig("new", "n0") EXCEPT !.use = ""], Sig("new", "n2"),
       [Sig("new", "n3") EXCEPT !.use = "enc", !.alg = "RSA-OAEP"],
       [Sig("new", "n4") EXCEPT !.e = [bytes |-> 1, value |-> 4]] >>,
    << [Sig("old", "n1") EXCEPT !.kty = "EC"], [Sig("new", "n2") EXCEPT !.n = Modulus("n2", 512)],
       [Sig("new", "n2") EXCEPT !.n = Nil] >> }
=============================================================================
