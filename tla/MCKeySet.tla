------------------------------ MODULE MCKeySet ------------------------------
(***************************************************************************)
(* The documents KeySet is offered: every combination of the members that  *)
(* classify reads, and entries that matter to each other.                  *)
(***************************************************************************)
EXTENDS KeySet

(* Documents: a good key with every entry of a product of member values,   *)
(* all of up to three entries from a handful that matter together, and all *)
(* of four good keys.                                                      *)

Entries == [kty : {"RSA", "EC", "OKP", "oct", ""},
            alg : {"", "RS256", "RS384", "RS1", "ES256", "ES384", "ES256K",
                   "ECDH-ES", "EdDSA", "HS256", "NONE"},
            use : {"", "sig", "enc"}, crv : {"", "P-256", "P-384"},
            kid : {"", "k1", "long"}, private : BOOLEAN,
            material : {"m1", "", "bad"}]

Key(kty, alg, crv, kid, m) ==
  [kty |-> kty, alg |-> alg, use |-> "sig", crv |-> crv, kid |-> kid,
   private |-> FALSE, material |-> m]
Rsa(kid, m) == Key("RSA", "RS256", "", kid, m)
Ec(kid, m) == Key("EC", "ES256", "P-256", kid, m)

Good == {Rsa("k1", "m1"), Rsa("k1", "m2"), Rsa("k1", "0m1"), Ec("k1", "m1"),
         Rsa("k2", "m1")}
Together == Good \cup {Ec("k2", "0m1"), Rsa("k2", "long"), Ec("k2", "zero"),
  Key("RSA", "RS512", "", "", "m1"), Key("EC", "EdDSA", "P-384", "k2", "m1"),
  [Rsa("k1", "m1") EXCEPT !.use = "enc"],
  [Rsa("k1", "m2") EXCEPT !.private = TRUE, !.use = "enc"]}

MCDocuments == {<<Rsa("k2", "m1"), e>> : e \in Entries} \cup [1..4 -> Good]
               \cup UNION {[1..n -> Together] : n \in 0..3}
=============================================================================
