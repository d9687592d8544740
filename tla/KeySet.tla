-------------------------------- MODULE KeySet --------------------------------
(***************************************************************************)
(* The key set of the JWT plugin: a JWKS document is parsed                *)
(* (plugin-jwt/src/jwks.rs) and its keys are used to verify signatures     *)
(* (plugin-jwt/src/verify.rs). An entry has the members that classify      *)
(* reads, "" for one that is absent; its key components are one value,     *)
(* "m1" and "m2" two keys, "0m1" the first with a leading zero byte, "zero" *)
(* a single zero byte. Signatures are ideal: one verifies with the key     *)
(* that made it.                                                           *)
(***************************************************************************)
EXTENDS Integers, Sequences, FiniteSets, SequencesExt

CONSTANTS
  Documents,      \* sequences of entries, see EntryOk
  Allowed,        \* JwtPolicy::algorithms
  MaxKeys,        \* MAX_KEYS
  MaxKeysPerKid,  \* MAX_KEYS_PER_KID
  LongKids        \* kids longer than MAX_KID_LEN

Supported == {"RS256", "ES256"}
Materials == {"m1", "m2", "0m1", "", "long", "bad", "zero"}
EntryOk(e) == e.private \in BOOLEAN /\ e.material \in Materials

ASSUME KeySetAssumption ==
  /\ \A d \in Documents : \A i \in 1..Len(d) : EntryOk(d[i])
  /\ Allowed \subseteq Supported
  /\ MaxKeys \in Nat /\ MaxKeysPerKid \in Nat

VARIABLES
  doc,     \* the document
  result,  \* "none", "ok" or the JwksError
  keys,    \* KeySet::keys of the set that is in use
  token,   \* the last token: kid, alg and the key that signed it
  verdict  \* "none", "verified" or the VerifyError

keySetVars == <<doc, result, keys, token, verdict>>

-----------------------------------------------------------------------------
(* One entry. classify answers with a key, "skip" or an error.              *)

Forbidden == {"none", "NONE", "HS256", "HS384", "HS512"}
RsaPrefixed == {"RS256", "RS384", "RS512", "PS256", "PS384", "PS512", "RS1",
                "RSA1_5", "RSA-OAEP", "RSA-OAEP-256"}
EcdhPrefixed == {"ECDH-ES", "ECDH-ES+A128KW", "ECDH-ES+A192KW", "ECDH-ES+A256KW"}
EsPrefixed == {"ES256", "ES384", "ES512", "ES256K"}
SkippableRsaAlgs == RsaPrefixed \ {"RS256", "RS1"}
SkippableEcAlgs == EcdhPrefixed

RequiredKty(alg) ==
  CASE alg \in RsaPrefixed -> {"RSA"}
    [] alg \in EcdhPrefixed -> {"EC", "OKP"}
    [] alg \in EsPrefixed -> {"EC"}
    [] OTHER -> {"RSA", "EC", "OKP", "unknown"}

RequiredCrv == [ES256 |-> "P-256", ES384 |-> "P-384", ES512 |-> "P-521"]

\* The error of key components, "" for none; the leading zeros of an RSA
\* component are dropped, an EC coordinate has its exact length, which a
\* single byte has not.
DecodeError(kind, m) ==
  CASE m = "" -> "MissingKeyComponent"
    [] m = "bad" -> "InvalidKeyEncoding"
    [] m = "long" -> IF kind = "Rsa" THEN "KeyTooLarge" ELSE "InvalidKeyLength"
    [] m = "zero" -> IF kind = "Rsa" THEN "InvalidKeyEncoding" ELSE "InvalidKeyLength"
    [] m = "0m1" /\ kind = "EcP256" -> "InvalidKeyLength"
    [] OTHER -> ""
Decoded(kind, m) == IF m = "0m1" THEN "m1" ELSE m

Kind(e) == IF e.kty = "RSA" THEN "Rsa" ELSE "EcP256"
AlgorithmOf(e) == IF e.kty = "RSA" THEN "RS256" ELSE "ES256"
Jwk(e) == [kid |-> e.kid, alg |-> AlgorithmOf(e), kind |-> Kind(e),
           material |-> Decoded(Kind(e), e.material)]

\* What is refused whatever the key is for, "" for nothing.
Refused(e) ==
  IF e.kty = "" THEN "InvalidJson"
  ELSE IF e.kty = "oct" THEN "SymmetricKey"
  ELSE IF e.alg \in Forbidden THEN "ForbiddenAlgorithm"
  ELSE IF e.private THEN "PrivateKeyMaterial"
  ELSE IF e.kty \notin RequiredKty(e.alg) THEN "KeyAlgorithmMismatch"
  ELSE IF e.kty = "EC" /\ e.alg \in DOMAIN RequiredCrv /\ e.crv # RequiredCrv[e.alg] THEN
         IF e.alg = "ES256" THEN "UnsupportedCurve" ELSE "KeyAlgorithmMismatch"
  ELSE ""

\* "skip", an error or "key" for an entry that is not refused.
Sorted(e) ==
  IF e.use \notin {"", "sig"} THEN "skip"
  ELSE IF e.kty = "EC" /\ e.crv = "" THEN "UnsupportedCurve"
  ELSE IF e.kty # "RSA" /\ ~(e.kty = "EC" /\ e.crv = "P-256") THEN "skip"
  ELSE IF e.alg \in (IF e.kty = "RSA" THEN SkippableRsaAlgs ELSE SkippableEcAlgs) THEN "skip"
  ELSE IF e.kid = "" THEN "MissingKeyId"
  ELSE IF e.kid \in LongKids THEN "KeyIdTooLong"
  ELSE IF e.alg = "" THEN "MissingAlgorithm"
  ELSE IF e.alg # AlgorithmOf(e) THEN "KeyAlgorithmMismatch"
  ELSE IF DecodeError(Kind(e), e.material) # "" THEN DecodeError(Kind(e), e.material)
  ELSE "key"

ClassifySkipFirst(e) ==
  IF e.use \notin {"", "sig"} THEN "skip"
  ELSE IF Refused(e) # "" THEN Refused(e) ELSE Sorted(e)
ClassifySkipBad(e) ==
  IF Refused(e) # "" THEN Refused(e)
  ELSE IF Sorted(e) \in {"key", "skip"} THEN Sorted(e) ELSE "skip"
Classify(e) == IF Refused(e) # "" THEN Refused(e) ELSE Sorted(e)

-----------------------------------------------------------------------------
(* A document.                                                             *)

KeysOf(d) ==
  LET adopted == SelectSeq(d, LAMBDA e : Classify(e) = "key")
  IN [i \in 1..Len(adopted) |-> Jwk(adopted[i])]

SameKid(ks, i) == {j \in 1..Len(ks) : ks[j].kid = ks[i].kid}

\* The errors of KeySet::from_json in its order: the first entry's in the
\* document, then the counts, then per key in turn.
FromJsonNoDuplicates(d) ==
  LET bad == {i \in 1..Len(d) : Classify(d[i]) \notin {"key", "skip"}}
      ks == KeysOf(d)
      wrong == {i \in 1..Len(ks) : \/ Cardinality(SameKid(ks, i)) > MaxKeysPerKid
                                   \/ i > 1 /\ ks[i - 1] = ks[i]}
  IN IF bad # {} THEN Classify(d[CHOOSE i \in bad : \A j \in bad : i <= j])
     ELSE IF Len(ks) > MaxKeys THEN "TooManyKeys"
     ELSE IF wrong # {} THEN "DuplicateKey"
     ELSE IF d # <<>> /\ ks = <<>> THEN "NoUsableKeys"
     ELSE "ok"
FromJson(d) ==
  LET bad == {i \in 1..Len(d) : Classify(d[i]) \notin {"key", "skip"}}
      ks == KeysOf(d)
      many == {i \in 1..Len(ks) : Cardinality(SameKid(ks, i)) > MaxKeysPerKid}
      again == {i \in 1..Len(ks) : \E j \in 1..(i - 1) : ks[j] = ks[i]}
      first(S) == CHOOSE i \in S : \A j \in S : i <= j
  IN IF bad # {} THEN Classify(d[first(bad)])
     ELSE IF Len(ks) > MaxKeys THEN "TooManyKeys"
     ELSE IF many \cup again # {}
        THEN IF first(many \cup again) \in many THEN "TooManyKeysForKeyId" ELSE "DuplicateKey"
     ELSE IF d # <<>> /\ ks = <<>> THEN "NoUsableKeys"
     ELSE "ok"

\* The document is offered to the plugin; a refused one leaves it without
\* keys, as KeySet::empty is what it starts with.
Offer ==
  /\ result = "none"
  /\ result' = FromJson(doc)
  /\ keys' = IF result' = "ok" THEN KeysOf(doc) ELSE keys
  /\ UNCHANGED <<doc, token, verdict>>

\* The text is too long, or not the JSON of a set: nothing of it is read.
OfferUnreadable ==
  /\ result = "none"
  /\ result' \in {"DocumentTooLarge", "InvalidJson"} /\ doc' = <<>>
  /\ UNCHANGED <<keys, token, verdict>>

-----------------------------------------------------------------------------
(* Verifying the signature of a token.                                     *)

SignatureOk(alg, k, signer) ==
  /\ <<alg, k.kind>> \in {<<"RS256", "Rsa">>, <<"ES256", "EcP256">>}
  /\ k.kind = signer.kind /\ k.material = signer.material

VerdictFirstKey(t) ==
  LET named == SelectSeq(keys, LAMBDA k : k.kid = t.kid)
  IN IF t.alg \notin Supported \cap Allowed THEN "AlgorithmNotAllowed"
     ELSE IF t.kid = "" THEN "MissingKeyId"
     ELSE IF t.kid \in LongKids THEN "Malformed"
     ELSE IF named = <<>> THEN "UnknownKeyId"
     ELSE IF named[1].alg # t.alg THEN "KeyAlgorithmMismatch"
     ELSE IF ~SignatureOk(t.alg, named[1], t.signer) THEN "InvalidSignature"
     ELSE "verified"
Verdict(t) ==
  LET named == {i \in 1..Len(keys) : keys[i].kid = t.kid}
      candidates == {i \in named : keys[i].alg = t.alg}
  IN IF t.alg \notin Supported \cap Allowed THEN "AlgorithmNotAllowed"
     ELSE IF t.kid = "" THEN "MissingKeyId"
     ELSE IF t.kid \in LongKids THEN "Malformed"
     ELSE IF named = {} THEN "UnknownKeyId"
     ELSE IF candidates = {} THEN "KeyAlgorithmMismatch"
     ELSE IF \A i \in candidates : ~SignatureOk(t.alg, keys[i], t.signer) THEN "InvalidSignature"
     ELSE "verified"

Tokens == [kid : {"", "k1", "k2"} \cup LongKids, alg : Supported \cup {"RS384", "none"},
           signer : [kind : {"Rsa", "EcP256"}, material : {"m1", "m2"}]]

VerifyToken ==
  /\ result # "none" /\ verdict = "none"
  /\ \E t \in Tokens : token' = t /\ verdict' = Verdict(t)
  /\ UNCHANGED <<doc, result, keys>>

NoToken == [kid |-> "", alg |-> "", signer |-> [kind |-> "", material |-> ""]]

KeySetInit ==
  /\ doc \in Documents
  /\ result = "none" /\ keys = <<>>
  /\ token = NoToken /\ verdict = "none"

KeySetNext == Offer \/ OfferUnreadable \/ VerifyToken
KeySetSpec == KeySetInit /\ [][KeySetNext]_keySetVars

-----------------------------------------------------------------------------
(* Properties. The first definitions say what a JWKS entry is, without the  *)
(* order in which classify looks at it.                                    *)

\* A public signature key of one of the two supported kinds.
Usable(e) ==
  /\ \/ e.kty = "RSA" /\ e.alg = "RS256" /\ e.material \in {"m1", "m2", "0m1"}
     \/ /\ e.kty = "EC" /\ e.alg = "ES256" /\ e.crv = "P-256"
        /\ e.material \in {"m1", "m2"}
  /\ ~e.private /\ e.use \in {"", "sig"}
  /\ e.kid # "" /\ e.kid \notin LongKids

\* Something that must never be published for verification.
Secret(e) == e.kty = "oct" \/ e.alg \in Forbidden \/ e.private

\* An algorithm that is not one for keys of this type and curve (RFC 7518,
\* RFC 8037 and, for ES256K, RFC 8812).
CurveOf == [ES256 |-> "P-256", ES384 |-> "P-384", ES512 |-> "P-521", ES256K |-> "secp256k1"]
Contradicts(e) ==
  \/ e.alg \in RsaPrefixed /\ e.kty # "RSA"
  \/ e.alg \in EcdhPrefixed /\ e.kty \notin {"EC", "OKP"}
  \/ e.alg = "EdDSA" /\ e.kty # "OKP"
  \/ e.alg \in DOMAIN CurveOf /\ (e.kty # "EC" \/ e.crv # CurveOf[e.alg])

\* classify has no rule for EdDSA, nor for the curve of ES256K: what only these
\* contradict is like any other algorithm to it.
Overlooked(e) == e.alg = "EdDSA" \/ (e.alg = "ES256K" /\ e.kty = "EC")

\* A key that is not for this plugin: not for signatures, of another type or
\* curve, or for an algorithm of its type that is not supported.
Unsupported(e) ==
  /\ e.kty # "" /\ ~Secret(e)
  /\ Contradicts(e) => Overlooked(e)
  /\ \/ e.use \notin {"", "sig"}
     \/ e.kty \notin {"RSA", "EC"}
     \/ e.kty = "EC" /\ e.crv \notin {"", "P-256"}
     \/ e.kty = "RSA" /\ e.alg \in SkippableRsaAlgs
     \/ e.kty = "EC" /\ e.crv = "P-256" /\ e.alg \in SkippableEcAlgs

\* The types of the variables; a kid never has more than MAX_KEYS_PER_KID
\* keys and no key occurs twice, so a signature is tried boundedly often.
KeySetTypeOK ==
  /\ Len(keys) <= MaxKeys
  /\ \A i \in 1..Len(keys) :
       /\ keys[i].kid # "" /\ keys[i].alg \in Supported
       /\ Cardinality(SameKid(keys, i)) <= MaxKeysPerKid
       /\ \A j \in 1..(i - 1) : keys[j] # keys[i]
  /\ token = NoToken <=> verdict = "none"

\* Nothing is adopted in part. A document is accepted exactly if each of its
\* entries is a usable key or one that is not for this plugin, and the usable
\* ones are there, no two the same and within the limits; so one entry with a
\* secret, with a contradiction that classify has a rule for, or broken as a
\* signature key refuses the document, wherever it stands. The keys of an
\* accepted document are all of its usable entries, in its order; a refused
\* one has none (KeySet::from_json, classify).
DocumentSound ==
  LET usable == SelectSeq(doc, Usable)
      ks == [i \in 1..Len(usable) |-> Jwk(usable[i])]
  IN /\ KeySetTypeOK
     /\ result # "none" /\ doc # <<>> =>
          (result = "ok" <=>
             /\ \A i \in 1..Len(doc) : Usable(doc[i]) \/ Unsupported(doc[i])
             /\ ks # <<>> /\ Len(ks) <= MaxKeys
             /\ \A i \in 1..Len(ks) :
                  /\ Cardinality(SameKid(ks, i)) <= MaxKeysPerKid
                  /\ \A j \in 1..(i - 1) : ks[j] # ks[i])
     /\ keys = IF result = "ok" THEN ks ELSE <<>>

\* An entry whose algorithm contradicts its type or curve refuses the whole
\* document, whatever the algorithm (the contract at the head of jwks.rs, and
\* the comment in classify: also for algorithms that are not supported).
ContradictionsRefused ==
  result = "ok" => \A i \in 1..Len(doc) : ~Contradicts(doc[i])

\* A token is verified exactly if its signer is published under its kid for
\* its algorithm and the policy allows that: all keys of a kid are tried while
\* keys rotate; and it is UnknownKeyId, which asks for a refresh, exactly if
\* no usable entry has its kid.
VerdictExact ==
  verdict # "none" =>
    LET published == {Jwk(doc[i]) : i \in {j \in 1..Len(doc) : Usable(doc[j])}}
        signer == [kid |-> token.kid, alg |-> token.alg,
                   kind |-> token.signer.kind, material |-> token.signer.material]
    IN /\ verdict = "verified" <=>
            result = "ok" /\ token.alg \in Allowed /\ signer \in published
       /\ verdict = "UnknownKeyId" =>
            result # "ok" \/ \A k \in published : k.kid # token.kid
       /\ verdict = "KeyAlgorithmMismatch" => \E k \in published : k.kid = token.kid

\* The keys are those of the document, and the verdict on a token is what they
\* say (KeySet::from_json, verify_inner).
KeySetSound == DocumentSound /\ VerdictExact
=============================================================================
