----------------------------- MODULE TokenVerify -----------------------------
(***************************************************************************)
(* What a token and a DPoP proof must say to be accepted: the policy       *)
(* (plugin-jwt/src/policy.rs), the verification of an access token         *)
(* (verify.rs), of a proof, its key and its target (dpop.rs, dpop/key.rs,  *)
(* dpop/origin.rs), and what authenticate_at and unauthorized_response     *)
(* (auth.rs) make of them for the first request of an authenticator, whose *)
(* cache and replay store are empty; JwtAuth has the later ones. A text    *)
(* that is decoded is a record of what is in it; signatures and digests    *)
(* are ideal.                                                              *)
(***************************************************************************)
EXTENDS Integers, Sequences, FiniteSets, SequencesExt

CONSTANTS
  TvSettings,    \* what an application configures, see Configured
  TvRequests,    \* requests: auths, proofs, method and path
  TvKeys,        \* the KeySet: keys with kid, alg and name
  TvTimes,       \* readings of the clock
  TvLongKids,    \* kids longer than MAX_KID_LEN
  TvMaxAud,      \* MAX_AUDIENCES and MAX_TOKEN_AUDIENCES
  TvMaxSkew,     \* MAX_CLOCK_SKEW
  TvMaxPast,     \* MAX_IAT_PAST
  TvMaxFuture,   \* MAX_IAT_FUTURE
  TvMaxTime,     \* the largest u64
  TvLowerHost,   \* the lower case of the hosts that are valid
  TvPort         \* the number of the ports that are numbers

ASSUME TokenAssumption ==
  /\ {TvMaxAud, TvMaxSkew, TvMaxPast, TvMaxFuture, TvMaxTime} \subseteq Nat
  /\ TvTimes \subseteq 0..TvMaxTime
  /\ \A r \in TvRequests : \A i \in 1..Len(r.proofs) : r.proofs[i].iat \in Nat
  /\ \A p \in DOMAIN TvPort : TvPort[p] \in Nat

VARIABLES
  tvSettings,  \* the settings the authenticator is built with, <<>> before
  tvBuilt,     \* "no", "yes" or "refused"
  tvNow,       \* now_unix of the request
  tvRequest,   \* the request, <<>> before it arrives
  tvVerdict,   \* <<>> before it, then its result
  tvAnswer     \* the WWW-Authenticate challenges and the body, when refused

tvVars == <<tvSettings, tvBuilt, tvNow, tvRequest, tvVerdict, tvAnswer>>

\* The error of the first check that fails, "" if none does. A check is a
\* condition under which the code returns, and the error it returns.
FirstError(checks) ==
  LET failed == {i \in 1..Len(checks) : checks[i][1]}
  IN IF failed = {} THEN ""
     ELSE checks[CHOOSE i \in failed : \A j \in failed : i <= j][2]

TvSub(a, b) == IF a < b THEN 0 ELSE a - b
TvAdd(a, b) == IF a + b > TvMaxTime THEN TvMaxTime ELSE a + b

-----------------------------------------------------------------------------
(* URIs: an origin is [scheme, user, host, port, rest], its rest the        *)
(* characters that follow the authority, a percent triplet being one.       *)

TvDefaultPort == [https |-> 443, http |-> 80]
TvScheme == [https |-> "https", HTTPS |-> "https", http |-> "http"]

TvOriginOk(o) ==
  /\ o.scheme \in DOMAIN TvScheme
  /\ ~o.user
  /\ o.host \in DOMAIN TvLowerHost
  /\ \/ o.port = "none"
     \/ o.port \in DOMAIN TvPort /\ TvPort[o.port] \in 1..65535

\* Mutation of ParseOrigin: the default port is kept.
KeepsPort(o) ==
  [scheme |-> TvScheme[o.scheme], host |-> TvLowerHost[o.host],
   port |-> IF o.port = "none" THEN 0 ELSE TvPort[o.port]]
\* The text parse_origin puts together; port 0 is left out of it.
ParseOrigin(o) ==
  LET s == TvScheme[o.scheme]
      p == IF o.port = "none" THEN 0 ELSE TvPort[o.port]
  IN [scheme |-> s, host |-> TvLowerHost[o.host],
      port |-> IF p = TvDefaultPort[s] THEN 0 ELSE p]

TvBadChars == {"\\", " ", "%zz"}
UpperHex(c) == IF c = "%2e" THEN "%2E" ELSE c
Dot(c) == c \in {".", "%2E"}

\* Mutation of DotSegment: an encoded dot is not a dot.
PlainDots(p, i) ==
  /\ p[i] = "/"
  /\ \E n \in 1..2 : /\ i + n <= Len(p)
                     /\ \A k \in 1..n : p[i + k] = "."
                     /\ i + n = Len(p) \/ p[i + n + 1] = "/"
\* The segment after position i is one or two dots.
DotSegment(p, i) ==
  /\ p[i] = "/"
  /\ \E n \in 1..2 : /\ i + n <= Len(p)
                     /\ \A k \in 1..n : Dot(p[i + k])
                     /\ i + n = Len(p) \/ p[i + n + 1] = "/"

NoPath == <<"none">>
\* normalize_path, NoPath for None
NormalizePath(p) ==
  LET out == [i \in 1..Len(p) |-> UpperHex(p[i])]
  IN IF p = <<>> THEN <<"/">>
     ELSE IF \/ p[1] # "/"
             \/ \E i \in 1..Len(p) : p[i] \in TvBadChars \/ DotSegment(out, i)
          THEN NoPath ELSE out

NoTarget == [origin |-> [scheme |-> "", host |-> "", port |-> 0], path |-> NoPath]

\* Mutation of ProofTarget: the query is compared too.
KeepsQuery(htu) ==
  LET path == NormalizePath(htu.rest)
  IN IF TvOriginOk(htu) /\ path # NoPath
     THEN [origin |-> ParseOrigin(htu), path |-> path] ELSE NoTarget
\* normalize_proof_htu: the htu of a proof without its query and fragment
ProofTarget(htu) ==
  LET ends == {i \in 1..Len(htu.rest) : htu.rest[i] \in {"?", "#"}}
      stop == IF ends = {} THEN Len(htu.rest) + 1
              ELSE CHOOSE i \in ends : \A j \in ends : i <= j
      path == NormalizePath(SubSeq(htu.rest, 1, stop - 1))
  IN IF TvOriginOk(htu) /\ path # NoPath
     THEN [origin |-> ParseOrigin(htu), path |-> path] ELSE NoTarget

\* PublicOrigin::expected_htu of the configured origin for a request
ExpectedHtu(origin, p) ==
  IF p # <<>> /\ p[1] = "/" /\ ToSet(p) \cap {"?", "#"} = {} /\ NormalizePath(p) # NoPath
  THEN [origin |-> ParseOrigin(origin), path |-> NormalizePath(p)] ELSE NoTarget

-----------------------------------------------------------------------------
(* The configuration: Issuer, Audiences, AllowedAlgorithms, the clock skew, *)
(* the IatWindow and the PublicOrigin, each refused by its constructor.     *)

ClaimOk(v) == v \notin {"", "toolong"}

Configured(s) ==
  /\ ClaimOk(s.issuer)
  /\ s.audiences # <<>> /\ \A i \in 1..Len(s.audiences) : ClaimOk(s.audiences[i])
  /\ Cardinality(ToSet(s.audiences)) <= TvMaxAud
  /\ s.algs # {}
  /\ s.skew <= TvMaxSkew
  /\ s.mode # "off" =>
       /\ s.past \in 1..TvMaxPast /\ s.future <= TvMaxFuture
       /\ TvOriginOk(s.origin) /\ s.origin.rest \in {<<>>, <<"/">>}

\* DpopConfig, the builder and build; a setting that is refused is the
\* application's error, and no authenticator comes of it.
TvBuild ==
  /\ tvBuilt = "no"
  /\ \E s \in TvSettings :
       /\ tvSettings' = s
       /\ tvBuilt' = IF Configured(s) THEN "yes" ELSE "refused"
  /\ UNCHANGED <<tvNow, tvRequest, tvVerdict, tvAnswer>>

-----------------------------------------------------------------------------
(* verify_inner                                                            *)

AccessTypes == {"at+jwt", "AT+JWT", "application/at+jwt"}

HeaderChecks(t, s) ==
  <<<<t.text = "empty", "MissingToken">>,
    <<t.text = "toolong", "TooLong">>,
    <<t.text = "parts", "Malformed">>,
    <<t.header # "ok", "Malformed">>,
    <<t.crit, "CriticalHeader">>,
    <<t.alg \notin s.algs, "AlgorithmNotAllowed">>,
    <<t.kid = "", "MissingKeyId">>,
    <<t.kid \in TvLongKids, "Malformed">>>>

\* A key is found with the kid and the algorithm; every key found is tried.
SignatureChecks(t) ==
  LET named == {k \in TvKeys : k.kid = t.kid}
      candidates == {k \in named : k.alg = t.alg}
  IN <<<<named = {}, "UnknownKeyId">>,
       <<candidates = {}, "KeyAlgorithmMismatch">>,
       <<t.sig = "undecodable", "Malformed">>,
       <<\A k \in candidates : k.name # t.sig, "InvalidSignature">>>>

\* Mutation of Expired: exp is the last second of validity.
LastSecond(t, s, n) == TvSub(n, s.skew) > t.exp
Expired(t, s, n) == TvSub(n, s.skew) >= t.exp

\* Mutation of NotYetValid: the skew is not granted.
Punctual(t, s, n) == n < t.nbf
NotYetValid(t, s, n) == TvAdd(n, s.skew) < t.nbf

ClaimChecks(t, s, n) ==
  <<<<t.typ \notin AccessTypes, "InvalidType">>,
    <<t.payload # "ok" \/ Len(t.aud) > TvMaxAud, "Malformed">>,
    <<"iss" \in t.missing, "MissingClaim">>,
    <<t.iss # s.issuer, "IssuerMismatch">>,
    <<"aud" \in t.missing, "MissingClaim">>,
    <<ToSet(t.aud) \cap ToSet(s.audiences) = {}, "AudienceMismatch">>,
    <<"exp" \in t.missing, "MissingClaim">>,
    <<Expired(t, s, n), "Expired">>,
    <<NotYetValid(t, s, n), "NotYetValid">>,
    <<~t.extra, "InvalidExtraClaims">>>>

\* Mutation of TokenError: the claims are read before the signature is checked.
ClaimsFirst(t, s, n) ==
  FirstError(HeaderChecks(t, s) \o ClaimChecks(t, s, n) \o SignatureChecks(t))
\* The VerifyError of a token, "" if there is none.
TokenError(t, s, n) ==
  FirstError(HeaderChecks(t, s) \o SignatureChecks(t) \o ClaimChecks(t, s, n))

-----------------------------------------------------------------------------
(* verify_proof. A jwk is [private, kty, alg, use, crv, material] with ""   *)
(* for what is absent; its materials "m1", "m2" are keys, the others broken. *)

ProofTypes == {"dpop+jwt", "DPoP+JWT", "application/dpop+jwt"}

\* canonical_int, fixed_coord: a key of an exact length. An RSA component with
\* a leading zero is refused, so that one key has one thumbprint.
TvMaterialOk(j) ==
  j.material \in {"m1", "m2"} \cup (IF j.kty = "EC" THEN {"0m1"} ELSE {})

\* Mutation of ProofKeyError: private members are ignored.
PrivateIgnored(j, alg) ==
  LET own == IF j.kty = "RSA" THEN "RS256" ELSE "ES256"
  IN FirstError(<<
       <<j.kty \notin {"RSA", "EC"}, "UnsupportedKey">>,
       <<alg # own \/ j.alg \notin {"", own}, "KeyAlgorithmMismatch">>,
       <<j.use \notin {"", "sig"}, "UnsupportedKey">>,
       <<j.kty = "EC" /\ j.crv # "P-256", "UnsupportedKey">>,
       <<~TvMaterialOk(j), "InvalidKey">> >>)
\* build_proof_key
ProofKeyError(j, alg) ==
  LET own == IF j.kty = "RSA" THEN "RS256" ELSE "ES256"
  IN FirstError(<<
       <<j.private, "PrivateKeyMaterial">>,
       <<j.kty \notin {"RSA", "EC"}, "UnsupportedKey">>,
       <<alg # own, "KeyAlgorithmMismatch">>,
       <<j.alg \notin {"", own}, "KeyAlgorithmMismatch">>,
       <<j.use \notin {"", "sig"}, "UnsupportedKey">>,
       <<j.kty = "EC" /\ j.crv # "P-256", "UnsupportedKey">>,
       <<~TvMaterialOk(j), "InvalidKey">> >>)

\* The digest of the members the key consists of, and of no other.
Thumbprint(j) == <<j.kty, j.material>>

\* The DpopError of a proof for a request with token t at time n.
ProofError(p, r, t, s, n) ==
  FirstError(<<
    <<p.text = "empty", "MissingProof">>,
    <<p.text = "toolong", "TooLong">>,
    <<p.text = "parts", "Malformed">>,
    <<p.header # "ok", "Malformed">>,
    <<p.crit, "CriticalHeader">>,
    <<p.typ \notin ProofTypes, "InvalidType">>,
    <<p.alg \notin s.proofAlgs, "AlgorithmNotAllowed">>,
    <<p.jwk.kty = "nojwk", "MissingJwk">>,
    <<ProofKeyError(p.jwk, p.alg) # "", ProofKeyError(p.jwk, p.alg)>>,
    <<p.sig = <<"undecodable">>, "Malformed">>,
    <<p.sig # <<p.jwk.kty, p.jwk.material>>, "InvalidSignature">>,
    <<p.payload # "ok", "Malformed">>,
    <<p.missing # {}, "MissingClaim">>,
    <<p.jti \in {"", "toolong"}, "InvalidJti">>,
    <<p.htm # r.method, "MethodMismatch">>,
    <<\/ ProofTarget(p.htu) = NoTarget
      \/ ProofTarget(p.htu) # ExpectedHtu(s.origin, r.path), "UriMismatch">>,
    <<p.iat < TvSub(n, s.past) \/ p.iat > TvAdd(n, s.future), "IssuedAtOutOfWindow">>,
    <<p.ath # t.id, "AccessTokenHashMismatch">> >>)

-----------------------------------------------------------------------------
(* authenticate_at and unauthorized_response                               *)

Accepted == <<"ok", "">>

SchemeOf == [Bearer |-> "Bearer", bearer |-> "Bearer", DPoP |-> "DPoP", Basic |-> "other"]

\* The scheme of the request's one Authorization header, "none" for any other
\* number of them or one without a token.
Scheme(r) == IF Len(r.auths) = 1 /\ r.auths[1][2].text # "empty"
             THEN SchemeOf[r.auths[1][1]] ELSE "none"

ProofVerdict(r, t, s, n) ==
  LET p == r.proofs[1]
      e == FirstError(<<
             <<r.proofs = <<>>, "MissingProof">>,
             <<Len(r.proofs) > 1, "MultipleProofs">>,
             <<ExpectedHtu(s.origin, r.path) = NoTarget, "InvalidRequestTarget">> >>)
  IN IF e # "" THEN <<"proof", e>>
     ELSE IF ProofError(p, r, t, s, n) # "" THEN <<"proof", ProofError(p, r, t, s, n)>>
     ELSE IF Thumbprint(p.jwk) # t.cnf THEN <<"proof", "ThumbprintMismatch">>
     ELSE Accepted

\* Mutation of DpopVerdict: a token that is bound may come as a bearer token.
BoundAsBearer(r, t, s, n) ==
  IF t.cnf = <<"unusable">> THEN <<"token", "Malformed">>
  ELSE IF Scheme(r) = "Bearer" /\ s.mode = "AllowUnboundBearer" THEN Accepted
  ELSE IF Scheme(r) = "Bearer" \/ t.cnf = <<>> THEN <<"binding", "UnboundToken">>
  ELSE ProofVerdict(r, t, s, n)
\* authenticate_dpop once the token is verified: the use it may be put to by
\* its cnf claim, the scheme and the mode
DpopVerdict(r, t, s, n) ==
  IF t.cnf = <<"unusable">> THEN <<"token", "Malformed">>
  ELSE IF Scheme(r) = "Bearer" /\ t.cnf # <<>> THEN <<"binding", "BoundTokenAsBearer">>
  ELSE IF Scheme(r) = "Bearer" /\ s.mode = "AllowUnboundBearer" THEN Accepted
  ELSE IF t.cnf = <<>> THEN <<"binding", "UnboundToken">>
  ELSE ProofVerdict(r, t, s, n)

TvAuthenticate(r, s, n) ==
  LET schemes == IF s.mode = "off" THEN {"Bearer"} ELSE {"Bearer", "DPoP"}
      t == r.auths[1][2]
  IN IF Scheme(r) \notin schemes THEN <<"token", "MissingToken">>
     ELSE IF TokenError(t, s, n) # "" THEN <<"token", TokenError(t, s, n)>>
     ELSE IF s.mode = "off" THEN Accepted
     ELSE DpopVerdict(r, t, s, n)

\* Mutation of Challenges: the scheme the client used is not looked at.
AlwaysDpop(r, s, v) ==
  LET missing == v = <<"token", "MissingToken">>
      code == IF missing THEN "" ELSE IF v[1] = "proof" THEN "invalid_dpop_proof" ELSE "invalid_token"
      bearers == s.mode = "AllowUnboundBearer"
  IN IF s.mode = "off" THEN <<[scheme |-> "Bearer", error |-> code]>>
     ELSE <<[scheme |-> "DPoP", error |-> code]>>
          \o (IF bearers THEN <<[scheme |-> "Bearer", error |-> ""]>> ELSE <<>>)
\* The WWW-Authenticate headers: the error goes to the scheme it is about.
Challenges(r, s, v) ==
  LET missing == v = <<"token", "MissingToken">>
      code == IF missing THEN "" ELSE IF v[1] = "proof" THEN "invalid_dpop_proof" ELSE "invalid_token"
      bearers == s.mode = "AllowUnboundBearer"
      onBearer == v[1] = "token" /\ ~missing /\ Scheme(r) = "Bearer" /\ bearers
  IN IF s.mode = "off" THEN <<[scheme |-> "Bearer", error |-> code]>>
     ELSE <<[scheme |-> "DPoP", error |-> IF onBearer THEN "" ELSE code]>>
          \o (IF bearers THEN <<[scheme |-> "Bearer", error |-> IF onBearer THEN code ELSE ""]>>
              ELSE <<>>)

TvServe ==
  /\ tvBuilt = "yes" /\ tvVerdict = <<>>
  /\ \E r \in TvRequests, n \in TvTimes :
       /\ tvRequest' = r /\ tvNow' = n
       /\ tvVerdict' = TvAuthenticate(r, tvSettings, n)
       /\ tvAnswer' = IF tvVerdict' = Accepted THEN <<>>
                      ELSE Challenges(r, tvSettings, tvVerdict')
  /\ UNCHANGED <<tvSettings, tvBuilt>>

TvInit ==
  /\ tvSettings = <<>>
  /\ tvBuilt = "no" /\ tvNow = 0
  /\ tvRequest = <<>>
  /\ tvVerdict = <<>> /\ tvAnswer = <<>>

TvNext == TvBuild \/ TvServe

-----------------------------------------------------------------------------
(* Properties. These definitions say what a good token, a good proof and    *)
(* the same target are, without an order of checks.                         *)

\* The moments it may be now, by a clock that is off by up to the skew.
Moments(s, n) == {m \in 0..TvMaxTime : m - n <= s.skew /\ n - m <= s.skew}

Genuine(t) == \E k \in TvKeys : k.kid = t.kid /\ k.alg = t.alg /\ k.name = t.sig

GoodToken(t, s, n) ==
  /\ t.text = "ok" /\ t.header = "ok" /\ t.payload = "ok" /\ ~t.crit /\ t.extra
  /\ Genuine(t) /\ t.kid \notin TvLongKids /\ t.alg \in s.algs
  /\ t.typ \in AccessTypes
  /\ t.missing = {} /\ t.iss = s.issuer
  /\ Len(t.aud) <= TvMaxAud
  /\ \E i \in 1..Len(t.aud), j \in 1..Len(s.audiences) : t.aud[i] = s.audiences[j]
  /\ \E m \in Moments(s, n) : m < t.exp
  /\ \E m \in Moments(s, n) : m >= t.nbf

\* The URI of the proof and the target of the request name one resource: the
\* same scheme, host and port, and the same path up to the case of its triplets.
EffectivePort(o) == IF o.port = "none" THEN TvDefaultPort[TvScheme[o.scheme]] ELSE TvPort[o.port]
PathOf(rest) ==
  LET upTo == {n \in 0..Len(rest) : \A i \in 1..n : rest[i] \notin {"?", "#"}}
      whole == SubSeq(rest, 1, CHOOSE n \in upTo : \A m \in upTo : m <= n)
  IN IF whole = <<>> THEN <<"/">> ELSE whole
Climbs(p) ==
  \E i, j \in 0..Len(p) : /\ j - i \in {2, 3} /\ p[i + 1] = "/"
                          /\ j = Len(p) \/ p[j + 1] = "/"
                          /\ \A k \in (i + 2)..j : p[k] \in {".", "%2e", "%2E"}
SameResource(htu, origin, path) ==
  LET p == PathOf(htu.rest)
  IN /\ TvOriginOk(htu)
     /\ TvScheme[htu.scheme] = TvScheme[origin.scheme]
     /\ TvLowerHost[htu.host] = TvLowerHost[origin.host]
     /\ EffectivePort(htu) = EffectivePort(origin)
     /\ Len(p) = Len(path) /\ path[1] = "/"
     /\ \A i \in 1..Len(p) : /\ p[i] \notin TvBadChars
                             /\ p[i] = path[i] \/ {p[i], path[i]} = {"%2e", "%2E"}
     /\ ToSet(path) \cap {"?", "#"} = {} /\ ~Climbs(path)

GoodProof(p, r, t, s, n) ==
  /\ p.text = "ok" /\ p.header = "ok" /\ p.payload = "ok" /\ ~p.crit /\ p.missing = {}
  /\ p.typ \in ProofTypes /\ p.alg \in s.proofAlgs
  /\ ~p.jwk.private /\ p.jwk.use \in {"", "sig"} /\ p.jwk.alg \in {"", p.alg}
  /\ \/ p.alg = "RS256" /\ p.jwk.kty = "RSA" /\ p.jwk.material \in {"m1", "m2"}
     \/ /\ p.alg = "ES256" /\ p.jwk.kty = "EC" /\ p.jwk.crv = "P-256"
        /\ p.jwk.material \in {"m1", "m2", "0m1"}
  /\ p.sig = t.cnf /\ p.sig = Thumbprint(p.jwk)
  /\ p.jti \notin {"", "toolong"} /\ p.ath = t.id /\ p.htm = r.method
  /\ SameResource(p.htu, s.origin, r.path)
  /\ p.iat + s.past >= tvNow /\ p.iat <= tvNow + s.future

\* The first request of an authenticator is accepted exactly if its one
\* credential is a token that the policy as configured asks for, genuine and
\* valid at some moment it may be now, and, with DPoP on, is either unbound and
\* allowed so, or bound to the key that signed the request's one proof for just
\* this method, resource and token within the window (authenticate_at,
\* verify_inner, authenticate_dpop, verify_proof). No order of checks, no
\* saturating sum and no spelling of a URI makes a difference.
AcceptedExactly ==
  LET r == tvRequest  s == tvSettings  t == r.auths[1][2]  n == tvNow
  IN tvVerdict # <<>> =>
       (tvVerdict = Accepted <=>
          /\ Scheme(r) \in {"Bearer", "DPoP"}
          /\ GoodToken(t, s, n)
          /\ \/ s.mode = "off" /\ Scheme(r) = "Bearer"
             \/ s.mode = "AllowUnboundBearer" /\ Scheme(r) = "Bearer" /\ t.cnf = <<>>
             \/ /\ s.mode # "off" /\ Scheme(r) = "DPoP" /\ Len(r.proofs) = 1
                /\ GoodProof(r.proofs[1], r, t, s, n))

\* What a refused client is told is true of its request: invalid_dpop_proof
\* only if its token is good and only the proof is to be made again, no error
\* at all if it showed no credential, an error in one challenge only and there
\* for a scheme that is offered; Bearer is offered exactly where it can succeed;
\* and nothing is said of the claims of a token, or of a proof, whose signature
\* is not genuine (unauthorized_response, dpop_unauthorized, verify_inner).
RefusalTruthful ==
  LET r == tvRequest  s == tvSettings  t == r.auths[1][2]
      errors == {i \in 1..Len(tvAnswer) : tvAnswer[i].error # ""}
      claims == {"InvalidType", "MissingClaim", "IssuerMismatch", "AudienceMismatch",
                 "Expired", "NotYetValid", "InvalidExtraClaims"}
      proofClaims == {"MissingClaim", "InvalidJti", "MethodMismatch", "UriMismatch",
                      "IssuedAtOutOfWindow", "AccessTokenHashMismatch", "ThumbprintMismatch"}
  IN tvVerdict \notin {<<>>, Accepted} =>
       /\ (\E i \in errors : tvAnswer[i].error = "invalid_dpop_proof") =>
            GoodToken(t, s, tvNow) /\ t.cnf \notin {<<>>, <<"unusable">>} /\ Scheme(r) = "DPoP"
       /\ errors = {} <=> Scheme(r) \notin (IF s.mode = "off" THEN {"Bearer"} ELSE {"Bearer", "DPoP"})
       /\ Cardinality(errors) <= 1
       /\ (\E i \in 1..Len(tvAnswer) : tvAnswer[i].scheme = "Bearer") <=> s.mode # "Required"
       /\ (\E i \in errors : tvAnswer[i].scheme = "Bearer") => ~GoodToken(t, s, tvNow) \/ t.cnf = <<"unusable">>
       /\ (\E i \in errors : tvAnswer[i].scheme = "DPoP" /\ ~GoodToken(t, s, tvNow)) =>
            Scheme(r) = "DPoP" \/ s.mode = "Required"
       /\ tvVerdict[1] = "token" /\ tvVerdict[2] \in claims => Genuine(t)
       /\ tvVerdict[1] = "proof" /\ tvVerdict[2] \in proofClaims =>
            r.proofs[1].sig = Thumbprint(r.proofs[1].jwk)

\* The verdict is the one the policy calls for, and so is what a refused client
\* is told of it (authenticate_at, unauthorized_response).
VerdictTruthful == AcceptedExactly /\ RefusalTruthful
=============================================================================
