------------------------------ MODULE MCTokens ------------------------------
(***************************************************************************)
(* What the verdict on a token rests on, each by itself: the threads that  *)
(* authenticate with the stores they share, the key set out of a document, *)
(* and the checks of a token and its proof.                                *)
(***************************************************************************)
EXTENDS JwtAuth, MCKeySet, TokenVerify, TLC

CONSTANTS t1, t2

\* Two threads that authenticate.
MCThreads == {t1, t2}
Symmetry == Permutations(MCThreads)

-----------------------------------------------------------------------------
(* Deployments, each with the requests that come to it.                    *)

Issued(id, key, sound, exp, nbf, jkt) ==
  [id |-> id, key |-> key, sound |-> sound, exp |-> exp, nbf |-> nbf,
   jkt |-> jkt]
Bearer(tok) == [tok |-> tok, scheme |-> "Bearer", proof |-> NoProof]
Dpop(tok, p) == [tok |-> tok, scheme |-> "DPoP", proof |-> p]
Shown(thumb, jti, iat, sound) ==
  [thumb |-> thumb, jti |-> jti, iat |-> iat, sound |-> sound]

\* The token cache under key rotation, without DPoP: a token that is not valid
\* before time 1, one that expires then, one without limits, and a key that
\* comes and goes.
Rotating ==
  [mode |-> "off", leeway |-> 1, past |-> 1, future |-> 0,
   inputs |-> {Bearer(Issued(1, "a", TRUE, 9, 2, "none")),
               Bearer(Issued(2, "b", TRUE, 1, 0, "none")),
               Bearer(Issued(3, "a", TRUE, 9, 0, "none"))},
   keySets |-> {{"a"}, {"a", "b"}}, times |-> {0, 2}, maxSets |-> 2]

\* DPoP with one key set; proofs of one key with two identifiers and two times,
\* a proof by another key, and tokens bound and not.
BoundTok == Issued(1, "a", TRUE, 99, 0, "k")
Proving(mode) ==
  [mode |-> mode, leeway |-> 0, past |-> 2, future |-> 1,
   inputs |->
     {Dpop(BoundTok, Shown("k", 1, 1, TRUE)), Dpop(BoundTok, Shown("k", 1, 3, TRUE)),
      Dpop(BoundTok, Shown("k", 2, 2, TRUE)), Dpop(BoundTok, Shown("x", 1, 2, TRUE)),
      Bearer(BoundTok), Bearer(Issued(2, "a", TRUE, 99, 0, "none"))},
   keySets |-> {{"a"}}, times |-> {1, 3, 4}, maxSets |-> 1]

\* DPoP required, with every kind of token, and a request without a proof.
DpopRequired ==
  [Proving("Required") EXCEPT
     !.inputs = {Bearer(Issued(2, "a", TRUE, 99, 0, "none")),
                 Dpop(Issued(2, "a", TRUE, 99, 0, "none"),
                      Shown("k", 1, 1, TRUE)),
                 Dpop(BoundTok, Shown("k", 1, 1, TRUE)), Dpop(BoundTok, NoProof),
                 Dpop([BoundTok EXCEPT !.sound = FALSE], Shown("k", 2, 2, TRUE)),
                 Dpop(Issued(3, "a", TRUE, 99, 0, "bad"), Shown("k", 1, 1, TRUE))},
     !.times = {1, 3}]

MCDeployments ==
  [rotating |-> Rotating, proving |-> Proving("AllowUnboundBearer"),
   required |-> DpopRequired]

-----------------------------------------------------------------------------
(* Settings and requests: a good one of each and all that differ from it   *)
(* in one member, or two, by a value that some check looks for.            *)

\* base with the values of up to two of its fields replaced from alternatives.
Varied(base, other) ==
  {base} \cup UNION {{[base EXCEPT ![f] = v] : v \in other[f]} : f \in DOMAIN other}
Varied2(base, other) ==
  UNION {UNION {{[[base EXCEPT ![f] = v] EXCEPT ![g] = w] : v \in other[f], w \in other[g]}
                 : g \in DOMAIN other} : f \in DOMAIN other}

Access == [id |-> "t", text |-> "ok", header |-> "ok", crit |-> FALSE, alg |-> "ES256",
  kid |-> "k1", sig |-> "e1", typ |-> "at+jwt", payload |-> "ok", missing |-> {},
  iss |-> "issuer", aud |-> <<"other", "api">>, exp |-> 4, nbf |-> 0, extra |-> TRUE,
  cnf |-> <<"EC", "m1">>]
OtherAccess == [text |-> {"empty", "toolong", "parts"}, header |-> {"bad"}, crit |-> {TRUE},
  alg |-> {"RS256", "none"}, kid |-> {"", "k2", "k3", "toolong"}, sig |-> {"e2", "r1", "undecodable"},
  typ |-> {"JWT", "AT+JWT"}, payload |-> {"bad"}, missing |-> {{"iss"}, {"aud"}, {"exp"}},
  iss |-> {"toolong"}, aud |-> {<<>>, <<"other">>, <<"api2">>, <<"api", "x", "y">>},
  exp |-> {0, 2, 9}, nbf |-> {3, 4, 5}, extra |-> {FALSE},
  cnf |-> {<<>>, <<"unusable">>, <<"EC", "m2">>}]

ProofEc == [private |-> FALSE, kty |-> "EC", alg |-> "", use |-> "", crv |-> "P-256", material |-> "m1"]
OtherProofEc == [private |-> {TRUE}, kty |-> {"RSA", "OKP", "nojwk"}, alg |-> {"ES256", "RS256"},
  use |-> {"sig", "enc"}, crv |-> {"", "P-384"}, material |-> {"m2", "0m1", "", "bad"}]
Uri == [scheme |-> "https", user |-> FALSE, host |-> "h", port |-> "none", rest |-> <<"/", "a">>]
OtherUri == [scheme |-> {"HTTPS", "http", "ws"}, user |-> {TRUE}, host |-> {"H", "g", "h_"},
  port |-> {"443", "0443", "80", "0", "x", "70000"},
  rest |-> {<<>>, <<"/">>, <<"/", "a", "?", "b">>, <<"/", "a", "#", "?">>, <<"/", "a", "/">>, <<"/", "%2e", "a">>,
            <<"/", "%2E", "a">>, <<"/", "a", "/", ".">>, <<"/", ".", "%2e">>, <<"/", " ">>,
            <<"/", "%2e", "/", "a">>, <<"?", "a">>}]
Proof == [text |-> "ok", header |-> "ok", crit |-> FALSE, typ |-> "dpop+jwt", alg |-> "ES256",
  jwk |-> ProofEc, sig |-> <<"EC", "m1">>, payload |-> "ok", missing |-> {}, jti |-> "j",
  htm |-> "GET", htu |-> Uri, iat |-> 3, ath |-> "t"]
OtherProof == [text |-> {"empty", "toolong", "parts"}, header |-> {"bad"}, crit |-> {TRUE},
  typ |-> {"JWT", "DPoP+JWT"}, alg |-> {"RS256", "none"}, jwk |-> Varied(ProofEc, OtherProofEc),
  sig |-> {<<"undecodable">>, <<"EC", "m2">>, <<"EC", "0m1">>, <<"RSA", "m1">>}, payload |-> {"bad"},
  missing |-> {{"jti"}, {"htm"}, {"htu"}, {"iat"}, {"ath"}}, jti |-> {"", "toolong"},
  htm |-> {"POST", "get"}, htu |-> Varied(Uri, OtherUri), iat |-> {0, 1, 5, 9}, ath |-> {"u"}]
RsaProof == [Proof EXCEPT !.alg = "RS256", !.jwk = [ProofEc EXCEPT !.kty = "RSA", !.crv = ""], !.sig = <<"RSA", "m1">>]
RsaProofZero == [RsaProof EXCEPT !.jwk = [@ EXCEPT !.material = "0m1"], !.sig = <<"RSA", "0m1">>]

Req(auths, proofs) == [auths |-> auths, proofs |-> proofs, method |-> "GET", path |-> <<"/", "a">>]
On(r, path) == [r EXCEPT !.path = path]
ByProof(p) == Req(<<<<"DPoP", Access>>>>, <<p>>)
Paths == {<<"/">>, <<"*">>, <<"/", "%2e", "a">>, <<"/", ".", "%2e">>, <<"/", "%2e", "/", "a">>, <<"/", "a", "#">>}
MCTvRequests ==
  {Req(<<<<s, t>>>>, <<Proof>>) : s \in {"Bearer", "DPoP"}, t \in Varied2(Access, OtherAccess)}
  \cup {Req(<<<<"Bearer", [t EXCEPT !.cnf = <<>>]>>>>, <<>>) : t \in Varied(Access, OtherAccess)}
  \cup {Req(<<<<s, t>>>>, <<p>>) : s \in {"Basic", "bearer"},
          t \in {Access, [Access EXCEPT !.cnf = <<>>]}, p \in {Proof, [Proof EXCEPT !.jti = ""]}}
  \cup {ByProof(p) : p \in Varied2(Proof, OtherProof)}
  \cup {Req(<<<<"DPoP", [t EXCEPT !.cnf = <<"RSA", "m1">>]>>>>, <<p>>) :
          t \in {Access, [Access EXCEPT !.sig = "e2"]}, p \in {RsaProof, RsaProofZero}}
  \cup {On(ByProof([Proof EXCEPT !.htu = u]), p) : u \in Varied(Uri, OtherUri), p \in Paths}
  \cup {Req(<<>>, <<Proof>>), Req(<<<<"DPoP", Access>>, <<"DPoP", Access>>>>, <<Proof>>),
        Req(<<<<"DPoP", Access>>>>, <<>>), Req(<<<<"DPoP", Access>>>>, <<Proof, Proof>>)}

Settings == [issuer |-> "issuer", audiences |-> <<"api", "api", "api2">>, algs |-> {"RS256", "ES256"},
  skew |-> 1, mode |-> "Required", past |-> 2, future |-> 1, origin |-> [Uri EXCEPT !.rest = <<>>],
  proofAlgs |-> {"RS256", "ES256"}]
OtherSettings == [issuer |-> {"", "toolong"}, audiences |-> {<<>>, <<"api", "">>, <<"a", "b", "c">>},
  algs |-> {{}, {"RS256"}}, skew |-> {0, 3}, mode |-> {"off", "AllowUnboundBearer"}, past |-> {0, 3},
  future |-> {2}, origin |-> {[Uri EXCEPT !.rest = <<"/", "a">>], [Uri EXCEPT !.port = "443"],
     [Uri EXCEPT !.host = "h_"], [Uri EXCEPT !.scheme = "http", !.rest = <<"/">>]},
  proofAlgs |-> {{"ES256"}}]
MCTvSettings == Varied(Settings, OtherSettings)
Published(kid, alg, n) == [kid |-> kid, alg |-> alg, name |-> n]
MCTvKeys == {Published("k1", "ES256", "e1"), Published("k1", "ES256", "e3"), Published("k1", "RS256", "r1"),
             Published("k2", "RS256", "r2"), Published("toolong", "ES256", "e1")}
MCTvLowerHost == [h |-> "h", H |-> "h", g |-> "g"]
MCTvPort == [p \in {"443", "0443", "80", "0", "70000"} |->
              CASE p = "80" -> 80 [] p = "0" -> 0 [] p = "70000" -> 70000 [] OTHER -> 443]

-----------------------------------------------------------------------------
VARIABLE part  \* which of the three runs

MCInit ==
  /\ part \in {"auth", "keys", "verify"}
  /\ part # "auth" => name = "required"
  /\ part # "keys" => doc = <<>>
  /\ Init /\ KeySetInit /\ TvInit

MCNext ==
  /\ UNCHANGED part
  /\ \/ part = "auth" /\ Next /\ UNCHANGED <<keySetVars, tvVars>>
     \/ part = "keys" /\ KeySetNext /\ UNCHANGED <<vars, tvVars>>
     \/ part = "verify" /\ TvNext /\ UNCHANGED <<vars, keySetVars>>

MCSpec == MCInit /\ [][MCNext]_<<vars, keySetVars, tvVars, part>>
=============================================================================
