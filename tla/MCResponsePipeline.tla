-------------------------- MODULE MCResponsePipeline --------------------------
(***************************************************************************)
(* What becomes of a response, each by itself: the way through CORS and    *)
(* compression to the client and its cache, the head that is built and     *)
(* serialised, and the log that hears of it when it is written.            *)
(***************************************************************************)
EXTENDS ResponsePipeline, ResponseHead, Sampler

Coding(c, q) == [coding |-> c, q |-> q, valid |-> TRUE]
Accepts ==
  {<<>>, <<Coding("gzip", 10)>>, <<Coding("gzip", 0), Coding("*", 10)>>,
   <<Coding("*", 5)>>, <<[coding |-> "gzip", q |-> 0, valid |-> FALSE]>>,
   <<Coding("x-gzip", 0), Coding("gzip", 1)>>}

MCRequests ==
  {r \in [version : {"1.0", "1.1"}, origin : {"none", "a", "b", "x"},
          preflight : BOOLEAN, asks : BOOLEAN, accept : Accepts] :
     /\ r.asks => r.preflight
     /\ r.preflight => r.origin # "none" /\ r.accept = <<>> /\ r.version = "1.1"}

Resource(who, status, compressible, encoding, vary, n) ==
  [who |-> who, status |-> status, compressible |-> compressible,
   encoding |-> encoding, vary |-> vary, body |-> [i \in 1..n |-> i],
   gzSize |-> 2]

MCResources ==
  {Resource({"handler"}, 200, TRUE, "none", {}, n) : n \in 0..3}
  \cup {Resource({"handler"}, 200, FALSE, "none", {}, 3),
        Resource({"handler"}, 200, TRUE, "br", {}, 3),
        Resource({"handler"}, 200, TRUE, "none", {"*"}, 3),
        Resource({"plugin", "handler"}, 200, TRUE, "none", {"Origin"}, 3),
        Resource({"handler"}, 404, TRUE, "none", {}, 3),
        Resource({"handler"}, 204, TRUE, "none", {}, 0),
        Resource({}, 200, TRUE, "none", {}, 0)}
  \cup {Resource({"streaming", "handler"}, st, c, "none", {}, 0) :
           st \in {200, 204, 304, 404}, c \in BOOLEAN}

-----------------------------------------------------------------------------
(* Heads: names in either case, reserved ones and one that is no token;    *)
(* values that are lists; directives whose arguments look like directives; *)
(* and every Location of up to three of the characters that matter.        *)

MCRhNames == {"X", "vary", "content-type", "ALLOW", "Content-Length", "CONNECTION",
              "bad name"}
MCRhLower ==
  [n \in {"Vary", "vary"} |-> "vary"] @@ [n \in {"Content-Type", "content-type"} |-> "content-type"]
  @@ [n \in {"Allow", "ALLOW"} |-> "allow"] @@ [n \in {"Connection", "CONNECTION"} |-> "connection"]
  @@ ("Cache-Control" :> "cache-control") @@ ("Location" :> "location")
  @@ ("Set-Cookie" :> "set-cookie") @@ ("Content-Length" :> "content-length")
  @@ ("Transfer-Encoding" :> "transfer-encoding") @@ ("X" :> "x")
  @@ [n \in {"o", "O"} |-> "o"] @@ ("e" :> "e")
MCRhValues == {<<"o", ",", " ", "e">>, <<"*", ",">>, <<"ctl">>}
Directive(name, arg) == [name |-> name, arg |-> arg]
Quoted(t) == <<"quote">> \o t \o <<"quote">>
MCRhDirectives ==
  {<<Directive("private", <<>>)>>,
   <<Directive("private", <<>>), Directive("no-store", <<>>)>>,
   <<Directive("x", Quoted(<<"a", ",", "no-store", ",", "b">>))>>,
   <<Directive("x", Quoted(<<"a", "\\", "quote", ",", "no-store", ",">>)), Directive("y", <<"1">>)>>,
   <<Directive("x", Quoted(<<",">>)), Directive("no-store", <<>>)>>,
   <<Directive("x", Quoted(<<"\\", "\\">>)), Directive("no-store", <<"1">>)>>}
MCRhLocations == UNION {[1..n -> {"/", "\\", "ctl", "a"}] : n \in 0..3}
MCRhMethods == {<<>>, <<"GET", "GET">>, <<"PUT", "GET">>, <<"GET", "bad method">>}

-----------------------------------------------------------------------------
\* The log: an excluded path and another, with and without a query.
MCTargets == [path : {"/a", "/health"}, query : {"", "q"}]

-----------------------------------------------------------------------------
VARIABLE part  \* which of the three runs

MCInit ==
  /\ part \in {"pipeline", "head", "log"}
  /\ PipelineInit /\ HeadInit /\ SamplerInit
  /\ part # "pipeline" => resource = Resource({}, 200, TRUE, "none", {}, 0)

MCNext ==
  /\ UNCHANGED part
  /\ \/ part = "pipeline" /\ PipelineNext /\ UNCHANGED <<rhVars, smVars>>
     \/ part = "head" /\ HeadNext /\ UNCHANGED <<pipelineVars, smVars>>
     \/ part = "log" /\ SamplerNext /\ UNCHANGED <<pipelineVars, rhVars>>

MCSpec == MCInit /\ [][MCNext]_<<pipelineVars, rhVars, smVars, part>>
=============================================================================
