--------------------------- MODULE ResponsePipeline ---------------------------
(***************************************************************************)
(* From a handler's answer to the bytes of the response: who answers       *)
(* (core/src/server.rs, core/src/plugin.rs), the CORS headers              *)
(* (plugin-cors), gzip of buffered and of streamed bodies                  *)
(* (plugin-compression) and the framing (http/src/response.rs,             *)
(* http/src/chunked.rs). One resource is requested again and again by      *)
(* clients that differ, through a shared cache that goes by Vary; the      *)
(* cache and the clients are not part of the program.                      *)
(* A body is a sequence of items, and GzipEnd what the compressor writes   *)
(* last; gz tells whether they are compressed.                             *)
(***************************************************************************)
EXTENDS Integers, Sequences, FiniteSets

CONSTANTS
  Requests,          \* [version, origin, preflight, asks, accept], see RequestOk
  Resources,         \* what a resource answers, see ResourceOk
  CorsOn, AnyOrigin, \* Server::cors, CorsOrigins::Any
  CorsList,    \* CorsOrigins::List
  Credentials,       \* CorsConfig::credentials
  CompressionOn,     \* Server::compression
  CompressStreaming, \* CompressionConfig::compress_streaming
  MinSize,           \* CompressionConfig::min_size
  MaxRequests,       \* bound: requests
  MaxSends           \* bound: chunks of one streamed body

GzipEnd == 99
\* origin: the Origin header or "none", never "*", which no client is at; asks:
\* whether the method a preflight asks for is an effective one; accept: the
\* members of Accept-Encoding, [coding, q, valid], q in tenths.
RequestOk(r) ==
  /\ r.version \in {"1.0", "1.1"} /\ r.preflight \in BOOLEAN /\ r.asks \in BOOLEAN
  /\ r.origin # "*"
  /\ \A i \in 1..Len(r.accept) : r.accept[i].q \in 0..10
\* who: the parts of the server that answer for it; compressible: whether
\* matches_content_type holds; encoding, vary: headers it sets itself, the
\* encoding another than gzip; gzSize: the size of its body compressed. The
\* application's Interceptor::map_response has passed over the response, or over
\* the head of a streamed one, before any part of the pipeline sees it: these
\* are the headers it left.
ResourceOk(x) ==
  /\ x.who \subseteq {"interceptor", "plugin", "streaming", "handler"}
  /\ x.status \in 100..599 /\ x.compressible \in BOOLEAN
  /\ x.encoding # "gzip" /\ x.vary \subseteq {"Origin", "Accept-Encoding", "*"}
  /\ x.body \in Seq(Nat)
  /\ x.gzSize \in Nat

ASSUME PipelineAssumption ==
  /\ \A r \in Requests : RequestOk(r)
  /\ \A x \in Resources : ResourceOk(x)
  /\ {CorsOn, AnyOrigin, Credentials, CompressionOn, CompressStreaming} \subseteq BOOLEAN
  /\ ~(AnyOrigin /\ Credentials)
  /\ MinSize \in Nat /\ MaxRequests \in Nat /\ MaxSends \in Nat

VARIABLES
  resource, \* the resource that is requested
  progress, \* where the request stands
  req,      \* the request
  resp,     \* the response: status, encoding, vary, acao, creds, body,
            \* size, gz
  framing,  \* how its end is told: "length", "chunked", "close" or "none"
  wire,     \* the body as written, <<"data", items, gz>> and <<"end">>
  gzip,     \* the StreamingBodyEncoder compresses
  keep,     \* keep_alive
  sent,     \* history: items the handler sent
  cache,    \* the stored response and the request it answered
  from,     \* "origin" or "cache": where the client's response came from
  count     \* requests made

pipelineVars ==
  <<resource, progress, req, resp, framing, wire, gzip, keep, sent, cache,
    from, count>>

Empty(status) ==
  [status |-> status, encoding |-> "none", vary |-> {}, acao |-> "none",
   creds |-> FALSE, body |-> <<>>, size |-> 0, gz |-> FALSE]
Nothing == [req |-> [version |-> "1.1", origin |-> "none", preflight |-> FALSE,
                     asks |-> FALSE, accept |-> <<>>], resp |-> Empty(0)]

-----------------------------------------------------------------------------
(* CORS.                                                                   *)

OriginAllowed(o) == AnyOrigin \/ o \in CorsList

\* with_vary.
WithVary(p, name) ==
  IF "*" \in p.vary THEN p ELSE [p EXCEPT !.vary = @ \cup {name}]

Granted(p, o) ==
  LET q == IF AnyOrigin THEN [p EXCEPT !.acao = "*"]
           ELSE WithVary([p EXCEPT !.acao = o], "Origin")
  IN [q EXCEPT !.creds = Credentials]

\* Mutation of ApplyCors: the origin is echoed and Vary forgotten.
ApplyCorsNoVary(r, p) ==
  IF CorsOn /\ ~r.preflight /\ r.origin # "none" /\ OriginAllowed(r.origin)
  THEN [p EXCEPT !.acao = IF AnyOrigin THEN "*" ELSE r.origin,
                 !.creds = Credentials]
  ELSE p

\* apply_cors and apply_cors_headers.
ApplyCors(r, p) ==
  IF CorsOn /\ ~r.preflight /\ r.origin # "none" /\ OriginAllowed(r.origin)
  THEN Granted(p, r.origin) ELSE p

\* Mutation of Preflight: every origin is let in.
PreflightAnyOrigin(r) == Granted(Empty(204), r.origin)

\* preflight_response, as the fallback for OPTIONS.
Preflight(r) ==
  IF OriginAllowed(r.origin) /\ r.asks THEN Granted(Empty(204), r.origin)
  ELSE Empty(403)

-----------------------------------------------------------------------------
(* Compression.                                                            *)

\* accepts_gzip: the last member for gzip, or else the last for *.
AcceptsGzip(r) ==
  LET valid == SelectSeq(r.accept, LAMBDA m : m.valid)
      gz == SelectSeq(valid, LAMBDA m : m.coding \in {"gzip", "x-gzip"})
      star == SelectSeq(valid, LAMBDA m : m.coding = "*")
  IN IF gz # <<>> THEN gz[Len(gz)].q > 0
     ELSE star # <<>> /\ star[Len(star)].q > 0

\* Mutation of Plan: Vary comes only with a response that is compressed.
PlanVaryLate(r, x, p) ==
  LET fit == /\ p.status # 204 /\ p.status \in 200..299
             /\ x.compressible /\ p.size >= MinSize
      go == fit /\ p.encoding = "none" /\ AcceptsGzip(r)
  IN [go |-> go, resp |-> IF go THEN WithVary(p, "Accept-Encoding") ELSE p]

\* plan_compression.
Plan(r, x, p) ==
  LET fit == /\ p.status # 204 /\ p.status \in 200..299
             /\ x.compressible /\ p.size >= MinSize
      q == WithVary(p, "Accept-Encoding")
  IN [go |-> fit /\ q.encoding = "none" /\ AcceptsGzip(r),
      resp |-> IF fit THEN q ELSE p]

\* Mutation of IsBodyless: 204 is left out.
IsBodylessNot204(status) == status \in 100..199 \cup {304}

\* is_bodyless_status.
IsBodyless(status) == status \in 100..199 \cup {204, 304}

\* begin_streaming_compression.
BeginStreaming(r, x, p) ==
  LET fit == /\ CompressionOn /\ CompressStreaming
             /\ p.status \in 200..299 /\ ~IsBodyless(p.status)
             /\ x.compressible
      q == WithVary(p, "Accept-Encoding")
      go == fit /\ q.encoding = "none" /\ AcceptsGzip(r)
  IN [go |-> go,
      resp |-> IF go THEN [q EXCEPT !.encoding = "gzip"]
               ELSE IF fit THEN q ELSE p]

\* Mutation of Attach: the header says gzip although the body is as it was.
AttachAnyway(p, size) ==
  IF size = 0 \/ size >= p.size THEN [p EXCEPT !.encoding = "gzip"]
  ELSE [p EXCEPT !.encoding = "gzip", !.size = size, !.gz = TRUE]

\* attach_compressed, with a compressed body of this size.
Attach(p, size) ==
  IF size = 0 \/ size >= p.size THEN p
  ELSE [p EXCEPT !.encoding = "gzip", !.size = size, !.gz = TRUE]

-----------------------------------------------------------------------------
(* The cache: a stored response answers a request that agrees with the one *)
(* it was made for in every header its Vary names.                         *)

Reusable(c, r) ==
  /\ c # Nothing /\ ~r.preflight
  /\ "*" \notin c.resp.vary
  /\ "Origin" \in c.resp.vary => c.req.origin = r.origin
  /\ "Accept-Encoding" \in c.resp.vary => c.req.accept = r.accept

PipelineInit ==
  /\ resource \in Resources
  /\ progress = "idle"
  /\ req = Nothing.req /\ resp = Nothing.resp
  /\ framing = "none" /\ wire = <<>> /\ gzip = FALSE /\ keep = FALSE
  /\ sent = <<>> /\ cache = Nothing /\ from = "origin" /\ count = 0

Arrive ==
  /\ progress = "idle" /\ count < MaxRequests
  /\ \E r \in Requests :
       /\ req' = r
       /\ \/ /\ Reusable(cache, r)
             /\ from' = "cache" /\ resp' = cache.resp /\ progress' = "delivered"
          \/ /\ from' = "origin" /\ resp' = Nothing.resp /\ progress' = "answer"
  /\ framing' = "none" /\ wire' = <<>> /\ gzip' = FALSE /\ keep' = FALSE
  /\ sent' = <<>> /\ count' = count + 1
  /\ UNCHANGED <<resource, cache>>

\* The client has its response; the cache keeps what the origin answered.
Take ==
  /\ progress \in {"delivered", "cut"}
  /\ progress' = "idle"
  /\ cache' = IF progress = "delivered" /\ from = "origin" /\ ~req.preflight
              THEN [req |-> req, resp |-> resp] ELSE cache
  /\ UNCHANGED <<resource, req, resp, framing, wire, gzip, keep, sent, from, count>>

-----------------------------------------------------------------------------
(* The answer.                                                             *)

ResourceResponse ==
  [Empty(resource.status) EXCEPT
     !.encoding = resource.encoding, !.vary = resource.vary,
     !.body = resource.body, !.size = Len(resource.body)]

\* The interceptors, then try_intercept over the plugins.
Intercepted == resource.who \cap {"interceptor", "plugin"} # {}

\* Who intercepts, then the streaming handler, then the handler.
Answer ==
  /\ progress = "answer"
  /\ \/ /\ Intercepted
        /\ resp' = ResourceResponse /\ progress' = "finalize"
     \/ /\ ~Intercepted
        /\ "streaming" \in resource.who /\ ~req.preflight
        /\ resp' = Empty(resource.status) /\ progress' = "head"
     \/ /\ ~Intercepted
        /\ "streaming" \notin resource.who \/ req.preflight
        /\ resp' = IF req.preflight THEN Preflight(req)
                   ELSE IF "handler" \in resource.who THEN ResourceResponse
                   ELSE Empty(404)
        /\ progress' = "finalize"
  /\ UNCHANGED <<resource, req, framing, wire, gzip, keep, sent, cache, from, count>>

\* finalize_response: CORS, then the decision to compress.
Finalize ==
  LET p == ApplyCors(req, resp)
      plan == Plan(req, resource, p)
  IN /\ progress = "finalize"
     /\ resp' = IF CompressionOn THEN plan.resp ELSE p
     /\ progress' = IF CompressionOn /\ plan.go THEN "compress" ELSE "write"
     /\ UNCHANGED <<resource, req, framing, wire, gzip, keep, sent, cache, from,
                    count>>

\* compress_body on this thread or on a blocking one, which may fail.
Compress ==
  /\ progress = "compress"
  /\ \E size \in {0, resource.gzSize} : resp' = Attach(resp, size)
  /\ progress' = "write"
  /\ UNCHANGED <<resource, req, framing, wire, gzip, keep, sent, cache, from, count>>

\* serialize_into and the write, keep_alive looked at again.
Write ==
  /\ progress = "write"
  /\ keep' \in BOOLEAN
  /\ framing' = "length"
  /\ wire' = IF resp.size = 0 THEN <<>> ELSE <<<<"data", resp.body, resp.gz>>>>
  /\ sent' = resp.body
  /\ progress' = "delivered"
  /\ UNCHANGED <<resource, req, resp, gzip, cache, from, count>>

-----------------------------------------------------------------------------
(* write_streaming_response.                                               *)

\* Mutation of StreamHead: HTTP/1.0 gets the encoder as well.
StreamHeadOldGzip ==
  LET p == ApplyCors(req, resp)
      begin == BeginStreaming(req, resource, p)
      old == req.version = "1.0"
      bodyless == IsBodyless(p.status)
  IN /\ progress = "head"
     /\ keep' \in IF old THEN {FALSE} ELSE BOOLEAN
     /\ resp' = begin.resp
     /\ gzip' = begin.go
     /\ framing' = IF old THEN "close" ELSE IF bodyless THEN "none" ELSE "chunked"
     /\ progress' = IF bodyless THEN "delivered" ELSE "body"
     /\ UNCHANGED <<resource, req, wire, sent, cache, from, count>>

\* The head, as the interceptors left it: CORS, and for HTTP/1.1 the keep_alive, the encoder and the
\* framing; a status without a body ends the response.
StreamHead ==
  LET p == ApplyCors(req, resp)
      begin == BeginStreaming(req, resource, p)
      old == req.version = "1.0"
      bodyless == IsBodyless(p.status)
  IN /\ progress = "head"
     /\ keep' \in IF old THEN {FALSE} ELSE BOOLEAN
     /\ resp' = IF old THEN p ELSE begin.resp
     /\ gzip' = (~old /\ begin.go)
     /\ framing' = IF old THEN "close" ELSE IF bodyless THEN "none" ELSE "chunked"
     /\ progress' = IF bodyless THEN "delivered" ELSE "body"
     /\ UNCHANGED <<resource, req, wire, sent, cache, from, count>>

\* Mutation of Framed: a chunk without data is written like any other, as a
\* chunk of size zero.
FramedAlways(items) ==
  IF framing = "chunked" /\ items = <<>> THEN <<<<"end">>>>
  ELSE <<<<"data", items, gzip>>>>

\* What is written for a chunk: encode_chunk leaves out one without data, and
\* so does the loop for HTTP/1.0.
Framed(items) == IF items = <<>> THEN <<>> ELSE <<<<"data", items, gzip>>>>

\* StreamingBodyEncoder::finish.
Residual == IF gzip THEN <<GzipEnd>> ELSE <<>>

\* RecvOutcome::Chunk: the chunk is compressed, framed and written.
StreamChunk ==
  /\ progress = "body" /\ Len(sent) < MaxSends
  /\ \E items \in {<<>>, <<Len(sent) + 1>>} :
       /\ sent' = sent \o items
       /\ wire' = wire \o Framed(items)
  /\ UNCHANGED <<resource, progress, req, resp, framing, gzip, keep, cache, from, count>>

\* RecvOutcome::End: what the compressor still holds, then the terminator.
StreamEnd ==
  /\ progress = "body"
  /\ wire' = IF framing = "close" THEN wire
             ELSE wire \o Framed(Residual) \o <<<<"end">>>>
  /\ progress' = "delivered"
  /\ UNCHANGED <<resource, req, resp, framing, gzip, keep, sent, cache, from, count>>

\* The connection is closed in the middle: a write fails or takes too long,
\* the stream is aborted or stays silent, the compressor fails.
Cut ==
  /\ progress \in {"write", "head", "body"}
  /\ progress' = "cut"
  /\ keep' = FALSE
  /\ UNCHANGED <<resource, req, resp, framing, wire, gzip, sent, cache, from, count>>

PipelineNext ==
  \/ Arrive \/ Take
  \/ Answer \/ Finalize \/ Compress \/ Write
  \/ StreamHead \/ StreamChunk \/ StreamEnd
  \/ Cut

PipelineSpec == PipelineInit /\ [][PipelineNext]_pipelineVars

-----------------------------------------------------------------------------
(* Properties.                                                             *)

\* The variables have their types; only a body that is being written is open.
PipelineTypeOK ==
  /\ progress \in {"idle", "answer", "finalize", "compress", "write", "head", "body",
             "delivered", "cut"}
  /\ req \in Requests \cup {Nothing.req}
  /\ resp.status \in Nat /\ resp.gz \in BOOLEAN
  /\ resp.vary \subseteq {"Origin", "Accept-Encoding", "*"}
  /\ framing \in {"length", "chunked", "close", "none"}
  /\ progress = "body" => framing \in {"chunked", "close"}
  /\ gzip => framing = "chunked"

\* A response that went through a cache fits the client that gets it: it is
\* compressed only for one that accepts gzip, and grants access to no other
\* origin than the client's. plan_compression, begin_streaming_compression and
\* apply_cors_headers name what they looked at in Vary.
ReuseFits ==
  progress = "delivered" =>
    /\ resp.encoding = "gzip" => AcceptsGzip(req)
    /\ resp.acao \in {"none", "*", req.origin}

\* If a client with another Accept-Encoding would be answered differently by
\* plan_compression, the response says so in Vary, whether or not it was
\* compressed itself.
VaryDeclared ==
  progress = "delivered" /\ from = "origin" /\ framing = "length" /\ CompressionOn =>
    \A r \in Requests :
      LET p == [resp EXCEPT !.encoding = resource.encoding,
                            !.size = Len(resource.body), !.gz = FALSE]
      IN /\ resp.body = resource.body
         /\ Plan(r, resource, p).go # Plan(req, resource, p).go
         => resp.vary \cap {"Accept-Encoding", "*"} # {}

\* Responses may be cached and shared: they declare what they depend on, and
\* fit whoever gets them.
CacheSafe == ReuseFits /\ VaryDeclared

\* Content-Encoding says gzip exactly when every byte of the body is
\* compressed, also when compression fails or does not make it smaller.
EncodingHonest ==
  progress \in {"delivered", "body", "cut"} /\ from = "origin" =>
    \A i \in 1..Len(wire) :
      wire[i][1] = "data" => (wire[i][3] <=> resp.encoding = "gzip")

\* A streamed body that the client sees complete is the whole of what the
\* handler sent, a chunk for each item: no chunk ends it early, a stream that
\* is cut has no end, and a compressed one carries what the compressor wrote
\* last.
StreamWhole ==
  LET whole == IF gzip THEN Append(sent, GzipEnd) ELSE sent
  IN framing = "chunked" /\ (\E i \in 1..Len(wire) : wire[i] = <<"end">>) =>
       /\ progress # "body" /\ progress # "cut"
       /\ Len(wire) = Len(whole) + 1
       /\ \A i \in 1..Len(whole) : wire[i][1] = "data" /\ wire[i][2] = <<whole[i]>>

\* On a connection that stays open a client finds the next response where
\* this one ends by the rules of HTTP: a response without a body has written
\* none, one with chunks has its terminator, and nothing else is kept open.
\* (A handler that gives a buffered response of status 1xx, 204 or 304 a body
\* has it written, as the comment on Response::serialize says.)
ClientInSync ==
  progress = "delivered" /\ from = "origin" /\ keep =>
    /\ framing # "close"
    /\ framing = "chunked" => wire # <<>> /\ wire[Len(wire)] = <<"end">>
    /\ resp.status \in 100..199 \cup {204, 304} /\ framing # "length"
         => wire = <<>>

\* The body is what the head says of it: its coding, its end and its extent.
BodyAsDeclared == PipelineTypeOK /\ EncodingHonest /\ StreamWhole /\ ClientInSync

\* No response grants access to an origin that is not allowed, and none that
\* carries credentials grants it to every origin.
CorsSound ==
  progress \in {"write", "body", "delivered"} /\ resp.acao # "none" =>
    /\ OriginAllowed(req.origin)
    /\ resp.creds => resp.acao # "*"
=============================================================================
