# A TLA+ model of fandhe-backend

fandhe-backend is an HTTP/1.1 server framework in Rust on tokio, with plugins
for WebSocket, WebRTC, JWT authentication, CORS, compression and more. This
directory models the parts of it whose correctness depends on the order in
which things happen: the life of the server and of a connection, the sessions
of the plugins, the caches and counters that request threads share, the
incremental parsers and the response path; and the decisions on the way (routes,
gates, tokens, handshakes, cookies, files) whose cases are too many for tests. It states what those parts have to
keep true, checks it with TLC on small instances, and proves some of it for
every instance with TLAPS.

All paths below are relative to `src/crates/`. `PROJECT.json` maps each
definition to the lines it stands for.

## 1. The system

A `Server` (core) is configured with a `Router` (routes), gates, middlewares,
interceptors and plugins. `bind` gives a `BoundServer`; `run_until` accepts
connections until its shutdown future is ready. `RebindHandle::rebind` replaces
the listener at run time: the connections so far form a retired *generation*
that is drained in the background. Each connection is a task that reads a
request (http), asks the gates, perhaps hands the connection to a session
(plugin-websocket) or to an interceptor (CORS preflights, WebRTC signaling and
others in `plugin.rs`), calls the handler, and writes a buffered or a streamed
response, on which CORS and compression act just before it is written.

Inventory of the parts (the same list, with files, is under `components`):

| part | code | module | extent |
|---|---|---|---|
| server lifecycle | `core/src/server.rs` `bind`, `run_until`, `rebind` | `Server`, `Admission` | whole |
| connection task | `core/src/server.rs` `handle_connection_with_permit`, `core/src/streaming.rs` | `Connection` | whole |
| request reading | `http/src/{connection,buffer,request,body,chunked}.rs` | `RequestReader` | control whole, grammar of names and request line summarised |
| forms, queries, percent-encoding | `http/src/{form,query,percent}.rs` | `Forms` | whole, over bytes; not `is_form_content_type` |
| cookies | `http/src/cookie.rs` | `Cookies` | whole; characters abstracted to the kinds that matter |
| response head | `http/src/{response,location}.rs` | `ResponseHead` | builder and the three serialised forms; no `Date` |
| response path | `http/src/response.rs`, `plugin-cors`, `plugin-compression`, `core/src/plugin.rs` | `ResponsePipeline` | decisions and framing; bytes abstracted |
| router | `routes/src/{lib,pattern}.rs` | `Router` | whole |
| static files | `plugin-static/src/{lib,mime}.rs` | `StaticFiles` | whole; directories and links stay as they are |
| gates: CSRF, JWT, tenant | `plugin-csrf`, `plugin-jwt/src/gate.rs`, `plugin-hub-wiring/src/{gate,auth}.rs` | `Gates` | decisions whole |
| hub stores | `plugin-hub-wiring/src/{audit,consent,outbox}.rs` | `Gates` | whole; JSON of an audit record left out |
| WebSocket handshake, patterns | `plugin-websocket/src/{lib,handshake,pattern,config}.rs` | `WsHandshake`; hand-over of the permit in `Server` | whole but for plain setters, the accept key and connection numbers |
| WebSocket session | `plugin-websocket/src/{session,handler}.rs` | `WsSession` | whole |
| WebRTC registry, signaling | `plugin-webrtc/src/{config,handler,drain}.rs` | `WebRtcRegistry` | whole |
| WebRTC data channel limit | `plugin-webrtc/src/handler.rs` | `DataChannels`, `WebRtc` | whole |
| WebRTC proxy | `plugin-webrtc-proxy/src/{handler,client}.rs` | `WebRtcProxy` | whole; bytes counted |
| JWT authentication, DPoP | `plugin-jwt/src/{auth,verify,dpop}.rs`, `dpop/replay.rs` | `JwtAuth` | concurrency whole |
| token policy, DPoP key and origin | `plugin-jwt/src/{policy,verify,dpop}.rs`, `dpop/{key,origin}.rs` | `TokenVerify` | checks and their order; encodings abstracted |
| JWKS documents | `plugin-jwt/src/{jwks,verify}.rs` | `KeySet` | decisions; encodings abstracted |
| JWKS refresh task | `plugin-jwt/src/refresh.rs`, `refresh/task.rs` | `JwksRefresh` | whole |
| unknown-key notification | `plugin-jwt/src/notify.rs` | `NotifyThrottle` | whole |
| request log | `plugin-tracing/src/{layer,sampler}.rs` | `Sampler` | sampling whole; output left out |
| GraphQL, OpenAPI, benchmark programs | | | not modelled, section 7 |

## 2. Modules

A module per component holds its constants, variables, actions, specification
and properties. `MC<name>.tla` instantiates it for TLC; the `...Proofs` modules
hold the theorems (section 6). `Selection` has the one operator on sequences
that several components and their proofs share: the elements of a sequence that
are in a set (the eviction queue, the outbound items on a wire, the responses a
log observes, the parameters of a pattern). Some MC modules hold
several components that do not share state: a variable `part`, fixed in the
initial state, says which of them runs and the others rest. So the run is the
union of theirs, and a property of one part is checked in its states.
`MCRequestReader` has `RequestReader`, `Forms` and `Cookies`;
`MCResponsePipeline` has `ResponsePipeline`, `ResponseHead` and `Sampler`;
`MCRouter` has `Router`, `StaticFiles`, `Gates` and `NotifyThrottle`; `MCTokens`
has `JwtAuth`, `KeySet` and `TokenVerify`; `MCWebRtc` has `WebRtc` and
`WebRtcProxy`; `MCWsSession` has `WsSession` and `WsHandshake`.

An operator whose comment begins with "Mutation of" is a plausible mistake in
the definition after it; with it in place of that definition the property it is
listed with under `mutants` fails.

**Server.** `pc` is where `run_until` stands, `accept` what its accept future
holds, `free` the semaphore, `queue` the one-slot rebind channel, `cmd` the
command in hand. A generation is named after its listener and has the
`shutdown_flag`, the cancellation and the session drain of the code as
`flag`, `cancel` and `sessions`, and `drain` for its background task. `conn`
is the state of each connection's task or detached session. `PollShutdown`,
`PollRebind`, `AcquirePermit`, `AcceptConn`, `AcceptError` and `AcceptPending`
are the legs of `race_shutdown_or_accept` in the order of the code;
`RebindFlag`, `DrainBacklog` and `RebindSwap` the arm of a rebind;
`ShutdownFlag` … `AbortDone` the shutdown. `DropRunUntil` is the caller
dropping the future. A request is one step here, except for an upgrade, which
passes through the states in which it can miss the cancellation.

**Admission.** The promise the server keeps, three variables long: at most
`max_connections` connections at a time, each served once, none after the
shutdown has begun. `Server!AdmissionSpec` is this specification under the
mapping *phase of `run_until`, permit holders, closed connections*.

**Connection.** One connection task in detail. `wire` is what the client has
been sent, as parts of responses, `log` what the middlewares were told, `ext`
the gates' extensions, `chan` and `sent` the body channel and what the producer
put into it. What the task waits for is chosen by the environment.

**RequestReader.** `read_request_with_limit` on a stream that arrives in pieces
of any size and may end or fail anywhere. `buf`, `pos` and `cap` are the
`RecvBuffer`; `dec` is the `ChunkedDecoder`. A head line is one symbol that
carries what the code looks at. `MCRequestReader` defines recursively what a
whole stream says, independently of the reader.

**Forms.** A client encodes fields in one of the spellings the rules allow, or
a body is any short sequence of the bytes that matter. `QueryPairs` splits it,
`DecodeBytes` and the UTF-8 check decode it, the limits of `FormLimits` refuse
it.

**Cookies.** A `SetCookie` is built by calls in any order, validated, written as
a header and kept by a browser that follows RFC 6265; `cookies` reads what the
browser sends back, and arbitrary `Cookie` headers.

**ResponseHead.** A `Response` is built by any sequence of calls (headers,
`vary`, `no_store`, redirects, cookies, `Allow`) and written in one of its three
forms: buffered, chunked, or ended by the close.

**Sampler.** The middleware of plugin-tracing. Its counter is shared by the
connections and wraps; taking a number and recording are two steps.

**ResponsePipeline.** From the handler's answer to the bytes: `Answer`,
`Finalize`, `Compress`, `Write` for buffered responses and `StreamHead`,
`StreamChunk`, `StreamEnd`, `Cut` for streamed ones. The clients, and a shared
cache that goes by `Vary`, are not part of the program: they are how the
properties observe it.

**Router.** Two routers are built call by call, merged, and asked. The content
is in operators close to the code: `ParseError`, `MatchSegments`, `Bindings`,
`SegmentsEquivalent`, `Merged`, `Dispatch`, `Unmatched`.

**StaticFiles.** A mount is configured and validated; a request is resolved and
read one system call at a time while a file is written, truncated or removed
between any two of them. `Canonical` follows the symbolic links.

**Gates.** Requests of two connections pass the gates in order. Each gate is an
operator on the request and the extensions left by the gates before it. A
handler that is reached then calls the hub's stores for its tenant; a store is
behind one mutex, so a call is a step.

**WsHandshake.** Configurations are built and registered; the first that matches
takes a request; the task of the upgrade checks the headers, asks the
hook, and writes its answer, with the cancellation racing the write.

**WsSession.** `sess` is where the session task stands, `queue` the outbound
channel, `accepted` the items whose `send()` or `close()` was answered `Ok`,
`wire` the frames written. A sender goes through reserve, commit under the
`CloseState` lock, and signal, each a step.

**WebRtcRegistry.** Per offer: its `slot` in the registry, its `handler` (the
signaling in the connection task), its guard (`armed`, `state`), its detached
`build`, and its `peer`. `DropGuard` may interrupt the handler at every await:
it is both the deadline and the abort of the task.

**DataChannels**, **NotifyThrottle.** Lock-free loops; a step is one access to
an atomic. `DataChannels` has spurious failures of `compare_exchange_weak`,
`NotifyThrottle` clocks that disagree and go back.

**WebRtc.** Composes `WebRtcRegistry` with `DataChannels`: one peer is followed
to its data channels, which open while the peer is there and whose echo tasks
outlive it until they notice its end.

**WebRtcProxy.** One exchange: the checks of the offer, the connection, the
request and the upstream's response in pieces, under two timeouts in ticks.

**JwtAuth.** Threads go through `authenticate_at`; each lock section is a step.
`sets` is the history of the shared key set, `map` and `order` the token cache,
`used` and `heap` the replay store. A token or proof is a record of what the
checks ask of it; `sound` stands for those that depend on neither keys nor time.

**KeySet.** `FromJson` and `Classify` with the branches of the code, and
`Verdict` for a token. Signatures are ideal.

**TokenVerify.** One request to an authenticator with empty stores: every check
of the headers, the token, the policy, the proof and its target in the order of
the code, and the challenge of a refusal.

**JwksRefresh.** The task's loop with its timers in ticks, for every
configuration that `build` accepts. When `prompt` is true the clock waits for
the task, so that bounds can be stated to the tick; when it is false the task
may be late.

`Server` composes the accept loop, generations, connection tasks and sessions;
`Connection` details what is one request step there; `ResponsePipeline`
composes core, CORS, compression and framing; `JwtAuth` is the reader of the
key sets that `JwksRefresh` publishes and `KeySet` parses, and repeats for many
requests at once what `TokenVerify` does in full for one; `Gates` has its verdict
as one flag; `WsSession` begins where `WsHandshake` ends.

## 3. What the runs show

Each run checks the properties that its `.cfg` lists. Most are conjunctions of
named parts, each with its own comment in the module; where the text below names
a part, the property that holds it stands in the table. States are distinct
states found.

| run | states | shows |
|---|---|---|
| `server` | 427 k | `PermitsAccounted`: no permit is lost or doubled on any path. `ShutdownOrderly`: at most one more request per connection once its generation is told to stop; at most one accept or rebind after the signal; a clean return means nothing is left (`CleanReturnIsEmpty`); the registry of peers is closed for good only at the end. `RebindTruthful`: `rebind` answers the truth and leaves no listener behind (`ListenersOwned`). `AdmissionSpec`: `Server` implements `Admission`. `ServerSettles`: shutdown returns, each `rebind` is answered, and connections and sessions that were told to stop end, although handlers need never return. |
| `connection` | 524 k | `WireInOrder`: one complete response per request in order; nothing after a response that announced the close; clean hand-over to a session; a streamed body is terminated only if finished and whole. `SeenInTurn`: middlewares see matching pairs; extensions do not cross requests. `ConnectionSettles`: producers are released; a connection ends or waits for what the code puts no bound on. |
| `request_framing` | 476 k | For about 1600 streams and every way of cutting them, `ReadAsSent`: the reader agrees with the framing of the whole, and chunks written are read back. `BufferSound`: it loses and repeats no byte, keeps its limits and its memory bound. `FormFaithful`: a form in any spelling yields the fields it was made of, is refused exactly for its size, and any other body is read exactly if it is well formed, and then as what one pass over its bytes says, with no field lost. `CookiesSound`: what is written keeps the rules of its prefix and limits, and comes back from the browser as it was set; whoever sends them, cookies are read each from its place in the joined headers, or none is and the error is the one that is due. |
| `response_pipeline` | 886 k | `CacheSafe`: what a shared cache reuses fits the client; every variant declares `Vary: Accept-Encoding`. `BodyAsDeclared`: headers tell the truth about the body; streams arrive whole or visibly cut; a client stays in step with the connection. `CorsSound`: CORS grants what it is configured to. `HeadSound`: whatever calls built a response, it has one framing, and the headers its calls asked for. `TraceSampled`: of what finishes concurrently exactly every n-th that counts is recorded. |
| `router` | 1.3 M | `RouterSound`: merging equals one build, keeps all handlers and silently replaces none; a 405 lists exactly the methods that would be answered; what a pattern binds rebuilds the path; a fallback answers only what it was registered for. `StaticSound`: a mount serves only files below its root that may be served, whole and with the type of their name, although they change under it, and leaves the rest to the router. `GatesSound`: a request reaches its handler exactly if every gate admits it, with what they verified; a rejection is that of the first gate that objects. `TenantsApart`: a handler sees and changes only what belongs to the tenant the gate verified, and attempts at the rest are on record. `ThrottleSound`, `Spaced`: notifications keep their interval and no event is lost or counted twice. |
| `ws_session` | 547 k | `DeliveredInOrder`: items accepted are written once, in order, before a Close and never after it. `ReplyInOrder`: pushes precede the reply; no reply once `close()` took effect; the assertion of `drain_to_close` holds. `SessionSettles`: sessions end on close and cancellation whatever client and handler do, `close()` is answered, and while the client reads, senders are answered and the queue is written, also under constant input. `UpgradeEntitled`: the first configuration whose path matches takes a request, and a session is opened only on a handshake that passed its checks. `UpgradeStops`: once cancelled an upgrade writes nothing more and ends. |
| `webrtc` | 230 k | `RegistrySound`: a peer nobody closed has an owner that will; running builds hold slots; nothing is active after the final drain. `ChannelLimitExact`: the count of data channels is that of their permits, keeps its limit and refuses nobody without cause. `PluginSettles`: an offer is answered although the library hangs; if the library answers, slots come back and peers are closed after shutdown; the channels of a closed peer end. `ProxyFaithful`: the proxy passes on an answer whole and exact, and reports an error only for its cause. `ProxyAnswers`: it answers although the upstream hangs. |
| `jwks_refresh` | 987 k | When the task is polled in time, `KeysExact`: keys are never older than `max_stale` and a healthy source never loses its keys; and, in `FetchesPaced`, the next fetch begins within a period and no signal is lost. However late it is polled, `FetchesPaced` and `StopsWhenTold`: fetches are spaced and the task stops. |
| `tokens` | 2.7 M | `StoresConsistent`: the token cache and the replay store are consistent and bounded. `AcceptedIsEntitled`: a token is admitted only if it was valid with a key set in force during the request, and a bound one only with a proof by its key, which is accepted once until the store has been shown a time after its expiry (`ProofUsedOnce`). `KeySetSound`: of about 11 400 documents exactly those are accepted whose entries are all usable or not for this plugin, within the limits and without a repetition, whatever their order; the keys are exactly the usable entries, and a token is verified exactly if its signer was published for its kid and algorithm. `VerdictTruthful`: a request is accepted exactly if token, policy, times, binding and proof are right, and the challenge of a refusal is due. |

Three runs show a disagreement between the code and what its documentation says.
`connection_lifetime`: buffered responses are written without a timeout, so
`max_connection_lifetime` does not bound the time a connection is held.
`trace_sampling`: the sampler's counter starts at 0, so of N calls N / interval
rounded up are recorded; its doc (`sampler.rs:42`) says rounded down.
`jwks_contradictions`: a key whose `alg` contradicts its `kty` or `crv` refuses
the whole document by the contract of `jwks.rs` (lines 11 and 405), but
`classify` goes by the prefix of the algorithm and has no rule for EdDSA nor for
the curve of ES256K, so such an entry is skipped when nothing else is wrong with
it. `KeySetSound` states acceptance exactly, with these two exceptions named
(`Overlooked`).

Two smaller disagreements were met while modelling and have no run of their
own. With `max_connections` above `u32::MAX` the grace wait collects fewer
permits than there are, although a comment in `bind` says that clamping keeps
its meaning (`CleanReturnIsEmpty` fails in `MCServer` with `MaxConnections = 2`
and `MaxU32 = 1`). A read fills the spare capacity of the receive buffer, which
may be more than the documented `READ_CHUNK_BYTES`; `MemoryBounded` holds
anyway.

Where a property is narrower than one might expect, the code documents the
exception. `ClientInSync` excludes a buffered response that a handler gives a
body with a status that has none (`Response::serialize` says that it is written
as it is). `VaryDeclared` is about `Accept-Encoding`: responses to an `Origin`
that is absent or not allowed carry no `Vary: Origin`. `StreamWhole` is about
chunked bodies; to an HTTP/1.0 client the end of the connection is the end of
the body. `ProofUsedOnce` speaks of the latest time the store was shown because
entries expire by the clocks that requests bring, and those may disagree.

## 4. Bounds

- *Server*: two connections and two rebinds for one permit make every wait
  happen: a connection waits for a permit, a caller for the slot of the
  channel, and a second generation is retired while the first drains.
  `BacklogLimit` 1 reaches its limit, `MaxArrivals` 3 is one arrival less than
  there are connections and callers. `MaxConnections` is 0, which `bind` rounds
  up to 1.
- *Connection*: three requests let any kind follow any other; a body channel of
  one and three events make the producer wait.
- *RequestReader*: all limits are small enough to be met and passed (head 8,
  body 3, three chunks, lines of 3, reads of 4), and `U64Max` is 20 so that a
  size can overflow it.
- *Forms*: fields of texts of up to two bytes that need every kind of encoding,
  and all short bodies of the bytes the decoder looks at; encoded and other
  bodies meet and pass the limits of 16 bytes and 2 pairs.
- *Cookies*: two attributes on the first cookie, a jar of three, and headers of 10
  bytes and 2 cookies at most, so that both limits are passed.
- *ResponseHead*: three calls and the statuses 200, 204 and 302; fields of
  `Vary` in two cases, the asterisk and one that is no token.
- *Sampler*: an interval of 3 and a counter that wraps at 4, which 3 does not
  divide; six calls of two tasks.
- *ResponsePipeline*: two requests, since a cache answer needs one before it;
  nineteen resources cover bodyless statuses, own `Vary`, own encoding, sizes
  on both sides of `MinSize` and streams. One configuration is checked: a list
  of origins with credentials, and compression of everything.
- *Router*: two and one calls. Patterns overlap in every way (equal up to
  names, literal and parameter, parameter and wildcard) and one is malformed
  for each error; there is a path that tells any two patterns apart.
- *StaticFiles*: files of 0 to 2 bytes against a limit of 1, one change while a
  request is served, at any system call; links out of the root, to a hidden
  name and to themselves; a socket, and one where an index is looked for.
- *Gates*: two connections, limits of one allowed origin and one exempt path
  that are passed, three resources of two tenants and of none; ports, IPv4 and IPv6 hosts in several
  spellings, and an origin that is too long.
- *WsHandshake*: two configurations of two setter calls each; patterns of up to 3
  segments, with one more to be refused; rejections by the hook with statuses
  that are and are not allowed to stand.
- *WsSession*: three senders of one operation and a queue of one, so that one
  sender's item is written, one's is queued and one waits; two of them act when
  pings are on.
- *WebRtc*: two offers for one slot; two channels for one permit, and a `usize`
  one above it.
- *WebRtcProxy*: offers and answers of up to one byte more than their limit of
  2, heads on both sides of the limit of 3 with reads of 2 bytes, timeouts of 1
  and 2 ticks.
- *JwtAuth*: two threads with two requests; a cache and a replay store of two,
  which overflow. Three deployments: a key that comes or goes while the plugin
  runs without DPoP, DPoP beside plain tokens, and DPoP required.
- *KeySet*: a good key with each entry of a product of member values, up to
  three entries from a selection, four good keys against a limit of three.
- *TokenVerify*: times 0, 3, 4 and 7 against a skew of at most 2, so that each
  comparison is met on both sides and at equality; tokens and proofs that differ
  from a good one in one or two members.
- *JwksRefresh*: durations 0, 1, 2 and 4 and all combinations of them that
  `build` accepts, over seven ticks, which is several fetches of most of them.
- *NotifyThrottle*: three threads, five calls, clocks 0 to 5 where 5 is
  `u64::MAX`.

Symmetry sets are used where a run has no liveness property. In `Server` and
`WsSession` the connections, callers and senders are numbered in the order in
which they first act instead, which loses no behaviour up to renaming and is
sound for liveness.

Deadlock is not checked in any of the runs: all models may come to rest, when
the server has returned, the session has ended or a bound is reached. That
nothing waits forever is stated by the liveness properties.

## 5. Fairness

Weak fairness is assumed of what tokio guarantees: a task that can go on is
polled, and a timer that is armed fires. It is assumed of

- *Server*: `run_until`, the background drains, the callers' sends, and of each
  connection what `Bounded` names: the abort of its task, the read of an idle
  connection (it has a timeout), and a session that was cancelled. Not of
  handlers, of clients, or of sessions that nobody cancelled.
- *Connection*: the task at every wait with a timeout. `Unbounded` names those
  without one: user code and the writes of buffered responses.
  `FairHandlerSpec`, which only the violation run uses, lets user code return
  as well, so that what it shows is due to the writes alone.
- *WsSession*: senders, internal steps, timers and cancellation. In its loop
  with something queued the session turns to one side or the other; that it
  does not always turn to the client is not assumed but follows from the
  alternation in the code. `SendAnswered` and `AcceptedWritten` add the premise
  `ClientReads`: writes end.
- *WebRtc*: `Deadlines` is the runtime and the timers only. `SlotsReturned` and
  `PeersCloseAfterShutdown` have the premise `LibraryAnswers`, that the library
  ends its calls; `OfferAnswered` assumes nothing of it. A weak exchange does
  not fail forever for no reason, and a closed peer's channels tell their tasks.
- *WsHandshake*: the task of an upgrade is polled. Nothing is assumed of the
  client that reads the answer: `UpgradeStops` is about upgrades cancelled.
- *WebRtcProxy*: the task is polled and the clock of its timers ticks; nothing
  is assumed of the upstream.
- *JwksRefresh*: the task is polled and time passes.

No strong fairness is used. The liveness properties have the form "again and
again, what was asked is done". What they ask for stays asked for until it is
done, and the bounds let each actor ask a bounded number of times, so this says
the same as that every request is followed by its answer.

## 6. What is proved

Eight modules hold theorems. They are for every value of the constants under
the named assumptions, which TLC evaluates in the runs.

**ServerProofs**, `PermitsAreConserved`: `Spec => []PermitsAccounted`, types and
conservation, from `ServerAssumption` (finitely many connections, `max_connections` any
natural number). The inductive invariant `PermitInv` adds `LoopShape`: no
accept future outside the accept loop, and a command in hand while a rebind is
worked on. The type invariant is needed because a permit that returns must not exceed `PermitCount`, and that follows
from conservation only with the number of holders a natural number. The proof
is in layers: adding or removing one holder changes the cardinality by one
(`HolderAdded`, `HolderRemoved`); each action moves at most one connection
(`MoveSteps`) or the permit in hand (`HandMovesBalance`), except for the reset
of connections in a closed listener's backlog, which hold nothing
(`ResetKeepsHolders`); `PermitStep` puts them together action by action.

`ServerImplementsAdmission`: `Spec => AdmissionSpec`. The
initial states map to initial states and every step to a step or a stutter;
that a connection accepted leaves room below `max_connections` comes from
`PermitsAccounted`.

`RebindIsTruthful`: `Spec => []RebindTruthful`. `RebindInv` follows each caller
of `rebind` through its life (`CallShape`: where its command may be and what
state its listener is in, at each stage of the call) and says that the loop owns
one listener while it runs (`LoopOwns`). The lemmas say what each kind of step
does to a caller: `CallStep`, `CommandTaken`, `CommandDone`, `ServiceEnds`, and
`OtherStepsQuiet` for the rest. `ShutdownIsOrderly`: `Spec =>
[]ShutdownOrderly`, under `PermitCount <= MaxU32`, which is the smaller
disagreement about `u32::MAX` above and is necessary. `ShutdownInv` has
`LateShape` (after an accept or a rebind taken too late the loop comes to the
shutdown future first), `AfterShape` (a request begun after the flag has
`keep_alive` false), `SessionShape` (the plugins' drains come after flag and
cancellation of their generation) and `CleanShape` (once all permits were
collected nobody holds one again, by conservation).

**ConnectionProofs**: `WireIsInOrder` (`Spec => []WireInOrder`) and
`SeenIsInTurn` (`Spec => []SeenInTurn`), for any limits and any requests. The
parts of `ConnInv` beside the two properties relate where the task stands to
what it has written: `WireEnds` (which part ends the wire at each point of the
loop), `NoneAhead` (nothing of a later request is written), `AllCompleted`
(every response before the one at hand is whole), `LogLength` (how far the
middlewares' log has come) and `BodyMatches` (the chunks on the wire are those taken
from the producer's channel so far). The last is what the terminator needs: it
is written when the task finds the end in the channel, long after the producer
sent what came before it. The lemmas say once what appending a part does to each
of these (`Fits`), and every action is then one of a few kinds of write.

**WsSessionProofs**: `DeliveryIsInOrder` (`Spec => []DeliveredInOrder`) and
`RepliesAreInOrder` (`Spec => ReplyInOrder`, an action property in it), for any
number of senders and any capacity of the queue. `SessionInv` adds `Places`
(which frame may be in flight at each state of the session), `Permits` (items in the
queue and senders that reserved a permit are together never more than the
capacity, so a reserved permit can always be used),
`CloseIsLast` and `CloseCompletes` (a close is the last
item of the queue, no Close frame is on the wire before the session closes, and
the one that goes out then completes what was accepted) and
`DrainCovers` (a drain has as many rounds left as it needs for what was accepted
when the handler returned). `AcceptedConserved` is an equation of sequences, written
items and queue against accepted items: each step moves one item from the head
of one to the end of another, and the lemmas on `Select` carry the equation over.

**PluginProofs**. Of `ResponsePipeline`: `CorsIsSound` (`PipelineSpec =>
[]CorsSound`), `CachesAreSafe` (`PipelineSpec => []CacheSafe`) and
`BodiesAreAsDeclared` (`PipelineSpec => []BodyAsDeclared`), for any resources,
requests, list of origins and settings, under `PipelineAssumption`: a handler does not set `Content-Encoding: gzip` itself, no
client is at the origin `*`, and the configuration is not a wildcard with
credentials, which the builder refuses. `PipelineInv` has `ResponsesFit` (what a
response grants and how it is coded fits its request, or Vary names what it
depends on; said of the response on its way and of the stored one, since the
cache is where the two meet), `Unwritten` (nothing is on the wire before the
head), `Stages` (what is settled at each stage: above all that whoever is
decided upon Accept-Encoding has said so before the decision is made) and
`WireTrue`, which follows a streamed body piece by piece, so that the end can be
said to come after the whole of it. `StreamWhole` alone is not inductive: it
says nothing until the end is written.

Of `JwksRefresh`: `KeysAreExact` (`Spec => []KeysExact`) and `FetchesArePaced`
(`Spec => []FetchesPaced`), for any durations `RefreshConfigBuilder::build` accepts.
`RefreshInv` has `Paced` (what the last fetch left the timers and the stale deadline at),
`OnTime` (a task that is polled in time is never late for the timer it waits
for), `SignalKept` (a signal has its permit, or has made a fetch due) and
`OutlastFetch` (as long as no fetch failed, the keys outlast the fetch that
replaces them). The last is where the validation of the durations is used:
`max_stale` has to cover a period and a timeout.

**GateProofs**. Of `Gates`: `GatesAreSound` (`GatesSpec => []GatesSound`) and
`TenantsAreApart` (`GatesSpec => []TenantsApart`), for any connections,
requests, tenants, records and any sequence of the three gates, the same one
twice included, under `GatesAssumption`: a number has one text without a leading
zero (`NotationOk`), headers are sequences, and a host name has a label. The
decision of `first_rejection` is a recursive function of the gates;
`RejectionDecides` shows by the least counterexample that it is `Decision`: all
gates admit and leave exactly what they found, or the status is the reason of
the first that has one. `GateInv` says that of every connection under the
configuration that serves. `OriginWritten` compares `valid_origin` with what a
browser writes.

`StoreInv` relates the stores to the history of calls: a tenant's part of the
outbox is what its own calls stored, in order (`OutboxTrue`), a consent is what
the tenant's last call left (`GrantsTrue`), and the audit has the attempts
(`AuditComplete`). What a handler was told is about the calls before its own
(`Told`), and later calls of other connections change nothing of that
(`AnswerKept`); that is why the property names the length of the history at the
call, and why it is inductive.

**RealtimeProofs**. Of `DataChannels`: `PermitsCounted`, `LimitIsKept`,
`NoneRefusedForNothing` and the three together, `LimitIsExact`, for
finitely many channels and any limit, 0 (none) included. `CountsHolders` alone is not inductive: an exchange must be known to
leave room, hence `ExchangeHasRoom` (the value held was judged) and `WithinMax`.
`RefusedForCause` needs `FullIsNoted`: a call that runs while the limit is
reached has it on record.

Of `WebRtcRegistry`, `RegistryIsSound`: `Spec => []RegistrySound`, for any
finite set of offers and any limit. `RegistryInv` adds to it what relates the views an
offer has of itself (`Agree`: registry, guard and build task fit together, and
an open peer has somebody responsible), that the flag of the final drain
precedes the drain (`FlagFirst`) and that slots keep the limit (`WithinLimit`).

`PluginIsSound`: the two composed, `PluginSpec => [](RegistrySound /\
ChannelLimitExact)`; neither disturbs the other.

Of `WebRtcProxy`, `ProxyIsFaithful`: for any offers, any upstream
responses cut in any way and any limits. `ProxyInv` adds that the offer was checked
before anything else (`OfferSound`) and what has been read against what the
upstream sent (`ReadSound`).

Of `WsHandshake`, `UpgradeIsEntitled`: `WsSpec => []UpgradeEntitled`, for any
paths, patterns and requests. Its core is `MatchesAdmitted`: a pattern that
`parse` accepts matches exactly the paths that come from filling its parameters
with safe values. `ParsedPattern` gives what that needs, no two parameters of
one name above all. `UpgradeInv` has `ConfigsInv` (a configuration remembers the
path or pattern it was given last, and that one parsed), `RoutedInv` (the one
chosen is the first that matches) and `AnswerInv` (the answer is one of
`Decisions`, and on_open came with the whole 101). `CancelledIsQuiet`: `WsSpec
=> [][CancelledQuiet]_wsVars`, the safety part of `UpgradeStops`.

**AccessProofs**. Of `JwtAuth`, `OnlyTheEntitled`: `Spec => []AcceptedIsEntitled`, for any
number of threads, requests and key sets, any clocks and any positive
capacities. `AuthInv` has `CacheTrue` (an entry was verified with the key set it
is marked with), `StoreTrue` (a proof accepted and not expired for the store is still in
it) and, for each thread, `RequestTrue`: what it has concluded at each point of
`authenticate_at` is true of a set in force since it began. The last is what a
thread carries over the gaps between its lock sections, while others rotate the
keys and evict the entries it looked at.

`StoresStayConsistent`: `Spec => []StoresConsistent`. `StoresInv` adds that the
queue of the cache is a sequence of tokens and the replay store finite. Eviction
retains and then pops from the front, so the facts needed are about filtered
sequences: the elements, the length and that nothing is repeated
(`SelectedOrder`, `NewestOrder`), from which the cache has room for the entry
(`EvictedRoom`).

Of `NotifyThrottle`: `DeadlineIsKept`, `NotificationsSpaced` and `NoEventLost`
(the first and the last together, `ThrottleIsSound`), for finitely many threads,
any interval up to `u64::MAX` and any clocks. The inductive invariant is
`DeadlineKept`: the deadline is the last notification's time plus the interval,
saturated, and a thread before its exchange has seen a deadline its clock has
passed. That it says of *every* thread, not of the one that wins, is what makes
it inductive: the exchange succeeds only if the deadline seen is still the
current one. `Spaced` then follows for each step. `NoEventLost` counts the
threads under way.

Of `Sampler`, `TraceIsSampled`: `SamplerSpec =>
[]TraceSampled`, for any number of tasks, any interval and any width of the
counter. `SamplerInv` adds that the counter is the number of responses observed
modulo its width (`CounterWraps`: counting on from the remainder gives the
remainder of the count) and that a task has at most one path in hand; the
balance of due, recorded and in hand is then kept by counting.

**SelectionProofs**: `SelectEmpty`, `SelectAppend`, `SelectType` and
`SelectFaithful`, what `Select` gives for every sequence. These are inductions
over data. The library's induction theorems take an operator, which the
installed provers cannot instantiate; the proofs go by the least counterexample
(`LeastNumber`, from the well-foundedness of the naturals as a relation), which
is first order.

Only model-checked:

- all liveness properties and the liveness half of mixed ones (`UpgradeStops`,
  `SessionSettles` and the rest): fairness is outside the prover's reach;
- what compares a parser with the sender's encoding (`ReadAsSent`,
  `FormFaithful`, the round trips in `CookiesSound`): what a fold or a recursive
  definition computes for every input, an induction over data;
- decisions that one step takes from its input (`VerdictTruthful`,
  `KeySetSound`): the run goes through the kinds of input, and no
  later step could disturb the answer;
- `BufferSound`, `RouterSound`, `StaticSound` and `HeadSound`, which are
  invariants of several steps and are within reach, but not proved yet.

## 7. What is not modelled

- Bytes: base64, ASN.1, JSON, SDP, WebSocket frames, gzip, `Date`, the digest of
  `Sec-WebSocket-Accept`, the grammar of a request line and of a field name
  (well formed or not), media types (`is_form_content_type`). They are pure
  functions with unit tests and fuzz targets in the repository.
- `Expect: 100-continue`.
- Code of the application. `Interceptor::map_response` is one with the resource
  in `ResponsePipeline`: it runs before CORS and compression, on the buffered
  and the streamed path, and a resource has any headers it could leave. Whether
  a record is found, absent or another tenant's is what the application says in
  `Gates`; what `resolve` does with each answer is modelled.
- Builder setters that store a number, error enums and their `Display`, the
  numbering of WebSocket connections, the JSON of audit records, which
  `CsrfConfigError` a refused configuration gets,
  `init_tracing`, the diagnostics sink and the reuse of the send buffer:
  nothing depends on them that a property could tell apart.
- TCP, TLS, the WebRTC, WebSocket and cryptographic libraries: external, with
  the behaviour the code relies on or, where it guards itself, any.
- Weak memory: atomics are sequentially consistent. The lock-free loops that are
  modelled keep what matters in one atomic each; `suppressed` in
  `NotifyThrottle` is a count whose exchange is atomic in any order.
- Directories and symbolic links that change while a static file is served; the
  code resolves a path and reads the result in separate calls, and the module's
  doc lists a link put in between among its known limits.
- GraphQL (an adapter: it hands a body to async-graphql and wraps the answer),
  OpenAPI (a document generated at build time), the benchmark programs, the
  TypeScript client and the scripts.

More than three quarters of the lines under `crates/` are comments, blank lines and
tests. The map names somewhat less than half of the lines of code proper; the
rest is what this section lists, configuration and error types above all.

## 8. Plan

Next, in this order. Pure decisions join the run of the part they belong to;
a new run is made only for a new question.

1. Compositions: `JwksRefresh` with `JwtAuth` (keys cleared by age are not used
   by the cache), `Connection` with `RequestReader` (leftover bytes of an
   upgrade), `WebRtc` with the drains that `Server` fires, `WsHandshake` with
   the registration of a session in `Server`.
2. Further abstract specifications: an atomic admission gate for
   `DataChannels`, a FIFO channel with a close for `WsSession`, a map with
   expiry for the replay store.
3. `Expect: 100-continue` and the request line in `RequestReader`.

Theorems, in this order: `BufferSound` of `RequestReader`; `StaticSound`; the
compositions and abstract specifications above as they are made.

## 9. Running

    tlc -workers 4 -config MCServer.cfg MCServer
    tlapm ServerProofs.tla

Every run takes at most about two and a half minutes on two cores. From scratch
`SelectionProofs` takes half a minute, each of the other proofs ten to twenty minutes.
A proof module extends several components only where their names do not clash
and the whole stays small: the prover slows down with the number of obligations
and definitions in one module.
