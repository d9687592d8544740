----------------------------- MODULE Connection -----------------------------
(***************************************************************************)
(* One connection task, handle_connection_with_permit in                   *)
(* crates/core/src/server.rs, with write_streaming_response and the body   *)
(* channel of crates/core/src/streaming.rs between the handler's producer  *)
(* and the task. Everything the task waits for (the client, user code, a   *)
(* write, the producer, its timers) is a choice of the environment; the    *)
(* shutdown flag and the connection's lifetime may turn at any moment.     *)
(***************************************************************************)
EXTENDS Integers, Sequences, FiniteSets

CONSTANTS
  MaxRequests,      \* Server::max_requests_per_connection
  KeepAliveEnabled, \* Server::keep_alive_enabled
  Gates,            \* number of RequestGates
  Capacity,         \* capacity asked of StreamingResponse::channel
  MaxEvents         \* bound: events a producer sends for one response

ASSUME ConnectionAssumption ==
  /\ MaxRequests \in Nat /\ Gates \in Nat
  /\ Capacity \in Nat /\ MaxEvents \in Nat
  /\ KeepAliveEnabled \in BOOLEAN

MaxServed == IF MaxRequests = 0 THEN 1 ELSE MaxRequests

\* What the task tells requests apart by: the version, should_keep_alive, and
\* who answers (an upgrade handler, an interceptor or plugin, the handler with
\* a buffered response, or a streamed one whose final status has a body or,
\* as 204 and 304, none).
Kinds == {"upgrade", "intercepted", "handled", "stream", "stream_bodyless"}
Requests == [http10 : BOOLEAN, ka : BOOLEAN, kind : Kinds]
NoRequest == [http10 |-> FALSE, ka |-> FALSE, kind |-> "handled"]

VARIABLES
  pc,      \* where the task stands
  flag,    \* the generation's shutdown_flag
  aged,    \* max_connection_lifetime has passed
  served,  \* requests_served
  req,     \* the request being served
  keep,    \* keep_alive
  ext,     \* extensions in the head of the request being served
  permit,  \* who has the connection's permit
  wire,    \* what was written, in order
  log,     \* calls of the middlewares: on_request, on_response_with_status
  chan,    \* the body channel
  rxOpen,  \* the StreamingResponse exists
  writers, \* BodyWriter handles
  sent     \* history: all events sent into the body channel

taskVars == <<pc, served, req, keep, ext, permit, wire, log>>
chanVars == <<chan, rxOpen, writers, sent>>
vars == <<taskVars, chanVars, flag, aged>>

PcStates == {"top", "read", "error", "rejected", "refused", "routed",
             "intercept", "handle", "respond", "stream_head", "stream",
             "stream_done", "done"}

Init ==
  /\ pc = "top"
  /\ flag = FALSE
  /\ aged = FALSE
  /\ served = 0
  /\ req = NoRequest
  /\ keep = FALSE
  /\ ext = {}
  /\ permit = "task"
  /\ wire = << >>
  /\ log = << >>
  /\ chan = << >>
  /\ rxOpen = FALSE
  /\ writers = 0
  /\ sent = << >>

-----------------------------------------------------------------------------
(* The environment.                                                        *)

SetFlag == ~flag /\ flag' = TRUE /\ UNCHANGED <<taskVars, chanVars, aged>>
Age == ~aged /\ aged' = TRUE /\ UNCHANGED <<taskVars, chanVars, flag>>

\* BodyWriter::send and finish wait for room; both fail, and leave nothing
\* behind, once the receiver is gone. finish uses up its handle.
WriterSend(event) ==
  /\ writers > 0
  /\ rxOpen
  /\ Len(chan) < (IF Capacity = 0 THEN 1 ELSE Capacity)
  /\ Len(sent) < MaxEvents
  /\ chan' = Append(chan, event)
  /\ sent' = Append(sent, event)
  /\ writers' = IF event = "end" THEN writers - 1 ELSE writers
  /\ UNCHANGED <<taskVars, rxOpen, flag, aged>>

WriterDrop ==
  /\ writers > 0
  /\ writers' = writers - 1
  /\ UNCHANGED <<taskVars, chan, rxOpen, sent, flag, aged>>

-----------------------------------------------------------------------------
(* Ways out of a step of the task.                                         *)

\* Mutation of Return: the StreamingResponse is leaked.
ReturnLeaks ==
  /\ pc' = "done"
  /\ permit' = IF permit = "task" THEN "released" ELSE permit
  /\ UNCHANGED <<rxOpen, chan>>

\* The task returns: its permit and an unfinished StreamingResponse go.
Return ==
  /\ pc' = "done"
  /\ permit' = IF permit = "task" THEN "released" ELSE permit
  /\ rxOpen' = FALSE
  /\ chan' = << >>

\* Mutation of Loop: the next request is read whatever keep_alive says.
LoopAlways(k) == pc' = "top" /\ UNCHANGED <<permit, rxOpen, chan>>

\* The loop goes round, or the task returns.
Loop(k) ==
  IF k THEN pc' = "top" /\ UNCHANGED <<permit, rxOpen, chan>> ELSE Return

Part(kind, close) == [part |-> kind, n |-> served, close |-> close]
Write(part) == wire' = Append(wire, part)
\* An error or a timeout of a write: any prefix of the bytes may be out.
Tear == wire' = Append(wire, Part("torn", TRUE))

Quiet == UNCHANGED <<chanVars, flag, aged>>
QuietButChan == UNCHANGED <<writers, sent, flag, aged>>

\* The later looks at keep_alive: the lifetime and the flag once more.
StillKeep == keep /\ ~aged /\ ~flag

-----------------------------------------------------------------------------
(* The loop of handle_connection_with_permit.                              *)

Top ==
  /\ pc = "top"
  /\ IF aged THEN Return
     ELSE pc' = "read" /\ UNCHANGED <<permit, rxOpen, chan>>
  /\ UNCHANGED <<served, req, keep, ext, wire, log>>
  /\ QuietButChan

\* The read timed out, reached the end of the stream, or failed in a way that
\* error_response has no answer to.
ReadEnds ==
  /\ pc = "read"
  /\ Return
  /\ UNCHANGED <<served, req, keep, ext, wire, log>>
  /\ QuietButChan

\* The read failed with an error that is answered.
ReadError ==
  /\ pc = "read"
  /\ pc' = "error"
  /\ UNCHANGED <<served, req, keep, ext, permit, wire, log>>
  /\ Quiet

\* 4xx/5xx for a request that could not be read, 503 or 501 for an upgrade: a
\* bare answer with Connection: close that no middleware hears of.
Refuse ==
  /\ pc \in {"error", "refused"}
  /\ LET n == IF pc = "error" THEN served + 1 ELSE served
     IN \E part \in {"full", "torn"} :
          Write([part |-> part, n |-> n, close |-> TRUE])
  /\ Return
  /\ UNCHANGED <<served, req, keep, ext, log>>
  /\ QuietButChan

\* Mutation of KeepAlive: one request too many is let through.
KeepAliveOffByOne(r) ==
  KeepAliveEnabled /\ r.ka /\ served < MaxServed /\ ~aged /\ ~flag

\* keep_alive of the request r, the (served + 1)-th of this connection.
KeepAlive(r) ==
  KeepAliveEnabled /\ r.ka /\ served + 1 < MaxServed /\ ~aged /\ ~flag

\* Mutation of FreshExtensions: gate_extensions lives outside the loop.
FreshExtensionsKept(inserted) == ext \cup inserted

\* gate_extensions starts out empty for every request.
FreshExtensions(inserted) == inserted

\* A request was read: on_request, keep_alive, then the gates in order up to
\* the first rejection. Each gate that runs may insert an extension; a
\* rejection drops them.
ReadRequest(r) ==
  /\ pc = "read"
  /\ served' = served + 1
  /\ req' = r
  /\ log' = Append(log, <<"request", served + 1>>)
  /\ keep' = KeepAlive(r)
  /\ \/ /\ \E S \in SUBSET (1..Gates) :
             ext' = FreshExtensions({<<served + 1, i>> : i \in S})
        /\ pc' = "routed"
     \/ /\ Gates > 0
        /\ ext' = FreshExtensions({})
        /\ pc' = "rejected"
  /\ UNCHANGED <<permit, wire>>
  /\ Quiet

\* Mutation of WriteRejection: the missing continue.
WriteRejectionGoesOn ==
  /\ pc = "rejected"
  /\ Write(Part("full", ~keep))
  /\ log' = Append(log, <<"response", served>>)
  /\ pc' = "routed"
  /\ UNCHANGED <<served, req, keep, ext, permit>>
  /\ Quiet

\* The rejection is written with the keep_alive of before.
WriteRejection ==
  /\ pc = "rejected"
  /\ \/ /\ Write(Part("full", ~keep))
        /\ log' = Append(log, <<"response", served>>)
        /\ Loop(keep)
     \/ Tear /\ Return /\ UNCHANGED log
  /\ UNCHANGED <<served, req, keep, ext>>
  /\ QuietButChan

\* Mutation of Upgrade: after the 503 the upgrade is handled all the same.
UpgradeAfterRefusal ==
  /\ pc = "routed"
  /\ req.kind = "upgrade"
  /\ IF flag THEN Write(Part("full", TRUE)) ELSE UNCHANGED wire
  /\ permit' = "session"
  /\ pc' = "done"
  /\ UNCHANGED <<served, req, keep, ext, log>>
  /\ Quiet

\* An upgrade handler matches: 503 once the flag is set; else the stream, the
\* unread bytes and the permit go to a task of their own, or, where no
\* WebSocket configuration matches, the answer is 501.
Upgrade ==
  /\ pc = "routed"
  /\ req.kind = "upgrade"
  /\ \/ /\ ~flag
        /\ permit' = "session"
        /\ pc' = "done"
     \/ /\ pc' = "refused"
        /\ UNCHANGED permit
  /\ UNCHANGED <<served, req, keep, ext, wire, log>>
  /\ Quiet

\* Interceptors, then the plugins of try_intercept.
Route ==
  /\ pc = "routed"
  /\ req.kind # "upgrade"
  /\ pc' = "intercept"
  /\ UNCHANGED <<served, req, keep, ext, permit, wire, log>>
  /\ Quiet

\* Nobody intercepted: handle_streaming is asked first, then handle, and
\* without a handler it is 404.
Intercept ==
  /\ pc = "intercept"
  /\ \/ /\ req.kind = "intercepted"
        /\ pc' = "respond"
        /\ UNCHANGED chanVars
     \/ /\ req.kind = "handled"
        /\ pc' = "handle"
        /\ UNCHANGED chanVars
     \/ /\ req.kind \in {"stream", "stream_bodyless"}
        /\ pc' = "stream_head"
        /\ chan' = << >>
        /\ rxOpen' = TRUE
        /\ writers' = 2
        /\ sent' = << >>
  /\ UNCHANGED <<served, req, keep, ext, permit, wire, log, flag, aged>>

Handle ==
  /\ pc = "handle"
  /\ pc' = "respond"
  /\ UNCHANGED <<served, req, keep, ext, permit, wire, log>>
  /\ Quiet

\* map_response and finalize_response are done; the response is written with
\* a keep_alive that was looked at again.
Respond ==
  /\ pc = "respond"
  /\ keep' = StillKeep
  /\ \/ /\ Write(Part("full", ~StillKeep))
        /\ log' = Append(log, <<"response", served>>)
        /\ Loop(StillKeep)
     \/ Tear /\ Return /\ UNCHANGED log
  /\ UNCHANGED <<served, req, ext>>
  /\ QuietButChan

\* The task is aborted, or user code panics in it, at a point where it waits;
\* in the middle of a write it looks like a write that fails.
TaskDies ==
  /\ pc \in PcStates \ {"top", "routed", "done"}
  /\ Return
  /\ UNCHANGED <<served, req, keep, ext, wire, log>>
  /\ QuietButChan

-----------------------------------------------------------------------------
(* write_streaming_response                                                *)

\* The head: an HTTP/1.0 client gets a body that ends with the connection, an
\* HTTP/1.1 client chunks; a bodyless status is complete with its head.
StreamHead ==
  /\ pc = "stream_head"
  /\ keep' = (~req.http10 /\ StillKeep)
  /\ \/ /\ Write(Part(IF req.kind = "stream_bodyless" THEN "full"
                      ELSE IF req.http10 THEN "head_eof" ELSE "head",
                      ~keep'))
        /\ pc' = IF req.kind = "stream_bodyless" THEN "stream_done"
                 ELSE "stream"
        /\ UNCHANGED <<permit, rxOpen, chan>>
     \/ Tear /\ Return
  /\ UNCHANGED <<served, req, ext, log>>
  /\ QuietButChan

\* The next event: a chunk is transformed and written (an empty one is
\* skipped: it would be the terminator), the end is written with what the
\* encoder still has. An HTTP/1.0 body has no terminator.
StreamEvent ==
  /\ pc = "stream"
  /\ chan # << >>
  /\ \/ /\ Head(chan) = "empty"
        /\ chan' = Tail(chan)
        /\ UNCHANGED <<pc, permit, rxOpen, wire>>
     \/ /\ Head(chan) = "data"
        /\ Write(Part("chunk", FALSE))
        /\ chan' = Tail(chan)
        /\ UNCHANGED <<pc, permit, rxOpen>>
     \/ /\ Head(chan) = "end"
        /\ IF req.http10 THEN UNCHANGED wire ELSE Write(Part("end", FALSE))
        /\ chan' = Tail(chan)
        /\ pc' = "stream_done"
        /\ UNCHANGED <<permit, rxOpen>>
     \/ /\ Head(chan) # "empty"
        /\ UNCHANGED wire \/ Tear
        /\ Return
  /\ UNCHANGED <<served, req, keep, ext, log>>
  /\ QuietButChan

\* Mutation of StreamAborted: no timeout of recv.
StreamAbortedNoTimeout ==
  /\ pc = "stream"
  /\ chan = << >>
  /\ writers = 0
  /\ Return
  /\ UNCHANGED <<served, req, keep, ext, wire, log>>
  /\ QuietButChan

\* Mutation of StreamAborted: running out of writers counts as the end.
StreamAbortedAsEnd ==
  /\ pc = "stream"
  /\ chan = << >>
  /\ writers = 0
  /\ Write(Part("end", FALSE))
  /\ pc' = "stream_done"
  /\ UNCHANGED <<served, req, keep, ext, permit, log, rxOpen, chan>>
  /\ QuietButChan

\* The last BodyWriter is gone without finish, or nothing came in time.
StreamAborted ==
  /\ pc = "stream"
  /\ chan = << >>
  /\ Return
  /\ UNCHANGED <<served, req, keep, ext, wire, log>>
  /\ QuietButChan

\* Mutation of StreamDone: the middlewares are forgotten.
StreamDoneUnobserved ==
  /\ pc = "stream_done"
  /\ Loop(StillKeep)
  /\ UNCHANGED <<served, req, keep, ext, wire, log>>
  /\ QuietButChan

\* StreamingCompletion: on_response, and a last look at keep_alive.
StreamDone ==
  /\ pc = "stream_done"
  /\ log' = Append(log, <<"response", served>>)
  /\ IF StillKeep
     THEN pc' = "top" /\ rxOpen' = FALSE /\ chan' = << >> /\ UNCHANGED permit
     ELSE Return
  /\ UNCHANGED <<served, req, keep, ext, wire>>
  /\ QuietButChan

-----------------------------------------------------------------------------
Task ==
  \/ Top \/ ReadEnds \/ ReadError \/ Refuse \/ WriteRejection \/ Upgrade
  \/ Route \/ Intercept \/ Handle \/ Respond \/ StreamHead \/ StreamEvent
  \/ StreamAborted \/ StreamDone
  \/ \E r \in Requests : ReadRequest(r)

Producer ==
  \/ \E event \in {"data", "empty", "end"} : WriterSend(event)
  \/ WriterDrop

Next == Task \/ TaskDies \/ Producer \/ SetFlag \/ Age

Spec == Init /\ [][Next]_vars

\* The points where nothing in the code bounds the wait: user code, plugins,
\* and the writes of buffered responses, which have no timeout.
Unbounded == {"intercept", "handle", "respond", "rejected", "error", "refused"}

\* The runtime polls the task whenever something it waits for is there; the
\* read, the next chunk and the writes of a stream have timeouts.
FairSpec == Spec /\ WF_vars(Task /\ pc \notin Unbounded)

\* Moreover user code and plugins return; only the untimed writes may not.
FairHandlerSpec ==
  FairSpec /\ WF_vars(Task /\ pc \in {"intercept", "handle"})

-----------------------------------------------------------------------------
PartKinds == {"full", "head", "head_eof", "chunk", "end", "torn"}

\* Types of the variables.
TypeOK ==
  /\ pc \in PcStates
  /\ flag \in BOOLEAN /\ aged \in BOOLEAN /\ keep \in BOOLEAN
  /\ served \in 0..MaxServed
  /\ req \in Requests
  /\ ext \subseteq (1..MaxServed) \X (1..Gates)
  /\ permit \in {"task", "session", "released"}
  /\ (permit = "task") = (pc # "done")
  /\ \A i \in DOMAIN wire :
       wire[i] \in [part : PartKinds, n : 1..(MaxServed + 1), close : BOOLEAN]
  /\ \A i \in DOMAIN log : log[i] \in {"request", "response"} \X (1..MaxServed)
  /\ \A i \in DOMAIN chan : chan[i] \in {"data", "empty", "end"}
  /\ \A i \in DOMAIN sent : sent[i] \in {"data", "empty", "end"}
  /\ rxOpen \in BOOLEAN
  /\ writers \in 0..2

Starts == {"full", "head", "head_eof"}

\* The part q may follow the part p on the wire.
Follows(q, p) ==
  CASE q.part \in Starts -> p.part \in {"full", "end"} /\ q.n = p.n + 1
    [] q.part = "chunk" -> p.part \in {"head", "head_eof", "chunk"} /\ q.n = p.n
    [] q.part = "end" -> p.part \in {"head", "chunk"} /\ q.n = p.n
    [] q.part = "torn" -> \/ p.part \in {"full", "end"} /\ q.n = p.n + 1
                          \/ p.part \in {"head", "head_eof", "chunk"} /\ q.n = p.n

\* The client reads one response per request, in the order of the requests,
\* each complete before the next begins: chunks and a terminator only within a
\* response framed for them, nothing after a write that failed. (The write
\* paths of handle_connection_with_permit and write_streaming_response.)
ResponsesInOrder ==
  /\ wire # << >> =>
       wire[1].n = 1 /\ wire[1].part \in Starts \cup {"torn"}
  /\ \A i \in 1..(Len(wire) - 1) : Follows(wire[i + 1], wire[i])

\* A response announced as the last one (Connection: close, or a body that
\* ends with the connection) is the last one: the task writes no part of the
\* response to a later request, and hands the connection to no session.
CloseIsFinal ==
  \A i \in DOMAIN wire :
    wire[i].part \in Starts /\ wire[i].close =>
      /\ \A j \in DOMAIN wire : wire[j].n <= wire[i].n
      /\ permit # "session"

Completed(n) ==
  \E i \in DOMAIN wire :
    wire[i].n = n /\ wire[i].part \in {"full", "end", "head_eof"}

\* A session takes over a connection on which every earlier request was
\* answered in full and nothing was said yet to the upgrade request, whose
\* answer (101 or a refusal) is the session's. (try_handle_upgrade.)
HandOverClean ==
  permit = "session" =>
    /\ \A n \in 1..(served - 1) : Completed(n)
    /\ \A i \in DOMAIN wire : wire[i].n < served

\* The data chunks among the first k events.
DataBefore(k) == Cardinality({i \in 1..k : sent[i] = "data"})
ChunksOf(n) ==
  Cardinality({i \in DOMAIN wire : wire[i].n = n /\ wire[i].part = "chunk"})

\* A streamed body is declared complete (terminator, on_response) only after a
\* producer called finish, and then it holds every chunk sent before that
\* finish; a producer that vanishes without finish leaves a body the client
\* can tell is cut. At no time are there more chunks on the wire than were
\* sent. (StreamingResponse::recv, the loops of write_streaming_response.)
TerminatorTrue ==
  /\ pc \in {"stream", "stream_done"} => ChunksOf(served) <= DataBefore(Len(sent))
  /\ pc = "stream_done" /\ req.kind = "stream" =>
       \E k \in DOMAIN sent :
         /\ sent[k] = "end"
         /\ \A j \in 1..(k - 1) : sent[j] # "end"
         /\ ChunksOf(served) = DataBefore(k)

\* What a client can rely on in the bytes of a connection: responses in order,
\* the last one last, whole bodies marked as whole and only those, and a clean
\* hand-over to a session.
WireInOrder ==
  /\ TypeOK /\ ResponsesInOrder /\ CloseIsFinal /\ HandOverClean
  /\ TerminatorTrue

\* Middlewares see requests and responses strictly in turn, and hear of a
\* response only when it is complete on the wire. Only the last request of a
\* connection may stay without one. (on_request, on_response_with_status.)
ObservedInTurn ==
  \A i \in DOMAIN log :
    /\ log[i] = <<IF i % 2 = 1 THEN "request" ELSE "response", (i + 1) \div 2>>
    /\ log[i][1] = "response" => Completed(log[i][2])

\* What a gate put into the extensions of one request is never seen with
\* another: not with the next one on the connection, not after a rejection.
ExtensionsOfThisRequest == \A e \in ext : e[1] = served

\* What gates and middlewares can rely on: requests and responses in turn, and
\* the extensions of the request at hand.
SeenInTurn == ObservedInTurn /\ ExtensionsOfThisRequest

\* A producer waiting for room in the body channel is not left waiting: room
\* is made, or the receiver goes and its send fails. (BodyWriter::send.)
ProducerReleased ==
  []<>(writers > 0 /\ rxOpen => Len(chan) = 0 \/ pc \in Unbounded)

\* Every connection ends, or waits for something the code puts no bound on.
ConnectionEnds == []<>(pc \in Unbounded \cup {"done"})

\* A connection comes to an end and holds up no producer until then
\* (handle_connection_with_permit, write_streaming_response).
ConnectionSettles == ProducerReleased /\ ConnectionEnds

\* Past its lifetime a connection ends and gives up its permit, given that
\* user code returns. (server-api.md: the total time a connection is held does
\* not exceed max_connection_lifetime.)
LifetimeBoundsConnection == aged ~> (permit # "task")
=============================================================================
