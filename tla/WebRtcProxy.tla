----------------------------- MODULE WebRtcProxy -----------------------------
(***************************************************************************)
(* The WebRTC signaling proxy (plugin-webrtc-proxy/src/handler.rs,         *)
(* client.rs): an offer is checked, forwarded to the upstream server over  *)
(* a connection of its own, and answered with what the upstream sends, in  *)
(* pieces of any size, before one of two timeouts.                         *)
(*                                                                         *)
(* Bytes are counted. An upstream response is the length of its head, what *)
(* the head says, the number of bytes that follow it, and whether the      *)
(* upstream then closes the connection or goes silent.                     *)
(***************************************************************************)
EXTENDS Integers, Sequences, FiniteSets

CONSTANTS
  ProxyOffers,    \* requests: [offer, declared, len]
  Upstreams,      \* responses: [head, utf8, http1, status, fields, body, closes]
  MaxOffer,       \* max_offer_bytes
  MaxAnswer,      \* max_answer_bytes
  HeadLimit,      \* RESPONSE_HEAD_LIMIT
  ReadChunk,      \* READ_CHUNK_BYTES
  ConnectTimeout, \* connect_timeout, in ticks
  RequestTimeout  \* request_timeout, in ticks

ASSUME ProxyAssumption ==
  /\ ProxyOffers \subseteq [offer : BOOLEAN, declared : Int, len : Nat]
  /\ Upstreams \subseteq
       [head : Nat, utf8 : BOOLEAN, http1 : BOOLEAN, status : Int,
        fields : Seq(STRING \X Int), body : Nat, closes : BOOLEAN]
  /\ MaxOffer \in Nat /\ MaxAnswer \in Nat /\ HeadLimit \in Nat
  /\ ReadChunk \in Nat \ {0} /\ ConnectTimeout \in Nat /\ RequestTimeout \in Nat

VARIABLES
  pxPc,       \* "idle", "connecting", "writing", "head", "body" or "done"
  pxOffer,    \* the request, <<>> before it arrives
  pxUpstream, \* the response the upstream will send
  pxClock,    \* ticks since the running timeout was set
  pxRead,     \* bytes read from the upstream
  pxLength,   \* the content-length of its head, once parsed
  pxStatus,   \* the status of the answer, 0 before; -1 for None
  pxBody,     \* the length of the answer's body
  pxFault     \* history: the network failed

pxVars == <<pxPc, pxOffer, pxUpstream, pxClock, pxRead, pxLength, pxStatus, pxBody, pxFault>>

Done(status, body) ==
  /\ pxPc' = "done" /\ pxStatus' = status /\ pxBody' = body
  /\ UNCHANGED <<pxOffer, pxUpstream, pxClock, pxRead, pxLength>>

\* Mutation of PostOffer: an offer at the limit is too large.
OfferOffByOne(o) ==
  /\ pxPc = "idle"
  /\ pxOffer' = o
  /\ LET status == IF ~o.offer THEN -1
                   ELSE IF o.declared # o.len THEN 400
                   ELSE IF o.len >= MaxOffer THEN 413
                   ELSE 0
     IN /\ pxStatus' = status
        /\ pxPc' = IF status = 0 THEN "connecting" ELSE "done"
  /\ UNCHANGED <<pxUpstream, pxClock, pxRead, pxLength, pxBody, pxFault>>
\* try_handle_rtc_offer up to the call of forward_offer. `declared` is -1
\* when there is no content-length that is a number.
PostOffer(o) ==
  /\ pxPc = "idle"
  /\ pxOffer' = o
  /\ LET status == IF ~o.offer THEN -1
                   ELSE IF o.declared # o.len THEN 400
                   ELSE IF o.len > MaxOffer THEN 413
                   ELSE 0
     IN /\ pxStatus' = status
        /\ pxPc' = IF status = 0 THEN "connecting" ELSE "done"
  /\ UNCHANGED <<pxUpstream, pxClock, pxRead, pxLength, pxBody, pxFault>>

\* TcpStream::connect succeeds; the second timeout starts.
Connected ==
  /\ pxPc = "connecting"
  /\ pxPc' = "writing" /\ pxClock' = 0
  /\ UNCHANGED <<pxOffer, pxUpstream, pxRead, pxLength, pxStatus, pxBody, pxFault>>

\* write_request is done.
Written ==
  /\ pxPc = "writing"
  /\ pxPc' = "head"
  /\ UNCHANGED <<pxOffer, pxUpstream, pxClock, pxRead, pxLength, pxStatus, pxBody, pxFault>>

\* Mutation of ParsedLength: of several lengths the last one counts.
LastLength(up) ==
  LET lengths == {i \in DOMAIN up.fields : up.fields[i][1] = "content-length"}
  IN IF ~up.utf8 \/ ~up.http1 \/ up.status < 0 \/ lengths = {}
        \/ \E i \in DOMAIN up.fields : up.fields[i][1] = "no colon"
     THEN -1
     ELSE up.fields[CHOOSE i \in lengths : \A j \in lengths : j <= i][2]
\* parse_response_head: the content-length, -1 for an error. A field's value
\* is -1 when it is no number.
ParsedLength(up) ==
  LET lengths == {i \in DOMAIN up.fields : up.fields[i][1] = "content-length"}
  IN IF ~up.utf8 \/ ~up.http1 \/ up.status < 0 \/ Cardinality(lengths) # 1
        \/ \E i \in DOMAIN up.fields : up.fields[i][1] = "no colon"
     THEN -1
     ELSE up.fields[CHOOSE i \in lengths : TRUE][2]

HeadComplete == pxRead >= pxUpstream.head

\* The head is there: it is parsed and its status and length are looked at.
ParseHead ==
  /\ pxPc = "head" /\ HeadComplete
  /\ IF \/ ParsedLength(pxUpstream) < 0
        \/ pxUpstream.status \notin 200..299
        \/ ParsedLength(pxUpstream) > MaxAnswer
     THEN Done(502, 0)
     ELSE /\ pxPc' = "body"
          /\ pxLength' = ParsedLength(pxUpstream)
          /\ UNCHANGED <<pxOffer, pxUpstream, pxClock, pxRead, pxStatus, pxBody>>
  /\ UNCHANGED pxFault

\* The head has no end within RESPONSE_HEAD_LIMIT.
HeadTooLong ==
  /\ pxPc = "head" /\ ~HeadComplete /\ pxRead >= HeadLimit
  /\ Done(502, 0) /\ UNCHANGED pxFault

InBody == pxRead - pxUpstream.head

\* Mutation of BodyComplete: what was read is what is answered.
WholeBuffer ==
  /\ pxPc = "body" /\ InBody >= pxLength
  /\ Done(200, InBody) /\ UNCHANGED pxFault
\* The body is there; what was read past its end is cut off.
BodyComplete ==
  /\ pxPc = "body" /\ InBody >= pxLength
  /\ Done(200, pxLength) /\ UNCHANGED pxFault

Wanting ==
  \/ pxPc = "head" /\ ~HeadComplete /\ pxRead < HeadLimit
  \/ pxPc = "body" /\ InBody < pxLength

Available == pxUpstream.head + pxUpstream.body - pxRead

\* One read: some bytes, and at the end of the stream an error.
ReadSome(n) ==
  /\ Wanting /\ n <= Available
  /\ pxRead' = pxRead + n
  /\ UNCHANGED <<pxPc, pxOffer, pxUpstream, pxClock, pxLength, pxStatus, pxBody, pxFault>>

\* Mutation of ReadEnd: the end of the stream ends the body.
EndIsEnough ==
  /\ Wanting /\ Available = 0 /\ pxUpstream.closes
  /\ IF pxPc = "body" THEN Done(200, InBody) ELSE Done(502, 0)
  /\ UNCHANGED pxFault
ReadEnd ==
  /\ Wanting /\ Available = 0 /\ pxUpstream.closes
  /\ Done(502, 0) /\ UNCHANGED pxFault

\* Connecting, writing or reading fails: UpstreamConnect, Io.
NetworkFails ==
  /\ pxPc \in {"connecting", "writing"} \/ Wanting
  /\ Done(502, 0) /\ pxFault' = TRUE

Limit == IF pxPc = "connecting" THEN ConnectTimeout ELSE RequestTimeout

\* Time passes; the timers of both timeouts are bounded by Limit.
Tick ==
  /\ pxPc \notin {"idle", "done"} /\ pxClock < Limit
  /\ pxClock' = pxClock + 1
  /\ UNCHANGED <<pxPc, pxOffer, pxUpstream, pxRead, pxLength, pxStatus, pxBody, pxFault>>

\* Mutation of TimedOut: only the connection attempt is timed.
OnlyConnectTimed ==
  /\ pxPc = "connecting" /\ pxClock = Limit
  /\ Done(504, 0) /\ UNCHANGED pxFault
\* tokio::time::timeout: it fires where the exchange has to wait.
TimedOut ==
  /\ pxPc \in {"connecting", "writing"} \/ Wanting
  /\ pxClock = Limit
  /\ Done(504, 0) /\ UNCHANGED pxFault

ProxyTask == ParseHead \/ HeadTooLong \/ BodyComplete \/ ReadEnd \/ TimedOut

ProxyInit ==
  /\ pxPc = "idle" /\ pxOffer = <<>> /\ pxUpstream \in Upstreams
  /\ pxClock = 0 /\ pxRead = 0 /\ pxLength = 0 /\ pxStatus = 0 /\ pxBody = 0
  /\ pxFault = FALSE

ProxyNext ==
  \/ \E o \in ProxyOffers : PostOffer(o)
  \/ Connected \/ Written \/ NetworkFails \/ Tick \/ ProxyTask
  \/ \E n \in 1..ReadChunk : ReadSome(n)

ProxySpec == ProxyInit /\ [][ProxyNext]_pxVars

\* The task is polled when it can go on, and the clock of its timeouts runs.
ProxyFairness == WF_pxVars(ProxyTask) /\ WF_pxVars(Tick)

-----------------------------------------------------------------------------
(* Properties.                                                             *)

\* An upstream response that is to be passed on: one head within the limit,
\* of HTTP/1, with a status of success and one content-length, and a body
\* that is as long as that and not longer than max_answer_bytes.
GoodUpstream ==
  LET fields == pxUpstream.fields
  IN /\ pxUpstream.utf8 /\ pxUpstream.http1 /\ pxUpstream.status \in 200..299
     /\ \A i \in DOMAIN fields : fields[i][1] # "no colon"
     /\ \E i \in DOMAIN fields :
          /\ \A j \in DOMAIN fields : fields[j][1] = "content-length" <=> j = i
          /\ fields[i][2] \in 0..MaxAnswer /\ pxUpstream.body >= fields[i][2]

\* An offer is answered 200 only with the whole answer of a sound upstream
\* response and not a byte more, however the response was cut into reads and
\* whatever followed it; it fails with 502 only for a fault of the upstream or
\* the network; and it is refused unseen exactly when it is malformed or
\* larger than max_offer_bytes (try_handle_rtc_offer, forward_offer,
\* read_response_body).
ProxyFaithful ==
  pxPc = "done" =>
    /\ pxStatus = 200 => GoodUpstream /\ pxBody = ParsedLength(pxUpstream)
                         /\ pxUpstream.head < HeadLimit + ReadChunk
    /\ pxStatus = 502 => pxFault \/ ~GoodUpstream \/ pxUpstream.head > HeadLimit
    /\ pxStatus = 413 <=> (pxOffer.offer /\ pxOffer.declared = pxOffer.len
                         /\ pxOffer.len > MaxOffer)
    /\ pxStatus = 400 <=> (pxOffer.offer /\ pxOffer.declared # pxOffer.len)

\* Every offer is answered in the end, also when the upstream accepts the
\* connection and then says nothing (the two timeouts of forward_offer).
ProxyAnswers == []<>(pxPc \in {"idle", "done"})
=============================================================================
