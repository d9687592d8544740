--------------------------- MODULE MCRequestReader ---------------------------
(***************************************************************************)
(* What is read out of a request, each by itself: the request out of the   *)
(* stream, the fields out of a form and the cookies out of the headers;    *)
(* and the framing of a whole stream that the incremental reader is        *)
(* compared with.                                                          *)
(***************************************************************************)
EXTENDS RequestReader, Forms, Cookies

Field(name, value) == <<name, value>>
HeadOf(version, fields) ==
  <<<<"line", <<version>>>>>> \o fields \o TERMINATOR
Text(s) == [i \in 1..Len(s) |-> Byte(s[i])]
Data(n) == [i \in 1..n |-> Byte("x")]
Chunked == Field("transfer-encoding", <<"chunked">>)
CL(digits) == Field("content-length", digits)
Other == Field("other", <<>>)

\* A chunked request with these chunks, and a second request after it.
Second == HeadOf("1.0", <<CL(<<"1">>)>>) \o Data(1)
Encoded(chunks) ==
  HeadOf("1.1", <<Chunked>>)
  \o FlattenSeq([i \in 1..Len(chunks) |-> EncodeChunk(chunks[i])])
  \o EncodeTerminator \o Second
ChunkLists == {<<>>, <<Data(3)>>, <<Data(1), <<>>, Data(2)>>, <<<<>>, Data(2)>>}

\* Streams that follow no encoder: chunk bodies of up to three of these parts.
Parts ==
  {Text(<<"0">>) \o CRLF, Text(<<"1">>) \o CRLF, Text(<<"2", ";">>) \o CRLF,
   Data(1) \o CRLF, Data(2) \o CRLF, CRLF, <<LF>>, Data(1), <<CR>>,
   Text(<<"1", "5">>) \o CRLF, Text(<<"4">>) \o CRLF}
PartWires ==
  {HeadOf("1.1", <<Chunked>>) \o FlattenSeq(s) : s \in UNION {[1..n -> Parts] : n \in 0..3}}

Heads ==
  {HeadOf("1.1", <<>>), HeadOf("1.0", <<>>), HeadOf("2.0", <<>>), <<CR, LF, CR, LF>>,
   HeadOf("1.1", <<Field("connection", <<"close">>)>>),
   HeadOf("1.0", <<Field("connection", <<"keep-alive">>)>>),
   HeadOf("1.0", <<Field("connection", <<"keep-alive", "close">>)>>),
   HeadOf("1.0", <<Chunked>>), HeadOf("1.1", <<Chunked, CL(<<"1">>)>>),
   HeadOf("1.1", <<Chunked, Chunked>>),
   HeadOf("1.1", <<Field("transfer-encoding", <<"gzip", "chunked">>)>>),
   HeadOf("1.1", <<CL(<<"0">>)>>), HeadOf("1.1", <<CL(<<"3">>)>>),
   HeadOf("1.1", <<CL(<<"4">>)>>), HeadOf("1.1", <<CL(<<"2", "1">>)>>),
   HeadOf("1.1", <<CL(<<>>)>>), HeadOf("1.1", <<CL(<<"1">>), CL(<<"1">>)>>),
   HeadOf("1.1", <<CL(<<"1">>), CL(<<"2">>)>>), HeadOf("1.1", <<CL(<<"x">>), CL(<<"1">>)>>),
   HeadOf("1.1", <<Other, CL(<<"2">>)>>), HeadOf("1.1", <<Other, Other, Other>>),
   HeadOf("1.1", <<Byte("x")>>), HeadOf("1.1", <<Other, Other, Byte("x")>>),
   HeadOf("1.1", <<Other, Other, Other, Other>>),
   HeadOf("1.1", <<Other, Other, Other, Other, Other>>), Data(9)}
HeadWires == {h \o Data(n) \o g : h \in Heads, n \in 0..3, g \in {Second, <<>>}}

MCWires ==
  {Encoded(c) : c \in ChunkLists} \cup HeadWires \cup PartWires
  \cup {HeadOf("1.1", <<Chunked>>)
          \o FlattenSeq([i \in 1..n |-> Text(<<"1">>) \o CRLF \o Data(1) \o CRLF])
          \o EncodeTerminator : n \in 2..4}

-----------------------------------------------------------------------------
(* What a stream says when all of it is there. A part of it is [ok, why,   *)
(* body, next]: what it holds and where it ends, or why it has no end:     *)
(* "eof" when more bytes could give it one and "bad" when none can.        *)

Part(b, next) == [ok |-> TRUE, why |-> "", body |-> b, next |-> next]
NoPart(why) == [ok |-> FALSE, why |-> why, body |-> <<>>, next |-> 0]
FirstIn(S) == CHOOSE q \in S : \A r \in S : q <= r

\* A line from p on: at most MaxLineBytes up to its CRLF.
LineAt(w, p) ==
  LET lfs == {q \in p..Len(w) : w[q] = LF}
      q == FirstIn(lfs)
  IN IF lfs # {} /\ q - p <= MaxLineBytes
     THEN IF q > p /\ w[q - 1] = CR THEN Part(SubSeq(w, p, q - 2), q + 1)
          ELSE NoPart("bad")
     ELSE NoPart(IF Len(w) - p + 1 > MaxLineBytes THEN "bad" ELSE "eof")

\* The n-th chunk and those after it, from p on.
RECURSIVE ChunksAt(_, _, _, _)
ChunksAt(w, p, sofar, n) ==
  LET line == LineAt(w, p)
      c == ChunkSize(line.body)
      end == LineAt(w, line.next + c.size)
      data == SubSeq(w, line.next, line.next + c.size - 1)
  IN IF ~line.ok THEN line
     ELSE IF \/ ~c.valid
             \/ n > MaxChunkCount
             \/ c.size > 0 /\ Len(sofar) + c.size > MaxBodyBytes
     THEN NoPart("bad")
     ELSE IF line.next + c.size - 1 > Len(w) THEN NoPart("eof")
     ELSE IF ~end.ok THEN end
     ELSE IF end.body # <<>> THEN NoPart("bad")
     ELSE IF c.size = 0 THEN Part(sofar, end.next)
     ELSE ChunksAt(w, end.next, sofar \o data, n + 1)

\* The body after a head with these fields, from p on.
BodyAt(w, p, version, fields) ==
  LET of(name) == {i \in 1..Len(fields) : fields[i][1] = name}
      te == of("transfer-encoding")
      cl == of("content-length")
      digits == fields[FirstIn(cl)][2]
      n == Number(digits, 10)
  IN IF te = {} /\ cl = {} THEN Part(<<>>, p)
     ELSE IF Cardinality(te) + Cardinality(cl) > 1 THEN NoPart("bad")
     ELSE IF te # {}
     THEN IF version = "1.1" /\ fields[FirstIn(te)][2] = <<"chunked">>
          THEN ChunksAt(w, p, <<>>, 1) ELSE NoPart("bad")
     ELSE IF digits = <<>> \/ ~(ToSet(digits) \subseteq ToSet(DecDigits))
     THEN NoPart("bad")
     ELSE IF n > U64Max \/ n > MaxBodyBytes THEN NoPart("bad")
     ELSE IF p + n - 1 > Len(w) THEN NoPart("eof")
     ELSE Part(SubSeq(w, p, p + n - 1), p + n)

\* The requests from p on, and how the stream ends.
RECURSIVE RequestsAt(_, _)
RequestsAt(w, p) ==
  LET room == (p + MaxHeaderBytes - 4)
      ends == {q \in p..Len(w) - 3 : q <= room /\ SubSeq(w, q, q + 3) = TERMINATOR}
      e == FirstIn(ends)
      wellFormed == /\ e - p \in 1..MaxHeaderCount + 1
                    /\ w[p] \in {<<"line", <<"1.0">>>>, <<"line", <<"1.1">>>>}
                    /\ \A i \in p + 1..e - 1 : w[i][1] \in Fields
      h == [version |-> w[p][2][1], fields |-> SubSeq(w, p + 1, e - 1)]
      b == BodyAt(w, e + 4, h.version, h.fields)
      rest == RequestsAt(w, b.next)
  IN IF p > Len(w) THEN [reqs |-> <<>>, end |-> "open"]
     ELSE IF ends = {}
     THEN [reqs |-> <<>>, end |-> IF Len(w) - p + 1 >= MaxHeaderBytes THEN "bad" ELSE "eof"]
     ELSE IF ~wellFormed THEN [reqs |-> <<>>, end |-> "bad"]
     ELSE IF ~b.ok THEN [reqs |-> <<>>, end |-> b.why]
     ELSE IF ~ShouldKeepAlive(h)
     THEN [reqs |-> <<[head |-> h, body |-> b.body]>>, end |-> "open"]
     ELSE [reqs |-> <<[head |-> h, body |-> b.body]>> \o rest.reqs, end |-> rest.end]

\* Whatever the pieces the socket hands over, read_request_with_limit returns
\* the requests the stream consists of, each with its own bytes as its body,
\* and fails exactly when and as the bytes handed over call for it.
FramedAsSent ==
  LET sent == RequestsAt(SubSeq(wire, 1, got), 1)
  IN /\ IsPrefix(done, sent.reqs)
     /\ pc \in {"failed", "ended"} /\ err # "Io" => done = sent.reqs
     /\ pc = "ended" => sent.end = "open"
     /\ pc = "failed" /\ err = "UnexpectedEof" => sent.end = "eof"
     /\ pc = "failed" /\ err \notin {"Io", "UnexpectedEof"} => sent.end = "bad"

\* What encode_chunk and encode_terminator write for a list of chunks, empty
\* ones among them, ChunkedDecoder reads back as their concatenation.
RoundTrip ==
  \A chunks \in ChunkLists :
    wire = Encoded(chunks) =>
      /\ err \in {"none", "UnexpectedEof", "Io"}
      /\ done # <<>> => done[1].body = FlattenSeq(chunks)
      /\ Len(done) = 2 => done[2].body = Data(1)

\* Streams of this server's encoder and of any other are read as what they say.
ReadAsSent == FramedAsSent /\ RoundTrip

-----------------------------------------------------------------------------
(* Forms: fields of short texts in every spelling, every short body of the *)
(* bytes that matter to the decoder, and bodies at and over the limits.    *)

Texts == {<<>>} \cup {<<b>> : b \in {97, Amp, Percent, Plus, Space, Equals}}
         \cup {<<195, 169>>, <<97, Plus>>, <<Percent, 52>>}
FormFields == Texts \X Texts
MCFmFields ==
  {<<f>> : f \in FormFields}
  \cup {<<f, g>> : f \in FormFields,
          g \in {<<<<>>, <<>>>>, <<<<97>>, <<Equals>>>>, <<<<97>>, <<>>>>}}
  \cup {<<<<<<97>>, <<>>>>, <<<<97>>, <<97>>>>, <<<<>>, <<>>>>>>}
MCFmBodies ==
  UNION {[1..n -> {Percent, 52, 97, 103, Amp, Equals, Plus}] : n \in 0..4}
  \cup UNION {[1..n -> {Percent, 67, 51, 65, 57, 195, 169}] : n \in {2, 4}}
  \cup {<<Percent, 67, 51, Percent, 65, 57>>, <<Percent, 67, 51>>,
        <<Percent, 67, 51, Percent, 52, 49>>, <<195, Percent, 65, 57>>}
  \cup {<<97, Amp, 97, Amp, b>> : b \in {97, Amp, Percent, 195}}
  \cup {[i \in 1..n |-> IF i = 9 THEN b ELSE 97] : n \in {16, 17}, b \in {97, 195, Amp}}

-----------------------------------------------------------------------------
(* Cookies: names with and without the prefixes in either case, values and *)
(* paths with what must not be in them, and every short Cookie header.     *)

MCCkNames == {<<>>, <<"a">>, <<"a", "=">>, <<"a", ";">>, <<"__Host-", "a">>,
              <<"__HOST-">>, <<"__Secure-", "a">>, <<"__secure-", "a">>}
MCCkValues == {<<>>, <<"b">>, <<"=", "b", "=">>, <<"b", ";">>, <<"quote", "b", "quote">>}
MCCkPaths == {<<>>, <<"/">>, <<"/", "p">>, <<"p">>, <<"/", ";", "Secure">>,
              <<"/", "=", ",">>, <<"/", "ctl">>}
MCCkRequests ==
  {<<>>}
  \cup {<<h>> : h \in UNION {[1..n -> {"a", "=", ";", " ", "quote", ","}] : n \in 0..5}}
  \cup {<<g, h>> : g, h \in UNION {[1..n -> {"a", "=", ";", " "}] : n \in 0..3}}

-----------------------------------------------------------------------------
VARIABLE part  \* which of the three runs

MCInit ==
  /\ part \in {"reader", "forms", "cookies"}
  /\ part # "reader" => wire = HeadOf("1.1", <<>>)
  /\ part # "forms" => fmSent = <<>> /\ fmBody = <<>>
  /\ Init /\ FormsInit /\ CookiesInit

MCNext ==
  /\ UNCHANGED part
  /\ \/ part = "reader" /\ Next /\ UNCHANGED <<fmVars, ckVars>>
     \/ part = "forms" /\ FormsNext /\ UNCHANGED <<vars, ckVars>>
     \/ part = "cookies" /\ CookiesNext /\ UNCHANGED <<vars, fmVars>>

MCSpec == MCInit /\ [][MCNext]_<<vars, fmVars, ckVars, part>>
=============================================================================
