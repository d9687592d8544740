---------------------------- MODULE RequestReader ----------------------------
(***************************************************************************)
(* read_request_with_limit of crates/http (connection.rs) on one           *)
(* connection: the receive buffer (buffer.rs), the head (request.rs), the  *)
(* framing of the body (body.rs) and the chunked decoder (chunked.rs),     *)
(* while the socket hands over the bytes in pieces of any size.            *)
(* A byte is a pair: a plain byte is <<c, <<>>>>; a request line and a     *)
(* header field, with the CRLF before it, are one byte each that carries   *)
(* the version or the value, a sequence of tokens.                         *)
(***************************************************************************)
EXTENDS Integers, Sequences, FiniteSets, SequencesExt

CONSTANTS
  Wires,          \* what a peer may send, sequences of bytes
  MaxHeaderBytes, \* MAX_HEADER_BYTES
  MaxHeaderCount, \* MAX_HEADER_COUNT
  MaxBodyBytes,   \* max_body_bytes
  MaxChunkCount,  \* MAX_CHUNK_COUNT
  MaxLineBytes,   \* MAX_CHUNK_LINE_BYTES
  ReadChunkBytes, \* READ_CHUNK_BYTES
  MaxRetained,    \* MAX_RETAINED_CAPACITY
  MinCapacity,    \* first capacity a Vec<u8> allocates
  U64Max          \* u64::MAX

ASSUME ReaderAssumption ==
  /\ \A w \in Wires : w \in Seq(STRING \X Seq(STRING))
  /\ MaxHeaderBytes \in Nat \ {0} /\ MaxHeaderCount \in Nat
  /\ MaxBodyBytes \in Nat /\ MaxChunkCount \in Nat /\ MaxLineBytes \in Nat
  /\ ReadChunkBytes \in Nat \ {0} /\ MaxRetained \in Nat
  /\ MinCapacity \in Nat /\ U64Max \in Nat

VARIABLES
  wire,     \* what the peer sends
  got,      \* bytes of it handed over by the socket
  buf,      \* RecvBuffer::buf
  pos,      \* RecvBuffer::pos
  cap,      \* capacity of buf
  pc,       \* where read_request_with_limit stands
  head,     \* the head of the request that is being read
  need,     \* its Content-Length
  dec,      \* the ChunkedDecoder
  at,       \* pos of ChunkedDecoder::decode
  body,     \* the decoded body
  done,     \* requests returned, [head, body]
  err,      \* the error returned, or "none"
  used      \* history: bytes of the stream given out of the buffer

bufVars == <<buf, pos, cap>>
vars == <<wire, got, buf, pos, cap, pc, head, need, dec, at, body, done, err,
          used>>

Byte(c) == <<c, <<>>>>
CR == Byte("CR")
LF == Byte("LF")
CRLF == <<CR, LF>>
TERMINATOR == CRLF \o CRLF
Larger(a, b) == IF a > b THEN a ELSE b

-----------------------------------------------------------------------------
(* The head.                                                               *)

Fields == {"content-length", "transfer-encoding", "connection", "other"}
NoHead == [version |-> "1.1", fields |-> <<>>]
ValuesOf(h, name) == SelectSeq(h.fields, LAMBDA f : f[1] = name)

Ends(b) == {q \in 1..Len(b) - 3 : SubSeq(b, q, q + 3) = TERMINATOR}

\* parse_request_line and parse_header_line on the lines of the section.
SectionError(s) ==
  IF s = <<>> THEN "InvalidRequestLine"
  ELSE IF s[1][1] # "line" THEN "InvalidRequestLine"
  ELSE IF s[1][2] \notin {<<"1.0">>, <<"1.1">>} THEN "UnsupportedVersion"
  ELSE IF \E i \in 2..Len(s) : i <= MaxHeaderCount + 1 /\ s[i][1] \notin Fields
  THEN "InvalidHeader"
  ELSE IF Len(s) > MaxHeaderCount + 1 THEN "TooManyHeaders"
  ELSE "none"

\* parse_request_head.
Parse(b) ==
  LET end == CHOOSE q \in Ends(b) : \A r \in Ends(b) : q <= r
      s == SubSeq(b, 1, end - 1)
  IN IF Ends(b) = {}
     THEN [kind |-> IF Len(b) >= MaxHeaderBytes THEN "HeaderSectionTooLarge"
                    ELSE "Incomplete", head |-> NoHead, used |-> 0]
     ELSE IF end + 3 > MaxHeaderBytes
     THEN [kind |-> "HeaderSectionTooLarge", head |-> NoHead, used |-> 0]
     ELSE IF SectionError(s) # "none"
     THEN [kind |-> SectionError(s), head |-> NoHead, used |-> 0]
     ELSE [kind |-> "Complete", used |-> end + 3,
           head |-> [version |-> s[1][2][1], fields |-> Tail(s)]]

\* should_keep_alive.
ShouldKeepAlive(h) ==
  LET tokens == UNION {ToSet(f[2]) : f \in ToSet(ValuesOf(h, "connection"))}
  IN /\ "close" \notin tokens
     /\ h.version = "1.0" => "keep-alive" \in tokens

-----------------------------------------------------------------------------
(* The framing of the body.                                                *)

HexDigits == <<"0", "1", "2", "3", "4", "5", "6", "7", "8", "9", "a", "b", "c",
               "d", "e", "f">>
DecDigits == SubSeq(HexDigits, 1, 10)
Number(digits, base) ==
  FoldLeft(LAMBDA n, c :
             n * base + (CHOOSE i \in 0..base - 1 : HexDigits[i + 1] = c),
           0, digits)

\* parse_content_length.
ContentLength(v) ==
  IF v = <<>> \/ ~(ToSet(v) \subseteq ToSet(DecDigits)) THEN "Invalid"
  ELSE IF Number(v, 10) > U64Max THEN "Invalid" ELSE "Valid"

\* body_length_with_limit.
BodyLength(h) ==
  LET te == ValuesOf(h, "transfer-encoding")
      cl == ValuesOf(h, "content-length")
      n == Number(cl[1][2], 10)
  IN IF te # <<>>
     THEN [kind |-> IF h.version = "1.1" /\ Len(te) = 1 /\ te[1][2] = <<"chunked">>
                    THEN IF cl # <<>> THEN "ContentLengthWithChunked"
                         ELSE "Chunked"
                    ELSE "TransferEncodingUnsupported", n |-> 0]
     ELSE IF cl = <<>> THEN [kind |-> "None", n |-> 0]
     ELSE IF ContentLength(cl[1][2]) = "Invalid"
     THEN [kind |-> "InvalidContentLength", n |-> 0]
     ELSE IF Len(cl) > 1 THEN [kind |-> "DuplicateContentLength", n |-> 0]
     ELSE IF n = 0 THEN [kind |-> "None", n |-> 0]
     ELSE IF n > MaxBodyBytes THEN [kind |-> "BodyTooLarge", n |-> 0]
     ELSE [kind |-> "Fixed", n |-> n]

-----------------------------------------------------------------------------
(* The chunked coding.                                                     *)

NewDecoder == [state |-> "ChunkSizeLine", remaining |-> 0, line |-> <<>>,
               total |-> 0, count |-> 0]

\* Mutation of TakeLine: the part of a line that was read before is forgotten.
TakeLineAnew(line, input) ==
  LET lf == {q \in 1..Len(input) : input[q] = LF}
      upto == IF lf = {} THEN Len(input)
              ELSE (CHOOSE q \in lf : \A r \in lf : q <= r) - 1
      new == SubSeq(input, 1, upto)
  IN IF Len(new) > MaxLineBytes
     THEN [kind |-> "ChunkLineTooLong", line |-> new, used |-> 0]
     ELSE IF lf = {} THEN [kind |-> "None", line |-> new, used |-> upto]
     ELSE IF new = <<>> \/ new[Len(new)] # CR
     THEN [kind |-> "InvalidLineTerminator", line |-> new, used |-> 0]
     ELSE [kind |-> "Some", line |-> Front(new), used |-> upto + 1]

\* take_line: line is line_buf.
TakeLine(line, input) ==
  LET lf == {q \in 1..Len(input) : input[q] = LF}
      upto == IF lf = {} THEN Len(input)
              ELSE (CHOOSE q \in lf : \A r \in lf : q <= r) - 1
      new == line \o SubSeq(input, 1, upto)
  IN IF Len(new) > MaxLineBytes
     THEN [kind |-> "ChunkLineTooLong", line |-> new, used |-> 0]
     ELSE IF lf = {} THEN [kind |-> "None", line |-> new, used |-> upto]
     ELSE IF new = <<>> \/ new[Len(new)] # CR
     THEN [kind |-> "InvalidLineTerminator", line |-> new, used |-> 0]
     ELSE [kind |-> "Some", line |-> Front(new), used |-> upto + 1]

\* parse_chunk_size: the digits before an extension.
ChunkSize(line) ==
  LET semi == {i \in 1..Len(line) : line[i] = Byte(";")}
      upto == IF semi = {} THEN Len(line)
              ELSE (CHOOSE i \in semi : \A j \in semi : i <= j) - 1
      digits == [i \in 1..upto |-> line[i][1]]
      valid == /\ upto > 0
               /\ \A i \in 1..upto : line[i] \in {Byte(c) : c \in ToSet(HexDigits)}
               /\ Number(digits, 16) <= U64Max
  IN [valid |-> valid, size |-> IF valid THEN Number(digits, 16) ELSE 0]

\* Mutation of EncodeChunk: no data is a chunk as well.
EncodeEmptyChunk(data) ==
  LET n == Len(data)
      k == CHOOSE k \in 1..n + 1 : 16^k > n /\ (k > 1 => 16^(k - 1) <= n)
      hex == [i \in 1..k |-> Byte(HexDigits[((n \div 16^(k - i)) % 16) + 1])]
  IN hex \o CRLF \o data \o CRLF

\* encode_chunk.
EncodeChunk(data) ==
  LET n == Len(data)
      k == CHOOSE k \in 1..n + 1 : 16^k > n /\ (k > 1 => 16^(k - 1) <= n)
      hex == [i \in 1..k |-> Byte(HexDigits[((n \div 16^(k - i)) % 16) + 1])]
  IN IF data = <<>> THEN <<>> ELSE hex \o CRLF \o data \o CRLF

\* encode_terminator.
EncodeTerminator == <<Byte("0")>> \o CRLF \o CRLF

-----------------------------------------------------------------------------
(* The receive buffer.                                                     *)

Unread == SubSeq(buf, pos + 1, Len(buf))

\* Mutation of Reserve: room is added whether or not there is some.
ReserveAnew(len) == Larger(cap + len + ReadChunkBytes, MinCapacity)

\* Vec::reserve(ReadChunkBytes) with len bytes in use.
Reserve(len) ==
  IF cap - len >= ReadChunkBytes THEN cap
  ELSE Larger(Larger(2 * cap, len + ReadChunkBytes), MinCapacity)

\* read_chunk after reserve_for_read: n bytes arrive, n = 0 at the end of the
\* stream. read_buf fills whatever room there is.
ReadChunk(n) ==
  /\ n <= Reserve(Len(Unread)) - Len(Unread)
  /\ n <= Len(wire) - got
  /\ buf' = Unread \o SubSeq(wire, got + 1, got + n)
  /\ pos' = 0
  /\ cap' = Reserve(Len(Unread))
  /\ got' = got + n

Fail(e) ==
  /\ pc' = "failed"
  /\ err' = e

\* Mutation of Return: the buffer is emptied, not compacted.
ReturnClearing(b, nbuf, npos, ncap) ==
  /\ buf' = IF ncap <= MaxRetained THEN nbuf ELSE <<>>
  /\ pos' = IF ncap <= MaxRetained THEN npos ELSE 0
  /\ cap' = IF ncap <= MaxRetained THEN ncap ELSE MaxRetained
  /\ done' = Append(done, [head |-> head', body |-> b])
  /\ pc' = "served"

\* The end of read_request_with_limit: shrink_if_oversized on the buffer
\* [nbuf, npos, ncap], and the request is returned.
Return(b, nbuf, npos, ncap) ==
  LET rest == SubSeq(nbuf, npos + 1, Len(nbuf))
      keep == ncap <= MaxRetained
  IN /\ buf' = IF keep THEN nbuf ELSE rest
     /\ pos' = IF keep THEN npos ELSE 0
     /\ cap' = IF keep THEN ncap ELSE Larger(MaxRetained, Len(rest))
     /\ done' = Append(done, [head |-> head', body |-> b])
     /\ pc' = "served"

-----------------------------------------------------------------------------
(* Reading a request.                                                      *)

Init ==
  /\ wire \in Wires
  /\ got = 0 /\ used = 0
  /\ buf = <<>> /\ pos = 0 /\ cap = 0
  /\ pc = "head"
  /\ head = NoHead /\ need = 0
  /\ dec = NewDecoder /\ at = 0 /\ body = <<>>
  /\ done = <<>>
  /\ err = "none"

\* read_head finds a head, or that there is none, and the framing is chosen.
ReadHead ==
  LET p == Parse(Unread)
      len == BodyLength(p.head)
  IN /\ pc = "head"
     /\ p.kind # "Incomplete"
     /\ \/ /\ p.kind # "Complete"
           /\ Fail(p.kind)
           /\ UNCHANGED <<buf, pos, cap, head, need, dec, at, body, done, used>>
        \/ /\ p.kind = "Complete"
           /\ head' = p.head
           /\ used' = used + p.used
           /\ \/ /\ len.kind = "None"
                 /\ Return(<<>>, buf, pos + p.used, cap)
                 /\ UNCHANGED <<need, dec, at, body, err>>
              \/ /\ len.kind \in {"Fixed", "Chunked"}
                 /\ pc' = IF len.kind = "Fixed" THEN "body" ELSE "decode"
                 /\ need' = len.n
                 /\ dec' = NewDecoder /\ at' = 0 /\ body' = <<>>
                 /\ pos' = pos + p.used
                 /\ UNCHANGED <<buf, cap, done, err>>
              \/ /\ len.kind \notin {"None", "Fixed", "Chunked"}
                 /\ Fail(len.kind)
                 /\ pos' = pos + p.used
                 /\ UNCHANGED <<buf, cap, need, dec, at, body, done>>
     /\ UNCHANGED <<wire, got>>

\* read_head reads on.
HeadMore ==
  /\ pc = "head"
  /\ Parse(Unread).kind = "Incomplete"
  /\ \E n \in 0..Len(wire) :
       /\ ReadChunk(n)
       /\ \/ n > 0 /\ UNCHANGED <<pc, err>>
          \/ n = 0 /\ Unread = <<>> /\ pc' = "ended" /\ UNCHANGED err
          \/ n = 0 /\ Unread # <<>> /\ Fail("UnexpectedEof")
  /\ UNCHANGED <<wire, head, need, dec, at, body, done, used>>

\* read_body has all it needs: take_exact, or a copy.
ReadBody ==
  /\ pc = "body"
  /\ Len(Unread) >= need
  /\ head' = head
  /\ IF pos = 0 /\ Len(buf) = need
     THEN Return(buf, <<>>, 0, 0)
     ELSE Return(SubSeq(Unread, 1, need), buf, pos + need, cap)
  /\ used' = used + need
  /\ UNCHANGED <<wire, got, need, dec, at, body, err>>

\* read_body reads on.
BodyMore ==
  /\ pc = "body"
  /\ Len(Unread) < need
  /\ \E n \in 0..Len(wire) :
       /\ ReadChunk(n)
       /\ \/ n > 0 /\ UNCHANGED <<pc, err>>
          \/ n = 0 /\ Fail("UnexpectedEof")
  /\ UNCHANGED <<wire, head, need, dec, at, body, done, used>>

-----------------------------------------------------------------------------
(* read_body_chunked: one step per turn of ChunkedDecoder::decode.         *)

Rest == SubSeq(Unread, at + 1, Len(Unread))

\* Mutation of Incomplete: the bytes of the turns before are consumed twice.
IncompleteTwice(d, n) ==
  /\ dec' = d
  /\ pos' = pos + at + at + n
  /\ used' = used + at + n
  /\ at' = 0
  /\ pc' = "more"
  /\ UNCHANGED err

\* decode returns Incomplete, with the decoder as d; read_body_chunked
\* consumes what was decoded and will read on.
Incomplete(d, n) ==
  /\ dec' = d
  /\ pos' = pos + at + n
  /\ used' = used + at + n
  /\ at' = 0
  /\ pc' = "more"
  /\ UNCHANGED err

\* decode goes on with the decoder as d.
Onward(d, n) ==
  /\ dec' = d
  /\ at' = at + n
  /\ UNCHANGED <<pos, pc, err, used>>

DecodeError(e) ==
  /\ Fail(e)
  /\ UNCHANGED <<dec, at, pos, used>>

readerVars == <<wire, got, head, need>>

\* Mutation of SizeError: the chunks read before do not count.
SizeErrorAlone(c) ==
  IF ~c.valid THEN "InvalidChunkSize"
  ELSE IF dec.count + 1 > MaxChunkCount THEN "TooManyChunks"
  ELSE IF c.size > MaxBodyBytes THEN "BodyTooLarge"
  ELSE "none"

\* The checks on a chunk whose size line was read.
SizeError(c) ==
  IF ~c.valid THEN "InvalidChunkSize"
  ELSE IF dec.count + 1 > MaxChunkCount THEN "TooManyChunks"
  ELSE IF c.size = 0 THEN "none"
  ELSE IF dec.total + c.size > U64Max THEN "BodyTooLarge"
  ELSE IF dec.total + c.size > MaxBodyBytes THEN "BodyTooLarge"
  ELSE "none"

DecodeSizeLine ==
  LET t == TakeLine(dec.line, Rest)
      c == ChunkSize(t.line)
  IN /\ pc = "decode" /\ dec.state = "ChunkSizeLine"
     /\ \/ t.kind = "None" /\ Incomplete([dec EXCEPT !.line = t.line], t.used)
        \/ t.kind \notin {"None", "Some"} /\ DecodeError(t.kind)
        \/ /\ t.kind = "Some" /\ SizeError(c) # "none"
           /\ DecodeError(SizeError(c))
        \/ /\ t.kind = "Some" /\ SizeError(c) = "none"
           /\ Onward([dec EXCEPT
                        !.line = <<>>, !.count = @ + 1, !.remaining = c.size,
                        !.state = IF c.size = 0 THEN "TrailerLine"
                                  ELSE "ChunkData"], t.used)
     /\ UNCHANGED <<buf, cap, body, done, readerVars>>

DecodeData ==
  LET take == IF Len(Rest) < dec.remaining THEN Len(Rest) ELSE dec.remaining
      d == [dec EXCEPT !.total = @ + take, !.remaining = @ - take]
  IN /\ pc = "decode" /\ dec.state = "ChunkData"
     /\ body' = body \o SubSeq(Rest, 1, take)
     /\ \/ take = dec.remaining
           /\ Onward([d EXCEPT !.state = "ChunkDataCrlf"], take)
        \/ take < dec.remaining /\ Incomplete(d, take)
     /\ UNCHANGED <<buf, cap, done, readerVars>>

DecodeDataCrlf ==
  LET t == TakeLine(dec.line, Rest)
  IN /\ pc = "decode" /\ dec.state = "ChunkDataCrlf"
     /\ \/ t.kind = "None" /\ Incomplete([dec EXCEPT !.line = t.line], t.used)
        \/ t.kind \notin {"None", "Some"} /\ DecodeError(t.kind)
        \/ /\ t.kind = "Some" /\ t.line # <<>>
           /\ DecodeError("InvalidLineTerminator")
        \/ /\ t.kind = "Some" /\ t.line = <<>>
           /\ Onward([dec EXCEPT !.line = <<>>, !.state = "ChunkSizeLine"], t.used)
     /\ UNCHANGED <<buf, cap, body, done, readerVars>>

DecodeTrailer ==
  LET t == TakeLine(dec.line, Rest)
  IN /\ pc = "decode" /\ dec.state = "TrailerLine"
     /\ \/ /\ t.kind = "None" /\ Incomplete([dec EXCEPT !.line = t.line], t.used)
           /\ UNCHANGED <<buf, cap, body, done, head>>
        \/ /\ t.kind \notin {"None", "Some"} /\ DecodeError(t.kind)
           /\ UNCHANGED <<buf, cap, body, done, head>>
        \/ /\ t.kind = "Some" /\ t.line # <<>>
           /\ DecodeError("TrailerUnsupported")
           /\ UNCHANGED <<buf, cap, body, done, head>>
        \/ /\ t.kind = "Some" /\ t.line = <<>>
           /\ head' = head
           /\ Return(body, buf, pos + at + t.used, cap)
           /\ dec' = [dec EXCEPT !.line = <<>>, !.state = "Done"]
           /\ at' = 0
           /\ used' = used + at + t.used
           /\ UNCHANGED <<body, err>>
     /\ UNCHANGED <<wire, got, need>>

\* read_body_chunked reads on.
ChunkedMore ==
  /\ pc = "more"
  /\ \E n \in 0..Len(wire) :
       /\ ReadChunk(n)
       /\ \/ n > 0 /\ pc' = "decode" /\ UNCHANGED err
          \/ n = 0 /\ Fail("UnexpectedEof")
  /\ UNCHANGED <<wire, head, need, dec, at, body, done, used>>

\* The connection reads the next request, unless this one was the last.
ServeNext ==
  /\ pc = "served"
  /\ pc' = IF ShouldKeepAlive(head) THEN "head" ELSE "ended"
  /\ UNCHANGED <<wire, got, buf, pos, cap, head, need, dec, at, body, done, err,
                 used>>

\* A read fails.
ReadFails ==
  /\ \/ pc = "head" /\ Parse(Unread).kind = "Incomplete"
     \/ pc = "body" /\ Len(Unread) < need
     \/ pc = "more"
  /\ Fail("Io")
  /\ buf' = Unread
  /\ pos' = 0
  /\ cap' = Reserve(Len(Unread))
  /\ UNCHANGED <<wire, got, head, need, dec, at, body, done, used>>

Next ==
  \/ ReadHead \/ HeadMore
  \/ ReadBody \/ BodyMore
  \/ DecodeSizeLine \/ DecodeData \/ DecodeDataCrlf \/ DecodeTrailer
  \/ ChunkedMore \/ ReadFails
  \/ ServeNext

Spec == Init /\ [][Next]_vars

-----------------------------------------------------------------------------
(* Properties.                                                             *)

Errors == {"InvalidRequestLine", "UnsupportedVersion", "InvalidHeader",
           "TooManyHeaders", "HeaderSectionTooLarge",
           "TransferEncodingUnsupported", "ContentLengthWithChunked",
           "DuplicateContentLength", "InvalidContentLength", "BodyTooLarge",
           "InvalidChunkSize", "ChunkLineTooLong", "TooManyChunks",
           "TrailerUnsupported", "InvalidLineTerminator", "UnexpectedEof", "Io"}

\* The variables have their types; the cursors stay inside the buffer, which
\* is the condition RecvBuffer::consume asserts.
TypeOK ==
  /\ got \in 0..Len(wire)
  /\ pos \in 0..Len(buf) /\ cap \in Nat
  /\ at \in 0..Len(Unread)
  /\ pc \in {"head", "body", "decode", "more", "served", "ended", "failed"}
  /\ head.version \in {"1.0", "1.1"} /\ need \in 0..MaxBodyBytes
  /\ dec.state \in {"ChunkSizeLine", "ChunkData", "ChunkDataCrlf", "TrailerLine",
                    "Done"}
  /\ dec.remaining \in 0..MaxBodyBytes /\ dec.count \in 0..MaxChunkCount
  /\ err \in Errors \cup {"none"} /\ (pc = "failed" <=> err # "none")

\* The buffer holds exactly what the socket handed over and no request has
\* been given: compaction, take_exact and shrink_if_oversized lose no byte of
\* the next request and repeat none.
NothingLost == Unread = SubSeq(wire, used + 1, got)

\* The decoder counts what it has put out, and what it has put out and still
\* expects of a chunk never passes max_body_bytes, nor a line its limit.
BodyBounded ==
  /\ dec.total = Len(body)
  /\ dec.total + dec.remaining <= MaxBodyBytes
  /\ Len(dec.line) <= MaxLineBytes

\* However a peer cuts its bytes, the capacity of the receive buffer stays
\* below twice the largest head or body and a read.
MemoryBounded ==
  /\ Len(buf) <= cap
  /\ cap <= Larger(2 * (Larger(MaxHeaderBytes, MaxBodyBytes) + ReadChunkBytes),
                   MinCapacity)

\* The receive buffer and the decoder lose nothing and keep their limits.
BufferSound == TypeOK /\ NothingLost /\ BodyBounded /\ MemoryBounded
=============================================================================
