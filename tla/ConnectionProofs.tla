-------------------------- MODULE ConnectionProofs --------------------------
(***************************************************************************)
(* Theorems about Connection, for any number of requests and of gates, any *)
(* capacity of the body channel and any number of events in it.            *)
(***************************************************************************)
EXTENDS Connection, FiniteSetTheorems, TLAPS

Idle == {"top", "read", "error"}
Serving == {"rejected", "refused", "routed", "intercept", "handle", "respond",
            "stream_head"}
Streaming == {"stream", "stream_done"}

Parts == [part : PartKinds, n : 1..(MaxServed + 1), close : BOOLEAN]
LogEntries == {"request", "response"} \X (1..MaxServed)
Events == {"data", "empty", "end"}

ConnTypes ==
  /\ pc \in PcStates
  /\ flag \in BOOLEAN /\ aged \in BOOLEAN /\ keep \in BOOLEAN
  /\ served \in Nat
  /\ req \in Requests
  /\ permit \in {"task", "session", "released"}
  /\ (permit = "task" <=> pc # "done")
  /\ wire \in Seq(Parts)
  /\ log \in Seq(LogEntries)
  /\ chan \in Seq(Events) /\ sent \in Seq(Events)
  /\ rxOpen \in BOOLEAN /\ writers \in 0..2
  /\ ext \subseteq {served} \X (1..Gates)

\* A further request is read only within max_requests_per_connection.
Budget ==
  /\ served <= MaxServed
  /\ pc \in Idle => served < MaxServed
  /\ pc \in Serving \cup Streaming => served > 0 /\ (keep => served < MaxServed)
  /\ pc = "stream_head" => req.kind \in {"stream", "stream_bodyless"}
  /\ ext # {} => served > 0

LastPart == wire[Len(wire)]

\* The wire ends with the whole response to the n-th request.
Answered(n) ==
  IF n = 0 THEN wire = << >>
  ELSE wire # << >> /\ LastPart.n = n /\ LastPart.part \in {"full", "end"}

\* How the wire ends, where the task stands.
WireEnds ==
  /\ pc \in Idle => Answered(served)
  /\ pc \in Serving => Answered(served - 1)
  /\ pc \in Streaming => wire # << >> /\ LastPart.n = served
  /\ pc = "stream" =>
       /\ req.kind = "stream" /\ (req.http10 => ~keep)
       /\ LastPart.part \in {"chunk", IF req.http10 THEN "head_eof" ELSE "head"}
  /\ pc = "stream_done" =>
       \/ req.kind = "stream_bodyless" /\ LastPart.part = "full"
       \/ req.kind = "stream" /\ ~req.http10 /\ LastPart.part = "end"
       \/ req.kind = "stream" /\ req.http10 /\ ~keep /\ LastPart.part \in {"chunk", "head_eof"}

\* No part belongs to a later request, and none to one not yet answered; a
\* response that announces the end belongs to a request after which the task
\* returns.
NoneAhead ==
  \A i \in DOMAIN wire :
    /\ pc \in Idle \cup Streaming => wire[i].n <= served
    /\ pc \in Serving => wire[i].n < served
    /\ wire[i].part \in Starts /\ wire[i].close =>
         /\ pc \notin Idle \cup Serving
         /\ pc \in Streaming => wire[i].n = served /\ ~keep

\* The requests that were answered in full.
AllCompleted ==
  /\ pc \in Idle => \A n \in 1..served : Completed(n)
  /\ pc \in Serving \cup Streaming => \A n \in 1..(served - 1) : Completed(n)
  /\ pc = "stream_done" \/ (pc = "stream" /\ req.http10) => Completed(served)

\* How far the middlewares' log has come.
LogLength ==
  /\ pc \in Idle => Len(log) = 2 * served
  /\ pc \in Serving \cup Streaming => Len(log) = 2 * served - 1

Taken == Len(sent) - Len(chan)

\* The channel holds the events not yet taken, and those taken are on the wire.
BodyMatches ==
  pc \in {"stream_head", "stream"} =>
    /\ Taken \in Nat
    /\ \A i \in DOMAIN chan : chan[i] = sent[Taken + i]
    /\ \A i \in 1..Taken : sent[i] # "end"
    /\ pc = "stream_head" => Taken = 0
    /\ pc = "stream" => ChunksOf(served) = DataBefore(Taken)

\* The inductive invariant of a connection.
ConnInv ==
  /\ ConnTypes /\ Budget /\ WireEnds /\ NoneAhead /\ AllCompleted /\ LogLength
  /\ BodyMatches /\ ResponsesInOrder /\ CloseIsFinal /\ HandOverClean
  /\ TerminatorTrue /\ ObservedInTurn

-----------------------------------------------------------------------------
(* What a step does to the wire and to the log.                            *)

\* The bound on the requests a connection serves is a positive number.
LEMMA MaxServedType == MaxServed \in Nat /\ MaxServed > 0
  BY ConnectionAssumption DEF MaxServed

\* What is on the wire are parts, each of some request.
LEMMA PartFields ==
  ASSUME wire \in Seq(Parts)
  PROVE  \A i \in DOMAIN wire : wire[i] \in Parts /\ wire[i].n \in Nat
<1>1. \A p \in Parts : p.n \in Nat
  BY MaxServedType DEF Parts
<1> QED
  BY <1>1

\* p may be written next.
Fits(p) ==
  /\ p \in Parts
  /\ IF wire = << >> THEN p.n = 1 /\ p.part \in Starts \cup {"torn"}
     ELSE Follows(p, LastPart)
  /\ \A i \in DOMAIN wire :
       /\ wire[i].n <= p.n
       /\ wire[i].part \in Starts /\ wire[i].close => wire[i].n = p.n

\* What Append does, element by element.
LEMMA Appended ==
  ASSUME NEW T, NEW s \in Seq(T), NEW e \in T, NEW t, t = Append(s, e)
  PROVE  /\ t \in Seq(T)
         /\ Len(s) \in Nat /\ DOMAIN s = 1..Len(s)
         /\ Len(t) = Len(s) + 1 /\ DOMAIN t = 1..(Len(s) + 1)
         /\ \A i \in 1..Len(s) : t[i] = s[i]
         /\ t[Len(s) + 1] = e
         /\ t # << >>
  OBVIOUS

\* What was complete on the wire stays so.
LEMMA CompletedStays ==
  ASSUME wire \in Seq(Parts), NEW p \in Parts, wire' = Append(wire, p)
  PROVE  \A n : Completed(n) => Completed(n)'
<1>1. /\ DOMAIN wire \subseteq DOMAIN wire'
      /\ \A i \in DOMAIN wire : wire'[i] = wire[i]
  BY Appended
<1> QED
  BY <1>1 DEF Completed

\* Writing a part that fits keeps the order of the responses and their end.
LEMMA WriteHolds ==
  ASSUME wire \in Seq(Parts), ResponsesInOrder, CloseIsFinal,
         NEW p, Fits(p), wire' = Append(wire, p), permit' # "session"
  PROVE  wire' \in Seq(Parts) /\ ResponsesInOrder' /\ CloseIsFinal'
<1>0. p \in Parts
  BY DEF Fits
<1>1. /\ wire' \in Seq(Parts)
      /\ Len(wire) \in Nat /\ DOMAIN wire = 1..Len(wire)
      /\ Len(wire') = Len(wire) + 1 /\ DOMAIN wire' = 1..(Len(wire) + 1)
      /\ \A i \in 1..Len(wire) : wire'[i] = wire[i]
      /\ wire'[Len(wire) + 1] = p
  BY <1>0, Appended
<1>2. wire'[1].n = 1 /\ wire'[1].part \in Starts \cup {"torn"}
  <2>1. CASE wire = << >>
    BY <1>1, <2>1 DEF Fits
  <2>2. CASE wire # << >>
    <3>1. 1 \in 1..Len(wire)
      BY <1>1, <2>2
    <3> QED
      BY <1>1, <2>2, <3>1 DEF ResponsesInOrder
  <2> QED
    BY <2>1, <2>2
<1>3. ASSUME NEW i \in 1..(Len(wire') - 1) PROVE Follows(wire'[i + 1], wire'[i])
  <2>1. CASE i < Len(wire)
    <3>1. i \in 1..(Len(wire) - 1) /\ i \in 1..Len(wire) /\ i + 1 \in 1..Len(wire)
      BY <1>1, <2>1
    <3> QED
      BY <1>1, <3>1 DEF ResponsesInOrder
  <2>2. CASE i >= Len(wire)
    <3>0. Len(wire') - 1 = Len(wire) /\ Len(wire) \in Nat
      BY <1>1
    <3>1. i = Len(wire) /\ i \in 1..Len(wire) /\ Len(wire) # 0
      BY <3>0, <2>2
    <3>2. wire # << >>
      BY <3>1
    <3> QED
      BY <1>1, <3>1, <3>2 DEF Fits, LastPart
  <2> QED
    BY <1>1, <2>1, <2>2
<1>4. CloseIsFinal'
  <2> SUFFICES ASSUME NEW i \in DOMAIN wire', wire'[i].part \in Starts, wire'[i].close,
                      NEW j \in DOMAIN wire'
               PROVE  wire'[j].n <= wire'[i].n
    BY DEF CloseIsFinal
  <2>0. \A m \in DOMAIN wire : wire[m].n \in Nat
    BY PartFields
  <2>1. CASE i = Len(wire) + 1
    <3>1. p.n \in Nat
      BY <1>0, MaxServedType DEF Parts
    <3> QED
      BY <1>1, <2>0, <2>1, <3>1 DEF Fits
  <2>2. CASE i # Len(wire) + 1 /\ j = Len(wire) + 1
    BY <1>1, <2>2, <2>0 DEF Fits
  <2>3. CASE i # Len(wire) + 1 /\ j # Len(wire) + 1
    BY <1>1, <2>3 DEF CloseIsFinal
  <2> QED
    BY <2>1, <2>2, <2>3
<1> QED
  BY <1>1, <1>2, <1>3, <1>4 DEF ResponsesInOrder

\* Where nothing is written the wire keeps what it promises, unless it changes
\* hands.
LEMMA StaysHolds ==
  ASSUME ResponsesInOrder, CloseIsFinal, wire' = wire, permit' # "session"
  PROVE  ResponsesInOrder' /\ CloseIsFinal'
  BY DEF ResponsesInOrder, CloseIsFinal, Follows

\* The answer to the request at hand, or a piece of it, fits.
LEMMA AnswerFits ==
  ASSUME ConnInv, pc \in Serving, NEW p \in Parts,
         p.n = served, p.part \in Starts \cup {"torn"}
  PROVE  Fits(p)
<1>1. served \in Nat /\ served > 0 /\ Answered(served - 1) /\ wire \in Seq(Parts)
  BY DEF ConnInv, ConnTypes, Budget, WireEnds
<1>2. \A i \in DOMAIN wire :
        wire[i].n < served /\ (wire[i].part \in Starts => ~wire[i].close)
  BY DEF ConnInv, NoneAhead
<1>3. CASE wire = << >>
  BY <1>1, <1>2, <1>3, PartFields DEF Fits, Answered
<1>4. CASE wire # << >>
  <2>1. p.n = LastPart.n + 1 /\ LastPart.part \in {"full", "end"}
    BY <1>1, <1>4 DEF Answered
  <2>2. Follows(p, LastPart)
    BY <1>1, <2>1 DEF Follows, Starts
  <2> QED
    BY <1>1, <1>2, <1>4, <2>2, PartFields DEF Fits
<1> QED
  BY <1>3, <1>4

\* So does the answer to a request that could not be read.
LEMMA ErrorFits ==
  ASSUME ConnInv, pc = "error", NEW p \in Parts,
         p.n = served + 1, p.part \in Starts \cup {"torn"}
  PROVE  Fits(p)
<1>1. served \in Nat /\ Answered(served) /\ wire \in Seq(Parts)
  BY DEF ConnInv, ConnTypes, WireEnds, Idle
<1>2. \A i \in DOMAIN wire :
        wire[i].n <= served /\ (wire[i].part \in Starts => ~wire[i].close)
  BY DEF ConnInv, NoneAhead, Idle
<1>3. CASE wire = << >>
  BY <1>1, <1>2, <1>3, PartFields DEF Fits, Answered
<1>4. CASE wire # << >>
  <2>1. LastPart.n = served /\ LastPart.part \in {"full", "end"}
    BY <1>1, <1>4 DEF Answered
  <2>2. Follows(p, LastPart)
    BY <1>1, <2>1 DEF Follows, Starts
  <2> QED
    BY <1>1, <1>2, <1>4, <2>2, PartFields DEF Fits
<1> QED
  BY <1>3, <1>4

\* So do the chunks and the terminator of a streamed body.
LEMMA ChunkFits ==
  ASSUME ConnInv, pc = "stream", NEW p \in Parts, p.n = served,
         p.part \in {"chunk", "torn"} \/ (p.part = "end" /\ ~req.http10)
  PROVE  Fits(p)
<1>1. /\ served \in Nat
      /\ wire # << >> /\ LastPart.n = served
      /\ LastPart.part \in {"chunk", IF req.http10 THEN "head_eof" ELSE "head"}
      /\ \A i \in DOMAIN wire : wire[i].n <= served
      /\ \A i \in DOMAIN wire :
           wire[i].part \in Starts /\ wire[i].close => wire[i].n = served
  BY DEF ConnInv, ConnTypes, WireEnds, NoneAhead, Streaming
<1>2. Follows(p, LastPart)
  BY <1>1 DEF Follows, Starts
<1> QED
  BY <1>1, <1>2 DEF Fits

-----------------------------------------------------------------------------
(* The log of the middlewares.                                             *)

\* The log where nothing is added to it.
LEMMA LogStays ==
  ASSUME ObservedInTurn, log' = log, \A n : Completed(n) => Completed(n)'
  PROVE  ObservedInTurn'
  BY DEF ObservedInTurn

\* The i-th entry of a log in turn.
LEMMA Halves ==
  ASSUME NEW n \in Nat
  PROVE  /\ (2 * n + 1) % 2 = 1 /\ (2 * n + 1 + 1) \div 2 = n + 1
         /\ (2 * n) % 2 = 0 /\ (2 * n + 1) \div 2 = n
  OBVIOUS

\* The i-th entry is in its turn.
Turn(i) ==
  /\ log[i] = <<IF i % 2 = 1 THEN "request" ELSE "response", (i + 1) \div 2>>
  /\ log[i][1] = "response" => Completed(log[i][2])

\* An entry in its turn keeps the log in turn.
LEMMA LogGrows ==
  ASSUME log \in Seq(LogEntries), ObservedInTurn,
         \A n : Completed(n) => Completed(n)',
         NEW kind \in {"request", "response"}, NEW m \in 1..MaxServed,
         log' = Append(log, <<kind, m>>),
         kind = IF (Len(log) + 1) % 2 = 1 THEN "request" ELSE "response",
         m = (Len(log) + 1 + 1) \div 2,
         kind = "response" => Completed(m)'
  PROVE  log' \in Seq(LogEntries) /\ Len(log') = Len(log) + 1 /\ ObservedInTurn'
<1>0. <<kind, m>> \in LogEntries
  BY DEF LogEntries
<1>1. /\ log' \in Seq(LogEntries)
      /\ Len(log) \in Nat /\ DOMAIN log = 1..Len(log)
      /\ Len(log') = Len(log) + 1 /\ DOMAIN log' = 1..(Len(log) + 1)
      /\ \A i \in 1..Len(log) : log'[i] = log[i]
      /\ log'[Len(log) + 1] = <<kind, m>>
  BY <1>0, Appended
<1>2. ASSUME NEW i \in DOMAIN log'
      PROVE  Turn(i)'
  <2>1. CASE i \in 1..Len(log)
    <3>1. Turn(i) /\ log'[i] = log[i]
      BY <1>1, <2>1 DEF ObservedInTurn, Turn
    <3>2. PICK n : n = log[i][2]
      OBVIOUS
    <3>3. log[i][1] = "response" => Completed(n)'
      BY <3>1, <3>2 DEF Turn
    <3>4. (log[i][1] = "response" => Completed(log[i][2]))'
      BY <3>1, <3>2, <3>3 DEF Completed
    <3> QED
      BY <3>1, <3>4 DEF Turn
  <2>2. CASE i = Len(log) + 1
    BY <1>1, <2>2 DEF Turn, Completed
  <2> QED
    BY <1>1, <2>1, <2>2
<1> QED
  BY <1>1, <1>2 DEF ObservedInTurn, Turn

\* on_request, after the response to the request before.
LEMMA RequestLogged ==
  ASSUME log \in Seq(LogEntries), ObservedInTurn, served \in Nat,
         Len(log) = 2 * served, served < MaxServed,
         \A n : Completed(n) => Completed(n)',
         log' = Append(log, <<"request", served + 1>>)
  PROVE  /\ log' \in Seq(LogEntries) /\ ObservedInTurn'
         /\ Len(log') = 2 * (served + 1) - 1
<1>1. served + 1 \in 1..MaxServed
  BY MaxServedType
<1>2. (2 * served + 1) % 2 = 1 /\ (2 * served + 1 + 1) \div 2 = served + 1
  BY Halves
<1>3. /\ "request" = IF (Len(log) + 1) % 2 = 1 THEN "request" ELSE "response"
      /\ served + 1 = (Len(log) + 1 + 1) \div 2
  BY <1>2
<1>4. log' \in Seq(LogEntries) /\ Len(log') = Len(log) + 1 /\ ObservedInTurn'
  BY <1>1, <1>3, LogGrows
<1> QED
  BY SMTT(30), <1>4

\* on_response_with_status, for a response that is complete.
LEMMA ResponseLogged ==
  ASSUME log \in Seq(LogEntries), ObservedInTurn, served \in 1..MaxServed,
         Len(log) = 2 * served - 1,
         \A n : Completed(n) => Completed(n)', Completed(served)', served' = served,
         log' = Append(log, <<"response", served>>)
  PROVE  /\ log' \in Seq(LogEntries) /\ ObservedInTurn'
         /\ Len(log') = 2 * served
<1>0. served \in Nat /\ Len(log) + 1 = 2 * served
  BY MaxServedType
<1>2. (2 * served) % 2 = 0 /\ (2 * served + 1) \div 2 = served
  BY <1>0, Halves
<1>3. /\ "response" = IF (Len(log) + 1) % 2 = 1 THEN "request" ELSE "response"
      /\ served = (Len(log) + 1 + 1) \div 2
  BY <1>0, <1>2
<1>4. \A n : n = served => Completed(n)'
  BY DEF Completed
<1>5. log' \in Seq(LogEntries) /\ Len(log') = Len(log) + 1 /\ ObservedInTurn'
  BY <1>3, <1>4, LogGrows
<1> QED
  BY <1>0, <1>5

-----------------------------------------------------------------------------
(* The steps of the task.                                                  *)

\* A task that returns owes nothing any more but what is on the wire.
LEMMA ReturnHolds ==
  ASSUME ConnInv, pc # "done", Return, UNCHANGED <<served, req, ext>>,
         keep' \in BOOLEAN, QuietButChan,
         wire' \in Seq(Parts), ResponsesInOrder', CloseIsFinal',
         log' \in Seq(LogEntries), ObservedInTurn'
  PROVE  ConnInv'
<1> USE DEF Return, QuietButChan
<1>1. permit' = "released"
  BY DEF ConnInv, ConnTypes
<1>2. ConnTypes'
  <2>0. << >> \in Seq(Events)
    OBVIOUS
  <2>1. /\ chan' \in Seq(Events) /\ rxOpen' \in BOOLEAN
        /\ sent' \in Seq(Events) /\ writers' \in 0..2
    BY <2>0 DEF ConnInv, ConnTypes
  <2>2. ext' \subseteq {served'} \X (1..Gates) /\ served' \in Nat /\ req' \in Requests
    BY DEF ConnInv, ConnTypes
  <2>3. pc' \in PcStates /\ flag' \in BOOLEAN /\ aged' \in BOOLEAN
    BY DEF ConnInv, ConnTypes, PcStates
  <2> QED
    BY <1>1, <2>1, <2>2, <2>3 DEF ConnTypes
<1>3. Budget' /\ WireEnds' /\ NoneAhead' /\ AllCompleted' /\ LogLength' /\ BodyMatches'
  BY
     DEF ConnInv, Budget, WireEnds, NoneAhead, AllCompleted, LogLength,
         BodyMatches,
     Idle, Serving, Streaming
<1>4. HandOverClean' /\ TerminatorTrue'
  BY <1>1 DEF HandOverClean, TerminatorTrue
<1> QED
  BY <1>2, <1>3, <1>4 DEF ConnInv

\* A task that returns without a further word.
LEMMA ReturnsSilently ==
  ASSUME ConnInv, pc # "done", Return, UNCHANGED <<served, req, ext, wire, log>>,
         keep' \in BOOLEAN, QuietButChan
  PROVE  ConnInv'
<1>1. permit' = "released"
  BY DEF ConnInv, ConnTypes, Return
<1>2. wire' \in Seq(Parts) /\ ResponsesInOrder' /\ CloseIsFinal'
  BY <1>1, StaysHolds DEF ConnInv, ConnTypes
<1>3. \A n : Completed(n) => Completed(n)'
  BY DEF Completed
<1>4. log' \in Seq(LogEntries) /\ ObservedInTurn'
  BY <1>3, LogStays DEF ConnInv, ConnTypes
<1> QED
  BY <1>2, <1>4, ReturnHolds

\* A task that returns after a part that no middleware hears of.
LEMMA ReturnsAfter ==
  ASSUME ConnInv, pc # "done", Return, UNCHANGED <<served, req, ext, log>>,
         keep' \in BOOLEAN, QuietButChan,
         NEW p, Fits(p), wire' = Append(wire, p)
  PROVE  ConnInv'
<1>1. permit' = "released"
  BY DEF ConnInv, ConnTypes, Return
<1>2. wire' \in Seq(Parts) /\ ResponsesInOrder' /\ CloseIsFinal'
  BY <1>1, WriteHolds DEF ConnInv, ConnTypes
<1>3. \A n : Completed(n) => Completed(n)'
  BY CompletedStays DEF ConnInv, ConnTypes, Fits
<1>4. log' \in Seq(LogEntries) /\ ObservedInTurn'
  BY <1>3, LogStays DEF ConnInv, ConnTypes
<1> QED
  BY <1>2, <1>4, ReturnHolds

\* The task goes on without a word.
LEMMA Moves ==
  ASSUME ConnInv,
         \/ pc \in Idle /\ pc' \in Idle
         \/ pc \in Serving /\ pc' \in Serving \ {"stream_head"},
         UNCHANGED <<served, req, keep, ext, permit, wire, log>>, Quiet
  PROVE  ConnInv'
<1>1. ConnTypes'
  BY DEF ConnInv, ConnTypes, Quiet, chanVars, Idle, Serving, PcStates
<1>2. Budget' /\ LogLength'
  BY DEF ConnInv, Budget, LogLength, Idle, Serving, Streaming
<1>3. WireEnds'
  BY DEF ConnInv, WireEnds, Answered, LastPart, Idle, Serving, Streaming
<1>4. NoneAhead'
  BY DEF ConnInv, NoneAhead, Idle, Serving, Streaming
<1>5. AllCompleted' /\ HandOverClean'
  BY DEF ConnInv, AllCompleted, HandOverClean, Completed, Idle, Serving, Streaming
<1>6. BodyMatches' /\ TerminatorTrue'
  BY DEF ConnInv, BodyMatches, TerminatorTrue, Idle, Serving
<1>7. ResponsesInOrder' /\ CloseIsFinal' /\ ObservedInTurn'
  BY DEF ConnInv, ResponsesInOrder, CloseIsFinal, ObservedInTurn, Completed
<1> QED
  BY <1>1, <1>2, <1>3, <1>4, <1>5, <1>6, <1>7 DEF ConnInv

\* The shutdown flag, the lifetime, and a producer that drops its handle.
LEMMA AsideHolds ==
  ASSUME ConnInv, UNCHANGED <<taskVars, chan, rxOpen, sent>>,
         flag' \in BOOLEAN, aged' \in BOOLEAN, writers' \in 0..2
  PROVE  ConnInv'
<1> USE DEF taskVars
<1>1. ConnTypes'
  BY DEF ConnInv, ConnTypes
<1>2. Budget' /\ LogLength'
  BY DEF ConnInv, Budget, LogLength
<1>3. WireEnds' /\ NoneAhead'
  BY DEF ConnInv, WireEnds, Answered, LastPart, NoneAhead
<1>4. AllCompleted' /\ HandOverClean'
  BY DEF ConnInv, AllCompleted, HandOverClean, Completed
<1>5. BodyMatches' /\ TerminatorTrue'
  BY DEF ConnInv, BodyMatches, Taken, TerminatorTrue, ChunksOf, DataBefore
<1>6. ResponsesInOrder' /\ CloseIsFinal' /\ ObservedInTurn'
  BY DEF ConnInv, ResponsesInOrder, CloseIsFinal, ObservedInTurn, Completed
<1> QED
  BY <1>1, <1>2, <1>3, <1>4, <1>5, <1>6 DEF ConnInv

\* The head of the loop, and reads that bring no request.
LEMMA ReadingHolds ==
  ASSUME ConnInv, Top \/ ReadEnds \/ ReadError
  PROVE  ConnInv'
<1>0. keep \in BOOLEAN
  BY DEF ConnInv, ConnTypes
<1>1. CASE Top /\ aged
  BY <1>0, <1>1, ReturnsSilently DEF Top
<1>2. CASE Top /\ ~aged
  BY <1>2, Moves DEF Top, Idle, Quiet, QuietButChan, chanVars
<1>3. CASE ReadEnds
  BY <1>0, <1>3, ReturnsSilently DEF ReadEnds
<1>4. CASE ReadError
  BY <1>4, Moves DEF ReadError, Idle
<1> QED
  BY <1>1, <1>2, <1>3, <1>4

\* The parts a step writes are parts.
LEMMA PartType ==
  ASSUME ConnInv, pc \in Serving \cup Streaming, NEW kind \in PartKinds,
         NEW close \in BOOLEAN
  PROVE  /\ Part(kind, close) \in Parts
         /\ Part(kind, close).n = served /\ Part(kind, close).part = kind
         /\ Part(kind, close).close = close
<1>1. served \in 1..(MaxServed + 1)
  BY MaxServedType DEF ConnInv, ConnTypes, Budget
<1> QED
  BY <1>1 DEF Part, Parts

\* A refusal ends the connection.
LEMMA RefuseHolds ==
  ASSUME ConnInv, Refuse
  PROVE  ConnInv'
<1>0. served \in Nat /\ served <= MaxServed /\ keep \in BOOLEAN /\ MaxServed \in Nat
  BY MaxServedType DEF ConnInv, ConnTypes, Budget
<1>1. PICK part \in {"full", "torn"} :
        wire' = Append(wire, [part |-> part, n |-> IF pc = "error" THEN served + 1 ELSE served,
                              close |-> TRUE])
  BY DEF Refuse, Write
<1> DEFINE p == [part |-> part, n |-> IF pc = "error" THEN served + 1 ELSE served,
                 close |-> TRUE]
<1>2. CASE pc = "error"
  <2>1. p \in Parts /\ p.n = served + 1 /\ p.part \in Starts \cup {"torn"}
    BY <1>0, <1>2 DEF Parts, PartKinds, Starts
  <2>2. Fits(p)
    BY <1>2, <2>1, ErrorFits
  <2> QED
    BY <1>0, <1>1, <1>2, <2>2, ReturnsAfter DEF Refuse
<1>3. CASE pc = "refused"
  <2>1. served > 0
    BY <1>3 DEF ConnInv, Budget, Serving
  <2>2. p \in Parts /\ p.n = served /\ p.part \in Starts \cup {"torn"}
    BY <1>0, <1>3, <2>1 DEF Parts, PartKinds, Starts
  <2>3. Fits(p)
    BY <1>3, <2>2, AnswerFits DEF Serving
  <2> QED
    BY <1>0, <1>1, <1>3, <2>3, ReturnsAfter DEF Refuse
<1> QED
  BY <1>2, <1>3 DEF Refuse

\* A request that was read is the next one, within the limit of requests, and
\* carries its own extensions only.
LEMMA ReadRequestHolds ==
  ASSUME ConnInv, NEW r \in Requests, ReadRequest(r)
  PROVE  ConnInv'
<1>0. /\ served \in Nat /\ MaxServed \in Nat /\ served < MaxServed
      /\ served' = served + 1 /\ pc = "read" /\ pc' \in {"routed", "rejected"}
      /\ UNCHANGED <<permit, wire, chan, rxOpen, writers, sent, flag, aged>>
      /\ req' = r /\ keep' = KeepAlive(r) /\ permit = "task"
      /\ log' = Append(log, <<"request", served + 1>>)
  BY MaxServedType
     DEF ConnInv, ConnTypes, Budget, Idle, ReadRequest, Quiet, chanVars
<1>1. ext' \subseteq {served + 1} \X (1..Gates)
  BY DEF ReadRequest, FreshExtensions
<1>2. keep' \in BOOLEAN /\ (keep' => served' < MaxServed)
  BY <1>0, ConnectionAssumption DEF KeepAlive, Requests, ConnInv, ConnTypes
<1>3. \A n : Completed(n) => Completed(n)'
  BY <1>0 DEF Completed
<1>4. log' \in Seq(LogEntries) /\ ObservedInTurn' /\ Len(log') = 2 * (served + 1) - 1
  <2>1. Len(log) = 2 * served /\ log \in Seq(LogEntries) /\ ObservedInTurn
    BY <1>0 DEF ConnInv, ConnTypes, LogLength, Idle
  <2> QED
    BY <1>0, <1>3, <2>1, RequestLogged
<1>5. ConnTypes'
  BY <1>0, <1>1, <1>2, <1>4 DEF ConnInv, ConnTypes, PcStates
<1>6. Budget' /\ LogLength'
  BY <1>0, <1>1, <1>2, <1>4 DEF Budget, LogLength, Idle, Serving, Streaming
<1>7. WireEnds'
  <2>1. Answered(served)
    BY <1>0 DEF ConnInv, WireEnds, Idle
  <2>2. Answered(served - 1)'
    BY <1>0, <2>1 DEF Answered, LastPart
  <2> QED
    BY <1>0, <2>2 DEF WireEnds, Idle, Serving, Streaming
<1>8. NoneAhead'
  BY <1>0, PartFields DEF ConnInv, ConnTypes, NoneAhead, Idle, Serving, Streaming
<1>9. AllCompleted' /\ HandOverClean'
  <2>1. \A n \in 1..served : Completed(n)'
    BY <1>0, <1>3 DEF ConnInv, AllCompleted, Idle
  <2> QED
    BY <1>0, <2>1 DEF AllCompleted, HandOverClean, Idle, Serving, Streaming
<1>10. BodyMatches' /\ TerminatorTrue'
  BY <1>0 DEF BodyMatches, TerminatorTrue
<1>11. ResponsesInOrder' /\ CloseIsFinal'
  BY <1>0, StaysHolds DEF ConnInv
<1> QED
  BY <1>4, <1>5, <1>6, <1>7, <1>8, <1>9, <1>10, <1>11 DEF ConnInv

\* The whole answer to the request at hand, after which the loop goes round if
\* it did not announce the end.
LEMMA AnswerHolds ==
  ASSUME ConnInv, pc \in Serving, NEW k \in BOOLEAN, k => keep,
         wire' = Append(wire, Part("full", ~k)),
         log' = Append(log, <<"response", served>>),
         Loop(k), keep' \in BOOLEAN, UNCHANGED <<served, req, ext>>, QuietButChan
  PROVE  ConnInv'
<1> DEFINE p == Part("full", ~k)
<1>0. /\ served \in 1..MaxServed /\ served \in Nat /\ MaxServed \in Nat
      /\ permit = "task" /\ pc # "done"
      /\ wire \in Seq(Parts) /\ log \in Seq(LogEntries) /\ Len(log) = 2 * served - 1
  BY MaxServedType DEF ConnInv, ConnTypes, Budget, LogLength, Serving
<1>1. p \in Parts /\ p.n = served /\ p.part = "full" /\ p.close = ~k
  BY PartType DEF PartKinds
<1> HIDE DEF p
<1>2. Fits(p)
  BY <1>1, AnswerFits DEF Starts
<1>3. wire' = Append(wire, p) /\ permit' # "session"
  BY <1>0 DEF p, Loop, Return
<1>4. wire' \in Seq(Parts) /\ ResponsesInOrder' /\ CloseIsFinal'
  BY <1>0, <1>2, <1>3, WriteHolds DEF ConnInv
<1>5. \A n : Completed(n) => Completed(n)'
  BY <1>0, <1>1, <1>3, CompletedStays
<1>6. /\ Len(wire) \in Nat /\ DOMAIN wire = 1..Len(wire)
      /\ Len(wire') = Len(wire) + 1 /\ DOMAIN wire' = 1..(Len(wire) + 1)
      /\ \A i \in 1..Len(wire) : wire'[i] = wire[i]
      /\ wire'[Len(wire) + 1] = p /\ wire' # << >>
  BY <1>0, <1>1, <1>3, Appended
<1>7. Completed(served)'
  BY <1>1, <1>6 DEF Completed
<1>8. log' \in Seq(LogEntries) /\ ObservedInTurn' /\ Len(log') = 2 * served
  BY <1>0, <1>5, <1>7, ResponseLogged DEF ConnInv
<1>9. CASE ~k
  BY <1>0, <1>4, <1>8, <1>9, ReturnHolds DEF Loop
<1>10. CASE k
  <2>0. pc' = "top" /\ UNCHANGED <<permit, rxOpen, chan>> /\ served < MaxServed
    BY <1>0, <1>10 DEF Loop, ConnInv, Budget
  <2>1. ConnTypes'
    BY <1>0, <1>4, <1>8, <2>0 DEF ConnInv, ConnTypes, PcStates, QuietButChan
  <2>2. Budget' /\ LogLength'
    BY <1>0, <1>8, <2>0 DEF ConnInv, Budget, LogLength, Idle, Serving, Streaming
  <2>3. WireEnds'
    BY <1>0, <1>1, <1>6, <2>0
       DEF WireEnds, Answered, LastPart, Idle, Serving, Streaming
  <2>4. NoneAhead'
    <3> SUFFICES ASSUME NEW i \in DOMAIN wire'
                 PROVE  wire'[i].n <= served /\ (wire'[i].part \in Starts => ~wire'[i].close)
      BY <2>0 DEF NoneAhead, Idle, Serving, Streaming
    <3>1. CASE i \in DOMAIN wire
      <4>1. wire[i].n < served /\ wire[i].n \in Nat /\ (wire[i].part \in Starts => ~wire[i].close)
        BY <1>0, <3>1, PartFields DEF ConnInv, NoneAhead
      <4> QED
        BY <1>0, <1>6, <3>1, <4>1
    <3>2. CASE i = Len(wire) + 1
      <4>1. ~p.close
        BY <1>1, <1>10
      <4>2. wire'[i] = p /\ p.n = served
        BY <1>1, <1>6, <3>2
      <4> QED
        BY <1>0, <4>1, <4>2
    <3> QED
      BY <1>6, <3>1, <3>2
  <2>5. AllCompleted'
    <3>1. \A n \in 1..served : Completed(n)'
      <4> SUFFICES ASSUME NEW n \in 1..served PROVE Completed(n)'
        OBVIOUS
      <4>1. CASE n = served
        BY <1>1, <1>6, <4>1 DEF Completed
      <4>2. CASE n # served
        <5>1. n \in 1..(served - 1)
          BY <1>0, <4>2
        <5> QED
          BY <1>5, <5>1 DEF ConnInv, AllCompleted
      <4> QED
        BY <4>1, <4>2
    <3> QED
      BY <2>0, <3>1 DEF AllCompleted, Idle, Serving, Streaming
  <2>6. HandOverClean' /\ BodyMatches' /\ TerminatorTrue'
    BY <1>0, <2>0 DEF HandOverClean, BodyMatches, TerminatorTrue
  <2> QED
    BY <1>4, <1>8, <2>1, <2>2, <2>3, <2>4, <2>5, <2>6 DEF ConnInv
<1> QED
  BY <1>9, <1>10

\* The answers that are written whole or torn: a rejection by a gate, and the
\* response of a plugin or a handler.
LEMMA RespondHolds ==
  ASSUME ConnInv, WriteRejection \/ Respond
  PROVE  ConnInv'
<1>0. keep \in BOOLEAN /\ pc \in Serving /\ pc # "done"
  BY DEF ConnInv, ConnTypes, WriteRejection, Respond, Serving
<1>1. StillKeep \in BOOLEAN /\ (StillKeep => keep)
  BY <1>0 DEF StillKeep, ConnInv, ConnTypes
<1>2. Fits(Part("torn", TRUE))
  <2>1. /\ Part("torn", TRUE) \in Parts /\ Part("torn", TRUE).n = served
        /\ Part("torn", TRUE).part = "torn"
    BY <1>0, PartType DEF PartKinds
  <2> QED
    BY <1>0, <2>1, AnswerFits
<1>3. CASE WriteRejection
  <2>1. CASE /\ Write(Part("full", ~keep))
             /\ log' = Append(log, <<"response", served>>)
             /\ Loop(keep)
    BY <1>0, <1>3, <2>1, AnswerHolds DEF WriteRejection, Write
  <2>2. CASE Tear /\ Return /\ UNCHANGED log
    BY <1>0, <1>2, <1>3, <2>2, ReturnsAfter DEF WriteRejection, Tear
  <2> QED
    BY <1>3, <2>1, <2>2 DEF WriteRejection
<1>4. CASE Respond
  <2>1. CASE /\ Write(Part("full", ~StillKeep))
             /\ log' = Append(log, <<"response", served>>)
             /\ Loop(StillKeep)
    BY <1>0, <1>1, <1>4, <2>1, AnswerHolds DEF Respond, Write
  <2>2. CASE Tear /\ Return /\ UNCHANGED log
    BY <1>0, <1>1, <1>2, <1>4, <2>2, ReturnsAfter DEF Respond, Tear
  <2> QED
    BY <1>4, <2>1, <2>2 DEF Respond
<1> QED
  BY <1>3, <1>4

\* The hand-over to a session, on a wire that is all answered.
LEMMA UpgradeHolds ==
  ASSUME ConnInv, Upgrade
  PROVE  ConnInv'
<1>1. CASE pc' = "refused" /\ UNCHANGED permit
  BY <1>1, Moves DEF Upgrade, Serving
<1>2. CASE permit' = "session" /\ pc' = "done"
  <2>0. pc = "routed" /\ UNCHANGED <<served, req, keep, ext, wire, log>> /\ Quiet
    BY DEF Upgrade
  <2>1. ConnTypes'
    BY <1>2, <2>0 DEF ConnInv, ConnTypes, PcStates, Quiet, chanVars
  <2>2. Budget' /\ WireEnds' /\ NoneAhead' /\ AllCompleted' /\ LogLength' /\ BodyMatches'
    BY <1>2, <2>0
       DEF ConnInv, Budget, WireEnds, NoneAhead, AllCompleted, LogLength,
       BodyMatches, Idle, Serving, Streaming
  <2>3. ResponsesInOrder' /\ ObservedInTurn'
    BY <2>0 DEF ConnInv, ResponsesInOrder, ObservedInTurn, Completed
  <2>4. CloseIsFinal'
    <3>1. \A i \in DOMAIN wire : ~(wire[i].part \in Starts /\ wire[i].close)
      BY <2>0 DEF ConnInv, NoneAhead, Serving
    <3> QED
      BY <2>0, <3>1 DEF CloseIsFinal
  <2>5. HandOverClean'
    BY <2>0
       DEF ConnInv, AllCompleted, NoneAhead, HandOverClean, Completed, Serving
  <2>6. TerminatorTrue'
    BY <1>2 DEF TerminatorTrue
  <2> QED
    BY <2>1, <2>2, <2>3, <2>4, <2>5, <2>6 DEF ConnInv
<1> QED
  BY <1>1, <1>2 DEF Upgrade

\* Who answers is found out; a streamed answer begins with an empty channel.
LEMMA InterceptHolds ==
  ASSUME ConnInv, Route \/ Intercept \/ Handle
  PROVE  ConnInv'
<1>1. CASE Route \/ Handle
  BY <1>1, Moves DEF Route, Handle, Serving
<1>2. CASE Intercept /\ pc' # "stream_head"
  BY <1>2, Moves DEF Intercept, Serving, Quiet
<1>3. CASE Intercept /\ pc' = "stream_head"
  <2>0. /\ pc = "intercept" /\ req.kind \in {"stream", "stream_bodyless"}
        /\ chan' = << >> /\ sent' = << >> /\ rxOpen' = TRUE /\ writers' = 2
        /\ UNCHANGED <<served, req, keep, ext, permit, wire, log, flag, aged>>
    BY <1>3 DEF Intercept
  <2>1. ConnTypes'
    <3>1. << >> \in Seq(Events)
      OBVIOUS
    <3> QED
      BY <1>3, <2>0, <3>1 DEF ConnInv, ConnTypes, PcStates
  <2>2. Budget' /\ LogLength'
    BY <1>3, <2>0 DEF ConnInv, Budget, LogLength, Idle, Serving, Streaming
  <2>3. WireEnds' /\ NoneAhead'
    BY <1>3, <2>0
       DEF ConnInv, WireEnds, NoneAhead, Answered, LastPart, Idle, Serving,
       Streaming
  <2>4. AllCompleted' /\ HandOverClean'
    BY <1>3, <2>0
       DEF ConnInv, AllCompleted, HandOverClean, Completed, Idle, Serving,
       Streaming
  <2>5. BodyMatches' /\ TerminatorTrue'
    BY <1>3, <2>0 DEF BodyMatches, Taken, TerminatorTrue
  <2>6. ResponsesInOrder' /\ CloseIsFinal' /\ ObservedInTurn'
    BY <2>0 DEF ConnInv, ResponsesInOrder, CloseIsFinal, ObservedInTurn, Completed
  <2> QED
    BY <2>1, <2>2, <2>3, <2>4, <2>5, <2>6 DEF ConnInv
<1> QED
  BY <1>1, <1>2, <1>3

-----------------------------------------------------------------------------
(* The chunks of a body, counted.                                          *)

DataIn(s, k) == Cardinality({i \in 1..k : s[i] = "data"})
ChunksIn(w, n) == Cardinality({i \in DOMAIN w : w[i].n = n /\ w[i].part = "chunk"})

\* One more event counts if it is a chunk of data.
LEMMA DataInSteps ==
  ASSUME NEW s, NEW k \in Nat
  PROVE  /\ DataIn(s, k) \in Nat
         /\ DataIn(s, k + 1) = IF s[k + 1] = "data" THEN DataIn(s, k) + 1 ELSE DataIn(s, k)
<1> DEFINE A == {i \in 1..k : s[i] = "data"}
           B == {i \in 1..(k + 1) : s[i] = "data"}
<1>1. IsFiniteSet(A)
  <2>1. IsFiniteSet(1..k)
    BY FS_Interval
  <2>2. A \subseteq 1..k
    OBVIOUS
  <2> QED
    BY <2>1, <2>2, FS_Subset
<1>2. B = IF s[k + 1] = "data" THEN A \cup {k + 1} ELSE A
  OBVIOUS
<1>3. k + 1 \notin A
  OBVIOUS
<1> HIDE DEF A, B
<1>4. Cardinality(A) \in Nat /\ Cardinality(A \cup {k + 1}) = Cardinality(A) + 1
  BY <1>1, <1>3, FS_AddElement, FS_CardinalityType
<1>5. DataIn(s, k) = Cardinality(A) /\ DataIn(s, k + 1) = Cardinality(B)
  BY DEF DataIn, A, B
<1> QED
  BY <1>2, <1>4, <1>5

\* More events hold no less data.
LEMMA DataInMonotone ==
  ASSUME NEW s \in Seq(Events), NEW k \in DOMAIN s
  PROVE  DataIn(s, k) <= DataIn(s, Len(s))
<1> DEFINE A == {i \in 1..k : s[i] = "data"}
           B == {i \in 1..Len(s) : s[i] = "data"}
<1>1. A \subseteq B /\ B \subseteq 1..Len(s) /\ IsFiniteSet(1..Len(s))
  BY FS_Interval
<1> HIDE DEF A, B
<1>2. IsFiniteSet(B) /\ Cardinality(A) <= Cardinality(B)
  BY <1>1, FS_Subset
<1> QED
  BY <1>2 DEF DataIn, A, B

\* Nothing written holds no data.
LEMMA DataInNone == \A s : DataIn(s, 0) = 0
<1> TAKE s
<1>1. {i \in 1..0 : s[i] = "data"} = {}
  OBVIOUS
<1> QED
  BY <1>1, FS_EmptySet DEF DataIn

\* Later events do not count among the first k.
LEMMA DataInStays ==
  ASSUME NEW s \in Seq(Events), NEW e \in Events, NEW k \in 0..Len(s)
  PROVE  DataIn(Append(s, e), k) = DataIn(s, k)
<1>1. {i \in 1..k : Append(s, e)[i] = "data"} = {i \in 1..k : s[i] = "data"}
  OBVIOUS
<1> QED
  BY <1>1 DEF DataIn

\* A part counts if it is a chunk of the n-th response.
LEMMA ChunksInSteps ==
  ASSUME NEW w \in Seq(Parts), NEW p \in Parts, NEW n
  PROVE  /\ ChunksIn(w, n) \in Nat
         /\ ChunksIn(Append(w, p), n) =
              IF p.n = n /\ p.part = "chunk" THEN ChunksIn(w, n) + 1 ELSE ChunksIn(w, n)
<1> DEFINE v == Append(w, p)
           A == {i \in DOMAIN w : w[i].n = n /\ w[i].part = "chunk"}
           B == {i \in DOMAIN v : v[i].n = n /\ v[i].part = "chunk"}
<1>1. /\ Len(w) \in Nat /\ DOMAIN w = 1..Len(w) /\ DOMAIN v = 1..(Len(w) + 1)
      /\ \A i \in 1..Len(w) : v[i] = w[i]
      /\ v[Len(w) + 1] = p
  BY Appended
<1>2. IsFiniteSet(A)
  <2>1. IsFiniteSet(1..Len(w))
    BY <1>1, FS_Interval
  <2>2. A \subseteq 1..Len(w)
    BY <1>1
  <2> QED
    BY <2>1, <2>2, FS_Subset
<1> HIDE DEF v
<1>3. B = IF p.n = n /\ p.part = "chunk" THEN A \cup {Len(w) + 1} ELSE A
  <2>1. DOMAIN v = DOMAIN w \cup {Len(w) + 1} /\ Len(w) + 1 \notin DOMAIN w
    BY <1>1
  <2>2. \A i \in DOMAIN w : i \in A <=> i \in B
    BY <1>1
  <2>3. Len(w) + 1 \in B <=> p.n = n /\ p.part = "chunk"
    BY <1>1
  <2> QED
    BY <2>1, <2>2, <2>3
<1>4. Len(w) + 1 \notin A
  BY <1>1
<1> HIDE DEF A, B
<1>5. Cardinality(A) \in Nat /\ Cardinality(A \cup {Len(w) + 1}) = Cardinality(A) + 1
  BY <1>2, <1>4, FS_AddElement, FS_CardinalityType
<1>6. ChunksIn(w, n) = Cardinality(A) /\ ChunksIn(Append(w, p), n) = Cardinality(B)
  BY DEF ChunksIn, A, B, v
<1> QED
  BY <1>3, <1>5, <1>6

\* Chunks are counted in numbers.
LEMMA ChunksInType ==
  ASSUME NEW w \in Seq(Parts), NEW n
  PROVE  ChunksIn(w, n) \in Nat
<1>1. PICK p : p \in Parts
  <2>1. [part |-> "full", n |-> 1, close |-> TRUE] \in Parts
    BY MaxServedType DEF Parts, PartKinds
  <2> QED
    BY <2>1
<1> QED
  BY <1>1, ChunksInSteps

\* There is no chunk of a response that has no part on the wire.
LEMMA ChunksInNone ==
  ASSUME NEW w, NEW n, \A i \in DOMAIN w : w[i].n # n
  PROVE  ChunksIn(w, n) = 0
<1>1. {i \in DOMAIN w : w[i].n = n /\ w[i].part = "chunk"} = {}
  OBVIOUS
<1> QED
  BY <1>1, FS_EmptySet DEF ChunksIn

-----------------------------------------------------------------------------
(* The steps around a streamed body.                                       *)

\* The producer sends: what was taken stays taken, the rest grows.
LEMMA WriterSendHolds ==
  ASSUME ConnInv, NEW e \in Events, WriterSend(e)
  PROVE  ConnInv'
<1>0. /\ chan' = Append(chan, e) /\ sent' = Append(sent, e)
      /\ UNCHANGED <<taskVars, rxOpen, flag, aged>>
      /\ chan \in Seq(Events) /\ sent \in Seq(Events) /\ writers' \in 0..2
  BY DEF WriterSend, ConnInv, ConnTypes
<1>1. /\ chan' \in Seq(Events) /\ Len(chan) \in Nat /\ Len(chan') = Len(chan) + 1
      /\ DOMAIN chan = 1..Len(chan) /\ DOMAIN chan' = 1..(Len(chan) + 1)
      /\ \A i \in 1..Len(chan) : chan'[i] = chan[i]
      /\ chan'[Len(chan) + 1] = e
  BY <1>0, Appended
<1>2. /\ sent' \in Seq(Events) /\ Len(sent) \in Nat /\ Len(sent') = Len(sent) + 1
      /\ DOMAIN sent = 1..Len(sent) /\ DOMAIN sent' = 1..(Len(sent) + 1)
      /\ \A i \in 1..Len(sent) : sent'[i] = sent[i]
      /\ sent'[Len(sent) + 1] = e
  BY <1>0, Appended
<1>3. ConnTypes'
  BY <1>0, <1>1, <1>2 DEF ConnInv, ConnTypes, taskVars
<1>4. Budget' /\ LogLength' /\ WireEnds' /\ NoneAhead'
  BY <1>0
     DEF ConnInv, Budget, LogLength, WireEnds, NoneAhead, Answered, LastPart,
         taskVars
<1>5. AllCompleted' /\ HandOverClean' /\ ResponsesInOrder' /\ CloseIsFinal' /\ ObservedInTurn'
  <2>1. UNCHANGED <<pc, wire, log, served, permit, req>>
    BY <1>0 DEF taskVars
  <2>2. AllCompleted'
    BY <2>1 DEF ConnInv, AllCompleted, Completed
  <2>3. HandOverClean'
    BY <2>1 DEF ConnInv, HandOverClean, Completed
  <2>4. ResponsesInOrder' /\ CloseIsFinal'
    BY <2>1 DEF ConnInv, ResponsesInOrder, CloseIsFinal
  <2>5. ObservedInTurn'
    BY <2>1 DEF ConnInv, ObservedInTurn, Completed
  <2> QED
    BY <2>2, <2>3, <2>4, <2>5
<1>6. \A k \in 0..Len(sent) : DataIn(sent', k) = DataIn(sent, k)
  BY <1>0, DataInStays
<1>7. ASSUME pc' \in {"stream_head", "stream"}
      PROVE  /\ Taken' \in Nat /\ (\A i \in DOMAIN chan' : chan'[i] = sent'[Taken' + i])
             /\ (\A i \in 1..Taken' : sent'[i] # "end")
             /\ pc' = "stream_head" => Taken' = 0
             /\ pc' = "stream" => ChunksIn(wire', served') = DataIn(sent', Taken')
  <2>1. /\ Taken \in Nat /\ Taken <= Len(sent) /\ Taken' = Taken
        /\ Taken + Len(chan) = Len(sent) /\ pc' = pc
    <3>1. pc' = pc
      BY <1>0 DEF taskVars
    <3>2. Taken \in Nat
      BY <1>7, <3>1 DEF ConnInv, BodyMatches
    <3>3. Taken' = Taken /\ Taken + Len(chan) = Len(sent)
      BY <1>1, <1>2 DEF Taken
    <3>4. Len(chan) \in Nat /\ Len(sent) \in Nat
      BY <1>1, <1>2
    <3>5. Taken <= Len(sent)
      BY <3>2, <3>3, <3>4
    <3> QED
      BY <3>1, <3>2, <3>3, <3>5
  <2>2. \A i \in DOMAIN chan' : chan'[i] = sent'[Taken + i]
    <3> SUFFICES ASSUME NEW i \in DOMAIN chan' PROVE chan'[i] = sent'[Taken + i]
      OBVIOUS
    <3>1. CASE i = Len(chan) + 1
      <4>1. Taken + i = Len(sent) + 1
        BY <1>1, <1>2, <2>1, <3>1
      <4> QED
        BY <1>1, <1>2, <3>1, <4>1
    <3>2. CASE i \in DOMAIN chan
      <4>1. Taken + i \in 1..Len(sent)
        BY <1>1, <1>2, <2>1, <3>2
      <4>2. chan[i] = sent[Taken + i]
        BY <1>7, <2>1, <3>2 DEF ConnInv, BodyMatches
      <4> QED
        BY <1>1, <1>2, <3>2, <4>1, <4>2
    <3> QED
      BY <1>1, <3>1, <3>2
  <2>3. \A i \in 1..Taken : sent'[i] # "end"
    BY <1>2, <1>7, <2>1 DEF ConnInv, BodyMatches
  <2>4. pc = "stream" => ChunksIn(wire', served') = DataIn(sent', Taken)
    <3>1. DataIn(sent', Taken) = DataIn(sent, Taken)
      BY <1>2, <1>6, <2>1
    <3> QED
      BY <1>0, <2>1, <3>1
         DEF ConnInv, BodyMatches, ChunksOf, DataBefore, ChunksIn, DataIn,
         taskVars
  <2> QED
    BY <1>7, <2>1, <2>2, <2>3, <2>4 DEF ConnInv, BodyMatches
<1>8. BodyMatches'
  BY <1>7 DEF BodyMatches, ChunksOf, DataBefore, ChunksIn, DataIn
<1>9. TerminatorTrue'
  <2>1. DataIn(sent, Len(sent)) <= DataIn(sent', Len(sent'))
    <3>1. DataIn(sent', Len(sent)) = DataIn(sent, Len(sent))
      BY <1>2, <1>6
    <3>2. /\ DataIn(sent', Len(sent)) \in Nat
          /\ DataIn(sent', Len(sent) + 1) >= DataIn(sent', Len(sent))
      <4>1. /\ DataIn(sent', Len(sent)) \in Nat
            /\ DataIn(sent', Len(sent) + 1) = IF sent'[Len(sent) + 1] = "data"
                                              THEN DataIn(sent', Len(sent)) + 1
                                              ELSE DataIn(sent', Len(sent))
        BY <1>2, DataInSteps
      <4> QED
        BY <4>1
    <3> QED
      BY <1>2, <3>1, <3>2
  <2>2. ASSUME pc' \in {"stream", "stream_done"} PROVE ChunksIn(wire', served') <= DataIn(sent', Len(sent'))
    <3>1. ChunksIn(wire, served) <= DataIn(sent, Len(sent))
      BY <1>0, <2>2
         DEF ConnInv, TerminatorTrue, ChunksOf, ChunksIn, DataBefore, DataIn,
             taskVars
    <3>2. wire \in Seq(Parts)
      BY DEF ConnInv, ConnTypes
    <3>3. ChunksIn(wire, served) \in Nat
      BY <3>2, ChunksInType
    <3>4. DataIn(sent, Len(sent)) \in Nat /\ DataIn(sent', Len(sent')) \in Nat
      BY SMTT(30), <1>2, DataInSteps
    <3> QED
      BY <1>0, <2>1, <3>1, <3>3, <3>4 DEF taskVars
  <2>3. ASSUME pc' = "stream_done", req'.kind = "stream"
        PROVE  \E k \in DOMAIN sent' :
                 /\ sent'[k] = "end" /\ \A j \in 1..(k - 1) : sent'[j] # "end"
                 /\ ChunksIn(wire', served') = DataIn(sent', k)
    <3>1. PICK k \in DOMAIN sent :
            /\ sent[k] = "end" /\ \A j \in 1..(k - 1) : sent[j] # "end"
            /\ ChunksIn(wire, served) = DataIn(sent, k)
      BY <1>0, <2>3
         DEF ConnInv, TerminatorTrue, ChunksOf, ChunksIn, DataBefore, DataIn,
             taskVars
    <3>2. /\ k \in DOMAIN sent' /\ sent'[k] = "end"
          /\ \A j \in 1..(k - 1) : sent'[j] # "end"
      BY <1>2, <3>1
    <3>3. DataIn(sent', k) = DataIn(sent, k)
      BY <1>2, <1>6
    <3> QED
      BY <1>0, <3>1, <3>2, <3>3 DEF taskVars
  <2> QED
    BY <2>2, <2>3 DEF TerminatorTrue, ChunksOf, ChunksIn, DataBefore, DataIn
<1> QED
  BY <1>3, <1>4, <1>5, <1>8, <1>9 DEF ConnInv

\* What holds of a wire with one more part of the response at hand, whatever
\* comes next.
LEMMA PartWritten ==
  ASSUME ConnInv, pc \in Serving \cup {"stream"}, NEW p, Fits(p), p.n = served,
         wire' = Append(wire, p), permit' = "task", UNCHANGED <<served, log>>
  PROVE  /\ p \in Parts /\ wire' \in Seq(Parts) /\ wire' # << >> /\ LastPart' = p
         /\ DOMAIN wire' = DOMAIN wire \cup {Len(wire) + 1}
         /\ \A i \in DOMAIN wire : wire'[i] = wire[i]
         /\ wire'[Len(wire) + 1] = p
         /\ \A n : Completed(n) => Completed(n)'
         /\ ResponsesInOrder' /\ CloseIsFinal' /\ HandOverClean' /\ ObservedInTurn'
         /\ \A i \in DOMAIN wire' : wire'[i].n <= served
         /\ \A n \in 1..(served - 1) : Completed(n)'
<1>0. wire \in Seq(Parts) /\ p \in Parts /\ served \in Nat
  BY DEF ConnInv, ConnTypes, Fits
<1>1. /\ wire' \in Seq(Parts) /\ wire' # << >>
      /\ Len(wire) \in Nat /\ DOMAIN wire = 1..Len(wire)
      /\ Len(wire') = Len(wire) + 1 /\ DOMAIN wire' = 1..(Len(wire) + 1)
      /\ \A i \in 1..Len(wire) : wire'[i] = wire[i]
      /\ wire'[Len(wire) + 1] = p
  BY <1>0, Appended
<1>2. \A n : Completed(n) => Completed(n)'
  BY <1>0, CompletedStays
<1>3. ResponsesInOrder' /\ CloseIsFinal' /\ HandOverClean'
  BY <1>0, WriteHolds DEF ConnInv, HandOverClean
<1>4. ObservedInTurn'
  BY <1>2, LogStays DEF ConnInv
<1>5. \A i \in DOMAIN wire' : wire'[i].n <= served
  <2>1. \A i \in DOMAIN wire : wire[i].n <= served
    BY <1>0, PartFields DEF ConnInv, NoneAhead, Streaming
  <2> QED
    BY <1>0, <1>1, <2>1
<1>6. \A n \in 1..(served - 1) : Completed(n)'
  BY <1>2 DEF ConnInv, AllCompleted, Streaming
<1> QED
  BY <1>0, <1>1, <1>2, <1>3, <1>4, <1>5, <1>6 DEF LastPart

\* The head of a streamed response. A bodyless one is complete with it.
LEMMA StreamHeadHolds ==
  ASSUME ConnInv, StreamHead
  PROVE  ConnInv'
<1>0. /\ pc = "stream_head" /\ pc \in Serving /\ pc # "done" /\ permit = "task"
      /\ keep \in BOOLEAN /\ req \in Requests /\ served \in Nat /\ served > 0
      /\ req.kind \in {"stream", "stream_bodyless"} /\ req.http10 \in BOOLEAN
      /\ UNCHANGED <<served, req, ext, log>> /\ QuietButChan
  BY DEF StreamHead, Serving, ConnInv, ConnTypes, Budget, Requests
<1>1. keep' \in BOOLEAN /\ (keep' => keep /\ ~req.http10)
  BY <1>0 DEF StreamHead, StillKeep, ConnInv, ConnTypes
<1>2. CASE Tear /\ Return
  <2>1. /\ Part("torn", TRUE) \in Parts /\ Part("torn", TRUE).n = served
        /\ Part("torn", TRUE).part = "torn"
    BY <1>0, PartType DEF PartKinds
  <2>2. Fits(Part("torn", TRUE))
    BY <1>0, <2>1, AnswerFits
  <2> QED
    BY <1>0, <1>1, <1>2, <2>2, ReturnsAfter DEF Tear
<1>3. CASE ~(Tear /\ Return)
  <2> DEFINE kind == IF req.kind = "stream_bodyless" THEN "full"
                     ELSE IF req.http10 THEN "head_eof" ELSE "head"
             p == Part(kind, ~keep')
  <2>0. /\ wire' = Append(wire, p)
        /\ pc' = IF req.kind = "stream_bodyless" THEN "stream_done" ELSE "stream"
        /\ UNCHANGED <<permit, rxOpen, chan>>
    BY <1>3 DEF StreamHead, Write
  <2>1. kind \in PartKinds /\ kind \in Starts
    BY DEF PartKinds, Starts
  <2>2. p \in Parts /\ p.n = served /\ p.part = kind /\ p.close = ~keep'
    <3> HIDE DEF kind
    <3> QED
      BY <1>0, <1>1, <2>1, PartType
  <2> HIDE DEF p
  <2>3. Fits(p)
    BY <1>0, <2>1, <2>2, AnswerFits
  <2>4. /\ p \in Parts /\ wire' \in Seq(Parts) /\ wire' # << >> /\ LastPart' = p
        /\ DOMAIN wire' = DOMAIN wire \cup {Len(wire) + 1}
        /\ \A i \in DOMAIN wire : wire'[i] = wire[i]
        /\ wire'[Len(wire) + 1] = p
        /\ ResponsesInOrder' /\ CloseIsFinal' /\ HandOverClean' /\ ObservedInTurn'
        /\ \A i \in DOMAIN wire' : wire'[i].n <= served
        /\ \A n \in 1..(served - 1) : Completed(n)'
    BY <1>0, <2>0, <2>2, <2>3, PartWritten
  <2>5. ConnTypes'
    BY <1>0, <1>1, <2>0, <2>4 DEF ConnInv, ConnTypes, PcStates, QuietButChan
  <2>6. Budget' /\ LogLength'
    BY <1>0, <1>1, <2>0 DEF ConnInv, Budget, LogLength, Idle, Serving, Streaming
  <2>7. WireEnds'
    BY <1>0, <1>1, <2>0, <2>2, <2>4 DEF WireEnds, Idle, Serving, Streaming
  <2>8. NoneAhead'
    <3>1. \A i \in DOMAIN wire' : wire'[i].part \in Starts /\ wire'[i].close =>
            wire'[i].n = served /\ ~keep'
      BY <1>0, <2>2, <2>4 DEF ConnInv, NoneAhead
    <3> QED
      BY <1>0, <2>0, <2>4, <3>1 DEF NoneAhead, Idle, Serving, Streaming
  <2>9. AllCompleted'
    <3>1. req.kind = "stream_bodyless" \/ req.http10 => Completed(served)'
      BY <1>0, <2>2, <2>4 DEF Completed
    <3> QED
      BY <1>0, <2>0, <2>4, <3>1 DEF AllCompleted, Idle, Serving, Streaming
  <2>10. ChunksIn(wire', served) = 0
    <3>1. ChunksIn(wire, served) = 0
      BY <1>0, ChunksInNone, PartFields DEF ConnInv, ConnTypes, NoneAhead
    <3>2. p.part # "chunk"
      BY <2>2
    <3>3. wire \in Seq(Parts)
      BY DEF ConnInv, ConnTypes
    <3> QED
      BY <2>0, <2>2, <3>1, <3>2, <3>3, ChunksInSteps
  <2>11. DataIn(sent, 0) = 0 /\ DataIn(sent, Len(sent)) \in Nat
    BY DataInNone, DataInSteps DEF ConnInv, ConnTypes
  <2>12. BodyMatches'
    <3>1. Taken = 0 /\ Taken' = 0 /\ sent' = sent /\ chan' = chan
      BY <1>0, <2>0 DEF ConnInv, BodyMatches, Taken, QuietButChan
    <3>2. \A i \in DOMAIN chan' : chan'[i] = sent'[Taken' + i]
      BY <1>0, <3>1 DEF ConnInv, BodyMatches
    <3> QED
      BY <1>0, <2>10, <2>11, <3>1, <3>2
         DEF BodyMatches, ChunksOf, ChunksIn, DataBefore, DataIn
  <2>13. TerminatorTrue'
    <3>1. ChunksIn(wire', served') <= DataIn(sent', Len(sent'))
      BY <1>0, <2>10, <2>11 DEF QuietButChan
    <3>2. ~(pc' = "stream_done" /\ req'.kind = "stream")
      BY <1>0, <2>0
    <3> QED
      BY <3>1, <3>2 DEF TerminatorTrue, ChunksOf, ChunksIn, DataBefore, DataIn
  <2> QED
    BY <2>4, <2>5, <2>6, <2>7, <2>8, <2>9, <2>12, <2>13 DEF ConnInv
<1> QED
  BY <1>2, <1>3

\* The first event not yet taken, and what counts of the body once it is.
LEMMA EventTaken ==
  ASSUME ConnInv, pc = "stream", chan # << >>, chan' = Tail(chan), UNCHANGED sent
  PROVE  /\ Taken \in Nat /\ Taken + 1 \in DOMAIN sent /\ Taken' = Taken + 1
         /\ sent[Taken + 1] = Head(chan) /\ chan' \in Seq(Events)
         /\ \A i \in DOMAIN chan' : chan'[i] = sent[Taken + 1 + i]
         /\ \A i \in 1..Taken : sent[i] # "end"
         /\ ChunksIn(wire, served) = DataIn(sent, Taken)
<1>1. /\ chan \in Seq(Events) /\ sent \in Seq(Events) /\ Taken \in Nat
      /\ \A i \in DOMAIN chan : chan[i] = sent[Taken + i]
      /\ \A i \in 1..Taken : sent[i] # "end"
      /\ ChunksIn(wire, served) = DataIn(sent, Taken)
  BY DEF ConnInv, ConnTypes, BodyMatches, ChunksOf, ChunksIn, DataBefore, DataIn
<1>2. /\ Len(chan) \in Nat /\ Len(chan) > 0 /\ Len(sent) \in Nat
      /\ DOMAIN chan = 1..Len(chan) /\ DOMAIN sent = 1..Len(sent)
      /\ Head(chan) = chan[1] /\ chan' \in Seq(Events)
      /\ Len(chan') = Len(chan) - 1 /\ DOMAIN chan' = 1..(Len(chan) - 1)
      /\ \A i \in 1..(Len(chan) - 1) : chan'[i] = chan[i + 1]
  BY <1>1
<1>3. Taken + Len(chan) = Len(sent) /\ Taken' = Taken + 1
  BY <1>2 DEF Taken
<1>4. Taken + 1 \in DOMAIN sent
  BY <1>1, <1>2, <1>3
<1>5. sent[Taken + 1] = Head(chan)
  BY <1>1, <1>2
<1>6. ASSUME NEW i \in DOMAIN chan' PROVE chan'[i] = sent[Taken + 1 + i]
  <2>1. i + 1 \in DOMAIN chan /\ Taken + (i + 1) = Taken + 1 + i
    BY <1>1, <1>2
  <2> QED
    BY <1>1, <1>2, <2>1
<1> QED
  BY <1>1, <1>2, <1>3, <1>4, <1>5, <1>6

\* An empty chunk is passed over, one with data written.
LEMMA ChunkHolds ==
  ASSUME ConnInv, StreamEvent, pc' = "stream"
  PROVE  ConnInv'
<1>0. /\ pc = "stream" /\ chan # << >> /\ chan' = Tail(chan)
      /\ UNCHANGED <<permit, rxOpen, served, req, keep, ext, log>> /\ QuietButChan
      /\ served \in Nat /\ served > 0 /\ permit = "task" /\ wire \in Seq(Parts)
      /\ req.kind = "stream" /\ req.http10 \in BOOLEAN
      /\ LastPart.part \in {"chunk", IF req.http10 THEN "head_eof" ELSE "head"}
      /\ wire # << >> /\ LastPart.n = served
      /\ \/ Head(chan) = "empty" /\ UNCHANGED wire
         \/ Head(chan) = "data" /\ wire' = Append(wire, Part("chunk", FALSE))
  BY
     DEF StreamEvent, Return, Write, ConnInv, ConnTypes, Budget, WireEnds,
         Streaming, Requests
<1>1. sent' = sent
  BY <1>0 DEF QuietButChan
<1>2. /\ Taken \in Nat /\ Taken + 1 \in DOMAIN sent /\ Taken' = Taken + 1
      /\ sent[Taken + 1] = Head(chan) /\ chan' \in Seq(Events)
      /\ \A i \in DOMAIN chan' : chan'[i] = sent[Taken + 1 + i]
      /\ \A i \in 1..Taken : sent[i] # "end"
      /\ ChunksIn(wire, served) = DataIn(sent, Taken)
  BY <1>0, <1>1, EventTaken
<1>3. /\ DataIn(sent, Taken) \in Nat
      /\ DataIn(sent, Taken + 1) = IF sent[Taken + 1] = "data" THEN DataIn(sent, Taken) + 1
                                   ELSE DataIn(sent, Taken)
  BY <1>2, DataInSteps
<1>4. /\ wire' \in Seq(Parts) /\ wire' # << >> /\ LastPart'.n = served
      /\ LastPart'.part \in {"chunk", IF req.http10 THEN "head_eof" ELSE "head"}
      /\ ResponsesInOrder' /\ CloseIsFinal' /\ HandOverClean' /\ ObservedInTurn'
      /\ \A i \in DOMAIN wire' : wire'[i].n <= served
      /\ \A i \in DOMAIN wire' : wire'[i].part \in Starts /\ wire'[i].close =>
           wire'[i].n = served /\ ~keep
      /\ \A n \in 1..(served - 1) : Completed(n)'
      /\ req.http10 => Completed(served)'
      /\ ChunksIn(wire', served) = DataIn(sent, Taken + 1)
  <2>1. CASE Head(chan) = "empty" /\ UNCHANGED wire
    <3>1. ResponsesInOrder' /\ CloseIsFinal' /\ HandOverClean' /\ ObservedInTurn'
      BY <1>0, <2>1
         DEF ConnInv, ResponsesInOrder, CloseIsFinal, HandOverClean,
             ObservedInTurn,
         Completed
    <3>2. /\ \A i \in DOMAIN wire' : wire'[i].n <= served
          /\ \A i \in DOMAIN wire' : wire'[i].part \in Starts /\ wire'[i].close =>
               wire'[i].n = served /\ ~keep
      BY <1>0, <2>1 DEF ConnInv, NoneAhead, Streaming
    <3>3. (\A n \in 1..(served - 1) : Completed(n)') /\ (req.http10 => Completed(served)')
      BY <1>0, <2>1 DEF ConnInv, AllCompleted, Streaming, Completed
    <3> QED
      BY <1>0, <1>2, <1>3, <2>1, <3>1, <3>2, <3>3 DEF LastPart
  <2>2. CASE Head(chan) = "data" /\ wire' = Append(wire, Part("chunk", FALSE))
    <3> DEFINE p == Part("chunk", FALSE)
    <3>1. p \in Parts /\ p.n = served /\ p.part = "chunk"
      BY <1>0, PartType DEF PartKinds, Streaming
    <3>2. wire' = Append(wire, p)
      BY <2>2
    <3> HIDE DEF p
    <3>3. Fits(p)
      BY <1>0, <3>1, ChunkFits
    <3>4. /\ wire' \in Seq(Parts) /\ wire' # << >> /\ LastPart' = p
          /\ DOMAIN wire' = DOMAIN wire \cup {Len(wire) + 1}
          /\ \A i \in DOMAIN wire : wire'[i] = wire[i]
          /\ wire'[Len(wire) + 1] = p
          /\ \A n : Completed(n) => Completed(n)'
          /\ ResponsesInOrder' /\ CloseIsFinal' /\ HandOverClean' /\ ObservedInTurn'
          /\ \A i \in DOMAIN wire' : wire'[i].n <= served
          /\ \A n \in 1..(served - 1) : Completed(n)'
      BY <1>0, <3>1, <3>2, <3>3, PartWritten
    <3>5. \A i \in DOMAIN wire' : wire'[i].part \in Starts /\ wire'[i].close =>
            wire'[i].n = served /\ ~keep
      BY <1>0, <3>1, <3>4 DEF ConnInv, NoneAhead, Streaming, Starts
    <3>6. req.http10 => Completed(served)'
      <4>1. req.http10 => Completed(served)
        BY <1>0 DEF ConnInv, AllCompleted
      <4> QED
        BY <1>0, <3>4, <4>1 DEF Completed
    <3>7. ChunksIn(wire', served) = DataIn(sent, Taken + 1)
      <4>1. ChunksIn(wire', served) = ChunksIn(wire, served) + 1
        BY <1>0, <3>1, <3>2, ChunksInSteps
      <4>2. DataIn(sent, Taken + 1) = DataIn(sent, Taken) + 1
        BY <1>2, <1>3, <2>2
      <4> QED
        BY <1>2, <4>1, <4>2
    <3> QED
      BY <3>1, <3>4, <3>5, <3>6, <3>7
  <2> QED
    BY <1>0, <2>1, <2>2
<1>5. ConnTypes'
  BY <1>0, <1>2, <1>4 DEF ConnInv, ConnTypes, PcStates, QuietButChan
<1>6. Budget' /\ LogLength'
  BY <1>0 DEF ConnInv, Budget, LogLength, Idle, Serving, Streaming
<1>7. WireEnds' /\ NoneAhead' /\ AllCompleted'
  <2>1. req.http10 => ~keep
    BY <1>0 DEF ConnInv, WireEnds
  <2> QED
    BY <1>0, <1>4, <2>1
       DEF WireEnds, NoneAhead, AllCompleted, Idle, Serving, Streaming
<1>8. BodyMatches'
  <2>1. ASSUME NEW i \in 1..(Taken + 1) PROVE sent[i] # "end"
    <3>1. i \in 1..Taken \/ i = Taken + 1
      BY <1>2
    <3>2. sent[Taken + 1] # "end"
      BY <1>0, <1>2
    <3> QED
      BY <1>2, <3>1, <3>2
  <2>2. Taken' = Taken + 1 /\ Taken + 1 \in Nat
    BY <1>0, <1>1, <1>2
  <2>3. \A i \in DOMAIN chan' : chan'[i] = sent'[Taken' + i]
    BY <1>0, <1>1, <1>2, <2>2
  <2>4. ChunksOf(served)' = DataBefore(Taken)'
    BY <1>0, <1>1, <1>2, <1>4, <2>2 DEF ChunksOf, ChunksIn, DataBefore, DataIn
  <2> QED
    BY <1>0, <1>1, <2>1, <2>2, <2>3, <2>4 DEF BodyMatches
<1>9. TerminatorTrue'
  <2>1. DataIn(sent, Taken + 1) <= DataIn(sent, Len(sent))
    BY <1>2, DataInMonotone DEF ConnInv, ConnTypes
  <2> QED
    BY <1>0, <1>1, <1>4, <2>1
       DEF TerminatorTrue, ChunksOf, ChunksIn, DataBefore, DataIn
<1> QED
  BY <1>4, <1>5, <1>6, <1>7, <1>8, <1>9 DEF ConnInv

\* The end is written after every chunk that was sent before it.
LEMMA EndHolds ==
  ASSUME ConnInv, StreamEvent, pc' = "stream_done"
  PROVE  ConnInv'
<1>0. /\ pc = "stream" /\ chan # << >> /\ chan' = Tail(chan) /\ Head(chan) = "end"
      /\ UNCHANGED <<permit, rxOpen, served, req, keep, ext, log>> /\ QuietButChan
      /\ served \in Nat /\ served > 0 /\ permit = "task" /\ wire \in Seq(Parts)
      /\ req.kind = "stream" /\ req.http10 \in BOOLEAN
      /\ LastPart.part \in {"chunk", IF req.http10 THEN "head_eof" ELSE "head"}
      /\ wire # << >> /\ LastPart.n = served
      /\ IF req.http10 THEN UNCHANGED wire ELSE wire' = Append(wire, Part("end", FALSE))
  BY
     DEF StreamEvent, Return, Write, ConnInv, ConnTypes, Budget, WireEnds,
         Streaming, Requests
<1>1. sent' = sent
  BY <1>0 DEF QuietButChan
<1>2. /\ Taken \in Nat /\ Taken + 1 \in DOMAIN sent
      /\ sent[Taken + 1] = Head(chan) /\ chan' \in Seq(Events)
      /\ \A i \in 1..Taken : sent[i] # "end"
      /\ ChunksIn(wire, served) = DataIn(sent, Taken)
  BY <1>0, <1>1, EventTaken
<1>3. DataIn(sent, Taken + 1) = DataIn(sent, Taken)
  <2>1. DataIn(sent, Taken + 1) = IF sent[Taken + 1] = "data" THEN DataIn(sent, Taken) + 1
                                  ELSE DataIn(sent, Taken)
    BY <1>2, DataInSteps
  <2> QED
    BY <1>0, <1>2, <2>1
<1>4. /\ wire' \in Seq(Parts) /\ wire' # << >> /\ LastPart'.n = served
      /\ IF req.http10 THEN LastPart'.part \in {"chunk", "head_eof"} ELSE LastPart'.part = "end"
      /\ ResponsesInOrder' /\ CloseIsFinal' /\ HandOverClean' /\ ObservedInTurn'
      /\ \A i \in DOMAIN wire' : wire'[i].n <= served
      /\ \A i \in DOMAIN wire' : wire'[i].part \in Starts /\ wire'[i].close =>
           wire'[i].n = served /\ ~keep
      /\ \A n \in 1..(served - 1) : Completed(n)'
      /\ Completed(served)'
      /\ ChunksIn(wire', served) = DataIn(sent, Taken)
  <2>1. CASE req.http10
    <3>1. ResponsesInOrder' /\ CloseIsFinal' /\ HandOverClean' /\ ObservedInTurn'
      <4>1. UNCHANGED <<wire, log, served, permit>>
        BY <1>0, <2>1
      <4>2. ResponsesInOrder'
        BY <4>1 DEF ConnInv, ResponsesInOrder
      <4>3. CloseIsFinal'
        BY <4>1 DEF ConnInv, CloseIsFinal
      <4>4. HandOverClean'
        BY <1>0, <4>1 DEF HandOverClean
      <4>5. ObservedInTurn'
        BY <4>1 DEF ConnInv, ObservedInTurn, Completed
      <4> QED
        BY <4>2, <4>3, <4>4, <4>5
    <3>2. /\ \A i \in DOMAIN wire' : wire'[i].n <= served
          /\ \A i \in DOMAIN wire' : wire'[i].part \in Starts /\ wire'[i].close =>
               wire'[i].n = served /\ ~keep
      BY <1>0, <2>1 DEF ConnInv, NoneAhead, Streaming
    <3>3. (\A n \in 1..(served - 1) : Completed(n)') /\ Completed(served)'
      BY <1>0, <2>1 DEF ConnInv, AllCompleted, Streaming, Completed
    <3> QED
      BY <1>0, <1>2, <2>1, <3>1, <3>2, <3>3 DEF LastPart
  <2>2. CASE ~req.http10
    <3> DEFINE p == Part("end", FALSE)
    <3>1. p \in Parts /\ p.n = served /\ p.part = "end"
      BY <1>0, PartType DEF PartKinds, Streaming
    <3>2. wire' = Append(wire, p)
      BY <1>0, <2>2
    <3> HIDE DEF p
    <3>3. Fits(p)
      BY <1>0, <2>2, <3>1, ChunkFits
    <3>4. /\ wire' \in Seq(Parts) /\ wire' # << >> /\ LastPart' = p
          /\ DOMAIN wire' = DOMAIN wire \cup {Len(wire) + 1}
          /\ \A i \in DOMAIN wire : wire'[i] = wire[i]
          /\ wire'[Len(wire) + 1] = p
          /\ ResponsesInOrder' /\ CloseIsFinal' /\ HandOverClean' /\ ObservedInTurn'
          /\ \A i \in DOMAIN wire' : wire'[i].n <= served
          /\ \A n \in 1..(served - 1) : Completed(n)'
      BY <1>0, <3>1, <3>2, <3>3, PartWritten
    <3>5. \A i \in DOMAIN wire' : wire'[i].part \in Starts /\ wire'[i].close =>
            wire'[i].n = served /\ ~keep
      BY <1>0, <3>1, <3>4 DEF ConnInv, NoneAhead, Streaming, Starts
    <3>6. Completed(served)'
      BY <1>0, <3>1, <3>4 DEF Completed
    <3>7. ChunksIn(wire', served) = DataIn(sent, Taken)
      <4>1. ChunksIn(wire', served) = ChunksIn(wire, served)
        BY <1>0, <3>1, <3>2, ChunksInSteps
      <4> QED
        BY <1>2, <4>1
    <3> QED
      BY <2>2, <3>1, <3>4, <3>5, <3>6, <3>7
  <2> QED
    BY <2>1, <2>2
<1>5. ConnTypes'
  BY <1>0, <1>2, <1>4 DEF ConnInv, ConnTypes, PcStates, QuietButChan
<1>6. Budget' /\ LogLength' /\ BodyMatches'
  BY <1>0 DEF ConnInv, Budget, LogLength, BodyMatches, Idle, Serving, Streaming
<1>7. WireEnds' /\ NoneAhead' /\ AllCompleted'
  <2>1. req.http10 => ~keep
    BY <1>0 DEF ConnInv, WireEnds
  <2> QED
    BY <1>0, <1>4, <2>1
       DEF WireEnds, NoneAhead, AllCompleted, Idle, Serving, Streaming
<1>8. TerminatorTrue'
  <2>1. DataIn(sent, Taken + 1) <= DataIn(sent, Len(sent))
    BY <1>2, DataInMonotone DEF ConnInv, ConnTypes
  <2>2. /\ Taken + 1 \in DOMAIN sent /\ sent[Taken + 1] = "end"
        /\ \A j \in 1..(Taken + 1 - 1) : sent[j] # "end"
        /\ ChunksIn(wire', served) = DataIn(sent, Taken + 1)
    <3>1. /\ Taken + 1 \in DOMAIN sent /\ sent[Taken + 1] = "end"
          /\ ChunksIn(wire', served) = DataIn(sent, Taken + 1)
      BY <1>0, <1>2, <1>3, <1>4
    <3>2. Taken + 1 - 1 = Taken
      BY <1>2
    <3> QED
      BY <1>2, <3>1, <3>2
  <2>3. /\ ChunksIn(wire', served') <= DataIn(sent', Len(sent'))
        /\ \E k \in DOMAIN sent' :
             /\ sent'[k] = "end" /\ \A j \in 1..(k - 1) : sent'[j] # "end"
             /\ ChunksIn(wire', served') = DataIn(sent', k)
    <3>1. ChunksIn(wire', served') <= DataIn(sent', Len(sent'))
      BY <1>0, <1>1, <2>1, <2>2
    <3>2. served' = served /\ Taken + 1 - 1 = Taken
      BY <1>0, <1>2
    <3>3. PICK k : k = Taken + 1
      OBVIOUS
    <3>4. k \in DOMAIN sent' /\ sent'[k] = "end" /\ k - 1 = Taken
      BY <1>1, <1>2, <2>2, <3>2, <3>3
    <3>5. \A j \in 1..(k - 1) : sent'[j] # "end"
      BY <1>1, <1>2, <3>4
    <3>6. ChunksIn(wire', served') = DataIn(sent', k)
      BY <1>1, <2>2, <3>2, <3>3
    <3> QED
      BY <3>1, <3>4, <3>5, <3>6
  <2> QED
    BY <2>3 DEF TerminatorTrue, ChunksOf, ChunksIn, DataBefore, DataIn
<1> QED
  BY <1>4, <1>5, <1>6, <1>7, <1>8 DEF ConnInv

\* A body that is cut: the task returns, with at most a torn chunk more.
LEMMA CutHolds ==
  ASSUME ConnInv, StreamEvent, pc' \notin {"stream", "stream_done"}
  PROVE  ConnInv'
<1>0. /\ pc = "stream" /\ Return /\ UNCHANGED <<served, req, keep, ext, log>> /\ QuietButChan
      /\ keep' \in BOOLEAN /\ pc # "done"
      /\ UNCHANGED wire \/ wire' = Append(wire, Part("torn", TRUE))
  BY DEF StreamEvent, Tear, ConnInv, ConnTypes
<1>1. CASE UNCHANGED wire
  BY <1>0, <1>1, ReturnsSilently
<1>2. CASE wire' = Append(wire, Part("torn", TRUE))
  <2>1. /\ Part("torn", TRUE) \in Parts /\ Part("torn", TRUE).n = served
        /\ Part("torn", TRUE).part = "torn"
    BY <1>0, PartType DEF PartKinds, Streaming
  <2>2. Fits(Part("torn", TRUE))
    BY <1>0, <2>1, ChunkFits
  <2> QED
    BY <1>0, <1>2, <2>2, ReturnsAfter
<1> QED
  BY <1>0, <1>1, <1>2

\* A streamed response is complete: the middlewares hear of it, and the loop
\* goes round if nobody was told otherwise.
LEMMA StreamDoneHolds ==
  ASSUME ConnInv, StreamDone
  PROVE  ConnInv'
<1>0. /\ pc = "stream_done" /\ pc # "done" /\ permit = "task" /\ keep \in BOOLEAN
      /\ log' = Append(log, <<"response", served>>)
      /\ UNCHANGED <<served, req, keep, ext, wire>> /\ QuietButChan
      /\ served \in 1..MaxServed /\ served \in Nat
      /\ log \in Seq(LogEntries) /\ Len(log) = 2 * served - 1 /\ wire \in Seq(Parts)
  BY MaxServedType
     DEF StreamDone, ConnInv, ConnTypes, Budget, LogLength, Streaming
<1>1. \A n : Completed(n) => Completed(n)'
  BY <1>0 DEF Completed
<1>2. Completed(served)'
  BY <1>0 DEF ConnInv, AllCompleted, Completed
<1>3. log' \in Seq(LogEntries) /\ ObservedInTurn' /\ Len(log') = 2 * served
  BY <1>0, <1>1, <1>2, ResponseLogged DEF ConnInv
<1>4. permit' # "session"
  BY <1>0 DEF StreamDone, Return
<1>5. wire' \in Seq(Parts) /\ ResponsesInOrder' /\ CloseIsFinal'
  BY <1>0, <1>4, StaysHolds DEF ConnInv
<1>6. CASE ~StillKeep
  BY <1>0, <1>3, <1>5, <1>6, ReturnHolds DEF StreamDone
<1>7. CASE StillKeep
  <2>0. /\ pc' = "top" /\ rxOpen' = FALSE /\ chan' = << >> /\ UNCHANGED permit
        /\ keep
    BY <1>7 DEF StreamDone, StillKeep
  <2>1. ConnTypes'
    <3>1. << >> \in Seq(Events)
      OBVIOUS
    <3> QED
      BY <1>0, <1>3, <1>5, <2>0, <3>1
         DEF ConnInv, ConnTypes, PcStates, QuietButChan
  <2>2. Budget' /\ LogLength'
    BY <1>0, <1>3, <2>0 DEF ConnInv, Budget, LogLength, Idle, Serving, Streaming
  <2>3. WireEnds'
    <3>1. wire # << >> /\ LastPart.n = served /\ LastPart.part \in {"full", "end"}
      BY <1>0, <2>0 DEF ConnInv, WireEnds, Streaming
    <3> QED
      BY SMTT(30), <1>0, <2>0, <3>1
         DEF WireEnds, Answered, LastPart, Idle, Serving, Streaming
  <2>4. NoneAhead'
    BY <1>0, <2>0 DEF ConnInv, NoneAhead, Idle, Serving, Streaming
  <2>5. AllCompleted'
    <3>1. \A n \in 1..served : Completed(n)
      BY <1>0 DEF ConnInv, AllCompleted, Streaming
    <3> QED
      BY <1>0, <2>0, <3>1 DEF AllCompleted, Completed, Idle, Serving, Streaming
  <2>6. HandOverClean' /\ BodyMatches' /\ TerminatorTrue'
    BY <1>0, <2>0 DEF HandOverClean, BodyMatches, TerminatorTrue
  <2> QED
    BY <1>3, <1>5, <2>1, <2>2, <2>3, <2>4, <2>5, <2>6 DEF ConnInv
<1> QED
  BY <1>6, <1>7

-----------------------------------------------------------------------------
\* A new connection satisfies the invariant.
LEMMA ConnInitHolds == Init => ConnInv
<1> SUFFICES ASSUME Init PROVE ConnInv
  OBVIOUS
<1>1. ConnTypes
  <2>1. << >> \in Seq(Events) /\ << >> \in Seq(Parts) /\ << >> \in Seq(LogEntries)
    OBVIOUS
  <2>2. req \in Requests
    BY DEF Init, NoRequest, Requests, Kinds
  <2>3. ext \subseteq {served} \X (1..Gates)
    BY DEF Init
  <2>4. /\ wire \in Seq(Parts) /\ log \in Seq(LogEntries)
        /\ chan \in Seq(Events) /\ sent \in Seq(Events)
    BY <2>1 DEF Init
  <2>5. /\ flag \in BOOLEAN /\ aged \in BOOLEAN /\ keep \in BOOLEAN /\ rxOpen \in BOOLEAN
    BY DEF Init
  <2>6. served \in Nat /\ writers \in 0..2
    BY DEF Init
  <2>7. pc \in PcStates /\ permit = "task" /\ pc # "done"
    BY DEF Init, PcStates
  <2> QED
    BY <2>2, <2>3, <2>4, <2>5, <2>6, <2>7 DEF ConnTypes
<1>2. Budget /\ WireEnds /\ NoneAhead /\ AllCompleted /\ LogLength /\ BodyMatches
  <2>1. /\ pc = "top" /\ served = 0 /\ ext = {} /\ wire = << >> /\ log = << >>
        /\ pc \in Idle /\ pc \notin Serving \cup Streaming
        /\ pc \notin {"stream_head", "stream", "stream_done"}
    BY DEF Init, Idle, Serving, Streaming
  <2>2. DOMAIN wire = {} /\ Len(log) = 0 /\ 1..served = {}
    BY <2>1
  <2>3. Budget
    BY <2>1, MaxServedType DEF Budget
  <2>4. WireEnds
    BY <2>1 DEF WireEnds, Answered
  <2>5. NoneAhead /\ AllCompleted /\ BodyMatches
    BY <2>1, <2>2 DEF NoneAhead, AllCompleted, BodyMatches
  <2>6. LogLength
    BY <2>1, <2>2 DEF LogLength
  <2> QED
    BY <2>3, <2>4, <2>5, <2>6
<1>3. ResponsesInOrder /\ CloseIsFinal /\ HandOverClean /\ TerminatorTrue /\ ObservedInTurn
  BY
     DEF Init, ResponsesInOrder, CloseIsFinal, HandOverClean, TerminatorTrue,
         ObservedInTurn
<1> QED
  BY <1>1, <1>2, <1>3 DEF ConnInv

\* Every step of the task, of the producer and of what is around them keeps the
\* invariant of the connection.
LEMMA ConnStepHolds == ConnInv /\ [Next]_vars => ConnInv'
<1> SUFFICES ASSUME ConnInv, [Next]_vars PROVE ConnInv'
  OBVIOUS
<1>0. /\ keep \in BOOLEAN /\ flag \in BOOLEAN /\ aged \in BOOLEAN /\ writers \in 0..2
  BY DEF ConnInv, ConnTypes
<1>1. CASE Top \/ ReadEnds \/ ReadError
  BY <1>1, ReadingHolds
<1>2. CASE Refuse
  BY <1>2, RefuseHolds
<1>3. CASE WriteRejection \/ Respond
  BY <1>3, RespondHolds
<1>4. CASE Upgrade
  BY <1>4, UpgradeHolds
<1>5. CASE Route \/ Intercept \/ Handle
  BY <1>5, InterceptHolds
<1>6. CASE StreamHead
  BY <1>6, StreamHeadHolds
<1>7. CASE StreamEvent
  BY <1>7, ChunkHolds, EndHolds, CutHolds
<1>8. CASE StreamAborted \/ TaskDies
  <2>1. /\ pc # "done" /\ Return /\ UNCHANGED <<served, req, keep, ext, wire, log>>
        /\ QuietButChan
    BY <1>8 DEF StreamAborted, TaskDies, PcStates
  <2> QED
    BY <1>0, <2>1, ReturnsSilently
<1>9. CASE StreamDone
  BY <1>9, StreamDoneHolds
<1>10. CASE \E r \in Requests : ReadRequest(r)
  BY <1>10, ReadRequestHolds
<1>11. CASE \E event \in {"data", "empty", "end"} : WriterSend(event)
  BY <1>11, WriterSendHolds DEF Events
<1>12. CASE WriterDrop \/ SetFlag \/ Age \/ UNCHANGED vars
  <2>1. /\ UNCHANGED <<taskVars, chan, rxOpen, sent>>
        /\ flag' \in BOOLEAN /\ aged' \in BOOLEAN /\ writers' \in 0..2
    <3>1. CASE WriterDrop
      BY <1>0, <3>1 DEF WriterDrop
    <3>2. CASE SetFlag \/ Age
      BY <1>0, <3>2 DEF SetFlag, Age, chanVars
    <3>3. CASE UNCHANGED vars
      BY <1>0, <3>3 DEF vars, chanVars
    <3> QED
      BY <1>12, <3>1, <3>2, <3>3
  <2> QED
    BY <2>1, AsideHolds
<1> QED
  BY <1>1, <1>2, <1>3, <1>4, <1>5, <1>6, <1>7, <1>8, <1>9, <1>10, <1>11, <1>12
     DEF Next, Task, Producer

\* For any limit of requests, any gates, any capacity of the body channel and
\* any sequence of events in it: the responses on a connection are in the order
\* of the requests and whole before the next, one that announces the end is the
\* last, a body is declared complete only after finish and with every chunk
\* sent before it, and a session takes over a connection that is all answered
\* (handle_connection_with_permit, write_streaming_response,
\* try_handle_upgrade).
THEOREM WireIsInOrder == Spec => []WireInOrder
<1>1. ConnInv => WireInOrder
  <2> SUFFICES ASSUME ConnInv PROVE WireInOrder
    OBVIOUS
  <2>1. /\ \A i \in DOMAIN wire : wire[i] \in Parts
        /\ \A i \in DOMAIN log : log[i] \in LogEntries
        /\ \A i \in DOMAIN chan : chan[i] \in Events
        /\ \A i \in DOMAIN sent : sent[i] \in Events
    BY DEF ConnInv, ConnTypes
  <2>2. served \in 0..MaxServed /\ ext \subseteq (1..MaxServed) \X (1..Gates)
    BY MaxServedType DEF ConnInv, ConnTypes, Budget
  <2>3. (permit = "task") = (pc # "done")
    BY DEF ConnInv, ConnTypes
  <2>4. TypeOK
    BY <2>1, <2>2, <2>3 DEF ConnInv, ConnTypes, TypeOK, Parts, LogEntries, Events
  <2> QED
    BY <2>4 DEF ConnInv, WireInOrder
<1> QED
  BY <1>1, ConnInitHolds, ConnStepHolds, PTL DEF Spec

\* For any number of requests and gates, middlewares see requests and complete
\* responses strictly in turn, and the extensions at hand are those of the
\* request at hand.
THEOREM SeenIsInTurn == Spec => []SeenInTurn
<1>1. ConnInv => SeenInTurn
  BY DEF ConnInv, ConnTypes, SeenInTurn, ExtensionsOfThisRequest
<1> QED
  BY <1>1, ConnInitHolds, ConnStepHolds, PTL DEF Spec
=============================================================================
