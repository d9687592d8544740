-------------------------- MODULE WsSessionProofs --------------------------
(***************************************************************************)
(* A WebSocket session keeps its promises to those who send on it, for any *)
(* number of senders, any capacity of the outbound queue, any number of    *)
(* operations and messages: what was accepted is conserved and written in  *)
(* order, nothing follows a Close frame, and a handler's reply has its     *)
(* place.                                                                  *)
(***************************************************************************)
EXTENDS WsSession, SelectionProofs, FiniteSetTheorems

\* Where the session is, told by its receiver.
Serving == {"loop", "send", "handler", "drain", "apply", "to_close", "reply"}
Flushing == {"flush", "flush_send", "plain_close"}
Leaving == {"closing", "draining", "ended"}

\* Messages of a WsSender, and what may be in flight beside them.
Messages == {"send"} \X Senders \X (1..MaxOps)
Committing == {s \in Senders : op[s] = "commit"}

\* Which part of the session's code goes with which state of the receiver,
\* and where a frame may be in flight.
Places ==
  /\ sess \in Serving => rx = "open"
  /\ sess \in Flushing => rx = "closed" /\ closing
  /\ sess \in Leaving => rx = "dropped" /\ closing
  /\ rx = "dropped" => queue = << >>
  /\ sess = "plain_close" => queue = << >>
  /\ inflight \in Messages \cup {NoFrame, Reply, Ping}
  /\ inflight # NoFrame <=> sess \in {"send", "flush_send"}
  /\ sess = "flush_send" => inflight \in Messages
  /\ sess = "closing" => Ends(frame)

\* What enters the queue is an item of a sender, and a sender that reserved a
\* permit can use it.
Permits ==
  /\ queue \in Seq(OutboundItem) /\ accepted \in Seq(OutboundItem)
  /\ \A s \in Senders : op[s] # "idle" => ops[s] >= 1
  /\ Len(queue) + Cardinality(Committing) <= Capacity

\* close() is the last item, and while the queue is served it is still there
\* once closing is set.
CloseIsLast ==
  /\ \A i \in DOMAIN queue : IsClose(queue[i]) => i = Len(queue) /\ closing
  /\ rx = "open" /\ closing => queue # << >> /\ IsClose(queue[Len(queue)])

\* No Close frame is on the wire before close_and_drain or the handler's
\* close wrote it, and the frame that goes out next completes what was
\* accepted.
CloseCompletes ==
  /\ sess \notin {"draining", "ended"} => \A i \in DOMAIN wire : ~Ends(wire[i])
  /\ sess = "closing" =>
       /\ IsClose(frame) => accepted = Append(Items(wire), frame)
       /\ frame = <<"handler_close">> => accepted = Items(wire)

\* Items on the wire or being written.
Served == Len(Items(wire)) + Len(Items(<<inflight>>))

\* drain_before_reply has as many rounds left as it needs for what was
\* accepted when the handler returned; drain_to_close is entered, and goes on,
\* with closing set.
DrainCovers ==
  LET at == IF sess = "send" THEN cont ELSE sess
  IN  /\ at = "drain" => due <= Len(accepted) /\ due <= Served + left
      /\ at \in {"apply", "to_close", "reply"} => due <= Served
      /\ at = "to_close" => closing

SessionInv ==
  /\ TypeOK /\ Places /\ Permits /\ AcceptedConserved /\ AllBeforeClose
  /\ CloseIsLast /\ CloseCompletes /\ DrainCovers

-----------------------------------------------------------------------------
(* Frames and the items among them.                                        *)

\* The frames whose writing completes what was accepted.
Final(f) == f[1] \in {"close", "handler_close"}

Closings == {<<"away">>, <<"plain">>, <<"size">>, <<"handler_close">>}

\* Which frames are items, which end the session, and that they differ.
LEMMA FrameFacts ==
  /\ Messages \subseteq OutboundItem /\ OutboundItem \subseteq Frames
  /\ Closings \subseteq Frames /\ {NoFrame, Reply, Ping} \subseteq Frames
  /\ \A f \in Messages : ~Ends(f) /\ f \notin {NoFrame, Reply, Ping}
  /\ \A f \in OutboundItem :
       IF IsClose(f) THEN Ends(f) /\ Final(f) /\ f # <<"handler_close">>
       ELSE f \in Messages
  /\ \A f \in Closings : f \notin OutboundItem /\ ~IsClose(f) /\ Ends(f)
  /\ \A f \in Closings : Final(f) <=> f = <<"handler_close">>
  /\ \A f \in {NoFrame, Reply, Ping} : f \notin OutboundItem /\ ~Ends(f)
  /\ NoFrame # Ping /\ NoFrame # Reply /\ Reply # Ping
  /\ \A f \in Frames : Ends(f) => f \in Closings \/ (f \in OutboundItem /\ IsClose(f))
<1> USE DEF Messages, OutboundItem, Frames, Closings, NoFrame, Reply, Ping, Ends,
            IsClose, Final
<1>1. Messages \subseteq OutboundItem /\ OutboundItem \subseteq Frames
  OBVIOUS
<1>2. Closings \subseteq Frames /\ {NoFrame, Reply, Ping} \subseteq Frames
  OBVIOUS
<1>3. \A f \in Messages : ~Ends(f) /\ f \notin {NoFrame, Reply, Ping}
  OBVIOUS
<1>4. \A f \in OutboundItem :
        IF IsClose(f) THEN Ends(f) /\ Final(f) /\ f # <<"handler_close">>
        ELSE f \in Messages
  OBVIOUS
<1>5. \A f \in Closings : f \notin OutboundItem /\ ~IsClose(f) /\ Ends(f)
  OBVIOUS
<1>6. \A f \in Closings : Final(f) <=> f = <<"handler_close">>
  OBVIOUS
<1>7. \A f \in {NoFrame, Reply, Ping} : f \notin OutboundItem /\ ~Ends(f)
  OBVIOUS
<1>8. NoFrame # Ping /\ NoFrame # Reply /\ Reply # Ping
  OBVIOUS
<1>9. \A f \in Frames : Ends(f) => f \in Closings \/ (f \in OutboundItem /\ IsClose(f))
  OBVIOUS
<1> QED
  BY <1>1, <1>2, <1>3, <1>4, <1>5, <1>6, <1>7, <1>8, <1>9

\* The items of a sequence of frames are a sequence of items.
LEMMA ItemsType ==
  ASSUME NEW w \in Seq(Frames)
  PROVE  Items(w) \in Seq(OutboundItem)
<1>1. Select(w, OutboundItem) \in Seq(Frames \cap OutboundItem)
  BY SelectType
<1>2. Frames \cap OutboundItem = OutboundItem
  BY FrameFacts
<1> QED
  BY <1>1, <1>2 DEF Items

\* One more frame: an item is added, another frame makes no difference.
LEMMA ItemsAppend ==
  ASSUME NEW w \in Seq(Frames), NEW f
  PROVE  Items(Append(w, f)) =
           IF f \in OutboundItem THEN Append(Items(w), f) ELSE Items(w)
BY SelectAppend DEF Items

\* The items of a single frame.
LEMMA ItemsOne ==
  ASSUME NEW f
  PROVE  Items(<<f>>) = IF f \in OutboundItem THEN <<f>> ELSE << >>
<1>1. << >> \in Seq(Frames) /\ Append(<< >>, f) = <<f>>
  OBVIOUS
<1>2. Items(<< >>) = << >>
  BY SelectEmpty DEF Items
<1>3. Append(<< >>, f) = <<f>>
  OBVIOUS
<1> QED
  BY <1>1, <1>2, <1>3, ItemsAppend

\* Appending to the end of three parts.
LEMMA ConcatAppend ==
  ASSUME NEW T, NEW a \in Seq(T), NEW b \in Seq(T), NEW c \in Seq(T), NEW e \in T
  PROVE  a \o b \o Append(c, e) = Append(a \o b \o c, e)
<1>1. a \o b \in Seq(T)
  OBVIOUS
<1> DEFINE d == a \o b
<1> HIDE DEF d
<1>2. d \o Append(c, e) = Append(d \o c, e)
  BY <1>1 DEF d
<1> QED
  BY <1>2 DEF d

\* While nothing is in flight the queue is what the wire lacks.
LEMMA ConservedAtRest ==
  ASSUME SessionInv, rx # "dropped", inflight \notin OutboundItem
  PROVE  accepted = Items(wire) \o queue
<1>1. Items(<<inflight>>) = << >>
  BY ItemsOne
<1>2. Items(wire) \in Seq(OutboundItem) /\ queue \in Seq(OutboundItem)
  BY ItemsType DEF SessionInv, TypeOK, Permits
<1>3. Items(wire) \o << >> = Items(wire)
  BY <1>2
<1> QED
  BY <1>1, <1>3 DEF SessionInv, AcceptedConserved

-----------------------------------------------------------------------------
(* The operations of WsSender.                                             *)

\* Initially nothing was accepted.
LEMMA InitKept == Init => SessionInv
<1> SUFFICES ASSUME Init PROVE SessionInv
  OBVIOUS
<1> USE DEF Init
<1>1. << >> \in Seq(Frames) /\ << >> \in Seq(OutboundItem) /\ Len(<< >>) = 0
  OBVIOUS
<1>2. Committing = {} /\ Cardinality(Committing) = 0
  BY FS_EmptySet DEF Committing
<1>3. TypeOK
  <2>1. inflight \in Frames /\ frame \in Frames
    BY FrameFacts
  <2>2. queue \in Seq(Frames) /\ accepted \in Seq(Frames) /\ wire \in Seq(Frames)
        /\ Len(queue) <= Capacity
    BY <1>1, WsAssumption
  <2>3. {pingOn, prefer, pinged, cancel, closing, requested, closed} \subseteq BOOLEAN
    OBVIOUS
  <2>4. ops \in [Senders -> 0..MaxOps] /\ left \in 0..Capacity
        /\ messages \in 0..MaxMessages /\ due \in Nat
    BY WsAssumption
  <2>5. op \in [Senders -> {"idle", "reserve", "commit", "signal"}]
        /\ what \in [Senders -> {"send", "close"}]
    OBVIOUS
  <2> QED
    BY <2>1, <2>2, <2>3, <2>4, <2>5 DEF TypeOK
<1>4. Places
  BY DEF Places, Serving, Flushing, Leaving
<1>5. Permits
  BY <1>1, <1>2, WsAssumption DEF Permits
<1>6. AcceptedConserved
  <2>1. Items(<< >>) = << >>
    BY SelectEmpty DEF Items
  <2>2. Items(<<inflight>>) = << >>
    BY ItemsOne, FrameFacts
  <2> QED
    BY <2>1, <2>2 DEF AcceptedConserved
<1>7. AllBeforeClose /\ CloseIsLast /\ CloseCompletes /\ DrainCovers
  BY DEF AllBeforeClose, CloseIsLast, CloseCompletes, DrainCovers
<1> QED
  BY <1>3, <1>4, <1>5, <1>6, <1>7 DEF SessionInv

\* A step of a sender that changes neither the queue nor closing disturbs
\* nothing of what is said about the session.
LEMMA SessionUntouched ==
  ASSUME SessionInv, UNCHANGED <<sessVars, queue, rx, closing, accepted>>
  PROVE  /\ Places' /\ AcceptedConserved' /\ AllBeforeClose' /\ CloseIsLast'
         /\ CloseCompletes' /\ DrainCovers'
<1> USE DEF SessionInv, sessVars
<1>1. Places' /\ CloseIsLast'
  BY DEF Places, CloseIsLast
<1>2. AcceptedConserved'
  BY DEF AcceptedConserved
<1>3. AllBeforeClose'
  BY DEF AllBeforeClose
<1>4. CloseCompletes'
  BY DEF CloseCompletes
<1>5. DrainCovers'
  BY DEF DrainCovers, Served
<1> QED
  BY <1>1, <1>2, <1>3, <1>4, <1>5

\* Permits are counted as senders reserve and use them.
LEMMA CommittingCount ==
  ASSUME NEW s \in Senders, \A r \in Senders \ {s} : op'[r] = op[r]
  PROVE  /\ Cardinality(Committing) \in Nat /\ Cardinality(Committing)' \in Nat
         /\ Cardinality(Committing)' =
              Cardinality(Committing) - (IF op[s] = "commit" THEN 1 ELSE 0)
                                      + (IF op'[s] = "commit" THEN 1 ELSE 0)
<1>1. IsFiniteSet(Committing) /\ Cardinality(Committing) \in Nat
  BY WsAssumption, FS_Subset, FS_CardinalityType DEF Committing
<1>3. op[s] = "commit" <=> s \in Committing
  BY DEF Committing
<1>4. CASE op'[s] = "commit"
  <2>1. Committing' = Committing \cup {s}
    BY <1>4 DEF Committing
  <2> QED
    BY <1>1, <1>3, <1>4, <2>1, FS_AddElement, FS_CardinalityType
<1>5. CASE op'[s] # "commit"
  <2>1. Committing' = Committing \ {s}
    BY <1>5 DEF Committing
  <2> QED
    BY <1>1, <1>3, <1>5, <2>1, FS_RemoveElement, FS_CardinalityType
<1> QED
  BY <1>4, <1>5

\* What the type invariant says of the senders, apart from the session.
SenderTypes ==
  /\ {requested, closing, closed} \subseteq BOOLEAN
  /\ op \in [Senders -> {"idle", "reserve", "commit", "signal"}]
  /\ what \in [Senders -> {"send", "close"}]
  /\ ops \in [Senders -> 0..MaxOps]
  /\ queue \in Seq(Frames) /\ accepted \in Seq(Frames) /\ Len(queue) <= Capacity

\* The rest of the type invariant is the session's.
LEMMA SessionTypesUntouched ==
  ASSUME TypeOK, UNCHANGED <<pingOn, sessVars, rx>>, SenderTypes', cancel' \in BOOLEAN
  PROVE  TypeOK'
<1> USE DEF TypeOK, sessVars, SenderTypes
<1>1. {pingOn, prefer, pinged, cancel, closing, requested, closed}' \subseteq BOOLEAN
  OBVIOUS
<1>2. inflight' \in Frames /\ frame' \in Frames /\ wire' \in Seq(Frames)
  OBVIOUS
<1>3. left' \in 0..Capacity /\ messages' \in 0..MaxMessages /\ due' \in Nat
  OBVIOUS
<1> QED
  BY <1>1, <1>2, <1>3

\* send and close begin: the operation is counted.
LEMMA BeginKept ==
  ASSUME SessionInv, NEW s \in Senders, NEW w \in {"send", "close"}, Begin(s, w)
  PROVE  SessionInv'
<1> USE DEF SessionInv, Begin
<1>1. op[s] = "idle" /\ ops[s] < MaxOps
  BY DEF MayBegin
<1>2. ops[s] \in 0..MaxOps /\ ops[s] + 1 \in 0..MaxOps
  BY <1>1, WsAssumption DEF TypeOK
<1>3. SenderTypes'
  <2>1. ops' \in [Senders -> 0..MaxOps]
    BY <1>2 DEF TypeOK
  <2>2. op' \in [Senders -> {"idle", "reserve", "commit", "signal"}]
        /\ what' \in [Senders -> {"send", "close"}]
    BY DEF TypeOK
  <2>3. {requested, closing, closed}' \subseteq BOOLEAN
    BY DEF TypeOK
  <2> QED
    BY <2>1, <2>2, <2>3 DEF SenderTypes, TypeOK
<1>4. TypeOK'
  BY <1>3, SessionTypesUntouched DEF TypeOK
<1>5. Permits'
  <2>1. \A r \in Senders : op'[r] # "idle" => ops'[r] >= 1
    BY <1>2 DEF Permits, TypeOK
  <2>2. Cardinality(Committing)' = Cardinality(Committing)
    <3>1. op'[s] = "reserve" /\ \A r \in Senders \ {s} : op'[r] = op[r]
      BY DEF TypeOK
    <3> QED
      BY <1>1, <3>1, CommittingCount
  <2> QED
    BY <2>1, <2>2 DEF Permits
<1> QED
  BY <1>4, <1>5, SessionUntouched

\* try_send takes a permit at once.
LEMMA TrySendKept ==
  ASSUME SessionInv, NEW s \in Senders, TrySend(s)
  PROVE  SessionInv'
<1> USE DEF SessionInv, TrySend, sharedVars
<1>1. op[s] = "idle" /\ ops[s] < MaxOps
  BY DEF MayBegin
<1>2. ops[s] \in 0..MaxOps /\ ops[s] + 1 \in 0..MaxOps
  BY <1>1, WsAssumption DEF TypeOK
<1>3. SenderTypes'
  <2>1. ops' \in [Senders -> 0..MaxOps]
    BY <1>2 DEF TypeOK
  <2>2. op' \in [Senders -> {"idle", "reserve", "commit", "signal"}]
        /\ what' \in [Senders -> {"send", "close"}]
    BY DEF TypeOK
  <2> QED
    BY <2>1, <2>2 DEF SenderTypes, TypeOK
<1>4. TypeOK'
  BY <1>3, SessionTypesUntouched DEF TypeOK
<1>5. Permits'
  <2>1. \A r \in Senders : op'[r] # "idle" => ops'[r] >= 1
    BY <1>2 DEF Permits, TypeOK
  <2>2. Cardinality(Committing)' = Cardinality(Committing) + 1
        /\ Cardinality(Committing) \in Nat
    <3>1. op'[s] = "commit" /\ \A r \in Senders \ {s} : op'[r] = op[r]
      BY DEF TypeOK
    <3> QED
      BY <1>1, <3>1, CommittingCount
  <2>3. Len(queue) + Cardinality(Committing) < Capacity
    BY DEF HasRoom, Committing
  <2>4. Len(queue) \in Nat
    BY DEF TypeOK
  <2> QED
    BY <2>1, <2>2, <2>3, <2>4, WsAssumption DEF Permits
<1> QED
  BY <1>4, <1>5, SessionUntouched

\* An operation ends without effect, or its permit is reserved.
LEMMA MovesOn ==
  ASSUME SessionInv, NEW s \in Senders, op[s] # "idle", NEW x,
         x \in {"idle", "signal"} \/ (x = "commit" /\ HasRoom),
         op' = [op EXCEPT ![s] = x], {requested, closed}' \subseteq BOOLEAN,
         UNCHANGED <<pingOn, sessVars, what, ops, accepted, queue, rx, closing, cancel>>
  PROVE  SessionInv'
<1> USE DEF SessionInv
<1>1. SenderTypes'
  <2>1. op' \in [Senders -> {"idle", "reserve", "commit", "signal"}]
    BY DEF TypeOK
  <2> QED
    BY <2>1 DEF SenderTypes, TypeOK
<1>2. TypeOK'
  BY <1>1, SessionTypesUntouched DEF TypeOK
<1>3. Permits'
  <2>1. \A r \in Senders : op'[r] # "idle" => ops'[r] >= 1
    BY DEF Permits, TypeOK
  <2>2. Len(queue) + Cardinality(Committing)' <= Capacity
    <3>1. Len(queue) \in Nat /\ Len(queue) + Cardinality(Committing) <= Capacity
      BY DEF TypeOK, Permits
    <3>2. x = "commit" => Len(queue) + Cardinality(Committing) < Capacity
      BY DEF HasRoom, Committing
    <3>3. op'[s] = x /\ \A r \in Senders \ {s} : op'[r] = op[r]
      BY DEF TypeOK
    <3> QED
      BY <3>1, <3>2, <3>3, CommittingCount, WsAssumption
  <2> QED
    BY <2>1, <2>2 DEF Permits
<1> QED
  BY <1>2, <1>3, SessionUntouched

\* What Finish leaves in requested is a truth value.
LEMMA FinishType ==
  ASSUME TypeOK, NEW s, NEW c \in BOOLEAN, Finish(s, c)
  PROVE  requested' \in BOOLEAN /\ op' = [op EXCEPT ![s] = "idle"]
BY DEF Finish, TypeOK

\* reserve_or_closed fails, succeeds or is dropped; closed_signal is sent.
LEMMA WaitsKept ==
  ASSUME SessionInv, NEW s \in Senders,
         ReserveFails(s) \/ Reserve(s) \/ Withdraw(s) \/ SignalClosed(s)
  PROVE  SessionInv'
<1>1. closing \in BOOLEAN /\ closed \in BOOLEAN /\ requested \in BOOLEAN
  BY DEF SessionInv, TypeOK
<1>2. CASE ReserveFails(s)
  BY <1>1, <1>2, MovesOn, FinishType DEF ReserveFails, SessionInv
<1>3. CASE Reserve(s)
  BY <1>1, <1>3, MovesOn DEF Reserve, sharedVars
<1>4. CASE Withdraw(s)
  BY <1>1, <1>4, MovesOn, FinishType DEF Withdraw, SessionInv
<1>5. CASE SignalClosed(s)
  BY <1>1, <1>5, MovesOn, FinishType DEF SignalClosed, SessionInv
<1> QED
  BY <1>2, <1>3, <1>4, <1>5

\* While closing is not set the session still serves the queue.
LEMMA NotClosing ==
  ASSUME SessionInv, ~closing
  PROVE  sess \in Serving /\ rx = "open"
BY DEF SessionInv, Places, TypeOK, Serving, Flushing, Leaving

\* commit_with takes effect: the item is the last one accepted and the last
\* one queued.
LEMMA CommitEffective ==
  ASSUME SessionInv, NEW s \in Senders, Commit(s), ~closing
  PROVE  SessionInv'
<1> USE DEF SessionInv
<1> DEFINE item == Item(s)
<1>1. /\ op[s] = "commit"
      /\ queue' = Append(queue, item) /\ accepted' = Append(accepted, item)
      /\ closing' = (what[s] = "close")
      /\ UNCHANGED <<pingOn, sessVars, what, ops, rx, closed, cancel>>
  BY DEF Commit
<1>2. item \in OutboundItem /\ (IsClose(item) <=> what[s] = "close")
  <2>1. ops[s] \in 1..MaxOps /\ what[s] \in {"send", "close"}
    BY <1>1, WsAssumption DEF TypeOK, Permits
  <2> QED
    BY <2>1 DEF Item, OutboundItem, IsClose
<1> HIDE DEF item
<1>3. PICK x \in {"idle", "signal"} :
        op' = [op EXCEPT ![s] = x] /\ requested' \in BOOLEAN
  BY FinishType DEF Commit, TypeOK
<1>4. /\ queue \in Seq(OutboundItem) /\ accepted \in Seq(OutboundItem)
      /\ queue' \in Seq(OutboundItem) /\ accepted' \in Seq(OutboundItem)
      /\ Len(queue) \in Nat /\ Len(queue') = Len(queue) + 1
      /\ queue'[Len(queue) + 1] = item
      /\ \A i \in 1..Len(queue) : queue'[i] = queue[i]
  BY <1>1, <1>2 DEF Permits
<1>5. Len(queue') + Cardinality(Committing)' <= Capacity
      /\ Cardinality(Committing)' \in Nat
  <2>1. op'[s] = x /\ \A r \in Senders \ {s} : op'[r] = op[r]
    BY <1>3 DEF TypeOK
  <2>2. /\ Cardinality(Committing) \in Nat /\ Cardinality(Committing)' \in Nat
        /\ Cardinality(Committing)' =
             Cardinality(Committing) - (IF op[s] = "commit" THEN 1 ELSE 0)
                                     + (IF op'[s] = "commit" THEN 1 ELSE 0)
    BY ONLY s \in Senders, <2>1, CommittingCount
  <2>3. Cardinality(Committing)' = Cardinality(Committing) - 1
    BY ONLY <1>1, <1>3, <2>1, <2>2
  <2>4. Len(queue) + Cardinality(Committing) <= Capacity /\ Capacity \in Nat
    BY WsAssumption DEF Permits
  <2> QED
    BY ONLY <1>4, <2>2, <2>3, <2>4
<1>6. Permits'
  <2>1. \A r \in Senders : op'[r] # "idle" => ops'[r] >= 1
    BY <1>1, <1>3 DEF Permits, TypeOK
  <2> QED
    BY <2>1, <1>4, <1>5 DEF Permits
<1>7. TypeOK'
  <2>1. queue' \in Seq(Frames) /\ accepted' \in Seq(Frames)
    BY <1>1, <1>2, FrameFacts DEF TypeOK
  <2>2. op' \in [Senders -> {"idle", "reserve", "commit", "signal"}]
    BY <1>3 DEF TypeOK
  <2>3. {requested, closing, closed}' \subseteq BOOLEAN
    BY <1>1, <1>3 DEF TypeOK
  <2>4. Len(queue') <= Capacity
    BY <1>4, <1>5, WsAssumption
  <2>5. SenderTypes'
    BY <1>1, <2>1, <2>2, <2>3, <2>4 DEF TypeOK, SenderTypes
  <2> QED
    BY <1>1, <2>5, SessionTypesUntouched DEF TypeOK
<1>8. sess \in Serving /\ rx = "open"
  BY NotClosing
<1>9. Places'
  BY <1>1, <1>8 DEF Places, sessVars, Serving, Flushing, Leaving
<1>10. AcceptedConserved'
  <2>1. Items(wire) \in Seq(OutboundItem) /\ Items(<<inflight>>) \in Seq(OutboundItem)
    <3>1. <<inflight>> \in Seq(Frames) /\ wire \in Seq(Frames)
      BY DEF TypeOK
    <3> QED
      BY <3>1, ItemsType
  <2>2. accepted = Items(wire) \o Items(<<inflight>>) \o queue
    BY <1>8 DEF AcceptedConserved
  <2>3. accepted' = Items(wire) \o Items(<<inflight>>) \o queue'
    <3>1. PICK a, b : a = Items(wire) /\ b = Items(<<inflight>>)
      OBVIOUS
    <3>2. a \o b \o Append(queue, item) = Append(a \o b \o queue, item)
      <4>1. /\ a \in Seq(OutboundItem) /\ b \in Seq(OutboundItem)
            /\ queue \in Seq(OutboundItem) /\ item \in OutboundItem
        BY <1>2, <1>4, <2>1, <3>1
      <4> QED
        BY ONLY <4>1, ConcatAppend
    <3> QED
      BY <1>1, <2>2, <3>1, <3>2
  <2> QED
    BY <1>1, <2>3 DEF AcceptedConserved, sessVars
<1>11. \A i \in DOMAIN wire : ~Ends(wire[i])
  BY <1>8 DEF CloseCompletes, Serving
<1>12. AllBeforeClose' /\ CloseCompletes'
  BY <1>1, <1>8, <1>11 DEF AllBeforeClose, CloseCompletes, sessVars, Serving
<1>13. CloseIsLast'
  <2>1. \A i \in 1..Len(queue) : ~IsClose(queue[i])
    BY <1>4 DEF CloseIsLast
  <2>2. DOMAIN queue' = 1..(Len(queue) + 1) /\ queue' # << >>
    BY <1>4
  <2>3. closing' <=> IsClose(item)
    BY <1>1, <1>2
  <2> QED
    BY <1>4, <2>1, <2>2, <2>3 DEF CloseIsLast
<1>14. DrainCovers'
  <2>1. Len(accepted') = Len(accepted) + 1 /\ Len(accepted) \in Nat
    BY <1>1, <1>2, <1>4
  <2>2. due \in Nat
    BY DEF TypeOK
  <2> QED
    BY <1>1, <2>1, <2>2 DEF DrainCovers, Served, sessVars
<1> QED
  BY <1>6, <1>7, <1>9, <1>10, <1>12, <1>13, <1>14

\* commit_with under the lock.
LEMMA CommitKept ==
  ASSUME SessionInv, NEW s \in Senders, Commit(s)
  PROVE  SessionInv'
<1>1. CASE closing
  <2>1. {requested, closed}' \subseteq BOOLEAN /\ op' = [op EXCEPT ![s] = "idle"]
    BY <1>1, FinishType DEF SessionInv, TypeOK, Commit
  <2> QED
    BY <1>1, <2>1, MovesOn DEF Commit
<1> QED
  BY <1>1, CommitEffective

-----------------------------------------------------------------------------
(* The session ends, or begins to close.                                   *)

Reasons == {"none", "ClientClose", "Eof", "Failed", "HandlerClose", "IdleTimeout",
            "PongTimeout", "MessageTooLarge", "SenderClose", "Cancelled"}
Stations == Serving \cup Flushing \cup Leaving

\* What the type invariant says of the session.
SessionTypes ==
  /\ sess \in Stations /\ cont \in {"loop", "handler", "drain", "to_close"}
  /\ inflight \in Frames /\ frame \in Frames
  /\ left \in 0..Capacity
  /\ outcome \in {"none", "reply", "close", "error"}
  /\ {prefer, pinged, closing, closed} \subseteq BOOLEAN
  /\ messages \in 0..MaxMessages
  /\ reason \in Reasons
  /\ queue \in Seq(Frames) /\ wire \in Seq(Frames) /\ Len(queue) <= Capacity
  /\ rx \in {"open", "closed", "dropped"}
  /\ due \in Nat

\* The type invariant has the session's types in it.
LEMMA TypesOfSession ==
  ASSUME TypeOK
  PROVE  SessionTypes
<1>1. sess \in Stations
  BY DEF TypeOK, Stations, Serving, Flushing, Leaving
<1> QED
  BY <1>1 DEF TypeOK, SessionTypes, Reasons

\* A step of the session leaves the senders' types alone.
LEMMA SenderTypesUntouched ==
  ASSUME TypeOK, SessionTypes', Same
  PROVE  TypeOK'
<1>1. {pingOn, prefer, pinged, cancel, closing, requested, closed}' \subseteq BOOLEAN
  BY DEF TypeOK, SessionTypes, Same
<1>2. sess' \in {"loop", "send", "handler", "drain", "apply", "to_close", "reply",
                 "flush", "flush_send", "plain_close", "closing", "draining",
                 "ended"}
  BY DEF SessionTypes, Stations, Serving, Flushing, Leaving
<1> QED
  BY <1>1, <1>2 DEF TypeOK, SessionTypes, Same, sendVars, Reasons

\* seal_for_session and the drop of the receiver.
LEMMA ReleaseTypes ==
  ASSUME Release
  PROVE  /\ {closing, closed}' \subseteq BOOLEAN /\ rx' \in {"open", "closed", "dropped"}
         /\ queue' \in Seq(Frames) /\ queue' \in Seq(OutboundItem) /\ Len(queue') = 0
BY DEF Release

\* The receiver is dropped: of the queue nothing is left to be said.
LEMMA ReleaseKept ==
  ASSUME SessionInv, Release, Same
  PROVE  Permits' /\ AcceptedConserved' /\ CloseIsLast'
<1>1. Permits'
  <2>1. Cardinality(Committing)' = Cardinality(Committing)
    BY DEF Same, sendVars, Committing
  <2>2. Len(queue') + Cardinality(Committing) <= Capacity
    <3>1. Len(queue) \in Nat /\ Len(queue) + Cardinality(Committing) <= Capacity
      BY DEF SessionInv, TypeOK, Permits
    <3>2. Cardinality(Committing) \in Nat
      BY WsAssumption, FS_Subset, FS_CardinalityType DEF Committing
    <3> QED
      BY <3>1, <3>2, ReleaseTypes, WsAssumption
  <2> QED
    BY <2>1, <2>2, ReleaseTypes DEF SessionInv, Permits, Same, sendVars
<1>2. AcceptedConserved' /\ CloseIsLast'
  BY DEF Release, AcceptedConserved, CloseIsLast
<1> QED
  BY <1>1, <1>2

\* The session is over without another frame.
LEMMA EndKept ==
  ASSUME SessionInv, NEW why \in Reasons, End(why), Same, Rest, inflight' = NoFrame,
         cont' = cont, prefer' \in BOOLEAN
  PROVE  SessionInv'
<1> USE DEF End, Rest
<1>1. SessionTypes'
  <2>1. {prefer, pinged, closing, closed}' \subseteq BOOLEAN
    BY TypesOfSession, ReleaseTypes DEF SessionInv, SessionTypes
  <2>2. sess' \in Stations /\ inflight' \in Frames
    BY FrameFacts DEF Stations, Leaving
  <2>3. Len(queue') <= Capacity
    BY ReleaseTypes, WsAssumption
  <2> QED
    BY <2>1, <2>2, <2>3, TypesOfSession, ReleaseTypes DEF SessionInv, SessionTypes
<1>2. TypeOK'
  BY <1>1, SenderTypesUntouched DEF SessionInv
<1>3. Places'
  BY FrameFacts DEF Places, Release, Serving, Flushing, Leaving
<1>4. AllBeforeClose'
  BY DEF SessionInv, AllBeforeClose, Same, sendVars
<1>5. CloseCompletes' /\ DrainCovers'
  BY DEF CloseCompletes, DrainCovers
<1> QED
  BY <1>2, <1>3, <1>4, <1>5, ReleaseKept DEF SessionInv

\* The session begins to close with the frame f.
LEMMA StartCloseKept ==
  ASSUME SessionInv, NEW why \in Reasons, NEW f \in Frames, Ends(f),
         StartClose(why, f), Same, inflight' = NoFrame, cont' = cont,
         prefer' \in BOOLEAN, left' \in 0..Capacity,
         UNCHANGED <<outcome, pinged, messages, due>>,
         wire' \in Seq(Frames), \A i \in DOMAIN wire' : ~Ends(wire'[i]),
         IsClose(f) => accepted = Append(Items(wire'), f),
         f = <<"handler_close">> => accepted = Items(wire')
  PROVE  SessionInv'
<1> USE DEF StartClose
<1>1. SessionTypes'
  <2>1. {prefer, pinged, closing, closed}' \subseteq BOOLEAN
    BY TypesOfSession, ReleaseTypes DEF SessionInv, SessionTypes
  <2>2. sess' \in Stations /\ inflight' \in Frames
    BY FrameFacts DEF Stations, Leaving
  <2>3. Len(queue') <= Capacity
    BY ReleaseTypes, WsAssumption
  <2> QED
    BY <2>1, <2>2, <2>3, TypesOfSession, ReleaseTypes DEF SessionInv, SessionTypes
<1>2. TypeOK'
  BY <1>1, SenderTypesUntouched DEF SessionInv
<1>3. Places'
  BY FrameFacts DEF Places, Release, Serving, Flushing, Leaving
<1>4. AllBeforeClose'
  BY DEF AllBeforeClose
<1>5. CloseCompletes'
  BY DEF CloseCompletes, Same, sendVars
<1>6. DrainCovers'
  BY DEF DrainCovers
<1> QED
  BY <1>2, <1>3, <1>4, <1>5, <1>6, ReleaseKept DEF SessionInv

\* A Close frame of the session's own, while nothing is in flight.
LEMMA OwnCloseKept ==
  ASSUME SessionInv, NEW why \in Reasons, NEW f \in Closings \ {<<"handler_close">>},
         StartClose(why, f), Same, Rest, inflight' = NoFrame, cont' = cont,
         prefer' \in BOOLEAN, sess \notin {"draining", "ended"}
  PROVE  SessionInv'
<1>1. f \in Frames /\ Ends(f) /\ ~IsClose(f) /\ f # <<"handler_close">>
  BY FrameFacts
<1>2. wire' \in Seq(Frames) /\ left' \in 0..Capacity
  BY DEF Rest, SessionInv, TypeOK
<1>3. \A i \in DOMAIN wire' : ~Ends(wire'[i])
  BY DEF Rest, SessionInv, CloseCompletes
<1> QED
  BY <1>1, <1>2, <1>3, StartCloseKept DEF Rest

-----------------------------------------------------------------------------
(* The loop, the handler and the queue.                                    *)

\* A step that only moves the session about while it serves the queue.
LEMMA QuietKept ==
  ASSUME SessionInv, Quiet, UNCHANGED <<cont, inflight, frame, reason, wire>>,
         sess \in Serving \ {"send"}, sess' \in Serving \ {"send"},
         left' \in 0..Capacity, outcome' \in {"none", "reply", "close", "error"},
         {prefer, pinged}' \subseteq BOOLEAN, messages' \in 0..MaxMessages,
         due' \in Nat, DrainCovers'
  PROVE  SessionInv'
<1>1. Same /\ UNCHANGED <<queue, rx, closing, closed>>
  BY DEF Quiet, Same, sharedVars
<1>2. TypeOK'
  <2>1. {prefer, pinged, closing, closed}' \subseteq BOOLEAN
    BY <1>1, TypesOfSession DEF SessionInv, SessionTypes
  <2>2. sess' \in Stations
    BY DEF Stations
  <2>3. SessionTypes'
    BY <1>1, <2>1, <2>2, TypesOfSession DEF SessionInv, SessionTypes
  <2> QED
    BY <1>1, <2>3, SenderTypesUntouched DEF SessionInv
<1>3. Places'
  <2>1. inflight = NoFrame
    BY DEF SessionInv, Places, Serving
  <2> QED
    BY <1>1, <2>1 DEF SessionInv, Places, Serving, Flushing, Leaving
<1>4. Permits'
  BY <1>1 DEF SessionInv, Permits, Committing, Same, sendVars
<1>5. AcceptedConserved'
  BY <1>1 DEF SessionInv, AcceptedConserved, Same, sendVars
<1>6. AllBeforeClose'
  BY <1>1 DEF SessionInv, AllBeforeClose, Same, sendVars
<1>7. CloseIsLast'
  BY <1>1 DEF SessionInv, CloseIsLast
<1>8. CloseCompletes'
  <2>1. \A i \in DOMAIN wire : ~Ends(wire[i])
    BY DEF SessionInv, CloseCompletes, Serving
  <2> QED
    BY <2>1 DEF CloseCompletes, Serving
<1> QED
  BY <1>2, <1>3, <1>4, <1>5, <1>6, <1>7, <1>8 DEF SessionInv

\* In the loop nothing is in flight and no Close frame was written.
LEMMA AtRest ==
  ASSUME SessionInv, sess \in Serving \ {"send"}
  PROVE  inflight = NoFrame /\ inflight \notin OutboundItem /\ rx = "open"
BY FrameFacts DEF SessionInv, Places, Serving

\* What the client sends, and the timers.
LEMMA InboundKept ==
  ASSUME SessionInv, Inbound
  PROVE  SessionInv'
<1>1. InboundTurn
  BY
     DEF Inbound, ReceiveNoise, ReceivePong, ReceiveData, ReceiveEnd,
         CloseFromHere
<1>2. sess = "loop" /\ prefer' \in BOOLEAN
  BY <1>1 DEF InboundTurn
<1>3. sess \in Serving \ {"send"} /\ inflight = NoFrame
  BY <1>2, AtRest DEF Serving
<1>4. /\ left \in 0..Capacity /\ outcome \in {"none", "reply", "close", "error"}
      /\ pinged \in BOOLEAN /\ messages \in 0..MaxMessages /\ due \in Nat
  BY DEF SessionInv, TypeOK
<1>5. CASE ReceiveNoise
  BY <1>2, <1>3, <1>4, <1>5, QuietKept
     DEF ReceiveNoise, Rest, DrainCovers, Serving
<1>6. CASE ReceivePong
  BY <1>2, <1>3, <1>4, <1>6, QuietKept DEF ReceivePong, DrainCovers, Serving
<1>7. CASE ReceiveData
  <2>1. messages' \in 0..MaxMessages
    BY <1>4, <1>7, WsAssumption DEF ReceiveData
  <2> QED
    BY <1>2, <1>3, <1>4, <1>7, <2>1, QuietKept
       DEF ReceiveData, DrainCovers, Serving
<1>8. CASE ReceiveEnd
  BY <1>2, <1>3, <1>8, EndKept DEF ReceiveEnd, Reasons
<1>9. CASE CloseFromHere
  <2>1. PICK why \in Reasons, f \in Closings \ {<<"handler_close">>} :
          StartClose(why, f)
    <3>1. /\ {<<"size">>, <<"plain">>} \subseteq Closings \ {<<"handler_close">>}
          /\ {"MessageTooLarge", "IdleTimeout", "PongTimeout"} \subseteq Reasons
      BY DEF Closings, Reasons
    <3> QED
      BY <1>9, <3>1 DEF CloseFromHere
  <2> QED
    BY <1>2, <1>3, <1>9, <2>1, OwnCloseKept DEF CloseFromHere
<1> QED
  BY <1>5, <1>6, <1>7, <1>8, <1>9 DEF Inbound

\* A frame that is not an item begins to be written.
LEMMA WriteKept ==
  ASSUME SessionInv, NEW f \in {Ping, Reply}, StartSend(f, "loop"), Rest, Quiet,
         sess \in Serving \ {"send"}, UNCHANGED <<frame, prefer, reason>>
  PROVE  SessionInv'
<1> USE DEF StartSend, Rest
<1>1. Same /\ UNCHANGED <<queue, rx, closing, closed>>
  BY DEF Quiet, Same, sharedVars
<1>2. TypeOK'
  <2>1. {prefer, pinged, closing, closed}' \subseteq BOOLEAN
    BY <1>1, TypesOfSession DEF SessionInv, SessionTypes
  <2>2. sess' \in Stations /\ inflight' \in Frames
    BY FrameFacts DEF Stations, Serving
  <2>3. SessionTypes'
    BY <1>1, <2>1, <2>2, TypesOfSession DEF SessionInv, SessionTypes
  <2> QED
    BY <1>1, <2>3, SenderTypesUntouched DEF SessionInv
<1>3. Places'
  BY <1>1, FrameFacts DEF SessionInv, Places, Serving, Flushing, Leaving
<1>4. Permits'
  BY <1>1 DEF SessionInv, Permits, Committing, Same, sendVars
<1>5. AcceptedConserved'
  <2>1. Items(<<inflight>>) = << >> /\ Items(<<inflight'>>) = << >>
    BY AtRest, ItemsOne, FrameFacts
  <2> QED
    BY <1>1, <2>1 DEF SessionInv, AcceptedConserved, Same, sendVars
<1>6. AllBeforeClose'
  BY <1>1 DEF SessionInv, AllBeforeClose, Same, sendVars
<1>7. CloseIsLast'
  BY <1>1 DEF SessionInv, CloseIsLast
<1>8. CloseCompletes' /\ DrainCovers'
  BY DEF SessionInv, CloseCompletes, Serving, DrainCovers
<1> QED
  BY <1>2, <1>3, <1>4, <1>5, <1>6, <1>7, <1>8 DEF SessionInv

\* The first of two parts of a sequence.
LEMMA HeadFirst ==
  ASSUME NEW T, NEW a \in Seq(T), NEW q \in Seq(T), q # << >>
  PROVE  a \o <<Head(q)>> \o Tail(q) = a \o q
<1>1. Head(q) \in T /\ Tail(q) \in Seq(T) /\ <<Head(q)>> \in Seq(T)
  OBVIOUS
<1>2. <<Head(q)>> \o Tail(q) = q
  OBVIOUS
<1>3. a \o <<Head(q)>> \o Tail(q) = a \o (<<Head(q)>> \o Tail(q))
  BY <1>1
<1> QED
  BY <1>2, <1>3

\* The item at the head of the queue, when it is a message.
LEMMA HeadIsMessage ==
  ASSUME SessionInv, queue # << >>, ~IsClose(Head(queue))
  PROVE  Head(queue) \in Messages /\ Tail(queue) \in Seq(OutboundItem)
         /\ Len(Tail(queue)) = Len(queue) - 1
<1>1. queue \in Seq(OutboundItem)
  BY DEF SessionInv, Permits
<1>2. Head(queue) \in OutboundItem
  BY <1>1
<1> QED
  BY <1>1, <1>2, FrameFacts

\* The item at the head of the queue, when it is a close: it is the only one.
LEMMA HeadIsClose ==
  ASSUME SessionInv, queue # << >>, IsClose(Head(queue)), rx # "dropped",
         inflight \notin OutboundItem
  PROVE  /\ Head(queue) \in Frames /\ Ends(Head(queue))
         /\ Head(queue) # <<"handler_close">>
         /\ accepted = Append(Items(wire), Head(queue))
<1>1. queue \in Seq(OutboundItem) /\ Items(wire) \in Seq(OutboundItem)
  BY ItemsType DEF SessionInv, Permits, TypeOK
<1>2. Head(queue) \in OutboundItem /\ Head(queue) = queue[1] /\ 1 \in DOMAIN queue
  BY <1>1
<1>3. Len(queue) = 1
  BY <1>2 DEF SessionInv, CloseIsLast
<1>4. queue = <<Head(queue)>>
  BY <1>1, <1>3
<1>5. accepted = Items(wire) \o <<Head(queue)>>
  BY <1>4, ConservedAtRest
<1>6. accepted = Append(Items(wire), Head(queue))
  BY ONLY <1>1, <1>2, <1>5
<1>7. /\ Head(queue) \in Frames /\ Ends(Head(queue))
      /\ Head(queue) # <<"handler_close">>
  BY <1>2, FrameFacts
<1> QED
  BY ONLY <1>6, <1>7

\* A message taken from the queue is in flight: the rest of the invariant.
LEMMA MessageTaken ==
  ASSUME SessionInv, queue # << >>, ~IsClose(Head(queue)), inflight = NoFrame,
         inflight' = Head(queue), queue' = Tail(queue), Same,
         UNCHANGED <<rx, closing, closed, wire>>
  PROVE  Permits' /\ AcceptedConserved' /\ CloseIsLast'
<1>1. queue \in Seq(OutboundItem) /\ Items(wire) \in Seq(OutboundItem)
      /\ queue' \in Seq(OutboundItem) /\ Len(queue') = Len(queue) - 1
      /\ Head(queue) \in Messages /\ Head(queue) \in OutboundItem
  BY HeadIsMessage, FrameFacts, ItemsType DEF SessionInv, Permits, TypeOK
<1>2. Permits'
  <2>1. Cardinality(Committing)' = Cardinality(Committing)
    BY DEF Same, sendVars, Committing
  <2>2. Len(queue') + Cardinality(Committing) <= Capacity
    <3>1. Len(queue) \in Nat /\ Len(queue) + Cardinality(Committing) <= Capacity
      BY DEF SessionInv, TypeOK, Permits
    <3>2. Cardinality(Committing) \in Nat
      BY WsAssumption, FS_Subset, FS_CardinalityType DEF Committing
    <3> QED
      BY <1>1, <3>1, <3>2, WsAssumption
  <2> QED
    BY <1>1, <2>1, <2>2 DEF SessionInv, Permits, Same, sendVars
<1>3. AcceptedConserved'
  <2>1. SUFFICES ASSUME rx # "dropped"
                 PROVE  accepted' = Items(wire') \o Items(<<inflight'>>) \o queue'
    BY DEF AcceptedConserved
  <2>2. accepted = Items(wire) \o queue
    BY <2>1, ConservedAtRest, FrameFacts
  <2>3. Items(<<inflight'>>) = <<Head(queue)>>
    BY <1>1, ItemsOne
  <2>4. PICK a : a = Items(wire)
    OBVIOUS
  <2>5. a \o <<Head(queue)>> \o Tail(queue) = a \o queue
    <3>1. a \in Seq(OutboundItem) /\ queue \in Seq(OutboundItem) /\ queue # << >>
      BY <1>1, <2>4
    <3> QED
      BY ONLY <3>1, HeadFirst
  <2> QED
    BY <2>2, <2>3, <2>4, <2>5 DEF Same, sendVars
<1>4. CloseIsLast'
  <2>1. \A i \in DOMAIN queue' : i + 1 \in DOMAIN queue /\ queue'[i] = queue[i + 1]
                                 /\ i \in Nat
    BY <1>1
  <2>2. \A i \in DOMAIN queue' : IsClose(queue'[i]) => i = Len(queue') /\ closing
    BY <1>1, <2>1 DEF SessionInv, CloseIsLast
  <2>3. ASSUME rx = "open", closing
        PROVE  queue' # << >> /\ IsClose(queue'[Len(queue')])
    <3>1. IsClose(queue[Len(queue)]) /\ Head(queue) = queue[1] /\ Len(queue) \in Nat
          /\ Len(queue) >= 1
      BY <1>1, <2>3 DEF SessionInv, CloseIsLast
    <3>2. Len(queue) # 1
      BY <3>1
    <3>3. Len(queue') \in DOMAIN queue' /\ Len(queue') + 1 = Len(queue)
      BY <1>1, <3>1, <3>2
    <3>4. queue'[Len(queue')] = queue[Len(queue)]
      BY <2>1, <3>3
    <3>5. queue' # << >>
      <4>1. Len(queue') >= 1
        BY <1>1, <3>1, <3>2
      <4> QED
        BY <4>1
    <3> QED
      BY <3>1, <3>4, <3>5
  <2> QED
    BY <2>2, <2>3 DEF CloseIsLast
<1> QED
  BY <1>2, <1>3, <1>4

\* The next item of the queue is served, wherever the session is: in its loop,
\* beside the handler, before the reply or on the way to a close.
LEMMA TakeItemKept ==
  ASSUME SessionInv, sess \in {"loop", "handler", "drain", "to_close"},
         TakeItem(sess), Same, prefer' \in BOOLEAN,
         IF sess = "drain" THEN left > 0 /\ left' = left - 1 ELSE left' = left,
         UNCHANGED <<outcome, pinged, messages, wire, due>>
  PROVE  SessionInv'
<1>1. inflight = NoFrame /\ inflight \notin OutboundItem /\ rx = "open" /\ queue # << >>
      /\ sess \in Serving \ {"send"}
  BY AtRest DEF Serving, TakeItem
<1>2. left' \in 0..Capacity /\ left \in 0..Capacity
  <2>1. left \in 0..Capacity /\ Capacity \in Nat
    BY WsAssumption DEF SessionInv, TypeOK
  <2>2. left' = left \/ (left > 0 /\ left' = left - 1)
    OBVIOUS
  <2> QED
    BY ONLY <2>1, <2>2
<1>3. \A i \in DOMAIN wire : ~Ends(wire[i])
  BY <1>1 DEF SessionInv, CloseCompletes
<1>4. CASE IsClose(Head(queue))
  <2>1. StartClose("SenderClose", Head(queue)) /\ inflight' = NoFrame /\ cont' = cont
        /\ "SenderClose" \in Reasons
    BY <1>1, <1>4 DEF TakeItem, Reasons
  <2>2. wire' \in Seq(Frames) /\ \A i \in DOMAIN wire' : ~Ends(wire'[i])
    BY <1>3 DEF SessionInv, TypeOK
  <2>3. /\ Head(queue) \in Frames /\ Ends(Head(queue))
        /\ Head(queue) # <<"handler_close">>
        /\ accepted = Append(Items(wire'), Head(queue))
    BY <1>1, <1>4, HeadIsClose
  <2> QED
    BY <1>2, <2>1, <2>2, <2>3, StartCloseKept
<1>5. CASE ~IsClose(Head(queue))
  <2>1. /\ sess' = "send" /\ inflight' = Head(queue) /\ cont' = sess
        /\ queue' = Tail(queue)
        /\ UNCHANGED <<reason, frame, rx, closing, closed>>
    BY <1>5 DEF TakeItem, StartSend
  <2>2. /\ Head(queue) \in Messages /\ Head(queue) \in OutboundItem
        /\ Head(queue) \in Frames /\ queue' \in Seq(Frames)
        /\ Len(queue') <= Capacity
    <3>1. queue \in Seq(Frames) /\ queue # << >> /\ Len(queue) <= Capacity
      BY <1>1 DEF SessionInv, TypeOK
    <3>2. Head(queue) \in Messages /\ Head(queue) \in OutboundItem
      BY <1>1, <1>5, HeadIsMessage, FrameFacts
    <3>3. /\ Tail(queue) \in Seq(Frames) /\ Len(Tail(queue)) = Len(queue) - 1
          /\ Len(queue) \in Nat /\ Head(queue) \in Frames
      BY ONLY <3>1
    <3>4. Len(Tail(queue)) <= Capacity /\ Capacity \in Nat
      BY ONLY <3>1, <3>3, WsAssumption
    <3> QED
      BY ONLY <2>1, <3>2, <3>3, <3>4
  <2>3. TypeOK'
    <3>1. {prefer, pinged, closing, closed}' \subseteq BOOLEAN
      BY <2>1, TypesOfSession DEF SessionInv, SessionTypes
    <3>2. sess' \in Stations
      BY <2>1 DEF Stations, Serving
    <3>3. cont' \in {"loop", "handler", "drain", "to_close"}
      BY <2>1
    <3>4. SessionTypes'
      BY <1>2, <2>1, <2>2, <3>1, <3>2, <3>3, TypesOfSession
         DEF SessionInv, SessionTypes
    <3> QED
      BY <3>4, SenderTypesUntouched DEF SessionInv
  <2>4. Places'
    BY <1>1, <2>1, <2>2 DEF Places, Serving, Flushing, Leaving
  <2>5. Permits' /\ AcceptedConserved' /\ CloseIsLast'
    BY <1>1, <1>5, <2>1, MessageTaken
  <2>6. AllBeforeClose' /\ CloseCompletes'
    BY <1>3, <2>1 DEF AllBeforeClose, CloseCompletes
  <2>7. DrainCovers'
    <3>1. Served' = Served + 1 /\ Served \in Nat
      <4>1. Items(<<inflight>>) = << >> /\ Items(<<inflight'>>) = <<Head(queue)>>
        BY <1>1, <2>1, <2>2, ItemsOne
      <4>2. Len(Items(wire)) \in Nat
        BY ItemsType DEF SessionInv, TypeOK
      <4>3. Len(<<Head(queue)>>) = 1 /\ Len(<< >>) = 0 /\ Items(wire') = Items(wire)
        OBVIOUS
      <4>4. PICK n \in Nat : n = Len(Items(wire))
        BY <4>2
      <4>5. Served = n + 0
        BY <4>1, <4>3, <4>4 DEF Served
      <4>6. Served' = n + 1
        BY <4>1, <4>3, <4>4 DEF Served
      <4> QED
        BY <4>5, <4>6
    <3>2. accepted' = accepted /\ due \in Nat
      BY DEF Same, sendVars, SessionInv, TypeOK
    <3>3. CASE sess = "drain"
      BY <1>2, <2>1, <3>1, <3>2, <3>3 DEF SessionInv, DrainCovers
    <3>4. CASE sess # "drain"
      BY <2>1, <3>1, <3>2, <3>4 DEF SessionInv, DrainCovers
    <3> QED
      BY <3>3, <3>4
  <2> QED
    BY <2>3, <2>4, <2>5, <2>6, <2>7 DEF SessionInv
<1> QED
  BY <1>4, <1>5

\* The queue is served: in the loop, beside the handler, before the reply.
LEMMA OutboundKept ==
  ASSUME SessionInv, LoopOutbound \/ HandlerOutbound \/ DrainItem
  PROVE  SessionInv'
<1>1. prefer \in BOOLEAN
  BY DEF SessionInv, TypeOK
<1>2. CASE LoopOutbound
  BY <1>2, TakeItemKept DEF LoopOutbound, Rest
<1>3. CASE HandlerOutbound
  BY <1>1, <1>3, TakeItemKept DEF HandlerOutbound, Rest
<1>4. CASE DrainItem
  BY <1>1, <1>4, TakeItemKept DEF DrainItem
<1> QED
  BY <1>2, <1>3, <1>4

\* The handler returns with a reply: drain_before_reply has as many rounds as
\* the queue can hold items.
LEMMA HandlerRepliesKept ==
  ASSUME SessionInv, HandlerReplies
  PROVE  SessionInv'
<1> USE DEF HandlerReplies
<1>1. sess \in Serving \ {"send"} /\ sess' \in Serving \ {"send"}
  BY DEF Serving
<1>2. accepted = Items(wire) \o queue /\ accepted' = accepted
  BY <1>1, AtRest, ConservedAtRest DEF Quiet, sendVars
<1>3. Items(wire) \in Seq(OutboundItem) /\ queue \in Seq(OutboundItem)
      /\ Len(queue) <= Capacity
  BY ItemsType DEF SessionInv, Permits, TypeOK
<1>4. Len(accepted) = Len(Items(wire)) + Len(queue)
  BY <1>2, <1>3
<1>5. Served' = Len(Items(wire))
  <2>1. Items(<<inflight>>) = << >>
    BY <1>1, AtRest, ItemsOne
  <2> QED
    BY <1>3, <2>1 DEF Served
<1>6. DrainCovers'
  BY <1>2, <1>3, <1>4, <1>5, WsAssumption DEF DrainCovers
<1>7. left' \in 0..Capacity /\ due' \in Nat
  BY <1>3, <1>4, WsAssumption
<1>8. {prefer, pinged}' \subseteq BOOLEAN /\ messages' \in 0..MaxMessages
  BY DEF SessionInv, TypeOK
<1> QED
  BY <1>1, <1>6, <1>7, <1>8, QuietKept

\* drain_before_reply is done: the queue is empty, or every round was used.
LEMMA DrainOverKept ==
  ASSUME SessionInv, DrainOver
  PROVE  SessionInv'
<1> USE DEF DrainOver, Rest
<1>1. sess \in Serving \ {"send"} /\ sess' \in Serving \ {"send"}
  BY DEF Serving
<1>2. /\ left \in 0..Capacity /\ outcome \in {"none", "reply", "close", "error"}
      /\ {prefer, pinged}' \subseteq BOOLEAN /\ messages \in 0..MaxMessages /\ due \in Nat
  BY DEF SessionInv, TypeOK
<1>3. Items(wire) \in Seq(OutboundItem) /\ Served = Len(Items(wire)) /\ Served' = Served
  <2>1. Items(<<inflight>>) = << >> /\ Items(wire) \in Seq(OutboundItem)
    BY <1>1, AtRest, ItemsOne, ItemsType DEF SessionInv, TypeOK
  <2> QED
    BY <2>1 DEF Served
<1>4. due <= Served
  <2>1. due <= Len(accepted) /\ due <= Served + left
    BY DEF SessionInv, DrainCovers
  <2>2. CASE left = 0
    BY <1>2, <1>3, <2>1, <2>2
  <2>3. CASE queue = << >>
    <3>1. accepted = Items(wire)
      BY <1>1, <1>3, <2>3, AtRest, ConservedAtRest
    <3> QED
      BY <1>3, <2>1, <3>1
  <2> QED
    BY <2>2, <2>3
<1>5. DrainCovers'
  BY <1>3, <1>4 DEF DrainCovers
<1> QED
  BY <1>1, <1>2, <1>5, QuietKept

\* apply_outcome looks at closing and goes on to the reply or to the close.
LEMMA ApplyReplyKept ==
  ASSUME SessionInv, ApplyReply
  PROVE  SessionInv'
<1> USE DEF ApplyReply, Rest
<1>1. sess \in Serving \ {"send"} /\ sess' \in Serving \ {"send"}
  BY DEF Serving
<1>2. /\ left \in 0..Capacity /\ outcome \in {"none", "reply", "close", "error"}
      /\ {prefer, pinged}' \subseteq BOOLEAN /\ messages \in 0..MaxMessages /\ due \in Nat
  BY DEF SessionInv, TypeOK
<1>3. DrainCovers'
  <2>1. closing' = closing /\ Served' = Served /\ sess' # "send"
    BY DEF Quiet, sharedVars, Served
  <2> QED
    BY <2>1 DEF SessionInv, DrainCovers
<1> QED
  BY <1>1, <1>2, <1>3, QuietKept

\* drain_to_close.
LEMMA ToCloseKept ==
  ASSUME SessionInv, ToClose
  PROVE  SessionInv'
<1> USE DEF ToClose, Rest
<1>1. prefer \in BOOLEAN
  BY DEF SessionInv, TypeOK
<1>2. CASE queue = << >>
  <2>1. sess \in Serving \ {"send"} /\ sess' \in Serving \ {"send"} /\ Quiet
    BY <1>2 DEF Serving, Quiet, Same, sharedVars
  <2>2. /\ left \in 0..Capacity /\ outcome \in {"none", "reply", "close", "error"}
        /\ {prefer, pinged}' \subseteq BOOLEAN /\ messages \in 0..MaxMessages
        /\ due \in Nat
    BY DEF SessionInv, TypeOK
  <2>3. DrainCovers'
    BY <1>2 DEF SessionInv, DrainCovers, Served
  <2> QED
    BY <1>2, <2>1, <2>2, <2>3, QuietKept
<1>3. CASE queue # << >>
  BY <1>1, <1>3, TakeItemKept
<1> QED
  BY <1>2, <1>3

\* The reply is written, or there is none; a ping is written.
LEMMA RepliesKept ==
  ASSUME SessionInv, SendReply \/ SendPing
  PROVE  SessionInv'
<1> USE DEF Rest
<1>1. CASE SendPing
  BY <1>1, WriteKept DEF SendPing, Serving
<1>2. CASE SendReply /\ StartSend(Reply, "loop")
  BY <1>2, WriteKept DEF SendReply, Serving
<1>3. CASE SendReply /\ sess' = "loop" /\ UNCHANGED <<cont, inflight>>
  <2>1. sess \in Serving \ {"send"} /\ sess' \in Serving \ {"send"}
    BY <1>3 DEF Serving, SendReply
  <2>2. /\ left \in 0..Capacity /\ outcome \in {"none", "reply", "close", "error"}
        /\ {prefer, pinged}' \subseteq BOOLEAN /\ messages \in 0..MaxMessages
        /\ due \in Nat
    BY <1>3 DEF SessionInv, TypeOK, SendReply
  <2>3. DrainCovers'
    BY <1>3 DEF DrainCovers
  <2> QED
    BY <1>3, <2>1, <2>2, <2>3, QuietKept DEF SendReply
<1> QED
  BY <1>1, <1>2, <1>3 DEF SendReply

-----------------------------------------------------------------------------
(* Writes, the flush and the close.                                        *)

\* A frame in flight is written: an item that was in flight is on the wire.
LEMMA FrameWritten ==
  ASSUME SessionInv, wire' = IF inflight = Ping THEN wire ELSE Append(wire, inflight),
         inflight' = NoFrame, UNCHANGED <<queue, rx, closing, closed>>, Same,
         sess \in {"send", "flush_send"}, inflight # NoFrame
  PROVE  /\ Permits' /\ AcceptedConserved' /\ CloseIsLast' /\ Served' = Served
         /\ wire' \in Seq(Frames) /\ \A i \in DOMAIN wire' : ~Ends(wire'[i])
<1>1. Permits'
  BY DEF SessionInv, Permits, Committing, Same, sendVars
<1>2. CloseIsLast'
  BY DEF SessionInv, CloseIsLast
<1>3. wire \in Seq(Frames) /\ inflight \in Frames /\ ~Ends(inflight)
  BY FrameFacts DEF SessionInv, TypeOK, Places
<1>4. wire' \in Seq(Frames)
  BY <1>3
<1>5. \A i \in DOMAIN wire' : ~Ends(wire'[i])
  <2>1. \A i \in DOMAIN wire : ~Ends(wire[i])
    BY DEF SessionInv, CloseCompletes
  <2> QED
    BY <1>3, <2>1
<1>6. Items(wire) \in Seq(OutboundItem) /\ Items(<<inflight'>>) = << >>
  BY <1>3, ItemsType, ItemsOne, FrameFacts
<1>7. Items(wire') = Items(wire) \o Items(<<inflight>>)
  <2>1. CASE inflight \in OutboundItem
    <3>1. Items(wire') = Append(Items(wire), inflight)
      BY <1>3, <2>1, ItemsAppend, FrameFacts
    <3>2. Items(<<inflight>>) = <<inflight>>
      BY <2>1, ItemsOne
    <3>3. PICK a \in Seq(OutboundItem) : a = Items(wire)
      BY <1>6
    <3>4. Append(a, inflight) = a \o <<inflight>>
      BY ONLY a \in Seq(OutboundItem), <2>1
    <3> QED
      BY <3>1, <3>2, <3>3, <3>4
  <2>2. CASE inflight \notin OutboundItem
    <3>1. Items(wire') = Items(wire)
      BY <1>3, <2>2, ItemsAppend
    <3>2. Items(<<inflight>>) = << >>
      BY <2>2, ItemsOne
    <3> QED
      BY <1>6, <3>1, <3>2
  <2> QED
    BY <2>1, <2>2
<1>8. Items(<<inflight>>) \in Seq(OutboundItem)
  <2>1. <<inflight>> \in Seq(Frames)
    BY <1>3
  <2> QED
    BY <2>1, ItemsType
<1>9. Items(wire') \o << >> = Items(wire') /\ Len(<< >>) = 0
      /\ Len(Items(wire')) = Len(Items(wire)) + Len(Items(<<inflight>>))
      /\ Len(Items(wire')) \in Nat
  <2>1. PICK a, b : a = Items(wire) /\ b = Items(<<inflight>>)
    OBVIOUS
  <2>2. a \in Seq(OutboundItem) /\ b \in Seq(OutboundItem) /\ Items(wire') = a \o b
    BY <1>6, <1>7, <1>8, <2>1
  <2> QED
    BY <2>1, <2>2
<1>10. AcceptedConserved'
  BY <1>6, <1>7, <1>9 DEF SessionInv, AcceptedConserved, Same, sendVars
<1>11. Served' = Served
  BY <1>6, <1>9 DEF Served
<1> QED
  BY <1>1, <1>2, <1>4, <1>5, <1>10, <1>11

\* A write of the loop, of the handler's drain or of the reply ends.
LEMMA SentKept ==
  ASSUME SessionInv, Sent
  PROVE  SessionInv'
<1> USE DEF Sent
<1>1. Same /\ UNCHANGED <<queue, rx, closing, closed>>
  BY DEF Quiet, Same, sharedVars
<1>2. cont \in {"loop", "handler", "drain", "to_close"}
  BY DEF SessionInv, TypeOK
<1>3. inflight # NoFrame
  BY DEF SessionInv, Places
<1>4. /\ Permits' /\ AcceptedConserved' /\ CloseIsLast' /\ Served' = Served
      /\ wire' \in Seq(Frames) /\ \A i \in DOMAIN wire' : ~Ends(wire'[i])
  BY <1>1, <1>3, FrameWritten
<1>5. TypeOK'
  <2>1. {prefer, pinged, closing, closed}' \subseteq BOOLEAN
    BY <1>1, TypesOfSession DEF SessionInv, SessionTypes
  <2>2. sess' \in Stations /\ inflight' \in Frames
    BY <1>2, FrameFacts DEF Stations, Serving
  <2>3. SessionTypes'
    BY <1>1, <1>4, <2>1, <2>2, TypesOfSession DEF SessionInv, SessionTypes
  <2> QED
    BY <1>1, <2>3, SenderTypesUntouched DEF SessionInv
<1>6. Places'
  BY <1>1, <1>2, FrameFacts DEF SessionInv, Places, Serving, Flushing, Leaving
<1>7. AllBeforeClose'
  BY <1>4 DEF AllBeforeClose
<1>8. CloseCompletes'
  BY <1>2, <1>4 DEF CloseCompletes
<1>9. DrainCovers'
  BY <1>1, <1>2, <1>4 DEF SessionInv, DrainCovers, Same, sendVars
<1> QED
  BY <1>4, <1>5, <1>6, <1>7, <1>8, <1>9 DEF SessionInv

\* A write fails or outlasts its bound, and the session is over.
LEMMA WriteEndsKept ==
  ASSUME SessionInv, SendFails \/ SendExpires \/ FlushFails \/ FlushExpires
  PROVE  SessionInv'
<1>1. prefer \in BOOLEAN
  BY DEF SessionInv, TypeOK
<1>2. PICK why \in Reasons : End(why)
  BY DEF SendFails, SendExpires, FlushFails, FlushExpires, Reasons
<1>3. Same /\ Rest /\ inflight' = NoFrame /\ cont' = cont /\ prefer' = prefer
  BY DEF SendFails, SendExpires, FlushFails, FlushExpires
<1> QED
  BY <1>1, <1>2, <1>3, EndKept

\* The handler closes or fails: the channel is closed, the queue is kept.
LEMMA HandlerEndsKept ==
  ASSUME SessionInv, HandlerEnds
  PROVE  SessionInv'
<1> USE DEF HandlerEnds
<1>1. inflight = NoFrame /\ rx = "open"
  BY AtRest DEF Serving
<1>2. TypeOK'
  <2>1. {prefer, pinged, closing, closed}' \subseteq BOOLEAN
    BY TypesOfSession DEF SessionInv, SessionTypes
  <2>2. sess' \in Stations
    BY DEF Stations, Flushing
  <2>3. SessionTypes'
    BY <2>1, <2>2, TypesOfSession DEF SessionInv, SessionTypes
  <2> QED
    BY <2>3, SenderTypesUntouched DEF SessionInv
<1>3. Places'
  BY <1>1 DEF SessionInv, Places, Serving, Flushing, Leaving
<1>4. Permits'
  BY DEF SessionInv, Permits, Committing, Same, sendVars
<1>5. AcceptedConserved'
  BY <1>1 DEF SessionInv, AcceptedConserved, Same, sendVars
<1>6. \A i \in DOMAIN wire : ~Ends(wire[i])
  BY DEF SessionInv, CloseCompletes
<1>7. AllBeforeClose' /\ CloseCompletes'
  BY <1>6 DEF AllBeforeClose, CloseCompletes
<1>8. CloseIsLast' /\ DrainCovers'
  BY DEF SessionInv, CloseIsLast, DrainCovers
<1> QED
  BY <1>2, <1>3, <1>4, <1>5, <1>7, <1>8 DEF SessionInv

\* flush_outbound takes the next item.
LEMMA FlushItemKept ==
  ASSUME SessionInv, FlushItem
  PROVE  SessionInv'
<1> USE DEF FlushItem, Rest
<1>1. inflight = NoFrame /\ inflight \notin OutboundItem /\ rx = "closed" /\ closing
  BY FrameFacts DEF SessionInv, Places, Flushing
<1>2. \A i \in DOMAIN wire : ~Ends(wire[i])
  BY DEF SessionInv, CloseCompletes
<1>3. left \in 0..Capacity /\ prefer \in BOOLEAN /\ wire \in Seq(Frames)
  BY DEF SessionInv, TypeOK
<1>4. CASE IsClose(Head(queue))
  <2>1. StartClose("SenderClose", Head(queue)) /\ inflight' = NoFrame /\ cont' = cont
        /\ "SenderClose" \in Reasons
    BY <1>1, <1>4 DEF Reasons
  <2>2. wire' \in Seq(Frames) /\ \A i \in DOMAIN wire' : ~Ends(wire'[i])
    BY <1>2, <1>3
  <2>3. /\ Head(queue) \in Frames /\ Ends(Head(queue))
        /\ Head(queue) # <<"handler_close">>
        /\ accepted = Append(Items(wire'), Head(queue))
    BY <1>1, <1>4, HeadIsClose
  <2> QED
    BY <1>3, <2>1, <2>2, <2>3, StartCloseKept
<1>5. CASE ~IsClose(Head(queue))
  <2>1. /\ sess' = "flush_send" /\ inflight' = Head(queue) /\ queue' = Tail(queue)
        /\ UNCHANGED <<reason, frame, rx, closing, closed>>
    BY <1>5
  <2>2. /\ Head(queue) \in Messages /\ Head(queue) \in Frames
        /\ queue' \in Seq(Frames) /\ Len(queue') <= Capacity
    <3>1. queue \in Seq(Frames) /\ queue # << >> /\ Len(queue) <= Capacity
      BY DEF SessionInv, TypeOK
    <3>2. Head(queue) \in Messages /\ Head(queue) \in OutboundItem
      BY <1>5, HeadIsMessage, FrameFacts
    <3>3. /\ Tail(queue) \in Seq(Frames) /\ Len(Tail(queue)) = Len(queue) - 1
          /\ Len(queue) \in Nat /\ Head(queue) \in Frames
      BY ONLY <3>1
    <3>4. Len(Tail(queue)) <= Capacity /\ Capacity \in Nat
      BY ONLY <3>1, <3>3, WsAssumption
    <3> QED
      BY ONLY <2>1, <3>2, <3>3, <3>4
  <2>3. TypeOK'
    <3>1. {prefer, pinged, closing, closed}' \subseteq BOOLEAN
      BY <2>1, TypesOfSession DEF SessionInv, SessionTypes
    <3>2. sess' \in Stations
      BY <2>1 DEF Stations, Flushing
    <3>3. SessionTypes'
      BY <2>1, <2>2, <3>1, <3>2, TypesOfSession DEF SessionInv, SessionTypes
    <3> QED
      BY <3>3, SenderTypesUntouched DEF SessionInv
  <2>4. Places'
    BY <1>1, <2>1, <2>2, FrameFacts DEF Places, Serving, Flushing, Leaving
  <2>5. Permits' /\ AcceptedConserved' /\ CloseIsLast'
    BY <1>1, <1>5, <2>1, MessageTaken
  <2>6. AllBeforeClose' /\ CloseCompletes' /\ DrainCovers'
    BY <1>2, <2>1 DEF AllBeforeClose, CloseCompletes, DrainCovers
  <2> QED
    BY <2>3, <2>4, <2>5, <2>6 DEF SessionInv
<1> QED
  BY <1>4, <1>5

\* A write of flush_outbound ends.
LEMMA FlushSentKept ==
  ASSUME SessionInv, FlushSent
  PROVE  SessionInv'
<1> USE DEF FlushSent
<1>1. Same /\ UNCHANGED <<queue, rx, closing, closed>>
  BY DEF Quiet, Same, sharedVars
<1>2. inflight # NoFrame /\ inflight # Ping
  BY FrameFacts DEF SessionInv, Places
<1>3. /\ Permits' /\ AcceptedConserved' /\ CloseIsLast'
      /\ wire' \in Seq(Frames) /\ \A i \in DOMAIN wire' : ~Ends(wire'[i])
  BY <1>1, <1>2, FrameWritten
<1>4. TypeOK'
  <2>1. {prefer, pinged, closing, closed}' \subseteq BOOLEAN
    BY <1>1, TypesOfSession DEF SessionInv, SessionTypes
  <2>2. sess' \in Stations /\ inflight' \in Frames
    BY FrameFacts DEF Stations, Flushing
  <2>3. SessionTypes'
    BY <1>1, <1>3, <2>1, <2>2, TypesOfSession DEF SessionInv, SessionTypes
  <2> QED
    BY <1>1, <2>3, SenderTypesUntouched DEF SessionInv
<1>5. Places'
  BY <1>1, FrameFacts DEF SessionInv, Places, Serving, Flushing, Leaving
<1>6. AllBeforeClose' /\ CloseCompletes' /\ DrainCovers'
  BY <1>3 DEF AllBeforeClose, CloseCompletes, DrainCovers
<1> QED
  BY <1>3, <1>4, <1>5, <1>6 DEF SessionInv

\* The flush is done: the Close frame of the handler is next, or the end.
LEMMA FlushDoneKept ==
  ASSUME SessionInv, FlushDone
  PROVE  SessionInv'
<1> USE DEF FlushDone
<1>1. inflight = NoFrame /\ rx = "closed" /\ closing /\ prefer \in BOOLEAN
  BY DEF SessionInv, Places, Flushing, TypeOK
<1>2. CASE outcome # "close"
  BY <1>1, <1>2, EndKept DEF Reasons
<1>3. CASE outcome = "close"
  <2>1. sess' = "plain_close" /\ UNCHANGED <<reason, frame, queue, rx, closing, closed>>
    BY <1>3
  <2>2. TypeOK'
    <3>1. {prefer, pinged, closing, closed}' \subseteq BOOLEAN
      BY <2>1, TypesOfSession DEF SessionInv, SessionTypes, Rest
    <3>2. sess' \in Stations
      BY <2>1 DEF Stations, Flushing
    <3>3. SessionTypes'
      BY <2>1, <3>1, <3>2, TypesOfSession DEF SessionInv, SessionTypes, Rest
    <3> QED
      BY <3>3, SenderTypesUntouched DEF SessionInv
  <2>3. Places'
    BY <1>1, <2>1 DEF SessionInv, Places, Serving, Flushing, Leaving
  <2>4. Permits'
    BY <2>1 DEF SessionInv, Permits, Committing, Same, sendVars
  <2>5. AcceptedConserved'
    BY <2>1 DEF SessionInv, AcceptedConserved, Same, sendVars, Rest
  <2>6. CloseIsLast'
    BY <2>1 DEF SessionInv, CloseIsLast
  <2>7. AllBeforeClose' /\ CloseCompletes' /\ DrainCovers'
    BY <2>1 DEF SessionInv, AllBeforeClose, CloseCompletes, DrainCovers, Rest
  <2> QED
    BY <2>2, <2>3, <2>4, <2>5, <2>6, <2>7 DEF SessionInv
<1> QED
  BY <1>2, <1>3

\* A Close frame is written: it is the last frame, and completes what was
\* accepted.
LEMMA CloseWritten ==
  ASSUME SessionInv, sess \notin {"draining", "ended"}, NEW f \in Frames, Ends(f),
         wire' = Append(wire, f), accepted' = accepted,
         IsClose(f) => accepted = Append(Items(wire), f),
         f = <<"handler_close">> => accepted = Items(wire)
  PROVE  wire' \in Seq(Frames) /\ AllBeforeClose'
<1>1. wire \in Seq(Frames) /\ \A i \in DOMAIN wire : ~Ends(wire[i])
  BY DEF SessionInv, TypeOK, CloseCompletes
<1>2. /\ wire' \in Seq(Frames) /\ Len(wire') = Len(wire) + 1
      /\ DOMAIN wire' = 1..(Len(wire) + 1) /\ wire'[Len(wire) + 1] = f
      /\ \A i \in 1..Len(wire) : wire'[i] = wire[i]
      /\ DOMAIN wire = 1..Len(wire) /\ Len(wire) \in Nat
  BY <1>1
<1>3. Final(f) => Items(wire') = accepted
  <2>1. Items(wire') = IF f \in OutboundItem THEN Append(Items(wire), f) ELSE Items(wire)
    BY <1>1, ItemsAppend
  <2>2. CASE f \in OutboundItem /\ IsClose(f)
    BY <2>1, <2>2
  <2>3. CASE f \in Closings
    BY <2>1, <2>3, FrameFacts
  <2> QED
    BY <2>2, <2>3, FrameFacts
<1>4. ASSUME NEW i \in DOMAIN wire', Ends(wire'[i])
      PROVE  i = Len(wire') /\ (Final(wire'[i]) => Items(wire') = accepted')
  <2>1. i = Len(wire) + 1
    <3>1. i \in 1..(Len(wire) + 1)
      BY <1>2
    <3>2. i \notin 1..Len(wire)
      BY <1>1, <1>2, <1>4
    <3> QED
      BY ONLY <1>2, <3>1, <3>2
  <2> QED
    BY <1>2, <1>3, <2>1
<1> QED
  BY <1>2, <1>4 DEF AllBeforeClose, Final

\* The Close frame of WsOutcome::Close is written.
LEMMA HandlerCloseSentKept ==
  ASSUME SessionInv, HandlerCloseSent
  PROVE  SessionInv'
<1> USE DEF HandlerCloseSent
<1>1. inflight = NoFrame /\ inflight \notin OutboundItem /\ rx = "closed"
      /\ queue = << >>
  BY FrameFacts DEF SessionInv, Places, Flushing
<1>2. accepted = Items(wire)
  <2>1. Items(wire) \in Seq(OutboundItem)
    BY ItemsType DEF SessionInv, TypeOK
  <2>2. accepted = Items(wire) \o << >>
    BY <1>1, ConservedAtRest
  <2> QED
    BY <2>1, <2>2
<1>3. wire' \in Seq(Frames) /\ AllBeforeClose'
  <2>1. <<"handler_close">> \in Closings
    BY DEF Closings
  <2>2. accepted' = accepted
    BY DEF Same, sendVars
  <2> QED
    BY <1>2, <2>1, <2>2, CloseWritten, FrameFacts
<1>4. TypeOK'
  <2>1. {prefer, pinged, closing, closed}' \subseteq BOOLEAN
    BY TypesOfSession, ReleaseTypes DEF SessionInv, SessionTypes, End
  <2>2. sess' \in Stations /\ reason' \in Reasons
    BY DEF Stations, Leaving, End, Reasons
  <2>3. Len(queue') <= Capacity /\ queue' \in Seq(Frames)
        /\ rx' \in {"open", "closed", "dropped"}
    BY ReleaseTypes, WsAssumption DEF End
  <2>4. SessionTypes'
    BY <1>3, <2>1, <2>2, <2>3, TypesOfSession DEF SessionInv, SessionTypes, End
  <2> QED
    BY <2>4, SenderTypesUntouched DEF SessionInv
<1>5. Places'
  BY <1>1, FrameFacts DEF Places, End, Release, Serving, Flushing, Leaving
<1>6. CloseCompletes' /\ DrainCovers'
  BY DEF CloseCompletes, DrainCovers, End
<1> QED
  BY <1>3, <1>4, <1>5, <1>6, ReleaseKept DEF SessionInv, End

\* close_and_drain: the frame is written, or the client hangs up.
LEMMA LeavingKept ==
  ASSUME SessionInv, CloseSent \/ CloseOver
  PROVE  SessionInv'
<1>1. Same /\ UNCHANGED <<queue, rx, closing, closed, cont, inflight, left, outcome,
                          frame, prefer, pinged, messages, reason, due>>
  BY DEF CloseSent, CloseOver, Quiet, Same, sharedVars, Rest
<1>2. sess \in Leaving /\ sess' \in {"draining", "ended"}
  BY DEF CloseSent, CloseOver, Leaving
<1>3. rx = "dropped" /\ closing /\ queue = << >> /\ inflight = NoFrame
  BY <1>2 DEF SessionInv, Places, Leaving
<1>4. wire' \in Seq(Frames) /\ AllBeforeClose'
  <2>1. accepted' = accepted
    BY <1>1 DEF Same, sendVars
  <2>2. CASE CloseSent
    <3>1. /\ sess = "closing" /\ wire' = Append(wire, frame)
          /\ frame \in Frames /\ Ends(frame)
          /\ IsClose(frame) => accepted = Append(Items(wire), frame)
          /\ frame = <<"handler_close">> => accepted = Items(wire)
      BY <2>2 DEF CloseSent, SessionInv, TypeOK, Places, CloseCompletes
    <3> QED
      BY <2>1, <3>1, CloseWritten
  <2>3. CASE CloseOver
    BY <2>1, <2>3 DEF CloseOver, Rest, SessionInv, TypeOK, AllBeforeClose
  <2> QED
    BY <2>2, <2>3
<1>5. TypeOK'
  <2>1. {prefer, pinged, closing, closed}' \subseteq BOOLEAN
    BY <1>1, TypesOfSession DEF SessionInv, SessionTypes
  <2>2. sess' \in Stations
    BY <1>2 DEF Stations, Leaving
  <2>3. SessionTypes'
    BY <1>1, <1>4, <2>1, <2>2, TypesOfSession DEF SessionInv, SessionTypes
  <2> QED
    BY <1>1, <2>3, SenderTypesUntouched DEF SessionInv
<1>6. Places'
  BY <1>1, <1>2, <1>3, FrameFacts DEF Places, Serving, Flushing, Leaving
<1>7. Permits'
  BY <1>1 DEF SessionInv, Permits, Committing, Same, sendVars
<1>8. AcceptedConserved' /\ CloseIsLast' /\ CloseCompletes' /\ DrainCovers'
  BY <1>1, <1>2, <1>3
     DEF AcceptedConserved, CloseIsLast, CloseCompletes, DrainCovers
<1> QED
  BY <1>4, <1>5, <1>6, <1>7, <1>8 DEF SessionInv

\* Cancellation: a frame that was being written may have reached the wire.
LEMMA CancelledKept ==
  ASSUME SessionInv, Cancelled
  PROVE  SessionInv'
<1> USE DEF Cancelled
<1>1. wire \in Seq(Frames) /\ inflight \in Frames /\ ~Ends(inflight)
      /\ \A i \in DOMAIN wire : ~Ends(wire[i])
  BY FrameFacts DEF SessionInv, TypeOK, Places, CloseCompletes
<1>2. wire' \in Seq(Frames) /\ \A i \in DOMAIN wire' : ~Ends(wire'[i])
  <2>1. CASE wire' = wire
    BY <1>1, <2>1
  <2>2. CASE wire' = Append(wire, inflight)
    BY ONLY <1>1, <2>2
  <2> QED
    BY <2>1, <2>2
<1>3. left' \in 0..Capacity /\ prefer' \in BOOLEAN /\ "Cancelled" \in Reasons
  BY DEF SessionInv, TypeOK, Reasons
<1>4. CASE StartClose("Cancelled", <<"away">>)
  <2>1. <<"away">> \in Closings /\ <<"away">> # <<"handler_close">>
    BY DEF Closings
  <2> QED
    BY <1>2, <1>3, <1>4, <2>1, StartCloseKept, FrameFacts
<1>5. CASE sess = "plain_close" /\ StartClose("Cancelled", <<"handler_close">>)
  <2>1. <<"handler_close">> \in Closings
    BY DEF Closings
  <2>2. inflight = NoFrame /\ inflight \notin OutboundItem /\ rx = "closed"
        /\ queue = << >>
    BY <1>5, FrameFacts DEF SessionInv, Places, Flushing
  <2>3. accepted = Items(wire)
    <3>1. Items(wire) \in Seq(OutboundItem)
      BY <1>1, ItemsType
    <3>2. accepted = Items(wire) \o << >>
      BY <2>2, ConservedAtRest
    <3> QED
      BY <3>1, <3>2
  <2>4. accepted = Items(wire')
    BY <2>2, <2>3
  <2> QED
    BY <1>2, <1>3, <1>5, <2>1, <2>4, StartCloseKept, FrameFacts
<1> QED
  BY <1>4, <1>5

\* The server cancels the generation: nothing of the session changes yet.
LEMMA CancelSessionKept ==
  ASSUME SessionInv, CancelSession \/ UNCHANGED vars
  PROVE  SessionInv'
<1>1. UNCHANGED <<pingOn, sessVars, sendVars, sharedVars>> /\ cancel' \in BOOLEAN
  BY DEF CancelSession, vars, SessionInv, TypeOK
<1>2. SenderTypes'
  BY <1>1 DEF SessionInv, TypeOK, SenderTypes, sendVars, sharedVars
<1>3. TypeOK'
  BY <1>1, <1>2, SessionTypesUntouched DEF SessionInv, sharedVars
<1>4. Permits'
  BY <1>1 DEF SessionInv, Permits, Committing, sendVars, sharedVars
<1> QED
  BY <1>1, <1>3, <1>4, SessionUntouched DEF SessionInv, sendVars, sharedVars

-----------------------------------------------------------------------------
(* The theorems.                                                           *)

\* Every step of the session and of its senders keeps the invariant.
LEMMA StepKept ==
  ASSUME SessionInv, [Next]_vars
  PROVE  SessionInv'
<1>1. CASE \E s \in Senders : \E w \in {"send", "close"} : Begin(s, w)
  BY <1>1, BeginKept
<1>2. CASE \E s \in Senders : TrySend(s)
  BY <1>2, TrySendKept
<1>3. CASE \E s \in Senders : Withdraw(s) \/ Sender(s)
  BY <1>3, WaitsKept, CommitKept DEF Sender
<1>4. CASE Inbound \/ LoopOutbound \/ SendPing \/ HandlerReplies \/ HandlerEnds
  BY <1>4, InboundKept, OutboundKept, RepliesKept, HandlerRepliesKept,
     HandlerEndsKept
<1>5. CASE Internal
  BY <1>5, OutboundKept, DrainOverKept, ApplyReplyKept, ToCloseKept, RepliesKept,
     FlushItemKept, FlushDoneKept DEF Internal
<1>6. CASE Writes
  BY <1>6, SentKept, FlushSentKept, HandlerCloseSentKept, LeavingKept DEF Writes
<1>7. CASE Cancelled \/ SendFails \/ SendExpires \/ FlushFails \/ FlushExpires
  BY <1>7, CancelledKept, WriteEndsKept
<1>8. CASE CloseOver \/ CancelSession \/ UNCHANGED vars
  BY <1>8, LeavingKept, CancelSessionKept
<1> QED
  BY <1>1, <1>2, <1>3, <1>4, <1>5, <1>6, <1>7, <1>8 DEF Next

\* The invariant holds throughout.
LEMMA SessionInvAlways == Spec => []SessionInv
<1>1. SessionInv /\ [Next]_vars => SessionInv'
  BY StepKept
<1> QED
  BY InitKept, <1>1, PTL DEF Spec

\* What send() and close() promise when they answer Ok, whoever serves the
\* queue and whatever ends the session: while the receiver lives every accepted
\* item is on the wire, in flight or queued, once and in order; at the Close
\* frame all of them are on the wire, and nothing follows it.
THEOREM DeliveryIsInOrder == Spec => []DeliveredInOrder
<1>1. SessionInv => DeliveredInOrder
  BY DEF SessionInv, DeliveredInOrder
<1> QED
  BY SessionInvAlways, <1>1, PTL

\* A handler's reply has its place: what was accepted before the handler
\* returned is on the wire before it, drain_to_close finds the close it looks
\* for, and no reply is begun once a close() took effect.
THEOREM RepliesAreInOrder == Spec => ReplyInOrder
<1>1. SessionInv => PushBeforeReply
  <2> SUFFICES ASSUME SessionInv, sess = "reply"
               PROVE  Len(Items(wire)) >= due
    BY DEF PushBeforeReply
  <2>1. Items(<<inflight>>) = << >> /\ Items(wire) \in Seq(OutboundItem)
    BY AtRest, ItemsOne, ItemsType DEF Serving, SessionInv, TypeOK
  <2>2. due <= Served /\ due \in Nat
    BY DEF SessionInv, DrainCovers, TypeOK
  <2> QED
    BY <2>1, <2>2 DEF Served
<1>2. SessionInv => ToCloseMeetsClose
  <2> SUFFICES ASSUME SessionInv, sess = "to_close"
               PROVE  \E i \in DOMAIN queue : IsClose(queue[i])
    BY DEF ToCloseMeetsClose
  <2>1. rx = "open" /\ closing
    BY DEF SessionInv, Places, Serving, DrainCovers
  <2>2. queue \in Seq(OutboundItem) /\ queue # << >> /\ IsClose(queue[Len(queue)])
    BY <2>1 DEF SessionInv, CloseIsLast, Permits
  <2>3. Len(queue) \in DOMAIN queue
    BY <2>2
  <2> QED
    BY <2>2, <2>3
<1>3. ASSUME SessionInv, Next, sess # "reply", sess' = "reply"
      PROVE  ~closing
  <2>1. ASSUME NEW s \in Senders, NEW w \in {"send", "close"},
               Begin(s, w) \/ TrySend(s) \/ Withdraw(s) \/ Sender(s)
        PROVE  FALSE
    <3>1. sess' = sess
      BY <2>1 DEF Begin, TrySend, Withdraw, Sender, ReserveFails, Reserve, Commit,
         SignalClosed, sessVars
    <3> QED
      BY <1>3, <3>1
  <2>2. CASE Inbound
    BY <1>3, <2>2 DEF Inbound, ReceiveNoise, ReceivePong, ReceiveData, ReceiveEnd,
       CloseFromHere, InboundTurn, End, StartClose
  <2>3. CASE LoopOutbound \/ HandlerOutbound \/ DrainItem \/ SendPing \/ SendReply
    BY <1>3, <2>3
       DEF LoopOutbound, HandlerOutbound, DrainItem, SendPing, SendReply,
       TakeItem, StartSend, StartClose
  <2>4. CASE HandlerReplies \/ HandlerEnds \/ DrainOver \/ FlushItem \/ FlushDone
    BY <1>3, <2>4
       DEF HandlerReplies, HandlerEnds, DrainOver, FlushItem, FlushDone,
       StartClose, End
  <2>5. CASE ApplyReply
    BY <1>3, <2>5 DEF ApplyReply
  <2>6. CASE ToClose
    <3>1. queue # << >>
      <4>1. \E i \in DOMAIN queue : IsClose(queue[i])
        BY <1>2, <1>3, <2>6 DEF ToClose, ToCloseMeetsClose
      <4> QED
        BY <4>1
    <3> QED
      BY <1>3, <2>6, <3>1 DEF ToClose, TakeItem, StartSend, StartClose
  <2>7. CASE Sent
    BY <1>3, <2>7 DEF Sent, SessionInv, TypeOK
  <2>8. CASE FlushSent \/ HandlerCloseSent \/ CloseSent \/ CloseOver \/ Cancelled
    BY <1>3, <2>8
       DEF FlushSent, HandlerCloseSent, CloseSent, CloseOver, Cancelled, End,
       StartClose
  <2>9. CASE SendFails \/ SendExpires \/ FlushFails \/ FlushExpires
    BY <1>3, <2>9 DEF SendFails, SendExpires, FlushFails, FlushExpires, End
  <2>10. CASE CancelSession
    BY <1>3, <2>10 DEF CancelSession, sessVars
  <2> QED
    BY <1>3, <2>1, <2>2, <2>3, <2>4, <2>5, <2>6, <2>7, <2>8, <2>9, <2>10
       DEF Next, Internal, Writes
<1>4. SessionInv /\ [Next]_vars =>
        [sess # "reply" /\ sess' = "reply" => ~closing]_vars
  BY <1>3
<1> QED
  BY SessionInvAlways, <1>1, <1>2, <1>4, PTL
     DEF Spec, ReplyInOrder, ReplyNotAfterClose
=============================================================================
