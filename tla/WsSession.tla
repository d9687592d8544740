------------------------------ MODULE WsSession ------------------------------
(***************************************************************************)
(* One WebSocket session of crates/plugin-websocket: the session task      *)
(* (session.rs, run_session_inner) and the clones of its WsSender          *)
(* (handler.rs) that other tasks, the handler included, send and close     *)
(* with. The outbound queue, the CloseState under its lock and the two     *)
(* watch signals are shared. Time is left open: a timer that is armed may  *)
(* fire at any moment. The client may stop reading: a write need not end.  *)
(***************************************************************************)
EXTENDS Integers, Sequences, FiniteSets, Functions, Selection

CONSTANTS
  Senders,     \* tasks with a clone of the WsSender, numbered as they first act
  Capacity,    \* outbound_capacity
  MaxOps,      \* bound: operations of one sender
  MaxTotal,    \* bound: operations of all senders, for each value of pingOn
  MaxMessages  \* bound: data messages of the client

ASSUME WsAssumption ==
  /\ Senders \subseteq Nat /\ IsFiniteSet(Senders)
  /\ Capacity \in Nat \ {0} /\ MaxOps \in Nat /\ MaxTotal \in [BOOLEAN -> Nat]
  /\ MaxMessages \in Nat

VARIABLES
  pingOn,    \* WebSocketConfig::ping is set
  sess,      \* where the session task stands
  cont,      \* where it goes on after a frame was written
  inflight,  \* the frame being written
  left,      \* iterations left in drain_before_reply
  outcome,   \* what the handler returned
  frame,     \* who asked for the closing frame: a sender's item, or a word
  prefer,    \* prefer_outbound
  pinged,    \* Keepalive::pending
  messages,  \* data messages received
  cancel,    \* the generation's cancellation
  reason,    \* CloseReason given to on_close
  queue,     \* outbound queue
  rx,        \* its receiver: "open", "closed", "dropped"
  closing,   \* CloseState::closing
  requested, \* value of close_request_signal
  closed,    \* value of closed_signal
  op,        \* per sender: where its operation stands
  what,      \* per sender: "send" or "close"
  ops,       \* per sender: operations begun
  accepted,  \* history: items whose operation took effect, in order
  wire,      \* history: frames written, pings and pongs left out
  due        \* history: items accepted when the handler returned

sessVars == <<sess, cont, inflight, left, outcome, frame, prefer, pinged,
              messages, reason, wire, due>>
sendVars == <<op, what, ops, accepted>>
sharedVars == <<queue, rx, closing, requested, closed>>
vars == <<pingOn, sessVars, sendVars, sharedVars, cancel>>

NoFrame == <<"none">>
Reply == <<"reply">>
Ping == <<"ping">>
Item(s) == <<what[s], s, ops[s]>>
IsClose(item) == item[1] = "close"

Init ==
  /\ pingOn \in BOOLEAN
  /\ sess = "loop" /\ cont = "loop"
  /\ inflight = NoFrame /\ frame = NoFrame
  /\ left = 0
  /\ outcome = "none"
  /\ prefer = FALSE
  /\ pinged = FALSE
  /\ messages = 0
  /\ cancel = FALSE
  /\ reason = "none"
  /\ queue = << >>
  /\ rx = "open"
  /\ closing = FALSE /\ requested = FALSE /\ closed = FALSE
  /\ op = [s \in Senders |-> "idle"]
  /\ what = [s \in Senders |-> "send"]
  /\ ops = [s \in Senders |-> 0]
  /\ accepted = << >>
  /\ wire = << >>
  /\ due = 0

-----------------------------------------------------------------------------
(* WsSender                                                                *)

\* A permit of the channel is left: neither queued items nor reservations have
\* it.
HasRoom ==
  Len(queue) + Cardinality({s \in Senders : op[s] = "commit"})
    < Capacity

ClosePending(S) == {s \in S : op[s] # "idle" /\ what[s] = "close"}

\* s ends its operation; a close request is withdrawn with it.
Finish(s, isClosing) ==
  /\ op' = [op EXCEPT ![s] = "idle"]
  /\ requested' = IF what[s] = "close"
                  THEN ClosePending(Senders \ {s}) # {} \/ isClosing
                  ELSE requested

\* s is between two operations.
MayBegin(s) ==
  /\ op[s] = "idle"
  /\ ops[s] < MaxOps /\ SumFunction(ops) < MaxTotal[pingOn]
  /\ \A r \in Senders : r < s => ops[r] > 0

\* send, or close with a code and a reason that may be sent.
Begin(s, w) ==
  /\ MayBegin(s)
  /\ op' = [op EXCEPT ![s] = "reserve"]
  /\ what' = [what EXCEPT ![s] = w]
  /\ ops' = [ops EXCEPT ![s] = @ + 1]
  /\ requested' = (requested \/ w = "close")
  /\ UNCHANGED <<pingOn, sessVars, accepted, queue, rx, closing, closed, cancel>>

\* try_send finds room; without room it fails at once and nothing changes.
TrySend(s) ==
  /\ MayBegin(s)
  /\ rx = "open" /\ HasRoom
  /\ op' = [op EXCEPT ![s] = "commit"]
  /\ what' = [what EXCEPT ![s] = "send"]
  /\ ops' = [ops EXCEPT ![s] = @ + 1]
  /\ UNCHANGED <<pingOn, sessVars, accepted, sharedVars, cancel>>

\* reserve_or_closed: the signal is looked at before the channel.
ReserveFails(s) ==
  /\ op[s] = "reserve"
  /\ closed \/ rx # "open"
  /\ Finish(s, closing)
  /\ UNCHANGED <<pingOn, sessVars, what, ops, accepted, queue, rx, closing, closed,
                 cancel>>

Reserve(s) ==
  /\ op[s] = "reserve"
  /\ ~closed /\ rx = "open"
  /\ HasRoom
  /\ op' = [op EXCEPT ![s] = "commit"]
  /\ UNCHANGED <<pingOn, sessVars, what, ops, accepted, sharedVars, cancel>>

\* The future of the operation is dropped while it waits.
Withdraw(s) ==
  /\ op[s] = "reserve"
  /\ Finish(s, closing)
  /\ UNCHANGED <<pingOn, sessVars, what, ops, accepted, queue, rx, closing, closed,
                 cancel>>

\* Mutation of Commit: closing is not looked at.
CommitBlind(s) ==
  /\ op[s] = "commit"
  /\ queue' = IF rx = "dropped" THEN queue ELSE Append(queue, Item(s))
  /\ accepted' = Append(accepted, Item(s))
  /\ closing' = (closing \/ what[s] = "close")
  /\ IF what[s] = "close"
     THEN op' = [op EXCEPT ![s] = "signal"] /\ UNCHANGED requested
     ELSE Finish(s, closing)
  /\ UNCHANGED <<pingOn, sessVars, what, ops, rx, closed, cancel>>

\* Mutation of Commit: closing is set before the item enters the queue.
CommitClosingFirst(s) ==
  \/ /\ op[s] = "commit"
     /\ ~closing /\ what[s] = "close"
     /\ closing' = TRUE
     /\ op' = [op EXCEPT ![s] = "entering"]
     /\ UNCHANGED <<pingOn, sessVars, what, ops, accepted, queue, rx, requested, closed,
                    cancel>>
  \/ /\ op[s] = "entering"
     /\ queue' = Append(queue, Item(s))
     /\ accepted' = Append(accepted, Item(s))
     /\ op' = [op EXCEPT ![s] = "signal"]
     /\ UNCHANGED <<pingOn, sessVars, what, ops, rx, closing, requested, closed, cancel>>

\* commit_with, under the lock: refused once closing is set; a close sets it
\* in the same moment as its item enters the queue.
Commit(s) ==
  /\ op[s] = "commit"
  /\ IF closing
     THEN Finish(s, closing) /\ UNCHANGED <<queue, accepted, closing>>
     ELSE /\ queue' = Append(queue, Item(s))
          /\ accepted' = Append(accepted, Item(s))
          /\ closing' = (what[s] = "close")
          /\ IF what[s] = "close"
             THEN op' = [op EXCEPT ![s] = "signal"] /\ UNCHANGED requested
             ELSE Finish(s, closing)
  /\ UNCHANGED <<pingOn, sessVars, what, ops, rx, closed, cancel>>

\* closed_signal is sent after the lock was given back.
SignalClosed(s) ==
  /\ op[s] = "signal"
  /\ closed' = TRUE
  /\ Finish(s, closing)
  /\ UNCHANGED <<pingOn, sessVars, what, ops, accepted, queue, rx, closing, cancel>>

Sender(s) ==
  \/ ReserveFails(s) \/ Reserve(s) \/ Commit(s) \/ SignalClosed(s)

-----------------------------------------------------------------------------
(* Steps the session's flows share.                                        *)

\* seal_for_session and the drop of the receiver with what is queued.
Release ==
  /\ closing' = TRUE
  /\ closed' = TRUE
  /\ rx' = "dropped"
  /\ queue' = << >>

\* The session is over: the guard is dropped and on_close is called.
End(why) ==
  /\ sess' = "ended"
  /\ reason' = why
  /\ Release
  /\ UNCHANGED frame

\* close_and_drain: the frame f, then the client's bytes until it hangs up.
StartClose(why, f) ==
  /\ sess' = "closing"
  /\ reason' = why
  /\ frame' = f
  /\ Release

\* A frame is going to be written with send_bounded.
StartSend(f, next) ==
  /\ sess' = "send"
  /\ inflight' = f
  /\ cont' = next

Same == UNCHANGED <<pingOn, sendVars, requested, cancel>>

\* What a step of the session leaves alone unless it says otherwise.
Quiet == UNCHANGED <<pingOn, sendVars, sharedVars, cancel>>
Rest == UNCHANGED <<left, outcome, pinged, messages, wire, due>>

-----------------------------------------------------------------------------
(* The outer loop of run_session_inner.                                    *)

\* Mutation of InboundTurn: prefer_outbound is not looked at.
InboundTurnGreedy ==
  /\ sess = "loop"
  /\ ~cancel
  /\ prefer' = ~prefer

\* The receiving side and the timers get their turn: always when nothing is
\* queued, else every other time round.
InboundTurn ==
  /\ sess = "loop"
  /\ ~cancel
  /\ prefer \/ queue = << >>
  /\ prefer' = ~prefer

\* Mutation of Cancelled: the handler is not raced with the cancellation.
CancelledAfterHandler ==
  /\ sess \in {"loop", "send", "flush_send", "plain_close"}
  /\ cancel
  /\ StartClose("Cancelled", <<"away">>)
  /\ UNCHANGED wire
  /\ inflight' = NoFrame
  /\ UNCHANGED <<cont, left, outcome, prefer, pinged, messages, due>>
  /\ Same

\* Cancellation goes first in every race of the session. A frame that was
\* being written may be in the stream's buffer already, and a close frame too.
Cancelled ==
  /\ sess \in {"loop", "handler", "send", "flush_send", "plain_close"}
  /\ cancel
  /\ \/ StartClose("Cancelled", <<"away">>)
     \/ sess = "plain_close" /\ StartClose("Cancelled", <<"handler_close">>)
  /\ \/ UNCHANGED wire
     \/ inflight \notin {NoFrame, Ping} /\ wire' = Append(wire, inflight)
  /\ inflight' = NoFrame
  /\ UNCHANGED <<cont, left, outcome, prefer, pinged, messages, due>>
  /\ Same

SendPing ==
  /\ sess = "loop"
  /\ pingOn /\ ~pinged
  /\ StartSend(Ping, "loop")
  /\ UNCHANGED <<frame, prefer, reason>>
  /\ Rest /\ Quiet

\* Frames of the client that tungstenite deals with itself, late pongs, and
\* the ping timer.
ReceiveNoise ==
  /\ InboundTurn
  /\ UNCHANGED <<sess, cont, inflight, frame, reason>>
  /\ Rest /\ Quiet

ReceivePong ==
  /\ InboundTurn
  /\ pinged
  /\ pinged' = FALSE
  /\ UNCHANGED <<sess, cont, inflight, left, outcome, frame, messages, reason,
                 wire, due>>
  /\ Quiet

ReceiveData ==
  /\ InboundTurn
  /\ messages < MaxMessages
  /\ messages' = messages + 1
  /\ sess' = "handler"
  /\ UNCHANGED <<cont, inflight, left, outcome, frame, pinged, reason, wire,
                 due>>
  /\ Quiet

\* The client closes, hangs up, or breaks the protocol.
ReceiveEnd ==
  /\ InboundTurn
  /\ \E why \in {"ClientClose", "Eof", "Failed"} : End(why)
  /\ UNCHANGED <<cont, inflight>>
  /\ Rest /\ Same

\* A message too large, or a timer: the session closes from its side.
CloseFromHere ==
  /\ InboundTurn
  /\ \/ StartClose("MessageTooLarge", <<"size">>)
     \/ StartClose("IdleTimeout", <<"plain">>)
     \/ pinged /\ StartClose("PongTimeout", <<"plain">>)
  /\ UNCHANGED <<cont, inflight>>
  /\ Rest /\ Same

\* The item at the head of the queue: a message is written and the session
\* goes on at next, a close ends everything else.
TakeItem(next) ==
  /\ queue # << >>
  /\ IF IsClose(Head(queue))
     THEN StartClose("SenderClose", Head(queue)) /\ UNCHANGED <<inflight, cont>>
     ELSE /\ StartSend(Head(queue), next)
          /\ queue' = Tail(queue)
          /\ UNCHANGED <<reason, frame, rx, closing, closed>>

LoopOutbound ==
  /\ sess = "loop"
  /\ ~cancel
  /\ prefer' = ~prefer
  /\ TakeItem("loop")
  /\ Rest /\ Same

-----------------------------------------------------------------------------
(* send_bounded                                                            *)

Sent ==
  /\ sess = "send"
  /\ ~cancel
  /\ sess' = cont
  /\ wire' = IF inflight = Ping THEN wire ELSE Append(wire, inflight)
  /\ pinged' = (pinged \/ inflight = Ping)
  /\ inflight' = NoFrame
  /\ UNCHANGED <<cont, left, outcome, frame, prefer, messages, reason,
                 due>>
  /\ Quiet

SendFails ==
  /\ sess = "send"
  /\ ~cancel
  /\ End("Failed")
  /\ inflight' = NoFrame
  /\ UNCHANGED <<cont, prefer>>
  /\ Rest /\ Same

\* Mutation of SendExpires: a close request does not bound a stuck write.
SendExpiresLate ==
  /\ sess = "send"
  /\ ~cancel
  /\ pingOn /\ End("PongTimeout")
  /\ inflight' = NoFrame
  /\ UNCHANGED <<cont, prefer>>
  /\ Rest /\ Same

\* close_grace passes since a close() was asked for; or, with pings on, the
\* write takes longer than pong_timeout.
SendExpires ==
  /\ sess = "send"
  /\ ~cancel
  /\ \/ requested /\ End("SenderClose")
     \/ pingOn /\ End("PongTimeout")
  /\ inflight' = NoFrame
  /\ UNCHANGED <<cont, prefer>>
  /\ Rest /\ Same

-----------------------------------------------------------------------------
(* run_handler_with_outbound_drain and apply_outcome                       *)

\* Mutation of HandlerOutbound: the queue waits until the handler returns.
HandlerOutboundOff ==
  /\ sess = "handler" /\ outcome = "close"
  /\ TakeItem("handler")
  /\ UNCHANGED prefer
  /\ Rest /\ Same

\* While the handler runs, the queue is served.
HandlerOutbound ==
  /\ sess = "handler"
  /\ ~cancel
  /\ TakeItem("handler")
  /\ UNCHANGED prefer
  /\ Rest /\ Same

\* Mutation of HandlerReplies: one round too many of drain_before_reply.
HandlerRepliesInclusive ==
  /\ sess = "handler"
  /\ ~cancel
  /\ sess' = "drain"
  /\ outcome' = "reply"
  /\ left' = Capacity + 1
  /\ due' = Len(accepted)
  /\ UNCHANGED <<cont, inflight, frame, prefer, pinged, messages, reason, wire>>
  /\ Quiet

\* Mutation of HandlerReplies: an item that was just received is lost.
HandlerRepliesLosing ==
  /\ sess = "handler"
  /\ ~cancel
  /\ sess' = "drain"
  /\ outcome' = "reply"
  /\ left' = Capacity
  /\ due' = Len(accepted)
  /\ queue' = IF queue = << >> THEN queue ELSE Tail(queue)
  /\ UNCHANGED <<cont, inflight, frame, prefer, pinged, messages, reason, wire,
                 rx, closing, closed>>
  /\ Same

\* Mutation of HandlerReplies: the queue is not served before the reply.
HandlerRepliesAtOnce ==
  /\ sess = "handler"
  /\ ~cancel
  /\ sess' = "apply"
  /\ outcome' = "reply"
  /\ left' = Capacity
  /\ due' = Len(accepted)
  /\ UNCHANGED <<cont, inflight, frame, prefer, pinged, messages, reason, wire>>
  /\ Quiet

HandlerReplies ==
  /\ sess = "handler"
  /\ ~cancel
  /\ sess' = "drain"
  /\ outcome' = "reply"
  /\ left' = Capacity
  /\ due' = Len(accepted)
  /\ UNCHANGED <<cont, inflight, frame, prefer, pinged, messages, reason, wire>>
  /\ Quiet

\* drain_before_reply: at most Capacity items.
DrainItem ==
  /\ sess = "drain"
  /\ left > 0
  /\ TakeItem("drain")
  /\ left' = left - 1
  /\ UNCHANGED <<outcome, prefer, pinged, messages, wire, due>>
  /\ Same

DrainOver ==
  /\ sess = "drain"
  /\ left = 0 \/ queue = << >>
  /\ sess' = "apply"
  /\ UNCHANGED <<cont, inflight, frame, prefer, reason>>
  /\ Rest /\ Quiet

\* Mutation of ApplyReply: the reply goes out although close() took effect.
ApplyReplyBlind ==
  /\ sess = "apply"
  /\ sess' = "reply"
  /\ UNCHANGED <<cont, inflight, frame, prefer, reason>>
  /\ Rest /\ Quiet

\* Right before the reply: did a close() take effect?
ApplyReply ==
  /\ sess = "apply"
  /\ sess' = IF closing THEN "to_close" ELSE "reply"
  /\ UNCHANGED <<cont, inflight, frame, prefer, reason>>
  /\ Rest /\ Quiet

\* drain_to_close; the code asserts that the queue is not empty before the
\* close was met (ToCloseMeetsClose).
ToClose ==
  /\ sess = "to_close"
  /\ IF queue = << >>
     THEN sess' = "reply" /\ UNCHANGED <<cont, inflight, frame, reason,
                                         queue, rx, closing, closed>>
     ELSE TakeItem("to_close")
  /\ UNCHANGED prefer
  /\ Rest /\ Same

\* The messages of the reply, here one or none.
SendReply ==
  /\ sess = "reply"
  /\ \/ StartSend(Reply, "loop")
     \/ sess' = "loop" /\ UNCHANGED <<cont, inflight>>
  /\ UNCHANGED <<frame, prefer, reason>>
  /\ Rest /\ Quiet

-----------------------------------------------------------------------------
(* flush_outbound, after the handler closed or failed                      *)

\* The handler closes or fails: senders are turned away, what is queued is
\* still going to be written.
HandlerEnds ==
  /\ sess = "handler"
  /\ ~cancel
  /\ sess' = "flush"
  /\ outcome' \in {"close", "error"}
  /\ closing' = TRUE /\ closed' = TRUE
  /\ rx' = "closed"
  /\ UNCHANGED <<cont, inflight, left, frame, prefer, pinged, messages, reason,
                 wire, due, queue>>
  /\ Same

FlushItem ==
  /\ sess = "flush"
  /\ queue # << >>
  /\ IF IsClose(Head(queue))
     THEN StartClose("SenderClose", Head(queue)) /\ UNCHANGED inflight
     ELSE /\ sess' = "flush_send"
          /\ inflight' = Head(queue)
          /\ queue' = Tail(queue)
          /\ UNCHANGED <<reason, frame, rx, closing, closed>>
  /\ UNCHANGED <<cont, prefer>>
  /\ Rest /\ Same

FlushSent ==
  /\ sess = "flush_send"
  /\ ~cancel
  /\ sess' = "flush"
  /\ wire' = Append(wire, inflight)
  /\ inflight' = NoFrame
  /\ UNCHANGED <<cont, left, outcome, frame, prefer, pinged, messages, reason,
                 due>>
  /\ Quiet

\* The flush is done.
FlushDone ==
  /\ sess = "flush"
  /\ queue = << >>
  /\ IF outcome = "close"
     THEN /\ sess' = "plain_close"
          /\ UNCHANGED <<reason, frame, queue, rx, closing, closed>>
     ELSE End("Failed")
  /\ UNCHANGED <<cont, inflight, prefer>>
  /\ Rest /\ Same

FlushFails ==
  /\ sess \in {"flush_send", "plain_close"}
  /\ ~cancel
  /\ End("Failed")
  /\ inflight' = NoFrame
  /\ UNCHANGED <<cont, prefer>>
  /\ Rest /\ Same

\* Mutation of FlushExpires: the write of the Close frame has no deadline.
FlushExpiresNoClose ==
  /\ sess = "flush_send"
  /\ ~cancel
  /\ End(IF outcome = "close" THEN "HandlerClose" ELSE "Failed")
  /\ inflight' = NoFrame
  /\ UNCHANGED <<cont, prefer>>
  /\ Rest /\ Same

\* close_grace passes since the handler returned, or earlier since a close()
\* was asked for.
FlushExpires ==
  /\ sess \in {"flush_send", "plain_close"}
  /\ ~cancel
  /\ End(IF outcome = "close" THEN "HandlerClose" ELSE "Failed")
  /\ inflight' = NoFrame
  /\ UNCHANGED <<cont, prefer>>
  /\ Rest /\ Same

HandlerCloseSent ==
  /\ sess = "plain_close"
  /\ ~cancel
  /\ End("HandlerClose")
  /\ wire' = Append(wire, <<"handler_close">>)
  /\ UNCHANGED <<cont, inflight, left, outcome, prefer, pinged, messages, due>>
  /\ Same

-----------------------------------------------------------------------------
(* close_and_drain and handle_message_too_big                              *)

CloseSent ==
  /\ sess = "closing"
  /\ sess' = "draining"
  /\ wire' = Append(wire, frame)
  /\ UNCHANGED <<cont, inflight, left, outcome, frame, prefer, pinged, messages,
                 reason, due>>
  /\ Quiet

\* The client hangs up, the write fails, or the deadline passes.
CloseOver ==
  /\ sess \in {"closing", "draining"}
  /\ sess' = "ended"
  /\ UNCHANGED <<cont, inflight, frame, prefer, reason>>
  /\ Rest /\ Quiet

-----------------------------------------------------------------------------
(* The server cancels the session's generation.                            *)
CancelSession ==
  /\ ~cancel
  /\ cancel' = TRUE
  /\ UNCHANGED <<pingOn, sessVars, sendVars, sharedVars>>

Inbound ==
  \/ ReceiveNoise \/ ReceivePong \/ ReceiveData \/ ReceiveEnd \/ CloseFromHere

\* Steps the session task makes by itself once it is scheduled.
Internal ==
  \/ HandlerOutbound \/ DrainItem \/ DrainOver \/ ApplyReply \/ ToClose
  \/ SendReply \/ FlushItem \/ FlushDone

\* Writes that end, as far as the client reads.
Writes == Sent \/ FlushSent \/ HandlerCloseSent \/ CloseSent

Next ==
  \/ \E s \in Senders : \/ \E w \in {"send", "close"} : Begin(s, w)
                        \/ TrySend(s) \/ Withdraw(s) \/ Sender(s)
  \/ Inbound \/ LoopOutbound \/ SendPing \/ HandlerReplies \/ HandlerEnds
  \/ Internal \/ Writes
  \/ Cancelled \/ SendFails \/ SendExpires \/ FlushFails \/ FlushExpires
  \/ CloseOver
  \/ CancelSession

Spec == Init /\ [][Next]_vars

\* The scheduler runs every task that can go on, and tokio's timers fire. In
\* the loop with something queued the task turns to one side or the other.
\* Nothing is assumed of the client or of the handler.
Fairness ==
  /\ \A s \in Senders : WF_vars(Sender(s))
  /\ WF_vars(LoopOutbound \/ (queue # << >> /\ Inbound))
  /\ WF_vars(Internal)
  /\ WF_vars(Cancelled)
  /\ WF_vars(SendExpires)
  /\ WF_vars(FlushExpires)
  /\ WF_vars(CloseOver)

FairSpec == Spec /\ Fairness

\* The client reads: each write ends, too.
ClientReads == WF_vars(Writes)

-----------------------------------------------------------------------------
(* Properties                                                              *)

\* Frames that came from a WsSender.
OutboundItem == {"send", "close"} \X Senders \X (1..MaxOps)
Items(fs) == Select(fs, OutboundItem)
Frames == {NoFrame, Reply, Ping, <<"away">>, <<"plain">>, <<"size">>,
           <<"handler_close">>} \cup OutboundItem
Ends(f) == f[1] \in {"close", "away", "plain", "size", "handler_close"}

\* The values each variable may have; the queue never exceeds the capacity
\* the channel was made with.
TypeOK ==
  /\ sess \in {"loop", "send", "handler", "drain", "apply", "to_close", "reply",
               "flush", "flush_send", "plain_close", "closing", "draining",
               "ended"}
  /\ cont \in {"loop", "handler", "drain", "to_close"}
  /\ inflight \in Frames /\ frame \in Frames
  /\ left \in 0..Capacity
  /\ outcome \in {"none", "reply", "close", "error"}
  /\ {pingOn, prefer, pinged, cancel, closing, requested, closed} \subseteq BOOLEAN
  /\ messages \in 0..MaxMessages
  /\ reason \in {"none", "ClientClose", "Eof", "Failed", "HandlerClose",
                 "IdleTimeout", "PongTimeout", "MessageTooLarge", "SenderClose",
                 "Cancelled"}
  /\ queue \in Seq(Frames) /\ accepted \in Seq(Frames) /\ wire \in Seq(Frames)
  /\ Len(queue) <= Capacity
  /\ rx \in {"open", "closed", "dropped"}
  /\ op \in [Senders -> {"idle", "reserve", "commit", "signal"}]
  /\ what \in [Senders -> {"send", "close"}]
  /\ ops \in [Senders -> 0..MaxOps]
  /\ due \in Nat

\* While the receiver lives, every item a send() or close() was answered Ok for
\* is on the wire, being written or queued, once and in the order in which
\* commit_with accepted it, whichever of the flows of the session is serving
\* the queue.
AcceptedConserved ==
  rx # "dropped" => accepted = Items(wire) \o Items(<<inflight>>) \o queue

\* When the Close frame of a WsSender::close, or that of WsOutcome::Close, is
\* on the wire, so is every item that was accepted by then; and after a Close
\* frame nothing is written at all.
AllBeforeClose ==
  \A i \in DOMAIN wire : Ends(wire[i]) =>
    /\ i = Len(wire)
    /\ wire[i][1] \in {"close", "handler_close"} => Items(wire) = accepted

\* What send() and close() promise when they answer Ok: the item is written
\* once, in order, before the Close frame, and nothing after that.
DeliveredInOrder == TypeOK /\ AcceptedConserved /\ AllBeforeClose

\* drain_before_reply: what was accepted before the handler returned (a push
\* of the handler itself, say) is on the wire before its reply.
PushBeforeReply ==
  sess = "reply" => Len(Items(wire)) >= due

\* apply_outcome: a reply is not begun once a close() took effect, however the
\* close() was interleaved with draining the queue.
ReplyNotAfterClose ==
  [][sess # "reply" /\ sess' = "reply" => ~closing]_vars

\* The assertion of drain_to_close: when close() was found to have taken
\* effect, its item is still in the queue.
ToCloseMeetsClose ==
  sess = "to_close" => \E i \in DOMAIN queue : IsClose(queue[i])

\* A handler's reply has its place: after what was pushed before it, and never
\* after a close() that took effect.
ReplyInOrder ==
  [](PushBeforeReply /\ ToCloseMeetsClose) /\ ReplyNotAfterClose

\* Once close() took effect or the session began to end, it ends, although the
\* client may have stopped reading, the handler may never return, and the
\* client may send without pause.
ClosingEnds == []<>(closing => sess = "ended")

\* A cancelled session ends under the same circumstances.
CancelEnds == []<>(cancel => sess = "ended")

\* The session ends when it is closed or cancelled.
SessionEnds == ClosingEnds /\ CancelEnds

\* A close() that waits for room in the queue gets its answer, even when the
\* queue is full and the client has stopped reading.
CloseAnswered ==
  \A s \in Senders : []<>(what[s] = "close" => op[s] = "idle")

\* While the client reads, a send() that waits for room gets its answer, also
\* when the handler, which may be the sender itself, waits for it.
SendAnswered ==
  ClientReads => \A s \in Senders : []<>(op[s] # "reserve")

\* While the client reads, what was accepted is written or the session ends,
\* although the client may send without pause.
AcceptedWritten ==
  ClientReads => []<>(Items(wire) = accepted \/ sess = "ended")

\* While the client reads, the outbound queue is served: for the senders that
\* wait for room in it and for the items in it.
QueueServed == SendAnswered /\ AcceptedWritten

\* A session and those who wait for it come to an end of their waits: it ends
\* when told to, a close() is answered, and while the client reads the queue
\* is served (run_session, WsSender).
SessionSettles == SessionEnds /\ CloseAnswered /\ QueueServed
=============================================================================
