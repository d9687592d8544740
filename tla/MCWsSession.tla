---------------------------- MODULE MCWsSession ----------------------------
(***************************************************************************)
(* The WebSocket plugin in its two stages, each by itself: how an upgrade  *)
(* is routed, checked and answered, and the session that follows it.       *)
(***************************************************************************)
EXTENDS WsSession, WsHandshake

MCSenders == 1..3
MCMaxTotal == [on \in BOOLEAN |-> IF on THEN 2 ELSE 3]

\* Paths and patterns that overlap, and one pattern for every error of parse.
WsAt(segs) == [slash |-> TRUE, segs |-> segs]
WsLit(w) == <<"literal", w>>
WsPar(n) == <<"param", n>>
MCWsPaths == {WsAt(<<"a">>), WsAt(<<"{x}">>)}
MCWsPatterns ==
  {WsAt(<<WsPar("x")>>), WsAt(<<WsLit("a"), WsPar("x")>>),
   WsAt(<<WsPar("x"), WsPar("y")>>), WsAt(<<WsLit("a"), WsLit("")>>),
   [slash |-> FALSE, segs |-> <<WsPar("x")>>], WsAt(<<WsLit(""), WsPar("x")>>),
   WsAt(<<WsPar("")>>), WsAt(<<WsPar("x-")>>), WsAt(<<WsPar("x"), WsPar("x")>>),
   WsAt(<<WsPar("long")>>), WsAt(<<WsPar("*x")>>), WsAt(<<<<"mixed", "a{x}">>>>),
   WsAt(<<WsPar("x"), WsLit("a"), WsLit("b"), WsLit("c")>>)}

\* A request on each path, and one with each defect of a handshake.
Upgrading(path) ==
  [path |-> path, method |-> "GET", http11 |-> TRUE, upgrade |-> <<"websocket">>,
   connection |-> <<{"upgrade"}>>, version |-> <<"13">>, key |-> <<"valid">>,
   origin |-> <<"here">>]
Usual == Upgrading(WsAt(<<"a">>))
MCWsHeads ==
  {Upgrading(path) :
     path \in {WsAt(<<>>), WsAt(<<"">>), WsAt(<<"ws">>), WsAt(<<"a">>),
       WsAt(<<"a", "b">>), WsAt(<<"a", "">>), WsAt(<<"a", "..">>),
       WsAt(<<"b", "long">>), WsAt(<<"b", "a">>), WsAt(<<"a", "b", "c">>),
       WsAt(<<"{x}">>), [slash |-> FALSE, segs |-> <<"a">>]}}
  \cup {[Usual EXCEPT !.method = "POST"], [Usual EXCEPT !.http11 = FALSE],
        [Usual EXCEPT !.version = <<>>, !.key = <<>>]}
  \cup {[Usual EXCEPT !.upgrade = u] : u \in {<<>>, <<"h2c">>, <<"h2c", "websocket">>}}
  \cup {[Usual EXCEPT !.connection = c] :
          c \in {<<>>, <<{"close"}>>, <<{"close"}, {"keep-alive", "upgrade"}>>}}
  \cup {[Usual EXCEPT !.version = v] : v \in {<<>>, <<"8">>, <<"13", "8">>}}
  \cup {[Usual EXCEPT !.key = k] : k \in {<<>>, <<"short">>}}
  \cup {[Usual EXCEPT !.origin = o] :
          o \in {<<>>, <<"there">>, <<"here", "there">>, <<"there", "here">>, <<"long">>}}

VARIABLE part  \* which of the two runs

MCInit ==
  /\ part \in {"handshake", "session"}
  /\ Init /\ WsInit
  /\ part = "handshake" => pingOn = FALSE

MCNext ==
  /\ UNCHANGED part
  /\ \/ part = "session" /\ Next /\ UNCHANGED wsVars
     \/ part = "handshake" /\ WsNext /\ UNCHANGED vars

\* What rests has no fair action that could be taken.
MCSpec ==
  MCInit /\ [][MCNext]_<<vars, wsVars, part>> /\ Fairness /\ WsFairness
=============================================================================
