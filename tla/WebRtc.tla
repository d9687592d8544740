------------------------------- MODULE WebRtc -------------------------------
(***************************************************************************)
(* The WebRTC plugin with one of its peers followed to its data channels:  *)
(* the SignalingHandler that build_peer_connection gives to the peer of    *)
(* Followed has a DataChannelLimiter, and the library calls its            *)
(* on_data_channel while that peer is there.                               *)
(***************************************************************************)
EXTENDS WebRtcRegistry, DataChannels

CONSTANT Followed  \* the offer whose peer opens the channels

ASSUME FollowedAssumption == Followed \in Offers

PluginInit == Init /\ ChannelsInit

\* A channel comes only from a peer; what its callback started goes on when
\* the peer is gone.
Arrives(c) == peer[Followed] \in {"open", "closing"} /\ OnDataChannel(c)

\* Mutation of EchoEnds: the end of the events does not end the loop.
EchoEndsDeaf(c) == peer[Followed] # "closed" /\ DropPermit(c)

\* echo_loop ends, on OnClose or when no more events come, and the permit with
\* it.
EchoEnds(c) == DropPermit(c)

Goes(c) ==
  \/ Load(c) \/ Exchange(c) \/ ExchangeFails(c) \/ EchoEnds(c)
  \/ CloseRefused(c)

PluginNext ==
  \/ Next /\ UNCHANGED channelsVars
  \/ \E c \in Channels : (Arrives(c) \/ Goes(c)) /\ UNCHANGED vars

allVars == <<vars, channelsVars>>

\* Nothing makes a channel end while its peer is there. A weak exchange does
\* not fail forever for no reason; after the peer is closed its channels tell
\* their tasks so.
ChannelRuns(c) ==
  \/ Load(c) \/ Exchange(c) \/ CloseRefused(c)
  \/ peer[Followed] = "closed" /\ EchoEnds(c)

PluginFairness ==
  /\ Deadlines
  /\ \A c \in Channels : WF_allVars(ChannelRuns(c) /\ UNCHANGED vars)

PluginSpec == PluginInit /\ [][PluginNext]_allVars /\ PluginFairness

\* Once the peer is closed, every callback has come to an answer and every
\* echo task has given its permit back, although the callbacks race for the
\* counter, exchanges fail for no reason and the close comes at any moment.
ChannelsEndWithPeer ==
  []<>(peer[Followed] = "closed" =>
         \A c \in Channels : pc[c] \in {"new", "closed", "turned_away"})

\* The plugin comes to rest: offers are answered, slots come back, a shutdown
\* closes every peer, and the channels of a closed peer end (complete_signaling,
\* SignalingGuard, drain_for_shutdown, echo_loop).
PluginSettles == RegistryEmpties /\ OfferAnswered /\ ChannelsEndWithPeer
=============================================================================
