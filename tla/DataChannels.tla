----------------------------- MODULE DataChannels -----------------------------
(***************************************************************************)
(* The limit on the data channels of one peer connection                   *)
(* (plugin-webrtc/src/handler.rs): DataChannelLimiter, its permit, the     *)
(* callback on_data_channel and the echo task. Every channel is a callback *)
(* and then a task of its own; a step is one access to the atomic counter. *)
(* compare_exchange_weak may fail although the counter has the value it    *)
(* was given.                                                              *)
(***************************************************************************)
EXTENDS Integers, FiniteSets

CONSTANTS
  Channels,  \* data channels that the peer opens
  Max,       \* DataChannelLimiter::max, 0 for no limit
  UsizeMax   \* usize::MAX

ASSUME ChannelsAssumption ==
  /\ IsFiniteSet(Channels)
  /\ UsizeMax \in Nat /\ Max \in 0..UsizeMax

VARIABLES
  open,    \* DataChannelLimiter::open
  pc,      \* where each channel stands
  current, \* try_acquire's current
  full     \* history: the limit was reached at some time of the call

channelsVars == <<open, pc, current, full>>

ChannelsInit ==
  /\ open = 0
  /\ pc = [c \in Channels |-> "new"]
  /\ current = [c \in Channels |-> 0]
  /\ full = [c \in Channels |-> FALSE]

\* The channels that hold a DataChannelPermit.
Holders == {c \in Channels : pc[c] = "echo"}
Trying(c) == pc[c] \in {"load", "exchange"}

\* The value that stops try_acquire: the limit, or no room to count.
Stops(n) == (Max # 0 /\ n >= Max) \/ n = UsizeMax

\* full, when the counter becomes n.
Noted(n) == [c \in Channels |-> full[c] \/ (Trying(c) /\ Stops(n))]

\* The peer opens the channel: on_data_channel is called.
OnDataChannel(c) ==
  /\ pc[c] = "new"
  /\ pc' = [pc EXCEPT ![c] = "load"]
  /\ full' = [full EXCEPT ![c] = Stops(open)]
  /\ UNCHANGED <<open, current>>

\* The value that a try_acquire has at hand leads to the exchange or to None.
Judge(c, n) ==
  /\ current' = [current EXCEPT ![c] = n]
  /\ pc' = [pc EXCEPT ![c] = IF Stops(n) THEN "refused" ELSE "exchange"]

Load(c) ==
  /\ pc[c] = "load"
  /\ Judge(c, open)
  /\ UNCHANGED <<open, full>>

ExchangeStore(c) ==
  /\ pc[c] = "exchange"
  /\ open' = current[c] + 1
  /\ pc' = [pc EXCEPT ![c] = "echo"]
  /\ full' = Noted(open')
  /\ UNCHANGED current
Exchange(c) ==
  /\ pc[c] = "exchange"
  /\ open = current[c]
  /\ open' = current[c] + 1
  /\ pc' = [pc EXCEPT ![c] = "echo"]
  /\ full' = Noted(open')
  /\ UNCHANGED current

\* The exchange fails, for a reason or for none: the loop judges what it saw.
ExchangeFailsKeep(c) ==
  /\ pc[c] = "exchange"
  /\ current' = [current EXCEPT ![c] = open]
  /\ pc' = [pc EXCEPT ![c] = "refused"]
  /\ UNCHANGED <<open, full>>
ExchangeFails(c) ==
  /\ pc[c] = "exchange"
  /\ Judge(c, open)
  /\ UNCHANGED <<open, full>>

\* The echo task ends: on_close, the end of the events, a panic or an abort;
\* in all of them the permit is dropped.
DropPermitTwice(c) ==
  /\ pc[c] \in {"echo", "refused"}
  /\ open' = open - 1
  /\ pc' = [pc EXCEPT ![c] = "closed"]
  /\ full' = Noted(open')
  /\ UNCHANGED current
DropPermit(c) ==
  /\ pc[c] = "echo"
  /\ open' = open - 1
  /\ pc' = [pc EXCEPT ![c] = "closed"]
  /\ full' = Noted(open')
  /\ UNCHANGED current

\* The task of a refused channel closes it.
CloseRefused(c) ==
  /\ pc[c] = "refused"
  /\ pc' = [pc EXCEPT ![c] = "turned_away"]
  /\ UNCHANGED <<open, current, full>>

ChannelStep(c) ==
  \/ OnDataChannel(c) \/ Load(c) \/ Exchange(c) \/ ExchangeFails(c)
  \/ DropPermit(c) \/ CloseRefused(c)
ChannelsNext == \E c \in Channels : ChannelStep(c)

ChannelsSpec == ChannelsInit /\ [][ChannelsNext]_channelsVars

-----------------------------------------------------------------------------
\* The types of the variables: the counter is a usize, so no fetch_sub wraps
\* below zero and no addition above usize::MAX.
ChannelsTypeOK ==
  /\ open \in 0..UsizeMax
  /\ pc \in [Channels -> {"new", "load", "exchange", "echo", "refused",
                          "closed", "turned_away"}]
  /\ current \in [Channels -> 0..UsizeMax]
  /\ full \in [Channels -> BOOLEAN]

\* The counter is the number of channels whose echo task runs: no permit is
\* leaked or returned twice, whatever calls and ends of tasks interleave.
CountsHolders == open = Cardinality(Holders)

\* max_data_channels_per_connection is a bound on the channels of a
\* connection that echo at the same time, unless it is 0.
LimitHolds == Max # 0 => Cardinality(Holders) <= Max

\* A channel is refused only if, at some time between its callback and the
\* refusal, as many channels as the limit allows really held a permit.
RefusedForCause ==
  \A c \in Channels : pc[c] \in {"refused", "turned_away"} => full[c]

\* The limit of DataChannelLimiter is exact: the counter is the number of
\* permits, never more than the limit, and nobody is refused below it.
ChannelLimitExact ==
  ChannelsTypeOK /\ CountsHolders /\ LimitHolds /\ RefusedForCause
=============================================================================
