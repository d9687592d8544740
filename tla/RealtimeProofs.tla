--------------------------- MODULE RealtimeProofs ---------------------------
(***************************************************************************)
(* Theorems about the WebRTC plugin and the WebRTC proxy: the limiter of   *)
(* data channels, the registry of peers, the two composed, and the proxy's *)
(* answers, for any offers, channels, limits and upstream responses; and   *)
(* about the upgrade to a WebSocket (WsHandshake), for any paths, patterns *)
(* and requests.                                                           *)
(***************************************************************************)
EXTENDS WebRtc, WebRtcProxy, WsHandshake, SelectionProofs, FiniteSetTheorems

-----------------------------------------------------------------------------
(* The limiter of data channels.                                           *)

\* What try_acquire holds before an exchange is a value that left room.
ExchangeHasRoom == \A c \in Channels : pc[c] = "exchange" => ~Stops(current[c])

\* A try_acquire that runs while the limit is reached has it on record.
FullIsNoted == \A c \in Channels : Trying(c) /\ Stops(open) => full[c]

\* The counter is within the limit.
WithinMax == Max # 0 => open <= Max

ChannelsInv == /\ ChannelsTypeOK /\ ExchangeHasRoom /\ CountsHolders /\ WithinMax
        /\ FullIsNoted /\ RefusedForCause

\* The holders are finitely many: Cardinality means what it says.
LEMMA HoldersFinite ==
  IsFiniteSet(Holders) /\ Cardinality(Holders) \in Nat
  BY ChannelsAssumption, FS_Subset, FS_CardinalityType DEF Holders

\* The three ways in which a step of channel c can change the set of holders.
LEMMA HoldersKeep ==
  ASSUME ChannelsTypeOK, NEW c \in Channels, NEW s, s # "echo", pc[c] # "echo",
         pc' = [pc EXCEPT ![c] = s]
  PROVE  Holders' = Holders
  BY DEF Holders, ChannelsTypeOK

\* The second: the channel becomes a holder.
LEMMA HoldersGrow ==
  ASSUME ChannelsTypeOK, NEW c \in Channels, pc[c] # "echo",
         pc' = [pc EXCEPT ![c] = "echo"]
  PROVE  Cardinality(Holders') = Cardinality(Holders) + 1
<1>1. Holders' = Holders \cup {c} /\ c \notin Holders
  BY DEF Holders, ChannelsTypeOK
<1>2. QED  BY <1>1, HoldersFinite, FS_AddElement

\* The third: the channel is a holder no more.
LEMMA HoldersShrink ==
  ASSUME ChannelsTypeOK, NEW c \in Channels, NEW s, s # "echo", pc[c] = "echo",
         pc' = [pc EXCEPT ![c] = s]
  PROVE  Cardinality(Holders') = Cardinality(Holders) - 1 /\ Cardinality(Holders) > 0
<1>1. Holders' = Holders \ {c} /\ c \in Holders
  BY DEF Holders, ChannelsTypeOK
<1>2. Cardinality(Holders) # 0
  BY <1>1, HoldersFinite, FS_EmptySet
<1>3. QED  BY <1>1, <1>2, HoldersFinite, FS_RemoveElement

\* Without channels the invariant holds.
LEMMA ChannelsInitHolds == ChannelsInit => ChannelsInv
<1> SUFFICES ASSUME ChannelsInit PROVE ChannelsInv
  OBVIOUS
<1>1. Holders = {}
  BY DEF ChannelsInit, Holders
<1>2. ChannelsTypeOK /\ ExchangeHasRoom /\ WithinMax /\ FullIsNoted /\ RefusedForCause
  BY ChannelsAssumption
  DEF ChannelsInit, WithinMax, ChannelsTypeOK, ExchangeHasRoom, FullIsNoted,
         RefusedForCause, Trying
<1>3. CountsHolders
  BY <1>1, FS_EmptySet DEF ChannelsInit, CountsHolders
<1>4. QED  BY <1>2, <1>3 DEF ChannelsInv

\* Judging a value that the counter has keeps the invariant.
LEMMA JudgeHolds ==
  ASSUME ChannelsInv, NEW c \in Channels, pc[c] \in {"load", "exchange"},
         Judge(c, open), UNCHANGED <<open, full>>
  PROVE  ChannelsInv'
<1> DEFINE s == IF Stops(open) THEN "refused" ELSE "exchange"
<1> USE ChannelsAssumption
<1>1. pc' = [pc EXCEPT ![c] = s] /\ current' = [current EXCEPT ![c] = open]
  BY DEF Judge
<1>2. ChannelsTypeOK'
  BY <1>1 DEF ChannelsInv, ChannelsTypeOK
<1>3. Holders' = Holders
  <2>1. s # "echo" /\ pc[c] # "echo" /\ ChannelsTypeOK
    BY DEF ChannelsInv
  <2> HIDE DEF s
  <2>2. QED  BY <1>1, <2>1, HoldersKeep
<1>4. CountsHolders' /\ WithinMax'
  BY <1>3 DEF ChannelsInv, CountsHolders, WithinMax
<1>5. ExchangeHasRoom'
  BY <1>1 DEF ChannelsInv, ChannelsTypeOK, ExchangeHasRoom, Stops
<1>6. FullIsNoted'
  BY <1>1 DEF ChannelsInv, ChannelsTypeOK, FullIsNoted, Stops, Trying
<1>7. RefusedForCause'
  BY <1>1 DEF ChannelsInv, ChannelsTypeOK, RefusedForCause, FullIsNoted, Trying
<1>8. QED  BY <1>2, <1>4, <1>5, <1>6, <1>7 DEF ChannelsInv

\* Storing a new value and noting who sees the limit reached.
LEMMA StoreHolds ==
  ASSUME ChannelsInv, NEW c \in Channels, NEW s \in {"echo", "closed"},
         pc' = [pc EXCEPT ![c] = s], full' = Noted(open'), UNCHANGED current,
         open' \in 0..UsizeMax, CountsHolders', WithinMax'
  PROVE  ChannelsInv'
<1> USE ChannelsAssumption
<1>1. ChannelsTypeOK'
  BY DEF ChannelsInv, ChannelsTypeOK, Noted
<1>2. ExchangeHasRoom'
  BY DEF ChannelsInv, ChannelsTypeOK, ExchangeHasRoom, Stops
<1>3. \A d \in Channels : full'[d] = (full[d] \/ (Trying(d) /\ Stops(open')))
  BY DEF Noted
<1>4. \A d \in Channels : Trying(d)' => Trying(d)
  BY DEF ChannelsInv, ChannelsTypeOK, Trying
<1>5. FullIsNoted'
  BY <1>3, <1>4, Zenon DEF FullIsNoted, Stops
<1>6. RefusedForCause'
  BY <1>3 DEF ChannelsInv, ChannelsTypeOK, RefusedForCause
<1>7. QED  BY <1>1, <1>2, <1>5, <1>6 DEF ChannelsInv

\* Every access of every callback and task keeps the invariant.
LEMMA ChannelsStepHolds == ChannelsInv /\ [ChannelsNext]_channelsVars => ChannelsInv'
<1> SUFFICES ASSUME ChannelsInv, [ChannelsNext]_channelsVars PROVE ChannelsInv'
  OBVIOUS
<1> USE ChannelsAssumption
<1>1. CASE UNCHANGED channelsVars
  BY <1>1
     DEF channelsVars, ChannelsInv, ChannelsTypeOK, ExchangeHasRoom,
         CountsHolders, Holders,
     WithinMax, FullIsNoted, RefusedForCause, Trying, Stops
<1>2. ASSUME NEW c \in Channels, ChannelStep(c) PROVE ChannelsInv'
  <2>1. CASE OnDataChannel(c)
    <3>0. ChannelsTypeOK /\ pc[c] # "echo" /\ pc' = [pc EXCEPT ![c] = "load"]
      BY <2>1 DEF OnDataChannel, ChannelsInv
    <3>1. Holders' = Holders
      BY <3>0, HoldersKeep
    <3>2. CountsHolders' /\ ChannelsTypeOK' /\ ExchangeHasRoom' /\ WithinMax'
      BY <2>1, <3>1 DEF OnDataChannel, ChannelsInv, ChannelsTypeOK, CountsHolders,
         ExchangeHasRoom, Stops, WithinMax
    <3>3. FullIsNoted' /\ RefusedForCause'
      BY <2>1
         DEF OnDataChannel, ChannelsInv, ChannelsTypeOK, FullIsNoted,
             RefusedForCause,
         Trying, Stops
    <3>4. QED  BY <3>2, <3>3 DEF ChannelsInv
  <2>2. CASE Load(c)
    BY <2>2, JudgeHolds DEF Load
  <2>3. CASE Exchange(c)
    <3>1. open = current[c] /\ ~Stops(open) /\ open \in 0..UsizeMax
      BY <2>3 DEF Exchange, ChannelsInv, ChannelsTypeOK, ExchangeHasRoom
    <3>2. open' = open + 1 /\ open' \in 0..UsizeMax /\ WithinMax'
      BY <2>3, <3>1 DEF Exchange, Stops, WithinMax
    <3>3. Cardinality(Holders') = Cardinality(Holders) + 1
      <4>1. ChannelsTypeOK /\ pc[c] # "echo" /\ pc' = [pc EXCEPT ![c] = "echo"]
        BY <2>3 DEF Exchange, ChannelsInv
      <4>2. QED  BY <4>1, HoldersGrow
    <3>4. CountsHolders'
      BY <3>2, <3>3 DEF ChannelsInv, CountsHolders
    <3>5. QED  BY <2>3, <3>2, <3>4, StoreHolds DEF Exchange
  <2>4. CASE ExchangeFails(c)
    BY <2>4, JudgeHolds DEF ExchangeFails
  <2>5. CASE DropPermit(c)
    <3>1. /\ Cardinality(Holders') = Cardinality(Holders) - 1
          /\ Cardinality(Holders) \in Nat /\ Cardinality(Holders) > 0
      <4>1. ChannelsTypeOK /\ pc[c] = "echo" /\ pc' = [pc EXCEPT ![c] = "closed"]
        BY <2>5 DEF DropPermit, ChannelsInv
      <4>2. QED  BY <4>1, HoldersShrink, HoldersFinite
    <3>2. /\ open' = open - 1 /\ open' \in 0..UsizeMax
          /\ CountsHolders' /\ WithinMax'
      BY <2>5, <3>1
         DEF DropPermit, ChannelsInv, ChannelsTypeOK, CountsHolders, WithinMax
    <3>3. QED  BY <2>5, <3>2, StoreHolds DEF DropPermit
  <2>6. CASE CloseRefused(c)
    <3>0. ChannelsTypeOK /\ pc[c] # "echo" /\ pc' = [pc EXCEPT ![c] = "turned_away"]
      BY <2>6 DEF CloseRefused, ChannelsInv
    <3>1. Holders' = Holders
      BY <3>0, HoldersKeep
    <3>2. CountsHolders' /\ ChannelsTypeOK' /\ ExchangeHasRoom' /\ WithinMax'
      BY <2>6, <3>1 DEF CloseRefused, ChannelsInv, ChannelsTypeOK, CountsHolders,
         ExchangeHasRoom, Stops, WithinMax
    <3>3. FullIsNoted' /\ RefusedForCause'
      BY <2>6
         DEF CloseRefused, ChannelsInv, ChannelsTypeOK, FullIsNoted,
             RefusedForCause,
         Trying, Stops
    <3>4. QED  BY <3>2, <3>3 DEF ChannelsInv
  <2>7. QED  BY <1>2, <2>1, <2>2, <2>3, <2>4, <2>5, <2>6 DEF ChannelStep
<1>3. QED  BY <1>1, <1>2 DEF ChannelsNext

\* For any number of channels and any limit, the counter is the number of
\* permits held, and it stays a usize.
THEOREM PermitsCounted == ChannelsSpec => [](ChannelsTypeOK /\ CountsHolders)
<1>1. ChannelsInv => ChannelsTypeOK /\ CountsHolders
  BY DEF ChannelsInv
<1>2. QED  BY <1>1, ChannelsInitHolds, ChannelsStepHolds, PTL DEF ChannelsSpec

\* For any number of channels, no more than Max of them echo at a time.
THEOREM LimitIsKept == ChannelsSpec => []LimitHolds
<1>1. ChannelsInv => LimitHolds
  BY DEF ChannelsInv, CountsHolders, WithinMax, LimitHolds
<1>2. QED  BY <1>1, ChannelsInitHolds, ChannelsStepHolds, PTL DEF ChannelsSpec

\* A channel is turned away only if the limit was reached during its call.
THEOREM NoneRefusedForNothing == ChannelsSpec => []RefusedForCause
<1>1. ChannelsInv => RefusedForCause
  BY DEF ChannelsInv
<1>2. QED  BY <1>1, ChannelsInitHolds, ChannelsStepHolds, PTL DEF ChannelsSpec

\* The three together: the limit of a peer connection's data channels is exact.
THEOREM LimitIsExact == ChannelsSpec => []ChannelLimitExact
  BY PermitsCounted, LimitIsKept, NoneRefusedForNothing, PTL
     DEF ChannelLimitExact

-----------------------------------------------------------------------------
(* The registry of peers.                                                  *)

RegistryTypes ==
  /\ slot \in [Offers -> {"none", "reserved", "active"}]
  /\ handler \in [Offers -> HandlerStates]
  /\ armed \in [Offers -> BOOLEAN]
  /\ state \in [Offers -> {"empty", "building", "abandoned", "held"}]
  /\ build \in [Offers -> BuildStates]
  /\ result \in [Offers -> {"none", "ok", "error"}]
  /\ peer \in [Offers -> {"none", "open", "closing", "closed"}]
  /\ answer \in [Offers -> {"none", "ok", "error"}]
  /\ terminal \in BOOLEAN
  /\ drain \in {"idle", "take", "taken"}

WithinLimit == Cardinality(Slots) <= MaxPeerConnections

\* Guard, build task and registry agree on one offer. A running build has its
\* slot and no peer yet, and either its guard waits for it or was dropped.
Agree(o) ==
  /\ build[o] = "running" =>
       /\ slot[o] = "reserved" /\ peer[o] = "none" /\ result[o] = "none"
       /\ \/ state[o] = "building" /\ handler[o] = "await"
          \/ state[o] = "abandoned" /\ handler[o] = "done"
  /\ state[o] = "building" => build[o] = "running"
  /\ handler[o] \in {"idle", "parse"} =>
       build[o] = "none" /\ peer[o] = "none" /\ state[o] = "empty" /\ result[o] = "none"
  /\ handler[o] = "parse" => slot[o] = "reserved"
  /\ handler[o] \in {"parse", "await", "signal", "closing", "finish"} => armed[o]
  /\ peer[o] = "open" => Responsible(o)

\* The flag is set before the shutdown drain looks at the registry.
FlagFirst == drain # "idle" => terminal

RegistryInv ==
  /\ RegistryTypes /\ WithinLimit /\ FlagFirst /\ NoneActiveAfterDrain
  /\ \A o \in Offers : Agree(o)

\* The slots taken are finitely many.
LEMMA SlotsFinite == IsFiniteSet(Slots) /\ Cardinality(Slots) \in Nat
  BY RegistryAssumption, FS_Subset, FS_CardinalityType DEF Slots

\* A step that only takes slots away stays within the limit.
LEMMA FewerSlots ==
  ASSUME WithinLimit, Slots' \subseteq Slots
  PROVE  WithinLimit'
<1>1. Cardinality(Slots') <= Cardinality(Slots) /\ Cardinality(Slots') \in Nat
  BY SlotsFinite, FS_Subset, FS_CardinalityType
<1>2. QED  BY <1>1, SlotsFinite, RegistryAssumption DEF WithinLimit

\* An empty registry satisfies the invariant.
LEMMA RegistryInitHolds == Init => RegistryInv
<1> SUFFICES ASSUME Init PROVE RegistryInv
  OBVIOUS
<1>1. RegistryTypes /\ FlagFirst /\ NoneActiveAfterDrain
  BY
     DEF Init, RegistryTypes, FlagFirst, NoneActiveAfterDrain, HandlerStates,
         BuildStates
<1>2. \A o \in Offers : Agree(o)
  BY DEF Init, Agree
<1>3. Slots = {}
  BY DEF Init, Slots
<1>4. WithinLimit
  BY <1>3, FS_EmptySet, RegistryAssumption DEF WithinLimit
<1>5. QED  BY <1>1, <1>2, <1>4 DEF RegistryInv

\* The offer is refused at the limit; below it the slot it takes fits.
LEMMA OfferHolds ==
  ASSUME RegistryInv, NEW o \in Offers, Offer(o)
  PROVE  RegistryInv'
<1> USE DEF RegistryInv
<1> DEFINE Full == Cardinality(Slots) >= MaxPeerConnections
<1>1. RegistryTypes'
  <2>1. CASE Full
    BY <2>1 DEF RegistryTypes, Offer, HandlerStates, buildVars, drainVars
  <2>2. CASE ~Full
    <3>1. /\ slot' = [slot EXCEPT ![o] = "reserved"]
          /\ handler' = [handler EXCEPT ![o] = "parse"]
          /\ armed' = [armed EXCEPT ![o] = TRUE]
          /\ UNCHANGED <<answer, state, build, result, peer, terminal, drain>>
      BY <2>2 DEF Offer, buildVars, drainVars
    <3>2. QED  BY <3>1 DEF RegistryTypes, HandlerStates
  <2>3. QED  BY <2>1, <2>2
<1>2. FlagFirst' /\ NoneActiveAfterDrain'
  <2>1. UNCHANGED <<terminal, drain>> /\ \A p \in Offers : slot'[p] = "active" => slot[p] = "active"
    BY DEF RegistryTypes, Offer, drainVars
  <2>2. QED  BY <2>1 DEF FlagFirst, NoneActiveAfterDrain, Active
<1>3. ASSUME NEW p \in Offers PROVE Agree(p)'
  BY DEF RegistryTypes, Offer, Agree, Responsible, buildVars
<1>4. WithinLimit'
  <2>1. CASE Full
    <3>1. slot' = slot  BY <2>1 DEF Offer
    <3>2. Slots' = Slots  BY <3>1 DEF Slots
    <3>3. QED  BY <3>2 DEF WithinLimit
  <2>2. CASE ~Full
    <3>1. slot' = [slot EXCEPT ![o] = "reserved"]  BY <2>2 DEF Offer
    <3>2. Slots' = Slots \cup {o}  BY <3>1 DEF Slots, RegistryTypes
    <3>3. IsFiniteSet(Slots \cup {o}) /\ Cardinality(Slots \cup {o}) \in Nat
      BY SlotsFinite, FS_AddElement, FS_CardinalityType
    <3>4. Cardinality(Slots \cup {o}) =
            IF o \in Slots THEN Cardinality(Slots) ELSE Cardinality(Slots) + 1
      BY SlotsFinite, FS_AddElement
    <3>5. Cardinality(Slots \cup {o}) <= MaxPeerConnections
      BY <2>2, <3>3, <3>4, SlotsFinite, RegistryAssumption
    <3>6. QED  BY <3>2, <3>5 DEF WithinLimit
  <2>3. QED  BY <2>1, <2>2
<1>5. QED  BY <1>1, <1>2, <1>3, <1>4

\* What the actions that keep or give up slots have in common.
RegistryKept ==
  /\ RegistryTypes' /\ FlagFirst' /\ NoneActiveAfterDrain'
  /\ \A p \in Offers : Agree(p)'
  /\ Slots' \subseteq Slots

\* That is enough to keep the invariant.
LEMMA RegistryKeptHolds == ASSUME RegistryInv, RegistryKept PROVE RegistryInv'
  BY FewerSlots DEF RegistryInv, RegistryKept

\* The steps of the task that answers an offer have it.
LEMMA SignalingHolds ==
  ASSUME RegistryInv, NEW o \in Offers, Signaling(o)
  PROVE  RegistryKept
<1> USE DEF RegistryInv, RegistryKept, RegistryTypes, FlagFirst, NoneActiveAfterDrain, Active, Slots,
            Agree, Responsible, HandlerStates, BuildStates, offerVars, buildVars,
            drainVars
<1>1. CASE BadOffer(o)        BY <1>1 DEF BadOffer
<1>2. CASE StartBuild(o)      BY <1>2 DEF StartBuild
<1>3. CASE Built(o)           BY <1>3 DEF Built
<1>4. CASE SignalingFails(o)  BY <1>4 DEF SignalingFails
<1>5. CASE FinishClose(o)     BY <1>5 DEF FinishClose, Closing
<1>6. CASE Finish(o)
  <2> USE <1>6 DEF Finish, ReleaseSlot, Closing
  <2>1. RegistryTypes' /\ FlagFirst' /\ NoneActiveAfterDrain' /\ Slots' \subseteq Slots
    OBVIOUS
  <2>2. Agree(o)'
    OBVIOUS
  <2>3. ASSUME NEW p \in Offers, p # o PROVE Agree(p)'
    BY <2>3
  <2> HIDE DEF RegistryKept, RegistryTypes, FlagFirst, NoneActiveAfterDrain, Agree, Slots
  <2> QED  BY ONLY <2>1, <2>2, <2>3 DEF RegistryKept
<1>7. CASE TakePeer(o)        BY <1>7 DEF TakePeer
<1>8. CASE Activate(o)
  <2>1. CASE ~terminal /\ slot[o] # "none"
    BY <1>8, <2>1 DEF Activate, ActivateSlot
  <2>2. CASE ~(~terminal /\ slot[o] # "none")
    BY <1>8, <2>2 DEF Activate, ActivateSlot, Closing
  <2>3. QED  BY <2>1, <2>2
<1>9. CASE DropRelease(o)     BY <1>9 DEF DropRelease, Closing
<1> QED  BY <1>1, <1>2, <1>3, <1>4, <1>5, <1>6, <1>7, <1>8, <1>9 DEF Signaling

\* The deadline and the abort: a running build inherits slot and peer.
LEMMA DropGuardHolds ==
  ASSUME RegistryInv, NEW o \in Offers, DropGuard(o)
  PROVE  RegistryKept
  BY
     DEF DropGuard, AtAwait, RegistryInv, RegistryKept, RegistryTypes, FlagFirst,
         NoneActiveAfterDrain,
         Active, Slots, Agree, Responsible, HandlerStates, BuildStates, drainVars

\* The steps of the build that was spawned have it.
LEMMA BuildHolds ==
  ASSUME RegistryInv, NEW o \in Offers, Build(o)
  PROVE  RegistryKept
<1> USE DEF RegistryInv, RegistryKept, RegistryTypes, FlagFirst, NoneActiveAfterDrain, Active, Slots,
            Agree, Responsible, HandlerStates, BuildStates, offerVars, buildVars,
            drainVars
<1>1. CASE BuildOk(o)         BY <1>1 DEF BuildOk
<1>2. CASE BuildSend(o)       BY <1>2 DEF BuildSend
<1>3. CASE AbandonClose(o)
  <2> USE <1>3 DEF AbandonClose, Closing
  <2>1. RegistryTypes' /\ FlagFirst' /\ NoneActiveAfterDrain' /\ Slots' \subseteq Slots
    OBVIOUS
  <2>2. Agree(o)'
    OBVIOUS
  <2>3. ASSUME NEW p \in Offers, p # o PROVE Agree(p)'
    BY <2>3
  <2> HIDE DEF RegistryKept, RegistryTypes, FlagFirst, NoneActiveAfterDrain, Agree, Slots
  <2> QED  BY ONLY <2>1, <2>2, <2>3 DEF RegistryKept
<1>4. CASE AbandonRelease(o)
  <2> USE <1>4 DEF AbandonRelease, ReleaseSlot, Closing
  <2>1. RegistryTypes' /\ FlagFirst' /\ NoneActiveAfterDrain' /\ Slots' \subseteq Slots
    OBVIOUS
  <2>2. Agree(o)'
    OBVIOUS
  <2>3. ASSUME NEW p \in Offers, p # o PROVE Agree(p)'
    BY <2>3
  <2> HIDE DEF RegistryKept, RegistryTypes, FlagFirst, NoneActiveAfterDrain, Agree, Slots
  <2> QED  BY ONLY <2>1, <2>2, <2>3 DEF RegistryKept
<1>5. CASE BuildFails(o)      BY <1>5 DEF BuildFails
<1>6. CASE FailRelease(o)
  <2> USE <1>6 DEF FailRelease, ReleaseSlot, Closing
  <2>1. RegistryTypes' /\ FlagFirst' /\ NoneActiveAfterDrain' /\ Slots' \subseteq Slots
    OBVIOUS
  <2>2. Agree(o)'
    OBVIOUS
  <2>3. ASSUME NEW p \in Offers, p # o PROVE Agree(p)'
    BY <2>3
  <2> HIDE DEF RegistryKept, RegistryTypes, FlagFirst, NoneActiveAfterDrain, Agree, Slots
  <2> QED  BY ONLY <2>1, <2>2, <2>3 DEF RegistryKept
<1>7. CASE FailSend(o)
  <2> USE <1>7 DEF FailSend
  <2>1. RegistryTypes' /\ FlagFirst' /\ NoneActiveAfterDrain' /\ Slots' \subseteq Slots
    OBVIOUS
  <2>2. Agree(o)'
    OBVIOUS
  <2>3. ASSUME NEW p \in Offers, p # o PROVE Agree(p)'
    BY <2>3
  <2> HIDE DEF RegistryKept, RegistryTypes, FlagFirst, NoneActiveAfterDrain, Agree, Slots
  <2> QED  BY ONLY <2>1, <2>2, <2>3 DEF RegistryKept
<1> QED  BY <1>1, <1>2, <1>3, <1>4, <1>5, <1>6, <1>7 DEF Build

\* The steps a peer connection brings about have it.
LEMMA PeerHolds ==
  ASSUME RegistryInv, NEW o \in Offers, Peer(o)
  PROVE  RegistryKept
<1> USE DEF RegistryInv, RegistryKept, RegistryTypes, FlagFirst, NoneActiveAfterDrain, Active, Slots,
            Agree, Responsible, offerVars, buildVars, drainVars
<1>1. CASE PeerFailed(o)
  <2> USE <1>1 DEF PeerFailed, ReleaseSlot, Closing
  <2>1. RegistryTypes' /\ FlagFirst' /\ NoneActiveAfterDrain' /\ Slots' \subseteq Slots
    OBVIOUS
  <2>2. Agree(o)'
    OBVIOUS
  <2>3. ASSUME NEW p \in Offers, p # o PROVE Agree(p)'
    BY <2>3
  <2> HIDE DEF RegistryKept, RegistryTypes, FlagFirst, NoneActiveAfterDrain, Agree, Slots
  <2> QED  BY ONLY <2>1, <2>2, <2>3 DEF RegistryKept
<1>2. CASE CloseCompletes(o)  BY <1>2 DEF CloseCompletes
<1>3. CASE PeerClosed(o)
  <2> USE <1>3 DEF PeerClosed, ReleaseSlot, Closing
  <2>1. RegistryTypes' /\ FlagFirst' /\ NoneActiveAfterDrain' /\ Slots' \subseteq Slots
    OBVIOUS
  <2>2. Agree(o)'
    OBVIOUS
  <2>3. ASSUME NEW p \in Offers, p # o PROVE Agree(p)'
    BY <2>3
  <2> HIDE DEF RegistryKept, RegistryTypes, FlagFirst, NoneActiveAfterDrain, Agree, Slots
  <2> QED  BY ONLY <2>1, <2>2, <2>3 DEF RegistryKept
<1> QED  BY <1>1, <1>2, <1>3 DEF Peer

\* A drain takes exactly the active peers, and closes each of them.
LEMMA DrainsHold ==
  ASSUME RegistryInv, CloseActivePeers \/ BeginTerminalDrain \/ DrainTake
  PROVE  RegistryKept
<1> USE DEF RegistryInv, RegistryKept, RegistryTypes, FlagFirst, NoneActiveAfterDrain, Active, Slots,
            Agree, Responsible, offerVars, buildVars, drainVars, TakeActivePeers, Closing
<1>1. CASE CloseActivePeers    BY <1>1 DEF CloseActivePeers
<1>2. CASE BeginTerminalDrain  BY <1>2 DEF BeginTerminalDrain
<1>3. CASE DrainTake           BY <1>3 DEF DrainTake
<1> QED  BY <1>1, <1>2, <1>3

\* Every step of the registry keeps the invariant.
LEMMA RegistryStepHolds == RegistryInv /\ [Next]_vars => RegistryInv'
<1> SUFFICES ASSUME RegistryInv, [Next]_vars PROVE RegistryInv'
  OBVIOUS
<1>1. CASE \E o \in Offers : Offer(o)
  BY <1>1, OfferHolds
<1>2. CASE \E o \in Offers : Signaling(o) \/ DropGuard(o) \/ Build(o) \/ Peer(o)
  BY <1>2, SignalingHolds, DropGuardHolds, BuildHolds, PeerHolds,
     RegistryKeptHolds
<1>3. CASE CloseActivePeers \/ BeginTerminalDrain \/ DrainTake
  BY <1>3, DrainsHold, RegistryKeptHolds
<1>4. CASE UNCHANGED vars
  BY <1>4
     DEF RegistryInv, RegistryTypes, WithinLimit, FlagFirst,
         NoneActiveAfterDrain, Active,
              Slots, Agree, Responsible, vars, offerVars, buildVars, drainVars
<1>5. QED  BY <1>1, <1>2, <1>3, <1>4 DEF Next

\* For any number of offers and any limit, whatever is interrupted and whenever
\* a drain comes: every open peer has an owner that will close it, every
\* running build its slot, no more slots are taken than max_peer_connections,
\* and after the shutdown drain no peer is registered (SignalingGuard,
\* run_build, activate_slot, drain_for_shutdown).
THEOREM RegistryIsSound == Spec => []RegistrySound
<1>1. RegistryInv => RegistrySound
  BY
     DEF RegistryInv, RegistrySound, TypeOK, RegistryTypes, WithinLimit,
         NoOrphanPeer,
         BuildsHoldSlots, Agree
<1> QED  BY <1>1, RegistryInitHolds, RegistryStepHolds, PTL DEF Spec

-----------------------------------------------------------------------------
(* The plugin: the registry with the channels of one peer.                 *)

\* A callback or an echo task takes only the steps of its channel's limiter.
LEMMA GoesInChannels ==
  ASSUME NEW c \in Channels, Arrives(c) \/ Goes(c)
  PROVE  ChannelsNext
  BY DEF Arrives, Goes, EchoEnds, ChannelStep, ChannelsNext

\* The registry and the limiter of a peer it owns keep what each promises when
\* they run together: the callbacks of on_data_channel race each other, offers,
\* drains and the end of their own peer, and neither a slot, a peer nor a
\* permit is lost.
THEOREM PluginIsSound == PluginSpec => [](RegistrySound /\ ChannelLimitExact)
<1>1. PluginInit => RegistryInv /\ ChannelsInv
  BY RegistryInitHolds, ChannelsInitHolds DEF PluginInit
<1>2. RegistryInv /\ ChannelsInv /\ [PluginNext]_allVars => RegistryInv' /\ ChannelsInv'
  <2> SUFFICES ASSUME RegistryInv, ChannelsInv, [PluginNext]_allVars
               PROVE  RegistryInv' /\ ChannelsInv'
    OBVIOUS
  <2>1. CASE Next /\ UNCHANGED channelsVars
    BY <2>1, RegistryStepHolds, ChannelsStepHolds
  <2>2. CASE \E c \in Channels : (Arrives(c) \/ Goes(c)) /\ UNCHANGED vars
    BY <2>2, GoesInChannels, RegistryStepHolds, ChannelsStepHolds
  <2>3. CASE UNCHANGED allVars
    BY <2>3, RegistryStepHolds, ChannelsStepHolds DEF allVars
  <2> QED  BY <2>1, <2>2, <2>3 DEF PluginNext
<1>3. RegistryInv => RegistrySound
  BY
     DEF RegistryInv, RegistrySound, TypeOK, RegistryTypes, WithinLimit,
         NoOrphanPeer,
         BuildsHoldSlots, Agree
<1>4. ChannelsInv => ChannelLimitExact
  BY DEF ChannelsInv, ChannelLimitExact, CountsHolders, WithinMax, LimitHolds
<1> QED  BY <1>1, <1>2, <1>3, <1>4, PTL DEF PluginSpec

-----------------------------------------------------------------------------
(* The proxy.                                                              *)

Lengths(up) == {i \in DOMAIN up.fields : up.fields[i][1] = "content-length"}

PxTypes ==
  /\ pxPc \in {"idle", "connecting", "writing", "head", "body", "done"}
  /\ pxUpstream \in Upstreams
  /\ pxRead \in Nat /\ pxLength \in Int /\ pxFault \in BOOLEAN

\* The offer went to the upstream because nothing was wrong with it.
OfferSound ==
  pxPc \notin {"idle", "done"} =>
    /\ pxOffer.offer /\ pxOffer.declared = pxOffer.len /\ ~(pxOffer.len > MaxOffer)

\* The bytes read are bytes the upstream sent, at most one read past the limit
\* of a head; in the body the head was whole and its length accepted.
ReadSound ==
  /\ pxPc \notin {"done"} => pxRead <= pxUpstream.head + pxUpstream.body
  /\ pxPc \in {"idle", "connecting", "writing"} => pxRead = 0
  /\ pxPc = "head" => pxRead < HeadLimit + ReadChunk
  /\ pxPc = "body" =>
       /\ pxRead >= pxUpstream.head
       /\ pxUpstream.head < HeadLimit + ReadChunk
       /\ pxLength = ParsedLength(pxUpstream)
       /\ pxLength \in 0..MaxAnswer
       /\ pxUpstream.status \in 200..299

ProxyInv == PxTypes /\ OfferSound /\ ReadSound /\ ProxyFaithful

\* An upstream's record has the fields that the assumption gives it.
LEMMA UpstreamType ==
  ASSUME NEW up \in Upstreams
  PROVE  /\ up.head \in Nat /\ up.body \in Nat /\ up.status \in Int
         /\ up.fields \in Seq(STRING \X Int)
         /\ DOMAIN up.fields = 1..Len(up.fields) /\ Len(up.fields) \in Nat
         /\ \A i \in DOMAIN up.fields : up.fields[i][2] \in Int
         /\ IsFiniteSet(Lengths(up))
<1>1. /\ up.head \in Nat /\ up.body \in Nat /\ up.status \in Int
      /\ up.fields \in Seq(STRING \X Int)
  BY ProxyAssumption
<1>2. DOMAIN up.fields = 1..Len(up.fields) /\ Len(up.fields) \in Nat
  BY <1>1
<1>3. \A i \in DOMAIN up.fields : up.fields[i] \in STRING \X Int
  BY <1>1, <1>2
<1>4. IsFiniteSet(1..Len(up.fields))
  BY <1>2, FS_Interval
<1>5. IsFiniteSet(Lengths(up))
  BY <1>2, <1>4, FS_Subset DEF Lengths
<1>6. QED  BY <1>1, <1>2, <1>3, <1>5

\* parse_response_head accepts a head exactly if it is sound, and then its
\* result is the value of the one content-length.
LEMMA ParsedLengthExact ==
  ASSUME NEW up \in Upstreams
  PROVE  /\ ParsedLength(up) \in Int
         /\ ParsedLength(up) >= 0 =>
              /\ up.utf8 /\ up.http1 /\ up.status >= 0
              /\ \A i \in DOMAIN up.fields : up.fields[i][1] # "no colon"
              /\ \E i \in DOMAIN up.fields :
                   /\ \A j \in DOMAIN up.fields : up.fields[j][1] = "content-length" <=> j = i
                   /\ up.fields[i][2] = ParsedLength(up)
         /\ \A i \in DOMAIN up.fields :
              /\ up.utf8 /\ up.http1 /\ up.status >= 0
              /\ \A j \in DOMAIN up.fields : up.fields[j][1] # "no colon"
              /\ \A j \in DOMAIN up.fields : up.fields[j][1] = "content-length" <=> j = i
              => ParsedLength(up) = up.fields[i][2]
<1> DEFINE L == Lengths(up)
<1>1. Cardinality(L) = 1 <=> \E x : L = {x}
  BY UpstreamType, FS_Singleton
<1>2. ParsedLength(up) =
        IF ~up.utf8 \/ ~up.http1 \/ up.status < 0 \/ Cardinality(L) # 1
           \/ \E i \in DOMAIN up.fields : up.fields[i][1] = "no colon"
        THEN -1 ELSE up.fields[CHOOSE i \in L : TRUE][2]
  BY DEF ParsedLength, Lengths
<1>3. ASSUME NEW i, L = {i}
      PROVE  /\ (CHOOSE k \in L : TRUE) = i /\ i \in DOMAIN up.fields
             /\ \A j \in DOMAIN up.fields : up.fields[j][1] = "content-length" <=> j = i
  BY <1>3 DEF Lengths
<1>4. ASSUME NEW i \in DOMAIN up.fields,
             \A j \in DOMAIN up.fields : up.fields[j][1] = "content-length" <=> j = i
      PROVE  L = {i}
  BY <1>4 DEF Lengths
<1> HIDE DEF L
<1>5. CASE \E x : L = {x}
  <2>1. PICK i : L = {i}  BY <1>5
  <2>2. /\ (CHOOSE k \in L : TRUE) = i /\ i \in DOMAIN up.fields
        /\ \A j \in DOMAIN up.fields : up.fields[j][1] = "content-length" <=> j = i
    BY <2>1, <1>3
  <2>3. ParsedLength(up) =
          IF ~up.utf8 \/ ~up.http1 \/ up.status < 0
             \/ \E k \in DOMAIN up.fields : up.fields[k][1] = "no colon"
          THEN -1 ELSE up.fields[i][2]
    BY <1>1, <1>2, <2>1, <2>2
  <2>4. up.fields[i][2] \in Int  BY <2>2, UpstreamType
  <2>5. ASSUME NEW k \in DOMAIN up.fields,
               \A j \in DOMAIN up.fields : up.fields[j][1] = "content-length" <=> j = k
        PROVE  k = i
    BY <2>2, <2>5
  <2>6. CASE ~up.utf8 \/ ~up.http1 \/ up.status < 0
             \/ \E k \in DOMAIN up.fields : up.fields[k][1] = "no colon"
    <3>1. ParsedLength(up) = -1  BY <2>3, <2>6
    <3>2. ParsedLength(up) \in Int /\ ~(ParsedLength(up) >= 0)  BY <3>1
    <3>3. up.status < 0 => ~(up.status >= 0)  BY UpstreamType
    <3>4. ~(/\ up.utf8 /\ up.http1 /\ up.status >= 0
            /\ \A j \in DOMAIN up.fields : up.fields[j][1] # "no colon")
      BY <2>6, <3>3
    <3>5. QED  BY <3>2, <3>4
  <2>7. CASE ~(~up.utf8 \/ ~up.http1 \/ up.status < 0
               \/ \E k \in DOMAIN up.fields : up.fields[k][1] = "no colon")
    <3>1. ParsedLength(up) = up.fields[i][2]  BY <2>3, <2>7
    <3>2. ~(up.status < 0)  BY <2>7
    <3>3. up.status >= 0  BY <3>2, UpstreamType
    <3>4. QED  BY <2>2, <2>4, <2>5, <2>7, <3>1, <3>3
  <2>8. QED  BY <2>6, <2>7
<1>6. CASE ~\E x : L = {x}
  <2>1. ParsedLength(up) = -1  BY <1>1, <1>2, <1>6
  <2>2. ~\E i \in DOMAIN up.fields :
          \A j \in DOMAIN up.fields : up.fields[j][1] = "content-length" <=> j = i
    BY <1>4, <1>6
  <2>3. ParsedLength(up) \in Int /\ ~(ParsedLength(up) >= 0)  BY <2>1
  <2>4. QED  BY <2>2, <2>3
<1>7. QED  BY <1>5, <1>6

\* What is passed on, in terms of what parse_response_head returns.
LEMMA GoodExactly ==
  ASSUME pxUpstream \in Upstreams
  PROVE  GoodUpstream <=> /\ ParsedLength(pxUpstream) \in 0..MaxAnswer
                          /\ pxUpstream.status \in 200..299
                          /\ pxUpstream.body >= ParsedLength(pxUpstream)
<1> DEFINE up == pxUpstream
<1>1. up.status \in Int /\ ParsedLength(up) \in Int /\ MaxAnswer \in Nat
  BY ParsedLengthExact, UpstreamType, ProxyAssumption
<1>2. ASSUME GoodUpstream
      PROVE  /\ ParsedLength(up) \in 0..MaxAnswer /\ up.status \in 200..299
             /\ up.body >= ParsedLength(up)
  <2>1. PICK i \in DOMAIN up.fields :
          /\ \A j \in DOMAIN up.fields : up.fields[j][1] = "content-length" <=> j = i
          /\ up.fields[i][2] \in 0..MaxAnswer /\ up.body >= up.fields[i][2]
    BY <1>2 DEF GoodUpstream
  <2>2. up.status \in 200..299  BY <1>2 DEF GoodUpstream
  <2>3. up.status >= 0  BY <1>1, <2>2
  <2>4. ParsedLength(up) = up.fields[i][2]
    BY <1>2, <2>1, <2>3, ParsedLengthExact DEF GoodUpstream
  <2>5. QED  BY <2>1, <2>2, <2>4
<1>3. ASSUME /\ ParsedLength(up) \in 0..MaxAnswer /\ up.status \in 200..299
             /\ up.body >= ParsedLength(up)
      PROVE  GoodUpstream
  <2>1. ParsedLength(up) >= 0  BY <1>1, <1>3
  <2>2. /\ up.utf8 /\ up.http1
        /\ \A i \in DOMAIN up.fields : up.fields[i][1] # "no colon"
        /\ \E i \in DOMAIN up.fields :
             /\ \A j \in DOMAIN up.fields : up.fields[j][1] = "content-length" <=> j = i
             /\ up.fields[i][2] = ParsedLength(up)
    BY <2>1, ParsedLengthExact
  <2>3. QED  BY <1>3, <2>2 DEF GoodUpstream
<1>4. QED  BY <1>2, <1>3

\* Whether the upstream behaves depends on the upstream alone.
LEMMA GoodKept == ASSUME UNCHANGED pxUpstream PROVE GoodUpstream' <=> GoodUpstream
  BY DEF GoodUpstream

\* Before an offer is posted the invariant holds.
LEMMA ProxyInitHolds == ProxyInit => ProxyInv
<1> SUFFICES ASSUME ProxyInit PROVE ProxyInv
  OBVIOUS
<1>1. /\ pxUpstream \in Upstreams /\ pxUpstream.head \in Nat /\ pxUpstream.body \in Nat
      /\ pxPc = "idle" /\ pxRead = 0 /\ pxLength = 0 /\ pxFault = FALSE
  BY UpstreamType DEF ProxyInit
<1>2. PxTypes
  <2>1. pxFault \in BOOLEAN  BY <1>1, Zenon
  <2>2. pxRead \in Nat /\ pxLength \in Int  BY <1>1
  <2>3. QED  BY <1>1, <2>1, <2>2, Zenon DEF PxTypes
<1>3. OfferSound /\ ProxyFaithful
  BY <1>1 DEF OfferSound, ProxyFaithful
<1>4. ReadSound
  BY <1>1 DEF ReadSound
<1>5. QED  BY <1>2, <1>3, <1>4 DEF ProxyInv

\* Posting an offer: refused, or on its way unchanged.
LEMMA PostHolds ==
  ASSUME ProxyInv, NEW o \in ProxyOffers, PostOffer(o)
  PROVE  ProxyInv'
<1> USE DEF ProxyInv, PostOffer
<1>1. o.offer \in BOOLEAN /\ o.declared \in Int /\ o.len \in Nat
  BY ProxyAssumption
<1>2. /\ pxPc = "idle" /\ pxOffer' = o
      /\ UNCHANGED <<pxUpstream, pxClock, pxRead, pxLength, pxBody, pxFault>>
  OBVIOUS
<1>3. \/ ~o.offer /\ pxStatus' = -1 /\ pxPc' = "done"
      \/ o.offer /\ o.declared # o.len /\ pxStatus' = 400 /\ pxPc' = "done"
      \/ o.offer /\ o.declared = o.len /\ o.len > MaxOffer /\ pxStatus' = 413 /\ pxPc' = "done"
      \/ o.offer /\ o.declared = o.len /\ ~(o.len > MaxOffer) /\ pxPc' = "connecting"
  <2>1. CASE ~o.offer  BY <2>1
  <2>2. CASE o.offer /\ o.declared # o.len  BY <2>2
  <2>3. CASE o.offer /\ o.declared = o.len /\ o.len > MaxOffer  BY <2>3
  <2>4. CASE o.offer /\ o.declared = o.len /\ ~(o.len > MaxOffer)  BY <2>4
  <2>5. QED  BY <1>1, <2>1, <2>2, <2>3, <2>4
<1> HIDE DEF PostOffer
<1>4. PxTypes' /\ OfferSound' /\ ReadSound'
  BY <1>2, <1>3 DEF PxTypes, OfferSound, ReadSound
<1>5. ProxyFaithful'
  BY <1>1, <1>2, <1>3 DEF ProxyFaithful
<1>6. QED  BY <1>4, <1>5

\* An exchange that ends with 502 or 504 keeps the invariant if 502 has a cause.
LEMMA FailureHolds ==
  ASSUME ProxyInv, pxPc \notin {"idle", "done"}, NEW s \in {502, 504}, Done(s, 0),
         pxFault' \in BOOLEAN,
         s = 502 => pxFault' \/ ~GoodUpstream \/ pxUpstream.head > HeadLimit
  PROVE  ProxyInv'
<1>1. PxTypes' /\ OfferSound' /\ ReadSound'
  BY DEF ProxyInv, Done, PxTypes, OfferSound, ReadSound
<1>2. GoodUpstream' <=> GoodUpstream
  BY GoodKept DEF Done
<1>3. ProxyFaithful'
  BY <1>2 DEF ProxyInv, Done, OfferSound, ProxyFaithful
<1>4. QED  BY <1>1, <1>3 DEF ProxyInv

\* Parsing the head of the answer.
LEMMA ParseHolds == ASSUME ProxyInv, ParseHead PROVE ProxyInv'
<1> DEFINE n == ParsedLength(pxUpstream)
<1>1. pxUpstream \in Upstreams /\ n \in Int /\ pxUpstream.head \in Nat
      /\ pxUpstream.status \in Int
  BY ParsedLengthExact, UpstreamType DEF ProxyInv, PxTypes
<1>2. CASE n < 0 \/ pxUpstream.status \notin 200..299 \/ n > MaxAnswer
  <2>1. Done(502, 0) /\ pxFault' = pxFault  BY <1>2 DEF ParseHead
  <2>2. ~GoodUpstream  BY <1>1, <1>2, GoodExactly, ProxyAssumption
  <2>3. QED  BY <2>1, <2>2, FailureHolds DEF ProxyInv, PxTypes, ParseHead
<1>3. CASE ~(n < 0 \/ pxUpstream.status \notin 200..299 \/ n > MaxAnswer)
  <2>1. /\ pxPc = "head" /\ pxRead >= pxUpstream.head
        /\ pxPc' = "body" /\ pxLength' = n
        /\ UNCHANGED <<pxOffer, pxUpstream, pxClock, pxRead, pxStatus, pxBody, pxFault>>
    BY <1>3 DEF ParseHead, HeadComplete
  <2>2. PxTypes' /\ OfferSound' /\ ProxyFaithful'
    <3>1. PxTypes'
      BY <1>1, <2>1 DEF ProxyInv, PxTypes
    <3>2. OfferSound'
      BY <2>1 DEF ProxyInv, OfferSound
    <3>3. ProxyFaithful'
      BY ONLY <2>1 DEF ProxyFaithful
    <3> QED
      BY ONLY <3>1, <3>2, <3>3
  <2>3. ParsedLength(pxUpstream)' = n  BY <2>1
  <2>4. ReadSound'
    BY <1>1, <1>3, <2>1, <2>3, ProxyAssumption DEF ProxyInv, PxTypes, ReadSound
  <2>5. QED  BY <2>2, <2>4 DEF ProxyInv
<1>4. QED  BY <1>2, <1>3

\* The end of the body.
LEMMA BodyHolds == ASSUME ProxyInv, BodyComplete PROVE ProxyInv'
<1>1. /\ pxUpstream \in Upstreams /\ pxUpstream.head \in Nat /\ pxUpstream.body \in Nat
  BY UpstreamType DEF ProxyInv, PxTypes
<1>2. GoodUpstream
  BY <1>1, GoodExactly, ProxyAssumption
  DEF ProxyInv, PxTypes, ReadSound, BodyComplete, InBody
<1>3. GoodUpstream' /\ ParsedLength(pxUpstream)' = ParsedLength(pxUpstream)
  BY <1>2, GoodKept DEF BodyComplete, Done
<1>4. PxTypes' /\ OfferSound' /\ ReadSound'
  BY DEF ProxyInv, BodyComplete, Done, PxTypes, OfferSound, ReadSound
<1>5. ProxyFaithful'
  <2>1. /\ pxPc = "body" /\ pxStatus' = 200 /\ pxBody' = pxLength
        /\ UNCHANGED <<pxOffer, pxUpstream>>
    BY DEF BodyComplete, Done
  <2>2. pxLength = ParsedLength(pxUpstream) /\ pxUpstream.head < HeadLimit + ReadChunk
    BY <2>1 DEF ProxyInv, ReadSound
  <2>3. pxOffer.offer /\ pxOffer.declared = pxOffer.len /\ ~(pxOffer.len > MaxOffer)
    BY <2>1 DEF ProxyInv, OfferSound
  <2> QED  BY ONLY <1>3, <2>1, <2>2, <2>3 DEF ProxyFaithful
<1>6. QED  BY <1>4, <1>5 DEF ProxyInv

\* The stream ends only when the body is shorter than announced.
LEMMA EndHolds == ASSUME ProxyInv, ReadEnd PROVE ProxyInv'
<1>1. /\ pxUpstream \in Upstreams /\ pxUpstream.head \in Nat /\ pxUpstream.body \in Nat
      /\ ParsedLength(pxUpstream) \in Int
  BY UpstreamType, ParsedLengthExact DEF ProxyInv, PxTypes
<1>2. pxPc = "body" /\ pxUpstream.body < ParsedLength(pxUpstream)
  BY <1>1
     DEF ProxyInv, PxTypes, ReadSound, ReadEnd, Wanting, Available, HeadComplete,
         InBody
<1>3. ~GoodUpstream
  BY <1>1, <1>2, GoodExactly
<1>4. QED  BY <1>2, <1>3, FailureHolds DEF ReadEnd, ProxyInv, PxTypes

\* Reading some bytes.
LEMMA ReadHolds ==
  ASSUME ProxyInv, NEW n \in 1..ReadChunk, ReadSome(n)
  PROVE  ProxyInv'
<1>1. /\ pxUpstream \in Upstreams /\ pxUpstream.head \in Nat /\ pxUpstream.body \in Nat
  BY UpstreamType DEF ProxyInv, PxTypes
<1>2. PxTypes' /\ OfferSound' /\ ProxyFaithful'
  BY ProxyAssumption
     DEF ProxyInv, PxTypes, OfferSound, ProxyFaithful, ReadSome, Wanting
<1>3. ReadSound'
  BY <1>1, ProxyAssumption
  DEF ProxyInv, PxTypes, ReadSound, ReadSome, Wanting, Available, HeadComplete,
         InBody
<1>4. QED  BY <1>2, <1>3 DEF ProxyInv

\* What ends the exchange with a failure.
LEMMA FaultsHold ==
  ASSUME ProxyInv, HeadTooLong \/ NetworkFails \/ TimedOut
  PROVE  ProxyInv'
<1>1. pxUpstream.head \in Nat
  BY UpstreamType DEF ProxyInv, PxTypes
<1>2. CASE HeadTooLong
  <2>1. pxUpstream.head > HeadLimit
    BY <1>1, <1>2, ProxyAssumption
       DEF HeadTooLong, HeadComplete, ProxyInv, PxTypes
  <2>2. QED  BY <1>2, <2>1, FailureHolds DEF HeadTooLong, ProxyInv, PxTypes
<1>3. CASE NetworkFails
  BY <1>3, FailureHolds DEF NetworkFails, Wanting
<1>4. CASE TimedOut
  BY <1>4, FailureHolds DEF TimedOut, Wanting, ProxyInv, PxTypes
<1>5. QED  BY <1>2, <1>3, <1>4

\* The steps that read and decide nothing.
LEMMA WaitsHold ==
  ASSUME ProxyInv, Connected \/ Written \/ Tick \/ UNCHANGED pxVars
  PROVE  ProxyInv'
<1>1. UNCHANGED <<pxOffer, pxUpstream, pxRead, pxLength, pxStatus, pxBody, pxFault>>
  BY DEF Connected, Written, Tick, pxVars
<1>2. \/ pxPc' = pxPc
      \/ pxPc = "connecting" /\ pxPc' = "writing"
      \/ pxPc = "writing" /\ pxPc' = "head"
  BY DEF Connected, Written, Tick, pxVars
<1>3. PxTypes' /\ OfferSound'
  BY <1>1, <1>2 DEF ProxyInv, PxTypes, OfferSound
<1>4. ReadSound'
  <2>1. 0 < HeadLimit + ReadChunk  BY ProxyAssumption
  <2>2. ParsedLength(pxUpstream)' = ParsedLength(pxUpstream)  BY <1>1
  <2>3. QED  BY <1>1, <1>2, <2>1, <2>2 DEF ProxyInv, ReadSound
<1>5. ProxyFaithful'
  <2>1. GoodUpstream' <=> GoodUpstream  BY <1>1, GoodKept
  <2>2. ParsedLength(pxUpstream)' = ParsedLength(pxUpstream)  BY <1>1
  <2>3. QED  BY <1>1, <1>2, <2>1, <2>2 DEF ProxyInv, ProxyFaithful
<1>6. QED  BY <1>3, <1>4, <1>5 DEF ProxyInv

\* For every offer and every upstream response, cut into reads in any way and
\* for any limits: the client gets 200 only with the whole answer of a sound
\* response and nothing more, 502 only for a fault, and a refusal exactly for
\* an offer that is malformed or too large (forward_offer, read_response_body).
THEOREM ProxyIsFaithful == ProxySpec => []ProxyFaithful
<1>1. ProxyInv /\ [ProxyNext]_pxVars => ProxyInv'
  BY PostHolds, ParseHolds, BodyHolds, EndHolds, ReadHolds, FaultsHold, WaitsHold
  DEF ProxyNext, ProxyTask
<1>2. ProxyInv => ProxyFaithful
  BY DEF ProxyInv
<1> QED  BY <1>1, <1>2, ProxyInitHolds, PTL DEF ProxySpec

-----------------------------------------------------------------------------
(* The handshake: what a pattern matches.                                  *)

\* The texts of a path's segments: strings, of which the provers have to be
\* told that "ws" is one.
Texts == STRING \cup {"ws"}
PathType == [slash : BOOLEAN, segs : Seq(Texts)]
PatternType == [slash : BOOLEAN, segs : Seq({"literal", "param", "mixed"} \X STRING)]

\* The parts of a pattern.
LEMMA PatternParts ==
  ASSUME NEW pat \in PatternType
  PROVE  /\ pat.slash \in BOOLEAN
         /\ Len(pat.segs) \in Nat /\ DOMAIN pat.segs = 1..Len(pat.segs)
         /\ \A i \in DOMAIN pat.segs :
              /\ pat.segs[i][1] \in {"literal", "param", "mixed"}
              /\ pat.segs[i][2] \in STRING
              /\ pat.segs[i] = <<pat.segs[i][1], pat.segs[i][2]>>
  <1>1. pat.slash \in BOOLEAN /\ pat.segs \in Seq({"literal", "param", "mixed"} \X STRING)
    BY DEF PatternType
  <1>2. Len(pat.segs) \in Nat /\ DOMAIN pat.segs = 1..Len(pat.segs)
    BY <1>1
  <1>3. \A i \in DOMAIN pat.segs : pat.segs[i] \in {"literal", "param", "mixed"} \X STRING
    BY <1>1, <1>2
  <1> QED
    BY <1>1, <1>2, <1>3

\* The parts of a path.
LEMMA PathParts ==
  ASSUME NEW path \in PathType
  PROVE  /\ path.slash \in BOOLEAN /\ Len(path.segs) \in Nat
         /\ DOMAIN path.segs = 1..Len(path.segs)
         /\ path.segs = [i \in 1..Len(path.segs) |-> path.segs[i]]
         /\ path = [slash |-> path.slash, segs |-> path.segs]
  <1>1. path.slash \in BOOLEAN /\ path.segs \in Seq(Texts)
        /\ path = [slash |-> path.slash, segs |-> path.segs]
    BY DEF PathType
  <1> QED
    BY <1>1

\* A pattern that parses and is not compared as it stands has a leading slash,
\* literals and parameters only, and no two parameters of one name.
LEMMA ParsedPattern ==
  ASSUME NEW pat \in PatternType, WsParseError(pat) = "", ~IsExact(pat)
  PROVE  /\ pat.slash
         /\ \A i \in DOMAIN pat.segs : pat.segs[i][1] \in {"literal", "param"}
         /\ \A i, j \in DOMAIN pat.segs :
              /\ pat.segs[i][1] = "param" /\ pat.segs[j][1] = "param"
              /\ pat.segs[i][2] = pat.segs[j][2]
              => i = j
  <1> DEFINE bad == {i \in DOMAIN pat.segs : WsSegmentError(pat.segs, i) # ""}
  <1>0. Len(pat.segs) \in Nat /\ DOMAIN pat.segs = 1..Len(pat.segs)
    BY PatternParts
  <1>8. \A i \in DOMAIN pat.segs : i \in Nat
    BY ONLY <1>0
  <1>1. bad = {}
    <2> SUFFICES ASSUME bad # {} PROVE FALSE
      OBVIOUS
    <2>1. bad \subseteq Nat
      BY <1>8
    <2>2. WsParseError(pat) \in {"MissingLeadingSlash", "TooManySegments"}
          \/ WsParseError(pat)
               = WsSegmentError(pat.segs, CHOOSE i \in bad : \A j \in bad : i <= j)
      BY DEF WsParseError
    <2> DEFINE first == CHOOSE i \in bad : \A j \in bad : i <= j
    <2>3. first \in bad
      <3> HIDE DEF bad
      <3>1. \E i \in bad : \A j \in bad : i <= j
        BY <2>1, LeastNumber
      <3> QED
        BY <3>1
    <2> HIDE DEF first
    <2>4. WsSegmentError(pat.segs, first) # ""
      BY <2>3
    <2> QED
      BY <2>2, <2>4 DEF first
  <1>2. pat.slash
    <2>1. ~pat.slash => WsParseError(pat) = "MissingLeadingSlash"
      BY DEF WsParseError
    <2> QED
      BY <2>1
  <1>3. \A i \in DOMAIN pat.segs : WsSegmentError(pat.segs, i) = ""
    BY <1>1
  <1>4. \A i \in DOMAIN pat.segs : pat.segs[i][1] # "mixed"
    BY <1>3 DEF WsSegmentError
  <1>5. \A i \in DOMAIN pat.segs : pat.segs[i][1] \in {"literal", "param"}
    BY <1>4, PatternParts
  <1>6. ASSUME NEW i \in DOMAIN pat.segs, NEW j \in DOMAIN pat.segs, j < i,
               pat.segs[i][1] = "param", pat.segs[j][1] = "param",
               pat.segs[i][2] = pat.segs[j][2]
        PROVE  FALSE
    <2>1. pat.segs[j] = pat.segs[i]
      <3>1. \A k \in DOMAIN pat.segs : pat.segs[k] = <<pat.segs[k][1], pat.segs[k][2]>>
        BY PatternParts
      <3>2. /\ pat.segs[i] = <<pat.segs[i][1], pat.segs[i][2]>>
            /\ pat.segs[j] = <<pat.segs[j][1], pat.segs[j][2]>>
        BY <3>1
      <3> QED
        BY <1>6, <3>2, Zenon
    <2>2. j \in 1..(i - 1)
      <3>1. i \in 1..Len(pat.segs) /\ j \in 1..Len(pat.segs) /\ Len(pat.segs) \in Nat
        BY <1>0
      <3>2. i \in Nat /\ j \in Nat /\ 1 <= j
        BY ONLY <3>1
      <3> QED
        BY ONLY <1>6, <3>2
    <2>3. WsSegmentError(pat.segs, i) # ""
      BY <1>6, <2>1, <2>2 DEF WsSegmentError
    <2> QED
      BY <1>3, <2>3
  <1>7. ASSUME NEW i \in DOMAIN pat.segs, NEW j \in DOMAIN pat.segs,
               pat.segs[i][1] = "param", pat.segs[j][1] = "param",
               pat.segs[i][2] = pat.segs[j][2]
        PROVE  i = j
    <2>1. i \in Nat /\ j \in Nat
      BY <1>8
    <2>2. ~(j < i)
      BY <1>6, <1>7
    <2>3. ~(i < j)
      BY <1>6, <1>7
    <2> QED
      BY ONLY <2>1, <2>2, <2>3
  <1> QED
    BY <1>2, <1>5, <1>7

\* A pattern written out: its parameters replaced by the values f gives them.
Filled(pat, f) ==
  [slash |-> pat.slash,
   segs |-> [i \in DOMAIN pat.segs |->
               IF pat.segs[i][1] = "param" THEN f[pat.segs[i][2]]
               ELSE pat.segs[i][2]]]
ParamNames(pat) ==
  {pat.segs[i][2] : i \in {j \in DOMAIN pat.segs : pat.segs[j][1] = "param"}}
SafeTexts(path) ==
  {path.segs[i] : i \in DOMAIN path.segs} \ (WsUnsafe \cup WsLong)

\* What a pattern admits are the ways to fill it in.
LEMMA AdmitsPattern ==
  ASSUME NEW pat, NEW path
  PROVE  Admits(<<"pattern", pat>>, path)
           <=> \E f \in [ParamNames(pat) -> SafeTexts(path)] : path = Filled(pat, f)
  <1>1. PICK g : g = <<"pattern", pat>>
    OBVIOUS
  <1>2. g[1] = "pattern" /\ g[2] = pat
    BY ONLY <1>1
  <1>3. g[1] # "path"
    BY ONLY <1>2
  <1>4. Admits(g, path)
          <=> \E f \in [ParamNames(g[2]) -> SafeTexts(path)] : path = Filled(g[2], f)
    BY ONLY <1>3, Zenon DEF Admits, ParamNames, SafeTexts, Filled
  <1> QED
    BY ONLY <1>1, <1>2, <1>4, Zenon

\* A pattern that parses admits what match_path matches, and nothing else.
LEMMA MatchesAdmitted ==
  ASSUME NEW pat \in PatternType, NEW path \in PathType, WsParseError(pat) = ""
  PROVE  WsMatches(pat, path) <=> Admits(<<"pattern", pat>>, path)
  <1>1. CASE IsExact(pat)
    <2>1. \A i \in DOMAIN pat.segs : pat.segs[i][1] # "param"
      BY <1>1 DEF IsExact
    <2>2. ParamNames(pat) = {}
      BY <2>1 DEF ParamNames
    <2>3. ASSUME NEW f
          PROVE  Filled(pat, f) = [slash |-> pat.slash,
                                   segs |-> [i \in DOMAIN pat.segs |-> pat.segs[i][2]]]
      BY <2>1 DEF Filled
    <2>4. [x \in {} |-> ""] \in [ParamNames(pat) -> SafeTexts(path)]
      BY <2>2
    <2>5. (\E f \in [ParamNames(pat) -> SafeTexts(path)] : path = Filled(pat, f))
            <=> path = [slash |-> pat.slash,
                        segs |-> [i \in DOMAIN pat.segs |-> pat.segs[i][2]]]
      BY <2>3, <2>4, Zenon
    <2> QED
      BY <1>1, <2>5, AdmitsPattern DEF WsMatches
  <1>2. CASE ~IsExact(pat)
    <2> DEFINE n == Len(pat.segs)
    <2>1. /\ n \in Nat /\ DOMAIN pat.segs = 1..n /\ pat.slash = TRUE
          /\ \A i \in 1..n : pat.segs[i][1] \in {"literal", "param"}
          /\ \A i, j \in 1..n :
               /\ pat.segs[i][1] = "param" /\ pat.segs[j][1] = "param"
               /\ pat.segs[i][2] = pat.segs[j][2]
               => i = j
      BY ZenonT(60), <1>2, PatternParts, ParsedPattern
    <2>2. WsMatches(pat, path) <=>
            /\ path.slash /\ Len(path.segs) = n
            /\ \A i \in 1..n : IF pat.segs[i][1] = "literal"
                               THEN path.segs[i] = pat.segs[i][2]
                               ELSE path.segs[i] \notin WsUnsafe \cup WsLong
      BY <1>2, <2>1 DEF WsMatches, WsSafeValue
    <2> HIDE DEF n
    <2>3. ASSUME WsMatches(pat, path)
          PROVE  \E f \in [ParamNames(pat) -> SafeTexts(path)] : path = Filled(pat, f)
      <3> DEFINE At(x) == CHOOSE i \in 1..n : pat.segs[i][1] = "param" /\ pat.segs[i][2] = x
                 f == [x \in ParamNames(pat) |-> path.segs[At(x)]]
      <3>1. Len(path.segs) = n /\ DOMAIN path.segs = 1..n /\ path.slash = TRUE
        BY <2>2, <2>3, PathParts
      <3>2. \A i \in 1..n : pat.segs[i][1] = "param" =>
              /\ pat.segs[i][2] \in ParamNames(pat) /\ At(pat.segs[i][2]) = i
        BY <2>1 DEF ParamNames
      <3>3. \A x \in ParamNames(pat) :
              \E i \in 1..n : pat.segs[i][1] = "param" /\ pat.segs[i][2] = x
        BY <2>1 DEF ParamNames
      <3>4. \A i \in 1..n : pat.segs[i][1] = "param" => path.segs[i] \in SafeTexts(path)
        BY <2>1, <2>2, <2>3, <3>1 DEF SafeTexts
      <3> HIDE DEF At
      <3>5. f \in [ParamNames(pat) -> SafeTexts(path)]
        <4>1. ASSUME NEW x \in ParamNames(pat) PROVE path.segs[At(x)] \in SafeTexts(path)
          <5>1. PICK i \in 1..n : pat.segs[i][1] = "param" /\ pat.segs[i][2] = x
            BY <3>3
          <5> QED
            BY <3>2, <3>4, <5>1
        <4> QED
          BY <4>1
      <3>6. \A i \in 1..n : path.segs[i] = IF pat.segs[i][1] = "param" THEN f[pat.segs[i][2]]
                                           ELSE pat.segs[i][2]
        BY <2>1, <2>2, <2>3, <3>2
      <3> HIDE DEF f
      <3>7. path.segs = [i \in 1..n |-> IF pat.segs[i][1] = "param" THEN f[pat.segs[i][2]]
                                        ELSE pat.segs[i][2]]
        BY <3>1, <3>6, PathParts
      <3>8. path = Filled(pat, f)
        BY <2>1, <3>1, <3>7, PathParts DEF Filled
      <3> QED
        BY <3>5, <3>8
    <2>4. ASSUME NEW f \in [ParamNames(pat) -> SafeTexts(path)], path = Filled(pat, f)
          PROVE  WsMatches(pat, path)
      <3>1. /\ path.slash
            /\ path.segs = [i \in 1..n |-> IF pat.segs[i][1] = "param" THEN f[pat.segs[i][2]]
                                           ELSE pat.segs[i][2]]
        BY <2>1, <2>4 DEF Filled
      <3>2. DOMAIN path.segs = 1..n
        BY <3>1
      <3>3. Len(path.segs) = n
        <4>1. 1..Len(path.segs) = 1..n /\ Len(path.segs) \in Nat
          BY <3>2, PathParts
        <4>2. ASSUME NEW a \in Nat, NEW b \in Nat, 1..a = 1..b PROVE a = b
          <5>1. a > 0 => a \in 1..b
            BY ONLY <4>2, a \in Nat
          <5>2. b > 0 => b \in 1..a
            BY ONLY <4>2, b \in Nat
          <5> QED
            BY ONLY a \in Nat, b \in Nat, <5>1, <5>2
        <4> QED
          BY <2>1, <4>1, <4>2
      <3>4. \A i \in 1..n : path.segs[i] = IF pat.segs[i][1] = "param" THEN f[pat.segs[i][2]]
                                           ELSE pat.segs[i][2]
        BY <3>1
      <3>5. \A i \in 1..n : pat.segs[i][1] = "param" => f[pat.segs[i][2]] \in SafeTexts(path)
        <4>1. \A i \in 1..n : pat.segs[i][1] = "param" => pat.segs[i][2] \in ParamNames(pat)
          BY <2>1 DEF ParamNames
        <4> QED
          BY <2>4, <4>1
      <3>6. \A i \in 1..n : pat.segs[i][1] = "param" => path.segs[i] \notin WsUnsafe \cup WsLong
        BY <3>4, <3>5 DEF SafeTexts
      <3>7. \A i \in 1..n : pat.segs[i][1] = "literal" => path.segs[i] = pat.segs[i][2]
        BY <3>4
      <3> QED
        BY <2>1, <2>2, <3>1, <3>3, <3>6, <3>7
    <2> QED
      BY <2>3, <2>4, AdmitsPattern
  <1> QED
    BY <1>1, <1>2

-----------------------------------------------------------------------------
(* The handshake: the invariant. A configuration remembers the last path   *)
(* or pattern it was given, and that one parsed; the task's configuration  *)
(* is the first that matches the request, its answer is one the handshake  *)
(* and the hook decide on, and on_open comes with the whole 101.           *)

ConfigType ==
  [path : PathType, pattern : {<<>>} \cup {<<pat>> : pat \in WsPatterns},
   check : BOOLEAN,
   given : ({"path"} \X PathType) \cup ({"pattern"} \X WsPatterns)]

ConfigSound(config) ==
  /\ config \in ConfigType
  /\ \/ /\ config.given = <<"path", config.path>> /\ config.pattern = <<>>
     \/ \E pat \in WsPatterns :
          /\ config.given = <<"pattern", pat>> /\ config.pattern = <<pat>>
          /\ WsParseError(pat) = ""

WsArrived == {"passed", "spawned", "writing", "session", "ended"}

ConfigsInv ==
  /\ ConfigSound(wsBuild)
  /\ wsConfigs \in Seq(ConfigType)
  /\ \A i \in 1..Len(wsConfigs) : ConfigSound(wsConfigs[i])

RoutedInv ==
  wsPc \in WsArrived =>
    /\ wsHead \in WsHeads
    /\ IF Takers(wsHead) = {} THEN wsChosen = 0 /\ wsPc = "passed"
       ELSE /\ wsChosen \in Takers(wsHead)
            /\ \A i \in Takers(wsHead) : wsChosen <= i

AnswerInv ==
  /\ wsPc \notin {"writing", "session", "ended"} => wsOut = 0
  /\ wsPc \in {"writing", "session"} => wsOut # 0
  /\ wsOut # 0 => wsOut \in Decisions(wsHead, wsConfigs[wsChosen])
  /\ wsPc # "session" => wsOpened = <<>>
  /\ wsPc = "session" =>
       /\ wsOut = 101 /\ wsWire = "whole"
       /\ wsOpened = <<ConfigParams(wsHead, wsConfigs[wsChosen]), HandlerOrigin(wsHead)>>

UpgradeInv == WsTypeOK /\ ConfigsInv /\ RoutedInv /\ AnswerInv

\* The types the constants have.
LEMMA HandshakeTypes ==
  /\ WsPaths \subseteq PathType /\ WsPatterns \subseteq PatternType
  /\ \A h \in WsHeads :
       /\ h.path \in PathType /\ h.http11 \in BOOLEAN
       /\ h.upgrade \in Seq(STRING) /\ h.version \in Seq(STRING)
       /\ h.key \in Seq(STRING) /\ h.origin \in Seq(STRING)
  <1>1. Seq(STRING) \subseteq Seq(Texts)
    <2>1. STRING \subseteq Texts
      BY DEF Texts
    <2>2. ASSUME NEW s \in Seq(STRING) PROVE s \in Seq(Texts)
      <3>1. Len(s) \in Nat /\ s \in [1..Len(s) -> STRING]
        OBVIOUS
      <3>2. s \in [1..Len(s) -> Texts]
        BY <2>1, <3>1
      <3> QED
        BY <3>1, <3>2
    <2> QED
      BY <2>2
  <1>2. [slash : BOOLEAN, segs : Seq(STRING)] \subseteq PathType
    BY <1>1 DEF PathType
  <1>3. WsPaths \subseteq PathType /\ WsPatterns \subseteq PatternType
    BY <1>2, HandshakeAssumption DEF PatternType
  <1>4. ASSUME NEW h \in WsHeads
        PROVE  /\ h.path \in PathType /\ h.http11 \in BOOLEAN
               /\ h.upgrade \in Seq(STRING) /\ h.version \in Seq(STRING)
               /\ h.key \in Seq(STRING) /\ h.origin \in Seq(STRING)
    <2>1. h \in [path : [slash : BOOLEAN, segs : Seq(STRING)], method : STRING,
                http11 : BOOLEAN, connection : Seq(SUBSET STRING),
                upgrade : Seq(STRING), version : Seq(STRING), key : Seq(STRING),
                origin : Seq(STRING)]
      BY HandshakeAssumption
    <2> QED
      BY <1>2, <2>1
  <1> QED
    BY <1>3, <1>4

\* A sequence of one.
LEMMA Singleton ==
  ASSUME NEW x, NEW s, s = <<x>>
  PROVE  s # <<>> /\ s[1] = x
  OBVIOUS

\* A tuple of three.
LEMMA Triple ==
  ASSUME NEW a, NEW b, NEW c, NEW s, s = <<a, b, c>>
  PROVE  s[2] = b /\ s[3] = c
  OBVIOUS

\* The bounds are numbers.
LEMMA HandshakeBounds ==
  MaxSettings \in Nat /\ MaxConfigs \in Nat
  BY HandshakeAssumption, Zenon

\* What a sound configuration admits is what match_config_path matches.
LEMMA ConfigMatches ==
  ASSUME NEW config, ConfigSound(config), NEW h, h.path \in PathType
  PROVE  MatchConfigPath(h, config) <=> Admits(config.given, h.path)
  <1>1. CASE config.given = <<"path", config.path>> /\ config.pattern = <<>>
    <2>1. config.given[1] = "path" /\ config.given[2] = config.path
      BY ONLY <1>1
    <2> QED
      BY ONLY <1>1, <2>1 DEF MatchConfigPath, Admits
  <1>2. ASSUME NEW pat \in WsPatterns, config.given = <<"pattern", pat>>,
               config.pattern = <<pat>>, WsParseError(pat) = ""
        PROVE  MatchConfigPath(h, config) <=> Admits(config.given, h.path)
    <2>1. pat \in PatternType
      BY HandshakeTypes
    <2>2. WsMatches(pat, h.path) <=> Admits(<<"pattern", pat>>, h.path)
      BY <1>2, <2>1, MatchesAdmitted
    <2>3. MatchConfigPath(h, config) <=> WsMatches(pat, h.path)
      <3>1. config.pattern # <<>> /\ config.pattern[1] = pat
        BY <1>2, Singleton, Zenon
      <3> QED
        BY <3>1 DEF MatchConfigPath
    <2> QED
      BY <1>2, <2>2, <2>3
  <1> QED
    BY <1>1, <1>2 DEF ConfigSound

\* The first value of a header.
LEMMA FirstValue ==
  ASSUME NEW T, NEW values \in Seq(T), NEW v, v # ""
  PROVE  (HeadHeader(values) = v) <=> (values # <<>> /\ values[1] = v)
  <1>1. CASE values = <<>>
    <2>1. HeadHeader(values) = ""
      BY <1>1 DEF HeadHeader
    <2> QED
      BY <1>1, <2>1
  <1>2. CASE values # <<>>
    <2>1. HeadHeader(values) = Head(values)
      BY <1>2 DEF HeadHeader
    <2>2. Head(values) = values[1]
      BY ONLY values \in Seq(T), <1>2
    <2> QED
      BY <1>2, <2>1, <2>2
  <1> QED
    BY <1>1, <1>2

\* A request is taken by the first configuration that admits it.
LEMMA RoutedHolds ==
  ASSUME ConfigsInv, RoutedInv
  PROVE  UpgradeRouted
  <1> SUFFICES ASSUME wsPc \in WsArrived
               PROVE  LET asks == wsHead.method = "GET" /\ wsHead.upgrade # <<>>
                                  /\ wsHead.upgrade[1] = "websocket"
                          admit == {i \in DOMAIN wsConfigs :
                                      Admits(wsConfigs[i].given, wsHead.path)}
                      IN IF asks /\ admit # {}
                         THEN wsChosen \in admit /\ \A i \in admit : wsChosen <= i
                         ELSE wsChosen = 0 /\ wsPc = "passed"
    BY DEF UpgradeRouted, WsArrived
  <1> DEFINE asks == wsHead.method = "GET" /\ wsHead.upgrade # <<>>
                     /\ wsHead.upgrade[1] = "websocket"
             admit == {i \in DOMAIN wsConfigs : Admits(wsConfigs[i].given, wsHead.path)}
  <1>1. wsHead \in WsHeads
    BY DEF RoutedInv
  <1>2. wsHead.path \in PathType /\ wsHead.upgrade \in Seq(STRING)
    BY <1>1, HandshakeTypes
  <1>3. asks <=> wsHead.method = "GET" /\ HeadHeader(wsHead.upgrade) = "websocket"
    <2>1. (HeadHeader(wsHead.upgrade) = "websocket")
            <=> (wsHead.upgrade # <<>> /\ wsHead.upgrade[1] = "websocket")
      <3>1. PICK values \in Seq(STRING) : values = wsHead.upgrade
        BY <1>2
      <3>2. "websocket" # ""
        OBVIOUS
      <3>3. (HeadHeader(values) = "websocket")
              <=> (values # <<>> /\ values[1] = "websocket")
        BY <3>2, FirstValue
      <3> QED
        BY <3>1, <3>3
    <2> QED
      BY <2>1
  <1>4. DOMAIN wsConfigs = 1..Len(wsConfigs)
    BY DEF ConfigsInv
  <1>5. ASSUME NEW i \in DOMAIN wsConfigs
        PROVE  UpgradeMatches(wsHead, wsConfigs[i])
                 <=> asks /\ Admits(wsConfigs[i].given, wsHead.path)
    <2>1. ConfigSound(wsConfigs[i])
      BY <1>4, <1>5 DEF ConfigsInv
    <2>2. MatchConfigPath(wsHead, wsConfigs[i])
            <=> Admits(wsConfigs[i].given, wsHead.path)
      BY <1>2, <2>1, ConfigMatches
    <2> HIDE DEF asks
    <2> QED
      BY <1>3, <2>2 DEF UpgradeMatches
  <1> HIDE DEF asks
  <1>6. Takers(wsHead) = IF asks THEN admit ELSE {}
    BY <1>5 DEF Takers
  <1> HIDE DEF admit
  <1>7. IF asks /\ admit # {} THEN wsChosen \in admit /\ \A i \in admit : wsChosen <= i
        ELSE wsChosen = 0 /\ wsPc = "passed"
    BY <1>6 DEF RoutedInv
  <1> QED
    BY <1>7 DEF asks, admit

\* The statuses the task decides on, and what 101 takes.
LEMMA DecisionsAre ==
  ASSUME NEW h \in WsHeads, NEW config, NEW out \in Decisions(h, config)
  PROVE  /\ out = 101 \/ (out \in 300..599 /\ ~Bodyless(out))
         /\ out = 101 => /\ Validate(h) = 101
                         /\ config.check => CtxHeader(h.origin) \in AllowedOrigins
  <1>1. CASE Validate(h) # 101
    <2>1. out \in {400, 426}
      BY <1>1 DEF Decisions, Validate
    <2> QED
      BY <2>1 DEF Bodyless
  <1>2. CASE Validate(h) = 101 /\ config.check /\ CtxHeader(h.origin) \notin AllowedOrigins
    <2>1. PICK status \in Rejections : out = NormalizeRejection(status)
      BY <1>2 DEF Decisions
    <2>2. out \in 300..599 /\ ~Bodyless(out)
      <3>1. CASE status \in 300..599 /\ ~Bodyless(status)
        BY <2>1, <3>1 DEF NormalizeRejection
      <3>2. CASE ~(status \in 300..599 /\ ~Bodyless(status))
        <4>1. out = 400
          BY <2>1, <3>2 DEF NormalizeRejection
        <4> QED
          BY <4>1 DEF Bodyless
      <3> QED
        BY <3>1, <3>2
    <2> QED
      BY <2>2
  <1>3. CASE Validate(h) = 101 /\ ~(config.check /\ CtxHeader(h.origin) \notin AllowedOrigins)
    <2>1. Decisions(h, config) = {101}
      BY <1>3, Zenon DEF Decisions
    <2>2. out = 101
      BY <2>1
    <2>3. config.check => CtxHeader(h.origin) \in AllowedOrigins
      BY <1>3, Zenon
    <2>4. out = 101 => /\ Validate(h) = 101
                       /\ config.check => CtxHeader(h.origin) \in AllowedOrigins
      BY <1>3, <2>3, Zenon
    <2>5. out = 101 \/ (out \in 300..599 /\ ~Bodyless(out))
      BY <2>2
    <2> QED
      BY <2>4, <2>5, Zenon
  <1> QED
    BY <1>1, <1>2, <1>3

\* The handler gets the parameters of the pattern, each with its segment.
LEMMA ParamsComplete ==
  ASSUME NEW pat \in PatternType, NEW path \in PathType, ~IsExact(pat),
         WsMatches(pat, path), NEW i \in DOMAIN pat.segs, pat.segs[i][1] = "param"
  PROVE  \E j \in DOMAIN WsExtract(pat, path) :
           WsExtract(pat, path)[j] = <<pat.segs[i][2], path.segs[i]>>
  <1> DEFINE all == [k \in DOMAIN pat.segs |->
                       <<pat.segs[k][1], pat.segs[k][2], path.segs[k]>>]
             params == {all[k] : k \in {j \in DOMAIN all : all[j][1] = "param"}}
             found == Select(all, params)
             T == {all[k] : k \in DOMAIN all}
  <1>1. Len(pat.segs) \in Nat /\ DOMAIN pat.segs = 1..Len(pat.segs)
    BY PatternParts
  <1>2. all \in Seq(T) /\ Len(all) = Len(pat.segs) /\ DOMAIN all = 1..Len(pat.segs)
    <2>1. all \in [1..Len(pat.segs) -> T]
      BY <1>1
    <2>2. DOMAIN all = 1..Len(pat.segs)
      BY <1>1
    <2> HIDE DEF all, T
    <2>3. PICK n \in Nat : n = Len(pat.segs)
      BY <1>1
    <2>4. all \in Seq(T) /\ Len(all) = n
      BY <2>1, <2>3
    <2> QED
      BY <2>2, <2>3, <2>4
  <1>3. all[i] = <<pat.segs[i][1], pat.segs[i][2], path.segs[i]>>
    OBVIOUS
  <1>4. all[i] \in params
    BY <1>2, <1>3
  <1>5. WsExtract(pat, path) = [j \in DOMAIN found |-> <<found[j][2], found[j][3]>>]
    BY DEF WsExtract
  <1> HIDE DEF all, params, T
  <1>6. Faithful(found, all, params, Len(all))
    BY <1>2, SelectFaithful
  <1>7. found \in Seq(T \cap params)
    BY <1>2, SelectType
  <1> HIDE DEF found
  <1>8. i \in 1..Len(all)
    BY <1>1, <1>2
  <1>9. PICK j \in 1..Len(found) : found[j] = all[i]
    BY <1>4, <1>6, <1>8 DEF Faithful
  <1>10. j \in DOMAIN found
    BY <1>7, <1>9
  <1>11. WsExtract(pat, path)[j] = <<found[j][2], found[j][3]>>
         /\ j \in DOMAIN WsExtract(pat, path)
    BY ONLY <1>5, <1>10
  <1>12. found[j][2] = pat.segs[i][2] /\ found[j][3] = path.segs[i]
    <2>1. found[j] = <<pat.segs[i][1], pat.segs[i][2], path.segs[i]>>
      BY ONLY <1>3, <1>9, Zenon
    <2>2. PICK a, b, c, e : /\ a = pat.segs[i][1] /\ b = pat.segs[i][2]
                            /\ c = path.segs[i] /\ e = found[j]
      OBVIOUS
    <2>3. e = <<a, b, c>>
      BY ONLY <2>1, <2>2, Zenon
    <2>4. e[2] = b /\ e[3] = c
      BY ONLY <2>3, Triple, Zenon
    <2> QED
      BY ONLY <2>2, <2>4, Zenon
  <1> QED
    BY ONLY <1>11, <1>12

\* What on_open is called on is entitled to it.
LEMMA EntitledHolds ==
  ASSUME ConfigsInv, RoutedInv, AnswerInv, WsTypeOK
  PROVE  OpenedIsEntitled
  <1> DEFINE config == wsConfigs[wsChosen]
  <1>1. ASSUME wsOpened # <<>>
        PROVE  LET pat == config.given[2]
                   params == wsOpened[1]
               IN /\ wsOut = 101 /\ wsWire = "whole" /\ wsPc = "session"
                  /\ wsHead.method = "GET" /\ wsHead.http11
                  /\ "upgrade" \in UNION {wsHead.connection[i] : i \in DOMAIN wsHead.connection}
                  /\ wsHead.version[1] = "13" /\ wsHead.key[1] = "valid"
                  /\ config.check => /\ \E o \in AllowedOrigins : wsHead.origin = <<o>>
                                     /\ wsOpened[2] \in {wsHead.origin[1], ""}
                  /\ config.given[1] = "pattern" =>
                       \A i \in DOMAIN pat.segs : pat.segs[i][1] = "param" =>
                         <<pat.segs[i][2], wsHead.path.segs[i]>>
                           \in {params[j] : j \in DOMAIN params}
    <2>1. /\ wsPc = "session" /\ wsOut = 101 /\ wsWire = "whole"
          /\ wsOpened = <<ConfigParams(wsHead, config), HandlerOrigin(wsHead)>>
          /\ 101 \in Decisions(wsHead, config)
      BY <1>1 DEF AnswerInv
    <2>2. /\ wsHead \in WsHeads /\ wsChosen \in Takers(wsHead)
      BY <2>1 DEF RoutedInv, WsArrived
    <2>3. wsChosen \in DOMAIN wsConfigs /\ UpgradeMatches(wsHead, config)
      BY <2>2 DEF Takers
    <2>4. ConfigSound(config)
      BY <2>3 DEF ConfigsInv
    <2>5. /\ Validate(wsHead) = 101
          /\ config.check => CtxHeader(wsHead.origin) \in AllowedOrigins
      BY <2>1, <2>2, DecisionsAre
    <2>6. /\ wsHead.path \in PathType /\ wsHead.http11 \in BOOLEAN
          /\ wsHead.version \in Seq(STRING) /\ wsHead.key \in Seq(STRING)
          /\ wsHead.origin \in Seq(STRING)
      BY <2>2, HandshakeTypes
    <2> HIDE DEF config
    <2>7. /\ wsHead.method = "GET" /\ wsHead.http11
          /\ \E i \in DOMAIN wsHead.connection : "upgrade" \in wsHead.connection[i]
          /\ HeadHeader(wsHead.version) = "13" /\ HeadHeader(wsHead.key) = "valid"
      BY <2>5 DEF Validate
    <2>8. wsHead.version[1] = "13" /\ wsHead.key[1] = "valid"
      <3>1. "13" # "" /\ "valid" # ""
        OBVIOUS
      <3>2. PICK version \in Seq(STRING), key \in Seq(STRING) :
              version = wsHead.version /\ key = wsHead.key
        BY <2>6
      <3>3. HeadHeader(version) = "13" /\ HeadHeader(key) = "valid"
        BY <2>7, <3>2
      <3>4. version[1] = "13"
        BY <3>1, <3>3, FirstValue
      <3>5. key[1] = "valid"
        BY <3>1, <3>3, FirstValue
      <3> QED
        BY <3>2, <3>4, <3>5
    <2>9. "upgrade" \in UNION {wsHead.connection[i] : i \in DOMAIN wsHead.connection}
      BY <2>7
    <2>10. ASSUME config.check
           PROVE  /\ \E o \in AllowedOrigins : wsHead.origin = <<o>>
                  /\ wsOpened[2] \in {wsHead.origin[1], ""}
      <3>1. CtxHeader(wsHead.origin) \in AllowedOrigins /\ CtxHeader(wsHead.origin) # ""
        BY <2>5, <2>10, HandshakeAssumption
      <3>2. Len(wsHead.origin) = 1 /\ Head(wsHead.origin) \in AllowedOrigins
        BY <3>1 DEF CtxHeader
      <3>3. wsHead.origin = <<wsHead.origin[1]>> /\ Head(wsHead.origin) = wsHead.origin[1]
            /\ wsHead.origin # <<>>
        BY <2>6, <3>2
      <3>4. wsOpened[2] = HandlerOrigin(wsHead)
        BY <2>1
      <3>5. HandlerOrigin(wsHead) \in {wsHead.origin[1], ""}
        BY <3>3 DEF HandlerOrigin, HeadHeader
      <3> QED
        BY <3>2, <3>3, <3>4, <3>5
    <2>11. ASSUME config.given[1] = "pattern", NEW i \in DOMAIN config.given[2].segs,
                  config.given[2].segs[i][1] = "param"
           PROVE  <<config.given[2].segs[i][2], wsHead.path.segs[i]>>
                    \in {wsOpened[1][j] : j \in DOMAIN wsOpened[1]}
      <3>1. PICK pat \in WsPatterns : config.given = <<"pattern", pat>>
                                      /\ config.pattern = <<pat>>
        <4>1. config.given # <<"path", config.path>>
          BY <2>11
        <4> QED
          BY <2>4, <4>1, Zenon DEF ConfigSound
      <3>2. pat \in PatternType /\ config.given[2] = pat /\ config.pattern[1] = pat
            /\ config.pattern # <<>>
        <4>1. pat \in PatternType
          BY <3>1, HandshakeTypes
        <4> QED
          BY ONLY <3>1, <4>1
      <3>3. ~IsExact(pat)
        BY <2>11, <3>2 DEF IsExact
      <3>4. WsMatches(pat, wsHead.path)
        BY <2>3, <3>2 DEF UpgradeMatches, MatchConfigPath
      <3>5. wsOpened[1] = WsExtract(pat, wsHead.path)
        BY <2>1, <3>2, <3>3 DEF ConfigParams
      <3>6. \E j \in DOMAIN WsExtract(pat, wsHead.path) :
              WsExtract(pat, wsHead.path)[j] = <<pat.segs[i][2], wsHead.path.segs[i]>>
        BY <2>6, <2>11, <3>2, <3>3, <3>4, ParamsComplete
      <3> QED
        BY <3>2, <3>5, <3>6
    <2> QED
      BY <2>1, <2>7, <2>8, <2>9, <2>10, <2>11
  <1>2. wsPc = "session" => wsOpened # <<>>
    BY DEF AnswerInv
  <1>3. ASSUME wsOut \notin {0, 101} PROVE wsOut \in 300..599 /\ ~Bodyless(wsOut)
    <2>1. wsOut \in Decisions(wsHead, config) /\ wsPc \in WsArrived
      BY <1>3 DEF AnswerInv, WsArrived
    <2>2. wsHead \in WsHeads
      BY <2>1 DEF RoutedInv
    <2> QED
      BY <1>3, <2>1, <2>2, DecisionsAre
  <1> QED
    BY <1>1, <1>2, <1>3 DEF OpenedIsEntitled

-----------------------------------------------------------------------------
(* The handshake: the steps.                                               *)

\* DefaultConfig is sound: its path is the one it starts with.
LEMMA DefaultSound == ConfigSound(DefaultConfig)
  <1>1. [slash |-> TRUE, segs |-> <<"ws">>] \in PathType
    <2>1. <<"ws">> \in Seq(Texts)
      BY DEF Texts
    <2> QED
      BY <2>1 DEF PathType
  <1>2. PICK path \in PathType : path = [slash |-> TRUE, segs |-> <<"ws">>]
    BY <1>1
  <1>3. DefaultConfig = [path |-> path, pattern |-> <<>>, check |-> FALSE,
                         given |-> <<"path", path>>]
    BY <1>2 DEF DefaultConfig
  <1> QED
    BY <1>3 DEF ConfigSound, ConfigType

\* Before anything is registered the invariant holds.
LEMMA InitUpgrade == WsInit => UpgradeInv
  <1> SUFFICES ASSUME WsInit PROVE UpgradeInv
    OBVIOUS
  <1>1. WsTypeOK
    <2>1. Len(<<>>) = 0 /\ 0 \in 0..MaxSettings /\ 0 <= MaxConfigs /\ 0 \in 0..0
      BY HandshakeBounds
    <2>2. /\ wsSettings \in 0..MaxSettings /\ Len(wsConfigs) <= MaxConfigs
          /\ wsChosen \in 0..Len(wsConfigs)
      BY <2>1 DEF WsInit
    <2>3. /\ wsPc = "building" /\ wsCancel \in BOOLEAN
          /\ wsOut \in {0, 101} \cup 300..599 /\ wsWire = "none"
      BY DEF WsInit
    <2> QED
      BY <2>2, <2>3 DEF WsTypeOK
  <1>2. ConfigsInv
    BY DefaultSound DEF WsInit, ConfigsInv
  <1>3. RoutedInv /\ AnswerInv
    BY DEF WsInit, RoutedInv, AnswerInv, WsArrived
  <1> QED
    BY <1>1, <1>2, <1>3 DEF UpgradeInv

\* A setter's result stays sound.
LEMMA SetterSound ==
  ASSUME ConfigSound(wsBuild)
  PROVE  /\ \A path \in PathType :
              ConfigSound([wsBuild EXCEPT !.path = path, !.pattern = <<>>,
                                          !.given = <<"path", path>>])
         /\ \A pat \in WsPatterns : WsParseError(pat) = "" =>
              ConfigSound([wsBuild EXCEPT !.pattern = <<pat>>,
                                          !.given = <<"pattern", pat>>])
         /\ \A check \in BOOLEAN : ConfigSound([wsBuild EXCEPT !.check = check])
  <1>1. wsBuild \in ConfigType
    BY DEF ConfigSound
  <1>2. ASSUME NEW path \in PathType
        PROVE  ConfigSound([wsBuild EXCEPT !.path = path, !.pattern = <<>>,
                                           !.given = <<"path", path>>])
    <2>1. PICK c : c = [wsBuild EXCEPT !.path = path, !.pattern = <<>>,
                                       !.given = <<"path", path>>]
      OBVIOUS
    <2>2. /\ c \in ConfigType
          /\ c.given = <<"path", c.path>> /\ c.pattern = <<>>
      BY <1>1, <2>1 DEF ConfigType
    <2> QED
      BY <2>1, <2>2 DEF ConfigSound
  <1>3. ASSUME NEW pat \in WsPatterns, WsParseError(pat) = ""
        PROVE  ConfigSound([wsBuild EXCEPT !.pattern = <<pat>>,
                                           !.given = <<"pattern", pat>>])
    <2>1. PICK c : c = [wsBuild EXCEPT !.pattern = <<pat>>, !.given = <<"pattern", pat>>]
      OBVIOUS
    <2>2. /\ c \in ConfigType
          /\ c.given = <<"pattern", pat>> /\ c.pattern = <<pat>>
      BY <1>1, <2>1 DEF ConfigType
    <2> QED
      BY <1>3, <2>1, <2>2 DEF ConfigSound
  <1>4. ASSUME NEW check \in BOOLEAN
        PROVE  ConfigSound([wsBuild EXCEPT !.check = check])
    <2>1. PICK c : c = [wsBuild EXCEPT !.check = check]
      OBVIOUS
    <2>2. /\ c \in ConfigType /\ c.given = wsBuild.given
          /\ c.pattern = wsBuild.pattern /\ c.path = wsBuild.path
      BY <1>1, <2>1 DEF ConfigType
    <2> QED
      BY <2>1, <2>2 DEF ConfigSound
  <1> QED
    BY <1>2, <1>3, <1>4

\* A step before the request arrives: only the configurations change.
LEMMA BuildingStep ==
  ASSUME UpgradeInv, wsPc = "building", wsPc' \in {"building", "failed"},
         ConfigsInv', wsSettings' \in 0..MaxSettings, Len(wsConfigs') <= MaxConfigs,
         Len(wsConfigs') \in Nat, Len(wsConfigs) <= Len(wsConfigs'),
         UNCHANGED <<wsHead, wsChosen, wsCancel, wsOut, wsWire, wsOpened>>
  PROVE  UpgradeInv'
  <1>1. WsTypeOK'
    <2>1. Len(wsConfigs) \in Nat /\ wsChosen \in 0..Len(wsConfigs)
      BY DEF UpgradeInv, WsTypeOK, ConfigsInv
    <2>2. wsChosen' \in 0..Len(wsConfigs')
      BY <2>1
    <2>3. WsTypeOK
      BY DEF UpgradeInv
    <2> QED
      BY <2>2, <2>3 DEF WsTypeOK
  <1>2. RoutedInv'
    BY DEF RoutedInv, WsArrived
  <1>3. AnswerInv'
    BY DEF UpgradeInv, AnswerInv
  <1> QED
    BY <1>1, <1>2, <1>3 DEF UpgradeInv

\* The setters.
LEMMA SettingStep ==
  ASSUME UpgradeInv, NEW config, ConfigSound(config), Setting(config)
  PROVE  UpgradeInv'
  <1>1. wsSettings' \in 0..MaxSettings
    <2>1. wsSettings \in 0..MaxSettings /\ wsSettings < MaxSettings
          /\ wsSettings' = wsSettings + 1
      BY DEF UpgradeInv, WsTypeOK, Setting
    <2> QED
      BY <2>1, HandshakeBounds
  <1>2. ConfigsInv'
    BY DEF UpgradeInv, ConfigsInv, Setting
  <1>3. /\ wsPc = "building" /\ wsPc' = wsPc /\ wsConfigs' = wsConfigs
        /\ UNCHANGED <<wsHead, wsChosen, wsCancel, wsOut, wsWire, wsOpened>>
    BY DEF Setting
  <1>4. Len(wsConfigs) \in Nat /\ Len(wsConfigs) <= MaxConfigs
    BY DEF UpgradeInv, WsTypeOK, ConfigsInv
  <1>5. Len(wsConfigs') \in Nat /\ Len(wsConfigs') <= MaxConfigs
        /\ Len(wsConfigs) <= Len(wsConfigs')
    BY <1>3, <1>4
  <1> QED
    BY <1>1, <1>2, <1>3, <1>5, BuildingStep

\* with_path_pattern.
LEMMA PatternStep ==
  ASSUME UpgradeInv, NEW pat \in WsPatterns, WithPathPattern(pat)
  PROVE  UpgradeInv'
  <1>1. CASE WsParseError(pat) = ""
    <2>1. Setting([wsBuild EXCEPT !.pattern = <<pat>>, !.given = <<"pattern", pat>>])
      BY <1>1 DEF WithPathPattern
    <2>2. ConfigSound([wsBuild EXCEPT !.pattern = <<pat>>, !.given = <<"pattern", pat>>])
      BY <1>1, SetterSound DEF UpgradeInv, ConfigsInv
    <2> QED
      BY <2>1, <2>2, SettingStep
  <1>2. CASE WsParseError(pat) # ""
    <2>1. /\ wsPc = "building" /\ wsPc' = "failed" /\ wsBuild' = DefaultConfig
          /\ wsSettings' = 0 /\ wsConfigs' = wsConfigs
          /\ UNCHANGED <<wsHead, wsChosen, wsCancel, wsOut, wsWire, wsOpened>>
      BY <1>2 DEF WithPathPattern
    <2>2. ConfigsInv'
      BY <2>1, DefaultSound DEF UpgradeInv, ConfigsInv
    <2>3. wsSettings' \in 0..MaxSettings
      BY <2>1, HandshakeBounds
    <2>4. Len(wsConfigs) \in Nat /\ Len(wsConfigs) <= MaxConfigs
      BY DEF UpgradeInv, WsTypeOK, ConfigsInv
    <2>5. Len(wsConfigs') \in Nat /\ Len(wsConfigs') <= MaxConfigs
          /\ Len(wsConfigs) <= Len(wsConfigs')
      BY <2>1, <2>4
    <2> QED
      BY <2>1, <2>2, <2>3, <2>5, BuildingStep
  <1> QED
    BY <1>1, <1>2

\* Server::websocket.
LEMMA RegisterConfigStep ==
  ASSUME UpgradeInv, RegisterConfig
  PROVE  UpgradeInv'
  <1>1. /\ wsPc = "building" /\ Len(wsConfigs) < MaxConfigs /\ wsPc' = wsPc
        /\ wsConfigs' = Append(wsConfigs, wsBuild)
        /\ wsBuild' = DefaultConfig /\ wsSettings' = 0
        /\ UNCHANGED <<wsHead, wsChosen, wsCancel, wsOut, wsWire, wsOpened>>
    BY DEF RegisterConfig
  <1>2. /\ wsConfigs \in Seq(ConfigType) /\ wsBuild \in ConfigType
        /\ \A i \in 1..Len(wsConfigs) : ConfigSound(wsConfigs[i])
        /\ ConfigSound(wsBuild)
    BY DEF UpgradeInv, ConfigsInv, ConfigSound
  <1>3. PICK n \in Nat : n = Len(wsConfigs)
    BY <1>2
  <1>4. /\ wsConfigs' \in Seq(ConfigType) /\ Len(wsConfigs') = n + 1
        /\ wsConfigs'[n + 1] = wsBuild
        /\ \A i \in 1..n : wsConfigs'[i] = wsConfigs[i]
    <2>1. wsConfigs \in Seq(ConfigType) /\ wsBuild \in ConfigType
      BY ONLY <1>2
    <2>2. wsConfigs' = Append(wsConfigs, wsBuild)
      BY ONLY <1>1
    <2> QED
      BY ONLY <1>3, <2>1, <2>2
  <1>5. ASSUME NEW i \in 1..Len(wsConfigs') PROVE ConfigSound(wsConfigs'[i])
    <2>1. i = n + 1 \/ i \in 1..n
      BY <1>3, <1>4
    <2> QED
      BY <1>2, <1>3, <1>4, <2>1
  <1>6. ConfigsInv'
    BY <1>1, <1>4, <1>5, DefaultSound DEF ConfigsInv
  <1>7. wsSettings' \in 0..MaxSettings
    BY <1>1, HandshakeBounds
  <1>8. Len(wsConfigs') \in Nat /\ Len(wsConfigs') <= MaxConfigs
        /\ Len(wsConfigs) <= Len(wsConfigs')
    BY <1>1, <1>3, <1>4, HandshakeBounds
  <1> QED
    BY <1>1, <1>6, <1>7, <1>8, BuildingStep

\* The request arrives: the first configuration that matches takes it.
LEMMA ArrivesStep ==
  ASSUME UpgradeInv, NEW h \in WsHeads, RequestArrives(h)
  PROVE  UpgradeInv'
  <1>1. /\ wsPc = "building" /\ wsHead' = h /\ wsBuild' = DefaultConfig
        /\ wsSettings' = 0 /\ wsConfigs' = wsConfigs
        /\ wsChosen' = IF Takers(h) = {} THEN 0
                       ELSE CHOOSE i \in Takers(h) : \A j \in Takers(h) : i <= j
        /\ wsPc' = IF Takers(h) = {} THEN "passed" ELSE "spawned"
        /\ UNCHANGED <<wsCancel, wsOut, wsWire, wsOpened>>
    BY DEF RequestArrives
  <1>2. Len(wsConfigs) \in Nat /\ DOMAIN wsConfigs = 1..Len(wsConfigs)
    BY DEF UpgradeInv, ConfigsInv
  <1>3. Takers(h) \subseteq 1..Len(wsConfigs)
    BY <1>2 DEF Takers
  <1>4. Takers(h) # {} => /\ wsChosen' \in Takers(h)
                          /\ \A i \in Takers(h) : wsChosen' <= i
    <2>1. Takers(h) \subseteq Nat
      BY <1>2, <1>3
    <2>2. Takers(h) # {} => \E i \in Takers(h) : \A j \in Takers(h) : i <= j
      BY <2>1, LeastNumber
    <2> QED
      BY <1>1, <2>2
  <1>5. Takers(h)' = Takers(h)
    BY <1>1 DEF Takers
  <1>6. wsOut = 0 /\ wsOpened = <<>>
    BY <1>1 DEF UpgradeInv, AnswerInv
  <1>7. WsTypeOK'
    <2>1. wsChosen' \in 0..Len(wsConfigs')
      BY <1>1, <1>2, <1>3, <1>4
    <2>2. wsSettings' \in 0..MaxSettings
      BY <1>1, HandshakeBounds
    <2> QED
      BY <1>1, <2>1, <2>2 DEF UpgradeInv, WsTypeOK
  <1>8. ConfigsInv'
    BY <1>1, DefaultSound DEF UpgradeInv, ConfigsInv
  <1>9. RoutedInv'
    <2>1. CASE Takers(h) = {}
      BY <1>1, <1>5, <2>1 DEF RoutedInv, Takers
    <2>2. CASE Takers(h) # {}
      BY <1>1, <1>4, <1>5, <2>2 DEF RoutedInv, Takers
    <2> QED
      BY <2>1, <2>2
  <1>10. AnswerInv'
    BY <1>1, <1>6 DEF AnswerInv
  <1> QED
    BY <1>7, <1>8, <1>9, <1>10 DEF UpgradeInv

\* What does not touch the configurations, the request or the choice leaves
\* the first three parts of the invariant alone.
LEMMA TaskKeeps ==
  ASSUME UpgradeInv, wsPc \in {"spawned", "writing"},
         wsPc' \in {"spawned", "writing", "session", "ended"}, wsCancel' \in BOOLEAN,
         wsOut' \in {0, 101} \cup 300..599, wsWire' \in {"none", "part", "whole"},
         UNCHANGED <<wsBuild, wsSettings, wsConfigs, wsHead, wsChosen>>
  PROVE  WsTypeOK' /\ ConfigsInv' /\ RoutedInv'
  <1>1. WsTypeOK'
    BY DEF UpgradeInv, WsTypeOK
  <1>2. ConfigsInv'
    BY DEF UpgradeInv, ConfigsInv
  <1>3. Takers(wsHead)' = Takers(wsHead)
    BY DEF Takers
  <1>4. RoutedInv'
    BY <1>3 DEF UpgradeInv, RoutedInv, WsArrived
  <1> QED
    BY <1>1, <1>2, <1>4

\* The first poll decides on an answer of Decisions, or on none.
LEMMA DecideStep ==
  ASSUME UpgradeInv, Decide
  PROVE  UpgradeInv'
  <1>1. /\ wsPc = "spawned"
        /\ UNCHANGED <<wsBuild, wsSettings, wsConfigs, wsHead, wsChosen, wsCancel,
                       wsWire, wsOpened>>
    BY DEF Decide
  <1>2. wsOut = 0 /\ wsOpened = <<>> /\ wsHead \in WsHeads
    BY <1>1 DEF UpgradeInv, AnswerInv, RoutedInv, WsArrived
  <1>3. wsCancel' \in BOOLEAN /\ wsWire' \in {"none", "part", "whole"}
    BY <1>1 DEF UpgradeInv, WsTypeOK
  <1>4. CASE wsCancel
    <2>1. wsPc' = "ended" /\ wsOut' = wsOut
      BY <1>4 DEF Decide
    <2>2. WsTypeOK' /\ ConfigsInv' /\ RoutedInv'
      BY <1>1, <1>2, <1>3, <2>1, TaskKeeps
    <2>3. AnswerInv'
      BY <1>1, <1>2, <2>1 DEF AnswerInv
    <2> QED
      BY <2>2, <2>3 DEF UpgradeInv
  <1>5. CASE ~wsCancel
    <2>1. wsPc' = "writing" /\ wsOut' \in Decisions(wsHead, wsConfigs[wsChosen])
      BY <1>5 DEF Decide
    <2>2. wsOut' \in {101} \cup 300..599
      BY ZenonT(60), <1>2, <2>1, DecisionsAre
    <2>3. wsOut' \in {0, 101} \cup 300..599 /\ wsOut' # 0
      BY <2>2
    <2>4. WsTypeOK' /\ ConfigsInv' /\ RoutedInv'
      BY <1>1, <1>3, <2>1, <2>3, TaskKeeps
    <2>5. Decisions(wsHead, wsConfigs[wsChosen])' = Decisions(wsHead, wsConfigs[wsChosen])
      BY <1>1
    <2>6. AnswerInv'
      BY <1>1, <1>2, <2>1, <2>3, <2>5 DEF AnswerInv
    <2> QED
      BY <2>4, <2>6 DEF UpgradeInv
  <1> QED
    BY <1>4, <1>5

\* A poll of the write opens the session only with the whole 101.
LEMMA WritePollStep ==
  ASSUME UpgradeInv, WritePoll
  PROVE  UpgradeInv'
  <1>1. /\ wsPc = "writing"
        /\ UNCHANGED <<wsBuild, wsSettings, wsConfigs, wsHead, wsChosen, wsCancel, wsOut>>
    BY DEF WritePoll
  <1>2. /\ wsOpened = <<>> /\ wsOut # 0
        /\ wsOut \in Decisions(wsHead, wsConfigs[wsChosen])
    BY <1>1 DEF UpgradeInv, AnswerInv
  <1>3. wsCancel' \in BOOLEAN /\ wsOut' \in {0, 101} \cup 300..599
        /\ wsWire \in {"none", "part", "whole"}
    BY <1>1 DEF UpgradeInv, WsTypeOK
  <1>4. wsWire' \in {"none", "part", "whole"}
        /\ wsPc' \in {"writing", "session", "ended"}
    BY <1>1, <1>3 DEF WritePoll
  <1>5. WsTypeOK' /\ ConfigsInv' /\ RoutedInv'
    BY <1>1, <1>3, <1>4, TaskKeeps
  <1>6. \/ wsPc' \in {"writing", "ended"} /\ wsOpened' = <<>>
        \/ /\ wsPc' = "session" /\ wsOut = 101 /\ wsWire' = "whole"
           /\ wsOpened' = <<ConfigParams(wsHead, wsConfigs[wsChosen]),
                            HandlerOrigin(wsHead)>>
    BY <1>1, <1>2 DEF WritePoll
  <1>7. /\ Decisions(wsHead, wsConfigs[wsChosen])' = Decisions(wsHead, wsConfigs[wsChosen])
        /\ ConfigParams(wsHead, wsConfigs[wsChosen])'
             = ConfigParams(wsHead, wsConfigs[wsChosen])
        /\ HandlerOrigin(wsHead)' = HandlerOrigin(wsHead)
    BY <1>1
  <1>8. AnswerInv'
    BY <1>1, <1>2, <1>6, <1>7 DEF AnswerInv
  <1> QED
    BY <1>5, <1>8 DEF UpgradeInv

\* The cancellation changes nothing of what was decided.
LEMMA CancelStep ==
  ASSUME UpgradeInv, CancelUpgrade
  PROVE  UpgradeInv'
  <1>1. /\ wsPc \in {"spawned", "writing"} /\ wsCancel' = TRUE
        /\ UNCHANGED <<wsBuild, wsSettings, wsConfigs, wsPc, wsHead, wsChosen, wsOut,
                       wsWire, wsOpened>>
    BY DEF CancelUpgrade
  <1>2. wsOut' \in {0, 101} \cup 300..599 /\ wsWire' \in {"none", "part", "whole"}
    BY <1>1 DEF UpgradeInv, WsTypeOK
  <1>3. WsTypeOK' /\ ConfigsInv' /\ RoutedInv'
    BY <1>1, <1>2, TaskKeeps
  <1>4. AnswerInv'
    BY <1>1 DEF UpgradeInv, AnswerInv
  <1> QED
    BY <1>3, <1>4 DEF UpgradeInv

\* Every step of the handshake keeps the invariant.
LEMMA UpgradeStep == UpgradeInv /\ [WsNext]_wsVars => UpgradeInv'
  <1> SUFFICES ASSUME UpgradeInv, [WsNext]_wsVars PROVE UpgradeInv'
    OBVIOUS
  <1>1. CASE UNCHANGED wsVars
    <2>1. WsTypeOK'
      BY <1>1 DEF wsVars, UpgradeInv, WsTypeOK
    <2>2. ConfigsInv'
      BY <1>1 DEF wsVars, UpgradeInv, ConfigsInv
    <2>3. RoutedInv'
      BY <1>1 DEF wsVars, UpgradeInv, RoutedInv, Takers
    <2>4. AnswerInv'
      BY <1>1 DEF wsVars, UpgradeInv, AnswerInv
    <2> QED
      BY <2>1, <2>2, <2>3, <2>4 DEF UpgradeInv
  <1>2. ASSUME NEW path \in WsPaths, WithPath(path) PROVE UpgradeInv'
    <2>1. path \in PathType
      BY HandshakeTypes
    <2>2. ConfigSound([wsBuild EXCEPT !.path = path, !.pattern = <<>>,
                                      !.given = <<"path", path>>])
      BY <2>1, SetterSound DEF UpgradeInv, ConfigsInv
    <2> QED
      BY <1>2, <2>2, SettingStep DEF WithPath
  <1>3. ASSUME NEW pat \in WsPatterns, WithPathPattern(pat) PROVE UpgradeInv'
    BY <1>3, PatternStep
  <1>4. CASE WithHandshakeCheck
    <2>1. ConfigSound([wsBuild EXCEPT !.check = TRUE])
      BY SetterSound DEF UpgradeInv, ConfigsInv
    <2> QED
      BY <1>4, <2>1, SettingStep DEF WithHandshakeCheck
  <1>5. CASE WithoutHandshakeCheck
    <2>1. ConfigSound([wsBuild EXCEPT !.check = FALSE])
      BY SetterSound DEF UpgradeInv, ConfigsInv
    <2> QED
      BY <1>5, <2>1, SettingStep DEF WithoutHandshakeCheck
  <1>6. CASE RegisterConfig
    BY <1>6, RegisterConfigStep
  <1>7. ASSUME NEW h \in WsHeads, RequestArrives(h) PROVE UpgradeInv'
    BY <1>7, ArrivesStep
  <1>8. CASE WsTask
    BY <1>8, DecideStep, WritePollStep DEF WsTask
  <1>9. CASE CancelUpgrade
    BY <1>9, CancelStep
  <1> QED
    BY <1>1, <1>2, <1>3, <1>4, <1>5, <1>6, <1>7, <1>8, <1>9 DEF WsNext

\* For any configurations and any request: the connection is taken by the
\* first configuration whose path, as it was set last, admits the request,
\* and on_open is called only on a handshake that entitles to it, with the
\* parameters and the origin the hook was shown (UpgradeEntitled).
THEOREM UpgradeIsEntitled == WsSpec => []UpgradeEntitled
  <1>1. WsInit => UpgradeInv
    BY InitUpgrade
  <1>2. UpgradeInv /\ [WsNext]_wsVars => UpgradeInv'
    BY UpgradeStep
  <1>3. UpgradeInv => UpgradeEntitled
    BY RoutedHolds, EntitledHolds DEF UpgradeInv, UpgradeEntitled
  <1> QED
    BY <1>1, <1>2, <1>3, PTL DEF WsSpec

\* Once the listener's generation is cancelled, an upgrade writes nothing and
\* opens nothing any more (write_racing_cancel, race_cancel): the safety part
\* of UpgradeStops.
THEOREM CancelledIsQuiet == WsSpec => [][CancelledQuiet]_wsVars
  <1>1. [WsNext]_wsVars => [CancelledQuiet]_wsVars
    <2> SUFFICES ASSUME [WsNext]_wsVars PROVE [CancelledQuiet]_wsVars
      OBVIOUS
    <2> USE DEF CancelledQuiet
    <2>1. CASE UNCHANGED wsVars
      BY <2>1 DEF wsVars
    <2>2. CASE \E path \in WsPaths : WithPath(path)
      BY <2>2 DEF WithPath, Setting
    <2>3. CASE \E pat \in WsPatterns : WithPathPattern(pat)
      BY <2>3 DEF WithPathPattern, Setting
    <2>4. CASE WithHandshakeCheck \/ WithoutHandshakeCheck \/ RegisterConfig
      BY <2>4
         DEF WithHandshakeCheck, WithoutHandshakeCheck, RegisterConfig, Setting
    <2>5. CASE \E h \in WsHeads : RequestArrives(h)
      BY <2>5 DEF RequestArrives
    <2>6. CASE WsTask
      BY <2>6 DEF WsTask, Decide, WritePoll
    <2>7. CASE CancelUpgrade
      BY <2>7 DEF CancelUpgrade
    <2> QED
      BY <2>1, <2>2, <2>3, <2>4, <2>5, <2>6, <2>7 DEF WsNext
  <1> QED
    BY <1>1, PTL DEF WsSpec
=============================================================================
