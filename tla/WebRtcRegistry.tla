--------------------------- MODULE WebRtcRegistry ---------------------------
(***************************************************************************)
(* The WebRTC plugin (crates/plugin-webrtc): the registry of peer          *)
(* connections with its limit (config.rs), the signaling of one offer with *)
(* its SignalingGuard and detached build task (handler.rs), and the drains *)
(* of a rebind and of the shutdown (drain.rs). A step is what happens      *)
(* under one lock or between two awaits; the signaling deadline and the    *)
(* abort of the connection task may come at every await.                   *)
(***************************************************************************)
EXTENDS Integers, FiniteSets

CONSTANTS
  Offers,            \* offers; each takes its own slot id from next_slot_id
  MaxPeerConnections \* WebRtcConfig::max_peer_connections

ASSUME RegistryAssumption ==
  /\ IsFiniteSet(Offers)
  /\ MaxPeerConnections \in Nat

VARIABLES
  slot,     \* the registry: RegistrySlot of each offer's id, "none" if absent
  handler,  \* complete_signaling and the drop of its guard
  armed,    \* SignalingGuard::armed
  state,    \* the PcState that guard and build task share
  build,    \* the task run_build
  result,   \* the oneshot channel from run_build
  peer,     \* the PeerConnection
  answer,   \* the HTTP answer
  terminal, \* terminal_draining
  drain     \* close_active_peers / drain_for_shutdown

offerVars == <<handler, armed, answer>>
buildVars == <<state, build, result>>
drainVars == <<terminal, drain>>
vars == <<slot, offerVars, buildVars, peer, drainVars>>

HandlerStates == {"idle", "parse", "await", "signal", "closing", "finish",
                  "activating", "release", "done"}
BuildStates == {"none", "running", "held", "abandoned", "closing", "failed",
                "released", "done"}

Init ==
  /\ slot = [o \in Offers |-> "none"]
  /\ handler = [o \in Offers |-> "idle"]
  /\ armed = [o \in Offers |-> FALSE]
  /\ state = [o \in Offers |-> "empty"]
  /\ build = [o \in Offers |-> "none"]
  /\ result = [o \in Offers |-> "none"]
  /\ peer = [o \in Offers |-> "none"]
  /\ answer = [o \in Offers |-> "none"]
  /\ terminal = FALSE
  /\ drain = "idle"

-----------------------------------------------------------------------------
(* The registry. Every operation runs under its lock.                      *)

Slots == {o \in Offers : slot[o] # "none"}

\* peer after close() was called, or spawned, on the peers of S.
Closing(S) ==
  [o \in Offers |->
     IF o \in S /\ peer[o] = "open" THEN "closing" ELSE peer[o]]

\* release_slot: an Active peer is closed, a missing id is ignored.
ReleaseSlot(o) ==
  /\ slot' = [slot EXCEPT ![o] = "none"]
  /\ peer' = IF slot[o] = "active" THEN Closing({o}) ELSE peer

\* Mutation of ActivateSlot: a slot that is gone is put back.
ActivateSlotAnew(o) ==
  IF ~terminal
  THEN slot' = [slot EXCEPT ![o] = "active"] /\ UNCHANGED peer
  ELSE slot' = [slot EXCEPT ![o] = "none"] /\ peer' = Closing({o})

\* Mutation of ActivateSlot: the terminal drain is not looked at.
ActivateSlotDeaf(o) ==
  IF slot[o] # "none"
  THEN slot' = [slot EXCEPT ![o] = "active"] /\ UNCHANGED peer
  ELSE UNCHANGED slot /\ peer' = Closing({o})

\* Mutation of ActivateSlot: a peer that is refused is dropped, not closed.
ActivateSlotDrops(o) ==
  /\ slot' = [slot EXCEPT ![o] =
                IF ~terminal /\ @ # "none" THEN "active" ELSE "none"]
  /\ UNCHANGED peer

\* activate_slot: refused, and the peer closed, in a terminal drain and when
\* the slot was released meanwhile.
ActivateSlot(o) ==
  IF ~terminal /\ slot[o] # "none"
  THEN slot' = [slot EXCEPT ![o] = "active"] /\ UNCHANGED peer
  ELSE slot' = [slot EXCEPT ![o] = "none"] /\ peer' = Closing({o})

-----------------------------------------------------------------------------
(* try_handle_rtc_offer and complete_signaling.                            *)

\* An offer that passed the checks on its length: 503 or a slot and a guard.
Offer(o) ==
  /\ handler[o] = "idle"
  /\ IF Cardinality(Slots) >= MaxPeerConnections
     THEN /\ handler' = [handler EXCEPT ![o] = "done"]
          /\ answer' = [answer EXCEPT ![o] = "error"]
          /\ UNCHANGED <<slot, armed>>
     ELSE /\ slot' = [slot EXCEPT ![o] = "reserved"]
          /\ handler' = [handler EXCEPT ![o] = "parse"]
          /\ armed' = [armed EXCEPT ![o] = TRUE]
          /\ UNCHANGED answer
  /\ UNCHANGED <<buildVars, peer, drainVars>>

BadOffer(o) ==
  /\ handler[o] = "parse"
  /\ handler' = [handler EXCEPT ![o] = "closing"]
  /\ UNCHANGED <<slot, armed, answer, buildVars, peer, drainVars>>

\* build_owned spawns the build and waits for its result.
StartBuild(o) ==
  /\ handler[o] = "parse"
  /\ handler' = [handler EXCEPT ![o] = "await"]
  /\ state' = [state EXCEPT ![o] = "building"]
  /\ build' = [build EXCEPT ![o] = "running"]
  /\ UNCHANGED <<slot, armed, answer, result, peer, drainVars>>

Built(o) ==
  /\ handler[o] = "await"
  /\ result[o] # "none"
  /\ handler' = [handler EXCEPT ![o] =
       IF result[o] = "ok" /\ state[o] = "held" THEN "signal" ELSE "closing"]
  /\ UNCHANGED <<slot, armed, answer, buildVars, peer, drainVars>>

\* A description is refused, or the answer cannot be made.
SignalingFails(o) ==
  /\ handler[o] = "signal"
  /\ handler' = [handler EXCEPT ![o] = "closing"]
  /\ UNCHANGED <<slot, armed, answer, buildVars, peer, drainVars>>

\* SignalingGuard::finish: close the peer it holds and wait for that ...
FinishClose(o) ==
  /\ handler[o] = "closing"
  /\ peer' = IF state[o] = "held" THEN Closing({o}) ELSE peer
  /\ handler' = [handler EXCEPT ![o] = "finish"]
  /\ UNCHANGED <<slot, armed, answer, buildVars, drainVars>>

\* Mutation of Finish: the slot is kept.
FinishKeepsSlot(o) ==
  /\ handler[o] = "finish"
  /\ state[o] = "held" => peer[o] = "closed"
  /\ armed' = [armed EXCEPT ![o] = FALSE]
  /\ handler' = [handler EXCEPT ![o] = "done"]
  /\ answer' = [answer EXCEPT ![o] = "error"]
  /\ UNCHANGED <<slot, peer, buildVars, drainVars>>

\* ... then give the slot back and answer with an error.
Finish(o) ==
  /\ handler[o] = "finish"
  /\ state[o] = "held" => peer[o] = "closed"
  /\ ReleaseSlot(o)
  /\ armed' = [armed EXCEPT ![o] = FALSE]
  /\ handler' = [handler EXCEPT ![o] = "done"]
  /\ answer' = [answer EXCEPT ![o] = "error"]
  /\ UNCHANGED <<buildVars, drainVars>>

\* SignalingGuard::activate takes the peer out of the guard ...
TakePeer(o) ==
  /\ handler[o] = "signal"
  /\ state' = [state EXCEPT ![o] = "empty"]
  /\ armed' = [armed EXCEPT ![o] = FALSE]
  /\ handler' = [handler EXCEPT ![o] = "activating"]
  /\ UNCHANGED <<slot, answer, build, result, peer, drainVars>>

\* ... and registers it. The answer is 200 whether it was accepted or not.
Activate(o) ==
  /\ handler[o] = "activating"
  /\ ActivateSlot(o)
  /\ handler' = [handler EXCEPT ![o] = "done"]
  /\ answer' = [answer EXCEPT ![o] = "ok"]
  /\ UNCHANGED <<armed, buildVars, drainVars>>

\* Mutation of AtAwait: the deadline leaves out the build.
AtAwaitNotBuild(o) ==
  \/ handler[o] = "signal"
  \/ handler[o] = "finish" /\ state[o] = "held"

\* The points where complete_signaling waits with its guard armed.
AtAwait(o) ==
  \/ handler[o] \in {"await", "signal"}
  \/ handler[o] = "finish" /\ state[o] = "held"

\* Mutation of DropGuard: the slot of a running build goes with the guard.
DropGuardFreesBuild(o) ==
  /\ AtAwait(o)
  /\ state' = [state EXCEPT ![o] =
                 IF @ = "building" THEN "abandoned" ELSE "empty"]
  /\ handler' = [handler EXCEPT ![o] =
                   IF state[o] = "held" THEN "release" ELSE "done"]
  /\ slot' = [slot EXCEPT ![o] = IF state[o] = "held" THEN @ ELSE "none"]
  /\ answer' = [answer EXCEPT ![o] = "error"]
  /\ UNCHANGED <<armed, build, result, peer, drainVars>>

\* The deadline (504) or the abort of the task drops the guard: a running
\* build inherits slot and peer, else both are given up.
DropGuard(o) ==
  /\ AtAwait(o)
  /\ IF state[o] = "building"
     THEN /\ state' = [state EXCEPT ![o] = "abandoned"]
          /\ handler' = [handler EXCEPT ![o] = "done"]
     ELSE /\ state' = [state EXCEPT ![o] = "empty"]
          /\ handler' = [handler EXCEPT ![o] = "release"]
  /\ answer' = [answer EXCEPT ![o] = "error"]
  /\ UNCHANGED <<slot, armed, build, result, peer, drainVars>>

DropRelease(o) ==
  /\ handler[o] = "release"
  /\ slot' = [slot EXCEPT ![o] = "none"]
  /\ peer' = Closing({o})
  /\ handler' = [handler EXCEPT ![o] = "done"]
  /\ UNCHANGED <<armed, answer, buildVars, drainVars>>

-----------------------------------------------------------------------------
(* run_build, a task of its own. BuildFails is also the drop of            *)
(* BuildTaskCleanup when the build panics: it does the same.               *)

BuildOk(o) ==
  /\ build[o] = "running"
  /\ peer' = [peer EXCEPT ![o] = "open"]
  /\ IF state[o] = "building"
     THEN /\ state' = [state EXCEPT ![o] = "held"]
          /\ build' = [build EXCEPT ![o] = "held"]
     ELSE /\ build' = [build EXCEPT ![o] = "abandoned"]
          /\ UNCHANGED state
  /\ UNCHANGED <<slot, offerVars, result, drainVars>>

BuildSend(o) ==
  /\ build[o] = "held"
  /\ build' = [build EXCEPT ![o] = "done"]
  /\ result' = [result EXCEPT ![o] = "ok"]
  /\ UNCHANGED <<slot, offerVars, state, peer, drainVars>>

AbandonClose(o) ==
  /\ build[o] = "abandoned"
  /\ peer' = Closing({o})
  /\ build' = [build EXCEPT ![o] = "closing"]
  /\ UNCHANGED <<slot, offerVars, state, result, drainVars>>

AbandonRelease(o) ==
  /\ build[o] = "closing"
  /\ peer[o] = "closed"
  /\ ReleaseSlot(o)
  /\ build' = [build EXCEPT ![o] = "done"]
  /\ UNCHANGED <<offerVars, state, result, drainVars>>

BuildFails(o) ==
  /\ build[o] = "running"
  /\ state' = [state EXCEPT ![o] = IF @ = "building" THEN "empty" ELSE @]
  /\ build' = [build EXCEPT ![o] = "failed"]
  /\ UNCHANGED <<slot, offerVars, result, peer, drainVars>>

FailRelease(o) ==
  /\ build[o] = "failed"
  /\ ReleaseSlot(o)
  /\ build' = [build EXCEPT ![o] = "released"]
  /\ UNCHANGED <<offerVars, state, result, drainVars>>

FailSend(o) ==
  /\ build[o] = "released"
  /\ build' = [build EXCEPT ![o] = "done"]
  /\ result' = [result EXCEPT ![o] = "error"]
  /\ UNCHANGED <<slot, offerVars, state, peer, drainVars>>

-----------------------------------------------------------------------------
(* The peer connection, and its event on_connection_state_change.          *)

PeerFailed(o) ==
  /\ peer[o] = "open"
  /\ build[o] # "running"
  /\ slot[o] # "none"
  /\ ReleaseSlot(o)
  /\ UNCHANGED <<offerVars, buildVars, drainVars>>

CloseCompletes(o) ==
  /\ peer[o] = "closing"
  /\ peer' = [peer EXCEPT ![o] = "closed"]
  /\ UNCHANGED <<slot, offerVars, buildVars, drainVars>>

PeerClosed(o) ==
  /\ peer[o] = "closed"
  /\ slot[o] # "none"
  /\ ReleaseSlot(o)
  /\ UNCHANGED <<offerVars, buildVars, drainVars>>

-----------------------------------------------------------------------------
(* The drains. A rebind closes the peers there are; the shutdown forbids   *)
(* new ones first. Neither aborts a close() that outlasts its timeout.     *)

Active == {o \in Offers : slot[o] = "active"}

TakeActivePeers ==
  /\ slot' = [o \in Offers |-> IF o \in Active THEN "none" ELSE slot[o]]
  /\ peer' = Closing(Active)

CloseActivePeers ==
  /\ Active # {}
  /\ TakeActivePeers
  /\ UNCHANGED <<offerVars, buildVars, drainVars>>

\* Mutation of BeginTerminalDrain: the flag is not set.
BeginTerminalDrainSilent ==
  /\ drain = "idle"
  /\ drain' = "take"
  /\ UNCHANGED <<slot, offerVars, buildVars, peer, terminal>>

BeginTerminalDrain ==
  /\ drain = "idle"
  /\ terminal' = TRUE
  /\ drain' = "take"
  /\ UNCHANGED <<slot, offerVars, buildVars, peer>>

DrainTake ==
  /\ drain = "take"
  /\ TakeActivePeers
  /\ drain' = "taken"
  /\ UNCHANGED <<offerVars, buildVars, terminal>>

-----------------------------------------------------------------------------
Signaling(o) ==
  \/ BadOffer(o) \/ StartBuild(o) \/ Built(o) \/ SignalingFails(o)
  \/ FinishClose(o) \/ Finish(o) \/ TakePeer(o) \/ Activate(o)
  \/ DropRelease(o)

Build(o) ==
  \/ BuildOk(o) \/ BuildSend(o) \/ AbandonClose(o) \/ AbandonRelease(o)
  \/ BuildFails(o) \/ FailRelease(o) \/ FailSend(o)

Peer(o) == PeerFailed(o) \/ CloseCompletes(o) \/ PeerClosed(o)

Next ==
  \/ \E o \in Offers :
       Offer(o) \/ Signaling(o) \/ DropGuard(o) \/ Build(o) \/ Peer(o)
  \/ CloseActivePeers \/ BeginTerminalDrain \/ DrainTake

Spec == Init /\ [][Next]_vars

\* The tasks of the handlers run when they can and the signaling deadline
\* passes; so much can be relied on.
Deadlines == \A o \in Offers : WF_vars(Signaling(o)) /\ WF_vars(DropGuard(o))

\* The library ends a build and a close and reports a closed peer, and the
\* tasks that wait for that go on. No offer need come, no peer need fail, and
\* nothing need be drained.
LibraryAnswers ==
  /\ \A o \in Offers :
       WF_vars(Build(o)) /\ WF_vars(CloseCompletes(o)) /\ WF_vars(PeerClosed(o))
  /\ WF_vars(DrainTake)

-----------------------------------------------------------------------------
\* Types of the variables; no more slots than the limit.
TypeOK ==
  /\ slot \in [Offers -> {"none", "reserved", "active"}]
  /\ handler \in [Offers -> HandlerStates]
  /\ armed \in [Offers -> BOOLEAN]
  /\ state \in [Offers -> {"empty", "building", "abandoned", "held"}]
  /\ build \in [Offers -> BuildStates]
  /\ result \in [Offers -> {"none", "ok", "error"}]
  /\ peer \in [Offers -> {"none", "open", "closing", "closed"}]
  /\ answer \in [Offers -> {"none", "ok", "error"}]
  /\ terminal \in BOOLEAN
  /\ drain \in {"idle", "take", "taken"}
  /\ Cardinality(Slots) <= MaxPeerConnections

\* Somebody will close the peer of o: the armed guard that holds it, the
\* handler between taking it and registering it, a guard being dropped, the
\* build task it was abandoned to, or the registry.
Responsible(o) ==
  \/ state[o] = "held" /\ armed[o] /\ handler[o] # "done"
  \/ handler[o] \in {"activating", "release"}
  \/ build[o] = "abandoned"
  \/ slot[o] = "active"

\* A peer connection nobody closed yet is never without an owner that will
\* close it or register it: a deadline, an abort, a failed step, an early
\* connection event or a drain at any moment leaks no peer, which would keep
\* its driver task and UDP socket for good. (SignalingGuard, run_build,
\* activate_slot.)
NoOrphanPeer == \A o \in Offers : peer[o] = "open" => Responsible(o)

\* A build that still runs is counted against max_peer_connections, also when
\* its request is long gone: timed-out offers cannot pile up builds beyond the
\* limit. (Drop of SignalingGuard leaves the slot to run_build.)
BuildsHoldSlots ==
  \A o \in Offers : build[o] = "running" => slot[o] = "reserved"

\* Once the shutdown drain took the active peers no peer is registered any
\* more, though signaling goes on beside it and the flag is set without the
\* registry's lock. (activate_slot, drain_for_shutdown.)
NoneActiveAfterDrain == drain = "taken" => Active = {}

\* What the registry, the guards and the detached builds keep between them, at
\* any interruption: every peer has an owner, every build its slot, and the
\* shutdown drain leaves nothing behind it.
RegistrySound ==
  TypeOK /\ NoOrphanPeer /\ BuildsHoldSlots /\ NoneActiveAfterDrain

\* Every slot reserved for an offer is activated or given back, if the
\* library ends its builds and closes. (SignalingGuard, run_build.)
SlotsReturned ==
  LibraryAnswers => []<>(\A o \in Offers : slot[o] # "reserved")

\* After the shutdown drain every peer there is gets closed, those whose
\* signaling was under way included, if the library answers.
PeersCloseAfterShutdown ==
  LibraryAnswers =>
    []<>(terminal => \A o \in Offers : peer[o] \notin {"open", "closing"})

\* The registry does not fill up with what nobody will remove: slots come back
\* and the shutdown closes all peers.
RegistryEmpties == SlotsReturned /\ PeersCloseAfterShutdown

\* Every offer is answered, whatever the library does. (SIGNALING_TIMEOUT.)
OfferAnswered ==
  []<>(\A o \in Offers : handler[o] # "idle" => answer[o] # "none")
=============================================================================
