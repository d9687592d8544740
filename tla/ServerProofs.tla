---------------------------- MODULE ServerProofs ----------------------------
(***************************************************************************)
(* Theorems about Server, for any number of connections, permits and calls *)
(* of rebind: permits are conserved, the server implements Admission, what *)
(* a rebind answers is true, and shutdown goes in order.                   *)
(***************************************************************************)
EXTENDS Server, FiniteSetTheorems, TLAPS

\* Outside the accept loop no accept future exists, and whenever run_until
\* works on a rebind it has a command in hand.
LoopShape ==
  /\ Stopped \/ pc \in {"rb_flag", "rb_backlog", "rb_swap"} => accept = "acquire"
  /\ pc \in {"rb_flag", "rb_backlog", "rb_swap"} => cmd \in Callers

\* The inductive invariant of the semaphore: the types, the shape of the loop
\* and the conservation of permits need each other.
PermitInv == TypeOK /\ LoopShape /\ PermitsConserved

-----------------------------------------------------------------------------
(* How a step changes the set of permit holders.                           *)

\* The holders are finitely many: Cardinality means what it says.
LEMMA HoldersFinite == IsFiniteSet(Holders) /\ Cardinality(Holders) \in Nat
  <1>1. IsFiniteSet(Conns)
    BY ServerAssumption
  <1>2. Holders \subseteq Conns
    BY DEF Holders
  <1> QED
    BY <1>1, <1>2, FS_Subset, FS_CardinalityType

\* A connection that takes a permit adds one holder.
LEMMA HolderAdded ==
  ASSUME ConnTypeOK, NEW c \in Conns, NEW s \in HoldingStates,
         c \notin Holders, conn' = [conn EXCEPT ![c] = s]
  PROVE  Cardinality(Holders') = Cardinality(Holders) + 1
  <1>1. Holders' = Holders \cup {c}
    BY DEF Holders, ConnTypeOK
  <1> QED
    BY <1>1, HoldersFinite, FS_AddElement, Zenon

\* A connection that ends takes one holder away.
LEMMA HolderRemoved ==
  ASSUME ConnTypeOK, NEW c \in Holders, NEW s,
         s \notin HoldingStates, conn' = [conn EXCEPT ![c] = s]
  PROVE  Cardinality(Holders') = Cardinality(Holders) - 1
  <1>1. Holders' = Holders \ {c}
    BY DEF Holders, ConnTypeOK
  <1> QED
    BY <1>1, HoldersFinite, FS_RemoveElement

-----------------------------------------------------------------------------
(* Types. The bound on free comes with the conservation of permits below.  *)

TypeButFree ==
  LoopTypeOK /\ ChanTypeOK /\ GenTypeOK /\ ConnTypeOK /\ HistTypeOK

\* A connection moves to another state and nothing else with a type changes.
LEMMA MoveType ==
  ASSUME TypeButFree, LoopShape, NEW c \in Conns, NEW s \in ConnStates,
         conn' = [conn EXCEPT ![c] = s],
         UNCHANGED <<loopVars, chanVars, genVars, gen, ka, histVars>>
  PROVE  TypeButFree' /\ LoopShape'
  <1>1. conn' \in [Conns -> ConnStates]
    BY DEF TypeButFree, ConnTypeOK
  <1> QED
    BY <1>1
       DEF TypeButFree, LoopTypeOK, ChanTypeOK, GenTypeOK, ConnTypeOK,
           HistTypeOK, LoopShape, Stopped, loopVars, chanVars, genVars,
           histVars

\* The steps of a connection's task and of its session that only move it.
LEMMA MoveSteps ==
  ASSUME TypeButFree, LoopShape, NEW c \in Conns,
         \/ CloseConn(c) \/ CheckUpgrade(c)
         \/ \E rejected \in BOOLEAN : Respond(c, rejected)
         \/ TryHandleUpgrade(c) \/ SessionStart(c) \/ SessionEnd(c)
         \/ AbortTask(c)
  PROVE  TypeButFree' /\ LoopShape'
  <1>0. {"closed", "upgrade", "idle", "ws_start", "ws"} \subseteq ConnStates
    BY DEF ConnStates
  <1> DEFINE Moves(s) ==
        /\ conn' = [conn EXCEPT ![c] = s]
        /\ UNCHANGED <<loopVars, chanVars, genVars, gen, ka, histVars>>
  <1>1. CASE CloseConn(c)
    <2>1. Moves("closed")
      BY <1>1, Zenon DEF CloseConn
    <2> QED
      BY <1>0, <2>1, MoveType, Zenon
  <1>2. CASE CheckUpgrade(c)
    <2>1. Moves("closed") \/ Moves("upgrade")
      BY <1>2, Zenon DEF CheckUpgrade
    <2> QED
      BY <1>0, <2>1, MoveType
  <1>3. CASE \E rejected \in BOOLEAN : Respond(c, rejected)
    <2>1. Moves("closed") \/ Moves("idle")
      BY <1>3, Zenon DEF Respond
    <2> QED
      BY <1>0, <2>1, MoveType
  <1>4. CASE TryHandleUpgrade(c)
    <2>1. Moves("closed") \/ Moves("ws_start")
      BY <1>4, Zenon DEF TryHandleUpgrade
    <2> QED
      BY <1>0, <2>1, MoveType
  <1>5. CASE SessionStart(c)
    <2>1. Moves("closed") \/ Moves("ws")
      BY <1>5, Zenon DEF SessionStart
    <2> QED
      BY <1>0, <2>1, MoveType
  <1>6. CASE SessionEnd(c)
    <2>1. Moves("closed")
      BY <1>6, Zenon DEF SessionEnd
    <2> QED
      BY <1>0, <2>1, MoveType, Zenon
  <1>7. CASE AbortTask(c)
    <2>1. Moves("closed")
      BY <1>7, Zenon DEF AbortTask
    <2> QED
      BY <1>0, <2>1, MoveType, Zenon
  <1> QED
    BY <1>1, <1>2, <1>3, <1>4, <1>5, <1>6, <1>7

\* Every step keeps the types of all variables except the semaphore, and the
\* shape of the loop.
LEMMA TypeStep ==
  ASSUME TypeButFree, LoopShape, [Next]_vars
  PROVE  TypeButFree' /\ LoopShape'
  <1> USE ServerAssumption
      DEF TypeButFree, LoopTypeOK, ChanTypeOK, GenTypeOK, ConnTypeOK,
          HistTypeOK, LoopShape, Stopped, Gens, PcStates, ListenerStates,
          CallerStates, DrainStates, SessionDrains, ConnStates, PollFirst,
          loopVars, chanVars, genVars, connVars, histVars
  <1>1. CASE PollShutdown
    <2>1. CASE signal
      <3>1. /\ pc' = "sd_flag" /\ accept' = "acquire"
            /\ rxOpen' = FALSE /\ queue' = << >>
            /\ caller' = Answer(Queued, "err")
            /\ listener' = [g \in Gens |-> IF g \in Queued THEN "closed"
                                           ELSE listener[g]]
            /\ conn' = Reset(Queued)
            /\ UNCHANGED <<cur, cmd, budget, signal, flag, cancel, drain,
                           sessions, gen, ka, histVars>>
        BY <1>1, <2>1, Zenon DEF PollShutdown, DropAccept
      <3> QED
        BY <3>1, Zenon DEF Answer, Reset
    <2>2. CASE ~signal
      BY <1>1, <2>2 DEF PollShutdown
    <2> QED
      BY <2>1, <2>2
  <1>2. CASE PollRebind
    <2>1. CASE queue = << >>
      BY <1>2, <2>1 DEF PollRebind
    <2>2. CASE queue # << >>
      <3>1. PICK r \in Callers : queue = <<r>>
        BY <2>2
      <3>2. Head(queue) = r /\ Tail(queue) = << >>
        BY <3>1
      <3> QED
        <4>1. /\ cmd' = r /\ queue' = << >> /\ accept' = "acquire"
              /\ pc' = "rb_flag" /\ late' \in {late, late + 1}
              /\ UNCHANGED <<cur, budget, signal, rxOpen, caller, genVars,
                             connVars, after, served, clean>>
          BY <1>2, <2>2, <3>2, Zenon DEF PollRebind, DropAccept
        <4> QED
          BY <4>1
    <2> QED
      BY <2>1, <2>2
  <1>3. CASE AcquirePermit
    BY <1>3 DEF AcquirePermit
  <1>4. CASE AcceptError
    BY <1>4 DEF AcceptError
  <1>5. CASE BackoffOver
    BY <1>5 DEF BackoffOver
  <1>6. CASE AcceptPending
    BY <1>6 DEF AcceptPending
  <1>7. ASSUME NEW c \in Conns, AcceptConn(c)
        PROVE  TypeButFree' /\ LoopShape'
    BY <1>7 DEF AcceptConn, Backlog
  <1>8. ASSUME NEW c \in Conns, DrainBacklog(c)
        PROVE  TypeButFree' /\ LoopShape'
    BY <1>8 DEF DrainBacklog
  <1>9. CASE RebindFlag
    BY <1>9 DEF RebindFlag
  <1>10. CASE DrainBacklogEnd
    BY <1>10 DEF DrainBacklogEnd
  <1>11. CASE RebindSwap
    BY <1>11, Zenon DEF RebindSwap, Answer
  <1>12. CASE ShutdownFlag
    BY <1>12 DEF ShutdownFlag
  <1>13. CASE ShutdownCancel
    BY <1>13 DEF ShutdownCancel
  <1>14. CASE ShutdownSessions
    BY <1>14 DEF ShutdownSessions
  <1>15. CASE ShutdownListener
    BY <1>15 DEF ShutdownListener, Reset
  <1>16. CASE GraceCollected
    BY <1>16 DEF GraceCollected
  <1>17. CASE JoinDone
    BY <1>17 DEF JoinDone
  <1>18. CASE GraceExpired
    BY <1>18 DEF GraceExpired
  <1>19. CASE AbortDone
    BY <1>19 DEF AbortDone
  <1>20. CASE DropRunUntil
    BY <1>20, Zenon DEF DropRunUntil, Reset, Answer
  <1>21. CASE Signal
    BY <1>21 DEF Signal
  <1>22. ASSUME NEW g \in Gens, DrainStart(g)
        PROVE  TypeButFree' /\ LoopShape'
    BY <1>22 DEF DrainStart
  <1>23. ASSUME NEW g \in Gens, DrainDone(g)
        PROVE  TypeButFree' /\ LoopShape'
    BY <1>23 DEF DrainDone
  <1>24. ASSUME NEW g \in Gens, DrainTimeout(g)
        PROVE  TypeButFree' /\ LoopShape'
    BY <1>24 DEF DrainTimeout
  <1>25. ASSUME NEW r \in Callers, Bind(r)
        PROVE  TypeButFree' /\ LoopShape'
    <2>1. /\ \/ caller' = [caller EXCEPT ![r] = "bound"]
             \/ caller' = [caller EXCEPT ![r] = "err"]
          /\ \/ listener' = [listener EXCEPT ![r] = "bound"]
             \/ listener' = listener
          /\ UNCHANGED <<loopVars, queue, rxOpen, flag, cancel, drain,
                         sessions, connVars, histVars>>
      BY <1>25, Zenon DEF Bind
    <2>2. caller' \in [Callers -> CallerStates]
      BY <2>1
    <2>3. listener' \in [Gens -> ListenerStates]
      BY <2>1, Zenon
    <2> QED
      BY <2>1, <2>2, <2>3
  <1>26. ASSUME NEW r \in Callers, Send(r)
        PROVE  TypeButFree' /\ LoopShape'
    <2>1. CASE rxOpen
      <3>1. queue = << >>
        BY <1>26, <2>1 DEF Send
      <3>2. queue' = <<r>>
        BY <1>26, <2>1, <3>1 DEF Send
      <3>3. /\ caller' = [caller EXCEPT ![r] = "sent"]
            /\ UNCHANGED <<loopVars, rxOpen, genVars, connVars, histVars>>
        BY <1>26, <2>1, Zenon DEF Send
      <3> QED
        BY <3>2, <3>3
    <2>2. CASE ~rxOpen
      <3>1. /\ caller' = [caller EXCEPT ![r] = "err"]
            /\ listener' = [listener EXCEPT ![r] = "closed"]
            /\ conn' = Reset({r})
            /\ UNCHANGED <<loopVars, queue, rxOpen, flag, cancel, drain,
                           sessions, gen, ka, histVars>>
        BY <1>26, <2>2, Zenon DEF Send
      <3> QED
        BY <3>1 DEF Reset
    <2> QED
      BY <2>1, <2>2
  <1>27. ASSUME NEW r \in Callers, CallerCancelled(r)
        PROVE  TypeButFree' /\ LoopShape'
    <2>1. CASE caller[r] = "bound"
      <3>1. /\ caller' = [caller EXCEPT ![r] = "gone"]
            /\ listener' = [listener EXCEPT ![r] = "closed"]
            /\ conn' = Reset({r})
            /\ UNCHANGED <<loopVars, queue, rxOpen, flag, cancel, drain,
                           sessions, gen, ka, histVars>>
        BY <1>27, <2>1, Zenon DEF CallerCancelled
      <3> QED
        BY <3>1 DEF Reset
    <2>2. CASE caller[r] # "bound"
      BY <1>27, <2>2 DEF CallerCancelled
    <2> QED
      BY <2>1, <2>2
  <1>28. ASSUME NEW c \in Conns, ReadRequest(c)
        PROVE  TypeButFree' /\ LoopShape'
    BY <1>28 DEF ReadRequest, KeepAlive
  <1>29. ASSUME NEW c \in Conns,
               \/ CloseConn(c) \/ CheckUpgrade(c)
               \/ \E rejected \in BOOLEAN : Respond(c, rejected)
               \/ TryHandleUpgrade(c) \/ SessionStart(c) \/ SessionEnd(c)
               \/ AbortTask(c)
        PROVE  TypeButFree' /\ LoopShape'
    BY <1>29, MoveSteps
  <1>30. ASSUME NEW c \in Conns, NEW g \in Gens, Connect(c, g)
        PROVE  TypeButFree' /\ LoopShape'
    BY <1>30 DEF Connect
  <1>31. CASE UNCHANGED vars
    BY <1>31 DEF vars
  <1> QED
    BY Zenon, <1>1, <1>2, <1>3, <1>4, <1>5, <1>6, <1>7, <1>8, <1>9, <1>10, <1>11,
       <1>12, <1>13, <1>14,
       <1>15, <1>16, <1>17, <1>18, <1>19, <1>20, <1>21, <1>22, <1>23, <1>24, <1>25, <1>26, <1>27, <1>28, <1>29,
       <1>30, <1>31
       DEF Next, RunUntil, GenerationDrain, Rebind, Task
-----------------------------------------------------------------------------
(* Permits.                                                                *)

\* Closing listeners touches only connections that have no permit.
LEMMA ResetKeepsHolders ==
  ASSUME ConnTypeOK, NEW closing, conn' = Reset(closing)
  PROVE  Holders' = Holders
  BY DEF ConnTypeOK, Reset, Holders, HoldingStates, TaskStates

\* The permits that are collected at the end are no more than there are.
LEMMA PermitTypes ==
  /\ PermitCount \in Nat
  /\ PermitTotal \in Nat
  /\ PermitTotal <= PermitCount
  BY ServerAssumption DEF PermitCount, PermitTotal

\* What run_until has in hand is a number of permits.
LEMMA InHandType == InHand \in Nat
  BY PermitTypes DEF InHand

\* A step in which what run_until has in hand, the semaphore and the holders
\* balance keeps the invariant.
LEMMA Balanced ==
  ASSUME PermitInv, free' \in Nat,
         free' + Cardinality(Holders') + InHand'
           = free + Cardinality(Holders) + InHand
  PROVE  PermitsConserved' /\ free' \in 0..PermitCount
  <1>1. /\ Cardinality(Holders') \in Nat
        /\ Cardinality(Holders) \in Nat
    BY HoldersFinite, FS_Subset, FS_CardinalityType, ServerAssumption
       DEF Holders
  <1>2. InHand' \in Nat
    BY PermitTypes DEF InHand
  <1>3. PermitsConserved'
    BY DEF PermitInv, PermitsConserved
  <1> QED
    BY <1>1, <1>2, <1>3, PermitTypes DEF PermitsConserved

\* run_until keeps what it has in hand, gives it all back, or takes its
\* first permits.
HandMoves ==
  \/ free' = free /\ InHand' = InHand
  \/ free' = free + InHand /\ InHand' = 0
  \/ free' = free - InHand' /\ InHand = 0 /\ free' \in Nat

\* As long as the holders stay the same, such a step balances.
LEMMA HandMovesBalance ==
  ASSUME PermitInv, Holders' = Holders, HandMoves
  PROVE  PermitsConserved' /\ free' \in 0..PermitCount
  <1>1. /\ Cardinality(Holders) \in Nat /\ free \in Nat
        /\ InHand \in Nat /\ InHand' \in Nat
    BY HoldersFinite, PermitTypes, InHandType DEF PermitInv, TypeOK, InHand
  <1>2. Cardinality(Holders') = Cardinality(Holders)
    OBVIOUS
  <1>3. CASE free' = free /\ InHand' = InHand
    BY <1>1, <1>2, <1>3, Balanced
  <1>4. CASE free' = free + InHand /\ InHand' = 0
    BY <1>1, <1>2, <1>4, Balanced
  <1>5. CASE free' = free - InHand' /\ InHand = 0 /\ free' \in Nat
    <2>1. free' + Cardinality(Holders') + InHand'
            = free + Cardinality(Holders) + InHand
      BY <1>1, <1>2, <1>5
    <2> QED
      BY <1>5, <2>1, Balanced
  <1> QED
    BY <1>3, <1>4, <1>5 DEF HandMoves

\* Every step balances.
LEMMA PermitStep ==
  ASSUME PermitInv, [Next]_vars
  PROVE  PermitsConserved' /\ free' \in 0..PermitCount
  <1> DEFINE Same == Cardinality(Holders') = Cardinality(Holders)
             Goal == PermitsConserved' /\ free' \in 0..PermitCount
  <1>t. /\ ConnTypeOK /\ LoopTypeOK /\ LoopShape
        /\ free \in Nat /\ Cardinality(Holders) \in Nat
        /\ PermitCount \in Nat /\ PermitTotal \in Nat
    BY HoldersFinite, PermitTypes DEF PermitInv, TypeOK
  <1>k. ASSUME UNCHANGED conn, UNCHANGED free, InHand' = InHand
        PROVE  Goal
    <2>1. Same
      BY <1>k DEF Holders
    <2> QED
      BY <1>t, <1>k, <2>1, Balanced
  <1>c. ASSUME NEW c \in Conns, c \in Holders,
               conn' = [conn EXCEPT ![c] = "closed"], free' = free + 1,
               InHand' = InHand
        PROVE  Goal
    <2>1. Cardinality(Holders') = Cardinality(Holders) - 1
      BY <1>t, <1>c, HolderRemoved, Zenon DEF HoldingStates, TaskStates
    <2> QED
      BY <1>t, <1>c, <2>1, InHandType, Balanced
  <1>m. ASSUME NEW c \in Conns, c \in Holders, NEW s \in HoldingStates,
               conn' = [conn EXCEPT ![c] = s], UNCHANGED free,
               InHand' = InHand
        PROVE  Goal
    <2>1. Holders' = Holders
      BY <1>t, <1>m DEF Holders, ConnTypeOK
    <2> QED
      BY <1>t, <1>m, <2>1, Balanced
  <1>r. ASSUME NEW G, conn' = Reset(G), HandMoves
        PROVE  Goal
    BY <1>t, <1>r, ResetKeepsHolders, HandMovesBalance
  <1>1. CASE PollShutdown
    <2>1. CASE signal
      <3>1. /\ conn' = Reset(Queued) /\ pc = "poll_shutdown"
            /\ pc' = "sd_flag" /\ accept' = "acquire"
            /\ free' = IF accept = "permit" THEN free + 1 ELSE free
        BY <1>1, <2>1, Zenon DEF PollShutdown, DropAccept
      <3>2. HandMoves
        BY <1>t, <3>1 DEF HandMoves, InHand, LoopTypeOK
      <3> QED
        BY <1>r, <3>1, <3>2
    <2>2. CASE ~signal
      <3>1. /\ UNCHANGED <<conn, free, accept>>
            /\ pc = "poll_shutdown" /\ pc' = "poll_rebind"
        BY <1>1, <2>2, Zenon DEF PollShutdown
      <3> QED
        BY <1>k, <3>1 DEF InHand
    <2> QED
      BY <2>1, <2>2
  <1>2. CASE PollRebind
    <2>1. CASE queue = << >>
      BY <1>2, <2>1, <1>k DEF PollRebind, InHand, connVars
    <2>2. CASE queue # << >>
      <3>1. /\ UNCHANGED conn /\ pc = "poll_rebind"
            /\ pc' = "rb_flag" /\ accept' = "acquire"
            /\ free' = IF accept = "permit" THEN free + 1 ELSE free
        BY <1>2, <2>2, Zenon DEF PollRebind, DropAccept, connVars
      <3>2. HandMoves
        BY <1>t, <3>1 DEF HandMoves, InHand, LoopTypeOK
      <3>3. Holders' = Holders
        BY <3>1 DEF Holders
      <3> QED
        BY <3>2, <3>3, HandMovesBalance
    <2> QED
      BY <2>1, <2>2
  <1>3. CASE AcquirePermit
    <2>1. Holders' = Holders
      BY <1>3 DEF AcquirePermit, Holders, connVars
    <2>2. HandMoves
      BY <1>3, <1>t, PermitTypes
         DEF AcquirePermit, HandMoves, InHand, PollFirst, LoopShape, Stopped
    <2> QED
      BY <2>1, <2>2, HandMovesBalance
  <1>4. CASE AcceptError
    <2>1. Holders' = Holders
      BY <1>4 DEF AcceptError, Holders, connVars
    <2>2. HandMoves
      BY <1>4, <1>t, PermitTypes
         DEF AcceptError, HandMoves, InHand, PollFirst, LoopShape, Stopped
    <2> QED
      BY <2>1, <2>2, HandMovesBalance
  <1>5. CASE BackoffOver
    BY <1>5, <1>t, <1>k
       DEF BackoffOver, InHand, LoopShape, Stopped, PollFirst, loopVars, connVars
  <1>6. CASE AcceptPending
    BY <1>6, <1>t, <1>k
       DEF AcceptPending, InHand, LoopShape, Stopped, PollFirst, loopVars,
           connVars
  <1>7. ASSUME NEW c \in Conns, AcceptConn(c)
        PROVE  Goal
    <2>1. c \notin Holders /\ "idle" \in HoldingStates
      BY <1>7 DEF AcceptConn, Backlog, Holders, HoldingStates, TaskStates
    <2>2. Cardinality(Holders') = Cardinality(Holders) + 1
      BY <1>7, <1>t, <2>1, HolderAdded, Zenon DEF AcceptConn
    <2>3. InHand = 1 /\ InHand' = 0 /\ free' = free
      BY <1>7 DEF AcceptConn, InHand, PollFirst
    <2> QED
      BY <1>t, <2>2, <2>3, Balanced
  <1>8. ASSUME NEW c \in Conns, DrainBacklog(c)
        PROVE  Goal
    <2>1. c \notin Holders /\ "drained" \in HoldingStates
      BY <1>8 DEF DrainBacklog, Backlog, Holders, HoldingStates, TaskStates
    <2>2. Cardinality(Holders') = Cardinality(Holders) + 1
      BY <1>8, <1>t, <2>1, HolderAdded, Zenon DEF DrainBacklog
    <2>3. InHand' = InHand /\ free' = free - 1 /\ free' \in Nat
      BY <1>8, <1>t DEF DrainBacklog, InHand
    <2> QED
      BY <1>t, <2>2, <2>3, InHandType, Balanced
  <1>9. CASE RebindFlag
    BY <1>9, <1>t, <1>k
       DEF RebindFlag, InHand, LoopShape, Stopped, PollFirst, loopVars, connVars
  <1>10. CASE DrainBacklogEnd
    BY <1>10, <1>t, <1>k
       DEF DrainBacklogEnd, InHand, LoopShape, Stopped, PollFirst, loopVars,
           connVars
  <1>11. CASE RebindSwap
    <2>1. Holders' = Holders
      BY <1>11, <1>t
         DEF RebindSwap, Holders, HoldingStates, TaskStates, ConnTypeOK
    <2>2. InHand' = InHand /\ free' = free
      BY <1>11 DEF RebindSwap, InHand, PollFirst
    <2> QED
      BY <1>t, <2>1, <2>2, Balanced
  <1>12. CASE ShutdownFlag
    BY <1>12, <1>t, <1>k
       DEF ShutdownFlag, InHand, LoopShape, Stopped, PollFirst, loopVars, connVars
  <1>13. CASE ShutdownCancel
    BY <1>13, <1>t, <1>k
       DEF ShutdownCancel, InHand, LoopShape, Stopped, PollFirst, loopVars,
           connVars
  <1>14. CASE ShutdownSessions
    BY <1>14, <1>t, <1>k
       DEF ShutdownSessions, InHand, LoopShape, Stopped, PollFirst, loopVars,
           connVars
  <1>15. CASE ShutdownListener
    <2>1. conn' = Reset({cur}) /\ HandMoves
      BY <1>15 DEF ShutdownListener, HandMoves, InHand
    <2> QED
      BY <1>r, <2>1
  <1>16. CASE GraceCollected
    <2>1. Holders' = Holders
      BY <1>16 DEF GraceCollected, Holders, connVars
    <2>2. HandMoves
      BY <1>16, <1>t, PermitTypes
         DEF GraceCollected, HandMoves, InHand, PollFirst, LoopShape, Stopped
    <2> QED
      BY <2>1, <2>2, HandMovesBalance
  <1>17. CASE JoinDone
    <2>1. Holders' = Holders
      BY <1>17 DEF JoinDone, Holders, connVars
    <2>2. HandMoves
      BY <1>17, <1>t, PermitTypes
         DEF JoinDone, HandMoves, InHand, PollFirst, LoopShape, Stopped
    <2> QED
      BY <2>1, <2>2, HandMovesBalance
  <1>18. CASE GraceExpired
    BY <1>18, <1>t, <1>k
       DEF GraceExpired, InHand, LoopShape, Stopped, PollFirst, loopVars, connVars
  <1>19. CASE AbortDone
    BY <1>19, <1>t, <1>k
       DEF AbortDone, InHand, LoopShape, Stopped, PollFirst, loopVars, connVars
  <1>20. CASE DropRunUntil
    <2>1. conn' = Reset(Queued \cup {cur})
      BY <1>20 DEF DropRunUntil
    <2>2. HandMoves
      BY <1>20, <1>t
         DEF DropRunUntil, HandMoves, InHand, LoopShape, LoopTypeOK, Stopped
    <2> QED
      BY <1>r, <2>1, <2>2
  <1>21. CASE Signal
    BY <1>21, <1>t, <1>k
       DEF Signal, InHand, LoopShape, Stopped, PollFirst, loopVars, connVars
  <1>22. ASSUME NEW g \in Gens, DrainStart(g)
        PROVE  Goal
    BY <1>22, <1>t, <1>k
       DEF DrainStart, InHand, LoopShape, Stopped, PollFirst, loopVars, connVars
  <1>23. ASSUME NEW g \in Gens, DrainDone(g)
        PROVE  Goal
    BY <1>23, <1>t, <1>k
       DEF DrainDone, InHand, LoopShape, Stopped, PollFirst, loopVars, connVars
  <1>24. ASSUME NEW g \in Gens, DrainTimeout(g)
        PROVE  Goal
    BY <1>24, <1>t, <1>k
       DEF DrainTimeout, InHand, LoopShape, Stopped, PollFirst, loopVars, connVars
  <1>25. ASSUME NEW r \in Callers, Bind(r)
        PROVE  Goal
    BY <1>25, <1>t, <1>k
       DEF Bind, InHand, LoopShape, Stopped, PollFirst, loopVars, connVars
  <1>26. ASSUME NEW r \in Callers, Send(r)
        PROVE  Goal
    <2>1. /\ conn' = conn \/ conn' = Reset({r})
          /\ UNCHANGED <<free, loopVars>>
      BY <1>26, Zenon DEF Send
    <2>2. InHand' = InHand /\ HandMoves
      BY <2>1 DEF InHand, HandMoves, loopVars
    <2> QED
      BY <1>t, <1>k, <1>r, <2>1, <2>2
  <1>27. ASSUME NEW r \in Callers, CallerCancelled(r)
        PROVE  Goal
    <2>1. /\ conn' = conn \/ conn' = Reset({r})
          /\ UNCHANGED <<free, loopVars>>
      BY <1>27, Zenon DEF CallerCancelled
    <2>2. InHand' = InHand /\ HandMoves
      BY <2>1 DEF InHand, HandMoves, loopVars
    <2> QED
      BY <1>t, <1>k, <1>r, <2>1, <2>2
  <1>28. ASSUME NEW c \in Conns, ReadRequest(c)
        PROVE  Goal
    <2>1. /\ conn' = [conn EXCEPT ![c] = "busy"] /\ UNCHANGED free
          /\ c \in Holders
          /\ UNCHANGED loopVars
      BY <1>28 DEF ReadRequest, Holders, HoldingStates, TaskStates
    <2>2. InHand' = InHand
      BY <2>1 DEF InHand, loopVars
    <2>3. "busy" \in HoldingStates
      BY DEF HoldingStates, TaskStates
    <2> QED
      BY <1>m, <2>1, <2>2, <2>3, Zenon
  <1>29. ASSUME NEW c \in Conns, CloseConn(c)
        PROVE  Goal
    <2>1. /\ conn' = [conn EXCEPT ![c] = "closed"] /\ free' = free + 1
          /\ c \in Holders
          /\ UNCHANGED loopVars
      BY <1>29 DEF CloseConn, Holders, HoldingStates, TaskStates
    <2>2. InHand' = InHand
      BY <2>1 DEF InHand, loopVars
    <2> QED
      BY <1>c, <2>1, <2>2, Zenon
  <1>30. ASSUME NEW c \in Conns, CheckUpgrade(c)
        PROVE  Goal
    <2>1. /\ \/ conn' = [conn EXCEPT ![c] = "upgrade"] /\ UNCHANGED free
             \/ conn' = [conn EXCEPT ![c] = "closed"] /\ free' = free + 1
          /\ c \in Holders
          /\ UNCHANGED loopVars
      BY <1>30 DEF CheckUpgrade, Holders, HoldingStates, TaskStates
    <2>2. InHand' = InHand
      BY <2>1 DEF InHand, loopVars
    <2>3. "upgrade" \in HoldingStates
      BY DEF HoldingStates, TaskStates
    <2> QED
      BY <1>c, <1>m, <2>1, <2>2, <2>3
  <1>31. ASSUME NEW c \in Conns, \E rejected \in BOOLEAN : Respond(c, rejected)
        PROVE  Goal
    <2>1. /\ \/ conn' = [conn EXCEPT ![c] = "idle"] /\ UNCHANGED free
             \/ conn' = [conn EXCEPT ![c] = "closed"] /\ free' = free + 1
          /\ c \in Holders
          /\ UNCHANGED loopVars
      BY <1>31 DEF Respond, Holders, HoldingStates, TaskStates
    <2>2. InHand' = InHand
      BY <2>1 DEF InHand, loopVars
    <2>3. "idle" \in HoldingStates
      BY DEF HoldingStates, TaskStates
    <2> QED
      BY <1>c, <1>m, <2>1, <2>2, <2>3
  <1>32. ASSUME NEW c \in Conns, TryHandleUpgrade(c)
        PROVE  Goal
    <2>1. /\ \/ conn' = [conn EXCEPT ![c] = "ws_start"] /\ UNCHANGED free
             \/ conn' = [conn EXCEPT ![c] = "closed"] /\ free' = free + 1
          /\ c \in Holders
          /\ UNCHANGED loopVars
      BY <1>32 DEF TryHandleUpgrade, Holders, HoldingStates, TaskStates
    <2>2. InHand' = InHand
      BY <2>1 DEF InHand, loopVars
    <2>3. "ws_start" \in HoldingStates
      BY DEF HoldingStates, TaskStates
    <2> QED
      BY <1>c, <1>m, <2>1, <2>2, <2>3
  <1>33. ASSUME NEW c \in Conns, SessionStart(c)
        PROVE  Goal
    <2>1. /\ \/ conn' = [conn EXCEPT ![c] = "ws"] /\ UNCHANGED free
             \/ conn' = [conn EXCEPT ![c] = "closed"] /\ free' = free + 1
          /\ c \in Holders
          /\ UNCHANGED loopVars
      BY <1>33 DEF SessionStart, Holders, HoldingStates, TaskStates
    <2>2. InHand' = InHand
      BY <2>1 DEF InHand, loopVars
    <2>3. "ws" \in HoldingStates
      BY DEF HoldingStates, TaskStates
    <2> QED
      BY <1>c, <1>m, <2>1, <2>2, <2>3
  <1>34. ASSUME NEW c \in Conns, SessionEnd(c)
        PROVE  Goal
    <2>1. /\ conn' = [conn EXCEPT ![c] = "closed"] /\ free' = free + 1
          /\ c \in Holders
          /\ UNCHANGED loopVars
      BY <1>34 DEF SessionEnd, Holders, HoldingStates, TaskStates
    <2>2. InHand' = InHand
      BY <2>1 DEF InHand, loopVars
    <2> QED
      BY <1>c, <2>1, <2>2, Zenon
  <1>35. ASSUME NEW c \in Conns, AbortTask(c)
        PROVE  Goal
    <2>1. /\ conn' = [conn EXCEPT ![c] = "closed"] /\ free' = free + 1
          /\ c \in Holders
          /\ UNCHANGED loopVars
      BY <1>35 DEF AbortTask, Holders, HoldingStates, TaskStates
    <2>2. InHand' = InHand
      BY <2>1 DEF InHand, loopVars
    <2> QED
      BY <1>c, <2>1, <2>2, Zenon
  <1>36. ASSUME NEW c \in Conns, NEW g \in Gens, Connect(c, g)
        PROVE  Goal
    <2>1. Holders' = Holders
      BY <1>36, <1>t DEF Connect, Holders, HoldingStates, TaskStates, ConnTypeOK
    <2>2. InHand' = InHand /\ free' = free
      BY <1>36 DEF Connect, InHand, loopVars
    <2> QED
      BY <1>t, <2>1, <2>2, Balanced
  <1>37. CASE UNCHANGED vars
    BY <1>37, <1>k DEF vars, InHand, loopVars, connVars
  <1> QED
    BY <1>1, <1>2, <1>3, <1>4, <1>5, <1>6, <1>7, <1>8, <1>9, <1>10, <1>11,
       <1>12, <1>13, <1>14, <1>15, <1>16, <1>17, <1>18, <1>19, <1>20, <1>21,
       <1>22, <1>23, <1>24, <1>25, <1>26, <1>27, <1>28, <1>29, <1>30, <1>31,
       <1>32, <1>33, <1>34, <1>35, <1>36, <1>37
       DEF Next, RunUntil, GenerationDrain, Rebind, Task

\* Types and permits, for every number of connections, permits and rebinds:
\* the semaphore never gains or loses a permit (see PermitsConserved).
THEOREM PermitsAreConserved == Spec => []PermitsAccounted
  <1>1. Init => PermitInv
    <2> SUFFICES ASSUME Init PROVE PermitInv
      OBVIOUS
    <2>1. Holders = {}
      BY DEF Init, Holders, HoldingStates, TaskStates
    <2>2. Cardinality(Holders) = 0
      BY <2>1, FS_EmptySet
    <2>3. PermitsConserved
      BY <2>2, PermitTypes DEF Init, PermitsConserved, InHand, PollFirst
    <2>0. /\ pc = "poll_shutdown" /\ accept = "acquire" /\ cur = Initial
          /\ cmd = NoCaller /\ budget = 0 /\ signal \in BOOLEAN
      BY Zenon DEF Init, PollFirst
    <2>4. LoopTypeOK /\ LoopShape
      BY <2>0, ServerAssumption
         DEF LoopTypeOK, LoopShape, Stopped, Gens, PcStates
    <2>5. ChanTypeOK
      BY DEF Init, ChanTypeOK, CallerStates
    <2>6. GenTypeOK
      BY DEF Init, GenTypeOK, ListenerStates, DrainStates, SessionDrains
    <2>7. ConnTypeOK /\ HistTypeOK
      BY Zenon DEF Init, ConnTypeOK, HistTypeOK, ConnStates, Gens
    <2>8. free \in 0..PermitCount
      BY PermitTypes DEF Init
    <2> QED
      BY <2>3, <2>4, <2>5, <2>6, <2>7, <2>8 DEF PermitInv, TypeOK
  <1>2. PermitInv /\ [Next]_vars => PermitInv'
    <2> SUFFICES ASSUME PermitInv, [Next]_vars PROVE PermitInv'
      OBVIOUS
    <2>1. TypeButFree' /\ LoopShape'
      BY TypeStep DEF PermitInv, TypeOK, TypeButFree
    <2>2. PermitsConserved' /\ free' \in 0..PermitCount
      BY PermitStep
    <2> QED
      BY <2>1, <2>2 DEF PermitInv, TypeOK, TypeButFree
  <1>3. PermitInv => PermitsAccounted
    BY DEF PermitInv, PermitsAccounted
  <1> QED
    BY <1>1, <1>2, <1>3, PTL DEF Spec

-----------------------------------------------------------------------------
(* Server implements Admission. The permits are what ties the two: a       *)
(* connection is admitted only with one, and conservation then keeps it    *)
(* under the limit.                                                        *)

Finished == {c \in Conns : conn[c] = "closed"}

\* A step of the abstract server, or none.
Allowed == AdmissionView!Next \/ UNCHANGED AdmissionView!vars

-----------------------------------------------------------------------------
(* What a step of Server looks like from outside.                          *)

\* Nobody comes or goes and the phase stays: nothing is seen.
LEMMA Unseen ==
  ASSUME Phase' = Phase, Holders' = Holders, Finished' = Finished
  PROVE  Allowed
  BY DEF Allowed, AdmissionView!vars, Finished

\* The connections stay where they are, and so does the phase.
LEMMA ConnUnchanged ==
  ASSUME UNCHANGED conn
  PROVE  Holders' = Holders /\ Finished' = Finished
  BY DEF Holders, Finished

\* Closing listeners finishes no connection that was admitted.
LEMMA ResetUnseen ==
  ASSUME ConnTypeOK, NEW closing, conn' = Reset(closing)
  PROVE  Holders' = Holders /\ Finished' = Finished
  <1>1. Finished' = Finished
    BY DEF ConnTypeOK, Reset, Finished
  <1> QED
    BY <1>1, ResetKeepsHolders

\* A holder that stays one is not seen to move.
LEMMA HolderMoves ==
  ASSUME ConnTypeOK, NEW c \in Holders, NEW s \in HoldingStates,
         conn' = [conn EXCEPT ![c] = s], UNCHANGED pc
  PROVE  Allowed
  <1>1. Holders' = Holders
    BY DEF ConnTypeOK, Holders
  <1>2. Finished' = Finished
    BY DEF ConnTypeOK, Holders, Finished, HoldingStates, TaskStates
  <1>3. Phase' = Phase
    BY DEF Phase, Stopped
  <1> QED
    BY <1>1, <1>2, <1>3, Unseen

\* A holder whose connection is closed leaves.
LEMMA HolderLeaves ==
  ASSUME ConnTypeOK, NEW c \in Holders,
         conn' = [conn EXCEPT ![c] = "closed"], UNCHANGED pc
  PROVE  Allowed
  <1>1. c \in Conns /\ Phase' = Phase
    BY DEF Holders, Phase, Stopped
  <1>2. Holders' = Holders \ {c}
    BY DEF ConnTypeOK, Holders, HoldingStates, TaskStates
  <1>3. Finished' = Finished \cup {c}
    BY <1>1 DEF ConnTypeOK, Finished
  <1>4. AdmissionView!Leave(c)
    BY <1>1, <1>2, <1>3 DEF AdmissionView!Leave, Finished
  <1> QED
    BY <1>1, <1>4 DEF Allowed, AdmissionView!Next

\* The instance brings a Cardinality of its own, which is the same.
LEMMA SameCardinality ==
  AdmissionView!Cardinality(Holders) = Cardinality(Holders)
  BY Zenon DEF Cardinality, AdmissionView!Cardinality

\* A connection from a backlog that is given a permit is admitted, if one was
\* left and the loop has not been left.
LEMMA BacklogAdmitted ==
  ASSUME PermitsAccounted, NEW c \in Conns, conn[c] = "backlog",
         NEW s \in HoldingStates, conn' = [conn EXCEPT ![c] = s],
         Phase = "open", Phase' = "open", free + InHand > 0
  PROVE  Allowed
  <1>1. ConnTypeOK /\ free \in Nat
    BY PermitTypes DEF PermitsAccounted, TypeOK
  <1>2. Holders' = Holders \cup {c} /\ c \notin Holders
    BY <1>1 DEF ConnTypeOK, Holders, HoldingStates, TaskStates
  <1>3. Finished' = Finished /\ c \notin Finished
    BY <1>1 DEF ConnTypeOK, Finished, HoldingStates, TaskStates
  <1>4. Cardinality(Holders) < PermitCount
    BY <1>1, HoldersFinite, InHandType, PermitTypes
       DEF PermitsAccounted, PermitsConserved
  <1>5. AdmissionView!Admit(c)
    BY <1>2, <1>3, <1>4, SameCardinality DEF AdmissionView!Admit, Finished
  <1> QED
    BY <1>5 DEF Allowed, AdmissionView!Next

-----------------------------------------------------------------------------
\* Every step of Server is one of Admission or none.
LEMMA StepSimulation ==
  ASSUME PermitsAccounted, [Next]_vars
  PROVE  Allowed
  <1>t. ConnTypeOK /\ LoopTypeOK /\ free \in Nat
    BY PermitTypes DEF PermitsAccounted, TypeOK
  <1>k. ASSUME UNCHANGED conn, Phase' = Phase
        PROVE  Allowed
    BY <1>k, ConnUnchanged, Unseen
  <1>r. ASSUME NEW G, conn' = Reset(G), Phase' = Phase
        PROVE  Allowed
    BY <1>t, <1>r, ResetUnseen, Unseen
  <1>1. CASE PollShutdown
    <2>1. CASE signal
      <3>1. /\ conn' = Reset(Queued)
            /\ pc = "poll_shutdown" /\ pc' = "sd_flag"
        BY <1>1, <2>1, Zenon DEF PollShutdown
      <3>2. Phase = "open" /\ Phase' = "closing"
        BY <3>1 DEF Phase, Stopped
      <3>3. Holders' = Holders /\ Finished' = Finished
        BY <1>t, <3>1, ResetUnseen
      <3>4. AdmissionView!Close
        BY <3>2, <3>3 DEF AdmissionView!Close, Finished
      <3> QED
        BY <3>4 DEF Allowed, AdmissionView!Next
    <2>2. CASE ~signal
      <3>1. UNCHANGED conn /\ pc = "poll_shutdown" /\ pc' = "poll_rebind"
        BY <1>1, <2>2, Zenon DEF PollShutdown
      <3> QED
        BY <1>k, <3>1 DEF Phase, Stopped
    <2> QED
      BY <2>1, <2>2
  <1>2. CASE PollRebind
    <2>1. /\ UNCHANGED conn
          /\ pc = "poll_rebind" /\ pc' \in {"rb_flag", "poll_accept"}
      BY <1>2, Zenon DEF PollRebind, connVars
    <2> QED
      BY <1>k, <2>1 DEF Phase, Stopped
  <1>3. CASE AcquirePermit \/ AcceptError \/ BackoffOver \/ AcceptPending
    <2>1. /\ UNCHANGED conn
          /\ pc = "poll_accept" /\ pc' \in {"poll_accept", "poll_shutdown"}
      BY <1>3, Zenon
         DEF AcquirePermit, AcceptError, BackoffOver, AcceptPending, PollFirst,
                connVars
    <2> QED
      BY <1>k, <2>1 DEF Phase, Stopped
  <1>4. ASSUME NEW c \in Conns, AcceptConn(c)
        PROVE  Allowed
    <2>1. /\ conn[c] = "backlog" /\ conn' = [conn EXCEPT ![c] = "idle"]
          /\ pc = "poll_accept" /\ pc' = "poll_shutdown" /\ accept = "permit"
      BY <1>4, Zenon DEF AcceptConn, Backlog, PollFirst
    <2>2. Phase = "open" /\ Phase' = "open" /\ InHand = 1
      BY <2>1 DEF Phase, Stopped, InHand
    <2>3. "idle" \in HoldingStates /\ free + InHand > 0
      BY <1>t, <2>2 DEF HoldingStates, TaskStates
    <2> QED
      BY <2>1, <2>2, <2>3, BacklogAdmitted
  <1>5. ASSUME NEW c \in Conns, DrainBacklog(c)
        PROVE  Allowed
    <2>1. /\ conn[c] = "backlog" /\ conn' = [conn EXCEPT ![c] = "drained"]
          /\ pc = "rb_backlog" /\ pc' = pc /\ free > 0
      BY <1>5, Zenon DEF DrainBacklog, Backlog
    <2>2. Phase = "open" /\ Phase' = "open"
      BY <2>1 DEF Phase, Stopped
    <2>3. "drained" \in HoldingStates /\ free + InHand > 0
      BY <1>t, <2>1, InHandType DEF HoldingStates
    <2> QED
      BY <2>1, <2>2, <2>3, BacklogAdmitted
  <1>6. CASE RebindFlag \/ DrainBacklogEnd
    <2>1. /\ UNCHANGED conn
          /\ pc \in {"rb_flag", "rb_backlog"} /\ pc' \in {"rb_backlog", "rb_swap"}
      BY <1>6, Zenon DEF RebindFlag, DrainBacklogEnd, connVars
    <2> QED
      BY <1>k, <2>1 DEF Phase, Stopped
  <1>7. CASE RebindSwap
    <2>1. Holders' = Holders
      BY <1>7, <1>t DEF RebindSwap, Holders, HoldingStates, TaskStates, ConnTypeOK
    <2>2. Finished' = Finished
      BY <1>7, <1>t DEF RebindSwap, Finished, ConnTypeOK
    <2>3. Phase' = Phase
      BY <1>7 DEF RebindSwap, PollFirst, Phase, Stopped
    <2> QED
      BY <2>1, <2>2, <2>3, Unseen
  <1>8. CASE ShutdownFlag \/ ShutdownCancel \/ ShutdownSessions \/ GraceCollected \/ GraceExpired
    <2>1. /\ UNCHANGED conn
          /\ pc \in {"sd_flag", "sd_cancel", "sd_sessions", "grace"}
          /\ pc' \in {"sd_cancel", "sd_sessions", "sd_listener", "join", "abort"}
      BY <1>8, Zenon
         DEF ShutdownFlag, ShutdownCancel, ShutdownSessions, GraceCollected,
                GraceExpired, connVars
    <2> QED
      BY <1>k, <2>1 DEF Phase, Stopped
  <1>9. CASE ShutdownListener
    <2>1. conn' = Reset({cur}) /\ Phase' = Phase
      BY <1>9 DEF ShutdownListener, Phase, Stopped
    <2> QED
      BY <1>r, <2>1
  <1>10. CASE JoinDone \/ AbortDone
    <2>1. UNCHANGED conn /\ pc \in {"join", "abort"} /\ pc' = "returned"
      BY <1>10, Zenon DEF JoinDone, AbortDone, connVars
    <2>2. Phase = "closing" /\ Phase' = "stopped"
      BY <2>1 DEF Phase, Stopped
    <2>3. AdmissionView!Stop
      BY <2>1, <2>2, ConnUnchanged DEF AdmissionView!Stop, Finished
    <2> QED
      BY <2>3 DEF Allowed, AdmissionView!Next
  <1>11. CASE DropRunUntil
    <2>1. /\ conn' = Reset(Queued \cup {cur}) /\ pc' = "dropped"
          /\ pc \in {"poll_shutdown", "grace", "join", "abort"}
      BY <1>11, Zenon DEF DropRunUntil
    <2>2. Phase \in {"open", "closing"} /\ Phase' = "stopped"
      BY <2>1 DEF Phase, Stopped
    <2>3. Holders' = Holders /\ Finished' = Finished
      BY <1>t, <2>1, ResetUnseen
    <2>4. AdmissionView!Stop
      BY <2>2, <2>3 DEF AdmissionView!Stop, Finished
    <2> QED
      BY <2>4 DEF Allowed, AdmissionView!Next
  <1>12. CASE Signal \/ \E g \in Gens : GenerationDrain(g)
    <2>1. UNCHANGED <<conn, pc>>
      BY <1>12, Zenon
         DEF Signal, GenerationDrain, DrainStart, DrainDone, DrainTimeout,
                connVars, loopVars
    <2> QED
      BY <1>k, <2>1 DEF Phase, Stopped
  <1>13. ASSUME NEW r \in Callers, Rebind(r)
         PROVE  Allowed
    <2>1. UNCHANGED pc /\ (conn' = conn \/ conn' = Reset({r}))
      BY <1>13, Zenon DEF Rebind, Bind, Send, CallerCancelled, connVars, loopVars
    <2>2. Phase' = Phase
      BY <2>1 DEF Phase, Stopped
    <2> QED
      BY <1>k, <1>r, <2>1, <2>2
  <1>14. ASSUME NEW c \in Conns, Task(c)
         PROVE  Allowed
    <2>1. /\ c \in Holders /\ UNCHANGED pc
          /\ \/ conn' = [conn EXCEPT ![c] = "closed"]
             \/ \E s \in HoldingStates : conn' = [conn EXCEPT ![c] = s]
      <3> USE DEF Holders, HoldingStates, TaskStates, loopVars
      <3>1. CASE ReadRequest(c)
        BY <3>1 DEF ReadRequest
      <3>2. CASE CloseConn(c) \/ SessionEnd(c) \/ AbortTask(c)
        BY <3>2 DEF CloseConn, SessionEnd, AbortTask
      <3>3. CASE CheckUpgrade(c)
        BY <3>3 DEF CheckUpgrade
      <3>4. CASE \E rejected \in BOOLEAN : Respond(c, rejected)
        BY <3>4 DEF Respond
      <3>5. CASE TryHandleUpgrade(c)
        BY <3>5 DEF TryHandleUpgrade
      <3>6. CASE SessionStart(c)
        BY <3>6 DEF SessionStart
      <3> QED
        BY <1>14, <3>1, <3>2, <3>3, <3>4, <3>5, <3>6, Zenon DEF Task
    <2> QED
      BY <1>t, <2>1, HolderLeaves, HolderMoves
  <1>15. ASSUME NEW c \in Conns, NEW g \in Gens, Connect(c, g)
         PROVE  Allowed
    <2>1. /\ conn[c] = "new" /\ conn' = [conn EXCEPT ![c] = "backlog"] /\ UNCHANGED pc
      BY <1>15, Zenon DEF Connect, loopVars
    <2>2. Holders' = Holders
      BY <1>t, <2>1 DEF Holders, HoldingStates, TaskStates, ConnTypeOK
    <2>3. Finished' = Finished
      BY <1>t, <2>1 DEF Finished, ConnTypeOK
    <2>4. Phase' = Phase
      BY <2>1 DEF Phase, Stopped
    <2> QED
      BY <2>2, <2>3, <2>4, Unseen
  <1>16. CASE UNCHANGED vars
    BY <1>16, <1>k DEF vars, connVars, loopVars, Phase, Stopped
  <1> QED
    BY <1>1, <1>2, <1>3, <1>4, <1>5, <1>6, <1>7, <1>8, <1>9, <1>10, <1>11,
       <1>12, <1>13, <1>14, <1>15, <1>16, Zenon
       DEF Next, RunUntil

\* run_until with its semaphore, generations and shutdown is an admission
\* control: whatever the limit, the clients and the rebinds, no more than
\* max_connections are served at a time, each once, and none is taken in after
\* the accept loop was left.
THEOREM ServerImplementsAdmission == Spec => AdmissionSpec
  <1>1. Init => AdmissionView!Init
    BY DEF Init, AdmissionView!Init, Phase, Stopped, PollFirst, Holders,
           HoldingStates, TaskStates
  <1>2. PermitsAccounted /\ [Next]_vars => [AdmissionView!Next]_(AdmissionView!vars)
    BY StepSimulation DEF Allowed
  <1>3. Spec => []PermitsAccounted
    BY PermitsAreConserved
  <1> QED
    BY <1>1, <1>2, <1>3, PTL DEF Spec, AdmissionSpec, AdmissionView!Spec

-----------------------------------------------------------------------------
(* What a rebind answers is true and leaves no listener behind, and        *)
(* shutdown goes in order.                                                 *)

\* A connection's own steps change neither the loop, the channel nor the
\* generations, and c holds a permit when it takes one.
LEMMA TaskFrame ==
  ASSUME NEW c \in Conns, Task(c)
  PROVE  /\ UNCHANGED <<pc, cur, cmd, signal, queue, rxOpen, caller, flag, cancel,
                        listener, drain, sessions, late, served, clean>>
         /\ c \in Holders
         /\ \E s : conn' = [conn EXCEPT ![c] = s]
  <1> USE DEF loopVars, chanVars, genVars, histVars, Holders, HoldingStates,
          TaskStates
  <1>1. CASE ReadRequest(c)
    BY <1>1 DEF ReadRequest
  <1>2. CASE CloseConn(c)
    BY <1>2 DEF CloseConn
  <1>3. CASE CheckUpgrade(c)
    BY <1>3 DEF CheckUpgrade
  <1>4. CASE \E rejected \in BOOLEAN : Respond(c, rejected)
    BY <1>4 DEF Respond
  <1>5. CASE TryHandleUpgrade(c)
    BY <1>5 DEF TryHandleUpgrade
  <1>6. CASE SessionStart(c)
    BY <1>6 DEF SessionStart
  <1>7. CASE SessionEnd(c)
    BY <1>7 DEF SessionEnd
  <1>8. CASE AbortTask(c)
    BY <1>8 DEF AbortTask
  <1> QED
    BY <1>1, <1>2, <1>3, <1>4, <1>5, <1>6, <1>7, <1>8 DEF Task

\* A call of rebind changes neither the loop nor the history.
LEMMA CallFrame ==
  ASSUME NEW r \in Callers, Rebind(r)
  PROVE  /\ UNCHANGED <<pc, cur, cmd, signal, rxOpen, flag, cancel, drain,
                        sessions, late, served, clean, after, ka>>
         /\ conn' = conn \/ \E closing : conn' = Reset(closing)
  <1> USE DEF loopVars, connVars, histVars
  <1>1. CASE Bind(r)
    BY <1>1 DEF Bind
  <1>2. CASE Send(r)
    BY <1>2 DEF Send
  <1>3. CASE CallerCancelled(r)
    BY <1>3 DEF CallerCancelled
  <1> QED
    BY <1>1, <1>2, <1>3 DEF Rebind

-----------------------------------------------------------------------------
(* Rebinding.                                                              *)

Rebinding == pc \in {"rb_flag", "rb_backlog", "rb_swap"}
Ended == pc \in {"grace", "join", "abort", "returned", "dropped"}

\* The command of r is in the channel or in the hands of run_until.
Pending(r) == r \in Queued \/ r = cmd

\* What is known of a call of rebind at each of its stages.
CallShape(r) ==
  /\ caller[r] = "idle" => listener[r] = "unbound" /\ ~Pending(r) /\ r \notin served
  /\ caller[r] = "bound" => listener[r] = "bound" /\ ~Pending(r) /\ r \notin served
  /\ caller[r] = "sent" => Pending(r)
  /\ Pending(r) => /\ caller[r] \in {"sent", "gone"}
                   /\ listener[r] = "bound" /\ r \notin served
  /\ caller[r] = "ok" => r \in served
  /\ caller[r] = "err" => /\ listener[r] \in {"unbound", "closed"}
                          /\ r \notin served /\ ~Pending(r)
  /\ caller[r] = "gone" /\ ~Pending(r) => listener[r] \in {"current", "closed"}

\* What is known of the command, the channel and the listeners together.
LoopOwns ==
  /\ Rebinding => cmd \in Callers
  /\ ~Rebinding => cmd = NoCaller
  /\ cmd \notin Queued
  /\ Stopped => queue = << >> /\ ~rxOpen
  /\ {cur, Initial} \subseteq served
  /\ \A g \in Gens : listener[g] = "current" <=> (g = cur /\ ~Ended)
  /\ \A g \in served : listener[g] \in {"current", "closed"}

\* The inductive invariant for rebinds.
RebindInv == LoopOwns /\ \A r \in Callers : CallShape(r)

rebindVars == <<cmd, queue, rxOpen, caller, cur, listener, served>>

\* The channel holds one command or none.
LEMMA QueuedIs ==
  ASSUME ChanTypeOK
  PROVE  /\ queue = << >> => Queued = {}
         /\ \A r \in Callers : queue = <<r>> => Queued = {r}
         /\ queue = << >> \/ \E r \in Callers : queue = <<r>>
  <1>1. queue = << >> \/ \E r \in Callers : queue = <<r>>
    BY DEF ChanTypeOK
  <1>2. queue = << >> => Queued = {}
    BY DEF Queued
  <1>3. ASSUME NEW r \in Callers, queue = <<r>> PROVE Queued = {r}
    BY <1>3 DEF Queued
  <1> QED
    BY <1>1, <1>2, <1>3

\* The same of the next state.
LEMMA QueuedIsNext ==
  /\ queue' = << >> => Queued' = {}
  /\ \A r : queue' = <<r>> => Queued' = {r}
  BY DEF Queued

\* A step that leaves the channel, the callers and the listeners alone and
\* does not come to another part of run_until.
LEMMA RebindQuiet ==
  ASSUME RebindInv, UNCHANGED rebindVars,
         Rebinding' <=> Rebinding, Stopped' <=> Stopped, Ended' <=> Ended
  PROVE  RebindInv'
  <1>1. Queued' = Queued
    BY DEF rebindVars, Queued
  <1>2. LoopOwns'
    BY <1>1 DEF RebindInv, LoopOwns, rebindVars
  <1>3. ASSUME NEW r \in Callers PROVE CallShape(r)'
    BY <1>1 DEF RebindInv, CallShape, Pending, rebindVars
  <1> QED
    BY <1>2, <1>3 DEF RebindInv

\* The commands in the channel are dropped with it: their callers are told and
\* their listeners closed. So is the listener in service, if others says so.
LEMMA ChannelDropped ==
  ASSUME TypeOK, RebindInv, ~Rebinding, NEW others \in {{}, {cur}},
         queue' = << >>, rxOpen' = FALSE, caller' = Answer(Queued, "err"),
         listener' = [g \in Gens |-> IF g \in Queued \cup others THEN "closed"
                                     ELSE listener[g]],
         UNCHANGED <<cmd, cur, served>>,
         ~Rebinding', Stopped',
         Ended' <=> (Ended \/ others = {cur})
  PROVE  RebindInv'
  <1>t. /\ caller \in [Callers -> CallerStates] /\ cur \in Gens
        /\ listener \in [Gens -> ListenerStates] /\ served \subseteq Gens
    BY DEF TypeOK, ChanTypeOK, GenTypeOK, LoopTypeOK, HistTypeOK
  <1>q. Queued' = {} /\ Queued \subseteq Callers
    BY QueuedIsNext, QueuedIs DEF TypeOK
  <1>n. cmd = NoCaller /\ cmd' = NoCaller /\ NoCaller \notin Callers
    BY ServerAssumption DEF RebindInv, LoopOwns
  <1>i. \A r \in Queued : caller[r] \in {"sent", "gone"} /\ r \notin served
    BY <1>q DEF RebindInv, CallShape, Pending
  <1>1. LoopOwns'
    <2>1. \A g \in Gens : listener'[g] = "current" <=> (g = cur' /\ ~Ended')
      BY <1>t, <1>i DEF RebindInv, LoopOwns
    <2>2. \A g \in served' : listener'[g] \in {"current", "closed"}
      BY <1>t DEF RebindInv, LoopOwns
    <2> QED
      BY <1>q, <1>n, <2>1, <2>2 DEF RebindInv, LoopOwns
  <1>2. ASSUME NEW r \in Callers PROVE CallShape(r)'
    <2>1. CallShape(r) /\ r \in Gens
      BY DEF RebindInv, Gens
    <2>2. ~Pending(r)' /\ (Pending(r) <=> r \in Queued)
      BY <1>q, <1>n DEF Pending
    <2>3. caller'[r] = IF r \in Queued /\ caller[r] = "sent" THEN "err" ELSE caller[r]
      BY DEF Answer
    <2>4. listener'[r] = IF r \in Queued \cup others THEN "closed" ELSE listener[r]
      BY <2>1
    <2>5. r \in others => r \in served
      BY DEF RebindInv, LoopOwns
    <2> QED
      BY <2>1, <2>2, <2>3, <2>4, <2>5 DEF CallShape
  <1> QED
    BY <1>1, <1>2 DEF RebindInv

\* Only these steps touch the channel, the callers or the listeners.
RebindSteps ==
  \/ PollShutdown \/ PollRebind \/ RebindSwap \/ ShutdownListener \/ DropRunUntil
  \/ \E r \in Callers : Rebind(r)

\* Every other step leaves them alone and stays in its part of run_until.
LEMMA OtherStepsQuiet ==
  ASSUME TypeOK, [Next]_vars, ~RebindSteps
  PROVE  /\ UNCHANGED rebindVars
         /\ Rebinding' <=> Rebinding
         /\ Stopped' <=> Stopped
         /\ Ended' <=> Ended
  <1> USE DEF rebindVars, Rebinding, Stopped, Ended, PollFirst,
          loopVars, chanVars, genVars, connVars, histVars
  <1>1. CASE UNCHANGED vars
    BY <1>1 DEF vars
  <1>2. CASE AcquirePermit \/ AcceptError \/ BackoffOver \/ AcceptPending
    BY <1>2 DEF AcquirePermit, AcceptError, BackoffOver, AcceptPending
  <1>3. CASE \E c \in Conns : AcceptConn(c) \/ DrainBacklog(c)
    BY <1>3 DEF AcceptConn, DrainBacklog
  <1>4. CASE RebindFlag \/ DrainBacklogEnd
    BY <1>4 DEF RebindFlag, DrainBacklogEnd
  <1>5. CASE ShutdownFlag \/ ShutdownCancel \/ ShutdownSessions
    BY <1>5 DEF ShutdownFlag, ShutdownCancel, ShutdownSessions
  <1>6. CASE GraceCollected \/ JoinDone \/ GraceExpired \/ AbortDone
    BY <1>6 DEF GraceCollected, JoinDone, GraceExpired, AbortDone
  <1>7. CASE Signal
    BY <1>7 DEF Signal
  <1>8. CASE \E g \in Gens : GenerationDrain(g)
    BY <1>8 DEF GenerationDrain, DrainStart, DrainDone, DrainTimeout
  <1>9. CASE \E c \in Conns : Task(c)
    BY <1>9, TaskFrame
  <1>10. CASE \E c \in Conns : \E g \in Gens : Connect(c, g)
    BY <1>10 DEF Connect
  <1> QED
    BY <1>1, <1>2, <1>3, <1>4, <1>5, <1>6, <1>7, <1>8, <1>9, <1>10
    DEF Next, RunUntil, RebindSteps

\* A call of rebind moves on by itself: it binds, sends, fails or goes away.
\* The loop and the other callers do not notice.
LEMMA CallStep ==
  ASSUME TypeOK, RebindInv, NEW r \in Callers, Rebind(r)
  PROVE  RebindInv'
  <1>t. /\ caller \in [Callers -> CallerStates] /\ Callers \subseteq Gens
        /\ listener \in [Gens -> ListenerStates] /\ ChanTypeOK
        /\ served \subseteq Gens
    BY DEF TypeOK, ChanTypeOK, GenTypeOK, HistTypeOK, Gens
  <1>v. UNCHANGED <<pc, cmd, cur, rxOpen, served>>
    BY CallFrame
  <1>u. /\ UNCHANGED <<cmd, cur, rxOpen, served>>
        /\ Rebinding' <=> Rebinding
        /\ Stopped' <=> Stopped
        /\ Ended' <=> Ended
    BY <1>v DEF Rebinding, Stopped, Ended
  <1>s. CallShape(r)
    BY DEF RebindInv
  <1>o. LoopOwns
    BY DEF RebindInv
  \* r's own listener is bound or closed by r, and only before r is in service.
  <1>1. /\ caller' = [caller EXCEPT ![r] = caller'[r]]
        /\ listener' = [listener EXCEPT ![r] = listener'[r]]
        /\ caller[r] \in {"idle", "bound", "sent"}
    BY <1>t DEF Rebind, Bind, Send, CallerCancelled, genVars
  <1>2. CASE queue' = queue
    <2>q. Queued' = Queued
      BY <1>2 DEF Queued
    <2>1. \/ /\ caller[r] = "idle" /\ caller'[r] = "bound"
             /\ listener'[r] = "bound"
          \/ /\ caller[r] = "idle" /\ caller'[r] = "err" /\ listener'[r] = listener[r]
          \/ /\ caller[r] = "bound" /\ caller'[r] \in {"err", "gone"}
             /\ listener'[r] = "closed"
          \/ /\ caller[r] = "sent" /\ caller'[r] = "gone"
             /\ listener'[r] = listener[r]
      <3>1. CASE Bind(r)
        BY <3>1, <1>t DEF Bind
      <3>2. CASE Send(r)
        <4>1. queue # Append(queue, r)
          <5>1. queue \in Seq(Callers)
            <6>1. queue = << >> \/ \E q \in Callers : queue = <<q>>
              BY <1>t DEF ChanTypeOK
            <6>2. ASSUME NEW q \in Callers PROVE <<q>> \in Seq(Callers)
              OBVIOUS
            <6>3. << >> \in Seq(Callers)
              OBVIOUS
            <6> QED
              BY ONLY <6>1, <6>2, <6>3, Zenon
          <5>2. Len(Append(queue, r)) = Len(queue) + 1 /\ Len(queue) \in Nat
            BY ONLY <5>1, r \in Callers
          <5> QED
            BY ONLY <5>2
        <4> QED
          BY <3>2, <4>1, <1>2, <1>t DEF Send
      <3>3. CASE CallerCancelled(r)
        BY <3>3, <1>t DEF CallerCancelled
      <3> QED
        BY <3>1, <3>2, <3>3 DEF Rebind
    <2>2. CallShape(r)'
      BY <2>1, <2>q, <1>s, <1>u DEF CallShape, Pending
    <2>3. ASSUME NEW s \in Callers, s # r PROVE CallShape(s)'
      <3>1. CallShape(s) /\ caller'[s] = caller[s] /\ listener'[s] = listener[s]
        BY <1>1, <1>t, <2>3 DEF RebindInv
      <3> QED
        BY <3>1, <2>q, <1>u DEF CallShape, Pending
    <2>4. listener[r] # "current" /\ listener'[r] # "current" /\ r \notin served
      BY <2>1, <1>s, <1>1 DEF CallShape
    <2>5. \A g \in Gens : /\ listener'[g] = "current" <=> listener[g] = "current"
                          /\ g \in served => listener'[g] = listener[g]
      BY <2>4, <1>1, <1>t
    <2>6. LoopOwns'
      BY <2>5, <2>q, <1>2, <1>o, <1>u, <1>t DEF LoopOwns
    <2> QED
      BY <2>2, <2>3, <2>6 DEF RebindInv
  <1>3. CASE queue' # queue
    <2>1. /\ Send(r) /\ rxOpen /\ caller[r] = "bound" /\ caller'[r] = "sent"
          /\ listener' = listener /\ queue' = Append(queue, r) /\ Len(queue) < 1
      BY <1>3, <1>t DEF Rebind, Bind, Send, CallerCancelled
    <2>2. queue = << >>
      <3>1. ASSUME NEW s \in Callers PROVE ~(Len(<<s>>) < 1)
        OBVIOUS
      <3> QED
        BY <2>1, <3>1, <1>t, QueuedIs
    <2>n. queue' = <<r>>
      BY <2>1, <2>2
    <2>q. Queued = {} /\ Queued' = {r}
      BY <2>2, <2>n, <1>t, QueuedIs, QueuedIsNext
    <2>3. CallShape(r)'
      BY <2>1, <2>q, <1>s, <1>u DEF CallShape, Pending
    <2>4. ASSUME NEW s \in Callers, s # r PROVE CallShape(s)'
      <3>1. CallShape(s) /\ caller'[s] = caller[s]
        BY <1>1, <1>t, <2>4 DEF RebindInv
      <3> QED
        BY <3>1, <2>q, <2>1, <2>4, <1>u DEF CallShape, Pending
    <2>5. ~Stopped /\ r # cmd
      BY <2>1, <1>s, <1>o DEF LoopOwns, CallShape, Pending
    <2>6. LoopOwns'
      BY <2>1, <2>5, <2>q, <1>o, <1>u DEF LoopOwns
    <2> QED
      BY <2>3, <2>4, <2>6 DEF RebindInv
  <1> QED
    BY <1>2, <1>3

\* The loop takes the command out of the channel.
LEMMA CommandTaken ==
  ASSUME TypeOK, RebindInv, PollRebind, queue # << >>
  PROVE  RebindInv'
  <1>1. PICK r \in Callers : queue = <<r>>
    BY QueuedIs DEF TypeOK
  <1>2. /\ cmd' = r /\ queue' = << >> /\ pc = "poll_rebind" /\ pc' = "rb_flag"
        /\ UNCHANGED <<rxOpen, caller, listener, cur, served>>
    BY <1>1 DEF PollRebind, genVars
  <1>q. Queued = {r} /\ Queued' = {}
    BY <1>1, <1>2, QueuedIs, QueuedIsNext DEF TypeOK
  <1>p. /\ Rebinding' /\ ~Rebinding /\ ~Stopped' /\ ~Ended /\ ~Ended'
    BY <1>2 DEF Rebinding, Stopped, Ended
  <1>3. cmd = NoCaller /\ NoCaller \notin Callers
    BY <1>p, ServerAssumption DEF RebindInv, LoopOwns
  <1>4. LoopOwns'
    BY <1>2, <1>q, <1>p DEF RebindInv, LoopOwns
  <1>5. ASSUME NEW s \in Callers PROVE CallShape(s)'
    <2>1. Pending(s)' <=> Pending(s)
      BY <1>2, <1>q, <1>3 DEF Pending
    <2> QED
      BY <2>1, <1>2 DEF RebindInv, CallShape
  <1> QED
    BY <1>4, <1>5 DEF RebindInv

\* The listener in hand goes into service, the one before it is closed.
LEMMA CommandDone ==
  ASSUME TypeOK, RebindInv, RebindSwap
  PROVE  RebindInv'
  <1>t. /\ caller \in [Callers -> CallerStates] /\ cur \in Gens
        /\ listener \in [Gens -> ListenerStates] /\ served \subseteq Gens
        /\ Callers \subseteq Gens
    BY DEF TypeOK, ChanTypeOK, GenTypeOK, LoopTypeOK, HistTypeOK, Gens
  <1>p. /\ Rebinding /\ ~Rebinding' /\ ~Stopped' /\ ~Ended /\ ~Ended'
    BY DEF RebindSwap, PollFirst, Rebinding, Stopped, Ended
  <1>1. /\ cmd \in Callers /\ cmd \notin Queued /\ cur \in served
        /\ Initial \in served
    BY <1>p DEF RebindInv, LoopOwns
  <1>2. /\ cmd \notin served /\ caller[cmd] \in {"sent", "gone"}
        /\ listener[cmd] = "bound" /\ cmd # cur
    BY <1>1 DEF RebindInv, CallShape, Pending
  <1>3. /\ caller' = Answer({cmd}, "ok") /\ cur' = cmd /\ cmd' = NoCaller
        /\ served' = served \cup {cmd} /\ UNCHANGED <<queue, rxOpen>>
    BY DEF RebindSwap
  <1>q. Queued' = Queued
    BY <1>3 DEF Queued
  <1>4. \A g \in Gens : listener'[g] = IF g = cmd THEN "current"
                                       ELSE IF g = cur THEN "closed"
                                       ELSE listener[g]
    BY <1>t, <1>1, <1>2 DEF RebindSwap
  <1>5. LoopOwns'
    <2>1. \A g \in Gens : listener[g] = "current" <=> g = cur
      BY <1>p DEF RebindInv, LoopOwns
    <2>2. \A g \in Gens : listener'[g] = "current" <=> (g = cur' /\ ~Ended')
      BY <1>4, <1>3, <1>p, <1>2, <2>1
    <2>3. \A g \in served' : listener'[g] \in {"current", "closed"}
      BY <1>4, <1>3, <1>t, <1>1 DEF RebindInv, LoopOwns
    <2>4. NoCaller \notin Queued
      BY QueuedIs, ServerAssumption DEF TypeOK
    <2> QED
      BY <2>2, <2>3, <2>4, <1>3, <1>q, <1>p, <1>1 DEF LoopOwns
  <1>6. ASSUME NEW r \in Callers PROVE CallShape(r)'
    <2>1. CallShape(r)
      BY DEF RebindInv
    <2>2. caller'[r] = IF r = cmd /\ caller[r] = "sent" THEN "ok" ELSE caller[r]
      BY <1>3 DEF Answer
    <2>3. Pending(r)' <=> r \in Queued
      BY <1>3, <1>q, ServerAssumption DEF Pending
    <2>4. CASE r = cmd
      <3>1. caller'[r] \in {"ok", "gone"} /\ listener'[r] = "current"
            /\ ~Pending(r)' /\ r \in served'
        BY <2>2, <2>3, <2>4, <1>1, <1>2, <1>3, <1>4, <1>t
      <3> QED
        BY <3>1 DEF CallShape
    <2>5. CASE r # cmd
      <3>1. caller'[r] = caller[r] /\ (Pending(r)' <=> Pending(r))
            /\ (r \in served' <=> r \in served)
        BY <2>2, <2>3, <2>5, <1>3 DEF Pending
      <3>2. CASE r = cur
        <4>1. listener'[r] = "closed" /\ r \in served
          BY <3>2, <2>5, <1>4, <1>1, <1>t
        <4> QED
          BY <4>1, <3>1, <2>1 DEF CallShape
      <3>3. CASE r # cur
        <4>1. listener'[r] = listener[r]
          BY <3>3, <2>5, <1>4, <1>t
        <4> QED
          BY <4>1, <3>1, <2>1 DEF CallShape
      <3> QED
        BY <3>2, <3>3
    <2> QED
      BY <2>4, <2>5
  <1> QED
    BY <1>5, <1>6 DEF RebindInv

\* Graceful shutdown closes the listener in service.
LEMMA ServiceEnds ==
  ASSUME TypeOK, RebindInv, ShutdownListener
  PROVE  RebindInv'
  <1>t. /\ cur \in Gens /\ listener \in [Gens -> ListenerStates]
        /\ served \subseteq Gens /\ Callers \subseteq Gens
    BY DEF TypeOK, GenTypeOK, LoopTypeOK, HistTypeOK, Gens
  <1>p. /\ ~Rebinding' /\ ~Rebinding /\ Stopped' /\ Stopped /\ Ended'
    BY DEF ShutdownListener, Rebinding, Stopped, Ended
  <1>1. /\ UNCHANGED <<cmd, queue, rxOpen, caller, cur, served>>
        /\ listener' = [listener EXCEPT ![cur] = "closed"]
    BY DEF ShutdownListener, chanVars, histVars
  <1>q. Queued' = Queued
    BY <1>1 DEF Queued
  <1>2. \A g \in Gens : listener'[g] = IF g = cur THEN "closed" ELSE listener[g]
    BY <1>1, <1>t
  <1>3. LoopOwns'
    <2>1. \A g \in Gens : listener'[g] # "current"
      BY <1>2 DEF RebindInv, LoopOwns
    <2>2. \A g \in served' : listener'[g] \in {"current", "closed"}
      BY <1>2, <1>1, <1>t DEF RebindInv, LoopOwns
    <2> QED
      BY <2>1, <2>2, <1>1, <1>q, <1>p DEF RebindInv, LoopOwns
  <1>4. ASSUME NEW r \in Callers PROVE CallShape(r)'
    <2>1. CallShape(r) /\ (r = cur => r \in served)
      BY DEF RebindInv, LoopOwns
    <2>2. /\ caller'[r] = caller[r] /\ (Pending(r)' <=> Pending(r))
          /\ (r \in served' <=> r \in served)
      BY <1>1, <1>q DEF Pending
    <2>3. listener'[r] = IF r = cur THEN "closed" ELSE listener[r]
      BY <1>2, <1>t
    <2> QED
      BY <2>1, <2>2, <2>3 DEF CallShape
  <1> QED
    BY <1>3, <1>4 DEF RebindInv

\* Every step keeps what is known of the calls of rebind.
LEMMA RebindStep ==
  ASSUME TypeOK, RebindInv, [Next]_vars
  PROVE  RebindInv'
  <1>1. CASE ~RebindSteps
    BY <1>1, OtherStepsQuiet, RebindQuiet
  <1>2. CASE PollShutdown
    <2>1. CASE signal
      <3>1. /\ queue' = << >> /\ rxOpen' = FALSE
            /\ caller' = Answer(Queued, "err")
            /\ UNCHANGED <<cmd, cur, served>>
        BY <1>2, <2>1 DEF PollShutdown, histVars
      <3>2. listener' = [g \in Gens |-> IF g \in Queued \cup {} THEN "closed"
                                        ELSE listener[g]]
        BY <1>2, <2>1 DEF PollShutdown
      <3>3. ~Rebinding /\ ~Rebinding' /\ Stopped' /\ ~Ended /\ ~Ended'
        BY <1>2, <2>1 DEF PollShutdown, Rebinding, Stopped, Ended
      <3> QED
        BY <3>1, <3>2, <3>3, ChannelDropped
    <2>2. CASE ~signal
      <3>1. UNCHANGED rebindVars
        BY <1>2, <2>2 DEF PollShutdown, chanVars, histVars, rebindVars
      <3>2. /\ Rebinding' <=> Rebinding
            /\ Stopped' <=> Stopped
            /\ Ended' <=> Ended
        BY <1>2, <2>2 DEF PollShutdown, Rebinding, Stopped, Ended
      <3> QED
        BY <3>1, <3>2, RebindQuiet
    <2> QED
      BY <2>1, <2>2
  <1>3. CASE PollRebind
    <2>1. CASE queue = << >>
      <3>1. UNCHANGED rebindVars
        BY <1>3, <2>1 DEF PollRebind, genVars, rebindVars
      <3>2. /\ Rebinding' <=> Rebinding
            /\ Stopped' <=> Stopped
            /\ Ended' <=> Ended
        BY <1>3, <2>1 DEF PollRebind, Rebinding, Stopped, Ended
      <3> QED
        BY <3>1, <3>2, RebindQuiet
    <2> QED
      BY <1>3, <2>1, CommandTaken
  <1>4. CASE DropRunUntil
    <2>1. /\ queue' = << >> /\ rxOpen' = FALSE
          /\ caller' = Answer(Queued, "err")
          /\ listener' = [g \in Gens |-> IF g \in Queued \cup {cur}
                                         THEN "closed" ELSE listener[g]]
          /\ UNCHANGED <<cmd, cur, served>>
      BY <1>4 DEF DropRunUntil, histVars
    <2>2. ~Rebinding /\ ~Rebinding' /\ Stopped' /\ Ended'
      BY <1>4 DEF DropRunUntil, Rebinding, Stopped, Ended
    <2> QED
      BY <2>1, <2>2, ChannelDropped
  <1> QED
    BY <1>1, <1>2, <1>3, <1>4, CommandDone, ServiceEnds, CallStep DEF RebindSteps

\* The invariant says what rebind promises: its answers are true and every
\* bound listener has an owner.
LEMMA RebindInvTruthful ==
  ASSUME TypeOK, RebindInv
  PROVE  RebindTruthful
  <1>1. RebindAnswersTrue
    <2> SUFFICES ASSUME NEW r \in Callers
                 PROVE  /\ caller[r] = "ok" => /\ r \in served
                                               /\ listener[r] \in {"current", "closed"}
                        /\ caller[r] = "err" => /\ r \notin served
                                                /\ listener[r] \in {"unbound", "closed"}
      BY DEF RebindAnswersTrue
    <2> QED
      BY DEF RebindInv, LoopOwns, CallShape
  <1>2. {g \in Gens : listener[g] = "current"} = IF Ended THEN {} ELSE {cur}
    BY DEF RebindInv, LoopOwns, TypeOK, LoopTypeOK
  <1>3. ASSUME NEW g \in Gens, listener[g] = "bound"
        PROVE  g \in Queued \/ g = cmd \/ (g \in Callers /\ caller[g] = "bound")
    <2>1. g \in Callers /\ g \notin served
      BY <1>3 DEF RebindInv, LoopOwns, Gens
    <2>2. CallShape(g) /\ caller[g] \in CallerStates
      BY <2>1 DEF RebindInv, TypeOK, ChanTypeOK
    <2> QED
      BY <1>3, <2>1, <2>2 DEF CallShape, Pending, CallerStates
  <1> QED
    BY <1>1, <1>2, <1>3 DEF RebindTruthful, ListenersOwned, Ended

\* RebindHandle::rebind and run_until, for any number of callers: Ok exactly
\* when the listener went into service, after an Err the address is free, one
\* listener in service while the loop runs, and no bound listener without an
\* owner, through shutdown, cancelled callers and a dropped run_until.
THEOREM RebindIsTruthful == Spec => []RebindTruthful
  <1>1. Init => RebindInv
    <2> SUFFICES ASSUME Init PROVE RebindInv
      OBVIOUS
    <2>1. Queued = {}
      BY DEF Init, Queued
    <2>2. ~Rebinding /\ ~Stopped /\ ~Ended
      BY DEF Init, PollFirst, Rebinding, Stopped, Ended
    <2>3. LoopOwns
      BY <2>1, <2>2 DEF Init, LoopOwns, Gens
    <2>4. ASSUME NEW r \in Callers PROVE CallShape(r)
      BY <2>1, ServerAssumption DEF Init, CallShape, Pending, Gens
    <2> QED
      BY <2>3, <2>4 DEF RebindInv
  <1>2. PermitsAccounted => TypeOK
    BY DEF PermitsAccounted
  <1>3. TypeOK /\ RebindInv /\ [Next]_vars => RebindInv'
    BY RebindStep
  <1>4. TypeOK /\ RebindInv => RebindTruthful
    BY RebindInvTruthful
  <1> QED
    BY <1>1, <1>2, <1>3, <1>4, PermitsAreConserved, PTL DEF Spec

-----------------------------------------------------------------------------
(* Shutdown, one lemma per promise.                                        *)

\* After the poll that took an accept or a rebind too late, the loop comes to
\* the shutdown future before anything else.
LateShape ==
  /\ late \in {0, 1}
  /\ late = 1 => signal /\ (Rebinding \/ pc = "poll_shutdown" \/ Stopped)

\* Every step keeps it.
LEMMA LateStep ==
  ASSUME TypeOK, LateShape, [Next]_vars
  PROVE  LateShape'
  <1> USE DEF LateShape, Rebinding, Stopped, PollFirst,
          loopVars, chanVars, genVars, connVars, histVars
  <1>1. CASE UNCHANGED vars
    BY <1>1 DEF vars
  <1>2. CASE PollShutdown
    BY <1>2 DEF PollShutdown
  <1>3. CASE PollRebind
    BY <1>3 DEF PollRebind
  <1>4. CASE \E c \in Conns : AcceptConn(c)
    BY <1>4 DEF AcceptConn
  <1>5. CASE \E c \in Conns : DrainBacklog(c)
    BY <1>5 DEF DrainBacklog
  <1>6. CASE AcquirePermit \/ AcceptError \/ BackoffOver \/ AcceptPending
    BY <1>6 DEF AcquirePermit, AcceptError, BackoffOver, AcceptPending
  <1>7. CASE RebindFlag \/ DrainBacklogEnd \/ RebindSwap
    BY <1>7 DEF RebindFlag, DrainBacklogEnd, RebindSwap
  <1>8. CASE ShutdownFlag \/ ShutdownCancel \/ ShutdownSessions \/ ShutdownListener
    BY <1>8 DEF ShutdownFlag, ShutdownCancel, ShutdownSessions, ShutdownListener
  <1>9. CASE GraceCollected \/ JoinDone \/ GraceExpired \/ AbortDone \/ DropRunUntil
    BY <1>9 DEF GraceCollected, JoinDone, GraceExpired, AbortDone, DropRunUntil
  <1>10. CASE Signal
    BY <1>10 DEF Signal
  <1>11. CASE \E g \in Gens : GenerationDrain(g)
    <2>1. UNCHANGED <<loopVars, histVars>>
      BY <1>11 DEF GenerationDrain, DrainStart, DrainDone, DrainTimeout
    <2> QED
      BY <2>1
  <1>12. CASE \E r \in Callers : Rebind(r)
    BY <1>12, CallFrame
  <1>13. CASE \E c \in Conns : Task(c)
    BY <1>13, TaskFrame
  <1>14. CASE \E c \in Conns : \E g \in Gens : Connect(c, g)
    BY <1>14 DEF Connect
  <1> QED
    BY <1>1, <1>2, <1>3, <1>4, <1>5, <1>6, <1>7, <1>8, <1>9, <1>10, <1>11,
       <1>12, <1>13, <1>14 DEF Next, RunUntil

\* A connection that began a request after its flag never waits for another:
\* that request's keep_alive is FALSE.
AfterShape(c) ==
  /\ after[c] \in {0, 1}
  /\ after[c] = 1 => /\ conn[c] \notin {"new", "backlog", "drained", "idle"}
                     /\ conn[c] = "busy" => ka[c] = FALSE

\* What a step may do to a connection without reading a request.
LEMMA AfterKept ==
  ASSUME NEW c \in Conns, AfterShape(c),
         after'[c] = after[c], ka'[c] = ka[c],
         \/ conn'[c] = conn[c]
         \/ conn[c] \in {"new", "backlog", "drained", "idle"}
         \/ conn'[c] \in {"closed", "reset", "upgrade", "ws_start", "ws"}
  PROVE  AfterShape(c)'
  BY DEF AfterShape

\* Every step keeps it, for every connection.
LEMMA AfterStep ==
  ASSUME TypeOK, [Next]_vars, \A d \in Conns : AfterShape(d), NEW c \in Conns
  PROVE  AfterShape(c)'
  <1>t. /\ conn \in [Conns -> ConnStates] /\ ka \in [Conns -> BOOLEAN]
        /\ after \in [Conns -> Nat] /\ gen \in [Conns -> Gens]
        /\ flag \in [Gens -> BOOLEAN]
    BY DEF TypeOK, ConnTypeOK, HistTypeOK, GenTypeOK
  <1> DEFINE Quiet == /\ after'[c] = after[c] /\ ka'[c] = ka[c]
                      /\ \/ conn'[c] = conn[c]
                         \/ conn[c] \in {"new", "backlog", "drained", "idle"}
                         \/ conn'[c] \in {"closed", "reset", "upgrade",
                                          "ws_start", "ws"}
  <1>q. Quiet => AfterShape(c)'
    BY AfterKept
  <1> USE DEF loopVars, chanVars, genVars, connVars, histVars
  <1>1. CASE UNCHANGED vars
    <2>1. Quiet
      BY <1>1 DEF vars
    <2> QED
      BY <2>1, <1>q
  <1>2. CASE \/ PollShutdown \/ ShutdownListener \/ DropRunUntil
             \/ \E r \in Callers : Rebind(r)
    <2>1. UNCHANGED <<after, ka>>
      BY <1>2, CallFrame DEF PollShutdown, ShutdownListener, DropRunUntil
    <2>2. conn' = conn \/ \E closing : conn' = Reset(closing)
      BY <1>2, CallFrame DEF PollShutdown, ShutdownListener, DropRunUntil
    <2>3. Quiet
      BY <2>1, <2>2 DEF Reset
    <2> QED
      BY <2>3, <1>q
  <1>3. CASE \E d \in Conns : \/ AcceptConn(d) \/ DrainBacklog(d)
                             \/ \E g \in Gens : Connect(d, g)
    <2>1. Quiet
      BY <1>3, <1>t DEF AcceptConn, DrainBacklog, Connect, Backlog
    <2> QED
      BY <2>1, <1>q
  <1>4. CASE RebindSwap
    <2>1. Quiet
      BY <1>4 DEF RebindSwap
    <2> QED
      BY <2>1, <1>q
  <1>5. CASE \/ PollRebind \/ AcquirePermit \/ AcceptError \/ BackoffOver
             \/ AcceptPending \/ RebindFlag \/ DrainBacklogEnd
             \/ ShutdownFlag \/ ShutdownCancel \/ ShutdownSessions
             \/ GraceCollected \/ JoinDone \/ GraceExpired \/ AbortDone
             \/ Signal \/ \E g \in Gens : GenerationDrain(g)
    <2>1. UNCHANGED <<after, ka, conn>>
      BY <1>5 DEF PollRebind, AcquirePermit, AcceptError, BackoffOver,
         AcceptPending, RebindFlag, DrainBacklogEnd, ShutdownFlag,
         ShutdownCancel, ShutdownSessions, GraceCollected, JoinDone,
         GraceExpired, AbortDone, Signal, GenerationDrain, DrainStart,
         DrainDone, DrainTimeout
    <2> QED
      BY <2>1, <1>q
  <1>6. CASE \E d \in Conns : ReadRequest(d)
    <2>1. PICK d \in Conns : ReadRequest(d)
      BY <1>6
    <2>2. CASE d # c
      <3>1. Quiet
        BY <2>1, <2>2, <1>t DEF ReadRequest
      <3> QED
        BY <3>1, <1>q
    <2>3. CASE d = c
      <3>1. PICK k \in KeepAlive(c) : ka' = [ka EXCEPT ![c] = k]
        BY <2>1, <2>3 DEF ReadRequest
      <3>2. after[c] = 0 /\ conn'[c] = "busy" /\ ka'[c] = k
        BY <2>1, <2>3, <3>1, <1>t DEF ReadRequest, AfterShape
      <3>3. CASE flag[gen[c]]
        <4>1. ka'[c] = FALSE
          BY <3>2, <3>3 DEF KeepAlive
        <4>2. after'[c] = 1
          BY <2>1, <2>3, <3>2, <3>3, <1>t DEF ReadRequest
        <4> QED
          BY <3>2, <4>1, <4>2 DEF AfterShape
      <3>4. CASE ~flag[gen[c]]
        BY <2>1, <2>3, <3>2, <3>4, <1>t DEF ReadRequest, AfterShape
      <3> QED
        BY <3>3, <3>4
    <2> QED
      BY <2>2, <2>3
  <1>7. CASE \E d \in Conns : \E rejected \in BOOLEAN : Respond(d, rejected)
    <2>1. PICK d \in Conns, rejected \in BOOLEAN : Respond(d, rejected)
      BY <1>7
    <2>2. UNCHANGED <<after, ka>>
      BY <2>1 DEF Respond
    <2>3. CASE d = c /\ conn'[c] = "idle"
      <3>1. ka[c] = TRUE /\ conn[c] = "busy"
        BY <2>1, <2>3, <1>t DEF Respond
      <3>2. after[c] = 0
        BY <3>1 DEF AfterShape
      <3> QED
        BY <2>2, <3>2 DEF AfterShape
    <2>4. CASE ~(d = c /\ conn'[c] = "idle")
      <3>1. Quiet
        BY <2>1, <2>2, <2>4, <1>t DEF Respond
      <3> QED
        BY <3>1, <1>q
    <2> QED
      BY <2>3, <2>4
  <1>8. CASE \E d \in Conns : \/ CloseConn(d) \/ CheckUpgrade(d)
                             \/ TryHandleUpgrade(d) \/ SessionStart(d)
                             \/ SessionEnd(d) \/ AbortTask(d)
    <2>1. Quiet
      BY <1>8, <1>t DEF CloseConn, CheckUpgrade, TryHandleUpgrade,
         SessionStart, SessionEnd, AbortTask
    <2> QED
      BY <2>1, <1>q
  <1> QED
    BY <1>1, <1>2, <1>3, <1>4, <1>5, <1>6, <1>7, <1>8 DEF Next, RunUntil, Task

\* The plugins' drains come after the flag and the cancel signal of their
\* generation.
SessionShape ==
  /\ FinalDrainIsLast
  /\ \A g \in Gens : drain[g] = "start" => flag[g]
  /\ pc \in {"rb_backlog", "rb_swap", "sd_cancel", "sd_sessions"} => flag[cur]
  /\ pc = "sd_sessions" => cancel[cur]

\* Every step keeps it.
LEMMA SessionStep ==
  ASSUME TypeOK, SessionShape, [Next]_vars
  PROVE  SessionShape'
  <1>t. /\ cur \in Gens /\ flag \in [Gens -> BOOLEAN]
        /\ cancel \in [Gens -> BOOLEAN] /\ drain \in [Gens -> DrainStates]
        /\ sessions \in [Gens -> SessionDrains]
    BY DEF TypeOK, LoopTypeOK, GenTypeOK
  <1> USE <1>t DEF SessionShape, FinalDrainIsLast, Stopped, PollFirst,
          loopVars, chanVars, genVars, connVars, histVars
  <1>1. CASE UNCHANGED vars
    BY <1>1 DEF vars
  <1>2. CASE PollShutdown
    BY <1>2 DEF PollShutdown
  <1>3. CASE PollRebind
    BY <1>3 DEF PollRebind
  <1>4. CASE \E c \in Conns : AcceptConn(c) \/ DrainBacklog(c)
    BY <1>4 DEF AcceptConn, DrainBacklog
  <1>5. CASE AcquirePermit \/ AcceptError \/ BackoffOver \/ AcceptPending
    BY <1>5 DEF AcquirePermit, AcceptError, BackoffOver, AcceptPending
  <1>6. CASE RebindFlag
    BY <1>6 DEF RebindFlag
  <1>7. CASE DrainBacklogEnd
    BY <1>7 DEF DrainBacklogEnd
  <1>8. CASE RebindSwap
    BY <1>8 DEF RebindSwap
  <1>9. CASE ShutdownFlag
    BY <1>9 DEF ShutdownFlag
  <1>10. CASE ShutdownCancel
    BY <1>10 DEF ShutdownCancel
  <1>11. CASE ShutdownSessions
    BY <1>11 DEF ShutdownSessions
  <1>12. CASE ShutdownListener \/ GraceCollected \/ JoinDone
    BY <1>12 DEF ShutdownListener, GraceCollected, JoinDone
  <1>13. CASE GraceExpired \/ AbortDone
    BY <1>13 DEF GraceExpired, AbortDone
  <1>14. CASE DropRunUntil
    BY <1>14 DEF DropRunUntil
  <1>15. CASE Signal
    BY <1>15 DEF Signal
  <1>16. CASE \E g \in Gens : DrainStart(g)
    BY SMTT(30), <1>16 DEF DrainStart
  <1>17. CASE \E g \in Gens : DrainDone(g) \/ DrainTimeout(g)
    <2>1. UNCHANGED <<pc, cur, flag, cancel, sessions>>
      BY <1>17 DEF DrainDone, DrainTimeout
    <2>2. \E g \in Gens : \E d \in {"done", "aborting"} : drain' = [drain EXCEPT ![g] = d]
      BY <1>17 DEF DrainDone, DrainTimeout
    <2>3. \A g \in Gens : drain'[g] = "start" => flag'[g]
      BY <2>1, <2>2
    <2> QED
      BY <2>1, <2>3
  <1>18. CASE \E r \in Callers : Rebind(r)
    BY <1>18, CallFrame
  <1>19. CASE \E c \in Conns : Task(c)
    BY <1>19, TaskFrame
  <1>20. CASE \E c \in Conns : \E g \in Gens : Connect(c, g)
    <2>1. UNCHANGED <<pc, cur, genVars>>
      BY <1>20 DEF Connect
    <2> QED
      BY <2>1
  <1> QED
    BY <1>1, <1>2, <1>3, <1>4, <1>5, <1>6, <1>7, <1>8, <1>9, <1>10, <1>11,
       <1>12, <1>13, <1>14, <1>15, <1>16, <1>17, <1>18, <1>19, <1>20
    DEF Next, RunUntil, GenerationDrain

\* Once the permits were collected, nobody holds one ever again.
CleanShape == clean => Stopped /\ Holders = {}

\* After the loop, a permit is only ever given back.
LEMMA StoppedHolders ==
  ASSUME TypeOK, [Next]_vars, Stopped
  PROVE  Stopped' /\ Holders' \subseteq Holders
  <1>t. conn \in [Conns -> ConnStates]
    BY DEF TypeOK, ConnTypeOK
  <1>1. Stopped'
    <2> USE DEF Stopped, loopVars
    <2>1. CASE UNCHANGED vars
      BY <2>1 DEF vars
    <2>2. CASE RunUntil
      BY <2>2 DEF RunUntil, PollShutdown, PollRebind, AcquirePermit,
         AcceptError, BackoffOver, AcceptPending, AcceptConn, DrainBacklog,
         RebindFlag, DrainBacklogEnd, RebindSwap, ShutdownFlag,
         ShutdownCancel, ShutdownSessions, ShutdownListener, GraceCollected,
         JoinDone, GraceExpired, AbortDone
    <2>3. CASE DropRunUntil \/ Signal
      BY <2>3 DEF DropRunUntil, Signal
    <2>4. CASE \E g \in Gens : GenerationDrain(g)
      BY <2>4 DEF GenerationDrain, DrainStart, DrainDone, DrainTimeout
    <2>5. CASE \E r \in Callers : Rebind(r)
      BY <2>5, CallFrame
    <2>6. CASE \E c \in Conns : Task(c)
      BY <2>6, TaskFrame
    <2>7. CASE \E c \in Conns : \E g \in Gens : Connect(c, g)
      BY <2>7 DEF Connect
    <2> QED
      BY <2>1, <2>2, <2>3, <2>4, <2>5, <2>6, <2>7 DEF Next
  <1>2. Holders' \subseteq Holders
    <2> USE <1>t DEF Holders, HoldingStates, TaskStates, connVars
    <2>1. CASE UNCHANGED vars
      BY <2>1 DEF vars
    <2>2. CASE RunUntil
      <3>1. \/ ShutdownFlag \/ ShutdownCancel \/ ShutdownSessions
            \/ GraceCollected \/ JoinDone \/ GraceExpired \/ AbortDone
            \/ ShutdownListener
        BY <2>2 DEF Stopped, RunUntil, PollShutdown, PollRebind, AcquirePermit,
           AcceptError, BackoffOver, AcceptPending, AcceptConn, DrainBacklog,
           RebindFlag, DrainBacklogEnd, RebindSwap
      <3>2. conn' = conn \/ \E closing : conn' = Reset(closing)
        BY <3>1 DEF ShutdownFlag, ShutdownCancel, ShutdownSessions,
           GraceCollected, JoinDone, GraceExpired, AbortDone, ShutdownListener
      <3> QED
        BY <3>2 DEF Reset
    <2>3. CASE DropRunUntil \/ Signal
      BY <2>3 DEF DropRunUntil, Signal, Reset
    <2>4. CASE \E g \in Gens : GenerationDrain(g)
      BY <2>4 DEF GenerationDrain, DrainStart, DrainDone, DrainTimeout
    <2>5. CASE \E r \in Callers : Rebind(r)
      <3>1. conn' = conn \/ \E closing : conn' = Reset(closing)
        BY <2>5, CallFrame
      <3> QED
        BY <3>1 DEF Reset
    <2>6. CASE \E c \in Conns : Task(c)
      <3>1. PICK c \in Conns : c \in Holders /\ \E s : conn' = [conn EXCEPT ![c] = s]
        BY <2>6, TaskFrame
      <3> QED
        BY <3>1
    <2>7. CASE \E c \in Conns : \E g \in Gens : Connect(c, g)
      BY <2>7 DEF Connect
    <2> QED
      BY <2>1, <2>2, <2>3, <2>4, <2>5, <2>6, <2>7 DEF Next
  <1> QED
    BY <1>1, <1>2

\* Every step keeps it, as the permits are accounted for.
LEMMA CleanStep ==
  ASSUME PermitCount <= MaxU32, PermitsAccounted, CleanShape, [Next]_vars
  PROVE  CleanShape'
  <1>1. CASE GraceCollected
    <2>1. PermitTotal = PermitCount
      BY ServerAssumption DEF PermitTotal, PermitCount
    <2>2. Cardinality(Holders) = 0
      <3>1. /\ free \in Nat /\ PermitCount \in Nat /\ InHand \in Nat
            /\ Cardinality(Holders) \in Nat
        BY PermitTypes, InHandType, HoldersFinite DEF PermitsAccounted, TypeOK
      <3>2. free >= PermitCount
        BY <1>1, <2>1 DEF GraceCollected
      <3> QED
        BY <3>1, <3>2 DEF PermitsAccounted, PermitsConserved
    <2>3. Holders = {}
      BY <2>2, HoldersFinite, FS_EmptySet
    <2>4. Stopped
      BY <1>1 DEF GraceCollected, Stopped
    <2> QED
      BY <2>3, <2>4, StoppedHolders DEF PermitsAccounted, CleanShape
  <1>2. CASE ~GraceCollected
    <2>1. clean' = clean
      <3> USE DEF histVars
      <3>1. CASE UNCHANGED vars
        BY <3>1 DEF vars
      <3>2. CASE RunUntil
        BY <1>2, <3>2 DEF RunUntil, PollShutdown, PollRebind, AcquirePermit,
           AcceptError, BackoffOver, AcceptPending, AcceptConn, DrainBacklog,
           RebindFlag, DrainBacklogEnd, RebindSwap, ShutdownFlag,
           ShutdownCancel, ShutdownSessions, ShutdownListener, JoinDone,
           GraceExpired, AbortDone
      <3>3. CASE DropRunUntil \/ Signal
        BY <3>3 DEF DropRunUntil, Signal
      <3>4. CASE \E g \in Gens : GenerationDrain(g)
        BY <3>4 DEF GenerationDrain, DrainStart, DrainDone, DrainTimeout
      <3>5. CASE \E r \in Callers : Rebind(r)
        BY <3>5, CallFrame
      <3>6. CASE \E c \in Conns : Task(c)
        BY <3>6, TaskFrame
      <3>7. CASE \E c \in Conns : \E g \in Gens : Connect(c, g)
        BY <3>7 DEF Connect
      <3> QED
        BY <3>1, <3>2, <3>3, <3>4, <3>5, <3>6, <3>7 DEF Next
    <2>2. CASE clean
      BY <2>2, StoppedHolders DEF PermitsAccounted, CleanShape
    <2>3. CASE ~clean
      BY <2>1, <2>3 DEF CleanShape
    <2> QED
      BY <2>2, <2>3
  <1> QED
    BY <1>1, <1>2

\* The inductive invariant for shutdown.
ShutdownInv ==
  /\ LateShape /\ SessionShape /\ CleanShape
  /\ \A c \in Conns : AfterShape(c)

\* Graceful shutdown of run_until, for any number of connections, generations
\* and permits, as long as permit_total can count the permits (the code casts
\* them to u32): shutdown goes first, a connection begins one more request at
\* most, the plugins' final drain comes last, and a clean return leaves no
\* connection and no session behind.
THEOREM ShutdownIsOrderly == PermitCount <= MaxU32 /\ Spec => []ShutdownOrderly
  <1> SUFFICES ASSUME PermitCount <= MaxU32 PROVE Spec => []ShutdownOrderly
    OBVIOUS
  <1>1. Init => ShutdownInv
    BY DEF Init, PollFirst, ShutdownInv, LateShape, SessionShape, CleanShape,
       FinalDrainIsLast, AfterShape
  <1>2. PermitsAccounted /\ ShutdownInv /\ [Next]_vars => ShutdownInv'
    <2> SUFFICES ASSUME PermitsAccounted, ShutdownInv, [Next]_vars
                 PROVE  ShutdownInv'
      OBVIOUS
    <2>1. TypeOK
      BY DEF PermitsAccounted
    <2>2. LateShape'
      BY <2>1, LateStep DEF ShutdownInv
    <2>3. SessionShape'
      BY <2>1, SessionStep DEF ShutdownInv
    <2>4. CleanShape'
      BY CleanStep DEF ShutdownInv
    <2>5. ASSUME NEW c \in Conns PROVE AfterShape(c)'
      BY <2>1, AfterStep DEF ShutdownInv
    <2> QED
      BY <2>2, <2>3, <2>4, <2>5 DEF ShutdownInv
  <1>3. ShutdownInv => ShutdownOrderly
    <2> SUFFICES ASSUME ShutdownInv PROVE ShutdownOrderly
      OBVIOUS
    <2>1. ShutdownGoesFirst
      BY DEF ShutdownInv, LateShape, ShutdownGoesFirst
    <2>2. AtMostOneRequestAfterFlag
      BY DEF ShutdownInv, AfterShape, AtMostOneRequestAfterFlag
    <2>3. FinalDrainIsLast /\ CleanReturnIsEmpty
      BY DEF ShutdownInv, SessionShape, CleanShape, CleanReturnIsEmpty
    <2> QED
      BY <2>1, <2>2, <2>3 DEF ShutdownOrderly
  <1> QED
    BY <1>1, <1>2, <1>3, PermitsAreConserved, PTL DEF Spec
=============================================================================
