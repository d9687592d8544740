------------------------------- MODULE Server -------------------------------
(***************************************************************************)
(* The life of a BoundServer (crates/core/src/server.rs): the accept loop  *)
(* of run_until, the connection semaphore, live rebinding of the listener  *)
(* in generations, the background drain of a retired generation, graceful  *)
(* shutdown with its grace period, and the connection tasks and delegated  *)
(* WebSocket tasks as far as they touch those.                             *)
(*                                                                         *)
(* A generation is named after its listener: Initial is the listener of    *)
(* Server::bind, and each call of RebindHandle::rebind brings its own.     *)
(* Timers are choices: a timeout may fire at any moment after it is armed, *)
(* and fairness says that it does in the end.                              *)
(***************************************************************************)
EXTENDS Integers, Sequences, FiniteSets

CONSTANTS
  Conns,           \* client connections, numbered as they come
  Callers,         \* calls of RebindHandle::rebind, numbered likewise
  Initial,         \* the listener of Server::bind
  NoCaller,        \* "no rebind command in hand"
  MaxConnections,  \* Server::max_connections
  MaxU32,          \* u32::MAX, the most acquire_many_owned can ask for
  BacklogLimit,    \* REBIND_BACKLOG_DRAIN_LIMIT
  MaxArrivals      \* bound: connections and calls of rebind altogether

ASSUME ServerAssumption ==
  /\ Conns \subseteq Nat /\ IsFiniteSet(Conns)
  /\ Callers \subseteq Nat
  /\ Initial \notin Callers
  /\ NoCaller \notin Callers
  /\ MaxConnections \in Nat
  /\ MaxU32 \in Nat \ {0}
  /\ BacklogLimit \in Nat
  /\ MaxArrivals \in Nat

Gens == Callers \cup {Initial}

PermitCount == IF MaxConnections = 0 THEN 1 ELSE MaxConnections

\* Mutation of PermitTotal: one permit too few is asked for.
PermitTotalShort == PermitCount - 1

PermitTotal == IF PermitCount <= MaxU32 THEN PermitCount ELSE MaxU32

VARIABLES
  pc,       \* where run_until stands
  accept,   \* the accept future of this loop iteration
  cur,      \* the current generation
  cmd,      \* the RebindCommand taken from the channel
  budget,   \* what is left of BacklogLimit while a backlog is drained
  queue,    \* the rebind channel, mpsc::channel(1)
  rxOpen,   \* rebind_rx has not been dropped
  signal,   \* the shutdown future is ready
  free,     \* permits in the semaphore
  flag,     \* each generation's shutdown_flag
  cancel,   \* each generation's cancel signal, as its subscribers see it
  listener, \* each generation's TcpListener
  drain,    \* each generation's background drain
  sessions, \* the SessionDrain fired for each generation
  caller,   \* each call of rebind
  conn,     \* each connection
  gen,      \* the generation a connection belongs to
  ka,       \* keep_alive of the request being served
  late,     \* history: accepts and rebinds taken after the signal
  after,    \* history: requests a connection began after its flag was set
  served,   \* history: generations that have been current
  clean     \* history: run_until collected PermitTotal within the grace

loopVars == <<pc, accept, cur, cmd, budget, signal>>
chanVars == <<queue, rxOpen, caller>>
genVars  == <<flag, cancel, listener, drain, sessions>>
connVars == <<conn, gen, ka>>
histVars == <<late, after, served, clean>>
vars == <<loopVars, chanVars, genVars, connVars, histVars, free>>

PcStates == {"poll_shutdown", "poll_rebind", "poll_accept",
             "rb_flag", "rb_backlog", "rb_swap",
             "sd_flag", "sd_cancel", "sd_sessions", "sd_listener",
             "grace", "join", "abort", "returned", "dropped"}
ListenerStates == {"unbound", "bound", "current", "closed"}
CallerStates == {"idle", "bound", "sent", "ok", "err", "gone"}
DrainStates == {"none", "start", "waiting", "aborting", "done"}
SessionDrains == {"none", "active_peers", "final"}
ConnStates == {"new", "backlog", "drained", "idle", "busy", "upgrade",
               "ws_start", "ws", "closed", "reset"}

\* A task in some generation's JoinSet.
TaskStates == {"idle", "busy", "upgrade"}
\* Whatever owns an OwnedSemaphorePermit.
HoldingStates == TaskStates \cup {"drained", "ws_start", "ws"}

Tasks(g) == {c \in Conns : gen[c] = g /\ conn[c] \in TaskStates}
Holders == {c \in Conns : conn[c] \in HoldingStates}
Backlog(g) == {c \in Conns : gen[c] = g /\ conn[c] = "backlog"}

\* run_until has left the accept loop.
Stopped == pc \in {"sd_flag", "sd_cancel", "sd_sessions", "sd_listener",
                   "grace", "join", "abort", "returned", "dropped"}

\* Mutation of PollFirst: the rebind channel is looked at, the shutdown not.
PollFirstRebind == "poll_rebind"

\* race_shutdown_or_accept polls in this order, from the start every time:
\* "poll_shutdown", "poll_rebind", "poll_accept".
PollFirst == "poll_shutdown"

Init ==
  /\ pc = PollFirst
  /\ accept = "acquire"
  /\ cur = Initial
  /\ cmd = NoCaller
  /\ budget = 0
  /\ queue = << >>
  /\ rxOpen = TRUE
  /\ signal = FALSE
  /\ free = PermitCount
  /\ flag = [g \in Gens |-> FALSE]
  /\ cancel = [g \in Gens |-> FALSE]
  /\ listener = [g \in Gens |-> IF g = Initial THEN "current" ELSE "unbound"]
  /\ drain = [g \in Gens |-> "none"]
  /\ sessions = [g \in Gens |-> "none"]
  /\ caller = [r \in Callers |-> "idle"]
  /\ conn = [c \in Conns |-> "new"]
  /\ gen = [c \in Conns |-> Initial]
  /\ ka = [c \in Conns |-> FALSE]
  /\ late = 0
  /\ after = [c \in Conns |-> 0]
  /\ served = {Initial}
  /\ clean = FALSE

-----------------------------------------------------------------------------
(* What several operations share.                                          *)

\* Mutation of DropAccept: a permit comes back that was never taken.
DropAcceptTwice ==
  /\ free' = free + 1
  /\ accept' = "acquire"

\* Dropping the accept future gives its permit back.
DropAccept ==
  /\ free' = IF accept = "permit" THEN free + 1 ELSE free
  /\ accept' = "acquire"

\* The kernel resets the connections left in the backlog of a closed socket.
Reset(closing) ==
  [c \in Conns |-> IF conn[c] = "backlog" /\ gen[c] \in closing
                   THEN "reset" ELSE conn[c]]

\* Mutation of Queued: rebind_rx is not dropped, its commands stay alive.
QueuedKept == {}

\* The listeners inside the commands still in the channel.
Queued == {queue[i] : i \in 1..Len(queue)}

\* Mutation of Answer: the caller takes a dropped reply for success.
AnswerOk(rs, outcome) ==
  [r \in Callers |-> IF r \in rs /\ caller[r] = "sent" THEN "ok"
                     ELSE caller[r]]

\* The caller gets what the oneshot brings, unless it has gone away.
Answer(rs, outcome) ==
  [r \in Callers |-> IF r \in rs /\ caller[r] = "sent"
                     THEN outcome ELSE caller[r]]

-----------------------------------------------------------------------------
(* Clients and the rebind callers.                                         *)

\* Connections made and calls of rebind begun so far.
Arrivals ==
  Cardinality({c \in Conns : conn[c] # "new"})
  + Cardinality({r \in Callers : caller[r] # "idle"})

\* External: the kernel completes a handshake on any listening socket.
Connect(c, g) ==
  /\ conn[c] = "new"
  /\ \A d \in Conns : d < c => conn[d] # "new"
  /\ Arrivals < MaxArrivals
  /\ listener[g] \in {"bound", "current"}
  /\ conn' = [conn EXCEPT ![c] = "backlog"]
  /\ gen' = [gen EXCEPT ![c] = g]
  /\ UNCHANGED <<loopVars, chanVars, genVars, ka, histVars, free>>

\* External: the future given to run_until completes.
Signal ==
  /\ ~signal
  /\ signal' = TRUE
  /\ UNCHANGED <<pc, accept, cur, cmd, budget, chanVars, genVars, connVars,
                 histVars, free>>

\* rebind binds the new address before it talks to the server.
Bind(r) ==
  /\ caller[r] = "idle"
  /\ \A q \in Callers : q < r => caller[q] # "idle"
  /\ Arrivals < MaxArrivals
  /\ \/ /\ caller' = [caller EXCEPT ![r] = "bound"]
        /\ listener' = [listener EXCEPT ![r] = "bound"]
     \/ /\ caller' = [caller EXCEPT ![r] = "err"]
        /\ UNCHANGED listener
  /\ UNCHANGED <<loopVars, queue, rxOpen, flag, cancel, drain, connVars,
                 histVars, free, sessions>>

\* tx.send waits for the single slot and fails once rebind_rx is gone.
Send(r) ==
  /\ caller[r] = "bound"
  /\ \/ /\ rxOpen
        /\ Len(queue) < 1
        /\ queue' = Append(queue, r)
        /\ caller' = [caller EXCEPT ![r] = "sent"]
        /\ UNCHANGED <<listener, conn>>
     \/ /\ ~rxOpen
        /\ caller' = [caller EXCEPT ![r] = "err"]
        /\ listener' = [listener EXCEPT ![r] = "closed"]
        /\ conn' = Reset({r})
        /\ UNCHANGED queue
  /\ UNCHANGED <<loopVars, rxOpen, flag, cancel, drain, gen, ka, histVars,
                 free, sessions>>

\* The caller's own future is dropped: before the send this drops the new
\* listener, after it the command stays with the server.
CallerCancelled(r) ==
  /\ caller[r] \in {"bound", "sent"}
  /\ caller' = [caller EXCEPT ![r] = "gone"]
  /\ IF caller[r] = "bound"
     THEN /\ listener' = [listener EXCEPT ![r] = "closed"]
          /\ conn' = Reset({r})
     ELSE UNCHANGED <<listener, conn>>
  /\ UNCHANGED <<loopVars, queue, rxOpen, flag, cancel, drain, gen, ka,
                 histVars, free, sessions>>

-----------------------------------------------------------------------------
(* The accept loop: one poll of race_shutdown_or_accept looks at the       *)
(* shutdown future, then at the rebind channel, then at the accept future. *)

\* Shutdown wins: the accept future and rebind_rx are dropped, and with the
\* channel the commands still in it.
PollShutdown ==
  /\ pc = "poll_shutdown"
  /\ IF signal
     THEN /\ pc' = "sd_flag"
          /\ DropAccept
          /\ rxOpen' = FALSE
          /\ queue' = << >>
          /\ caller' = Answer(Queued, "err")
          /\ listener' = [g \in Gens |-> IF g \in Queued THEN "closed"
                                         ELSE listener[g]]
          /\ conn' = Reset(Queued)
     ELSE /\ pc' = "poll_rebind"
          /\ UNCHANGED <<accept, free, chanVars, listener, conn>>
  /\ UNCHANGED <<cur, cmd, budget, signal, flag, cancel, drain, gen, ka,
                 histVars, sessions>>

PollRebind ==
  /\ pc = "poll_rebind"
  /\ IF queue # << >>
     THEN /\ cmd' = Head(queue)
          /\ queue' = Tail(queue)
          /\ DropAccept
          /\ pc' = "rb_flag"
          /\ late' = IF signal THEN late + 1 ELSE late
     ELSE /\ pc' = "poll_accept"
          /\ UNCHANGED <<cmd, queue, accept, free, late>>
  /\ UNCHANGED <<cur, budget, signal, rxOpen, caller, genVars, connVars,
                 after, served, clean>>

\* acquire_owned: the accept future takes its permit before it accepts.
AcquirePermit ==
  /\ pc = "poll_accept"
  /\ accept = "acquire"
  /\ free > 0
  /\ free' = free - 1
  /\ accept' = "permit"
  /\ UNCHANGED <<pc, cur, cmd, budget, signal, chanVars, genVars, connVars,
                 histVars>>

\* accept() succeeds: the connection task is spawned with the permit, the
\* current flag and a handle of the current cancel signal.
AcceptConn(c) ==
  /\ pc = "poll_accept"
  /\ accept = "permit"
  /\ c \in Backlog(cur)
  /\ conn' = [conn EXCEPT ![c] = "idle"]
  /\ accept' = "acquire"
  /\ pc' = PollFirst
  /\ late' = IF signal THEN late + 1 ELSE late
  /\ UNCHANGED <<cur, cmd, budget, signal, chanVars, genVars, gen, ka, after,
                 served, clean, free>>

\* Mutation of AcceptError: the permit is forgotten.
AcceptErrorLeaks ==
  /\ pc = "poll_accept"
  /\ accept = "permit"
  /\ accept' = "backoff"
  /\ pc' = PollFirst
  /\ UNCHANGED <<cur, cmd, budget, signal, chanVars, genVars, connVars,
                 histVars, free>>

\* accept() fails: the permit is dropped before the back-off sleep.
AcceptError ==
  /\ pc = "poll_accept"
  /\ accept = "permit"
  /\ accept' = "backoff"
  /\ free' = free + 1
  /\ pc' = PollFirst
  /\ UNCHANGED <<cur, cmd, budget, signal, chanVars, genVars, connVars,
                 histVars>>

BackoffOver ==
  /\ pc = "poll_accept"
  /\ accept = "backoff"
  /\ accept' = "acquire"
  /\ pc' = PollFirst
  /\ UNCHANGED <<cur, cmd, budget, signal, chanVars, genVars, connVars,
                 histVars, free>>

\* Nothing is ready; the next poll starts at the shutdown future again.
AcceptPending ==
  /\ pc = "poll_accept"
  /\ \/ accept = "acquire" /\ free = 0
     \/ accept = "permit" /\ Backlog(cur) = {}
     \/ accept = "backoff"
  /\ pc' = PollFirst
  /\ UNCHANGED <<accept, cur, cmd, budget, signal, chanVars, genVars,
                 connVars, histVars, free>>

-----------------------------------------------------------------------------
(* Raced::Rebind                                                           *)

RebindFlag ==
  /\ pc = "rb_flag"
  /\ flag' = [flag EXCEPT ![cur] = TRUE]
  /\ budget' = BacklogLimit
  /\ pc' = "rb_backlog"
  /\ UNCHANGED <<accept, cur, cmd, signal, chanVars, cancel, listener, drain,
                 connVars, histVars, free, sessions>>

\* Mutation of DrainBacklog: the backlog is drained past the semaphore.
DrainBacklogNoPermit(c) ==
  /\ pc = "rb_backlog"
  /\ budget > 0
  /\ c \in Backlog(cur)
  /\ conn' = [conn EXCEPT ![c] = "drained"]
  /\ budget' = budget - 1
  /\ UNCHANGED <<pc, accept, cur, cmd, signal, chanVars, genVars, gen, ka,
                 histVars, free>>

\* drain_listener_backlog: a permit first, then a non-blocking accept.
DrainBacklog(c) ==
  /\ pc = "rb_backlog"
  /\ budget > 0
  /\ free > 0
  /\ c \in Backlog(cur)
  /\ conn' = [conn EXCEPT ![c] = "drained"]
  /\ free' = free - 1
  /\ budget' = budget - 1
  /\ UNCHANGED <<pc, accept, cur, cmd, signal, chanVars, genVars, gen, ka,
                 histVars>>

\* Out of budget or permits, an empty backlog, or an error of poll_accept,
\* which may come at any time.
DrainBacklogEnd ==
  /\ pc = "rb_backlog"
  /\ pc' = "rb_swap"
  /\ UNCHANGED <<accept, cur, cmd, budget, signal, chanVars, genVars,
                 connVars, histVars, free>>

\* The drained connections are spawned into the old generation, the listener
\* is replaced (which closes the old one), the old JoinSet and cancel signal
\* go to a background task, and the caller is answered.
RebindSwap ==
  /\ pc = "rb_swap"
  /\ conn' = [c \in Conns |->
                IF conn[c] = "drained" THEN "idle"
                ELSE IF conn[c] = "backlog" /\ gen[c] = cur THEN "reset"
                ELSE conn[c]]
  /\ listener' = [listener EXCEPT ![cur] = "closed", ![cmd] = "current"]
  /\ drain' = [drain EXCEPT ![cur] = "start"]
  /\ caller' = Answer({cmd}, "ok")
  /\ cur' = cmd
  /\ served' = served \cup {cmd}
  /\ cmd' = NoCaller
  /\ pc' = PollFirst
  /\ UNCHANGED <<accept, budget, signal, queue, rxOpen, flag, cancel, gen,
                 ka, late, after, clean, free, sessions>>

(* spawn_generation_drain                                                  *)

\* Mutation of DrainStart: a rebind fires the final drain, fire(true).
DrainStartFinal(g) ==
  /\ drain[g] = "start"
  /\ cancel' = [cancel EXCEPT ![g] = TRUE]
  /\ sessions' = [sessions EXCEPT ![g] = "final"]
  /\ drain' = [drain EXCEPT ![g] = "waiting"]
  /\ UNCHANGED <<loopVars, chanVars, flag, listener, connVars, histVars,
                 free>>

\* Mutation of DrainStart: the cancel signal of the old generation is not
\* fired.
DrainStartSilent(g) ==
  /\ drain[g] = "start"
  /\ sessions' = [sessions EXCEPT ![g] = "active_peers"]
  /\ drain' = [drain EXCEPT ![g] = "waiting"]
  /\ UNCHANGED <<loopVars, chanVars, flag, cancel, listener, connVars,
                 histVars, free>>

\* The background task first fires the generation's cancel signal and the
\* drain of the active WebRTC peers.
DrainStart(g) ==
  /\ drain[g] = "start"
  /\ cancel' = [cancel EXCEPT ![g] = TRUE]
  /\ sessions' = [sessions EXCEPT ![g] = "active_peers"]
  /\ drain' = [drain EXCEPT ![g] = "waiting"]
  /\ UNCHANGED <<loopVars, chanVars, flag, listener, connVars, histVars,
                 free>>

\* join_next ran dry, within the grace or, after an abort, at last.
DrainDone(g) ==
  /\ drain[g] \in {"waiting", "aborting"}
  /\ ~(g = cur /\ pc = "abort")
  /\ Tasks(g) = {}
  /\ drain' = [drain EXCEPT ![g] = "done"]
  /\ UNCHANGED <<loopVars, chanVars, flag, cancel, listener, connVars,
                 histVars, free, sessions>>

\* The grace is over: JoinSet::shutdown marks every task for abortion.
DrainTimeout(g) ==
  /\ drain[g] = "waiting"
  /\ drain' = [drain EXCEPT ![g] = "aborting"]
  /\ UNCHANGED <<loopVars, chanVars, flag, cancel, listener, connVars,
                 histVars, free, sessions>>

\* An aborted task ends at its next await point; "upgrade" has none before
\* the session task is spawned.
AbortTask(c) ==
  /\ drain[gen[c]] = "aborting"
  /\ conn[c] \in {"idle", "busy"}
  /\ conn' = [conn EXCEPT ![c] = "closed"]
  /\ free' = free + 1
  /\ UNCHANGED <<loopVars, chanVars, genVars, gen, ka, histVars>>

-----------------------------------------------------------------------------
(* After the loop: graceful shutdown.                                      *)

ShutdownFlag ==
  /\ pc = "sd_flag"
  /\ flag' = [flag EXCEPT ![cur] = TRUE]
  /\ pc' = "sd_cancel"
  /\ UNCHANGED <<accept, cur, cmd, budget, signal, chanVars, cancel,
                 listener, drain, connVars, histVars, free, sessions>>

ShutdownCancel ==
  /\ pc = "sd_cancel"
  /\ cancel' = [cancel EXCEPT ![cur] = TRUE]
  /\ pc' = "sd_sessions"
  /\ UNCHANGED <<accept, cur, cmd, budget, signal, chanVars, flag, listener,
                 drain, connVars, histVars, free, sessions>>

ShutdownSessions ==
  /\ pc = "sd_sessions"
  /\ sessions' = [sessions EXCEPT ![cur] = "final"]
  /\ pc' = "sd_listener"
  /\ UNCHANGED <<accept, cur, cmd, budget, signal, chanVars, flag, cancel,
                 listener, drain, connVars, histVars, free>>

ShutdownListener ==
  /\ pc = "sd_listener"
  /\ listener' = [listener EXCEPT ![cur] = "closed"]
  /\ conn' = Reset({cur})
  /\ pc' = "grace"
  /\ UNCHANGED <<accept, cur, cmd, budget, signal, chanVars, flag, cancel,
                 drain, gen, ka, histVars, free, sessions>>

\* acquire_many_owned(permit_total) came back in time.
GraceCollected ==
  /\ pc = "grace"
  /\ free >= PermitTotal
  /\ free' = free - PermitTotal
  /\ clean' = TRUE
  /\ pc' = "join"
  /\ UNCHANGED <<accept, cur, cmd, budget, signal, chanVars, genVars,
                 connVars, late, after, served>>

JoinDone ==
  /\ pc = "join"
  /\ Tasks(cur) = {}
  /\ free' = free + PermitTotal
  /\ pc' = "returned"
  /\ UNCHANGED <<accept, cur, cmd, budget, signal, chanVars, genVars,
                 connVars, histVars>>

\* Mutation of GraceExpired: the permits are waited for without a timeout.
GraceUnbounded == FALSE

\* The grace is over: the current JoinSet is aborted.
GraceExpired ==
  /\ pc = "grace"
  /\ drain' = [drain EXCEPT ![cur] = "aborting"]
  /\ pc' = "abort"
  /\ UNCHANGED <<accept, cur, cmd, budget, signal, chanVars, flag, cancel,
                 listener, connVars, histVars, free, sessions>>

\* Every aborted task has ended; the notification of the diagnostics sink is
\* waited for at most SHUTDOWN_NOTIFY_FLUSH_WAIT and run_until returns.
AbortDone ==
  /\ pc = "abort"
  /\ Tasks(cur) = {}
  /\ drain' = [drain EXCEPT ![cur] = "done"]
  /\ pc' = "returned"
  /\ UNCHANGED <<accept, cur, cmd, budget, signal, chanVars, flag, cancel,
                 listener, connVars, histVars, free, sessions>>

\* The owner drops the run_until future at one of its await points. Its tasks
\* are detached, not aborted; the dropped cancel sender counts as fired.
DropRunUntil ==
  /\ pc \in {"poll_shutdown", "grace", "join", "abort"}
  /\ pc' = "dropped"
  /\ accept' = "acquire"
  /\ free' = IF pc = "join" THEN free + PermitTotal
             ELSE IF accept = "permit" THEN free + 1 ELSE free
  /\ rxOpen' = FALSE
  /\ queue' = << >>
  /\ caller' = Answer(Queued, "err")
  /\ listener' = [g \in Gens |-> IF g \in Queued \cup {cur} THEN "closed"
                                 ELSE listener[g]]
  /\ conn' = Reset(Queued \cup {cur})
  /\ cancel' = [cancel EXCEPT ![cur] = TRUE]
  /\ UNCHANGED <<cur, cmd, budget, signal, flag, drain, sessions, gen, ka,
                 histVars>>

-----------------------------------------------------------------------------
(* handle_connection_with_permit, as far as the life of the server depends *)
(* on it (Connection.tla has the whole loop), and the delegated session.   *)

\* Mutation of KeepAlive: the shutdown flag is not looked at.
KeepAliveDeaf(c) == BOOLEAN

\* keep_alive of a request: what its headers and the request limit allow,
\* and never TRUE once the generation's flag is set.
KeepAlive(c) == {k \in BOOLEAN : k => ~flag[gen[c]]}

\* A request has been read and its keep_alive worked out.
ReadRequest(c) ==
  /\ conn[c] = "idle"
  /\ conn' = [conn EXCEPT ![c] = "busy"]
  /\ \E k \in KeepAlive(c) : ka' = [ka EXCEPT ![c] = k]
  /\ after' = [after EXCEPT ![c] = IF flag[gen[c]] THEN @ + 1 ELSE @]
  /\ UNCHANGED <<loopVars, chanVars, genVars, gen, late, served, clean, free>>

\* The task returns and its permit is dropped: read timeout, end of stream,
\* unreadable request or the end of the connection's lifetime while idle; a
\* failed write or an unfinished stream while busy.
CloseConn(c) ==
  /\ conn[c] \in {"idle", "busy"}
  /\ conn' = [conn EXCEPT ![c] = "closed"]
  /\ free' = free + 1
  /\ UNCHANGED <<loopVars, chanVars, genVars, gen, ka, histVars>>

\* The response is written and the loop goes round or returns. A rejection by
\* a gate keeps the earlier keep_alive, any other response looks again.
Respond(c, rejected) ==
  /\ conn[c] = "busy"
  /\ IF ka[c] /\ (rejected \/ ~flag[gen[c]])
     THEN conn' = [conn EXCEPT ![c] = "idle"] /\ UNCHANGED free
     ELSE conn' = [conn EXCEPT ![c] = "closed"] /\ free' = free + 1
  /\ UNCHANGED <<loopVars, chanVars, genVars, gen, ka, histVars>>

\* An Upgrade request: 503 and return if the flag is set by now.
CheckUpgrade(c) ==
  /\ conn[c] = "busy"
  /\ IF flag[gen[c]]
     THEN conn' = [conn EXCEPT ![c] = "closed"] /\ free' = free + 1
     ELSE conn' = [conn EXCEPT ![c] = "upgrade"] /\ UNCHANGED free
  /\ UNCHANGED <<loopVars, chanVars, genVars, gen, ka, histVars>>

\* try_handle_upgrade: the permit moves into a detached session task, or no
\* configuration matches and the connection ends with 501.
TryHandleUpgrade(c) ==
  /\ conn[c] = "upgrade"
  /\ \/ conn' = [conn EXCEPT ![c] = "ws_start"] /\ UNCHANGED free
     \/ conn' = [conn EXCEPT ![c] = "closed"] /\ free' = free + 1
  /\ UNCHANGED <<loopVars, chanVars, genVars, gen, ka, histVars>>

\* handle_upgrade polls the cancel signal before anything else and races it
\* against the handshake.
SessionStart(c) ==
  /\ conn[c] = "ws_start"
  /\ \/ ~cancel[gen[c]] /\ conn' = [conn EXCEPT ![c] = "ws"] /\ UNCHANGED free
     \/ conn' = [conn EXCEPT ![c] = "closed"] /\ free' = free + 1
  /\ UNCHANGED <<loopVars, chanVars, genVars, gen, ka, histVars>>

\* The session ends, for one of its own reasons or because it was cancelled;
\* its task drops the permit.
SessionEnd(c) ==
  /\ conn[c] = "ws"
  /\ conn' = [conn EXCEPT ![c] = "closed"]
  /\ free' = free + 1
  /\ UNCHANGED <<loopVars, chanVars, genVars, gen, ka, histVars>>

-----------------------------------------------------------------------------
RunUntil ==
  \/ PollShutdown \/ PollRebind \/ AcquirePermit \/ AcceptError
  \/ BackoffOver \/ AcceptPending
  \/ \E c \in Conns : AcceptConn(c) \/ DrainBacklog(c)
  \/ RebindFlag \/ DrainBacklogEnd \/ RebindSwap
  \/ ShutdownFlag \/ ShutdownCancel \/ ShutdownSessions
  \/ ShutdownListener
  \/ GraceCollected \/ JoinDone \/ GraceExpired \/ AbortDone

GenerationDrain(g) == DrainStart(g) \/ DrainDone(g) \/ DrainTimeout(g)

Rebind(r) == Bind(r) \/ Send(r) \/ CallerCancelled(r)

Task(c) ==
  \/ ReadRequest(c) \/ CloseConn(c) \/ CheckUpgrade(c)
  \/ \E rejected \in BOOLEAN : Respond(c, rejected)
  \/ TryHandleUpgrade(c) \/ SessionStart(c) \/ SessionEnd(c)
  \/ AbortTask(c)

Next ==
  \/ RunUntil
  \/ DropRunUntil
  \/ Signal
  \/ \E g \in Gens : GenerationDrain(g)
  \/ \E r \in Callers : Rebind(r)
  \/ \E c \in Conns : Task(c) \/ \E g \in Gens : Connect(c, g)

Spec == Init /\ [][Next]_vars

\* What a connection waits for no longer than the code says: an idle one
\* (read_timeout), an aborted task, the synchronous way from the upgrade check
\* to the session, and a session that has been cancelled (close_grace).
Bounded(c) ==
  \/ conn[c] = "idle" /\ (ReadRequest(c) \/ CloseConn(c))
  \/ AbortTask(c)
  \/ TryHandleUpgrade(c) \/ SessionStart(c)
  \/ cancel[gen[c]] /\ SessionEnd(c)

\* The runtime keeps polling what is ready and timers fire: the accept loop,
\* the drains, a caller's send and the bounded waits of connections. Nothing
\* makes a handler return, a client connect or a session end by itself.
Fairness ==
  /\ WF_vars(RunUntil)
  /\ \A g \in Gens : WF_vars(GenerationDrain(g))
  /\ \A r \in Callers : WF_vars(Send(r))
  /\ \A c \in Conns : WF_vars(Bounded(c))

FairSpec == Spec /\ Fairness

-----------------------------------------------------------------------------
(* Properties.                                                             *)

LoopTypeOK ==
  /\ pc \in PcStates
  /\ accept \in {"acquire", "permit", "backoff"}
  /\ cur \in Gens
  /\ cmd \in Callers \cup {NoCaller}
  /\ budget \in 0..BacklogLimit
  /\ signal \in BOOLEAN

ChanTypeOK ==
  /\ queue \in {<< >>} \cup {<<r>> : r \in Callers}
  /\ rxOpen \in BOOLEAN
  /\ caller \in [Callers -> CallerStates]

GenTypeOK ==
  /\ flag \in [Gens -> BOOLEAN]
  /\ cancel \in [Gens -> BOOLEAN]
  /\ listener \in [Gens -> ListenerStates]
  /\ drain \in [Gens -> DrainStates]
  /\ sessions \in [Gens -> SessionDrains]

ConnTypeOK ==
  /\ conn \in [Conns -> ConnStates]
  /\ gen \in [Conns -> Gens]
  /\ ka \in [Conns -> BOOLEAN]

HistTypeOK ==
  /\ late \in Nat
  /\ after \in [Conns -> Nat]
  /\ served \subseteq Gens
  /\ clean \in BOOLEAN

\* Every variable of run_until, the rebind channel, the generations and the
\* connections keeps to its type; in particular the semaphore never holds
\* more permits than Server::bind gave it, and the channel never more than
\* one command.
TypeOK ==
  /\ LoopTypeOK /\ ChanTypeOK /\ GenTypeOK /\ ConnTypeOK /\ HistTypeOK
  /\ free \in 0..PermitCount

\* The permits run_until itself has in hand: one inside the accept future,
\* all of PermitTotal once the grace wait has collected them.
InHand ==
  IF accept = "permit" THEN 1 ELSE IF pc = "join" THEN PermitTotal ELSE 0

\* No permit of the connection semaphore is lost or doubled, whichever of the
\* accept future, a connection task, a drained backlog entry, a detached
\* session, an abort or a dropped run_until it passes through.
PermitsConserved == free + Cardinality(Holders) + InHand = PermitCount

\* The books of the semaphore: types and conservation together, which is what
\* each step of the server keeps.
PermitsAccounted == TypeOK /\ PermitsConserved

\* The drain contract of run_until: once a generation's shutdown_flag is set,
\* a connection of it begins at most one more request, even when a gate
\* rejected the request before and its keep_alive was not looked at again.
AtMostOneRequestAfterFlag == \A c \in Conns : after[c] <= 1

\* race_shutdown_or_accept: shutdown goes first in every poll, so at most one
\* accept or rebind (the poll under way) is taken after the signal.
ShutdownGoesFirst == late <= 1

\* A rebind answers Ok exactly for listeners that were put into service, and
\* after an Err its listener is not bound any more: the address is free.
RebindAnswersTrue ==
  \A r \in Callers :
    /\ caller[r] = "ok" => r \in served /\ listener[r] \in {"current", "closed"}
    /\ caller[r] = "err" => r \notin served /\ listener[r] \in {"unbound", "closed"}

\* One listener is in service while the loop runs and none once the grace
\* wait has begun; a listener that is bound and not in service belongs to a
\* command in the channel, the command in hand or a caller about to send, so
\* none is left behind by a shutdown or a drop of run_until.
ListenersOwned ==
  /\ {g \in Gens : listener[g] = "current"} =
       IF pc \in {"grace", "join", "abort", "returned", "dropped"}
       THEN {} ELSE {cur}
  /\ \A g \in Gens : listener[g] = "bound" =>
       \/ g \in Queued
       \/ g = cmd
       \/ g \in Callers /\ caller[g] = "bound"

\* What RebindHandle::rebind promises: its answer is true, and no listener is
\* left bound that nobody serves or will close.
RebindTruthful == RebindAnswersTrue /\ ListenersOwned

\* Where run_until returns without aborting ("all connections completed"), no
\* connection task and no delegated session is left in any generation.
CleanReturnIsEmpty == clean => Holders = {}

\* Only the end of the server closes the WebRTC registry for good: a retired
\* generation fires the drain of active peers, never the final one, and both
\* come after that generation stopped taking keep-alive requests.
FinalDrainIsLast ==
  \A g \in Gens :
    /\ sessions[g] = "final" => Stopped /\ g = cur
    /\ sessions[g] # "none" => flag[g] /\ cancel[g]

\* What graceful shutdown promises at each of its stages: it goes first, lets
\* a connection begin one more request at most, closes the plugins' registries
\* for good last of all, and says that it was clean only if it was.
ShutdownOrderly ==
  /\ ShutdownGoesFirst /\ AtMostOneRequestAfterFlag
  /\ FinalDrainIsLast /\ CleanReturnIsEmpty

\* The shutdown signal ends run_until, whatever handlers and clients do.
ShutdownReturns == []<>(signal => pc \in {"returned", "dropped"})

\* Every call of rebind comes back, also across a shutdown or a drop.
RebindAnswered == []<>(\A r \in Callers : caller[r] \notin {"bound", "sent"})

\* What was told to stop ends: each task and session of a retired generation,
\* those that were being upgraded while it was retired included, and, after
\* run_until returned, the sessions that it does not wait for.
StoppedWorkEnds ==
  []<>(\A c \in Holders : drain[gen[c]] = "none" /\ pc # "returned")

\* Nobody waits for the server without end: the one who stops it, the callers
\* of rebind, and what has been told to stop (run_until, RebindHandle::rebind,
\* spawn_generation_drain).
ServerSettles == ShutdownReturns /\ RebindAnswered /\ StoppedWorkEnds

-----------------------------------------------------------------------------
(* What the server promises to its clients: Admission.tla.                 *)

Phase == IF pc \in {"returned", "dropped"} THEN "stopped"
         ELSE IF Stopped THEN "closing" ELSE "open"

AdmissionView ==
  INSTANCE Admission WITH Limit <- PermitCount, phase <- Phase,
                          live <- Holders,
                          gone <- {c \in Conns : conn[c] = "closed"}

\* The accept loop, the semaphore, the generations and the shutdown together
\* implement admission control: never more than max_connections connections
\* (plus sessions) at a time, each served once, none after the loop is left.
AdmissionSpec == AdmissionView!Spec
=============================================================================
