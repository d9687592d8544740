----------------------------- MODULE JwksRefresh -----------------------------
(***************************************************************************)
(* The JWKS refresh task of crates/plugin-jwt (refresh.rs,                 *)
(* refresh/task.rs): periodic fetches, early ones on a signal, keys kept   *)
(* over failures and cleared when they get too old, and the handle that    *)
(* stops it. Time is counted in steps. If the runtime is prompt the clock  *)
(* stands still while the task has something to do; if not, the task may   *)
(* be polled arbitrarily late.                                             *)
(***************************************************************************)
EXTENDS Integers

CONSTANTS
  Durations, \* bound: values of the durations of a RefreshConfig
  None,
  MaxAges,   \* values of JwksResponse::max_age
  MaxNow     \* bound: the clock stops here

ASSUME RefreshAssumption ==
  /\ Durations \subseteq Nat
  /\ None \notin Int
  /\ MaxAges \subseteq Nat
  /\ MaxNow \in Nat

Configs ==
  [period : Durations, minInterval : Durations, fetchTimeout : Durations,
   maxStale : Durations \cup {None}]

\* Mutation of ConfigOk: max_stale is only compared with the period.
ConfigOkLoose(c) ==
  /\ 0 \notin {c.period, c.minInterval, c.fetchTimeout, c.maxStale}
  /\ c.minInterval <= c.period
  /\ c.fetchTimeout <= c.minInterval
  /\ c.maxStale # None => c.maxStale >= c.period

\* Mutation of ConfigOk: min_interval may exceed the period.
ConfigOkNoFloor(c) ==
  /\ 0 \notin {c.period, c.minInterval, c.fetchTimeout, c.maxStale}
  /\ c.fetchTimeout <= c.minInterval
  /\ c.maxStale # None => c.maxStale >= c.period + c.fetchTimeout

\* RefreshConfigBuilder::build accepts the configuration.
ConfigOk(c) ==
  /\ 0 \notin {c.period, c.minInterval, c.fetchTimeout, c.maxStale}
  /\ c.minInterval <= c.period
  /\ c.fetchTimeout <= c.minInterval
  /\ c.maxStale # None => c.maxStale >= c.period + c.fetchTimeout

VARIABLES
  cfg,         \* the RefreshConfig
  prompt,      \* external: is the task polled in time?
  pc,          \* "new", "wait", "fetch", "apply", "stopped"
  now,
  nextDue, nextAllowed,
  staleAt,     \* stale_deadline
  fetchAt,     \* fetch_start of the last fetch
  outcome,     \* what fetch_once returned
  keys,        \* when the fetch of the keys in use began; None: no keys
  cleared,     \* RefreshStatus::cleared
  stopped,     \* Shared::stopped
  wake,        \* the permit of Shared::wake
  lastFetch,   \* history: fetch_start of the fetch before
  healthy,     \* history: no fetch has failed
  asked        \* history: when the oldest signal not yet followed by a fetch came

taskVars == <<pc, nextDue, nextAllowed, staleAt, fetchAt, outcome, keys,
              cleared, lastFetch, healthy>>
vars == <<cfg, prompt, taskVars, now, stopped, wake, asked>>

Larger(a, b) == IF a >= b THEN a ELSE b
Smaller(a, b) == IF a <= b THEN a ELSE b

\* The deadline of something that was fresh at time t.
Deadline(t) == IF cfg.maxStale = None THEN None ELSE t + cfg.maxStale

Init ==
  /\ cfg \in {c \in Configs : ConfigOk(c)}
  /\ prompt \in BOOLEAN
  /\ pc = "new"
  /\ now = 0
  /\ nextDue = 0 /\ nextAllowed = 0
  /\ staleAt = None
  /\ fetchAt = None
  /\ outcome = None
  /\ keys = 0
  /\ cleared = FALSE
  /\ stopped = FALSE
  /\ wake = FALSE
  /\ lastFetch = None
  /\ healthy = TRUE
  /\ asked = None

-----------------------------------------------------------------------------
(* The handle and the triggers, from any thread.                           *)

\* RefreshHandle::shutdown, also by drop.
Shutdown ==
  /\ ~stopped
  /\ stopped' = TRUE
  /\ UNCHANGED <<cfg, prompt, taskVars, now, wake, asked>>

\* RefreshTrigger::fire
Fire ==
  /\ ~stopped
  /\ wake' = TRUE
  /\ asked' = IF asked = None THEN now ELSE asked
  /\ UNCHANGED <<cfg, prompt, taskVars, now, stopped>>

-----------------------------------------------------------------------------
(* The task.                                                               *)

Start ==
  /\ pc = "new"
  /\ IF stopped
     THEN pc' = "stopped" /\ UNCHANGED <<cfg, prompt, nextDue, nextAllowed, staleAt, keys>>
     ELSE /\ pc' = "wait"
          /\ nextDue' = now /\ nextAllowed' = now
          /\ staleAt' = Deadline(now)
          /\ keys' = now \* keys handed in count as of now
  /\ UNCHANGED <<cfg, prompt, fetchAt, outcome, cleared, lastFetch, healthy, now, stopped,
                 wake, asked>>

\* Mutation of Stop: a hanging fetch does not see it.
StopNotInFetch ==
  /\ pc = "wait"
  /\ stopped
  /\ pc' = "stopped"
  /\ UNCHANGED <<cfg, prompt, nextDue, nextAllowed, staleAt, fetchAt, outcome, keys,
                 cleared, lastFetch, healthy, now, stopped, wake, asked>>

\* The task ends between two awaits, wherever it stood.
Stop ==
  /\ pc \in {"wait", "fetch"}
  /\ stopped
  /\ pc' = "stopped"
  /\ UNCHANGED <<cfg, prompt, nextDue, nextAllowed, staleAt, fetchAt, outcome, keys,
                 cleared, lastFetch, healthy, now, stopped, wake, asked>>

IsStale == staleAt # None /\ now >= staleAt
IsDue == now >= Larger(nextDue, nextAllowed)

\* clear_keys
ClearKeys ==
  /\ keys' = None
  /\ cleared' = TRUE
  /\ staleAt' = None

WaitStale ==
  /\ pc = "wait" /\ ~stopped
  /\ IsStale
  /\ ClearKeys
  /\ UNCHANGED <<cfg, prompt, pc, nextDue, nextAllowed, fetchAt, outcome, lastFetch,
                 healthy, now, stopped, wake, asked>>

\* Mutation of WaitDue: signals are not held to min_interval.
WaitDueAtOnce ==
  /\ pc = "wait" /\ ~stopped
  /\ ~IsStale
  /\ now >= nextDue
  /\ pc' = "fetch"
  /\ fetchAt' = now
  /\ lastFetch' = fetchAt
  /\ nextAllowed' = now + cfg.minInterval
  /\ asked' = None
  /\ UNCHANGED <<cfg, prompt, nextDue, staleAt, outcome, keys, cleared, healthy, now,
                 stopped, wake>>

\* A fetch begins.
WaitDue ==
  /\ pc = "wait" /\ ~stopped
  /\ ~IsStale
  /\ IsDue
  /\ pc' = "fetch"
  /\ fetchAt' = now
  /\ lastFetch' = fetchAt
  /\ nextAllowed' = now + cfg.minInterval
  /\ asked' = None
  /\ UNCHANGED <<cfg, prompt, nextDue, staleAt, outcome, keys, cleared, healthy, now,
                 stopped, wake>>

\* Mutation of WaitSignal: the signal is taken but not followed.
WaitSignalIgnored ==
  /\ pc = "wait" /\ ~stopped
  /\ ~IsStale /\ ~IsDue
  /\ wake
  /\ wake' = FALSE
  /\ UNCHANGED <<cfg, prompt, pc, nextDue, nextAllowed, staleAt, fetchAt, outcome, keys,
                 cleared, lastFetch, healthy, now, stopped, asked>>

\* A signal makes the next fetch due, as soon as it is allowed.
WaitSignal ==
  /\ pc = "wait" /\ ~stopped
  /\ ~IsStale /\ ~IsDue
  /\ wake
  /\ wake' = FALSE
  /\ nextDue' = Smaller(nextDue, now)
  /\ UNCHANGED <<cfg, prompt, pc, nextAllowed, staleAt, fetchAt, outcome, keys, cleared,
                 lastFetch, healthy, now, stopped, asked>>

\* The fetch ended: with a response, or with an error, a panic or a timeout.
FetchDone(result) ==
  /\ pc = "fetch" /\ ~stopped
  /\ result = "timeout" => now >= fetchAt + cfg.fetchTimeout
  /\ outcome' = result
  /\ pc' = "apply"
  /\ UNCHANGED <<cfg, prompt, nextDue, nextAllowed, staleAt, fetchAt, keys, cleared,
                 lastFetch, healthy, now, stopped, wake, asked>>

\* The keys in use grow stale during the fetch, which goes on. A fetch that
\* is over, by its timeout at the latest, goes first.
FetchStale ==
  /\ pc = "fetch" /\ ~stopped
  /\ IsStale
  /\ now < fetchAt + cfg.fetchTimeout
  /\ ClearKeys
  /\ UNCHANGED <<cfg, prompt, pc, nextDue, nextAllowed, fetchAt, outcome, lastFetch,
                 healthy, now, stopped, wake, asked>>

\* Mutation of NextWait: a max_age is followed whatever it says.
NextWaitUnbounded(age) == IF age = None THEN cfg.period ELSE age

\* How long after its start a successful fetch is followed by the next.
NextWait(age) ==
  Larger(Smaller(cfg.period, IF age = None THEN cfg.period ELSE age), cfg.minInterval)

\* Mutation of ApplyOk: the age of the keys counts from their arrival.
ApplyOkLateBirth(age) ==
  /\ pc = "apply"
  /\ outcome = "response"
  /\ pc' = "wait"
  /\ keys' = fetchAt
  /\ cleared' = FALSE
  /\ staleAt' = Deadline(now)
  /\ nextDue' = fetchAt + NextWait(age)
  /\ UNCHANGED <<cfg, prompt, nextAllowed, fetchAt, outcome, lastFetch, healthy, now,
                 stopped, wake, asked>>

\* The response parses: its keys replace those in use.
ApplyOk(age) ==
  /\ pc = "apply"
  /\ outcome = "response"
  /\ pc' = "wait"
  /\ keys' = fetchAt
  /\ cleared' = FALSE
  /\ staleAt' = Deadline(fetchAt)
  /\ nextDue' = fetchAt + NextWait(age)
  /\ UNCHANGED <<cfg, prompt, nextAllowed, fetchAt, outcome, lastFetch, healthy, now,
                 stopped, wake, asked>>

\* It does not, or there is none: the keys stay.
ApplyFailed ==
  /\ pc = "apply"
  /\ pc' = "wait"
  /\ nextDue' = fetchAt + cfg.minInterval
  /\ healthy' = FALSE
  /\ UNCHANGED <<cfg, prompt, nextAllowed, staleAt, fetchAt, outcome, keys, cleared,
                 lastFetch, now, stopped, wake, asked>>

-----------------------------------------------------------------------------
\* The task is going to be polled: something it waits for is there.
Ready ==
  \/ pc \in {"new", "apply"}
  \/ pc = "wait" /\ (stopped \/ IsStale \/ IsDue \/ wake)
  \/ pc = "fetch" /\ (stopped \/ IsStale \/ now >= fetchAt + cfg.fetchTimeout)

Tick ==
  /\ now < MaxNow
  /\ prompt => ~Ready
  /\ now' = now + 1
  /\ UNCHANGED <<cfg, prompt, taskVars, stopped, wake, asked>>

Task ==
  \/ Start \/ Stop \/ WaitStale \/ WaitDue \/ WaitSignal \/ FetchStale
  \/ FetchDone("timeout")
  \/ \E age \in MaxAges \cup {None} : ApplyOk(age)
  \/ ApplyFailed

Next ==
  \/ Task \/ Tick \/ Shutdown \/ Fire
  \/ FetchDone("response") \/ FetchDone("error")

Spec == Init /\ [][Next]_vars

\* The runtime polls the task, and the clock goes on.
FairSpec == Spec /\ WF_vars(Task) /\ WF_vars(Tick)

-----------------------------------------------------------------------------
Times == Nat \cup {None}

\* Types of the variables; the configuration is one that build accepts.
TypeOK ==
  /\ cfg \in Configs /\ cfg.minInterval <= cfg.period
  /\ pc \in {"new", "wait", "fetch", "apply", "stopped"}
  /\ now \in 0..MaxNow
  /\ nextDue \in Nat /\ nextAllowed \in Nat
  /\ {staleAt, fetchAt, keys, lastFetch, asked} \subseteq Times
  /\ outcome \in {None, "response", "error", "timeout"}
  /\ {prompt, cleared, stopped, wake, healthy} \subseteq BOOLEAN

\* Fetches begin at least min_interval apart, whatever signals come, however
\* early a response asks to be refreshed and however late the task is polled.
FetchesSpaced ==
  lastFetch # None => fetchAt >= lastFetch + cfg.minInterval

\* While the task runs, no key is in use that a fetch begun more than
\* max_stale ago had brought: failing and hanging fetches cannot stretch it.
KeysFresh ==
  prompt /\ pc \in {"wait", "fetch", "apply"} /\ cfg.maxStale # None /\ keys # None =>
    now <= keys + cfg.maxStale

\* The keys are cleared only after a failure: a source that answers every
\* fetch in time never runs into max_stale, to the last tick.
HealthyNeverCleared == prompt /\ healthy => ~cleared

\* max_stale is neither stretched nor cut short: keys older than it are never
\* in use, and a source that answers keeps its keys.
KeysExact == TypeOK /\ KeysFresh /\ HealthyNeverCleared

\* The next fetch begins at most a period after the last, also when that one
\* hung until its timeout.
FetchedEveryPeriod ==
  prompt /\ pc \in {"wait", "fetch", "apply"} /\ fetchAt # None =>
    now <= fetchAt + cfg.period

\* A signal is followed by a fetch begun after it within min_interval, also
\* one that came during a fetch or together with the timer: no signal is lost.
SignalAnswered ==
  prompt /\ pc \in {"wait", "fetch", "apply"} /\ ~stopped /\ asked # None =>
    now <= asked + cfg.minInterval

\* A fetch begins when it has to: after a period and after a signal.
FetchesTimely == FetchedEveryPeriod /\ SignalAnswered

\* After shutdown the task ends, out of a hanging fetch as well.
StopsWhenTold == []<>(stopped => pc = "stopped")

\* Fetches begin when they have to and never sooner than they may (the loop of
\* run, wait_phase).
FetchesPaced == FetchesTimely /\ FetchesSpaced
=============================================================================
