---------------------------- MODULE PluginProofs ----------------------------
(***************************************************************************)
(* Theorems about the way of a response through CORS and compression       *)
(* (ResponsePipeline), for any resources, requests and configuration; and  *)
(* about the task that refreshes the JWT plugin's keys (JwksRefresh), for  *)
(* any accepted configuration.                                             *)
(***************************************************************************)
EXTENDS ResponsePipeline, JwksRefresh, TLAPS
-----------------------------------------------------------------------------
(* The refresh task.                                                       *)

Active == pc \in {"wait", "fetch", "apply"}
Fetching == pc \in {"fetch", "apply"}

\* What build made sure of, and what a fetch leaves behind, however late the
\* task is polled: the keys' age runs from the start of their fetch, and the
\* next fetch is held off by min_interval from the start of the last.
Paced ==
  /\ ConfigOk(cfg)
  /\ pc = "new" => fetchAt = None /\ lastFetch = None
  /\ Fetching => fetchAt # None
  /\ fetchAt # None => nextAllowed = fetchAt + cfg.minInterval
  /\ lastFetch # None => fetchAt # None
  /\ pc = "wait" /\ fetchAt # None => nextDue <= fetchAt + cfg.period
  /\ Active => staleAt = IF keys = None THEN None ELSE Deadline(keys)

\* A task that is polled in time is never late for its timers.
OnTime ==
  /\ pc = "new" => now = 0
  /\ pc = "wait" => now <= Larger(nextDue, nextAllowed)
  /\ Fetching => now <= fetchAt + cfg.fetchTimeout
  /\ Active /\ staleAt # None => now <= staleAt

\* As long as no fetch failed, the keys outlast the fetch that replaces them.
OutlastFetch ==
  /\ ~cleared
  /\ cfg.maxStale # None /\ pc = "wait" =>
       /\ staleAt # None
       /\ staleAt >= nextDue + cfg.fetchTimeout
       /\ staleAt >= nextAllowed + cfg.fetchTimeout
  /\ cfg.maxStale # None /\ Fetching =>
       staleAt # None /\ staleAt >= fetchAt + cfg.fetchTimeout

\* A signal still has its permit, or has made the next fetch due.
SignalKept ==
  asked # None =>
    /\ asked <= now
    /\ fetchAt # None => fetchAt <= asked
    /\ Active => nextAllowed <= asked + cfg.minInterval
    /\ pc # "wait" /\ pc # "stopped" => wake
    /\ pc = "wait" => wake \/ nextDue <= now

\* The inductive invariant of the task.
RefreshInv ==
  /\ TypeOK /\ Paced /\ FetchesSpaced
  /\ prompt => OnTime /\ SignalKept /\ SignalAnswered
  /\ prompt /\ healthy => OutlastFetch

RefreshTypes ==
  /\ cfg.period \in Nat /\ cfg.minInterval \in Nat /\ cfg.fetchTimeout \in Nat
  /\ cfg.maxStale \in Times
  /\ pc \in {"new", "wait", "fetch", "apply", "stopped"}
  /\ now \in Nat /\ nextDue \in Nat /\ nextAllowed \in Nat
  /\ staleAt \in Times /\ fetchAt \in Times /\ keys \in Times
  /\ lastFetch \in Times /\ asked \in Times

\* What the steps compute with, out of the type invariant.
LEMMA TypesOfRefresh == TypeOK => RefreshTypes
<1> SUFFICES ASSUME TypeOK PROVE RefreshTypes
  OBVIOUS
<1> USE RefreshAssumption
<1>1. /\ cfg.period \in Durations /\ cfg.minInterval \in Durations
      /\ cfg.fetchTimeout \in Durations /\ cfg.maxStale \in Durations \cup {None}
  BY DEF TypeOK, Configs
<1>2. /\ staleAt \in Times /\ fetchAt \in Times /\ keys \in Times
      /\ lastFetch \in Times /\ asked \in Times
  BY DEF TypeOK
<1>3. /\ pc \in {"new", "wait", "fetch", "apply", "stopped"}
      /\ now \in Nat /\ nextDue \in Nat /\ nextAllowed \in Nat
  BY DEF TypeOK
<1> QED
  BY <1>1, <1>2, <1>3 DEF RefreshTypes, Times

\* A configuration that build accepted.
LEMMA Accepted ==
  ASSUME RefreshTypes, ConfigOk(cfg)
  PROVE  /\ cfg.period > 0 /\ cfg.minInterval > 0 /\ cfg.fetchTimeout > 0
         /\ cfg.fetchTimeout <= cfg.minInterval /\ cfg.minInterval <= cfg.period
         /\ cfg.maxStale # None =>
              cfg.maxStale \in Nat /\ cfg.maxStale >= cfg.period + cfg.fetchTimeout
  BY DEF RefreshTypes, ConfigOk, Times

\* A response moves the next fetch by min_interval at least and a period at most.
LEMMA NextWaitBounds ==
  ASSUME RefreshTypes, ConfigOk(cfg), NEW age \in MaxAges \cup {None}
  PROVE  NextWait(age) \in Nat /\ NextWait(age) <= cfg.period
  BY Accepted, RefreshAssumption
     DEF NextWait, Larger, Smaller, RefreshTypes, Times

\* A deadline is a time, and none without max_stale.
LEMMA DeadlineType ==
  ASSUME RefreshTypes, NEW t \in Nat
  PROVE  /\ Deadline(t) \in Times
         /\ cfg.maxStale # None => Deadline(t) = t + cfg.maxStale
         /\ cfg.maxStale = None => Deadline(t) = None
  BY DEF RefreshTypes, Deadline, Times

\* Before the first fetch the invariant holds.
LEMMA RefreshInitHolds == Init => RefreshInv
<1> SUFFICES ASSUME Init PROVE RefreshInv
  OBVIOUS
<1> USE RefreshAssumption
<1>1. TypeOK
  <2>1. cfg \in Configs /\ ConfigOk(cfg)
    BY DEF Init
  <2>2. {staleAt, fetchAt, keys, lastFetch, asked} \subseteq Times
    BY DEF Init, Times
  <2>3. {prompt, cleared, stopped, wake, healthy} \subseteq BOOLEAN
    BY DEF Init
  <2> QED
    BY <2>1, <2>2, <2>3 DEF Init, TypeOK, ConfigOk
<1> QED
  BY <1>1
     DEF Init, RefreshInv, Paced, OnTime, SignalKept, SignalAnswered,
         OutlastFetch,
     FetchesSpaced, Active, Fetching, Larger

\* RefreshHandle::shutdown keeps the invariant.
LEMMA ShutdownKept ==
  ASSUME RefreshInv, Shutdown
  PROVE  RefreshInv'
<1> USE RefreshAssumption
<1>0. TypeOK /\ RefreshTypes /\ Paced
  BY TypesOfRefresh DEF RefreshInv
<1>1. /\ cfg' = cfg /\ prompt' = prompt
      /\ ConfigOk(cfg)' = ConfigOk(cfg)
  BY DEF Shutdown, taskVars, ConfigOk
<1>2. TypeOK'
  BY <1>0, <1>1 DEF TypeOK, Times, Shutdown, taskVars
<1>3. Paced' /\ FetchesSpaced'
  BY <1>0, <1>1, Accepted
     DEF RefreshInv, RefreshTypes, Times, Paced, FetchesSpaced, Deadline, Active,
         Fetching, Shutdown, taskVars
<1>4. ASSUME prompt' PROVE OnTime'
  BY <1>0, <1>1, <1>4, Accepted
     DEF RefreshInv, RefreshTypes, Times, Paced, OnTime, Deadline, Active,
         Fetching, Shutdown, taskVars
<1>5. ASSUME prompt' PROVE SignalKept' /\ SignalAnswered'
  BY <1>0, <1>1, <1>5, Accepted
     DEF RefreshInv, RefreshTypes, Times, Paced, OnTime, SignalKept,
         SignalAnswered, Active, Fetching, Shutdown, taskVars
<1>6. ASSUME prompt', healthy' PROVE OutlastFetch'
  BY <1>0, <1>1, <1>6, Accepted
     DEF RefreshInv, RefreshTypes, Times, Paced, OnTime, OutlastFetch, Deadline,
         Active, Fetching, Shutdown, taskVars
<1> QED
  BY <1>1, <1>2, <1>3, <1>4, <1>5, <1>6 DEF RefreshInv

\* A signal keeps the invariant.
LEMMA FireKept ==
  ASSUME RefreshInv, Fire
  PROVE  RefreshInv'
<1> USE RefreshAssumption
<1>0. TypeOK /\ RefreshTypes /\ Paced
  BY TypesOfRefresh DEF RefreshInv
<1>1. /\ cfg' = cfg /\ prompt' = prompt
      /\ ConfigOk(cfg)' = ConfigOk(cfg)
  BY DEF Fire, taskVars, ConfigOk
<1>2. TypeOK'
  BY <1>0, <1>1 DEF TypeOK, Times, Fire, taskVars
<1>3. Paced' /\ FetchesSpaced'
  BY <1>0, <1>1, Accepted
     DEF RefreshInv, RefreshTypes, Times, Paced, FetchesSpaced, Deadline, Active,
         Fetching, Fire, taskVars
<1>4. ASSUME prompt' PROVE OnTime'
  BY <1>0, <1>1, <1>4, Accepted
     DEF RefreshInv, RefreshTypes, Times, Paced, OnTime, Deadline, Active,
         Fetching, Fire, taskVars
<1>5. ASSUME prompt' PROVE SignalKept' /\ SignalAnswered'
  BY <1>0, <1>1, <1>5, Accepted
     DEF RefreshInv, RefreshTypes, Times, Paced, OnTime, SignalKept,
         SignalAnswered, Active, Fetching, Fire, taskVars
<1>6. ASSUME prompt', healthy' PROVE OutlastFetch'
  BY <1>0, <1>1, <1>6, Accepted
     DEF RefreshInv, RefreshTypes, Times, Paced, OnTime, OutlastFetch, Deadline,
         Active, Fetching, Fire, taskVars
<1> QED
  BY <1>1, <1>2, <1>3, <1>4, <1>5, <1>6 DEF RefreshInv

\* The first poll of the task keeps the invariant.
LEMMA StartKept ==
  ASSUME RefreshInv, Start
  PROVE  RefreshInv'
<1> USE RefreshAssumption
<1>0. TypeOK /\ RefreshTypes /\ Paced
  BY TypesOfRefresh DEF RefreshInv
<1>1. /\ cfg' = cfg /\ prompt' = prompt
      /\ ConfigOk(cfg)' = ConfigOk(cfg)
  BY DEF Start, ConfigOk
<1>2. TypeOK'
  BY <1>0, <1>1, DeadlineType DEF TypeOK, Times, Start
<1>3. Paced' /\ FetchesSpaced'
  BY <1>0, <1>1, Accepted
     DEF RefreshInv, RefreshTypes, Times, Paced, FetchesSpaced, Deadline, Active,
         Fetching, Start, Larger
<1>4. ASSUME prompt' PROVE OnTime'
  BY <1>0, <1>1, <1>4, Accepted
     DEF RefreshInv, RefreshTypes, Times, Paced, OnTime, Deadline, Active,
         Fetching, Start, Larger
<1>5. ASSUME prompt' PROVE SignalKept' /\ SignalAnswered'
  BY <1>0, <1>1, <1>5, Accepted
     DEF RefreshInv, RefreshTypes, Times, Paced, OnTime, SignalKept,
         SignalAnswered, Active, Fetching, Start, Larger
<1>6. ASSUME prompt', healthy' PROVE OutlastFetch'
  BY <1>0, <1>1, <1>6, Accepted
     DEF RefreshInv, RefreshTypes, Times, Paced, OnTime, OutlastFetch, Deadline,
         Active, Fetching, Start, Larger
<1> QED
  BY <1>1, <1>2, <1>3, <1>4, <1>5, <1>6 DEF RefreshInv

\* The end of the task keeps the invariant.
LEMMA StopKept ==
  ASSUME RefreshInv, Stop
  PROVE  RefreshInv'
<1> USE RefreshAssumption
<1>0. TypeOK /\ RefreshTypes /\ Paced
  BY TypesOfRefresh DEF RefreshInv
<1>1. /\ cfg' = cfg /\ prompt' = prompt
      /\ ConfigOk(cfg)' = ConfigOk(cfg)
  BY DEF Stop, ConfigOk
<1>2. TypeOK'
  BY <1>0, <1>1 DEF TypeOK, Times, Stop
<1>3. Paced' /\ FetchesSpaced'
  BY <1>0, <1>1, Accepted
     DEF RefreshInv, RefreshTypes, Times, Paced, FetchesSpaced, Deadline, Active,
         Fetching, Stop
<1>4. ASSUME prompt' PROVE OnTime'
  BY <1>0, <1>1, <1>4, Accepted
     DEF RefreshInv, RefreshTypes, Times, Paced, OnTime, Deadline, Active,
         Fetching, Stop
<1>5. ASSUME prompt' PROVE SignalKept' /\ SignalAnswered'
  BY <1>0, <1>1, <1>5, Accepted
     DEF RefreshInv, RefreshTypes, Times, Paced, OnTime, SignalKept,
         SignalAnswered, Active, Fetching, Stop
<1>6. ASSUME prompt', healthy' PROVE OutlastFetch'
  BY <1>0, <1>1, <1>6, Accepted
     DEF RefreshInv, RefreshTypes, Times, Paced, OnTime, OutlastFetch, Deadline,
         Active, Fetching, Stop
<1> QED
  BY <1>1, <1>2, <1>3, <1>4, <1>5, <1>6 DEF RefreshInv

\* Clearing stale keys between fetches keeps the invariant.
LEMMA WaitStaleKept ==
  ASSUME RefreshInv, WaitStale
  PROVE  RefreshInv'
<1> USE RefreshAssumption
<1>0. TypeOK /\ RefreshTypes /\ Paced
  BY TypesOfRefresh DEF RefreshInv
<1>1. /\ cfg' = cfg /\ prompt' = prompt
      /\ ConfigOk(cfg)' = ConfigOk(cfg)
  BY DEF WaitStale, ClearKeys, IsStale, ConfigOk
<1>2. TypeOK'
  BY <1>0, <1>1 DEF TypeOK, Times, WaitStale, ClearKeys, IsStale
<1>3. Paced' /\ FetchesSpaced'
  BY <1>0, <1>1, Accepted
     DEF RefreshInv, RefreshTypes, Times, Paced, FetchesSpaced, Deadline, Active,
         Fetching, WaitStale, ClearKeys, IsStale, Larger
<1>4. ASSUME prompt' PROVE OnTime'
  BY <1>0, <1>1, <1>4, Accepted
     DEF RefreshInv, RefreshTypes, Times, Paced, OnTime, Deadline, Active,
         Fetching, WaitStale, ClearKeys, IsStale, Larger
<1>5. ASSUME prompt' PROVE SignalKept' /\ SignalAnswered'
  BY <1>0, <1>1, <1>5, Accepted
     DEF RefreshInv, RefreshTypes, Times, Paced, OnTime, SignalKept,
         SignalAnswered, Active, Fetching, WaitStale, ClearKeys, IsStale, Larger
<1>6. ASSUME prompt', healthy' PROVE OutlastFetch'
  BY <1>0, <1>1, <1>6, Accepted
     DEF RefreshInv, RefreshTypes, Times, Paced, OnTime, OutlastFetch, Deadline,
         Active, Fetching, WaitStale, ClearKeys, IsStale, Larger
<1> QED
  BY <1>1, <1>2, <1>3, <1>4, <1>5, <1>6 DEF RefreshInv

\* The start of a fetch keeps the invariant: it is allowed, and the keys of
\* its predecessor outlast it.
LEMMA WaitDueKept ==
  ASSUME RefreshInv, WaitDue
  PROVE  RefreshInv'
<1> USE RefreshAssumption
<1>0. TypeOK /\ RefreshTypes /\ Paced
  BY TypesOfRefresh DEF RefreshInv
<1>1. /\ cfg' = cfg /\ prompt' = prompt
      /\ ConfigOk(cfg)' = ConfigOk(cfg)
  BY DEF WaitDue, IsStale, IsDue, ConfigOk
<1>2. TypeOK'
  <2>1. nextAllowed' \in Nat /\ nextDue' \in Nat
    BY <1>0 DEF WaitDue, RefreshTypes
  <2>2. {staleAt, fetchAt, keys, lastFetch, asked}' \subseteq Times
    BY <1>0 DEF WaitDue, RefreshTypes, Times
  <2> QED
    BY <1>0, <1>1, <2>1, <2>2 DEF WaitDue, TypeOK
<1>3. Paced' /\ FetchesSpaced'
  BY <1>0, <1>1, Accepted
     DEF RefreshInv, RefreshTypes, Times, Paced, FetchesSpaced, Deadline, Active,
         Fetching, WaitDue, IsStale, IsDue, Larger
<1>4. ASSUME prompt' PROVE OnTime'
  BY <1>0, <1>1, <1>4, Accepted
     DEF RefreshInv, RefreshTypes, Times, Paced, OnTime, Deadline, Active,
         Fetching, WaitDue, IsStale, IsDue, Larger
<1>5. ASSUME prompt' PROVE SignalKept' /\ SignalAnswered'
  BY <1>0, <1>1, <1>5, Accepted
     DEF RefreshInv, RefreshTypes, Times, Paced, OnTime, SignalKept,
         SignalAnswered, Active, Fetching, WaitDue, IsStale, IsDue, Larger
<1>6. ASSUME prompt', healthy' PROVE OutlastFetch'
  BY <1>0, <1>1, <1>6, Accepted
     DEF RefreshInv, RefreshTypes, Times, Paced, OnTime, OutlastFetch, Deadline,
         Active, Fetching, WaitDue, IsStale, IsDue, Larger
<1> QED
  BY <1>1, <1>2, <1>3, <1>4, <1>5, <1>6 DEF RefreshInv

\* Following a signal keeps the invariant.
LEMMA WaitSignalKept ==
  ASSUME RefreshInv, WaitSignal
  PROVE  RefreshInv'
<1> USE RefreshAssumption
<1>0. TypeOK /\ RefreshTypes /\ Paced
  BY TypesOfRefresh DEF RefreshInv
<1>1. /\ cfg' = cfg /\ prompt' = prompt
      /\ ConfigOk(cfg)' = ConfigOk(cfg)
  BY DEF WaitSignal, IsStale, IsDue, ConfigOk
<1>2. TypeOK'
  <2>1. nextAllowed' \in Nat /\ nextDue' \in Nat
    BY <1>0 DEF WaitSignal, RefreshTypes, Smaller
  <2> QED
    BY <1>0, <1>1, <2>1 DEF WaitSignal, TypeOK
<1>3. Paced' /\ FetchesSpaced'
  BY <1>0, <1>1, Accepted
     DEF RefreshInv, RefreshTypes, Times, Paced, FetchesSpaced, Deadline, Active,
         Fetching, WaitSignal, IsStale, IsDue, Larger, Smaller
<1>4. ASSUME prompt' PROVE OnTime'
  BY <1>0, <1>1, <1>4, Accepted
     DEF RefreshInv, RefreshTypes, Times, Paced, OnTime, Deadline, Active,
         Fetching, WaitSignal, IsStale, IsDue, Larger, Smaller
<1>5. ASSUME prompt' PROVE SignalKept' /\ SignalAnswered'
  BY <1>0, <1>1, <1>5, Accepted
     DEF RefreshInv, RefreshTypes, Times, Paced, OnTime, SignalKept,
         SignalAnswered, Active, Fetching, WaitSignal, IsStale, IsDue, Larger,
         Smaller
<1>6. ASSUME prompt', healthy' PROVE OutlastFetch'
  BY <1>0, <1>1, <1>6, Accepted
     DEF RefreshInv, RefreshTypes, Times, Paced, OnTime, OutlastFetch, Deadline,
         Active, Fetching, WaitSignal, IsStale, IsDue, Larger, Smaller
<1> QED
  BY <1>1, <1>2, <1>3, <1>4, <1>5, <1>6 DEF RefreshInv

\* The end of a fetch keeps the invariant.
LEMMA FetchDoneKept ==
  ASSUME RefreshInv, NEW result \in {"response", "error", "timeout"}, FetchDone(result)
  PROVE  RefreshInv'
<1> USE RefreshAssumption
<1>0. TypeOK /\ RefreshTypes /\ Paced
  BY TypesOfRefresh DEF RefreshInv
<1>1. /\ cfg' = cfg /\ prompt' = prompt
      /\ ConfigOk(cfg)' = ConfigOk(cfg)
  BY DEF FetchDone, ConfigOk
<1>2. TypeOK'
  BY <1>0, <1>1 DEF TypeOK, Times, FetchDone
<1>3. Paced' /\ FetchesSpaced'
  BY <1>0, <1>1, Accepted
     DEF RefreshInv, RefreshTypes, Times, Paced, FetchesSpaced, Deadline, Active,
         Fetching, FetchDone
<1>4. ASSUME prompt' PROVE OnTime'
  BY <1>0, <1>1, <1>4, Accepted
     DEF RefreshInv, RefreshTypes, Times, Paced, OnTime, Deadline, Active,
         Fetching, FetchDone
<1>5. ASSUME prompt' PROVE SignalKept' /\ SignalAnswered'
  BY <1>0, <1>1, <1>5, Accepted
     DEF RefreshInv, RefreshTypes, Times, Paced, OnTime, SignalKept,
         SignalAnswered, Active, Fetching, FetchDone
<1>6. ASSUME prompt', healthy' PROVE OutlastFetch'
  BY <1>0, <1>1, <1>6, Accepted
     DEF RefreshInv, RefreshTypes, Times, Paced, OnTime, OutlastFetch, Deadline,
         Active, Fetching, FetchDone
<1> QED
  BY <1>1, <1>2, <1>3, <1>4, <1>5, <1>6 DEF RefreshInv

\* Clearing stale keys during a fetch keeps the invariant: only a failure
\* before can bring it about.
LEMMA FetchStaleKept ==
  ASSUME RefreshInv, FetchStale
  PROVE  RefreshInv'
<1> USE RefreshAssumption
<1>0. TypeOK /\ RefreshTypes /\ Paced
  BY TypesOfRefresh DEF RefreshInv
<1>1. /\ cfg' = cfg /\ prompt' = prompt
      /\ ConfigOk(cfg)' = ConfigOk(cfg)
  BY DEF FetchStale, ClearKeys, IsStale, ConfigOk
<1>2. TypeOK'
  BY <1>0, <1>1 DEF TypeOK, Times, FetchStale, ClearKeys, IsStale
<1>3. Paced' /\ FetchesSpaced'
  BY <1>0, <1>1, Accepted
     DEF RefreshInv, RefreshTypes, Times, Paced, FetchesSpaced, Deadline, Active,
         Fetching, FetchStale, ClearKeys, IsStale
<1>4. ASSUME prompt' PROVE OnTime'
  BY <1>0, <1>1, <1>4, Accepted
     DEF RefreshInv, RefreshTypes, Times, Paced, OnTime, Deadline, Active,
         Fetching, FetchStale, ClearKeys, IsStale
<1>5. ASSUME prompt' PROVE SignalKept' /\ SignalAnswered'
  BY <1>0, <1>1, <1>5, Accepted
     DEF RefreshInv, RefreshTypes, Times, Paced, OnTime, SignalKept,
         SignalAnswered, Active, Fetching, FetchStale, ClearKeys, IsStale
<1>6. ASSUME prompt', healthy' PROVE OutlastFetch'
  BY <1>0, <1>1, <1>6, Accepted
     DEF RefreshInv, RefreshTypes, Times, Paced, OnTime, OutlastFetch, Deadline,
         Active, Fetching, FetchStale, ClearKeys, IsStale
<1> QED
  BY <1>1, <1>2, <1>3, <1>4, <1>5, <1>6 DEF RefreshInv

\* A fetch that brings new keys keeps the invariant.
LEMMA ApplyOkKept ==
  ASSUME RefreshInv, NEW age \in MaxAges \cup {None}, ApplyOk(age)
  PROVE  RefreshInv'
<1> USE RefreshAssumption
<1>0. TypeOK /\ RefreshTypes /\ Paced
  BY TypesOfRefresh DEF RefreshInv
<1>1. /\ cfg' = cfg /\ prompt' = prompt
      /\ ConfigOk(cfg)' = ConfigOk(cfg)
  BY DEF ApplyOk, ConfigOk
<1>2. TypeOK'
  <2>1. fetchAt \in Nat
    BY <1>0 DEF ApplyOk, RefreshTypes, Paced, Fetching, Times
  <2>2. nextAllowed' \in Nat /\ nextDue' \in Nat
    BY <1>0, <2>1, NextWaitBounds DEF ApplyOk, RefreshTypes, Paced
  <2>3. staleAt' \in Times
    BY <1>0, <2>1, DeadlineType DEF ApplyOk
  <2>4. {staleAt, fetchAt, keys, lastFetch, asked}' \subseteq Times
    BY <1>0, <2>3 DEF ApplyOk, RefreshTypes
  <2> QED
    BY <1>0, <1>1, <2>2, <2>4 DEF ApplyOk, TypeOK
<1>3. Paced' /\ FetchesSpaced'
  BY <1>0, <1>1, Accepted, NextWaitBounds
     DEF RefreshInv, RefreshTypes, Times, Paced, FetchesSpaced, Deadline, Active,
         Fetching, ApplyOk, Larger
<1>4. ASSUME prompt' PROVE OnTime'
  BY <1>0, <1>1, <1>4, Accepted, NextWaitBounds
     DEF RefreshInv, RefreshTypes, Times, Paced, OnTime, Deadline, Active,
         Fetching, ApplyOk, Larger
<1>5. ASSUME prompt' PROVE SignalKept' /\ SignalAnswered'
  BY <1>0, <1>1, <1>5, Accepted, NextWaitBounds
     DEF RefreshInv, RefreshTypes, Times, Paced, OnTime, SignalKept,
         SignalAnswered, Active, Fetching, ApplyOk, Larger
<1>6. ASSUME prompt', healthy' PROVE OutlastFetch'
  BY <1>0, <1>1, <1>6, Accepted, NextWaitBounds
     DEF RefreshInv, RefreshTypes, Times, Paced, OnTime, OutlastFetch, Deadline,
         Active, Fetching, ApplyOk, Larger
<1> QED
  BY <1>1, <1>2, <1>3, <1>4, <1>5, <1>6 DEF RefreshInv

\* A failed fetch keeps the invariant.
LEMMA ApplyFailedKept ==
  ASSUME RefreshInv, ApplyFailed
  PROVE  RefreshInv'
<1> USE RefreshAssumption
<1>0. TypeOK /\ RefreshTypes /\ Paced
  BY TypesOfRefresh DEF RefreshInv
<1>1. /\ cfg' = cfg /\ prompt' = prompt
      /\ ConfigOk(cfg)' = ConfigOk(cfg)
  BY DEF ApplyFailed, ConfigOk
<1>2. TypeOK'
  BY <1>0, <1>1 DEF TypeOK, Times, ApplyFailed, RefreshTypes, Paced, Fetching
<1>3. Paced' /\ FetchesSpaced'
  BY <1>0, <1>1, Accepted
     DEF RefreshInv, RefreshTypes, Times, Paced, FetchesSpaced, Deadline, Active,
         Fetching, ApplyFailed, Larger
<1>4. ASSUME prompt' PROVE OnTime'
  BY <1>0, <1>1, <1>4, Accepted
     DEF RefreshInv, RefreshTypes, Times, Paced, OnTime, Deadline, Active,
         Fetching, ApplyFailed, Larger
<1>5. ASSUME prompt' PROVE SignalKept' /\ SignalAnswered'
  BY <1>0, <1>1, <1>5, Accepted
     DEF RefreshInv, RefreshTypes, Times, Paced, OnTime, SignalKept,
         SignalAnswered, Active, Fetching, ApplyFailed, Larger
<1>6. ASSUME prompt', healthy' PROVE OutlastFetch'
  BY <1>0, <1>1, <1>6, Accepted
     DEF RefreshInv, RefreshTypes, Times, Paced, OnTime, OutlastFetch, Deadline,
         Active, Fetching, ApplyFailed, Larger
<1> QED
  BY <1>1, <1>2, <1>3, <1>4, <1>5, <1>6 DEF RefreshInv

\* The clock keeps the invariant.
LEMMA TickKept ==
  ASSUME RefreshInv, Tick
  PROVE  RefreshInv'
<1> USE RefreshAssumption
<1>0. TypeOK /\ RefreshTypes /\ Paced
  BY TypesOfRefresh DEF RefreshInv
<1>1. /\ cfg' = cfg /\ prompt' = prompt
      /\ ConfigOk(cfg)' = ConfigOk(cfg)
  BY DEF Tick, Ready, IsStale, IsDue, taskVars, ConfigOk
<1>2. TypeOK'
  BY <1>0, <1>1 DEF TypeOK, Times, Tick, Ready, IsStale, IsDue, taskVars
<1>3. Paced' /\ FetchesSpaced'
  BY <1>0, <1>1, Accepted
     DEF RefreshInv, RefreshTypes, Times, Paced, FetchesSpaced, Deadline, Active,
         Fetching, Tick, Ready, IsStale, IsDue, taskVars, Larger
<1>4. ASSUME prompt' PROVE OnTime'
  BY <1>0, <1>1, <1>4, Accepted
     DEF RefreshInv, RefreshTypes, Times, Paced, OnTime, Deadline, Active,
         Fetching, Tick, Ready, IsStale, IsDue, taskVars, Larger
<1>5. ASSUME prompt' PROVE SignalKept' /\ SignalAnswered'
  BY SMTT(30), <1>0, <1>1, <1>5, Accepted
     DEF RefreshInv, RefreshTypes, Times, Paced, OnTime, SignalKept,
         SignalAnswered, Active, Fetching, Tick, Ready, IsStale, IsDue, taskVars,
         Larger
<1>6. ASSUME prompt', healthy' PROVE OutlastFetch'
  BY SMTT(20), <1>0, <1>1, <1>6, Accepted
     DEF RefreshInv, RefreshTypes, Times, Paced, OnTime, OutlastFetch, Deadline,
         Active, Fetching, Tick, Ready, IsStale, IsDue, taskVars, Larger
<1> QED
  BY <1>1, <1>2, <1>3, <1>4, <1>5, <1>6 DEF RefreshInv

\* Every step keeps the invariant of the refresh task.
LEMMA RefreshStepHolds == RefreshInv /\ [Next]_vars => RefreshInv'
<1> SUFFICES ASSUME RefreshInv, [Next]_vars PROVE RefreshInv'
  OBVIOUS
<1>1. CASE Shutdown \/ Fire \/ Tick
  BY <1>1, ShutdownKept, FireKept, TickKept
<1>2. CASE FetchDone("response") \/ FetchDone("error") \/ FetchDone("timeout")
  BY <1>2, FetchDoneKept
<1>3. CASE \E age \in MaxAges \cup {None} : ApplyOk(age)
  BY <1>3, ApplyOkKept
<1>4. CASE Start \/ Stop \/ WaitStale \/ WaitDue \/ WaitSignal \/ FetchStale \/ ApplyFailed
  BY <1>4, StartKept, StopKept, WaitStaleKept, WaitDueKept, WaitSignalKept,
     FetchStaleKept, ApplyFailedKept
<1>5. CASE UNCHANGED vars
  <2>1. TypeOK' /\ FetchesSpaced'
    BY <1>5 DEF vars, taskVars, RefreshInv, TypeOK, FetchesSpaced
  <2>2. Paced'
    BY <1>5 DEF vars, taskVars, RefreshInv, Paced, Active, Fetching, ConfigOk, Deadline
  <2>3. prompt' => OnTime'
    BY <1>5 DEF vars, taskVars, RefreshInv, OnTime, Active, Fetching
  <2>4. prompt' => SignalKept' /\ SignalAnswered'
    BY <1>5 DEF vars, taskVars, RefreshInv, SignalKept, SignalAnswered, Active
  <2>5. prompt' /\ healthy' => OutlastFetch'
    BY <1>5 DEF vars, taskVars, RefreshInv, OutlastFetch, Fetching
  <2> QED
    BY <2>1, <2>2, <2>3, <2>4, <2>5 DEF RefreshInv
<1> QED
  BY <1>1, <1>2, <1>3, <1>4, <1>5 DEF Next, Task

\* For any configuration that build accepts and whatever the source answers:
\* keys are never in use longer than max_stale after the start of the fetch
\* that brought them, and they are taken away only after a failed fetch, to the
\* tick (stale_deadline, clear_keys, the order of the branches of the select).
THEOREM KeysAreExact == Spec => []KeysExact
<1>1. RefreshInv => KeysExact
  <2> SUFFICES ASSUME RefreshInv PROVE KeysExact
    OBVIOUS
  <2>1. TypeOK /\ RefreshTypes
    BY TypesOfRefresh DEF RefreshInv
  <2>2. KeysFresh
    BY <2>1, RefreshAssumption, DeadlineType
       DEF RefreshInv, KeysFresh, Paced, OnTime, Active, RefreshTypes, Times
  <2>3. HealthyNeverCleared
    BY DEF RefreshInv, HealthyNeverCleared, OutlastFetch
  <2> QED
    BY <2>1, <2>2, <2>3 DEF KeysExact
<1> QED
  BY <1>1, RefreshInitHolds, RefreshStepHolds, PTL DEF Spec

\* For any configuration that build accepts, fetches begin when they have to
\* and never sooner than they may: min_interval apart however late the task is
\* polled, and, if it is polled in time, within a period of the last and within
\* min_interval of a signal, also of one that comes during a fetch.
THEOREM FetchesArePaced == Spec => []FetchesPaced
<1>1. RefreshInv => FetchesPaced
  <2> SUFFICES ASSUME RefreshInv PROVE FetchesPaced
    OBVIOUS
  <2>1. RefreshTypes /\ Paced
    BY TypesOfRefresh DEF RefreshInv
  <2>2. FetchedEveryPeriod
    BY <2>1, Accepted, RefreshAssumption
       DEF RefreshInv, FetchedEveryPeriod, Paced, OnTime, Fetching, RefreshTypes,
              Times,
           Larger
  <2> QED
    BY <2>2
       DEF RefreshInv, FetchesPaced, FetchesTimely, SignalAnswered, FetchesSpaced
<1> QED
  BY <1>1, RefreshInitHolds, RefreshStepHolds, PTL DEF Spec

-----------------------------------------------------------------------------
(* Responses, and what the functions that build one keep and add.          *)

Varies == {"Origin", "Accept-Encoding", "*"}
Encodings == {"none", "gzip"} \cup {x.encoding : x \in Resources}
Origins == {"none", "*"} \cup {r.origin : r \in Requests}

Responses ==
  [status : Nat, encoding : Encodings, vary : SUBSET Varies, acao : Origins,
   creds : BOOLEAN, body : Seq(Nat), size : Nat, gz : BOOLEAN]

\* Vary names the header, or everything.
Names(p, name) == name \in p.vary \/ "*" \in p.vary

\* with_vary adds a name to Vary and leaves the rest of the response alone.
LEMMA WithVaryAdds ==
  ASSUME NEW p \in Responses, NEW name \in Varies
  PROVE  /\ WithVary(p, name) \in Responses
         /\ Names(WithVary(p, name), name)
         /\ \A n : Names(p, n) => Names(WithVary(p, name), n)
         /\ WithVary(p, name).status = p.status
         /\ WithVary(p, name).encoding = p.encoding
         /\ WithVary(p, name).acao = p.acao
         /\ WithVary(p, name).creds = p.creds
         /\ WithVary(p, name).body = p.body
         /\ WithVary(p, name).size = p.size
         /\ WithVary(p, name).gz = p.gz
  BY DEF WithVary, Responses, Names

\* What a grant to an origin says: it names the origin or, if every one is let
\* in, none; what depends on the origin is told in Vary.
GrantFits(p, o) ==
  /\ p.acao # "none" => OriginAllowed(o)
  /\ p.acao = "*" => AnyOrigin
  /\ p.acao \notin {"none", "*"} => p.acao = o /\ Names(p, "Origin")
  /\ p.creds => Credentials

\* Granted gives such a grant and leaves the rest alone.
LEMMA GrantedFits ==
  ASSUME NEW p \in Responses, NEW o \in Origins, o # "*", OriginAllowed(o)
  PROVE  /\ Granted(p, o) \in Responses
         /\ GrantFits(Granted(p, o), o)
         /\ \A n : Names(p, n) => Names(Granted(p, o), n)
         /\ Granted(p, o).status = p.status
         /\ Granted(p, o).encoding = p.encoding
         /\ Granted(p, o).body = p.body
         /\ Granted(p, o).size = p.size
         /\ Granted(p, o).gz = p.gz
  <1> DEFINE e == [p EXCEPT !.acao = IF AnyOrigin THEN "*" ELSE o]
             q == IF AnyOrigin THEN e ELSE WithVary(e, "Origin")
  <1>1. /\ e \in Responses /\ e.status = p.status /\ e.encoding = p.encoding
        /\ e.body = p.body /\ e.size = p.size /\ e.gz = p.gz
        /\ e.vary = p.vary /\ e.acao = IF AnyOrigin THEN "*" ELSE o
    BY DEF Responses, Origins
  <1>2. Granted(p, o) = [q EXCEPT !.creds = Credentials]
    BY DEF Granted
  <1> HIDE DEF e
  <1>3. /\ q \in Responses /\ q.status = p.status /\ q.encoding = p.encoding
        /\ q.body = p.body /\ q.size = p.size /\ q.gz = p.gz
        /\ \A n : Names(p, n) => Names(q, n)
        /\ q.acao = IF AnyOrigin THEN "*" ELSE o
        /\ ~AnyOrigin => Names(q, "Origin")
    <2>1. CASE AnyOrigin
      BY <1>1, <2>1 DEF Names
    <2>2. CASE ~AnyOrigin
      <3>1. "Origin" \in Varies
        BY DEF Varies
      <3> QED
        BY <1>1, <2>2, <3>1, WithVaryAdds DEF Names
    <2> QED
      BY <2>1, <2>2
  <1> HIDE DEF q
  <1> DEFINE g == [q EXCEPT !.creds = Credentials]
  <1>4. /\ g \in Responses /\ g.status = q.status /\ g.encoding = q.encoding
        /\ g.body = q.body /\ g.size = q.size /\ g.gz = q.gz
        /\ g.vary = q.vary /\ g.acao = q.acao /\ g.creds = Credentials
    <2>1. Credentials \in BOOLEAN
      BY PipelineAssumption
    <2> QED
      BY <1>3, <2>1 DEF Responses
  <1> HIDE DEF g
  <1>5. Granted(p, o) = g
    BY <1>2 DEF g
  <1>6. \A n : Names(g, n) <=> Names(q, n)
    BY <1>4 DEF Names
  <1>7. GrantFits(g, o)
    BY <1>3, <1>4, <1>6 DEF GrantFits
  <1> QED
    BY <1>3, <1>4, <1>5, <1>6, <1>7

\* What every response on its way is, for the request it answers.
Fits(p, r) ==
  /\ GrantFits(p, r.origin)
  /\ p.encoding = "gzip" => AcceptsGzip(r) /\ Names(p, "Accept-Encoding")

\* Facts about the requests and the resources.
LEMMA InputTypes ==
  /\ \A r \in Requests \cup {Nothing.req} :
       r.origin \in Origins /\ r.origin # "*" /\ r.version \in {"1.0", "1.1"}
       /\ r.preflight \in BOOLEAN
  /\ \A x \in Resources :
       /\ x.encoding \in Encodings /\ x.encoding # "gzip"
       /\ x.vary \in SUBSET Varies /\ x.body \in Seq(Nat)
       /\ x.status \in Nat /\ x.gzSize \in Nat
  <1>1. ASSUME NEW r \in Requests
        PROVE  r.origin \in Origins /\ r.origin # "*" /\ r.version \in {"1.0", "1.1"}
               /\ r.preflight \in BOOLEAN
    BY PipelineAssumption DEF RequestOk, Origins
  <1>2. LET r == Nothing.req
        IN r.origin \in Origins /\ r.origin # "*" /\ r.version \in {"1.0", "1.1"}
           /\ r.preflight \in BOOLEAN
    BY DEF Nothing, Origins
  <1>3. ASSUME NEW x \in Resources
        PROVE  /\ x.encoding \in Encodings /\ x.encoding # "gzip"
               /\ x.vary \in SUBSET Varies /\ x.body \in Seq(Nat)
               /\ x.status \in Nat /\ x.gzSize \in Nat
    <2>1. ResourceOk(x)
      BY PipelineAssumption
    <2>2. x.encoding \in Encodings
      BY DEF Encodings
    <2>3. x.vary \in SUBSET Varies
      BY <2>1 DEF ResourceOk, Varies
    <2>4. x.status \in Nat
      <3>1. x.status \in 100..599
        BY <2>1 DEF ResourceOk
      <3>2. \A n \in 100..599 : n \in Nat
        OBVIOUS
      <3> QED
        BY ONLY <3>1, <3>2
    <2> QED
      BY <2>1, <2>2, <2>3, <2>4 DEF ResourceOk
  <1> QED
    BY <1>1, <1>2, <1>3

\* The empty response is one, grants nothing and is not compressed.
LEMMA EmptyResponse ==
  \A status \in Nat :
    LET e == Empty(status)
    IN /\ e \in Responses /\ (\A r : Fits(e, r)) /\ e.status = status
       /\ e.encoding = "none" /\ e.body = <<>> /\ e.size = 0 /\ e.gz = FALSE
  <1> TAKE status \in Nat
  <1>1. Empty(status) \in Responses
    BY DEF Empty, Responses, Encodings, Origins, Varies
  <1> QED
    BY <1>1 DEF Empty, Fits, GrantFits

\* apply_cors gives a response a fitting grant, or leaves it alone.
LEMMA ApplyCorsFits ==
  ASSUME NEW p \in Responses, NEW r \in Requests \cup {Nothing.req}, Fits(p, r)
  PROVE  /\ ApplyCors(r, p) \in Responses /\ Fits(ApplyCors(r, p), r)
         /\ \A n : Names(p, n) => Names(ApplyCors(r, p), n)
         /\ ApplyCors(r, p).status = p.status
         /\ ApplyCors(r, p).encoding = p.encoding
         /\ ApplyCors(r, p).body = p.body
         /\ ApplyCors(r, p).size = p.size
         /\ ApplyCors(r, p).gz = p.gz
  <1>1. r.origin \in Origins /\ r.origin # "*"
    BY InputTypes
  <1>2. CASE CorsOn /\ ~r.preflight /\ r.origin # "none" /\ OriginAllowed(r.origin)
    <2>1. ApplyCors(r, p) = Granted(p, r.origin)
      BY <1>2 DEF ApplyCors
    <2> DEFINE g == Granted(p, r.origin)
    <2>2. /\ g \in Responses /\ GrantFits(g, r.origin)
          /\ \A n : Names(p, n) => Names(g, n)
          /\ g.status = p.status /\ g.encoding = p.encoding /\ g.body = p.body
          /\ g.size = p.size /\ g.gz = p.gz
      BY ONLY <1>1, <1>2, p \in Responses, GrantedFits
    <2> HIDE DEF g
    <2>3. Fits(g, r)
      BY ONLY <2>2, Fits(p, r) DEF Fits
    <2>4. ApplyCors(r, p) = g
      BY ONLY <2>1 DEF g
    <2> QED
      BY ONLY <2>2, <2>3, <2>4
  <1>3. CASE ~(CorsOn /\ ~r.preflight /\ r.origin # "none" /\ OriginAllowed(r.origin))
    <2>1. ApplyCors(r, p) = p
      BY <1>3 DEF ApplyCors
    <2> QED
      BY <2>1
  <1> QED
    BY <1>2, <1>3

\* Naming a header in Vary keeps a response fitting.
LEMMA WithVaryFits ==
  ASSUME NEW p \in Responses, NEW name \in Varies, NEW r, Fits(p, r)
  PROVE  Fits(WithVary(p, name), r)
  BY WithVaryAdds DEF Fits, GrantFits

\* preflight_response fits, and has no body.
LEMMA PreflightFits ==
  ASSUME NEW r \in Requests \cup {Nothing.req}
  PROVE  /\ Preflight(r) \in Responses /\ Fits(Preflight(r), r)
         /\ Preflight(r).encoding = "none" /\ Preflight(r).gz = FALSE
         /\ Preflight(r).body = <<>> /\ Preflight(r).size = 0
  <1>1. r.origin \in Origins /\ r.origin # "*"
    BY InputTypes
  <1>2. 204 \in Nat /\ 403 \in Nat
    OBVIOUS
  <1>3. CASE OriginAllowed(r.origin) /\ r.asks
    <2> DEFINE e == Empty(204)
               g == Granted(e, r.origin)
    <2>1. /\ e \in Responses /\ e.encoding = "none" /\ e.body = <<>>
          /\ e.size = 0 /\ e.gz = FALSE
      BY <1>2, EmptyResponse
    <2> HIDE DEF e
    <2>2. /\ g \in Responses /\ GrantFits(g, r.origin) /\ g.encoding = "none"
          /\ g.body = <<>> /\ g.size = 0 /\ g.gz = FALSE
      BY <1>1, <1>3, <2>1, GrantedFits
    <2>3. Preflight(r) = g
      BY <1>3 DEF Preflight, e
    <2> HIDE DEF g
    <2> QED
      BY <2>2, <2>3 DEF Fits
  <1>4. CASE ~(OriginAllowed(r.origin) /\ r.asks)
    <2> DEFINE e == Empty(403)
    <2>1. Preflight(r) = e
      BY <1>4 DEF Preflight
    <2>2. /\ e \in Responses /\ e.encoding = "none" /\ e.body = <<>>
          /\ e.size = 0 /\ e.gz = FALSE
      BY <1>2, EmptyResponse
    <2>3. Fits(e, r)
      BY DEF Empty, Fits, GrantFits
    <2> HIDE DEF e
    <2> QED
      BY <2>1, <2>2, <2>3
  <1> QED
    BY <1>3, <1>4

\* Where plan_compression looks at Accept-Encoding at all.
Eligible(x, status, size) ==
  status # 204 /\ status \in 200..299 /\ x.compressible /\ size >= MinSize

\* What is planned for a response p to r.
Planned(plan, r, x, p) ==
  /\ plan.resp \in Responses /\ Fits(plan.resp, r)
  /\ plan.resp.status = p.status /\ plan.resp.encoding = p.encoding
  /\ plan.resp.body = p.body /\ plan.resp.size = p.size /\ plan.resp.gz = p.gz
  /\ Eligible(x, p.status, p.size) => Names(plan.resp, "Accept-Encoding")
  /\ plan.go => /\ plan.resp.encoding = "none" /\ AcceptsGzip(r)
                /\ Names(plan.resp, "Accept-Encoding")

\* plan_compression names Accept-Encoding wherever it looks at it, and lets
\* only a response be compressed that is not yet encoded.
LEMMA PlanFits ==
  ASSUME NEW p \in Responses, NEW r, NEW x, Fits(p, r)
  PROVE  Planned(Plan(r, x, p), r, x, p)
  <1> DEFINE w == WithVary(p, "Accept-Encoding")
             fit == Eligible(x, p.status, p.size)
             plan == Plan(r, x, p)
  <1>1. "Accept-Encoding" \in Varies
    BY DEF Varies
  <1>2. /\ w \in Responses /\ Fits(w, r) /\ Names(w, "Accept-Encoding")
        /\ w.status = p.status /\ w.encoding = p.encoding /\ w.body = p.body
        /\ w.size = p.size /\ w.gz = p.gz
    BY <1>1, WithVaryAdds, WithVaryFits
  <1>3. /\ plan.go = (fit /\ w.encoding = "none" /\ AcceptsGzip(r))
        /\ plan.resp = IF fit THEN w ELSE p
    BY DEF Plan, Eligible
  <1> HIDE DEF w, fit, plan
  <1>4. CASE fit
    <2>1. plan.resp = w
      BY <1>3, <1>4
    <2> QED
      BY <1>2, <1>3, <2>1 DEF Planned, plan
  <1>5. CASE ~fit
    <2>1. plan.resp = p /\ ~plan.go
      BY <1>3, <1>5
    <2> QED
      BY <1>5, <2>1 DEF Planned, plan, fit
  <1> QED
    BY <1>4, <1>5

\* begin_streaming_compression sets the encoding exactly when it compresses,
\* and names Accept-Encoding in Vary then.
LEMMA BeginFits ==
  ASSUME NEW p \in Responses, NEW r, NEW x, Fits(p, r), p.encoding # "gzip"
  PROVE  LET begin == BeginStreaming(r, x, p)
             q == begin.resp
         IN /\ q \in Responses /\ Fits(q, r) /\ q.status = p.status
            /\ begin.go \in BOOLEAN /\ (begin.go <=> q.encoding = "gzip")
            /\ begin.go => ~IsBodyless(p.status)
  <1> DEFINE w == WithVary(p, "Accept-Encoding")
             c == [w EXCEPT !.encoding = "gzip"]
             fit == /\ CompressionOn /\ CompressStreaming
                    /\ p.status \in 200..299 /\ ~IsBodyless(p.status)
                    /\ x.compressible
             go == fit /\ w.encoding = "none" /\ AcceptsGzip(r)
             begin == BeginStreaming(r, x, p)
  <1>1. "Accept-Encoding" \in Varies
    BY DEF Varies
  <1>2. /\ w \in Responses /\ Fits(w, r) /\ Names(w, "Accept-Encoding")
        /\ w.status = p.status /\ w.encoding = p.encoding
    BY <1>1, WithVaryAdds, WithVaryFits
  <1>3. begin = [go |-> go, resp |-> IF go THEN c ELSE IF fit THEN w ELSE p]
    BY DEF BeginStreaming
  <1>4. /\ c \in Responses /\ c.status = w.status /\ c.encoding = "gzip"
        /\ c.vary = w.vary /\ c.acao = w.acao /\ c.creds = w.creds
    <2> HIDE DEF w
    <2>1. "gzip" \in Encodings
      BY DEF Encodings
    <2> QED
      BY <1>2, <2>1 DEF Responses
  <1>5. go => ~IsBodyless(p.status) /\ AcceptsGzip(r)
    OBVIOUS
  <1> HIDE DEF w, c
  <1>6. begin.go = go /\ begin.resp = IF go THEN c ELSE IF fit THEN w ELSE p
    BY <1>3
  <1>7. go \in BOOLEAN
    OBVIOUS
  <1> HIDE DEF go, fit, begin
  <1>8. CASE go
    <2>1. begin.resp = c /\ begin.go
      BY <1>6, <1>8
    <2>2. Fits(c, r)
      BY <1>2, <1>4, <1>5, <1>8 DEF Fits, GrantFits, Names
    <2> QED
      BY <1>2, <1>4, <1>5, <1>8, <2>1, <2>2 DEF begin
  <1>9. CASE ~go
    <2>1. (begin.resp = w \/ begin.resp = p) /\ begin.go = FALSE
      BY <1>6, <1>7, <1>9
    <2> QED
      BY <1>2, <2>1 DEF begin
  <1> QED
    BY <1>8, <1>9

\* attach_compressed sets the encoding exactly when it replaces the body.
LEMMA AttachFits ==
  ASSUME NEW p \in Responses, NEW r, NEW size \in Nat, Fits(p, r),
         p.encoding = "none", p.gz = FALSE,
         AcceptsGzip(r), Names(p, "Accept-Encoding")
  PROVE  LET q == Attach(p, size)
         IN /\ q \in Responses /\ Fits(q, r) /\ q.status = p.status
            /\ q.body = p.body /\ Names(q, "Accept-Encoding")
            /\ (q.gz <=> q.encoding = "gzip")
  <1> DEFINE q == Attach(p, size)
             c == [p EXCEPT !.encoding = "gzip", !.size = size, !.gz = TRUE]
  <1>1. q = p \/ q = c
    BY DEF Attach
  <1>2. /\ c \in Responses /\ c.status = p.status /\ c.encoding = "gzip"
        /\ c.vary = p.vary /\ c.acao = p.acao /\ c.creds = p.creds
        /\ c.body = p.body /\ c.gz = TRUE
    <2>1. "gzip" \in Encodings
      BY DEF Encodings
    <2> QED
      BY <2>1 DEF Responses
  <1> HIDE DEF c, q
  <1>3. Fits(c, r) /\ Names(c, "Accept-Encoding")
    BY <1>2 DEF Fits, GrantFits, Names
  <1>4. CASE q = p
    BY <1>4 DEF q
  <1>5. CASE q = c
    BY <1>2, <1>3, <1>5 DEF q
  <1> QED
    BY <1>1, <1>4, <1>5

\* A cache that goes by Vary reuses a fitting response only where it fits.
LEMMA ReuseFitting ==
  ASSUME NEW c, NEW r, Fits(c.resp, c.req), Reusable(c, r)
  PROVE  Fits(c.resp, r)
  <1>1. /\ "*" \notin c.resp.vary
        /\ "Origin" \in c.resp.vary => c.req.origin = r.origin
        /\ "Accept-Encoding" \in c.resp.vary => c.req.accept = r.accept
    BY DEF Reusable
  <1>2. c.req.accept = r.accept => (AcceptsGzip(c.req) <=> AcceptsGzip(r))
    BY DEF AcceptsGzip
  <1>3. GrantFits(c.resp, r.origin)
    <2>1. CASE "Origin" \in c.resp.vary
      BY <1>1, <2>1 DEF Fits
    <2>2. CASE "Origin" \notin c.resp.vary
      BY <1>1, <2>2 DEF Fits, GrantFits, Names, OriginAllowed
    <2> QED
      BY <2>1, <2>2
  <1>4. c.resp.encoding = "gzip" => AcceptsGzip(r) /\ Names(c.resp, "Accept-Encoding")
    BY <1>1, <1>2 DEF Fits, Names
  <1> QED
    BY <1>3, <1>4 DEF Fits

-----------------------------------------------------------------------------
(* The body as written.                                                    *)

Piece(items, gz) == <<"data", items, gz>>
End == <<"end">>
Pieces == {End} \cup {Piece(s, g) : s \in Seq(Nat), g \in BOOLEAN}

\* What the pieces of a body carry, and that none of them ends it.
LEMMA PieceFacts ==
  ASSUME NEW s, NEW g
  PROVE  /\ Piece(s, g)[1] = "data" /\ Piece(s, g)[2] = s /\ Piece(s, g)[3] = g
         /\ Piece(s, g) # End /\ End[1] # "data"
  <1>1. Piece(s, g)[1] = "data" /\ Piece(s, g)[2] = s /\ Piece(s, g)[3] = g
    BY DEF Piece
  <1>2. End[1] = "end"
    BY DEF End
  <1> QED
    BY <1>1, <1>2

\* A sequence that is one longer.
LEMMA OneMore ==
  ASSUME NEW S, NEW w \in Seq(S), NEW e \in S
  PROVE  /\ w \o <<e>> \in Seq(S) /\ Len(w \o <<e>>) = Len(w) + 1
         /\ \A i \in 1..Len(w) : (w \o <<e>>)[i] = w[i]
         /\ (w \o <<e>>)[Len(w) + 1] = e
  <1>1. w \o <<e>> = Append(w, e)
    OBVIOUS
  <1> QED
    BY <1>1

\* The stream so far: a piece for each item.
Streamed(w, items, gz) ==
  /\ Len(w) = Len(items)
  /\ \A i \in 1..Len(items) : w[i] = Piece(<<items[i]>>, gz)

\* The stream after its end: a piece for each item and the terminator.
Ended(w, items, gz) ==
  /\ Len(w) = Len(items) + 1
  /\ \A i \in 1..Len(items) : w[i] = Piece(<<items[i]>>, gz)
  /\ w[Len(w)] = End

\* What a whole stream carries.
Whole == IF gzip THEN Append(sent, GzipEnd) ELSE sent

-----------------------------------------------------------------------------
(* The invariant. What CacheSafe and CorsSound say of the client's         *)
(* response is said here of every response on its way and of the one that  *)
(* is stored; and what BodyAsDeclared says of the body is said of it while *)
(* it grows.                                                               *)

PipelineTypes ==
  /\ resource \in Resources
  /\ progress \in {"idle", "answer", "finalize", "compress", "write", "head", "body",
             "delivered", "cut"}
  /\ req \in Requests \cup {Nothing.req} /\ resp \in Responses
  /\ cache.req \in Requests \cup {Nothing.req} /\ cache.resp \in Responses
  /\ framing \in {"length", "chunked", "close", "none"}
  /\ gzip \in BOOLEAN /\ keep \in BOOLEAN
  /\ sent \in Seq(Nat) /\ wire \in Seq(Pieces)

ResponsesFit == Fits(resp, req) /\ Fits(cache.resp, cache.req)

\* Nothing of the body is written before its head.
Unwritten ==
  progress \in {"answer", "finalize", "compress", "write", "head"} =>
    framing = "none" /\ wire = <<>> /\ ~gzip /\ sent = <<>>

\* Whoever is decided upon Accept-Encoding says so.
VaryTold ==
  /\ resp.body = resource.body
  /\ Eligible(resource, resp.status, Len(resource.body)) /\ CompressionOn
  => Names(resp, "Accept-Encoding")

Stages ==
  /\ progress \in {"finalize", "head"} => ~resp.gz /\ resp.encoding # "gzip"
  /\ progress = "finalize" => resp.size = Len(resp.body)
  /\ progress = "compress" =>
       /\ AcceptsGzip(req) /\ Names(resp, "Accept-Encoding")
       /\ resp.encoding = "none" /\ ~resp.gz
  /\ progress \in {"compress", "write"} \/ framing = "length" => VaryTold
  /\ progress = "write" \/ framing = "length" => (resp.gz <=> resp.encoding = "gzip")

WireTrue ==
  /\ framing = "none" => wire = <<>> /\ ~gzip /\ progress # "body"
  /\ framing = "length" =>
       /\ ~gzip /\ progress \in {"delivered", "idle"}
       /\ \A i \in 1..Len(wire) : wire[i] = Piece(resp.body, resp.gz)
  /\ framing = "close" =>
       ~gzip /\ ~keep /\ resp.encoding # "gzip" /\ Streamed(wire, sent, FALSE)
  /\ framing = "chunked" =>
       /\ gzip <=> resp.encoding = "gzip"
       /\ ~IsBodyless(resp.status)
       /\ Streamed(wire, sent, gzip) \/ Ended(wire, Whole, gzip)
       /\ progress \in {"body", "cut"} => Streamed(wire, sent, gzip)
       /\ progress = "delivered" => Ended(wire, Whole, gzip)

PipelineInv == PipelineTypes /\ ResponsesFit /\ Unwritten /\ Stages /\ WireTrue

\* It holds at first.
LEMMA PipelineStart ==
  PipelineInit => PipelineInv
  <1> SUFFICES ASSUME PipelineInit PROVE PipelineInv
    OBVIOUS
  <1>1. /\ Nothing.resp = Empty(0) /\ cache = Nothing /\ req = Nothing.req
        /\ resp = Nothing.resp /\ progress = "idle" /\ framing = "none" /\ wire = <<>>
        /\ gzip = FALSE /\ keep = FALSE /\ sent = <<>> /\ resource \in Resources
    BY DEF PipelineInit, Nothing
  <1>2. Empty(0) \in Responses /\ \A r : Fits(Empty(0), r)
    BY EmptyResponse
  <1>3. PipelineTypes
    <2>1. <<>> \in Seq(Nat) /\ <<>> \in Seq(Pieces)
      OBVIOUS
    <2> QED
      BY <1>1, <1>2, <2>1 DEF PipelineTypes
  <1>4. ResponsesFit
    BY <1>1, <1>2 DEF ResponsesFit
  <1>5. Unwritten /\ Stages /\ WireTrue
    BY <1>1 DEF Unwritten, Stages, WireTrue
  <1> QED
    BY <1>3, <1>4, <1>5 DEF PipelineInv

\* A request arrives; the cache answers it, or the server is to.
LEMMA ArriveKeeps ==
  ASSUME PipelineInv, Arrive
  PROVE  PipelineInv'
  <1>1. PICK r \in Requests :
          /\ req' = r
          /\ \/ Reusable(cache, r) /\ resp' = cache.resp /\ progress' = "delivered"
             \/ resp' = Nothing.resp /\ progress' = "answer"
    BY DEF Arrive
  <1>2. /\ framing' = "none" /\ wire' = <<>> /\ gzip' = FALSE /\ keep' = FALSE
        /\ sent' = <<>> /\ resource' = resource /\ cache' = cache
    BY DEF Arrive
  <1>3. PipelineTypes /\ ResponsesFit
    BY DEF PipelineInv
  <1>4. Empty(0) \in Responses /\ (\A q : Fits(Empty(0), q)) /\ Nothing.resp = Empty(0)
    BY EmptyResponse DEF Nothing
  <1>5. resp' \in Responses /\ Fits(resp', r)
    BY <1>1, <1>3, <1>4, ReuseFitting DEF PipelineTypes, ResponsesFit
  <1>6. PipelineTypes'
    <2>1. <<>> \in Seq(Nat) /\ <<>> \in Seq(Pieces)
      OBVIOUS
    <2> QED
      BY <1>1, <1>2, <1>3, <1>5, <2>1 DEF PipelineTypes
  <1>7. ResponsesFit'
    BY <1>1, <1>2, <1>3, <1>5 DEF ResponsesFit
  <1>8. Unwritten' /\ Stages' /\ WireTrue'
    BY <1>1, <1>2 DEF Unwritten, Stages, WireTrue
  <1> QED
    BY <1>6, <1>7, <1>8 DEF PipelineInv

\* The client takes its response, which the cache may store.
LEMMA TakeKeeps ==
  ASSUME PipelineInv, Take
  PROVE  PipelineInv'
  <1>1. /\ progress \in {"delivered", "cut"} /\ progress' = "idle"
        /\ cache' = [req |-> req, resp |-> resp] \/ cache' = cache
        /\ UNCHANGED <<resource, req, resp, framing, wire, gzip, keep, sent>>
    BY DEF Take
  <1>2. PipelineTypes /\ ResponsesFit /\ Stages /\ WireTrue
    BY DEF PipelineInv
  <1>3. PipelineTypes'
    BY <1>1, <1>2 DEF PipelineTypes
  <1>4. ResponsesFit'
    BY <1>1, <1>2 DEF ResponsesFit
  <1>5. Unwritten' /\ Stages'
    BY <1>1, <1>2 DEF Unwritten, Stages, VaryTold
  <1>6. WireTrue'
    BY <1>1, <1>2 DEF WireTrue, Whole
  <1> QED
    BY <1>3, <1>4, <1>5, <1>6 DEF PipelineInv

\* The resource's own response is one, grants nothing and is not compressed.
LEMMA ResourceFits ==
  ASSUME resource \in Resources, NEW r
  PROVE  /\ ResourceResponse \in Responses /\ Fits(ResourceResponse, r)
         /\ ResourceResponse.encoding # "gzip" /\ ~ResourceResponse.gz
         /\ ResourceResponse.size = Len(ResourceResponse.body)
  <1>1. /\ resource.encoding \in Encodings /\ resource.encoding # "gzip"
        /\ resource.vary \in SUBSET Varies /\ resource.body \in Seq(Nat)
        /\ resource.status \in Nat
    BY InputTypes
  <1>2. Len(resource.body) \in Nat /\ "none" \in Origins
    BY <1>1 DEF Origins
  <1>3. ResourceResponse \in Responses
    BY <1>1, <1>2 DEF Responses, ResourceResponse, Empty
  <1>4. /\ ResourceResponse.encoding = resource.encoding
        /\ ResourceResponse.acao = "none" /\ ResourceResponse.creds = FALSE
        /\ ResourceResponse.body = resource.body /\ ResourceResponse.gz = FALSE
        /\ ResourceResponse.size = Len(resource.body)
    BY DEF ResourceResponse, Empty
  <1> QED
    BY <1>1, <1>3, <1>4 DEF Fits, GrantFits

\* Someone answers.
LEMMA AnswerKeeps ==
  ASSUME PipelineInv, Answer
  PROVE  PipelineInv'
  <1>1. PipelineTypes /\ ResponsesFit /\ Unwritten
    BY DEF PipelineInv
  <1>2. progress = "answer" /\ UNCHANGED <<resource, req, framing, wire, gzip, keep, sent, cache>>
    BY DEF Answer
  <1>3. resource \in Resources /\ req \in Requests \cup {Nothing.req}
        /\ resource.status \in Nat
    BY <1>1, InputTypes DEF PipelineTypes
  <1>4. /\ progress' \in {"finalize", "head"}
        /\ \/ resp' = ResourceResponse \/ resp' = Preflight(req)
           \/ resp' = Empty(resource.status) \/ resp' = Empty(404)
    BY DEF Answer
  <1>5. /\ resp' \in Responses /\ Fits(resp', req) /\ ~resp'.gz
        /\ resp'.encoding # "gzip" /\ resp'.size = Len(resp'.body)
    <2>1. CASE resp' = ResourceResponse
      BY <1>3, <2>1, ResourceFits
    <2>2. CASE resp' = Preflight(req)
      BY <1>3, <2>2, PreflightFits
    <2>3. CASE resp' = Empty(resource.status) \/ resp' = Empty(404)
      <3>1. PICK n \in Nat : resp' = Empty(n)
        BY <1>3, <2>3
      <3> QED
        BY <3>1, EmptyResponse
    <2> QED
      BY <1>4, <2>1, <2>2, <2>3
  <1>6. PipelineTypes'
    BY <1>1, <1>2, <1>4, <1>5 DEF PipelineTypes
  <1>7. ResponsesFit'
    BY <1>1, <1>2, <1>5 DEF ResponsesFit
  <1>8. framing = "none" /\ wire = <<>> /\ ~gzip /\ sent = <<>>
    BY <1>1, <1>2 DEF Unwritten
  <1>9. Unwritten' /\ WireTrue'
    BY <1>2, <1>4, <1>8 DEF Unwritten, WireTrue
  <1>10. Stages'
    BY <1>2, <1>4, <1>5, <1>8 DEF Stages
  <1> QED
    BY <1>6, <1>7, <1>9, <1>10 DEF PipelineInv

\* finalize_response.
LEMMA FinalizeKeeps ==
  ASSUME PipelineInv, Finalize
  PROVE  PipelineInv'
  <1> DEFINE p == ApplyCors(req, resp)
             plan == Plan(req, resource, p)
  <1>1. PipelineTypes /\ ResponsesFit /\ Unwritten /\ Stages
    BY DEF PipelineInv
  <1>2. /\ progress = "finalize" /\ UNCHANGED <<resource, req, framing, wire, gzip, keep, sent, cache>>
        /\ resp' = IF CompressionOn THEN plan.resp ELSE p
        /\ progress' = IF CompressionOn /\ plan.go THEN "compress" ELSE "write"
    BY DEF Finalize
  <1>3. /\ p \in Responses /\ Fits(p, req) /\ p.body = resp.body /\ p.gz = resp.gz
        /\ p.size = resp.size /\ p.encoding = resp.encoding
    BY <1>1, ApplyCorsFits DEF PipelineTypes, ResponsesFit
  <1>4. resp.size = Len(resp.body) /\ ~resp.gz /\ resp.encoding # "gzip"
    BY <1>1, <1>2 DEF Stages
  <1> HIDE DEF p
  <1>5. /\ plan.resp \in Responses /\ Fits(plan.resp, req)
        /\ plan.resp.status = p.status /\ plan.resp.encoding = p.encoding
        /\ plan.resp.body = p.body /\ plan.resp.gz = p.gz
        /\ Eligible(resource, p.status, p.size) => Names(plan.resp, "Accept-Encoding")
        /\ plan.go => /\ plan.resp.encoding = "none" /\ AcceptsGzip(req)
                      /\ Names(plan.resp, "Accept-Encoding")
    <2>1. Planned(plan, req, resource, p)
      BY ONLY <1>3, PlanFits
    <2> HIDE DEF plan
    <2> QED
      BY ONLY <2>1 DEF Planned
  <1> HIDE DEF plan
  <1>6. /\ resp' \in Responses /\ Fits(resp', req) /\ resp'.gz = resp.gz
        /\ resp'.encoding = resp.encoding /\ resp'.body = resp.body
        /\ resp'.status = p.status
    BY <1>2, <1>3, <1>5
  <1>7. progress' \in {"compress", "write"}
    BY <1>2
  <1>8. PipelineTypes'
    BY <1>1, <1>2, <1>6, <1>7 DEF PipelineTypes
  <1>9. ResponsesFit'
    BY <1>1, <1>2, <1>6 DEF ResponsesFit
  <1>10. framing = "none" /\ wire = <<>> /\ ~gzip /\ sent = <<>>
    BY <1>1, <1>2 DEF Unwritten
  <1>11. Unwritten' /\ WireTrue'
    BY <1>2, <1>7, <1>10 DEF Unwritten, WireTrue
  <1>12. VaryTold'
    <2> SUFFICES ASSUME CompressionOn, resp'.body = resource.body,
                        Eligible(resource, resp'.status, Len(resource.body))
                 PROVE  Names(resp', "Accept-Encoding")
      BY <1>2 DEF VaryTold
    <2>1. p.size = Len(resource.body)
      BY <1>3, <1>4, <1>6
    <2> QED
      BY <1>2, <1>5, <1>6, <2>1
  <1>13. progress' = "compress" => /\ AcceptsGzip(req) /\ Names(resp', "Accept-Encoding")
                                   /\ resp'.encoding = "none" /\ ~resp'.gz
    BY <1>2, <1>4, <1>5, <1>6
  <1>14. resp'.gz <=> resp'.encoding = "gzip"
    BY <1>4, <1>6
  <1>15. Stages'
    BY <1>2, <1>7, <1>10, <1>12, <1>13, <1>14 DEF Stages
  <1> QED
    BY <1>8, <1>9, <1>11, <1>15 DEF PipelineInv

\* compress_body and attach_compressed.
LEMMA CompressKeeps ==
  ASSUME PipelineInv, Compress
  PROVE  PipelineInv'
  <1>1. PipelineTypes /\ ResponsesFit /\ Unwritten /\ Stages
    BY DEF PipelineInv
  <1>2. /\ progress = "compress" /\ progress' = "write"
        /\ UNCHANGED <<resource, req, framing, wire, gzip, keep, sent, cache>>
    BY DEF Compress
  <1>3. PICK size \in Nat : resp' = Attach(resp, size)
    <2>1. resource.gzSize \in Nat
      BY <1>1, InputTypes DEF PipelineTypes
    <2> QED
      BY <2>1 DEF Compress
  <1>4. /\ AcceptsGzip(req) /\ Names(resp, "Accept-Encoding")
        /\ resp.encoding = "none" /\ ~resp.gz /\ VaryTold
    BY <1>1, <1>2 DEF Stages
  <1>5. resp \in Responses /\ resp.gz = FALSE /\ Fits(resp, req)
    BY <1>1, <1>4 DEF PipelineTypes, ResponsesFit, Responses
  <1>6. /\ resp' \in Responses /\ Fits(resp', req) /\ resp'.status = resp.status
        /\ resp'.body = resp.body /\ Names(resp', "Accept-Encoding")
        /\ (resp'.gz <=> resp'.encoding = "gzip")
    <2> DEFINE q == Attach(resp, size)
    <2>1. /\ q \in Responses /\ Fits(q, req) /\ q.status = resp.status
          /\ q.body = resp.body /\ Names(q, "Accept-Encoding")
          /\ (q.gz <=> q.encoding = "gzip")
      BY <1>4, <1>5, AttachFits
    <2> HIDE DEF q
    <2>2. resp' = q
      BY <1>3 DEF q
    <2> QED
      BY ONLY <2>1, <2>2
  <1>7. PipelineTypes'
    BY <1>1, <1>2, <1>6 DEF PipelineTypes
  <1>8. ResponsesFit'
    BY <1>1, <1>2, <1>6 DEF ResponsesFit
  <1>9. framing = "none" /\ wire = <<>> /\ ~gzip /\ sent = <<>>
    BY <1>1, <1>2 DEF Unwritten
  <1>10. Unwritten' /\ WireTrue'
    BY <1>2, <1>9 DEF Unwritten, WireTrue
  <1>11. VaryTold'
    BY <1>6 DEF VaryTold
  <1>12. Stages'
    BY <1>2, <1>6, <1>9, <1>11 DEF Stages
  <1> QED
    BY <1>7, <1>8, <1>10, <1>12 DEF PipelineInv

\* serialize_into and the write.
LEMMA WriteKeeps ==
  ASSUME PipelineInv, Write
  PROVE  PipelineInv'
  <1>1. PipelineTypes /\ ResponsesFit /\ Unwritten /\ Stages
    BY DEF PipelineInv
  <1>2. /\ progress = "write" /\ progress' = "delivered" /\ keep' \in BOOLEAN
        /\ framing' = "length" /\ sent' = resp.body
        /\ UNCHANGED <<resource, req, resp, gzip, cache>>
    BY DEF Write
  <1>3. wire' = <<>> \/ wire' = <<Piece(resp.body, resp.gz)>>
    BY DEF Write, Piece
  <1>4. resp.body \in Seq(Nat) /\ resp.gz \in BOOLEAN
    BY <1>1 DEF PipelineTypes, Responses
  <1>5. Piece(resp.body, resp.gz) \in Pieces
    BY <1>4 DEF Pieces
  <1>6. /\ wire' \in Seq(Pieces)
        /\ \A i \in 1..Len(wire') : wire'[i] = Piece(resp.body, resp.gz)
    <2> DEFINE e == Piece(resp.body, resp.gz)
    <2>1. e \in Pieces /\ (wire' = <<>> \/ wire' = <<e>>)
      BY <1>3, <1>5
    <2> HIDE DEF e
    <2>2. wire' \in Seq(Pieces) /\ \A i \in 1..Len(wire') : wire'[i] = e
      <3>1. CASE wire' = <<>>
        BY ONLY <3>1
      <3>2. CASE wire' = <<e>>
        BY ONLY <2>1, <3>2
      <3> QED
        BY ONLY <2>1, <3>1, <3>2
    <2> QED
      BY <2>2 DEF e
  <1>7. PipelineTypes'
    BY <1>1, <1>2, <1>4, <1>6 DEF PipelineTypes
  <1>8. ResponsesFit'
    BY <1>1, <1>2 DEF ResponsesFit
  <1>9. ~gzip
    BY <1>1, <1>2 DEF Unwritten
  <1>10. Unwritten' /\ WireTrue'
    BY <1>2, <1>6, <1>9 DEF Unwritten, WireTrue
  <1>11. Stages'
    BY <1>1, <1>2 DEF Stages, VaryTold
  <1> QED
    BY <1>7, <1>8, <1>10, <1>11 DEF PipelineInv

\* A stream to which nothing was sent yet.
LEMMA NothingStreamed ==
  ASSUME NEW g
  PROVE  Streamed(<<>>, <<>>, g)
  BY DEF Streamed

\* The head of a streamed response.
LEMMA StreamHeadKeeps ==
  ASSUME PipelineInv, StreamHead
  PROVE  PipelineInv'
  <1> DEFINE p == ApplyCors(req, resp)
             begin == BeginStreaming(req, resource, p)
             old == req.version = "1.0"
             bodyless == IsBodyless(p.status)
  <1>1. PipelineTypes /\ ResponsesFit /\ Unwritten /\ Stages
    BY DEF PipelineInv
  <1>2. /\ progress = "head" /\ UNCHANGED <<resource, req, wire, sent, cache>>
        /\ resp' = IF old THEN p ELSE begin.resp
        /\ gzip' = (~old /\ begin.go)
        /\ framing' = IF old THEN "close" ELSE IF bodyless THEN "none" ELSE "chunked"
        /\ progress' = IF bodyless THEN "delivered" ELSE "body"
    BY DEF StreamHead
  <1>3. keep' \in BOOLEAN /\ (old => ~keep')
    BY DEF StreamHead
  <1>4. resp.encoding # "gzip"
    BY <1>1, <1>2 DEF Stages
  <1>5. p \in Responses /\ Fits(p, req) /\ p.encoding # "gzip"
    BY <1>1, <1>4, ApplyCorsFits DEF PipelineTypes, ResponsesFit
  <1> HIDE DEF p
  <1>6. /\ begin.resp \in Responses /\ Fits(begin.resp, req)
        /\ begin.resp.status = p.status /\ begin.go \in BOOLEAN
        /\ (begin.go <=> begin.resp.encoding = "gzip")
        /\ begin.go => ~bodyless
    BY <1>5, BeginFits
  <1> HIDE DEF begin, old, bodyless
  <1>7. /\ resp' \in Responses /\ Fits(resp', req) /\ resp'.status = p.status
        /\ gzip' \in BOOLEAN /\ (gzip' <=> resp'.encoding = "gzip")
        /\ gzip' => ~old /\ ~bodyless
    <2>1. CASE old
      BY <1>2, <1>5, <2>1
    <2>2. CASE ~old
      BY <1>2, <1>6, <2>2
    <2> QED
      BY <2>1, <2>2
  <1>8. progress' \in {"delivered", "body"} /\ framing' \in {"close", "none", "chunked"}
    BY <1>2
  <1>9. PipelineTypes'
    BY <1>1, <1>2, <1>3, <1>7, <1>8 DEF PipelineTypes
  <1>10. ResponsesFit'
    BY <1>1, <1>2, <1>7 DEF ResponsesFit
  <1>11. wire' = <<>> /\ sent' = <<>>
    BY <1>1, <1>2 DEF Unwritten
  <1>12. Unwritten' /\ Stages'
    BY <1>8 DEF Unwritten, Stages
  <1>13. Streamed(wire', sent', FALSE) /\ Streamed(wire', sent', gzip')
    BY <1>11, NothingStreamed
  <1>14. WireTrue'
    <2>1. CASE framing' = "close"
      <3>1. old
        BY <1>2, <2>1
      <3> QED
        BY <1>3, <1>7, <1>13, <2>1, <3>1 DEF WireTrue
    <2>2. CASE framing' = "none"
      <3>1. bodyless
        BY <1>2, <2>2
      <3> QED
        BY <1>2, <1>7, <1>11, <2>2, <3>1 DEF WireTrue
    <2>3. CASE framing' = "chunked"
      <3>1. ~bodyless /\ progress' = "body"
        BY <1>2, <2>3
      <3>2. ~IsBodyless(resp'.status)
        BY <1>7, <3>1 DEF bodyless
      <3> QED
        BY <1>7, <1>13, <2>3, <3>1, <3>2 DEF WireTrue
    <2> QED
      BY <1>8, <2>1, <2>2, <2>3
  <1> QED
    BY <1>9, <1>10, <1>12, <1>14 DEF PipelineInv

\* A stream that gets one item more.
LEMMA StreamedMore ==
  ASSUME NEW w \in Seq(Pieces), NEW items \in Seq(Nat), NEW g \in BOOLEAN,
         NEW n \in Nat, Streamed(w, items, g)
  PROVE  /\ w \o <<Piece(<<n>>, g)>> \in Seq(Pieces) /\ items \o <<n>> \in Seq(Nat)
         /\ Streamed(w \o <<Piece(<<n>>, g)>>, items \o <<n>>, g)
  <1> DEFINE e == Piece(<<n>>, g)
             v == w \o <<e>>
             t == items \o <<n>>
  <1>1. e \in Pieces
    <2>1. <<n>> \in Seq(Nat)
      OBVIOUS
    <2>2. \A t1 \in Seq(Nat) : Piece(t1, g) \in Pieces
      BY DEF Pieces
    <2> QED
      BY ONLY <2>1, <2>2
  <1>2. /\ t \in Seq(Nat) /\ Len(t) = Len(items) + 1 /\ t[Len(items) + 1] = n
        /\ \A i \in 1..Len(items) : t[i] = items[i]
    BY OneMore
  <1>3. Len(w) = Len(items) /\ \A i \in 1..Len(items) : w[i] = Piece(<<items[i]>>, g)
    BY DEF Streamed
  <1>4. e = Piece(<<n>>, g)
    OBVIOUS
  <1> HIDE DEF e, t
  <1>5. /\ v \in Seq(Pieces) /\ Len(v) = Len(w) + 1 /\ v[Len(w) + 1] = e
        /\ \A i \in 1..Len(w) : v[i] = w[i]
    BY <1>1, OneMore
  <1> HIDE DEF v
  <1>6. Len(items) \in Nat
    OBVIOUS
  <1>7. ASSUME NEW i \in 1..Len(t) PROVE v[i] = Piece(<<t[i]>>, g)
    <2>1. CASE i \in 1..Len(items)
      BY <1>2, <1>3, <1>5, <2>1
    <2>2. CASE i = Len(items) + 1
      BY <1>2, <1>3, <1>4, <1>5, <2>2
    <2> QED
      BY <1>2, <1>6, <2>1, <2>2
  <1>8. Streamed(v, t, g)
    BY <1>2, <1>3, <1>5, <1>7 DEF Streamed
  <1> QED
    BY <1>2, <1>5, <1>8 DEF e, v, t

\* A stream that gets its terminator.
LEMMA StreamedEnds ==
  ASSUME NEW w \in Seq(Pieces), NEW items \in Seq(Nat), NEW g, Streamed(w, items, g)
  PROVE  w \o <<End>> \in Seq(Pieces) /\ Ended(w \o <<End>>, items, g)
  <1> DEFINE v == w \o <<End>>
  <1>1. End \in Pieces
    BY DEF Pieces
  <1>2. /\ v \in Seq(Pieces) /\ Len(v) = Len(w) + 1 /\ v[Len(w) + 1] = End
        /\ \A i \in 1..Len(w) : v[i] = w[i]
    BY <1>1, OneMore
  <1> HIDE DEF v
  <1>3. Ended(v, items, g)
    BY <1>2 DEF Streamed, Ended
  <1> QED
    BY <1>2, <1>3 DEF v

\* A chunk: an empty one is left out, another one is a piece.
LEMMA StreamChunkKeeps ==
  ASSUME PipelineInv, StreamChunk
  PROVE  PipelineInv'
  <1>1. PipelineTypes /\ ResponsesFit /\ WireTrue /\ Stages
    BY DEF PipelineInv
  <1>2. progress = "body" /\ UNCHANGED <<resource, progress, req, resp, framing, gzip, keep, cache>>
    BY DEF StreamChunk
  <1>3. PICK items \in {<<>>, <<Len(sent) + 1>>} :
          sent' = sent \o items /\ wire' = wire \o Framed(items)
    BY DEF StreamChunk
  <1>4. framing \in {"close", "chunked"} /\ Streamed(wire, sent, gzip)
    <2>1. framing \in {"close", "chunked"}
      BY <1>1, <1>2 DEF WireTrue, PipelineTypes
    <2>2. framing = "close" => gzip = FALSE
      BY <1>1 DEF WireTrue, PipelineTypes
    <2> QED
      BY <1>1, <1>2, <2>1, <2>2 DEF WireTrue
  <1>5. sent \in Seq(Nat) /\ wire \in Seq(Pieces) /\ gzip \in BOOLEAN
    BY <1>1 DEF PipelineTypes
  <1>6. sent' \in Seq(Nat) /\ wire' \in Seq(Pieces) /\ Streamed(wire', sent', gzip)
    <2>1. CASE items = <<>>
      <3>1. sent \o <<>> = sent /\ wire \o <<>> = wire
        BY ONLY <1>5
      <3>2. Framed(items) = <<>>
        BY <2>1 DEF Framed
      <3>3. sent' = sent /\ wire' = wire
        BY <1>3, <2>1, <3>1, <3>2
      <3> QED
        BY <1>4, <1>5, <3>3
    <2>2. CASE items = <<Len(sent) + 1>>
      <3> DEFINE n == Len(sent) + 1
      <3>1. n \in Nat
        BY <1>5
      <3>2. Framed(items) = <<Piece(<<n>>, gzip)>>
        BY <2>2 DEF Framed, Piece
      <3>3. sent' = sent \o <<n>> /\ wire' = wire \o <<Piece(<<n>>, gzip)>>
        BY <1>3, <2>2, <3>2
      <3> HIDE DEF n
      <3> QED
        BY <1>4, <1>5, <3>1, <3>3, StreamedMore
    <2> QED
      BY <1>3, <2>1, <2>2
  <1>7. PipelineTypes'
    BY <1>1, <1>2, <1>6 DEF PipelineTypes
  <1>8. ResponsesFit' /\ Unwritten' /\ Stages'
    BY <1>1, <1>2 DEF ResponsesFit, Unwritten, Stages, VaryTold
  <1>9. WireTrue'
    <2>1. CASE framing = "close"
      <3>1. gzip = FALSE /\ ~keep /\ resp.encoding # "gzip"
        BY <1>1, <1>5, <2>1 DEF WireTrue
      <3> QED
        BY <1>2, <1>6, <2>1, <3>1 DEF WireTrue
    <2>2. CASE framing = "chunked"
      <3>1. (gzip <=> resp.encoding = "gzip") /\ ~IsBodyless(resp.status)
        BY <1>1, <2>2 DEF WireTrue
      <3> QED
        BY <1>2, <1>6, <2>2, <3>1 DEF WireTrue
    <2> QED
      BY <1>4, <2>1, <2>2
  <1> QED
    BY <1>7, <1>8, <1>9 DEF PipelineInv

\* The end of the stream.
LEMMA StreamEndKeeps ==
  ASSUME PipelineInv, StreamEnd
  PROVE  PipelineInv'
  <1>1. PipelineTypes /\ ResponsesFit /\ WireTrue /\ Stages
    BY DEF PipelineInv
  <1>2. /\ progress = "body" /\ progress' = "delivered"
        /\ UNCHANGED <<resource, req, resp, framing, gzip, keep, sent, cache>>
        /\ wire' = IF framing = "close" THEN wire
                   ELSE wire \o Framed(Residual) \o <<End>>
    BY DEF StreamEnd, End
  <1>3. sent \in Seq(Nat) /\ wire \in Seq(Pieces) /\ gzip \in BOOLEAN
    BY <1>1 DEF PipelineTypes
  <1>4. ResponsesFit' /\ Unwritten' /\ Stages'
    BY <1>1, <1>2 DEF ResponsesFit, Unwritten, Stages, VaryTold
  <1>5. CASE framing = "close"
    <2>1. PipelineTypes'
      BY <1>1, <1>2, <1>5 DEF PipelineTypes
    <2>2. WireTrue'
      BY <1>1, <1>2, <1>5 DEF WireTrue
    <2> QED
      BY <1>4, <2>1, <2>2 DEF PipelineInv
  <1>6. CASE framing = "chunked"
    <2>1. /\ Streamed(wire, sent, gzip) /\ (gzip <=> resp.encoding = "gzip")
          /\ ~IsBodyless(resp.status)
      BY <1>1, <1>2, <1>6 DEF WireTrue
    <2>2. /\ wire \o Framed(Residual) \in Seq(Pieces) /\ Whole \in Seq(Nat)
          /\ Streamed(wire \o Framed(Residual), Whole, gzip)
      <3>1. CASE gzip
        <4>1. Framed(Residual) = <<Piece(<<GzipEnd>>, gzip)>>
          BY <3>1 DEF Framed, Residual, Piece
        <4>2. Whole = sent \o <<GzipEnd>>
          BY <1>3, <3>1 DEF Whole
        <4>3. GzipEnd \in Nat
          BY DEF GzipEnd
        <4> QED
          BY <1>3, <2>1, <4>1, <4>2, <4>3, StreamedMore
      <3>2. CASE ~gzip
        <4>1. Framed(Residual) = <<>> /\ Whole = sent
          BY <3>2 DEF Framed, Residual, Whole
        <4>2. wire \o <<>> = wire
          BY ONLY <1>3
        <4> QED
          BY <1>3, <2>1, <4>1, <4>2
      <3> QED
        BY <3>1, <3>2
    <2>3. wire' = (wire \o Framed(Residual)) \o <<End>>
      BY <1>2, <1>6
    <2>4. wire' \in Seq(Pieces) /\ Ended(wire', Whole, gzip)
      BY <2>2, <2>3, StreamedEnds
    <2>5. Whole' = Whole
      BY <1>2 DEF Whole
    <2>6. PipelineTypes'
      BY <1>1, <1>2, <2>4 DEF PipelineTypes
    <2>7. WireTrue'
      BY <1>2, <1>6, <2>1, <2>4, <2>5 DEF WireTrue
    <2> QED
      BY <1>4, <2>6, <2>7 DEF PipelineInv
  <1> QED
    BY <1>1, <1>2, <1>5, <1>6 DEF WireTrue, PipelineTypes

\* The connection is closed in the middle.
LEMMA CutKeeps ==
  ASSUME PipelineInv, Cut
  PROVE  PipelineInv'
  <1>1. PipelineTypes /\ ResponsesFit /\ WireTrue /\ Stages /\ Unwritten
    BY DEF PipelineInv
  <1>2. /\ progress \in {"write", "head", "body"} /\ progress' = "cut" /\ keep' = FALSE
        /\ UNCHANGED <<resource, req, resp, framing, wire, gzip, sent, cache>>
    BY DEF Cut
  <1>3. PipelineTypes'
    BY <1>1, <1>2 DEF PipelineTypes
  <1>4. ResponsesFit' /\ Unwritten'
    BY <1>1, <1>2 DEF ResponsesFit, Unwritten
  <1>5. framing # "length"
    BY <1>1, <1>2 DEF WireTrue
  <1>6. Stages'
    BY <1>2, <1>5 DEF Stages
  <1>7. WireTrue'
    <2>1. CASE progress = "body"
      BY <1>1, <1>2, <1>5, <2>1 DEF WireTrue
    <2>2. CASE progress \in {"write", "head"}
      <3>1. framing = "none" /\ wire = <<>> /\ ~gzip
        BY <1>1, <2>2 DEF Unwritten
      <3> QED
        BY <1>2, <3>1 DEF WireTrue
    <2> QED
      BY <1>2, <2>1, <2>2
  <1> QED
    BY <1>3, <1>4, <1>6, <1>7 DEF PipelineInv

\* Every step keeps the invariant.
LEMMA PipelineStep ==
  ASSUME PipelineInv, [PipelineNext]_pipelineVars
  PROVE  PipelineInv'
  <1>1. CASE UNCHANGED pipelineVars
    <2>1. UNCHANGED <<resource, progress, req, resp, framing, wire, gzip, keep, sent, cache>>
      BY <1>1 DEF pipelineVars
    <2>2. PipelineTypes'
      BY <2>1 DEF PipelineInv, PipelineTypes
    <2>3. ResponsesFit' /\ Unwritten'
      BY <2>1 DEF PipelineInv, ResponsesFit, Unwritten
    <2>4. Stages'
      BY <2>1 DEF PipelineInv, Stages, VaryTold
    <2>5. WireTrue'
      BY <2>1 DEF PipelineInv, WireTrue, Whole
    <2> QED
      BY <2>2, <2>3, <2>4, <2>5 DEF PipelineInv
  <1>2. CASE PipelineNext
    BY <1>2, ArriveKeeps, TakeKeeps, AnswerKeeps, FinalizeKeeps, CompressKeeps,
       WriteKeeps, StreamHeadKeeps, StreamChunkKeeps, StreamEndKeeps, CutKeeps
       DEF PipelineNext
  <1> QED
    BY <1>1, <1>2

\* The invariant holds in every state.
LEMMA PipelineInvariant ==
  PipelineSpec => []PipelineInv
  BY PipelineStart, PipelineStep, PTL DEF PipelineSpec

\* What the invariant says of grants.
LEMMA CorsFromInv ==
  ASSUME PipelineInv
  PROVE  CorsSound
  <1>1. GrantFits(resp, req.origin)
    BY DEF PipelineInv, ResponsesFit, Fits
  <1>2. ~(AnyOrigin /\ Credentials)
    BY PipelineAssumption
  <1> QED
    BY <1>1, <1>2 DEF CorsSound, GrantFits

\* What it says of responses that are reused.
LEMMA CacheFromInv ==
  ASSUME PipelineInv
  PROVE  CacheSafe
  <1>1. ReuseFits
    BY DEF PipelineInv, ResponsesFit, Fits, GrantFits, ReuseFits
  <1>2. VaryDeclared
    <2> SUFFICES ASSUME framing = "length", CompressionOn, NEW r \in Requests,
                        resp.body = resource.body
                 PROVE  LET p == [resp EXCEPT !.encoding = resource.encoding,
                                              !.size = Len(resource.body), !.gz = FALSE]
                        IN Plan(r, resource, p).go # Plan(req, resource, p).go
                           => resp.vary \cap {"Accept-Encoding", "*"} # {}
      BY DEF VaryDeclared
    <2> DEFINE p == [resp EXCEPT !.encoding = resource.encoding,
                                 !.size = Len(resource.body), !.gz = FALSE]
    <2>1. resp \in Responses
      BY DEF PipelineInv, PipelineTypes
    <2>2. p.status = resp.status /\ p.size = Len(resource.body)
      BY <2>1 DEF Responses
    <2> HIDE DEF p
    <2>3. VaryTold
      BY DEF PipelineInv, Stages
    <2>4. CASE Eligible(resource, resp.status, Len(resource.body))
      <3>1. Names(resp, "Accept-Encoding")
        BY <2>3, <2>4 DEF VaryTold
      <3> QED
        BY <3>1 DEF Names
    <2>5. CASE ~Eligible(resource, resp.status, Len(resource.body))
      <3>1. \A q : Plan(q, resource, p).go = FALSE
        BY <2>2, <2>5 DEF Plan, Eligible
      <3> QED
        BY <3>1 DEF p
    <2> QED
      BY <2>4, <2>5
  <1> QED
    BY <1>1, <1>2 DEF CacheSafe

\* What it says of the body.
LEMMA BodyFromInv ==
  ASSUME PipelineInv
  PROVE  BodyAsDeclared
  <1>1. PipelineTypes /\ Stages /\ WireTrue /\ Unwritten
    BY DEF PipelineInv
  <1>2. PipelineTypeOK
    <2>1. resp.status \in Nat /\ resp.gz \in BOOLEAN /\ resp.vary \subseteq Varies
      BY <1>1 DEF PipelineTypes, Responses
    <2>2. progress = "body" => framing \in {"chunked", "close"}
      BY <1>1 DEF WireTrue, PipelineTypes
    <2>3. gzip => framing = "chunked"
      BY <1>1 DEF WireTrue, PipelineTypes
    <2> QED
      BY <1>1, <2>1, <2>2, <2>3 DEF PipelineTypeOK, PipelineTypes, Varies
  <1>3. EncodingHonest
    <2> SUFFICES ASSUME progress \in {"delivered", "body", "cut"},
                        NEW i \in 1..Len(wire), wire[i][1] = "data"
                 PROVE  wire[i][3] <=> resp.encoding = "gzip"
      BY DEF EncodingHonest
    <2>0. wire \in Seq(Pieces) /\ sent \in Seq(Nat) /\ Len(wire) \in Nat
      BY <1>1 DEF PipelineTypes
    <2>1. CASE framing = "none"
      BY <1>1, <2>1 DEF WireTrue
    <2>2. CASE framing = "length"
      <3>1. wire[i] = Piece(resp.body, resp.gz)
        BY ONLY <1>1, <2>2, i \in 1..Len(wire) DEF WireTrue
      <3>2. resp.gz <=> resp.encoding = "gzip"
        BY ONLY <1>1, <2>2 DEF Stages
      <3>3. wire[i][3] = resp.gz
        BY ONLY <3>1 DEF Piece
      <3> QED
        BY ONLY <3>2, <3>3
    <2>3. CASE framing = "close"
      <3>1. Streamed(wire, sent, FALSE) /\ resp.encoding # "gzip"
        BY <1>1, <2>3 DEF WireTrue
      <3>2. wire[i] = Piece(<<sent[i]>>, FALSE)
        BY <3>1 DEF Streamed
      <3>3. wire[i][3] = FALSE
        BY ONLY <3>2 DEF Piece
      <3> QED
        BY ONLY <3>1, <3>3
    <2>4. CASE framing = "chunked"
      <3>1. /\ gzip <=> resp.encoding = "gzip"
            /\ Streamed(wire, sent, gzip) \/ Ended(wire, Whole, gzip)
        BY <1>1, <2>4 DEF WireTrue
      <3>2. CASE Streamed(wire, sent, gzip)
        <4>1. wire[i] = Piece(<<sent[i]>>, gzip)
          BY <3>2 DEF Streamed
        <4>2. wire[i][3] = gzip
          BY ONLY <4>1 DEF Piece
        <4> QED
          BY ONLY <3>1, <4>2
      <3>3. CASE Ended(wire, Whole, gzip)
        <4>1. i \in 1..Len(Whole) \/ i = Len(wire)
          <5>1. Len(wire) = Len(Whole) + 1
            BY <3>3 DEF Ended
          <5>2. Len(Whole) = Len(wire) - 1
            <6>1. Whole \in Seq(Nat)
              BY <2>0 DEF Whole, GzipEnd
            <6>2. Len(Whole) \in Nat
              BY ONLY <6>1
            <6> QED
              BY ONLY <5>1, <6>2
          <5> QED
            BY ONLY <2>0, <5>2, i \in 1..Len(wire)
        <4>2. i # Len(wire)
          BY <3>3, PieceFacts DEF Ended
        <4>3. wire[i] = Piece(<<Whole[i]>>, gzip)
          BY <3>3, <4>1, <4>2 DEF Ended
        <4>4. wire[i][3] = gzip
          BY ONLY <4>3 DEF Piece
        <4> QED
          BY ONLY <3>1, <4>4
      <3> QED
        BY <3>1, <3>2, <3>3
    <2> QED
      BY <1>1, <2>1, <2>2, <2>3, <2>4 DEF PipelineTypes
  <1>4. StreamWhole
    <2> SUFFICES ASSUME framing = "chunked", NEW k \in 1..Len(wire), wire[k] = End
                 PROVE  /\ progress # "body" /\ progress # "cut" /\ Len(wire) = Len(Whole) + 1
                        /\ \A i \in 1..Len(Whole) :
                             wire[i][1] = "data" /\ wire[i][2] = <<Whole[i]>>
      BY DEF StreamWhole, Whole, End
    <2>1. ~Streamed(wire, sent, gzip)
      <3>1. SUFFICES ASSUME Streamed(wire, sent, gzip) PROVE FALSE
        OBVIOUS
      <3>2. wire[k] = Piece(<<sent[k]>>, gzip)
        BY ONLY <3>1, k \in 1..Len(wire) DEF Streamed
      <3> QED
        BY ONLY <3>2, wire[k] = End, PieceFacts
    <2>2. Ended(wire, Whole, gzip) /\ progress # "body" /\ progress # "cut"
      BY <1>1, <2>1 DEF WireTrue
    <2>3. ASSUME NEW i \in 1..Len(Whole)
          PROVE  wire[i][1] = "data" /\ wire[i][2] = <<Whole[i]>>
      <3>1. wire[i] = Piece(<<Whole[i]>>, gzip)
        BY ONLY <2>2, i \in 1..Len(Whole) DEF Ended
      <3>2. PICK item : item = <<Whole[i]>>
        OBVIOUS
      <3>3. wire[i] = <<"data", item, gzip>>
        BY ONLY <3>1, <3>2 DEF Piece
      <3> QED
        BY ONLY <3>2, <3>3
    <2> QED
      BY <2>2, <2>3 DEF Ended
  <1>5. ClientInSync
    <2> SUFFICES ASSUME progress = "delivered", keep
                 PROVE  /\ framing # "close"
                        /\ framing = "chunked" => wire # <<>> /\ wire[Len(wire)] = End
                        /\ IsBodyless(resp.status) /\ framing # "length"
                             => wire = <<>>
      BY DEF ClientInSync, End, IsBodyless
    <2>1. framing # "close"
      BY <1>1 DEF WireTrue
    <2>2. framing = "chunked" =>
            /\ wire # <<>> /\ wire[Len(wire)] = End /\ ~IsBodyless(resp.status)
      <3> SUFFICES ASSUME framing = "chunked"
                   PROVE  wire # <<>> /\ wire[Len(wire)] = End /\ ~IsBodyless(resp.status)
        OBVIOUS
      <3>1. Ended(wire, Whole, gzip) /\ ~IsBodyless(resp.status)
        BY ONLY <1>1, progress = "delivered", framing = "chunked" DEF WireTrue
      <3>2. Whole \in Seq(Nat)
        BY <1>1 DEF Whole, GzipEnd, PipelineTypes
      <3>3. Len(wire) = Len(Whole) + 1 /\ wire[Len(wire)] = End
        BY <3>1 DEF Ended
      <3>4. wire # <<>>
        <4>1. Len(Whole) \in Nat
          BY ONLY <3>2
        <4> QED
          BY ONLY <3>3, <4>1
      <3> QED
        BY <3>1, <3>3, <3>4
    <2>3. framing = "none" => wire = <<>>
      BY <1>1 DEF WireTrue
    <2> QED
      BY <1>1, <2>1, <2>2, <2>3 DEF PipelineTypes
  <1> QED
    BY <1>2, <1>3, <1>4, <1>5 DEF BodyAsDeclared

-----------------------------------------------------------------------------
(* The theorems.                                                           *)

\* Whatever requests come, through whatever cache that goes by Vary: no
\* response grants access to an origin that is not allowed, and none that
\* carries credentials grants it to every origin (apply_cors_headers,
\* preflight_response).
THEOREM CorsIsSound ==
  PipelineSpec => []CorsSound
  BY PipelineInvariant, CorsFromInv, PTL

\* A response that a cache reuses fits the client that gets it, and one that
\* would have been encoded otherwise for another client says so in Vary
\* (plan_compression, begin_streaming_compression, apply_cors_headers).
THEOREM CachesAreSafe ==
  PipelineSpec => []CacheSafe
  BY PipelineInvariant, CacheFromInv, PTL

\* The body of every response is what its head says, whatever the handler
\* sends and wherever the connection breaks: Content-Encoding tells its
\* coding, a stream that ends is whole, and where the connection stays open
\* the client finds the next response (write_streaming_response,
\* attach_compressed, StreamingBodyEncoder::finish, encode_chunk).
THEOREM BodiesAreAsDeclared ==
  PipelineSpec => []BodyAsDeclared
  BY PipelineInvariant, BodyFromInv, PTL
=============================================================================
