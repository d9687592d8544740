--------------------------- MODULE NotifyThrottle ---------------------------
(***************************************************************************)
(* NotifyThrottle of crates/plugin-jwt (notify.rs): the lock-free limiter  *)
(* that request threads ask before they notify an unknown key. The threads *)
(* share two atomics; the time a thread brings is whatever the system      *)
(* clock told it, in any order, and U64Max when the clock is before 1970.  *)
(***************************************************************************)
EXTENDS Integers, FiniteSets

CONSTANTS
  Notifiers, \* threads that meet an unknown key
  Interval,  \* interval_secs
  U64Max,    \* u64::MAX
  MaxCalls   \* bound: calls altogether

ASSUME ThrottleAssumption ==
  /\ IsFiniteSet(Notifiers)
  /\ Interval \in Nat /\ U64Max \in Nat /\ MaxCalls \in Nat
  /\ Interval <= U64Max

VARIABLES
  next,        \* next_allowed_unix
  suppressed,  \* suppressed
  stage,       \* per thread: where try_acquire stands
  clock,       \* per thread: now_unix
  seen,        \* per thread: the value loaded from next_allowed_unix
  calls,       \* history: calls begun
  acquired,    \* history: calls that got through
  last,        \* history: now_unix of the latest of those
  reported     \* history: sum of the counts handed out

throttleVars ==
  <<next, suppressed, stage, clock, seen, calls, acquired, last, reported>>

ThrottleInit ==
  /\ next = 0 /\ suppressed = 0
  /\ stage = [t \in Notifiers |-> "idle"]
  /\ clock = [t \in Notifiers |-> 0]
  /\ seen = [t \in Notifiers |-> 0]
  /\ calls = 0 /\ acquired = 0 /\ last = 0 /\ reported = 0

\* Mutation of SaturatingAdd: a plain addition.
SaturatingAddPlain(a, b) == a + b

SaturatingAdd(a, b) == IF a + b > U64Max THEN U64Max ELSE a + b

\* A thread calls; without a clock the event is counted only.
Call(t, n) ==
  /\ stage[t] = "idle"
  /\ calls < MaxCalls
  /\ calls' = calls + 1
  /\ clock' = [clock EXCEPT ![t] = n]
  /\ stage' = [stage EXCEPT ![t] = IF n = U64Max THEN "count" ELSE "load"]
  /\ UNCHANGED <<next, suppressed, seen, acquired, last, reported>>

\* The load, and what is decided from the loaded value alone.
Load(t) ==
  /\ stage[t] = "load"
  /\ seen' = [seen EXCEPT ![t] = next]
  /\ stage' = [stage EXCEPT ![t] =
              IF (next = U64Max /\ Interval > 0) \/ clock[t] < next
              THEN "count" ELSE "exchange"]
  /\ UNCHANGED <<next, suppressed, clock, calls, acquired, last, reported>>

\* Mutation of Exchange: a plain store.
ExchangeBlind(t) ==
  /\ stage[t] = "exchange"
  /\ next' = SaturatingAdd(clock[t], Interval)
  /\ stage' = [stage EXCEPT ![t] = "swap"]
  /\ acquired' = acquired + 1
  /\ last' = clock[t]
  /\ UNCHANGED <<suppressed, clock, seen, calls, reported>>

\* Mutation of Exchange: the loser of the exchange is not counted.
ExchangeUncounted(t) ==
  /\ stage[t] = "exchange"
  /\ IF next = seen[t]
     THEN /\ next' = SaturatingAdd(clock[t], Interval)
          /\ stage' = [stage EXCEPT ![t] = "swap"]
          /\ acquired' = acquired + 1
          /\ last' = clock[t]
     ELSE /\ stage' = [stage EXCEPT ![t] = "idle"]
          /\ UNCHANGED <<next, acquired, last>>
  /\ UNCHANGED <<suppressed, clock, seen, calls, reported>>

\* Mutation of Exchange: the deadline is counted from the old deadline.
ExchangeFromSeen(t) ==
  /\ stage[t] = "exchange"
  /\ IF next = seen[t]
     THEN /\ next' = SaturatingAdd(seen[t], Interval)
          /\ stage' = [stage EXCEPT ![t] = "swap"]
          /\ acquired' = acquired + 1
          /\ last' = clock[t]
     ELSE /\ stage' = [stage EXCEPT ![t] = "count"]
          /\ UNCHANGED <<next, acquired, last>>
  /\ UNCHANGED <<suppressed, clock, seen, calls, reported>>

\* compare_exchange; the loser of a race is counted as suppressed.
Exchange(t) ==
  /\ stage[t] = "exchange"
  /\ IF next = seen[t]
     THEN /\ next' = SaturatingAdd(clock[t], Interval)
          /\ stage' = [stage EXCEPT ![t] = "swap"]
          /\ acquired' = acquired + 1
          /\ last' = clock[t]
     ELSE /\ stage' = [stage EXCEPT ![t] = "count"]
          /\ UNCHANGED <<next, acquired, last>>
  /\ UNCHANGED <<suppressed, clock, seen, calls, reported>>

Count(t) ==
  /\ stage[t] = "count"
  /\ suppressed' = suppressed + 1
  /\ stage' = [stage EXCEPT ![t] = "idle"]
  /\ UNCHANGED <<next, clock, seen, calls, acquired, last, reported>>

\* The winner takes the count of the events that were suppressed.
Swap(t) ==
  /\ stage[t] = "swap"
  /\ reported' = reported + suppressed
  /\ suppressed' = 0
  /\ stage' = [stage EXCEPT ![t] = "idle"]
  /\ UNCHANGED <<next, clock, seen, calls, acquired, last>>

TryAcquire(t) ==
  \/ \E n \in 0..U64Max : Call(t, n)
  \/ Load(t) \/ Exchange(t) \/ Count(t) \/ Swap(t)

ThrottleNext == \E t \in Notifiers : TryAcquire(t)

ThrottleSpec == ThrottleInit /\ [][ThrottleNext]_throttleVars

-----------------------------------------------------------------------------
(* Properties                                                              *)

\* The values each variable may have.
ThrottleTypeOK ==
  /\ next \in 0..U64Max /\ last \in 0..U64Max
  /\ suppressed \in Nat /\ calls \in Nat /\ acquired \in Nat
  /\ reported \in Nat
  /\ stage \in [Notifiers -> {"idle", "load", "exchange", "count", "swap"}]
  /\ clock \in [Notifiers -> 0..U64Max]
  /\ seen \in [Notifiers -> 0..U64Max]

\* The shared deadline is the latest notification's time plus the interval,
\* and a thread in the exchange loaded a deadline that its clock had passed.
DeadlineFollows ==
  /\ acquired > 0 => next = SaturatingAdd(last, Interval)
  /\ \A t \in Notifiers : stage[t] = "exchange" =>
       clock[t] >= seen[t] /\ (Interval > 0 => seen[t] < U64Max)

\* Types and deadline together, which every access to the atomics keeps.
DeadlineKept == ThrottleTypeOK /\ DeadlineFollows

\* Two notifications are at least the interval apart by the clocks of the
\* threads that send them, however the threads race and whatever the clock
\* does; when last + interval is not a u64 there is no further one.
Spaced ==
  [][acquired > 0 /\ acquired' # acquired => last' >= last + Interval]_throttleVars

UnderWay == {t \in Notifiers : stage[t] \in {"load", "exchange", "count"}}

\* No event is lost or counted twice: each call got through, was handed out
\* as suppressed, is counted, or is still under way.
EventsConserved ==
  calls = acquired + reported + suppressed + Cardinality(UnderWay)

\* The two atomics of NotifyThrottle are right together: the deadline is that
\* of the latest notification, and no event is lost from the count.
ThrottleSound == DeadlineKept /\ EventsConserved
=============================================================================
