------------------------------ MODULE Sampler ------------------------------
(***************************************************************************)
(* The request log of crates/plugin-tracing (layer.rs, sampler.rs): the    *)
(* middleware that looks at every finished response and records one in     *)
(* every interval of those whose path is not excluded. The connections'    *)
(* tasks call it concurrently; they share one atomic counter of u64.       *)
(***************************************************************************)
EXTENDS Integers, Sequences, FiniteSets, Selection

CONSTANTS
  SmTasks,     \* connections whose responses finish
  SmTargets,   \* request targets [path, query]
  SmExcluded,  \* exclude_paths
  SmInterval,  \* sample_interval
  SmModulus,   \* 2^64
  SmMaxCalls   \* bound: responses altogether

ASSUME SamplerAssumption ==
  /\ IsFiniteSet(SmTasks)
  /\ SmInterval \in Nat \ {0} /\ SmModulus \in Nat \ {0} /\ SmMaxCalls \in Nat

VARIABLES
  smCounter,  \* counter
  smHand,     \* per task: what it is about to record, a sequence of at most one path
  smLog,      \* the paths recorded
  smSeen      \* history: the targets of the responses, in the order of the counter

smVars == <<smCounter, smHand, smLog, smSeen>>

SamplerInit ==
  /\ smCounter = 0
  /\ smHand = [t \in SmTasks |-> <<>>]
  /\ smLog = <<>> /\ smSeen = <<>>

\* Mutation of ShouldSample: decided by the count after the addition.
OneBased(n) == (n + 1) % SmInterval = 0

\* Mutation of ShouldSample: the interval's last response is its first again.
ShortInterval(n) == SmInterval = 1 \/ n % (SmInterval - 1) = 0

ShouldSample(n) == n % SmInterval = 0

\* Mutation of RecordResponse: the counter advances for excluded paths too.
CountsExcluded(t, target) ==
  /\ smHand[t] = <<>>
  /\ Len(smSeen) < SmMaxCalls
  /\ smSeen' = Append(smSeen, target)
  /\ smCounter' = (smCounter + 1) % SmModulus
  /\ smHand' = [smHand EXCEPT ![t] =
                  IF target.path \notin SmExcluded /\ ShouldSample(smCounter)
                  THEN <<target.path>> ELSE <<>>]
  /\ UNCHANGED smLog

\* Mutation of RecordResponse: the target is compared with its query.
MatchesTarget(t, target) ==
  /\ smHand[t] = <<>>
  /\ Len(smSeen) < SmMaxCalls
  /\ smSeen' = Append(smSeen, target)
  /\ IF target.query = "" /\ target.path \in SmExcluded
     THEN UNCHANGED <<smCounter, smHand>>
     ELSE /\ smCounter' = (smCounter + 1) % SmModulus
          /\ smHand' = [smHand EXCEPT ![t] =
                          IF ShouldSample(smCounter) THEN <<target.path>> ELSE <<>>]
  /\ UNCHANGED smLog

\* A response finished: its path without the query is looked up, and unless
\* it is excluded fetch_add takes the next number, which wraps around.
RecordResponse(t, target) ==
  /\ smHand[t] = <<>>
  /\ Len(smSeen) < SmMaxCalls
  /\ smSeen' = Append(smSeen, target)
  /\ IF target.path \in SmExcluded
     THEN UNCHANGED <<smCounter, smHand>>
     ELSE /\ smCounter' = (smCounter + 1) % SmModulus
          /\ smHand' = [smHand EXCEPT ![t] =
                          IF ShouldSample(smCounter) THEN <<target.path>> ELSE <<>>]
  /\ UNCHANGED smLog

\* The event is handed to the subscriber, in whatever order the tasks get to it.
EmitEvent(t) ==
  /\ smHand[t] # <<>>
  /\ smLog' = smLog \o smHand[t]
  /\ smHand' = [smHand EXCEPT ![t] = <<>>]
  /\ UNCHANGED <<smCounter, smSeen>>

SamplerNext ==
  \E t \in SmTasks :
    EmitEvent(t) \/ \E target \in SmTargets : RecordResponse(t, target)

SamplerSpec == SamplerInit /\ [][SamplerNext]_smVars

-----------------------------------------------------------------------------
(* Properties                                                              *)

\* The targets of the responses that are not excluded, in the order of the
\* counter.
Observed == Select(smSeen, {s \in SmTargets : s.path \notin SmExcluded})

\* The paths to be recorded: of every 2^64 responses that are not excluded the
\* first, and then every interval-th.
Chosen ==
  [path \in {s.path : s \in SmTargets} |->
     {i \in 1..Len(Observed) : Observed[i].path = path
                               /\ ((i - 1) % SmModulus) % SmInterval = 0}]
InHand(path) == {t \in SmTasks : smHand[t] = <<path>>}
Recorded(path) == {i \in 1..Len(smLog) : smLog[i] = path}

\* However the tasks of record_response interleave, every response that is to
\* be recorded is recorded once, by its path, or its task is about to; no
\* other is, and excluded paths neither appear nor shift which ones do.
TraceSampled ==
  \A path \in DOMAIN Chosen :
    Cardinality(Chosen[path]) = Cardinality(Recorded(path)) + Cardinality(InHand(path))

\* What should_sample's documentation says: of N calls exactly N / interval,
\* rounded down, are recorded (as long as the counter has not wrapped).
SampledAsDocumented ==
  (\A t \in SmTasks : smHand[t] = <<>>) /\ Len(Observed) < SmModulus
    => Len(smLog) = Len(Observed) \div SmInterval
=============================================================================
