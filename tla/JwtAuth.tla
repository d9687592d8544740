------------------------------- MODULE JwtAuth -------------------------------
(***************************************************************************)
(* JwtAuthenticator of crates/plugin-jwt (auth.rs) with its token cache,   *)
(* the SharedKeySet (jwks.rs) that the refresh task replaces, and the      *)
(* store of used DPoP proofs (dpop/replay.rs). Request threads go through  *)
(* authenticate_at at the same time; every lock section is one step. The   *)
(* time a request brings is whatever its clock told it.                    *)
(* What a token or a proof says is a record: key is the key it is signed   *)
(* with and named by, sound tells whether the checks hold that depend on   *)
(* neither the keys nor the time.                                          *)
(***************************************************************************)
EXTENDS Integers, Sequences, FiniteSets, Functions, Selection

CONSTANTS
  Threads,        \* threads that serve requests
  Deployments,    \* by name, what the plugin is set up with and meets
  CacheCapacity,  \* CACHE_CAPACITY
  ReplayCapacity, \* capacity of the ReplayStore
  MaxRequests     \* bound: requests of one thread

\* tok: [id, key, sound, exp, nbf, jkt], where nbf is 0 and jkt "none" when the
\* claim is absent and jkt "bad" when it cannot be used;
\* proof: [thumb, jti, iat, sound], or NoProof when there is not exactly one.
NoProof == [thumb |-> "none", jti |-> 0, iat |-> 0, sound |-> FALSE]
RequestOk(i) ==
  /\ i.scheme \in {"Bearer", "DPoP"}
  /\ i.tok.exp \in Nat /\ i.tok.nbf \in Nat /\ i.proof.iat \in Nat

\* mode, leeway (clock_skew) and the IatWindow are the configuration; inputs
\* are the requests that come, times the readings of the clock, keySets what the
\* provider may publish and maxSets the bound on how often it does.
DeploymentOk(d) ==
  /\ d.mode \in {"off", "Required", "AllowUnboundBearer"}
  /\ d.leeway \in Nat /\ d.past \in Nat \ {0} /\ d.future \in Nat
  /\ d.inputs # {} /\ \A i \in d.inputs : RequestOk(i)
  /\ d.times \subseteq Nat /\ d.maxSets \in Nat

ASSUME AuthAssumption ==
  /\ \A n \in DOMAIN Deployments : DeploymentOk(Deployments[n])
  /\ CacheCapacity \in Nat \ {0} /\ ReplayCapacity \in Nat \ {0}
  /\ MaxRequests \in Nat

VARIABLES
  name,    \* the name of the deployment
  sets,    \* the key sets published so far; the last one is shared
  map,     \* TokenCache: token -> index of the key set it was verified with
  order,   \* TokenCache: tokens by insertion
  used,    \* ReplayStore::map: proof key -> expiry
  heap,    \* ReplayStore::heap: pairs of expiry and proof key
  pc,      \* per thread: where authenticate_at stands
  input,   \* per thread: the request
  now,     \* per thread: now_unix
  snap,    \* per thread: index of the snapshot of the key set
  count,   \* per thread: requests begun
  since,   \* history, per thread: index of the key set when it arrived
  taken,   \* history: proofs accepted, <<key, expiry>> in order
  high     \* history: latest time brought to the ReplayStore

cacheVars == <<map, order>>
replayVars == <<used, heap, taken, high>>
reqVars == <<input, now, snap, count, since>>
vars == <<name, sets, cacheVars, replayVars, pc, reqVars>>

dep == Deployments[name]
ProofKey(p) == <<p.thumb, p.jti>>
Expiry(p) == p.iat + dep.past

Init ==
  /\ name \in DOMAIN Deployments
  /\ sets \in {<<K>> : K \in dep.keySets}
  /\ map = << >> /\ order = << >>
  /\ used = << >> /\ heap = {}
  /\ pc = [t \in Threads |-> "idle"]
  /\ input = [t \in Threads |-> CHOOSE i \in dep.inputs : TRUE]
  /\ now = [t \in Threads |-> 0]
  /\ snap = [t \in Threads |-> 0]
  /\ count = [t \in Threads |-> 0]
  /\ since = [t \in Threads |-> 1]
  /\ taken = << >> /\ high = 0

\* SharedKeySet::set: a new Arc, even when it holds the same keys.
SetKeys ==
  /\ Len(sets) < dep.maxSets
  /\ \E K \in dep.keySets : sets' = Append(sets, K)
  /\ UNCHANGED <<name, cacheVars, replayVars, pc, reqVars>>

-----------------------------------------------------------------------------
(* verify_token_cached                                                     *)

Goto(t, where) == pc' = [pc EXCEPT ![t] = where]

Arrive(t) ==
  /\ pc[t] \in {"idle", "ok", "error"}
  /\ count[t] < MaxRequests
  /\ \E i \in dep.inputs, n \in dep.times :
       /\ input' = [input EXCEPT ![t] = i]
       /\ now' = [now EXCEPT ![t] = n]
  /\ count' = [count EXCEPT ![t] = @ + 1]
  /\ since' = [since EXCEPT ![t] = Len(sets)]
  /\ Goto(t, "snapshot")
  /\ UNCHANGED <<name, sets, cacheVars, replayVars, snap>>

Snapshot(t) ==
  /\ pc[t] = "snapshot"
  /\ snap' = [snap EXCEPT ![t] = Len(sets)]
  /\ Goto(t, "lookup")
  /\ UNCHANGED <<name, sets, cacheVars, replayVars, input, now, count, since>>

SaturatingSub(a, b) == IF a < b THEN 0 ELSE a - b
InTime(tok, n) ==
  SaturatingSub(n, dep.leeway) < tok.exp /\ n + dep.leeway >= tok.nbf

\* TokenCache::get. An entry verified with another key set is a miss.
Lookup(t) ==
  /\ pc[t] = "lookup"
  /\ LET tok == input[t].tok IN
       Goto(t, IF tok \notin DOMAIN map THEN "miss"
               ELSE IF map[tok] # snap[t] THEN "miss"
               ELSE IF InTime(tok, now[t]) THEN "confirm" ELSE "drop")
  /\ UNCHANGED <<name, sets, cacheVars, replayVars, reqVars>>

Without(f, x) == [y \in DOMAIN f \ {x} |-> f[y]]
With(f, x, v) == [y \in DOMAIN f \cup {x} |-> IF y = x THEN v ELSE f[y]]

\* TokenCache::remove, after a miss and after an entry whose time is over.
RemoveEntry(t) ==
  /\ pc[t] \in {"miss", "drop"}
  /\ map' = Without(map, input[t].tok)
  /\ order' = IF input[t].tok \in DOMAIN map
              THEN Select(order, Range(order) \ {input[t].tok}) ELSE order
  /\ Goto(t, IF pc[t] = "miss" THEN "verify" ELSE "error")
  /\ UNCHANGED <<name, sets, replayVars, reqVars>>

\* verify_inner with the snapshot. A key that is unknown also wakes the
\* refresh task and goes to the notifier (JwksRefresh, NotifyThrottle).
Valid(tok, K, n) == tok.sound /\ tok.key \in K /\ InTime(tok, n)
Verify(t) ==
  /\ pc[t] = "verify"
  /\ Goto(t, IF Valid(input[t].tok, sets[snap[t]], now[t])
             THEN "insert" ELSE "error")
  /\ UNCHANGED <<name, sets, cacheVars, replayVars, reqVars>>

\* Cached tokens that have not expired at time n.
Unexpired(n) == {k \in Range(order) : SaturatingSub(n, dep.leeway) < k.exp}

\* Mutation of Evicted: one entry too many is let in.
EvictedLate(n) ==
  LET kept == Select(order, Unexpired(n))
      over == Len(kept) - CacheCapacity
  IN IF Cardinality(DOMAIN map) <= CacheCapacity THEN order
     ELSE IF over <= 0 THEN kept ELSE SubSeq(kept, over + 1, Len(kept))

\* What insert makes room with: first the expired entries go, then the oldest.
Evicted(n) ==
  LET kept == Select(order, Unexpired(n))
      over == Len(kept) - (CacheCapacity - 1)
  IN IF Cardinality(DOMAIN map) < CacheCapacity THEN order
     ELSE IF over <= 0 THEN kept ELSE SubSeq(kept, over + 1, Len(kept))

\* The map loses the entries that made room.
Retained(keys) == [k \in DOMAIN map \cap keys |-> map[k]]

\* Mutation of Insert: the entry is marked with the shared key set.
InsertLatestSet(t) ==
  /\ pc[t] = "insert"
  /\ LET tok == input[t].tok
         rest == Evicted(now[t])
     IN IF tok \in DOMAIN map
        THEN map' = [map EXCEPT ![tok] = Len(sets)] /\ UNCHANGED order
        ELSE /\ order' = Append(rest, tok)
             /\ map' = With(Retained(Range(rest)), tok, Len(sets))
  /\ Goto(t, "confirm")
  /\ UNCHANGED <<name, sets, replayVars, reqVars>>

\* Mutation of Insert: a token that is there already is queued again.
InsertTwice(t) ==
  /\ pc[t] = "insert"
  /\ LET tok == input[t].tok
         rest == Evicted(now[t])
     IN /\ order' = Append(rest, tok)
        /\ map' = With(Retained(Range(rest)), tok, snap[t])
  /\ Goto(t, "confirm")
  /\ UNCHANGED <<name, sets, replayVars, reqVars>>

\* TokenCache::insert
Insert(t) ==
  /\ pc[t] = "insert"
  /\ LET tok == input[t].tok
         rest == Evicted(now[t])
     IN IF tok \in DOMAIN map
        THEN map' = [map EXCEPT ![tok] = snap[t]] /\ UNCHANGED order
        ELSE /\ order' = Append(rest, tok)
             /\ map' = With(Retained(Range(rest)), tok, snap[t])
  /\ Goto(t, "confirm")
  /\ UNCHANGED <<name, sets, replayVars, reqVars>>

-----------------------------------------------------------------------------
(* authenticate_dpop                                                       *)

\* verify_proof at time n
ProofOk(p, n) ==
  /\ p.sound
  /\ p.iat >= SaturatingSub(n, dep.past)
  /\ p.iat <= n + dep.future

\* Mutation of Confirm: the proof's key need not be the one of the token.
ConfirmAnyKey(t) ==
  /\ pc[t] = "confirm"
  /\ LET i == input[t]
         unbound == i.tok.jkt = "none"
     IN Goto(t, IF dep.mode = "off" THEN "ok"
                ELSE IF unbound /\ i.scheme = "Bearer" /\ dep.mode # "Required"
                THEN "ok"
                ELSE IF ~unbound /\ i.tok.jkt # "bad" /\ i.scheme = "DPoP"
                        /\ ProofOk(i.proof, now[t])
                THEN "register" ELSE "error")
  /\ UNCHANGED <<name, sets, cacheVars, replayVars, reqVars>>

\* A token bound to a key needs the DPoP scheme and a proof by that key; one
\* that is not bound needs the Bearer scheme, and a configuration that allows
\* it.
Confirm(t) ==
  /\ pc[t] = "confirm"
  /\ LET i == input[t]
         unbound == i.tok.jkt = "none"
     IN Goto(t, IF dep.mode = "off" THEN "ok"
                ELSE IF unbound /\ i.scheme = "Bearer" /\ dep.mode # "Required"
                THEN "ok"
                ELSE IF ~unbound /\ i.tok.jkt # "bad" /\ i.scheme = "DPoP"
                        /\ ProofOk(i.proof, now[t])
                        /\ i.proof.thumb = i.tok.jkt
                THEN "register" ELSE "error")
  /\ UNCHANGED <<name, sets, cacheVars, replayVars, reqVars>>

Max2(a, b) == IF a < b THEN b ELSE a

\* Mutation of Overdue: an entry goes when its last second begins.
OverdueEarly(n) == {e \in heap : e[1] <= n}

\* The entries that register finds over at time n.
Overdue(n) == {e \in heap : e[1] < n}

\* Mutation of Register: what is swept from the map stays in the heap.
RegisterKeepsHeap(t) ==
  /\ pc[t] = "register"
  /\ LET p == input[t].proof
         k == ProofKey(p)
         gone == Overdue(now[t])
         held == DOMAIN used \ {e[2] : e \in gone}
         accept == k \notin held /\ Cardinality(held) < ReplayCapacity
     IN /\ used' = [x \in held \cup (IF accept THEN {k} ELSE {})
                      |-> IF x = k /\ accept THEN Expiry(p) ELSE used[x]]
        /\ heap' = heap \cup (IF accept THEN {<<Expiry(p), k>>} ELSE {})
        /\ taken' = IF accept THEN Append(taken, <<k, Expiry(p)>>) ELSE taken
        /\ high' = Max2(high, now[t])
        /\ Goto(t, IF accept THEN "ok" ELSE "error")
  /\ UNCHANGED <<name, sets, cacheVars, reqVars>>

\* ReplayStore::register_key: sweep, search and insert under one lock.
Register(t) ==
  /\ pc[t] = "register"
  /\ LET p == input[t].proof
         k == ProofKey(p)
         gone == Overdue(now[t])
         held == DOMAIN used \ {e[2] : e \in {g \in gone : used[g[2]] = g[1]}}
         accept == k \notin held /\ Cardinality(held) < ReplayCapacity
     IN /\ used' = [x \in held \cup (IF accept THEN {k} ELSE {})
                      |-> IF x = k /\ accept THEN Expiry(p) ELSE used[x]]
        /\ heap' = (heap \ gone)
                   \cup (IF accept THEN {<<Expiry(p), k>>} ELSE {})
        /\ taken' = IF accept THEN Append(taken, <<k, Expiry(p)>>) ELSE taken
        /\ high' = Max2(high, now[t])
        /\ Goto(t, IF accept THEN "ok" ELSE "error")
  /\ UNCHANGED <<name, sets, cacheVars, reqVars>>

Step(t) ==
  \/ Arrive(t) \/ Snapshot(t) \/ Lookup(t) \/ RemoveEntry(t) \/ Verify(t)
  \/ Insert(t) \/ Confirm(t) \/ Register(t)

Next == SetKeys \/ \E t \in Threads : Step(t)

Spec == Init /\ [][Next]_vars

-----------------------------------------------------------------------------
(* Properties                                                              *)

\* The values each variable may have; neither the cache nor the store of
\* proofs exceeds its capacity, however the threads interleave.
TypeOK ==
  /\ name \in DOMAIN Deployments
  /\ Range(sets) \subseteq dep.keySets /\ Len(sets) >= 1
  /\ \A k \in DOMAIN map : map[k] \in 1..Len(sets)
  /\ Len(order) <= CacheCapacity
  /\ Cardinality(DOMAIN used) <= ReplayCapacity
  /\ \A k \in DOMAIN used : used[k] \in Nat
  /\ pc \in [Threads -> {"idle", "snapshot", "lookup", "miss", "drop", "verify",
                         "insert", "confirm", "register", "ok", "error"}]
  /\ input \in [Threads -> dep.inputs]
  /\ now \in [Threads -> dep.times \cup {0}]
  /\ \A t \in Threads : snap[t] \in 0..Len(sets) /\ since[t] \in 1..Len(sets)
  /\ count \in [Threads -> 0..MaxRequests]

\* The two structures of the token cache agree: the queue holds each token of
\* the map once and no other, so that evicting the oldest always makes room.
CacheConsistent ==
  /\ IsInjective(order)
  /\ Range(order) = DOMAIN map

\* The two structures of the ReplayStore agree: the heap holds the expiry of
\* each key of the map and nothing else.
ReplayConsistent == heap = {<<used[k], k>> : k \in DOMAIN used}

\* The token cache and the replay store, each kept in two structures, are
\* consistent and within their capacities.
StoresConsistent == TypeOK /\ CacheConsistent /\ ReplayConsistent

\* A request is answered Ok only if its token was valid, at the time it read,
\* with a key set that was the shared one at some moment of the request. A key
\* that was withdrawn before the request arrived admits nobody, whatever the
\* cache holds and whoever filled it.
AcceptedIsValid ==
  \A t \in Threads : pc[t] = "ok" =>
    \E s \in since[t]..Len(sets) : Valid(input[t].tok, sets[s], now[t])

\* With DPoP on, a token that is bound to a key is answered Ok only for a
\* proof by that key whose use is on record.
BoundIsProven ==
  \A t \in Threads :
    pc[t] = "ok" /\ dep.mode # "off" /\ input[t].tok.jkt # "none" =>
      /\ input[t].proof.thumb = input[t].tok.jkt
      /\ \E i \in DOMAIN taken : taken[i][1] = ProofKey(input[t].proof)

\* A proof is accepted once until the store has been shown a time after its
\* expiry: of one proof key, at most one acceptance has not expired by the
\* latest time any request brought.
ProofUsedOnce ==
  \A i, j \in DOMAIN taken :
    i < j /\ taken[i][1] = taken[j][1] => taken[i][2] < high

\* A request is answered Ok only if its token was valid and, where it is bound
\* to a key, that key was shown to be the sender's by a proof of its own.
AcceptedIsEntitled == AcceptedIsValid /\ BoundIsProven /\ ProofUsedOnce
=============================================================================
