---------------------------- MODULE AccessProofs ----------------------------
(***************************************************************************)
(* Who is let in, for any number of threads and requests, any sequence of  *)
(* key sets, any clocks and any capacities of the two stores: the proof    *)
(* that JwtAuth keeps AcceptedIsEntitled; and that the two stores stay     *)
(* consistent and within their capacities (StoresConsistent). What is      *)
(* logged of the requests (Sampler), for any number of tasks, any interval *)
(* and any width of the counter. And the throttle on the notifications of  *)
(* unknown keys (NotifyThrottle), for any number of threads and any        *)
(* clocks.                                                                 *)
(***************************************************************************)
EXTENDS JwtAuth, NotifyThrottle, Sampler, SelectionProofs, FiniteSetTheorems

Stages == {"idle", "snapshot", "lookup", "miss", "drop", "verify", "insert",
           "confirm", "register", "ok", "error"}
ProofKeys == {ProofKey(i.proof) : i \in dep.inputs}

\* The part of the types the argument needs.
Typed ==
  /\ name \in DOMAIN Deployments
  /\ sets \in Seq(dep.keySets) /\ Len(sets) >= 1
  /\ pc \in [Threads -> Stages] /\ input \in [Threads -> dep.inputs]
  /\ now \in [Threads -> Nat]
  /\ snap \in [Threads -> Nat] /\ since \in [Threads -> Nat]
  /\ taken \in Seq(ProofKeys \X Nat) /\ high \in Nat

\* What verify_inner finds out that time does not change.
Signed(tok, K) == tok.sound /\ tok.key \in K

\* An entry of the cache was verified with the key set it is marked with, and
\* that key set was published.
CacheTrue ==
  \A k \in DOMAIN map : map[k] \in 1..Len(sets) /\ Signed(k, sets[map[k]])

\* A request: its snapshot was shared after it arrived; past the verification
\* its token is valid with the snapshot at its own time; and a proof was by the
\* key the token is bound to before it came to the store.
Snapped(t) == pc[t] \notin {"idle", "snapshot", "error"}
Verified(t) == pc[t] \in {"insert", "confirm", "register", "ok"}
RequestTrue(t) ==
  /\ since[t] \in 1..Len(sets)
  /\ Snapped(t) => snap[t] \in since[t]..Len(sets)
  /\ Verified(t) => Valid(input[t].tok, sets[snap[t]], now[t])
  /\ pc[t] = "register" => input[t].proof.thumb = input[t].tok.jkt
  /\ pc[t] = "ok" /\ dep.mode # "off" /\ input[t].tok.jkt # "none" =>
       /\ input[t].proof.thumb = input[t].tok.jkt
       /\ \E i \in DOMAIN taken : taken[i][1] = ProofKey(input[t].proof)

\* An acceptance has expired by the latest time shown to the store, or the
\* store still knows of it.
StoreTrue ==
  /\ \A i \in DOMAIN taken :
       \/ taken[i][2] < high
       \/ taken[i][1] \in DOMAIN used /\ used[taken[i][1]] = taken[i][2]
  /\ ProofUsedOnce

AuthInv ==
  /\ Typed /\ CacheTrue /\ StoreTrue
  /\ \A t \in Threads : RequestTrue(t)

\* A valid token is one that is signed and in its time.
LEMMA ValidIsSigned ==
  ASSUME NEW tok, NEW K, NEW n
  PROVE  Valid(tok, K, n) <=> Signed(tok, K) /\ InTime(tok, n)
  BY DEF Valid, Signed

\* The numbers a deployment and its requests bring.
LEMMA DeploymentTypes ==
  ASSUME Typed
  PROVE  /\ dep.past \in Nat /\ dep.times \subseteq Nat
         /\ \A i \in dep.inputs : i.proof.iat \in Nat
  BY AuthAssumption DEF Typed, dep, DeploymentOk, RequestOk

\* The authenticator as it is built satisfies the invariant.
LEMMA InitAuth == Init => AuthInv
  <1> SUFFICES ASSUME Init PROVE AuthInv
    OBVIOUS
  <1>n. name \in DOMAIN Deployments
    BY DEF Init
  <1>d. DeploymentOk(dep)
    BY <1>n, AuthAssumption DEF dep
  <1>1. dep.inputs # {}
    BY <1>d DEF DeploymentOk
  <1>2. PICK K \in dep.keySets : sets = <<K>>
    BY DEF Init
  <1>3. sets \in Seq(dep.keySets) /\ Len(sets) = 1
    <2>1. ASSUME NEW S, NEW x \in S PROVE <<x>> \in Seq(S) /\ Len(<<x>>) = 1
      OBVIOUS
    <2> QED
      BY <1>2, <2>1
  <1>4. (CHOOSE i \in dep.inputs : TRUE) \in dep.inputs
    BY <1>1
  <1>5. taken \in Seq(ProofKeys \X Nat) /\ DOMAIN taken = {}
    BY DEF Init
  <1>6. Typed
    BY <1>3, <1>4, <1>5 DEF Init, Typed, Stages
  <1>7. CacheTrue
    BY DEF Init, CacheTrue
  <1>8. StoreTrue
    BY <1>5 DEF StoreTrue, ProofUsedOnce
  <1>9. ASSUME NEW t \in Threads PROVE RequestTrue(t)
    BY <1>3 DEF Init, RequestTrue, Snapped, Verified
  <1> QED
    BY <1>6, <1>7, <1>8, <1>9 DEF AuthInv

\* A request that a step does not touch stays as it was, while the key sets
\* and the record of acceptances only grow.
LEMMA RequestKept ==
  ASSUME Typed, NEW t \in Threads, RequestTrue(t),
         UNCHANGED <<name, input[t], now[t], snap[t], since[t], pc[t]>>,
         Len(sets') \in Nat, Len(sets) <= Len(sets'),
         \A i \in 1..Len(sets) : sets'[i] = sets[i],
         \A i \in DOMAIN taken : i \in DOMAIN taken' /\ taken'[i] = taken[i]
  PROVE  RequestTrue(t)'
  <1>1. /\ Len(sets) \in Nat /\ since[t] \in Nat /\ snap[t] \in Nat
    BY DEF Typed
  <1>2. since'[t] \in 1..Len(sets') /\ (Snapped(t)' <=> Snapped(t))
    BY <1>1 DEF RequestTrue, Snapped
  <1>3. Snapped(t) => snap'[t] \in since'[t]..Len(sets')
    BY <1>1 DEF RequestTrue
  <1>4. Verified(t)' => Valid(input[t].tok, sets[snap[t]], now[t])'
    <2> SUFFICES ASSUME Verified(t) PROVE Valid(input[t].tok, sets[snap[t]], now[t])'
      BY DEF Verified
    <2>1. Snapped(t)
      BY DEF Snapped, Verified
    <2>2. sets'[snap'[t]] = sets[snap[t]]
      BY <2>1, <1>1 DEF RequestTrue
    <2>3. Valid(input[t].tok, sets[snap[t]], now[t])
      BY DEF RequestTrue
    <2> QED
      BY <2>2, <2>3 DEF Valid, InTime, dep
  <1>5. /\ (pc[t] = "register")' => (input[t].proof.thumb = input[t].tok.jkt)'
        /\ ~(pc[t] = "ok" /\ dep.mode # "off" /\ input[t].tok.jkt # "none")' \/
            /\ (input[t].proof.thumb = input[t].tok.jkt)'
            /\ \E i \in DOMAIN taken' : taken'[i][1] = ProofKey(input'[t].proof)
    BY DEF RequestTrue, dep, ProofKey
  <1> QED
    BY <1>2, <1>3, <1>4, <1>5 DEF RequestTrue

\* SharedKeySet::set while requests are under way.
LEMMA SetKeysStep ==
  ASSUME AuthInv, SetKeys
  PROVE  AuthInv'
  <1>1. PICK K \in dep.keySets : sets' = Append(sets, K)
    BY DEF SetKeys
  <1>2. UNCHANGED <<name, map, order, used, heap, taken, high, pc, input, now,
                    snap, count, since>>
    BY DEF SetKeys, cacheVars, replayVars, reqVars
  <1>t. Typed /\ sets \in Seq(dep.keySets) /\ Len(sets) \in Nat
    BY DEF AuthInv, Typed
  <1>3. /\ sets' \in Seq(dep.keySets) /\ Len(sets') = Len(sets) + 1
        /\ \A i \in 1..Len(sets) : sets'[i] = sets[i]
    BY <1>1, <1>t
  <1>4. dep' = dep /\ ProofKeys' = ProofKeys
    BY <1>2 DEF dep, ProofKeys
  <1>5. Typed'
    BY <1>2, <1>3, <1>4, <1>t DEF Typed
  <1>6. CacheTrue'
    BY <1>2, <1>3, <1>t DEF AuthInv, CacheTrue, Signed
  <1>7. StoreTrue'
    BY <1>2 DEF AuthInv, StoreTrue, ProofUsedOnce
  <1>8. ASSUME NEW t \in Threads PROVE RequestTrue(t)'
    BY <1>2, <1>3, <1>t, RequestKept DEF AuthInv
  <1> QED
    BY <1>5, <1>6, <1>7, <1>8 DEF AuthInv

\* A step of t that leaves the store of proofs alone: what has to be shown of
\* it is about the cache and about t itself.
LEMMA RequestStep ==
  ASSUME AuthInv, NEW t \in Threads,
         UNCHANGED <<name, sets, used, taken, high>>,
         pc' = [pc EXCEPT ![t] = pc'[t]], pc'[t] \in Stages,
         input' = [input EXCEPT ![t] = input'[t]], input'[t] \in dep.inputs,
         now' = [now EXCEPT ![t] = now'[t]], now'[t] \in Nat,
         snap' = [snap EXCEPT ![t] = snap'[t]], snap'[t] \in Nat,
         since' = [since EXCEPT ![t] = since'[t]], since'[t] \in Nat,
         CacheTrue', RequestTrue(t)'
  PROVE  AuthInv'
  <1>t. Typed
    BY DEF AuthInv
  <1>1. dep' = dep /\ ProofKeys' = ProofKeys
    BY DEF dep, ProofKeys
  <1>2. Typed'
    BY <1>1, <1>t DEF Typed
  <1>3. StoreTrue'
    BY DEF AuthInv, StoreTrue, ProofUsedOnce
  <1>4. ASSUME NEW r \in Threads, r # t PROVE RequestTrue(r)'
    <2>1. UNCHANGED <<input[r], now[r], snap[r], since[r], pc[r]>>
      BY <1>4, <1>t DEF Typed
    <2>2. Len(sets) \in Nat
      BY <1>t DEF Typed
    <2> QED
      BY <2>1, <2>2, <1>t, RequestKept DEF AuthInv
  <1> QED
    BY <1>2, <1>3, <1>4 DEF AuthInv

\* A step of t that only decides where to go next.
LEMMA GotoStep ==
  ASSUME AuthInv, NEW t \in Threads, NEW where \in Stages, Goto(t, where),
         UNCHANGED <<name, sets, used, taken, high, reqVars>>,
         CacheTrue',
         Snapped(t), where \notin {"idle", "snapshot"},
         where \in {"insert", "confirm", "register", "ok"} =>
           Valid(input[t].tok, sets[snap[t]], now[t]),
         where = "register" => input[t].proof.thumb = input[t].tok.jkt,
         where = "ok" => dep.mode = "off" \/ input[t].tok.jkt = "none"
  PROVE  AuthInv'
  <1>t. Typed /\ RequestTrue(t)
    BY DEF AuthInv
  <1>1. /\ pc' = [pc EXCEPT ![t] = pc'[t]] /\ pc'[t] = where
        /\ UNCHANGED <<input, now, snap, since>>
    BY <1>t DEF Goto, reqVars, Typed
  <1>2. /\ input' = [input EXCEPT ![t] = input'[t]] /\ input'[t] \in dep.inputs
        /\ now' = [now EXCEPT ![t] = now'[t]] /\ now'[t] \in Nat
        /\ snap' = [snap EXCEPT ![t] = snap'[t]] /\ snap'[t] \in Nat
        /\ since' = [since EXCEPT ![t] = since'[t]] /\ since'[t] \in Nat
    BY <1>1, <1>t DEF Typed
  <1>3. RequestTrue(t)'
    <2>1. since'[t] \in 1..Len(sets') /\ snap'[t] \in since'[t]..Len(sets')
      BY <1>1, <1>t DEF RequestTrue
    <2>2. Verified(t)' => Valid(input[t].tok, sets[snap[t]], now[t])'
      BY <1>1 DEF Verified, Valid, InTime, dep
    <2>3. /\ (pc[t] = "register")' => (input[t].proof.thumb = input[t].tok.jkt)'
          /\ ~(pc[t] = "ok" /\ dep.mode # "off" /\ input[t].tok.jkt # "none")'
      BY <1>1 DEF dep
    <2> QED
      BY <2>1, <2>2, <2>3 DEF RequestTrue
  <1> QED
    BY <1>1, <1>2, <1>3, RequestStep

\* authenticate_at up to the store of proofs.
LEMMA CacheSteps ==
  ASSUME AuthInv, NEW t \in Threads,
         \/ Arrive(t) \/ Snapshot(t) \/ Lookup(t) \/ RemoveEntry(t)
         \/ Verify(t) \/ Insert(t) \/ Confirm(t)
  PROVE  AuthInv'
  <1>t. Typed /\ RequestTrue(t) /\ CacheTrue
    BY DEF AuthInv
  <1>u. UNCHANGED <<name, sets, used, taken, high>>
    BY DEF Arrive, Snapshot, Lookup, RemoveEntry, Verify, Insert, Confirm,
       replayVars
  <1>l. Len(sets) \in Nat /\ Len(sets) >= 1
    BY <1>t DEF Typed
  \* The cache where it does not change.
  <1>c. map' = map => CacheTrue'
    BY <1>t, <1>u DEF CacheTrue, Signed
  <1>v. /\ Valid(input[t].tok, sets[snap[t]], now[t])
           <=> /\ Signed(input[t].tok, sets[snap[t]])
               /\ InTime(input[t].tok, now[t])
    BY ValidIsSigned
  <1>1. CASE Arrive(t)
    <2>1. PICK i \in dep.inputs, n \in dep.times :
            /\ input' = [input EXCEPT ![t] = i] /\ now' = [now EXCEPT ![t] = n]
      BY <1>1 DEF Arrive
    <2>2. n \in Nat
      BY <2>1, <1>t, DeploymentTypes
    <2>3. /\ pc' = [pc EXCEPT ![t] = "snapshot"] /\ UNCHANGED <<snap, map>>
          /\ since' = [since EXCEPT ![t] = Len(sets)]
      BY <1>1 DEF Arrive, Goto, cacheVars
    <2>4. /\ pc'[t] = "snapshot" /\ since'[t] = Len(sets)
          /\ input'[t] = i /\ now'[t] = n
      BY <2>1, <2>3, <1>t DEF Typed
    <2>5. RequestTrue(t)'
      <3>1. since'[t] \in 1..Len(sets')
        BY ONLY <2>4, <1>l, <1>u
      <3>2. ~Snapped(t)' /\ ~Verified(t)' /\ pc'[t] # "register" /\ pc'[t] # "ok"
        BY ONLY <2>4 DEF Snapped, Verified
      <3> QED
        BY ONLY <3>1, <3>2 DEF RequestTrue
    <2>6. snap' = [snap EXCEPT ![t] = snap'[t]] /\ snap'[t] \in Nat
      BY <2>3, <1>t DEF Typed
    <2>7. pc'[t] \in Stages
      BY <2>4 DEF Stages
    <2> QED
      BY <2>1, <2>2, <2>3, <2>4, <2>5, <2>6, <2>7, <1>c, <1>u, <1>l, RequestStep
  <1>2. CASE Snapshot(t)
    <2>1. /\ pc' = [pc EXCEPT ![t] = "lookup"]
          /\ snap' = [snap EXCEPT ![t] = Len(sets)]
          /\ UNCHANGED <<input, now, since, map>>
      BY <1>2 DEF Snapshot, Goto, cacheVars
    <2>2. pc'[t] = "lookup" /\ snap'[t] = Len(sets)
      BY <2>1, <1>t DEF Typed
    <2>3. RequestTrue(t)'
      <3>1. since[t] \in 1..Len(sets)
        BY ONLY <1>t DEF RequestTrue
      <3>2. since' = since /\ sets' = sets
        BY ONLY <2>1, <1>u
      <3>3. since'[t] \in 1..Len(sets') /\ snap'[t] \in since'[t]..Len(sets')
        BY ONLY <2>2, <1>l, <3>1, <3>2
      <3>4. ~Verified(t)' /\ pc'[t] # "register" /\ pc'[t] # "ok"
        BY ONLY <2>2 DEF Verified
      <3> QED
        BY ONLY <3>3, <3>4 DEF RequestTrue
    <2>4. /\ input' = [input EXCEPT ![t] = input'[t]] /\ input'[t] \in dep.inputs
          /\ now' = [now EXCEPT ![t] = now'[t]] /\ now'[t] \in Nat
          /\ since' = [since EXCEPT ![t] = since'[t]] /\ since'[t] \in Nat
      BY <2>1, <1>t DEF Typed
    <2>5. pc'[t] \in Stages
      BY <2>2 DEF Stages
    <2> QED
      BY <2>1, <2>2, <2>3, <2>4, <2>5, <1>c, <1>u, <1>l, RequestStep
  <1>3. CASE Lookup(t)
    <2> DEFINE tok == input[t].tok
               where == IF tok \notin DOMAIN map THEN "miss"
                        ELSE IF map[tok] # snap[t] THEN "miss"
                        ELSE IF InTime(tok, now[t]) THEN "confirm" ELSE "drop"
    <2>1. Goto(t, where) /\ UNCHANGED <<map, reqVars>> /\ pc[t] = "lookup"
      BY <1>3 DEF Lookup, cacheVars
    <2>2. where = "confirm" => Valid(tok, sets[snap[t]], now[t])
      <3> SUFFICES ASSUME where = "confirm"
                   PROVE  Signed(tok, sets[snap[t]]) /\ InTime(tok, now[t])
        BY <1>v
      <3>1. tok \in DOMAIN map /\ map[tok] = snap[t] /\ InTime(tok, now[t])
        OBVIOUS
      <3> QED
        BY <3>1, <1>t DEF CacheTrue
    <2>3. where \in Stages /\ where \in {"miss", "confirm", "drop"}
      BY DEF Stages
    <2>4. Snapped(t)
      BY <2>1 DEF Snapped
    <2> HIDE DEF where
    <2> QED
      BY <2>1, <2>2, <2>3, <2>4, <1>c, <1>u, GotoStep
  <1>4. CASE RemoveEntry(t)
    <2> DEFINE where == IF pc[t] = "miss" THEN "verify" ELSE "error"
    <2>1. /\ Goto(t, where) /\ UNCHANGED reqVars /\ pc[t] \in {"miss", "drop"}
          /\ map' = Without(map, input[t].tok)
      BY <1>4 DEF RemoveEntry
    <2>2. CacheTrue'
      BY <2>1, <1>t, <1>u DEF CacheTrue, Without, Signed
    <2>3. where \in Stages /\ where \in {"verify", "error"}
      BY DEF Stages
    <2>4. Snapped(t)
      BY <2>1 DEF Snapped
    <2> HIDE DEF where
    <2> QED
      BY <2>1, <2>2, <2>3, <2>4, <1>u, GotoStep
  <1>5. CASE Verify(t)
    <2> DEFINE where == IF Valid(input[t].tok, sets[snap[t]], now[t])
                        THEN "insert" ELSE "error"
    <2>1. Goto(t, where) /\ UNCHANGED <<map, reqVars>> /\ pc[t] = "verify"
      BY <1>5 DEF Verify, cacheVars
    <2>2. where = "insert" => Valid(input[t].tok, sets[snap[t]], now[t])
      OBVIOUS
    <2>3. where \in Stages /\ where \in {"insert", "error"}
      BY DEF Stages
    <2>4. Snapped(t)
      BY <2>1 DEF Snapped
    <2> HIDE DEF where
    <2> QED
      BY <2>1, <2>2, <2>3, <2>4, <1>c, <1>u, GotoStep
  <1>6. CASE Insert(t)
    <2> DEFINE tok == input[t].tok
    <2>1. Goto(t, "confirm") /\ UNCHANGED reqVars /\ pc[t] = "insert"
      BY <1>6 DEF Insert
    <2>2. Snapped(t) /\ Valid(tok, sets[snap[t]], now[t])
      BY <2>1, <1>t DEF Snapped, Verified, RequestTrue
    <2>3. snap[t] \in 1..Len(sets) /\ Signed(tok, sets[snap[t]])
      <3>1. since[t] \in 1..Len(sets) /\ snap[t] \in since[t]..Len(sets)
        BY <2>2, <1>t DEF RequestTrue
      <3>2. snap[t] \in 1..Len(sets)
        BY ONLY <3>1, <1>l
      <3>3. Signed(tok, sets[snap[t]])
        BY ONLY <2>2 DEF Signed, Valid
      <3> QED
        BY ONLY <3>2, <3>3
    <2>4. \/ tok \in DOMAIN map /\ map' = [map EXCEPT ![tok] = snap[t]]
          \/ \E S : map' = With(Retained(S), tok, snap[t])
      BY <1>6 DEF Insert
    <2> HIDE DEF tok
    <2>5. \A k \in DOMAIN map' :
            \/ k = tok /\ map'[k] = snap[t]
            \/ k \in DOMAIN map /\ map'[k] = map[k]
      <3>1. CASE tok \in DOMAIN map /\ map' = [map EXCEPT ![tok] = snap[t]]
        BY <3>1
      <3>2. CASE \E S : map' = With(Retained(S), tok, snap[t])
        <4>1. PICK S : map' = With(Retained(S), tok, snap[t])
          BY <3>2
        <4>2. /\ DOMAIN Retained(S) = DOMAIN map \cap S
              /\ \A k \in DOMAIN map \cap S : Retained(S)[k] = map[k]
          BY DEF Retained
        <4>3. /\ DOMAIN map' = DOMAIN Retained(S) \cup {tok}
              /\ \A k \in DOMAIN map' :
                   map'[k] = IF k = tok THEN snap[t] ELSE Retained(S)[k]
          BY <4>1 DEF With
        <4> QED
          BY <4>2, <4>3
      <3> QED
        BY <2>4, <3>1, <3>2
    <2>6. CacheTrue'
      <3> SUFFICES ASSUME NEW k \in DOMAIN map'
                   PROVE  map'[k] \in 1..Len(sets) /\ Signed(k, sets[map'[k]])
        BY <1>u DEF CacheTrue, Signed
      <3> QED
        BY <2>3, <2>5, <1>t DEF CacheTrue
    <2>7. "confirm" \in Stages
      BY DEF Stages
    <2> QED
      BY <2>1, <2>2, <2>6, <2>7, <1>u, GotoStep DEF tok
  <1>7. CASE Confirm(t)
    <2> DEFINE i == input[t]
               unbound == i.tok.jkt = "none"
               proven == /\ ~unbound /\ i.tok.jkt # "bad" /\ i.scheme = "DPoP"
                         /\ ProofOk(i.proof, now[t])
                         /\ i.proof.thumb = i.tok.jkt
               open == unbound /\ i.scheme = "Bearer" /\ dep.mode # "Required"
               where == IF dep.mode = "off" THEN "ok" ELSE IF open THEN "ok"
                        ELSE IF proven THEN "register" ELSE "error"
    <2>1. Goto(t, where) /\ UNCHANGED <<map, reqVars>> /\ pc[t] = "confirm"
      BY <1>7 DEF Confirm, cacheVars
    <2>2. where = "ok" => dep.mode = "off" \/ input[t].tok.jkt = "none"
      OBVIOUS
    <2>3. where = "register" => input[t].proof.thumb = input[t].tok.jkt
      OBVIOUS
    <2>4. Snapped(t) /\ Valid(input[t].tok, sets[snap[t]], now[t])
      BY <2>1, <1>t DEF Snapped, Verified, RequestTrue
    <2>5. where \in Stages /\ where \in {"ok", "register", "error"}
      BY DEF Stages
    <2> HIDE DEF where
    <2> QED
      BY <2>1, <2>2, <2>3, <2>4, <2>5, <1>c, <1>u, GotoStep
  <1> QED
    BY <1>1, <1>2, <1>3, <1>4, <1>5, <1>6, <1>7

\* ReplayStore::register_key. What the sweep takes out is past its expiry by
\* the time the step brings; a key that is accepted was swept, or was never
\* there.
LEMMA RegisterStep ==
  ASSUME AuthInv, NEW t \in Threads, Register(t)
  PROVE  AuthInv'
  <1> DEFINE p == input[t].proof
             k == ProofKey(p)
             gone == Overdue(now[t])
             held == DOMAIN used \ {e[2] : e \in {g \in gone : used[g[2]] = g[1]}}
             accept == k \notin held /\ Cardinality(held) < ReplayCapacity
  <1>t. Typed /\ StoreTrue /\ CacheTrue /\ RequestTrue(t)
    BY DEF AuthInv
  <1>1. /\ used' = [x \in held \cup (IF accept THEN {k} ELSE {})
                      |-> IF x = k /\ accept THEN Expiry(p) ELSE used[x]]
        /\ taken' = IF accept THEN Append(taken, <<k, Expiry(p)>>) ELSE taken
        /\ high' = Max2(high, now[t])
        /\ pc' = [pc EXCEPT ![t] = IF accept THEN "ok" ELSE "error"]
        /\ pc[t] = "register"
        /\ UNCHANGED <<name, sets, map, input, now, snap, since>>
    BY DEF Register, Goto, cacheVars, reqVars
  <1>2. k \in ProofKeys /\ Expiry(p) \in Nat /\ now[t] \in Nat /\ high \in Nat
    BY <1>t, DeploymentTypes DEF Typed, ProofKeys, Expiry
  <1>3. high' \in Nat /\ high <= high' /\ now[t] <= high'
    <2>1. \A m, n \in Nat : Max2(m, n) \in Nat /\ m <= Max2(m, n) /\ n <= Max2(m, n)
      BY ONLY DEF Max2
    <2>2. high' = Max2(high, now[t]) /\ now[t] \in Nat /\ high \in Nat
      BY <1>1, <1>2
    <2> QED
      BY ONLY <2>1, <2>2
  <1>4. \A x \in DOMAIN used : x \in held \/ (used[x] < now[t])
    BY DEF Overdue
  <1>p. k = ProofKey(p) /\ p = input[t].proof
    OBVIOUS
  <1>a. accept => k \notin held
    OBVIOUS
  <1> HIDE DEF p, k, gone, held, accept
  <1>5. /\ DOMAIN taken = 1..Len(taken) /\ Len(taken) \in Nat
        /\ \A i \in DOMAIN taken : taken[i][2] \in Nat /\ taken[i][1] \in ProofKeys
    BY <1>t DEF Typed
  \* What was accepted before, seen after the sweep.
  <1>6. \A i \in DOMAIN taken :
          \/ taken[i][2] < high'
          \/ taken[i][1] \in held /\ used[taken[i][1]] = taken[i][2]
    BY <1>2, <1>3, <1>4, <1>5, <1>t DEF StoreTrue
  <1>7. \A x \in held : x \in DOMAIN used' /\ used'[x] = used[x]
    BY <1>1, <1>a
  <1>8. /\ taken' \in Seq(ProofKeys \X Nat)
        /\ \A i \in DOMAIN taken : i \in DOMAIN taken' /\ taken'[i] = taken[i]
        /\ \A i \in DOMAIN taken' : i \in DOMAIN taken \/
             (accept /\ taken'[i] = <<k, Expiry(p)>> /\ i = Len(taken) + 1)
        /\ accept => /\ Len(taken) + 1 \in DOMAIN taken'
                     /\ taken'[Len(taken) + 1] = <<k, Expiry(p)>>
    <2>1. CASE accept
      <3>1. taken' = Append(taken, <<k, Expiry(p)>>) /\ taken \in Seq(ProofKeys \X Nat)
            /\ <<k, Expiry(p)>> \in ProofKeys \X Nat
        BY <2>1, <1>1, <1>2, <1>t DEF Typed
      <3> QED
        BY <3>1, <1>5, <2>1
    <2>2. CASE ~accept
      BY <2>2, <1>1, <1>t DEF Typed
    <2> QED
      BY <2>1, <2>2
  <1>9. StoreTrue'
    <2>1. ASSUME NEW i \in DOMAIN taken'
          PROVE  \/ taken'[i][2] < high'
                 \/ taken'[i][1] \in DOMAIN used' /\ used'[taken'[i][1]] = taken'[i][2]
      <3>1. CASE i \in DOMAIN taken
        BY <3>1, <1>6, <1>7, <1>8
      <3>2. CASE accept /\ taken'[i] = <<k, Expiry(p)>>
        BY <3>2, <1>1
      <3> QED
        BY <3>1, <3>2, <1>8
    <2>2. ASSUME NEW i \in DOMAIN taken', NEW j \in DOMAIN taken',
                 i < j, taken'[i][1] = taken'[j][1]
          PROVE  taken'[i][2] < high'
      <3>1. CASE j \in DOMAIN taken
        <4>1. i \in DOMAIN taken
          BY <3>1, <2>2, <1>5, <1>8
        <4>2. taken[i][2] < high /\ taken'[i] = taken[i]
          BY <4>1, <3>1, <2>2, <1>8, <1>t DEF StoreTrue, ProofUsedOnce
        <4> QED
          BY <4>1, <4>2, <1>2, <1>3, <1>5
      <3>2. CASE accept /\ taken'[j] = <<k, Expiry(p)>> /\ j = Len(taken) + 1
        <4>1. i \in DOMAIN taken /\ taken[i][1] = k /\ taken'[i] = taken[i]
          BY <3>2, <2>2, <1>5, <1>8
        <4> QED
          BY <4>1, <3>2, <1>6, <1>a
      <3> QED
        BY <3>1, <3>2, <1>8
    <2> QED
      BY <2>1, <2>2 DEF StoreTrue, ProofUsedOnce
  <1>10. Typed'
    <2>1. dep' = dep /\ ProofKeys' = ProofKeys
      BY <1>1 DEF dep, ProofKeys
    <2>2. pc' \in [Threads -> Stages]
      BY <1>1, <1>t DEF Typed, Stages
    <2> QED
      BY <2>1, <2>2, <1>1, <1>3, <1>8, <1>t DEF Typed
  <1>11. CacheTrue'
    BY <1>1, <1>t DEF CacheTrue, Signed
  <1>l. Len(sets) \in Nat
    BY <1>t DEF Typed
  <1>12. ASSUME NEW r \in Threads PROVE RequestTrue(r)'
    <2>1. CASE r # t
      <3>1. UNCHANGED <<input[r], now[r], snap[r], since[r], pc[r]>> /\ RequestTrue(r)
        BY <2>1, <1>1, <1>t DEF Typed, AuthInv
      <3>2. /\ UNCHANGED <<name, sets>>
            /\ \A i \in DOMAIN taken : i \in DOMAIN taken' /\ taken'[i] = taken[i]
        BY <1>1, <1>8
      <3>3. Len(sets') \in Nat /\ Len(sets) <= Len(sets')
            /\ \A i \in 1..Len(sets) : sets'[i] = sets[i]
        BY ONLY <3>2, <1>l
      <3> QED
        BY ONLY <2>1, <3>1, <3>2, <3>3, <1>t, r \in Threads, RequestKept
    <2>2. CASE r = t
      <3>1. pc'[t] = IF accept THEN "ok" ELSE "error"
        BY <1>1, <1>t DEF Typed
      <3>2. /\ since'[t] \in 1..Len(sets') /\ snap'[t] \in since'[t]..Len(sets')
            /\ input[t].proof.thumb = input[t].tok.jkt
            /\ Valid(input[t].tok, sets[snap[t]], now[t])
        BY <1>1, <1>t DEF RequestTrue, Snapped, Verified
      <3>3. Valid(input[t].tok, sets[snap[t]], now[t])'
        BY <3>2, <1>1 DEF Valid, InTime, dep
      <3>4. accept => \E i \in DOMAIN taken' : taken'[i][1] = ProofKey(input'[t].proof)
        <4>1. ProofKey(input'[t].proof) = k
          BY <1>1, <1>p DEF ProofKey
        <4> QED
          BY <4>1, <1>8
      <3>5. CASE accept
        BY <2>2, <3>1, <3>2, <3>3, <3>4, <3>5, <1>1 DEF RequestTrue
      <3>6. CASE ~accept
        <4>1. pc'[t] = "error"
          BY <3>1, <3>6
        <4> QED
          BY <2>2, <4>1, <3>2 DEF RequestTrue, Snapped, Verified
      <3> QED
        BY <3>5, <3>6
    <2> QED
      BY <2>1, <2>2
  <1> QED
    BY <1>9, <1>10, <1>11, <1>12 DEF AuthInv

\* Every step of every thread keeps the invariant.
LEMMA AuthStep ==
  ASSUME AuthInv, [Next]_vars
  PROVE  AuthInv'
  <1>1. CASE UNCHANGED vars
    <2>1. UNCHANGED <<name, sets, map, used, taken, high, pc, input, now, snap,
                      since>>
      BY <1>1 DEF vars, cacheVars, replayVars, reqVars
    <2>2. dep' = dep /\ ProofKeys' = ProofKeys
      BY <2>1 DEF dep, ProofKeys
    <2>3. Typed' /\ CacheTrue' /\ StoreTrue'
      BY <2>1, <2>2
         DEF AuthInv, Typed, CacheTrue, Signed, StoreTrue, ProofUsedOnce
    <2>4. ASSUME NEW t \in Threads PROVE RequestTrue(t)'
      <3>1. Typed /\ RequestTrue(t)
        BY DEF AuthInv
      <3>2. Len(sets') \in Nat /\ Len(sets) <= Len(sets')
        BY <2>1, <3>1 DEF Typed
      <3>3. UNCHANGED <<name, input[t], now[t], snap[t], since[t], pc[t]>>
        BY <2>1
      <3>4. /\ \A i \in 1..Len(sets) : sets'[i] = sets[i]
            /\ \A i \in DOMAIN taken : i \in DOMAIN taken' /\ taken'[i] = taken[i]
        BY <2>1
      <3> QED
        BY <3>1, <3>2, <3>3, <3>4, RequestKept
    <2> QED
      BY <2>3, <2>4 DEF AuthInv
  <1>2. CASE SetKeys
    BY <1>2, SetKeysStep
  <1>3. CASE \E t \in Threads : Step(t)
    <2>1. PICK t \in Threads : Step(t)
      BY <1>3
    <2>2. CASE Register(t)
      BY <2>2, RegisterStep
    <2>3. CASE \/ Arrive(t) \/ Snapshot(t) \/ Lookup(t) \/ RemoveEntry(t)
               \/ Verify(t) \/ Insert(t) \/ Confirm(t)
      BY <2>3, CacheSteps
    <2> QED
      BY <2>1, <2>2, <2>3 DEF Step
  <1> QED
    BY <1>1, <1>2, <1>3 DEF Next

\* Under the invariant whoever is let in is entitled to it.
LEMMA AuthInvEntitles ==
  ASSUME AuthInv
  PROVE  AcceptedIsEntitled
  <1>1. ASSUME NEW t \in Threads, pc[t] = "ok"
        PROVE  \E s \in since[t]..Len(sets) : Valid(input[t].tok, sets[s], now[t])
    <2>1. /\ snap[t] \in since[t]..Len(sets)
          /\ Valid(input[t].tok, sets[snap[t]], now[t])
      BY <1>1 DEF AuthInv, RequestTrue, Snapped, Verified
    <2> QED
      BY <2>1
  <1>2. BoundIsProven
    BY DEF AuthInv, RequestTrue, BoundIsProven
  <1>3. ProofUsedOnce
    BY DEF AuthInv, StoreTrue
  <1> QED
    BY <1>1, <1>2, <1>3 DEF AcceptedIsEntitled, AcceptedIsValid

\* JwtAuthenticator::authenticate_at, for any number of threads and requests
\* and however set() and the two stores' locks interleave with them: a request
\* is answered Ok only if its token was valid with a key set shared during the
\* request, a token bound to a key only with a recorded proof by that key, and
\* a proof is accepted once until its expiry has passed.
THEOREM OnlyTheEntitled == Spec => []AcceptedIsEntitled
  <1>1. AuthInv /\ [Next]_vars => AuthInv'
    BY AuthStep
  <1>2. AuthInv => AcceptedIsEntitled
    BY AuthInvEntitles
  <1> QED
    BY InitAuth, <1>1, <1>2, PTL DEF Spec

-----------------------------------------------------------------------------
(* The two stores.                                                         *)

Tokens == {i.tok : i \in dep.inputs}

\* What is known of the stores, and of the sequence and the domain that are
\* counted.
StoresInv ==
  /\ TypeOK /\ CacheConsistent /\ ReplayConsistent
  /\ order \in Seq(Tokens) /\ IsFiniteSet(DOMAIN used)

\* A sequence of different elements has as many as it is long.
LEMMA DistinctCount ==
  ASSUME NEW T, NEW s \in Seq(T), IsInjective(s)
  PROVE  IsFiniteSet(Range(s)) /\ Cardinality(Range(s)) = Len(s)
<1> DEFINE S == Range(s)
<1>1. Len(s) \in Nat /\ DOMAIN s = 1..Len(s)
  OBVIOUS
<1>2. s \in [1..Len(s) -> S]
  BY <1>1 DEF Range
<1>3. \A y \in S : \E i \in 1..Len(s) : s[i] = y
  BY <1>1 DEF Range
<1>4. ExistsBijection(1..Len(s), S)
  <2>1. s \in Injection(1..Len(s), S)
    BY <1>2 DEF Injection
  <2>2. s \in Surjection(1..Len(s), S)
    BY <1>2, <1>3 DEF Surjection
  <2> QED
    BY <2>1, <2>2 DEF ExistsBijection, Bijection
<1> HIDE DEF S
<1> QED
  BY <1>1, <1>4, FS_CountingElements, FS_NatBijection DEF S

\* What a selection from the queue keeps.
LEMMA SelectedOrder ==
  ASSUME NEW T, NEW s \in Seq(T), IsInjective(s), NEW S
  PROVE  /\ Select(s, S) \in Seq(T) /\ IsInjective(Select(s, S))
         /\ Range(Select(s, S)) = Range(s) \cap S
         /\ Len(Select(s, S)) <= Len(s)
<1>1. PICK r : r = Select(s, S)
  OBVIOUS
<1>2. r \in Seq(T \cap S) /\ Faithful(r, s, S, Len(s))
  BY <1>1, SelectType, SelectFaithful
<1>3. r \in Seq(T)
  <2>1. Len(r) \in Nat /\ r \in [1..Len(r) -> T \cap S]
    BY <1>2
  <2>2. r \in [1..Len(r) -> T]
    BY <2>1
  <2> QED
    BY <2>1, <2>2
<1>4. DOMAIN r = 1..Len(r) /\ DOMAIN s = 1..Len(s)
  BY <1>3
<1>5. Distinct(s)
  BY <1>4 DEF Distinct, IsInjective
<1>6. Distinct(r) /\ Len(r) <= Len(s)
  BY <1>2, <1>5 DEF Faithful
<1>7. IsInjective(r)
  BY <1>4, <1>6 DEF Distinct, IsInjective
<1>8. Range(r) = Range(s) \cap S
  <2>1. ASSUME NEW x \in Range(r) PROVE x \in Range(s) /\ x \in S
    <3>1. PICK j \in 1..Len(r) : r[j] = x
      BY <1>4, <2>1 DEF Range
    <3> QED
      BY <1>2, <1>4, <3>1 DEF Faithful, Range
  <2>2. ASSUME NEW x \in Range(s), x \in S PROVE x \in Range(r)
    <3>1. PICK m \in 1..Len(s) : s[m] = x
      BY <1>4, <2>2 DEF Range
    <3> QED
      BY <1>2, <1>4, <2>2, <3>1 DEF Faithful, Range
  <2> QED
    BY <2>1, <2>2
<1> QED
  BY <1>1, <1>3, <1>6, <1>7, <1>8

\* What evicting the oldest leaves.
LEMMA NewestOrder ==
  ASSUME NEW T, NEW s \in Seq(T), IsInjective(s), NEW n \in 1..Len(s)
  PROVE  LET r == SubSeq(s, n + 1, Len(s))
         IN  /\ r \in Seq(T) /\ IsInjective(r) /\ Range(r) \subseteq Range(s)
             /\ Len(r) = Len(s) - n
<1>1. PICK r : r = SubSeq(s, n + 1, Len(s))
  OBVIOUS
<1>2. Len(s) \in Nat /\ n \in Nat /\ n <= Len(s) /\ DOMAIN s = 1..Len(s)
  OBVIOUS
<1>3. /\ r \in Seq(T) /\ Len(r) = Len(s) - n
      /\ \A i \in 1..Len(r) : r[i] = s[n + i]
  <2>1. PICK b \in Nat : b = Len(s)
    BY <1>2
  <2>2. n \in Nat /\ n <= b /\ b \in Int
    BY <1>2, <2>1
  <2>3. PICK a \in Int : a = n + 1
    BY <2>2
  <2>4. \A i \in a..b : s[i] \in T
    <3>1. \A i \in a..b : i \in 1..b
      BY <2>2, <2>3
    <3> QED
      BY <2>1, <3>1
  <2>5. /\ r \in Seq(T) /\ Len(r) = IF a <= b THEN b - a + 1 ELSE 0
        /\ \A i \in 1..(b - a + 1) : r[i] = s[a + i - 1]
    <3>1. r = SubSeq(s, a, b)
      BY <1>1, <2>1, <2>3
    <3> QED
      BY ONLY <2>2, <2>4, <3>1, a \in Int
  <2>6. Len(r) = b - n /\ b - a + 1 = b - n
    BY ONLY <2>2, <2>3, <2>5, b \in Nat, a \in Int
  <2>7. \A i \in 1..(b - n) : a + i - 1 = n + i
    BY ONLY <2>2, <2>3, b \in Nat, a \in Int
  <2> QED
    BY <2>1, <2>5, <2>6, <2>7
<1>4. DOMAIN r = 1..Len(r) /\ \A i \in 1..Len(r) : n + i \in 1..Len(s)
  BY <1>2, <1>3
<1>5. IsInjective(r)
  <2> SUFFICES ASSUME NEW i \in 1..Len(r), NEW j \in 1..Len(r), r[i] = r[j]
               PROVE  i = j
    BY <1>4 DEF IsInjective
  <2>1. n + i = n + j
    BY <1>2, <1>3, <1>4 DEF IsInjective
  <2> QED
    BY <1>2, <1>3, <2>1
<1>6. Range(r) \subseteq Range(s)
  BY <1>2, <1>3, <1>4 DEF Range
<1> QED
  BY <1>1, <1>3, <1>5, <1>6

\* One more element that is new.
LEMMA NewElement ==
  ASSUME NEW T, NEW s \in Seq(T), IsInjective(s), NEW e \in T, e \notin Range(s)
  PROVE  LET r == Append(s, e)
         IN  /\ r \in Seq(T) /\ IsInjective(r) /\ Range(r) = Range(s) \cup {e}
             /\ Len(r) = Len(s) + 1
<1>1. PICK r : r = Append(s, e)
  OBVIOUS
<1>2. /\ r \in Seq(T) /\ Len(s) \in Nat /\ Len(r) = Len(s) + 1 /\ r[Len(s) + 1] = e
      /\ \A i \in 1..Len(s) : r[i] = s[i]
  BY <1>1
<1>3. DOMAIN s = 1..Len(s) /\ DOMAIN r = 1..Len(r)
  BY <1>2
<1>4. /\ \A i \in DOMAIN r : i \in DOMAIN s \/ i = Len(s) + 1
      /\ \A i \in DOMAIN s : i \in DOMAIN r /\ r[i] = s[i] /\ s[i] # e
      /\ Len(s) + 1 \in DOMAIN r
  BY <1>2, <1>3 DEF Range
<1>5. IsInjective(r)
  BY <1>2, <1>4 DEF IsInjective
<1>6. Range(r) = Range(s) \cup {e}
  <2>1. ASSUME NEW x \in Range(r) PROVE x \in Range(s) \cup {e}
    BY <1>2, <1>4, <2>1 DEF Range
  <2>2. ASSUME NEW x \in Range(s) \cup {e} PROVE x \in Range(r)
    BY <1>2, <1>4, <2>2 DEF Range
  <2> QED
    BY <2>1, <2>2
<1> QED
  BY <1>1, <1>2, <1>5, <1>6

\* What insert makes room with leaves room, whichever entries have expired.
LEMMA EvictedRoom ==
  ASSUME StoresInv, NEW n
  PROVE  /\ Evicted(n) \in Seq(Tokens) /\ IsInjective(Evicted(n))
         /\ Range(Evicted(n)) \subseteq Range(order)
         /\ Len(Evicted(n)) + 1 <= CacheCapacity
<1> DEFINE kept == Select(order, Unexpired(n))
           over == Len(kept) - (CacheCapacity - 1)
<1>1. /\ order \in Seq(Tokens) /\ IsInjective(order) /\ Range(order) = DOMAIN map
      /\ CacheCapacity \in Nat /\ CacheCapacity >= 1
  BY AuthAssumption DEF StoresInv, CacheConsistent
<1>2. Cardinality(DOMAIN map) = Len(order) /\ Len(order) \in Nat
  BY <1>1, DistinctCount
<1>3. /\ kept \in Seq(Tokens) /\ IsInjective(kept)
      /\ Range(kept) \subseteq Range(order) /\ Len(kept) \in Nat
  BY <1>1, SelectedOrder
<1>4. Evicted(n) = IF Cardinality(DOMAIN map) < CacheCapacity THEN order
                   ELSE IF over <= 0 THEN kept
                   ELSE SubSeq(kept, over + 1, Len(kept))
  BY DEF Evicted
<1> HIDE DEF kept
<1>5. CASE Cardinality(DOMAIN map) < CacheCapacity
  BY <1>1, <1>2, <1>4, <1>5
<1>6. CASE ~(Cardinality(DOMAIN map) < CacheCapacity) /\ over <= 0
  <2>1. Evicted(n) = kept
    BY <1>4, <1>6
  <2>2. Len(kept) + 1 <= CacheCapacity
    BY <1>1, <1>3, <1>6
  <2> QED
    BY <1>3, <2>1, <2>2
<1>7. CASE ~(Cardinality(DOMAIN map) < CacheCapacity) /\ ~(over <= 0)
  <2>1. PICK m : m = over
    OBVIOUS
  <2>2. m \in 1..Len(kept) /\ Len(kept) - m = CacheCapacity - 1
    BY <1>1, <1>3, <1>7, <2>1
  <2>3. Evicted(n) = SubSeq(kept, m + 1, Len(kept))
    BY <1>4, <1>7, <2>1
  <2>4. /\ SubSeq(kept, m + 1, Len(kept)) \in Seq(Tokens)
        /\ IsInjective(SubSeq(kept, m + 1, Len(kept)))
        /\ Range(SubSeq(kept, m + 1, Len(kept))) \subseteq Range(kept)
        /\ Len(SubSeq(kept, m + 1, Len(kept))) = Len(kept) - m
    BY <1>3, <2>2, NewestOrder
  <2>5. Len(Evicted(n)) + 1 <= CacheCapacity
    BY <1>1, <2>2, <2>3, <2>4
  <2> QED
    BY <1>3, <2>3, <2>4, <2>5
<1> QED
  BY <1>5, <1>6, <1>7

\* The cache after a step: consistent, and within its capacity.
CacheFits ==
  CacheConsistent /\ order \in Seq(Tokens) /\ Len(order) <= CacheCapacity

\* TokenCache::remove takes the token from the map and from the queue.
LEMMA RemoveFits ==
  ASSUME StoresInv, NEW t \in Threads, RemoveEntry(t)
  PROVE  CacheFits'
<1> DEFINE tok == input[t].tok
           S == Range(order) \ {tok}
<1>1. /\ order \in Seq(Tokens) /\ IsInjective(order) /\ Range(order) = DOMAIN map
      /\ Len(order) <= CacheCapacity /\ CacheCapacity \in Nat /\ Len(order) \in Nat
  BY AuthAssumption DEF StoresInv, CacheConsistent, TypeOK
<1>2. Tokens' = Tokens
  BY DEF RemoveEntry, Tokens, dep
<1>3. DOMAIN map' = DOMAIN map \ {tok}
  BY DEF RemoveEntry, Without
<1>4. CASE tok \in DOMAIN map
  <2>1. order' = Select(order, S)
    BY <1>4 DEF RemoveEntry
  <2> HIDE DEF S
  <2>2. /\ order' \in Seq(Tokens) /\ IsInjective(order')
        /\ Range(order') = Range(order) \cap S /\ Len(order') <= Len(order)
    BY <1>1, <2>1, SelectedOrder
  <2>3. Range(order') = DOMAIN map'
    BY <1>1, <1>3, <2>2 DEF S
  <2>4. Len(order') <= CacheCapacity
    BY <1>1, <2>2
  <2> QED
    BY <1>2, <2>2, <2>3, <2>4 DEF CacheFits, CacheConsistent
<1>5. CASE tok \notin DOMAIN map
  <2>1. order' = order /\ DOMAIN map' = DOMAIN map
    BY <1>3, <1>5 DEF RemoveEntry
  <2> QED
    BY <1>1, <1>2, <2>1 DEF CacheFits, CacheConsistent
<1> QED
  BY <1>4, <1>5

\* TokenCache::insert puts the token into both and keeps within the capacity.
LEMMA InsertFits ==
  ASSUME StoresInv, NEW t \in Threads, Insert(t)
  PROVE  CacheFits'
<1> DEFINE tok == input[t].tok
           rest == Evicted(now[t])
<1>1. /\ order \in Seq(Tokens) /\ IsInjective(order) /\ Range(order) = DOMAIN map
      /\ Len(order) <= CacheCapacity
  BY DEF StoresInv, CacheConsistent, TypeOK
<1>2. Tokens' = Tokens /\ tok \in Tokens
  BY DEF Insert, Tokens, dep, reqVars, StoresInv, TypeOK
<1>3. IF tok \in DOMAIN map
      THEN map' = [map EXCEPT ![tok] = snap[t]] /\ order' = order
      ELSE /\ order' = Append(rest, tok)
           /\ map' = With(Retained(Range(rest)), tok, snap[t])
  BY DEF Insert
<1> HIDE DEF tok
<1>4. CASE tok \in DOMAIN map
  <2>1. order' = order /\ DOMAIN map' = DOMAIN map
    BY <1>3, <1>4
  <2> QED
    BY <1>1, <1>2, <2>1 DEF CacheFits, CacheConsistent
<1>5. CASE tok \notin DOMAIN map
  <2>1. /\ rest \in Seq(Tokens) /\ IsInjective(rest)
        /\ Range(rest) \subseteq Range(order) /\ Len(rest) + 1 <= CacheCapacity
    BY EvictedRoom
  <2> HIDE DEF rest
  <2>2. /\ order' \in Seq(Tokens) /\ IsInjective(order')
        /\ Range(order') = Range(rest) \cup {tok} /\ Len(order') = Len(rest) + 1
    <3>1. tok \notin Range(rest) /\ order' = Append(rest, tok)
      BY <1>1, <1>3, <1>5, <2>1
    <3> QED
      BY <1>2, <2>1, <3>1, NewElement
  <2>3. DOMAIN map' = (DOMAIN map \cap Range(rest)) \cup {tok}
    BY <1>3, <1>5 DEF With, Retained
  <2>4. Range(order') = DOMAIN map'
    BY <1>1, <2>1, <2>2, <2>3
  <2> QED
    BY <1>2, <2>1, <2>2, <2>4 DEF CacheFits, CacheConsistent
<1> QED
  BY <1>4, <1>5

\* The store of proofs after a step: its two structures agree, and it is
\* within its capacity.
StoreFits ==
  /\ ReplayConsistent /\ IsFiniteSet(DOMAIN used)
  /\ Cardinality(DOMAIN used) <= ReplayCapacity
  /\ \A k \in DOMAIN used : used[k] \in Nat

\* register_key sweeps both structures alike and adds to both alike.
LEMMA RegisterFits ==
  ASSUME Typed, StoresInv, NEW t \in Threads, Register(t)
  PROVE  StoreFits'
<1> DEFINE p == input[t].proof
           k == ProofKey(p)
           gone == Overdue(now[t])
           held == DOMAIN used \ {e[2] : e \in {g \in gone : used[g[2]] = g[1]}}
           accept == k \notin held /\ Cardinality(held) < ReplayCapacity
           added == IF accept THEN {k} ELSE {}
<1>1. /\ used' = [x \in held \cup added
                    |-> IF x = k /\ accept THEN Expiry(p) ELSE used[x]]
      /\ heap' = (heap \ gone) \cup (IF accept THEN {<<Expiry(p), k>>} ELSE {})
  BY DEF Register
<1>2. Expiry(p) \in Nat /\ now[t] \in Nat
  <2>1. input[t] \in dep.inputs /\ now[t] \in Nat
    BY DEF Typed
  <2>2. input[t].proof.iat \in Nat /\ dep.past \in Nat
    BY ONLY Typed, <2>1, DeploymentTypes
  <2>3. input[t].proof.iat + dep.past \in Nat
    BY ONLY <2>2
  <2> QED
    BY ONLY <2>1, <2>3 DEF Expiry
<1>3. /\ IsFiniteSet(DOMAIN used) /\ Cardinality(DOMAIN used) <= ReplayCapacity
      /\ heap = {<<used[x], x>> : x \in DOMAIN used}
      /\ \A x \in DOMAIN used : used[x] \in Nat
  BY DEF StoresInv, TypeOK, ReplayConsistent
<1>4. gone = {<<used[x], x>> : x \in {y \in DOMAIN used : used[y] < now[t]}}
  <2>1. ASSUME NEW e \in gone
        PROVE  \E x \in DOMAIN used : used[x] < now[t] /\ e = <<used[x], x>>
    <3>1. e \in heap /\ e[1] < now[t]
      BY ONLY <2>1 DEF Overdue
    <3>2. PICK x \in DOMAIN used : e = <<used[x], x>>
      BY ONLY <1>3, <3>1
    <3> QED
      BY ONLY <3>1, <3>2
  <2>2. ASSUME NEW x \in DOMAIN used, used[x] < now[t] PROVE <<used[x], x>> \in gone
    <3>1. <<used[x], x>> \in heap
      BY ONLY <1>3, <2>2
    <3> QED
      BY ONLY <2>2, <3>1 DEF Overdue
  <2> HIDE DEF gone
  <2> QED
    BY ONLY <2>1, <2>2
<1>5. \A x \in DOMAIN used : x \in held <=> ~(used[x] < now[t])
  <2>1. ASSUME NEW x \in DOMAIN used, used[x] < now[t] PROVE x \notin held
    <3>1. <<used[x], x>> \in gone /\ <<used[x], x>>[2] = x /\ <<used[x], x>>[1] = used[x]
      BY <1>4, <2>1
    <3> QED
      BY <3>1
  <2>2. ASSUME NEW x \in DOMAIN used, x \notin held PROVE used[x] < now[t]
    <3>1. PICK e \in gone : used[e[2]] = e[1] /\ e[2] = x
      BY <2>2
    <3> QED
      BY <1>4, <3>1
  <2> QED
    BY <2>1, <2>2
<1>6. held \subseteq DOMAIN used
  OBVIOUS
<1>7. heap \ gone = {<<used[x], x>> : x \in held}
  <2>1. ASSUME NEW e \in heap \ gone PROVE \E x \in held : e = <<used[x], x>>
    <3>1. PICK x \in DOMAIN used : e = <<used[x], x>>
      BY <1>3
    <3>2. ~(used[x] < now[t])
      BY <1>4, <3>1
    <3> QED
      BY <1>5, <3>1, <3>2
  <2>2. ASSUME NEW x \in held PROVE <<used[x], x>> \in heap \ gone
    <3>1. x \in DOMAIN used /\ ~(used[x] < now[t])
      BY <1>5, <1>6
    <3>2. <<used[x], x>> \in heap
      BY <1>3, <3>1
    <3>3. ASSUME <<used[x], x>> \in gone PROVE FALSE
      <4>1. PICK y \in DOMAIN used : used[y] < now[t] /\ <<used[x], x>> = <<used[y], y>>
        BY <1>4, <3>3
      <4> QED
        BY <3>1, <4>1
    <3> QED
      BY <3>2, <3>3
  <2> QED
    BY <2>1, <2>2
<1>8. accept => k \notin held /\ Cardinality(held) < ReplayCapacity
  OBVIOUS
<1>9. IsFiniteSet(held) /\ Cardinality(held) <= Cardinality(DOMAIN used)
      /\ Cardinality(held) \in Nat /\ Cardinality(DOMAIN used) \in Nat
  BY <1>3, <1>6, FS_Subset, FS_CardinalityType
<1> HIDE DEF p, k, gone, held, accept
<1>10. CASE accept
  <2>1. DOMAIN used' = held \cup {k} /\ used'[k] = Expiry(p) /\ k \notin held
        /\ \A x \in held : used'[x] = used[x]
    BY <1>1, <1>8, <1>10
  <2>2. heap' = {<<used[x], x>> : x \in held} \cup {<<Expiry(p), k>>}
    BY <1>1, <1>7, <1>10
  <2>3. ReplayConsistent'
    <3>1. heap' = {<<used'[x], x>> : x \in held \cup {k}}
      BY <2>1, <2>2
    <3> QED
      BY <2>1, <3>1 DEF ReplayConsistent
  <2>4. IsFiniteSet(DOMAIN used') /\ Cardinality(DOMAIN used') = Cardinality(held) + 1
    BY <1>9, <2>1, FS_AddElement
  <2>5. Cardinality(DOMAIN used') <= ReplayCapacity
    BY <1>8, <1>9, <1>10, <2>4, AuthAssumption
  <2>6. \A x \in DOMAIN used' : used'[x] \in Nat
    BY <1>2, <1>3, <1>6, <2>1
  <2> QED
    BY <2>3, <2>4, <2>5, <2>6 DEF StoreFits
<1>11. CASE ~accept
  <2>1. DOMAIN used' = held /\ \A x \in held : used'[x] = used[x]
    BY <1>1, <1>11
  <2>2. heap' = {<<used[x], x>> : x \in held}
    BY <1>1, <1>7, <1>11
  <2>3. ReplayConsistent'
    <3>1. heap' = {<<used'[x], x>> : x \in held}
      BY <2>1, <2>2
    <3> QED
      BY <2>1, <3>1 DEF ReplayConsistent
  <2>4. Cardinality(DOMAIN used') <= ReplayCapacity
    BY <1>3, <1>9, <2>1, AuthAssumption
  <2> QED
    BY <1>3, <1>6, <1>9, <2>1, <2>3, <2>4 DEF StoreFits
<1> QED
  BY <1>10, <1>11

\* The types of the requests under way.
RequestTypes ==
  /\ name \in DOMAIN Deployments
  /\ Range(sets) \subseteq dep.keySets /\ Len(sets) >= 1
  /\ pc \in [Threads -> Stages] /\ input \in [Threads -> dep.inputs]
  /\ now \in [Threads -> dep.times \cup {0}]
  /\ \A t \in Threads : snap[t] \in 0..Len(sets)
  /\ count \in [Threads -> 0..MaxRequests]

\* Every step keeps the types of the requests.
LEMMA RequestTypesKept ==
  ASSUME Typed, Typed', RequestTypes, Next
  PROVE  RequestTypes'
<1>1. name' = name /\ dep' = dep
  BY
     DEF Next, Step, SetKeys, Arrive, Snapshot, Lookup, RemoveEntry, Verify,
         Insert,
     Confirm, Register, dep
<1>2. Range(sets') \subseteq dep.keySets /\ Len(sets') >= 1
  <2>1. sets' \in Seq(dep.keySets) /\ Len(sets') >= 1
    BY <1>1 DEF Typed
  <2> QED
    BY ONLY <2>1 DEF Range
<1>3. Len(sets) \in Nat /\ Len(sets') \in Nat /\ Len(sets) <= Len(sets')
  <2>1. sets \in Seq(dep.keySets)
    BY DEF Typed
  <2>2. sets' = sets \/ \E K \in dep.keySets : sets' = Append(sets, K)
    BY
       DEF Next, Step, SetKeys, Arrive, Snapshot, Lookup, RemoveEntry, Verify,
           Insert,
       Confirm, Register
  <2> QED
    BY <2>1, <2>2
<1>4. now' \in [Threads -> dep.times \cup {0}] /\ count' \in [Threads -> 0..MaxRequests]
  <2>1. CASE \E t \in Threads : Arrive(t)
    <3>1. PICK t \in Threads : Arrive(t)
      BY <2>1
    <3>2. PICK n \in dep.times : now' = [now EXCEPT ![t] = n]
      BY <3>1 DEF Arrive
    <3>3. count' = [count EXCEPT ![t] = @ + 1] /\ count[t] < MaxRequests
      BY <3>1 DEF Arrive
    <3>4. count[t] \in 0..MaxRequests /\ count[t] + 1 \in 0..MaxRequests
      <4>1. count[t] \in 0..MaxRequests
        <5>1. count \in [Threads -> 0..MaxRequests]
          BY DEF RequestTypes
        <5> QED
          BY ONLY <5>1, t \in Threads
      <4>2. MaxRequests \in Nat
        BY ONLY AuthAssumption DEF AuthAssumption
      <4> QED
        BY ONLY <3>3, <4>1, <4>2
    <3>5. now \in [Threads -> dep.times \cup {0}] /\ count \in [Threads -> 0..MaxRequests]
      BY DEF RequestTypes
    <3>6. now' \in [Threads -> dep.times \cup {0}]
      BY ONLY t \in Threads, n \in dep.times, <3>2, <3>5
    <3>7. count' \in [Threads -> 0..MaxRequests]
      BY ONLY t \in Threads, <3>3, <3>4, <3>5
    <3> QED
      BY <3>6, <3>7
  <2>2. CASE UNCHANGED <<now, count>>
    BY <2>2 DEF RequestTypes
  <2> QED
    BY <2>1, <2>2
       DEF Next, Step, SetKeys, Snapshot, Lookup, RemoveEntry, Verify, Insert,
       Confirm, Register, reqVars
<1>5. \A t \in Threads : snap'[t] \in 0..Len(sets')
  <2>1. CASE \E t \in Threads : Snapshot(t)
    <3>1. PICK t \in Threads : Snapshot(t)
      BY <2>1
    <3>2. snap' = [snap EXCEPT ![t] = Len(sets)]
      BY <3>1 DEF Snapshot
    <3>3. (\A r \in Threads : snap[r] \in 0..Len(sets)) /\ snap \in [Threads -> Nat]
      BY DEF RequestTypes, Typed
    <3> QED
      BY ONLY t \in Threads, <1>3, <3>2, <3>3
  <2>2. CASE UNCHANGED snap
    <3>1. \A t \in Threads : snap[t] \in 0..Len(sets)
      BY DEF RequestTypes
    <3> QED
      BY ONLY <1>3, <2>2, <3>1
  <2> QED
    BY <2>1, <2>2
       DEF Next, Step, SetKeys, Arrive, Lookup, RemoveEntry, Verify, Insert,
       Confirm, Register, reqVars
<1> QED
  BY <1>1, <1>2, <1>4, <1>5 DEF RequestTypes, Typed

\* The stores are empty at first.
LEMMA InitStores == Init => StoresInv
<1> SUFFICES ASSUME Init PROVE StoresInv
  OBVIOUS
<1>1. AuthInv
  BY InitAuth
<1>2. order \in Seq(Tokens) /\ Len(order) = 0 /\ DOMAIN order = {} /\ DOMAIN map = {}
  BY DEF Init
<1>3. DOMAIN used = {} /\ IsFiniteSet(DOMAIN used) /\ Cardinality(DOMAIN used) = 0
  <2>1. used = << >>
    BY DEF Init
  <2>2. DOMAIN used = {}
    BY ONLY <2>1
  <2> QED
    BY ONLY <2>2, FS_EmptySet
<1>4. CacheConsistent /\ ReplayConsistent
  BY <1>2, <1>3 DEF Init, CacheConsistent, ReplayConsistent, IsInjective, Range
<1>5. TypeOK
  <2>1. Range(sets) \subseteq dep.keySets /\ Len(sets) >= 1 /\ Len(sets) \in Nat
    BY <1>1 DEF AuthInv, Typed, Range
  <2>2. now \in [Threads -> dep.times \cup {0}] /\ count \in [Threads -> 0..MaxRequests]
    BY AuthAssumption DEF Init
  <2>3. \A t \in Threads : snap[t] \in 0..Len(sets) /\ since[t] \in 1..Len(sets)
    BY <2>1 DEF Init
  <2>4. Len(order) <= CacheCapacity /\ Cardinality(DOMAIN used) <= ReplayCapacity
    BY <1>2, <1>3, AuthAssumption
  <2> QED
    BY <1>1, <1>2, <1>3, <2>1, <2>2, <2>3, <2>4 DEF AuthInv, Typed, Stages, TypeOK
<1> QED
  BY <1>2, <1>3, <1>4, <1>5 DEF StoresInv

\* Every step keeps both stores consistent and within their capacities.
LEMMA StoresStep ==
  ASSUME AuthInv, AuthInv', StoresInv, [Next]_vars
  PROVE  StoresInv'
<1>1. RequestTypes /\ CacheFits /\ StoreFits
  BY DEF StoresInv, TypeOK, RequestTypes, CacheFits, StoreFits, Stages
<1>2. CASE UNCHANGED vars
  <2>1. UNCHANGED <<name, sets, map, order, used, heap, pc, input, now, snap, count,
                    since>>
    BY <1>2 DEF vars, cacheVars, replayVars, reqVars
  <2>2. dep' = dep
    BY <2>1 DEF dep
  <2> QED
    BY <2>1, <2>2 DEF StoresInv, TypeOK, CacheConsistent, ReplayConsistent, Tokens
<1>3. CASE Next
  <2>1. RequestTypes'
    BY <1>1, <1>3, RequestTypesKept DEF AuthInv
  <2>2. CacheFits'
    <3>1. CASE \E t \in Threads : RemoveEntry(t) \/ Insert(t)
      BY <3>1, RemoveFits, InsertFits
    <3>2. CASE UNCHANGED <<name, map, order>>
      <4>1. Tokens' = Tokens
        BY <3>2 DEF Tokens, dep
      <4> QED
        BY <1>1, <3>2, <4>1 DEF CacheFits, CacheConsistent
    <3> QED
      BY <1>3, <3>1, <3>2
         DEF Next, Step, SetKeys, Arrive, Snapshot, Lookup, Verify,
         Confirm, Register, cacheVars
  <2>3. StoreFits'
    <3>1. CASE \E t \in Threads : Register(t)
      BY <3>1, RegisterFits DEF AuthInv
    <3>2. CASE UNCHANGED <<used, heap>>
      BY <1>1, <3>2 DEF StoreFits, ReplayConsistent
    <3> QED
      BY <1>3, <3>1, <3>2
         DEF Next, Step, SetKeys, Arrive, Snapshot, Lookup, RemoveEntry,
         Verify, Insert, Confirm, replayVars
  <2>4. /\ \A k \in DOMAIN map' : map'[k] \in 1..Len(sets')
        /\ \A t \in Threads : since'[t] \in 1..Len(sets')
    BY DEF AuthInv, CacheTrue, RequestTrue
  <2> QED
    BY <2>1, <2>2, <2>3, <2>4
       DEF StoresInv, TypeOK, RequestTypes, CacheFits, StoreFits, Stages
<1> QED
  BY <1>2, <1>3

\* TokenCache and ReplayStore, for any number of threads and any capacities:
\* the map and the insertion order of the one and the map and the heap of the
\* other agree whenever no lock is held, and neither exceeds its capacity.
THEOREM StoresStayConsistent == Spec => []StoresConsistent
<1>1. AuthInv /\ [Next]_vars => AuthInv'
  BY AuthStep
<1>2. AuthInv /\ AuthInv' /\ StoresInv /\ [Next]_vars => StoresInv'
  BY StoresStep
<1>3. StoresInv => StoresConsistent
  BY DEF StoresInv, StoresConsistent
<1> QED
  BY InitAuth, InitStores, <1>1, <1>2, <1>3, PTL DEF Spec

-----------------------------------------------------------------------------
(* Counting modulo the counter's width.                                    *)

\* A remainder is determined by the number it is the remainder of.
LEMMA RemainderUnique ==
  ASSUME NEW m \in Nat \ {0}, NEW q \in Int, NEW r \in 0..(m - 1),
         NEW p \in Int, NEW s \in 0..(m - 1), m * q + r = m * p + s
  PROVE  r = s
  <1>1. ASSUME NEW a \in Int, NEW b \in Int, a > b PROVE m * a >= m * b + m
    <2>1. a >= b + 1
      BY <1>1
    <2>2. m * (a - b - 1) >= 0
      BY <2>1
    <2> QED
      BY <2>2
  <1>2. CASE q > p
    BY <1>1, <1>2
  <1>3. CASE p > q
    BY <1>1, <1>3
  <1> QED
    BY <1>2, <1>3

\* What the remainder is of.
LEMMA RemainderOf ==
  ASSUME NEW m \in Nat \ {0}, NEW n \in Nat
  PROVE  n % m \in 0..(m - 1) /\ n \div m \in Int /\ n = m * (n \div m) + (n % m)
  <1>1. n % m \in 0..(m - 1)
    OBVIOUS
  <1>2. n \div m \in Int
    OBVIOUS
  <1>3. n = m * (n \div m) + (n % m)
    OBVIOUS
  <1> QED
    BY <1>1, <1>2, <1>3

\* fetch_add wraps around: counting on from the remainder gives the remainder
\* of the count.
LEMMA CounterWraps ==
  ASSUME NEW m \in Nat \ {0}, NEW n \in Nat
  PROVE  ((n % m) + 1) % m = (n + 1) % m
  <1> DEFINE r == n % m
             q == n \div m
             x == (r + 1) % m
             y == (n + 1) % m
  <1>1. r \in 0..(m - 1) /\ q \in Int /\ n = m * q + r
    BY RemainderOf
  <1>2. r + 1 \in Nat /\ n + 1 \in Nat
    BY <1>1
  <1>3. x \in 0..(m - 1) /\ (r + 1) \div m \in Int /\ r + 1 = m * ((r + 1) \div m) + x
    BY <1>2, RemainderOf
  <1>4. y \in 0..(m - 1) /\ (n + 1) \div m \in Int /\ n + 1 = m * ((n + 1) \div m) + y
    BY <1>2, RemainderOf
  <1> HIDE DEF r, q, x, y
  <1>5. PICK a \in Int : r + 1 = m * a + x
    BY <1>3
  <1>6. PICK b \in Int : n + 1 = m * b + y
    BY <1>4
  <1>7. m * (a + q) + x = m * b + y
    BY <1>1, <1>3, <1>4, <1>5, <1>6
  <1>8. x = y
    BY <1>1, <1>3, <1>4, <1>7, RemainderUnique
  <1> QED
    BY <1>8 DEF x, y, r

-----------------------------------------------------------------------------
(* The invariant: beside the balance that TraceSampled states, the counter *)
(* is the number of responses observed, modulo its width, and a task has   *)
(* at most one path in hand.                                               *)

SmPaths == {s.path : s \in SmTargets}
ToObserve == {s \in SmTargets : s.path \notin SmExcluded}

\* The i-th response observed is one to be recorded.
Due(i) == ((i - 1) % SmModulus) % SmInterval = 0

SamplerTypes ==
  /\ smSeen \in Seq(SmTargets) /\ smLog \in Seq(SmPaths)
  /\ DOMAIN smHand = SmTasks
  /\ \A t \in SmTasks : smHand[t] = <<>> \/ \E p \in SmPaths : smHand[t] = <<p>>

SamplerInv ==
  /\ SamplerTypes
  /\ smCounter = Len(Observed) % SmModulus
  /\ TraceSampled

\* What is observed are targets.
LEMMA ObservedType ==
  ASSUME SamplerTypes
  PROVE  Observed \in Seq(SmTargets) /\ Len(Observed) \in Nat
  <1>1. Observed \in Seq(SmTargets \cap ToObserve)
    BY SelectType DEF SamplerTypes, Observed, ToObserve
  <1>2. SmTargets \cap ToObserve \subseteq SmTargets
    OBVIOUS
  <1> QED
    BY <1>1, <1>2

\* The three sets that TraceSampled counts are finite.
LEMMA CountsFinite ==
  ASSUME SamplerTypes, NEW p \in SmPaths
  PROVE  /\ IsFiniteSet(Chosen[p]) /\ Cardinality(Chosen[p]) \in Nat
         /\ IsFiniteSet(Recorded(p)) /\ Cardinality(Recorded(p)) \in Nat
         /\ IsFiniteSet(InHand(p)) /\ Cardinality(InHand(p)) \in Nat
  <1>1. Chosen[p] \subseteq 1..Len(Observed) /\ Len(Observed) \in Nat
    BY ObservedType DEF Chosen, SmPaths
  <1>2. Recorded(p) \subseteq 1..Len(smLog) /\ Len(smLog) \in Nat
    BY DEF Recorded, SamplerTypes
  <1>3. InHand(p) \subseteq SmTasks /\ IsFiniteSet(SmTasks)
    BY SamplerAssumption DEF InHand
  <1>4. IsFiniteSet(1..Len(Observed)) /\ IsFiniteSet(1..Len(smLog))
    <2>1. \A k \in Nat : IsFiniteSet(1..k)
      BY FS_Interval
    <2> QED
      BY <1>1, <1>2, <2>1
  <1> QED
    BY <1>1, <1>2, <1>3, <1>4, FS_Subset, FS_CardinalityType

\* Nothing is due before the first response.
LEMMA InitSampler == SamplerInit => SamplerInv
  <1> SUFFICES ASSUME SamplerInit PROVE SamplerInv
    OBVIOUS
  <1>1. SamplerTypes
    BY DEF SamplerInit, SamplerTypes
  <1>2. Observed = <<>>
    BY SelectEmpty DEF SamplerInit, Observed
  <1>3. smCounter = Len(Observed) % SmModulus
    BY <1>2, SamplerAssumption DEF SamplerInit
  <1>4. TraceSampled
    <2> SUFFICES ASSUME NEW p \in SmPaths
                 PROVE  Cardinality(Chosen[p])
                          = Cardinality(Recorded(p)) + Cardinality(InHand(p))
      BY DEF TraceSampled, Chosen, SmPaths
    <2>1. Chosen[p] = {}
      BY <1>2 DEF Chosen, SmPaths
    <2>2. Recorded(p) = {}
      BY DEF Recorded, SamplerInit
    <2>3. InHand(p) = {}
      BY DEF InHand, SamplerInit
    <2>4. Cardinality({}) = 0
      BY ONLY FS_EmptySet
    <2> QED
      BY ONLY <2>1, <2>2, <2>3, <2>4
  <1> QED
    BY <1>1, <1>3, <1>4 DEF SamplerInv

-----------------------------------------------------------------------------
(* The steps.                                                              *)

\* A response of an excluded path changes nothing but the history.
LEMMA ExcludedUnseen ==
  ASSUME SamplerInv, NEW t \in SmTasks, NEW target \in SmTargets,
         RecordResponse(t, target), target.path \in SmExcluded
  PROVE  SamplerInv'
  <1>1. smCounter' = smCounter /\ smHand' = smHand /\ smLog' = smLog
    BY DEF RecordResponse
  <1>2. smSeen' = Append(smSeen, target) /\ smSeen \in Seq(SmTargets)
    BY DEF RecordResponse, SamplerInv, SamplerTypes
  <1>3. Observed' = Observed
    <2>1. target \notin ToObserve
      BY DEF ToObserve
    <2>2. Select(Append(smSeen, target), ToObserve) = Select(smSeen, ToObserve)
      BY <1>2, <2>1, SelectAppend
    <2> QED
      BY <1>2, <2>2 DEF Observed, ToObserve
  <1>4. SamplerTypes'
    BY <1>1, <1>2 DEF SamplerInv, SamplerTypes
  <1>5. TraceSampled'
    BY <1>1, <1>3 DEF SamplerInv, TraceSampled, Chosen, Recorded, InHand
  <1> QED
    BY <1>1, <1>3, <1>4, <1>5 DEF SamplerInv

\* A response that is not excluded is the next one observed, and its task has
\* its path in hand exactly when it is to be recorded.
LEMMA ObservedStep ==
  ASSUME SamplerInv, NEW t \in SmTasks, NEW target \in SmTargets,
         RecordResponse(t, target), target.path \notin SmExcluded
  PROVE  SamplerInv'
  <1> DEFINE n == Len(Observed)
             due == ShouldSample(smCounter)
  <1>1. SamplerTypes /\ Observed \in Seq(SmTargets) /\ n \in Nat
    BY ObservedType DEF SamplerInv
  <1>2. /\ smSeen' = Append(smSeen, target) /\ smLog' = smLog
        /\ smCounter' = (smCounter + 1) % SmModulus
        /\ smHand[t] = <<>>
        /\ smHand' = [smHand EXCEPT ![t] = IF due THEN <<target.path>> ELSE <<>>]
    BY DEF RecordResponse
  <1>3. Observed' = Append(Observed, target)
    <2>1. target \in ToObserve
      BY DEF ToObserve
    <2>2. smSeen \in Seq(SmTargets)
      BY <1>1 DEF SamplerTypes
    <2>3. Select(Append(smSeen, target), ToObserve)
            = Append(Select(smSeen, ToObserve), target)
      BY <2>1, <2>2, SelectAppend
    <2> QED
      BY <1>2, <2>3 DEF Observed, ToObserve
  <1>4. /\ Len(Observed') = n + 1 /\ Observed'[n + 1] = target
        /\ \A i \in 1..n : Observed'[i] = Observed[i]
    BY <1>1, <1>3
  <1>5. due <=> Due(n + 1)
    <2>1. smCounter = n % SmModulus /\ (n + 1) - 1 = n
      BY <1>1 DEF SamplerInv
    <2> QED
      BY <2>1 DEF ShouldSample, Due
  <1>6. smCounter' = Len(Observed') % SmModulus
    <2>1. smCounter = n % SmModulus /\ SmModulus \in Nat \ {0}
      BY SamplerAssumption DEF SamplerInv
    <2> QED
      BY <1>1, <1>2, <1>4, <2>1, CounterWraps
  <1>7. SamplerTypes'
    <2>1. target.path \in SmPaths
      BY DEF SmPaths
    <2> QED
      BY <1>1, <1>2, <2>1 DEF SamplerTypes
  <1> HIDE DEF n, due
  <1>8. TraceSampled'
    <2> SUFFICES ASSUME NEW p \in SmPaths
                 PROVE  Cardinality(Chosen'[p])
                          = Cardinality(Recorded(p)') + Cardinality(InHand(p)')
      BY DEF TraceSampled, Chosen, SmPaths
    <2>1. Cardinality(Chosen[p]) = Cardinality(Recorded(p)) + Cardinality(InHand(p))
      BY DEF SamplerInv, TraceSampled, Chosen, SmPaths
    <2>2. /\ IsFiniteSet(Chosen[p]) /\ Cardinality(Chosen[p]) \in Nat
          /\ Cardinality(Recorded(p)) \in Nat
          /\ IsFiniteSet(InHand(p)) /\ Cardinality(InHand(p)) \in Nat
      BY <1>1, CountsFinite
    <2>3. Recorded(p)' = Recorded(p)
      BY <1>2 DEF Recorded
    <2>4. Chosen[p] = {i \in 1..n : Observed[i].path = p /\ Due(i)}
      BY DEF Chosen, SmPaths, Due, n
    <2>5. Chosen'[p] = {i \in 1..(n + 1) : Observed'[i].path = p /\ Due(i)}
      BY <1>4 DEF Chosen, SmPaths, Due
    <2>6. \A i \in 1..(n + 1) : i \in 1..n \/ i = n + 1
      BY <1>1 DEF n
    <2>7. 1..n \subseteq 1..(n + 1) /\ n + 1 \notin 1..n /\ n + 1 \in 1..(n + 1)
      BY <1>1 DEF n
    <2>8. InHand(p) = {u \in SmTasks : smHand[u] = <<p>>}
          /\ InHand(p)' = {u \in SmTasks : smHand'[u] = <<p>>}
      BY DEF InHand
    <2>9. /\ t \notin InHand(p)
          /\ \A u \in SmTasks \ {t} : smHand'[u] = smHand[u]
          /\ smHand'[t] = IF due THEN <<target.path>> ELSE <<>>
      BY <1>1, <1>2, <2>8 DEF SamplerTypes
    <2>10. CASE due /\ target.path = p
      <3>1. Chosen'[p] = Chosen[p] \cup {n + 1} /\ n + 1 \notin Chosen[p]
        BY <1>4, <1>5, <2>4, <2>5, <2>6, <2>7, <2>10
      <3>2. InHand(p)' = InHand(p) \cup {t}
        BY <2>8, <2>9, <2>10
      <3>3. Cardinality(Chosen'[p]) = Cardinality(Chosen[p]) + 1
        BY <2>2, <3>1, FS_AddElement
      <3>4. Cardinality(InHand(p)') = Cardinality(InHand(p)) + 1
        BY <2>2, <2>9, <3>2, FS_AddElement
      <3> QED
        BY <2>1, <2>2, <2>3, <3>3, <3>4
    <2>11. CASE ~(due /\ target.path = p)
      <3>1. Chosen'[p] = Chosen[p]
        BY <1>4, <1>5, <2>4, <2>5, <2>6, <2>7, <2>11
      <3>2. smHand'[t] # <<p>>
        BY <2>9, <2>11
      <3>3. InHand(p)' = InHand(p)
        BY <2>8, <2>9, <3>2
      <3> QED
        BY <2>1, <2>3, <3>1, <3>3
    <2> QED
      BY <2>10, <2>11
  <1> QED
    BY <1>6, <1>7, <1>8 DEF SamplerInv

\* What a task has in hand goes to the log, and from its hand.
LEMMA EmitStep ==
  ASSUME SamplerInv, NEW t \in SmTasks, EmitEvent(t)
  PROVE  SamplerInv'
  <1>1. SamplerTypes
    BY DEF SamplerInv
  <1>2. PICK q \in SmPaths : smHand[t] = <<q>>
    BY <1>1 DEF SamplerTypes, EmitEvent
  <1>3. /\ smLog \in Seq(SmPaths) /\ Len(smLog) \in Nat
        /\ smLog' = smLog \o <<q>> /\ Len(smLog') = Len(smLog) + 1
        /\ smLog'[Len(smLog) + 1] = q
        /\ \A i \in 1..Len(smLog) : smLog'[i] = smLog[i]
        /\ smLog' \in Seq(SmPaths)
    BY <1>1, <1>2 DEF SamplerTypes, EmitEvent
  <1>4. smCounter' = smCounter /\ smSeen' = smSeen /\ Observed' = Observed
    BY DEF EmitEvent, Observed
  <1>5. /\ DOMAIN smHand' = SmTasks /\ smHand'[t] = <<>>
        /\ \A u \in SmTasks \ {t} : smHand'[u] = smHand[u]
    BY <1>1 DEF SamplerTypes, EmitEvent
  <1>6. SamplerTypes'
    BY <1>1, <1>3, <1>4, <1>5 DEF SamplerTypes
  <1>7. TraceSampled'
    <2> SUFFICES ASSUME NEW p \in SmPaths
                 PROVE  Cardinality(Chosen'[p])
                          = Cardinality(Recorded(p)') + Cardinality(InHand(p)')
      BY DEF TraceSampled, Chosen, SmPaths
    <2>1. Cardinality(Chosen[p]) = Cardinality(Recorded(p)) + Cardinality(InHand(p))
      BY DEF SamplerInv, TraceSampled, Chosen, SmPaths
    <2>2. /\ IsFiniteSet(Recorded(p)) /\ Cardinality(Recorded(p)) \in Nat
          /\ IsFiniteSet(InHand(p)) /\ Cardinality(InHand(p)) \in Nat
      BY <1>1, CountsFinite
    <2>3. Chosen' = Chosen
      BY <1>4 DEF Chosen
    <2>4. /\ Recorded(p) = {i \in 1..Len(smLog) : smLog[i] = p}
          /\ Recorded(p)' = {i \in 1..(Len(smLog) + 1) : smLog'[i] = p}
      BY <1>3 DEF Recorded
    <2>5. /\ \A i \in 1..(Len(smLog) + 1) : i \in 1..Len(smLog) \/ i = Len(smLog) + 1
          /\ 1..Len(smLog) \subseteq 1..(Len(smLog) + 1)
          /\ Len(smLog) + 1 \notin 1..Len(smLog)
          /\ Len(smLog) + 1 \in 1..(Len(smLog) + 1)
      BY <1>3
    <2>6. /\ InHand(p) = {u \in SmTasks : smHand[u] = <<p>>}
          /\ InHand(p)' = {u \in SmTasks : smHand'[u] = <<p>>}
      BY DEF InHand
    <2>7. smHand'[t] # <<p>>
      BY <1>5
    <2>8. CASE p = q
      <3>1. Recorded(p)' = Recorded(p) \cup {Len(smLog) + 1}
        BY <1>3, <2>4, <2>5, <2>8
      <3>2. InHand(p)' = InHand(p) \ {t} /\ t \in InHand(p)
        BY <1>2, <1>5, <2>6, <2>7, <2>8
      <3>3. Cardinality(Recorded(p)') = Cardinality(Recorded(p)) + 1
        BY <2>2, <2>4, <2>5, <3>1, FS_AddElement
      <3>4. Cardinality(InHand(p)') = Cardinality(InHand(p)) - 1
        BY <2>2, <3>2, FS_RemoveElement
      <3> QED
        BY <2>1, <2>2, <2>3, <3>3, <3>4
    <2>9. CASE p # q
      <3>1. Recorded(p)' = Recorded(p)
        BY <1>3, <2>4, <2>5, <2>9
      <3>2. smHand[t] # <<p>>
        BY <1>2, <2>9
      <3>3. InHand(p)' = InHand(p)
        BY <1>5, <2>6, <2>7, <3>2
      <3> QED
        BY <2>1, <2>3, <3>1, <3>3
    <2> QED
      BY <2>8, <2>9
  <1> QED
    BY <1>4, <1>6, <1>7 DEF SamplerInv

\* However the tasks of record_response interleave, and however often the
\* counter wraps around, every response that is to be recorded is recorded
\* once or is in its task's hand, and no other is (TraceSampled).
THEOREM TraceIsSampled == SamplerSpec => []TraceSampled
  <1>1. SamplerInit => SamplerInv
    BY InitSampler
  <1>2. SamplerInv /\ [SamplerNext]_smVars => SamplerInv'
    <2> SUFFICES ASSUME SamplerInv, [SamplerNext]_smVars PROVE SamplerInv'
      OBVIOUS
    <2>1. CASE UNCHANGED smVars
      BY <2>1 DEF smVars, SamplerInv, SamplerTypes, TraceSampled, Observed,
              Chosen, Recorded, InHand
    <2>2. CASE \E t \in SmTasks : EmitEvent(t)
      BY <2>2, EmitStep
    <2>3. CASE \E t \in SmTasks : \E target \in SmTargets : RecordResponse(t, target)
      BY <2>3, ExcludedUnseen, ObservedStep
    <2> QED
      BY <2>1, <2>2, <2>3 DEF SamplerNext
  <1>3. SamplerInv => TraceSampled
    BY DEF SamplerInv
  <1> QED
    BY <1>1, <1>2, <1>3, PTL DEF SamplerSpec

-----------------------------------------------------------------------------
(* The throttle.                                                           *)

\* Saturating addition stays a u64 and is the sum where that is one.
LEMMA SaturatingAddFacts ==
  ASSUME NEW a \in 0..U64Max, NEW b \in 0..U64Max
  PROVE  /\ SaturatingAdd(a, b) \in 0..U64Max
         /\ SaturatingAdd(a, b) < U64Max => SaturatingAdd(a, b) = a + b
         /\ b = 0 => SaturatingAdd(a, b) = a
  BY ThrottleAssumption DEF SaturatingAdd

\* A throttle that was never asked satisfies the invariant.
LEMMA ThrottleInitHolds == ThrottleInit => DeadlineKept
  BY ThrottleAssumption
     DEF ThrottleInit, DeadlineKept, ThrottleTypeOK, DeadlineFollows

\* Every step of every thread keeps the types and the shared deadline right.
LEMMA ThrottleStepHolds == DeadlineKept /\ [ThrottleNext]_throttleVars => DeadlineKept'
<1> SUFFICES ASSUME DeadlineKept, [ThrottleNext]_throttleVars PROVE DeadlineKept'
  OBVIOUS
<1> USE ThrottleAssumption
<1>1. CASE UNCHANGED throttleVars
  BY <1>1 DEF throttleVars, DeadlineKept, ThrottleTypeOK, DeadlineFollows
<1>2. ASSUME NEW t \in Notifiers, TryAcquire(t) PROVE DeadlineKept'
  <2>1. ASSUME NEW n \in 0..U64Max, Call(t, n) PROVE DeadlineKept'
    BY <2>1 DEF Call, DeadlineKept, ThrottleTypeOK, DeadlineFollows
  <2>2. CASE Load(t)
    BY <2>2 DEF Load, DeadlineKept, ThrottleTypeOK, DeadlineFollows
  <2>3. CASE Exchange(t)
    <3>0. clock[t] \in 0..U64Max /\ Interval \in 0..U64Max
      BY DEF DeadlineKept, ThrottleTypeOK
    <3>1. SaturatingAdd(clock[t], Interval) \in 0..U64Max
      BY <3>0, SaturatingAddFacts
    <3>2. CASE next = seen[t]
      <4>1. ThrottleTypeOK'
        BY <2>3, <3>1, <3>2 DEF Exchange, DeadlineKept, ThrottleTypeOK
      <4>2. DeadlineFollows'
        BY <2>3, <3>2 DEF Exchange, DeadlineKept, ThrottleTypeOK, DeadlineFollows
      <4> QED
        BY ONLY <4>1, <4>2 DEF DeadlineKept
    <3>3. CASE next # seen[t]
      <4>1. ThrottleTypeOK'
        BY <2>3, <3>3 DEF Exchange, DeadlineKept, ThrottleTypeOK
      <4>2. DeadlineFollows'
        BY <2>3, <3>3 DEF Exchange, DeadlineKept, ThrottleTypeOK, DeadlineFollows
      <4> QED
        BY ONLY <4>1, <4>2 DEF DeadlineKept
    <3>4. QED  BY <3>2, <3>3
  <2>4. CASE Count(t)
    BY <2>4 DEF Count, DeadlineKept, ThrottleTypeOK, DeadlineFollows
  <2>5. CASE Swap(t)
    BY <2>5 DEF Swap, DeadlineKept, ThrottleTypeOK, DeadlineFollows
  <2>6. QED  BY <1>2, <2>1, <2>2, <2>3, <2>4, <2>5 DEF TryAcquire
<1>3. QED  BY <1>1, <1>2 DEF ThrottleNext

\* The shared deadline of the throttle always is the time of the latest
\* notification plus the interval, whatever clocks the threads bring.
THEOREM DeadlineIsKept == ThrottleSpec => []DeadlineKept
  BY ThrottleInitHolds, ThrottleStepHolds, PTL DEF ThrottleSpec

\* Notifications are the interval apart, for any number of threads, any
\* interval and any clocks: the exchange lets one thread through per deadline.
THEOREM NotificationsSpaced == ThrottleSpec => Spaced
<1>1. ASSUME DeadlineKept, [ThrottleNext]_throttleVars, acquired > 0, acquired' # acquired
      PROVE  last' >= last + Interval
  <2> USE ThrottleAssumption
  <2>1. PICK t \in Notifiers : TryAcquire(t)
    BY <1>1 DEF ThrottleNext, throttleVars
  <2>2. Exchange(t)
    BY <1>1, <2>1 DEF TryAcquire, Call, Load, Count, Swap
  <2>3. next = seen[t] /\ last' = clock[t] /\ stage[t] = "exchange"
    BY <1>1, <2>2 DEF Exchange
  <2>4. next = SaturatingAdd(last, Interval) /\ clock[t] >= next
        /\ (Interval > 0 => next < U64Max)
    BY <1>1, <2>3 DEF DeadlineKept, DeadlineFollows
  <2>5. SaturatingAdd(last, Interval) = last + Interval
    BY <1>1, <2>4, SaturatingAddFacts DEF DeadlineKept, ThrottleTypeOK
  <2>6. clock[t] \in Int /\ last \in Int
    BY <1>1 DEF DeadlineKept, ThrottleTypeOK
  <2>7. QED  BY <2>3, <2>4, <2>5, <2>6
<1>2. ThrottleSpec => []DeadlineKept
  BY ThrottleInitHolds, ThrottleStepHolds, PTL DEF ThrottleSpec
<1>3. DeadlineKept /\ [ThrottleNext]_throttleVars
      => [acquired > 0 /\ acquired' # acquired => last' >= last + Interval]_throttleVars
  BY <1>1
<1>4. QED  BY <1>2, <1>3, PTL DEF ThrottleSpec, Spaced

\* What one step does to the set of calls under way.
LEMMA UnderWayMoves ==
  ASSUME NEW t \in Notifiers, IsFiniteSet(Notifiers)
  PROVE  /\ IsFiniteSet(UnderWay) /\ Cardinality(UnderWay) \in Nat
         /\ UnderWay' = UnderWay => Cardinality(UnderWay') = Cardinality(UnderWay)
         /\ t \notin UnderWay /\ UnderWay' = UnderWay \cup {t}
            => Cardinality(UnderWay') = Cardinality(UnderWay) + 1
         /\ t \in UnderWay /\ UnderWay' = UnderWay \ {t}
            => Cardinality(UnderWay') = Cardinality(UnderWay) - 1
<1>1. IsFiniteSet(UnderWay)
  BY FS_Subset DEF UnderWay
<1>2. Cardinality(UnderWay) \in Nat
  BY <1>1, FS_CardinalityType
<1>3. QED  BY <1>1, <1>2, FS_AddElement, FS_RemoveElement

\* No event is lost or counted twice, for any number of threads: the count
\* handed out, the pending count and the calls under way add up.
THEOREM NoEventLost == ThrottleSpec => []EventsConserved
<1>1. ThrottleInit => EventsConserved
  <2>1. ThrottleInit => UnderWay = {}
    BY DEF ThrottleInit, UnderWay
  <2>2. QED  BY <2>1, FS_EmptySet DEF ThrottleInit, EventsConserved
<1>2. ASSUME ThrottleTypeOK, EventsConserved, [ThrottleNext]_throttleVars PROVE EventsConserved'
  <2>1. CASE UNCHANGED throttleVars
    BY <1>2, <2>1 DEF throttleVars, EventsConserved, UnderWay
  <2>2. ASSUME NEW t \in Notifiers, TryAcquire(t) PROVE EventsConserved'
    <3> DEFINE C == Cardinality(UnderWay)
               D == Cardinality(UnderWay')
    <3>1. /\ C \in Nat
          /\ UnderWay' = UnderWay => D = C
          /\ t \notin UnderWay /\ UnderWay' = UnderWay \cup {t} => D = C + 1
          /\ t \in UnderWay /\ UnderWay' = UnderWay \ {t} => D = C - 1
      BY UnderWayMoves, ThrottleAssumption
    <3>2. calls = acquired + reported + suppressed + C
      BY <1>2 DEF EventsConserved
    <3>3. SUFFICES calls' = acquired' + reported' + suppressed' + D
      BY DEF EventsConserved
    <3>4. /\ suppressed \in Nat /\ calls \in Nat /\ acquired \in Nat
          /\ reported \in Nat
          /\ stage \in [Notifiers -> {"idle", "load", "exchange", "count", "swap"}]
      BY <1>2 DEF ThrottleTypeOK
    <3> HIDE DEF C, D
    <3>5. ASSUME NEW n \in 0..U64Max, Call(t, n)
          PROVE  calls' = acquired' + reported' + suppressed' + D
      <4>1. t \notin UnderWay /\ UnderWay' = UnderWay \cup {t}
        BY <3>4, <3>5 DEF Call, UnderWay
      <4>2. QED  BY <3>1, <3>2, <3>4, <3>5, <4>1 DEF Call
    <3>6. CASE Load(t)
      <4>1. UnderWay' = UnderWay
        BY <3>4, <3>6 DEF Load, UnderWay
      <4>2. QED  BY <3>1, <3>2, <3>4, <3>6, <4>1 DEF Load
    <3>7. CASE Exchange(t)
      <4>1. CASE next = seen[t]
        <5>1. t \in UnderWay /\ UnderWay' = UnderWay \ {t}
          BY <3>4, <3>7, <4>1 DEF Exchange, UnderWay
        <5>2. acquired' = acquired + 1 /\ UNCHANGED <<suppressed, calls, reported>>
          BY ONLY <3>7, <4>1 DEF Exchange
        <5>3. C \in Nat /\ D = C - 1
          BY ONLY <3>1, <5>1
        <5>4. QED  BY ONLY <3>2, <3>4, <5>2, <5>3
      <4>2. CASE next # seen[t]
        <5>1. UnderWay' = UnderWay
          BY <3>4, <3>7, <4>2 DEF Exchange, UnderWay
        <5>2. QED  BY <3>1, <3>2, <3>4, <3>7, <4>2, <5>1 DEF Exchange
      <4>3. QED  BY <4>1, <4>2
    <3>8. CASE Count(t)
      <4>1. t \in UnderWay /\ UnderWay' = UnderWay \ {t}
        BY <3>4, <3>8 DEF Count, UnderWay
      <4>2. QED  BY <3>1, <3>2, <3>4, <3>8, <4>1 DEF Count
    <3>9. CASE Swap(t)
      <4>1. UnderWay' = UnderWay
        BY <3>4, <3>9 DEF Swap, UnderWay
      <4>2. QED  BY <3>1, <3>2, <3>4, <3>9, <4>1 DEF Swap
    <3>10. QED  BY <2>2, <3>5, <3>6, <3>7, <3>8, <3>9 DEF TryAcquire
  <2>3. QED  BY <1>2, <2>1, <2>2 DEF ThrottleNext
<1>3. DeadlineKept => ThrottleTypeOK
  BY DEF DeadlineKept
<1>4. QED  BY <1>1, <1>2, <1>3, DeadlineIsKept, PTL DEF ThrottleSpec

\* The two atomics of NotifyThrottle are right together, for any number of
\* threads, any interval and any clocks.
THEOREM ThrottleIsSound == ThrottleSpec => []ThrottleSound
<1>1. DeadlineKept /\ EventsConserved => ThrottleSound
  BY DEF ThrottleSound
<1> QED  BY <1>1, DeadlineIsKept, NoEventLost, PTL
=============================================================================
