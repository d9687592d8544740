----------------------------- MODULE GateProofs -----------------------------
(***************************************************************************)
(* Theorems about the gates and the tenants' stores behind them (Gates),   *)
(* for any connections, requests, tenants and sequence of gates.           *)
(***************************************************************************)
EXTENDS Gates, SelectionProofs, FiniteSetTheorems

-----------------------------------------------------------------------------
(* The gates' decision, for any sequence of gates.                         *)

\* f holds the outcome of the first gates, one after another.
GateRun(f, r, n) ==
  f = [i \in 0..n |->
         IF i = 0 THEN [status |-> 0, ext |-> {}]
         ELSE IF f[i - 1].status # 0 THEN f[i - 1]
         ELSE Check(Setup.gates[i], r, f[i - 1].ext)]

\* There is such a function for every number of gates.
LEMMA GateRunExists ==
  ASSUME NEW r, NEW n \in Nat
  PROVE  \E f : GateRun(f, r, n)
<1> DEFINE Bad == {m \in Nat : ~ \E f : GateRun(f, r, m)}
<1>1. SUFFICES ASSUME Bad # {} PROVE FALSE
  OBVIOUS
<1>2. PICK m \in Bad : \A y \in Bad : m <= y
  <2>1. Bad \subseteq Nat
    OBVIOUS
  <2> HIDE DEF Bad
  <2> QED
    BY <1>1, <2>1, LeastNumber
<1>3. m # 0
  <2>1. GateRun([i \in 0..0 |-> [status |-> 0, ext |-> {}]], r, 0)
    BY DEF GateRun
  <2> QED
    BY <2>1
<1>4. m \in Nat /\ m - 1 \in Nat /\ m - 1 \notin Bad
  BY <1>2, <1>3
<1>5. PICK f : GateRun(f, r, m - 1)
  BY <1>4
<1> DEFINE step(x, i) == IF x.status # 0 THEN x ELSE Check(Setup.gates[i], r, x.ext)
           none == [status |-> 0, ext |-> {}]
           h == [i \in 0..m |-> IF i < m THEN f[i] ELSE step(f[m - 1], m)]
<1>6. f = [i \in 0..(m - 1) |-> IF i = 0 THEN none ELSE step(f[i - 1], i)]
  BY <1>5 DEF GateRun
<1> HIDE DEF step, none
<1>7. ASSUME NEW i \in 0..m
      PROVE  h[i] = IF i = 0 THEN none ELSE step(h[i - 1], i)
  <2>1. CASE i = m
    <3>1. h[i] = step(f[m - 1], m) /\ m - 1 \in 0..m /\ m - 1 < m
      BY <2>1, <1>4
    <3>2. h[i - 1] = f[m - 1]
      BY <2>1, <3>1
    <3> QED
      BY <1>3, <2>1, <3>1, <3>2
  <2>2. CASE i # m /\ i = 0
    <3>1. h[i] = f[i] /\ i \in 0..(m - 1)
      BY <1>4, <2>2
    <3> QED
      BY <1>6, <2>2, <3>1
  <2>3. CASE i # m /\ i # 0
    <3>1. i \in 0..(m - 1) /\ i - 1 \in 0..m /\ i - 1 < m /\ i < m
      BY <1>4, <2>3
    <3>2. h[i] = f[i] /\ h[i - 1] = f[i - 1]
      BY <3>1
    <3>3. f[i] = step(f[i - 1], i)
      BY <1>6, <2>3, <3>1
    <3> QED
      BY <2>3, <3>2, <3>3
  <2> QED
    BY <2>1, <2>2, <2>3
<1>8. h = [i \in 0..m |-> IF i = 0 THEN none ELSE step(h[i - 1], i)]
  <2>1. DOMAIN h = 0..m /\ h = [i \in 0..m |-> h[i]]
    OBVIOUS
  <2> HIDE DEF h
  <2> QED
    BY <1>7, <2>1
<1>9. GateRun(h, r, m)
  BY <1>8 DEF GateRun, step, none
<1> QED
  BY <1>9

\* What first_rejection gives is the last of these outcomes.
LEMMA RejectionIs ==
  ASSUME NEW r, Len(Setup.gates) \in Nat
  PROVE  \E f : GateRun(f, r, Len(Setup.gates))
                /\ FirstRejection(r, {}) = f[Len(Setup.gates)]
<1>1. PICK g : GateRun(g, r, Len(Setup.gates))
  BY GateRunExists
<1> DEFINE f == CHOOSE f : GateRun(f, r, Len(Setup.gates))
<1>2. GateRun(f, r, Len(Setup.gates))
  BY <1>1
<1>3. FirstRejection(r, {}) = f[Len(Setup.gates)]
  BY DEF FirstRejection, GateRun
<1> QED
  BY <1>2, <1>3

Gates3 == {"csrf", "jwt", "tenant"}

\* One of the first k gates is g.
Among(setup, g, k) == \E i \in 1..k : setup.gates[i] = g

\* What the first k gates leave in the extensions when all admit.
Left(setup, r, k) ==
  (IF Among(setup, "jwt", k) THEN {<<"jwt", r.org>>} ELSE {})
  \cup (IF Among(setup, "tenant", k) THEN {<<"tenant", Trim[r.org]>>} ELSE {})

\* The decision of the first k gates: all admit, or it is that of the first
\* that has a reason not to.
Admitted(setup, r, k, out) ==
  /\ out.status = 0 /\ out.ext = Left(setup, r, k)
  /\ \A i \in 1..k : Reason(setup, r, i) = 0
Rejected(setup, r, k, status) ==
  /\ status \in {401, 403, 500}
  /\ \E i \in 1..k : /\ Reason(setup, r, i) = status
                     /\ \A j \in 1..(i - 1) : Reason(setup, r, j) = 0
Decision(setup, r, k, out) ==
  Admitted(setup, r, k, out) \/ Rejected(setup, r, k, out.status)

\* What is found in the extensions tells whether the gate came before.
LEMMA LeftTells ==
  ASSUME NEW setup, NEW r, NEW k
  PROVE  /\ (\E e \in Left(setup, r, k) : e[1] = "jwt") <=> Among(setup, "jwt", k)
         /\ (\E e \in Left(setup, r, k) : e[1] = "tenant") <=> Among(setup, "tenant", k)
  <1> DEFINE a == Among(setup, "jwt", k)
             b == Among(setup, "tenant", k)
             v == r.org
             w == Trim[r.org]
  <1>1. Left(setup, r, k) = (IF a THEN {<<"jwt", v>>} ELSE {})
                            \cup (IF b THEN {<<"tenant", w>>} ELSE {})
    BY DEF Left
  <1>2. <<"jwt", v>>[1] = "jwt" /\ <<"tenant", w>>[1] = "tenant"
    OBVIOUS
  <1> HIDE DEF a, b, v, w
  <1>3. /\ (\E e \in Left(setup, r, k) : e[1] = "jwt") <=> a
        /\ (\E e \in Left(setup, r, k) : e[1] = "tenant") <=> b
    BY <1>1, <1>2
  <1> QED
    BY <1>3 DEF a, b

\* Among one gate more.
LEMMA AmongNext ==
  ASSUME NEW setup, NEW g, NEW k \in Nat \ {0}
  PROVE  Among(setup, g, k) <=> (Among(setup, g, k - 1) \/ setup.gates[k] = g)
  <1>1. \A i \in 1..k : i \in 1..(k - 1) \/ i = k
    OBVIOUS
  <1>2. k \in 1..k /\ \A i \in 1..(k - 1) : i \in 1..k
    OBVIOUS
  <1> QED
    BY <1>1, <1>2 DEF Among

\* CsrfGate::check rejects what has come from elsewhere, and nothing else.
LEMMA CsrfDecides ==
  ASSUME NEW r, NEW ext, GateRequestOk(r)
  PROVE  CsrfCheck(r, ext) =
           [status |-> IF CrossSite(Setup, r) THEN 403 ELSE 0, ext |-> ext]
  <1> DEFINE allowed == {Setup.origins[i] : i \in DOMAIN Setup.origins}
             free == \/ r.method \in {"GET", "HEAD", "OPTIONS"}
                     \/ r.path \in {Setup.exempt[i] : i \in DOMAIN Setup.exempt}
             ok == IF r.site # <<>> THEN r.site \in {<<"same-origin">>, <<"none">>}
                   ELSE Len(r.origin) = 1 /\ r.origin[1] \in allowed
  <1>1. CsrfCheck(r, ext) = [status |-> IF free \/ ok THEN 0 ELSE 403, ext |-> ext]
    BY DEF CsrfCheck
  <1>2. free <=> ~ /\ r.method \notin {"GET", "HEAD", "OPTIONS"}
                   /\ \A i \in DOMAIN Setup.exempt : Setup.exempt[i] # r.path
    OBVIOUS
  <1>3. \A o : (Len(r.origin) = 1 /\ r.origin[1] = o) <=> r.origin = <<o>>
    <2>1. r.origin = [i \in 1..Len(r.origin) |-> r.origin[i]]
      BY DEF GateRequestOk, IsSequence
    <2> TAKE o
    <2>2. CASE Len(r.origin) = 1 /\ r.origin[1] = o
      <3>1. r.origin = [i \in 1..1 |-> o]
        BY <2>1, <2>2
      <3>2. [i \in 1..1 |-> o] = <<o>>
        OBVIOUS
      <3> QED
        BY <2>2, <3>1, <3>2
    <2>3. CASE r.origin = <<o>>
      BY <2>3
    <2> QED
      BY <2>2, <2>3
  <1>4. ok <=> \/ r.site \in {<<"none">>, <<"same-origin">>}
               \/ r.site = <<>> /\ \E i \in DOMAIN Setup.origins : r.origin = <<Setup.origins[i]>>
    <2>1. (Len(r.origin) = 1 /\ r.origin[1] \in allowed)
            <=> \E i \in DOMAIN Setup.origins : r.origin = <<Setup.origins[i]>>
      BY <1>3
    <2>2. <<"none">> # <<>> /\ <<"same-origin">> # <<>>
      OBVIOUS
    <2> QED
      BY <2>1, <2>2
  <1> HIDE DEF free, ok
  <1> QED
    BY <1>1, <1>2, <1>4 DEF CrossSite

\* One gate more, when those before it admit.
LEMMA GateDecides ==
  ASSUME NEW r, GateRequestOk(r), NEW k \in Nat \ {0}, Setup.gates[k] \in Gates3,
         NEW out, Admitted(Setup, r, k - 1, out)
  PROVE  Decision(Setup, r, k, Check(Setup.gates[k], r, out.ext))
  <1> DEFINE g == Setup.gates[k]
             after == Check(g, r, out.ext)
             R(i) == Reason(Setup, r, i)
  <1>1. out.ext = Left(Setup, r, k - 1) /\ \A i \in 1..(k - 1) : R(i) = 0
    BY DEF Admitted
  <1>2. k \in 1..k /\ \A i \in 1..k : i \in 1..(k - 1) \/ i = k
    OBVIOUS
  <1>3. R(k) = IF g = "csrf" THEN IF CrossSite(Setup, r) THEN 403 ELSE 0
               ELSE IF ~r.good THEN 401
               ELSE IF g = "tenant" /\ Trim[r.org] = NoTenant THEN 403
               ELSE IF Among(Setup, g, k - 1) THEN 500
               ELSE 0
    BY DEF Reason, Among
  <1>4. after.status = R(k)
    <2>1. CASE g = "csrf"
      <3>1. after = CsrfCheck(r, out.ext)
        BY <2>1 DEF Check
      <3> QED
        BY <1>3, <2>1, <3>1, CsrfDecides
    <2>2. CASE g = "jwt"
      <3>1. after = JwtCheck(r, out.ext)
        BY <2>2 DEF Check
      <3> QED
        BY <1>1, <1>3, <2>2, <3>1, LeftTells DEF JwtCheck, InsertExtension
    <2>3. CASE g = "tenant"
      <3>1. after = TenantCheck(r, out.ext)
        BY <2>3 DEF Check
      <3> QED
        BY <1>1, <1>3, <2>3, <3>1, LeftTells DEF TenantCheck, InsertExtension
    <2> QED
      BY <2>1, <2>2, <2>3 DEF Gates3
  <1>5. R(k) = 0 => after.ext = Left(Setup, r, k)
    <2>0. /\ Among(Setup, "jwt", k) <=> (Among(Setup, "jwt", k - 1) \/ g = "jwt")
          /\ Among(Setup, "tenant", k) <=> (Among(Setup, "tenant", k - 1) \/ g = "tenant")
      BY AmongNext
    <2>1. CASE g = "csrf"
      <3>1. after = CsrfCheck(r, out.ext)
        BY <2>1 DEF Check
      <3>2. after.ext = out.ext
        BY <3>1, CsrfDecides
      <3> QED
        BY <1>1, <2>0, <2>1, <3>2 DEF Left
    <2>2. CASE g = "jwt"
      <3>1. after = JwtCheck(r, out.ext)
        BY <2>2 DEF Check
      <3>2. R(k) = 0 => r.good /\ ~Among(Setup, "jwt", k - 1)
        BY <1>3, <2>2
      <3>3. R(k) = 0 => after.ext = out.ext \cup {<<"jwt", r.org>>}
        BY <1>1, <3>1, <3>2, LeftTells DEF JwtCheck, InsertExtension
      <3> QED
        BY <1>1, <2>0, <2>2, <3>2, <3>3 DEF Left
    <2>3. CASE g = "tenant"
      <3>1. after = TenantCheck(r, out.ext)
        BY <2>3 DEF Check
      <3>2. R(k) = 0 => /\ r.good /\ ~Among(Setup, "tenant", k - 1)
                        /\ Trim[r.org] # NoTenant
        BY <1>3, <2>3
      <3>3. R(k) = 0 => after.ext = out.ext \cup {<<"tenant", Trim[r.org]>>}
        BY <1>1, <3>1, <3>2, LeftTells DEF TenantCheck, InsertExtension
      <3> QED
        BY <1>1, <2>0, <2>3, <3>2, <3>3 DEF Left
    <2> QED
      BY <2>1, <2>2, <2>3 DEF Gates3
  <1>6. R(k) \in {0, 401, 403, 500}
    BY <1>3
  <1> HIDE DEF after, R
  <1>7. CASE R(k) = 0
    <2>1. \A i \in 1..k : R(i) = 0
      BY <1>1, <1>2, <1>7
    <2>2. Admitted(Setup, r, k, after)
      BY <1>4, <1>5, <1>7, <2>1 DEF Admitted, R
    <2> QED
      BY <2>2 DEF Decision, after
  <1>8. CASE R(k) # 0
    <2>1. Rejected(Setup, r, k, after.status)
      BY <1>1, <1>2, <1>4, <1>6, <1>8 DEF Rejected, R
    <2> QED
      BY <2>1 DEF Decision, after
  <1> QED
    BY <1>7, <1>8

\* first_rejection decides as the first gate that has a reason does, and
\* leaves what the gates found when none has.
LEMMA RejectionDecides ==
  ASSUME NEW r, GateRequestOk(r), Setup.gates \in Seq(Gates3)
  PROVE  Decision(Setup, r, Len(Setup.gates), FirstRejection(r, {}))
  <1> DEFINE n == Len(Setup.gates)
  <1>1. n \in Nat /\ \A i \in 1..n : Setup.gates[i] \in Gates3
    OBVIOUS
  <1>2. PICK f : GateRun(f, r, n) /\ FirstRejection(r, {}) = f[n]
    BY <1>1, RejectionIs
  <1> HIDE DEF n
  <1>3. f[0] = [status |-> 0, ext |-> {}]
    BY <1>1, <1>2 DEF GateRun
  <1>4. \A i \in 1..n : f[i] = IF f[i - 1].status # 0 THEN f[i - 1]
                               ELSE Check(Setup.gates[i], r, f[i - 1].ext)
    <2> DEFINE b(i) == IF i = 0 THEN [status |-> 0, ext |-> {}]
                       ELSE IF f[i - 1].status # 0 THEN f[i - 1]
                       ELSE Check(Setup.gates[i], r, f[i - 1].ext)
    <2>1. f = [i \in 0..n |-> b(i)]
      BY <1>2 DEF GateRun
    <2> HIDE DEF b
    <2>2. \A i \in 1..n : f[i] = b(i) /\ i # 0
      BY <1>1, <2>1
    <2> QED
      BY <2>2 DEF b
  <1> DEFINE Bad == {i \in 0..n : ~Decision(Setup, r, i, f[i])}
  <1>5. SUFFICES ASSUME Bad # {} PROVE FALSE
    BY <1>1, <1>2 DEF n
  <1>6. PICK m \in Bad : \A y \in Bad : m <= y
    <2>1. Bad \subseteq Nat
      BY <1>1
    <2> HIDE DEF Bad
    <2> QED
      BY <1>5, <2>1, LeastNumber
  <1>7. m # 0
    <2>1. ~Among(Setup, "jwt", 0) /\ ~Among(Setup, "tenant", 0)
      BY DEF Among
    <2>2. f[0].status = 0 /\ f[0].ext = {} /\ Left(Setup, r, 0) = {}
      BY <1>3, <2>1 DEF Left
    <2>3. Decision(Setup, r, 0, f[0])
      BY <2>2 DEF Decision, Admitted
    <2> QED
      BY <2>3
  <1>8. m \in 1..n /\ m - 1 \in 0..n /\ m \in Nat \ {0} /\ m - 1 \notin Bad
    BY <1>1, <1>6, <1>7
  <1>9. Decision(Setup, r, m - 1, f[m - 1])
    BY <1>8
  <1>10. Decision(Setup, r, m, f[m])
    <2>1. CASE Admitted(Setup, r, m - 1, f[m - 1])
      <3>1. f[m] = Check(Setup.gates[m], r, f[m - 1].ext)
        BY <1>4, <1>8, <2>1 DEF Admitted
      <3> QED
        BY <1>1, <1>8, <2>1, <3>1, GateDecides
    <2>2. CASE Rejected(Setup, r, m - 1, f[m - 1].status)
      <3>1. f[m] = f[m - 1]
        BY <1>4, <1>8, <2>2 DEF Rejected
      <3>2. \A i \in 1..(m - 1) : i \in 1..m
        BY <1>8
      <3>3. Rejected(Setup, r, m, f[m].status)
        BY <2>2, <3>1, <3>2 DEF Rejected
      <3> QED
        BY <3>3 DEF Decision
    <2> QED
      BY <1>9, <2>1, <2>2 DEF Decision
  <1> QED
    BY <1>6, <1>10

-----------------------------------------------------------------------------
(* The origins that CsrfGateBuilder::build accepts.                        *)

\* A label that canonical_ipv4 accepts is one a browser writes.
LEMMA NumberWritten ==
  ASSUME NEW l \in OctetLabels
  PROVE  WrittenNumber(l)
  <1>1. /\ LabelNumber \in [DigitLabels \cup HexLabels -> Nat]
        /\ OctetLabels \subseteq DigitLabels
        /\ \A k, m \in OctetLabels :
             LabelNumber[k] <= 255 /\ (LabelNumber[k] = LabelNumber[m] => k = m)
    BY GatesAssumption DEF NotationOk
  <1> QED
    BY <1>1 DEF WrittenNumber

\* And so is a host that valid_hostname accepts.
LEMMA HostWritten ==
  ASSUME NEW labels, IsSequence(labels), Len(labels) > 0, ValidHostname(labels)
  PROVE  WrittenHost(labels)
  <1> DEFINE final == labels[Len(labels)]
             dot == Len(labels) > 1 /\ final = NoLabel
             short == SubSeq(labels, 1, Len(labels) - 1)
             rest == IF dot THEN short ELSE labels
  <1>1. IF EndsInNumber(rest) THEN ~dot /\ CanonicalIpv4(rest)
        ELSE \A i \in DOMAIN rest : rest[i] \in LowerLabels
    BY DEF ValidHostname
  <1>2. /\ DOMAIN LabelNumber = DigitLabels \cup HexLabels
        /\ DigitLabels \cup HexLabels \subseteq LowerLabels
        /\ OctetLabels \subseteq DigitLabels /\ NoLabel \notin LowerLabels
    BY GatesAssumption DEF NotationOk
  <1>3. Len(labels) \in Nat /\ DOMAIN labels = 1..Len(labels)
    BY DEF IsSequence
  <1>4. ~dot => final # NoLabel
    <2> SUFFICES ASSUME ~dot, final = NoLabel PROVE FALSE
      OBVIOUS
    <2>1. Len(labels) = 1 /\ rest = labels /\ labels[1] = NoLabel
      BY <1>3
    <2>2. ~EndsInNumber(rest)
      BY <1>2, <2>1 DEF EndsInNumber
    <2>3. 1 \in DOMAIN rest
      BY <1>3, <2>1
    <2> QED
      BY <1>1, <1>2, <2>1, <2>2, <2>3
  <1>5. WithoutDot(labels) = rest
    <2>1. WithoutDot(labels) = IF final = NoLabel THEN short ELSE labels
      BY DEF WithoutDot
    <2> HIDE DEF short, final
    <2> QED
      BY <1>4, <2>1
  <1>6. ~dot => rest = labels
    OBVIOUS
  <1> HIDE DEF rest, dot
  <1>7. EndsInNumber(rest) <=> (rest # <<>> /\ rest[Len(rest)] \in DOMAIN LabelNumber)
    BY <1>2 DEF EndsInNumber
  <1>8. CASE EndsInNumber(rest)
    <2>1. rest = labels /\ Len(rest) = 4 /\ \A i \in 1..4 : rest[i] \in OctetLabels
      BY <1>1, <1>6, <1>8 DEF CanonicalIpv4
    <2>2. \A i \in DOMAIN rest : rest[i] \in LowerLabels
      BY <1>2, <1>3, <2>1
    <2>3. \A i \in 1..4 : WrittenNumber(rest[i])
      BY <2>1, NumberWritten
    <2> QED
      BY <1>5, <2>1, <2>2, <2>3 DEF WrittenHost
  <1>9. CASE ~EndsInNumber(rest)
    BY <1>1, <1>5, <1>7, <1>9 DEF WrittenHost
  <1> QED
    BY <1>8, <1>9

\* And so is an origin that valid_origin accepts.
LEMMA OriginWritten ==
  ASSUME NEW o, ValidOrigin(o),
         o.host[1] = "v6" \/ (IsSequence(o.host[2]) /\ Len(o.host[2]) > 0)
  PROVE  Written(o)
  <1>1. o.port # <<>> => /\ PortValue[o.port[1]] # PortValue[DefaultPort(o.scheme)]
                         /\ PortValue[o.port[1]] <= 65535 /\ o.port[1] \notin ZeroPorts
    <2> SUFFICES ASSUME o.port # <<>>
                 PROVE  /\ PortValue[o.port[1]] # PortValue[DefaultPort(o.scheme)]
                        /\ PortValue[o.port[1]] <= 65535 /\ o.port[1] \notin ZeroPorts
      OBVIOUS
    <2>1. /\ {"80", "443"} \subseteq DOMAIN PortValue \ ZeroPorts
          /\ \A p, q \in DOMAIN PortValue \ ZeroPorts :
               PortValue[p] = PortValue[q] => p = q
      BY GatesAssumption DEF NotationOk
    <2>2. /\ o.port[1] \in DOMAIN PortValue \ ZeroPorts
          /\ o.port[1] # DefaultPort(o.scheme) /\ PortValue[o.port[1]] <= 65535
      BY DEF ValidOrigin, ValidPort
    <2>3. DefaultPort(o.scheme) \in DOMAIN PortValue \ ZeroPorts
      BY <2>1 DEF DefaultPort
    <2> QED
      BY <2>1, <2>2, <2>3
  <1>2. IF o.host[1] = "v6" THEN V6Serial[o.host[2]] = o.host[2] ELSE WrittenHost(o.host[2])
    BY HostWritten DEF ValidOrigin
  <1> QED
    BY <1>1, <1>2 DEF Written

-----------------------------------------------------------------------------
(* The invariant of the connections: what a connection holds is what the   *)
(* gates decided on the request it has, under the configuration that       *)
(* serves.                                                                 *)

ConnFields == {"pc", "request", "status", "ext", "got", "served"}

SetupTrue ==
  \/ gSetup = <<>>
  \/ gSetup = <<"error">>
  \/ \E setup \in Setups : gSetup = <<"serving", setup>> /\ CsrfBuildOk(setup)

ConnShape(c) ==
  /\ DOMAIN gConn[c] = ConnFields
  /\ gConn[c].pc \in {"idle", "handler"} /\ gConn[c].served \in 0..MaxServed[c]

ConnDecided(c) ==
  \/ gConn[c].request = <<>> /\ gConn[c].status = 0 /\ gConn[c].pc = "idle"
  \/ /\ Serving /\ (gConn[c].pc = "handler" => gConn[c].status = 0)
     /\ \E r \in GateRequests[c] :
          /\ gConn[c].request = <<r>>
          /\ Decision(Setup, r, Len(Setup.gates), gConn[c])

GateInv ==
  /\ SetupTrue /\ DOMAIN gConn = GateConns
  /\ \A c \in GateConns : ConnShape(c) /\ ConnDecided(c)

\* While it serves, the configuration is one of those given.
LEMMA ServingSetup ==
  ASSUME SetupTrue, Serving
  PROVE  Setup \in Setups /\ CsrfBuildOk(Setup) /\ Setup.gates \in Seq(Gates3)
         /\ gSetup # <<>>
  <1>1. PICK setup \in Setups : gSetup = <<"serving", setup>> /\ CsrfBuildOk(setup)
    <2>1. <<"error">>[1] = "error"
      OBVIOUS
    <2> QED
      BY <2>1 DEF SetupTrue, Serving
  <1>2. Setup = setup
    BY <1>1 DEF Setup
  <1>3. setup.gates \in Seq(Gates3)
    BY GatesAssumption DEF SetupOk, Gates3
  <1> QED
    BY <1>1, <1>2, <1>3 DEF Serving

\* It holds at first.
LEMMA GatesStart ==
  GatesInit => GateInv
  <1> SUFFICES ASSUME GatesInit PROVE GateInv
    OBVIOUS
  <1>1. MaxServed \in [GateConns -> Nat]
    BY GatesAssumption
  <1>2. ASSUME NEW c \in GateConns PROVE ConnShape(c) /\ ConnDecided(c)
    <2>1. gConn[c] = [pc |-> "idle", request |-> <<>>, status |-> 0, ext |-> {},
                      got |-> <<>>, served |-> 0]
      BY DEF GatesInit
    <2>2. MaxServed[c] \in Nat
      BY <1>1
    <2> QED
      BY <2>1, <2>2 DEF ConnShape, ConnDecided, ConnFields
  <1> QED
    BY <1>2 DEF GateInv, GatesInit, SetupTrue

\* Building the gate.
LEMMA ConfigureKeeps ==
  ASSUME GateInv, NEW setup \in Setups, Configure(setup)
  PROVE  GateInv'
  <1>1. /\ gSetup = <<>> /\ gConn' = gConn
        /\ gSetup' = IF CsrfBuildOk(setup) THEN <<"serving", setup>> ELSE <<"error">>
    BY DEF Configure
  <1>2. SetupTrue'
    BY <1>1 DEF SetupTrue
  <1>3. ~Serving
    BY <1>1 DEF Serving
  <1>4. ASSUME NEW c \in GateConns PROVE ConnShape(c)' /\ ConnDecided(c)'
    BY <1>1, <1>3 DEF GateInv, ConnShape, ConnDecided
  <1> QED
    BY <1>1, <1>2, <1>4 DEF GateInv

\* What a step leaves alone stays as it was.
LEMMA ConnKept ==
  ASSUME NEW c, gSetup' = gSetup, ConnShape(c), ConnDecided(c),
         DOMAIN gConn'[c] = ConnFields, gConn'[c].request = gConn[c].request,
         gConn'[c].status = gConn[c].status, gConn'[c].ext = gConn[c].ext,
         gConn'[c].served = gConn[c].served,
         gConn'[c].pc = gConn[c].pc \/ gConn'[c].pc = "idle"
  PROVE  ConnShape(c)' /\ ConnDecided(c)'
  <1>1. ConnShape(c)'
    BY DEF ConnShape
  <1>2. CASE gConn[c].request = <<>> /\ gConn[c].status = 0 /\ gConn[c].pc = "idle"
    BY <1>1, <1>2 DEF ConnDecided
  <1>3. CASE ~(gConn[c].request = <<>> /\ gConn[c].status = 0 /\ gConn[c].pc = "idle")
    <2>1. /\ Serving /\ (gConn[c].pc = "handler" => gConn[c].status = 0)
          /\ \E r \in GateRequests[c] :
               /\ gConn[c].request = <<r>>
               /\ Decision(Setup, r, Len(Setup.gates), gConn[c])
      BY <1>3 DEF ConnDecided
    <2>2. PICK r \in GateRequests[c] :
            /\ gConn[c].request = <<r>>
            /\ Decision(Setup, r, Len(Setup.gates), gConn[c])
      BY <2>1
    <2>3. Serving' /\ Setup' = Setup
      BY <2>1 DEF Serving, Setup
    <2>4. Decision(Setup, r, Len(Setup.gates), gConn'[c])
      BY <2>2 DEF Decision, Admitted
    <2>5. gConn'[c].request = <<r>> /\ (gConn'[c].pc = "handler" => gConn'[c].status = 0)
      BY <2>1, <2>2
    <2> QED
      BY <1>1, <2>3, <2>4, <2>5 DEF ConnDecided
  <1> QED
    BY <1>2, <1>3

\* A request is read, and the gates decide on it.
LEMMA EvaluateKeeps ==
  ASSUME GateInv, NEW c \in GateConns, NEW r \in GateRequests[c], Evaluate(c, r)
  PROVE  GateInv'
  <1> DEFINE out == FirstRejection(r, {})
             conn == [pc |-> IF out.status = 0 THEN "handler" ELSE "idle",
                      request |-> <<r>>, status |-> out.status, ext |-> out.ext,
                      got |-> <<>>, served |-> gConn[c].served + 1]
  <1>1. /\ Serving /\ gConn[c].served < MaxServed[c] /\ gSetup' = gSetup
        /\ gConn' = [gConn EXCEPT ![c] = conn]
    BY DEF Evaluate
  <1>2. DOMAIN gConn = GateConns /\ SetupTrue /\ ConnShape(c)
    BY DEF GateInv
  <1>3. gConn'[c] = conn /\ \A d \in GateConns : d # c => gConn'[d] = gConn[d]
    BY <1>1, <1>2
  <1>4. Decision(Setup, r, Len(Setup.gates), out)
    <2>1. GateRequestOk(r)
      BY GatesAssumption
    <2> QED
      BY <1>1, <1>2, <2>1, ServingSetup, RejectionDecides
  <1> HIDE DEF out
  <1>5. /\ conn.pc = (IF out.status = 0 THEN "handler" ELSE "idle")
        /\ conn.request = <<r>> /\ conn.status = out.status /\ conn.ext = out.ext
        /\ conn.served = gConn[c].served + 1 /\ DOMAIN conn = ConnFields
    BY DEF ConnFields
  <1> HIDE DEF conn
  <1>6. Decision(Setup, r, Len(Setup.gates), conn)
    BY <1>4, <1>5 DEF Decision, Admitted
  <1>7. Serving' /\ Setup' = Setup /\ SetupTrue'
    BY <1>1, <1>2 DEF Serving, Setup, SetupTrue
  <1>8. ConnDecided(c)'
    BY <1>3, <1>5, <1>6, <1>7 DEF ConnDecided
  <1>9. ConnShape(c)'
    <2>1. MaxServed[c] \in Nat /\ gConn[c].served \in 0..MaxServed[c]
      BY <1>2, GatesAssumption DEF ConnShape
    <2>2. gConn[c].served + 1 \in 0..MaxServed[c]
      BY ONLY <1>1, <2>1
    <2> QED
      BY <1>3, <1>5, <2>2 DEF ConnShape
  <1>10. ASSUME NEW d \in GateConns, d # c PROVE ConnShape(d)' /\ ConnDecided(d)'
    <2>1. gConn'[d] = gConn[d] /\ ConnShape(d) /\ ConnDecided(d)
      BY <1>3, <1>10 DEF GateInv
    <2>2. DOMAIN gConn'[d] = ConnFields
      BY <2>1 DEF ConnShape
    <2> QED
      BY <1>1, <2>1, <2>2, ConnKept
  <1>11. DOMAIN gConn' = GateConns
    BY <1>1, <1>2
  <1> QED
    BY <1>7, <1>8, <1>9, <1>10, <1>11 DEF GateInv

\* A handler's calls and its return change nothing the gates decided.
LEMMA HandlerKeeps ==
  ASSUME GateInv, NEW c \in GateConns, gSetup' = gSetup, NEW v,
         \/ gConn' = [gConn EXCEPT ![c].got = v]
         \/ gConn' = [gConn EXCEPT ![c].pc = "idle", ![c].got = <<>>]
  PROVE  GateInv'
  <1>1. DOMAIN gConn = GateConns /\ SetupTrue /\ DOMAIN gConn[c] = ConnFields
    BY DEF GateInv, ConnShape
  <1>2. /\ DOMAIN gConn' = GateConns /\ DOMAIN gConn'[c] = ConnFields
        /\ \A d \in GateConns : d # c => gConn'[d] = gConn[d]
    BY <1>1
  <1>3. /\ gConn'[c].request = gConn[c].request /\ gConn'[c].status = gConn[c].status
        /\ gConn'[c].ext = gConn[c].ext /\ gConn'[c].served = gConn[c].served
        /\ gConn'[c].pc = gConn[c].pc \/ gConn'[c].pc = "idle"
    BY <1>1 DEF ConnFields
  <1>4. ASSUME NEW d \in GateConns PROVE ConnShape(d)' /\ ConnDecided(d)'
    <2>1. ConnShape(d) /\ ConnDecided(d) /\ DOMAIN gConn[d] = ConnFields
      BY DEF GateInv, ConnShape
    <2>2. CASE d = c
      BY <1>2, <1>3, <2>1, <2>2, ConnKept
    <2>3. CASE d # c
      <3>1. gConn'[d] = gConn[d]
        BY <1>2, <2>3
      <3> QED
        BY <2>1, <3>1, ConnKept
    <2> QED
      BY <2>2, <2>3
  <1>5. SetupTrue'
    BY <1>1 DEF SetupTrue
  <1> QED
    BY <1>2, <1>4, <1>5 DEF GateInv

\* The calls of the stores and the handler's return.
HandlerStep(c) ==
  \/ Enqueue(c) \/ ListForOrg(c) \/ HandlerReturns(c)
  \/ \E s \in Services : Grant(c, s) \/ Revoke(c, s) \/ IsGranted(c, s)
  \/ \E item \in Records : Resolve(c, item)

\* Each of them is a step of the handler.
LEMMA HandlerStepIs ==
  ASSUME NEW c \in GateConns, HandlerStep(c)
  PROVE  /\ gSetup' = gSetup /\ gConn[c].pc = "handler"
         /\ \/ gConn' = [gConn EXCEPT ![c].pc = "idle", ![c].got = <<>>]
            \/ \E v : gConn' = [gConn EXCEPT ![c].got = v]
  <1>1. CASE HandlerReturns(c)
    BY <1>1 DEF HandlerReturns
  <1>2. ASSUME NEW op, NEW what, NEW result, StoreCall(c, op, what, result)
        PROVE  /\ gSetup' = gSetup /\ gConn[c].pc = "handler"
               /\ \E v : gConn' = [gConn EXCEPT ![c].got = v]
    BY <1>2 DEF StoreCall
  <1>3. CASE \E op, what, result : StoreCall(c, op, what, result)
    BY <1>2, <1>3
  <1>4. HandlerReturns(c) \/ \E op, what, result : StoreCall(c, op, what, result)
    <2>1. Enqueue(c) => \E op, what, result : StoreCall(c, op, what, result)
      BY DEF Enqueue
    <2>2. ListForOrg(c) => \E op, what, result : StoreCall(c, op, what, result)
      BY DEF ListForOrg
    <2>3. \A s \in Services : Grant(c, s) \/ Revoke(c, s) \/ IsGranted(c, s)
            => \E op, what, result : StoreCall(c, op, what, result)
      BY DEF Grant, Revoke, IsGranted
    <2>4. \A item \in Records :
            Resolve(c, item) => \E op, what, result : StoreCall(c, op, what, result)
      BY DEF Resolve
    <2> QED
      BY <2>1, <2>2, <2>3, <2>4 DEF HandlerStep
  <1> QED
    BY <1>1, <1>3, <1>4

\* Every step keeps the invariant of the connections.
LEMMA GatesStep ==
  ASSUME GateInv, [GatesNext]_gVars
  PROVE  GateInv'
  <1>1. CASE UNCHANGED gVars
    <2>1. gSetup' = gSetup /\ gConn' = gConn
      BY <1>1 DEF gVars
    <2> QED
      BY <2>1, ConnKept DEF GateInv, SetupTrue, ConnShape
  <1>2. CASE \E setup \in Setups : Configure(setup)
    BY <1>2, ConfigureKeeps
  <1>3. CASE \E c \in GateConns : \E r \in GateRequests[c] : Evaluate(c, r)
    BY <1>3, EvaluateKeeps
  <1>4. CASE \E c \in GateConns : HandlerStep(c)
    <2>1. PICK c \in GateConns : HandlerStep(c)
      BY <1>4
    <2> QED
      BY <2>1, HandlerStepIs, HandlerKeeps
  <1> QED
    BY <1>1, <1>2, <1>3, <1>4 DEF GatesNext, HandlerStep

-----------------------------------------------------------------------------
(* The invariant of the stores: what they hold is what the calls, in their *)
(* order, have made of them.                                               *)

Ops == {"enqueue", "list", "grant", "revoke", "granted", "lookup"}
Whats == Services \cup Records \cup {"event"}
Calls == Ops \X Orgs \X Whats
Trails == Orgs \X {r.path : r \in UNION {GateRequests[c] : c \in GateConns}}

\* The events e are those that the first n calls stored for the tenant, in
\* their order.
Lists(e, org, n) ==
  /\ {e[i][2] : i \in DOMAIN e} = Stored(org, n)
  /\ \A i, j \in DOMAIN e : i < j => e[i][2] < e[j][2]

StoreTypes ==
  /\ gLog \in Seq(Calls) /\ gOutbox \in Seq(Orgs \X Nat)
  /\ gGrants \subseteq Orgs \X Services \X BOOLEAN /\ gAudit \in Seq(Trails)

LogBounded == gLog # <<>> => Serving /\ Len(gLog) <= MaxStoreCalls[Setup.gates]

OutboxTrue == \A org \in Orgs : Lists(Select(gOutbox, {org} \X Nat), org, Len(gLog))

GrantsTrue ==
  \A org \in Orgs, s \in Services :
    <<org, s, TRUE>> \in gGrants <=> Consented(org, s, Len(gLog))

\* What a call told is true of the first n calls.
Answered(op, what, result, n, org) ==
  /\ op = "list" => IF org = NoTenant THEN result = <<>> ELSE Lists(result, org, n)
  /\ op = "granted" => result[1] = (org # NoTenant /\ Consented(org, what, n))
AnswerOf(c) ==
  Answered(gConn[c].got[1], gConn[c].got[2], gConn[c].got[3], gConn[c].got[4], Verified(c))

Told(c) ==
  gConn[c].pc = "handler" /\ gConn[c].got # <<>> =>
    gConn[c].got[4] \in 0..Len(gLog) /\ AnswerOf(c)

StoreInv ==
  /\ StoreTypes /\ LogBounded /\ OutboxTrue /\ GrantsTrue /\ AuditComplete
  /\ \A c \in GateConns : Told(c)

\* One call more.
LEMMA LogNext ==
  ASSUME gLog \in Seq(Calls), NEW call \in Calls, gLog' = Append(gLog, call)
  PROVE  /\ gLog' \in Seq(Calls) /\ Len(gLog') = Len(gLog) + 1 /\ Len(gLog) \in Nat
         /\ gLog'[Len(gLog) + 1] = call
         /\ \A i \in 1..Len(gLog) : gLog'[i] = gLog[i]
  OBVIOUS

\* The events stored so far stay, and an enqueue adds its own.
LEMMA StoredNext ==
  ASSUME gLog \in Seq(Calls), NEW call \in Calls, gLog' = Append(gLog, call), NEW org
  PROVE  /\ \A n \in 0..Len(gLog) : Stored(org, n)' = Stored(org, n)
         /\ Stored(org, Len(gLog))' = Stored(org, Len(gLog)) \cup
              (IF call[1] = "enqueue" /\ call[2] = org THEN {Len(gLog) + 1} ELSE {})
  <1>1. /\ Len(gLog') = Len(gLog) + 1 /\ Len(gLog) \in Nat
        /\ gLog'[Len(gLog) + 1] = call /\ \A i \in 1..Len(gLog) : gLog'[i] = gLog[i]
    BY LogNext
  <1>2. ASSUME NEW n \in 0..Len(gLog) PROVE Stored(org, n)' = Stored(org, n)
    <2>1. \A i \in 1..n : i \in 1..Len(gLog)
      BY <1>1
    <2> QED
      BY <1>1, <2>1 DEF Stored
  <1>3. PICK n \in Nat : n = Len(gLog)
    BY <1>1
  <1>4. \A i : i \in 1..(n + 1) <=> (i \in 1..n \/ i = n + 1)
    BY <1>3
  <1>5. Stored(org, n + 1)' = Stored(org, n) \cup
          (IF call[1] = "enqueue" /\ call[2] = org THEN {n + 1} ELSE {})
    BY <1>1, <1>3, <1>4 DEF Stored
  <1>6. Stored(org, Len(gLog))' = Stored(org, n + 1)'
    BY <1>1, <1>3 DEF Stored
  <1> QED
    BY <1>2, <1>3, <1>5, <1>6

\* A tenant's consent stays until it is set anew.
LEMMA ConsentedNext ==
  ASSUME gLog \in Seq(Calls), NEW call \in Calls, gLog' = Append(gLog, call),
         NEW org, NEW service
  PROVE  /\ \A n \in 0..Len(gLog) : Consented(org, service, n)' <=> Consented(org, service, n)
         /\ Consented(org, service, Len(gLog))' <=>
              IF call[1] \in {"grant", "revoke"} /\ call[2] = org /\ call[3] = service
              THEN call[1] = "grant" ELSE Consented(org, service, Len(gLog))
  <1>1. /\ Len(gLog') = Len(gLog) + 1 /\ Len(gLog) \in Nat
        /\ gLog'[Len(gLog) + 1] = call /\ \A i \in 1..Len(gLog) : gLog'[i] = gLog[i]
    BY LogNext
  <1>2. ASSUME NEW n \in 0..Len(gLog)
        PROVE  /\ Consents(org, service, n)' = Consents(org, service, n)
               /\ Consented(org, service, n)' <=> Consented(org, service, n)
    <2>1. \A i \in 1..n : i \in 1..Len(gLog)
      BY <1>1
    <2>2. Consents(org, service, n)' = Consents(org, service, n)
      BY <1>1, <2>1 DEF Consents
    <2>3. \A i \in Consents(org, service, n) : gLog'[i] = gLog[i]
      BY <1>1, <2>1 DEF Consents
    <2> QED
      BY <2>2, <2>3 DEF Consented
  <1>3. PICK n \in Nat : n = Len(gLog)
    BY <1>1
  <1>4. \A i : i \in 1..(n + 1) <=> (i \in 1..n \/ i = n + 1)
    BY <1>3
  <1> DEFINE sets == call[1] \in {"grant", "revoke"} /\ call[2] = org /\ call[3] = service
             S == Consents(org, service, n)
             T == Consents(org, service, n + 1)'
  <1>5. T = S \cup (IF sets THEN {n + 1} ELSE {})
    BY <1>1, <1>3, <1>4 DEF Consents
  <1>6. \A i \in S : i \in 1..n /\ gLog'[i] = gLog[i]
    BY <1>1, <1>3 DEF Consents
  <1>7. Consented(org, service, n + 1)' <=>
          \E i \in T : gLog'[i][1] = "grant" /\ \A j \in T : j <= i
    BY DEF Consented
  <1>8. Consented(org, service, n) <=>
          \E i \in S : gLog[i][1] = "grant" /\ \A j \in S : j <= i
    BY DEF Consented
  <1>9. gLog'[n + 1] = call
    BY <1>1, <1>3
  <1> HIDE DEF S, T
  <1>10. CASE sets
    <2>1. T = S \cup {n + 1}
      BY <1>5, <1>10
    <2>2. \A j \in T : j <= n + 1
      BY <1>6, <2>1
    <2>3. \A i \in T : (\A j \in T : j <= i) => i = n + 1
      BY <1>6, <2>1
    <2>4. (\E i \in T : gLog'[i][1] = "grant" /\ \A j \in T : j <= i) <=> call[1] = "grant"
      BY <1>9, <2>1, <2>2, <2>3
    <2> QED
      BY <1>2, <1>1, <1>3, <1>7, <1>10, <2>4
  <1>11. CASE ~sets
    <2>1. T = S
      BY <1>5, <1>11
    <2>2. Consented(org, service, n + 1)' <=> Consented(org, service, n)
      BY <1>6, <1>7, <1>8, <2>1
    <2> QED
      BY <1>2, <1>1, <1>3, <1>11, <2>2
  <1> QED
    BY <1>10, <1>11

\* The tenant a handler finds is one the credential names, or none.
LEMMA HandlerTenant ==
  ASSUME GateInv, NEW c \in GateConns, gConn[c].pc = "handler"
  PROVE  /\ Verified(c) \in Orgs /\ Serving /\ Setup \in Setups
         /\ gConn[c].request[1] \in GateRequests[c]
  <1>1. /\ Serving /\ gConn[c].status = 0 /\ SetupTrue
        /\ \E r \in GateRequests[c] :
             /\ gConn[c].request = <<r>>
             /\ Decision(Setup, r, Len(Setup.gates), gConn[c])
    BY DEF GateInv, ConnDecided
  <1>2. PICK r \in GateRequests[c] :
          /\ gConn[c].request = <<r>> /\ Decision(Setup, r, Len(Setup.gates), gConn[c])
    BY <1>1
  <1>3. gConn[c].ext = Left(Setup, r, Len(Setup.gates))
    BY <1>1, <1>2 DEF Decision, Admitted, Rejected
  <1>4. GateRequestOk(r)
    BY GatesAssumption
  <1>5. Trim[r.org] \in Orgs /\ NoTenant \in Orgs
    BY <1>4 DEF GateRequestOk, Orgs
  <1> DEFINE found == {e \in gConn[c].ext : e[1] = "tenant"}
             org == Trim[r.org]
  <1>6. \A e \in found : e[2] = org
    <2>1. \A e \in gConn[c].ext : e = <<"jwt", r.org>> \/ e = <<"tenant", org>>
      BY <1>3 DEF Left
    <2>2. <<"jwt", r.org>>[1] = "jwt" /\ <<"tenant", org>>[2] = org
      OBVIOUS
    <2> HIDE DEF org
    <2> QED
      BY <2>1, <2>2
  <1>7. Verified(c) = IF found = {} THEN NoTenant ELSE (CHOOSE e \in found : TRUE)[2]
    BY DEF Verified, TenantOf
  <1> HIDE DEF found
  <1>8. found # {} => (CHOOSE e \in found : TRUE) \in found
    OBVIOUS
  <1>9. Verified(c) \in Orgs
    BY <1>5, <1>6, <1>7, <1>8
  <1> QED
    BY <1>1, <1>2, <1>9, ServingSetup

\* What a call told stays true as more calls are made.
LEMMA AnswerKept ==
  ASSUME gLog \in Seq(Calls), NEW call \in Calls, gLog' = Append(gLog, call),
         NEW op, NEW what, NEW result, NEW n \in 0..Len(gLog), NEW org,
         Answered(op, what, result, n, org)
  PROVE  Answered(op, what, result, n, org)'
  <1>1. Stored(org, n)' = Stored(org, n)
    BY StoredNext
  <1>2. Consented(org, what, n)' <=> Consented(org, what, n)
    BY ConsentedNext
  <1>3. Lists(result, org, n)' <=> Lists(result, org, n)
    BY <1>1 DEF Lists
  <1> HIDE DEF NoTenant
  <1> QED
    BY <1>2, <1>3 DEF Answered

\* A handler that was told truly was told of its own.
LEMMA AnswersAreOwn ==
  ASSUME NEW c, AnswerOf(c) PROVE ToldOwn(c)
  <1> DEFINE op == gConn[c].got[1]
             what == gConn[c].got[2]
             result == gConn[c].got[3]
             n == gConn[c].got[4]
             org == Verified(c)
  <1>1. Answered(op, what, result, n, org)
    BY DEF AnswerOf
  <1>2. ToldOwn(c) <=>
          /\ op = "list" =>
              /\ {result[i][2] : i \in DOMAIN result}
                   = (IF org = NoTenant THEN {} ELSE Stored(org, n))
              /\ \A i, j \in DOMAIN result : i < j => result[i][2] < result[j][2]
          /\ op = "granted" => result[1] = (org # NoTenant /\ Consented(org, what, n))
    BY DEF ToldOwn
  <1> HIDE DEF op, what, result, n, org
  <1>3. CASE op = "list" /\ org = NoTenant
    <2>1. result = <<>>
      BY <1>1, <1>3 DEF Answered
    <2>2. DOMAIN result = {}
      BY <2>1
    <2>3. {result[i][2] : i \in DOMAIN result} = {}
      BY <2>2
    <2> QED
      BY <1>2, <1>3, <2>2, <2>3
  <1>4. CASE op = "list" /\ org # NoTenant
    <2>1. Lists(result, org, n)
      BY <1>1, <1>4 DEF Answered
    <2> QED
      BY <1>2, <1>4, <2>1 DEF Lists
  <1>5. CASE op # "list"
    BY <1>1, <1>2, <1>5 DEF Answered
  <1> QED
    BY <1>3, <1>4, <1>5

\* What a call of the stores, whichever it is, does to the log and to what
\* the handlers were told.
LEMMA StoreCallKeeps ==
  ASSUME GateInv, StoreInv, NEW c \in GateConns, NEW op \in Ops, NEW what \in Whats,
         NEW result, NEW org, org = Verified(c), StoreCall(c, op, what, result),
         Answered(op, what, result, Len(gLog), org)
  PROVE  /\ org \in Orgs /\ <<op, org, what>> \in Calls
         /\ gLog' = Append(gLog, <<op, org, what>>)
         /\ gLog' \in Seq(Calls) /\ LogBounded'
         /\ \A d \in GateConns : Told(d)'
  <1>1. /\ gConn[c].pc = "handler" /\ Len(gLog) < MaxStoreCalls[Setup.gates]
        /\ gLog' = Append(gLog, <<op, org, what>>)
        /\ gConn' = [gConn EXCEPT ![c].got = <<op, what, result, Len(gLog)>>]
        /\ gSetup' = gSetup
    BY DEF StoreCall
  <1>2. org \in Orgs /\ Serving /\ Setup \in Setups
    BY <1>1, HandlerTenant
  <1>3. <<op, org, what>> \in Calls
    BY <1>2 DEF Calls
  <1>4. gLog \in Seq(Calls)
    BY DEF StoreInv, StoreTypes
  <1> DEFINE call == <<op, org, what>>
  <1> HIDE DEF call
  <1>5. call \in Calls /\ gLog' = Append(gLog, call)
    BY <1>1, <1>3 DEF call
  <1>6. /\ gLog' \in Seq(Calls) /\ Len(gLog') = Len(gLog) + 1 /\ Len(gLog) \in Nat
    BY <1>4, <1>5, LogNext
  <1>7. LogBounded'
    <2>1. Serving' /\ Setup' = Setup
      BY <1>1, <1>2 DEF Serving, Setup
    <2>2. MaxStoreCalls[Setup.gates] \in Nat
      BY <1>2, GatesAssumption DEF SetupOk
    <2>3. Len(gLog') <= MaxStoreCalls[Setup.gates]
      BY <1>1, <1>6, <2>2
    <2> QED
      BY <2>1, <2>3 DEF LogBounded
  <1>8. DOMAIN gConn = GateConns /\ DOMAIN gConn[c] = ConnFields
    BY DEF GateInv, ConnShape
  <1>9. ASSUME NEW d \in GateConns, d # c PROVE Told(d)'
    <2>1. gConn'[d] = gConn[d] /\ Told(d)
      BY <1>1, <1>8, <1>9 DEF StoreInv
    <2>2. SUFFICES ASSUME gConn[d].pc = "handler", gConn[d].got # <<>>
                   PROVE  gConn'[d].got[4] \in 0..Len(gLog') /\ AnswerOf(d)'
      BY <2>1 DEF Told
    <2>3. PICK n : n = gConn[d].got[4]
      OBVIOUS
    <2>4. PICK v : v = gConn[d].got
      OBVIOUS
    <2>5. PICK own : own = Verified(d)
      OBVIOUS
    <2>6. n \in 0..Len(gLog) /\ Answered(v[1], v[2], v[3], n, own)
      BY <2>1, <2>2, <2>3, <2>4, <2>5 DEF Told, AnswerOf
    <2>7. Answered(v[1], v[2], v[3], n, own)'
      BY <1>4, <1>5, <2>6, AnswerKept
    <2>8. Verified(d)' = own /\ gConn'[d].got = v /\ v[4] = n
      BY <2>1, <2>3, <2>4, <2>5 DEF Verified
    <2>9. AnswerOf(d)'
      BY <2>7, <2>8 DEF AnswerOf
    <2>10. n \in 0..Len(gLog')
      BY <1>6, <2>6
    <2> QED
      BY <2>8, <2>9, <2>10
  <1>10. Told(c)'
    <2>1. PICK n \in Nat : n = Len(gLog)
      BY <1>6
    <2>2. n \in 0..Len(gLog)
      BY <2>1
    <2>3. Answered(op, what, result, n, org)'
      BY <1>4, <1>5, <2>1, <2>2, AnswerKept
    <2>4. gConn'[c].got = <<op, what, result, n>> /\ gConn'[c].ext = gConn[c].ext
      BY <1>1, <1>8, <2>1 DEF ConnFields
    <2>5. Verified(c)' = org
      BY <2>4 DEF Verified
    <2>6. AnswerOf(c)'
      BY ONLY <2>3, <2>4, <2>5 DEF AnswerOf
    <2>7. gConn'[c].got[4] \in 0..Len(gLog')
      BY <1>6, <2>1, <2>4
    <2> QED
      BY <2>6, <2>7 DEF Told
  <1>11. \A d \in GateConns : Told(d)'
    BY <1>9, <1>10
  <1> QED
    BY <1>1, <1>2, <1>3, <1>6, <1>7, <1>11

\* What a call leaves of the stores it does not write.
LEMMA OutboxKept ==
  ASSUME StoreInv, NEW call \in Calls, gLog' = Append(gLog, call),
         gOutbox' = gOutbox, call[1] # "enqueue"
  PROVE  OutboxTrue'
  <1> SUFFICES ASSUME NEW org \in Orgs
               PROVE  Lists(Select(gOutbox, {org} \X Nat), org, Len(gLog))'
    BY DEF OutboxTrue
  <1>1. Lists(Select(gOutbox, {org} \X Nat), org, Len(gLog)) /\ gLog \in Seq(Calls)
    BY DEF StoreInv, OutboxTrue, StoreTypes
  <1>2. Stored(org, Len(gLog))' = Stored(org, Len(gLog))
    BY <1>1, StoredNext
  <1>3. PICK e : e = Select(gOutbox, {org} \X Nat)
    OBVIOUS
  <1>4. Select(gOutbox, {org} \X Nat)' = e
    BY <1>3
  <1>5. Lists(e, org, Len(gLog))
    BY <1>1, <1>3
  <1>6. Lists(e, org, Len(gLog))'
    BY <1>2, <1>5 DEF Lists
  <1> QED
    BY <1>4, <1>6 DEF Lists

LEMMA GrantsKept ==
  ASSUME StoreInv, NEW call \in Calls, gLog' = Append(gLog, call),
         gGrants' = gGrants, call[1] \notin {"grant", "revoke"}
  PROVE  GrantsTrue'
  <1> SUFFICES ASSUME NEW org \in Orgs, NEW s \in Services
               PROVE  (<<org, s, TRUE>> \in gGrants <=> Consented(org, s, Len(gLog)))'
    BY DEF GrantsTrue
  <1>1. (<<org, s, TRUE>> \in gGrants <=> Consented(org, s, Len(gLog))) /\ gLog \in Seq(Calls)
    BY DEF StoreInv, GrantsTrue, StoreTypes
  <1>2. Consented(org, s, Len(gLog))' <=> Consented(org, s, Len(gLog))
    BY <1>1, ConsentedNext
  <1> QED
    BY <1>1, <1>2

LEMMA AuditKept ==
  ASSUME StoreInv, NEW call \in Calls, gLog' = Append(gLog, call),
         gAudit' = gAudit, call \notin Attempts
  PROVE  AuditComplete'
  <1>1. AuditComplete /\ gLog \in Seq(Calls)
    BY DEF StoreInv, StoreTypes
  <1>2. Select(gLog', Attempts) = Select(gLog, Attempts)
    BY <1>1, SelectAppend
  <1> QED
    BY <1>1, <1>2 DEF AuditComplete

\* Only a lookup is an attempt.
LEMMA OnlyLookups ==
  ASSUME NEW op, NEW org, NEW what, op # "lookup"
  PROVE  <<op, org, what>> \notin Attempts
  BY DEF Attempts

\* OutboxStore::enqueue adds one event to those of its tenant.
LEMMA ListsNext ==
  ASSUME NEW T, NEW e \in Seq(T), NEW n \in Nat, NEW org, NEW S, S \subseteq 1..n,
         {e[i][2] : i \in DOMAIN e} = S,
         \A i, j \in DOMAIN e : i < j => e[i][2] < e[j][2]
  PROVE  LET f == Append(e, <<org, n + 1>>)
         IN /\ {f[i][2] : i \in DOMAIN f} = S \cup {n + 1}
            /\ \A i, j \in DOMAIN f : i < j => f[i][2] < f[j][2]
  <1> DEFINE f == Append(e, <<org, n + 1>>)
             m == Len(e)
  <1>1. /\ m \in Nat /\ DOMAIN e = 1..m /\ DOMAIN f = 1..(m + 1)
        /\ \A i \in 1..m : f[i] = e[i]
        /\ f[m + 1] = <<org, n + 1>>
    OBVIOUS
  <1>2. f[m + 1][2] = n + 1
    BY <1>1
  <1> HIDE DEF f, m
  <1>3. \A i : i \in 1..(m + 1) <=> (i \in 1..m \/ i = m + 1)
    BY <1>1
  <1>4. \A i \in 1..m : e[i][2] \in S /\ e[i][2] \in 1..n
    BY <1>1
  <1>5. {f[i][2] : i \in DOMAIN f} = S \cup {n + 1}
    <2>1. \A x \in {f[i][2] : i \in 1..(m + 1)} : x \in S \/ x = n + 1
      BY <1>1, <1>2, <1>3, <1>4
    <2>2. n + 1 \in {f[i][2] : i \in 1..(m + 1)}
      BY <1>2, <1>3
    <2>3. ASSUME NEW x \in S PROVE x \in {f[i][2] : i \in 1..(m + 1)}
      <3>1. PICK i \in 1..m : e[i][2] = x
        BY <1>1
      <3>2. f[i][2] = x /\ i \in 1..(m + 1)
        BY <1>1, <1>3, <3>1
      <3> QED
        BY <3>2
    <2> QED
      BY <1>1, <2>1, <2>2, <2>3
  <1>6. ASSUME NEW i \in 1..(m + 1), NEW j \in 1..(m + 1), i < j
        PROVE  f[i][2] < f[j][2]
    <2>1. i \in 1..m
      BY <1>1, <1>6
    <2>2. f[i][2] = e[i][2] /\ e[i][2] \in 1..n
      BY <1>1, <1>4, <2>1
    <2>3. CASE j = m + 1
      BY <1>2, <2>2, <2>3
    <2>4. CASE j # m + 1
      <3>1. j \in 1..m
        BY <1>3, <2>4
      <3> QED
        BY <1>1, <1>6, <2>1, <2>2, <3>1
    <2> QED
      BY <2>3, <2>4
  <1> QED
    BY <1>1, <1>5, <1>6 DEF f

LEMMA EnqueueKeeps ==
  ASSUME GateInv, StoreInv, NEW c \in GateConns, Enqueue(c)
  PROVE  StoreInv'
  <1>1. PICK org : org = Verified(c)
    OBVIOUS
  <1>2. /\ StoreCall(c, "enqueue", "event", <<>>)
        /\ gOutbox' = Append(gOutbox, <<org, Len(gLog) + 1>>)
        /\ gGrants' = gGrants /\ gAudit' = gAudit
    BY <1>1 DEF Enqueue
  <1>3. "enqueue" \in Ops /\ "event" \in Whats
    BY DEF Ops, Whats
  <1>4. Answered("enqueue", "event", <<>>, Len(gLog), org)
    BY DEF Answered
  <1> DEFINE call == <<"enqueue", org, "event">>
  <1>5. /\ org \in Orgs /\ call \in Calls /\ gLog' = Append(gLog, call)
        /\ gLog' \in Seq(Calls) /\ LogBounded' /\ \A d \in GateConns : Told(d)'
    BY <1>1, <1>2, <1>3, <1>4, StoreCallKeeps
  <1>6. call[1] = "enqueue" /\ call[2] = org /\ call \notin Attempts
    BY OnlyLookups
  <1> HIDE DEF call
  <1>7. StoreTypes /\ gLog \in Seq(Calls) /\ gOutbox \in Seq(Orgs \X Nat) /\ OutboxTrue
    BY DEF StoreInv, StoreTypes
  <1>8. PICK n \in Nat : n = Len(gLog)
    BY <1>7
  <1>9. Len(gLog') = n + 1
    BY <1>5, <1>7, <1>8
  <1>10. gOutbox' \in Seq(Orgs \X Nat)
    <2>1. <<org, n + 1>> \in Orgs \X Nat
      BY <1>5, <1>8
    <2> QED
      BY <1>2, <1>7, <1>8, <2>1
  <1>11. OutboxTrue'
    <2> SUFFICES ASSUME NEW own \in Orgs
                 PROVE  Lists(Select(gOutbox, {own} \X Nat), own, Len(gLog))'
      BY DEF OutboxTrue
    <2> DEFINE S == {own} \X Nat
    <2>1. PICK e : e = Select(gOutbox, S)
      OBVIOUS
    <2>2. Lists(e, own, n)
      BY <1>7, <1>8, <2>1 DEF OutboxTrue
    <2>3. Select(gOutbox', S) = IF org = own THEN Append(e, <<org, n + 1>>) ELSE e
      <3>1. PICK event : event = <<org, n + 1>>
        OBVIOUS
      <3>2. gOutbox' = Append(gOutbox, event)
        BY <1>2, <1>8, <3>1
      <3>3. event \in S <=> org = own
        BY <1>8, <3>1
      <3> HIDE DEF S
      <3>4. Select(Append(gOutbox, event), S)
              = IF event \in S THEN Append(e, event) ELSE e
        <4>1. PICK T : gOutbox \in Seq(T)
          BY <1>7
        <4> QED
          BY <2>1, <4>1, SelectAppend
      <3> QED
        BY <3>1, <3>2, <3>3, <3>4
    <2>4. Stored(own, n + 1)' = Stored(own, n) \cup (IF org = own THEN {n + 1} ELSE {})
      <3>1. Stored(own, Len(gLog))' = Stored(own, Len(gLog)) \cup
              (IF call[1] = "enqueue" /\ call[2] = own THEN {Len(gLog) + 1} ELSE {})
        BY <1>5, <1>7, StoredNext
      <3>2. Stored(own, Len(gLog))' = Stored(own, n + 1)'
        BY <1>9 DEF Stored
      <3> QED
        BY <1>6, <1>8, <3>1, <3>2
    <2>5. CASE org = own
      <3>1. Select(gOutbox', S) = Append(e, <<org, n + 1>>)
        BY <2>3, <2>5
      <3>2. e \in Seq((Orgs \X Nat) \cap S)
        BY <1>7, <2>1, SelectType
      <3>3. Stored(own, n) \subseteq 1..n
        BY DEF Stored
      <3> DEFINE f == Append(e, <<org, n + 1>>)
      <3>4. /\ {f[i][2] : i \in DOMAIN f} = Stored(own, n) \cup {n + 1}
            /\ \A i, j \in DOMAIN f : i < j => f[i][2] < f[j][2]
        BY <2>2, <3>2, <3>3, ListsNext DEF Lists
      <3>5. Select(gOutbox', S) = f
        BY <3>1
      <3> HIDE DEF f
      <3>6. Lists(f, own, n + 1)'
        BY <2>4, <2>5, <3>4 DEF Lists, f
      <3> QED
        BY <1>9, <3>5, <3>6 DEF Lists, f
    <2>6. CASE org # own
      <3>1. Select(gOutbox', S) = e
        BY <2>3, <2>6
      <3>2. Lists(e, own, n + 1)'
        BY <2>2, <2>4, <2>6 DEF Lists
      <3> QED
        BY <1>9, <3>1, <3>2 DEF Lists
    <2> QED
      BY <2>5, <2>6
  <1>12. GrantsTrue' /\ AuditComplete'
    BY <1>2, <1>5, <1>6, GrantsKept, AuditKept
  <1>13. StoreTypes'
    BY <1>2, <1>5, <1>7, <1>10 DEF StoreTypes
  <1> QED
    BY <1>5, <1>11, <1>12, <1>13 DEF StoreInv

\* OutboxStore::list_for_org.
LEMMA ListKeeps ==
  ASSUME GateInv, StoreInv, NEW c \in GateConns, ListForOrg(c)
  PROVE  StoreInv'
  <1>1. PICK org : org = Verified(c)
    OBVIOUS
  <1>2. PICK result :
          result = IF org = NoTenant THEN <<>> ELSE Select(gOutbox, {org} \X Nat)
    OBVIOUS
  <1>3. /\ StoreCall(c, "list", "event", result)
        /\ gOutbox' = gOutbox /\ gGrants' = gGrants /\ gAudit' = gAudit
    BY <1>1, <1>2 DEF ListForOrg
  <1>4. "list" \in Ops /\ "event" \in Whats
    BY DEF Ops, Whats
  <1>5. org \in Orgs
    BY <1>1, <1>3, HandlerTenant DEF StoreCall
  <1>6. Lists(Select(gOutbox, {org} \X Nat), org, Len(gLog))
    BY <1>5 DEF StoreInv, OutboxTrue
  <1>7. Answered("list", "event", result, Len(gLog), org)
    BY <1>2, <1>6 DEF Answered
  <1> DEFINE call == <<"list", org, "event">>
  <1>8. /\ call \in Calls /\ gLog' = Append(gLog, call)
        /\ gLog' \in Seq(Calls) /\ LogBounded' /\ \A d \in GateConns : Told(d)'
    BY <1>1, <1>3, <1>4, <1>7, StoreCallKeeps
  <1>9. call[1] = "list" /\ call \notin Attempts
    BY OnlyLookups
  <1> HIDE DEF call
  <1>10. OutboxTrue' /\ GrantsTrue' /\ AuditComplete'
    BY <1>3, <1>8, <1>9, OutboxKept, GrantsKept, AuditKept
  <1>11. StoreTypes'
    BY <1>3, <1>8 DEF StoreInv, StoreTypes
  <1> QED
    BY <1>8, <1>10, <1>11 DEF StoreInv

\* ConsentStore::grant and revoke set the consent of one tenant for one
\* service.
LEMMA SetGrantKeeps ==
  ASSUME GateInv, StoreInv, NEW c \in GateConns, NEW service \in Services,
         NEW op \in {"grant", "revoke"}, NEW b \in BOOLEAN, b <=> op = "grant",
         StoreCall(c, op, service, <<>>),
         gGrants' = SetGrant(<<Verified(c), service>>, b),
         gOutbox' = gOutbox, gAudit' = gAudit
  PROVE  StoreInv'
  <1>1. PICK org : org = Verified(c)
    OBVIOUS
  <1>2. op \in Ops /\ service \in Whats
    BY DEF Ops, Whats
  <1>3. Answered(op, service, <<>>, Len(gLog), org)
    BY DEF Answered
  <1> DEFINE call == <<op, org, service>>
  <1>4. /\ org \in Orgs /\ call \in Calls /\ gLog' = Append(gLog, call)
        /\ gLog' \in Seq(Calls) /\ LogBounded' /\ \A d \in GateConns : Told(d)'
    BY <1>1, <1>2, <1>3, StoreCallKeeps
  <1>5. call[1] = op /\ call[2] = org /\ call[3] = service /\ call \notin Attempts
    BY OnlyLookups
  <1> HIDE DEF call
  <1>6. gGrants' = {g \in gGrants : <<g[1], g[2]>> # <<org, service>>}
                   \cup {<<org, service, b>>}
    BY <1>1 DEF SetGrant
  <1>7. gGrants \subseteq Orgs \X Services \X BOOLEAN /\ gLog \in Seq(Calls)
    BY DEF StoreInv, StoreTypes
  <1>8. gGrants' \subseteq Orgs \X Services \X BOOLEAN
    BY <1>4, <1>6, <1>7
  <1>9. GrantsTrue'
    <2> SUFFICES ASSUME NEW own \in Orgs, NEW s \in Services
                 PROVE  (<<own, s, TRUE>> \in gGrants <=> Consented(own, s, Len(gLog)))'
      BY DEF GrantsTrue
    <2>1. Consented(own, s, Len(gLog))' <=>
            IF op \in {"grant", "revoke"} /\ org = own /\ service = s
            THEN op = "grant" ELSE Consented(own, s, Len(gLog))
      BY <1>4, <1>5, <1>7, ConsentedNext
    <2>2. <<own, s, TRUE>> \in gGrants <=> Consented(own, s, Len(gLog))
      BY DEF StoreInv, GrantsTrue
    <2>3. CASE org = own /\ service = s
      <3>1. <<own, s, TRUE>> \in gGrants' <=> b
        BY <1>6, <2>3
      <3> QED
        BY <2>1, <2>3, <3>1
    <2>4. CASE ~(org = own /\ service = s)
      <3>1. <<own, s, TRUE>> \in gGrants' <=> <<own, s, TRUE>> \in gGrants
        BY <1>6, <2>4
      <3> QED
        BY <2>1, <2>2, <2>4, <3>1
    <2> QED
      BY <2>3, <2>4
  <1>10. OutboxTrue' /\ AuditComplete'
    BY <1>4, <1>5, OutboxKept, AuditKept
  <1>11. StoreTypes'
    BY <1>4, <1>8 DEF StoreInv, StoreTypes
  <1> QED
    BY <1>4, <1>9, <1>10, <1>11 DEF StoreInv

\* ConsentStore::is_granted.
LEMMA GrantedKeeps ==
  ASSUME GateInv, StoreInv, NEW c \in GateConns, NEW service \in Services,
         IsGranted(c, service)
  PROVE  StoreInv'
  <1>1. PICK org : org = Verified(c)
    OBVIOUS
  <1>2. PICK result : result = <<org # NoTenant /\ <<org, service, TRUE>> \in gGrants>>
    OBVIOUS
  <1>3. /\ StoreCall(c, "granted", service, result)
        /\ gOutbox' = gOutbox /\ gGrants' = gGrants /\ gAudit' = gAudit
    BY <1>1, <1>2 DEF IsGranted
  <1>4. "granted" \in Ops /\ service \in Whats
    BY DEF Ops, Whats
  <1>5. org \in Orgs
    BY <1>1, <1>3, HandlerTenant DEF StoreCall
  <1>6. <<org, service, TRUE>> \in gGrants <=> Consented(org, service, Len(gLog))
    BY <1>5 DEF StoreInv, GrantsTrue
  <1>7. result[1] = (org # NoTenant /\ Consented(org, service, Len(gLog)))
    BY <1>2, <1>6
  <1>8. Answered("granted", service, result, Len(gLog), org)
    BY <1>7 DEF Answered
  <1> DEFINE call == <<"granted", org, service>>
  <1>9. /\ call \in Calls /\ gLog' = Append(gLog, call)
        /\ gLog' \in Seq(Calls) /\ LogBounded' /\ \A d \in GateConns : Told(d)'
    BY <1>1, <1>3, <1>4, <1>8, StoreCallKeeps
  <1>10. call[1] = "granted" /\ call \notin Attempts
    BY OnlyLookups
  <1> HIDE DEF call
  <1>11. OutboxTrue' /\ GrantsTrue' /\ AuditComplete'
    BY <1>3, <1>9, <1>10, OutboxKept, GrantsKept, AuditKept
  <1>12. StoreTypes'
    BY <1>3, <1>9 DEF StoreInv, StoreTypes
  <1> QED
    BY <1>9, <1>11, <1>12 DEF StoreInv

\* TenantLookupOutcome::resolve: what is an attempt on another's record is
\* recorded.
LEMMA ResolveKeeps ==
  ASSUME GateInv, StoreInv, NEW c \in GateConns, NEW item \in Records, Resolve(c, item)
  PROVE  StoreInv'
  <1>1. PICK org : org = Verified(c)
    OBVIOUS
  <1> DEFINE found == item \in DOMAIN Owner /\ Owner[item] = org
             cross == item \in DOMAIN Owner /\ ~found
  <1>2. PICK path : path = gConn[c].request[1].path
    OBVIOUS
  <1>3. /\ StoreCall(c, "lookup", item, <<found>>)
        /\ gAudit' = IF cross THEN Append(gAudit, <<org, path>>) ELSE gAudit
        /\ gOutbox' = gOutbox /\ gGrants' = gGrants
    BY <1>1, <1>2 DEF Resolve
  <1>4. "lookup" \in Ops /\ item \in Whats
    BY DEF Ops, Whats
  <1>5. Answered("lookup", item, <<found>>, Len(gLog), org)
    BY DEF Answered
  <1> DEFINE call == <<"lookup", org, item>>
  <1>6. /\ org \in Orgs /\ call \in Calls /\ gLog' = Append(gLog, call)
        /\ gLog' \in Seq(Calls) /\ LogBounded' /\ \A d \in GateConns : Told(d)'
    BY <1>1, <1>3, <1>4, <1>5, StoreCallKeeps
  <1>7. call[1] = "lookup" /\ call[2] = org /\ (call \in Attempts <=> cross)
    BY <1>6 DEF Attempts
  <1> HIDE DEF call, found, cross
  <1>8. OutboxTrue' /\ GrantsTrue'
    BY <1>3, <1>6, <1>7, OutboxKept, GrantsKept
  <1>9. gAudit \in Seq(Trails) /\ gLog \in Seq(Calls) /\ AuditComplete
    BY DEF StoreInv, StoreTypes
  <1>10. CASE ~cross
    <2>1. AuditComplete' /\ gAudit' = gAudit
      BY <1>3, <1>6, <1>7, <1>10, AuditKept
    <2>2. StoreTypes'
      BY <1>3, <1>6, <2>1 DEF StoreInv, StoreTypes
    <2> QED
      BY <1>6, <1>8, <2>1, <2>2 DEF StoreInv
  <1>11. CASE cross
    <2>1. <<org, path>> \in Trails
      <3>1. gConn[c].request[1] \in GateRequests[c]
        BY <1>3, HandlerTenant DEF StoreCall
      <3>2. path \in {r.path : r \in UNION {GateRequests[d] : d \in GateConns}}
        BY <1>2, <3>1
      <3> QED
        BY <1>6, <3>2 DEF Trails
    <2>2. PICK trail : trail = <<org, path>>
      OBVIOUS
    <2>3. gAudit' = Append(gAudit, trail) /\ trail \in Trails /\ trail[1] = org
      BY <1>3, <1>11, <2>1, <2>2
    <2>4. PICK s : s = Select(gLog, Attempts)
      OBVIOUS
    <2>5. Select(gLog', Attempts) = Append(s, call)
      <3>1. Select(Append(gLog, call), Attempts)
              = IF call \in Attempts THEN Append(s, call) ELSE s
        <4>1. gLog \in Seq(Calls)
          BY <1>9
        <4>2. PICK e : e = call
          OBVIOUS
        <4>3. Select(Append(gLog, e), Attempts)
                = IF e \in Attempts THEN Append(Select(gLog, Attempts), e)
                  ELSE Select(gLog, Attempts)
          BY ONLY <4>1, SelectAppend
        <4> QED
          BY <2>4, <4>2, <4>3
      <3>2. call \in Attempts
        BY <1>7, <1>11
      <3> QED
        BY <1>6, <3>1, <3>2
    <2>6. s \in Seq(Calls \cap Attempts)
      BY <1>9, <2>4, SelectType
    <2>7. Len(gAudit) = Len(s) /\ \A i \in DOMAIN gAudit : gAudit[i][1] = s[i][2]
      BY <1>9, <2>4 DEF AuditComplete
    <2>8. PICK n \in Nat : n = Len(gAudit)
      BY <1>9
    <2>9. /\ Len(gAudit') = n + 1 /\ DOMAIN gAudit' = 1..(n + 1) /\ DOMAIN gAudit = 1..n
          /\ gAudit'[n + 1] = trail /\ \A i \in 1..n : gAudit'[i] = gAudit[i]
      BY <1>9, <2>3, <2>8
    <2> DEFINE t == Append(s, call)
    <2>10. Len(t) = n + 1 /\ t[n + 1] = call /\ \A i \in 1..n : t[i] = s[i]
      BY <2>6, <2>7, <2>8
    <2> HIDE DEF t
    <2>11. \A i \in 1..(n + 1) : gAudit'[i][1] = t[i][2]
      <3>1. \A i \in 1..(n + 1) : i \in 1..n \/ i = n + 1
        BY <2>8
      <3> QED
        BY <1>7, <2>3, <2>7, <2>9, <2>10, <3>1
    <2>12. AuditComplete'
      <3>1. Select(gLog', Attempts) = t
        BY <2>5 DEF t
      <3> QED
        BY <2>9, <2>10, <2>11, <3>1 DEF AuditComplete
    <2>13. gAudit' \in Seq(Trails)
      BY <1>9, <2>3
    <2>14. StoreTypes'
      BY <1>3, <1>6, <2>13 DEF StoreInv, StoreTypes
    <2> QED
      BY <1>6, <1>8, <2>12, <2>14 DEF StoreInv
  <1> QED
    BY <1>10, <1>11

\* What the log says of a tenant does not change while it is left alone.
LEMMA LogKept ==
  ASSUME gLog' = gLog, NEW e, NEW org, NEW what, NEW n
  PROVE  /\ Lists(e, org, n)' <=> Lists(e, org, n)
         /\ Consented(org, what, n)' <=> Consented(org, what, n)
  <1>1. Stored(org, n)' = Stored(org, n)
    BY DEF Stored
  <1>2. Consents(org, what, n)' = Consents(org, what, n)
    BY DEF Consents
  <1>3. PICK S : S = Stored(org, n)
    OBVIOUS
  <1>4. Lists(e, org, n)' <=> Lists(e, org, n)
    BY ONLY <1>1, <1>3 DEF Lists
  <1>5. Consented(org, what, n)' <=> Consented(org, what, n)
    BY ONLY <1>2, gLog' = gLog DEF Consented
  <1> QED
    BY <1>4, <1>5

\* A step that leaves the stores alone, and what the handlers that go on
\* were told.
LEMMA StoresKept ==
  ASSUME StoreInv, gOutbox' = gOutbox, gGrants' = gGrants, gAudit' = gAudit, gLog' = gLog,
         gSetup' = gSetup \/ gSetup = <<>>,
         \A d \in GateConns : \/ gConn'[d] = gConn[d] \/ gConn'[d].pc # "handler"
                              \/ gConn'[d].got = <<>>
  PROVE  StoreInv'
  <1>1. StoreTypes' /\ AuditComplete'
    BY DEF StoreInv, StoreTypes, AuditComplete
  <1>2. LogBounded'
    BY DEF StoreInv, LogBounded, Serving, Setup
  <1>3. OutboxTrue'
    <2> SUFFICES ASSUME NEW org \in Orgs
                 PROVE  Lists(Select(gOutbox, {org} \X Nat), org, Len(gLog))'
      BY DEF OutboxTrue
    <2>1. Lists(Select(gOutbox, {org} \X Nat), org, Len(gLog))
      BY DEF StoreInv, OutboxTrue
    <2>2. PICK e : e = Select(gOutbox, {org} \X Nat)
      OBVIOUS
    <2>3. Select(gOutbox, {org} \X Nat)' = e
      BY <2>2
    <2>4. PICK n : n = Len(gLog)
      OBVIOUS
    <2>5. Lists(e, org, n)
      BY ONLY <2>1, <2>2, <2>4
    <2>6. Lists(e, org, n)'
      BY <2>5, LogKept
    <2>7. Len(gLog)' = n
      BY ONLY <2>4, gLog' = gLog
    <2> QED
      BY ONLY <2>3, <2>6, <2>7
  <1>4. GrantsTrue'
    <2> SUFFICES ASSUME NEW org \in Orgs, NEW s \in Services
                 PROVE  (<<org, s, TRUE>> \in gGrants <=> Consented(org, s, Len(gLog)))'
      BY DEF GrantsTrue
    <2>1. <<org, s, TRUE>> \in gGrants <=> Consented(org, s, Len(gLog))
      BY DEF StoreInv, GrantsTrue
    <2>2. Consented(org, s, Len(gLog))' <=> Consented(org, s, Len(gLog))
      <3>1. PICK n : n = Len(gLog)
        OBVIOUS
      <3>2. Consented(org, s, n)' <=> Consented(org, s, n)
        BY LogKept
      <3>3. Len(gLog)' = n
        BY ONLY <3>1, gLog' = gLog
      <3> QED
        BY ONLY <3>1, <3>2, <3>3
    <2> QED
      BY ONLY <2>1, <2>2, gGrants' = gGrants
  <1>5. ASSUME NEW d \in GateConns PROVE Told(d)'
    <2>1. CASE gConn'[d] = gConn[d]
      <3>1. Told(d) /\ Verified(d)' = Verified(d)
        BY <2>1 DEF StoreInv, Verified
      <3>2. ASSUME gConn[d].pc = "handler", gConn[d].got # <<>> PROVE AnswerOf(d)'
        <4>1. AnswerOf(d)
          BY <3>1, <3>2 DEF Told
        <4>2. PICK g : g = gConn[d].got
          OBVIOUS
        <4>3. PICK org : org = Verified(d)
          OBVIOUS
        <4>4. Answered(g[1], g[2], g[3], g[4], org)
          BY ONLY <4>1, <4>2, <4>3 DEF AnswerOf
        <4>5. Answered(g[1], g[2], g[3], g[4], org)'
          BY <4>4, LogKept DEF Answered
        <4>6. gConn'[d].got = g /\ Verified(d)' = org
          BY ONLY <2>1, <3>1, <4>2, <4>3
        <4> QED
          BY ONLY <4>5, <4>6 DEF AnswerOf
      <3> QED
        BY <2>1, <3>1, <3>2 DEF Told
    <2>2. CASE gConn'[d].pc # "handler" \/ gConn'[d].got = <<>>
      BY <2>2 DEF Told
    <2> QED
      BY <2>1, <2>2
  <1> QED
    BY <1>1, <1>2, <1>3, <1>4, <1>5 DEF StoreInv

\* The stores are empty at first.
LEMMA StoresStart ==
  GatesInit => StoreInv
  <1> SUFFICES ASSUME GatesInit PROVE StoreInv
    OBVIOUS
  <1>1. gLog = <<>> /\ gOutbox = <<>> /\ gGrants = {} /\ gAudit = <<>> /\ Len(gLog) = 0
    BY DEF GatesInit
  <1>2. <<>> \in Seq(Calls) /\ <<>> \in Seq(Orgs \X Nat) /\ <<>> \in Seq(Trails)
    OBVIOUS
  <1>3. StoreTypes /\ LogBounded
    BY <1>1, <1>2 DEF StoreTypes, LogBounded
  <1>4. \A org : Stored(org, Len(gLog)) = {}
    BY <1>1 DEF Stored
  <1>5. OutboxTrue
    <2> SUFFICES ASSUME NEW org \in Orgs
                 PROVE  Lists(Select(gOutbox, {org} \X Nat), org, Len(gLog))
      BY DEF OutboxTrue
    <2>1. Select(gOutbox, {org} \X Nat) = <<>>
      BY <1>1, SelectEmpty
    <2>2. DOMAIN <<>> = {}
      OBVIOUS
    <2> QED
      BY <1>4, <2>1, <2>2 DEF Lists
  <1>6. GrantsTrue
    BY <1>1 DEF GrantsTrue, Consented, Consents
  <1>7. AuditComplete
    <2>1. Select(gLog, Attempts) = <<>>
      BY <1>1, SelectEmpty
    <2> QED
      BY <1>1, <2>1 DEF AuditComplete
  <1>8. \A c \in GateConns : Told(c)
    BY DEF GatesInit, Told
  <1> QED
    BY <1>3, <1>5, <1>6, <1>7, <1>8 DEF StoreInv

\* Every step keeps the invariant of the stores.
LEMMA StoresStep ==
  ASSUME GateInv, StoreInv, [GatesNext]_gVars
  PROVE  StoreInv'
  <1>1. CASE UNCHANGED gVars
    BY <1>1, StoresKept DEF gVars
  <1>2. CASE \E setup \in Setups : Configure(setup)
    BY <1>2, StoresKept DEF Configure, gStores
  <1>3. ASSUME NEW c \in GateConns, NEW r \in GateRequests[c], Evaluate(c, r)
        PROVE  StoreInv'
    <2>1. DOMAIN gConn = GateConns
      BY DEF GateInv
    <2>2. gConn'[c].got = <<>> /\ \A d \in GateConns : d # c => gConn'[d] = gConn[d]
      BY <1>3, <2>1 DEF Evaluate
    <2>3. /\ gSetup' = gSetup /\ gOutbox' = gOutbox /\ gGrants' = gGrants
          /\ gAudit' = gAudit /\ gLog' = gLog
      BY <1>3 DEF Evaluate, gStores
    <2> QED
      BY <2>2, <2>3, StoresKept
  <1>4. ASSUME NEW c \in GateConns, HandlerReturns(c) PROVE StoreInv'
    <2>1. DOMAIN gConn = GateConns /\ DOMAIN gConn[c] = ConnFields
      BY DEF GateInv, ConnShape
    <2>2. gConn'[c].pc = "idle" /\ \A d \in GateConns : d # c => gConn'[d] = gConn[d]
      BY <1>4, <2>1 DEF HandlerReturns, ConnFields
    <2>3. /\ gSetup' = gSetup /\ gOutbox' = gOutbox /\ gGrants' = gGrants
          /\ gAudit' = gAudit /\ gLog' = gLog
      BY <1>4 DEF HandlerReturns, gStores
    <2> QED
      BY <2>2, <2>3, StoresKept
  <1>5. ASSUME NEW c \in GateConns, NEW s \in Services, Grant(c, s) \/ Revoke(c, s)
        PROVE  StoreInv'
    <2>1. CASE Grant(c, s)
      <3>1. /\ StoreCall(c, "grant", s, <<>>) /\ gOutbox' = gOutbox /\ gAudit' = gAudit
            /\ gGrants' = SetGrant(<<Verified(c), s>>, TRUE)
        BY <2>1 DEF Grant
      <3> QED
        BY <3>1, SetGrantKeeps
    <2>2. CASE Revoke(c, s)
      <3>1. /\ StoreCall(c, "revoke", s, <<>>) /\ gOutbox' = gOutbox /\ gAudit' = gAudit
            /\ gGrants' = SetGrant(<<Verified(c), s>>, FALSE)
        BY <2>2 DEF Revoke
      <3> QED
        BY <3>1, SetGrantKeeps
    <2> QED
      BY <1>5, <2>1, <2>2
  <1>6. ASSUME NEW c \in GateConns, HandlerStep(c) PROVE StoreInv'
    BY <1>4, <1>5, <1>6, EnqueueKeeps, ListKeeps, GrantedKeeps, ResolveKeeps DEF HandlerStep
  <1> QED
    BY <1>1, <1>2, <1>3, <1>6 DEF GatesNext, HandlerStep

-----------------------------------------------------------------------------
(* What the invariants give.                                               *)

\* A set of numbers in which there are no two has at most one.
LEMMA AtMostOne ==
  ASSUME NEW S, \A x, y \in S : x = y PROVE Cardinality(S) <= 1
  <1>1. CASE S = {}
    <2>1. Cardinality(S) = 0
      BY <1>1, FS_EmptySet
    <2> QED
      BY <2>1
  <1>2. CASE S # {}
    <2>1. PICK x : S = {x}
      BY <1>2
    <2>2. Cardinality(S) = 1
      BY <2>1, FS_Singleton
    <2> QED
      BY <2>2
  <1> QED
    BY <1>1, <1>2

\* A gate that is not the CSRF gate and admits has no like before it.
LEMMA NoneTwice ==
  ASSUME NEW setup, NEW r, setup.gates \in Seq(Gates3), NEW g, g # "csrf",
         \A i \in 1..Len(setup.gates) : Reason(setup, r, i) = 0,
         NEW S, \A i \in S : i \in DOMAIN setup.gates /\ setup.gates[i] = g
  PROVE  Cardinality(S) <= 1
  <1>1. DOMAIN setup.gates = 1..Len(setup.gates) /\ Len(setup.gates) \in Nat
    OBVIOUS
  <1>2. ASSUME NEW i \in S, NEW j \in S, j < i PROVE FALSE
    <2>1. i \in 1..Len(setup.gates) /\ j \in 1..(i - 1) /\ setup.gates[i] = g /\ setup.gates[j] = g
      BY <1>1, <1>2
    <2>2. Reason(setup, r, i) # 0
      BY <2>1 DEF Reason
    <2> QED
      BY <2>1, <2>2
  <1>3. \A i, j \in S : i = j
    <2>1. \A i \in S : i \in Int
      BY <1>1
    <2> QED
      BY <1>2, <2>1
  <1> QED
    BY <1>3, AtMostOne

\* What the gates decided is what AdmittedByAll and RejectedByFirst state.
LEMMA AdmittedOk ==
  ASSUME NEW setup, NEW r, setup.gates \in Seq(Gates3), NEW out,
         Admitted(setup, r, Len(setup.gates), out)
  PROVE  LET gates == {setup.gates[i] : i \in DOMAIN setup.gates}
         IN /\ gates \cap {"jwt", "tenant"} # {} => r.good
            /\ "csrf" \in gates => ~CrossSite(setup, r)
            /\ out.ext = (IF "jwt" \in gates THEN {<<"jwt", r.org>>} ELSE {})
                     \cup (IF "tenant" \in gates THEN {<<"tenant", Trim[r.org]>>} ELSE {})
            /\ "tenant" \in gates => Trim[r.org] # NoTenant
  <1> DEFINE gates == {setup.gates[i] : i \in DOMAIN setup.gates}
  <1>1. DOMAIN setup.gates = 1..Len(setup.gates)
    OBVIOUS
  <1>2. \A g : g \in gates <=> Among(setup, g, Len(setup.gates))
    BY <1>1 DEF Among
  <1>3. \A i \in 1..Len(setup.gates) : Reason(setup, r, i) = 0
    BY DEF Admitted
  <1>4. out.ext = Left(setup, r, Len(setup.gates))
    BY DEF Admitted
  <1>5. ASSUME NEW i \in 1..Len(setup.gates)
        PROVE  /\ setup.gates[i] \in {"jwt", "tenant"} => r.good
               /\ setup.gates[i] = "csrf" => ~CrossSite(setup, r)
               /\ setup.gates[i] = "tenant" => Trim[r.org] # NoTenant
    BY <1>3 DEF Reason
  <1>6. ASSUME NEW g \in gates PROVE \E i \in 1..Len(setup.gates) : setup.gates[i] = g
    BY <1>1
  <1>7. out.ext = (IF "jwt" \in gates THEN {<<"jwt", r.org>>} ELSE {})
              \cup (IF "tenant" \in gates THEN {<<"tenant", Trim[r.org]>>} ELSE {})
    BY <1>2, <1>4 DEF Left
  <1> HIDE DEF gates
  <1>8. gates \cap {"jwt", "tenant"} # {} => r.good
    BY <1>5, <1>6
  <1>9. ("csrf" \in gates => ~CrossSite(setup, r)) /\ ("tenant" \in gates => Trim[r.org] # NoTenant)
    BY <1>5, <1>6
  <1> QED
    BY <1>7, <1>8, <1>9 DEF gates

LEMMA GatesAreSoundNow ==
  ASSUME GateInv, LogBounded PROVE GatesSound
  <1>1. GatesTypeOK
    <2>1. ASSUME NEW c \in GateConns
          PROVE  /\ gConn[c].pc \in {"idle", "handler"}
                 /\ gConn[c].status \in {0, 401, 403, 500}
                 /\ gConn[c].served \in 0..MaxServed[c]
      <3>1. ConnShape(c) /\ ConnDecided(c)
        BY DEF GateInv
      <3>2. gConn[c].status \in {0, 401, 403, 500}
        BY <3>1 DEF ConnDecided, Decision, Admitted, Rejected
      <3> QED
        BY <3>1, <3>2 DEF ConnShape
    <2> QED
      BY <2>1 DEF GatesTypeOK, LogBounded
  <1>2. AdmittedByAll
    <2> SUFFICES ASSUME NEW c \in GateConns, gConn[c].pc = "handler"
                 PROVE  LET r == gConn[c].request[1]
                            gates == {Setup.gates[i] : i \in DOMAIN Setup.gates}
                            times(g) == Cardinality({i \in DOMAIN Setup.gates : Setup.gates[i] = g})
                        IN /\ gates \cap {"jwt", "tenant"} # {} => r.good
                           /\ times("jwt") <= 1 /\ times("tenant") <= 1
                           /\ "csrf" \in gates => ~CrossSite(Setup, r)
                           /\ gConn[c].ext = (IF "jwt" \in gates THEN {<<"jwt", r.org>>} ELSE {})
                                \cup (IF "tenant" \in gates THEN {<<"tenant", Trim[r.org]>>} ELSE {})
                           /\ "tenant" \in gates => Trim[r.org] # NoTenant
      BY DEF AdmittedByAll
    <2>1. ConnDecided(c) /\ SetupTrue
      BY DEF GateInv
    <2>2. Serving /\ gConn[c].status = 0
      BY <2>1 DEF ConnDecided
    <2>3. PICK r \in GateRequests[c] :
            gConn[c].request = <<r>> /\ Decision(Setup, r, Len(Setup.gates), gConn[c])
      BY <2>1 DEF ConnDecided
    <2>4. Admitted(Setup, r, Len(Setup.gates), gConn[c])
      BY <2>2, <2>3 DEF Decision, Rejected
    <2>5. gConn[c].request[1] = r
      BY <2>3
    <2>6. Setup.gates \in Seq(Gates3)
      BY <2>1, <2>2, ServingSetup
    <2>7. \A i \in 1..Len(Setup.gates) : Reason(Setup, r, i) = 0
      BY <2>4 DEF Admitted
    <2>8. /\ Cardinality({i \in DOMAIN Setup.gates : Setup.gates[i] = "jwt"}) <= 1
          /\ Cardinality({i \in DOMAIN Setup.gates : Setup.gates[i] = "tenant"}) <= 1
      <3>1. PICK setup : setup = Setup
        OBVIOUS
      <3>2. /\ setup.gates \in Seq(Gates3)
            /\ \A i \in 1..Len(setup.gates) : Reason(setup, r, i) = 0
        BY <2>6, <2>7, <3>1
      <3>3. Cardinality({i \in DOMAIN setup.gates : setup.gates[i] = "jwt"}) <= 1
        <4>1. PICK S : S = {i \in DOMAIN setup.gates : setup.gates[i] = "jwt"}
          OBVIOUS
        <4>2. \A i \in S : i \in DOMAIN setup.gates /\ setup.gates[i] = "jwt"
          BY <4>1
        <4>3. Cardinality(S) <= 1
          BY <3>2, <4>2, NoneTwice
        <4> QED
          BY <4>1, <4>3
      <3>4. Cardinality({i \in DOMAIN setup.gates : setup.gates[i] = "tenant"}) <= 1
        <4>1. PICK S : S = {i \in DOMAIN setup.gates : setup.gates[i] = "tenant"}
          OBVIOUS
        <4>2. \A i \in S : i \in DOMAIN setup.gates /\ setup.gates[i] = "tenant"
          BY <4>1
        <4>3. Cardinality(S) <= 1
          BY <3>2, <4>2, NoneTwice
        <4> QED
          BY <4>1, <4>3
      <3> QED
        BY <3>1, <3>3, <3>4
    <2> QED
      BY <2>4, <2>5, <2>6, <2>8, AdmittedOk
  <1>3. RejectedByFirst
    <2>1. ASSUME Serving, NEW i \in DOMAIN Setup.origins PROVE Written(Setup.origins[i])
      <3>1. Setup \in Setups /\ CsrfBuildOk(Setup)
        BY <2>1, ServingSetup DEF GateInv
      <3>2. ValidOrigin(Setup.origins[i])
        BY <3>1 DEF CsrfBuildOk
      <3>3. SetupOk(Setup)
        BY <3>1, GatesAssumption
      <3>4. LET o == Setup.origins[i]
            IN o.host[1] = "v6" \/ (IsSequence(o.host[2]) /\ Len(o.host[2]) > 0)
        BY <3>3 DEF SetupOk
      <3> QED
        BY <3>2, <3>4, OriginWritten
    <2>2. ASSUME NEW c \in GateConns, gConn[c].request # <<>>, gConn[c].status # 0
          PROVE  \E i \in DOMAIN Setup.gates :
                   /\ Reason(Setup, gConn[c].request[1], i) = gConn[c].status
                   /\ \A j \in 1..(i - 1) : Reason(Setup, gConn[c].request[1], j) = 0
      <3>1. ConnDecided(c) /\ SetupTrue
        BY DEF GateInv
      <3>2. Serving
        BY <2>2, <3>1 DEF ConnDecided
      <3>3. PICK r \in GateRequests[c] :
              gConn[c].request = <<r>> /\ Decision(Setup, r, Len(Setup.gates), gConn[c])
        BY <2>2, <3>1 DEF ConnDecided
      <3>4. Rejected(Setup, r, Len(Setup.gates), gConn[c].status)
        BY <2>2, <3>3 DEF Decision, Admitted
      <3>5. gConn[c].request[1] = r
        BY <3>3
      <3>6. DOMAIN Setup.gates = 1..Len(Setup.gates)
        BY <3>1, <3>2, ServingSetup
      <3> QED
        BY <3>4, <3>5, <3>6 DEF Rejected
    <2> QED
      BY <2>1, <2>2 DEF RejectedByFirst
  <1> QED
    BY <1>1, <1>2, <1>3 DEF GatesSound

\* The gates decide as each of them would alone: a request that reaches its
\* handler was admitted by all and brings exactly what they found in it; one
\* that is rejected has the answer of the first gate with a reason; and the
\* CSRF gate's origins are ones a browser sends (first_rejection). For any
\* connections, requests, sequences of gates and configuration.
THEOREM GatesAreSound == GatesSpec => []GatesSound
  <1>1. GatesInit => GateInv /\ StoreInv
    BY GatesStart, StoresStart
  <1>2. GateInv /\ StoreInv /\ [GatesNext]_gVars => (GateInv /\ StoreInv)'
    BY GatesStep, StoresStep
  <1>3. GateInv /\ StoreInv => GatesSound
    BY GatesAreSoundNow DEF StoreInv
  <1> QED
    BY <1>1, <1>2, <1>3, PTL DEF GatesSpec

\* A handler is told of its own tenant's events and consents only,
\* whatever the other connections do between its calls, and the audit has
\* every attempt on another tenant's record (list_for_org, is_granted,
\* resolve). For any tenants, services, records and number of calls.
THEOREM TenantsAreApart == GatesSpec => []TenantsApart
  <1>1. GatesInit => GateInv /\ StoreInv
    BY GatesStart, StoresStart
  <1>2. GateInv /\ StoreInv /\ [GatesNext]_gVars => (GateInv /\ StoreInv)'
    BY GatesStep, StoresStep
  <1>3. StoreInv => TenantsApart
    BY AnswersAreOwn DEF StoreInv, Told, TenantsApart
  <1> QED
    BY <1>1, <1>2, <1>3, PTL DEF GatesSpec
=============================================================================
