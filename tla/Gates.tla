-------------------------------- MODULE Gates --------------------------------
(***************************************************************************)
(* The gates a request passes before it is routed (core/src/server.rs,     *)
(* first_rejection), with the gates the repository ships: the CSRF gate    *)
(* (plugin-csrf), the JWT gate (plugin-jwt/src/gate.rs) and the tenant     *)
(* gate (plugin-hub-wiring/src/gate.rs, auth.rs); what they leave for the  *)
(* handler in the request's extensions (http/src/extensions.rs); and the   *)
(* hub's stores a handler then works on for its tenant (audit.rs,          *)
(* consent.rs, outbox.rs), shared by the connections.                      *)
(*                                                                         *)
(* How a credential is verified is JwtAuth; here it is good or not and has *)
(* an org_id claim. A header is the sequence of its values. An origin is   *)
(* its scheme, its host and the text of its port; a host is <<"name",      *)
(* labels>>, a final dot being a last label "", or <<"v6", text>>.         *)
(***************************************************************************)
EXTENDS Integers, Sequences, FiniteSets, Selection

CONSTANTS
  GateConns,     \* connections
  Setups,        \* what an application configures: [gates, origins, exempt]
  GateRequests,  \* requests that come on each connection: [method, path, site, origin, good, org]
  Trim,          \* str::trim of the org_id claims, "" for a missing claim
  Services,      \* services a tenant consents to
  Owner,         \* the org_id that owns each record that exists
  Records,       \* records that are looked up
  MaxOrigins,    \* MAX_ALLOWED_ORIGINS
  MaxExempt,     \* MAX_EXEMPT_PATHS
  LongOrigins,   \* origins whose text is longer than MAX_ENTRY_LEN
  BadPaths,      \* texts valid_exempt_path refuses
  LowerLabels,   \* labels of lower-case letters, digits and "-"
  DigitLabels,   \* those of digits only
  HexLabels,     \* "0x" and hexadecimal digits
  V6Serial,      \* IPv6 texts: the serialisation of the address, "" for none
  PortValue,     \* port texts of digits: the number
  ZeroPorts,     \* those that begin with "0"
  OctetLabels,   \* labels canonical_ipv4 accepts: "0" to "255", no leading zero
  LabelNumber,   \* digit and hexadecimal labels: the number, as a URL reads it
  MaxServed,     \* bound: requests on each connection
  MaxStoreCalls  \* bound: calls of the stores, for a sequence of gates

\* No org_id, and the label behind a final dot.
NoTenant == ""
NoLabel == ""
Orgs == {Trim[o] : o \in DOMAIN Trim} \cup {NoTenant}

IsSequence(h) == Len(h) \in Nat /\ h = [i \in 1..Len(h) |-> h[i]]

GateRequestOk(r) == r.good \in BOOLEAN /\ r.org \in DOMAIN Trim /\ IsSequence(r.origin)

SetupOk(setup) ==
  /\ setup.gates \in Seq({"csrf", "jwt", "tenant"}) /\ MaxStoreCalls[setup.gates] \in Nat
  /\ \A i \in DOMAIN setup.origins : LET o == setup.origins[i]
       IN o.host[1] = "v6" \/ (IsSequence(o.host[2]) /\ Len(o.host[2]) > 0)

\* A number has one text without a leading zero.
NotationOk ==
  /\ DigitLabels \cup HexLabels \subseteq LowerLabels /\ NoLabel \notin LowerLabels
  /\ LabelNumber \in [DigitLabels \cup HexLabels -> Nat] /\ OctetLabels \subseteq DigitLabels
  /\ \A l, m \in OctetLabels :
       LabelNumber[l] <= 255 /\ (LabelNumber[l] = LabelNumber[m] => l = m)
  /\ PortValue \in [DOMAIN PortValue -> Nat] /\ {"80", "443"} \subseteq DOMAIN PortValue \ ZeroPorts
  /\ \A p, q \in DOMAIN PortValue \ ZeroPorts : PortValue[p] = PortValue[q] => p = q

ASSUME GatesAssumption ==
  /\ \A setup \in Setups : SetupOk(setup)
  /\ \A c \in GateConns : \A r \in GateRequests[c] : GateRequestOk(r)
  /\ NotationOk
  /\ MaxServed \in [GateConns -> Nat]
  /\ DOMAIN Owner \subseteq Records

VARIABLES
  gSetup,  \* the configuration, <<>> before build; <<"error">> when it failed
  gConn,   \* the connections, see GatesInit
  gOutbox, \* InMemoryOutboxStore: the events
  gGrants, \* InMemoryConsentStore: <<org, service, granted>>
  gAudit,  \* MemoryAuditSink: the events
  gLog     \* history: the calls of the stores

gVars == <<gSetup, gConn, gOutbox, gGrants, gAudit, gLog>>
gStores == <<gOutbox, gGrants, gAudit, gLog>>

-----------------------------------------------------------------------------
(* The CSRF gate's configuration.                                          *)

\* ends_in_number, without the final dot.
EndsInNumber(labels) == labels # <<>> /\ labels[Len(labels)] \in DigitLabels \cup HexLabels

\* canonical_ipv4.
CanonicalIpv4(labels) == Len(labels) = 4 /\ \A i \in 1..4 : labels[i] \in OctetLabels

\* Mutation of ValidHostname: an address may end in a dot.
DottedAddress(labels) ==
  LET dot == Len(labels) > 1 /\ labels[Len(labels)] = NoLabel
      rest == IF dot THEN SubSeq(labels, 1, Len(labels) - 1) ELSE labels
  IN IF EndsInNumber(rest) THEN CanonicalIpv4(rest)
     ELSE \A i \in DOMAIN rest : rest[i] \in LowerLabels
ValidHostname(labels) ==
  LET dot == Len(labels) > 1 /\ labels[Len(labels)] = NoLabel
      rest == IF dot THEN SubSeq(labels, 1, Len(labels) - 1) ELSE labels
  IN IF EndsInNumber(rest) THEN ~dot /\ CanonicalIpv4(rest)
     ELSE \A i \in DOMAIN rest : rest[i] \in LowerLabels

DefaultPort(scheme) == IF scheme = "https" THEN "443" ELSE "80"

\* valid_port.
ValidPort(text, scheme) ==
  /\ text \in DOMAIN PortValue \ ZeroPorts /\ text # DefaultPort(scheme)
  /\ PortValue[text] <= 65535

ValidOrigin(o) ==
  /\ o \notin LongOrigins
  /\ o.scheme \in {"http", "https"}
  /\ IF o.host[1] = "v6"
     THEN o.host[2] \in DOMAIN V6Serial /\ V6Serial[o.host[2]] = o.host[2]
     ELSE ValidHostname(o.host[2])
  /\ o.port # <<>> => ValidPort(o.port[1], o.scheme)

\* CsrfGateBuilder::build. Whichever CsrfConfigError it returns, there is no
\* gate and the application does not start.
CsrfBuildOk(setup) ==
  /\ Len(setup.origins) <= MaxOrigins /\ Len(setup.exempt) <= MaxExempt
  /\ \A i \in DOMAIN setup.origins : ValidOrigin(setup.origins[i])
  /\ \A i \in DOMAIN setup.exempt : setup.exempt[i] \notin BadPaths

Configure(setup) ==
  /\ gSetup = <<>>
  /\ gSetup' = IF CsrfBuildOk(setup) THEN <<"serving", setup>> ELSE <<"error">>
  /\ UNCHANGED <<gConn, gStores>>

Serving == gSetup # <<>> /\ gSetup[1] = "serving"
Setup == gSetup[2]

-----------------------------------------------------------------------------
(* The gates. Each takes a request and the extensions, a set of <<type,    *)
(* value>>, and gives the status it rejects with, 0 to allow, and the      *)
(* extensions.                                                             *)

\* RequestExtensions::insert, with what the two gates make of its error.
InsertExtension(ext, type, value) ==
  IF \E e \in ext : e[1] = type THEN [status |-> 500, ext |-> ext]
  ELSE [status |-> 0, ext |-> ext \cup {<<type, value>>}]

\* Mutation of CsrfCheck: a repeated header is read like a single one.
ReadsFirstOnly(r, ext) ==
  LET allowed == {Setup.origins[i] : i \in DOMAIN Setup.origins}
      free == \/ r.method \in {"GET", "HEAD", "OPTIONS"}
              \/ r.path \in {Setup.exempt[i] : i \in DOMAIN Setup.exempt}
      ok == IF r.site # <<>> THEN r.site[1] \in {"same-origin", "none"}
            ELSE r.origin # <<>> /\ r.origin[1] \in allowed
  IN [status |-> IF free \/ ok THEN 0 ELSE 403, ext |-> ext]
\* Mutation of CsrfCheck: a cross-site request with an allowed origin passes.
OriginSuffices(r, ext) ==
  LET allowed == {Setup.origins[i] : i \in DOMAIN Setup.origins}
      free == \/ r.method \in {"GET", "HEAD", "OPTIONS"}
              \/ r.path \in {Setup.exempt[i] : i \in DOMAIN Setup.exempt}
      ok == \/ r.site \in {<<"same-origin">>, <<"none">>}
            \/ Len(r.origin) = 1 /\ r.origin[1] \in allowed
  IN [status |-> IF free \/ ok THEN 0 ELSE 403, ext |-> ext]
\* CsrfGate::check, count_header.
CsrfCheck(r, ext) ==
  LET allowed == {Setup.origins[i] : i \in DOMAIN Setup.origins}
      free == \/ r.method \in {"GET", "HEAD", "OPTIONS"}
              \/ r.path \in {Setup.exempt[i] : i \in DOMAIN Setup.exempt}
      ok == IF r.site # <<>> THEN r.site \in {<<"same-origin">>, <<"none">>}
            ELSE Len(r.origin) = 1 /\ r.origin[1] \in allowed
  IN [status |-> IF free \/ ok THEN 0 ELSE 403, ext |-> ext]

\* JwtGate::check.
JwtCheck(r, ext) ==
  IF r.good THEN InsertExtension(ext, "jwt", r.org) ELSE [status |-> 401, ext |-> ext]

\* Mutation of TenantCheck: a blank org_id is a tenant.
BlankTenant(r, ext) ==
  IF ~r.good THEN [status |-> 401, ext |-> ext]
  ELSE InsertExtension(ext, "tenant", Trim[r.org])
\* TenantGate::check with Authenticator::authenticate.
TenantCheck(r, ext) ==
  IF ~r.good THEN [status |-> 401, ext |-> ext]
  ELSE IF Trim[r.org] = NoTenant THEN [status |-> 403, ext |-> ext]
  ELSE InsertExtension(ext, "tenant", Trim[r.org])

Check(gate, r, ext) ==
  CASE gate = "csrf" -> CsrfCheck(r, ext)
    [] gate = "jwt" -> JwtCheck(r, ext)
    [] gate = "tenant" -> TenantCheck(r, ext)

\* Mutation of FirstRejection: the last gate decides.
LastDecides(r, ext) ==
  LET Out[i \in 0..Len(Setup.gates)] ==
        IF i = 0 THEN [status |-> 0, ext |-> ext]
        ELSE Check(Setup.gates[i], r, Out[i - 1].ext)
  IN Out[Len(Setup.gates)]
\* first_rejection: the gates in the order they were registered, up to the
\* first that rejects.
FirstRejection(r, ext) ==
  LET Out[i \in 0..Len(Setup.gates)] ==
        IF i = 0 THEN [status |-> 0, ext |-> ext]
        ELSE IF Out[i - 1].status # 0 THEN Out[i - 1]
        ELSE Check(Setup.gates[i], r, Out[i - 1].ext)
  IN Out[Len(Setup.gates)]

\* Mutation of Evaluate: the extensions live as long as the connection.
KeepsExtensions(c, r) ==
  LET out == FirstRejection(r, gConn[c].ext)
  IN /\ Serving /\ gConn[c].pc = "idle" /\ gConn[c].served < MaxServed[c]
     /\ gConn' = [gConn EXCEPT ![c] =
          [pc |-> IF out.status = 0 THEN "handler" ELSE "idle", request |-> <<r>>,
           status |-> out.status, ext |-> out.ext, got |-> <<>>, served |-> @.served + 1]]
     /\ UNCHANGED <<gSetup, gStores>>
\* A request is read and its gates are evaluated with new extensions; when
\* one rejects, its response is written and the connection goes on, else the
\* request's head gets the extensions and the handler is called.
Evaluate(c, r) ==
  LET out == FirstRejection(r, {})
  IN /\ Serving /\ gConn[c].pc = "idle" /\ gConn[c].served < MaxServed[c]
     /\ gConn' = [gConn EXCEPT ![c] =
          [pc |-> IF out.status = 0 THEN "handler" ELSE "idle", request |-> <<r>>,
           status |-> out.status, ext |-> out.ext, got |-> <<>>, served |-> @.served + 1]]
     /\ UNCHANGED <<gSetup, gStores>>

-----------------------------------------------------------------------------
(* The hub's stores, as a handler uses them for the tenant it was given.   *)

\* TenantGate::verified: the tenant's org_id, NoTenant for NotAdmitted.
TenantOf(ext) ==
  LET found == {e \in ext : e[1] = "tenant"}
  IN IF found = {} THEN NoTenant ELSE (CHOOSE e \in found : TRUE)[2]
Verified(c) == TenantOf(gConn[c].ext)

StoreCall(c, op, what, result) ==
  /\ gConn[c].pc = "handler" /\ Len(gLog) < MaxStoreCalls[Setup.gates]
  /\ gLog' = Append(gLog, <<op, Verified(c), what>>)
  /\ gConn' = [gConn EXCEPT ![c].got = <<op, what, result, Len(gLog)>>]
  /\ UNCHANGED gSetup

\* OutboxStore::enqueue. An event is named by the number of the call.
Enqueue(c) ==
  /\ StoreCall(c, "enqueue", "event", <<>>)
  /\ gOutbox' = Append(gOutbox, <<Verified(c), Len(gLog) + 1>>)
  /\ UNCHANGED <<gGrants, gAudit>>

\* Mutation of ListForOrg: without a tenant there is no filter.
Unfiltered(c) ==
  LET org == Verified(c)
      orgs == IF org = NoTenant THEN Orgs ELSE {org}
  IN /\ StoreCall(c, "list", "event", Select(gOutbox, orgs \X Nat))
     /\ UNCHANGED <<gOutbox, gGrants, gAudit>>
\* OutboxStore::list_for_org.
ListForOrg(c) ==
  LET org == Verified(c)
  IN /\ StoreCall(c, "list", "event",
                  IF org = NoTenant THEN <<>> ELSE Select(gOutbox, {org} \X Nat))
     /\ UNCHANGED <<gOutbox, gGrants, gAudit>>

\* The map's insert replaces the value of a key.
SetGrant(key, granted) ==
  {g \in gGrants : <<g[1], g[2]>> # key} \cup {<<key[1], key[2], granted>>}

Grant(c, service) ==
  /\ StoreCall(c, "grant", service, <<>>)
  /\ gGrants' = SetGrant(<<Verified(c), service>>, TRUE)
  /\ UNCHANGED <<gOutbox, gAudit>>

\* Mutation of Revoke: every tenant's consent for the service goes.
RevokesAll(c, service) ==
  /\ StoreCall(c, "revoke", service, <<>>)
  /\ gGrants' = {g \in gGrants : g[2] # service}
  /\ UNCHANGED <<gOutbox, gAudit>>
Revoke(c, service) ==
  /\ StoreCall(c, "revoke", service, <<>>)
  /\ gGrants' = SetGrant(<<Verified(c), service>>, FALSE)
  /\ UNCHANGED <<gOutbox, gAudit>>

\* ConsentStore::is_granted.
IsGranted(c, service) ==
  /\ StoreCall(c, "granted", service,
               <<Verified(c) # NoTenant /\ <<Verified(c), service, TRUE>> \in gGrants>>)
  /\ UNCHANGED <<gOutbox, gGrants, gAudit>>

\* Mutation of Resolve: only what is found is told apart.
NotRecorded(c, item) ==
  LET found == item \in DOMAIN Owner /\ Owner[item] = Verified(c)
  IN /\ StoreCall(c, "lookup", item, <<found>>)
     /\ UNCHANGED <<gOutbox, gGrants, gAudit>>
\* TenantLookupOutcome::resolve with AuditSink::record: the outcome is Found,
\* NotFound or CrossTenantAttempt, and the last is recorded for the tenant
\* that tried, with the path of its request. Which of the three it is the
\* application says, by whom its record belongs to.
Resolve(c, item) ==
  LET found == item \in DOMAIN Owner /\ Owner[item] = Verified(c)
      cross == item \in DOMAIN Owner /\ ~found
  IN /\ StoreCall(c, "lookup", item, <<found>>)
     /\ gAudit' = IF cross THEN Append(gAudit, <<Verified(c), gConn[c].request[1].path>>)
                  ELSE gAudit
     /\ UNCHANGED <<gOutbox, gGrants>>

\* The handler returns; what the request carried is dropped with it.
HandlerReturns(c) ==
  /\ gConn[c].pc = "handler"
  /\ gConn' = [gConn EXCEPT ![c].pc = "idle", ![c].got = <<>>]
  /\ UNCHANGED <<gSetup, gStores>>

GatesInit ==
  /\ gSetup = <<>>
  /\ gConn = [c \in GateConns |-> [pc |-> "idle", request |-> <<>>, status |-> 0,
                                   ext |-> {}, got |-> <<>>, served |-> 0]]
  /\ gOutbox = <<>> /\ gGrants = {} /\ gAudit = <<>> /\ gLog = <<>>

GatesNext ==
  \/ \E setup \in Setups : Configure(setup)
  \/ \E c \in GateConns :
       \/ \E r \in GateRequests[c] : Evaluate(c, r)
       \/ Enqueue(c) \/ ListForOrg(c) \/ HandlerReturns(c)
       \/ \E s \in Services : Grant(c, s) \/ Revoke(c, s) \/ IsGranted(c, s)
       \/ \E item \in Records : Resolve(c, item)

GatesSpec == GatesInit /\ [][GatesNext]_gVars

-----------------------------------------------------------------------------
(* Properties.                                                             *)

\* The values each variable may have.
GatesTypeOK ==
  /\ \A c \in GateConns :
       /\ gConn[c].pc \in {"idle", "handler"}
       /\ gConn[c].status \in {0, 401, 403, 500}
       /\ gConn[c].served \in 0..MaxServed[c]
  /\ gLog # <<>> => Len(gLog) <= MaxStoreCalls[Setup.gates]

\* Whether an origin is what a browser writes in the Origin header for some
\* URL: the host in lower case, an address as its four numbers in decimal and
\* without a final dot, the shortest IPv6 text, and no port that goes without
\* saying or has another spelling.
WithoutDot(labels) ==
  IF labels[Len(labels)] = NoLabel THEN SubSeq(labels, 1, Len(labels) - 1) ELSE labels
WrittenNumber(l) ==
  /\ l \in DOMAIN LabelNumber /\ LabelNumber[l] <= 255
  /\ \A m \in DigitLabels : LabelNumber[m] = LabelNumber[l] => m = l \/ m \notin OctetLabels
WrittenHost(labels) ==
  LET rest == WithoutDot(labels)
  IN /\ \A i \in DOMAIN rest : rest[i] \in LowerLabels
     /\ rest # <<>> /\ rest[Len(rest)] \in DOMAIN LabelNumber =>
          rest = labels /\ Len(rest) = 4 /\ \A i \in 1..4 : WrittenNumber(rest[i])
Written(o) ==
  /\ IF o.host[1] = "v6" THEN V6Serial[o.host[2]] = o.host[2] ELSE WrittenHost(o.host[2])
  /\ o.port # <<>> =>
       /\ PortValue[o.port[1]] # PortValue[DefaultPort(o.scheme)]
       /\ PortValue[o.port[1]] <= 65535 /\ o.port[1] \notin ZeroPorts

\* A state-changing request that has come neither from the site itself nor
\* from one allowed origin.
CrossSite(setup, r) ==
  /\ r.method \notin {"GET", "HEAD", "OPTIONS"}
  /\ \A i \in DOMAIN setup.exempt : setup.exempt[i] # r.path
  /\ ~ \/ r.site \in {<<"none">>, <<"same-origin">>}
       \/ r.site = <<>> /\ \E i \in DOMAIN setup.origins : r.origin = <<setup.origins[i]>>

\* A request reaches its handler only when each gate admits it, wherever it
\* stands among the others, and brings with it exactly what the gates found
\* in this request, never a value of an earlier request on the connection; a
\* state-changing request has come from the site itself or from one allowed
\* origin (first_rejection, CsrfGate::check, TenantGate::check).
AdmittedByAll ==
  \A c \in GateConns : gConn[c].pc = "handler" =>
    LET r == gConn[c].request[1]
        gates == {Setup.gates[i] : i \in DOMAIN Setup.gates}
        times(g) == Cardinality({i \in DOMAIN Setup.gates : Setup.gates[i] = g})
    IN /\ gates \cap {"jwt", "tenant"} # {} => r.good
       /\ times("jwt") <= 1 /\ times("tenant") <= 1
       /\ "csrf" \in gates => ~CrossSite(Setup, r)
       /\ gConn[c].ext = (IF "jwt" \in gates THEN {<<"jwt", r.org>>} ELSE {})
                  \cup (IF "tenant" \in gates THEN {<<"tenant", Trim[r.org]>>} ELSE {})
       /\ "tenant" \in gates => Trim[r.org] # NoTenant

\* Why the i-th gate would reject a request, as a status; 0 when it would not:
\* the same gate twice has nowhere to put its value.
Reason(setup, r, i) ==
  LET g == setup.gates[i]
  IN IF g = "csrf" THEN IF CrossSite(setup, r) THEN 403 ELSE 0
     ELSE IF ~r.good THEN 401
     ELSE IF g = "tenant" /\ Trim[r.org] = NoTenant THEN 403
     ELSE IF \E j \in 1..(i - 1) : setup.gates[j] = g THEN 500
     ELSE 0

\* A request is rejected only by a gate that has a reason, and the response
\* is that of the first such gate; every origin the CSRF gate was configured
\* with is one a browser can send (first_rejection, valid_origin).
RejectedByFirst ==
  /\ Serving => \A i \in DOMAIN Setup.origins : Written(Setup.origins[i])
  /\ \A c \in GateConns : gConn[c].request # <<>> /\ gConn[c].status # 0 =>
       \E i \in DOMAIN Setup.gates :
         /\ Reason(Setup, gConn[c].request[1], i) = gConn[c].status
         /\ \A j \in 1..(i - 1) : Reason(Setup, gConn[c].request[1], j) = 0

\* The calls among the first n that stored an event for a tenant, and those
\* that set its consent to a service; the last of these decides.
Stored(org, n) == {i \in 1..n : gLog[i][1] = "enqueue" /\ gLog[i][2] = org}
Consents(org, service, n) ==
  {i \in 1..n : gLog[i][1] \in {"grant", "revoke"} /\ gLog[i][2] = org /\ gLog[i][3] = service}
Consented(org, service, n) ==
  \E i \in Consents(org, service, n) :
    gLog[i][1] = "grant" /\ \A j \in Consents(org, service, n) : j <= i

\* The lookups of another tenant's record.
Attempts == {call \in {"lookup"} \X Orgs \X DOMAIN Owner : Owner[call[3]] # call[2]}

\* What the last call told the handler.
ToldOwn(c) ==
  LET op == gConn[c].got[1]
      what == gConn[c].got[2]
      result == gConn[c].got[3]
      n == gConn[c].got[4]
      org == Verified(c)
  IN /\ op = "list" =>
          /\ {result[i][2] : i \in DOMAIN result}
               = (IF org = NoTenant THEN {} ELSE Stored(org, n))
          /\ \A i, j \in DOMAIN result : i < j => result[i][2] < result[j][2]
     /\ op = "granted" => result[1] = (org # NoTenant /\ Consented(org, what, n))

\* The audit has every attempt on another tenant's record, once and in order.
AuditComplete ==
  /\ Len(gAudit) = Len(Select(gLog, Attempts))
  /\ \A i \in DOMAIN gAudit : gAudit[i][1] = Select(gLog, Attempts)[i][2]

\* A tenant's handler is told only of its own tenant's data: its events in
\* the order they were stored and the consent its own last call left; without
\* a tenant it is told of nothing; and every attempt on another tenant's
\* record is in the audit, once (list_for_org, is_granted, resolve).
TenantsApart ==
  /\ \A c \in GateConns : gConn[c].pc = "handler" /\ gConn[c].got # <<>> => ToldOwn(c)
  /\ AuditComplete

\* The gates' decision is that of each of them: all admit, or the first that
\* does not answers (first_rejection).
GatesSound == GatesTypeOK /\ AdmittedByAll /\ RejectedByFirst
=============================================================================
