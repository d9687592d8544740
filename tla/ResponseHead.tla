----------------------------- MODULE ResponseHead ----------------------------
(***************************************************************************)
(* The Response builder and the three forms of its head on the wire        *)
(* (crates/http/src/response.rs, location.rs). A response is built by any  *)
(* sequence of calls and then written once. Values are sequences of        *)
(* characters; a Cache-Control value is written from its directives.       *)
(***************************************************************************)
EXTENDS Integers, Sequences, FiniteSets, SequencesExt

CONSTANTS
  RhNames,       \* names an application passes to with_header
  RhLower,       \* the lower case of every name or field that is a token
  RhValues,      \* values it passes
  RhDirectives,  \* lists of directives it writes in a Cache-Control header
  RhFields,      \* arguments of with_vary
  RhMethods,     \* sequences of methods passed to AllowedMethods
  RhLocations,   \* targets of redirects
  RhStatuses,    \* statuses of Response::new and redirect
  RhMaxCalls     \* bound: calls of the builder, one for a redirect

ASSUME ResponseHeadAssumption ==
  /\ RhMaxCalls \in Nat \ {0} /\ RhStatuses \subseteq 100..599
  /\ {"Vary", "Cache-Control", "Location", "Set-Cookie", "Content-Type", "Allow"} \subseteq DOMAIN RhLower

VARIABLES
  rhResp,    \* the Response; its body is known by the decimal text of its length
  rhCalls,   \* calls made
  rhKind,    \* "none", or how it was written: "full", "chunked" or "http10"
  rhKeep,    \* keep_alive
  rhHead,    \* the header lines written, pairs of a name and a value
  rhVaried,  \* history: the fields passed to with_vary
  rhStored   \* history: "no" before with_no_store, then what it found, "had" or "lacked"

rhVars == <<rhResp, rhCalls, rhKind, rhKeep, rhHead, rhVaried, rhStored>>

Lower(n) == IF n \in DOMAIN RhLower THEN RhLower[n] ELSE n
Named(extra, n) == {i \in 1..Len(extra) : Lower(extra[i][1]) = n}

-----------------------------------------------------------------------------
(* Values that are lists.                                                   *)

\* The parts of v at the positions of cuts, in their order.
Parts(v, cuts) ==
  LET at == SelectSeq([i \in 1..Len(v) |-> i], LAMBDA i : i \in cuts)
      ends == <<0>> \o at \o <<Len(v) + 1>>
  IN [k \in 1..(Len(at) + 1) |-> SubSeq(v, ends[k] + 1, ends[k + 1] - 1)]
Trimmed(v) ==
  LET solid == {i \in 1..Len(v) : v[i] # " "}
  IN IF solid = {} THEN <<>>
     ELSE SubSeq(v, CHOOSE i \in solid : \A j \in solid : i <= j,
                    CHOOSE i \in solid : \A j \in solid : i >= j)

\* list_members
ListMembers(v) ==
  LET parts == Parts(v, {i \in 1..Len(v) : v[i] = ","})
  IN {Trimmed(parts[i]) : i \in 1..Len(parts)} \ {<<>>}

\* How has_directive stands after each character: outside of a quoted string,
\* in one, or after a backslash in one.
Quoting(v) ==
  LET q[i \in 0..Len(v)] ==
        IF i = 0 THEN "out"
        ELSE IF q[i - 1] = "escaped" THEN "in"
        ELSE IF q[i - 1] = "in" /\ v[i] = "\\" THEN "escaped"
        ELSE IF v[i] = "quote" THEN (IF q[i - 1] = "in" THEN "out" ELSE "in")
        ELSE q[i - 1]
  IN q

\* Mutation of HasDirective: quotes are not looked at.
CommaDirective(v, name) ==
  LET parts == Parts(v, {i \in 1..Len(v) : v[i] = ","})
  IN \E i \in 1..Len(parts) :
       Trimmed(Parts(parts[i], {k \in 1..Len(parts[i]) : parts[i][k] = "="})[1]) = <<name>>
\* has_directive: the name before the equals sign of a part
HasDirective(v, name) ==
  LET q == Quoting(v)
      parts == Parts(v, {i \in 1..Len(v) : v[i] = "," /\ q[i - 1] = "out"})
  IN \E i \in 1..Len(parts) :
       Trimmed(Parts(parts[i], {k \in 1..Len(parts[i]) : parts[i][k] = "="})[1]) = <<name>>

-----------------------------------------------------------------------------
(* The builder                                                             *)

NoResponse == [status |-> 0, body |-> "0", ctype |-> "", allow |-> {}, extra |-> <<>>]
NewResponse(status, body) == [NoResponse EXCEPT !.status = status, !.body = body]

Reserved == {"content-length", "connection", "transfer-encoding"}

\* Mutation of HeaderOk: the reserved names are compared as they are written.
ReservedAsWritten(n, v) ==
  n \in DOMAIN RhLower /\ "ctl" \notin ToSet(v) /\ n \notin Reserved
\* with_header accepts the name and the value.
HeaderOk(n, v) ==
  n \in DOMAIN RhLower /\ "ctl" \notin ToSet(v) /\ Lower(n) \notin Reserved

Push(n, v) == rhResp' = [rhResp EXCEPT !.extra = Append(@, <<n, v>>)]

\* An error returns no response: the application goes on with the old one.
WithHeader(n, v) == HeaderOk(n, v) /\ Push(n, v) /\ UNCHANGED <<rhVaried, rhStored>>

\* The fields of these header lines, in lower case.
VaryMembers(lines) ==
  {[k \in 1..Len(m) |-> Lower(m[k])] : m \in UNION {ListMembers(rhResp.extra[i][2]) : i \in lines}}

\* Mutation of AddVary: only the first Vary header is looked at.
FirstVaryOnly(f) ==
  LET lines == Named(rhResp.extra, "vary")
      members == VaryMembers({i \in lines : \A j \in lines : i <= j})
  IN /\ f = "*" \/ f \in DOMAIN RhLower
     /\ IF {<<"*">>, <<Lower(f)>>} \cap members # {} THEN UNCHANGED rhResp ELSE Push("Vary", <<f>>)
     /\ rhVaried' = Append(rhVaried, f) /\ UNCHANGED rhStored
\* Mutation of AddVary: fields in another case are other fields.
VaryAsWritten(f) ==
  LET members == UNION {ListMembers(rhResp.extra[i][2]) : i \in Named(rhResp.extra, "vary")}
  IN /\ f = "*" \/ f \in DOMAIN RhLower
     /\ IF {<<"*">>, <<f>>} \cap members # {} THEN UNCHANGED rhResp ELSE Push("Vary", <<f>>)
     /\ rhVaried' = Append(rhVaried, f) /\ UNCHANGED rhStored
\* with_vary: one field, which is a token, or the asterisk
AddVary(f) ==
  LET members == VaryMembers(Named(rhResp.extra, "vary"))
  IN /\ f = "*" \/ f \in DOMAIN RhLower
     /\ IF {<<"*">>, <<Lower(f)>>} \cap members # {} THEN UNCHANGED rhResp ELSE Push("Vary", <<f>>)
     /\ rhVaried' = Append(rhVaried, f) /\ UNCHANGED rhStored

WithNoStore ==
  /\ IF \E i \in Named(rhResp.extra, "cache-control") : HasDirective(rhResp.extra[i][2], "no-store")
     THEN UNCHANGED rhResp /\ rhStored' = IF rhStored = "no" THEN "had" ELSE rhStored
     ELSE Push("Cache-Control", <<"no-store">>) /\ rhStored' = "lacked"
  /\ UNCHANGED rhVaried

\* A directive is [name, arg], its argument nothing, a token or a quoted string.
Argument(a) == IF a = <<>> THEN <<>> ELSE <<"=">> \o a
Written(ds) ==
  FlattenSeq([i \in 1..Len(ds) |->
    (IF i = 1 THEN <<>> ELSE <<",", " ">>) \o <<ds[i].name>> \o Argument(ds[i].arg)])

\* AllowedMethods::from_methods sorts and drops duplicates: a set.
WithAllow(ms) ==
  /\ ms # <<>> /\ \A i \in 1..Len(ms) : ms[i] \notin {"", "bad method"}
  /\ rhResp' = [rhResp EXCEPT !.allow = ToSet(ms)]
  /\ UNCHANGED <<rhVaried, rhStored>>

\* Mutation of SameOrigin: a backslash is a character like another.
SlashOnly(l) ==
  /\ l # <<>> /\ l[1] = "/"
  /\ Len(l) > 1 => l[2] # "/"
  /\ "ctl" \notin ToSet(l)
\* validate_same_origin_location
SameOrigin(l) ==
  /\ l # <<>> /\ l[1] = "/"
  /\ Len(l) > 1 => l[2] \notin {"/", "\\"}
  /\ \A i \in 2..Len(l) : l[i] \notin {"\\", "ctl"}

\* see_other takes a SameOriginLocation; redirect any location that a header
\* can hold, for the statuses that redirect.
Start ==
  /\ rhResp = NoResponse
  /\ \/ \E s \in RhStatuses, b \in {"0", "1"} : rhResp' = NewResponse(s, b) /\ rhCalls' = 0
     \/ /\ \E l \in RhLocations :
             /\ SameOrigin(l)
             /\ rhResp' = [NewResponse(303, "0") EXCEPT !.extra = <<<<"Location", l>>>>]
        /\ rhCalls' = RhMaxCalls - 1
     \/ /\ \E l \in RhLocations, s \in RhStatuses \cap {301, 302, 303, 307, 308} :
             /\ l # <<>> /\ HeaderOk("Location", l)
             /\ rhResp' = [NewResponse(s, "0") EXCEPT !.extra = <<<<"Location", l>>>>]
        /\ rhCalls' = RhMaxCalls - 1
  /\ UNCHANGED <<rhKind, rhKeep, rhHead, rhVaried, rhStored>>

Call ==
  /\ rhResp # NoResponse /\ rhKind = "none" /\ rhCalls < RhMaxCalls
  /\ rhCalls' = rhCalls + 1
  /\ \/ \E n \in RhNames, v \in RhValues : WithHeader(n, v)
     \/ \E ds \in RhDirectives : WithHeader("Cache-Control", Written(ds))
     \/ \E f \in RhFields : AddVary(f)
     \/ WithNoStore
     \/ \E ms \in RhMethods : WithAllow(ms)
     \/ rhResp' = [rhResp EXCEPT !.ctype = "text"] /\ UNCHANGED <<rhVaried, rhStored>>
     \/ Push("Set-Cookie", <<"c">>) /\ UNCHANGED <<rhVaried, rhStored>>
  /\ UNCHANGED <<rhKind, rhKeep, rhHead>>

-----------------------------------------------------------------------------
(* serialize_into, serialize_chunked_head, serialize_streaming_head_http10  *)

RhBodyless(s) == s \in 100..199 \cup {204, 304}

\* Mutation of Lines: the dedicated fields do not replace headers.
AllLines(r) ==
  (IF r.ctype # "" THEN <<<<"Content-Type", <<r.ctype>>>>>> ELSE <<>>)
  \o (IF r.allow # {} THEN <<<<"Allow", SetToSeq(r.allow)>>>> ELSE <<>>)
  \o r.extra
\* The lines that all three have: the dedicated fields replace their headers.
Lines(r) ==
  (IF r.ctype # "" THEN <<<<"Content-Type", <<r.ctype>>>>>> ELSE <<>>)
  \o (IF r.allow # {} THEN <<<<"Allow", SetToSeq(r.allow)>>>> ELSE <<>>)
  \o SelectSeq(r.extra, LAMBDA h : /\ r.ctype # "" => Lower(h[1]) # "content-type"
                                   /\ r.allow # {} => Lower(h[1]) # "allow")

Close == <<<<"Connection", <<"close">>>>>>

\* Mutation of Framing: a status without a body is not looked at.
AlwaysChunked(kind, r, keep) ==
  CASE kind = "full" -> <<<<"Content-Length", <<r.body>>>>>> \o (IF keep THEN <<>> ELSE Close)
    [] kind = "chunked" -> <<<<"Transfer-Encoding", <<"chunked">>>>>> \o (IF keep THEN <<>> ELSE Close)
    [] kind = "http10" -> Close
Framing(kind, r, keep) ==
  CASE kind = "full" -> <<<<"Content-Length", <<r.body>>>>>> \o (IF keep THEN <<>> ELSE Close)
    [] kind = "chunked" -> (IF RhBodyless(r.status) THEN <<>> ELSE <<<<"Transfer-Encoding", <<"chunked">>>>>>)
                           \o (IF keep THEN <<>> ELSE Close)
    [] kind = "http10" -> Close

\* The heads of streaming responses are made of responses without a body.
Serialize ==
  /\ rhResp # NoResponse /\ rhKind = "none"
  /\ rhKind' \in {"full"} \cup (IF rhResp.body = "0" THEN {"chunked", "http10"} ELSE {})
  /\ rhKeep' \in BOOLEAN
  /\ rhHead' = Lines(rhResp) \o Framing(rhKind', rhResp, rhKeep')
  /\ UNCHANGED <<rhResp, rhCalls, rhVaried, rhStored>>

HeadInit ==
  /\ rhResp = NoResponse /\ rhCalls = 0
  /\ rhKind = "none" /\ rhKeep = FALSE /\ rhHead = <<>>
  /\ rhVaried = <<>> /\ rhStored = "no"

HeadNext == Start \/ Call \/ Serialize

-----------------------------------------------------------------------------
(* Properties                                                              *)

Count(n) == Cardinality(Named(rhHead, n))

\* Whatever calls made a response, its head frames the body in one way: a
\* Content-Length that is the body's, or Transfer-Encoding, or neither and then
\* the connection closes or the status has no body; Connection occurs only to
\* close; Content-Type and Allow occur once where they were set as such; every
\* other header of the application is there in its order; and no value breaks
\* its line (with_header, serialize_into, serialize_chunked_head,
\* serialize_streaming_head_http10).
HeadFramed ==
  rhKind # "none" =>
    /\ Count("content-length") + Count("transfer-encoding") <= 1
    /\ Count("content-length") = 1 <=> rhKind = "full"
    /\ rhKind = "full" => \A i \in Named(rhHead, "content-length") : rhHead[i][2] = <<rhResp.body>>
    /\ Count("content-length") + Count("transfer-encoding") = 0 =>
         Count("connection") = 1 \/ RhBodyless(rhResp.status)
    /\ RhBodyless(rhResp.status) => Count("transfer-encoding") = 0
    /\ Count("connection") = IF rhKeep /\ rhKind # "http10" THEN 0 ELSE 1
    /\ rhResp.ctype # "" => Count("content-type") = 1
    /\ rhResp.allow # {} =>
         Count("allow") = 1 /\ \E i \in Named(rhHead, "allow") : ToSet(rhHead[i][2]) = rhResp.allow
    /\ LET mine(h) == Lower(h[1]) \notin Reserved \cup {"content-type", "allow"}
       IN SelectSeq(rhHead, mine) = SelectSeq(rhResp.extra, mine)
    /\ \A i \in 1..Len(rhHead) : "ctl" \notin ToSet(rhHead[i][2])

\* What a browser makes of a Location: a control character is dropped and a
\* backslash is a slash, and two slashes begin another host.
Leaves(l) ==
  LET seen == SelectSeq([i \in 1..Len(l) |-> IF l[i] = "\\" THEN "/" ELSE l[i]], LAMBDA c : c # "ctl")
  IN seen = <<>> \/ seen[1] # "/" \/ (Len(seen) > 1 /\ seen[2] = "/")

\* The directives that a cache finds in what the application wrote.
Announced(v, name) ==
  \E ds \in RhDirectives \cup {<<[name |-> "no-store", arg |-> <<>>]>>} :
    v = Written(ds) /\ \E i \in 1..Len(ds) : ds[i].name = name

\* A cache and a browser are told what was asked for. Every field passed to
\* with_vary is a token or the asterisk and is covered by some Vary header, and
\* none is added that was covered, in whatever case;
\* after with_no_store a cache finds the directive, in one line of its own if
\* the application had not written it, quoted text that looks like it not
\* counting; and a 303 of see_other stays at the site for every browser
\* (with_vary, with_no_store, has_directive, validate_same_origin_location).
HeadersHeeded ==
  LET vary == VaryMembers(Named(rhResp.extra, "vary"))
      varied == {Lower(f) : f \in ToSet(rhVaried)}
      added == {i \in 1..Len(rhResp.extra) : rhResp.extra[i] = <<"Cache-Control", <<"no-store">>>>}
      control == Named(rhResp.extra, "cache-control")
  IN /\ \A f \in varied : <<f>> \in vary \/ <<"*">> \in vary
     /\ varied \subseteq Range(RhLower) \cup {"*"}
     /\ Cardinality({i \in Named(rhResp.extra, "vary") : rhResp.extra[i][1] = "Vary"})
          <= Cardinality(varied)
     /\ rhStored # "no" => \E i \in control : Announced(rhResp.extra[i][2], "no-store")
     /\ rhStored = "lacked" => added # {}
     /\ rhResp.status = 303 /\ 303 \notin RhStatuses => ~Leaves(rhResp.extra[1][2])

\* A head says one thing of the body, and to caches and browsers what was asked
\* for (Response::with_header, serialize_into).
HeadSound == HeadFramed /\ HeadersHeeded
=============================================================================
