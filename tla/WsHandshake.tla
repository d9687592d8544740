----------------------------- MODULE WsHandshake -----------------------------
(***************************************************************************)
(* How a connection becomes a WebSocket: the configurations an application *)
(* registers (plugin-websocket/src/config.rs, pattern.rs), the choice      *)
(* among them when a request arrives (core/src/plugin.rs,                  *)
(* try_handle_upgrade) and the task that answers the handshake             *)
(* (plugin-websocket/src/lib.rs, handshake.rs), racing the cancellation of *)
(* the listener's generation. The session that follows is WsSession.       *)
(*                                                                         *)
(* A path is its leading slash and its segments; a pattern the same, with  *)
(* segments <<kind, text>>, as in Router. A header is the sequence of its  *)
(* values; a value of Connection is the set of its tokens. The hook given  *)
(* to with_handshake_check is the application's: here it admits the        *)
(* origins it knows, read with WsHandshakeContext::header, and refuses the *)
(* others with a response of any status.                                   *)
(***************************************************************************)
EXTENDS Integers, Sequences, FiniteSets, Selection

CONSTANTS
  WsPaths,         \* paths given to with_path
  WsPatterns,      \* patterns given to with_path_pattern
  WsHeads,         \* requests that may arrive
  WsNames,         \* the names of [A-Za-z0-9_]+
  WsUnsafe,        \* values is_safe_segment_value refuses for what they are
  WsLong,          \* texts over the length limit that applies to them
  WsMaxSegments,   \* MAX_PATTERN_SEGMENTS
  AllowedOrigins,  \* the origins the hook admits
  Rejections,      \* the statuses the hook may refuse with
  MaxSettings,     \* bound: setter calls for one configuration
  MaxConfigs       \* bound: registered configurations

ASSUME HandshakeAssumption ==
  /\ "" \in WsUnsafe /\ "" \notin AllowedOrigins
  /\ WsMaxSegments \in Nat /\ MaxSettings \in Nat /\ MaxConfigs \in Nat
  /\ WsPaths \subseteq [slash : BOOLEAN, segs : Seq(STRING)]
  /\ WsPatterns \subseteq
       [slash : BOOLEAN, segs : Seq({"literal", "param", "mixed"} \X STRING)]
  /\ WsHeads \subseteq
       [path : [slash : BOOLEAN, segs : Seq(STRING)], method : STRING,
        http11 : BOOLEAN, connection : Seq(SUBSET STRING),
        upgrade : Seq(STRING), version : Seq(STRING), key : Seq(STRING),
        origin : Seq(STRING)]

VARIABLES
  wsBuild,    \* the configuration being built
  wsSettings, \* bound: the setter calls made on it
  wsConfigs,  \* the server's configurations, in the order of registration
  wsPc,       \* where the upgrade is, see WsTypeOK
  wsHead,     \* the request, <<>> before it arrives
  wsChosen,   \* the number of the configuration that took it, 0 for none
  wsCancel,   \* whether the cancellation has fired
  wsOut,      \* the status of the response that is being written, 0 for none
  wsWire,     \* how much of it was written: "none", "part", "whole"
  wsOpened    \* what on_open was given, <<>> until it is called

wsVars == <<wsBuild, wsSettings, wsConfigs, wsPc, wsHead, wsChosen, wsCancel,
            wsOut, wsWire, wsOpened>>

-----------------------------------------------------------------------------
(* Patterns.                                                               *)

\* A pattern without a brace: it is compared as it stands.
IsExact(pat) == \A i \in DOMAIN pat.segs : pat.segs[i][1] = "literal"

\* The error parse reports for segment i, "" for none.
WsSegmentError(segs, i) ==
  LET kind == segs[i][1]
      text == segs[i][2]
  IN IF text = "" /\ kind = "literal" THEN "EmptySegment"
     ELSE IF text \in WsLong THEN "SegmentTooLong"
     ELSE IF kind = "mixed" THEN "MixedSegment"
     ELSE IF kind = "literal" THEN ""
     ELSE IF text = "" THEN "EmptyParamName"
     ELSE IF text \notin WsNames THEN "InvalidParamName"
     ELSE IF \E j \in 1..(i - 1) : segs[j] = segs[i] THEN "DuplicateParamName"
     ELSE ""

\* PathPattern::parse: the error it returns, "" for none.
WsParseError(pat) ==
  LET bad == {i \in DOMAIN pat.segs : WsSegmentError(pat.segs, i) # ""}
  IN IF IsExact(pat) THEN ""
     ELSE IF ~pat.slash THEN "MissingLeadingSlash"
     ELSE IF Len(pat.segs) > WsMaxSegments THEN "TooManySegments"
     ELSE IF bad # {} THEN
            WsSegmentError(pat.segs, CHOOSE i \in bad : \A j \in bad : i <= j)
     ELSE ""

\* Mutation of WsSafeValue: an empty segment is a value.
EmptySafeValue(v) == v = "" \/ v \notin WsUnsafe \cup WsLong
WsSafeValue(v) == v \notin WsUnsafe \cup WsLong

\* Mutation of WsMatches: the segments left over are not looked at.
PrefixMatches(pat, path) ==
  IF IsExact(pat)
  THEN path = [slash |-> pat.slash,
               segs |-> [i \in DOMAIN pat.segs |-> pat.segs[i][2]]]
  ELSE /\ path.slash
       /\ Len(path.segs) >= Len(pat.segs)
       /\ \A i \in DOMAIN pat.segs :
            CASE pat.segs[i][1] = "literal" -> path.segs[i] = pat.segs[i][2]
              [] OTHER -> WsSafeValue(path.segs[i])
\* PathPattern::match_path and match_segments: whether they return Some.
WsMatches(pat, path) ==
  IF IsExact(pat)
  THEN path = [slash |-> pat.slash,
               segs |-> [i \in DOMAIN pat.segs |-> pat.segs[i][2]]]
  ELSE /\ path.slash
       /\ Len(path.segs) = Len(pat.segs)
       /\ \A i \in DOMAIN pat.segs :
            CASE pat.segs[i][1] = "literal" -> path.segs[i] = pat.segs[i][2]
              [] OTHER -> WsSafeValue(path.segs[i])

\* The parameters they return, in order.
WsExtract(pat, path) ==
  LET all == [i \in DOMAIN pat.segs |->
                <<pat.segs[i][1], pat.segs[i][2], path.segs[i]>>]
      params == {all[i] : i \in {j \in DOMAIN all : all[j][1] = "param"}}
      found == Select(all, params)
  IN [i \in DOMAIN found |-> <<found[i][2], found[i][3]>>]

-----------------------------------------------------------------------------
(* Configurations. `given` is a history variable: the last call that set   *)
(* the path.                                                               *)

DefaultConfig ==
  [path |-> [slash |-> TRUE, segs |-> <<"ws">>], pattern |-> <<>>, check |-> FALSE,
   given |-> <<"path", [slash |-> TRUE, segs |-> <<"ws">>]>>]

Setting(config) ==
  /\ wsPc = "building" /\ wsSettings < MaxSettings
  /\ wsSettings' = wsSettings + 1
  /\ wsBuild' = config
  /\ UNCHANGED <<wsConfigs, wsPc, wsHead, wsChosen, wsCancel, wsOut, wsWire, wsOpened>>

\* Mutation of WithPath: an earlier pattern survives.
PatternSurvives(path) ==
  Setting([wsBuild EXCEPT !.path = path, !.given = <<"path", path>>])
WithPath(path) ==
  Setting([wsBuild EXCEPT !.path = path, !.pattern = <<>>, !.given = <<"path", path>>])

\* with_path_pattern: an error takes the configuration with it, and the
\* application gives up.
WithPathPattern(pat) ==
  IF WsParseError(pat) = ""
  THEN Setting([wsBuild EXCEPT !.pattern = <<pat>>, !.given = <<"pattern", pat>>])
  ELSE /\ wsPc = "building"
       /\ wsPc' = "failed"
       /\ wsBuild' = DefaultConfig /\ wsSettings' = 0
       /\ UNCHANGED <<wsConfigs, wsHead, wsChosen, wsCancel, wsOut, wsWire, wsOpened>>

WithHandshakeCheck == Setting([wsBuild EXCEPT !.check = TRUE])
WithoutHandshakeCheck == Setting([wsBuild EXCEPT !.check = FALSE])

\* Server::websocket.
RegisterConfig ==
  /\ wsPc = "building" /\ Len(wsConfigs) < MaxConfigs
  /\ wsConfigs' = Append(wsConfigs, wsBuild)
  /\ wsBuild' = DefaultConfig /\ wsSettings' = 0
  /\ UNCHANGED <<wsPc, wsHead, wsChosen, wsCancel, wsOut, wsWire, wsOpened>>

-----------------------------------------------------------------------------
(* The request.                                                            *)

\* RequestHead::header: the first value, "" for none.
HeadHeader(values) == IF values = <<>> THEN "" ELSE Head(values)

\* Mutation of CtxHeader: the first of several values.
FirstOfSeveral(values) == HeadHeader(values)
\* WsHandshakeContext::header: nothing when the header is repeated.
CtxHeader(values) == IF Len(values) = 1 THEN Head(values) ELSE ""

\* handshake::match_config_path: whether it returns Some.
MatchConfigPath(h, config) ==
  IF config.pattern = <<>> THEN h.path = config.path
  ELSE WsMatches(config.pattern[1], h.path)

\* The parameters it returns.
ConfigParams(h, config) ==
  IF config.pattern = <<>> \/ IsExact(config.pattern[1]) THEN <<>>
  ELSE WsExtract(config.pattern[1], h.path)

\* handshake::matches.
UpgradeMatches(h, config) ==
  /\ MatchConfigPath(h, config)
  /\ h.method = "GET"
  /\ HeadHeader(h.upgrade) = "websocket"

\* Mutation of Validate: the Connection header is not looked at.
IgnoresConnection(h) ==
  IF h.method # "GET" THEN 400
  ELSE IF ~h.http11 THEN 400
  ELSE IF HeadHeader(h.upgrade) # "websocket" THEN 400
  ELSE IF HeadHeader(h.version) # "13" THEN 426
  ELSE IF HeadHeader(h.key) # "valid" THEN 400
  ELSE 101
\* handshake::validate, and the response handle_upgrade_with_peer_addr makes
\* of its result. A key is "valid" when is_valid_base64_key accepts it.
Validate(h) ==
  IF h.method # "GET" THEN 400
  ELSE IF ~h.http11 THEN 400
  ELSE IF HeadHeader(h.upgrade) # "websocket" THEN 400
  ELSE IF ~\E i \in DOMAIN h.connection : "upgrade" \in h.connection[i] THEN 400
  ELSE IF HeadHeader(h.version) # "13" THEN 426
  ELSE IF HeadHeader(h.key) # "valid" THEN 400
  ELSE 101

\* Response::is_bodyless_status.
Bodyless(status) == status \in 100..199 \cup {204, 304}

\* Mutation of NormalizeRejection: a redirection to nowhere goes through.
AnyRejection(status) == status
NormalizeRejection(status) ==
  IF status \in 300..599 /\ ~Bodyless(status) THEN status ELSE 400

\* The responses the task may decide on for a request: what the hook refuses
\* with is the application's choice.
Decisions(h, config) ==
  IF Validate(h) # 101 THEN {Validate(h)}
  ELSE IF config.check /\ CtxHeader(h.origin) \notin AllowedOrigins
       THEN {NormalizeRejection(status) : status \in Rejections}
       ELSE {101}

\* ConnRequestInfo::from_head, bounded_header_value.
HandlerOrigin(h) ==
  IF HeadHeader(h.origin) \in WsLong THEN "" ELSE HeadHeader(h.origin)

-----------------------------------------------------------------------------
(* The upgrade.                                                            *)

Takers(h) == {i \in DOMAIN wsConfigs : UpgradeMatches(h, wsConfigs[i])}

\* Mutation of RequestArrives: the configuration registered last wins.
LastWins(h) ==
  /\ wsPc = "building"
  /\ wsHead' = h
  /\ wsChosen' = IF Takers(h) = {} THEN 0
                 ELSE CHOOSE i \in Takers(h) : \A j \in Takers(h) : i >= j
  /\ wsPc' = IF Takers(h) = {} THEN "passed" ELSE "spawned"
  /\ wsBuild' = DefaultConfig /\ wsSettings' = 0
  /\ UNCHANGED <<wsConfigs, wsCancel, wsOut, wsWire, wsOpened>>
\* try_handle_upgrade: the first configuration that matches takes the
\* connection to a task of its own; without one it stays with HTTP.
RequestArrives(h) ==
  /\ wsPc = "building"
  /\ wsHead' = h
  /\ wsChosen' = IF Takers(h) = {} THEN 0
                 ELSE CHOOSE i \in Takers(h) : \A j \in Takers(h) : i <= j
  /\ wsPc' = IF Takers(h) = {} THEN "passed" ELSE "spawned"
  /\ wsBuild' = DefaultConfig /\ wsSettings' = 0
  /\ UNCHANGED <<wsConfigs, wsCancel, wsOut, wsWire, wsOpened>>

\* The task's first poll: an upgrade cancelled before it began writes
\* nothing; otherwise the response is decided on. There is no await between.
Decide ==
  /\ wsPc = "spawned"
  /\ IF wsCancel
     THEN wsPc' = "ended" /\ UNCHANGED wsOut
     ELSE /\ wsPc' = "writing"
          /\ wsOut' \in Decisions(wsHead, wsConfigs[wsChosen])
  /\ UNCHANGED <<wsBuild, wsSettings, wsConfigs, wsHead, wsChosen, wsCancel,
                 wsWire, wsOpened>>

\* Mutation of WritePoll: on_open is called when the write has begun.
OpensEarly ==
  /\ wsPc = "writing"
  /\ \/ wsCancel /\ wsPc' = "ended" /\ UNCHANGED <<wsWire, wsOpened>>
     \/ ~wsCancel /\ wsPc' = "ended" /\ UNCHANGED <<wsWire, wsOpened>>
     \/ ~wsCancel /\ wsWire' = "part" /\ UNCHANGED wsPc
        /\ wsOpened' = IF wsOut # 101 THEN wsOpened
             ELSE <<ConfigParams(wsHead, wsConfigs[wsChosen]), HandlerOrigin(wsHead)>>
     \/ /\ ~wsCancel /\ wsWire' = "whole" /\ UNCHANGED wsOpened
        /\ wsPc' = IF wsOut = 101 THEN "session" ELSE "ended"
  /\ UNCHANGED <<wsBuild, wsSettings, wsConfigs, wsHead, wsChosen, wsCancel, wsOut>>
\* Mutation of WritePoll: the cancellation is not raced.
NotRaced ==
  /\ wsPc = "writing" /\ wsWire # "part"
  /\ \/ wsWire' = "part" /\ UNCHANGED <<wsPc, wsOpened>>
     \/ /\ wsWire' = "whole"
        /\ wsPc' = IF wsOut = 101 THEN "session" ELSE "ended"
        /\ wsOpened' = IF wsOut # 101 THEN wsOpened
             ELSE <<ConfigParams(wsHead, wsConfigs[wsChosen]), HandlerOrigin(wsHead)>>
  /\ UNCHANGED <<wsBuild, wsSettings, wsConfigs, wsHead, wsChosen, wsCancel, wsOut>>
\* One poll of write_racing_cancel: the cancellation is looked at first;
\* the write then fails, gets on or is done, and after the whole 101 on_open
\* is called, in the same poll.
WritePoll ==
  /\ wsPc = "writing"
  /\ \/ wsCancel /\ wsPc' = "ended" /\ UNCHANGED <<wsWire, wsOpened>>
     \/ ~wsCancel /\ wsPc' = "ended" /\ UNCHANGED <<wsWire, wsOpened>>
     \/ ~wsCancel /\ wsWire' = "part" /\ UNCHANGED <<wsPc, wsOpened>>
     \/ /\ ~wsCancel /\ wsWire' = "whole"
        /\ wsPc' = IF wsOut = 101 THEN "session" ELSE "ended"
        /\ wsOpened' = IF wsOut # 101 THEN wsOpened
             ELSE <<ConfigParams(wsHead, wsConfigs[wsChosen]), HandlerOrigin(wsHead)>>
  /\ UNCHANGED <<wsBuild, wsSettings, wsConfigs, wsHead, wsChosen, wsCancel, wsOut>>

\* The listener's generation is cancelled.
CancelUpgrade ==
  /\ ~wsCancel /\ wsPc \in {"spawned", "writing"}
  /\ wsCancel' = TRUE
  /\ UNCHANGED <<wsBuild, wsSettings, wsConfigs, wsPc, wsHead, wsChosen, wsOut,
                 wsWire, wsOpened>>

WsTask == Decide \/ WritePoll

WsInit ==
  /\ wsBuild = DefaultConfig /\ wsSettings = 0 /\ wsConfigs = <<>>
  /\ wsPc = "building" /\ wsHead = <<>> /\ wsChosen = 0 /\ wsCancel = FALSE
  /\ wsOut = 0 /\ wsWire = "none" /\ wsOpened = <<>>

WsNext ==
  \/ \E path \in WsPaths : WithPath(path)
  \/ \E pat \in WsPatterns : WithPathPattern(pat)
  \/ WithHandshakeCheck \/ WithoutHandshakeCheck \/ RegisterConfig
  \/ \E h \in WsHeads : RequestArrives(h)
  \/ WsTask \/ CancelUpgrade

WsSpec == WsInit /\ [][WsNext]_wsVars

\* The upgrade's task is polled when it can go on.
WsFairness == WF_wsVars(WsTask)

-----------------------------------------------------------------------------
(* Properties.                                                             *)

\* The values each variable may have.
WsTypeOK ==
  /\ wsSettings \in 0..MaxSettings /\ Len(wsConfigs) <= MaxConfigs
  /\ wsPc \in {"building", "failed", "passed", "spawned", "writing", "session", "ended"}
  /\ wsChosen \in 0..Len(wsConfigs) /\ wsCancel \in BOOLEAN
  /\ wsOut \in {0, 101} \cup 300..599
  /\ wsWire \in {"none", "part", "whole"}

\* What a path given to with_path, or a pattern given to with_path_pattern,
\* admits, said without the matching algorithm: the pattern's parameters have
\* safe values that make it the path, segment by segment.
Admits(given, path) ==
  IF given[1] = "path" THEN given[2] = path
  ELSE LET pat == given[2]
           texts == {path.segs[i] : i \in DOMAIN path.segs}
           values == texts \ (WsUnsafe \cup WsLong)
           names == {pat.segs[i][2] : i \in {j \in DOMAIN pat.segs : pat.segs[j][1] = "param"}}
       IN \E f \in [names -> values] :
            path = [slash |-> pat.slash,
                    segs |-> [i \in DOMAIN pat.segs |->
                                IF pat.segs[i][1] = "param" THEN f[pat.segs[i][2]]
                                ELSE pat.segs[i][2]]]

\* The configuration that takes a connection is the first one whose path, as
\* it was set last, admits the request's, and a request that some
\* configuration admits is never left to HTTP when it asks for a WebSocket
\* (try_handle_upgrade, match_config_path, with_path, with_path_pattern).
UpgradeRouted ==
  wsPc \in {"passed", "spawned", "writing", "session", "ended"} =>
    LET asks == wsHead.method = "GET" /\ wsHead.upgrade # <<>>
                /\ wsHead.upgrade[1] = "websocket"
        admit == {i \in DOMAIN wsConfigs : Admits(wsConfigs[i].given, wsHead.path)}
    IN IF asks /\ admit # {}
       THEN wsChosen \in admit /\ \A i \in admit : wsChosen <= i
       ELSE wsChosen = 0 /\ wsPc = "passed"

\* on_open is called only once the whole 101 is on the wire, of a handshake
\* that meets RFC 6455 and whose only Origin the hook admits, where there is
\* a hook; the parameters and the origin the handler is shown are those the
\* hook was shown. Whatever else is written is a complete answer of HTTP: a
\* status from 300 that has a body (handle_upgrade_with_peer_addr,
\* WsHandshakeContext::header, normalize_rejection).
OpenedIsEntitled ==
  /\ wsOpened # <<>> =>
       LET config == wsConfigs[wsChosen]
           pat == config.given[2]
           params == wsOpened[1]
       IN /\ wsOut = 101 /\ wsWire = "whole" /\ wsPc = "session"
          /\ wsHead.method = "GET" /\ wsHead.http11
          /\ "upgrade" \in UNION {wsHead.connection[i] : i \in DOMAIN wsHead.connection}
          /\ wsHead.version[1] = "13" /\ wsHead.key[1] = "valid"
          /\ config.check => /\ \E o \in AllowedOrigins : wsHead.origin = <<o>>
                             /\ wsOpened[2] \in {wsHead.origin[1], ""}
          /\ config.given[1] = "pattern" =>
               \A i \in DOMAIN pat.segs : pat.segs[i][1] = "param" =>
                 <<pat.segs[i][2], wsHead.path.segs[i]>> \in {params[j] : j \in DOMAIN params}
  /\ wsPc = "session" => wsOpened # <<>>
  /\ wsOut \notin {0, 101} => wsOut \in 300..599 /\ ~Bodyless(wsOut)

\* A step of an upgrade that has been cancelled opens and writes nothing.
CancelledQuiet == wsCancel => wsOpened' = wsOpened /\ wsWire' = wsWire

\* An upgrade that has been cancelled opens nothing any more and ends, even
\* when the peer takes nothing of the response (race_cancel).
UpgradeStops ==
  /\ [][CancelledQuiet]_wsVars
  /\ []<>(wsCancel => wsPc \in {"ended", "session"})

\* A connection is taken by the configuration it is for, and a session is
\* opened only on a handshake that entitles to it (try_handle_upgrade,
\* handle_upgrade_with_peer_addr).
UpgradeEntitled == WsTypeOK /\ UpgradeRouted /\ OpenedIsEntitled
=============================================================================
