----------------------------- MODULE StaticFiles -----------------------------
(***************************************************************************)
(* Static files (plugin-static/src/lib.rs, mime.rs): a mount is configured *)
(* and validated, and a request under it is then resolved and read by a    *)
(* blocking task, one system call at a time, while other processes write,  *)
(* truncate and remove the files. The directories and the symbolic links   *)
(* are those of the deployment and stay as they are.                       *)
(*                                                                         *)
(* The text of a path after its leading slash, split at "/", is a sequence *)
(* of segments that is never empty: "/" is <<"">>, "/a/" is <<"a", "">>. A *)
(* place of the file system is the sequence of names that leads to it.     *)
(***************************************************************************)
EXTENDS Integers, Sequences, FiniteSets, SequencesExt

CONSTANTS
  Mounts,         \* texts given to builder: [slash, segs]
  Roots,          \* places given to builder
  StaticRequests, \* requests: [get, slash, segs]
  UnsafeNames,    \* segments is_safe_segment refuses, "" and ".." among them
  RelaxedNames,   \* those among them is_safe_segment_relaxed accepts
  BadMountTexts,  \* segments with "?", "#" or a control character
  Directories,    \* places that are directories
  Links,          \* symbolic links: the place each one stands for
  Files,          \* places where there may be a file
  Devices,        \* places of what is neither: sockets, devices
  InitialSizes,   \* the sizes the files may have at first
  MaxLinks,       \* links the system follows before it gives up
  Extension,      \* the extension of a file name, "" for none
  Lower,          \* to_ascii_lowercase and the leading "." removed
  BadExtensions,  \* extensions validate_mime_overrides refuses
  MimeTable,      \* mime.rs: the types of the known extensions
  MimeCalls,      \* arguments of the builder's mime: <<extension, type>>
  MaxFileBytes,   \* max_file_bytes
  MaxSize,        \* bound: the size of a file
  MaxMimes,       \* bound: calls of mime
  MaxChanges      \* bound: disturbances, see stChanges

ASSUME StaticAssumption ==
  /\ "" \in UnsafeNames /\ RelaxedNames \subseteq UnsafeNames
  /\ "" \notin RelaxedNames
  /\ InitialSizes \subseteq [Files -> -1..MaxSize]
  /\ MaxFileBytes \in 0..MaxSize /\ MaxMimes \in Nat /\ MaxChanges \in Nat

VARIABLES
  stPc,      \* where the server or the request is, see StaticTypeOK
  stMount, stRoot, stFall, \* the configuration: mount, root, fallthrough_on_miss
  stMimes,   \* its mime_overrides
  stMimeLog, \* history: the calls of mime
  stSizes,   \* the sizes of the files, -1 where there is none
  stChanges, \* bound: changes made to them, and losses of the task
  stRequest, \* the request, <<>> before it arrives
  stSegs,    \* its path below the mount
  stDir,     \* whether it ended in "/"
  stPlace,   \* the place resolved so far
  stAnswer   \* <<>>, or what the request was answered with

stVars == <<stPc, stMount, stRoot, stFall, stMimes, stMimeLog, stSizes,
            stChanges, stRequest, stSegs, stDir, stPlace, stAnswer>>
stConfig == <<stMount, stRoot, stFall, stMimes, stMimeLog>>
stWork == <<stRequest, stSegs, stDir, stPlace, stAnswer>>

-----------------------------------------------------------------------------
(* The file system.                                                        *)

LinksOn(p) == {n \in 1..Len(p) : SubSeq(p, 1, n) \in DOMAIN Links}

\* One link followed: the one nearest to the top.
Follow(p) ==
  IF LinksOn(p) = {} THEN p
  ELSE LET n == CHOOSE i \in LinksOn(p) : \A j \in LinksOn(p) : i <= j
       IN Links[SubSeq(p, 1, n)] \o SubSeq(p, n + 1, Len(p))

Followed(p) == FoldLeft(LAMBDA q, i : Follow(q), p, [i \in 1..MaxLinks |-> i])

Exists(p) == p \in Directories \cup Devices \/ (p \in Files /\ stSizes[p] >= 0)

\* std::fs::canonicalize: the places it may return.
Canonical(p) == {q \in {Followed(p)} : LinksOn(q) = {} /\ Exists(q)}

-----------------------------------------------------------------------------
(* Configuration.                                                          *)

\* validate_mount.
MountOk(mount) ==
  /\ mount.slash
  /\ mount.segs # <<"">> =>
       \A i \in DOMAIN mount.segs : mount.segs[i] \notin {""} \cup BadMountTexts

\* Mutation of Override: the first call for an extension stays in front.
KeepsFirst(list, call) == Append(list, <<Lower[call[1]], call[2]>>)
\* validate_mime_overrides: what it makes of one entry.
Override(list, call) ==
  LET Other(entry) == entry[1] # Lower[call[1]]
  IN Append(SelectSeq(list, Other), <<Lower[call[1]], call[2]>>)

\* The builder's mime and fallthrough_on_miss. The list is kept as build
\* validates it.
MimeCall(call) ==
  /\ stPc = "building" /\ Len(stMimeLog) < MaxMimes
  /\ stMimeLog' = Append(stMimeLog, call)
  /\ UNCHANGED <<stPc, stMount, stRoot, stFall, stMimes, stSizes, stChanges, stWork>>

FallthroughOnMiss ==
  /\ stPc = "building" /\ ~stFall
  /\ stFall' = TRUE
  /\ UNCHANGED <<stPc, stMount, stRoot, stMimes, stMimeLog, stSizes, stChanges, stWork>>

BuildError ==
  IF ~MountOk(stMount) THEN "InvalidMount"
  ELSE IF Canonical(stRoot) = {} THEN "RootNotAccessible"
  ELSE IF ~Canonical(stRoot) \subseteq Directories THEN "RootNotADirectory"
  ELSE IF \E i \in DOMAIN stMimeLog :
         stMimeLog[i][1] \in BadExtensions \/ stMimeLog[i][2] = "" THEN "InvalidMimeMapping"
  ELSE ""

\* build: the root is kept as canonicalize returns it.
StaticBuild ==
  /\ stPc = "building"
  /\ IF BuildError # ""
     THEN stPc' = "failed" /\ UNCHANGED <<stRoot, stMimes>>
     ELSE /\ stPc' = "serving"
          /\ stRoot' \in Canonical(stRoot)
          /\ stMimes' = FoldLeft(Override, <<>>, stMimeLog)
  /\ UNCHANGED <<stMount, stFall, stMimeLog, stSizes, stChanges, stWork>>

-----------------------------------------------------------------------------
(* A request.                                                              *)

\* Mutation of StripMount: the mount is compared in length only.
AnyUnderMount(r) ==
  IF ~r.slash THEN {}
  ELSE IF stMount.segs = <<"">> THEN {r.segs}
  ELSE IF r.segs = stMount.segs THEN {<<"">>}
  ELSE {tail \in {SubSeq(r.segs, Len(stMount.segs) + 1, Len(r.segs))} : tail # <<>>}
\* strip_mount: the segments of the tail it may return.
StripMount(r) ==
  IF ~r.slash THEN {}
  ELSE IF stMount.segs = <<"">> THEN {r.segs}
  ELSE IF r.segs = stMount.segs THEN {<<"">>}
  ELSE {tail \in {SubSeq(r.segs, Len(stMount.segs) + 1, Len(r.segs))} :
          IsStrictPrefix(stMount.segs, r.segs)}

\* Mutation of SafeSegment: the segments of a resolved path are the rule.
RelaxedSegment(name) == name \notin UnsafeNames \ RelaxedNames
SafeSegment(name) == name \notin UnsafeNames

\* The closure miss: the request goes on to the router, or is answered 404.
Missed == IF stFall THEN <<"passed">> ELSE <<"missed">>

Answered(answer) ==
  /\ stPc' = "answered" /\ stAnswer' = answer
  /\ UNCHANGED <<stConfig, stSizes, stChanges, stRequest, stSegs, stDir, stPlace>>

\* try_handle_static up to the blocking task.
StaticRequest(r) ==
  LET tails == StripMount(r)
      tail == CHOOSE t \in tails : TRUE
      dir == Len(tail) > 1 /\ Last(tail) = ""
      rest == IF dir THEN Front(tail) ELSE tail
      segs == IF rest = <<"">> THEN <<>> ELSE rest
      missed == (dir /\ rest = <<"">>) \/ ~\A i \in DOMAIN segs : SafeSegment(segs[i])
      passed == ~r.get \/ tails = {}
  IN /\ stPc = "serving"
     /\ stRequest' = r
     /\ stPc' = IF passed \/ missed THEN "answered" ELSE "canonicalize"
     /\ stAnswer' = IF passed THEN <<"passed">> ELSE IF missed THEN Missed ELSE <<>>
     /\ stSegs' = IF passed THEN <<>> ELSE segs
     /\ stDir' = (~passed /\ dir)
     /\ UNCHANGED <<stConfig, stSizes, stChanges, stPlace>>

\* starts_with(root) and resolved_path_is_safe.
SafePlace(p) ==
  /\ IsPrefix(stRoot, p)
  /\ \A i \in (Len(stRoot) + 1)..Len(p) : p[i] \notin UnsafeNames \ RelaxedNames

GoOn(pc, place) ==
  /\ stPc' = pc /\ stPlace' = place
  /\ UNCHANGED <<stConfig, stSizes, stChanges, stRequest, stSegs, stDir, stAnswer>>

\* Mutation of CanonicalizeCall: what was resolved is not compared with the root.
TrustsResolved ==
  LET found == Canonical(stRoot \o stSegs)
  IN /\ stPc = "canonicalize"
     /\ IF found = {} THEN Answered(Missed)
        ELSE GoOn("stat", CHOOSE p \in found : TRUE)
CanonicalizeCall ==
  LET found == {p \in Canonical(stRoot \o stSegs) : SafePlace(p)}
  IN /\ stPc = "canonicalize"
     /\ IF found = {} THEN Answered(Missed)
        ELSE GoOn("stat", CHOOSE p \in found : TRUE)

\* Mutation of StatCall: a file is served under a name that ends in "/".
FileAsDirectory ==
  /\ stPc = "stat"
  /\ IF ~Exists(stPlace) THEN Answered(Missed)
     ELSE IF stPlace \in Directories THEN GoOn("index", stPlace)
     ELSE IF stPlace \in Files THEN GoOn("size", stPlace)
     ELSE Answered(Missed)
StatCall ==
  /\ stPc = "stat"
  /\ IF ~Exists(stPlace) THEN Answered(Missed)
     ELSE IF stDir /\ stPlace \notin Directories THEN Answered(Missed)
     ELSE IF stPlace \in Directories THEN GoOn("index", stPlace)
     ELSE IF stPlace \in Files THEN GoOn("size", stPlace)
     ELSE Answered(Missed)

IndexCall ==
  LET found == {p \in Canonical(Append(stPlace, "index.html")) : SafePlace(p)}
  IN /\ stPc = "index"
     /\ IF found = {} THEN Answered(Missed)
        ELSE GoOn("size", CHOOSE p \in found : TRUE)

SizeCall ==
  /\ stPc = "size"
  /\ IF stPlace \in Files /\ stSizes[stPlace] \in 0..MaxFileBytes
     THEN GoOn("read", stPlace)
     ELSE Answered(Missed)

\* content_type_for_extension.
ContentType(name) ==
  LET ext == Extension[name]
      own == {i \in DOMAIN stMimes : stMimes[i][1] = ext}
  IN IF ext = "" THEN "application/octet-stream"
     ELSE IF own # {} THEN stMimes[CHOOSE i \in own : \A j \in own : i <= j][2]
     ELSE IF ext \in DOMAIN MimeTable THEN MimeTable[ext]
     ELSE "application/octet-stream"

\* Mutation of ReadCall: the size is trusted from the stat before.
TrustsStat ==
  /\ stPc = "read"
  /\ IF stSizes[stPlace] >= 0
     THEN Answered(<<"file", stSizes[stPlace], ContentType(Last(stPlace))>>)
     ELSE Answered(Missed)
ReadCall ==
  /\ stPc = "read"
  /\ IF stSizes[stPlace] \in 0..MaxFileBytes
     THEN Answered(<<"file", stSizes[stPlace], ContentType(Last(stPlace))>>)
     ELSE Answered(Missed)

Working == {"canonicalize", "stat", "index", "size", "read"}

\* The blocking task panics or is dropped with the runtime: JoinError.
TaskLost ==
  /\ stPc \in Working /\ stChanges < MaxChanges
  /\ stChanges' = stChanges + 1
  /\ stPc' = "answered" /\ stAnswer' = Missed
  /\ UNCHANGED <<stConfig, stSizes, stRequest, stSegs, stDir, stPlace>>

\* Another process writes or removes a file.
FileChanges(p, size) ==
  /\ stPc \in Working /\ stChanges < MaxChanges
  /\ stSizes' = [stSizes EXCEPT ![p] = size]
  /\ stChanges' = stChanges + 1
  /\ UNCHANGED <<stPc, stConfig, stWork>>

StaticInit ==
  /\ stPc = "building" /\ stMount \in Mounts /\ stRoot \in Roots /\ stFall = FALSE
  /\ stMimes = <<>> /\ stMimeLog = <<>>
  /\ stSizes \in InitialSizes
  /\ stChanges = 0 /\ stRequest = <<>> /\ stSegs = <<>> /\ stDir = FALSE
  /\ stPlace = <<>> /\ stAnswer = <<>>

StaticNext ==
  \/ \E call \in MimeCalls : MimeCall(call)
  \/ FallthroughOnMiss \/ StaticBuild
  \/ \E r \in StaticRequests : StaticRequest(r)
  \/ CanonicalizeCall \/ StatCall \/ IndexCall \/ SizeCall \/ ReadCall \/ TaskLost
  \/ \E p \in Files, size \in {-1, MaxFileBytes, MaxFileBytes + 1} : FileChanges(p, size)

-----------------------------------------------------------------------------
(* Properties.                                                             *)

\* The values each variable may have.
StaticTypeOK ==
  /\ stPc \in {"building", "failed", "serving", "answered"} \cup Working
  /\ stSizes \in [Files -> -1..MaxSize] /\ stChanges \in 0..MaxChanges
  /\ stDir \in BOOLEAN /\ stFall \in BOOLEAN

\* What the request names, said of the whole text of its path: what remains of
\* it after the mount, its names, and whether it ends as a directory does.
Named ==
  LET r == stRequest
      n == IF stMount.segs = <<"">> THEN 0 ELSE Len(stMount.segs)
      below == SubSeq(r.segs, n + 1, Len(r.segs))
  IN [under |-> /\ r.get /\ r.slash /\ n <= Len(r.segs)
                /\ SubSeq(r.segs, 1, n) = SubSeq(stMount.segs, 1, n),
      names |-> SelectSeq(below, LAMBDA s : s # ""),
      sound |-> \A i \in DOMAIN below :
                  below[i] \notin UnsafeNames \/ (i = Len(below) /\ below[i] = ""),
      slash |-> Len(below) > 1 /\ Last(below) = ""]

\* The file that is to be sent for the request, if it is there.
Due ==
  LET place == Followed(stRoot \o Named.names)
  IN IF place \in Directories THEN Followed(Append(place, "index.html")) ELSE place

Servable ==
  LET place == Followed(stRoot \o Named.names)
  IN /\ Named.under /\ Named.sound
     /\ Named.slash => place \in Directories
     /\ place \in Directories => SafePlace(place)
     /\ Due \in Files /\ SafePlace(Due)
     /\ stSizes[Due] \in 0..MaxFileBytes

\* The type a file of this name is to have: that of the last call of mime for
\* its extension, whatever the letters' case, else the table's.
DueType(name) ==
  LET calls == {i \in DOMAIN stMimeLog : Lower[stMimeLog[i][1]] = Extension[name]}
  IN IF Extension[name] # "" /\ calls # {}
     THEN stMimeLog[CHOOSE i \in calls : \A j \in calls : j <= i][2]
     ELSE IF Extension[name] \in DOMAIN MimeTable THEN MimeTable[Extension[name]]
     ELSE "application/octet-stream"

\* A file is sent only for a GET below the mount; it is the one the path
\* names, links followed, and lies below the root and under no hidden name,
\* whatever happened to the files since they were looked at; it is no larger
\* than max_file_bytes, even when it grew after its size was read, and has
\* the type of the last override (try_handle_static, resolve_and_read,
\* content_type_for_extension).
ServedIsEntitled ==
  stPc = "answered" /\ stAnswer[1] = "file" =>
    /\ Named.under /\ Named.sound
    /\ stPlace = Due /\ stPlace \in Files /\ IsPrefix(stRoot, stPlace)
    /\ \A i \in (Len(stRoot) + 1)..Len(stPlace) :
         stPlace[i] \notin UnsafeNames \ RelaxedNames
    /\ Named.slash => Followed(stRoot \o Named.names) \in Directories
    /\ stAnswer[2] <= MaxFileBytes
    /\ stAnswer[3] = DueType(Last(stPlace))

\* A request the mount does not cover always goes on to the router; one it
\* covers goes on only when it misses and fallthrough_on_miss is set; and
\* while nothing is disturbed every servable file is sent (the closure miss,
\* strip_mount, resolve_and_read).
RoutedOrServed ==
  stPc = "answered" =>
    /\ ~Named.under => stAnswer = <<"passed">>
    /\ Named.under => stAnswer[1] = "file" \/ stAnswer = (IF stFall THEN <<"passed">> ELSE <<"missed">>)
    /\ stChanges = 0 /\ Servable => stAnswer[1] = "file"

\* What lies below the root is served and nothing else is, and what the plugin
\* does not serve is left to the router (try_handle_static).
StaticSound == StaticTypeOK /\ ServedIsEntitled /\ RoutedOrServed
=============================================================================
