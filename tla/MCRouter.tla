------------------------------ MODULE MCRouter ------------------------------
(***************************************************************************)
(* What a request passes on its way to a handler, each by itself: the      *)
(* gates with the tenants' stores behind them, the throttle on what the    *)
(* gate notifies of unknown keys, the static files and the router. The router has a handful of paths and patterns that overlap in  *)
(* every way (equal up to names, literal against parameter, parameter      *)
(* against wildcard) and one pattern for every error of parse_pattern; the *)
(* file system has links out of the root, to a hidden name and to itself.  *)
(***************************************************************************)
EXTENDS Router, StaticFiles, Gates, NotifyThrottle

CONSTANTS t1, t2, t3

\* Three threads that call the throttle.
MCNotifiers == {t1, t2, t3}
Symmetry == Permutations(MCNotifiers)

MCMethods == {"GET", "OPTIONS", "bad token"}
MCTokens == {"GET", "OPTIONS"}

At(segs) == [slash |-> TRUE, segs |-> segs]
MCPaths == {At(<<>>), At(<<"a">>), At(<<"a", "b">>), At(<<"a", "..">>),
            At(<<"b", "">>), At(<<"b", "b">>), At(<<"a", "b", "..">>), At(<<"a", "b", "a">>),
            [slash |-> FALSE, segs |-> <<"a">>]}
MCStaticPaths == {At(<<"a">>), At(<<"a", "b">>), At(<<"a", "..">>),
                  [slash |-> FALSE, segs |-> <<"a">>]}

Lit(w) == <<"literal", w>>
Par(n) == <<"param", n>>
Wild(n) == <<"wildcard", n>>
ValidPatterns == {At(<<Par("x")>>), At(<<Lit("a"), Par("x")>>),
  At(<<Lit("a"), Par("y")>>), At(<<Lit("a"), Wild("x")>>),
  At(<<Par("y"), Wild("x")>>)}
InvalidPatterns == {
  [slash |-> FALSE, segs |-> <<Par("x")>>], At(<<Lit(""), Par("x")>>),
  At(<<Par("")>>), At(<<Wild("")>>), At(<<Par("x-")>>), At(<<Par("x"), Par("x")>>),
  At(<<Wild("x"), Lit("a")>>), At(<<Wild("x"), Par("x")>>),
  At(<<<<"mixed", "a{x}">>>>), At(<<Lit("a")>>), At(<<>>)}
MCPatterns == ValidPatterns \cup InvalidPatterns

-----------------------------------------------------------------------------
\* Mounts at the top and below, and one for every error of validate_mount.
MCMounts == {At(<<"">>), At(<<"s">>), At(<<"s", "t">>), At(<<"s", "">>),
             At(<<"", "s">>), At(<<"a?">>), [slash |-> FALSE, segs |-> <<"s">>]}
\* "backslash" is a name with one in it, which a link may have as its target.
MCRoots == {<<"srv">>, <<"alias">>, <<"gone">>, <<"srv", "a.JS">>}
MCDirectories == {<<>>, <<"srv">>, <<"srv", "d">>, <<"srv", "e">>, <<"srv", ".git">>, <<"etc">>}
MCFiles == {<<"srv", "a.JS">>, <<"srv", "backslash">>, <<"etc", "p">>,
            <<"srv", ".git", "c">>, <<"srv", "index.html">>}
MCDevices == {<<"srv", "sock">>, <<"srv", "e", "index.html">>}
MCLinks ==
  (<<"alias">> :> <<"srv">>) @@ (<<"srv", "out">> :> <<"etc", "p">>)
  @@ (<<"srv", "h">> :> <<"srv", ".git", "c">>)
  @@ (<<"srv", "loop">> :> <<"srv", "loop">>)
  @@ (<<"srv", "d", "index.html">> :> <<"srv", "backslash">>)
MCInitialSizes ==
  {[p \in MCFiles |-> 1], [p \in MCFiles |-> 2], [p \in MCFiles |-> -1],
   [p \in MCFiles |-> IF p = <<"srv", "a.JS">> THEN 1 ELSE -1]}

Get(segs) == [get |-> TRUE, slash |-> TRUE, segs |-> segs]
MCStaticRequests ==
  {Get(<<"">>), Get(<<"a.JS">>), Get(<<"s">>), Get(<<"s", "">>), Get(<<"s", "a.JS">>),
   Get(<<"s", "a.JS", "">>), Get(<<"s", "", "">>), Get(<<"s", "", "a.JS">>),
   Get(<<"s", "out">>), Get(<<"s", "d">>), Get(<<"s", "d", "">>),
   Get(<<"s", "sock">>), Get(<<"s", "e">>),
   Get(<<"s", "..", "srv", "a.JS">>), Get(<<"s", "h">>), Get(<<"s", "backslash">>),
   Get(<<"s", "loop">>), Get(<<"s", "t">>), Get(<<"x", "a.JS">>),
   [Get(<<"s", "a.JS">>) EXCEPT !.get = FALSE], [Get(<<"s">>) EXCEPT !.slash = FALSE]}

\* Extensions, their lower case, and calls of mime: the same extension twice,
\* one of the table, one that is refused and a type that is.
MCExtension == ("a.JS" :> "js") @@ ("backslash" :> "") @@ ("p" :> "") @@ ("c" :> "")
               @@ ("index.html" :> "html")
MCLower == ("js" :> "js") @@ (".JS" :> "js") @@ ("html" :> "html") @@ ("a.b" :> "a.b")
MCMimeTable == ("html" :> "text/html")
MCMimeCalls == {<<"js", "A">>, <<".JS", "B">>, <<"html", "B">>, <<"a.b", "A">>, <<"js", "">>}

-----------------------------------------------------------------------------
\* Origins: one for every rule on schemes, hosts, addresses and ports.
Origin(scheme, host, port) == [scheme |-> scheme, host |-> host, port |-> port]
Host(labels) == <<"name", labels>>
App == Origin("https", Host(<<"app">>), <<>>)
Evil == Origin("https", Host(<<"evil">>), <<>>)
MCLongOrigins == {Origin("https", Host(<<"long">>), <<>>)}
OriginEntries ==
  MCLongOrigins \cup {App, [App EXCEPT !.scheme = "ftp"]}
  \cup {[App EXCEPT !.host = Host(h)] :
          h \in {<<"App">>, <<"">>, <<"app", "">>, <<"app", "", "">>}}
  \cup {Origin("http", Host(<<a, "0", "0">> \o b), <<>>) :
          a \in {"127", "app", "256", "012", "0x7f"},
          b \in {<<"1">>, <<"1", "">>, <<"0x7f">>, <<"012">>, <<"app">>, <<>>}}
  \cup {[App EXCEPT !.host = <<"v6", t>>] :
          t \in {"::1", "0::1", "::ffff:102:304", "::ffff:1.2.3.4", "zz"}}
  \cup {Origin(s, Host(<<"app">>), <<p>>) : s \in {"http", "https"},
          p \in {"", "80", "443", "8080", "08080", "70000", "x"}}

\* The origins one at a time, lists at and over their limits, and gates in
\* several orders, twice the same among them.
MCSetups ==
  {[gates |-> <<"csrf">>, origins |-> <<o>>, exempt |-> <<>>] : o \in OriginEntries}
  \cup {[gates |-> <<"csrf">>, origins |-> <<App, App>>, exempt |-> <<>>],
        [gates |-> <<"csrf">>, origins |-> <<>>, exempt |-> <<"/x", "/x">>],
        [gates |-> <<"csrf">>, origins |-> <<>>, exempt |-> <<"x">>]}
  \cup {[gates |-> g, origins |-> <<App>>, exempt |-> <<"/hook">>] :
          g \in {<<"csrf", "tenant">>, <<"tenant", "csrf">>, <<"jwt", "tenant">>,
                 <<"tenant", "tenant">>, <<"jwt", "jwt">>, <<"csrf", "jwt">>, <<>>}}

Post == [method |-> "POST", path |-> "/a", site |-> <<>>, origin |-> <<App>>,
         good |-> TRUE, org |-> " t1 "]
OfT2 == [Post EXCEPT !.org = "t2"]
MCGateRequests ==
  (1 :> {Post, OfT2, [Post EXCEPT !.method = "GET", !.origin = <<>>, !.good = FALSE],
         [Post EXCEPT !.path = "/hook", !.origin = <<>>, !.org = " "],
         [Post EXCEPT !.site = <<"cross-site">>], [Post EXCEPT !.site = <<"none", "none">>],
         [Post EXCEPT !.site = <<"none">>, !.origin = <<Evil>>],
         [Post EXCEPT !.origin = <<App, Evil>>], [Post EXCEPT !.origin = <<Evil>>]})
  @@ (2 :> {OfT2})
MCMaxServed == (1 :> 2) @@ (2 :> 1)
MCStoreCalls ==
  [g \in {setup.gates : setup \in MCSetups} |->
     IF g = <<"csrf", "tenant">> THEN 3 ELSE IF g = <<>> THEN 2 ELSE 0]
MCTrim == (" t1 " :> "t1") @@ ("t2" :> "t2") @@ (" " :> "")
MCOwner == ("r1" :> "t1") @@ ("r2" :> "t2")
MCV6 == ("::1" :> "::1") @@ ("0::1" :> "::1") @@ ("::ffff:102:304" :> "::ffff:102:304")
        @@ ("::ffff:1.2.3.4" :> "::ffff:102:304")
MCPort == ("80" :> 80) @@ ("443" :> 443) @@ ("8080" :> 8080) @@ ("08080" :> 8080)
          @@ ("70000" :> 70000)
MCNumber == ("0" :> 0) @@ ("1" :> 1) @@ ("127" :> 127) @@ ("256" :> 256)
            @@ ("012" :> 10) @@ ("0x7f" :> 127)

-----------------------------------------------------------------------------
VARIABLE part  \* which of the four runs

MCInit ==
  /\ part \in {"gates", "throttle", "static", "router"}
  /\ Init /\ StaticInit /\ GatesInit /\ ThrottleInit
  /\ part # "static" =>
       /\ stMount = At(<<"s">>) /\ stRoot = <<"srv">>
       /\ stSizes = [p \in MCFiles |-> 1]

MCNext ==
  /\ UNCHANGED part
  /\ \/ part = "router" /\ Next /\ UNCHANGED <<stVars, gVars, throttleVars>>
     \/ part = "static" /\ StaticNext /\ UNCHANGED <<vars, gVars, throttleVars>>
     \/ part = "gates" /\ GatesNext /\ UNCHANGED <<vars, stVars, throttleVars>>
     \/ part = "throttle" /\ ThrottleNext /\ UNCHANGED <<vars, stVars, gVars>>

MCSpec == MCInit /\ [][MCNext]_<<vars, stVars, gVars, throttleVars, part>>
=============================================================================
