------------------------------ MODULE MCWebRtc ------------------------------
(***************************************************************************)
(* The two ways an application answers WebRTC offers, each by itself: the  *)
(* plugin that is the peer (two offers for one slot, two data channels for *)
(* one permit), and the proxy that hands the offer to an upstream service. *)
(***************************************************************************)
EXTENDS WebRtc, WebRtcProxy

CONSTANTS o1, o2, c1, c2

MCOffers == {o1, o2}
MCChannels == {c1, c2}

\* Offers around the limit of two bytes, with and without a Content-Length
\* that agrees.
MCProxyOffers ==
  {[offer |-> FALSE, declared |-> 1, len |-> 1]}
  \cup [offer : {TRUE}, declared : {-1, 1, 2, 3}, len : {1, 2, 3}]

\* Upstream responses whose head and body lie around their limits, whose
\* length is missing, wrong, repeated or after a line that is no header.
Sized(n) == <<"content-length", n>>
Headers == {<<>>, <<Sized(-1)>>, <<Sized(0)>>, <<Sized(2)>>, <<Sized(3)>>,
            <<Sized(2), Sized(2)>>, <<<<"no colon", 0>>, Sized(2)>>,
            <<<<"other", 0>>, Sized(2)>>}
Sound == [head |-> 2, utf8 |-> TRUE, http1 |-> TRUE, status |-> 200,
          fields |-> <<Sized(2)>>, body |-> 2, closes |-> TRUE]
MCUpstreams ==
  {[Sound EXCEPT !.head = h, !.fields = f, !.body = b, !.closes = c] :
     h \in 2..5, f \in Headers, b \in 0..4, c \in BOOLEAN}
  \cup {[Sound EXCEPT !.utf8 = FALSE], [Sound EXCEPT !.http1 = FALSE]}
  \cup {[Sound EXCEPT !.status = s] : s \in {-1, 199, 299, 300}}

VARIABLE part  \* which of the two runs

MCInit ==
  /\ part \in {"plugin", "proxy"}
  /\ PluginInit /\ ProxyInit
  /\ part = "plugin" => pxUpstream = Sound

MCNext ==
  /\ UNCHANGED part
  /\ \/ part = "plugin" /\ PluginNext /\ UNCHANGED pxVars
     \/ part = "proxy" /\ ProxyNext /\ UNCHANGED allVars

\* What rests has no fair action that could be taken.
MCSpec ==
  MCInit /\ [][MCNext]_<<allVars, pxVars, part>> /\ PluginFairness /\ ProxyFairness
=============================================================================
