----------------------------- MODULE Admission ------------------------------
(***************************************************************************)
(* What a BoundServer promises about the connections it takes in, whatever *)
(* listener they come from: a bound on how many it has at a time, each one *)
(* served once, and none taken in once it has begun to shut down.          *)
(***************************************************************************)
EXTENDS Integers, FiniteSets

CONSTANTS
  Conns,   \* client connections
  Limit    \* max_connections, at least one

VARIABLES
  phase,   \* "open", "closing" or "stopped"
  live,    \* connections taken in and not finished
  gone     \* connections finished

vars == <<phase, live, gone>>

Init ==
  /\ phase = "open"
  /\ live = {}
  /\ gone = {}

Admit(c) ==
  /\ phase = "open"
  /\ c \notin live \cup gone
  /\ Cardinality(live) < Limit
  /\ live' = live \cup {c}
  /\ UNCHANGED <<phase, gone>>

Leave(c) ==
  /\ c \in live
  /\ live' = live \ {c}
  /\ gone' = gone \cup {c}
  /\ UNCHANGED phase

Close ==
  /\ phase = "open"
  /\ phase' = "closing"
  /\ UNCHANGED <<live, gone>>

\* The end of a shutdown, or the owner abandons the server.
Stop ==
  /\ phase \in {"open", "closing"}
  /\ phase' = "stopped"
  /\ UNCHANGED <<live, gone>>

Next ==
  \/ Close \/ Stop
  \/ \E c \in Conns : Admit(c) \/ Leave(c)

Spec == Init /\ [][Next]_vars
=============================================================================
