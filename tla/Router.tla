-------------------------------- MODULE Router --------------------------------
(***************************************************************************)
(* The router (routes/src/lib.rs, routes/src/pattern.rs): two routers are  *)
(* built call by call, possibly merged, and one of them then dispatches    *)
(* requests. A path is its leading slash and its segments; a pattern the   *)
(* same, with segments <<kind, text>>. A handler is named by the number of *)
(* the call that registered it. The handlers themselves are not run, and   *)
(* route and route_async, which differ in nothing else, are one operation, *)
(* as are route_param and route_param_async.                               *)
(***************************************************************************)
EXTENDS Integers, Sequences, FiniteSets, SequencesExt

CONSTANTS
  Methods,      \* methods that routes are registered with
  Tokens,       \* those that are tokens: only they occur in a request
  Paths,        \* paths of requests, see PathOk
  StaticPaths,  \* those among them that route is called with
  Patterns,     \* patterns given to route_param, see PathOk
  ParamNames,   \* the names of [A-Za-z0-9_]+
  Unsafe,       \* values refused by is_safe_segment_value, "" among them
  MaxSelf,      \* bound: calls on the first router
  MaxOther      \* bound: calls on the second one

PathOk(p) == p.slash \in BOOLEAN /\ p.segs \in Seq(STRING)
PatternOk(p) ==
  /\ p.slash \in BOOLEAN
  /\ \A i \in 1..Len(p.segs) :
       p.segs[i][1] \in {"literal", "param", "wildcard", "mixed"}

ASSUME RouterAssumption ==
  /\ Tokens \subseteq Methods /\ "OPTIONS" \in Tokens
  /\ StaticPaths \subseteq Paths /\ \A p \in Paths : PathOk(p)
  /\ \A p \in Patterns : PatternOk(p)
  /\ "" \in Unsafe
  /\ MaxSelf \in Nat /\ MaxOther \in Nat

VARIABLES
  router,  \* the two routers, "self" and "other"
  built,   \* history: the calls that built each of them
  parts,   \* history: the routers as they were when serving began
  phase,   \* "building", "serving" or "failed"
  error,   \* why building failed
  request, \* the request that was dispatched, <<>> when there was none
  answer   \* how it was answered

vars == <<router, built, parts, phase, error, request, answer>>

-----------------------------------------------------------------------------
(* Patterns.                                                               *)

\* The error parse_pattern reports for segment i, "" for none.
SegmentError(segs, i) ==
  LET kind == segs[i][1]
      name == segs[i][2]
      named == {"param", "wildcard"}
  IN IF name = "" /\ kind = "literal" THEN "EmptySegment"
     ELSE IF kind = "mixed" THEN "MixedSegment"
     ELSE IF kind = "literal" THEN ""
     ELSE IF name = "" THEN "EmptyParamName"
     ELSE IF name \notin ParamNames THEN "InvalidParamName"
     ELSE IF \E j \in 1..(i - 1) : segs[j][1] \in named /\ segs[j][2] = name THEN
            "DuplicateParamName"
     ELSE IF kind = "wildcard" /\ i # Len(segs) THEN "WildcardNotLast"
     ELSE ""

\* The first error of a pattern, "" when it is accepted.
ParseErrorLast(p) ==
  LET n == Len(p.segs)
  IN IF ~p.slash THEN "MissingLeadingSlash"
     ELSE IF n > 0 /\ SegmentError(p.segs, n) # "" THEN SegmentError(p.segs, n)
     ELSE IF \A i \in 1..n : p.segs[i][1] = "literal" THEN "NoParamSegment"
     ELSE ""
ParseError(p) ==
  LET bad == {i \in 1..Len(p.segs) : SegmentError(p.segs, i) # ""}
      first == CHOOSE i \in bad : \A j \in bad : i <= j
  IN IF ~p.slash THEN "MissingLeadingSlash"
     ELSE IF bad # {} THEN SegmentError(p.segs, first)
     ELSE IF \A i \in 1..Len(p.segs) : p.segs[i][1] = "literal" THEN "NoParamSegment"
     ELSE ""

Safe(value) == value \notin Unsafe

HasWildcard(segs) == segs # <<>> /\ Last(segs)[1] = "wildcard"

PrefixLen(segs) == IF HasWildcard(segs) THEN Len(segs) - 1 ELSE Len(segs)

\* Whether match_segments accepts the target, and what it binds: for each
\* parameter its name and the segments it stands for.
MatchSegmentsTailUnchecked(segs, target) ==
  /\ IF HasWildcard(segs) THEN Len(target) >= Len(segs)
                          ELSE Len(target) = Len(segs)
  /\ \A i \in 1..PrefixLen(segs) :
       IF segs[i][1] = "literal" THEN segs[i][2] = target[i] ELSE Safe(target[i])
MatchSegments(segs, target) ==
  /\ IF HasWildcard(segs) THEN Len(target) >= Len(segs)
                          ELSE Len(target) = Len(segs)
  /\ \A i \in 1..PrefixLen(segs) :
       IF segs[i][1] = "literal" THEN segs[i][2] = target[i] ELSE Safe(target[i])
  /\ \A i \in (PrefixLen(segs) + 1)..Len(target) : Safe(target[i])

Bindings(segs, target) ==
  LET bind(i) == <<segs[i][2], IF segs[i][1] = "wildcard"
                                 THEN SubSeq(target, i, Len(target))
                                 ELSE <<target[i]>>>>
      binding == SelectSeq([i \in 1..Len(segs) |-> i],
                           LAMBDA i : segs[i][1] # "literal")
  IN [k \in 1..Len(binding) |-> bind(binding[k])]

SegmentsEquivalentByName(a, b) == a = b
SegmentsEquivalent(a, b) ==
  /\ Len(a) = Len(b)
  /\ \A i \in 1..Len(a) :
       a[i][1] = b[i][1] /\ (a[i][1] = "literal" => a[i][2] = b[i][2])

-----------------------------------------------------------------------------
(* Routers. routes maps <<path, method>> to a handler; the fallbacks are    *)
(* sequences of at most one.                                               *)

NewRouter == [routes |-> [k \in {} |-> 0], params |-> <<>>,
              options |-> <<>>, fallback |-> <<>>]

\* The functions f and g in one; g wins.
Extend(f, g) ==
  [k \in DOMAIN f \cup DOMAIN g |-> IF k \in DOMAIN g THEN g[k] ELSE f[k]]

Route(r, m, p, h) ==
  [r EXCEPT !.routes = Extend(@, [k \in {<<p, m>>} |-> h])]
RouteParam(r, m, p, h) ==
  [r EXCEPT !.params = Append(@, [method |-> m, segs |-> p.segs, h |-> h])]
OptionsFallback(r, h) == [r EXCEPT !.options = <<h>>]
FallbackWith(r, policy, h) ==
  [r EXCEPT !.fallback = <<[policy |-> policy, h |-> h]>>]

MergeError(a, b) ==
  IF DOMAIN a.routes \cap DOMAIN b.routes # {} THEN "DuplicateRoute"
  ELSE IF \E i \in 1..Len(a.params), j \in 1..Len(b.params) :
         /\ a.params[i].method = b.params[j].method
         /\ SegmentsEquivalent(a.params[i].segs, b.params[j].segs) THEN
           "DuplicateParamRoute"
  ELSE IF a.fallback # <<>> /\ b.fallback # <<>> THEN "ConflictingFallback"
  ELSE IF a.options # <<>> /\ b.options # <<>> THEN "ConflictingOptionsFallback"
  ELSE ""

MergedOtherFirst(a, b) ==
  [routes |-> Extend(a.routes, b.routes), params |-> b.params \o a.params,
   options |-> a.options \o b.options, fallback |-> a.fallback \o b.fallback]
MergedByPath(a, b) ==
  LET kept == {k \in DOMAIN a.routes : \A l \in DOMAIN b.routes : l[1] # k[1]}
  IN [routes |-> Extend([k \in kept |-> a.routes[k]], b.routes),
      params |-> a.params \o b.params,
      options |-> a.options \o b.options, fallback |-> a.fallback \o b.fallback]
Merged(a, b) ==
  [routes |-> Extend(a.routes, b.routes), params |-> a.params \o b.params,
   options |-> a.options \o b.options, fallback |-> a.fallback \o b.fallback]

-----------------------------------------------------------------------------
(* Dispatch.                                                               *)

\* The param routes that match the path, by position.
Matching(r, p) ==
  {i \in 1..Len(r.params) : p.slash /\ MatchSegments(r.params[i].segs, p.segs)}

StaticMethods(r, p) == {m \in Methods : <<p, m>> \in DOMAIN r.routes}

RegisteredStaticFirst(r, p) ==
  IF StaticMethods(r, p) # {} THEN StaticMethods(r, p)
  ELSE {r.params[i].method : i \in Matching(r, p)}
Registered(r, p) ==
  StaticMethods(r, p) \cup {r.params[i].method : i \in Matching(r, p)}

Reply(kind, h, allow, bound) ==
  [kind |-> kind, h |-> h, allow |-> allow, bound |-> bound]

\* Whether the fallback takes a path whose routes have the methods in known.
FallsBack(r, known) ==
  /\ r.fallback # <<>>
  /\ known = {} \/ r.fallback[1].policy = "IncludeMethodNotAllowed"

\* A request of method m for p that no route answers.
UnmatchedOptionsEarly(r, m, p) ==
  LET known == Registered(r, p)
      allow == known \cap Tokens
  IN IF m = "OPTIONS" /\ r.options # <<>> THEN
            Reply("options", r.options[1], allow, <<>>)
     ELSE IF known = {} /\ r.fallback = <<>> THEN Reply("404", 0, {}, <<>>)
     ELSE IF FallsBack(r, known) THEN Reply("fallback", r.fallback[1].h, {}, <<>>)
     ELSE Reply("405", 0, allow, <<>>)
Unmatched(r, m, p) ==
  LET known == Registered(r, p)
      allow == known \cap Tokens
  IN IF m = "OPTIONS" /\ r.options # <<>> /\ allow # {} THEN
            Reply("options", r.options[1], allow, <<>>)
     ELSE IF FallsBack(r, known) THEN Reply("fallback", r.fallback[1].h, {}, <<>>)
     ELSE IF known = {} THEN Reply("404", 0, {}, <<>>)
     ELSE Reply("405", 0, allow, <<>>)

Dispatch(r, m, p) ==
  LET hits == {i \in Matching(r, p) : r.params[i].method = m}
      first == CHOOSE i \in hits : \A j \in hits : i <= j
  IN IF <<p, m>> \in DOMAIN r.routes THEN
            Reply("route", r.routes[<<p, m>>], {}, <<>>)
     ELSE IF hits # {} THEN
            Reply("route", r.params[first].h, {}, Bindings(r.params[first].segs, p.segs))
     ELSE Unmatched(r, m, p)

-----------------------------------------------------------------------------
(* Building and serving.                                                   *)

Served == request # <<>>

Policies == {"NotFoundOnly", "IncludeMethodNotAllowed"}

Init ==
  /\ router = [w \in {"self", "other"} |-> NewRouter]
  /\ built = [w \in {"self", "other"} |-> <<>>]
  /\ parts = router
  /\ phase = "building" /\ error = ""
  /\ request = <<>> /\ answer = Reply("none", 0, {}, <<>>)

\* The next handler's number, and whether there may be another call on w.
\* The other router is begun when the first is complete: calls on two values
\* that share nothing commute.
NextHandler == Len(built["self"]) + Len(built["other"]) + 1
MayCall(w) ==
  /\ phase = "building"
  /\ IF w = "self" THEN Len(built["self"]) < MaxSelf /\ built["other"] = <<>>
                   ELSE Len(built["other"]) < MaxOther

\* What a recorded call does to a router.
Apply(r, c) ==
  CASE c.op = "route" -> Route(r, c.method, c.at, c.h)
    [] c.op = "param" -> RouteParam(r, c.method, c.at, c.h)
    [] c.op = "options" -> OptionsFallback(r, c.h)
    [] OTHER -> FallbackWith(r, c.op, c.h)

Called(w, op, m, at) ==
  LET c == [op |-> op, method |-> m, at |-> at, h |-> NextHandler]
  IN /\ MayCall(w)
     /\ router' = [router EXCEPT ![w] = Apply(@, c)]
     /\ built' = [built EXCEPT ![w] = Append(@, c)]
     /\ UNCHANGED <<parts, phase, error, request, answer>>

Failed(e) ==
  /\ phase' = "failed" /\ error' = e
  /\ UNCHANGED <<router, built, parts, request, answer>>

CallRoute(w) == \E m \in Methods, p \in StaticPaths : Called(w, "route", m, p)

CallRouteParam(w) ==
  /\ MayCall(w)
  /\ \E m \in Methods, p \in Patterns :
       \/ ParseError(p) = "" /\ Called(w, "param", m, p)
       \/ ParseError(p) # "" /\ Failed(ParseError(p))

CallOptionsFallback(w) == Called(w, "options", "", <<>>)

CallFallback(w) == \E policy \in Policies : Called(w, policy, "", <<>>)

\* self.merge(other), then the result is served.
Merge ==
  /\ phase = "building"
  /\ LET e == MergeError(router["self"], router["other"])
     IN \/ e # "" /\ Failed(e)
        \/ /\ e = ""
           /\ parts' = router
           /\ router' = [router EXCEPT
                !["self"] = Merged(@, router["other"]), !["other"] = NewRouter]
           /\ phase' = "serving"
           /\ UNCHANGED <<built, error, request, answer>>

\* A request reaches the router that is served. One is enough: dispatch
\* changes nothing.
Serve ==
  /\ phase = "serving" /\ ~Served
  /\ \E m \in Tokens, p \in Paths :
       /\ request' = <<m, p>>
       /\ answer' = Dispatch(router["self"], m, p)
  /\ UNCHANGED <<router, built, parts, phase, error>>

Next ==
  \/ \E w \in {"self", "other"} :
       CallRoute(w) \/ CallRouteParam(w) \/ CallOptionsFallback(w) \/ CallFallback(w)
  \/ Merge
  \/ Serve

Spec == Init /\ [][Next]_vars

-----------------------------------------------------------------------------
(* Properties.                                                             *)

Alone(w) == Dispatch(parts[w], request[1], request[2])

\* A pattern that can be matched: every segment of one kind and named, the
\* wildcard at the end.
WellFormed(segs) ==
  \A i \in 1..Len(segs) :
    \/ segs[i][1] = "literal" /\ segs[i][2] # ""
    \/ segs[i][1] = "param" /\ segs[i][2] \in ParamNames
    \/ segs[i][1] = "wildcard" /\ segs[i][2] \in ParamNames /\ i = Len(segs)

\* The types of the variables; a router keeps a handler per method and path
\* (routes) and the accepted patterns only (param_routes).
TypeOK ==
  /\ phase \in {"building", "serving", "failed"}
  /\ (phase = "failed") <=> (error # "")
  /\ answer.kind \in {"none", "route", "options", "fallback", "404", "405"}
  /\ answer.h \in 0..(MaxSelf + MaxOther) /\ answer.allow \subseteq Tokens
  /\ \A w \in {"self", "other"} :
       /\ DOMAIN router[w].routes \subseteq StaticPaths \X Methods
       /\ \A i \in 1..Len(router[w].params) : WellFormed(router[w].params[i].segs)

\* A merged router answers every request as the router would on which the
\* calls of the first and then those of the second had been made: which of
\* the two routers a call was made on shows in no answer.
MergeAsOneBuild ==
  Served => LET one == FoldLeft(Apply, NewRouter, built["self"] \o built["other"])
            IN answer = Dispatch(one, request[1], request[2])

\* Merging takes no answer away: a request that one of the two routers hands
\* to a route, the merged one hands to a route as well, and to one that one
\* of the two would have chosen; the first router's when neither is static.
HandlersSurvive ==
  Served =>
    LET own == {w \in {"self", "other"} : Alone(w).kind = "route"}
        static == {w \in own : request[2] \in {k[1] : k \in
                    {l \in DOMAIN parts[w].routes : l[2] = request[1]}}}
    IN /\ own # {} => /\ answer.kind = "route"
                      /\ \E w \in own : answer = Alone(w)
       /\ own = {"self", "other"} /\ static = {} => answer = Alone("self")

\* A merge that succeeds hides no route: no two param routes of one method,
\* one from each router, match the same requests. (merge refuses them by
\* comparing the shape of the patterns, segments_equivalent.)
NoSilentReplacement ==
  phase = "serving" /\ ~Served =>
    \A i \in 1..Len(parts["self"].params), j \in 1..Len(parts["other"].params) :
      LET a == parts["self"].params[i]
          b == parts["other"].params[j]
      IN a.method = b.method =>
           \E p \in Paths : p.slash /\ (MatchSegments(a.segs, p.segs)
                                        # MatchSegments(b.segs, p.segs))

\* Merging two routers is building one: no route is lost, hidden or moved.
MergeFaithful ==
  TypeOK /\ MergeAsOneBuild /\ HandlersSurvive /\ NoSilentReplacement

\* The methods a 405 or an OPTIONS fallback advertises are exactly those for
\* which the same path would be handed to a route: static and param routes of
\* the path together, and none that another method's route shadows.
AllowTruthful ==
  answer.kind \in {"405", "options"} =>
    answer.allow = {m \in Tokens : Dispatch(router["self"], m, request[2]).kind = "route"}

\* What a pattern binds is the request's own: the values put back in the
\* place of the parameters give the path again, none of them is a segment
\* that is_safe_segment_value refuses, and no name is bound twice.
BindingsRebuildPath ==
  answer.bound # <<>> =>
    \E i \in 1..Len(router["self"].params) :
      LET route == router["self"].params[i]
          value(n) == (CHOOSE k \in 1..Len(answer.bound) : answer.bound[k][1] = n)
          filled(s) == IF s[1] = "literal" THEN <<s[2]>>
                       ELSE answer.bound[value(s[2])][2]
          names == {answer.bound[k][1] : k \in 1..Len(answer.bound)}
      IN /\ route.h = answer.h
         /\ request[2].segs
              = FlattenSeq([k \in 1..Len(route.segs) |-> filled(route.segs[k])])
         /\ \A k \in 1..Len(answer.bound) :
              answer.bound[k][2] # <<>> /\ ToSet(answer.bound[k][2]) \cap Unsafe = {}
         /\ Cardinality(names) = Len(answer.bound)

\* A fallback answers only what it was registered for: the OPTIONS fallback
\* no path without routes and none with an OPTIONS route; a NotFoundOnly
\* fallback no path with a route; and with a fallback there is no plain 404.
FallbackScope ==
  LET r == router["self"]
      known == Registered(r, request[2])
  IN Served =>
       /\ answer.kind = "options" =>
            request[1] = "OPTIONS" /\ known # {} /\ "OPTIONS" \notin known
       /\ answer.kind = "fallback" =>
            known = {} \/ r.fallback[1].policy = "IncludeMethodNotAllowed"
       /\ answer.kind = "404" => known = {} /\ r.fallback = <<>>

\* What dispatch tells a client and a handler is so: the methods it advertises,
\* the parameters it binds, and that nothing else would have answered.
DispatchTruthful == AllowTruthful /\ BindingsRebuildPath /\ FallbackScope

\* Routers are merged without loss, and what the result answers is so
\* (Router::merge, Router::dispatch).
RouterSound == MergeFaithful /\ DispatchTruthful
=============================================================================
