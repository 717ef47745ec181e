-------------------------------- MODULE Routes --------------------------------
(***************************************************************************)
(* Mounting the auth endpoints beside the routes of an application         *)
(* (src/ginorion/routes.go), in every order of registration.  The          *)
(* readiness route is newer than the others and must not take a request    *)
(* from a route that is there: explicitly mounted, it is looked up among   *)
(* the engine's routes with a matcher of Orionis' own; by default it is a  *)
(* middleware for requests that no route matches.  The gin engine is       *)
(* external: the tree of its GET routes, what may be registered in it, and *)
(* which route serves a request.                                           *)
(*                                                                         *)
(* A path is the sequence of its segments: "/a/" is <<"a", "">>.           *)
(***************************************************************************)
EXTENDS Naturals, SequencesExt

CONSTANTS
    Segments,           \* of paths and patterns
    Params, CatchAlls,  \* segments of patterns like ":x" and "*x"
    AppPatterns,        \* what the application may register
    Requests,           \* paths of GET requests
    Setters,            \* arguments of the AuthRoutes setters, per endpoint
    Unset,              \* a setter that is not called, or called with ""
    Prefix,             \* of the application's RouterGroup
    MaxCalls            \* bound on registrations and mounts

Path == Seq(Segments) \ {<<>>}

\* addRoute panics if a catch-all is not at the end of a pattern.
Pattern == {p \in Path : \A i \in DOMAIN p : p[i] \in CatchAlls => i = Len(p)}

\* The paths of the endpoints that Auth chooses are static, and so is the empty segment.
ASSUME SegmentsAssumption ==
    LET static == {"", "oauth", "token", "jwks.json", "openid-configuration", "healthz", "readyz"}
    IN  /\ static \subseteq Segments /\ static \cap (Params \cup CatchAlls) = {}
        /\ Params \cap CatchAlls = {}

ASSUME PathsAssumption ==
    /\ AppPatterns \subseteq Pattern /\ Requests \subseteq Path
    /\ Prefix \in Seq(Segments \ CatchAlls)
    /\ \A set \in Setters : {set.jwks, set.discovery, set.health, set.ready} \subseteq Pattern \cup {Unset}

VARIABLES
    tree,           \* the engine's GET routes: [path, owner, uses], uses being the
                    \* readiness middlewares that were in use when it was registered
    posts,          \* the engine's POST routes that Orionis registered
    fallbacks,      \* ready paths of the middlewares in use
    panicked,       \* a registration panicked
    mounts,         \* history: the calls of Mount, [on, ready, explicit]
    plain,          \* history: the GET routes had readiness never been mounted
    plainPanicked   \* history: whether a registration would have panicked then

vars == <<tree, posts, fallbacks, panicked, mounts, plain, plainPanicked>>

Init ==
    /\ tree = {} /\ posts = {} /\ fallbacks = {} /\ panicked = FALSE
    /\ mounts = <<>> /\ plain = {} /\ plainPanicked = FALSE

-----------------------------------------------------------------------------
(* The gin engine *)

Wild(s) == s \in Params \cup CatchAlls

\* p and q part ways at segment i.
PartAt(p, q, i) == /\ i \in DOMAIN p /\ i \in DOMAIN q /\ p[i] # q[i]
                   /\ \A j \in 1 .. i - 1 : p[j] = q[j]

\* addRoute panics: equal paths, two wildcards, or a catch-all beside anything.
Conflicts(p, q) ==
    \/ p = q
    \/ \E i \in DOMAIN p :
          /\ PartAt(p, q, i)
          /\ (Wild(p[i]) /\ Wild(q[i])) \/ {p[i], q[i]} \cap CatchAlls # {}

Registrable(routes, paths) ==
    /\ \A r \in routes, i \in DOMAIN paths : ~ Conflicts(r.path, paths[i])
    /\ \A i, j \in DOMAIN paths : i < j => ~ Conflicts(paths[i], paths[j])

Matches(p, q) ==
    /\ Len(p) = Len(q) \/ (Last(p) \in CatchAlls /\ Len(p) < Len(q))
    /\ \A i \in DOMAIN p : \/ p[i] = q[i]
                           \/ p[i] \in Params /\ q[i] # ""
                           \/ p[i] \in CatchAlls

\* The route that serves q, as a set of at most one: a static segment comes before
\* a parameter.
Serving(routes, q) ==
    LET matching == {r \in routes : Matches(r.path, q)}
    IN  {r \in matching : \A o \in matching \ {r} :
            \E i \in DOMAIN r.path : PartAt(r.path, o.path, i) /\ ~ Wild(r.path[i])}

\* The path with its trailing slash added or taken away.
Toggled(q) == IF Last(q) = "" THEN Front(q) ELSE Append(q, "")

\* Mutant: the middleware does not ask whether a route was found.
InterceptsAlways(uses, q, found) == q \in uses

\* The readiness middleware answers in place of what comes after it.
Intercepts(uses, q, found) == q \in uses /\ found = {}

\* What a GET of q is answered by: the route, the redirection of the slash, the
\* readiness middleware, or nothing.
Answer(routes, used, q) ==
    LET found == Serving(routes, q)
        uses  == IF found = {} THEN used ELSE UNION {r.uses : r \in found}
    IN  IF found # {} /\ ~ Intercepts(uses, q, found)
        THEN {<<r.owner, r.path>> : r \in found}
        ELSE IF found = {} /\ q # <<"">> /\ Serving(routes, Toggled(q)) # {}
        THEN {<<"redirect", Toggled(q)>>}
        ELSE IF Intercepts(uses, q, found) THEN {<<"ready", q>>} ELSE {}

-----------------------------------------------------------------------------
(* AuthRoutes *)

\* Auth and the setters, of which an empty argument is ignored.
AuthRoutes(set) ==
    [token     |-> IF set.token = Unset THEN <<"oauth", "token">> ELSE set.token,
     jwks      |-> IF set.jwks = Unset THEN <<"jwks.json">> ELSE set.jwks,
     discovery |-> IF set.discovery = Unset THEN <<"openid-configuration">> ELSE set.discovery,
     health    |-> IF set.health = Unset THEN <<"healthz">> ELSE set.health,
     ready     |-> IF set.ready = Unset THEN <<"readyz">> ELSE set.ready,
     readyExplicit |-> set.ready # Unset]

\* Mutant: patterns are compared literally.
CoversLiterally(pattern, target) == pattern = target

\* Mutant: a catch-all covers the path it hangs on.
CoversParent(pattern, target) ==
    \/ Matches(pattern, target)
    \/ Last(pattern) \in CatchAlls /\ target = Front(pattern)

\* The matcher of Orionis: segment by segment, up to a catch-all.
ginRouteCovers(pattern, target) ==
    LET covered(i) ==   \* what the loop makes of segment i
            IF i > Len(target) THEN "no"
            ELSE IF pattern[i] \in CatchAlls THEN "yes"
            ELSE IF pattern[i] \in Params
            THEN IF target[i] = "" THEN "no" ELSE "next"
            ELSE IF pattern[i] = target[i] THEN "next" ELSE "no"
        ends == {i \in DOMAIN pattern : covered(i) # "next"}
    IN  IF ends = {} THEN Len(pattern) = Len(target)
        ELSE covered(CHOOSE i \in ends : \A j \in ends : i <= j) = "yes"

\* A RouterGroup has no Routes method.
hasExistingGETRoute(on, routes, target) ==
    on = "engine" /\ \E r \in routes : ginRouteCovers(r.path, target)

validateReadyPath(p) == \A i \in DOMAIN p : ~ Wild(p[i])

Calls == Len(mounts) + Cardinality({r \in tree : r.owner = "app"})

\* The application registers a GET route on the engine.
AppRegister(p) ==
    /\ ~ panicked /\ Calls < MaxCalls
    /\ IF Registrable(tree, <<p>>)
       THEN tree' = tree \cup {[path |-> p, owner |-> "app", uses |-> fallbacks]}
            /\ UNCHANGED panicked
       ELSE panicked' = TRUE /\ UNCHANGED tree
    /\ IF Registrable(plain, <<p>>)
       THEN plain' = plain \cup {[path |-> p, owner |-> "app", uses |-> {}]}
            /\ UNCHANGED plainPanicked
       ELSE plainPanicked' = TRUE /\ UNCHANGED plain
    /\ UNCHANGED <<posts, fallbacks, mounts>>

\* The GET routes of auth under base, and their owners.
Owners == <<"jwks", "discovery", "health">>
Legacy(r, base) == <<base \o r.jwks, base \o r.discovery, base \o r.health>>
Routes(paths, uses) ==
    {[path |-> paths[i], owner |-> Owners[i], uses |-> uses] : i \in DOMAIN paths}

\* mountCompatibleGET after the other endpoints.  A conflict that gin finds is
\* recovered.
WithReady(on, routes, target) ==
    IF hasExistingGETRoute(on, routes, target) \/ ~ Registrable(routes, <<target>>)
    THEN routes
    ELSE routes \cup {[path |-> target, owner |-> "ready", uses |-> fallbacks]}

\* Mount.
Mount(on, set) ==
    LET r      == AuthRoutes(set)
        base   == IF on = "engine" THEN <<>> ELSE Prefix
        legacy == Legacy(r, base)
        added  == tree \cup Routes(legacy, fallbacks)
    IN  /\ ~ panicked /\ Calls < MaxCalls
        /\ IF \/ base \o r.token \in posts
              \/ ~ Registrable(tree, legacy)
              \/ (r.readyExplicit \/ on = "engine") /\ ~ validateReadyPath(r.ready)
           THEN panicked' = TRUE /\ UNCHANGED <<tree, posts, fallbacks>>
           ELSE /\ posts' = posts \cup {base \o r.token}
                /\ tree' = IF r.readyExplicit THEN WithReady(on, added, base \o r.ready)
                           ELSE added
                /\ fallbacks' = IF ~ r.readyExplicit /\ on = "engine"
                                THEN fallbacks \cup {r.ready} ELSE fallbacks
                /\ UNCHANGED panicked
        /\ mounts' = Append(mounts, [on |-> on, ready |-> base \o r.ready,
                                     explicit |-> r.readyExplicit])
        /\ IF base \o r.token \notin posts /\ Registrable(plain, legacy)
           THEN plain' = plain \cup Routes(legacy, {}) /\ UNCHANGED plainPanicked
           ELSE plainPanicked' = TRUE /\ UNCHANGED plain

Next == \/ \E p \in AppPatterns : AppRegister(p)
        \/ \E on \in {"engine", "group"}, set \in Setters : Mount(on, set)

Spec == Init /\ [][Next]_vars
-----------------------------------------------------------------------------
(* Properties *)

\* README.md:471: the default readiness handler yields to the application's routes
\* regardless of registration order.  No registration panics that would not have
\* without it, and every request that something answered, be it a redirection, is
\* answered by the same; a request that nothing else answers gets the readiness
\* answer if an engine was mounted with its path.
DefaultReadinessYields ==
    (\A i \in DOMAIN mounts : ~ mounts[i].explicit) =>
        /\ panicked => plainPanicked
        /\ ~ panicked => \A q \in Requests :
              Answer(tree, fallbacks, q) =
                  IF Answer(plain, {}, q) = {} /\ q \in fallbacks
                  THEN {<<"ready", q>>} ELSE Answer(plain, {}, q)

\* The step that mounts an explicit readiness route on something of this kind.
MountsReady(on, r) == r \in tree' \ tree /\ r.owner = "ready" /\ Last(mounts').on = on

\* r takes no request from the other routes of tree'.
TakesNothing(r) ==
    \A q \in Requests : LET without == Serving(tree' \ {r}, q) IN
        without # {} => Serving(tree', q) = without

\* src/ginorion/routes.go:140: an explicit readiness route takes no request from a
\* route that was there, among them the other endpoints of the same mount:
\* parameters and catch-alls keep what they served.  On an engine ginRouteCovers
\* sees to that.
EngineRoutesKept == [][\A r \in tree' : MountsReady("engine", r) => TakesNothing(r)]_vars

\* The same for a RouterGroup, where only the conflicts that gin itself finds protect
\* the application's routes.
GroupRoutesKept == [][\A r \in tree' : MountsReady("group", r) => TakesNothing(r)]_vars

\* A readiness route is not given up without need: after a mount on an engine its
\* path is answered, by Orionis or by the route that it yielded to, and if it was
\* asked for explicitly not by a redirection.
ReadinessAnswered ==
    ~ panicked => \A i \in DOMAIN mounts : mounts[i].on = "engine" =>
        LET answer == Answer(tree, fallbacks, mounts[i].ready)
        IN  /\ answer # {}
            /\ mounts[i].explicit => \A a \in answer : a[1] # "redirect"
=============================================================================
