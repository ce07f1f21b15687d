----------------------------- MODULE HttpRouter -----------------------------
(***************************************************************************)
(* HttpRouter of src/http.rs.  Of a request only the endpoint, its method  *)
(* and URL, decides; a handler is its name and a middleware what it makes  *)
(* of an endpoint.  URLs are sequences of pieces.                          *)
(***************************************************************************)
EXTENDS ListFilter, SequencesExt

CONSTANTS
    Method,         \* request methods
    Url,            \* URLs that are requested
    Handler,        \* route handlers
    Middleware,     \* middleware: functions from endpoints to endpoints
    Prefix,         \* prefixes of static directories
    Files,          \* contents of a directory: functions from paths to data
    NotFound,       \* Response::not_found()
    MaxRoutes,      \* bound: routes registered
    MaxMiddleware   \* bound: middleware registered

Endpoint == Method \X Url

ASSUME RouterAssumption ==
    /\ Middleware \subseteq [Endpoint -> Endpoint]
    /\ MaxRoutes \in Nat /\ MaxMiddleware \in Nat

VARIABLES
    routes,      \* the routes in the order they were added
    middleware,  \* the middleware in the order it was added
    staticDirs,  \* the directories, by prefix
    order        \* the prefixes in the order of iteration over the hash map

routerVars == <<routes, middleware, staticDirs, order>>

RouterInit ==
    /\ routes = <<>>
    /\ middleware = <<>>
    /\ staticDirs = [p \in {} |-> <<>>]
    /\ order = <<>>

\* Slip: the newest route is tried first.
AddRouteFirst(ep, h) ==
    /\ Len(routes) < MaxRoutes
    /\ routes' = <<[endpoint |-> ep, handler |-> h]>> \o routes
    /\ UNCHANGED <<middleware, staticDirs, order>>

AddRoute(ep, h) ==
    /\ Len(routes) < MaxRoutes
    /\ routes' = Append(routes, [endpoint |-> ep, handler |-> h])
    /\ UNCHANGED <<middleware, staticDirs, order>>

UseMiddleware(m) ==
    /\ Len(middleware) < MaxMiddleware
    /\ middleware' = Append(middleware, m)
    /\ UNCHANGED <<routes, staticDirs, order>>

\* A prefix that is there keeps its place in the map, with new files; a new one
\* may reorder it.
ServeStatic(p, files) ==
    /\ staticDirs' = [q \in DOMAIN staticDirs \union {p} |->
                         IF q = p THEN files ELSE staticDirs[q]]
    /\ order' \in IF p \in DOMAIN staticDirs THEN {order}
                  ELSE SetToSeqs(DOMAIN staticDirs \union {p})
    /\ UNCHANGED <<routes, middleware>>

RouterNext ==
    \/ \E ep \in Endpoint, h \in Handler : AddRoute(ep, h)
    \/ \E m \in Middleware : UseMiddleware(m)
    \/ \E p \in Prefix, files \in Files : ServeStatic(p, files)

-----------------------------------------------------------------------------
(***************************************************************************)
(* handle                                                                  *)
(***************************************************************************)

\* The endpoint that is left of ep after the middleware.
Through(ep) ==
    LET at[k \in 0 .. Len(middleware)] == IF k = 0 THEN ep ELSE middleware[k][at[k - 1]]
    IN  at[Len(middleware)]

Matching(ep) == {k \in 1 .. Len(routes) : routes[k].endpoint = ep}

\* The directory p holds a file for the URL.
Holds(p, u) ==
    /\ p \in DOMAIN staticDirs
    /\ IsPrefix(p, u)
    /\ SubSeq(u, Len(p) + 1, Len(u)) \in DOMAIN staticDirs[p]

File(p, u) == staticDirs[p][SubSeq(u, Len(p) + 1, Len(u))]

\* Slip: the first directory whose prefix matches decides, with or without a file.
AnswerByPrefix(ep) ==
    LET e == Through(ep)
        k == CHOOSE i \in Matching(e) : \A j \in Matching(e) : i <= j
        first == Filter(order, {p \in Prefix : IsPrefix(p, e[2])})
    IN
    IF Matching(e) # {} THEN routes[k].handler
    ELSE IF first # <<>> /\ Holds(first[1], e[2]) THEN File(first[1], e[2])
    ELSE NotFound

\* The handler of the first route, else the first directory's file, else 404.
Answer(ep) ==
    LET e == Through(ep)
        k == CHOOSE i \in Matching(e) : \A j \in Matching(e) : i <= j
        holding == Filter(order, {p \in Prefix : Holds(p, e[2])})
    IN
    IF Matching(e) # {} THEN routes[k].handler
    ELSE IF holding # <<>> THEN File(holding[1], e[2])
    ELSE NotFound

-----------------------------------------------------------------------------
(***************************************************************************)
(* Properties.                                                             *)
(***************************************************************************)

RouterTypeOK ==
    /\ routes \in Seq([endpoint : Endpoint, handler : Handler])
    /\ middleware \in Seq(Middleware)
    /\ DOMAIN staticDirs \subseteq Prefix /\ staticDirs \in [DOMAIN staticDirs -> Files]
    /\ order \in SetToSeqs(DOMAIN staticDirs)

\* What a route answers it answers for ever: neither a later route for the same
\* endpoint nor a directory that holds a file for its URL gets in its way.  Only
\* new middleware can lead the request elsewhere.
RoutesKept ==
    [][middleware' = middleware =>
           \A ep \in Endpoint : Matching(Through(ep)) # {} => Answer(ep)' = Answer(ep)]_routerVars

\* A file that only one directory holds is served until its own directory is
\* replaced, or until a route or another directory claims its URL: other
\* directories do not disturb it although the order of the map may change.
FilesKept ==
    [][middleware' = middleware =>
           \A ep \in Endpoint :
               LET u == Through(ep)[2] IN
               \A p \in DOMAIN staticDirs :
                   /\ Matching(Through(ep)) = {} /\ Matching(Through(ep))' = {}
                   /\ Holds(p, u) /\ staticDirs'[p] = staticDirs[p]
                   /\ \A q \in Prefix \ {p} : ~ Holds(q, u) /\ ~ Holds(q, u)'
                   => Answer(ep) = File(p, u) /\ Answer(ep)' = File(p, u)]_routerVars
=============================================================================
