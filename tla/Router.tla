------------------------------- MODULE Router -------------------------------
(***************************************************************************)
(* packages/mino/src/router.ts and the pipeline cache of mino.ts: routes   *)
(* in a trie, the shortcut for static routes, the methods a 405 lists, and *)
(* the composed pipelines kept per route.                                  *)
(*                                                                         *)
(* A node of the trie is named by the path to it, a sequence of segments;  *)
(* the segments ":" and "*" stand for a parameter and a wildcard child.    *)
(* Requests come with their path split, without a trailing slash.          *)
(***************************************************************************)
EXTENDS Naturals, Sequences, FiniteSets, SequencesExt

CONSTANTS Literals,    \* the static segments of routes
          Other,       \* a segment of requests that no route has
          BadEscape,   \* a segment that decodeURIComponent() rejects
          TooLong,     \* a segment longer than maxParamLength
          Depth,       \* bound: segments of a route
          MaxAdds,     \* bound: registrations
          MaxUses,     \* bound: use() and notFound() calls
          CacheCap     \* entries of pipelineCache (1024 in the code)

Param == ":"
Wild == "*"
Methods == {"GET", "HEAD", "POST"}

ASSUME RouterAssumption ==
  /\ Literals \cap {Param, Wild, Other, BadEscape, TooLong} = {}
  /\ {Other, BadEscape, TooLong} \cap {Param, Wild} = {} /\ BadEscape # TooLong
  /\ Depth \in Nat /\ MaxAdds \in Nat /\ MaxUses \in Nat
  /\ CacheCap \in Nat \ {0}

\* A wildcard must be the last segment.
Patterns == {p \in UNION {[1..n -> Literals \cup {Param, Wild}] : n \in 0..Depth} :
               \A k \in DOMAIN p : p[k] = Wild => k = Len(p)}
Segments == Literals \cup {Other, BadEscape, TooLong}
Paths == UNION {[1..n -> Segments] : n \in 0..Depth}

VARIABLES table,   \* node.handlers: per pattern and method how many
                   \* registrations its handlers come from
          fast,    \* fastStatic: the same for static patterns
          middleware, \* number of global middlewares
          fallback,   \* which notFound handler is installed
          version,    \* globalVersion
          pipelines   \* pipelineCache, in insertion order

routerVars == <<table, fast, middleware, fallback, version, pipelines>>

RouterInit ==
  /\ table = [p \in Patterns |-> [m \in Methods |-> 0]]
  /\ fast = [p \in Patterns |-> [m \in Methods |-> 0]]
  /\ middleware = 0 /\ fallback = 0 /\ version = 0
  /\ pipelines = <<>>

IsStatic(p) == \A k \in DOMAIN p : p[k] \notin {Param, Wild}
Handled(p) == p \in Patterns /\ \E m \in Methods : table[p][m] > 0

\* The nodes of the trie: the root and the prefixes of what has been registered.
Registered == {p \in Patterns : Handled(p)}
Nodes ==
  LET registered == Registered IN
  {<<>>} \cup {p \in Patterns : \E q \in registered : IsPrefix(p, q)}

Miss == [found |-> "nothing"]
Malformed == [found |-> "malformed"]
Hit(p) == [found |-> "route", node |-> p]
BadFrom(path, k) == \E n \in k..Len(path) : path[n] = BadEscape

\* Seeded fault: a static child that leads nowhere ends the search.
WalkFrom_NoBacktrack(from, nodes, node, path) ==
  LET k == Len(node) + 1
      below(seg) == Append(node, seg)
      wild == IF below(Wild) \in nodes THEN Hit(below(Wild)) ELSE Miss
      viaParam == IF below(Param) \in nodes /\ path[k] # TooLong THEN from[below(Param)]
                  ELSE Miss IN
  IF k > Len(path) THEN IF Handled(node) THEN Hit(node) ELSE wild
  ELSE IF below(path[k]) \in nodes THEN from[below(path[k])]
  ELSE IF below(Param) \in nodes /\ path[k] = BadEscape THEN Malformed
  ELSE IF viaParam # Miss THEN viaParam
  ELSE IF wild # Miss /\ BadFrom(path, k) THEN Malformed ELSE wild

\* matchNode() at a node, given what it finds at the nodes below: the static child
\* first, then the parameter, then the wildcard, and back when a branch leads
\* nowhere.
WalkFrom(from, nodes, node, path) ==
  LET k == Len(node) + 1
      below(seg) == Append(node, seg)
      wild == IF below(Wild) \in nodes THEN Hit(below(Wild)) ELSE Miss
      viaStatic == IF below(path[k]) \in nodes THEN from[below(path[k])] ELSE Miss
      viaParam == IF below(Param) \in nodes /\ path[k] # TooLong THEN from[below(Param)]
                  ELSE Miss IN
  IF k > Len(path) THEN IF Handled(node) THEN Hit(node) ELSE wild
  ELSE IF viaStatic # Miss THEN viaStatic
  ELSE IF below(Param) \in nodes /\ path[k] = BadEscape THEN Malformed
  ELSE IF viaParam # Miss THEN viaParam
  ELSE IF wild # Miss /\ BadFrom(path, k) THEN Malformed ELSE wild

Walk(nodes, path) ==
  LET from[node \in nodes] == WalkFrom(from, nodes, node, path) IN from[<<>>]

\* The method whose handlers a request gets: HEAD without its own takes GET's.
Serving(handlers, m) == IF m = "HEAD" /\ handlers["HEAD"] = 0 THEN "GET" ELSE m
Served(handlers, m) == handlers[Serving(handlers, m)]

\* match() without its shortcut.
MatchTrie(m, path) ==
  LET w == Walk(Nodes, path) IN
  IF w.found = "route" /\ Served(table[w.node], m) = 0 THEN Miss ELSE w

\* match(): a static route that has the method skips the walk.
Shortcut(m, path) == path \in Patterns /\ Served(fast[path], m) > 0
Match(m, path) == IF Shortcut(m, path) THEN Hit(path) ELSE MatchTrie(m, path)

\* allowedMethods(), for a path on which match() has thrown nothing: there
\* findNodeForPath() and matchNode() walk alike.
Allowed(path) ==
  LET w == Walk(Nodes, path) IN
  IF w.found = "route" THEN {m \in Methods : table[w.node][m] > 0} ELSE {}

\* addRoute(): the handlers of a route registered again are appended.
AddRoute(p, m) ==
  /\ FoldFunctionOnSet(LAMBDA h, n : h["GET"] + h["HEAD"] + h["POST"] + n, 0, table, Patterns) < MaxAdds
  /\ table' = [table EXCEPT ![p][m] = @ + 1]
  /\ fast' = IF IsStatic(p) THEN [fast EXCEPT ![p][m] = table[p][m] + 1] ELSE fast
  /\ UNCHANGED <<middleware, fallback, version, pipelines>>

\* Seeded fault: the pipelines composed so far stay.
Use_KeepsPipelines ==
  /\ middleware < MaxUses
  /\ middleware' = middleware + 1
  /\ UNCHANGED <<table, fast, fallback, version, pipelines>>

\* use(), with the invalidation of the cache.
Use ==
  /\ middleware < MaxUses
  /\ middleware' = middleware + 1
  /\ version' = version + 1
  /\ pipelines' = <<>>
  /\ UNCHANGED <<table, fast, fallback>>

\* notFound() and onError() leave the cache alone.
ReplaceFallback ==
  /\ fallback < MaxUses
  /\ fallback' = fallback + 1
  /\ UNCHANGED <<table, fast, middleware, version, pipelines>>

\* The key of the cache: method and route, the allowed methods, or 404.
KeyOf405(path) == [kind |-> "405", allow |-> Allowed(path)]
Key(m, path) ==
  LET w == Match(m, path) IN
  IF w.found = "route" THEN [kind |-> "route", method |-> m, node |-> w.node]
  ELSE IF Allowed(path) # {} THEN KeyOf405(path)
  ELSE [kind |-> "404"]

\* What is composed for a key: the middlewares and what comes after them.
Composed(key) ==
  [key |-> key, version |-> version, middleware |-> middleware,
   from |-> IF key.kind = "route" THEN Serving(table[key.node], key.method) ELSE "none",
   last |-> IF key.kind = "route" THEN Served(table[key.node], key.method)
            ELSE IF key.kind = "404" THEN fallback ELSE 0]

Cached(key) == \E n \in DOMAIN pipelines : pipelines[n].key = key /\ pipelines[n].version = version

\* fetch() up to the pipeline it runs: composed now, or found in the cache.  A
\* full cache drops its oldest entry.
Fetch(m, path) ==
  /\ Match(m, path) # Malformed
  /\ ~Cached(Key(m, path))
  /\ LET room == IF Len(pipelines) >= CacheCap THEN Tail(pipelines) ELSE pipelines IN
       pipelines' = Append(room, Composed(Key(m, path)))
  /\ UNCHANGED <<table, fast, middleware, fallback, version>>

RouterNext ==
  \/ \E p \in Patterns, m \in Methods : AddRoute(p, m)
  \/ \E path \in Paths, m \in Methods : Fetch(m, path)
  \/ Use
  \/ ReplaceFallback

RouterSpec == RouterInit /\ [][RouterNext]_routerVars

-----------------------------------------------------------------------------
(* Properties *)

RouterTypeOK ==
  /\ \A p \in Patterns : \A m \in Methods : table[p][m] \in Nat
  /\ middleware \in 0..MaxUses /\ fallback \in 0..MaxUses
  /\ Len(pipelines) <= CacheCap
  /\ \A i, j \in DOMAIN pipelines : i # j => pipelines[i].key # pipelines[j].key

\* Whether a pattern covers a path, and whether it takes the wildcard for that.
Covers(p, path) ==
  LET wild == p # <<>> /\ Last(p) = Wild
      n == IF wild THEN Len(p) - 1 ELSE Len(p) IN
  /\ IF wild THEN Len(path) >= n ELSE Len(path) = n
  /\ \A k \in 1..n : \/ p[k] = path[k]
                     \/ p[k] = Param /\ path[k] \notin {BadEscape, TooLong}
  /\ wild => \A k \in (n + 1)..Len(path) : path[k] # BadEscape

Rank(seg) == IF seg = Wild THEN 2 ELSE IF seg = Param THEN 1 ELSE 0

\* p goes before q: at the first segment in which they differ it has the more
\* specific one; a pattern that ends before a wildcard goes before it.
Before(p, q) ==
  \/ p = q
  \/ IsPrefix(p, q)
  \/ \E k \in DOMAIN p \cap DOMAIN q :
       /\ \A n \in 1..(k - 1) : p[n] = q[n]
       /\ Rank(p[k]) < Rank(q[k])

\* "Path matching prioritizes static > param > wildcard": of the registered
\* patterns that cover a path the walk finds the most specific one, whatever
\* dead ends the trie has, and a path with a bad escape is never routed by it.
\* The shortcut for static routes answers as the walk does.
RouteAgrees ==
  LET registered == Registered
      nodes == Nodes IN
  \A path \in Paths :
    LET covering == {p \in registered : Covers(p, path)}
        w == Walk(nodes, path) IN
    /\ (w.found = "route") <=> covering # {}
    /\ w.found = "route" => w.node \in covering /\ \A q \in covering : Before(w.node, q)
    /\ w = Malformed => \E k \in DOMAIN path : path[k] = BadEscape
    /\ \A m \in Methods : Shortcut(m, path) => MatchTrie(m, path) = Hit(path)

\* A 405 names the methods the path does have: never the one that was refused,
\* nor GET to a refused HEAD.
AllowHonest ==
  \A path \in Paths :
    LET allowed == Allowed(path) IN
    \A m \in Methods :
      Match(m, path) = Miss =>
        /\ m \notin allowed
        /\ m = "HEAD" => "GET" \notin allowed
        /\ \A n \in allowed : Match(n, path).found = "route"

\* "use() bumps the version so late-registered middleware invalidates cache": a
\* pipeline that a request can hit runs every global middleware there is, and
\* handlers registered for its own route and method, the first ones at least; a
\* pipeline for HEAD may run GET's instead.  Registering a route again bumps
\* nothing: what is added later, a HEAD of its own too, is not reached by a
\* pipeline composed before.
PipelinesCurrent ==
  \A n \in DOMAIN pipelines :
    LET e == pipelines[n] IN
    e.version = version =>
      /\ e.middleware = middleware
      /\ e.key.kind = "route" =>
           /\ e.from = e.key.method \/ (e.key.method = "HEAD" /\ e.from = "GET")
           /\ e.last \in 1..table[e.key.node][e.from]

\* The cache of pipelines keeps to its cap, and no request gets a pipeline that
\* misses a middleware.
PipelinesFresh == RouterTypeOK /\ PipelinesCurrent

\* The walk finds the most specific route, the shortcut agrees with it, and a
\* 405 lists only methods that the path has.
RoutingAgrees == RouteAgrees /\ AllowHonest
=============================================================================
