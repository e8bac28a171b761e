------------------------------ MODULE MCKernel ------------------------------
(***************************************************************************)
(* The kernel: the dependency injection container with its request scopes, *)
(* the application's bootstrap, start() and stop(), and the handler of a   *)
(* route.  Resolution makes no use of the lifecycle state, nor the         *)
(* lifecycle of the container once the providers are created, and a route  *)
(* needs neither beyond its controller: a behaviour exercises one of them. *)
(***************************************************************************)
EXTENDS Container, Application, RouteHandler, TLC

CONSTANTS ctl, svc, ctx, job, port, gone, root, q1, q2,
          c1, c2, c3, c4, c5, x1, x2,
          p1, p2, l1, l2, l3, l4,
          Focused

VARIABLE focus

\* A controller of requests injects a singleton and a request-scoped context,
\* which the singleton injects as well.  job and port depend on each other,
\* through the alias port.
MCScopeOf ==
  ctl :> "request" @@ svc :> "singleton" @@ ctx :> "request" @@
  job :> "transient" @@ port :> "existing"
MCDepsOf ==
  ctl :> <<svc, ctx>> @@ svc :> <<ctx>> @@ ctx :> <<>> @@
  job :> <<ctx, port>> @@ port :> <<job>>

MCWanted == c1 :> ctl @@ c2 :> ctx @@ c3 :> svc @@ c4 :> job @@ c5 :> ctl
MCHome == c1 :> q1 @@ c2 :> q1 @@ c3 :> root @@ c4 :> q2 @@ c5 :> q2
MCClosed == x1 :> q1 @@ x2 :> q1

\* p1 is listed twice: once under its own token and once under an alias.
MCOrder == <<p1, p2, p1>>
MCIsStart == l1 :> TRUE @@ l2 :> FALSE @@ l3 :> TRUE @@ l4 :> FALSE

\* Two overlapping calls on a container that is closed twice, or calls of
\* different containers whose singletons are overridden and caches cleared.
MCIdle == [closing |-> {c3, c4, c5}, sharing |-> {c2, c4},
           cycles |-> {c1, c2, c5}]

\* One who holds everything, and one who holds a part.
MCPrincipals ==
  {[roles |-> {"admin"}, permissions |-> {"read", "write"}, tenant |-> "t1"],
   [roles |-> {"user"}, permissions |-> {"read"}, tenant |-> "t2"]}
Role == [kind |-> "role", names |-> {"admin", "owner"}]
Permission == [kind |-> "permission", names |-> {"read", "write"}]
Tenant == [kind |-> "tenant", names |-> {"t1"}]
MCRoutes ==
  {[requires |-> r, guards |-> gs, pipes |-> n, interceptors |-> n] :
     r \in {Anyone, Role, Permission, Tenant},
     gs \in {<<>>, <<Permission>>, <<Role, Tenant>>}, n \in 0..2}

MCInit ==
  /\ focus \in Focused /\ ContainerInit /\ LifeInit /\ RouteInit
  /\ focus # "route" => route = CHOOSE r \in Routes : TRUE

MCNext ==
  /\ UNCHANGED focus
  /\ \/ /\ focus \in DOMAIN MCIdle
        /\ ContainerNext /\ UNCHANGED <<lifeVars, routeVars>>
        /\ \A c \in MCIdle[focus] : stack'[c] = <<>>
        /\ focus = "closing" => UNCHANGED <<overrides, clears>> /\ q2 \notin opened'
        /\ focus # "closing" => doomed' = doomed /\ closing' = closing
     \/ focus = "life" /\ LifeNext /\ UNCHANGED <<containerVars, routeVars>>
     \/ focus = "route" /\ RouteNext /\ UNCHANGED <<containerVars, lifeVars>>

MCSpec ==
  /\ MCInit
  /\ [][MCNext]_<<focus, containerVars, lifeVars, routeVars>>
  /\ ContainerFairness

=============================================================================
