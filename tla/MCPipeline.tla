----------------------------- MODULE MCPipeline -----------------------------
(***************************************************************************)
(* A request in Mino: the router with its cache of pipelines, and a        *)
(* composed chain of handlers.  A chain reads nothing of the router once   *)
(* it runs, so a behaviour exercises one of them.                          *)
(***************************************************************************)
EXTENDS Pipeline, Router, TLC

CONSTANTS MaxRoutes,  \* bound: registrations while pipelines are cached
          Focused

VARIABLE focus

MCInit == focus \in Focused /\ PipelineInit /\ RouterInit

\* The routes registered between requests.
MCRoutes == {<<"a">>, <<Param>>}
MCMethods == {"GET", "HEAD"}

MCNext ==
  /\ UNCHANGED focus
  /\ \/ focus = "chain" /\ PipelineNext /\ UNCHANGED routerVars
     \/ /\ focus = "routing" /\ UNCHANGED pipelineVars
        /\ \E p \in Patterns, m \in Methods : AddRoute(p, m)
     \/ /\ focus = "caching" /\ UNCHANGED pipelineVars
        /\ RouterNext
        /\ \A p \in Patterns : \A m \in Methods :
             table'[p][m] > 0 => p \in MCRoutes /\ m \in MCMethods /\ table'[p][m] <= MaxRoutes

MCSpec == MCInit /\ [][MCNext]_<<focus, pipelineVars, routerVars>>
=============================================================================
