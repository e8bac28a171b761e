---------------------------- MODULE MCResilience ----------------------------
(***************************************************************************)
(* The resilience policies of @minostack/mino.  They do not call each      *)
(* other, so a behaviour exercises one of them and leaves the others in    *)
(* their initial states: "focus" says which.                               *)
(***************************************************************************)
EXTENDS Bulkhead, CircuitBreaker, RateLimit, Retry, Readiness, Pressure

CONSTANT
  Focused,
  LimitRequests \* bound on the requests the rate limiter lets through

VARIABLE focus

guardVars == <<limitVars, retryVars, probeVars, pressureVars>>

MCInit ==
  /\ focus \in Focused
  /\ BulkheadInit /\ BreakerInit
  /\ LimitInit /\ RetryInit /\ ProbeInit /\ PressureInit

MCNext ==
  /\ UNCHANGED focus
  /\ \/ focus = "bulkhead" /\ BulkheadNext /\ UNCHANGED <<breakerVars, guardVars>>
     \/ focus = "breaker" /\ BreakerNext /\ UNCHANGED <<bulkheadVars, guardVars>>
     \/ /\ focus = "limit" /\ LimitNext /\ Len(letThrough') <= LimitRequests
        /\ \A i \in DOMAIN buckets' : buckets'[i].count <= MaxPerWindow + 1
        /\ UNCHANGED <<bulkheadVars, breakerVars, retryVars, probeVars, pressureVars>>
     \/ /\ focus = "retry" /\ RetryNext
        /\ UNCHANGED <<bulkheadVars, breakerVars, limitVars, probeVars, pressureVars>>
     \/ /\ focus = "health" /\ ProbeNext
        /\ UNCHANGED <<bulkheadVars, breakerVars, limitVars, retryVars, pressureVars>>
     \/ /\ focus = "pressure" /\ PressureNext
        /\ UNCHANGED <<bulkheadVars, breakerVars, limitVars, retryVars, probeVars>>

MCSpec ==
  /\ MCInit
  /\ [][MCNext]_<<focus, bulkheadVars, breakerVars, guardVars>>
  /\ BulkheadFairness
  /\ focus = "breaker" => BreakerFairness
  /\ focus = "health" => ProbeFairness

\* Refusals come to an end: an open circuit becomes half-open, a half-open one
\* is decided as long as every error counts, a probe of the health registry is
\* answered, and shedding stops when the load has gone.
RefusalsEnd == OpenPeriodEnds /\ CalmHalfOpenDecided /\ ProbesAnswered /\ SheddingEnds
=============================================================================
