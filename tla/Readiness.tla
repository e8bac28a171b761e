----------------------------- MODULE Readiness -----------------------------
(***************************************************************************)
(* Readiness probes (createReadinessMonitor): a call of check() runs every *)
(* dependency check, each against a timer, and caches the report.  Calls   *)
(* may overlap; a check answers, throws or hangs.                          *)
(***************************************************************************)
EXTENDS Integers, FiniteSets

CONSTANTS
  Probes,       \* calls of check()
  Dependencies, \* names of the checks
  CacheFor,     \* cacheMs, in ticks
  CheckTimeout, \* timeoutMs
  ProbeTicks    \* bound on the clock

ASSUME ProbeAssumption == CacheFor \in Nat /\ CheckTimeout \in Nat

VARIABLES
  probeClock,
  probes,       \* Probe -> [phase, began, results: Dependency -> pending, healthy, unhealthy]
  cached,       \* the report that is cached: [at, measured, results], at = -1 if none
  answers       \* Probe -> [at, measured, results] of the report returned

probeVars == <<probeClock, probes, cached, answers>>

Unprobed == [d \in Dependencies |-> "pending"]
NoReport == [at |-> -1, measured |-> -1, results |-> Unprobed]

ProbeInit ==
  /\ probeClock = 0
  /\ probes = [p \in Probes |-> [phase |-> "new", began |-> 0, results |-> Unprobed]]
  /\ cached = NoReport
  /\ answers = [p \in Probes |-> NoReport]

\* Seeded fault: a report, once cached, is cached for ever.
FromCache_Forever(p) ==
  /\ probes[p].phase = "new"
  /\ cached.at # -1
  /\ probes' = [probes EXCEPT ![p].phase = "done", ![p].began = probeClock]
  /\ answers' = [answers EXCEPT ![p] = [cached EXCEPT !.at = probeClock]]
  /\ UNCHANGED <<probeClock, cached>>

FromCache(p) ==
  /\ probes[p].phase = "new"
  /\ cached.at # -1 /\ probeClock - cached.at < CacheFor
  /\ probes' = [probes EXCEPT ![p].phase = "done", ![p].began = probeClock]
  /\ answers' = [answers EXCEPT ![p] = [cached EXCEPT !.at = probeClock]]
  /\ UNCHANGED <<probeClock, cached>>

RunChecks(p) ==
  /\ probes[p].phase = "new"
  /\ cached.at = -1 \/ probeClock - cached.at >= CacheFor
  /\ probeClock + CheckTimeout <= ProbeTicks \* the clock's bound leaves time for the timers
  /\ probes' = [probes EXCEPT ![p].phase = "running", ![p].began = probeClock]
  /\ UNCHANGED <<probeClock, cached, answers>>

\* A check answers, or throws, which counts as unhealthy.
CheckAnswers(p, d) ==
  /\ probes[p].phase = "running" /\ probes[p].results[d] = "pending"
  /\ \E r \in {"healthy", "unhealthy"} : probes' = [probes EXCEPT ![p].results[d] = r]
  /\ UNCHANGED <<probeClock, cached, answers>>

CheckTimesOut(p, d) ==
  /\ probes[p].phase = "running" /\ probes[p].results[d] = "pending"
  /\ probeClock - probes[p].began >= CheckTimeout
  /\ probes' = [probes EXCEPT ![p].results[d] = "unhealthy"]
  /\ UNCHANGED <<probeClock, cached, answers>>

\* Promise.all settles: the report is cached by when it was made.
Aggregate(p) ==
  /\ probes[p].phase = "running"
  /\ \A d \in Dependencies : probes[p].results[d] # "pending"
  /\ LET report == [at |-> probeClock, measured |-> probes[p].began, results |-> probes[p].results]
     IN /\ cached' = IF CacheFor > 0 THEN report ELSE cached
        /\ answers' = [answers EXCEPT ![p] = report]
  /\ probes' = [probes EXCEPT ![p].phase = "done"]
  /\ UNCHANGED probeClock

\* Timers that are due fire before the clock moves on.
ProbeTick ==
  /\ probeClock < ProbeTicks
  /\ \A p \in Probes : probes[p].phase = "running" => probeClock - probes[p].began <= CheckTimeout
  /\ probeClock' = probeClock + 1
  /\ UNCHANGED <<probes, cached, answers>>

ProbeNext ==
  \/ \E p \in Probes :
       \/ FromCache(p) \/ RunChecks(p) \/ Aggregate(p)
       \/ \E d \in Dependencies : CheckAnswers(p, d) \/ CheckTimesOut(p, d)
  \/ ProbeTick

ProbeSpec == ProbeInit /\ [][ProbeNext]_probeVars

\* The event loop fires timers and resumes what was awaited; checks owe nothing.
ProbeFairness ==
  /\ WF_probeVars(ProbeTick)
  /\ \A p \in Probes :
       /\ WF_probeVars(Aggregate(p))
       /\ \A d \in Dependencies : WF_probeVars(CheckTimesOut(p, d))

-----------------------------------------------------------------------------
(* Properties *)

\* A probe is answered although checks hang.
ProbesAnswered ==
  \A p \in Probes : probes[p].phase = "running" ~> probes[p].phase = "done"

\* What a probe is told was measured no longer ago than a check and the cache
\* may take, even if an old evaluation that ends late replaces a newer report.
ReportsRecent ==
  \A p \in Probes : answers[p].at # -1 =>
    answers[p].at - answers[p].measured <= CheckTimeout + 1 + CacheFor
=============================================================================
