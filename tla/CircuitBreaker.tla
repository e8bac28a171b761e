--------------------------- MODULE CircuitBreaker ---------------------------
(***************************************************************************)
(* packages/mino/src/circuit-breaker.ts: one CircuitBreaker shared by      *)
(* concurrent calls.  execute() is atomic up to "await fn()"; the outcome  *)
(* of a call arrives at any later moment, when the circuit may be in       *)
(* another state than the one the call was admitted in.                    *)
(*                                                                         *)
(* Time is "elapsed", the ticks since openedAt, which the code compares    *)
(* with resetTimeoutMs and nothing else; it and both counters stop at the  *)
(* value beyond which the code no longer tells them apart.                 *)
(***************************************************************************)
EXTENDS Naturals, FiniteSets

CONSTANTS Callers,           \* concurrent users of one breaker
          FailureThreshold,  \* opts.failureThreshold, at least 1
          ResetTimeout,      \* opts.resetTimeoutMs in ticks, at least 0
          HalfOpenMaxCalls,  \* opts.halfOpenMaxCalls, at least 1
          Calm,              \* values of calm to start from
          ListenerThrows     \* whether onStateChange may throw when not calm

ASSUME BreakerAssumption ==
  /\ IsFiniteSet(Callers)
  /\ FailureThreshold \in Nat \ {0}
  /\ ResetTimeout \in Nat
  /\ HalfOpenMaxCalls \in Nat \ {0}
  /\ Calm \subseteq BOOLEAN
  /\ ListenerThrows \in BOOLEAN

VARIABLES state,          \* this.state
          failures,       \* this.failures, up to FailureThreshold
          elapsed,        \* now() - this.openedAt, up to ResetTimeout
          halfOpenCalls,  \* this.halfOpenCalls, up to HalfOpenMaxCalls + 1
          call,           \* what each caller is doing
          admitted,       \* history: calls let through since the circuit
                          \* last became half-open
          calm            \* fixed at the start: every error counts and
                          \* onStateChange does not throw

breakerVars == <<state, failures, elapsed, halfOpenCalls, call, admitted, calm>>

\* "probing": admitted in the current half-open period; "calling": admitted
\* while closed, or in a half-open period that is over.
Free == {"idle", "refused"}
InFlight == {c \in Callers : call[c] \in {"calling", "probing"}}
Probing == {c \in Callers : call[c] = "probing"}

CountTo(cap, n) == IF n < cap THEN n + 1 ELSE cap

BreakerInit ==
  /\ state = "closed"
  /\ failures = 0
  /\ elapsed = ResetTimeout
  /\ halfOpenCalls = 0
  /\ call = [c \in Callers |-> "idle"]
  /\ admitted = 0
  /\ calm \in Calm

Throws == ListenerThrows /\ ~calm

\* this.state === "open" && now() - openedAt >= resetTimeoutMs
Expired == state = "open" /\ elapsed >= ResetTimeout

\* Probes of an earlier half-open period are ordinary late calls from now on.
Stale == [c \in Callers |-> IF call[c] = "probing" THEN "calling" ELSE call[c]]

\* getState() read by anyone: an expired open circuit turns half-open, and a
\* throwing onStateChange keeps halfOpenCalls from being cleared.
GetState ==
  /\ Expired
  /\ state' = "half-open"
  /\ call' = Stale
  /\ admitted' = 0
  /\ \/ halfOpenCalls' = 0
     \/ Throws /\ UNCHANGED halfOpenCalls
  /\ UNCHANGED <<failures, elapsed, calm>>

CallClosed(c) ==
  /\ call[c] \in Free
  /\ state = "closed"
  /\ call' = [call EXCEPT ![c] = "calling"]
  /\ UNCHANGED <<state, failures, elapsed, halfOpenCalls, admitted, calm>>

\* CircuitOpenError without upstream traffic.
FailFast(c) ==
  /\ call[c] \in Free
  /\ state = "open" /\ ~Expired
  /\ call' = [call EXCEPT ![c] = "refused"]
  /\ UNCHANGED <<state, failures, elapsed, halfOpenCalls, admitted, calm>>

\* Seeded fault: the counter is compared before it is incremented.
TryProbe_OffByOne(c, count, through, where) ==
  IF count > HalfOpenMaxCalls
  THEN /\ call' = [where EXCEPT ![c] = "refused"]
       /\ admitted' = through
       /\ halfOpenCalls' = count
  ELSE /\ call' = [where EXCEPT ![c] = "probing"]
       /\ admitted' = through + 1
       /\ halfOpenCalls' = count + 1

\* The half-open branch of execute(): count the call, then let it through as
\* a probe or refuse it.
TryProbe(c, count, through, where) ==
  IF count >= HalfOpenMaxCalls
  THEN /\ call' = [where EXCEPT ![c] = "refused"]
       /\ admitted' = through
       /\ halfOpenCalls' = CountTo(HalfOpenMaxCalls + 1, count)
  ELSE /\ call' = [where EXCEPT ![c] = "probing"]
       /\ admitted' = through + 1
       /\ halfOpenCalls' = count + 1

CallHalfOpen(c) ==
  /\ call[c] \in Free
  /\ state = "half-open"
  /\ TryProbe(c, halfOpenCalls, admitted, call)
  /\ UNCHANGED <<state, failures, elapsed, calm>>

\* The first call after the timeout makes the transition and is a probe.
CallExpired(c) ==
  /\ call[c] \in Free
  /\ Expired
  /\ state' = "half-open"
  /\ \/ TryProbe(c, 0, 0, Stale)
     \/ /\ Throws
        /\ call' = [Stale EXCEPT ![c] = "refused"]
        /\ admitted' = 0
        /\ UNCHANGED halfOpenCalls
  /\ UNCHANGED <<failures, elapsed, calm>>

Call(c) == CallClosed(c) \/ FailFast(c) \/ CallHalfOpen(c) \/ CallExpired(c)

\* Seeded fault: half-open waits for the threshold like closed does.
OnFailure_HalfOpenCounts(st, n) ==
  LET total == CountTo(FailureThreshold, n)
  IN  /\ failures' = total
      /\ state' = IF st = "closed" /\ total >= FailureThreshold THEN "open" ELSE st
      /\ elapsed' = IF total >= FailureThreshold THEN 0 ELSE elapsed

\* onFailure() for an error that counts, with the circuit in state st after n
\* failures; an open circuit whose late calls fail is opened anew.
OnFailure(st, n) ==
  LET total == CountTo(FailureThreshold, n)
      opens == st = "half-open" \/ total >= FailureThreshold
  IN  /\ failures' = total
      /\ state' = IF opens THEN "open" ELSE st
      /\ elapsed' = IF opens THEN 0 ELSE elapsed

\* onSuccess(); if onStateChange throws on the way to closed, the catch clause
\* of execute() treats that as a failure of the call.
OnSuccess ==
  \/ /\ failures' = 0
     /\ state' = IF state = "half-open" THEN "closed" ELSE state
     /\ UNCHANGED elapsed
  \/ /\ Throws
     /\ state = "half-open"
     /\ OnFailure("closed", 0)

Answer(c, outcome) ==
  /\ c \in InFlight
  /\ call' = [call EXCEPT ![c] = "idle"]
  /\ \/ outcome = "ok" /\ OnSuccess
     \/ outcome = "failure" /\ OnFailure(state, failures)
     \/ outcome = "ignored" /\ ~calm /\ UNCHANGED <<state, failures, elapsed>>
  /\ UNCHANGED <<halfOpenCalls, admitted, calm>>

\* reset(): forced closed by the operator; halfOpenCalls is left alone.
Reset ==
  /\ failures' = 0
  /\ state' = "closed"
  /\ UNCHANGED <<elapsed, halfOpenCalls, call, admitted, calm>>

BreakerTick ==
  /\ elapsed < ResetTimeout
  /\ elapsed' = elapsed + 1
  /\ UNCHANGED <<state, failures, halfOpenCalls, call, admitted, calm>>

Answered(c) == \E outcome \in {"ok", "failure", "ignored"} : Answer(c, outcome)

BreakerNext ==
  \/ GetState
  \/ \E c \in Callers : Call(c) \/ Answered(c)
  \/ Reset
  \/ BreakerTick

BreakerSpec == BreakerInit /\ [][BreakerNext]_breakerVars

\* Time passes, protected calls end and the application goes on calling.
BreakerFairness ==
  /\ WF_breakerVars(BreakerTick)
  /\ \A c \in Callers : WF_breakerVars(Answered(c)) /\ WF_breakerVars(Call(c))

BreakerFairSpec == BreakerSpec /\ BreakerFairness

-----------------------------------------------------------------------------
(* Properties *)

\* The fields keep the values the code can tell apart.
BreakerTypeOK ==
  /\ state \in {"closed", "open", "half-open"}
  /\ failures \in 0..FailureThreshold
  /\ elapsed \in 0..ResetTimeout
  /\ halfOpenCalls \in 0..HalfOpenMaxCalls + 1
  /\ call \in [Callers -> Free \cup {"calling", "probing"}]
  /\ admitted \in 0..HalfOpenMaxCalls

\* A closed circuit never sits on a full failure count: whichever late answer,
\* reset() or listener exception closed it, the next failure is judged afresh.
ClosedBelowThreshold == state = "closed" => failures < FailureThreshold

\* At most halfOpenMaxCalls calls reach the upstream in one half-open period,
\* however calls, late answers, reset() and reopening interleave.
ProbesBounded ==
  /\ admitted <= HalfOpenMaxCalls
  /\ Cardinality(Probing) <= admitted

\* The counts of failures and probes keep their bounds across late answers,
\* reset() and a listener that throws.
BreakerBounded == BreakerTypeOK /\ ClosedBelowThreshold /\ ProbesBounded

\* "no upstream traffic": while the circuit stays open no call is started.
NoTrafficWhileOpen ==
  [][state = "open" /\ state' = "open" => InFlight' \subseteq InFlight]_breakerVars

\* Every way of opening the circuit starts a full reset timeout.
CooldownRestarts == [][state # "open" /\ state' = "open" => elapsed' = 0]_breakerVars

\* Late failures of calls that were in flight extend the open period, yet not
\* for ever: an open circuit gets its half-open period.
OpenPeriodEnds == (state = "open") ~> (state # "open")

\* "a bounded number of half-open probes decide whether to close it again":
\* every half-open period comes to an end.
HalfOpenDecided == (state = "half-open") ~> (state # "half-open")

\* When every error counts that is so, also with late answers and reset().
CalmHalfOpenDecided == (calm /\ state = "half-open") ~> (state # "half-open")
=============================================================================
