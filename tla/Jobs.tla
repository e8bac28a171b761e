-------------------------------- MODULE Jobs --------------------------------
(***************************************************************************)
(* packages/jobs/src/index.ts: MemoryScheduler and any number of Workers   *)
(* on it, whose runDue() calls overlap.  A worker runs without             *)
(* interruption between two awaits: the job itself and the audit sink.     *)
(*                                                                         *)
(* A task is one call of schedule() by the application; a retry schedules  *)
(* the same task again under a new id.  "wait" is dueAt - now, down to 0.  *)
(* takeDue() returns the due jobs in insertion order; no property depends  *)
(* on that order and a worker takes them in any.                           *)
(***************************************************************************)
EXTENDS Naturals, FiniteSets

CONSTANTS Tasks,         \* calls of schedule() made by the application
          Workers,       \* overlapping runDue() calls
          Unregistered,  \* tasks whose name has no definition
          MaxAttempts,   \* [Tasks -> Nat]: max(1, def.maxAttempts)
          Backoff,       \* def.backoffMs in ticks
          Delays,        \* values of opts.delayMs in ticks
          AuditRejects,  \* whether audit.record() may reject
          NoTask         \* no task is being executed

\* The doubling delay before the attempt after number n.
BackoffAfter(n) == Backoff * 2 ^ (n - 1)

\* The last conjunct is a fact of arithmetic that the provers, which do not
\* know exponentiation, take as an assumption on the constants.
ASSUME JobsAssumption ==
  /\ Unregistered \subseteq Tasks
  /\ MaxAttempts \in [Tasks -> Nat \ {0}]
  /\ Backoff \in Nat
  /\ Delays \subseteq Nat
  /\ AuditRejects \subseteq BOOLEAN
  /\ NoTask \notin Tasks
  /\ \A t \in Tasks : \A n \in 1..MaxAttempts[t] : BackoffAfter(n) \in Nat

VARIABLES pending,    \* MemoryScheduler.jobs
          taken,      \* per worker: the due jobs it has not finished with
          current,    \* per worker: the task being executed
          phase,      \* per worker: what it awaits
          runs,       \* history: attempts started per task
          outcome,    \* history: final outcome reported by runDue()
          succeeded,  \* history: tasks whose run() has fulfilled
          submitted,  \* history: tasks schedule() was called for
          cancelled   \* history: tasks for which cancel() returned true

jobsVars ==
  <<pending, taken, current, phase, runs, outcome, succeeded, submitted, cancelled>>

Job == {j \in [task : Tasks, attempt : Nat \ {0}, wait : Nat] :
          j.attempt <= MaxAttempts[j.task]}

\* "between": about to take the next job of the batch.
Busy == {"running", "completed", "failed", "unknown"}
Phases == {"idle", "between"} \cup Busy

JobsInit ==
  /\ pending = {}
  /\ taken = [w \in Workers |-> {}]
  /\ current = [w \in Workers |-> NoTask]
  /\ phase = [w \in Workers |-> "idle"]
  /\ runs = [t \in Tasks |-> 0]
  /\ outcome = [t \in Tasks |-> "none"]
  /\ succeeded = {}
  /\ submitted = {}
  /\ cancelled = {}

TasksOf(S) == {j.task : j \in S}

\* The application schedules a job; its attempt number is 1.
Schedule(t, delay) ==
  /\ t \notin submitted
  /\ submitted' = submitted \cup {t}
  /\ pending' = pending \cup {[task |-> t, attempt |-> 1, wait |-> delay]}
  /\ UNCHANGED <<taken, current, phase, runs, outcome, succeeded, cancelled>>

\* Seeded fault: the job is flagged as cancelled but stays in the map.
Cancel_KeepsJob(t) ==
  /\ \E j \in pending : j.task = t /\ j.attempt = 1
  /\ cancelled' = cancelled \cup {t}
  /\ UNCHANGED <<pending, taken, current, phase, runs, outcome, succeeded, submitted>>

\* cancel(id) with the id schedule() returned; a retry has another id.
Cancel(t) ==
  /\ \E j \in pending : j.task = t /\ j.attempt = 1
  /\ pending' = {j \in pending : ~(j.task = t /\ j.attempt = 1)}
  /\ cancelled' = cancelled \cup {t}
  /\ UNCHANGED <<taken, current, phase, runs, outcome, succeeded, submitted>>

JobsTick ==
  /\ \E j \in pending : j.wait > 0
  /\ pending' = {[j EXCEPT !.wait = IF @ = 0 THEN 0 ELSE @ - 1] : j \in pending}
  /\ UNCHANGED <<taken, current, phase, runs, outcome, succeeded, cancelled, submitted>>

\* execute(job) up to its first await: the run of a known job, the audit
\* record of an unknown one.
Begin(w, j) ==
  /\ current' = [current EXCEPT ![w] = j.task]
  /\ IF j.task \in Unregistered
     THEN /\ phase' = [phase EXCEPT ![w] = "unknown"]
          /\ UNCHANGED runs
     ELSE /\ phase' = [phase EXCEPT ![w] = "running"]
          /\ runs' = [runs EXCEPT ![j.task] = @ + 1]

Due == {j \in pending : j.wait = 0}

\* Seeded fault: takeDue() leaves the jobs it returns in the map.
RunDue_KeepsJobs(w) ==
  /\ phase[w] = "idle"
  /\ taken' = [taken EXCEPT ![w] = Due]
  /\ \E j \in Due : Begin(w, j)
  /\ UNCHANGED <<pending, outcome, succeeded, cancelled, submitted>>

\* runDue(): takes everything that is due and begins the first job of it.
RunDue(w) ==
  /\ phase[w] = "idle"
  /\ pending' = pending \ Due
  /\ taken' = [taken EXCEPT ![w] = Due]
  /\ \E j \in Due : Begin(w, j)
  /\ UNCHANGED <<outcome, succeeded, cancelled, submitted>>

\* The next turn of the loop in runDue().
NextJob(w) ==
  /\ phase[w] = "between"
  /\ \E j \in taken[w] : Begin(w, j)
  /\ UNCHANGED <<pending, taken, outcome, succeeded, cancelled, submitted>>

\* execute() returns: the outcome is pushed and the loop goes on or ends.
Return(w) ==
  LET rest == {j \in taken[w] : j.task # current[w]}
  IN  /\ taken' = [taken EXCEPT ![w] = rest]
      /\ current' = [current EXCEPT ![w] = NoTask]
      /\ phase' = [phase EXCEPT ![w] = IF rest = {} THEN "idle" ELSE "between"]

Attempt(w) == (CHOOSE j \in taken[w] : j.task = current[w]).attempt

\* Seeded fault: the attempt number is not advanced.
Retry_SameAttempt(w) ==
  /\ pending' = pending \cup
       {[task |-> current[w], attempt |-> Attempt(w),
         wait |-> BackoffAfter(Attempt(w))]}
  /\ Return(w)
  /\ UNCHANGED <<runs, outcome, cancelled, submitted>>

\* schedule() of the next attempt with doubling backoff, under a new id.
Retry(w) ==
  /\ pending' = pending \cup
       {[task |-> current[w], attempt |-> Attempt(w) + 1,
         wait |-> BackoffAfter(Attempt(w))]}
  /\ Return(w)
  /\ UNCHANGED <<runs, outcome, cancelled, submitted>>

\* Seeded fault: the last attempt is dropped without an outcome.
Failed_Silent(w) ==
  IF Attempt(w) < MaxAttempts[current[w]]
  THEN Retry(w)
  ELSE Return(w) /\ UNCHANGED <<pending, runs, outcome, cancelled, submitted>>

\* The catch clause of execute().
Failed(w) ==
  IF Attempt(w) < MaxAttempts[current[w]]
  THEN Retry(w)
  ELSE /\ phase' = [phase EXCEPT ![w] = "failed"]
       /\ UNCHANGED <<pending, taken, current, runs, outcome, cancelled, submitted>>

RunFulfils(w) ==
  /\ phase[w] = "running"
  /\ phase' = [phase EXCEPT ![w] = "completed"]
  /\ succeeded' = succeeded \cup {current[w]}
  /\ UNCHANGED <<pending, taken, current, runs, outcome, cancelled, submitted>>

RunRejects(w) ==
  /\ phase[w] = "running"
  /\ Failed(w)
  /\ UNCHANGED succeeded

\* audit.record() fulfils, or there is no sink: the outcome is final.
AuditFulfils(w) ==
  /\ phase[w] \in {"completed", "failed", "unknown"}
  /\ outcome' = [outcome EXCEPT ![current[w]] =
                   IF phase[w] = "completed" THEN "ok" ELSE "failed"]
  /\ Return(w)
  /\ UNCHANGED <<pending, runs, succeeded, cancelled, submitted>>

\* The record of a success rejects inside the try: the job counts as failed.
AuditRejectsSuccess(w) ==
  /\ TRUE \in AuditRejects
  /\ phase[w] = "completed"
  /\ Failed(w)
  /\ UNCHANGED succeeded

\* The record of a failure rejects: runDue() rejects, its batch is gone.
AuditRejectsFailure(w) ==
  /\ TRUE \in AuditRejects
  /\ phase[w] \in {"failed", "unknown"}
  /\ taken' = [taken EXCEPT ![w] = {}]
  /\ current' = [current EXCEPT ![w] = NoTask]
  /\ phase' = [phase EXCEPT ![w] = "idle"]
  /\ UNCHANGED <<pending, runs, outcome, succeeded, cancelled, submitted>>

Work(w) ==
  \/ RunDue(w) \/ NextJob(w) \/ RunFulfils(w) \/ RunRejects(w)
  \/ AuditFulfils(w) \/ AuditRejectsSuccess(w) \/ AuditRejectsFailure(w)

JobsNext ==
  \/ \E t \in Tasks : Cancel(t) \/ \E delay \in Delays : Schedule(t, delay)
  \/ JobsTick
  \/ \E w \in Workers : Work(w)

JobsSpec == JobsInit /\ [][JobsNext]_jobsVars

\* Time passes, runDue() is called again and again, jobs and the sink settle.
JobsFairness ==
  /\ WF_jobsVars(JobsTick)
  /\ \A w \in Workers : WF_jobsVars(Work(w))

JobsFairSpec == JobsSpec /\ JobsFairness

-----------------------------------------------------------------------------
(* Properties *)

\* The scheduler's map, the batches and the worker states are well-formed; no
\* attempt beyond the last one is ever scheduled.
JobsTypeOK ==
  /\ pending \subseteq Job
  /\ taken \in [Workers -> SUBSET Job]
  /\ current \in [Workers -> Tasks \cup {NoTask}]
  /\ phase \in [Workers -> Phases]
  /\ runs \in [Tasks -> Nat]
  /\ outcome \in [Tasks -> {"none", "ok", "failed"}]
  /\ succeeded \subseteq Tasks
  /\ cancelled \subseteq submitted
  /\ submitted \subseteq Tasks

OnePerTask(S) == \A i, j \in S : i.task = j.task => i = j

\* A task is in the scheduler's map or in the batch of one worker, never in
\* two places: overlapping runDue() calls never run the same job twice.
OnePlace ==
  /\ OnePerTask(pending)
  /\ \A w \in Workers :
       /\ OnePerTask(taken[w])
       /\ TasksOf(taken[w]) \cap TasksOf(pending) = {}
       /\ \A v \in Workers \ {w} : TasksOf(taken[w]) \cap TasksOf(taken[v]) = {}

\* A worker executes a job of its own batch, and only that.
WorkerConsistent ==
  \A w \in Workers :
    /\ phase[w] \in Busy <=> current[w] # NoTask
    /\ phase[w] \in Busy => current[w] \in TasksOf(taken[w])
    /\ phase[w] = "idle" => taken[w] = {}

\* The attempt number a job carries is the number of its starts: it counts the
\* start it is waiting for, or the one that is going on.
AttemptsCounted ==
  /\ \A j \in pending : j.attempt = runs[j.task] + 1
  /\ \A w \in Workers : \A j \in taken[w] :
       j.attempt = IF j.task = current[w] /\ phase[w] # "unknown"
                   THEN runs[j.task] ELSE runs[j.task] + 1

\* No task is started more often than maxAttempts, whatever the audit sink
\* does and however many workers there are.
AttemptsBounded == \A t \in Tasks : runs[t] <= MaxAttempts[t]

\* Overlapping runDue() calls with a rejecting sink hold every job once, know
\* how often it was started, and never start it beyond its last attempt.
JobsKept ==
  JobsTypeOK /\ OnePlace /\ WorkerConsistent /\ AttemptsCounted /\ AttemptsBounded

\* Once cancel() has returned true the job never starts.
CancelFinal == [][\A t \in cancelled : runs'[t] = runs[t]]_jobsVars

\* A job whose worker was ended by a rejecting audit sink: it is nowhere.
Lost(t) ==
  /\ t \in submitted \ cancelled
  /\ outcome[t] = "none"
  /\ t \notin TasksOf(pending)
  /\ \A w \in Workers : t \notin TasksOf(taken[w])

\* "Execute all jobs due now. Returns per-job outcomes": a job that takeDue()
\* removed from the map is kept until it has an outcome or is scheduled again;
\* the one way to lose it is a sink that rejects the record of a failure.
LostOnlyBySink ==
  [][\A t \in Tasks :
       ~Lost(t) /\ Lost(t)' =>
         \E w \in Workers :
           /\ t \in TasksOf(taken[w])
           /\ phase[w] \in {"failed", "unknown"} /\ phase'[w] = "idle"]_jobsVars

\* What schedule() accepted leaves without an outcome in two ways only, a
\* cancel(), after which it never starts, or a sink that rejects.
JobsAccounted == CancelFinal /\ LostOnlyBySink

\* Every scheduled job ends with a reported outcome, is cancelled or is lost in
\* that way; it does not linger.
EveryJobDecided ==
  \A t \in Tasks :
    t \in TasksOf(pending) ~> outcome[t] # "none" \/ t \in cancelled \/ Lost(t)

\* The class comment: the worker "reschedules failures"; a job whose run has
\* fulfilled is not started again.
SuccessIsFinal == [][\A t \in succeeded : runs'[t] = runs[t]]_jobsVars

\* How one task looks from outside.
Status == [t \in Tasks |->
  IF t \notin submitted THEN "new"
  ELSE IF t \in cancelled THEN "cancelled"
  ELSE IF outcome[t] # "none" THEN outcome[t]
  ELSE IF Lost(t) THEN "lost"
  ELSE IF \E w \in Workers : current[w] = t /\ phase[w] # "unknown" THEN "running"
  ELSE "waiting"]

Life == INSTANCE JobLifecycle WITH status <- Status, attempts <- runs

\* Scheduler and workers implement the life of independent jobs, each of which
\* reaches its end.
ImplementsLifecycle == Life!LifeSpec
=============================================================================
