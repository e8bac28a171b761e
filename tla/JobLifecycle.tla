---------------------------- MODULE JobLifecycle ----------------------------
(***************************************************************************)
(* What the jobs package promises about one scheduled job at a time: it    *)
(* waits, runs, is retried at most until its attempts are used up, and     *)
(* ends succeeded, failed, cancelled or, with the worker that held it,     *)
(* lost.  Several jobs are independent.                                    *)
(***************************************************************************)
EXTENDS Naturals

CONSTANTS Tasks,       \* the calls of schedule()
          MaxAttempts  \* [Tasks -> 1..]: attempts including the first

VARIABLES status, attempts

lifeVars == <<status, attempts>>

LifeInit ==
  /\ status = [t \in Tasks |-> "new"]
  /\ attempts = [t \in Tasks |-> 0]

Move(t, from, to) ==
  /\ status[t] = from
  /\ status' = [status EXCEPT ![t] = to]

Submit(t) == Move(t, "new", "waiting") /\ UNCHANGED attempts

\* Only a job that has not run yet can be called back.
Withdraw(t) ==
  /\ attempts[t] = 0
  /\ Move(t, "waiting", "cancelled")
  /\ UNCHANGED attempts

Begin(t) ==
  /\ attempts[t] < MaxAttempts[t]
  /\ Move(t, "waiting", "running")
  /\ attempts' = [attempts EXCEPT ![t] = @ + 1]

\* Nobody can run the job.
Reject(t) == Move(t, "waiting", "failed") /\ UNCHANGED attempts

Succeed(t) == Move(t, "running", "ok") /\ UNCHANGED attempts

Again(t) ==
  /\ attempts[t] < MaxAttempts[t]
  /\ Move(t, "running", "waiting")
  /\ UNCHANGED attempts

GiveUp(t) ==
  /\ attempts[t] = MaxAttempts[t]
  /\ Move(t, "running", "failed")
  /\ UNCHANGED attempts

Progress(t) ==
  \/ Begin(t) \/ Reject(t) \/ Withdraw(t)
  \/ Succeed(t) \/ Again(t) \/ GiveUp(t)

\* A worker ends because its audit sink rejects, and the jobs it still held,
\* S, with it; every other step concerns one job.
Forget(S) ==
  /\ \A t \in S : status[t] \in {"waiting", "running"}
  /\ status' = [t \in Tasks |-> IF t \in S THEN "lost" ELSE status[t]]
  /\ UNCHANGED attempts

LifeNext ==
  \/ \E t \in Tasks : Submit(t) \/ Progress(t)
  \/ \E S \in SUBSET Tasks : Forget(S)

\* What a job may do, and that it does not stop halfway.
LifeSafety == LifeInit /\ [][LifeNext]_lifeVars

LifeSpec ==
  /\ LifeSafety
  /\ \A t \in Tasks :
       WF_lifeVars(Progress(t) \/ \E S \in SUBSET Tasks : t \in S /\ Forget(S))
=============================================================================
