------------------------------ MODULE Bulkhead ------------------------------
(***************************************************************************)
(* packages/mino/src/bulkhead.ts: Bulkhead.execute() as callers, the       *)
(* waiter list and the JavaScript microtask queue see it.                  *)
(*                                                                         *)
(* execute() runs without interruption between two awaits.  A released     *)
(* waiter does not continue at once: resolving its promise puts its        *)
(* continuation at the end of the microtask queue, and so does a settled   *)
(* fn().  Calls arrive at any moment in between.                           *)
(***************************************************************************)
EXTENDS Naturals, Sequences, FiniteSets

CONSTANTS Requests,       \* concurrent users of one Bulkhead
          MaxConcurrent,  \* opts.maxConcurrent, at least 1
          MaxQueue        \* opts.maxQueue, at least 0

ASSUME BulkheadAssumption ==
  /\ MaxConcurrent \in Nat \ {0}
  /\ MaxQueue \in Nat
  /\ IsFiniteSet(Requests)

VARIABLES active,   \* this.active
          waiters,  \* this.waiters: the callers whose resolve is stored
          place,    \* where each caller is
          ready     \* microtasks: callers whose continuation is ready

bulkheadVars == <<active, waiters, place, ready>>

\* "queued": awaiting its own promise; "woken": resolved, not yet resumed;
\* "running": awaiting fn(); "settled": fn() is over, finally not yet run.
Outside == {"idle", "refused"}
Places == Outside \cup {"queued", "woken", "running", "settled"}

At(where) == {c \in Requests : place[c] \in where}

BulkheadInit ==
  /\ active = 0
  /\ waiters = <<>>
  /\ place = [c \in Requests |-> "idle"]
  /\ ready = <<>>

\* Seeded fault: pop() instead of shift(), the last waiter is woken first.
ReleaseSlot_Lifo(c, tasks) ==
  \/ /\ waiters = <<>>
     /\ place' = [place EXCEPT ![c] = "idle"]
     /\ ready' = tasks
     /\ UNCHANGED waiters
  \/ /\ waiters # <<>>
     /\ LET last == waiters[Len(waiters)]
        IN  /\ place' = [place EXCEPT ![c] = "idle", ![last] = "woken"]
            /\ ready' = Append(tasks, last)
     /\ waiters' = SubSeq(waiters, 1, Len(waiters) - 1)

\* finally: the slot of c is free again and the first waiter, if any, is
\* resolved, which puts its continuation behind the other ready ones.
ReleaseSlot(c, tasks) ==
  \/ /\ waiters = <<>>
     /\ place' = [place EXCEPT ![c] = "idle"]
     /\ ready' = tasks
     /\ UNCHANGED waiters
  \/ /\ waiters # <<>>
     /\ place' = [place EXCEPT ![c] = "idle", ![Head(waiters)] = "woken"]
     /\ ready' = Append(tasks, Head(waiters))
     /\ waiters' = Tail(waiters)

\* A call that finds a free slot starts fn() in the same step.
Enter(c) ==
  /\ place[c] \in Outside
  /\ active < MaxConcurrent
  /\ active' = active + 1
  /\ place' = [place EXCEPT ![c] = "running"]
  /\ UNCHANGED <<waiters, ready>>

\* fn() throws before its first await: taking the slot and the finally block
\* happen in one step.
EnterThrows(c) ==
  /\ place[c] \in Outside
  /\ active < MaxConcurrent
  /\ ReleaseSlot(c, ready)
  /\ UNCHANGED active

\* No free slot but room in the line: store the resolve function and await.
Wait(c) ==
  /\ place[c] \in Outside
  /\ active >= MaxConcurrent
  /\ Len(waiters) < MaxQueue
  /\ waiters' = Append(waiters, c)
  /\ place' = [place EXCEPT ![c] = "queued"]
  /\ UNCHANGED <<active, ready>>

\* 429: the bulkhead is saturated and the line is full.
Refuse(c) ==
  /\ place[c] \in Outside
  /\ active >= MaxConcurrent
  /\ Len(waiters) >= MaxQueue
  /\ place' = [place EXCEPT ![c] = "refused"]
  /\ UNCHANGED <<active, waiters, ready>>

\* fn() fulfils or rejects: the continuation of "return await fn()" is ready.
FnSettles(c) ==
  /\ place[c] = "running"
  /\ place' = [place EXCEPT ![c] = "settled"]
  /\ ready' = Append(ready, c)
  /\ UNCHANGED <<active, waiters>>

\* The next microtask is a woken waiter: it takes its slot only now, whatever
\* the value of active has become meanwhile.
Resume ==
  /\ ready # <<>>
  /\ LET c == Head(ready)
     IN  /\ place[c] = "woken"
         /\ place' = [place EXCEPT ![c] = "running"]
  /\ active' = active + 1
  /\ ready' = Tail(ready)
  /\ UNCHANGED waiters

ResumeThrows ==
  /\ ready # <<>>
  /\ place[Head(ready)] = "woken"
  /\ ReleaseSlot(Head(ready), Tail(ready))
  /\ UNCHANGED active

\* Seeded fault: the slot is handed over to the waiter, who counts it again.
Finish_HandsOver ==
  /\ ready # <<>>
  /\ place[Head(ready)] = "settled"
  /\ active' = IF waiters = <<>> THEN active - 1 ELSE active
  /\ ReleaseSlot(Head(ready), Tail(ready))

\* The next microtask is the finally block of a settled call.
Finish ==
  /\ ready # <<>>
  /\ place[Head(ready)] = "settled"
  /\ active' = active - 1
  /\ ReleaseSlot(Head(ready), Tail(ready))

Microtask == Resume \/ ResumeThrows \/ Finish

BulkheadNext ==
  \/ \E c \in Requests :
       Enter(c) \/ EnterThrows(c) \/ Wait(c) \/ Refuse(c) \/ FnSettles(c)
  \/ Microtask

BulkheadSpec == BulkheadInit /\ [][BulkheadNext]_bulkheadVars

\* The event loop drains the microtask queue; a protected call ends.
BulkheadFairness ==
  /\ WF_bulkheadVars(Microtask)
  /\ \A c \in Requests : WF_bulkheadVars(FnSettles(c))

BulkheadFairSpec == BulkheadSpec /\ BulkheadFairness

-----------------------------------------------------------------------------
(* Properties *)

\* The fields keep their types and the line never exceeds opts.maxQueue.
BulkheadTypeOK ==
  /\ active \in Nat
  /\ waiters \in Seq(Requests)
  /\ Len(waiters) <= MaxQueue
  /\ place \in [Requests -> Places]
  /\ ready \in Seq(Requests)

Distinct(s) == \A i, j \in 1..Len(s) : s[i] = s[j] => i = j

\* The waiter list and the microtask queue hold each caller at most once, and
\* only callers that really are at that point of execute().
LineConsistent ==
  /\ Distinct(waiters)
  /\ \A i \in 1..Len(waiters) : place[waiters[i]] = "queued"
  /\ Distinct(ready)
  /\ \A i \in 1..Len(ready) : place[ready[i]] \in {"woken", "settled"}

\* No path through execute(), the throwing ones included, leaks or invents a
\* slot: this.active is the number of calls between active++ and active--.
SlotsBalanced == active = Cardinality(At({"running", "settled"}))

\* Nobody waits next to a free slot: as long as a caller is in the waiter
\* list, maxConcurrent slots are taken or promised to woken waiters.
NoLostWakeup ==
  waiters # <<>> => active + Cardinality(At({"woken"})) >= MaxConcurrent

\* Every caller that waits is in the list, or its continuation is ready: a
\* wake-up is never handed to the wrong caller and never dropped.
NobodyForgotten ==
  /\ \A c \in At({"queued"}) : \E i \in 1..Len(waiters) : waiters[i] = c
  /\ \A c \in At({"woken", "settled"}) :
       \E i \in 1..Len(ready) : ready[i] = c

\* The line a caller sees: woken waiters that have not resumed, then the list.
InLine == At({"queued", "woken"})
Before(q, a, b) == \E i, j \in 1..Len(q) : i < j /\ q[i] = a /\ q[j] = b
Ahead == {p \in InLine \X InLine : Before(ready \o waiters, p[1], p[2])}

G == INSTANCE Gate WITH Callers <- Requests,
                        Capacity <- MaxConcurrent,
                        line <- InLine,
                        ahead <- Ahead,
                        inside <- At({"running", "settled"})

\* execute() implements a gate whose line is first come, first served.
ImplementsGate == G!GateSpec

\* The slots and the line of execute(): whatever throws, and in whatever order
\* callers arrive, resume and finish, no slot is leaked or invented, every
\* caller that waits is in line once, and nobody waits next to a free slot.
SlotsSafe ==
  BulkheadTypeOK /\ LineConsistent /\ NobodyForgotten /\ SlotsBalanced /\ NoLostWakeup
=============================================================================
