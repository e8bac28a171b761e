-------------------------- MODULE ResilienceProofs ---------------------------
(***************************************************************************)
(* What is proved of the policies around a call: the bulkhead, for every   *)
(* number of callers, every maxConcurrent and every maxQueue, as it is and *)
(* as the gate its callers take it for; the circuit breaker, for every     *)
(* number of callers, threshold, timeout and probe limit, with or without  *)
(* a throwing listener; and the budgets of withRetry(), of readiness       *)
(* reports and of the rate limiter.                                        *)
(***************************************************************************)
EXTENDS Bulkhead, CircuitBreaker, RateLimit, Retry, Readiness, TLAPS, FiniteSetTheorems

(***************************************************************************)
(* The bulkhead.  What makes its invariant inductive is LineConsistent:    *)
(* the head of the waiter list is a caller that is still waiting, so       *)
(* waking it never counts a caller twice.                                  *)
(***************************************************************************)

\* Type correctness, the shape of the two queues, the slot count and the
\* absence of lost wake-ups, together inductive.
BulkheadInv == BulkheadTypeOK /\ LineConsistent /\ SlotsBalanced /\ NoLostWakeup

-----------------------------------------------------------------------------

LEMMA TailFacts ==
  ASSUME NEW S, NEW s \in Seq(S), s # <<>>
  PROVE  /\ Len(s) \in Nat \ {0}
         /\ Head(s) = s[1]
         /\ Head(s) \in S
         /\ Tail(s) \in Seq(S)
         /\ Len(Tail(s)) = Len(s) - 1
         /\ \A i \in 1..Len(Tail(s)) : Tail(s)[i] = s[i + 1]
  OBVIOUS

LEMMA AppendFacts ==
  ASSUME NEW S, NEW s \in Seq(S), NEW e \in S
  PROVE  /\ Append(s, e) \in Seq(S)
         /\ Len(Append(s, e)) = Len(s) + 1
         /\ Len(s) \in Nat
         /\ \A i \in 1..Len(s) : Append(s, e)[i] = s[i]
         /\ Append(s, e)[Len(s) + 1] = e
  OBVIOUS

\* Taking the head off a queue without repetitions leaves one, without it.
LEMMA TailDistinct ==
  ASSUME NEW S, NEW s \in Seq(S), s # <<>>, Distinct(s)
  PROVE  /\ Distinct(Tail(s))
         /\ \A i \in 1..Len(Tail(s)) : Tail(s)[i] # Head(s)
<1>1. /\ Len(s) \in Nat \ {0}
      /\ Len(Tail(s)) = Len(s) - 1
      /\ Head(s) = s[1]
      /\ \A i \in 1..Len(Tail(s)) : Tail(s)[i] = s[i + 1]
  BY TailFacts
<1>2. \A i \in 1..Len(Tail(s)) : i + 1 \in 1..Len(s) /\ 1 \in 1..Len(s) /\ i + 1 # 1
  BY <1>1
<1>3. \A i \in 1..Len(Tail(s)) : Tail(s)[i] # Head(s)
  BY <1>1, <1>2 DEF Distinct
<1>4. \A i, j \in 1..Len(Tail(s)) : Tail(s)[i] = Tail(s)[j] => i = j
  BY <1>1, <1>2 DEF Distinct
<1>5. QED BY <1>3, <1>4 DEF Distinct

\* Appending a newcomer keeps a queue without repetitions that way.
LEMMA AppendDistinct ==
  ASSUME NEW S, NEW s \in Seq(S), NEW e \in S, Distinct(s),
         \A i \in 1..Len(s) : s[i] # e
  PROVE  Distinct(Append(s, e))
<1>1. /\ Len(Append(s, e)) = Len(s) + 1
      /\ Len(s) \in Nat
      /\ \A i \in 1..Len(s) : Append(s, e)[i] = s[i]
      /\ Append(s, e)[Len(s) + 1] = e
  BY AppendFacts
<1>2. SUFFICES ASSUME NEW i \in 1..Len(Append(s, e)), NEW j \in 1..Len(Append(s, e)),
                      Append(s, e)[i] = Append(s, e)[j]
               PROVE  i = j
  BY DEF Distinct
<1>3. CASE i \in 1..Len(s) /\ j \in 1..Len(s)
  BY <1>1, <1>2, <1>3 DEF Distinct
<1>4. CASE i = Len(s) + 1 \/ j = Len(s) + 1
  BY <1>1, <1>2, <1>4
<1>5. QED BY <1>1, <1>3, <1>4

\* One caller more, or one less, at a place changes the count by one.
LEMMA CountIn ==
  ASSUME NEW T, IsFiniteSet(T), NEW c, c \notin T
  PROVE  /\ Cardinality(T \cup {c}) = Cardinality(T) + 1
         /\ Cardinality(T) \in Nat
         /\ IsFiniteSet(T \cup {c})
  BY FS_AddElement, FS_CardinalityType

LEMMA CountOut ==
  ASSUME NEW T, IsFiniteSet(T), NEW c \in T
  PROVE  /\ Cardinality(T \ {c}) = Cardinality(T) - 1
         /\ Cardinality(T) \in Nat \ {0}
<1>1. /\ Cardinality(T \ {c}) = Cardinality(T) - 1
      /\ IsFiniteSet(T \ {c})
  BY FS_RemoveElement
<1>2. Cardinality(T) \in Nat /\ Cardinality(T \ {c}) \in Nat
  BY <1>1, FS_CardinalityType
<1>3. QED BY <1>1, <1>2

LEMMA AtFinite == \A where : IsFiniteSet(At(where))
<1>1. TAKE where
<1>2. At(where) \subseteq Requests BY DEF At
<1>3. QED BY <1>2, FS_Subset, BulkheadAssumption

-----------------------------------------------------------------------------
(* The part of finally that deals with the line *)

\* What a release does to the line and the counts, whoever releases.  The
\* caller c is out of both queues; it stands for the released slot.
LEMMA ReleaseKeepsLine ==
  ASSUME BulkheadTypeOK, LineConsistent,
         NEW c \in Requests, NEW tasks \in Seq(Requests),
         place[c] # "queued",
         Distinct(tasks),
         \A i \in 1..Len(tasks) :
           tasks[i] # c /\ place[tasks[i]] \in {"woken", "settled"},
         ReleaseSlot(c, tasks)
  PROVE  /\ waiters' \in Seq(Requests)
         /\ Len(waiters') <= MaxQueue
         /\ place' \in [Requests -> Places]
         /\ ready' \in Seq(Requests)
         /\ LineConsistent'
         /\ At({"running", "settled"})' = At({"running", "settled"}) \ {c}
         /\ \/ waiters' = <<>>
            \/ /\ waiters # <<>>
               /\ Head(waiters) \notin At({"woken"})
               /\ At({"woken"})' = (At({"woken"}) \ {c}) \cup {Head(waiters)}
<1> USE DEF BulkheadTypeOK, LineConsistent
<1>1. CASE waiters = <<>>
  <2>1. /\ place' = [place EXCEPT ![c] = "idle"]
        /\ ready' = tasks
        /\ waiters' = <<>>
    BY <1>1 DEF ReleaseSlot
  <2>2. place' \in [Requests -> Places] /\ waiters' \in Seq(Requests) /\ Len(waiters') <= MaxQueue
    BY <2>1, <1>1 DEF Places, Outside
  <2>3. \A i \in 1..Len(tasks) : tasks[i] \in Requests /\ place'[tasks[i]] = place[tasks[i]]
    BY <2>1
  <2>4. LineConsistent'
    BY <2>1, <2>3, <1>1 DEF Distinct
  <2>5. At({"running", "settled"})' = At({"running", "settled"}) \ {c}
    BY <2>1 DEF At
  <2>6. QED BY <2>1, <2>2, <2>4, <2>5
<1>2. CASE waiters # <<>>
  <2> DEFINE h == Head(waiters)
  <2>1. /\ place' = [place EXCEPT ![c] = "idle", ![h] = "woken"]
        /\ ready' = Append(tasks, h)
        /\ waiters' = Tail(waiters)
    BY <1>2 DEF ReleaseSlot
  <2>2. /\ Len(waiters) \in Nat \ {0}
        /\ h = waiters[1]
        /\ h \in Requests
        /\ Tail(waiters) \in Seq(Requests)
        /\ Len(Tail(waiters)) = Len(waiters) - 1
        /\ \A i \in 1..Len(Tail(waiters)) : Tail(waiters)[i] = waiters[i + 1]
    BY <1>2, TailFacts
  <2>3. place[h] = "queued" /\ h # c
    BY <2>2
  <2>4. place' \in [Requests -> Places]
    BY <2>1, <2>2 DEF Places, Outside
  <2>5. \A d \in Requests : place'[d] = IF d = h THEN "woken" ELSE IF d = c THEN "idle" ELSE place[d]
    BY <2>1, <2>2, <2>3
  <2>6. /\ Distinct(waiters')
        /\ \A i \in 1..Len(waiters') : waiters'[i] # h
    BY <2>1, <1>2, TailDistinct
  <2>7. \A i \in 1..Len(waiters') : place'[waiters'[i]] = "queued"
    <3>1. TAKE i \in 1..Len(waiters')
    <3>2. waiters'[i] = waiters[i + 1] /\ i + 1 \in 1..Len(waiters)
      BY <2>1, <2>2
    <3>3. waiters'[i] \in Requests /\ place[waiters'[i]] = "queued"
      BY <3>2
    <3>4. QED BY <3>3, <2>5, <2>6
  <2>8. \A i \in 1..Len(tasks) : tasks[i] # h
    BY <2>3
  <2>9. /\ Append(tasks, h) \in Seq(Requests)
        /\ Len(Append(tasks, h)) = Len(tasks) + 1
        /\ Len(tasks) \in Nat
        /\ \A i \in 1..Len(tasks) : Append(tasks, h)[i] = tasks[i]
        /\ Append(tasks, h)[Len(tasks) + 1] = h
    BY <2>2, AppendFacts
  <2>10. Distinct(ready')
    BY <2>1, <2>2, <2>8, AppendDistinct
  <2>11. \A i \in 1..Len(ready') : place'[ready'[i]] \in {"woken", "settled"}
    <3>1. TAKE i \in 1..Len(ready')
    <3>2. CASE i \in 1..Len(tasks)
      <4>1. ready'[i] = tasks[i] /\ tasks[i] \in Requests
        BY <3>2, <2>1, <2>9
      <4>2. QED BY <4>1, <3>2, <2>5, <2>8
    <3>3. CASE i = Len(tasks) + 1
      BY <3>3, <2>1, <2>2, <2>5, <2>9
    <3>4. QED BY <3>2, <3>3, <2>1, <2>9
  <2>12. At({"running", "settled"})' = At({"running", "settled"}) \ {c}
    BY <2>2, <2>3, <2>5 DEF At
  <2>13. /\ At({"woken"})' = (At({"woken"}) \ {c}) \cup {h}
         /\ h \notin At({"woken"})
    BY <2>2, <2>3, <2>5 DEF At
  <2>14. Len(waiters') <= MaxQueue
    BY <2>1, <2>2, BulkheadAssumption
  <2>15. QED
    BY <1>2, <2>1, <2>2, <2>4, <2>6, <2>7, <2>9, <2>10, <2>11, <2>12, <2>13, <2>14
<1>3. QED BY <1>1, <1>2

\* The head of the microtask queue, as Resume, ResumeThrows and Finish take it.
LEMMA NextMicrotask ==
  ASSUME BulkheadTypeOK, LineConsistent, ready # <<>>
  PROVE  /\ Head(ready) \in Requests
         /\ place[Head(ready)] \in {"woken", "settled"}
         /\ Tail(ready) \in Seq(Requests)
         /\ Distinct(Tail(ready))
         /\ \A i \in 1..Len(Tail(ready)) :
              /\ Tail(ready)[i] # Head(ready)
              /\ place[Tail(ready)[i]] \in {"woken", "settled"}
<1> USE DEF BulkheadTypeOK, LineConsistent
<1>1. /\ Len(ready) \in Nat \ {0}
      /\ Head(ready) = ready[1]
      /\ Head(ready) \in Requests
      /\ Tail(ready) \in Seq(Requests)
      /\ Len(Tail(ready)) = Len(ready) - 1
      /\ \A i \in 1..Len(Tail(ready)) : Tail(ready)[i] = ready[i + 1]
  BY TailFacts
<1>2. \A i \in 1..Len(Tail(ready)) : i + 1 \in 1..Len(ready)
  BY <1>1
<1>3. /\ Distinct(Tail(ready))
      /\ \A i \in 1..Len(Tail(ready)) : Tail(ready)[i] # Head(ready)
  BY TailDistinct
<1>4. QED BY <1>1, <1>2, <1>3

-----------------------------------------------------------------------------

LEMMA BulkheadInitInv == BulkheadInit => BulkheadInv
<1>1. SUFFICES ASSUME BulkheadInit PROVE BulkheadInv
  OBVIOUS
<1>2. BulkheadTypeOK BY <1>1, BulkheadAssumption DEF BulkheadInit, BulkheadTypeOK, Places, Outside
<1>3. LineConsistent BY <1>1 DEF BulkheadInit, LineConsistent, Distinct
<1>4. At({"running", "settled"}) = {} BY <1>1 DEF BulkheadInit, At
<1>5. SlotsBalanced BY <1>1, <1>4, FS_EmptySet DEF BulkheadInit, SlotsBalanced
<1>6. NoLostWakeup BY <1>1 DEF BulkheadInit, NoLostWakeup
<1>7. QED BY <1>2, <1>3, <1>5, <1>6 DEF BulkheadInv

\* A caller moves between two places that the queues do not mention.
LEMMA EnterStep == ASSUME BulkheadInv, NEW c \in Requests, Enter(c) PROVE BulkheadInv'
<1> USE DEF BulkheadInv, BulkheadTypeOK
<1>1. /\ place[c] \in Outside /\ active < MaxConcurrent /\ active' = active + 1
      /\ place' = [place EXCEPT ![c] = "running"]
      /\ waiters' = waiters /\ ready' = ready
  BY DEF Enter
<1>2. BulkheadTypeOK' BY <1>1 DEF Places, Outside
<1>3. LineConsistent'
  BY <1>1 DEF LineConsistent, Distinct, Outside
<1>4. SlotsBalanced'
  <2>1. /\ At({"running", "settled"})' = At({"running", "settled"}) \cup {c}
        /\ c \notin At({"running", "settled"})
    BY <1>1 DEF At, Outside
  <2>2. QED BY <1>1, <2>1, AtFinite, CountIn DEF SlotsBalanced
<1>5. NoLostWakeup'
  <2>1. At({"woken"})' = At({"woken"}) BY <1>1 DEF At, Outside
  <2>2. Cardinality(At({"woken"})) \in Nat BY AtFinite, FS_CardinalityType
  <2>3. QED BY <1>1, <2>1, <2>2, BulkheadAssumption DEF NoLostWakeup
<1>6. QED BY <1>2, <1>3, <1>4, <1>5

LEMMA WaitStep == ASSUME BulkheadInv, NEW c \in Requests, Wait(c) PROVE BulkheadInv'
<1> USE DEF BulkheadInv, BulkheadTypeOK
<1>1. /\ place[c] \in Outside /\ active >= MaxConcurrent /\ Len(waiters) < MaxQueue
      /\ waiters' = Append(waiters, c)
      /\ place' = [place EXCEPT ![c] = "queued"]
      /\ active' = active /\ ready' = ready
  BY DEF Wait
<1>2. /\ Append(waiters, c) \in Seq(Requests)
      /\ Len(Append(waiters, c)) = Len(waiters) + 1
      /\ Len(waiters) \in Nat
      /\ \A i \in 1..Len(waiters) : Append(waiters, c)[i] = waiters[i]
      /\ Append(waiters, c)[Len(waiters) + 1] = c
  BY AppendFacts
<1>3. BulkheadTypeOK' BY <1>1, <1>2, BulkheadAssumption DEF Places, Outside
<1>4. \A i \in 1..Len(waiters) : waiters[i] # c
  BY <1>1 DEF LineConsistent, Outside
<1>5. Distinct(waiters') BY <1>1, <1>4, AppendDistinct DEF LineConsistent
<1>6. \A i \in 1..Len(waiters') : place'[waiters'[i]] = "queued"
  <2>1. TAKE i \in 1..Len(waiters')
  <2>2. CASE i \in 1..Len(waiters)
    <3>1. waiters'[i] = waiters[i] /\ waiters[i] \in Requests
      BY <2>2, <1>1, <1>2
    <3>2. QED BY <3>1, <2>2, <1>1 DEF LineConsistent
  <2>3. CASE i = Len(waiters) + 1 BY <2>3, <1>1, <1>2
  <2>4. QED BY <2>2, <2>3, <1>1, <1>2
<1>7. /\ Distinct(ready')
      /\ \A i \in 1..Len(ready') : place'[ready'[i]] \in {"woken", "settled"}
  BY <1>1 DEF LineConsistent, Distinct, Outside
<1>8. At({"running", "settled"})' = At({"running", "settled"}) /\ At({"woken"})' = At({"woken"})
  BY <1>1 DEF At, Outside
<1>9. Cardinality(At({"woken"})) \in Nat BY AtFinite, FS_CardinalityType
<1>10. QED BY <1>1, <1>3, <1>5, <1>6, <1>7, <1>8, <1>9, BulkheadAssumption
           DEF LineConsistent, SlotsBalanced, NoLostWakeup

LEMMA RefuseStep == ASSUME BulkheadInv, NEW c \in Requests, Refuse(c) PROVE BulkheadInv'
<1> USE DEF BulkheadInv, BulkheadTypeOK
<1>1. /\ place[c] \in Outside
      /\ place' = [place EXCEPT ![c] = "refused"]
      /\ active' = active /\ waiters' = waiters /\ ready' = ready
  BY DEF Refuse
<1>2. BulkheadTypeOK' BY <1>1 DEF Places, Outside
<1>3. LineConsistent' BY <1>1 DEF LineConsistent, Distinct, Outside
<1>4. At({"running", "settled"})' = At({"running", "settled"}) /\ At({"woken"})' = At({"woken"})
  BY <1>1 DEF At, Outside
<1>5. QED BY <1>1, <1>2, <1>3, <1>4 DEF SlotsBalanced, NoLostWakeup

LEMMA FnSettlesStep == ASSUME BulkheadInv, NEW c \in Requests, FnSettles(c) PROVE BulkheadInv'
<1> USE DEF BulkheadInv, BulkheadTypeOK
<1>1. /\ place[c] = "running"
      /\ place' = [place EXCEPT ![c] = "settled"]
      /\ ready' = Append(ready, c)
      /\ active' = active /\ waiters' = waiters
  BY DEF FnSettles
<1>2. /\ Append(ready, c) \in Seq(Requests)
      /\ Len(Append(ready, c)) = Len(ready) + 1
      /\ Len(ready) \in Nat
      /\ \A i \in 1..Len(ready) : Append(ready, c)[i] = ready[i]
      /\ Append(ready, c)[Len(ready) + 1] = c
  BY AppendFacts
<1>3. BulkheadTypeOK' BY <1>1, <1>2 DEF Places, Outside
<1>4. \A i \in 1..Len(ready) : ready[i] # c
  BY <1>1 DEF LineConsistent
<1>5. Distinct(ready') BY <1>1, <1>4, AppendDistinct DEF LineConsistent
<1>6. \A i \in 1..Len(ready') : place'[ready'[i]] \in {"woken", "settled"}
  <2>1. TAKE i \in 1..Len(ready')
  <2>2. CASE i \in 1..Len(ready)
    <3>1. ready'[i] = ready[i] /\ ready[i] \in Requests
      BY <2>2, <1>1, <1>2
    <3>2. QED BY <3>1, <2>2, <1>1 DEF LineConsistent
  <2>3. CASE i = Len(ready) + 1 BY <2>3, <1>1, <1>2
  <2>4. QED BY <2>2, <2>3, <1>1, <1>2
<1>7. /\ Distinct(waiters')
      /\ \A i \in 1..Len(waiters') : place'[waiters'[i]] = "queued"
  BY <1>1 DEF LineConsistent, Distinct
<1>8. At({"running", "settled"})' = At({"running", "settled"}) /\ At({"woken"})' = At({"woken"})
  BY <1>1 DEF At
<1>9. QED BY <1>1, <1>3, <1>5, <1>6, <1>7, <1>8
          DEF LineConsistent, SlotsBalanced, NoLostWakeup

LEMMA EnterThrowsStep == ASSUME BulkheadInv, NEW c \in Requests, EnterThrows(c) PROVE BulkheadInv'
<1> USE DEF BulkheadInv
<1>1. /\ place[c] \in Outside /\ active' = active /\ ReleaseSlot(c, ready)
  BY DEF EnterThrows
<1>2. \A i \in 1..Len(ready) :
        ready[i] # c /\ place[ready[i]] \in {"woken", "settled"}
  BY <1>1 DEF LineConsistent, Outside
<1>3. ready \in Seq(Requests) /\ Distinct(ready) /\ place[c] # "queued"
  BY <1>1 DEF BulkheadTypeOK, LineConsistent, Outside
<1>4. /\ waiters' \in Seq(Requests) /\ Len(waiters') <= MaxQueue
      /\ place' \in [Requests -> Places] /\ ready' \in Seq(Requests)
      /\ LineConsistent'
      /\ At({"running", "settled"})' = At({"running", "settled"}) \ {c}
      /\ \/ waiters' = <<>>
         \/ /\ waiters # <<>>
            /\ Head(waiters) \notin At({"woken"})
            /\ At({"woken"})' = (At({"woken"}) \ {c}) \cup {Head(waiters)}
  BY <1>1, <1>2, <1>3, ReleaseKeepsLine
<1>5. c \notin At({"running", "settled"}) /\ c \notin At({"woken"})
  BY <1>1 DEF At, Outside
<1>6. BulkheadTypeOK' BY <1>1, <1>4 DEF BulkheadTypeOK
<1>7. SlotsBalanced' BY <1>1, <1>4, <1>5 DEF SlotsBalanced
<1>8. NoLostWakeup'
  <2>1. CASE waiters' = <<>> BY <2>1 DEF NoLostWakeup
  <2>2. CASE waiters' # <<>>
    <3>1. At({"woken"})' = At({"woken"}) \cup {Head(waiters)} /\ Head(waiters) \notin At({"woken"})
      BY <1>4, <1>5, <2>2
    <3>2. Cardinality(At({"woken"})') = Cardinality(At({"woken"})) + 1 /\ Cardinality(At({"woken"})) \in Nat
      BY <3>1, AtFinite, CountIn
    <3>3. QED BY <1>1, <1>4, <2>2, <3>2, BulkheadAssumption DEF NoLostWakeup, BulkheadTypeOK
  <2>3. QED BY <2>1, <2>2
<1>9. QED BY <1>4, <1>6, <1>7, <1>8

LEMMA ResumeStep == ASSUME BulkheadInv, Resume PROVE BulkheadInv'
<1> USE DEF BulkheadInv
<1> DEFINE c == Head(ready)
<1>1. /\ ready # <<>> /\ place[c] = "woken"
      /\ place' = [place EXCEPT ![c] = "running"]
      /\ active' = active + 1
      /\ ready' = Tail(ready)
      /\ waiters' = waiters
  BY DEF Resume
<1>2. /\ c \in Requests
      /\ Tail(ready) \in Seq(Requests)
      /\ Distinct(Tail(ready))
      /\ \A i \in 1..Len(Tail(ready)) :
           Tail(ready)[i] # c /\ place[Tail(ready)[i]] \in {"woken", "settled"}
  BY <1>1, NextMicrotask
<1> HIDE DEF c
<1>3. BulkheadTypeOK' BY <1>1, <1>2 DEF BulkheadTypeOK, Places, Outside
<1>4. LineConsistent'
  <2>1. \A i \in 1..Len(waiters') : place'[waiters'[i]] = "queued"
    BY <1>1, <1>2 DEF BulkheadTypeOK, LineConsistent
  <2>2. \A i \in 1..Len(ready') : place'[ready'[i]] \in {"woken", "settled"}
    <3>1. TAKE i \in 1..Len(ready')
    <3>2. ready'[i] \in Requests /\ ready'[i] # c
      BY <1>1, <1>2
    <3>3. QED BY <3>2, <1>1, <1>2 DEF BulkheadTypeOK
  <2>3. QED BY <1>1, <1>2, <2>1, <2>2 DEF LineConsistent, Distinct
<1>5. /\ At({"running", "settled"})' = At({"running", "settled"}) \cup {c}
      /\ c \notin At({"running", "settled"})
      /\ At({"woken"})' = At({"woken"}) \ {c}
      /\ c \in At({"woken"})
  BY <1>1, <1>2 DEF At, BulkheadTypeOK
<1>6. SlotsBalanced' BY <1>1, <1>5, AtFinite, CountIn DEF SlotsBalanced
<1>7. NoLostWakeup'
  <2>1. /\ Cardinality(At({"woken"})') = Cardinality(At({"woken"})) - 1
        /\ Cardinality(At({"woken"})) \in Nat
    BY <1>5, AtFinite, CountOut
  <2>2. QED BY <1>1, <2>1, BulkheadAssumption DEF NoLostWakeup, BulkheadTypeOK
<1>8. QED BY <1>3, <1>4, <1>6, <1>7

\* The two ready that end in the finally block.
LEMMA ResumeThrowsStep == ASSUME BulkheadInv, ResumeThrows PROVE BulkheadInv'
<1> USE DEF BulkheadInv
<1> DEFINE c == Head(ready)
<1>1. /\ ready # <<>> /\ place[c] = "woken" /\ active' = active
      /\ ReleaseSlot(c, Tail(ready))
  BY DEF ResumeThrows
<1>2. /\ c \in Requests
      /\ Tail(ready) \in Seq(Requests)
      /\ Distinct(Tail(ready))
      /\ \A i \in 1..Len(Tail(ready)) :
           Tail(ready)[i] # c /\ place[Tail(ready)[i]] \in {"woken", "settled"}
  BY <1>1, NextMicrotask
<1> HIDE DEF c
<1>3. /\ waiters' \in Seq(Requests) /\ Len(waiters') <= MaxQueue
      /\ place' \in [Requests -> Places] /\ ready' \in Seq(Requests)
      /\ LineConsistent'
      /\ At({"running", "settled"})' = At({"running", "settled"}) \ {c}
      /\ \/ waiters' = <<>>
         \/ /\ waiters # <<>>
            /\ Head(waiters) \notin At({"woken"})
            /\ At({"woken"})' = (At({"woken"}) \ {c}) \cup {Head(waiters)}
  BY <1>1, <1>2, ReleaseKeepsLine
<1>4. c \notin At({"running", "settled"}) /\ c \in At({"woken"})
  BY <1>1, <1>2 DEF At
<1>5. BulkheadTypeOK' BY <1>1, <1>3 DEF BulkheadTypeOK
<1>6. SlotsBalanced' BY <1>1, <1>3, <1>4 DEF SlotsBalanced
<1>7. NoLostWakeup'
  <2>1. CASE waiters' = <<>> BY <2>1 DEF NoLostWakeup
  <2>2. CASE waiters' # <<>>
    <3> DEFINE W == At({"woken"}) \ {c}
    <3>1. At({"woken"})' = W \cup {Head(waiters)} /\ Head(waiters) \notin W
      BY <1>3, <2>2
    <3>2. IsFiniteSet(W) BY AtFinite, FS_Subset
    <3>3. Cardinality(W) = Cardinality(At({"woken"})) - 1 /\ Cardinality(At({"woken"})) \in Nat
      BY <1>4, AtFinite, CountOut
    <3>4. Cardinality(At({"woken"})') = Cardinality(W) + 1
      BY <3>1, <3>2, CountIn
    <3>5. QED BY <1>1, <1>3, <2>2, <3>3, <3>4, BulkheadAssumption DEF NoLostWakeup, BulkheadTypeOK
  <2>3. QED BY <2>1, <2>2
<1>8. QED BY <1>3, <1>5, <1>6, <1>7

LEMMA FinishStep == ASSUME BulkheadInv, Finish PROVE BulkheadInv'
<1> USE DEF BulkheadInv
<1> DEFINE c == Head(ready)
<1>1. /\ ready # <<>> /\ place[c] = "settled" /\ active' = active - 1
      /\ ReleaseSlot(c, Tail(ready))
  BY DEF Finish
<1>2. /\ c \in Requests
      /\ Tail(ready) \in Seq(Requests)
      /\ Distinct(Tail(ready))
      /\ \A i \in 1..Len(Tail(ready)) :
           Tail(ready)[i] # c /\ place[Tail(ready)[i]] \in {"woken", "settled"}
  BY <1>1, NextMicrotask
<1> HIDE DEF c
<1>3. /\ waiters' \in Seq(Requests) /\ Len(waiters') <= MaxQueue
      /\ place' \in [Requests -> Places] /\ ready' \in Seq(Requests)
      /\ LineConsistent'
      /\ At({"running", "settled"})' = At({"running", "settled"}) \ {c}
      /\ \/ waiters' = <<>>
         \/ /\ waiters # <<>>
            /\ Head(waiters) \notin At({"woken"})
            /\ At({"woken"})' = (At({"woken"}) \ {c}) \cup {Head(waiters)}
  BY <1>1, <1>2, ReleaseKeepsLine
<1>4. c \in At({"running", "settled"}) /\ c \notin At({"woken"})
  BY <1>1, <1>2 DEF At
<1>5. /\ Cardinality(At({"running", "settled"})') = Cardinality(At({"running", "settled"})) - 1
      /\ Cardinality(At({"running", "settled"})) \in Nat \ {0}
  BY <1>3, <1>4, AtFinite, CountOut
<1>6. SlotsBalanced' BY <1>1, <1>5 DEF SlotsBalanced
<1>7. BulkheadTypeOK' BY <1>1, <1>3, <1>5 DEF BulkheadTypeOK, SlotsBalanced
<1>8. NoLostWakeup'
  <2>1. CASE waiters' = <<>> BY <2>1 DEF NoLostWakeup
  <2>2. CASE waiters' # <<>>
    <3>1. At({"woken"})' = At({"woken"}) \cup {Head(waiters)} /\ Head(waiters) \notin At({"woken"})
      BY <1>3, <1>4, <2>2
    <3>2. Cardinality(At({"woken"})') = Cardinality(At({"woken"})) + 1 /\ Cardinality(At({"woken"})) \in Nat
      BY <3>1, AtFinite, CountIn
    <3>3. QED BY <1>1, <1>3, <2>2, <3>2, BulkheadAssumption DEF NoLostWakeup, BulkheadTypeOK
  <2>3. QED BY <2>1, <2>2
<1>9. QED BY <1>3, <1>6, <1>7, <1>8

LEMMA BulkheadNextInv == BulkheadInv /\ [BulkheadNext]_bulkheadVars => BulkheadInv'
<1>1. SUFFICES ASSUME BulkheadInv, [BulkheadNext]_bulkheadVars PROVE BulkheadInv' OBVIOUS
<1>2. CASE UNCHANGED bulkheadVars
  BY <1>1, <1>2 DEF bulkheadVars, BulkheadInv, BulkheadTypeOK, LineConsistent, Distinct, SlotsBalanced, NoLostWakeup, At
<1>3. CASE BulkheadNext
  BY <1>1, <1>3, EnterStep, EnterThrowsStep, WaitStep, RefuseStep, FnSettlesStep,
     ResumeStep, ResumeThrowsStep, FinishStep DEF BulkheadNext, Microtask
<1>4. QED BY <1>1, <1>2, <1>3

-----------------------------------------------------------------------------
(* Nobody is forgotten *)

Among(s, x) == \E i \in 1..Len(s) : s[i] = x

\* Who is in a queue stays in it, except the one that is taken off its head.
LEMMA AppendAmong ==
  ASSUME NEW S, NEW s \in Seq(S), NEW e \in S
  PROVE  /\ Among(Append(s, e), e)
         /\ \A x : Among(s, x) => Among(Append(s, e), x)
<1>1. /\ Len(Append(s, e)) = Len(s) + 1
      /\ Len(s) \in Nat
      /\ \A i \in 1..Len(s) : Append(s, e)[i] = s[i]
      /\ Append(s, e)[Len(s) + 1] = e
  BY AppendFacts
<1>2. Len(s) + 1 \in 1..Len(Append(s, e)) /\ 1..Len(s) \subseteq 1..Len(Append(s, e))
  BY <1>1
<1>3. QED BY <1>1, <1>2 DEF Among

LEMMA TailAmong ==
  ASSUME NEW S, NEW s \in Seq(S), s # <<>>
  PROVE  \A x : Among(s, x) => x = Head(s) \/ Among(Tail(s), x)
<1>1. /\ Len(s) \in Nat \ {0}
      /\ Head(s) = s[1]
      /\ Len(Tail(s)) = Len(s) - 1
      /\ \A i \in 1..Len(Tail(s)) : Tail(s)[i] = s[i + 1]
  BY TailFacts
<1>2. SUFFICES ASSUME NEW i \in 1..Len(s), s[i] # Head(s)
               PROVE  Among(Tail(s), s[i])
  BY DEF Among
<1>3. i - 1 \in 1..Len(Tail(s)) /\ (i - 1) + 1 = i
  BY <1>1, <1>2
<1>4. Tail(s)[i - 1] = s[i] BY <1>1, <1>3
<1>5. QED BY <1>3, <1>4 DEF Among

\* The property in terms of Among, one caller at a time.
LEMMA ForgottenByCaller ==
  NobodyForgotten <=>
    \A d \in Requests :
      /\ place[d] = "queued" => Among(waiters, d)
      /\ place[d] \in {"woken", "settled"} => Among(ready, d)
BY DEF NobodyForgotten, Among, At

\* A release takes c out and moves the head of the line to the other queue.
LEMMA ReleaseForgetsNobody ==
  ASSUME BulkheadTypeOK, NobodyForgotten,
         NEW c \in Requests, NEW tasks \in Seq(Requests),
         \A d \in Requests \ {c} : place[d] \in {"woken", "settled"} => Among(tasks, d),
         ReleaseSlot(c, tasks)
  PROVE  NobodyForgotten'
<1> USE DEF BulkheadTypeOK
<1>1. SUFFICES ASSUME NEW d \in Requests
               PROVE  /\ place'[d] = "queued" => Among(waiters', d)
                      /\ place'[d] \in {"woken", "settled"} => Among(ready', d)
  BY DEF NobodyForgotten, Among, At
<1>2. CASE waiters = <<>>
  BY <1>2, ForgottenByCaller DEF ReleaseSlot
<1>3. CASE waiters # <<>>
  <2> DEFINE h == Head(waiters)
  <2>1. /\ place' = [place EXCEPT ![c] = "idle", ![h] = "woken"]
        /\ ready' = Append(tasks, h)
        /\ waiters' = Tail(waiters)
    BY <1>3 DEF ReleaseSlot
  <2>2. h \in Requests BY <1>3, TailFacts
  <2>3. place'[d] = IF d = h THEN "woken" ELSE IF d = c THEN "idle" ELSE place[d]
    BY <2>1, <2>2
  <2>4. ASSUME place'[d] = "queued" PROVE Among(waiters', d)
    <3>1. d # h /\ place[d] = "queued" BY <2>3, <2>4
    <3>2. Among(waiters, d) BY <3>1, ForgottenByCaller
    <3>3. QED BY <1>3, <2>1, <3>1, <3>2, TailAmong
  <2>5. ASSUME place'[d] \in {"woken", "settled"} PROVE Among(ready', d)
    <3>1. CASE d = h BY <3>1, <2>1, <2>2, AppendAmong
    <3>2. CASE d # h
      <4>1. d # c /\ place[d] \in {"woken", "settled"} BY <3>2, <2>3, <2>5
      <4>2. QED BY <4>1, <2>1, <2>2, AppendAmong
    <3>3. QED BY <3>1, <3>2
  <2>6. QED BY <2>4, <2>5
<1>4. QED BY <1>2, <1>3

\* The head of the microtask queue is the only one that leaves it.
LEMMA TailKeepsReady ==
  ASSUME BulkheadTypeOK, NobodyForgotten, ready # <<>>
  PROVE  /\ Head(ready) \in Requests /\ Tail(ready) \in Seq(Requests)
         /\ \A d \in Requests \ {Head(ready)} :
              place[d] \in {"woken", "settled"} => Among(Tail(ready), d)
<1>1. ready \in Seq(Requests) BY DEF BulkheadTypeOK
<1>2. Head(ready) \in Requests /\ Tail(ready) \in Seq(Requests) BY <1>1, TailFacts
<1>3. QED BY <1>1, <1>2, TailAmong, ForgottenByCaller

LEMMA NextForgetsNobody ==
  BulkheadInv /\ NobodyForgotten /\ [BulkheadNext]_bulkheadVars => NobodyForgotten'
<1>1. SUFFICES ASSUME BulkheadInv, NobodyForgotten, [BulkheadNext]_bulkheadVars
               PROVE  NobodyForgotten'
  OBVIOUS
<1> USE DEF BulkheadInv, BulkheadTypeOK
<1>2. SUFFICES ASSUME BulkheadNext PROVE NobodyForgotten'
  BY <1>1 DEF bulkheadVars, NobodyForgotten, At
<1>3. ASSUME NEW c \in Requests, Enter(c) \/ Refuse(c) PROVE NobodyForgotten'
  <2>1. /\ waiters' = waiters /\ ready' = ready
        /\ place' = [place EXCEPT ![c] = "running"] \/ place' = [place EXCEPT ![c] = "refused"]
    BY <1>3 DEF Enter, Refuse
  <2>2. QED BY <1>1, <2>1 DEF NobodyForgotten, At
<1>4. ASSUME NEW c \in Requests, EnterThrows(c) PROVE NobodyForgotten'
  <2>1. \A d \in Requests \ {c} : place[d] \in {"woken", "settled"} => Among(ready, d)
    BY <1>1, ForgottenByCaller
  <2>2. QED BY <1>1, <1>4, <2>1, ReleaseForgetsNobody DEF EnterThrows
<1>5. ASSUME NEW c \in Requests, Wait(c) PROVE NobodyForgotten'
  <2>1. /\ waiters' = Append(waiters, c) /\ ready' = ready
        /\ place' = [place EXCEPT ![c] = "queued"]
    BY <1>5 DEF Wait
  <2>2. \A d \in Requests : /\ place'[d] = "queued" => Among(waiters', d)
                            /\ place'[d] \in {"woken", "settled"} => Among(ready', d)
    BY <1>1, <2>1, AppendAmong, ForgottenByCaller
  <2>3. QED BY <2>2 DEF NobodyForgotten, Among, At
<1>6. ASSUME NEW c \in Requests, FnSettles(c) PROVE NobodyForgotten'
  <2>1. /\ waiters' = waiters /\ ready' = Append(ready, c)
        /\ place' = [place EXCEPT ![c] = "settled"]
    BY <1>6 DEF FnSettles
  <2>2. \A d \in Requests : /\ place'[d] = "queued" => Among(waiters', d)
                            /\ place'[d] \in {"woken", "settled"} => Among(ready', d)
    BY <1>1, <2>1, AppendAmong, ForgottenByCaller
  <2>3. QED BY <2>2 DEF NobodyForgotten, Among, At
<1>7. ASSUME Resume PROVE NobodyForgotten'
  <2>1. /\ ready # <<>> /\ waiters' = waiters /\ ready' = Tail(ready)
        /\ place' = [place EXCEPT ![Head(ready)] = "running"]
    BY <1>7 DEF Resume
  <2>2. \A d \in Requests : /\ place'[d] = "queued" => Among(waiters', d)
                            /\ place'[d] \in {"woken", "settled"} => Among(ready', d)
    BY <1>1, <2>1, TailKeepsReady, ForgottenByCaller
  <2>3. QED BY <2>2 DEF NobodyForgotten, Among, At
<1>8. ASSUME ResumeThrows \/ Finish PROVE NobodyForgotten'
  <2>1. ready # <<>> /\ ReleaseSlot(Head(ready), Tail(ready))
    BY <1>8 DEF ResumeThrows, Finish
  <2>2. QED BY <1>1, <2>1, TailKeepsReady, ReleaseForgetsNobody
<1>9. QED BY <1>2, <1>3, <1>4, <1>5, <1>6, <1>7, <1>8 DEF BulkheadNext, Microtask

-----------------------------------------------------------------------------

THEOREM BulkheadInvariant == BulkheadSpec => []BulkheadInv
BY BulkheadInitInv, BulkheadNextInv, PTL DEF BulkheadSpec

\* Slots and line are safe together: types, no slot leaked or invented, no
\* caller forgotten or in line twice, nobody waiting next to a free slot.
THEOREM SlotsAlwaysSafe == BulkheadSpec => []SlotsSafe
<1>1. BulkheadInit => NobodyForgotten
  BY DEF BulkheadInit, NobodyForgotten, At
<1>2. BulkheadSpec => []NobodyForgotten
  BY <1>1, BulkheadInvariant, NextForgetsNobody, PTL DEF BulkheadSpec
<1>3. BulkheadInv /\ NobodyForgotten => SlotsSafe
  BY DEF BulkheadInv, SlotsSafe
<1>4. QED BY <1>2, <1>3, BulkheadInvariant, PTL

\* Types, and the line never longer than maxQueue, for every configuration.
THEOREM TypeCorrect == BulkheadSpec => []BulkheadTypeOK
BY BulkheadInvariant, PTL DEF BulkheadInv

\* No path through execute() leaks or invents a slot.
THEOREM SlotsAlwaysBalanced == BulkheadSpec => []SlotsBalanced
BY BulkheadInvariant, PTL DEF BulkheadInv

\* Nobody waits next to a free slot: while the line is not empty, maxConcurrent
\* slots are taken or promised.
THEOREM NeverLosesWakeup == BulkheadSpec => []NoLostWakeup
BY BulkheadInvariant, PTL DEF BulkheadInv

-----------------------------------------------------------------------------
(* The circuit breaker *)

\* The probe limit is kept because no call is let through without having been
\* counted: admitted stays behind halfOpenCalls, also across a half-open
\* period that began without clearing halfOpenCalls.
BreakerInv ==
  /\ BreakerTypeOK
  /\ ClosedBelowThreshold
  /\ ProbesBounded
  /\ admitted <= halfOpenCalls

LEMMA ProbingFinite == IsFiniteSet(Probing)
BY FS_Subset, BreakerAssumption DEF Probing

LEMMA BreakerInitInv == BreakerInit => BreakerInv
<1>1. SUFFICES ASSUME BreakerInit PROVE BreakerInv OBVIOUS
<1>2. Probing = {} BY <1>1 DEF BreakerInit, Probing
<1>3. QED BY <1>1, <1>2, FS_EmptySet, BreakerAssumption
          DEF BreakerInit, BreakerInv, BreakerTypeOK, ClosedBelowThreshold, ProbesBounded, Free

\* Nobody is a probe of a half-open period that has just begun.
LEMMA StaleFacts ==
  ASSUME BreakerTypeOK
  PROVE  /\ Stale \in [Callers -> Free \cup {"calling"}]
         /\ \A c \in Callers : Stale[c] \in Free <=> call[c] \in Free
BY DEF Stale, BreakerTypeOK, Free

\* The half-open branch of execute() keeps the probe limit, whatever the
\* counter was left at.
LEMMA TryProbeKeepsBound ==
  ASSUME BreakerAssumption,
         NEW c \in Callers, NEW count \in 0..HalfOpenMaxCalls + 1,
         NEW through \in 0..HalfOpenMaxCalls, through <= count,
         NEW where \in [Callers -> Free \cup {"calling", "probing"}],
         where[c] \in Free,
         Cardinality({d \in Callers : where[d] = "probing"}) <= through,
         TryProbe(c, count, through, where)
  PROVE  /\ call' \in [Callers -> Free \cup {"calling", "probing"}]
         /\ admitted' \in 0..HalfOpenMaxCalls
         /\ halfOpenCalls' \in 0..HalfOpenMaxCalls + 1
         /\ admitted' <= halfOpenCalls'
         /\ Cardinality(Probing') <= admitted'
<1> DEFINE P == {d \in Callers : where[d] = "probing"}
<1>1. c \notin P BY DEF Free
<1>2. IsFiniteSet(P) BY FS_Subset
<1>3. Cardinality(P) \in Nat /\ Cardinality(P \cup {c}) = Cardinality(P) + 1
  BY <1>1, <1>2, FS_AddElement, FS_CardinalityType
<1>4. CASE count >= HalfOpenMaxCalls
  <2>1. /\ call' = [where EXCEPT ![c] = "refused"]
        /\ admitted' = through
        /\ halfOpenCalls' = CountTo(HalfOpenMaxCalls + 1, count)
    BY <1>4 DEF TryProbe
  <2>2. Probing' = P BY <2>1, <1>1 DEF Probing, Free
  <2>3. QED BY <2>1, <2>2 DEF CountTo, Free
<1>5. CASE ~(count >= HalfOpenMaxCalls)
  <2>1. /\ call' = [where EXCEPT ![c] = "probing"]
        /\ admitted' = through + 1
        /\ halfOpenCalls' = count + 1
    BY <1>5 DEF TryProbe
  <2>2. Probing' = P \cup {c} BY <2>1 DEF Probing
  <2>3. call' \in [Callers -> Free \cup {"calling", "probing"}] BY <2>1 DEF Free
  <2>4. /\ admitted' \in 0..HalfOpenMaxCalls /\ halfOpenCalls' \in 0..HalfOpenMaxCalls + 1
        /\ admitted' <= halfOpenCalls'
    BY <2>1, <1>5, BreakerAssumption
  <2>5. Cardinality(Probing') <= admitted'
    <3>1. Cardinality(P) + 1 <= through + 1 BY <1>3
    <3>2. QED BY <3>1, <2>1, <2>2, <1>3
  <2>6. QED BY <2>3, <2>4, <2>5
<1>6. QED BY <1>4, <1>5

\* onFailure() either opens the circuit or leaves it below the threshold.
LEMMA OnFailureFacts ==
  ASSUME BreakerAssumption,
         NEW st \in {"closed", "open", "half-open"}, NEW n \in 0..FailureThreshold,
         elapsed \in 0..ResetTimeout,
         OnFailure(st, n)
  PROVE  /\ state' \in {"closed", "open", "half-open"}
         /\ failures' \in 0..FailureThreshold
         /\ elapsed' \in 0..ResetTimeout
         /\ state' = "closed" => failures' < FailureThreshold
         /\ state' = "open" => elapsed' = 0 \/ st = "open"
BY DEF OnFailure, CountTo

LEMMA GetStateStep == ASSUME BreakerInv, GetState PROVE BreakerInv'
<1>1. Probing' = {} BY StaleFacts DEF BreakerInv, GetState, Probing, Free
<1>2. /\ state' = "half-open" /\ call' = Stale /\ admitted' = 0
      /\ halfOpenCalls' \in {0, halfOpenCalls}
      /\ failures' = failures /\ elapsed' = elapsed
  BY DEF GetState
<1>3. BreakerTypeOK' /\ ClosedBelowThreshold' /\ admitted' <= halfOpenCalls'
  BY <1>2, StaleFacts, BreakerAssumption DEF BreakerInv, BreakerTypeOK, ClosedBelowThreshold, Free
<1>4. ProbesBounded'
  BY <1>1, <1>2, FS_EmptySet, BreakerAssumption DEF ProbesBounded
<1>5. QED BY <1>3, <1>4 DEF BreakerInv

LEMMA CallStep == ASSUME BreakerInv, NEW c \in Callers, Call(c) PROVE BreakerInv'
<1> USE BreakerAssumption DEF BreakerInv, ProbesBounded
<1>1. CASE CallClosed(c) \/ FailFast(c)
  <2>1. Probing' = Probing BY <1>1 DEF CallClosed, FailFast, Probing, Free, BreakerTypeOK
  <2>2. QED BY <1>1, <2>1 DEF CallClosed, FailFast, BreakerTypeOK, ClosedBelowThreshold, Free
<1>2. CASE CallHalfOpen(c)
  <2>1. /\ call[c] \in Free /\ state = "half-open" /\ TryProbe(c, halfOpenCalls, admitted, call)
        /\ state' = state /\ failures' = failures /\ elapsed' = elapsed
    BY <1>2 DEF CallHalfOpen
  <2>2. Cardinality({d \in Callers : call[d] = "probing"}) <= admitted
    BY DEF Probing
  <2>3. /\ call' \in [Callers -> Free \cup {"calling", "probing"}]
        /\ admitted' \in 0..HalfOpenMaxCalls
        /\ halfOpenCalls' \in 0..HalfOpenMaxCalls + 1
        /\ admitted' <= halfOpenCalls'
        /\ Cardinality(Probing') <= admitted'
    BY <2>1, <2>2, TryProbeKeepsBound DEF BreakerTypeOK
  <2>4. QED BY <2>1, <2>3 DEF BreakerTypeOK, ClosedBelowThreshold
<1>3. CASE CallExpired(c)
  <2>1. /\ call[c] \in Free /\ state' = "half-open"
        /\ failures' = failures /\ elapsed' = elapsed
    BY <1>3 DEF CallExpired
  <2>2. {d \in Callers : Stale[d] = "probing"} = {} BY StaleFacts DEF Free
  <2>3. CASE TryProbe(c, 0, 0, Stale)
    <3>1. Cardinality({d \in Callers : Stale[d] = "probing"}) <= 0
      BY <2>2, FS_EmptySet
    <3>2. Stale \in [Callers -> Free \cup {"calling", "probing"}] /\ Stale[c] \in Free
      BY <2>1, StaleFacts
    <3>3. 0 \in 0..HalfOpenMaxCalls + 1 /\ 0 \in 0..HalfOpenMaxCalls /\ 0 <= 0
      OBVIOUS
    <3>4. /\ call' \in [Callers -> Free \cup {"calling", "probing"}]
          /\ admitted' \in 0..HalfOpenMaxCalls
          /\ halfOpenCalls' \in 0..HalfOpenMaxCalls + 1
          /\ admitted' <= halfOpenCalls'
          /\ Cardinality(Probing') <= admitted'
      BY <2>3, <3>1, <3>2, <3>3, TryProbeKeepsBound
    <3>5. QED BY <2>1, <3>4 DEF BreakerTypeOK, ClosedBelowThreshold
  <2>4. CASE /\ call' = [Stale EXCEPT ![c] = "refused"]
             /\ admitted' = 0
             /\ UNCHANGED halfOpenCalls
    <3>1. Probing' = {} BY <2>4, StaleFacts DEF Probing, Free
    <3>2. call' \in [Callers -> Free \cup {"calling", "probing"}]
      BY <2>4, StaleFacts DEF Free
    <3>3. QED BY <2>1, <2>4, <3>1, <3>2, FS_EmptySet DEF BreakerTypeOK, ClosedBelowThreshold
  <2>5. QED BY <1>3, <2>3, <2>4 DEF CallExpired
<1>4. QED BY <1>1, <1>2, <1>3 DEF Call

LEMMA AnsweredStep == ASSUME BreakerInv, NEW c \in Callers, Answered(c) PROVE BreakerInv'
<1> USE BreakerAssumption DEF BreakerInv, ProbesBounded
<1>1. PICK outcome \in {"ok", "failure", "ignored"} : Answer(c, outcome) BY DEF Answered
<1>2. /\ call' = [call EXCEPT ![c] = "idle"]
      /\ halfOpenCalls' = halfOpenCalls /\ admitted' = admitted
  BY <1>1 DEF Answer
<1>3. Probing' = Probing \ {c} BY <1>2 DEF Probing, BreakerTypeOK
<1>4. Cardinality(Probing') <= Cardinality(Probing)
  BY <1>3, ProbingFinite, FS_Subset, FS_CardinalityType
<1>5. Cardinality(Probing') \in Nat /\ Cardinality(Probing) \in Nat
  BY <1>3, ProbingFinite, FS_Subset, FS_CardinalityType
<1>6. /\ state' \in {"closed", "open", "half-open"}
      /\ failures' \in 0..FailureThreshold
      /\ elapsed' \in 0..ResetTimeout
      /\ state' = "closed" => failures' < FailureThreshold
  <2>1. CASE outcome = "ok" /\ OnSuccess
    <3>1. CASE OnFailure("closed", 0) BY <3>1, OnFailureFacts DEF BreakerTypeOK
    <3>2. CASE /\ failures' = 0
               /\ state' = IF state = "half-open" THEN "closed" ELSE state
               /\ UNCHANGED elapsed
      BY <3>2 DEF BreakerTypeOK
    <3>3. QED BY <2>1, <3>1, <3>2 DEF OnSuccess
  <2>2. CASE outcome = "failure" /\ OnFailure(state, failures)
    BY <2>2, OnFailureFacts DEF BreakerTypeOK
  <2>3. CASE outcome = "ignored" /\ UNCHANGED <<state, failures, elapsed>>
    BY <2>3 DEF BreakerTypeOK, ClosedBelowThreshold
  <2>4. QED BY <1>1, <2>1, <2>2, <2>3 DEF Answer
<1>7. Cardinality(Probing') <= admitted' BY <1>2, <1>4, <1>5 DEF BreakerTypeOK
<1>8. BreakerTypeOK' BY <1>2, <1>6 DEF BreakerTypeOK, Free
<1>9. QED BY <1>2, <1>6, <1>7, <1>8 DEF BreakerTypeOK, ClosedBelowThreshold

LEMMA BreakerNextInv == BreakerInv /\ [BreakerNext]_breakerVars => BreakerInv'
<1>1. SUFFICES ASSUME BreakerInv, [BreakerNext]_breakerVars PROVE BreakerInv' OBVIOUS
<1>2. CASE Reset \/ BreakerTick \/ UNCHANGED breakerVars
  <2>1. call' = call /\ admitted' = admitted /\ halfOpenCalls' = halfOpenCalls
    BY <1>2 DEF Reset, BreakerTick, breakerVars
  <2>2. Probing' = Probing BY <2>1 DEF Probing
  <2>3. ASSUME Reset PROVE BreakerTypeOK' /\ ClosedBelowThreshold' /\ admitted' <= halfOpenCalls'
    BY <1>1, <2>1, <2>3, BreakerAssumption DEF Reset, BreakerInv, BreakerTypeOK, ClosedBelowThreshold
  <2>4. ASSUME BreakerTick PROVE BreakerTypeOK' /\ ClosedBelowThreshold' /\ admitted' <= halfOpenCalls'
    BY <1>1, <2>1, <2>4, BreakerAssumption DEF BreakerTick, BreakerInv, BreakerTypeOK, ClosedBelowThreshold
  <2>5. ASSUME UNCHANGED breakerVars PROVE BreakerTypeOK' /\ ClosedBelowThreshold' /\ admitted' <= halfOpenCalls'
    BY <1>1, <2>1, <2>5 DEF breakerVars, BreakerInv, BreakerTypeOK, ClosedBelowThreshold
  <2>6. BreakerTypeOK' /\ ClosedBelowThreshold' /\ admitted' <= halfOpenCalls'
    BY <1>2, <2>3, <2>4, <2>5
  <2>7. QED BY <1>1, <2>1, <2>2, <2>6 DEF BreakerInv, ProbesBounded
<1>3. CASE BreakerNext
  BY <1>1, <1>2, <1>3, GetStateStep, CallStep, AnsweredStep DEF BreakerNext
<1>4. QED BY <1>1, <1>2, <1>3

THEOREM BreakerInvariant == BreakerSpec => []BreakerInv
BY BreakerInitInv, BreakerNextInv, PTL DEF BreakerSpec

\* The counts of failures and probes keep their bounds together, for every
\* number of callers and every threshold.
THEOREM BreakerAlwaysBounded == BreakerSpec => []BreakerBounded
<1>1. BreakerInv => BreakerBounded BY DEF BreakerInv, BreakerBounded
<1>2. QED BY <1>1, BreakerInvariant, PTL

\* No half-open period lets more than halfOpenMaxCalls calls through.
THEOREM ProbesAlwaysBounded == BreakerSpec => []ProbesBounded
BY BreakerInvariant, PTL DEF BreakerInv

\* A closed circuit is always below its failure threshold.
THEOREM ClosedAlwaysBelowThreshold == BreakerSpec => []ClosedBelowThreshold
BY BreakerInvariant, PTL DEF BreakerInv

\* An open circuit starts no call.
THEOREM OpenStartsNoCall == BreakerSpec => NoTrafficWhileOpen
<1>1. BreakerInv /\ [BreakerNext]_breakerVars
        => [state = "open" /\ state' = "open" => InFlight' \subseteq InFlight]_breakerVars
  <2>1. SUFFICES ASSUME BreakerInv, BreakerNext, state = "open", state' = "open"
                 PROVE  InFlight' \subseteq InFlight
    BY DEF breakerVars
  <2>2. CASE GetState BY <2>1, <2>2 DEF GetState
  <2>3. ASSUME NEW c \in Callers, Call(c) PROVE InFlight' \subseteq InFlight
    BY <2>1, <2>3 DEF Call, CallClosed, FailFast, CallHalfOpen, CallExpired, InFlight, Free, BreakerInv, BreakerTypeOK
  <2>4. ASSUME NEW c \in Callers, Answered(c) PROVE InFlight' \subseteq InFlight
    BY <2>4 DEF Answered, Answer, InFlight, BreakerInv, BreakerTypeOK
  <2>5. CASE Reset \/ BreakerTick BY <2>1, <2>5 DEF Reset, BreakerTick, InFlight
  <2>6. QED BY <2>1, <2>2, <2>3, <2>4, <2>5 DEF BreakerNext
<1>2. QED BY <1>1, BreakerInvariant, PTL DEF BreakerSpec, NoTrafficWhileOpen

\* Whatever opens the circuit starts a full reset timeout.
THEOREM OpeningRestartsCooldown == BreakerSpec => CooldownRestarts
<1>1. BreakerInv /\ [BreakerNext]_breakerVars => [state # "open" /\ state' = "open" => elapsed' = 0]_breakerVars
  <2>1. SUFFICES ASSUME BreakerInv, BreakerNext, state # "open", state' = "open"
                 PROVE  elapsed' = 0
    BY DEF breakerVars
  <2>2. ASSUME NEW c \in Callers, Call(c) PROVE FALSE
    BY <2>1, <2>2 DEF Call, CallClosed, FailFast, CallHalfOpen, CallExpired
  <2>3. ASSUME NEW c \in Callers, Answered(c) PROVE elapsed' = 0
    <3>1. CASE OnFailure("closed", 0)
      BY <2>1, <3>1, OnFailureFacts, BreakerAssumption DEF BreakerInv, BreakerTypeOK
    <3>2. CASE OnFailure(state, failures)
      BY <2>1, <3>2, OnFailureFacts, BreakerAssumption DEF BreakerInv, BreakerTypeOK
    <3>3. QED BY <2>1, <2>3, <3>1, <3>2 DEF Answered, Answer, OnSuccess, BreakerInv, BreakerTypeOK
  <2>4. QED BY <2>1, <2>2, <2>3 DEF BreakerNext, GetState, Reset, BreakerTick
<1>2. QED BY <1>1, BreakerInvariant, PTL DEF BreakerSpec, CooldownRestarts

-----------------------------------------------------------------------------
(* withRetry() *)

RetrierType ==
  [phase : {"trying", "sleeping", "returned", "threw"}, attempt : Nat, wake : Nat,
   error : Retryable \cup Fatal \cup {NoError}, starts : Seq(Nat)]

Paused(starts) ==
  \A i \in 2..Len(starts) :
    starts[i - 1] < Budget /\ starts[i] - starts[i - 1] >= Backoff * Power2[i - 2]

\* A sleep begins within the budget, and lasts the pause its attempt asks for.
SleepsInBudget ==
  retrier.phase = "sleeping" =>
    /\ retrier.error \in Retryable /\ retrier.attempt < MaxTries
    /\ retrier.starts[retrier.attempt] < Budget
    /\ retrier.wake - retrier.starts[retrier.attempt] >= Backoff * Power2[retrier.attempt - 1]

RetryInv ==
  /\ retryClock \in Nat /\ retrier \in RetrierType
  /\ Len(retrier.starts) = retrier.attempt /\ retrier.attempt \in 1..MaxTries
  /\ retrier.starts[retrier.attempt] <= retryClock
  /\ SleepsInBudget /\ retrier.wake <= Budget
  /\ retrier.phase = "threw" => retrier.error # NoError
  /\ Paused(retrier.starts)

LEMMA WaitIsNat ==
  ASSUME NEW n \in 1..MaxTries
  PROVE  Backoff * Power2[n - 1] \in Nat
<1>1. n - 1 \in 0..MaxTries
  BY RetryAssumption
<1>2. PICK p \in Nat : p = Power2[n - 1]
  BY <1>1, RetryAssumption
<1>3. Backoff * p \in Nat
  BY RetryAssumption
<1> QED
  BY <1>2, <1>3

LEMMA RetryInitInv == RetryInit => RetryInv
<1> SUFFICES ASSUME RetryInit PROVE RetryInv
  OBVIOUS
<1>1. /\ retryClock = 0 /\ retrier \in RetrierType /\ retrier.phase = "trying"
      /\ retrier.attempt = 1 /\ retrier.starts = <<0>> /\ retrier.wake = 0
  BY DEF RetryInit, RetrierType
<1>2. Paused(<<0>>)
  BY DEF Paused
<1> QED
  BY <1>1, <1>2, RetryAssumption DEF RetryInv, SleepsInBudget

LEMMA FnFailsStep == ASSUME RetryInv, FnFails PROVE RetryInv'
<1> USE RetryAssumption
<1>1. PICK e \in Retryable \cup Fatal, extra \in 0..Jitter :
        LET wait == Backoff * Power2[retrier.attempt - 1] + extra
            stops == \/ retrier.attempt >= MaxTries
                     \/ e \in Fatal
                     \/ retryClock >= Budget
                     \/ retryClock + wait > Budget
        IN retrier' = [retrier EXCEPT !.error = e,
                         !.phase = IF stops THEN "threw" ELSE "sleeping",
                         !.wake = IF stops THEN @ ELSE retryClock + wait]
  BY DEF FnFails
<1>2. PICK pause \in Nat : pause = Backoff * Power2[retrier.attempt - 1]
  BY WaitIsNat DEF RetryInv
<1>3. PICK wake \in Nat : wake = retryClock + (pause + extra)
  BY DEF RetryInv
<1>4. PICK stops : /\ stops \in BOOLEAN
                   /\ stops <=> \/ retrier.attempt >= MaxTries \/ e \in Fatal
                                \/ retryClock >= Budget \/ wake > Budget
  OBVIOUS
<1>5. PICK phase : phase = IF stops THEN "threw" ELSE "sleeping"
  OBVIOUS
<1>6. PICK due : due = (IF stops THEN retrier.wake ELSE wake)
  OBVIOUS
<1>10. retrier' = [retrier EXCEPT !.error = e, !.phase = phase, !.wake = due]
  BY <1>1, <1>2, <1>3, <1>4, <1>5, <1>6
<1>11. due \in Nat /\ due <= Budget
  BY <1>3, <1>4, <1>6 DEF RetryInv, RetrierType
<1>7. /\ retrier' \in RetrierType /\ retrier'.phase = phase /\ retrier'.error = e
      /\ retrier'.wake = due /\ retrier'.starts = retrier.starts
      /\ retrier'.attempt = retrier.attempt
  BY <1>5, <1>10, <1>11 DEF RetryInv, RetrierType
<1>8. retryClock' = retryClock
  BY DEF FnFails
<1>9. SleepsInBudget'
  <2>1. CASE stops
    BY <1>5, <1>7, <2>1 DEF SleepsInBudget
  <2>2. CASE ~stops
    <3>1. e \in Retryable /\ retrier.attempt < MaxTries /\ retryClock < Budget /\ due = wake
      BY <1>3, <1>4, <1>6, <2>2 DEF RetryInv, RetrierType
    <3>2. PICK s \in Nat : s = retrier.starts[retrier.attempt] /\ s <= retryClock
      BY DEF RetryInv, RetrierType
    <3>4. s < Budget
      BY <3>1, <3>2 DEF RetryInv
    <3>3. wake - s >= pause
      BY <1>3, <3>2 DEF RetryInv
    <3> QED
      BY <1>2, <1>5, <1>7, <1>8, <2>2, <3>1, <3>2, <3>3, <3>4 DEF SleepsInBudget
  <2> QED
    BY <1>4, <2>1, <2>2
<1> QED
  BY <1>5, <1>7, <1>8, <1>9, <1>11 DEF RetryInv

LEMMA WakeStep == ASSUME RetryInv, Wake PROVE RetryInv'
<1> USE RetryAssumption
<1>1. PICK n \in 1..MaxTries : n = retrier.attempt
  BY DEF RetryInv
<1>2. PICK old \in Seq(Nat) : old = retrier.starts /\ Len(old) = n
  BY <1>1 DEF RetryInv, RetrierType
<1>3. PICK starts : starts = Append(old, retryClock)
  OBVIOUS
<1>4. /\ starts \in Seq(Nat) /\ Len(starts) = n + 1 /\ starts[n + 1] = retryClock
      /\ \A i \in 1..n : starts[i] = old[i]
  BY <1>2, <1>3 DEF RetryInv
<1>5. /\ retrier' \in RetrierType /\ retrier'.phase = "trying" /\ retrier'.attempt = n + 1
      /\ retrier'.starts = starts /\ retrier'.wake = retrier.wake /\ retryClock' = retryClock
  <2>1. /\ retrier' = [retrier EXCEPT !.phase = "trying", !.attempt = n + 1, !.starts = starts]
        /\ retryClock' = retryClock
    BY <1>1, <1>2, <1>3 DEF Wake
  <2>2. retrier \in RetrierType /\ n + 1 \in Nat
    BY DEF RetryInv
  <2> QED
    BY <1>4, <2>1, <2>2 DEF RetrierType
<1>6. /\ n < MaxTries /\ old[n] < Budget
      /\ retryClock - old[n] >= Backoff * Power2[n - 1]
  <2>1. n < MaxTries /\ old[n] < Budget /\ retrier.wake - old[n] >= Backoff * Power2[n - 1]
    BY <1>1, <1>2 DEF Wake, RetryInv, SleepsInBudget
  <2>2. /\ retryClock \in Nat /\ retrier.wake \in Nat /\ old[n] \in Nat
        /\ retryClock >= retrier.wake
    BY <1>1, <1>2 DEF Wake, RetryInv, RetrierType
  <2>3. Backoff * Power2[n - 1] \in Nat
    BY <1>1, WaitIsNat
  <2> QED
    BY <2>1, <2>2, <2>3
<1>7. Paused(starts)
  <2>1. ASSUME NEW i \in 2..Len(starts)
        PROVE  starts[i - 1] < Budget /\ starts[i] - starts[i - 1] >= Backoff * Power2[i - 2]
    <3>1. CASE i = n + 1
      <4>1. i - 1 = n /\ i - 2 = n - 1 /\ n \in 1..n
        BY <3>1
      <4>2. starts[i] = retryClock /\ starts[i - 1] = old[n]
        BY <1>4, <3>1, <4>1
      <4> QED
        BY <1>6, <4>1, <4>2
    <3>2. CASE i # n + 1
      <4>1. i \in 2..n /\ i - 1 \in 1..n /\ i \in 1..n
        BY <1>4, <3>2
      <4>2. starts[i] = old[i] /\ starts[i - 1] = old[i - 1]
        BY <1>4, <4>1
      <4> QED
        BY <1>2, <4>1, <4>2 DEF RetryInv, Paused
    <3> QED
      BY <3>1, <3>2
  <2> QED
    BY <2>1 DEF Paused
<1>8. SleepsInBudget'
  BY <1>5 DEF SleepsInBudget
<1>9. n + 1 \in 1..MaxTries
  BY <1>6
<1>10. retrier.wake <= Budget
  BY DEF RetryInv
<1> QED
  BY <1>10, <1>4, <1>5, <1>7, <1>8, <1>9 DEF RetryInv

LEMMA RetryNextInv == RetryInv /\ [RetryNext]_retryVars => RetryInv'
<1> SUFFICES ASSUME RetryInv, [RetryNext]_retryVars PROVE RetryInv'
  OBVIOUS
<1>1. CASE FnSucceeds
  <2>1. /\ retrier' = [retrier EXCEPT !.phase = "returned"] /\ retryClock' = retryClock
    BY <1>1 DEF FnSucceeds
  <2>2. /\ retrier' \in RetrierType /\ retrier'.phase = "returned"
        /\ retrier'.starts = retrier.starts /\ retrier'.attempt = retrier.attempt
    BY <2>1 DEF RetryInv, RetrierType
  <2> QED
    BY <2>1, <2>2 DEF RetryInv, SleepsInBudget
<1>2. CASE FnFails
  BY <1>2, FnFailsStep
<1>3. CASE Wake
  BY <1>3, WakeStep
<1>4. CASE RetryTick
  <2>1. retryClock' = retryClock + 1 /\ retrier' = retrier
    BY <1>4 DEF RetryTick
  <2>2. SleepsInBudget'
    BY <1>4, <2>1 DEF RetryTick, RetryInv, SleepsInBudget, RetrierType
  <2>3. retrier.starts[retrier.attempt] \in Nat
    BY DEF RetryInv, RetrierType
  <2> QED
    BY <2>1, <2>2, <2>3 DEF RetryInv
<1>5. CASE UNCHANGED retryVars
  BY <1>5 DEF retryVars, RetryInv, SleepsInBudget
<1> QED
  BY <1>1, <1>2, <1>3, <1>4, <1>5 DEF RetryNext

\* However long fn() takes and however late the timers are, whatever errors it
\* throws: it is tried maxAttempts times at most, after nothing but a retryable
\* error and a pause that doubles; pauses are begun within the budget only, for
\* an end within it, so at most one try, the last, begins behind it.
THEOREM RetriesStayInBudget == RetrySpec => []RetriesInBudget
<1>1. RetryInv => RetriesInBudget
  BY DEF RetryInv, SleepsInBudget, Paused, RetriesInBudget
<1> QED
  BY <1>1, RetryInitInv, RetryNextInv, PTL DEF RetrySpec

-----------------------------------------------------------------------------
(* Readiness *)

Outcomes == [Dependencies -> {"pending", "healthy", "unhealthy"}]
ReportType == [at : Int, measured : Int, results : Outcomes]
ProbeType == [phase : {"new", "running", "done"}, began : Nat, results : Outcomes]

\* A running evaluation is not older than the timers of its checks let it be,
\* and neither was one that has been cached.
ProbeInv ==
  /\ probeClock \in Nat /\ probes \in [Probes -> ProbeType]
  /\ cached \in ReportType /\ answers \in [Probes -> ReportType]
  /\ \A p \in Probes : probes[p].phase = "running" =>
       probeClock - probes[p].began <= CheckTimeout + 1
  /\ cached.at # -1 => cached.at - cached.measured <= CheckTimeout + 1
  /\ ReportsRecent

LEMMA ProbeNextInv == ProbeInv /\ [ProbeNext]_probeVars => ProbeInv'
<1> USE ProbeAssumption
<1> SUFFICES ASSUME ProbeInv, [ProbeNext]_probeVars PROVE ProbeInv'
  OBVIOUS
<1>1. ASSUME NEW p \in Probes, FromCache(p) PROVE ProbeInv'
  <2>1. PICK r : r = [cached EXCEPT !.at = probeClock]
    OBVIOUS
  <2>2. r \in ReportType /\ r.at = probeClock /\ r.measured = cached.measured
    BY <2>1 DEF ProbeInv, ReportType
  <2>3. r.at - r.measured <= CheckTimeout + 1 + CacheFor
    BY <1>1, <2>2 DEF FromCache, ProbeInv, ReportType
  <2>4. /\ probes' = [probes EXCEPT ![p].phase = "done", ![p].began = probeClock]
        /\ answers' = [answers EXCEPT ![p] = r] /\ UNCHANGED <<probeClock, cached>>
    BY <1>1, <2>1 DEF FromCache
  <2>5. /\ probes' \in [Probes -> ProbeType] /\ probes'[p].phase = "done"
        /\ \A q \in Probes \ {p} : probes'[q] = probes[q]
    BY <2>4 DEF ProbeInv, ProbeType
  <2>6. ReportsRecent'
    BY <2>2, <2>3, <2>4 DEF ProbeInv, ReportsRecent
  <2> QED
    BY <2>2, <2>4, <2>5, <2>6 DEF ProbeInv
<1>2. ASSUME NEW p \in Probes, RunChecks(p) PROVE ProbeInv'
  <2>1. /\ probes' = [probes EXCEPT ![p].phase = "running", ![p].began = probeClock]
        /\ UNCHANGED <<probeClock, cached, answers>>
    BY <1>2 DEF RunChecks
  <2>2. /\ probes' \in [Probes -> ProbeType] /\ probes'[p].began = probeClock
        /\ \A q \in Probes \ {p} : probes'[q] = probes[q]
    BY <2>1 DEF ProbeInv, ProbeType
  <2> QED
    BY <2>1, <2>2 DEF ProbeInv, ReportsRecent
<1>3. ASSUME NEW p \in Probes, NEW d \in Dependencies, NEW r \in {"healthy", "unhealthy"},
             probes' = [probes EXCEPT ![p].results[d] = r],
             UNCHANGED <<probeClock, cached, answers>>
      PROVE  ProbeInv'
  <2>1. PICK f : f = [probes[p].results EXCEPT ![d] = r]
    OBVIOUS
  <2>2. f \in Outcomes
    BY <2>1 DEF ProbeInv, ProbeType, Outcomes
  <2>3. probes' = [probes EXCEPT ![p].results = f]
    BY <1>3, <2>1
  <2>4. /\ probes' \in [Probes -> ProbeType]
        /\ \A q \in Probes : probes'[q].phase = probes[q].phase /\ probes'[q].began = probes[q].began
    BY <2>2, <2>3 DEF ProbeInv, ProbeType
  <2> QED
    BY <1>3, <2>4 DEF ProbeInv, ReportsRecent
<1>4. ASSUME NEW p \in Probes, Aggregate(p) PROVE ProbeInv'
  <2>1. PICK r : r = [at |-> probeClock, measured |-> probes[p].began, results |-> probes[p].results]
    OBVIOUS
  <2>2. r \in ReportType /\ r.at = probeClock /\ r.measured = probes[p].began
    BY <2>1 DEF ProbeInv, ProbeType, ReportType
  <2>3. r.at - r.measured <= CheckTimeout + 1
    BY <1>4, <2>2 DEF Aggregate, ProbeInv
  <2>4. /\ cached' = IF CacheFor > 0 THEN r ELSE cached
        /\ answers' = [answers EXCEPT ![p] = r]
        /\ probes' = [probes EXCEPT ![p].phase = "done"] /\ probeClock' = probeClock
    BY <1>4, <2>1 DEF Aggregate
  <2>5. /\ probes' \in [Probes -> ProbeType] /\ probes'[p].phase = "done"
        /\ \A q \in Probes \ {p} : probes'[q] = probes[q]
    BY <2>4 DEF ProbeInv, ProbeType
  <2>6. r.at - r.measured <= CheckTimeout + 1 + CacheFor
    BY <2>2, <2>3 DEF ReportType
  <2>7. ReportsRecent'
    BY <2>2, <2>4, <2>6 DEF ProbeInv, ReportsRecent
  <2> QED
    BY <2>2, <2>3, <2>4, <2>5, <2>7 DEF ProbeInv
<1>5. CASE ProbeTick
  <2>1. /\ probeClock' = probeClock + 1 /\ UNCHANGED <<probes, cached, answers>>
        /\ \A p \in Probes : probes[p].phase = "running" => probeClock - probes[p].began <= CheckTimeout
    BY <1>5 DEF ProbeTick
  <2>2. \A p \in Probes : probes[p].began \in Nat
    BY DEF ProbeInv, ProbeType
  <2> QED
    BY <2>1, <2>2 DEF ProbeInv, ReportsRecent
<1>6. CASE UNCHANGED probeVars
  BY <1>6 DEF probeVars, ProbeInv, ReportsRecent
<1>7. ASSUME NEW p \in Probes, NEW d \in Dependencies, CheckAnswers(p, d) \/ CheckTimesOut(p, d)
      PROVE  ProbeInv'
  BY <1>3, <1>7 DEF CheckAnswers, CheckTimesOut
<1> QED
  BY <1>1, <1>2, <1>4, <1>5, <1>6, <1>7 DEF ProbeNext

\* For any number of overlapping probes, checks that hang and any lifetime of
\* the cache, a probe is never told what was measured longer ago than a check
\* and the cache may take.
THEOREM ReportsStayRecent == ProbeSpec => []ReportsRecent
<1>1. ProbeInit => ProbeInv
  <2> SUFFICES ASSUME ProbeInit PROVE ProbeInv
    OBVIOUS
  <2>1. Unprobed \in Outcomes
    BY DEF Unprobed, Outcomes
  <2>2. NoReport \in ReportType /\ NoReport.at = -1
    BY <2>1 DEF NoReport, ReportType
  <2> QED
    BY <2>1, <2>2 DEF ProbeInit, ProbeInv, ProbeType, ReportsRecent
<1>2. ProbeInv => ReportsRecent
  BY DEF ProbeInv
<1> QED
  BY <1>1, <1>2, ProbeNextInv, PTL DEF ProbeSpec

-----------------------------------------------------------------------------
(* The rate limiter *)

PassType == [key : Peers, at : Nat, since : Nat]

\* The requests of a key that count for the window which runs since s.
Share(k, s) == {i \in DOMAIN letThrough : letThrough[i].key = k /\ letThrough[i].since = s}

LimitTypes ==
  /\ limitClock \in Nat /\ letThrough \in Seq(PassType)
  /\ DOMAIN buckets \subseteq Peers
  /\ \A k \in DOMAIN buckets :
       /\ buckets[k].count \in Nat \ {0} /\ buckets[k].reset \in Nat
       /\ Window <= buckets[k].reset /\ buckets[k].reset <= limitClock + Window

\* A request counts for the window it came in, and windows of a key are disjoint.
WindowsApart ==
  \A i \in DOMAIN letThrough :
    /\ letThrough[i].since <= letThrough[i].at /\ letThrough[i].at <= limitClock
    /\ letThrough[i].at < letThrough[i].since + Window
    /\ \A j \in DOMAIN letThrough : letThrough[i].key = letThrough[j].key =>
         \/ letThrough[i].since = letThrough[j].since
         \/ letThrough[i].since + Window <= letThrough[j].since
         \/ letThrough[j].since + Window <= letThrough[i].since

\* A bucket is the last window of its key; what a key without one was let
\* through for is over.
BucketsLast ==
  /\ \A k \in DOMAIN buckets : \A i \in DOMAIN letThrough : letThrough[i].key = k =>
       \/ letThrough[i].since = buckets[k].reset - Window
       \/ letThrough[i].since + Window <= buckets[k].reset - Window
  /\ \A i \in DOMAIN letThrough : letThrough[i].key \notin DOMAIN buckets =>
       letThrough[i].since + Window <= limitClock

SharesKept ==
  /\ \A k, s : IsFiniteSet(Share(k, s)) /\ Cardinality(Share(k, s)) <= MaxPerWindow
  /\ \A k \in DOMAIN buckets : Cardinality(Share(k, buckets[k].reset - Window)) <= buckets[k].count

\* Windows of no length share nothing out.
LimitInv ==
  LimitTypes /\ (Window # 0 => WindowsApart /\ BucketsLast /\ SharesKept)

LEMMA ClientIpIs ==
  ASSUME NEW peer \in Peers, NEW forwarded \in SeqOf(Peers, 2)
  PROVE  ClientIp(peer, forwarded) \in Peers
<1> USE LimitAssumption
<1>1. PICK m \in 0..2 : forwarded \in [1..m -> Peers]
  BY DEF SeqOf
<1>2. forwarded \in Seq(Peers) /\ Len(forwarded) = m
  BY <1>1
<1>3. CASE TrustsAll /\ forwarded # <<>>
  BY <1>2, <1>3 DEF ClientIp
<1>4. CASE ~TrustsAll /\ TrustProxy >= 0 /\ Len(forwarded) > TrustProxy
  <2>1. Len(forwarded) - TrustProxy \in 1..m
    BY <1>2, <1>4
  <2> QED
    BY <1>1, <1>4, <2>1 DEF ClientIp
<1> QED
  BY <1>3, <1>4 DEF ClientIp

\* A prune takes expired buckets only and leaves the others as they are.
LEMMA PruneIs ==
  ASSUME LimitTypes
  PROVE  /\ DOMAIN Prune \subseteq DOMAIN buckets
         /\ \A k \in DOMAIN Prune : Prune[k] = buckets[k]
         /\ \A k \in DOMAIN buckets : k \in DOMAIN Prune \/ Lapsed(k)
<1>1. CASE Cardinality(DOMAIN buckets) <= MaxBuckets
  BY <1>1 DEF Prune
<1>2. CASE ~(Cardinality(DOMAIN buckets) <= MaxBuckets)
  <2>1. PICK kept \in SUBSET DOMAIN buckets :
          /\ \A k \in DOMAIN buckets : k \in kept \/ Lapsed(k)
          /\ Prune = [k \in kept |-> buckets[k]]
    BY <1>2 DEF Prune
  <2> QED
    BY <2>1
<1> QED
  BY <1>1, <1>2

\* What the bucket that counts a request is.
LEMMA CountedIs ==
  ASSUME LimitTypes, NEW k \in Peers
  PROVE  /\ Counted(k).count \in Nat \ {0} /\ Counted(k).reset \in Nat
         /\ \/ /\ k \in DOMAIN buckets /\ limitClock < buckets[k].reset
               /\ Counted(k).reset = buckets[k].reset /\ Counted(k).count = buckets[k].count + 1
            \/ /\ k \in DOMAIN buckets => buckets[k].reset <= limitClock
               /\ Counted(k).reset = limitClock + Window /\ Counted(k).count = 1
<1> USE LimitAssumption
<1>1. CASE k \in DOMAIN Prune /\ ~Lapsed(k)
  <2>1. k \in DOMAIN buckets /\ Prune[k] = buckets[k]
    BY <1>1, PruneIs
  <2>2. buckets[k].count \in Nat \ {0} /\ buckets[k].reset \in Nat /\ limitClock \in Nat
    BY <2>1 DEF LimitTypes
  <2>3. limitClock < buckets[k].reset
    BY <1>1, <2>2 DEF Lapsed
  <2>4. Counted(k).count = buckets[k].count + 1 /\ Counted(k).reset = buckets[k].reset
    BY <1>1, <2>1 DEF Counted
  <2> QED
    BY <2>1, <2>2, <2>3, <2>4
<1>2. CASE ~(k \in DOMAIN Prune /\ ~Lapsed(k))
  <2>1. k \in DOMAIN buckets => buckets[k].reset <= limitClock
    BY <1>2, PruneIs DEF Lapsed
  <2>2. Counted(k).count = 1 /\ Counted(k).reset = limitClock + Window
    BY <1>2 DEF Counted
  <2> QED
    BY <2>1, <2>2 DEF LimitTypes
<1> QED
  BY <1>1, <1>2

LEMMA RequestStep ==
  ASSUME LimitInv, NEW peer \in Peers, NEW forwarded \in SeqOf(Peers, 2), Request(peer, forwarded)
  PROVE  LimitInv'
<1> USE LimitAssumption
<1> DEFINE n == Len(letThrough) + 1
<1>1. PICK key \in Peers : key = ClientIp(peer, forwarded)
  BY ClientIpIs
<1>2. PICK b : b = Counted(key)
  OBVIOUS
<1>3. PICK s : s = b.reset - Window
  OBVIOUS
<1>4. PICK pass : pass = [key |-> key, at |-> limitClock, since |-> s]
  OBVIOUS
<1>5. /\ DOMAIN buckets' = DOMAIN Prune \cup {key} /\ buckets'[key] = b
      /\ \A k \in DOMAIN Prune \ {key} : buckets'[k] = Prune[k]
      /\ limitClock' = limitClock
      /\ letThrough' = IF b.count > MaxPerWindow THEN letThrough ELSE Append(letThrough, pass)
  BY <1>1, <1>2, <1>3, <1>4 DEF Request
<1>6. /\ limitClock \in Nat /\ b.count \in Nat \ {0} /\ b.reset \in Nat
      /\ \/ /\ key \in DOMAIN buckets /\ limitClock < buckets[key].reset
            /\ b.reset = buckets[key].reset /\ b.count = buckets[key].count + 1
         \/ /\ key \in DOMAIN buckets => buckets[key].reset <= limitClock
            /\ b.reset = limitClock + Window /\ b.count = 1
  BY <1>2, CountedIs DEF LimitInv, LimitTypes
<1>7. \A k \in DOMAIN buckets' : k # key => k \in DOMAIN buckets /\ buckets'[k] = buckets[k]
  BY <1>5, PruneIs DEF LimitInv
<1>8. \A k \in DOMAIN buckets : k \in DOMAIN buckets' \/ buckets[k].reset <= limitClock
  BY <1>5, PruneIs DEF LimitInv, Lapsed
<1>9. /\ \A i \in DOMAIN letThrough :
           letThrough[i].key \in Peers /\ letThrough[i].at \in Nat /\ letThrough[i].since \in Nat
      /\ \A k \in DOMAIN buckets : buckets[k].reset \in Nat /\ buckets[k].count \in Nat
  <2>1. \A i \in DOMAIN letThrough : letThrough[i] \in PassType
    BY DEF LimitInv, LimitTypes
  <2> QED
    BY <2>1 DEF LimitInv, LimitTypes, PassType
\* The window is one that the bucket had, or a new one.
<1>10. s \in Nat /\ s <= limitClock /\ (Window # 0 => limitClock < s + Window)
  <2>1. CASE b.reset = limitClock + Window
    BY <1>3, <1>6, <2>1
  <2>2. CASE b.reset # limitClock + Window
    <3>1. /\ key \in DOMAIN buckets /\ limitClock < buckets[key].reset
          /\ b.reset = buckets[key].reset
      BY <1>6, <2>2
    <3>2. Window <= buckets[key].reset /\ buckets[key].reset <= limitClock + Window
      BY <3>1 DEF LimitInv, LimitTypes
    <3> QED
      BY <1>3, <1>6, <3>1, <3>2
  <2> QED
    BY <2>1, <2>2
<1>11. pass \in PassType /\ pass.key = key /\ pass.at = limitClock /\ pass.since = s
  BY <1>4, <1>6, <1>10 DEF PassType
<1>12. \/ letThrough' = letThrough
       \/ /\ DOMAIN letThrough' = DOMAIN letThrough \cup {n} /\ n \notin DOMAIN letThrough
          /\ letThrough'[n] = pass /\ letThrough' \in Seq(PassType) /\ b.count <= MaxPerWindow
          /\ \A i \in DOMAIN letThrough : letThrough'[i] = letThrough[i]
  BY <1>5, <1>6, <1>11 DEF LimitInv, LimitTypes
<1> HIDE DEF n
<1>13. LimitTypes'
  <2>1. letThrough' \in Seq(PassType)
    BY <1>12 DEF LimitInv, LimitTypes
  <2>2. Window <= b.reset /\ b.reset <= limitClock + Window
    BY <1>3, <1>6, <1>10 DEF LimitInv, LimitTypes
  <2> QED
    BY <1>1, <1>5, <1>6, <1>7, <2>1, <2>2 DEF LimitInv, LimitTypes
<1> SUFFICES ASSUME Window # 0 PROVE (WindowsApart /\ BucketsLast /\ SharesKept)'
  BY <1>13 DEF LimitInv
<1>14. WindowsApart /\ BucketsLast /\ SharesKept
  BY DEF LimitInv
<1>15. \A i \in DOMAIN letThrough : letThrough[i].key = key =>
         \/ letThrough[i].since = s /\ key \in DOMAIN buckets /\ b.reset = buckets[key].reset
         \/ letThrough[i].since + Window <= s
  <2>1. ASSUME NEW i \in DOMAIN letThrough, letThrough[i].key = key
        PROVE  \/ letThrough[i].since = s /\ key \in DOMAIN buckets /\ b.reset = buckets[key].reset
               \/ letThrough[i].since + Window <= s
    <3>1. PICK since \in Nat : since = letThrough[i].since
      BY <1>9
    <3>2. CASE key \notin DOMAIN buckets
      <4>1. since + Window <= limitClock /\ b.reset = limitClock + Window
        BY <1>6, <1>14, <2>1, <3>1, <3>2 DEF BucketsLast
      <4> QED
        BY <1>3, <1>6, <3>1, <4>1
    <3>3. CASE key \in DOMAIN buckets
      <4>1. PICK reset \in Nat : reset = buckets[key].reset
        BY <1>9, <3>3
      <4>2. since = reset - Window \/ since + Window <= reset - Window
        BY <1>14, <2>1, <3>1, <3>3, <4>1 DEF BucketsLast
      <4>3. \/ b.reset = reset
            \/ reset <= limitClock /\ b.reset = limitClock + Window
        BY <1>6, <3>3, <4>1
      <4> QED
        BY <1>3, <1>6, <3>1, <3>3, <4>1, <4>2, <4>3
    <3> QED
      BY <3>2, <3>3
  <2> QED
    BY <2>1
<1>16. WindowsApart'
  <2>1. CASE letThrough' = letThrough
    BY <1>5, <1>14, <2>1 DEF WindowsApart
  <2>2. CASE letThrough' # letThrough
    <3>1. ASSUME NEW i \in DOMAIN letThrough
          PROVE  /\ letThrough[i].since <= letThrough[i].at /\ letThrough[i].at <= limitClock
                 /\ letThrough[i].at < letThrough[i].since + Window
                 /\ letThrough[i].key = key => letThrough[i].since = s \/ letThrough[i].since + Window <= s
      BY <1>14, <1>15 DEF WindowsApart
    <3>2. pass.since <= pass.at /\ pass.at <= limitClock /\ pass.at < pass.since + Window
      BY <1>6, <1>10, <1>11
    <3>3. ASSUME NEW i \in DOMAIN letThrough', NEW j \in DOMAIN letThrough',
                 letThrough'[i].key = letThrough'[j].key
          PROVE  \/ letThrough'[i].since = letThrough'[j].since
                 \/ letThrough'[i].since + Window <= letThrough'[j].since
                 \/ letThrough'[j].since + Window <= letThrough'[i].since
      <4>1. CASE i \in DOMAIN letThrough /\ j \in DOMAIN letThrough
        BY <1>12, <1>14, <2>2, <3>3, <4>1 DEF WindowsApart
      <4>2. CASE i \in DOMAIN letThrough /\ j = n
        BY <1>11, <1>12, <2>2, <3>1, <3>3, <4>2
      <4>3. CASE i = n /\ j \in DOMAIN letThrough
        BY <1>11, <1>12, <2>2, <3>1, <3>3, <4>3
      <4>4. CASE i = n /\ j = n
        BY <4>4
      <4> QED
        BY <1>12, <2>2, <4>1, <4>2, <4>3, <4>4
    <3>4. ASSUME NEW i \in DOMAIN letThrough'
          PROVE  /\ letThrough'[i].since <= letThrough'[i].at /\ letThrough'[i].at <= limitClock
                 /\ letThrough'[i].at < letThrough'[i].since + Window
      BY <1>12, <2>2, <3>1, <3>2
    <3> QED
      BY <1>5, <3>3, <3>4 DEF WindowsApart
  <2> QED
    BY <2>1, <2>2
<1>17. BucketsLast'
  <2>1. \A i \in DOMAIN letThrough' :
          \/ i \in DOMAIN letThrough /\ letThrough'[i] = letThrough[i]
          \/ letThrough'[i] = pass
    BY <1>12
  <2>2. ASSUME NEW k \in DOMAIN buckets', NEW i \in DOMAIN letThrough', letThrough'[i].key = k
        PROVE  \/ letThrough'[i].since = buckets'[k].reset - Window
               \/ letThrough'[i].since + Window <= buckets'[k].reset - Window
    <3>1. CASE k = key
      BY <1>3, <1>5, <1>11, <1>15, <2>1, <2>2, <3>1
    <3>2. CASE k # key
      <4>1. k \in DOMAIN buckets /\ buckets'[k] = buckets[k]
        BY <1>7, <3>2
      <4>2. i \in DOMAIN letThrough /\ letThrough'[i] = letThrough[i]
        BY <1>11, <2>1, <2>2, <3>2
      <4> QED
        BY <1>14, <2>2, <4>1, <4>2 DEF BucketsLast
    <3> QED
      BY <3>1, <3>2
  <2>3. ASSUME NEW i \in DOMAIN letThrough', letThrough'[i].key \notin DOMAIN buckets'
        PROVE  letThrough'[i].since + Window <= limitClock
    <3>1. i \in DOMAIN letThrough /\ letThrough'[i] = letThrough[i]
      BY <1>5, <1>11, <2>1, <2>3
    <3>2. PICK k : k = letThrough[i].key
      OBVIOUS
    <3>3. PICK since \in Nat : since = letThrough[i].since
      BY <1>9, <3>1
    <3>4. CASE k \in DOMAIN buckets
      <4>1. PICK reset \in Nat : reset = buckets[k].reset
        BY <1>9, <3>4
      <4>2. reset <= limitClock
        BY <1>8, <2>3, <3>1, <3>2, <3>4, <4>1
      <4>3. since = reset - Window \/ since + Window <= reset - Window
        BY <1>14, <3>1, <3>2, <3>3, <3>4, <4>1 DEF BucketsLast
      <4> QED
        BY <1>6, <3>1, <3>3, <4>1, <4>2, <4>3
    <3>5. CASE k \notin DOMAIN buckets
      BY <1>14, <3>1, <3>2, <3>5 DEF BucketsLast
    <3> QED
      BY <3>4, <3>5
  <2> QED
    BY <1>5, <2>2, <2>3 DEF BucketsLast
\* The request is let through by the last share of its key, if it has room.
<1>18. ASSUME NEW k, NEW t
       PROVE  /\ IsFiniteSet(Share(k, t)) /\ Cardinality(Share(k, t)) <= MaxPerWindow
              /\ Cardinality(Share(k, t)) \in Nat
  BY <1>14, FS_CardinalityType DEF SharesKept
<1>19. Cardinality(Share(key, s)) < b.count
  <2>1. PICK c \in Nat : c = Cardinality(Share(key, s))
    BY <1>18
  <2>2. CASE key \in DOMAIN buckets /\ b.reset = buckets[key].reset /\ b.count = buckets[key].count + 1
    <3>1. c <= buckets[key].count
      BY <1>3, <1>14, <2>1, <2>2 DEF SharesKept
    <3> QED
      BY <1>9, <2>1, <2>2, <3>1
  <2>3. CASE /\ key \in DOMAIN buckets => buckets[key].reset <= limitClock
             /\ b.reset = limitClock + Window /\ b.count = 1
    <3>1. ~(key \in DOMAIN buckets /\ b.reset = buckets[key].reset)
      BY <1>6, <1>9, <2>3
    <3>2. \A i \in DOMAIN letThrough : letThrough[i].key = key => letThrough[i].since # s
      BY <1>9, <1>10, <1>15, <3>1
    <3>3. Share(key, s) = {}
      BY <3>2 DEF Share
    <3> QED
      BY <2>3, <3>3, FS_EmptySet
  <2> QED
    BY <1>6, <2>2, <2>3
<1>20. ASSUME NEW k, NEW t
       PROVE  /\ IsFiniteSet(Share(k, t)')
              /\ Cardinality(Share(k, t)') = Cardinality(Share(k, t))
                 \/ /\ k = key /\ t = s /\ b.count <= MaxPerWindow
                    /\ Cardinality(Share(k, t)') = Cardinality(Share(k, t)) + 1
  <2>1. CASE letThrough' = letThrough
    <3>1. Share(k, t)' = Share(k, t)
      BY <2>1 DEF Share
    <3> QED
      BY <1>18, <3>1
  <2>2. CASE letThrough' # letThrough /\ ~(k = key /\ t = s)
    <3>1. Share(k, t)' = Share(k, t)
      BY <1>11, <1>12, <2>2 DEF Share
    <3> QED
      BY <1>18, <3>1
  <2>3. CASE letThrough' # letThrough /\ k = key /\ t = s
    <3>1. Share(k, t)' = Share(k, t) \cup {n} /\ n \notin Share(k, t)
      BY <1>11, <1>12, <2>3 DEF Share
    <3> QED
      BY <1>12, <1>18, <2>3, <3>1, FS_AddElement
  <2> QED
    BY <2>1, <2>2, <2>3
<1>21. SharesKept'
  <2>1. ASSUME NEW k, NEW t PROVE Cardinality(Share(k, t)') <= MaxPerWindow
    <3>1. PICK c \in Nat : c = Cardinality(Share(k, t)) /\ c <= MaxPerWindow
      BY <1>18
    <3>2. CASE Cardinality(Share(k, t)') = c
      BY <3>1, <3>2
    <3>3. CASE k = key /\ t = s /\ b.count <= MaxPerWindow /\ Cardinality(Share(k, t)') = c + 1
      BY <1>6, <1>19, <3>1, <3>3
    <3> QED
      BY <1>20, <3>1, <3>2, <3>3
  <2>2. ASSUME NEW k \in DOMAIN buckets', NEW t, t = buckets'[k].reset - Window
        PROVE  Cardinality(Share(k, t)') <= buckets'[k].count
    <3>1. PICK c \in Nat : c = Cardinality(Share(k, t))
      BY <1>18
    <3>2. CASE k = key
      <4>1. t = s /\ buckets'[k].count = b.count
        BY <1>3, <1>5, <2>2, <3>2
      <4>2. c < b.count
        BY <1>19, <3>1, <3>2, <4>1
      <4>3. Cardinality(Share(k, t)') = c \/ Cardinality(Share(k, t)') = c + 1
        BY <1>20, <3>1
      <4> QED
        BY <1>6, <4>1, <4>2, <4>3
    <3>3. CASE k # key
      <4>1. k \in DOMAIN buckets /\ buckets'[k] = buckets[k]
        BY <1>7, <3>3
      <4>2. c <= buckets[k].count
        BY <1>14, <2>2, <3>1, <4>1 DEF SharesKept
      <4>3. Cardinality(Share(k, t)') = c
        BY <1>20, <3>1, <3>3
      <4> QED
        BY <4>1, <4>2, <4>3
    <3> QED
      BY <3>2, <3>3
  <2>3. \A k, t : IsFiniteSet(Share(k, t)')
    BY <1>20
  <2> QED
    BY <2>1, <2>2, <2>3 DEF SharesKept
<1> QED
  BY <1>16, <1>17, <1>21

LEMMA LimitNextInv == LimitInv /\ [LimitNext]_limitVars => LimitInv'
<1> USE LimitAssumption
<1> SUFFICES ASSUME LimitInv, [LimitNext]_limitVars PROVE LimitInv'
  OBVIOUS
<1>1. CASE LimitTick \/ UNCHANGED limitVars
  <2>1. UNCHANGED <<buckets, letThrough>> /\ (limitClock' = limitClock + 1 \/ limitClock' = limitClock)
    BY <1>1 DEF LimitTick, limitVars
  <2>2. LimitTypes'
    BY <2>1 DEF LimitInv, LimitTypes
  <2>3. ASSUME Window # 0 PROVE (WindowsApart /\ BucketsLast /\ SharesKept)'
    <3>1. \A i \in DOMAIN letThrough : letThrough[i] \in PassType
      BY DEF LimitInv, LimitTypes
    <3>2. \A i \in DOMAIN letThrough : letThrough[i].at \in Nat /\ letThrough[i].since \in Nat
      BY <3>1 DEF PassType
    <3>3. limitClock \in Nat
      BY DEF LimitInv, LimitTypes
    <3>4. WindowsApart'
      BY <2>1, <2>3, <3>2, <3>3 DEF LimitInv, WindowsApart
    <3>5. BucketsLast'
      BY <2>1, <2>3, <3>2, <3>3 DEF LimitInv, BucketsLast
    <3>6. SharesKept'
      <4>1. \A k, t : Share(k, t)' = Share(k, t)
        BY <2>1 DEF Share
      <4> QED
        BY <2>1, <2>3, <4>1 DEF LimitInv, SharesKept
    <3> QED
      BY <3>4, <3>5, <3>6
  <2> QED
    BY <2>2, <2>3 DEF LimitInv
<1> QED
  BY <1>1, RequestStep DEF LimitNext

\* Two shares cover what a key is let through in any stretch as long as a window.
LEMMA StretchIsTwoShares ==
  ASSUME LimitInv, Window # 0, NEW k, NEW from \in Nat
  PROVE  Within(k, from, from + Window) <= 2 * MaxPerWindow
<1> USE LimitAssumption
<1> DEFINE S == {i \in DOMAIN letThrough :
                   letThrough[i].key = k /\ letThrough[i].at >= from
                   /\ letThrough[i].at < from + Window}
<1>1. \A i \in DOMAIN letThrough : letThrough[i].at \in Nat /\ letThrough[i].since \in Nat
  <2>1. \A i \in DOMAIN letThrough : letThrough[i] \in PassType
    BY DEF LimitInv, LimitTypes
  <2> QED
    BY <2>1 DEF PassType
<1>2. ASSUME NEW t
      PROVE  IsFiniteSet(Share(k, t)) /\ Cardinality(Share(k, t)) \in 0..MaxPerWindow
  BY FS_CardinalityType DEF LimitInv, SharesKept
<1>3. \A h, i, j \in S : \/ letThrough[h].since = letThrough[i].since
                        \/ letThrough[h].since = letThrough[j].since
                        \/ letThrough[i].since = letThrough[j].since
  <2>1. ASSUME NEW h \in S, NEW i \in S, NEW j \in S
        PROVE  \/ letThrough[h].since = letThrough[i].since
               \/ letThrough[h].since = letThrough[j].since
               \/ letThrough[i].since = letThrough[j].since
    <3>1. ASSUME NEW x \in S
          PROVE  from < letThrough[x].since + Window /\ letThrough[x].since < from + Window
      BY <1>1 DEF LimitInv, WindowsApart
    <3>2. ASSUME NEW x \in S, NEW y \in S
          PROVE  \/ letThrough[x].since = letThrough[y].since
                 \/ letThrough[x].since + Window <= letThrough[y].since
                 \/ letThrough[y].since + Window <= letThrough[x].since
      BY DEF LimitInv, WindowsApart
    <3>3. PICK a \in Nat, b \in Nat, c \in Nat :
            a = letThrough[h].since /\ b = letThrough[i].since /\ c = letThrough[j].since
      BY <1>1
    <3>4. /\ from < a + Window /\ a < from + Window /\ from < b + Window /\ b < from + Window
          /\ from < c + Window /\ c < from + Window
      BY <3>1, <3>3
    <3>5. /\ a = b \/ a + Window <= b \/ b + Window <= a
          /\ a = c \/ a + Window <= c \/ c + Window <= a
          /\ b = c \/ b + Window <= c \/ c + Window <= b
      BY <3>2, <3>3
    <3>6. a = b \/ a = c \/ b = c
      BY <3>4, <3>5
    <3> QED
      BY <3>3, <3>6
  <2> QED
    BY <2>1
<1>4. \E t, u : S \subseteq Share(k, t) \cup Share(k, u)
  <2>1. CASE S = {}
    BY <2>1
  <2>2. CASE \E i, j \in S : letThrough[i].since # letThrough[j].since
    <3>1. PICK i \in S, j \in S : letThrough[i].since # letThrough[j].since
      BY <2>2
    <3>2. S \subseteq Share(k, letThrough[i].since) \cup Share(k, letThrough[j].since)
      BY <1>3, <3>1 DEF Share
    <3> QED
      BY <3>2
  <2>3. CASE S # {} /\ ~\E i, j \in S : letThrough[i].since # letThrough[j].since
    <3>1. PICK i \in S : TRUE
      BY <2>3
    <3>2. S \subseteq Share(k, letThrough[i].since) \cup Share(k, letThrough[i].since)
      BY <2>3, <3>1 DEF Share
    <3> QED
      BY <3>2
  <2> QED
    BY <2>1, <2>2, <2>3
<1>5. PICK t, u : S \subseteq Share(k, t) \cup Share(k, u)
  BY <1>4
<1>6. PICK A, B : A = Share(k, t) /\ B = Share(k, u)
  OBVIOUS
<1>7. /\ IsFiniteSet(A) /\ IsFiniteSet(B)
      /\ Cardinality(A) \in 0..MaxPerWindow /\ Cardinality(B) \in 0..MaxPerWindow
  BY <1>2, <1>6
<1>8. /\ IsFiniteSet(A \cup B) /\ IsFiniteSet(A \cap B)
      /\ Cardinality(A \cup B) = Cardinality(A) + Cardinality(B) - Cardinality(A \cap B)
  BY <1>7, FS_Union, FS_Intersection
<1>9. Cardinality(A \cap B) \in Nat
  BY <1>8, FS_CardinalityType
<1>10. Cardinality(A \cup B) \in Nat /\ Cardinality(A \cup B) <= 2 * MaxPerWindow
  <2>1. PICK a \in 0..MaxPerWindow, b \in 0..MaxPerWindow, d \in Nat :
          a = Cardinality(A) /\ b = Cardinality(B) /\ d = Cardinality(A \cap B)
    BY <1>7, <1>9
  <2>2. Cardinality(A \cup B) = a + b - d
    BY <1>8, <2>1
  <2>3. Cardinality(A \cup B) \in Nat
    BY <1>8, FS_CardinalityType
  <2>4. a + b - d <= 2 * MaxPerWindow
    BY <2>1
  <2> QED
    BY <2>2, <2>3, <2>4
<1>11. S \subseteq A \cup B
  BY <1>5, <1>6
<1>12. Cardinality(S) \in Nat /\ Cardinality(S) <= Cardinality(A \cup B)
  <2> HIDE DEF S
  <2> QED
    BY <1>8, <1>11, FS_Subset, FS_CardinalityType
<1>13. Within(k, from, from + Window) = Cardinality(S)
  BY DEF Within
<1> QED
  BY <1>10, <1>12, <1>13

\* What is let through in the window of a bucket is the share of the bucket.
LEMMA WindowIsShare ==
  ASSUME LimitInv, Window # 0, NEW k \in DOMAIN buckets
  PROVE  Within(k, buckets[k].reset - Window, buckets[k].reset) <= MaxPerWindow
<1> USE LimitAssumption
<1>1. PICK s \in Nat : s = buckets[k].reset - Window /\ buckets[k].reset = s + Window
  BY DEF LimitInv, LimitTypes
<1> DEFINE S == {i \in DOMAIN letThrough :
                   letThrough[i].key = k /\ letThrough[i].at >= s /\ letThrough[i].at < s + Window}
<1>2. ASSUME NEW i \in S PROVE i \in Share(k, s)
  <2>1. letThrough[i] \in PassType
    BY DEF LimitInv, LimitTypes
  <2>2. PICK since \in Nat, at \in Nat : since = letThrough[i].since /\ at = letThrough[i].at
    BY <2>1 DEF PassType
  <2>3. since = s \/ since + Window <= s
    BY <1>1, <2>2 DEF LimitInv, BucketsLast
  <2>4. at < since + Window /\ at >= s
    BY <2>2 DEF LimitInv, WindowsApart
  <2>5. since = s
    BY <2>3, <2>4
  <2> QED
    BY <2>2, <2>5 DEF Share
<1>3. S \subseteq Share(k, s)
  BY <1>2
<1>4. Within(k, s, s + Window) = Cardinality(S)
  BY DEF Within
<1> HIDE DEF S
<1>5. /\ IsFiniteSet(Share(k, s)) /\ Cardinality(Share(k, s)) \in Nat
      /\ Cardinality(Share(k, s)) <= MaxPerWindow
  BY FS_CardinalityType DEF LimitInv, SharesKept
<1>6. Cardinality(S) \in Nat /\ Cardinality(S) <= Cardinality(Share(k, s))
  BY <1>3, <1>5, FS_Subset, FS_CardinalityType
<1> QED
  BY <1>1, <1>4, <1>5, <1>6

\* For any number of peers, any table and any windowMs and max: whatever a prune
\* drops, no window lets more than max requests of its key through, and no
\* stretch of time as long as a window more than twice as many.
THEOREM BudgetAlwaysKept == LimitSpec => []BudgetKept
<1> USE LimitAssumption
<1>1. LimitInit => LimitInv
  <2> SUFFICES ASSUME LimitInit PROVE LimitInv
    OBVIOUS
  <2>1. DOMAIN buckets = {} /\ DOMAIN letThrough = {} /\ letThrough \in Seq(PassType) /\ limitClock = 0
    BY DEF LimitInit
  <2>2. \A k, s : Share(k, s) = {}
    BY <2>1 DEF Share
  <2>3. SharesKept
    BY <2>1, <2>2, FS_EmptySet DEF SharesKept
  <2> QED
    BY <2>1, <2>3 DEF LimitInv, LimitTypes, WindowsApart, BucketsLast
<1>2. LimitInv => BudgetKept
  <2> SUFFICES ASSUME LimitInv PROVE BudgetKept
    OBVIOUS
  <2>1. \A i \in DOMAIN letThrough : letThrough[i].at \in Nat
    <3>1. \A i \in DOMAIN letThrough : letThrough[i] \in PassType
      BY DEF LimitInv, LimitTypes
    <3> QED
      BY <3>1 DEF PassType
  <2>2. CASE Window # 0
    BY <2>1, <2>2, StretchIsTwoShares, WindowIsShare DEF BudgetKept
  <2>3. CASE Window = 0
    <3>1. \A k : \A from \in Nat : Within(k, from, from + Window) = 0
      <4>1. ASSUME NEW k, NEW from \in Nat PROVE Within(k, from, from + Window) = 0
        <5>1. {i \in DOMAIN letThrough : letThrough[i].key = k /\ letThrough[i].at >= from
                                         /\ letThrough[i].at < from + Window} = {}
          BY <2>1, <2>3
        <5> QED
          BY <5>1, FS_EmptySet DEF Within
      <4> QED
        BY <4>1
    <3>2. \A k \in DOMAIN buckets : Lapsed(k)
      BY <2>3 DEF LimitInv, LimitTypes, Lapsed
    <3> QED
      BY <2>1, <3>1, <3>2 DEF BudgetKept
  <2> QED
    BY <2>2, <2>3
<1> QED
  BY <1>1, <1>2, LimitNextInv, PTL DEF LimitSpec

-----------------------------------------------------------------------------
(***************************************************************************)
(* The bulkhead implements the gate: its line is the order in which woken  *)
(* waiters, then those of the list, will take a slot.                      *)
(***************************************************************************)

\* The callers that hold a slot, and all continuations in the order they come.
Inside == At({"running", "settled"})
Queue == ready \o waiters

\* What is known of a queue of callers: who is where in it.
LEMMA QueueIs ==
  ASSUME NEW r \in Seq(Requests), NEW w \in Seq(Requests)
  PROVE  /\ r \o w \in Seq(Requests) /\ Len(r \o w) = Len(r) + Len(w)
         /\ Len(r) \in Nat /\ Len(w) \in Nat
         /\ \A i \in 1..Len(r) : (r \o w)[i] = r[i]
         /\ \A i \in 1..Len(w) : (r \o w)[Len(r) + i] = w[i]
  OBVIOUS

\* A release moves the head of the list to the end of the microtasks: the queue
\* of both is the one it was.
LEMMA MovedAlong ==
  ASSUME NEW r \in Seq(Requests), NEW w \in Seq(Requests), w # <<>>
  PROVE  Append(r, Head(w)) \o Tail(w) = r \o w
  OBVIOUS

\* A newcomer at the end is behind everybody, and changes nothing for others.
LEMMA BehindAll ==
  ASSUME NEW q \in Seq(Requests), NEW c \in Requests, ~Among(q, c),
         NEW a \in Requests, NEW b \in Requests
  PROVE  Before(Append(q, c), a, b) <=> Before(q, a, b) \/ (b = c /\ Among(q, a))
<1> DEFINE s == Append(q, c)
<1>1. /\ Len(s) = Len(q) + 1 /\ Len(q) \in Nat /\ s[Len(q) + 1] = c
      /\ \A i \in 1..Len(q) : s[i] = q[i]
  OBVIOUS
<1> HIDE DEF s
<1>2. ASSUME Before(s, a, b) PROVE Before(q, a, b) \/ (b = c /\ Among(q, a))
  <2>1. PICK i \in 1..Len(s), j \in 1..Len(s) : i < j /\ s[i] = a /\ s[j] = b
    BY <1>2 DEF Before
  <2>2. i \in 1..Len(q) /\ q[i] = a
    BY <1>1, <2>1
  <2>3. CASE j = Len(q) + 1
    BY <1>1, <2>1, <2>2, <2>3 DEF Among
  <2>4. CASE j # Len(q) + 1
    <3>1. j \in 1..Len(q) /\ q[j] = b
      BY <1>1, <2>1, <2>4
    <3> QED
      BY <2>1, <2>2, <3>1 DEF Before
  <2> QED
    BY <2>3, <2>4
<1>3. ASSUME Before(q, a, b) PROVE Before(s, a, b)
  BY <1>1, <1>3 DEF Before
<1>4. ASSUME b = c, Among(q, a) PROVE Before(s, a, b)
  <2>1. PICK i \in 1..Len(q) : q[i] = a
    BY <1>4 DEF Among
  <2>2. i \in 1..Len(s) /\ Len(q) + 1 \in 1..Len(s) /\ i < Len(q) + 1
    BY <1>1
  <2> QED
    BY <1>1, <1>4, <2>1, <2>2 DEF Before
<1> QED
  BY <1>2, <1>3, <1>4 DEF s

\* Nobody is ahead of the head of a queue, and who is ahead of whom of the others
\* stays when it leaves.
LEMMA HeadLeaves ==
  ASSUME NEW q \in Seq(Requests), q # <<>>, NEW a \in Requests, NEW b \in Requests, a # Head(q)
  PROVE  Before(Tail(q), a, b) <=> Before(q, a, b)
<1>1. /\ Len(q) \in Nat \ {0} /\ Head(q) = q[1] /\ Len(Tail(q)) = Len(q) - 1
      /\ \A i \in 1..Len(Tail(q)) : Tail(q)[i] = q[i + 1]
  BY TailFacts
<1> DEFINE t == Tail(q)
<1> HIDE DEF t
<1>2. ASSUME Before(t, a, b) PROVE Before(q, a, b)
  <2>1. PICK i \in 1..Len(t), j \in 1..Len(t) : i < j /\ t[i] = a /\ t[j] = b
    BY <1>2 DEF Before
  <2>2. i + 1 \in 1..Len(q) /\ j + 1 \in 1..Len(q) /\ q[i + 1] = a /\ q[j + 1] = b /\ i + 1 < j + 1
    BY <1>1, <2>1 DEF t
  <2> QED
    BY <2>2 DEF Before
<1>3. ASSUME Before(q, a, b) PROVE Before(t, a, b)
  <2>1. PICK i \in 1..Len(q), j \in 1..Len(q) : i < j /\ q[i] = a /\ q[j] = b
    BY <1>3 DEF Before
  <2>2. i # 1
    BY <1>1, <2>1
  <2>3. /\ i - 1 \in 1..Len(t) /\ j - 1 \in 1..Len(t) /\ i - 1 < j - 1
        /\ (i - 1) + 1 = i /\ (j - 1) + 1 = j
    BY <1>1, <2>1, <2>2 DEF t
  <2>4. t[i - 1] = a /\ t[j - 1] = b
    BY <1>1, <2>1, <2>3 DEF t
  <2> QED
    BY <2>3, <2>4 DEF Before
<1> QED
  BY <1>2, <1>3 DEF t

\* Who is put into the middle changes nothing for the others.
LEMMA Squeezed ==
  ASSUME NEW r \in Seq(Requests), NEW w \in Seq(Requests), NEW c \in Requests,
         NEW a \in Requests \ {c}, NEW b \in Requests \ {c}
  PROVE  Before(Append(r, c) \o w, a, b) <=> Before(r \o w, a, b)
<1> DEFINE q == r \o w
           s == Append(r, c) \o w
           n == Len(r)
<1>1. /\ n \in Nat /\ Len(w) \in Nat /\ Len(q) = n + Len(w) /\ Len(s) = n + 1 + Len(w)
      /\ \A i \in 1..n : s[i] = q[i]
      /\ s[n + 1] = c
      /\ \A i \in 1..Len(q) : i > n => s[i + 1] = q[i]
  OBVIOUS
<1> HIDE DEF q, s, n
<1>2. \A i \in 1..Len(q) : \E k \in 1..Len(s) : k = (IF i <= n THEN i ELSE i + 1) /\ s[k] = q[i]
  BY <1>1
<1>3. \A k \in 1..Len(s) : k # n + 1 =>
        \E i \in 1..Len(q) : k = (IF i <= n THEN i ELSE i + 1) /\ s[k] = q[i]
  <2>1. ASSUME NEW k \in 1..Len(s), k # n + 1
        PROVE  \E i \in 1..Len(q) : k = (IF i <= n THEN i ELSE i + 1) /\ s[k] = q[i]
    <3>1. CASE k <= n
      BY <1>1, <3>1
    <3>2. CASE k > n + 1
      <4>1. k - 1 \in 1..Len(q) /\ k - 1 > n /\ (k - 1) + 1 = k
        BY <1>1, <3>2
      <4>2. s[k] = q[k - 1]
        BY <1>1, <4>1
      <4> QED
        BY <1>1, <4>1, <4>2
    <3> QED
      BY <1>1, <2>1, <3>1, <3>2
  <2> QED
    BY <2>1
<1>4. ASSUME Before(q, a, b) PROVE Before(s, a, b)
  <2>1. PICK i \in 1..Len(q), j \in 1..Len(q) : i < j /\ q[i] = a /\ q[j] = b
    BY <1>4 DEF Before
  <2>2. PICK k \in 1..Len(s) : k = (IF i <= n THEN i ELSE i + 1) /\ s[k] = a
    BY <1>2, <2>1
  <2>3. PICK l \in 1..Len(s) : l = (IF j <= n THEN j ELSE j + 1) /\ s[l] = b
    BY <1>2, <2>1
  <2>4. k < l
    BY <1>1, <2>1, <2>2, <2>3
  <2> QED
    BY <2>2, <2>3, <2>4 DEF Before
<1>5. ASSUME Before(s, a, b) PROVE Before(q, a, b)
  <2>1. PICK k \in 1..Len(s), l \in 1..Len(s) : k < l /\ s[k] = a /\ s[l] = b
    BY <1>5 DEF Before
  <2>2. k # n + 1 /\ l # n + 1
    BY <1>1, <2>1
  <2>3. PICK i \in 1..Len(q) : k = (IF i <= n THEN i ELSE i + 1) /\ s[k] = q[i]
    BY <1>3, <2>2
  <2>4. PICK j \in 1..Len(q) : l = (IF j <= n THEN j ELSE j + 1) /\ s[l] = q[j]
    BY <1>3, <2>2
  <2>5. i < j
    BY <1>1, <2>1, <2>3, <2>4
  <2> QED
    BY <2>1, <2>3, <2>4, <2>5 DEF Before
<1> QED
  BY <1>4, <1>5 DEF q, s

\* Steps of the bulkhead that its callers cannot tell from nothing.
LEMMA StandStill ==
  ASSUME InLine' = InLine, Inside' = Inside,
         \A a, b \in InLine : Before(Queue, a, b)' <=> Before(Queue, a, b)
  PROVE  UNCHANGED G!gateVars
<1>1. Ahead' = Ahead
  BY DEF Ahead, Queue
<1> QED
  BY <1>1 DEF G!gateVars, Inside

LEMMA LineTypes ==
  ASSUME BulkheadInv
  PROVE  /\ ready \in Seq(Requests) /\ waiters \in Seq(Requests) /\ Queue \in Seq(Requests)
         /\ place \in [Requests -> Places] /\ InLine \subseteq Requests
BY QueueIs DEF BulkheadInv, BulkheadTypeOK, Queue, InLine, At

\* What a release shows the callers: the one it is about is gone from wherever it
\* was, and the queue is the one of the microtasks that remain.
LEMMA ReleaseIs ==
  ASSUME BulkheadInv, NEW c \in Requests, NEW tasks \in Seq(Requests), place[c] # "queued",
         ReleaseSlot(c, tasks)
  PROVE  Queue' = tasks \o waiters /\ InLine' = InLine \ {c} /\ Inside' = Inside \ {c}
<1>1. /\ ready \in Seq(Requests) /\ waiters \in Seq(Requests)
      /\ place \in [Requests -> Places]
  BY LineTypes
<1>2. CASE waiters = <<>>
  <2>1. ready' = tasks /\ waiters' = waiters /\ place' = [place EXCEPT ![c] = "idle"]
    BY <1>2 DEF ReleaseSlot
  <2> QED
    BY <1>1, <2>1 DEF Queue, InLine, Inside, At
<1>3. CASE waiters # <<>>
  <2>1. /\ place' = [place EXCEPT ![c] = "idle", ![Head(waiters)] = "woken"]
        /\ ready' = Append(tasks, Head(waiters)) /\ waiters' = Tail(waiters)
    BY <1>3 DEF ReleaseSlot
  <2>2. Queue' = tasks \o waiters
    BY <1>1, <1>3, <2>1, MovedAlong DEF Queue
  <2>3. Head(waiters) \in Requests /\ place[Head(waiters)] = "queued"
    BY <1>1, <1>3, TailFacts DEF BulkheadInv, LineConsistent
  <2>4. InLine' = InLine \ {c}
    BY <1>1, <2>1, <2>3 DEF InLine, At
  <2>5. Inside' = Inside \ {c}
    BY <1>1, <2>1, <2>3 DEF Inside, At
  <2> QED
    BY <2>2, <2>4, <2>5
<1> QED
  BY <1>2, <1>3

\* Where the first microtask stands: at the head of the queue, and once.
LEMMA FirstOfQueue ==
  ASSUME BulkheadInv, ready # <<>>
  PROVE  /\ Head(ready) \in Requests
         /\ Queue # <<>> /\ Head(Queue) = Head(ready) /\ Tail(Queue) = Tail(ready) \o waiters
         /\ Tail(ready) \in Seq(Requests)
         /\ \A b \in Requests : ~Before(Queue, b, Head(ready))
<1>1. ready \in Seq(Requests) /\ waiters \in Seq(Requests) /\ Queue \in Seq(Requests)
  BY LineTypes
<1>2. /\ Len(ready) \in Nat \ {0} /\ Head(ready) = ready[1] /\ Head(ready) \in Requests
      /\ Tail(ready) \in Seq(Requests)
  BY <1>1
<1>3. Queue # <<>> /\ Head(Queue) = Head(ready) /\ Tail(Queue) = Tail(ready) \o waiters
  BY <1>1, <1>2 DEF Queue
<1>4. ASSUME NEW b \in Requests, Before(Queue, b, Head(ready)) PROVE FALSE
  <2>1. PICK i \in 1..Len(Queue), j \in 1..Len(Queue) : i < j /\ Queue[j] = Head(ready)
    BY <1>4 DEF Before
  <2>2. /\ Len(Queue) = Len(ready) + Len(waiters) /\ Len(waiters) \in Nat
        /\ \A k \in 1..Len(ready) : Queue[k] = ready[k]
        /\ \A k \in 1..Len(waiters) : Queue[Len(ready) + k] = waiters[k]
    BY <1>1, QueueIs DEF Queue
  <2>3. CASE j <= Len(ready)
    <3>1. j \in 1..Len(ready) /\ 1 \in 1..Len(ready) /\ ready[j] = ready[1] /\ j # 1
      BY <1>2, <2>1, <2>2, <2>3
    <3> QED
      BY <3>1 DEF BulkheadInv, LineConsistent, Distinct
  <2>4. CASE j > Len(ready)
    <3>1. PICK k \in 1..Len(waiters) : j = Len(ready) + k
      <4>1. j - Len(ready) \in 1..Len(waiters) /\ j = Len(ready) + (j - Len(ready))
        BY <1>2, <2>1, <2>2, <2>4
      <4> QED
        BY <4>1
    <3>2. waiters[k] = Head(ready)
      BY <2>1, <2>2, <3>1
    <3>3. place[Head(ready)] = "queued"
      BY <3>2 DEF BulkheadInv, LineConsistent
    <3>4. 1 \in 1..Len(ready)
      BY <1>2
    <3>5. place[ready[1]] \in {"woken", "settled"}
      BY <3>4 DEF BulkheadInv, LineConsistent
    <3> QED
      BY <1>2, <3>3, <3>5
  <2> QED
    BY <1>2, <2>1, <2>3, <2>4
<1> QED
  BY <1>2, <1>3, <1>4

\* The head of the line is served when the first microtask is a woken waiter.
LEMMA HeadServed ==
  ASSUME BulkheadInv, ready # <<>>, place[Head(ready)] = "woken",
         Queue' = Tail(Queue), InLine' = InLine \ {Head(ready)},
         Inside' = Inside \/ Inside' = Inside \cup {Head(ready)}
  PROVE  G!GateNext
<1> DEFINE c == Head(ready)
<1>1. /\ c \in Requests /\ Queue # <<>> /\ c = Head(Queue)
      /\ \A b \in Requests : ~Before(Queue, b, c)
      /\ InLine \subseteq Requests /\ Queue \in Seq(Requests)
  BY FirstOfQueue, LineTypes
<1>2. c \in InLine
  BY <1>1 DEF InLine, At
<1>3. \A b \in InLine : <<b, c>> \notin Ahead
  BY <1>1 DEF Ahead, Queue
<1>4. Ahead' = {p \in Ahead : p[1] # c}
  <2>1. Ahead' = {p \in InLine' \X InLine' : Before(Tail(Queue), p[1], p[2])}
    BY DEF Ahead, Queue
  <2>2. Ahead = {p \in InLine \X InLine : Before(Queue, p[1], p[2])}
    BY DEF Ahead, Queue
  <2>3. ASSUME NEW a \in InLine, NEW b \in InLine
        PROVE  <<a, b>> \in Ahead' <=> <<a, b>> \in Ahead /\ a # c
    <3>1. CASE a = c
      BY <2>1, <3>1
    <3>2. CASE a # c /\ b = c
      BY <1>1, <2>1, <2>2, <3>2
    <3>3. CASE a # c /\ b # c
      <4>1. Before(Tail(Queue), a, b) <=> Before(Queue, a, b)
        BY <1>1, <3>3, HeadLeaves
      <4> QED
        BY <2>1, <2>2, <3>3, <4>1
    <3> QED
      BY <3>1, <3>2, <3>3
  <2> HIDE DEF c
  <2>4. Ahead' \subseteq InLine \X InLine /\ Ahead \subseteq InLine \X InLine
    BY <2>1, <2>2 DEF c
  <2>5. \A p \in InLine \X InLine : p \in Ahead' <=> p \in Ahead /\ p[1] # c
    <3>1. ASSUME NEW p \in InLine \X InLine PROVE p \in Ahead' <=> p \in Ahead /\ p[1] # c
      <4>1. p[1] \in InLine /\ p[2] \in InLine /\ p = <<p[1], p[2]>>
        OBVIOUS
      <4>2. <<p[1], p[2]>> \in Ahead' <=> <<p[1], p[2]>> \in Ahead /\ p[1] # c
        BY <2>3, <4>1
      <4> QED
        BY <4>1, <4>2
    <3> QED
      BY <3>1
  <2> QED
    BY <2>4, <2>5
<1>5. G!Serve(c)
  BY <1>2, <1>3, <1>4 DEF G!Serve, Inside
<1> QED
  BY <1>1, <1>5 DEF G!GateNext, G!ServeOne

\* The cardinality the gate speaks of is the one the bulkhead counts with.
LEMMA SameCount == ASSUME NEW S PROVE G!Cardinality(S) = Cardinality(S)
BY DEF G!Cardinality, Cardinality

\* Every step of the bulkhead is a step of the gate, or one nobody can see.
LEMMA NextImplementsGate ==
  BulkheadInv /\ NobodyForgotten /\ [BulkheadNext]_bulkheadVars => [G!GateNext]_G!gateVars
<1> SUFFICES ASSUME BulkheadInv, NobodyForgotten, [BulkheadNext]_bulkheadVars
             PROVE  G!GateNext \/ UNCHANGED G!gateVars
  OBVIOUS
<1>1. /\ ready \in Seq(Requests) /\ waiters \in Seq(Requests) /\ Queue \in Seq(Requests)
      /\ place \in [Requests -> Places] /\ InLine \subseteq Requests
      /\ active \in Nat /\ active = Cardinality(Inside)
  BY LineTypes DEF BulkheadInv, BulkheadTypeOK, SlotsBalanced, Inside
<1>2. ASSUME NEW c \in Requests, Enter(c) PROVE G!GateNext
  <2>1. InLine' = InLine /\ Inside' = Inside \cup {c} /\ Queue' = Queue /\ c \notin Inside \cup InLine
    BY <1>1, <1>2 DEF Enter, Outside, InLine, Inside, At, Queue
  <2>2. Ahead' = Ahead
    BY <2>1 DEF Ahead, Queue
  <2>3. G!WalkIn(c)
    BY <1>1, <1>2, <2>1, <2>2, SameCount DEF G!WalkIn, Enter, Inside
  <2> QED
    BY <2>3 DEF G!GateNext
<1>3. ASSUME NEW c \in Requests, EnterThrows(c) PROVE UNCHANGED G!gateVars
  <2>1. place[c] \in Outside /\ ReleaseSlot(c, ready)
    BY <1>3 DEF EnterThrows
  <2>2. Queue' = Queue /\ InLine' = InLine \ {c} /\ Inside' = Inside \ {c}
    BY <1>1, <2>1, ReleaseIs DEF Queue, Outside
  <2>3. c \notin InLine /\ c \notin Inside
    BY <2>1 DEF InLine, Inside, At, Outside
  <2> QED
    BY <2>2, <2>3, StandStill DEF Queue
<1>4. ASSUME NEW c \in Requests, Wait(c) PROVE G!GateNext
  <2>1. /\ InLine' = InLine \cup {c} /\ Inside' = Inside /\ c \notin Inside \cup InLine
        /\ ready' = ready /\ waiters' = Append(waiters, c) /\ active >= MaxConcurrent
    BY <1>1, <1>4 DEF Wait, Outside, InLine, Inside, At
  <2>2. Queue' = Append(Queue, c)
    BY <1>1, <2>1 DEF Queue
  <2>3. /\ Len(Queue) = Len(ready) + Len(waiters) /\ Len(ready) \in Nat /\ Len(waiters) \in Nat
        /\ \A i \in 1..Len(ready) : Queue[i] = ready[i]
        /\ \A i \in 1..Len(waiters) : Queue[Len(ready) + i] = waiters[i]
    BY <1>1, QueueIs DEF Queue
  <2>4. ~Among(Queue, c)
    <3>1. ASSUME NEW i \in 1..Len(Queue) PROVE Queue[i] # c
      <4>1. CASE i <= Len(ready)
        <5>1. i \in 1..Len(ready) /\ Queue[i] = ready[i]
          BY <2>3, <4>1
        <5>2. place[ready[i]] \in {"woken", "settled"}
          BY <5>1 DEF BulkheadInv, LineConsistent
        <5> QED
          BY <1>4, <5>1, <5>2 DEF Wait, Outside
      <4>2. CASE i > Len(ready)
        <5>1. i - Len(ready) \in 1..Len(waiters) /\ Len(ready) + (i - Len(ready)) = i
          BY <2>3, <4>2
        <5>2. Queue[i] = waiters[i - Len(ready)] /\ place[waiters[i - Len(ready)]] = "queued"
          BY <2>3, <5>1 DEF BulkheadInv, LineConsistent
        <5> QED
          BY <1>4, <5>2 DEF Wait, Outside
      <4> QED
        BY <2>3, <4>1, <4>2
    <3> QED
      BY <3>1 DEF Among
  <2>5. \A a \in InLine : Among(Queue, a)
    <3>1. ASSUME NEW a \in InLine PROVE Among(Queue, a)
      <4>1. CASE a \in At({"queued"})
        <5>1. PICK i \in 1..Len(waiters) : waiters[i] = a
          BY <4>1 DEF NobodyForgotten
        <5>2. Len(ready) + i \in 1..Len(Queue) /\ Queue[Len(ready) + i] = a
          BY <2>3, <5>1
        <5> QED
          BY <5>2 DEF Among
      <4>2. CASE a \in At({"woken", "settled"})
        <5>1. PICK i \in 1..Len(ready) : ready[i] = a
          BY <4>2 DEF NobodyForgotten
        <5>2. i \in 1..Len(Queue) /\ Queue[i] = a
          BY <2>3, <5>1
        <5> QED
          BY <5>2 DEF Among
      <4> QED
        BY <3>1, <4>1, <4>2 DEF InLine, At
    <3> QED
      BY <3>1
  <2>6. Ahead' = Ahead \cup (InLine \X {c})
    <3>1. Ahead' = {p \in InLine' \X InLine' : Before(Append(Queue, c), p[1], p[2])}
      BY <2>2 DEF Ahead, Queue
    <3>2. Ahead = {p \in InLine \X InLine : Before(Queue, p[1], p[2])}
      BY DEF Ahead, Queue
    <3>3. ASSUME NEW a \in InLine', NEW b \in InLine'
          PROVE  <<a, b>> \in Ahead' <=> <<a, b>> \in Ahead \/ (a \in InLine /\ b = c)
      <4>1. a \in Requests /\ b \in Requests
        BY <1>1, <2>1, <3>3
      <4>2. Before(Append(Queue, c), a, b) <=> Before(Queue, a, b) \/ (b = c /\ Among(Queue, a))
        BY <1>1, <2>4, <4>1, BehindAll
      <4>3. Before(Queue, a, b) => a # c /\ b # c
        BY <2>4 DEF Before, Among
      <4>4. Among(Queue, a) <=> a \in InLine
        BY <2>1, <2>4, <2>5, <3>3
      <4> QED
        BY <2>1, <3>1, <3>2, <3>3, <4>2, <4>3, <4>4
    <3>4. /\ Ahead' \subseteq InLine' \X InLine' /\ Ahead \subseteq InLine' \X InLine'
          /\ InLine \X {c} \subseteq InLine' \X InLine'
      BY <2>1, <3>1, <3>2
    <3>5. ASSUME NEW p \in InLine' \X InLine'
          PROVE  p \in Ahead' <=> p \in Ahead \cup (InLine \X {c})
      <4>1. p[1] \in InLine' /\ p[2] \in InLine' /\ p = <<p[1], p[2]>>
        OBVIOUS
      <4>2. p \in InLine \X {c} <=> p[1] \in InLine /\ p[2] = c
        BY <4>1
      <4>3. p \in Ahead' <=> p \in Ahead \/ (p[1] \in InLine /\ p[2] = c)
        BY <3>3, <4>1
      <4> QED
        BY <4>2, <4>3
    <3> QED
      BY <3>4, <3>5
  <2>7. G!Join(c)
    BY <1>1, <2>1, <2>6, SameCount DEF G!Join, Inside
  <2> QED
    BY <2>7 DEF G!GateNext
<1>5. ASSUME NEW c \in Requests, Refuse(c) PROVE UNCHANGED G!gateVars
  <2>1. InLine' = InLine /\ Inside' = Inside /\ Queue' = Queue
    BY <1>1, <1>5 DEF Refuse, Outside, InLine, Inside, At, Queue
  <2> QED
    BY <2>1, StandStill
<1>6. ASSUME NEW c \in Requests, FnSettles(c) PROVE UNCHANGED G!gateVars
  <2>1. /\ InLine' = InLine /\ Inside' = Inside /\ c \notin InLine
        /\ Queue' = Append(ready, c) \o waiters
    BY <1>1, <1>6 DEF FnSettles, InLine, Inside, At, Queue
  <2>2. \A a, b \in InLine : Before(Append(ready, c) \o waiters, a, b) <=> Before(ready \o waiters, a, b)
    BY <1>1, <2>1, Squeezed
  <2> QED
    BY <2>1, <2>2, StandStill DEF Queue
<1>7. ASSUME Resume PROVE G!GateNext
  <2>1. /\ ready # <<>> /\ place[Head(ready)] = "woken" /\ ready' = Tail(ready)
        /\ waiters' = waiters /\ place' = [place EXCEPT ![Head(ready)] = "running"]
    BY <1>7 DEF Resume
  <2>2. Head(ready) \in Requests /\ Queue' = Tail(Queue)
    BY <2>1, FirstOfQueue DEF Queue
  <2>3. InLine' = InLine \ {Head(ready)} /\ Inside' = Inside \cup {Head(ready)}
    BY <1>1, <2>1, <2>2 DEF InLine, Inside, At
  <2> QED
    BY <2>1, <2>2, <2>3, HeadServed
<1>8. ASSUME ResumeThrows PROVE G!GateNext
  <2>1. ready # <<>> /\ place[Head(ready)] = "woken" /\ ReleaseSlot(Head(ready), Tail(ready))
    BY <1>8 DEF ResumeThrows
  <2>2. /\ Head(ready) \in Requests /\ Tail(ready) \in Seq(Requests)
        /\ Tail(Queue) = Tail(ready) \o waiters
    BY <2>1, FirstOfQueue
  <2>3. /\ Queue' = Tail(Queue) /\ InLine' = InLine \ {Head(ready)}
        /\ Inside' = Inside \ {Head(ready)}
    BY <2>1, <2>2, ReleaseIs
  <2>4. Head(ready) \notin Inside
    BY <2>1 DEF Inside, At
  <2> QED
    BY <2>1, <2>3, <2>4, HeadServed
<1>9. ASSUME Finish PROVE G!GateNext
  <2>1. ready # <<>> /\ place[Head(ready)] = "settled" /\ ReleaseSlot(Head(ready), Tail(ready))
    BY <1>9 DEF Finish
  <2>2. /\ Head(ready) \in Requests /\ Tail(ready) \in Seq(Requests) /\ Queue # <<>>
        /\ Head(Queue) = Head(ready) /\ Tail(Queue) = Tail(ready) \o waiters
    BY <2>1, FirstOfQueue
  <2>3. /\ Queue' = Tail(Queue) /\ InLine' = InLine \ {Head(ready)}
        /\ Inside' = Inside \ {Head(ready)}
    BY <2>1, <2>2, ReleaseIs
  <2>4. Head(ready) \in Inside /\ Head(ready) \notin InLine
    BY <2>1, <2>2 DEF Inside, InLine, At
  <2>5. \A a, b \in InLine : Before(Tail(Queue), a, b) <=> Before(Queue, a, b)
    BY <1>1, <2>2, <2>4, HeadLeaves
  <2>6. Ahead' = Ahead
    BY <2>3, <2>4, <2>5 DEF Ahead, Queue
  <2>7. G!Leave(Head(ready))
    BY <2>3, <2>4, <2>6 DEF G!Leave, Inside
  <2> QED
    BY <2>2, <2>7 DEF G!GateNext
<1>10. CASE UNCHANGED bulkheadVars
  BY <1>10, StandStill DEF bulkheadVars, InLine, Inside, At, Queue
<1> QED
  BY <1>2, <1>3, <1>4, <1>5, <1>6, <1>7, <1>8, <1>9, <1>10 DEF BulkheadNext, Microtask

\* execute() is a gate with one line: whoever waits is served in the order of
\* arrival, none is lost from the line, and nobody joins it below the capacity.
\* (That the head of the line is served at last is fairness, and left to TLC.)
THEOREM BulkheadIsGate == BulkheadSpec => G!GateSafety
<1>1. BulkheadInit => G!GateInit
  <2>1. ASSUME BulkheadInit PROVE InLine = {} /\ Inside = {} /\ Ahead = {}
    BY <2>1 DEF BulkheadInit, InLine, Inside, At, Ahead
  <2> QED
    BY <2>1 DEF G!GateInit, Inside
<1> QED
  BY <1>1, BulkheadInvariant, SlotsAlwaysSafe, NextImplementsGate, PTL
     DEF BulkheadSpec, G!GateSafety, SlotsSafe
=============================================================================
