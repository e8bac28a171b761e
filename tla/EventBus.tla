------------------------------ MODULE EventBus ------------------------------
(***************************************************************************)
(* packages/events/src/index.ts: MemoryEventBus, for one event name.       *)
(*                                                                         *)
(* publish() walks the handler array it found, awaiting one handler after  *)
(* the other; subscribe() pushes onto the current array and unsubscribe    *)
(* replaces it by a filtered copy, at any time in between.  "arrays" holds *)
(* every array ever installed, the current one last, so that a publication *)
(* can go on walking an array that has been replaced.  Nothing keeps a     *)
(* handler from being subscribed several times; it is dropped everywhere.  *)
(***************************************************************************)
EXTENDS Naturals, Sequences, FiniteSets

CONSTANTS Handlers,
          Publications,     \* the calls of publish()
          MaxDeliveries,    \* max(1, opts.maxAttempts)
          MaxArrays,        \* bound: calls of unsubscribe() + 1
          MaxSubscribed     \* bound: length of an array

ASSUME EventBusAssumption ==
  MaxDeliveries \in Nat \ {0} /\ MaxArrays \in Nat \ {0} /\ MaxSubscribed \in Nat

VARIABLES arrays,      \* arrays installed under the event name
          progress,    \* per publication: its place in publish()
          calls,       \* history: calls made for each position, per publication
          deadLetter,  \* the publication, position, handler and attempts of each entry
          served,      \* history: handlers a publication has finished with
          audience     \* history: the handlers subscribed when it began

eventBusVars == <<arrays, progress, calls, deadLetter, served, audience>>

Elements(s) == {s[i] : i \in DOMAIN s}
installed == arrays[Len(arrays)]

NotBegun == [at |-> "new", array |-> 1, position |-> 0, attempts |-> 0]

EventBusInit ==
  /\ arrays = <<<<>>>>
  /\ progress = [p \in Publications |-> NotBegun]
  /\ calls = [p \in Publications |-> <<>>]
  /\ deadLetter = <<>>
  /\ served = [p \in Publications |-> <<>>]
  /\ audience = [p \in Publications |-> <<>>]

\* push() onto the array that is installed, and perhaps being walked.
Subscribe(h) ==
  /\ Len(installed) < MaxSubscribed
  /\ arrays' = [arrays EXCEPT ![Len(arrays)] = Append(@, h)]
  /\ UNCHANGED <<progress, calls, deadLetter, served, audience>>

\* What filter() leaves of s: everything but h.
Without(s, h) ==
  LET rest[n \in 0..Len(s)] ==
        IF n = 0 THEN <<>>
        ELSE IF s[n] = h THEN rest[n - 1]
        ELSE Append(rest[n - 1], s[n])
  IN rest[Len(s)]

\* Seeded fault: the handler is spliced out of the array in place.
Unsubscribe_InPlace(h) ==
  /\ h \in Elements(installed)
  /\ arrays' = [arrays EXCEPT ![Len(arrays)] = Without(@, h)]
  /\ UNCHANGED <<progress, calls, deadLetter, served, audience>>

\* The closure subscribe() returned; it may be called again.
Unsubscribe(h) ==
  /\ \E i \in DOMAIN arrays : h \in Elements(arrays[i])
  /\ Len(arrays) < MaxArrays
  /\ arrays' = Append(arrays, Without(installed, h))
  /\ UNCHANGED <<progress, calls, deadLetter, served, audience>>

\* The loop over the handlers reaches a position: it calls the handler there,
\* or publish() returns.  The length is read anew each time.
Walk(p, array, position) ==
  IF position <= Len(arrays[array])
  THEN /\ progress' = [progress EXCEPT ![p] =
            [at |-> "calling", array |-> array, position |-> position, attempts |-> 1]]
       /\ calls' = [calls EXCEPT ![p] = Append(@, 1)]
  ELSE /\ progress' = [progress EXCEPT ![p].at = "done"]
       /\ UNCHANGED calls

Publish(p) ==
  /\ progress[p].at = "new"
  /\ audience' = [audience EXCEPT ![p] = installed]
  /\ Walk(p, Len(arrays), 1)
  /\ UNCHANGED <<arrays, deadLetter, served>>

HandlerOf(p) == arrays[progress[p].array][progress[p].position]

\* The handler is done with, one way or the other: on to the next one.
MoveOn(p) ==
  /\ served' = [served EXCEPT ![p] = Append(@, HandlerOf(p))]
  /\ Walk(p, progress[p].array, progress[p].position + 1)

HandlerFulfils(p) ==
  /\ progress[p].at = "calling"
  /\ MoveOn(p)
  /\ UNCHANGED <<arrays, deadLetter, audience>>

\* The catch clause below the limit: the same handler is called again.
HandlerRetried(p) ==
  /\ progress[p].at = "calling"
  /\ progress[p].attempts < MaxDeliveries
  /\ progress' = [progress EXCEPT ![p].attempts = @ + 1]
  /\ calls' = [calls EXCEPT ![p][progress[p].position] = @ + 1]
  /\ UNCHANGED <<arrays, deadLetter, served, audience>>

\* Seeded fault: the error of the last attempt leaves publish().
HandlerGivenUp_Rethrows(p) ==
  /\ progress[p].at = "calling"
  /\ progress[p].attempts >= MaxDeliveries
  /\ progress' = [progress EXCEPT ![p].at = "rejected"]
  /\ UNCHANGED <<arrays, calls, served, deadLetter, audience>>

\* The catch clause at the limit: the envelope lands in deadLetter.
HandlerGivenUp(p) ==
  /\ progress[p].at = "calling"
  /\ progress[p].attempts >= MaxDeliveries
  /\ deadLetter' = Append(deadLetter,
       [publication |-> p, position |-> progress[p].position,
        handler |-> HandlerOf(p), attempts |-> progress[p].attempts])
  /\ MoveOn(p)
  /\ UNCHANGED <<arrays, audience>>

Deliver(p) == HandlerFulfils(p) \/ HandlerRetried(p) \/ HandlerGivenUp(p)

EventBusNext ==
  \/ \E h \in Handlers : Subscribe(h) \/ Unsubscribe(h)
  \/ \E p \in Publications : Publish(p) \/ Deliver(p)

EventBusSpec == EventBusInit /\ [][EventBusNext]_eventBusVars

\* Handlers settle.
EventBusFairness == \A p \in Publications : WF_eventBusVars(Deliver(p))

-----------------------------------------------------------------------------
(* Properties *)

\* Publications are at a place of an array, and the attempt that is going on is
\* within the limit.
EventBusTypeOK ==
  /\ arrays \in Seq(Seq(Handlers)) /\ Len(arrays) \in 1..MaxArrays
  /\ \A p \in Publications :
       /\ progress[p].at \in {"new", "calling", "done"}
       /\ progress[p].array \in DOMAIN arrays
       /\ progress[p].at = "calling" =>
            /\ progress[p].position \in DOMAIN arrays[progress[p].array]
            /\ progress[p].attempts \in 1..MaxDeliveries

IsPrefixOf(s, t) == Len(s) <= Len(t) /\ s = SubSeq(t, 1, Len(s))

\* A publication finishes with the entries of the array it walks in their order,
\* none skipped and none twice, however the subscriptions change while it awaits
\* a handler; when publish() has returned it has reached everything that was
\* subscribed when it began, what was unsubscribed in the meantime included.
AudienceServed ==
  \A p \in Publications :
    /\ IsPrefixOf(served[p], arrays[progress[p].array])
    /\ progress[p].at = "done" => IsPrefixOf(audience[p], served[p])

\* "Failed handlers retry inline up to maxAttempts, then the envelope lands in
\* deadLetter": a subscription has an entry of a publication at most once, and
\* only after all attempts; none is called more often than that.
DeadLetterExact ==
  /\ \A i, j \in DOMAIN deadLetter :
       /\ deadLetter[i].publication = deadLetter[j].publication
       /\ deadLetter[i].position = deadLetter[j].position
       => i = j
  /\ \A i \in DOMAIN deadLetter :
       LET d == deadLetter[i]
       IN  /\ d.attempts = MaxDeliveries
           /\ d.position \in DOMAIN served[d.publication]
           /\ d.handler = served[d.publication][d.position]
           /\ calls[d.publication][d.position] = MaxDeliveries
  /\ \A p \in Publications : \A i \in DOMAIN calls[p] : calls[p][i] <= MaxDeliveries

\* Both halves of what publish() owes: its audience is served, and deadLetter
\* holds those handlers that used up their attempts.
Delivered == EventBusTypeOK /\ AudienceServed /\ DeadLetterExact

\* A rejecting handler never makes publish() fail or hang.  What is subscribed
\* while it walks the array is served as well, so it returns when subscribing
\* comes to an end, as MaxSubscribed makes it here: a handler that subscribes
\* again on every call keeps publish() from returning.
PublishEnds ==
  \A p \in Publications : progress[p].at = "calling" ~> progress[p].at = "done"
=============================================================================
