---------------------------- MODULE Singleflight ----------------------------
(***************************************************************************)
(* packages/cache/src/index.ts: withStampede(), whose getOrLoad() calls    *)
(* for one key share one loader promise.                                   *)
(*                                                                         *)
(* A call is interrupted while it awaits inner.get(), the loader and       *)
(* inner.set(); the Cache port may be asynchronous, so anything happens in *)
(* between.  A flight, the promise kept in the inflight map, is named      *)
(* after the call that started it.  Of the backend only the presence of an *)
(* entry matters; it may drop one at any moment (TTL, eviction).           *)
(***************************************************************************)
EXTENDS Naturals, FiniteSets

CONSTANTS Calls,         \* the calls of getOrLoad()
          Keys,
          KeyOf,         \* [Calls -> Keys]: the key each call asks for
          NoCall,        \* no flight in the slot
          MaxDels,       \* bound: del() and clear() calls
          LoaderThrows,  \* whether a loader may throw before it returns
          PortFails      \* whether inner.get() and inner.set() may reject

ASSUME FlightAssumption ==
  /\ IsFiniteSet(Calls)
  /\ KeyOf \in [Calls -> Keys]
  /\ NoCall \notin Calls
  /\ MaxDels \in Nat
  /\ LoaderThrows \in BOOLEAN /\ PortFails \in BOOLEAN

VARIABLES present,  \* keys the inner cache has an entry for
          slot,    \* inflight: per key the flight callers join
          flight,  \* per call: the state of the flight it started
          at,      \* per call: where it is
          hit,     \* per call: whether inner.get() found an entry
          joined,  \* per call: the flight it returns
          dels     \* history: times a key's slot was cleared by del()/clear()

flightVars == <<present, slot, flight, at, hit, joined, dels>>

\* "loading": awaiting loader(); "storing": awaiting inner.set();
\* "threw": rejected because loader() itself threw.
Underway == {"loading", "storing"}
Settled == {"done", "rejected", "threw"}
Steps == {"idle", "looking", "joined", "returned", "failed"}

FlightInit ==
  /\ present = {}
  /\ slot = [k \in Keys |-> NoCall]
  /\ flight = [c \in Calls |-> "none"]
  /\ at = [c \in Calls |-> "idle"]
  /\ hit = [c \in Calls |-> FALSE]
  /\ joined = [c \in Calls |-> NoCall]
  /\ dels = [k \in Keys |-> 0]

\* getOrLoad() up to "await inner.get(key)".
Look(c) ==
  /\ at[c] = "idle"
  /\ at' = [at EXCEPT ![c] = "looking"]
  /\ hit' = [hit EXCEPT ![c] = KeyOf[c] \in present]
  /\ UNCHANGED <<present, slot, flight, joined, dels>>

ReturnHit(c) ==
  /\ at[c] = "looking" /\ hit[c]
  /\ at' = [at EXCEPT ![c] = "returned"]
  /\ UNCHANGED <<present, slot, flight, hit, joined, dels>>

LookupRejects(c) ==
  /\ PortFails
  /\ at[c] = "looking"
  /\ at' = [at EXCEPT ![c] = "failed"]
  /\ UNCHANGED <<present, slot, flight, hit, joined, dels>>

\* A miss that finds a flight in the slot returns that promise.
Join(c) ==
  /\ at[c] = "looking" /\ ~hit[c]
  /\ slot[KeyOf[c]] # NoCall
  /\ at' = [at EXCEPT ![c] = "joined"]
  /\ joined' = [joined EXCEPT ![c] = slot[KeyOf[c]]]
  /\ UNCHANGED <<present, slot, flight, hit, dels>>

\* A miss that finds none calls the loader and fills the slot.
Load(c) ==
  /\ at[c] = "looking" /\ ~hit[c]
  /\ slot[KeyOf[c]] = NoCall
  /\ at' = [at EXCEPT ![c] = "joined"]
  /\ joined' = [joined EXCEPT ![c] = c]
  /\ flight' = [flight EXCEPT ![c] = "loading"]
  /\ slot' = [slot EXCEPT ![KeyOf[c]] = c]
  /\ UNCHANGED <<present, hit, dels>>

\* loader() throws before it returns a promise: the finally block clears the
\* slot first, and only then is the rejected promise put into it.
LoadThrows(c) ==
  /\ LoaderThrows
  /\ at[c] = "looking" /\ ~hit[c]
  /\ slot[KeyOf[c]] = NoCall
  /\ at' = [at EXCEPT ![c] = "joined"]
  /\ joined' = [joined EXCEPT ![c] = c]
  /\ flight' = [flight EXCEPT ![c] = "threw"]
  /\ slot' = [slot EXCEPT ![KeyOf[c]] = c]
  /\ UNCHANGED <<present, hit, dels>>

LoaderFulfils(f) ==
  /\ flight[f] = "loading"
  /\ flight' = [flight EXCEPT ![f] = "storing"]
  /\ present' = present \cup {KeyOf[f]}
  /\ UNCHANGED <<slot, at, hit, joined, dels>>

\* Seeded fault: the slot is cleared on success only, not in a finally block.
End_KeepsFailed(f, outcome) ==
  /\ flight' = [flight EXCEPT ![f] = outcome]
  /\ slot' = IF outcome = "done" THEN [slot EXCEPT ![KeyOf[f]] = NoCall] ELSE slot

\* The finally block: whatever flight is in the slot of the key is removed.
End(f, outcome) ==
  /\ flight' = [flight EXCEPT ![f] = outcome]
  /\ slot' = [slot EXCEPT ![KeyOf[f]] = NoCall]

LoaderRejects(f) ==
  /\ flight[f] = "loading"
  /\ End(f, "rejected")
  /\ UNCHANGED <<present, at, hit, joined, dels>>

StoreFulfils(f) ==
  /\ flight[f] = "storing"
  /\ End(f, "done")
  /\ UNCHANGED <<present, at, hit, joined, dels>>

StoreRejects(f) ==
  /\ PortFails
  /\ flight[f] = "storing"
  /\ End(f, "rejected")
  /\ present' \in {present, present \ {KeyOf[f]}}
  /\ UNCHANGED <<at, hit, joined, dels>>

\* Seeded fault: only the success of a flight reaches the calls that joined.
Return_OnlyValues(c) ==
  /\ at[c] = "joined"
  /\ flight[joined[c]] = "done"
  /\ at' = [at EXCEPT ![c] = "returned"]
  /\ UNCHANGED <<present, slot, flight, hit, joined, dels>>

\* The promise a call returned has settled.
Return(c) ==
  /\ at[c] = "joined"
  /\ flight[joined[c]] \in Settled
  /\ at' = [at EXCEPT ![c] = IF flight[joined[c]] = "done" THEN "returned" ELSE "failed"]
  /\ UNCHANGED <<present, slot, flight, hit, joined, dels>>

Proceed(c) ==
  \/ ReturnHit(c) \/ LookupRejects(c) \/ Join(c) \/ Load(c) \/ LoadThrows(c)
  \/ LoaderFulfils(c) \/ LoaderRejects(c) \/ StoreFulfils(c) \/ StoreRejects(c)
  \/ Return(c)

\* del(): the slot and the entry go; a running loader goes on.
Del(k) ==
  /\ dels[k] < MaxDels
  /\ slot' = [slot EXCEPT ![k] = NoCall]
  /\ present' = present \ {k}
  /\ dels' = [dels EXCEPT ![k] = @ + 1]
  /\ UNCHANGED <<flight, at, hit, joined>>

Clear ==
  /\ \A k \in Keys : dels[k] < MaxDels
  /\ slot' = [k \in Keys |-> NoCall]
  /\ present' = {}
  /\ dels' = [k \in Keys |-> dels[k] + 1]
  /\ UNCHANGED <<flight, at, hit, joined>>

\* set() goes straight to the inner cache.
Put(k) ==
  /\ present' = present \cup {k}
  /\ UNCHANGED <<slot, flight, at, hit, joined, dels>>

\* The inner cache drops an entry: it expired or was evicted.
Drop(k) ==
  /\ present' = present \ {k}
  /\ UNCHANGED <<slot, flight, at, hit, joined, dels>>

FlightNext ==
  \/ \E c \in Calls : Look(c) \/ Proceed(c)
  \/ \E k \in Keys : Del(k) \/ Put(k) \/ Drop(k)
  \/ Clear

FlightSpec == FlightInit /\ [][FlightNext]_flightVars

\* Loaders and the cache port settle, and ready continuations run.
FlightFairness == \A c \in Calls : WF_flightVars(Proceed(c))

-----------------------------------------------------------------------------
(* Properties *)

\* Slots, flights and calls are well-formed, and a slot holds a flight that was
\* started for its own key.
FlightTypeOK ==
  /\ present \subseteq Keys
  /\ slot \in [Keys -> Calls \cup {NoCall}]
  /\ flight \in [Calls -> {"none"} \cup Underway \cup Settled]
  /\ at \in [Calls -> Steps]
  /\ hit \in [Calls -> BOOLEAN]
  /\ joined \in [Calls -> Calls \cup {NoCall}]
  /\ dels \in [Keys -> Nat]
  /\ \A k \in Keys : slot[k] # NoCall => KeyOf[slot[k]] = k
  /\ \A c \in Calls : flight[c] # "none" => at[c] \in {"joined", "returned", "failed"}
  /\ \A c \in Calls : at[c] = "joined" => joined[c] \in Calls /\ flight[joined[c]] # "none"

Loaders(k) == {f \in Calls : KeyOf[f] = k /\ flight[f] \in Underway}

\* "concurrent getOrLoad calls for the same key share one loader promise": as
\* long as nobody deletes the key there is one loader at a time, and every
\* del() or clear() during a load allows one more.  It never takes that back:
\* the loader that lost its slot clears the slot of the one that took it over.
LoadersBounded == \A k \in Keys : Cardinality(Loaders(k)) <= 1 + dels[k]

\* A slot never holds a flight that has ended, whatever del(), clear() and late
\* loaders do; the one exception is a loader that threw synchronously.
SlotUnderway ==
  \A k \in Keys : slot[k] # NoCall => flight[slot[k]] \in Underway \cup {"threw"}

\* Loaders are shared, and the slots they are shared through stay good, however
\* deletions, failures and late loaders interleave.
FlightsShared == FlightTypeOK /\ LoadersBounded /\ SlotUnderway

\* "Failures clear the slot so the next caller retries".
FailuresClearSlot == \A k \in Keys : slot[k] # NoCall => flight[slot[k]] \in Underway

\* Every call gets a value or an error, the ones that joined a flight that lost
\* its slot included.
EveryCallAnswered ==
  \A c \in Calls : at[c] = "looking" ~> at[c] \in {"returned", "failed"}
=============================================================================
