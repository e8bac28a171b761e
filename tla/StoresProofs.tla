---------------------------- MODULE StoresProofs -----------------------------
(***************************************************************************)
(* What is proved of state that requests share: the flights of             *)
(* withStampede(), for every set of calls and keys and whatever loaders    *)
(* and the cache port do; the idempotency store, for every set of          *)
(* requests, keys and fingerprints and every ttl, 0 included; sessions, of *)
(* any number of browsers with overlapping requests; chains of refresh     *)
(* tokens; the memory cache that tenants share; key sets and device flows; *)
(* the response cache, for any requests, pages, cap and ttl.               *)
(***************************************************************************)
EXTENDS Singleflight, Idempotency, Session, TokenRotation, CachePorts, KeyCache,
        ResponseCache, TLAPS, FiniteSetTheorems

(***************************************************************************)
(* The flights.  The bound on loaders is not inductive: it says nothing of *)
(* which of them holds the slot.  What is inductive is a bound on the      *)
(* orphans, the loaders that del() or clear() took out of the slot.  An    *)
(* orphan that ends clears the slot of the flight that took over and makes *)
(* an orphan of it, so their number stays the same; only a deletion adds   *)
(* one.                                                                    *)
(***************************************************************************)

\* The loaders of a key that are not in its slot.
Orphans(k) == Loaders(k) \ {slot[k]}

OrphansBounded == \A k \in Keys : Cardinality(Orphans(k)) <= dels[k]

FlightInv == FlightTypeOK /\ SlotUnderway /\ OrphansBounded

-----------------------------------------------------------------------------
(* Counting *)

LEMMA LoadersFinite ==
  ASSUME NEW k \in Keys
  PROVE  IsFiniteSet(Loaders(k)) /\ IsFiniteSet(Orphans(k))
<1>1. Loaders(k) \subseteq Calls /\ Orphans(k) \subseteq Calls
  BY DEF Loaders, Orphans
<1>2. QED BY <1>1, FS_Subset, FlightAssumption

\* A part of a finite set and one element more have at most one element more.
LEMMA OneMore ==
  ASSUME NEW T, IsFiniteSet(T), NEW e, NEW S, S \subseteq T \cup {e}
  PROVE  /\ Cardinality(S) <= Cardinality(T) + 1
         /\ Cardinality(S) \in Nat
         /\ Cardinality(T) \in Nat
<1>1. /\ IsFiniteSet(T \cup {e})
      /\ Cardinality(T \cup {e}) <= Cardinality(T) + 1
      /\ Cardinality(T) \in Nat
  BY FS_AddElement, FS_CardinalityType
<1>2. /\ IsFiniteSet(S)
      /\ Cardinality(S) <= Cardinality(T \cup {e})
  BY <1>1, FS_Subset
<1>3. Cardinality(S) \in Nat /\ Cardinality(T \cup {e}) \in Nat
  BY <1>1, <1>2, FS_CardinalityType
<1>4. QED BY <1>1, <1>2, <1>3

\* Taking one element out and putting another in does not make a set larger.
LEMMA Replaced ==
  ASSUME NEW T, IsFiniteSet(T), NEW f \in T, NEW g, NEW S, S \subseteq (T \ {f}) \cup {g}
  PROVE  Cardinality(S) <= Cardinality(T)
<1>1. IsFiniteSet(T \ {f}) /\ Cardinality(T \ {f}) = Cardinality(T) - 1
  BY FS_RemoveElement
<1>2. /\ Cardinality(S) <= Cardinality(T \ {f}) + 1
      /\ Cardinality(S) \in Nat
  BY <1>1, OneMore
<1>3. Cardinality(T) \in Nat BY FS_CardinalityType
<1>4. QED BY <1>1, <1>2, <1>3

\* No orphan is added to a key that is not deleted.
LEMMA NoNewOrphan ==
  ASSUME FlightInv, dels' = dels, \A k \in Keys : Orphans(k)' \subseteq Orphans(k)
  PROVE  OrphansBounded'
<1>1. SUFFICES ASSUME NEW k \in Keys PROVE Cardinality(Orphans(k)') <= dels[k]
  BY DEF OrphansBounded
<1>2. /\ IsFiniteSet(Orphans(k)')
      /\ Cardinality(Orphans(k)') <= Cardinality(Orphans(k))
  BY <1>1, LoadersFinite, FS_Subset
<1>3. Cardinality(Orphans(k)') \in Nat /\ Cardinality(Orphans(k)) \in Nat
  BY <1>1, <1>2, LoadersFinite, FS_CardinalityType
<1>4. QED BY <1>2, <1>3 DEF FlightInv, OrphansBounded, FlightTypeOK

-----------------------------------------------------------------------------

LEMMA FlightInitInv == FlightInit => FlightInv
<1>1. SUFFICES ASSUME FlightInit PROVE FlightInv OBVIOUS
<1>2. FlightTypeOK BY <1>1 DEF FlightInit, FlightTypeOK, Underway, Settled, Steps
<1>3. SlotUnderway BY <1>1 DEF FlightInit, SlotUnderway
<1>4. \A k \in Keys : Orphans(k) = {} BY <1>1 DEF FlightInit, Orphans, Loaders, Underway
<1>5. OrphansBounded BY <1>1, <1>4, FS_EmptySet DEF FlightInit, OrphansBounded
<1>6. QED BY <1>2, <1>3, <1>5 DEF FlightInv

\* The steps of a call that touch neither a slot nor a flight.
LEMMA QuietStep ==
  ASSUME FlightInv, NEW c \in Calls,
         Look(c) \/ ReturnHit(c) \/ LookupRejects(c) \/ Join(c) \/ Return(c)
  PROVE  FlightInv'
<1>1. slot' = slot /\ flight' = flight /\ dels' = dels /\ present' = present
  BY DEF Look, ReturnHit, LookupRejects, Join, Return
<1>2. FlightTypeOK'
  <2> USE DEF FlightInv, FlightTypeOK, Underway, Settled, Steps
  <2>1. CASE Look(c) BY <2>1 DEF Look
  <2>2. CASE ReturnHit(c) BY <2>2 DEF ReturnHit
  <2>3. CASE LookupRejects(c) BY <2>3 DEF LookupRejects
  <2>4. CASE Join(c)
    <3>1. /\ slot[KeyOf[c]] \in Calls
          /\ flight[slot[KeyOf[c]]] # "none"
      BY <2>4, FlightAssumption DEF Join, SlotUnderway
    <3>2. QED BY <2>4, <3>1, FlightAssumption DEF Join
  <2>5. CASE Return(c) BY <2>5 DEF Return
  <2>6. QED BY <2>1, <2>2, <2>3, <2>4, <2>5
<1>3. SlotUnderway' BY <1>1 DEF FlightInv, SlotUnderway
<1>4. \A k \in Keys : Orphans(k)' \subseteq Orphans(k) BY <1>1 DEF Orphans, Loaders
<1>5. QED BY <1>1, <1>2, <1>3, <1>4, NoNewOrphan DEF FlightInv

\* A flight starts in a free slot: it is no orphan, and nobody becomes one.
LEMMA StartStep ==
  ASSUME FlightInv, NEW c \in Calls, Load(c) \/ LoadThrows(c)
  PROVE  FlightInv'
<1> USE DEF FlightInv
<1>1. /\ at[c] = "looking" /\ slot[KeyOf[c]] = NoCall
      /\ at' = [at EXCEPT ![c] = "joined"]
      /\ joined' = [joined EXCEPT ![c] = c]
      /\ slot' = [slot EXCEPT ![KeyOf[c]] = c]
      /\ present' = present /\ hit' = hit /\ dels' = dels
  BY DEF Load, LoadThrows
<1>2. PICK s \in {"loading", "threw"} : flight' = [flight EXCEPT ![c] = s]
  BY DEF Load, LoadThrows
<1>3. KeyOf[c] \in Keys BY FlightAssumption
<1>4. FlightTypeOK'
  BY <1>1, <1>2, <1>3 DEF FlightTypeOK, Underway, Settled, Steps
<1>5. SlotUnderway'
  <2>1. SUFFICES ASSUME NEW k \in Keys, slot'[k] # NoCall
                 PROVE  flight'[slot'[k]] \in Underway \cup {"threw"}
    BY DEF SlotUnderway
  <2>2. CASE k = KeyOf[c] BY <2>2, <1>1, <1>2, <1>3 DEF FlightTypeOK, Underway
  <2>3. CASE k # KeyOf[c]
    <3>1. slot'[k] = slot[k] /\ slot[k] \in Calls /\ slot[k] # c
      BY <2>1, <2>3, <1>1 DEF FlightTypeOK
    <3>2. QED BY <2>1, <3>1, <1>2 DEF FlightTypeOK, SlotUnderway
  <2>4. QED BY <2>2, <2>3
<1>6. \A k \in Keys : Orphans(k)' \subseteq Orphans(k)
  <2>1. SUFFICES ASSUME NEW k \in Keys, NEW f \in Orphans(k)' PROVE f \in Orphans(k)
    OBVIOUS
  <2>2. f \in Calls /\ KeyOf[f] = k /\ flight'[f] \in Underway /\ f # slot'[k]
    BY <2>1 DEF Orphans, Loaders
  <2>3. f # c BY <2>2, <1>1, <1>3 DEF FlightTypeOK
  <2>4. flight'[f] = flight[f] /\ f # slot[k]
    BY <2>2, <2>3, <1>1, <1>2, <1>3, FlightAssumption DEF FlightTypeOK
  <2>5. QED BY <2>2, <2>4 DEF Orphans, Loaders
<1>7. QED BY <1>1, <1>4, <1>5, <1>6, NoNewOrphan

LEMMA LoaderFulfilsStep ==
  ASSUME FlightInv, NEW f \in Calls, LoaderFulfils(f)
  PROVE  FlightInv'
<1> USE DEF FlightInv
<1>1. /\ flight[f] = "loading" /\ flight' = [flight EXCEPT ![f] = "storing"]
      /\ present' = present \cup {KeyOf[f]} /\ slot' = slot /\ dels' = dels
      /\ at' = at /\ hit' = hit /\ joined' = joined
  BY DEF LoaderFulfils
<1>2. FlightTypeOK' BY <1>1, FlightAssumption DEF FlightTypeOK, Underway
<1>3. SlotUnderway' BY <1>1 DEF FlightTypeOK, SlotUnderway, Underway
<1>4. \A k \in Keys : Orphans(k)' \subseteq Orphans(k)
  BY <1>1 DEF Orphans, Loaders, FlightTypeOK, Underway
<1>5. QED BY <1>1, <1>2, <1>3, <1>4, NoNewOrphan

\* The finally block.  An orphan that ends may make one of the flight in the slot.
LEMMA EndStep ==
  ASSUME FlightInv, NEW f \in Calls, LoaderRejects(f) \/ StoreFulfils(f) \/ StoreRejects(f)
  PROVE  FlightInv'
<1> USE DEF FlightInv
<1>1. /\ flight[f] \in Underway
      /\ slot' = [slot EXCEPT ![KeyOf[f]] = NoCall]
      /\ at' = at /\ hit' = hit /\ joined' = joined /\ dels' = dels
  BY DEF LoaderRejects, StoreFulfils, StoreRejects, End, Underway
<1>2. PICK s \in {"done", "rejected"} : flight' = [flight EXCEPT ![f] = s]
  BY DEF LoaderRejects, StoreFulfils, StoreRejects, End
<1>3. present' \subseteq Keys
  BY DEF LoaderRejects, StoreFulfils, StoreRejects, FlightTypeOK
<1>4. KeyOf[f] \in Keys BY FlightAssumption
<1>5. FlightTypeOK'
  BY <1>1, <1>2, <1>3, <1>4 DEF FlightTypeOK, Underway, Settled
<1>6. SlotUnderway'
  <2>1. SUFFICES ASSUME NEW k \in Keys, slot'[k] # NoCall
                 PROVE  flight'[slot'[k]] \in Underway \cup {"threw"}
    BY DEF SlotUnderway
  <2>2. slot'[k] = slot[k] /\ k # KeyOf[f] /\ slot[k] \in Calls
    BY <2>1, <1>1, <1>4 DEF FlightTypeOK
  <2>3. slot[k] # f BY <2>1, <2>2 DEF FlightTypeOK
  <2>4. QED BY <2>1, <2>2, <2>3, <1>2 DEF FlightTypeOK, SlotUnderway
<1>7. \A e \in Calls : flight'[e] \in Underway => e # f /\ flight[e] \in Underway
  BY <1>2 DEF FlightTypeOK, Underway
<1>8. ASSUME NEW k \in Keys PROVE Cardinality(Orphans(k)') <= Cardinality(Orphans(k))
  <2>1. CASE k # KeyOf[f] \/ slot[k] = f
    <3>1. Orphans(k)' \subseteq Orphans(k)
      BY <2>1, <1>1, <1>4, <1>7, <1>8 DEF Orphans, Loaders, FlightTypeOK
    <3>2. QED BY <3>1, <1>8, LoadersFinite, FS_Subset
  <2>2. CASE k = KeyOf[f] /\ slot[k] # f
    <3>1. f \in Orphans(k) BY <2>2, <1>1 DEF Orphans, Loaders
    <3>2. Orphans(k)' \subseteq (Orphans(k) \ {f}) \cup {slot[k]}
      BY <1>7 DEF Orphans, Loaders
    <3>3. QED BY <3>1, <3>2, <1>8, LoadersFinite, Replaced
  <2>3. QED BY <2>1, <2>2
<1>9. OrphansBounded'
  <2>1. SUFFICES ASSUME NEW k \in Keys PROVE Cardinality(Orphans(k)') <= dels[k]
    BY <1>1 DEF OrphansBounded
  <2>2. IsFiniteSet(Orphans(k)')
    <3>1. Orphans(k)' \subseteq Calls BY DEF Orphans, Loaders
    <3>2. QED BY <3>1, FS_Subset, FlightAssumption
  <2>3. Cardinality(Orphans(k)') \in Nat /\ Cardinality(Orphans(k)) \in Nat
    BY <2>1, <2>2, LoadersFinite, FS_CardinalityType
  <2>4. QED BY <2>1, <2>3, <1>8 DEF OrphansBounded, FlightTypeOK
<1>10. QED BY <1>5, <1>6, <1>9

\* A deletion takes the flight out of the slot: one orphan more at most.
LEMMA DeletedKey ==
  ASSUME FlightInv, flight' = flight, NEW k \in Keys, dels'[k] = dels[k] + 1
  PROVE  Cardinality(Orphans(k)') <= dels'[k]
<1>1. Orphans(k)' \subseteq Orphans(k) \cup {slot[k]}
  BY DEF Orphans, Loaders
<1>2. /\ Cardinality(Orphans(k)') <= Cardinality(Orphans(k)) + 1
      /\ Cardinality(Orphans(k)') \in Nat
      /\ Cardinality(Orphans(k)) \in Nat
  BY <1>1, LoadersFinite, OneMore
<1>3. QED BY <1>2 DEF FlightInv, OrphansBounded, FlightTypeOK

LEMMA DelStep == ASSUME FlightInv, NEW k \in Keys, Del(k) PROVE FlightInv'
<1> USE DEF FlightInv
<1>1. /\ slot' = [slot EXCEPT ![k] = NoCall]
      /\ present' = present \ {k}
      /\ dels' = [dels EXCEPT ![k] = @ + 1]
      /\ flight' = flight /\ at' = at /\ hit' = hit /\ joined' = joined
  BY DEF Del
<1>2. FlightTypeOK' BY <1>1 DEF FlightTypeOK
<1>3. SlotUnderway' BY <1>1 DEF FlightTypeOK, SlotUnderway
<1>4. OrphansBounded'
  <2>1. SUFFICES ASSUME NEW j \in Keys PROVE Cardinality(Orphans(j)') <= dels'[j]
    BY DEF OrphansBounded
  <2>2. CASE j = k BY <2>2, <1>1, DeletedKey DEF FlightTypeOK
  <2>3. CASE j # k
    <3>1. Orphans(j)' = Orphans(j) /\ dels'[j] = dels[j]
      BY <2>1, <2>3, <1>1 DEF Orphans, Loaders, FlightTypeOK
    <3>2. QED BY <2>1, <3>1 DEF OrphansBounded
  <2>4. QED BY <2>2, <2>3
<1>5. QED BY <1>2, <1>3, <1>4

LEMMA ClearStep == ASSUME FlightInv, Clear PROVE FlightInv'
<1> USE DEF FlightInv
<1>1. /\ slot' = [k \in Keys |-> NoCall]
      /\ present' = {}
      /\ dels' = [k \in Keys |-> dels[k] + 1]
      /\ flight' = flight /\ at' = at /\ hit' = hit /\ joined' = joined
  BY DEF Clear
<1>2. FlightTypeOK' BY <1>1 DEF FlightTypeOK
<1>3. SlotUnderway' BY <1>1 DEF SlotUnderway
<1>4. \A k \in Keys : dels'[k] = dels[k] + 1 BY <1>1
<1>5. OrphansBounded' BY <1>1, <1>4, DeletedKey DEF OrphansBounded
<1>6. QED BY <1>2, <1>3, <1>5

LEMMA EntryStep == ASSUME FlightInv, NEW k \in Keys, Put(k) \/ Drop(k) PROVE FlightInv'
<1>1. /\ present' \subseteq Keys
      /\ slot' = slot /\ flight' = flight /\ at' = at /\ hit' = hit
      /\ joined' = joined /\ dels' = dels
  BY DEF Put, Drop, FlightInv, FlightTypeOK
<1>2. FlightTypeOK' BY <1>1 DEF FlightInv, FlightTypeOK
<1>3. SlotUnderway' BY <1>1 DEF FlightInv, SlotUnderway
<1>4. \A j \in Keys : Orphans(j)' \subseteq Orphans(j) BY <1>1 DEF Orphans, Loaders
<1>5. QED BY <1>1, <1>2, <1>3, <1>4, NoNewOrphan DEF FlightInv

LEMMA FlightNextInv == FlightInv /\ [FlightNext]_flightVars => FlightInv'
<1>1. SUFFICES ASSUME FlightInv, [FlightNext]_flightVars PROVE FlightInv' OBVIOUS
<1>2. CASE UNCHANGED flightVars
  <2>1. slot' = slot /\ flight' = flight /\ dels' = dels /\ present' = present
        /\ at' = at /\ hit' = hit /\ joined' = joined
    BY <1>2 DEF flightVars
  <2>2. FlightTypeOK' /\ SlotUnderway'
    BY <1>1, <2>1 DEF FlightInv, FlightTypeOK, SlotUnderway
  <2>3. \A j \in Keys : Orphans(j)' \subseteq Orphans(j) BY <2>1 DEF Orphans, Loaders
  <2>4. QED BY <1>1, <2>1, <2>2, <2>3, NoNewOrphan DEF FlightInv
<1>3. CASE FlightNext
  BY <1>1, <1>3, QuietStep, StartStep, LoaderFulfilsStep, EndStep, DelStep,
     ClearStep, EntryStep DEF FlightNext, Proceed
<1>4. QED BY <1>1, <1>2, <1>3

THEOREM FlightInvariant == FlightSpec => []FlightInv
BY FlightInitInv, FlightNextInv, PTL DEF FlightSpec

\* The orphans and the flight in the slot are all the loaders there are.
LEMMA BoundFromOrphans == FlightInv => LoadersBounded
<1>1. SUFFICES ASSUME FlightInv, NEW k \in Keys PROVE Cardinality(Loaders(k)) <= 1 + dels[k]
  BY DEF LoadersBounded
<1>2. Loaders(k) \subseteq Orphans(k) \cup {slot[k]} BY DEF Orphans
<1>3. /\ Cardinality(Loaders(k)) <= Cardinality(Orphans(k)) + 1
      /\ Cardinality(Loaders(k)) \in Nat
      /\ Cardinality(Orphans(k)) \in Nat
  BY <1>1, <1>2, LoadersFinite, OneMore
<1>4. QED BY <1>1, <1>3 DEF FlightInv, OrphansBounded, FlightTypeOK

\* withStampede() never has more loaders of a key underway than one and one for
\* every del() or clear() of it.
THEOREM LoadersAlwaysBounded == FlightSpec => []LoadersBounded
BY FlightInvariant, BoundFromOrphans, PTL

\* A slot never holds a flight that has ended, unless its loader threw at once.
THEOREM SlotAlwaysUnderway == FlightSpec => []SlotUnderway
BY FlightInvariant, PTL DEF FlightInv

\* Flights are shared up to one per deletion, through slots that stay good, for
\* every set of calls and keys.
THEOREM FlightsAlwaysShared == FlightSpec => []FlightsShared
<1>1. FlightInv => FlightsShared BY BoundFromOrphans DEF FlightInv, FlightsShared
<1>2. QED BY <1>1, FlightInvariant, PTL

-----------------------------------------------------------------------------
(***************************************************************************)
(* The idempotency store.  That no known request runs again is not         *)
(* inductive: it needs to know what the store still holds for a key that   *)
(* has not lapsed, and what a request found when it came in.               *)
(***************************************************************************)

Stages == {"new", "looking", "replayed", "conflict", "running", "reading", "unstored", "done"}

IdemShape ==
  /\ response \in [Tokens -> Posts \cup {NoPost}]
  /\ left \in [Tokens -> 0..KeepFor]
  /\ stage \in [Posts -> Stages]
  /\ found \in [Posts -> Posts \cup {NoPost}]
  /\ earlier \in [Posts -> SUBSET Posts]
  /\ recorded \subseteq Posts /\ ran \subseteq Posts /\ lapsed \subseteq Tokens

\* What a request found was stored under its own key, and decides what becomes
\* of it.
FoundDecides ==
  \A p \in Posts :
    /\ found[p] # NoPost => TokenOf[found[p]] = TokenOf[p]
    /\ stage[p] = "new" => earlier[p] = {}
    /\ stage[p] = "replayed" =>
         found[p] # NoPost /\ FingerprintOf[found[p]] = FingerprintOf[p]
    /\ p \in ran => found[p] = NoPost

\* A key of which a response was stored and none has lapsed still has one.
StillHeld ==
  \A q \in recorded : TokenOf[q] \notin lapsed =>
    left[TokenOf[q]] > 0 /\ response[TokenOf[q]] # NoPost

\* A request that came in later has found it.
SeenByLater ==
  \A p \in Posts : \A q \in earlier[p] :
    TokenOf[q] = TokenOf[p] /\ TokenOf[p] \notin lapsed => found[p] # NoPost

IdemInv == IdemShape /\ IdemTypeOK /\ FoundDecides /\ StillHeld /\ SeenByLater

LEMMA IdemTypes ==
  ASSUME NEW p \in Posts PROVE TokenOf[p] \in Tokens
BY DEF Tokens

LEMMA IdemInitInv == IdemInit => IdemInv
BY IdempotencyAssumption
   DEF IdemInit, IdemInv, IdemShape, IdemTypeOK, FoundDecides, StillHeld, SeenByLater, Stages

\* The store looks a key up, and drops what has expired: a key that has not
\* lapsed keeps what it holds.
LEMMA ReceiveStep == ASSUME IdemInv, NEW p \in Posts, Receive(p) PROVE IdemInv'
<1> DEFINE k == TokenOf[p]
           kept == IF left[k] > 0 THEN response[k] ELSE NoPost
<1> USE DEF IdemInv
<1>1. /\ stage[p] = "new" /\ k \in Tokens
      /\ stage' = [stage EXCEPT ![p] = "looking"]
      /\ found' = [found EXCEPT ![p] = kept]
      /\ response' = [response EXCEPT ![k] = kept]
      /\ earlier' = [earlier EXCEPT ![p] = recorded]
      /\ UNCHANGED <<left, recorded, ran, lapsed>>
  BY IdemTypes DEF Receive
<1>2. /\ kept \in Posts \cup {NoPost}
      /\ kept # NoPost => kept = response[k] /\ kept \in recorded /\ TokenOf[kept] = k
      /\ \A q \in recorded : TokenOf[q] = k /\ k \notin lapsed => kept # NoPost
  BY <1>1 DEF IdemShape, IdemTypeOK, StillHeld
<1> HIDE DEF kept
<1>3. IdemShape' BY <1>1, <1>2 DEF IdemShape, Stages
<1>4. p \notin ran /\ p \notin recorded BY <1>1 DEF IdemTypeOK
<1>5. IdemTypeOK'
  <2>1. \A q \in Posts : stage'[q] = IF q = p THEN "looking" ELSE stage[q]
    BY <1>1 DEF IdemShape
  <2>2. \A q \in Posts : /\ q \in ran' <=> stage'[q] \in {"running", "reading", "unstored", "done"}
                         /\ q \in recorded' <=> stage'[q] = "done"
    BY <1>1, <1>4, <2>1 DEF IdemTypeOK
  <2>3. \A q \in Posts : found'[q] \in recorded' \cup {NoPost} /\ earlier'[q] \subseteq recorded'
    BY <1>1, <1>2 DEF IdemShape, IdemTypeOK
  <2>4. \A t \in Tokens :
          /\ left'[t] \in 0..KeepFor
          /\ response'[t] # NoPost => response'[t] \in recorded' /\ TokenOf[response'[t]] = t
    BY <1>1, <1>2 DEF IdemShape, IdemTypeOK
  <2>5. QED BY <2>2, <2>3, <2>4 DEF IdemTypeOK
<1>6. FoundDecides' BY <1>1, <1>2, <1>4 DEF FoundDecides, IdemShape
<1>7. StillHeld' BY <1>1, <1>2 DEF StillHeld, IdemShape, IdemTypeOK
<1>8. SeenByLater' BY <1>1, <1>2 DEF SeenByLater, IdemShape
<1>9. QED BY <1>3, <1>5, <1>6, <1>7, <1>8

\* The steps after the lookup and up to the store touch the stage alone.
LEMMA AnswerStep ==
  ASSUME IdemInv, NEW p \in Posts,
         Replay(p) \/ Conflict(p) \/ Succeed(p) \/ FailPost(p) \/ Oversized(p)
  PROVE  IdemInv'
<1> USE DEF IdemInv
<1>1. PICK s \in Stages \ {"new", "looking", "done"} :
        /\ stage' = [stage EXCEPT ![p] = s]
        /\ stage[p] \in {"looking", "running", "reading"}
        /\ s \in {"running", "reading", "unstored"} <=> stage[p] \in {"running", "reading"}
        /\ s = "replayed" => found[p] # NoPost /\ FingerprintOf[found[p]] = FingerprintOf[p]
  BY DEF Replay, Conflict, Succeed, FailPost, Oversized, Stages
<1>2. UNCHANGED <<response, left, found, recorded, ran, earlier, lapsed>>
  BY DEF Replay, Conflict, Succeed, FailPost, Oversized
<1>3. \A q \in Posts : stage'[q] = IF q = p THEN s ELSE stage[q]
  BY <1>1 DEF IdemShape
<1>4. IdemShape' BY <1>1, <1>2 DEF IdemShape
<1>5. IdemTypeOK'
  <2>1. p \in ran <=> s \in {"running", "reading", "unstored", "done"}
    BY <1>1 DEF IdemTypeOK
  <2>2. p \notin recorded BY <1>1 DEF IdemTypeOK
  <2>3. \A q \in Posts : /\ q \in ran' <=> stage'[q] \in {"running", "reading", "unstored", "done"}
                         /\ q \in recorded' <=> stage'[q] = "done"
    BY <1>1, <1>2, <1>3, <2>1, <2>2 DEF IdemTypeOK
  <2>4. QED BY <1>2, <2>3 DEF IdemTypeOK
<1>6. FoundDecides' BY <1>1, <1>2, <1>3 DEF FoundDecides
<1>7. StillHeld' /\ SeenByLater' BY <1>2 DEF StillHeld, SeenByLater
<1>8. QED BY <1>4, <1>5, <1>6, <1>7

LEMMA ExecuteStep == ASSUME IdemInv, NEW p \in Posts, Execute(p) PROVE IdemInv'
<1> USE DEF IdemInv
<1>1. /\ stage[p] = "looking" /\ found[p] = NoPost
      /\ stage' = [stage EXCEPT ![p] = "running"] /\ ran' = ran \cup {p}
      /\ UNCHANGED <<response, left, found, recorded, earlier, lapsed>>
  BY DEF Execute
<1>2. \A q \in Posts : stage'[q] = IF q = p THEN "running" ELSE stage[q]
  BY <1>1 DEF IdemShape
<1>3. IdemShape' BY <1>1 DEF IdemShape, Stages
<1>4. IdemTypeOK' BY <1>1, <1>2 DEF IdemTypeOK
<1>5. FoundDecides' BY <1>1, <1>2 DEF FoundDecides
<1>6. StillHeld' /\ SeenByLater' BY <1>1 DEF StillHeld, SeenByLater
<1>7. QED BY <1>3, <1>4, <1>5, <1>6

\* The key holds the response of p, whatever it held; only a ttl of 0 makes it
\* lapse at once.
LEMMA StoreStep == ASSUME IdemInv, NEW p \in Posts, StoreResponse(p) PROVE IdemInv'
<1> DEFINE k == TokenOf[p]
<1> USE DEF IdemInv
<1>1. /\ stage[p] = "reading" /\ k \in Tokens
      /\ stage' = [stage EXCEPT ![p] = "done"]
      /\ response' = [response EXCEPT ![k] = p]
      /\ left' = [left EXCEPT ![k] = KeepFor]
      /\ recorded' = recorded \cup {p}
      /\ lapsed' = IF KeepFor = 0 THEN lapsed \cup {k} ELSE lapsed
      /\ UNCHANGED <<found, ran, earlier>>
  BY IdemTypes DEF StoreResponse
<1> HIDE DEF k
<1>2. k = TokenOf[p] BY DEF k
<1>3. \A q \in Posts : stage'[q] = IF q = p THEN "done" ELSE stage[q]
  BY <1>1 DEF IdemShape
<1>4. \A t \in Tokens : /\ response'[t] = IF t = k THEN p ELSE response[t]
                        /\ left'[t] = IF t = k THEN KeepFor ELSE left[t]
  BY <1>1 DEF IdemShape
<1>5. IdemShape' BY <1>1, IdempotencyAssumption DEF IdemShape, Stages
<1>6. IdemTypeOK' BY <1>1, <1>2, <1>3, <1>4, IdempotencyAssumption DEF IdemTypeOK
<1>7. FoundDecides' BY <1>1, <1>3 DEF FoundDecides
<1>8. StillHeld'
  <2>1. SUFFICES ASSUME NEW q \in recorded', TokenOf[q] \notin lapsed'
                 PROVE  left'[TokenOf[q]] > 0 /\ response'[TokenOf[q]] # NoPost
    BY DEF StillHeld
  <2>2. q \in Posts /\ TokenOf[q] \in Tokens BY <1>1, IdemTypes DEF IdemShape
  <2>3. CASE TokenOf[q] = k
    <3>1. KeepFor > 0 BY <1>1, <2>1, <2>3, IdempotencyAssumption
    <3>2. QED BY <1>4, <2>2, <2>3, <3>1, IdempotencyAssumption
  <2>4. CASE TokenOf[q] # k
    <3>1. q \in recorded /\ TokenOf[q] \notin lapsed BY <1>1, <1>2, <2>1, <2>4
    <3>2. QED BY <1>4, <2>2, <2>4, <3>1 DEF StillHeld
  <2>5. QED BY <2>3, <2>4
<1>9. SeenByLater' BY <1>1 DEF SeenByLater
<1>10. QED BY <1>5, <1>6, <1>7, <1>8, <1>9

LEMMA IdemTickStep == ASSUME IdemInv, IdemTick PROVE IdemInv'
<1> USE DEF IdemInv
<1>1. /\ left' = [t \in Tokens |-> IF left[t] = 0 THEN 0 ELSE left[t] - 1]
      /\ lapsed' = lapsed \cup {t \in Tokens : left[t] = 1}
      /\ UNCHANGED <<response, stage, found, recorded, ran, earlier>>
  BY DEF IdemTick
<1>2. \A t \in Tokens : left[t] \in 0..KeepFor /\ left'[t] \in 0..KeepFor
  BY <1>1, IdempotencyAssumption DEF IdemShape
<1>3. IdemShape' BY <1>1, <1>2 DEF IdemShape
<1>4. IdemTypeOK' BY <1>1, <1>2 DEF IdemTypeOK
<1>5. FoundDecides' BY <1>1 DEF FoundDecides
<1>6. StillHeld'
  <2>1. SUFFICES ASSUME NEW q \in recorded, TokenOf[q] \notin lapsed'
                 PROVE  left'[TokenOf[q]] > 0 /\ response[TokenOf[q]] # NoPost
    BY <1>1 DEF StillHeld
  <2>2. TokenOf[q] \in Tokens BY IdemTypes DEF IdemShape
  <2>3. left[TokenOf[q]] > 0 /\ left[TokenOf[q]] # 1 /\ response[TokenOf[q]] # NoPost
    BY <1>1, <2>1, <2>2 DEF StillHeld
  <2>4. QED BY <1>1, <1>2, <2>2, <2>3
<1>7. SeenByLater' BY <1>1 DEF SeenByLater
<1>8. QED BY <1>3, <1>4, <1>5, <1>6, <1>7

LEMMA IdemNextInv == IdemInv /\ [IdemNext]_idemVars => IdemInv'
<1>1. SUFFICES ASSUME IdemInv, [IdemNext]_idemVars PROVE IdemInv' OBVIOUS
<1>2. CASE UNCHANGED idemVars
  BY <1>1, <1>2 DEF idemVars, IdemInv, IdemShape, IdemTypeOK, FoundDecides, StillHeld, SeenByLater
<1>3. CASE IdemNext
  BY <1>1, <1>3, ReceiveStep, AnswerStep, ExecuteStep, StoreStep, IdemTickStep DEF IdemNext
<1>4. QED BY <1>1, <1>2, <1>3

THEOREM IdemInvariant == IdemSpec => []IdemInv
BY IdemInitInv, IdemNextInv, PTL DEF IdemSpec

\* Whatever requests race for a key and whichever stores last: a response is
\* replayed to requests of its key and fingerprint alone, and once one was
\* stored no later request of the key runs until one has lapsed.
THEOREM ReplaysAlwaysRight == IdemSpec => []ReplaysRight
<1>1. IdemInv => ReplaysMatch BY DEF IdemInv, FoundDecides, ReplaysMatch
<1>2. IdemInv => NeverRunAgain BY DEF IdemInv, FoundDecides, SeenByLater, NeverRunAgain
<1>3. IdemInv => ReplaysRight BY <1>1, <1>2 DEF IdemInv, ReplaysRight
<1>4. QED BY <1>3, IdemInvariant, PTL

-----------------------------------------------------------------------------
(***************************************************************************)
(* Sessions.  That every record belongs to someone is not inductive, for a *)
(* request that ends has to have dropped what it replaced: the invariant   *)
(* says how a request that met no other one came and what it has done so   *)
(* far, that browsers share no ids, and that no record outlives the cookie *)
(* that names it.  For a browser that sends one request after the other it *)
(* says that what it was told is in the store, or in its cookie, until it  *)
(* is over.                                                                *)
(***************************************************************************)

Phases == {"new", "verifying", "handling", "setting", "orphaning", "signing", "destroying",
           "destroyingFirst", "clearing", "done"}

\* A request is in one of the first two or in the last, or has a session.
Idle == {"new", "verifying", "done"}

Writing == {"orphaning", "signing"}

Held == Contents \cup {Empty}

CookieType == [id : Nat, data : Held, exp : Nat]

NoteType == [data : Visits \cup {Empty}, until : Nat]

VisitType ==
  [phase : Phases, cookie : CookieType, first : Nat, id : Nat, snapshot : Held,
   data : Visits \cup {Empty}, responds : BOOLEAN]

SessionTypeOK ==
  /\ browserOf \in [Visits -> Browsers] /\ stored \in BOOLEAN
  /\ sessionClock \in Nat /\ sids \in Nat
  /\ objects \in [Visits -> Held]
  /\ jar \in [Browsers -> CookieType]
  /\ visits \in [Visits -> VisitType]
  /\ told \in [Browsers -> NoteType]
  /\ crossed \subseteq Visits /\ stranded \subseteq Nat

\* Only requests of a session with a store touch the records, whose ids were
\* generated, and no record outlives MaxAge.
RecordsOK ==
  /\ ~stored => IdsKept = {}
  /\ \A v \in Visits : visits[v].phase \in {"setting", "orphaning", "destroying", "destroyingFirst"}
       => stored
  /\ \A i \in IdsKept :
       /\ i \in 1..sids /\ records[i].data \in Visits
       /\ records[i].exp \in Nat /\ records[i].exp <= sessionClock + MaxAge

\* The ids that a browser has to do with, through its cookie or its requests.
Uses(b, i) ==
  /\ i # 0
  /\ \/ jar[b].id = i
     \/ \E v \in Visits : browserOf[v] = b /\ i \in {visits[v].cookie.id, visits[v].first, visits[v].id}

\* No id is used by two browsers, and all were generated.
IdsOwned ==
  /\ \A b \in Browsers : \A i \in Nat : Uses(b, i) => i <= sids
  /\ \A b, c \in Browsers : \A i \in Nat : Uses(b, i) /\ Uses(c, i) => b = c

\* A cookie that is not over has an id, and so has every session.
CookiesNamed ==
  /\ \A b \in Browsers : jar[b].exp > 0 => jar[b].id # 0
  /\ \A v \in Visits :
       /\ visits[v].cookie.exp > 0 => visits[v].cookie.id # 0
       /\ visits[v].phase \notin Idle => visits[v].id # 0

\* Every session has an object.  Without a store no other request has it, and a
\* browser was told the object of a request that has ended.
ObjectsOK ==
  /\ \A v \in Visits :
       visits[v].phase \notin Idle => visits[v].data \in Visits /\ (~stored => visits[v].data = v)
  /\ \A b \in Browsers :
       told[b].until > 0 =>
         told[b].data \in Visits /\ (~stored => visits[told[b].data].phase = "done")

\* The one request of an undisturbed browser, and what it has written.
RequestOK(v) ==
  /\ visits[v].phase = "verifying" => visits[v].cookie = jar[browserOf[v]]
  /\ visits[v].phase # "verifying" => visits[v].responds = TRUE
  /\ visits[v].phase \in Writing /\ visits[v].id \in IdsKept =>
       records[visits[v].id].data = visits[v].data

\* Whether a request has begun to replace what its browser was told.
Replacing(v) ==
  visits[v].phase \in {"orphaning", "destroying", "destroyingFirst", "clearing", "signing"}

\* The store, or the cookie, has what the browser was told, as long.
Remembered(b) ==
  LET id == jar[b].id
  IN IF stored
     THEN /\ told[b].until > sessionClock =>
               id \in IdsKept /\ told[b].until <= jar[b].exp
          /\ id \in IdsKept /\ (records[id].exp > sessionClock \/ told[b].until > sessionClock) =>
               records[id].exp = told[b].until /\ records[id].data = told[b].data
     ELSE jar[b].exp > sessionClock \/ told[b].until > sessionClock =>
            jar[b].exp = told[b].until /\ jar[b].data = objects[told[b].data]

BrowserOK(b) ==
  b \notin disturbed =>
    /\ \A v, w \in Open(b) : v = w
    /\ \A v \in Open(b) : RequestOK(v)
    /\ Remembered(b) \/ (stored /\ \E v \in Open(b) : Replacing(v))

\* The record that a cookie names is over when the cookie is, unless it was left
\* behind or is being written.
JarOK(b) ==
  LET own == jar[b].id
  IN own \in IdsKept =>
       \/ records[own].exp <= jar[b].exp
       \/ own \in stranded
       \/ \E v \in Open(b) : visits[v].phase \in Writing /\ visits[v].id = own

\* A request that met no other one: it came with the cookie that its browser still
\* has, and when it ends the record of that cookie is gone, over or left behind.
Lone(v) ==
  LET own == jar[browserOf[v]].id
      first == visits[v].first
  IN IF visits[v].phase = "verifying" THEN visits[v].cookie = jar[browserOf[v]]
     ELSE /\ first \in {0, own}
          /\ first = 0 =>
               /\ visits[v].id # own
               /\ own \in IdsKept => records[own].exp <= sessionClock \/ own \in stranded
          /\ visits[v].phase = "signing" /\ first \in IdsKept =>
               first = visits[v].id \/ first \in stranded
          /\ visits[v].phase = "clearing" /\ first \in IdsKept => first \in stranded

Meeting(v, w) ==
  v # w /\ browserOf[v] = browserOf[w] /\ {visits[v].phase, visits[w].phase} \cap {"new", "done"} = {}

RequestsOK ==
  /\ \A v, w \in Visits : Meeting(v, w) => v \in crossed
  /\ \A v \in Visits : visits[v].phase \notin {"new", "done"} /\ v \notin crossed => Lone(v)

SessionInv ==
  /\ SessionTypeOK /\ RecordsOK /\ IdsOwned /\ CookiesNamed /\ ObjectsOK /\ RequestsOK
  /\ \A b \in Browsers : BrowserOK(b) /\ JarOK(b)
  /\ NoOrphans

-----------------------------------------------------------------------------

LEMMA SessionInitInv == SessionInit => SessionInv
<1> SUFFICES ASSUME SessionInit PROVE SessionInv
  OBVIOUS
<1>1. /\ browserOf \in [Visits -> Browsers] /\ stored \in BOOLEAN
      /\ sessionClock = 0 /\ sids = 0 /\ IdsKept = {} /\ disturbed = {}
      /\ crossed = {} /\ stranded = {}
      /\ \A v \in Visits : visits[v] = NoVisit("new")
      /\ \A b \in Browsers : jar[b] = NoCookie /\ told[b] = [data |-> Empty, until |-> 0]
  BY SessionAssumption DEF SessionInit, IdsKept
<1>2. NoCookie \in CookieType /\ Empty \in Held
  BY DEF NoCookie, CookieType, Held
<1>3. SessionTypeOK
  <2>1. NoVisit("new") \in VisitType
    BY <1>2 DEF NoVisit, VisitType, Phases, Held
  <2>2. [data |-> Empty, until |-> 0] \in NoteType
    BY DEF NoteType
  <2> QED
    BY <1>1, <1>2, <2>1, <2>2 DEF SessionInit, SessionTypeOK
<1>4. \A v \in Visits : visits[v].phase = "new"
  BY <1>1 DEF NoVisit
<1>5. RecordsOK
  BY <1>1, <1>4 DEF RecordsOK
<1>6. /\ \A b \in Browsers : \A i \in Nat : ~Uses(b, i)
      /\ \A b \in Browsers : Open(b) = {}
  BY <1>1 DEF Uses, NoVisit, NoCookie, Open
<1>7. CookiesNamed
  BY <1>1 DEF CookiesNamed, NoCookie, NoVisit, Idle
<1>8. ObjectsOK
  BY <1>1, <1>4 DEF ObjectsOK, Idle
<1>9. RequestsOK
  BY <1>4 DEF RequestsOK, Meeting
<1>10. ASSUME NEW b \in Browsers PROVE BrowserOK(b) /\ JarOK(b)
  <2>1. Remembered(b)
    BY <1>1 DEF Remembered, NoCookie
  <2> QED
    BY <1>1, <1>6, <2>1 DEF BrowserOK, JarOK
<1> QED
  BY <1>1, <1>3, <1>5, <1>6, <1>7, <1>8, <1>9, <1>10 DEF SessionInv, IdsOwned, NoOrphans

\* What every step of a request leaves alone: other requests and browsers, and
\* of the records all but its own, unless it evicts one and disturbs its browser.
StepBy(v) ==
  /\ UNCHANGED <<browserOf, stored, sessionClock>>
  /\ \A w \in Visits \ {v} : visits'[w] = visits[w]
  /\ \A b \in Browsers \ {browserOf[v]} : jar'[b] = jar[b] /\ told'[b] = told[b]
  /\ disturbed \subseteq disturbed' /\ crossed \subseteq crossed' /\ stranded \subseteq stranded'
  /\ sids' = sids \/ sids' = sids + 1
  /\ jar'[browserOf[v]].id \in {0, jar[browserOf[v]].id, visits[v].id}
  /\ \A i \in {visits'[v].cookie.id, visits'[v].first, visits'[v].id} :
       \/ i \in {0, jar[browserOf[v]].id, visits[v].cookie.id, visits[v].first, visits[v].id}
       \/ i = sids + 1 /\ sids' = sids + 1
  /\ \A i \in IdsKept' : i # visits[v].id => i \in IdsKept /\ records'[i] = records[i]
  /\ \A b \in Browsers \ {browserOf[v]} :
       Live(jar[b].id) /\ jar[b].id \notin IdsKept' => b \in disturbed'
  /\ ~stored => \A w \in Visits \ {v} : objects'[w] = objects[w]

\* What a step does for its own browser and request.
OwnKept(v) ==
  browserOf[v] \notin disturbed' =>
    /\ visits'[v].phase # "done" => RequestOK(v)'
    /\ (Remembered(browserOf[v])' \/ (stored' /\ visits'[v].phase # "done" /\ Replacing(v)'))

LoneKept(v) == visits'[v].phase # "done" /\ v \notin crossed' => Lone(v)'

ObjectKept(v) ==
  /\ visits'[v].phase \notin Idle =>
       visits'[v].data \in Visits /\ (~stored => visits'[v].data = v)
  /\ \/ told'[browserOf[v]] = told[browserOf[v]]
     \/ told'[browserOf[v]].until > 0 =>
          told'[browserOf[v]].data \in Visits /\ (~stored => visits'[told'[browserOf[v]].data].phase = "done")

\* No record that a step concerns loses what it belongs to.
Covering(v) ==
  LET before == jar[browserOf[v]]
      after == jar'[browserOf[v]]
      id == visits[v].id
  IN /\ \A i \in IdsKept' :
          \/ i \in IdsKept /\ records'[i] = records[i]
          \/ visits'[v].phase \in Writing /\ i = visits'[v].id
     /\ visits[v].phase \in Writing /\ id \in IdsKept' =>
          \/ visits'[v].phase \in Writing /\ visits'[v].id = id
          \/ id \in stranded'
          \/ after.id = id /\ records'[id].exp <= after.exp
     /\ before.id \in IdsKept' =>
          after.id = before.id \/ before.id \in stranded' \/ records'[before.id].exp <= sessionClock
     /\ after.id \in IdsKept' => after = before \/ records'[after.id].exp <= after.exp

LEMMA StepOwns ==
  ASSUME SessionInv, NEW v \in Visits, StepBy(v), SessionTypeOK'
  PROVE  IdsOwned'
<1>1. /\ browserOf' = browserOf /\ browserOf[v] \in Browsers
      /\ sids \in Nat /\ sids' \in Nat /\ sids <= sids'
      /\ \A w \in Visits : w # v => visits'[w] = visits[w]
      /\ \A b \in Browsers : b # browserOf[v] => jar'[b] = jar[b]
  BY DEF SessionInv, SessionTypeOK, StepBy
<1>2. ASSUME NEW b \in Browsers, NEW i \in Nat, Uses(b, i)'
      PROVE  Uses(b, i) \/ (b = browserOf[v] /\ i = sids + 1 /\ sids' = sids + 1)
  <2>1. i # 0
    BY <1>2 DEF Uses
  <2>2. CASE jar'[b].id = i
    <3>1. CASE b # browserOf[v]
      BY <1>1, <2>1, <2>2, <3>1 DEF Uses
    <3>2. CASE b = browserOf[v]
      BY <2>1, <2>2, <3>2 DEF Uses, StepBy
    <3> QED
      BY <3>1, <3>2
  <2>3. ASSUME NEW w \in Visits, browserOf[w] = b,
               i \in {visits'[w].cookie.id, visits'[w].first, visits'[w].id}
        PROVE  Uses(b, i) \/ (b = browserOf[v] /\ i = sids + 1 /\ sids' = sids + 1)
    <3>1. CASE w # v
      BY <1>1, <2>1, <2>3, <3>1 DEF Uses
    <3>2. CASE w = v
      BY <2>1, <2>3, <3>2 DEF Uses, StepBy
    <3> QED
      BY <3>1, <3>2
  <2> QED
    BY <1>1, <1>2, <2>2, <2>3 DEF Uses
<1>3. /\ \A b \in Browsers : \A i \in Nat : Uses(b, i) => i <= sids
      /\ \A b, c \in Browsers : \A i \in Nat : Uses(b, i) /\ Uses(c, i) => b = c
  BY DEF SessionInv, IdsOwned
<1>4. ASSUME NEW b \in Browsers, NEW i \in Nat, Uses(b, i)' PROVE i <= sids'
  BY <1>1, <1>2, <1>3, <1>4
<1>5. ASSUME NEW b \in Browsers, NEW c \in Browsers, NEW i \in Nat, Uses(b, i)', Uses(c, i)'
      PROVE  b = c
  <2>1. i = sids + 1 => ~Uses(b, i) /\ ~Uses(c, i)
    BY <1>1, <1>3
  <2> QED
    BY <1>2, <1>3, <1>5, <2>1
<1> QED
  BY <1>4, <1>5 DEF IdsOwned


LEMMA StepFacts ==
  ASSUME SessionInv, NEW v \in Visits, StepBy(v)
  PROVE  /\ browserOf' = browserOf /\ stored' = stored /\ sessionClock' = sessionClock
         /\ \A w \in Visits : w # v => visits'[w] = visits[w]
         /\ \A b \in Browsers : b # browserOf[v] => jar'[b] = jar[b] /\ told'[b] = told[b]
         /\ disturbed \subseteq disturbed' /\ crossed \subseteq crossed' /\ stranded \subseteq stranded'
         /\ sessionClock \in Nat /\ browserOf[v] \in Browsers
         /\ \A b \in Browsers : jar[b].id \in Nat
         /\ \A w \in Visits : visits[w].id \in Nat /\ visits[w].first \in Nat /\ browserOf[w] \in Browsers
  BY DEF StepBy, SessionInv, SessionTypeOK, CookieType, VisitType

\* Of the records that another browser or request has to do with a step drops
\* some, and changes none.
LEMMA OthersRecords ==
  ASSUME SessionInv, NEW v \in Visits, StepBy(v), SessionTypeOK', RecordsOK',
         NEW b \in Browsers, b # browserOf[v],
         NEW i \in IdsKept', Uses(b, i) \/ i = jar[b].id
  PROVE  i \in IdsKept /\ records'[i] = records[i]
<1>1. i \in Nat /\ i # 0
  <2>1. sids' \in Nat /\ i \in 1..sids'
    BY DEF SessionTypeOK, RecordsOK
  <2> QED
    BY <2>1
<1>2. Uses(b, i)
  BY <1>1 DEF Uses
<1>3. i # visits[v].id
  BY <1>1, <1>2 DEF SessionInv, IdsOwned, Uses, SessionTypeOK
<1> QED
  BY <1>3 DEF StepBy

\* A browser that a step is not about keeps what it was told.
LEMMA OthersKept ==
  ASSUME SessionInv, NEW v \in Visits, visits[v].phase # "done",
         StepBy(v), SessionTypeOK', RecordsOK',
         NEW b \in Browsers, b # browserOf[v]
  PROVE  BrowserOK(b)'
<1> SUFFICES ASSUME b \notin disturbed'
             PROVE  /\ \A w, u \in Open(b)' : w = u
                    /\ \A w \in Open(b)' : RequestOK(w)'
                    /\ (Remembered(b)' \/ (stored' /\ \E w \in Open(b)' : Replacing(w)'))
  BY DEF BrowserOK
<1>1. /\ browserOf' = browserOf /\ stored' = stored /\ sessionClock' = sessionClock
      /\ \A w \in Visits : w # v => visits'[w] = visits[w]
      /\ jar'[b] = jar[b] /\ told'[b] = told[b] /\ b \notin disturbed
  BY StepFacts
<1>2. /\ Open(b)' = Open(b)
      /\ \A w \in Open(b) : w \in Visits /\ browserOf[w] = b /\ visits'[w] = visits[w]
  BY <1>1 DEF Open
<1>3. BrowserOK(b)
  BY DEF SessionInv
<1>4. jar[b].id \in IdsKept' => jar[b].id \in IdsKept /\ records'[jar[b].id] = records[jar[b].id]
  BY OthersRecords
<1>5. ASSUME NEW w \in Open(b) PROVE RequestOK(w)'
  <2>1. RequestOK(w)
    BY <1>1, <1>3, <1>5 DEF BrowserOK
  <2>2. visits[w].id \in IdsKept' =>
          visits[w].id \in IdsKept /\ records'[visits[w].id] = records[visits[w].id]
    <3> SUFFICES ASSUME visits[w].id \in IdsKept'
                 PROVE  visits[w].id \in IdsKept /\ records'[visits[w].id] = records[visits[w].id]
      OBVIOUS
    <3>1. visits[w].id # 0
      <4>1. sids' \in Nat /\ visits[w].id \in 1..sids'
        BY DEF SessionTypeOK, RecordsOK
      <4> QED
        BY <4>1
    <3>2. Uses(b, visits[w].id)
      BY <1>2, <1>5, <3>1 DEF Uses
    <3> QED
      BY <3>2, OthersRecords
  <2>3. visits'[w] = visits[w] /\ browserOf'[w] = b /\ browserOf[w] = b /\ jar'[b] = jar[b]
    BY <1>1, <1>2, <1>5
  <2> QED
    BY <2>1, <2>2, <2>3 DEF RequestOK
<1>6. Remembered(b) => Remembered(b)'
  <2>1. Live(jar[b].id) => jar[b].id \in IdsKept'
    BY DEF StepBy
  <2>2. jar[b].exp \in Nat /\ told[b].until \in Nat /\ sessionClock \in Nat
    BY DEF SessionInv, SessionTypeOK, CookieType, NoteType
  <2>3. CASE stored
    BY <1>1, <1>4, <2>1, <2>2, <2>3 DEF Remembered, Live
  <2>4. CASE ~stored
    <3>1. told[b].until > 0 => objects'[told[b].data] = objects[told[b].data]
      <4>1. told[b].until > 0 => told[b].data \in Visits \ {v}
        BY <2>4 DEF SessionInv, ObjectsOK
      <4> QED
        BY <2>4, <4>1 DEF StepBy
    <3>2. SUFFICES ASSUME Remembered(b), jar[b].exp > sessionClock \/ told[b].until > sessionClock
                   PROVE  jar[b].exp = told[b].until /\ jar[b].data = objects'[told[b].data]
      BY <1>1, <2>4 DEF Remembered
    <3>3. jar[b].exp = told[b].until /\ jar[b].data = objects[told[b].data]
      BY <2>4, <3>2 DEF Remembered
    <3>4. told[b].until > 0
      BY <2>2, <3>2, <3>3
    <3> QED
      BY <3>1, <3>3, <3>4
  <2> QED
    BY <2>3, <2>4, <1>1
<1> QED
  BY <1>1, <1>2, <1>3, <1>5, <1>6 DEF BrowserOK, Replacing

\* The record that a cookie names is covered after every step.
LEMMA JarsKept ==
  ASSUME SessionInv, NEW v \in Visits, visits[v].phase # "done", visits'[v].phase # "new",
         StepBy(v), SessionTypeOK', RecordsOK', Covering(v),
         NEW b \in Browsers
  PROVE  JarOK(b)'
<1> DEFINE own == jar'[b].id
<1> SUFFICES ASSUME own \in IdsKept'
             PROVE  \/ records'[own].exp <= jar'[b].exp
                    \/ own \in stranded'
                    \/ \E w \in Open(b)' : visits'[w].phase \in Writing /\ visits'[w].id = own
  BY DEF JarOK
<1>1. /\ browserOf' = browserOf /\ stranded \subseteq stranded'
      /\ \A w \in Visits : w # v => visits'[w] = visits[w]
      /\ b # browserOf[v] => jar'[b] = jar[b]
  BY StepFacts
<1>2. JarOK(b)
  BY DEF SessionInv
<1>3. CASE b # browserOf[v]
  <2>1. own = jar[b].id /\ own \in IdsKept /\ records'[own] = records[own]
    BY <1>1, <1>3, OthersRecords
  <2>2. \/ records[own].exp <= jar[b].exp
        \/ own \in stranded
        \/ \E w \in Open(b) : visits[w].phase \in Writing /\ visits[w].id = own
    BY <1>2, <2>1 DEF JarOK
  <2>3. \A w \in Open(b) : w \in Open(b)' /\ visits'[w] = visits[w]
    BY <1>1, <1>3 DEF Open
  <2> QED
    BY <1>1, <1>3, <2>1, <2>2, <2>3
<1>4. CASE b = browserOf[v]
  <2>1. jar'[b] = jar[b] \/ records'[own].exp <= jar'[b].exp
    BY <1>4 DEF Covering
  <2>2. visits'[v].phase \in Writing => v \in Open(b)'
    BY <1>1, <1>4 DEF Open, Writing
  <2>3. SUFFICES ASSUME jar'[b] = jar[b], ~(visits'[v].phase \in Writing /\ own = visits'[v].id),
                        own \notin stranded'
                 PROVE  \/ records'[own].exp <= jar'[b].exp
                        \/ \E w \in Open(b)' : visits'[w].phase \in Writing /\ visits'[w].id = own
    BY <2>1, <2>2
  <2>4. own \in IdsKept /\ records'[own] = records[own]
    BY <2>3 DEF Covering
  <2>5. \/ records[own].exp <= jar[b].exp
        \/ \E w \in Open(b) : visits[w].phase \in Writing /\ visits[w].id = own
    BY <1>1, <1>2, <2>3, <2>4 DEF JarOK
  <2>6. ASSUME NEW w \in Open(b), visits[w].phase \in Writing, visits[w].id = own
        PROVE  \/ records'[own].exp <= jar'[b].exp
               \/ \E u \in Open(b)' : visits'[u].phase \in Writing /\ visits'[u].id = own
    <3>1. CASE w # v
      <4>1. w \in Open(b)' /\ visits'[w] = visits[w]
        BY <1>1, <2>6, <3>1 DEF Open
      <4> QED
        BY <2>6, <4>1
    <3>2. CASE w = v
      BY <1>4, <2>3, <2>6, <3>2 DEF Covering
    <3> QED
      BY <3>1, <3>2
  <2> QED
    BY <2>3, <2>4, <2>5, <2>6
<1> QED
  BY <1>3, <1>4

LEMMA OrphansCovered ==
  ASSUME SessionInv, NEW v \in Visits, StepBy(v), Covering(v)
  PROVE  NoOrphans'
<1> SUFFICES ASSUME NEW i \in IdsKept', ~(records'[i].exp <= sessionClock'), i \notin stranded'
             PROVE  \/ \E b \in Browsers : jar'[b].id = i
                    \/ \E w \in Visits : visits'[w].phase \in Writing /\ visits'[w].id = i
  BY DEF NoOrphans, Writing
<1>1. /\ sessionClock' = sessionClock /\ stranded \subseteq stranded' /\ browserOf[v] \in Browsers
      /\ \A w \in Visits : w # v => visits'[w] = visits[w]
      /\ \A b \in Browsers : b # browserOf[v] => jar'[b] = jar[b]
  BY StepFacts
<1>2. CASE visits'[v].phase \in Writing /\ i = visits'[v].id
  BY <1>2
<1>3. CASE ~(visits'[v].phase \in Writing /\ i = visits'[v].id)
  <2>1. i \in IdsKept /\ records'[i] = records[i]
    BY <1>3 DEF Covering
  <2>2. ~(records[i].exp <= sessionClock) /\ i \notin stranded
    BY <1>1, <2>1
  <2>3. \/ \E b \in Browsers : jar[b].id = i
        \/ \E w \in Visits : visits[w].phase \in Writing /\ visits[w].id = i
    BY <2>1, <2>2 DEF SessionInv, NoOrphans, Writing
  <2>4. ASSUME NEW b \in Browsers, jar[b].id = i PROVE \E c \in Browsers : jar'[c].id = i
    <3>1. CASE b # browserOf[v]
      BY <1>1, <2>4, <3>1
    <3>2. CASE b = browserOf[v]
      <4>1. jar'[b].id = jar[b].id
        BY <1>1, <2>4, <3>2 DEF Covering
      <4> QED
        BY <2>4, <4>1
    <3> QED
      BY <3>1, <3>2
  <2>5. ASSUME NEW w \in Visits, visits[w].phase \in Writing, visits[w].id = i
        PROVE  \/ \E b \in Browsers : jar'[b].id = i
               \/ \E u \in Visits : visits'[u].phase \in Writing /\ visits'[u].id = i
    <3>1. CASE w # v
      BY <1>1, <2>5, <3>1
    <3>2. CASE w = v
      <4>1. jar'[browserOf[v]].id = i
        BY <1>3, <2>5, <3>2 DEF Covering
      <4> QED
        BY <1>1, <4>1
    <3> QED
      BY <3>1, <3>2
  <2> QED
    BY <2>3, <2>4, <2>5
<1> QED
  BY <1>2, <1>3

\* A request that met no other one is the only one of its browser.
LEMMA OthersLone ==
  ASSUME SessionInv, NEW v \in Visits, visits[v].phase \notin {"new", "done"},
         StepBy(v), SessionTypeOK', RecordsOK',
         NEW w \in Visits, w # v, visits[w].phase \notin {"new", "done"}, w \notin crossed'
  PROVE  Lone(w)'
<1>1. /\ browserOf' = browserOf /\ sessionClock' = sessionClock
      /\ visits'[w] = visits[w] /\ stranded \subseteq stranded'
      /\ w \notin crossed /\ browserOf[w] \in Browsers
  BY StepFacts
<1>2. browserOf[w] # browserOf[v]
  BY <1>1 DEF SessionInv, RequestsOK, Meeting
<1>3. Lone(w) /\ jar'[browserOf[w]] = jar[browserOf[w]]
  BY <1>1, <1>2, StepFacts DEF SessionInv, RequestsOK
<1>4. jar[browserOf[w]].id \in IdsKept' =>
        jar[browserOf[w]].id \in IdsKept /\ records'[jar[browserOf[w]].id] = records[jar[browserOf[w]].id]
  BY <1>1, <1>2, OthersRecords
<1>5. 0 \notin IdsKept'
  <2>1. sids' \in Nat /\ 0 \notin 1..sids'
    BY DEF SessionTypeOK
  <2> QED
    BY <2>1 DEF RecordsOK
<1> QED
  BY <1>1, <1>3, <1>4, <1>5 DEF Lone

LEMMA StepKeeps ==
  ASSUME SessionInv, NEW v \in Visits, visits[v].phase \notin {"new", "done"},
         StepBy(v), SessionTypeOK', RecordsOK', CookiesNamed',
         visits'[v].phase # "new", OwnKept(v), LoneKept(v), ObjectKept(v), Covering(v)
  PROVE  SessionInv'
<1>1. IdsOwned'
  BY StepOwns
<1>2. /\ browserOf' = browserOf /\ stored' = stored /\ browserOf[v] \in Browsers
      /\ \A w \in Visits : w # v => visits'[w] = visits[w]
      /\ \A b \in Browsers : b # browserOf[v] => told'[b] = told[b]
      /\ disturbed \subseteq disturbed' /\ crossed \subseteq crossed'
  BY StepFacts
<1>3. ASSUME NEW b \in Browsers PROVE BrowserOK(b)'
  <2>1. CASE b # browserOf[v]
    BY <2>1, OthersKept
  <2>2. CASE b = browserOf[v]
    <3> SUFFICES ASSUME b \notin disturbed'
                 PROVE  /\ \A w, u \in Open(b)' : w = u
                        /\ \A w \in Open(b)' : RequestOK(w)'
                        /\ (Remembered(b)' \/ (stored' /\ \E w \in Open(b)' : Replacing(w)'))
      BY DEF BrowserOK
    <3>1. v \in Open(b) /\ \A w \in Open(b) : w = v
      BY <1>2, <2>2 DEF SessionInv, BrowserOK, Open
    <3>2. /\ \A w \in Open(b)' : w = v
          /\ visits'[v].phase # "done" => v \in Open(b)'
      BY <1>2, <2>2, <3>1 DEF Open
    <3>3. v \in Open(b)' => visits'[v].phase # "done"
      BY DEF Open
    <3>4. /\ visits'[v].phase # "done" => RequestOK(v)'
          /\ (Remembered(b)' \/ (stored' /\ visits'[v].phase # "done" /\ Replacing(v)'))
      BY <1>2, <2>2 DEF OwnKept, Remembered
    <3> QED
      BY <3>2, <3>3, <3>4
  <2> QED
    BY <2>1, <2>2
<1>4. NoOrphans' /\ \A b \in Browsers : JarOK(b)'
  BY OrphansCovered, JarsKept
<1>5. ObjectsOK'
  <2>1. \A w \in Visits :
          visits'[w].phase \notin Idle => visits'[w].data \in Visits /\ (~stored => visits'[w].data = w)
    BY <1>2 DEF SessionInv, ObjectsOK, ObjectKept
  <2>2. ASSUME NEW b \in Browsers, told'[b].until > 0
        PROVE  told'[b].data \in Visits /\ (~stored => visits'[told'[b].data].phase = "done")
    <3>1. CASE told'[b] = told[b]
      <4>1. told[b].data \in Visits /\ (~stored => visits[told[b].data].phase = "done")
        BY <2>2, <3>1 DEF SessionInv, ObjectsOK
      <4> QED
        BY <1>2, <3>1, <4>1
    <3>2. CASE told'[b] # told[b]
      BY <1>2, <2>2, <3>2 DEF ObjectKept
    <3> QED
      BY <3>1, <3>2
  <2> QED
    BY <1>2, <2>1, <2>2 DEF ObjectsOK
<1>6. RequestsOK'
  <2>1. ASSUME NEW w \in Visits, NEW u \in Visits, Meeting(w, u)' PROVE w \in crossed'
    <3>1. Meeting(w, u)
      BY <1>2, <2>1 DEF Meeting
    <3> QED
      BY <1>2, <3>1 DEF SessionInv, RequestsOK
  <2>2. ASSUME NEW w \in Visits, visits'[w].phase \notin {"new", "done"}, w \notin crossed'
        PROVE  Lone(w)'
    <3>1. CASE w = v
      BY <2>2, <3>1 DEF LoneKept
    <3>2. CASE w # v
      BY <1>2, <2>2, <3>2, OthersLone
    <3> QED
      BY <3>1, <3>2
  <2> QED
    BY <2>1, <2>2 DEF RequestsOK
<1> QED
  BY <1>1, <1>3, <1>4, <1>5, <1>6 DEF SessionInv

\* What is known of a request, and of the browser that sent it.
LEMMA RequestFacts ==
  ASSUME SessionInv, NEW v \in Visits
  PROVE  /\ browserOf[v] \in Browsers /\ jar[browserOf[v]] \in CookieType
         /\ visits \in [Visits -> VisitType] /\ visits[v] \in VisitType
         /\ visits[v].id \in Nat /\ visits[v].first \in Nat /\ visits[v].cookie \in CookieType
         /\ visits[v].cookie.id \in Nat /\ visits[v].cookie.exp \in Nat /\ jar[browserOf[v]].id \in Nat
         /\ jar[browserOf[v]].exp \in Nat
         /\ sids \in Nat /\ sids + 1 \in Nat /\ sessionClock \in Nat /\ stored \in BOOLEAN
         /\ objects \in [Visits -> Held] /\ stranded \subseteq Nat /\ crossed \subseteq Visits
         /\ 0 \notin IdsKept /\ sids + 1 \notin IdsKept
         /\ visits[v].id <= sids /\ visits[v].first <= sids /\ visits[v].cookie.id <= sids
         /\ jar[browserOf[v]].id <= sids
<1>1. /\ browserOf[v] \in Browsers /\ jar[browserOf[v]] \in CookieType
      /\ visits \in [Visits -> VisitType] /\ visits[v] \in VisitType
      /\ sids \in Nat /\ sids + 1 \in Nat /\ sessionClock \in Nat /\ stored \in BOOLEAN
      /\ objects \in [Visits -> Held] /\ stranded \subseteq Nat /\ crossed \subseteq Visits
  BY DEF SessionInv, SessionTypeOK
<1>2. /\ visits[v].id \in Nat /\ visits[v].first \in Nat /\ visits[v].cookie \in CookieType
      /\ visits[v].cookie.id \in Nat /\ visits[v].cookie.exp \in Nat /\ jar[browserOf[v]].id \in Nat
      /\ jar[browserOf[v]].exp \in Nat
  BY <1>1 DEF VisitType, CookieType
<1>3. 0 \notin IdsKept /\ sids + 1 \notin IdsKept
  <2>1. 0 \notin 1..sids /\ sids + 1 \notin 1..sids
    BY <1>1
  <2> QED
    BY <2>1 DEF SessionInv, RecordsOK
<1>4. ASSUME NEW i \in Nat,
             i \in {visits[v].id, visits[v].first, visits[v].cookie.id, jar[browserOf[v]].id}
      PROVE  i <= sids
  <2>1. CASE i = 0
    BY <1>1, <2>1
  <2>2. CASE i # 0
    BY <1>1, <1>4, <2>2 DEF SessionInv, IdsOwned, Uses
  <2> QED
    BY <2>1, <2>2
<1> QED
  BY <1>1, <1>2, <1>3, <1>4

\* The one request of an undisturbed browser, and one that met no other one.
LEMMA RequestIsOK ==
  ASSUME SessionInv, NEW v \in Visits, visits[v].phase \notin {"new", "done"}
  PROVE  /\ browserOf[v] \notin disturbed =>
              RequestOK(v) /\ (Remembered(browserOf[v]) \/ (stored /\ Replacing(v)))
         /\ v \notin crossed => Lone(v) /\ \A w \in Open(browserOf[v]) : w = v
<1>1. browserOf[v] \in Browsers /\ v \in Open(browserOf[v])
  BY RequestFacts DEF Open
<1>2. BrowserOK(browserOf[v])
  BY <1>1 DEF SessionInv
<1>3. browserOf[v] \notin disturbed =>
        RequestOK(v) /\ (Remembered(browserOf[v]) \/ (stored /\ Replacing(v)))
  BY <1>1, <1>2 DEF BrowserOK
<1>4. v \notin crossed => Lone(v) /\ \A w \in Open(browserOf[v]) : w = v
  BY DEF SessionInv, RequestsOK, Meeting, Open
<1> QED
  BY <1>3, <1>4

\* Another browser holds none of the ids of a request.
LEMMA OthersIds ==
  ASSUME SessionInv, NEW v \in Visits, NEW b \in Browsers, b # browserOf[v],
         NEW i \in {visits[v].id, visits[v].first, visits[v].cookie.id}, jar[b].id = i
  PROVE  i \notin IdsKept
<1>1. i \in Nat
  BY RequestFacts
<1>2. CASE i # 0
  BY <1>1, <1>2, RequestFacts DEF SessionInv, IdsOwned, Uses
<1>3. CASE i = 0
  BY <1>3, RequestFacts
<1> QED
  BY <1>2, <1>3

LEMMA BegunIs ==
  ASSUME NEW id \in Nat, NEW object \in Visits, NEW holds \in Held, sids \in Nat
  PROVE  /\ Begun(id, object, holds) \in VisitType
         /\ Begun(id, object, holds).phase = "handling" /\ Begun(id, object, holds).first = id
         /\ Begun(id, object, holds).id = (IF id # 0 THEN id ELSE sids + 1)
         /\ Begun(id, object, holds).responds = TRUE /\ Begun(id, object, holds).cookie = NoCookie
         /\ Begun(id, object, holds).data = object
<1>1. NoVisit("handling") \in VisitType /\ NoCookie \in CookieType
  BY DEF NoVisit, NoCookie, VisitType, CookieType, Phases, Held
<1>2. "handling" \in Phases /\ (IF id # 0 THEN id ELSE sids + 1) \in Nat
  BY DEF Phases
<1>3. Begun(id, object, holds) =
        [NoVisit("handling") EXCEPT !.first = id, !.snapshot = holds, !.data = object,
                                    !.id = IF id # 0 THEN id ELSE sids + 1]
  BY DEF Begun
<1>4. Begun(id, object, holds) \in VisitType
  BY <1>1, <1>2, <1>3 DEF VisitType
<1>5. NoVisit("handling").phase = "handling" /\ NoVisit("handling").responds = TRUE
      /\ NoVisit("handling").cookie = NoCookie
  BY DEF NoVisit
<1> QED
  BY <1>1, <1>3, <1>4, <1>5 DEF VisitType

LEMMA BegunWith ==
  ASSUME NEW id, NEW object, NEW holds
  PROVE  Begun(id, object, holds).snapshot = holds
  BY DEF Begun, NoVisit

LEMMA NoVisitIs ==
  ASSUME NEW phase \in Phases
  PROVE  /\ NoVisit(phase) \in VisitType
         /\ NoVisit(phase).phase = phase /\ NoVisit(phase).cookie = NoCookie
         /\ NoVisit(phase).id = 0 /\ NoVisit(phase).first = 0
         /\ NoCookie \in CookieType /\ NoCookie.id = 0 /\ NoCookie.exp = 0
  BY DEF NoVisit, NoCookie, VisitType, CookieType, Phases, Held

\* A request gets its session: with a fresh id, or with the id of its cookie.
LEMMA BeginKeeps ==
  ASSUME SessionInv, NEW v \in Visits, visits[v].phase = "verifying",
         NEW id \in Nat, NEW object \in Visits, NEW holds \in Held,
         \/ id = 0 /\ visits[v].cookie.exp <= sessionClock /\ sids' = sids + 1
         \/ id = visits[v].cookie.id /\ visits[v].cookie.exp > sessionClock /\ sids' = sids,
         ~stored => object = v,
         visits' = [visits EXCEPT ![v] = Begun(id, object, holds)],
         objects' = objects \/ objects' = [objects EXCEPT ![v] = holds],
         \A i \in IdsKept' : i \in IdsKept /\ records'[i] = records[i],
         \A i \in IdsKept : Live(i) => i \in IdsKept',
         disturbed \subseteq disturbed',
         UNCHANGED <<browserOf, stored, sessionClock, jar, told, crossed, stranded>>
  PROVE  SessionInv'
<1> DEFINE own == jar[browserOf[v]].id
<1>1. /\ Begun(id, object, holds) \in VisitType
      /\ Begun(id, object, holds).phase = "handling" /\ Begun(id, object, holds).first = id
      /\ Begun(id, object, holds).id = (IF id # 0 THEN id ELSE sids + 1)
      /\ Begun(id, object, holds).responds = TRUE /\ Begun(id, object, holds).cookie = NoCookie
      /\ Begun(id, object, holds).data = object
  <2>1. sids \in Nat /\ id \in Nat /\ object \in Visits /\ holds \in Held
    BY RequestFacts
  <2> QED
    BY ONLY <2>1, BegunIs
<1>2. /\ visits' \in [Visits -> VisitType]
      /\ visits'[v] = Begun(id, object, holds)
      /\ \A w \in Visits : w # v => visits'[w] = visits[w]
  BY <1>1, RequestFacts
<1>3. /\ visits'[v].phase = "handling" /\ visits'[v].first = id /\ visits'[v].responds = TRUE
      /\ visits'[v].id = (IF id # 0 THEN id ELSE sids + 1)
      /\ visits'[v].cookie = NoCookie /\ visits'[v].data = object
      /\ NoCookie.id = 0 /\ NoCookie.exp = 0
  BY <1>1, <1>2 DEF NoCookie
<1>4. sids' \in {sids, sids + 1} /\ (id = 0 => sids' = sids + 1)
  <2>1. visits[v].cookie.exp > sessionClock => visits[v].cookie.id # 0
    <3>1. visits[v].cookie.exp > sessionClock => visits[v].cookie.exp > 0
      BY RequestFacts
    <3> QED
      BY <3>1 DEF SessionInv, CookiesNamed
  <2> QED
    BY <2>1
<1>5. SessionTypeOK'
  <2>1. objects' \in [Visits -> Held]
    BY RequestFacts
  <2> QED
    BY <1>2, <1>4, <2>1, RequestFacts DEF SessionInv, SessionTypeOK
<1>6. RecordsOK'
  <2>1. \A i \in 1..sids : i \in 1..sids'
    BY <1>4, RequestFacts
  <2> QED
    BY <1>2, <1>3, <2>1 DEF SessionInv, RecordsOK
<1>7. CookiesNamed'
  <2>1. visits'[v].id # 0
    BY <1>3, RequestFacts
  <2> QED
    BY <1>2, <1>3, <2>1 DEF SessionInv, CookiesNamed
<1>8. StepBy(v)
  <2>1. \A i \in {visits'[v].cookie.id, visits'[v].first, visits'[v].id} :
          \/ i \in {0, visits[v].cookie.id}
          \/ i = sids + 1 /\ sids' = sids + 1
    BY <1>3, <1>4
  <2>2. \A w \in Visits \ {v} : objects'[w] = objects[w]
    BY RequestFacts
  <2>3. \A b \in Browsers : ~(Live(jar[b].id) /\ jar[b].id \notin IdsKept')
    BY DEF Live
  <2>4. sids' = sids \/ sids' = sids + 1
    BY <1>4
  <2> QED
    BY <1>2, <2>1, <2>2, <2>3, <2>4 DEF StepBy
<1>9. OwnKept(v)
  <2> SUFFICES ASSUME browserOf[v] \notin disturbed'
               PROVE  RequestOK(v)' /\ Remembered(browserOf[v])'
    BY DEF OwnKept
  <2>1. RequestOK(v) /\ Remembered(browserOf[v])
    BY RequestIsOK DEF Replacing
  <2>2. RequestOK(v)'
    BY <1>3 DEF RequestOK, Writing
  <2>3. CASE stored
    <3>1. /\ own \in IdsKept' => own \in IdsKept /\ records'[own] = records[own]
          /\ own \in IdsKept => records[own].exp \in Nat
          /\ Live(own) => own \in IdsKept'
      BY DEF SessionInv, RecordsOK, Live
    <3>2. told[browserOf[v]].until \in Nat /\ sessionClock \in Nat
      BY RequestFacts DEF SessionInv, SessionTypeOK, NoteType
    <3> QED
      BY <2>1, <2>2, <2>3, <3>1, <3>2 DEF Remembered, Live
  <2>4. CASE ~stored
    <3>1. told[browserOf[v]].until > 0 =>
            objects'[told[browserOf[v]].data] = objects[told[browserOf[v]].data]
      <4>1. told[browserOf[v]].until > 0 => told[browserOf[v]].data \in Visits \ {v}
        BY <2>4, RequestFacts DEF SessionInv, ObjectsOK
      <4> QED
        BY <4>1, RequestFacts
    <3>2. /\ told[browserOf[v]].until \in Nat /\ jar[browserOf[v]].exp \in Nat /\ sessionClock \in Nat
      BY RequestFacts DEF SessionInv, SessionTypeOK, NoteType
    <3> QED
      BY <2>1, <2>2, <2>4, <3>1, <3>2 DEF Remembered
  <2> QED
    BY <2>2, <2>3, <2>4, RequestFacts
<1>10. LoneKept(v)
  <2> SUFFICES ASSUME v \notin crossed PROVE Lone(v)'
    BY DEF LoneKept
  <2>1. visits[v].cookie = jar[browserOf[v]] /\ \A w \in Open(browserOf[v]) : w = v
    BY RequestIsOK DEF Lone
  <2>2. id \in {0, own}
    BY <2>1
  <2>3. ASSUME id = 0
        PROVE  visits'[v].id # own /\ (own \in IdsKept' => records'[own].exp <= sessionClock \/ own \in stranded)
    <3>1. visits'[v].id # own
      BY <1>3, <2>3, RequestFacts
    <3>2. jar[browserOf[v]].exp <= sessionClock
      <4>1. sids' # sids
        BY <1>4, <2>3, RequestFacts
      <4> QED
        BY <2>1, <4>1
    <3>3. JarOK(browserOf[v])
      BY RequestFacts DEF SessionInv
    <3>4. own \in IdsKept => records[own].exp <= jar[browserOf[v]].exp \/ own \in stranded
      BY <2>1, <3>3 DEF JarOK, Writing
    <3>5. own \in IdsKept => records[own].exp \in Nat
      BY DEF SessionInv, RecordsOK
    <3>6. own \in IdsKept => records[own].exp <= sessionClock \/ own \in stranded
      BY <3>2, <3>4, <3>5, RequestFacts
    <3> QED
      BY <3>1, <3>6
  <2> QED
    BY <1>3, <2>2, <2>3 DEF Lone
<1>11. ObjectKept(v)
  BY <1>3 DEF ObjectKept
<1>12. Covering(v)
  BY DEF Covering, Writing
<1> QED
  BY <1>3, <1>5, <1>6, <1>7, <1>8, <1>9, <1>10, <1>11, <1>12, StepKeeps

LEMMA StartFreshKeeps ==
  ASSUME SessionInv, NEW v \in Visits, StartFresh(v)
  PROVE  SessionInv'
<1>1. IdsKept' = IdsKept /\ Empty \in Held /\ 0 \in Nat
  BY DEF StartFresh, IdsKept, Held
<1> QED
  BY <1>1, BeginKeeps DEF StartFresh, BeginWith

LEMMA LoadSessionKeeps ==
  ASSUME SessionInv, NEW v \in Visits, LoadSession(v)
  PROVE  SessionInv'
<1> DEFINE id == visits[v].cookie.id
<1>1. /\ visits[v].phase = "verifying" /\ visits[v].cookie.exp > sessionClock /\ id \in Nat
      /\ UNCHANGED <<browserOf, stored, sessionClock, sids, jar, told, disturbed, crossed, stranded>>
  BY RequestFacts DEF LoadSession
<1>2. CASE stored /\ Live(id) /\ UNCHANGED <<records, objects>>
           /\ visits' = [visits EXCEPT ![v] = Begun(id, records[id].data, objects[records[id].data])]
  <2>1. records[id].data \in Visits /\ objects[records[id].data] \in Held
    BY <1>2, RequestFacts DEF SessionInv, RecordsOK, Live
  <2>2. IdsKept' = IdsKept
    BY <1>2 DEF IdsKept
  <2> QED
    BY <1>1, <1>2, <2>1, <2>2, BeginKeeps
<1>3. CASE stored /\ ~Live(id) /\ BeginWith(v, id, Empty) /\ records' = Without(id)
  <2>1. /\ \A i \in IdsKept' : i \in IdsKept /\ records'[i] = records[i]
        /\ \A i \in IdsKept : Live(i) => i \in IdsKept'
    BY <1>3 DEF Without, IdsKept, Live
  <2>2. Empty \in Held
    BY DEF Held
  <2> QED
    BY <1>1, <1>3, <2>1, <2>2, BeginKeeps DEF BeginWith
<1>4. CASE ~stored /\ BeginWith(v, id, visits[v].cookie.data) /\ UNCHANGED records
  <2>1. visits[v].cookie.data \in Held
    BY RequestFacts DEF CookieType
  <2>2. IdsKept' = IdsKept
    BY <1>4 DEF IdsKept
  <2> QED
    BY <1>1, <1>4, <2>1, <2>2, BeginKeeps DEF BeginWith
<1> QED
  BY <1>2, <1>3, <1>4 DEF LoadSession

LEMMA LoadRejectedKeeps ==
  ASSUME SessionInv, NEW v \in Visits, LoadRejected(v)
  PROVE  SessionInv'
<1>1. IdsKept' = IdsKept /\ Empty \in Held /\ visits[v].cookie.id \in Nat
  BY RequestFacts DEF LoadRejected, IdsKept, Held
<1>2. stored
  BY DEF LoadRejected
<1> QED
  BY <1>1, <1>2, BeginKeeps DEF LoadRejected, BeginWith

LEMMA CloseIs ==
  ASSUME SessionInv, NEW v \in Visits, NEW cookie \in CookieType,
         NEW note \in NoteType, Close(v, cookie, note)
  PROVE  /\ visits' \in [Visits -> VisitType]
         /\ visits'[v].phase = "done" /\ visits'[v].cookie = NoCookie
         /\ visits'[v].id = 0 /\ visits'[v].first = 0
         /\ NoCookie.id = 0 /\ NoCookie.exp = 0
         /\ \A w \in Visits : w # v => visits'[w] = visits[w]
         /\ jar' \in [Browsers -> CookieType] /\ told' \in [Browsers -> NoteType]
         /\ \A b \in Browsers : b # browserOf[v] => jar'[b] = jar[b] /\ told'[b] = told[b]
         /\ visits[v].responds = TRUE => jar'[browserOf[v]] = cookie
         /\ visits[v].responds # TRUE => jar'[browserOf[v]] = jar[browserOf[v]]
         /\ told'[browserOf[v]] = note
<1>1. "done" \in Phases /\ visits[v].responds \in BOOLEAN
  BY RequestFacts DEF Phases, VisitType
<1>2. jar \in [Browsers -> CookieType] /\ told \in [Browsers -> NoteType]
  BY DEF SessionInv, SessionTypeOK
<1>3. /\ visits' = [visits EXCEPT ![v] = NoVisit("done")]
      /\ jar' = IF visits[v].responds THEN [jar EXCEPT ![browserOf[v]] = cookie] ELSE jar
      /\ told' = [told EXCEPT ![browserOf[v]] = note]
  BY DEF Close
<1>4. /\ visits' \in [Visits -> VisitType] /\ visits'[v] = NoVisit("done")
      /\ \A w \in Visits : w # v => visits'[w] = visits[w]
  BY <1>1, <1>3, NoVisitIs, RequestFacts
<1>5. /\ jar' \in [Browsers -> CookieType] /\ told' \in [Browsers -> NoteType]
      /\ \A b \in Browsers : b # browserOf[v] => jar'[b] = jar[b] /\ told'[b] = told[b]
      /\ visits[v].responds = TRUE => jar'[browserOf[v]] = cookie
      /\ visits[v].responds # TRUE => jar'[browserOf[v]] = jar[browserOf[v]]
      /\ told'[browserOf[v]] = note
  BY <1>1, <1>2, <1>3, RequestFacts
<1> QED
  BY <1>1, <1>4, <1>5, NoVisitIs

LEMMA UnchangedIs ==
  ASSUME SessionInv, NEW v \in Visits, Unchanged(v)
  PROVE  visits' = [visits EXCEPT ![v] = NoVisit("done")] /\ jar' = jar /\ told' = told
<1>1. jar \in [Browsers -> CookieType] /\ told \in [Browsers -> NoteType]
  BY DEF SessionInv, SessionTypeOK
<1> QED
  BY <1>1, RequestFacts DEF Unchanged, Close

\* A request that ends without a trace, unless what it has written is left behind.
LEMMA EndKeeps ==
  ASSUME SessionInv, NEW v \in Visits, visits[v].phase \notin Idle,
         visits[v].phase = "signing" => ~stored,
         visits[v].phase = "orphaning" => visits[v].id \in stranded',
         Replacing(v) /\ stored => browserOf[v] \in disturbed',
         UNCHANGED <<browserOf, stored, sessionClock, records, objects, jar, told, crossed>>,
         sids' \in {sids, sids + 1}, disturbed \subseteq disturbed', stranded \subseteq stranded',
         stranded' \subseteq Nat,
         visits' = [visits EXCEPT ![v] = NoVisit("done")]
  PROVE  SessionInv'
<1>0. /\ visits' \in [Visits -> VisitType] /\ visits'[v] = NoVisit("done")
      /\ \A w \in Visits : w # v => visits'[w] = visits[w]
      /\ visits'[v].phase = "done" /\ visits'[v].cookie = NoCookie
      /\ visits'[v].id = 0 /\ visits'[v].first = 0 /\ NoCookie.id = 0 /\ NoCookie.exp = 0
  <2>1. "done" \in Phases
    BY DEF Phases
  <2>2. visits \in [Visits -> VisitType]
    BY RequestFacts
  <2> QED
    BY <2>1, <2>2, NoVisitIs
<1>1. visits[v].phase \notin {"new", "done"}
  BY DEF Idle
<1>2. IdsKept' = IdsKept
  BY DEF IdsKept
<1>3. SessionTypeOK'
  BY <1>0, RequestFacts DEF SessionInv, SessionTypeOK
<1>4. RecordsOK'
  <2>1. \A i \in 1..sids : i \in 1..sids'
    BY RequestFacts
  <2> QED
    BY <1>0, <1>2, <2>1 DEF SessionInv, RecordsOK
<1>5. CookiesNamed'
  BY <1>0 DEF SessionInv, CookiesNamed, Idle
<1>6. StepBy(v)
  BY <1>0, <1>2 DEF StepBy, Live
<1>7. OwnKept(v)
  <2> SUFFICES ASSUME browserOf[v] \notin disturbed' PROVE Remembered(browserOf[v])'
    BY <1>0 DEF OwnKept
  <2>1. Remembered(browserOf[v])
    BY <1>1, RequestIsOK
  <2> QED
    BY <1>2, <2>1 DEF Remembered
<1>8. LoneKept(v) /\ ObjectKept(v)
  BY <1>0 DEF LoneKept, ObjectKept, Idle
<1>9. Covering(v)
  BY <1>2 DEF Covering, Writing, SessionInv, RecordsOK
<1> QED
  BY <1>0, <1>1, <1>3, <1>4, <1>5, <1>6, <1>7, <1>8, <1>9, StepKeeps

LEMMA HandlerThrowsKeeps ==
  ASSUME SessionInv, NEW v \in Visits, HandlerThrows(v)
  PROVE  SessionInv'
<1>1. visits[v].phase \notin Idle /\ ~Replacing(v) /\ stranded \subseteq Nat
  BY RequestFacts DEF HandlerThrows, Idle, Replacing
<1> QED
  BY <1>1, UnchangedIs, EndKeeps DEF HandlerThrows

\* A handler assigns to the session, or changes what is there.
LEMMA ObjectKeeps ==
  ASSUME SessionInv, NEW v \in Visits, visits[v].phase = "handling",
         NEW object \in {v, visits[v].data}, NEW cell \in {v, visits[v].data}, NEW holds \in Contents,
         objects' = [objects EXCEPT ![cell] = holds],
         visits' = [visits EXCEPT ![v] = [visits[v] EXCEPT !.data = object]],
         UNCHANGED <<browserOf, stored, sessionClock, sids, records, jar, told, disturbed, crossed, stranded>>
  PROVE  SessionInv'
<1>0. /\ visits[v].data \in Visits /\ (~stored => visits[v].data = v)
      /\ visits[v].id # 0 /\ visits[v].phase \notin Idle
      /\ (visits[v].cookie.exp > 0 => visits[v].cookie.id # 0)
  BY DEF SessionInv, ObjectsOK, CookiesNamed, Idle
<1>1. /\ object \in Visits /\ cell \in Visits /\ (~stored => object = v /\ cell = v) /\ holds \in Held
      /\ visits \in [Visits -> VisitType] /\ objects \in [Visits -> Held]
  BY <1>0, RequestFacts DEF Held
<1>2. /\ visits'[v] = [visits[v] EXCEPT !.data = object] /\ visits'[v] \in VisitType
      /\ \A w \in Visits : w # v => visits'[w] = visits[w]
      /\ visits' \in [Visits -> VisitType]
  <2>1. [visits[v] EXCEPT !.data = object] \in VisitType
    BY <1>1 DEF VisitType
  <2> QED
    BY <1>1, <2>1
<1>3. /\ visits'[v].phase = "handling" /\ visits'[v].id = visits[v].id
      /\ visits'[v].first = visits[v].first /\ visits'[v].cookie = visits[v].cookie
      /\ visits'[v].data = object /\ visits'[v].responds = visits[v].responds
  BY <1>1, <1>2 DEF VisitType
<1>4. /\ objects' \in [Visits -> Held] /\ (~stored => \A w \in Visits \ {v} : objects'[w] = objects[w])
      /\ IdsKept' = IdsKept
  BY <1>1 DEF IdsKept
<1>5. SessionTypeOK'
  BY <1>2, <1>4, RequestFacts DEF SessionInv, SessionTypeOK
<1>6. RecordsOK'
  BY <1>2, <1>3, <1>4 DEF SessionInv, RecordsOK
<1>7. CookiesNamed'
  BY <1>0, <1>2, <1>3 DEF SessionInv, CookiesNamed
<1>8. StepBy(v)
  BY <1>2, <1>3, <1>4 DEF StepBy, Live
<1>9. OwnKept(v)
  <2> SUFFICES ASSUME browserOf[v] \notin disturbed
               PROVE  RequestOK(v)' /\ Remembered(browserOf[v])'
    BY DEF OwnKept
  <2>1. RequestOK(v) /\ Remembered(browserOf[v])
    BY RequestIsOK DEF Replacing
  <2>2. RequestOK(v)'
    BY <1>3, <2>1 DEF RequestOK, Writing
  <2>3. CASE stored
    BY <1>4, <2>1, <2>2, <2>3 DEF Remembered
  <2>4. CASE ~stored
    <3>1. told[browserOf[v]].until > 0 =>
            objects'[told[browserOf[v]].data] = objects[told[browserOf[v]].data]
      <4>1. told[browserOf[v]].until > 0 => told[browserOf[v]].data \in Visits \ {v}
        BY <2>4, RequestFacts DEF SessionInv, ObjectsOK
      <4> QED
        BY <1>4, <2>4, <4>1
    <3>2. /\ told[browserOf[v]].until \in Nat /\ jar[browserOf[v]].exp \in Nat /\ sessionClock \in Nat
      BY RequestFacts DEF SessionInv, SessionTypeOK, NoteType
    <3> QED
      BY <2>1, <2>2, <2>4, <3>1, <3>2 DEF Remembered
  <2> QED
    BY <2>2, <2>3, <2>4, RequestFacts
<1>10. LoneKept(v)
  <2>1. v \notin crossed => Lone(v)
    BY RequestIsOK
  <2> QED
    BY <1>3, <1>4, <2>1 DEF LoneKept, Lone
<1>11. ObjectKept(v)
  BY <1>1, <1>3 DEF ObjectKept
<1>12. Covering(v)
  BY <1>4 DEF Covering, Writing
<1> QED
  BY <1>3, <1>5, <1>6, <1>7, <1>8, <1>9, <1>10, <1>11, <1>12, StepKeeps

LEMMA AssignKeeps ==
  ASSUME SessionInv, NEW v \in Visits, Assign(v)
  PROVE  SessionInv'
<1>1. PICK holds \in Contents : objects' = [objects EXCEPT ![v] = holds]
  BY DEF Assign
<1>2. visits' = [visits EXCEPT ![v] = [visits[v] EXCEPT !.data = v]]
  BY RequestFacts DEF Assign
<1> QED
  BY <1>1, <1>2, ObjectKeeps DEF Assign

LEMMA AlterKeeps ==
  ASSUME SessionInv, NEW v \in Visits, Alter(v)
  PROVE  SessionInv'
<1>1. PICK holds \in Contents : objects' = [objects EXCEPT ![visits[v].data] = holds]
  BY DEF Alter
<1>2. visits' = [visits EXCEPT ![v] = [visits[v] EXCEPT !.data = visits[v].data]]
  <2>1. visits \in [Visits -> VisitType] /\ visits[v] \in VisitType /\ visits' = visits
    BY RequestFacts DEF Alter
  <2>2. [visits[v] EXCEPT !.data = visits[v].data] = visits[v]
    BY <2>1 DEF VisitType
  <2> QED
    BY <2>1, <2>2
<1> QED
  BY <1>1, <1>2, ObjectKeeps DEF Alter

\* A request proceeds to its next phase, with the object that it has.
LEMMA MoveIs ==
  ASSUME SessionInv, NEW v \in Visits, visits[v].phase \notin Idle,
         NEW phase \in Phases \ Idle, NEW id \in Nat, NEW responds \in BOOLEAN,
         visits' = [visits EXCEPT ![v] = [visits[v] EXCEPT !.phase = phase, !.id = id, !.responds = responds]]
  PROVE  /\ visits' \in [Visits -> VisitType]
         /\ \A w \in Visits : w # v => visits'[w] = visits[w]
         /\ visits'[v].phase = phase /\ visits'[v].id = id /\ visits'[v].responds = responds
         /\ visits'[v].first = visits[v].first /\ visits'[v].cookie = visits[v].cookie
         /\ visits'[v].data = visits[v].data
<1>1. visits \in [Visits -> VisitType] /\ visits[v] \in VisitType
  BY RequestFacts
<1>2. [visits[v] EXCEPT !.phase = phase, !.id = id, !.responds = responds] \in VisitType
  BY <1>1 DEF VisitType
<1>3. /\ visits'[v] = [visits[v] EXCEPT !.phase = phase, !.id = id, !.responds = responds]
      /\ \A w \in Visits : w # v => visits'[w] = visits[w]
      /\ visits' \in [Visits -> VisitType]
  BY <1>1, <1>2
<1>4. /\ visits'[v].phase = phase /\ visits'[v].id = id /\ visits'[v].responds = responds
      /\ visits'[v].first = visits[v].first /\ visits'[v].cookie = visits[v].cookie
      /\ visits'[v].data = visits[v].data
  BY <1>1, <1>3 DEF VisitType
<1> QED
  BY <1>3, <1>4

\* What is left to show of such a step is what it does to the records.
LEMMA MoveKeeps ==
  ASSUME SessionInv, NEW v \in Visits, visits[v].phase \notin Idle,
         NEW phase \in Phases \ Idle, NEW id \in {visits[v].id, sids + 1}, NEW responds \in BOOLEAN,
         visits' = [visits EXCEPT ![v] = [visits[v] EXCEPT !.phase = phase, !.id = id, !.responds = responds]],
         sids' \in {sids, sids + 1}, id = sids + 1 => sids' = sids + 1,
         UNCHANGED <<browserOf, stored, sessionClock, objects, jar, told, crossed>>,
         disturbed \subseteq disturbed', stranded \subseteq stranded', stranded' \subseteq Nat,
         RecordsOK',
         \A i \in IdsKept' : i # visits[v].id => i \in IdsKept /\ records'[i] = records[i],
         \A b \in Browsers \ {browserOf[v]} :
            Live(jar[b].id) /\ jar[b].id \notin IdsKept' => b \in disturbed',
         OwnKept(v), LoneKept(v), Covering(v)
  PROVE  SessionInv'
<1>1. id \in Nat /\ id # 0 /\ visits[v].data \in Visits /\ (~stored => visits[v].data = v)
  BY RequestFacts DEF SessionInv, CookiesNamed, ObjectsOK
<1>2. /\ visits' \in [Visits -> VisitType]
      /\ \A w \in Visits : w # v => visits'[w] = visits[w]
      /\ visits'[v].phase = phase /\ visits'[v].id = id
      /\ visits'[v].first = visits[v].first /\ visits'[v].cookie = visits[v].cookie
      /\ visits'[v].data = visits[v].data
  BY <1>1, MoveIs
<1>3. SessionTypeOK'
  BY <1>2, RequestFacts DEF SessionInv, SessionTypeOK
<1>4. CookiesNamed'
  BY <1>1, <1>2 DEF SessionInv, CookiesNamed
<1>5. StepBy(v)
  BY <1>2 DEF StepBy
<1>6. ObjectKept(v)
  BY <1>1, <1>2 DEF ObjectKept
<1> QED
  BY <1>2, <1>3, <1>4, <1>5, <1>6, StepKeeps DEF Idle

\* The handlers have returned: the records are as they were, and unless there is a
\* store it has nothing.
LEMMA ReturnKeeps ==
  ASSUME SessionInv, NEW v \in Visits, visits[v].phase = "handling",
         NEW phase \in {"setting", "signing", "destroying", "clearing"},
         phase \in {"setting", "destroying"} <=> stored,
         NEW rotate \in {FALSE, sids < MaxIds}, NEW responds \in BOOLEAN,
         sids' = IF rotate THEN sids + 1 ELSE sids,
         visits' = [visits EXCEPT ![v] =
           [visits[v] EXCEPT !.phase = phase, !.id = IF rotate THEN sids + 1 ELSE visits[v].id,
                             !.responds = responds]],
         disturbed' = IF responds THEN disturbed ELSE disturbed \cup {browserOf[v]},
         UNCHANGED <<browserOf, stored, sessionClock, records, objects, jar, told, crossed, stranded>>
  PROVE  SessionInv'
<1>1. PICK id \in {visits[v].id, sids + 1} :
        /\ id = IF rotate THEN sids + 1 ELSE visits[v].id
        /\ visits' = [visits EXCEPT ![v] =
             [visits[v] EXCEPT !.phase = phase, !.id = id, !.responds = responds]]
  OBVIOUS
<1>2. /\ phase \in Phases \ Idle /\ visits[v].phase \notin Idle /\ id \in Nat
      /\ id = sids + 1 => sids' = sids + 1
      /\ sids' \in {sids, sids + 1} /\ IdsKept' = IdsKept
      /\ disturbed \subseteq disturbed' /\ stranded \subseteq Nat
      /\ 0 \notin IdsKept /\ (~stored => IdsKept = {})
  <2>1. id \in Nat /\ sids + 1 # visits[v].id /\ stranded \subseteq Nat /\ 0 \notin IdsKept
    BY <1>1, RequestFacts
  <2> QED
    BY <1>1, <2>1 DEF Phases, Idle, IdsKept, SessionInv, RecordsOK
<1>3. /\ \A w \in Visits : w # v => visits'[w] = visits[w]
      /\ visits'[v].phase = phase /\ visits'[v].id = id /\ visits'[v].responds = responds
      /\ visits'[v].first = visits[v].first
  <2>1. /\ responds \in BOOLEAN /\ SessionInv /\ v \in Visits /\ id \in Nat
        /\ phase \in Phases \ Idle /\ visits[v].phase \notin Idle
        /\ visits' = [visits EXCEPT ![v] =
             [visits[v] EXCEPT !.phase = phase, !.id = id, !.responds = responds]]
    BY <1>1, <1>2
  <2> QED
    BY ONLY <2>1, MoveIs
<1>4. RecordsOK'
  <2>1. \A i \in 1..sids : i \in 1..sids'
    BY <1>2, RequestFacts
  <2> QED
    BY <1>2, <1>3, <2>1 DEF SessionInv, RecordsOK
<1>5. OwnKept(v)
  <2> SUFFICES ASSUME browserOf[v] \notin disturbed' PROVE RequestOK(v)' /\ Remembered(browserOf[v])'
    BY DEF OwnKept
  <2>1. responds = TRUE /\ browserOf[v] \notin disturbed
    OBVIOUS
  <2>2. Remembered(browserOf[v])
    BY <2>1, RequestIsOK DEF Replacing
  <2>3. Remembered(browserOf[v])'
    BY <1>2, <2>2 DEF Remembered
  <2>4. RequestOK(v)'
    BY <1>2, <1>3, <2>1 DEF RequestOK, Writing
  <2> QED
    BY <2>3, <2>4
<1>6. LoneKept(v)
  <2> SUFFICES ASSUME v \notin crossed PROVE Lone(v)'
    BY DEF LoneKept
  <2>1. Lone(v)
    BY RequestIsOK
  <2>2. id = visits[v].id \/ (id # jar[browserOf[v]].id)
    BY RequestFacts
  <2> QED
    BY <1>2, <1>3, <2>1, <2>2 DEF Lone
<1>7. Covering(v)
  BY <1>2 DEF Covering, Writing
<1>8. \A b \in Browsers : ~(Live(jar[b].id) /\ jar[b].id \notin IdsKept')
  BY <1>2 DEF Live
<1> QED
  BY <1>1, <1>2, <1>4, <1>5, <1>6, <1>7, <1>8, MoveKeeps

LEMMA HandleKeeps ==
  ASSUME SessionInv, NEW v \in Visits, Handle(v)
  PROVE  SessionInv'
<1>1. PICK rotate \in {FALSE, sids < MaxIds}, responds \in BOOLEAN :
        /\ sids' = IF rotate THEN sids + 1 ELSE sids
        /\ visits' = [visits EXCEPT ![v] =
             IF objects[visits[v].data] = visits[v].snapshot /\ ~rotate THEN NoVisit("done")
             ELSE [@ EXCEPT !.responds = responds,
                            !.id = IF rotate THEN sids + 1 ELSE visits[v].id,
                            !.phase = IF stored THEN "setting" ELSE "signing"]]
        /\ disturbed' = IF responds THEN disturbed ELSE disturbed \cup {browserOf[v]}
  BY DEF Handle
<1>2. /\ visits[v].phase = "handling"
      /\ UNCHANGED <<browserOf, stored, sessionClock, records, objects, jar, told, crossed, stranded>>
  BY DEF Handle
<1>3. CASE objects[visits[v].data] = visits[v].snapshot /\ ~rotate
  <2>1. visits' = [visits EXCEPT ![v] = NoVisit("done")]
    BY <1>1, <1>3
  <2>2. sids' \in {sids, sids + 1} /\ disturbed \subseteq disturbed'
    BY <1>1
  <2>3. visits[v].phase \notin Idle /\ ~Replacing(v) /\ stranded \subseteq Nat
    BY <1>2, RequestFacts DEF Idle, Replacing
  <2> QED
    BY <1>2, <2>1, <2>2, <2>3, EndKeeps
<1>4. CASE ~(objects[visits[v].data] = visits[v].snapshot /\ ~rotate)
  <2>1. PICK phase \in {"setting", "signing", "destroying", "clearing"} :
          /\ phase = IF stored THEN "setting" ELSE "signing"
          /\ phase \in {"setting", "destroying"} <=> stored
    OBVIOUS
  <2>2. visits' = [visits EXCEPT ![v] =
           [visits[v] EXCEPT !.phase = phase, !.id = IF rotate THEN sids + 1 ELSE visits[v].id,
                             !.responds = responds]]
    <3>1. visits[v] \in VisitType /\ visits \in [Visits -> VisitType]
      BY RequestFacts
    <3> QED
      BY <1>1, <1>4, <2>1, <3>1 DEF VisitType
  <2> QED
    BY <1>1, <1>2, <2>1, <2>2, ReturnKeeps
<1> QED
  BY <1>3, <1>4

LEMMA NullSessionKeeps ==
  ASSUME SessionInv, NEW v \in Visits, NullSession(v)
  PROVE  SessionInv'
<1>1. PICK rotate \in {FALSE, sids < MaxIds}, responds \in BOOLEAN :
        /\ sids' = IF rotate THEN sids + 1 ELSE sids
        /\ visits' = [visits EXCEPT ![v].phase = IF stored THEN "destroying" ELSE "clearing",
                                    ![v].id = IF rotate THEN sids + 1 ELSE visits[v].id,
                                    ![v].responds = responds]
        /\ disturbed' = IF responds THEN disturbed ELSE disturbed \cup {browserOf[v]}
  BY DEF NullSession
<1>2. /\ visits[v].phase = "handling"
      /\ UNCHANGED <<browserOf, stored, sessionClock, records, objects, jar, told, crossed, stranded>>
  BY DEF NullSession
<1>3. PICK phase \in {"setting", "signing", "destroying", "clearing"} :
        /\ phase = IF stored THEN "destroying" ELSE "clearing"
        /\ phase \in {"setting", "destroying"} <=> stored
  OBVIOUS
<1>4. visits' = [visits EXCEPT ![v] =
         [visits[v] EXCEPT !.phase = phase, !.id = IF rotate THEN sids + 1 ELSE visits[v].id,
                           !.responds = responds]]
  <2>1. visits[v] \in VisitType /\ visits \in [Visits -> VisitType]
    BY RequestFacts
  <2> QED
    BY <1>1, <1>3, <2>1
<1> QED
  BY <1>1, <1>2, <1>3, <1>4, ReturnKeeps

\* Only the phase of the request changes.
LEMMA PhaseIs ==
  ASSUME SessionInv, NEW v \in Visits, NEW phase \in Phases, visits' = [visits EXCEPT ![v].phase = phase]
  PROVE  /\ visits' = [visits EXCEPT ![v] = [visits[v] EXCEPT !.phase = phase, !.id = visits[v].id,
                                                              !.responds = visits[v].responds]]
         /\ visits[v].responds \in BOOLEAN /\ visits[v].id \in Nat /\ sids + 1 # visits[v].id
         /\ \A w \in Visits : w # v => visits'[w] = visits[w]
         /\ visits'[v].phase = phase /\ visits'[v].id = visits[v].id
         /\ visits'[v].responds = visits[v].responds /\ visits'[v].first = visits[v].first
         /\ visits'[v].data = visits[v].data
<1>1. visits \in [Visits -> VisitType] /\ visits[v] \in VisitType
  BY RequestFacts
<1>2. [visits[v] EXCEPT !.phase = phase] =
        [visits[v] EXCEPT !.phase = phase, !.id = visits[v].id, !.responds = visits[v].responds]
  BY <1>1 DEF VisitType
<1>3. visits' = [visits EXCEPT ![v] = [visits[v] EXCEPT !.phase = phase]]
  BY <1>1
<1>4. visits' = [visits EXCEPT ![v] = [visits[v] EXCEPT !.phase = phase, !.id = visits[v].id,
                                                        !.responds = visits[v].responds]]
  BY ONLY <1>2, <1>3
<1>5. /\ visits[v].responds \in BOOLEAN
      /\ visits'[v] = [visits[v] EXCEPT !.phase = phase]
      /\ \A w \in Visits : w # v => visits'[w] = visits[w]
  BY <1>1, <1>3 DEF VisitType
<1>6. /\ visits'[v].phase = phase /\ visits'[v].id = visits[v].id
      /\ visits'[v].responds = visits[v].responds /\ visits'[v].first = visits[v].first
      /\ visits'[v].data = visits[v].data
  BY <1>1, <1>5 DEF VisitType
<1>7. visits[v].id \in Nat /\ sids + 1 # visits[v].id
  BY RequestFacts
<1> QED
  BY <1>4, <1>5, <1>6, <1>7

\* destroy() of an id of the request.
LEMMA WithoutIs ==
  ASSUME NEW id, records' = Without(id)
  PROVE  /\ \A i \in IdsKept' : i # id /\ i \in IdsKept /\ records'[i] = records[i]
         /\ \A i \in IdsKept : i # id => i \in IdsKept'
         /\ id \notin IdsKept'
  BY DEF Without, IdsKept

\* A request proceeds, having destroyed one of its records.
LEMMA DestroyKeeps ==
  ASSUME SessionInv, NEW v \in Visits, stored,
         visits[v].phase \in {"destroying", "destroyingFirst", "orphaning"},
         NEW id \in {visits[v].id, visits[v].first}, records' = Without(id),
         NEW phase \in {"destroyingFirst", "clearing", "signing"},
         phase = "signing" <=> visits[v].phase = "orphaning",
         phase # "destroyingFirst" => visits[v].first \notin IdsKept',
         visits' = [visits EXCEPT ![v].phase = phase],
         UNCHANGED <<browserOf, stored, sessionClock, sids, objects, jar, told, disturbed, crossed, stranded>>
  PROVE  SessionInv'
<1>0. phase \in Phases
  BY DEF Phases
<1>1. /\ \A i \in IdsKept' : i # id /\ i \in IdsKept /\ records'[i] = records[i]
      /\ \A i \in IdsKept : i # id => i \in IdsKept'
  BY WithoutIs
<1>2. /\ visits' = [visits EXCEPT ![v] = [visits[v] EXCEPT !.phase = phase, !.id = visits[v].id,
                                                           !.responds = visits[v].responds]]
      /\ visits[v].responds \in BOOLEAN
  BY <1>0, PhaseIs
<1>3. /\ phase \in Phases \ Idle /\ visits[v].phase \notin {"new", "done"} /\ visits[v].phase \notin Idle
  BY DEF Phases, Idle
<1>4. /\ \A w \in Visits : w # v => visits'[w] = visits[w]
      /\ visits'[v].phase = phase /\ visits'[v].id = visits[v].id
      /\ visits'[v].responds = visits[v].responds /\ visits'[v].first = visits[v].first
      /\ visits'[v].data = visits[v].data
  BY <1>0, PhaseIs
<1>5. RecordsOK'
  BY <1>1, <1>4 DEF SessionInv, RecordsOK
<1>6. ASSUME NEW b \in Browsers \ {browserOf[v]}, Live(jar[b].id) PROVE jar[b].id \in IdsKept'
  <2>1. jar[b].id \in IdsKept
    BY <1>6 DEF Live
  <2>2. jar[b].id # id
    BY <1>6, <2>1, OthersIds
  <2> QED
    BY <1>1, <2>1, <2>2
<1>7. OwnKept(v)
  <2> SUFFICES ASSUME browserOf[v] \notin disturbed
               PROVE  RequestOK(v)' /\ stored' /\ visits'[v].phase # "done" /\ Replacing(v)'
    BY DEF OwnKept
  <2>1. RequestOK(v)
    BY <1>3, RequestIsOK
  <2>2. RequestOK(v)'
    BY <1>1, <1>4, <2>1 DEF RequestOK, Writing
  <2> QED
    BY <1>4, <2>2 DEF Replacing
<1>8. LoneKept(v)
  <2> SUFFICES ASSUME v \notin crossed PROVE Lone(v)'
    BY DEF LoneKept
  <2>1. Lone(v)
    BY <1>3, RequestIsOK
  <2> QED
    BY <1>1, <1>4, <2>1 DEF Lone
<1>9. Covering(v)
  BY <1>1, <1>4 DEF Covering, Writing
<1>10. stranded \subseteq Nat /\ sids + 1 # visits[v].id
  BY RequestFacts
<1> QED
  BY <1>1, <1>2, <1>3, <1>5, <1>6, <1>7, <1>8, <1>9, <1>10, MoveKeeps

LEMMA DestroyRecordKeeps ==
  ASSUME SessionInv, NEW v \in Visits, DestroyRecord(v)
  PROVE  SessionInv'
<1>1. PICK phase \in {"destroyingFirst", "clearing", "signing"} :
        phase = IF visits[v].first \notin {0, visits[v].id} THEN "destroyingFirst" ELSE "clearing"
  OBVIOUS
<1>2. /\ visits[v].phase = "destroying" /\ records' = Without(visits[v].id)
      /\ visits' = [visits EXCEPT ![v].phase = phase]
      /\ UNCHANGED <<browserOf, stored, sessionClock, sids, objects, jar, told, disturbed, crossed, stranded>>
  BY <1>1 DEF DestroyRecord
<1>3. visits[v].id \notin IdsKept' /\ 0 \notin IdsKept'
  BY <1>2, WithoutIs, RequestFacts
<1>4. phase # "destroyingFirst" => visits[v].first \notin IdsKept'
  BY <1>1, <1>3
<1>5. stored /\ phase # "signing"
  BY <1>1, <1>2 DEF SessionInv, RecordsOK
<1> QED
  BY <1>2, <1>4, <1>5, DestroyKeeps

LEMMA DestroyFirstKeeps ==
  ASSUME SessionInv, NEW v \in Visits, DestroyFirst(v)
  PROVE  SessionInv'
<1>1. /\ visits[v].phase = "destroyingFirst" /\ records' = Without(visits[v].first)
      /\ visits' = [visits EXCEPT ![v].phase = "clearing"]
      /\ UNCHANGED <<browserOf, stored, sessionClock, sids, objects, jar, told, disturbed, crossed, stranded>>
  BY DEF DestroyFirst
<1>2. stored /\ visits[v].first \notin IdsKept'
  BY <1>1, WithoutIs DEF SessionInv, RecordsOK
<1> QED
  BY <1>1, <1>2, DestroyKeeps

LEMMA DropOrphanKeeps ==
  ASSUME SessionInv, NEW v \in Visits, DropOrphan(v)
  PROVE  SessionInv'
<1>1. /\ visits[v].phase = "orphaning" /\ records' = Without(visits[v].first)
      /\ visits' = [visits EXCEPT ![v].phase = "signing"]
      /\ UNCHANGED <<browserOf, stored, sessionClock, sids, objects, jar, told, disturbed, crossed, stranded>>
  BY DEF DropOrphan
<1>2. stored /\ visits[v].first \notin IdsKept'
  BY <1>1, WithoutIs DEF SessionInv, RecordsOK
<1> QED
  BY <1>1, <1>2, DestroyKeeps

\* set() of a record: it is there, and of the others those that there is room for.
LEMMA WrittenIs ==
  ASSUME NEW id, NEW data, records' = Written(id, data)
  PROVE  /\ IdsKept' = Room(id) \cup {id} /\ Room(id) \subseteq IdsKept
         /\ records'[id].data = data /\ records'[id].exp = sessionClock + MaxAge
         /\ \A i \in IdsKept' : i # id => i \in IdsKept /\ records'[i] = records[i]
<1>1. Room(id) \subseteq IdsKept
  BY DEF Room
<1>2. PICK place : records' = [i \in Room(id) \cup {id} |->
                                 IF i = id THEN [data |-> data, exp |-> sessionClock + MaxAge, place |-> place]
                                 ELSE records[i]]
  BY DEF Written
<1> QED
  BY <1>1, <1>2 DEF IdsKept

LEMMA SetRecordKeeps ==
  ASSUME SessionInv, NEW v \in Visits, SetRecord(v)
  PROVE  SessionInv'
<1> DEFINE own == jar[browserOf[v]].id
           id == visits[v].id
<1>1. PICK phase \in {"orphaning", "signing"} :
        phase = IF visits[v].first \notin {0, visits[v].id} THEN "orphaning" ELSE "signing"
  OBVIOUS
<1>2. /\ visits[v].phase = "setting" /\ records' = Written(id, visits[v].data)
      /\ visits' = [visits EXCEPT ![v].phase = phase]
      /\ disturbed' = disturbed \cup {b \in Browsers : Live(jar[b].id) /\ jar[b].id \notin IdsKept'}
      /\ UNCHANGED <<browserOf, stored, sessionClock, sids, objects, jar, told, crossed, stranded>>
  BY <1>1 DEF SetRecord, IdsKept
<1>0. phase \in Phases
  BY DEF Phases
<1>3. /\ visits' = [visits EXCEPT ![v] = [visits[v] EXCEPT !.phase = phase, !.id = visits[v].id,
                                                           !.responds = visits[v].responds]]
      /\ visits[v].responds \in BOOLEAN
  BY <1>0, <1>2, PhaseIs
<1>4. /\ phase \in Phases \ Idle /\ visits[v].phase \notin {"new", "done"} /\ visits[v].phase \notin Idle
      /\ id \in Nat
  BY <1>2, RequestFacts DEF Phases, Idle
<1>5. /\ \A w \in Visits : w # v => visits'[w] = visits[w]
      /\ visits'[v].phase = phase /\ visits'[v].id = id
      /\ visits'[v].responds = visits[v].responds /\ visits'[v].first = visits[v].first
      /\ visits'[v].data = visits[v].data
  BY <1>0, <1>2, PhaseIs
<1>6. /\ IdsKept' \subseteq IdsKept \cup {id}
      /\ records'[id].data = visits[v].data
      /\ records'[id].exp = sessionClock + MaxAge
      /\ \A i \in IdsKept' : i # id => i \in IdsKept /\ records'[i] = records[i]
  BY <1>2, WrittenIs
<1>7. id # 0 /\ visits[v].data \in Visits /\ stored
  BY <1>2, <1>4 DEF SessionInv, CookiesNamed, ObjectsOK, RecordsOK
<1>8. RecordsOK'
  <2>1. id \in 1..sids /\ sessionClock + MaxAge \in Nat
    BY <1>7, RequestFacts, SessionAssumption
  <2>2. \A w \in Visits :
          visits'[w].phase \in {"setting", "orphaning", "destroying", "destroyingFirst"} => stored'
    BY <1>2, <1>7
  <2>3. ASSUME NEW i \in IdsKept'
        PROVE  /\ i \in 1..sids' /\ records'[i].data \in Visits
               /\ records'[i].exp \in Nat /\ records'[i].exp <= sessionClock' + MaxAge
    <3>1. CASE i = id
      BY <1>2, <1>6, <1>7, <2>1, <3>1
    <3>2. CASE i # id
      BY <1>2, <1>6, <3>2 DEF SessionInv, RecordsOK
    <3> QED
      BY <3>1, <3>2
  <2> QED
    BY <1>2, <1>7, <2>2, <2>3 DEF RecordsOK
<1>9. OwnKept(v)
  <2> SUFFICES ASSUME browserOf[v] \notin disturbed
               PROVE  RequestOK(v)' /\ stored' /\ visits'[v].phase # "done" /\ Replacing(v)'
    BY <1>2 DEF OwnKept
  <2>1. RequestOK(v)
    BY <1>4, RequestIsOK
  <2>2. RequestOK(v)'
    BY <1>2, <1>5, <1>6, <2>1 DEF RequestOK
  <2> QED
    BY <1>2, <1>5, <1>7, <2>2 DEF Replacing
<1>10. LoneKept(v)
  <2> SUFFICES ASSUME v \notin crossed PROVE Lone(v)'
    BY <1>2 DEF LoneKept
  <2>1. Lone(v)
    BY <1>4, RequestIsOK
  <2>2. /\ visits[v].first \in {0, own}
        /\ visits[v].first = 0 =>
             id # own /\ (own \in IdsKept => records[own].exp <= sessionClock \/ own \in stranded)
    BY <1>2, <2>1 DEF Lone
  <2>3. own \in IdsKept' /\ own # id => own \in IdsKept /\ records'[own] = records[own]
    BY <1>6
  <2>4. 0 \notin IdsKept'
    BY <1>6, <1>7, RequestFacts
  <2> QED
    BY <1>1, <1>2, <1>5, <2>2, <2>3, <2>4 DEF Lone
<1>11. Covering(v)
  BY <1>2, <1>5, <1>6 DEF Covering, Writing
<1>12. stranded \subseteq Nat /\ sids + 1 # id
  BY RequestFacts
<1>13. disturbed \subseteq disturbed' /\ sids' \in {sids, sids + 1} /\ stranded \subseteq stranded'
  BY <1>2
<1>14. \A b \in Browsers : Live(jar[b].id) /\ jar[b].id \notin IdsKept' => b \in disturbed'
  BY <1>2
<1> QED
  BY <1>2, <1>3, <1>4, <1>6, <1>8, <1>9, <1>10, <1>11, <1>12, <1>13, <1>14, MoveKeeps

LEMMA StoreUnavailableKeeps ==
  ASSUME SessionInv, NEW v \in Visits, StoreUnavailable(v)
  PROVE  SessionInv'
<1>1. /\ disturbed' = disturbed \cup {browserOf[v]}
      /\ UNCHANGED <<browserOf, stored, sessionClock, sids, records, objects, crossed>>
  BY DEF StoreUnavailable
<1>2. stranded \subseteq Nat /\ visits[v].id \in Nat /\ visits[v].first \in Nat
  BY RequestFacts
<1>3. CASE visits[v].phase = "setting" /\ Unchanged(v) /\ UNCHANGED stranded
  <2>1. visits[v].phase \notin Idle
    BY <1>3 DEF Idle
  <2> QED
    BY <1>1, <1>2, <1>3, <2>1, UnchangedIs, EndKeeps
<1>4. CASE visits[v].phase = "orphaning" /\ Unchanged(v) /\ stranded' = stranded \cup {visits[v].id}
  <2>1. visits[v].phase \notin Idle
    BY <1>4 DEF Idle
  <2>2. stranded' \subseteq Nat /\ visits[v].id \in stranded' /\ stranded \subseteq stranded'
    BY <1>2, <1>4
  <2> QED
    BY <1>1, <1>4, <2>1, <2>2, UnchangedIs, EndKeeps
<1>5. CASE /\ visits[v].phase \in {"destroying", "destroyingFirst"}
           /\ visits' = [visits EXCEPT ![v].phase = "clearing"] /\ UNCHANGED <<jar, told>>
           /\ stranded' = stranded \cup {visits[v].first}
  <2>0. "clearing" \in Phases
    BY DEF Phases
  <2>1. /\ visits' = [visits EXCEPT ![v] = [visits[v] EXCEPT !.phase = "clearing", !.id = visits[v].id,
                                                             !.responds = visits[v].responds]]
        /\ visits[v].responds \in BOOLEAN
    BY <1>5, <2>0, PhaseIs
  <2>2. /\ "clearing" \in Phases \ Idle /\ visits[v].phase \notin {"new", "done"}
        /\ visits[v].phase \notin Idle /\ IdsKept' = IdsKept
    BY <1>1, <1>5 DEF Phases, Idle, IdsKept
  <2>3. /\ \A w \in Visits : w # v => visits'[w] = visits[w]
        /\ visits'[v].phase = "clearing" /\ visits'[v].id = visits[v].id
        /\ visits'[v].first = visits[v].first
    BY <1>5, <2>0, PhaseIs
  <2>4. RecordsOK'
    BY <1>1, <2>2, <2>3 DEF SessionInv, RecordsOK
  <2>5. OwnKept(v)
    BY <1>1 DEF OwnKept
  <2>6. LoneKept(v)
    <3> SUFFICES ASSUME v \notin crossed PROVE Lone(v)'
      BY <1>1 DEF LoneKept
    <3>1. Lone(v)
      BY <2>2, RequestIsOK
    <3> QED
      BY <1>1, <1>5, <2>2, <2>3, <3>1 DEF Lone
  <2>7. Covering(v)
    BY <1>1, <1>5, <2>2 DEF Covering, Writing
  <2>8. sids + 1 # visits[v].id
    BY RequestFacts
  <2>9. /\ stranded' \subseteq Nat /\ stranded \subseteq stranded' /\ disturbed \subseteq disturbed'
        /\ \A b \in Browsers : ~(Live(jar[b].id) /\ jar[b].id \notin IdsKept')
    BY <1>1, <1>2, <1>5, <2>2 DEF Live
  <2> QED
    BY <1>1, <1>5, <2>1, <2>2, <2>4, <2>5, <2>6, <2>7, <2>8, <2>9, MoveKeeps
<1> QED
  BY <1>3, <1>4, <1>5 DEF StoreUnavailable

\* The reply of a request replaces the cookie, or is lost.
LEMMA CloseKeeps ==
  ASSUME SessionInv, NEW v \in Visits, visits[v].phase \in {"signing", "clearing"},
         NEW cookie \in CookieType, NEW note \in NoteType, Close(v, cookie, note),
         UNCHANGED <<browserOf, stored, sessionClock, sids, records, objects, disturbed, crossed>>,
         stranded \subseteq stranded', stranded' \subseteq Nat,
         cookie.id \in {0, visits[v].id}, cookie.exp > 0 => cookie.id # 0,
         cookie.id \in IdsKept => records[cookie.id].exp <= cookie.exp,
         note.until > 0 => note.data \in Visits /\ (~stored => note.data = v),
         visits[v].responds # TRUE /\ visits[v].phase = "signing" => visits[v].id \in stranded',
         visits[v].responds = TRUE /\ visits[v].phase = "signing" => cookie.id = visits[v].id,
         visits[v].responds = TRUE /\ v \in crossed =>
           jar[browserOf[v]].id \in stranded' \cup {cookie.id},
         visits[v].phase = "clearing" => cookie.id = 0,
         browserOf[v] \notin disturbed /\ jar'[browserOf[v]] = cookie => Remembered(browserOf[v])'
  PROVE  SessionInv'
<1> DEFINE own == jar[browserOf[v]].id
<1>1. /\ visits' \in [Visits -> VisitType]
      /\ visits'[v].phase = "done" /\ visits'[v].cookie = NoCookie
      /\ visits'[v].id = 0 /\ visits'[v].first = 0
      /\ NoCookie.id = 0 /\ NoCookie.exp = 0
      /\ \A w \in Visits : w # v => visits'[w] = visits[w]
      /\ jar' \in [Browsers -> CookieType] /\ told' \in [Browsers -> NoteType]
      /\ \A b \in Browsers : b # browserOf[v] => jar'[b] = jar[b] /\ told'[b] = told[b]
      /\ visits[v].responds = TRUE => jar'[browserOf[v]] = cookie
      /\ visits[v].responds # TRUE => jar'[browserOf[v]] = jar[browserOf[v]]
      /\ told'[browserOf[v]] = note
  BY CloseIs
<1>2. IdsKept' = IdsKept /\ visits[v].phase \notin {"new", "done"} /\ 0 \notin IdsKept
  BY RequestFacts DEF IdsKept
<1>3. SessionTypeOK'
  BY <1>1, RequestFacts DEF SessionInv, SessionTypeOK
<1>4. RecordsOK'
  BY <1>1, <1>2 DEF SessionInv, RecordsOK
<1>5. CookiesNamed'
  <2>1. \A b \in Browsers : jar'[b].exp > 0 => jar'[b].id # 0
    <3>1. ASSUME NEW b \in Browsers PROVE jar'[b] = jar[b] \/ jar'[b] = cookie
      BY <1>1
    <3> QED
      BY <3>1 DEF SessionInv, CookiesNamed
  <2>2. \A w \in Visits : /\ visits'[w].cookie.exp > 0 => visits'[w].cookie.id # 0
                          /\ visits'[w].phase \notin Idle => visits'[w].id # 0
    BY <1>1 DEF SessionInv, CookiesNamed, Idle
  <2> QED
    BY <2>1, <2>2 DEF CookiesNamed
<1>6. StepBy(v)
  <2>1. jar'[browserOf[v]].id \in {0, own, visits[v].id}
    BY <1>1
  <2>2. /\ \A i \in {visits'[v].cookie.id, visits'[v].first, visits'[v].id} : i = 0
        /\ \A b \in Browsers : ~(Live(jar[b].id) /\ jar[b].id \notin IdsKept')
    BY <1>1, <1>2 DEF Live
  <2> QED
    BY <1>1, <1>2, <2>1, <2>2 DEF StepBy
<1>7. OwnKept(v)
  <2> SUFFICES ASSUME browserOf[v] \notin disturbed PROVE Remembered(browserOf[v])'
    BY <1>1 DEF OwnKept
  <2>1. visits[v].responds = TRUE
    BY <1>2, RequestIsOK DEF RequestOK
  <2> QED
    BY <1>1, <2>1
<1>8. LoneKept(v) /\ ObjectKept(v)
  BY <1>1 DEF LoneKept, ObjectKept, Idle
<1>9. Covering(v)
  <2>1. ASSUME own \in IdsKept, visits[v].responds = TRUE, v \notin crossed, own # cookie.id
        PROVE  own \in stranded' \/ records[own].exp <= sessionClock
    <3>1. Lone(v)
      BY <1>2, <2>1, RequestIsOK
    <3> QED
      BY <2>1, <3>1 DEF Lone
  <2>2. own \in IdsKept =>
          jar'[browserOf[v]].id = own \/ own \in stranded' \/ records[own].exp <= sessionClock
    BY <1>1, <2>1
  <2>3. visits[v].phase \in Writing /\ visits[v].id \in IdsKept =>
          \/ visits[v].id \in stranded'
          \/ jar'[browserOf[v]].id = visits[v].id /\ records[visits[v].id].exp <= jar'[browserOf[v]].exp
    BY <1>1 DEF Writing
  <2>4. jar'[browserOf[v]].id \in IdsKept =>
          jar'[browserOf[v]] = jar[browserOf[v]]
            \/ records[jar'[browserOf[v]].id].exp <= jar'[browserOf[v]].exp
    BY <1>1
  <2> QED
    BY <1>2, <2>2, <2>3, <2>4 DEF Covering
<1> QED
  BY <1>1, <1>2, <1>3, <1>4, <1>5, <1>6, <1>7, <1>8, <1>9, StepKeeps

LEMMA ClearCookieKeeps ==
  ASSUME SessionInv, NEW v \in Visits, ClearCookie(v)
  PROVE  SessionInv'
<1>1. /\ visits[v].phase = "clearing"
      /\ UNCHANGED <<browserOf, stored, sessionClock, sids, records, objects, disturbed, crossed>>
      /\ stranded' = IF visits[v].responds /\ v \in crossed THEN stranded \cup {jar[browserOf[v]].id}
                     ELSE stranded
  BY DEF ClearCookie
<1>2. PICK note \in NoteType : /\ note.data = Empty /\ note.until = 0
                               /\ Close(v, NoCookie, note)
  <2>1. [data |-> Empty, until |-> 0] \in NoteType
    BY DEF NoteType
  <2> QED
    BY <2>1 DEF ClearCookie
<1>3. NoCookie \in CookieType /\ NoCookie.id = 0 /\ NoCookie.exp = 0
  BY DEF NoCookie, CookieType, Held
<1>4. /\ stranded \subseteq stranded' /\ stranded' \subseteq Nat
      /\ visits[v].responds = TRUE /\ v \in crossed => jar[browserOf[v]].id \in stranded'
  BY <1>1, RequestFacts
<1>5. ASSUME jar'[browserOf[v]] = NoCookie PROVE Remembered(browserOf[v])'
  <2>1. told'[browserOf[v]] = note
    BY <1>2, <1>3, CloseIs
  <2>2. 0 \notin IdsKept' /\ sessionClock' = sessionClock /\ sessionClock \in Nat
        /\ browserOf' = browserOf
    BY <1>1, RequestFacts DEF IdsKept
  <2> QED
    BY <1>2, <1>3, <1>5, <2>1, <2>2 DEF Remembered
<1>6. /\ 0 \notin IdsKept /\ NoCookie.id \notin IdsKept /\ ~(NoCookie.exp > 0) /\ ~(note.until > 0)
  BY <1>2, <1>3, RequestFacts
<1> QED
  BY <1>1, <1>2, <1>3, <1>4, <1>5, <1>6, CloseKeeps

LEMMA SignKeeps ==
  ASSUME SessionInv, NEW v \in Visits, Sign(v)
  PROVE  SessionInv'
<1> DEFINE own == jar[browserOf[v]].id
           id == visits[v].id
           holds == objects[visits[v].data]
           until == IF ~stored THEN sessionClock + MaxAge ELSE IF id \in IdsKept THEN records[id].exp ELSE 0
<1>1. /\ visits[v].phase = "signing" /\ visits[v].phase \notin Idle
      /\ UNCHANGED <<browserOf, stored, sessionClock, sids, records, objects, disturbed, crossed, IdsKept>>
  BY DEF Sign, IdsKept, Idle
<1>2. CASE ~stored /\ holds \in TooLarge
  <2>1. Unchanged(v) /\ UNCHANGED stranded
    BY <1>2 DEF Sign
  <2>2. stranded \subseteq Nat
    BY RequestFacts
  <2> QED
    BY <1>1, <1>2, <2>1, <2>2, UnchangedIs, EndKeeps
<1>3. CASE ~(~stored /\ holds \in TooLarge)
  <2>1. /\ visits[v].data \in Visits /\ (~stored => visits[v].data = v)
        /\ holds \in Held /\ Empty \in Held /\ sessionClock + MaxAge \in Nat
        /\ id \in Nat /\ id # 0 /\ until \in Nat
    <3>1. visits[v].data \in Visits /\ (~stored => visits[v].data = v) /\ id # 0
      BY <1>1 DEF SessionInv, ObjectsOK, CookiesNamed
    <3>2. holds \in Held /\ Empty \in Held /\ sessionClock + MaxAge \in Nat /\ id \in Nat
      BY <3>1, RequestFacts, SessionAssumption DEF Held
    <3>3. id \in IdsKept => records[id].exp \in Nat
      BY DEF SessionInv, RecordsOK
    <3> QED
      BY <3>1, <3>2, <3>3
  <2>2. PICK cookie \in CookieType, note \in NoteType :
          /\ cookie = [id |-> id, data |-> IF stored THEN Empty ELSE holds,
                       exp |-> sessionClock + MaxAge]
          /\ note = [data |-> visits[v].data, until |-> until]
          /\ Close(v, cookie, note)
    <3>1. [id |-> id, data |-> IF stored THEN Empty ELSE holds, exp |-> sessionClock + MaxAge] \in CookieType
      BY <2>1 DEF CookieType
    <3>2. [data |-> visits[v].data, until |-> until] \in NoteType
      BY <2>1 DEF NoteType
    <3>3. Close(v, [id |-> id, data |-> IF stored THEN Empty ELSE holds,
                    exp |-> sessionClock + MaxAge], [data |-> visits[v].data, until |-> until])
      BY <1>3 DEF Sign
    <3> QED
      BY ONLY <3>1, <3>2, <3>3
  <2>3. /\ cookie.id = id /\ cookie.exp = sessionClock + MaxAge
        /\ cookie.data = (IF stored THEN Empty ELSE holds)
        /\ note.data = visits[v].data /\ note.until = until
    BY <2>2
  <2>4. stranded' = IF ~visits[v].responds THEN stranded \cup {id}
                    ELSE IF v \in crossed THEN stranded \cup ({own} \ {id})
                    ELSE stranded
    BY <1>3 DEF Sign
  <2>5. /\ stranded \subseteq stranded' /\ stranded' \subseteq Nat
        /\ visits[v].responds # TRUE => id \in stranded'
        /\ visits[v].responds = TRUE /\ v \in crossed => own \in stranded' \cup {id}
    <3>1. visits[v].responds \in BOOLEAN /\ stranded \subseteq Nat /\ own \in Nat
      BY RequestFacts DEF VisitType
    <3> QED
      BY <2>1, <2>4, <3>1
  <2>6. id \in IdsKept => records[id].exp \in Nat /\ records[id].exp <= sessionClock + MaxAge
    BY DEF SessionInv, RecordsOK
  <2>7. ASSUME browserOf[v] \notin disturbed, jar'[browserOf[v]] = cookie
        PROVE  Remembered(browserOf[v])'
    <3>1. /\ browserOf' = browserOf /\ stored' = stored /\ sessionClock' = sessionClock
          /\ records' = records /\ IdsKept' = IdsKept /\ objects' = objects
          /\ told'[browserOf[v]] = note
      BY <1>1, <2>2, CloseIs
    <3>2. CASE stored
      <4>1. id \in IdsKept => records[id].data = visits[v].data
        BY <1>1, <2>7, RequestIsOK DEF RequestOK, Writing
      <4>2. until = IF id \in IdsKept THEN records[id].exp ELSE 0
        BY <3>2 DEF until
      <4> QED
        BY <2>1, <2>3, <2>6, <2>7, <3>1, <3>2, <4>1, <4>2, RequestFacts DEF Remembered
    <3>3. CASE ~stored
      <4>1. until = sessionClock + MaxAge
        BY <3>3 DEF until
      <4> QED
        BY <2>3, <2>7, <3>1, <3>3, <4>1 DEF Remembered
    <3> QED
      BY <3>2, <3>3
  <2>8. /\ cookie.id \in {0, id} /\ (cookie.exp > 0 => cookie.id # 0)
        /\ (cookie.id \in IdsKept => records[cookie.id].exp <= cookie.exp)
        /\ (note.until > 0 => note.data \in Visits /\ (~stored => note.data = v))
    BY <2>1, <2>3, <2>6
  <2> HIDE DEF own, id, holds, until
  <2>9. /\ visits[v].phase \in {"signing", "clearing"} /\ visits[v].phase # "clearing"
        /\ UNCHANGED <<browserOf, stored, sessionClock, sids, records, objects, disturbed, crossed>>
        /\ cookie \in CookieType /\ note \in NoteType /\ Close(v, cookie, note)
    BY <1>1, <2>2
  <2>10. /\ cookie.id \in {0, visits[v].id} /\ cookie.id = visits[v].id
         /\ visits[v].responds # TRUE => visits[v].id \in stranded'
         /\ visits[v].responds = TRUE /\ v \in crossed =>
              jar[browserOf[v]].id \in stranded' \cup {cookie.id}
    BY <2>3, <2>5, <2>8 DEF id, own
  <2> QED
    BY ONLY SessionInv, v \in Visits, <2>5, <2>7, <2>8, <2>9, <2>10, CloseKeeps
<1> QED
  BY <1>2, <1>3

LEMMA VisitKeeps ==
  ASSUME SessionInv, NEW v \in Visits, Visit(v)
  PROVE  SessionInv'
<1>0. PICK b \in Browsers : b = browserOf[v]
  BY RequestFacts
<1>1. /\ visits[v].phase = "new"
      /\ visits' = [visits EXCEPT ![v].phase = "verifying", ![v].cookie = jar[b]]
      /\ disturbed' = IF Open(b) = {} THEN disturbed ELSE disturbed \cup {b}
      /\ crossed' = IF Open(b) = {} THEN crossed ELSE crossed \cup Open(b) \cup {v}
      /\ UNCHANGED <<browserOf, stored, sessionClock, sids, records, objects, jar, told, stranded, IdsKept>>
  BY <1>0 DEF Visit, IdsKept
<1>2. /\ visits'[v] = [visits[v] EXCEPT !.phase = "verifying", !.cookie = jar[b]]
      /\ \A w \in Visits : w # v => visits'[w] = visits[w]
      /\ visits' = [visits EXCEPT ![v] = visits'[v]]
  BY <1>1, RequestFacts
<1>3. /\ visits'[v].phase = "verifying" /\ visits'[v].cookie = jar[b]
      /\ visits'[v].id = visits[v].id /\ visits'[v].first = visits[v].first
  BY <1>2, RequestFacts DEF VisitType
<1>4. SessionTypeOK'
  <2>1. "verifying" \in Phases /\ Open(b) \subseteq Visits
    BY DEF Phases, Open
  <2>2. visits'[v] \in VisitType
    BY <1>0, <1>2, <2>1, RequestFacts DEF VisitType
  <2>3. crossed' \subseteq Visits
    BY <1>1, <2>1, RequestFacts
  <2> QED
    BY <1>1, <1>2, <2>2, <2>3, RequestFacts DEF SessionInv, SessionTypeOK
<1>5. RecordsOK'
  BY <1>1, <1>2, <1>3 DEF SessionInv, RecordsOK
<1>6. ObjectsOK'
  <2>1. \A w \in Visits :
          visits'[w].phase \notin Idle => visits'[w].data \in Visits /\ (~stored => visits'[w].data = w)
    BY <1>2, <1>3 DEF SessionInv, ObjectsOK, Idle
  <2>2. ASSUME NEW c \in Browsers, told[c].until > 0
        PROVE  told[c].data \in Visits /\ (~stored => visits'[told[c].data].phase = "done")
    <3>1. told[c].data \in Visits /\ (~stored => visits[told[c].data].phase = "done")
      BY <2>2 DEF SessionInv, ObjectsOK
    <3> QED
      BY <1>1, <1>2, <3>1
  <2> QED
    BY <1>1, <2>1, <2>2 DEF ObjectsOK
<1>7. CookiesNamed'
  <2>1. \A w \in Visits : w # v => visits'[w] = visits[w]
    BY <1>2
  <2> QED
    BY <1>1, <1>3, <2>1 DEF SessionInv, CookiesNamed, Idle
<1>8. StepBy(v)
  BY <1>0, <1>1, <1>2, <1>3 DEF StepBy, Live
<1>9. Covering(v)
  BY <1>0, <1>1, <1>3 DEF Covering, Writing
<1>10. BrowserOK(b)'
  <2> SUFFICES ASSUME b \notin disturbed'
               PROVE  /\ \A w, u \in Open(b)' : w = u
                      /\ \A w \in Open(b)' : RequestOK(w)'
                      /\ Remembered(b)'
    BY <1>1 DEF BrowserOK
  <2>1. Open(b) = {} /\ b \notin disturbed
    BY <1>1
  <2>2. \A w \in Open(b)' : w = v
    BY <1>0, <1>1, <1>2, <2>1 DEF Open
  <2>3. Remembered(b)
    BY <2>1 DEF SessionInv, BrowserOK
  <2>4. Remembered(b)'
    BY <1>1, <2>3 DEF Remembered
  <2>5. RequestOK(v)'
    BY <1>0, <1>1, <1>3 DEF RequestOK, Writing
  <2> QED
    BY <2>2, <2>4, <2>5
<1>11. ASSUME NEW c \in Browsers PROVE BrowserOK(c)'
  <2>1. CASE c = b
    BY <1>10, <2>1
  <2>2. CASE c # b
    BY <1>0, <1>1, <1>4, <1>5, <1>8, <2>2, OthersKept
  <2> QED
    BY <2>1, <2>2
<1>12. RequestsOK'
  <2>1. ASSUME NEW w \in Visits, NEW u \in Visits, Meeting(w, u)' PROVE w \in crossed'
    <3>1. CASE w # v /\ u # v
      <4>1. Meeting(w, u)
        BY <1>1, <1>2, <2>1, <3>1 DEF Meeting
      <4> QED
        BY <1>1, <4>1 DEF SessionInv, RequestsOK
    <3>2. CASE w = v /\ u # v
      <4>1. u \in Open(b)
        BY <1>0, <1>1, <1>2, <2>1, <3>2 DEF Meeting, Open
      <4> QED
        BY <1>1, <3>2, <4>1
    <3>3. CASE u = v /\ w # v
      <4>1. w \in Open(b)
        BY <1>0, <1>1, <1>2, <2>1, <3>3 DEF Meeting, Open
      <4> QED
        BY <1>1, <3>3, <4>1
    <3> QED
      BY <2>1, <3>1, <3>2, <3>3 DEF Meeting
  <2>2. ASSUME NEW w \in Visits, visits'[w].phase \notin {"new", "done"}, w \notin crossed'
        PROVE  Lone(w)'
    <3>1. CASE w = v
      BY <1>0, <1>1, <1>3, <3>1 DEF Lone
    <3>2. CASE w # v
      <4>1. visits'[w] = visits[w] /\ w \notin crossed
        BY <1>1, <1>2, <2>2, <3>2
      <4>2. Lone(w)
        BY <2>2, <4>1 DEF SessionInv, RequestsOK
      <4>3. /\ browserOf' = browserOf /\ jar' = jar /\ records' = records /\ IdsKept' = IdsKept
            /\ sessionClock' = sessionClock /\ stranded' = stranded
        BY <1>1
      <4> QED
        BY ONLY <4>1, <4>2, <4>3 DEF Lone
    <3> QED
      BY <3>1, <3>2
  <2> QED
    BY <2>1, <2>2 DEF RequestsOK
<1>13. IdsOwned' /\ NoOrphans' /\ \A c \in Browsers : JarOK(c)'
  <2>1. visits[v].phase # "done" /\ visits'[v].phase # "new"
    BY <1>1, <1>3
  <2> QED
    BY <1>4, <1>5, <1>8, <1>9, <2>1, StepOwns, OrphansCovered, JarsKept
<1> QED
  BY <1>4, <1>5, <1>6, <1>7, <1>11, <1>12, <1>13 DEF SessionInv

LEMMA SessionTickKeeps ==
  ASSUME SessionInv, SessionTick
  PROVE  SessionInv'
<1>1. /\ sessionClock' = sessionClock + 1 /\ sessionClock \in Nat
      /\ UNCHANGED <<browserOf, stored, sids, records, objects, jar, visits, told,
                     disturbed, crossed, stranded, IdsKept>>
  BY DEF SessionTick, IdsKept, SessionInv, SessionTypeOK
<1>2. SessionTypeOK'
  BY <1>1 DEF SessionInv, SessionTypeOK
<1>3. RecordsOK'
  <2>1. ASSUME NEW i \in IdsKept PROVE records[i].exp <= sessionClock + 1 + MaxAge
    <3>1. records[i].exp \in Nat /\ records[i].exp <= sessionClock + MaxAge
      BY DEF SessionInv, RecordsOK
    <3> QED
      BY <1>1, <3>1, SessionAssumption
  <2> QED
    BY <1>1, <2>1 DEF SessionInv, RecordsOK
<1>4. IdsOwned' /\ CookiesNamed' /\ ObjectsOK'
  <2>1. \A b, i : Uses(b, i)' <=> Uses(b, i)
    BY <1>1 DEF Uses
  <2>2. IdsOwned'
    BY <1>1, <2>1 DEF SessionInv, IdsOwned
  <2>3. CookiesNamed'
    BY <1>1 DEF SessionInv, CookiesNamed
  <2>4. ObjectsOK'
    BY <1>1 DEF SessionInv, ObjectsOK
  <2> QED
    BY <2>2, <2>3, <2>4
<1>5. \A i \in IdsKept : records[i].exp \in Nat
  BY DEF SessionInv, RecordsOK
<1>6. \A i \in IdsKept : records[i].exp <= sessionClock => records[i].exp <= sessionClock + 1
  BY <1>1, <1>5
<1>7. ASSUME NEW b \in Browsers PROVE BrowserOK(b)' /\ JarOK(b)'
  <2>1. JarOK(b)'
    BY <1>1 DEF SessionInv, JarOK, Open
  <2>2. Remembered(b) => Remembered(b)'
    <3>1. /\ told[b].until \in Nat /\ jar[b].exp \in Nat
          /\ jar[b].id \in IdsKept => records[jar[b].id].exp \in Nat
      BY <1>5 DEF SessionInv, SessionTypeOK, CookieType, NoteType
    <3> QED
      BY <1>1, <3>1 DEF Remembered
  <2>3. BrowserOK(b)
    BY DEF SessionInv
  <2>4. /\ Open(b)' = Open(b) /\ disturbed' = disturbed /\ stored' = stored
        /\ \A v \in Open(b) : (RequestOK(v)' <=> RequestOK(v)) /\ (Replacing(v)' <=> Replacing(v))
    BY <1>1 DEF Open, RequestOK, Replacing
  <2> QED
    BY <2>1, <2>2, <2>3, <2>4 DEF BrowserOK
<1>8. RequestsOK'
  <2>1. ASSUME NEW v \in Visits, Lone(v) PROVE Lone(v)'
    BY <1>1, <1>6, <2>1 DEF Lone
  <2> QED
    BY <1>1, <2>1 DEF SessionInv, RequestsOK, Meeting
<1>9. NoOrphans'
  BY <1>1, <1>6 DEF SessionInv, NoOrphans
<1> QED
  BY <1>2, <1>3, <1>4, <1>7, <1>8, <1>9 DEF SessionInv

LEMMA SessionNextKeeps == SessionInv /\ [SessionNext]_sessionVars => SessionInv'
<1>1. ASSUME SessionInv, UNCHANGED sessionVars PROVE SessionInv'
  <2>1. /\ UNCHANGED <<browserOf, stored, sessionClock, sids, records, objects, jar, visits, told,
                       disturbed, crossed, stranded>>
        /\ IdsKept' = IdsKept
    BY <1>1 DEF sessionVars, IdsKept
  <2>2. SessionTypeOK' /\ RecordsOK' /\ CookiesNamed' /\ ObjectsOK'
    BY <1>1, <2>1 DEF SessionInv, SessionTypeOK, RecordsOK, CookiesNamed, ObjectsOK
  <2>3. IdsOwned'
    <3>1. \A b, i : Uses(b, i)' <=> Uses(b, i)
      BY <2>1 DEF Uses
    <3> QED
      BY <1>1, <2>1, <3>1 DEF SessionInv, IdsOwned
  <2>4. NoOrphans' /\ \A b \in Browsers : JarOK(b)'
    BY <1>1, <2>1 DEF SessionInv, NoOrphans, JarOK, Open
  <2>5. ASSUME NEW b \in Browsers PROVE BrowserOK(b)'
    <3>1. Open(b)' = Open(b)
      BY <2>1 DEF Open
    <3>2. \A v \in Open(b) : (RequestOK(v)' <=> RequestOK(v)) /\ (Replacing(v)' <=> Replacing(v))
      BY <2>1 DEF RequestOK, Replacing
    <3>3. Remembered(b)' <=> Remembered(b)
      BY <2>1 DEF Remembered
    <3> QED
      BY <1>1, <2>1, <3>1, <3>2, <3>3 DEF SessionInv, BrowserOK
  <2>6. RequestsOK'
    <3>1. \A v \in Visits : Lone(v)' <=> Lone(v)
      BY <2>1 DEF Lone
    <3> QED
      BY <1>1, <2>1, <3>1 DEF SessionInv, RequestsOK, Meeting
  <2> QED
    BY <2>2, <2>3, <2>4, <2>5, <2>6 DEF SessionInv
<1>2. ASSUME SessionInv, NEW v \in Visits, Visit(v) \/ StartFresh(v) \/ LoadSession(v) \/ LoadRejected(v)
      PROVE  SessionInv'
  BY <1>2, VisitKeeps, StartFreshKeeps, LoadSessionKeeps, LoadRejectedKeeps
<1>3. ASSUME SessionInv, NEW v \in Visits,
             Assign(v) \/ Alter(v) \/ Handle(v) \/ HandlerThrows(v) \/ NullSession(v)
      PROVE  SessionInv'
  BY <1>3, AssignKeeps, AlterKeeps, HandleKeeps, HandlerThrowsKeeps, NullSessionKeeps
<1>4. ASSUME SessionInv, NEW v \in Visits,
             DestroyRecord(v) \/ DestroyFirst(v) \/ ClearCookie(v) \/ SetRecord(v) \/ DropOrphan(v)
      PROVE  SessionInv'
  BY <1>4, DestroyRecordKeeps, DestroyFirstKeeps, ClearCookieKeeps, SetRecordKeeps, DropOrphanKeeps
<1>5. ASSUME SessionInv, NEW v \in Visits, StoreUnavailable(v) \/ Sign(v)
      PROVE  SessionInv'
  BY <1>5, StoreUnavailableKeeps, SignKeeps
<1> QED
  BY <1>1, <1>2, <1>3, <1>4, <1>5, SessionTickKeeps DEF SessionNext

\* For any number of browsers, requests that overlap, and whatever the store rejects
\* and evicts: what a request rotates away or destroys leaves no record behind that
\* an old id would open, save in the three ways that "stranded" keeps account of
\* (MemoryStore, session()).
THEOREM NeverOrphaned == SessionSpec => []NoOrphans
<1>1. SessionInv => NoOrphans
  BY DEF SessionInv
<1> QED
  BY <1>1, SessionInitInv, SessionNextKeeps, PTL DEF SessionSpec

\* No other step is one of a request that waits for its session.
LEMMA OtherSteps ==
  ASSUME SessionInv, NEW w \in Visits,
         \/ Visit(w) \/ Assign(w) \/ Alter(w) \/ Handle(w) \/ HandlerThrows(w) \/ NullSession(w)
         \/ DestroyRecord(w) \/ DestroyFirst(w) \/ ClearCookie(w) \/ SetRecord(w) \/ DropOrphan(w)
         \/ StoreUnavailable(w) \/ Sign(w)
  PROVE  visits[w].phase # "verifying" /\ \A v \in Visits : v # w => visits'[v] = visits[v]
<1>1. visits \in [Visits -> VisitType]
  BY RequestFacts
<1>2. CASE Visit(w) \/ Assign(w) \/ Alter(w) \/ Handle(w) \/ NullSession(w)
  BY <1>1, <1>2 DEF Visit, Assign, Alter, Handle, NullSession
<1>3. CASE DestroyRecord(w) \/ DestroyFirst(w) \/ SetRecord(w) \/ DropOrphan(w)
  BY <1>1, <1>3 DEF DestroyRecord, DestroyFirst, SetRecord, DropOrphan
<1>4. CASE HandlerThrows(w) \/ ClearCookie(w) \/ Sign(w) \/ StoreUnavailable(w)
  BY <1>1, <1>4 DEF HandlerThrows, ClearCookie, Sign, StoreUnavailable, Unchanged, Close
<1> QED
  BY <1>2, <1>3, <1>4

\* What a request of an undisturbed browser finds is what the one before left.
LEMMA FindsWhatWasLeft ==
  ASSUME SessionInv, SessionNext, NEW v \in Visits,
         visits[v].phase = "verifying", visits'[v].phase = "handling", browserOf[v] \notin disturbed'
  PROVE  visits'[v].snapshot =
           IF told[browserOf[v]].until > sessionClock THEN objects[told[browserOf[v]].data] ELSE Empty
<1> DEFINE b == browserOf[v]
           id == visits[v].cookie.id
<1>1. visits'[v] # visits[v]
  OBVIOUS
<1>2. StartFresh(v) \/ LoadSession(v) \/ LoadRejected(v)
  <2>1. ~SessionTick
    BY <1>1 DEF SessionTick
  <2>2. PICK w \in Visits :
          \/ Visit(w) \/ StartFresh(w) \/ LoadSession(w) \/ LoadRejected(w)
          \/ Assign(w) \/ Alter(w) \/ Handle(w) \/ HandlerThrows(w) \/ NullSession(w)
          \/ DestroyRecord(w) \/ DestroyFirst(w) \/ ClearCookie(w) \/ SetRecord(w) \/ DropOrphan(w)
          \/ StoreUnavailable(w) \/ Sign(w)
    BY <2>1 DEF SessionNext
  <2>3. CASE StartFresh(w) \/ LoadSession(w) \/ LoadRejected(w)
    <3>1. visits \in [Visits -> VisitType]
      BY RequestFacts
    <3>2. w = v
      BY <1>1, <2>3, <3>1 DEF StartFresh, LoadSession, LoadRejected, BeginWith
    <3> QED
      BY <2>3, <3>2
  <2> QED
    BY <1>1, <2>2, <2>3, OtherSteps
<1>3. ~LoadRejected(v)
  BY DEF LoadRejected
<1>4. b \notin disturbed
  BY <1>2, <1>3 DEF StartFresh, LoadSession
<1>5. /\ Remembered(b) /\ visits[v].cookie = jar[b]
  BY <1>4, RequestIsOK DEF RequestOK, Replacing
<1>6. /\ sessionClock \in Nat /\ jar[b].exp \in Nat /\ told[b].until \in Nat /\ id \in Nat
      /\ visits \in [Visits -> VisitType]
      /\ \A i \in IdsKept : records[i].exp \in Nat
  <2>1. told[b] \in NoteType /\ jar[b] \in CookieType
    BY RequestFacts DEF SessionInv, SessionTypeOK
  <2>2. \A i \in IdsKept : records[i].exp \in Nat
    BY DEF SessionInv, RecordsOK
  <2> QED
    BY <2>1, <2>2, RequestFacts DEF NoteType, CookieType
<1>7. CASE StartFresh(v)
  <2>1. visits'[v].snapshot = Empty
    <3>1. visits'[v] = Begun(0, v, Empty)
      BY <1>6, <1>7 DEF StartFresh, BeginWith
    <3> QED
      BY <3>1, BegunWith
  <2>2. ~(told[b].until > sessionClock)
    <3>1. jar[b].exp <= sessionClock
      BY <1>5, <1>7 DEF StartFresh
    <3>2. CASE stored
      BY <1>5, <1>6, <3>1, <3>2 DEF Remembered
    <3>3. CASE ~stored
      BY <1>5, <1>6, <3>1, <3>3 DEF Remembered
    <3> QED
      BY <3>2, <3>3
  <2> QED
    BY <2>1, <2>2
<1>8. CASE LoadSession(v)
  <2>1. PICK object \in Visits \cup {v, records[id].data} :
          visits'[v] = Begun(id, object, IF stored THEN IF Live(id) THEN objects[records[id].data] ELSE Empty
                                         ELSE visits[v].cookie.data)
    BY <1>6, <1>8 DEF LoadSession, BeginWith
  <2>2. visits'[v].snapshot = IF stored THEN IF Live(id) THEN objects[records[id].data] ELSE Empty
                              ELSE visits[v].cookie.data
    BY <2>1, BegunWith
  <2>3. jar[b].exp > sessionClock
    BY <1>5, <1>8 DEF LoadSession
  <2>4. CASE stored
    BY <1>5, <1>6, <2>2, <2>3, <2>4 DEF Remembered, Live
  <2>5. CASE ~stored
    BY <1>5, <1>6, <2>2, <2>3, <2>5 DEF Remembered
  <2> QED
    BY <2>4, <2>5
<1> QED
  BY <1>2, <1>3, <1>7, <1>8

\* Whatever other browsers do, and however often the id is rotated in between: a
\* browser that sends one request after the other finds in each what the one
\* before left, and what was changed in it in place since, until that is over
\* (session(), MemoryStore).
THEOREM SessionsAlwaysFound == SessionSpec => SequentialSession
<1>1. ASSUME SessionInv, [SessionNext]_sessionVars
      PROVE  [\A v \in Visits :
                LET b == browserOf[v]
                IN visits[v].phase = "verifying" /\ visits'[v].phase = "handling" /\ b \notin disturbed' =>
                     visits'[v].snapshot =
                       IF told[b].until > sessionClock THEN objects[told[b].data] ELSE Empty
             ]_sessionVars
  BY <1>1, FindsWhatWasLeft
<1> QED
  BY <1>1, SessionInitInv, SessionNextKeeps, PTL DEF SessionSpec, SequentialSession

-----------------------------------------------------------------------------
(* Refresh tokens *)

\* The ids of a chain were minted one after the other; of those that were given
\* up it remembers the last ones, as many as it keeps.
RotationInv ==
  /\ minted \in Nat /\ since \in Seq(Nat)
  /\ \A i \in 1..Len(since) : since[i] \in 1..minted
  /\ \A i, j \in 1..Len(since) : i < j => since[i] < since[j]
  /\ \/ chain = NoChain
     \/ /\ since # <<>> /\ chain.current = since[Len(since)]
        /\ chain.retired \in Seq(Nat)
        /\ Len(chain.retired) <= KeptRetired /\ Len(chain.retired) < Len(since)
        /\ Len(chain.retired) = KeptRetired \/ Len(chain.retired) = Len(since) - 1
        /\ \A i \in 1..Len(chain.retired) :
             chain.retired[i] = since[Len(since) - 1 - Len(chain.retired) + i]

LEMMA BoundedIs ==
  ASSUME NEW ids \in Seq(Nat), Len(ids) <= KeptRetired + 1
  PROVE  /\ Bounded(ids) \in Seq(Nat)
         /\ Len(Bounded(ids)) = (IF Len(ids) > KeptRetired THEN KeptRetired ELSE Len(ids))
         /\ \A i \in 1..Len(Bounded(ids)) :
              Bounded(ids)[i] = ids[Len(ids) - Len(Bounded(ids)) + i]
<1>1. KeptRetired \in Nat /\ Len(ids) \in Nat
  BY RotationAssumption
<1>2. CASE Len(ids) > KeptRetired
  <2>1. Bounded(ids) = SubSeq(ids, 2, KeptRetired + 1) /\ Len(ids) = KeptRetired + 1
    BY <1>1, <1>2 DEF Bounded
  <2>2. /\ SubSeq(ids, 2, KeptRetired + 1) \in Seq(Nat)
        /\ Len(SubSeq(ids, 2, KeptRetired + 1)) = KeptRetired
        /\ \A i \in 1..KeptRetired : SubSeq(ids, 2, KeptRetired + 1)[i] = ids[1 + i]
    BY <1>1, <2>1
  <2> QED
    BY <1>1, <1>2, <2>1, <2>2
<1>3. CASE ~(Len(ids) > KeptRetired)
  BY <1>1, <1>3 DEF Bounded
<1> QED
  BY <1>2, <1>3

\* What is known of a chain that is open.
LEMMA OpenChain ==
  ASSUME RotationInv, chain # NoChain
  PROVE  /\ KeptRetired \in Nat /\ minted \in Nat /\ since \in Seq(Nat)
         /\ Len(since) \in Nat /\ Len(since) > 0
         /\ chain.current = since[Len(since)] /\ chain.current \in Nat
         /\ chain.retired \in Seq(Nat) /\ Len(chain.retired) \in Nat
         /\ Len(chain.retired) <= KeptRetired /\ Len(chain.retired) < Len(since)
         /\ Len(chain.retired) = KeptRetired \/ Len(chain.retired) = Len(since) - 1
         /\ \A i \in 1..Len(chain.retired) :
              chain.retired[i] = since[Len(since) - 1 - Len(chain.retired) + i]
         /\ \A i \in 1..Len(since) : since[i] \in 1..minted
         /\ \A i, j \in 1..Len(since) : i < j => since[i] < since[j]
<1>1. /\ KeptRetired \in Nat /\ minted \in Nat /\ since \in Seq(Nat) /\ since # <<>>
      /\ chain.current = since[Len(since)]
      /\ chain.retired \in Seq(Nat)
      /\ Len(chain.retired) <= KeptRetired /\ Len(chain.retired) < Len(since)
      /\ Len(chain.retired) = KeptRetired \/ Len(chain.retired) = Len(since) - 1
  BY RotationAssumption DEF RotationInv
<1>2. Len(since) \in Nat /\ Len(since) > 0 /\ Len(chain.retired) \in Nat
  BY <1>1
<1>3. chain.current \in Nat
  BY <1>1, <1>2
<1> QED
  BY <1>1, <1>2, <1>3 DEF RotationInv

LEMMA RotationInitInv == RotationInit => RotationInv
  BY DEF RotationInit, RotationInv

LEMMA BeginChainKeeps ==
  ASSUME RotationInv, BeginChain
  PROVE  RotationInv'
<1>1. /\ minted \in Nat /\ minted' = minted + 1 /\ KeptRetired \in Nat
      /\ since' = <<minted + 1>>
      /\ chain'.current = minted + 1 /\ chain'.retired = <<>>
  BY RotationAssumption DEF RotationInv, BeginChain
<1>2. /\ since' \in Seq(Nat) /\ Len(since') = 1 /\ since'[1] = minted + 1 /\ since' # <<>>
      /\ chain'.retired \in Seq(Nat) /\ Len(chain'.retired) = 0
  BY <1>1
<1> QED
  BY <1>1, <1>2 DEF RotationInv

LEMMA RotateChainKeeps ==
  ASSUME RotationInv, RotateChain
  PROVE  RotationInv'
<1> DEFINE n == Len(since)
           m == Len(chain.retired)
           ids == Append(chain.retired, chain.current)
           kept == Bounded(ids)
<1>1. /\ minted \in Nat /\ minted' = minted + 1 /\ KeptRetired \in Nat /\ since \in Seq(Nat)
      /\ n \in Nat /\ n > 0 /\ m \in Nat
      /\ since' = Append(since, minted + 1)
      /\ chain'.current = minted + 1 /\ chain'.retired = kept
      /\ chain.current = since[n] /\ chain.current \in Nat /\ chain.retired \in Seq(Nat)
      /\ m <= KeptRetired /\ m < n /\ (m = KeptRetired \/ m = n - 1)
      /\ \A i \in 1..m : chain.retired[i] = since[n - 1 - m + i]
  <2>1. /\ chain # NoChain /\ minted' = minted + 1 /\ since' = Append(since, minted + 1)
        /\ chain'.current = minted + 1 /\ chain'.retired = kept
    BY DEF RotateChain
  <2> QED
    BY <2>1, OpenChain
<1>2. /\ since' \in Seq(Nat) /\ Len(since') = n + 1 /\ since' # <<>>
      /\ since'[n + 1] = minted + 1
      /\ \A i \in 1..n : since'[i] = since[i]
  BY <1>1
<1>3. /\ \A i \in 1..n : since[i] \in 1..minted
      /\ \A i, j \in 1..n : i < j => since[i] < since[j]
  BY DEF RotationInv
<1>4. \A i \in 1..Len(since') : since'[i] \in 1..minted'
  <2> SUFFICES ASSUME NEW i \in 1..Len(since') PROVE since'[i] \in 1..minted'
    OBVIOUS
  <2>1. CASE i \in 1..n
    BY <1>1, <1>2, <1>3, <2>1
  <2>2. CASE i = n + 1
    BY <1>1, <1>2, <2>2
  <2> QED
    BY <1>1, <1>2, <2>1, <2>2
<1>5. \A i, j \in 1..Len(since') : i < j => since'[i] < since'[j]
  BY <1>1, <1>2, <1>3
<1>6. /\ ids \in Seq(Nat) /\ Len(ids) = m + 1
      /\ \A i \in 1..m : ids[i] = chain.retired[i]
      /\ ids[m + 1] = chain.current
  BY <1>1
<1>7. \A i \in 1..(m + 1) : ids[i] = since[n - 1 - m + i]
  <2> HIDE DEF n, m, ids
  <2> SUFFICES ASSUME NEW i \in 1..(m + 1) PROVE ids[i] = since[n - 1 - m + i]
    OBVIOUS
  <2>1. CASE i \in 1..m
    BY <1>1, <1>6, <2>1
  <2>2. CASE i = m + 1
    <3>1. n - 1 - m + i = n
      BY <1>1, <2>2
    <3> QED
      BY <1>1, <1>6, <2>2, <3>1
  <2> QED
    BY <1>1, <2>1, <2>2
<1>8. /\ kept \in Seq(Nat) /\ Len(kept) = (IF m + 1 > KeptRetired THEN KeptRetired ELSE m + 1)
      /\ \A i \in 1..Len(kept) : kept[i] = ids[m + 1 - Len(kept) + i]
  <2> HIDE DEF ids
  <2> QED
    <3>1. Len(ids) <= KeptRetired + 1 /\ Len(ids) = m + 1
      BY <1>1, <1>6
    <3> HIDE DEF m
    <3>2. /\ kept \in Seq(Nat)
          /\ Len(kept) = (IF Len(ids) > KeptRetired THEN KeptRetired ELSE Len(ids))
          /\ \A i \in 1..Len(kept) : kept[i] = ids[Len(ids) - Len(kept) + i]
      BY <1>6, <3>1, BoundedIs
    <3> HIDE DEF kept
    <3>3. \A i \in 1..Len(kept) : kept[i] = ids[m + 1 - Len(kept) + i]
      <4> TAKE i \in 1..Len(kept)
      <4>1. kept[i] = ids[Len(ids) - Len(kept) + i]
        BY <3>2
      <4>2. Len(ids) - Len(kept) + i = m + 1 - Len(kept) + i
        <5>1. m \in Nat /\ Len(kept) \in Nat
          BY <1>1, <3>2 DEF m
        <5> QED
          BY <3>1, <5>1
      <4> QED
        BY <4>1, <4>2
    <3> QED
      BY <3>1, <3>2, <3>3
<1>9. \A i \in 1..Len(kept) : kept[i] = since'[Len(since') - 1 - Len(kept) + i]
  <2> HIDE DEF ids, kept, n, m
  <2> SUFFICES ASSUME NEW i \in 1..Len(kept)
               PROVE  kept[i] = since'[Len(since') - 1 - Len(kept) + i]
    OBVIOUS
  <2>1. Len(kept) \in Nat /\ Len(kept) <= m + 1
    BY <1>1, <1>8
  <2>2. m + 1 - Len(kept) + i \in 1..(m + 1) /\ n - Len(kept) + i \in 1..n
    <3>1. m \in Nat /\ n \in Nat /\ m < n
      BY <1>1
    <3>2. i \in Nat /\ 1 <= i /\ i <= Len(kept)
      BY <2>1
    <3> QED
      BY <2>1, <3>1, <3>2
  <2>3. kept[i] = ids[m + 1 - Len(kept) + i]
    BY <1>8
  <2>4. ids[m + 1 - Len(kept) + i] = since[n - 1 - m + (m + 1 - Len(kept) + i)]
    BY <1>7, <2>2
  <2>5. n - 1 - m + (m + 1 - Len(kept) + i) = n - Len(kept) + i
    BY <1>1, <2>1
  <2>6. Len(since') - 1 - Len(kept) + i = n - Len(kept) + i
    <3>1. n \in Nat /\ Len(since') = n + 1
      BY <1>1, <1>2 DEF n
    <3> QED
      BY <2>1, <3>1
  <2> QED
    BY <1>2, <2>2, <2>3, <2>4, <2>5, <2>6
<1>10. Len(kept) <= KeptRetired /\ Len(kept) < Len(since') 
       /\ (Len(kept) = KeptRetired \/ Len(kept) = Len(since') - 1)
  <2> HIDE DEF ids, kept, n, m
  <2> QED
    BY <1>1, <1>2, <1>8
<1> HIDE DEF ids, kept, n, m
<1>11. minted' \in Nat /\ chain'.current = since'[Len(since')]
  BY <1>1, <1>2
<1> QED
  BY <1>1, <1>2, <1>4, <1>5, <1>8, <1>9, <1>10, <1>11 DEF RotationInv

LEMMA RotationNextKeeps == RotationInv /\ [RotationNext]_rotationVars => RotationInv'
<1> SUFFICES ASSUME RotationInv, [RotationNext]_rotationVars PROVE RotationInv'
  OBVIOUS
<1>1. CASE UNCHANGED rotationVars
  BY <1>1 DEF RotationInv, rotationVars
<1>2. ASSUME NEW id \in 1..MaxMinted, Consume(id) PROVE RotationInv'
  BY <1>2 DEF RotationInv, Consume
<1>3. CASE Revoke
  BY <1>3 DEF RotationInv, Revoke
<1> QED
  BY <1>1, <1>2, <1>3, BeginChainKeeps, RotateChainKeeps DEF RotationNext

LEMMA ConsumeDecides ==
  ASSUME RotationInv, NEW id \in 1..MaxMinted, Consume(id)
  PROVE  /\ verdict'.result = "live" => since # <<>> /\ id = Last(since)
         /\ id \in Recent => chain' = NoChain
<1>1. verdict'.result = "live" => chain # NoChain /\ id = chain.current
  BY DEF Consume
<1>2. ASSUME id \in Recent, chain # NoChain
      PROVE  id # chain.current /\ id \in ToSet(chain.retired)
  <2> DEFINE n == Len(since)
             m == Len(chain.retired)
  <2>1. PICK j \in 1..(n - 1) : j >= n - KeptRetired /\ id = since[j]
    BY <1>2 DEF Recent
  <2>2. /\ n \in Nat /\ m \in Nat /\ KeptRetired \in Nat /\ chain.current = since[n]
        /\ chain.retired \in Seq(Nat) /\ m < n /\ (m = KeptRetired \/ m = n - 1)
        /\ \A i \in 1..m : chain.retired[i] = since[n - 1 - m + i]
        /\ \A i, k \in 1..n : i < k => since[i] < since[k]
        /\ \A i \in 1..n : since[i] \in Nat
    <3>1. since \in Seq(Nat)
      BY <1>2, OpenChain
    <3>2. \A i \in 1..n : since[i] \in Nat
      BY <3>1
    <3>3. \A i, k \in 1..n : i < k => since[i] < since[k]
      BY <1>2, OpenChain
    <3>4. \A i \in 1..m : chain.retired[i] = since[n - 1 - m + i]
      BY <1>2, OpenChain
    <3> QED
      BY <1>2, <3>2, <3>3, <3>4, OpenChain
  <2> HIDE DEF n, m
  <2>3. id # chain.current
    <3>1. j \in 1..n /\ n \in 1..n /\ j < n
      BY <2>1, <2>2
    <3> QED
      BY <2>1, <2>2, <3>1
  <2>4. j - (n - 1 - m) \in 1..m /\ n - 1 - m + (j - (n - 1 - m)) = j
    BY <2>1, <2>2
  <2>5. chain.retired[j - (n - 1 - m)] = id
    BY <2>1, <2>2, <2>4
  <2> QED
    BY <2>2, <2>3, <2>4, <2>5 DEF ToSet, m
<1>3. ASSUME chain # NoChain PROVE since # <<>> /\ chain.current = Last(since)
  BY <1>3 DEF RotationInv, Last
<1> QED
  BY <1>1, <1>2, <1>3 DEF Consume

\* However many ids a chain has minted and remembers: presenting one it has given
\* up recently closes it, and only the last one is ever accepted
\* (RotatingTokenStore).
THEOREM ReuseAlwaysCloses == RotationSpec => ReuseCloses
<1>1. ASSUME RotationInv, [RotationNext]_rotationVars
      PROVE  [\A id \in 1..MaxMinted : Consume(id) =>
                /\ verdict'.result = "live" => since # <<>> /\ id = Last(since)
                /\ id \in Recent => chain' = NoChain]_rotationVars
  BY <1>1, ConsumeDecides
<1> QED
  BY <1>1, RotationInitInv, RotationNextKeeps, PTL DEF RotationSpec, ReuseCloses

-----------------------------------------------------------------------------
(* The memory cache and its wrappers *)

\* What is cached or given for a key was read from an origin that has it.
DataOK(key, data) ==
  data.of \in Origins /\ data.version \in Nat /\ Prefixed(data.of) = key

EntriesOK == \A k \in Cached : held[k].exp \in Nat /\ DataOK(k, held[k].data)

ReadersOK ==
  /\ DOMAIN readers = Readers
  /\ \A r \in Readers :
       /\ readers[r].phase \in {"storing", "done"} => DataOK(AskedKey(r), readers[r].data)
       /\ readers[r].phase = "storing" => readers[r].data.of = OriginOf[r]

SourcesOK ==
  /\ cacheClock \in Nat /\ source \in [Origins -> Nat]
  /\ \A w \in writes : w.of \in Origins /\ w.version \in Nat

PortInv == SourcesOK /\ EntriesOK /\ ReadersOK

LEMMA AfterSetIs ==
  ASSUME NEW key, NEW data, NEW after, after = AfterSet(key, data)
  PROVE  /\ key \in DOMAIN after
         /\ after[key].data = data /\ after[key].exp = cacheClock + Ttl
         /\ \A k \in DOMAIN after : k # key => k \in Cached /\ after[k] = held[k]
<1> DEFINE oldest == CHOOSE k \in Cached : \A l \in Cached : held[k].place <= held[l].place
           room == IF key \notin Cached /\ Cardinality(Cached) >= CacheCap THEN Cached \ {oldest}
                   ELSE Cached
           place == IF key \in room THEN held[key].place
                    ELSE 1 + Max({0} \cup {held[k].place : k \in room})
           entry == [data |-> data, exp |-> cacheClock + Ttl, place |-> place]
<1>1. after = [k \in room \cup {key} |-> IF k = key THEN entry ELSE held[k]]
  BY DEF AfterSet
<1>2. room \subseteq Cached
  OBVIOUS
<1>3. entry.data = data /\ entry.exp = cacheClock + Ttl
  OBVIOUS
<1> HIDE DEF room, entry
<1> QED
  BY <1>1, <1>2, <1>3

LEMMA PortInitInv == PortInit => PortInv
  BY CacheAssumption DEF PortInit, PortInv, SourcesOK, EntriesOK, ReadersOK, Cached

\* A step that writes no entry keeps what it leaves of them right.
LEMMA EntriesStay ==
  ASSUME EntriesOK, \A k \in Cached' : k \in Cached /\ held'[k] = held[k]
  PROVE  EntriesOK'
  BY DEF EntriesOK, DataOK

LEMMA EntriesSet ==
  ASSUME EntriesOK, SourcesOK, NEW key, NEW data, DataOK(key, data), held' = AfterSet(key, data)
  PROVE  EntriesOK'
<1>1. /\ held'[key].data = data /\ held'[key].exp = cacheClock + Ttl
      /\ \A k \in Cached' : k # key => k \in Cached /\ held'[k] = held[k]
  BY AfterSetIs DEF Cached
<1>2. cacheClock + Ttl \in Nat
  BY CacheAssumption DEF SourcesOK
<1>3. ASSUME NEW k \in Cached' PROVE held'[k].exp \in Nat /\ DataOK(k, held'[k].data)
  <2>1. CASE k = key
    BY <1>1, <1>2, <2>1
  <2>2. CASE k # key
    BY <1>1, <1>3, <2>2 DEF EntriesOK
  <2> QED
    BY <2>1, <2>2
<1> QED
  BY <1>3 DEF EntriesOK, DataOK

\* A reader that moves on has read an origin of its key.
LEMMA ReaderMoves ==
  ASSUME ReadersOK, NEW r \in Readers, NEW state, readers' = [readers EXCEPT ![r] = state],
         state.phase \in {"storing", "done"} => DataOK(AskedKey(r), state.data),
         state.phase = "storing" => state.data.of = OriginOf[r]
  PROVE  ReadersOK'
  BY DEF ReadersOK, DataOK, AskedKey

LEMMA PortNextInv == PortInv /\ [PortNext]_portVars => PortInv'
<1> SUFFICES ASSUME PortInv, [PortNext]_portVars PROVE PortInv'
  OBVIOUS
<1>1. SourcesOK /\ EntriesOK /\ ReadersOK
  BY DEF PortInv
<1>2. CASE UNCHANGED portVars
  BY <1>1, <1>2 DEF PortInv, SourcesOK, EntriesOK, ReadersOK, portVars, Cached, DataOK, AskedKey
<1>3. ASSUME UNCHANGED <<cacheClock, source, writes>> PROVE SourcesOK'
  BY <1>1, <1>3 DEF SourcesOK
<1>4. ASSUME UNCHANGED readers PROVE ReadersOK'
  BY <1>1, <1>4 DEF ReadersOK, DataOK, AskedKey
<1>5. ASSUME UNCHANGED held PROVE EntriesOK'
  BY <1>1, <1>5 DEF EntriesOK, DataOK, Cached
<1>6. ASSUME NEW r \in Readers, Lookup(r) PROVE PortInv'
  <2> DEFINE key == AskedKey(r)
             shown == IF held[key].data.kind = "marker" /\ r \in Negative
                      THEN [held[key].data EXCEPT !.kind = "undefined"] ELSE held[key].data
             state == IF Alive(key) /\ held[key].data.kind # "undefined"
                      THEN [phase |-> "done", data |-> shown]
                      ELSE [phase |-> "loading", data |-> Undefined]
  <2>1. /\ held' = AfterGet(key) /\ readers' = [readers EXCEPT ![r] = state]
        /\ UNCHANGED <<cacheClock, source, writes>>
    BY <1>6 DEF Lookup
  <2>2. EntriesOK'
    BY <1>1, <2>1, EntriesStay DEF AfterGet, Evict, Cached
  <2>3. Alive(key) => DataOK(key, held[key].data)
    BY <1>1 DEF EntriesOK, Alive
  <2>4. shown.of = held[key].data.of /\ shown.version = held[key].data.version
    OBVIOUS
  <2>5. Alive(key) => DataOK(key, shown)
    BY <2>3, <2>4 DEF DataOK
  <2> HIDE DEF shown
  <2>6. /\ state.phase = "done" => DataOK(key, state.data)
        /\ state.phase # "storing"
    BY <2>5
  <2> HIDE DEF state
  <2>7. ReadersOK'
    BY <1>1, <2>1, <2>6, ReaderMoves
  <2> QED
    BY <1>3, <2>1, <2>2, <2>7 DEF PortInv
<1>7. ASSUME NEW key \in AllKeys, Get(key) PROVE PortInv'
  <2>1. EntriesOK'
    BY <1>1, <1>7, EntriesStay DEF Get, AfterGet, Evict, Cached
  <2> QED
    BY <1>3, <1>4, <1>7, <2>1 DEF Get, PortInv
<1>8. ASSUME NEW r \in Readers, LoaderAnswers(r) PROVE PortInv'
  <2> DEFINE state == [phase |-> "storing", data |-> Loaded(OriginOf[r])]
  <2>1. readers' = [readers EXCEPT ![r] = state] /\ UNCHANGED <<cacheClock, held, source, writes>>
    BY <1>8 DEF LoaderAnswers
  <2>2. OriginOf[r] \in Origins /\ source[OriginOf[r]] \in Nat
    BY <1>1, CacheAssumption DEF SourcesOK
  <2>3. DataOK(AskedKey(r), state.data) /\ state.data.of = OriginOf[r]
    BY <2>2 DEF DataOK, AskedKey, Loaded, Data
  <2> HIDE DEF state
  <2>4. ReadersOK'
    BY <1>1, <2>1, <2>3, ReaderMoves
  <2> QED
    BY <1>3, <1>5, <2>1, <2>4 DEF PortInv
<1>9. ASSUME NEW r \in Readers, LoaderFails(r) PROVE PortInv'
  <2> DEFINE state == [readers[r] EXCEPT !.phase = "failed"]
  <2>1. readers' = [readers EXCEPT ![r] = state] /\ UNCHANGED <<cacheClock, held, source, writes>>
    BY <1>9 DEF LoaderFails
  <2>2. state.phase \notin {"storing", "done"}
    BY <1>9 DEF LoaderFails
  <2> HIDE DEF state
  <2>3. ReadersOK'
    BY <1>1, <2>1, <2>2, ReaderMoves
  <2> QED
    BY <1>3, <1>5, <2>1, <2>3 DEF PortInv
<1>10. ASSUME NEW r \in Readers, KeepLoaded(r) PROVE PortInv'
  <2> DEFINE state == [readers[r] EXCEPT !.phase = "done"]
  <2>1. PICK kind : held' = AfterSet(AskedKey(r), Data(readers[r].data.of, readers[r].data.version, kind))
    BY <1>10 DEF KeepLoaded
  <2>2. /\ readers' = [readers EXCEPT ![r] = state] /\ UNCHANGED <<cacheClock, source, writes>>
        /\ readers[r].phase = "storing"
    BY <1>10 DEF KeepLoaded
  <2>3. DataOK(AskedKey(r), readers[r].data)
    BY <1>1, <2>2 DEF ReadersOK
  <2>4. DataOK(AskedKey(r), Data(readers[r].data.of, readers[r].data.version, kind))
    BY <2>3 DEF DataOK, Data
  <2>5. EntriesOK'
    BY <1>1, <2>1, <2>4, EntriesSet
  <2>6. state.data = readers[r].data /\ state.phase # "storing"
    BY <2>2
  <2> HIDE DEF state
  <2>7. ReadersOK'
    BY <1>1, <2>2, <2>3, <2>6, ReaderMoves
  <2> QED
    BY <1>3, <2>2, <2>5, <2>7 DEF PortInv
<1>11. ASSUME NEW o \in Origins, WriteSource(o) PROVE PortInv'
  <2>1. /\ source' = [source EXCEPT ![o] = source[o] + 1]
        /\ writes' = writes \cup {[of |-> o, version |-> source[o] + 1]}
        /\ UNCHANGED <<cacheClock, held, readers>>
    BY <1>11 DEF WriteSource
  <2>2. source[o] + 1 \in Nat
    BY <1>1 DEF SourcesOK
  <2>3. SourcesOK'
    BY <1>1, <2>1, <2>2 DEF SourcesOK
  <2> QED
    BY <1>4, <1>5, <2>1, <2>3 DEF PortInv
<1>12. ASSUME NEW w \in writes, NEW put \in BOOLEAN, WriteCache(w, put) PROVE PortInv'
  <2> DEFINE data == Data(w.of, w.version, "value")
  <2>1. /\ writes' = writes \ {w} /\ UNCHANGED <<cacheClock, source, readers>>
        /\ held' = IF put THEN AfterSet(Prefixed(w.of), data) ELSE Evict(Prefixed(w.of))
    BY <1>12 DEF WriteCache
  <2>2. SourcesOK'
    BY <1>1, <2>1 DEF SourcesOK
  <2>3. DataOK(Prefixed(w.of), data)
    BY <1>1 DEF SourcesOK, DataOK, Data
  <2> HIDE DEF data
  <2>4. CASE put
    <3>1. EntriesOK'
      BY <1>1, <2>1, <2>3, <2>4, EntriesSet
    <3> QED
      BY <1>4, <2>1, <2>2, <3>1 DEF PortInv
  <2>5. CASE ~put
    <3>1. EntriesOK'
      BY <1>1, <2>1, <2>5, EntriesStay DEF Evict, Cached
    <3> QED
      BY <1>4, <2>1, <2>2, <3>1 DEF PortInv
  <2> QED
    BY <2>4, <2>5
<1>13. CASE ClearNamespace
  <2>1. EntriesOK'
    BY <1>13 DEF ClearNamespace, EntriesOK, Cached
  <2> QED
    BY <1>3, <1>4, <1>13, <2>1 DEF ClearNamespace, PortInv
<1>14. CASE CacheTick
  <2>1. SourcesOK'
    BY <1>1, <1>14 DEF CacheTick, SourcesOK
  <2> QED
    BY <1>4, <1>5, <1>14, <2>1 DEF CacheTick, PortInv
<1> QED
  BY <1>2, <1>6, <1>7, <1>8, <1>9, <1>10, <1>11, <1>12, <1>13, <1>14 DEF PortNext

\* An entry that stays while sources and writers do does not become stale.
LEMMA StaysCurrent ==
  ASSUME PortInv, NEW key, UNCHANGED <<source, writes>>, cacheClock' \in Nat, cacheClock' >= cacheClock,
         key \in Cached' => key \in Cached /\ held'[key] = held[key],
         Stale(key)'
  PROVE  Stale(key)
<1>1. key \in Cached /\ held'[key] = held[key] /\ held[key].exp > cacheClock'
  BY DEF Stale, Alive
<1>2. cacheClock \in Nat /\ held[key].exp \in Nat
  BY <1>1 DEF PortInv, SourcesOK, EntriesOK
<1>3. Alive(key)
  BY <1>1, <1>2 DEF Alive
<1>4. Behind(held[key].data.of, held[key].data.version)
  BY <1>1 DEF Stale, Behind
<1> QED
  BY <1>3, <1>4 DEF Stale

LEMMA StaleByOvertaken ==
  ASSUME PortInv, PortNext, NEW key \in AllKeys, Stale(key)', ~Stale(key)
  PROVE  StoresOvertaken(key)
<1>1. /\ cacheClock \in Nat /\ source \in [Origins -> Nat] /\ DOMAIN readers = Readers
      /\ \A k \in Cached : held[k].exp \in Nat /\ DataOK(k, held[k].data)
      /\ \A w \in writes : w.of \in Origins /\ w.version \in Nat
  BY DEF PortInv, SourcesOK, EntriesOK, ReadersOK
<1>2. ~(/\ UNCHANGED <<source, writes, cacheClock>>
        /\ key \in Cached' => key \in Cached /\ held'[key] = held[key])
  <2> SUFFICES ASSUME UNCHANGED <<source, writes, cacheClock>>,
                      key \in Cached' => key \in Cached /\ held'[key] = held[key]
               PROVE  FALSE
    OBVIOUS
  <2>1. cacheClock' \in Nat /\ cacheClock' >= cacheClock
    BY <1>1
  <2> QED
    BY <2>1, StaysCurrent
<1>3. ASSUME NEW r \in Readers, Lookup(r) PROVE FALSE
  BY <1>2, <1>3 DEF Lookup, AfterGet, Evict, Cached
<1>4. ASSUME NEW k \in AllKeys, Get(k) PROVE FALSE
  BY <1>2, <1>4 DEF Get, AfterGet, Evict, Cached
<1>5. ASSUME NEW r \in Readers, LoaderAnswers(r) \/ LoaderFails(r) PROVE FALSE
  BY <1>2, <1>5 DEF LoaderAnswers, LoaderFails, Cached
<1>6. ASSUME NEW r \in Readers, KeepLoaded(r) PROVE StoresOvertaken(key)
  <2>1. PICK kind : held' = AfterSet(AskedKey(r), Data(readers[r].data.of, readers[r].data.version, kind))
    BY <1>6 DEF KeepLoaded
  <2>2. /\ readers[r].phase = "storing" /\ readers'[r].phase = "done"
        /\ UNCHANGED <<cacheClock, source, writes>>
    BY <1>1, <1>6 DEF KeepLoaded
  <2>3. AskedKey(r) = key
    <3>1. SUFFICES ASSUME AskedKey(r) # key PROVE FALSE
      OBVIOUS
    <3>2. key \in Cached' => key \in Cached /\ held'[key] = held[key]
      BY <2>1, <3>1, AfterSetIs DEF Cached
    <3> QED
      BY <1>2, <2>2, <3>2
  <2>4. held'[key].data = Data(readers[r].data.of, readers[r].data.version, kind)
    BY <2>1, <2>3, AfterSetIs
  <2>5. readers[r].data.of = OriginOf[r]
    BY <2>2 DEF PortInv, ReadersOK
  <2>6. Behind(held'[key].data.of, held'[key].data.version)
    BY <2>2 DEF Stale, Behind
  <2>7. Behind(OriginOf[r], readers[r].data.version)
    BY <2>4, <2>5, <2>6 DEF Data
  <2> QED
    BY <2>2, <2>3, <2>7 DEF StoresOvertaken
<1>7. ASSUME NEW o \in Origins, WriteSource(o) PROVE FALSE
  <2>1. /\ source' = [source EXCEPT ![o] = source[o] + 1]
        /\ writes' = writes \cup {[of |-> o, version |-> source[o] + 1]}
        /\ cacheClock' = cacheClock /\ held' = held /\ Cached' = Cached
    BY <1>7 DEF WriteSource, Cached
  <2> DEFINE of == held[key].data.of
             version == held[key].data.version
  <2>2. key \in Cached /\ Alive(key) /\ version < source'[of]
        /\ ~\E w \in writes' : w.of = of /\ w.version > version
    BY <2>1 DEF Stale, Alive, Behind
  <2>3. of \in Origins /\ version \in Nat /\ source[o] \in Nat
    BY <1>1, <2>2 DEF DataOK
  <2> HIDE DEF of, version
  <2>4. CASE of = o
    <3>1. version < source[o] + 1
      BY <1>1, <2>1, <2>2, <2>4
    <3>2. [of |-> o, version |-> source[o] + 1] \in writes'
      BY <2>1
    <3> QED
      BY <2>2, <2>3, <2>4, <3>1, <3>2
  <2>5. CASE of # o
    <3>1. Behind(of, version)
      BY <1>1, <2>1, <2>2, <2>3, <2>5 DEF Behind
    <3> QED
      BY <2>2, <3>1 DEF Stale, of, version
  <2> QED
    BY <2>4, <2>5
<1>8. ASSUME NEW w \in writes, NEW put \in BOOLEAN, WriteCache(w, put) PROVE StoresOvertaken(key)
  <2> DEFINE data == Data(w.of, w.version, "value")
  <2>1. /\ writes' = writes \ {w} /\ cacheClock' = cacheClock /\ source' = source
        /\ held' = IF put THEN AfterSet(Prefixed(w.of), data) ELSE Evict(Prefixed(w.of))
    BY <1>8 DEF WriteCache
  <2>2. data.of = w.of /\ data.version = w.version
    BY DEF Data
  <2> HIDE DEF data
  <2>3. CASE Prefixed(w.of) = key
    <3>1. key \in Cached'
      BY DEF Stale, Alive
    <3>2. put
      BY <2>1, <2>3, <3>1 DEF Evict, Cached
    <3>3. held'[key].data = data
      BY <2>1, <2>3, <3>2, AfterSetIs
    <3>4. Behind(w.of, w.version)'
      BY <2>2, <3>3 DEF Stale, Behind
    <3> QED
      BY <2>1, <2>3, <3>4 DEF StoresOvertaken
  <2>4. CASE Prefixed(w.of) # key
    <3>1. key \in Cached' /\ Alive(key)'
      BY DEF Stale, Alive
    <3>2. key \in Cached /\ held'[key] = held[key]
      <4>1. CASE put
        BY <2>1, <2>4, <3>1, <4>1, AfterSetIs DEF Cached
      <4>2. CASE ~put
        BY <2>1, <2>4, <3>1, <4>2 DEF Evict, Cached
      <4> QED
        BY <4>1, <4>2
    <3>3. Alive(key)
      BY <2>1, <3>1, <3>2 DEF Alive
    <3>4. held[key].data.of # w.of
      BY <1>1, <2>4, <3>2 DEF DataOK
    <3>5. Behind(held[key].data.of, held[key].data.version)
      BY <2>1, <3>2, <3>4 DEF Stale, Behind
    <3> QED
      BY <3>3, <3>5 DEF Stale
  <2> QED
    BY <2>3, <2>4
<1>9. CASE ClearNamespace
  BY <1>9 DEF ClearNamespace, Stale, Alive, Cached
<1>10. CASE CacheTick
  <2>1. /\ cacheClock' \in Nat /\ cacheClock' >= cacheClock /\ UNCHANGED <<source, writes>>
        /\ held' = held /\ Cached' = Cached
    BY <1>1, <1>10 DEF CacheTick, Cached
  <2> QED
    BY <2>1, StaysCurrent
<1> QED
  BY <1>3, <1>4, <1>5, <1>6, <1>7, <1>8, <1>9, <1>10 DEF PortNext

\* For any origins, readers and writers, any cap and any ttl, and however prefixes
\* and names are joined: no entry of a namespace stays behind its source unless what
\* was stored had been overtaken, and no reader is given what was read under another
\* key (MemoryCache, namespaced(), cacheAside(), withNegativeCache()).
THEOREM EntriesFollowSources == PortSpec => StaleOnlyIfOvertaken
<1>1. ASSUME PortInv, [PortNext]_portVars
      PROVE  [\A key \in AllKeys : Stale(key)' /\ ~Stale(key) => StoresOvertaken(key)]_portVars
  BY <1>1, StaleByOvertaken
<1>2. PortInv => \A r \in Readers : readers[r].phase = "done" => Prefixed(readers[r].data.of) = AskedKey(r)
  BY DEF PortInv, ReadersOK, DataOK
<1> QED
  BY <1>1, <1>2, PortInitInv, PortNextInv, PTL DEF PortSpec, StaleOnlyIfOvertaken

-----------------------------------------------------------------------------
(* Key sets and device flows *)

Asked == Providers \cup {NobodyAsked}

KeysType == [at : Nat, from : Asked, served : Nat]

VerifierType ==
  [phase : {"new", "fetching", "reading", "done", "failed"}, asked : Asked, began : Nat,
   from : Asked, served : Nat]

AskType == [at : Nat, slowed : Nat]

PollType ==
  [phase : {"asking", "sleeping", "granted", "refused"}, interval : Nat, wake : Nat,
   slowed : Nat, asks : Seq(AskType)]

SomebodyAsked(uri) ==
  \E w \in Verifiers : verifiers[w].phase # "new" /\ verifiers[w].asked = uri

\* What is fetched was asked for FetchTakes ticks ago at most, and so was what is
\* cached when it was put there, by a verifier of this provider.
VerifierOK(state) ==
  /\ state \in VerifierType
  /\ state.phase \in {"fetching", "reading"} =>
       state.began <= keyClock /\ keyClock - state.began <= FetchTakes
  /\ state.phase = "reading" => state.began <= state.served /\ state.from = state.asked

FetchInv ==
  /\ keyClock \in Nat
  /\ keysCached # NoKeys =>
       /\ keysCached \in KeysType
       /\ keysCached.at <= keyClock /\ keysCached.at - keysCached.served <= FetchTakes
       /\ SomebodyAsked(keysCached.from)
  /\ DOMAIN verifiers = Verifiers
  /\ \A v \in Verifiers : VerifierOK(verifiers[v])

\* A flow waits what it was told since it asked last.
PollInv ==
  /\ keyClock \in Nat
  /\ poll \in PollType /\ poll.interval = IntervalAfter(poll.slowed)
  /\ poll.asks # <<>> =>
       /\ poll.asks[Len(poll.asks)].at <= keyClock
       /\ poll.phase = "sleeping" =>
            poll.wake >= poll.asks[Len(poll.asks)].at + IntervalAfter(poll.slowed)
  /\ PollsPaced

LEMMA IntervalGrows ==
  ASSUME NEW n \in Nat
  PROVE  IntervalAfter(n) \in Nat /\ IntervalAfter(n + 1) = IntervalAfter(n) + SlowDown
  BY KeyAssumption DEF IntervalAfter

LEMMA KeyInitInv == KeyInit => FetchInv /\ PollInv
<1> SUFFICES ASSUME KeyInit PROVE FetchInv /\ PollInv
  OBVIOUS
<1>1. FetchInv
  BY DEF KeyInit, FetchInv, VerifierOK, VerifierType, Asked
<1>2. PollInv
  BY KeyAssumption DEF KeyInit, PollInv, PollType, AskType, PollsPaced, IntervalAfter
<1> QED
  BY <1>1, <1>2

\* Somebody who has asked still has when a verifier moves on.
LEMMA AskedStays ==
  ASSUME DOMAIN verifiers = Verifiers, NEW v \in Verifiers, NEW state,
         verifiers' = [verifiers EXCEPT ![v] = state], state.phase # "new",
         verifiers[v].phase = "new" \/ state.asked = verifiers[v].asked,
         NEW uri, SomebodyAsked(uri)
  PROVE  SomebodyAsked(uri)'
<1>1. PICK w \in Verifiers : verifiers[w].phase # "new" /\ verifiers[w].asked = uri
  BY DEF SomebodyAsked
<1>2. CASE w = v
  BY <1>1, <1>2 DEF SomebodyAsked
<1>3. CASE w # v
  BY <1>1, <1>3 DEF SomebodyAsked
<1> QED
  BY <1>2, <1>3

\* A verifier moves on and leaves the cache alone.
LEMMA VerifierMoves ==
  ASSUME FetchInv, NEW v \in Verifiers, NEW state, VerifierOK(state), state.phase # "new",
         verifiers[v].phase = "new" \/ state.asked = verifiers[v].asked,
         verifiers' = [verifiers EXCEPT ![v] = state], UNCHANGED <<keyClock, keysCached>>
  PROVE  FetchInv'
<1>1. keysCached # NoKeys => SomebodyAsked(keysCached.from)'
  BY AskedStays DEF FetchInv
<1>2. \A w \in Verifiers : VerifierOK(verifiers[w])'
  BY DEF FetchInv, VerifierOK
<1> QED
  BY <1>1, <1>2 DEF FetchInv, SomebodyAsked

LEMMA FetchNext ==
  ASSUME FetchInv, [KeyNext \/ PollNext]_keyVars
  PROVE  FetchInv'
<1>1. /\ keyClock \in Nat /\ FetchTakes \in Nat /\ KeysFor \in Nat
      /\ DOMAIN verifiers = Verifiers
      /\ \A v \in Verifiers : /\ VerifierOK(verifiers[v]) /\ verifiers[v] \in VerifierType
                              /\ verifiers[v].began \in Nat /\ verifiers[v].served \in Nat
  BY KeyAssumption DEF FetchInv, VerifierOK, VerifierType
<1>2. CASE UNCHANGED keyVars
  BY <1>2 DEF FetchInv, keyVars, SomebodyAsked, VerifierOK
<1>3. ASSUME NEW v \in Verifiers, NEW uri \in Providers, UseCachedKeys(v, uri) PROVE FetchInv'
  <2> DEFINE state == [phase |-> "done", asked |-> uri, began |-> keyClock,
                       from |-> keysCached.from, served |-> keysCached.served]
  <2>1. keysCached # NoKeys
    BY <1>3 DEF UseCachedKeys, IsFresh, NoKeys
  <2>2. keysCached \in KeysType
    BY <2>1 DEF FetchInv
  <2>3. state \in VerifierType /\ state.phase = "done"
    BY <1>1, <2>2 DEF VerifierType, KeysType, Asked
  <2>4. verifiers' = [verifiers EXCEPT ![v] = state] /\ UNCHANGED <<keyClock, keysCached>>
        /\ verifiers[v].phase = "new"
    BY <1>3 DEF UseCachedKeys
  <2> HIDE DEF state
  <2>5. VerifierOK(state)
    BY <2>3 DEF VerifierOK
  <2> QED
    BY <2>3, <2>4, <2>5, VerifierMoves
<1>4. ASSUME NEW v \in Verifiers, NEW uri \in Providers, FetchKeys(v, uri) PROVE FetchInv'
  <2> DEFINE state == [verifiers[v] EXCEPT !.phase = "fetching", !.asked = uri, !.began = keyClock]
  <2>1. state \in VerifierType /\ state.phase = "fetching" /\ state.began = keyClock
    BY <1>1 DEF VerifierType, Asked
  <2>2. verifiers' = [verifiers EXCEPT ![v] = state] /\ UNCHANGED <<keyClock, keysCached>>
        /\ verifiers[v].phase = "new"
    BY <1>4 DEF FetchKeys
  <2> HIDE DEF state
  <2>3. VerifierOK(state)
    BY <1>1, <2>1 DEF VerifierOK
  <2> QED
    BY <2>1, <2>2, <2>3, VerifierMoves
<1>5. ASSUME NEW v \in Verifiers, ProviderAnswers(v) PROVE FetchInv'
  <2> DEFINE state == [verifiers[v] EXCEPT !.phase = "reading", !.from = verifiers[v].asked,
                                           !.served = keyClock]
  <2>1. verifiers[v] \in VerifierType /\ verifiers[v].asked \in Asked
    BY <1>1 DEF VerifierType
  <2>2. /\ state \in VerifierType /\ state.phase = "reading" /\ state.asked = verifiers[v].asked
        /\ state.began = verifiers[v].began /\ state.served = keyClock /\ state.from = state.asked
    BY <1>1, <2>1 DEF VerifierType
  <2>3. verifiers' = [verifiers EXCEPT ![v] = state] /\ UNCHANGED <<keyClock, keysCached>>
    BY <1>5 DEF ProviderAnswers
  <2>4. verifiers[v].began <= keyClock /\ keyClock - verifiers[v].began <= FetchTakes
    BY <1>1, <1>5 DEF ProviderAnswers, VerifierOK
  <2> HIDE DEF state
  <2>5. VerifierOK(state)
    BY <2>2, <2>4 DEF VerifierOK
  <2> QED
    BY <2>2, <2>3, <2>5, VerifierMoves
<1>6. ASSUME NEW v \in Verifiers, FetchFails(v) PROVE FetchInv'
  <2> DEFINE state == [verifiers[v] EXCEPT !.phase = "failed"]
  <2>1. state \in VerifierType /\ state.phase = "failed" /\ state.asked = verifiers[v].asked
    BY <1>1 DEF VerifierType
  <2>2. verifiers' = [verifiers EXCEPT ![v] = state] /\ UNCHANGED <<keyClock, keysCached>>
    BY <1>6 DEF FetchFails
  <2> HIDE DEF state
  <2>3. VerifierOK(state)
    BY <2>1 DEF VerifierOK
  <2> QED
    BY <2>1, <2>2, <2>3, VerifierMoves
<1>7. ASSUME NEW v \in Verifiers, CacheKeys(v) PROVE FetchInv'
  <2> DEFINE state == [verifiers[v] EXCEPT !.phase = "done"]
             keys == [at |-> keyClock, from |-> verifiers[v].from, served |-> verifiers[v].served]
  <2>1. state \in VerifierType /\ state.phase = "done" /\ state.asked = verifiers[v].asked
    BY <1>1 DEF VerifierType
  <2>2. verifiers[v].from \in Asked
    BY <1>1 DEF VerifierType
  <2>3. /\ keys \in KeysType /\ keys.at = keyClock /\ keys.served = verifiers[v].served
        /\ keys.from = verifiers[v].from
    BY <1>1, <2>2 DEF KeysType
  <2>4. /\ keyClock - verifiers[v].began <= FetchTakes /\ verifiers[v].began <= verifiers[v].served
        /\ verifiers[v].from = verifiers[v].asked
    BY <1>1, <1>7 DEF CacheKeys, VerifierOK
  <2>5. verifiers' = [verifiers EXCEPT ![v] = state] /\ keysCached' = keys /\ keyClock' = keyClock
    BY <1>7 DEF CacheKeys
  <2> HIDE DEF state, keys
  <2>6. keys.at - keys.served <= FetchTakes /\ keys.at <= keyClock
    BY <1>1, <2>3, <2>4
  <2>7. SomebodyAsked(keysCached.from)'
    BY <1>1, <2>1, <2>3, <2>4, <2>5 DEF SomebodyAsked
  <2>8. \A w \in Verifiers : VerifierOK(verifiers[w])'
    BY <1>1, <2>1, <2>5 DEF VerifierOK
  <2> QED
    BY <1>1, <2>3, <2>5, <2>6, <2>7, <2>8 DEF FetchInv, SomebodyAsked
<1>8. CASE ClearKeys
  BY <1>1, <1>8 DEF FetchInv, ClearKeys, VerifierOK
<1>9. CASE KeyTick
  <2>1. /\ keyClock' = keyClock + 1 /\ UNCHANGED <<keysCached, verifiers>>
        /\ \A v \in Verifiers : verifiers[v].phase \in {"fetching", "reading"} =>
             keyClock - verifiers[v].began < FetchTakes
    BY <1>9 DEF KeyTick
  <2>2. keysCached \in KeysType => keysCached.at \in Nat
    BY DEF KeysType
  <2>3. \A v \in Verifiers : VerifierOK(verifiers[v])'
    BY <1>1, <2>1 DEF VerifierOK
  <2> QED
    BY <1>1, <2>1, <2>2, <2>3 DEF FetchInv, SomebodyAsked
<1>10. CASE PollAnswered \/ PollAgain
  BY <1>1, <1>10 DEF FetchInv, PollAnswered, PollAgain, SomebodyAsked, VerifierOK
<1> QED
  BY <1>2, <1>3, <1>4, <1>5, <1>6, <1>7, <1>8, <1>9, <1>10 DEF KeyNext, PollNext

LEMMA PollNextKeeps ==
  ASSUME PollInv, [KeyNext \/ PollNext]_keyVars
  PROVE  PollInv'
<1> DEFINE n == Len(poll.asks)
           pace == IntervalAfter(poll.slowed)
<1>1. /\ keyClock \in Nat /\ poll \in PollType /\ poll.slowed \in Nat /\ poll.wake \in Nat
      /\ poll.asks \in Seq(AskType) /\ n \in Nat /\ SlowDown \in Nat
      /\ poll.interval = pace /\ pace \in Nat
  <2>1. poll \in PollType /\ poll.slowed \in Nat
    BY DEF PollInv, PollType
  <2> QED
    BY <2>1, IntervalGrows, KeyAssumption DEF PollInv, PollType
<1>2. poll.asks # <<>> =>
        /\ poll.asks[n].at \in Nat /\ poll.asks[n].at <= keyClock
        /\ poll.phase = "sleeping" => poll.wake >= poll.asks[n].at + pace
  <2>1. poll.asks # <<>> => poll.asks[n] \in AskType
    BY <1>1
  <2>2. poll.asks # <<>> => poll.asks[n].at \in Nat
    BY <2>1 DEF AskType
  <2> QED
    BY <2>2 DEF PollInv
<1> HIDE DEF pace
<1>3. CASE UNCHANGED <<poll, keyClock>>
  BY <1>3 DEF PollInv, PollsPaced
<1>4. CASE KeyTick
  <2>1. keyClock' = keyClock + 1 /\ poll' = poll
    BY <1>4 DEF KeyTick
  <2>2. poll.asks # <<>> => poll.asks[n].at <= keyClock + 1
    BY <1>1, <1>2
  <2>3. PollsPaced'
    BY <2>1 DEF PollInv, PollsPaced, IntervalAfter
  <2>4. IntervalAfter(poll.slowed)' = pace
    BY <2>1 DEF pace, IntervalAfter
  <2> QED
    BY <1>1, <1>2, <2>1, <2>2, <2>3, <2>4 DEF PollInv
<1>5. CASE PollAnswered
  <2>1. PICK slow \in BOOLEAN, phase \in {"granted", "refused", "sleeping"} :
          poll' = [poll EXCEPT !.interval = IF slow THEN poll.interval + SlowDown ELSE poll.interval,
                               !.wake = keyClock + (IF slow THEN poll.interval + SlowDown ELSE poll.interval),
                               !.slowed = IF slow THEN poll.slowed + 1 ELSE poll.slowed, !.phase = phase]
    BY <1>5 DEF PollAnswered
  <2> DEFINE slowed == IF slow THEN poll.slowed + 1 ELSE poll.slowed
             interval == IF slow THEN poll.interval + SlowDown ELSE poll.interval
  <2>2. slowed \in Nat /\ interval \in Nat /\ interval = IntervalAfter(slowed) /\ keyClock + interval \in Nat
    <3>1. IntervalAfter(poll.slowed + 1) = pace + SlowDown
      BY <1>1, IntervalGrows DEF pace
    <3>2. CASE slow
      <4>1. slowed = poll.slowed + 1 /\ interval = pace + SlowDown
        BY <1>1, <3>2
      <4> QED
        BY <1>1, <3>1, <4>1
    <3>3. CASE ~slow
      <4>1. slowed = poll.slowed /\ interval = pace
        BY <1>1, <3>3
      <4> QED
        BY <1>1, <4>1 DEF pace
    <3> QED
      BY <3>2, <3>3
  <2>3. poll' = [poll EXCEPT !.interval = interval, !.wake = keyClock + interval,
                             !.slowed = slowed, !.phase = phase]
    BY <2>1
  <2> HIDE DEF slowed, interval
  <2>4. /\ poll' \in PollType /\ poll'.interval = interval /\ poll'.wake = keyClock + interval
        /\ poll'.slowed = slowed /\ poll'.asks = poll.asks
    BY <1>1, <2>1, <2>2, <2>3 DEF PollType
  <2>5. keyClock' = keyClock
    BY <1>5 DEF PollAnswered
  <2>6. PollsPaced'
    BY <2>4 DEF PollInv, PollsPaced, IntervalAfter
  <2>7. poll.asks # <<>> => poll'.wake >= poll.asks[n].at + interval
    BY <1>1, <1>2, <2>2, <2>4
  <2>8. (poll'.interval = IntervalAfter(poll'.slowed)) /\ interval = IntervalAfter(poll'.slowed)
    BY <2>2, <2>4
  <2> QED
    BY <1>1, <1>2, <2>4, <2>5, <2>6, <2>7, <2>8 DEF PollInv, IntervalAfter
<1>6. CASE PollAgain /\ keyClock >= PollBudget
  <2>1. poll' = [poll EXCEPT !.phase = "refused"] /\ keyClock' = keyClock
    BY <1>6 DEF PollAgain
  <2>2. /\ poll' \in PollType /\ poll'.interval = poll.interval /\ poll'.asks = poll.asks
        /\ poll'.phase = "refused" /\ poll'.slowed = poll.slowed
    BY <1>1, <2>1 DEF PollType
  <2> QED
    BY <1>1, <1>2, <2>1, <2>2 DEF PollInv, PollsPaced, IntervalAfter, pace
<1>7. CASE PollAgain /\ ~(keyClock >= PollBudget)
  <2> DEFINE ask == [at |-> keyClock, slowed |-> poll.slowed]
             asks == Append(poll.asks, ask)
  <2>1. /\ poll' = [poll EXCEPT !.phase = "asking", !.asks = asks] /\ keyClock' = keyClock
        /\ poll.phase = "sleeping" /\ keyClock >= poll.wake
    BY <1>7 DEF PollAgain
  <2>2. ask \in AskType /\ ask.at = keyClock /\ ask.slowed = poll.slowed
    BY <1>1 DEF AskType
  <2> HIDE DEF ask
  <2>3. /\ asks \in Seq(AskType) /\ Len(asks) = n + 1 /\ asks[n + 1] = ask /\ asks # <<>>
        /\ \A i \in 1..n : asks[i] = poll.asks[i]
    BY <1>1, <2>2
  <2> HIDE DEF asks
  <2>4. /\ poll' \in PollType /\ poll'.interval = poll.interval /\ poll'.asks = asks
        /\ poll'.phase = "asking" /\ poll'.slowed = poll.slowed
    BY <1>1, <2>1, <2>3 DEF PollType
  <2>5. keyClock < PollBudget /\ (n > 0 => keyClock - poll.asks[n].at >= pace)
    <3>1. n > 0 => poll.asks # <<>>
      BY <1>1
    <3> QED
      BY <1>1, <1>2, <1>7, <2>1, <3>1, KeyAssumption
  <2>6. ASSUME NEW i \in 1..Len(asks)
        PROVE  /\ asks[i].at < PollBudget
               /\ i > 1 => asks[i].at - asks[i - 1].at >= IntervalAfter(asks[i].slowed)
    <3>1. CASE i \in 1..n
      <4>1. i > 1 => i - 1 \in 1..n
        BY <1>1, <3>1
      <4>2. /\ poll.asks[i].at < PollBudget
            /\ i > 1 => poll.asks[i].at - poll.asks[i - 1].at >= IntervalAfter(poll.asks[i].slowed)
        BY <3>1 DEF PollInv, PollsPaced
      <4> QED
        BY <2>3, <3>1, <4>1, <4>2
    <3>2. CASE i = n + 1
      <4>1. i > 1 => i - 1 = n /\ n \in 1..n /\ n > 0
        BY <1>1, <3>2
      <4>2. asks[i] = ask /\ IntervalAfter(asks[i].slowed) = pace
        BY <2>2, <2>3, <3>2 DEF pace
      <4>3. i > 1 => asks[i - 1] = poll.asks[n]
        BY <2>3, <4>1
      <4> QED
        BY <2>2, <2>5, <4>1, <4>2, <4>3
    <3> QED
      BY <1>1, <2>3, <3>1, <3>2
  <2>7. PollsPaced'
    BY <2>4, <2>6 DEF PollsPaced, IntervalAfter
  <2>8. poll'.asks[Len(poll'.asks)].at <= keyClock
    BY <1>1, <2>2, <2>3, <2>4
  <2> QED
    BY <1>1, <2>1, <2>4, <2>7, <2>8 DEF PollInv, IntervalAfter, pace
<1> QED
  <2>1. UNCHANGED <<poll, keyClock>> \/ KeyTick \/ PollAnswered \/ PollAgain
    BY DEF KeyNext, PollNext, keyVars, UseCachedKeys, FetchKeys, ProviderAnswers, FetchFails,
           CacheKeys, ClearKeys
  <2> QED
    BY <1>3, <1>4, <1>5, <1>6, <1>7, <2>1

LEMMA UsesRecent ==
  ASSUME FetchInv, KeyNext \/ PollNext, NEW v \in Verifiers,
         verifiers[v].phase # "done", verifiers'[v].phase = "done"
  PROVE  /\ \/ keyClock - verifiers'[v].served <= FetchTakes
            \/ keyClock - verifiers'[v].served < KeysFor + FetchTakes
         /\ \E w \in Verifiers : verifiers'[w].asked = verifiers'[v].from
<1>1. /\ keyClock \in Nat /\ DOMAIN verifiers = Verifiers
      /\ FetchTakes \in Nat /\ KeysFor \in Nat
      /\ VerifierOK(verifiers[v]) /\ verifiers[v] \in VerifierType
      /\ verifiers[v].began \in Nat /\ verifiers[v].served \in Nat
  BY KeyAssumption DEF FetchInv, VerifierOK, VerifierType
<1>2. (\E uri \in Providers : UseCachedKeys(v, uri)) \/ CacheKeys(v)
  <2>1. PICK w \in Verifiers :
          \/ \E uri \in Providers : UseCachedKeys(w, uri) \/ FetchKeys(w, uri)
          \/ ProviderAnswers(w) \/ FetchFails(w) \/ CacheKeys(w)
    BY DEF KeyNext, PollNext, ClearKeys, KeyTick, PollAnswered, PollAgain
  <2>2. w = v
    BY <1>1, <2>1 DEF UseCachedKeys, FetchKeys, ProviderAnswers, FetchFails, CacheKeys
  <2>3. (\A uri \in Providers : ~FetchKeys(v, uri)) /\ ~ProviderAnswers(v) /\ ~FetchFails(v)
    <3>1. ASSUME NEW phase \in {"fetching", "reading", "failed"}, NEW asked, NEW began, NEW from, NEW served,
                 verifiers' = [verifiers EXCEPT ![v] =
                   [phase |-> phase, asked |-> asked, began |-> began, from |-> from, served |-> served]]
          PROVE  FALSE
      BY <1>1, <3>1
    <3>2. verifiers[v] = [phase |-> verifiers[v].phase, asked |-> verifiers[v].asked, began |-> verifiers[v].began,
                          from |-> verifiers[v].from, served |-> verifiers[v].served]
      BY <1>1 DEF VerifierType
    <3>3. ~FetchFails(v)
      BY <3>1, <3>2 DEF FetchFails
    <3>4. ~ProviderAnswers(v)
      BY <3>1, <3>2 DEF ProviderAnswers
    <3>5. \A uri \in Providers : ~FetchKeys(v, uri)
      BY <3>1, <3>2 DEF FetchKeys
    <3> QED
      BY <3>3, <3>4, <3>5
  <2> QED
    BY <2>1, <2>2, <2>3
<1>3. ASSUME NEW uri \in Providers, UseCachedKeys(v, uri)
      PROVE  /\ keyClock - verifiers'[v].served < KeysFor + FetchTakes
             /\ \E w \in Verifiers : verifiers'[w].asked = verifiers'[v].from
  <2> DEFINE state == [phase |-> "done", asked |-> uri, began |-> keyClock,
                       from |-> keysCached.from, served |-> keysCached.served]
  <2>1. /\ keysCached # NoKeys /\ keyClock - keysCached.at < KeysFor /\ verifiers[v].phase = "new"
        /\ verifiers' = [verifiers EXCEPT ![v] = state]
    BY <1>3 DEF UseCachedKeys, IsFresh, NoKeys
  <2>2. /\ keysCached.at \in Nat /\ keysCached.served \in Nat
        /\ keysCached.at - keysCached.served <= FetchTakes
    BY <2>1 DEF FetchInv, KeysType
  <2>3. /\ verifiers'[v].served = keysCached.served /\ verifiers'[v].from = keysCached.from
        /\ state.phase # "new"
    BY <1>1, <2>1
  <2>4. SomebodyAsked(keysCached.from)
    BY <2>1 DEF FetchInv
  <2> HIDE DEF state
  <2>5. SomebodyAsked(keysCached.from)'
    <3> DEFINE uri0 == keysCached.from
    <3>1. SomebodyAsked(uri0)
      BY <2>4
    <3> HIDE DEF uri0
    <3>2. \E w \in Verifiers : verifiers'[w].phase # "new" /\ verifiers'[w].asked = uri0
      <4>1. PICK w \in Verifiers : verifiers[w].phase # "new" /\ verifiers[w].asked = uri0
        BY <3>1 DEF SomebodyAsked
      <4>2. w # v
        BY <2>1, <4>1
      <4> QED
        BY <1>1, <2>1, <4>1, <4>2
    <3>3. keysCached' = keysCached
      BY <1>3 DEF UseCachedKeys
    <3> QED
      BY <3>2, <3>3 DEF SomebodyAsked, uri0
  <2>6. keysCached' = keysCached
    BY <1>3 DEF UseCachedKeys
  <2> QED
    BY <1>1, <2>1, <2>2, <2>3, <2>5, <2>6 DEF SomebodyAsked
<1>4. CASE CacheKeys(v)
  <2>1. /\ verifiers'[v].served = verifiers[v].served /\ verifiers'[v].from = verifiers[v].from
        /\ verifiers'[v].asked = verifiers[v].asked
    BY <1>1, <1>4 DEF CacheKeys, VerifierType
  <2>2. /\ keyClock - verifiers[v].began <= FetchTakes
        /\ verifiers[v].began <= verifiers[v].served /\ verifiers[v].from = verifiers[v].asked
    BY <1>1, <1>4 DEF CacheKeys, VerifierOK
  <2> QED
    BY <1>1, <2>1, <2>2
<1> QED
  BY <1>2, <1>3, <1>4

\* For any verifiers and providers, any ttl and any time a fetch takes: no verifier
\* uses keys that were served longer ago than the two together, nor those of a
\* provider nobody asked; and a device flow asks no faster than the interval that its
\* slow_downs made of it, nor past its budget (MemoryJwksCache, pollDeviceToken()).
THEOREM ProviderAskedRight == KeySpec => ProviderAsked
<1>1. ASSUME FetchInv, PollInv, [KeyNext \/ PollNext]_keyVars
      PROVE  FetchInv' /\ PollInv'
  BY <1>1, FetchNext, PollNextKeeps
<1>2. ASSUME FetchInv, [KeyNext \/ PollNext]_keyVars
      PROVE  [\A v \in Verifiers : verifiers[v].phase # "done" /\ verifiers'[v].phase = "done" =>
                /\ \/ keyClock - verifiers'[v].served <= FetchTakes
                   \/ keyClock - verifiers'[v].served < KeysFor + FetchTakes
                /\ \E w \in Verifiers : verifiers'[w].asked = verifiers'[v].from]_keyVars
  BY <1>2, UsesRecent
<1>3. PollInv => PollsPaced
  BY DEF PollInv
<1> QED
  BY <1>1, <1>2, <1>3, KeyInitInv, PTL DEF KeySpec, ProviderAsked, KeysRecent

-----------------------------------------------------------------------------
(***************************************************************************)
(* The response cache.  What is inductive beside the two invariants: each  *)
(* entry was filled by a request for its page that may use the store, no   *)
(* two entries have one place, and a request past the lookup may fill it.  *)
(* prune() leaves room for one because the number of live entries younger  *)
(* than an entry tells it from every other.                                *)
(***************************************************************************)

\* What is true of an entry for a page, at a time, after n insertions.
EntryGood(e, url, now, n) ==
  /\ e.expires \in Nat /\ e.expires <= now + EntryTtl
  /\ e.filledBy \in Gets /\ UrlOf[e.filledBy] = url
  /\ ~Bypasses(e.filledBy)
  /\ e.place \in 1..n

GetPhases == {"new", "running", "reading", "passed", "hit", "filled"}

\* Whose response a request may be answered with.
HonestReply(o, r) ==
  o # NoGet => /\ UrlOf[o] = UrlOf[r]
               /\ ~SharePrivate /\ o \in Personal => o = r

ReplyShape ==
  /\ get \in [Gets -> GetPhases]
  /\ origin \in [Gets -> Gets \cup {NoGet}]

EntriesGood == \A url \in Stored : EntryGood(entries[url], url, clock, filled)

PlacesApart ==
  \A url, u \in Stored : entries[u].place = entries[url].place => u = url

PlainInFlight == \A r \in Gets : get[r] \in {"running", "reading"} => ~Bypasses(r)

EntryRoom == IF MaxEntries = 0 THEN 1 ELSE MaxEntries

StoreFits == IsFiniteSet(Stored) /\ Cardinality(Stored) <= EntryRoom

ResponseInv ==
  /\ ReplyShape
  /\ clock \in 0..LastTick /\ filled \in Nat
  /\ EntriesGood
  /\ PlacesApart
  /\ StoreFits
  /\ PlainInFlight
  /\ RepliesHonest

\* Among finitely many elements with places of their own, at most k have fewer
\* than k above them.
LEMMA TopFew ==
  ASSUME NEW S, IsFiniteSet(S), NEW rank \in [S -> Nat], NEW k \in Nat,
         \A u, v \in S : rank[u] = rank[v] => u = v
  PROVE  LET Top == {u \in S : Cardinality({v \in S : rank[v] > rank[u]}) < k}
         IN  IsFiniteSet(Top) /\ Cardinality(Top) <= k
<1> DEFINE Above(u) == {v \in S : rank[v] > rank[u]}
           Top == {u \in S : Cardinality(Above(u)) < k}
           f == [u \in Top |-> Cardinality(Above(u))]
<1>1. \A u \in S : IsFiniteSet(Above(u)) /\ Cardinality(Above(u)) \in Nat
  <2>1. TAKE u \in S
  <2>2. Above(u) \in SUBSET S
    OBVIOUS
  <2>3. IsFiniteSet(Above(u))
    BY <2>2, FS_Subset
  <2>4. QED BY <2>3, FS_CardinalityType
<1>2. \A u, v \in S : rank[u] > rank[v] => Cardinality(Above(u)) < Cardinality(Above(v))
  <2>1. SUFFICES ASSUME NEW u \in S, NEW v \in S, rank[u] > rank[v]
                 PROVE  Cardinality(Above(u)) < Cardinality(Above(v))
    OBVIOUS
  <2>2. Above(u) \in SUBSET Above(v)
    BY <2>1
  <2>3. u \in Above(v) /\ u \notin Above(u)
    BY <2>1
  <2>4. IsFiniteSet(Above(v))
    BY <1>1
  <2>5. /\ Cardinality(Above(u)) <= Cardinality(Above(v))
        /\ Cardinality(Above(u)) # Cardinality(Above(v))
    BY <2>2, <2>3, <2>4, FS_Subset
  <2>6. Cardinality(Above(u)) \in Nat /\ Cardinality(Above(v)) \in Nat
    BY <1>1
  <2> HIDE DEF Above
  <2>7. QED BY <2>5, <2>6
<1>3. f \in Injection(Top, 0..(k - 1))
  <2>1. f \in [Top -> 0..(k - 1)]
    <3>1. ASSUME NEW u \in Top  PROVE Cardinality(Above(u)) \in 0..(k - 1)
      <4>1. Cardinality(Above(u)) \in Nat /\ Cardinality(Above(u)) < k
        BY <1>1
      <4> HIDE DEF Above
      <4>2. QED BY <4>1
    <3>2. QED BY <3>1
  <2>2. ASSUME NEW u \in Top, NEW v \in Top, f[u] = f[v]  PROVE u = v
    <3>1. Cardinality(Above(u)) = Cardinality(Above(v))
      BY <2>2
    <3>2. u \in S /\ v \in S /\ Cardinality(Above(u)) \in Nat
      BY <1>1
    <3>3. ~(rank[u] > rank[v]) /\ ~(rank[v] > rank[u])
      <4>1. Cardinality(Above(u)) < Cardinality(Above(v)) => FALSE
        BY <3>1, <3>2
      <4>2. Cardinality(Above(v)) < Cardinality(Above(u)) => FALSE
        BY <3>1, <3>2
      <4>3. QED BY <1>2, <3>2, <4>1, <4>2, Zenon
    <3>4. rank[u] = rank[v]
      BY <3>2, <3>3
    <3>5. QED BY <3>2, <3>4
  <2>3. QED BY <2>1, <2>2 DEF Injection, IsInjective
<1>4. IsFiniteSet(0..(k - 1)) /\ Cardinality(0..(k - 1)) = k
  BY FS_Interval
<1>5. IsFiniteSet(Top) /\ Cardinality(Top) <= k
  BY <1>3, <1>4, FS_Injection
<1>6. QED BY <1>5

\* What prune() leaves is stored, and has room for one entry more.
LEMMA PrunedFits ==
  ASSUME ResponseInv
  PROVE  /\ Pruned \subseteq Stored
         /\ IsFiniteSet(Pruned)
         /\ Cardinality(Pruned) \in Nat
         /\ Cardinality(Pruned) + 1 <= EntryRoom
<1>0. MaxEntries \in Nat
  BY ResponseCacheAssumption
<1>1. Pruned \subseteq Stored
  BY DEF Pruned, AllUnexpired
<1>2. IsFiniteSet(Stored)
  BY DEF ResponseInv, StoreFits
<1>3. IsFiniteSet(Pruned)
  BY <1>1, <1>2, FS_Subset
<1>4. Cardinality(Pruned) \in Nat /\ Cardinality(Stored) \in Nat
  BY <1>2, <1>3, FS_CardinalityType
<1>5. CASE Cardinality(Stored) < MaxEntries
  <2>1. Pruned = Stored
    BY <1>5 DEF Pruned
  <2>2. MaxEntries # 0
    BY <1>0, <1>4, <1>5
  <2>3. QED BY <1>0, <1>1, <1>3, <1>4, <1>5, <2>1, <2>2 DEF EntryRoom
<1>6. CASE ~(Cardinality(Stored) < MaxEntries)
  <2> DEFINE rank == [u \in AllUnexpired |-> entries[u].place]
  <2>1. IsFiniteSet(AllUnexpired) /\ AllUnexpired \subseteq Stored
    BY <1>2, FS_Subset DEF AllUnexpired
  <2>2. \A u \in AllUnexpired : entries[u].place \in Nat
    BY <2>1 DEF ResponseInv, EntriesGood, EntryGood
  <2>3. rank \in [AllUnexpired -> Nat]
    BY <2>2
  <2>4. \A u, v \in AllUnexpired : rank[u] = rank[v] => u = v
    BY <2>1 DEF ResponseInv, PlacesApart
  <2>5. Pruned = {url \in AllUnexpired : Cardinality(Younger(url)) + 1 < MaxEntries}
    BY <1>6 DEF Pruned
  <2>6. \A url \in AllUnexpired :
          /\ Younger(url) = {v \in AllUnexpired : rank[v] > rank[url]}
          /\ Cardinality(Younger(url)) \in Nat
    <3>1. TAKE url \in AllUnexpired
    <3>2. Younger(url) = {v \in AllUnexpired : rank[v] > rank[url]}
      BY DEF Younger
    <3>3. Younger(url) \in SUBSET AllUnexpired
      BY <3>2
    <3>4. IsFiniteSet(Younger(url))
      BY <2>1, <3>3, FS_Subset
    <3>5. QED BY <3>2, <3>4, FS_CardinalityType
  <2>7. CASE MaxEntries = 0
    <3>1. Pruned = {}
      BY <2>5, <2>6, <2>7
    <3>2. Cardinality(Pruned) = 0
      BY <3>1, FS_EmptySet
    <3>3. QED BY <1>1, <1>3, <1>4, <2>7, <3>2 DEF EntryRoom
  <2>8. CASE MaxEntries # 0
    <3> DEFINE k == MaxEntries - 1
               Top == {u \in AllUnexpired : Cardinality({v \in AllUnexpired : rank[v] > rank[u]}) < k}
    <3>1. k \in Nat
      BY <1>0, <2>8
    <3>2. \A u \in AllUnexpired :
            Cardinality(Younger(u)) + 1 < MaxEntries <=> Cardinality(Younger(u)) < k
      BY <1>0, <2>6
    <3>3. Pruned = Top
      BY <2>5, <2>6, <3>2
    <3> HIDE DEF k, rank
    <3>4. Cardinality(Top) <= k
      BY <2>1, <2>3, <2>4, <3>1, TopFew
    <3>5. Cardinality(Pruned) <= MaxEntries - 1
      BY <3>3, <3>4 DEF k
    <3>6. QED BY <1>0, <1>1, <1>3, <1>4, <2>8, <3>5 DEF EntryRoom
  <2>9. QED BY <2>7, <2>8
<1>7. QED BY <1>5, <1>6

LEMMA ResponseInvInit == ResponseInit => ResponseInv
<1> SUFFICES ASSUME ResponseInit PROVE ResponseInv
  OBVIOUS
<1>1. Stored = {}
  BY DEF ResponseInit, Stored
<1>2. ReplyShape /\ clock \in 0..LastTick /\ filled \in Nat
  BY ResponseCacheAssumption DEF ResponseInit, ReplyShape, GetPhases
<1>3. EntriesGood /\ PlacesApart
  BY <1>1 DEF EntriesGood, PlacesApart
<1>4. StoreFits
  BY <1>1, FS_EmptySet, ResponseCacheAssumption DEF StoreFits, EntryRoom
<1>5. PlainInFlight /\ RepliesHonest
  BY DEF ResponseInit, PlainInFlight, RepliesHonest
<1>6. QED BY <1>2, <1>3, <1>4, <1>5 DEF ResponseInv

\* A step of one request that leaves the store and the clock.
LEMMA ReplyStep ==
  ASSUME ResponseInv, UNCHANGED <<entries, filled, clock>>,
         NEW r \in Gets, NEW p \in GetPhases, get' = [get EXCEPT ![r] = p],
         p \in {"running", "reading"} => ~Bypasses(r),
         NEW o \in Gets \cup {NoGet}, origin' = [origin EXCEPT ![r] = o],
         HonestReply(o, r)
  PROVE  ResponseInv'
<1>1. ReplyShape' /\ (clock \in 0..LastTick /\ filled \in Nat)'
  BY DEF ResponseInv, ReplyShape
<1>2. Stored' = Stored
  BY DEF Stored
<1>3. EntriesGood' /\ PlacesApart'
  BY <1>2 DEF ResponseInv, EntriesGood, PlacesApart
<1>4. StoreFits'
  BY <1>2 DEF ResponseInv, StoreFits
<1>5. PlainInFlight'
  BY DEF ResponseInv, PlainInFlight, ReplyShape, Bypasses
<1>6. RepliesHonest'
  BY DEF ResponseInv, RepliesHonest, ReplyShape, HonestReply
<1>7. QED BY <1>1, <1>3, <1>4, <1>5, <1>6 DEF ResponseInv

LEMMA OriginKept ==
  ASSUME ResponseInv, NEW r \in Gets
  PROVE  /\ origin = [origin EXCEPT ![r] = origin[r]]
         /\ origin[r] \in Gets \cup {NoGet}
         /\ HonestReply(origin[r], r)
<1>1. origin \in [Gets -> Gets \cup {NoGet}]
  BY DEF ResponseInv, ReplyShape
<1>2. HonestReply(origin[r], r)
  BY DEF ResponseInv, RepliesHonest, HonestReply
<1>3. QED BY <1>1, <1>2

\* A hit is answered with a response to the same page, and never a personal one.
LEMMA HitKeeps ==
  ASSUME ResponseInv, NEW r \in Gets, Hit(r)
  PROVE  ResponseInv'
<1>1. PICK o : o = entries[UrlOf[r]].filledBy
  OBVIOUS
<1>2. EntryGood(entries[UrlOf[r]], UrlOf[r], clock, filled)
  BY DEF Hit, Found, ResponseInv, EntriesGood
<1>3. o \in Gets /\ UrlOf[o] = UrlOf[r] /\ ~Bypasses(o)
  BY <1>1, <1>2 DEF EntryGood
<1>4. HonestReply(o, r)
  BY <1>3 DEF HonestReply, Bypasses
<1>5. origin' = [origin EXCEPT ![r] = o] /\ get' = [get EXCEPT ![r] = "hit"]
  BY <1>1 DEF Hit
<1>6. UNCHANGED <<entries, filled, clock>>
  BY DEF Hit
<1>7. QED BY <1>3, <1>4, <1>5, <1>6, ReplyStep DEF GetPhases

\* What a step that only sets phases and origins of one request leaves true.
LEMMA PhaseKept ==
  ASSUME ResponseInv, NEW r \in Gets, NEW p \in GetPhases,
         get' = [get EXCEPT ![r] = p], p \in {"running", "reading"} => ~Bypasses(r),
         origin' = origin \/ origin' = [origin EXCEPT ![r] = r]
  PROVE  ReplyShape' /\ PlainInFlight' /\ RepliesHonest'
<1>1. ReplyShape'
  BY DEF ResponseInv, ReplyShape
<1>2. PlainInFlight'
  BY DEF ResponseInv, PlainInFlight, ReplyShape, Bypasses
<1>3. RepliesHonest'
  BY DEF ResponseInv, RepliesHonest, ReplyShape
<1>4. QED BY <1>1, <1>2, <1>3

LEMMA MissKeeps ==
  ASSUME ResponseInv, NEW r \in Gets, Miss(r)
  PROVE  ResponseInv'
<1>1. ReplyShape' /\ PlainInFlight' /\ RepliesHonest'
  BY PhaseKept DEF Miss, GetPhases
<1>2. Stored' = Stored \ {UrlOf[r]}
  BY DEF Miss, Stored
<1>3. \A url \in Stored' : entries'[url] = entries[url]
  BY <1>2 DEF Miss
<1>4. EntriesGood' /\ PlacesApart'
  BY <1>2, <1>3 DEF ResponseInv, EntriesGood, PlacesApart, EntryGood, Bypasses, Miss
<1>5. IsFiniteSet(Stored) /\ Cardinality(Stored) <= EntryRoom
  BY DEF ResponseInv, StoreFits
<1>6. IsFiniteSet(Stored') /\ Cardinality(Stored') <= Cardinality(Stored)
  BY <1>2, <1>5, FS_Subset
<1>7. Cardinality(Stored) \in Nat /\ Cardinality(Stored') \in Nat
  BY <1>5, <1>6, FS_CardinalityType
<1>8. StoreFits'
  BY <1>5, <1>6, <1>7, ResponseCacheAssumption DEF StoreFits, EntryRoom
<1>9. (clock \in 0..LastTick /\ filled \in Nat)'
  BY DEF Miss, ResponseInv
<1>10. QED BY <1>1, <1>4, <1>8, <1>9 DEF ResponseInv

\* After a fill: what was pruned to, as it was, and the new entry.
LEMMA FillStores ==
  ASSUME ResponseInv, NEW r \in Gets, Fill(r)
  PROVE  /\ Stored' = Pruned \cup {UrlOf[r]}
         /\ \A url \in Pruned : url # UrlOf[r] => entries'[url] = entries[url]
         /\ entries'[UrlOf[r]].expires = clock + EntryTtl
         /\ entries'[UrlOf[r]].filledBy = r
         /\ UrlOf[r] \in Pruned =>
              entries'[UrlOf[r]].place = entries[UrlOf[r]].place
         /\ UrlOf[r] \notin Pruned => entries'[UrlOf[r]].place = filled + 1
<1>1. entries' = SetEntry(Pruned, r)
  BY DEF Fill
<1>2. PICK room : room = Pruned
  OBVIOUS
<1>3. entries' = SetEntry(room, r)
  BY <1>1, <1>2
<1>4. Stored' = room \cup {UrlOf[r]}
  BY <1>3 DEF Stored, SetEntry
<1>5. \A url \in room : url # UrlOf[r] => entries'[url] = entries[url]
  BY <1>3 DEF SetEntry
<1>6. entries'[UrlOf[r]] =
        [expires |-> clock + EntryTtl, filledBy |-> r,
         place |-> IF UrlOf[r] \in room THEN entries[UrlOf[r]].place ELSE filled + 1]
  BY <1>3 DEF SetEntry
<1>7. QED BY <1>2, <1>4, <1>5, <1>6

LEMMA FillKeeps ==
  ASSUME ResponseInv, NEW r \in Gets, Fill(r)
  PROVE  ResponseInv'
<1>0. /\ clock \in Nat /\ filled \in Nat /\ EntryTtl \in Nat /\ clock \in 0..LastTick
      /\ clock' = clock /\ filled' = filled + 1
  BY ResponseCacheAssumption DEF ResponseInv, Fill
<1>1. ReplyShape' /\ PlainInFlight' /\ RepliesHonest'
  BY PhaseKept DEF Fill, GetPhases
<1>2. Pruned \subseteq Stored
  BY PrunedFits
<1>3. PICK u : u = UrlOf[r]
  OBVIOUS
<1>4. PICK map : map = entries'
  OBVIOUS
<1>5. PICK room : room = Pruned
  OBVIOUS
<1>6. /\ Stored' = room \cup {u}
      /\ \A url \in room : url # u => map[url] = entries[url]
      /\ map[u].expires = clock + EntryTtl
      /\ map[u].filledBy = r
      /\ u \in room => map[u].place = entries[u].place
      /\ u \notin room => map[u].place = filled + 1
  BY <1>3, <1>4, <1>5, FillStores
<1>7. ~Bypasses(r)
  BY DEF ResponseInv, PlainInFlight, Fill
<1>8. \A url \in room : EntryGood(entries[url], url, clock, filled)
  BY <1>2, <1>5 DEF ResponseInv, EntriesGood
<1>9. EntryGood(map[u], u, clock, filled + 1)
  <2>1. map[u].place \in 1..(filled + 1)
    BY <1>0, <1>6, <1>8 DEF EntryGood
  <2>2. QED BY <1>0, <1>3, <1>6, <1>7, <2>1 DEF EntryGood
<1>10. \A url \in room \cup {u} : EntryGood(map[url], url, clock, filled + 1)
  <2>1. ASSUME NEW url \in room, url # u  PROVE EntryGood(map[url], url, clock, filled + 1)
    <3>1. EntryGood(map[url], url, clock, filled)
      BY <1>6, <1>8, <2>1
    <3>2. QED BY <1>0, <3>1 DEF EntryGood
  <2>2. QED BY <1>9, <2>1
<1>11. EntriesGood'
  BY <1>0, <1>4, <1>6, <1>10 DEF EntriesGood, EntryGood, Bypasses
<1>12. \A url \in room \cup {u} :
         /\ url \in room => map[url].place = entries[url].place
         /\ url \notin room => url = u /\ map[url].place = filled + 1
  BY <1>6
<1>13. \A url \in room : entries[url].place \in Nat /\ entries[url].place # filled + 1
  BY <1>0, <1>8 DEF EntryGood
<1>14. \A x, y \in room : entries[x].place = entries[y].place => x = y
  BY <1>2, <1>5 DEF ResponseInv, PlacesApart
<1>15. \A x, y \in room \cup {u} : map[x].place = map[y].place => x = y
  BY <1>12, <1>13, <1>14
<1>16. PlacesApart'
  BY <1>4, <1>6, <1>15 DEF PlacesApart
<1>17. StoreFits'
  <2>1. IsFiniteSet(room) /\ Cardinality(room) \in Nat /\ Cardinality(room) + 1 <= EntryRoom
    BY <1>5, PrunedFits
  <2>2. /\ IsFiniteSet(room \cup {u})
        /\ Cardinality(room \cup {u}) <= Cardinality(room) + 1
    BY <2>1, FS_AddElement
  <2>3. Cardinality(room \cup {u}) \in Nat
    BY <2>2, FS_CardinalityType
  <2>4. Cardinality(room \cup {u}) <= EntryRoom
    BY <2>1, <2>2, <2>3, ResponseCacheAssumption DEF EntryRoom
  <2>5. QED BY <1>6, <2>2, <2>4 DEF StoreFits, EntryRoom
<1>18. (clock \in 0..LastTick /\ filled \in Nat)'
  BY <1>0
<1>19. QED BY <1>1, <1>11, <1>16, <1>17, <1>18 DEF ResponseInv

LEMMA ResponseTickKeeps ==
  ASSUME ResponseInv, ResponseTick
  PROVE  ResponseInv'
<1>0. /\ clock \in Nat /\ LastTick \in Nat /\ EntryTtl \in Nat
      /\ clock' = clock + 1 /\ clock < LastTick
  BY ResponseCacheAssumption DEF ResponseInv, ResponseTick
<1>1. Stored' = Stored
  BY DEF Stored, ResponseTick
<1>2. ReplyShape' /\ PlainInFlight' /\ RepliesHonest' /\ PlacesApart' /\ StoreFits'
  BY <1>1 DEF ResponseInv, ReplyShape, PlainInFlight, RepliesHonest, PlacesApart,
              StoreFits, ResponseTick, Bypasses, EntryRoom
<1>3. (clock \in 0..LastTick /\ filled \in Nat)'
  BY <1>0 DEF ResponseInv, ResponseTick
<1>4. EntriesGood'
  <2>1. SUFFICES ASSUME NEW url \in Stored
                 PROVE  EntryGood(entries[url], url, clock + 1, filled)
    BY <1>0, <1>1 DEF EntriesGood, EntryGood, ResponseTick, Bypasses
  <2>2. EntryGood(entries[url], url, clock, filled)
    BY DEF ResponseInv, EntriesGood
  <2>3. QED BY <1>0, <2>2 DEF EntryGood
<1>5. QED BY <1>2, <1>3, <1>4 DEF ResponseInv

LEMMA ResponseInvNext == ResponseInv /\ [ResponseNext]_responseVars => ResponseInv'
<1> SUFFICES ASSUME ResponseInv, [ResponseNext]_responseVars PROVE ResponseInv'
  OBVIOUS
<1>1. ASSUME NEW r \in Gets, Bypass(r)  PROVE ResponseInv'
  BY <1>1, ReplyStep DEF Bypass, GetPhases, HonestReply
<1>2. ASSUME NEW r \in Gets, Hit(r)  PROVE ResponseInv'
  BY <1>2, HitKeeps
<1>3. ASSUME NEW r \in Gets, Miss(r)  PROVE ResponseInv'
  BY <1>3, MissKeeps
<1>4. ASSUME NEW r \in Gets, Unstorable(r)  PROVE ResponseInv'
  BY <1>4, ReplyStep DEF Unstorable, GetPhases, HonestReply
<1>5. ASSUME NEW r \in Gets, Ok(r)  PROVE ResponseInv'
  <2>1. ~Bypasses(r)
    BY <1>5 DEF Ok, ResponseInv, PlainInFlight
  <2>2. origin' = [origin EXCEPT ![r] = origin[r]]
    BY <1>5, OriginKept DEF Ok
  <2>3. get' = [get EXCEPT ![r] = "reading"] /\ UNCHANGED <<entries, filled, clock>>
    BY <1>5 DEF Ok
  <2>4. origin[r] \in Gets \cup {NoGet} /\ HonestReply(origin[r], r)
    BY OriginKept
  <2>5. QED BY <2>1, <2>2, <2>3, <2>4, ReplyStep DEF GetPhases
<1>6. ASSUME NEW r \in Gets, Fill(r)  PROVE ResponseInv'
  BY <1>6, FillKeeps
<1>7. CASE ResponseTick
  BY <1>7, ResponseTickKeeps
<1>8. CASE UNCHANGED responseVars
  <2>1. UNCHANGED <<entries, filled, clock, get, origin>>
    BY <1>8 DEF responseVars
  <2>2. Stored' = Stored
    BY <2>1 DEF Stored
  <2>3. QED BY <2>1, <2>2 DEF ResponseInv, ReplyShape, EntriesGood, PlacesApart, StoreFits,
                            PlainInFlight, RepliesHonest, EntryGood, Bypasses, EntryRoom
<1>9. QED BY <1>1, <1>2, <1>3, <1>4, <1>5, <1>6, <1>7, <1>8 DEF ResponseNext

LEMMA ResponseInvHonest == ResponseInv => ResponseTypeOK /\ RepliesHonest
<1> SUFFICES ASSUME ResponseInv PROVE ResponseTypeOK
  BY DEF ResponseInv
<1>1. /\ IsFiniteSet(Stored)
      /\ Cardinality(Stored) <= (IF MaxEntries = 0 THEN 1 ELSE MaxEntries)
      /\ clock \in 0..LastTick
  BY DEF ResponseInv, StoreFits, EntryRoom
<1>2. \A url \in Stored : /\ entries[url].expires <= clock + EntryTtl
                          /\ entries[url].filledBy \in Gets
                          /\ entries[url].place \in 1..filled
  BY DEF ResponseInv, EntriesGood, EntryGood
<1>3. \A url, u \in Stored : entries[u].place = entries[url].place => u = url
  BY DEF ResponseInv, PlacesApart
<1>4. QED BY <1>1, <1>2, <1>3 DEF ResponseTypeOK

\* prune() keeps no live entry and drops a younger one, and when it drops a live
\* entry it has dropped what has expired.
LEMMA PruneOrder ==
  ASSUME ResponseInv, NEW url \in Stored, Unexpired(url), url \notin Pruned
  PROVE  /\ Pruned \subseteq AllUnexpired
         /\ \A u \in Pruned : ~(entries[u].place < entries[url].place)
<1>1. ~(Cardinality(Stored) < MaxEntries)
  BY DEF Pruned
<1>2. Pruned = {u \in AllUnexpired : Cardinality(Younger(u)) + 1 < MaxEntries}
  BY <1>1 DEF Pruned
<1>3. url \in AllUnexpired
  BY DEF AllUnexpired
<1>4. IsFiniteSet(AllUnexpired)
  BY FS_Subset DEF AllUnexpired, ResponseInv, StoreFits
<1>5. \A u \in AllUnexpired : entries[u].place \in Nat
  BY DEF ResponseInv, EntriesGood, EntryGood, AllUnexpired
<1>6. \A u \in AllUnexpired : IsFiniteSet(Younger(u)) /\ Cardinality(Younger(u)) \in Nat
  <2>1. TAKE u \in AllUnexpired
  <2>2. Younger(u) \in SUBSET AllUnexpired
    BY DEF Younger
  <2>3. IsFiniteSet(Younger(u))
    BY <1>4, <2>2, FS_Subset
  <2>4. QED BY <2>3, FS_CardinalityType
<1>7. ASSUME NEW u \in Pruned, entries[u].place < entries[url].place  PROVE FALSE
  <2>1. u \in AllUnexpired /\ Cardinality(Younger(u)) + 1 < MaxEntries
    BY <1>2
  <2>2. Younger(url) \in SUBSET Younger(u)
    BY <1>3, <1>5, <1>7, <2>1 DEF Younger
  <2>3. Cardinality(Younger(url)) <= Cardinality(Younger(u))
    BY <1>6, <2>1, <2>2, FS_Subset
  <2>4. Cardinality(Younger(url)) + 1 < MaxEntries
    BY <1>3, <1>6, <2>1, <2>3, ResponseCacheAssumption
  <2>5. QED BY <1>2, <1>3, <2>4
<1>8. QED BY <1>2, <1>7

\* What EvictionOrder says of one entry that a step evicts.
FairEviction(url) ==
  /\ \A u \in Stored' : entries'[u].expires > clock
  /\ \A u \in Stored :
       Unexpired(u) /\ entries[u].place < entries[url].place =>
         ~(u \in Stored' /\ entries'[u] = entries[u])

LEMMA FillEvictsFairly ==
  ASSUME ResponseInv, NEW r \in Gets, Fill(r),
         NEW url \in Stored, Unexpired(url), url \notin Stored'
  PROVE  FairEviction(url)
<1>1. PICK v : v = UrlOf[r]
  OBVIOUS
<1>2. PICK map : map = entries'
  OBVIOUS
<1>3. /\ Stored' = Pruned \cup {v}
      /\ \A u \in Pruned : u # v => map[u] = entries[u]
      /\ map[v].expires = clock + EntryTtl
      /\ v \notin Pruned => map[v].place = filled + 1
  BY <1>1, <1>2, FillStores
<1>4. url \notin Pruned
  BY <1>3
<1>5. /\ Pruned \subseteq AllUnexpired
      /\ \A u \in Pruned : ~(entries[u].place < entries[url].place)
  BY <1>4, PruneOrder
<1>6. clock < clock + EntryTtl
  <2>1. EntryGood(entries[url], url, clock, filled)
    BY DEF ResponseInv, EntriesGood
  <2>2. entries[url].expires > clock
    BY DEF Unexpired
  <2>3. clock \in Nat /\ EntryTtl \in Nat
    BY ResponseCacheAssumption DEF ResponseInv
  <2>4. QED BY <2>1, <2>2, <2>3 DEF EntryGood
<1>7. ASSUME NEW u \in Stored'  PROVE map[u].expires > clock
  <2>1. CASE u = v
    <3>1. clock \in Nat /\ EntryTtl \in Nat
      BY ResponseCacheAssumption DEF ResponseInv
    <3>2. QED BY <1>3, <1>6, <2>1, <3>1
  <2>2. CASE u # v
    <3>1. u \in Pruned /\ map[u] = entries[u]
      BY <1>3, <2>2
    <3>2. entries[u].expires > clock
      BY <1>5, <3>1 DEF AllUnexpired, Unexpired
    <3>3. QED BY <3>1, <3>2
  <2>3. QED BY <2>1, <2>2
<1>8. ASSUME NEW u \in Stored, entries[u].place < entries[url].place, u \in Stored'
      PROVE  map[u] # entries[u]
  <2>1. u \notin Pruned
    BY <1>5, <1>8
  <2>2. u = v
    BY <1>3, <1>8, <2>1
  <2>3. map[u].place = filled + 1
    BY <1>3, <2>1, <2>2
  <2>4. entries[u].place \in 1..filled /\ filled \in Nat
    BY DEF ResponseInv, EntriesGood, EntryGood
  <2>5. entries[u].place # filled + 1
    BY <2>4
  <2>6. QED BY <2>3, <2>5
<1>9. QED BY <1>2, <1>7, <1>8 DEF FairEviction

LEMMA EvictionStep ==
  ASSUME ResponseInv, [ResponseNext]_responseVars,
         NEW url \in Stored, Unexpired(url), url \notin Stored'
  PROVE  FairEviction(url)
<1>1. entries' # entries
  BY DEF Stored
<1>2. PICK r \in Gets : Miss(r) \/ Fill(r)
  BY <1>1 DEF ResponseNext, responseVars, Bypass, Hit, Unstorable, Ok, ResponseTick
<1>3. ~Miss(r)
  <2>1. SUFFICES ASSUME Miss(r) PROVE FALSE
    OBVIOUS
  <2>2. Stored' = Stored \ {UrlOf[r]}
    BY <2>1 DEF Miss, Stored
  <2>3. url = UrlOf[r]
    BY <2>2
  <2>4. QED BY <2>1, <2>3 DEF Miss, Found
<1>4. QED BY <1>2, <1>3, FillEvictsFairly

\* cache(): nobody is replayed the response to another page or, unless private
\* is set, the personal one of somebody else; the map never outgrows its cap
\* however many misses are filled at once; and a step that evicts a live entry
\* has dropped what has expired and keeps no older live entry.
THEOREM CacheAlwaysHonest == ResponseSpec => CacheHonest
<1>1. ResponseInit => ResponseInv
  BY ResponseInvInit
<1>2. ResponseInv /\ [ResponseNext]_responseVars => ResponseInv'
  BY ResponseInvNext
<1>3. ResponseInv => ResponseTypeOK /\ RepliesHonest
  BY ResponseInvHonest
<1>4. ResponseInv /\ [ResponseNext]_responseVars =>
        [\A url \in Stored :
           Unexpired(url) /\ url \notin Stored' =>
             /\ \A u \in Stored' : entries'[u].expires > clock
             /\ \A u \in Stored :
                  Unexpired(u) /\ entries[u].place < entries[url].place =>
                    ~(u \in Stored' /\ entries'[u] = entries[u])]_responseVars
  BY EvictionStep DEF FairEviction
<1>5. QED BY <1>1, <1>2, <1>3, <1>4, PTL DEF ResponseSpec, CacheHonest, EvictionOrder

=============================================================================
