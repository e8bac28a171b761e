----------------------------- MODULE RateLimit -----------------------------
(***************************************************************************)
(* The fixed-window rate limiter (rateLimit of @minostack/mino): one       *)
(* bucket per key, opened by the first request of a window.  All of a      *)
(* request's work on the buckets is synchronous, so it is one action.      *)
(***************************************************************************)
EXTENDS Integers, Sequences, SequencesExt, FiniteSets, FiniteSetsExt

CONSTANTS
  Peers,        \* socket addresses adapters set, and addresses in forwarded lists
  TrustsAll,    \* trustProxy: true
  TrustProxy,   \* the number of trusted proxies otherwise, -1 when none is
  Window,       \* windowMs, in ticks
  MaxPerWindow, \* max
  MaxBuckets,   \* MAX_BUCKETS
  PruneSlack,   \* how many below MaxBuckets a prune stops
  LimitTicks    \* bound on the clock

ASSUME LimitAssumption ==
  /\ TrustProxy \in Int /\ Window \in Nat /\ MaxPerWindow \in Nat
  /\ MaxBuckets \in Nat /\ PruneSlack \in Nat

VARIABLES
  limitClock,
  buckets,      \* the Map: key -> [count, reset, place], place by insertion
  letThrough    \* history: sequence of [key, at, since] of the requests let
                \* through, since when the window ran that they count for

limitVars == <<limitClock, buckets, letThrough>>

\* The address a request counts for: of the forwarded list without the entries
\* of the trusted hops the last one, else the peer.
ClientIp(peer, forwarded) ==
  IF TrustsAll /\ forwarded # <<>> THEN Head(forwarded)
  ELSE IF ~TrustsAll /\ TrustProxy >= 0 /\ Len(forwarded) > TrustProxy
  THEN forwarded[Len(forwarded) - TrustProxy]
  ELSE peer

LimitInit == limitClock = 0 /\ buckets = [k \in {} |-> 0] /\ letThrough = <<>>

Lapsed(k) == buckets[k].reset <= limitClock

\* Seeded fault: the oldest go, whether their windows run or not.
Prune_Oldest ==
  IF Cardinality(DOMAIN buckets) <= MaxBuckets THEN buckets
  ELSE LET Older(k) == {j \in DOMAIN buckets : buckets[j].place < buckets[k].place}
           kept == {k \in DOMAIN buckets :
                      Cardinality(DOMAIN buckets) - Cardinality(Older(k)) <= MaxBuckets - PruneSlack}
       IN [k \in kept |-> buckets[k]]

\* Walks the buckets of a table that is too large in order, drops those that
\* have expired, and stops once enough are gone.
Prune ==
  IF Cardinality(DOMAIN buckets) <= MaxBuckets THEN buckets
  ELSE LET Gone(k) == {j \in DOMAIN buckets : Lapsed(j) /\ buckets[j].place < buckets[k].place}
           kept == {k \in DOMAIN buckets : Lapsed(k) =>
                      Cardinality(DOMAIN buckets) - Cardinality(Gone(k)) <= MaxBuckets - PruneSlack}
       IN [k \in kept |-> buckets[k]]

\* The bucket that counts a request: the key's own while its window runs, and
\* else a new one, which replaces an expired one in its place.
Counted(key) ==
  IF key \in DOMAIN Prune /\ ~Lapsed(key) THEN [Prune[key] EXCEPT !.count = @ + 1]
  ELSE [count |-> 1, reset |-> limitClock + Window,
        place |-> IF key \in DOMAIN Prune THEN Prune[key].place
                  ELSE 1 + Max({0} \cup {Prune[k].place : k \in DOMAIN Prune})]

Request(peer, forwarded) ==
  LET key == ClientIp(peer, forwarded)
      bucket == Counted(key)
  IN /\ buckets' = [k \in DOMAIN Prune \cup {key} |-> IF k = key THEN bucket ELSE Prune[k]]
     /\ letThrough' = IF bucket.count > MaxPerWindow THEN letThrough
                      ELSE Append(letThrough, [key |-> key, at |-> limitClock,
                                               since |-> bucket.reset - Window])
     /\ UNCHANGED limitClock

LimitTick ==
  /\ limitClock < LimitTicks
  /\ limitClock' = limitClock + 1
  /\ UNCHANGED <<buckets, letThrough>>

LimitNext ==
  \/ \E peer \in Peers, forwarded \in SeqOf(Peers, 2) : Request(peer, forwarded)
  \/ LimitTick

LimitSpec == LimitInit /\ [][LimitNext]_limitVars

-----------------------------------------------------------------------------
(* Properties *)

Within(key, from, to) ==
  Cardinality({i \in DOMAIN letThrough :
                 letThrough[i].key = key /\ letThrough[i].at >= from /\ letThrough[i].at < to})

\* No stretch of time as long as a window lets more than two windows' worth of
\* requests of one key through, and a running window no more than its own,
\* whatever was pruned in between.
BudgetKept ==
  /\ \A i \in DOMAIN letThrough :
       Within(letThrough[i].key, letThrough[i].at, letThrough[i].at + Window) <= 2 * MaxPerWindow
  /\ \A k \in DOMAIN buckets : ~Lapsed(k) =>
       Within(k, buckets[k].reset - Window, buckets[k].reset) <= MaxPerWindow
=============================================================================
