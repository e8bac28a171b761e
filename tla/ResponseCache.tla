--------------------------- MODULE ResponseCache ---------------------------
(***************************************************************************)
(* packages/mino/src/cache.ts: the cache() middleware, for requests with   *)
(* a listed method.  A request is interrupted while it awaits next() and   *)
(* the body; lookups and insertions by other requests come in between.     *)
(* "entries" is the Map, each entry with its place in the insertion order. *)
(***************************************************************************)
EXTENDS Naturals, FiniteSets

CONSTANTS Gets,          \* requests
          UrlOf,         \* the METHOD:url of each
          Personal,      \* requests with an authorization header
          Uncached,      \* requests with cache-control: no-cache
          SharePrivate,  \* opts.private
          EntryTtl,      \* opts.ttlMs in ticks
          MaxEntries,    \* opts.maxEntries
          LastTick,      \* bound: the clock stops here
          NoGet

ASSUME ResponseCacheAssumption ==
  /\ IsFiniteSet(Gets) /\ DOMAIN UrlOf = Gets /\ NoGet \notin Gets
  /\ Personal \subseteq Gets /\ Uncached \subseteq Gets
  /\ SharePrivate \in BOOLEAN
  /\ EntryTtl \in Nat /\ MaxEntries \in Nat /\ LastTick \in Nat

VARIABLES entries,  \* store: url -> [expires, filledBy, place], place by insertion
          filled,   \* insertions so far
          clock,    \* Date.now()
          get,      \* per request: where it is
          origin    \* per request: whose response it was answered with

responseVars == <<entries, filled, clock, get, origin>>

ResponseInit ==
  /\ entries = <<>> /\ filled = 0
  /\ clock = 0
  /\ get = [r \in Gets |-> "new"]
  /\ origin = [r \in Gets |-> NoGet]

Stored == DOMAIN entries
Unexpired(url) == entries[url].expires > clock
Found(url) == url \in Stored /\ Unexpired(url)

\* Seeded fault: the authorization test is dropped.
Bypasses_NoCacheOnly(r) == r \in Uncached

\* Authorized and no-cache requests neither read nor fill the store.
Bypasses(r) == (~SharePrivate /\ r \in Personal) \/ r \in Uncached

Bypass(r) ==
  /\ get[r] = "new"
  /\ Bypasses(r)
  /\ get' = [get EXCEPT ![r] = "passed"]
  /\ origin' = [origin EXCEPT ![r] = r]
  /\ UNCHANGED <<entries, filled, clock>>

Hit(r) ==
  /\ get[r] = "new"
  /\ ~Bypasses(r)
  /\ Found(UrlOf[r])
  /\ origin' = [origin EXCEPT ![r] = entries[UrlOf[r]].filledBy]
  /\ get' = [get EXCEPT ![r] = "hit"]
  /\ UNCHANGED <<entries, filled, clock>>

\* A miss drops the stale entry, if there is one, and calls next().
Miss(r) ==
  /\ get[r] = "new"
  /\ ~Bypasses(r)
  /\ ~Found(UrlOf[r])
  /\ entries' = [url \in Stored \ {UrlOf[r]} |-> entries[url]]
  /\ get' = [get EXCEPT ![r] = "running"]
  /\ UNCHANGED <<filled, clock, origin>>

\* No response, a status other than 200, no body, a body that cannot be read
\* or one over 5 MB: answered and not stored.
Unstorable(r) ==
  /\ get[r] \in {"running", "reading"}
  /\ get' = [get EXCEPT ![r] = "passed"]
  /\ origin' = [origin EXCEPT ![r] = r]
  /\ UNCHANGED <<entries, filled, clock>>

Ok(r) ==
  /\ get[r] = "running"
  /\ get' = [get EXCEPT ![r] = "reading"]
  /\ UNCHANGED <<entries, filled, clock, origin>>

AllUnexpired == {url \in Stored : Unexpired(url)}
Younger(url) == {u \in AllUnexpired : entries[u].place > entries[url].place}

\* prune(): what remains.  Below the cap everything; else no expired entry, and
\* of the others the youngest that leave room for one.
Pruned ==
  IF Cardinality(Stored) < MaxEntries THEN Stored
  ELSE {url \in AllUnexpired : Cardinality(Younger(url)) + 1 < MaxEntries}

\* Map.set() on those: a key that is there keeps its place.
SetEntry(room, r) ==
  [url \in room \cup {UrlOf[r]} |->
     IF url # UrlOf[r] THEN entries[url]
     ELSE [expires |-> clock + EntryTtl, filledBy |-> r,
           place |-> IF url \in room THEN entries[url].place ELSE filled + 1]]

\* The body is read: prune, store, answer.
Fill(r) ==
  /\ get[r] = "reading"
  /\ entries' = SetEntry(Pruned, r)
  /\ filled' = filled + 1
  /\ get' = [get EXCEPT ![r] = "filled"]
  /\ origin' = [origin EXCEPT ![r] = r]
  /\ UNCHANGED clock

ResponseTick ==
  /\ clock < LastTick
  /\ clock' = clock + 1
  /\ UNCHANGED <<entries, filled, get, origin>>

ResponseNext ==
  \/ \E r \in Gets :
       \/ Bypass(r) \/ Hit(r) \/ Miss(r) \/ Unstorable(r) \/ Ok(r)
       \/ Fill(r)
  \/ ResponseTick

ResponseSpec == ResponseInit /\ [][ResponseNext]_responseVars

-----------------------------------------------------------------------------
(* Properties *)

\* Expiry times lie at most a TTL ahead, no two entries have one place, and the
\* cap holds however many misses are filled at once; a cap of 0 still keeps the
\* entry just stored.
ResponseTypeOK ==
  /\ IsFiniteSet(Stored)
  /\ Cardinality(Stored) <= (IF MaxEntries = 0 THEN 1 ELSE MaxEntries)
  /\ \A url \in Stored :
       /\ entries[url].expires <= clock + EntryTtl
       /\ entries[url].filledBy \in Gets
       /\ entries[url].place \in 1..filled
       /\ \A u \in Stored : entries[u].place = entries[url].place => u = url
  /\ clock \in 0..LastTick

\* "keyed by METHOD:url", "per-user responses must not be shared across users":
\* a request is answered with a response to its own page, and unless private is
\* set nobody but its sender sees the response to an authorized request.
RepliesHonest ==
  \A r \in Gets : origin[r] # NoGet =>
    /\ UrlOf[origin[r]] = UrlOf[r]
    /\ ~SharePrivate /\ origin[r] \in Personal => origin[r] = r

\* "Drop expired first so live entries survive sizing pressure when possible",
\* "then evict oldest-first": a step that evicts a live entry leaves no expired
\* one, and keeps no live entry that came into the map before it.
EvictionOrder ==
  [][\A url \in Stored :
       Unexpired(url) /\ url \notin Stored' =>
         /\ \A u \in Stored' : entries'[u].expires > clock
         /\ \A u \in Stored :
              Unexpired(u) /\ entries[u].place < entries[url].place =>
                ~(u \in Stored' /\ entries'[u] = entries[u])
    ]_responseVars

\* Nobody is replayed the response to another page or the personal one of
\* somebody else, and the map makes room by dropping what has expired first,
\* then the oldest.
CacheHonest == [](ResponseTypeOK /\ RepliesHonest) /\ EvictionOrder

=============================================================================
