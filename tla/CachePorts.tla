----------------------------- MODULE CachePorts -----------------------------
(***************************************************************************)
(* MemoryCache and the wrappers of @minostack/cache that are not           *)
(* single-flight: namespaced(), cacheAside() and withNegativeCache().      *)
(* Tenants share one MemoryCache through namespaces; their loads overlap   *)
(* each other and the writes of what they load.                            *)
(***************************************************************************)
EXTENDS Integers, Sequences, FiniteSets, FiniteSetsExt

CONSTANTS
  Origins,      \* what is cached: [tenant, name], each a sequence of colon-free segments
  Readers,      \* calls of cacheAside() or getOrLoad()
  OriginOf,     \* Reader -> Origin
  Negative,     \* the readers that use withNegativeCache()
  Ttl,          \* ttlMs and negativeTtlMs, in ticks
  CacheCap,     \* maxEntries
  Versions,     \* bound on the writes of a source
  CacheTicks    \* bound on the clock

ASSUME CacheAssumption == OriginOf \in [Readers -> Origins] /\ Ttl \in Nat

VARIABLES
  cacheClock,
  held,         \* MemoryCache.entries: key -> [data, exp, place], place by insertion
  source,       \* Origin -> version of what loaders load; odd versions are "absent"
  writes,       \* writes of a source whose writer has not come to the cache yet
  readers       \* Reader -> [phase, data]

portVars == <<cacheClock, held, source, writes, readers>>

\* namespaced(): `${prefix}:${k}`.  Joining segments by colons forgets where the
\* prefix ends: tenant a with name b:c and tenant a:b with name c have one key.
Prefixed(o) == o.tenant \o o.name
AllKeys == {Prefixed(o) : o \in Origins}

\* A version of an origin as it is cached and given: a value, undefined where it
\* was absent, or the NEGATIVE marker.
Data(o, version, kind) == [of |-> o, version |-> version, kind |-> kind]
Undefined == [kind |-> "undefined"]

PortInit ==
  /\ cacheClock = 0 /\ held = [k \in {} |-> Undefined]
  /\ source = [o \in Origins |-> 0] /\ writes = {}
  /\ readers = [r \in Readers |-> [phase |-> "new", data |-> Undefined]]

Cached == DOMAIN held
Evict(key) == [k \in Cached \ {key} |-> held[k]]

\* MemoryCache.get() answers nothing for an entry that is over, and drops it.
Alive(key) == key \in Cached /\ held[key].exp > cacheClock
AfterGet(key) == IF Alive(key) THEN held ELSE Evict(key)

\* MemoryCache.set(): a new key evicts the entry that was inserted first, even
\* one that is alive while others are over; a key that is there keeps its place.
AfterSet(key, data) ==
  LET oldest == CHOOSE k \in Cached : \A l \in Cached : held[k].place <= held[l].place
      room == IF key \notin Cached /\ Cardinality(Cached) >= CacheCap THEN Cached \ {oldest}
              ELSE Cached
      place == IF key \in room THEN held[key].place
               ELSE 1 + Max({0} \cup {held[k].place : k \in room})
  IN [k \in room \cup {key} |->
        IF k = key THEN [data |-> data, exp |-> cacheClock + Ttl, place |-> place] ELSE held[k]]

AskedKey(r) == Prefixed(OriginOf[r])

\* What a loader finds at its source.
Loaded(o) == Data(o, source[o], IF source[o] % 2 = 1 THEN "undefined" ELSE "value")

\* cache.get() of cacheAside() and getOrLoad().  An undefined is a miss.  A marker
\* is the answer: getOrLoad() maps it to undefined, cacheAside() returns it.
Lookup(r) ==
  /\ readers[r].phase = "new"
  /\ LET key == AskedKey(r)
         hit == Alive(key) /\ held[key].data.kind # "undefined"
         shown == IF held[key].data.kind = "marker" /\ r \in Negative
                  THEN [held[key].data EXCEPT !.kind = "undefined"] ELSE held[key].data
     IN /\ held' = AfterGet(key)
        /\ readers' = [readers EXCEPT ![r] = IF hit THEN [phase |-> "done", data |-> shown]
                                             ELSE [phase |-> "loading", data |-> Undefined]]
  /\ UNCHANGED <<cacheClock, source, writes>>

\* get() outside those two.
Get(key) == held' = AfterGet(key) /\ UNCHANGED <<cacheClock, source, writes, readers>>

LoaderAnswers(r) ==
  /\ readers[r].phase = "loading"
  /\ readers' = [readers EXCEPT ![r] = [phase |-> "storing", data |-> Loaded(OriginOf[r])]]
  /\ UNCHANGED <<cacheClock, held, source, writes>>

\* A loader that fails leaves the cache alone.
LoaderFails(r) ==
  /\ readers[r].phase = "loading"
  /\ readers' = [readers EXCEPT ![r].phase = "failed"]
  /\ UNCHANGED <<cacheClock, held, source, writes>>

\* getOrLoad() stores a marker for what is absent, cacheAside() an undefined.
KeepLoaded(r) ==
  /\ readers[r].phase = "storing"
  /\ LET data == readers[r].data
         absent == data.kind = "undefined" /\ r \in Negative
     IN held' = AfterSet(AskedKey(r), Data(data.of, data.version,
                                           IF absent THEN "marker" ELSE data.kind))
  /\ readers' = [readers EXCEPT ![r].phase = "done"]
  /\ UNCHANGED <<cacheClock, source, writes>>

\* A tenant writes to its source first ...
WriteSource(o) ==
  /\ source[o] < Versions
  /\ source' = [source EXCEPT ![o] = @ + 1]
  /\ writes' = writes \cup {[of |-> o, version |-> source[o] + 1]}
  /\ UNCHANGED <<cacheClock, held, readers>>

\* Fault: del() of a namespace forgets the prefix.
WriteCache_Unprefixed(w, put) ==
  /\ w \in writes /\ (put => w.version % 2 = 0)
  /\ writes' = writes \ {w}
  /\ held' = IF put THEN AfterSet(Prefixed(w.of), Data(w.of, w.version, "value"))
             ELSE Evict(w.of.name)
  /\ UNCHANGED <<cacheClock, source, readers>>

\* ... and then drops its entry, or puts what it wrote.
WriteCache(w, put) ==
  /\ w \in writes /\ (put => w.version % 2 = 0)
  /\ writes' = writes \ {w}
  /\ held' = IF put THEN AfterSet(Prefixed(w.of), Data(w.of, w.version, "value"))
             ELSE Evict(Prefixed(w.of))
  /\ UNCHANGED <<cacheClock, source, readers>>

\* clear() of a namespace is clear() of the cache behind it, of all tenants.
ClearNamespace ==
  /\ Cached # {}
  /\ held' = [k \in {} |-> Undefined]
  /\ UNCHANGED <<cacheClock, source, writes, readers>>

CacheTick ==
  /\ cacheClock < CacheTicks
  /\ cacheClock' = cacheClock + 1
  /\ UNCHANGED <<held, source, writes, readers>>

PortNext ==
  \/ \E r \in Readers : Lookup(r) \/ LoaderAnswers(r) \/ LoaderFails(r) \/ KeepLoaded(r)
  \/ \E key \in AllKeys : Get(key)
  \/ \E o \in Origins : WriteSource(o)
  \/ \E w \in writes, put \in BOOLEAN : WriteCache(w, put)
  \/ ClearNamespace
  \/ CacheTick

PortSpec == PortInit /\ [][PortNext]_portVars

-----------------------------------------------------------------------------
(* Properties *)

\* A version that its source left behind, with no writer still on its way to the
\* cache to correct that.
Behind(o, version) ==
  version < source[o] /\ ~\E w \in writes : w.of = o /\ w.version > version

\* An entry that is answered although it is behind the source it was read from.
Stale(key) == Alive(key) /\ Behind(held[key].data.of, held[key].data.version)

\* What is stored in this step for a key was overtaken before: by the writes that
\* ended while a reader loaded, or by later writers that came to the cache first.
StoresOvertaken(key) ==
  \/ \E r \in Readers : /\ AskedKey(r) = key /\ readers[r].phase = "storing"
                        /\ readers'[r].phase = "done"
                        /\ Behind(OriginOf[r], readers[r].data.version)
  \/ \E w \in writes : w \notin writes' /\ Prefixed(w.of) = key /\ Behind(w.of, w.version)'

\* An entry stays behind its source only if what was stored had been overtaken:
\* cacheAside() does not order loads and writes, but once every writer has come
\* to the cache, no entry that was up to date is left behind, in any namespace
\* and where two of them share a key.  And a reader is given what was read under
\* the very key it asks for: another tenant's only where the prefixed names are
\* the same string, which namespaced() does not exclude (cacheAside(), namespaced()).
StaleOnlyIfOvertaken ==
  /\ [][\A key \in AllKeys : Stale(key)' /\ ~Stale(key) => StoresOvertaken(key)]_portVars
  /\ [](\A r \in Readers : readers[r].phase = "done" => Prefixed(readers[r].data.of) = AskedKey(r))

=============================================================================
