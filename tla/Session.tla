------------------------------ MODULE Session ------------------------------
(***************************************************************************)
(* Cookie sessions (session() of @minostack/mino) with MemoryStore or with *)
(* the data in the cookie.  Requests of one browser may overlap: each is   *)
(* suspended while the cookie is verified, the store is asked, handlers    *)
(* run and the store is written.  Signing is external and never forged; a  *)
(* cookie is what it says.                                                 *)
(*                                                                         *)
(* get() and set() of MemoryStore copy one level, so what a session holds  *)
(* is an object that the record and the requests share: handlers put a new *)
(* object into the session (Assign), or change the one that is there in    *)
(* place (Alter).  An object has the name of the request that made it.     *)
(***************************************************************************)
EXTENDS Integers, FiniteSets, FiniteSetsExt

CONSTANTS
  Visits,       \* requests
  Browsers,     \* clients, each with one cookie jar
  Callings,     \* the assignments of visits to browsers that are looked at
  Contents,     \* what a session may hold
  TooLarge,     \* the contents that do not fit into a cookie
  StoreFails,   \* whether a call of the store may reject
  MaxAge,       \* maxAgeSec, in ticks
  MaxRecords,   \* cap of MemoryStore
  MaxIds,       \* bound on the ids that rotation generates
  SessionTicks  \* bound on the clock

ASSUME SessionAssumption ==
  /\ Callings \subseteq [Visits -> Browsers]
  /\ MaxAge \in Nat /\ MaxRecords \in Nat \ {0}

VARIABLES
  browserOf,    \* Visit -> Browser
  stored,       \* whether the option store is given
  sessionClock,
  sids,         \* how many ids were generated: they are 1, 2, ...
  records,      \* MemoryStore.entries: id -> [data, exp, place], place by insertion;
                \* the data are an object
  objects,      \* Visit -> what the object it made holds
  jar,          \* Browser -> the cookie it holds: [id, data, exp], id = 0 if none
  visits,       \* Visit -> the state of its request
  told,         \* history: Browser -> [data, until]: the object its last request left
  disturbed,    \* history: Browsers with overlapping or failed requests, evicted records
  crossed,      \* history: requests that met another one of their browser
  stranded      \* history: the ids that were left behind, see NoOrphans

sessionVars == <<browserOf, stored, sessionClock, sids, records, objects, jar, visits, told,
                 disturbed, crossed, stranded>>

Empty == "empty"
NoCookie == [id |-> 0, data |-> Empty, exp |-> 0]
IdsKept == DOMAIN records
Without(id) == [i \in IdsKept \ {id} |-> records[i]]
Live(id) == id \in IdsKept /\ records[id].exp > sessionClock

\* first: the id the request came with; snapshot: the contents it began with;
\* data: the object in the session, if it has one.
NoVisit(phase) ==
  [phase |-> phase, cookie |-> NoCookie, first |-> 0, id |-> 0,
   snapshot |-> Empty, data |-> Empty, responds |-> TRUE]

SessionInit ==
  /\ browserOf \in Callings
  /\ stored \in BOOLEAN
  /\ sessionClock = 0 /\ sids = 0 /\ records = [i \in {} |-> Empty]
  /\ objects = [v \in Visits |-> Empty]
  /\ jar = [b \in Browsers |-> NoCookie]
  /\ visits = [v \in Visits |-> NoVisit("new")]
  /\ told = [b \in Browsers |-> [data |-> Empty, until |-> 0]]
  /\ disturbed = {} /\ crossed = {} /\ stranded = {}

Open(b) == {v \in Visits : browserOf[v] = b /\ visits[v].phase \notin {"new", "done"}}

\* The request arrives with the cookie of its browser; unsign() is awaited.
Visit(v) ==
  LET others == Open(browserOf[v])
  IN /\ visits[v].phase = "new"
     /\ visits' = [visits EXCEPT ![v].phase = "verifying", ![v].cookie = jar[browserOf[v]]]
     /\ disturbed' = IF others = {} THEN disturbed ELSE disturbed \cup {browserOf[v]}
     /\ crossed' = IF others = {} THEN crossed ELSE crossed \cup others \cup {v}
     /\ UNCHANGED <<browserOf, stored, sessionClock, sids, records, objects, jar, told, stranded>>

\* The state in which the handlers find the session.
Begun(id, object, holds) ==
  [NoVisit("handling") EXCEPT !.first = id, !.snapshot = holds, !.data = object,
                              !.id = IF id # 0 THEN id ELSE sids + 1]

\* It begins with an object of its own.
BeginWith(v, id, holds) ==
  /\ visits' = [visits EXCEPT ![v] = Begun(id, v, holds)]
  /\ objects' = [objects EXCEPT ![v] = holds]

\* No cookie, or one that is over: a fresh id with empty contents.
StartFresh(v) ==
  /\ visits[v].phase = "verifying" /\ visits[v].cookie.exp <= sessionClock
  /\ BeginWith(v, 0, Empty)
  /\ sids' = sids + 1
  /\ UNCHANGED <<browserOf, stored, sessionClock, records, jar, told, disturbed, crossed, stranded>>

\* The session gets the object of the record; MemoryStore.get() drops an entry
\* that is over.  What a cookie holds is parsed anew.
LoadSession(v) ==
  /\ visits[v].phase = "verifying" /\ visits[v].cookie.exp > sessionClock
  /\ LET id == visits[v].cookie.id
     IN \/ /\ stored /\ Live(id)
           /\ visits' = [visits EXCEPT ![v] = Begun(id, records[id].data, objects[records[id].data])]
           /\ UNCHANGED <<records, objects>>
        \/ /\ stored /\ ~Live(id)
           /\ BeginWith(v, id, Empty)
           /\ records' = Without(id)
        \/ /\ ~stored
           /\ BeginWith(v, id, visits[v].cookie.data)
           /\ UNCHANGED records
  /\ UNCHANGED <<browserOf, stored, sessionClock, sids, jar, told, disturbed, crossed, stranded>>

LoadRejected(v) ==
  /\ StoreFails /\ stored
  /\ visits[v].phase = "verifying" /\ visits[v].cookie.exp > sessionClock
  /\ BeginWith(v, visits[v].cookie.id, Empty)
  /\ disturbed' = disturbed \cup {browserOf[v]}
  /\ UNCHANGED <<browserOf, stored, sessionClock, sids, records, jar, told, crossed, stranded>>

\* A request ends; the response reaches the browser, with a cookie or without.
Close(v, cookie, left) ==
  LET b == browserOf[v]
  IN /\ visits' = [visits EXCEPT ![v] = NoVisit("done")]
     /\ jar' = IF visits[v].responds THEN [jar EXCEPT ![b] = cookie] ELSE jar
     /\ told' = [told EXCEPT ![b] = left]

Unchanged(v) == Close(v, jar[browserOf[v]], told[browserOf[v]])

\* A handler puts something new into the session.
Assign(v) ==
  /\ visits[v].phase = "handling"
  /\ \E holds \in Contents : objects' = [objects EXCEPT ![v] = holds]
  /\ visits' = [visits EXCEPT ![v].data = v]
  /\ UNCHANGED <<browserOf, stored, sessionClock, sids, records, jar, told, disturbed, crossed, stranded>>

\* A handler changes what is in the session in place: with it the record it came
\* from, and the session of every request that holds the same object.
Alter(v) ==
  /\ visits[v].phase = "handling"
  /\ \E holds \in Contents : objects' = [objects EXCEPT ![visits[v].data] = holds]
  /\ UNCHANGED <<browserOf, stored, sessionClock, sids, records, jar, visits, told,
                 disturbed, crossed, stranded>>

\* The handlers have returned, having rotated the id (regenerateSessionId) or
\* not, with a response to put a cookie on or without.  What the session holds is
\* compared with what it held when the request began.
Handle(v) ==
  /\ visits[v].phase = "handling"
  /\ \E rotate \in {FALSE, sids < MaxIds}, responds \in BOOLEAN :
       /\ sids' = IF rotate THEN sids + 1 ELSE sids
       /\ visits' = [visits EXCEPT ![v] =
            IF objects[visits[v].data] = visits[v].snapshot /\ ~rotate THEN NoVisit("done")
            ELSE [@ EXCEPT !.responds = responds,
                           !.id = IF rotate THEN sids + 1 ELSE visits[v].id,
                           !.phase = IF stored THEN "setting" ELSE "signing"]]
       /\ disturbed' = IF responds THEN disturbed ELSE disturbed \cup {browserOf[v]}
  /\ UNCHANGED <<browserOf, stored, sessionClock, records, objects, jar, told, crossed, stranded>>

HandlerThrows(v) ==
  /\ visits[v].phase = "handling"
  /\ Unchanged(v)
  /\ UNCHANGED <<browserOf, stored, sessionClock, sids, records, objects, disturbed, crossed, stranded>>

\* The handlers null the session, with or without having rotated its id.
NullSession(v) ==
  /\ visits[v].phase = "handling"
  /\ \E rotate \in {FALSE, sids < MaxIds}, responds \in BOOLEAN :
       /\ sids' = IF rotate THEN sids + 1 ELSE sids
       /\ visits' = [visits EXCEPT ![v].phase = IF stored THEN "destroying" ELSE "clearing",
                                   ![v].id = IF rotate THEN sids + 1 ELSE visits[v].id,
                                   ![v].responds = responds]
       /\ disturbed' = IF responds THEN disturbed ELSE disturbed \cup {browserOf[v]}
  /\ UNCHANGED <<browserOf, stored, sessionClock, records, objects, jar, told, crossed, stranded>>

DestroyRecord(v) ==
  /\ visits[v].phase = "destroying"
  /\ records' = Without(visits[v].id)
  /\ visits' = [visits EXCEPT ![v].phase =
       IF visits[v].first \notin {0, visits[v].id} THEN "destroyingFirst" ELSE "clearing"]
  /\ UNCHANGED <<browserOf, stored, sessionClock, sids, objects, jar, told, disturbed, crossed, stranded>>

DestroyFirst(v) ==
  /\ visits[v].phase = "destroyingFirst"
  /\ records' = Without(visits[v].first)
  /\ visits' = [visits EXCEPT ![v].phase = "clearing"]
  /\ UNCHANGED <<browserOf, stored, sessionClock, sids, objects, jar, told, disturbed, crossed, stranded>>

\* A reply that takes the place of another one's cookie leaves that id behind.
ClearCookie(v) ==
  /\ visits[v].phase = "clearing"
  /\ Close(v, NoCookie, [data |-> Empty, until |-> 0])
  /\ stranded' = IF visits[v].responds /\ v \in crossed THEN stranded \cup {jar[browserOf[v]].id}
                 ELSE stranded
  /\ UNCHANGED <<browserOf, stored, sessionClock, sids, records, objects, disturbed, crossed>>

\* MemoryStore.set(): drops what is over, then the oldest if it is full.
Room(id) ==
  LET live == {i \in IdsKept : Live(i)}
      oldest == CHOOSE i \in live : \A j \in live : records[i].place <= records[j].place
  IN IF id \notin live /\ Cardinality(live) >= MaxRecords THEN live \ {oldest} ELSE live

\* A record that is written again keeps its place.
Written(id, data) ==
  LET room == Room(id)
      place == IF id \in room THEN records[id].place
               ELSE 1 + Max({0} \cup {records[i].place : i \in room})
  IN [i \in room \cup {id} |->
        IF i = id THEN [data |-> data, exp |-> sessionClock + MaxAge, place |-> place]
        ELSE records[i]]

\* Fault: the record of a session that is written again keeps its contents.
SetRecord_KeepsOld(v) ==
  /\ visits[v].phase = "setting"
  /\ records' = IF visits[v].id \in IdsKept THEN records ELSE Written(visits[v].id, visits[v].data)
  /\ visits' = [visits EXCEPT ![v].phase =
       IF visits[v].first \notin {0, visits[v].id} THEN "orphaning" ELSE "signing"]
  /\ UNCHANGED <<browserOf, stored, sessionClock, sids, objects, jar, told, disturbed, crossed, stranded>>

\* Evicting the record of another browser disturbs it.
SetRecord(v) ==
  /\ visits[v].phase = "setting"
  /\ records' = Written(visits[v].id, visits[v].data)
  /\ visits' = [visits EXCEPT ![v].phase =
       IF visits[v].first \notin {0, visits[v].id} THEN "orphaning" ELSE "signing"]
  /\ disturbed' = disturbed \cup
       {b \in Browsers : Live(jar[b].id) /\ jar[b].id \notin DOMAIN records'}
  /\ UNCHANGED <<browserOf, stored, sessionClock, sids, objects, jar, told, crossed, stranded>>

\* Fault: the record of the superseded id is left behind.
DropOrphan_Never(v) ==
  /\ visits[v].phase = "orphaning"
  /\ visits' = [visits EXCEPT ![v].phase = "signing"]
  /\ UNCHANGED <<browserOf, stored, sessionClock, sids, records, objects, jar, told, disturbed, crossed, stranded>>

DropOrphan(v) ==
  /\ visits[v].phase = "orphaning"
  /\ records' = Without(visits[v].first)
  /\ visits' = [visits EXCEPT ![v].phase = "signing"]
  /\ UNCHANGED <<browserOf, stored, sessionClock, sids, objects, jar, told, disturbed, crossed, stranded>>

\* set() or destroy() rejects: a 500, and no cookie, although the new record may be
\* there.  A failing destroy() of a session that is nulled only clears the cookie.
StoreUnavailable(v) ==
  /\ StoreFails
  /\ \/ visits[v].phase = "setting" /\ Unchanged(v) /\ UNCHANGED stranded
     \/ visits[v].phase = "orphaning" /\ Unchanged(v) /\ stranded' = stranded \cup {visits[v].id}
     \/ /\ visits[v].phase \in {"destroying", "destroyingFirst"}
        /\ visits' = [visits EXCEPT ![v].phase = "clearing"] /\ UNCHANGED <<jar, told>>
        /\ stranded' = stranded \cup {visits[v].first}
  /\ disturbed' = disturbed \cup {browserOf[v]}
  /\ UNCHANGED <<browserOf, stored, sessionClock, sids, records, objects, crossed>>

\* The cookie is signed; one that is too large is answered by a 400.  Without a
\* response nobody learns the id.
Sign(v) ==
  LET id == visits[v].id
      holds == objects[visits[v].data]
      own == jar[browserOf[v]].id
  IN /\ visits[v].phase = "signing"
     /\ IF ~stored /\ holds \in TooLarge THEN Unchanged(v) /\ UNCHANGED stranded
        ELSE /\ Close(v, [id |-> id, data |-> IF stored THEN Empty ELSE holds,
                          exp |-> sessionClock + MaxAge],
                      [data |-> visits[v].data,
                       until |-> IF ~stored THEN sessionClock + MaxAge
                                 ELSE IF id \in IdsKept THEN records[id].exp ELSE 0])
             /\ stranded' = IF ~visits[v].responds THEN stranded \cup {id}
                            ELSE IF v \in crossed THEN stranded \cup ({own} \ {id})
                            ELSE stranded
     /\ UNCHANGED <<browserOf, stored, sessionClock, sids, records, objects, disturbed, crossed>>

SessionTick ==
  /\ sessionClock < SessionTicks
  /\ sessionClock' = sessionClock + 1
  /\ UNCHANGED <<browserOf, stored, sids, records, objects, jar, visits, told,
                 disturbed, crossed, stranded>>

SessionNext ==
  \/ \E v \in Visits :
       \/ Visit(v) \/ StartFresh(v) \/ LoadSession(v) \/ LoadRejected(v)
       \/ Assign(v) \/ Alter(v) \/ Handle(v) \/ HandlerThrows(v) \/ NullSession(v)
       \/ DestroyRecord(v) \/ DestroyFirst(v) \/ ClearCookie(v) \/ SetRecord(v) \/ DropOrphan(v)
       \/ StoreUnavailable(v) \/ Sign(v)
  \/ SessionTick

SessionSpec == SessionInit /\ [][SessionNext]_sessionVars

-----------------------------------------------------------------------------
(* Properties *)

\* A browser that sends one request after the other finds in each what the one
\* before left, until it is over: whatever other browsers do, and however often
\* the id is rotated in between.  What it left is an object: with a store, what a
\* later request changed in it in place is found too, even if that one failed.
SequentialSession ==
  [][\A v \in Visits :
       LET b == browserOf[v]
       IN visits[v].phase = "verifying" /\ visits'[v].phase = "handling" /\ b \notin disturbed' =>
            visits'[v].snapshot =
              IF told[b].until > sessionClock THEN objects[told[b].data] ELSE Empty]_sessionVars

\* A record that is not over is the one some browser has the cookie of, or one
\* that a request has just written: a rotated or destroyed session leaves nothing
\* behind that its old id opens.  The code leaves an id behind in three ways only,
\* and "stranded" has no others: the request that wrote the record had no response
\* to put a cookie on, destroy() rejected after set() or for a session that was
\* nulled, or the reply to an overlapping request replaced the cookie.
NoOrphans ==
  \A i \in IdsKept :
    \/ \E b \in Browsers : jar[b].id = i
    \/ \E v \in Visits : visits[v].phase \in {"orphaning", "signing"} /\ visits[v].id = i
    \/ i \in stranded
    \/ records[i].exp <= sessionClock
=============================================================================
