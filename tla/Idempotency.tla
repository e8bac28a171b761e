----------------------------- MODULE Idempotency -----------------------------
(***************************************************************************)
(* packages/mino/src/idempotency.ts: the idempotency() middleware with a   *)
(* MemoryIdempotencyStore, for guarded requests that carry a key; others   *)
(* pass through.  A request is interrupted while it awaits the store,      *)
(* next() and the body of the response.                                    *)
(***************************************************************************)
EXTENDS Naturals, FiniteSets

CONSTANTS Posts,         \* requests with an idempotency key
          TokenOf,       \* the key of each
          FingerprintOf, \* its fingerprint
          KeepFor,       \* opts.ttlMs in ticks
          NoPost         \* no response is stored

ASSUME IdempotencyAssumption ==
  /\ IsFiniteSet(Posts) /\ DOMAIN TokenOf = Posts /\ DOMAIN FingerprintOf = Posts
  /\ KeepFor \in Nat /\ NoPost \notin Posts

Tokens == {TokenOf[p] : p \in Posts}

VARIABLES response,  \* the store: per key the request whose response it holds
          left,      \* per key: ticks until that entry expires
          stage,     \* per request: where it is in the middleware
          found,     \* per request: what store.get() returned
          recorded,    \* history: requests whose response was stored
          ran,       \* history: requests whose handler was run
          earlier,   \* history: per request, those stored before it came
          lapsed     \* history: keys an entry of which has expired

idemVars == <<response, left, stage, found, recorded, ran, earlier, lapsed>>

IdemInit ==
  /\ response = [k \in Tokens |-> NoPost]
  /\ left = [k \in Tokens |-> 0]
  /\ stage = [p \in Posts |-> "new"]
  /\ found = [p \in Posts |-> NoPost]
  /\ recorded = {}
  /\ ran = {}
  /\ earlier = [p \in Posts |-> {}]
  /\ lapsed = {}

\* Up to "await store.get(key)"; the store drops an entry that has expired.
Receive(p) ==
  LET k == TokenOf[p]
      kept == IF left[k] > 0 THEN response[k] ELSE NoPost
  IN  /\ stage[p] = "new"
      /\ stage' = [stage EXCEPT ![p] = "looking"]
      /\ found' = [found EXCEPT ![p] = kept]
      /\ response' = [response EXCEPT ![k] = kept]
      /\ earlier' = [earlier EXCEPT ![p] = recorded]
      /\ UNCHANGED <<left, recorded, ran, lapsed>>

Replay(p) ==
  /\ stage[p] = "looking" /\ found[p] # NoPost
  /\ FingerprintOf[found[p]] = FingerprintOf[p]
  /\ stage' = [stage EXCEPT ![p] = "replayed"]
  /\ UNCHANGED <<response, left, found, recorded, ran, earlier, lapsed>>

\* 409: the key was used for something else.
Conflict(p) ==
  /\ stage[p] = "looking" /\ found[p] # NoPost
  /\ FingerprintOf[found[p]] # FingerprintOf[p]
  /\ stage' = [stage EXCEPT ![p] = "conflict"]
  /\ UNCHANGED <<response, left, found, recorded, ran, earlier, lapsed>>

\* Seeded fault: a known request is run again instead of being answered.
Execute_Always(p) ==
  /\ stage[p] = "looking"
  /\ stage' = [stage EXCEPT ![p] = "running"]
  /\ ran' = ran \cup {p}
  /\ UNCHANGED <<response, left, found, recorded, earlier, lapsed>>

\* next(): nothing was stored when the request came in.
Execute(p) ==
  /\ stage[p] = "looking" /\ found[p] = NoPost
  /\ stage' = [stage EXCEPT ![p] = "running"]
  /\ ran' = ran \cup {p}
  /\ UNCHANGED <<response, left, found, recorded, earlier, lapsed>>

\* A 2xx response: its body is being read.
Succeed(p) ==
  /\ stage[p] = "running"
  /\ stage' = [stage EXCEPT ![p] = "reading"]
  /\ UNCHANGED <<response, left, found, recorded, ran, earlier, lapsed>>

\* The handler throws, or answers something else than 2xx.
FailPost(p) ==
  /\ stage[p] = "running"
  /\ stage' = [stage EXCEPT ![p] = "unstored"]
  /\ UNCHANGED <<response, left, found, recorded, ran, earlier, lapsed>>

\* The body is too large to be kept.
Oversized(p) ==
  /\ stage[p] = "reading"
  /\ stage' = [stage EXCEPT ![p] = "unstored"]
  /\ UNCHANGED <<response, left, found, recorded, ran, earlier, lapsed>>

\* store.set(): replaces whatever the key holds by now.  With a ttl of 0 the
\* entry is over at once.
StoreResponse(p) ==
  /\ stage[p] = "reading"
  /\ stage' = [stage EXCEPT ![p] = "done"]
  /\ response' = [response EXCEPT ![TokenOf[p]] = p]
  /\ left' = [left EXCEPT ![TokenOf[p]] = KeepFor]
  /\ recorded' = recorded \cup {p}
  /\ lapsed' = IF KeepFor = 0 THEN lapsed \cup {TokenOf[p]} ELSE lapsed
  /\ UNCHANGED <<found, ran, earlier>>

IdemTick ==
  /\ \E k \in Tokens : left[k] > 0
  /\ left' = [k \in Tokens |-> IF left[k] = 0 THEN 0 ELSE left[k] - 1]
  /\ lapsed' = lapsed \cup {k \in Tokens : left[k] = 1}
  /\ UNCHANGED <<response, stage, found, recorded, ran, earlier>>

IdemNext ==
  \/ \E p \in Posts :
       \/ Receive(p) \/ Replay(p) \/ Conflict(p) \/ Execute(p)
       \/ Succeed(p) \/ FailPost(p) \/ Oversized(p) \/ StoreResponse(p)
  \/ IdemTick

IdemSpec == IdemInit /\ [][IdemNext]_idemVars

-----------------------------------------------------------------------------
(* Properties *)

\* The store holds responses under the key they were sent with, and a request
\* is running or later exactly when its handler was run.
IdemTypeOK ==
  /\ \A k \in Tokens :
       /\ left[k] \in 0..KeepFor
       /\ response[k] # NoPost => response[k] \in recorded /\ TokenOf[response[k]] = k
  /\ \A p \in Posts :
       /\ found[p] \in recorded \cup {NoPost}
       /\ p \in ran <=> stage[p] \in {"running", "reading", "unstored", "done"}
       /\ p \in recorded <=> stage[p] = "done"
       /\ earlier[p] \subseteq recorded

\* A response is replayed only to a request with the fingerprint it was
\* recorded under, also when two requests with different payloads raced for
\* the key and the later one replaced the earlier one's response.
ReplaysMatch ==
  \A p \in Posts : stage[p] = "replayed" =>
    /\ TokenOf[found[p]] = TokenOf[p]
    /\ FingerprintOf[found[p]] = FingerprintOf[p]

\* Once a response was stored no request with its key that comes in afterwards
\* runs the handler again, until an entry of the key expires: whichever of the
\* racing requests stored last.
NeverRunAgain ==
  \A p \in Posts : \A q \in earlier[p] :
    TokenOf[q] = TokenOf[p] /\ p \in ran => TokenOf[p] \in lapsed

\* What the store holds is replayed to the requests it belongs to, and keeps
\* the later ones from running again.
ReplaysRight == IdemTypeOK /\ ReplaysMatch /\ NeverRunAgain

\* "the first request executes and its response is stored, duplicates replay
\* the stored response without re-executing the handler".
DuplicatesReplay ==
  \A p, q \in Posts :
    /\ p # q /\ TokenOf[p] = TokenOf[q] /\ FingerprintOf[p] = FingerprintOf[q]
    /\ p \in recorded /\ q \in recorded
    => TokenOf[p] \in lapsed
=============================================================================
