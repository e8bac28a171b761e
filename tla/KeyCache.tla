------------------------------ MODULE KeyCache ------------------------------
(***************************************************************************)
(* The OIDC helpers with state: MemoryJwksCache, whose fetches overlap     *)
(* while the provider rotates its keys, and pollDeviceToken().             *)
(***************************************************************************)
EXTENDS Integers, Sequences, FiniteSets

CONSTANTS
  Verifiers,    \* calls of getJwks()
  Providers,    \* the values of jwksUri
  KeysFor,      \* ttlMs, in ticks
  FetchTakes,   \* bound on the ticks a fetch takes
  PollEvery,    \* intervalSec
  SlowDown,     \* the seconds slow_down adds
  PollBudget,   \* timeoutMs
  KeyTicks      \* bound on the clock

ASSUME KeyAssumption ==
  {KeysFor, FetchTakes, PollEvery, SlowDown, PollBudget} \subseteq Nat

VARIABLES
  keyClock,
  keysCached,   \* [at, from, served], at = -1 if there is none; a key set is identified
                \* by its provider and the tick at which that served it
  verifiers,    \* Verifier -> [phase, asked, began, from, served]
  poll          \* [phase, interval, wake, slowed, asks]; slowed counts the slow_downs,
                \* and each question is noted with its tick and that count

keyVars == <<keyClock, keysCached, verifiers, poll>>

NobodyAsked == "nobody"
NoKeys == [at |-> -1, from |-> NobodyAsked, served |-> 0]

KeyInit ==
  /\ keyClock = 0 /\ keysCached = NoKeys
  /\ verifiers = [v \in Verifiers |-> [phase |-> "new", asked |-> NobodyAsked, began |-> 0,
                                       from |-> NobodyAsked, served |-> 0]]
  /\ poll = [phase |-> "sleeping", interval |-> PollEvery, wake |-> 0, slowed |-> 0, asks |-> <<>>]

IsFresh == keysCached.at # -1 /\ keyClock - keysCached.at < KeysFor

\* Keys that are fresh are answered whatever jwksUri they were fetched from: one
\* cache serves one provider.
UseCachedKeys(v, uri) ==
  /\ verifiers[v].phase = "new" /\ IsFresh
  /\ verifiers' = [verifiers EXCEPT ![v] =
       [phase |-> "done", asked |-> uri, began |-> keyClock,
        from |-> keysCached.from, served |-> keysCached.served]]
  /\ UNCHANGED <<keyClock, keysCached, poll>>

FetchKeys(v, uri) ==
  /\ verifiers[v].phase = "new" /\ ~IsFresh
  /\ verifiers' = [verifiers EXCEPT ![v].phase = "fetching", ![v].asked = uri, ![v].began = keyClock]
  /\ UNCHANGED <<keyClock, keysCached, poll>>

\* The provider answers with the keys it has now, or with an error.
ProviderAnswers(v) ==
  /\ verifiers[v].phase = "fetching"
  /\ verifiers' = [verifiers EXCEPT ![v].phase = "reading", ![v].from = verifiers[v].asked,
                                     ![v].served = keyClock]
  /\ UNCHANGED <<keyClock, keysCached, poll>>

FetchFails(v) ==
  /\ verifiers[v].phase \in {"fetching", "reading"}
  /\ verifiers' = [verifiers EXCEPT ![v].phase = "failed"]
  /\ UNCHANGED <<keyClock, keysCached, poll>>

\* Fault: an answer renews the cache without replacing its keys.
CacheKeys_KeepsOld(v) ==
  /\ verifiers[v].phase = "reading"
  /\ keysCached' = IF keysCached.at = -1
                   THEN [at |-> keyClock, from |-> verifiers[v].from, served |-> verifiers[v].served]
                   ELSE [keysCached EXCEPT !.at = keyClock]
  /\ verifiers' = [verifiers EXCEPT ![v].phase = "done"]
  /\ UNCHANGED <<keyClock, poll>>

\* The answer is parsed and cached, whatever was cached meanwhile.
CacheKeys(v) ==
  /\ verifiers[v].phase = "reading"
  /\ keysCached' = [at |-> keyClock, from |-> verifiers[v].from, served |-> verifiers[v].served]
  /\ verifiers' = [verifiers EXCEPT ![v].phase = "done"]
  /\ UNCHANGED <<keyClock, poll>>

ClearKeys ==
  /\ keysCached # NoKeys /\ keysCached' = NoKeys
  /\ UNCHANGED <<keyClock, verifiers, poll>>

\* pollDeviceToken(): an answer decides; a slow_down makes the interval longer.
PollAnswered ==
  /\ poll.phase = "asking"
  /\ \E answer \in {"token", "authorization_pending", "slow_down", "other"} :
       LET slow == answer = "slow_down"
           interval == IF slow THEN poll.interval + SlowDown ELSE poll.interval
       IN poll' = [poll EXCEPT !.interval = interval, !.wake = keyClock + interval,
            !.slowed = IF slow THEN @ + 1 ELSE @,
            !.phase = CASE answer = "token" -> "granted" [] answer = "other" -> "refused"
                        [] OTHER -> "sleeping"]
  /\ UNCHANGED <<keyClock, keysCached, verifiers>>

\* The loop asks while its budget lasts.  A sleep ends when it is due or later.
PollAgain ==
  /\ poll.phase = "sleeping" /\ keyClock >= poll.wake
  /\ poll' = IF keyClock >= PollBudget THEN [poll EXCEPT !.phase = "refused"]
             ELSE [poll EXCEPT !.phase = "asking",
                               !.asks = Append(@, [at |-> keyClock, slowed |-> poll.slowed])]
  /\ UNCHANGED <<keyClock, keysCached, verifiers>>

\* A fetch takes FetchTakes ticks at most.
KeyTick ==
  /\ keyClock < KeyTicks
  /\ \A v \in Verifiers : verifiers[v].phase \in {"fetching", "reading"} =>
       keyClock - verifiers[v].began < FetchTakes
  /\ keyClock' = keyClock + 1
  /\ UNCHANGED <<keysCached, verifiers, poll>>

KeyNext ==
  \/ \E v \in Verifiers :
       \/ \E uri \in Providers : UseCachedKeys(v, uri) \/ FetchKeys(v, uri)
       \/ ProviderAnswers(v) \/ FetchFails(v) \/ CacheKeys(v)
  \/ ClearKeys \/ KeyTick

PollNext == PollAnswered \/ PollAgain \/ KeyTick

KeySpec == KeyInit /\ [][KeyNext \/ PollNext]_keyVars

-----------------------------------------------------------------------------
(* Properties *)

\* Rotated keys are picked up: what a verifier uses was served no longer ago than a
\* fetch, or less than the ttl and a fetch ago, although a slow answer may replace a
\* newer one.  It was served by a provider that some verifier asked for: its own, as
\* long as the cache is asked for one jwksUri only (MemoryJwksCache.getJwks()).
KeysRecent ==
  [][\A v \in Verifiers : verifiers[v].phase # "done" /\ verifiers'[v].phase = "done" =>
       /\ \/ keyClock - verifiers'[v].served <= FetchTakes
          \/ keyClock - verifiers'[v].served < KeysFor + FetchTakes
       /\ \E w \in Verifiers : verifiers'[w].asked = verifiers'[v].from]_keyVars

\* The interval a flow was told to keep, after so many slow_downs.
IntervalAfter(slowed) == PollEvery + SlowDown * slowed

\* A flow waits before each question the interval it was given and as much more as
\* all the slow_downs it had by then ask for, and none is asked once the budget is
\* spent, however late its sleeps end (pollDeviceToken()).
PollsPaced ==
  \A i \in 1..Len(poll.asks) :
    /\ poll.asks[i].at < PollBudget
    /\ i > 1 => poll.asks[i].at - poll.asks[i - 1].at >= IntervalAfter(poll.asks[i].slowed)

\* A verifier uses keys that a provider served within the ttl and the time of a
\* fetch, and a device flow asks no faster than it was told, nor past its budget.
ProviderAsked == KeysRecent /\ []PollsPaced
=============================================================================
