------------------------------ MODULE Container ------------------------------
(***************************************************************************)
(* packages/kernel/src/container.ts: the dependency injection container    *)
(* and its request scopes, with the scope application.ts opens for every   *)
(* request of a controller that is not a singleton.                        *)
(*                                                                         *)
(* get() is an asynchronous recursion over the dependencies of a token.    *)
(* What it holds at its awaits is a stack of frames, one for every         *)
(* resolve() on the way down, and other calls run at every await.          *)
(* getSync() makes the same steps without letting anybody else in.         *)
(* Instances are numbered in the order they are constructed.               *)
(***************************************************************************)
EXTENDS Naturals, Sequences, FiniteSets, SequencesExt

CONSTANTS Tokens,
          ScopeOf,     \* [Tokens -> Kinds]: scope of the registered provider
          DepsOf,      \* [Tokens -> Seq(Tokens \cup {Missing})]: what it injects
          Missing,     \* a token without a provider
          Root,        \* the container of the application
          Requests,    \* the child containers of requests
          Routed,      \* those opened by a controller route; the others come
                       \* from createRequestContext() and are closed
          Calls,       \* the calls of get() and getSync()
          Wanted,      \* [Calls -> Tokens]: the token a call asks for
          Home,        \* [Calls -> Requests \cup {Root}]: the container asked
          SyncCalls,   \* the calls that are getSync()
          AsyncTokens, \* tokens whose factory returns a promise
          Throwing,    \* tokens whose constructor and onDestroy() may throw
          Closes,      \* the calls of destroyRequestScope()
          Closed,      \* [Closes -> Requests]
          Replaceable, \* tokens a test replaces with override()
          MaxClears,   \* bound: calls of clearCache()
          None         \* no instance

\* The answer of a call that rejected; instances are numbered from 1.
Rejected == 0

Kinds == {"singleton", "request", "transient", "existing"}
Containers == Requests \cup {Root}

ASSUME ContainerAssumption ==
  /\ IsFiniteSet(Tokens)
  /\ ScopeOf \in [Tokens -> Kinds]
  /\ DepsOf \in [Tokens -> Seq(Tokens \cup {Missing})]
  /\ \A t \in Tokens : ScopeOf[t] = "existing" => Len(DepsOf[t]) = 1
  /\ Missing \notin Tokens /\ Root \notin Requests /\ Routed \subseteq Requests
  /\ Wanted \in [Calls -> Tokens] /\ Home \in [Calls -> Containers]
  /\ SyncCalls \subseteq Calls /\ AsyncTokens \cup Throwing \cup Replaceable \subseteq Tokens
  /\ Closed \in [Closes -> Requests \ Routed]
  /\ MaxClears \in Nat /\ None \notin Nat

VARIABLES made,       \* the instances: [token, scope, home, args]
          singletons, \* of the root: the instance cached per token
          cache,      \* requestCache: per container a map in insertion order
          children,   \* the request containers the root refers to
          stack,      \* per call: the frames of its recursion
          answer,     \* per call: None, the instance, or Rejected
          doomed,     \* per close: instances still to be destroyed
          closing,    \* per close: where it is
          destroyed,  \* history: instances in the order of onDestroy()
          opened,     \* history: request containers created so far
          answered,   \* history: routed requests that got their response
          overrides,  \* per token: the value override() registered, or None
          clears,     \* calls of clearCache() so far
          calm,       \* history: containers none of whose calls overlapped
          serial      \* history: no two calls overlapped

containerVars == <<made, singletons, cache, children, stack, answer, doomed,
                   closing, destroyed, opened, answered, overrides, clears, calm, serial>>

\* The frame of get() itself, below that of the token it asks for.
Entry(c) == [token |-> Missing, scope |-> "get", deps |-> <<Wanted[c]>>,
             args |-> <<>>, instance |-> None]

ContainerInit ==
  /\ made = <<>> /\ destroyed = <<>>
  /\ singletons = [t \in Tokens |-> None]
  /\ overrides = [t \in Tokens |-> None]
  /\ cache = [h \in Containers |-> <<>>]
  /\ children = {} /\ opened = {} /\ answered = {} /\ clears = 0
  /\ stack = [c \in Calls |-> <<>>]
  /\ answer = [c \in Calls |-> None]
  /\ doomed = [x \in Closes |-> <<>>]
  /\ closing = [x \in Closes |-> "idle"]
  /\ calm = Containers /\ serial = TRUE

Busy(h) == \E c \in Calls : Home[c] = h /\ stack[c] # <<>>
Destroying(q) == \E x \in Closes : Closed[x] = q /\ closing[x] = "destroying"

\* Nothing else runs while getSync() does.
TurnOf(c) == \A s \in SyncCalls \ {c} : stack[s] = <<>>
NoSync == \A s \in SyncCalls : stack[s] = <<>>

\* JavaScript Map.set(): a new key goes to the end, an old one keeps its place.
MapSet(m, t, i) ==
  IF \E n \in DOMAIN m : m[n].token = t
  THEN [n \in DOMAIN m |-> IF m[n].token = t THEN [token |-> t, instance |-> i] ELSE m[n]]
  ELSE Append(m, [token |-> t, instance |-> i])

MapGet(m, t) ==
  IF \E n \in DOMAIN m : m[n].token = t
  THEN (CHOOSE e \in ToSet(m) : e.token = t).instance
  ELSE None

ProviderScope(t) == IF overrides[t] = None THEN ScopeOf[t] ELSE "singleton"

\* What resolve(t) of container h finds without instantiating.
Found(h, t) ==
  CASE ProviderScope(t) = "singleton" -> singletons[t]
    [] ProviderScope(t) = "request" -> MapGet(cache[h], t)
    [] OTHER -> None

Top(c) == Last(stack[c])
Path(c) == {stack[c][n].token : n \in DOMAIN stack[c]}
Needs(c) == stack[c] # <<>> /\ Len(Top(c).args) < Len(Top(c).deps)
NextDep(c) == Top(c).deps[Len(Top(c).args) + 1]
Complete(c) == stack[c] # <<>> /\ Len(Top(c).args) = Len(Top(c).deps)

\* A token that is being resolved further up, or that has no provider.
Refused(c, t) == t \in Path(c) \cup {Missing}

\* Instance i becomes the next argument of the topmost of the frames s.
Passed(s, i) == [s EXCEPT ![Len(s)].args = Append(@, i)]

\* Instance i is what the topmost of the frames s constructed.
Built(s, i) == [s EXCEPT ![Len(s)].instance = i]

\* createRequestScope().
Open(q) ==
  /\ NoSync
  /\ q \notin opened
  /\ opened' = opened \cup {q}
  /\ children' = children \cup {q}
  /\ UNCHANGED <<made, singletons, cache, stack, answer, doomed, closing, destroyed,
                 answered, overrides, clears, calm, serial>>

\* get() and getSync() are called.
Get(c) ==
  /\ NoSync
  /\ stack[c] = <<>> /\ answer[c] = None
  /\ Home[c] \in opened \cup {Root} /\ Home[c] \notin answered
  /\ stack' = [stack EXCEPT ![c] = <<Entry(c)>>]
  /\ calm' = calm \ {h \in {Home[c]} : Busy(h) \/ Destroying(h)}
  /\ serial' = (serial /\ \A d \in Calls : stack[d] = <<>>)
  /\ UNCHANGED <<made, singletons, cache, children, answer, doomed, closing, destroyed,
                 opened, answered, overrides, clears>>

\* An error anywhere in the recursion rejects the call; what it has cached stays.
Reject(c) ==
  /\ answer' = [answer EXCEPT ![c] = Rejected]
  /\ stack' = [stack EXCEPT ![c] = <<>>]
  /\ UNCHANGED <<made, singletons, cache, children, doomed, closing, destroyed,
                 opened, answered, overrides, clears, calm, serial>>

\* Seeded fault: the error is lost and the call is never answered.
Unresolvable_Swallowed(c) ==
  /\ TurnOf(c)
  /\ Needs(c)
  /\ Refused(c, NextDep(c))
  /\ stack' = [stack EXCEPT ![c] = <<>>]
  /\ UNCHANGED <<made, singletons, cache, children, answer, doomed, closing, destroyed,
                 opened, answered, overrides, clears, calm, serial>>

Unresolvable(c) ==
  /\ TurnOf(c)
  /\ Needs(c)
  /\ Refused(c, NextDep(c))
  /\ Reject(c)

\* The dependency is cached, by whoever made it.
Reuse(c) ==
  /\ TurnOf(c)
  /\ Needs(c)
  /\ ~Refused(c, NextDep(c))
  /\ Found(Home[c], NextDep(c)) # None
  /\ stack' = [stack EXCEPT ![c] = Passed(@, Found(Home[c], NextDep(c)))]
  /\ UNCHANGED <<made, singletons, cache, children, answer, doomed, closing, destroyed,
                 opened, answered, overrides, clears, calm, serial>>

\* It is not: its own dependencies come first.
Descend(c) ==
  /\ TurnOf(c)
  /\ Needs(c)
  /\ ~Refused(c, NextDep(c))
  /\ Found(Home[c], NextDep(c)) = None
  /\ LET t == NextDep(c) IN
       stack' = [stack EXCEPT ![c] = Append(@, [token |-> t, scope |-> ProviderScope(t),
                   deps |-> IF overrides[t] = None THEN DepsOf[t] ELSE <<>>,
                   args |-> <<>>, instance |-> overrides[t]])]
  /\ UNCHANGED <<made, singletons, cache, children, answer, doomed, closing, destroyed,
                 opened, answered, overrides, clears, calm, serial>>

\* instantiate(): the dependencies are there and the instance is constructed.
Construct(c) ==
  /\ TurnOf(c)
  /\ Complete(c) /\ Top(c).instance = None
  /\ Top(c).scope \notin {"existing", "get"}
  /\ ~(c \in SyncCalls /\ Top(c).token \in AsyncTokens)
  /\ made' = Append(made, [token |-> Top(c).token, scope |-> Top(c).scope,
                           home |-> Home[c], args |-> Top(c).args])
  /\ stack' = [stack EXCEPT ![c] = Built(@, Len(made'))]
  /\ UNCHANGED <<singletons, cache, children, answer, doomed, closing, destroyed,
                 opened, answered, overrides, clears, calm, serial>>

\* The constructor throws, or getSync() meets an asynchronous factory.
ConstructThrows(c) ==
  /\ TurnOf(c)
  /\ Complete(c) /\ Top(c).instance = None
  /\ Top(c).scope \notin {"existing", "get"}
  /\ \/ Top(c).token \in Throwing
     \/ c \in SyncCalls /\ Top(c).token \in AsyncTokens
  /\ Reject(c)

\* Seeded fault: request-scoped instances are cached in the root container.
Store_InRoot(c) ==
  /\ TurnOf(c)
  /\ stack[c] # <<>> /\ Top(c).instance # None
  /\ LET f == Top(c) IN
       /\ singletons' = IF f.scope = "singleton"
                        THEN [singletons EXCEPT ![f.token] = f.instance] ELSE singletons
       /\ cache' = IF f.scope = "request"
                   THEN [cache EXCEPT ![Root] = MapSet(@, f.token, f.instance)] ELSE cache
       /\ stack' = [stack EXCEPT ![c] = Passed(Front(@), f.instance)]
  /\ UNCHANGED <<made, children, answer, doomed, closing, destroyed, opened, answered,
                 overrides, clears, calm, serial>>

\* The instance goes into the cache of its scope, whatever is there by now, and
\* down to the frame that asked for it.
Store(c) ==
  /\ TurnOf(c)
  /\ stack[c] # <<>> /\ Top(c).instance # None
  /\ LET f == Top(c) IN
       /\ singletons' = IF f.scope = "singleton"
                        THEN [singletons EXCEPT ![f.token] = f.instance] ELSE singletons
       /\ cache' = IF f.scope = "request"
                   THEN [cache EXCEPT ![Home[c]] = MapSet(@, f.token, f.instance)] ELSE cache
       /\ stack' = [stack EXCEPT ![c] = Passed(Front(@), f.instance)]
  /\ UNCHANGED <<made, children, answer, doomed, closing, destroyed, opened, answered,
                 overrides, clears, calm, serial>>

\* An alias returns what its target resolved to.
Forward(c) ==
  /\ TurnOf(c)
  /\ Complete(c) /\ Top(c).scope = "existing"
  /\ stack' = [stack EXCEPT ![c] = Passed(Front(@), Top(c).args[1])]
  /\ UNCHANGED <<made, singletons, cache, children, answer, doomed, closing, destroyed,
                 opened, answered, overrides, clears, calm, serial>>

Settle(c) ==
  /\ Complete(c) /\ Top(c).scope = "get"
  /\ answer' = [answer EXCEPT ![c] = Top(c).args[1]]
  /\ stack' = [stack EXCEPT ![c] = <<>>]
  /\ UNCHANGED <<made, singletons, cache, children, doomed, closing, destroyed,
                 opened, answered, overrides, clears, calm, serial>>

Resolve(c) ==
  \/ Unresolvable(c) \/ Reuse(c) \/ Descend(c) \/ Construct(c) \/ ConstructThrows(c)
  \/ Store(c) \/ Forward(c) \/ Settle(c)

\* Seeded fault: the cache is cleared after the hooks, not before them.
Close_KeepsCache(x) ==
  /\ NoSync
  /\ closing[x] = "idle" /\ Closed[x] \in opened
  /\ doomed' = [doomed EXCEPT ![x] = Reverse([n \in DOMAIN cache[Closed[x]] |->
                                                cache[Closed[x]][n].instance])]
  /\ closing' = [closing EXCEPT ![x] = "destroying"]
  /\ calm' = calm \ {h \in {Closed[x]} : Busy(h) \/ Destroying(h)}
  /\ UNCHANGED <<made, singletons, cache, children, stack, answer, destroyed, opened,
                 answered, overrides, clears, serial>>

\* destroyRequestScope(): the cached instances are taken in reverse order of
\* their insertion and the cache is cleared before the first hook is awaited.
Close(x) ==
  /\ NoSync
  /\ closing[x] = "idle" /\ Closed[x] \in opened
  /\ doomed' = [doomed EXCEPT ![x] = Reverse([n \in DOMAIN cache[Closed[x]] |->
                                                cache[Closed[x]][n].instance])]
  /\ cache' = [cache EXCEPT ![Closed[x]] = <<>>]
  /\ closing' = [closing EXCEPT ![x] = "destroying"]
  /\ calm' = calm \ {h \in {Closed[x]} : Busy(h) \/ Destroying(h)}
  /\ UNCHANGED <<made, singletons, children, stack, answer, destroyed, opened,
                 answered, overrides, clears, serial>>

\* onDestroy() of the next instance fulfils.
DestroyNext(x) ==
  /\ NoSync
  /\ closing[x] = "destroying" /\ doomed[x] # <<>>
  /\ destroyed' = Append(destroyed, Head(doomed[x]))
  /\ doomed' = [doomed EXCEPT ![x] = Tail(@)]
  /\ UNCHANGED <<made, singletons, cache, children, stack, answer, closing, opened,
                 answered, overrides, clears, calm, serial>>

\* It throws: the remaining instances are skipped and the child is not removed.
DestroyThrows(x) ==
  /\ NoSync
  /\ closing[x] = "destroying" /\ doomed[x] # <<>>
  /\ made[Head(doomed[x])].token \in Throwing
  /\ destroyed' = Append(destroyed, Head(doomed[x]))
  /\ doomed' = [doomed EXCEPT ![x] = <<>>]
  /\ closing' = [closing EXCEPT ![x] = "failed"]
  /\ calm' = calm \ {Closed[x]}
  /\ UNCHANGED <<made, singletons, cache, children, stack, answer, opened, answered,
                 overrides, clears, serial>>

CloseEnds(x) ==
  /\ NoSync
  /\ closing[x] = "destroying" /\ doomed[x] = <<>>
  /\ children' = children \ {Closed[x]}
  /\ closing' = [closing EXCEPT ![x] = "closed"]
  /\ UNCHANGED <<made, singletons, cache, stack, answer, doomed, destroyed, opened,
                 answered, overrides, clears, calm, serial>>

CloseStep(x) == DestroyNext(x) \/ DestroyThrows(x) \/ CloseEnds(x)

\* The handler of a controller route has resolved what it needs and responds.
\* It does not close the container it opened.
Respond(q) ==
  /\ NoSync
  /\ q \in (Routed \cap opened) \ answered
  /\ ~Busy(q) /\ \E c \in Calls : Home[c] = q /\ answer[c] # None
  /\ answered' = answered \cup {q}
  /\ UNCHANGED <<made, singletons, cache, children, stack, answer, doomed, closing,
                 destroyed, opened, overrides, clears, calm, serial>>

\* override() of the root: the provider becomes a value, which is cached.
Override(t) ==
  /\ NoSync
  /\ t \in Replaceable /\ overrides[t] = None
  /\ made' = Append(made, [token |-> t, scope |-> "singleton", home |-> Root, args |-> <<>>])
  /\ overrides' = [overrides EXCEPT ![t] = Len(made')]
  /\ singletons' = [singletons EXCEPT ![t] = Len(made')]
  /\ calm' = {} /\ serial' = FALSE
  /\ UNCHANGED <<cache, children, stack, answer, doomed, closing, destroyed, opened,
                 answered, clears>>

\* clearCache() of the root, which goes on to its children.
ClearCache ==
  /\ NoSync
  /\ clears < MaxClears
  /\ clears' = clears + 1
  /\ singletons' = [t \in Tokens |-> None]
  /\ cache' = [h \in Containers |-> IF h \in children \cup {Root} THEN <<>> ELSE cache[h]]
  /\ calm' = {} /\ serial' = FALSE
  /\ UNCHANGED <<made, children, stack, answer, doomed, closing, destroyed, opened,
                 answered, overrides>>

ContainerNext ==
  \/ \E q \in Requests : Open(q) \/ Respond(q)
  \/ \E c \in Calls : Get(c) \/ Resolve(c)
  \/ \E x \in Closes : Close(x) \/ CloseStep(x)
  \/ \E t \in Replaceable : Override(t)
  \/ ClearCache

ContainerSpec == ContainerInit /\ [][ContainerNext]_containerVars

\* Promise continuations run, and constructors and hooks settle.
ContainerFairness ==
  /\ \A c \in Calls : WF_containerVars(Resolve(c))
  /\ \A x \in Closes : WF_containerVars(CloseStep(x))

-----------------------------------------------------------------------------
(* Properties *)

Instances == 1..Len(made)
Frames(c) == DOMAIN stack[c]

\* Caches hold instances of the token they are listed under, frames only what
\* their provider injects, and no token is resolved twice on one path.
ContainerTypeOK ==
  /\ \A t \in Tokens : singletons[t] # None =>
       singletons[t] \in Instances /\ made[singletons[t]].token = t
  /\ \A h \in Containers : \A n, m \in DOMAIN cache[h] :
       /\ made[cache[h][n].instance].token = cache[h][n].token
       /\ n # m => cache[h][n].token # cache[h][m].token
  /\ \A c \in Calls :
       /\ answer[c] \in Instances \cup {None, Rejected}
       /\ Len(stack[c]) <= 1 + Cardinality(Tokens)
       /\ \A n, m \in Frames(c) : n # m => stack[c][n].token # stack[c][m].token
       /\ \A n \in Frames(c) : \A k \in DOMAIN stack[c][n].args :
            stack[c][n].args[k] \in Instances
  /\ children \subseteq opened /\ answered \subseteq Routed \cap opened
  /\ \A x \in Closes : closing[x] \in {"idle", "destroying", "closed", "failed"}

\* "request: cached per request container": a request-scoped instance serves
\* the container it was made in and nobody else.  It is injected only into
\* instances of its own container and returned only to calls on it.  (Through
\* a singleton that injects it, it may still be reached from everywhere.)
ScopesIsolated ==
  /\ \A h \in Containers : \A n \in DOMAIN cache[h] : made[cache[h][n].instance].home = h
  /\ \A i \in Instances : \A n \in DOMAIN made[i].args :
       LET d == made[i].args[n] IN
         made[d].scope = "request" => made[d].home = made[i].home
  /\ \A c \in Calls : answer[c] \in Instances =>
       (made[answer[c]].scope = "request" => made[answer[c]].home = Home[c])

\* Where a request-scoped instance can be.
Pending(i) == \E c \in Calls : \E n \in Frames(c) : stack[c][n].instance = i
Cached(i) == \E n \in DOMAIN cache[made[i].home] : cache[made[i].home][n].instance = i
Doomed(i) == \E x \in Closes : i \in ToSet(doomed[x])
Destroyed(i) == i \in ToSet(destroyed)

\* destroyRequestScope() "drops the cache so resources never accumulate across
\* requests": in a container whose calls do not overlap, every request-scoped
\* instance is on its way into the cache, in it, or handed to onDestroy(), and
\* only one of these, through failed resolutions and repeated closes.  (Of
\* overlapping calls the later one overwrites the instance of the earlier one,
\* which is then never destroyed.)
InstancesConserved ==
  \A i \in Instances : made[i].scope = "request" /\ made[i].home \in calm =>
    Cardinality({place \in {"pending", "cached", "doomed", "destroyed"} :
      \/ place = "pending" /\ Pending(i)
      \/ place = "cached" /\ Cached(i)
      \/ place = "doomed" /\ Doomed(i)
      \/ place = "destroyed" /\ Destroyed(i)}) = 1

\* "invokes onDestroy (reverse order)", and a second destroy "is a safe no-op":
\* nothing is destroyed twice, however the closes of a container overlap, and
\* where calls do not overlap no instance is destroyed before one that uses it.
DestroyOrder ==
  \A n, m \in DOMAIN destroyed : n < m =>
    /\ destroyed[n] # destroyed[m]
    /\ made[destroyed[n]].home \in calm =>
         destroyed[n] \notin ToSet(made[destroyed[m]].args)

\* "singleton: cached in root container": calls that do not overlap make one
\* instance, whichever container they ask, and whether by get() or getSync().
\* (Overlapping calls may make one each; the last to finish stays cached.)
OneSingleton ==
  serial => \A i, j \in Instances :
    made[i].scope = "singleton" /\ made[i].token = made[j].token => i = j

\* From resolution to onDestroy() the container neither loses, doubles nor destroys
\* too early an instance it made.
InstancesKept == ContainerTypeOK /\ InstancesConserved /\ DestroyOrder /\ OneSingleton

\* Every get() settles, through aliases, cycles and missing providers alike.
EveryGetSettles == \A c \in Calls : stack[c] # <<>> ~> answer[c] # None

=============================================================================
