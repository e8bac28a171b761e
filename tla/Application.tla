----------------------------- MODULE Application -----------------------------
(***************************************************************************)
(* packages/kernel/src/application.ts and lifecycle.ts: the bootstrap of   *)
(* an application and its start() and stop().                              *)
(*                                                                         *)
(* Every hook is awaited before the next one is called, and start() and    *)
(* stop() may be called while an earlier call is still awaiting a hook:    *)
(* nothing but the flag "started" keeps them apart.  The flag is set when  *)
(* the last hook has fulfilled, and not at all when one rejects.           *)
(***************************************************************************)
EXTENDS Naturals, Sequences, FiniteSets

CONSTANTS Providers,  \* the singletons created at bootstrap
          Order,      \* Seq(Providers): this.instances, in registration order
          Rejecting,  \* providers whose constructor and hooks may reject
          LifeCalls,  \* the calls of start() and stop()
          IsStart     \* [LifeCalls -> BOOLEAN]: which of them are start()

ASSUME LifeAssumption ==
  /\ Order \in Seq(Providers) /\ Len(Order) > 0
  /\ \A p \in Providers : \E n \in DOMAIN Order : Order[n] = p
  /\ Rejecting \subseteq Providers
  /\ IsStart \in [LifeCalls -> BOOLEAN]

VARIABLES boot,    \* init(): "creating", "initializing", "ready" or "failed"
          bootPos, \* position in Order of the provider init() is at
          started, \* the flag
          phase,   \* per call: which hooks it is calling
          pos,     \* per call: position of the hook it awaits
          ran,     \* history: per hook and provider, how often it has fulfilled
          orderly  \* history: no two calls overlapped and no hook rejected

lifeVars == <<boot, bootPos, started, phase, pos, ran, orderly>>

Hooks == {"onInit", "onStart", "onStop", "onDestroy"}
Running == {"onStart", "onStop", "onDestroy"}
Ended == {"returned", "threw"}

LifeInit ==
  /\ boot = "creating" /\ bootPos = 1
  /\ started = FALSE
  /\ phase = [s \in LifeCalls |-> "idle"]
  /\ pos = [s \in LifeCalls |-> 0]
  /\ ran = [h \in Hooks |-> [p \in Providers |-> 0]]
  /\ orderly = TRUE

\* Step 4 of init(): the singletons are created one after the other.
CreateProvider ==
  /\ boot = "creating"
  /\ IF bootPos < Len(Order)
     THEN bootPos' = bootPos + 1 /\ boot' = boot
     ELSE bootPos' = 1 /\ boot' = "initializing"
  /\ UNCHANGED <<started, phase, pos, ran, orderly>>

\* Step 5: callOnInit(); create() resolves after the last hook.
InitProvider ==
  /\ boot = "initializing"
  /\ ran' = [ran EXCEPT !["onInit"][Order[bootPos]] = @ + 1]
  /\ IF bootPos < Len(Order)
     THEN bootPos' = bootPos + 1 /\ boot' = boot
     ELSE bootPos' = bootPos /\ boot' = "ready"
  /\ UNCHANGED <<started, phase, pos, orderly>>

\* A constructor or an onInit() rejects, and with it create(): no application.
BootFails ==
  /\ boot \in {"creating", "initializing"}
  /\ Order[bootPos] \in Rejecting
  /\ boot' = "failed"
  /\ UNCHANGED <<bootPos, started, phase, pos, ran, orderly>>

Overlapping(s) == \E u \in LifeCalls \ {s} : phase[u] \in Running

\* Seeded fault: start() does not look at the flag.
Start_Always(s) ==
  /\ boot = "ready"
  /\ IsStart[s] /\ phase[s] = "idle"
  /\ orderly' = (orderly /\ ~Overlapping(s))
  /\ phase' = [phase EXCEPT ![s] = "onStart"]
  /\ pos' = [pos EXCEPT ![s] = 1]
  /\ UNCHANGED <<boot, bootPos, started, ran>>

Start(s) ==
  /\ boot = "ready"
  /\ IsStart[s] /\ phase[s] = "idle"
  /\ orderly' = (orderly /\ ~Overlapping(s))
  /\ IF started
     THEN phase' = [phase EXCEPT ![s] = "returned"] /\ pos' = pos
     ELSE phase' = [phase EXCEPT ![s] = "onStart"] /\ pos' = [pos EXCEPT ![s] = 1]
  /\ UNCHANGED <<boot, bootPos, started, ran>>

\* callOnStop() runs in reverse order.
Stop(s) ==
  /\ boot = "ready"
  /\ ~IsStart[s] /\ phase[s] = "idle"
  /\ orderly' = (orderly /\ ~Overlapping(s))
  /\ IF started
     THEN phase' = [phase EXCEPT ![s] = "onStop"] /\ pos' = [pos EXCEPT ![s] = Len(Order)]
     ELSE phase' = [phase EXCEPT ![s] = "returned"] /\ pos' = pos
  /\ UNCHANGED <<boot, bootPos, started, ran>>

\* The hook a call awaits has fulfilled: the next one is called.
Ran(s) == ran' = [ran EXCEPT ![phase[s]][Order[pos[s]]] = @ + 1]

StartedOne(s) ==
  /\ phase[s] = "onStart"
  /\ Ran(s)
  /\ IF pos[s] < Len(Order)
     THEN pos' = [pos EXCEPT ![s] = @ + 1] /\ UNCHANGED <<phase, started>>
     ELSE /\ started' = TRUE
          /\ phase' = [phase EXCEPT ![s] = "returned"] /\ pos' = pos
  /\ UNCHANGED <<boot, bootPos, orderly>>

StoppedOne(s) ==
  /\ phase[s] = "onStop"
  /\ Ran(s)
  /\ IF pos[s] > 1
     THEN pos' = [pos EXCEPT ![s] = @ - 1] /\ phase' = phase
     ELSE pos' = [pos EXCEPT ![s] = Len(Order)] /\ phase' = [phase EXCEPT ![s] = "onDestroy"]
  /\ UNCHANGED <<boot, bootPos, started, orderly>>

DestroyedOne(s) ==
  /\ phase[s] = "onDestroy"
  /\ Ran(s)
  /\ IF pos[s] > 1
     THEN pos' = [pos EXCEPT ![s] = @ - 1] /\ UNCHANGED <<phase, started>>
     ELSE /\ started' = FALSE
          /\ phase' = [phase EXCEPT ![s] = "returned"] /\ pos' = pos
  /\ UNCHANGED <<boot, bootPos, orderly>>

\* A hook rejects: the call rejects where it is and the flag stays as it was.
HookRejects(s) ==
  /\ phase[s] \in Running
  /\ Order[pos[s]] \in Rejecting
  /\ phase' = [phase EXCEPT ![s] = "threw"]
  /\ orderly' = FALSE
  /\ UNCHANGED <<boot, bootPos, started, pos, ran>>

LifeStep(s) == StartedOne(s) \/ StoppedOne(s) \/ DestroyedOne(s) \/ HookRejects(s)

LifeNext ==
  \/ CreateProvider \/ InitProvider \/ BootFails
  \/ \E s \in LifeCalls : Start(s) \/ Stop(s) \/ LifeStep(s)

LifeSpec == LifeInit /\ [][LifeNext]_lifeVars

-----------------------------------------------------------------------------
(* Properties *)

LifeTypeOK ==
  /\ boot \in {"creating", "initializing", "ready", "failed"}
  /\ bootPos \in DOMAIN Order
  /\ started \in BOOLEAN /\ orderly \in BOOLEAN
  /\ phase \in [LifeCalls -> {"idle"} \cup Running \cup Ended]
  /\ \A s \in LifeCalls : phase[s] \in Running => pos[s] \in DOMAIN Order
  /\ ran \in [Hooks -> [Providers -> Nat]]

\* How often a provider is in the list: once per token that resolves to it.
Listed(p) == Cardinality({n \in DOMAIN Order : Order[n] = p})

\* "App Init (OnInit) -> Server Ready (OnStart) -> Request -> Shutdown (OnStop)
\* -> Destroy (OnDestroy)": whatever calls overlap and whatever hooks reject,
\* nobody is started before all are initialized, stopped before all have been
\* started, or destroyed more often than anybody has been stopped.
LifecycleOrder ==
  \A p, q \in Providers :
    /\ ran["onStart"][p] > 0 => ran["onInit"][q] = Listed(q)
    /\ ran["onStop"][p] > 0 => ran["onStart"][q] > 0
    /\ ran["onDestroy"][p] * Listed(q) <= ran["onStop"][q] * Listed(p)

\* As long as calls do not overlap and no hook rejects, start() and stop() take
\* turns: every provider has run each of its hooks in equal numbers when the
\* application is stopped, and onStart once more when it is started.
LifecycleBalanced ==
  orderly /\ (\A s \in LifeCalls : phase[s] \notin Running) =>
    \A p \in Providers :
      /\ ran["onDestroy"][p] = ran["onStop"][p]
      /\ ran["onStart"][p] = ran["onStop"][p] + (IF started THEN Listed(p) ELSE 0)

\* Overlapping start() and stop() keep the order of the hooks and, where they do
\* not overlap, run each of them once per start and stop.
LifecycleKept == LifeTypeOK /\ LifecycleOrder /\ LifecycleBalanced
=============================================================================
