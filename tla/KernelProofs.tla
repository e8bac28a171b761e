---------------------------- MODULE KernelProofs ----------------------------
(***************************************************************************)
(* Proofs about the kernel: a request on its way through the rules of its  *)
(* route, for all routes and principals, the hooks of an application, for  *)
(* every list of providers and any number of overlapping calls, the        *)
(* request scopes and instances of its container, for all tokens and       *)
(* dependencies, and the exchange in which the Node adapter carries a      *)
(* request and its response, which never looks complete when it is not.    *)
(***************************************************************************)
EXTENDS Application, RouteHandler, Container, NodeAdapter, TLAPS, FiniteSetTheorems

-----------------------------------------------------------------------------
(* The handler of a route *)

Met(policy) == Allows(policy, principal)

\* The requirement in front of the handler.
Required == route.requires = Anyone \/ Met(route.requires)

InHandler == {"guards", "pipes", "down", "up"}
AfterHandler == {"audit", "filter", "over"}

RouteTypes ==
  /\ route \in Routes
  /\ stage \in {"attach", "require", "resolve"} \cup InHandler \cup AfterHandler
  /\ at \in Nat /\ executed \in Nat
  /\ outcome \in [kind : {"none", "response", "error"}, status : Nat]
  /\ span \in [begun : Nat, ended : Nat]

\* What has been checked of the principal when a request is at a stage.
Checked ==
  /\ stage \in {"attach", "require", "resolve"} => at = 0
  /\ stage \in {"resolve"} \cup InHandler => Required
  /\ stage = "guards" => \A i \in DOMAIN route.guards : i <= at => Met(route.guards[i])
  /\ stage \in {"pipes", "down", "up"} => \A i \in DOMAIN route.guards : Met(route.guards[i])
  /\ executed > 0 =>
       Required /\ stage \in {"down", "up"} \cup AfterHandler
       /\ \A i \in DOMAIN route.guards : Met(route.guards[i])

SpanKept ==
  /\ stage \in {"attach", "require", "resolve"} => span.begun = 0 /\ span.ended = 0
  /\ stage \in InHandler => span.begun = 1 /\ span.ended = 0
  /\ stage \in AfterHandler =>
       span.ended = span.begun \/ (executed = 0 /\ span.ended = 0 /\ outcome.kind = "error")

\* The record is made of the outcome that is turned into the response.
AuditTrue ==
  /\ stage \notin {"filter", "over"} => audited = "none"
  /\ stage \in {"filter", "over"} =>
       /\ audited = "allow" => StatusOf(outcome) < 400
       /\ audited = "deny" => StatusOf(outcome) \in {401, 403}
       /\ audited = "error" => StatusOf(outcome) >= 400 /\ StatusOf(outcome) \notin {401, 403}
  /\ stage = "over" => response = StatusOf(outcome)

RouteInv == RouteTypes /\ Checked /\ SpanKept /\ AuditTrue

LEMMA RouteInitInv == RouteInit => RouteInv
<1>1. SUFFICES ASSUME RouteInit PROVE RouteInv OBVIOUS
<1>2. /\ route \in Routes /\ stage = "attach" /\ at = 0 /\ executed = 0 /\ audited = "none"
      /\ outcome = [kind |-> "none", status |-> 0]
      /\ span = [begun |-> 0, ended |-> 0]
  BY <1>1 DEF RouteInit, Nothing
<1>3. RouteTypes BY <1>2 DEF RouteTypes
<1>4. Checked BY <1>2 DEF Checked, InHandler, AfterHandler
<1>5. SpanKept /\ AuditTrue BY <1>2 DEF SpanKept, AuditTrue, InHandler, AfterHandler
<1>6. QED BY <1>3, <1>4, <1>5 DEF RouteInv

\* The policies of a route are of the kinds that Allows() tells apart.
LEMMA PolicyTypes ==
  ASSUME RouteTypes
  PROVE  /\ Len(route.guards) \in Nat /\ DOMAIN route.guards = 1..Len(route.guards)
         /\ \A i \in DOMAIN route.guards :
              route.guards[i].kind \in {"role", "permission", "tenant"}
         /\ route.requires # Anyone =>
              route.requires.kind \in {"role", "permission", "tenant"}
<1> DEFINE policies == {route.guards[i] : i \in DOMAIN route.guards}
                       \cup (IF route.requires = Anyone THEN {} ELSE {route.requires})
<1>1. /\ route.guards \in Seq(policies)
      /\ \A policy \in policies : policy.kind \in {"role", "permission", "tenant"}
  BY RouteAssumption DEF RouteTypes
<1>2. Len(route.guards) \in Nat /\ DOMAIN route.guards = 1..Len(route.guards)
  <2> HIDE DEF policies
  <2>1. QED BY <1>1
<1>3. QED BY <1>1, <1>2

\* What user code answers or throws.
LEMMA OutcomeTypes ==
  /\ \A n \in Nat : /\ Response(n) \in [kind : {"none", "response", "error"}, status : Nat]
                    /\ Error(n) \in [kind : {"none", "response", "error"}, status : Nat]
                    /\ Error(n).kind = "error" /\ Response(n).status = n /\ Error(n).status = n
  /\ Nothing \in [kind : {"none", "response", "error"}, status : Nat]
  /\ \A e \in Errors : e \in Nat
  /\ Outcomes \subseteq [kind : {"none", "response", "error"}, status : Nat]
BY RouteAssumption DEF Response, Error, Nothing, Outcomes

\* In front of the handler: nobody gets past a requirement it does not meet.
LEMMA FrontStep == ASSUME RouteInv, Attach \/ Require \/ ResolveController PROVE RouteInv'
<1> USE DEF RouteInv, InHandler, AfterHandler
<1>1. CASE Attach
  <2>1. /\ stage = "attach" /\ executed = 0
        /\ UNCHANGED <<route, at, span, executed, audited>>
        /\ \/ stage' = "require" /\ outcome' = outcome
           \/ stage' = "audit" /\ \E e \in Errors : outcome' = Error(e)
    BY <1>1 DEF Attach, Checked, RouteTypes
  <2>2. RouteTypes' BY <2>1, OutcomeTypes DEF RouteTypes
  <2>3. Checked' BY <2>1 DEF Checked
  <2>4. SpanKept' /\ AuditTrue' BY <2>1 DEF SpanKept, AuditTrue
  <2>5. QED BY <2>2, <2>3, <2>4
<1>2. CASE Require
  <2>1. /\ stage = "require" /\ executed = 0
        /\ UNCHANGED <<route, principal, at, span, executed, audited>>
        /\ \/ stage' = "resolve" /\ outcome' = outcome /\ Required
           \/ stage' = "audit" /\ \E n \in Nat : outcome' = Error(n)
    BY <1>2 DEF Require, Checked, RouteTypes, Required, Met
  <2>2. RouteTypes' BY <2>1, OutcomeTypes DEF RouteTypes
  <2>3. Checked' BY <2>1 DEF Checked, Required, Met
  <2>4. SpanKept' /\ AuditTrue' BY <2>1 DEF SpanKept, AuditTrue
  <2>5. QED BY <2>2, <2>3, <2>4
<1>3. CASE ResolveController
  <2>1. /\ stage = "resolve" /\ executed = 0
        /\ UNCHANGED <<route, principal, at, executed, audited>>
        /\ \/ stage' = "guards" /\ span' = [span EXCEPT !.begun = @ + 1] /\ outcome' = outcome
           \/ stage' = "audit" /\ outcome' \in {Error(0), Response(404)} /\ span' = span
    BY <1>3 DEF ResolveController, Checked, RouteTypes
  <2>2. RouteTypes' BY <2>1, OutcomeTypes DEF RouteTypes
  <2>3. Checked'
    <3>1. at = 0 /\ Required BY <2>1 DEF Checked
    <3>2. \A i \in DOMAIN route.guards : ~(i <= 0) BY PolicyTypes
    <3>3. QED BY <2>1, <3>1, <3>2 DEF Checked, Required, Met
  <2>4. SpanKept' /\ AuditTrue' BY <2>1 DEF SpanKept, AuditTrue, RouteTypes
  <2>5. QED BY <2>2, <2>3, <2>4
<1>4. QED BY <1>1, <1>2, <1>3

\* The guards: the request gets on to the pipes when all have said yes.
LEMMA GuardsStep ==
  ASSUME RouteInv, GuardRejects \/ GuardAllows \/ GuardsDone PROVE RouteInv'
<1> USE DEF RouteInv, InHandler, AfterHandler
<1>1. /\ stage = "guards" /\ executed = 0 /\ at \in Nat /\ Required
      /\ \A i \in DOMAIN route.guards : i <= at => Met(route.guards[i])
      /\ UNCHANGED <<route, principal, executed, audited>>
  BY DEF GuardRejects, GuardAllows, GuardsDone, Checked, RouteTypes
<1>2. CASE GuardRejects
  <2>1. stage' = "audit" /\ outcome' = Response(403) /\ at' = at
        /\ span' = [span EXCEPT !.ended = @ + 1]
    BY <1>2 DEF GuardRejects
  <2>2. RouteTypes' BY <1>1, <2>1, OutcomeTypes DEF RouteTypes
  <2>3. Checked' BY <1>1, <2>1 DEF Checked
  <2>4. SpanKept' /\ AuditTrue' BY <1>1, <2>1 DEF SpanKept, AuditTrue, RouteTypes
  <2>5. QED BY <2>2, <2>3, <2>4
<1>3. CASE GuardAllows
  <2>1. /\ at' = at + 1 /\ Met(route.guards[at + 1])
        /\ UNCHANGED <<stage, outcome, span>>
    BY <1>3 DEF GuardAllows, Met
  <2>2. \A i \in DOMAIN route.guards : i <= at + 1 => Met(route.guards[i])
    BY <1>1, <2>1, PolicyTypes
  <2>3. RouteTypes' BY <1>1, <2>1 DEF RouteTypes
  <2>4. Checked' BY <1>1, <2>1, <2>2 DEF Checked, Required, Met
  <2>5. SpanKept' /\ AuditTrue' BY <1>1, <2>1 DEF SpanKept, AuditTrue
  <2>6. QED BY <2>3, <2>4, <2>5
<1>4. CASE GuardsDone
  <2>1. /\ at = Len(route.guards) /\ at' = 0 /\ stage' = "pipes"
        /\ UNCHANGED <<outcome, span>>
    BY <1>4 DEF GuardsDone
  <2>2. \A i \in DOMAIN route.guards : Met(route.guards[i]) BY <1>1, <2>1, PolicyTypes
  <2>3. RouteTypes' BY <1>1, <2>1 DEF RouteTypes
  <2>4. Checked' BY <1>1, <2>1, <2>2 DEF Checked, Required, Met
  <2>5. SpanKept' /\ AuditTrue' BY <1>1, <2>1 DEF SpanKept, AuditTrue
  <2>6. QED BY <2>3, <2>4, <2>5
<1>5. QED BY <1>2, <1>3, <1>4

\* A guard or a pipe throws: the one way out that leaves a span open.
LEMMA ThrowStep == ASSUME RouteInv, GuardOrPipeThrows PROVE RouteInv'
<1> USE DEF RouteInv, InHandler, AfterHandler
<1>1. /\ stage \in {"guards", "pipes"} /\ executed = 0
      /\ stage' = "audit" /\ \E e \in Errors : outcome' = Error(e)
      /\ UNCHANGED <<route, principal, at, span, executed, audited>>
  BY DEF GuardOrPipeThrows, Checked, RouteTypes
<1>2. RouteTypes' BY <1>1, OutcomeTypes DEF RouteTypes
<1>3. Checked' BY <1>1 DEF Checked
<1>4. outcome'.kind = "error" BY <1>1, OutcomeTypes
<1>5. SpanKept' /\ AuditTrue' BY <1>1, <1>4 DEF SpanKept, AuditTrue
<1>6. QED BY <1>2, <1>3, <1>5

\* Pipes, interceptors and the method: all of them behind the guards.
LEMMA HandleStep ==
  ASSUME RouteInv, Pipe \/ Intercept \/ Execute \/ Unwind PROVE RouteInv'
<1> USE DEF RouteInv, InHandler, AfterHandler
<1>1. /\ stage \in {"pipes", "down", "up"} /\ stage' \in {"pipes", "down", "up"}
      /\ stage' = "pipes" => stage = "pipes" /\ executed' = executed
      /\ executed' \in {executed, executed + 1}
      /\ executed' # executed => stage' = "up"
      /\ executed' > 0 => stage' \in {"down", "up"}
      /\ UNCHANGED <<route, principal, span, audited>>
      /\ outcome' \in {outcome, Nothing} \cup Outcomes
      /\ at' \in Nat
  BY DEF Pipe, Intercept, Execute, Unwind, Checked, RouteTypes
<1>2. Required /\ \A i \in DOMAIN route.guards : Met(route.guards[i])
  BY <1>1 DEF Checked
<1>3. RouteTypes' BY <1>1, OutcomeTypes DEF RouteTypes
<1>4. Checked' BY <1>1, <1>2 DEF Checked, Required, Met
<1>5. SpanKept' /\ AuditTrue' BY <1>1 DEF SpanKept, AuditTrue
<1>6. QED BY <1>3, <1>4, <1>5

\* The end: the span is ended, the audit records, the filter answers.
LEMMA EndStep ==
  ASSUME RouteInv, EndSpan \/ Audit \/ SinkRejects \/ Filter PROVE RouteInv'
<1> USE DEF RouteInv, InHandler, AfterHandler
<1>1. /\ stage \in {"up", "audit", "filter"} /\ stage' \in AfterHandler
      /\ UNCHANGED <<route, principal, at, executed>>
      /\ outcome' \in {outcome, Error(0)}
  BY DEF EndSpan, Audit, SinkRejects, Filter
<1>2. Checked' BY <1>1 DEF Checked, Required, Met
<1>3. CASE EndSpan
  <2>1. /\ stage = "up" /\ stage' = "audit" /\ UNCHANGED <<outcome, audited>>
        /\ span' = [span EXCEPT !.ended = @ + 1]
    BY <1>3 DEF EndSpan
  <2>2. RouteTypes' BY <1>1, <2>1 DEF RouteTypes
  <2>3. SpanKept' /\ AuditTrue' BY <1>1, <2>1 DEF SpanKept, AuditTrue, RouteTypes
  <2>4. QED BY <1>2, <2>2, <2>3
<1>4. CASE Audit
  <2>1. /\ stage = "audit" /\ stage' = "filter" /\ UNCHANGED <<outcome, span>>
        /\ audited' = IF StatusOf(outcome) < 400 THEN "allow"
                      ELSE IF StatusOf(outcome) \in {401, 403} THEN "deny" ELSE "error"
    BY <1>4 DEF Audit
  <2>2. RouteTypes' BY <1>1, <2>1 DEF RouteTypes
  <2>3. SpanKept' BY <1>1, <2>1 DEF SpanKept
  <2>4. StatusOf(outcome) \in Nat BY DEF StatusOf, RouteTypes
  <2>5. AuditTrue' BY <2>1, <2>4 DEF AuditTrue, StatusOf
  <2>6. QED BY <1>2, <2>2, <2>3, <2>5
<1>5. CASE SinkRejects
  <2>1. /\ stage = "audit" /\ stage' = "filter" /\ outcome' = Error(0)
        /\ UNCHANGED <<span, audited>>
    BY <1>5 DEF SinkRejects
  <2>2. RouteTypes' /\ outcome'.kind = "error" BY <1>1, <2>1, OutcomeTypes DEF RouteTypes
  <2>3. SpanKept' /\ AuditTrue' BY <1>1, <2>1, <2>2 DEF SpanKept, AuditTrue
  <2>4. QED BY <1>2, <2>2, <2>3
<1>6. CASE Filter
  <2>1. /\ stage = "filter" /\ stage' = "over" /\ response' = StatusOf(outcome)
        /\ UNCHANGED <<span, audited, outcome>>
    BY <1>6 DEF Filter
  <2>2. RouteTypes' BY <1>1, <2>1 DEF RouteTypes
  <2>3. SpanKept' /\ AuditTrue' BY <1>1, <2>1 DEF SpanKept, AuditTrue, StatusOf
  <2>4. QED BY <1>2, <2>2, <2>3
<1>7. QED BY <1>3, <1>4, <1>5, <1>6

LEMMA RouteNextInv == RouteInv /\ [RouteNext]_routeVars => RouteInv'
<1>1. SUFFICES ASSUME RouteInv, [RouteNext]_routeVars PROVE RouteInv' OBVIOUS
<1>2. CASE UNCHANGED routeVars
  BY <1>1, <1>2 DEF routeVars, RouteInv, RouteTypes, Checked, Required, Met, SpanKept, AuditTrue,
     StatusOf
<1>3. CASE RouteNext
  BY <1>1, <1>3, FrontStep, GuardsStep, ThrowStep, HandleStep, EndStep DEF RouteNext
<1>4. QED BY <1>1, <1>2, <1>3

\* Every reachable state satisfies the strengthened invariant.
THEOREM RouteInvariant == RouteSpec => []RouteInv
BY RouteInitInv, RouteNextInv, PTL DEF RouteSpec

\* A policy that is met holds of the principal, who is somebody.
LEMMA MetHolds ==
  ASSUME NEW policy, policy.kind \in {"role", "permission", "tenant"}, Met(policy)
  PROVE  principal # Anonymous /\ Holds(policy)
<1>1. principal # Anonymous BY DEF Met, Allows
<1>2. CASE policy.kind = "role"
  <2>1. policy.names \cap principal.roles # {} BY <1>2 DEF Met, Allows
  <2>2. QED BY <1>1, <1>2, <2>1 DEF Holds
<1>3. CASE policy.kind = "permission"
  <2>1. policy.names \subseteq principal.permissions BY <1>3 DEF Met, Allows
  <2>2. QED BY <1>1, <1>3, <2>1 DEF Holds
<1>4. CASE policy.kind = "tenant"
  <2>1. principal.tenant \in policy.names BY <1>4 DEF Met, Allows
  <2>2. QED BY <1>1, <1>4, <2>1 DEF Holds
<1>5. QED BY <1>2, <1>3, <1>4

\* Whatever guards, pipes, interceptors, the controller and the audit sink do:
\* the method is called for those only who meet every rule of the route, the
\* span is ended once unless a guard or a pipe threw, and the audit records
\* what the client is told.
THEOREM AlwaysAccounted == RouteSpec => []RequestsAccounted
<1>1. RouteInv => RequestsAccounted
  <2>1. SUFFICES ASSUME RouteInv PROVE RequestsAccounted OBVIOUS
  <2>2. executed > 0 => Entitled
    <3>1. SUFFICES ASSUME executed > 0,
                          NEW policy \in {route.guards[i] : i \in DOMAIN route.guards}
                            \cup (IF route.requires = Anyone THEN {} ELSE {route.requires})
                   PROVE  principal # Anonymous /\ Holds(policy)
      BY DEF Entitled
    <3>2. Required /\ \A i \in DOMAIN route.guards : Met(route.guards[i])
      BY <2>1, <3>1 DEF RouteInv, Checked
    <3>3. policy.kind \in {"role", "permission", "tenant"} /\ Met(policy)
      BY <2>1, <3>2, PolicyTypes DEF RouteInv, Required
    <3>4. QED BY <3>3, MetHolds
  <2>3. QED BY <2>1, <2>2 DEF RouteInv, SpanKept, AuditTrue, AfterHandler, RequestsAccounted
<1>2. QED BY <1>1, RouteInvariant, PTL

-----------------------------------------------------------------------------
(* The lifecycle of an application *)

\* How often a provider is at the positions S of the list.
Times(p, S) == Cardinality({n \in S : Order[n] = p})

Upto(k) == 1..(k - 1)             \* the positions before k, going forward
Beyond(k) == (k + 1)..Len(Order)  \* the positions before k, going backward

\* What the hooks of start() and stop() have done, as sets of passes: S holds
\* the calls and positions whose onStop has fulfilled, D those of onDestroy.
Of(S, p) == Cardinality({x \in S : Order[x[2]] = p})
PassesAre(S, D) ==
  /\ S \in SUBSET (LifeCalls \X DOMAIN Order) /\ IsFiniteSet(S)
  /\ D \in SUBSET (LifeCalls \X DOMAIN Order) /\ IsFiniteSet(D)
  /\ \A p \in Providers : ran["onStop"][p] = Of(S, p) /\ ran["onDestroy"][p] = Of(D, p)
  /\ \A s \in LifeCalls, n \in DOMAIN Order :
       /\ <<s, n>> \in D => \A m \in DOMAIN Order : <<s, m>> \in S
       /\ phase[s] \in {"idle", "onStart"} => <<s, n>> \notin S /\ <<s, n>> \notin D
       /\ phase[s] = "onStop" => (<<s, n>> \in S <=> n > pos[s]) /\ <<s, n>> \notin D
       /\ phase[s] = "onDestroy" => <<s, n>> \in S /\ (<<s, n>> \in D <=> n > pos[s])

Passes == \E S, D : PassesAre(S, D)

\* Nothing runs before the providers are initialized.
BootInv ==
  /\ boot = "creating" => \A p \in Providers : ran["onInit"][p] = 0
  /\ boot = "initializing" => \A p \in Providers : ran["onInit"][p] = Times(p, Upto(bootPos))
  /\ boot = "ready" => \A p \in Providers : ran["onInit"][p] = Listed(p)
  /\ boot # "ready" =>
       /\ ~started /\ \A s \in LifeCalls : phase[s] = "idle"
       /\ \A h \in Running, p \in Providers : ran[h][p] = 0

\* Nothing stops before the providers have been started.
StartInv ==
  /\ started \/ (\E s \in LifeCalls : phase[s] \in {"onStop", "onDestroy"})
             \/ (\E p \in Providers : ran["onStop"][p] > 0)
       => \A q \in Providers : ran["onStart"][q] > 0
  /\ \A s \in LifeCalls : phase[s] = "onStart" =>
       \A n \in DOMAIN Order : n < pos[s] => ran["onStart"][Order[n]] > 0

\* Calls that do not overlap, at every hook.
TurnsInv ==
  orderly =>
    /\ \A s, t \in LifeCalls : phase[s] \in Running /\ phase[t] \in Running => s = t
    /\ (\A s \in LifeCalls : phase[s] \notin Running) =>
         \A p \in Providers :
           /\ ran["onDestroy"][p] = ran["onStop"][p]
           /\ ran["onStart"][p] = ran["onStop"][p] + (IF started THEN Listed(p) ELSE 0)
    /\ \A s \in LifeCalls, p \in Providers :
         /\ phase[s] = "onStart" =>
              /\ ~started /\ ran["onDestroy"][p] = ran["onStop"][p]
              /\ ran["onStart"][p] = ran["onStop"][p] + Times(p, Upto(pos[s]))
         /\ phase[s] = "onStop" =>
              /\ started /\ ran["onStart"][p] = ran["onDestroy"][p] + Listed(p)
              /\ ran["onStop"][p] = ran["onDestroy"][p] + Times(p, Beyond(pos[s]))
         /\ phase[s] = "onDestroy" =>
              /\ started /\ ran["onStart"][p] = ran["onStop"][p]
              /\ ran["onStop"][p] + Times(p, Beyond(pos[s])) = ran["onDestroy"][p] + Listed(p)

LifeInv ==
  LifeTypeOK /\ pos \in [LifeCalls -> Nat] /\ BootInv /\ StartInv /\ Passes /\ TurnsInv

LEMMA OrderTypes ==
  /\ Len(Order) \in Nat \ {0} /\ DOMAIN Order = 1..Len(Order)
  /\ \A n \in DOMAIN Order : Order[n] \in Providers
  /\ \A p \in Providers : \E n \in DOMAIN Order : Order[n] = p
  /\ IsFiniteSet(DOMAIN Order)
<1>1. /\ Order \in Seq(Providers) /\ Len(Order) > 0
      /\ \A p \in Providers : \E n \in DOMAIN Order : Order[n] = p
  BY LifeAssumption
<1>2. /\ Len(Order) \in Nat \ {0} /\ DOMAIN Order = 1..Len(Order)
      /\ \A n \in DOMAIN Order : Order[n] \in Providers
  BY <1>1
<1>3. IsFiniteSet(1..Len(Order))
  <2>1. 1 \in Int /\ Len(Order) \in Int BY <1>2
  <2>2. QED BY <2>1, FS_Interval
<1>4. QED BY <1>1, <1>2, <1>3

\* One more position counts for the provider that is there.
LEMMA TimesOne ==
  ASSUME NEW S \in SUBSET DOMAIN Order, NEW n \in DOMAIN Order \ S, NEW p
  PROVE  /\ Times(p, S) \in Nat
         /\ Times(p, S \cup {n}) = Times(p, S) + (IF Order[n] = p THEN 1 ELSE 0)
<1> DEFINE T == {m \in S : Order[m] = p}
<1>1. IsFiniteSet(T)
  <2>1. T \in SUBSET DOMAIN Order OBVIOUS
  <2>2. QED BY <2>1, OrderTypes, FS_Subset
<1>2. Cardinality(T) \in Nat BY <1>1, FS_CardinalityType
<1>3. CASE Order[n] = p
  <2>1. {m \in S \cup {n} : Order[m] = p} = T \cup {n} /\ n \notin T BY <1>3
  <2>2. Cardinality(T \cup {n}) = Cardinality(T) + 1 BY <1>1, <2>1, FS_AddElement
  <2>3. QED BY <1>2, <1>3, <2>1, <2>2 DEF Times
<1>4. CASE Order[n] # p
  <2>1. {m \in S \cup {n} : Order[m] = p} = T BY <1>4
  <2>2. QED BY <1>2, <1>4, <2>1 DEF Times
<1>5. QED BY <1>3, <1>4

\* The loops over the list, forward and backward.
LEMMA TimesLoops ==
  ASSUME NEW p \in Providers, NEW k \in DOMAIN Order
  PROVE  LET one == IF Order[k] = p THEN 1 ELSE 0
         IN  /\ Times(p, Upto(k)) \in Nat /\ Times(p, Beyond(k)) \in Nat
             /\ Times(p, Upto(1)) = 0 /\ Times(p, Beyond(Len(Order))) = 0
             /\ Times(p, Upto(k + 1)) = Times(p, Upto(k)) + one
             /\ Times(p, Beyond(k - 1)) = Times(p, Beyond(k)) + one
             /\ Times(p, Upto(Len(Order) + 1)) = Listed(p)
             /\ Times(p, Beyond(0)) = Listed(p)
             /\ Listed(p) \in Nat \ {0}
<1>1. Len(Order) \in Nat \ {0} /\ DOMAIN Order = 1..Len(Order) /\ k \in 1..Len(Order)
  BY OrderTypes
<1>2. Upto(k) \in SUBSET DOMAIN Order /\ k \notin Upto(k) /\ Upto(k + 1) = Upto(k) \cup {k}
  BY <1>1 DEF Upto
<1>3. Beyond(k) \in SUBSET DOMAIN Order /\ k \notin Beyond(k) /\ Beyond(k - 1) = Beyond(k) \cup {k}
  BY <1>1 DEF Beyond
<1>4. Upto(1) = {} /\ Beyond(Len(Order)) = {} BY <1>1 DEF Upto, Beyond
<1>5. Upto(Len(Order) + 1) = DOMAIN Order /\ Beyond(0) = DOMAIN Order
  BY <1>1 DEF Upto, Beyond
<1>6. \A q : Times(q, {}) = 0
  <2>1. SUFFICES ASSUME NEW q PROVE Times(q, {}) = 0 OBVIOUS
  <2>2. {n \in {} : Order[n] = q} = {} OBVIOUS
  <2>3. QED BY <2>2, FS_EmptySet DEF Times
<1>7. Listed(p) \in Nat \ {0}
  <2> DEFINE T == {n \in DOMAIN Order : Order[n] = p}
  <2>1. T \in SUBSET DOMAIN Order /\ T # {} BY OrderTypes
  <2>2. IsFiniteSet(T) BY <2>1, OrderTypes, FS_Subset
  <2>3. Cardinality(T) \in Nat /\ Cardinality(T) # 0
    BY <2>1, <2>2, FS_CardinalityType, FS_EmptySet
  <2>4. QED BY <2>3 DEF Listed
<1>8. Listed(p) = Times(p, DOMAIN Order) BY DEF Listed, Times
<1>9. /\ Times(p, Upto(k)) \in Nat
      /\ Times(p, Upto(k + 1)) = Times(p, Upto(k)) + (IF Order[k] = p THEN 1 ELSE 0)
  BY <1>2, TimesOne
<1>10. /\ Times(p, Beyond(k)) \in Nat
       /\ Times(p, Beyond(k - 1)) = Times(p, Beyond(k)) + (IF Order[k] = p THEN 1 ELSE 0)
  BY <1>3, TimesOne
<1>11. QED BY <1>4, <1>5, <1>6, <1>7, <1>8, <1>9, <1>10

\* One more pass counts for the provider whose hook has fulfilled.
LEMMA OfOne ==
  ASSUME NEW S, IsFiniteSet(S), NEW x, x \notin S, NEW p
  PROVE  /\ IsFiniteSet(S \cup {x})
         /\ Of(S, p) \in Nat
         /\ Of(S \cup {x}, p) = Of(S, p) + (IF Order[x[2]] = p THEN 1 ELSE 0)
<1> DEFINE T == {y \in S : Order[y[2]] = p}
<1>1. IsFiniteSet(T)
  <2>1. T \in SUBSET S OBVIOUS
  <2>2. QED BY <2>1, FS_Subset
<1>2. Cardinality(T) \in Nat /\ IsFiniteSet(S \cup {x}) BY <1>1, FS_CardinalityType, FS_AddElement
<1>3. CASE Order[x[2]] = p
  <2>1. {y \in S \cup {x} : Order[y[2]] = p} = T \cup {x} /\ x \notin T BY <1>3
  <2>2. Cardinality(T \cup {x}) = Cardinality(T) + 1 BY <1>1, <2>1, FS_AddElement
  <2>3. QED BY <1>2, <1>3, <2>1, <2>2 DEF Of
<1>4. CASE Order[x[2]] # p
  <2>1. {y \in S \cup {x} : Order[y[2]] = p} = T BY <1>4
  <2>2. Of(S, p) = Cardinality(T) /\ Of(S \cup {x}, p) = Cardinality(T)
    BY <2>1 DEF Of
  <2>3. (IF Order[x[2]] = p THEN 1 ELSE 0) = 0 BY <1>4
  <2> HIDE DEF T
  <2>4. QED BY <1>2, <2>2, <2>3
<1>5. QED BY <1>3, <1>4

LEMMA Crosswise ==
  ASSUME NEW a \in Nat, NEW b \in Nat, NEW c \in Nat, NEW x \in Nat, NEW y \in Nat,
         a <= c * x, c * y <= b
  PROVE  a * y <= b * x
<1>1. c * x \in Nat /\ c * y \in Nat OBVIOUS
<1>2. \A i, j, k \in Nat : i <= j => i * k <= j * k OBVIOUS
<1>3. a * y <= (c * x) * y BY <1>1, <1>2
<1>4. (c * y) * x <= b * x BY <1>1, <1>2
<1>5. (c * x) * y = (c * y) * x OBVIOUS
<1>6. QED BY <1>3, <1>4, <1>5

\* Only calls that have stopped all providers destroy any: the passes of
\* onDestroy over a provider are no more than those calls make, the passes of
\* onStop over another no fewer.
LEMMA PassesOrdered ==
  ASSUME NEW S, NEW D, PassesAre(S, D), NEW p \in Providers, NEW q \in Providers
  PROVE  ran["onDestroy"][p] * Listed(q) <= ran["onStop"][q] * Listed(p)
<1> DEFINE C == {x[1] : x \in D}
           Places(r) == {n \in DOMAIN Order : Order[n] = r}
           DestroyedOf == {x \in D : Order[x[2]] = p}
           StoppedOf == {x \in S : Order[x[2]] = q}
<1>1. /\ S \in SUBSET (LifeCalls \X DOMAIN Order) /\ IsFiniteSet(S)
      /\ D \in SUBSET (LifeCalls \X DOMAIN Order) /\ IsFiniteSet(D)
      /\ ran["onStop"][q] = Cardinality(StoppedOf)
      /\ ran["onDestroy"][p] = Cardinality(DestroyedOf)
  BY DEF PassesAre, Of
<1>2. IsFiniteSet(C) /\ Cardinality(C) \in Nat
  <2> DEFINE f == [x \in D |-> x[1]]
  <2>1. f \in Surjection(D, C) BY DEF Surjection
  <2>2. QED BY <1>1, <2>1, FS_Surjection, FS_CardinalityType
<1>3. \A r \in {p, q} : IsFiniteSet(Places(r)) /\ Listed(r) = Cardinality(Places(r)) /\ Listed(r) \in Nat
  <2>1. SUFFICES ASSUME NEW r \in {p, q}
                 PROVE  IsFiniteSet(Places(r)) /\ Listed(r) = Cardinality(Places(r)) /\ Listed(r) \in Nat
    OBVIOUS
  <2>2. Places(r) \in SUBSET DOMAIN Order OBVIOUS
  <2>3. IsFiniteSet(Places(r)) BY <2>2, OrderTypes, FS_Subset
  <2>4. QED BY <2>3, FS_CardinalityType DEF Listed
<1>4. Cardinality(DestroyedOf) <= Cardinality(C) * Listed(p) /\ Cardinality(DestroyedOf) \in Nat
  <2>1. DestroyedOf \in SUBSET (C \X Places(p))
    <3>1. SUFFICES ASSUME NEW x \in D, Order[x[2]] = p PROVE x \in C \X Places(p) OBVIOUS
    <3>2. x \in LifeCalls \X DOMAIN Order BY <1>1
    <3>3. x = <<x[1], x[2]>> /\ x[2] \in DOMAIN Order BY <3>2
    <3>4. x[1] \in C /\ x[2] \in Places(p) BY <3>1, <3>3
    <3>5. QED BY <3>3, <3>4
  <2>2. IsFiniteSet(C \X Places(p)) /\ Cardinality(C \X Places(p)) = Cardinality(C) * Listed(p)
    <3>1. IsFiniteSet(C) /\ IsFiniteSet(Places(p)) /\ Listed(p) = Cardinality(Places(p)) BY <1>2, <1>3
    <3> HIDE DEF C, Places
    <3>2. QED BY <3>1, FS_Product
  <2> HIDE DEF C, Places
  <2>3. QED BY <2>1, <2>2, FS_Subset, FS_CardinalityType
<1>5. Cardinality(C) * Listed(q) <= Cardinality(StoppedOf) /\ Cardinality(StoppedOf) \in Nat
  <2>1. C \X Places(q) \in SUBSET StoppedOf
    <3>1. SUFFICES ASSUME NEW x \in D, NEW n \in DOMAIN Order, Order[n] = q
                   PROVE  <<x[1], n>> \in S
      OBVIOUS
    <3>2. x \in LifeCalls \X DOMAIN Order BY <1>1
    <3>3. x = <<x[1], x[2]>> /\ x[1] \in LifeCalls /\ x[2] \in DOMAIN Order BY <3>2
    <3>4. <<x[1], x[2]>> \in D BY <3>1, <3>3
    <3>5. QED BY <3>1, <3>3, <3>4 DEF PassesAre
  <2>2. IsFiniteSet(StoppedOf)
    <3>1. StoppedOf \in SUBSET S OBVIOUS
    <3>2. QED BY <1>1, <3>1, FS_Subset
  <2>3. Cardinality(C \X Places(q)) = Cardinality(C) * Listed(q)
    <3>1. IsFiniteSet(C) /\ IsFiniteSet(Places(q)) /\ Listed(q) = Cardinality(Places(q)) BY <1>2, <1>3
    <3> HIDE DEF C, Places
    <3>2. QED BY <3>1, FS_Product
  <2> HIDE DEF C, Places, StoppedOf
  <2>4. QED BY <2>1, <2>2, <2>3, FS_Subset, FS_CardinalityType
<1>6. QED
  <2> HIDE DEF C, Places, StoppedOf, DestroyedOf
  <2>1. Listed(p) \in Nat /\ Listed(q) \in Nat BY <1>3
  <2>2. QED BY <1>1, <1>2, <1>4, <1>5, <2>1, Crosswise

LEMMA LifeInitInv == LifeInit => LifeInv
<1>1. SUFFICES ASSUME LifeInit PROVE LifeInv OBVIOUS
<1>2. /\ boot = "creating" /\ bootPos = 1 /\ started = FALSE /\ orderly = TRUE
      /\ phase = [s \in LifeCalls |-> "idle"] /\ pos = [s \in LifeCalls |-> 0]
      /\ ran = [h \in Hooks |-> [p \in Providers |-> 0]]
  BY <1>1 DEF LifeInit
<1>3. \A h \in Hooks, p \in Providers : ran[h][p] = 0 BY <1>2
<1>4. LifeTypeOK /\ pos \in [LifeCalls -> Nat]
  <2>1. 1 \in DOMAIN Order BY OrderTypes
  <2>2. QED BY <1>2, <2>1 DEF LifeTypeOK, Running
<1>5. BootInv BY <1>2, <1>3 DEF BootInv, Hooks, Running
<1>6. StartInv BY <1>2, <1>3 DEF StartInv, Hooks
<1>7. TurnsInv BY <1>2, <1>3 DEF TurnsInv, Hooks, Running
<1>8. PassesAre({}, {})
  <2>1. \A p : Of({}, p) = 0
    <3>1. SUFFICES ASSUME NEW p PROVE Of({}, p) = 0 OBVIOUS
    <3>2. {x \in {} : Order[x[2]] = p} = {} OBVIOUS
    <3>3. QED BY <3>2, FS_EmptySet DEF Of
  <2>2. QED BY <1>2, <1>3, <2>1, FS_EmptySet DEF PassesAre, Hooks
<1>9. QED BY <1>4, <1>5, <1>6, <1>7, <1>8 DEF LifeInv, Passes

\* The bootstrap: as long as it lasts, start() and stop() cannot be called.
LEMMA BootStep ==
  ASSUME LifeInv, CreateProvider \/ InitProvider \/ BootFails PROVE LifeInv'
<1> USE DEF LifeInv
<1>1. /\ boot \in {"creating", "initializing"} /\ boot' \in {"creating", "initializing", "ready", "failed"}
      /\ UNCHANGED <<started, phase, pos, orderly>>
      /\ \A s \in LifeCalls : phase[s] = "idle"
  BY DEF CreateProvider, InitProvider, BootFails, BootInv
<1>2. ran \in [Hooks -> [Providers -> Nat]] /\ bootPos \in DOMAIN Order BY DEF LifeTypeOK
<1>3. /\ ran' \in [Hooks -> [Providers -> Nat]]
      /\ \A h \in Running : ran'[h] = ran[h]
  <2>1. CASE InitProvider
    <3>1. ran' = [ran EXCEPT !["onInit"][Order[bootPos]] = @ + 1] BY <2>1 DEF InitProvider
    <3>2. Order[bootPos] \in Providers BY <1>2, OrderTypes
    <3>3. QED BY <1>2, <2>1, <3>1, <3>2 DEF Hooks, Running
  <2>2. CASE CreateProvider \/ BootFails
    BY <1>2, <2>2 DEF CreateProvider, BootFails
  <2>3. QED BY <2>1, <2>2
<1>4. bootPos' \in DOMAIN Order
  BY <1>2, OrderTypes DEF CreateProvider, InitProvider, BootFails
<1>5. LifeTypeOK' /\ (pos \in [LifeCalls -> Nat])'
  BY <1>1, <1>3, <1>4 DEF LifeTypeOK, Running
<1>6. BootInv'
  <2>1. /\ ~started' /\ \A s \in LifeCalls : phase'[s] = "idle"
        /\ \A h \in Running, p \in Providers : ran'[h][p] = 0
    BY <1>1, <1>3 DEF BootInv
  <2>2. CASE CreateProvider
    <3>1. boot = "creating" /\ ran' = ran BY <2>2 DEF CreateProvider
    <3>2. \A p \in Providers : ran["onInit"][p] = 0 BY <3>1 DEF BootInv
    <3>3. boot' = "creating" \/ (boot' = "initializing" /\ bootPos' = 1)
      BY <2>2, <3>1 DEF CreateProvider
    <3>4. \A p \in Providers : Times(p, Upto(1)) = 0 BY <1>2, TimesLoops
    <3>5. QED BY <2>1, <3>1, <3>2, <3>3, <3>4 DEF BootInv
  <2>3. CASE InitProvider
    <3>1. /\ boot = "initializing"
          /\ \/ bootPos < Len(Order) /\ bootPos' = bootPos + 1 /\ boot' = "initializing"
             \/ ~(bootPos < Len(Order)) /\ boot' = "ready"
      BY <2>3 DEF InitProvider
    <3>2. \A p \in Providers : ran'["onInit"][p] = ran["onInit"][p] + (IF Order[bootPos] = p THEN 1 ELSE 0)
      <4>1. ran' = [ran EXCEPT !["onInit"][Order[bootPos]] = @ + 1] BY <2>3 DEF InitProvider
      <4>2. Order[bootPos] \in Providers BY <1>2, OrderTypes
      <4>3. QED BY <1>2, <4>1, <4>2 DEF Hooks
    <3>3. \A p \in Providers : ran'["onInit"][p] = Times(p, Upto(bootPos + 1))
      <4>1. SUFFICES ASSUME NEW p \in Providers PROVE ran'["onInit"][p] = Times(p, Upto(bootPos + 1))
        OBVIOUS
      <4>2. ran["onInit"][p] = Times(p, Upto(bootPos)) BY <3>1 DEF BootInv
      <4>3. Times(p, Upto(bootPos + 1)) = Times(p, Upto(bootPos)) + (IF Order[bootPos] = p THEN 1 ELSE 0)
        BY <1>2, TimesLoops
      <4>4. QED BY <3>2, <4>2, <4>3
    <3>4. CASE bootPos < Len(Order) BY <2>1, <3>1, <3>3, <3>4 DEF BootInv
    <3>5. CASE ~(bootPos < Len(Order))
      <4>1. bootPos = Len(Order) BY <1>2, <3>5, OrderTypes
      <4>2. \A p \in Providers : Times(p, Upto(bootPos + 1)) = Listed(p)
        BY <1>2, <4>1, TimesLoops
      <4>3. boot' = "ready" BY <3>1, <3>5
      <4>4. QED BY <3>3, <4>2, <4>3 DEF BootInv
    <3>6. QED BY <3>4, <3>5
  <2>4. CASE BootFails BY <2>1, <2>4 DEF BootInv, BootFails
  <2>5. QED BY <2>2, <2>3, <2>4
<1>7. /\ ran'["onStart"] = ran["onStart"] /\ ran'["onStop"] = ran["onStop"]
      /\ ran'["onDestroy"] = ran["onDestroy"]
  BY <1>3 DEF Running
<1>8. StartInv' BY <1>1, <1>7 DEF StartInv
<1>9. TurnsInv' BY <1>1, <1>7 DEF TurnsInv
<1>10. Passes' BY <1>1, <1>7 DEF Passes, PassesAre
<1>11. QED BY <1>5, <1>6, <1>8, <1>9, <1>10

\* start() or stop() is called: it returns at once or awaits its first hook.
LEMMA CallStep ==
  ASSUME LifeInv, NEW s \in LifeCalls, Start(s) \/ Stop(s) PROVE LifeInv'
<1> USE DEF LifeInv
<1>1. /\ boot = "ready" /\ phase[s] = "idle"
      /\ orderly' = (orderly /\ ~Overlapping(s))
      /\ UNCHANGED <<boot, bootPos, started, ran>>
      /\ \/ phase' = [phase EXCEPT ![s] = "returned"] /\ pos' = pos
         \/ /\ phase' = [phase EXCEPT ![s] = "onStart"] /\ pos' = [pos EXCEPT ![s] = 1]
            /\ started = FALSE
         \/ /\ phase' = [phase EXCEPT ![s] = "onStop"] /\ pos' = [pos EXCEPT ![s] = Len(Order)]
            /\ started = TRUE
  BY DEF Start, Stop, LifeTypeOK
<1>2. /\ phase \in [LifeCalls -> {"idle"} \cup Running \cup Ended] /\ pos \in [LifeCalls -> Nat]
      /\ started \in BOOLEAN /\ orderly \in BOOLEAN
  BY DEF LifeTypeOK
<1>3. /\ Len(Order) \in DOMAIN Order /\ 1 \in DOMAIN Order
      /\ \A n \in DOMAIN Order : n \in Nat /\ n <= Len(Order) /\ n >= 1
  BY OrderTypes
<1>4. /\ \A t \in LifeCalls \ {s} : phase'[t] = phase[t] /\ pos'[t] = pos[t]
      /\ \/ phase'[s] = "returned"
         \/ phase'[s] = "onStart" /\ pos'[s] = 1 /\ started = FALSE
         \/ phase'[s] = "onStop" /\ pos'[s] = Len(Order) /\ started = TRUE
  BY <1>1, <1>2
<1>5. LifeTypeOK' /\ (pos \in [LifeCalls -> Nat])'
  <2>1. phase' \in [LifeCalls -> {"idle"} \cup Running \cup Ended] /\ pos' \in [LifeCalls -> Nat]
    BY <1>1, <1>2, <1>3 DEF Running, Ended
  <2>2. orderly' \in BOOLEAN BY <1>1, <1>2
  <2>3. \A t \in LifeCalls : phase'[t] \in Running => pos'[t] \in DOMAIN Order
    BY <1>3, <1>4 DEF LifeTypeOK, Running
  <2>4. QED BY <1>1, <2>1, <2>2, <2>3 DEF LifeTypeOK
<1>6. BootInv' BY <1>1 DEF BootInv
<1>7. StartInv'
  <2>1. (\E t \in LifeCalls : phase'[t] \in {"onStop", "onDestroy"}) =>
          started \/ \E t \in LifeCalls : phase[t] \in {"onStop", "onDestroy"}
    BY <1>4
  <2>2. \A t \in LifeCalls : phase'[t] = "onStart" =>
          \A n \in DOMAIN Order : n < pos'[t] => ran["onStart"][Order[n]] > 0
    BY <1>3, <1>4 DEF StartInv
  <2>3. QED BY <1>1, <2>1, <2>2 DEF StartInv
<1>8. Passes'
  <2>1. PICK S, D : PassesAre(S, D) BY DEF Passes
  <2>2. \A n \in DOMAIN Order : <<s, n>> \notin S /\ <<s, n>> \notin D
    BY <1>1, <2>1 DEF PassesAre
  <2>3. \A t \in LifeCalls, n \in DOMAIN Order :
          /\ <<t, n>> \in D => \A m \in DOMAIN Order : <<t, m>> \in S
          /\ phase'[t] \in {"idle", "onStart"} => <<t, n>> \notin S /\ <<t, n>> \notin D
          /\ phase'[t] = "onStop" => (<<t, n>> \in S <=> n > pos'[t]) /\ <<t, n>> \notin D
          /\ phase'[t] = "onDestroy" => <<t, n>> \in S /\ (<<t, n>> \in D <=> n > pos'[t])
    <3>1. SUFFICES ASSUME NEW t \in LifeCalls, NEW n \in DOMAIN Order
                   PROVE  /\ <<t, n>> \in D => \A m \in DOMAIN Order : <<t, m>> \in S
                          /\ phase'[t] \in {"idle", "onStart"} => <<t, n>> \notin S /\ <<t, n>> \notin D
                          /\ phase'[t] = "onStop" =>
                               (<<t, n>> \in S <=> n > pos'[t]) /\ <<t, n>> \notin D
                          /\ phase'[t] = "onDestroy" =>
                               <<t, n>> \in S /\ (<<t, n>> \in D <=> n > pos'[t])
      OBVIOUS
    <3>2. CASE t = s BY <1>3, <1>4, <2>2, <3>2
    <3>3. CASE t # s BY <1>4, <2>1, <3>3 DEF PassesAre
    <3>4. QED BY <3>2, <3>3
  <2>4. PassesAre(S, D)' BY <1>1, <2>1, <2>3 DEF PassesAre
  <2>5. QED BY <2>4 DEF Passes
<1>9. TurnsInv'
  <2>1. SUFFICES ASSUME orderly' PROVE TurnsInv' BY DEF TurnsInv
  <2>2. /\ orderly /\ \A t \in LifeCalls : phase[t] \notin Running
    BY <1>1, <2>1 DEF Overlapping, Running
  <2>3. \A p \in Providers :
          /\ ran["onDestroy"][p] = ran["onStop"][p]
          /\ ran["onStart"][p] = ran["onStop"][p] + (IF started THEN Listed(p) ELSE 0)
    BY <2>2 DEF TurnsInv
  <2>4. \A t \in LifeCalls : phase'[t] \in Running => t = s BY <1>4, <2>2
  <2>5. \A p \in Providers :
          /\ Times(p, Upto(1)) = 0 /\ Times(p, Beyond(Len(Order))) = 0
          /\ ran["onStop"][p] \in Nat
    BY <1>3, TimesLoops DEF LifeTypeOK, Hooks
  <2>6. ASSUME NEW t \in LifeCalls, NEW p \in Providers
        PROVE  /\ phase'[t] = "onStart" =>
                    /\ ~started /\ ran["onDestroy"][p] = ran["onStop"][p]
                    /\ ran["onStart"][p] = ran["onStop"][p] + Times(p, Upto(pos'[t]))
               /\ phase'[t] = "onStop" =>
                    /\ started /\ ran["onStart"][p] = ran["onDestroy"][p] + Listed(p)
                    /\ ran["onStop"][p] = ran["onDestroy"][p] + Times(p, Beyond(pos'[t]))
               /\ phase'[t] # "onDestroy"
    <3>1. CASE t = s BY <1>4, <2>3, <2>5, <3>1
    <3>2. CASE t # s BY <2>4, <3>2 DEF Running
    <3>3. QED BY <3>1, <3>2
  <2>7. QED BY <1>1, <2>3, <2>4, <2>6 DEF TurnsInv
<1>10. QED BY <1>5, <1>6, <1>7, <1>8, <1>9

\* The hook a call awaits has fulfilled.
LEMMA RanFacts ==
  ASSUME LifeInv, NEW s \in LifeCalls, phase[s] \in Running, Ran(s)
  PROVE  /\ boot = "ready" /\ pos[s] \in DOMAIN Order
         /\ ran \in [Hooks -> [Providers -> Nat]] /\ ran' \in [Hooks -> [Providers -> Nat]]
         /\ \A h \in Hooks \ {phase[s]} : ran'[h] = ran[h]
         /\ \A p \in Providers : ran'[phase[s]][p] =
              ran[phase[s]][p] + (IF Order[pos[s]] = p THEN 1 ELSE 0)
<1>1. /\ ran \in [Hooks -> [Providers -> Nat]] /\ pos[s] \in DOMAIN Order
  BY DEF LifeInv, LifeTypeOK
<1>2. Order[pos[s]] \in Providers /\ phase[s] \in Hooks BY <1>1, OrderTypes DEF Hooks, Running
<1>3. ran' = [ran EXCEPT ![phase[s]][Order[pos[s]]] = @ + 1] BY DEF Ran
<1>4. boot = "ready" BY DEF LifeInv, BootInv, Running
<1>5. QED BY <1>1, <1>2, <1>3, <1>4

\* Initialization is over and its counts stay.
LEMMA BootKept ==
  ASSUME LifeInv, boot = "ready", boot' = boot, ran'["onInit"] = ran["onInit"]
  PROVE  BootInv'
BY DEF LifeInv, BootInv

\* onStart of one provider, which is not counted among the passes.
LEMMA StartedStep == ASSUME LifeInv, NEW s \in LifeCalls, StartedOne(s) PROVE LifeInv'
<1> USE DEF LifeInv
<1> DEFINE k == pos[s]
<1>1. /\ phase[s] = "onStart" /\ Ran(s)
      /\ UNCHANGED <<boot, bootPos, orderly>>
      /\ \/ k < Len(Order) /\ pos' = [pos EXCEPT ![s] = k + 1] /\ UNCHANGED <<phase, started>>
         \/ /\ ~(k < Len(Order)) /\ started' = TRUE
            /\ phase' = [phase EXCEPT ![s] = "returned"] /\ pos' = pos
  BY DEF StartedOne
<1>2. /\ boot = "ready" /\ k \in DOMAIN Order
      /\ ran \in [Hooks -> [Providers -> Nat]] /\ ran' \in [Hooks -> [Providers -> Nat]]
      /\ ran'["onInit"] = ran["onInit"] /\ ran'["onStop"] = ran["onStop"]
      /\ ran'["onDestroy"] = ran["onDestroy"]
      /\ \A p \in Providers :
           ran'["onStart"][p] = ran["onStart"][p] + (IF Order[k] = p THEN 1 ELSE 0)
  <2>1. phase[s] \in Running BY <1>1 DEF Running
  <2>2. QED BY <1>1, <2>1, RanFacts DEF Hooks
<1>3. /\ phase \in [LifeCalls -> {"idle"} \cup Running \cup Ended] /\ pos \in [LifeCalls -> Nat]
  BY DEF LifeTypeOK
<1>4. /\ k \in Nat /\ k >= 1 /\ k <= Len(Order) /\ Len(Order) \in Nat
      /\ \A n \in Nat : n \in DOMAIN Order <=> 1 <= n /\ n <= Len(Order)
      /\ \A n \in DOMAIN Order : n \in Nat
  BY <1>2, OrderTypes
<1>5. /\ \A t \in LifeCalls \ {s} : phase'[t] = phase[t] /\ pos'[t] = pos[t]
      /\ \/ k < Len(Order) /\ phase'[s] = "onStart" /\ pos'[s] = k + 1 /\ started' = started
         \/ k = Len(Order) /\ phase'[s] = "returned" /\ started' = TRUE
  BY <1>1, <1>3, <1>4
<1> HIDE DEF k
<1>6. LifeTypeOK' /\ (pos \in [LifeCalls -> Nat])'
  <2>1. phase' \in [LifeCalls -> {"idle"} \cup Running \cup Ended] /\ pos' \in [LifeCalls -> Nat]
    BY <1>1, <1>3, <1>4 DEF Ended
  <2>2. \A t \in LifeCalls : phase'[t] \in Running => pos'[t] \in DOMAIN Order
    <3>1. phase'[s] \in Running => pos'[s] \in DOMAIN Order BY <1>4, <1>5 DEF Running
    <3>2. \A t \in LifeCalls \ {s} : phase'[t] \in Running => pos'[t] \in DOMAIN Order
      BY <1>5 DEF LifeTypeOK
    <3>3. QED BY <3>1, <3>2
  <2>3. QED BY <1>1, <1>2, <2>1, <2>2 DEF LifeTypeOK
<1>7. BootInv' BY <1>1, <1>2, BootKept
<1>8. StartInv'
  <2>1. \A p \in Providers : /\ ran["onStart"][p] \in Nat /\ ran'["onStart"][p] \in Nat
                              /\ ran'["onStart"][p] >= ran["onStart"][p]
    BY <1>2 DEF Hooks
  <2>2. \A n \in DOMAIN Order : n <= k => ran'["onStart"][Order[n]] > 0
    <3>1. SUFFICES ASSUME NEW n \in DOMAIN Order, n <= k PROVE ran'["onStart"][Order[n]] > 0
      OBVIOUS
    <3>2. Order[n] \in Providers BY OrderTypes
    <3>3. CASE n = k BY <1>2, <2>1, <3>2, <3>3
    <3>4. CASE n < k
      <4>1. ran["onStart"][Order[n]] > 0 BY <1>1, <3>4 DEF StartInv, k
      <4>2. QED BY <2>1, <3>2, <4>1
    <3>5. QED BY <1>4, <3>1, <3>3, <3>4
  <2>3. \A t \in LifeCalls : phase'[t] = "onStart" =>
          \A n \in DOMAIN Order : n < pos'[t] => ran'["onStart"][Order[n]] > 0
    <3>1. SUFFICES ASSUME NEW t \in LifeCalls, phase'[t] = "onStart",
                          NEW n \in DOMAIN Order, n < pos'[t]
                   PROVE  ran'["onStart"][Order[n]] > 0
      OBVIOUS
    <3>2. CASE t = s
      <4>1. pos'[s] = k + 1 BY <1>5, <3>1, <3>2
      <4>2. n \in Nat /\ n < k + 1 BY <1>4, <3>1, <3>2, <4>1
      <4>3. n <= k BY <1>4, <4>2
      <4>4. QED BY <2>2, <4>3
    <3>3. CASE t # s
      <4>1. ran["onStart"][Order[n]] > 0 BY <1>5, <3>1, <3>3 DEF StartInv
      <4>2. Order[n] \in Providers BY OrderTypes
      <4>3. QED BY <2>1, <4>1, <4>2
    <3>4. QED BY <3>2, <3>3
  <2>4. ASSUME \/ started'
               \/ \E t \in LifeCalls : phase'[t] \in {"onStop", "onDestroy"}
               \/ \E p \in Providers : ran'["onStop"][p] > 0,
               NEW q \in Providers
        PROVE  ran'["onStart"][q] > 0
    <3>1. CASE k = Len(Order)
      <4>1. PICK n \in DOMAIN Order : Order[n] = q BY OrderTypes
      <4>2. n <= k BY <1>4, <3>1
      <4>3. QED BY <2>2, <4>1, <4>2
    <3>2. CASE k < Len(Order)
      <4>1. \/ started
            \/ \E t \in LifeCalls : phase[t] \in {"onStop", "onDestroy"}
            \/ \E p \in Providers : ran["onStop"][p] > 0
        <5>1. started' = started /\ phase'[s] = "onStart" BY <1>4, <1>5, <3>2
        <5>2. \A t \in LifeCalls : phase'[t] \in {"onStop", "onDestroy"} => phase[t] = phase'[t]
          BY <1>5, <5>1
        <5>3. QED BY <1>2, <2>4, <5>1, <5>2
      <4>2. ran["onStart"][q] > 0 BY <4>1 DEF StartInv
      <4>3. QED BY <2>1, <4>2
    <3>3. QED BY <1>5, <3>1, <3>2
  <2>5. QED BY <2>3, <2>4 DEF StartInv
<1>9. Passes'
  <2>1. PICK S, D : PassesAre(S, D) BY DEF Passes
  <2>2. PassesAre(S, D)'
    <3>1. \A n \in DOMAIN Order : <<s, n>> \notin S /\ <<s, n>> \notin D
      BY <1>1, <2>1 DEF PassesAre
    <3>2. QED BY <1>2, <1>5, <2>1, <3>1 DEF PassesAre
  <2>3. QED BY <2>2 DEF Passes
<1>10. TurnsInv'
  <2>1. SUFFICES ASSUME orderly' PROVE TurnsInv' BY DEF TurnsInv
  <2>2. /\ ~started
        /\ \A p \in Providers :
             /\ ran["onDestroy"][p] = ran["onStop"][p]
             /\ ran["onStart"][p] = ran["onStop"][p] + Times(p, Upto(k))
        /\ \A t \in LifeCalls : phase[t] \in Running => t = s
    <3>1. orderly BY <1>1, <2>1
    <3>2. \A t \in LifeCalls : phase[t] \in Running => t = s BY <1>1, <3>1 DEF TurnsInv, Running
    <3>3. \A p \in Providers :
            /\ ~started /\ ran["onDestroy"][p] = ran["onStop"][p]
            /\ ran["onStart"][p] = ran["onStop"][p] + Times(p, Upto(k))
      BY <1>1, <3>1 DEF TurnsInv, k
    <3>4. ~started
      <4>1. 1 \in DOMAIN Order BY <1>4
      <4>2. Order[1] \in Providers BY <4>1, OrderTypes
      <4>3. QED BY <3>3, <4>2
    <3>5. QED BY <3>2, <3>3, <3>4
  <2>3. \A t \in LifeCalls : phase'[t] \in Running => t = s BY <1>5, <2>2
  <2>4. ASSUME NEW p \in Providers
        PROVE  /\ ran'["onDestroy"][p] = ran'["onStop"][p]
               /\ ran'["onStart"][p] = ran'["onStop"][p] + Times(p, Upto(k + 1))
               /\ k = Len(Order) => Times(p, Upto(k + 1)) = Listed(p)
    <3>1. /\ Times(p, Upto(k)) \in Nat
          /\ Times(p, Upto(k + 1)) = Times(p, Upto(k)) + (IF Order[k] = p THEN 1 ELSE 0)
          /\ Times(p, Upto(Len(Order) + 1)) = Listed(p)
      BY <1>2, TimesLoops
    <3>2. ran["onStop"][p] \in Nat /\ ran["onStart"][p] \in Nat BY <1>2 DEF Hooks
    <3>3. (IF Order[k] = p THEN 1 ELSE 0) \in Nat OBVIOUS
    <3>4. ran["onStart"][p] = ran["onStop"][p] + Times(p, Upto(k)) BY <2>2
    <3>5. ran'["onStart"][p] = ran["onStart"][p] + (IF Order[k] = p THEN 1 ELSE 0) BY <1>2
    <3>6. ran'["onStart"][p] = ran["onStop"][p] + Times(p, Upto(k + 1))
      BY <3>1, <3>2, <3>3, <3>4, <3>5
    <3>7. QED BY <1>2, <2>2, <3>1, <3>6
  <2>5. CASE k = Len(Order) /\ phase'[s] = "returned" /\ started' = TRUE
    BY <2>3, <2>4, <2>5 DEF TurnsInv, Running
  <2>6. CASE k < Len(Order) /\ phase'[s] = "onStart" /\ pos'[s] = k + 1 /\ started' = started
    <3>1. \A t \in LifeCalls, p \in Providers :
            /\ phase'[t] \in Running => t = s
            /\ t = s => /\ ~started' /\ ran'["onDestroy"][p] = ran'["onStop"][p]
                        /\ ran'["onStart"][p] = ran'["onStop"][p] + Times(p, Upto(pos'[t]))
      BY <2>2, <2>3, <2>4, <2>6
    <3>2. QED BY <2>3, <2>6, <3>1 DEF TurnsInv, Running
  <2>7. QED BY <1>5, <2>5, <2>6
<1>11. QED BY <1>6, <1>7, <1>8, <1>9, <1>10

\* onStop of one provider: a pass more.  The last one makes way for onDestroy,
\* of which the call has none yet.
LEMMA StoppedStep == ASSUME LifeInv, NEW s \in LifeCalls, StoppedOne(s) PROVE LifeInv'
<1> USE DEF LifeInv
<1> DEFINE k == pos[s]
           j == IF k > 1 THEN k - 1 ELSE Len(Order)
<1>1. /\ phase[s] = "onStop" /\ Ran(s)
      /\ UNCHANGED <<boot, bootPos, orderly, started>>
      /\ pos' = [pos EXCEPT ![s] = j]
      /\ phase' = IF k > 1 THEN phase ELSE [phase EXCEPT ![s] = "onDestroy"]
  BY DEF StoppedOne
<1>2. /\ boot = "ready" /\ k \in DOMAIN Order
      /\ ran \in [Hooks -> [Providers -> Nat]] /\ ran' \in [Hooks -> [Providers -> Nat]]
      /\ ran'["onInit"] = ran["onInit"] /\ ran'["onStart"] = ran["onStart"]
      /\ ran'["onDestroy"] = ran["onDestroy"]
      /\ \A p \in Providers :
           ran'["onStop"][p] = ran["onStop"][p] + (IF Order[k] = p THEN 1 ELSE 0)
  <2>1. phase[s] \in Running BY <1>1 DEF Running
  <2>2. QED BY <1>1, <2>1, RanFacts DEF Hooks
<1>3. /\ phase \in [LifeCalls -> {"idle"} \cup Running \cup Ended] /\ pos \in [LifeCalls -> Nat]
  BY DEF LifeTypeOK
<1>4. /\ k \in Nat /\ k >= 1 /\ k <= Len(Order) /\ Len(Order) \in Nat
      /\ \A n \in Nat : n \in DOMAIN Order <=> 1 <= n /\ n <= Len(Order)
      /\ \A n \in DOMAIN Order : n \in Nat
  BY <1>2, OrderTypes
<1>5. /\ \A t \in LifeCalls \ {s} : phase'[t] = phase[t] /\ pos'[t] = pos[t]
      /\ \/ k > 1 /\ phase'[s] = "onStop" /\ pos'[s] = k - 1
         \/ k = 1 /\ phase'[s] = "onDestroy" /\ pos'[s] = Len(Order)
      /\ j \in DOMAIN Order /\ j \in Nat
  BY <1>1, <1>3, <1>4
<1> HIDE DEF k, j
<1>6. LifeTypeOK' /\ (pos \in [LifeCalls -> Nat])'
  <2>1. phase' \in [LifeCalls -> {"idle"} \cup Running \cup Ended] /\ pos' \in [LifeCalls -> Nat]
    BY <1>1, <1>3, <1>5 DEF Running
  <2>2. \A t \in LifeCalls : phase'[t] \in Running => pos'[t] \in DOMAIN Order
    <3>1. pos'[s] \in DOMAIN Order BY <1>1, <1>3, <1>5
    <3>2. \A t \in LifeCalls \ {s} : phase'[t] \in Running => pos'[t] \in DOMAIN Order
      BY <1>5 DEF LifeTypeOK
    <3>3. QED BY <3>1, <3>2
  <2>3. QED BY <1>1, <1>2, <2>1, <2>2 DEF LifeTypeOK
<1>7. BootInv' BY <1>1, <1>2, BootKept
<1>8. StartInv'
  <2>1. \A q \in Providers : ran["onStart"][q] > 0 BY <1>1 DEF StartInv
  <2>2. \A n \in DOMAIN Order : Order[n] \in Providers BY OrderTypes
  <2>3. QED BY <1>2, <2>1, <2>2 DEF StartInv
<1>9. Passes'
  <2>1. PICK S, D : PassesAre(S, D) BY DEF Passes
  <2> DEFINE x == <<s, k>>
  <2>2. PICK T : T = S \cup {x} OBVIOUS
  <2>3. /\ S \in SUBSET (LifeCalls \X DOMAIN Order) /\ IsFiniteSet(S)
        /\ D \in SUBSET (LifeCalls \X DOMAIN Order) /\ IsFiniteSet(D)
        /\ \A p \in Providers : ran["onStop"][p] = Of(S, p) /\ ran["onDestroy"][p] = Of(D, p)
    BY <2>1 DEF PassesAre
  <2>4. \A n \in DOMAIN Order : (<<s, n>> \in S <=> n > k) /\ <<s, n>> \notin D
    BY <1>1, <2>1 DEF PassesAre, k
  <2>5. x \notin S /\ x[2] = k /\ x \in LifeCalls \X DOMAIN Order BY <1>2, <1>4, <2>4
  <2>6. /\ IsFiniteSet(T) /\ T \in SUBSET (LifeCalls \X DOMAIN Order)
        /\ \A p : Of(T, p) = Of(S, p) + (IF Order[k] = p THEN 1 ELSE 0)
    <3> HIDE DEF x
    <3>1. ASSUME NEW p
          PROVE  IsFiniteSet(T) /\ Of(T, p) = Of(S, p) + (IF Order[x[2]] = p THEN 1 ELSE 0)
      <4>1. IsFiniteSet(S) /\ x \notin S BY <2>3, <2>5
      <4>2. QED BY <2>2, <4>1, OfOne
    <3>2. QED BY <2>3, <2>5, <2>2, <3>1
  <2>7. \A n \in DOMAIN Order : <<s, n>> \in T <=> n >= k
    <3>1. SUFFICES ASSUME NEW n \in DOMAIN Order PROVE <<s, n>> \in T <=> n >= k OBVIOUS
    <3>2. <<s, n>> \in T <=> n > k \/ n = k BY <2>4, <2>2
    <3>3. QED BY <1>4, <3>2
  <2>8. \A t \in LifeCalls \ {s}, n \in DOMAIN Order : <<t, n>> \in T <=> <<t, n>> \in S
    BY <2>2
  <2> HIDE DEF x
  <2>9. ASSUME NEW t \in LifeCalls, NEW n \in DOMAIN Order
        PROVE  /\ <<t, n>> \in D => \A m \in DOMAIN Order : <<t, m>> \in T
               /\ phase'[t] \in {"idle", "onStart"} => <<t, n>> \notin T /\ <<t, n>> \notin D
               /\ phase'[t] = "onStop" => (<<t, n>> \in T <=> n > pos'[t]) /\ <<t, n>> \notin D
               /\ phase'[t] = "onDestroy" => <<t, n>> \in T /\ (<<t, n>> \in D <=> n > pos'[t])
    <3>1. CASE t = s
      <4>1. <<t, n>> \notin D BY <2>4, <3>1
      <4>2. CASE k > 1 /\ phase'[s] = "onStop" /\ pos'[s] = k - 1
        <5>1. n >= k <=> n > k - 1 BY <1>4
        <5>2. QED BY <2>7, <3>1, <4>1, <4>2, <5>1
      <4>3. CASE k = 1 /\ phase'[s] = "onDestroy" /\ pos'[s] = Len(Order)
        <5>1. n >= k /\ ~(n > Len(Order)) BY <1>4, <4>3
        <5>2. QED BY <2>7, <3>1, <4>1, <4>3, <5>1
      <4>4. QED BY <1>5, <4>2, <4>3
    <3>2. CASE t # s BY <1>5, <2>1, <2>8, <3>2 DEF PassesAre
    <3>3. QED BY <3>1, <3>2
  <2>10. \A p \in Providers : ran'["onStop"][p] = Of(T, p) /\ ran'["onDestroy"][p] = Of(D, p)
    BY <1>2, <2>3, <2>6
  <2>11. PassesAre(T, D)' BY <2>3, <2>6, <2>9, <2>10 DEF PassesAre
  <2>12. QED BY <2>11 DEF Passes
<1>10. TurnsInv'
  <2>1. SUFFICES ASSUME orderly' PROVE TurnsInv' BY DEF TurnsInv
  <2>2. orderly /\ phase[s] = "onStop" BY <1>1, <2>1
  <2>3. \A t \in LifeCalls : phase[t] \in Running => t = s BY <2>2 DEF TurnsInv, Running
  <2>4. \A p \in Providers :
          /\ started /\ ran["onStart"][p] = ran["onDestroy"][p] + Listed(p)
          /\ ran["onStop"][p] = ran["onDestroy"][p] + Times(p, Beyond(k))
    BY <2>2 DEF TurnsInv, k
  <2>5. started
    <3>1. k \in DOMAIN Order => Order[k] \in Providers BY OrderTypes
    <3>2. QED BY <1>2, <2>4, <3>1
  <2>6. \A t \in LifeCalls : phase'[t] \in Running => t = s BY <1>5, <2>3
  <2>7. ASSUME NEW p \in Providers
        PROVE  /\ ran'["onStart"][p] = ran'["onDestroy"][p] + Listed(p)
               /\ ran'["onStop"][p] = ran'["onDestroy"][p] + Times(p, Beyond(k - 1))
               /\ Times(p, Beyond(0)) = Listed(p) /\ Times(p, Beyond(Len(Order))) = 0
               /\ ran'["onStop"][p] \in Nat
    <3>1. /\ Times(p, Beyond(k)) \in Nat
          /\ Times(p, Beyond(k - 1)) = Times(p, Beyond(k)) + (IF Order[k] = p THEN 1 ELSE 0)
          /\ Times(p, Beyond(0)) = Listed(p) /\ Times(p, Beyond(Len(Order))) = 0
      BY <1>2, TimesLoops
    <3>2. /\ ran["onStop"][p] \in Nat /\ ran["onDestroy"][p] \in Nat /\ ran'["onStop"][p] \in Nat
      BY <1>2 DEF Hooks
    <3> DEFINE one == IF Order[k] = p THEN 1 ELSE 0
    <3>3. one \in Nat /\ Times(p, Beyond(k - 1)) = Times(p, Beyond(k)) + one BY <3>1
    <3>4. ran["onStop"][p] = ran["onDestroy"][p] + Times(p, Beyond(k)) BY <2>4
    <3>5. ran'["onStop"][p] = ran["onStop"][p] + one BY <1>2
    <3> HIDE DEF one
    <3> DEFINE before == Times(p, Beyond(k))
               after == Times(p, Beyond(k - 1))
    <3>6. before \in Nat BY <3>1
    <3>7. after = before + one BY <3>3
    <3>8. ran["onStop"][p] = ran["onDestroy"][p] + before BY <3>4
    <3> HIDE DEF before, after
    <3>9. ran'["onStop"][p] = ran["onDestroy"][p] + after
      BY <3>2, <3>3, <3>5, <3>6, <3>7, <3>8
    <3>10. ran'["onStop"][p] = ran["onDestroy"][p] + Times(p, Beyond(k - 1))
      BY <3>9 DEF after
    <3>11. QED BY <1>2, <2>4, <3>1, <3>2, <3>10
  <2>8. ASSUME NEW p \in Providers
        PROVE  \/ /\ phase'[s] = "onStop"
                  /\ ran'["onStop"][p] = ran'["onDestroy"][p] + Times(p, Beyond(pos'[s]))
               \/ /\ phase'[s] = "onDestroy"
                  /\ ran'["onStart"][p] = ran'["onStop"][p]
                  /\ ran'["onStop"][p] + Times(p, Beyond(pos'[s])) = ran'["onDestroy"][p] + Listed(p)
    <3>1. CASE k > 1 /\ phase'[s] = "onStop" /\ pos'[s] = k - 1 BY <2>7, <3>1
    <3>2. CASE k = 1 /\ phase'[s] = "onDestroy" /\ pos'[s] = Len(Order)
      <4>1. k - 1 = 0 BY <3>2
      <4>2. ran'["onStop"][p] = ran'["onDestroy"][p] + Listed(p) BY <2>7, <4>1
      <4>3. QED BY <2>7, <3>2, <4>2
    <3>3. QED BY <1>5, <3>1, <3>2
  <2>9. phase'[s] \in {"onStop", "onDestroy"} BY <1>5
  <2>10. started' BY <1>1, <2>5
  <2>11. QED BY <2>6, <2>7, <2>8, <2>9, <2>10 DEF TurnsInv, Running
<1>11. QED BY <1>6, <1>7, <1>8, <1>9, <1>10

\* onDestroy of one provider, by a call that has stopped them all.
LEMMA DestroyedStep == ASSUME LifeInv, NEW s \in LifeCalls, DestroyedOne(s) PROVE LifeInv'
<1> USE DEF LifeInv
<1> DEFINE k == pos[s]
<1>1. /\ phase[s] = "onDestroy" /\ Ran(s)
      /\ UNCHANGED <<boot, bootPos, orderly>>
      /\ \/ k > 1 /\ pos' = [pos EXCEPT ![s] = k - 1] /\ UNCHANGED <<phase, started>>
         \/ /\ ~(k > 1) /\ started' = FALSE
            /\ phase' = [phase EXCEPT ![s] = "returned"] /\ pos' = pos
  BY DEF DestroyedOne
<1>2. /\ boot = "ready" /\ k \in DOMAIN Order
      /\ ran \in [Hooks -> [Providers -> Nat]] /\ ran' \in [Hooks -> [Providers -> Nat]]
      /\ ran'["onInit"] = ran["onInit"] /\ ran'["onStart"] = ran["onStart"]
      /\ ran'["onStop"] = ran["onStop"]
      /\ \A p \in Providers :
           ran'["onDestroy"][p] = ran["onDestroy"][p] + (IF Order[k] = p THEN 1 ELSE 0)
  <2>1. phase[s] \in Running BY <1>1 DEF Running
  <2>2. QED BY <1>1, <2>1, RanFacts DEF Hooks
<1>3. /\ phase \in [LifeCalls -> {"idle"} \cup Running \cup Ended] /\ pos \in [LifeCalls -> Nat]
      /\ started \in BOOLEAN
  BY DEF LifeTypeOK
<1>4. /\ k \in Nat /\ k >= 1 /\ k <= Len(Order) /\ Len(Order) \in Nat
      /\ \A n \in Nat : n \in DOMAIN Order <=> 1 <= n /\ n <= Len(Order)
      /\ \A n \in DOMAIN Order : n \in Nat
  BY <1>2, OrderTypes
<1>5. /\ \A t \in LifeCalls \ {s} : phase'[t] = phase[t] /\ pos'[t] = pos[t]
      /\ \/ k > 1 /\ phase'[s] = "onDestroy" /\ pos'[s] = k - 1 /\ started' = started
         \/ k = 1 /\ phase'[s] = "returned" /\ started' = FALSE
  BY <1>1, <1>3, <1>4
<1> HIDE DEF k
<1>6. LifeTypeOK' /\ (pos \in [LifeCalls -> Nat])'
  <2>1. phase' \in [LifeCalls -> {"idle"} \cup Running \cup Ended] /\ pos' \in [LifeCalls -> Nat]
    BY <1>1, <1>3, <1>4 DEF Ended
  <2>2. \A t \in LifeCalls : phase'[t] \in Running => pos'[t] \in DOMAIN Order
    <3>1. phase'[s] \in Running => pos'[s] \in DOMAIN Order BY <1>4, <1>5 DEF Running
    <3>2. \A t \in LifeCalls \ {s} : phase'[t] \in Running => pos'[t] \in DOMAIN Order
      BY <1>5 DEF LifeTypeOK
    <3>3. QED BY <3>1, <3>2
  <2>3. started' \in BOOLEAN BY <1>3, <1>5
  <2>4. QED BY <1>1, <1>2, <2>1, <2>2, <2>3 DEF LifeTypeOK
<1>7. BootInv' BY <1>1, <1>2, BootKept
<1>8. StartInv'
  <2>1. \A q \in Providers : ran["onStart"][q] > 0 BY <1>1 DEF StartInv
  <2>2. \A n \in DOMAIN Order : Order[n] \in Providers BY OrderTypes
  <2>3. QED BY <1>2, <2>1, <2>2 DEF StartInv
<1>9. Passes'
  <2>1. PICK S, D : PassesAre(S, D) BY DEF Passes
  <2> DEFINE x == <<s, k>>
  <2>2. PICK T : T = D \cup {x} OBVIOUS
  <2>3. /\ S \in SUBSET (LifeCalls \X DOMAIN Order) /\ IsFiniteSet(S)
        /\ D \in SUBSET (LifeCalls \X DOMAIN Order) /\ IsFiniteSet(D)
        /\ \A p \in Providers : ran["onStop"][p] = Of(S, p) /\ ran["onDestroy"][p] = Of(D, p)
    BY <2>1 DEF PassesAre
  <2>4. \A n \in DOMAIN Order : <<s, n>> \in S /\ (<<s, n>> \in D <=> n > k)
    BY <1>1, <2>1 DEF PassesAre, k
  <2>5. x \notin D /\ x[2] = k /\ x \in LifeCalls \X DOMAIN Order BY <1>2, <1>4, <2>4
  <2>6. /\ IsFiniteSet(T) /\ T \in SUBSET (LifeCalls \X DOMAIN Order)
        /\ \A p : Of(T, p) = Of(D, p) + (IF Order[k] = p THEN 1 ELSE 0)
    <3> HIDE DEF x
    <3>1. ASSUME NEW p
          PROVE  IsFiniteSet(T) /\ Of(T, p) = Of(D, p) + (IF Order[x[2]] = p THEN 1 ELSE 0)
      <4>1. IsFiniteSet(D) /\ x \notin D BY <2>3, <2>5
      <4>2. QED BY <2>2, <4>1, OfOne
    <3>2. QED BY <2>3, <2>5, <2>2, <3>1
  <2>7. \A n \in DOMAIN Order : <<s, n>> \in T <=> n >= k
    <3>1. SUFFICES ASSUME NEW n \in DOMAIN Order PROVE <<s, n>> \in T <=> n >= k OBVIOUS
    <3>2. <<s, n>> \in T <=> n > k \/ n = k BY <2>4, <2>2
    <3>3. QED BY <1>4, <3>2
  <2>8. \A t \in LifeCalls \ {s}, n \in DOMAIN Order : <<t, n>> \in T <=> <<t, n>> \in D
    BY <2>2
  <2> HIDE DEF x
  <2>9. ASSUME NEW t \in LifeCalls, NEW n \in DOMAIN Order
        PROVE  /\ <<t, n>> \in T => \A m \in DOMAIN Order : <<t, m>> \in S
               /\ phase'[t] \in {"idle", "onStart"} => <<t, n>> \notin S /\ <<t, n>> \notin T
               /\ phase'[t] = "onStop" => (<<t, n>> \in S <=> n > pos'[t]) /\ <<t, n>> \notin T
               /\ phase'[t] = "onDestroy" => <<t, n>> \in S /\ (<<t, n>> \in T <=> n > pos'[t])
    <3>1. CASE t = s
      <4>1. n >= k <=> n > k - 1 BY <1>4
      <4>2. QED BY <1>5, <2>4, <2>7, <3>1, <4>1
    <3>2. CASE t # s BY <1>5, <2>1, <2>8, <3>2 DEF PassesAre
    <3>3. QED BY <3>1, <3>2
  <2>10. \A p \in Providers : ran'["onStop"][p] = Of(S, p) /\ ran'["onDestroy"][p] = Of(T, p)
    BY <1>2, <2>3, <2>6
  <2>11. PassesAre(S, T)' BY <2>3, <2>6, <2>9, <2>10 DEF PassesAre
  <2>12. QED BY <2>11 DEF Passes
<1>10. TurnsInv'
  <2>1. SUFFICES ASSUME orderly' PROVE TurnsInv' BY DEF TurnsInv
  <2>2. orderly /\ phase[s] = "onDestroy" BY <1>1, <2>1
  <2>3. \A t \in LifeCalls : phase[t] \in Running => t = s BY <2>2 DEF TurnsInv, Running
  <2>4. \A p \in Providers :
          /\ started /\ ran["onStart"][p] = ran["onStop"][p]
          /\ ran["onStop"][p] + Times(p, Beyond(k)) = ran["onDestroy"][p] + Listed(p)
    BY <2>2 DEF TurnsInv, k
  <2>5. started
    <3>1. k \in DOMAIN Order => Order[k] \in Providers BY OrderTypes
    <3>2. QED BY <1>2, <2>4, <3>1
  <2>6. \A t \in LifeCalls : phase'[t] \in Running => t = s BY <1>5, <2>3
  <2>7. ASSUME NEW p \in Providers
        PROVE  /\ ran'["onStart"][p] = ran'["onStop"][p]
               /\ ran'["onStop"][p] + Times(p, Beyond(k - 1)) = ran'["onDestroy"][p] + Listed(p)
               /\ Times(p, Beyond(0)) = Listed(p)
               /\ ran'["onStop"][p] \in Nat /\ ran'["onDestroy"][p] \in Nat /\ Listed(p) \in Nat
    <3>1. /\ Times(p, Beyond(k)) \in Nat /\ Listed(p) \in Nat
          /\ Times(p, Beyond(k - 1)) = Times(p, Beyond(k)) + (IF Order[k] = p THEN 1 ELSE 0)
          /\ Times(p, Beyond(0)) = Listed(p)
      BY <1>2, TimesLoops
    <3>2. /\ ran["onStop"][p] \in Nat /\ ran["onDestroy"][p] \in Nat
          /\ ran'["onStop"][p] \in Nat /\ ran'["onDestroy"][p] \in Nat
      BY <1>2 DEF Hooks
    <3>3. (IF Order[k] = p THEN 1 ELSE 0) \in Nat OBVIOUS
    <3>4. ran["onStop"][p] + Times(p, Beyond(k)) = ran["onDestroy"][p] + Listed(p) BY <2>4
    <3>5. ran'["onDestroy"][p] = ran["onDestroy"][p] + (IF Order[k] = p THEN 1 ELSE 0) BY <1>2
    <3>6. ran["onStop"][p] + Times(p, Beyond(k - 1)) = ran'["onDestroy"][p] + Listed(p)
      BY <3>1, <3>2, <3>3, <3>4, <3>5
    <3>7. QED BY <1>2, <2>4, <3>1, <3>2, <3>6
  <2>8. CASE k > 1 /\ phase'[s] = "onDestroy" /\ pos'[s] = k - 1 /\ started' = started
    <3>1. started' BY <2>5, <2>8
    <3>2. QED BY <2>6, <2>7, <2>8, <3>1 DEF TurnsInv, Running
  <2>9. CASE k = 1 /\ phase'[s] = "returned" /\ started' = FALSE
    <3>1. k - 1 = 0 BY <2>9
    <3>2. \A p \in Providers : ran'["onDestroy"][p] = ran'["onStop"][p]
                               /\ ran'["onStart"][p] = ran'["onStop"][p] + 0
      BY <2>7, <3>1
    <3>3. \A t \in LifeCalls : phase'[t] \notin Running BY <2>6, <2>9 DEF Running
    <3>4. QED BY <2>9, <3>2, <3>3 DEF TurnsInv, Running
  <2>10. QED BY <1>5, <2>8, <2>9
<1>11. QED BY <1>6, <1>7, <1>8, <1>9, <1>10

\* A hook rejects: the counts stay, and nothing is said of turns any more.
LEMMA RejectsStep == ASSUME LifeInv, NEW s \in LifeCalls, HookRejects(s) PROVE LifeInv'
<1> USE DEF LifeInv
<1>1. /\ phase[s] \in Running /\ phase' = [phase EXCEPT ![s] = "threw"] /\ orderly' = FALSE
      /\ UNCHANGED <<boot, bootPos, started, pos, ran>>
  BY DEF HookRejects
<1>2. phase \in [LifeCalls -> {"idle"} \cup Running \cup Ended] BY DEF LifeTypeOK
<1>3. \A t \in LifeCalls : phase'[t] = phase[t] \/ phase'[t] = "threw" BY <1>1, <1>2
<1>4. LifeTypeOK' /\ (pos \in [LifeCalls -> Nat])'
  <2>1. phase' \in [LifeCalls -> {"idle"} \cup Running \cup Ended] BY <1>1, <1>2 DEF Ended
  <2>2. \A t \in LifeCalls : phase'[t] \in Running => phase'[t] = phase[t]
    BY <1>3 DEF Running
  <2>3. QED BY <1>1, <2>1, <2>2 DEF LifeTypeOK
<1>5. BootInv'
  <2>1. boot = "ready" BY <1>1 DEF BootInv, Running
  <2>2. QED BY <1>1, <2>1 DEF BootInv
<1>6. StartInv'
  <2>1. \A t \in LifeCalls : phase'[t] \in {"onStart", "onStop", "onDestroy"} => phase'[t] = phase[t]
    BY <1>3
  <2>2. QED BY <1>1, <2>1 DEF StartInv
<1>7. Passes'
  <2>1. PICK S, D : PassesAre(S, D) BY DEF Passes
  <2>2. PassesAre(S, D)' BY <1>1, <1>3, <2>1 DEF PassesAre
  <2>3. QED BY <2>2 DEF Passes
<1>8. TurnsInv' BY <1>1 DEF TurnsInv
<1>9. QED BY <1>4, <1>5, <1>6, <1>7, <1>8

LEMMA LifeNextInv == LifeInv /\ [LifeNext]_lifeVars => LifeInv'
<1>1. SUFFICES ASSUME LifeInv, [LifeNext]_lifeVars PROVE LifeInv' OBVIOUS
<1>2. CASE UNCHANGED lifeVars
  BY <1>1, <1>2 DEF lifeVars, LifeInv, LifeTypeOK, BootInv, StartInv, Passes, PassesAre, TurnsInv
<1>3. CASE CreateProvider \/ InitProvider \/ BootFails BY <1>1, <1>3, BootStep
<1>4. CASE \E s \in LifeCalls : Start(s) \/ Stop(s) \/ LifeStep(s)
  BY <1>1, <1>4, CallStep, StartedStep, StoppedStep, DestroyedStep, RejectsStep DEF LifeStep
<1>5. QED BY <1>1, <1>2, <1>3, <1>4 DEF LifeNext

\* Every reachable state satisfies the strengthened invariant.
THEOREM LifeInvariant == LifeSpec => []LifeInv
BY LifeInitInv, LifeNextInv, PTL DEF LifeSpec

\* However many start() and stop() overlap and whatever hooks reject, the hooks
\* keep their order, and destructions never outnumber the stops; as long as
\* calls take turns and nothing rejects, the hooks have run in equal numbers.
THEOREM LifecycleAlwaysKept == LifeSpec => []LifecycleKept
<1>1. LifeInv => LifecycleKept
  <2>1. SUFFICES ASSUME LifeInv PROVE LifecycleOrder /\ LifecycleBalanced
    BY DEF LifeInv, LifecycleKept
  <2>2. ASSUME NEW p \in Providers, NEW q \in Providers
        PROVE  /\ ran["onStart"][p] > 0 => ran["onInit"][q] = Listed(q)
               /\ ran["onStop"][p] > 0 => ran["onStart"][q] > 0
               /\ ran["onDestroy"][p] * Listed(q) <= ran["onStop"][q] * Listed(p)
    <3>1. ran["onStart"][p] > 0 => boot = "ready"
      BY <2>1 DEF LifeInv, BootInv, Running
    <3>2. boot = "ready" => ran["onInit"][q] = Listed(q) BY <2>1 DEF LifeInv, BootInv
    <3>3. ran["onStop"][p] > 0 => ran["onStart"][q] > 0 BY <2>1 DEF LifeInv, StartInv
    <3>4. \E S, D : PassesAre(S, D) BY <2>1 DEF LifeInv, Passes
    <3>5. ran["onDestroy"][p] * Listed(q) <= ran["onStop"][q] * Listed(p)
      BY <3>4, PassesOrdered
    <3>6. QED BY <3>1, <3>2, <3>3, <3>5
  <2>3. LifecycleOrder BY <2>2 DEF LifecycleOrder
  <2>4. LifecycleBalanced BY <2>1 DEF LifeInv, TurnsInv, LifecycleBalanced
  <2>5. QED BY <2>3, <2>4
<1>2. QED BY <1>1, LifeInvariant, PTL

-----------------------------------------------------------------------------
(* The container and its scopes *)

FrameType ==
  [token : Tokens \cup {Missing}, scope : Kinds \cup {"get"}, deps : Seq(Tokens \cup {Missing}),
   args : Seq(Nat), instance : Nat \cup {None}]

InstanceType == [token : Tokens, scope : Kinds, home : Containers, args : Seq(Nat)]

CacheType == [token : Tokens, instance : Nat]

ContainerShape ==
  /\ made \in Seq(InstanceType)
  /\ singletons \in [Tokens -> Nat \cup {None}] /\ overrides \in [Tokens -> Nat \cup {None}]
  /\ cache \in [Containers -> Seq(CacheType)]
  /\ stack \in [Calls -> Seq(FrameType)]
  /\ answer \in [Calls -> Nat \cup {None}]

\* An instance that a call on container h may be given.
Mine(h, i) == i \in Instances /\ (made[i].scope = "request" => made[i].home = h)

FrameOK(c, f) ==
  /\ \A k \in 1..Len(f.args) : Mine(Home[c], f.args[k])
  /\ f.instance # None => Mine(Home[c], f.instance) /\ made[f.instance].scope = f.scope
  /\ f.scope \in {"existing", "get"} => f.instance = None /\ Len(f.deps) = 1
  /\ f.scope # "get" => f.token \in Tokens

\* What is cached for all was made for all; and a call hands down its path only
\* instances that it may be given.
SharedOK ==
  \A t \in Tokens :
    /\ singletons[t] # None => singletons[t] \in Instances /\ made[singletons[t]].scope = "singleton"
    /\ overrides[t] # None => overrides[t] \in Instances /\ made[overrides[t]].scope = "singleton"

CachesOK ==
  \A h \in Containers : \A n \in 1..Len(cache[h]) :
    cache[h][n].instance \in Instances /\ made[cache[h][n].instance].home = h

InjectedOK ==
  \A i \in Instances : \A n \in 1..Len(made[i].args) : Mine(made[i].home, made[i].args[n])

FramesOK ==
  \A c \in Calls : \A n \in 1..Len(stack[c]) :
    FrameOK(c, stack[c][n]) /\ (stack[c][n].scope = "get" <=> n = 1)

AnswersOK ==
  \A c \in Calls : answer[c] # None /\ answer[c] # Rejected => Mine(Home[c], answer[c])

IsolationInv ==
  /\ ContainerShape /\ SharedOK /\ CachesOK /\ InjectedOK /\ FramesOK /\ AnswersOK

-----------------------------------------------------------------------------

LEMMA MapGetIs ==
  ASSUME NEW m \in Seq(CacheType), NEW t, MapGet(m, t) # None
  PROVE  \E n \in 1..Len(m) : MapGet(m, t) = m[n].instance
<1>1. PICK n \in DOMAIN m : m[n].token = t
  BY DEF MapGet
<1>2. \E e \in ToSet(m) : e.token = t
  BY <1>1 DEF ToSet
<1>3. PICK k \in DOMAIN m : (CHOOSE e \in ToSet(m) : e.token = t) = m[k]
  BY <1>2 DEF ToSet
<1>4. MapGet(m, t) = m[k].instance
  BY <1>1, <1>3 DEF MapGet
<1> QED
  BY <1>4

LEMMA MapSetIs ==
  ASSUME NEW m \in Seq(CacheType), NEW t \in Tokens, NEW i \in Nat
  PROVE  /\ MapSet(m, t, i) \in Seq(CacheType)
         /\ \A n \in 1..Len(MapSet(m, t, i)) :
              \/ MapSet(m, t, i)[n].instance = i
              \/ \E k \in 1..Len(m) : MapSet(m, t, i)[n].instance = m[k].instance
<1> DEFINE entry == [token |-> t, instance |-> i]
<1>1. entry \in CacheType /\ entry.instance = i
  BY DEF CacheType
<1>2. CASE \E n \in DOMAIN m : m[n].token = t
  <2>1. MapSet(m, t, i) = [n \in 1..Len(m) |-> IF m[n].token = t THEN entry ELSE m[n]]
    <3>1. MapSet(m, t, i) = [n \in DOMAIN m |-> IF m[n].token = t THEN entry ELSE m[n]]
      BY <1>2, Zenon DEF MapSet
    <3>2. DOMAIN m = 1..Len(m)
      OBVIOUS
    <3> QED
      BY <3>1, <3>2, Zenon
  <2> HIDE DEF entry
  <2>2. [n \in 1..Len(m) |-> IF m[n].token = t THEN entry ELSE m[n]] \in Seq(CacheType)
    BY <1>1
  <2>3. Len(MapSet(m, t, i)) = Len(m)
    BY <2>1
  <2> QED
    BY <1>1, <2>1, <2>2, <2>3
<1>3. CASE ~\E n \in DOMAIN m : m[n].token = t
  <2>1. MapSet(m, t, i) = Append(m, entry)
    BY <1>3 DEF MapSet
  <2> HIDE DEF entry
  <2> QED
    BY <1>1, <2>1
<1> QED
  BY <1>2, <1>3

LEMMA PassedIs ==
  ASSUME NEW s \in Seq(FrameType), Len(s) > 0, NEW i \in Nat
  PROVE  /\ Passed(s, i) \in Seq(FrameType) /\ Len(Passed(s, i)) = Len(s)
         /\ \A n \in 1..Len(s) : n # Len(s) => Passed(s, i)[n] = s[n]
         /\ Passed(s, i)[Len(s)].args = Append(s[Len(s)].args, i)
         /\ Passed(s, i)[Len(s)].scope = s[Len(s)].scope
         /\ Passed(s, i)[Len(s)].token = s[Len(s)].token
         /\ Passed(s, i)[Len(s)].deps = s[Len(s)].deps
         /\ Passed(s, i)[Len(s)].instance = s[Len(s)].instance
<1> DEFINE top == s[Len(s)]
           args == Append(top.args, i)
           frame == [top EXCEPT !.args = args]
<1>1. Len(s) \in 1..Len(s) /\ top \in FrameType
  OBVIOUS
<1>2. args \in Seq(Nat)
  BY <1>1 DEF FrameType
<1>3. /\ frame \in FrameType /\ frame.args = args /\ frame.scope = top.scope
      /\ frame.token = top.token /\ frame.deps = top.deps /\ frame.instance = top.instance
  <2> HIDE DEF args, top
  <2> QED
    BY <1>1, <1>2 DEF FrameType
<1>4. Passed(s, i) = [s EXCEPT ![Len(s)] = frame]
  BY <1>1 DEF Passed
<1> HIDE DEF frame
<1>5. /\ [s EXCEPT ![Len(s)] = frame] \in Seq(FrameType)
      /\ Len([s EXCEPT ![Len(s)] = frame]) = Len(s)
      /\ [s EXCEPT ![Len(s)] = frame][Len(s)] = frame
      /\ \A n \in 1..Len(s) : n # Len(s) => [s EXCEPT ![Len(s)] = frame][n] = s[n]
  BY <1>1, <1>3
<1> QED
  BY <1>3, <1>4, <1>5

LEMMA BuiltIs ==
  ASSUME NEW s \in Seq(FrameType), Len(s) > 0, NEW i \in Nat
  PROVE  /\ Built(s, i) \in Seq(FrameType) /\ Len(Built(s, i)) = Len(s)
         /\ \A n \in 1..Len(s) : n # Len(s) => Built(s, i)[n] = s[n]
         /\ Built(s, i)[Len(s)].args = s[Len(s)].args
         /\ Built(s, i)[Len(s)].scope = s[Len(s)].scope
         /\ Built(s, i)[Len(s)].token = s[Len(s)].token
         /\ Built(s, i)[Len(s)].deps = s[Len(s)].deps
         /\ Built(s, i)[Len(s)].instance = i
<1> DEFINE top == s[Len(s)]
           frame == [top EXCEPT !.instance = i]
<1>1. Len(s) \in 1..Len(s) /\ top \in FrameType
  OBVIOUS
<1>2. /\ frame \in FrameType /\ frame.args = top.args /\ frame.scope = top.scope
      /\ frame.token = top.token /\ frame.deps = top.deps /\ frame.instance = i
  <2> HIDE DEF top
  <2> QED
    BY <1>1 DEF FrameType
<1>3. Built(s, i) = [s EXCEPT ![Len(s)] = frame]
  BY <1>1 DEF Built
<1> HIDE DEF frame
<1>4. /\ [s EXCEPT ![Len(s)] = frame] \in Seq(FrameType)
      /\ Len([s EXCEPT ![Len(s)] = frame]) = Len(s)
      /\ [s EXCEPT ![Len(s)] = frame][Len(s)] = frame
      /\ \A n \in 1..Len(s) : n # Len(s) => [s EXCEPT ![Len(s)] = frame][n] = s[n]
  BY <1>1, <1>2
<1> QED
  BY <1>2, <1>3, <1>4

\* Instances are only added.
Grows ==
  /\ made' \in Seq(InstanceType) /\ Len(made) <= Len(made')
  /\ \A i \in Instances : made'[i] = made[i]

LEMMA GrowsIs ==
  ASSUME IsolationInv, made' = made \/ \E i \in InstanceType : made' = Append(made, i)
  PROVE  /\ Grows
         /\ \A i \in Instances : i \in Instances'
         /\ \A h, i : Mine(h, i) => Mine(h, i)'
         /\ \A c, f : FrameOK(c, f) => FrameOK(c, f)'
<1>1. made \in Seq(InstanceType)
  BY DEF IsolationInv, ContainerShape
<1>2. Grows
  BY <1>1 DEF Grows, Instances
<1>3. \A i \in Instances : i \in Instances' /\ made'[i] = made[i]
  BY <1>1, <1>2 DEF Grows, Instances
<1>4. \A h, i : Mine(h, i) => Mine(h, i)'
  BY <1>3 DEF Mine
<1>5. \A c, f : FrameOK(c, f) => FrameOK(c, f)'
  BY <1>3, <1>4 DEF FrameOK, Mine
<1> QED
  BY <1>2, <1>3, <1>4, <1>5

Paths(c, s) == \A n \in 1..Len(s) : FrameOK(c, s[n]) /\ (s[n].scope = "get" <=> n = 1)

\* The frames of other calls keep what they have.
LEMMA OthersKept ==
  ASSUME IsolationInv, NEW c \in Calls, NEW s \in Seq(FrameType),
         stack' = [stack EXCEPT ![c] = s],
         made' = made \/ \E i \in InstanceType : made' = Append(made, i),
         Paths(c, s)'
  PROVE  FramesOK' /\ stack' \in [Calls -> Seq(FrameType)]
<1>1. stack \in [Calls -> Seq(FrameType)]
  BY DEF IsolationInv, ContainerShape
<1>2. ASSUME NEW d \in Calls
      PROVE  \E t : stack'[d] = t /\ Paths(d, t)'
  <2>1. CASE d = c
    BY <1>1, <2>1
  <2>2. CASE d # c
    <3>1. PICK t : t = stack[d]
      OBVIOUS
    <3>2. stack'[d] = t
      BY <1>1, <2>2, <3>1
    <3>3. \A n \in 1..Len(t) : FrameOK(d, t[n]) /\ (t[n].scope = "get" <=> n = 1)
      BY <3>1 DEF IsolationInv, FramesOK
    <3>4. \A f : FrameOK(d, f) => FrameOK(d, f)'
      BY GrowsIs
    <3> QED
      BY <3>2, <3>3, <3>4 DEF Paths
  <2> QED
    BY <2>1, <2>2
<1> QED
  BY <1>1, <1>2 DEF FramesOK, Paths

LEMMA SharedKept ==
  ASSUME IsolationInv, made' = made \/ \E i \in InstanceType : made' = Append(made, i)
  PROVE  /\ UNCHANGED <<singletons, overrides>> => SharedOK'
         /\ UNCHANGED cache => CachesOK'
         /\ UNCHANGED answer => AnswersOK'
         /\ UNCHANGED made => InjectedOK'
         /\ UNCHANGED stack => FramesOK'
<1>1. \A i \in Instances : i \in Instances' /\ made'[i] = made[i]
  BY GrowsIs DEF Grows
<1>2. UNCHANGED <<singletons, overrides>> => SharedOK'
  BY <1>1 DEF IsolationInv, SharedOK
<1>3. UNCHANGED cache => CachesOK'
  BY <1>1 DEF IsolationInv, CachesOK
<1>4. UNCHANGED answer => AnswersOK'
  <2>1. \A h, i : Mine(h, i) => Mine(h, i)'
    BY GrowsIs
  <2> QED
    BY <2>1 DEF AnswersOK, IsolationInv
<1>5. UNCHANGED made => InjectedOK'
  BY DEF IsolationInv, InjectedOK, Mine, Instances
<1>6. UNCHANGED stack => FramesOK'
  BY GrowsIs DEF IsolationInv, FramesOK
<1> QED
  BY <1>2, <1>3, <1>4, <1>5, <1>6

LEMMA QuietKeeps ==
  ASSUME IsolationInv, UNCHANGED <<made, singletons, overrides, cache, stack, answer>>
  PROVE  IsolationInv'
<1>1. SharedOK' /\ CachesOK' /\ AnswersOK' /\ InjectedOK' /\ FramesOK'
  BY SharedKept
<1>2. ContainerShape'
  BY DEF IsolationInv, ContainerShape
<1> QED
  BY <1>1, <1>2 DEF IsolationInv

\* Steps that change nothing but the path of one call.
LEMMA StackKeeps ==
  ASSUME IsolationInv, NEW c \in Calls, NEW s \in Seq(FrameType), Paths(c, s),
         stack' = [stack EXCEPT ![c] = s],
         UNCHANGED <<made, singletons, overrides, cache, answer>>
  PROVE  IsolationInv'
<1>1. SharedOK' /\ CachesOK' /\ AnswersOK' /\ InjectedOK'
  BY SharedKept
<1>2. Paths(c, s)'
  BY GrowsIs DEF Paths
<1>3. FramesOK' /\ stack' \in [Calls -> Seq(FrameType)]
  BY <1>2, OthersKept
<1>4. ContainerShape'
  BY <1>3 DEF IsolationInv, ContainerShape
<1> QED
  BY <1>1, <1>3, <1>4 DEF IsolationInv

\* Steps that end a call.
LEMMA AnswerKeeps ==
  ASSUME IsolationInv, NEW c \in Calls, NEW a \in Nat, a = Rejected \/ Mine(Home[c], a),
         stack' = [stack EXCEPT ![c] = <<>>], answer' = [answer EXCEPT ![c] = a],
         UNCHANGED <<made, singletons, overrides, cache>>
  PROVE  IsolationInv'
<1>1. SharedOK' /\ CachesOK' /\ InjectedOK'
  BY SharedKept
<1>2. <<>> \in Seq(FrameType) /\ Paths(c, <<>>)'
  BY DEF Paths
<1>3. FramesOK' /\ stack' \in [Calls -> Seq(FrameType)]
  <2>1. PICK s : s = <<>>
    OBVIOUS
  <2>2. s \in Seq(FrameType) /\ Paths(c, s)' /\ stack' = [stack EXCEPT ![c] = s]
    BY <1>2, <2>1 DEF Paths
  <2> QED
    BY <2>2, OthersKept
<1>4. ContainerShape'
  BY <1>3 DEF IsolationInv, ContainerShape
<1>5. \A d \in Calls : answer'[d] = IF d = c THEN a ELSE answer[d]
  BY DEF IsolationInv, ContainerShape
<1>6. \A h, i : Mine(h, i) => Mine(h, i)'
  BY GrowsIs
<1>7. AnswersOK'
  BY <1>5, <1>6 DEF IsolationInv, AnswersOK
<1> QED
  BY <1>1, <1>3, <1>4, <1>7 DEF IsolationInv

\* What a call may be given goes to the frame that waits for it.
LEMMA PassedPaths ==
  ASSUME NEW c, NEW s \in Seq(FrameType), Len(s) > 0, Paths(c, s),
         NEW i \in Nat, Mine(Home[c], i)
  PROVE  Passed(s, i) \in Seq(FrameType) /\ Paths(c, Passed(s, i))
<1>1. PICK p : p = Passed(s, i)
  OBVIOUS
<1>2. /\ p \in Seq(FrameType) /\ Len(p) = Len(s)
      /\ \A n \in 1..Len(s) : n # Len(s) => p[n] = s[n]
      /\ p[Len(s)].args = Append(s[Len(s)].args, i) /\ p[Len(s)].scope = s[Len(s)].scope
      /\ p[Len(s)].token = s[Len(s)].token /\ p[Len(s)].deps = s[Len(s)].deps
      /\ p[Len(s)].instance = s[Len(s)].instance
  BY <1>1, PassedIs
<1>3. ASSUME NEW n \in 1..Len(s) PROVE FrameOK(c, p[n]) /\ (p[n].scope = "get" <=> n = 1)
  <2>1. FrameOK(c, s[n]) /\ (s[n].scope = "get" <=> n = 1)
    BY DEF Paths
  <2>2. CASE n # Len(s)
    BY <1>2, <2>1, <2>2
  <2>3. CASE n = Len(s)
    <3>1. PICK args : args = s[n].args
      OBVIOUS
    <3>2. s[n] \in FrameType
      OBVIOUS
    <3>3. args \in Seq(Nat)
      BY <3>1, <3>2 DEF FrameType
    <3>4. PICK all : all = Append(args, i)
      OBVIOUS
    <3>5. \A k \in 1..Len(all) : all[k] = i \/ \E m \in 1..Len(args) : all[k] = args[m]
      BY <3>3, <3>4
    <3>6. \A k \in 1..Len(args) : Mine(Home[c], args[k])
      BY <2>1, <3>1 DEF FrameOK
    <3>7. p[n].args = all
      BY <1>2, <2>3, <3>1, <3>4
    <3>8. \A k \in 1..Len(p[n].args) : Mine(Home[c], p[n].args[k])
      BY <3>5, <3>6, <3>7
    <3> QED
      BY <1>2, <2>1, <2>3, <3>8 DEF FrameOK
  <2> QED
    BY <2>2, <2>3
<1> QED
  BY <1>1, <1>2, <1>3 DEF Paths

LEMMA FrontPaths ==
  ASSUME NEW c, NEW s \in Seq(FrameType), Len(s) > 1, Paths(c, s)
  PROVE  Front(s) \in Seq(FrameType) /\ Len(Front(s)) > 0 /\ Paths(c, Front(s))
<1>1. /\ Front(s) \in Seq(FrameType) /\ Len(Front(s)) = Len(s) - 1
      /\ \A n \in 1..Len(s) - 1 : Front(s)[n] = s[n]
  BY DEF Front
<1> QED
  BY <1>1 DEF Paths

\* The frame a call is at.
LEMMA TopIs ==
  ASSUME IsolationInv, NEW c \in Calls, stack[c] # <<>>
  PROVE  /\ stack[c] \in Seq(FrameType) /\ Len(stack[c]) > 0 /\ Paths(c, stack[c])
         /\ Top(c) = stack[c][Len(stack[c])] /\ Top(c) \in FrameType /\ FrameOK(c, Top(c))
         /\ Top(c).scope = "get" <=> Len(stack[c]) = 1
<1>1. stack[c] \in Seq(FrameType)
  BY DEF IsolationInv, ContainerShape
<1>2. Len(stack[c]) > 0 /\ Len(stack[c]) \in 1..Len(stack[c])
  BY <1>1
<1>3. Paths(c, stack[c])
  BY DEF IsolationInv, FramesOK, Paths
<1>4. Top(c) = stack[c][Len(stack[c])]
  BY DEF Top, Last
<1>5. stack[c][Len(stack[c])] \in FrameType
  BY <1>1, <1>2
<1>6. FrameOK(c, Top(c)) /\ (Top(c).scope = "get" <=> Len(stack[c]) = 1)
  BY <1>2, <1>3, <1>4 DEF Paths
<1> QED
  BY <1>1, <1>2, <1>3, <1>4, <1>5, <1>6

-----------------------------------------------------------------------------

LEMMA GetKeeps ==
  ASSUME IsolationInv, NEW c \in Calls, Get(c)
  PROVE  IsolationInv'
<1> USE ContainerAssumption
<1>1. PICK e : e = Entry(c)
  OBVIOUS
<1>2. /\ e.token = Missing /\ e.scope = "get" /\ e.deps = <<Wanted[c]>> /\ e.args = <<>>
      /\ e.instance = None /\ e \in FrameType
  BY <1>1 DEF Entry, FrameType
<1>3. FrameOK(c, e)
  BY <1>2 DEF FrameOK
<1>4. PICK s : s = <<e>>
  OBVIOUS
<1>5. s \in Seq(FrameType) /\ Len(s) = 1 /\ s[1] = e
  BY <1>2, <1>4
<1>6. Paths(c, s)
  BY <1>2, <1>3, <1>5 DEF Paths
<1> QED
  BY <1>1, <1>4, <1>5, <1>6, StackKeeps DEF Get

\* What is cached is for all, or for the container that asks.
LEMMA FoundIs ==
  ASSUME IsolationInv, NEW h \in Containers, NEW t \in Tokens, Found(h, t) # None
  PROVE  Found(h, t) \in Nat /\ Mine(h, Found(h, t))
<1>1. CASE ProviderScope(t) = "singleton"
  BY <1>1 DEF Found, IsolationInv, SharedOK, Mine, ContainerShape
<1>2. CASE ProviderScope(t) = "request"
  <2>1. Found(h, t) = MapGet(cache[h], t) /\ cache[h] \in Seq(CacheType)
    BY <1>2 DEF Found, IsolationInv, ContainerShape
  <2>2. PICK n \in 1..Len(cache[h]) : MapGet(cache[h], t) = cache[h][n].instance
    BY <2>1, MapGetIs
  <2>3. cache[h][n] \in CacheType
    BY <2>1
  <2>4. cache[h][n].instance \in Nat
    BY <2>3 DEF CacheType
  <2> QED
    BY <2>1, <2>2, <2>4 DEF IsolationInv, CachesOK, Mine
<1>3. CASE ProviderScope(t) # "singleton" /\ ProviderScope(t) # "request"
  BY <1>3 DEF Found
<1> QED
  BY <1>1, <1>2, <1>3

LEMMA NextDepIs ==
  ASSUME IsolationInv, NEW c \in Calls, Needs(c), ~Refused(c, NextDep(c))
  PROVE  stack[c] # <<>> /\ NextDep(c) \in Tokens
<1>1. Top(c) \in FrameType /\ Len(Top(c).args) < Len(Top(c).deps)
  BY TopIs DEF Needs
<1>2. Top(c).args \in Seq(Nat) /\ Top(c).deps \in Seq(Tokens \cup {Missing})
  BY <1>1 DEF FrameType
<1>3. Len(Top(c).args) + 1 \in 1..Len(Top(c).deps)
  BY <1>1, <1>2
<1>4. NextDep(c) \in Tokens \cup {Missing}
  BY <1>2, <1>3 DEF NextDep
<1> QED
  BY <1>4 DEF Refused, Needs

LEMMA ReuseKeeps ==
  ASSUME IsolationInv, NEW c \in Calls, Reuse(c)
  PROVE  IsolationInv'
<1>1. stack[c] # <<>> /\ NextDep(c) \in Tokens /\ Home[c] \in Containers
  BY NextDepIs, ContainerAssumption DEF Reuse
<1>2. PICK i : i = Found(Home[c], NextDep(c))
  OBVIOUS
<1>3. i \in Nat /\ Mine(Home[c], i)
  BY <1>1, <1>2, FoundIs DEF Reuse
<1>4. PICK s : s = Passed(stack[c], i)
  OBVIOUS
<1>5. s \in Seq(FrameType) /\ Paths(c, s)
  BY <1>1, <1>3, <1>4, TopIs, PassedPaths
<1>6. stack' = [stack EXCEPT ![c] = s]
  BY <1>2, <1>4 DEF Reuse
<1> QED
  BY <1>5, <1>6, StackKeeps DEF Reuse

LEMMA DescendKeeps ==
  ASSUME IsolationInv, NEW c \in Calls, Descend(c)
  PROVE  IsolationInv'
<1> USE ContainerAssumption
<1>1. stack[c] # <<>> /\ NextDep(c) \in Tokens
  BY NextDepIs DEF Descend
<1>2. PICK t \in Tokens : t = NextDep(c)
  BY <1>1
<1>3. PICK deps : deps = IF overrides[t] = None THEN DepsOf[t] ELSE <<>>
  OBVIOUS
<1>4. PICK f : f = [token |-> t, scope |-> ProviderScope(t), deps |-> deps, args |-> <<>>,
                    instance |-> overrides[t]]
  OBVIOUS
<1>5. /\ ProviderScope(t) \in Kinds /\ ProviderScope(t) # "get"
      /\ overrides[t] # None => ProviderScope(t) = "singleton"
      /\ ProviderScope(t) = "existing" => Len(DepsOf[t]) = 1
  BY DEF ProviderScope, Kinds
<1>6. overrides[t] \in Nat \cup {None} /\ deps \in Seq(Tokens \cup {Missing})
  BY <1>3 DEF IsolationInv, ContainerShape
<1>7. /\ f \in FrameType /\ f.token = t /\ f.scope = ProviderScope(t) /\ f.deps = deps
      /\ f.args = <<>> /\ f.instance = overrides[t]
  BY <1>4, <1>5, <1>6 DEF FrameType
<1>8. overrides[t] # None => Mine(Home[c], overrides[t]) /\ made[overrides[t]].scope = "singleton"
  BY DEF IsolationInv, SharedOK, Mine
<1>9. FrameOK(c, f)
  BY <1>3, <1>5, <1>7, <1>8 DEF FrameOK
<1>10. PICK s : s = Append(stack[c], f)
  OBVIOUS
<1>11. /\ s \in Seq(FrameType) /\ Len(s) = Len(stack[c]) + 1 /\ s[Len(s)] = f
       /\ \A n \in 1..Len(stack[c]) : s[n] = stack[c][n]
       /\ Len(stack[c]) \in Nat \ {0}
  BY <1>1, <1>7, <1>10, TopIs
<1>12. Paths(c, s)
  <2>1. Paths(c, stack[c])
    BY <1>1, TopIs
  <2>2. ASSUME NEW n \in 1..Len(s) PROVE FrameOK(c, s[n]) /\ (s[n].scope = "get" <=> n = 1)
    <3>1. CASE n = Len(s)
      BY <1>5, <1>7, <1>9, <1>11, <3>1
    <3>2. CASE n # Len(s)
      <4>1. n \in 1..Len(stack[c])
        BY <1>11, <3>2
      <4> QED
        BY <1>11, <2>1, <4>1 DEF Paths
    <3> QED
      BY <3>1, <3>2
  <2> QED
    BY <2>2 DEF Paths
<1>13. stack' = [stack EXCEPT ![c] = s]
  BY <1>2, <1>3, <1>4, <1>10 DEF Descend
<1> QED
  BY <1>11, <1>12, <1>13, StackKeeps DEF Descend

LEMMA ForwardKeeps ==
  ASSUME IsolationInv, NEW c \in Calls, Forward(c)
  PROVE  IsolationInv'
<1>1. stack[c] # <<>> /\ Top(c).scope = "existing" /\ Len(Top(c).args) = Len(Top(c).deps)
  BY DEF Forward, Complete
<1>2. PICK f \in FrameType : f = Top(c) /\ FrameOK(c, f)
  BY <1>1, TopIs
<1>3. PICK i : i = f.args[1]
  OBVIOUS
<1>4. i \in Nat /\ Mine(Home[c], i)
  BY <1>1, <1>2, <1>3 DEF FrameOK, FrameType
<1>5. PICK r : r = Front(stack[c])
  OBVIOUS
<1>6. r \in Seq(FrameType) /\ Len(r) > 0 /\ Paths(c, r)
  <2>1. /\ stack[c] \in Seq(FrameType) /\ Paths(c, stack[c])
        /\ Len(stack[c]) > 0 /\ Len(stack[c]) # 1
    BY <1>1, TopIs
  <2>2. PICK n \in Nat : n = Len(stack[c])
    BY <2>1
  <2>3. n > 0 /\ n # 1
    BY <2>1, <2>2
  <2>4. n > 1
    BY <2>3
  <2> QED
    BY <1>5, <2>1, <2>2, <2>4, FrontPaths
<1>7. PICK s : s = Passed(r, i)
  OBVIOUS
<1>8. s \in Seq(FrameType) /\ Paths(c, s)
  BY <1>4, <1>6, <1>7, PassedPaths
<1>9. stack' = [stack EXCEPT ![c] = s]
  BY <1>2, <1>3, <1>5, <1>7 DEF Forward
<1> QED
  BY <1>8, <1>9, StackKeeps DEF Forward

LEMMA SettleKeeps ==
  ASSUME IsolationInv, NEW c \in Calls, Settle(c)
  PROVE  IsolationInv'
<1>1. stack[c] # <<>> /\ Top(c).scope = "get" /\ Len(Top(c).args) = Len(Top(c).deps)
  BY DEF Settle, Complete
<1>2. PICK f \in FrameType : f = Top(c) /\ FrameOK(c, f)
  BY <1>1, TopIs
<1>3. PICK i : i = f.args[1]
  OBVIOUS
<1>4. i \in Nat /\ Mine(Home[c], i)
  BY <1>1, <1>2, <1>3 DEF FrameOK, FrameType
<1> QED
  BY <1>2, <1>3, <1>4, AnswerKeeps DEF Settle

LEMMA RejectKeeps ==
  ASSUME IsolationInv, NEW c \in Calls, Reject(c)
  PROVE  IsolationInv'
<1>1. Rejected \in Nat
  BY DEF Rejected
<1> QED
  BY <1>1, AnswerKeeps DEF Reject

\* The new instance is injected with what its container may use.
LEMMA ConstructKeeps ==
  ASSUME IsolationInv, NEW c \in Calls, Construct(c)
  PROVE  IsolationInv'
<1> USE ContainerAssumption
<1>1. stack[c] # <<>> /\ Top(c).scope # "existing" /\ Top(c).scope # "get"
  BY DEF Construct, Complete
<1>2. PICK f \in FrameType : f = Top(c) /\ FrameOK(c, f)
  BY <1>1, TopIs
<1>3. PICK i : i = [token |-> f.token, scope |-> f.scope, home |-> Home[c], args |-> f.args]
  OBVIOUS
<1>4. i \in InstanceType /\ i.scope = f.scope /\ i.home = Home[c] /\ i.args = f.args
  BY <1>1, <1>2, <1>3 DEF FrameOK, FrameType, InstanceType
<1>5. made \in Seq(InstanceType) /\ made' = Append(made, i)
  BY <1>2, <1>3 DEF Construct, IsolationInv, ContainerShape
<1>6. PICK m : m = Len(made')
  OBVIOUS
<1>7. m \in Nat /\ m \in Instances' /\ made'[m] = i /\ made' \in Seq(InstanceType)
      /\ Instances' = Instances \cup {m}
  BY <1>4, <1>5, <1>6 DEF Instances
<1>8. Mine(Home[c], m)'
  BY <1>4, <1>7 DEF Mine
<1>9. PICK s : s = Built(stack[c], m)
  OBVIOUS
<1>10. PICK r : r = stack[c]
  OBVIOUS
<1>11. r \in Seq(FrameType) /\ Len(r) > 0 /\ Len(r) \in Nat /\ Paths(c, r) /\ f = r[Len(r)]
  BY <1>1, <1>2, <1>10, TopIs
<1>12. /\ s \in Seq(FrameType) /\ Len(s) = Len(r)
       /\ \A n \in 1..Len(r) : n # Len(r) => s[n] = r[n]
       /\ s[Len(r)].args = f.args /\ s[Len(r)].scope = f.scope /\ s[Len(r)].token = f.token
       /\ s[Len(r)].deps = f.deps /\ s[Len(r)].instance = m
  BY <1>7, <1>9, <1>10, <1>11, BuiltIs
<1>13. (\A h, k : Mine(h, k) => Mine(h, k)') /\ (\A d, g : FrameOK(d, g) => FrameOK(d, g)')
  BY <1>4, <1>5, GrowsIs
<1>14. Paths(c, s)'
  <2>1. ASSUME NEW n \in 1..Len(s) PROVE FrameOK(c, s[n])' /\ (s[n].scope = "get" <=> n = 1)
    <3>1. FrameOK(c, r[n]) /\ (r[n].scope = "get" <=> n = 1)
      BY <1>11, <1>12 DEF Paths
    <3>2. CASE n # Len(r)
      BY <1>12, <1>13, <3>1, <3>2
    <3>3. CASE n = Len(r)
      <4>1. (\A k \in 1..Len(f.args) : Mine(Home[c], f.args[k])) /\ f.token \in Tokens
        BY <1>1, <1>2 DEF FrameOK
      <4>2. \A k \in 1..Len(f.args) : Mine(Home[c], f.args[k])'
        BY <1>13, <4>1
      <4>3. FrameOK(c, s[n])'
        BY <1>1, <1>2, <1>4, <1>7, <1>8, <1>12, <3>3, <4>1, <4>2 DEF FrameOK
      <4> QED
        BY <1>11, <1>12, <3>1, <3>3, <4>3
    <3> QED
      BY <3>2, <3>3
  <2> QED
    BY <2>1 DEF Paths
<1>15. stack' = [stack EXCEPT ![c] = s]
  BY <1>6, <1>9 DEF Construct
<1>16. FramesOK' /\ stack' \in [Calls -> Seq(FrameType)]
  BY <1>4, <1>5, <1>12, <1>14, <1>15, OthersKept
<1>17. SharedOK' /\ CachesOK' /\ AnswersOK'
  BY <1>4, <1>5, SharedKept DEF Construct
<1>18. InjectedOK'
  <2>1. ASSUME NEW k \in Instances', NEW n \in 1..Len(made'[k].args)
        PROVE  \E h, a : made'[k].home = h /\ made'[k].args[n] = a /\ Mine(h, a)'
    <3>1. CASE k = m
      <4>1. n \in 1..Len(f.args) /\ made'[k].home = Home[c] /\ made'[k].args[n] = f.args[n]
        BY <1>4, <1>7, <3>1
      <4>2. Mine(Home[c], f.args[n])
        BY <1>2, <4>1 DEF FrameOK
      <4> QED
        BY <1>13, <4>1, <4>2
    <3>2. CASE k # m
      <4>1. k \in Instances /\ made'[k] = made[k]
        BY <1>5, <1>6, <1>7, <3>2 DEF Instances
      <4>2. Mine(made[k].home, made[k].args[n])
        BY <4>1 DEF IsolationInv, InjectedOK
      <4> QED
        BY <1>13, <4>1, <4>2
    <3> QED
      BY <3>1, <3>2
  <2> QED
    BY <2>1 DEF InjectedOK, Mine
<1>19. ContainerShape'
  BY <1>7, <1>16 DEF IsolationInv, ContainerShape, Construct
<1> QED
  BY <1>16, <1>17, <1>18, <1>19 DEF IsolationInv

LEMMA StoreKeeps ==
  ASSUME IsolationInv, NEW c \in Calls, Store(c)
  PROVE  IsolationInv'
<1> USE ContainerAssumption
<1>1. stack[c] # <<>> /\ Top(c).instance # None
  BY DEF Store
<1>2. PICK f \in FrameType : f = Top(c) /\ FrameOK(c, f)
  BY <1>1, TopIs
<1>3. PICK i : i = f.instance
  OBVIOUS
<1>4. /\ i \in Nat /\ i \in Instances /\ Mine(Home[c], i) /\ made[i].scope = f.scope
      /\ f.scope # "get" /\ f.token \in Tokens
  BY <1>1, <1>2, <1>3 DEF FrameOK, FrameType, Mine
<1>5. PICK r : r = Front(stack[c])
  OBVIOUS
<1>6. r \in Seq(FrameType) /\ Len(r) > 0 /\ Paths(c, r)
  <2>1. /\ stack[c] \in Seq(FrameType) /\ Paths(c, stack[c])
        /\ Len(stack[c]) > 0 /\ Len(stack[c]) # 1
    BY <1>1, <1>2, <1>4, TopIs
  <2>2. PICK n \in Nat : n = Len(stack[c])
    BY <2>1
  <2>3. n > 0 /\ n # 1
    BY <2>1, <2>2
  <2>4. n > 1
    BY <2>3
  <2> QED
    BY <1>5, <2>1, <2>2, <2>4, FrontPaths
<1>7. PICK s : s = Passed(r, i)
  OBVIOUS
<1>8. s \in Seq(FrameType) /\ Paths(c, s)
  BY <1>4, <1>6, <1>7, PassedPaths
<1>9. /\ stack' = [stack EXCEPT ![c] = s] /\ UNCHANGED <<made, overrides, answer>>
      /\ singletons' = IF f.scope = "singleton" THEN [singletons EXCEPT ![f.token] = i]
                       ELSE singletons
      /\ cache' = IF f.scope = "request"
                  THEN [cache EXCEPT ![Home[c]] = MapSet(@, f.token, i)] ELSE cache
  BY <1>2, <1>3, <1>5, <1>7 DEF Store
<1>10. Paths(c, s)'
  BY <1>8, <1>9, GrowsIs DEF Paths
<1>11. FramesOK' /\ stack' \in [Calls -> Seq(FrameType)]
  BY <1>8, <1>9, <1>10, OthersKept
<1>12. AnswersOK' /\ InjectedOK'
  BY <1>9, SharedKept
<1>13. Instances' = Instances
  BY <1>9 DEF Instances
<1>14. singletons' \in [Tokens -> Nat \cup {None}] /\ SharedOK'
  BY <1>4, <1>9, <1>13 DEF IsolationInv, ContainerShape, SharedOK
<1>15. PICK m : m = MapSet(cache[Home[c]], f.token, i)
  OBVIOUS
<1>16. Home[c] \in Containers /\ cache \in [Containers -> Seq(CacheType)]
  BY DEF IsolationInv, ContainerShape
<1>17. /\ m \in Seq(CacheType)
       /\ \A n \in 1..Len(m) : \/ m[n].instance = i
                               \/ \E k \in 1..Len(cache[Home[c]]) :
                                    m[n].instance = cache[Home[c]][k].instance
  BY <1>4, <1>15, <1>16, MapSetIs
<1>18. cache' = IF f.scope = "request" THEN [cache EXCEPT ![Home[c]] = m] ELSE cache
  BY <1>9, <1>15
<1>19. cache' \in [Containers -> Seq(CacheType)]
  BY <1>16, <1>17, <1>18
<1>20. CachesOK'
  <2>1. CASE f.scope # "request"
    BY <1>9, <1>13, <1>18, <2>1 DEF IsolationInv, CachesOK
  <2>2. CASE f.scope = "request"
    <3>1. ASSUME NEW h \in Containers, NEW n \in 1..Len(cache'[h])
          PROVE  cache'[h][n].instance \in Instances /\ made[cache'[h][n].instance].home = h
      <4>1. CASE h = Home[c]
        <5>1. cache'[h] = m
          BY <1>16, <1>18, <2>2, <4>1
        <5>2. CASE m[n].instance = i
          BY <1>4, <2>2, <4>1, <5>1, <5>2 DEF Mine
        <5>3. CASE m[n].instance # i
          <6>1. PICK k \in 1..Len(cache[h]) : m[n].instance = cache[h][k].instance
            BY <1>17, <4>1, <5>1, <5>3
          <6> QED
            BY <5>1, <6>1 DEF IsolationInv, CachesOK
        <5> QED
          BY <5>2, <5>3
      <4>2. CASE h # Home[c]
        BY <1>16, <1>18, <4>2 DEF IsolationInv, CachesOK
      <4> QED
        BY <4>1, <4>2
    <3> QED
      BY <1>9, <1>13, <3>1 DEF CachesOK
  <2> QED
    BY <2>1, <2>2
<1>21. ContainerShape'
  BY <1>9, <1>11, <1>14, <1>19 DEF IsolationInv, ContainerShape
<1> QED
  BY <1>11, <1>12, <1>14, <1>20, <1>21 DEF IsolationInv

LEMMA CloseKeeps ==
  ASSUME IsolationInv, NEW x \in Closes, Close(x)
  PROVE  IsolationInv'
<1>1. /\ UNCHANGED <<made, singletons, overrides, stack, answer>>
      /\ cache' = [cache EXCEPT ![Closed[x]] = <<>>]
  BY DEF Close
<1>2. SharedOK' /\ AnswersOK' /\ InjectedOK' /\ FramesOK'
  BY <1>1, SharedKept
<1>3. cache \in [Containers -> Seq(CacheType)]
  BY DEF IsolationInv, ContainerShape
<1>4. \A h \in Containers : cache'[h] = <<>> \/ cache'[h] = cache[h]
  BY <1>1, <1>3
<1>5. CachesOK'
  BY <1>1, <1>4 DEF IsolationInv, CachesOK, Instances
<1>6. cache' \in [Containers -> Seq(CacheType)]
  <2>1. <<>> \in Seq(CacheType)
    OBVIOUS
  <2>2. PICK none : none = <<>>
    OBVIOUS
  <2>3. none \in Seq(CacheType) /\ cache' = [cache EXCEPT ![Closed[x]] = none]
    BY <1>1, <2>1, <2>2
  <2> QED
    BY <1>3, <2>3
<1>7. ContainerShape'
  BY <1>1, <1>6 DEF IsolationInv, ContainerShape
<1> QED
  BY <1>2, <1>5, <1>7 DEF IsolationInv

LEMMA OverrideKeeps ==
  ASSUME IsolationInv, NEW t \in Replaceable, Override(t)
  PROVE  IsolationInv'
<1> USE ContainerAssumption
<1>1. PICK i : i = [token |-> t, scope |-> "singleton", home |-> Root, args |-> <<>>]
  OBVIOUS
<1>2. i \in InstanceType /\ i.scope = "singleton" /\ i.args = <<>>
  BY <1>1 DEF InstanceType, Kinds, Containers
<1>3. made \in Seq(InstanceType) /\ made' = Append(made, i)
  BY <1>1 DEF Override, IsolationInv, ContainerShape
<1>4. PICK m : m = Len(made')
  OBVIOUS
<1>5. m \in Nat /\ m \in Instances' /\ made'[m] = i /\ made' \in Seq(InstanceType)
      /\ Instances' = Instances \cup {m}
  BY <1>2, <1>3, <1>4 DEF Instances
<1>6. /\ UNCHANGED <<cache, stack, answer>> /\ overrides' = [overrides EXCEPT ![t] = m]
      /\ singletons' = [singletons EXCEPT ![t] = m]
  BY <1>4 DEF Override
<1>7. \A k \in Instances : k \in Instances' /\ made'[k] = made[k]
  BY <1>2, <1>3, GrowsIs DEF Grows
<1>8. CachesOK' /\ AnswersOK' /\ FramesOK'
  BY <1>2, <1>3, <1>6, SharedKept
<1>9. SharedOK'
  BY <1>2, <1>5, <1>6, <1>7 DEF IsolationInv, ContainerShape, SharedOK
<1>10. InjectedOK'
  <2>1. \A h, k : Mine(h, k) => Mine(h, k)'
    BY <1>2, <1>3, GrowsIs
  <2>2. ASSUME NEW k \in Instances', NEW n \in 1..Len(made'[k].args)
        PROVE  \E h, a : made'[k].home = h /\ made'[k].args[n] = a /\ Mine(h, a)'
    <3>1. k # m
      BY <1>2, <1>5
    <3>2. k \in Instances /\ made'[k] = made[k]
      BY <1>5, <1>7, <3>1
    <3>3. Mine(made[k].home, made[k].args[n])
      BY <3>2 DEF IsolationInv, InjectedOK
    <3> QED
      BY <2>1, <3>2, <3>3
  <2> QED
    BY <2>2 DEF InjectedOK, Mine
<1>11. ContainerShape'
  BY <1>5, <1>6 DEF IsolationInv, ContainerShape
<1> QED
  BY <1>8, <1>9, <1>10, <1>11 DEF IsolationInv

LEMMA ClearCacheKeeps ==
  ASSUME IsolationInv, ClearCache
  PROVE  IsolationInv'
<1>1. /\ UNCHANGED <<made, overrides, stack, answer>> /\ singletons' = [t \in Tokens |-> None]
      /\ cache' = [h \in Containers |-> IF h \in children \cup {Root} THEN <<>> ELSE cache[h]]
  BY DEF ClearCache
<1>2. AnswersOK' /\ InjectedOK' /\ FramesOK'
  BY <1>1, SharedKept
<1>3. Instances' = Instances
  BY <1>1 DEF Instances
<1>4. SharedOK'
  BY <1>1, <1>3 DEF IsolationInv, SharedOK
<1>5. cache \in [Containers -> Seq(CacheType)]
  BY DEF IsolationInv, ContainerShape
<1>6. \A h \in Containers : cache'[h] = <<>> \/ cache'[h] = cache[h]
  BY <1>1
<1>7. CachesOK'
  BY <1>1, <1>3, <1>6 DEF IsolationInv, CachesOK
<1>8. cache' \in [Containers -> Seq(CacheType)]
  BY <1>1, <1>5
<1>9. ContainerShape'
  BY <1>1, <1>8 DEF IsolationInv, ContainerShape
<1> QED
  BY <1>2, <1>4, <1>7, <1>9 DEF IsolationInv

LEMMA IsolationInit == ContainerInit => IsolationInv
<1> SUFFICES ASSUME ContainerInit PROVE IsolationInv
  OBVIOUS
<1>1. ContainerShape
  BY DEF ContainerInit, ContainerShape
<1>2. SharedOK /\ CachesOK /\ AnswersOK
  BY DEF ContainerInit, SharedOK, CachesOK, AnswersOK
<1>3. InjectedOK /\ FramesOK
  BY DEF ContainerInit, InjectedOK, FramesOK, Instances
<1> QED
  BY <1>1, <1>2, <1>3 DEF IsolationInv

LEMMA IsolationNext == IsolationInv /\ [ContainerNext]_containerVars => IsolationInv'
<1> SUFFICES ASSUME IsolationInv, [ContainerNext]_containerVars PROVE IsolationInv'
  OBVIOUS
<1>1. ASSUME NEW q \in Requests, Open(q) \/ Respond(q) PROVE IsolationInv'
  BY <1>1, QuietKeeps DEF Open, Respond
<1>2. ASSUME NEW c \in Calls, Get(c) \/ Resolve(c) PROVE IsolationInv'
  <2>1. CASE Get(c)
    BY <2>1, GetKeeps
  <2>2. CASE Unresolvable(c) \/ ConstructThrows(c)
    BY <2>2, RejectKeeps DEF Unresolvable, ConstructThrows
  <2>3. CASE Reuse(c)
    BY <2>3, ReuseKeeps
  <2>4. CASE Descend(c)
    BY <2>4, DescendKeeps
  <2>5. CASE Construct(c)
    BY <2>5, ConstructKeeps
  <2>6. CASE Store(c)
    BY <2>6, StoreKeeps
  <2>7. CASE Forward(c)
    BY <2>7, ForwardKeeps
  <2>8. CASE Settle(c)
    BY <2>8, SettleKeeps
  <2> QED
    BY <1>2, <2>1, <2>2, <2>3, <2>4, <2>5, <2>6, <2>7, <2>8 DEF Resolve
<1>3. ASSUME NEW x \in Closes, Close(x) \/ CloseStep(x) PROVE IsolationInv'
  <2>1. CASE Close(x)
    BY <2>1, CloseKeeps
  <2>2. CASE CloseStep(x)
    BY <2>2, QuietKeeps DEF CloseStep, DestroyNext, DestroyThrows, CloseEnds
  <2> QED
    BY <1>3, <2>1, <2>2
<1>4. ASSUME NEW t \in Replaceable, Override(t) PROVE IsolationInv'
  BY <1>4, OverrideKeeps
<1>5. CASE ClearCache
  BY <1>5, ClearCacheKeeps
<1>6. CASE UNCHANGED containerVars
  BY <1>6, QuietKeeps DEF containerVars
<1> QED
  BY <1>1, <1>2, <1>3, <1>4, <1>5, <1>6 DEF ContainerNext

LEMMA InvIsolates == IsolationInv => ScopesIsolated
<1> SUFFICES ASSUME IsolationInv PROVE ScopesIsolated
  OBVIOUS
<1>1. ASSUME NEW h \in Containers, NEW n \in DOMAIN cache[h]
      PROVE  made[cache[h][n].instance].home = h
  <2>1. cache[h] \in Seq(CacheType)
    BY DEF IsolationInv, ContainerShape
  <2>2. n \in 1..Len(cache[h])
    BY <2>1
  <2> QED
    BY <2>2 DEF IsolationInv, CachesOK
<1>2. ASSUME NEW i \in Instances, NEW n \in DOMAIN made[i].args
      PROVE  Mine(made[i].home, made[i].args[n])
  <2>1. made[i] \in InstanceType
    BY DEF IsolationInv, ContainerShape, Instances
  <2>2. n \in 1..Len(made[i].args)
    BY <2>1 DEF InstanceType
  <2> QED
    BY <2>2 DEF IsolationInv, InjectedOK
<1>3. \A c \in Calls : answer[c] \in Instances => Mine(Home[c], answer[c])
  <2>1. \A i \in Instances : i # None /\ i # Rejected
    BY ContainerAssumption DEF Instances, Rejected, IsolationInv, ContainerShape
  <2> QED
    BY <2>1 DEF IsolationInv, AnswersOK
<1> QED
  BY <1>1, <1>2, <1>3 DEF ScopesIsolated, Mine

\* "request: cached per request container": however calls on all containers
\* interleave with each other, with closes, override() and clearCache(), an
\* instance with request scope is cached by, injected into and returned to its
\* own container alone, for any tokens and dependencies.
THEOREM ScopesAlwaysIsolated == ContainerSpec => []ScopesIsolated
<1>1. ContainerSpec => []IsolationInv
  BY IsolationInit, IsolationNext, PTL DEF ContainerSpec
<1> QED
  BY <1>1, InvIsolates, PTL

-----------------------------------------------------------------------------
(* What becomes of an instance *)

\* An instance with request scope.
Scoped(i) == i \in Instances /\ made[i].scope = "request"

CacheHas(m, i) == \E n \in 1..Len(m) : m[n].instance = i
HasToken(m, t) == \E n \in 1..Len(m) : m[n].token = t
Lists(s, i) == \E n \in 1..Len(s) : s[n] = i

\* The request-scoped instance that the call whose frames are s has constructed
\* and not yet stored.
Fresh(s) ==
  IF s # <<>> /\ s[Len(s)].scope = "request" THEN s[Len(s)].instance ELSE None

KeptShape ==
  /\ children \subseteq opened /\ answered \subseteq Routed \cap opened
  /\ closing \in [Closes -> {"idle", "destroying", "closed", "failed"}]
  /\ doomed \in [Closes -> Seq(Nat)] /\ destroyed \in Seq(Nat)
  /\ calm \subseteq Containers /\ serial \in BOOLEAN
  /\ \A x \in Closes : closing[x] # "destroying" => doomed[x] = <<>>

\* What is found under a token is an instance of it; an instance is younger
\* than what was injected into it.
TokensOK ==
  /\ \A t \in Tokens : singletons[t] # None => made[singletons[t]].token = t
  /\ \A t \in Tokens : overrides[t] # None => made[overrides[t]].token = t
  /\ \A h \in Containers : \A n \in 1..Len(cache[h]) :
       /\ Scoped(cache[h][n].instance)
       /\ made[cache[h][n].instance].token = cache[h][n].token
       /\ \A m \in 1..Len(cache[h]) : n # m => cache[h][n].token # cache[h][m].token
  /\ \A x \in Closes : \A n \in 1..Len(doomed[x]) :
       Scoped(doomed[x][n]) /\ made[doomed[x][n]].home = Closed[x]
  /\ \A n \in 1..Len(destroyed) : Scoped(destroyed[n])
  /\ \A i \in Instances : \A n \in 1..Len(made[i].args) : made[i].args[n] < i

\* The frames s of call c: no token twice, an instance in the last of them alone;
\* and as long as calls take turns what it constructs is missing from the cache
\* and what it has been given is there.
FrameKept(c, f) ==
  /\ f.instance # None =>
       /\ Len(f.args) = Len(f.deps) /\ made[f.instance].token = f.token
       /\ f.scope = "request" => made[f.instance].args = f.args
  /\ Home[c] \in calm =>
       /\ \A k \in 1..Len(f.args) : Scoped(f.args[k]) => CacheHas(cache[Home[c]], f.args[k])
       /\ f.scope = "request" =>
            /\ ~HasToken(cache[Home[c]], f.token)
            /\ f.instance # None =>
                 \A n \in 1..Len(cache[Home[c]]) : cache[Home[c]][n].instance < f.instance
  /\ serial /\ f.scope # "get" => f.scope = ScopeOf[f.token]
  /\ serial /\ f.scope = "singleton" => singletons[f.token] = None

PathKept(c, s) ==
  \A n \in 1..Len(s) :
    /\ FrameKept(c, s[n])
    /\ s[n].instance # None => n = Len(s)
    /\ \A m \in 1..Len(s) : n # m => s[n].token # s[m].token

PathsKept == \A c \in Calls : PathKept(c, stack[c])

\* Calm containers and serial calls.
TurnsTaken ==
  /\ \A c, d \in Calls : Home[c] = Home[d] /\ Home[c] \in calm /\ stack[c] # <<>> /\ stack[d] # <<>> => c = d
  /\ \A c \in Calls, x \in Closes :
       stack[c] # <<>> /\ closing[x] = "destroying" /\ Closed[x] = Home[c] => Home[c] \notin calm
  /\ \A x, y \in Closes : closing[x] = "destroying" /\ closing[y] = "destroying" /\
       Closed[x] = Closed[y] /\ Closed[x] \in calm => x = y
  /\ \A x \in Closes : closing[x] = "destroying" /\ Closed[x] \in calm => cache[Closed[x]] = <<>>
  /\ serial => \A c, d \in Calls : stack[c] # <<>> /\ stack[d] # <<>> => c = d

Pend(i) == \E c \in Calls : Fresh(stack[c]) = i
Taken(i) == \E x \in Closes : Lists(doomed[x], i)

\* In every container, calm or not, an instance is in one place at most.
Once ==
  /\ \A c, d \in Calls : Fresh(stack[c]) # None /\ Fresh(stack[c]) = Fresh(stack[d]) => c = d
  /\ \A c \in Calls : Fresh(stack[c]) # None =>
       /\ \A h \in Containers : ~CacheHas(cache[h], Fresh(stack[c]))
       /\ ~Taken(Fresh(stack[c])) /\ ~Lists(destroyed, Fresh(stack[c]))
  /\ \A h \in Containers : \A n \in 1..Len(cache[h]) :
       ~Taken(cache[h][n].instance) /\ ~Lists(destroyed, cache[h][n].instance)
  /\ \A x, y \in Closes : \A n \in 1..Len(doomed[x]), m \in 1..Len(doomed[y]) :
       doomed[x][n] = doomed[y][m] => x = y /\ n = m
  /\ \A x \in Closes : \A n \in 1..Len(doomed[x]) : ~Lists(destroyed, doomed[x][n])
  /\ \A n, m \in 1..Len(destroyed) : destroyed[n] = destroyed[m] => n = m

\* In a calm container none gets lost.
NoneLost ==
  \A i \in Instances : Scoped(i) /\ made[i].home \in calm =>
    Pend(i) \/ CacheHas(cache[made[i].home], i) \/ Taken(i) \/ Lists(destroyed, i)

InOrder ==
  /\ \A h \in calm : \A n, m \in 1..Len(cache[h]) : n < m => cache[h][n].instance < cache[h][m].instance
  /\ \A x \in Closes : Closed[x] \in calm =>
       \A n, m \in 1..Len(doomed[x]) : n < m => doomed[x][m] < doomed[x][n]
  /\ \A d \in 1..Len(destroyed) : made[destroyed[d]].home \in calm =>
       /\ \A n \in 1..Len(cache[made[destroyed[d]].home]) :
            ~Lists(made[cache[made[destroyed[d]].home][n].instance].args, destroyed[d])
       /\ \A x \in Closes : \A n \in 1..Len(doomed[x]) : ~Lists(made[doomed[x][n]].args, destroyed[d])
       /\ \A n \in 1..Len(destroyed) : d < n => ~Lists(made[destroyed[n]].args, destroyed[d])

SinglesOnce ==
  serial =>
    /\ \A t \in Tokens : overrides[t] = None
    /\ \A i \in Instances : made[i].scope = ScopeOf[made[i].token]
    /\ \A i \in Instances : made[i].scope = "singleton" =>
         \/ singletons[made[i].token] = i
         \/ \E c \in Calls : stack[c] # <<>> /\ stack[c][Len(stack[c])].instance = i

KeptInv ==
  /\ KeptShape /\ TokensOK /\ PathsKept /\ TurnsTaken /\ Once
  /\ NoneLost /\ InOrder /\ SinglesOnce

-----------------------------------------------------------------------------

LEMMA ScopedGrows ==
  ASSUME IsolationInv, made' = made \/ \E i \in InstanceType : made' = Append(made, i)
  PROVE  /\ \A i \in Instances : i \in Instances' /\ made'[i] = made[i] /\ (Scoped(i)' <=> Scoped(i))
         /\ \A i : Scoped(i) => Scoped(i)' /\ made'[i] = made[i]
<1>1. \A i \in Instances : i \in Instances' /\ made'[i] = made[i]
  BY GrowsIs DEF Grows
<1> QED
  BY <1>1 DEF Scoped

\* A frame keeps what is known of it while its cache stays and instances are added.
LEMMA FrameStays ==
  ASSUME IsolationInv, NEW d \in Calls, NEW f \in FrameType, FrameOK(d, f), FrameKept(d, f),
         made' = made \/ \E i \in InstanceType : made' = Append(made, i),
         calm' \subseteq calm, serial' => serial,
         Home[d] \in calm' => cache'[Home[d]] = cache[Home[d]],
         serial' => singletons' = singletons
  PROVE  FrameKept(d, f)'
<1>1. \A i \in Instances : made'[i] = made[i] /\ (Scoped(i)' <=> Scoped(i))
  BY ScopedGrows
<1>2. f.instance # None => f.instance \in Instances
  BY DEF FrameOK, Mine
<1>3. \A k \in 1..Len(f.args) : f.args[k] \in Instances
  BY DEF FrameOK, Mine
<1>4. f.instance # None =>
        /\ Len(f.args) = Len(f.deps) /\ made'[f.instance].token = f.token
        /\ f.scope = "request" => made'[f.instance].args = f.args
  BY <1>1, <1>2 DEF FrameKept
<1>5. /\ serial' /\ f.scope # "get" => f.scope = ScopeOf[f.token]
      /\ serial' /\ f.scope = "singleton" => singletons'[f.token] = None
  BY DEF FrameKept
<1>6. ASSUME Home[d] \in calm'
      PROVE  /\ \A k \in 1..Len(f.args) : Scoped(f.args[k])' => CacheHas(cache'[Home[d]], f.args[k])
             /\ f.scope = "request" =>
                  /\ ~HasToken(cache'[Home[d]], f.token)
                  /\ f.instance # None =>
                       \A n \in 1..Len(cache'[Home[d]]) : cache'[Home[d]][n].instance < f.instance
  <2>1. Home[d] \in calm /\ cache'[Home[d]] = cache[Home[d]]
    BY <1>6
  <2>2. /\ \A k \in 1..Len(f.args) : Scoped(f.args[k]) => CacheHas(cache[Home[d]], f.args[k])
        /\ f.scope = "request" =>
             /\ ~HasToken(cache[Home[d]], f.token)
             /\ f.instance # None =>
                  \A n \in 1..Len(cache[Home[d]]) : cache[Home[d]][n].instance < f.instance
    BY <2>1 DEF FrameKept
  <2> QED
    BY <1>1, <1>3, <2>1, <2>2
<1> QED
  BY <1>4, <1>5, <1>6 DEF FrameKept

LEMMA PathStays ==
  ASSUME IsolationInv, NEW d \in Calls, NEW s \in Seq(FrameType), Paths(d, s), PathKept(d, s),
         made' = made \/ \E i \in InstanceType : made' = Append(made, i),
         calm' \subseteq calm, serial' => serial,
         Home[d] \in calm' => cache'[Home[d]] = cache[Home[d]],
         serial' => singletons' = singletons
  PROVE  PathKept(d, s)'
<1>1. ASSUME NEW n \in 1..Len(s) PROVE FrameKept(d, s[n])'
  <2>1. s[n] \in FrameType /\ FrameOK(d, s[n]) /\ FrameKept(d, s[n])
    BY DEF Paths, PathKept
  <2> QED
    BY <2>1, FrameStays
<1> QED
  BY <1>1 DEF PathKept

LEMMA StackOf ==
  ASSUME IsolationInv, NEW d \in Calls
  PROVE  stack[d] \in Seq(FrameType) /\ Paths(d, stack[d])
BY DEF IsolationInv, ContainerShape, FramesOK, Paths

\* The paths of calls that stay where they are.
LEMMA PathsStay ==
  ASSUME IsolationInv, PathsKept, NEW Changed \in SUBSET Calls,
         stack' \in [Calls -> Seq(FrameType)],
         \A d \in Calls \ Changed : stack'[d] = stack[d],
         \A d \in Changed : \E s : stack'[d] = s /\ PathKept(d, s)',
         made' = made \/ \E i \in InstanceType : made' = Append(made, i),
         calm' \subseteq calm, serial' => serial,
         \A d \in Calls \ Changed : stack[d] = <<>> \/
           /\ Home[d] \in calm' => cache'[Home[d]] = cache[Home[d]]
           /\ serial' => singletons' = singletons
  PROVE  PathsKept'
<1>1. ASSUME NEW d \in Calls PROVE \E s : stack'[d] = s /\ PathKept(d, s)'
  <2>1. CASE d \in Changed
    BY <2>1
  <2>2. CASE d \notin Changed
    <3>1. PICK s \in Seq(FrameType) : s = stack[d] /\ Paths(d, s)
      BY StackOf
    <3>2. stack'[d] = s
      BY <2>2, <3>1
    <3>3. PathKept(d, s)
      BY <3>1 DEF PathsKept
    <3>4. CASE s = <<>>
      <4>1. Len(s) = 0
        BY <3>4
      <4> QED
        BY <3>2, <4>1 DEF PathKept
    <3>5. CASE s # <<>>
      <4>1. PathKept(d, s)'
        BY <2>2, <3>1, <3>3, <3>5, PathStays
      <4> QED
        BY <3>2, <4>1
    <3> QED
      BY <3>4, <3>5
  <2> QED
    BY <2>1, <2>2
<1> QED
  BY <1>1 DEF PathsKept

\* A call that goes on, or ends, takes nobody's turn.
LEMMA TurnsStay ==
  ASSUME TurnsTaken, NEW c \in Calls, NEW s, stack[c] # <<>>,
         DOMAIN stack = Calls, stack' = [stack EXCEPT ![c] = s],
         UNCHANGED <<calm, serial, closing>>,
         \A x \in Closes : closing[x] = "destroying" /\ Closed[x] \in calm /\ Closed[x] # Home[c]
           => cache'[Closed[x]] = cache[Closed[x]]
  PROVE  TurnsTaken'
<1>1. \A d \in Calls : stack'[d] # <<>> => stack[d] # <<>>
  OBVIOUS
<1>2. \A a, b \in Calls : Home[a] = Home[b] /\ Home[a] \in calm' /\ stack'[a] # <<>> /\ stack'[b] # <<>> => a = b
  BY <1>1 DEF TurnsTaken
<1>3. \A a \in Calls, x \in Closes :
        stack'[a] # <<>> /\ closing'[x] = "destroying" /\ Closed[x] = Home[a] => Home[a] \notin calm'
  BY <1>1 DEF TurnsTaken
<1>4. \A x, y \in Closes : closing'[x] = "destroying" /\ closing'[y] = "destroying" /\
        Closed[x] = Closed[y] /\ Closed[x] \in calm' => x = y
  BY DEF TurnsTaken
<1>5. \A x \in Closes : closing'[x] = "destroying" /\ Closed[x] \in calm' => cache'[Closed[x]] = <<>>
  BY DEF TurnsTaken
<1>6. serial' => \A a, b \in Calls : stack'[a] # <<>> /\ stack'[b] # <<>> => a = b
  BY <1>1 DEF TurnsTaken
<1> QED
  BY <1>2, <1>3, <1>4, <1>5, <1>6 DEF TurnsTaken

\* Where instances are does not change while caches and closes do not and nobody
\* constructs or stores one.
LEMMA PlacesStay ==
  ASSUME IsolationInv, KeptInv, \A d \in Calls : Fresh(stack'[d]) = Fresh(stack[d]),
         UNCHANGED <<made, cache, doomed, destroyed>>, calm' \subseteq calm
  PROVE  Once' /\ NoneLost' /\ InOrder'
<1>1. Once'
  BY DEF KeptInv, Once, CacheHas, Taken, Lists
<1>2. NoneLost'
  BY DEF KeptInv, NoneLost, CacheHas, Taken, Lists, Pend, Scoped, Instances
<1>3. InOrder'
  <2>1. InOrder
    BY DEF KeptInv
  <2>2. \A h \in calm' : \A n, m \in 1..Len(cache'[h]) :
          n < m => cache'[h][n].instance < cache'[h][m].instance
    BY <2>1 DEF InOrder
  <2>3. \A x \in Closes : Closed[x] \in calm' =>
          \A n, m \in 1..Len(doomed'[x]) : n < m => doomed'[x][m] < doomed'[x][n]
    BY <2>1 DEF InOrder
  <2>4. ASSUME NEW d \in 1..Len(destroyed'), made'[destroyed'[d]].home \in calm'
        PROVE  /\ \A n \in 1..Len(cache'[made'[destroyed'[d]].home]) :
                    ~Lists(made'[cache'[made'[destroyed'[d]].home][n].instance].args, destroyed'[d])
               /\ \A x \in Closes : \A n \in 1..Len(doomed'[x]) :
                    ~Lists(made'[doomed'[x][n]].args, destroyed'[d])
               /\ \A n \in 1..Len(destroyed') : d < n => ~Lists(made'[destroyed'[n]].args, destroyed'[d])
    BY <2>1, <2>4 DEF InOrder
  <2> QED
    BY <2>2, <2>3, <2>4 DEF InOrder
<1> QED
  BY <1>1, <1>2, <1>3

LEMMA TokensStay ==
  ASSUME TokensOK, UNCHANGED <<made, singletons, overrides, cache, doomed, destroyed>>
  PROVE  TokensOK'
BY DEF TokensOK, Scoped, Instances

\* Steps on the path of one call by which no instance is made or stored.
LEMMA PathStep ==
  ASSUME IsolationInv, KeptInv, NEW c \in Calls, NEW s \in Seq(FrameType),
         stack' = [stack EXCEPT ![c] = s], PathKept(c, s)',
         Fresh(s) = None, Fresh(stack[c]) = None,
         stack[c] # <<>> => stack[c][Len(stack[c])].instance = None,
         UNCHANGED <<made, singletons, overrides, cache, doomed, destroyed, children, opened,
                     answered, closing>>,
         calm' \subseteq calm, serial' \in BOOLEAN, serial' => serial, TurnsTaken'
  PROVE  KeptInv'
<1>1. stack \in [Calls -> Seq(FrameType)]
  BY DEF IsolationInv, ContainerShape
<1>2. \A d \in Calls : stack'[d] = IF d = c THEN s ELSE stack[d]
  BY <1>1
<1>3. stack' \in [Calls -> Seq(FrameType)]
  BY <1>1
<1>4. PathsKept'
  <2>1. PICK C \in SUBSET Calls : C = {c}
    OBVIOUS
  <2> QED
    BY <1>2, <1>3, <2>1, PathsStay DEF KeptInv
<1>5. \A d \in Calls : Fresh(stack'[d]) = Fresh(stack[d])
  BY <1>2
<1>6. Once' /\ NoneLost' /\ InOrder'
  BY <1>5, PlacesStay
<1>7. TokensOK'
  BY TokensStay DEF KeptInv
<1>8. KeptShape'
  BY DEF KeptInv, KeptShape
<1>9. SinglesOnce'
  <2>1. ASSUME serial', NEW i \in Instances', made'[i].scope = "singleton"
        PROVE  \/ singletons'[made'[i].token] = i
               \/ \E d \in Calls : stack'[d] # <<>> /\ stack'[d][Len(stack'[d])].instance = i
    <3>1. i \in Instances /\ made[i].scope = "singleton" /\ serial
      BY <2>1 DEF Instances
    <3>2. CASE singletons[made[i].token] = i
      BY <3>2
    <3>3. CASE \E d \in Calls : stack[d] # <<>> /\ stack[d][Len(stack[d])].instance = i
      <4>1. PICK d \in Calls : stack[d] # <<>> /\ stack[d][Len(stack[d])].instance = i
        BY <3>3
      <4>2. i # None
        BY <3>1, ContainerAssumption DEF Instances
      <4>3. d # c
        BY <4>1, <4>2
      <4> QED
        BY <1>2, <4>1, <4>3
    <3> QED
      BY <3>1, <3>2, <3>3 DEF KeptInv, SinglesOnce
  <2>2. serial' => /\ \A t \in Tokens : overrides'[t] = None
                   /\ \A i \in Instances' : made'[i].scope = ScopeOf[made'[i].token]
    BY DEF KeptInv, SinglesOnce, Instances
  <2> QED
    BY <2>1, <2>2 DEF SinglesOnce
<1> QED
  BY <1>4, <1>6, <1>7, <1>8, <1>9 DEF KeptInv


\* Steps that touch neither instances nor calls.
LEMMA QuietStep ==
  ASSUME IsolationInv, KeptInv, KeptShape',
         UNCHANGED <<made, singletons, overrides, cache, stack, doomed, destroyed, calm, serial>>,
         \A x \in Closes : closing'[x] = "destroying" => closing[x] = "destroying"
  PROVE  KeptInv'
<1>1. PathsKept'
  <2>1. stack' \in [Calls -> Seq(FrameType)]
    BY DEF IsolationInv, ContainerShape
  <2>2. PICK C \in SUBSET Calls : C = {}
    OBVIOUS
  <2> QED
    BY <2>1, <2>2, PathsStay DEF KeptInv
<1>2. TokensOK'
  BY TokensStay DEF KeptInv
<1>3. TurnsTaken'
  BY DEF KeptInv, TurnsTaken
<1>4. Once' /\ NoneLost' /\ InOrder'
  BY PlacesStay
<1>5. SinglesOnce'
  BY DEF KeptInv, SinglesOnce, Instances
<1> QED
  BY <1>1, <1>2, <1>3, <1>4, <1>5 DEF KeptInv

\* What goes down to the frame below is cached when it has request scope.
LEMMA PassedKept ==
  ASSUME NEW c \in Calls, NEW s \in Seq(FrameType), Len(s) > 0, PathKept(c, s)',
         s[Len(s)].instance = None, NEW i \in Nat,
         Home[c] \in calm' /\ Scoped(i)' => CacheHas(cache'[Home[c]], i)
  PROVE  /\ Passed(s, i) \in Seq(FrameType) /\ PathKept(c, Passed(s, i))'
         /\ Fresh(Passed(s, i)) = None
<1>1. PICK p : p = Passed(s, i)
  OBVIOUS
<1>2. /\ p \in Seq(FrameType) /\ Len(p) = Len(s)
      /\ \A n \in 1..Len(s) : n # Len(s) => p[n] = s[n]
      /\ p[Len(s)].args = Append(s[Len(s)].args, i) /\ p[Len(s)].scope = s[Len(s)].scope
      /\ p[Len(s)].token = s[Len(s)].token /\ p[Len(s)].deps = s[Len(s)].deps
      /\ p[Len(s)].instance = None
  BY <1>1, PassedIs
<1>3. \A n \in 1..Len(s) : p[n].token = s[n].token /\ p[n].instance = s[n].instance
  BY <1>2
<1>4. ASSUME NEW n \in 1..Len(s) PROVE FrameKept(c, p[n])'
  <2>1. FrameKept(c, s[n])'
    BY DEF PathKept
  <2>2. CASE n # Len(s)
    BY <1>2, <2>1, <2>2
  <2>3. CASE n = Len(s)
    <3>1. PICK args : args = s[n].args
      OBVIOUS
    <3>2. s[n] \in FrameType
      OBVIOUS
    <3>3. args \in Seq(Nat)
      BY <3>1, <3>2 DEF FrameType
    <3>4. PICK all : all = Append(args, i)
      OBVIOUS
    <3>5. \A k \in 1..Len(all) : all[k] = i \/ \E m \in 1..Len(args) : all[k] = args[m]
      BY <3>3, <3>4
    <3>6. p[n].args = all
      BY <1>2, <2>3, <3>1, <3>4
    <3>7. Home[c] \in calm' =>
            \A k \in 1..Len(args) : Scoped(args[k])' => CacheHas(cache'[Home[c]], args[k])
      BY <2>1, <3>1 DEF FrameKept
    <3>8. Home[c] \in calm' =>
            \A k \in 1..Len(p[n].args) : Scoped(p[n].args[k])' => CacheHas(cache'[Home[c]], p[n].args[k])
      <4>1. ASSUME Home[c] \in calm', NEW k \in 1..Len(all), Scoped(all[k])'
            PROVE  CacheHas(cache'[Home[c]], all[k])
        <5>1. PICK a : a = all[k]
          OBVIOUS
        <5>2. Scoped(a)'
          BY <4>1, <5>1
        <5>3. CASE a = i
          BY <4>1, <5>1, <5>2, <5>3
        <5>4. CASE \E m \in 1..Len(args) : a = args[m]
          BY <3>7, <4>1, <5>1, <5>2, <5>4
        <5> QED
          BY <3>5, <5>1, <5>3, <5>4
      <4> QED
        BY <3>6, <4>1
    <3> QED
      BY <1>2, <2>1, <2>3, <3>8 DEF FrameKept
  <2> QED
    BY <2>2, <2>3
<1>5. PathKept(c, p)'
  BY <1>2, <1>3, <1>4 DEF PathKept
<1>6. Fresh(p) = None
  BY <1>2 DEF Fresh
<1> QED
  BY <1>1, <1>2, <1>5, <1>6

LEMMA FrontKept ==
  ASSUME NEW c \in Calls, NEW s \in Seq(FrameType), Len(s) > 1, PathKept(c, s)
  PROVE  /\ Front(s) \in Seq(FrameType) /\ Len(Front(s)) > 0 /\ PathKept(c, Front(s))
         /\ \A n \in 1..Len(Front(s)) : /\ Front(s)[n] = s[n] /\ Front(s)[n].instance = None
                                        /\ Front(s)[n].token # s[Len(s)].token
<1>1. PICK r : r = Front(s)
  OBVIOUS
<1>2. /\ r \in Seq(FrameType) /\ Len(r) = Len(s) - 1 /\ \A n \in 1..Len(s) - 1 : r[n] = s[n]
  BY <1>1 DEF Front
<1>3. \A n \in 1..Len(r) : n \in 1..Len(s) /\ n # Len(s) /\ r[n] = s[n]
  BY <1>2
<1>4. PathKept(c, r)
  BY <1>3 DEF PathKept
<1>5. \A n \in 1..Len(r) : r[n].instance = None /\ r[n].token # s[Len(s)].token
  <2>1. Len(s) \in 1..Len(s)
    OBVIOUS
  <2> QED
    BY <1>3, <2>1 DEF PathKept
<1> QED
  BY <1>1, <1>2, <1>3, <1>4, <1>5

-----------------------------------------------------------------------------

LEMMA TopKept ==
  ASSUME IsolationInv, KeptInv, NEW c \in Calls, stack[c] # <<>>
  PROVE  /\ PathKept(c, stack[c]) /\ FrameKept(c, Top(c))
         /\ Needs(c) \/ Top(c).scope \in {"existing", "get"} => Top(c).instance = None
         /\ Top(c).instance = None => Fresh(stack[c]) = None
<1>1. PathKept(c, stack[c])
  BY DEF KeptInv, PathsKept
<1>2. /\ stack[c] \in Seq(FrameType) /\ Len(stack[c]) > 0 /\ Top(c) = stack[c][Len(stack[c])]
      /\ Top(c) \in FrameType /\ FrameOK(c, Top(c))
  BY TopIs
<1>3. Len(stack[c]) \in 1..Len(stack[c])
  BY <1>2
<1>4. FrameKept(c, Top(c))
  BY <1>1, <1>2, <1>3 DEF PathKept
<1>5. Top(c).args \in Seq(Nat) /\ Top(c).deps \in Seq(Tokens \cup {Missing})
  BY <1>2 DEF FrameType
<1>6. Needs(c) => Top(c).instance = None
  BY <1>4, <1>5 DEF Needs, FrameKept
<1>7. Top(c).scope \in {"existing", "get"} => Top(c).instance = None
  BY <1>2 DEF FrameOK
<1>8. Top(c).instance = None => Fresh(stack[c]) = None
  BY <1>2 DEF Fresh
<1> QED
  BY <1>1, <1>4, <1>6, <1>7, <1>8

LEMMA GetKept ==
  ASSUME IsolationInv, KeptInv, NEW c \in Calls, Get(c)
  PROVE  KeptInv'
<1>1. PICK e : e = Entry(c)
  OBVIOUS
<1>2. /\ e.token = Missing /\ e.scope = "get" /\ e.deps = <<Wanted[c]>> /\ e.args = <<>>
      /\ e.instance = None /\ e \in FrameType
  BY <1>1, ContainerAssumption DEF Entry, FrameType
<1>3. PICK s : s = <<e>>
  OBVIOUS
<1>4. s \in Seq(FrameType) /\ Len(s) = 1 /\ s[1] = e
  BY <1>2, <1>3
<1>5. FrameKept(c, e)'
  BY <1>2 DEF FrameKept
<1>6. PathKept(c, s)'
  BY <1>4, <1>5 DEF PathKept
<1>7. Fresh(s) = None
  BY <1>2, <1>4 DEF Fresh
<1>8. stack[c] = <<>> /\ Fresh(stack[c]) = None
  BY DEF Get, Fresh
<1>9. /\ stack' = [stack EXCEPT ![c] = s]
      /\ calm' = calm \ {h \in {Home[c]} : Busy(h) \/ Destroying(h)}
      /\ serial' = (serial /\ \A d \in Calls : stack[d] = <<>>)
      /\ UNCHANGED <<made, singletons, overrides, cache, doomed, destroyed, children, opened,
                     answered, closing>>
  BY <1>1, <1>3 DEF Get
<1>10. \A d \in Calls : stack'[d] = IF d = c THEN s ELSE stack[d]
  BY <1>9 DEF IsolationInv, ContainerShape
<1>11. serial \in BOOLEAN
  BY DEF KeptInv, KeptShape
<1>12. TurnsTaken'
  <2> USE DEF TurnsTaken
  <2>1. TurnsTaken
    BY DEF KeptInv
  <2>2. \A a, b \in Calls : Home[a] = Home[b] /\ Home[a] \in calm' /\ stack'[a] # <<>> /\ stack'[b] # <<>> => a = b
    BY <1>9, <1>10, <2>1 DEF Busy
  <2>3. \A a \in Calls, x \in Closes :
          stack'[a] # <<>> /\ closing'[x] = "destroying" /\ Closed[x] = Home[a] => Home[a] \notin calm'
    BY <1>9, <1>10, <2>1 DEF Destroying
  <2>4. \A x, y \in Closes : closing'[x] = "destroying" /\ closing'[y] = "destroying" /\
          Closed[x] = Closed[y] /\ Closed[x] \in calm' => x = y
    BY <1>9, <2>1
  <2>5. \A x \in Closes : closing'[x] = "destroying" /\ Closed[x] \in calm' => cache'[Closed[x]] = <<>>
    BY <1>9, <2>1
  <2>6. serial' => \A a, b \in Calls : stack'[a] # <<>> /\ stack'[b] # <<>> => a = b
    BY <1>9, <1>10
  <2> QED
    BY <2>2, <2>3, <2>4, <2>5, <2>6
<1>13. calm' \subseteq calm /\ serial' \in BOOLEAN /\ (serial' => serial)
  BY <1>9, <1>11
<1> QED
  BY <1>4, <1>6, <1>7, <1>8, <1>9, <1>12, <1>13, PathStep

\* A path of a call that is under way, as it goes on.
LEMMA WayStep ==
  ASSUME IsolationInv, KeptInv, NEW c \in Calls, stack[c] # <<>>, Top(c).instance = None,
         NEW s \in Seq(FrameType), stack' = [stack EXCEPT ![c] = s], PathKept(c, s)', Fresh(s) = None,
         UNCHANGED <<made, singletons, overrides, cache, doomed, destroyed, children, opened,
                     answered, closing, calm, serial>>
  PROVE  KeptInv'
<1>1. Fresh(stack[c]) = None /\ stack[c][Len(stack[c])].instance = None
  BY TopIs, TopKept
<1>2. TurnsTaken'
  BY TurnsStay DEF KeptInv, IsolationInv, ContainerShape
<1>3. calm' \subseteq calm /\ serial' \in BOOLEAN /\ (serial' => serial)
  BY DEF KeptInv, KeptShape
<1> QED
  BY <1>1, <1>2, <1>3, PathStep

LEMMA EndKept ==
  ASSUME IsolationInv, KeptInv, NEW c \in Calls, stack[c] # <<>>, Top(c).instance = None,
         stack' = [stack EXCEPT ![c] = <<>>],
         UNCHANGED <<made, singletons, overrides, cache, doomed, destroyed, children, opened,
                     answered, closing, calm, serial>>
  PROVE  KeptInv'
<1>1. PICK s : s = <<>>
  OBVIOUS
<1>2. s \in Seq(FrameType) /\ Len(s) = 0 /\ stack' = [stack EXCEPT ![c] = s]
  BY <1>1
<1>3. PathKept(c, s)' /\ Fresh(s) = None
  BY <1>1, <1>2 DEF PathKept, Fresh
<1> QED
  BY <1>2, <1>3, WayStep

LEMMA RejectKept ==
  ASSUME IsolationInv, KeptInv, NEW c \in Calls,
         Unresolvable(c) \/ ConstructThrows(c) \/ Settle(c)
  PROVE  KeptInv'
<1>1. stack[c] # <<>> /\ Top(c).instance = None
  <2>1. stack[c] # <<>>
    BY DEF Unresolvable, ConstructThrows, Settle, Needs, Complete
  <2>2. Needs(c) \/ Top(c).instance = None \/ Top(c).scope = "get"
    BY DEF Unresolvable, ConstructThrows, Settle
  <2> QED
    BY <2>1, <2>2, TopKept
<1>2. /\ stack' = [stack EXCEPT ![c] = <<>>]
      /\ UNCHANGED <<made, singletons, overrides, cache, doomed, destroyed, children, opened,
                     answered, closing, calm, serial>>
  BY DEF Unresolvable, ConstructThrows, Settle, Reject
<1> QED
  BY <1>1, <1>2, EndKept

\* A token that is found in the cache of a container.
LEMMA MapGetHas ==
  ASSUME NEW m \in Seq(CacheType), NEW t
  PROVE  /\ MapGet(m, t) # None => CacheHas(m, MapGet(m, t))
         /\ MapGet(m, t) = None => ~HasToken(m, t)
<1>1. MapGet(m, t) # None => CacheHas(m, MapGet(m, t))
  BY MapGetIs DEF CacheHas
<1>2. ASSUME HasToken(m, t) PROVE MapGet(m, t) # None
  <2>1. PICK n \in 1..Len(m) : m[n].token = t
    BY <1>2 DEF HasToken
  <2>2. n \in DOMAIN m
    BY <2>1
  <2>3. \E e \in ToSet(m) : e.token = t
    BY <2>1, <2>2 DEF ToSet
  <2>4. PICK k \in DOMAIN m : (CHOOSE e \in ToSet(m) : e.token = t) = m[k]
    BY <2>3 DEF ToSet
  <2>5. MapGet(m, t) = m[k].instance
    BY <2>1, <2>2, <2>4 DEF MapGet
  <2>6. m[k] \in CacheType
    BY <2>4
  <2>7. m[k].instance \in Nat
    BY <2>6 DEF CacheType
  <2> QED
    BY <2>5, <2>7, ContainerAssumption
<1> QED
  BY <1>1, <1>2

LEMMA ReuseKept ==
  ASSUME IsolationInv, KeptInv, NEW c \in Calls, Reuse(c)
  PROVE  KeptInv'
<1>1. stack[c] # <<>> /\ NextDep(c) \in Tokens /\ Home[c] \in Containers
  BY NextDepIs, ContainerAssumption DEF Reuse
<1>2. PICK i : i = Found(Home[c], NextDep(c))
  OBVIOUS
<1>3. i # None /\ i \in Nat /\ Mine(Home[c], i)
  BY <1>1, <1>2, FoundIs DEF Reuse
<1>4. PICK r : r = stack[c]
  OBVIOUS
<1>5. r \in Seq(FrameType) /\ Len(r) > 0 /\ PathKept(c, r) /\ Paths(c, r)
      /\ r[Len(r)].instance = None /\ Top(c).instance = None
  BY <1>1, <1>4, TopIs, TopKept DEF Reuse
<1>6. UNCHANGED <<made, singletons, overrides, cache, doomed, destroyed, children, opened,
                  answered, closing, calm, serial>>
  BY DEF Reuse
<1>7. PathKept(c, r)'
  BY <1>5, <1>6, PathStays
<1>8. Scoped(i)' => CacheHas(cache'[Home[c]], i)
  <2>1. ASSUME Scoped(i)' PROVE CacheHas(cache[Home[c]], i)
    <3>1. made[i].scope = "request"
      BY <1>6, <2>1 DEF Scoped
    <3>2. ProviderScope(NextDep(c)) # "singleton"
      BY <1>1, <1>2, <1>3, <3>1 DEF Found, IsolationInv, SharedOK
    <3>3. i = MapGet(cache[Home[c]], NextDep(c))
      BY <1>2, <1>3, <3>2 DEF Found
    <3>4. cache[Home[c]] \in Seq(CacheType)
      BY <1>1 DEF IsolationInv, ContainerShape
    <3> QED
      BY <1>3, <3>3, <3>4, MapGetHas
  <2> QED
    BY <1>6, <2>1
<1>9. PICK s : s = Passed(r, i)
  OBVIOUS
<1>10. s \in Seq(FrameType) /\ PathKept(c, s)' /\ Fresh(s) = None
  BY <1>3, <1>5, <1>7, <1>8, <1>9, PassedKept
<1>11. stack' = [stack EXCEPT ![c] = s]
  BY <1>2, <1>4, <1>9 DEF Reuse
<1> QED
  BY <1>1, <1>5, <1>6, <1>10, <1>11, WayStep

LEMMA ForwardKept ==
  ASSUME IsolationInv, KeptInv, NEW c \in Calls, Forward(c)
  PROVE  KeptInv'
<1>1. stack[c] # <<>> /\ Top(c).scope = "existing" /\ Len(Top(c).args) = Len(Top(c).deps)
  BY DEF Forward, Complete
<1>2. PICK f \in FrameType : f = Top(c) /\ FrameOK(c, f) /\ FrameKept(c, f)
  BY <1>1, TopIs, TopKept
<1>3. PICK i : i = f.args[1]
  OBVIOUS
<1>4. i \in Nat /\ 1 \in 1..Len(f.args)
  BY <1>1, <1>2, <1>3 DEF FrameOK, FrameType
<1>5. PICK w \in Seq(FrameType) : w = stack[c]
  BY <1>1, TopIs
<1>6. PathKept(c, w) /\ Top(c).instance = None /\ Paths(c, w)
  BY <1>1, <1>5, TopKept, TopIs
<1>7. Len(w) > 1
  <2>1. Len(w) > 0 /\ Len(w) # 1
    BY <1>1, <1>5, TopIs
  <2>2. PICK n \in Nat : n = Len(w)
    OBVIOUS
  <2> QED
    BY <2>1, <2>2
<1>8. UNCHANGED <<made, singletons, overrides, cache, doomed, destroyed, children, opened,
                  answered, closing, calm, serial>>
  BY DEF Forward
<1>9. PICK r : r = Front(w)
  OBVIOUS
<1>10. /\ r \in Seq(FrameType) /\ Len(r) > 0 /\ PathKept(c, r) /\ Paths(c, r)
       /\ r[Len(r)].instance = None
  <2>1. /\ r \in Seq(FrameType) /\ Len(r) > 0 /\ PathKept(c, r)
        /\ \A n \in 1..Len(r) : r[n].instance = None
    BY <1>6, <1>7, <1>9, FrontKept
  <2>2. Paths(c, r)
    BY <1>6, <1>7, <1>9, FrontPaths
  <2>3. Len(r) \in 1..Len(r)
    BY <2>1
  <2> QED
    BY <2>1, <2>2, <2>3
<1>11. PathKept(c, r)'
  BY <1>8, <1>10, PathStays
<1>12. Home[c] \in calm' /\ Scoped(i)' => CacheHas(cache'[Home[c]], i)
  <2>1. Scoped(i)' <=> Scoped(i)
    BY <1>8 DEF Scoped, Instances
  <2>2. Home[c] \in calm => (Scoped(f.args[1]) => CacheHas(cache[Home[c]], f.args[1]))
    BY <1>2, <1>4 DEF FrameKept
  <2> QED
    BY <1>3, <1>8, <2>1, <2>2
<1>13. PICK s : s = Passed(r, i)
  OBVIOUS
<1>14. s \in Seq(FrameType) /\ PathKept(c, s)' /\ Fresh(s) = None
  BY <1>4, <1>10, <1>11, <1>12, <1>13, PassedKept
<1>15. stack' = [stack EXCEPT ![c] = s]
  BY <1>2, <1>3, <1>5, <1>9, <1>13 DEF Forward
<1> QED
  BY <1>1, <1>6, <1>8, <1>14, <1>15, WayStep

LEMMA DescendKept ==
  ASSUME IsolationInv, KeptInv, NEW c \in Calls, Descend(c)
  PROVE  KeptInv'
<1>1. stack[c] # <<>> /\ NextDep(c) \in Tokens /\ Top(c).instance = None
  BY NextDepIs, TopKept DEF Descend
<1>2. PICK t \in Tokens : t = NextDep(c)
  BY <1>1
<1>3. PICK deps : deps = IF overrides[t] = None THEN DepsOf[t] ELSE <<>>
  OBVIOUS
<1>4. PICK f : f = [token |-> t, scope |-> ProviderScope(t), deps |-> deps, args |-> <<>>,
                    instance |-> overrides[t]]
  OBVIOUS
<1>5. /\ ProviderScope(t) \in Kinds
      /\ overrides[t] # None => ProviderScope(t) = "singleton"
  BY ContainerAssumption DEF ProviderScope, Kinds
<1>6. overrides[t] \in Nat \cup {None} /\ deps \in Seq(Tokens \cup {Missing})
  BY <1>3, ContainerAssumption DEF IsolationInv, ContainerShape
<1>7. /\ f \in FrameType /\ f.token = t /\ f.scope = ProviderScope(t) /\ f.deps = deps
      /\ f.args = <<>> /\ f.instance = overrides[t]
  BY <1>4, <1>5, <1>6 DEF FrameType
<1>8. UNCHANGED <<made, singletons, overrides, cache, doomed, destroyed, children, opened,
                  answered, closing, calm, serial>>
  BY DEF Descend
<1>9. Home[c] \in Containers /\ cache[Home[c]] \in Seq(CacheType) /\ Found(Home[c], t) = None
  BY <1>2, ContainerAssumption DEF Descend, IsolationInv, ContainerShape
<1>10. FrameKept(c, f)'
  <2>1. f.instance # None => Len(f.args) = Len(f.deps) /\ made[f.instance].token = f.token
    BY <1>3, <1>7 DEF KeptInv, TokensOK
  <2>2. f.instance # None => f.scope = "singleton"
    BY <1>5, <1>7
  <2>3. f.scope = "request" => ~HasToken(cache[Home[c]], f.token)
    BY <1>7, <1>9, MapGetHas DEF Found
  <2>4. /\ serial => f.scope = ScopeOf[f.token]
        /\ f.scope = "singleton" => singletons[f.token] = None
    BY <1>7, <1>9 DEF Found, ProviderScope, KeptInv, SinglesOnce
  <2>5. Len(f.args) = 0
    BY <1>7
  <2> QED
    BY <1>8, <2>1, <2>2, <2>3, <2>4, <2>5 DEF FrameKept
<1>11. PICK r \in Seq(FrameType) : r = stack[c] /\ PathKept(c, r) /\ Paths(c, r) /\ Len(r) > 0
  BY <1>1, TopIs, TopKept
<1>12. PathKept(c, r)' /\ \A n \in 1..Len(r) : r[n].instance = None
  <2>1. PathKept(c, r)'
    BY <1>8, <1>11, PathStays
  <2>2. r[Len(r)].instance = None
    BY <1>1, <1>11, TopIs
  <2> QED
    BY <1>11, <2>1, <2>2 DEF PathKept
<1>13. PICK s : s = Append(r, f)
  OBVIOUS
<1>14. /\ s \in Seq(FrameType) /\ Len(s) = Len(r) + 1 /\ s[Len(s)] = f
       /\ \A n \in 1..Len(r) : s[n] = r[n]
  BY <1>7, <1>11, <1>13
<1>15. \A n \in 1..Len(r) : r[n].token # t
  <2>1. \A n \in DOMAIN r : r[n].token \in Path(c)
    BY <1>11 DEF Path
  <2>2. t \notin Path(c)
    BY <1>2 DEF Descend, Refused
  <2> QED
    BY <1>11, <2>1, <2>2
<1>16. PathKept(c, s)'
  <2>1. \A n \in 1..Len(s) : n = Len(s) \/ n \in 1..Len(r)
    BY <1>14
  <2>2. \A n \in 1..Len(s) : FrameKept(c, s[n])'
    <3>1. \A n \in 1..Len(r) : FrameKept(c, r[n])'
      BY <1>12 DEF PathKept
    <3>2. ASSUME NEW n \in 1..Len(s) PROVE FrameKept(c, s[n])'
      BY <1>10, <1>14, <2>1, <3>1
    <3> QED
      BY <3>2
  <2>3. \A n \in 1..Len(s) : s[n].instance # None => n = Len(s)
    BY <1>12, <1>14, <2>1
  <2>4. \A n, m \in 1..Len(s) : n # m => s[n].token # s[m].token
    <3>1. \A n, m \in 1..Len(r) : n # m => r[n].token # r[m].token
      BY <1>11 DEF PathKept
    <3>2. \A n \in 1..Len(r) : s[n].token = r[n].token /\ s[n].token # s[Len(s)].token
      BY <1>7, <1>14, <1>15
    <3>3. ASSUME NEW n \in 1..Len(s), NEW m \in 1..Len(s), n # m
          PROVE  s[n].token # s[m].token
      <4>1. CASE n \in 1..Len(r) /\ m \in 1..Len(r)
        BY <3>1, <3>2, <3>3, <4>1
      <4>2. CASE n = Len(s) \/ m = Len(s)
        BY <2>1, <3>2, <3>3, <4>2
      <4> QED
        BY <2>1, <4>1, <4>2
    <3> QED
      BY <3>3
  <2> QED
    BY <2>2, <2>3, <2>4 DEF PathKept
<1>17. Fresh(s) = None
  BY <1>5, <1>7, <1>14 DEF Fresh
<1>18. stack' = [stack EXCEPT ![c] = s]
  BY <1>2, <1>3, <1>4, <1>11, <1>13 DEF Descend
<1> QED
  BY <1>1, <1>8, <1>14, <1>16, <1>17, <1>18, WayStep


-----------------------------------------------------------------------------

\* The numbers of instances that are somewhere.
LEMMA PlacesAre ==
  ASSUME IsolationInv, KeptInv
  PROVE  /\ \A c \in Calls : Fresh(stack[c]) # None => Scoped(Fresh(stack[c]))
         /\ \A h \in Containers : \A i : CacheHas(cache[h], i) => Scoped(i) /\ made[i].home = h
         /\ \A i : Taken(i) => Scoped(i)
         /\ \A i : Lists(destroyed, i) => Scoped(i)
         /\ \A i : Scoped(i) => i \in Nat /\ i # None /\ made[i] \in InstanceType
<1>1. ASSUME NEW c \in Calls, Fresh(stack[c]) # None PROVE Scoped(Fresh(stack[c]))
  <2>1. stack[c] # <<>> /\ Fresh(stack[c]) = stack[c][Len(stack[c])].instance
        /\ stack[c][Len(stack[c])].scope = "request"
    BY <1>1 DEF Fresh
  <2>2. FrameOK(c, stack[c][Len(stack[c])])
    BY <2>1, TopIs
  <2> QED
    BY <1>1, <2>1, <2>2 DEF FrameOK, Mine, Scoped
<1>2. \A h \in Containers : \A i : CacheHas(cache[h], i) => Scoped(i) /\ made[i].home = h
  BY DEF CacheHas, KeptInv, TokensOK, IsolationInv, CachesOK
<1>3. \A i : Taken(i) => Scoped(i)
  BY DEF Taken, Lists, KeptInv, TokensOK
<1>4. \A i : Lists(destroyed, i) => Scoped(i)
  BY DEF Lists, KeptInv, TokensOK
<1>5. \A i : Scoped(i) => i \in Nat /\ i # None /\ made[i] \in InstanceType
  <2>1. made \in Seq(InstanceType)
    BY DEF IsolationInv, ContainerShape
  <2>2. ASSUME NEW i \in 1..Len(made) PROVE i \in Nat /\ i # None /\ made[i] \in InstanceType
    <3>1. i \in Nat /\ made[i] \in InstanceType
      BY <2>1
    <3>2. None \notin Nat
      BY ContainerAssumption, Zenon
    <3> QED
      BY <3>1, <3>2
  <2> QED
    BY <2>2 DEF Scoped, Instances
<1> QED
  BY <1>1, <1>2, <1>3, <1>4, <1>5

\* Where instances are does not change while instances are added that are in no
\* place yet.
LEMMA PlacesGrow ==
  ASSUME IsolationInv, KeptInv, NEW x \in InstanceType, made' = Append(made, x),
         UNCHANGED <<cache, doomed, destroyed>>, calm' \subseteq calm
  PROVE  InOrder'
<1>1. \A i : Scoped(i) => made'[i] = made[i]
  BY ScopedGrows DEF Scoped
<1>2. InOrder /\ TokensOK
  BY DEF KeptInv
<1>3. \A h \in Containers : \A n \in 1..Len(cache[h]) : made'[cache[h][n].instance] = made[cache[h][n].instance]
  BY <1>1, <1>2 DEF TokensOK
<1>4. \A y \in Closes : \A n \in 1..Len(doomed[y]) : made'[doomed[y][n]] = made[doomed[y][n]]
  BY <1>1, <1>2 DEF TokensOK
<1>5. \A n \in 1..Len(destroyed) : made'[destroyed[n]] = made[destroyed[n]]
  BY <1>1, <1>2 DEF TokensOK
<1>6. \A h \in calm' : \A n, m \in 1..Len(cache'[h]) :
        n < m => cache'[h][n].instance < cache'[h][m].instance
  BY <1>2 DEF InOrder
<1>7. \A y \in Closes : Closed[y] \in calm' =>
        \A n, m \in 1..Len(doomed'[y]) : n < m => doomed'[y][m] < doomed'[y][n]
  BY <1>2 DEF InOrder
<1>8. ASSUME NEW d \in 1..Len(destroyed'), made'[destroyed'[d]].home \in calm'
      PROVE  /\ \A n \in 1..Len(cache'[made'[destroyed'[d]].home]) :
                  ~Lists(made'[cache'[made'[destroyed'[d]].home][n].instance].args, destroyed'[d])
             /\ \A y \in Closes : \A n \in 1..Len(doomed'[y]) :
                  ~Lists(made'[doomed'[y][n]].args, destroyed'[d])
             /\ \A n \in 1..Len(destroyed') : d < n => ~Lists(made'[destroyed'[n]].args, destroyed'[d])
  <2>1. PICK i : i = destroyed[d]
    OBVIOUS
  <2>2. PICK h : h = made[i].home
    OBVIOUS
  <2>3. made'[i].home = h /\ h \in calm /\ h \in Containers
    BY <1>5, <1>8, <2>1, <2>2 DEF KeptInv, KeptShape
  <2>4. /\ \A n \in 1..Len(cache[h]) : ~Lists(made[cache[h][n].instance].args, i)
        /\ \A y \in Closes : \A n \in 1..Len(doomed[y]) : ~Lists(made[doomed[y][n]].args, i)
        /\ \A n \in 1..Len(destroyed) : d < n => ~Lists(made[destroyed[n]].args, i)
    BY <1>2, <2>1, <2>2, <2>3 DEF InOrder
  <2>5. \A n \in 1..Len(cache'[h]) : ~Lists(made'[cache'[h][n].instance].args, i)
    <3>1. ASSUME NEW n \in 1..Len(cache[h]) PROVE ~Lists(made'[cache[h][n].instance].args, i)
      <4>1. made'[cache[h][n].instance] = made[cache[h][n].instance]
        BY <1>3, <2>3
      <4> QED
        BY <2>4, <4>1
    <3> QED
      BY <3>1
  <2>6. \A y \in Closes : \A n \in 1..Len(doomed'[y]) : ~Lists(made'[doomed'[y][n]].args, i)
    BY <1>4, <2>4
  <2>7. \A n \in 1..Len(destroyed') : d < n => ~Lists(made'[destroyed'[n]].args, i)
    BY <1>5, <2>4
  <2> QED
    BY <2>1, <2>3, <2>5, <2>6, <2>7
<1> QED
  BY <1>6, <1>7, <1>8 DEF InOrder

LEMMA TokensGrow ==
  ASSUME IsolationInv, KeptInv, NEW x \in InstanceType, made' = Append(made, x),
         UNCHANGED <<cache, doomed, destroyed>>,
         \A n \in 1..Len(x.args) : x.args[n] \in Instances,
         \A t \in Tokens : singletons'[t] # None =>
           singletons'[t] = singletons[t] \/ (singletons'[t] = Len(made') /\ x.token = t),
         \A t \in Tokens : overrides'[t] # None =>
           overrides'[t] = overrides[t] \/ (overrides'[t] = Len(made') /\ x.token = t)
  PROVE  TokensOK'
<1>1. PICK m : m = Len(made')
  OBVIOUS
<1>2. m \in Nat /\ Instances' = Instances \cup {m} /\ made'[m] = x /\ \A i \in Instances : i < m
  BY <1>1 DEF Instances, IsolationInv, ContainerShape
<1>3. (\A i \in Instances : made'[i] = made[i]) /\ (\A i : Scoped(i) => Scoped(i)' /\ made'[i] = made[i])
  BY ScopedGrows
<1>4. /\ \A t \in Tokens : singletons[t] # None => made[singletons[t]].token = t
      /\ \A t \in Tokens : overrides[t] # None => made[overrides[t]].token = t
      /\ \A h \in Containers : \A n \in 1..Len(cache[h]) :
           /\ Scoped(cache[h][n].instance)
           /\ made[cache[h][n].instance].token = cache[h][n].token
           /\ \A k \in 1..Len(cache[h]) : n # k => cache[h][n].token # cache[h][k].token
      /\ \A y \in Closes : \A n \in 1..Len(doomed[y]) :
           Scoped(doomed[y][n]) /\ made[doomed[y][n]].home = Closed[y]
      /\ \A n \in 1..Len(destroyed) : Scoped(destroyed[n])
      /\ \A i \in Instances : \A n \in 1..Len(made[i].args) : made[i].args[n] < i
  BY DEF KeptInv, TokensOK
<1>5. \A t \in Tokens : (singletons[t] # None => singletons[t] \in Instances)
                        /\ (overrides[t] # None => overrides[t] \in Instances)
  BY DEF IsolationInv, SharedOK
<1>6. /\ \A t \in Tokens : singletons'[t] # None => made'[singletons'[t]].token = t
      /\ \A t \in Tokens : overrides'[t] # None => made'[overrides'[t]].token = t
  <2>1. ASSUME NEW t \in Tokens, singletons'[t] # None PROVE made'[singletons'[t]].token = t
    <3>1. CASE singletons'[t] = m
      BY <1>1, <1>2, <1>3, <1>4, <1>5, <2>1, <3>1
    <3>2. CASE singletons'[t] # m
      <4>1. PICK k : k = singletons[t]
        OBVIOUS
      <4>2. singletons'[t] = k /\ k \in Instances /\ made[k].token = t
        BY <1>1, <1>4, <1>5, <2>1, <3>2, <4>1
      <4> QED
        BY <1>3, <4>2
    <3> QED
      BY <3>1, <3>2
  <2>2. ASSUME NEW t \in Tokens, overrides'[t] # None PROVE made'[overrides'[t]].token = t
    <3>1. CASE overrides'[t] = m
      BY <1>1, <1>2, <1>3, <1>4, <1>5, <2>2, <3>1
    <3>2. CASE overrides'[t] # m
      <4>1. PICK k : k = overrides[t]
        OBVIOUS
      <4>2. overrides'[t] = k /\ k \in Instances /\ made[k].token = t
        BY <1>1, <1>4, <1>5, <2>2, <3>2, <4>1
      <4> QED
        BY <1>3, <4>2
    <3> QED
      BY <3>1, <3>2
  <2> QED
    BY <2>1, <2>2
<1>7. \A h \in Containers : \A n \in 1..Len(cache'[h]) :
        /\ Scoped(cache[h][n].instance)'
        /\ made'[cache'[h][n].instance].token = cache'[h][n].token
        /\ \A k \in 1..Len(cache'[h]) : n # k => cache'[h][n].token # cache'[h][k].token
  <2>1. ASSUME NEW h \in Containers, NEW n \in 1..Len(cache[h])
        PROVE  /\ Scoped(cache[h][n].instance)'
               /\ made'[cache[h][n].instance].token = cache[h][n].token
    <3>1. PICK i : i = cache[h][n].instance
      OBVIOUS
    <3>2. Scoped(i) /\ made[i].token = cache[h][n].token
      BY <1>4, <3>1
    <3>3. Scoped(i)' /\ made'[i] = made[i]
      BY <1>3, <3>2
    <3> QED
      BY <3>1, <3>2, <3>3 DEF Scoped
  <2>2. \A h \in Containers : \A n, k \in 1..Len(cache[h]) :
          n # k => cache[h][n].token # cache[h][k].token
    BY <1>4
  <2>3. cache' = cache
    OBVIOUS
  <2>4. ASSUME NEW h \in Containers, NEW n \in 1..Len(cache'[h])
        PROVE  /\ Scoped(cache[h][n].instance)'
               /\ made'[cache'[h][n].instance].token = cache'[h][n].token
               /\ \A k \in 1..Len(cache'[h]) : n # k => cache'[h][n].token # cache'[h][k].token
    <3>1. n \in 1..Len(cache[h]) /\ \A k \in 1..Len(cache[h]) : n # k => cache[h][n].token # cache[h][k].token
      BY <2>2, <2>3
    <3>2. Scoped(cache[h][n].instance)' /\ made'[cache[h][n].instance].token = cache[h][n].token
      BY <2>1, <3>1
    <3>3. /\ made'[cache'[h][n].instance].token = cache'[h][n].token
          /\ \A k \in 1..Len(cache'[h]) : n # k => cache'[h][n].token # cache'[h][k].token
      BY <2>3, <3>1, <3>2
    <3> QED
      BY <3>2, <3>3
  <2> QED
    BY <2>4
<1>8. \A y \in Closes : \A n \in 1..Len(doomed'[y]) :
        Scoped(doomed[y][n])' /\ made'[doomed'[y][n]].home = Closed[y]
  <2>1. ASSUME NEW y \in Closes, NEW n \in 1..Len(doomed[y])
        PROVE  Scoped(doomed[y][n])' /\ made'[doomed[y][n]].home = Closed[y]
    <3>1. PICK i : i = doomed[y][n]
      OBVIOUS
    <3>2. Scoped(i) /\ made[i].home = Closed[y]
      BY <1>4, <3>1
    <3>3. Scoped(i)' /\ made'[i] = made[i]
      BY <1>3, <3>2
    <3> QED
      BY <3>1, <3>2, <3>3 DEF Scoped
  <2> QED
    BY <2>1 DEF Scoped
<1>9. \A n \in 1..Len(destroyed') : Scoped(destroyed[n])'
  BY <1>3, <1>4
<1>10. ASSUME NEW i \in Instances', NEW n \in 1..Len(made'[i].args)
       PROVE  made'[i].args[n] < i
  <2>1. CASE i \in Instances
    BY <1>3, <1>4, <2>1
  <2>2. CASE i = m
    BY <1>2, <2>2
  <2> QED
    BY <1>2, <2>1, <2>2
<1> QED
  BY <1>6, <1>7, <1>8, <1>9, <1>10 DEF TokensOK

LEMMA ConstructKept ==
  ASSUME IsolationInv, KeptInv, NEW c \in Calls, Construct(c)
  PROVE  KeptInv'
<1>1. /\ stack[c] # <<>> /\ Top(c).scope # "existing" /\ Top(c).scope # "get"
      /\ Top(c).instance = None /\ Len(Top(c).args) = Len(Top(c).deps)
  BY DEF Construct, Complete
<1>2. PICK f \in FrameType : f = Top(c) /\ FrameOK(c, f) /\ FrameKept(c, f)
  BY <1>1, TopIs, TopKept
<1>3. PICK i : i = [token |-> f.token, scope |-> f.scope, home |-> Home[c], args |-> f.args]
  OBVIOUS
<1>4. i \in InstanceType /\ i.token = f.token /\ i.scope = f.scope /\ i.home = Home[c] /\ i.args = f.args
  BY <1>1, <1>2, <1>3, ContainerAssumption DEF FrameOK, FrameType, InstanceType
<1>5. made \in Seq(InstanceType) /\ made' = Append(made, i)
  BY <1>2, <1>3 DEF Construct, IsolationInv, ContainerShape
<1>6. PICK m : m = Len(made')
  OBVIOUS
<1>7. /\ m \in Nat /\ m \in Instances' /\ made'[m] = i /\ Instances' = Instances \cup {m}
      /\ (\A k \in Instances : k < m) /\ m \notin Instances /\ m # None
  BY <1>4, <1>5, <1>6, ContainerAssumption DEF Instances
<1>8. PICK r \in Seq(FrameType) : r = stack[c] /\ PathKept(c, r) /\ Paths(c, r) /\ Len(r) > 0 /\ f = r[Len(r)]
  BY <1>1, <1>2, TopIs, TopKept
<1>9. PICK s : s = Built(r, m)
  OBVIOUS
<1>10. /\ s \in Seq(FrameType) /\ Len(s) = Len(r)
       /\ \A n \in 1..Len(r) : n # Len(r) => s[n] = r[n]
       /\ s[Len(r)].args = f.args /\ s[Len(r)].scope = f.scope /\ s[Len(r)].token = f.token
       /\ s[Len(r)].deps = f.deps /\ s[Len(r)].instance = m
  BY <1>7, <1>8, <1>9, BuiltIs
<1>11. /\ stack' = [stack EXCEPT ![c] = s]
       /\ UNCHANGED <<singletons, cache, children, doomed, closing, destroyed, opened, answered,
                      overrides, calm, serial>>
  BY <1>6, <1>8, <1>9 DEF Construct
<1>12. PathKept(c, r)'
  BY <1>4, <1>5, <1>8, <1>11, PathStays
<1>13. FrameKept(c, s[Len(r)])'
  <2>1. FrameKept(c, r[Len(r)])'
    <3>1. Len(r) \in 1..Len(r)
      BY <1>8
    <3> QED
      BY <1>12, <3>1 DEF PathKept
  <2>2. Home[c] \in calm' =>
          /\ \A k \in 1..Len(f.args) : Scoped(f.args[k])' => CacheHas(cache'[Home[c]], f.args[k])
          /\ f.scope = "request" => ~HasToken(cache'[Home[c]], f.token)
    BY <1>8, <2>1 DEF FrameKept
  <2>3. \A n \in 1..Len(cache[Home[c]]) : cache[Home[c]][n].instance < m
    BY <1>7, ContainerAssumption DEF IsolationInv, CachesOK
  <2>4. /\ serial' /\ f.scope # "get" => f.scope = ScopeOf[f.token]
        /\ serial' /\ f.scope = "singleton" => singletons'[f.token] = None
    BY <1>8, <2>1 DEF FrameKept
  <2> QED
    BY <1>1, <1>2, <1>4, <1>7, <1>10, <1>11, <2>2, <2>3, <2>4 DEF FrameKept
<1>14. PathKept(c, s)'
  <2>1. \A n \in 1..Len(r) : s[n].token = r[n].token
    BY <1>8, <1>10
  <2>2. ASSUME NEW n \in 1..Len(s) PROVE FrameKept(c, s[n])' /\ (s[n].instance # None => n = Len(s))
    <3>1. CASE n = Len(r)
      BY <1>10, <1>13, <3>1
    <3>2. CASE n # Len(r)
      <4>1. s[n] = r[n] /\ n \in 1..Len(r)
        BY <1>10, <3>2
      <4> QED
        BY <1>8, <1>12, <3>2, <4>1 DEF PathKept
    <3> QED
      BY <3>1, <3>2
  <2>3. \A n, k \in 1..Len(s) : n # k => s[n].token # s[k].token
    BY <1>8, <1>10, <2>1 DEF PathKept
  <2> QED
    BY <2>2, <2>3 DEF PathKept
<1>15. stack \in [Calls -> Seq(FrameType)] /\ \A d \in Calls : stack'[d] = IF d = c THEN s ELSE stack[d]
  BY <1>11 DEF IsolationInv, ContainerShape
<1>16. PathsKept'
  <2>1. PICK C \in SUBSET Calls : C = {c}
    OBVIOUS
  <2>2. stack' \in [Calls -> Seq(FrameType)]
    BY <1>10, <1>11, <1>15
  <2>3. \A d \in C : \E p : stack'[d] = p /\ PathKept(d, p)'
    BY <1>14, <1>15, <2>1
  <2>4. (\A d \in Calls \ C : stack'[d] = stack[d]) /\ \E k \in InstanceType : made' = Append(made, k)
    BY <1>4, <1>5, <1>15, <2>1
  <2>5. UNCHANGED <<cache, singletons, calm, serial>> /\ PathsKept
    BY <1>11 DEF KeptInv
  <2> QED
    BY <2>2, <2>3, <2>4, <2>5, PathsStay
<1>17. TurnsTaken'
  BY <1>1, <1>11, <1>15, TurnsStay DEF KeptInv
<1>18. TokensOK'
  <2>1. \A n \in 1..Len(i.args) : i.args[n] \in Instances
    BY <1>2, <1>4 DEF FrameOK, Mine
  <2>2. UNCHANGED <<cache, doomed, destroyed, singletons, overrides>>
    BY <1>11
  <2> QED
    BY <1>4, <1>5, <2>1, <2>2, TokensGrow
<1>19. InOrder'
  BY <1>4, <1>5, <1>11, PlacesGrow
<1>20. Fresh(stack[c]) = None /\ Fresh(s) = IF f.scope = "request" THEN m ELSE None
  <2>1. Fresh(stack[c]) = None
    BY <1>1, TopKept
  <2>2. s # <<>>
    BY <1>8, <1>10
  <2> QED
    BY <1>10, <2>1, <2>2 DEF Fresh
<1>21. \A d \in Calls : Fresh(stack'[d]) = IF d = c THEN Fresh(s) ELSE Fresh(stack[d])
  BY <1>15
<1>22. Once'
  <2>1. ~Scoped(m)
    BY <1>7 DEF Scoped
  <2>2. /\ \A d \in Calls : Fresh(stack[d]) # m
        /\ \A h \in Containers : ~CacheHas(cache[h], m)
        /\ ~Taken(m) /\ ~Lists(destroyed, m)
    BY <1>7, <2>1, PlacesAre
  <2>3. Once
    BY DEF KeptInv
  <2>4. \A d, e \in Calls : Fresh(stack'[d]) # None /\ Fresh(stack'[d]) = Fresh(stack'[e]) => d = e
    BY <1>20, <1>21, <2>2, <2>3 DEF Once
  <2>5. \A d \in Calls : Fresh(stack'[d]) # None =>
          /\ \A h \in Containers : ~CacheHas(cache[h], Fresh(stack'[d]))
          /\ ~Taken(Fresh(stack'[d])) /\ ~Lists(destroyed, Fresh(stack'[d]))
    BY <1>20, <1>21, <2>2, <2>3 DEF Once
  <2>6. \A k : Taken(k)' <=> Taken(k)
    BY <1>11 DEF Taken
  <2> QED
    BY <1>11, <2>3, <2>4, <2>5, <2>6 DEF Once
<1>23. NoneLost'
  <2>1. ASSUME NEW k \in Instances', Scoped(k)', made'[k].home \in calm'
        PROVE  \/ \E d \in Calls : Fresh(stack'[d]) = k
               \/ CacheHas(cache'[made'[k].home], k) \/ Taken(k)' \/ Lists(destroyed', k)
    <3>1. CASE k = m
      BY <1>4, <1>7, <1>20, <1>21, <2>1, <3>1 DEF Scoped
    <3>2. CASE k # m
      <4>1. k \in Instances /\ made'[k] = made[k] /\ Scoped(k)
        BY <1>4, <1>5, <1>7, <2>1, <3>2, ScopedGrows
      <4>2. Pend(k) \/ CacheHas(cache[made[k].home], k) \/ Taken(k) \/ Lists(destroyed, k)
        BY <1>11, <2>1, <4>1 DEF KeptInv, NoneLost
      <4>3. Pend(k) => \E d \in Calls : Fresh(stack'[d]) = k
        <5>1. ASSUME NEW d \in Calls, Fresh(stack[d]) = k PROVE Fresh(stack'[d]) = k
          <6>1. k # None
            BY <4>1, PlacesAre
          <6> QED
            BY <1>20, <1>21, <5>1, <6>1
        <5> QED
          BY <5>1 DEF Pend
      <4>4. Taken(k) => Taken(k)'
        BY <1>11 DEF Taken
      <4> QED
        BY <1>11, <4>1, <4>2, <4>3, <4>4
    <3> QED
      BY <3>1, <3>2
  <2> QED
    BY <2>1 DEF NoneLost, Pend
<1>24. SinglesOnce'
  <2>1. ASSUME serial', NEW k \in Instances', made'[k].scope = "singleton"
        PROVE  \/ singletons'[made'[k].token] = k
               \/ \E d \in Calls : stack'[d] # <<>> /\ stack'[d][Len(stack'[d])].instance = k
    <3>1. CASE k = m
      <4>1. stack'[c] = s /\ s # <<>> /\ s[Len(s)].instance = k
        BY <1>8, <1>10, <1>15, <3>1
      <4> QED
        BY <4>1
    <3>2. CASE k # m
      <4>1. k \in Instances /\ made'[k] = made[k] /\ k # None
        BY <1>4, <1>5, <1>7, <3>2, ScopedGrows, ContainerAssumption DEF Instances
      <4>2. CASE singletons[made[k].token] = k
        BY <1>11, <4>1, <4>2
      <4>3. CASE \E d \in Calls : stack[d] # <<>> /\ stack[d][Len(stack[d])].instance = k
        <5>1. PICK d \in Calls : stack[d] # <<>> /\ stack[d][Len(stack[d])].instance = k
          BY <4>3
        <5>2. d # c
          BY <1>1, <1>2, <1>8, <4>1, <5>1
        <5> QED
          BY <1>15, <5>1, <5>2
      <4> QED
        BY <1>11, <2>1, <4>1, <4>2, <4>3 DEF KeptInv, SinglesOnce
    <3> QED
      BY <3>1, <3>2
  <2>2. serial' => \A t \in Tokens : overrides'[t] = None
    BY <1>11 DEF KeptInv, SinglesOnce
  <2>3. ASSUME serial', NEW k \in Instances' PROVE made'[k].scope = ScopeOf[made'[k].token]
    <3>1. CASE k = m
      BY <1>1, <1>2, <1>4, <1>7, <1>11, <2>3, <3>1 DEF FrameKept
    <3>2. CASE k # m
      <4>1. k \in Instances /\ made'[k] = made[k]
        BY <1>4, <1>5, <1>7, <3>2, ScopedGrows
      <4> QED
        BY <1>11, <2>3, <4>1 DEF KeptInv, SinglesOnce
    <3> QED
      BY <3>1, <3>2
  <2> QED
    BY <2>1, <2>2, <2>3 DEF SinglesOnce
<1>25. KeptShape'
  BY <1>11 DEF KeptInv, KeptShape
<1> QED
  BY <1>16, <1>17, <1>18, <1>19, <1>22, <1>23, <1>24, <1>25 DEF KeptInv


\* JavaScript Map.set(): where everything is afterwards.
LEMMA MapSetFacts ==
  ASSUME NEW m \in Seq(CacheType), NEW t \in Tokens, NEW i \in Nat,
         \A n, k \in 1..Len(m) : n # k => m[n].token # m[k].token
  PROVE  /\ MapSet(m, t, i) \in Seq(CacheType)
         /\ \A n \in 1..Len(MapSet(m, t, i)) :
              \/ MapSet(m, t, i)[n].instance = i /\ MapSet(m, t, i)[n].token = t
              \/ \E k \in 1..Len(m) : MapSet(m, t, i)[n] = m[k]
         /\ \A n, k \in 1..Len(MapSet(m, t, i)) :
              n # k => MapSet(m, t, i)[n].token # MapSet(m, t, i)[k].token
         /\ ~HasToken(m, t) =>
              /\ Len(MapSet(m, t, i)) = Len(m) + 1
              /\ MapSet(m, t, i)[Len(m) + 1].instance = i /\ MapSet(m, t, i)[Len(m) + 1].token = t
              /\ \A n \in 1..Len(m) : MapSet(m, t, i)[n] = m[n]
<1>1. PICK e : e = [token |-> t, instance |-> i]
  OBVIOUS
<1>2. e \in CacheType /\ e.instance = i /\ e.token = t
  BY <1>1 DEF CacheType
<1>3. PICK p : p = MapSet(m, t, i)
  OBVIOUS
<1>4. CASE \E n \in DOMAIN m : m[n].token = t
  <2>1. p = [n \in 1..Len(m) |-> IF m[n].token = t THEN e ELSE m[n]]
    <3>1. p = [n \in DOMAIN m |-> IF m[n].token = t THEN e ELSE m[n]]
      BY <1>1, <1>3, <1>4, Zenon DEF MapSet
    <3>2. DOMAIN m = 1..Len(m)
      OBVIOUS
    <3> QED
      BY <3>1, <3>2, Zenon
  <2>2. p \in Seq(CacheType) /\ Len(p) = Len(m)
    BY <1>2, <2>1
  <2>3. \A n \in 1..Len(m) : p[n] = IF m[n].token = t THEN e ELSE m[n]
    BY <2>1
  <2>4. \A n \in 1..Len(m) : p[n].token = m[n].token
    BY <1>2, <2>3
  <2>5. HasToken(m, t)
    BY <1>4 DEF HasToken
  <2>6. \A n \in 1..Len(p) : (p[n].instance = i /\ p[n].token = t) \/ \E k \in 1..Len(m) : p[n] = m[k]
    BY <1>2, <2>2, <2>3
  <2>7. \A n, k \in 1..Len(p) : n # k => p[n].token # p[k].token
    BY <2>2, <2>4
  <2> QED
    BY <1>3, <2>2, <2>5, <2>6, <2>7
<1>5. CASE ~\E n \in DOMAIN m : m[n].token = t
  <2>1. p = Append(m, e)
    BY <1>1, <1>3, <1>5 DEF MapSet
  <2>2. /\ p \in Seq(CacheType) /\ Len(p) = Len(m) + 1 /\ p[Len(m) + 1] = e
        /\ \A n \in 1..Len(m) : p[n] = m[n]
    BY <1>2, <2>1
  <2>3. \A n \in 1..Len(m) : m[n].token # t
    BY <1>5
  <2>4. \A n \in 1..Len(p) : n = Len(m) + 1 \/ n \in 1..Len(m)
    BY <2>2
  <2>5. \A n \in 1..Len(p) : (p[n].instance = i /\ p[n].token = t) \/ \E k \in 1..Len(m) : p[n] = m[k]
    BY <1>2, <2>2, <2>4
  <2>6. ASSUME NEW n \in 1..Len(p), NEW k \in 1..Len(p), n # k PROVE p[n].token # p[k].token
    <3>1. CASE n \in 1..Len(m) /\ k \in 1..Len(m)
      BY <2>2, <2>6, <3>1
    <3>2. CASE n = Len(m) + 1 /\ k \in 1..Len(m)
      BY <1>2, <2>2, <2>3, <3>2
    <3>3. CASE k = Len(m) + 1 /\ n \in 1..Len(m)
      BY <1>2, <2>2, <2>3, <3>3
    <3> QED
      BY <2>4, <2>6, <3>1, <3>2, <3>3
  <2> QED
    BY <1>2, <1>3, <2>2, <2>5, <2>6
<1> QED
  BY <1>4, <1>5

\* What a path keeps when its own call caches an instance under a token that is
\* not on the path any more.
LEMMA BelowKept ==
  ASSUME IsolationInv, KeptInv, NEW c \in Calls, NEW r \in Seq(FrameType), PathKept(c, r),
         NEW t \in Tokens, \A n \in 1..Len(r) : r[n].instance = None /\ r[n].token # t,
         UNCHANGED <<made, calm, serial>>,
         \A u \in Tokens \ {t} : singletons'[u] = singletons[u],
         \A i : CacheHas(cache[Home[c]], i) /\ Home[c] \in calm => CacheHas(cache'[Home[c]], i),
         \A u \in Tokens \ {t} : ~HasToken(cache[Home[c]], u) => ~HasToken(cache'[Home[c]], u),
         Paths(c, r)
  PROVE  PathKept(c, r)'
<1>1. ASSUME NEW n \in 1..Len(r) PROVE FrameKept(c, r[n])'
  <2>1. PICK f \in FrameType : f = r[n] /\ FrameKept(c, f) /\ FrameOK(c, f) /\ f.instance = None /\ f.token # t
    BY DEF PathKept, Paths
  <2>2. f.scope # "get" => f.token \in Tokens \ {t}
    BY <2>1 DEF FrameOK
  <2>3. Home[c] \in calm' =>
          \A k \in 1..Len(f.args) : Scoped(f.args[k])' => CacheHas(cache'[Home[c]], f.args[k])
    <3>1. ASSUME Home[c] \in calm, NEW k \in 1..Len(f.args), Scoped(f.args[k])
          PROVE  CacheHas(cache'[Home[c]], f.args[k])
      BY <2>1, <3>1 DEF FrameKept
    <3> QED
      BY <3>1 DEF Scoped, Instances
  <2>4. Home[c] \in calm' => (f.scope = "request" => ~HasToken(cache'[Home[c]], f.token))
    BY <2>1, <2>2 DEF FrameKept
  <2>5. /\ serial' /\ f.scope # "get" => f.scope = ScopeOf[f.token]
        /\ serial' /\ f.scope = "singleton" => singletons'[f.token] = None
    BY <2>1, <2>2 DEF FrameKept
  <2>6. FrameKept(c, f)'
    BY <2>1, <2>3, <2>4, <2>5 DEF FrameKept
  <2> QED
    BY <2>1, <2>6
<1> QED
  BY <1>1 DEF PathKept

\* A step by which the cache of container h gets instance i, which one call
\* had constructed, for token t.
LEMMA StoredPlaces ==
  ASSUME IsolationInv, KeptInv, NEW c \in Calls, NEW h \in Containers, h = Home[c],
         NEW t \in Tokens, NEW i, Fresh(stack[c]) = i, i # None, made[i].token = t,
         made[i].home = h,
         h \in calm => /\ ~HasToken(cache[h], t)
                       /\ \A n \in 1..Len(cache[h]) : cache[h][n].instance < i
                       /\ \A n \in 1..Len(made[i].args) :
                            Scoped(made[i].args[n]) => CacheHas(cache[h], made[i].args[n]),
         \A d \in Calls : Fresh(stack'[d]) = IF d = c THEN None ELSE Fresh(stack[d]),
         UNCHANGED <<made, overrides, singletons, doomed, destroyed, calm>>,
         cache' = [cache EXCEPT ![h] = MapSet(@, t, i)]
  PROVE  TokensOK' /\ Once' /\ NoneLost' /\ InOrder'
<1>1. TokensOK /\ Once /\ NoneLost /\ InOrder /\ calm \subseteq Containers
  BY DEF KeptInv, KeptShape
<1>2. Scoped(i) /\ i \in Nat /\ made[i] \in InstanceType
  BY PlacesAre
<1>3. PICK m \in Seq(CacheType) : m = cache[h]
  BY DEF IsolationInv, ContainerShape
<1>4. PICK p : p = MapSet(m, t, i)
  OBVIOUS
<1>5. \A n, k \in 1..Len(m) : n # k => m[n].token # m[k].token
  BY <1>1, <1>3 DEF TokensOK
<1>6. /\ p \in Seq(CacheType)
      /\ \A n \in 1..Len(p) : (p[n].instance = i /\ p[n].token = t) \/ \E k \in 1..Len(m) : p[n] = m[k]
      /\ \A n, k \in 1..Len(p) : n # k => p[n].token # p[k].token
      /\ ~HasToken(m, t) =>
           /\ Len(p) = Len(m) + 1 /\ p[Len(m) + 1].instance = i
           /\ \A n \in 1..Len(m) : p[n] = m[n]
  BY <1>2, <1>4, <1>5, MapSetFacts
<1>7. \A g \in Containers : cache'[g] = IF g = h THEN p ELSE cache[g]
  BY <1>3, <1>4 DEF IsolationInv, ContainerShape
<1>8. (\A k : Scoped(k)' <=> Scoped(k)) /\ Instances' = Instances /\ (\A k : Taken(k)' <=> Taken(k))
  BY DEF Scoped, Instances, Taken
<1>9. \A n \in 1..Len(p) : p[n].instance = i \/ \E k \in 1..Len(m) : p[n].instance = m[k].instance
  BY <1>6
<1>10. TokensOK'
  <2>1. ASSUME NEW g \in Containers, NEW n \in 1..Len(cache'[g])
        PROVE  /\ Scoped(cache'[g][n].instance)
               /\ made[cache'[g][n].instance].token = cache'[g][n].token
               /\ \A k \in 1..Len(cache'[g]) : n # k => cache'[g][n].token # cache'[g][k].token
    <3>1. CASE g # h
      BY <1>1, <1>7, <3>1 DEF TokensOK
    <3>2. CASE g = h
      <4>1. n \in 1..Len(p) /\ cache'[g] = p
        BY <1>7, <3>2
      <4>2. \A k \in 1..Len(m) : Scoped(m[k].instance) /\ made[m[k].instance].token = m[k].token
        BY <1>1, <1>3 DEF TokensOK
      <4>3. Scoped(p[n].instance) /\ made[p[n].instance].token = p[n].token
        BY <1>2, <1>6, <4>1, <4>2
      <4>4. \A k \in 1..Len(p) : n # k => p[n].token # p[k].token
        BY <1>6, <4>1
      <4> QED
        BY <4>1, <4>3, <4>4
    <3> QED
      BY <3>1, <3>2
  <2>2. /\ \A u \in Tokens : singletons'[u] # None => made'[singletons'[u]].token = u
        /\ \A u \in Tokens : overrides'[u] # None => made'[overrides'[u]].token = u
    BY <1>1 DEF TokensOK
  <2>3. \A y \in Closes : \A n \in 1..Len(doomed[y]) :
          Scoped(doomed[y][n]) /\ made[doomed[y][n]].home = Closed[y]
    BY <1>1 DEF TokensOK
  <2>4. \A n \in 1..Len(destroyed) : Scoped(destroyed[n])
    BY <1>1 DEF TokensOK
  <2>5. \A k \in Instances : \A n \in 1..Len(made[k].args) : made[k].args[n] < k
    BY <1>1 DEF TokensOK
  <2> QED
    BY <1>8, <2>1, <2>2, <2>3, <2>4, <2>5 DEF TokensOK, Scoped
<1>11. Once'
  <2>1. /\ \A d, e \in Calls : Fresh(stack[d]) # None /\ Fresh(stack[d]) = Fresh(stack[e]) => d = e
        /\ \A d \in Calls : Fresh(stack[d]) # None =>
             /\ \A g \in Containers : ~CacheHas(cache[g], Fresh(stack[d]))
             /\ ~Taken(Fresh(stack[d])) /\ ~Lists(destroyed, Fresh(stack[d]))
        /\ \A g \in Containers : \A n \in 1..Len(cache[g]) :
             ~Taken(cache[g][n].instance) /\ ~Lists(destroyed, cache[g][n].instance)
    BY <1>1 DEF Once
  <2>2. \A d, e \in Calls : Fresh(stack'[d]) # None /\ Fresh(stack'[d]) = Fresh(stack'[e]) => d = e
    BY <2>1
  <2>3. ASSUME NEW d \in Calls, Fresh(stack'[d]) # None
        PROVE  /\ \A g \in Containers : ~CacheHas(cache'[g], Fresh(stack'[d]))
               /\ ~Taken(Fresh(stack'[d])) /\ ~Lists(destroyed, Fresh(stack'[d]))
    <3>1. PICK j : j = Fresh(stack[d])
      OBVIOUS
    <3>2. d # c /\ Fresh(stack'[d]) = j /\ j # None /\ j # i
      BY <2>1, <2>3, <3>1
    <3>3. (\A g \in Containers : ~CacheHas(cache[g], j)) /\ ~Taken(j) /\ ~Lists(destroyed, j)
      BY <2>1, <3>1, <3>2
    <3>4. ~CacheHas(p, j)
      BY <1>3, <1>9, <3>2, <3>3 DEF CacheHas
    <3> QED
      BY <1>7, <3>2, <3>3, <3>4
  <2>4. ASSUME NEW g \in Containers, NEW n \in 1..Len(cache'[g])
        PROVE  ~Taken(cache'[g][n].instance) /\ ~Lists(destroyed, cache'[g][n].instance)
    <3>1. CASE g # h
      BY <1>7, <2>1, <3>1
    <3>2. CASE g = h
      <4>1. n \in 1..Len(p) /\ cache'[g] = p
        BY <1>7, <3>2
      <4>2. ~Taken(i) /\ ~Lists(destroyed, i)
        BY <2>1
      <4>3. \A k \in 1..Len(m) : ~Taken(m[k].instance) /\ ~Lists(destroyed, m[k].instance)
        BY <1>3, <2>1
      <4> QED
        BY <1>9, <4>1, <4>2, <4>3
    <3> QED
      BY <3>1, <3>2
  <2>5. /\ \A x, y \in Closes : \A n \in 1..Len(doomed'[x]), k \in 1..Len(doomed'[y]) :
             doomed'[x][n] = doomed'[y][k] => x = y /\ n = k
        /\ \A x \in Closes : \A n \in 1..Len(doomed'[x]) : ~Lists(destroyed', doomed'[x][n])
        /\ \A n, k \in 1..Len(destroyed') : destroyed'[n] = destroyed'[k] => n = k
    BY <1>1 DEF Once
  <2>6. \A d \in Calls : Fresh(stack'[d]) # None =>
          /\ \A g \in Containers : ~CacheHas(cache'[g], Fresh(stack'[d]))
          /\ ~(\E x \in Closes : Lists(doomed'[x], Fresh(stack'[d]))) /\ ~Lists(destroyed', Fresh(stack'[d]))
    BY <2>3 DEF Taken
  <2>7. \A g \in Containers : \A n \in 1..Len(cache'[g]) :
          /\ ~(\E x \in Closes : Lists(doomed'[x], cache'[g][n].instance))
          /\ ~Lists(destroyed', cache'[g][n].instance)
    BY <2>4 DEF Taken
  <2> QED
    BY <2>2, <2>5, <2>6, <2>7 DEF Once, Taken
<1>12. NoneLost'
  <2>1. ASSUME NEW k \in Instances, Scoped(k), made[k].home \in calm
        PROVE  \/ \E d \in Calls : Fresh(stack'[d]) = k
               \/ CacheHas(cache'[made[k].home], k) \/ Taken(k) \/ Lists(destroyed, k)
    <3>1. Pend(k) \/ CacheHas(cache[made[k].home], k) \/ Taken(k) \/ Lists(destroyed, k)
      BY <1>1, <2>1 DEF NoneLost
    <3>2. made[k].home = h => CacheHas(p, i)
      BY <1>2, <1>3, <1>6, <2>1 DEF CacheHas
    <3>3. CASE Pend(k)
      <4>1. PICK d \in Calls : Fresh(stack[d]) = k
        BY <3>3 DEF Pend
      <4>2. CASE d = c
        BY <1>7, <3>2, <4>1, <4>2
      <4>3. CASE d # c
        BY <4>1, <4>3
      <4> QED
        BY <4>2, <4>3
    <3>4. CASE CacheHas(cache[made[k].home], k)
      <4>1. CASE made[k].home = h
        <5>1. ~HasToken(m, t) /\ CacheHas(m, k)
          BY <1>3, <2>1, <3>4, <4>1
        <5>2. PICK n \in 1..Len(m) : m[n].instance = k
          BY <5>1 DEF CacheHas
        <5>3. n \in 1..Len(p) /\ p[n].instance = k
          BY <1>6, <5>1, <5>2
        <5>4. CacheHas(p, k)
          BY <5>3 DEF CacheHas
        <5> QED
          BY <1>7, <4>1, <5>4
      <4>2. CASE made[k].home # h
        <5>1. made[k].home \in Containers
          BY <1>1, <2>1
        <5> QED
          BY <1>7, <3>4, <4>2, <5>1
      <4> QED
        BY <4>1, <4>2
    <3> QED
      BY <3>1, <3>3, <3>4
  <2>2. ASSUME NEW k \in Instances', Scoped(k)', made'[k].home \in calm'
        PROVE  \/ \E d \in Calls : Fresh(stack'[d]) = k
               \/ CacheHas(cache'[made'[k].home], k)
               \/ \E x \in Closes : Lists(doomed'[x], k)
               \/ Lists(destroyed', k)
    BY <1>8, <2>1, <2>2 DEF Taken
  <2> QED
    BY <2>2 DEF NoneLost, Pend, Taken
<1>13. InOrder'
  <2>1. ASSUME NEW g \in calm
        PROVE  \A n, k \in 1..Len(cache'[g]) : n < k => cache'[g][n].instance < cache'[g][k].instance
    <3>1. \A n, k \in 1..Len(cache[g]) : n < k => cache[g][n].instance < cache[g][k].instance
      BY <1>1 DEF InOrder
    <3>2. CASE g # h
      BY <1>1, <1>7, <3>1, <3>2
    <3>3. CASE g = h
      <4>1. /\ Len(p) = Len(m) + 1 /\ p[Len(m) + 1].instance = i
            /\ \A n \in 1..Len(m) : p[n] = m[n] /\ p[n].instance < i
        BY <1>3, <1>6, <3>3
      <4>2. ASSUME NEW n \in 1..Len(p), NEW k \in 1..Len(p), n < k PROVE p[n].instance < p[k].instance
        <5>1. n \in 1..Len(m)
          BY <4>1, <4>2
        <5>2. CASE k = Len(m) + 1
          BY <4>1, <5>1, <5>2
        <5>3. CASE k # Len(m) + 1
          <6>1. k \in 1..Len(m)
            BY <4>1, <5>3
          <6> QED
            BY <1>3, <3>1, <3>3, <4>1, <4>2, <5>1, <6>1
        <5> QED
          BY <5>2, <5>3
      <4> QED
        BY <1>7, <3>3, <4>2
    <3> QED
      BY <3>2, <3>3
  <2>2. \A x \in Closes : Closed[x] \in calm =>
          \A n, k \in 1..Len(doomed[x]) : n < k => doomed[x][k] < doomed[x][n]
    <3>1. InOrder
      BY Zenon DEF KeptInv
    <3> QED
      BY <3>1, Zenon DEF InOrder
  <2>3. ASSUME NEW d \in 1..Len(destroyed), made[destroyed[d]].home \in calm
        PROVE  /\ \A n \in 1..Len(cache'[made[destroyed[d]].home]) :
                    ~Lists(made[cache'[made[destroyed[d]].home][n].instance].args, destroyed[d])
               /\ \A x \in Closes : \A n \in 1..Len(doomed[x]) :
                    ~Lists(made[doomed[x][n]].args, destroyed[d])
               /\ \A n \in 1..Len(destroyed) : d < n => ~Lists(made[destroyed[n]].args, destroyed[d])
    <3>1. PICK j : j = destroyed[d]
      OBVIOUS
    <3>2. PICK g : g = made[j].home
      OBVIOUS
    <3>3. g \in calm /\ g \in Containers
      BY <1>1, <2>3, <3>1, <3>2
    <3>4. /\ \A n \in 1..Len(cache[g]) : ~Lists(made[cache[g][n].instance].args, j)
          /\ \A x \in Closes : \A n \in 1..Len(doomed[x]) : ~Lists(made[doomed[x][n]].args, j)
          /\ \A n \in 1..Len(destroyed) : d < n => ~Lists(made[destroyed[n]].args, j)
      BY <1>1, <3>1, <3>2, <3>3 DEF InOrder
    <3>5. \A n \in 1..Len(cache'[g]) : ~Lists(made[cache'[g][n].instance].args, j)
      <4>1. CASE g # h
        BY <1>7, <3>3, <3>4, <4>1
      <4>2. CASE g = h
        <5>1. ~Lists(made[i].args, j)
          <6>1. ASSUME NEW n \in 1..Len(made[i].args), made[i].args[n] = j PROVE FALSE
            <7>1. Lists(destroyed, j)
              BY <3>1 DEF Lists
            <7>2. Scoped(j)
              BY <7>1, PlacesAre
            <7>3. CacheHas(cache[h], j)
              BY <3>3, <4>2, <6>1, <7>2
            <7> QED
              BY <1>1, <7>1, <7>3 DEF Once, CacheHas
          <6> QED
            BY <6>1 DEF Lists
        <5>2. \A n \in 1..Len(m) : ~Lists(made[m[n].instance].args, j)
          BY <1>3, <3>4, <4>2
        <5>3. \A n \in 1..Len(p) : ~Lists(made[p[n].instance].args, j)
          BY <1>9, <5>1, <5>2
        <5> QED
          BY <1>7, <4>2, <5>3
      <4> QED
        BY <4>1, <4>2
    <3> QED
      BY <3>1, <3>2, <3>4, <3>5
  <2> QED
    BY <2>1, <2>2, <2>3 DEF InOrder
<1> QED
  BY <1>10, <1>11, <1>12, <1>13


LEMMA StoreKept ==
  ASSUME IsolationInv, KeptInv, NEW c \in Calls, Store(c)
  PROVE  KeptInv'
<1>1. stack[c] # <<>> /\ Top(c).instance # None
  BY DEF Store
<1>2. PICK f \in FrameType : f = Top(c) /\ FrameOK(c, f) /\ FrameKept(c, f)
  BY <1>1, TopIs, TopKept
<1>3. PICK i : i = f.instance
  OBVIOUS
<1>4. /\ i \in Nat /\ i \in Instances /\ Mine(Home[c], i) /\ made[i].scope = f.scope
      /\ f.scope # "get" /\ f.token \in Tokens /\ made[i].token = f.token /\ i # None
  BY <1>1, <1>2, <1>3 DEF FrameOK, FrameType, Mine, FrameKept
<1>5. PICK t \in Tokens : t = f.token
  BY <1>4
<1>6. PICK h \in Containers : h = Home[c]
  BY ContainerAssumption
<1>7. PICK w \in Seq(FrameType) : w = stack[c] /\ PathKept(c, w) /\ Paths(c, w) /\ f = w[Len(w)]
  BY <1>1, <1>2, TopIs, TopKept
<1>8. Len(w) > 1
  <2>1. Len(w) > 0 /\ Len(w) # 1
    BY <1>1, <1>2, <1>4, <1>7, TopIs
  <2>2. PICK n \in Nat : n = Len(w)
    OBVIOUS
  <2> QED
    BY <2>1, <2>2
<1>9. PICK r : r = Front(w)
  OBVIOUS
<1>10. /\ r \in Seq(FrameType) /\ Len(r) > 0 /\ PathKept(c, r) /\ Paths(c, r)
       /\ \A n \in 1..Len(r) : r[n].instance = None /\ r[n].token # t
       /\ r[Len(r)].instance = None
  <2>1. /\ r \in Seq(FrameType) /\ Len(r) > 0 /\ PathKept(c, r)
        /\ \A n \in 1..Len(r) : r[n].instance = None /\ r[n].token # t
    BY <1>5, <1>7, <1>8, <1>9, FrontKept
  <2>2. Paths(c, r)
    BY <1>7, <1>8, <1>9, FrontPaths
  <2>3. Len(r) \in 1..Len(r)
    BY <2>1
  <2> QED
    BY <2>1, <2>2, <2>3
<1>11. PICK s : s = Passed(r, i)
  OBVIOUS
<1>12. /\ stack' = [stack EXCEPT ![c] = s]
       /\ UNCHANGED <<made, children, doomed, closing, destroyed, opened, answered, overrides,
                      calm, serial>>
       /\ singletons' = IF f.scope = "singleton" THEN [singletons EXCEPT ![t] = i] ELSE singletons
       /\ cache' = IF f.scope = "request" THEN [cache EXCEPT ![h] = MapSet(@, t, i)] ELSE cache
  BY <1>2, <1>3, <1>5, <1>6, <1>7, <1>9, <1>11 DEF Store
<1>13. cache \in [Containers -> Seq(CacheType)] /\ singletons \in [Tokens -> Nat \cup {None}]
       /\ stack \in [Calls -> Seq(FrameType)]
  BY DEF IsolationInv, ContainerShape
<1>14. PICK m \in Seq(CacheType) : m = cache[h]
  BY <1>13
<1>15. PICK p : p = MapSet(m, t, i)
  OBVIOUS
<1>16. \A n, k \in 1..Len(m) : n # k => m[n].token # m[k].token
  BY <1>14 DEF KeptInv, TokensOK
<1>17. /\ p \in Seq(CacheType)
       /\ \A n \in 1..Len(p) : (p[n].instance = i /\ p[n].token = t) \/ \E k \in 1..Len(m) : p[n] = m[k]
       /\ ~HasToken(m, t) =>
            /\ Len(p) = Len(m) + 1 /\ p[Len(m) + 1].instance = i
            /\ \A n \in 1..Len(m) : p[n] = m[n]
  <2>1. i \in Nat
    BY <1>4
  <2> QED
    BY <1>15, <1>16, <2>1, MapSetFacts
<1>18. /\ f.scope = "request" => cache'[h] = p
       /\ f.scope # "request" => cache' = cache
       /\ \A g \in Containers \ {h} : cache'[g] = cache[g]
  BY <1>12, <1>13, <1>14, <1>15
<1>19. f.scope = "request" /\ h \in calm => ~HasToken(m, t)
  BY <1>2, <1>5, <1>6, <1>14 DEF FrameKept
<1>20. \A k : CacheHas(cache[h], k) /\ h \in calm => CacheHas(cache'[h], k)
  <2>1. ASSUME NEW k, CacheHas(m, k), h \in calm, f.scope = "request" PROVE CacheHas(p, k)
    <3>1. PICK n \in 1..Len(m) : m[n].instance = k
      BY <2>1 DEF CacheHas
    <3>2. n \in 1..Len(p) /\ p[n].instance = k
      BY <1>17, <1>19, <2>1, <3>1
    <3> QED
      BY <3>2 DEF CacheHas
  <2> QED
    BY <1>14, <1>18, <2>1
<1>21. \A u \in Tokens \ {t} : ~HasToken(cache[h], u) => ~HasToken(cache'[h], u)
  <2>1. \A u \in Tokens \ {t} : ~HasToken(m, u) => ~HasToken(p, u)
    BY <1>17 DEF HasToken
  <2> QED
    BY <1>14, <1>18, <2>1
<1>22. \A u \in Tokens \ {t} : singletons'[u] = singletons[u]
  BY <1>12, <1>13
<1>23. PathKept(c, r)'
  BY <1>6, <1>10, <1>12, <1>20, <1>21, <1>22, BelowKept
<1>24. h \in calm' /\ Scoped(i)' => CacheHas(cache'[h], i)
  <2>1. ASSUME h \in calm, Scoped(i) PROVE CacheHas(cache'[h], i)
    <3>1. f.scope = "request"
      BY <1>4, <2>1 DEF Scoped
    <3>2. Len(m) + 1 \in 1..Len(p) /\ p[Len(m) + 1].instance = i
      BY <1>17, <1>19, <2>1, <3>1
    <3> QED
      BY <1>18, <3>1, <3>2 DEF CacheHas
  <2> QED
    BY <1>12, <2>1 DEF Scoped, Instances
<1>25. s \in Seq(FrameType) /\ PathKept(c, s)' /\ Fresh(s) = None
  BY <1>4, <1>6, <1>10, <1>11, <1>23, <1>24, PassedKept
<1>26. \A d \in Calls : stack'[d] = IF d = c THEN s ELSE stack[d]
  BY <1>12, <1>13
<1>27. TurnsTaken /\ SinglesOnce
  BY DEF KeptInv
<1>28. PathsKept'
  <2>1. PICK C \in SUBSET Calls : C = {c}
    OBVIOUS
  <2>2. stack' \in [Calls -> Seq(FrameType)]
    BY <1>12, <1>13, <1>25
  <2>3. \A d \in C : \E q : stack'[d] = q /\ PathKept(d, q)'
    BY <1>25, <1>26, <2>1
  <2>4. \A d \in Calls \ C : stack'[d] = stack[d]
    BY <1>26, <2>1
  <2>5. ASSUME NEW d \in Calls \ C, stack[d] # <<>>
        PROVE  /\ Home[d] \in calm' => cache'[Home[d]] = cache[Home[d]]
               /\ serial' => singletons' = singletons
    <3>1. d # c
      BY <2>1
    <3>2. ~serial /\ (Home[d] \in calm => Home[d] # h)
      BY <1>1, <1>6, <1>27, <2>5, <3>1 DEF TurnsTaken
    <3> QED
      BY <1>12, <1>18, <3>2
  <2>6. calm' \subseteq calm /\ (serial' => serial) /\ made' = made /\ PathsKept
    BY <1>12 DEF KeptInv
  <2> QED
    BY <2>2, <2>3, <2>4, <2>5, <2>6, PathsStay
<1>29. TurnsTaken'
  <2>1. \A x \in Closes : closing[x] = "destroying" /\ Closed[x] \in calm /\ Closed[x] # Home[c]
          => cache'[Closed[x]] = cache[Closed[x]]
    <3>1. calm \subseteq Containers
      BY DEF KeptInv, KeptShape
    <3> QED
      BY <1>6, <1>18, <3>1
  <2>2. DOMAIN stack = Calls /\ UNCHANGED <<calm, serial, closing>>
    BY <1>12, <1>13
  <2> QED
    BY <1>1, <1>12, <1>27, <2>1, <2>2, TurnsStay
<1>30. Fresh(stack[c]) = IF f.scope = "request" THEN i ELSE None
  BY <1>1, <1>3, <1>7 DEF Fresh
<1>31. \A d \in Calls : Fresh(stack'[d]) = IF d = c THEN None ELSE Fresh(stack[d])
  BY <1>25, <1>26
<1>32. TokensOK' /\ Once' /\ NoneLost' /\ InOrder'
  <2>1. CASE f.scope = "request"
    <3>1. made[i].home = h
      BY <1>4, <1>6, <2>1 DEF Mine
    <3>2. made[i].args = f.args
      BY <1>1, <1>2, <1>3, <2>1 DEF FrameKept
    <3>3. h \in calm => /\ ~HasToken(cache[h], t)
                        /\ \A n \in 1..Len(cache[h]) : cache[h][n].instance < i
                        /\ \A n \in 1..Len(f.args) : Scoped(f.args[n]) => CacheHas(cache[h], f.args[n])
      BY <1>2, <1>3, <1>4, <1>5, <1>6, <2>1 DEF FrameKept
    <3>4. UNCHANGED <<made, overrides, singletons, doomed, destroyed, calm>>
          /\ cache' = [cache EXCEPT ![h] = MapSet(@, t, i)]
      BY <1>12, <2>1
    <3>5. /\ Fresh(stack[c]) = i /\ i # None /\ made[i].token = t
          /\ \A n \in 1..Len(made[i].args) : h \in calm =>
               (Scoped(made[i].args[n]) => CacheHas(cache[h], made[i].args[n]))
      BY <1>4, <1>5, <1>30, <2>1, <3>2, <3>3
    <3> QED
      BY <1>6, <1>31, <3>1, <3>3, <3>4, <3>5, StoredPlaces
  <2>2. CASE f.scope # "request"
    <3>1. \A d \in Calls : Fresh(stack'[d]) = Fresh(stack[d])
      BY <1>30, <1>31, <2>2
    <3>2. UNCHANGED <<made, cache, doomed, destroyed>> /\ calm' \subseteq calm
      BY <1>12, <2>2
    <3>3. Once' /\ NoneLost' /\ InOrder'
      BY <3>1, <3>2, PlacesStay
    <3>4. TokensOK
      BY DEF KeptInv
    <3>5. /\ \A u \in Tokens : singletons'[u] # None => made'[singletons'[u]].token = u
          /\ \A u \in Tokens : overrides'[u] # None => made'[overrides'[u]].token = u
      <4>1. \A u \in Tokens : singletons'[u] = singletons[u] \/ (u = t /\ singletons'[u] = i)
        BY <1>12, <1>13
      <4> QED
        BY <1>4, <1>5, <1>12, <3>4, <4>1 DEF TokensOK
    <3>6. TokensOK'
      BY <3>2, <3>4, <3>5 DEF TokensOK, Scoped, Instances
    <3> QED
      BY <3>3, <3>6
  <2> QED
    BY <2>1, <2>2
<1>33. SinglesOnce'
  <2>1. ASSUME serial, NEW k \in Instances, made[k].scope = "singleton"
        PROVE  \/ singletons'[made[k].token] = k
               \/ \E d \in Calls : stack'[d] # <<>> /\ stack'[d][Len(stack'[d])].instance = k
    <3>1. k # None /\ made[k].token \in Tokens
      <4>1. k \in Nat /\ made[k] \in InstanceType
        BY DEF Instances, IsolationInv, ContainerShape
      <4> QED
        BY <4>1, ContainerAssumption DEF InstanceType
    <3>2. CASE singletons[made[k].token] = k
      <4>1. f.scope = "singleton" => singletons[t] = None
        BY <1>2, <1>5, <2>1 DEF FrameKept
      <4>2. made[k].token = t => f.scope # "singleton"
        BY <3>1, <3>2, <4>1
      <4> QED
        BY <1>12, <1>13, <3>1, <3>2, <4>2
    <3>3. CASE \E d \in Calls : stack[d] # <<>> /\ stack[d][Len(stack[d])].instance = k
      <4>1. PICK d \in Calls : stack[d] # <<>> /\ stack[d][Len(stack[d])].instance = k
        BY <3>3
      <4>2. CASE d = c
        <5>1. k = i
          BY <1>3, <1>7, <4>1, <4>2
        <5>2. f.scope = "singleton" /\ made[k].token = t
          BY <1>4, <1>5, <2>1, <5>1
        <5> QED
          BY <1>12, <1>13, <5>1, <5>2
      <4>3. CASE d # c
        BY <1>26, <4>1, <4>3
      <4> QED
        BY <4>2, <4>3
    <3> QED
      BY <1>27, <2>1, <3>2, <3>3 DEF SinglesOnce
  <2>2. serial => /\ \A u \in Tokens : overrides[u] = None
                  /\ \A k \in Instances : made[k].scope = ScopeOf[made[k].token]
    BY <1>27 DEF SinglesOnce
  <2> QED
    BY <1>12, <2>1, <2>2 DEF SinglesOnce, Instances
<1>34. KeptShape'
  BY <1>12 DEF KeptInv, KeptShape
<1> QED
  BY <1>28, <1>29, <1>32, <1>33, <1>34 DEF KeptInv

-----------------------------------------------------------------------------

\* The instances of a cache in reverse order.
LEMMA ReverseIs ==
  ASSUME NEW m \in Seq(CacheType)
  PROVE  LET r == Reverse([n \in DOMAIN m |-> m[n].instance])
         IN  r \in Seq(Nat) /\ Len(r) = Len(m) /\ \A n \in 1..Len(r) :
               Len(m) - n + 1 \in 1..Len(m) /\ r[n] = m[Len(m) - n + 1].instance
<1>1. PICK a : a = [n \in 1..Len(m) |-> m[n].instance]
  OBVIOUS
<1>2. \A n \in 1..Len(m) : m[n].instance \in Nat
  <2>1. \A n \in 1..Len(m) : m[n] \in CacheType
    OBVIOUS
  <2> QED
    BY <2>1 DEF CacheType
<1>3. a \in Seq(Nat) /\ Len(a) = Len(m) /\ \A n \in 1..Len(m) : a[n] = m[n].instance
  BY <1>1, <1>2
<1>4. PICK r : r = Reverse(a)
  OBVIOUS
<1>5. r = [n \in 1..Len(a) |-> a[Len(a) - n + 1]]
  BY <1>4 DEF Reverse
<1>6. \A n \in 1..Len(a) : Len(a) - n + 1 \in 1..Len(a)
  BY <1>3
<1>7. r \in Seq(Nat) /\ Len(r) = Len(a)
  BY <1>3, <1>5, <1>6
<1>8. ASSUME NEW n \in 1..Len(r)
      PROVE  Len(m) - n + 1 \in 1..Len(m) /\ r[n] = m[Len(m) - n + 1].instance
  <2>1. n \in 1..Len(a) /\ Len(m) - n + 1 \in 1..Len(m)
    BY <1>3, <1>6, <1>7
  <2>2. r[n] = a[Len(a) - n + 1]
    BY <1>5, <2>1
  <2> QED
    BY <1>3, <2>1, <2>2
<1>9. [n \in DOMAIN m |-> m[n].instance] = a
  BY <1>1
<1>10. Len(r) = Len(m)
  BY <1>3, <1>7
<1> HIDE DEF Reverse
<1> QED
  BY <1>4, <1>7, <1>8, <1>9, <1>10

LEMMA CloseKept ==
  ASSUME IsolationInv, KeptInv, NEW x \in Closes, Close(x)
  PROVE  KeptInv'
<1>1. PICK h \in Containers : h = Closed[x]
  BY ContainerAssumption DEF Containers
<1>2. cache \in [Containers -> Seq(CacheType)] /\ doomed \in [Closes -> Seq(Nat)]
      /\ closing \in [Closes -> {"idle", "destroying", "closed", "failed"}]
  BY DEF IsolationInv, ContainerShape, KeptInv, KeptShape
<1>3. PICK m \in Seq(CacheType) : m = cache[h]
  BY <1>2
<1>4. PICK r : r = Reverse([n \in DOMAIN m |-> m[n].instance])
  OBVIOUS
<1>5. /\ r \in Seq(Nat) /\ Len(r) = Len(m)
      /\ \A n \in 1..Len(r) : Len(m) - n + 1 \in 1..Len(m) /\ r[n] = m[Len(m) - n + 1].instance
  BY <1>4, ReverseIs
<1>6. /\ closing[x] = "idle" /\ doomed' = [doomed EXCEPT ![x] = r]
      /\ cache' = [cache EXCEPT ![h] = <<>>] /\ closing' = [closing EXCEPT ![x] = "destroying"]
      /\ calm' = calm \ {g \in {h} : Busy(g) \/ Destroying(g)}
      /\ UNCHANGED <<made, singletons, children, stack, destroyed, opened, answered, overrides,
                     serial>>
  BY <1>1, <1>3, <1>4 DEF Close
<1>7. /\ \A g \in Containers : cache'[g] = IF g = h THEN <<>> ELSE cache[g]
      /\ \A y \in Closes : doomed'[y] = IF y = x THEN r ELSE doomed[y]
      /\ \A y \in Closes : closing'[y] = IF y = x THEN "destroying" ELSE closing[y]
      /\ calm' \subseteq calm
  BY <1>2, <1>6
<1>8. h \in calm' => ~Busy(h) /\ ~Destroying(h)
  BY <1>6
<1>9. KeptShape /\ TokensOK /\ PathsKept /\ TurnsTaken /\ Once /\ NoneLost /\ InOrder /\ SinglesOnce
  BY DEF KeptInv
<1>10. KeptShape'
  <2>1. doomed' \in [Closes -> Seq(Nat)]
    BY <1>2, <1>5, <1>6
  <2>2. closing' \in [Closes -> {"idle", "destroying", "closed", "failed"}]
    BY <1>2, <1>6
  <2>3. \A y \in Closes : closing'[y] # "destroying" => doomed'[y] = <<>>
    BY <1>7, <1>9 DEF KeptShape
  <2> QED
    BY <1>6, <1>7, <1>9, <2>1, <2>2, <2>3 DEF KeptShape
<1>11. PathsKept'
  <2>1. PICK C \in SUBSET Calls : C = {}
    OBVIOUS
  <2>2. \A d \in Calls : stack[d] = <<>> \/ (Home[d] \in calm' => cache'[Home[d]] = cache[Home[d]])
    BY <1>7, <1>8, ContainerAssumption DEF Busy
  <2>3. stack' \in [Calls -> Seq(FrameType)]
    BY <1>6 DEF IsolationInv, ContainerShape
  <2> QED
    BY <1>6, <1>7, <1>9, <2>1, <2>2, <2>3, PathsStay
<1>12. TurnsTaken'
  <2>1. \A a, b \in Calls : Home[a] = Home[b] /\ Home[a] \in calm' /\ stack'[a] # <<>> /\ stack'[b] # <<>> => a = b
    BY <1>6, <1>7, <1>9 DEF TurnsTaken
  <2>2. \A a \in Calls, y \in Closes :
          stack'[a] # <<>> /\ closing'[y] = "destroying" /\ Closed[y] = Home[a] => Home[a] \notin calm'
    BY <1>1, <1>6, <1>7, <1>8, <1>9 DEF TurnsTaken, Busy
  <2>3. \A y, z \in Closes : closing'[y] = "destroying" /\ closing'[z] = "destroying" /\
          Closed[y] = Closed[z] /\ Closed[y] \in calm' => y = z
    BY <1>1, <1>6, <1>7, <1>8, <1>9 DEF TurnsTaken, Destroying
  <2>4. \A y \in Closes : closing'[y] = "destroying" /\ Closed[y] \in calm' => cache'[Closed[y]] = <<>>
    <3>1. ASSUME NEW y \in Closes, closing'[y] = "destroying", Closed[y] \in calm'
          PROVE  cache'[Closed[y]] = <<>>
      <4>1. Closed[y] \in Containers /\ Closed[y] \in calm
        BY <1>7, <3>1, ContainerAssumption DEF Containers
      <4>2. CASE Closed[y] = h
        BY <1>7, <4>2
      <4>3. CASE Closed[y] # h
        <5>1. closing[y] = "destroying" /\ cache'[Closed[y]] = cache[Closed[y]]
          BY <1>1, <1>7, <3>1, <4>1, <4>3
        <5> QED
          BY <1>9, <4>1, <5>1 DEF TurnsTaken
      <4> QED
        BY <4>2, <4>3
    <3> QED
      BY <3>1
  <2>5. serial' => \A a, b \in Calls : stack'[a] # <<>> /\ stack'[b] # <<>> => a = b
    BY <1>6, <1>9 DEF TurnsTaken
  <2> QED
    BY <2>1, <2>2, <2>3, <2>4, <2>5 DEF TurnsTaken
<1>13. \A n \in 1..Len(r) : Scoped(r[n]) /\ made[r[n]].home = h /\ ~Taken(r[n]) /\ ~Lists(destroyed, r[n])
  <2>1. ASSUME NEW n \in 1..Len(r)
        PROVE  Scoped(r[n]) /\ made[r[n]].home = h /\ ~Taken(r[n]) /\ ~Lists(destroyed, r[n])
    <3>1. PICK k \in 1..Len(cache[h]) : r[n] = cache[h][k].instance
      BY <1>3, <1>5
    <3>2. PICK i : i = cache[h][k].instance
      OBVIOUS
    <3>3. Scoped(i)
      BY <1>9, <3>2 DEF TokensOK
    <3>4. made[i].home = h
      BY <3>2 DEF IsolationInv, CachesOK
    <3>5. ~Taken(i) /\ ~Lists(destroyed, i)
      BY <1>9, <3>2 DEF Once
    <3> QED
      BY <3>1, <3>2, <3>3, <3>4, <3>5
  <2> QED
    BY <2>1
<1>14. \A i : CacheHas(m, i) <=> Lists(r, i)
  <2>1. ASSUME NEW n \in 1..Len(m) PROVE Lists(r, m[n].instance)
    <3>1. Len(m) - n + 1 \in 1..Len(r) /\ Len(m) - (Len(m) - n + 1) + 1 = n
      BY <1>5
    <3>2. r[Len(m) - n + 1] = m[n].instance
      BY <1>5, <3>1
    <3> QED
      BY <3>1, <3>2 DEF Lists
  <2>2. ASSUME NEW n \in 1..Len(r) PROVE CacheHas(m, r[n])
    BY <1>5 DEF CacheHas
  <2> QED
    BY <2>1, <2>2 DEF CacheHas, Lists
<1>15. \A n, k \in 1..Len(r) : r[n] = r[k] => n = k
  <2>1. \A n, k \in 1..Len(m) : n # k => m[n].instance # m[k].instance
    <3>1. \A n \in 1..Len(m) : /\ made[m[n].instance].token = m[n].token
                                /\ \A k \in 1..Len(m) : n # k => m[n].token # m[k].token
      BY <1>3, <1>9 DEF TokensOK
    <3>2. ASSUME NEW n \in 1..Len(m), NEW k \in 1..Len(m), n # k
          PROVE  m[n].instance # m[k].instance
      <4>1. PICK a : a = m[n].instance
        OBVIOUS
      <4>2. PICK b : b = m[k].instance
        OBVIOUS
      <4>3. made[a].token = m[n].token /\ made[b].token = m[k].token /\ m[n].token # m[k].token
        BY <3>1, <3>2, <4>1, <4>2
      <4>4. a # b
        BY <4>3
      <4> QED
        BY <4>1, <4>2, <4>4
    <3> QED
      BY <3>2
  <2>2. ASSUME NEW n \in 1..Len(r), NEW k \in 1..Len(r), r[n] = r[k] PROVE n = k
    <3>1. Len(m) - n + 1 = Len(m) - k + 1
      <4>1. PICK a \in 1..Len(m) : a = Len(m) - n + 1 /\ r[n] = m[a].instance
        BY <1>5
      <4>2. PICK b \in 1..Len(m) : b = Len(m) - k + 1 /\ r[k] = m[b].instance
        BY <1>5
      <4>3. a = b
        BY <2>1, <2>2, <4>1, <4>2
      <4> QED
        BY <4>1, <4>2, <4>3
    <3> QED
      BY <1>5, <3>1
  <2> QED
    BY <2>2
<1>16. doomed[x] = <<>>
  BY <1>6, <1>9 DEF KeptShape
<1>17. \A i : (\E y \in Closes : Lists(doomed'[y], i)) <=> Taken(i) \/ Lists(r, i)
  <2>1. ~\E i : Lists(doomed[x], i)
    <3>1. Len(doomed[x]) = 0
      BY <1>16
    <3> QED
      BY <3>1 DEF Lists
  <2> QED
    BY <1>7, <2>1 DEF Taken
<1>18. TokensOK'
  <2>1. /\ \A u \in Tokens : singletons'[u] # None => made'[singletons'[u]].token = u
        /\ \A u \in Tokens : overrides'[u] # None => made'[overrides'[u]].token = u
    BY <1>6, <1>9 DEF TokensOK
  <2>2. \A g \in Containers : \A n \in 1..Len(cache'[g]) :
          /\ Scoped(cache'[g][n].instance)
          /\ made[cache'[g][n].instance].token = cache'[g][n].token
          /\ \A k \in 1..Len(cache'[g]) : n # k => cache'[g][n].token # cache'[g][k].token
    <3>1. ASSUME NEW g \in Containers, NEW n \in 1..Len(cache'[g])
          PROVE  /\ Scoped(cache'[g][n].instance)
                 /\ made[cache'[g][n].instance].token = cache'[g][n].token
                 /\ \A k \in 1..Len(cache'[g]) : n # k => cache'[g][n].token # cache'[g][k].token
      <4>1. cache'[g] = cache[g]
        <5>1. g = h => Len(cache'[g]) = 0
          BY <1>7
        <5> QED
          BY <1>7, <3>1, <5>1
      <4>2. PICK q : q = cache[g]
        OBVIOUS
      <4>3. /\ Scoped(q[n].instance) /\ made[q[n].instance].token = q[n].token
            /\ \A k \in 1..Len(q) : n # k => q[n].token # q[k].token
        BY <1>9, <4>1, <4>2 DEF TokensOK
      <4> QED
        BY <4>1, <4>2, <4>3
    <3> QED
      BY <3>1
  <2>3. \A y \in Closes : \A n \in 1..Len(doomed'[y]) :
          Scoped(doomed'[y][n]) /\ made[doomed'[y][n]].home = Closed[y]
    BY <1>1, <1>7, <1>9, <1>13 DEF TokensOK
  <2>4. \A n \in 1..Len(destroyed) : Scoped(destroyed[n])
    BY <1>9 DEF TokensOK
  <2>5. \A k \in Instances : \A n \in 1..Len(made[k].args) : made[k].args[n] < k
    BY <1>9 DEF TokensOK
  <2> QED
    BY <1>6, <2>1, <2>2, <2>3, <2>4, <2>5 DEF TokensOK, Scoped, Instances
<1>19. Once'
  <2>1. /\ \A d, e \in Calls : Fresh(stack[d]) # None /\ Fresh(stack[d]) = Fresh(stack[e]) => d = e
        /\ \A d \in Calls : Fresh(stack[d]) # None =>
             /\ \A g \in Containers : ~CacheHas(cache[g], Fresh(stack[d]))
             /\ ~Taken(Fresh(stack[d])) /\ ~Lists(destroyed, Fresh(stack[d]))
        /\ \A g \in Containers : \A n \in 1..Len(cache[g]) :
             ~Taken(cache[g][n].instance) /\ ~Lists(destroyed, cache[g][n].instance)
        /\ \A y, z \in Closes : \A n \in 1..Len(doomed[y]), k \in 1..Len(doomed[z]) :
             doomed[y][n] = doomed[z][k] => y = z /\ n = k
        /\ \A y \in Closes : \A n \in 1..Len(doomed[y]) : ~Lists(destroyed, doomed[y][n])
        /\ \A n, k \in 1..Len(destroyed) : destroyed[n] = destroyed[k] => n = k
    BY <1>9 DEF Once
  <2>2. \A g \in Containers : cache'[g] = cache[g] \/ Len(cache'[g]) = 0
    BY <1>7
  <2>3. ASSUME NEW d \in Calls, Fresh(stack[d]) # None
        PROVE  /\ \A g \in Containers : ~CacheHas(cache'[g], Fresh(stack[d]))
               /\ ~\E y \in Closes : Lists(doomed'[y], Fresh(stack[d]))
    <3>1. PICK j : j = Fresh(stack[d])
      OBVIOUS
    <3>2. (\A g \in Containers : ~CacheHas(cache[g], j)) /\ ~Taken(j)
      BY <2>1, <2>3, <3>1
    <3>3. ASSUME NEW g \in Containers PROVE ~CacheHas(cache'[g], j)
      <4>1. CASE cache'[g] = cache[g]
        BY <3>2, <4>1
      <4>2. CASE Len(cache'[g]) = 0
        BY <4>2 DEF CacheHas
      <4> QED
        BY <2>2, <4>1, <4>2
    <3>4. ~Lists(r, j)
      BY <1>3, <1>14, <3>2
    <3> QED
      BY <1>17, <3>1, <3>2, <3>3, <3>4
  <2>4. ASSUME NEW g \in Containers, NEW n \in 1..Len(cache'[g])
        PROVE  /\ ~\E y \in Closes : Lists(doomed'[y], cache'[g][n].instance)
               /\ ~Lists(destroyed, cache'[g][n].instance)
    <3>1. g # h /\ cache'[g] = cache[g]
      <4>1. g = h => Len(cache'[g]) = 0
        BY <1>7
      <4> QED
        BY <1>7, <2>4, <4>1
    <3>2. PICK j : j = cache[g][n].instance
      OBVIOUS
    <3>3. made[j].home = g /\ ~Taken(j) /\ ~Lists(destroyed, j)
      BY <2>1, <2>4, <3>1, <3>2 DEF IsolationInv, CachesOK
    <3>4. ~Lists(r, j)
      BY <1>13, <3>1, <3>3 DEF Lists
    <3> QED
      BY <1>17, <3>1, <3>2, <3>3, <3>4
  <2>5. ASSUME NEW y \in Closes, NEW z \in Closes, NEW n \in 1..Len(doomed'[y]), NEW k \in 1..Len(doomed'[z]),
               doomed'[y][n] = doomed'[z][k]
        PROVE  y = z /\ n = k
    <3>1. CASE y = x /\ z = x
      BY <1>7, <1>15, <2>5, <3>1
    <3>2. CASE y # x /\ z # x
      <4>1. doomed'[y] = doomed[y] /\ doomed'[z] = doomed[z]
        BY <1>7, <3>2
      <4> QED
        BY <2>1, <2>5, <4>1
    <3>3. CASE y = x /\ z # x
      BY <1>7, <1>13, <2>5, <3>3 DEF Taken, Lists
    <3>4. CASE y # x /\ z = x
      BY <1>7, <1>13, <2>5, <3>4 DEF Taken, Lists
    <3> QED
      BY <3>1, <3>2, <3>3, <3>4
  <2>6. \A y \in Closes : \A n \in 1..Len(doomed'[y]) : ~Lists(destroyed, doomed'[y][n])
    BY <1>7, <1>13, <2>1
  <2> QED
    BY <1>6, <2>1, <2>3, <2>4, <2>5, <2>6 DEF Once, Taken
<1>20. NoneLost'
  <2>1. ASSUME NEW k \in Instances, Scoped(k), made[k].home \in calm'
        PROVE  \/ Pend(k) \/ CacheHas(cache'[made[k].home], k)
               \/ (\E y \in Closes : Lists(doomed'[y], k)) \/ Lists(destroyed, k)
    <3>1. Pend(k) \/ CacheHas(cache[made[k].home], k) \/ Taken(k) \/ Lists(destroyed, k)
      BY <1>7, <1>9, <2>1 DEF NoneLost
    <3>2. made[k].home \in Containers
      BY <1>7, <1>9, <2>1 DEF KeptShape
    <3>3. made[k].home = h /\ CacheHas(cache[made[k].home], k) => Lists(r, k)
      <4>1. CacheHas(cache[h], k) => Lists(r, k)
        BY <1>3, <1>14
      <4> QED
        BY <4>1
    <3> QED
      BY <1>7, <1>17, <3>1, <3>2, <3>3
  <2> QED
    BY <1>6, <2>1 DEF NoneLost, Pend, Taken, Scoped, Instances
<1>21. InOrder'
  <2>1. \A g \in calm' : \A n, k \in 1..Len(cache'[g]) : n < k => cache'[g][n].instance < cache'[g][k].instance
    <3>1. \A g \in calm' : g \in calm /\ (cache'[g] = cache[g] \/ Len(cache'[g]) = 0)
      BY <1>7, <1>9 DEF KeptShape
    <3> QED
      BY <1>9, <3>1 DEF InOrder
  <2>2. ASSUME NEW y \in Closes, Closed[y] \in calm'
        PROVE  \A n, k \in 1..Len(doomed'[y]) : n < k => doomed'[y][k] < doomed'[y][n]
    <3>1. CASE y # x
      BY <1>7, <1>9, <2>2, <3>1 DEF InOrder
    <3>2. CASE y = x
      <4>1. \A n, k \in 1..Len(m) : n < k => m[n].instance < m[k].instance
        BY <1>1, <1>3, <1>7, <1>9, <2>2, <3>2 DEF InOrder
      <4>2. ASSUME NEW n \in 1..Len(r), NEW k \in 1..Len(r), n < k PROVE r[k] < r[n]
        <5>1. /\ Len(m) - n + 1 \in 1..Len(m) /\ Len(m) - k + 1 \in 1..Len(m)
              /\ Len(m) - k + 1 < Len(m) - n + 1
          BY <1>5, <4>2
        <5>2. r[n] = m[Len(m) - n + 1].instance /\ r[k] = m[Len(m) - k + 1].instance
          BY <1>5
        <5> QED
          BY <4>1, <5>1, <5>2
      <4> QED
        BY <1>7, <3>2, <4>2
    <3> QED
      BY <3>1, <3>2
  <2>3. ASSUME NEW d \in 1..Len(destroyed), made[destroyed[d]].home \in calm'
        PROVE  /\ \A n \in 1..Len(cache'[made[destroyed[d]].home]) :
                    ~Lists(made[cache'[made[destroyed[d]].home][n].instance].args, destroyed[d])
               /\ \A y \in Closes : \A n \in 1..Len(doomed'[y]) :
                    ~Lists(made[doomed'[y][n]].args, destroyed[d])
               /\ \A n \in 1..Len(destroyed) : d < n => ~Lists(made[destroyed[n]].args, destroyed[d])
    <3>1. PICK j : j = destroyed[d]
      OBVIOUS
    <3>2. PICK g : g = made[j].home
      OBVIOUS
    <3>3. g \in calm /\ g \in Containers
      <4>1. calm \subseteq Containers
        BY <1>9 DEF KeptShape
      <4> QED
        BY <1>7, <2>3, <3>1, <3>2, <4>1
    <3>4. /\ \A n \in 1..Len(cache[g]) : ~Lists(made[cache[g][n].instance].args, j)
          /\ \A y \in Closes : \A n \in 1..Len(doomed[y]) : ~Lists(made[doomed[y][n]].args, j)
          /\ \A n \in 1..Len(destroyed) : d < n => ~Lists(made[destroyed[n]].args, j)
      BY <1>9, <3>1, <3>2, <3>3 DEF InOrder
    <3>5. \A n \in 1..Len(cache'[g]) : ~Lists(made[cache'[g][n].instance].args, j)
      <4>1. cache'[g] = cache[g] \/ Len(cache'[g]) = 0
        BY <1>7, <3>3
      <4> QED
        BY <3>4, <4>1
    <3>6. \A n \in 1..Len(r) : ~Lists(made[r[n]].args, j)
      <4>1. CASE g = h
        BY <1>3, <1>5, <3>4, <4>1
      <4>2. CASE g # h
        <5>1. ASSUME NEW n \in 1..Len(r), NEW k \in 1..Len(made[r[n]].args), made[r[n]].args[k] = j
              PROVE  FALSE
          <6>1. r[n] \in Instances /\ made[r[n]].home = h
            BY <1>13 DEF Scoped
          <6>2. Mine(h, j)
            BY <5>1, <6>1 DEF IsolationInv, InjectedOK
          <6>3. Scoped(j)
            BY <1>9, <3>1 DEF TokensOK
          <6> QED
            BY <3>2, <4>2, <6>2, <6>3 DEF Mine, Scoped
        <5> QED
          BY <5>1 DEF Lists
      <4> QED
        BY <4>1, <4>2
    <3>7. \A y \in Closes : \A n \in 1..Len(doomed'[y]) : ~Lists(made[doomed'[y][n]].args, j)
      BY <1>7, <3>4, <3>6
    <3> QED
      BY <3>1, <3>2, <3>4, <3>5, <3>7
  <2> QED
    BY <1>6, <2>1, <2>2, <2>3 DEF InOrder
<1>22. SinglesOnce'
  BY <1>6, <1>9 DEF SinglesOnce, Instances
<1> QED
  BY <1>10, <1>11, <1>12, <1>18, <1>19, <1>20, <1>21, <1>22 DEF KeptInv


LEMMA Successors == \A l, m \in Int : l + 1 = m + 1 => l = m
OBVIOUS

\* p is s without its first element, or empty.
Cut(p, s) == \A n \in 1..Len(p) : n + 1 \in 1..Len(s) /\ p[n] = s[n + 1]

Appended(p, s, i) ==
  Len(p) = Len(s) + 1 /\ p[Len(s) + 1] = i /\ \A n \in 1..Len(s) : p[n] = s[n]

\* The next hook of close x is called: the instance goes from its list to the
\* destroyed ones; of the list only a part may remain.
LEMMA DestroyPlaces ==
  ASSUME IsolationInv, KeptInv, NEW x \in Closes, closing[x] = "destroying", doomed[x] # <<>>,
         doomed' \in [Closes -> Seq(Nat)], destroyed' \in Seq(Nat),
         Cut(doomed'[x], doomed[x]), Appended(destroyed', destroyed, doomed[x][1]),
         \A y \in Closes \ {x} : doomed'[y] = doomed[y],
         UNCHANGED <<made, singletons, overrides, cache, stack>>, calm' \subseteq calm
  PROVE  TokensOK' /\ Once' /\ InOrder'
<1>24. PICK s \in Seq(Nat) : s = doomed[x] /\ s # <<>>
  BY DEF KeptInv, KeptShape
<1>25. PICK N \in [Closes -> Seq(Nat)] : N = doomed'
  OBVIOUS
<1>26. PICK rest \in Seq(Nat) : rest = N[x]
  OBVIOUS
<1>27. PICK E \in Seq(Nat) : E = destroyed'
  OBVIOUS
<1>28. \A n \in 1..Len(rest) : n + 1 \in 1..Len(s) /\ rest[n] = s[n + 1]
  BY <1>24, <1>25, <1>26 DEF Cut
<1>1. PICK i : i = s[1]
  OBVIOUS
<1>2. 1 \in 1..Len(s) /\ Len(s) \in Nat /\ s[1] = i /\ i \in Nat
  BY <1>1, <1>24
<1>3. PICK h \in Containers : h = Closed[x]
  BY ContainerAssumption DEF Containers
<1>4. doomed \in [Closes -> Seq(Nat)] /\ destroyed \in Seq(Nat)
  BY DEF KeptInv, KeptShape
<1>5. PICK O \in [Closes -> Seq(Nat)] : O = doomed
  BY <1>4
<1>6. PICK D \in Seq(Nat) : D = destroyed
  BY <1>4
<1>8. /\ destroyed' = E /\ E \in Seq(Nat) /\ Len(E) = Len(D) + 1 /\ E[Len(D) + 1] = i
      /\ \A n \in 1..Len(D) : E[n] = D[n]
      /\ \A n \in 1..Len(E) : n = Len(D) + 1 \/ n \in 1..Len(D)
  BY <1>1, <1>6, <1>24, <1>27 DEF Appended
<1>9. TokensOK /\ TurnsTaken /\ Once /\ InOrder
  BY DEF KeptInv
<1>10. \A n \in 1..Len(s) : Scoped(s[n]) /\ made[s[n]].home = h /\ ~Lists(destroyed, s[n])
  BY <1>3, <1>9, <1>24 DEF TokensOK, Once
<1>11. Scoped(i) /\ made[i].home = h /\ ~Lists(destroyed, i) /\ Taken(i)
  BY <1>2, <1>10, <1>24 DEF Taken, Lists
<1>12. \A j : Lists(E, j) <=> Lists(D, j) \/ j = i
  <2>1. Len(D) + 1 \in 1..Len(E) /\ \A n \in 1..Len(D) : n \in 1..Len(E)
    BY <1>8
  <2> QED
    BY <1>8, <2>1 DEF Lists
<1>13. \A n, k \in 1..Len(s) : s[n] = s[k] => n = k
  BY <1>9, <1>24 DEF Once
<1>14. \A n \in 1..Len(rest) : rest[n] # i
  <2>1. ASSUME NEW n \in 1..Len(rest) PROVE rest[n] # i
    <3>1. PICK k \in 1..Len(s) : k = n + 1 /\ rest[n] = s[k]
      BY <1>28
    <3>2. k # 1
      BY <3>1
    <3>3. s[k] # s[1]
      BY <1>2, <1>13, <3>2
    <3> QED
      BY <1>1, <3>1, <3>3
  <2> QED
    BY <2>1
<1>15. PICK later : later = [y \in Closes |-> IF y = x THEN 1 ELSE 0]
  OBVIOUS
<1>21. /\ doomed' = N /\ later \in [Closes -> Nat] /\ later[x] = 1
       /\ N[x] = rest /\ O[x] = s
       /\ \A y \in Closes \ {x} : N[y] = O[y] /\ later[y] = 0
  BY <1>5, <1>15, <1>24, <1>25, <1>26
<1>22. ASSUME NEW y \in Closes, NEW n \in 1..Len(N[y])
       PROVE  /\ n + later[y] \in 1..Len(O[y]) /\ N[y][n] = O[y][n + later[y]]
              /\ N[y][n] # i
  <2>1. CASE y = x
    BY <1>14, <1>21, <1>28, <2>1
  <2>2. CASE y # x
    <3>1. N[y] = O[y] /\ n + later[y] = n
      BY <1>21, <2>2
    <3>2. O[y][n] # i
      BY <1>2, <1>5, <1>9, <1>21, <2>2, <3>1 DEF Once
    <3> QED
      BY <3>1, <3>2
  <2> QED
    BY <2>1, <2>2
<1>23. \A y \in Closes : \A n \in 1..Len(N[y]) :
         N[y][n] # i /\ \E k \in 1..Len(O[y]) : N[y][n] = O[y][k]
  <2>1. ASSUME NEW y \in Closes, NEW n \in 1..Len(N[y])
        PROVE  N[y][n] # i /\ \E k \in 1..Len(O[y]) : N[y][n] = O[y][k]
    <3>1. PICK k : k = n + later[y]
      OBVIOUS
    <3>2. k \in 1..Len(O[y]) /\ N[y][n] = O[y][k] /\ N[y][n] # i
      BY <1>22, <3>1
    <3> QED
      BY <3>2
  <2> QED
    BY <2>1
<1>16. \A j : (\E y \in Closes : Lists(N[y], j)) => Taken(j) /\ j # i
  <2>1. ASSUME NEW y \in Closes, NEW n \in 1..Len(N[y]) PROVE Taken(N[y][n])
    <3>1. PICK k \in 1..Len(O[y]) : N[y][n] = O[y][k]
      BY <1>23
    <3> QED
      BY <1>5, <3>1 DEF Taken, Lists
  <2> QED
    <3>1. ASSUME NEW j, NEW y \in Closes, Lists(N[y], j) PROVE Taken(j) /\ j # i
      <4>1. PICK n \in 1..Len(N[y]) : N[y][n] = j
        BY <3>1 DEF Lists
      <4> QED
        BY <1>23, <2>1, <4>1
    <3> QED
      BY <3>1
<1>17. TokensOK'
  <2>1. /\ \A u \in Tokens : singletons'[u] # None => made'[singletons'[u]].token = u
        /\ \A u \in Tokens : overrides'[u] # None => made'[overrides'[u]].token = u
    BY <1>9 DEF TokensOK
  <2>2. \A g \in Containers : \A n \in 1..Len(cache[g]) :
          /\ Scoped(cache[g][n].instance)
          /\ made[cache[g][n].instance].token = cache[g][n].token
          /\ \A k \in 1..Len(cache[g]) : n # k => cache[g][n].token # cache[g][k].token
    BY <1>9 DEF TokensOK
  <2>3. ASSUME NEW y \in Closes, NEW n \in 1..Len(N[y])
        PROVE  Scoped(N[y][n]) /\ made[N[y][n]].home = Closed[y]
    <3>1. PICK k \in 1..Len(O[y]) : N[y][n] = O[y][k]
      BY <1>23
    <3> QED
      <4>1. Scoped(O[y][k]) /\ made[O[y][k]].home = Closed[y]
        BY <1>5, <1>9 DEF TokensOK
      <4> QED
        BY <3>1, <4>1
  <2>4. \A n \in 1..Len(E) : Scoped(E[n])
    BY <1>6, <1>8, <1>9, <1>11 DEF TokensOK
  <2>5. \A k \in Instances : \A n \in 1..Len(made[k].args) : made[k].args[n] < k
    BY <1>9 DEF TokensOK
  <2>6. (\A k : Scoped(k)' <=> Scoped(k)) /\ Instances' = Instances
    BY DEF Scoped, Instances
  <2>7. doomed' = N /\ destroyed' = E /\ UNCHANGED <<made, cache>>
    BY <1>8, <1>21
  <2>8. /\ \A g \in Containers : \A n \in 1..Len(cache[g]) :
             cache[g][n].instance \in Instances' /\ made'[cache[g][n].instance].scope = "request"
        /\ \A y \in Closes : \A n \in 1..Len(N[y]) : N[y][n] \in Instances' /\ made'[N[y][n]].scope = "request"
        /\ \A n \in 1..Len(E) : E[n] \in Instances' /\ made'[E[n]].scope = "request"
    BY <2>2, <2>3, <2>4, <2>6, <2>7 DEF Scoped
  <2> QED
    BY <2>1, <2>2, <2>3, <2>5, <2>6, <2>7, <2>8 DEF TokensOK, Scoped
<1>18. Once'
  <2>1. /\ \A d, e \in Calls : Fresh(stack[d]) # None /\ Fresh(stack[d]) = Fresh(stack[e]) => d = e
        /\ \A d \in Calls : Fresh(stack[d]) # None =>
             /\ \A g \in Containers : ~CacheHas(cache[g], Fresh(stack[d]))
             /\ ~Taken(Fresh(stack[d])) /\ ~Lists(D, Fresh(stack[d]))
        /\ \A g \in Containers : \A n \in 1..Len(cache[g]) :
             ~Taken(cache[g][n].instance) /\ ~Lists(D, cache[g][n].instance)
        /\ \A y, z \in Closes : \A n \in 1..Len(O[y]), k \in 1..Len(O[z]) :
             O[y][n] = O[z][k] => y = z /\ n = k
        /\ \A y \in Closes : \A n \in 1..Len(O[y]) : ~Lists(D, O[y][n])
        /\ \A n, k \in 1..Len(D) : D[n] = D[k] => n = k
    <3>1. /\ \A d, e \in Calls : Fresh(stack[d]) # None /\ Fresh(stack[d]) = Fresh(stack[e]) => d = e
          /\ \A d \in Calls : Fresh(stack[d]) # None =>
               /\ \A g \in Containers : ~CacheHas(cache[g], Fresh(stack[d]))
               /\ ~Taken(Fresh(stack[d])) /\ ~Lists(destroyed, Fresh(stack[d]))
          /\ \A g \in Containers : \A n \in 1..Len(cache[g]) :
               ~Taken(cache[g][n].instance) /\ ~Lists(destroyed, cache[g][n].instance)
      BY <1>9 DEF Once
    <3>2. /\ \A y, z \in Closes : \A n \in 1..Len(doomed[y]), k \in 1..Len(doomed[z]) :
               doomed[y][n] = doomed[z][k] => y = z /\ n = k
          /\ \A y \in Closes : \A n \in 1..Len(doomed[y]) : ~Lists(destroyed, doomed[y][n])
          /\ \A n, k \in 1..Len(destroyed) : destroyed[n] = destroyed[k] => n = k
      BY <1>9 DEF Once
    <3>3. \A d \in Calls : Fresh(stack[d]) # None =>
            /\ \A g \in Containers : ~CacheHas(cache[g], Fresh(stack[d]))
            /\ ~Taken(Fresh(stack[d])) /\ ~Lists(D, Fresh(stack[d]))
      BY <1>6, <3>1
    <3>4. \A g \in Containers : \A n \in 1..Len(cache[g]) :
            ~Taken(cache[g][n].instance) /\ ~Lists(D, cache[g][n].instance)
      BY <1>6, <3>1
    <3>5. \A y, z \in Closes : \A n \in 1..Len(O[y]), k \in 1..Len(O[z]) :
            O[y][n] = O[z][k] => y = z /\ n = k
      BY <1>5, <3>2
    <3>6. \A y \in Closes : \A n \in 1..Len(O[y]) : ~Lists(D, O[y][n])
      BY <1>5, <1>6, <3>2
    <3>7. \A n, k \in 1..Len(D) : D[n] = D[k] => n = k
      BY <1>6, <3>2
    <3> QED
      BY <3>1, <3>3, <3>4, <3>5, <3>6, <3>7
  <2>2. \A d \in Calls : Fresh(stack[d]) # None =>
          /\ ~\E y \in Closes : Lists(N[y], Fresh(stack[d]))
          /\ ~Lists(E, Fresh(stack[d]))
    <3>1. ASSUME NEW d \in Calls, NEW j, j = Fresh(stack[d]), j # None
          PROVE  ~(\E y \in Closes : Lists(N[y], j)) /\ ~Lists(E, j)
      <4>1. ~Taken(j) /\ ~Lists(D, j)
        BY <2>1, <3>1
      <4> QED
        BY <1>11, <1>12, <1>16, <4>1
    <3> QED
      BY <3>1
  <2>3. \A g \in Containers : \A n \in 1..Len(cache[g]) :
          /\ ~\E y \in Closes : Lists(N[y], cache[g][n].instance)
          /\ ~Lists(E, cache[g][n].instance)
    <3>1. ASSUME NEW g \in Containers, NEW n \in 1..Len(cache[g]), NEW j, j = cache[g][n].instance
          PROVE  ~(\E y \in Closes : Lists(N[y], j)) /\ ~Lists(E, j)
      <4>1. ~Taken(j) /\ ~Lists(D, j)
        BY <2>1, <3>1
      <4> QED
        BY <1>11, <1>12, <1>16, <4>1
    <3> QED
      BY <3>1
  <2>4. \A y, z \in Closes : \A n \in 1..Len(N[y]), k \in 1..Len(N[z]) :
          N[y][n] = N[z][k] => y = z /\ n = k
    <3>1. /\ \A y, z \in Closes : \A n \in 1..Len(O[y]), k \in 1..Len(O[z]) : O[y][n] = O[z][k] => y = z
          /\ \A y \in Closes : \A n, k \in 1..Len(O[y]) : O[y][n] = O[y][k] => n = k
      <4>1. \A y, z \in Closes : \A n \in 1..Len(O[y]), k \in 1..Len(O[z]) :
              O[y][n] = O[z][k] => y = z /\ n = k
        BY <2>1
      <4>2. ASSUME NEW y \in Closes, NEW n \in 1..Len(O[y]), NEW k \in 1..Len(O[y]), O[y][n] = O[y][k]
            PROVE  n = k
        BY <4>1, <4>2
      <4> QED
        BY <4>1, <4>2
    <3>2. ASSUME NEW y \in Closes, NEW z \in Closes, NEW n \in 1..Len(N[y]), NEW k \in 1..Len(N[z]),
                 N[y][n] = N[z][k]
          PROVE  y = z
      <4>1. PICK a \in 1..Len(O[y]) : N[y][n] = O[y][a]
        BY <1>23
      <4>2. PICK b \in 1..Len(O[z]) : N[z][k] = O[z][b]
        BY <1>23
      <4>3. O[y][a] = O[z][b]
        BY <3>2, <4>1, <4>2
      <4> QED
        BY <3>1, <4>3
    <3>3. ASSUME NEW y \in Closes, NEW n \in 1..Len(N[y]), NEW k \in 1..Len(N[y]), N[y][n] = N[y][k]
          PROVE  n = k
      <4>1. CASE y = x
        <5>1. PICK a \in 1..Len(s) : a = n + 1 /\ rest[n] = s[a]
          BY <1>21, <1>28, <4>1
        <5>2. PICK b \in 1..Len(s) : b = k + 1 /\ rest[k] = s[b]
          BY <1>21, <1>28, <4>1
        <5>3. s[a] = s[b]
          BY <1>21, <3>3, <4>1, <5>1, <5>2
        <5>4. a = b
          BY <1>13, <5>3
        <5>5. n \in Int /\ k \in Int
          <6>1. N[y] \in Seq(Nat)
            OBVIOUS
          <6> QED
            BY <6>1
        <5>6. n + 1 = k + 1
          BY <5>1, <5>2, <5>4
        <5> QED
          BY <5>5, <5>6, Successors, Zenon
      <4>2. CASE y # x
        <5>1. N[y] = O[y]
          BY <1>21, <4>2
        <5>2. n \in 1..Len(O[y]) /\ k \in 1..Len(O[y]) /\ O[y][n] = O[y][k]
          BY <3>3, <5>1
        <5>3. \A l, m \in 1..Len(O[y]) : O[y][l] = O[y][m] => l = m
          BY <3>1
        <5> QED
          BY <5>2, <5>3, Zenon
      <4> QED
        BY <4>1, <4>2
    <3> QED
      BY <3>2, <3>3
  <2>5. \A y \in Closes : \A n \in 1..Len(N[y]) : ~Lists(E, N[y][n])
    <3>1. ASSUME NEW y \in Closes, NEW n \in 1..Len(N[y]) PROVE ~Lists(E, N[y][n])
      <4>1. PICK k \in 1..Len(O[y]) : N[y][n] = O[y][k] /\ N[y][n] # i
        BY <1>23
      <4> QED
        BY <1>12, <2>1, <4>1
    <3> QED
      BY <3>1
  <2>6. ASSUME NEW n \in 1..Len(E), NEW k \in 1..Len(E), E[n] = E[k] PROVE n = k
    <3>1. \A q \in 1..Len(D) : D[q] # i
      BY <1>6, <1>11 DEF Lists
    <3>2. CASE n \in 1..Len(D) /\ k \in 1..Len(D)
      <4>1. D[n] = D[k]
        BY <1>8, <2>6, <3>2
      <4> QED
        BY <2>1, <3>2, <4>1
    <3>3. CASE n = Len(D) + 1 /\ k \in 1..Len(D)
      BY <1>8, <2>6, <3>1, <3>3
    <3>4. CASE k = Len(D) + 1 /\ n \in 1..Len(D)
      BY <1>8, <2>6, <3>1, <3>4
    <3> QED
      BY <1>8, <3>2, <3>3, <3>4
  <2>7. doomed' = N /\ destroyed' = E /\ UNCHANGED <<stack, cache>>
    BY <1>8, <1>21
  <2>8. /\ \A d, e \in Calls : Fresh(stack'[d]) # None /\ Fresh(stack'[d]) = Fresh(stack'[e]) => d = e
        /\ \A d \in Calls : Fresh(stack'[d]) # None =>
             /\ \A g \in Containers : ~CacheHas(cache'[g], Fresh(stack'[d]))
             /\ ~(\E y \in Closes : Lists(doomed'[y], Fresh(stack'[d])))
             /\ ~Lists(destroyed', Fresh(stack'[d]))
    BY <2>1, <2>2, <2>7
  <2>9. \A g \in Containers : \A n \in 1..Len(cache'[g]) :
          /\ ~(\E y \in Closes : Lists(doomed'[y], cache'[g][n].instance))
          /\ ~Lists(destroyed', cache'[g][n].instance)
    BY <2>3, <2>7
  <2>10. /\ \A y, z \in Closes : \A n \in 1..Len(doomed'[y]), k \in 1..Len(doomed'[z]) :
              doomed'[y][n] = doomed'[z][k] => y = z /\ n = k
         /\ \A y \in Closes : \A n \in 1..Len(doomed'[y]) : ~Lists(destroyed', doomed'[y][n])
         /\ \A n, k \in 1..Len(destroyed') : destroyed'[n] = destroyed'[k] => n = k
    BY <2>4, <2>5, <2>6, <2>7
  <2> QED
    BY <2>8, <2>9, <2>10 DEF Once, Taken
<1>19. InOrder'
  <2>1. \A g \in calm' : \A n, k \in 1..Len(cache'[g]) : n < k => cache'[g][n].instance < cache'[g][k].instance
    BY <1>9 DEF InOrder
  <2>2. ASSUME NEW y \in Closes, Closed[y] \in calm',
               NEW n \in 1..Len(N[y]), NEW k \in 1..Len(N[y]), n < k
        PROVE  N[y][k] < N[y][n]
    <3>1. n + later[y] \in 1..Len(O[y]) /\ N[y][n] = O[y][n + later[y]]
      BY <1>22
    <3>2. k + later[y] \in 1..Len(O[y]) /\ N[y][k] = O[y][k + later[y]]
      BY <1>22
    <3>3. n + later[y] < k + later[y]
      BY <1>21, <2>2
    <3>4. \A a, b \in 1..Len(O[y]) : a < b => O[y][b] < O[y][a]
      BY <1>5, <1>9, <2>2 DEF InOrder
    <3> QED
      BY <3>1, <3>2, <3>3, <3>4
  <2>3. ASSUME NEW d \in 1..Len(E), made[E[d]].home \in calm'
        PROVE  /\ \A n \in 1..Len(cache[made[E[d]].home]) :
                    ~Lists(made[cache[made[E[d]].home][n].instance].args, E[d])
               /\ \A y \in Closes : \A n \in 1..Len(N[y]) : ~Lists(made[N[y][n]].args, E[d])
               /\ \A n \in 1..Len(E) : d < n => ~Lists(made[E[n]].args, E[d])
    <3>1. CASE d = Len(D) + 1
      <4>1. E[d] = i /\ h \in calm
        BY <1>8, <1>11, <2>3, <3>1
      <4>2. Len(cache[h]) = 0
        BY <1>3, <1>9, <4>1 DEF TurnsTaken
      <4>3. \A n \in 1..Len(E) : ~(d < n)
        BY <1>8, <3>1
      <4>4. ASSUME NEW y \in Closes, NEW n \in 1..Len(N[y]),
                   NEW q \in 1..Len(made[N[y][n]].args), made[N[y][n]].args[q] = i
            PROVE  FALSE
        <5>1. PICK k \in 1..Len(O[y]) : N[y][n] = O[y][k] /\ k = n + later[y]
          BY <1>22
        <5>2. PICK j : j = O[y][k]
          OBVIOUS
        <5>3. Scoped(j) /\ made[j].home = Closed[y]
          BY <1>5, <1>9, <5>2 DEF TokensOK
        <5>4. j \in Instances /\ q \in 1..Len(made[j].args) /\ made[j].args[q] = i
          BY <4>4, <5>1, <5>2, <5>3 DEF Scoped
        <5>5. Mine(made[j].home, i)
          BY <5>4 DEF IsolationInv, InjectedOK
        <5>6. Closed[y] = h
          BY <1>11, <5>3, <5>5 DEF Mine, Scoped
        <5>7. closing[y] = "destroying"
          <6>1. O[y] # <<>>
            OBVIOUS
          <6> QED
            BY <1>5, <6>1 DEF KeptInv, KeptShape
        <5>8. y = x
          <6>1. \A a, b \in Closes : closing[a] = "destroying" /\ closing[b] = "destroying" /\
                  Closed[a] = Closed[b] /\ Closed[a] \in calm => a = b
            BY <1>9 DEF TurnsTaken
          <6>2. \A b \in Closes : closing[b] = "destroying" /\ Closed[b] = Closed[x] => x = b
            BY <1>3, <4>1, <6>1
          <6> QED
            BY <1>3, <5>6, <5>7, <6>2
        <5>9. k \in 1..Len(s) /\ j = s[k] /\ k = n + 1 /\ n \in 1..Len(rest)
          BY <1>21, <5>1, <5>2, <5>8
        <5>10. j < i
          <6>1. 1 < k
            BY <5>9
          <6>2. \A a, b \in 1..Len(s) : a < b => s[b] < s[a]
            BY <1>3, <1>9, <1>24, <4>1 DEF InOrder
          <6> QED
            BY <1>2, <5>9, <6>1, <6>2
        <5>11. i < j
          BY <1>9, <5>4 DEF TokensOK
        <5>12. j \in Nat
          BY <5>4 DEF Instances
        <5> QED
          BY <1>2, <5>10, <5>11, <5>12
      <4> QED
        <5>1. \A y \in Closes : \A n \in 1..Len(N[y]) : ~Lists(made[N[y][n]].args, i)
          <6>1. ASSUME NEW y \in Closes, NEW n \in 1..Len(N[y]), Lists(made[N[y][n]].args, i) PROVE FALSE
            <7>1. PICK q \in 1..Len(made[N[y][n]].args) : made[N[y][n]].args[q] = i
              BY <6>1 DEF Lists
            <7> QED
              BY <4>4, <7>1
          <6> QED
            BY <6>1
        <5>2. made[E[d]].home = h
          BY <1>11, <4>1
        <5>3. \A n \in 1..Len(cache[made[E[d]].home]) :
                ~Lists(made[cache[made[E[d]].home][n].instance].args, E[d])
          BY <4>2, <5>2
        <5>4. \A y \in Closes : \A n \in 1..Len(N[y]) : ~Lists(made[N[y][n]].args, E[d])
          BY <4>1, <5>1
        <5> QED
          BY <4>3, <5>3, <5>4
    <3>2. CASE d \in 1..Len(D)
      <4>1. PICK j : j = D[d]
        OBVIOUS
      <4>2. PICK g : g = made[j].home
        OBVIOUS
      <4>3. E[d] = j /\ g \in calm
        BY <1>8, <2>3, <3>2, <4>1, <4>2
      <4>4. /\ \A n \in 1..Len(cache[g]) : ~Lists(made[cache[g][n].instance].args, j)
            /\ \A y \in Closes : \A n \in 1..Len(O[y]) : ~Lists(made[O[y][n]].args, j)
            /\ \A n \in 1..Len(D) : d < n => ~Lists(made[D[n]].args, j)
        <5>1. d \in 1..Len(destroyed) /\ destroyed[d] = j /\ made[destroyed[d]].home = g
          BY <1>6, <3>2, <4>1, <4>2
        <5>2. /\ \A n \in 1..Len(cache[g]) : ~Lists(made[cache[g][n].instance].args, j)
              /\ \A y \in Closes : \A n \in 1..Len(doomed[y]) : ~Lists(made[doomed[y][n]].args, j)
              /\ \A n \in 1..Len(destroyed) : d < n => ~Lists(made[destroyed[n]].args, j)
          <6>1. made[destroyed[d]].home \in calm
            BY <4>3, <5>1
          <6>2. /\ \A n \in 1..Len(cache[made[destroyed[d]].home]) :
                     ~Lists(made[cache[made[destroyed[d]].home][n].instance].args, destroyed[d])
                /\ \A y \in Closes : \A n \in 1..Len(doomed[y]) :
                     ~Lists(made[doomed[y][n]].args, destroyed[d])
                /\ \A n \in 1..Len(destroyed) : d < n => ~Lists(made[destroyed[n]].args, destroyed[d])
            BY <1>9, <5>1, <6>1 DEF InOrder
          <6> QED
            BY <5>1, <6>2
        <5> QED
          BY <1>5, <1>6, <5>2
      <4>5. \A y \in Closes : \A n \in 1..Len(N[y]) : ~Lists(made[N[y][n]].args, j)
        <5>1. ASSUME NEW y \in Closes, NEW n \in 1..Len(N[y]) PROVE ~Lists(made[N[y][n]].args, j)
          <6>1. PICK k \in 1..Len(O[y]) : N[y][n] = O[y][k]
            BY <1>23
          <6> QED
            BY <4>4, <6>1
        <5> QED
          BY <5>1
      <4>6. ~Lists(made[i].args, j)
        BY <1>2, <1>21, <4>4
      <4>7. \A n \in 1..Len(E) : d < n => ~Lists(made[E[n]].args, j)
        BY <1>8, <4>4, <4>6
      <4> QED
        BY <4>2, <4>3, <4>4, <4>5, <4>7
    <3> QED
      BY <1>8, <3>1, <3>2
  <2>4. \A y \in Closes : Closed[y] \in calm' =>
          \A n, k \in 1..Len(N[y]) : n < k => N[y][k] < N[y][n]
    BY <2>2
  <2> QED
    BY <1>8, <1>21, <2>1, <2>3, <2>4 DEF InOrder
<1> QED
  BY <1>17, <1>18, <1>19

LEMMA DestroyKept ==
  ASSUME IsolationInv, KeptInv, NEW x \in Closes, DestroyNext(x) \/ DestroyThrows(x)
  PROVE  KeptInv'
<1>1. KeptShape /\ TokensOK /\ PathsKept /\ TurnsTaken /\ Once /\ NoneLost /\ InOrder /\ SinglesOnce
  BY DEF KeptInv
<1>2. doomed \in [Closes -> Seq(Nat)] /\ destroyed \in Seq(Nat)
      /\ closing \in [Closes -> {"idle", "destroying", "closed", "failed"}]
  BY <1>1 DEF KeptShape
<1>3. PICK s \in Seq(Nat) : s = doomed[x]
  BY <1>2
<1>4. closing[x] = "destroying" /\ s # <<>> /\ destroyed' = Append(destroyed, s[1])
      /\ UNCHANGED <<made, singletons, overrides, cache, stack, children, opened, answered, serial>>
  BY <1>3 DEF DestroyNext, DestroyThrows, Head
<1>5. PICK rest : rest = IF DestroyNext(x) THEN Tail(s) ELSE <<>>
  OBVIOUS
<1>6. /\ rest \in Seq(Nat) /\ \A n \in 1..Len(rest) : n + 1 \in 1..Len(s) /\ rest[n] = s[n + 1]
      /\ DestroyNext(x) => Len(rest) = Len(s) - 1
  <2>1. CASE DestroyNext(x)
    BY <1>4, <1>5, <2>1
  <2>2. CASE ~DestroyNext(x)
    BY <1>5, <2>2
  <2> QED
    BY <2>1, <2>2
<1>7. /\ doomed' = [doomed EXCEPT ![x] = rest] /\ calm' \subseteq calm
      /\ closing' = closing \/ (closing' = [closing EXCEPT ![x] = "failed"] /\ rest = <<>>)
      /\ ~DestroyNext(x) => calm' = calm \ {Closed[x]}
      /\ DestroyNext(x) => closing' = closing
  BY <1>3, <1>5 DEF DestroyNext, DestroyThrows
<1>8. TokensOK' /\ Once' /\ InOrder'
  <2>1. doomed' \in [Closes -> Seq(Nat)] /\ doomed'[x] = rest /\ \A y \in Closes \ {x} : doomed'[y] = doomed[y]
    BY <1>2, <1>6, <1>7
  <2>2. s[1] \in Nat
    BY <1>4
  <2>3. PICK E : E = Append(destroyed, s[1])
    OBVIOUS
  <2>4. /\ E \in Seq(Nat) /\ Len(E) = Len(destroyed) + 1
        /\ E[Len(destroyed) + 1] = s[1] /\ \A n \in 1..Len(destroyed) : E[n] = destroyed[n]
    BY <1>2, <2>2, <2>3
  <2>5. destroyed' \in Seq(Nat) /\ Appended(destroyed', destroyed, doomed[x][1])
    BY <1>3, <1>4, <2>3, <2>4 DEF Appended
  <2>6. Cut(doomed'[x], doomed[x])
    BY <1>3, <1>6, <2>1 DEF Cut
  <2>7. UNCHANGED <<made, singletons, overrides, cache, stack>> /\ calm' \subseteq calm
        /\ closing[x] = "destroying" /\ doomed[x] # <<>>
    BY <1>3, <1>4, <1>7
  <2> QED
    BY <2>1, <2>5, <2>6, <2>7, DestroyPlaces
<1>9. \A y \in Closes : doomed'[y] = IF y = x THEN rest ELSE doomed[y]
  BY <1>2, <1>7
<1>10. \A y \in Closes : closing'[y] = "destroying" => closing[y] = "destroying"
  BY <1>2, <1>7
<1>11. KeptShape'
  <2>1. doomed' \in [Closes -> Seq(Nat)]
    BY <1>2, <1>6, <1>7
  <2>2. closing' \in [Closes -> {"idle", "destroying", "closed", "failed"}]
    BY <1>2, <1>7
  <2>3. destroyed' \in Seq(Nat)
    <3>1. s[1] \in Nat
      BY <1>4
    <3> QED
      BY <1>2, <1>4, <3>1
  <2>4. \A y \in Closes : closing'[y] # "destroying" => doomed'[y] = <<>>
    BY <1>1, <1>2, <1>4, <1>7, <1>9 DEF KeptShape
  <2> QED
    BY <1>1, <1>4, <1>7, <2>1, <2>2, <2>3, <2>4 DEF KeptShape
<1>12. PathsKept'
  <2>1. PICK C \in SUBSET Calls : C = {}
    OBVIOUS
  <2>2. stack' \in [Calls -> Seq(FrameType)]
    BY <1>4 DEF IsolationInv, ContainerShape
  <2> QED
    BY <1>1, <1>4, <1>7, <2>1, <2>2, PathsStay
<1>13. TurnsTaken'
  BY <1>1, <1>4, <1>7, <1>10 DEF TurnsTaken
<1>14. NoneLost'
  <2>1. ASSUME NEW k \in Instances, Scoped(k), made[k].home \in calm'
        PROVE  \/ Pend(k) \/ CacheHas(cache[made[k].home], k)
               \/ (\E y \in Closes : Lists(doomed'[y], k)) \/ Lists(destroyed', k)
    <3>1. Pend(k) \/ CacheHas(cache[made[k].home], k) \/ Taken(k) \/ Lists(destroyed, k)
      BY <1>1, <1>7, <2>1 DEF NoneLost
    <3>2. \A n \in 1..Len(destroyed) : n \in 1..Len(destroyed') /\ destroyed'[n] = destroyed[n]
      <4>1. s[1] \in Nat
        BY <1>4
      <4> QED
        BY <1>2, <1>4, <4>1
    <3>3. Lists(destroyed, k) => Lists(destroyed', k)
      BY <3>2 DEF Lists
    <3>4. CASE Taken(k)
      <4>1. PICK y \in Closes : Lists(doomed[y], k)
        BY <3>4 DEF Taken
      <4>2. CASE y # x
        BY <1>9, <4>1, <4>2
      <4>3. CASE y = x
        <5>1. PICK n \in 1..Len(s) : s[n] = k
          BY <1>3, <4>1, <4>3 DEF Lists
        <5>2. made[k].home = Closed[x]
          BY <1>1, <1>3, <5>1 DEF TokensOK
        <5>3. DestroyNext(x)
          BY <1>7, <2>1, <5>2
        <5>4. CASE n = 1
          <6>1. s[1] \in Nat /\ Len(destroyed) + 1 \in 1..Len(destroyed') /\ destroyed'[Len(destroyed) + 1] = s[1]
            <7>1. s[1] \in Nat
              BY <1>4
            <7> QED
              BY <1>2, <1>4, <7>1
          <6> QED
            BY <5>1, <5>4, <6>1 DEF Lists
        <5>5. CASE n # 1
          <6>1. n - 1 \in 1..Len(rest) /\ rest[n - 1] = s[n]
            <7>1. rest = Tail(s) /\ n \in 2..Len(s)
              BY <1>5, <5>3, <5>5
            <7> QED
              BY <7>1
          <6> QED
            BY <1>9, <5>1, <6>1 DEF Lists
        <5> QED
          BY <5>4, <5>5
      <4> QED
        BY <4>2, <4>3
    <3> QED
      BY <3>1, <3>3, <3>4
  <2> QED
    BY <1>4, <2>1 DEF NoneLost, Pend, Taken, Scoped, Instances
<1>15. SinglesOnce'
  BY <1>1, <1>4 DEF SinglesOnce, Instances
<1> QED
  BY <1>8, <1>11, <1>12, <1>13, <1>14, <1>15 DEF KeptInv

\* Once the root's caches have been changed from outside no container is calm.
LEMMA OverrideKept ==
  ASSUME IsolationInv, KeptInv, NEW t \in Replaceable, Override(t)
  PROVE  KeptInv'
<1>1. PICK i : i = [token |-> t, scope |-> "singleton", home |-> Root, args |-> <<>>]
  OBVIOUS
<1>2. i \in InstanceType /\ i.token = t /\ i.args = <<>>
  BY <1>1, ContainerAssumption DEF InstanceType, Kinds, Containers
<1>3. /\ made' = Append(made, i) /\ overrides' = [overrides EXCEPT ![t] = Len(made')]
      /\ singletons' = [singletons EXCEPT ![t] = Len(made')] /\ calm' = {} /\ serial' = FALSE
      /\ UNCHANGED <<cache, children, stack, doomed, closing, destroyed, opened, answered>>
  BY <1>1 DEF Override
<1>4. TokensOK'
  <2>1. \A u \in Tokens : singletons'[u] # None =>
          singletons'[u] = singletons[u] \/ (singletons'[u] = Len(made') /\ i.token = u)
    BY <1>2, <1>3 DEF IsolationInv, ContainerShape
  <2>2. \A u \in Tokens : overrides'[u] # None =>
          overrides'[u] = overrides[u] \/ (overrides'[u] = Len(made') /\ i.token = u)
    BY <1>2, <1>3 DEF IsolationInv, ContainerShape
  <2>3. \A n \in 1..Len(i.args) : i.args[n] \in Instances
    BY <1>2
  <2>4. UNCHANGED <<cache, doomed, destroyed>>
    BY <1>3
  <2> QED
    BY <1>2, <1>3, <2>1, <2>2, <2>3, <2>4, TokensGrow
<1>5. PathsKept'
  <2>1. PICK C \in SUBSET Calls : C = {}
    OBVIOUS
  <2>2. stack' \in [Calls -> Seq(FrameType)]
    BY <1>3 DEF IsolationInv, ContainerShape
  <2>3. /\ \E k \in InstanceType : made' = Append(made, k)
        /\ calm' \subseteq calm /\ ~serial' /\ calm' = {} /\ stack' = stack
    BY <1>2, <1>3
  <2> QED
    BY <2>1, <2>2, <2>3, PathsStay DEF KeptInv
<1>6. TurnsTaken' /\ NoneLost' /\ SinglesOnce' /\ InOrder'
  BY <1>3 DEF TurnsTaken, NoneLost, SinglesOnce, InOrder
<1>7. Once'
  <2>1. UNCHANGED <<stack, cache, doomed, destroyed>> /\ Once
    BY <1>3 DEF KeptInv
  <2> QED
    BY <2>1 DEF Once, Taken
<1>8. KeptShape'
  BY <1>3 DEF KeptInv, KeptShape
<1> QED
  BY <1>4, <1>5, <1>6, <1>7, <1>8 DEF KeptInv

LEMMA ClearCacheKept ==
  ASSUME IsolationInv, KeptInv, ClearCache
  PROVE  KeptInv'
<1>1. /\ singletons' = [t \in Tokens |-> None] /\ calm' = {} /\ serial' = FALSE
      /\ cache' = [h \in Containers |-> IF h \in children \cup {Root} THEN <<>> ELSE cache[h]]
      /\ UNCHANGED <<made, children, stack, doomed, closing, destroyed, opened, answered, overrides>>
  BY DEF ClearCache
<1>2. \A h \in Containers : cache'[h] = cache[h] \/ Len(cache'[h]) = 0
  BY <1>1
<1>3. TokensOK /\ Once
  BY DEF KeptInv
<1>4. TokensOK'
  <2>1. ASSUME NEW h \in Containers, NEW n \in 1..Len(cache'[h])
        PROVE  /\ Scoped(cache'[h][n].instance)
               /\ made[cache'[h][n].instance].token = cache'[h][n].token
               /\ \A k \in 1..Len(cache'[h]) : n # k => cache'[h][n].token # cache'[h][k].token
    <3>1. cache'[h] = cache[h]
      BY <1>2, <2>1
    <3>2. PICK q : q = cache[h]
      OBVIOUS
    <3>3. /\ Scoped(q[n].instance) /\ made[q[n].instance].token = q[n].token
          /\ \A k \in 1..Len(q) : n # k => q[n].token # q[k].token
      BY <1>3, <3>1, <3>2 DEF TokensOK
    <3> QED
      BY <3>1, <3>2, <3>3
  <2>2. /\ \A u \in Tokens : overrides[u] # None => made[overrides[u]].token = u
        /\ \A y \in Closes : \A n \in 1..Len(doomed[y]) :
             Scoped(doomed[y][n]) /\ made[doomed[y][n]].home = Closed[y]
        /\ \A n \in 1..Len(destroyed) : Scoped(destroyed[n])
        /\ \A k \in Instances : \A n \in 1..Len(made[k].args) : made[k].args[n] < k
    BY <1>3 DEF TokensOK
  <2>3. \A u \in Tokens : singletons'[u] = None
    BY <1>1
  <2> QED
    BY <1>1, <2>1, <2>2, <2>3 DEF TokensOK, Scoped, Instances
<1>5. PathsKept'
  <2>1. PICK C \in SUBSET Calls : C = {}
    OBVIOUS
  <2>2. stack' \in [Calls -> Seq(FrameType)]
    BY <1>1 DEF IsolationInv, ContainerShape
  <2>3. made' = made /\ calm' \subseteq calm /\ ~serial' /\ calm' = {} /\ stack' = stack
    BY <1>1
  <2> QED
    BY <2>1, <2>2, <2>3, PathsStay DEF KeptInv
<1>6. TurnsTaken' /\ NoneLost' /\ SinglesOnce' /\ InOrder'
  BY <1>1 DEF TurnsTaken, NoneLost, SinglesOnce, InOrder
<1>7. Once'
  <2>1. \A h \in Containers : \A j : CacheHas(cache'[h], j) => CacheHas(cache[h], j)
    BY <1>2 DEF CacheHas
  <2>2. ASSUME NEW h \in Containers, NEW n \in 1..Len(cache'[h])
        PROVE  ~Taken(cache'[h][n].instance) /\ ~Lists(destroyed, cache'[h][n].instance)
    <3>1. cache'[h] = cache[h]
      BY <1>2, <2>2
    <3> QED
      BY <1>3, <2>2, <3>1 DEF Once
  <2>3. /\ \A d, e \in Calls : Fresh(stack[d]) # None /\ Fresh(stack[d]) = Fresh(stack[e]) => d = e
        /\ \A d \in Calls : Fresh(stack[d]) # None =>
             /\ \A h \in Containers : ~CacheHas(cache'[h], Fresh(stack[d]))
             /\ ~Taken(Fresh(stack[d])) /\ ~Lists(destroyed, Fresh(stack[d]))
        /\ \A y, z \in Closes : \A n \in 1..Len(doomed[y]), k \in 1..Len(doomed[z]) :
             doomed[y][n] = doomed[z][k] => y = z /\ n = k
        /\ \A y \in Closes : \A n \in 1..Len(doomed[y]) : ~Lists(destroyed, doomed[y][n])
        /\ \A n, k \in 1..Len(destroyed) : destroyed[n] = destroyed[k] => n = k
    BY <1>3, <2>1 DEF Once
  <2> QED
    BY <1>1, <2>2, <2>3 DEF Once, Taken
<1>8. KeptShape'
  BY <1>1 DEF KeptInv, KeptShape
<1> QED
  BY <1>4, <1>5, <1>6, <1>7, <1>8 DEF KeptInv

-----------------------------------------------------------------------------

LEMMA KeptInit == ContainerInit => KeptInv
<1> SUFFICES ASSUME ContainerInit PROVE KeptInv
  OBVIOUS
<1>1. /\ made = <<>> /\ destroyed = <<>> /\ children = {} /\ opened = {} /\ answered = {}
      /\ singletons = [t \in Tokens |-> None] /\ overrides = [t \in Tokens |-> None]
      /\ cache = [h \in Containers |-> <<>>] /\ stack = [c \in Calls |-> <<>>]
      /\ doomed = [x \in Closes |-> <<>>] /\ closing = [x \in Closes |-> "idle"]
      /\ calm = Containers /\ serial = TRUE
  BY DEF ContainerInit
<1>2. KeptShape
  BY <1>1 DEF KeptShape
<1>3. TokensOK
  BY <1>1 DEF TokensOK, Instances
<1>4. PathsKept /\ TurnsTaken
  BY <1>1 DEF PathsKept, PathKept, TurnsTaken
<1>5. \A c \in Calls : Fresh(stack[c]) = None
  BY <1>1 DEF Fresh
<1>6. Once
  BY <1>1, <1>5 DEF Once
<1>7. NoneLost /\ SinglesOnce
  BY <1>1 DEF NoneLost, SinglesOnce, Instances
<1>8. InOrder
  BY <1>1 DEF InOrder
<1> QED
  BY <1>2, <1>3, <1>4, <1>6, <1>7, <1>8 DEF KeptInv

LEMMA KeptQuiet ==
  ASSUME IsolationInv, KeptInv,
         \/ \E q \in Requests : Open(q) \/ Respond(q)
         \/ \E x \in Closes : CloseEnds(x)
         \/ UNCHANGED containerVars
  PROVE  KeptInv'
<1>1. KeptShape
  BY DEF KeptInv
<1>2. ASSUME NEW q \in Requests, Open(q) PROVE KeptInv'
  <2>1. KeptShape'
    BY <1>1, <1>2 DEF KeptShape, Open
  <2> QED
    BY <1>2, <2>1, QuietStep DEF Open
<1>3. ASSUME NEW q \in Requests, Respond(q) PROVE KeptInv'
  <2>1. KeptShape'
    BY <1>1, <1>3 DEF KeptShape, Respond
  <2> QED
    BY <1>3, <2>1, QuietStep DEF Respond
<1>4. ASSUME NEW x \in Closes, CloseEnds(x) PROVE KeptInv'
  <2>1. KeptShape'
    BY <1>1, <1>4 DEF KeptShape, CloseEnds
  <2>2. \A y \in Closes : closing'[y] = "destroying" => closing[y] = "destroying"
    BY <1>1, <1>4 DEF KeptShape, CloseEnds
  <2> QED
    BY <1>4, <2>1, <2>2, QuietStep DEF CloseEnds
<1>5. CASE UNCHANGED containerVars
  <2>1. KeptShape'
    BY <1>1, <1>5 DEF KeptShape, containerVars
  <2> QED
    BY <1>5, <2>1, QuietStep DEF containerVars
<1> QED
  BY <1>2, <1>3, <1>4, <1>5

LEMMA KeptNext == IsolationInv /\ KeptInv /\ [ContainerNext]_containerVars => KeptInv'
<1> SUFFICES ASSUME IsolationInv, KeptInv, [ContainerNext]_containerVars PROVE KeptInv'
  OBVIOUS
<1>1. ASSUME NEW q \in Requests, Open(q) \/ Respond(q) PROVE KeptInv'
  BY <1>1, KeptQuiet
<1>2. ASSUME NEW c \in Calls, Get(c) \/ Resolve(c) PROVE KeptInv'
  <2>1. CASE Get(c)
    BY <2>1, GetKept
  <2>2. CASE Unresolvable(c) \/ ConstructThrows(c) \/ Settle(c)
    BY <2>2, RejectKept
  <2>3. CASE Reuse(c)
    BY <2>3, ReuseKept
  <2>4. CASE Descend(c)
    BY <2>4, DescendKept
  <2>5. CASE Construct(c)
    BY <2>5, ConstructKept
  <2>6. CASE Store(c)
    BY <2>6, StoreKept
  <2>7. CASE Forward(c)
    BY <2>7, ForwardKept
  <2> QED
    BY <1>2, <2>1, <2>2, <2>3, <2>4, <2>5, <2>6, <2>7 DEF Resolve
<1>3. ASSUME NEW x \in Closes, Close(x) \/ CloseStep(x) PROVE KeptInv'
  <2>1. CASE Close(x)
    BY <2>1, CloseKept
  <2>2. CASE DestroyNext(x) \/ DestroyThrows(x)
    BY <2>2, DestroyKept
  <2>3. CASE CloseEnds(x)
    BY <2>3, KeptQuiet
  <2> QED
    BY <1>3, <2>1, <2>2, <2>3 DEF CloseStep
<1>4. ASSUME NEW t \in Replaceable, Override(t) PROVE KeptInv'
  BY <1>4, OverrideKept
<1>5. CASE ClearCache
  BY <1>5, ClearCacheKept
<1>6. CASE UNCHANGED containerVars
  BY <1>6, KeptQuiet
<1> QED
  BY <1>1, <1>2, <1>3, <1>4, <1>5, <1>6 DEF ContainerNext

\* No call goes deeper than there are tokens.
LEMMA DepthBounded ==
  ASSUME IsolationInv, KeptInv, NEW c \in Calls
  PROVE  Len(stack[c]) <= 1 + Cardinality(Tokens)
<1>1. PICK s \in Seq(FrameType) : s = stack[c]
  BY DEF IsolationInv, ContainerShape
<1>2. \A n, m \in 1..Len(s) : n # m => s[n].token # s[m].token
  <2>1. PathKept(c, s)
    BY <1>1 DEF KeptInv, PathsKept
  <2> QED
    BY <2>1 DEF PathKept
<1>3. PICK f : f = [n \in 1..Len(s) |-> s[n].token]
  OBVIOUS
<1>4. f \in [1..Len(s) -> Tokens \cup {Missing}]
  <2>1. \A n \in 1..Len(s) : s[n] \in FrameType
    OBVIOUS
  <2>2. \A n \in 1..Len(s) : s[n].token \in Tokens \cup {Missing}
    BY <2>1 DEF FrameType
  <2> QED
    BY <1>3, <2>2
<1>5. f \in Injection(1..Len(s), Tokens \cup {Missing})
  BY <1>2, <1>3, <1>4 DEF Injection, IsInjective
<1>6. IsFiniteSet(Tokens) /\ Missing \notin Tokens
  BY ContainerAssumption
<1>7. IsFiniteSet(Tokens \cup {Missing}) /\ Cardinality(Tokens \cup {Missing}) = Cardinality(Tokens) + 1
  BY <1>6, FS_AddElement
<1>8. Cardinality(1..Len(s)) <= Cardinality(Tokens \cup {Missing})
  BY <1>5, <1>7, FS_Injection
<1>9. Cardinality(1..Len(s)) = Len(s) /\ Len(s) \in Nat
  <2>1. PICK k \in Nat : k = Len(s)
    OBVIOUS
  <2>2. Cardinality(1..k) = k
    BY FS_Interval
  <2> QED
    BY <2>1, <2>2
<1>10. Cardinality(Tokens) \in Nat
  BY <1>6, FS_CardinalityType
<1> QED
  BY <1>1, <1>7, <1>8, <1>9, <1>10

LEMMA KeptTypes == ASSUME IsolationInv, KeptInv PROVE ContainerTypeOK
<1>1. \A t \in Tokens : singletons[t] # None =>
        singletons[t] \in Instances /\ made[singletons[t]].token = t
  BY DEF IsolationInv, SharedOK, KeptInv, TokensOK
<1>2. ASSUME NEW h \in Containers, NEW n \in DOMAIN cache[h], NEW m \in DOMAIN cache[h]
      PROVE  /\ made[cache[h][n].instance].token = cache[h][n].token
             /\ n # m => cache[h][n].token # cache[h][m].token
  <2>1. cache[h] \in Seq(CacheType)
    BY DEF IsolationInv, ContainerShape
  <2>2. n \in 1..Len(cache[h]) /\ m \in 1..Len(cache[h])
    BY <2>1
  <2> QED
    BY <2>2 DEF KeptInv, TokensOK
<1>3. ASSUME NEW c \in Calls
      PROVE  /\ answer[c] \in Instances \cup {None, Rejected}
             /\ Len(stack[c]) <= 1 + Cardinality(Tokens)
             /\ \A n, m \in Frames(c) : n # m => stack[c][n].token # stack[c][m].token
             /\ \A n \in Frames(c) : \A k \in DOMAIN stack[c][n].args :
                  stack[c][n].args[k] \in Instances
  <2>1. answer[c] \in Instances \cup {None, Rejected}
    BY DEF IsolationInv, AnswersOK, Mine
  <2>2. PICK s \in Seq(FrameType) : s = stack[c]
    BY DEF IsolationInv, ContainerShape
  <2>3. Frames(c) = 1..Len(s)
    BY <2>2 DEF Frames
  <2>4. \A n, m \in 1..Len(s) : n # m => s[n].token # s[m].token
    <3>1. PathKept(c, s)
      BY <2>2 DEF KeptInv, PathsKept
    <3> QED
      BY <3>1 DEF PathKept
  <2>5. ASSUME NEW n \in 1..Len(s), NEW k \in DOMAIN s[n].args PROVE s[n].args[k] \in Instances
    <3>1. FrameOK(c, s[n])
      BY <2>2 DEF IsolationInv, FramesOK
    <3>2. s[n] \in FrameType
      OBVIOUS
    <3>3. s[n].args \in Seq(Nat)
      BY <3>2 DEF FrameType
    <3>4. k \in 1..Len(s[n].args)
      BY <3>3
    <3> QED
      BY <3>1, <3>4 DEF FrameOK, Mine
  <2> QED
    BY <2>1, <2>2, <2>3, <2>4, <2>5, DepthBounded
<1>4. /\ children \subseteq opened /\ answered \subseteq Routed \cap opened
      /\ \A x \in Closes : closing[x] \in {"idle", "destroying", "closed", "failed"}
  BY DEF KeptInv, KeptShape
<1> QED
  BY <1>1, <1>2, <1>3, <1>4 DEF ContainerTypeOK

\* The four places, as the properties name them.
LEMMA PlacesNamed ==
  ASSUME IsolationInv, KeptInv, NEW i, Scoped(i)
  PROVE  /\ Pending(i) <=> Pend(i)
         /\ Cached(i) <=> CacheHas(cache[made[i].home], i)
         /\ Doomed(i) <=> Taken(i)
         /\ Destroyed(i) <=> Lists(destroyed, i)
<1>1. i \in Instances /\ made[i].scope = "request" /\ i # None /\ made[i] \in InstanceType
  BY PlacesAre DEF Scoped
<1>2. Pend(i) => Pending(i)
  <2>1. ASSUME NEW c \in Calls, Fresh(stack[c]) = i PROVE Pending(i)
    <3>1. PICK s \in Seq(FrameType) : s = stack[c]
      BY DEF IsolationInv, ContainerShape
    <3>2. s # <<>> /\ s[Len(s)].instance = i
      BY <1>1, <2>1, <3>1 DEF Fresh
    <3>3. Len(s) \in DOMAIN s
      BY <3>2
    <3> QED
      BY <3>1, <3>2, <3>3 DEF Pending, Frames
  <2> QED
    BY <2>1 DEF Pend
<1>3. Pending(i) => Pend(i)
  <2>1. ASSUME NEW c \in Calls, NEW n \in Frames(c), stack[c][n].instance = i PROVE Pend(i)
    <3>1. PICK s \in Seq(FrameType) : s = stack[c]
      BY DEF IsolationInv, ContainerShape
    <3>2. n \in 1..Len(s) /\ s[n].instance = i
      BY <2>1, <3>1 DEF Frames
    <3>3. n = Len(s)
      BY <1>1, <3>1, <3>2 DEF KeptInv, PathsKept, PathKept
    <3>4. FrameOK(c, s[n])
      BY <3>1, <3>2 DEF IsolationInv, FramesOK
    <3>5. s[n].scope = "request"
      BY <1>1, <3>2, <3>4 DEF FrameOK
    <3>6. Fresh(s) = i
      BY <3>2, <3>3, <3>5 DEF Fresh
    <3> QED
      BY <3>1, <3>6 DEF Pend
  <2> QED
    BY <2>1 DEF Pending
<1>4. made[i].home \in Containers
  BY <1>1 DEF InstanceType
<1>5. DOMAIN cache[made[i].home] = 1..Len(cache[made[i].home])
  BY <1>4 DEF IsolationInv, ContainerShape
<1>6. Cached(i) <=> CacheHas(cache[made[i].home], i)
  BY <1>5 DEF Cached, CacheHas
<1>7. /\ \A x \in Closes : DOMAIN doomed[x] = 1..Len(doomed[x])
      /\ DOMAIN destroyed = 1..Len(destroyed)
  BY DEF KeptInv, KeptShape
<1>8. Doomed(i) <=> Taken(i)
  BY <1>7 DEF Doomed, Taken, Lists, ToSet
<1>9. Destroyed(i) <=> Lists(destroyed, i)
  BY <1>7 DEF Destroyed, Lists, ToSet
<1> QED
  BY <1>2, <1>3, <1>6, <1>8, <1>9

LEMMA KeptConserves == ASSUME IsolationInv, KeptInv PROVE InstancesConserved
<1> SUFFICES ASSUME NEW i \in Instances, made[i].scope = "request", made[i].home \in calm
             PROVE  Cardinality({place \in {"pending", "cached", "doomed", "destroyed"} :
                      \/ place = "pending" /\ Pending(i)
                      \/ place = "cached" /\ Cached(i)
                      \/ place = "doomed" /\ Doomed(i)
                      \/ place = "destroyed" /\ Destroyed(i)}) = 1
  BY DEF InstancesConserved
<1>1. Scoped(i)
  BY DEF Scoped
<1>2. PICK h : h = made[i].home
  OBVIOUS
<1>3. h \in Containers /\ i # None
  BY <1>1, <1>2, PlacesAre DEF InstanceType
<1>4. (Pending(i) <=> Pend(i)) /\ (Cached(i) <=> CacheHas(cache[h], i))
  BY <1>1, <1>2, PlacesNamed
<1>5. (Doomed(i) <=> Taken(i)) /\ (Destroyed(i) <=> Lists(destroyed, i))
  BY <1>1, PlacesNamed
<1>6. Pending(i) \/ Cached(i) \/ Doomed(i) \/ Destroyed(i)
  BY <1>1, <1>2, <1>4, <1>5 DEF KeptInv, NoneLost
<1>7. Pending(i) => ~Cached(i) /\ ~Doomed(i) /\ ~Destroyed(i)
  BY <1>3, <1>4, <1>5 DEF KeptInv, Once, Pend
<1>8. Cached(i) => ~Doomed(i) /\ ~Destroyed(i)
  BY <1>3, <1>4, <1>5 DEF KeptInv, Once, CacheHas
<1>9. Doomed(i) => ~Destroyed(i)
  <2>1. ASSUME Taken(i) PROVE ~Lists(destroyed, i)
    <3>1. PICK x \in Closes : Lists(doomed[x], i)
      BY <2>1 DEF Taken
    <3>2. PICK n \in 1..Len(doomed[x]) : doomed[x][n] = i
      BY <3>1 DEF Lists
    <3> QED
      BY <3>2 DEF KeptInv, Once
  <2> QED
    BY <1>5, <2>1
<1>10. \E p : {place \in {"pending", "cached", "doomed", "destroyed"} :
                 \/ place = "pending" /\ Pending(i)
                 \/ place = "cached" /\ Cached(i)
                 \/ place = "doomed" /\ Doomed(i)
                 \/ place = "destroyed" /\ Destroyed(i)} = {p}
  <2>1. CASE Pending(i)
    <3> WITNESS "pending"
    <3> QED BY <2>1, <1>7
  <2>2. CASE Cached(i)
    <3> WITNESS "cached"
    <3> QED BY <2>2, <1>7, <1>8
  <2>3. CASE Doomed(i)
    <3> WITNESS "doomed"
    <3> QED BY <2>3, <1>7, <1>8, <1>9
  <2>4. CASE Destroyed(i)
    <3> WITNESS "destroyed"
    <3> QED BY <2>4, <1>7, <1>8, <1>9
  <2> QED
    BY <1>6, <2>1, <2>2, <2>3, <2>4
<1> QED
  BY <1>10, FS_Singleton

LEMMA KeptOrder == ASSUME IsolationInv, KeptInv PROVE DestroyOrder
<1>1. DOMAIN destroyed = 1..Len(destroyed) /\ Len(destroyed) \in Nat
  BY DEF KeptInv, KeptShape
<1> SUFFICES ASSUME NEW n \in 1..Len(destroyed), NEW m \in 1..Len(destroyed), n < m
             PROVE  /\ destroyed[n] # destroyed[m]
                    /\ made[destroyed[n]].home \in calm =>
                         destroyed[n] \notin ToSet(made[destroyed[m]].args)
  BY <1>1 DEF DestroyOrder
<1>2. destroyed[n] # destroyed[m]
  BY DEF KeptInv, Once
<1>3. PICK j : j = destroyed[m]
  OBVIOUS
<1>4. Scoped(j)
  BY <1>3 DEF KeptInv, TokensOK
<1>5. made[j] \in InstanceType
  BY <1>4, PlacesAre
<1>6. DOMAIN made[j].args = 1..Len(made[j].args)
  BY <1>5 DEF InstanceType
<1>7. made[destroyed[n]].home \in calm => ~Lists(made[j].args, destroyed[n])
  BY <1>3 DEF KeptInv, InOrder
<1> QED
  BY <1>2, <1>3, <1>6, <1>7 DEF Lists, ToSet

LEMMA KeptSingle == ASSUME IsolationInv, KeptInv PROVE OneSingleton
<1> SUFFICES ASSUME serial, NEW i \in Instances, NEW j \in Instances,
                    made[i].scope = "singleton", made[i].token = made[j].token
             PROVE  i = j
  BY DEF OneSingleton
<1>1. PICK t : t = made[i].token
  OBVIOUS
<1>2. t \in Tokens /\ i # None /\ j # None
  <2>1. made[i] \in InstanceType
    BY DEF IsolationInv, ContainerShape, Instances
  <2>2. i \in Nat /\ j \in Nat
    BY DEF Instances
  <2> QED
    BY <1>1, <2>1, <2>2, ContainerAssumption DEF InstanceType
<1>3. made[j].scope = "singleton"
  BY DEF KeptInv, SinglesOnce
<1>4. ASSUME NEW k \in Instances, made[k].token = t, k # None,
             NEW c \in Calls, stack[c] # <<>>, stack[c][Len(stack[c])].instance = k,
             made[k].scope = "singleton"
      PROVE  singletons[t] = None
  <2>1. PICK s \in Seq(FrameType) : s = stack[c]
    BY DEF IsolationInv, ContainerShape
  <2>2. PICK f \in FrameType : f = s[Len(s)]
    BY <1>4, <2>1
  <2>3. Len(s) \in 1..Len(s)
    BY <1>4, <2>1
  <2>4. FrameOK(c, f)
    BY <2>1, <2>2, <2>3 DEF IsolationInv, FramesOK
  <2>5. FrameKept(c, f)
    BY <2>1, <2>2, <2>3 DEF KeptInv, PathsKept, PathKept
  <2>6. f.instance = k
    BY <1>4, <2>1, <2>2
  <2>7. f.scope = "singleton"
    BY <1>4, <2>4, <2>6 DEF FrameOK
  <2>8. f.token = t
    BY <1>4, <2>5, <2>6 DEF FrameKept
  <2> QED
    BY <2>5, <2>7, <2>8 DEF FrameKept
<1>5. \A k \in Instances : made[k].scope = "singleton" /\ made[k].token = t =>
        \/ singletons[t] = k
        \/ \E c \in Calls : stack[c] # <<>> /\ stack[c][Len(stack[c])].instance = k
  BY DEF KeptInv, SinglesOnce
<1>6. CASE singletons[t] = i
  BY <1>1, <1>2, <1>3, <1>4, <1>5, <1>6
<1>7. CASE \E c \in Calls : stack[c] # <<>> /\ stack[c][Len(stack[c])].instance = i
  <2>1. PICK c \in Calls : stack[c] # <<>> /\ stack[c][Len(stack[c])].instance = i
    BY <1>7
  <2>2. singletons[t] = None
    BY <1>1, <1>2, <1>4, <2>1
  <2>3. PICK d \in Calls : stack[d] # <<>> /\ stack[d][Len(stack[d])].instance = j
    BY <1>1, <1>2, <1>3, <1>5, <2>2
  <2>4. c = d
    BY <2>1, <2>3 DEF KeptInv, TurnsTaken
  <2> QED
    BY <2>1, <2>3, <2>4
<1> QED
  BY <1>1, <1>5, <1>6, <1>7

\* "destroyRequestScope() drops the cache so resources never accumulate", "invokes
\* onDestroy (reverse order)", "singleton: cached in root container": however calls
\* and closes interleave, fail and are repeated, nothing is destroyed twice; and
\* where they take turns no request-scoped instance is lost or destroyed before one
\* that uses it, and a singleton is made once, for any tokens and dependencies.
THEOREM InstancesAlwaysKept == ContainerSpec => []InstancesKept
<1>1. ContainerSpec => [](IsolationInv /\ KeptInv)
  BY IsolationInit, IsolationNext, KeptInit, KeptNext, PTL DEF ContainerSpec
<1>2. IsolationInv /\ KeptInv => InstancesKept
  BY KeptTypes, KeptConserves, KeptOrder, KeptSingle DEF InstancesKept
<1> QED
  BY <1>1, <1>2, PTL

-----------------------------------------------------------------------------
(* An exchange of the Node adapter *)

ExchangeTypeOK ==
  /\ client \in [up : BOOLEAN, sent : 0..Upload, ended : BOOLEAN, closed : BOOLEAN]
  /\ upload \in [state : {"open", "closed", "errored", "cancelled"}, got : Seq(Nat), listening : BOOLEAN]
  /\ aborted \in BOOLEAN
  /\ app \in {"running", "replying", "threw", "over"}
  /\ reply \in [status : Nat, chunks : Nat \cup {-1}]
  /\ pump \in {"idle", "reading", "draining"}
  /\ res \in [state : {"open", "ended", "destroyed"}, status : Nat, sent : BOOLEAN,
              bytes : Nat, closed : BOOLEAN]

\* The body listens as long as it is open, or given up and not yet closed, and
\* as long as it listens it has every chunk that the client sent; nothing is
\* enqueued afterwards.
UploadInv ==
  /\ upload.state = "open" => upload.listening
  /\ upload.listening => /\ upload.state \in {"open", "cancelled"}
                         /\ Len(upload.got) = client.sent /\ ~client.ended /\ ~client.closed
  /\ upload.state = "closed" => Len(upload.got) = Upload
  /\ \A i \in 1..Len(upload.got) : upload.got[i] = i

\* Nothing is written before the pump runs, the pump runs only for a response
\* with a body and within it, and a response is settled only when the exchange
\* is over.
ReplyInv ==
  /\ app # "over" => res.state = "open"
  /\ app # "over" /\ pump = "idle" => res.bytes = 0
  /\ pump # "idle" => /\ app = "replying" /\ reply.chunks \in Nat
                      /\ res.bytes <= reply.chunks /\ res.status = reply.status
  /\ ReplyWhole

ExchangeInv == ExchangeTypeOK /\ UploadInv /\ ReplyInv

\* A body that was enqueued one by one is the chunks 1, 2, ... in order.
LEMMA GotInOrder ==
  ASSUME NEW s \in Seq(Nat), \A i \in 1..Len(s) : s[i] = i
  PROVE  s = [i \in 1..Len(s) |-> i]
  OBVIOUS

\* The invariant is what ExchangeWhole says, and more.
LEMMA ExchangeInvEnough == ExchangeInv => ExchangeWhole
<1> SUFFICES ASSUME ExchangeInv PROVE ExchangeWhole
  OBVIOUS
<1>1. upload.got = [i \in 1..Len(upload.got) |-> i]
  <2>1. upload.got \in Seq(Nat)
    BY DEF ExchangeInv, ExchangeTypeOK
  <2> QED
    BY <2>1, GotInOrder DEF ExchangeInv, UploadInv
<1>2. UploadWhole
  BY <1>1 DEF ExchangeInv, ExchangeTypeOK, UploadInv, UploadWhole
<1> QED
  BY <1>2 DEF ExchangeInv, ReplyInv, ExchangeWhole

LEMMA ExchangeInitInv == ExchangeInit => ExchangeInv
<1> SUFFICES ASSUME ExchangeInit PROVE ExchangeInv
  OBVIOUS
<1>1. ExchangeTypeOK
  <2>1. 0 \in 0..Upload /\ <<>> \in Seq(Nat)
    BY ExchangeAssumption
  <2>2. client \in [up : BOOLEAN, sent : 0..Upload, ended : BOOLEAN, closed : BOOLEAN]
    BY <2>1 DEF ExchangeInit
  <2>3. upload \in [state : {"open", "closed", "errored", "cancelled"}, got : Seq(Nat), listening : BOOLEAN]
    BY <2>1 DEF ExchangeInit
  <2> QED
    BY <2>2, <2>3 DEF ExchangeInit, ExchangeTypeOK
<1>2. UploadInv
  BY DEF ExchangeInit, UploadInv
<1>3. ReplyInv
  BY DEF ExchangeInit, ReplyInv, ReplyWhole
<1> QED
  BY <1>1, <1>2, <1>3 DEF ExchangeInv

\* A chunk is enqueued at the end of those before it, if the body listens.
LEMMA DataInv == ExchangeInv /\ Data => ExchangeInv'
<1> SUFFICES ASSUME ExchangeInv, Data PROVE ExchangeInv'
  OBVIOUS
<1> USE DEF ExchangeInv
<1>1. ReplyInv'
  BY DEF Data, ReplyInv, ReplyWhole
<1>2. CASE upload.listening
  <2>1. /\ client.sent + 1 \in 0..Upload /\ client.sent = Len(upload.got)
        /\ upload.got \in Seq(Nat)
    BY <1>2, ExchangeAssumption DEF Data, ExchangeTypeOK, UploadInv
  <2> DEFINE more == Append(upload.got, client.sent + 1)
  <2>2. /\ more \in Seq(Nat) /\ Len(more) = client.sent + 1
        /\ \A i \in 1..Len(more) : more[i] = i
    BY <2>1 DEF UploadInv
  <2>3. upload' = [upload EXCEPT !.got = more]
    BY <1>2 DEF Data
  <2>4. client' = [client EXCEPT !.sent = @ + 1]
    BY DEF Data
  <2> HIDE DEF more
  <2>5. ExchangeTypeOK'
    BY <2>1, <2>2, <2>3, <2>4 DEF Data, ExchangeTypeOK
  <2>6. /\ upload'.got = more /\ upload'.state = upload.state
        /\ upload'.listening = upload.listening
        /\ client'.sent = client.sent + 1 /\ client'.ended = client.ended
        /\ client'.closed = client.closed
    BY <2>3, <2>4 DEF ExchangeTypeOK
  <2>7. upload.state = "open"
    BY <1>2 DEF Data, Emitting, UploadInv
  <2>8. UploadInv'
    BY <1>2, <2>2, <2>6, <2>7 DEF UploadInv
  <2> QED
    BY <1>1, <2>5, <2>8
<1>3. CASE ~upload.listening
  <2>1. upload' = upload
    BY <1>3 DEF Data
  <2>2. ExchangeTypeOK'
    <3>1. client.sent + 1 \in 0..Upload
      BY ExchangeAssumption DEF Data, ExchangeTypeOK
    <3> QED
      BY <2>1, <3>1 DEF Data, ExchangeTypeOK
  <2>3. UploadInv'
    BY <1>3, <2>1 DEF UploadInv
  <2> QED
    BY <1>1, <2>2, <2>3
<1> QED
  BY <1>2, <1>3

\* The body that the client ends had every chunk.
LEMMA EndInv == ExchangeInv /\ End => ExchangeInv'
<1> SUFFICES ASSUME ExchangeInv, End PROVE ExchangeInv'
  OBVIOUS
<1>1. ExchangeTypeOK'
  BY DEF ExchangeInv, End, Emitting, Ending, ExchangeTypeOK
<1>2. UploadInv'
  BY DEF ExchangeInv, End, Emitting, Ending, ExchangeTypeOK, UploadInv
<1>3. ReplyInv'
  BY DEF ExchangeInv, End, ReplyInv, ReplyWhole
<1> QED
  BY <1>1, <1>2, <1>3 DEF ExchangeInv

LEMMA RequestClosesInv == ExchangeInv /\ RequestCloses => ExchangeInv'
<1> SUFFICES ASSUME ExchangeInv, RequestCloses PROVE ExchangeInv'
  OBVIOUS
<1>1. ExchangeTypeOK'
  BY DEF ExchangeInv, RequestCloses, OnAbort, Heard, ExchangeTypeOK
<1>2. UploadInv'
  BY DEF ExchangeInv, RequestCloses, OnAbort, ExchangeTypeOK, UploadInv
<1>3. ReplyInv'
  BY DEF ExchangeInv, RequestCloses, ReplyInv, ReplyWhole
<1> QED
  BY <1>1, <1>2, <1>3 DEF ExchangeInv

\* A lost connection makes a body that was open fail, and a response whose pump
\* waited is destroyed, never ended.
LEMMA LostInv == ExchangeInv /\ Lost => ExchangeInv'
<1> SUFFICES ASSUME ExchangeInv, Lost PROVE ExchangeInv'
  OBVIOUS
<1>1. ExchangeTypeOK'
  BY DEF ExchangeInv, Lost, OnAbort, Heard, ExchangeTypeOK
<1>2. UploadInv'
  BY DEF ExchangeInv, Lost, OnAbort, ExchangeTypeOK, UploadInv
<1>3. ReplyInv'
  BY DEF ExchangeInv, Lost, ExchangeTypeOK, ReplyInv, ReplyWhole
<1> QED
  BY <1>1, <1>2, <1>3 DEF ExchangeInv

\* A body that is given up was open, and says no more than that it is done.
LEMMA CancelInv == ExchangeInv /\ CancelUpload => ExchangeInv'
<1> SUFFICES ASSUME ExchangeInv, CancelUpload PROVE ExchangeInv'
  OBVIOUS
<1>1. ExchangeTypeOK'
  BY DEF ExchangeInv, CancelUpload, ExchangeTypeOK
<1>2. UploadInv'
  BY DEF ExchangeInv, CancelUpload, ExchangeTypeOK, UploadInv
<1>3. ReplyInv'
  BY DEF ExchangeInv, CancelUpload, ReplyInv, ReplyWhole
<1> QED
  BY <1>1, <1>2, <1>3 DEF ExchangeInv

\* The steps of the app and of the pump leave the upload alone.
LEMMA FlowInv == ExchangeInv /\ Flow => ExchangeInv'
<1> SUFFICES ASSUME ExchangeInv, Flow PROVE ExchangeInv'
  OBVIOUS
<1>1. UNCHANGED <<client, upload, aborted>>
  BY DEF Flow, Answer, StartReply, Write, Drain, EndReply, FailReply, Catch
<1>2. UploadInv'
  BY <1>1 DEF ExchangeInv, UploadInv
<1>3. CASE Answer
  BY <1>1, <1>2, <1>3, ExchangeAssumption
  DEF Answer, ExchangeInv, ExchangeTypeOK, ReplyInv, ReplyWhole
<1>4. CASE StartReply
  <2>1. ExchangeTypeOK'
    BY <1>1, <1>4 DEF StartReply, ExchangeInv, ExchangeTypeOK, ReplyInv
  <2>2. reply' = reply /\ reply.chunks \in Nat \cup {-1} /\ res.bytes = 0 /\ res.state = "open"
    BY <1>4 DEF StartReply, ExchangeInv, ExchangeTypeOK, ReplyInv
  <2>3. ReplyInv'
    <3>1. CASE res' = [res EXCEPT !.status = reply.status] /\ app' = "threw" /\ pump' = pump
      <4>1. res'.bytes = 0 /\ res'.state = "open" /\ pump' = "idle"
        BY <1>4, <2>2, <3>1 DEF StartReply, ExchangeInv, ExchangeTypeOK
      <4> QED
        BY <3>1, <4>1 DEF ReplyInv, ReplyWhole
    <3>2. CASE /\ reply.chunks = -1
               /\ res' = [res EXCEPT !.status = reply.status, !.sent = TRUE, !.state = "ended"]
               /\ app' = "over" /\ pump' = pump
      <4>1. res'.bytes = 0 /\ res'.status = reply'.status /\ reply'.chunks = -1 /\ pump' = "idle"
        BY <1>4, <2>2, <3>2 DEF StartReply, ExchangeInv, ExchangeTypeOK
      <4> QED
        BY <3>2, <4>1 DEF ReplyInv, ReplyWhole
    <3>3. CASE /\ reply.chunks # -1
               /\ res' = [res EXCEPT !.status = reply.status] /\ pump' = "reading" /\ app' = app
      <4>1. /\ res'.bytes = 0 /\ res'.state = "open" /\ res'.status = reply'.status
            /\ reply'.chunks \in Nat /\ app' = "replying"
        BY <1>4, <2>2, <3>3 DEF StartReply, ExchangeInv, ExchangeTypeOK
      <4> QED
        BY <3>3, <4>1 DEF ReplyInv, ReplyWhole
    <3>4. \/ res' = [res EXCEPT !.status = reply.status] /\ app' = "threw" /\ pump' = pump
          \/ /\ reply.chunks = -1
             /\ res' = [res EXCEPT !.status = reply.status, !.sent = TRUE, !.state = "ended"]
             /\ app' = "over" /\ pump' = pump
          \/ /\ reply.chunks # -1
             /\ res' = [res EXCEPT !.status = reply.status] /\ pump' = "reading" /\ app' = app
      BY <1>4 DEF StartReply
    <3> QED
      BY <3>4, <3>1, <3>2, <3>3
  <2> QED
    BY <1>2, <2>1, <2>3 DEF ExchangeInv
<1>5. CASE Write
  <2>1. ExchangeTypeOK'
    <3>1. res.bytes + 1 \in Nat
      BY DEF ExchangeInv, ExchangeTypeOK
    <3>2. pump' \in {"idle", "reading", "draining"}
      BY <1>5 DEF Write
    <3> QED
      BY <1>1, <1>5, <3>1, <3>2 DEF Write, ExchangeInv, ExchangeTypeOK
  <2>2. ReplyInv'
    BY <1>5 DEF Write, ExchangeInv, ExchangeTypeOK, ReplyInv, ReplyWhole
  <2> QED
    BY <1>2, <2>1, <2>2 DEF ExchangeInv
<1>6. CASE Drain
  <2>1. ExchangeTypeOK'
    BY <1>1, <1>6 DEF Drain, ExchangeInv, ExchangeTypeOK, ReplyInv
  <2>2. ReplyInv'
    BY <1>6 DEF Drain, ExchangeInv, ExchangeTypeOK, ReplyInv, ReplyWhole
  <2> QED
    BY <1>2, <2>1, <2>2 DEF ExchangeInv
<1>7. CASE EndReply
  <2>1. ExchangeTypeOK'
    BY <1>1, <1>7 DEF EndReply, ExchangeInv, ExchangeTypeOK, ReplyInv
  <2>2. ReplyInv'
    BY <1>7 DEF EndReply, ExchangeInv, ExchangeTypeOK, ReplyInv, ReplyWhole
  <2> QED
    BY <1>2, <2>1, <2>2 DEF ExchangeInv
<1>8. CASE FailReply
  <2>1. ExchangeTypeOK'
    BY <1>1, <1>8 DEF FailReply, ExchangeInv, ExchangeTypeOK, ReplyInv
  <2>2. ReplyInv'
    BY <1>8 DEF FailReply, ExchangeInv, ExchangeTypeOK, ReplyInv, ReplyWhole
  <2> QED
    BY <1>2, <2>1, <2>2 DEF ExchangeInv
<1>9. CASE Catch
  <2>1. ExchangeTypeOK'
    <3>1. CASE aborted
      BY <1>1, <1>9, <3>1 DEF Catch, ExchangeInv, ExchangeTypeOK
    <3>2. CASE ~aborted
      <4>1. /\ res' = [res EXCEPT !.status = 500, !.sent = TRUE, !.state = "ended"]
            /\ app' = "over" /\ UNCHANGED <<reply, pump>>
        BY <1>9, <3>2 DEF Catch
      <4>2. /\ 500 \in Nat
            /\ res \in [state : {"open", "ended", "destroyed"}, status : Nat, sent : BOOLEAN,
                        bytes : Nat, closed : BOOLEAN]
        BY DEF ExchangeInv, ExchangeTypeOK
      <4>3. PICK n \in Nat : res' = [res EXCEPT !.status = n, !.sent = TRUE, !.state = "ended"]
        BY <4>1, <4>2
      <4>4. res' \in [state : {"open", "ended", "destroyed"}, status : Nat, sent : BOOLEAN,
                      bytes : Nat, closed : BOOLEAN]
        BY <4>2, <4>3
      <4> QED
        BY <1>1, <4>1, <4>4 DEF ExchangeInv, ExchangeTypeOK
    <3> QED
      BY <3>1, <3>2
  <2>2. ReplyInv'
    BY <1>9 DEF Catch, ExchangeInv, ExchangeTypeOK, ReplyInv, ReplyWhole
  <2> QED
    BY <1>2, <2>1, <2>2 DEF ExchangeInv
<1> QED
  BY <1>3, <1>4, <1>5, <1>6, <1>7, <1>8, <1>9 DEF Flow

\* The inductive invariant of an exchange.
THEOREM ExchangeInvariant == ExchangeSpec => []ExchangeInv
<1>1. ASSUME ExchangeInv, [ExchangeNext]_exchangeVars PROVE ExchangeInv'
  <2>1. CASE Data
    BY <1>1, <2>1, DataInv
  <2>2. CASE End
    BY <1>1, <2>2, EndInv
  <2>3. CASE RequestCloses
    BY <1>1, <2>3, RequestClosesInv
  <2>4. CASE Lost
    BY <1>1, <2>4, LostInv
  <2>5. CASE Flow
    BY <1>1, <2>5, FlowInv
  <2>6. CASE CancelUpload
    BY <1>1, <2>6, CancelInv
  <2>7. CASE UNCHANGED exchangeVars
    BY <1>1, <2>7
    DEF exchangeVars, ExchangeInv, ExchangeTypeOK, UploadInv, ReplyInv, ReplyWhole
  <2> QED
    BY <1>1, <2>1, <2>2, <2>3, <2>4, <2>5, <2>6, <2>7 DEF ExchangeNext, Disconnect
<1> QED
  BY <1>1, ExchangeInitInv, PTL DEF ExchangeSpec

\* However long an upload and whatever the app replies: neither the body of the
\* request nor the response ever looks complete when it is not, whoever leaves or
\* fails; only to the reader that gave it up does a body read as done before its
\* end (IncomingMessage to Request, Response to ServerResponse).
THEOREM ExchangeAlwaysWhole == ExchangeSpec => []ExchangeWhole
  BY ExchangeInvariant, ExchangeInvEnough, PTL

=============================================================================
