---------------------------- MODULE RouteHandler ----------------------------
(***************************************************************************)
(* A request on its way to a controller: audit(), attachPrincipal() and    *)
(* the requirements of Mino's principal.ts in front, then the handler that *)
(* the kernel registers for a route, with its guards, pipes, interceptors  *)
(* and span, and the exception filter behind.                              *)
(*                                                                         *)
(* Of a response and of an error only the status matters; an error without *)
(* one has status 0.  A result that is no Response becomes one with status *)
(* 200.  The filter is the default one: a filter of the application's own, *)
(* and a toResponse() that answers with another status than the error has, *)
(* are not modelled.                                                       *)
(***************************************************************************)
EXTENDS Naturals, Sequences

CONSTANTS
  Principals,  \* who may call: [roles, permissions, tenant]
  Routes,      \* [requires: a policy or Anyone, guards: policies, pipes, interceptors: numbers]
  Statuses,    \* the statuses of responses
  Errors,      \* the statuses of errors thrown by user code
  MaxRuns      \* bound on how often next() is called by interceptors in all

Anonymous == [roles |-> {}, permissions |-> {}, tenant |-> "none"]   \* no principal
Anyone == [kind |-> "anyone", names |-> {}]   \* no requirement

\* The guards of the kernel and the requirements of Mino are of three kinds,
\* and statuses are numbers.
ASSUME RouteAssumption ==
  /\ \A r \in Routes :
       LET policies == {r.guards[i] : i \in DOMAIN r.guards}
                       \cup (IF r.requires = Anyone THEN {} ELSE {r.requires})
       IN  /\ r.guards \in Seq(policies)
           /\ \A policy \in policies : policy.kind \in {"role", "permission", "tenant"}
  /\ Statuses \subseteq Nat /\ Errors \subseteq Nat

VARIABLES
  route,       \* the route of the request
  principal,   \* who calls, as c.get("principal") and the request's entry have it
  stage,       \* what happens next, see the actions
  at,          \* the guards or pipes passed, or the interceptors entered
  outcome,     \* [kind: "none", "response" or "error", status]
  calls,       \* calls of next() by interceptors
  span,        \* [begun, ended]: how often
  executed,    \* how often the method of the controller was called
  audited,     \* the outcome that was recorded
  response     \* the status the client gets, 0 for none yet

routeVars == <<route, principal, stage, at, outcome, calls, span, executed, audited, response>>

Nothing == [kind |-> "none", status |-> 0]
Response(status) == [kind |-> "response", status |-> status]
Error(status) == [kind |-> "error", status |-> status]

RouteInit ==
  /\ route \in Routes /\ principal = Anonymous /\ stage = "attach" /\ at = 0
  /\ outcome = Nothing /\ calls = 0 /\ span = [begun |-> 0, ended |-> 0] /\ executed = 0
  /\ audited = "none" /\ response = 0

\* roleGuard() and requireRole() want one of the roles, permissionGuard() and
\* requirePermission() every permission, tenantGuard() and requireTenant() the
\* tenant.  Anonymous is denied by each.
Allows(policy, p) ==
  /\ p # Anonymous
  /\ CASE policy.kind = "role" -> policy.names \cap p.roles # {}
       [] policy.kind = "permission" -> policy.names \subseteq p.permissions
       [] policy.kind = "tenant" -> p.tenant \in policy.names

\* attachPrincipal(): resolve() finds a principal, or none, or throws.
Attach ==
  /\ stage = "attach"
  /\ \/ principal' \in Principals \cup {Anonymous} /\ stage' = "require" /\ UNCHANGED outcome
     \/ \E e \in Errors : outcome' = Error(e) /\ stage' = "audit" /\ UNCHANGED principal
  /\ UNCHANGED <<route, at, calls, span, executed, audited, response>>

\* requireRole(), requirePermission(), requireTenant().
Require ==
  /\ stage = "require"
  /\ IF route.requires = Anyone \/ (principal # Anonymous /\ Allows(route.requires, principal))
     THEN stage' = "resolve" /\ UNCHANGED outcome
     ELSE /\ stage' = "audit"
          /\ outcome' = Error(IF principal = Anonymous THEN 401 ELSE 403)
  /\ UNCHANGED <<route, principal, at, calls, span, executed, audited, response>>

\* The controller is resolved, which may fail; what is no method is a 404.
\* Only then a span is begun.
ResolveController ==
  /\ stage = "resolve"
  /\ \/ stage' = "guards" /\ span' = [span EXCEPT !.begun = @ + 1] /\ UNCHANGED outcome
     \/ stage' = "audit" /\ outcome' \in {Error(0), Response(404)} /\ UNCHANGED span
  /\ UNCHANGED <<route, principal, at, calls, executed, audited, response>>

\* runGuards(): the first that says no ends the request with 403.
GuardRejects ==
  /\ stage = "guards" /\ at < Len(route.guards) /\ ~Allows(route.guards[at + 1], principal)
  /\ stage' = "audit" /\ outcome' = Response(403)
  /\ span' = [span EXCEPT !.ended = @ + 1]
  /\ UNCHANGED <<route, principal, at, calls, executed, audited, response>>

GuardAllows ==
  /\ stage = "guards" /\ at < Len(route.guards) /\ Allows(route.guards[at + 1], principal)
  /\ at' = at + 1
  /\ UNCHANGED <<route, principal, stage, outcome, calls, span, executed, audited, response>>

GuardsDone ==
  /\ stage = "guards" /\ at = Len(route.guards)
  /\ stage' = "pipes" /\ at' = 0
  /\ UNCHANGED <<route, principal, outcome, calls, span, executed, audited, response>>

\* runPipes(): one after the other.
Pipe ==
  /\ stage = "pipes"
  /\ IF at < route.pipes THEN at' = at + 1 /\ UNCHANGED stage
     ELSE at' = 0 /\ stage' = "down"
  /\ UNCHANGED <<route, principal, outcome, calls, span, executed, audited, response>>

\* A guard or a pipe throws, or when all pipes have run the constructor of an
\* interceptor class: outside of the try that ends the span.
GuardOrPipeThrows ==
  /\ \/ stage = "guards" /\ at < Len(route.guards)
     \/ stage = "pipes" /\ at < route.pipes
     \/ stage = "pipes" /\ at = route.pipes /\ route.interceptors > 0
  /\ stage' = "audit" /\ \E e \in Errors : outcome' = Error(e)
  /\ UNCHANGED <<route, principal, at, calls, span, executed, audited, response>>

Outcomes == {Response(s) : s \in Statuses} \cup {Error(e) : e \in Errors}

\* An interceptor is entered: it calls next, or answers or throws by itself.
Intercept ==
  /\ stage = "down" /\ at < route.interceptors
  /\ \/ at' = at + 1 /\ calls < MaxRuns /\ calls' = calls + 1 /\ UNCHANGED <<stage, outcome>>
     \/ stage' = "up" /\ outcome' \in Outcomes /\ UNCHANGED <<at, calls>>
  /\ UNCHANGED <<route, principal, span, executed, audited, response>>

\* exec(): the method of the controller is called.
Execute ==
  /\ stage = "down" /\ at = route.interceptors
  /\ executed' = executed + 1 /\ stage' = "up" /\ outcome' \in Outcomes
  /\ UNCHANGED <<route, principal, at, calls, span, audited, response>>

\* What next.handle() came to is passed on by the interceptor that called it,
\* or replaced, or next is called once more.
Unwind ==
  /\ stage = "up" /\ at > 0
  /\ \/ at' = at - 1 /\ outcome' \in {outcome} \cup Outcomes /\ UNCHANGED <<stage, calls>>
     \/ stage' = "down" /\ calls < MaxRuns /\ calls' = calls + 1 /\ outcome' = Nothing /\ UNCHANGED at
  /\ UNCHANGED <<route, principal, span, executed, audited, response>>

\* The span is ended, whatever the outcome.
EndSpan ==
  /\ stage = "up" /\ at = 0
  /\ span' = [span EXCEPT !.ended = @ + 1] /\ stage' = "audit"
  /\ UNCHANGED <<route, principal, at, outcome, calls, executed, audited, response>>

StatusOf(o) == IF o.status = 0 THEN 500 ELSE o.status

\* Fault: a request that threw is recorded as it stood before.
Audit_ByResponse ==
  /\ stage = "audit"
  /\ audited' = IF outcome.kind = "error" \/ outcome.status < 400 THEN "allow"
                ELSE IF outcome.status \in {401, 403} THEN "deny" ELSE "error"
  /\ stage' = "filter"
  /\ UNCHANGED <<route, principal, at, outcome, calls, span, executed, response>>

\* audit(): the status is that of c.res, or that of what was thrown.
Audit ==
  /\ stage = "audit"
  /\ audited' = IF StatusOf(outcome) < 400 THEN "allow"
                ELSE IF StatusOf(outcome) \in {401, 403} THEN "deny" ELSE "error"
  /\ stage' = "filter"
  /\ UNCHANGED <<route, principal, at, outcome, calls, span, executed, response>>

\* sink.record() rejects, which takes the place of the outcome.
SinkRejects ==
  /\ stage = "audit"
  /\ outcome' = Error(0) /\ stage' = "filter"
  /\ UNCHANGED <<route, principal, at, calls, span, executed, audited, response>>

\* The error handler: defaultExceptionFilter() takes the status of an error.
Filter ==
  /\ stage = "filter"
  /\ response' = StatusOf(outcome) /\ stage' = "over"
  /\ UNCHANGED <<route, principal, at, outcome, calls, span, executed, audited>>

RouteNext ==
  \/ Attach \/ Require \/ ResolveController \/ GuardRejects \/ GuardAllows \/ GuardsDone
  \/ Pipe \/ GuardOrPipeThrows \/ Intercept \/ Execute \/ Unwind \/ EndSpan
  \/ Audit \/ SinkRejects \/ Filter

RouteSpec == RouteInit /\ [][RouteNext]_routeVars

-----------------------------------------------------------------------------
(* Properties *)

\* The rules of a route, read as facts about who calls.
Holds(policy) ==
  CASE policy.kind = "role" -> \E r \in policy.names : r \in principal.roles
    [] policy.kind = "permission" -> \A n \in policy.names : n \in principal.permissions
    [] policy.kind = "tenant" -> \E t \in policy.names : t = principal.tenant

Entitled ==
  \A policy \in {route.guards[i] : i \in DOMAIN route.guards}
                \cup (IF route.requires = Anyone THEN {} ELSE {route.requires}) :
     principal # Anonymous /\ Holds(policy)

\* The method runs for those only who meet every rule of the route, in front
\* and in the kernel, however often interceptors call it; the span of a
\* request is ended once, unless a guard, a pipe or the constructor of an
\* interceptor threw (then it stays open);
\* and the record of the audit says of a request what its client was told.
RequestsAccounted ==
  /\ executed > 0 => Entitled
  /\ stage = "over" =>
       /\ span.ended = span.begun \/ (executed = 0 /\ span.ended = 0 /\ outcome.kind = "error")
       /\ audited = "allow" => response < 400
       /\ audited = "deny" => response \in {401, 403}
       /\ audited = "error" => response >= 400 /\ response \notin {401, 403}
=============================================================================
