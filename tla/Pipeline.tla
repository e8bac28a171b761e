------------------------------ MODULE Pipeline ------------------------------
(***************************************************************************)
(* packages/mino/src/compose.ts and timeout.ts: one request on its way     *)
(* through a composed chain of handlers.                                   *)
(*                                                                         *)
(* Handler i answers through what it returns, through c.setResponse(), or  *)
(* by calling next(), whose promise it may await or not.  dispatch(i) is   *)
(* the promise that runs handler i and turns its outcome into a value.     *)
(* Of a response it matters who made it and how.  The first handler may be *)
(* the timeout middleware.                                                 *)
(***************************************************************************)
EXTENDS Naturals, FiniteSets

CONSTANTS Chain,       \* number of handlers
          HasTimeout,  \* whether the first one is timeout()
          None         \* no response: undefined

Handlers == 0..(Chain - 1)

Returned(i) == [by |-> i, how |-> "returned"]
Set(i) == [by |-> i, how |-> "set"]
Responses == {Returned(i) : i \in Handlers} \cup {Set(i) : i \in Handlers}
TooLate == Returned(0)                         \* the 408 of timeout()
NotFound == [by |-> Chain, how |-> "fallback"] \* 404 of compose()
ServerError == [by |-> Chain, how |-> "error"] \* 500 of the error handler

ASSUME PipelineAssumption ==
  /\ Chain \in Nat \ {0} /\ HasTimeout \in BOOLEAN
  /\ None \notin Responses \cup {NotFound, ServerError}

VARIABLES index,    \* the highest handler dispatched so far, plus one
          at,       \* per handler: "unrun", "running", "awaiting" or "over"
          called,   \* per handler: nextCalled
          under,    \* per handler: nextResult
          taken,    \* per handler: whether its next() has settled
          dispatch, \* per handler: state of the promise dispatch(i)
          value,    \* per handler: what it fulfilled with
          res,      \* c.res
          timedOut, \* timeout(): its timer has fired
          reply,    \* what fetch() returned
          proper    \* history: every next() was awaited and nothing was thrown

pipelineVars == <<index, at, called, under, taken, dispatch, value, res, timedOut,
                  reply, proper>>

\* dispatch(Chain), beyond the last handler, is a promise as well.
PipelineInit ==
  /\ index = 1
  /\ at = [i \in Handlers |-> IF i = 0 THEN "running" ELSE "unrun"]
  /\ called = [i \in Handlers |-> FALSE]
  /\ under = [i \in Handlers |-> None]
  /\ taken = [i \in Handlers |-> FALSE]
  /\ dispatch = [i \in 0..Chain |-> IF i = 0 THEN "pending" ELSE "none"]
  /\ value = [i \in 0..Chain |-> None]
  /\ res = None /\ reply = None
  /\ timedOut = FALSE /\ proper = TRUE

IsTimeout(i) == HasTimeout /\ i = 0

\* c.setResponse(), before or after next().
SetResponse(i) ==
  /\ at[i] = "running" /\ ~IsTimeout(i)
  /\ res' = Set(i)
  /\ UNCHANGED <<index, at, called, under, taken, dispatch, value, timedOut, reply, proper>>

\* Both guards of next(): nextCalled, and the index dispatch() compares with.
MayCallNext(i) == ~called[i] /\ i + 1 >= index

\* next(), awaited or not.  Behind the last handler dispatch() fulfils with c.res.
CallNext(i, awaits) ==
  /\ at[i] = "running"
  /\ MayCallNext(i)
  /\ IsTimeout(i) => awaits
  /\ called' = [called EXCEPT ![i] = TRUE]
  /\ index' = i + 2
  /\ dispatch' = [dispatch EXCEPT ![i + 1] = IF i + 1 = Chain THEN "fulfilled" ELSE "pending"]
  /\ value' = IF i + 1 = Chain THEN [value EXCEPT ![Chain] = res] ELSE value
  /\ at' = [j \in Handlers |-> IF j = i + 1 THEN "running"
                               ELSE IF j = i /\ awaits THEN "awaiting" ELSE at[j]]
  /\ proper' = (proper /\ awaits)
  /\ UNCHANGED <<under, taken, res, timedOut, reply>>

Settle(i, outcome, v) ==
  /\ at' = [at EXCEPT ![i] = "over"]
  /\ dispatch' = [dispatch EXCEPT ![i] = outcome]
  /\ value' = [value EXCEPT ![i] = v]

\* A handler throws: an error of its own, or that of a second next().
Throw(i) ==
  /\ at[i] = "running" /\ ~IsTimeout(i)
  /\ Settle(i, "rejected", None)
  /\ proper' = FALSE
  /\ UNCHANGED <<index, called, under, taken, res, timedOut, reply>>

\* dispatch(i + 1) has fulfilled: a response goes to c.res, and a handler that
\* awaits next() goes on.
NextFulfils(i) ==
  /\ called[i] /\ ~taken[i] /\ dispatch[i + 1] = "fulfilled"
  /\ taken' = [taken EXCEPT ![i] = TRUE]
  /\ under' = [under EXCEPT ![i] = value[i + 1]]
  /\ res' = IF value[i + 1] # None THEN value[i + 1] ELSE res
  /\ at' = IF at[i] = "awaiting" THEN [at EXCEPT ![i] = "running"] ELSE at
  /\ UNCHANGED <<index, called, dispatch, value, timedOut, reply, proper>>

\* It has rejected: whoever awaits next() catches the error and goes on, or lets
\* it through.  timeout() clears its timer and lets it through.
NextRejects(i) ==
  /\ called[i] /\ ~taken[i] /\ dispatch[i + 1] = "rejected"
  /\ taken' = [taken EXCEPT ![i] = TRUE]
  /\ proper' = FALSE
  /\ \/ at[i] = "awaiting" /\ Settle(i, "rejected", None)
     \/ /\ at[i] = "awaiting" /\ ~IsTimeout(i)
        /\ at' = [at EXCEPT ![i] = "running"]
        /\ UNCHANGED <<dispatch, value>>
     \/ at[i] # "awaiting" /\ UNCHANGED <<at, dispatch, value>>
  /\ UNCHANGED <<index, called, under, res, timedOut, reply>>

\* The handler returns a response, which wins over everything below it.
ReturnResponse(i) ==
  /\ at[i] = "running"
  /\ IsTimeout(i) => taken[i] /\ timedOut
  /\ res' = Returned(i)
  /\ Settle(i, "fulfilled", Returned(i))
  /\ UNCHANGED <<index, called, under, taken, timedOut, reply, proper>>

\* Seeded fault: c.res is preferred to the response of the handlers below.
ReturnNothing_PrefersRes(i) ==
  /\ at[i] = "running"
  /\ IsTimeout(i) => taken[i] /\ ~timedOut
  /\ \/ called[i] /\ Settle(i, "fulfilled", IF res # None THEN res ELSE under[i])
     \/ ~called[i] /\ res # None /\ Settle(i, "fulfilled", res)
     \/ ~called[i] /\ res = None /\ i + 1 < Chain /\ Settle(i, "rejected", None)
     \/ ~called[i] /\ res = None /\ i + 1 = Chain /\ Settle(i, "fulfilled", None)
  /\ UNCHANGED <<index, called, under, taken, res, timedOut, reply, proper>>

\* It returns undefined.  If it called next(), the response from below wins over
\* c.res; if not, c.res is taken, and without one only the last handler may end
\* like this: any other fails closed.
ReturnNothing(i) ==
  /\ at[i] = "running"
  /\ IsTimeout(i) => taken[i] /\ ~timedOut
  /\ \/ called[i] /\ Settle(i, "fulfilled", IF under[i] # None THEN under[i] ELSE res)
     \/ ~called[i] /\ res # None /\ Settle(i, "fulfilled", res)
     \/ ~called[i] /\ res = None /\ i + 1 < Chain /\ Settle(i, "rejected", None)
     \/ ~called[i] /\ res = None /\ i + 1 = Chain /\ Settle(i, "fulfilled", None)
  /\ UNCHANGED <<index, called, under, taken, res, timedOut, reply, proper>>

\* Anything that is neither a response nor undefined is an error, unless a
\* response is there.
ReturnJunk(i) ==
  /\ at[i] = "running" /\ ~IsTimeout(i)
  /\ \/ called[i] /\ Settle(i, "fulfilled", IF under[i] # None THEN under[i] ELSE res)
     \/ ~called[i] /\ res # None /\ Settle(i, "fulfilled", res)
     \/ ~called[i] /\ res = None /\ Settle(i, "rejected", None)
  /\ UNCHANGED <<index, called, under, taken, res, timedOut, reply, proper>>

\* The timer of timeout(): cleared once its next() has settled.
TimerFires ==
  /\ HasTimeout /\ called[0] /\ ~taken[0] /\ ~timedOut
  /\ timedOut' = TRUE
  /\ res' = TooLate
  /\ UNCHANGED <<index, at, called, under, taken, dispatch, value, reply, proper>>

\* The composed function and fetch() end.
Reply ==
  /\ reply = None
  /\ \/ dispatch[0] = "rejected" /\ reply' = ServerError
     \/ /\ dispatch[0] = "fulfilled"
        /\ reply' = IF value[0] # None THEN value[0] ELSE IF res # None THEN res ELSE NotFound
  /\ UNCHANGED <<index, at, called, under, taken, dispatch, value, res, timedOut, proper>>

PipelineNext ==
  \/ \E i \in Handlers :
       \/ SetResponse(i) \/ Throw(i) \/ NextFulfils(i) \/ NextRejects(i)
       \/ ReturnResponse(i) \/ ReturnNothing(i) \/ ReturnJunk(i)
       \/ \E awaits \in BOOLEAN : CallNext(i, awaits)
  \/ TimerFires
  \/ Reply

PipelineSpec == PipelineInit /\ [][PipelineNext]_pipelineVars

-----------------------------------------------------------------------------
(* Properties *)

\* Promises and handlers are in step, and a handler runs only below one that
\* called next(): nobody is dispatched twice.
PipelineTypeOK ==
  /\ index \in 1..(Chain + 1)
  /\ \A i \in Handlers :
       /\ at[i] \in {"unrun", "running", "awaiting", "over"}
       /\ (at[i] = "unrun") <=> (i >= index)
       /\ (dispatch[i] \in {"fulfilled", "rejected"}) <=> (at[i] = "over")
       /\ called[i] <=> i + 1 < index
       /\ at[i] = "awaiting" => called[i] /\ ~taken[i]

\* The handlers that returned a response.
Responders == {i \in Handlers : value[i] = Returned(i)}

\* compose() as its comments state it, for a chain that awaits every next() and
\* in which nothing is thrown: of the responses that handlers return the
\* outermost is the reply, whatever was put into c.res before, after or beside
\* it; and 404 is the answer only when nobody responded and the chain was left
\* at its last handler (elsewhere it "fails closed").
ReplyDecided ==
  reply # None /\ proper =>
    /\ Responders # {} =>
         reply = Returned(CHOOSE i \in Responders : \A j \in Responders : i <= j)
    /\ reply = NotFound => res = None /\ \A i \in Handlers : at[i] = "over"

\* The reply of a chain is the one its comments name; promises and handlers are
\* in step, and no handler runs twice.
ChainDecided == PipelineTypeOK /\ ReplyDecided

=============================================================================
