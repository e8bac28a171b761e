--------------------------- MODULE PipelineProofs ---------------------------
(***************************************************************************)
(* What is proved of a chain of handlers: the reply is the one that the    *)
(* comments of compose() name, for chains of any length, with and without  *)
(* timeout(), whatever the handlers do and in whatever order their         *)
(* promises settle.  And of the router: for every set of routes the walk   *)
(* of the trie finds the most specific one, and what is cached for it is   *)
(* current.                                                                *)
(***************************************************************************)
EXTENDS Pipeline, Router, NaturalsInduction, SequenceTheorems, WellFoundedInduction, TLAPS

Answers == Responses \cup {None}

ChainShape ==
  /\ index \in 1..(Chain + 1)
  /\ at \in [Handlers -> {"unrun", "running", "awaiting", "over"}]
  /\ called \in [Handlers -> BOOLEAN] /\ taken \in [Handlers -> BOOLEAN]
  /\ under \in [Handlers -> Answers]
  /\ dispatch \in [0..Chain -> {"none", "pending", "fulfilled", "rejected"}]
  /\ value \in [0..Chain -> Answers]
  /\ res \in Answers /\ timedOut \in BOOLEAN /\ proper \in BOOLEAN

\* Promises and handlers are in step.
InStep(i) ==
  /\ (at[i] = "unrun") <=> (i >= index)
  /\ (dispatch[i] \in {"fulfilled", "rejected"}) <=> (at[i] = "over")
  /\ called[i] <=> i + 1 < index
  /\ at[i] = "awaiting" => called[i] /\ ~taken[i]
  /\ taken[i] => called[i]
  /\ at[i] # "over" => value[i] = None

\* A handler of a proper chain goes on when the one below it has fulfilled.
Nested(i) ==
  /\ called[i] /\ at[i] # "awaiting" => taken[i]
  /\ taken[i] => dispatch[i + 1] = "fulfilled" /\ under[i] = value[i + 1]
  /\ dispatch[i] = "rejected" => ~called[i] /\ value[i] = None

\* The handlers from i on that returned a response.
RespondersFrom(i) == {j \in Handlers : i <= j /\ value[j] = Returned(j)}

\* What a handler of a proper chain that is over says of those below it: all have
\* fulfilled, the response of the outermost of them is passed on, and without
\* any the chain was left at its last handler.
Passes(i) ==
  /\ \A j \in Handlers : i < j /\ j < index => dispatch[j] = "fulfilled"
  /\ RespondersFrom(i) # {} =>
       \E j \in RespondersFrom(i) : value[i] = Returned(j) /\ \A k \in RespondersFrom(i) : j <= k
  /\ dispatch[i] = "fulfilled" /\ value[i] = None => index >= Chain

PipelineInv ==
  /\ ChainShape
  /\ \A i \in Handlers : InStep(i)
  /\ proper => \A i \in Handlers : Nested(i) /\ (at[i] = "over" => Passes(i))
  /\ proper /\ reply # None =>
       \/ dispatch[0] = "rejected" /\ reply = ServerError
       \/ /\ dispatch[0] = "fulfilled"
          /\ reply = IF value[0] # None THEN value[0] ELSE IF res # None THEN res ELSE NotFound

-----------------------------------------------------------------------------

LEMMA ChainNumbers ==
  /\ Chain \in Nat /\ Chain > 0 /\ 0 \in Handlers
  /\ \A i \in Handlers : i \in Nat /\ i < Chain /\ i \in 0..Chain /\ i + 1 \in 0..Chain
  /\ \A i \in Nat : i < Chain => i \in Handlers
  BY PipelineAssumption DEF Handlers

LEMMA AnswersKnown ==
  /\ None \notin Responses /\ NotFound \notin Answers /\ ServerError \notin Answers
  /\ NotFound # ServerError /\ NotFound # None /\ ServerError # None
  /\ TooLate \in Answers /\ None \in Answers
  /\ \A i \in Handlers : /\ Returned(i) \in Answers /\ Set(i) \in Answers /\ Returned(i) # None
                         /\ \A j \in Handlers : Returned(i) = Returned(j) => i = j
<1>1. None \notin Responses /\ NotFound # None /\ ServerError # None
  BY PipelineAssumption
<1>2. \A i \in Handlers : Returned(i) \in Responses /\ Set(i) \in Responses
  BY DEF Responses
<1>3. NotFound \notin Responses /\ ServerError \notin Responses
  BY DEF Responses, Returned, Set, NotFound, ServerError
<1>4. NotFound # ServerError
  BY DEF NotFound, ServerError
<1>5. \A i, j \in Handlers : Returned(i) = Returned(j) => i = j
  BY DEF Returned
<1> QED
  BY <1>1, <1>2, <1>3, <1>4, <1>5, ChainNumbers DEF Answers, TooLate

LEMMA PipelineInitInv == PipelineInit => PipelineInv
<1> SUFFICES ASSUME PipelineInit PROVE PipelineInv
  OBVIOUS
<1>1. ChainShape
  <2>1. index \in 1..(Chain + 1)
    BY ChainNumbers DEF PipelineInit
  <2>2. /\ at \in [Handlers -> {"unrun", "running", "awaiting", "over"}]
        /\ dispatch \in [0..Chain -> {"none", "pending", "fulfilled", "rejected"}]
    BY DEF PipelineInit
  <2>3. /\ called \in [Handlers -> BOOLEAN] /\ taken \in [Handlers -> BOOLEAN]
        /\ under \in [Handlers -> Answers] /\ value \in [0..Chain -> Answers]
        /\ res \in Answers /\ timedOut \in BOOLEAN /\ proper \in BOOLEAN
    BY AnswersKnown DEF PipelineInit
  <2> QED
    BY <2>1, <2>2, <2>3 DEF ChainShape
<1>2. ASSUME NEW i \in Handlers PROVE InStep(i) /\ Nested(i) /\ at[i] # "over"
  <2>1. i \in 0..Chain /\ i \in Nat /\ (i = 0 \/ i >= 1)
    BY ChainNumbers
  <2> QED
    BY <2>1 DEF PipelineInit, InStep, Nested
<1> QED
  BY <1>1, <1>2 DEF PipelineInit, PipelineInv

\* A handler ends, for whatever reason.
LEMMA SettleShape ==
  ASSUME ChainShape, \A j \in Handlers : InStep(j), NEW i \in Handlers,
         NEW outcome \in {"fulfilled", "rejected"}, NEW v \in Answers,
         at[i] \in {"running", "awaiting"}, Settle(i, outcome, v),
         UNCHANGED <<index, called, under, timedOut>>, res' \in Answers, proper' \in BOOLEAN,
         taken' = taken \/ (taken' = [taken EXCEPT ![i] = TRUE] /\ called[i])
  PROVE  ChainShape' /\ \A j \in Handlers : InStep(j)'
<1>1. ChainShape'
  BY ChainNumbers DEF ChainShape, Settle
<1>2. ASSUME NEW j \in Handlers PROVE InStep(j)'
  <2>1. CASE j = i
    BY <2>1, ChainNumbers DEF ChainShape, InStep, Settle
  <2>2. CASE j # i
    <3>1. at'[j] = at[j] /\ dispatch'[j] = dispatch[j] /\ value'[j] = value[j] /\ taken'[j] = taken[j]
      BY <2>2, ChainNumbers DEF ChainShape, Settle
    <3> QED
      BY <3>1 DEF InStep
  <2> QED
    BY <2>1, <2>2
<1> QED
  BY <1>1, <1>2

\* Below a handler of a proper chain that is over nobody is left.
LEMMA BelowOver ==
  ASSUME PipelineInv, proper, NEW i \in Handlers, at[i] = "over", NEW j \in Handlers, i <= j
  PROVE  at[j] \in {"unrun", "over"}
<1>1. CASE i = j
  BY <1>1
<1>2. CASE i < j /\ j < index
  BY <1>2 DEF PipelineInv, Passes, InStep
<1>3. CASE ~(j < index)
  BY <1>3, ChainNumbers DEF PipelineInv, InStep, ChainShape
<1> QED
  BY <1>1, <1>2, <1>3, ChainNumbers

LEMMA NobodyAfterReply ==
  ASSUME PipelineInv, proper, reply # None, NEW i \in Handlers
  PROVE  at[i] \in {"unrun", "over"} /\ (called[i] => taken[i])
<1>1. at[0] = "over" /\ 0 <= i
  BY ChainNumbers DEF PipelineInv, InStep
<1>2. at[i] \in {"unrun", "over"}
  BY <1>1, BelowOver, ChainNumbers
<1> QED
  BY <1>2 DEF PipelineInv, Nested

\* A handler of a proper chain ends: its response, or what it passes on.
LEMMA SettleProper ==
  ASSUME PipelineInv, proper, NEW i \in Handlers, at[i] = "running",
         NEW outcome \in {"fulfilled", "rejected"}, NEW v \in Answers, Settle(i, outcome, v),
         UNCHANGED <<index, called, under, taken>>,
         outcome = "rejected" => ~called[i] /\ v = None,
         outcome = "fulfilled" =>
           \/ v = Returned(i)
           \/ called[i] /\ (under[i] # None => v = under[i])
           \/ ~called[i] /\ (v = None => i + 1 = Chain)
  PROVE  \A j \in Handlers : Nested(j)' /\ (at'[j] = "over" => Passes(j)')
<1>1. /\ at' = [at EXCEPT ![i] = "over"] /\ dispatch' = [dispatch EXCEPT ![i] = outcome]
      /\ value' = [value EXCEPT ![i] = v]
  BY DEF Settle
<1>2. /\ i \in Nat /\ i < Chain /\ index \in Nat /\ index <= Chain + 1
      /\ i + 1 \in 0..Chain /\ i + 1 # i
  BY ChainNumbers DEF PipelineInv, ChainShape
<1>3. /\ \A j \in 0..Chain : j # i => value'[j] = value[j] /\ dispatch'[j] = dispatch[j]
      /\ \A j \in Handlers : j # i => at'[j] = at[j]
      /\ value'[i] = v /\ dispatch'[i] = outcome
  BY <1>1, ChainNumbers DEF PipelineInv, ChainShape
<1>4. i < index /\ (called[i] <=> i + 1 < index) /\ (called[i] => taken[i])
  BY <1>2 DEF PipelineInv, InStep, Nested
<1>5. called[i] => dispatch[i + 1] = "fulfilled" /\ under[i] = value[i + 1]
  BY <1>4 DEF PipelineInv, Nested
<1>6. ASSUME NEW j \in Handlers PROVE Nested(j)'
  <2>1. CASE j = i
    <3>1. called'[i] => taken'[i] /\ dispatch'[i + 1] = "fulfilled" /\ under'[i] = value'[i + 1]
      BY <1>2, <1>3, <1>4, <1>5
    <3>2. taken'[i] => called'[i]
      BY DEF PipelineInv, InStep
    <3>3. dispatch'[i] = "rejected" => ~called'[i] /\ value'[i] = None
      BY <1>3
    <3> QED
      BY <2>1, <3>1, <3>2, <3>3 DEF Nested
  <2>2. CASE j # i /\ j + 1 # i
    <3>1. j + 1 \in 0..Chain /\ j \in 0..Chain
      BY ChainNumbers
    <3> QED
      BY <1>3, <2>2, <3>1 DEF PipelineInv, Nested
  <2>3. CASE j + 1 = i
    <3>1. ~taken[j]
      <4>1. taken[j] => dispatch[i] = "fulfilled"
        BY <2>3 DEF PipelineInv, Nested
      <4>2. dispatch[i] # "fulfilled"
        BY DEF PipelineInv, InStep
      <4> QED
        BY <4>1, <4>2
    <3>2. j \in 0..Chain /\ j # i
      BY <2>3, ChainNumbers
    <3> QED
      BY <1>3, <3>1, <3>2 DEF PipelineInv, Nested
  <2> QED
    BY <2>1, <2>2, <2>3
<1>7. ASSUME NEW j \in Handlers, j # i, at'[j] = "over" PROVE Passes(j)'
  <2>1. i < j
    <3>1. at[j] = "over"
      BY <1>3, <1>7
    <3>2. ~(j <= i)
      BY <3>1, BelowOver
    <3> QED
      BY <1>2, <3>2, ChainNumbers
  <2>2. Passes(j)
    BY <1>3, <1>7 DEF PipelineInv
  <2>3. \A k \in Handlers : j <= k => value'[k] = value[k] /\ dispatch'[k] = dispatch[k]
    BY <1>2, <1>3, <2>1, ChainNumbers
  <2>4. RespondersFrom(j)' = RespondersFrom(j)
    BY <2>3 DEF RespondersFrom
  <2> QED
    BY <2>2, <2>3, <2>4, ChainNumbers DEF Passes
<1>8. \A j \in Handlers : i < j /\ j < index' => dispatch'[j] = "fulfilled"
  <2> SUFFICES ASSUME NEW j \in Handlers, i < j, j < index PROVE dispatch'[j] = "fulfilled"
    OBVIOUS
  <2>1. called[i] /\ j \in 0..Chain /\ j # i /\ (j = i + 1 \/ i + 1 < j) /\ i + 1 \in Handlers
    BY <1>2, <1>4, ChainNumbers
  <2>2. Passes(i + 1) /\ dispatch[i + 1] = "fulfilled"
    BY <1>5, <2>1 DEF PipelineInv, InStep
  <2>3. dispatch[j] = "fulfilled"
    BY <2>1, <2>2 DEF Passes
  <2> QED
    BY <1>3, <2>1, <2>3
<1>9. Passes(i)'
  <2>1. RespondersFrom(i)' = {j \in Handlers : i <= j /\ value'[j] = Returned(j)}
    BY DEF RespondersFrom
  <2>2. \A j \in Handlers : (i <= j <=> j = i \/ i < j) /\ (i < j => j # i /\ j \in 0..Chain)
    BY <1>2, ChainNumbers
  <2>3. CASE v = Returned(i)
    <3>1. /\ i \in RespondersFrom(i)' /\ value'[i] = Returned(i)
          /\ \A k \in RespondersFrom(i)' : i <= k
      BY <1>2, <1>3, <2>1, <2>3
    <3>2. value'[i] # None
      BY <1>3, <2>3, AnswersKnown
    <3> QED
      BY <1>8, <3>1, <3>2 DEF Passes
  <2>4. CASE v # Returned(i) /\ ~(called[i] /\ i + 1 # Chain)
    <3>1. ASSUME NEW j \in Handlers, i < j PROVE value'[j] # Returned(j)
      <4>1. ~(j < index) /\ j \in 0..Chain /\ j # i
        BY <1>2, <1>4, <2>4, <3>1, ChainNumbers
      <4>2. value[j] = None
        BY <4>1, ChainNumbers DEF PipelineInv, InStep, ChainShape
      <4> QED
        BY <1>3, <4>1, <4>2, AnswersKnown
    <3>2. RespondersFrom(i)' = {}
      BY <1>3, <2>1, <2>2, <2>4, <3>1
    <3>3. dispatch'[i] = "fulfilled" /\ value'[i] = None => index' >= Chain
      BY <1>2, <1>3, <1>4, <2>4, AnswersKnown
    <3> QED
      BY <1>8, <3>2, <3>3 DEF Passes
  <2>5. CASE v # Returned(i) /\ called[i] /\ i + 1 # Chain
    <3>1. i + 1 \in Handlers
      BY <1>2, <2>5, ChainNumbers
    <3>2. Passes(i + 1) /\ under[i] = value[i + 1]
      BY <1>5, <2>5, <3>1 DEF PipelineInv, InStep
    <3>3. value[i + 1] # None => v = value[i + 1]
      BY <2>5, <3>2
    <3>4. RespondersFrom(i)' = RespondersFrom(i + 1)
      <4>1. \A j \in Handlers : i < j <=> i + 1 <= j
        BY <1>2, ChainNumbers
      <4>2. \A j \in Handlers : i + 1 <= j => value'[j] = value[j]
        BY <1>3, <2>2, <4>1
      <4> QED
        BY <1>3, <2>1, <2>2, <2>5, <4>1, <4>2 DEF RespondersFrom
    <3>5. ASSUME RespondersFrom(i + 1) # {}
          PROVE  \E j \in RespondersFrom(i)' :
                   value'[i] = Returned(j) /\ \A k \in RespondersFrom(i)' : j <= k
      <4>1. PICK j \in RespondersFrom(i + 1) :
              value[i + 1] = Returned(j) /\ \A k \in RespondersFrom(i + 1) : j <= k
        BY <3>2, <3>5 DEF Passes
      <4>2. j \in Handlers /\ value'[i] = Returned(j)
        BY <1>3, <3>3, <4>1, AnswersKnown DEF RespondersFrom
      <4> QED
        BY <3>4, <4>1, <4>2
    <3>6. value'[i] = None => index' >= Chain
      <4>1. v = None => value[i + 1] = None
        BY <3>3, AnswersKnown
      <4>2. dispatch[i + 1] = "fulfilled"
        BY <1>5, <2>5
      <4> QED
        BY <1>3, <3>2, <4>1, <4>2 DEF Passes
    <3> QED
      BY <1>8, <3>4, <3>5, <3>6 DEF Passes
  <2> QED
    BY <2>3, <2>4, <2>5
<1> QED
  BY <1>6, <1>7, <1>9

\* A step that leaves the handlers alone, but for a response set aside.
LEMMA ResKeeps ==
  ASSUME PipelineInv, res' \in Answers, timedOut' \in BOOLEAN, proper => reply = None,
         UNCHANGED <<index, at, called, under, taken, dispatch, value, reply, proper>>
  PROVE  PipelineInv'
<1>1. ChainShape'
  BY DEF PipelineInv, ChainShape
<1>2. \A i \in Handlers : InStep(i)' /\ (Nested(i) => Nested(i)') /\ (Passes(i) => Passes(i)')
  BY DEF PipelineInv, InStep, Nested, Passes, RespondersFrom
<1> QED
  BY <1>1, <1>2 DEF PipelineInv

\* A handler of a proper chain that is not over has not been answered yet.
LEMMA NoReplyYet ==
  ASSUME PipelineInv, proper, NEW i \in Handlers,
         at[i] \in {"running", "awaiting"} \/ (called[i] /\ ~taken[i])
  PROVE  reply = None
  BY NobodyAfterReply

\* A handler ends, and the chain keeps the invariant.
LEMMA SettleKeeps ==
  ASSUME PipelineInv, NEW i \in Handlers, at[i] = "running",
         NEW outcome \in {"fulfilled", "rejected"}, NEW v \in Answers, Settle(i, outcome, v),
         UNCHANGED <<index, called, under, taken, timedOut, reply, proper>>, res' \in Answers,
         proper /\ outcome = "rejected" => ~called[i] /\ v = None,
         proper /\ outcome = "fulfilled" =>
           \/ v = Returned(i)
           \/ called[i] /\ (under[i] # None => v = under[i])
           \/ ~called[i] /\ (v = None => i + 1 = Chain)
  PROVE  PipelineInv'
<1>1. ChainShape' /\ \A j \in Handlers : InStep(j)'
  BY SettleShape DEF PipelineInv, ChainShape
<1>2. proper' => \A j \in Handlers : Nested(j)' /\ (at'[j] = "over" => Passes(j)')
  BY SettleProper
<1>3. proper' => reply' = None
  BY NoReplyYet
<1> QED
  BY <1>1, <1>2, <1>3 DEF PipelineInv

LEMMA SetResponseKeeps ==
  ASSUME PipelineInv, NEW i \in Handlers, SetResponse(i)
  PROVE  PipelineInv'
<1>1. proper => reply = None
  BY NoReplyYet DEF SetResponse
<1>2. timedOut \in BOOLEAN
  BY DEF PipelineInv, ChainShape
<1> QED
  BY <1>1, <1>2, ResKeeps, AnswersKnown DEF SetResponse

LEMMA TimerFiresKeeps ==
  ASSUME PipelineInv, TimerFires
  PROVE  PipelineInv'
<1>1. proper => reply = None
  BY NoReplyYet, ChainNumbers DEF TimerFires
<1> QED
  BY <1>1, ResKeeps, AnswersKnown DEF TimerFires

LEMMA ThrowKeeps ==
  ASSUME PipelineInv, NEW i \in Handlers, Throw(i)
  PROVE  PipelineInv'
<1>1. /\ at[i] = "running" /\ Settle(i, "rejected", None) /\ proper' = FALSE
      /\ UNCHANGED <<index, called, under, taken, res, timedOut, reply>>
  BY DEF Throw
<1>2. ChainShape' /\ \A j \in Handlers : InStep(j)'
  BY <1>1, SettleShape, AnswersKnown DEF PipelineInv, ChainShape
<1> QED
  BY <1>1, <1>2 DEF PipelineInv

LEMMA NextRejectsKeeps ==
  ASSUME PipelineInv, NEW i \in Handlers, NextRejects(i)
  PROVE  PipelineInv'
<1>1. /\ called[i] /\ ~taken[i] /\ taken' = [taken EXCEPT ![i] = TRUE] /\ proper' = FALSE
      /\ UNCHANGED <<index, called, under, res, timedOut, reply>>
  BY DEF NextRejects
<1>2. CASE at[i] = "awaiting" /\ Settle(i, "rejected", None)
  <2>1. ChainShape' /\ \A j \in Handlers : InStep(j)'
    BY <1>1, <1>2, SettleShape, AnswersKnown DEF PipelineInv, ChainShape
  <2> QED
    BY <1>1, <2>1 DEF PipelineInv
<1>3. CASE /\ at' = [at EXCEPT ![i] = "running"] \/ (at[i] # "awaiting" /\ at' = at)
           /\ at[i] = "awaiting" \/ at' = at
           /\ UNCHANGED <<dispatch, value>>
  <2>1. ChainShape'
    BY <1>1, <1>3 DEF PipelineInv, ChainShape
  <2>2. ASSUME NEW j \in Handlers PROVE InStep(j)'
    <3>1. j # i => at'[j] = at[j] /\ taken'[j] = taken[j]
      BY <1>1, <1>3 DEF PipelineInv, ChainShape
    <3>2. taken'[i] /\ at'[i] # "awaiting"
          /\ (at'[i] = at[i] \/ (at[i] = "awaiting" /\ at'[i] = "running"))
      BY <1>1, <1>3 DEF PipelineInv, ChainShape
    <3>3. InStep(j)
      BY DEF PipelineInv
    <3>4. CASE j # i
      BY <1>1, <1>3, <3>1, <3>3, <3>4 DEF InStep
    <3>5. CASE j = i
      BY <1>1, <1>3, <3>2, <3>3, <3>5 DEF InStep
    <3> QED
      BY <3>4, <3>5
  <2> QED
    BY <1>1, <2>1, <2>2 DEF PipelineInv
<1> QED
  BY <1>2, <1>3 DEF NextRejects

LEMMA NextFulfilsKeeps ==
  ASSUME PipelineInv, NEW i \in Handlers, NextFulfils(i)
  PROVE  PipelineInv'
<1>1. /\ called[i] /\ ~taken[i] /\ dispatch[i + 1] = "fulfilled"
      /\ taken' = [taken EXCEPT ![i] = TRUE] /\ under' = [under EXCEPT ![i] = value[i + 1]]
      /\ at' = IF at[i] = "awaiting" THEN [at EXCEPT ![i] = "running"] ELSE at
      /\ UNCHANGED <<index, called, dispatch, value, timedOut, reply, proper>>
  BY DEF NextFulfils
<1>2. value[i + 1] \in Answers /\ res' \in Answers
  BY ChainNumbers DEF PipelineInv, ChainShape, NextFulfils
<1>3. /\ \A j \in Handlers : j # i => at'[j] = at[j] /\ taken'[j] = taken[j] /\ under'[j] = under[j]
      /\ taken'[i] /\ under'[i] = value[i + 1] /\ at'[i] # "awaiting"
      /\ at'[i] = at[i] \/ (at[i] = "awaiting" /\ at'[i] = "running")
  BY <1>1 DEF PipelineInv, ChainShape
<1>4. ChainShape'
  BY <1>1, <1>2 DEF PipelineInv, ChainShape
<1>5. ASSUME NEW j \in Handlers PROVE InStep(j)'
  <2>1. InStep(j)
    BY DEF PipelineInv
  <2>2. CASE j # i
    BY <1>1, <1>3, <2>1, <2>2 DEF InStep
  <2>3. CASE j = i
    BY <1>1, <1>3, <2>1, <2>3 DEF InStep
  <2> QED
    BY <2>2, <2>3
<1>6. ASSUME proper, NEW j \in Handlers PROVE Nested(j)' /\ (at'[j] = "over" => Passes(j)')
  <2>1. Nested(j) /\ (at[j] = "over" => Passes(j))
    BY <1>6 DEF PipelineInv
  <2>2. at'[j] = "over" => Passes(j)'
    BY <1>1, <1>3, <2>1 DEF Passes, RespondersFrom
  <2>3. CASE j # i
    BY <1>1, <1>3, <2>1, <2>2, <2>3 DEF Nested
  <2>4. CASE j = i
    BY <1>1, <1>3, <2>1, <2>2, <2>4 DEF Nested
  <2> QED
    BY <2>3, <2>4
<1>7. proper' => reply' = None
  BY <1>1, NoReplyYet
<1> QED
  BY <1>1, <1>4, <1>5, <1>6, <1>7 DEF PipelineInv

LEMMA ReturnResponseKeeps ==
  ASSUME PipelineInv, NEW i \in Handlers, ReturnResponse(i)
  PROVE  PipelineInv'
<1>1. /\ at[i] = "running" /\ Settle(i, "fulfilled", Returned(i)) /\ res' = Returned(i)
      /\ UNCHANGED <<index, called, under, taken, timedOut, reply, proper>>
  BY DEF ReturnResponse
<1> QED
  BY <1>1, SettleKeeps, AnswersKnown

LEMMA ReturnOtherKeeps ==
  ASSUME PipelineInv, NEW i \in Handlers, ReturnNothing(i) \/ ReturnJunk(i)
  PROVE  PipelineInv'
<1>1. /\ at[i] = "running" /\ res' = res /\ res \in Answers /\ under[i] \in Answers
      /\ UNCHANGED <<index, called, under, taken, timedOut, reply, proper>>
  BY DEF ReturnNothing, ReturnJunk, PipelineInv, ChainShape
<1>2. CASE called[i] /\ Settle(i, "fulfilled", IF under[i] # None THEN under[i] ELSE res)
  <2>1. PICK v \in Answers : /\ v = IF under[i] # None THEN under[i] ELSE res
                             /\ Settle(i, "fulfilled", v)
    BY <1>1, <1>2
  <2> QED
    BY <1>1, <1>2, <2>1, SettleKeeps
<1>3. CASE ~called[i] /\ res # None /\ Settle(i, "fulfilled", res)
  BY <1>1, <1>3, SettleKeeps
<1>4. CASE ~called[i] /\ Settle(i, "rejected", None)
  BY <1>1, <1>4, SettleKeeps, AnswersKnown
<1>5. CASE ~called[i] /\ i + 1 = Chain /\ Settle(i, "fulfilled", None)
  BY <1>1, <1>5, SettleKeeps, AnswersKnown
<1> QED
  BY <1>2, <1>3, <1>4, <1>5 DEF ReturnNothing, ReturnJunk

LEMMA CallNextKeeps ==
  ASSUME PipelineInv, NEW i \in Handlers, NEW awaits \in BOOLEAN, CallNext(i, awaits)
  PROVE  PipelineInv'
<1>1. /\ at[i] = "running" /\ ~called[i] /\ i + 1 >= index
      /\ called' = [called EXCEPT ![i] = TRUE] /\ index' = i + 2
      /\ dispatch' = [dispatch EXCEPT ![i + 1] = IF i + 1 = Chain THEN "fulfilled" ELSE "pending"]
      /\ value' = IF i + 1 = Chain THEN [value EXCEPT ![Chain] = res] ELSE value
      /\ at' = [j \in Handlers |-> IF j = i + 1 THEN "running"
                                   ELSE IF j = i /\ awaits THEN "awaiting" ELSE at[j]]
      /\ proper' = (proper /\ awaits)
      /\ UNCHANGED <<under, taken, res, timedOut, reply>>
  BY DEF CallNext, MayCallNext
<1>2. /\ i \in Nat /\ i < Chain /\ index \in Nat /\ i + 1 \in 0..Chain /\ i + 1 # i /\ Chain \in Nat
      /\ index = i + 1 /\ ~taken[i] /\ i + 1 \notin {i} /\ Chain \notin Handlers
  <2>1. i \in Nat /\ i < Chain /\ index \in Nat /\ i + 1 \in 0..Chain /\ Chain \in Nat
    BY ChainNumbers DEF PipelineInv, ChainShape
  <2>2. i < index /\ ~taken[i]
    BY <1>1, <2>1 DEF PipelineInv, InStep
  <2> QED
    BY <1>1, <2>1, <2>2 DEF Handlers
<1>3. ChainShape'
  <2>1. index' \in 1..(Chain + 1)
    BY <1>1, <1>2
  <2>2. at' \in [Handlers -> {"unrun", "running", "awaiting", "over"}]
    BY <1>1 DEF PipelineInv, ChainShape
  <2>3. dispatch' \in [0..Chain -> {"none", "pending", "fulfilled", "rejected"}]
    BY <1>1, <1>2 DEF PipelineInv, ChainShape
  <2>4. value' \in [0..Chain -> Answers]
    BY <1>1, <1>2 DEF PipelineInv, ChainShape
  <2>5. called' \in [Handlers -> BOOLEAN] /\ proper' \in BOOLEAN
    BY <1>1 DEF PipelineInv, ChainShape
  <2> QED
    BY <1>1, <2>1, <2>2, <2>3, <2>4, <2>5 DEF PipelineInv, ChainShape
<1>4. /\ \A j \in Handlers : j # i /\ j # i + 1 =>
           at'[j] = at[j] /\ called'[j] = called[j] /\ dispatch'[j] = dispatch[j]
      /\ \A j \in Handlers : value'[j] = value[j]
      /\ called'[i] /\ at'[i] = (IF awaits THEN "awaiting" ELSE "running")
      /\ dispatch'[i] = dispatch[i]
  BY <1>1, <1>2, ChainNumbers DEF PipelineInv, ChainShape
<1>5. ASSUME NEW j \in Handlers PROVE InStep(j)'
  <2>1. InStep(j) /\ InStep(i)
    BY DEF PipelineInv
  <2>2. CASE j = i
    <3>1. at'[i] \in {"running", "awaiting"} /\ taken'[i] = taken[i] /\ value'[i] = value[i]
      BY <1>1, <1>4
    <3>2. at[i] = "running" => ~(dispatch[i] \in {"fulfilled", "rejected"}) /\ value[i] = None
      BY <2>1 DEF InStep
    <3> QED
      BY <1>1, <1>2, <1>4, <2>2, <3>1, <3>2 DEF InStep
  <2>3. CASE j = i + 1
    <3>1. /\ at[j] = "unrun" /\ ~called[j] /\ ~taken[j] /\ value[j] = None
      BY <1>2, <2>1, <2>3 DEF InStep
    <3>2. i + 1 # Chain
      BY <1>2, <2>3
    <3>3. at'[j] = "running" /\ dispatch'[j] = "pending" /\ called'[j] = called[j]
      BY <1>1, <1>2, <2>3, <3>2, ChainNumbers DEF PipelineInv, ChainShape
    <3> QED
      BY <1>1, <1>2, <1>4, <2>3, <3>1, <3>3 DEF InStep
  <2>4. CASE j # i /\ j # i + 1
    <3>1. (j >= index <=> j >= index') /\ (j + 1 < index <=> j + 1 < index')
      BY <1>1, <1>2, <2>4, ChainNumbers
    <3> QED
      BY <1>1, <1>4, <2>1, <2>4, <3>1 DEF InStep
  <2> QED
    BY <2>2, <2>3, <2>4
<1>6. ASSUME proper', NEW j \in Handlers PROVE Nested(j)' /\ (at'[j] = "over" => Passes(j)')
  <2>1. proper /\ awaits /\ Nested(j)
    BY <1>1, <1>6 DEF PipelineInv
  <2>2. at'[j] # "over"
    <3>1. CASE j = i \/ j = i + 1
      BY <1>1, <1>2, <1>4, <2>1, <3>1
    <3>2. CASE j # i /\ j # i + 1 /\ at[j] = "over"
      <4>1. j < i
        BY <1>2, <3>2, ChainNumbers DEF PipelineInv, InStep
      <4> QED
        BY <1>1, <2>1, <3>2, <4>1, BelowOver, ChainNumbers
    <3> QED
      BY <1>4, <3>1, <3>2
  <2>3. Nested(j)'
    <3>1. CASE j = i
      BY <1>1, <1>2, <1>4, <2>1, <3>1 DEF PipelineInv, InStep, Nested
    <3>2. CASE j = i + 1
      <4>1. InStep(j)'
        BY <1>5
      <4>2. ~called'[j]
        BY <1>1, <1>2, <3>2, <4>1 DEF InStep
      <4> QED
        BY <2>2, <4>1, <4>2 DEF InStep, Nested
    <3>3. CASE j # i /\ j # i + 1
      <4>1. taken[j] => j + 1 # i + 1 /\ j + 1 \in 0..Chain /\ j + 1 < index
        BY <1>2, <3>3, ChainNumbers DEF PipelineInv, InStep
      <4>2. taken[j] => dispatch'[j + 1] = dispatch[j + 1] /\ value'[j + 1] = value[j + 1]
        BY <1>1, <1>2, <4>1 DEF PipelineInv, ChainShape
      <4> QED
        BY <1>1, <1>4, <2>1, <3>3, <4>2 DEF Nested
    <3> QED
      BY <3>1, <3>2, <3>3
  <2> QED
    BY <2>2, <2>3
<1>7. proper' => reply' = None
  BY <1>1, NoReplyYet
<1> QED
  BY <1>3, <1>5, <1>6, <1>7 DEF PipelineInv

LEMMA ReplyKeeps ==
  ASSUME PipelineInv, Reply
  PROVE  PipelineInv'
<1>1. UNCHANGED <<index, at, called, under, taken, dispatch, value, res, timedOut, proper>>
  BY DEF Reply
<1>2. ChainShape'
  BY <1>1 DEF PipelineInv, ChainShape
<1>3. \A i \in Handlers : InStep(i)' /\ (Nested(i) => Nested(i)') /\ (Passes(i) => Passes(i)')
  BY <1>1 DEF PipelineInv, InStep, Nested, Passes, RespondersFrom
<1> QED
  BY <1>1, <1>2, <1>3 DEF PipelineInv, Reply

LEMMA PipelineNextKeeps == PipelineInv /\ [PipelineNext]_pipelineVars => PipelineInv'
<1> SUFFICES ASSUME PipelineInv, [PipelineNext]_pipelineVars PROVE PipelineInv'
  OBVIOUS
<1>1. CASE UNCHANGED pipelineVars
  <2>1. ChainShape'
    BY <1>1 DEF pipelineVars, PipelineInv, ChainShape
  <2>2. \A i \in Handlers : InStep(i)' /\ (Nested(i) => Nested(i)') /\ (Passes(i) => Passes(i)')
    BY <1>1 DEF pipelineVars, PipelineInv, InStep, Nested, Passes, RespondersFrom
  <2> QED
    BY <1>1, <2>1, <2>2 DEF pipelineVars, PipelineInv
<1>2. CASE PipelineNext
  BY <1>2, SetResponseKeeps, ThrowKeeps, NextFulfilsKeeps, NextRejectsKeeps, ReturnResponseKeeps,
     ReturnOtherKeeps, CallNextKeeps, TimerFiresKeeps, ReplyKeeps DEF PipelineNext
<1> QED
  BY <1>1, <1>2

LEMMA DecidedByInv == PipelineInv => ChainDecided
<1> SUFFICES ASSUME PipelineInv PROVE ChainDecided
  OBVIOUS
<1>1. PipelineTypeOK
  BY DEF PipelineInv, ChainShape, InStep, PipelineTypeOK
<1>2. ASSUME reply # None, proper PROVE at[0] = "over" /\ Passes(0) /\ 0 \in Handlers
  BY <1>2, ChainNumbers DEF PipelineInv, InStep
<1>3. ASSUME reply # None, proper, Responders # {}
      PROVE  reply = Returned(CHOOSE i \in Responders : \A j \in Responders : i <= j)
  <2>1. RespondersFrom(0) = Responders
    BY ChainNumbers DEF RespondersFrom, Responders
  <2>2. PICK i \in Responders : value[0] = Returned(i) /\ \A j \in Responders : i <= j
    BY <1>2, <1>3, <2>1 DEF Passes
  <2>3. \A j \in Responders : j \in Nat /\ j \in Handlers
    BY ChainNumbers DEF Responders
  <2>4. i = CHOOSE k \in Responders : \A j \in Responders : k <= j
    BY <2>2, <2>3
  <2>5. value[0] # None /\ ~(dispatch[0] = "rejected")
    BY <1>2, <1>3, <2>2, <2>3, AnswersKnown DEF PipelineInv, Nested
  <2>6. reply = value[0]
    BY <1>3, <2>5 DEF PipelineInv
  <2> QED
    BY <2>2, <2>4, <2>6
<1>4. ASSUME reply # None, proper, reply = NotFound
      PROVE  res = None /\ \A i \in Handlers : at[i] = "over"
  <2>1. dispatch[0] = "fulfilled" /\ value[0] = None /\ res = None
    <3>1. value[0] \in Answers /\ res \in Answers
      BY ChainNumbers DEF PipelineInv, ChainShape
    <3> QED
      BY <1>4, <3>1, AnswersKnown DEF PipelineInv
  <2>2. index >= Chain
    BY <1>2, <1>4, <2>1 DEF Passes
  <2>3. ASSUME NEW i \in Handlers PROVE at[i] = "over"
    <3>1. 0 <= i /\ ~(i >= index)
      BY <2>2, ChainNumbers DEF PipelineInv, ChainShape
    <3>2. at[i] \in {"unrun", "over"}
      BY <1>2, <1>4, <3>1, BelowOver
    <3> QED
      BY <3>1, <3>2 DEF PipelineInv, InStep
  <2> QED
    BY <2>1, <2>3
<1> QED
  BY <1>1, <1>3, <1>4 DEF ChainDecided, ReplyDecided

\* For chains of any length, with and without timeout(): the reply is the response
\* of the outermost handler that returned one, 404 is left to a chain that nobody
\* answered, and no handler runs twice (compose(), dispatch()).
THEOREM ChainAlwaysDecided == PipelineSpec => []ChainDecided
  BY PipelineInitInv, PipelineNextKeeps, DecidedByInv, PTL DEF PipelineSpec

-----------------------------------------------------------------------------
(***************************************************************************)
(* The router.  The walk is a recursive function over the nodes of the     *)
(* trie.  That such a function exists, and that it answers right at every  *)
(* node, is proved from the deepest nodes up: of the counterexamples one   *)
(* would be deepest, and its children would be none.                       *)
(***************************************************************************)

\* Every non-empty set of numbers has a least one: induction, without a
\* predicate to instantiate.
LEMMA LeastNat ==
  ASSUME NEW T, T \subseteq Nat, T # {}
  PROVE  \E x \in T : \A y \in T : x <= y
<1> DEFINE R == OpToRel(<, Nat)
<1>1. IsWellFoundedOn(R, Nat)
  BY NatLessThanWellFounded
<1>2. \A x, y \in Nat : <<y, x>> \in R <=> y < x
  BY DEF OpToRel
<1> HIDE DEF R
<1>3. \E x \in T : \A y \in T : ~ (<<y, x>> \in R)
  BY <1>1, WFMin
<1>4. PICK x \in T : \A y \in T : ~ (<<y, x>> \in R)
  BY <1>3
<1>5. ASSUME NEW y \in T  PROVE x <= y
  <2>1. x \in Nat /\ y \in Nat /\ ~ (<<y, x>> \in R)
    BY <1>4
  <2>2. ~ (y < x)
    BY <1>2, <2>1
  <2>3. QED BY <2>1, <2>2
<1>6. QED BY <1>5

Segs == Literals \cup {Param, Wild}
Tokens == Segs \cup Segments

LEMMA Distinct ==
  /\ Param # Wild /\ Param \notin Literals /\ Wild \notin Literals
  /\ Param \notin Segments /\ Wild \notin Segments
  /\ BadEscape \notin Literals /\ TooLong \notin Literals /\ BadEscape # TooLong
  BY RouterAssumption DEF Param, Wild, Segments

LEMMA PatternIs ==
  ASSUME NEW p \in Patterns
  PROVE  /\ p \in Seq(Segs) /\ p \in Seq(Tokens) /\ Len(p) \in Nat /\ Len(p) <= Depth
         /\ DOMAIN p = 1..Len(p)
         /\ \A k \in 1..Len(p) : p[k] \in Segs /\ (p[k] = Wild => k = Len(p))
<1>1. PICK n \in 0..Depth : p \in [1..n -> Literals \cup {Param, Wild}]
  BY DEF Patterns
<1>2. n \in Nat /\ n <= Depth
  BY RouterAssumption
<1>3. p \in Seq(Segs) /\ Len(p) = n
  BY <1>1, <1>2 DEF Segs
<1>4. p \in Seq(Tokens)
  BY <1>3 DEF Tokens
<1>5. \A k \in DOMAIN p : p[k] = Wild => k = Len(p)
  <2> DEFINE Ends(q) == \A k \in DOMAIN q : q[k] = Wild => k = Len(q)
             All == UNION {[1..i -> Literals \cup {Param, Wild}] : i \in 0..Depth}
  <2>1. p \in {q \in All : Ends(q)}
    BY Zenon DEF Patterns
  <2> HIDE DEF Ends, All
  <2>2. Ends(p)
    BY Zenon, <2>1
  <2>3. QED BY Zenon, <2>2 DEF Ends
<1>6. QED BY <1>1, <1>2, <1>3, <1>4, <1>5 DEF Segs

LEMMA PatternFrom ==
  ASSUME NEW p \in Seq(Segs), Len(p) <= Depth,
         \A k \in 1..Len(p) : p[k] = Wild => k = Len(p)
  PROVE  p \in Patterns
<1>1. Len(p) \in 0..Depth /\ DOMAIN p = 1..Len(p)
  BY RouterAssumption
<1>2. p \in [1..Len(p) -> Literals \cup {Param, Wild}]
  <2>1. p = [k \in 1..Len(p) |-> p[k]]
    OBVIOUS
  <2>2. \A k \in 1..Len(p) : p[k] \in Literals \cup {Param, Wild}
    <3>1. \A k \in 1..Len(p) : p[k] \in Segs
      BY Zenon, ElementOfSeq
    <3>2. QED BY Zenon, <3>1 DEF Segs
  <2>3. QED BY Zenon, <2>1, <2>2
<1>3. p \in UNION {[1..n -> Literals \cup {Param, Wild}] : n \in 0..Depth}
  BY Zenon, <1>1, <1>2
<1>4. \A k \in DOMAIN p : p[k] = Wild => k = Len(p)
  BY Zenon, <1>1
<1>5. QED BY Zenon, <1>3, <1>4 DEF Patterns

LEMMA PathIs ==
  ASSUME NEW path \in Paths
  PROVE  /\ path \in Seq(Segments) /\ path \in Seq(Tokens)
         /\ Len(path) \in Nat /\ Len(path) <= Depth /\ DOMAIN path = 1..Len(path)
         /\ \A k \in 1..Len(path) : path[k] \in Segments
<1>1. PICK n \in 0..Depth : path \in [1..n -> Segments]
  BY DEF Paths
<1>2. n \in Nat /\ n <= Depth
  BY RouterAssumption
<1>3. path \in Seq(Segments) /\ Len(path) = n
  BY <1>1, <1>2
<1>4. path \in Seq(Tokens)
  BY <1>3 DEF Tokens
<1>5. QED BY <1>1, <1>2, <1>3, <1>4

\* q is p or below it in the trie.
Under(p, q) == Len(p) <= Len(q) /\ \A i \in 1..Len(p) : q[i] = p[i]

LEMMA PrefixIs ==
  ASSUME NEW p \in Seq(Tokens), NEW q \in Seq(Tokens)
  PROVE  IsPrefix(p, q) <=> Under(p, q)
<1>0. Len(p) \in Nat /\ Len(q) \in Nat
  OBVIOUS
<1>1. CASE Len(p) <= Len(q)
  <2>1. /\ SubSeq(p, 1, Len(p)) = [i \in 1..Len(p) |-> p[i]]
        /\ SubSeq(q, 1, Len(p)) = [i \in 1..Len(p) |-> q[i]]
    BY <1>0, <1>1
  <2>2. QED BY <1>1, <2>1 DEF IsPrefix, Under
<1>2. CASE ~(Len(p) <= Len(q))
  BY <1>2 DEF IsPrefix, Under
<1>3. QED BY <1>1, <1>2

LEMMA SameSeq ==
  ASSUME NEW p \in Seq(Tokens), NEW q \in Seq(Tokens), Len(p) = Len(q), Under(p, q)
  PROVE  p = q
  BY DEF Under

LEMMA WalkIs ==
  ASSUME NEW nodes, NEW path
  PROVE  Walk(nodes, path) =
           (CHOOSE f : f = [node \in nodes |-> WalkFrom(f, nodes, node, path)])[<<>>]
  BY DEF Walk

\* A child of a node.
LEMMA ChildIs ==
  ASSUME NEW p \in Seq(Tokens), NEW seg \in Tokens
  PROVE  /\ Append(p, seg) \in Seq(Tokens) /\ Len(Append(p, seg)) = Len(p) + 1
         /\ \A i \in 1..Len(p) : Append(p, seg)[i] = p[i]
         /\ Append(p, seg)[Len(p) + 1] = seg
  OBVIOUS

LEMMA UnderChild ==
  ASSUME NEW p \in Seq(Tokens), NEW seg \in Tokens, NEW q \in Seq(Tokens)
  PROVE  Under(Append(p, seg), q) <=>
           Under(p, q) /\ Len(p) < Len(q) /\ q[Len(p) + 1] = seg
<1>0. Len(p) \in Nat /\ Len(q) \in Nat
  OBVIOUS
<1>1. PICK c : c = Append(p, seg)
  OBVIOUS
<1>2. /\ Len(c) = Len(p) + 1 /\ c[Len(p) + 1] = seg
      /\ \A i \in 1..Len(p) : c[i] = p[i]
  BY <1>1, ChildIs
<1>3. ASSUME Under(c, q)  PROVE Under(p, q) /\ Len(p) < Len(q) /\ q[Len(p) + 1] = seg
  <2>1. Len(p) + 1 <= Len(q) /\ \A i \in 1..(Len(p) + 1) : q[i] = c[i]
    BY <1>2, <1>3 DEF Under
  <2>2. Len(p) < Len(q) /\ q[Len(p) + 1] = seg
    BY <1>0, <1>2, <2>1
  <2>3. \A i \in 1..Len(p) : q[i] = p[i]
    BY <1>0, <1>2, <2>1
  <2>4. QED BY <1>0, <2>2, <2>3 DEF Under
<1>4. ASSUME Under(p, q), Len(p) < Len(q), q[Len(p) + 1] = seg  PROVE Under(c, q)
  <2>1. Len(c) <= Len(q)
    BY <1>0, <1>2, <1>4
  <2>2. ASSUME NEW i \in 1..Len(c)  PROVE q[i] = c[i]
    <3>1. i \in 1..Len(p) \/ i = Len(p) + 1
      BY <1>0, <1>2
    <3>2. QED BY <1>2, <1>4, <3>1 DEF Under
  <2>3. QED BY <2>1, <2>2 DEF Under
<1>5. QED BY <1>1, <1>3, <1>4

\* The prefixes of a registered pattern are nodes, and every node is one or the
\* root.
LEMMA NodeIs ==
  ASSUME NEW p \in Nodes
  PROVE  p \in Patterns /\ (p = <<>> \/ \E q \in Registered : Under(p, q))
<1>1. CASE p = <<>>
  <2>1. p \in Seq(Segs) /\ Len(p) = 0
    BY <1>1
  <2>2. Len(p) <= Depth /\ \A k \in 1..Len(p) : p[k] = Wild => k = Len(p)
    BY <2>1, RouterAssumption
  <2>3. p \in Patterns
    BY <2>1, <2>2, PatternFrom
  <2>4. QED BY <1>1, <2>3
<1>2. CASE p # <<>>
  <2>1. p \in Patterns /\ \E q \in Registered : IsPrefix(p, q)
    BY <1>2 DEF Nodes
  <2>2. PICK q \in Registered : IsPrefix(p, q)
    BY <2>1
  <2>3. q \in Patterns
    BY DEF Registered
  <2>4. Under(p, q)
    BY <2>1, <2>2, <2>3, PatternIs, PrefixIs
  <2>5. QED BY <2>1, <2>4
<1>3. QED BY <1>1, <1>2

LEMMA PrefixIsNode ==
  ASSUME NEW q \in Registered, NEW p \in Seq(Tokens), Under(p, q)
  PROVE  p \in Nodes
<1>1. /\ q \in Patterns /\ q \in Seq(Tokens) /\ Len(q) <= Depth /\ Len(q) \in Nat
      /\ \A k \in 1..Len(q) : q[k] \in Segs /\ (q[k] = Wild => k = Len(q))
  BY PatternIs DEF Registered
<1>2. Len(p) \in Nat /\ Len(p) <= Len(q)
  BY DEF Under
<1>3. \A k \in 1..Len(p) : k \in 1..Len(q) /\ p[k] = q[k]
  BY <1>1, <1>2 DEF Under
<1>4. \A k \in 1..Len(p) : p[k] \in Segs /\ (p[k] = Wild => k = Len(p))
  BY <1>1, <1>2, <1>3
<1>5. p \in Seq(Segs)
  <2>1. p \in [1..Len(p) -> Segs]
    BY <1>4
  <2>2. QED BY <1>2, <2>1
<1>6. Len(p) <= Depth
  BY <1>1, <1>2, RouterAssumption
<1>7. p \in Patterns
  BY <1>4, <1>5, <1>6, PatternFrom
<1>8. IsPrefix(p, q)
  BY <1>1, PrefixIs
<1>9. QED BY <1>7, <1>8 DEF Nodes

\* A node that ends in a wildcard has been registered.
LEMMA WildRegistered ==
  ASSUME NEW p \in Seq(Tokens), Append(p, Wild) \in Nodes
  PROVE  Append(p, Wild) \in Registered
<1>1. PICK c : c = Append(p, Wild)
  OBVIOUS
<1>2. Wild \in Tokens /\ Len(p) \in Nat
  BY DEF Tokens, Segs
<1>3. c \in Seq(Tokens) /\ Len(c) = Len(p) + 1 /\ c[Len(p) + 1] = Wild
  BY <1>1, <1>2, ChildIs
<1>4. c # <<>>
  BY <1>2, <1>3
<1>5. PICK q \in Registered : Under(c, q)
  BY <1>1, <1>4, NodeIs
<1>6. /\ q \in Seq(Tokens) /\ Len(q) \in Nat
      /\ \A k \in 1..Len(q) : q[k] = Wild => k = Len(q)
  BY PatternIs DEF Registered
<1>7. Len(p) + 1 \in 1..Len(q) /\ q[Len(p) + 1] = Wild
  BY <1>2, <1>3, <1>5, <1>6 DEF Under
<1>8. Len(q) = Len(c)
  BY <1>3, <1>6, <1>7
<1>9. q = c
  BY <1>3, <1>5, <1>6, <1>8, SameSeq
<1>10. QED BY <1>1, <1>5, <1>9

-----------------------------------------------------------------------------
(* The walk is well defined: below a node the trie is finite *)

\* What the walk finds at a node depends on what it finds at its children alone.
LEMMA WalkLocal ==
  ASSUME NEW nodes \in SUBSET Patterns, NEW node \in nodes, NEW path \in Paths, NEW f, NEW g,
         \A c \in nodes : Len(c) = Len(node) + 1 => f[c] = g[c]
  PROVE  WalkFrom(f, nodes, node, path) = WalkFrom(g, nodes, node, path)
<1>1. node \in Seq(Tokens) /\ Len(node) \in Nat
  BY PatternIs
<1>2. Param \in Tokens
  BY DEF Tokens, Segs
<1>3. Len(Append(node, Param)) = Len(node) + 1
  BY <1>1, <1>2, ChildIs
<1>4. CASE Len(node) + 1 > Len(path)
  BY <1>4 DEF WalkFrom
<1>5. CASE ~(Len(node) + 1 > Len(path))
  <2>1. Len(node) + 1 \in 1..Len(path)
    BY <1>1, <1>5, PathIs
  <2>2. path[Len(node) + 1] \in Tokens
    BY <2>1, PathIs DEF Tokens
  <2>3. Len(Append(node, path[Len(node) + 1])) = Len(node) + 1
    BY <1>1, <2>2, ChildIs
  <2>4. Append(node, path[Len(node) + 1]) \in nodes =>
          f[Append(node, path[Len(node) + 1])] = g[Append(node, path[Len(node) + 1])]
    BY <2>3
  <2>5. Append(node, Param) \in nodes => f[Append(node, Param)] = g[Append(node, Param)]
    BY <1>3
  <2>6. QED BY <1>5, <2>4, <2>5 DEF WalkFrom
<1>6. QED BY <1>4, <1>5

\* The nodes at least j segments deep, and whether the walk is defined on them.
Deep(nodes, j) == {node \in nodes : Len(node) >= j}
Solves(f, nodes, j, path) ==
  f = [node \in Deep(nodes, j) |-> WalkFrom(f, nodes, node, path)]

LEMMA SolvedBelow ==
  ASSUME NEW nodes \in SUBSET Patterns, NEW path \in Paths, NEW j \in Nat, NEW f,
         Solves(f, nodes, j + 1, path)
  PROVE  \E g : Solves(g, nodes, j, path)
<1> DEFINE g == [node \in Deep(nodes, j) |->
                   IF Len(node) >= j + 1 THEN f[node] ELSE WalkFrom(f, nodes, node, path)]
<1>1. \A node \in nodes : Len(node) \in Nat
  BY PatternIs
<1>2. \A c \in Deep(nodes, j + 1) : c \in Deep(nodes, j) /\ g[c] = f[c]
  BY <1>1 DEF Deep
<1>3. \A node \in Deep(nodes, j + 1) : f[node] = WalkFrom(f, nodes, node, path)
  BY DEF Solves
<1>4. ASSUME NEW node \in Deep(nodes, j)
      PROVE  g[node] = WalkFrom(g, nodes, node, path)
  <2>1. node \in nodes /\ Len(node) \in Nat /\ Len(node) >= j
    BY <1>1 DEF Deep
  <2>2. ASSUME NEW c \in nodes, Len(c) = Len(node) + 1  PROVE f[c] = g[c]
    <3>1. c \in Deep(nodes, j + 1)
      BY <2>1, <2>2 DEF Deep
    <3>2. QED BY <1>2, <3>1
  <2> HIDE DEF g
  <2>3. WalkFrom(f, nodes, node, path) = WalkFrom(g, nodes, node, path)
    BY <2>1, <2>2, WalkLocal
  <2>4. CASE Len(node) >= j + 1
    <3>1. node \in Deep(nodes, j + 1)
      BY <2>1, <2>4 DEF Deep
    <3>2. QED BY <1>2, <1>3, <2>3, <3>1
  <2>5. CASE ~(Len(node) >= j + 1)
    <3>1. g[node] = WalkFrom(f, nodes, node, path)
      BY <2>5 DEF g
    <3>2. QED BY <2>3, <3>1
  <2>6. QED BY <2>4, <2>5
<1>5. g = [node \in Deep(nodes, j) |-> g[node]]
  OBVIOUS
<1>6. g = [node \in Deep(nodes, j) |-> WalkFrom(g, nodes, node, path)]
  <2> HIDE DEF g
  <2>1. QED BY <1>4, <1>5
<1>7. QED BY <1>6 DEF Solves

LEMMA WalkSolved ==
  ASSUME NEW nodes \in SUBSET Patterns, NEW path \in Paths
  PROVE  \E f : f = [node \in nodes |-> WalkFrom(f, nodes, node, path)]
<1> DEFINE T == {j \in Nat : \E f : Solves(f, nodes, j, path)}
<1>1. \A node \in nodes : Len(node) \in Nat /\ Len(node) <= Depth
  BY PatternIs
<1>2. Depth + 1 \in T
  <2>1. Deep(nodes, Depth + 1) = {}
    BY <1>1, RouterAssumption DEF Deep
  <2>2. PICK f : f = [node \in {} |-> 0]
    OBVIOUS
  <2>3. f = [node \in Deep(nodes, Depth + 1) |-> WalkFrom(f, nodes, node, path)]
    BY <2>1, <2>2
  <2>4. QED BY <2>3, RouterAssumption DEF Solves
<1>3. PICK j \in T : \A i \in T : j <= i
  <2>1. T \subseteq Nat /\ T # {}
    BY <1>2
  <2> HIDE DEF T
  <2>2. QED BY <2>1, LeastNat
<1>4. j = 0
  <2>1. SUFFICES ASSUME j # 0 PROVE FALSE
    OBVIOUS
  <2>2. PICK i \in Nat : j = i + 1
    <3>1. j - 1 \in Nat /\ j = (j - 1) + 1
      BY <2>1
    <3>2. QED BY <3>1
  <2>3. PICK f : Solves(f, nodes, i + 1, path)
    BY <1>3, <2>2
  <2>4. \E g : Solves(g, nodes, i, path)
    BY <2>3, SolvedBelow
  <2>5. i \in T
    BY <2>4
  <2>6. QED BY <1>3, <2>2, <2>5
<1>5. PICK f : Solves(f, nodes, 0, path)
  BY <1>3, <1>4
<1>6. Deep(nodes, 0) = nodes
  BY <1>1 DEF Deep
<1>7. QED BY <1>5, <1>6 DEF Solves

\* Hence Walk() is what a function that satisfies its recursion has at the root.
LEMMA WalkFinds ==
  ASSUME NEW nodes \in SUBSET Patterns, NEW path \in Paths
  PROVE  \E f : /\ \A node \in nodes : f[node] = WalkFrom(f, nodes, node, path)
                /\ Walk(nodes, path) = f[<<>>]
<1> DEFINE f == CHOOSE h : h = [node \in nodes |-> WalkFrom(h, nodes, node, path)]
<1>1. \E h : h = [node \in nodes |-> WalkFrom(h, nodes, node, path)]
  BY WalkSolved
<1>2. f = [node \in nodes |-> WalkFrom(f, nodes, node, path)]
  BY <1>1
<1>3. Walk(nodes, path) = f[<<>>]
  BY DEF Walk
<1> HIDE DEF f
<1>4. \A node \in nodes : f[node] = WalkFrom(f, nodes, node, path)
  BY <1>2
<1>5. QED BY <1>3, <1>4

-----------------------------------------------------------------------------
(* What the walk finds below a node *)

EndsWild(p) == Len(p) > 0 /\ p[Len(p)] = Wild

\* The segments of a path that a pattern takes one by one.
Singles(p) == IF EndsWild(p) THEN Len(p) - 1 ELSE Len(p)
Takes(seg, asked) == seg = asked \/ (seg = Param /\ asked \notin {BadEscape, TooLong})

\* p covers a path from its (j + 1)st segment on.
FitsFrom(p, path, j) ==
  /\ IF EndsWild(p) THEN Singles(p) <= Len(path) ELSE Singles(p) = Len(path)
  /\ \A k \in (j + 1)..Singles(p) : Takes(p[k], path[k])
  /\ EndsWild(p) => \A k \in (Singles(p) + 1)..Len(path) : path[k] # BadEscape

Plain(node) == \A k \in 1..Len(node) : node[k] # Wild
Below(node, path) == {q \in Registered : Under(node, q) /\ FitsFrom(q, path, Len(node))}

\* A right answer at a node: the most specific pattern below it, if there is one.
Right(w, node, path) ==
  \/ w = Miss /\ Below(node, path) = {}
  \/ w = Malformed /\ BadFrom(path, Len(node) + 1)
  \/ \E p \in Below(node, path) :
       w = Hit(p) /\ \A q \in Below(node, path) : Before(p, q)

LEMMA CoversIs ==
  ASSUME NEW p \in Patterns, NEW path \in Paths
  PROVE  Covers(p, path) <=> FitsFrom(p, path, 0)
<1>1. p \in Seq(Tokens) /\ Len(p) \in Nat /\ Len(path) \in Nat
  BY PatternIs, PathIs
<1>2. p # <<>> <=> Len(p) > 0
  BY <1>1
<1>3. Last(p) = p[Len(p)]
  BY DEF Last
<1>4. (p # <<>> /\ Last(p) = Wild) <=> EndsWild(p)
  BY <1>2, <1>3 DEF EndsWild
<1>5. CASE EndsWild(p)
  BY <1>1, <1>4, <1>5 DEF Covers, FitsFrom, Singles, Takes
<1>6. CASE ~EndsWild(p)
  BY <1>1, <1>4, <1>6 DEF Covers, FitsFrom, Singles, Takes
<1>7. QED BY <1>5, <1>6

LEMMA SinglesIs ==
  ASSUME NEW p \in Patterns
  PROVE  /\ Singles(p) \in Nat /\ Singles(p) <= Len(p) /\ Len(p) <= Singles(p) + 1
         /\ \A k \in 1..Len(p) : p[k] # Wild => k <= Singles(p)
         /\ \A k \in 1..Singles(p) : p[k] \in Segs /\ p[k] # Wild
<1>1. /\ Len(p) \in Nat
      /\ \A k \in 1..Len(p) : p[k] \in Segs /\ (p[k] = Wild => k = Len(p))
  BY PatternIs
<1>2. CASE EndsWild(p)
  BY <1>1, <1>2 DEF Singles, EndsWild
<1>3. CASE ~EndsWild(p)
  BY <1>1, <1>3 DEF Singles, EndsWild
<1>4. QED BY <1>2, <1>3

\* No pattern covers a segment that cannot be decoded.
LEMMA NoBad ==
  ASSUME NEW p \in Patterns, NEW path \in Paths, NEW j \in Nat, FitsFrom(p, path, j)
  PROVE  ~BadFrom(path, j + 1)
<1>1. SUFFICES ASSUME NEW n \in (j + 1)..Len(path), path[n] = BadEscape  PROVE FALSE
  BY DEF BadFrom
<1>2. Singles(p) \in Nat /\ Len(path) \in Nat /\ n \in Nat /\ n >= 1
  BY SinglesIs, PathIs
<1>3. CASE n <= Singles(p)
  <2>1. Takes(p[n], path[n])
    BY <1>2, <1>3 DEF FitsFrom
  <2>2. p[n] \in Segs
    BY <1>2, <1>3, SinglesIs
  <2>3. BadEscape \in Segments
    BY DEF Segments
  <2>4. QED BY <1>1, <2>1, <2>2, <2>3, Distinct DEF Takes, Segs
<1>4. CASE ~(n <= Singles(p))
  <2>1. EndsWild(p)
    BY <1>2, <1>4 DEF FitsFrom
  <2>2. QED BY <1>1, <1>2, <1>4, <2>1 DEF FitsFrom
<1>5. QED BY <1>3, <1>4

LEMMA MoreSpecific ==
  ASSUME NEW p \in Patterns, NEW q \in Patterns, NEW node \in Patterns,
         Under(node, p), Under(node, q), Len(node) < Len(p), Len(node) < Len(q),
         Rank(p[Len(node) + 1]) < Rank(q[Len(node) + 1])
  PROVE  Before(p, q)
<1> DEFINE k == Len(node) + 1
<1>1. /\ Len(p) \in Nat /\ Len(q) \in Nat /\ Len(node) \in Nat
      /\ DOMAIN p = 1..Len(p) /\ DOMAIN q = 1..Len(q)
  BY PatternIs
<1>2. k \in DOMAIN p \cap DOMAIN q
  BY <1>1
<1>3. \A n \in 1..(k - 1) : p[n] = q[n]
  BY <1>1 DEF Under
<1>4. QED BY <1>2, <1>3 DEF Before

\* From a node to its child for a segment, and back.
LEMMA FitsChild ==
  ASSUME NEW path \in Paths, NEW node \in Patterns, Len(node) < Len(path),
         NEW seg \in Tokens, seg # Wild, NEW q \in Registered
  PROVE  /\ q \in Below(Append(node, seg), path) /\ Takes(seg, path[Len(node) + 1]) =>
              /\ q \in Below(node, path)
              /\ Len(node) < Len(q) /\ q[Len(node) + 1] = seg
         /\ q \in Below(node, path) /\ Len(node) < Len(q) /\ q[Len(node) + 1] = seg =>
              q \in Below(Append(node, seg), path) /\ Append(node, seg) \in Nodes
<1>1. PICK c : c = Append(node, seg)
  OBVIOUS
<1>2. q \in Patterns /\ q \in Seq(Tokens) /\ Len(q) \in Nat
  BY PatternIs DEF Registered
<1>3. node \in Seq(Tokens) /\ Len(node) \in Nat /\ Len(path) \in Nat
  BY PatternIs, PathIs
<1>4. c \in Seq(Tokens) /\ Len(c) = Len(node) + 1
  BY <1>1, <1>3, ChildIs
<1>5. Under(c, q) <=> Under(node, q) /\ Len(node) < Len(q) /\ q[Len(node) + 1] = seg
  BY <1>1, <1>2, <1>3, UnderChild
<1>6. ASSUME Under(c, q)
      PROVE  FitsFrom(q, path, Len(node)) <=>
               FitsFrom(q, path, Len(c)) /\ Takes(seg, path[Len(node) + 1])
  <2>1. q[Len(node) + 1] = seg /\ Len(node) + 1 \in 1..Len(q)
    BY <1>2, <1>3, <1>5, <1>6
  <2>2. Singles(q) \in Nat /\ Len(node) + 1 <= Singles(q)
    BY <1>2, <2>1, SinglesIs
  <2>3. \A k : k \in (Len(node) + 1)..Singles(q) <=>
                 k = Len(node) + 1 \/ k \in (Len(c) + 1)..Singles(q)
    BY <1>3, <1>4, <2>2
  <2>4. QED BY <2>1, <2>3 DEF FitsFrom
<1>7. ASSUME Under(c, q)  PROVE c \in Nodes
  BY <1>4, <1>7, PrefixIsNode
<1>8. QED BY <1>1, <1>5, <1>6, <1>7 DEF Below

\* The wildcard child of a node covers what is left, if all of it can be decoded.
LEMMA WildFits ==
  ASSUME NEW path \in Paths, NEW node \in Patterns, Len(node) <= Len(path),
         Append(node, Wild) \in Nodes, ~BadFrom(path, Len(node) + 1)
  PROVE  /\ Append(node, Wild) \in Below(node, path)
         /\ Len(node) < Len(Append(node, Wild))
         /\ Append(node, Wild)[Len(node) + 1] = Wild
<1>1. PICK c : c = Append(node, Wild)
  OBVIOUS
<1>2. Wild \in Tokens
  BY DEF Tokens, Segs
<1>3. node \in Seq(Tokens) /\ Len(node) \in Nat /\ Len(path) \in Nat
  BY PatternIs, PathIs
<1>4. c \in Seq(Tokens) /\ Len(c) = Len(node) + 1 /\ c[Len(node) + 1] = Wild
  BY <1>1, <1>2, <1>3, ChildIs
<1>5. c \in Registered
  BY <1>1, <1>3, WildRegistered
<1>6. Under(c, c)
  BY <1>3, <1>4 DEF Under
<1>7. Under(node, c)
  BY <1>1, <1>2, <1>3, <1>4, <1>6, UnderChild
<1>8. EndsWild(c) /\ Singles(c) = Len(node)
  BY <1>3, <1>4 DEF EndsWild, Singles
<1>9. FitsFrom(c, path, Len(node))
  BY <1>3, <1>8 DEF FitsFrom, BadFrom
<1>10. QED BY <1>1, <1>3, <1>4, <1>5, <1>7, <1>9 DEF Below

\* Below a node that is no wildcard: only its wildcard child ends there.
LEMMA WildOnly ==
  ASSUME NEW node \in Patterns, NEW q \in Patterns, Under(node, q),
         Len(node) < Len(q), q[Len(node) + 1] = Wild
  PROVE  q = Append(node, Wild)
<1>1. PICK c : c = Append(node, Wild)
  OBVIOUS
<1>2. Wild \in Tokens
  BY DEF Tokens, Segs
<1>3. node \in Seq(Tokens) /\ Len(node) \in Nat /\ q \in Seq(Tokens) /\ Len(q) \in Nat
  BY PatternIs
<1>4. c \in Seq(Tokens) /\ Len(c) = Len(node) + 1
  BY <1>1, <1>2, <1>3, ChildIs
<1>5. Under(c, q)
  BY <1>1, <1>2, <1>3, UnderChild
<1>6. Len(node) + 1 = Len(q)
  BY <1>3, PatternIs
<1>7. QED BY <1>1, <1>3, <1>4, <1>5, <1>6, SameSeq

LEMMA NextSegment ==
  ASSUME NEW path \in Paths, NEW node \in Patterns, Plain(node), Len(node) < Len(path),
         NEW q \in Below(node, path)
  PROVE  /\ Len(node) < Len(q)
         /\ \/ q[Len(node) + 1] = Wild
            \/ q[Len(node) + 1] # Wild /\ Takes(q[Len(node) + 1], path[Len(node) + 1])
<1>1. q \in Patterns /\ Under(node, q) /\ FitsFrom(q, path, Len(node))
  BY DEF Below, Registered
<1>2. /\ Len(node) \in Nat /\ Len(path) \in Nat /\ Len(q) \in Nat /\ Len(node) <= Len(q)
      /\ node \in Seq(Tokens) /\ q \in Seq(Tokens)
  BY <1>1, PatternIs, PathIs DEF Under
<1>3. Len(node) < Len(q)
  <2>1. SUFFICES ASSUME Len(node) = Len(q) PROVE FALSE
    BY <1>2
  <2>2. node = q
    BY <1>1, <1>2, <2>1, SameSeq
  <2>3. ~EndsWild(q)
    BY <1>2, <2>2 DEF Plain, EndsWild
  <2>4. Singles(q) = Len(q) /\ Singles(q) = Len(path)
    BY <1>1, <2>3 DEF FitsFrom, Singles
  <2>5. QED BY <1>2, <2>1, <2>4
<1>4. ASSUME q[Len(node) + 1] # Wild
      PROVE  Takes(q[Len(node) + 1], path[Len(node) + 1])
  <2>1. Len(node) + 1 <= Singles(q) /\ Singles(q) \in Nat
    BY <1>1, <1>2, <1>3, <1>4, SinglesIs
  <2>2. Len(node) + 1 \in (Len(node) + 1)..Singles(q)
    BY <1>2, <2>1
  <2>3. QED BY <1>1, <2>2 DEF FitsFrom
<1>5. QED BY <1>3, <1>4

LEMMA AnswersDiffer ==
  ASSUME NEW p
  PROVE  Miss # Malformed /\ Hit(p) # Miss /\ Hit(p) # Malformed
<1>1. Miss.found = "nothing" /\ Malformed.found = "malformed" /\ Hit(p).found = "route"
  BY DEF Miss, Malformed, Hit
<1>2. QED BY <1>1

\* Where the path ends: the node itself, else a wildcard that takes nothing.
LEMMA RightAtEnd ==
  ASSUME NEW path \in Paths, NEW node \in Nodes, Plain(node), Len(node) = Len(path), NEW f
  PROVE  Right(WalkFrom(f, Nodes, node, path), node, path)
<1> DEFINE c == Append(node, Wild)
<1>1. /\ node \in Patterns /\ node \in Seq(Tokens) /\ Len(node) \in Nat /\ Len(path) \in Nat
  BY NodeIs, PatternIs, PathIs
<1>2. WalkFrom(f, Nodes, node, path) =
        IF Handled(node) THEN Hit(node) ELSE IF c \in Nodes THEN Hit(c) ELSE Miss
  BY <1>1 DEF WalkFrom
<1>3. ASSUME NEW q \in Below(node, path)
      PROVE  /\ q \in Registered /\ q \in Patterns /\ Under(node, q)
             /\ q = node \/ (q = c /\ c \in Nodes)
  <2>1. q \in Registered /\ q \in Patterns /\ Under(node, q) /\ FitsFrom(q, path, Len(node))
    BY DEF Below, Registered
  <2>2. Len(q) \in Nat /\ q \in Seq(Tokens) /\ Len(node) <= Len(q)
    BY <2>1, PatternIs DEF Under
  <2>3. CASE Len(q) = Len(node)
    BY <1>1, <2>1, <2>2, <2>3, SameSeq
  <2>4. CASE Len(q) # Len(node)
    <3>1. Len(node) < Len(q)
      BY <1>1, <2>2, <2>4
    <3>2. EndsWild(q) /\ Singles(q) <= Len(path)
      BY <2>1, <2>4 DEF FitsFrom, Singles
    <3>3. Len(q) = Len(node) + 1 /\ q[Len(node) + 1] = Wild
      BY <1>1, <2>2, <3>1, <3>2 DEF EndsWild, Singles
    <3>4. q = c
      BY <1>1, <2>1, <3>1, <3>3, WildOnly
    <3>5. Under(q, q)
      BY <2>2 DEF Under
    <3>6. q \in Nodes
      BY <2>1, <2>2, <3>5, PrefixIsNode
    <3>7. QED BY <2>1, <3>4, <3>6
  <2>5. QED BY <2>3, <2>4
<1>4. \A q \in Patterns : Under(node, q) => Before(node, q)
  BY <1>1, PatternIs, PrefixIs DEF Before
<1>5. CASE Handled(node)
  <2>1. node \in Registered /\ Under(node, node)
    BY <1>1, <1>5 DEF Registered, Under
  <2>2. ~EndsWild(node)
    BY <1>1 DEF EndsWild, Plain
  <2>3. FitsFrom(node, path, Len(node))
    BY <1>1, <2>2 DEF FitsFrom, Singles
  <2>4. node \in Below(node, path)
    BY <2>1, <2>3 DEF Below
  <2>5. \A q \in Below(node, path) : Before(node, q)
    BY <1>3, <1>4
  <2>6. QED BY <1>2, <1>5, <2>4, <2>5 DEF Right
<1>6. CASE ~Handled(node)
  <2>1. \A q \in Below(node, path) : q = c /\ c \in Nodes
    BY <1>3, <1>6 DEF Registered
  <2>2. CASE c \in Nodes
    <3>1. ~BadFrom(path, Len(node) + 1)
      BY <1>1 DEF BadFrom
    <3>2. c \in Below(node, path)
      BY <1>1, <2>2, <3>1, WildFits
    <3>3. \A q \in Below(node, path) : Before(c, q)
      BY <2>1 DEF Before
    <3>4. QED BY <1>2, <1>6, <2>2, <3>2, <3>3 DEF Right
  <2>3. CASE c \notin Nodes
    <3>1. Below(node, path) = {}
      BY <2>1, <2>3
    <3>2. QED BY <1>2, <1>6, <2>3, <3>1 DEF Right
  <2>4. QED BY <2>2, <2>3
<1>7. QED BY <1>5, <1>6

\* The three ways on from a node, its static, its parameter and its wildcard child:
\* what is below each, and in which order.
Ways(node, path, next, cs, cp, cw) ==
  /\ Below(cs, path) \subseteq Below(node, path)
  /\ next \notin {BadEscape, TooLong} => Below(cp, path) \subseteq Below(node, path)
  /\ cw \in Nodes /\ ~BadFrom(path, Len(node) + 1) => cw \in Below(node, path)
  /\ \A q \in Below(node, path) :
       \/ cs \in Nodes /\ q \in Below(cs, path)
       \/ cp \in Nodes /\ q \in Below(cp, path) /\ next \notin {BadEscape, TooLong}
       \/ cw \in Nodes /\ q = cw
  /\ \A p \in Below(cs, path), q \in Below(node, path) :
       q \notin Below(cs, path) => Before(p, q)
  /\ next \notin {BadEscape, TooLong} =>
       \A p \in Below(cp, path), q \in Below(node, path) : q = cw => Before(p, q)

LEMMA WaysOn ==
  ASSUME NEW path \in Paths, NEW node \in Nodes, Plain(node), Len(node) < Len(path),
         NEW next, next = path[Len(node) + 1],
         NEW cs, cs = Append(node, next), NEW cp, cp = Append(node, Param),
         NEW cw, cw = Append(node, Wild)
  PROVE  Ways(node, path, next, cs, cp, cw)
<1> DEFINE k == Len(node) + 1
<1>1. /\ node \in Patterns /\ node \in Seq(Tokens) /\ Len(node) \in Nat /\ Len(path) \in Nat
  BY NodeIs, PatternIs, PathIs
<1>2. next \in Segments /\ next \in Tokens /\ next # Wild /\ next # Param
  BY <1>1, PathIs, Distinct DEF Tokens
<1>3. Param \in Tokens /\ Wild \in Tokens /\ Param # Wild
  BY Distinct DEF Tokens, Segs
<1>4. Takes(next, next)
  BY DEF Takes
<1>5. next \notin {BadEscape, TooLong} => Takes(Param, next)
  BY DEF Takes
<1>6. \A q \in Below(node, path) : q \in Registered /\ q \in Patterns /\ Under(node, q)
  BY DEF Below, Registered
<1>7. \A p \in Below(cs, path) :
        p \in Below(node, path) /\ Len(node) < Len(p) /\ p[k] = next
  <2>1. TAKE p \in Below(cs, path)
  <2>2. p \in Registered
    BY DEF Below
  <2>3. QED BY <1>1, <1>2, <1>4, <2>2, FitsChild
<1>8. ASSUME next \notin {BadEscape, TooLong}
      PROVE  \A p \in Below(cp, path) :
               p \in Below(node, path) /\ Len(node) < Len(p) /\ p[k] = Param
  <2>1. TAKE p \in Below(cp, path)
  <2>2. p \in Registered
    BY DEF Below
  <2>3. Takes(Param, path[Len(node) + 1])
    BY <1>5, <1>8
  <2>4. QED BY <1>1, <1>3, <2>2, <2>3, FitsChild
<1>9. cw \in Nodes /\ ~BadFrom(path, Len(node) + 1) => cw \in Below(node, path)
  BY <1>1, WildFits
<1>10. ASSUME NEW q \in Below(node, path)
       PROVE  /\ Len(node) < Len(q)
              /\ \/ cs \in Nodes /\ q \in Below(cs, path)
                 \/ /\ cp \in Nodes /\ q \in Below(cp, path)
                    /\ next \notin {BadEscape, TooLong} /\ q[k] = Param
                 \/ cw \in Nodes /\ q = cw /\ q[k] = Wild
  <2>1. Len(node) < Len(q)
    BY <1>1, NextSegment
  <2>2. CASE q[k] = Wild
    <3>1. q = cw
      BY <1>1, <1>6, <2>1, <2>2, WildOnly
    <3>2. q \in Seq(Tokens) /\ Under(q, q)
      BY <1>6, PatternIs DEF Under
    <3>3. q \in Nodes
      BY <1>6, <3>2, PrefixIsNode
    <3>4. QED BY <2>1, <2>2, <3>1, <3>3
  <2>3. CASE q[k] # Wild
    <3>1. Takes(q[k], next)
      BY <1>1, <2>3, NextSegment
    <3>2. CASE q[k] = next
      BY <1>1, <1>2, <1>6, <2>1, <3>2, FitsChild
    <3>3. CASE q[k] = Param /\ next \notin {BadEscape, TooLong}
      BY <1>1, <1>3, <1>6, <2>1, <3>3, FitsChild
    <3>4. QED BY <3>1, <3>2, <3>3 DEF Takes
  <2>4. QED BY <2>2, <2>3
<1>11. Rank(next) = 0 /\ Rank(Param) = 1 /\ Rank(Wild) = 2
  BY <1>2, <1>3 DEF Rank
<1>12. ASSUME NEW p \in Below(node, path), NEW q \in Below(node, path),
              Len(node) < Len(p), Len(node) < Len(q), Rank(p[k]) < Rank(q[k])
       PROVE  Before(p, q)
  BY <1>1, <1>6, <1>12, MoreSpecific
<1>13. ASSUME NEW p \in Below(cs, path), NEW q \in Below(node, path), q \notin Below(cs, path)
       PROVE  Before(p, q)
  <2>1. p \in Below(node, path) /\ Len(node) < Len(p) /\ Rank(p[k]) = 0
    BY <1>7, <1>11
  <2>2. Len(node) < Len(q) /\ (q[k] = Param \/ q[k] = Wild)
    BY <1>10, <1>13
  <2>3. Rank(p[k]) < Rank(q[k])
    BY <1>11, <2>1, <2>2
  <2>4. QED BY <1>12, <2>1, <2>2, <2>3
<1>14. ASSUME next \notin {BadEscape, TooLong},
              NEW p \in Below(cp, path), NEW q \in Below(node, path), q = cw
       PROVE  Before(p, q)
  <2>1. p \in Below(node, path) /\ Len(node) < Len(p) /\ Rank(p[k]) = 1
    BY <1>8, <1>11, <1>14
  <2>2. cw[k] = Wild
    BY <1>1, <1>3, ChildIs
  <2>3. Len(node) < Len(q)
    BY <1>10
  <2>4. Rank(p[k]) < Rank(q[k])
    BY <1>11, <1>14, <2>1, <2>2
  <2>5. QED BY <1>12, <2>1, <2>3, <2>4
<1> HIDE DEF k
<1>15. QED BY <1>7, <1>8, <1>9, <1>10, <1>13, <1>14 DEF Ways

\* A right answer below is right here, if nothing else goes before it.
LEMMA RightOnward ==
  ASSUME NEW path \in Paths, NEW node \in Nodes, Plain(node), Len(node) < Len(path), NEW f,
         \A c \in Nodes : Plain(c) /\ Len(c) = Len(node) + 1 => Right(f[c], c, path)
  PROVE  Right(WalkFrom(f, Nodes, node, path), node, path)
<1>1. PICK next : next = path[Len(node) + 1]
  OBVIOUS
<1>2. PICK cs : cs = Append(node, next)
  OBVIOUS
<1>3. PICK cp : cp = Append(node, Param)
  OBVIOUS
<1>4. PICK cw : cw = Append(node, Wild)
  OBVIOUS
<1>5. PICK viaStatic : viaStatic = IF cs \in Nodes THEN f[cs] ELSE Miss
  OBVIOUS
<1>6. PICK viaParam : viaParam = IF cp \in Nodes /\ next # TooLong THEN f[cp] ELSE Miss
  OBVIOUS
<1>7. PICK wild : wild = IF cw \in Nodes THEN Hit(cw) ELSE Miss
  OBVIOUS
<1>8. PICK w : w = WalkFrom(f, Nodes, node, path)
  OBVIOUS
<1>9. node \in Patterns /\ node \in Seq(Tokens) /\ Len(node) \in Nat /\ Len(path) \in Nat
  BY NodeIs, PatternIs, PathIs
<1>10. w = IF viaStatic # Miss THEN viaStatic
           ELSE IF cp \in Nodes /\ next = BadEscape THEN Malformed
           ELSE IF viaParam # Miss THEN viaParam
           ELSE IF wild # Miss /\ BadFrom(path, Len(node) + 1) THEN Malformed ELSE wild
  <2>1. ~(Len(node) + 1 > Len(path))
    BY <1>9
  <2>2. QED BY <1>1, <1>2, <1>3, <1>4, <1>5, <1>6, <1>7, <1>8, <2>1 DEF WalkFrom
<1>11. next \in Segments /\ next \in Tokens /\ next # Wild /\ Param \in Tokens /\ Param # Wild
  <2>1. next \in Segments
    BY <1>1, <1>9, PathIs
  <2>2. QED BY <2>1, Distinct DEF Tokens, Segs
<1>12. ASSUME NEW seg \in Tokens, seg # Wild
       PROVE  Len(Append(node, seg)) = Len(node) + 1 /\ Plain(Append(node, seg))
  <2>1. PICK c : c = Append(node, seg)
    OBVIOUS
  <2>2. /\ Len(c) = Len(node) + 1 /\ c[Len(node) + 1] = seg
        /\ \A i \in 1..Len(node) : c[i] = node[i]
    BY <1>9, <2>1, ChildIs
  <2>3. \A i \in 1..Len(c) : i \in 1..Len(node) \/ i = Len(node) + 1
    BY <1>9, <2>2
  <2>4. Plain(c)
    BY <1>12, <2>2, <2>3 DEF Plain
  <2>5. QED BY <2>1, <2>2, <2>4
<1>13. Len(cs) = Len(node) + 1 /\ Plain(cs) /\ Len(cp) = Len(node) + 1 /\ Plain(cp)
  BY <1>2, <1>3, <1>11, <1>12
<1>14. /\ cs \in Nodes => Right(f[cs], cs, path)
       /\ cp \in Nodes => Right(f[cp], cp, path)
  BY <1>13
<1>14a. Ways(node, path, next, cs, cp, cw)
  BY <1>1, <1>2, <1>3, <1>4, WaysOn
<1>15. /\ Below(cs, path) \subseteq Below(node, path)
       /\ next \notin {BadEscape, TooLong} => Below(cp, path) \subseteq Below(node, path)
       /\ cw \in Nodes /\ ~BadFrom(path, Len(node) + 1) => cw \in Below(node, path)
       /\ \A q \in Below(node, path) :
            \/ cs \in Nodes /\ q \in Below(cs, path)
            \/ cp \in Nodes /\ q \in Below(cp, path) /\ next \notin {BadEscape, TooLong}
            \/ cw \in Nodes /\ q = cw
       /\ \A p \in Below(cs, path), q \in Below(node, path) :
            q \notin Below(cs, path) => Before(p, q)
       /\ next \notin {BadEscape, TooLong} =>
            \A p \in Below(cp, path), q \in Below(node, path) : q = cw => Before(p, q)
  BY <1>14a DEF Ways
<1>16. ASSUME NEW c, Len(c) = Len(node) + 1, BadFrom(path, Len(c) + 1)
       PROVE  BadFrom(path, Len(node) + 1)
  BY <1>9, <1>16 DEF BadFrom
<1>17. next = BadEscape => BadFrom(path, Len(node) + 1)
  <2>1. Len(node) + 1 \in (Len(node) + 1)..Len(path)
    BY <1>9
  <2>2. QED BY <1>1, <2>1 DEF BadFrom
<1>18. CASE viaStatic # Miss
  <2>1. w = f[cs] /\ f[cs] # Miss /\ Right(f[cs], cs, path)
    BY <1>5, <1>10, <1>14, <1>18
  <2>2. CASE f[cs] = Malformed /\ BadFrom(path, Len(cs) + 1)
    <3>1. BadFrom(path, Len(node) + 1)
      BY <1>13, <1>16, <2>2
    <3>2. QED BY <1>8, <2>1, <2>2, <3>1 DEF Right
  <2>3. CASE \E p \in Below(cs, path) :
               f[cs] = Hit(p) /\ \A q \in Below(cs, path) : Before(p, q)
    <3>1. PICK p \in Below(cs, path) :
            f[cs] = Hit(p) /\ \A q \in Below(cs, path) : Before(p, q)
      BY <2>3
    <3>2. \A q \in Below(node, path) : Before(p, q)
      BY <1>15, <3>1
    <3>3. p \in Below(node, path)
      BY <1>15
    <3>4. QED BY <1>8, <2>1, <3>1, <3>2, <3>3 DEF Right
  <2>4. QED BY <2>1, <2>2, <2>3 DEF Right
<1>19. CASE viaStatic = Miss
  <2>1. ~(cs \in Nodes) \/ Below(cs, path) = {}
    BY <1>5, <1>14, <1>19, AnswersDiffer DEF Right
  <2>2. \A q \in Below(node, path) :
          \/ cp \in Nodes /\ q \in Below(cp, path) /\ next \notin {BadEscape, TooLong}
          \/ cw \in Nodes /\ q = cw
    BY <1>15, <2>1
  <2>3. CASE cp \in Nodes /\ next = BadEscape
    BY <1>8, <1>10, <1>17, <1>19, <2>3 DEF Right
  <2>4. CASE ~(cp \in Nodes /\ next = BadEscape) /\ viaParam # Miss
    <3>1. w = f[cp] /\ f[cp] # Miss /\ Right(f[cp], cp, path) /\ next \notin {BadEscape, TooLong}
      BY <1>6, <1>10, <1>14, <1>19, <2>4
    <3>2. CASE f[cp] = Malformed /\ BadFrom(path, Len(cp) + 1)
      <4>1. BadFrom(path, Len(node) + 1)
        BY <1>13, <1>16, <3>2
      <4>2. QED BY <1>8, <3>1, <3>2, <4>1 DEF Right
    <3>3. CASE \E p \in Below(cp, path) :
                 f[cp] = Hit(p) /\ \A q \in Below(cp, path) : Before(p, q)
      <4>1. PICK p \in Below(cp, path) :
              f[cp] = Hit(p) /\ \A q \in Below(cp, path) : Before(p, q)
        BY <3>3
      <4>2. \A q \in Below(node, path) : Before(p, q)
        BY <1>15, <2>2, <3>1, <4>1
      <4>3. p \in Below(node, path)
        BY <1>15, <3>1
      <4>4. QED BY <1>8, <3>1, <4>1, <4>2, <4>3 DEF Right
    <3>4. QED BY <3>1, <3>2, <3>3 DEF Right
  <2>5. CASE ~(cp \in Nodes /\ next = BadEscape) /\ viaParam = Miss
    <3>1. cp \in Nodes /\ next \notin {BadEscape, TooLong} => Below(cp, path) = {}
      BY <1>6, <1>14, <2>5, AnswersDiffer DEF Right
    <3>2. \A q \in Below(node, path) : cw \in Nodes /\ q = cw
      BY <2>2, <3>1
    <3>3. w = IF wild # Miss /\ BadFrom(path, Len(node) + 1) THEN Malformed ELSE wild
      BY <1>10, <1>19, <2>5
    <3>4. CASE cw \notin Nodes
      <4>1. w = Miss
        BY <1>7, <3>3, <3>4
      <4>2. Below(node, path) = {}
        BY <3>2, <3>4
      <4>3. QED BY <1>8, <4>1, <4>2 DEF Right
    <3>5. CASE cw \in Nodes /\ BadFrom(path, Len(node) + 1)
      <4>1. w = Malformed
        BY <1>7, <3>3, <3>5, AnswersDiffer
      <4>2. QED BY <1>8, <3>5, <4>1 DEF Right
    <3>6. CASE cw \in Nodes /\ ~BadFrom(path, Len(node) + 1)
      <4>1. w = Hit(cw)
        BY <1>7, <3>3, <3>6
      <4>2. cw \in Below(node, path)
        BY <1>15, <3>6
      <4>3. \A q \in Below(node, path) : Before(cw, q)
        BY <3>2 DEF Before
      <4>4. QED BY <1>8, <4>1, <4>2, <4>3 DEF Right
    <3>7. QED BY <3>4, <3>5, <3>6
  <2>6. QED BY <2>3, <2>4, <2>5
<1>20. QED BY <1>18, <1>19

\* The walk from the root is right: by induction, from the deepest nodes up.
LEMMA WalkRight ==
  ASSUME NEW path \in Paths
  PROVE  Right(Walk(Nodes, path), <<>>, path)
<1>1. Nodes \in SUBSET Patterns
  BY NodeIs
<1>2. PICK f : /\ \A node \in Nodes : f[node] = WalkFrom(f, Nodes, node, path)
               /\ Walk(Nodes, path) = f[<<>>]
  BY <1>1, WalkFinds
<1>3. \A node \in Nodes : Len(node) \in Nat /\ Len(node) <= Depth
  BY <1>1, PatternIs
<1>4. Len(path) \in Nat /\ Depth \in Nat
  BY PathIs, RouterAssumption
<1> DEFINE Wrong(node) == /\ Plain(node) /\ Len(node) <= Len(path)
                          /\ ~Right(f[node], node, path)
           T == {j \in Nat : \E node \in Nodes : Wrong(node) /\ Depth - Len(node) = j}
<1>5. T = {}
  <2>1. SUFFICES ASSUME T # {} PROVE FALSE
    OBVIOUS
  <2>2. PICK j \in T : \A i \in T : j <= i
    <3>1. T \subseteq Nat
      OBVIOUS
    <3> HIDE DEF T
    <3>2. QED BY <2>1, <3>1, LeastNat
  <2>3. PICK node \in Nodes : Wrong(node) /\ Depth - Len(node) = j
    OBVIOUS
  <2>4. ASSUME NEW c \in Nodes, Plain(c), Len(c) = Len(node) + 1, Len(node) < Len(path)
        PROVE  Right(f[c], c, path)
    <3>1. SUFFICES ASSUME ~Right(f[c], c, path) PROVE FALSE
      OBVIOUS
    <3>2. Wrong(c)
      BY <1>3, <1>4, <2>4, <3>1
    <3>3. Depth - Len(c) \in Nat
      BY <1>3, <1>4
    <3>4. Depth - Len(c) \in T
      BY <3>2, <3>3
    <3>5. j <= Depth - Len(c)
      BY <2>2, <3>4
    <3>6. QED BY <1>3, <1>4, <2>3, <2>4, <3>5
  <2>5. f[node] = WalkFrom(f, Nodes, node, path)
    BY <1>2
  <2>6. CASE Len(node) = Len(path)
    <3>1. Right(WalkFrom(f, Nodes, node, path), node, path)
      BY <2>3, <2>6, RightAtEnd
    <3>2. QED BY <2>3, <2>5, <3>1
  <2>7. CASE Len(node) < Len(path)
    <3>1. Plain(node)
      BY <2>3
    <3>2. \A c \in Nodes : Plain(c) /\ Len(c) = Len(node) + 1 => Right(f[c], c, path)
      BY <2>4, <2>7
    <3>3. Right(WalkFrom(f, Nodes, node, path), node, path)
      BY <2>7, <3>1, <3>2, RightOnward
    <3>4. QED BY <2>3, <2>5, <3>3
  <2>8. QED BY <1>3, <1>4, <2>3, <2>6, <2>7
<1>6. <<>> \in Nodes /\ Len(<<>>) = 0
  BY DEF Nodes
<1>7. Plain(<<>>)
  BY <1>6 DEF Plain
<1>8. ~Wrong(<<>>)
  <2>1. SUFFICES ASSUME Wrong(<<>>) PROVE FALSE
    OBVIOUS
  <2>2. Depth \in T
    <3> HIDE DEF Wrong
    <3>1. Depth - Len(<<>>) = Depth
      BY <1>4, <1>6
    <3>2. QED BY <1>4, <1>6, <2>1, <3>1
  <2>3. QED BY <1>5, <2>2
<1>9. QED BY <1>2, <1>4, <1>6, <1>7, <1>8

\* The same in the words of RouteAgrees.
LEMMA WalkAnswers ==
  ASSUME NEW path \in Paths, NEW w, w = Walk(Nodes, path),
         NEW covering, covering = {p \in Registered : Covers(p, path)}
  PROVE  \/ w = Miss /\ covering = {}
         \/ /\ w = Malformed /\ covering = {}
            /\ \E k \in DOMAIN path : path[k] = BadEscape
         \/ \E p \in covering : w = Hit(p) /\ \A q \in covering : Before(p, q)
<1>1. Len(<<>>) = 0
  OBVIOUS
<1>2. \A q \in Registered : q \in Patterns /\ Len(q) \in Nat /\ Under(<<>>, q)
  BY <1>1, PatternIs DEF Registered, Under
<1>3. Below(<<>>, path) = covering
  <2>1. \A q \in Registered : Covers(q, path) <=> FitsFrom(q, path, 0)
    BY <1>2, CoversIs
  <2>2. QED BY <1>1, <1>2, <2>1 DEF Below
<1>4. BadFrom(path, 1) =>
        covering = {} /\ \E k \in DOMAIN path : path[k] = BadEscape
  <2>1. SUFFICES ASSUME BadFrom(path, 1)
                 PROVE  covering = {} /\ \E k \in DOMAIN path : path[k] = BadEscape
    OBVIOUS
  <2>2. \E k \in DOMAIN path : path[k] = BadEscape
    BY <2>1, PathIs DEF BadFrom
  <2>3. ASSUME NEW q \in covering  PROVE FALSE
    <3>1. q \in Patterns /\ FitsFrom(q, path, 0)
      BY <1>1, <1>3 DEF Below, Registered
    <3>2. ~BadFrom(path, 0 + 1)
      BY <3>1, NoBad
    <3>3. QED BY <2>1, <3>2
  <2>4. QED BY <2>2, <2>3
<1>5. Right(w, <<>>, path)
  BY WalkRight
<1>6. QED BY <1>1, <1>3, <1>4, <1>5 DEF Right

-----------------------------------------------------------------------------
(* The tables and the cache of pipelines *)

Counts == [Methods -> Nat]
TablesOK ==
  /\ table \in [Patterns -> Counts] /\ fast \in [Patterns -> Counts]
  /\ \A p \in Patterns : \A m \in Methods : fast[p][m] <= table[p][m]

LEMMA ServedIs ==
  ASSUME NEW h \in Counts, NEW m \in Methods
  PROVE  /\ Serving(h, m) \in Methods /\ Served(h, m) = h[Serving(h, m)]
         /\ Serving(h, m) = m \/ (m = "HEAD" /\ Serving(h, m) = "GET")
         /\ Served(h, m) \in Nat
         /\ Served(h, m) > 0 <=> h[m] > 0 \/ (m = "HEAD" /\ h["GET"] > 0)
<1>1. \A n \in Methods : h[n] \in Nat
  BY DEF Counts
<1>2. "GET" \in Methods
  BY DEF Methods
<1>3. QED BY <1>1, <1>2 DEF Served, Serving

LEMMA OfferedHandled ==
  ASSUME TablesOK, NEW p \in Patterns, NEW m \in Methods
  PROVE  /\ Served(table[p], m) > 0 => p \in Registered
         /\ Served(fast[p], m) > 0 => Served(table[p], m) > 0
<1>1. table[p] \in Counts /\ fast[p] \in Counts
  BY DEF TablesOK
<1>2. "GET" \in Methods
  BY DEF Methods
<1>3. \A n \in Methods : table[p][n] \in Nat /\ fast[p][n] \in Nat /\ fast[p][n] <= table[p][n]
  BY <1>1 DEF TablesOK, Counts
<1>4. \A n \in Methods : fast[p][n] > 0 => table[p][n] > 0
  BY <1>3
<1>5. Served(table[p], m) > 0 <=> table[p][m] > 0 \/ (m = "HEAD" /\ table[p]["GET"] > 0)
  BY <1>1, ServedIs
<1>6. Served(fast[p], m) > 0 <=> fast[p][m] > 0 \/ (m = "HEAD" /\ fast[p]["GET"] > 0)
  BY <1>1, ServedIs
<1>7. QED BY <1>2, <1>4, <1>5, <1>6 DEF Registered, Handled

\* What match() answers.
LEMMA MatchIs ==
  ASSUME TablesOK, NEW path \in Paths, NEW m \in Methods
  PROVE  \/ Match(m, path) = Miss
         \/ Match(m, path) = Malformed
         \/ \E p \in Patterns : Match(m, path) = Hit(p) /\ Served(table[p], m) > 0
<1>1. CASE Shortcut(m, path)
  <2>1. path \in Patterns /\ Served(fast[path], m) > 0 /\ Match(m, path) = Hit(path)
    BY <1>1 DEF Shortcut, Match
  <2>2. QED BY <2>1, OfferedHandled
<1>2. CASE ~Shortcut(m, path)
  <2>1. PICK w : w = Walk(Nodes, path)
    OBVIOUS
  <2>2. Match(m, path) = IF w.found = "route" /\ Served(table[w.node], m) = 0 THEN Miss ELSE w
    BY <1>2, <2>1 DEF Match, MatchTrie
  <2>3. PICK covering : covering = {p \in Registered : Covers(p, path)}
    OBVIOUS
  <2>4. \/ w = Miss \/ w = Malformed
        \/ \E p \in covering : w = Hit(p) /\ \A q \in covering : Before(p, q)
    BY <2>1, <2>3, WalkAnswers
  <2>5. CASE w = Miss \/ w = Malformed
    BY <2>2, <2>5
  <2>6. ASSUME NEW p \in covering, w = Hit(p)
        PROVE  \/ Match(m, path) = Miss
               \/ Match(m, path) = Hit(p) /\ p \in Patterns /\ Served(table[p], m) > 0
    <3>1. p \in Patterns
      BY <2>3 DEF Registered
    <3>2. w.node = p /\ w.found = "route"
      BY <2>6 DEF Hit
    <3>3. Served(table[p], m) \in Nat
      BY <3>1, ServedIs DEF TablesOK
    <3>4. QED BY <2>2, <2>6, <3>1, <3>2, <3>3
  <2>7. QED BY <2>4, <2>5, <2>6
<1>3. QED BY <1>1, <1>2

\* A static pattern that covers a path as it is goes before all others.
LEMMA StaticFirst ==
  ASSUME NEW path \in Paths, path \in Patterns, NEW p \in Patterns,
         Covers(p, path), Before(p, path)
  PROVE  p = path
<1>1. /\ p \in Seq(Tokens) /\ path \in Seq(Tokens) /\ Len(p) \in Nat /\ Len(path) \in Nat
      /\ DOMAIN p = 1..Len(p) /\ DOMAIN path = 1..Len(path)
      /\ \A k \in 1..Len(path) : path[k] # Wild /\ path[k] # Param
  BY PatternIs, PathIs, Distinct
<1>2. CASE IsPrefix(p, path)
  <2>1. Under(p, path)
    BY <1>1, <1>2, PrefixIs
  <2>2. ~EndsWild(p)
    BY <1>1, <2>1 DEF EndsWild, Under
  <2>3. FitsFrom(p, path, 0)
    BY CoversIs
  <2>4. Len(p) = Len(path)
    BY <2>2, <2>3 DEF FitsFrom, Singles
  <2>5. QED BY <1>1, <2>1, <2>4, SameSeq
<1>3. CASE \E k \in DOMAIN p \cap DOMAIN path :
             (\A n \in 1..(k - 1) : p[n] = path[n]) /\ Rank(p[k]) < Rank(path[k])
  <2>1. PICK k \in 1..Len(path) : Rank(p[k]) < Rank(path[k])
    BY <1>1, <1>3
  <2>2. Rank(path[k]) = 0
    BY <1>1 DEF Rank
  <2>3. Rank(p[k]) \in {0, 1, 2}
    BY DEF Rank
  <2>4. QED BY <2>1, <2>2, <2>3
<1>4. QED BY <1>2, <1>3 DEF Before

LEMMA StaticCovers ==
  ASSUME NEW path \in Paths, path \in Patterns
  PROVE  Covers(path, path)
<1>1. /\ path \in Seq(Tokens) /\ Len(path) \in Nat
      /\ \A k \in 1..Len(path) : path[k] # Wild
  BY PatternIs, PathIs, Distinct
<1>2. ~EndsWild(path)
  BY <1>1 DEF EndsWild
<1>3. FitsFrom(path, path, 0)
  BY <1>1, <1>2 DEF FitsFrom, Singles, Takes
<1>4. QED BY <1>3, CoversIs

LEMMA RoutesAgree == TablesOK => RouteAgrees
<1>1. SUFFICES ASSUME TablesOK, NEW path \in Paths,
                      NEW covering, covering = {p \in Registered : Covers(p, path)},
                      NEW w, w = Walk(Nodes, path)
               PROVE  /\ (w.found = "route") <=> covering # {}
                      /\ w.found = "route" =>
                           w.node \in covering /\ \A q \in covering : Before(w.node, q)
                      /\ w = Malformed => \E k \in DOMAIN path : path[k] = BadEscape
                      /\ \A m \in Methods : Shortcut(m, path) => MatchTrie(m, path) = Hit(path)
  BY DEF RouteAgrees
<1>2. \/ w = Miss /\ covering = {}
      \/ /\ w = Malformed /\ covering = {}
         /\ \E k \in DOMAIN path : path[k] = BadEscape
      \/ \E p \in covering : w = Hit(p) /\ \A q \in covering : Before(p, q)
  BY <1>1, WalkAnswers
<1>3. Miss.found # "route" /\ Malformed.found # "route"
  BY DEF Miss, Malformed
<1>4. \A p : Hit(p).found = "route" /\ Hit(p).node = p /\ Hit(p) # Malformed
  BY AnswersDiffer DEF Hit
<1>5. /\ (w.found = "route") <=> covering # {}
      /\ w.found = "route" => w.node \in covering /\ \A q \in covering : Before(w.node, q)
      /\ w = Malformed => \E k \in DOMAIN path : path[k] = BadEscape
  <2>1. CASE w = Miss /\ covering = {}
    BY <1>3, <2>1, AnswersDiffer
  <2>2. CASE /\ w = Malformed /\ covering = {}
             /\ \E k \in DOMAIN path : path[k] = BadEscape
    BY <1>3, <2>2
  <2>3. ASSUME NEW p \in covering, w = Hit(p), \A q \in covering : Before(p, q)
        PROVE  /\ w.found = "route" /\ covering # {} /\ w # Malformed
               /\ w.node \in covering /\ \A q \in covering : Before(w.node, q)
    <3>1. w.found = "route" /\ w.node = p /\ w # Malformed
      BY <1>4, <2>3
    <3>2. QED BY <2>3, <3>1
  <2>4. QED BY <1>2, <2>1, <2>2, <2>3
<1>6. ASSUME NEW m \in Methods, Shortcut(m, path)  PROVE MatchTrie(m, path) = Hit(path)
  <2>1. path \in Patterns /\ Served(fast[path], m) > 0
    BY <1>6 DEF Shortcut
  <2>2. Served(table[path], m) > 0 /\ path \in Registered
    BY <1>1, <2>1, OfferedHandled
  <2>3. path \in covering
    BY <1>1, <2>1, <2>2, StaticCovers
  <2>4. PICK p \in covering : w = Hit(p) /\ \A q \in covering : Before(p, q)
    BY <1>2, <2>3
  <2>5. p = path
    BY <1>1, <2>1, <2>3, <2>4, StaticFirst DEF Registered
  <2>6. Served(table[path], m) \in Nat
    BY <1>1, <2>1, ServedIs DEF TablesOK
  <2>7. w.node = path
    BY <1>4, <2>4, <2>5
  <2>8. QED BY <1>1, <2>2, <2>4, <2>5, <2>6, <2>7 DEF MatchTrie
<1>7. QED BY <1>5, <1>6

LEMMA AllowsHonest == TablesOK => AllowHonest
<1>1. SUFFICES ASSUME TablesOK, NEW path \in Paths, NEW allowed, allowed = Allowed(path),
                      NEW m \in Methods, Match(m, path) = Miss
               PROVE  /\ m \notin allowed
                      /\ m = "HEAD" => "GET" \notin allowed
                      /\ \A n \in allowed : Match(n, path).found = "route"
  BY DEF AllowHonest
<1>2. PICK w : w = Walk(Nodes, path)
  OBVIOUS
<1>3. allowed = IF w.found = "route" THEN {n \in Methods : table[w.node][n] > 0} ELSE {}
  BY <1>1, <1>2 DEF Allowed
<1>4. \A p : Hit(p).found = "route" /\ Hit(p).node = p /\ Hit(p) # Miss
  BY AnswersDiffer DEF Hit
<1>5. CASE w.found # "route"
  BY <1>3, <1>5
<1>6. CASE w.found = "route"
  <2>1. PICK covering : covering = {p \in Registered : Covers(p, path)}
    OBVIOUS
  <2>2. PICK p \in covering : w = Hit(p)
    <3>1. Miss.found # "route" /\ Malformed.found # "route"
      BY DEF Miss, Malformed
    <3>2. QED BY <1>2, <1>6, <2>1, <3>1, WalkAnswers
  <2>3. p \in Patterns /\ w.node = p /\ w # Miss
    BY <1>4, <2>1, <2>2 DEF Registered
  <2>4. \A n \in Methods : table[p][n] \in Nat
    BY <1>1, <2>3 DEF TablesOK, Counts
  <2>5. Served(table[p], m) = 0
    <3>1. ~Shortcut(m, path)
      BY <1>1, <1>4 DEF Match
    <3>2. MatchTrie(m, path) = Miss
      BY <1>1, <3>1 DEF Match
    <3>3. QED BY <1>2, <1>6, <2>3, <3>2 DEF MatchTrie
  <2>6. m \notin allowed /\ (m = "HEAD" => "GET" \notin allowed)
    <3>1. table[p] \in Counts
      BY <1>1, <2>3 DEF TablesOK
    <3>2. ~(table[p][m] > 0) /\ (m = "HEAD" => ~(table[p]["GET"] > 0))
      BY <2>5, <3>1, ServedIs
    <3>3. QED BY <1>3, <1>6, <2>3, <3>2
  <2>7. ASSUME NEW n \in allowed  PROVE Match(n, path).found = "route"
    <3>1. n \in Methods /\ table[p][n] > 0
      BY <1>3, <1>6, <2>3
    <3>2. Served(table[p], n) # 0
      <4>1. table[p] \in Counts
        BY <1>1, <2>3 DEF TablesOK
      <4>2. Served(table[p], n) > 0
        BY <3>1, <4>1, ServedIs
      <4>3. QED BY <4>2
    <3>3. MatchTrie(n, path) = w
      BY <1>2, <2>3, <3>2 DEF MatchTrie
    <3>4. QED BY <1>4, <1>6, <3>3 DEF Match
  <2>8. QED BY <2>6, <2>7
<1>7. QED BY <1>5, <1>6

RouteKeys == [kind : {"route"}, method : Methods, node : Patterns]
PipeKeys == RouteKeys \cup [kind : {"405"}, allow : SUBSET Methods] \cup [kind : {"404"}]
Pipes == [key : PipeKeys, version : Nat, middleware : Nat,
          from : Methods \cup {"none"}, last : Nat]

\* A cached pipeline is of this version and runs all middlewares and, for a route,
\* what was registered for it first.
Fresh(e) ==
  /\ e.version = version /\ e.middleware = middleware
  /\ e.key.kind = "route" =>
       /\ e.from \in Methods
       /\ e.from = e.key.method \/ (e.key.method = "HEAD" /\ e.from = "GET")
       /\ e.last \in 1..table[e.key.node][e.from]

RouterInv ==
  /\ TablesOK
  /\ middleware \in 0..MaxUses /\ fallback \in 0..MaxUses /\ version \in Nat
  /\ pipelines \in Seq(Pipes) /\ Len(pipelines) <= CacheCap
  /\ \A n \in 1..Len(pipelines) : Fresh(pipelines[n])
  /\ \A i, j \in 1..Len(pipelines) : i # j => pipelines[i].key # pipelines[j].key

LEMMA RouterInvInit == RouterInit => RouterInv
<1> SUFFICES ASSUME RouterInit PROVE RouterInv
  OBVIOUS
<1>1. TablesOK
  BY DEF RouterInit, TablesOK, Counts
<1>2. middleware \in 0..MaxUses /\ fallback \in 0..MaxUses /\ version \in Nat
  BY RouterAssumption DEF RouterInit
<1>3. pipelines \in Seq(Pipes) /\ Len(pipelines) = 0
  BY DEF RouterInit
<1>4. QED BY <1>1, <1>2, <1>3, RouterAssumption DEF RouterInv

LEMMA AddRouteKeeps ==
  ASSUME RouterInv, NEW p \in Patterns, NEW m \in Methods, AddRoute(p, m)
  PROVE  RouterInv'
<1>1. /\ table' = [table EXCEPT ![p][m] = @ + 1]
      /\ fast' = IF IsStatic(p) THEN [fast EXCEPT ![p][m] = table[p][m] + 1] ELSE fast
      /\ UNCHANGED <<middleware, fallback, version, pipelines>>
  BY DEF AddRoute
<1>2. PICK t : t = table'
  OBVIOUS
<1>3. PICK h : h = fast'
  OBVIOUS
<1>4. \A q \in Patterns : \A n \in Methods :
        /\ table[q][n] \in Nat /\ fast[q][n] \in Nat /\ fast[q][n] <= table[q][n]
  BY DEF RouterInv, TablesOK, Counts
<1>5. table \in [Patterns -> Counts] /\ fast \in [Patterns -> Counts]
  BY DEF RouterInv, TablesOK
<1>6. t \in [Patterns -> Counts] /\ h \in [Patterns -> Counts]
  BY <1>1, <1>2, <1>3, <1>4, <1>5 DEF Counts
<1>7. \A q \in Patterns : \A n \in Methods :
        t[q][n] = IF q = p /\ n = m THEN table[p][m] + 1 ELSE table[q][n]
  BY <1>1, <1>2, <1>5 DEF Counts
<1>8. \A q \in Patterns : \A n \in Methods :
        h[q][n] = fast[q][n] \/ (q = p /\ n = m /\ h[q][n] = table[p][m] + 1)
  BY <1>1, <1>3, <1>5 DEF Counts
<1>9. \A q \in Patterns : \A n \in Methods : h[q][n] <= t[q][n] /\ table[q][n] <= t[q][n]
  BY <1>4, <1>7, <1>8
<1>10. TablesOK'
  BY <1>2, <1>3, <1>6, <1>9 DEF TablesOK, Counts
<1>11. ASSUME NEW k \in 1..Len(pipelines)  PROVE Fresh(pipelines[k])'
  <2>1. PICK e : e = pipelines[k]
    OBVIOUS
  <2>2. Fresh(e) /\ e \in Pipes
    BY <2>1 DEF RouterInv
  <2>3. ASSUME e.key.kind = "route"
        PROVE  e.last \in 1..t[e.key.node][e.from]
    <3>1. PICK q \in Patterns : e.key.node = q
      BY <2>2, <2>3 DEF Pipes, PipeKeys, RouteKeys
    <3>2. PICK n \in Methods : n = e.from
      BY <2>2, <2>3 DEF Fresh
    <3>3. e.last \in 1..table[q][n]
      BY <2>2, <2>3, <3>1, <3>2 DEF Fresh
    <3>4. table[q][n] \in Nat /\ t[q][n] \in Nat /\ table[q][n] <= t[q][n]
      BY <1>4, <1>6, <1>9 DEF Counts
    <3>5. QED BY <3>1, <3>2, <3>3, <3>4
  <2>4. QED BY <1>1, <1>2, <2>1, <2>2, <2>3 DEF Fresh
<1>12. QED BY <1>1, <1>10, <1>11 DEF RouterInv

LEMMA KeyIs ==
  ASSUME TablesOK, NEW path \in Paths, NEW m \in Methods
  PROVE  /\ Key(m, path) \in PipeKeys
         /\ Key(m, path).kind = "route" =>
              /\ Key(m, path).node \in Patterns /\ Key(m, path).method \in Methods
              /\ Served(table[Key(m, path).node], Key(m, path).method) > 0
<1>1. PICK w : w = Match(m, path)
  OBVIOUS
<1>2. PICK key : key = Key(m, path)
  OBVIOUS
<1>3. key = IF w.found = "route" THEN [kind |-> "route", method |-> m, node |-> w.node]
            ELSE IF Allowed(path) # {} THEN KeyOf405(path) ELSE [kind |-> "404"]
  BY <1>1, <1>2 DEF Key
<1>4. CASE w.found = "route"
  <2>1. Miss.found # "route" /\ Malformed.found # "route"
    BY DEF Miss, Malformed
  <2>2. PICK p \in Patterns : w = Hit(p) /\ Served(table[p], m) > 0
    BY <1>1, <1>4, <2>1, MatchIs
  <2>3. w.node = p
    BY <2>2 DEF Hit
  <2>4. key = [kind |-> "route", method |-> m, node |-> p]
    BY <1>3, <1>4, <2>3
  <2>5. key \in RouteKeys /\ key.node = p /\ key.method = m
    BY <2>4 DEF RouteKeys
  <2>6. QED BY <1>2, <2>2, <2>5 DEF PipeKeys
<1>5. CASE w.found # "route" /\ Allowed(path) # {}
  <2>1. key = [kind |-> "405", allow |-> Allowed(path)]
    BY <1>3, <1>5 DEF KeyOf405
  <2>2. Allowed(path) \subseteq Methods
    BY DEF Allowed
  <2>3. key \in [kind : {"405"}, allow : SUBSET Methods] /\ key.kind = "405"
    BY <2>1, <2>2
  <2>4. QED BY <1>2, <2>3 DEF PipeKeys
<1>6. CASE w.found # "route" /\ Allowed(path) = {}
  <2>1. key = [kind |-> "404"]
    BY <1>3, <1>6
  <2>2. key \in [kind : {"404"}] /\ key.kind = "404"
    BY <2>1
  <2>3. QED BY <1>2, <2>2 DEF PipeKeys
<1>7. QED BY <1>4, <1>5, <1>6

LEMMA ComposedIs ==
  ASSUME RouterInv, NEW path \in Paths, NEW m \in Methods
  PROVE  /\ Composed(Key(m, path)) \in Pipes /\ Fresh(Composed(Key(m, path)))
         /\ Composed(Key(m, path)).key = Key(m, path)
<1>1. PICK key : key = Key(m, path)
  OBVIOUS
<1>2. /\ key \in PipeKeys
      /\ key.kind = "route" => /\ key.node \in Patterns /\ key.method \in Methods
                               /\ Served(table[key.node], key.method) > 0
  BY <1>1, KeyIs DEF RouterInv
<1>3. PICK last : last = IF key.kind = "route" THEN Served(table[key.node], key.method)
                         ELSE IF key.kind = "404" THEN fallback ELSE 0
  OBVIOUS
<1>3a. PICK from : from = IF key.kind = "route" THEN Serving(table[key.node], key.method) ELSE "none"
  OBVIOUS
<1>4. PICK e : e = Composed(key)
  OBVIOUS
<1>5. e = [key |-> key, version |-> version, middleware |-> middleware, from |-> from, last |-> last]
  BY <1>3, <1>3a, <1>4 DEF Composed
<1>6. key.kind = "route" =>
        /\ from \in Methods /\ last = table[key.node][from] /\ last \in Nat /\ last > 0
        /\ from = key.method \/ (key.method = "HEAD" /\ from = "GET")
  <2>1. SUFFICES ASSUME key.kind = "route"
                 PROVE  /\ from \in Methods /\ last = table[key.node][from] /\ last \in Nat /\ last > 0
                        /\ from = key.method \/ (key.method = "HEAD" /\ from = "GET")
    OBVIOUS
  <2>2. table[key.node] \in Counts /\ key.method \in Methods
    BY <1>2, <2>1 DEF RouterInv, TablesOK
  <2>3. from = Serving(table[key.node], key.method) /\ last = Served(table[key.node], key.method)
    BY <1>3, <1>3a, <2>1
  <2>4. last > 0
    BY <1>2, <2>1, <2>3
  <2>5. QED BY <2>2, <2>3, <2>4, ServedIs
<1>7. last \in Nat /\ version \in Nat /\ middleware \in Nat /\ from \in Methods \cup {"none"}
  BY <1>3, <1>3a, <1>6 DEF RouterInv
<1>8. e \in Pipes
  BY <1>2, <1>5, <1>7 DEF Pipes
<1>9. key.kind = "route" =>
        /\ from \in Methods /\ last \in 1..table[key.node][from]
        /\ from = key.method \/ (key.method = "HEAD" /\ from = "GET")
  BY <1>6
<1>10. Fresh(e)
  BY <1>5, <1>9 DEF Fresh
<1>11. QED BY <1>1, <1>4, <1>5, <1>8, <1>10

\* fetch() composes for a key that is not cached, after making room.
LEMMA FetchKeeps ==
  ASSUME RouterInv, NEW path \in Paths, NEW m \in Methods, Fetch(m, path)
  PROVE  RouterInv'
<1>1. PICK e : e = Composed(Key(m, path))
  OBVIOUS
<1>2. PICK room : room = IF Len(pipelines) >= CacheCap THEN Tail(pipelines) ELSE pipelines
  OBVIOUS
<1>3. pipelines' = Append(room, e)
  BY <1>1, <1>2 DEF Fetch
<1>4. UNCHANGED <<table, fast, middleware, fallback, version>>
  BY DEF Fetch
<1>5. e \in Pipes /\ Fresh(e) /\ e.key = Key(m, path)
  BY <1>1, ComposedIs
<1>6. /\ pipelines \in Seq(Pipes) /\ Len(pipelines) <= CacheCap /\ Len(pipelines) \in Nat
      /\ \A n \in 1..Len(pipelines) : Fresh(pipelines[n])
      /\ \A i, j \in 1..Len(pipelines) : i # j => pipelines[i].key # pipelines[j].key
      /\ CacheCap \in Nat /\ CacheCap > 0
  BY RouterAssumption DEF RouterInv
<1>7. \A n \in 1..Len(pipelines) : pipelines[n].key # e.key
  BY <1>5, <1>6 DEF Fetch, Cached, Fresh
<1>8. \E d \in Nat :
        /\ room \in Seq(Pipes) /\ Len(room) \in Nat /\ Len(room) + 1 <= CacheCap
        /\ Len(room) + d = Len(pipelines)
        /\ \A n \in 1..Len(room) : n + d \in 1..Len(pipelines) /\ room[n] = pipelines[n + d]
  <2>1. CASE Len(pipelines) >= CacheCap
    <3>1. room = Tail(pipelines) /\ pipelines # <<>>
      BY <1>2, <1>6, <2>1
    <3>2. room \in Seq(Pipes) /\ Len(room) = Len(pipelines) - 1
      BY <1>6, <3>1
    <3>3. \A n \in 1..Len(room) : n + 1 \in 1..Len(pipelines) /\ room[n] = pipelines[n + 1]
      BY <1>6, <3>1, <3>2
    <3>4. /\ Len(room) + 1 = Len(pipelines) /\ Len(room) + 1 <= CacheCap
          /\ Len(room) \in Nat
      <4> DEFINE n == Len(pipelines)
                 r == Len(room)
      <4>1. n \in Nat /\ n >= CacheCap /\ n <= CacheCap /\ CacheCap \in Nat /\ CacheCap > 0
            /\ r = n - 1
        BY <1>6, <2>1, <3>2
      <4> HIDE DEF n, r
      <4>2. r + 1 = n /\ r + 1 <= CacheCap /\ r \in Nat
        BY <4>1
      <4>3. QED BY <4>2 DEF n, r
    <3>5. QED BY <3>2, <3>3, <3>4
  <2>2. CASE ~(Len(pipelines) >= CacheCap)
    <3>1. room = pipelines
      BY <1>2, <2>2
    <3>2. Len(room) + 1 <= CacheCap /\ Len(room) + 0 = Len(pipelines)
      BY <1>6, <2>2, <3>1
    <3>3. \A n \in 1..Len(room) : n + 0 \in 1..Len(pipelines) /\ room[n] = pipelines[n + 0]
      BY <1>6, <3>1
    <3>4. room \in Seq(Pipes) /\ Len(room) \in Nat
      BY <1>6, <3>1
    <3>5. 0 \in Nat
      OBVIOUS
    <3>6. QED BY Zenon, <3>2, <3>3, <3>4, <3>5
  <2>3. QED BY <2>1, <2>2
<1>9. PICK d \in Nat :
        /\ room \in Seq(Pipes) /\ Len(room) \in Nat /\ Len(room) + 1 <= CacheCap
        /\ Len(room) + d = Len(pipelines)
        /\ \A n \in 1..Len(room) : n + d \in 1..Len(pipelines) /\ room[n] = pipelines[n + d]
  BY <1>8
<1>10. PICK next : next = Append(room, e)
  OBVIOUS
<1>11. /\ next \in Seq(Pipes) /\ Len(next) = Len(room) + 1 /\ next[Len(room) + 1] = e
       /\ \A n \in 1..Len(room) : next[n] = room[n]
  BY <1>5, <1>9, <1>10
<1>12. \A n \in 1..Len(next) : n \in 1..Len(room) \/ n = Len(room) + 1
  BY <1>9, <1>11
<1>13. \A n \in 1..Len(next) : Fresh(next[n])
  BY <1>5, <1>6, <1>9, <1>11, <1>12
<1>14. \A i \in 1..Len(room) : next[i].key # e.key
  BY <1>7, <1>9, <1>11
<1>15. ASSUME NEW i \in 1..Len(next), NEW j \in 1..Len(next), i # j
       PROVE  next[i].key # next[j].key
  <2>1. CASE i \in 1..Len(room) /\ j \in 1..Len(room)
    <3>1. i + d # j + d /\ i + d \in 1..Len(pipelines) /\ j + d \in 1..Len(pipelines)
      BY <1>9, <1>15, <2>1
    <3>2. pipelines[i + d].key # pipelines[j + d].key
      BY <1>6, <3>1
    <3>3. QED BY <1>9, <1>11, <2>1, <3>2
  <2>2. CASE i = Len(room) + 1
    <3>1. j \in 1..Len(room) /\ next[i] = e
      BY <1>11, <1>12, <1>15, <2>2
    <3>2. QED BY <1>14, <3>1
  <2>3. CASE j = Len(room) + 1
    <3>1. i \in 1..Len(room) /\ next[j] = e
      BY <1>11, <1>12, <1>15, <2>3
    <3>2. QED BY <1>14, <3>1
  <2>4. QED BY <1>12, <2>1, <2>2, <2>3
<1>16. TablesOK' /\ (middleware \in 0..MaxUses /\ fallback \in 0..MaxUses /\ version \in Nat)'
  BY <1>4 DEF RouterInv, TablesOK
<1>17. \A n \in 1..Len(next) : Fresh(next[n])'
  BY <1>4, <1>13 DEF Fresh
<1>18. pipelines' = next /\ Len(next) <= CacheCap
  BY <1>3, <1>9, <1>10, <1>11
<1>19. QED BY <1>11, <1>15, <1>16, <1>17, <1>18 DEF RouterInv, Fresh

LEMMA RouterInvNext == RouterInv /\ [RouterNext]_routerVars => RouterInv'
<1> SUFFICES ASSUME RouterInv, [RouterNext]_routerVars PROVE RouterInv'
  OBVIOUS
<1>1. ASSUME NEW p \in Patterns, NEW m \in Methods, AddRoute(p, m)  PROVE RouterInv'
  BY <1>1, AddRouteKeeps
<1>2. ASSUME NEW path \in Paths, NEW m \in Methods, Fetch(m, path)  PROVE RouterInv'
  BY <1>2, FetchKeeps
<1>3. CASE Use
  <2>1. /\ middleware' = middleware + 1 /\ middleware < MaxUses
        /\ version' = version + 1 /\ pipelines' = <<>>
        /\ UNCHANGED <<table, fast, fallback>>
    BY <1>3 DEF Use
  <2>2. TablesOK' /\ (fallback \in 0..MaxUses)'
    BY <2>1 DEF RouterInv, TablesOK
  <2>3. (middleware \in 0..MaxUses /\ version \in Nat)'
    BY <2>1, RouterAssumption DEF RouterInv
  <2>4. pipelines' \in Seq(Pipes) /\ Len(pipelines') = 0
    BY <2>1
  <2>5. QED BY <2>2, <2>3, <2>4, RouterAssumption DEF RouterInv
<1>4. CASE ReplaceFallback
  <2>1. /\ fallback' = fallback + 1 /\ fallback < MaxUses
        /\ UNCHANGED <<table, fast, middleware, version, pipelines>>
    BY <1>4 DEF ReplaceFallback
  <2>2. (fallback \in 0..MaxUses)'
    BY <2>1, RouterAssumption DEF RouterInv
  <2>3. QED BY <2>1, <2>2 DEF RouterInv, TablesOK, Fresh
<1>5. CASE UNCHANGED routerVars
  BY <1>5 DEF routerVars, RouterInv, TablesOK, Fresh
<1>6. QED BY <1>1, <1>2, <1>3, <1>4, <1>5 DEF RouterNext

LEMMA FreshByInv == RouterInv => PipelinesFresh
<1> SUFFICES ASSUME RouterInv PROVE PipelinesFresh
  OBVIOUS
<1>1. DOMAIN pipelines = 1..Len(pipelines)
  BY DEF RouterInv
<1>2. RouterTypeOK
  BY <1>1 DEF RouterInv, TablesOK, Counts, RouterTypeOK
<1>3. PipelinesCurrent
  BY <1>1 DEF RouterInv, Fresh, PipelinesCurrent
<1>4. QED BY <1>2, <1>3 DEF PipelinesFresh

\* For any routes, registered in any order and any number of times, and any path:
\* the walk of the trie finds the most specific route that covers the path, if
\* there is one, whatever dead ends it meets (matchNode()); the shortcut for static
\* routes answers as the walk does (match()); and a 405 lists exactly methods that
\* the path has (allowedMethods()).
THEOREM AlwaysRoutedRight == RouterSpec => []RoutingAgrees
<1>1. RouterInv => RoutingAgrees
  BY RoutesAgree, AllowsHonest DEF RouterInv, RoutingAgrees
<1>2. QED BY <1>1, RouterInvInit, RouterInvNext, PTL DEF RouterSpec

\* For any routes, middlewares and size of the cache: a cached pipeline that fetch()
\* can hit runs every global middleware there is, and handlers registered for its
\* own route and method, or GET's for HEAD; what was registered for them later it
\* need not run.  The cache keeps each key once and never outgrows its cap.
THEOREM PipelinesAlwaysFresh == RouterSpec => []PipelinesFresh
  BY RouterInvInit, RouterInvNext, FreshByInv, PTL DEF RouterSpec

=============================================================================
