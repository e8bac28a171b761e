------------------------------- MODULE Retry -------------------------------
(***************************************************************************)
(* withRetry(): one call, which tries fn until it succeeds or a budget is  *)
(* spent.  fn may take any time; a timer fires when it is due or later.    *)
(***************************************************************************)
EXTENDS Integers, Sequences

CONSTANTS
  MaxTries,     \* maxAttempts
  Backoff,      \* backoffMs, in ticks
  Jitter,       \* jitterMs
  Budget,       \* timeoutMs
  Retryable,    \* the errors shouldRetry() accepts
  Fatal,        \* the others
  RetryTicks    \* bound on the clock

NoError == "none"
Power2[n \in Nat] == IF n = 0 THEN 1 ELSE 2 * Power2[n - 1]

ASSUME RetryAssumption ==
  /\ MaxTries \in Nat \ {0} /\ Backoff \in Nat /\ Jitter \in Nat /\ Budget \in Nat
  /\ \A n \in 0..MaxTries : Power2[n] \in Nat
  /\ NoError \notin Retryable \cup Fatal

VARIABLES
  retryClock,
  retrier       \* [phase, attempt, wake, error, starts]

retryVars == <<retryClock, retrier>>

RetryInit ==
  /\ retryClock = 0
  /\ retrier = [phase |-> "trying", attempt |-> 1, wake |-> 0, error |-> NoError, starts |-> <<0>>]

FnSucceeds ==
  /\ retrier.phase = "trying"
  /\ retrier' = [retrier EXCEPT !.phase = "returned"]
  /\ UNCHANGED retryClock

\* Seeded fault: the wait is not held against the budget.
FnFails_Overdrawn ==
  /\ retrier.phase = "trying"
  /\ \E e \in Retryable \cup Fatal, extra \in 0..Jitter :
       LET wait == Backoff * Power2[retrier.attempt - 1] + extra
           stops == retrier.attempt >= MaxTries \/ e \in Fatal \/ retryClock >= Budget
       IN retrier' = [retrier EXCEPT !.error = e,
                        !.phase = IF stops THEN "threw" ELSE "sleeping",
                        !.wake = IF stops THEN @ ELSE retryClock + wait]
  /\ UNCHANGED retryClock

\* The error decides first, then the budgets; deadline = Budget, as now() was 0.
FnFails ==
  /\ retrier.phase = "trying"
  /\ \E e \in Retryable \cup Fatal, extra \in 0..Jitter :
       LET wait == Backoff * Power2[retrier.attempt - 1] + extra
           stops == \/ retrier.attempt >= MaxTries
                    \/ e \in Fatal
                    \/ retryClock >= Budget
                    \/ retryClock + wait > Budget
       IN retrier' = [retrier EXCEPT !.error = e,
                        !.phase = IF stops THEN "threw" ELSE "sleeping",
                        !.wake = IF stops THEN @ ELSE retryClock + wait]
  /\ UNCHANGED retryClock

Wake ==
  /\ retrier.phase = "sleeping" /\ retryClock >= retrier.wake
  /\ retrier' = [retrier EXCEPT !.phase = "trying", !.attempt = @ + 1,
                                !.starts = Append(@, retryClock)]
  /\ UNCHANGED retryClock

\* Neither fn nor the timer of a sleep keeps to the clock.
RetryTick ==
  /\ retryClock < RetryTicks
  /\ retryClock' = retryClock + 1
  /\ UNCHANGED retrier

RetryNext == FnSucceeds \/ FnFails \/ Wake \/ RetryTick

RetrySpec == RetryInit /\ [][RetryNext]_retryVars

-----------------------------------------------------------------------------
(* Properties *)

\* fn is tried at most maxAttempts times, never again after a success or an
\* error that is not retryable; what is thrown is the last error; every retry
\* begins after a pause that doubles.  A pause is begun only if it ends within
\* the budget.  Its timer may be late, and nothing looks at the budget again
\* before fn is called: one try may begin after it, the last one.
RetriesInBudget ==
  /\ Len(retrier.starts) = retrier.attempt /\ retrier.attempt <= MaxTries
  /\ retrier.phase = "sleeping" => retrier.error \in Retryable
  /\ retrier.phase = "threw" => retrier.error # NoError
  /\ retrier.wake <= Budget
  /\ \A i \in 2..Len(retrier.starts) :
       /\ retrier.starts[i - 1] < Budget
       /\ retrier.starts[i] - retrier.starts[i - 1] >= Backoff * Power2[i - 2]
=============================================================================
