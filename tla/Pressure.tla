------------------------------ MODULE Pressure ------------------------------
(***************************************************************************)
(* Load shedding (createPressureMonitor, underPressure): an interval       *)
(* samples the lag of the event loop, and requests are refused while the   *)
(* largest of the last samples, or the heap, is over budget.               *)
(***************************************************************************)
EXTENDS Integers, Sequences

CONSTANTS
  LagWindow,    \* LAG_WINDOW
  MaxLag,       \* maxLagMs
  MaxHeap,      \* maxHeapMB
  Lags,         \* lags that are measured
  Heaps         \* heap readings

VARIABLES
  lags,         \* the last samples, oldest first
  heap,         \* the current reading
  sampling,     \* whether the interval runs
  calmFor,      \* history: samples in a row that were within budget
  shed          \* whether the last request was refused

pressureVars == <<lags, heap, sampling, calmFor, shed>>

PressureInit ==
  /\ lags = <<>> /\ heap \in Heaps
  /\ sampling = TRUE /\ calmFor = 0 /\ shed = FALSE

Sample(lag) ==
  /\ sampling
  /\ LET all == Append(lags, lag)
     IN lags' = IF Len(all) > LagWindow THEN Tail(all) ELSE all
  /\ calmFor' = IF lag > MaxLag THEN 0
                ELSE IF calmFor < LagWindow THEN calmFor + 1 ELSE calmFor
  /\ UNCHANGED <<heap, sampling, shed>>

IsUnderPressure == (\E i \in DOMAIN lags : lags[i] > MaxLag) \/ heap > MaxHeap

Arrive == shed' = IsUnderPressure /\ UNCHANGED <<lags, heap, sampling, calmFor>>

HeapMoves == heap' \in Heaps /\ UNCHANGED <<lags, sampling, calmFor, shed>>

StopSampling == sampling /\ sampling' = FALSE /\ UNCHANGED <<lags, heap, calmFor, shed>>

PressureNext ==
  \/ \E lag \in Lags : Sample(lag)
  \/ Arrive \/ HeapMoves \/ StopSampling

-----------------------------------------------------------------------------
(* Properties *)

\* Shedding ends: once as many samples in a row were within budget as the
\* window holds, requests are refused for the heap only.  (After stop() the
\* samples stay what they were.)
SheddingEnds ==
  [][shed' # shed /\ shed' => calmFor < LagWindow \/ heap > MaxHeap]_pressureVars
=============================================================================
