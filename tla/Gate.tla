-------------------------------- MODULE Gate --------------------------------
(***************************************************************************)
(* What a bulkhead promises its callers: a gate with one line in front of  *)
(* it.  The line is served strictly in the order in which it was joined,   *)
(* a caller that stands in it is never forgotten, and nobody joins it      *)
(* while the place inside is below its capacity.  How a release reaches    *)
(* the head of the line is the implementation's business (Bulkhead).       *)
(***************************************************************************)
EXTENDS Naturals, FiniteSets

CONSTANTS Callers,   \* the calls that may be made
          Capacity   \* how many callers make the gate "full"

VARIABLES line,      \* callers waiting
          ahead,     \* pairs of them, the one that joined before the other first
          inside     \* callers being served

gateVars == <<line, ahead, inside>>

GateInit == line = {} /\ ahead = {} /\ inside = {}

\* A newcomer finds a free place and goes straight in, ahead of the line.
WalkIn(c) ==
  /\ c \notin inside \cup line
  /\ Cardinality(inside) < Capacity
  /\ inside' = inside \cup {c}
  /\ UNCHANGED <<line, ahead>>

\* A newcomer finds the gate full and takes the last place of the line.
Join(c) ==
  /\ c \notin inside \cup line
  /\ Cardinality(inside) >= Capacity
  /\ line' = line \cup {c}
  /\ ahead' = ahead \cup (line \X {c})
  /\ UNCHANGED inside

\* The head of the line goes in, or fails the moment it would.
Serve(c) ==
  /\ c \in line /\ \A b \in line : <<b, c>> \notin ahead
  /\ line' = line \ {c}
  /\ ahead' = {p \in ahead : p[1] # c}
  /\ inside' = inside \/ inside' = inside \cup {c}

ServeOne == \E c \in Callers : Serve(c)

Leave(c) ==
  /\ c \in inside
  /\ inside' = inside \ {c}
  /\ UNCHANGED <<line, ahead>>

GateNext ==
  \/ ServeOne
  \/ \E c \in Callers : WalkIn(c) \/ Join(c) \/ Leave(c)

GateSafety == GateInit /\ [][GateNext]_gateVars
GateSpec == GateSafety /\ WF_gateVars(ServeOne)
=============================================================================
