--------------------------- MODULE TokenRotation ---------------------------
(***************************************************************************)
(* RotatingTokenStore: one chain of refresh ids, of which the last is      *)
(* live.  The client refreshes (consume, then rotate), and may present an  *)
(* id it has already given up; another holder may present any of them.     *)
(* All calls are synchronous.                                              *)
(***************************************************************************)
EXTENDS Integers, Sequences, SequencesExt, FiniteSets

CONSTANTS
  KeptRetired,  \* 16: how many superseded ids a chain remembers
  MaxMinted     \* bound on the ids that are minted

ASSUME RotationAssumption == KeptRetired \in Nat

VARIABLES
  chain,        \* [current, retired] or NoChain
  minted,       \* how many ids were generated: they are 1, 2, ...
  since,        \* history: ids of the chain that is open, oldest first
  verdict       \* what the last consume() answered: [id, result]

rotationVars == <<chain, minted, since, verdict>>

NoChain == [current |-> 0, retired |-> <<>>]
NoVerdict == [id |-> 0, result |-> "none"]

RotationInit == chain = NoChain /\ minted = 0 /\ since = <<>> /\ verdict = NoVerdict

\* begin() opens the chain or replaces the one there is.
BeginChain ==
  /\ minted < MaxMinted
  /\ minted' = minted + 1
  /\ chain' = [current |-> minted + 1, retired |-> <<>>]
  /\ since' = <<minted + 1>> /\ verdict' = NoVerdict

\* Fault: the list of retired ids is cut at the wrong end.
Bounded_Newest(ids) == IF Len(ids) > KeptRetired THEN SubSeq(ids, 1, KeptRetired) ELSE ids

\* The oldest ids are forgotten.
Bounded(ids) ==
  IF Len(ids) > KeptRetired THEN SubSeq(ids, Len(ids) - KeptRetired + 1, Len(ids)) ELSE ids

RotateChain ==
  /\ chain # NoChain /\ minted < MaxMinted
  /\ minted' = minted + 1
  /\ chain' = [current |-> minted + 1, retired |-> Bounded(Append(chain.retired, chain.current))]
  /\ since' = Append(since, minted + 1) /\ verdict' = NoVerdict

Consume(id) ==
  LET result == IF chain = NoChain THEN "unknown chain"
                ELSE IF id = chain.current THEN "live"
                ELSE IF id \in ToSet(chain.retired) THEN "reuse" ELSE "unknown token"
  IN /\ verdict' = [id |-> id, result |-> result]
     /\ chain' = IF result = "reuse" THEN NoChain ELSE chain
     /\ UNCHANGED <<minted, since>>

Revoke ==
  /\ chain' = NoChain /\ verdict' = NoVerdict
  /\ UNCHANGED <<minted, since>>

RotationNext ==
  \/ BeginChain \/ RotateChain \/ Revoke
  \/ \E id \in 1..MaxMinted : Consume(id)

RotationSpec == RotationInit /\ [][RotationNext]_rotationVars

-----------------------------------------------------------------------------
(* Properties *)

Superseded == {since[i] : i \in 1..(Len(since) - 1)}
Recent == {since[i] : i \in {j \in 1..(Len(since) - 1) : j >= Len(since) - KeptRetired}}

\* Reuse of a recent id closes the chain for everybody, and only the newest id
\* of a chain is ever accepted, even after the chain was closed or reopened.
ReuseCloses ==
  [][\A id \in 1..MaxMinted : Consume(id) =>
       /\ verdict'.result = "live" => since # <<>> /\ id = Last(since)
       /\ id \in Recent => chain' = NoChain]_rotationVars

=============================================================================
