------------------------------ MODULE MCStores ------------------------------
(***************************************************************************)
(* Stores shared by concurrent requests: single-flight loading, the        *)
(* idempotency store and the response cache.  They do not call each other, *)
(* so a behaviour exercises one of them and leaves the others in their     *)
(* initial states: "focus" says which.                                     *)
(***************************************************************************)
EXTENDS Singleflight, Idempotency, ResponseCache, TLC

CONSTANTS g1, g2, g3, k1,
          i1, i2, i3, i4, pay, refund, body1, body2,
          r1, r2, r3, r4, r5, r6, u1, u2, u3, u4,
          Focused

VARIABLE focus

\* All calls ask for one key.
MCKeyOf == g1 :> k1 @@ g2 :> k1 @@ g3 :> k1

\* Three requests with one key, one of them with another payload.
MCTokenOf == i1 :> pay @@ i2 :> pay @@ i3 :> pay @@ i4 :> refund
MCFingerprintOf == i1 :> body1 @@ i2 :> body1 @@ i3 :> body2 @@ i4 :> body1

\* r1 and r2 (which is authorized) ask for the same page.
MCUrlOf == r1 :> u1 @@ r2 :> u1 @@ r3 :> u2 @@ r4 :> u3 @@ r5 :> u1 @@ r6 :> u4

MCInit ==
  /\ focus \in Focused
  /\ FlightInit /\ IdemInit /\ ResponseInit

MCNext ==
  /\ UNCHANGED focus
  /\ \/ focus = "flight" /\ FlightNext /\ UNCHANGED <<idemVars, responseVars>>
     \/ focus = "idem" /\ IdemNext /\ UNCHANGED <<flightVars, responseVars>>
     \/ focus = "response" /\ ResponseNext /\ UNCHANGED <<flightVars, idemVars>>

MCSpec ==
  /\ MCInit
  /\ [][MCNext]_<<focus, flightVars, idemVars, responseVars>>
  /\ FlightFairness

=============================================================================
