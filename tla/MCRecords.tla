----------------------------- MODULE MCRecords -----------------------------
(***************************************************************************)
(* What outlives a request under an id or a key: sessions, chains of       *)
(* refresh tokens, the ports of the memory cache and the key cache of      *)
(* OIDC.  They do not call each other, so a behaviour exercises one of     *)
(* them: "focus" says which.                                               *)
(***************************************************************************)
EXTENDS Session, TokenRotation, CachePorts, KeyCache, TLC

CONSTANTS v1, v2, v3, b1, b2, d1, d2, p1, p2, Focused

VARIABLE focus

\* One browser alone, and two browsers.
MCCallings == {v1 :> b1 @@ v2 :> b1 @@ v3 :> b1, v1 :> b1 @@ v2 :> b1 @@ v3 :> b2}

\* Tenant a with b:c and tenant a:b with c share a key; a's c is only written.
MCFirst == [tenant |-> <<"a">>, name |-> <<"b", "c">>]
MCSecond == [tenant |-> <<"a", "b">>, name |-> <<"c">>]
MCThird == [tenant |-> <<"a">>, name |-> <<"c">>]
MCOrigins == {MCFirst, MCSecond, MCThird}
MCOriginOf == d1 :> MCFirst @@ d2 :> MCSecond

MCInit ==
  /\ focus \in Focused
  /\ SessionInit /\ RotationInit /\ PortInit /\ KeyInit
  /\ focus # "session" => stored /\ browserOf = CHOOSE calling \in Callings : TRUE

MCNext ==
  /\ UNCHANGED focus
  /\ \/ focus = "session" /\ SessionNext /\ UNCHANGED <<rotationVars, portVars, keyVars>>
     \/ focus = "rotation" /\ RotationNext /\ UNCHANGED <<sessionVars, portVars, keyVars>>
     \/ focus = "ports" /\ PortNext /\ UNCHANGED <<sessionVars, rotationVars, keyVars>>
     \/ focus = "keys" /\ KeyNext /\ UNCHANGED <<sessionVars, rotationVars, portVars>>
     \/ focus = "poll" /\ PollNext /\ UNCHANGED <<sessionVars, rotationVars, portVars>>

MCSpec == MCInit /\ [][MCNext]_<<focus, sessionVars, rotationVars, portVars, keyVars>>
=============================================================================
