---------------------------- MODULE MCBackground ----------------------------
(***************************************************************************)
(* The background packages: jobs, the event bus and the outbox.  They do   *)
(* not call each other, so a behaviour exercises one of them and leaves    *)
(* the others in their initial states: "focus" says which.                 *)
(***************************************************************************)
EXTENDS EventBus, Outbox, Jobs, TLC

CONSTANTS t1, t2, t3, w1, w2, h1, h2, h3, p1, p2, x1, x2, x3, r1, r2,
          Focused

VARIABLE focus

\* t1 is tried twice, the others once.
MCMaxAttempts == t1 :> 2 @@ t2 :> 1 @@ t3 :> 1

MCInit ==
  /\ focus \in Focused
  /\ JobsInit /\ EventBusInit /\ OutboxInit

MCNext ==
  /\ UNCHANGED focus
  /\ \/ focus = "jobs" /\ JobsNext /\ UNCHANGED <<eventBusVars, outboxVars>>
     \/ focus = "bus" /\ EventBusNext /\ UNCHANGED <<jobsVars, outboxVars>>
     \/ focus = "outbox" /\ OutboxNext /\ UNCHANGED <<jobsVars, eventBusVars>>

MCSpec ==
  /\ MCInit
  /\ [][MCNext]_<<focus, jobsVars, eventBusVars, outboxVars>>
  /\ JobsFairness /\ EventBusFairness /\ OutboxFairness

\* Nothing lingers: a scheduled job is decided, a publication that calls a
\* handler returns, an appended record is acked, although jobs, handlers and
\* relays fail and are tried again.
EverythingEnds == EveryJobDecided /\ PublishEnds /\ EveryRecordAcked

=============================================================================
