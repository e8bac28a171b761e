------------------------------- MODULE Outbox -------------------------------
(***************************************************************************)
(* packages/events/src/index.ts: MemoryOutbox, used by several relays that *)
(* claim batches, publish the records and ack or nack each of them once,   *)
(* the "append -> claim -> ack/nack relay cycle" of its README.  The       *)
(* relays are callers of the class; "held" is what each has still to       *)
(* settle.                                                                 *)
(***************************************************************************)
EXTENDS Naturals, Sequences, FiniteSets

CONSTANTS Records,  \* the calls of append(), each with an id of its own
          Relays,
          Limits,   \* values of claim()'s argument
          MaxNacks  \* bound: nacks per record

ASSUME OutboxAssumption == Limits \subseteq Nat /\ MaxNacks \in Nat

VARIABLES queue,     \* MemoryOutbox.pending
          claimed,   \* MemoryOutbox.claimed
          held,      \* per relay: records claimed and not yet settled
          acked,     \* history: records acked
          nacks,     \* history: nacks per record
          appended   \* history: records in the order of append()

outboxVars == <<queue, claimed, held, acked, nacks, appended>>

Members(s) == {s[i] : i \in DOMAIN s}

OutboxInit ==
  /\ queue = <<>>
  /\ claimed = {}
  /\ held = [r \in Relays |-> {}]
  /\ acked = {}
  /\ nacks = [x \in Records |-> 0]
  /\ appended = <<>>

AppendRecord(x) ==
  /\ x \notin Members(appended)
  /\ queue' = Append(queue, x)
  /\ appended' = Append(appended, x)
  /\ UNCHANGED <<claimed, held, acked, nacks>>

\* How many records a claim takes: at least one is asked for.
BatchSize(limit) ==
  LET wanted == IF limit < 1 THEN 1 ELSE limit
  IN  IF wanted <= Len(queue) THEN wanted ELSE Len(queue)

Claim(r, limit) ==
  LET n == BatchSize(limit)
      batch == Members(SubSeq(queue, 1, n))
  IN  /\ queue # <<>>
      /\ queue' = SubSeq(queue, n + 1, Len(queue))
      /\ claimed' = claimed \cup batch
      /\ held' = [held EXCEPT ![r] = @ \cup batch]
      /\ UNCHANGED <<acked, nacks, appended>>

Ack(r, x) ==
  /\ x \in held[r]
  /\ claimed' = claimed \ {x}
  /\ held' = [held EXCEPT ![r] = @ \ {x}]
  /\ acked' = acked \cup {x}
  /\ UNCHANGED <<queue, nacks, appended>>

\* Seeded fault: the record goes back and stays in the claimed map.
Nack_StaysClaimed(r, x) ==
  /\ x \in held[r]
  /\ nacks[x] < MaxNacks
  /\ queue' = IF x \in claimed THEN <<x>> \o queue ELSE queue
  /\ held' = [held EXCEPT ![r] = @ \ {x}]
  /\ nacks' = [nacks EXCEPT ![x] = @ + 1]
  /\ UNCHANGED <<claimed, acked, appended>>

\* The record goes back to the front, if it is still claimed.
Nack(r, x) ==
  /\ x \in held[r]
  /\ nacks[x] < MaxNacks
  /\ claimed' = claimed \ {x}
  /\ queue' = IF x \in claimed THEN <<x>> \o queue ELSE queue
  /\ held' = [held EXCEPT ![r] = @ \ {x}]
  /\ nacks' = [nacks EXCEPT ![x] = @ + 1]
  /\ UNCHANGED <<acked, appended>>

Relay(r) ==
  \/ \E limit \in Limits : Claim(r, limit)
  \/ \E x \in Records : Ack(r, x) \/ Nack(r, x)

OutboxNext ==
  \/ \E x \in Records : AppendRecord(x)
  \/ \E r \in Relays : Relay(r)

OutboxSpec == OutboxInit /\ [][OutboxNext]_outboxVars

\* Relays go on claiming and settle what they hold.
OutboxFairness == \A r \in Relays : WF_outboxVars(Relay(r))

-----------------------------------------------------------------------------
(* Properties *)

\* Queue, claimed map and histories are well-formed; the queue holds a record
\* once.
OutboxTypeOK ==
  /\ queue \in Seq(Records) /\ Cardinality(Members(queue)) = Len(queue)
  /\ claimed \subseteq Records
  /\ held \in [Relays -> SUBSET Records]
  /\ acked \subseteq Records
  /\ nacks \in [Records -> 0..MaxNacks]
  /\ appended \in Seq(Records)

\* Every appended record is in exactly one place until it is acked: waiting
\* once, or claimed by exactly one relay.  None is lost, none is handed out
\* twice at a time.
RecordsConserved ==
  /\ Members(queue) \cup claimed \cup acked = Members(appended)
  /\ Members(queue) \cap claimed = {}
  /\ acked \cap (Members(queue) \cup claimed) = {}
  /\ claimed = UNION {held[r] : r \in Relays}
  /\ \A r, s \in Relays : r # s => held[r] \cap held[s] = {}

Before(s, x, y) == \E i, j \in DOMAIN s : i < j /\ s[i] = x /\ s[j] = y

\* Records that were never nacked are claimed in the order of append(): of two
\* such records the later one never leaves the queue first, and a record that
\* was nacked is in front of them all.
ClaimedInOrder ==
  \A x, y \in Members(appended) :
    Before(appended, x, y) /\ nacks[x] = 0 /\ x \in Members(queue) =>
      /\ nacks[y] = 0 => Before(queue, x, y)
      /\ nacks[y] > 0 /\ y \in Members(queue) => Before(queue, y, x)

\* Relays that claim, ack and nack in any order neither lose nor double a
\* record, nor let one overtake another.
RecordsKept == OutboxTypeOK /\ RecordsConserved /\ ClaimedInOrder

\* At-least-once: a record that is appended, and nacked finitely often, is
\* acked in the end.
EveryRecordAcked ==
  \A x \in Records : x \in Members(appended) ~> x \in acked
=============================================================================
