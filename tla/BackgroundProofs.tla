-------------------------- MODULE BackgroundProofs ---------------------------
(***************************************************************************)
(* Proofs about what runs in the background.  Of the event bus and the     *)
(* outbox, for every set of handlers, publications, records and relays:    *)
(* both walk sequences that other calls change, so the invariants speak of *)
(* positions, and the lemmas of the first section say what Append, SubSeq  *)
(* and \o do to the members of a sequence without repetitions.  Of Jobs,   *)
(* for every set of tasks and workers, every number of attempts and every  *)
(* backoff, with an audit sink that may reject.                            *)
(***************************************************************************)
EXTENDS EventBus, Outbox, Jobs, TLAPS, FiniteSetTheorems, SequenceTheorems, NaturalsInduction,
        WellFoundedInduction


-----------------------------------------------------------------------------
(* Sequences without repetitions *)

NoRepeat(s) == \A i, j \in 1..Len(s) : s[i] = s[j] => i = j

\* A sequence repeats nothing exactly when it is as long as it has members,
\* which is how the type invariants put it.
LEMMA CountMembers ==
  ASSUME NEW S, NEW s \in Seq(S)
  PROVE  Cardinality(Members(s)) = Len(s) <=> NoRepeat(s)
<1>1. s \in Surjection(1..Len(s), Members(s)) /\ Len(s) \in Nat
  BY DEF Members, Surjection
<1>2. IsFiniteSet(1..Len(s)) /\ Cardinality(1..Len(s)) = Len(s)
  <2>1. 1 \in Int /\ Len(s) \in Int BY <1>1
  <2>2. /\ IsFiniteSet(1..Len(s))
        /\ Cardinality(1..Len(s)) = IF 1 > Len(s) THEN 0 ELSE Len(s) - 1 + 1
    BY <2>1, FS_Interval
  <2>3. QED BY <1>1, <2>2
<1>3. Cardinality(Members(s)) = Len(s) <=> s \in Injection(1..Len(s), Members(s))
  BY <1>1, <1>2, FS_Surjection
<1>4. s \in Injection(1..Len(s), Members(s)) <=> NoRepeat(s)
  BY <1>1 DEF Injection, IsInjective, Surjection, NoRepeat
<1>5. QED BY <1>3, <1>4

LEMMA MembersOf ==
  ASSUME NEW S, NEW s \in Seq(S)
  PROVE  /\ Members(s) \subseteq S
         /\ Len(s) \in Nat
         /\ \A x : x \in Members(s) <=> \E i \in 1..Len(s) : s[i] = x
BY DEF Members

LEMMA AppendFacts ==
  ASSUME NEW S, NEW s \in Seq(S), NEW x \in S
  PROVE  /\ Append(s, x) \in Seq(S)
         /\ Members(Append(s, x)) = Members(s) \cup {x}
         /\ Len(Append(s, x)) = Len(s) + 1
         /\ Append(s, x)[Len(s) + 1] = x
         /\ \A i \in 1..Len(s) : Append(s, x)[i] = s[i]
         /\ NoRepeat(s) /\ x \notin Members(s) => NoRepeat(Append(s, x))
<1> DEFINE t == Append(s, x)
<1>1. /\ t \in Seq(S) /\ Len(t) = Len(s) + 1 /\ Len(s) \in Nat
      /\ t[Len(s) + 1] = x
      /\ \A i \in 1..Len(s) : t[i] = s[i]
  BY AppendProperties, LenProperties
<1> HIDE DEF t
<1>2. Members(t) = Members(s) \cup {x}
  <2>1. ASSUME NEW y \in Members(t) PROVE y = x \/ y \in Members(s)
    <3>1. PICK i \in 1..Len(t) : t[i] = y BY <1>1, <2>1, MembersOf
    <3>2. i = Len(s) + 1 \/ i \in 1..Len(s) BY <1>1, <3>1
    <3>3. QED BY <1>1, <3>1, <3>2, MembersOf
  <2>2. ASSUME NEW y \in Members(s) PROVE y \in Members(t)
    <3>1. PICK i \in 1..Len(s) : s[i] = y BY <2>2, MembersOf
    <3>2. i \in 1..Len(t) /\ t[i] = y BY <1>1, <3>1
    <3>3. QED BY <1>1, <3>2, MembersOf
  <2>3. x \in Members(t)
    <3>1. Len(s) + 1 \in 1..Len(t) BY <1>1
    <3>2. QED BY <1>1, <3>1, MembersOf
  <2>4. QED BY <2>1, <2>2, <2>3
<1>3. NoRepeat(s) /\ x \notin Members(s) => NoRepeat(t)
  BY <1>1, MembersOf DEF NoRepeat
<1>4. QED BY <1>1, <1>2, <1>3 DEF t

LEMMA FrontFacts ==
  ASSUME NEW S, NEW s \in Seq(S), NEW x \in S
  PROVE  /\ <<x>> \o s \in Seq(S)
         /\ Members(<<x>> \o s) = Members(s) \cup {x}
         /\ Len(<<x>> \o s) = Len(s) + 1
         /\ (<<x>> \o s)[1] = x
         /\ \A i \in 1..Len(s) : (<<x>> \o s)[i + 1] = s[i]
         /\ NoRepeat(s) /\ x \notin Members(s) => NoRepeat(<<x>> \o s)
<1> DEFINE t == <<x>> \o s
<1>1. /\ t \in Seq(S) /\ Len(t) = Len(s) + 1 /\ Len(s) \in Nat
      /\ \A i \in 1..(Len(s) + 1) : t[i] = IF i = 1 THEN x ELSE s[i - 1]
  BY ConcatProperties, LenProperties
<1> HIDE DEF t
<1>2. t[1] = x /\ \A i \in 1..Len(s) : t[i + 1] = s[i] BY <1>1
<1>3. Members(t) = Members(s) \cup {x}
  <2>1. \A y : y \in Members(t) => y = x \/ y \in Members(s)
    BY <1>1, MembersOf
  <2>2. x \in Members(t) BY <1>1, <1>2, MembersOf
  <2>3. \A y : y \in Members(s) => y \in Members(t)
    BY <1>1, <1>2, MembersOf
  <2>4. QED BY <2>1, <2>2, <2>3
<1>4. ASSUME NoRepeat(s), x \notin Members(s) PROVE NoRepeat(t)
  <2>1. \A i \in 1..Len(s) : s[i] # x BY <1>4, MembersOf
  <2>2. SUFFICES ASSUME NEW i \in 1..Len(t), NEW j \in 1..Len(t), t[i] = t[j] PROVE i = j
    BY DEF NoRepeat
  <2>3. CASE i = 1 \/ j = 1 BY <1>1, <2>1, <2>2, <2>3
  <2>4. CASE i # 1 /\ j # 1
    <3>1. i - 1 \in 1..Len(s) /\ j - 1 \in 1..Len(s) /\ s[i - 1] = s[j - 1]
      BY <1>1, <2>2, <2>4
    <3>2. i - 1 = j - 1 BY <1>4, <3>1 DEF NoRepeat
    <3>3. QED BY <1>1, <2>2, <3>2
  <2>5. QED BY <2>3, <2>4
<1>5. QED BY <1>1, <1>2, <1>3, <1>4 DEF t

\* The first n elements and the rest.
LEMMA SplitFacts ==
  ASSUME NEW S, NEW s \in Seq(S), NEW n \in 0..Len(s)
  PROVE  LET first == SubSeq(s, 1, n)
             rest == SubSeq(s, n + 1, Len(s))
         IN  /\ first \in Seq(S) /\ rest \in Seq(S)
             /\ Len(first) = n /\ Len(rest) = Len(s) - n
             /\ \A i \in 1..n : first[i] = s[i]
             /\ \A i \in 1..(Len(s) - n) : rest[i] = s[n + i]
             /\ Members(first) \cup Members(rest) = Members(s)
             /\ NoRepeat(s) => NoRepeat(rest) /\ Members(first) \cap Members(rest) = {}
<1> DEFINE first == SubSeq(s, 1, n)
           rest == SubSeq(s, n + 1, Len(s))
<1>1. Len(s) \in Nat /\ n \in Nat /\ n <= Len(s) /\ \A i \in 1..Len(s) : s[i] \in S
  BY LenProperties, ElementOfSeq
<1>2. first \in Seq(S) /\ Len(first) = n /\ \A i \in 1..n : first[i] = s[i]
  BY <1>1, SubSeqProperties
<1>3. rest \in Seq(S) /\ Len(rest) = Len(s) - n
      /\ \A i \in 1..(Len(s) - n) : rest[i] = s[n + i]
  <2>1. \A i \in (n + 1)..Len(s) : s[i] \in S BY <1>1
  <2>2. /\ rest \in Seq(S)
        /\ Len(rest) = IF n + 1 <= Len(s) THEN Len(s) - (n + 1) + 1 ELSE 0
        /\ \A i \in 1..(Len(s) - (n + 1) + 1) : rest[i] = s[n + 1 + i - 1]
    BY <1>1, <2>1, SubSeqProperties
  <2>3. QED BY <1>1, <2>2
<1> HIDE DEF first, rest
<1>4. Members(first) \cup Members(rest) = Members(s)
  <2>1. \A y : y \in Members(first) \/ y \in Members(rest) => y \in Members(s)
    <3>1. \A i \in 1..n : i \in 1..Len(s) BY <1>1
    <3>2. \A i \in 1..(Len(s) - n) : n + i \in 1..Len(s) BY <1>1
    <3>3. \A y : y \in Members(first) => y \in Members(s) BY <1>2, <3>1, MembersOf
    <3>4. \A y : y \in Members(rest) => y \in Members(s) BY <1>3, <3>2, MembersOf
    <3>5. QED BY <3>3, <3>4
  <2>2. ASSUME NEW y \in Members(s) PROVE y \in Members(first) \/ y \in Members(rest)
    <3>1. PICK i \in 1..Len(s) : s[i] = y BY <2>2, MembersOf
    <3>2. CASE i <= n BY <1>1, <1>2, <3>1, <3>2, MembersOf
    <3>3. CASE i > n
      <4>1. i - n \in 1..(Len(s) - n) /\ n + (i - n) = i BY <1>1, <3>1, <3>3
      <4>2. rest[i - n] = y BY <1>3, <3>1, <4>1
      <4>3. QED BY <1>3, <4>1, <4>2, MembersOf
    <3>4. QED BY <1>1, <3>1, <3>2, <3>3
  <2>3. QED BY <2>1, <2>2
<1>5. ASSUME NoRepeat(s) PROVE NoRepeat(rest) /\ Members(first) \cap Members(rest) = {}
  <2>1. NoRepeat(rest)
    <3>1. SUFFICES ASSUME NEW i \in 1..Len(rest), NEW j \in 1..Len(rest), rest[i] = rest[j]
                   PROVE  i = j
      BY DEF NoRepeat
    <3>2. n + i \in 1..Len(s) /\ n + j \in 1..Len(s) /\ s[n + i] = s[n + j]
      BY <1>1, <1>3, <3>1
    <3>3. n + i = n + j BY <1>5, <3>2 DEF NoRepeat
    <3>4. QED BY <1>1, <3>1, <3>3
  <2>2. ASSUME NEW y \in Members(first), y \in Members(rest) PROVE FALSE
    <3>1. PICK i \in 1..n : s[i] = y BY <1>2, <2>2, MembersOf
    <3>2. PICK j \in 1..(Len(s) - n) : s[n + j] = y BY <1>3, <2>2, MembersOf
    <3>3. i \in 1..Len(s) /\ n + j \in 1..Len(s) BY <1>1, <3>1, <3>2
    <3>4. i = n + j BY <1>5, <3>1, <3>2, <3>3 DEF NoRepeat
    <3>5. QED BY <1>1, <3>1, <3>2, <3>4
  <2>3. QED BY <2>1, <2>2
<1>6. QED BY <1>2, <1>3, <1>4, <1>5 DEF first, rest

-----------------------------------------------------------------------------
(* The outbox *)

\* The order in which records leave the queue is not inductive by itself: it
\* rests on every record being in one place, on nothing but a nack putting a
\* record in front, and on records that were not appended having no nacks.
OutboxInv ==
  /\ OutboxTypeOK
  /\ RecordsConserved
  /\ ClaimedInOrder
  /\ NoRepeat(appended)
  /\ \A x \in Records : x \notin Members(appended) => nacks[x] = 0

\* One element is before another, by position.
LEMMA BeforeDef ==
  ASSUME NEW S, NEW s \in Seq(S)
  PROVE  \A x, y : Before(s, x, y) <=> \E i, j \in 1..Len(s) : i < j /\ s[i] = x /\ s[j] = y
BY LenProperties DEF Before

LEMMA BeforeMembers ==
  ASSUME NEW S, NEW s \in Seq(S), NEW x, NEW y, Before(s, x, y)
  PROVE  x \in Members(s) /\ y \in Members(s)
BY BeforeDef, MembersOf

\* What stands in a sequence keeps its order when something is put in front or
\* at the end.
LEMMA BeforeAppended ==
  ASSUME NEW S, NEW s \in Seq(S), NEW e \in S, NEW x, NEW y
  PROVE  /\ Before(s, x, y) => Before(Append(s, e), x, y)
         /\ x \in Members(s) => Before(Append(s, e), x, e)
         /\ Before(Append(s, e), x, y) => Before(s, x, y) \/ (y = e /\ x \in Members(s))
<1> DEFINE t == Append(s, e)
<1>1. /\ t \in Seq(S) /\ Len(t) = Len(s) + 1 /\ Len(s) \in Nat
      /\ t[Len(s) + 1] = e
      /\ \A i \in 1..Len(s) : t[i] = s[i]
  BY AppendFacts, LenProperties
<1> HIDE DEF t
<1>2. \A a, b : Before(t, a, b) <=> \E i, j \in 1..Len(t) : i < j /\ t[i] = a /\ t[j] = b
  BY <1>1, BeforeDef
<1>3. ASSUME Before(s, x, y) PROVE Before(t, x, y)
  <2>1. PICK i, j \in 1..Len(s) : i < j /\ s[i] = x /\ s[j] = y BY <1>3, BeforeDef
  <2>2. i \in 1..Len(t) /\ j \in 1..Len(t) /\ t[i] = x /\ t[j] = y BY <1>1, <2>1
  <2>3. QED BY <1>2, <2>1, <2>2
<1>4. ASSUME x \in Members(s) PROVE Before(t, x, e)
  <2>1. PICK i \in 1..Len(s) : s[i] = x BY <1>4, MembersOf
  <2>2. i \in 1..Len(t) /\ Len(s) + 1 \in 1..Len(t) /\ i < Len(s) + 1 /\ t[i] = x
    BY <1>1, <2>1
  <2>3. QED BY <1>1, <1>2, <2>2
<1>5. ASSUME Before(t, x, y) PROVE Before(s, x, y) \/ (y = e /\ x \in Members(s))
  <2>1. PICK i, j \in 1..Len(t) : i < j /\ t[i] = x /\ t[j] = y BY <1>2, <1>5
  <2>2. i \in 1..Len(s) /\ s[i] = x BY <1>1, <2>1
  <2>3. CASE j = Len(s) + 1 BY <1>1, <2>1, <2>2, <2>3, MembersOf
  <2>4. CASE j # Len(s) + 1
    <3>1. j \in 1..Len(s) /\ s[j] = y BY <1>1, <2>1, <2>4
    <3>2. QED BY <2>1, <2>2, <3>1, BeforeDef
  <2>5. QED BY <2>3, <2>4
<1>6. QED BY <1>3, <1>4, <1>5 DEF t

LEMMA BeforeInFront ==
  ASSUME NEW S, NEW s \in Seq(S), NEW e \in S, NEW x, NEW y
  PROVE  /\ Before(s, x, y) => Before(<<e>> \o s, x, y)
         /\ y \in Members(s) => Before(<<e>> \o s, e, y)
<1> DEFINE t == <<e>> \o s
<1>1. /\ t \in Seq(S) /\ Len(t) = Len(s) + 1 /\ Len(s) \in Nat
      /\ t[1] = e
      /\ \A i \in 1..Len(s) : t[i + 1] = s[i]
  BY FrontFacts, LenProperties
<1> HIDE DEF t
<1>2. \A a, b : Before(t, a, b) <=> \E i, j \in 1..Len(t) : i < j /\ t[i] = a /\ t[j] = b
  <2>1. t \in Seq(S) BY <1>1
  <2>2. QED BY <2>1, BeforeDef
<1>3. ASSUME Before(s, x, y) PROVE Before(t, x, y)
  <2>1. PICK i, j \in 1..Len(s) : i < j /\ s[i] = x /\ s[j] = y BY <1>3, BeforeDef
  <2>2. /\ i + 1 \in 1..Len(t) /\ j + 1 \in 1..Len(t) /\ i + 1 < j + 1
        /\ t[i + 1] = x /\ t[j + 1] = y
    BY <1>1, <2>1
  <2>3. QED BY <1>2, <2>2
<1>4. ASSUME y \in Members(s) PROVE Before(t, e, y)
  <2>1. PICK j \in 1..Len(s) : s[j] = y BY <1>4, MembersOf
  <2>2. 1 \in 1..Len(t) /\ j + 1 \in 1..Len(t) /\ 1 < j + 1 /\ t[j + 1] = y BY <1>1, <2>1
  <2>3. QED BY <1>1, <1>2, <2>2
<1>5. QED BY <1>3, <1>4 DEF t

\* Of a sequence without repetitions a rest that still holds the first of two
\* elements holds the second, in that order.
LEMMA BeforeInRest ==
  ASSUME NEW S, NEW s \in Seq(S), NoRepeat(s), NEW n \in 0..Len(s), NEW x, NEW y,
         Before(s, x, y), x \in Members(SubSeq(s, n + 1, Len(s)))
  PROVE  Before(SubSeq(s, n + 1, Len(s)), x, y)
<1> DEFINE t == SubSeq(s, n + 1, Len(s))
<1>1. /\ t \in Seq(S) /\ Len(t) = Len(s) - n /\ n \in Nat /\ Len(s) \in Nat
      /\ \A i \in 1..(Len(s) - n) : t[i] = s[n + i]
  BY SplitFacts, LenProperties
<1> HIDE DEF t
<1>2. x \in Members(t) BY DEF t
<1>3. PICK k \in 1..Len(t) : t[k] = x BY <1>1, <1>2, MembersOf
<1>4. PICK i, j \in 1..Len(s) : i < j /\ s[i] = x /\ s[j] = y BY BeforeDef
<1>5. n + k \in 1..Len(s) /\ s[n + k] = x BY <1>1, <1>3
<1>6. i = n + k BY <1>4, <1>5 DEF NoRepeat
<1>7. j - n \in 1..Len(t) /\ k < j - n /\ t[j - n] = y
  <2>1. j - n \in 1..(Len(s) - n) /\ k < j - n /\ n + (j - n) = j BY <1>1, <1>3, <1>4, <1>6
  <2>2. QED BY <1>1, <1>4, <2>1
<1>8. Before(t, x, y) BY <1>1, <1>3, <1>7, BeforeDef
<1>9. QED BY <1>8 DEF t

LEMMA OutboxTypes ==
  ASSUME OutboxInv
  PROVE  /\ queue \in Seq(Records) /\ appended \in Seq(Records)
         /\ NoRepeat(queue) /\ NoRepeat(appended)
         /\ Members(queue) \subseteq Records /\ Members(appended) \subseteq Records
         /\ held \in [Relays -> SUBSET Records] /\ claimed \subseteq Records
         /\ nacks \in [Records -> 0..MaxNacks]
BY CountMembers, MembersOf DEF OutboxInv, OutboxTypeOK

LEMMA OutboxInitInv == OutboxInit => OutboxInv
<1>1. SUFFICES ASSUME OutboxInit PROVE OutboxInv OBVIOUS
<1>2. Members(<<>>) = {} /\ Cardinality({}) = 0 /\ Len(<<>>) = 0 /\ <<>> \in Seq(Records)
  BY FS_EmptySet DEF Members
<1>3. OutboxTypeOK
  <2>1. queue = <<>> /\ appended = <<>> /\ claimed = {} /\ acked = {} BY <1>1 DEF OutboxInit
  <2>2. held \in [Relays -> SUBSET Records] BY <1>1 DEF OutboxInit
  <2>3. nacks \in [Records -> 0..MaxNacks] BY <1>1, OutboxAssumption DEF OutboxInit
  <2>4. Cardinality(Members(queue)) = Len(queue) BY <1>2, <2>1
  <2>5. QED BY <1>2, <2>1, <2>2, <2>3, <2>4 DEF OutboxTypeOK
<1>4. RecordsConserved BY <1>1, <1>2 DEF OutboxInit, RecordsConserved
<1>5. ClaimedInOrder /\ NoRepeat(appended) BY <1>1, <1>2 DEF OutboxInit, ClaimedInOrder, NoRepeat
<1>6. QED BY <1>1, <1>3, <1>4, <1>5 DEF OutboxInit, OutboxInv

LEMMA AppendRecordStep == ASSUME OutboxInv, NEW z \in Records, AppendRecord(z) PROVE OutboxInv'
<1> USE DEF OutboxInv
<1>1. /\ z \notin Members(appended)
      /\ queue' = Append(queue, z) /\ appended' = Append(appended, z)
      /\ UNCHANGED <<claimed, held, acked, nacks>>
  BY DEF AppendRecord
<1>2. /\ queue \in Seq(Records) /\ appended \in Seq(Records)
      /\ NoRepeat(queue) /\ NoRepeat(appended)
  BY OutboxTypes
<1>3. z \notin Members(queue) /\ z \notin claimed /\ z \notin acked
  BY <1>1 DEF RecordsConserved
<1>4. /\ queue' \in Seq(Records) /\ Members(queue') = Members(queue) \cup {z} /\ NoRepeat(queue')
  BY <1>1, <1>2, <1>3, AppendFacts
<1>5. /\ appended' \in Seq(Records) /\ Members(appended') = Members(appended) \cup {z}
      /\ NoRepeat(appended')
  BY <1>1, <1>2, AppendFacts
<1>6. OutboxTypeOK' BY <1>1, <1>4, <1>5, CountMembers DEF OutboxTypeOK
<1>7. RecordsConserved' BY <1>1, <1>3, <1>4, <1>5 DEF RecordsConserved
<1>8. ClaimedInOrder'
  <2>1. SUFFICES ASSUME NEW x \in Members(appended'), NEW y \in Members(appended'),
                        Before(appended', x, y), nacks[x] = 0, x \in Members(queue')
                 PROVE  /\ nacks[y] = 0 => Before(queue', x, y)
                        /\ nacks[y] > 0 /\ y \in Members(queue') => Before(queue', y, x)
    BY <1>1 DEF ClaimedInOrder
  <2>2. Before(appended, x, y) \/ (y = z /\ x \in Members(appended))
    BY <1>1, <1>2, <2>1, BeforeAppended
  <2>3. CASE Before(appended, x, y)
    <3>1. x \in Members(appended) /\ y \in Members(appended) BY <1>2, <2>3, BeforeMembers
    <3>2. x # z /\ y # z BY <1>1, <3>1
    <3>3. x \in Members(queue) BY <1>4, <2>1, <3>2
    <3>4. /\ nacks[y] = 0 => Before(queue, x, y)
          /\ nacks[y] > 0 /\ y \in Members(queue) => Before(queue, y, x)
      BY <2>1, <2>3, <3>1, <3>3 DEF ClaimedInOrder
    <3>5. QED BY <1>1, <1>2, <1>4, <3>2, <3>4, BeforeAppended
  <2>4. CASE y = z /\ x \in Members(appended)
    <3>1. x \in Members(queue) BY <1>1, <1>4, <2>1, <2>4
    <3>2. Before(queue', x, y) BY <1>1, <1>2, <2>4, <3>1, BeforeAppended
    <3>3. nacks[y] = 0 BY <1>1, <2>4
    <3>4. QED BY <3>2, <3>3
  <2>5. QED BY <2>2, <2>3, <2>4
<1>9. \A x \in Records : x \notin Members(appended') => nacks'[x] = 0 BY <1>1, <1>5
<1>10. QED BY <1>5, <1>6, <1>7, <1>8, <1>9

\* A claim cuts the queue in two: the batch and the rest.
LEMMA ClaimStep ==
  ASSUME OutboxInv, NEW r \in Relays, NEW limit \in Limits, Claim(r, limit)
  PROVE  OutboxInv'
<1> DEFINE n == BatchSize(limit)
           batch == Members(SubSeq(queue, 1, n))
<1> USE DEF OutboxInv
<1>1. /\ queue' = SubSeq(queue, n + 1, Len(queue))
      /\ claimed' = claimed \cup batch
      /\ held' = [held EXCEPT ![r] = @ \cup batch]
      /\ UNCHANGED <<acked, nacks, appended>>
  BY DEF Claim
<1>2. /\ queue \in Seq(Records) /\ NoRepeat(queue) /\ Members(queue) \subseteq Records
      /\ held \in [Relays -> SUBSET Records]
  BY OutboxTypes
<1>3. n \in 0..Len(queue)
  <2>1. limit \in Nat /\ Len(queue) \in Nat BY <1>2, OutboxAssumption, LenProperties
  <2>2. QED BY <2>1 DEF BatchSize
<1> HIDE DEF n
<1>4. /\ queue' \in Seq(Records) /\ NoRepeat(queue')
      /\ batch \cup Members(queue') = Members(queue)
      /\ batch \cap Members(queue') = {}
  BY <1>1, <1>2, <1>3, SplitFacts
<1> HIDE DEF batch
<1>5. /\ held'[r] = held[r] \cup batch
      /\ \A s \in Relays \ {r} : held'[s] = held[s]
      /\ held' \in [Relays -> SUBSET Records]
  BY <1>1, <1>2, <1>4
<1>6. OutboxTypeOK' BY <1>1, <1>2, <1>4, <1>5, CountMembers DEF OutboxTypeOK
<1>7. RecordsConserved'
  <2>1. claimed' = UNION {held'[s] : s \in Relays}
    BY <1>1, <1>5 DEF RecordsConserved
  <2>2. \A s \in Relays : held[s] \cap batch = {}
    BY <1>4 DEF RecordsConserved
  <2>3. \A s, t \in Relays : s # t => held'[s] \cap held'[t] = {}
    BY <1>5, <2>2 DEF RecordsConserved
  <2>4. QED BY <1>1, <1>4, <2>1, <2>3 DEF RecordsConserved
<1>8. ClaimedInOrder'
  <2>1. SUFFICES ASSUME NEW x \in Members(appended), NEW y \in Members(appended),
                        Before(appended, x, y), nacks[x] = 0, x \in Members(queue')
                 PROVE  /\ nacks[y] = 0 => Before(queue', x, y)
                        /\ nacks[y] > 0 /\ y \in Members(queue') => Before(queue', y, x)
    BY <1>1 DEF ClaimedInOrder
  <2>2. x \in Members(queue) /\ (y \in Members(queue') => y \in Members(queue))
    BY <1>4, <2>1
  <2>3. /\ nacks[y] = 0 => Before(queue, x, y)
        /\ nacks[y] > 0 /\ y \in Members(queue) => Before(queue, y, x)
    BY <2>1, <2>2 DEF ClaimedInOrder
  <2>4. ASSUME Before(queue, x, y) PROVE Before(queue', x, y)
    BY <1>1, <1>2, <1>3, <2>1, <2>4, BeforeInRest
  <2>5. ASSUME Before(queue, y, x), y \in Members(queue') PROVE Before(queue', y, x)
    BY <1>1, <1>2, <1>3, <2>5, BeforeInRest
  <2>6. QED BY <2>2, <2>3, <2>4, <2>5
<1>9. QED BY <1>1, <1>6, <1>7, <1>8

LEMMA AckStep == ASSUME OutboxInv, NEW r \in Relays, NEW x \in Records, Ack(r, x) PROVE OutboxInv'
<1> USE DEF OutboxInv
<1>1. /\ x \in held[r]
      /\ claimed' = claimed \ {x} /\ acked' = acked \cup {x}
      /\ held' = [held EXCEPT ![r] = @ \ {x}]
      /\ UNCHANGED <<queue, nacks, appended>>
  BY DEF Ack
<1>2. /\ held'[r] = held[r] \ {x} /\ \A s \in Relays \ {r} : held'[s] = held[s]
      /\ held' \in [Relays -> SUBSET Records]
  BY <1>1, OutboxTypes
<1>3. OutboxTypeOK' BY <1>1, <1>2 DEF OutboxTypeOK
<1>4. x \in claimed /\ x \notin Members(queue) /\ \A s \in Relays \ {r} : x \notin held[s]
  BY <1>1 DEF RecordsConserved
<1>5. RecordsConserved'
  <2>1. claimed' = UNION {held'[s] : s \in Relays} BY <1>1, <1>2, <1>4 DEF RecordsConserved
  <2>2. \A s, t \in Relays : s # t => held'[s] \cap held'[t] = {}
    BY <1>2 DEF RecordsConserved
  <2>3. QED BY <1>1, <1>4, <2>1, <2>2 DEF RecordsConserved
<1>6. ClaimedInOrder' BY <1>1 DEF ClaimedInOrder
<1>7. QED BY <1>1, <1>3, <1>5, <1>6

\* A nacked record is claimed, so it goes to the front.
LEMMA NackStep == ASSUME OutboxInv, NEW r \in Relays, NEW z \in Records, Nack(r, z) PROVE OutboxInv'
<1> USE DEF OutboxInv
<1>1. /\ z \in held[r] /\ nacks[z] < MaxNacks
      /\ claimed' = claimed \ {z}
      /\ queue' = IF z \in claimed THEN <<z>> \o queue ELSE queue
      /\ held' = [held EXCEPT ![r] = @ \ {z}]
      /\ nacks' = [nacks EXCEPT ![z] = @ + 1]
      /\ UNCHANGED <<acked, appended>>
  BY DEF Nack
<1>2. z \in claimed /\ z \notin Members(queue) /\ \A s \in Relays \ {r} : z \notin held[s]
  BY <1>1 DEF RecordsConserved
<1>3. /\ queue \in Seq(Records) /\ NoRepeat(queue)
      /\ nacks \in [Records -> 0..MaxNacks]
  BY OutboxTypes
<1>4. queue' = <<z>> \o queue BY <1>1, <1>2
<1>5. queue' \in Seq(Records) /\ NoRepeat(queue') /\ Members(queue') = Members(queue) \cup {z}
  BY <1>2, <1>3, <1>4, FrontFacts
<1>6. /\ held'[r] = held[r] \ {z} /\ \A s \in Relays \ {r} : held'[s] = held[s]
      /\ held' \in [Relays -> SUBSET Records]
  BY <1>1, OutboxTypes
<1>7. /\ nacks' \in [Records -> 0..MaxNacks]
      /\ nacks'[z] > 0 /\ \A x \in Records \ {z} : nacks'[x] = nacks[x]
  BY <1>1, <1>3, OutboxAssumption
<1>8. OutboxTypeOK' BY <1>1, <1>5, <1>6, <1>7, CountMembers DEF OutboxTypeOK
<1>9. RecordsConserved'
  <2>1. claimed' = UNION {held'[s] : s \in Relays} BY <1>1, <1>2, <1>6 DEF RecordsConserved
  <2>2. \A s, t \in Relays : s # t => held'[s] \cap held'[t] = {}
    BY <1>6 DEF RecordsConserved
  <2>3. QED BY <1>1, <1>2, <1>5, <2>1, <2>2 DEF RecordsConserved
<1>10. ClaimedInOrder'
  <2>1. SUFFICES ASSUME NEW x \in Members(appended), NEW y \in Members(appended),
                        Before(appended, x, y), nacks'[x] = 0, x \in Members(queue')
                 PROVE  /\ nacks'[y] = 0 => Before(queue', x, y)
                        /\ nacks'[y] > 0 /\ y \in Members(queue') => Before(queue', y, x)
    BY <1>1 DEF ClaimedInOrder
  <2>2. x \in Records /\ y \in Records BY OutboxTypes
  <2>3. x # z BY <1>7, <2>1
  <2>4. nacks[x] = 0 /\ x \in Members(queue) BY <1>5, <1>7, <2>1, <2>2, <2>3
  <2>5. /\ nacks[y] = 0 => Before(queue, x, y)
        /\ nacks[y] > 0 /\ y \in Members(queue) => Before(queue, y, x)
    BY <2>1, <2>4 DEF ClaimedInOrder
  <2>6. CASE y = z
    <3>1. Before(queue', y, x) BY <1>3, <1>4, <2>4, <2>6, BeforeInFront
    <3>2. QED BY <1>7, <2>6, <3>1
  <2>7. CASE y # z
    <3>1. nacks'[y] = nacks[y] /\ (y \in Members(queue') => y \in Members(queue))
      BY <1>5, <1>7, <2>2, <2>7
    <3>2. Before(queue, x, y) => Before(queue', x, y) BY <1>3, <1>4, BeforeInFront
    <3>3. Before(queue, y, x) => Before(queue', y, x) BY <1>3, <1>4, BeforeInFront
    <3>4. QED BY <2>5, <3>1, <3>2, <3>3
  <2>8. QED BY <2>6, <2>7
<1>11. \A x \in Records : x \notin Members(appended') => nacks'[x] = 0
  <2>1. z \in Members(appended) BY <1>2 DEF RecordsConserved
  <2>2. QED BY <1>1, <1>7, <2>1
<1>12. QED BY <1>1, <1>8, <1>9, <1>10, <1>11

LEMMA OutboxNextInv == OutboxInv /\ [OutboxNext]_outboxVars => OutboxInv'
<1>1. SUFFICES ASSUME OutboxInv, [OutboxNext]_outboxVars PROVE OutboxInv' OBVIOUS
<1>2. CASE UNCHANGED outboxVars
  BY <1>1, <1>2 DEF outboxVars, OutboxInv, OutboxTypeOK, RecordsConserved, ClaimedInOrder
<1>3. CASE OutboxNext
  BY <1>1, <1>3, AppendRecordStep, ClaimStep, AckStep, NackStep DEF OutboxNext, Relay
<1>4. QED BY <1>1, <1>2, <1>3

\* Every reachable state satisfies the strengthened invariant.
THEOREM OutboxInvariant == OutboxSpec => []OutboxInv
BY OutboxInitInv, OutboxNextInv, PTL DEF OutboxSpec

\* However many relays claim, ack and nack: every record is in one place until
\* it is acked, and records that were never nacked are handed out in the order
\* they were appended in, behind all that were.
THEOREM RecordsAlwaysKept == OutboxSpec => []RecordsKept
<1>1. OutboxInv => RecordsKept BY DEF OutboxInv, RecordsKept
<1>2. QED BY <1>1, OutboxInvariant, PTL

-----------------------------------------------------------------------------
(* Going from each number to the next *)

\* Every non-empty set of numbers has a least one: induction, without a
\* predicate to instantiate.
LEMMA LeastNat ==
  ASSUME NEW T, T \subseteq Nat, T # {}
  PROVE  \E x \in T : \A y \in T : x <= y
<1> DEFINE R == OpToRel(<, Nat)
<1>1. IsWellFoundedOn(R, Nat)
  BY NatLessThanWellFounded
<1>2. \A x, y \in Nat : <<y, x>> \in R <=> y < x
  BY DEF OpToRel
<1> HIDE DEF R
<1>3. \E x \in T : \A y \in T : ~ (<<y, x>> \in R)
  BY <1>1, WFMin
<1>4. PICK x \in T : \A y \in T : ~ (<<y, x>> \in R)
  BY <1>3
<1>5. ASSUME NEW y \in T  PROVE x <= y
  <2>1. x \in Nat /\ y \in Nat /\ ~ (<<y, x>> \in R)
    BY <1>4
  <2>2. ~ (y < x)
    BY <1>2, <2>1
  <2>3. QED BY <2>1, <2>2
<1>6. QED BY <1>5

\* Hence a set of numbers that has 0 and with every number the next has them all.
LEMMA Reached ==
  ASSUME NEW n \in Nat, NEW G, 0 \in G, \A k \in 0..n : k \in G /\ k < n => k + 1 \in G
  PROVE  \A k \in 0..n : k \in G
<1> DEFINE T == {k \in Nat : k <= n /\ k \notin G}
<1>1. SUFFICES ASSUME T # {} PROVE FALSE
  OBVIOUS
<1>2. PICK x \in T : \A y \in T : x <= y
  <2>1. T \subseteq Nat
    OBVIOUS
  <2> HIDE DEF T
  <2>2. QED BY <1>1, <2>1, LeastNat
<1>3. x \in Nat /\ x <= n /\ x \notin G /\ x # 0
  OBVIOUS
<1>4. x - 1 \in Nat /\ x - 1 < n /\ x - 1 \in 0..n
  BY <1>3
<1>5. x - 1 \notin T
  BY <1>2, <1>3, <1>4
<1>6. x - 1 \in G
  BY <1>4, <1>5
<1>7. (x - 1) + 1 \in G
  BY <1>4, <1>6
<1>8. QED BY <1>3, <1>7

\* f begins with a and goes from each number to the next by its step.
Follows(f, n, S, a, step) ==
  f \in [0..n -> S] /\ f[0] = a /\ \A i \in 1..n : f[i] = step[i][f[i - 1]]

\* What is defined by going from each number to the next exists.
LEMMA Iterates ==
  ASSUME NEW n \in Nat, NEW S, NEW a \in S, NEW step \in [1..n -> [S -> S]]
  PROVE  \E f : Follows(f, n, S, a, step)
<1> DEFINE Is(f, j) == /\ f \in [0..j -> S] /\ f[0] = a
                       /\ \A i \in 1..j : f[i] = step[i][f[i - 1]]
           G == {j \in Nat : \E f : Is(f, j)}
<1>1. 0 \in G
  <2>1. Is([i \in 0..0 |-> a], 0)
    OBVIOUS
  <2>2. QED BY <2>1
<1>2. ASSUME NEW j \in 0..n, j \in G, j < n  PROVE j + 1 \in G
  <2>1. PICK f : Is(f, j)
    BY <1>2
  <2>2. PICK g : g = [i \in 0..(j + 1) |-> IF i <= j THEN f[i] ELSE step[j + 1][f[j]]]
    OBVIOUS
  <2>3. j \in Nat /\ j + 1 \in 1..n /\ f[j] \in S
    BY <1>2, <2>1
  <2>4. step[j + 1] \in [S -> S]
    BY <2>3
  <2>5. step[j + 1][f[j]] \in S
    BY <2>3, <2>4
  <2>6. \A i \in 0..j : g[i] = f[i] /\ f[i] \in S
    BY <2>1, <2>2, <2>3
  <2>7. g[j + 1] = step[j + 1][f[j]]
    BY <2>2, <2>3
  <2>8. g \in [0..(j + 1) -> S]
    <3>1. \A i \in 0..(j + 1) : i \in 0..j \/ i = j + 1
      BY <2>3
    <3>2. \A i \in 0..(j + 1) : g[i] \in S
      BY <2>5, <2>6, <2>7, <3>1
    <3>3. DOMAIN g = 0..(j + 1) /\ g = [i \in 0..(j + 1) |-> g[i]]
      BY <2>2
    <3>4. QED BY <3>2, <3>3
  <2>9. g[0] = a
    BY <2>1, <2>3, <2>6
  <2>10. ASSUME NEW i \in 1..(j + 1)  PROVE g[i] = step[i][g[i - 1]]
    <3>1. CASE i <= j
      <4>1. i \in 1..j /\ i \in 0..j /\ i - 1 \in 0..j
        BY <2>3, <3>1
      <4>2. QED BY <2>1, <2>6, <4>1
    <3>2. CASE i = j + 1
      <4>1. i - 1 = j /\ j \in 0..j
        BY <2>3, <3>2
      <4>2. QED BY <2>6, <2>7, <3>2, <4>1
    <3>3. QED BY <2>3, <3>1, <3>2
  <2>11. \E h : Is(h, j + 1)
    BY <2>8, <2>9, <2>10
  <2> HIDE DEF Is
  <2>12. j + 1 \in Nat
    BY <2>3
  <2>13. QED BY <2>11, <2>12
<1>3. n \in G
  <2> HIDE DEF G
  <2>1. \A k \in 0..n : k \in G
    BY <1>1, <1>2, Reached
  <2>2. QED BY <2>1
<1>4. PICK f : Is(f, n)
  BY <1>3
<1>5. QED BY <1>4 DEF Follows


-----------------------------------------------------------------------------
(* The event bus *)

\* s is the first part of t.
Begins(s, t) == Len(s) <= Len(t) /\ \A i \in 1..Len(s) : s[i] = t[i]

Entry == [publication : Publications, position : Nat, handler : Handlers, attempts : Nat]
Place == [at : {"new", "calling", "done"}, array : Nat, position : Nat, attempts : Nat]

\* What the type invariant leaves open.
BusShape ==
  /\ progress \in [Publications -> Place]
  /\ calls \in [Publications -> Seq(Nat)]
  /\ deadLetter \in Seq(Entry)
  /\ served \in [Publications -> Seq(Handlers)]
  /\ audience \in [Publications -> Seq(Handlers)]

\* The array a publication walks.
Walked(p) == arrays[progress[p].array]

\* A publication has finished with the first entries of the array it walks, is
\* calling the one behind them, and has called no other.  What was subscribed
\* when it began is still the first part of that array.
Right(p) ==
  /\ Begins(served[p], Walked(p))
  /\ progress[p].at = "new" => served[p] = <<>> /\ calls[p] = <<>>
  /\ progress[p].at = "calling" =>
       /\ Len(served[p]) = progress[p].position - 1
       /\ Len(calls[p]) = progress[p].position
       /\ calls[p][progress[p].position] = progress[p].attempts
       /\ Begins(audience[p], Walked(p))
  /\ progress[p].at = "done" => Begins(audience[p], served[p])

\* The calls made for each entry, and no more than for an entry finished with.
Counted(p) ==
  /\ Len(served[p]) <= Len(calls[p])
  /\ \A i \in 1..Len(calls[p]) : calls[p][i] <= MaxDeliveries

WalkRight == \A p \in Publications : Right(p) /\ Counted(p)

BusInv == EventBusTypeOK /\ BusShape /\ WalkRight /\ DeadLetterExact

LEMMA ElementsOf ==
  ASSUME NEW S, NEW s \in Seq(S)
  PROVE  /\ Len(s) \in Nat /\ DOMAIN s = 1..Len(s)
         /\ \A i \in 1..Len(s) : s[i] \in S
BY LenProperties, ElementOfSeq

LEMMA BeginsTransitive ==
  ASSUME NEW s \in Seq(Handlers), NEW t \in Seq(Handlers), NEW u \in Seq(Handlers),
         Begins(s, t), Begins(t, u)
  PROVE  Begins(s, u)
<1>1. Len(s) \in Nat /\ Len(t) \in Nat /\ Len(u) \in Nat
  BY ElementsOf
<1>2. QED BY <1>1 DEF Begins

LEMMA BusTypes ==
  ASSUME BusInv
  PROVE  /\ arrays \in Seq(Seq(Handlers)) /\ Len(arrays) \in 1..MaxArrays
         /\ Len(arrays) \in Nat /\ DOMAIN arrays = 1..Len(arrays)
         /\ \A i \in 1..Len(arrays) : arrays[i] \in Seq(Handlers)
         /\ installed \in Seq(Handlers)
         /\ \A p \in Publications : progress[p].array \in 1..Len(arrays) /\ Walked(p) \in Seq(Handlers)
<1>1. arrays \in Seq(Seq(Handlers)) /\ Len(arrays) \in 1..MaxArrays
  BY DEF BusInv, EventBusTypeOK
<1>2. /\ Len(arrays) \in Nat /\ DOMAIN arrays = 1..Len(arrays)
      /\ \A i \in 1..Len(arrays) : arrays[i] \in Seq(Handlers)
  BY <1>1, ElementsOf
<1>3. Len(arrays) \in 1..Len(arrays) BY <1>1, EventBusAssumption
<1>4. \A p \in Publications : progress[p].array \in 1..Len(arrays)
  BY <1>2 DEF BusInv, EventBusTypeOK
<1>5. QED BY <1>1, <1>2, <1>3, <1>4 DEF installed, Walked

\* Dropping a handler leaves an array of handlers: filter() goes from each entry
\* to the next.
LEMMA WithoutTyped ==
  ASSUME NEW s \in Seq(Handlers), NEW h
  PROVE  Without(s, h) \in Seq(Handlers)
<1> DEFINE L == Len(s)
           T == Seq(Handlers)
           Is(f) == f = [n \in 0..L |-> IF n = 0 THEN <<>>
                                        ELSE IF s[n] = h THEN f[n - 1]
                                        ELSE Append(f[n - 1], s[n])]
           step == [i \in 1..L |-> [x \in T |-> IF s[i] = h THEN x ELSE Append(x, s[i])]]
<1>1. L \in Nat /\ \A i \in 1..L : s[i] \in Handlers
  BY ElementsOf
<1>2. <<>> \in T /\ \A x \in T, i \in 1..L : Append(x, s[i]) \in T
  BY <1>1, AppendProperties
<1>3. step \in [1..L -> [T -> T]]
  BY <1>2
<1>4. \A i \in 1..L, x \in T : step[i][x] = IF s[i] = h THEN x ELSE Append(x, s[i])
  OBVIOUS
<1> HIDE DEF L, T, step
<1>5. PICK f : Follows(f, L, T, <<>>, step)
  BY <1>1, <1>2, <1>3, Iterates
<1>6. f \in [0..L -> T] /\ f[0] = <<>> /\ \A i \in 1..L : f[i] = step[i][f[i - 1]]
  BY <1>5 DEF Follows
<1>7. \A i \in 1..L : f[i] = IF s[i] = h THEN f[i - 1] ELSE Append(f[i - 1], s[i])
  <2>1. ASSUME NEW i \in 1..L PROVE f[i - 1] \in T
    <3>1. i - 1 \in 0..L BY <1>1
    <3>2. QED BY <1>6, <3>1
  <2>2. QED BY <1>4, <1>6, <2>1
<1>8. Is(f)
  <2>1. \A n \in 0..L : f[n] = IF n = 0 THEN <<>>
                               ELSE IF s[n] = h THEN f[n - 1]
                               ELSE Append(f[n - 1], s[n])
    <3>1. \A n \in 0..L : n = 0 \/ n \in 1..L BY <1>1
    <3>2. QED BY <1>6, <1>7, <3>1
  <2>2. QED BY Zenon, <1>6, <2>1
<1>9. PICK g : g = CHOOSE x : Is(x)
  OBVIOUS
<1>10. Is(g)
  BY Zenon, <1>8, <1>9
<1>11. \A n \in 0..L : g[n] = IF n = 0 THEN <<>>
                              ELSE IF s[n] = h THEN g[n - 1]
                              ELSE Append(g[n - 1], s[n])
  BY Zenon, <1>10
<1>12. \A n \in 0..L : g[n] \in T
  <2> DEFINE G == {n \in 0..L : g[n] \in T}
  <2>1. 0 \in 0..L /\ g[0] = <<>> BY <1>1, <1>11
  <2>2. 0 \in G BY <1>2, <2>1
  <2>3. ASSUME NEW k \in 0..L, k \in G, k < L PROVE k + 1 \in G
    <3>1. k + 1 \in 0..L /\ k + 1 \in 1..L /\ k + 1 # 0 /\ (k + 1) - 1 = k /\ g[k] \in T
      BY <1>1, <2>3
    <3>2. g[k + 1] = IF s[k + 1] = h THEN g[k] ELSE Append(g[k], s[k + 1])
      BY <1>11, <3>1
    <3>3. g[k + 1] \in T BY <1>2, <3>1, <3>2
    <3>4. QED BY <3>1, <3>3
  <2> HIDE DEF G
  <2>4. \A k \in 0..L : k \in G BY <1>1, <2>2, <2>3, Reached
  <2>5. QED BY <2>4 DEF G
<1>13. Without(s, h) = g[L]
  BY Zenon, <1>9 DEF Without, L
<1>14. L \in 0..L BY <1>1
<1>15. QED BY <1>12, <1>13, <1>14 DEF T

LEMMA BusInitInv == EventBusInit => BusInv
<1>1. SUFFICES ASSUME EventBusInit PROVE BusInv OBVIOUS
<1>2. /\ arrays = <<<<>>>> /\ deadLetter = <<>>
      /\ progress = [p \in Publications |-> NotBegun]
      /\ calls = [p \in Publications |-> <<>>]
      /\ served = [p \in Publications |-> <<>>]
      /\ audience = [p \in Publications |-> <<>>]
  BY <1>1 DEF EventBusInit
<1>3. <<>> \in Seq(Handlers) /\ Len(<<>>) = 0
  OBVIOUS
<1>4. arrays \in Seq(Seq(Handlers)) /\ Len(arrays) = 1 /\ arrays[1] = <<>>
  BY <1>2, <1>3
<1>5. EventBusTypeOK
  <2>1. Len(arrays) \in 1..MaxArrays BY <1>4, EventBusAssumption
  <2>2. 1 \in DOMAIN arrays BY <1>4, LenProperties
  <2>3. QED BY <1>2, <1>4, <2>1, <2>2 DEF EventBusTypeOK, NotBegun
<1>6. BusShape BY <1>2, <1>3 DEF BusShape, NotBegun, Place, Entry
<1>7. WalkRight
  BY <1>2, <1>3, <1>4, EventBusAssumption DEF WalkRight, Right, Counted, NotBegun, Begins, Walked
<1>8. DeadLetterExact
  <2>1. DOMAIN deadLetter = {} BY <1>2
  <2>2. \A p \in Publications : DOMAIN calls[p] = {} BY <1>2
  <2>3. QED BY <2>1, <2>2 DEF DeadLetterExact
<1>9. QED BY <1>5, <1>6, <1>7, <1>8 DEF BusInv

\* Subscriptions never change what a publication can still reach of the array
\* it walks: every array installed so far keeps its entries at their places.
LEMMA GrowStep ==
  ASSUME BusInv,
         arrays' \in Seq(Seq(Handlers)), Len(arrays') \in 1..MaxArrays,
         Len(arrays) <= Len(arrays'),
         \A i \in 1..Len(arrays) : Begins(arrays[i], arrays'[i]),
         UNCHANGED <<progress, calls, deadLetter, served, audience>>
  PROVE  BusInv'
<1>1. /\ Len(arrays) \in Nat /\ Len(arrays') \in Nat
      /\ DOMAIN arrays = 1..Len(arrays) /\ DOMAIN arrays' = 1..Len(arrays')
  BY BusTypes, LenProperties
<1>2. ASSUME NEW p \in Publications
      PROVE  /\ progress[p].array \in DOMAIN arrays'
             /\ Walked(p) \in Seq(Handlers) /\ Walked(p)' \in Seq(Handlers)
             /\ Begins(Walked(p), Walked(p)')
  <2>1. progress[p].array \in 1..Len(arrays) /\ Walked(p) \in Seq(Handlers) BY BusTypes
  <2>2. progress[p].array \in 1..Len(arrays') BY <1>1, <2>1
  <2>3. arrays'[progress[p].array] \in Seq(Handlers) BY <2>2, ElementOfSeq
  <2>4. QED BY <1>1, <2>1, <2>2, <2>3 DEF Walked
<1>3. EventBusTypeOK'
  <2>1. ASSUME NEW p \in Publications, progress[p].at = "calling"
        PROVE  progress[p].position \in DOMAIN Walked(p)'
    <3>1. progress[p].position \in DOMAIN Walked(p)
      BY <2>1 DEF BusInv, EventBusTypeOK, Walked
    <3>2. QED BY <1>2, <3>1, ElementsOf DEF Begins
  <2>2. QED BY <1>2, <2>1 DEF BusInv, EventBusTypeOK, Walked
<1>4. BusShape' BY DEF BusInv, BusShape
<1>5. DeadLetterExact' BY DEF BusInv, DeadLetterExact
<1>6. WalkRight'
  <2>1. SUFFICES ASSUME NEW p \in Publications
                 PROVE  /\ Begins(served[p], Walked(p)')
                        /\ progress[p].at = "calling" => Begins(audience[p], Walked(p)')
    BY DEF BusInv, WalkRight, Right, Counted
  <2>2. served[p] \in Seq(Handlers) /\ audience[p] \in Seq(Handlers)
    BY DEF BusInv, BusShape
  <2>3. Begins(served[p], Walked(p)) /\ (progress[p].at = "calling" => Begins(audience[p], Walked(p)))
    BY DEF BusInv, WalkRight, Right
  <2>4. QED BY <1>2, <2>2, <2>3, BeginsTransitive
<1>7. QED BY <1>3, <1>4, <1>5, <1>6 DEF BusInv

LEMMA BeginsItself ==
  ASSUME NEW s \in Seq(Handlers)
  PROVE  Begins(s, s) /\ Begins(<<>>, s)
BY ElementsOf DEF Begins

LEMMA SubscribeStep == ASSUME BusInv, NEW h \in Handlers, Subscribe(h) PROVE BusInv'
<1> DEFINE last == Len(arrays)
           grown == Append(installed, h)
<1>1. /\ arrays \in Seq(Seq(Handlers)) /\ last \in 1..MaxArrays /\ last \in Nat
      /\ DOMAIN arrays = 1..last
      /\ \A i \in 1..last : arrays[i] \in Seq(Handlers)
      /\ installed \in Seq(Handlers)
  BY BusTypes
<1>2. grown \in Seq(Handlers) /\ Begins(installed, grown)
  <2>1. /\ grown \in Seq(Handlers) /\ Len(grown) = Len(installed) + 1 /\ Len(installed) \in Nat
        /\ \A i \in 1..Len(installed) : grown[i] = installed[i]
    BY <1>1, AppendFacts, ElementsOf
  <2>2. QED BY <2>1 DEF Begins
<1> HIDE DEF grown
<1>3. arrays' = [arrays EXCEPT ![last] = grown]
      /\ UNCHANGED <<progress, calls, deadLetter, served, audience>>
  BY DEF Subscribe, grown, installed
<1>4. arrays' \in Seq(Seq(Handlers)) /\ Len(arrays') = last
  BY <1>1, <1>2, <1>3
<1>5. \A i \in 1..last : arrays'[i] = IF i = last THEN grown ELSE arrays[i]
  BY <1>1, <1>3
<1>6. ASSUME NEW i \in 1..last PROVE Begins(arrays[i], arrays'[i])
  <2>1. CASE i = last BY <1>2, <1>5, <2>1 DEF installed
  <2>2. CASE i # last BY <1>1, <1>5, <2>2, BeginsItself
  <2>3. QED BY <2>1, <2>2
<1>7. Len(arrays') \in 1..MaxArrays /\ Len(arrays) <= Len(arrays') BY <1>1, <1>4
<1>8. QED BY <1>3, <1>4, <1>6, <1>7, GrowStep

LEMMA UnsubscribeStep == ASSUME BusInv, NEW h \in Handlers, Unsubscribe(h) PROVE BusInv'
<1> DEFINE last == Len(arrays)
           rest == Without(installed, h)
<1>1. /\ arrays \in Seq(Seq(Handlers)) /\ last \in 1..MaxArrays /\ last \in Nat
      /\ \A i \in 1..last : arrays[i] \in Seq(Handlers)
      /\ installed \in Seq(Handlers)
  BY BusTypes
<1>2. rest \in Seq(Handlers) BY <1>1, WithoutTyped
<1> HIDE DEF rest
<1>3. /\ last < MaxArrays /\ arrays' = Append(arrays, rest)
      /\ UNCHANGED <<progress, calls, deadLetter, served, audience>>
  BY DEF Unsubscribe, rest
<1>4. /\ arrays' \in Seq(Seq(Handlers)) /\ Len(arrays') = last + 1
      /\ \A i \in 1..last : arrays'[i] = arrays[i]
  BY <1>1, <1>2, <1>3, AppendProperties
<1>5. Len(arrays') \in 1..MaxArrays /\ Len(arrays) <= Len(arrays')
  BY <1>1, <1>3, <1>4, EventBusAssumption
<1>6. \A i \in 1..last : Begins(arrays[i], arrays'[i])
  BY <1>1, <1>4, BeginsItself
<1>7. QED BY <1>3, <1>4, <1>5, <1>6, GrowStep

\* The entry being called is the first that has not been finished with.
LEMMA AtHand ==
  ASSUME BusInv, NEW p \in Publications, progress[p].at = "calling"
  PROVE  /\ progress[p].position \in 1..Len(Walked(p)) /\ progress[p].position \in Nat
         /\ HandlerOf(p) = Walked(p)[progress[p].position] /\ HandlerOf(p) \in Handlers
         /\ progress[p].attempts \in 1..MaxDeliveries
         /\ Len(served[p]) = progress[p].position - 1 /\ Len(calls[p]) = progress[p].position
         /\ calls[p][progress[p].position] = progress[p].attempts
<1>1. Walked(p) \in Seq(Handlers) BY BusTypes
<1>2. /\ progress[p].position \in 1..Len(Walked(p)) /\ Len(Walked(p)) \in Nat
      /\ progress[p].attempts \in 1..MaxDeliveries
  BY <1>1, ElementsOf DEF BusInv, EventBusTypeOK, Walked
<1>3. HandlerOf(p) = Walked(p)[progress[p].position] /\ HandlerOf(p) \in Handlers
  BY <1>1, <1>2, ElementsOf DEF HandlerOf, Walked
<1>4. QED BY <1>2, <1>3 DEF BusInv, WalkRight, Right

\* Reaching position n of an array whose first n - 1 entries a publication has
\* finished with, and has called no other: everything but the dead letters.
Walks(p, S) ==
  /\ EventBusTypeOK' /\ WalkRight'
  /\ progress' \in [Publications -> Place] /\ calls' \in [Publications -> Seq(Nat)]
  /\ served' \in [Publications -> Seq(Handlers)] /\ audience' \in [Publications -> Seq(Handlers)]
  /\ served'[p] = S /\ \A q \in Publications \ {p} : served'[q] = served[q]
  /\ \A q \in Publications : \A i \in 1..Len(calls[q]) :
       i \in 1..Len(calls'[q]) /\ calls'[q][i] = calls[q][i]

LEMMA WalkStep ==
  ASSUME BusInv, NEW p \in Publications, NEW a \in 1..Len(arrays), NEW n \in Nat \ {0},
         a = progress[p].array \/ n = 1,
         NEW S \in Seq(Handlers), NEW A \in Seq(Handlers),
         served' = [served EXCEPT ![p] = S], audience' = [audience EXCEPT ![p] = A],
         Begins(S, arrays[a]), Len(S) = n - 1, Begins(A, arrays[a]), Len(calls[p]) = n - 1,
         Walk(p, a, n), UNCHANGED arrays
  PROVE  Walks(p, S)
<1>1. BusShape BY DEF BusInv
<1>2. /\ served' \in [Publications -> Seq(Handlers)] /\ audience' \in [Publications -> Seq(Handlers)]
      /\ served'[p] = S /\ audience'[p] = A
      /\ \A q \in Publications \ {p} : served'[q] = served[q] /\ audience'[q] = audience[q]
  BY <1>1 DEF BusShape
<1>3. /\ arrays[a] \in Seq(Handlers) /\ Len(arrays[a]) \in Nat
      /\ DOMAIN arrays[a] = 1..Len(arrays[a]) /\ DOMAIN arrays = 1..Len(arrays) /\ a \in Nat
  <2>1. arrays[a] \in Seq(Handlers) BY BusTypes
  <2>2. QED BY <2>1, BusTypes, ElementsOf
<1>4. \A q \in Publications \ {p} :
        progress'[q] = progress[q] /\ calls'[q] = calls[q] /\ Walked(q)' = Walked(q)
  BY <1>1 DEF Walk, Walked, BusShape
<1>5. EventBusTypeOK' <=>
        /\ progress'[p].at \in {"new", "calling", "done"}
        /\ progress'[p].array \in DOMAIN arrays
        /\ progress'[p].at = "calling" =>
             /\ progress'[p].position \in DOMAIN arrays[progress'[p].array]
             /\ progress'[p].attempts \in 1..MaxDeliveries
  <2>1. arrays \in Seq(Seq(Handlers)) /\ Len(arrays) \in 1..MaxArrays
    BY DEF BusInv, EventBusTypeOK
  <2>2. \A q \in Publications \ {p} :
          /\ progress'[q].at \in {"new", "calling", "done"}
          /\ progress'[q].array \in DOMAIN arrays
          /\ progress'[q].at = "calling" =>
               /\ progress'[q].position \in DOMAIN arrays[progress'[q].array]
               /\ progress'[q].attempts \in 1..MaxDeliveries
    BY <1>4 DEF BusInv, EventBusTypeOK
  <2>3. QED BY <2>1, <2>2 DEF EventBusTypeOK
<1>6. WalkRight' <=> Right(p)' /\ Counted(p)'
  <2>1. ASSUME NEW q \in Publications \ {p} PROVE Right(q)' /\ Counted(q)'
    <3>1. Right(q) /\ Counted(q) BY DEF BusInv, WalkRight
    <3>2. /\ served'[q] = served[q] /\ audience'[q] = audience[q] /\ progress'[q] = progress[q]
          /\ calls'[q] = calls[q] /\ Walked(q)' = Walked(q)
      BY <1>2, <1>4
    <3>3. QED BY <3>1, <3>2 DEF Right, Counted
  <2>2. QED BY <2>1 DEF WalkRight
<1>7. PICK old \in Seq(Nat) : old = calls[p]
  BY <1>1 DEF BusShape
<1>8. Len(old) \in Nat /\ Len(old) = n - 1 /\ Len(S) \in Nat /\ \A i \in 1..Len(old) : old[i] <= MaxDeliveries
  BY <1>7, ElementsOf DEF BusInv, WalkRight, Counted
<1>9. CASE n <= Len(arrays[a])
  <2>1. /\ progress' = [progress EXCEPT ![p] =
             [at |-> "calling", array |-> a, position |-> n, attempts |-> 1]]
        /\ calls' = [calls EXCEPT ![p] = Append(old, 1)]
    BY <1>7, <1>9 DEF Walk
  <2>2. PICK now : now = Append(old, 1)
    OBVIOUS
  <2>3. /\ now \in Seq(Nat) /\ Len(now) = n /\ now[n] = 1
        /\ \A i \in 1..Len(old) : now[i] = old[i]
    BY <1>8, <2>2
  <2>4. /\ progress' \in [Publications -> Place] /\ calls' \in [Publications -> Seq(Nat)]
        /\ progress'[p] = [at |-> "calling", array |-> a, position |-> n, attempts |-> 1]
        /\ calls'[p] = now
    BY <1>1, <1>3, <2>1, <2>2, <2>3 DEF BusShape, Place
  <2>5. EventBusTypeOK'
    <3>1. 1 \in 1..MaxDeliveries /\ n \in 1..Len(arrays[a]) BY <1>3, <1>9, EventBusAssumption
    <3>2. QED BY <1>3, <1>5, <2>4, <3>1
  <2>6. Right(p)'
    <3>1. Walked(p)' = arrays[a] BY <2>4 DEF Walked
    <3>2. QED BY <1>2, <2>3, <2>4, <3>1 DEF Right
  <2>7. Counted(p)'
    <3>1. Len(S) <= Len(now) /\ 1 <= MaxDeliveries BY <1>8, <2>3, EventBusAssumption
    <3>2. ASSUME NEW i \in 1..Len(now) PROVE now[i] <= MaxDeliveries
      <4>1. i = n \/ i \in 1..Len(old) BY <1>8, <2>3
      <4>2. QED BY <1>8, <2>3, <3>1, <4>1
    <3>3. QED BY <1>2, <2>4, <3>1, <3>2 DEF Counted
  <2>8. ASSUME NEW q \in Publications, NEW i \in 1..Len(calls[q])
        PROVE  i \in 1..Len(calls'[q]) /\ calls'[q][i] = calls[q][i]
    <3>1. CASE q = p
      <4>1. i \in 1..Len(old) /\ i \in 1..Len(now) BY <1>7, <1>8, <2>3, <2>8, <3>1
      <4>2. QED BY <1>7, <2>3, <2>4, <3>1, <4>1
    <3>2. CASE q # p BY <1>4, <2>8, <3>2
    <3>3. QED BY <3>1, <3>2
  <2>9. QED BY <1>2, <1>6, <2>4, <2>5, <2>6, <2>7, <2>8 DEF Walks
<1>10. CASE n > Len(arrays[a])
  <2>1. progress' = [progress EXCEPT ![p].at = "done"] /\ calls' = calls
    BY <1>3, <1>10 DEF Walk
  <2>2. /\ progress' \in [Publications -> Place]
        /\ progress'[p].at = "done" /\ progress'[p].array = progress[p].array
    BY <1>1, <2>1 DEF BusShape, Place
  <2>3. EventBusTypeOK' BY <1>5, <2>2 DEF BusInv, EventBusTypeOK
  <2>4. Begins(A, S)
    <3>1. /\ Len(A) \in Nat /\ Len(S) \in Nat /\ Len(S) <= Len(arrays[a]) /\ Len(A) <= Len(arrays[a])
          /\ \A i \in 1..Len(A) : A[i] = arrays[a][i]
          /\ \A i \in 1..Len(S) : S[i] = arrays[a][i]
      BY ElementsOf DEF Begins
    <3>2. Len(S) = Len(arrays[a])
      BY <1>3, <1>10, <3>1
    <3>3. Len(A) <= Len(S) BY <3>1, <3>2
    <3>4. ASSUME NEW i \in 1..Len(A) PROVE A[i] = S[i]
      <4>1. i \in 1..Len(S) BY <3>1, <3>3
      <4>2. QED BY <3>1, <4>1
    <3>5. QED BY <3>3, <3>4 DEF Begins
  <2>5. Begins(S, Walked(p)')
    <3>1. Walked(p)' = Walked(p) /\ Walked(p) \in Seq(Handlers) BY <2>2, BusTypes DEF Walked
    <3>2. CASE a = progress[p].array BY <3>1, <3>2 DEF Walked
    <3>3. CASE n = 1
      <4>1. Len(S) = 0 /\ Len(Walked(p)) \in Nat BY <1>8, <3>1, <3>3, ElementsOf
      <4>2. QED BY <3>1, <4>1 DEF Begins
    <3>4. QED BY <3>2, <3>3
  <2>6. Right(p)' BY <1>2, <2>2, <2>4, <2>5 DEF Right
  <2>7. Counted(p)'
    <3>1. calls'[p] = old /\ Len(S) <= Len(old) BY <1>7, <1>8, <2>1
    <3>2. QED BY <1>2, <1>8, <3>1 DEF Counted
  <2>8. QED BY <1>1, <1>2, <1>6, <2>1, <2>2, <2>3, <2>6, <2>7 DEF BusShape, Walks
<1>11. QED BY <1>3, <1>9, <1>10

\* What an entry says of the calls made and the entries finished with.
EntryRight(d, called, finished) ==
  /\ d.attempts = MaxDeliveries
  /\ d.position \in DOMAIN finished[d.publication]
  /\ d.handler = finished[d.publication][d.position]
  /\ called[d.publication][d.position] = MaxDeliveries

LEMMA EntryTyped ==
  ASSUME BusInv, NEW i \in DOMAIN deadLetter
  PROVE  /\ deadLetter[i] \in Entry /\ deadLetter[i].publication \in Publications
         /\ EntryRight(deadLetter[i], calls, served)
<1>1. deadLetter \in Seq(Entry) BY DEF BusInv, BusShape
<1>2. deadLetter[i] \in Entry BY <1>1, ElementsOf
<1>3. QED BY <1>2 DEF Entry, EntryRight, BusInv, DeadLetterExact

\* Entries stay exact while what has been finished with stays as it is.
LEMMA EntriesKept ==
  ASSUME BusInv,
         \A q \in Publications : \A i \in DOMAIN served[q] :
           /\ i \in DOMAIN served'[q] /\ served'[q][i] = served[q][i]
           /\ calls'[q][i] = calls[q][i]
  PROVE  \A i \in DOMAIN deadLetter : EntryRight(deadLetter[i], calls', served')
<1>1. SUFFICES ASSUME NEW i \in DOMAIN deadLetter
               PROVE  EntryRight(deadLetter[i], calls', served')
  OBVIOUS
<1>2. PICK d : d = deadLetter[i]
  OBVIOUS
<1>3. d.publication \in Publications /\ EntryRight(d, calls, served)
  BY <1>2, EntryTyped
<1>4. EntryRight(d, calls', served')
  BY <1>3 DEF EntryRight
<1>5. QED BY <1>2, <1>4

LEMMA WithinLimit ==
  ASSUME WalkRight', calls' \in [Publications -> Seq(Nat)]
  PROVE  \A q \in Publications : \A i \in DOMAIN calls'[q] : calls'[q][i] <= MaxDeliveries
<1>1. SUFFICES ASSUME NEW q \in Publications, NEW i \in DOMAIN calls'[q]
               PROVE  calls'[q][i] <= MaxDeliveries
  OBVIOUS
<1>2. calls'[q] \in Seq(Nat) OBVIOUS
<1>3. i \in 1..Len(calls'[q]) BY <1>2, ElementsOf
<1>4. Counted(q)' BY DEF WalkRight
<1>5. QED BY <1>3, <1>4 DEF Counted

LEMMA PublishStep == ASSUME BusInv, NEW p \in Publications, Publish(p) PROVE BusInv'
<1>1. /\ progress[p].at = "new"
      /\ audience' = [audience EXCEPT ![p] = installed]
      /\ Walk(p, Len(arrays), 1)
      /\ UNCHANGED <<arrays, deadLetter, served>>
  BY DEF Publish
<1>2. served[p] = <<>> /\ calls[p] = <<>>
  BY <1>1 DEF BusInv, WalkRight, Right
<1>3. served \in [Publications -> Seq(Handlers)] BY DEF BusInv, BusShape
<1>4. served' = [served EXCEPT ![p] = <<>>] BY <1>1, <1>2, <1>3
<1>5. installed \in Seq(Handlers) /\ installed = arrays[Len(arrays)] /\ Len(arrays) \in 1..Len(arrays)
  BY BusTypes, EventBusAssumption DEF installed
<1>6. /\ Begins(<<>>, installed) /\ Begins(installed, installed)
      /\ <<>> \in Seq(Handlers) /\ Len(<<>>) = 1 - 1
  BY <1>5, BeginsItself
<1>7. Walks(p, <<>>)
  <2>1. 1 \in Nat \ {0} /\ (Len(arrays) = progress[p].array \/ 1 = 1) OBVIOUS
  <2>2. Begins(<<>>, arrays[Len(arrays)]) /\ Begins(installed, arrays[Len(arrays)])
    BY <1>5, <1>6
  <2>3. Len(calls[p]) = 1 - 1 BY <1>2
  <2>4. QED BY <1>1, <1>4, <1>5, <1>6, <2>1, <2>2, <2>3, WalkStep
<1>8. \A i \in DOMAIN deadLetter : EntryRight(deadLetter[i], calls', served')
  <2>1. ASSUME NEW q \in Publications, NEW i \in DOMAIN served[q]
        PROVE  calls'[q][i] = calls[q][i]
    <3>1. served[q] \in Seq(Handlers) /\ calls[q] \in Seq(Nat) BY DEF BusInv, BusShape
    <3>2. Len(served[q]) <= Len(calls[q]) BY DEF BusInv, WalkRight, Counted
    <3>3. i \in 1..Len(calls[q]) BY <2>1, <3>1, <3>2, ElementsOf
    <3>4. QED BY <1>7, <3>3 DEF Walks
  <2>2. QED BY <1>1, <2>1, EntriesKept
<1>9. DeadLetterExact'
  BY <1>1, <1>7, <1>8, WithinLimit DEF BusInv, DeadLetterExact, EntryRight, Walks
<1>10. BusShape' BY <1>1, <1>7 DEF BusInv, BusShape, Walks
<1>11. QED BY <1>7, <1>9, <1>10 DEF BusInv, Walks

\* Moving on, whether the handler fulfilled or was given up.
Moved(p) ==
  /\ Walks(p, Append(served[p], HandlerOf(p)))
  /\ \A i \in DOMAIN deadLetter : EntryRight(deadLetter[i], calls', served')
  /\ progress[p].position \in DOMAIN served'[p]
  /\ served'[p][progress[p].position] = HandlerOf(p)
  /\ calls'[p][progress[p].position] = progress[p].attempts

LEMMA MoveOnStep ==
  ASSUME BusInv, NEW p \in Publications, progress[p].at = "calling", MoveOn(p),
         UNCHANGED <<arrays, audience>>
  PROVE  Moved(p)
<1>1. PICK a, k, x : a = progress[p].array /\ k = progress[p].position /\ x = HandlerOf(p)
  OBVIOUS
<1>2. PICK done \in Seq(Handlers) : done = served[p]
  BY DEF BusInv, BusShape
<1>3. PICK S : S = Append(done, x)
  OBVIOUS
<1>4. served' = [served EXCEPT ![p] = S] /\ Walk(p, a, k + 1)
  BY <1>1, <1>2, <1>3 DEF MoveOn
<1>5. /\ served \in [Publications -> Seq(Handlers)] /\ audience \in [Publications -> Seq(Handlers)]
      /\ calls \in [Publications -> Seq(Nat)]
  BY DEF BusInv, BusShape
<1>6. /\ k \in 1..Len(Walked(p)) /\ k \in Nat /\ x = Walked(p)[k] /\ x \in Handlers
      /\ Len(done) = k - 1 /\ Len(calls[p]) = k /\ calls[p][k] = progress[p].attempts
  BY <1>1, <1>2, AtHand
<1>7. Begins(done, Walked(p)) /\ Begins(audience[p], Walked(p))
  BY <1>2 DEF BusInv, WalkRight, Right
<1>8. a \in 1..Len(arrays) /\ Walked(p) \in Seq(Handlers) /\ Walked(p) = arrays[a]
  BY <1>1, BusTypes DEF Walked
<1>9. /\ S \in Seq(Handlers) /\ Len(S) = k /\ S[k] = x
      /\ \A i \in 1..(k - 1) : S[i] = done[i]
  BY <1>3, <1>6
<1>10. Begins(S, arrays[a])
  <2>1. ASSUME NEW i \in 1..k PROVE S[i] = Walked(p)[i]
    <3>1. i = k \/ i \in 1..(k - 1) BY <1>6
    <3>2. QED BY <1>6, <1>7, <1>9, <3>1 DEF Begins
  <2>2. Len(Walked(p)) \in Nat /\ k <= Len(Walked(p)) BY <1>6, <1>8, ElementsOf
  <2>3. QED BY <1>8, <1>9, <2>1, <2>2 DEF Begins
<1>11. Walks(p, S)
  <2>1. audience' = [audience EXCEPT ![p] = audience[p]] /\ audience[p] \in Seq(Handlers)
    BY <1>5
  <2>2. Begins(audience[p], arrays[a]) BY <1>7, <1>8
  <2>3. k + 1 \in Nat \ {0} /\ (k + 1) - 1 = k BY <1>6
  <2>4. Len(S) = (k + 1) - 1 /\ Len(calls[p]) = (k + 1) - 1 BY <1>6, <1>9, <2>3
  <2>5. UNCHANGED arrays OBVIOUS
  <2>6. a = progress[p].array \/ k + 1 = 1 BY <1>1
  <2>7. QED BY <1>4, <1>8, <1>9, <1>10, <2>1, <2>2, <2>3, <2>4, <2>5, <2>6, WalkStep
<1>12. served'[p] = S /\ DOMAIN S = 1..k /\ DOMAIN done = 1..(k - 1)
  BY <1>4, <1>5, <1>6, <1>9, ElementsOf
<1>13. \A i \in DOMAIN deadLetter : EntryRight(deadLetter[i], calls', served')
  <2>1. ASSUME NEW q \in Publications, NEW i \in DOMAIN served[q]
        PROVE  /\ i \in DOMAIN served'[q] /\ served'[q][i] = served[q][i]
               /\ calls'[q][i] = calls[q][i]
    <3>1. calls'[q][i] = calls[q][i]
      <4>1. served[q] \in Seq(Handlers) /\ calls[q] \in Seq(Nat) BY <1>5
      <4>2. Len(served[q]) <= Len(calls[q]) BY DEF BusInv, WalkRight, Counted
      <4>3. i \in 1..Len(calls[q]) BY <2>1, <4>1, <4>2, ElementsOf
      <4>4. QED BY <1>11, <4>3 DEF Walks
    <3>2. CASE q = p
      <4>1. i \in 1..(k - 1) /\ i \in 1..k BY <1>2, <1>6, <1>12, <2>1, <3>2
      <4>2. QED BY <1>2, <1>9, <1>12, <3>1, <3>2, <4>1
    <3>3. CASE q # p BY <1>4, <1>5, <3>1, <3>3
    <3>4. QED BY <3>2, <3>3
  <2>2. QED BY <2>1, EntriesKept
<1>14. k \in 1..k /\ calls'[p][k] = calls[p][k]
  <2>1. k \in 1..k BY <1>6
  <2>2. QED BY <1>6, <1>11, <2>1 DEF Walks
<1>15. Walks(p, Append(served[p], HandlerOf(p)))
  BY Zenon, <1>1, <1>2, <1>3, <1>11
<1>16. progress[p].position \in DOMAIN served'[p] /\ served'[p][progress[p].position] = HandlerOf(p)
  BY <1>1, <1>9, <1>12, <1>14
<1>17. calls'[p][progress[p].position] = progress[p].attempts
  BY <1>1, <1>6, <1>14
<1>18. QED BY <1>13, <1>15, <1>16, <1>17 DEF Moved

LEMMA FulfilsStep == ASSUME BusInv, NEW p \in Publications, HandlerFulfils(p) PROVE BusInv'
<1>1. progress[p].at = "calling" /\ MoveOn(p) /\ UNCHANGED <<arrays, deadLetter, audience>>
  BY DEF HandlerFulfils
<1>2. UNCHANGED <<arrays, audience>> BY <1>1
<1>3. Moved(p) BY <1>1, <1>2, MoveOnStep
<1>4. EventBusTypeOK' /\ WalkRight' BY <1>3 DEF Moved, Walks
<1>5. DeadLetterExact'
  BY <1>1, <1>3, <1>4, WithinLimit DEF BusInv, DeadLetterExact, EntryRight, Moved, Walks
<1>6. BusShape' BY <1>1, <1>3 DEF BusInv, BusShape, Moved, Walks
<1>7. QED BY <1>4, <1>5, <1>6 DEF BusInv

\* The handler given up had no entry yet: entries are of those the publication
\* has finished with.
LEMMA GivenUpStep == ASSUME BusInv, NEW p \in Publications, HandlerGivenUp(p) PROVE BusInv'
<1> DEFINE e == [publication |-> p, position |-> progress[p].position,
                 handler |-> HandlerOf(p), attempts |-> progress[p].attempts]
<1>1. /\ progress[p].at = "calling" /\ progress[p].attempts >= MaxDeliveries
      /\ deadLetter' = Append(deadLetter, e)
      /\ MoveOn(p) /\ UNCHANGED <<arrays, audience>>
  BY DEF HandlerGivenUp
<1>2. /\ HandlerOf(p) \in Handlers /\ progress[p].position \in Nat
      /\ progress[p].attempts = MaxDeliveries /\ MaxDeliveries \in Nat
      /\ Len(served[p]) = progress[p].position - 1
  BY <1>1, AtHand, EventBusAssumption
<1>3. Moved(p)
  BY <1>1, MoveOnStep
<1>4. EventBusTypeOK' /\ WalkRight' BY <1>3 DEF Moved, Walks
<1>5. deadLetter \in Seq(Entry) /\ e \in Entry BY <1>2 DEF BusInv, BusShape, Entry
<1>6. /\ e.publication = p /\ e.position = progress[p].position
      /\ e.handler = HandlerOf(p) /\ e.attempts = MaxDeliveries
  BY <1>2
<1> HIDE DEF e
<1> DEFINE last == Len(deadLetter) + 1
<1>7. /\ deadLetter' \in Seq(Entry) /\ Len(deadLetter') = last /\ Len(deadLetter) \in Nat
      /\ deadLetter'[last] = e
      /\ \A i \in 1..Len(deadLetter) : deadLetter'[i] = deadLetter[i]
  BY <1>1, <1>5, AppendProperties, LenProperties
<1>8. DOMAIN deadLetter = 1..Len(deadLetter) /\ DOMAIN deadLetter' = 1..last
  BY <1>5, <1>7, LenProperties
<1>9. \A i \in DOMAIN deadLetter' : i = last \/ (i \in DOMAIN deadLetter /\ deadLetter'[i] = deadLetter[i])
  <2>1. SUFFICES ASSUME NEW i \in 1..last, i # last
                 PROVE  i \in 1..Len(deadLetter) /\ deadLetter'[i] = deadLetter[i]
    BY <1>7, <1>8
  <2>2. i \in 1..Len(deadLetter) BY <1>7, <2>1
  <2>3. QED BY <1>7, <2>2
<1>10. ASSUME NEW i \in DOMAIN deadLetter, deadLetter[i].publication = p,
              deadLetter[i].position = progress[p].position
       PROVE  FALSE
  <2>1. EntryRight(deadLetter[i], calls, served) BY EntryTyped
  <2>2. progress[p].position \in DOMAIN served[p] BY <1>10, <2>1 DEF EntryRight
  <2>3. served[p] \in Seq(Handlers) BY DEF BusInv, BusShape
  <2>4. DOMAIN served[p] = 1..Len(served[p]) BY <2>3, ElementsOf
  <2>5. QED BY <1>2, <2>2, <2>4
<1>11. \A i, j \in DOMAIN deadLetter' :
         /\ deadLetter'[i].publication = deadLetter'[j].publication
         /\ deadLetter'[i].position = deadLetter'[j].position
         => i = j
  <2>1. SUFFICES ASSUME NEW i \in DOMAIN deadLetter', NEW j \in DOMAIN deadLetter',
                        deadLetter'[i].publication = deadLetter'[j].publication,
                        deadLetter'[i].position = deadLetter'[j].position
                 PROVE  i = j
    OBVIOUS
  <2>2. CASE i = last /\ j # last BY <1>6, <1>7, <1>9, <1>10, <2>1, <2>2
  <2>3. CASE i # last /\ j = last BY <1>6, <1>7, <1>9, <1>10, <2>1, <2>3
  <2>4. CASE i # last /\ j # last
    <3>1. /\ i \in DOMAIN deadLetter /\ j \in DOMAIN deadLetter
          /\ deadLetter[i].publication = deadLetter[j].publication
          /\ deadLetter[i].position = deadLetter[j].position
      BY <1>9, <2>1, <2>4
    <3>2. QED BY <3>1 DEF BusInv, DeadLetterExact
  <2>5. QED BY <2>2, <2>3, <2>4
<1>12. ASSUME NEW i \in DOMAIN deadLetter'
       PROVE  EntryRight(deadLetter'[i], calls', served')
  <2>1. CASE i = last
    <3>1. EntryRight(e, calls', served') BY <1>2, <1>3, <1>6 DEF EntryRight, Moved
    <3>2. QED BY <1>7, <2>1, <3>1
  <2>2. CASE i # last BY <1>3, <1>9, <2>2 DEF Moved
  <2>3. QED BY <2>1, <2>2
<1>13. DeadLetterExact'
  <2>1. calls' \in [Publications -> Seq(Nat)] BY <1>3 DEF Moved, Walks
  <2>2. \A q \in Publications : \A i \in DOMAIN calls'[q] : calls'[q][i] <= MaxDeliveries
    BY <1>4, <2>1, WithinLimit
  <2>3. QED BY <1>11, <1>12, <2>2 DEF DeadLetterExact, EntryRight
<1>14. BusShape' BY <1>3, <1>7 DEF BusShape, Moved, Walks
<1>15. QED BY <1>4, <1>13, <1>14 DEF BusInv

\* A retry calls the same handler again, which has no entry yet.
LEMMA RetriedStep == ASSUME BusInv, NEW p \in Publications, HandlerRetried(p) PROVE BusInv'
<1>1. PICK k, n : k = progress[p].attempts /\ n = progress[p].position
  OBVIOUS
<1>2. /\ progress[p].at = "calling" /\ k < MaxDeliveries
      /\ progress' = [progress EXCEPT ![p].attempts = k + 1]
      /\ calls' = [calls EXCEPT ![p][n] = @ + 1]
      /\ UNCHANGED <<arrays, deadLetter, served, audience>>
  BY <1>1 DEF HandlerRetried
<1>3. /\ k \in 1..MaxDeliveries /\ n \in Nat /\ n # 0 /\ Len(served[p]) = n - 1
      /\ Len(calls[p]) = n /\ calls[p][n] = k /\ k \in Nat /\ k + 1 \in 1..MaxDeliveries
  BY <1>1, <1>2, AtHand, EventBusAssumption
<1>4. BusShape BY DEF BusInv
<1>5. PICK old \in Seq(Nat) : old = calls[p]
  BY <1>4 DEF BusShape
<1>6. PICK now : now = [old EXCEPT ![n] = k + 1]
  OBVIOUS
<1>7. calls' = [calls EXCEPT ![p] = now]
  BY <1>2, <1>3, <1>4, <1>5, <1>6 DEF BusShape
<1>8. /\ now \in Seq(Nat) /\ Len(now) = n /\ now[n] = k + 1
      /\ \A i \in 1..n : i # n => now[i] = old[i]
  <2>1. n \in 1..Len(old) BY <1>3, <1>5
  <2>2. QED BY <1>3, <1>5, <1>6, <2>1
<1>9. /\ \A q \in Publications \ {p} : progress'[q] = progress[q] /\ calls'[q] = calls[q]
      /\ progress'[p].at = "calling" /\ progress'[p].array = progress[p].array
      /\ progress'[p].position = n /\ progress'[p].attempts = k + 1 /\ calls'[p] = now
  BY <1>1, <1>2, <1>4, <1>7 DEF BusShape, Place
<1>10. BusShape'
  <2>1. progress' \in [Publications -> Place]
    <3>1. PICK here \in Place : here = progress[p]
      BY <1>4 DEF BusShape
    <3>2. PICK there : there = [here EXCEPT !.attempts = k + 1]
      OBVIOUS
    <3>3. there \in Place
      <4>1. k + 1 \in Nat
        BY <1>3
      <4> QED
        BY <3>1, <3>2, <4>1, Zenon DEF Place
    <3>4. progress' = [progress EXCEPT ![p] = there]
      BY <1>2, <3>1, <3>2
    <3>5. QED BY <1>4, <3>3, <3>4 DEF BusShape
  <2>2. calls' \in [Publications -> Seq(Nat)] BY <1>4, <1>7, <1>8 DEF BusShape
  <2>3. QED BY <1>2, <1>4, <2>1, <2>2 DEF BusShape
<1>11. EventBusTypeOK'
  BY <1>1, <1>2, <1>3, <1>9 DEF BusInv, EventBusTypeOK
<1>12. WalkRight'
  <2>1. SUFFICES ASSUME NEW q \in Publications PROVE Right(q)' /\ Counted(q)'
    BY DEF WalkRight
  <2>2. Right(q) /\ Counted(q) /\ Walked(q)' = Walked(q) /\ served'[q] = served[q] /\ audience'[q] = audience[q]
    BY <1>2, <1>9 DEF BusInv, WalkRight, Walked
  <2>3. CASE q = p
    <3>1. Right(q)' BY <1>1, <1>2, <1>3, <1>8, <1>9, <2>2, <2>3 DEF Right
    <3>2. ASSUME NEW i \in 1..n PROVE now[i] <= MaxDeliveries
      <4>1. CASE i = n BY <1>3, <1>8, <4>1
      <4>2. CASE i # n BY <1>3, <1>5, <1>8, <2>2, <2>3, <4>2 DEF Counted
      <4>3. QED BY <4>1, <4>2
    <3>3. Counted(q)' BY <1>3, <1>8, <1>9, <2>2, <2>3, <3>2 DEF Counted
    <3>4. QED BY <3>1, <3>3
  <2>4. CASE q # p BY <1>9, <2>2, <2>4 DEF Right, Counted
  <2>5. QED BY <2>3, <2>4
<1>13. DeadLetterExact'
  <2>1. ASSUME NEW q \in Publications, NEW i \in DOMAIN served[q]
        PROVE  calls'[q][i] = calls[q][i]
    <3>1. CASE q = p
      <4>1. served[p] \in Seq(Handlers) BY <1>4 DEF BusShape
      <4>2. DOMAIN served[p] = 1..Len(served[p]) BY <4>1, ElementsOf
      <4>3. i \in 1..n /\ i # n BY <1>3, <2>1, <3>1, <4>2
      <4>4. QED BY <1>5, <1>8, <1>9, <3>1, <4>3
    <3>2. CASE q # p BY <1>9, <3>2
    <3>3. QED BY <3>1, <3>2
  <2>2. \A i \in DOMAIN deadLetter : EntryRight(deadLetter[i], calls', served')
    BY <1>2, <2>1, EntriesKept
  <2>3. calls' \in [Publications -> Seq(Nat)] BY <1>10 DEF BusShape
  <2>4. \A q \in Publications : \A i \in DOMAIN calls'[q] : calls'[q][i] <= MaxDeliveries
    BY <1>12, <2>3, WithinLimit
  <2>5. QED BY <1>2, <2>2, <2>4 DEF BusInv, DeadLetterExact, EntryRight
<1>14. QED BY <1>10, <1>11, <1>12, <1>13 DEF BusInv

LEMMA BusNextInv == BusInv /\ [EventBusNext]_eventBusVars => BusInv'
<1>1. SUFFICES ASSUME BusInv, [EventBusNext]_eventBusVars PROVE BusInv' OBVIOUS
<1>2. CASE UNCHANGED eventBusVars
  BY <1>1, <1>2 DEF eventBusVars, BusInv, EventBusTypeOK, BusShape, WalkRight, Right, Counted, Walked,
     DeadLetterExact
<1>3. CASE \E h \in Handlers : Subscribe(h) \/ Unsubscribe(h)
  BY <1>1, <1>3, SubscribeStep, UnsubscribeStep
<1>4. CASE \E p \in Publications : Publish(p) \/ Deliver(p)
  BY <1>1, <1>4, PublishStep, FulfilsStep, RetriedStep, GivenUpStep DEF Deliver
<1>5. QED BY <1>1, <1>2, <1>3, <1>4 DEF EventBusNext

\* Every reachable state satisfies the strengthened invariant.
THEOREM BusInvariant == EventBusSpec => []BusInv
BY BusInitInv, BusNextInv, PTL DEF EventBusSpec

\* Being the first part of a sequence, by position and by SubSeq.
LEMMA PrefixOf ==
  ASSUME NEW s \in Seq(Handlers), NEW t \in Seq(Handlers), Begins(s, t)
  PROVE  IsPrefixOf(s, t)
<1>1. Len(s) \in Nat /\ Len(t) \in Nat /\ Len(s) <= Len(t) BY ElementsOf DEF Begins
<1> DEFINE u == SubSeq(t, 1, Len(s))
<1>2. u \in Seq(Handlers) /\ Len(u) = Len(s) /\ \A i \in 1..Len(s) : u[i] = t[i]
  <2>1. Len(s) \in 0..Len(t) BY <1>1
  <2>2. QED BY <2>1, SplitFacts
<1> HIDE DEF u
<1>3. s = u BY <1>2, SeqEqual DEF Begins
<1>4. QED BY <1>1, <1>3 DEF u, IsPrefixOf

\* Whatever is subscribed and unsubscribed while publications await their
\* handlers: every one of them works through the array it found in order, serves
\* all that were subscribed when it began before publish() returns, and leaves
\* one entry for each handler that used up its attempts.
THEOREM AlwaysDelivered == EventBusSpec => []Delivered
<1>1. BusInv => Delivered
  <2>1. SUFFICES ASSUME BusInv PROVE AudienceServed BY DEF BusInv, Delivered
  <2>2. SUFFICES ASSUME NEW p \in Publications
                 PROVE  /\ IsPrefixOf(served[p], arrays[progress[p].array])
                        /\ progress[p].at = "done" => IsPrefixOf(audience[p], served[p])
    BY DEF AudienceServed
  <2>3. Walked(p) \in Seq(Handlers) BY <2>1, BusTypes
  <2>4. served[p] \in Seq(Handlers) /\ audience[p] \in Seq(Handlers) BY <2>1 DEF BusInv, BusShape
  <2>5. /\ Begins(served[p], Walked(p))
        /\ progress[p].at = "done" => Begins(audience[p], served[p])
    BY <2>1 DEF BusInv, WalkRight, Right
  <2>6. QED BY <2>3, <2>4, <2>5, PrefixOf DEF Walked
<1>2. QED BY <1>1, BusInvariant, PTL

-----------------------------------------------------------------------------
(* Jobs *)


\* A cancelled task is nowhere any more.
CancelledGone ==
  \A t \in cancelled :
    t \notin TasksOf(pending) /\ \A w \in Workers : t \notin TasksOf(taken[w])

\* A task schedule() was not called for has left no trace.
Unsubmitted ==
  \A t \in Tasks \ submitted :
    /\ runs[t] = 0
    /\ t \notin TasksOf(pending)
    /\ \A w \in Workers : t \notin TasksOf(taken[w])

\* AttemptsBounded alone is not inductive: it needs the attempt number of a
\* held job to count its starts, which needs every job to be in one place.
IInv ==
  /\ JobsTypeOK
  /\ OnePlace
  /\ WorkerConsistent
  /\ AttemptsCounted
  /\ AttemptsBounded
  /\ CancelledGone
  /\ Unsubmitted

LEMMA InitIInv == JobsInit => IInv
BY JobsAssumption
   DEF JobsInit, IInv, JobsTypeOK, OnePlace, WorkerConsistent, AttemptsCounted, AttemptsBounded,
       CancelledGone, Unsubmitted, TasksOf, OnePerTask, Busy, Phases

\* The job a busy worker executes is the one Attempt() looks up.
LEMMA CurrentJob ==
  ASSUME JobsTypeOK, OnePlace, WorkerConsistent,
         NEW w \in Workers, phase[w] \in Busy
  PROVE  \E j \in taken[w] : j \in Job /\ j.task = current[w] /\ j.attempt = Attempt(w)
<1>1. PICK j \in taken[w] : j.task = current[w]
  BY DEF WorkerConsistent, TasksOf
<1>2. j \in Job BY DEF JobsTypeOK
<1>3. (CHOOSE i \in taken[w] : i.task = current[w]) = j
  BY <1>1 DEF OnePlace, OnePerTask
<1>4. QED BY <1>1, <1>2, <1>3 DEF Attempt

LEMMA ScheduleStep ==
  ASSUME IInv, NEW t \in Tasks, NEW delay \in Delays, Schedule(t, delay) PROVE IInv'
<1> DEFINE new == [task |-> t, attempt |-> 1, wait |-> delay]
<1> USE DEF IInv
<1>1. /\ t \notin submitted /\ pending' = pending \cup {new}
      /\ submitted' = submitted \cup {t}
      /\ UNCHANGED <<taken, current, phase, runs, outcome, succeeded, cancelled>>
  BY DEF Schedule
<1>2. new \in Job /\ new.task = t /\ new.attempt = 1
  BY JobsAssumption DEF Job
<1>3. /\ t \notin TasksOf(pending) /\ t \notin cancelled /\ runs[t] = 0
      /\ \A w \in Workers : t \notin TasksOf(taken[w])
  BY <1>1 DEF Unsubmitted, JobsTypeOK
<1>4. TasksOf(pending') = TasksOf(pending) \cup {t}
  BY <1>1, <1>2 DEF TasksOf
<1> HIDE DEF new
<1>5. JobsTypeOK' BY <1>1, <1>2 DEF JobsTypeOK
<1>6. OnePlace'
  <2>1. OnePerTask(pending') BY <1>1, <1>2, <1>3 DEF OnePerTask, TasksOf, OnePlace
  <2>2. QED BY <2>1, <1>1, <1>3, <1>4 DEF OnePlace
<1>7. WorkerConsistent' BY <1>1 DEF WorkerConsistent
<1>8. AttemptsCounted' BY <1>1, <1>2, <1>3 DEF AttemptsCounted
<1>9. AttemptsBounded' BY <1>1 DEF AttemptsBounded
<1>10. CancelledGone' BY <1>1, <1>3, <1>4 DEF CancelledGone
<1>11. Unsubmitted' BY <1>1, <1>4 DEF Unsubmitted
<1>12. QED BY <1>5, <1>6, <1>7, <1>8, <1>9, <1>10, <1>11

LEMMA CancelStep == ASSUME IInv, NEW t \in Tasks, Cancel(t) PROVE IInv'
<1> USE DEF IInv
<1>1. /\ pending' = {j \in pending : ~(j.task = t /\ j.attempt = 1)}
      /\ cancelled' = cancelled \cup {t}
      /\ UNCHANGED <<taken, current, phase, runs, outcome, succeeded, submitted>>
      /\ \E j \in pending : j.task = t /\ j.attempt = 1
  BY DEF Cancel
<1>2. t \notin TasksOf(pending') /\ TasksOf(pending') \subseteq TasksOf(pending)
  BY <1>1 DEF TasksOf, OnePlace, OnePerTask
<1>3. \A w \in Workers : t \notin TasksOf(taken[w])
  BY <1>1 DEF OnePlace, TasksOf
<1>4. JobsTypeOK' /\ Unsubmitted'
  <2>1. t \in submitted BY <1>1 DEF Unsubmitted, TasksOf, JobsTypeOK, Job
  <2>2. QED BY <2>1, <1>1, <1>2 DEF JobsTypeOK, Unsubmitted
<1>5. OnePlace'
  <2>1. OnePerTask(pending') BY <1>1 DEF OnePerTask, OnePlace
  <2>2. QED BY <2>1, <1>1, <1>2 DEF OnePlace
<1>6. WorkerConsistent' BY <1>1 DEF WorkerConsistent
<1>7. AttemptsCounted' BY <1>1 DEF AttemptsCounted
<1>8. AttemptsBounded' BY <1>1 DEF AttemptsBounded
<1>9. CancelledGone' BY <1>1, <1>2, <1>3 DEF CancelledGone
<1>10. QED BY <1>4, <1>5, <1>6, <1>7, <1>8, <1>9

LEMMA TickStep == ASSUME IInv, JobsTick PROVE IInv'
<1> USE DEF IInv
<1> DEFINE Sooner(j) == [j EXCEPT !.wait = IF @ = 0 THEN 0 ELSE @ - 1]
<1>1. /\ pending' = {Sooner(j) : j \in pending}
      /\ UNCHANGED <<taken, current, phase, runs, outcome, succeeded, cancelled, submitted>>
  BY DEF JobsTick
<1>2. \A j \in pending : Sooner(j) \in Job /\ Sooner(j).task = j.task /\ Sooner(j).attempt = j.attempt
  BY DEF JobsTypeOK, Job
<1> HIDE DEF Sooner
<1>3. TasksOf(pending') = TasksOf(pending) BY <1>1, <1>2 DEF TasksOf
<1>4. OnePerTask(pending')
  BY <1>1, <1>2 DEF OnePerTask, OnePlace
<1>5. JobsTypeOK' BY <1>1, <1>2 DEF JobsTypeOK
<1>6. OnePlace' BY <1>1, <1>3, <1>4 DEF OnePlace
<1>7. WorkerConsistent' BY <1>1 DEF WorkerConsistent
<1>8. AttemptsCounted' BY <1>1, <1>2 DEF AttemptsCounted
<1>9. AttemptsBounded' /\ CancelledGone' /\ Unsubmitted'
  BY <1>1, <1>3 DEF AttemptsBounded, CancelledGone, Unsubmitted
<1>10. QED BY <1>5, <1>6, <1>7, <1>8, <1>9

\* Starting job j of a batch that holds it, when no job of the batch is being
\* executed: shared by RunDue and NextJob.
LEMMA BeginFacts ==
  ASSUME JobsTypeOK, NEW w \in Workers, NEW j \in Job, current[w] = NoTask, Begin(w, j)
  PROVE  /\ current' = [current EXCEPT ![w] = j.task]
         /\ phase' \in [Workers -> Phases]
         /\ phase'[w] \in Busy
         /\ \A v \in Workers \ {w} : phase'[v] = phase[v] /\ current'[v] = current[v]
         /\ current'[w] = j.task
         /\ \A t \in Tasks \ {j.task} : runs'[t] = runs[t]
         /\ runs' \in [Tasks -> Nat]
         /\ \/ phase'[w] = "unknown" /\ runs' = runs
            \/ phase'[w] = "running" /\ runs'[j.task] = runs[j.task] + 1
<1>1. j.task \in Tasks BY DEF Job
<1>2. QED BY <1>1 DEF Begin, JobsTypeOK, Phases, Busy

LEMMA RunDueStep == ASSUME IInv, NEW w \in Workers, RunDue(w) PROVE IInv'
<1> USE DEF IInv
<1>1. /\ phase[w] = "idle" /\ current[w] = NoTask /\ taken[w] = {}
      /\ pending' = pending \ Due
      /\ taken' = [taken EXCEPT ![w] = Due]
      /\ UNCHANGED <<outcome, succeeded, cancelled, submitted>>
  BY DEF RunDue, WorkerConsistent, Busy
<1>2. PICK j \in Due : Begin(w, j) BY DEF RunDue
<1>3. j \in Job /\ Due \subseteq pending /\ Due \subseteq Job /\ pending \subseteq Job
  BY <1>2 DEF Due, JobsTypeOK
<1>4. /\ current' = [current EXCEPT ![w] = j.task]
      /\ phase' \in [Workers -> Phases] /\ phase'[w] \in Busy
      /\ \A v \in Workers \ {w} : phase'[v] = phase[v] /\ current'[v] = current[v]
      /\ current'[w] = j.task
      /\ \A t \in Tasks \ {j.task} : runs'[t] = runs[t]
      /\ runs' \in [Tasks -> Nat]
      /\ \/ phase'[w] = "unknown" /\ runs' = runs
         \/ phase'[w] = "running" /\ runs'[j.task] = runs[j.task] + 1
  BY <1>1, <1>2, <1>3, BeginFacts
<1>5. /\ taken'[w] = Due
      /\ \A v \in Workers \ {w} : taken'[v] = taken[v]
      /\ taken' \in [Workers -> SUBSET Job]
  BY <1>1, <1>3 DEF JobsTypeOK
<1>6. j.task \in Tasks /\ j.attempt = runs[j.task] + 1 /\ j.attempt <= MaxAttempts[j.task]
  BY <1>2, <1>3 DEF Job, AttemptsCounted
<1>7. \A i \in pending : i.task = j.task => i = j
  BY <1>2, <1>3 DEF OnePlace, OnePerTask
<1>8. \A v \in Workers : \A i \in taken[v] : i.task # j.task
  BY <1>2, <1>3 DEF OnePlace, TasksOf
<1>9. JobsTypeOK'
  BY <1>1, <1>3, <1>4, <1>5, <1>6 DEF JobsTypeOK
<1>10. OnePlace'
  <2>1. OnePerTask(pending') /\ OnePerTask(Due)
    BY <1>1, <1>3 DEF OnePlace, OnePerTask
  <2>2. TasksOf(Due) \cap TasksOf(pending') = {}
    BY <1>1, <1>3 DEF OnePlace, OnePerTask, TasksOf
  <2>3. TasksOf(Due) \subseteq TasksOf(pending) /\ TasksOf(pending') \subseteq TasksOf(pending)
    BY <1>1, <1>3 DEF TasksOf
  <2>4. \A v \in Workers \ {w} : TasksOf(taken'[v]) \cap TasksOf(taken'[w]) = {}
    BY <1>5, <2>3 DEF OnePlace
  <2>5. \A v \in Workers : OnePerTask(taken'[v]) /\ TasksOf(taken'[v]) \cap TasksOf(pending') = {}
    BY <1>5, <2>1, <2>2, <2>3 DEF OnePlace
  <2>6. \A u \in Workers, v \in Workers :
          u # v => TasksOf(taken'[u]) \cap TasksOf(taken'[v]) = {}
    BY <1>5, <2>4 DEF OnePlace
  <2>7. QED BY <2>1, <2>5, <2>6 DEF OnePlace
<1>11. WorkerConsistent'
  BY <1>2, <1>4, <1>5, <1>6, JobsAssumption DEF WorkerConsistent, TasksOf, Busy
<1>12. AttemptsCounted'
  <2>1. ASSUME NEW i \in pending' PROVE i.attempt = runs'[i.task] + 1
    <3>1. i \in pending /\ i # j /\ i.task \in Tasks /\ i.task # j.task
      BY <1>1, <1>2, <1>3, <1>7, <2>1 DEF Job
    <3>2. QED BY <3>1, <1>4 DEF AttemptsCounted
  <2>2. ASSUME NEW v \in Workers, NEW i \in taken'[v]
        PROVE  i.attempt = IF i.task = current'[v] /\ phase'[v] # "unknown"
                           THEN runs'[i.task] ELSE runs'[i.task] + 1
    <3>1. CASE v = w
      <4>1. i \in pending /\ i.task \in Tasks /\ i.attempt = runs[i.task] + 1
        BY <1>3, <1>5, <2>2, <3>1 DEF Job, AttemptsCounted
      <4>2. CASE i = j BY <1>4, <1>6, <3>1, <4>1, <4>2
      <4>3. CASE i # j
        <5>1. i.task # j.task BY <1>7, <4>1, <4>3
        <5>2. runs'[i.task] = runs[i.task] BY <1>4, <4>1, <5>1
        <5>3. QED BY <1>4, <3>1, <4>1, <5>1, <5>2
      <4>4. QED BY <4>2, <4>3
    <3>2. CASE v # w
      <4>1. i \in taken[v] /\ i.task \in Tasks /\ i.task # j.task
        BY <1>5, <1>8, <2>2, <3>2 DEF JobsTypeOK, Job
      <4>2. runs'[i.task] = runs[i.task] /\ current'[v] = current[v] /\ phase'[v] = phase[v]
        BY <1>4, <3>2, <4>1
      <4>3. QED BY <4>1, <4>2 DEF AttemptsCounted
    <3>3. QED BY <3>1, <3>2
  <2>3. QED BY <2>1, <2>2 DEF AttemptsCounted
<1>13. AttemptsBounded'
  BY <1>4, <1>6, JobsAssumption DEF AttemptsBounded, JobsTypeOK
<1>14. CancelledGone'
  BY <1>1, <1>3, <1>5 DEF CancelledGone, TasksOf
<1>15. Unsubmitted'
  <2>1. j.task \in submitted BY <1>2, <1>3, <1>6 DEF Unsubmitted, TasksOf
  <2>2. TasksOf(Due) \subseteq TasksOf(pending) /\ TasksOf(pending') \subseteq TasksOf(pending)
    BY <1>1, <1>3 DEF TasksOf
  <2>3. QED BY <1>1, <1>4, <1>5, <2>1, <2>2 DEF Unsubmitted
<1>16. QED BY <1>9, <1>10, <1>11, <1>12, <1>13, <1>14, <1>15

LEMMA NextJobStep == ASSUME IInv, NEW w \in Workers, NextJob(w) PROVE IInv'
<1> USE DEF IInv
<1>1. /\ phase[w] = "between" /\ current[w] = NoTask
      /\ UNCHANGED <<pending, taken, outcome, succeeded, cancelled, submitted>>
  BY DEF NextJob, WorkerConsistent, Busy
<1>2. PICK j \in taken[w] : Begin(w, j) BY DEF NextJob
<1>3. j \in Job BY DEF JobsTypeOK
<1>4. /\ current' = [current EXCEPT ![w] = j.task]
      /\ phase' \in [Workers -> Phases] /\ phase'[w] \in Busy
      /\ \A v \in Workers \ {w} : phase'[v] = phase[v] /\ current'[v] = current[v]
      /\ current'[w] = j.task
      /\ \A t \in Tasks \ {j.task} : runs'[t] = runs[t]
      /\ runs' \in [Tasks -> Nat]
      /\ \/ phase'[w] = "unknown" /\ runs' = runs
         \/ phase'[w] = "running" /\ runs'[j.task] = runs[j.task] + 1
  BY <1>1, <1>2, <1>3, BeginFacts
<1>5. j.task \in Tasks /\ j.attempt = runs[j.task] + 1 /\ j.attempt <= MaxAttempts[j.task]
  BY <1>1, <1>3, JobsAssumption DEF Job, AttemptsCounted
<1>6. JobsTypeOK' BY <1>1, <1>4, <1>5 DEF JobsTypeOK
<1>7. OnePlace' BY <1>1 DEF OnePlace
<1>8. WorkerConsistent'
  BY <1>1, <1>4, <1>5, JobsAssumption DEF WorkerConsistent, TasksOf, Busy
<1>9. AttemptsCounted'
  <2>1. ASSUME NEW i \in pending PROVE i.attempt = runs'[i.task] + 1
    <3>1. i.task \in Tasks /\ i.task # j.task BY DEF JobsTypeOK, Job, OnePlace, TasksOf
    <3>2. QED BY <3>1, <1>4 DEF AttemptsCounted
  <2>2. ASSUME NEW v \in Workers, NEW i \in taken[v]
        PROVE  i.attempt = IF i.task = current'[v] /\ phase'[v] # "unknown"
                           THEN runs'[i.task] ELSE runs'[i.task] + 1
    <3>1. i.task \in Tasks /\ i \in Job BY DEF JobsTypeOK, Job
    <3>2. CASE v = w /\ i = j BY <1>4, <1>5, <3>2
    <3>3. CASE v = w /\ i # j
      <4>1. i.task # j.task BY <3>3 DEF OnePlace, OnePerTask
      <4>2. i.attempt = runs[i.task] + 1
        BY <1>1, <3>1, <3>3, JobsAssumption DEF AttemptsCounted
      <4>3. QED BY <1>4, <3>1, <3>3, <4>1, <4>2
    <3>4. CASE v # w
      <4>1. i.task # j.task BY <3>4 DEF OnePlace, TasksOf
      <4>2. QED BY <1>4, <3>1, <3>4, <4>1 DEF AttemptsCounted
    <3>5. QED BY <3>2, <3>3, <3>4
  <2>3. QED BY <1>1, <2>1, <2>2 DEF AttemptsCounted
<1>10. AttemptsBounded'
  BY <1>4, <1>5, JobsAssumption DEF AttemptsBounded, JobsTypeOK
<1>11. CancelledGone' BY <1>1 DEF CancelledGone
<1>12. Unsubmitted'
  <2>1. j.task \in submitted BY <1>2, <1>5 DEF Unsubmitted, TasksOf
  <2>2. QED BY <1>1, <1>4, <2>1 DEF Unsubmitted
<1>13. QED BY <1>6, <1>7, <1>8, <1>9, <1>10, <1>11, <1>12

\* What the end of execute() does to a worker's batch.
LEMMA ReturnFacts ==
  ASSUME JobsTypeOK, OnePlace, WorkerConsistent,
         NEW w \in Workers, phase[w] \in Busy, Return(w)
  PROVE  /\ taken' \in [Workers -> SUBSET Job]
         /\ current' \in [Workers -> Tasks \cup {NoTask}]
         /\ phase' \in [Workers -> Phases]
         /\ taken'[w] = {j \in taken[w] : j.task # current[w]}
         /\ current'[w] = NoTask
         /\ phase'[w] = IF taken'[w] = {} THEN "idle" ELSE "between"
         /\ \A v \in Workers \ {w} :
              taken'[v] = taken[v] /\ current'[v] = current[v] /\ phase'[v] = phase[v]
         /\ WorkerConsistent'
         /\ current[w] \in Tasks
         /\ \A v \in Workers : /\ taken'[v] \subseteq taken[v]
                               /\ \A j \in taken'[v] : j.task # current[w]
<1>1. current[w] \in Tasks BY DEF JobsTypeOK, WorkerConsistent
<1>2. /\ taken' \in [Workers -> SUBSET Job]
      /\ current' \in [Workers -> Tasks \cup {NoTask}]
      /\ phase' \in [Workers -> Phases]
      /\ taken'[w] = {j \in taken[w] : j.task # current[w]}
      /\ current'[w] = NoTask
      /\ phase'[w] = IF taken'[w] = {} THEN "idle" ELSE "between"
      /\ \A v \in Workers \ {w} :
           taken'[v] = taken[v] /\ current'[v] = current[v] /\ phase'[v] = phase[v]
  BY DEF Return, JobsTypeOK, Phases
<1>3. WorkerConsistent' BY <1>2 DEF WorkerConsistent, Busy
<1>4. ASSUME NEW v \in Workers
      PROVE  taken'[v] \subseteq taken[v] /\ \A j \in taken'[v] : j.task # current[w]
  <2>1. CASE v = w BY <1>2, <2>1
  <2>2. CASE v # w
    <3>1. TasksOf(taken[w]) \cap TasksOf(taken[v]) = {} BY <2>2 DEF OnePlace
    <3>2. current[w] \in TasksOf(taken[w]) BY DEF WorkerConsistent
    <3>3. QED BY <1>2, <2>2, <3>1, <3>2 DEF TasksOf
  <2>3. QED BY <2>1, <2>2
<1>5. QED BY <1>1, <1>2, <1>3, <1>4

\* The last act of execute() keeps everything but the scheduler's map in order.
LEMMA ReturnKeeps ==
  ASSUME IInv, NEW w \in Workers, phase[w] \in Busy, Return(w), runs' = runs,
         cancelled' = cancelled, submitted' = submitted
  PROVE  /\ \A v \in Workers : OnePerTask(taken'[v])
         /\ \A u \in Workers, v \in Workers :
              u # v => TasksOf(taken'[u]) \cap TasksOf(taken'[v]) = {}
         /\ \A v \in Workers : TasksOf(taken'[v]) \cap TasksOf(pending) = {}
         /\ \A v \in Workers : \A j \in taken'[v] :
              j.attempt = IF j.task = current'[v] /\ phase'[v] # "unknown"
                          THEN runs'[j.task] ELSE runs'[j.task] + 1
         /\ AttemptsBounded'
         /\ \A t \in cancelled : \A v \in Workers : t \notin TasksOf(taken'[v])
         /\ pending' = pending => Unsubmitted'
         /\ current[w] \in submitted
         /\ \A t \in Tasks \ submitted :
              runs'[t] = 0 /\ \A v \in Workers : t \notin TasksOf(taken'[v])
<1> USE DEF IInv
<1>1. /\ taken'[w] = {j \in taken[w] : j.task # current[w]}
      /\ current'[w] = NoTask
      /\ \A v \in Workers \ {w} :
           taken'[v] = taken[v] /\ current'[v] = current[v] /\ phase'[v] = phase[v]
      /\ \A v \in Workers : taken'[v] \subseteq taken[v]
  BY ReturnFacts
<1>2. \A v \in Workers : TasksOf(taken'[v]) \subseteq TasksOf(taken[v])
  BY <1>1 DEF TasksOf
<1>3. \A v \in Workers : OnePerTask(taken'[v])
  BY <1>1 DEF OnePlace, OnePerTask
<1>4. \A u \in Workers, v \in Workers :
        u # v => TasksOf(taken'[u]) \cap TasksOf(taken'[v]) = {}
  BY <1>2 DEF OnePlace
<1>5. \A v \in Workers : TasksOf(taken'[v]) \cap TasksOf(pending) = {}
  BY <1>2 DEF OnePlace
<1>6. ASSUME NEW v \in Workers, NEW j \in taken'[v]
      PROVE  j.attempt = IF j.task = current'[v] /\ phase'[v] # "unknown"
                         THEN runs'[j.task] ELSE runs'[j.task] + 1
  <2>1. j \in taken[v] /\ j.task \in Tasks BY <1>1, <1>6 DEF JobsTypeOK, Job
  <2>2. CASE v = w
    BY <1>1, <1>6, <2>1, <2>2, JobsAssumption DEF AttemptsCounted
  <2>3. CASE v # w BY <1>1, <2>1, <2>3 DEF AttemptsCounted
  <2>4. QED BY <2>2, <2>3
<1>7. AttemptsBounded' BY DEF AttemptsBounded
<1>8. \A t \in cancelled : \A v \in Workers : t \notin TasksOf(taken'[v])
  BY <1>2 DEF CancelledGone
<1>9. current[w] \in submitted
  BY DEF WorkerConsistent, JobsTypeOK, Unsubmitted
<1>10. \A t \in Tasks \ submitted :
         runs'[t] = 0 /\ \A v \in Workers : t \notin TasksOf(taken'[v])
  BY <1>2 DEF Unsubmitted
<1>11. pending' = pending => Unsubmitted' BY <1>10 DEF Unsubmitted
<1>12. QED BY <1>3, <1>4, <1>5, <1>6, <1>7, <1>8, <1>9, <1>10, <1>11

LEMMA FailedStep ==
  ASSUME IInv, NEW w \in Workers, phase[w] \in Busy \ {"unknown"}, Failed(w),
         succeeded' \subseteq Tasks
  PROVE  IInv'
<1> USE DEF IInv
<1>1. PICK j \in taken[w] : j \in Job /\ j.task = current[w] /\ j.attempt = Attempt(w)
  BY CurrentJob
<1>2. j.task \in Tasks /\ Attempt(w) \in Nat \ {0} /\ Attempt(w) = runs[j.task]
  BY <1>1 DEF Job, AttemptsCounted
<1>3. CASE Attempt(w) < MaxAttempts[current[w]]
  <2> DEFINE again == [task |-> current[w], attempt |-> Attempt(w) + 1,
                       wait |-> BackoffAfter(Attempt(w))]
  <2>1. /\ pending' = pending \cup {again}
        /\ Return(w)
        /\ UNCHANGED <<runs, outcome, cancelled, submitted>>
    BY <1>3 DEF Failed, Retry
  <2>2. BackoffAfter(Attempt(w)) \in Nat
    <3>1. Attempt(w) \in 1..MaxAttempts[j.task] BY <1>1, <1>2, <1>3, JobsAssumption
    <3>2. QED BY <3>1, <1>2, JobsAssumption
  <2>3. /\ again \in Job /\ again.task = j.task /\ again.attempt = runs[j.task] + 1
    BY <1>1, <1>2, <1>3, <2>2, JobsAssumption DEF Job
  <2> HIDE DEF again
  <2>4. j.task \notin TasksOf(pending) /\ j.task \notin cancelled
    BY <1>1 DEF OnePlace, TasksOf, CancelledGone
  <2>5. /\ taken' \in [Workers -> SUBSET Job]
        /\ current' \in [Workers -> Tasks \cup {NoTask}]
        /\ phase' \in [Workers -> Phases]
        /\ WorkerConsistent'
        /\ \A v \in Workers : \A i \in taken'[v] : i.task # j.task
    BY <1>1, <2>1, ReturnFacts
  <2>6. JobsTypeOK' BY <2>1, <2>3, <2>5 DEF JobsTypeOK
  <2>7. TasksOf(pending') = TasksOf(pending) \cup {j.task}
    BY <2>1, <2>3 DEF TasksOf
  <2>8. OnePlace'
    <3>1. OnePerTask(pending')
      BY <2>1, <2>3, <2>4 DEF OnePerTask, TasksOf, OnePlace
    <3>2. \A v \in Workers : j.task \notin TasksOf(taken'[v])
      BY <2>5 DEF TasksOf
    <3>3. QED BY <2>1, <2>7, <3>1, <3>2, ReturnKeeps DEF OnePlace
  <2>9. AttemptsCounted'
    <3>1. \A i \in pending' : i.attempt = runs'[i.task] + 1
      BY <2>1, <2>3 DEF AttemptsCounted
    <3>2. QED BY <2>1, <3>1, ReturnKeeps DEF AttemptsCounted
  <2>10. AttemptsBounded' /\ CancelledGone'
    BY <2>1, <2>4, <2>7, ReturnKeeps DEF CancelledGone
  <2>11. Unsubmitted'
    <3>1. current[w] \in submitted
      BY <2>1, ReturnKeeps
    <3>2. \A t \in Tasks \ submitted :
            runs'[t] = 0 /\ \A v \in Workers : t \notin TasksOf(taken'[v])
      BY <2>1, ReturnKeeps
    <3>3. QED BY <1>1, <2>1, <2>7, <3>1, <3>2 DEF Unsubmitted
  <2>12. QED BY <2>5, <2>6, <2>8, <2>9, <2>10, <2>11
<1>4. CASE ~(Attempt(w) < MaxAttempts[current[w]])
  <2>1. /\ phase' = [phase EXCEPT ![w] = "failed"]
        /\ UNCHANGED <<pending, taken, current, runs, outcome, cancelled, submitted>>
    BY <1>4 DEF Failed
  <2>2. JobsTypeOK' BY <2>1 DEF JobsTypeOK, Phases, Busy
  <2>3. WorkerConsistent' BY <2>1 DEF WorkerConsistent, Busy, JobsTypeOK
  <2>4. AttemptsCounted' BY <2>1 DEF AttemptsCounted, JobsTypeOK
  <2>5. QED BY <2>1, <2>2, <2>3, <2>4 DEF OnePlace, AttemptsBounded, CancelledGone, Unsubmitted
<1>5. QED BY <1>3, <1>4

LEMMA RunFulfilsStep == ASSUME IInv, NEW w \in Workers, RunFulfils(w) PROVE IInv'
<1> USE DEF IInv
<1>1. /\ phase[w] = "running"
      /\ phase' = [phase EXCEPT ![w] = "completed"]
      /\ succeeded' = succeeded \cup {current[w]}
      /\ UNCHANGED <<pending, taken, current, runs, outcome, cancelled, submitted>>
  BY DEF RunFulfils
<1>2. current[w] \in Tasks BY <1>1 DEF JobsTypeOK, WorkerConsistent, Busy
<1>3. JobsTypeOK' BY <1>1, <1>2 DEF JobsTypeOK, Phases, Busy
<1>4. WorkerConsistent' BY <1>1 DEF WorkerConsistent, Busy, JobsTypeOK
<1>5. AttemptsCounted' BY <1>1 DEF AttemptsCounted, JobsTypeOK
<1>6. QED BY <1>1, <1>3, <1>4, <1>5 DEF OnePlace, AttemptsBounded, CancelledGone, Unsubmitted

LEMMA AuditFulfilsStep == ASSUME IInv, NEW w \in Workers, AuditFulfils(w) PROVE IInv'
<1> USE DEF IInv
<1>1. /\ phase[w] \in Busy /\ Return(w)
      /\ outcome' = [outcome EXCEPT ![current[w]] =
                       IF phase[w] = "completed" THEN "ok" ELSE "failed"]
      /\ UNCHANGED <<pending, runs, succeeded, cancelled, submitted>>
  BY DEF AuditFulfils, Busy
<1>2. /\ taken' \in [Workers -> SUBSET Job]
      /\ current' \in [Workers -> Tasks \cup {NoTask}]
      /\ phase' \in [Workers -> Phases]
      /\ WorkerConsistent' /\ current[w] \in Tasks
  BY <1>1, ReturnFacts
<1>3. JobsTypeOK' BY <1>1, <1>2 DEF JobsTypeOK
<1>4. OnePlace' BY <1>1, ReturnKeeps DEF OnePlace
<1>5. AttemptsCounted' BY <1>1, ReturnKeeps DEF AttemptsCounted
<1>6. AttemptsBounded' /\ CancelledGone' /\ Unsubmitted'
  BY <1>1, ReturnKeeps DEF CancelledGone
<1>7. QED BY <1>2, <1>3, <1>4, <1>5, <1>6

LEMMA AuditRejectsFailureStep ==
  ASSUME IInv, NEW w \in Workers, AuditRejectsFailure(w) PROVE IInv'
<1> USE DEF IInv
<1>1. /\ taken' = [taken EXCEPT ![w] = {}]
      /\ current' = [current EXCEPT ![w] = NoTask]
      /\ phase' = [phase EXCEPT ![w] = "idle"]
      /\ UNCHANGED <<pending, runs, outcome, succeeded, cancelled, submitted>>
  BY DEF AuditRejectsFailure
<1>2. JobsTypeOK' BY <1>1 DEF JobsTypeOK, Phases
<1>3. /\ taken'[w] = {} /\ current'[w] = NoTask /\ phase'[w] = "idle"
      /\ \A v \in Workers \ {w} :
           taken'[v] = taken[v] /\ current'[v] = current[v] /\ phase'[v] = phase[v]
  BY <1>1 DEF JobsTypeOK
<1>4. \A v \in Workers : taken'[v] \subseteq taken[v] /\ TasksOf(taken'[v]) \subseteq TasksOf(taken[v])
  BY <1>3 DEF TasksOf
<1>5. OnePlace'
  BY <1>1, <1>4 DEF OnePlace, OnePerTask
<1>6. WorkerConsistent' BY <1>3 DEF WorkerConsistent, Busy
<1>7. AttemptsCounted' BY <1>1, <1>3 DEF AttemptsCounted
<1>8. AttemptsBounded' /\ CancelledGone' /\ Unsubmitted'
  BY <1>1, <1>4 DEF AttemptsBounded, CancelledGone, Unsubmitted
<1>9. QED BY <1>2, <1>5, <1>6, <1>7, <1>8

LEMMA WorkStep == ASSUME IInv, NEW w \in Workers, Work(w) PROVE IInv'
<1>1. CASE RunRejects(w)
  <2>1. phase[w] \in Busy \ {"unknown"} /\ Failed(w) /\ succeeded' \subseteq Tasks
    BY <1>1 DEF RunRejects, Busy, IInv, JobsTypeOK
  <2>2. QED BY <2>1, FailedStep
<1>2. CASE AuditRejectsSuccess(w)
  <2>1. phase[w] \in Busy \ {"unknown"} /\ Failed(w) /\ succeeded' \subseteq Tasks
    BY <1>2 DEF AuditRejectsSuccess, Busy, IInv, JobsTypeOK
  <2>2. QED BY <2>1, FailedStep
<1>3. QED BY <1>1, <1>2, RunDueStep, NextJobStep, RunFulfilsStep, AuditFulfilsStep,
             AuditRejectsFailureStep DEF Work

LEMMA NextIInv == IInv /\ [JobsNext]_jobsVars => IInv'
<1>1. SUFFICES ASSUME IInv, [JobsNext]_jobsVars PROVE IInv' OBVIOUS
<1>2. CASE UNCHANGED jobsVars
  BY <1>1, <1>2 DEF jobsVars, IInv, JobsTypeOK, OnePlace, WorkerConsistent, AttemptsCounted,
     AttemptsBounded, CancelledGone, Unsubmitted
<1>3. CASE JobsNext
  BY <1>1, <1>3, ScheduleStep, CancelStep, TickStep, WorkStep DEF JobsNext
<1>4. QED BY <1>1, <1>2, <1>3

THEOREM JobsInvariant == JobsSpec => []IInv
BY InitIInv, NextIInv, PTL DEF JobsSpec

\* Every job is in one place, under the number of its starts, and is never
\* started beyond its last attempt, for every number of tasks and workers.
THEOREM JobsAlwaysKept == JobsSpec => []JobsKept
<1>1. IInv => JobsKept BY DEF IInv, JobsKept
<1>2. QED BY <1>1, JobsInvariant, PTL

\* However many workers pull jobs and whatever the audit sink does, no job is
\* started more often than its definition allows.
THEOREM AttemptsAlwaysBounded == JobsSpec => []AttemptsBounded
BY JobsInvariant, PTL DEF IInv

\* A job is held in one place only, so two workers never run it at once.
THEOREM AlwaysOnePlace == JobsSpec => []OnePlace
BY JobsInvariant, PTL DEF IInv

\* cancel() returning true is final.
THEOREM CancelledNeverRuns == JobsSpec => CancelFinal
<1>1. IInv /\ [JobsNext]_jobsVars => [\A t \in cancelled : runs'[t] = runs[t]]_jobsVars
  <2>1. SUFFICES ASSUME IInv, JobsNext, NEW t \in cancelled PROVE runs'[t] = runs[t]
    BY DEF jobsVars
  <2>2. t \in Tasks BY <2>1 DEF IInv, JobsTypeOK
  <2>3. ASSUME NEW w \in Workers, NEW j, Begin(w, j), j.task # t PROVE runs'[t] = runs[t]
    BY <2>1, <2>2, <2>3 DEF Begin, IInv, JobsTypeOK
  <2>4. ASSUME NEW w \in Workers, RunDue(w) PROVE runs'[t] = runs[t]
    BY <2>1, <2>3, <2>4 DEF RunDue, Due, IInv, CancelledGone, TasksOf
  <2>5. ASSUME NEW w \in Workers, NextJob(w) PROVE runs'[t] = runs[t]
    BY <2>1, <2>3, <2>5 DEF NextJob, IInv, CancelledGone, TasksOf
  <2>6. QED BY <2>1, <2>4, <2>5 DEF JobsNext, Work, Cancel, Schedule, JobsTick, RunFulfils, RunRejects,
               Failed, Retry, AuditFulfils, AuditRejectsSuccess, AuditRejectsFailure
<1>2. QED BY <1>1, JobsInvariant, PTL DEF JobsSpec, CancelFinal

-----------------------------------------------------------------------------
(* How scheduler and workers implement the life of a job. *)

\* Some part of the system has the job, or executes it.
Held(t) == t \in TasksOf(pending) \/ \E w \in Workers : t \in TasksOf(taken[w])
Running(t) == \E w \in Workers : current[w] = t /\ phase[w] # "unknown"

\* A job with an outcome is nowhere any more.
DecidedGone == \A t \in Tasks : outcome[t] # "none" => t \in submitted /\ ~Held(t)

\* A failure is recorded when the attempts are used up, and only then.
UsedUp ==
  \A w \in Workers : phase[w] = "failed" => runs[current[w]] = MaxAttempts[current[w]]

RInv == IInv /\ DecidedGone /\ UsedUp

\* Status, which is defined over the nine variables, depends on five facts.
StatusIs ==
  \A t \in Tasks :
    Status[t] = IF t \notin submitted THEN "new"
                ELSE IF t \in cancelled THEN "cancelled"
                ELSE IF outcome[t] # "none" THEN outcome[t]
                ELSE IF ~Held(t) THEN "lost"
                ELSE IF Running(t) THEN "running" ELSE "waiting"

LEMMA StatusNow == StatusIs
<1> SUFFICES ASSUME NEW t \in Tasks
             PROVE  Status[t] = IF t \notin submitted THEN "new"
                                ELSE IF t \in cancelled THEN "cancelled"
                                ELSE IF outcome[t] # "none" THEN outcome[t]
                                ELSE IF ~Held(t) THEN "lost"
                                ELSE IF Running(t) THEN "running" ELSE "waiting"
  BY DEF StatusIs
<1>1. CASE t \in submitted /\ t \notin cancelled /\ outcome[t] = "none"
  <2>1. Lost(t) <=> ~Held(t)
    BY <1>1 DEF Lost, Held
  <2>2. QED BY <1>1, <2>1 DEF Status, Running
<1>2. CASE ~(t \in submitted /\ t \notin cancelled /\ outcome[t] = "none")
  BY <1>2 DEF Status
<1>3. QED BY <1>1, <1>2

LEMMA StatusThen == StatusIs'
BY StatusNow, PTL

\* Nothing that the status of a job depends on has changed.
Same(t) ==
  /\ t \in submitted' <=> t \in submitted
  /\ t \in cancelled' <=> t \in cancelled
  /\ outcome'[t] = outcome[t]
  /\ Held(t)' <=> Held(t)
  /\ Running(t)' <=> Running(t)

LEMMA SameStatus == ASSUME NEW t \in Tasks, Same(t) PROVE Status'[t] = Status[t]
BY StatusNow, StatusThen DEF StatusIs, Same

\* A job that is held is waiting or running, and one that runs is held.
LEMMA HeldStatus ==
  ASSUME IInv, DecidedGone, NEW t \in Tasks
  PROVE  /\ Held(t) => /\ t \in submitted /\ t \notin cancelled /\ outcome[t] = "none"
                       /\ Status[t] = IF Running(t) THEN "running" ELSE "waiting"
         /\ \A w \in Workers : current[w] = t => phase[w] \in Busy /\ t \in TasksOf(taken[w])
         /\ Running(t) => Held(t)
<1>1. \A w \in Workers : current[w] = t => phase[w] \in Busy /\ t \in TasksOf(taken[w])
  BY JobsAssumption DEF IInv, WorkerConsistent
<1>2. Running(t) => Held(t)
  BY <1>1 DEF Running, Held
<1>3. ASSUME Held(t) PROVE t \in submitted /\ t \notin cancelled /\ outcome[t] = "none"
  BY <1>3 DEF IInv, CancelledGone, Unsubmitted, DecidedGone, Held
<1>4. QED BY <1>1, <1>2, <1>3, StatusNow DEF StatusIs

\* The status of one job moves, and that of no other.
LEMMA Moves ==
  ASSUME NEW t \in Tasks, NEW from, NEW to, Status[t] = from, Status'[t] = to,
         \A u \in Tasks \ {t} : Same(u)
  PROVE  Life!Move(t, from, to)
<1>1. \A u \in Tasks \ {t} : Status'[u] = Status[u]
  BY SameStatus
<1>2. Status = [u \in Tasks |-> Status[u]] /\ Status' = [u \in Tasks |-> Status'[u]]
  BY DEF Status
<1>3. Status' = [Status EXCEPT ![t] = to]
  BY <1>1, <1>2
<1>4. QED BY <1>3 DEF Life!Move

\* No job moves at all.
LEMMA Stutters ==
  ASSUME \A u \in Tasks : Same(u), runs' = runs
  PROVE  UNCHANGED Life!lifeVars
<1>1. \A u \in Tasks : Status'[u] = Status[u]
  BY SameStatus
<1>2. Status = [u \in Tasks |-> Status[u]] /\ Status' = [u \in Tasks |-> Status'[u]]
  BY DEF Status
<1>3. Status' = Status
  BY <1>1, <1>2
<1>4. QED BY <1>3 DEF Life!lifeVars

\* What a step does to the jobs: schedule() submits one.
LEMMA ScheduleMoves ==
  ASSUME RInv, NEW t \in Tasks, NEW delay \in Delays, Schedule(t, delay)
  PROVE  /\ Life!LifeNext /\ DecidedGone' /\ UsedUp'
         /\ \A u \in Tasks \ {t} : Same(u)
         /\ t \notin submitted /\ Held(t)'
<1> DEFINE new == [task |-> t, attempt |-> 1, wait |-> delay]
<1>1. /\ t \notin submitted /\ pending' = pending \cup {new}
      /\ submitted' = submitted \cup {t}
      /\ UNCHANGED <<taken, current, phase, runs, outcome, succeeded, cancelled>>
  BY DEF Schedule
<1>2. TasksOf(pending') = TasksOf(pending) \cup {t}
  <2>1. new.task = t
    OBVIOUS
  <2> HIDE DEF new
  <2>2. QED BY <1>1, <2>1 DEF TasksOf
<1> HIDE DEF new
<1>3. \A u \in Tasks : Running(u)' <=> Running(u)
  BY <1>1 DEF Running
<1>4. \A u \in Tasks \ {t} : Held(u)' <=> Held(u)
  BY <1>1, <1>2 DEF Held
<1>5. \A u \in Tasks \ {t} : Same(u)
  BY <1>1, <1>3, <1>4 DEF Same
<1>6. Held(t)' /\ ~Held(t) /\ ~Running(t)
  BY <1>1, <1>2, HeldStatus DEF Held, RInv
<1>7. t \in submitted' /\ t \notin cancelled' /\ outcome'[t] = "none" /\ ~Running(t)'
  BY <1>1, <1>3, <1>6 DEF RInv, IInv, JobsTypeOK, DecidedGone
<1>8. Status[t] = "new" /\ Status'[t] = "waiting"
  BY <1>1, <1>6, <1>7, StatusNow, StatusThen DEF StatusIs
<1>9. Life!Submit(t)
  BY <1>1, <1>5, <1>8, Moves DEF Life!Submit
<1>10. DecidedGone'
  BY <1>1, <1>4, <1>7 DEF RInv, DecidedGone
<1>11. UsedUp'
  BY <1>1 DEF RInv, UsedUp
<1>12. QED BY <1>1, <1>5, <1>6, <1>9, <1>10, <1>11 DEF Life!LifeNext

\* cancel() calls back a job that has not run yet.
LEMMA CancelMoves ==
  ASSUME RInv, NEW t \in Tasks, Cancel(t)
  PROVE  /\ Life!LifeNext /\ DecidedGone' /\ UsedUp'
         /\ \A u \in Tasks \ {t} : Same(u)
         /\ t \in cancelled'
<1>1. PICK j \in pending : j.task = t /\ j.attempt = 1
  BY DEF Cancel
<1>2. /\ pending' = {i \in pending : ~(i.task = t /\ i.attempt = 1)}
      /\ cancelled' = cancelled \cup {t}
      /\ UNCHANGED <<taken, current, phase, runs, outcome, succeeded, submitted>>
  BY DEF Cancel
<1>3. TasksOf(pending') = TasksOf(pending) \ {t} /\ t \in TasksOf(pending)
  BY <1>1, <1>2 DEF RInv, IInv, OnePlace, OnePerTask, TasksOf
<1>4. \A w \in Workers : t \notin TasksOf(taken[w])
  BY <1>3 DEF RInv, IInv, OnePlace
<1>5. Held(t) /\ ~Running(t)
  BY <1>3, <1>4, HeldStatus DEF Held, Running, RInv
<1>6. runs[t] = 0
  BY <1>1 DEF RInv, IInv, AttemptsCounted, JobsTypeOK
<1>7. \A u \in Tasks : (Running(u)' <=> Running(u)) /\ (u # t => (Held(u)' <=> Held(u)))
  BY <1>2, <1>3 DEF Running, Held
<1>8. \A u \in Tasks \ {t} : Same(u)
  BY <1>2, <1>7 DEF Same
<1>9. Status[t] = "waiting" /\ Status'[t] = "cancelled"
  BY <1>2, <1>5, HeldStatus, StatusThen DEF StatusIs, RInv
<1>10. Life!Withdraw(t)
  BY <1>2, <1>6, <1>8, <1>9, Moves DEF Life!Withdraw
<1>11. DecidedGone'
  BY <1>2, <1>5, <1>7 DEF RInv, DecidedGone
<1>12. UsedUp'
  BY <1>2 DEF RInv, UsedUp
<1>13. QED BY <1>2, <1>8, <1>10, <1>11, <1>12 DEF Life!LifeNext, Life!Progress

\* Time passes for the scheduler and for no job.
LEMMA TickMoves ==
  ASSUME RInv, JobsTick
  PROVE  runs' = runs /\ DecidedGone' /\ UsedUp' /\ \A u \in Tasks : Same(u)
<1> DEFINE Sooner(j) == [j EXCEPT !.wait = IF @ = 0 THEN 0 ELSE @ - 1]
<1>1. /\ pending' = {Sooner(j) : j \in pending}
      /\ UNCHANGED <<taken, current, phase, runs, outcome, succeeded, cancelled, submitted>>
  BY DEF JobsTick
<1>2. \A j \in pending : Sooner(j).task = j.task
  BY DEF RInv, IInv, JobsTypeOK, Job
<1> HIDE DEF Sooner
<1>3. TasksOf(pending') = TasksOf(pending) BY <1>1, <1>2 DEF TasksOf
<1>4. \A u \in Tasks : (Held(u)' <=> Held(u)) /\ (Running(u)' <=> Running(u))
  BY <1>1, <1>3 DEF Held, Running
<1>5. DecidedGone' /\ UsedUp'
  BY <1>1, <1>4 DEF RInv, DecidedGone, UsedUp
<1>6. QED BY <1>1, <1>4, <1>5 DEF Same

\* Starting a job that somebody has: it runs, or nobody can run it.
LEMMA BeginMoves ==
  ASSUME RInv, NEW w \in Workers, NEW j \in Job, current[w] = NoTask, Begin(w, j),
         Held(j.task), \A v \in Workers : current[v] # j.task,
         runs[j.task] < MaxAttempts[j.task],
         \A u \in Tasks : Held(u)' <=> Held(u),
         UNCHANGED <<outcome, cancelled, submitted>>
  PROVE  /\ [Life!LifeNext]_(Life!lifeVars) /\ DecidedGone' /\ UsedUp'
         /\ \A u \in Tasks : Held(u)' <=> Held(u)
<1> DEFINE t == j.task
<1>1. /\ \A v \in Workers \ {w} : phase'[v] = phase[v] /\ current'[v] = current[v]
      /\ current'[w] = t /\ t \in Tasks
      /\ \A u \in Tasks \ {t} : runs'[u] = runs[u]
      /\ runs' \in [Tasks -> Nat]
      /\ \/ phase'[w] = "unknown" /\ runs' = runs
         \/ phase'[w] = "running" /\ runs'[t] = runs[t] + 1
  BY BeginFacts DEF RInv, IInv, Job
<1>2. ~Running(t)
  BY DEF Running
<1>3. \A u \in Tasks \ {t} : Running(u)' <=> Running(u)
  <2>1. \A u \in Tasks \ {t} : u # NoTask BY JobsAssumption
  <2>2. QED BY <1>1, <2>1 DEF Running
<1>4. \A u \in Tasks \ {t} : Same(u)
  BY <1>3 DEF Same
<1>5. DecidedGone'
  BY DEF RInv, DecidedGone
<1>6. UsedUp'
  <2>1. SUFFICES ASSUME NEW v \in Workers, phase'[v] = "failed"
                 PROVE  runs'[current'[v]] = MaxAttempts[current'[v]]
    BY DEF UsedUp
  <2>2. v # w /\ phase[v] = "failed" /\ current'[v] = current[v]
    BY <1>1, <2>1
  <2>3. current[v] \in Tasks \ {t}
    BY <2>2 DEF RInv, IInv, WorkerConsistent, Busy, JobsTypeOK
  <2>4. QED BY <1>1, <2>2, <2>3 DEF RInv, UsedUp
<1>7. CASE phase'[w] = "unknown" /\ runs' = runs
  <2>1. ~Running(t)'
    BY <1>1, <1>7 DEF Running
  <2>2. \A u \in Tasks : Same(u)
    BY <1>2, <1>4, <2>1 DEF Same
  <2>3. QED BY <1>5, <1>6, <1>7, <2>2, Stutters
<1>8. CASE phase'[w] = "running" /\ runs'[t] = runs[t] + 1
  <2>1. Running(t)'
    BY <1>1, <1>8 DEF Running
  <2>2. Status[t] = "waiting"
    BY <1>1, <1>2, HeldStatus DEF RInv
  <2>3. Status'[t] = "running"
    BY <1>1, <2>1, HeldStatus, StatusThen DEF RInv, StatusIs
  <2>4. runs' = [runs EXCEPT ![t] = runs[t] + 1]
    BY <1>1, <1>8 DEF RInv, IInv, JobsTypeOK
  <2>5. Life!Begin(t)
    BY <1>1, <1>4, <2>2, <2>3, <2>4, Moves DEF Life!Begin
  <2>6. QED BY <1>1, <1>5, <1>6, <2>5 DEF Life!LifeNext, Life!Progress
<1>9. QED BY <1>1, <1>7, <1>8

LEMMA RunDueMoves ==
  ASSUME RInv, NEW w \in Workers, RunDue(w)
  PROVE  /\ [Life!LifeNext]_(Life!lifeVars) /\ DecidedGone' /\ UsedUp'
         /\ \A u \in Tasks : Held(u)' <=> Held(u)
<1>1. /\ phase[w] = "idle" /\ current[w] = NoTask /\ taken[w] = {}
      /\ pending' = pending \ Due
      /\ taken' = [taken EXCEPT ![w] = Due]
      /\ UNCHANGED <<outcome, succeeded, cancelled, submitted>>
  BY DEF RunDue, RInv, IInv, WorkerConsistent, Busy
<1>2. PICK j \in Due : Begin(w, j) BY DEF RunDue
<1>3. j \in Job /\ Due \subseteq pending /\ j \in pending
  BY <1>2 DEF Due, RInv, IInv, JobsTypeOK
<1>4. /\ taken'[w] = Due
      /\ \A v \in Workers \ {w} : taken'[v] = taken[v]
  BY <1>1 DEF RInv, IInv, JobsTypeOK
<1>5. TasksOf(pending) = TasksOf(pending') \cup TasksOf(Due)
  BY <1>1, <1>3 DEF TasksOf
<1>6. TasksOf(taken[w]) = {}
  BY <1>1 DEF TasksOf
<1>7. \A u \in Tasks : Held(u)' <=> Held(u)
  BY <1>4, <1>5, <1>6 DEF Held
<1>8. j.task \in TasksOf(pending) /\ j.task \in Tasks /\ Held(j.task)
  BY <1>3 DEF TasksOf, Held, Job
<1>9. \A v \in Workers : current[v] # j.task
  BY <1>8, HeldStatus DEF RInv, IInv, OnePlace
<1>10. runs[j.task] < MaxAttempts[j.task]
  BY <1>3, <1>8, JobsAssumption DEF RInv, IInv, AttemptsCounted, Job, JobsTypeOK
<1>11. QED BY <1>1, <1>2, <1>3, <1>7, <1>8, <1>9, <1>10, BeginMoves

LEMMA NextJobMoves ==
  ASSUME RInv, NEW w \in Workers, NextJob(w)
  PROVE  /\ [Life!LifeNext]_(Life!lifeVars) /\ DecidedGone' /\ UsedUp'
         /\ \A u \in Tasks : Held(u)' <=> Held(u)
<1>1. /\ phase[w] = "between" /\ current[w] = NoTask
      /\ UNCHANGED <<pending, taken, outcome, succeeded, cancelled, submitted>>
  BY DEF NextJob, RInv, IInv, WorkerConsistent, Busy
<1>2. PICK j \in taken[w] : Begin(w, j) BY DEF NextJob
<1>3. j \in Job /\ j.task \in TasksOf(taken[w]) /\ j.task \in Tasks
  BY <1>2 DEF TasksOf, RInv, IInv, JobsTypeOK, Job
<1>4. Held(j.task) /\ \A u \in Tasks : Held(u)' <=> Held(u)
  BY <1>1, <1>3 DEF Held
<1>5. \A v \in Workers : current[v] # j.task
  <2>1. ASSUME NEW v \in Workers, current[v] = j.task PROVE FALSE
    <3>1. j.task \in TasksOf(taken[v]) BY <1>3, <2>1, HeldStatus DEF RInv
    <3>2. v = w BY <1>3, <3>1 DEF RInv, IInv, OnePlace
    <3>3. QED BY <1>1, <1>3, <2>1, <3>2, JobsAssumption
  <2>2. QED BY <2>1
<1>6. runs[j.task] < MaxAttempts[j.task]
  BY <1>2, <1>3, <1>5, JobsAssumption DEF RInv, IInv, AttemptsCounted, Job, JobsTypeOK
<1>7. QED BY <1>1, <1>2, <1>3, <1>4, <1>5, <1>6, BeginMoves

\* The run of a job ends well: it is still this worker's to record.
LEMMA RunFulfilsMoves ==
  ASSUME RInv, NEW w \in Workers, RunFulfils(w)
  PROVE  runs' = runs /\ DecidedGone' /\ UsedUp' /\ \A u \in Tasks : Same(u)
<1>1. /\ phase[w] = "running" /\ phase' = [phase EXCEPT ![w] = "completed"]
      /\ UNCHANGED <<pending, taken, current, runs, outcome, cancelled, submitted>>
  BY DEF RunFulfils
<1>2. phase'[w] = "completed" /\ \A v \in Workers \ {w} : phase'[v] = phase[v]
  BY <1>1 DEF RInv, IInv, JobsTypeOK
<1>3. \A u \in Tasks : (Held(u)' <=> Held(u)) /\ (Running(u)' <=> Running(u))
  BY <1>1, <1>2 DEF Held, Running
<1>4. DecidedGone' /\ UsedUp'
  BY <1>1, <1>2, <1>3 DEF RInv, DecidedGone, UsedUp
<1>5. QED BY <1>1, <1>3, <1>4 DEF Same

\* The end of execute(): the job leaves the batch, every other stays in place.
LEMMA ReturnMoves ==
  ASSUME RInv, NEW w \in Workers, phase[w] \in Busy, Return(w), runs' = runs,
         NEW t \in Tasks, current[w] = t
  PROVE  /\ ~Running(t)'
         /\ \A v \in Workers : t \notin TasksOf(taken'[v])
         /\ \A u \in Tasks \ {t} :
              /\ Running(u)' <=> Running(u)
              /\ \A v \in Workers : u \in TasksOf(taken'[v]) <=> u \in TasksOf(taken[v])
         /\ UsedUp'
<1>1. /\ taken'[w] = {j \in taken[w] : j.task # t}
      /\ current'[w] = NoTask /\ phase'[w] \in {"idle", "between"}
      /\ \A v \in Workers \ {w} :
           taken'[v] = taken[v] /\ current'[v] = current[v] /\ phase'[v] = phase[v]
      /\ \A v \in Workers : \A j \in taken'[v] : j.task # t
  BY ReturnFacts DEF RInv, IInv
<1>2. \A v \in Workers : t \notin TasksOf(taken'[v])
  BY <1>1 DEF TasksOf
<1>3. \A u \in Tasks \ {t} : \A v \in Workers : u \in TasksOf(taken'[v]) <=> u \in TasksOf(taken[v])
  BY <1>1 DEF TasksOf
<1>4. \A u \in Tasks \ {t} : Running(u)' <=> Running(u)
  <2>1. \A u \in Tasks : u # NoTask BY JobsAssumption
  <2>2. QED BY <1>1, <2>1 DEF Running
<1>5. ~Running(t)'
  <2>1. \A v \in Workers \ {w} : current[v] # t
    <3>1. ASSUME NEW v \in Workers \ {w}, current[v] = t PROVE FALSE
      <4>1. t \in TasksOf(taken[v]) /\ t \in TasksOf(taken[w])
        BY <3>1, HeldStatus DEF RInv
      <4>2. QED BY <3>1, <4>1 DEF RInv, IInv, OnePlace
    <3>2. QED BY <3>1
  <2>2. QED BY <1>1, <2>1, JobsAssumption DEF Running
<1>6. UsedUp'
  <2>1. \A v \in Workers : phase'[v] = "failed" =>
          v # w /\ phase[v] = "failed" /\ current'[v] = current[v]
    BY <1>1
  <2>2. QED BY <2>1 DEF RInv, UsedUp
<1>7. QED BY <1>2, <1>3, <1>4, <1>5, <1>6

\* The job is scheduled again, or its last failure is about to be recorded.
LEMMA FailedMoves ==
  ASSUME RInv, NEW w \in Workers, phase[w] \in {"running", "completed"}, Failed(w)
  PROVE  /\ [Life!LifeNext]_(Life!lifeVars) /\ DecidedGone' /\ UsedUp'
         /\ \A u \in Tasks : Held(u)' <=> Held(u)
<1>1. PICK t \in Tasks : current[w] = t
  BY DEF RInv, IInv, WorkerConsistent, Busy, JobsTypeOK
<1>2. PICK j \in taken[w] : j \in Job /\ j.task = t /\ j.attempt = Attempt(w)
  BY <1>1, CurrentJob DEF RInv, IInv, Busy
<1>3. /\ Attempt(w) = runs[t] /\ Attempt(w) <= MaxAttempts[t]
      /\ MaxAttempts[t] \in Nat /\ runs[t] \in Nat
  BY <1>1, <1>2, JobsAssumption DEF RInv, IInv, AttemptsCounted, Job, JobsTypeOK
<1>4. t \in TasksOf(taken[w]) /\ Held(t) /\ Running(t)
  BY <1>1, <1>2 DEF TasksOf, Held, Running
<1>5. Status[t] = "running" /\ t \in submitted /\ t \notin cancelled /\ outcome[t] = "none"
  BY <1>3, <1>4, HeldStatus DEF RInv
<1>6. CASE Attempt(w) < MaxAttempts[t]
  <2> DEFINE new == [task |-> t, attempt |-> Attempt(w) + 1, wait |-> BackoffAfter(Attempt(w))]
  <2>1. /\ pending' = pending \cup {new} /\ Return(w)
        /\ UNCHANGED <<runs, outcome, cancelled, submitted>>
    BY <1>1, <1>6 DEF Failed, Retry
  <2>2. TasksOf(pending') = TasksOf(pending) \cup {t}
    <3>1. new.task = t
      OBVIOUS
    <3> HIDE DEF new
    <3>2. QED BY <2>1, <3>1 DEF TasksOf
  <2> HIDE DEF new
  <2>3. /\ ~Running(t)'
        /\ \A u \in Tasks \ {t} :
             /\ Running(u)' <=> Running(u)
             /\ \A v \in Workers : u \in TasksOf(taken'[v]) <=> u \in TasksOf(taken[v])
        /\ UsedUp'
    BY <1>1, <2>1, ReturnMoves DEF Busy
  <2>4. Held(t)' /\ \A u \in Tasks \ {t} : Held(u)' <=> Held(u)
    BY <2>2, <2>3 DEF Held
  <2>5. \A u \in Tasks \ {t} : Same(u)
    BY <2>1, <2>3, <2>4 DEF Same
  <2>6. Status'[t] = "waiting"
    BY <1>3, <1>5, <2>1, <2>3, <2>4, StatusThen DEF StatusIs
  <2>7. Life!Again(t)
    BY <1>3, <1>5, <1>6, <2>1, <2>5, <2>6, Moves DEF Life!Again
  <2>8. DecidedGone'
    BY <1>4, <2>1, <2>4 DEF RInv, DecidedGone
  <2>9. QED BY <1>3, <1>4, <2>3, <2>4, <2>7, <2>8 DEF Life!LifeNext, Life!Progress
<1>7. CASE ~(Attempt(w) < MaxAttempts[t])
  <2>1. /\ phase' = [phase EXCEPT ![w] = "failed"]
        /\ UNCHANGED <<pending, taken, current, runs, outcome, cancelled, submitted>>
    BY <1>1, <1>7 DEF Failed
  <2>2. phase'[w] = "failed" /\ \A v \in Workers \ {w} : phase'[v] = phase[v]
    BY <2>1 DEF RInv, IInv, JobsTypeOK
  <2>3. \A u \in Tasks : (Held(u)' <=> Held(u)) /\ (Running(u)' <=> Running(u))
    BY <2>1, <2>2 DEF Held, Running
  <2>4. \A u \in Tasks : Same(u)
    BY <2>1, <2>3 DEF Same
  <2>5. DecidedGone'
    BY <2>1, <2>3 DEF RInv, DecidedGone
  <2>6. runs[t] = MaxAttempts[t]
    BY <1>3, <1>7
  <2>7. UsedUp'
    BY <1>1, <2>1, <2>2, <2>6 DEF RInv, UsedUp
  <2>8. QED BY <2>1, <2>3, <2>4, <2>5, <2>7, Stutters
<1>8. QED BY <1>6, <1>7

\* An outcome is recorded: of a success, of the last failure, or of a job that
\* nobody can run.
LEMMA AuditFulfilsMoves ==
  ASSUME RInv, NEW w \in Workers, AuditFulfils(w)
  PROVE  /\ Life!LifeNext /\ DecidedGone' /\ UsedUp'
         /\ \A u \in Tasks : u # current[w] => Same(u)
         /\ current[w] \in Tasks /\ outcome'[current[w]] # "none"
<1>1. PICK t \in Tasks : current[w] = t
  BY DEF RInv, IInv, AuditFulfils, WorkerConsistent, Busy, JobsTypeOK
<1>2. /\ phase[w] \in {"completed", "failed", "unknown"} /\ phase[w] \in Busy /\ Return(w)
      /\ outcome' = [outcome EXCEPT ![t] = IF phase[w] = "completed" THEN "ok" ELSE "failed"]
      /\ UNCHANGED <<pending, runs, succeeded, cancelled, submitted>>
  BY <1>1 DEF AuditFulfils, Busy
<1>3. /\ ~Running(t)' /\ UsedUp'
      /\ \A v \in Workers : t \notin TasksOf(taken'[v])
      /\ \A u \in Tasks \ {t} :
           /\ Running(u)' <=> Running(u)
           /\ \A v \in Workers : u \in TasksOf(taken'[v]) <=> u \in TasksOf(taken[v])
  BY <1>1, <1>2, ReturnMoves
<1>4. t \in TasksOf(taken[w]) /\ Held(t)
  BY <1>1, HeldStatus DEF RInv, Held
<1>5. t \in submitted /\ t \notin cancelled /\ outcome[t] = "none"
  BY <1>3, <1>4, HeldStatus DEF RInv
<1>6. t \notin TasksOf(pending) /\ \A v \in Workers \ {w} : t \notin TasksOf(taken[v])
  BY <1>4 DEF RInv, IInv, OnePlace
<1>7. ~Held(t)' /\ \A u \in Tasks \ {t} : Held(u)' <=> Held(u)
  BY <1>2, <1>3, <1>6 DEF Held
<1>8. /\ outcome'[t] = IF phase[w] = "completed" THEN "ok" ELSE "failed"
      /\ \A u \in Tasks \ {t} : outcome'[u] = outcome[u]
  BY <1>2, <1>3 DEF RInv, IInv, JobsTypeOK
<1>9. \A u \in Tasks \ {t} : Same(u)
  BY <1>2, <1>3, <1>7, <1>8 DEF Same
<1>10. DecidedGone'
  BY <1>2, <1>3, <1>5, <1>7, <1>8 DEF RInv, DecidedGone
<1>11. Status'[t] = outcome'[t]
  BY <1>2, <1>3, <1>5, <1>8, StatusThen DEF StatusIs
<1>12. CASE phase[w] = "completed"
  <2>1. Running(t) BY <1>1, <1>12 DEF Running
  <2>2. Status[t] = "running" BY <1>3, <1>4, <2>1, HeldStatus DEF RInv
  <2>3. Life!Succeed(t)
    BY <1>2, <1>3, <1>8, <1>9, <1>11, <1>12, <2>2, Moves DEF Life!Succeed
  <2>4. QED BY <1>1, <1>3, <1>8, <1>9, <1>10, <2>3 DEF Life!LifeNext, Life!Progress
<1>13. CASE phase[w] = "failed"
  <2>1. Running(t) BY <1>1, <1>13 DEF Running
  <2>2. Status[t] = "running" BY <1>3, <1>4, <2>1, HeldStatus DEF RInv
  <2>3. runs[t] = MaxAttempts[t] BY <1>1, <1>13 DEF RInv, UsedUp
  <2>4. Life!GiveUp(t)
    BY <1>2, <1>3, <1>8, <1>9, <1>11, <1>13, <2>2, <2>3, Moves DEF Life!GiveUp
  <2>5. QED BY <1>1, <1>3, <1>8, <1>9, <1>10, <2>4 DEF Life!LifeNext, Life!Progress
<1>14. CASE phase[w] = "unknown"
  <2>1. ~Running(t)
    <3>1. ASSUME NEW v \in Workers, current[v] = t PROVE v = w
      BY <1>3, <1>6, <3>1, HeldStatus DEF RInv
    <3>2. QED BY <1>14, <3>1 DEF Running
  <2>2. Status[t] = "waiting" BY <1>3, <1>4, <2>1, HeldStatus DEF RInv
  <2>3. Life!Reject(t)
    BY <1>2, <1>3, <1>8, <1>9, <1>11, <1>14, <2>2, Moves DEF Life!Reject
  <2>4. QED BY <1>1, <1>3, <1>8, <1>9, <1>10, <2>3 DEF Life!LifeNext, Life!Progress
<1>15. QED BY <1>2, <1>12, <1>13, <1>14

\* A worker that ends forgets the jobs of its batch, and no other.
LEMMA AuditRejectsFailureMoves ==
  ASSUME RInv, NEW w \in Workers, AuditRejectsFailure(w)
  PROVE  /\ Life!LifeNext /\ DecidedGone' /\ UsedUp'
         /\ \A u \in Tasks : u \notin TasksOf(taken[w]) => Same(u)
<1> DEFINE S == TasksOf(taken[w])
<1>1. /\ phase[w] \in {"failed", "unknown"}
      /\ taken' = [taken EXCEPT ![w] = {}]
      /\ current' = [current EXCEPT ![w] = NoTask]
      /\ phase' = [phase EXCEPT ![w] = "idle"]
      /\ UNCHANGED <<pending, runs, outcome, succeeded, cancelled, submitted>>
  BY DEF AuditRejectsFailure
<1>2. /\ taken'[w] = {} /\ current'[w] = NoTask /\ phase'[w] = "idle"
      /\ \A v \in Workers \ {w} :
           taken'[v] = taken[v] /\ current'[v] = current[v] /\ phase'[v] = phase[v]
  BY <1>1 DEF RInv, IInv, JobsTypeOK
<1>3. TasksOf(taken'[w]) = {} /\ S \subseteq Tasks
  BY <1>2 DEF TasksOf, RInv, IInv, JobsTypeOK, Job
<1>4. \A u \in S : u \notin TasksOf(pending) /\ \A v \in Workers \ {w} : u \notin TasksOf(taken[v])
  BY DEF RInv, IInv, OnePlace
<1>5. \A u \in S : Held(u) /\ ~Held(u)'
  BY <1>1, <1>2, <1>3, <1>4 DEF Held
<1>6. \A u \in Tasks \ S : Held(u)' <=> Held(u)
  BY <1>1, <1>2, <1>3 DEF Held
<1>7. \A u \in Tasks \ S : Running(u)' <=> Running(u)
  <2>1. \A u \in Tasks \ S : current[w] # u /\ u # NoTask
    BY HeldStatus, JobsAssumption DEF RInv
  <2>2. QED BY <1>2, <2>1 DEF Running
<1>8. \A u \in Tasks : u \notin S => Same(u)
  BY <1>1, <1>6, <1>7 DEF Same
<1>9. DecidedGone'
  BY <1>1, <1>5, <1>6 DEF RInv, DecidedGone
<1>10. UsedUp'
  BY <1>1, <1>2 DEF RInv, UsedUp
<1>11. \A u \in S : Status[u] \in {"waiting", "running"} /\ Status'[u] = "lost"
  BY <1>1, <1>3, <1>5, HeldStatus, StatusThen DEF RInv, StatusIs
<1>12. \A u \in Tasks \ S : Status'[u] = Status[u]
  BY <1>8, SameStatus
<1>13. Status' = [u \in Tasks |-> IF u \in S THEN "lost" ELSE Status[u]]
  <2>1. Status' = [u \in Tasks |-> Status'[u]]
    BY DEF Status
  <2>2. QED BY <1>11, <1>12, <2>1
<1>14. Life!Forget(S)
  BY <1>1, <1>11, <1>13 DEF Life!Forget
<1>15. QED BY <1>3, <1>8, <1>9, <1>10, <1>14 DEF Life!LifeNext

LEMMA InitRInv == JobsInit => RInv /\ Life!LifeInit
<1> SUFFICES ASSUME JobsInit PROVE RInv /\ Life!LifeInit
  OBVIOUS
<1>1. IInv BY InitIInv
<1>2. DecidedGone /\ UsedUp
  BY DEF JobsInit, DecidedGone, UsedUp
<1>3. Status = [t \in Tasks |-> "new"] /\ runs = [t \in Tasks |-> 0]
  BY DEF JobsInit, Status
<1>4. QED BY <1>1, <1>2, <1>3 DEF RInv, Life!LifeInit

\* Every step of scheduler and workers is a step of one job, a batch that is
\* forgotten, or none of a job's business.
LEMMA NextMoves ==
  ASSUME RInv, [JobsNext]_jobsVars
  PROVE  [Life!LifeNext]_(Life!lifeVars) /\ RInv'
<1>1. IInv' BY NextIInv DEF RInv
<1>2. CASE UNCHANGED jobsVars
  <2>1. DecidedGone' /\ UsedUp' /\ runs' = runs
    BY <1>2 DEF jobsVars, RInv, DecidedGone, UsedUp, Held
  <2>2. \A u \in Tasks : Same(u)
    BY <1>2 DEF jobsVars, Same, Held, Running
  <2>3. QED BY <1>1, <2>1, <2>2, Stutters DEF RInv
<1>3. CASE \E t \in Tasks : Cancel(t) \/ \E delay \in Delays : Schedule(t, delay)
  BY <1>1, <1>3, ScheduleMoves, CancelMoves DEF RInv
<1>4. CASE JobsTick
  BY <1>1, <1>4, TickMoves, Stutters DEF RInv
<1>5. ASSUME NEW w \in Workers, Work(w) PROVE [Life!LifeNext]_(Life!lifeVars) /\ RInv'
  <2>1. CASE RunDue(w) BY <1>1, <2>1, RunDueMoves DEF RInv
  <2>2. CASE NextJob(w) BY <1>1, <2>2, NextJobMoves DEF RInv
  <2>3. CASE RunFulfils(w) BY <1>1, <2>3, RunFulfilsMoves, Stutters DEF RInv
  <2>4. CASE RunRejects(w) \/ AuditRejectsSuccess(w)
    <3>1. phase[w] \in {"running", "completed"} /\ Failed(w)
      BY <2>4 DEF RunRejects, AuditRejectsSuccess
    <3>2. QED BY <1>1, <3>1, FailedMoves DEF RInv
  <2>5. CASE AuditFulfils(w) BY <1>1, <2>5, AuditFulfilsMoves DEF RInv
  <2>6. CASE AuditRejectsFailure(w) BY <1>1, <2>6, AuditRejectsFailureMoves DEF RInv
  <2>7. QED BY <1>5, <2>1, <2>2, <2>3, <2>4, <2>5, <2>6 DEF Work
<1>6. QED BY <1>2, <1>3, <1>4, <1>5 DEF JobsNext

\* Whatever workers overlap and whatever the audit sink does, every job lives the
\* life that JobLifecycle describes: it waits and runs by turns, at most as often
\* as it may, and ends once, as done, failed, cancelled or lost with its worker.
THEOREM JobsLiveTheirLife == JobsSpec => Life!LifeSafety
<1>1. RInv /\ [JobsNext]_jobsVars => [Life!LifeNext]_(Life!lifeVars) /\ RInv'
  BY NextMoves
<1>2. QED BY <1>1, InitRInv, PTL DEF JobsSpec, Life!LifeSafety

\* The batch a worker took from the map is kept until every job of it has an
\* outcome or is scheduled again; only a sink that rejects the record of a failure
\* loses one (runDue(), execute()).
THEOREM LostByTheSinkOnly == JobsSpec => LostOnlyBySink
<1>1. ASSUME RInv, [JobsNext]_jobsVars PROVE RInv'
  BY <1>1, NextMoves
<1>2. ASSUME RInv, JobsNext, NEW t \in Tasks, ~Lost(t), Lost(t)'
      PROVE  \E w \in Workers : /\ t \in TasksOf(taken[w])
                                /\ phase[w] \in {"failed", "unknown"} /\ phase'[w] = "idle"
  <2>1. /\ t \in submitted' /\ t \notin cancelled' /\ outcome'[t] = "none" /\ ~Held(t)'
        /\ ~(t \in submitted /\ t \notin cancelled /\ outcome[t] = "none" /\ ~Held(t))
    BY <1>2 DEF Lost, Held
  <2>2. ~Same(t)
    BY <2>1 DEF Same
  <2>3. CASE \E u \in Tasks : Cancel(u) \/ \E delay \in Delays : Schedule(u, delay)
    BY <1>2, <2>1, <2>2, <2>3, ScheduleMoves, CancelMoves
  <2>4. CASE JobsTick
    BY <1>2, <2>2, <2>4, TickMoves
  <2>5. ASSUME NEW w \in Workers, RunDue(w) \/ NextJob(w) PROVE FALSE
    <3>1. Held(t)' <=> Held(t)
      BY <1>2, <2>5, RunDueMoves, NextJobMoves
    <3>2. UNCHANGED <<outcome, cancelled, submitted>>
      BY <2>5 DEF RunDue, NextJob
    <3>3. QED BY <2>1, <3>1, <3>2
  <2>6. ASSUME NEW w \in Workers, RunFulfils(w) PROVE FALSE
    BY <1>2, <2>2, <2>6, RunFulfilsMoves
  <2>7. ASSUME NEW w \in Workers, RunRejects(w) \/ AuditRejectsSuccess(w) PROVE FALSE
    <3>1. phase[w] \in {"running", "completed"} /\ Failed(w)
      BY <2>7 DEF RunRejects, AuditRejectsSuccess
    <3>2. Held(t)' <=> Held(t)
      BY <1>2, <3>1, FailedMoves
    <3>3. UNCHANGED <<outcome, cancelled, submitted>>
      BY <3>1 DEF Failed, Retry
    <3>4. QED BY <2>1, <3>2, <3>3
  <2>8. ASSUME NEW w \in Workers, AuditFulfils(w) PROVE FALSE
    BY <1>2, <2>1, <2>2, <2>8, AuditFulfilsMoves
  <2>9. ASSUME NEW w \in Workers, AuditRejectsFailure(w)
        PROVE  /\ t \in TasksOf(taken[w])
               /\ phase[w] \in {"failed", "unknown"} /\ phase'[w] = "idle"
    BY <1>2, <2>2, <2>9, AuditRejectsFailureMoves DEF AuditRejectsFailure, RInv, IInv, JobsTypeOK
  <2>10. QED BY <1>2, <2>3, <2>4, <2>5, <2>6, <2>7, <2>8, <2>9 DEF JobsNext, Work
<1>3. RInv /\ [JobsNext]_jobsVars =>
        [\A t \in Tasks :
           ~Lost(t) /\ Lost(t)' =>
             \E w \in Workers :
               /\ t \in TasksOf(taken[w])
               /\ phase[w] \in {"failed", "unknown"} /\ phase'[w] = "idle"]_jobsVars
  BY <1>2
<1>4. QED BY <1>1, <1>3, InitRInv, PTL DEF JobsSpec, LostOnlyBySink

\* No job goes astray: after cancel() it never starts, and else it is kept until
\* it has an outcome or the sink rejects the record of its failure.
THEOREM JobsAlwaysAccounted == JobsSpec => JobsAccounted
BY CancelledNeverRuns, LostByTheSinkOnly DEF JobsAccounted
=============================================================================
