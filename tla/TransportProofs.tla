--------------------------- MODULE TransportProofs ---------------------------
(***************************************************************************)
(* What is proved of bytes on their way: an upload that was saved is on    *)
(* the disk, whole, and one that failed has left nothing there but what    *)
(* could not be unlinked; the messages of a WebSocket arrive as they were  *)
(* sent; and the parts of a multipart body are those that it has.          *)
(***************************************************************************)
EXTENDS DiskSink, Frames, Multipart, NaturalsInduction, SequenceTheorems,
        WellFoundedInduction, TLAPS

(***************************************************************************)
(* The files of pipeToFile()                                               *)
(***************************************************************************)

Streams == [state : {"open", "ending", "destroyed", "closed"},
            opened : {"pending", "yes", "no"}, written : 0..MaxChunks, told : BOOLEAN]

SinkTypeOK ==
  /\ named \in [Uploads -> Names]
  /\ sink \in [Uploads -> {"reading", "draining", "finishing", "closing", "saved", "failed",
                       "left"}]
  /\ taken \in [Uploads -> 0..MaxChunks]
  /\ ws \in [Uploads -> Streams]
  /\ folder \in [Names -> Uploads \cup {None}]
  /\ fileOf \in [Uploads -> Uploads \cup {None}]
  /\ content \in [Uploads -> [1..MaxChunks -> Uploads \cup {None}]]

\* A file is only ever opened under the name of the upload it is called by.
FilesNamed ==
  /\ \A n \in Names : folder[n] \in Uploads => named[folder[n]] = n
  /\ \A u \in Uploads : fileOf[u] \in Uploads => named[fileOf[u]] = named[u]

\* What was taken is within the cap until the upload is given up and its stream
\* destroyed, a stream writes no more than was taken, nor over the cap, and one
\* that is unlinked has closed: it opens no file any more.
CountsKept(u) ==
  /\ ws[u].written <= taken[u] /\ ws[u].written <= MaxBytes
  /\ sink[u] \notin {"closing", "failed", "left"} => taken[u] <= MaxBytes
  /\ sink[u] \in {"closing", "failed", "left"} => ws[u].state \notin {"open", "ending"}
  /\ sink[u] = "failed" => ws[u].state = "closed"
  /\ ws[u].opened # "yes" => ws[u].written = 0
  /\ sink[u] = "saved" => ws[u].opened = "yes" /\ ws[u].written = taken[u]

\* The file of an upload whose name is its own holds what its stream wrote, and
\* is there from when it was opened until it is unlinked.
FileKept(u) ==
  /\ ws[u].opened # "yes" => folder[named[u]] = None
  /\ ws[u].opened = "yes" =>
       /\ fileOf[u] = u
       /\ folder[named[u]] = (IF sink[u] = "failed" THEN None ELSE u)
  /\ \A i \in 1..MaxChunks : content[u][i] = IF i <= ws[u].written THEN u ELSE None

SinkInv ==
  /\ SinkTypeOK /\ FilesNamed
  /\ \A u \in Uploads : CountsKept(u) /\ (Alone(u) => FileKept(u))

\* The invariant says that a reported upload is whole or gone.
LEMMA SinkInvEnough == SinkInv => UploadsExact
<1> SUFFICES ASSUME SinkInv, NEW u \in Uploads, Alone(u)
             PROVE  /\ sink[u] = "saved" =>
                         /\ taken[u] <= MaxBytes /\ folder[named[u]] = u
                         /\ content[u] = [i \in 1..MaxChunks |-> IF i <= taken[u] THEN u ELSE None]
                    /\ sink[u] = "failed" => folder[named[u]] = None
                    /\ \A i \in 1..MaxChunks : i > MaxBytes => content[u][i] = None
  BY DEF UploadsExact
<1>1. CountsKept(u) /\ FileKept(u)
  BY DEF SinkInv
<1>2. ASSUME sink[u] = "saved"
      PROVE  content[u] = [i \in 1..MaxChunks |-> IF i <= taken[u] THEN u ELSE None]
  <2>1. content[u] \in [1..MaxChunks -> Uploads \cup {None}]
    BY DEF SinkInv, SinkTypeOK
  <2>2. \A i \in 1..MaxChunks : content[u][i] = IF i <= taken[u] THEN u ELSE None
    BY <1>1, <1>2 DEF CountsKept, FileKept
  <2> QED
    BY <2>1, <2>2
<1>3. ASSUME NEW i \in 1..MaxChunks, i > MaxBytes PROVE content[u][i] = None
  <2>1. ws[u].written \in 0..MaxChunks /\ ws[u].written <= MaxBytes
    BY <1>1 DEF SinkInv, SinkTypeOK, Streams, CountsKept
  <2>2. ~(i <= ws[u].written)
    BY <1>3, <2>1, SinkAssumption
  <2> QED
    BY <1>1, <2>2 DEF FileKept
<1> QED
  BY <1>1, <1>2, <1>3 DEF CountsKept, FileKept

LEMMA SinkInitInv == SinkInit => SinkInv
<1> SUFFICES ASSUME SinkInit PROVE SinkInv
  OBVIOUS
<1>1. SinkTypeOK
  BY SinkAssumption DEF SinkInit, SinkTypeOK, Streams, Empty, None
<1>2. FilesNamed
  BY SinkAssumption DEF SinkInit, FilesNamed, None
<1>3. ASSUME NEW u \in Uploads PROVE CountsKept(u) /\ FileKept(u)
  BY <1>1, SinkAssumption DEF SinkInit, SinkTypeOK, CountsKept, FileKept, Empty
<1> QED
  BY <1>1, <1>2, <1>3 DEF SinkInv

\* A step of one upload that leaves the files alone keeps what is said of
\* every other.
LEMMA OthersKept ==
  ASSUME SinkInv, NEW u \in Uploads,
         UNCHANGED <<named, folder, fileOf, content>>,
         \A v \in Uploads \ {u} : /\ sink'[v] = sink[v] /\ taken'[v] = taken[v]
                                  /\ ws'[v] = ws[v],
         SinkTypeOK', CountsKept(u)', Alone(u) => FileKept(u)'
  PROVE  SinkInv'
<1>1. FilesNamed'
  BY DEF SinkInv, FilesNamed
<1>2. ASSUME NEW v \in Uploads PROVE CountsKept(v)' /\ (Alone(v)' => FileKept(v)')
  <2>1. CASE v = u
    BY <2>1 DEF Alone
  <2>2. CASE v # u
    BY <2>2 DEF SinkInv, CountsKept, FileKept, Alone
  <2> QED
    BY <2>1, <2>2
<1> QED
  BY <1>1, <1>2 DEF SinkInv

\* A stream that is destroyed keeps what it wrote and whether it opened.
LEMMA DestroyedIs ==
  ASSUME NEW s \in Streams
  PROVE  /\ Destroyed(s) \in Streams /\ Destroyed(s).written = s.written
         /\ Destroyed(s).opened = s.opened /\ Destroyed(s).told = s.told
         /\ s.state = "closed" => Destroyed(s).state = "closed"
         /\ Destroyed(s).state \notin {"open", "ending"}
  BY DEF Destroyed, Streams

LEMMA OpenFailsInv == ASSUME SinkInv, NEW u \in Uploads, OpenFails(u) PROVE SinkInv'
<1> DEFINE gone == [Destroyed(ws[u]) EXCEPT !.opened = "no"]
<1>1. ws[u] \in Streams
  BY DEF SinkInv, SinkTypeOK
<1>2. /\ gone \in Streams /\ gone.written = ws[u].written /\ gone.opened = "no"
      /\ gone.state \notin {"open", "ending"}
  BY <1>1, DestroyedIs DEF Streams
<1>3. ws' = [ws EXCEPT ![u] = gone] /\ UNCHANGED <<named, sink, taken, folder, fileOf, content>>
  BY DEF OpenFails
<1> HIDE DEF gone
<1>4. SinkTypeOK' /\ ws'[u] = gone
  BY <1>2, <1>3 DEF SinkInv, SinkTypeOK
<1>5. ws[u].opened = "pending" /\ ws[u].state # "closed"
  BY DEF OpenFails
<1>6. CountsKept(u)'
  BY <1>2, <1>3, <1>4, <1>5 DEF SinkInv, CountsKept
<1>7. Alone(u) => FileKept(u)'
  BY <1>2, <1>3, <1>4, <1>5 DEF SinkInv, FileKept
<1> QED
  BY <1>3, <1>4, <1>6, <1>7, OthersKept DEF SinkInv, SinkTypeOK

LEMMA ClosedInv == ASSUME SinkInv, NEW u \in Uploads, Closed(u) PROVE SinkInv'
<1> DEFINE shut == [ws[u] EXCEPT !.state = "closed", !.told = TRUE]
           next == IF sink[u] \in {"draining", "finishing"} THEN "closing" ELSE sink[u]
<1>1. shut \in Streams /\ shut.written = ws[u].written /\ shut.opened = ws[u].opened
      /\ shut.state = "closed"
  BY DEF SinkInv, SinkTypeOK, Streams
<1>2. /\ ws' = [ws EXCEPT ![u] = shut] /\ sink' = [sink EXCEPT ![u] = next]
      /\ UNCHANGED <<named, taken, folder, fileOf, content>>
  BY DEF Closed, SinkInv, SinkTypeOK
<1>3. next \in {sink[u], "closing"} /\ (sink[u] = "failed" => next = "failed")
  OBVIOUS
<1> HIDE DEF shut, next
<1>4. SinkTypeOK' /\ ws'[u] = shut /\ sink'[u] = next
  BY <1>1, <1>2, <1>3 DEF SinkInv, SinkTypeOK
<1>5. CountsKept(u)'
  BY <1>1, <1>2, <1>3, <1>4 DEF SinkInv, CountsKept
<1>6. Alone(u) => FileKept(u)'
  <2>1. sink[u] # "failed"
    BY DEF Closed, SinkInv, CountsKept
  <2>2. next # "failed"
    BY <1>3, <2>1
  <2> QED
    BY <1>1, <1>2, <1>4, <2>1, <2>2 DEF SinkInv, FileKept
<1> QED
  BY <1>2, <1>4, <1>5, <1>6, OthersKept DEF SinkInv, SinkTypeOK

LEMMA TakeInv == ASSUME SinkInv, NEW u \in Uploads, Take(u) PROVE SinkInv'
<1>1. PICK s \in Streams, next \in {"reading", "draining", "closing"} :
         /\ ws' = [ws EXCEPT ![u] = s] /\ sink' = [sink EXCEPT ![u] = next]
         /\ s.written = ws[u].written /\ s.opened = ws[u].opened
         /\ next # "closing" => taken[u] + 1 <= MaxBytes
         /\ next = "closing" => s.state \notin {"open", "ending"}
  <2>1. ws[u] \in Streams /\ ws = [ws EXCEPT ![u] = ws[u]]
    BY DEF SinkInv, SinkTypeOK
  <2>2. CASE ws[u].told \/ taken[u] + 1 > MaxBytes
    BY <2>1, <2>2, DestroyedIs DEF Take
  <2>3. CASE ~(ws[u].told \/ taken[u] + 1 > MaxBytes)
    <3>1. taken[u] + 1 <= MaxBytes
      BY <2>3, SinkAssumption DEF SinkInv, SinkTypeOK
    <3>2. PICK next \in {"reading", "draining"} : sink' = [sink EXCEPT ![u] = next]
      BY <2>3 DEF Take
    <3>3. ws' = [ws EXCEPT ![u] = ws[u]]
      BY <2>1, <2>3 DEF Take
    <3> QED
      BY <2>1, <3>1, <3>2, <3>3
  <2> QED
    BY <2>2, <2>3
<1>2. /\ taken' = [taken EXCEPT ![u] = taken[u] + 1] /\ taken[u] + 1 \in 0..MaxChunks
      /\ sink[u] = "reading" /\ UNCHANGED <<named, folder, fileOf, content>>
  BY SinkAssumption DEF Take, SinkInv, SinkTypeOK
<1>3. SinkTypeOK' /\ ws'[u] = s /\ sink'[u] = next /\ taken'[u] = taken[u] + 1
  BY <1>1, <1>2 DEF SinkInv, SinkTypeOK
<1>4. CountsKept(u)'
  BY <1>1, <1>2, <1>3, SinkAssumption DEF SinkInv, SinkTypeOK, Streams, CountsKept
<1>5. Alone(u) => FileKept(u)'
  BY <1>1, <1>2, <1>3 DEF SinkInv, FileKept
<1> QED
  BY <1>1, <1>2, <1>3, <1>4, <1>5, OthersKept DEF SinkInv, SinkTypeOK

LEMMA EndUploadInv == ASSUME SinkInv, NEW u \in Uploads, EndUpload(u) PROVE SinkInv'
<1>1. PICK s \in Streams, next \in {"finishing", "closing"} :
         /\ ws' = [ws EXCEPT ![u] = s] /\ sink' = [sink EXCEPT ![u] = next]
         /\ s.written = ws[u].written /\ s.opened = ws[u].opened
         /\ next = "closing" => s.state \notin {"open", "ending"}
  <2> DEFINE ended == [ws[u] EXCEPT !.state = IF @ = "open" THEN "ending" ELSE @]
  <2>1. ended \in Streams /\ ended.written = ws[u].written /\ ended.opened = ws[u].opened
    BY DEF SinkInv, SinkTypeOK, Streams
  <2>2. ws[u] \in Streams
    BY DEF SinkInv, SinkTypeOK
  <2>3. CASE sink' = [sink EXCEPT ![u] = "finishing"] /\ ws' = [ws EXCEPT ![u] = ended]
    BY <2>1, <2>3
  <2>4. CASE sink' = [sink EXCEPT ![u] = "closing"] /\ ws' = [ws EXCEPT ![u] = Destroyed(@)]
    BY <2>2, <2>4, DestroyedIs
  <2> QED
    BY <2>3, <2>4 DEF EndUpload, SinkInv, SinkTypeOK
<1>2. sink[u] = "reading" /\ UNCHANGED <<named, taken, folder, fileOf, content>>
  BY DEF EndUpload
<1>3. SinkTypeOK' /\ ws'[u] = s /\ sink'[u] = next
  BY <1>1, <1>2 DEF SinkInv, SinkTypeOK
<1>4. CountsKept(u)'
  BY <1>1, <1>2, <1>3 DEF SinkInv, CountsKept
<1>5. Alone(u) => FileKept(u)'
  BY <1>1, <1>2, <1>3 DEF SinkInv, FileKept
<1> QED
  BY <1>1, <1>2, <1>3, <1>4, <1>5, OthersKept DEF SinkInv, SinkTypeOK

LEMMA FinishInv == ASSUME SinkInv, NEW u \in Uploads, Finish(u) PROVE SinkInv'
<1> DEFINE shut == [ws[u] EXCEPT !.state = "closed"]
<1>1. shut \in Streams /\ shut.written = ws[u].written /\ shut.opened = ws[u].opened
  BY DEF SinkInv, SinkTypeOK, Streams
<1>2. /\ ws' = [ws EXCEPT ![u] = shut] /\ sink' = [sink EXCEPT ![u] = "saved"]
      /\ sink[u] = "finishing" /\ ws[u].opened = "yes" /\ ws[u].written = taken[u]
      /\ UNCHANGED <<named, taken, folder, fileOf, content>>
  BY DEF Finish, SinkInv, SinkTypeOK
<1> HIDE DEF shut
<1>3. SinkTypeOK' /\ ws'[u] = shut /\ sink'[u] = "saved"
  BY <1>1, <1>2 DEF SinkInv, SinkTypeOK
<1>4. CountsKept(u)'
  BY <1>1, <1>2, <1>3 DEF SinkInv, CountsKept
<1>5. Alone(u) => FileKept(u)'
  BY <1>1, <1>2, <1>3 DEF SinkInv, FileKept
<1> QED
  BY <1>2, <1>3, <1>4, <1>5, OthersKept DEF SinkInv, SinkTypeOK

\* A byte is written at the end of the file of its upload, and of no other that
\* has its name for itself; a write that fails leaves the file as it is.
LEMMA FlushInv == ASSUME SinkInv, NEW u \in Uploads, Flush(u) PROVE SinkInv'
<1>1. /\ ws[u] \in Streams /\ taken[u] \in 0..MaxChunks /\ ws[u].opened = "yes"
      /\ ws[u].state \in {"open", "ending"} /\ ws[u].written < taken[u]
      /\ UNCHANGED <<named, taken, folder, fileOf>>
  BY DEF Flush, SinkInv, SinkTypeOK
<1>2. CASE ws' = [ws EXCEPT ![u] = Destroyed(@)] /\ UNCHANGED <<content, sink>>
  <2>1. ws' = [ws EXCEPT ![u] = Destroyed(ws[u])]
    BY <1>2 DEF SinkInv, SinkTypeOK
  <2>2. /\ Destroyed(ws[u]) \in Streams /\ Destroyed(ws[u]).written = ws[u].written
        /\ Destroyed(ws[u]).opened = ws[u].opened
    BY <1>1, DestroyedIs
  <2>3. SinkTypeOK' /\ ws'[u] = Destroyed(ws[u])
    BY <1>1, <1>2, <2>1, <2>2 DEF SinkInv, SinkTypeOK
  <2>4. sink[u] # "failed"
    BY <1>1 DEF SinkInv, CountsKept
  <2>5. CountsKept(u)'
    BY <1>1, <1>2, <2>2, <2>3, <2>4 DEF SinkInv, CountsKept
  <2>6. Alone(u) => FileKept(u)'
    BY <1>1, <1>2, <2>2, <2>3 DEF SinkInv, FileKept
  <2> QED
    BY <1>1, <1>2, <2>1, <2>3, <2>5, <2>6, OthersKept DEF SinkInv, SinkTypeOK
<1>3. CASE /\ ws' = [ws EXCEPT ![u].written = @ + 1]
           /\ content' = [content EXCEPT ![fileOf[u]][ws[u].written + 1] = u]
           /\ sink' = [sink EXCEPT ![u] = IF @ = "draining" /\ ws[u].written + 1 = taken[u]
                                          THEN "reading" ELSE @]
  <2> DEFINE s == [ws[u] EXCEPT !.written = @ + 1]
             next == IF sink[u] = "draining" /\ ws[u].written + 1 = taken[u]
                     THEN "reading" ELSE sink[u]
  <2>1. /\ s \in Streams /\ s.written = ws[u].written + 1 /\ s.opened = "yes"
        /\ s.state = ws[u].state /\ ws[u].written + 1 \in 1..MaxChunks
        /\ ws[u].written + 1 <= taken[u]
    BY <1>1, SinkAssumption DEF Streams
  <2>2. ws' = [ws EXCEPT ![u] = s] /\ sink' = [sink EXCEPT ![u] = next]
    BY <1>3 DEF SinkInv, SinkTypeOK
  <2>3. next = sink[u] \/ (next = "reading" /\ sink[u] = "draining")
    OBVIOUS
  <2>4. sink[u] \notin {"failed", "saved"}
    BY <1>1 DEF SinkInv, CountsKept, Streams
  <2> HIDE DEF s, next
  <2>5. content' \in [Uploads -> [1..MaxChunks -> Uploads \cup {None}]]
    BY <1>3 DEF SinkInv, SinkTypeOK
  <2>6. SinkTypeOK'
    BY <1>1, <2>1, <2>2, <2>3, <2>5 DEF SinkInv, SinkTypeOK
  <2>7. /\ ws'[u] = s /\ sink'[u] = next
        /\ \A v \in Uploads \ {u} : ws'[v] = ws[v] /\ sink'[v] = sink[v]
    BY <2>2 DEF SinkInv, SinkTypeOK
  <2>8. FilesNamed'
    BY <1>1 DEF SinkInv, FilesNamed
  <2>9. CountsKept(u)'
    <3>1. sink[u] \notin {"closing", "failed", "left"} /\ taken[u] <= MaxBytes
      BY <1>1 DEF SinkInv, CountsKept
    <3>2. ws[u].written + 1 <= MaxBytes
      BY <1>1, <2>1, <3>1, SinkAssumption DEF Streams
    <3> QED
      BY <1>1, <2>1, <2>3, <2>4, <2>7, <3>1, <3>2 DEF SinkInv, CountsKept
  <2>10. ASSUME Alone(u) PROVE FileKept(u)'
    <3>1. FileKept(u) /\ fileOf[u] = u
      BY <1>1, <2>10 DEF SinkInv, FileKept
    <3>2. \A i \in 1..MaxChunks :
             content'[u][i] = IF i = ws[u].written + 1 THEN u ELSE content[u][i]
      BY <1>3, <3>1 DEF SinkInv, SinkTypeOK
    <3>3. \A i \in 1..MaxChunks : content'[u][i] = IF i <= ws[u].written + 1 THEN u ELSE None
      <4>1. ws[u].written \in Int
        BY <1>1 DEF Streams
      <4> QED
        BY <1>1, <3>1, <3>2, <4>1 DEF FileKept
    <3>4. folder'[named'[u]] = u /\ next # "failed"
      BY <1>1, <2>3, <2>4, <3>1 DEF FileKept
    <3> QED
      BY <1>1, <2>1, <2>7, <3>1, <3>3, <3>4 DEF FileKept
  <2>11. ASSUME NEW v \in Uploads \ {u}, Alone(v) PROVE FileKept(v)'
    <3>1. fileOf[u] # v
      BY <2>11 DEF SinkInv, FilesNamed, Alone
    <3>2. content'[v] = content[v]
      BY <1>3, <3>1 DEF SinkInv, SinkTypeOK
    <3> QED
      BY <1>1, <2>7, <2>11, <3>2 DEF SinkInv, FileKept
  <2>12. \A v \in Uploads \ {u} : CountsKept(v)'
    BY <1>1, <2>7 DEF SinkInv, CountsKept
  <2>13. \A v \in Uploads : Alone(v)' <=> Alone(v)
    BY <1>1 DEF Alone
  <2> QED
    BY <2>6, <2>8, <2>9, <2>10, <2>11, <2>12, <2>13 DEF SinkInv
<1> QED
  BY <1>2, <1>3 DEF Flush

\* A stream that opens creates or truncates a file of its own name.
LEMMA OpenInv == ASSUME SinkInv, NEW u \in Uploads, Open(u) PROVE SinkInv'
<1>1. PICK file \in Uploads :
         /\ named[file] = named[u]
         /\ folder[named[u]] = None => file = u
         /\ folder' = [folder EXCEPT ![named[u]] = file]
         /\ fileOf' = [fileOf EXCEPT ![u] = file]
         /\ content' = [content EXCEPT ![file] = Empty]
  <2> DEFINE file == IF folder[named[u]] = None THEN u ELSE folder[named[u]]
  <2>1. file \in Uploads /\ named[file] = named[u] /\ (folder[named[u]] = None => file = u)
    BY DEF SinkInv, SinkTypeOK, FilesNamed
  <2> QED
    BY <2>1 DEF Open
<1>2. /\ ws[u].opened = "pending" /\ ws[u].state # "closed" /\ ws[u] \in Streams
      /\ named[u] \in Names /\ UNCHANGED <<named, sink, taken>>
  BY DEF Open, SinkInv, SinkTypeOK
<1> DEFINE s == [ws[u] EXCEPT !.opened = "yes"]
<1>3. s \in Streams /\ s.opened = "yes" /\ s.written = ws[u].written /\ s.state = ws[u].state
  BY <1>2 DEF Streams
<1>4. ws' = [ws EXCEPT ![u] = s]
  BY DEF Open, SinkInv, SinkTypeOK
<1> HIDE DEF s
<1>5. SinkTypeOK'
  BY <1>1, <1>2, <1>3, <1>4 DEF SinkInv, SinkTypeOK, Empty
<1>6. ws'[u] = s /\ \A v \in Uploads \ {u} : ws'[v] = ws[v] /\ fileOf'[v] = fileOf[v]
  BY <1>1, <1>4 DEF SinkInv, SinkTypeOK
<1>7. FilesNamed'
  BY <1>1, <1>2 DEF SinkInv, SinkTypeOK, FilesNamed
<1>8. CountsKept(u)'
  BY <1>2, <1>3, <1>6 DEF SinkInv, CountsKept
<1>9. \A v \in Uploads \ {u} : CountsKept(v)'
  BY <1>2, <1>6 DEF SinkInv, CountsKept
<1>10. ASSUME Alone(u) PROVE FileKept(u)'
  <2>1. folder[named[u]] = None /\ file = u /\ ws[u].written = 0 /\ sink[u] # "failed"
    BY <1>1, <1>2, <1>10 DEF SinkInv, CountsKept, FileKept
  <2>2. fileOf'[u] = u /\ folder'[named'[u]] = u /\ content'[u] = Empty
    BY <1>1, <1>2, <2>1 DEF SinkInv, SinkTypeOK
  <2> QED
    BY <1>2, <1>3, <1>6, <2>1, <2>2 DEF FileKept, Empty
<1>11. ASSUME NEW v \in Uploads \ {u}, Alone(v) PROVE FileKept(v)'
  <2>1. named[v] # named[u] /\ file # v
    BY <1>1, <1>11 DEF Alone
  <2>2. folder'[named'[v]] = folder[named[v]] /\ content'[v] = content[v]
    BY <1>1, <1>2, <2>1 DEF SinkInv, SinkTypeOK
  <2> QED
    BY <1>2, <1>6, <1>11, <2>2 DEF SinkInv, FileKept
<1>12. \A v \in Uploads : Alone(v)' <=> Alone(v)
  BY <1>2 DEF Alone
<1> QED
  BY <1>5, <1>7, <1>8, <1>9, <1>10, <1>11, <1>12 DEF SinkInv

\* A name is removed when its stream has closed: it is not opened again.
LEMMA UnlinkInv == ASSUME SinkInv, NEW u \in Uploads, Unlink(u) PROVE SinkInv'
<1>1. /\ sink[u] = "closing" /\ ws[u].state = "closed" /\ named[u] \in Names
      /\ UNCHANGED <<named, taken, ws, fileOf, content>>
  BY DEF Unlink, SinkInv, SinkTypeOK
<1>2. CASE sink' = [sink EXCEPT ![u] = "left"] /\ UNCHANGED folder
  <2>1. SinkTypeOK' /\ sink'[u] = "left" /\ \A v \in Uploads \ {u} : sink'[v] = sink[v]
    BY <1>1, <1>2 DEF SinkInv, SinkTypeOK
  <2>2. CountsKept(u)'
    BY <1>1, <2>1 DEF SinkInv, CountsKept
  <2>3. Alone(u) => FileKept(u)'
    BY <1>1, <1>2, <2>1 DEF SinkInv, FileKept
  <2> QED
    BY <1>1, <1>2, <2>1, <2>2, <2>3, OthersKept
<1>3. CASE sink' = [sink EXCEPT ![u] = "failed"] /\ folder' = [folder EXCEPT ![named[u]] = None]
  <2>1. SinkTypeOK'
    BY <1>1, <1>3 DEF SinkInv, SinkTypeOK
  <2>2. FilesNamed'
    BY <1>1, <1>3, SinkAssumption DEF SinkInv, SinkTypeOK, FilesNamed, None
  <2>3. sink'[u] = "failed" /\ \A v \in Uploads \ {u} : sink'[v] = sink[v]
    BY <1>3 DEF SinkInv, SinkTypeOK
  <2>4. ASSUME NEW v \in Uploads PROVE CountsKept(v)'
    BY <1>1, <2>3 DEF SinkInv, CountsKept
  <2>5. ASSUME NEW v \in Uploads, Alone(v) PROVE FileKept(v)'
    <3>1. CASE v = u
      <4>1. folder'[named'[u]] = None
        BY <1>1, <1>3 DEF SinkInv, SinkTypeOK
      <4> QED
        BY <1>1, <2>3, <2>5, <3>1, <4>1 DEF SinkInv, FileKept
    <3>2. CASE v # u
      <4>1. named[v] # named[u]
        BY <2>5, <3>2 DEF Alone
      <4>2. folder'[named'[v]] = folder[named[v]]
        BY <1>1, <1>3, <4>1 DEF SinkInv, SinkTypeOK
      <4> QED
        BY <1>1, <2>3, <2>5, <3>2, <4>2 DEF SinkInv, FileKept
    <3> QED
      BY <3>1, <3>2
  <2>6. \A v \in Uploads : Alone(v)' <=> Alone(v)
    BY <1>1 DEF Alone
  <2> QED
    BY <2>1, <2>2, <2>4, <2>5, <2>6 DEF SinkInv
<1> QED
  BY <1>2, <1>3 DEF Unlink

\* The inductive invariant of the uploads.
THEOREM SinkInvariant == SinkSpec => []SinkInv
<1>1. ASSUME SinkInv, [SinkNext]_sinkVars PROVE SinkInv'
  <2>1. ASSUME NEW u \in Uploads, SinkStep(u) PROVE SinkInv'
    <3>1. CASE Open(u)
      BY <1>1, <3>1, OpenInv
    <3>2. CASE OpenFails(u)
      BY <1>1, <3>2, OpenFailsInv
    <3>3. CASE Flush(u)
      BY <1>1, <3>3, FlushInv
    <3>4. CASE Closed(u)
      BY <1>1, <3>4, ClosedInv
    <3>5. CASE Take(u)
      BY <1>1, <3>5, TakeInv
    <3>6. CASE EndUpload(u)
      BY <1>1, <3>6, EndUploadInv
    <3>7. CASE Finish(u)
      BY <1>1, <3>7, FinishInv
    <3>8. CASE Unlink(u)
      BY <1>1, <3>8, UnlinkInv
    <3> QED
      BY <2>1, <3>1, <3>2, <3>3, <3>4, <3>5, <3>6, <3>7, <3>8 DEF SinkStep
  <2>2. CASE UNCHANGED sinkVars
    BY <1>1, <2>2
    DEF sinkVars, SinkInv, SinkTypeOK, FilesNamed, CountsKept, FileKept, Alone
  <2> QED
    BY <1>1, <2>1, <2>2 DEF SinkNext
<1> QED
  BY <1>1, SinkInitInv, PTL DEF SinkSpec

\* However many uploads, of whatever length and under whatever cap: one that was
\* reported as saved is on the disk, whole, one that was reported as failed left
\* nothing there unless the disk refused to unlink it, and no file outgrows the
\* cap, whenever its stream opens, fails and closes (pipeToFile()).
THEOREM UploadsAlwaysExact == SinkSpec => []UploadsExact
  BY SinkInvariant, SinkInvEnough, PTL

(***************************************************************************)
(* The frames of a WebSocket                                               *)
(***************************************************************************)

\* Every non-empty set of numbers has a least one: induction, without a
\* predicate to instantiate.
LEMMA LeastNat ==
  ASSUME NEW T, T \subseteq Nat, T # {}
  PROVE  \E x \in T : \A y \in T : x <= y
<1> DEFINE R == OpToRel(<, Nat)
<1>1. IsWellFoundedOn(R, Nat)
  BY NatLessThanWellFounded
<1>2. \A x, y \in Nat : <<y, x>> \in R <=> y < x
  BY DEF OpToRel
<1> HIDE DEF R
<1>3. \E x \in T : \A y \in T : ~ (<<y, x>> \in R)
  BY <1>1, WFMin
<1>4. PICK x \in T : \A y \in T : ~ (<<y, x>> \in R)
  BY <1>3
<1>5. ASSUME NEW y \in T  PROVE x <= y
  <2>1. x \in Nat /\ y \in Nat /\ ~ (<<y, x>> \in R)
    BY <1>4
  <2>2. ~ (y < x)
    BY <1>2, <2>1
  <2>3. QED BY <2>1, <2>2
<1>6. QED BY <1>5

\* Hence a set of numbers that has 0 and with every number the next has them all.
LEMMA Reached ==
  ASSUME NEW n \in Nat, NEW G, 0 \in G, \A k \in 0..n : k \in G /\ k < n => k + 1 \in G
  PROVE  \A k \in 0..n : k \in G
<1> DEFINE T == {k \in Nat : k <= n /\ k \notin G}
<1>1. SUFFICES ASSUME T # {} PROVE FALSE
  OBVIOUS
<1>2. PICK x \in T : \A y \in T : x <= y
  <2>1. T \subseteq Nat
    OBVIOUS
  <2> HIDE DEF T
  <2>2. QED BY <1>1, <2>1, LeastNat
<1>3. x \in Nat /\ x <= n /\ x \notin G /\ x # 0
  OBVIOUS
<1>4. x - 1 \in Nat /\ x - 1 < n /\ x - 1 \in 0..n
  BY <1>3
<1>5. x - 1 \notin T
  BY <1>2, <1>3, <1>4
<1>6. x - 1 \in G
  BY <1>4, <1>5
<1>7. (x - 1) + 1 \in G
  BY <1>4, <1>6
<1>8. QED BY <1>3, <1>7

\* f begins with a and goes from each number to the next by its step.
Follows(f, n, S, a, step) ==
  f \in [0..n -> S] /\ f[0] = a /\ \A i \in 1..n : f[i] = step[i][f[i - 1]]

\* What is defined by going from each number to the next exists.
LEMMA Iterates ==
  ASSUME NEW n \in Nat, NEW S, NEW a \in S, NEW step \in [1..n -> [S -> S]]
  PROVE  \E f : Follows(f, n, S, a, step)
<1> DEFINE Is(f, j) == /\ f \in [0..j -> S] /\ f[0] = a
                       /\ \A i \in 1..j : f[i] = step[i][f[i - 1]]
           G == {j \in Nat : \E f : Is(f, j)}
<1>1. 0 \in G
  <2>1. Is([i \in 0..0 |-> a], 0)
    OBVIOUS
  <2>2. QED BY <2>1
<1>2. ASSUME NEW j \in 0..n, j \in G, j < n  PROVE j + 1 \in G
  <2>1. PICK f : Is(f, j)
    BY <1>2
  <2>2. PICK g : g = [i \in 0..(j + 1) |-> IF i <= j THEN f[i] ELSE step[j + 1][f[j]]]
    OBVIOUS
  <2>3. j \in Nat /\ j + 1 \in 1..n /\ f[j] \in S
    BY <1>2, <2>1
  <2>4. step[j + 1] \in [S -> S]
    BY <2>3
  <2>5. step[j + 1][f[j]] \in S
    BY <2>3, <2>4
  <2>6. \A i \in 0..j : g[i] = f[i] /\ f[i] \in S
    BY <2>1, <2>2, <2>3
  <2>7. g[j + 1] = step[j + 1][f[j]]
    BY <2>2, <2>3
  <2>8. g \in [0..(j + 1) -> S]
    <3>1. \A i \in 0..(j + 1) : i \in 0..j \/ i = j + 1
      BY <2>3
    <3>2. \A i \in 0..(j + 1) : g[i] \in S
      BY <2>5, <2>6, <2>7, <3>1
    <3>3. DOMAIN g = 0..(j + 1) /\ g = [i \in 0..(j + 1) |-> g[i]]
      BY <2>2
    <3>4. QED BY <3>2, <3>3
  <2>9. g[0] = a
    BY <2>1, <2>3, <2>6
  <2>10. ASSUME NEW i \in 1..(j + 1)  PROVE g[i] = step[i][g[i - 1]]
    <3>1. CASE i <= j
      <4>1. i \in 1..j /\ i \in 0..j /\ i - 1 \in 0..j
        BY <2>3, <3>1
      <4>2. QED BY <2>1, <2>6, <4>1
    <3>2. CASE i = j + 1
      <4>1. i - 1 = j /\ j \in 0..j
        BY <2>3, <3>2
      <4>2. QED BY <2>6, <2>7, <3>2, <4>1
    <3>3. QED BY <2>3, <3>1, <3>2
  <2>11. \E h : Is(h, j + 1)
    BY <2>8, <2>9, <2>10
  <2> HIDE DEF Is
  <2>12. j + 1 \in Nat
    BY <2>3
  <2>13. QED BY <2>11, <2>12
<1>3. n \in G
  <2> HIDE DEF G
  <2>1. \A k \in 0..n : k \in G
    BY <1>1, <1>2, Reached
  <2>2. QED BY <2>1
<1>4. PICK f : Is(f, n)
  BY <1>3
<1>5. QED BY <1>4 DEF Follows

-----------------------------------------------------------------------------
(* Numbers and their digits *)

LEMMA FrameNumbers ==
  /\ Base \in Nat /\ Base > 1 /\ Short \in Nat /\ Short + 1 < 16 /\ WideDigits \in Nat
  /\ WideDigits > 0 /\ MaskLen \in Nat /\ MaskLen > 0 /\ LargestLength \in Nat /\ MaxPush \in Nat
  /\ Flag = 16 /\ Close = 8 /\ Text = 1 /\ Continuation = 0
  BY FramesAssumption DEF Flag, Close, Text, Continuation

LEMMA ShiftedNat ==
  ASSUME NEW x \in Nat
  PROVE  x \div Base \in Nat /\ x % Base \in Nat /\ x = (x \div Base) * Base + (x % Base)
<1>1. x % Base = x - Base * (x \div Base)
  BY FrameNumbers
<1>2. x \div Base \in Nat /\ x % Base \in Nat
  BY FrameNumbers
<1>3. Base * (x \div Base) = (x \div Base) * Base /\ (x \div Base) * Base \in Nat
  BY <1>2, FrameNumbers
<1>4. QED BY <1>1, <1>2, <1>3

ShiftedBy(rest, n, k) ==
  /\ rest \in [0..k -> Nat] /\ rest[0] = n
  /\ \A i \in 1..k : rest[i] = rest[i - 1] \div Base

LEMMA ShiftsIs ==
  ASSUME NEW n \in Nat, NEW k \in Nat
  PROVE  ShiftedBy(Shifts(n, k), n, k)
<1> DEFINE step == [i \in 1..k |-> [x \in Nat |-> x \div Base]]
           rest == CHOOSE f : f = [i \in 0..k |-> IF i = 0 THEN n ELSE f[i - 1] \div Base]
<1>1. step \in [1..k -> [Nat -> Nat]]
  BY ShiftedNat
<1>2. \E f : Follows(f, k, Nat, n, step)
  <2> HIDE DEF step
  <2>1. QED BY <1>1, Iterates
<1>3. PICK f \in [0..k -> Nat] : f[0] = n /\ \A i \in 1..k : f[i] = step[i][f[i - 1]]
  BY <1>2 DEF Follows
<1>4. \A i \in 0..k : i # 0 => f[i] = f[i - 1] \div Base
  <2>1. ASSUME NEW i \in 0..k, i # 0  PROVE f[i] = f[i - 1] \div Base
    <3>1. i \in 1..k /\ i - 1 \in 0..k
      BY <2>1
    <3>2. f[i - 1] \in Nat
      BY <3>1
    <3>3. f[i] = step[i][f[i - 1]] /\ step[i][f[i - 1]] = f[i - 1] \div Base
      BY <1>3, <3>1, <3>2
    <3>4. QED BY <3>3
  <2>2. QED BY <2>1
<1>5. f = [i \in 0..k |-> IF i = 0 THEN n ELSE f[i - 1] \div Base]
  BY <1>3, <1>4
<1>6. rest = [i \in 0..k |-> IF i = 0 THEN n ELSE rest[i - 1] \div Base]
  BY <1>5
<1>7. Shifts(n, k) = rest
  BY DEF Shifts
<1> HIDE DEF rest
<1>8. rest[0] = n /\ \A i \in 1..k : rest[i] = rest[i - 1] \div Base
  BY <1>6
<1>9. \A i \in 0..k : rest[i] \in Nat
  <2> DEFINE G == {i \in Nat : i <= k => rest[i] \in Nat}
  <2>1. 0 \in G
    BY <1>8
  <2>2. ASSUME NEW i \in 0..k, i \in G, i < k  PROVE i + 1 \in G
    <3>1. i + 1 \in 1..k /\ rest[i] \in Nat /\ (i + 1) - 1 = i
      BY <2>2
    <3>2. rest[i + 1] = rest[i] \div Base
      BY <1>8, <3>1
    <3>3. rest[i + 1] \in Nat
      BY <3>1, <3>2, ShiftedNat
    <3>4. QED BY <2>2, <3>3
  <2>3. \A i \in 0..k : i \in G
    <3> HIDE DEF G
    <3>1. QED BY <2>1, <2>2, Reached
  <2>4. QED BY <2>3
<1>10. rest \in [0..k -> Nat]
  BY <1>6, <1>9
<1>11. QED BY <1>7, <1>8, <1>10 DEF ShiftedBy

LEMMA DigitsAre ==
  ASSUME NEW n \in Nat, NEW k \in Nat
  PROVE  /\ Digits(n, k) \in Seq(Nat) /\ Len(Digits(n, k)) = k
         /\ \A i \in 1..k : Digits(n, k)[i] = Shifts(n, k)[k - i] % Base
<1>1. \A i \in 1..k : Shifts(n, k)[k - i] % Base \in Nat
  <2>1. ASSUME NEW i \in 1..k  PROVE Shifts(n, k)[k - i] % Base \in Nat
    <3>1. k - i \in 0..k
      OBVIOUS
    <3>2. Shifts(n, k)[k - i] \in Nat
      BY <3>1, ShiftsIs DEF ShiftedBy
    <3>3. QED BY <3>2, ShiftedNat
  <2>2. QED BY <2>1
<1>2. QED BY <1>1 DEF Digits

LEMMA NumberIs ==
  ASSUME NEW d \in Seq(Nat)
  PROVE  \E v \in [0..Len(d) -> Nat] :
           /\ Number(d) = v[Len(d)] /\ v[0] = 0
           /\ \A i \in 1..Len(d) : v[i] = v[i - 1] * Base + d[i]
<1> DEFINE k == Len(d)
           step == [i \in 1..k |-> [x \in Nat |-> x * Base + d[i]]]
           value == CHOOSE f : f = [i \in 0..k |-> IF i = 0 THEN 0 ELSE f[i - 1] * Base + d[i]]
<1>1. k \in Nat /\ \A i \in 1..k : d[i] \in Nat
  OBVIOUS
<1>2. step \in [1..k -> [Nat -> Nat]]
  BY <1>1, FrameNumbers
<1>3. \E f : Follows(f, k, Nat, 0, step)
  <2> HIDE DEF step, k
  <2>1. k \in Nat /\ 0 \in Nat
    BY <1>1
  <2>2. QED BY <1>2, <2>1, Iterates
<1>4. PICK f \in [0..k -> Nat] : f[0] = 0 /\ \A i \in 1..k : f[i] = step[i][f[i - 1]]
  BY <1>3 DEF Follows
<1>5. \A i \in 0..k : i # 0 => f[i] = f[i - 1] * Base + d[i]
  <2>1. ASSUME NEW i \in 0..k, i # 0  PROVE f[i] = f[i - 1] * Base + d[i]
    <3>1. i \in 1..k /\ i - 1 \in 0..k
      BY <1>1, <2>1
    <3>2. f[i - 1] \in Nat
      BY <3>1
    <3>3. f[i] = step[i][f[i - 1]] /\ step[i][f[i - 1]] = f[i - 1] * Base + d[i]
      BY <1>4, <3>1, <3>2
    <3>4. QED BY <3>3
  <2>2. QED BY <2>1
<1>6. f = [i \in 0..k |-> IF i = 0 THEN 0 ELSE f[i - 1] * Base + d[i]]
  BY <1>4, <1>5
<1>7. value = [i \in 0..k |-> IF i = 0 THEN 0 ELSE value[i - 1] * Base + d[i]]
  BY <1>6
<1>8. Number(d) = value[k]
  BY DEF Number
<1> HIDE DEF value, k
<1>9. value[0] = 0 /\ \A i \in 1..k : value[i] = value[i - 1] * Base + d[i]
  BY <1>1, <1>7
<1>10. \A i \in 0..k : value[i] \in Nat
  <2> DEFINE G == {i \in Nat : i <= k => value[i] \in Nat}
  <2>1. 0 \in G
    BY <1>9
  <2>2. ASSUME NEW i \in 0..k, i \in G, i < k  PROVE i + 1 \in G
    <3>1. i + 1 \in 1..k /\ value[i] \in Nat /\ (i + 1) - 1 = i
      BY <1>1, <2>2
    <3>2. value[i + 1] = value[i] * Base + d[i + 1] /\ d[i + 1] \in Nat
      BY <1>1, <1>9, <3>1
    <3>3. value[i] * Base \in Nat
      BY <3>1, FrameNumbers
    <3>4. value[i + 1] \in Nat
      BY <3>2, <3>3
    <3>5. QED BY <2>2, <3>4
  <2>3. \A i \in 0..k : i \in G
    <3> HIDE DEF G
    <3>1. QED BY <1>1, <2>1, <2>2, Reached
  <2>4. QED BY <2>3
<1>11. value \in [0..k -> Nat]
  BY <1>7, <1>10
<1>12. QED BY <1>8, <1>9, <1>11 DEF k

\* Digits that hold a number are read back as that number.
LEMMA ReadBack ==
  ASSUME NEW n \in Nat, NEW k \in Nat, Shifts(n, k)[k] = 0,
         NEW d \in Seq(Nat), Len(d) = k, \A i \in 1..k : d[i] = Digits(n, k)[i]
  PROVE  Number(d) = n
<1>0. PICK rest : rest = Shifts(n, k)
  OBVIOUS
<1>1. /\ rest \in [0..k -> Nat] /\ rest[0] = n /\ rest[k] = 0
      /\ \A i \in 1..k : rest[i] = rest[i - 1] \div Base
  <2>1. ShiftedBy(Shifts(n, k), n, k)
    BY ShiftsIs
  <2>2. QED BY <1>0, <2>1 DEF ShiftedBy
<1>2. PICK v \in [0..k -> Nat] :
        /\ Number(d) = v[k] /\ v[0] = 0
        /\ \A i \in 1..k : v[i] = v[i - 1] * Base + d[i]
  BY NumberIs
<1>3. \A i \in 1..k : d[i] = rest[k - i] % Base
  BY <1>0, DigitsAre
<1> DEFINE G == {i \in Nat : i <= k => v[i] = rest[k - i]}
<1>4. 0 \in G
  BY <1>1, <1>2
<1>5. ASSUME NEW i \in 0..k, i \in G, i < k  PROVE i + 1 \in G
  <2>1. /\ i + 1 \in 1..k /\ (i + 1) - 1 = i /\ k - i \in 1..k
        /\ k - (i + 1) \in 0..k /\ k - (i + 1) = (k - i) - 1
    BY <1>5
  <2>2. v[i + 1] = v[i] * Base + (rest[k - (i + 1)] % Base)
    <3>1. v[i + 1] = v[(i + 1) - 1] * Base + d[i + 1]
      BY Zenon, <1>2, <2>1
    <3>2. d[i + 1] = rest[k - (i + 1)] % Base
      BY Zenon, <1>3, <2>1
    <3>3. QED BY Zenon, <2>1, <3>1, <3>2
  <2>3. v[i] = rest[k - (i + 1)] \div Base
    BY <1>1, <1>5, <2>1
  <2>4. rest[k - (i + 1)] \in Nat
    BY <1>1, <2>1
  <2>5. v[i + 1] = rest[k - (i + 1)]
    <3>1. PICK x \in Nat : x = rest[k - (i + 1)]
      BY <2>4
    <3>2. x = (x \div Base) * Base + (x % Base)
      BY ShiftedNat
    <3>3. QED BY Zenon, <2>2, <2>3, <3>1, <3>2
  <2>6. QED BY <2>1, <2>5
<1>6. k \in G
  <2> HIDE DEF G
  <2>1. \A i \in 0..k : i \in G
    BY <1>4, <1>5, Reached
  <2>2. QED BY <2>1
<1>7. v[k] = rest[0]
  BY <1>6
<1>8. QED BY <1>1, <1>2, <1>7

-----------------------------------------------------------------------------
(* A frame and its bytes *)

Frame == [fin : BOOLEAN, opcode : {0, 1, 8}, data : Payloads, mask : Masks]

Size(f) == Len(f.data)
LengthDigits(f) ==
  IF Size(f) < Short THEN 0 ELSE IF Size(f) < Base * Base THEN 2 ELSE WideDigits
LengthCode(f) ==
  IF Size(f) < Short THEN Size(f) ELSE IF Size(f) < Base * Base THEN Short ELSE Short + 1
MaskSize(f) == IF f.mask = <<>> THEN 0 ELSE MaskLen
HeadSize(f) == 2 + LengthDigits(f) + MaskSize(f)
Body(f) == IF f.mask = <<>> THEN f.data ELSE Masked(f.data, f.mask)

LEMMA FrameIs ==
  ASSUME NEW f \in Frame
  PROVE  /\ f.fin \in BOOLEAN /\ f.opcode \in {0, 1, 8}
         /\ f.data \in Seq({0, 1}) /\ Size(f) \in Nat /\ Size(f) <= LargestLength
         /\ Shifts(Size(f), WideDigits)[WideDigits] = 0
         /\ f.mask \in Seq({0, 1}) /\ Len(f.mask) = MaskSize(f)
         /\ MaskSize(f) \in Nat /\ LengthDigits(f) \in Nat /\ LengthCode(f) \in 0..15
         /\ MaskSize(f) # 0 <=> f.mask # <<>>
<1>1. f.fin \in BOOLEAN /\ f.opcode \in {0, 1, 8} /\ f.data \in Payloads /\ f.mask \in Masks
  BY DEF Frame
<1>2. f.data \in Seq({0, 1})
  BY <1>1, FramesAssumption
<1>3. Size(f) \in Nat
  BY <1>2 DEF Size
<1>4. Size(f) <= LargestLength /\ Shifts(Size(f), WideDigits)[WideDigits] = 0
  BY <1>1, FramesAssumption DEF Size
<1>5. f.mask \in {<<>>} \cup [1..MaskLen -> {0, 1}]
  BY <1>1, FramesAssumption
<1>6. f.mask \in Seq({0, 1}) /\ Len(f.mask) = MaskSize(f) /\ (MaskSize(f) # 0 <=> f.mask # <<>>)
      /\ MaskSize(f) \in Nat
  <2>1. CASE f.mask = <<>>
    BY <2>1 DEF MaskSize
  <2>2. CASE f.mask # <<>>
    <3>1. f.mask \in [1..MaskLen -> {0, 1}]
      BY <1>5, <2>2
    <3>2. f.mask \in Seq({0, 1}) /\ Len(f.mask) = MaskLen
      BY <3>1, FrameNumbers
    <3>3. QED BY <2>2, <3>2, FrameNumbers DEF MaskSize
  <2>3. QED BY <2>1, <2>2
<1>7. LengthDigits(f) \in Nat /\ LengthCode(f) \in 0..15
  BY <1>3, FrameNumbers DEF LengthDigits, LengthCode
<1>8. QED BY <1>1, <1>2, <1>3, <1>4, <1>6, <1>7

LEMMA MaskIndex ==
  ASSUME NEW i \in Nat
  PROVE  (i % MaskLen) + 1 \in 1..MaskLen
<1>1. i % MaskLen \in 0..(MaskLen - 1)
  BY FrameNumbers
<1>2. QED BY <1>1, FrameNumbers

MaskedFrom(e, d, m) ==
  /\ e \in Seq({0, 1}) /\ Len(e) = Len(d)
  /\ \A i \in 1..Len(d) :
       /\ ((i - 1) % MaskLen) + 1 \in 1..MaskLen
       /\ e[i] = (d[i] + m[((i - 1) % MaskLen) + 1]) % 2

LEMMA MaskedIs ==
  ASSUME NEW d \in Seq({0, 1}), NEW m \in Seq({0, 1}), Len(m) = MaskLen
  PROVE  MaskedFrom(Masked(d, m), d, m)
<1>1. DOMAIN d = 1..Len(d) /\ Len(d) \in Nat
  OBVIOUS
<1>2. \A i \in 1..Len(d) : ((i - 1) % MaskLen) + 1 \in 1..MaskLen
  <2>1. ASSUME NEW i \in 1..Len(d)  PROVE ((i - 1) % MaskLen) + 1 \in 1..MaskLen
    <3>1. i - 1 \in Nat
      BY <1>1
    <3>2. QED BY <3>1, MaskIndex
  <2>2. QED BY <2>1
<1>3. \A i \in 1..Len(d) : (d[i] + m[((i - 1) % MaskLen) + 1]) % 2 \in {0, 1}
  <2>1. ASSUME NEW i \in 1..Len(d)
        PROVE  (d[i] + m[((i - 1) % MaskLen) + 1]) % 2 \in {0, 1}
    <3>1. d[i] \in {0, 1} /\ m[((i - 1) % MaskLen) + 1] \in {0, 1}
      BY <1>2
    <3>2. QED BY <3>1
  <2>2. QED BY <2>1
<1>4. Masked(d, m) = [i \in 1..Len(d) |-> (d[i] + m[((i - 1) % MaskLen) + 1]) % 2]
  BY <1>1 DEF Masked
<1>5. Masked(d, m) \in [1..Len(d) -> {0, 1}]
  BY <1>3, <1>4
<1>6. Masked(d, m) \in Seq({0, 1}) /\ Len(Masked(d, m)) = Len(d)
  BY <1>1, <1>5
<1>7. QED BY <1>2, <1>4, <1>6 DEF MaskedFrom

\* Two masks undo each other.
LEMMA Unmasked ==
  ASSUME NEW d \in Seq({0, 1}), NEW m \in Seq({0, 1}), Len(m) = MaskLen
  PROVE  Masked(Masked(d, m), m) = d
<1>1. PICK e : e = Masked(d, m)
  OBVIOUS
<1>2. MaskedFrom(e, d, m)
  BY <1>1, MaskedIs
<1>3. MaskedFrom(Masked(e, m), e, m)
  <2>1. e \in Seq({0, 1})
    BY <1>2 DEF MaskedFrom
  <2>2. QED BY <2>1, MaskedIs
<1>4. ASSUME NEW i \in 1..Len(d)  PROVE Masked(e, m)[i] = d[i]
  <2>1. PICK x : x = m[((i - 1) % MaskLen) + 1]
    OBVIOUS
  <2>2. d[i] \in {0, 1} /\ x \in {0, 1}
    BY <1>2, <2>1 DEF MaskedFrom
  <2>3. Masked(e, m)[i] = (((d[i] + x) % 2) + x) % 2
    BY <1>2, <1>3, <2>1 DEF MaskedFrom
  <2>4. QED BY <2>2, <2>3
<1>5. Masked(e, m) \in Seq({0, 1}) /\ Len(Masked(e, m)) = Len(d)
  BY <1>2, <1>3 DEF MaskedFrom
<1>6. QED BY <1>1, <1>4, <1>5

\* e is a and then b.
JoinedFrom(e, S, a, b) ==
  /\ e \in Seq(S) /\ Len(e) = Len(a) + Len(b) /\ Len(a) \in Nat /\ Len(b) \in Nat
  /\ \A i \in 1..Len(a) : e[i] = a[i]
  /\ \A i \in 1..Len(b) : e[Len(a) + i] = b[i]

LEMMA Joined ==
  ASSUME NEW S, NEW a \in Seq(S), NEW b \in Seq(S)
  PROVE  JoinedFrom(a \o b, S, a, b)
  BY DEF JoinedFrom

LEMMA BodyIs ==
  ASSUME NEW f \in Frame
  PROVE  Body(f) \in Seq({0, 1}) /\ Len(Body(f)) = Size(f)
<1>1. CASE f.mask = <<>>
  BY <1>1, FrameIs DEF Body, Size
<1>2. CASE f.mask # <<>>
  <2>1. Len(f.mask) = MaskLen /\ f.mask \in Seq({0, 1}) /\ f.data \in Seq({0, 1})
    BY <1>2, FrameIs DEF MaskSize
  <2>2. QED BY <1>2, <2>1, MaskedIs DEF Body, Size, MaskedFrom
<1>3. QED BY <1>1, <1>2

LEMMA Within ==
  ASSUME NEW p \in Nat, NEW q \in Nat
  PROVE  /\ \A i \in 1..2 : i \in 1..(2 + p) /\ i \in 1..(2 + p + q)
         /\ \A i \in 1..p : 2 + i \in 1..(2 + p) /\ 2 + i \in 1..(2 + p + q)
         /\ \A i \in 1..q : 2 + p + i \in 1..(2 + p + q)
  OBVIOUS

LEMMA EncodeIs ==
  ASSUME NEW f \in Frame, NEW e, e = EncodeFrame(f)
  PROVE  /\ e \in Seq(Nat) /\ Len(e) = HeadSize(f) + Size(f)
         /\ e[1] = (IF f.fin THEN 16 ELSE 0) + f.opcode
         /\ e[2] = (IF f.mask # <<>> THEN 16 ELSE 0) + LengthCode(f)
         /\ \A i \in 1..LengthDigits(f) : e[2 + i] = Digits(Size(f), LengthDigits(f))[i]
         /\ \A i \in 1..MaskSize(f) : e[2 + LengthDigits(f) + i] = f.mask[i]
         /\ \A i \in 1..Size(f) : e[HeadSize(f) + i] = Body(f)[i]
<1>1. PICK a : a = <<(IF f.fin THEN 16 ELSE 0) + f.opcode,
                     (IF f.mask # <<>> THEN 16 ELSE 0) + LengthCode(f)>>
  OBVIOUS
<1>2. PICK b : b = IF Size(f) < Short THEN <<>> ELSE Digits(Size(f), LengthDigits(f))
  OBVIOUS
<1>3. e = a \o b \o f.mask \o Body(f)
  <2>1. CASE Size(f) < Short
    BY <1>1, <1>2, <2>1 DEF EncodeFrame, Size, LengthCode, Body, Flag
  <2>2. CASE ~(Size(f) < Short)
    BY <1>1, <1>2, <2>2 DEF EncodeFrame, Size, LengthCode, LengthDigits, Body, Flag
  <2>3. QED BY <2>1, <2>2
<1>4. a \in Seq(Nat) /\ Len(a) = 2 /\ a[1] = (IF f.fin THEN 16 ELSE 0) + f.opcode
      /\ a[2] = (IF f.mask # <<>> THEN 16 ELSE 0) + LengthCode(f)
  <2>1. PICK x, y : /\ x = (IF f.fin THEN 16 ELSE 0) + f.opcode
                    /\ y = (IF f.mask # <<>> THEN 16 ELSE 0) + LengthCode(f)
    OBVIOUS
  <2>2. f.opcode \in {0, 1, 8} /\ LengthCode(f) \in 0..15
    BY FrameIs
  <2>3. x \in Nat /\ y \in Nat
    <3>1. \A n \in 0..15 : n \in Nat /\ 16 + n \in Nat /\ 0 + n \in Nat
      OBVIOUS
    <3>2. x = 16 + f.opcode \/ x = 0 + f.opcode
      BY <2>1
    <3>3. y = 16 + LengthCode(f) \/ y = 0 + LengthCode(f)
      BY <2>1
    <3>4. f.opcode \in 0..15
      BY <2>2
    <3>5. QED BY <2>2, <3>1, <3>2, <3>3, <3>4
  <2>4. a = <<x, y>>
    BY <1>1, <2>1
  <2>5. QED BY <2>1, <2>3, <2>4
<1>5. b \in Seq(Nat) /\ Len(b) = LengthDigits(f)
      /\ \A i \in 1..LengthDigits(f) : b[i] = Digits(Size(f), LengthDigits(f))[i]
  <2>1. CASE Size(f) < Short
    BY <1>2, <2>1 DEF LengthDigits
  <2>2. CASE ~(Size(f) < Short)
    BY <1>2, <2>2, FrameIs, DigitsAre
  <2>3. QED BY <2>1, <2>2
<1>6. f.mask \in Seq(Nat) /\ Len(f.mask) = MaskSize(f)
  BY FrameIs
<1>7. Body(f) \in Seq(Nat) /\ Len(Body(f)) = Size(f)
  <2>1. Body(f) \in Seq({0, 1}) /\ Len(Body(f)) = Size(f)
    BY BodyIs
  <2>2. QED BY <2>1
<1>8. LengthDigits(f) \in Nat /\ MaskSize(f) \in Nat /\ Size(f) \in Nat
  BY FrameIs
<1>9. PICK x : x = a \o b
  OBVIOUS
<1>10. PICK y : y = x \o f.mask
  OBVIOUS
<1>11. JoinedFrom(x, Nat, a, b)
  BY <1>4, <1>5, <1>9, Joined
<1>12. JoinedFrom(y, Nat, x, f.mask)
  <2>1. x \in Seq(Nat)
    BY <1>11 DEF JoinedFrom
  <2>2. QED BY <1>6, <1>10, <2>1, Joined
<1>13. JoinedFrom(e, Nat, y, Body(f))
  <2>1. y \in Seq(Nat) /\ e = y \o Body(f)
    BY <1>3, <1>9, <1>10, <1>12 DEF JoinedFrom
  <2>2. QED BY <1>7, <2>1, Joined
<1>14. Len(x) = 2 + LengthDigits(f) /\ Len(y) = 2 + LengthDigits(f) + MaskSize(f)
       /\ Len(y) = HeadSize(f) /\ Len(e) = HeadSize(f) + Size(f)
       /\ e \in Seq(Nat)
  BY <1>4, <1>5, <1>6, <1>7, <1>11, <1>12, <1>13 DEF JoinedFrom, HeadSize
<1> DEFINE p == LengthDigits(f)
           q == MaskSize(f)
<1>20. /\ \A i \in 1..2 : i \in 1..(2 + p) /\ i \in 1..(2 + p + q)
       /\ \A i \in 1..p : 2 + i \in 1..(2 + p) /\ 2 + i \in 1..(2 + p + q)
       /\ \A i \in 1..q : 2 + p + i \in 1..(2 + p + q)
  <2>1. p \in Nat /\ q \in Nat
    BY <1>8
  <2> HIDE DEF p, q
  <2>2. QED BY <2>1, Within
<1>15. e[1] = a[1] /\ e[2] = a[2]
  <2>1. \A i \in 1..2 : x[i] = a[i] /\ i \in 1..Len(x) /\ i \in 1..Len(y)
    <3>1. \A i \in 1..2 : x[i] = a[i]
      BY <1>4, <1>11 DEF JoinedFrom
    <3>2. QED BY Zenon, <1>14, <1>20, <3>1
  <2>2. \A i \in 1..2 : e[i] = a[i]
    BY <1>12, <1>13, <2>1 DEF JoinedFrom
  <2>3. QED BY <2>2
<1>16. ASSUME NEW i \in 1..LengthDigits(f)  PROVE e[2 + i] = b[i]
  <2>1. x[2 + i] = b[i]
    BY <1>4, <1>5, <1>11 DEF JoinedFrom
  <2>2. 2 + i \in 1..Len(x) /\ 2 + i \in 1..Len(y)
    BY Zenon, <1>14, <1>20
  <2>3. QED BY <1>12, <1>13, <2>1, <2>2 DEF JoinedFrom
<1>17. ASSUME NEW i \in 1..MaskSize(f)  PROVE e[2 + LengthDigits(f) + i] = f.mask[i]
  <2>1. y[2 + LengthDigits(f) + i] = f.mask[i]
    BY <1>6, <1>12, <1>14 DEF JoinedFrom
  <2>2. 2 + LengthDigits(f) + i \in 1..(2 + LengthDigits(f) + MaskSize(f))
    <3>1. PICK u \in Nat, v \in Nat : u = LengthDigits(f) /\ v = MaskSize(f)
      BY <1>8
    <3>2. i \in 1..v
      BY <3>1
    <3>3. 2 + u + i \in 1..(2 + u + v)
      BY <3>2
    <3>4. QED BY <3>1, <3>3
  <2>3. 2 + LengthDigits(f) + i \in 1..Len(y)
    BY Zenon, <1>14, <2>2
  <2>4. QED BY <1>13, <2>1, <2>3 DEF JoinedFrom
<1>18. \A i \in 1..Size(f) : e[HeadSize(f) + i] = Body(f)[i]
  BY <1>7, <1>13, <1>14 DEF JoinedFrom
<1>19. QED BY <1>4, <1>5, <1>14, <1>15, <1>16, <1>17, <1>18

-----------------------------------------------------------------------------
(* A frame is read back *)

\* As far as buf goes beyond off, it has what e begins with.
Reads(buf, off, e) == \A j \in 1..Len(e) : off + j <= Len(buf) => buf[off + j] = e[j]

Bad(f) == Control(f) /\ (~f.fin \/ Size(f) >= Short)

\* What tryParse() ought to say where a frame begins.
ParsedAs(buf, off, f) ==
  LET size == Len(buf) - off IN
  IF size < 2 + LengthDigits(f) THEN Outcome("more")
  ELSE IF Bad(f) THEN Outcome("error")
  ELSE IF size < HeadSize(f) + Size(f) THEN Outcome("more")
  ELSE [kind |-> "frame", fin |-> f.fin, opcode |-> f.opcode,
        next |-> off + HeadSize(f) + Size(f), data |-> f.data]

\* x is the k elements of buf after the first a.
SlicedFrom(x, S, buf, a, k) ==
  x \in Seq(S) /\ Len(x) = k /\ \A j \in 1..k : x[j] = buf[a + j]

LEMMA Sliced ==
  ASSUME NEW S, NEW buf \in Seq(S), NEW a \in Nat, NEW k \in Nat, NEW b, b = a + k, b <= Len(buf),
         NEW x, x = SubSeq(buf, a + 1, b)
  PROVE  SlicedFrom(x, S, buf, a, k)
<1>1. Len(buf) \in Nat /\ b \in Nat
  OBVIOUS
<1>2. \A j \in (a + 1)..b : j \in 1..Len(buf)
  BY <1>1
<1>3. \A j \in (a + 1)..b : buf[j] \in S
  BY <1>2
<1>4. x \in Seq(S)
  <2>1. a + 1 \in Int /\ b \in Int
    BY <1>1
  <2>2. QED BY <1>3, <2>1, SubSeqProperties
<1>5. Len(x) = k
  <2>1. a + 1 <= b \/ k = 0
    OBVIOUS
  <2>2. CASE a + 1 <= b
    BY <2>2
  <2>3. CASE k = 0
    BY <2>3
  <2>4. QED BY <2>1, <2>2, <2>3
<1>6. ASSUME NEW j \in 1..k  PROVE x[j] = buf[a + j]
  <2>1. j \in 1..(b - (a + 1) + 1) /\ (a + 1) + j - 1 = a + j
    OBVIOUS
  <2>2. a + 1 \in Int /\ b \in Int
    BY <1>1
  <2>3. x[j] = buf[(a + 1) + j - 1]
    BY <1>3, <2>1, <2>2, SubSeqProperties
  <2>4. QED BY <2>1, <2>3
<1>7. QED BY <1>4, <1>5, <1>6 DEF SlicedFrom

LEMMA SliceIs ==
  ASSUME NEW S, NEW buf \in Seq(S), NEW a \in Nat, NEW k \in Nat, a + k <= Len(buf),
         NEW T, NEW x \in Seq(T), Len(x) = k, \A i \in 1..k : buf[a + i] = x[i]
  PROVE  SubSeq(buf, a + 1, a + k) = x
<1>1. PICK y : y = SubSeq(buf, a + 1, a + k)
  OBVIOUS
<1>2. SlicedFrom(y, S, buf, a, k)
  BY <1>1, Sliced
<1>3. y \in Seq(S) /\ Len(y) = k /\ \A i \in 1..k : y[i] = x[i]
  BY <1>2 DEF SlicedFrom
<1>4. y = [i \in 1..k |-> y[i]] /\ x = [i \in 1..k |-> x[i]]
  BY <1>3
<1>5. QED BY <1>1, <1>3, <1>4

LEMMA TwoDigits ==
  ASSUME NEW n \in Nat, n < Base * Base
  PROVE  Shifts(n, 2)[2] = 0
<1>1. ShiftedBy(Shifts(n, 2), n, 2)
  BY ShiftsIs
<1>2. PICK rest : rest = Shifts(n, 2)
  OBVIOUS
<1>3. rest[0] = n /\ rest[1] = rest[0] \div Base /\ rest[2] = rest[1] \div Base
  BY <1>1, <1>2 DEF ShiftedBy
<1>4. n \div Base \in Nat /\ n \div Base < Base
  BY FrameNumbers
<1>5. PICK x \in Nat : x = n \div Base /\ x < Base
  BY <1>4
<1>6. x \div Base = 0
  BY <1>5, FrameNumbers
<1>7. QED BY <1>2, <1>3, <1>5, <1>6

LEMMA LengthRead ==
  ASSUME NEW f \in Frame, LengthDigits(f) # 0,
         NEW d \in Seq(Nat), Len(d) = LengthDigits(f),
         \A i \in 1..LengthDigits(f) : d[i] = Digits(Size(f), LengthDigits(f))[i]
  PROVE  Number(d) = Size(f)
<1>1. Size(f) \in Nat /\ LengthDigits(f) \in Nat /\ Shifts(Size(f), WideDigits)[WideDigits] = 0
  BY FrameIs
<1>2. Shifts(Size(f), LengthDigits(f))[LengthDigits(f)] = 0
  <2>1. CASE Size(f) < Base * Base
    <3>1. LengthDigits(f) = 2
      BY <2>1 DEF LengthDigits
    <3>2. QED BY <1>1, <2>1, <3>1, TwoDigits
  <2>2. CASE ~(Size(f) < Base * Base)
    <3>1. LengthDigits(f) = WideDigits
      BY <2>2 DEF LengthDigits
    <3>2. QED BY <1>1, <3>1
  <2>3. QED BY <2>1, <2>2
<1>3. QED BY <1>1, <1>2, ReadBack

\* Flags and numbers of the first two bytes.
LEMMA BytesRead ==
  ASSUME NEW f \in Frame, NEW x, NEW y,
         x = (IF f.fin THEN 16 ELSE 0) + f.opcode,
         y = (IF f.mask # <<>> THEN 16 ELSE 0) + LengthCode(f)
  PROVE  /\ (x >= Flag) = f.fin /\ x % Flag = f.opcode
         /\ (y >= Flag) <=> f.mask # <<>>
         /\ y % Flag = LengthCode(f)
<1>1. f.fin \in BOOLEAN /\ f.opcode \in 0..15 /\ LengthCode(f) \in 0..15
  BY FrameIs
<1>2. \A n \in 0..15 : /\ 16 + n >= 16 /\ ~(0 + n >= 16) /\ (16 + n) % 16 = n /\ (0 + n) % 16 = n
  OBVIOUS
<1>3. Flag = 16
  BY DEF Flag
<1>4. (x >= 16) = f.fin /\ x % 16 = f.opcode
  <2>1. CASE f.fin = TRUE
    BY <1>1, <1>2, <2>1
  <2>2. CASE f.fin = FALSE
    <3>1. x = 0 + f.opcode
      BY <2>2
    <3>2. ~(x >= 16) /\ x % 16 = f.opcode
      BY <1>1, <1>2, <3>1
    <3>3. (x >= 16) = FALSE
      BY <3>2
    <3>4. QED BY <2>2, <3>2, <3>3
  <2>3. QED BY <1>1, <2>1, <2>2
<1>5. ((y >= 16) <=> f.mask # <<>>) /\ y % 16 = LengthCode(f)
  <2>1. CASE f.mask # <<>>
    BY <1>1, <1>2, <2>1
  <2>2. CASE f.mask = <<>>
    BY <1>1, <1>2, <2>2
  <2>3. QED BY <2>1, <2>2
<1>6. QED BY <1>3, <1>4, <1>5

LEMMA DigitsFromCode ==
  ASSUME NEW f \in Frame
  PROVE  /\ LengthDigits(f) = IF LengthCode(f) = Short THEN 2
                              ELSE IF LengthCode(f) = Short + 1 THEN WideDigits ELSE 0
         /\ LengthDigits(f) = 0 <=> Size(f) < Short
         /\ LengthDigits(f) = 0 => LengthCode(f) = Size(f)
  BY FrameIs, FrameNumbers DEF LengthDigits, LengthCode

\* tryParse() once it has read what the first bytes say.
ParsedOf(buf, off, fin, opcode, code, digits, len, mask) ==
  LET size == Len(buf) - off
      head == 2 + digits + mask
      data == SubSeq(buf, off + head + 1, off + head + len)
  IN IF size < 2 \/ size < 2 + digits THEN Outcome("more")
     ELSE IF (code = Short + 1 /\ len > LargestLength) \/ (opcode >= Close /\ (~fin \/ len >= Short))
     THEN Outcome("error")
     ELSE IF size < head + len THEN Outcome("more")
     ELSE [kind |-> "frame", fin |-> fin, opcode |-> opcode, next |-> off + head + len,
           data |-> IF mask = 0 THEN data
                    ELSE Masked(data, SubSeq(buf, off + 2 + digits + 1, off + head))]

LEMMA ParseUnfolds ==
  ASSUME NEW buf, NEW off, NEW code, code = buf[off + 2] % Flag,
         NEW p, p = IF code = Short THEN 2 ELSE IF code = Short + 1 THEN WideDigits ELSE 0,
         NEW len, len = IF p = 0 THEN code ELSE Number(SubSeq(buf, off + 3, off + 2 + p)),
         NEW q, q = IF buf[off + 2] >= Flag THEN MaskLen ELSE 0
  PROVE  TryParse(buf, off) =
           ParsedOf(buf, off, buf[off + 1] >= Flag, buf[off + 1] % Flag, code, p, len, q)
  BY DEF TryParse, ParsedOf

LEMMA ParseIs ==
  ASSUME NEW buf \in Seq(Nat), NEW off \in Nat, off <= Len(buf), NEW f \in Frame,
         Reads(buf, off, EncodeFrame(f))
  PROVE  TryParse(buf, off) = ParsedAs(buf, off, f)
<1>1. PICK e : e = EncodeFrame(f)
  OBVIOUS
<1>2. /\ e \in Seq(Nat) /\ Len(e) = HeadSize(f) + Size(f)
      /\ e[1] = (IF f.fin THEN 16 ELSE 0) + f.opcode
      /\ e[2] = (IF f.mask # <<>> THEN 16 ELSE 0) + LengthCode(f)
      /\ \A i \in 1..LengthDigits(f) : e[2 + i] = Digits(Size(f), LengthDigits(f))[i]
      /\ \A i \in 1..MaskSize(f) : e[2 + LengthDigits(f) + i] = f.mask[i]
      /\ \A i \in 1..Size(f) : e[HeadSize(f) + i] = Body(f)[i]
  BY <1>1, EncodeIs
<1>3. PICK size \in Nat : size = Len(buf) - off /\ Len(buf) = off + size
  <2>1. Len(buf) - off \in Nat /\ Len(buf) = off + (Len(buf) - off)
    OBVIOUS
  <2>2. QED BY <2>1
<1>4. PICK p \in Nat, q \in Nat, z \in Nat :
        p = LengthDigits(f) /\ q = MaskSize(f) /\ z = Size(f)
  BY FrameIs
<1>5. HeadSize(f) = 2 + p + q
  BY <1>4 DEF HeadSize
<1>6. \A j \in 1..(2 + p + q + z) : j <= size => buf[off + j] = e[j]
  BY <1>1, <1>2, <1>3, <1>4, <1>5 DEF Reads
<1>7. CASE size < 2
  BY <1>3, <1>4, <1>7 DEF TryParse, ParsedAs
<1>8. CASE size >= 2
  <2>1. buf[off + 1] = e[1] /\ buf[off + 2] = e[2]
    BY <1>6, <1>8
  <2>2. /\ (buf[off + 1] >= Flag) = f.fin /\ buf[off + 1] % Flag = f.opcode
        /\ (buf[off + 2] >= Flag) <=> f.mask # <<>>
        /\ buf[off + 2] % Flag = LengthCode(f)
    BY <1>2, <2>1, BytesRead
  <2>3. p = IF LengthCode(f) = Short THEN 2
            ELSE IF LengthCode(f) = Short + 1 THEN WideDigits ELSE 0
    BY <1>4, DigitsFromCode
  <2>4. q = IF buf[off + 2] >= Flag THEN MaskLen ELSE 0
    BY <1>4, <2>2 DEF MaskSize
  <2> DEFINE len == IF p = 0 THEN LengthCode(f) ELSE Number(SubSeq(buf, off + 3, off + 2 + p))
             head == 2 + p + q
             data == SubSeq(buf, off + head + 1, off + head + len)
             again == IF q = 0 THEN data ELSE Masked(data, SubSeq(buf, off + 2 + p + 1, off + head))
  <2>5. TryParse(buf, off) =
          IF size < 2 \/ size < 2 + p THEN Outcome("more")
          ELSE IF (LengthCode(f) = Short + 1 /\ len > LargestLength)
                  \/ (f.opcode >= Close /\ (~f.fin \/ len >= Short))
          THEN Outcome("error")
          ELSE IF size < head + len THEN Outcome("more")
          ELSE [kind |-> "frame", fin |-> f.fin, opcode |-> f.opcode,
                next |-> off + head + len, data |-> again]
    <3>1. TryParse(buf, off) =
            ParsedOf(buf, off, buf[off + 1] >= Flag, buf[off + 1] % Flag, LengthCode(f), p, len, q)
      <4>1. PICK c : c = LengthCode(f)
        OBVIOUS
      <4>2. c = buf[off + 2] % Flag
        BY <2>2, <4>1
      <4>3. p = IF c = Short THEN 2 ELSE IF c = Short + 1 THEN WideDigits ELSE 0
        BY <2>3, <4>1
      <4>4. len = IF p = 0 THEN c ELSE Number(SubSeq(buf, off + 3, off + 2 + p))
        BY <4>1
      <4> HIDE DEF len
      <4>5. TryParse(buf, off) =
              ParsedOf(buf, off, buf[off + 1] >= Flag, buf[off + 1] % Flag, c, p, len, q)
        BY Zenon, <2>4, <4>2, <4>3, <4>4, ParseUnfolds
      <4>6. QED BY <4>1, <4>5
    <3>2. @ = ParsedOf(buf, off, f.fin, f.opcode, LengthCode(f), p, len, q)
      BY <2>2
    <3>3. QED BY <1>3, <3>1, <3>2 DEF ParsedOf
  <2>6. CASE size < 2 + p
    <3>1. TryParse(buf, off) = Outcome("more")
      BY <2>5, <2>6
    <3>2. ParsedAs(buf, off, f) = Outcome("more")
      BY <1>3, <1>4, <2>6 DEF ParsedAs
    <3>3. QED BY <3>1, <3>2
  <2>7. CASE size >= 2 + p
    <3>1. len = z
      <4>1. CASE p = 0
        BY <1>4, <4>1, DigitsFromCode
      <4>2. CASE p # 0
        <5>1. PICK d : d = SubSeq(buf, off + 3, off + 2 + p)
          OBVIOUS
        <5>2. \A i \in 1..p : /\ 2 + i \in 1..(2 + p + q + z) /\ 2 + i <= size
                              /\ off + (2 + i) = (off + 2) + i
          BY <2>7
        <5>3. \A i \in 1..p : buf[(off + 2) + i] = Digits(z, p)[i]
          BY <1>2, <1>4, <1>6, <5>2
        <5>4. off + 3 = (off + 2) + 1 /\ (off + 2) + p <= Len(buf) /\ off + 2 \in Nat
          BY <1>3, <2>7
        <5>5. Digits(z, p) \in Seq(Nat) /\ Len(Digits(z, p)) = p
          BY DigitsAre
        <5>6. SubSeq(buf, (off + 2) + 1, (off + 2) + p) = Digits(z, p)
          BY <5>3, <5>4, <5>5, SliceIs
        <5>7. d = Digits(z, p)
          BY <5>1, <5>4, <5>6
        <5>8. Number(d) = z
          BY <1>4, <4>2, <5>5, <5>7, LengthRead
        <5>9. QED BY <4>2, <5>1, <5>8
      <4>3. QED BY <4>1, <4>2
    <3>2. ~(LengthCode(f) = Short + 1 /\ len > LargestLength)
      BY <1>4, <3>1, FrameIs, FrameNumbers
    <3>3. (f.opcode >= Close /\ (~f.fin \/ len >= Short)) <=> Bad(f)
      BY <1>4, <3>1 DEF Bad, Control
    <3>4. CASE Bad(f)
      <4>1. TryParse(buf, off) = Outcome("error")
        BY <1>8, <2>5, <2>7, <3>3, <3>4
      <4>2. ParsedAs(buf, off, f) = Outcome("error")
        BY <1>3, <1>4, <2>7, <3>4 DEF ParsedAs
      <4>3. QED BY <4>1, <4>2
    <3>5. CASE ~Bad(f) /\ size < head + z
      <4>1. TryParse(buf, off) = Outcome("more")
        BY <1>8, <2>5, <2>7, <3>1, <3>2, <3>3, <3>5
      <4>2. ParsedAs(buf, off, f) = Outcome("more")
        BY <1>3, <1>4, <1>5, <2>7, <3>5 DEF ParsedAs
      <4>3. QED BY <4>1, <4>2
    <3>6. CASE ~Bad(f) /\ ~(size < head + z)
      <4>1. size >= 2 + p + q + z
        BY <3>6
      <4>2. data = Body(f)
        <5>1. \A i \in 1..z : /\ (2 + p + q) + i \in 1..(2 + p + q + z) /\ (2 + p + q) + i <= size
                              /\ off + ((2 + p + q) + i) = (off + (2 + p + q)) + i
          BY <4>1
        <5>2. \A i \in 1..z : buf[(off + (2 + p + q)) + i] = Body(f)[i]
          <6>1. ASSUME NEW i \in 1..z  PROVE buf[(off + (2 + p + q)) + i] = Body(f)[i]
            <7>1. PICK j : j = (2 + p + q) + i
              OBVIOUS
            <7>2. j \in 1..(2 + p + q + z) /\ j <= size /\ off + j = (off + (2 + p + q)) + i
              BY <5>1, <7>1
            <7>3. buf[off + j] = e[j]
              BY <1>6, <7>2
            <7>4. e[j] = Body(f)[i]
              BY <1>2, <1>4, <1>5, <7>1
            <7>5. QED BY <7>2, <7>3, <7>4
          <6>2. QED BY <6>1
        <5>3. off + (2 + p + q) \in Nat /\ (off + (2 + p + q)) + z <= Len(buf)
          BY <1>3, <4>1
        <5>4. Body(f) \in Seq({0, 1}) /\ Len(Body(f)) = z
          BY <1>4, BodyIs
        <5>5. SubSeq(buf, (off + (2 + p + q)) + 1, (off + (2 + p + q)) + z) = Body(f)
          <6>1. PICK o \in Nat : o = off + (2 + p + q)
            BY <5>3
          <6>2. \A i \in 1..z : buf[o + i] = Body(f)[i]
            BY <5>2, <6>1
          <6>3. SubSeq(buf, o + 1, o + z) = Body(f)
            BY <5>3, <5>4, <6>1, <6>2, SliceIs
          <6>4. QED BY <6>1, <6>3
        <5>6. QED BY <3>1, <5>5
      <4>3. again = f.data
        <5>1. CASE q = 0
          <6>1. f.mask = <<>>
            BY <1>4, <5>1, FrameIs
          <6>2. QED BY <4>2, <5>1, <6>1 DEF Body
        <5>2. CASE q # 0
          <6>1. /\ f.mask # <<>> /\ Len(f.mask) = q /\ Len(f.mask) = MaskLen
                /\ f.mask \in Seq({0, 1}) /\ f.data \in Seq({0, 1})
            BY <1>4, <5>2, FrameIs DEF MaskSize
          <6>2. \A i \in 1..q : /\ 2 + p + i \in 1..(2 + p + q + z) /\ 2 + p + i <= size
                                /\ off + (2 + p + i) = (off + 2 + p) + i
            BY <4>1
          <6>3. \A i \in 1..q : buf[(off + 2 + p) + i] = f.mask[i]
            <7>1. ASSUME NEW i \in 1..q  PROVE buf[(off + 2 + p) + i] = f.mask[i]
              <8>1. PICK j : j = 2 + p + i
                OBVIOUS
              <8>2. j \in 1..(2 + p + q + z) /\ j <= size /\ off + j = (off + 2 + p) + i
                BY <6>2, <8>1
              <8>3. buf[off + j] = e[j]
                BY <1>6, <8>2
              <8>4. e[j] = f.mask[i]
                BY <1>2, <1>4, <8>1
              <8>5. QED BY <8>2, <8>3, <8>4
            <7>2. QED BY <7>1
          <6>4. off + 2 + p \in Nat /\ (off + 2 + p) + q <= Len(buf)
                /\ off + (2 + p + q) = (off + 2 + p) + q
            BY <1>3, <4>1
          <6>5. SubSeq(buf, (off + 2 + p) + 1, (off + 2 + p) + q) = f.mask
            BY <6>1, <6>3, <6>4, SliceIs
          <6>6. again = Masked(Masked(f.data, f.mask), f.mask)
            BY <4>2, <5>2, <6>1, <6>4, <6>5 DEF Body
          <6>7. QED BY <6>1, <6>6, Unmasked
        <5>3. QED BY <5>1, <5>2
      <4>4. TryParse(buf, off) = [kind |-> "frame", fin |-> f.fin, opcode |-> f.opcode,
                                  next |-> off + head + z, data |-> f.data]
        <5>1. ~(size < 2 \/ size < 2 + p) /\ ~(size < head + len)
          BY <1>8, <2>7, <3>1, <3>6
        <5>2. ~((LengthCode(f) = Short + 1 /\ len > LargestLength)
                \/ (f.opcode >= Close /\ (~f.fin \/ len >= Short)))
          BY <3>2, <3>3, <3>6
        <5> HIDE DEF len, head, again
        <5>3. TryParse(buf, off) = [kind |-> "frame", fin |-> f.fin, opcode |-> f.opcode,
                                    next |-> off + head + len, data |-> again]
          BY Zenon, <2>5, <5>1, <5>2
        <5>4. QED BY <3>1, <4>3, <5>3
      <4>5. ParsedAs(buf, off, f) = [kind |-> "frame", fin |-> f.fin, opcode |-> f.opcode,
                                     next |-> off + HeadSize(f) + Size(f), data |-> f.data]
        BY <1>3, <1>4, <1>5, <2>7, <3>6 DEF ParsedAs
      <4>6. off + head + z = off + HeadSize(f) + Size(f)
        BY <1>4, <1>5
      <4>7. QED BY <4>4, <4>5, <4>6
    <3>7. QED BY <3>4, <3>5, <3>6
  <2>8. QED BY <2>6, <2>7
<1>9. QED BY <1>7, <1>8

-----------------------------------------------------------------------------
(* What the parts of a message make up *)

Bits == Seq({0, 1})

MergedBy(merged, pieces) ==
  /\ merged \in [0..Len(pieces) -> Bits] /\ merged[0] = <<>> /\ Merged(pieces) = merged[Len(pieces)]
  /\ \A i \in 1..Len(pieces) : merged[i] = merged[i - 1] \o pieces[i]

LEMMA MergedIs ==
  ASSUME NEW pieces \in Seq(Bits)
  PROVE  \E merged : MergedBy(merged, pieces)
<1> DEFINE k == Len(pieces)
           step == [i \in 1..k |-> [x \in Bits |-> x \o pieces[i]]]
           merged == CHOOSE f : f = [i \in 0..k |-> IF i = 0 THEN <<>> ELSE f[i - 1] \o pieces[i]]
<1>1. k \in Nat /\ \A i \in 1..k : pieces[i] \in Bits
  OBVIOUS
<1>2. step \in [1..k -> [Bits -> Bits]]
  <2>1. \A i \in 1..k : \A x \in Bits : x \o pieces[i] \in Bits
    BY <1>1 DEF Bits
  <2>2. QED BY <2>1
<1>3. \E f : Follows(f, k, Bits, <<>>, step)
  <2>1. k \in Nat /\ <<>> \in Bits
    BY <1>1 DEF Bits
  <2> HIDE DEF step, k
  <2>2. QED BY <1>2, <2>1, Iterates
<1>4. PICK f \in [0..k -> Bits] : f[0] = <<>> /\ \A i \in 1..k : f[i] = step[i][f[i - 1]]
  BY <1>3 DEF Follows
<1>5. \A i \in 0..k : i # 0 => f[i] = f[i - 1] \o pieces[i]
  <2>1. ASSUME NEW i \in 0..k, i # 0  PROVE f[i] = f[i - 1] \o pieces[i]
    <3>1. i \in 1..k /\ i - 1 \in 0..k
      BY <1>1, <2>1
    <3>2. f[i - 1] \in Bits
      BY <3>1
    <3>3. f[i] = step[i][f[i - 1]] /\ step[i][f[i - 1]] = f[i - 1] \o pieces[i]
      BY <1>4, <3>1, <3>2
    <3>4. QED BY <3>3
  <2>2. QED BY <2>1
<1>6. f = [i \in 0..k |-> IF i = 0 THEN <<>> ELSE f[i - 1] \o pieces[i]]
  BY <1>4, <1>5
<1>7. merged = [i \in 0..k |-> IF i = 0 THEN <<>> ELSE merged[i - 1] \o pieces[i]]
  BY <1>6
<1>8. Merged(pieces) = merged[k]
  BY DEF Merged
<1> HIDE DEF merged, k
<1>9. merged[0] = <<>> /\ \A i \in 1..k : merged[i] = merged[i - 1] \o pieces[i]
  BY <1>1, <1>7
<1>10. \A i \in 0..k : merged[i] \in Bits
  <2> DEFINE G == {i \in Nat : i <= k => merged[i] \in Bits}
  <2>1. 0 \in G
    <3>1. <<>> \in Bits
      BY DEF Bits
    <3>2. QED BY <1>9, <3>1
  <2>2. ASSUME NEW i \in 0..k, i \in G, i < k  PROVE i + 1 \in G
    <3>1. i + 1 \in 1..k /\ merged[i] \in Bits /\ (i + 1) - 1 = i
      BY <1>1, <2>2
    <3>2. merged[i + 1] = merged[i] \o pieces[i + 1] /\ pieces[i + 1] \in Bits
      BY <1>1, <1>9, <3>1
    <3>3. merged[i + 1] \in Bits
      BY <3>1, <3>2 DEF Bits
    <3>4. QED BY <2>2, <3>3
  <2>3. \A i \in 0..k : i \in G
    <3> HIDE DEF G
    <3>1. QED BY <1>1, <2>1, <2>2, Reached
  <2>4. QED BY <2>3
<1>11. merged \in [0..k -> Bits]
  BY <1>7, <1>10
<1>12. QED BY <1>8, <1>9, <1>11 DEF MergedBy, k

LEMMA MergedNone == Merged(<<>>) = <<>>
<1>1. PICK merged : MergedBy(merged, <<>>)
  <2>1. <<>> \in Seq(Bits)
    OBVIOUS
  <2>2. QED BY <2>1, MergedIs
<1>2. Len(<<>>) = 0
  OBVIOUS
<1>3. QED BY <1>1, <1>2 DEF MergedBy

LEMMA MergedAppend ==
  ASSUME NEW pieces \in Seq(Bits), NEW d \in Bits
  PROVE  /\ Append(pieces, d) \in Seq(Bits) /\ Merged(pieces) \in Bits
         /\ Merged(Append(pieces, d)) = Merged(pieces) \o d
<1>1. PICK more : more = Append(pieces, d)
  OBVIOUS
<1>2. PICK k \in Nat : k = Len(pieces)
  OBVIOUS
<1>3. more \in Seq(Bits) /\ Len(more) = k + 1 /\ more[k + 1] = d
      /\ \A i \in 1..k : more[i] = pieces[i]
  BY <1>1, <1>2
<1>4. PICK f : MergedBy(f, pieces)
  BY MergedIs
<1>5. PICK g : MergedBy(g, more)
  BY <1>3, MergedIs
<1>6. /\ f \in [0..k -> Bits] /\ f[0] = <<>> /\ Merged(pieces) = f[k]
      /\ \A i \in 1..k : f[i] = f[i - 1] \o pieces[i]
  BY <1>2, <1>4 DEF MergedBy
<1>7. /\ g[0] = <<>> /\ Merged(more) = g[k + 1]
      /\ \A i \in 1..(k + 1) : g[i] = g[i - 1] \o more[i]
  BY <1>3, <1>5 DEF MergedBy
<1> DEFINE G == {i \in Nat : i <= k => g[i] = f[i]}
<1>8. 0 \in G
  BY <1>6, <1>7
<1>9. ASSUME NEW i \in 0..k, i \in G, i < k  PROVE i + 1 \in G
  <2>1. i + 1 \in 1..k /\ i + 1 \in 1..(k + 1) /\ (i + 1) - 1 = i /\ g[i] = f[i]
    BY <1>9
  <2>2. g[i + 1] = g[i] \o more[i + 1] /\ f[i + 1] = f[i] \o pieces[i + 1]
    <3>1. PICK j : j = i + 1
      OBVIOUS
    <3>2. g[j] = g[j - 1] \o more[j] /\ f[j] = f[j - 1] \o pieces[j]
      BY <1>6, <1>7, <2>1, <3>1
    <3>3. QED BY <2>1, <3>1, <3>2
  <2>3. g[i + 1] = f[i + 1]
    <3>1. PICK j : j = i + 1
      OBVIOUS
    <3>2. more[j] = pieces[j]
      BY <1>3, <2>1, <3>1
    <3>3. QED BY <2>1, <2>2, <3>1, <3>2
  <2>4. QED BY <1>9, <2>3
<1>10. k \in G
  <2> HIDE DEF G
  <2>1. \A i \in 0..k : i \in G
    BY <1>8, <1>9, Reached
  <2>2. QED BY <2>1
<1>11. g[k] = f[k]
  BY <1>10
<1>12. g[k + 1] = g[k] \o more[k + 1]
  <2>1. k + 1 \in 1..(k + 1) /\ (k + 1) - 1 = k
    OBVIOUS
  <2>2. QED BY <1>7, <2>1
<1>13. QED BY <1>1, <1>3, <1>6, <1>7, <1>11, <1>12

LEMMA MergedOne ==
  ASSUME NEW d \in Bits
  PROVE  <<d>> \in Seq(Bits) /\ Merged(<<d>>) = d
<1>1. <<>> \in Seq(Bits) /\ <<d>> = Append(<<>>, d)
  OBVIOUS
<1>2. Merged(<<d>>) = <<>> \o d
  BY <1>1, MergedAppend, MergedNone
<1>3. <<>> \o d = d
  BY DEF Bits
<1>4. QED BY <1>1, <1>2, <1>3

-----------------------------------------------------------------------------
(* What a stream of frames tells *)

Ops == {-1, 0, 1, 8}
Message == [opcode : Ops, data : Bits]
Tale == [at : Message, messages : Seq(Message)]
TaleStart == [at |-> [opcode |-> -1, data |-> <<>>], messages |-> <<>>]

Own(f) == [opcode |-> f.opcode, data |-> f.data]
AtAfter(before, f) ==
  IF Control(f) THEN before.at
  ELSE IF f.opcode # Continuation THEN Own(f)
  ELSE [opcode |-> before.at.opcode, data |-> before.at.data \o f.data]
TaleAfter(before, f) ==
  [at |-> AtAfter(before, f),
   messages |-> IF ~f.fin THEN before.messages
                ELSE Append(before.messages, IF Control(f) THEN Own(f) ELSE AtAfter(before, f))]

LEMMA TaleKept ==
  ASSUME NEW t \in Tale, NEW f \in Frame
  PROVE  TaleAfter(t, f) \in Tale
<1>1. f.opcode \in Ops /\ f.data \in Bits
  BY FrameIs DEF Ops, Bits
<1>2. Own(f) \in Message
  BY <1>1 DEF Own, Message
<1>3. t.at \in Message /\ t.messages \in Seq(Message)
  BY DEF Tale
<1>4. AtAfter(t, f) \in Message
  <2>1. t.at.opcode \in Ops /\ t.at.data \in Bits
    BY <1>3 DEF Message
  <2>2. t.at.data \o f.data \in Bits
    BY <1>1, <2>1 DEF Bits
  <2>3. [opcode |-> t.at.opcode, data |-> t.at.data \o f.data] \in Message
    BY <2>1, <2>2 DEF Message
  <2>4. QED BY <1>2, <1>3, <2>3 DEF AtAfter
<1>5. PICK x \in Message : x = IF Control(f) THEN Own(f) ELSE AtAfter(t, f)
  BY <1>2, <1>4
<1>6. Append(t.messages, x) \in Seq(Message)
  BY <1>3, <1>5
<1>7. QED BY <1>3, <1>4, <1>5, <1>6 DEF TaleAfter, Tale

ToldBy(told, fs) ==
  /\ told \in [0..Len(fs) -> Tale] /\ told[0] = TaleStart
  /\ \A i \in 1..Len(fs) : told[i] = TaleAfter(told[i - 1], fs[i])

LEMMA ToldIs ==
  ASSUME NEW fs \in Seq(Frame)
  PROVE  ToldBy(Told(fs), fs)
<1> DEFINE n == Len(fs)
           step == [i \in 1..n |-> [x \in Tale |-> TaleAfter(x, fs[i])]]
           told == CHOOSE t : t = [k \in 0..n |-> IF k = 0 THEN TaleStart
                                                 ELSE TaleAfter(t[k - 1], fs[k])]
<1>1. n \in Nat /\ \A i \in 1..n : fs[i] \in Frame
  OBVIOUS
<1>2. step \in [1..n -> [Tale -> Tale]]
  BY <1>1, TaleKept
<1>3. \E f : Follows(f, n, Tale, TaleStart, step)
  <2>1. TaleStart \in Tale
    BY DEF TaleStart, Tale, Message, Ops, Bits
  <2> HIDE DEF step, n
  <2>2. QED BY <1>1, <1>2, <2>1, Iterates
<1>4. PICK f \in [0..n -> Tale] : f[0] = TaleStart /\ \A i \in 1..n : f[i] = step[i][f[i - 1]]
  BY <1>3 DEF Follows
<1>5. \A i \in 0..n : i # 0 => f[i] = TaleAfter(f[i - 1], fs[i])
  <2>1. ASSUME NEW i \in 0..n, i # 0  PROVE f[i] = TaleAfter(f[i - 1], fs[i])
    <3>1. i \in 1..n /\ i - 1 \in 0..n
      BY <1>1, <2>1
    <3>2. f[i - 1] \in Tale
      BY <3>1
    <3>3. f[i] = step[i][f[i - 1]] /\ step[i][f[i - 1]] = TaleAfter(f[i - 1], fs[i])
      BY <1>4, <3>1, <3>2
    <3>4. QED BY <3>3
  <2>2. QED BY <2>1
<1>6. f = [k \in 0..n |-> IF k = 0 THEN TaleStart ELSE TaleAfter(f[k - 1], fs[k])]
  BY <1>4, <1>5
<1>7. told = [k \in 0..n |-> IF k = 0 THEN TaleStart ELSE TaleAfter(told[k - 1], fs[k])]
  BY <1>6
<1>8. Told(fs) = told
  BY DEF Told, TaleStart, TaleAfter, AtAfter, Own
<1> HIDE DEF told, n
<1>9. told[0] = TaleStart /\ \A i \in 1..n : told[i] = TaleAfter(told[i - 1], fs[i])
  BY <1>1, <1>7
<1>10. \A i \in 0..n : told[i] \in Tale
  <2> DEFINE G == {i \in Nat : i <= n => told[i] \in Tale}
  <2>1. 0 \in G
    BY <1>4, <1>9
  <2>2. ASSUME NEW i \in 0..n, i \in G, i < n  PROVE i + 1 \in G
    <3>1. i + 1 \in 1..n /\ told[i] \in Tale /\ (i + 1) - 1 = i
      BY <1>1, <2>2
    <3>2. told[i + 1] = TaleAfter(told[i], fs[i + 1]) /\ fs[i + 1] \in Frame
      BY <1>1, <1>9, <3>1
    <3>3. told[i + 1] \in Tale
      BY <3>1, <3>2, TaleKept
    <3>4. QED BY <2>2, <3>3
  <2>3. \A i \in 0..n : i \in G
    <3> HIDE DEF G
    <3>1. QED BY <1>1, <2>1, <2>2, Reached
  <2>4. QED BY <2>3
<1>11. told \in [0..n -> Tale]
  BY <1>7, <1>10
<1>12. QED BY <1>8, <1>9, <1>11 DEF ToldBy, n

\* What a frame more does not change.
LEMMA ToldAppend ==
  ASSUME NEW fs \in Seq(Frame), NEW f \in Frame, NEW k \in 0..Len(fs)
  PROVE  Told(Append(fs, f))[k] = Told(fs)[k]
<1>1. PICK gs : gs = Append(fs, f)
  OBVIOUS
<1>2. PICK n \in Nat : n = Len(fs)
  OBVIOUS
<1>3. gs \in Seq(Frame) /\ Len(gs) = n + 1 /\ \A i \in 1..n : gs[i] = fs[i]
  BY <1>1, <1>2
<1>4. PICK t, u : t = Told(fs) /\ u = Told(gs)
  OBVIOUS
<1>5. t[0] = TaleStart /\ \A i \in 1..n : t[i] = TaleAfter(t[i - 1], fs[i])
  BY <1>2, <1>4, ToldIs DEF ToldBy
<1>6. u[0] = TaleStart /\ \A i \in 1..(n + 1) : u[i] = TaleAfter(u[i - 1], gs[i])
  BY <1>3, <1>4, ToldIs DEF ToldBy
<1> DEFINE G == {i \in Nat : i <= n => u[i] = t[i]}
<1>7. 0 \in G
  BY <1>5, <1>6
<1>8. ASSUME NEW i \in 0..n, i \in G, i < n  PROVE i + 1 \in G
  <2>1. i + 1 \in 1..n /\ i + 1 \in 1..(n + 1) /\ (i + 1) - 1 = i /\ u[i] = t[i]
    BY <1>8
  <2>2. PICK j : j = i + 1
    OBVIOUS
  <2>3. u[j] = TaleAfter(u[j - 1], gs[j]) /\ t[j] = TaleAfter(t[j - 1], fs[j]) /\ gs[j] = fs[j]
    BY <1>3, <1>5, <1>6, <2>1, <2>2
  <2>4. u[j] = t[j]
    BY <2>1, <2>2, <2>3
  <2>5. QED BY <1>8, <2>2, <2>4
<1>9. \A i \in 0..n : i \in G
  <2> HIDE DEF G
  <2>1. QED BY <1>7, <1>8, Reached
<1>10. k \in 0..n
  BY <1>2
<1>11. u[k] = t[k]
  BY <1>9, <1>10
<1>12. QED BY <1>1, <1>4, <1>11

\* What has been told stays told.
Begins(s, t) == Len(s) <= Len(t) /\ \A i \in 1..Len(s) : s[i] = t[i]

LEMMA ToldGrows ==
  ASSUME NEW fs \in Seq(Frame), NEW k \in 0..Len(fs)
  PROVE  IsPrefix(Told(fs)[k].messages, Messages(fs))
<1>1. PICK n \in Nat : n = Len(fs)
  OBVIOUS
<1>2. PICK t : t = Told(fs)
  OBVIOUS
<1>3. t \in [0..n -> Tale] /\ \A i \in 1..n : t[i] = TaleAfter(t[i - 1], fs[i])
  BY <1>1, <1>2, ToldIs DEF ToldBy
<1>4. \A i \in 0..n : t[i].messages \in Seq(Message)
  BY <1>3 DEF Tale
<1> DEFINE G == {i \in Nat : i >= k /\ i <= n => Begins(t[k].messages, t[i].messages)}
<1>5. ASSUME NEW i \in 1..n  PROVE Begins(t[i - 1].messages, t[i].messages)
  <2>1. i - 1 \in 0..n /\ t[i - 1].messages \in Seq(Message)
    BY <1>4
  <2>2. t[i] = TaleAfter(t[i - 1], fs[i])
    BY <1>3
  <2>3. t[i].messages = t[i - 1].messages
        \/ \E x : t[i].messages = Append(t[i - 1].messages, x)
    <3>1. CASE ~fs[i].fin
      BY <2>2, <3>1 DEF TaleAfter
    <3>2. CASE fs[i].fin
      <4>1. t[i].messages = Append(t[i - 1].messages, IF Control(fs[i]) THEN Own(fs[i])
                                                       ELSE AtAfter(t[i - 1], fs[i]))
        BY <2>2, <3>2 DEF TaleAfter
      <4>2. QED BY <4>1
    <3>3. QED BY <3>1, <3>2
  <2>4. CASE t[i].messages = t[i - 1].messages
    BY <2>1, <2>4 DEF Begins
  <2>5. CASE \E x : t[i].messages = Append(t[i - 1].messages, x)
    BY <2>1, <2>5 DEF Begins
  <2>6. QED BY <2>3, <2>4, <2>5
<1>6. k \in 0..n
  BY <1>1
<1>7. Begins(t[k].messages, t[k].messages)
  BY <1>4, <1>6 DEF Begins
<1>8. 0 \in G
  BY <1>6, <1>7
<1>9. ASSUME NEW i \in 0..n, i \in G, i < n  PROVE i + 1 \in G
  <2>1. CASE i < k
    <3>1. i + 1 = k \/ ~(i + 1 >= k)
      BY <1>6, <2>1
    <3>2. QED BY <1>7, <1>9, <3>1
  <2>2. CASE i >= k
    <3>1. Begins(t[k].messages, t[i].messages)
      BY <1>9, <2>2
    <3>2. i + 1 \in 1..n /\ (i + 1) - 1 = i
      BY <1>9
    <3>3. Begins(t[i].messages, t[i + 1].messages)
      BY <1>5, <3>2
    <3>4. t[k].messages \in Seq(Message) /\ t[i].messages \in Seq(Message)
          /\ t[i + 1].messages \in Seq(Message)
      BY <1>4, <1>6, <3>2
    <3>5. Begins(t[k].messages, t[i + 1].messages)
      <4>1. PICK a \in Seq(Message), b \in Seq(Message), c \in Seq(Message) :
              a = t[k].messages /\ b = t[i].messages /\ c = t[i + 1].messages
        BY <3>4
      <4>2. Len(a) \in Nat /\ Len(b) \in Nat /\ Len(c) \in Nat
        OBVIOUS
      <4>3. Len(a) <= Len(b) /\ Len(b) <= Len(c)
        BY <3>1, <3>3, <4>1 DEF Begins
      <4>4. \A j \in 1..Len(a) : j \in 1..Len(b) /\ a[j] = b[j]
        BY <3>1, <4>1, <4>2, <4>3 DEF Begins
      <4>5. \A j \in 1..Len(b) : b[j] = c[j]
        BY <3>3, <4>1 DEF Begins
      <4>6. Begins(a, c)
        BY <4>2, <4>3, <4>4, <4>5 DEF Begins
      <4>7. QED BY <4>1, <4>6
    <3>6. QED BY <1>9, <3>5
  <2>3. QED BY <1>6, <2>1, <2>2
<1>10. n \in G
  <2> HIDE DEF G
  <2>1. \A i \in 0..n : i \in G
    BY <1>8, <1>9, Reached
  <2>2. QED BY <2>1
<1>11. Begins(t[k].messages, t[n].messages)
  BY <1>6, <1>10
<1>12. PICK a \in Seq(Message), b \in Seq(Message) : a = t[k].messages /\ b = t[n].messages
  BY <1>4, <1>6
<1>13. Len(a) <= Len(b) /\ \A i \in 1..Len(a) : a[i] = b[i]
  BY <1>11, <1>12 DEF Begins
<1>14. SubSeq(a, 1, Len(a)) = a /\ SubSeq(b, 1, Len(a)) = a
  <2>1. Len(a) \in Nat /\ 0 \in Nat /\ 0 + Len(a) = Len(a) /\ 0 + 1 = 1
        /\ \A i \in 1..Len(a) : 0 + i = i
    OBVIOUS
  <2>2. SubSeq(b, 0 + 1, 0 + Len(a)) = a
    BY <1>13, <2>1, SliceIs
  <2>3. QED BY <2>1, <2>2
<1>15. IsPrefix(a, b)
  BY <1>13, <1>14 DEF IsPrefix
<1>16. QED BY <1>1, <1>2, <1>12, <1>15 DEF Messages

-----------------------------------------------------------------------------
(* What one frame adds *)

LegalAt(fs, i) ==
  IF Control(fs[i]) THEN fs[i].fin /\ Len(fs[i].data) < Short
  ELSE (fs[i].opcode = Continuation) = Unfinished(fs, i - 1)

LEMMA LegalIs ==
  ASSUME NEW fs \in Seq(Frame)
  PROVE  Legal(fs) <=> \A i \in 1..Len(fs) : LegalAt(fs, i)
<1>1. DOMAIN fs = 1..Len(fs)
  OBVIOUS
<1>2. Legal(fs) <=> \A i \in DOMAIN fs : LegalAt(fs, i)
  BY DEF Legal, LegalAt
<1>3. QED BY <1>1, <1>2

LEMMA OpenStep ==
  ASSUME NEW fs, NEW k \in Nat, k # 0
  PROVE  Unfinished(fs, k) <=> IF Control(fs[k]) THEN Unfinished(fs, k - 1) ELSE ~fs[k].fin
<1>1. \A j : j \in 1..k <=> j \in 1..(k - 1) \/ j = k
  OBVIOUS
<1>2. \A j \in 1..(k - 1) : \A i : i \in (j + 1)..k <=> i \in (j + 1)..(k - 1) \/ i = k
  OBVIOUS
<1>3. \A i : i \notin (k + 1)..k
  OBVIOUS
<1>4. CASE Control(fs[k])
  <2>1. ASSUME NEW j \in 1..(k - 1)
        PROVE  (\A i \in (j + 1)..k : Control(fs[i])) <=> \A i \in (j + 1)..(k - 1) : Control(fs[i])
    BY <1>2, <1>4
  <2>2. Unfinished(fs, k) <=> \E j \in 1..(k - 1) : ~Control(fs[j]) /\ ~fs[j].fin
                                              /\ \A i \in (j + 1)..k : Control(fs[i])
    BY <1>1, <1>4 DEF Unfinished
  <2>3. QED BY <1>4, <2>1, <2>2 DEF Unfinished
<1>5. CASE ~Control(fs[k])
  <2>1. ASSUME NEW j \in 1..(k - 1)  PROVE ~ \A i \in (j + 1)..k : Control(fs[i])
    BY <1>2, <1>5
  <2>2. k \in 1..k
    OBVIOUS
  <2>3. QED BY <1>1, <1>3, <1>5, <2>1, <2>2 DEF Unfinished
<1>6. QED BY <1>4, <1>5

LEMMA OpenNone == \A fs : ~Unfinished(fs, 0)
  BY DEF Unfinished

LEMMA OpenSame ==
  ASSUME NEW fs, NEW gs, NEW k \in Nat, \A i \in 1..k : gs[i] = fs[i]
  PROVE  Unfinished(gs, k) <=> Unfinished(fs, k)
<1>1. \A j \in 1..k : \A i \in (j + 1)..k : i \in 1..k
  OBVIOUS
<1>2. ASSUME NEW j \in 1..k
      PROVE  (\A i \in (j + 1)..k : Control(gs[i])) <=> \A i \in (j + 1)..k : Control(fs[i])
  BY <1>1
<1>3. \A j \in 1..k : (Control(gs[j]) <=> Control(fs[j])) /\ (gs[j].fin <=> fs[j].fin)
  OBVIOUS
<1>4. QED BY <1>2, <1>3 DEF Unfinished

LEMMA LegalSame ==
  ASSUME NEW fs, NEW gs, NEW k \in Nat, k # 0, \A i \in 1..k : gs[i] = fs[i]
  PROVE  LegalAt(gs, k) <=> LegalAt(fs, k)
<1>1. k - 1 \in Nat /\ k \in 1..k /\ \A i \in 1..(k - 1) : i \in 1..k
  OBVIOUS
<1>2. Unfinished(gs, k - 1) <=> Unfinished(fs, k - 1)
  BY <1>1, OpenSame
<1>3. gs[k] = fs[k]
  BY <1>1
<1>4. Unfinished(gs, k - 1) \in BOOLEAN /\ Unfinished(fs, k - 1) \in BOOLEAN
  BY DEF Unfinished
<1>5. Unfinished(gs, k - 1) = Unfinished(fs, k - 1)
  BY <1>2, <1>4
<1>6. QED BY <1>3, <1>5 DEF LegalAt

Fragments == [opcode : Ops, parts : Seq(Bits)]
NoFragments == [opcode |-> -1, parts |-> <<>>]

\* The fragments kept are those of the message that the first i frames leave
\* unfinished.
Keeps(frag, fs, i) ==
  /\ frag \in Fragments
  /\ IF Unfinished(fs, i)
     THEN /\ frag.opcode # -1 /\ frag.opcode = Told(fs)[i].at.opcode
          /\ Merged(frag.parts) = Told(fs)[i].at.data
     ELSE frag.opcode = -1

Adds(d, fs, i) ==
  /\ d.kind = "heard" /\ d.frames \in Seq(Message) /\ Keeps(d.frag, fs, i)
  /\ Told(fs)[i].messages = Told(fs)[i - 1].messages \o d.frames

LEMMA Delivers ==
  ASSUME NEW fs \in Seq(Frame), NEW i \in 1..Len(fs), NEW frag, Keeps(frag, fs, i - 1),
         NEW raw, raw.fin = fs[i].fin, raw.opcode = fs[i].opcode, raw.data = fs[i].data,
         ~Bad(fs[i]), NEW d, d = Deliver(raw, frag)
  PROVE  IF LegalAt(fs, i) THEN Adds(d, fs, i) ELSE d.kind = "error"
<1>1. PICK f : f = fs[i]
  OBVIOUS
<1>2. f \in Frame /\ i \in Nat /\ i # 0 /\ i - 1 \in 0..Len(fs) /\ i \in 0..Len(fs)
  BY <1>1
<1>3. f.fin \in BOOLEAN /\ f.opcode \in {0, 1, 8} /\ f.data \in Bits
  BY <1>2, FrameIs DEF Bits
<1>4. PICK before, after : before = Told(fs)[i - 1] /\ after = Told(fs)[i]
  OBVIOUS
<1>5. before \in Tale /\ after = TaleAfter(before, f)
  BY <1>1, <1>2, <1>4, ToldIs DEF ToldBy
<1>6. before.at.opcode \in Ops /\ before.at.data \in Bits /\ before.messages \in Seq(Message)
  BY <1>5 DEF Tale, Message
<1>7. frag \in Fragments /\ frag.opcode \in Ops /\ frag.parts \in Seq(Bits)
  BY DEF Keeps, Fragments
<1>8. NoFragments \in Fragments /\ NoFragments.opcode = -1
  BY DEF NoFragments, Fragments, Ops
<1>9. Unfinished(fs, i) <=> IF Control(f) THEN Unfinished(fs, i - 1) ELSE ~f.fin
  BY <1>1, <1>2, OpenStep
<1>10. Unfinished(fs, i - 1) \in BOOLEAN
  BY DEF Unfinished
<1>11. IF Unfinished(fs, i - 1)
       THEN /\ frag.opcode # -1 /\ frag.opcode = before.at.opcode
            /\ Merged(frag.parts) = before.at.data
       ELSE frag.opcode = -1
  BY <1>4 DEF Keeps
<1>12. frag.opcode = -1 <=> ~Unfinished(fs, i - 1)
  BY <1>11
<1>13. Own(f) = [opcode |-> f.opcode, data |-> f.data] /\ Own(f) \in Message
  BY <1>3 DEF Own, Message, Ops
<1> DEFINE One(x) == [kind |-> "heard", frames |-> <<x>>, frag |-> NoFragments]
<1>14. CASE f.opcode = 8
  <2>1. Control(f) /\ f.fin /\ Size(f) < Short
    <3>1. Control(f)
      BY <1>14 DEF Control, Close
    <3>2. ~(Size(f) >= Short)
      BY <1>1, <3>1 DEF Bad
    <3>3. f.fin
      BY Zenon, <1>1, <3>1 DEF Bad
    <3>4. Size(f) \in Nat /\ Short \in Nat
      BY <1>2, FrameIs, FrameNumbers
    <3>5. QED BY <3>1, <3>2, <3>3, <3>4
  <2>2. LegalAt(fs, i)
    BY <1>1, <2>1 DEF LegalAt, Size
  <2>3. d = [kind |-> "heard", frames |-> <<Own(f)>>, frag |-> frag]
    BY <1>1, <1>13, <1>14 DEF Deliver, Close, Continuation
  <2>4. after = [at |-> before.at, messages |-> Append(before.messages, Own(f))]
    BY <1>5, <2>1 DEF TaleAfter, AtAfter
  <2>5. after.messages = before.messages \o <<Own(f)>>
    BY <1>6, <1>13, <2>4
  <2>6. Keeps(frag, fs, i)
    BY <1>4, <1>7, <1>9, <1>11, <2>1, <2>4 DEF Keeps
  <2>7. QED BY <1>4, <1>13, <2>2, <2>3, <2>5, <2>6 DEF Adds
<1>15. CASE f.opcode = 0
  <2>1. ~Control(f)
    BY <1>15 DEF Control, Close
  <2>2. LegalAt(fs, i) <=> Unfinished(fs, i - 1)
    BY <1>1, <1>10, <1>15, <2>1 DEF LegalAt, Continuation
  <2>3. CASE ~Unfinished(fs, i - 1)
    <3>1. d = Outcome("error")
      BY <1>1, <1>12, <1>15, <2>3 DEF Deliver, Close, Continuation
    <3>2. QED BY <2>2, <2>3, <3>1 DEF Outcome
  <2>4. CASE Unfinished(fs, i - 1)
    <3>1. PICK pieces : pieces = Append(frag.parts, f.data)
      OBVIOUS
    <3>2. pieces \in Seq(Bits) /\ Merged(pieces) = before.at.data \o f.data
      BY <1>3, <1>7, <1>11, <2>4, <3>1, MergedAppend
    <3>3. PICK now : now = [opcode |-> before.at.opcode, data |-> before.at.data \o f.data]
      OBVIOUS
    <3>4. now \in Message /\ now.opcode = before.at.opcode /\ now.data = before.at.data \o f.data
      <4>1. before.at.data \o f.data \in Bits
        BY <1>3, <1>6 DEF Bits
      <4>2. QED BY <1>6, <3>3, <4>1 DEF Message
    <3>5. AtAfter(before, f) = now
      BY <1>15, <2>1, <3>3 DEF AtAfter, Continuation
    <3>6. CASE f.fin
      <4>1. d = [kind |-> "heard", frames |-> <<[opcode |-> frag.opcode, data |-> Merged(pieces)]>>,
                 frag |-> NoFragments]
        BY <1>1, <1>12, <1>15, <2>4, <3>1, <3>6 DEF Deliver, Close, Continuation, NoFragments
      <4>2. [opcode |-> frag.opcode, data |-> Merged(pieces)] = now
        BY <1>11, <2>4, <3>2, <3>3
      <4>3. after = [at |-> now, messages |-> Append(before.messages, now)]
        BY <1>5, <2>1, <3>5, <3>6 DEF TaleAfter
      <4>4. after.messages = before.messages \o <<now>>
        <5>1. after.messages = Append(before.messages, now)
          BY <4>3
        <5>2. QED BY <1>6, <3>4, <5>1, AppendProperties
      <4>5. ~Unfinished(fs, i)
        BY <1>9, <2>1, <3>6
      <4>6. Keeps(NoFragments, fs, i)
        BY <1>8, <4>5 DEF Keeps
      <4>7. QED BY <1>4, <2>2, <2>4, <3>4, <4>1, <4>2, <4>4, <4>6 DEF Adds
    <3>7. CASE ~f.fin
      <4>1. d = [kind |-> "heard", frames |-> <<>>, frag |-> [frag EXCEPT !.parts = pieces]]
        BY <1>1, <1>12, <1>15, <2>4, <3>1, <3>7 DEF Deliver, Close, Continuation
      <4>2. PICK left : left = [frag EXCEPT !.parts = pieces]
        OBVIOUS
      <4>3. left \in Fragments /\ left.opcode = frag.opcode /\ left.parts = pieces
        BY <1>7, <3>2, <4>2 DEF Fragments
      <4>4. after = [at |-> now, messages |-> before.messages]
        BY <1>5, <3>5, <3>7 DEF TaleAfter
      <4>5. after.messages = before.messages \o <<>>
        BY <1>6, <4>4
      <4>6. Unfinished(fs, i)
        BY <1>9, <2>1, <3>7
      <4>7. Keeps(left, fs, i)
        <5>1. after.at = now
          BY <4>4
        <5>2. left.opcode # -1 /\ left.opcode = after.at.opcode
          BY <1>11, <2>4, <3>4, <4>3, <5>1
        <5>3. Merged(left.parts) = after.at.data
          BY <3>2, <3>4, <4>3, <5>1
        <5>4. QED BY <1>4, <4>3, <4>6, <5>2, <5>3 DEF Keeps
      <4>8. <<>> \in Seq(Message)
        OBVIOUS
      <4>9. d.kind = "heard" /\ d.frames = <<>> /\ d.frag = left
        BY <4>1, <4>2
      <4>10. Adds(d, fs, i)
        BY <1>4, <4>5, <4>7, <4>8, <4>9 DEF Adds
      <4>11. QED BY <2>2, <2>4, <4>10
    <3>8. QED BY <3>6, <3>7
  <2>5. QED BY <2>3, <2>4
<1>16. CASE f.opcode = 1
  <2>1. ~Control(f)
    BY <1>16 DEF Control, Close
  <2>2. LegalAt(fs, i) <=> ~Unfinished(fs, i - 1)
    BY <1>1, <1>10, <1>16, <2>1 DEF LegalAt, Continuation
  <2>3. CASE Unfinished(fs, i - 1)
    <3>1. d = Outcome("error")
      BY <1>1, <1>12, <1>16, <2>3 DEF Deliver, Close, Continuation
    <3>2. QED BY <2>2, <2>3, <3>1 DEF Outcome
  <2>4. CASE ~Unfinished(fs, i - 1)
    <3>1. AtAfter(before, f) = Own(f)
      BY <1>16, <2>1 DEF AtAfter, Continuation
    <3>2. CASE f.fin
      <4>1. d = [kind |-> "heard", frames |-> <<Own(f)>>, frag |-> frag]
        BY <1>1, <1>12, <1>13, <1>16, <2>4, <3>2 DEF Deliver, Close, Continuation
      <4>2. after = [at |-> Own(f), messages |-> Append(before.messages, Own(f))]
        BY <1>5, <2>1, <3>1, <3>2 DEF TaleAfter
      <4>3. after.messages = before.messages \o <<Own(f)>>
        BY <1>6, <1>13, <4>2
      <4>4. ~Unfinished(fs, i)
        BY <1>9, <2>1, <3>2
      <4>5. Keeps(frag, fs, i)
        BY <1>7, <1>11, <2>4, <4>4 DEF Keeps
      <4>6. QED BY <1>4, <1>13, <2>2, <2>4, <4>1, <4>3, <4>5 DEF Adds
    <3>3. CASE ~f.fin
      <4>1. PICK left : left = [opcode |-> f.opcode, parts |-> <<f.data>>]
        OBVIOUS
      <4>2. d = [kind |-> "heard", frames |-> <<>>, frag |-> left]
        BY <1>1, <1>12, <1>16, <2>4, <3>3, <4>1 DEF Deliver, Close, Continuation
      <4>3. <<f.data>> \in Seq(Bits) /\ Merged(<<f.data>>) = f.data
        BY <1>3, MergedOne
      <4>4. left \in Fragments /\ left.opcode = 1 /\ left.opcode # -1 /\ Merged(left.parts) = f.data
        BY <1>16, <4>1, <4>3 DEF Fragments, Ops
      <4>5. after = [at |-> Own(f), messages |-> before.messages]
        BY <1>5, <3>1, <3>3 DEF TaleAfter
      <4>6. after.messages = before.messages \o <<>>
        BY <1>6, <4>5
      <4>7. after.at.opcode = 1 /\ after.at.data = f.data
        BY <1>13, <1>16, <4>5
      <4>8. Unfinished(fs, i)
        BY <1>9, <2>1, <3>3
      <4>9. Keeps(left, fs, i)
        BY <1>4, <4>4, <4>7, <4>8 DEF Keeps
      <4>10. <<>> \in Seq(Message)
        OBVIOUS
      <4>11. d.kind = "heard" /\ d.frames = <<>> /\ d.frag = left
        BY <4>2
      <4>12. Adds(d, fs, i)
        BY <1>4, <4>6, <4>9, <4>10, <4>11 DEF Adds
      <4>13. QED BY <2>2, <2>4, <4>12
    <3>4. QED BY <3>2, <3>3
  <2>5. QED BY <2>3, <2>4
<1>17. QED BY <1>3, <1>14, <1>15, <1>16

-----------------------------------------------------------------------------
(* The bytes of the frames *)

\* bytes are the frames' bytes, and pos[k] of them those of the first k.
Laid(fs, bytes, pos) ==
  /\ bytes \in Seq(Nat) /\ pos \in [0..Len(fs) -> Nat] /\ pos[0] = 0 /\ pos[Len(fs)] = Len(bytes)
  /\ \A k \in 1..Len(fs) :
       /\ pos[k] = pos[k - 1] + Len(EncodeFrame(fs[k]))
       /\ \A j \in 1..Len(EncodeFrame(fs[k])) : bytes[pos[k - 1] + j] = EncodeFrame(fs[k])[j]

\* buf is what bytes have after the first a.
Part(buf, bytes, a) ==
  /\ buf \in Seq(Nat) /\ a \in Nat /\ a + Len(buf) <= Len(bytes)
  /\ \A j \in 1..Len(buf) : buf[j] = bytes[a + j]

LEMMA EncodedLen ==
  ASSUME NEW f \in Frame
  PROVE  /\ EncodeFrame(f) \in Seq(Nat) /\ Len(EncodeFrame(f)) \in Nat
         /\ Len(EncodeFrame(f)) = HeadSize(f) + Size(f)
         /\ Len(EncodeFrame(f)) >= 2
         /\ HeadSize(f) \in Nat /\ Size(f) \in Nat /\ HeadSize(f) >= 2 + LengthDigits(f)
<1>1. EncodeFrame(f) \in Seq(Nat) /\ Len(EncodeFrame(f)) = HeadSize(f) + Size(f)
  BY EncodeIs
<1>2. PICK p \in Nat, q \in Nat, z \in Nat :
        p = LengthDigits(f) /\ q = MaskSize(f) /\ z = Size(f)
  BY FrameIs
<1>3. HeadSize(f) = 2 + p + q
  BY <1>2 DEF HeadSize
<1>4. QED BY <1>1, <1>2, <1>3

LEMMA LaidWithin ==
  ASSUME NEW fs \in Seq(Frame), NEW bytes, NEW pos, Laid(fs, bytes, pos), NEW k \in 0..Len(fs)
  PROVE  pos[k] <= Len(bytes)
<1>1. PICK n \in Nat : n = Len(fs)
  OBVIOUS
<1>2. Len(bytes) \in Nat
  BY DEF Laid
<1>3. /\ pos \in [0..n -> Nat] /\ pos[n] = Len(bytes)
      /\ \A i \in 1..n : pos[i] = pos[i - 1] + Len(EncodeFrame(fs[i]))
  BY <1>1 DEF Laid
<1> DEFINE G == {j \in Nat : j <= n => pos[n - j] <= Len(bytes)}
<1>4. 0 \in G
  BY <1>2, <1>3
<1>5. ASSUME NEW j \in 0..n, j \in G, j < n  PROVE j + 1 \in G
  <2>1. PICK i \in 1..n : i = n - j
    BY <1>5
  <2>2. pos[i] <= Len(bytes) /\ i - 1 \in 0..n /\ n - (j + 1) = i - 1
    BY <1>5, <2>1
  <2>3. pos[i] = pos[i - 1] + Len(EncodeFrame(fs[i])) /\ fs[i] \in Frame
    BY <1>1, <1>3
  <2>4. Len(EncodeFrame(fs[i])) \in Nat /\ pos[i - 1] \in Nat /\ pos[i] \in Nat
    BY <1>3, <2>2, <2>3, EncodedLen
  <2>5. pos[i - 1] <= Len(bytes)
    BY <1>2, <2>2, <2>3, <2>4
  <2>6. QED BY <1>5, <2>2, <2>5
<1>6. \A j \in 0..n : j \in G
  <2> HIDE DEF G
  <2>1. QED BY <1>4, <1>5, Reached
<1>7. PICK i \in 0..n : i = n - k /\ n - i = k
  <2>1. n - k \in 0..n /\ n - (n - k) = k
    BY <1>1
  <2>2. QED BY <2>1
<1>8. i \in G
  BY <1>6
<1>9. QED BY <1>7, <1>8

LEMMA LaidAppend ==
  ASSUME NEW fs \in Seq(Frame), NEW f \in Frame, NEW bytes, NEW pos, Laid(fs, bytes, pos)
  PROVE  \E more : /\ Laid(Append(fs, f), bytes \o EncodeFrame(f), more)
                   /\ \A k \in 0..Len(fs) : more[k] = pos[k]
<1>1. PICK n \in Nat : n = Len(fs)
  OBVIOUS
<1>2. PICK e : e = EncodeFrame(f)
  OBVIOUS
<1>3. PICK gs : gs = Append(fs, f)
  OBVIOUS
<1>4. e \in Seq(Nat) /\ Len(e) \in Nat /\ bytes \in Seq(Nat) /\ Len(bytes) \in Nat
  BY <1>2, EncodedLen DEF Laid
<1>5. PICK all : all = bytes \o e
  OBVIOUS
<1>6. JoinedFrom(all, Nat, bytes, e)
  BY <1>4, <1>5, Joined
<1>7. PICK more : more = [k \in 0..(n + 1) |-> IF k <= n THEN pos[k] ELSE Len(bytes) + Len(e)]
  OBVIOUS
<1>8. gs \in Seq(Frame) /\ Len(gs) = n + 1 /\ gs[n + 1] = f /\ \A k \in 1..n : gs[k] = fs[k]
  BY <1>1, <1>3
<1>9. /\ pos \in [0..n -> Nat] /\ pos[0] = 0 /\ pos[n] = Len(bytes)
      /\ \A k \in 1..n : pos[k] = pos[k - 1] + Len(EncodeFrame(fs[k]))
      /\ \A k \in 1..n : \A j \in 1..Len(EncodeFrame(fs[k])) :
           bytes[pos[k - 1] + j] = EncodeFrame(fs[k])[j]
  BY <1>1 DEF Laid
<1>10. \A k \in 0..n : more[k] = pos[k]
  BY <1>7
<1>11. more[n + 1] = Len(bytes) + Len(e)
  BY <1>7
<1>12. more \in [0..(n + 1) -> Nat]
  <2>1. \A k \in 0..(n + 1) : k \in 0..n \/ k = n + 1
    OBVIOUS
  <2>2. \A k \in 0..(n + 1) : more[k] \in Nat
    BY <1>4, <1>9, <1>10, <1>11, <2>1
  <2>3. QED BY <1>7, <2>2
<1>13. all \in Seq(Nat) /\ Len(all) = Len(bytes) + Len(e)
  BY <1>6 DEF JoinedFrom
<1>14. \A k \in 0..n : pos[k] <= Len(bytes)
  <2>1. ASSUME NEW k \in 0..n  PROVE pos[k] <= Len(bytes)
    BY <1>1, LaidWithin
  <2>2. QED BY <2>1
<1>15. ASSUME NEW k \in 1..(n + 1)
       PROVE  /\ more[k] = more[k - 1] + Len(EncodeFrame(gs[k]))
              /\ \A j \in 1..Len(EncodeFrame(gs[k])) :
                   all[more[k - 1] + j] = EncodeFrame(gs[k])[j]
  <2>1. CASE k \in 1..n
    <3>1. k \in 0..n /\ k - 1 \in 0..n /\ gs[k] = fs[k] /\ more[k] = pos[k] /\ more[k - 1] = pos[k - 1]
      BY <1>8, <1>10, <2>1
    <3>2. pos[k] = pos[k - 1] + Len(EncodeFrame(fs[k]))
      BY <1>9, <2>1
    <3>3. ASSUME NEW j \in 1..Len(EncodeFrame(fs[k]))
          PROVE  all[pos[k - 1] + j] = EncodeFrame(fs[k])[j]
      <4>1. bytes[pos[k - 1] + j] = EncodeFrame(fs[k])[j]
        BY <1>9, <2>1
      <4>2. fs[k] \in Frame
        BY <1>1, <2>1
      <4>3. PICK z \in Nat : z = Len(EncodeFrame(fs[k]))
        BY <4>2, EncodedLen
      <4>4. pos[k - 1] \in Nat /\ pos[k] <= Len(bytes)
        BY <1>9, <1>14, <3>1
      <4>5. pos[k - 1] + j \in 1..Len(bytes)
        BY <1>4, <3>2, <4>3, <4>4
      <4>6. all[pos[k - 1] + j] = bytes[pos[k - 1] + j]
        BY <1>6, <4>5 DEF JoinedFrom
      <4>7. QED BY <4>1, <4>6
    <3>4. QED BY <3>1, <3>2, <3>3
  <2>2. CASE k = n + 1
    <3>1. k - 1 = n /\ n \in 0..n /\ gs[k] = f /\ more[k] = Len(bytes) + Len(e)
          /\ more[n] = Len(bytes)
      BY <1>8, <1>9, <1>10, <1>11, <2>2
    <3>2. \A j \in 1..Len(e) : all[Len(bytes) + j] = e[j]
      BY <1>6 DEF JoinedFrom
    <3>3. QED BY <1>2, <3>1, <3>2
  <2>3. QED BY <2>1, <2>2
<1>16. more[0] = 0
  BY <1>9, <1>10
<1>17. Laid(gs, all, more)
  BY <1>8, <1>11, <1>12, <1>13, <1>15, <1>16 DEF Laid
<1>18. QED BY <1>1, <1>2, <1>3, <1>5, <1>10, <1>17

\* Where a frame begins, buf reads it.
LEMMA ReadsFrame ==
  ASSUME NEW fs \in Seq(Frame), NEW bytes, NEW pos, Laid(fs, bytes, pos),
         NEW a, NEW buf, Part(buf, bytes, a), NEW i \in 1..Len(fs),
         NEW off \in Nat, pos[i - 1] = a + off, off <= Len(buf)
  PROVE  TryParse(buf, off) = ParsedAs(buf, off, fs[i])
<1>1. PICK e : e = EncodeFrame(fs[i])
  OBVIOUS
<1>2. fs[i] \in Frame
  OBVIOUS
<1>3. Len(e) \in Nat /\ buf \in Seq(Nat) /\ Len(buf) \in Nat /\ a \in Nat
  <2>1. Len(e) \in Nat
    BY <1>1, <1>2, EncodedLen
  <2>2. buf \in Seq(Nat) /\ a \in Nat
    BY DEF Part
  <2>3. QED BY <2>1, <2>2
<1>4. \A j \in 1..Len(e) : bytes[pos[i - 1] + j] = e[j]
  BY <1>1 DEF Laid
<1>5. ASSUME NEW j \in 1..Len(e), off + j <= Len(buf)  PROVE buf[off + j] = e[j]
  <2>1. PICK l : l = off + j
    OBVIOUS
  <2>2. l \in 1..Len(buf) /\ a + l = (a + off) + j
    BY <1>3, <1>5, <2>1
  <2>3. buf[l] = bytes[a + l]
    BY <2>2 DEF Part
  <2>4. bytes[(a + off) + j] = e[j]
    BY <1>4
  <2>5. QED BY <2>1, <2>2, <2>3, <2>4
<1>6. Reads(buf, off, e)
  BY <1>5 DEF Reads
<1>7. QED BY <1>1, <1>2, <1>3, <1>6, ParseIs

LEMMA NothingLeft ==
  ASSUME NEW buf \in Seq(Nat)
  PROVE  TryParse(buf, Len(buf)).kind = "more"
<1>1. Len(buf) - Len(buf) < 2
  OBVIOUS
<1>2. TryParse(buf, Len(buf)) = Outcome("more")
  BY <1>1 DEF TryParse
<1>3. QED BY <1>2 DEF Outcome

-----------------------------------------------------------------------------
(* The loop of push() *)

HeardTo(fs, i, heard, frag) ==
  /\ \A j \in 1..i : LegalAt(fs, j)
  /\ Keeps(frag, fs, i) /\ heard = Told(fs)[i].messages

Turning == [off : Nat, frag : Fragments, heard : Seq(Message), at : {"parsing", "more"}]

\* After k turns over buf, which began after the first m frames.
Turned(fs, pos, m, buf, heard, k, s) ==
  IF s.at = "error" THEN ~Legal(fs)
  ELSE /\ s \in Turning
       /\ \E i \in m..Len(fs) :
            /\ HeardTo(fs, i, heard \o s.heard, s.frag)
            /\ pos[i] = pos[m] + s.off /\ s.off <= Len(buf)
            /\ s.at = "parsing" => k <= s.off
            /\ s.at = "more" => TryParse(buf, s.off).kind = "more"

LEMMA Regrouped ==
  ASSUME NEW S, NEW a \in Seq(S), NEW b \in Seq(S), NEW c \in Seq(S)
  PROVE  a \o (b \o c) = (a \o b) \o c
  OBVIOUS

LEMMA TurnKeeps ==
  ASSUME NEW fs \in Seq(Frame), NEW bytes, NEW pos, Laid(fs, bytes, pos),
         NEW m \in 0..Len(fs), NEW buf, Part(buf, bytes, pos[m]),
         NEW heard \in Seq(Message), NEW k \in Nat, NEW s,
         Turned(fs, pos, m, buf, heard, k, s)
  PROVE  Turned(fs, pos, m, buf, heard, k + 1, Turn(buf, s))
<1>1. PICK n \in Nat : n = Len(fs)
  OBVIOUS
<1>2. buf \in Seq(Nat) /\ Len(buf) \in Nat /\ pos[m] \in Nat /\ pos[m] + Len(buf) <= Len(bytes)
      /\ pos \in [0..n -> Nat] /\ pos[n] = Len(bytes) /\ Len(bytes) \in Nat
  BY <1>1 DEF Part, Laid
<1>3. CASE s.at = "error"
  BY <1>3 DEF Turn, Turned
<1>4. CASE s.at = "more"
  <2>1. Turn(buf, s) = s
    BY <1>4 DEF Turn
  <2>2. s.at # "error" /\ s.at # "parsing"
    BY <1>4
  <2>3. QED BY <2>1, <2>2 DEF Turned
<1>5. CASE s.at = "parsing"
  <2>1. s \in Turning /\ s.at # "error" /\ s.at # "more"
    BY <1>5 DEF Turned
  <2>2. PICK i \in m..n :
          /\ HeardTo(fs, i, heard \o s.heard, s.frag)
          /\ pos[i] = pos[m] + s.off /\ s.off <= Len(buf) /\ k <= s.off
    BY <1>1, <1>5, <2>1 DEF Turned
  <2>3. s.off \in Nat /\ s.frag \in Fragments /\ s.heard \in Seq(Message)
    BY <2>1 DEF Turning
  <2>4. PICK off \in Nat : off = s.off
    BY <2>3
  <2>5. PICK parsed : parsed = TryParse(buf, off)
    OBVIOUS
  <2>6. PICK t : t = Turn(buf, s)
    OBVIOUS
  <2>7. CASE parsed.kind = "more"
    <3>1. t = [s EXCEPT !.at = "more"]
      BY <1>5, <2>4, <2>5, <2>6, <2>7 DEF Turn
    <3>2. t \in Turning /\ t.at = "more" /\ t.off = off /\ t.frag = s.frag /\ t.heard = s.heard
      BY <2>1, <2>4, <3>1 DEF Turning
    <3>3. t.at # "error" /\ t.at # "parsing" /\ TryParse(buf, t.off).kind = "more"
      BY <2>5, <2>7, <3>2
    <3>4. \E j \in m..Len(fs) :
            /\ HeardTo(fs, j, heard \o t.heard, t.frag)
            /\ pos[j] = pos[m] + t.off /\ t.off <= Len(buf)
      BY <1>1, <2>2, <2>4, <3>2
    <3>5. Turned(fs, pos, m, buf, heard, k + 1, t)
      BY <3>2, <3>3, <3>4 DEF Turned
    <3>6. QED BY <2>6, <3>5
  <2>8. CASE i = n
    <3>1. off = Len(buf)
      BY <1>2, <2>2, <2>4, <2>8
    <3>2. parsed.kind = "more"
      BY <1>2, <2>5, <3>1, NothingLeft
    <3>3. QED BY <2>7, <3>2
  <2>9. CASE i # n /\ parsed.kind # "more"
    <3>1. PICK l \in 1..n : l = i + 1 /\ l - 1 = i
      BY <1>1, <2>2, <2>9
    <3>2. PICK f : f = fs[l]
      OBVIOUS
    <3>3. f \in Frame
      BY <1>1, <3>2
    <3>4. parsed = ParsedAs(buf, off, f)
      <4>1. l \in 1..Len(fs) /\ pos[l - 1] = pos[m] + off /\ off <= Len(buf)
        BY <1>1, <2>2, <2>4, <3>1
      <4>2. TryParse(buf, off) = ParsedAs(buf, off, fs[l])
        BY <4>1, ReadsFrame
      <4>3. QED BY <2>5, <3>2, <4>2
    <3>5. PICK z \in Nat : z = HeadSize(f) + Size(f) /\ z >= 2 /\ Len(EncodeFrame(f)) = z
      BY <3>3, EncodedLen
    <3>6. ~Legal(fs) \/ LegalAt(fs, l)
      BY <1>1, LegalIs
    <3>7. CASE Bad(f)
      <4>1. parsed = Outcome("error")
        BY <2>9, <3>4, <3>7 DEF ParsedAs, Outcome
      <4>2. t = [s EXCEPT !.at = "error"]
        BY <1>5, <2>4, <2>5, <2>6, <4>1 DEF Turn, Outcome
      <4>3. t.at = "error"
        BY <2>1, <4>2 DEF Turning
      <4>4. ~LegalAt(fs, l)
        <5>1. Control(f) /\ (~f.fin \/ Size(f) >= Short)
          BY <3>7 DEF Bad
        <5>2. ~(f.fin /\ Size(f) < Short)
          BY <3>3, <5>1, FrameIs, FrameNumbers
        <5>3. QED BY <3>2, <5>1, <5>2 DEF LegalAt, Size
      <4>5. QED BY <2>6, <3>6, <4>3, <4>4 DEF Turned
    <3>8. CASE ~Bad(f)
      <4>1. /\ parsed = [kind |-> "frame", fin |-> f.fin, opcode |-> f.opcode,
                         next |-> off + HeadSize(f) + Size(f), data |-> f.data]
            /\ ~(Len(buf) - off < HeadSize(f) + Size(f))
        BY <2>9, <3>4, <3>8 DEF ParsedAs, Outcome
      <4>2. parsed.kind = "frame" /\ parsed.fin = f.fin /\ parsed.opcode = f.opcode
            /\ parsed.data = f.data /\ parsed.next = off + HeadSize(f) + Size(f)
        BY <4>1
      <4>3. parsed.next = off + z /\ off + z \in Nat /\ off + z <= Len(buf)
        <5>1. HeadSize(f) \in Nat /\ Size(f) \in Nat
          BY <3>3, EncodedLen
        <5>2. off + HeadSize(f) + Size(f) = off + z
          BY <3>5, <5>1
        <5>3. ~(Len(buf) - off < z)
          BY <3>5, <4>1
        <5>4. QED BY <1>2, <4>2, <5>2, <5>3
      <4>4. PICK d : d = Deliver(parsed, s.frag)
        OBVIOUS
      <4>5. IF LegalAt(fs, l) THEN Adds(d, fs, l) ELSE d.kind = "error"
        <5>1. Keeps(s.frag, fs, l - 1)
          BY <2>2, <3>1 DEF HeardTo
        <5>2. QED BY <1>1, <3>2, <3>8, <4>2, <4>4, <5>1, Delivers
      <4>6. CASE ~LegalAt(fs, l)
        <5>1. t = [s EXCEPT !.at = "error"]
          BY <1>5, <2>4, <2>5, <2>6, <4>2, <4>4, <4>5, <4>6 DEF Turn
        <5>2. t.at = "error"
          BY <2>1, <5>1 DEF Turning
        <5>3. QED BY <2>6, <3>6, <4>6, <5>2 DEF Turned
      <4>7. CASE LegalAt(fs, l)
        <5>1. /\ d.kind = "heard" /\ d.frames \in Seq(Message) /\ Keeps(d.frag, fs, l)
              /\ Told(fs)[l].messages = Told(fs)[i].messages \o d.frames
          BY <3>1, <4>5, <4>7 DEF Adds
        <5>2. t = [off |-> off + z, frag |-> d.frag, heard |-> s.heard \o d.frames, at |-> "parsing"]
          BY <1>5, <2>4, <2>5, <2>6, <4>2, <4>3, <4>4, <5>1 DEF Turn
        <5>3. d.frag \in Fragments /\ s.heard \o d.frames \in Seq(Message)
          BY <2>3, <5>1 DEF Keeps
        <5>4. t \in Turning /\ t.at = "parsing" /\ t.off = off + z /\ t.frag = d.frag
              /\ t.heard = s.heard \o d.frames
          BY <4>3, <5>2, <5>3 DEF Turning
        <5>5. heard \o t.heard = Told(fs)[l].messages
          <6>1. heard \o s.heard = Told(fs)[i].messages
            BY <2>2 DEF HeardTo
          <6>2. heard \o (s.heard \o d.frames) = (heard \o s.heard) \o d.frames
            <7>1. PICK a \in Seq(Message), b \in Seq(Message), c \in Seq(Message) :
                    a = heard /\ b = s.heard /\ c = d.frames
              BY <2>3, <5>1
            <7>2. a \o (b \o c) = (a \o b) \o c
              BY Regrouped
            <7>3. QED BY <7>1, <7>2
          <6>3. QED BY <5>1, <5>4, <6>1, <6>2
        <5>6. \A j \in 1..l : LegalAt(fs, j)
          <6>1. \A j \in 1..l : j \in 1..i \/ j = l
            BY <3>1, <2>2
          <6>2. QED BY <2>2, <4>7, <6>1 DEF HeardTo
        <5>7. HeardTo(fs, l, heard \o t.heard, t.frag)
          BY <5>1, <5>4, <5>5, <5>6 DEF HeardTo
        <5>8. pos[l] = pos[m] + t.off
          <6>1. pos[l] = pos[i] + z
            BY <1>1, <3>1, <3>2, <3>5 DEF Laid
          <6>2. PICK x \in Nat : x = pos[m]
            BY <1>2
          <6>3. pos[i] = x + off
            BY <2>2, <2>4, <6>2
          <6>4. pos[l] = x + (off + z)
            BY <6>1, <6>3
          <6>5. QED BY <5>4, <6>2, <6>4
        <5>9. k + 1 <= t.off /\ t.off <= Len(buf)
          BY <2>2, <2>4, <3>5, <4>3, <5>4
        <5>10. l \in m..Len(fs)
          BY <1>1, <2>2, <3>1
        <5>11. t.at # "error" /\ t.at # "more"
          BY <5>4
        <5>12. Turned(fs, pos, m, buf, heard, k + 1, t)
          BY <5>4, <5>7, <5>8, <5>9, <5>10, <5>11 DEF Turned
        <5>13. QED BY <2>6, <5>12
      <4>8. QED BY <4>6, <4>7
    <3>9. QED BY <3>7, <3>8
  <2>10. QED BY <2>7, <2>8, <2>9
<1>6. s.at \in {"error", "more", "parsing"}
  BY DEF Turned, Turning
<1>7. QED BY <1>3, <1>4, <1>5, <1>6

FirstTurn(frag) == [off |-> 0, frag |-> frag, heard |-> <<>>, at |-> "parsing"]

LoopBy(turns, buf, frag) ==
  /\ turns = Turns(buf, frag) /\ turns[0] = FirstTurn(frag)
  /\ \A i \in 1..Len(buf) : turns[i] = Turn(buf, turns[i - 1])

LEMMA LoopIs ==
  ASSUME NEW buf \in Seq(Nat), NEW frag
  PROVE  \E turns : LoopBy(turns, buf, frag)
<1>1. PICK n \in Nat : n = Len(buf)
  OBVIOUS
<1> DEFINE Is(f, j) == f = [k \in 0..j |-> IF k = 0 THEN FirstTurn(frag) ELSE Turn(buf, f[k - 1])]
           G == {j \in Nat : \E f : Is(f, j)}
<1>2. 0 \in G
  <2>1. Is([k \in 0..0 |-> FirstTurn(frag)], 0)
    OBVIOUS
  <2>2. QED BY <2>1
<1>3. ASSUME NEW j \in 0..n, j \in G, j < n  PROVE j + 1 \in G
  <2>1. PICK f : Is(f, j)
    BY <1>3
  <2>2. PICK g : g = [k \in 0..(j + 1) |-> IF k <= j THEN f[k] ELSE Turn(buf, f[j])]
    OBVIOUS
  <2>3. \A k \in 0..j : g[k] = f[k]
    BY <2>2
  <2>4. ASSUME NEW k \in 0..(j + 1)
        PROVE  g[k] = IF k = 0 THEN FirstTurn(frag) ELSE Turn(buf, g[k - 1])
    <3>1. CASE k <= j
      <4>1. k \in 0..j /\ (k # 0 => k - 1 \in 0..j)
        BY <3>1
      <4>2. f[k] = IF k = 0 THEN FirstTurn(frag) ELSE Turn(buf, f[k - 1])
        BY <2>1, <4>1
      <4>3. QED BY <2>3, <4>1, <4>2
    <3>2. CASE k = j + 1
      <4>1. k # 0 /\ k - 1 = j /\ j \in 0..j /\ ~(k <= j)
        BY <1>3, <3>2
      <4>2. g[k] = Turn(buf, f[j])
        BY <2>2, <4>1
      <4>3. QED BY <2>3, <4>1, <4>2
    <3>3. QED BY <1>3, <3>1, <3>2
  <2>5. Is(g, j + 1)
    BY <2>2, <2>4
  <2>6. \E h : Is(h, j + 1)
    BY <2>5
  <2> HIDE DEF Is
  <2>7. j + 1 \in Nat
    BY <1>3
  <2>8. QED BY <2>6, <2>7
<1>4. n \in G
  <2> HIDE DEF G
  <2>1. \A k \in 0..n : k \in G
    BY <1>2, <1>3, Reached
  <2>2. QED BY <2>1
<1>5. \E f : Is(f, n)
  BY <1>4
<1>6. PICK turns : turns = CHOOSE f : Is(f, n)
  OBVIOUS
<1>7. Is(turns, n)
  BY <1>5, <1>6
<1>8. turns = Turns(buf, frag)
  BY <1>1, <1>6 DEF Turns, FirstTurn
<1>9. turns[0] = FirstTurn(frag) /\ \A i \in 1..n : turns[i] = Turn(buf, turns[i - 1])
  BY <1>7
<1>10. QED BY <1>1, <1>8, <1>9 DEF LoopBy

LEMMA LoopKeeps ==
  ASSUME NEW fs \in Seq(Frame), NEW bytes, NEW pos, Laid(fs, bytes, pos),
         NEW m \in 0..Len(fs), NEW buf, Part(buf, bytes, pos[m]),
         NEW heard, NEW frag, HeardTo(fs, m, heard, frag)
  PROVE  \A k \in 0..Len(buf) : Turned(fs, pos, m, buf, heard, k, Turns(buf, frag)[k])
<1>1. buf \in Seq(Nat) /\ pos[m] \in Nat
  BY DEF Part
<1>2. PICK n \in Nat : n = Len(buf)
  BY <1>1
<1>3. heard \in Seq(Message)
  <2>1. Told(fs)[m] \in Tale
    BY ToldIs DEF ToldBy
  <2>2. QED BY <2>1 DEF HeardTo, Tale
<1>4. PICK turns : LoopBy(turns, buf, frag)
  BY <1>1, LoopIs
<1>5. /\ turns = Turns(buf, frag) /\ turns[0] = FirstTurn(frag)
      /\ \A i \in 1..n : turns[i] = Turn(buf, turns[i - 1])
  BY <1>2, <1>4 DEF LoopBy
<1> DEFINE G == {k \in Nat : k <= n => Turned(fs, pos, m, buf, heard, k, turns[k])}
<1>6. 0 \in G
  <2>1. PICK s : s = turns[0]
    OBVIOUS
  <2>2. s \in Turning /\ s.at = "parsing" /\ s.off = 0 /\ s.heard = <<>> /\ s.frag = frag
    <3>1. frag \in Fragments /\ <<>> \in Seq(Message)
      BY DEF HeardTo, Keeps
    <3>2. QED BY <1>5, <2>1, <3>1 DEF FirstTurn, Turning
  <2>3. heard \o s.heard = heard /\ pos[m] = pos[m] + s.off /\ s.off <= Len(buf) /\ 0 <= s.off
    BY <1>1, <1>2, <1>3, <2>2
  <2>4. HeardTo(fs, m, heard \o s.heard, s.frag)
    BY <2>2, <2>3
  <2>5. s.at # "error" /\ s.at # "more" /\ m \in m..Len(fs)
    BY <2>2
  <2>6. Turned(fs, pos, m, buf, heard, 0, s)
    BY <2>2, <2>3, <2>4, <2>5 DEF Turned
  <2>7. QED BY <2>1, <2>6
<1>7. ASSUME NEW k \in 0..n, k \in G, k < n  PROVE k + 1 \in G
  <2>1. PICK i \in 1..n : i = k + 1 /\ i - 1 = k
    BY <1>7
  <2>2. turns[i] = Turn(buf, turns[k])
    BY <1>5, <2>1
  <2>3. Turned(fs, pos, m, buf, heard, k, turns[k])
    BY <1>7
  <2>4. Turned(fs, pos, m, buf, heard, k + 1, Turn(buf, turns[k]))
    BY <1>3, <2>3, TurnKeeps
  <2>5. QED BY <2>1, <2>2, <2>4
<1>8. \A k \in 0..n : k \in G
  <2> HIDE DEF G
  <2>1. QED BY <1>6, <1>7, Reached
<1>9. QED BY <1>2, <1>5, <1>8

-----------------------------------------------------------------------------
(* The parser follows the stream *)

\* The first i frames have been delivered; pend and st are the bytes of the others.
Following(fs, bytes, pos, i, pend, st, frag, heard) ==
  /\ Laid(fs, bytes, pos) /\ i \in 0..Len(fs)
  /\ Part(pend, bytes, pos[i]) /\ Part(st, bytes, pos[i] + Len(pend))
  /\ pos[i] + Len(pend) + Len(st) = Len(bytes)
  /\ HeardTo(fs, i, heard, frag) /\ TryParse(pend, 0).kind = "more"

\* What was heard is the messages of the first frames, if the stream is legal.
HeardSome(fs, heard) ==
  Legal(fs) => \E i \in 0..Len(fs) : heard = Told(fs)[i].messages

FramesInv ==
  /\ framesSent \in Seq(Frame) /\ refused \in BOOLEAN /\ threw \in BOOLEAN
  /\ IF threw THEN HeardSome(framesSent, heardFirst)
     ELSE IF refused THEN ~Legal(framesSent)
     ELSE \E bytes, pos, i :
            Following(framesSent, bytes, pos, i, pending, stream, fragments, framesHeard)

LEMMA FollowsFromStart ==
  ASSUME FramesInit
  PROVE  FramesInv
<1>1. PICK pos : pos = [k \in 0..0 |-> 0]
  OBVIOUS
<1>2. PICK fs : fs = <<>>
  OBVIOUS
<1>3. fs \in Seq(Frame) /\ Len(fs) = 0
  BY <1>2
<1>4. Laid(fs, <<>>, pos)
  BY <1>1, <1>3 DEF Laid
<1>5. pos[0] = 0
  BY <1>1
<1>6. Part(<<>>, <<>>, pos[0]) /\ Part(<<>>, <<>>, pos[0] + Len(<<>>))
  BY <1>5 DEF Part
<1>7. HeardTo(fs, 0, <<>>, NoFragments)
  <2>1. Told(fs)[0] = TaleStart
    BY <1>3, ToldIs DEF ToldBy
  <2>2. <<>> = Told(fs)[0].messages
    BY <2>1 DEF TaleStart
  <2>3. NoFragments \in Fragments /\ NoFragments.opcode = -1
    BY DEF NoFragments, Fragments, Ops
  <2>4. QED BY <2>2, <2>3, OpenNone DEF HeardTo, Keeps
<1>8. TryParse(<<>>, 0).kind = "more"
  <2>1. <<>> \in Seq(Nat) /\ Len(<<>>) = 0
    OBVIOUS
  <2>2. QED BY <2>1, NothingLeft
<1>9. Following(fs, <<>>, pos, 0, <<>>, <<>>, NoFragments, <<>>)
  BY <1>3, <1>4, <1>5, <1>6, <1>7, <1>8 DEF Following
<1>10. /\ framesSent = fs /\ stream = <<>> /\ pending = <<>> /\ framesHeard = <<>>
       /\ fragments = NoFragments /\ refused = FALSE /\ threw = FALSE
  BY <1>2 DEF FramesInit, NoFragments
<1>11. QED BY <1>3, <1>9, <1>10 DEF FramesInv

LEMMA HeardSomeAppend ==
  ASSUME NEW fs \in Seq(Frame), NEW f \in Frame, NEW heard, HeardSome(fs, heard)
  PROVE  HeardSome(Append(fs, f), heard)
<1>1. PICK gs : gs = Append(fs, f)
  OBVIOUS
<1>2. gs \in Seq(Frame) /\ Len(gs) = Len(fs) + 1 /\ \A k \in 1..Len(fs) : gs[k] = fs[k]
  BY <1>1
<1>3. ASSUME Legal(gs) PROVE \E i \in 0..Len(gs) : heard = Told(gs)[i].messages
  <2>1. ASSUME NEW j \in 1..Len(fs) PROVE LegalAt(fs, j)
    <3>1. j \in Nat /\ j # 0 /\ j \in 1..Len(gs) /\ \A k \in 1..j : gs[k] = fs[k]
      BY <1>2
    <3>2. LegalAt(gs, j)
      BY <1>2, <1>3, <3>1, LegalIs
    <3>3. QED BY <3>1, <3>2, LegalSame
  <2>2. PICK i \in 0..Len(fs) : heard = Told(fs)[i].messages
    BY <2>1, LegalIs DEF HeardSome
  <2>3. Told(gs)[i] = Told(fs)[i] /\ i \in 0..Len(gs)
    BY <1>1, <1>2, <2>2, ToldAppend
  <2>4. QED BY <2>2, <2>3
<1>4. QED BY <1>1, <1>3 DEF HeardSome

LEMMA ThrownSend ==
  ASSUME FramesInv, Send, threw
  PROVE  FramesInv'
<1>1. PICK fin \in BOOLEAN, opcode \in {Continuation, Text, Close}, data \in Payloads, mask \in Masks :
        framesSent' = Append(framesSent, [fin |-> fin, opcode |-> opcode, data |-> data, mask |-> mask])
  BY DEF Send
<1>2. PICK f \in Frame : framesSent' = Append(framesSent, f)
  BY <1>1 DEF Frame, Continuation, Text, Close
<1>3. framesSent \in Seq(Frame) /\ HeardSome(framesSent, heardFirst)
      /\ refused \in BOOLEAN /\ UNCHANGED <<refused, threw, heardFirst>>
  BY DEF FramesInv, Send
<1>4. HeardSome(framesSent', heardFirst) /\ framesSent' \in Seq(Frame)
  BY <1>2, <1>3, HeardSomeAppend
<1>5. HeardSome(framesSent, heardFirst)'
  BY <1>3, <1>4 DEF HeardSome
<1>6. QED BY <1>3, <1>4, <1>5 DEF FramesInv

LEMMA FollowsSend ==
  ASSUME FramesInv, Send, ~threw
  PROVE  FramesInv'
<1>1. PICK fin \in BOOLEAN, opcode \in {Continuation, Text, Close}, data \in Payloads, mask \in Masks :
        /\ framesSent' = Append(framesSent, [fin |-> fin, opcode |-> opcode, data |-> data, mask |-> mask])
        /\ stream' = stream \o EncodeFrame([fin |-> fin, opcode |-> opcode, data |-> data, mask |-> mask])
  BY DEF Send
<1>2. PICK f : f = [fin |-> fin, opcode |-> opcode, data |-> data, mask |-> mask]
  OBVIOUS
<1>3. f \in Frame
  BY <1>2 DEF Frame, Continuation, Text, Close
<1>4. PICK fs \in Seq(Frame) : fs = framesSent
  BY DEF FramesInv
<1>5. PICK gs : gs = Append(fs, f)
  OBVIOUS
<1>6. gs \in Seq(Frame) /\ Len(gs) = Len(fs) + 1 /\ \A k \in 1..Len(fs) : gs[k] = fs[k]
  BY <1>3, <1>5
<1>7. framesSent' = gs /\ stream' = stream \o EncodeFrame(f)
  BY <1>1, <1>2, <1>4, <1>5
<1>8. refused = FALSE /\ UNCHANGED <<pending, fragments, framesHeard, refused, threw>>
  BY DEF Send, FramesInv
<1>9. PICK bytes, pos, i :
        Following(fs, bytes, pos, i, pending, stream, fragments, framesHeard)
  BY <1>4, <1>8 DEF FramesInv
<1>10. /\ Laid(fs, bytes, pos) /\ i \in 0..Len(fs)
       /\ Part(pending, bytes, pos[i]) /\ Part(stream, bytes, pos[i] + Len(pending))
       /\ pos[i] + Len(pending) + Len(stream) = Len(bytes)
       /\ HeardTo(fs, i, framesHeard, fragments) /\ TryParse(pending, 0).kind = "more"
  BY <1>9 DEF Following
<1>11. PICK e : e = EncodeFrame(f)
  OBVIOUS
<1>12. e \in Seq(Nat) /\ Len(e) \in Nat
  BY <1>3, <1>11, EncodedLen
<1>13. PICK all : all = bytes \o e
  OBVIOUS
<1>14. PICK more : Laid(gs, all, more) /\ \A k \in 0..Len(fs) : more[k] = pos[k]
  BY <1>3, <1>5, <1>10, <1>11, <1>13, LaidAppend
<1>15. JoinedFrom(all, Nat, bytes, e)
  <2>1. bytes \in Seq(Nat)
    BY <1>10 DEF Laid
  <2>2. QED BY <1>12, <1>13, <2>1, Joined
<1>16. JoinedFrom(stream \o e, Nat, stream, e)
  <2>1. stream \in Seq(Nat)
    BY <1>10 DEF Part
  <2>2. QED BY <1>12, <2>1, Joined
<1>17. PICK st : st = stream \o e
  OBVIOUS
<1>18. PICK a \in Nat, p \in Nat, s \in Nat, z \in Nat, b \in Nat :
         a = pos[i] /\ p = Len(pending) /\ s = Len(stream) /\ z = Len(e) /\ b = Len(bytes)
  <2>1. pos[i] \in Nat /\ pending \in Seq(Nat)
    BY <1>10 DEF Part
  <2>2. Len(stream) \in Nat /\ Len(bytes) \in Nat /\ Len(e) \in Nat
    BY <1>15, <1>16 DEF JoinedFrom
  <2>3. QED BY <2>1, <2>2
<1>19. more[i] = a /\ i \in 0..Len(gs) /\ a + p + s = b
  BY <1>6, <1>10, <1>14, <1>18
<1>20. Part(pending, all, a)
  <2>1. pending \in Seq(Nat) /\ a + p <= b /\ \A j \in 1..p : pending[j] = bytes[a + j]
    BY <1>10, <1>18 DEF Part
  <2>2. Len(all) = b + z /\ \A j \in 1..b : all[j] = bytes[j]
    BY <1>15, <1>18 DEF JoinedFrom
  <2>3. \A j \in 1..p : a + j \in 1..b
    BY <2>1
  <2>4. \A j \in 1..p : pending[j] = all[a + j]
    BY <2>1, <2>2, <2>3
  <2>5. a + p <= b + z
    BY <2>1
  <2>6. QED BY <1>18, <2>1, <2>2, <2>4, <2>5 DEF Part
<1>21. Part(st, all, a + p) /\ a + p + Len(st) = Len(all)
  <2>1. \A j \in 1..s : stream[j] = bytes[a + p + j]
    BY <1>10, <1>18 DEF Part
  <2>2. /\ Len(all) = b + z /\ \A j \in 1..b : all[j] = bytes[j]
        /\ \A j \in 1..z : all[b + j] = e[j]
    BY <1>15, <1>18 DEF JoinedFrom
  <2>3. /\ st \in Seq(Nat) /\ Len(st) = s + z /\ \A j \in 1..s : st[j] = stream[j]
        /\ \A j \in 1..z : st[s + j] = e[j]
    BY <1>16, <1>17, <1>18 DEF JoinedFrom
  <2>4. a + p + Len(st) = Len(all)
    BY <1>19, <2>2, <2>3
  <2>5. ASSUME NEW j \in 1..Len(st)  PROVE st[j] = all[a + p + j]
    <3>1. CASE j <= s
      <4>1. j \in 1..s /\ a + p + j \in 1..b
        BY <1>19, <2>3, <3>1
      <4>2. QED BY <2>1, <2>2, <2>3, <4>1
    <3>2. CASE j > s
      <4>1. PICK l \in 1..z : l = j - s
        BY <2>3, <3>2
      <4>2. j = s + l /\ a + p + j = b + l
        BY <1>19, <4>1
      <4>3. QED BY <2>2, <2>3, <4>2
    <3>3. QED BY <2>3, <3>1, <3>2
  <2>6. a + p \in Nat /\ a + p + Len(st) <= Len(all)
    BY <2>2, <2>4
  <2>7. QED BY <2>3, <2>4, <2>5, <2>6 DEF Part
<1>22. HeardTo(gs, i, framesHeard, fragments)
  <2>1. /\ \A j \in 1..i : LegalAt(fs, j)
        /\ Keeps(fragments, fs, i) /\ framesHeard = Told(fs)[i].messages
    BY <1>10 DEF HeardTo
  <2>2. i \in Nat /\ i <= Len(fs) /\ \A k \in 1..i : k \in 1..Len(fs)
    BY <1>10
  <2>3. Told(gs)[i] = Told(fs)[i]
    BY <1>3, <1>5, <1>10, ToldAppend
  <2>4. Unfinished(gs, i) <=> Unfinished(fs, i)
    BY <1>6, <2>2, OpenSame
  <2>5. ASSUME NEW j \in 1..i  PROVE LegalAt(gs, j)
    <3>1. j \in Nat /\ j # 0 /\ \A k \in 1..j : k \in 1..Len(fs)
      BY <2>2
    <3>2. LegalAt(gs, j) <=> LegalAt(fs, j)
      BY <1>6, <3>1, LegalSame
    <3>3. QED BY <2>1, <3>2
  <2>6. Keeps(fragments, gs, i)
    BY <2>1, <2>3, <2>4 DEF Keeps
  <2>7. QED BY <2>1, <2>3, <2>5, <2>6 DEF HeardTo
<1>23. Following(gs, all, more, i, pending, st, fragments, framesHeard)
  BY <1>10, <1>14, <1>18, <1>19, <1>20, <1>21, <1>22 DEF Following
<1>24. /\ framesSent' = gs /\ stream' = st /\ pending' = pending /\ fragments' = fragments
       /\ framesHeard' = framesHeard /\ refused' = FALSE /\ threw' = FALSE
  BY <1>7, <1>8, <1>11, <1>17
<1>25. Following(framesSent', all, more, i, pending', stream', fragments', framesHeard')
  BY <1>23, <1>24
<1>26. QED BY <1>6, <1>24, <1>25 DEF FramesInv

\* Nothing more can be read from what is left.
Waiting(left, bytes, a, k) ==
  Part(left, bytes, a) /\ Len(left) = k /\ TryParse(left, 0).kind = "more"

LEMMA Waits ==
  ASSUME NEW fs \in Seq(Frame), NEW bytes, NEW pos, Laid(fs, bytes, pos),
         NEW m \in 0..Len(fs), NEW buf, Part(buf, bytes, pos[m]),
         NEW i \in m..Len(fs), NEW off \in Nat, pos[i] = pos[m] + off, off <= Len(buf),
         off = Len(buf) \/ TryParse(buf, off).kind = "more",
         NEW left, left = SubSeq(buf, off + 1, Len(buf))
  PROVE  Waiting(left, bytes, pos[i], Len(buf) - off)
<1>1. PICK n \in Nat : n = Len(fs)
  OBVIOUS
<1>2. /\ buf \in Seq(Nat) /\ pos[m] \in Nat /\ pos[m] + Len(buf) <= Len(bytes)
      /\ \A j \in 1..Len(buf) : buf[j] = bytes[pos[m] + j]
  BY DEF Part
<1>3. PICK a \in Nat, k \in Nat : a = pos[m] /\ k = Len(buf)
  BY <1>2
<1>4. PICK z \in Nat : z = k - off /\ k = off + z
  <2>1. k - off \in Nat /\ k = off + (k - off)
    BY <1>3
  <2>2. QED BY <2>1
<1>5. left \in Seq(Nat) /\ Len(left) = z /\ \A j \in 1..z : left[j] = buf[off + j]
  <2>1. Len(buf) = off + z /\ Len(buf) <= Len(buf)
    BY <1>3, <1>4
  <2>2. SlicedFrom(left, Nat, buf, off, z)
    BY <1>2, <2>1, Sliced
  <2>3. QED BY <2>2 DEF SlicedFrom
<1>6. Len(bytes) \in Nat /\ pos[n] = Len(bytes)
  BY <1>1 DEF Laid
<1>7. Part(left, bytes, pos[i])
  <2>1. pos[i] = a + off
    BY <1>3
  <2>2. (a + off) \in Nat /\ (a + off) + z <= Len(bytes)
    <3>1. PICK b \in Nat : b = Len(bytes)
      BY <1>6
    <3>2. a + k <= b
      BY <1>2, <1>3, <3>1
    <3>3. (a + off) + z <= b
      BY <1>4, <3>2
    <3>4. QED BY <3>1, <3>3
  <2>3. ASSUME NEW j \in 1..z  PROVE left[j] = bytes[(a + off) + j]
    <3>1. PICK l \in 1..k : l = off + j
      BY <1>4
    <3>2. buf[l] = bytes[a + l]
      BY <1>2, <1>3
    <3>3. a + l = (a + off) + j
      BY <3>1
    <3>4. QED BY <1>5, <3>1, <3>2, <3>3
  <2>4. QED BY <1>5, <2>1, <2>2, <2>3 DEF Part
<1>8. TryParse(left, 0).kind = "more"
  <2>1. CASE z = 0
    BY <1>5, <2>1, NothingLeft
  <2>2. CASE i = n
    <3>1. a + off = Len(bytes)
      BY <1>3, <1>6, <2>2
    <3>2. z = 0
      BY <1>2, <1>3, <1>4, <1>6, <3>1
    <3>3. QED BY <2>1, <3>2
  <2>3. CASE z # 0 /\ i # n
    <3>1. PICK l \in 1..n : l = i + 1 /\ l - 1 = i
      BY <1>1, <2>3
    <3>2. l \in 1..Len(fs) /\ pos[l - 1] = pos[m] + off
      BY <1>1, <3>1
    <3>3. TryParse(buf, off) = ParsedAs(buf, off, fs[l])
      BY <3>2, ReadsFrame
    <3>4. TryParse(left, 0) = ParsedAs(left, 0, fs[l])
      <4>1. 0 \in Nat /\ pos[l - 1] = pos[i] + 0 /\ 0 <= Len(left) /\ pos[i] \in Nat
        BY <1>3, <1>5, <3>1
      <4>2. QED BY <1>7, <3>2, <4>1, ReadsFrame
    <3>5. off # Len(buf)
      BY <1>3, <1>4, <2>3
    <3>6. TryParse(buf, off).kind = "more"
      BY <3>5
    <3>7. PICK f : f = fs[l]
      OBVIOUS
    <3>8. z = Len(buf) - off /\ Len(left) - 0 = z
      BY <1>3, <1>4, <1>5
    <3>9. z < 2 + LengthDigits(f) \/ (~Bad(f) /\ z < HeadSize(f) + Size(f))
      BY <3>3, <3>6, <3>7, <3>8 DEF ParsedAs, Outcome
    <3>10. ParsedAs(left, 0, f) = Outcome("more")
      BY <3>8, <3>9 DEF ParsedAs
    <3>11. QED BY <3>4, <3>7, <3>10 DEF Outcome
  <2>4. QED BY <2>1, <2>2, <2>3
<1>9. QED BY <1>3, <1>4, <1>5, <1>7, <1>8 DEF Waiting

\* n bytes of the stream join the buf of the parser, and rest remain.
Arrived(bytes, a, p, n, rest, buf, st) ==
  /\ Part(buf, bytes, a) /\ Part(st, bytes, a + (p + n))
  /\ buf \in Seq(Nat) /\ Len(buf) = p + n /\ Len(st) = rest

LEMMA ArrivedIs ==
  ASSUME NEW bytes, NEW a \in Nat, NEW p \in Nat, NEW k \in Nat, NEW rest \in Nat,
         NEW pend, NEW coming, Part(pend, bytes, a), Part(coming, bytes, a + Len(pend)),
         p = Len(pend), Len(coming) = k + rest, Len(bytes) = a + p + Len(coming),
         NEW chunk, chunk = SubSeq(coming, 1, k), NEW buf, buf = pend \o chunk,
         NEW st, st = SubSeq(coming, k + 1, Len(coming))
  PROVE  Arrived(bytes, a, p, k, rest, buf, st)
<1>1. /\ pend \in Seq(Nat) /\ coming \in Seq(Nat)
      /\ \A j \in 1..p : pend[j] = bytes[a + j]
      /\ \A j \in 1..(k + rest) : coming[j] = bytes[(a + p) + j]
  BY DEF Part
<1>2. chunk \in Seq(Nat) /\ Len(chunk) = k /\ \A j \in 1..k : chunk[j] = coming[j]
  <2>1. chunk = SubSeq(coming, 0 + 1, k) /\ k = 0 + k /\ 0 \in Nat /\ k <= Len(coming)
    OBVIOUS
  <2>2. SlicedFrom(chunk, Nat, coming, 0, k)
    BY <1>1, <2>1, Sliced
  <2>3. \A j \in 1..k : 0 + j = j
    OBVIOUS
  <2>4. QED BY <2>2, <2>3 DEF SlicedFrom
<1>3. st \in Seq(Nat) /\ Len(st) = rest /\ \A j \in 1..rest : st[j] = coming[k + j]
  <2>1. SlicedFrom(st, Nat, coming, k, rest)
    <3>1. Len(coming) <= Len(coming)
      OBVIOUS
    <3>2. QED BY <1>1, <3>1, Sliced
  <2>2. QED BY <2>1 DEF SlicedFrom
<1>4. JoinedFrom(buf, Nat, pend, chunk)
  BY <1>1, <1>2, Joined
<1>5. buf \in Seq(Nat) /\ Len(buf) = p + k
      /\ (\A j \in 1..p : buf[j] = pend[j]) /\ (\A j \in 1..k : buf[p + j] = chunk[j])
  BY <1>2, <1>4 DEF JoinedFrom
<1>6. ASSUME NEW j \in 1..(p + k)  PROVE buf[j] = bytes[a + j]
  <2>0. j \in 1..(p + k) /\ p \in Nat /\ k \in Nat /\ a \in Nat /\ rest \in Nat
    OBVIOUS
  <2>1. CASE j <= p
    <3>1. j \in 1..p
      BY <2>1
    <3>2. QED BY <1>1, <1>5, <3>1
  <2>2. CASE j > p
    <3>1. PICK l \in 1..k : l = j - p
      BY ONLY <2>0, <2>2
    <3>2. j = p + l /\ (a + p) + l = a + j /\ l \in 1..(k + rest)
      BY ONLY <2>0, <3>1
    <3>3. QED BY <1>1, <1>2, <1>5, <3>1, <3>2
  <2>3. j <= p \/ j > p
    BY ONLY <2>0
  <2>4. QED BY ONLY <2>1, <2>2, <2>3
<1>7. ASSUME NEW j \in 1..rest  PROVE st[j] = bytes[(a + (p + k)) + j]
  <2>1. PICK l \in 1..(k + rest) : l = k + j
    OBVIOUS
  <2>2. (a + p) + l = (a + (p + k)) + j
    BY <2>1
  <2>3. QED BY <1>1, <1>3, <2>1, <2>2
<1>8. a + (p + k) <= Len(bytes) /\ a + (p + k) \in Nat /\ (a + (p + k)) + rest <= Len(bytes)
  OBVIOUS
<1>9. QED BY <1>3, <1>5, <1>6, <1>7, <1>8 DEF Arrived, Part

LEMMA ThrownPush ==
  ASSUME FramesInv, Push, threw
  PROVE  FramesInv'
<1>1. /\ UNCHANGED <<framesSent, threw, heardFirst>> /\ refused' \in BOOLEAN
      /\ framesSent \in Seq(Frame) /\ HeardSome(framesSent, heardFirst)
  BY DEF Push, FramesInv
<1>2. HeardSome(framesSent, heardFirst)'
  BY <1>1 DEF HeardSome
<1>3. QED BY <1>1, <1>2 DEF FramesInv

LEMMA FollowsPush ==
  ASSUME FramesInv, Push, ~threw
  PROVE  FramesInv'
<1>1. framesSent' = framesSent /\ framesSent \in Seq(Frame) /\ refused \in BOOLEAN
      /\ refused' \in BOOLEAN /\ threw' = FALSE
  BY DEF Push, FramesInv
<1>2. CASE refused
  <2>1. refused' = TRUE /\ ~Legal(framesSent)
    BY <1>2 DEF Push, FramesInv
  <2>2. ~Legal(framesSent)'
    BY <1>1, <2>1
  <2>3. QED BY <1>1, <2>1, <2>2 DEF FramesInv
<1>3. CASE ~refused
  <2>1. PICK k \in 1..MaxPush :
          /\ k <= Len(stream)
          /\ stream' = SubSeq(stream, k + 1, Len(stream))
          /\ pending' = IF Loop(pending \o SubSeq(stream, 1, k), fragments).at = "error"
                        THEN pending \o SubSeq(stream, 1, k)
                        ELSE SubSeq(pending \o SubSeq(stream, 1, k),
                                    Loop(pending \o SubSeq(stream, 1, k), fragments).off + 1,
                                    Len(pending \o SubSeq(stream, 1, k)))
          /\ fragments' = Loop(pending \o SubSeq(stream, 1, k), fragments).frag
          /\ framesHeard' = framesHeard \o Loop(pending \o SubSeq(stream, 1, k), fragments).heard
          /\ refused' = (refused \/ Loop(pending \o SubSeq(stream, 1, k), fragments).at = "error")
    BY DEF Push
  <2>2. PICK chunk : chunk = SubSeq(stream, 1, k)
    OBVIOUS
  <2>3. PICK buf : buf = pending \o chunk
    OBVIOUS
  <2>4. PICK r : r = Loop(buf, fragments)
    OBVIOUS
  <2>5. PICK st : st = SubSeq(stream, k + 1, Len(stream))
    OBVIOUS
  <2>6. /\ stream' = st
        /\ pending' = IF r.at = "error" THEN buf ELSE SubSeq(buf, r.off + 1, Len(buf))
        /\ fragments' = r.frag /\ framesHeard' = framesHeard \o r.heard
        /\ refused' = (refused \/ r.at = "error")
    BY <2>1, <2>2, <2>3, <2>4, <2>5
  <2>7. PICK fs \in Seq(Frame) : fs = framesSent
    BY <1>1
  <2>8. PICK bytes, pos, m :
          Following(fs, bytes, pos, m, pending, stream, fragments, framesHeard)
    BY <1>3, <2>7 DEF FramesInv
  <2>9. /\ Laid(fs, bytes, pos) /\ m \in 0..Len(fs)
        /\ Part(pending, bytes, pos[m]) /\ Part(stream, bytes, pos[m] + Len(pending))
        /\ pos[m] + Len(pending) + Len(stream) = Len(bytes)
        /\ HeardTo(fs, m, framesHeard, fragments)
    BY <2>8 DEF Following
  <2>10. pending \in Seq(Nat) /\ stream \in Seq(Nat) /\ pos[m] \in Nat
    BY <2>9 DEF Part
  <2>11. PICK a \in Nat, p \in Nat, s \in Nat : a = pos[m] /\ p = Len(pending) /\ s = Len(stream)
    BY <2>10
  <2>12. k \in Nat /\ k >= 1 /\ k <= s /\ Len(bytes) = a + p + s
    BY <2>1, <2>9, <2>11, FrameNumbers
  <2>14. PICK rest \in Nat : rest = s - k /\ s = k + rest
    <3>1. s - k \in Nat /\ s = k + (s - k)
      BY <2>12
    <3>2. QED BY <3>1
  <2>15. Arrived(bytes, a, p, k, rest, buf, st)
    BY <2>2, <2>3, <2>5, <2>9, <2>11, <2>12, <2>14, ArrivedIs
  <2>17. buf \in Seq(Nat) /\ Len(buf) = p + k /\ Len(st) = rest
    BY <2>15 DEF Arrived
  <2>18. Part(buf, bytes, a)
    BY <2>15 DEF Arrived
  <2>19. Part(st, bytes, a + (p + k))
    BY <2>15 DEF Arrived
  <2>20. Turned(fs, pos, m, buf, framesHeard, Len(buf), r)
    <3>1. Part(buf, bytes, pos[m])
      BY <2>11, <2>18
    <3>2. Len(buf) \in 0..Len(buf) /\ r = Turns(buf, fragments)[Len(buf)]
      BY <2>4, <2>17 DEF Loop
    <3>3. QED BY <2>9, <3>1, <3>2, LoopKeeps
  <2>21. CASE r.at = "error"
    <3>1. refused' = TRUE /\ ~Legal(fs)
      BY <2>6, <2>20, <2>21 DEF Turned
    <3>2. ~Legal(framesSent)'
      BY <1>1, <2>7, <3>1
    <3>3. QED BY <1>1, <3>1, <3>2 DEF FramesInv
  <2>22. CASE r.at # "error"
    <3>1. r \in Turning
      BY <2>20, <2>22 DEF Turned
    <3>2. PICK i \in m..Len(fs) :
            /\ HeardTo(fs, i, framesHeard \o r.heard, r.frag)
            /\ pos[i] = pos[m] + r.off /\ r.off <= Len(buf)
            /\ r.at = "parsing" => Len(buf) <= r.off
            /\ r.at = "more" => TryParse(buf, r.off).kind = "more"
      BY <2>20, <2>22 DEF Turned
    <3>3. PICK off \in Nat : off = r.off
      BY <3>1 DEF Turning
    <3>4. off = Len(buf) \/ TryParse(buf, off).kind = "more"
      <4>1. r.at = "parsing" \/ r.at = "more"
        BY <3>1 DEF Turning
      <4>2. CASE r.at = "parsing"
        <5>1. Len(buf) \in Nat /\ Len(buf) <= off /\ off <= Len(buf)
          BY <2>17, <3>2, <3>3, <4>2
        <5>2. QED BY <5>1
      <4>3. CASE r.at = "more"
        BY <3>2, <3>3, <4>3
      <4>4. QED BY <4>1, <4>2, <4>3
    <3>5. PICK left : left = SubSeq(buf, off + 1, Len(buf))
      OBVIOUS
    <3>6. Part(left, bytes, pos[i]) /\ Len(left) = Len(buf) - off /\ TryParse(left, 0).kind = "more"
      <4>1. Part(buf, bytes, pos[m]) /\ pos[i] = pos[m] + off /\ off <= Len(buf)
        BY <2>11, <2>18, <3>2, <3>3
      <4>2. i \in m..Len(fs) /\ Laid(fs, bytes, pos) /\ m \in 0..Len(fs)
        BY <2>9
      <4>3. Waiting(left, bytes, pos[i], Len(buf) - off)
        BY <3>4, <3>5, <4>1, <4>2, Waits
      <4>4. QED BY <4>3 DEF Waiting
    <3>7. pos[i] + Len(left) = a + (p + k)
      <4>1. pos[i] = a + off /\ Len(left) = (p + k) - off
        BY <2>11, <2>17, <3>2, <3>3, <3>6
      <4>2. QED BY <2>12, <4>1
    <3>8. Part(st, bytes, pos[i] + Len(left))
      BY <2>19, <3>7
    <3>9. (a + (p + k)) + Len(st) = Len(bytes)
      <4>1. PICK whole : whole = Len(bytes)
        OBVIOUS
      <4>2. (a + (p + k)) + rest = whole
        BY <2>12, <2>14, <4>1
      <4>3. QED BY Zenon, <2>17, <4>1, <4>2
    <3>10. pos[i] + Len(left) + Len(st) = Len(bytes)
      BY <3>7, <3>9
    <3>11. i \in 0..Len(fs)
      BY <2>9
    <3>12. Following(fs, bytes, pos, i, left, st, r.frag, framesHeard \o r.heard)
      BY <2>9, <3>2, <3>6, <3>8, <3>10, <3>11 DEF Following
    <3>13. /\ framesSent' = fs /\ pending' = left /\ stream' = st /\ fragments' = r.frag
           /\ framesHeard' = framesHeard \o r.heard /\ refused' = FALSE
      BY <1>1, <1>3, <2>6, <2>7, <2>22, <3>3, <3>5
    <3>14. Following(framesSent', bytes, pos, i, pending', stream', fragments', framesHeard')
      BY <3>12, <3>13
    <3>15. QED BY <1>1, <3>13, <3>14 DEF FramesInv
  <2>23. QED BY <2>21, <2>22
<1>4. QED BY <1>1, <1>2, <1>3

\* A push in which onFrame throws, at any of its calls.
LEMMA FollowsThrow ==
  ASSUME FramesInv, PushThrows
  PROVE  FramesInv'
<1>1. /\ framesSent' = framesSent /\ refused' = refused /\ threw' = TRUE
      /\ framesSent \in Seq(Frame) /\ refused \in BOOLEAN /\ threw \in BOOLEAN
      /\ heardFirst' = IF threw THEN heardFirst ELSE framesHeard'
  BY DEF PushThrows, FramesInv
<1>2. HeardSome(framesSent, heardFirst')
  <2>1. CASE threw
    BY <1>1, <2>1 DEF FramesInv
  <2>2. CASE ~threw /\ refused
    BY <2>2 DEF FramesInv, HeardSome
  <2>3. CASE ~threw /\ ~refused
    <3>1. PICK k \in 1..MaxPush :
            /\ k <= Len(stream)
            /\ \E i \in 1..Len(pending \o SubSeq(stream, 1, k)) :
                 framesHeard' = framesHeard \o Turns(pending \o SubSeq(stream, 1, k), fragments)[i].heard
      BY DEF PushThrows
    <3>2. PICK chunk : chunk = SubSeq(stream, 1, k)
      OBVIOUS
    <3>3. PICK buf : buf = pending \o chunk
      OBVIOUS
    <3>4. PICK st : st = SubSeq(stream, k + 1, Len(stream))
      OBVIOUS
    <3>5. PICK turns : turns = Turns(buf, fragments)
      OBVIOUS
    <3>6. PICK i \in 1..Len(buf) : framesHeard' = framesHeard \o turns[i].heard
      BY <3>1, <3>2, <3>3, <3>5
    <3>7. PICK fs \in Seq(Frame) : fs = framesSent
      BY <1>1
    <3>8. PICK bytes, pos, m :
            Following(fs, bytes, pos, m, pending, stream, fragments, framesHeard)
      BY <2>3, <3>7 DEF FramesInv
    <3>9. /\ Laid(fs, bytes, pos) /\ m \in 0..Len(fs)
          /\ Part(pending, bytes, pos[m]) /\ Part(stream, bytes, pos[m] + Len(pending))
          /\ pos[m] + Len(pending) + Len(stream) = Len(bytes)
          /\ HeardTo(fs, m, framesHeard, fragments)
      BY <3>8 DEF Following
    <3>10. pending \in Seq(Nat) /\ stream \in Seq(Nat) /\ pos[m] \in Nat
      BY <3>9 DEF Part
    <3>11. PICK a \in Nat, p \in Nat, s \in Nat : a = pos[m] /\ p = Len(pending) /\ s = Len(stream)
      BY <3>10
    <3>12. k \in Nat /\ k <= s /\ Len(bytes) = a + p + s
      BY <3>1, <3>9, <3>11, FrameNumbers
    <3>13. PICK rest \in Nat : rest = s - k /\ s = k + rest
      <4>1. s - k \in Nat /\ s = k + (s - k)
        BY <3>12
      <4>2. QED BY <4>1
    <3>14. Arrived(bytes, a, p, k, rest, buf, st)
      BY <3>2, <3>3, <3>4, <3>9, <3>11, <3>12, <3>13, ArrivedIs
    <3>15. Part(buf, bytes, pos[m]) /\ i \in 0..Len(buf)
      BY <3>6, <3>11, <3>14 DEF Arrived
    <3>16. Turned(fs, pos, m, buf, framesHeard, i, turns[i])
      BY <3>5, <3>9, <3>15, LoopKeeps
    <3>17. CASE turns[i].at = "error"
      BY <3>7, <3>16, <3>17 DEF Turned, HeardSome
    <3>18. CASE turns[i].at # "error"
      <4>1. PICK l \in m..Len(fs) :
              framesHeard \o turns[i].heard = Told(fs)[l].messages
        BY <3>16, <3>18 DEF Turned, HeardTo
      <4>2. l \in 0..Len(fs) /\ heardFirst' = Told(fs)[l].messages
        BY <1>1, <2>3, <3>6, <3>9, <4>1
      <4>3. QED BY <3>7, <4>2 DEF HeardSome
    <3>19. QED BY <3>17, <3>18
  <2>4. QED BY <1>1, <2>1, <2>2, <2>3
<1>3. HeardSome(framesSent, heardFirst)'
  BY <1>1, <1>2 DEF HeardSome
<1>4. QED BY <1>1, <1>3 DEF FramesInv

\* What the invariant says of the messages.
LEMMA FollowedArrive ==
  ASSUME FramesInv
  PROVE  MessagesArrive
<1>1. PICK fs \in Seq(Frame) : fs = framesSent
  BY DEF FramesInv
<1>0. CASE threw
  <2>1. ASSUME Legal(fs) PROVE IsPrefix(heardFirst, Messages(fs))
    <3>1. PICK i \in 0..Len(fs) : heardFirst = Told(fs)[i].messages
      BY <1>0, <1>1, <2>1 DEF FramesInv, HeardSome
    <3>2. QED BY <3>1, ToldGrows
  <2>2. QED BY <1>0, <1>1, <2>1 DEF MessagesArrive
<1>2. CASE ~threw /\ refused
  BY <1>2 DEF FramesInv, MessagesArrive
<1>3. CASE ~threw /\ ~refused
  <2>1. PICK bytes, pos, i :
          Following(fs, bytes, pos, i, pending, stream, fragments, framesHeard)
    BY <1>1, <1>3 DEF FramesInv
  <2>2. /\ Laid(fs, bytes, pos) /\ i \in 0..Len(fs) /\ Part(pending, bytes, pos[i])
        /\ pos[i] + Len(pending) + Len(stream) = Len(bytes)
        /\ HeardTo(fs, i, framesHeard, fragments) /\ TryParse(pending, 0).kind = "more"
    BY <2>1 DEF Following
  <2>3. framesHeard = Told(fs)[i].messages /\ \A j \in 1..i : LegalAt(fs, j)
    BY <2>2 DEF HeardTo
  <2>4. IsPrefix(framesHeard, Messages(fs))
    BY <2>2, <2>3, ToldGrows
  <2>5. ASSUME stream = <<>>  PROVE i = Len(fs)
    <3>1. SUFFICES ASSUME i # Len(fs) PROVE FALSE
      OBVIOUS
    <3>2. PICK n \in Nat : n = Len(fs)
      OBVIOUS
    <3>3. PICK l \in 1..n : l = i + 1 /\ l - 1 = i
      BY <2>2, <3>1, <3>2
    <3>4. PICK f : f = fs[l]
      OBVIOUS
    <3>5. f \in Frame
      BY <3>2, <3>4
    <3>6. pending \in Seq(Nat) /\ pos[i] \in Nat
      BY <2>2 DEF Part
    <3>7. TryParse(pending, 0) = ParsedAs(pending, 0, f)
      <4>1. 0 \in Nat /\ pos[l - 1] = pos[i] + 0 /\ 0 <= Len(pending) /\ l \in 1..Len(fs)
        BY <3>2, <3>3, <3>6
      <4>2. QED BY <2>2, <3>4, <4>1, ReadsFrame
    <3>8. PICK z \in Nat : z = HeadSize(f) + Size(f) /\ z = Len(EncodeFrame(f)) /\ z >= 2 + LengthDigits(f)
      <4>1. HeadSize(f) \in Nat /\ Size(f) \in Nat /\ HeadSize(f) >= 2 + LengthDigits(f)
            /\ Len(EncodeFrame(f)) = HeadSize(f) + Size(f) /\ LengthDigits(f) \in Nat
        BY <3>5, EncodedLen, FrameIs
      <4>2. QED BY <4>1
    <3>9. Len(pending) >= z
      <4>1. pos[l] = pos[i] + z /\ pos[n] = Len(bytes) /\ Len(bytes) \in Nat
        BY <2>2, <3>2, <3>3, <3>4, <3>8 DEF Laid
      <4>2. pos[l] <= Len(bytes)
        BY <2>2, <3>2, LaidWithin
      <4>3. Len(stream) = 0
        BY <2>5
      <4>4. PICK x \in Nat, y \in Nat : x = pos[i] /\ y = Len(pending)
        BY <3>6
      <4>5. x + y = Len(bytes)
        BY <2>2, <4>3, <4>4
      <4>6. x + z <= x + y
        BY <4>1, <4>2, <4>4, <4>5
      <4>7. QED BY <4>4, <4>6
    <3>10. ~(Len(pending) - 0 < 2 + LengthDigits(f)) /\ ~(Len(pending) - 0 < HeadSize(f) + Size(f))
      <4>1. Len(pending) \in Nat /\ Len(pending) - 0 = Len(pending) /\ LengthDigits(f) \in Nat
        BY <3>5, <3>6, FrameIs
      <4>2. QED BY <3>8, <3>9, <4>1
    <3>11. ParsedAs(pending, 0, f).kind # "more"
      <4>1. ParsedAs(pending, 0, f) = Outcome("error")
            \/ ParsedAs(pending, 0, f) = [kind |-> "frame", fin |-> f.fin, opcode |-> f.opcode,
                                          next |-> 0 + HeadSize(f) + Size(f), data |-> f.data]
        BY <3>10 DEF ParsedAs
      <4>2. QED BY <4>1 DEF Outcome
    <3>12. QED BY <2>2, <3>7, <3>11
  <2>6. CASE Legal(fs)
    <3>1. stream = <<>> => framesHeard = Messages(fs)
      BY <2>3, <2>5 DEF Messages
    <3>2. QED BY <1>1, <1>3, <2>4, <2>6, <3>1 DEF MessagesArrive
  <2>7. CASE ~Legal(fs)
    <3>1. stream # <<>>
      BY <2>3, <2>5, <2>7, LegalIs
    <3>2. QED BY <1>1, <2>7, <3>1 DEF MessagesArrive
  <2>8. QED BY <2>6, <2>7
<1>4. QED BY <1>0, <1>2, <1>3

\* However the stream is cut, and however its messages are cut into frames, each
\* with its own mask, and interrupted, onFrame hears them as they were sent until
\* it throws, if it ever does; and what is no stream of messages is refused.
THEOREM FramesAlwaysArrive == FramesSpec => []MessagesArrive
<1>1. FramesInit => FramesInv
  BY FollowsFromStart
<1>2. FramesInv /\ [FramesNext]_frameVars => FramesInv'
  <2>1. SUFFICES ASSUME FramesInv, [FramesNext]_frameVars PROVE FramesInv'
    OBVIOUS
  <2>2. CASE Send
    BY <2>1, <2>2, FollowsSend, ThrownSend
  <2>3. CASE Push
    BY <2>1, <2>3, FollowsPush, ThrownPush
  <2>4. CASE PushThrows
    BY <2>1, <2>4, FollowsThrow
  <2>5. CASE UNCHANGED frameVars
    BY <2>1, <2>5 DEF FramesInv, HeardSome, frameVars, Legal, Control
  <2>6. QED BY <2>1, <2>2, <2>3, <2>4, <2>5 DEF FramesNext
<1>3. FramesInv => MessagesArrive
  BY FollowedArrive
<1>4. QED BY <1>1, <1>2, <1>3, PTL DEF FramesSpec

(***************************************************************************)
(* The parts of a multipart body                                           *)
(***************************************************************************)

-----------------------------------------------------------------------------
(* The invariant of the parser *)

ParserState ==
  [at : {"preamble", "headers", "body", "end", "done", "failed"}, starving : BOOLEAN,
   eof : BOOLEAN, matched : BOOLEAN, head : Seq(Byte), closed : BOOLEAN,
   kind : {"none", "file", "field"}, used : Nat, size : Nat, files : Nat,
   fields : Nat, total : Nat, returned : BOOLEAN]
PartState == [kind : {"file", "field"}, bytes : Seq(Byte), state : {"open", "whole", "broken"}]

PartTypesOK ==
  /\ body \in Bodies /\ wire \in Seq(Byte) /\ buffer \in Seq(Byte)
  /\ parser \in ParserState
  /\ consumer \in {"holding", "reading", "draining", "skipping", "gone"}
  /\ parts \in Seq(PartState)

\* The part that the parser is in is the last one handed out.
PartAtHand ==
  LET state == parts[Len(parts)].state
  IN /\ consumer = "reading" => parser.at \in {"body", "end", "failed"}
     /\ consumer = "gone" => parser.at # "done"
     /\ parser.at \in {"body", "end"} =>
          IF parser.kind = "none" THEN consumer = "skipping" /\ ~parser.returned
          ELSE /\ parts # <<>> /\ parts[Len(parts)].kind = parser.kind
               /\ consumer # "skipping"
               /\ IF parser.returned
                  THEN /\ consumer \in {"holding", "gone"} /\ state # "open"
                       /\ parser.at = "body" => state = "broken"
                  ELSE state = "open"

BufferInv ==
  /\ parser.eof /\ consumer # "gone" => wire = <<>>
  /\ parser.at \in {"preamble", "body"} =>
       Len(buffer) <= Retain + MaxPadding + (IF parser.starving THEN 0 ELSE MaxChunk)
  /\ parser.at = "end" => Len(buffer) <= Held /\ ~parser.starving
  /\ parser.at = "headers" =>
       /\ Len(buffer) <= MaxLine + Held
       /\ \A i \in DOMAIN buffer : buffer[i] = "n" => Len(buffer) - i <= Held /\ ~parser.starving
       /\ parser.starving => Len(buffer) <= MaxLine

\* A part that failed under its reader was handed out, and the bytes that were not
\* scanned are those it was scanned from.
ThrownInv == Thrown => parts # <<>> /\ Len(buffer) <= Held

Rest == buffer \o wire

\* What is left begins with what follows the first delimiter, or has it.
SameFirst(rest, first) ==
  LET cut == Cut(rest, FirstNeedle) IN cut.kind = first.kind /\ cut.rest = first.rest
InPreamble(first) ==
  LET suffix == Suffix(Rest, TRUE)
  IN IF parser.matched /\ suffix.kind # "false"
     THEN first.kind = suffix.kind /\ first.rest = From(Rest, suffix.used + 1)
     ELSE SameFirst(Rest, first)

\* What is left of headers says what the headers say.
SameHeaders(rest, kind, headers) ==
  /\ EmptyLine(rest) = 0 <=> EmptyLine(headers) = 0
  /\ EmptyLine(headers) # 0 =>
       /\ Content(rest) = Content(headers)
       /\ Kind(headers) = IF kind = "none" THEN Kind(rest) ELSE kind

InContent(c) ==
  LET n == parser.size + Len(parser.head)
  IN /\ n <= Len(c) /\ parser.head = SubSeq(c, parser.size + 1, n)
     /\ \A i \in Delimiters(c, Delim) : i > n
     /\ IF parser.matched
        THEN /\ n + Retain <= Len(c) /\ SubSeq(c, n + 1, n + Retain) = Delim
             /\ Rest = From(c, n + Retain + 1)
        ELSE parser.head = <<>> /\ Rest = From(c, n + 1)

AtEnd(c) ==
  LET cut == Cut(c, Delim)
  IN /\ parser.size = Len(cut.before) /\ Rest = cut.rest
     /\ cut.kind = IF parser.closed THEN "close" ELSE "next"
     /\ ~parser.matched /\ parser.head = <<>>

HasRead(c) ==
  LET bytes == parts[Len(parts)].bytes
  IN parser.kind # "none" =>
       /\ Len(bytes) <= parser.size /\ bytes = SubSeq(c, 1, Len(bytes))
       /\ consumer \in {"holding", "reading"} => Len(bytes) = parser.size

\* As many parts were handed out as were sent this far.
Up(sent) == Len(parts) = Len(sent) /\ Agree(sent)

InHeaders(R, k) ==
  /\ R[k].kind = "next" /\ Up(R[k].sent)
  /\ SameHeaders(Rest, parser.kind, R[k].rest)
  /\ ~parser.matched /\ parser.head = <<>>

InPart(R, k) ==
  /\ R[k].kind = "next" /\ EmptyLine(R[k].rest) # 0
  /\ Up(R[k + 1].sent) /\ parser.kind = Kind(R[k].rest)
  /\ HasRead(Content(R[k].rest))
  /\ parser.at = "body" => InContent(Content(R[k].rest))
  /\ parser.at = "end" => AtEnd(Content(R[k].rest))

\* Where the parser is in the body.
Placed ==
  LET R == Reading(body)
  IN /\ parser.at = "preamble" =>
          parts = <<>> /\ parser.kind = "none" /\ parser.head = <<>> /\ InPreamble(R[0])
     /\ parser.at = "headers" => \E k \in 0..Len(body) : InHeaders(R, k)
     /\ parser.at \in {"body", "end"} => \E k \in 0..Len(body) : InPart(R, k)
     /\ parser.at = "done" => Len(parts) = Len(Sent(body))

MultipartInv ==
  /\ PartTypesOK /\ PartAtHand /\ BufferInv /\ ThrownInv
  /\ ~Broken => Agree(Sent(body)) /\ (consumer # "gone" => Placed)

-----------------------------------------------------------------------------
(* What is left of a sequence *)

\* t is what s has from position i on.
IsRest(t, s, i) ==
  /\ t \in Seq(Byte) /\ Len(t) = IF i <= Len(s) + 1 THEN (Len(s) + 1) - i ELSE 0
  /\ \A j \in 1..Len(t) : t[j] = s[(i + j) - 1]

LEMMA FromIs ==
  ASSUME NEW s \in Seq(Byte), NEW i \in Nat \ {0}
  PROVE  IsRest(From(s, i), s, i)
  BY DEF From, IsRest

LEMMA SameSeq ==
  ASSUME NEW s \in Seq(Byte), NEW t \in Seq(Byte), Len(s) = Len(t),
         \A j \in 1..Len(s) : s[j] = t[j]
  PROVE  s = t
  OBVIOUS

LEMMA RestUnique ==
  ASSUME NEW s \in Seq(Byte), NEW i \in Nat \ {0}, NEW t, NEW u, IsRest(t, s, i), IsRest(u, s, i)
  PROVE  t = u
<1>1. t \in Seq(Byte) /\ u \in Seq(Byte) /\ Len(t) = Len(u)
  BY DEF IsRest
<1>2. \A j \in 1..Len(t) : t[j] = u[j]
  BY <1>1 DEF IsRest
<1>3. QED BY <1>1, <1>2, SameSeq

LEMMA FromFrom ==
  ASSUME NEW s \in Seq(Byte), NEW i \in Nat \ {0}, NEW j \in Nat \ {0}, i <= Len(s) + 1
  PROVE  From(From(s, i), j) = From(s, (i + j) - 1)
<1>1. IsRest(From(s, i), s, i)
  BY FromIs
<1>2. IsRest(From(From(s, i), j), From(s, i), j)
  BY <1>1, FromIs DEF IsRest
<1>3. (i + j) - 1 \in Nat \ {0}
  OBVIOUS
<1>4. IsRest(From(From(s, i), j), s, (i + j) - 1)
  BY <1>1, <1>2 DEF IsRest
<1>5. IsRest(From(s, (i + j) - 1), s, (i + j) - 1)
  BY <1>3, FromIs
<1>6. QED BY <1>3, <1>4, <1>5, RestUnique

LEMMA FromFirst ==
  ASSUME NEW s \in Seq(Byte)
  PROVE  From(s, 1) = s
<1>1. IsRest(From(s, 1), s, 1)
  BY FromIs
<1>2. IsRest(s, s, 1)
  BY DEF IsRest
<1>3. QED BY <1>1, <1>2, RestUnique

\* What is left of two sequences one behind the other.
LEMMA FromBoth ==
  ASSUME NEW s \in Seq(Byte), NEW w \in Seq(Byte), NEW i \in Nat \ {0}, i <= Len(s) + 1
  PROVE  From(s \o w, i) = From(s, i) \o w
<1>1. s \o w \in Seq(Byte) /\ Len(s \o w) = Len(s) + Len(w)
  OBVIOUS
<1>2. IsRest(From(s, i), s, i)
  BY FromIs
<1>3. PICK t \in Seq(Byte) : t = From(s, i)
  BY <1>2 DEF IsRest
<1>4. Len(t) = (Len(s) + 1) - i /\ \A j \in 1..Len(t) : t[j] = s[(i + j) - 1]
  BY <1>2, <1>3 DEF IsRest
<1>5. t \o w \in Seq(Byte) /\ Len(t \o w) = Len(t) + Len(w)
  OBVIOUS
<1>6. ASSUME NEW j \in 1..Len(t \o w)  PROVE (t \o w)[j] = (s \o w)[(i + j) - 1]
  <2>1. CASE j <= Len(t)
    BY <1>4, <2>1
  <2>2. CASE j > Len(t)
    BY <1>4, <1>5, <2>2
  <2>3. j \in Nat /\ Len(t) \in Nat
    BY <1>5
  <2>4. j <= Len(t) \/ j > Len(t)
    BY <2>3
  <2>5. QED BY Zenon, <2>1, <2>2, <2>4
<1>10. Len(t \o w) = IF i <= Len(s \o w) + 1 THEN (Len(s \o w) + 1) - i ELSE 0
  BY <1>1, <1>4, <1>5
<1>7. IsRest(t \o w, s \o w, i)
  BY <1>5, <1>6, <1>10 DEF IsRest
<1>8. IsRest(From(s \o w, i), s \o w, i)
  BY <1>1, FromIs
<1>9. QED BY <1>1, <1>3, <1>7, <1>8, RestUnique

LEMMA Both ==
  ASSUME NEW s \in Seq(Byte), NEW w \in Seq(Byte)
  PROVE  /\ s \o w \in Seq(Byte) /\ Len(s \o w) = Len(s) + Len(w)
         /\ \A i \in 1..Len(s) : (s \o w)[i] = s[i]
  OBVIOUS

\* t is the part of s from i to j.
IsSlice(t, s, i, j) ==
  /\ t \in Seq(Byte) /\ Len(t) = IF i <= j THEN (j + 1) - i ELSE 0
  /\ \A k \in 1..Len(t) : t[k] = s[(i + k) - 1]

LEMMA SliceHas ==
  ASSUME NEW s \in Seq(Byte), NEW i \in Nat \ {0}, NEW j \in Nat, j <= Len(s)
  PROVE  IsSlice(SubSeq(s, i, j), s, i, j)
<1>1. SubSeq(s, i, j) \in Seq(Byte)
  <2>1. \A k \in i..j : k \in 1..Len(s)
    OBVIOUS
  <2>2. QED BY <2>1
<1>2. Len(SubSeq(s, i, j)) = IF i <= j THEN (j + 1) - i ELSE 0
  OBVIOUS
<1>3. QED BY <1>1, <1>2 DEF IsSlice

LEMMA SliceUnique ==
  ASSUME NEW s \in Seq(Byte), NEW i \in Nat \ {0}, NEW j \in Nat, NEW t, NEW u,
         IsSlice(t, s, i, j), IsSlice(u, s, i, j)
  PROVE  t = u
<1>1. t \in Seq(Byte) /\ u \in Seq(Byte) /\ Len(t) = Len(u)
  BY DEF IsSlice
<1>2. \A k \in 1..Len(t) : t[k] = u[k]
  BY <1>1 DEF IsSlice
<1>3. QED BY <1>1, <1>2, SameSeq

\* Slices that meet make one.
LEMMA SlicesMeet ==
  ASSUME NEW s \in Seq(Byte), NEW i \in Nat \ {0}, NEW j \in Nat, NEW k \in Nat,
         i <= j + 1, j <= k, k <= Len(s)
  PROVE  SubSeq(s, i, j) \o SubSeq(s, j + 1, k) = SubSeq(s, i, k)
<1>1. i \in 1..(Len(s) + 1) /\ j \in (i - 1)..Len(s) /\ k \in j..Len(s)
  OBVIOUS
<1>2. QED BY <1>1, ConcatAdjacentSubSeq

\* The beginning of what is left of s is a slice of s.
LEMMA SliceOfRest ==
  ASSUME NEW s \in Seq(Byte), NEW i \in Nat, i <= Len(s), NEW w \in Seq(Byte), NEW b \in Seq(Byte),
         b \o w = From(s, i + 1), NEW n \in Nat, n <= Len(b)
  PROVE  SubSeq(b, 1, n) = SubSeq(s, i + 1, i + n) /\ i + n <= Len(s)
<1>1. IsRest(From(s, i + 1), s, i + 1)
  BY FromIs
<1>2. Len(b \o w) = Len(b) + Len(w) /\ \A k \in 1..Len(b) : (b \o w)[k] = b[k]
  BY Both
<1>3. Len(b) + Len(w) = Len(s) - i
  BY <1>1, <1>2 DEF IsRest
<1>4. i + n <= Len(s) /\ i + n \in Nat
  BY <1>3
<1>5. IsSlice(SubSeq(b, 1, n), b, 1, n)
  BY SliceHas
<1>6. \A k \in 1..Len(b) : b[k] = s[(i + k)]
  <2>1. ASSUME NEW k \in 1..Len(b)  PROVE b[k] = s[i + k]
    <3>1. k \in 1..Len(b \o w) /\ ((i + 1) + k) - 1 = i + k
      BY <1>2
    <3>2. QED BY <1>1, <1>2, <3>1 DEF IsRest
  <2>2. QED BY <2>1
<1>7. IsSlice(SubSeq(b, 1, n), s, i + 1, i + n)
  BY <1>5, <1>6 DEF IsSlice
<1>8. IsSlice(SubSeq(s, i + 1, i + n), s, i + 1, i + n)
  BY <1>4, SliceHas
<1>9. i + 1 \in Nat \ {0}
  OBVIOUS
<1>10. SubSeq(b, 1, n) = SubSeq(s, i + 1, i + n)
  BY <1>4, <1>7, <1>8, <1>9, SliceUnique
<1>11. QED BY <1>4, <1>10

-----------------------------------------------------------------------------
(* The lowest of some positions *)

LEMMA LowestIs ==
  ASSUME NEW S, S \subseteq Nat, S # {}
  PROVE  Lowest(S) \in S /\ Lowest(S) \in Nat /\ \A y \in S : Lowest(S) <= y
<1>1. \E x \in S : \A y \in S : x <= y
  BY LeastNat
<1>2. Lowest(S) = CHOOSE x \in S : \A y \in S : x <= y
  BY DEF Lowest, Min
<1>3. QED BY <1>1, <1>2

LEMMA LowestOf ==
  ASSUME NEW S, S \subseteq Nat, NEW x \in S, \A y \in S : x <= y
  PROVE  Lowest(S) = x
<1>1. Lowest(S) \in S /\ Lowest(S) \in Nat /\ \A y \in S : Lowest(S) <= y
  BY LowestIs
<1>2. QED BY <1>1

LEMMA LowestNone ==
  Lowest({}) = 0
  BY DEF Lowest

-----------------------------------------------------------------------------
(* What follows a boundary *)

\* How many spaces and tabs a buffer begins with.
Padding(buf) ==
  LET stop == Lowest({k \in DOMAIN buf : buf[k] \notin Blank})
  IN IF stop = 0 THEN Len(buf) ELSE stop - 1

IsPadding(n, buf) ==
  /\ n \in Nat /\ n <= Len(buf)
  /\ \A k \in 1..n : buf[k] \in Blank
  /\ n < Len(buf) => buf[n + 1] \notin Blank

LEMMA PaddingIs ==
  ASSUME NEW buf \in Seq(Byte)
  PROVE  IsPadding(Padding(buf), buf)
<1> DEFINE S == {k \in DOMAIN buf : buf[k] \notin Blank}
<1>1. Len(buf) \in Nat /\ S \subseteq 1..Len(buf) /\ S \subseteq Nat
  OBVIOUS
<1>2. Padding(buf) = IF Lowest(S) = 0 THEN Len(buf) ELSE Lowest(S) - 1
  BY DEF Padding
<1>3. CASE S = {}
  <2>1. Padding(buf) = Len(buf)
    BY <1>2, <1>3, LowestNone
  <2>2. \A k \in 1..Len(buf) : buf[k] \in Blank
    BY <1>3
  <2>3. QED BY <1>1, <2>1, <2>2 DEF IsPadding
<1>4. CASE S # {}
  <2>1. PICK m : m = Lowest(S)
    OBVIOUS
  <2>2. m \in S /\ m \in Nat /\ \A y \in S : m <= y
    <3> HIDE DEF S
    <3>1. QED BY <1>1, <1>4, <2>1, LowestIs
  <2>3. m \in 1..Len(buf) /\ buf[m] \notin Blank /\ Padding(buf) = m - 1
    BY <1>1, <1>2, <2>1, <2>2
  <2>4. ASSUME NEW k \in 1..(m - 1)  PROVE buf[k] \in Blank
    <3>1. k \in 1..Len(buf) /\ k < m
      BY <2>3
    <3>2. k \notin S
      BY <2>2, <3>1
    <3>3. QED BY <3>1, <3>2
  <2>5. QED BY <2>3, <2>4 DEF IsPadding
<1>5. QED BY <1>3, <1>4

LEMMA PaddingUnique ==
  ASSUME NEW buf, NEW m, NEW n, IsPadding(m, buf), IsPadding(n, buf), Len(buf) \in Nat
  PROVE  m = n
<1>1. ~ (m < n) /\ ~ (n < m)
  <2>1. ASSUME m < n  PROVE FALSE
    <3>1. m + 1 \in 1..n /\ m < Len(buf)
      BY <2>1 DEF IsPadding
    <3>2. QED BY <3>1 DEF IsPadding
  <2>2. ASSUME n < m  PROVE FALSE
    <3>1. n + 1 \in 1..m /\ n < Len(buf)
      BY <2>2 DEF IsPadding
    <3>2. QED BY <3>1 DEF IsPadding
  <2>3. QED BY <2>1, <2>2
<1>2. QED BY <1>1 DEF IsPadding

\* Unless a buffer is all padding, what comes behind it does not matter.
LEMMA PaddingKept ==
  ASSUME NEW buf \in Seq(Byte), NEW w \in Seq(Byte), Padding(buf) < Len(buf)
  PROVE  Padding(buf \o w) = Padding(buf)
<1>1. PICK n : n = Padding(buf) /\ IsPadding(n, buf)
  BY PaddingIs
<1>2. buf \o w \in Seq(Byte) /\ Len(buf \o w) = Len(buf) + Len(w)
      /\ \A i \in 1..Len(buf) : (buf \o w)[i] = buf[i]
  BY Both
<1>3. n \in Nat /\ n < Len(buf) /\ Len(buf) \in Nat /\ Len(w) \in Nat
  BY <1>1 DEF IsPadding
<1>4. \A k \in 1..n : (buf \o w)[k] \in Blank
  BY <1>1, <1>2, <1>3 DEF IsPadding
<1>5. (buf \o w)[n + 1] \notin Blank
  BY <1>1, <1>2, <1>3 DEF IsPadding
<1>6. IsPadding(n, buf \o w)
  BY <1>2, <1>3, <1>4, <1>5 DEF IsPadding
<1>7. IsPadding(Padding(buf \o w), buf \o w)
  BY <1>2, PaddingIs
<1>8. Len(buf \o w) \in Nat
  BY <1>2, <1>3
<1>9. QED BY <1>1, <1>6, <1>7, <1>8, PaddingUnique

Closes(buf) == Len(buf) >= 2 /\ SubSeq(buf, 1, 2) = <<"-", "-">>

LEMMA ClosesIs ==
  ASSUME NEW buf \in Seq(Byte)
  PROVE  Closes(buf) <=> Len(buf) >= 2 /\ buf[1] = "-" /\ buf[2] = "-"
<1>1. CASE Len(buf) >= 2
  <2>1. IsSlice(SubSeq(buf, 1, 2), buf, 1, 2)
    BY <1>1, SliceHas
  <2>2. PICK t \in Seq(Byte) : t = SubSeq(buf, 1, 2) /\ Len(t) = 2 /\ t[1] = buf[1] /\ t[2] = buf[2]
    <3>1. 1 \in 1..Len(SubSeq(buf, 1, 2)) /\ 2 \in 1..Len(SubSeq(buf, 1, 2))
      BY <2>1 DEF IsSlice
    <3>2. SubSeq(buf, 1, 2)[1] = buf[(1 + 1) - 1] /\ SubSeq(buf, 1, 2)[2] = buf[(1 + 2) - 1]
      BY <2>1, <3>1 DEF IsSlice
    <3>3. (1 + 1) - 1 = 1 /\ (1 + 2) - 1 = 2
      OBVIOUS
    <3>4. SubSeq(buf, 1, 2) \in Seq(Byte) /\ Len(SubSeq(buf, 1, 2)) = 2
      BY <2>1 DEF IsSlice
    <3>5. SubSeq(buf, 1, 2)[1] = buf[1] /\ SubSeq(buf, 1, 2)[2] = buf[2]
      BY Zenon, <3>2, <3>3
    <3>6. QED BY Zenon, <3>4, <3>5
  <2>3. t = <<"-", "-">> <=> t[1] = "-" /\ t[2] = "-"
    <3>1. /\ <<"-", "-">> \in Seq(Byte) /\ Len(<<"-", "-">>) = 2
          /\ <<"-", "-">>[1] = "-" /\ <<"-", "-">>[2] = "-"
      <4>1. <<"-", "-">> \in Seq(Byte)
        BY MultipartAssumption
      <4>2. Len(<<"-", "-">>) = 2
        OBVIOUS
      <4>3. <<"-", "-">>[1] = "-"
        OBVIOUS
      <4>4. <<"-", "-">>[2] = "-"
        OBVIOUS
      <4>5. QED BY <4>1, <4>2, <4>3, <4>4
    <3>2. PICK d \in Seq(Byte) : d = <<"-", "-">> /\ Len(d) = 2 /\ d[1] = "-" /\ d[2] = "-"
      BY Zenon, <3>1
    <3>3. ASSUME t[1] = "-", t[2] = "-"  PROVE t = d
      <4>1. \A j \in 1..2 : j = 1 \/ j = 2
        OBVIOUS
      <4>2. \A j \in 1..Len(t) : t[j] = d[j]
        BY <2>2, <3>2, <3>3, <4>1
      <4>3. QED BY <2>2, <3>2, <4>2, SameSeq
    <3>4. QED BY Zenon, <3>2, <3>3
  <2>4. QED BY <1>1, <2>2, <2>3 DEF Closes
<1>2. CASE ~ (Len(buf) >= 2)
  BY <1>2 DEF Closes
<1>3. QED BY <1>1, <1>2

Is(kind, used) == [kind |-> kind, used |-> used]

LEMMA SuffixCases ==
  ASSUME NEW buf \in Seq(Byte), NEW eof \in BOOLEAN
  PROVE  LET n == Padding(buf)
             at == n + 1
         IN Suffix(buf, eof) =
              IF Len(buf) < 2 /\ ~eof THEN Is("more", 0)
              ELSE IF Closes(buf) THEN Is("close", 2)
              ELSE IF n > MaxPadding THEN Is("invalid", 0)
              ELSE IF at > Len(buf) THEN Is(IF eof THEN "truncated" ELSE "more", 0)
              ELSE IF buf[at] \notin {"r", "n"} THEN Is("false", 0)
              ELSE IF buf[at] = "r" /\ at = Len(buf) /\ ~eof THEN Is("more", 0)
              ELSE Is("next", IF buf[at] = "r" /\ at < Len(buf) /\ buf[at + 1] = "n" THEN at + 1 ELSE at)
  BY Zenon DEF Suffix, Padding, Closes, Is

SuffixFits(x, buf, eof) ==
  /\ x.used \in Nat /\ x.used <= Len(buf)
  /\ x.kind \in {"more", "close", "invalid", "truncated", "false", "next"}
  /\ x.kind = "more" => ~eof /\ Len(buf) <= MaxPadding + 1
  /\ x.kind \in {"more", "false"} => x.used = 0
  /\ x = Is(x.kind, x.used)

LEMMA SuffixIs ==
  ASSUME NEW buf \in Seq(Byte), NEW eof \in BOOLEAN
  PROVE  SuffixFits(Suffix(buf, eof), buf, eof)
<1>1. IsPadding(Padding(buf), buf)
  BY PaddingIs
<1>2. PICK n \in Nat : n = Padding(buf) /\ n <= Len(buf)
  BY <1>1 DEF IsPadding
<1>3. Len(buf) \in Nat /\ MaxPadding \in Nat
  BY MultipartAssumption
<1>4. Closes(buf) => Len(buf) >= 2
  BY DEF Closes
<1>5. Suffix(buf, eof) =
        IF Len(buf) < 2 /\ ~eof THEN Is("more", 0)
        ELSE IF Closes(buf) THEN Is("close", 2)
        ELSE IF n > MaxPadding THEN Is("invalid", 0)
        ELSE IF n + 1 > Len(buf) THEN Is(IF eof THEN "truncated" ELSE "more", 0)
        ELSE IF buf[n + 1] \notin {"r", "n"} THEN Is("false", 0)
        ELSE IF buf[n + 1] = "r" /\ n + 1 = Len(buf) /\ ~eof THEN Is("more", 0)
        ELSE Is("next", IF buf[n + 1] = "r" /\ n + 1 < Len(buf) /\ buf[(n + 1) + 1] = "n"
                        THEN (n + 1) + 1 ELSE n + 1)
  BY <1>2, SuffixCases
<1>6. QED BY <1>2, <1>3, <1>4, <1>5 DEF SuffixFits, Is

\* What is decided of the bytes behind a boundary stays as it is, whatever bytes
\* come behind them.
LEMMA SuffixKept ==
  ASSUME NEW buf \in Seq(Byte), NEW w \in Seq(Byte), NEW eof \in BOOLEAN,
         eof => w = <<>>, Suffix(buf, eof).kind # "more"
  PROVE  Suffix(buf \o w, TRUE) = Suffix(buf, eof)
<1>1. IsPadding(Padding(buf), buf)
  BY PaddingIs
<1>2. PICK n \in Nat : n = Padding(buf) /\ n <= Len(buf)
  BY <1>1 DEF IsPadding
<1>3. Len(buf) \in Nat /\ MaxPadding \in Nat /\ Len(w) \in Nat
  BY MultipartAssumption
<1>4. CASE eof
  <2>1. buf \o w = buf /\ eof = TRUE
    BY <1>4
  <2>2. QED BY <2>1
<1>5. CASE ~eof
  <2>0. PICK x : x = Suffix(buf, FALSE)
    OBVIOUS
  <2>1. x =
        IF Len(buf) < 2 THEN Is("more", 0)
        ELSE IF Closes(buf) THEN Is("close", 2)
        ELSE IF n > MaxPadding THEN Is("invalid", 0)
        ELSE IF n + 1 > Len(buf) THEN Is("more", 0)
        ELSE IF buf[n + 1] \notin {"r", "n"} THEN Is("false", 0)
        ELSE IF buf[n + 1] = "r" /\ n + 1 = Len(buf) THEN Is("more", 0)
        ELSE Is("next", IF buf[n + 1] = "r" /\ n + 1 < Len(buf) /\ buf[(n + 1) + 1] = "n"
                        THEN (n + 1) + 1 ELSE n + 1)
    BY <1>2, <2>0, SuffixCases
  <2>2. x # Is("more", 0) /\ eof = FALSE
    <3>1. eof = FALSE
      BY <1>5
    <3>2. x.kind # "more"
      BY Zenon, <2>0, <3>1
    <3>3. Is("more", 0).kind = "more"
      BY DEF Is
    <3>4. QED BY Zenon, <3>1, <3>2, <3>3
  <2>3. ~ (Len(buf) < 2)
    BY Zenon, <2>1, <2>2
  <2>4. PICK s \in Seq(Byte) :
          s = buf \o w /\ Len(s) = Len(buf) + Len(w) /\ \A i \in 1..Len(buf) : s[i] = buf[i]
    BY Both
  <2>5. Closes(s) <=> Closes(buf)
    <3>1. s[1] = buf[1] /\ s[2] = buf[2] /\ Len(s) >= 2 /\ Len(buf) >= 2
      BY <1>3, <2>3, <2>4
    <3>2. Closes(buf) <=> Len(buf) >= 2 /\ buf[1] = "-" /\ buf[2] = "-"
      BY ClosesIs
    <3>3. Closes(s) <=> Len(s) >= 2 /\ s[1] = "-" /\ s[2] = "-"
      BY ClosesIs
    <3>4. QED BY Zenon, <3>1, <3>2, <3>3
  <2>6. PICK m \in Nat : m = Padding(s) /\ m <= Len(s) /\ IsPadding(m, s)
    <3>1. IsPadding(Padding(s), s)
      BY PaddingIs
    <3>2. QED BY <3>1 DEF IsPadding
  <2>7. Suffix(s, TRUE) =
        IF Closes(s) THEN Is("close", 2)
        ELSE IF m > MaxPadding THEN Is("invalid", 0)
        ELSE IF m + 1 > Len(s) THEN Is("truncated", 0)
        ELSE IF s[m + 1] \notin {"r", "n"} THEN Is("false", 0)
        ELSE Is("next", IF s[m + 1] = "r" /\ m + 1 < Len(s) /\ s[(m + 1) + 1] = "n"
                        THEN (m + 1) + 1 ELSE m + 1)
    BY <2>6, SuffixCases
  <2>8. CASE Closes(buf)
    <3>1. x = Is("close", 2)
      BY Zenon, <2>1, <2>3, <2>8
    <3>2. Suffix(s, TRUE) = Is("close", 2)
      BY Zenon, <2>5, <2>7, <2>8
    <3>3. QED BY Zenon, <2>0, <2>2, <2>4, <3>1, <3>2
  <2>9. CASE ~Closes(buf) /\ n < Len(buf)
    <3>1. m = n
      BY <1>2, <2>4, <2>6, <2>9, PaddingKept
    <3>2. n + 1 \in 1..Len(buf) /\ s[n + 1] = buf[n + 1] /\ ~ (n + 1 > Len(buf)) /\ ~ (n + 1 > Len(s))
      BY <1>3, <2>4, <2>9
    <3>3. CASE n > MaxPadding
      <4>1. x = Is("invalid", 0)
        BY Zenon, <2>1, <2>3, <2>9, <3>3
      <4>2. Suffix(s, TRUE) = Is("invalid", 0)
        BY Zenon, <2>5, <2>7, <2>9, <3>1, <3>3
      <4>3. QED BY Zenon, <2>0, <2>2, <2>4, <4>1, <4>2
    <3>4. CASE ~ (n > MaxPadding) /\ buf[n + 1] \notin {"r", "n"}
      <4>1. x = Is("false", 0)
        BY Zenon, <2>1, <2>3, <2>9, <3>2, <3>4
      <4>2. Suffix(s, TRUE) = Is("false", 0)
        BY Zenon, <2>5, <2>7, <2>9, <3>1, <3>2, <3>4
      <4>3. QED BY Zenon, <2>0, <2>2, <2>4, <4>1, <4>2
    <3>5. CASE ~ (n > MaxPadding) /\ buf[n + 1] \in {"r", "n"}
      <4>1. ~ (buf[n + 1] = "r" /\ n + 1 = Len(buf))
        BY Zenon, <2>1, <2>2, <2>3, <2>9, <3>2, <3>5
      <4>2. buf[n + 1] = "r" => /\ n + 1 < Len(buf) /\ n + 1 < Len(s)
                                /\ s[(n + 1) + 1] = buf[(n + 1) + 1]
        BY <1>3, <2>4, <3>2, <4>1
      <4>3. PICK used : used = IF buf[n + 1] = "r" /\ n + 1 < Len(buf) /\ buf[(n + 1) + 1] = "n"
                               THEN (n + 1) + 1 ELSE n + 1
        OBVIOUS
      <4>4. x = Is("next", used)
        BY Zenon, <2>1, <2>3, <2>9, <3>2, <3>5, <4>1, <4>3
      <4>5. used = IF s[m + 1] = "r" /\ m + 1 < Len(s) /\ s[(m + 1) + 1] = "n"
                   THEN (m + 1) + 1 ELSE m + 1
        BY Zenon, <3>1, <3>2, <4>2, <4>3
      <4>6. Suffix(s, TRUE) = Is("next", used)
        BY Zenon, <2>5, <2>7, <2>9, <3>1, <3>2, <3>5, <4>5
      <4>7. QED BY Zenon, <2>0, <2>2, <2>4, <4>4, <4>6
    <3>6. QED BY <3>3, <3>4, <3>5
  <2>10. CASE ~Closes(buf) /\ n = Len(buf)
    <3>1. n > MaxPadding
      <4>1. n + 1 > Len(buf)
        BY <1>3, <2>10
      <4>2. QED BY Zenon, <2>1, <2>2, <2>3, <2>10, <4>1
    <3>2. m >= n
      <4>1. ASSUME m < n  PROVE FALSE
        <5>1. m + 1 \in 1..n /\ m < Len(s) /\ m + 1 \in 1..Len(buf)
          BY <1>3, <2>4, <2>10, <4>1
        <5>2. buf[m + 1] \in Blank /\ s[m + 1] \notin Blank
          BY <1>1, <1>2, <2>6, <5>1 DEF IsPadding
        <5>3. QED BY <2>4, <5>1, <5>2
      <4>2. QED BY <4>1
    <3>3. m > MaxPadding
      BY <1>3, <3>1, <3>2
    <3>4. x = Is("invalid", 0)
      BY Zenon, <2>1, <2>3, <2>10, <3>1
    <3>5. Suffix(s, TRUE) = Is("invalid", 0)
      BY Zenon, <2>5, <2>7, <2>10, <3>3
    <3>6. QED BY Zenon, <2>0, <2>2, <2>4, <3>4, <3>5
  <2>11. n < Len(buf) \/ n = Len(buf)
    BY <1>2, <1>3
  <2>12. QED BY Zenon, <2>8, <2>9, <2>10, <2>11
<1>6. QED BY <1>4, <1>5

-----------------------------------------------------------------------------
(* Boundaries *)

Occurs(s, i, needle) ==
  /\ i + Len(needle) <= Len(s) + 1
  /\ \A k \in 1..Len(needle) : s[(i + k) - 1] = needle[k]

Needles == {FirstNeedle, Delim}

IsNeedle(needle) ==
  /\ needle \in Seq(Byte) /\ Len(needle) \in Nat \ {0} /\ Len(needle) <= 5

LEMMA FirstNeedleIs ==
  /\ FirstNeedle \in Seq(Byte) /\ Len(FirstNeedle) = 3
  /\ FirstNeedle[1] = "-" /\ FirstNeedle[2] = "-" /\ FirstNeedle[3] = "b"
<1>1. FirstNeedle \in Seq(Byte)
  BY MultipartAssumption DEF FirstNeedle
<1>2. Len(FirstNeedle) = 3
  BY DEF FirstNeedle
<1>3. FirstNeedle[1] = "-" /\ FirstNeedle[2] = "-"
  BY DEF FirstNeedle
<1>4. FirstNeedle[3] = "b"
  BY DEF FirstNeedle
<1>5. QED BY <1>1, <1>2, <1>3, <1>4

LEMMA FiveJoined ==
  ASSUME NEW d \in Seq(Byte), NEW f \in Seq(Byte), Len(d) = 2, Len(f) = 3
  PROVE  /\ d \o f \in Seq(Byte) /\ Len(d \o f) = 5
         /\ (d \o f)[1] = d[1] /\ (d \o f)[2] = d[2]
         /\ (d \o f)[3] = f[1] /\ (d \o f)[4] = f[2] /\ (d \o f)[5] = f[3]
<1>1. PICK t \in Seq(Byte) :
        /\ t = d \o f /\ Len(t) = Len(d) + Len(f)
        /\ \A k \in 1..(Len(d) + Len(f)) : t[k] = IF k <= Len(d) THEN d[k] ELSE f[k - Len(d)]
  <2>1. /\ d \o f \in Seq(Byte) /\ Len(d \o f) = Len(d) + Len(f)
        /\ \A k \in 1..(Len(d) + Len(f)) : (d \o f)[k] = IF k <= Len(d) THEN d[k] ELSE f[k - Len(d)]
    BY Zenon, ConcatProperties
  <2>2. QED BY Zenon, <2>1
<1>2. /\ Len(t) = 5
      /\ \A k \in 1..5 : t[k] = IF k <= 2 THEN d[k] ELSE f[k - 2]
  BY <1>1
<1>3. QED BY <1>1, <1>2

LEMMA DelimIs ==
  /\ Delim \in Seq(Byte) /\ Len(Delim) = 5 /\ Retain = 5
  /\ Delim[1] = "r" /\ Delim[2] = "n" /\ Delim[3] = "-" /\ Delim[4] = "-" /\ Delim[5] = "b"
<1>1. PICK d \in Seq(Byte) : d = <<"r", "n">> /\ Len(d) = 2 /\ d[1] = "r" /\ d[2] = "n"
  <2>1. <<"r", "n">> \in Seq(Byte)
    BY MultipartAssumption
  <2>2. QED BY <2>1
<1>2. PICK f \in Seq(Byte) : f = FirstNeedle /\ Len(f) = 3 /\ f[1] = "-" /\ f[2] = "-" /\ f[3] = "b"
  BY Zenon, FirstNeedleIs
<1>6. Delim = d \o f
  BY Zenon, <1>1, <1>2 DEF Delim
<1>3. /\ d \o f \in Seq(Byte) /\ Len(d \o f) = 5
      /\ (d \o f)[1] = d[1] /\ (d \o f)[2] = d[2]
      /\ (d \o f)[3] = f[1] /\ (d \o f)[4] = f[2] /\ (d \o f)[5] = f[3]
  BY <1>1, <1>2, FiveJoined
<1>7. QED BY Zenon, <1>1, <1>2, <1>3, <1>6 DEF Retain

LEMMA NeedleIs ==
  ASSUME NEW needle \in Needles
  PROVE  IsNeedle(needle)
<1>1. needle \in Seq(Byte) /\ (Len(needle) = 3 \/ Len(needle) = 5)
  BY Zenon, FirstNeedleIs, DelimIs DEF Needles
<1>2. PICK n : n = Len(needle) /\ (n = 3 \/ n = 5)
  BY Zenon, <1>1
<1>3. n \in Nat \ {0} /\ n <= 5
  BY <1>2
<1>4. QED BY Zenon, <1>1, <1>2, <1>3 DEF IsNeedle

\* An occurrence is a slice.
LEMMA OccursIs ==
  ASSUME NEW s \in Seq(Byte), NEW i \in Nat \ {0}, NEW needle, IsNeedle(needle)
  PROVE  Occurs(s, i, needle) <=>
           i \in 1..((Len(s) - Len(needle)) + 1) /\ SubSeq(s, i, (i + Len(needle)) - 1) = needle
<1>1. PICK n \in Nat : n = Len(needle) /\ n >= 1 /\ needle \in Seq(Byte)
  BY DEF IsNeedle
<1>2. Len(s) \in Nat /\ (i \in 1..((Len(s) - n) + 1) <=> i + n <= Len(s) + 1)
  BY <1>1
<1>3. CASE i + n <= Len(s) + 1
  <2>1. PICK j \in Nat : j = (i + n) - 1 /\ j <= Len(s) /\ i <= j /\ (j + 1) - i = n
    <3>1. (i + n) - 1 \in Nat /\ (i + n) - 1 <= Len(s) /\ i <= (i + n) - 1 /\ (((i + n) - 1) + 1) - i = n
      BY <1>1, <1>2, <1>3
    <3>2. QED BY <3>1
  <2>2. IsSlice(SubSeq(s, i, j), s, i, j)
    BY <2>1, SliceHas
  <2>3. ASSUME \A k \in 1..n : s[(i + k) - 1] = needle[k]  PROVE SubSeq(s, i, j) = needle
    <3>1. IsSlice(needle, s, i, j)
      BY <1>1, <2>1, <2>3 DEF IsSlice
    <3>2. QED BY <2>2, <3>1, SliceUnique
  <2>4. ASSUME SubSeq(s, i, j) = needle  PROVE \A k \in 1..n : s[(i + k) - 1] = needle[k]
    BY <1>1, <2>2, <2>4 DEF IsSlice
  <2>5. QED BY <1>1, <1>2, <1>3, <2>1, <2>3, <2>4 DEF Occurs
<1>4. CASE ~ (i + n <= Len(s) + 1)
  BY <1>1, <1>2, <1>4 DEF Occurs
<1>5. QED BY <1>3, <1>4

IsFirst(at, s, needle) ==
  /\ at \in Nat
  /\ at = 0 => \A i \in Nat \ {0} : ~Occurs(s, i, needle)
  /\ at # 0 => Occurs(s, at, needle) /\ \A i \in 1..(at - 1) : ~Occurs(s, i, needle)

LEMMA IndexIs ==
  ASSUME NEW s \in Seq(Byte), NEW needle, IsNeedle(needle)
  PROVE  IsFirst(IndexOf(s, needle), s, needle)
<1> DEFINE S == {i \in 1..(Len(s) - Len(needle) + 1) : SubSeq(s, i, i + Len(needle) - 1) = needle}
<1>1. Len(needle) \in Nat /\ Len(s) \in Nat
  BY DEF IsNeedle
<1>2. \A i \in Nat \ {0} : i \in S <=> Occurs(s, i, needle)
  BY <1>1, OccursIs
<1>3. S \subseteq Nat \ {0}
  BY <1>1
<1>4. IndexOf(s, needle) = Lowest(S)
  BY DEF IndexOf
<1> HIDE DEF S
<1>5. CASE S = {}
  BY <1>2, <1>4, <1>5, LowestNone DEF IsFirst
<1>6. CASE S # {}
  <2>1. PICK m : m = Lowest(S)
    OBVIOUS
  <2>2. m \in S /\ m \in Nat /\ \A y \in S : m <= y
    BY <1>3, <1>6, <2>1, LowestIs
  <2>3. ASSUME NEW i \in 1..(m - 1)  PROVE ~Occurs(s, i, needle)
    <3>1. i \in Nat \ {0} /\ ~ (m <= i)
      BY <2>2
    <3>2. QED BY <1>2, <2>2, <3>1
  <2>4. m # 0 /\ Occurs(s, m, needle)
    BY <1>2, <1>3, <2>2
  <2>5. QED BY <1>4, <2>1, <2>2, <2>3, <2>4 DEF IsFirst
<1>7. QED BY <1>5, <1>6

\* Boundaries in what is left of a sequence are boundaries of the sequence.
LEMMA OccursRest ==
  ASSUME NEW s \in Seq(Byte), NEW n \in Nat, n <= Len(s), NEW i \in Nat \ {0},
         NEW needle, IsNeedle(needle)
  PROVE  Occurs(From(s, n + 1), i, needle) <=> Occurs(s, n + i, needle)
<1>1. PICK m \in Nat : m = Len(needle) /\ m >= 1
  BY DEF IsNeedle
<1>2. PICK t \in Seq(Byte) : t = From(s, n + 1) /\ IsRest(t, s, n + 1)
  <2>1. IsRest(From(s, n + 1), s, n + 1)
    BY FromIs
  <2>2. QED BY <2>1 DEF IsRest
<1>3. Len(s) \in Nat /\ Len(t) = Len(s) - n
  BY <1>2 DEF IsRest
<1>4. i + m <= Len(t) + 1 <=> (n + i) + m <= Len(s) + 1
  BY <1>3
<1>5. ASSUME i + m <= Len(t) + 1, NEW k \in 1..m  PROVE t[(i + k) - 1] = s[((n + i) + k) - 1]
  <2>1. (i + k) - 1 \in 1..Len(t)
    BY <1>3, <1>5
  <2>2. t[(i + k) - 1] = s[((n + 1) + ((i + k) - 1)) - 1]
    BY <1>2, <2>1 DEF IsRest
  <2>3. ((n + 1) + ((i + k) - 1)) - 1 = ((n + i) + k) - 1
    BY <1>5
  <2>4. QED BY <2>2, <2>3
<1>6. QED BY <1>1, <1>2, <1>4, <1>5 DEF Occurs

LEMMA OccursBoth ==
  ASSUME NEW s \in Seq(Byte), NEW w \in Seq(Byte), NEW i \in Nat \ {0},
         NEW needle, IsNeedle(needle), i + Len(needle) <= Len(s) + 1
  PROVE  Occurs(s \o w, i, needle) <=> Occurs(s, i, needle)
<1>1. PICK m \in Nat : m = Len(needle) /\ m >= 1
  BY DEF IsNeedle
<1>2. PICK t \in Seq(Byte) : t = s \o w /\ Len(t) = Len(s) + Len(w) /\ \A k \in 1..Len(s) : t[k] = s[k]
  BY Both
<1>3. i + m <= Len(s) + 1 /\ i + m <= Len(t) + 1
  BY <1>1, <1>2
<1>4. \A k \in 1..m : t[(i + k) - 1] = s[(i + k) - 1]
  <2>1. ASSUME NEW k \in 1..m  PROVE t[(i + k) - 1] = s[(i + k) - 1]
    <3>1. (i + k) - 1 \in 1..Len(s)
      BY <1>3
    <3>2. QED BY <1>2, <3>1
  <2>2. QED BY <2>1
<1>5. QED BY <1>1, <1>2, <1>3, <1>4 DEF Occurs

\* A boundary is not the beginning of another one.
LEMMA NoOverlap ==
  ASSUME NEW s \in Seq(Byte), NEW i \in Nat \ {0}, NEW j \in Nat \ {0}, NEW needle \in Needles,
         Occurs(s, i, needle), Occurs(s, j, needle), i < j
  PROVE  j >= i + Len(needle)
<1>1. CASE needle = Delim
  <2>1. /\ s[i + 1] = "n" /\ s[i + 2] = "-" /\ s[i + 3] = "-" /\ s[i + 4] = "b" /\ s[j] = "r"
    <3>1. \A k \in 1..5 : s[(i + k) - 1] = Delim[k] /\ s[(j + k) - 1] = Delim[k]
      BY <1>1, DelimIs DEF Occurs
    <3>2. (i + 2) - 1 = i + 1 /\ (i + 3) - 1 = i + 2 /\ (i + 4) - 1 = i + 3 /\ (i + 5) - 1 = i + 4
          /\ (j + 1) - 1 = j /\ 1 \in 1..5 /\ 2 \in 1..5 /\ 3 \in 1..5 /\ 4 \in 1..5 /\ 5 \in 1..5
      OBVIOUS
    <3>3. s[j] = Delim[1] /\ s[i + 1] = Delim[2] /\ s[i + 2] = Delim[3] /\ s[i + 3] = Delim[4] /\ s[i + 4] = Delim[5]
      BY Zenon, <3>1, <3>2
    <3>4. QED BY Zenon, <3>3, DelimIs
  <2>2. j # i + 1 /\ j # i + 2 /\ j # i + 3 /\ j # i + 4
    BY Zenon, <2>1
  <2>3. QED BY <1>1, <2>2, DelimIs
<1>2. CASE needle = FirstNeedle
  <2>1. \A k \in 1..3 : s[(i + k) - 1] = FirstNeedle[k] /\ s[(j + k) - 1] = FirstNeedle[k]
    BY <1>2, FirstNeedleIs DEF Occurs
  <2>2. (i + 3) - 1 = i + 2 /\ (j + 1) - 1 = j /\ (j + 2) - 1 = j + 1
        /\ 1 \in 1..3 /\ 2 \in 1..3 /\ 3 \in 1..3
    OBVIOUS
  <2>3. s[i + 2] = FirstNeedle[3] /\ s[j] = FirstNeedle[1] /\ s[j + 1] = FirstNeedle[2]
    BY Zenon, <2>1, <2>2
  <2>4. s[i + 2] = "b" /\ s[j] = "-" /\ s[j + 1] = "-"
    BY Zenon, <2>3, FirstNeedleIs
  <2>5. j # i + 2 /\ j + 1 # i + 2
    BY Zenon, <2>4
  <2>6. QED BY <1>2, <2>5, FirstNeedleIs
<1>3. QED BY <1>1, <1>2 DEF Needles

IsDelimiter(s, i, needle) ==
  /\ i \in Nat \ {0} /\ Occurs(s, i, needle)
  /\ Suffix(From(s, i + Len(needle)), TRUE).kind # "false"

LEMMA DelimitersAre ==
  ASSUME NEW s \in Seq(Byte), NEW needle, IsNeedle(needle)
  PROVE  /\ Delimiters(s, needle) \subseteq Nat \ {0}
         /\ \A i : i \in Delimiters(s, needle) <=> IsDelimiter(s, i, needle)
<1>1. Len(needle) \in Nat /\ Len(s) \in Nat
  BY DEF IsNeedle
<1>2. Delimiters(s, needle) \subseteq Nat \ {0}
  <2>1. Delimiters(s, needle) \subseteq 1..(Len(s) - Len(needle) + 1)
    BY Zenon DEF Delimiters
  <2>2. 1..(Len(s) - Len(needle) + 1) \subseteq Nat \ {0}
    BY <1>1
  <2>3. QED BY Zenon, <2>1, <2>2
<1>3. ASSUME NEW i \in Nat \ {0}
      PROVE  i \in Delimiters(s, needle) <=> IsDelimiter(s, i, needle)
  <2>1. Occurs(s, i, needle) <=>
           i \in 1..(Len(s) - Len(needle) + 1) /\ SubSeq(s, i, i + Len(needle) - 1) = needle
    BY OccursIs
  <2>2. QED BY Zenon, <2>1 DEF Delimiters, IsDelimiter
<1>4. ASSUME NEW i, i \notin Nat \ {0}  PROVE i \notin Delimiters(s, needle) /\ ~IsDelimiter(s, i, needle)
  BY <1>2, <1>4 DEF IsDelimiter
<1>5. QED BY Zenon, <1>2, <1>3, <1>4

LEMMA DelimiterRest ==
  ASSUME NEW s \in Seq(Byte), NEW n \in Nat, n <= Len(s), NEW i \in Nat \ {0},
         NEW needle, IsNeedle(needle)
  PROVE  IsDelimiter(From(s, n + 1), i, needle) <=> IsDelimiter(s, n + i, needle)
<1>1. PICK m \in Nat : m = Len(needle) /\ m >= 1
  BY DEF IsNeedle
<1>2. From(From(s, n + 1), i + m) = From(s, ((n + 1) + (i + m)) - 1)
  <2>1. n + 1 \in Nat \ {0} /\ i + m \in Nat \ {0} /\ n + 1 <= Len(s) + 1
    OBVIOUS
  <2>2. QED BY <2>1, FromFrom
<1>3. ((n + 1) + (i + m)) - 1 = (n + i) + m /\ n + i \in Nat \ {0}
  OBVIOUS
<1>4. Occurs(From(s, n + 1), i, needle) <=> Occurs(s, n + i, needle)
  BY OccursRest
<1>5. QED BY Zenon, <1>1, <1>2, <1>3, <1>4 DEF IsDelimiter

-----------------------------------------------------------------------------
(* The cut at the first delimiter *)

\* What Cut says: there is no delimiter, or the cut is at the first one.
CutAtDelimiter(c, s, i, needle) ==
  LET after == From(s, i + Len(needle))
      x == Suffix(after, TRUE)
  IN /\ IsDelimiter(s, i, needle) /\ \A j \in 1..(i - 1) : ~IsDelimiter(s, j, needle)
     /\ c = [before |-> SubSeq(s, 1, i - 1), kind |-> x.kind, rest |-> From(after, x.used + 1)]

Uncut(c, s, needle) ==
  /\ \A j : ~IsDelimiter(s, j, needle)
  /\ c = [before |-> s, kind |-> "truncated", rest |-> <<>>]

LEMMA CutIs ==
  ASSUME NEW s \in Seq(Byte), NEW needle, IsNeedle(needle)
  PROVE  Uncut(Cut(s, needle), s, needle) \/ \E i \in Nat \ {0} : CutAtDelimiter(Cut(s, needle), s, i, needle)
<1>1. PICK at : at = Lowest(Delimiters(s, needle))
  OBVIOUS
<1>2. /\ Delimiters(s, needle) \subseteq Nat \ {0}
      /\ \A i : i \in Delimiters(s, needle) <=> IsDelimiter(s, i, needle)
  BY DelimitersAre
<1>3. CASE Delimiters(s, needle) = {}
  <2>1. at = 0
    BY <1>1, <1>3, LowestNone
  <2>2. Cut(s, needle) = [before |-> s, kind |-> "truncated", rest |-> <<>>]
    BY Zenon, <1>1, <2>1 DEF Cut
  <2>3. QED BY Zenon, <1>2, <1>3, <2>2 DEF Uncut
<1>4. CASE Delimiters(s, needle) # {}
  <2>1. at \in Delimiters(s, needle) /\ at \in Nat /\ \A y \in Delimiters(s, needle) : at <= y
    <3>1. Delimiters(s, needle) \subseteq Nat
      BY Zenon, <1>2
    <3>2. QED BY <1>1, <1>4, <3>1, LowestIs
  <2>2. at \in Nat \ {0} /\ IsDelimiter(s, at, needle)
    BY Zenon, <1>2, <2>1
  <2>3. ASSUME NEW j \in 1..(at - 1)  PROVE ~IsDelimiter(s, j, needle)
    <3>1. ~ (at <= j)
      BY <2>1
    <3>2. QED BY Zenon, <1>2, <2>1, <3>1
  <2>4. at # 0
    BY <2>2
  <2>5. CutAtDelimiter(Cut(s, needle), s, at, needle)
    BY Zenon, <1>1, <2>2, <2>3, <2>4 DEF Cut, CutAtDelimiter
  <2>6. QED BY Zenon, <2>2, <2>5
<1>5. QED BY <1>3, <1>4

\* No delimiter begins within the first n bytes.
Clear(s, n, needle) == \A i \in Nat \ {0} : IsDelimiter(s, i, needle) => i > n

LEMMA CutOnce ==
  ASSUME NEW s, NEW needle, NEW c, NEW d, NEW i \in Nat \ {0}, NEW j \in Nat \ {0},
         CutAtDelimiter(c, s, i, needle), CutAtDelimiter(d, s, j, needle)
  PROVE  i = j /\ c = d
<1>1. ~ (i < j) /\ ~ (j < i)
  <2>1. i < j => i \in 1..(j - 1)
    OBVIOUS
  <2>2. j < i => j \in 1..(i - 1)
    OBVIOUS
  <2>3. QED BY Zenon, <2>1, <2>2 DEF CutAtDelimiter
<1>2. i = j
  BY <1>1
<1>3. c = d
  BY Zenon, <1>2 DEF CutAtDelimiter
<1>4. QED BY <1>2, <1>3

\* A delimiter that is the first one is where the cut is.
LEMMA CutHere ==
  ASSUME NEW s \in Seq(Byte), NEW needle, IsNeedle(needle), NEW i \in Nat \ {0},
         IsDelimiter(s, i, needle), Clear(s, i - 1, needle)
  PROVE  CutAtDelimiter(Cut(s, needle), s, i, needle)
<1>1. ~Uncut(Cut(s, needle), s, needle)
  BY Zenon DEF Uncut
<1>2. PICK j \in Nat \ {0} : CutAtDelimiter(Cut(s, needle), s, j, needle)
  BY <1>1, CutIs
<1>3. IsDelimiter(s, j, needle) /\ \A k \in 1..(j - 1) : ~IsDelimiter(s, k, needle)
  BY Zenon, <1>2 DEF CutAtDelimiter
<1>4. j > i - 1
  BY <1>3 DEF Clear
<1>5. ~ (i < j)
  <2>1. i < j => i \in 1..(j - 1)
    OBVIOUS
  <2>2. QED BY Zenon, <1>3, <2>1
<1>6. i = j
  BY <1>4, <1>5
<1>7. QED BY Zenon, <1>2, <1>6

\* Bytes in which no delimiter begins can be taken away first.
LEMMA CutRest ==
  ASSUME NEW s \in Seq(Byte), NEW needle, IsNeedle(needle), NEW n \in Nat, n <= Len(s),
         Clear(s, n, needle)
  PROVE  /\ Cut(From(s, n + 1), needle).kind = Cut(s, needle).kind
         /\ Cut(From(s, n + 1), needle).rest = Cut(s, needle).rest
<1>1. PICK t \in Seq(Byte) : t = From(s, n + 1)
  <2>1. IsRest(From(s, n + 1), s, n + 1)
    BY FromIs
  <2>2. QED BY <2>1 DEF IsRest
<1>2. \A i \in Nat \ {0} : IsDelimiter(t, i, needle) <=> IsDelimiter(s, n + i, needle)
  BY <1>1, DelimiterRest
<1>3. CASE Uncut(Cut(t, needle), t, needle)
  <2>1. ASSUME NEW j \in Nat \ {0}  PROVE ~IsDelimiter(s, j, needle)
    <3>1. CASE j <= n
      BY <3>1 DEF Clear
    <3>2. CASE j > n
      <4>1. j - n \in Nat \ {0} /\ n + (j - n) = j
        BY <3>2
      <4>2. QED BY Zenon, <1>2, <1>3, <4>1 DEF Uncut
    <3>3. QED BY <3>1, <3>2
  <2>2. ~ \E i \in Nat \ {0} : CutAtDelimiter(Cut(s, needle), s, i, needle)
    BY Zenon, <2>1 DEF CutAtDelimiter
  <2>3. Uncut(Cut(s, needle), s, needle)
    BY <2>2, CutIs
  <2>4. QED BY <1>1, <1>3, <2>3 DEF Uncut
<1>4. CASE ~Uncut(Cut(t, needle), t, needle)
  <2>1. PICK i \in Nat \ {0} : CutAtDelimiter(Cut(t, needle), t, i, needle)
    BY <1>4, CutIs
  <2>2. IsDelimiter(t, i, needle) /\ \A j \in 1..(i - 1) : ~IsDelimiter(t, j, needle)
    BY Zenon, <2>1 DEF CutAtDelimiter
  <2>3. IsDelimiter(s, n + i, needle) /\ n + i \in Nat \ {0}
    BY <1>2, <2>2
  <2>4. Clear(s, (n + i) - 1, needle)
    <3>1. ASSUME NEW j \in Nat \ {0}, IsDelimiter(s, j, needle)  PROVE j > (n + i) - 1
      <4>1. j > n
        BY <3>1 DEF Clear
      <4>2. j - n \in Nat \ {0} /\ n + (j - n) = j
        BY <4>1
      <4>3. IsDelimiter(t, j - n, needle)
        BY Zenon, <1>2, <3>1, <4>2
      <4>4. j - n \notin 1..(i - 1)
        BY Zenon, <2>2, <4>3
      <4>5. QED BY <4>2, <4>4
    <3>2. QED BY <3>1 DEF Clear
  <2>5. CutAtDelimiter(Cut(s, needle), s, n + i, needle)
    BY <2>3, <2>4, CutHere
  <2>6. PICK m \in Nat : m = Len(needle)
    BY DEF IsNeedle
  <2>7. From(t, i + m) = From(s, (n + i) + m)
    <3>1. n + 1 \in Nat \ {0} /\ i + m \in Nat \ {0} /\ n + 1 <= Len(s) + 1
          /\ ((n + 1) + (i + m)) - 1 = (n + i) + m
      OBVIOUS
    <3>2. From(From(s, n + 1), i + m) = From(s, ((n + 1) + (i + m)) - 1)
      BY <3>1, FromFrom
    <3>3. QED BY Zenon, <1>1, <3>1, <3>2
  <2>8. PICK after, x : after = From(t, i + m) /\ x = Suffix(after, TRUE)
    OBVIOUS
  <2>9. Cut(t, needle) = [before |-> SubSeq(t, 1, i - 1), kind |-> x.kind, rest |-> From(after, x.used + 1)]
    BY Zenon, <2>1, <2>6, <2>8 DEF CutAtDelimiter
  <2>10. Cut(s, needle) = [before |-> SubSeq(s, 1, (n + i) - 1), kind |-> x.kind,
                           rest |-> From(after, x.used + 1)]
    BY Zenon, <2>5, <2>6, <2>7, <2>8 DEF CutAtDelimiter
  <2>11. QED BY <1>1, <2>9, <2>10
<1>5. QED BY <1>3, <1>4

\* A cut is what it should be.
IsCut(c, s) ==
  /\ c.kind \in {"close", "invalid", "truncated", "next"}
  /\ c.rest \in Seq(Byte) /\ Len(c.rest) <= Len(s)
  /\ c.before \in Seq(Byte) /\ Len(c.before) <= Len(s) /\ c.before = SubSeq(s, 1, Len(c.before))

LEMMA CutTyped ==
  ASSUME NEW s \in Seq(Byte), NEW needle, IsNeedle(needle)
  PROVE  IsCut(Cut(s, needle), s)
<1>1. Len(s) \in Nat
  OBVIOUS
<1>2. CASE Uncut(Cut(s, needle), s, needle)
  <2>1. SubSeq(s, 1, Len(s)) = s
    <3>1. From(s, 1) = s
      BY FromFirst
    <3>2. QED BY <3>1 DEF From
  <2>2. QED BY <1>1, <1>2, <2>1 DEF Uncut, IsCut
<1>3. ASSUME NEW i \in Nat \ {0}, CutAtDelimiter(Cut(s, needle), s, i, needle)
      PROVE  IsCut(Cut(s, needle), s)
  <2>1. PICK m \in Nat : m = Len(needle) /\ m >= 1 /\ i + m <= Len(s) + 1
    <3>1. i + Len(needle) <= Len(s) + 1
      BY Zenon, <1>3 DEF CutAtDelimiter, IsDelimiter, Occurs
    <3>2. Len(needle) \in Nat /\ Len(needle) >= 1
      BY DEF IsNeedle
    <3>3. QED BY <3>1, <3>2
  <2>2. PICK after \in Seq(Byte) : after = From(s, i + m) /\ Len(after) = (Len(s) + 1) - (i + m)
    <3>1. i + m \in Nat \ {0}
      OBVIOUS
    <3>2. IsRest(From(s, i + m), s, i + m)
      BY <3>1, FromIs
    <3>3. QED BY <2>1, <3>2 DEF IsRest
  <2>3. PICK x : x = Suffix(after, TRUE) /\ SuffixFits(x, after, TRUE)
    BY SuffixIs
  <2>4. x.kind \in {"close", "invalid", "truncated", "next"}
    <3>1. x.kind # "false"
      BY Zenon, <1>3, <2>1, <2>2, <2>3 DEF CutAtDelimiter, IsDelimiter
    <3>2. QED BY <2>3, <3>1 DEF SuffixFits
  <2>5. IsRest(From(after, x.used + 1), after, x.used + 1) /\ x.used \in Nat
    <3>1. PICK u \in Nat : u = x.used
      BY Zenon, <2>3 DEF SuffixFits
    <3>2. u + 1 \in Nat \ {0}
      OBVIOUS
    <3>3. IsRest(From(after, u + 1), after, u + 1)
      BY <3>2, FromIs
    <3>4. QED BY Zenon, <3>1, <3>3
  <2>6. From(after, x.used + 1) \in Seq(Byte) /\ Len(From(after, x.used + 1)) <= Len(s)
    BY <1>1, <2>1, <2>2, <2>5 DEF IsRest
  <2>7. PICK b : b = SubSeq(s, 1, i - 1)
    OBVIOUS
  <2>8. b \in Seq(Byte) /\ Len(b) = i - 1 /\ Len(b) <= Len(s)
    <3>1. i - 1 \in Nat /\ i - 1 <= Len(s)
      BY <2>1
    <3>2. IsSlice(b, s, 1, i - 1)
      BY <2>7, <3>1, SliceHas
    <3>3. QED BY <3>1, <3>2 DEF IsSlice
  <2>9. Cut(s, needle) = [before |-> b, kind |-> x.kind, rest |-> From(after, x.used + 1)]
    BY Zenon, <1>3, <2>1, <2>2, <2>3, <2>7 DEF CutAtDelimiter
  <2>10. QED BY <2>4, <2>6, <2>7, <2>8, <2>9 DEF IsCut
<1>4. QED BY <1>2, <1>3, CutIs

\* As many bytes as are clear of delimiters are before the cut.
LEMMA ClearBefore ==
  ASSUME NEW s \in Seq(Byte), NEW needle, IsNeedle(needle), NEW n \in Nat, n <= Len(s),
         Clear(s, n, needle)
  PROVE  n <= Len(Cut(s, needle).before)
<1>1. CASE Uncut(Cut(s, needle), s, needle)
  BY <1>1 DEF Uncut
<1>2. ASSUME NEW i \in Nat \ {0}, CutAtDelimiter(Cut(s, needle), s, i, needle)
      PROVE  n <= Len(Cut(s, needle).before)
  <2>1. IsDelimiter(s, i, needle) /\ i > n
    BY <1>2 DEF CutAtDelimiter, Clear
  <2>2. Cut(s, needle).before = SubSeq(s, 1, i - 1)
    BY <1>2 DEF CutAtDelimiter
  <2>3. i - 1 \in Nat /\ i - 1 <= Len(s)
    BY <2>1 DEF IsDelimiter, Occurs, IsNeedle
  <2>4. IsSlice(SubSeq(s, 1, i - 1), s, 1, i - 1)
    BY <2>3, SliceHas
  <2>5. Len(SubSeq(s, 1, i - 1)) = i - 1
    BY <2>3, <2>4 DEF IsSlice
  <2>6. QED BY <2>1, <2>2, <2>5
<1>3. QED BY <1>1, <1>2, CutIs

-----------------------------------------------------------------------------
(* Lines *)

IsLine(l, s) ==
  /\ l \in Seq(Byte) /\ Len(l) <= Len(s) /\ \A k \in 1..Len(l) : l[k] = s[k] /\ s[k] # "n"
  /\ Len(l) < Len(s) => s[Len(l) + 1] = "n"

LEMMA NewlineIs ==
  IsNeedle(<<"n">>) /\ Len(<<"n">>) = 1 /\ <<"n">>[1] = "n"
<1>1. <<"n">> \in Seq(Byte)
  BY MultipartAssumption
<1>2. Len(<<"n">>) = 1 /\ <<"n">>[1] = "n"
  OBVIOUS
<1>3. 1 \in Nat \ {0} /\ 1 <= 5
  OBVIOUS
<1>4. QED BY Zenon, <1>1, <1>2, <1>3 DEF IsNeedle

LEMMA NewlineOccurs ==
  ASSUME NEW s \in Seq(Byte), NEW i \in Nat \ {0}
  PROVE  Occurs(s, i, <<"n">>) <=> i <= Len(s) /\ s[i] = "n"
<1>1. PICK m, c : m = Len(<<"n">>) /\ c = <<"n">> /\ m = 1 /\ c[1] = "n"
  BY Zenon, NewlineIs
<1>2. Occurs(s, i, c) <=> i + m <= Len(s) + 1 /\ \A k \in 1..m : s[(i + k) - 1] = c[k]
  BY Zenon, <1>1 DEF Occurs
<1>3. \A k \in 1..m : k = 1
  BY <1>1
<1>4. (i + 1) - 1 = i /\ 1 \in 1..m
  BY <1>1
<1>5. (\A k \in 1..m : s[(i + k) - 1] = c[k]) <=> s[i] = "n"
  BY Zenon, <1>1, <1>3, <1>4
<1>6. i + m <= Len(s) + 1 <=> i <= Len(s)
  BY <1>1
<1>7. QED BY Zenon, <1>1, <1>2, <1>5, <1>6

HasNewline(s) == \E k \in 1..Len(s) : s[k] = "n"

LEMMA LineIs ==
  ASSUME NEW s \in Seq(Byte)
  PROVE  IsLine(Line(s), s) /\ (IndexOf(s, <<"n">>) # 0 <=> HasNewline(s))
<1>1. PICK at : at = IndexOf(s, <<"n">>) /\ IsFirst(at, s, <<"n">>)
  BY Zenon, IndexIs, NewlineIs
<1>2. Len(s) \in Nat
  OBVIOUS
<1>3. CASE at = 0
  <2>1. ASSUME NEW k \in 1..Len(s)  PROVE s[k] # "n"
    <3>1. k \in Nat \ {0} /\ k <= Len(s)
      OBVIOUS
    <3>2. ~Occurs(s, k, <<"n">>)
      BY Zenon, <1>1, <1>3, <3>1 DEF IsFirst
    <3>3. QED BY <3>1, <3>2, NewlineOccurs
  <2>2. Line(s) = s
    BY Zenon, <1>1, <1>3 DEF Line
  <2>3. IsLine(s, s)
    BY <1>2, <2>1 DEF IsLine
  <2>4. QED BY Zenon, <1>1, <1>3, <2>1, <2>2, <2>3 DEF HasNewline
<1>4. CASE at # 0
  <2>1. at \in Nat \ {0} /\ Occurs(s, at, <<"n">>) /\ \A i \in 1..(at - 1) : ~Occurs(s, i, <<"n">>)
    BY <1>1, <1>4 DEF IsFirst
  <2>2. at <= Len(s) /\ s[at] = "n"
    BY <2>1, NewlineOccurs
  <2>3. ASSUME NEW k \in 1..(at - 1)  PROVE s[k] # "n"
    <3>1. k \in Nat \ {0} /\ k <= Len(s)
      BY <1>2, <2>1, <2>2
    <3>2. QED BY <2>1, <3>1, NewlineOccurs
  <2>4. Line(s) = SubSeq(s, 1, at - 1)
    BY Zenon, <1>1, <1>4 DEF Line
  <2>5. PICK n \in Nat : n = at - 1 /\ n <= Len(s) /\ n + 1 = at
    BY <1>2, <2>1, <2>2
  <2>6. IsSlice(SubSeq(s, 1, n), s, 1, n)
    BY <2>5, SliceHas
  <2>7. PICK l \in Seq(Byte) : l = Line(s) /\ Len(l) = n /\ \A k \in 1..n : l[k] = s[k]
    <3>1. \A k \in 1..n : (1 + k) - 1 = k
      OBVIOUS
    <3>2. QED BY <2>4, <2>5, <2>6, <3>1 DEF IsSlice
  <2>8. IsLine(l, s)
    BY <2>2, <2>3, <2>5, <2>7 DEF IsLine
  <2>9. HasNewline(s)
    BY <2>1, <2>2 DEF HasNewline
  <2>10. QED BY Zenon, <1>1, <1>4, <2>7, <2>8, <2>9
<1>5. QED BY <1>3, <1>4

LEMMA LineUnique ==
  ASSUME NEW s \in Seq(Byte), NEW l, NEW m, IsLine(l, s), IsLine(m, s)
  PROVE  l = m
<1>1. PICK a \in Nat, b \in Nat : a = Len(l) /\ b = Len(m) /\ a <= Len(s) /\ b <= Len(s)
  BY DEF IsLine
<1>2. ~ (a < b) /\ ~ (b < a)
  <2>1. a < b => a + 1 \in 1..b
    OBVIOUS
  <2>2. b < a => b + 1 \in 1..a
    OBVIOUS
  <2>3. a < b => a < Len(s)
    BY <1>1
  <2>4. b < a => b < Len(s)
    BY <1>1
  <2>5. QED BY Zenon, <1>1, <2>1, <2>2, <2>3, <2>4 DEF IsLine
<1>3. a = b
  BY <1>2
<1>4. \A k \in 1..Len(l) : l[k] = m[k]
  BY Zenon, <1>1, <1>3 DEF IsLine
<1>5. l \in Seq(Byte) /\ m \in Seq(Byte)
  BY DEF IsLine
<1>6. QED BY <1>1, <1>3, <1>4, <1>5, SameSeq

\* A line that has ended stays the same, whatever comes behind it.
LEMMA LineKept ==
  ASSUME NEW s \in Seq(Byte), NEW w \in Seq(Byte), HasNewline(s) \/ w = <<>>
  PROVE  Line(s \o w) = Line(s)
<1>1. CASE w = <<>>
  <2>1. s \o w = s
    BY <1>1
  <2>2. QED BY <2>1
<1>2. CASE HasNewline(s)
  <2>1. PICK l : l = Line(s) /\ IsLine(l, s)
    BY LineIs
  <2>2. PICK t \in Seq(Byte) : t = s \o w /\ Len(t) = Len(s) + Len(w) /\ \A k \in 1..Len(s) : t[k] = s[k]
    BY Both
  <2>3. l \in Seq(Byte) /\ Len(l) \in Nat /\ Len(l) < Len(s) /\ s[Len(l) + 1] = "n"
    <3>1. PICK k \in 1..Len(s) : s[k] = "n"
      BY <1>2 DEF HasNewline
    <3>2. l \in Seq(Byte) /\ Len(l) \in Nat
      BY <2>1 DEF IsLine
    <3>3. k \notin 1..Len(l)
      BY <2>1, <3>1 DEF IsLine
    <3>4. Len(l) < Len(s)
      BY <3>2, <3>3
    <3>5. QED BY <2>1, <3>2, <3>4 DEF IsLine
  <2>4. Len(l) < Len(t) /\ t[Len(l) + 1] = "n" /\ \A k \in 1..Len(l) : k \in 1..Len(s)
    BY <2>2, <2>3
  <2>5. IsLine(l, t)
    BY <2>1, <2>2, <2>3, <2>4 DEF IsLine
  <2>6. IsLine(Line(t), t)
    BY LineIs
  <2>7. QED BY <2>1, <2>2, <2>5, <2>6, LineUnique
<1>3. QED BY <1>1, <1>2

LEMMA ChompTyped ==
  ASSUME NEW l \in Seq(Byte)
  PROVE  Chomp(l) \in Seq(Byte) /\ Len(Chomp(l)) \in Nat
<1>1. CASE l # <<>> /\ Last(l) = "r"
  <2>1. Len(l) - 1 \in Nat /\ Len(l) - 1 <= Len(l)
    BY <1>1
  <2>2. IsSlice(SubSeq(l, 1, Len(l) - 1), l, 1, Len(l) - 1)
    BY <2>1, SliceHas
  <2>3. SubSeq(l, 1, Len(l) - 1) \in Seq(Byte)
    BY <2>2 DEF IsSlice
  <2>4. Chomp(l) = SubSeq(l, 1, Len(l) - 1)
    BY <1>1 DEF Chomp, Front
  <2>5. QED BY <2>3, <2>4
<1>2. CASE ~ (l # <<>> /\ Last(l) = "r")
  BY <1>2 DEF Chomp
<1>3. QED BY <1>1, <1>2

\* Positions d further on have their lowest one d further on.
LEMMA LowestShift ==
  ASSUME NEW S, S \subseteq Nat \ {0}, NEW T, T \subseteq Nat \ {0}, NEW d \in Nat,
         \A i \in Nat \ {0} : i \in S <=> i > d /\ i - d \in T
  PROVE  /\ Lowest(S) = 0 <=> Lowest(T) = 0
         /\ Lowest(T) \in Nat
         /\ Lowest(T) # 0 => Lowest(S) = Lowest(T) + d
<1>1. CASE T = {}
  <2>1. S = {}
    BY <1>1
  <2>2. QED BY <1>1, <2>1, LowestNone
<1>2. CASE T # {}
  <2>1. PICK m : m = Lowest(T)
    OBVIOUS
  <2>2. m \in T /\ m \in Nat /\ \A y \in T : m <= y
    <3>1. T \subseteq Nat
      OBVIOUS
    <3>2. QED BY <1>2, <2>1, <3>1, LowestIs
  <2>3. m \in Nat \ {0} /\ m + d \in Nat \ {0} /\ m + d > d /\ (m + d) - d = m
    BY <2>2
  <2>4. m + d \in S
    BY <2>2, <2>3
  <2>5. ASSUME NEW i \in S  PROVE m + d <= i
    <3>1. i \in Nat \ {0} /\ i > d /\ i - d \in T
      OBVIOUS
    <3>2. m <= i - d
      BY <2>2, <3>1
    <3>3. QED BY <2>3, <3>1, <3>2
  <2>6. Lowest(S) = m + d
    <3>1. S \subseteq Nat
      OBVIOUS
    <3>2. QED BY <2>4, <2>5, <3>1, LowestOf
  <2>7. QED BY <2>1, <2>3, <2>6
<1>3. QED BY <1>1, <1>2

-----------------------------------------------------------------------------
(* Headers *)

Empties(s) == {i \in LineStarts(s) : LineAt(s, i) = <<>>}
Namings(s) == {i \in LineStarts(s) : i < EmptyLine(s) /\ LineAt(s, i) \in {<<"f">>, <<"d">>}}

LEMMA StartsAre ==
  ASSUME NEW s \in Seq(Byte)
  PROVE  /\ LineStarts(s) \subseteq Nat \ {0}
         /\ \A i : i \in LineStarts(s) <=> i \in 1..Len(s) /\ (i = 1 \/ s[i - 1] = "n")
         /\ Empties(s) \subseteq Nat \ {0} /\ Namings(s) \subseteq Nat \ {0}
<1>1. \A i : i \in LineStarts(s) <=> i \in 1..Len(s) /\ (i = 1 \/ s[i - 1] = "n")
  BY DEF LineStarts
<1>2. LineStarts(s) \subseteq Nat \ {0}
  BY DEF LineStarts
<1>3. Empties(s) \subseteq LineStarts(s) /\ Namings(s) \subseteq LineStarts(s)
  BY Zenon DEF Empties, Namings
<1>4. QED BY Zenon, <1>1, <1>2, <1>3

\* Behind the first line the lines are those of what is left.
LEMMA StartsShift ==
  ASSUME NEW s \in Seq(Byte), NEW d \in Nat, d = Len(Line(s)) + 1, NEW i \in Nat \ {0}, i # 1
  PROVE  /\ i \in LineStarts(s) <=> i > d /\ i - d \in LineStarts(From(s, d + 1))
         /\ i > d /\ i <= Len(s) => LineAt(s, i) = LineAt(From(s, d + 1), i - d)
<1>1. PICK l : l = Line(s) /\ IsLine(l, s)
  BY LineIs
<1>2. PICK n \in Nat : n = Len(l) /\ n <= Len(s) /\ d = n + 1
  BY <1>1 DEF IsLine
<1>3. PICK t \in Seq(Byte) : t = From(s, d + 1) /\ IsRest(t, s, d + 1)
  <2>1. d + 1 \in Nat \ {0}
    OBVIOUS
  <2>2. IsRest(From(s, d + 1), s, d + 1)
    BY <2>1, FromIs
  <2>3. QED BY <2>2 DEF IsRest
<1>4. Len(t) = (IF d <= Len(s) THEN Len(s) - d ELSE 0) /\ Len(s) \in Nat
  BY <1>3 DEF IsRest
<1>5. CASE i <= d
  <2>1. i \notin LineStarts(s)
    <3>1. i - 1 \in 1..n
      BY <1>2, <1>5
    <3>2. s[i - 1] # "n"
      BY <1>1, <1>2, <3>1 DEF IsLine
    <3>3. QED BY <3>2, StartsAre
  <2>2. QED BY <1>5, <2>1
<1>6. CASE i > d
  <2>1. PICK j \in Nat \ {0} : j = i - d /\ i = j + d
    <3>1. i - d \in Nat \ {0} /\ i = (i - d) + d
      BY <1>6
    <3>2. QED BY <3>1
  <2>2. i \in 1..Len(s) <=> j \in 1..Len(t)
    BY <1>4, <1>6, <2>1
  <2>3. ASSUME i \in 1..Len(s)  PROVE (i = 1 \/ s[i - 1] = "n") <=> (j = 1 \/ t[j - 1] = "n")
    <3>1. CASE j = 1
      <4>1. i - 1 = n + 1 /\ n < Len(s)
        BY <1>2, <2>1, <2>3, <3>1
      <4>2. s[i - 1] = "n"
        BY <1>1, <1>2, <4>1 DEF IsLine
      <4>3. QED BY <3>1, <4>2
    <3>2. CASE j # 1
      <4>1. j - 1 \in 1..Len(t) /\ ((d + 1) + (j - 1)) - 1 = i - 1
        BY <1>4, <2>1, <2>2, <2>3, <3>2
      <4>2. t[j - 1] = s[i - 1]
        BY <1>3, <4>1 DEF IsRest
      <4>3. QED BY <3>2, <4>2
    <3>3. QED BY <3>1, <3>2
  <2>4. i \in LineStarts(s) <=> j \in LineStarts(t)
    <3>1. i \in LineStarts(s) <=> i \in 1..Len(s) /\ (i = 1 \/ s[i - 1] = "n")
      BY StartsAre
    <3>2. j \in LineStarts(t) <=> j \in 1..Len(t) /\ (j = 1 \/ t[j - 1] = "n")
      BY StartsAre
    <3>3. QED BY Zenon, <2>2, <2>3, <3>1, <3>2
  <2>5. ASSUME i <= Len(s)  PROVE LineAt(s, i) = LineAt(t, j)
    <3>1. d + 1 \in Nat \ {0} /\ d + 1 <= Len(s) + 1 /\ ((d + 1) + j) - 1 = i
      BY <1>4, <2>1, <2>5, <1>6
    <3>2. From(From(s, d + 1), j) = From(s, ((d + 1) + j) - 1)
      BY <3>1, FromFrom
    <3>3. QED BY Zenon, <1>3, <3>1, <3>2 DEF LineAt
  <2>6. QED BY <1>3, <1>6, <2>1, <2>4, <2>5
<1>7. QED BY <1>5, <1>6

Named(kind) == kind \in {"file", "field"}

LEMMA DispositionIs ==
  ASSUME NEW kind, NEW line
  PROVE  /\ kind # "none" => Disposition(kind, line) = kind
         /\ line \in {<<"f">>, <<"d">>} => Named(Disposition("none", line))
         /\ line \notin {<<"f">>, <<"d">>} => Disposition("none", line) = "none"
<1>1. "none" # "file" /\ "none" # "field"
  OBVIOUS
<1>2. QED BY Zenon, <1>1 DEF Disposition, Named

LEMMA KindIs ==
  ASSUME NEW s \in Seq(Byte)
  PROVE  Kind(s) \in {"none", "file", "field"}
<1>1. CASE Namings(s) = {}
  <2>1. Lowest(Namings(s)) = 0
    BY <1>1, LowestNone
  <2>2. Kind(s) = "none"
    BY Zenon, <2>1 DEF Kind, Namings
  <2>3. QED BY <2>2
<1>2. CASE Namings(s) # {}
  <2>1. PICK m : m = Lowest(Namings(s))
    OBVIOUS
  <2>2. m \in Namings(s) /\ m \in Nat \ {0}
    <3>1. Namings(s) \subseteq Nat \ {0}
      BY StartsAre
    <3>2. Namings(s) \subseteq Nat
      BY Zenon, <3>1
    <3>3. m \in Namings(s)
      BY <1>2, <2>1, <3>2, LowestIs
    <3>4. QED BY Zenon, <3>1, <3>3
  <2>3. LineAt(s, m) \in {<<"f">>, <<"d">>} /\ m # 0
    BY Zenon, <2>2 DEF Namings
  <2>4. Kind(s) = Disposition("none", LineAt(s, m))
    BY Zenon, <2>1, <2>3 DEF Kind, Namings
  <2>5. Named(Kind(s))
    BY Zenon, <2>3, <2>4, DispositionIs
  <2>6. QED BY Zenon, <2>5 DEF Named
<1>3. QED BY <1>1, <1>2

\* The headers end here.
LEMMA HeadersEnd ==
  ASSUME NEW s \in Seq(Byte), s # <<>>, Chomp(Line(s)) = <<>>
  PROVE  EmptyLine(s) = 1 /\ Content(s) = From(s, Len(Line(s)) + 2) /\ Kind(s) = "none"
<1>1. From(s, 1) = s
  BY FromFirst
<1>2. 1 \in LineStarts(s)
  <2>1. 1 \in 1..Len(s)
    OBVIOUS
  <2>2. QED BY Zenon, <2>1, StartsAre
<1>3. LineAt(s, 1) = <<>>
  BY Zenon, <1>1 DEF LineAt
<1>4. 1 \in Empties(s) /\ Empties(s) \subseteq Nat \ {0}
  BY Zenon, <1>2, <1>3, StartsAre DEF Empties
<1>5. EmptyLine(s) = 1
  <2>1. EmptyLine(s) = Lowest(Empties(s))
    BY Zenon DEF EmptyLine, Empties
  <2>2. Empties(s) \subseteq Nat /\ \A y \in Empties(s) : 1 <= y
    BY <1>4
  <2>3. QED BY <1>4, <2>1, <2>2, LowestOf
<1>6. Namings(s) = {}
  <2>1. \A i \in LineStarts(s) : ~ (i < 1)
    <3>1. LineStarts(s) \subseteq Nat \ {0}
      BY StartsAre
    <3>2. QED BY <3>1
  <2>2. QED BY Zenon, <1>5, <2>1 DEF Namings
<1>7. Kind(s) = "none"
  <2>1. Lowest(Namings(s)) = 0
    BY <1>6, LowestNone
  <2>2. QED BY Zenon, <2>1 DEF Kind, Namings
<1>8. Content(s) = From(s, Len(Line(s)) + 2)
  <2>1. PICK n \in Nat : n = Len(Line(s))
    <3>1. IsLine(Line(s), s)
      BY LineIs
    <3>2. QED BY <3>1 DEF IsLine
  <2>2. Content(s) = From(s, (1 + n) + 1)
    BY Zenon, <1>1, <1>5, <2>1 DEF Content
  <2>3. (1 + n) + 1 = n + 2
    OBVIOUS
  <2>4. QED BY Zenon, <2>1, <2>2, <2>3
<1>9. QED BY <1>5, <1>7, <1>8

\* The headers go on: they are those of what is left, but for what this line says.
HeadersFollow(s, t, line) ==
  /\ EmptyLine(s) = 0 <=> EmptyLine(t) = 0
  /\ EmptyLine(s) # 0 =>
       /\ Content(s) = Content(t)
       /\ Kind(s) = IF line \in {<<"f">>, <<"d">>} THEN Disposition("none", line) ELSE Kind(t)

LEMMA HeadersGoOn ==
  ASSUME NEW s \in Seq(Byte), s # <<>>, Chomp(Line(s)) # <<>>
  PROVE  HeadersFollow(s, From(s, Len(Line(s)) + 2), Chomp(Line(s)))
<1>0. PICK n \in Nat : n = Len(Line(s)) /\ n <= Len(s)
  <2>1. IsLine(Line(s), s)
    BY LineIs
  <2>2. QED BY <2>1 DEF IsLine
<1>1. PICK d \in Nat : d = n + 1
  OBVIOUS
<1>2. PICK t \in Seq(Byte) : t = From(s, n + 2) /\ t = From(s, d + 1) /\ IsRest(t, s, d + 1)
  <2>1. d + 1 \in Nat \ {0} /\ d + 1 = n + 2
    BY <1>1
  <2>2. IsRest(From(s, d + 1), s, d + 1)
    BY <2>1, FromIs
  <2>3. QED BY <2>1, <2>2 DEF IsRest
<1>3. PICK line : line = Chomp(Line(s)) /\ line # <<>> /\ LineAt(s, 1) = line
  <2>1. From(s, 1) = s
    BY FromFirst
  <2>2. QED BY Zenon, <2>1 DEF LineAt
<1>4. /\ LineStarts(s) \subseteq Nat \ {0} /\ LineStarts(t) \subseteq Nat \ {0}
      /\ Empties(s) \subseteq Nat \ {0} /\ Empties(t) \subseteq Nat \ {0}
      /\ Namings(s) \subseteq Nat \ {0} /\ Namings(t) \subseteq Nat \ {0}
  BY StartsAre
<1>5. ASSUME NEW i \in Nat \ {0}, i # 1
      PROVE  /\ i \in LineStarts(s) <=> i > d /\ i - d \in LineStarts(t)
             /\ i \in LineStarts(s) => LineAt(s, i) = LineAt(t, i - d)
  <2>1. d = Len(Line(s)) + 1
    BY <1>0, <1>1
  <2>2. /\ i \in LineStarts(s) <=> i > d /\ i - d \in LineStarts(From(s, d + 1))
        /\ i > d /\ i <= Len(s) => LineAt(s, i) = LineAt(From(s, d + 1), i - d)
    BY <1>5, <2>1, StartsShift
  <2>3. i \in LineStarts(s) => i <= Len(s)
    <3>1. i \in LineStarts(s) => i \in 1..Len(s)
      BY Zenon, StartsAre
    <3>2. QED BY <3>1
  <2>4. QED BY Zenon, <1>2, <2>2, <2>3
<1>6. ASSUME NEW i \in Nat \ {0}  PROVE i \in Empties(s) <=> i > d /\ i - d \in Empties(t)
  <2>1. CASE i = 1
    <3>1. ~ (i > d) /\ i \notin Empties(s)
      <4>1. ~ (i > d)
        BY <1>1, <2>1
      <4>2. i \notin Empties(s)
        BY Zenon, <1>3, <2>1 DEF Empties
      <4>3. QED BY <4>1, <4>2
    <3>2. QED BY <3>1
  <2>2. CASE i # 1
    BY Zenon, <1>5, <2>2 DEF Empties
  <2>3. QED BY <2>1, <2>2
<1>7. PICK e \in Nat, g \in Nat : e = EmptyLine(t) /\ g = EmptyLine(s) /\ (g = 0 <=> e = 0) /\ (e # 0 => g = e + d)
  <2>1. EmptyLine(t) = Lowest(Empties(t)) /\ EmptyLine(s) = Lowest(Empties(s))
    BY Zenon DEF EmptyLine, Empties
  <2>2. /\ Lowest(Empties(s)) = 0 <=> Lowest(Empties(t)) = 0
        /\ Lowest(Empties(t)) \in Nat
        /\ Lowest(Empties(t)) # 0 => Lowest(Empties(s)) = Lowest(Empties(t)) + d
    BY <1>4, <1>6, LowestShift
  <2>3. Lowest(Empties(s)) \in Nat
    BY <2>2
  <2>4. QED BY Zenon, <2>1, <2>2, <2>3
<1>8. ASSUME e # 0  PROVE Content(s) = Content(t)
  <2>1. e \in LineStarts(t) /\ e \in 1..Len(t) /\ e \in Nat \ {0}
    <3>1. Empties(t) # {}
      <4>1. EmptyLine(t) = Lowest(Empties(t))
        BY Zenon DEF EmptyLine, Empties
      <4>2. QED BY <1>7, <1>8, <4>1, LowestNone
    <3>2. e \in Empties(t)
      <4>1. EmptyLine(t) = Lowest(Empties(t)) /\ Empties(t) \subseteq Nat
        BY Zenon, <1>4 DEF EmptyLine, Empties
      <4>2. QED BY <1>7, <3>1, <4>1, LowestIs
    <3>3. e \in LineStarts(t)
      BY Zenon, <3>2 DEF Empties
    <3>4. QED BY <1>7, <1>8, <3>3, StartsAre
  <2>2. d + 1 \in Nat \ {0} /\ d + 1 <= Len(s) + 1
    <3>1. Len(t) >= 1
      BY <2>1
    <3>2. QED BY <1>2, <3>1 DEF IsRest
  <2>3. \A j \in Nat \ {0} : From(t, j) = From(s, d + j)
    <3>1. ASSUME NEW j \in Nat \ {0}  PROVE From(t, j) = From(s, d + j)
      <4>1. From(From(s, d + 1), j) = From(s, ((d + 1) + j) - 1)
        BY <2>2, FromFrom
      <4>2. ((d + 1) + j) - 1 = d + j
        OBVIOUS
      <4>3. QED BY Zenon, <1>2, <4>1, <4>2
    <3>2. QED BY <3>1
  <2>4. g = d + e
    BY <1>7, <1>8
  <2>5. From(s, g) = From(t, e)
    BY Zenon, <2>1, <2>3, <2>4
  <2>6. PICK l \in Nat : l = Len(Line(From(t, e)))
    <3>1. IsRest(From(t, e), t, e)
      BY <2>1, FromIs
    <3>2. From(t, e) \in Seq(Byte)
      BY <3>1 DEF IsRest
    <3>3. IsLine(Line(From(t, e)), From(t, e))
      BY <3>2, LineIs
    <3>4. QED BY <3>3 DEF IsLine
  <2>7. Content(t) = From(t, (e + l) + 1) /\ Content(s) = From(s, (g + l) + 1)
    BY Zenon, <1>7, <2>5, <2>6 DEF Content
  <2>8. (g + l) + 1 = d + ((e + l) + 1) /\ (e + l) + 1 \in Nat \ {0}
    BY <2>1, <2>4
  <2>9. QED BY Zenon, <2>3, <2>7, <2>8
<1>9. ASSUME e # 0
      PROVE  Kind(s) = IF line \in {<<"f">>, <<"d">>} THEN Disposition("none", line) ELSE Kind(t)
  <2>1. g = e + d /\ 1 < g
    BY <1>1, <1>7, <1>9
  <2>2. CASE line \in {<<"f">>, <<"d">>}
    <3>1. 1 \in LineStarts(s)
      <4>1. 1 \in 1..Len(s)
        OBVIOUS
      <4>2. QED BY Zenon, <4>1, StartsAre
    <3>2. 1 \in Namings(s)
      BY Zenon, <1>3, <1>7, <2>1, <2>2, <3>1 DEF Namings
    <3>3. Lowest(Namings(s)) = 1
      <4>1. Namings(s) \subseteq Nat /\ \A y \in Namings(s) : 1 <= y
        BY <1>4
      <4>2. QED BY <3>2, <4>1, LowestOf
    <3>4. 1 # 0
      OBVIOUS
    <3>5. Kind(s) = Disposition("none", LineAt(s, 1))
      BY Zenon, <3>3, <3>4 DEF Kind, Namings
    <3>6. QED BY Zenon, <1>3, <2>2, <3>5
  <2>3. CASE line \notin {<<"f">>, <<"d">>}
    <3>1. ASSUME NEW i \in Nat \ {0}  PROVE i \in Namings(s) <=> i > d /\ i - d \in Namings(t)
      <4>1. CASE i = 1
        <5>1. ~ (i > d)
          BY <1>1, <4>1
        <5>2. i \notin Namings(s)
          BY Zenon, <1>3, <2>3, <4>1 DEF Namings
        <5>3. QED BY <5>1, <5>2
      <4>2. CASE i # 1
        <5>1. i < g <=> i - d < e
          BY <2>1
        <5>2. QED BY Zenon, <1>5, <1>7, <4>2, <5>1 DEF Namings
      <4>3. QED BY <4>1, <4>2
    <3>2. /\ Lowest(Namings(s)) = 0 <=> Lowest(Namings(t)) = 0
          /\ Lowest(Namings(t)) \in Nat
          /\ Lowest(Namings(t)) # 0 => Lowest(Namings(s)) = Lowest(Namings(t)) + d
      BY <1>4, <3>1, LowestShift
    <3>7. PICK b \in Nat : b = Lowest(Namings(t))
      BY Zenon, <3>2
    <3>3. PICK a : a = Lowest(Namings(s)) /\ b = Lowest(Namings(t)) /\ (a = 0 <=> b = 0) /\ (b # 0 => a = b + d)
      BY Zenon, <3>2, <3>7
    <3>4. CASE b = 0
      <4>1. Kind(s) = "none" /\ Kind(t) = "none"
        BY Zenon, <3>3, <3>4 DEF Kind, Namings
      <4>2. QED BY Zenon, <2>3, <4>1
    <3>5. CASE b # 0
      <4>1. a # 0 /\ a \in Nat \ {0} /\ a # 1 /\ a - d = b
        BY <1>1, <3>3, <3>5
      <4>2. a \in Namings(s)
        <5>1. Namings(s) # {} /\ Namings(s) \subseteq Nat
          BY <1>4, <3>3, <4>1, LowestNone
        <5>2. QED BY <3>3, <5>1, LowestIs
      <4>3. LineAt(s, a) = LineAt(t, b)
        BY Zenon, <1>5, <4>1, <4>2 DEF Namings
      <4>4. Kind(s) = Disposition("none", LineAt(s, a)) /\ Kind(t) = Disposition("none", LineAt(t, b))
        BY Zenon, <3>3, <3>5, <4>1 DEF Kind, Namings
      <4>5. QED BY Zenon, <2>3, <4>3, <4>4
    <3>6. QED BY <3>4, <3>5
  <2>4. QED BY <2>2, <2>3
<1>10. QED BY Zenon, <1>0, <1>2, <1>3, <1>7, <1>8, <1>9 DEF HeadersFollow

\* The content of a part is shorter than what it is in.
LEMMA ContentShorter ==
  ASSUME NEW s \in Seq(Byte), EmptyLine(s) # 0
  PROVE  Content(s) \in Seq(Byte) /\ Len(Content(s)) < Len(s)
<1>1. PICK e \in Nat \ {0} : e = EmptyLine(s) /\ e <= Len(s)
  <2>1. EmptyLine(s) = Lowest(Empties(s)) /\ Empties(s) \subseteq Nat \ {0}
    BY Zenon, StartsAre DEF EmptyLine, Empties
  <2>2. Empties(s) # {} /\ Empties(s) \subseteq Nat
    BY <2>1, LowestNone
  <2>3. Lowest(Empties(s)) \in Empties(s)
    BY <2>2, LowestIs
  <2>4. EmptyLine(s) \in LineStarts(s)
    BY Zenon, <2>1, <2>3 DEF Empties
  <2>5. EmptyLine(s) \in 1..Len(s)
    BY Zenon, <2>4, StartsAre
  <2>6. QED BY <2>5
<1>2. PICK l \in Nat : l = Len(Line(From(s, e)))
  <2>1. IsRest(From(s, e), s, e)
    BY FromIs
  <2>2. From(s, e) \in Seq(Byte)
    BY <2>1 DEF IsRest
  <2>3. IsLine(Line(From(s, e)), From(s, e))
    BY <2>2, LineIs
  <2>4. QED BY <2>3 DEF IsLine
<1>3. Content(s) = From(s, (e + l) + 1)
  BY Zenon, <1>1, <1>2 DEF Content
<1>4. IsRest(From(s, (e + l) + 1), s, (e + l) + 1)
  <2>1. (e + l) + 1 \in Nat \ {0}
    OBVIOUS
  <2>2. QED BY <2>1, FromIs
<1>5. QED BY <1>1, <1>3, <1>4 DEF IsRest

-----------------------------------------------------------------------------
(* A body that lies there as a whole *)

SentPart == [kind : {"file", "field"}, bytes : Seq(Byte)]
Stage == [rest : Seq(Byte), kind : {"close", "invalid", "truncated", "next"}, sent : Seq(SentPart)]

\* What the next part adds.
PartRead(s, u) ==
  LET cut == Cut(Content(s.rest), Delim)
  IN IF s.kind # "next" THEN u = s
     ELSE IF EmptyLine(s.rest) = 0 THEN u.kind = "truncated" /\ u.sent = s.sent
     ELSE /\ u.rest = cut.rest /\ u.kind = cut.kind /\ Len(u.rest) < Len(s.rest)
          /\ u.sent = IF Kind(s.rest) = "none" THEN s.sent
                      ELSE Append(s.sent, [kind |-> Kind(s.rest), bytes |-> cut.before])

LEMMA NextPartIs ==
  ASSUME NEW s \in Stage
  PROVE  NextPart(s) \in Stage /\ PartRead(s, NextPart(s)) /\ Begins(s.sent, NextPart(s).sent)
<1>1. PICK u : u = NextPart(s)
  OBVIOUS
<1>2. PICK rest \in Seq(Byte), sent \in Seq(SentPart) :
        rest = s.rest /\ sent = s.sent /\ Len(sent) \in Nat /\ s.kind \in {"close", "invalid", "truncated", "next"}
  BY DEF Stage
<1>3. Begins(sent, sent)
  BY <1>2 DEF Begins
<1>4. CASE s.kind # "next"
  <2>1. u = s
    BY Zenon, <1>1, <1>4 DEF NextPart
  <2>2. QED BY Zenon, <1>1, <1>2, <1>3, <1>4, <2>1 DEF PartRead
<1>5. CASE s.kind = "next" /\ EmptyLine(rest) = 0
  <2>1. u = [s EXCEPT !.kind = "truncated"]
    BY Zenon, <1>1, <1>2, <1>5 DEF NextPart
  <2>2. u \in Stage /\ u.kind = "truncated" /\ u.sent = s.sent
    BY <2>1 DEF Stage
  <2>3. QED BY Zenon, <1>1, <1>2, <1>3, <1>5, <2>2 DEF PartRead
<1>6. CASE s.kind = "next" /\ EmptyLine(rest) # 0
  <2>1. Content(rest) \in Seq(Byte) /\ Len(Content(rest)) < Len(rest)
    BY <1>6, ContentShorter
  <2>2. PICK cut : cut = Cut(Content(rest), Delim) /\ IsCut(cut, Content(rest))
    <3>1. IsNeedle(Delim)
      BY NeedleIs DEF Needles
    <3>2. QED BY <2>1, <3>1, CutTyped
  <2>3. /\ cut.rest \in Seq(Byte) /\ Len(cut.rest) < Len(rest) /\ cut.before \in Seq(Byte)
        /\ cut.kind \in {"close", "invalid", "truncated", "next"}
    BY <2>1, <2>2 DEF IsCut
  <2>4. PICK more : more = IF Kind(rest) = "none" THEN sent
                           ELSE Append(sent, [kind |-> Kind(rest), bytes |-> cut.before])
    OBVIOUS
  <2>5. more \in Seq(SentPart) /\ Begins(sent, more)
    <3>1. CASE Kind(rest) = "none"
      BY <1>3, <2>4, <3>1
    <3>2. CASE Kind(rest) # "none"
      <4>1. Kind(rest) \in {"file", "field"}
        BY <3>2, KindIs
      <4>2. PICK p \in SentPart : p = [kind |-> Kind(rest), bytes |-> cut.before]
        BY <2>3, <4>1 DEF SentPart
      <4>3. more = Append(sent, p)
        BY Zenon, <2>4, <3>2, <4>2
      <4>4. more \in Seq(SentPart) /\ Len(more) = Len(sent) + 1 /\ \A i \in 1..Len(sent) : more[i] = sent[i]
        BY <4>3
      <4>5. QED BY <1>2, <4>4 DEF Begins
    <3>3. QED BY <3>1, <3>2
  <2>6. u = [rest |-> cut.rest, kind |-> cut.kind, sent |-> more]
    BY Zenon, <1>1, <1>2, <1>6, <2>2, <2>4 DEF NextPart
  <2>7. u.rest = cut.rest /\ u.kind = cut.kind /\ u.sent = more /\ u \in Stage
    BY <2>3, <2>5, <2>6 DEF Stage
  <2>8. QED BY Zenon, <1>1, <1>2, <1>6, <2>2, <2>3, <2>4, <2>5, <2>7 DEF PartRead
<1>7. QED BY Zenon, <1>2, <1>4, <1>5, <1>6

FirstStage(b) ==
  [rest |-> Cut(b, FirstNeedle).rest, kind |-> Cut(b, FirstNeedle).kind, sent |-> <<>>]

Stages(R, b) ==
  /\ R \in [0..(Len(b) + 1) -> Stage] /\ R[0] = FirstStage(b)
  /\ \A k \in 1..(Len(b) + 1) : R[k] = NextPart(R[k - 1])

LEMMA FirstStageIs ==
  ASSUME NEW b \in Seq(Byte)
  PROVE  FirstStage(b) \in Stage /\ Len(FirstStage(b).rest) <= Len(b)
<1>1. IsNeedle(FirstNeedle)
  BY NeedleIs DEF Needles
<1>2. PICK cut : cut = Cut(b, FirstNeedle) /\ IsCut(cut, b)
  BY <1>1, CutTyped
<1>3. PICK none \in Seq(SentPart) : none = <<>>
  <2>1. <<>> \in Seq(SentPart)
    OBVIOUS
  <2>2. QED BY Zenon, <2>1
<1>4. FirstStage(b) = [rest |-> cut.rest, kind |-> cut.kind, sent |-> none]
  BY Zenon, <1>2, <1>3 DEF FirstStage
<1>5. QED BY <1>2, <1>4 DEF IsCut, Stage

LEMMA ReadingIs ==
  ASSUME NEW b \in Seq(Byte)
  PROVE  Stages(Reading(b), b)
<1> DEFINE n == Len(b) + 1
           step == [i \in 1..n |-> [s \in Stage |-> NextPart(s)]]
           value == CHOOSE f : f = [k \in 0..n |-> IF k = 0 THEN FirstStage(b) ELSE NextPart(f[k - 1])]
<1>1. n \in Nat
  OBVIOUS
<1>2. step \in [1..n -> [Stage -> Stage]]
  BY NextPartIs
<1>3. FirstStage(b) \in Stage
  BY FirstStageIs
<1>4. \E f : Follows(f, n, Stage, FirstStage(b), step)
  <2> HIDE DEF step, n
  <2>1. QED BY <1>1, <1>2, <1>3, Iterates
<1>5. PICK f \in [0..n -> Stage] : f[0] = FirstStage(b) /\ \A i \in 1..n : f[i] = step[i][f[i - 1]]
  BY <1>4 DEF Follows
<1>6. \A k \in 0..n : k # 0 => f[k] = NextPart(f[k - 1])
  <2>1. ASSUME NEW k \in 0..n, k # 0  PROVE f[k] = NextPart(f[k - 1])
    <3>1. k \in 1..n /\ k - 1 \in 0..n
      BY <1>1, <2>1
    <3>2. f[k - 1] \in Stage
      BY <3>1
    <3>3. f[k] = step[k][f[k - 1]] /\ step[k][f[k - 1]] = NextPart(f[k - 1])
      BY <1>5, <3>1, <3>2
    <3>4. QED BY <3>3
  <2>2. QED BY <2>1
<1>7. f = [k \in 0..n |-> IF k = 0 THEN FirstStage(b) ELSE NextPart(f[k - 1])]
  <2> HIDE DEF n
  <2>1. \A k \in 0..n : f[k] = IF k = 0 THEN FirstStage(b) ELSE NextPart(f[k - 1])
    BY Zenon, <1>5, <1>6
  <2>2. f = [k \in 0..n |-> f[k]]
    OBVIOUS
  <2>3. QED BY Zenon, <2>1, <2>2
<1>8. value = [k \in 0..n |-> IF k = 0 THEN FirstStage(b) ELSE NextPart(value[k - 1])]
  BY Zenon, <1>7
<1>9. Reading(b) = value
  BY DEF Reading, FirstStage
<1> HIDE DEF value, n, step
<1>10. value[0] = FirstStage(b) /\ \A k \in 1..n : value[k] = NextPart(value[k - 1])
  <2>1. 0 \in 0..n /\ \A k \in 1..n : k \in 0..n /\ k # 0
    BY <1>1
  <2>2. \A k \in 0..n : value[k] = IF k = 0 THEN FirstStage(b) ELSE NextPart(value[k - 1])
    BY Zenon, <1>8
  <2>3. QED BY Zenon, <2>1, <2>2
<1>11. \A k \in 0..n : value[k] \in Stage
  <2> DEFINE G == {k \in Nat : k <= n => value[k] \in Stage}
  <2>1. 0 \in G
    BY <1>3, <1>10
  <2>2. ASSUME NEW k \in 0..n, k \in G, k < n  PROVE k + 1 \in G
    <3>1. k + 1 \in 1..n /\ value[k] \in Stage /\ (k + 1) - 1 = k
      BY <1>1, <2>2
    <3>2. value[k + 1] = NextPart(value[k])
      BY Zenon, <1>10, <3>1
    <3>3. QED BY <3>1, <3>2, NextPartIs
  <2>3. \A k \in 0..n : k \in G
    <3> HIDE DEF G
    <3>1. QED BY <1>1, <2>1, <2>2, Reached
  <2>4. QED BY <1>1, <2>3
<1>12. value \in [0..n -> Stage]
  BY Zenon, <1>8, <1>11
<1>13. QED BY Zenon, <1>9, <1>10, <1>12 DEF Stages, n

\* A stage that has another part behind it is shorter for every part before it.
LEMMA StageShort ==
  ASSUME NEW b \in Seq(Byte), NEW R, Stages(R, b)
  PROVE  \A k \in 0..(Len(b) + 1) : R[k].kind = "next" => Len(R[k].rest) + k <= Len(b)
<1>1. PICK n \in Nat : n = Len(b) + 1
  OBVIOUS
<1>2. R \in [0..n -> Stage] /\ R[0] = FirstStage(b) /\ \A k \in 1..n : R[k] = NextPart(R[k - 1])
  BY Zenon, <1>1 DEF Stages
<1> DEFINE G == {k \in Nat : k <= n /\ R[k].kind = "next" => Len(R[k].rest) + k <= Len(b)}
<1>3. 0 \in G
  <2>1. PICK m \in Nat : m = Len(R[0].rest) /\ m <= Len(b)
    BY <1>2, FirstStageIs DEF Stage
  <2>2. QED BY <2>1
<1>4. ASSUME NEW k \in 0..n, k \in G, k < n  PROVE k + 1 \in G
  <2>1. k \in Nat /\ k + 1 \in 1..n /\ k + 1 \in 0..n /\ (k + 1) - 1 = k
    BY <1>4
  <2>2. PICK s \in Stage, u \in Stage : s = R[k] /\ u = R[k + 1] /\ u = NextPart(s)
    <3>1. R[k] \in Stage /\ R[k + 1] \in Stage
      BY <1>2, <2>1
    <3>2. R[k + 1] = NextPart(R[k])
      BY Zenon, <1>2, <2>1
    <3>3. QED BY Zenon, <3>1, <3>2
  <2>3. PartRead(s, u)
    BY <2>2, NextPartIs
  <2>4. ASSUME u.kind = "next"  PROVE Len(u.rest) + (k + 1) <= Len(b)
    <3>1. s.kind = "next" /\ EmptyLine(s.rest) # 0
      BY <2>3, <2>4 DEF PartRead
    <3>2. Len(u.rest) < Len(s.rest)
      BY Zenon, <2>3, <3>1 DEF PartRead
    <3>3. Len(s.rest) + k <= Len(b)
      BY <1>4, <2>1, <2>2, <3>1
    <3>4. Len(u.rest) \in Nat /\ Len(s.rest) \in Nat
      BY <2>2 DEF Stage
    <3>5. PICK p \in Nat, q \in Nat : p = Len(u.rest) /\ q = Len(s.rest) /\ p < q /\ q + k <= Len(b)
      BY Zenon, <3>2, <3>3, <3>4
    <3>6. PICK m \in Nat : m = Len(b)
      OBVIOUS
    <3>7. p < q /\ q + k <= m /\ k \in Nat
      BY Zenon, <2>1, <3>5, <3>6
    <3>8. p + (k + 1) <= m
      BY <3>7
    <3>9. QED BY Zenon, <3>5, <3>6, <3>8
  <2>5. k + 1 \in Nat
    BY <2>1
  <2>6. QED BY Zenon, <2>2, <2>4, <2>5
<1>5. \A k \in 0..n : k \in G
  <2> HIDE DEF G
  <2>1. QED BY <1>3, <1>4, Reached
<1>6. QED BY <1>1, <1>5

LEMMA BeginsOn ==
  ASSUME NEW a, NEW b, NEW c, Len(a) \in Nat, Len(b) \in Nat, Len(c) \in Nat, Begins(a, b), Begins(b, c)
  PROVE  Begins(a, c)
<1>1. \A i \in 1..Len(a) : i \in 1..Len(b)
  BY DEF Begins
<1>2. Len(a) <= Len(c)
  BY DEF Begins
<1>3. \A i \in 1..Len(a) : a[i] = c[i]
  BY Zenon, <1>1 DEF Begins
<1>4. QED BY <1>2, <1>3 DEF Begins

\* What has been read of a body stays, and it is all when there is no next part.
LEMMA StagesLead ==
  ASSUME NEW b \in Seq(Byte), NEW R, Stages(R, b), NEW k \in 0..(Len(b) + 1)
  PROVE  /\ Begins(R[k].sent, Sent(b)) /\ (R[k].kind # "next" => Sent(b) = R[k].sent)
<1>1. PICK n \in Nat : n = Len(b) + 1
  OBVIOUS
<1>2. R \in [0..n -> Stage] /\ \A i \in 1..n : R[i] = NextPart(R[i - 1])
  BY Zenon, <1>1 DEF Stages
<1>3. Sent(b) = R[n].sent
  <2>1. Stages(Reading(b), b)
    BY ReadingIs
  <2>2. PICK Q : Q = Reading(b) /\ Q \in [0..n -> Stage] /\ Q[0] = FirstStage(b) /\ \A i \in 1..n : Q[i] = NextPart(Q[i - 1])
    BY Zenon, <1>1, <2>1 DEF Stages
  <2> DEFINE G == {i \in Nat : i <= n => Q[i] = R[i]}
  <2>3. 0 \in G
    BY <2>2 DEF Stages
  <2>4. ASSUME NEW i \in 0..n, i \in G, i < n  PROVE i + 1 \in G
    <3>1. i + 1 \in 1..n /\ (i + 1) - 1 = i /\ Q[i] = R[i]
      BY <2>4
    <3>2. Q[i + 1] = R[i + 1]
      BY Zenon, <1>2, <2>2, <3>1
    <3>3. QED BY <2>4, <3>2
  <2>5. n \in G
    <3> HIDE DEF G
    <3>1. \A i \in 0..n : i \in G
      BY <2>3, <2>4, Reached
    <3>2. QED BY <3>1
  <2>6. QED BY <1>1, <2>2, <2>5 DEF Sent
<1>4. \A i \in 0..n : R[i] \in Stage /\ Len(R[i].sent) \in Nat
  <2>1. ASSUME NEW i \in 0..n  PROVE R[i] \in Stage /\ Len(R[i].sent) \in Nat
    <3>1. R[i] \in Stage
      BY <1>2
    <3>2. QED BY <3>1 DEF Stage
  <2>2. QED BY <2>1
<1> DEFINE G == {j \in Nat : k + j <= n =>
                    /\ Begins(R[k].sent, R[k + j].sent)
                    /\ R[k].kind # "next" => R[k + j] = R[k]}
<1>5. k \in Nat /\ k <= n
  BY <1>1
<1>6. 0 \in G
  <2>1. k + 0 = k
    BY <1>5
  <2>2. Begins(R[k].sent, R[k].sent)
    BY <1>1, <1>4 DEF Begins
  <2>3. QED BY <2>1, <2>2
<1>7. ASSUME NEW j \in 0..(n - k), j \in G, j < n - k  PROVE j + 1 \in G
  <2>1. /\ k + j \in 0..n /\ k + (j + 1) \in 1..n /\ (k + (j + 1)) - 1 = k + j /\ k + j <= n
        /\ k + (j + 1) \in 0..n /\ j + 1 \in Nat
    BY <1>5, <1>7
  <2>2. Begins(R[k].sent, R[k + j].sent) /\ (R[k].kind # "next" => R[k + j] = R[k])
    BY <1>7, <2>1
  <2>3. PICK s \in Stage, u \in Stage : s = R[k + j] /\ u = R[k + (j + 1)] /\ u = NextPart(s)
    BY Zenon, <1>2, <1>4, <2>1
  <2>4. PartRead(s, u) /\ Begins(s.sent, u.sent)
    BY <2>3, NextPartIs
  <2>5. Begins(R[k].sent, u.sent)
    BY <1>1, <1>4, <2>1, <2>2, <2>3, <2>4, BeginsOn
  <2>6. R[k].kind # "next" => u = R[k]
    BY Zenon, <2>2, <2>3, <2>4 DEF PartRead
  <2>7. QED BY Zenon, <2>1, <2>3, <2>5, <2>6
<1>8. n - k \in G
  <2>1. n - k \in Nat
    BY <1>5
  <2> HIDE DEF G
  <2>2. \A j \in 0..(n - k) : j \in G
    BY <1>6, <1>7, <2>1, Reached
  <2>3. QED BY <2>1, <2>2
<1>9. k + (n - k) = n /\ n <= n
  BY <1>5
<1>10. Begins(R[k].sent, R[n].sent) /\ (R[k].kind # "next" => R[n] = R[k])
  BY Zenon, <1>8, <1>9
<1>11. QED BY Zenon, <1>3, <1>10

-----------------------------------------------------------------------------
(* The steps of the parser *)

\* r is q with its last part changed: the kinds stay, and so do the other parts.
SameButLast(q, r) ==
  /\ r \in Seq(PartState) /\ Len(r) = Len(q) /\ Len(q) \in Nat \ {0}
  /\ \A i \in 1..Len(q) : r[i].kind = q[i].kind /\ (i # Len(q) => r[i] = q[i])

LastIs(r, q, n, u) ==
  r \in Seq(PartState) /\ Len(r) = n /\ r[n] = u /\ \A i \in 1..n : i # n => r[i] = q[i]

LEMMA LastReplaced ==
  ASSUME NEW q \in Seq(PartState), NEW n \in Nat \ {0}, n = Len(q), NEW u \in PartState
  PROVE  LastIs([q EXCEPT ![n] = u], q, n, u)
  BY DEF LastIs

\* More of the last part is handed out: it stays open or whatever it is.
LEMMA PartGrows ==
  ASSUME NEW q \in Seq(PartState), q # <<>>, NEW chunk \in Seq(Byte), NEW r,
         r = [q EXCEPT ![Len(q)].bytes = @ \o chunk]
  PROVE  /\ SameButLast(q, r)
         /\ r[Len(q)].state = q[Len(q)].state /\ r[Len(q)].bytes = q[Len(q)].bytes \o chunk
<1>1. PICK n \in Nat \ {0} : n = Len(q)
  <2>1. Len(q) \in Nat \ {0}
    OBVIOUS
  <2>2. QED BY <2>1
<1>2. PICK p \in PartState : p = q[n]
  <2>1. q[n] \in PartState
    BY <1>1
  <2>2. QED BY <2>1
<1>3. PICK b \in Seq(Byte) : b = p.bytes \o chunk
  <2>1. p.bytes \in Seq(Byte)
    BY <1>2 DEF PartState
  <2>2. p.bytes \o chunk \in Seq(Byte)
    BY <2>1
  <2>3. QED BY <2>2
<1>4. PICK u : u = [p EXCEPT !.bytes = b]
  OBVIOUS
<1>5. u \in PartState /\ u.kind = p.kind /\ u.state = p.state /\ u.bytes = b
  BY <1>4 DEF PartState
<1>6. r = [q EXCEPT ![n] = u]
  BY Zenon, <1>1, <1>2, <1>3, <1>4
<1>7. r \in Seq(PartState) /\ Len(r) = n /\ r[n] = u /\ \A i \in 1..n : i # n => r[i] = q[i]
  <2>1. LastIs([q EXCEPT ![n] = u], q, n, u)
    BY <1>1, <1>5, LastReplaced
  <2>2. QED BY Zenon, <1>6, <2>1 DEF LastIs
<1>8. \A i \in 1..n : r[i].kind = q[i].kind
  BY Zenon, <1>2, <1>5, <1>7
<1>9. QED BY Zenon, <1>1, <1>2, <1>3, <1>5, <1>7, <1>8 DEF SameButLast

\* The last part is told to be whole, or broken.
LEMMA PartMarked ==
  ASSUME NEW q \in Seq(PartState), q # <<>>, NEW state \in {"whole", "broken"}, NEW r,
         r = [q EXCEPT ![Len(q)].state = state]
  PROVE  /\ SameButLast(q, r)
         /\ r[Len(q)].state = state /\ r[Len(q)].bytes = q[Len(q)].bytes
<1>1. PICK n \in Nat \ {0} : n = Len(q)
  <2>1. Len(q) \in Nat \ {0}
    OBVIOUS
  <2>2. QED BY <2>1
<1>2. PICK p \in PartState : p = q[n]
  <2>1. q[n] \in PartState
    BY <1>1
  <2>2. QED BY <2>1
<1>4. PICK u : u = [p EXCEPT !.state = state]
  OBVIOUS
<1>5. u \in PartState /\ u.kind = p.kind /\ u.state = state /\ u.bytes = p.bytes
  BY <1>4 DEF PartState
<1>6. r = [q EXCEPT ![n] = u]
  BY Zenon, <1>1, <1>2, <1>4
<1>7. r \in Seq(PartState) /\ Len(r) = n /\ r[n] = u /\ \A i \in 1..n : i # n => r[i] = q[i]
  <2>1. LastIs([q EXCEPT ![n] = u], q, n, u)
    BY <1>1, <1>5, LastReplaced
  <2>2. QED BY Zenon, <1>6, <2>1 DEF LastIs
<1>8. \A i \in 1..n : r[i].kind = q[i].kind
  BY Zenon, <1>2, <1>5, <1>7
<1>9. QED BY Zenon, <1>1, <1>2, <1>5, <1>7, <1>8 DEF SameButLast

\* A chunk of content goes to the part at hand, of a parser in state p.
Emits(chunk, p) ==
  LET e == Emit(chunk, p, consumer = "reading")
  IN /\ parser' = e.parser /\ parts' = e.parts
     /\ consumer' = IF e.stops /\ chunk # <<>> THEN "holding" ELSE consumer

\* What a chunk does when it is within the limits.
Emitted(chunk, p) ==
  /\ parser' = [p EXCEPT !.size = p.size + Len(chunk), !.total = p.total + Len(chunk)]
  /\ parts' = IF consumer = "reading" THEN [parts EXCEPT ![Len(parts)].bytes = @ \o chunk] ELSE parts
  /\ consumer' = IF consumer = "reading" /\ chunk # <<>> THEN "holding" ELSE consumer

\* And what one does that is not.
Refused(chunk, p) ==
  /\ \E total \in {p.total, p.total + Len(chunk)} :
       parser' = Fail([p EXCEPT !.size = p.size + Len(chunk), !.total = total])
  /\ parts' = parts /\ consumer' = consumer

LEMMA RefusedIs ==
  ASSUME NEW chunk, NEW p \in ParserState, Refused(chunk, p)
  PROVE  /\ parser'.at = "failed" /\ parser'.eof = p.eof /\ parser'.starving = p.starving
         /\ chunk \in Seq(Byte) => parser' \in ParserState
<1>1. PICK size, total : /\ parser' = Fail([p EXCEPT !.size = size, !.total = total])
                         /\ size = p.size + Len(chunk) /\ total \in {p.total, p.total + Len(chunk)}
  BY Zenon DEF Refused
<1>2. parser' = [p EXCEPT !.size = size, !.total = total, !.at = "failed"]
  BY <1>1 DEF Fail, ParserState
<1>3. chunk \in Seq(Byte) => size \in Nat /\ total \in Nat
  BY <1>1 DEF ParserState
<1>4. QED BY <1>2, <1>3 DEF ParserState

LEMMA EmitIs ==
  ASSUME NEW chunk, NEW p, Emits(chunk, p)
  PROVE  Emitted(chunk, p) \/ Refused(chunk, p)
<1>1. PICK e : e = Emit(chunk, p, consumer = "reading") /\ parser' = e.parser /\ parts' = e.parts
               /\ consumer' = IF e.stops /\ chunk # <<>> THEN "holding" ELSE consumer
  BY Zenon DEF Emits
<1>2. PICK size, total, long :
        /\ size = p.size + Len(chunk) /\ total = p.total + Len(chunk)
        /\ long = (p.kind # "none" /\ size > PartLimit[p.kind])
  OBVIOUS
<1>3. PICK over \in BOOLEAN : over = (chunk # <<>> /\ (long \/ total > MaxTotal))
  BY Zenon
<1>4. PICK reading \in BOOLEAN : reading = (consumer = "reading")
  BY Zenon
<1>5. PICK t : t = IF long THEN p.total ELSE total
  OBVIOUS
<1>6. e = [parser |-> IF over THEN Fail([p EXCEPT !.size = size, !.total = t])
                      ELSE [p EXCEPT !.size = size, !.total = total],
           parts |-> IF reading /\ ~over THEN [parts EXCEPT ![Len(parts)].bytes = @ \o chunk] ELSE parts,
           stops |-> reading /\ ~over]
  BY Zenon, <1>1, <1>2, <1>3, <1>4, <1>5 DEF Emit
<1>7. /\ e.parser = IF over THEN Fail([p EXCEPT !.size = size, !.total = t])
                     ELSE [p EXCEPT !.size = size, !.total = total]
      /\ e.parts = IF reading /\ ~over THEN [parts EXCEPT ![Len(parts)].bytes = @ \o chunk] ELSE parts
      /\ e.stops = (reading /\ ~over)
  BY Zenon, <1>6
<1>8. CASE over
  <2>1. e.parser = Fail([p EXCEPT !.size = size, !.total = t]) /\ e.parts = parts /\ ~e.stops
    BY Zenon, <1>7, <1>8
  <2>2. t \in {p.total, p.total + Len(chunk)}
    BY Zenon, <1>2, <1>5
  <2>3. QED BY Zenon, <1>1, <1>2, <2>1, <2>2 DEF Refused
<1>9. CASE ~over
  <2>1. /\ e.parser = [p EXCEPT !.size = size, !.total = total]
        /\ e.parts = IF reading THEN [parts EXCEPT ![Len(parts)].bytes = @ \o chunk] ELSE parts
        /\ e.stops = reading
    BY Zenon, <1>7, <1>9
  <2>2. e.stops <=> consumer = "reading"
    BY Zenon, <2>1, <1>4
  <2>3. QED BY Zenon, <1>1, <1>2, <1>4, <2>1, <2>2 DEF Emitted
<1>10. QED BY Zenon, <1>8, <1>9

Scans(chunk, p, u) ==
  UNCHANGED <<body, wire>> /\ buffer' = From(buffer, u + 1) /\ Emits(chunk, p)

\* How much of a buffer without a boundary is emitted.
Emptied == IF Safe(buffer) > 0 THEN Safe(buffer) ELSE 0

\* What a step of scanBody() does, case by case.
ScanMore(x) ==
  parser.matched /\ x.kind = "more" /\ Scans(<<>>, [parser EXCEPT !.starving = TRUE], x.used)
ScanEnds(x) ==
  /\ parser.matched /\ x.kind \in {"close", "next"}
  /\ Scans(parser.head, [parser EXCEPT !.at = "end", !.matched = FALSE, !.head = <<>>,
                                       !.closed = x.kind = "close"], x.used)
ScanFalse(x) ==
  /\ parser.matched /\ x.kind = "false"
  /\ Scans(parser.head \o Delim, [parser EXCEPT !.matched = FALSE, !.head = <<>>], x.used)
ScanFails == \E u \in Nat : Scans(<<>>, Fail(parser), u)
ScanFinds(found) ==
  /\ ~parser.matched /\ found # 0
  /\ Scans(<<>>, [parser EXCEPT !.matched = TRUE, !.head = SubSeq(buffer, 1, found - 1)], (found + Retain) - 1)
ScanPasses(found) ==
  /\ ~parser.matched /\ found = 0 /\ ~parser.eof
  /\ Scans(SubSeq(buffer, 1, Emptied), [parser EXCEPT !.starving = TRUE], Emptied)

LEMMA ScanCases ==
  ASSUME PartTypesOK, ScanBody
  PROVE  LET x == Suffix(buffer, parser.eof)
             found == IndexOf(buffer, Delim)
         IN \/ ScanMore(x) \/ ScanEnds(x) \/ ScanFalse(x) \/ ScanFails
            \/ ScanFinds(found) \/ ScanPasses(found)
<1>1. PICK x : x = Suffix(buffer, parser.eof)
  OBVIOUS
<1>2. PICK found : found = IndexOf(buffer, Delim)
  OBVIOUS
<1>3. x.used \in Nat /\ SuffixFits(x, buffer, parser.eof)
  <2>1. buffer \in Seq(Byte) /\ parser.eof \in BOOLEAN
    BY DEF PartTypesOK, ParserState
  <2>2. QED BY <1>1, <2>1, SuffixIs DEF SuffixFits
<1>4. found \in Nat
  <2>1. IsNeedle(Delim) /\ buffer \in Seq(Byte)
    BY NeedleIs DEF Needles, PartTypesOK
  <2>2. QED BY <1>2, <2>1, IndexIs DEF IsFirst
<1>5. UNCHANGED <<body, wire>>
  BY Zenon DEF ScanBody
<1>6. CASE parser.matched
  <2>1. /\ buffer' = From(buffer, x.used + 1)
        /\ CASE x.kind = "more" -> Emits(<<>>, [parser EXCEPT !.starving = TRUE])
             [] x.kind \in {"close", "next"} ->
                  Emits(parser.head, [parser EXCEPT !.at = "end", !.matched = FALSE,
                                                   !.head = <<>>, !.closed = x.kind = "close"])
             [] x.kind = "false" ->
                  Emits(parser.head \o Delim, [parser EXCEPT !.matched = FALSE, !.head = <<>>])
             [] OTHER -> Emits(<<>>, Fail(parser))
    BY Zenon, <1>1, <1>6 DEF ScanBody, Emits
  <2>2. CASE x.kind = "more"
    <3>1. Emits(<<>>, [parser EXCEPT !.starving = TRUE])
      BY <2>1, <2>2
    <3>2. QED BY Zenon, <1>1, <1>5, <1>6, <2>1, <2>2, <3>1 DEF ScanMore, Scans
  <2>3. CASE x.kind \in {"close", "next"}
    <3>1. Emits(parser.head, [parser EXCEPT !.at = "end", !.matched = FALSE,
                                                   !.head = <<>>, !.closed = x.kind = "close"])
      BY <2>1, <2>3
    <3>2. QED BY Zenon, <1>1, <1>5, <1>6, <2>1, <2>3, <3>1 DEF ScanEnds, Scans
  <2>4. CASE x.kind = "false"
    <3>1. Emits(parser.head \o Delim, [parser EXCEPT !.matched = FALSE, !.head = <<>>])
      BY <2>1, <2>4
    <3>2. QED BY Zenon, <1>1, <1>5, <1>6, <2>1, <2>4, <3>1 DEF ScanFalse, Scans
  <2>5. CASE x.kind \notin {"more", "close", "next", "false"}
    <3>1. Emits(<<>>, Fail(parser))
      BY <2>1, <2>5
    <3>2. Scans(<<>>, Fail(parser), x.used)
      BY Zenon, <1>5, <2>1, <3>1 DEF Scans
    <3>3. QED BY Zenon, <1>3, <3>2 DEF ScanFails
  <2>6. QED BY Zenon, <2>2, <2>3, <2>4, <2>5
<1>7. CASE ~parser.matched /\ found # 0
  <2>1. /\ buffer' = From(buffer, found + Retain)
        /\ Emits(<<>>, [parser EXCEPT !.matched = TRUE, !.head = SubSeq(buffer, 1, found - 1)])
    BY Zenon, <1>2, <1>7 DEF ScanBody, Emits
  <2>2. ((found + Retain) - 1) + 1 = found + Retain
    BY <1>4, DelimIs
  <2>3. Scans(<<>>, [parser EXCEPT !.matched = TRUE, !.head = SubSeq(buffer, 1, found - 1)], (found + Retain) - 1)
    BY Zenon, <1>5, <2>1, <2>2 DEF Scans
  <2>4. QED BY Zenon, <1>2, <1>7, <2>3 DEF ScanFinds
<1>8. CASE ~parser.matched /\ found = 0 /\ parser.eof
  <2>1. Emits(<<>>, Fail(parser)) /\ buffer' = buffer
    BY Zenon, <1>2, <1>8 DEF ScanBody, Emits
  <2>2. From(buffer, 0 + 1) = buffer
    BY FromFirst DEF PartTypesOK
  <2>3. Scans(<<>>, Fail(parser), 0)
    BY Zenon, <1>5, <2>1, <2>2 DEF Scans
  <2>4. QED BY <2>3 DEF ScanFails
<1>9. CASE ~parser.matched /\ found = 0 /\ ~parser.eof
  <2>1. /\ buffer' = From(buffer, Emptied + 1)
        /\ Emits(SubSeq(buffer, 1, Emptied), [parser EXCEPT !.starving = TRUE])
    BY Zenon, <1>2, <1>9 DEF ScanBody, Emits, Emptied
  <2>2. QED BY Zenon, <1>2, <1>5, <1>9, <2>1 DEF ScanPasses, Scans
<1>10. QED BY Zenon, <1>1, <1>2, <1>6, <1>7, <1>8, <1>9

-----------------------------------------------------------------------------
(* Types, and the part at hand *)

\* A state of the parser is one of those, whatever is set of it.
LEMMA EmittedTyped ==
  ASSUME PartTypesOK, PartAtHand, parser.at = "body", consumer \notin {"holding", "gone"},
         NEW chunk \in Seq(Byte), NEW p \in ParserState, p.at \in {"body", "end"},
         p.kind = parser.kind, p.returned = parser.returned, Emitted(chunk, p)
  PROVE  /\ parser' \in ParserState /\ parser'.at = p.at /\ parser'.kind = p.kind
         /\ parser'.returned = p.returned
         /\ consumer = "reading" => parts # <<>> /\ p.kind # "none" /\ parts[Len(parts)].state = "open"
         /\ parts' \in Seq(PartState)
         /\ consumer' \in {"holding", "reading", "draining", "skipping", "gone"}
         /\ PartAtHand'
         /\ Broken => Broken'
<1>1. Len(chunk) \in Nat /\ p.size \in Nat /\ p.total \in Nat
  BY DEF ParserState
<1>2. PICK size \in Nat, total \in Nat : size = p.size + Len(chunk) /\ total = p.total + Len(chunk)
  BY <1>1
<1>3. parser' = [p EXCEPT !.size = size, !.total = total]
  BY Zenon, <1>2 DEF Emitted
<1>4. /\ parser' \in ParserState /\ parser'.at = p.at /\ parser'.kind = p.kind
      /\ parser'.returned = p.returned
  BY <1>3 DEF ParserState
<1>5. consumer = "reading" => parts # <<>> /\ p.kind # "none" /\ parts[Len(parts)].state = "open"
  BY Zenon DEF PartAtHand
<1>6. parts \in Seq(PartState) /\ consumer \in {"holding", "reading", "draining", "skipping", "gone"}
  BY DEF PartTypesOK
<1>7. CASE consumer = "reading"
  <2>1. parts' = [parts EXCEPT ![Len(parts)].bytes = @ \o chunk] /\ consumer' \in {"holding", "reading"}
    BY Zenon, <1>7 DEF Emitted
  <2>2. parts # <<>>
    BY <1>5, <1>7
  <2>3. SameButLast(parts, parts') /\ parts'[Len(parts)].state = parts[Len(parts)].state
    BY Zenon, <1>6, <2>1, <2>2, PartGrows
  <2>4. /\ Len(parts') = Len(parts) /\ Len(parts) \in Nat \ {0} /\ parts' \in Seq(PartState)
        /\ \A i \in 1..Len(parts) : parts'[i].kind = parts[i].kind /\ parts'[i].state = parts[i].state
    BY Zenon, <2>3 DEF SameButLast
  <2>5. parts' # <<>> /\ parts'[Len(parts')].kind = parts[Len(parts)].kind
        /\ parts'[Len(parts')].state = parts[Len(parts)].state
    BY <2>4
  <2>6. p.kind # "none" /\ parts[Len(parts)].kind = parser.kind /\ parts[Len(parts)].state = "open"
        /\ ~parser.returned
    BY Zenon, <1>5, <1>7 DEF PartAtHand
  <2>7. PartAtHand'
    BY Zenon, <1>4, <2>1, <2>5, <2>6 DEF PartAtHand
  <2>8. Broken => Broken'
    <3>1. DOMAIN parts' = 1..Len(parts) /\ DOMAIN parts = 1..Len(parts)
      BY <1>6, <2>4
    <3>2. QED BY Zenon, <2>4, <3>1 DEF Broken
  <2>9. QED BY Zenon, <1>4, <1>5, <2>1, <2>4, <2>7, <2>8
<1>8. CASE consumer # "reading"
  <2>1. parts' = parts /\ consumer' = consumer
    BY Zenon, <1>8 DEF Emitted
  <2>2. PartAtHand'
    <3>1. PICK q : q = parts /\ q = parts'
      BY Zenon, <2>1
    <3>2. parser'.at # "done" /\ parser'.at \in {"body", "end"}
      BY <1>4
    <3>3. IF parser.kind = "none" THEN consumer = "skipping" /\ ~parser.returned
          ELSE /\ q # <<>> /\ q[Len(q)].kind = parser.kind
               /\ consumer # "skipping"
               /\ ~parser.returned /\ q[Len(q)].state = "open"
      BY Zenon, <3>1, <1>8 DEF PartAtHand
    <3>4. QED BY Zenon, <1>4, <1>8, <2>1, <3>1, <3>2, <3>3 DEF PartAtHand
  <2>3. Broken => Broken'
    BY Zenon, <2>1 DEF Broken
  <2>4. QED BY Zenon, <1>4, <1>6, <1>8, <2>1, <2>2, <2>3
<1>9. QED BY <1>7, <1>8

\* The types hold again, the part at hand is the last one, and a part that was
\* broken stays so.
Kept == PartTypesOK' /\ PartAtHand' /\ (Broken => Broken')

\* Nothing is handed out.
LEMMA KeptWithoutParts ==
  ASSUME PartTypesOK, body' = body, parts' = parts, wire' \in Seq(Byte), buffer' \in Seq(Byte),
         parser' \in ParserState, consumer' \in {"holding", "reading", "draining", "skipping", "gone"},
         PartAtHand'
  PROVE  Kept
<1>1. PartTypesOK'
  BY Zenon DEF PartTypesOK
<1>2. Broken => Broken'
  BY Zenon DEF Broken
<1>3. QED BY Zenon, <1>1, <1>2 DEF Kept

LEMMA AtHandSame ==
  ASSUME PartAtHand, parts' = parts, consumer' = consumer,
         parser'.at = parser.at, parser'.kind = parser.kind, parser'.returned = parser.returned
  PROVE  PartAtHand'
<1>1. PICK q : q = parts /\ q = parts'
  BY Zenon
<1>2. PICK at, kind, returned : at = parser.at /\ kind = parser.kind /\ returned = parser.returned
  BY Zenon
<1>3. parser'.at = at /\ parser'.kind = kind /\ parser'.returned = returned
  BY Zenon, <1>2
<1>4. QED BY Zenon, <1>1, <1>2, <1>3 DEF PartAtHand

LEMMA AtHandElsewhere ==
  ASSUME parser'.at \notin {"body", "end"},
         consumer' = "reading" => parser'.at = "failed", consumer' = "gone" => parser'.at # "done"
  PROVE  PartAtHand'
  BY Zenon DEF PartAtHand

LEMMA FillTyped ==
  ASSUME PartTypesOK, PartAtHand, Fill
  PROVE  Kept
<1>1. wire \in Seq(Byte) /\ buffer \in Seq(Byte) /\ parser \in ParserState /\ parts \in Seq(PartState)
      /\ consumer \in {"holding", "reading", "draining", "skipping", "gone"}
  BY DEF PartTypesOK
<1>2. UNCHANGED <<body, consumer, parts>>
  BY Zenon DEF Fill
<1>3. CASE wire = <<>>
  <2>1. parser' = [parser EXCEPT !.starving = FALSE, !.eof = TRUE] /\ UNCHANGED <<wire, buffer>>
    BY Zenon, <1>3 DEF Fill
  <2>2. parser' \in ParserState /\ parser'.at = parser.at /\ parser'.kind = parser.kind
        /\ parser'.returned = parser.returned
    BY <1>1, <2>1 DEF ParserState
  <2>3. PartAtHand'
    BY Zenon, <1>2, <2>2, AtHandSame
  <2>4. QED BY Zenon, <1>1, <1>2, <2>1, <2>2, <2>3, KeptWithoutParts
<1>4. CASE wire # <<>>
  <2>1. PICK n \in 1..MaxChunk : n <= Len(wire) /\ buffer' = buffer \o SubSeq(wire, 1, n)
                                 /\ wire' = From(wire, n + 1)
                                 /\ parser' = [parser EXCEPT !.starving = FALSE]
    BY Zenon, <1>4 DEF Fill
  <2>2. parser' \in ParserState /\ parser'.at = parser.at /\ parser'.kind = parser.kind
        /\ parser'.returned = parser.returned
    BY <1>1, <2>1 DEF ParserState
  <2>3. PartAtHand'
    BY Zenon, <1>2, <2>2, AtHandSame
  <2>4. n \in Nat \ {0} /\ n + 1 \in Nat \ {0}
    BY MultipartAssumption
  <2>5. wire' \in Seq(Byte)
    BY <1>1, <2>1, <2>4, FromIs DEF IsRest
  <2>6. SubSeq(wire, 1, n) \in Seq(Byte)
    BY <1>1, <2>1, <2>4
  <2>7. buffer' \in Seq(Byte)
    BY <1>1, <2>1, <2>6
  <2>8. QED BY Zenon, <1>1, <1>2, <2>2, <2>3, <2>5, <2>7, KeptWithoutParts
<1>5. QED BY <1>3, <1>4

\* What is left of the buffer.
LEMMA BufferTyped ==
  ASSUME PartTypesOK, NEW u \in Nat
  PROVE  From(buffer, u + 1) \in Seq(Byte)
<1>1. u + 1 \in Nat \ {0} /\ buffer \in Seq(Byte)
  BY DEF PartTypesOK
<1>2. QED BY <1>1, FromIs DEF IsRest

\* What a step of skipPreamble() does, case by case.
Skips(p, u) ==
  UNCHANGED <<body, wire, consumer, parts>> /\ buffer' = From(buffer, u + 1) /\ parser' = p
SkipMore(x) == parser.matched /\ x.kind = "more" /\ Skips([parser EXCEPT !.starving = TRUE], x.used)
SkipClose(x) == parser.matched /\ x.kind = "close" /\ Skips([parser EXCEPT !.at = "done"], x.used)
SkipNext(x) ==
  /\ parser.matched /\ x.kind = "next"
  /\ Skips([parser EXCEPT !.at = "headers", !.matched = FALSE], x.used)
SkipFalse(x) ==
  parser.matched /\ x.kind = "false" /\ Skips([parser EXCEPT !.matched = FALSE], x.used)
SkipFails == \E u \in Nat : Skips(Fail(parser), u)
SkipFinds(found) ==
  ~parser.matched /\ found # 0 /\ Skips([parser EXCEPT !.matched = TRUE], (found + Len(FirstNeedle)) - 1)
SkipPasses(found) ==
  /\ ~parser.matched /\ found = 0
  /\ Skips(IF parser.eof THEN [parser EXCEPT !.at = "done"] ELSE [parser EXCEPT !.starving = TRUE], Emptied)

LEMMA EmptiedIs ==
  ASSUME PartTypesOK
  PROVE  /\ Emptied \in Nat /\ Emptied <= Len(buffer) /\ Len(buffer) - Emptied <= Retain
         /\ Emptied # 0 => Emptied + Retain = Len(buffer)
         /\ Emptied = IF Len(buffer) > Retain THEN Len(buffer) - Retain ELSE 0
<1>1. Len(buffer) \in Nat
  BY DEF PartTypesOK
<1>2. QED BY <1>1, DelimIs DEF Emptied, Safe

LEMMA SkipCases ==
  ASSUME PartTypesOK, SkipPreamble
  PROVE  LET x == Suffix(buffer, parser.eof)
             found == IndexOf(buffer, FirstNeedle)
         IN \/ SkipMore(x) \/ SkipClose(x) \/ SkipNext(x) \/ SkipFalse(x) \/ SkipFails
            \/ SkipFinds(found) \/ SkipPasses(found)
<1>1. PICK x : x = Suffix(buffer, parser.eof)
  OBVIOUS
<1>2. PICK found : found = IndexOf(buffer, FirstNeedle)
  OBVIOUS
<1>3. buffer \in Seq(Byte) /\ parser.eof \in BOOLEAN
  BY DEF PartTypesOK, ParserState
<1>4. x.used \in Nat
  BY <1>1, <1>3, SuffixIs DEF SuffixFits
<1>5. found \in Nat
  <2>1. IsNeedle(FirstNeedle)
    BY NeedleIs DEF Needles
  <2>2. QED BY <1>2, <1>3, <2>1, IndexIs DEF IsFirst
<1>6. UNCHANGED <<body, wire, consumer, parts>>
  BY Zenon DEF SkipPreamble
<1>7. CASE parser.matched
  <2>1. /\ buffer' = From(buffer, x.used + 1)
        /\ parser' = CASE x.kind = "more" -> [parser EXCEPT !.starving = TRUE]
                            [] x.kind = "close" -> [parser EXCEPT !.at = "done"]
                            [] x.kind = "next" -> [parser EXCEPT !.at = "headers", !.matched = FALSE]
                            [] x.kind = "false" -> [parser EXCEPT !.matched = FALSE]
                            [] OTHER -> Fail(parser)
    BY Zenon, <1>1, <1>7 DEF SkipPreamble
  <2>2. CASE x.kind = "more"
    <3>1. parser' = [parser EXCEPT !.starving = TRUE]
      BY <2>1, <2>2
    <3>2. QED BY Zenon, <1>1, <1>6, <1>7, <2>1, <2>2, <3>1 DEF SkipMore, Skips
  <2>3. CASE x.kind = "close"
    <3>1. parser' = [parser EXCEPT !.at = "done"]
      BY <2>1, <2>3
    <3>2. QED BY Zenon, <1>1, <1>6, <1>7, <2>1, <2>3, <3>1 DEF SkipClose, Skips
  <2>4. CASE x.kind = "next"
    <3>1. parser' = [parser EXCEPT !.at = "headers", !.matched = FALSE]
      BY <2>1, <2>4
    <3>2. QED BY Zenon, <1>1, <1>6, <1>7, <2>1, <2>4, <3>1 DEF SkipNext, Skips
  <2>5. CASE x.kind = "false"
    <3>1. parser' = [parser EXCEPT !.matched = FALSE]
      BY <2>1, <2>5
    <3>2. QED BY Zenon, <1>1, <1>6, <1>7, <2>1, <2>5, <3>1 DEF SkipFalse, Skips
  <2>6. CASE x.kind \notin {"more", "close", "next", "false"}
    <3>1. parser' = Fail(parser)
      BY <2>1, <2>6
    <3>2. Skips(Fail(parser), x.used)
      BY Zenon, <1>6, <2>1, <3>1 DEF Skips
    <3>3. QED BY Zenon, <1>4, <3>2 DEF SkipFails
  <2>7. QED BY Zenon, <2>2, <2>3, <2>4, <2>5, <2>6
<1>8. CASE ~parser.matched /\ found # 0
  <2>1. buffer' = From(buffer, found + Len(FirstNeedle)) /\ parser' = [parser EXCEPT !.matched = TRUE]
    BY Zenon, <1>2, <1>8 DEF SkipPreamble
  <2>2. ((found + Len(FirstNeedle)) - 1) + 1 = found + Len(FirstNeedle)
    BY <1>5, FirstNeedleIs
  <2>3. QED BY Zenon, <1>2, <1>6, <1>8, <2>1, <2>2 DEF SkipFinds, Skips
<1>9. CASE ~parser.matched /\ found = 0
  <2>1. /\ buffer' = IF Len(buffer) > Retain THEN From(buffer, Len(buffer) - Retain + 1) ELSE buffer
        /\ parser' = IF parser.eof THEN [parser EXCEPT !.at = "done"] ELSE [parser EXCEPT !.starving = TRUE]
    BY Zenon, <1>2, <1>9 DEF SkipPreamble
  <2>2. From(buffer, 0 + 1) = buffer
    BY <1>3, FromFirst
  <2>3. buffer' = From(buffer, Emptied + 1)
    BY Zenon, <2>1, <2>2, EmptiedIs
  <2>4. QED BY Zenon, <1>2, <1>6, <1>9, <2>1, <2>3 DEF SkipPasses, Skips
<1>10. QED BY Zenon, <1>1, <1>2, <1>7, <1>8, <1>9

LEMMA SkipsTyped ==
  ASSUME PartTypesOK, PartAtHand, SkipPreamble
  PROVE  Kept
<1>1. parser \in ParserState /\ parser.at = "preamble" /\ consumer \notin {"reading", "gone"}
      /\ consumer \in {"holding", "reading", "draining", "skipping", "gone"} /\ wire \in Seq(Byte)
  <2>1. parser \in ParserState /\ consumer \in {"holding", "reading", "draining", "skipping", "gone"}
        /\ wire \in Seq(Byte)
    BY DEF PartTypesOK
  <2>2. parser.at = "preamble" /\ consumer # "gone"
    BY DEF SkipPreamble, Stepping, Running
  <2>3. consumer # "reading"
    BY <2>2 DEF PartAtHand
  <2>4. QED BY <2>1, <2>2, <2>3
<1>2. PICK p, u : Skips(p, u) /\ u \in Nat /\ p \in ParserState
                  /\ p.at \in {"preamble", "headers", "done", "failed"}
  <2>1. PICK x : x = Suffix(buffer, parser.eof) /\ x.used \in Nat
    <3>1. buffer \in Seq(Byte) /\ parser.eof \in BOOLEAN
      BY DEF PartTypesOK, ParserState
    <3>2. QED BY <3>1, SuffixIs DEF SuffixFits
  <2>2. PICK found : found = IndexOf(buffer, FirstNeedle) /\ (found # 0 => (found + Len(FirstNeedle)) - 1 \in Nat)
    <3>1. IsNeedle(FirstNeedle) /\ buffer \in Seq(Byte)
      BY NeedleIs DEF Needles, PartTypesOK
    <3>2. IndexOf(buffer, FirstNeedle) \in Nat
      BY <3>1, IndexIs DEF IsFirst
    <3>3. QED BY <3>2, FirstNeedleIs
  <2>3. ASSUME NEW p, p \in ParserState /\ p.at \in {"preamble", "headers", "done", "failed"},
               NEW u, u \in Nat, Skips(p, u)
        PROVE  \E q, v : Skips(q, v) /\ v \in Nat /\ q \in ParserState
                         /\ q.at \in {"preamble", "headers", "done", "failed"}
    BY Zenon, <2>3
  <2>4. CASE SkipMore(x)
    <3>1. [parser EXCEPT !.starving = TRUE] \in ParserState /\ [parser EXCEPT !.starving = TRUE].at = "preamble"
      BY <1>1 DEF ParserState
    <3>2. QED BY Zenon, <2>1, <2>3, <2>4, <3>1 DEF SkipMore
  <2>5. CASE SkipClose(x)
    <3>1. [parser EXCEPT !.at = "done"] \in ParserState /\ [parser EXCEPT !.at = "done"].at = "done"
      BY <1>1 DEF ParserState
    <3>2. QED BY Zenon, <2>1, <2>3, <2>5, <3>1 DEF SkipClose
  <2>6. CASE SkipNext(x)
    <3>1. /\ [parser EXCEPT !.at = "headers", !.matched = FALSE] \in ParserState
          /\ [parser EXCEPT !.at = "headers", !.matched = FALSE].at = "headers"
      BY <1>1 DEF ParserState
    <3>2. QED BY Zenon, <2>1, <2>3, <2>6, <3>1 DEF SkipNext
  <2>7. CASE SkipFalse(x)
    <3>1. [parser EXCEPT !.matched = FALSE] \in ParserState /\ [parser EXCEPT !.matched = FALSE].at = "preamble"
      BY <1>1 DEF ParserState
    <3>2. QED BY Zenon, <2>1, <2>3, <2>7, <3>1 DEF SkipFalse
  <2>8. CASE SkipFails
    <3>1. Fail(parser) \in ParserState /\ Fail(parser).at = "failed"
      BY <1>1 DEF ParserState, Fail
    <3>2. QED BY Zenon, <2>3, <2>8, <3>1 DEF SkipFails
  <2>9. CASE SkipFinds(found)
    <3>1. [parser EXCEPT !.matched = TRUE] \in ParserState /\ [parser EXCEPT !.matched = TRUE].at = "preamble"
      BY <1>1 DEF ParserState
    <3>2. QED BY Zenon, <2>2, <2>3, <2>9, <3>1 DEF SkipFinds
  <2>10. CASE SkipPasses(found)
    <3>1. PICK p : p = IF parser.eof THEN [parser EXCEPT !.at = "done"] ELSE [parser EXCEPT !.starving = TRUE]
      OBVIOUS
    <3>2. p \in ParserState /\ p.at \in {"preamble", "done"}
      BY <1>1, <3>1 DEF ParserState
    <3>3. p.at \in {"preamble", "headers", "done", "failed"} /\ Emptied \in Nat
      BY <3>2, EmptiedIs
    <3>4. Skips(p, Emptied)
      BY Zenon, <2>10, <3>1 DEF SkipPasses
    <3>5. QED BY Zenon, <2>3, <3>2, <3>3, <3>4
  <2>11. QED BY Zenon, <2>1, <2>2, <2>4, <2>5, <2>6, <2>7, <2>8, <2>9, <2>10, SkipCases
<1>3. parser' \in ParserState /\ UNCHANGED <<body, wire, consumer, parts>> /\ buffer' \in Seq(Byte)
      /\ parser'.at \in {"preamble", "headers", "done", "failed"}
  BY Zenon, <1>2, BufferTyped DEF Skips
<1>4. PartAtHand'
  <2>1. parser'.at \notin {"body", "end"} /\ consumer' # "reading" /\ consumer' # "gone"
    BY <1>1, <1>3
  <2>2. QED BY Zenon, <2>1, AtHandElsewhere
<1>5. QED BY Zenon, <1>1, <1>3, <1>4, KeptWithoutParts

\* A state of the parser in the part it is in.
InBody(p) ==
  p \in ParserState /\ p.at \in {"body", "end"} /\ p.kind = parser.kind /\ p.returned = parser.returned

\* A step of scanBody() fails, or emits a chunk, if only an empty one.
LEMMA ScanSome ==
  ASSUME PartTypesOK, ScanBody
  PROVE  \/ \E u \in Nat : Scans(<<>>, Fail(parser), u)
         \/ \E p, u, chunk : Scans(chunk, p, u) /\ u \in Nat /\ chunk \in Seq(Byte) /\ InBody(p)
<1>1. /\ parser \in ParserState /\ parser.at = "body" /\ consumer \notin {"holding", "gone"}
      /\ consumer \in {"holding", "reading", "draining", "skipping", "gone"}
      /\ parser.head \in Seq(Byte) /\ buffer \in Seq(Byte) /\ wire \in Seq(Byte)
  <2>1. /\ parser \in ParserState /\ consumer \in {"holding", "reading", "draining", "skipping", "gone"}
        /\ buffer \in Seq(Byte) /\ wire \in Seq(Byte)
    BY DEF PartTypesOK
  <2>2. parser.at = "body" /\ consumer \notin {"holding", "gone"}
    BY DEF ScanBody, Stepping, Running
  <2>3. QED BY <2>1, <2>2 DEF ParserState
<1>2. PICK x : x = Suffix(buffer, parser.eof) /\ x.used \in Nat
  <2>1. parser.eof \in BOOLEAN
    BY <1>1 DEF ParserState
  <2>2. QED BY <1>1, <2>1, SuffixIs DEF SuffixFits
<1>3. PICK found : found = IndexOf(buffer, Delim) /\ found \in Nat
                   /\ (found # 0 => (found + Retain) - 1 \in Nat /\ found <= Len(buffer))
  <2>1. IsNeedle(Delim)
    BY NeedleIs DEF Needles
  <2>2. PICK f \in Nat : f = IndexOf(buffer, Delim) /\ (f # 0 => Occurs(buffer, f, Delim))
    BY <1>1, <2>1, IndexIs DEF IsFirst
  <2>3. f # 0 => (f + Retain) - 1 \in Nat /\ f <= Len(buffer)
    <3>1. PICK n \in Nat : n = Len(buffer)
      BY <1>1
    <3>2. f # 0 => f + 5 <= n + 1
      BY Zenon, <2>2, <3>1, DelimIs DEF Occurs
    <3>3. f # 0 => (f + 5) - 1 \in Nat /\ f <= n
      BY <2>2, <3>2
    <3>4. QED BY Zenon, <3>1, <3>3, DelimIs
  <2>4. QED BY Zenon, <2>2, <2>3
<1>4. ASSUME NEW p, InBody(p), NEW u, u \in Nat, NEW chunk, chunk \in Seq(Byte), Scans(chunk, p, u)
      PROVE  \E q, v, c : Scans(c, q, v) /\ v \in Nat /\ c \in Seq(Byte) /\ InBody(q)
  BY Zenon, <1>4
<1>5. <<>> \in Seq(Byte)
  OBVIOUS
<1>6. CASE ScanMore(x)
  <2>1. InBody([parser EXCEPT !.starving = TRUE])
    BY <1>1 DEF ParserState, InBody
  <2>2. QED BY Zenon, <1>2, <1>4, <1>5, <1>6, <2>1 DEF ScanMore
<1>7. CASE ScanEnds(x)
  <2>1. PICK closed \in BOOLEAN : closed = (x.kind = "close")
    OBVIOUS
  <2>2. PICK p : p = [parser EXCEPT !.at = "end", !.matched = FALSE, !.head = <<>>, !.closed = closed]
    OBVIOUS
  <2>3. InBody(p)
    BY <1>1, <1>5, <2>2 DEF ParserState, InBody
  <2>4. Scans(parser.head, p, x.used)
    BY Zenon, <1>7, <2>1, <2>2 DEF ScanEnds
  <2>5. QED BY Zenon, <1>1, <1>2, <1>4, <2>3, <2>4
<1>8. CASE ScanFalse(x)
  <2>1. PICK p : p = [parser EXCEPT !.matched = FALSE, !.head = <<>>]
    OBVIOUS
  <2>2. InBody(p)
    BY <1>1, <1>5, <2>1 DEF ParserState, InBody
  <2>3. parser.head \o Delim \in Seq(Byte)
    BY Zenon, <1>1, DelimIs, Both
  <2>4. Scans(parser.head \o Delim, p, x.used)
    BY Zenon, <1>8, <2>1 DEF ScanFalse
  <2>5. QED BY Zenon, <1>2, <1>4, <2>2, <2>3, <2>4
<1>9. CASE ScanFinds(found)
  <2>0. found # 0
    BY Zenon, <1>9 DEF ScanFinds
  <2>1. SubSeq(buffer, 1, found - 1) \in Seq(Byte)
    <3>1. PICK m \in Nat : m = found - 1 /\ m <= Len(buffer)
      BY <1>1, <1>3, <2>0
    <3>2. SubSeq(buffer, 1, m) \in Seq(Byte)
      BY <1>1, <3>1, SliceHas DEF IsSlice
    <3>3. QED BY Zenon, <3>1, <3>2
  <2>2. PICK head \in Seq(Byte) : head = SubSeq(buffer, 1, found - 1)
    BY Zenon, <2>1
  <2>3. PICK p : p = [parser EXCEPT !.matched = TRUE, !.head = head]
    OBVIOUS
  <2>4. InBody(p)
    BY <1>1, <2>3 DEF ParserState, InBody
  <2>5. Scans(<<>>, p, (found + Retain) - 1)
    BY Zenon, <1>9, <2>2, <2>3 DEF ScanFinds
  <2>6. QED BY Zenon, <1>3, <1>4, <1>5, <2>0, <2>4, <2>5
<1>10. CASE ScanPasses(found)
  <2>1. PICK n \in Nat : n = Emptied /\ n <= Len(buffer)
    BY Zenon, EmptiedIs
  <2>2. SubSeq(buffer, 1, n) \in Seq(Byte)
    BY <1>1, <2>1, SliceHas DEF IsSlice
  <2>3. InBody([parser EXCEPT !.starving = TRUE])
    BY <1>1 DEF ParserState, InBody
  <2>4. QED BY Zenon, <1>4, <1>10, <2>1, <2>2, <2>3 DEF ScanPasses
<1>11. QED BY Zenon, <1>2, <1>3, <1>6, <1>7, <1>8, <1>9, <1>10, ScanCases DEF ScanFails

LEMMA ScanTyped ==
  ASSUME PartTypesOK, PartAtHand, ScanBody
  PROVE  Kept
<1>1. /\ parser \in ParserState /\ parser.at = "body" /\ consumer \notin {"holding", "gone"}
      /\ consumer \in {"holding", "reading", "draining", "skipping", "gone"}
      /\ parser.head \in Seq(Byte) /\ buffer \in Seq(Byte) /\ wire \in Seq(Byte)
  <2>1. /\ parser \in ParserState /\ consumer \in {"holding", "reading", "draining", "skipping", "gone"}
        /\ buffer \in Seq(Byte) /\ wire \in Seq(Byte)
    BY DEF PartTypesOK
  <2>2. parser.at = "body" /\ consumer \notin {"holding", "gone"}
    BY DEF ScanBody, Stepping, Running
  <2>3. QED BY <2>1, <2>2 DEF ParserState
<1>2. \/ \E u \in Nat : Scans(<<>>, Fail(parser), u)
      \/ \E p, u, chunk : Scans(chunk, p, u) /\ u \in Nat /\ chunk \in Seq(Byte) /\ InBody(p)
  BY Zenon, ScanSome
<1>3. UNCHANGED <<body, wire>>
  BY Zenon DEF ScanBody
<1>4. ASSUME NEW p \in ParserState, NEW chunk \in Seq(Byte), Refused(chunk, p), buffer' \in Seq(Byte)
      PROVE  Kept
  <2>1. parser' \in ParserState /\ parser'.at = "failed"
    BY Zenon, <1>4, RefusedIs
  <2>2. parts' = parts /\ consumer' = consumer
    BY Zenon, <1>4 DEF Refused
  <2>4. PartAtHand'
    <3>1. "failed" \notin {"body", "end"} /\ "failed" # "done"
      OBVIOUS
    <3>2. QED BY Zenon, <2>1, <3>1, AtHandElsewhere
  <2>5. wire' \in Seq(Byte) /\ body' = body /\ parser' \in ParserState
        /\ consumer' \in {"holding", "reading", "draining", "skipping", "gone"}
    BY Zenon, <1>1, <1>3, <2>1, <2>2
  <2>6. QED BY Zenon, <1>4, <2>2, <2>4, <2>5, KeptWithoutParts
<1>5. ASSUME NEW u \in Nat, Scans(<<>>, Fail(parser), u)
      PROVE  Kept
  <2>1. Fail(parser) \in ParserState /\ Fail(parser).at = "failed"
    BY <1>1 DEF ParserState, Fail
  <2>2. PICK p \in ParserState : p = Fail(parser) /\ p.at = "failed"
    BY Zenon, <2>1
  <2>3. Emits(<<>>, p) /\ buffer' \in Seq(Byte)
    BY Zenon, <1>5, <2>2, BufferTyped DEF Scans
  <2>4. CASE Refused(<<>>, p)
    <3>1. <<>> \in Seq(Byte)
      OBVIOUS
    <3>2. QED BY Zenon, <1>4, <2>3, <2>4, <3>1
  <2>5. CASE Emitted(<<>>, p)
    <3>1. PICK size \in Nat, total \in Nat : size = p.size + Len(<<>>) /\ total = p.total + Len(<<>>)
      <4>1. p.size + 0 \in Nat /\ p.total + 0 \in Nat
        BY <2>2 DEF ParserState
      <4>2. Len(<<>>) = 0
        OBVIOUS
      <4>3. QED BY Zenon, <4>1, <4>2
    <3>2. parser' = [p EXCEPT !.size = size, !.total = total]
      BY Zenon, <2>5, <3>1 DEF Emitted
    <3>3. parser' \in ParserState /\ parser'.at = "failed"
      BY <2>2, <3>2 DEF ParserState
    <3>4. consumer' = consumer
      BY Zenon, <2>5 DEF Emitted
    <3>5. parts \in Seq(PartState)
      BY DEF PartTypesOK
    <3>6. consumer = "reading" => parts # <<>> /\ parts' = [parts EXCEPT ![Len(parts)].bytes = @ \o <<>>]
      <4>1. parts # <<>> \/ consumer # "reading"
        BY Zenon, <1>1 DEF PartAtHand
      <4>2. QED BY Zenon, <2>5, <4>1 DEF Emitted
    <3>7. consumer # "reading" => parts' = parts
      BY Zenon, <2>5 DEF Emitted
    <3>8. parts' \in Seq(PartState) /\ (Broken => Broken')
      <4>1. CASE consumer = "reading"
        <5>1. <<>> \in Seq(Byte)
          OBVIOUS
        <5>2. SameButLast(parts, parts') /\ parts'[Len(parts)].state = parts[Len(parts)].state
          BY Zenon, <3>5, <3>6, <4>1, <5>1, PartGrows
        <5>3. DOMAIN parts' = DOMAIN parts /\ DOMAIN parts = 1..Len(parts)
          BY <3>5, <5>2 DEF SameButLast
        <5>4. \A i \in 1..Len(parts) : parts'[i].state = parts[i].state
          BY Zenon, <5>2 DEF SameButLast
        <5>5. QED BY Zenon, <5>2, <5>3, <5>4 DEF SameButLast, Broken
      <4>2. CASE consumer # "reading"
        BY Zenon, <3>5, <3>7, <4>2 DEF Broken
      <4>3. QED BY <4>1, <4>2
    <3>9. PartAtHand'
      <4>1. "failed" \notin {"body", "end"} /\ "failed" # "done"
        OBVIOUS
      <4>2. QED BY Zenon, <3>3, <4>1, AtHandElsewhere
    <3>10. PartTypesOK'
      BY Zenon, <1>1, <1>3, <2>3, <3>3, <3>4, <3>8 DEF PartTypesOK
    <3>11. QED BY Zenon, <3>8, <3>9, <3>10 DEF Kept
  <2>6. QED BY Zenon, <2>3, <2>4, <2>5, EmitIs
<1>6. ASSUME NEW p, InBody(p), NEW u \in Nat, NEW chunk \in Seq(Byte), Scans(chunk, p, u)
      PROVE  Kept
  <2>1. Emits(chunk, p) /\ buffer' \in Seq(Byte)
    BY Zenon, <1>6, BufferTyped DEF Scans
  <2>2. CASE Refused(chunk, p)
    BY Zenon, <1>4, <1>6, <2>1, <2>2 DEF InBody
  <2>3. CASE Emitted(chunk, p)
    <3>1. /\ parser' \in ParserState /\ parts' \in Seq(PartState)
          /\ consumer' \in {"holding", "reading", "draining", "skipping", "gone"}
          /\ PartAtHand' /\ (Broken => Broken')
      BY Zenon, <1>1, <1>6, <2>3, EmittedTyped DEF InBody
    <3>2. PartTypesOK'
      BY Zenon, <1>1, <1>3, <2>1, <3>1 DEF PartTypesOK
    <3>3. QED BY Zenon, <3>1, <3>2 DEF Kept
  <2>4. QED BY Zenon, <2>1, <2>2, <2>3, EmitIs
<1>7. QED BY Zenon, <1>2, <1>5, <1>6

\* What a step of readPartHeaders() does, case by case.
Opened(fields, files) ==
  [parser EXCEPT !.at = "body", !.size = 0, !.returned = FALSE, !.fields = fields, !.files = files]
HeaderWaits ==
  /\ ~HasNewline(buffer) /\ Len(buffer) <= MaxLine
  /\ parser' = [parser EXCEPT !.starving = TRUE] /\ UNCHANGED <<buffer, consumer, parts>>
HeaderFails == parser' = Fail(parser) /\ UNCHANGED <<buffer, consumer, parts>>
HeaderRead ==
  /\ buffer # <<>> /\ (HasNewline(buffer) \/ parser.eof)
  /\ buffer' = From(buffer, Len(Line(buffer)) + 2)
HeaderGoesOn(line) ==
  /\ HeaderRead /\ line # <<>> /\ UNCHANGED <<consumer, parts>>
  /\ parser' = [parser EXCEPT !.used = parser.used + Len(line) + 2, !.kind = Disposition(parser.kind, line)]
HeaderOver ==
  /\ HeaderRead /\ parts' = parts /\ consumer' \in {"holding", "skipping"}
  /\ \E fields, files \in Nat : parser' = Fail(Opened(fields, files))
HeaderOpens(line) ==
  /\ HeaderRead /\ line = <<>>
  /\ consumer' = IF parser.kind = "none" THEN "skipping" ELSE "holding"
  /\ parts' = IF parser.kind = "none" THEN parts
              ELSE Append(parts, [kind |-> parser.kind, bytes |-> <<>>, state |-> "open"])
  /\ \E fields, files \in Nat : parser' = Opened(fields, files)

LEMMA HeaderCases ==
  ASSUME PartTypesOK, ReadHeader
  PROVE  \/ HeaderWaits \/ HeaderFails \/ HeaderOver
         \/ HeaderGoesOn(Chomp(Line(buffer))) \/ HeaderOpens(Chomp(Line(buffer)))
<1>1. buffer \in Seq(Byte) /\ parser \in ParserState
  BY DEF PartTypesOK
<1>2. IndexOf(buffer, <<"n">>) # 0 <=> HasNewline(buffer)
  BY <1>1, LineIs
<1>3. PICK line : line = Chomp(Line(buffer))
  OBVIOUS
<1>4. PICK used : used = parser.used + Len(line) + 2
  OBVIOUS
<1>5. CASE ~(HasNewline(buffer) \/ parser.eof)
  <2>1. /\ parser' = IF Len(buffer) > MaxLine THEN Fail(parser) ELSE [parser EXCEPT !.starving = TRUE]
        /\ UNCHANGED <<buffer, consumer, parts>>
    BY Zenon, <1>2, <1>5 DEF ReadHeader
  <2>2. CASE Len(buffer) > MaxLine
    BY Zenon, <2>1, <2>2 DEF HeaderFails
  <2>3. CASE ~(Len(buffer) > MaxLine)
    <3>1. Len(buffer) <= MaxLine
      BY <1>1, <2>3, MultipartAssumption
    <3>2. QED BY Zenon, <1>5, <2>1, <2>3, <3>1 DEF HeaderWaits
  <2>4. QED BY <2>2, <2>3
<1>6. CASE (HasNewline(buffer) \/ parser.eof) /\ (buffer = <<>> \/ used > MaxHeaders)
  <2>1. parser' = Fail(parser) /\ UNCHANGED <<buffer, consumer, parts>>
    BY Zenon, <1>2, <1>3, <1>4, <1>6 DEF ReadHeader
  <2>2. QED BY Zenon, <2>1 DEF HeaderFails
<1>7. CASE (HasNewline(buffer) \/ parser.eof) /\ ~(buffer = <<>> \/ used > MaxHeaders) /\ line # <<>>
  <2>1. /\ buffer' = From(buffer, Len(Line(buffer)) + 2) /\ UNCHANGED <<consumer, parts>>
        /\ parser' = [parser EXCEPT !.used = used, !.kind = Disposition(@, line)]
    BY Zenon, <1>2, <1>3, <1>4, <1>7 DEF ReadHeader
  <2>2. HeaderRead
    BY Zenon, <1>7, <2>1 DEF HeaderRead
  <2>3. parser' = [parser EXCEPT !.used = parser.used + Len(line) + 2, !.kind = Disposition(parser.kind, line)]
    BY Zenon, <1>4, <2>1
  <2>4. QED BY Zenon, <1>3, <1>7, <2>1, <2>2, <2>3 DEF HeaderGoesOn
<1>8. CASE (HasNewline(buffer) \/ parser.eof) /\ ~(buffer = <<>> \/ used > MaxHeaders) /\ line = <<>>
  <2>1. PICK fields : fields = parser.fields + (IF parser.kind # "none" THEN 1 ELSE 0)
    OBVIOUS
  <2>2. PICK files : files = parser.files + (IF parser.kind = "file" THEN 1 ELSE 0)
    OBVIOUS
  <2>3. fields \in Nat /\ files \in Nat
    BY <1>1, <2>1, <2>2 DEF ParserState
  <2>4. PICK over \in BOOLEAN : over = (fields > MaxFields \/ files > MaxFiles)
    BY Zenon
  <2>5. /\ buffer' = From(buffer, Len(Line(buffer)) + 2)
        /\ parser' = IF over THEN Fail(Opened(fields, files)) ELSE Opened(fields, files)
        /\ consumer' = IF parser.kind # "none" THEN "holding" ELSE "skipping"
        /\ parts' = IF parser.kind # "none" /\ ~over
                    THEN Append(parts, [kind |-> parser.kind, bytes |-> <<>>, state |-> "open"])
                    ELSE parts
    BY Zenon, <1>2, <1>3, <1>4, <1>8, <2>1, <2>2, <2>4 DEF ReadHeader, Opened
  <2>6. HeaderRead
    BY Zenon, <1>8, <2>5 DEF HeaderRead
  <2>7. CASE over
    <3>1. parts' = parts /\ parser' = Fail(Opened(fields, files)) /\ consumer' \in {"holding", "skipping"}
      BY Zenon, <2>5, <2>7
    <3>2. QED BY Zenon, <2>3, <2>6, <3>1 DEF HeaderOver
  <2>8. CASE ~over
    <3>1. /\ parser' = Opened(fields, files)
          /\ consumer' = IF parser.kind = "none" THEN "skipping" ELSE "holding"
          /\ parts' = IF parser.kind = "none" THEN parts
                      ELSE Append(parts, [kind |-> parser.kind, bytes |-> <<>>, state |-> "open"])
      BY Zenon, <2>5, <2>8
    <3>2. QED BY Zenon, <1>3, <1>8, <2>3, <2>6, <3>1 DEF HeaderOpens
  <2>9. QED BY <2>7, <2>8
<1>9. QED BY Zenon, <1>5, <1>6, <1>7, <1>8

\* A part is opened behind the others.
Behind(r, q, kind) ==
  /\ r \in Seq(PartState) /\ Len(r) = Len(q) + 1 /\ Len(q) \in Nat
  /\ \A i \in 1..Len(q) : r[i] = q[i]
  /\ r # <<>> /\ r[Len(r)].kind = kind /\ r[Len(r)].bytes = <<>> /\ r[Len(r)].state = "open"

LEMMA PartOpened ==
  ASSUME NEW q \in Seq(PartState), NEW kind \in {"file", "field"}, NEW r,
         r = Append(q, [kind |-> kind, bytes |-> <<>>, state |-> "open"])
  PROVE  Behind(r, q, kind)
<1>1. PICK p \in PartState : p = [kind |-> kind, bytes |-> <<>>, state |-> "open"]
  <2>1. [kind |-> kind, bytes |-> <<>>, state |-> "open"] \in PartState
    BY DEF PartState
  <2>2. QED BY Zenon, <2>1
<1>2. p.kind = kind /\ p.bytes = <<>> /\ p.state = "open"
  BY <1>1
<1>3. r = Append(q, p)
  BY Zenon, <1>1
<1>4. r \in Seq(PartState) /\ Len(r) = Len(q) + 1 /\ Len(q) \in Nat /\ r[Len(r)] = p /\ r # <<>>
      /\ \A i \in 1..Len(q) : r[i] = q[i]
  BY <1>3
<1>5. QED BY Zenon, <1>2, <1>4 DEF Behind

LEMMA HeaderTyped ==
  ASSUME PartTypesOK, PartAtHand, ReadHeader
  PROVE  Kept
<1>1. /\ parser \in ParserState /\ parser.at = "headers" /\ consumer \notin {"holding", "gone", "reading"}
      /\ consumer \in {"holding", "reading", "draining", "skipping", "gone"}
      /\ buffer \in Seq(Byte) /\ wire \in Seq(Byte) /\ parts \in Seq(PartState)
  <2>1. /\ parser \in ParserState /\ consumer \in {"holding", "reading", "draining", "skipping", "gone"}
        /\ buffer \in Seq(Byte) /\ wire \in Seq(Byte) /\ parts \in Seq(PartState)
    BY DEF PartTypesOK
  <2>2. parser.at = "headers" /\ consumer \notin {"holding", "gone"}
    BY DEF ReadHeader, Stepping, Running
  <2>3. consumer # "reading"
    BY <2>2 DEF PartAtHand
  <2>4. QED BY <2>1, <2>2, <2>3
<1>2. UNCHANGED <<body, wire>>
  BY Zenon DEF ReadHeader
<1>3. PICK line \in Seq(Byte) : line = Chomp(Line(buffer)) /\ Len(line) \in Nat
  <2>1. Line(buffer) \in Seq(Byte)
    BY <1>1, LineIs DEF IsLine
  <2>2. QED BY <2>1, ChompTyped
<1>4. HeaderRead => buffer' \in Seq(Byte)
  <2>1. Len(Line(buffer)) \in Nat
    BY <1>1, LineIs DEF IsLine
  <2>2. PICK l \in Nat : l = Len(Line(buffer))
    BY Zenon, <2>1
  <2>3. l + 2 \in Nat \ {0}
    OBVIOUS
  <2>4. From(buffer, l + 2) \in Seq(Byte)
    BY <1>1, <2>3, FromIs DEF IsRest
  <2>5. QED BY Zenon, <2>2, <2>4 DEF HeaderRead
<1>5. ASSUME parts' = parts, buffer' \in Seq(Byte), parser' \in ParserState,
             parser'.at \in {"headers", "failed"}, consumer' \in {consumer, "holding", "skipping"}
      PROVE  Kept
  <2>1. parser'.at \notin {"body", "end"} /\ consumer' # "reading" /\ consumer' # "gone"
        /\ consumer' \in {"holding", "reading", "draining", "skipping", "gone"}
    BY <1>1, <1>5
  <2>2. PartAtHand'
    BY Zenon, <2>1, AtHandElsewhere
  <2>3. QED BY Zenon, <1>1, <1>2, <1>5, <2>1, <2>2, KeptWithoutParts
<1>6. CASE HeaderWaits
  <2>1. parser' \in ParserState /\ parser'.at = "headers"
    <3>1. parser' = [parser EXCEPT !.starving = TRUE]
      BY Zenon, <1>6 DEF HeaderWaits
    <3>2. QED BY <1>1, <3>1 DEF ParserState
  <2>2. QED BY Zenon, <1>1, <1>5, <1>6, <2>1 DEF HeaderWaits
<1>7. CASE HeaderFails
  <2>1. parser' \in ParserState /\ parser'.at = "failed"
    <3>1. parser' = Fail(parser)
      BY Zenon, <1>7 DEF HeaderFails
    <3>2. QED BY <1>1, <3>1 DEF ParserState, Fail
  <2>2. QED BY Zenon, <1>1, <1>5, <1>7, <2>1 DEF HeaderFails
<1>8. CASE HeaderOver
  <2>1. PICK fields \in Nat, files \in Nat : parser' = Fail(Opened(fields, files))
    BY Zenon, <1>8 DEF HeaderOver
  <2>2. parser' \in ParserState /\ parser'.at = "failed"
    BY <1>1, <2>1 DEF ParserState, Fail, Opened
  <2>3. parts' = parts /\ consumer' \in {"holding", "skipping"} /\ buffer' \in Seq(Byte)
    BY Zenon, <1>4, <1>8 DEF HeaderOver
  <2>4. QED BY Zenon, <1>5, <2>2, <2>3
<1>9. CASE HeaderGoesOn(line)
  <2>1. PICK used \in Nat : used = parser.used + Len(line) + 2
    <3>1. parser.used + Len(line) + 2 \in Nat
      BY <1>1, <1>3 DEF ParserState
    <3>2. QED BY <3>1
  <2>2. PICK kind \in {"none", "file", "field"} : kind = Disposition(parser.kind, line)
    <3>1. Disposition(parser.kind, line) \in {"none", "file", "field"}
      BY <1>1 DEF Disposition, ParserState
    <3>2. QED BY Zenon, <3>1
  <2>3. parser' = [parser EXCEPT !.used = used, !.kind = kind]
    BY Zenon, <1>9, <2>1, <2>2 DEF HeaderGoesOn
  <2>4. parser' \in ParserState /\ parser'.at = "headers"
    BY <1>1, <2>3 DEF ParserState
  <2>5. parts' = parts /\ consumer' = consumer /\ buffer' \in Seq(Byte)
    BY Zenon, <1>4, <1>9 DEF HeaderGoesOn
  <2>6. QED BY Zenon, <1>5, <2>4, <2>5
<1>10. CASE HeaderOpens(line)
  <2>1. PICK fields \in Nat, files \in Nat : parser' = Opened(fields, files)
    BY Zenon, <1>10 DEF HeaderOpens
  <2>2. parser' \in ParserState /\ parser'.at = "body" /\ parser'.kind = parser.kind /\ ~parser'.returned
    BY <1>1, <2>1 DEF ParserState, Opened
  <2>3. buffer' \in Seq(Byte)
    BY Zenon, <1>4, <1>10 DEF HeaderOpens
  <2>4. CASE parser.kind = "none"
    <3>1. parts' = parts /\ consumer' = "skipping"
      BY Zenon, <1>10, <2>4 DEF HeaderOpens
    <3>2. PartAtHand'
      BY Zenon, <2>2, <2>4, <3>1 DEF PartAtHand
    <3>3. QED BY Zenon, <1>1, <1>2, <2>2, <2>3, <3>1, <3>2, KeptWithoutParts
  <2>5. CASE parser.kind # "none"
    <3>1. parts' = Append(parts, [kind |-> parser.kind, bytes |-> <<>>, state |-> "open"]) /\ consumer' = "holding"
      BY Zenon, <1>10, <2>5 DEF HeaderOpens
    <3>2. parser.kind \in {"file", "field"}
      BY <1>1, <2>5 DEF ParserState
    <3>3. /\ parts' \in Seq(PartState) /\ Len(parts') = Len(parts) + 1 /\ Len(parts) \in Nat
          /\ \A i \in 1..Len(parts) : parts'[i] = parts[i]
          /\ parts' # <<>> /\ parts'[Len(parts')].kind = parser.kind /\ parts'[Len(parts')].state = "open"
      <4>1. Behind(parts', parts, parser.kind)
        BY <1>1, <3>1, <3>2, PartOpened
      <4>2. QED BY Zenon, <4>1 DEF Behind
    <3>4. PartAtHand'
      <4>1. "holding" # "skipping" /\ "holding" # "reading" /\ "holding" # "gone"
        OBVIOUS
      <4>2. QED BY Zenon, <2>2, <2>5, <3>1, <3>3, <4>1 DEF PartAtHand
    <3>5. Broken => Broken'
      <4>1. \A i \in DOMAIN parts : i \in DOMAIN parts' /\ parts'[i] = parts[i]
        BY <1>1, <3>3
      <4>2. QED BY Zenon, <4>1 DEF Broken
    <3>6. PartTypesOK'
      BY Zenon, <1>1, <1>2, <2>2, <2>3, <3>1, <3>3 DEF PartTypesOK
    <3>7. QED BY Zenon, <3>4, <3>5, <3>6 DEF Kept
  <2>6. QED BY <2>4, <2>5
<1>11. QED BY Zenon, <1>3, <1>6, <1>7, <1>8, <1>9, <1>10, HeaderCases

LEMMA NextHeadersAre ==
  ASSUME NEW p \in ParserState
  PROVE  /\ NextHeaders(p) \in ParserState
         /\ NextHeaders(p).at = IF p.closed THEN "done" ELSE "headers"
         /\ NextHeaders(p).matched = p.matched /\ NextHeaders(p).head = p.head
         /\ NextHeaders(p).eof = p.eof
         /\ ~p.closed => NextHeaders(p).kind = "none" /\ ~NextHeaders(p).starving
<1>1. CASE p.closed
  BY <1>1 DEF NextHeaders, ParserState
<1>2. CASE ~p.closed
  BY <1>2 DEF NextHeaders, ParserState
<1>3. QED BY <1>1, <1>2

LEMMA EndTyped ==
  ASSUME PartTypesOK, PartAtHand, EndPart
  PROVE  Kept
<1>1. /\ parser \in ParserState /\ parser.at = "end" /\ consumer \notin {"holding", "gone"}
      /\ consumer \in {"holding", "reading", "draining", "skipping", "gone"}
      /\ buffer \in Seq(Byte) /\ wire \in Seq(Byte) /\ parts \in Seq(PartState)
  <2>1. /\ parser \in ParserState /\ consumer \in {"holding", "reading", "draining", "skipping", "gone"}
        /\ buffer \in Seq(Byte) /\ wire \in Seq(Byte) /\ parts \in Seq(PartState)
    BY DEF PartTypesOK
  <2>2. parser.at = "end" /\ consumer \notin {"holding", "gone"}
    BY DEF EndPart, Stepping, Running
  <2>3. QED BY <2>1, <2>2
<1>2. UNCHANGED <<body, wire, buffer>>
  BY Zenon DEF EndPart
<1>3. CASE consumer = "reading"
  <2>1. consumer' = "holding" /\ parser' = [parser EXCEPT !.returned = TRUE]
        /\ parts' = [parts EXCEPT ![Len(parts)].state = "whole"]
    BY Zenon, <1>3 DEF EndPart
  <2>2. /\ parser' \in ParserState /\ parser'.at = "end" /\ parser'.kind = parser.kind /\ parser'.returned
    BY <1>1, <2>1 DEF ParserState
  <2>3. parts # <<>> /\ parser.kind # "none" /\ parts[Len(parts)].kind = parser.kind
        /\ parts[Len(parts)].state = "open"
    BY Zenon, <1>1, <1>3 DEF PartAtHand
  <2>4. SameButLast(parts, parts') /\ parts'[Len(parts)].state = "whole"
    <3>1. "whole" \in {"whole", "broken"}
      OBVIOUS
    <3>2. QED BY Zenon, <1>1, <2>1, <2>3, <3>1, PartMarked
  <2>5. /\ Len(parts') = Len(parts) /\ Len(parts) \in Nat \ {0} /\ parts' \in Seq(PartState)
        /\ \A i \in 1..Len(parts) : parts'[i].kind = parts[i].kind /\ (i # Len(parts) => parts'[i] = parts[i])
    BY Zenon, <2>4 DEF SameButLast
  <2>6. parts' # <<>> /\ parts'[Len(parts')].kind = parser.kind /\ parts'[Len(parts')].state = "whole"
    BY <2>3, <2>4, <2>5
  <2>7. PartAtHand'
    <3>1. "whole" # "open" /\ "end" # "body" /\ "end" # "done" /\ "holding" \in {"holding", "gone"}
          /\ "holding" # "skipping" /\ "holding" # "reading" /\ "holding" # "gone"
      OBVIOUS
    <3>2. QED BY Zenon, <2>1, <2>2, <2>3, <2>6, <3>1 DEF PartAtHand
  <2>8. Broken => Broken'
    <3>1. \A i \in DOMAIN parts : i \in 1..Len(parts) /\ i \in DOMAIN parts'
      BY <1>1, <2>5
    <3>2. \A i \in DOMAIN parts : parts[i].state = "broken" => i # Len(parts)
      BY <2>3
    <3>3. QED BY Zenon, <2>5, <3>1, <3>2 DEF Broken
  <2>9. PartTypesOK'
    <3>1. "holding" \in {"holding", "reading", "draining", "skipping", "gone"}
      OBVIOUS
    <3>2. QED BY Zenon, <1>1, <1>2, <2>1, <2>2, <2>5, <3>1 DEF PartTypesOK
  <2>10. QED BY Zenon, <2>7, <2>8, <2>9 DEF Kept
<1>4. CASE consumer # "reading"
  <2>1. consumer' = "draining" /\ parser' = NextHeaders(parser) /\ parts' = parts
    BY Zenon, <1>4 DEF EndPart
  <2>2. parser' \in ParserState /\ parser'.at \in {"done", "headers"}
    BY <1>1, <2>1, NextHeadersAre
  <2>3. parser'.at \notin {"body", "end"} /\ consumer' # "reading" /\ consumer' # "gone"
        /\ consumer' \in {"holding", "reading", "draining", "skipping", "gone"}
    BY <2>1, <2>2
  <2>4. PartAtHand'
    BY Zenon, <2>3, AtHandElsewhere
  <2>5. QED BY Zenon, <1>1, <1>2, <2>1, <2>2, <2>3, <2>4, KeptWithoutParts
<1>5. QED BY <1>3, <1>4

LEMMA BreakTyped ==
  ASSUME PartTypesOK, PartAtHand, Break
  PROVE  Kept /\ Broken'
<1>1. /\ parser \in ParserState /\ parser.at \in {"body", "end"} /\ ~parser.returned /\ consumer = "holding"
      /\ wire \in Seq(Byte) /\ buffer \in Seq(Byte) /\ parts \in Seq(PartState)
  <2>1. parser \in ParserState /\ wire \in Seq(Byte) /\ buffer \in Seq(Byte) /\ parts \in Seq(PartState)
    BY DEF PartTypesOK
  <2>2. parser.at \in {"body", "end"} /\ ~parser.returned /\ consumer = "holding"
    BY Zenon DEF Break, Holding
  <2>3. QED BY Zenon, <2>1, <2>2
<1>2. /\ parser' = [parser EXCEPT !.returned = TRUE]
      /\ parts' = [parts EXCEPT ![Len(parts)].state = "broken"]
      /\ UNCHANGED <<body, wire, buffer, consumer>>
  BY Zenon DEF Break
<1>3. /\ parser' \in ParserState /\ parser'.at = parser.at /\ parser'.kind = parser.kind /\ parser'.returned
  BY <1>1, <1>2 DEF ParserState
<1>4. parts # <<>> /\ parser.kind # "none" /\ parts[Len(parts)].kind = parser.kind
  <2>1. "holding" # "skipping"
    OBVIOUS
  <2>2. QED BY Zenon, <1>1, <2>1 DEF PartAtHand
<1>5. SameButLast(parts, parts') /\ parts'[Len(parts)].state = "broken"
  <2>1. "broken" \in {"whole", "broken"}
    OBVIOUS
  <2>2. QED BY Zenon, <1>1, <1>2, <1>4, <2>1, PartMarked
<1>6. /\ Len(parts') = Len(parts) /\ Len(parts) \in Nat \ {0} /\ parts' \in Seq(PartState)
      /\ \A i \in 1..Len(parts) : parts'[i].kind = parts[i].kind
  BY Zenon, <1>5 DEF SameButLast
<1>7. parts' # <<>> /\ parts'[Len(parts')].kind = parser.kind /\ parts'[Len(parts')].state = "broken"
  BY <1>4, <1>5, <1>6
<1>8. PartAtHand'
  <2>1. "broken" # "open" /\ "holding" \in {"holding", "gone"}
        /\ "holding" # "skipping" /\ "holding" # "reading" /\ "holding" # "gone"
    OBVIOUS
  <2>2. QED BY Zenon, <1>1, <1>2, <1>3, <1>4, <1>7, <2>1 DEF PartAtHand
<1>9. Broken'
  <2>1. Len(parts') \in DOMAIN parts'
    BY <1>6
  <2>2. QED BY Zenon, <1>7, <2>1 DEF Broken
<1>10. PartTypesOK'
  <2>1. consumer' \in {"holding", "reading", "draining", "skipping", "gone"} /\ body' \in Bodies
    BY <1>2 DEF PartTypesOK
  <2>2. QED BY Zenon, <1>1, <1>2, <1>3, <1>6, <2>1 DEF PartTypesOK
<1>11. QED BY Zenon, <1>8, <1>9, <1>10 DEF Kept

LEMMA GoOnTyped ==
  ASSUME PartTypesOK, PartAtHand, ThrownInv, GoOn
  PROVE  Kept /\ Broken'
<1>1. /\ parser \in ParserState /\ wire \in Seq(Byte) /\ buffer \in Seq(Byte) /\ parts \in Seq(PartState)
      /\ parts # <<>>
  BY Zenon DEF PartTypesOK, GoOn, ThrownInv
<1>2. PICK p : p = [parser EXCEPT !.matched = FALSE, !.head = <<>>]
  OBVIOUS
<1>3. /\ consumer' = "draining" /\ parser' = NextHeaders(p)
      /\ parts' = [parts EXCEPT ![Len(parts)].state = "broken"]
      /\ wire' = IF TooMuch THEN <<>> ELSE wire
      /\ body' = body /\ buffer' = buffer
  BY Zenon, <1>2 DEF GoOn
<1>4. parser' \in ParserState /\ parser'.at \notin {"body", "end"} /\ wire' \in Seq(Byte)
  <2>1. p \in ParserState
    <3>1. <<>> \in Seq(Byte)
      OBVIOUS
    <3>2. QED BY <1>1, <1>2, <3>1 DEF ParserState
  <2>2. parser' \in ParserState /\ parser'.at \notin {"body", "end"}
    BY <1>3, <2>1, NextHeadersAre
  <2>3. wire' \in Seq(Byte)
    BY <1>1, <1>3
  <2>4. QED BY <2>2, <2>3
<1>5. SameButLast(parts, parts') /\ parts'[Len(parts)].state = "broken"
  <2>1. "broken" \in {"whole", "broken"}
    OBVIOUS
  <2>2. QED BY Zenon, <1>1, <1>3, <2>1, PartMarked
<1>6. Len(parts) \in DOMAIN parts' /\ parts' \in Seq(PartState)
  <2>1. Len(parts') = Len(parts) /\ Len(parts) \in Nat \ {0} /\ parts' \in Seq(PartState)
    BY Zenon, <1>5 DEF SameButLast
  <2>2. QED BY <2>1
<1>7. Broken'
  BY Zenon, <1>5, <1>6 DEF Broken
<1>8. "draining" # "reading" /\ "draining" # "gone"
      /\ "draining" \in {"holding", "reading", "draining", "skipping", "gone"}
  OBVIOUS
<1>9. PartAtHand'
  BY Zenon, <1>3, <1>4, <1>8, AtHandElsewhere
<1>10. PartTypesOK'
  BY Zenon, <1>1, <1>3, <1>4, <1>6, <1>8 DEF PartTypesOK
<1>11. QED BY Zenon, <1>7, <1>9, <1>10 DEF Kept

LEMMA ConsumerTyped ==
  ASSUME PartTypesOK, PartAtHand, ReadOn \/ Advance \/ Abandon
  PROVE  Kept
<1>1. /\ parser \in ParserState /\ (~Thrown => consumer = "holding" /\ parser.at \notin {"done", "failed"})
      /\ wire \in Seq(Byte) /\ buffer \in Seq(Byte)
  <2>1. parser \in ParserState /\ wire \in Seq(Byte) /\ buffer \in Seq(Byte)
    BY DEF PartTypesOK
  <2>2. ~Thrown => consumer = "holding" /\ parser.at \notin {"done", "failed"}
    BY Zenon DEF ReadOn, Advance, Abandon, Holding
  <2>3. QED BY Zenon, <2>1, <2>2
<1>2. /\ "holding" # "skipping" /\ "holding" # "reading" /\ "holding" # "gone"
      /\ "reading" # "skipping" /\ "reading" # "gone" /\ "draining" # "skipping" /\ "draining" # "reading"
      /\ "draining" # "gone" /\ "gone" # "skipping" /\ "gone" # "reading"
      /\ \A c \in {"reading", "draining", "gone"} : c \in {"holding", "reading", "draining", "skipping", "gone"}
      /\ "gone" \in {"holding", "gone"} /\ "reading" \in {"reading", "draining", "gone"}
      /\ "draining" \in {"reading", "draining", "gone"} /\ "gone" \in {"reading", "draining", "gone"}
  OBVIOUS
<1>3. CASE ReadOn
  <2>1. consumer' = "reading" /\ UNCHANGED <<body, wire, buffer, parser, parts>>
        /\ parser.at \in {"body", "end"} /\ ~parser.returned /\ consumer = "holding"
    BY Zenon, <1>3 DEF ReadOn, Holding
  <2>2. PartAtHand'
    BY Zenon, <1>1, <1>2, <2>1 DEF PartAtHand
  <2>3. QED BY Zenon, <1>1, <1>2, <2>1, <2>2, KeptWithoutParts
<1>4. CASE Advance
  <2>1. consumer' = "draining" /\ UNCHANGED <<body, wire, buffer, parts>>
        /\ parser' = IF parser.at \in {"body", "end"} /\ parser.returned THEN NextHeaders(parser) ELSE parser
    BY Zenon, <1>4 DEF Advance
  <2>2. CASE parser.at \in {"body", "end"} /\ parser.returned
    <3>1. parser' = NextHeaders(parser)
      BY Zenon, <2>1, <2>2
    <3>2. parser' \in ParserState /\ parser'.at \in {"done", "headers"}
      BY <1>1, <3>1, NextHeadersAre
    <3>3. parser'.at \notin {"body", "end"}
      BY <3>2
    <3>4. PartAtHand'
      BY Zenon, <1>2, <2>1, <3>3, AtHandElsewhere
    <3>5. QED BY Zenon, <1>1, <1>2, <2>1, <3>2, <3>4, KeptWithoutParts
  <2>3. CASE ~(parser.at \in {"body", "end"} /\ parser.returned)
    <3>1. parser' = parser
      BY Zenon, <2>1, <2>3
    <3>2. consumer = "holding" /\ parser.at \notin {"done", "failed"}
      BY Zenon, <1>4 DEF Advance, Holding
    <3>3. PartAtHand'
      BY Zenon, <1>2, <2>1, <2>3, <3>1, <3>2 DEF PartAtHand
    <3>4. QED BY Zenon, <1>1, <1>2, <2>1, <3>1, <3>3, KeptWithoutParts
  <2>4. QED BY <2>2, <2>3
<1>5. CASE Abandon
  <2>1. consumer' = "gone" /\ wire' = <<>> /\ UNCHANGED <<body, buffer, parser, parts>>
    BY Zenon, <1>5 DEF Abandon
  <2>2. wire' \in Seq(Byte)
    BY <2>1
  <2>3. parser.at # "done" /\ (Thrown => parser.at \notin {"body", "end"})
    BY <1>1 DEF Thrown
  <2>4. PartAtHand'
    <3>1. CASE Thrown
      BY Zenon, <1>2, <2>1, <2>3, <3>1, AtHandElsewhere
    <3>2. CASE ~Thrown
      BY Zenon, <1>1, <1>2, <2>1, <2>3, <3>2 DEF PartAtHand
    <3>3. QED BY <3>1, <3>2
  <2>5. QED BY Zenon, <1>1, <1>2, <2>1, <2>2, <2>4, KeptWithoutParts
<1>6. QED BY <1>3, <1>4, <1>5

LEMMA MultipartTyped ==
  ASSUME PartTypesOK, PartAtHand, ThrownInv, [MultipartNext]_multipartVars
  PROVE  Kept
<1>1. CASE UNCHANGED multipartVars
  <2>1. UNCHANGED <<body, wire, buffer, parser, consumer, parts>>
    BY <1>1 DEF multipartVars
  <2>2. PartAtHand'
    BY Zenon, <2>1, AtHandSame
  <2>3. QED BY Zenon, <2>1, <2>2, KeptWithoutParts DEF PartTypesOK
<1>2. CASE MultipartNext
  BY Zenon, <1>2, FillTyped, SkipsTyped, HeaderTyped, ScanTyped, EndTyped, BreakTyped, GoOnTyped,
     ConsumerTyped DEF MultipartNext
<1>3. QED BY Zenon, <1>1, <1>2

-----------------------------------------------------------------------------
(* How much the buffer holds *)

\* The bounds as the parser is in a place.
Room(at, n, starving) ==
  /\ at \in {"preamble", "body"} => n <= Retain + MaxPadding + (IF starving THEN 0 ELSE MaxChunk)
  /\ at = "end" => n <= Held /\ ~starving

LEMMA Bounds ==
  /\ Retain = 5 /\ MaxPadding \in Nat /\ MaxChunk \in Nat /\ MaxLine \in Nat
  /\ Held = Retain + MaxPadding + MaxChunk /\ Held \in Nat
  BY DelimIs, MultipartAssumption DEF Held

LEMMA RestShorter ==
  ASSUME PartTypesOK, NEW u \in Nat
  PROVE  /\ Len(From(buffer, u + 1)) \in Nat /\ Len(buffer) \in Nat
         /\ Len(From(buffer, u + 1)) <= Len(buffer)
         /\ u <= Len(buffer) => Len(From(buffer, u + 1)) = Len(buffer) - u
<1>1. buffer \in Seq(Byte) /\ u + 1 \in Nat \ {0}
  BY DEF PartTypesOK
<1>2. IsRest(From(buffer, u + 1), buffer, u + 1)
  BY <1>1, FromIs
<1>3. PICK n \in Nat, m \in Nat : n = Len(buffer) /\ m = Len(From(buffer, u + 1))
  <2>1. Len(buffer) \in Nat
    BY <1>1
  <2>2. Len(From(buffer, u + 1)) \in Nat
    BY <1>2 DEF IsRest
  <2>3. QED BY Zenon, <2>1, <2>2
<1>4. m = IF u + 1 <= n + 1 THEN (n + 1) - (u + 1) ELSE 0
  BY Zenon, <1>2, <1>3 DEF IsRest
<1>5. m \in Nat /\ m <= n /\ (u <= n => m = n - u)
  BY <1>4
<1>6. QED BY Zenon, <1>3, <1>5

LEMMA OutsideHeaders ==
  ASSUME parser'.at # "headers", parser'.eof /\ consumer' # "gone" => wire' = <<>>,
         NEW n, n = Len(buffer'), NEW starving, starving = parser'.starving,
         Room(parser'.at, n, starving)
  PROVE  BufferInv'
  BY Zenon DEF BufferInv, Room

LEMMA EofKept ==
  ASSUME BufferInv, parser'.eof = parser.eof, wire' = wire, consumer # "gone"
  PROVE  parser'.eof /\ consumer' # "gone" => wire' = <<>>
  BY Zenon DEF BufferInv

LEMMA ScanRoom ==
  ASSUME PartTypesOK, BufferInv, Stepping("body"), NEW p \in ParserState, p.eof = parser.eof,
         NEW u \in Nat, NEW chunk, Scans(chunk, p, u), p.at \in {"body", "end", "failed"},
         p.at = "end" => ~p.starving,
         p.at = "body" /\ p.starving => Len(From(buffer, u + 1)) <= Retain + MaxPadding
  PROVE  BufferInv'
<1>1. /\ Emits(chunk, p) /\ wire' = wire /\ consumer # "gone" /\ parser.at = "body" /\ ~parser.starving
      /\ buffer' = From(buffer, u + 1)
  <2>1. parser.at = "body" /\ ~parser.starving /\ consumer # "gone"
    BY DEF Stepping, Running
  <2>2. QED BY Zenon, <2>1 DEF Scans
<1>2. parser'.eof = p.eof /\ parser'.starving = p.starving /\ parser'.at \in {p.at, "failed"}
  <2>1. CASE Refused(chunk, p)
    BY <2>1, RefusedIs
  <2>2. CASE Emitted(chunk, p)
    <3>1. PICK size, total : parser' = [p EXCEPT !.size = size, !.total = total]
      BY Zenon, <2>2 DEF Emitted
    <3>2. QED BY <3>1 DEF ParserState
  <2>3. QED BY Zenon, <1>1, <2>1, <2>2, EmitIs
<1>3. PICK n \in Nat, m \in Nat : n = Len(buffer) /\ m = Len(From(buffer, u + 1)) /\ m <= n
  BY Zenon, RestShorter
<1>4. n <= Retain + MaxPadding + MaxChunk
  BY Zenon, <1>1, <1>3 DEF BufferInv
<1>5. m = Len(buffer')
  BY Zenon, <1>1, <1>3
<1>6. PICK starving : starving = parser'.starving
  OBVIOUS
<1>7. Room(parser'.at, m, starving)
  <2>1. parser'.at \in {"preamble", "body"} => parser'.at = "body" /\ p.at = "body"
    BY <1>2
  <2>2. starving /\ p.at = "body" => m <= Retain + MaxPadding
    BY Zenon, <1>2, <1>3, <1>6
  <2>3. m <= Retain + MaxPadding + MaxChunk
    BY <1>3, <1>4, Bounds
  <2>4. starving /\ p.at = "body" => m <= Retain + MaxPadding + 0
    BY <2>2, Bounds
  <2>5. m <= Held
    BY <2>3, Bounds
  <2>6. parser'.at = "end" => ~starving
    BY <1>2, <1>6
  <2>7. QED BY Zenon, <2>1, <2>3, <2>4, <2>5, <2>6 DEF Room
<1>8. parser'.at # "headers"
  BY <1>2
<1>9. parser'.eof /\ consumer' # "gone" => wire' = <<>>
  BY Zenon, <1>1, <1>2, EofKept
<1>10. QED BY Zenon, <1>5, <1>6, <1>7, <1>8, <1>9, OutsideHeaders

LEMMA ScanSmall ==
  ASSUME PartTypesOK, BufferInv, ScanBody
  PROVE  BufferInv'
<1>1. /\ parser \in ParserState /\ buffer \in Seq(Byte) /\ parser.eof \in BOOLEAN /\ Stepping("body")
      /\ parser.at = "body" /\ ~parser.starving
  <2>1. parser \in ParserState /\ buffer \in Seq(Byte)
    BY DEF PartTypesOK
  <2>2. parser.eof \in BOOLEAN
    BY <2>1 DEF ParserState
  <2>3. Stepping("body")
    BY Zenon DEF ScanBody
  <2>4. QED BY Zenon, <2>1, <2>2, <2>3 DEF Stepping
<1>2. PICK x : x = Suffix(buffer, parser.eof) /\ x.used \in Nat
               /\ (x.kind = "more" => Len(buffer) <= MaxPadding + 1)
  BY <1>1, SuffixIs DEF SuffixFits
<1>3. PICK found : found = IndexOf(buffer, Delim) /\ found \in Nat
                   /\ (found # 0 => (found + Retain) - 1 \in Nat)
  <2>1. IsNeedle(Delim)
    BY NeedleIs DEF Needles
  <2>2. IndexOf(buffer, Delim) \in Nat
    BY <1>1, <2>1, IndexIs DEF IsFirst
  <2>3. QED BY <2>2, DelimIs
<1>4. CASE ScanMore(x)
  <2>1. PICK p : p = [parser EXCEPT !.starving = TRUE]
    OBVIOUS
  <2>2. p \in ParserState /\ p.at \in {"body", "end", "failed"} /\ p.at # "end" /\ p.eof = parser.eof
    BY <1>1, <2>1 DEF ParserState
  <2>3. Scans(<<>>, p, x.used) /\ x.kind = "more"
    BY Zenon, <1>4, <2>1 DEF ScanMore
  <2>4. PICK n \in Nat, m \in Nat : n = Len(buffer) /\ m = Len(From(buffer, x.used + 1)) /\ m <= n /\ n <= MaxPadding + 1
    BY Zenon, <1>2, <2>3, RestShorter
  <2>5. m <= Retain + MaxPadding
    BY <2>4, Bounds
  <2>6. QED BY Zenon, <1>1, <1>2, <2>2, <2>3, <2>4, <2>5, ScanRoom
<1>5. CASE ScanEnds(x)
  <2>1. PICK closed \in BOOLEAN : closed = (x.kind = "close")
    OBVIOUS
  <2>2. PICK p : p = [parser EXCEPT !.at = "end", !.matched = FALSE, !.head = <<>>, !.closed = closed]
    OBVIOUS
  <2>3. p \in ParserState /\ ~p.starving /\ p.at \in {"body", "end", "failed"} /\ p.at # "body" /\ p.eof = parser.eof
    <3>1. <<>> \in Seq(Byte)
      OBVIOUS
    <3>2. QED BY <1>1, <2>2, <3>1 DEF ParserState
  <2>4. Scans(parser.head, p, x.used)
    BY Zenon, <1>5, <2>1, <2>2 DEF ScanEnds
  <2>5. QED BY Zenon, <1>1, <1>2, <2>3, <2>4, ScanRoom
<1>6. CASE ScanFalse(x)
  <2>1. PICK p : p = [parser EXCEPT !.matched = FALSE, !.head = <<>>]
    OBVIOUS
  <2>2. p \in ParserState /\ ~p.starving /\ p.at \in {"body", "end", "failed"} /\ p.eof = parser.eof
    <3>1. <<>> \in Seq(Byte)
      OBVIOUS
    <3>2. QED BY <1>1, <2>1, <3>1 DEF ParserState
  <2>3. Scans(parser.head \o Delim, p, x.used)
    BY Zenon, <1>6, <2>1 DEF ScanFalse
  <2>4. QED BY Zenon, <1>1, <1>2, <2>2, <2>3, ScanRoom
<1>7. CASE ScanFails
  <2>1. PICK u \in Nat : Scans(<<>>, Fail(parser), u)
    BY Zenon, <1>7 DEF ScanFails
  <2>2. Fail(parser) \in ParserState /\ Fail(parser).at \in {"body", "end", "failed"}
        /\ Fail(parser).at # "body" /\ Fail(parser).at # "end" /\ Fail(parser).eof = parser.eof
    BY <1>1 DEF ParserState, Fail
  <2>3. QED BY Zenon, <1>1, <2>1, <2>2, ScanRoom
<1>8. CASE ScanFinds(found)
  <2>1. PICK head \in Seq(Byte) : head = SubSeq(buffer, 1, found - 1)
    <3>1. SubSeq(buffer, 1, found - 1) \in Seq(Byte)
      <4>1. IsNeedle(Delim) /\ found # 0
        BY Zenon, <1>8, NeedleIs DEF Needles, ScanFinds
      <4>2. Occurs(buffer, found, Delim)
        BY <1>1, <1>3, <4>1, IndexIs DEF IsFirst
      <4>3. PICK m \in Nat : m = found - 1 /\ m <= Len(buffer)
        <5>1. PICK n \in Nat : n = Len(buffer)
          BY <1>1
        <5>2. found + 5 <= n + 1
          BY Zenon, <4>2, <5>1, DelimIs DEF Occurs
        <5>3. found \in Nat /\ found # 0
          BY <1>3, <4>1
        <5>4. found - 1 \in Nat /\ found - 1 <= n
          BY <5>2, <5>3
        <5>5. QED BY Zenon, <5>1, <5>4
      <4>4. SubSeq(buffer, 1, m) \in Seq(Byte)
        BY <1>1, <4>3, SliceHas DEF IsSlice
      <4>5. QED BY Zenon, <4>3, <4>4
    <3>2. QED BY Zenon, <3>1
  <2>2. PICK p : p = [parser EXCEPT !.matched = TRUE, !.head = head]
    OBVIOUS
  <2>3. p \in ParserState /\ ~p.starving /\ p.at \in {"body", "end", "failed"} /\ p.eof = parser.eof
    BY <1>1, <2>2 DEF ParserState
  <2>4. Scans(<<>>, p, (found + Retain) - 1) /\ (found + Retain) - 1 \in Nat
    BY Zenon, <1>3, <1>8, <2>1, <2>2 DEF ScanFinds
  <2>5. QED BY Zenon, <1>1, <2>3, <2>4, ScanRoom
<1>9. CASE ScanPasses(found)
  <2>1. PICK p : p = [parser EXCEPT !.starving = TRUE]
    OBVIOUS
  <2>2. p \in ParserState /\ p.at \in {"body", "end", "failed"} /\ p.at # "end" /\ p.eof = parser.eof
    BY <1>1, <2>1 DEF ParserState
  <2>3. PICK u \in Nat : u = Emptied /\ u <= Len(buffer) /\ Len(buffer) - u <= Retain
    BY Zenon, EmptiedIs
  <2>4. Scans(SubSeq(buffer, 1, u), p, u)
    BY Zenon, <1>9, <2>1, <2>3 DEF ScanPasses
  <2>5. PICK m \in Nat : m = Len(From(buffer, u + 1)) /\ m = Len(buffer) - u
    BY Zenon, <2>3, RestShorter
  <2>6. m <= Retain
    BY Zenon, <2>3, <2>5
  <2>7. m <= Retain + MaxPadding
    BY <2>6, Bounds
  <2>8. QED BY Zenon, <1>1, <2>2, <2>4, <2>5, <2>7, ScanRoom
<1>10. QED BY Zenon, <1>2, <1>3, <1>4, <1>5, <1>6, <1>7, <1>8, <1>9, ScanCases

LEMMA SmallSame ==
  ASSUME BufferInv, buffer' = buffer, parser'.at = parser.at, parser'.starving = parser.starving,
         parser'.eof /\ consumer' # "gone" => wire' = <<>>
  PROVE  BufferInv'
<1>1. PICK b, at, starving : b = buffer /\ at = parser.at /\ starving = parser.starving
  BY Zenon
<1>2. buffer' = b /\ parser'.at = at /\ parser'.starving = starving
  BY Zenon, <1>1
<1>3. QED BY Zenon, <1>1, <1>2 DEF BufferInv

LEMMA HeadersRoom ==
  ASSUME parser'.at = "headers", ~parser'.starving, buffer' \in Seq(Byte), Len(buffer') <= Held,
         parser'.eof /\ consumer' # "gone" => wire' = <<>>
  PROVE  BufferInv'
<1>1. PICK n \in Nat : n = Len(buffer') /\ DOMAIN buffer' = 1..n
  OBVIOUS
<1>2. PICK held \in Nat : held = Held
  BY Bounds
<1>3. n <= held
  BY Zenon, <1>1, <1>2
<1>4. n <= MaxLine + held /\ \A i \in 1..n : n - i <= held
  BY <1>2, <1>3, Bounds
<1>5. \A i \in DOMAIN buffer' : Len(buffer') - i <= Held
  BY Zenon, <1>1, <1>2, <1>4
<1>6. Len(buffer') <= MaxLine + Held
  BY Zenon, <1>1, <1>2, <1>4
<1>7. "headers" \notin {"preamble", "body"} /\ "headers" # "end"
  OBVIOUS
<1>8. QED BY Zenon, <1>5, <1>6, <1>7 DEF BufferInv

LEMMA FillSmall ==
  ASSUME PartTypesOK, BufferInv, Fill
  PROVE  BufferInv'
<1>1. /\ parser \in ParserState /\ wire \in Seq(Byte) /\ buffer \in Seq(Byte)
      /\ parser.starving /\ consumer # "gone" /\ consumer' = consumer
  <2>1. parser \in ParserState /\ wire \in Seq(Byte) /\ buffer \in Seq(Byte)
    BY DEF PartTypesOK
  <2>2. parser.starving /\ Running /\ consumer' = consumer
    BY Zenon DEF Fill
  <2>3. QED BY <2>1, <2>2 DEF Running
<1>2. PICK n \in Nat : n = Len(buffer) /\ DOMAIN buffer = 1..n
  BY <1>1
<1>3. /\ parser.at \in {"preamble", "body"} => n <= Retain + MaxPadding + 0
      /\ parser.at # "end"
      /\ parser.at = "headers" => n <= MaxLine /\ \A i \in 1..n : buffer[i] # "n"
  BY Zenon, <1>1, <1>2 DEF BufferInv
<1>4. PICK b : b = buffer'
  OBVIOUS
<1>5. PICK more \in Nat :
        /\ b \in Seq(Byte) /\ Len(b) = n + more /\ more <= MaxChunk
        /\ \A i \in 1..n : b[i] = buffer[i]
        /\ parser'.at = parser.at /\ ~parser'.starving
        /\ parser'.eof /\ consumer' # "gone" => wire' = <<>>
  <2>1. CASE wire = <<>>
    <3>1. parser' = [parser EXCEPT !.starving = FALSE, !.eof = TRUE] /\ wire' = wire /\ buffer' = buffer
      BY Zenon, <2>1 DEF Fill
    <3>2. parser'.at = parser.at /\ ~parser'.starving
      BY <1>1, <3>1 DEF ParserState
    <3>3. 0 \in Nat /\ b \in Seq(Byte) /\ Len(b) = n + 0 /\ 0 <= MaxChunk /\ \A i \in 1..n : b[i] = buffer[i]
      BY <1>1, <1>2, <1>4, <3>1, Bounds
    <3>4. QED BY Zenon, <2>1, <3>1, <3>2, <3>3
  <2>2. CASE wire # <<>>
    <3>1. PICK k \in 1..MaxChunk : k <= Len(wire) /\ buffer' = buffer \o SubSeq(wire, 1, k)
                                 /\ wire' = From(wire, k + 1)
                                 /\ parser' = [parser EXCEPT !.starving = FALSE]
      BY Zenon, <2>2 DEF Fill
    <3>2. parser'.at = parser.at /\ ~parser'.starving /\ parser'.eof = parser.eof
      BY <1>1, <3>1 DEF ParserState
    <3>3. ~parser.eof
      BY Zenon, <1>1, <2>2 DEF BufferInv
    <3>4. k \in Nat /\ k <= MaxChunk
      BY <3>1, Bounds
    <3>5. PICK c \in Seq(Byte) : c = SubSeq(wire, 1, k) /\ Len(c) = k
      <4>1. SubSeq(wire, 1, k) \in Seq(Byte) /\ Len(SubSeq(wire, 1, k)) = k
        BY <1>1, <3>1, <3>4
      <4>2. QED BY Zenon, <4>1
    <3>6. b = buffer \o c
      BY Zenon, <1>4, <3>1, <3>5
    <3>7. b \in Seq(Byte) /\ Len(b) = n + k /\ \A i \in 1..n : b[i] = buffer[i]
      <4>1. /\ buffer \o c \in Seq(Byte) /\ Len(buffer \o c) = Len(buffer) + Len(c)
            /\ \A i \in 1..Len(buffer) : (buffer \o c)[i] = buffer[i]
        BY <1>1, Both
      <4>2. QED BY Zenon, <1>2, <3>5, <3>6, <4>1
    <3>8. QED BY Zenon, <3>2, <3>3, <3>4, <3>7
  <2>3. QED BY <2>1, <2>2
<1>6. CASE parser.at # "headers"
  <2>1. PICK m \in Nat : m = n + more /\ m = Len(b)
    BY <1>5
  <2>2. PICK starving : ~starving /\ starving = parser'.starving
    BY Zenon, <1>5
  <2>3. Room(parser'.at, m, starving)
    <3>1. parser.at \in {"preamble", "body"} => m <= Retain + MaxPadding + MaxChunk
      BY <1>3, <1>5, <2>1, Bounds
    <3>2. QED BY Zenon, <1>3, <1>5, <2>2, <3>1 DEF Room
  <2>4. parser'.at # "headers"
    BY <1>5, <1>6
  <2>5. QED BY Zenon, <1>4, <1>5, <2>1, <2>2, <2>3, <2>4, OutsideHeaders
<1>7. CASE parser.at = "headers"
  <2>1. PICK m \in Nat : m = n + more /\ m = Len(b) /\ DOMAIN b = 1..m
    BY <1>5
  <2>2. ASSUME NEW i \in 1..m, b[i] = "n"  PROVE m - i <= Held
    <3>1. i \notin 1..n
      BY <1>3, <1>5, <1>7, <2>2
    <3>2. QED BY <1>5, <2>1, <3>1, Bounds
  <2>3. m <= MaxLine + Held
    BY <1>3, <1>5, <1>7, <2>1, Bounds
  <2>4. "headers" \notin {"preamble", "body"} /\ "headers" # "end"
    OBVIOUS
  <2>5. \A i \in DOMAIN b : b[i] = "n" => Len(b) - i <= Held
    BY Zenon, <2>1, <2>2
  <2>6. parser'.at = "headers" /\ ~parser'.starving /\ (parser'.eof /\ consumer' # "gone" => wire' = <<>>)
    BY Zenon, <1>5, <1>7
  <2>7. Len(b) <= MaxLine + Held
    BY Zenon, <2>1, <2>3
  <2>8. QED BY Zenon, <1>4, <2>4, <2>5, <2>6, <2>7 DEF BufferInv
<1>8. QED BY <1>6, <1>7

LEMMA SkipSmall ==
  ASSUME PartTypesOK, BufferInv, SkipPreamble
  PROVE  BufferInv'
<1>1. /\ parser \in ParserState /\ buffer \in Seq(Byte) /\ parser.eof \in BOOLEAN
      /\ parser.at = "preamble" /\ ~parser.starving /\ consumer # "gone"
  <2>1. parser \in ParserState /\ buffer \in Seq(Byte)
    BY DEF PartTypesOK
  <2>2. parser.eof \in BOOLEAN
    BY <2>1 DEF ParserState
  <2>3. Stepping("preamble")
    BY Zenon DEF SkipPreamble
  <2>4. QED BY <2>1, <2>2, <2>3 DEF Stepping, Running
<1>2. PICK x : x = Suffix(buffer, parser.eof) /\ x.used \in Nat
               /\ (x.kind = "more" => Len(buffer) <= MaxPadding + 1)
  BY <1>1, SuffixIs DEF SuffixFits
<1>3. PICK found : found = IndexOf(buffer, FirstNeedle) /\ found \in Nat
                   /\ (found # 0 => (found + Len(FirstNeedle)) - 1 \in Nat)
  <2>1. IsNeedle(FirstNeedle)
    BY NeedleIs DEF Needles
  <2>2. IndexOf(buffer, FirstNeedle) \in Nat
    BY <1>1, <2>1, IndexIs DEF IsFirst
  <2>3. QED BY <2>2, FirstNeedleIs
<1>4. ASSUME NEW p, p \in ParserState, p.eof = parser.eof, NEW u, u \in Nat, Skips(p, u),
             p.at \in {"preamble", "headers", "done", "failed"},
             p.at = "headers" => ~p.starving,
             p.at = "preamble" /\ p.starving => Len(From(buffer, u + 1)) <= Retain + MaxPadding
      PROVE  BufferInv'
  <2>1. UNCHANGED <<wire, consumer>> /\ buffer' = From(buffer, u + 1) /\ parser' = p
    BY Zenon, <1>4 DEF Skips
  <2>2. parser'.eof /\ consumer' # "gone" => wire' = <<>>
    BY Zenon, <1>1, <1>4, <2>1, EofKept
  <2>3. PICK n \in Nat, m \in Nat : n = Len(buffer) /\ m = Len(From(buffer, u + 1)) /\ m <= n
    BY Zenon, <1>4, RestShorter
  <2>4. n <= Retain + MaxPadding + MaxChunk
    <3>1. "preamble" \in {"preamble", "body"}
      OBVIOUS
    <3>2. QED BY Zenon, <1>1, <2>3, <3>1 DEF BufferInv
  <2>5. m <= Held /\ m <= Retain + MaxPadding + MaxChunk
    BY <2>3, <2>4, Bounds
  <2>6. CASE p.at = "headers"
    <3>1. buffer' \in Seq(Byte) /\ Len(buffer') <= Held
      BY Zenon, <1>4, <2>1, <2>3, <2>5, BufferTyped
    <3>2. QED BY Zenon, <1>4, <2>1, <2>2, <2>6, <3>1, HeadersRoom
  <2>7. CASE p.at # "headers"
    <3>1. PICK starving : starving = p.starving
      OBVIOUS
    <3>2. p.at = "preamble" /\ starving => m <= Retain + MaxPadding + 0
      BY <1>4, <2>3, <3>1, Bounds
    <3>3. p.at \in {"preamble", "body"} => p.at = "preamble"
      BY <1>4
    <3>4. Room(p.at, m, starving)
      <4>1. p.at # "end"
        BY <1>4
      <4>2. QED BY Zenon, <2>5, <3>2, <3>3, <4>1 DEF Room
    <3>5. QED BY Zenon, <2>1, <2>2, <2>3, <2>7, <3>1, <3>4, OutsideHeaders
  <2>8. QED BY <2>6, <2>7
<1>5. CASE SkipMore(x)
  <2>1. PICK p : p = [parser EXCEPT !.starving = TRUE]
    OBVIOUS
  <2>2. /\ p \in ParserState /\ p.at = "preamble" /\ p.eof = parser.eof /\ p.at # "headers"
        /\ p.at \in {"preamble", "headers", "done", "failed"}
    BY <1>1, <2>1 DEF ParserState
  <2>3. Skips(p, x.used) /\ x.kind = "more"
    BY Zenon, <1>5, <2>1 DEF SkipMore
  <2>4. PICK n \in Nat, m \in Nat : n = Len(buffer) /\ m = Len(From(buffer, x.used + 1)) /\ m <= n /\ n <= MaxPadding + 1
    BY Zenon, <1>2, <2>3, RestShorter
  <2>5. m <= Retain + MaxPadding
    BY <2>4, Bounds
  <2>6. QED BY Zenon, <1>2, <1>4, <2>2, <2>3, <2>4, <2>5
<1>6. CASE SkipClose(x)
  <2>1. PICK p : p = [parser EXCEPT !.at = "done"]
    OBVIOUS
  <2>2. /\ p \in ParserState /\ p.eof = parser.eof /\ p.at # "headers" /\ p.at # "preamble"
        /\ p.at \in {"preamble", "headers", "done", "failed"}
    BY <1>1, <2>1 DEF ParserState
  <2>3. Skips(p, x.used)
    BY Zenon, <1>6, <2>1 DEF SkipClose
  <2>4. QED BY Zenon, <1>2, <1>4, <2>2, <2>3
<1>7. CASE SkipNext(x)
  <2>1. PICK p : p = [parser EXCEPT !.at = "headers", !.matched = FALSE]
    OBVIOUS
  <2>2. /\ p \in ParserState /\ p.eof = parser.eof /\ ~p.starving /\ p.at # "preamble"
        /\ p.at \in {"preamble", "headers", "done", "failed"}
    BY <1>1, <2>1 DEF ParserState
  <2>3. Skips(p, x.used)
    BY Zenon, <1>7, <2>1 DEF SkipNext
  <2>4. QED BY Zenon, <1>2, <1>4, <2>2, <2>3
<1>8. CASE SkipFalse(x)
  <2>1. PICK p : p = [parser EXCEPT !.matched = FALSE]
    OBVIOUS
  <2>2. /\ p \in ParserState /\ p.eof = parser.eof /\ ~p.starving
        /\ p.at \in {"preamble", "headers", "done", "failed"}
    BY <1>1, <2>1 DEF ParserState
  <2>3. Skips(p, x.used)
    BY Zenon, <1>8, <2>1 DEF SkipFalse
  <2>4. QED BY Zenon, <1>2, <1>4, <2>2, <2>3
<1>9. CASE SkipFails
  <2>1. PICK u \in Nat : Skips(Fail(parser), u)
    BY Zenon, <1>9 DEF SkipFails
  <2>2. /\ Fail(parser) \in ParserState /\ Fail(parser).eof = parser.eof
        /\ Fail(parser).at # "headers" /\ Fail(parser).at # "preamble"
        /\ Fail(parser).at \in {"preamble", "headers", "done", "failed"}
    BY <1>1 DEF ParserState, Fail
  <2>3. QED BY Zenon, <1>4, <2>1, <2>2
<1>10. CASE SkipFinds(found)
  <2>1. PICK p : p = [parser EXCEPT !.matched = TRUE]
    OBVIOUS
  <2>2. /\ p \in ParserState /\ p.eof = parser.eof /\ ~p.starving
        /\ p.at \in {"preamble", "headers", "done", "failed"}
    BY <1>1, <2>1 DEF ParserState
  <2>3. Skips(p, (found + Len(FirstNeedle)) - 1) /\ (found + Len(FirstNeedle)) - 1 \in Nat
    BY Zenon, <1>3, <1>10, <2>1 DEF SkipFinds
  <2>4. QED BY Zenon, <1>4, <2>2, <2>3
<1>11. CASE SkipPasses(found)
  <2>1. PICK p : p = IF parser.eof THEN [parser EXCEPT !.at = "done"] ELSE [parser EXCEPT !.starving = TRUE]
    OBVIOUS
  <2>2. /\ p \in ParserState /\ p.eof = parser.eof /\ p.at # "headers"
        /\ p.at \in {"preamble", "headers", "done", "failed"}
    BY <1>1, <2>1 DEF ParserState
  <2>3. PICK u \in Nat : u = Emptied /\ u <= Len(buffer) /\ Len(buffer) - u <= Retain
    BY Zenon, EmptiedIs
  <2>4. Skips(p, u)
    BY Zenon, <1>11, <2>1, <2>3 DEF SkipPasses
  <2>5. PICK m \in Nat : m = Len(From(buffer, u + 1)) /\ m = Len(buffer) - u
    BY Zenon, <2>3, RestShorter
  <2>6. m <= Retain
    BY Zenon, <2>3, <2>5
  <2>7. m <= Retain + MaxPadding
    BY <2>6, Bounds
  <2>8. QED BY Zenon, <1>4, <2>2, <2>4, <2>5, <2>7
<1>12. QED BY Zenon, <1>2, <1>3, <1>5, <1>6, <1>7, <1>8, <1>9, <1>10, <1>11, SkipCases

\* A line that was read leaves less than is held of a chunk.
LEMMA LineLeft ==
  ASSUME PartTypesOK, BufferInv, parser.at = "headers", HeaderRead
  PROVE  buffer' \in Seq(Byte) /\ Len(buffer') <= Held
<1>1. buffer \in Seq(Byte)
  BY DEF PartTypesOK
<1>2. PICK n \in Nat, l \in Nat : n = Len(buffer) /\ l = Len(Line(buffer)) /\ l <= n
                                  /\ (l < n => buffer[l + 1] = "n") /\ DOMAIN buffer = 1..n
  <2>1. Len(buffer) \in Nat /\ DOMAIN buffer = 1..Len(buffer)
    BY <1>1
  <2>2. IsLine(Line(buffer), buffer)
    BY <1>1, LineIs
  <2>3. Len(Line(buffer)) \in Nat
    BY <2>2 DEF IsLine
  <2>4. QED BY Zenon, <2>1, <2>2, <2>3 DEF IsLine
<1>3. PICK u \in Nat : u = l + 1 /\ u + 1 = l + 2
  OBVIOUS
<1>4. buffer' = From(buffer, u + 1)
  BY Zenon, <1>2, <1>3 DEF HeaderRead
<1>5. buffer' \in Seq(Byte) /\ IsRest(buffer', buffer, u + 1)
  <2>1. u + 1 \in Nat \ {0}
    OBVIOUS
  <2>2. IsRest(From(buffer, u + 1), buffer, u + 1)
    BY <1>1, <2>1, FromIs
  <2>3. QED BY Zenon, <1>4, <2>2 DEF IsRest
<1>6. PICK m : m = Len(buffer') /\ m = IF u + 1 <= n + 1 THEN (n + 1) - (u + 1) ELSE 0
  BY Zenon, <1>2, <1>5 DEF IsRest
<1>7. m <= Held
  <2>1. CASE l < n
    <3>1. l + 1 \in 1..n
      BY <1>2, <2>1
    <3>2. n - (l + 1) <= Held
      BY Zenon, <1>2, <2>1, <3>1 DEF BufferInv
    <3>3. m = n - (l + 1)
      BY <1>2, <1>3, <1>6, <2>1
    <3>4. QED BY Zenon, <3>2, <3>3
  <2>2. CASE ~(l < n)
    <3>1. m = 0
      BY <1>2, <1>3, <1>6, <2>2
    <3>2. QED BY <3>1, Bounds
  <2>3. QED BY <2>1, <2>2
<1>8. QED BY Zenon, <1>5, <1>6, <1>7

LEMMA HeaderSmall ==
  ASSUME PartTypesOK, BufferInv, ReadHeader
  PROVE  BufferInv'
<1>1. /\ parser \in ParserState /\ buffer \in Seq(Byte)
      /\ parser.at = "headers" /\ ~parser.starving /\ consumer # "gone" /\ wire' = wire
  <2>1. parser \in ParserState /\ buffer \in Seq(Byte)
    BY DEF PartTypesOK
  <2>2. Stepping("headers") /\ wire' = wire
    BY Zenon DEF ReadHeader
  <2>3. QED BY <2>1, <2>2 DEF Stepping, Running
<1>2. ASSUME parser'.at = "failed"  PROVE BufferInv'
  <2>1. "failed" \notin {"preamble", "body"} /\ "failed" # "end" /\ "failed" # "headers"
    OBVIOUS
  <2>2. parser'.eof = parser.eof => BufferInv'
    BY Zenon, <1>1, <1>2, <2>1, EofKept DEF BufferInv
  <2>3. parser'.eof = parser.eof
    <3>1. CASE HeaderWaits
      <4>1. parser' = [parser EXCEPT !.starving = TRUE]
        BY Zenon, <3>1 DEF HeaderWaits
      <4>2. QED BY <1>1, <4>1 DEF ParserState
    <3>2. CASE HeaderFails
      <4>1. parser' = Fail(parser)
        BY Zenon, <3>2 DEF HeaderFails
      <4>2. QED BY <1>1, <4>1 DEF ParserState, Fail
    <3>3. CASE HeaderOver
      <4>1. PICK fields \in Nat, files \in Nat : parser' = Fail(Opened(fields, files))
        BY Zenon, <3>3 DEF HeaderOver
      <4>2. QED BY <1>1, <4>1 DEF ParserState, Fail, Opened
    <3>4. CASE HeaderGoesOn(Chomp(Line(buffer)))
      <4>1. PICK used, kind : parser' = [parser EXCEPT !.used = used, !.kind = kind]
        BY Zenon, <3>4 DEF HeaderGoesOn
      <4>2. QED BY <1>1, <4>1 DEF ParserState
    <3>5. CASE HeaderOpens(Chomp(Line(buffer)))
      <4>1. PICK fields \in Nat, files \in Nat : parser' = Opened(fields, files)
        BY Zenon, <3>5 DEF HeaderOpens
      <4>2. QED BY <1>1, <4>1 DEF ParserState, Opened
    <3>6. QED BY Zenon, <3>1, <3>2, <3>3, <3>4, <3>5, HeaderCases
  <2>4. QED BY <2>2, <2>3
<1>3. CASE HeaderWaits
  <2>1. parser' = [parser EXCEPT !.starving = TRUE] /\ buffer' = buffer /\ ~HasNewline(buffer) /\ Len(buffer) <= MaxLine
    BY Zenon, <1>3 DEF HeaderWaits
  <2>2. parser'.at = "headers" /\ parser'.eof = parser.eof
    BY <1>1, <2>1 DEF ParserState
  <2>3. parser'.eof /\ consumer' # "gone" => wire' = <<>>
    BY Zenon, <1>1, <2>2, EofKept
  <2>4. PICK n \in Nat : n = Len(buffer) /\ DOMAIN buffer = 1..n
    BY <1>1
  <2>5. n <= MaxLine
    BY Zenon, <2>1, <2>4
  <2>6. n <= MaxLine + Held
    BY <2>5, Bounds
  <2>7. \A i \in DOMAIN buffer : buffer[i] # "n"
    BY Zenon, <2>1, <2>4 DEF HasNewline
  <2>8. "headers" \notin {"preamble", "body"} /\ "headers" # "end"
    OBVIOUS
  <2>9. QED BY Zenon, <2>1, <2>2, <2>3, <2>4, <2>5, <2>6, <2>7, <2>8 DEF BufferInv
<1>4. CASE HeaderFails
  <2>1. parser' = Fail(parser)
    BY Zenon, <1>4 DEF HeaderFails
  <2>2. QED BY <1>1, <1>2, <2>1 DEF ParserState, Fail
<1>5. CASE HeaderOver
  <2>1. PICK fields \in Nat, files \in Nat : parser' = Fail(Opened(fields, files))
    BY Zenon, <1>5 DEF HeaderOver
  <2>2. QED BY <1>1, <1>2, <2>1 DEF ParserState, Fail, Opened
<1>6. CASE HeaderGoesOn(Chomp(Line(buffer)))
  <2>1. PICK used, kind : parser' = [parser EXCEPT !.used = used, !.kind = kind]
    BY Zenon, <1>6 DEF HeaderGoesOn
  <2>2. parser'.at = "headers" /\ ~parser'.starving /\ parser'.eof = parser.eof
    BY <1>1, <2>1 DEF ParserState
  <2>3. buffer' \in Seq(Byte) /\ Len(buffer') <= Held
    BY Zenon, <1>1, <1>6, LineLeft DEF HeaderGoesOn
  <2>4. parser'.eof /\ consumer' # "gone" => wire' = <<>>
    BY Zenon, <1>1, <2>2, EofKept
  <2>5. QED BY Zenon, <2>2, <2>3, <2>4, HeadersRoom
<1>7. CASE HeaderOpens(Chomp(Line(buffer)))
  <2>1. PICK fields \in Nat, files \in Nat : parser' = Opened(fields, files)
    BY Zenon, <1>7 DEF HeaderOpens
  <2>2. parser'.at = "body" /\ ~parser'.starving /\ parser'.eof = parser.eof
    BY <1>1, <2>1 DEF ParserState, Opened
  <2>3. buffer' \in Seq(Byte) /\ Len(buffer') <= Held
    BY Zenon, <1>1, <1>7, LineLeft DEF HeaderOpens
  <2>4. parser'.eof /\ consumer' # "gone" => wire' = <<>>
    BY Zenon, <1>1, <2>2, EofKept
  <2>5. PICK n : n = Len(buffer')
    OBVIOUS
  <2>6. PICK starving : starving = parser'.starving
    OBVIOUS
  <2>7. Room(parser'.at, n, starving)
    <3>1. "body" # "end" /\ "body" # "headers"
      OBVIOUS
    <3>2. n <= Retain + MaxPadding + MaxChunk
      BY Zenon, <2>3, <2>5, Bounds
    <3>3. QED BY Zenon, <2>2, <2>6, <3>1, <3>2 DEF Room
  <2>8. parser'.at # "headers"
    BY <2>2
  <2>9. QED BY Zenon, <2>4, <2>5, <2>6, <2>7, <2>8, OutsideHeaders
<1>8. QED BY Zenon, <1>3, <1>4, <1>5, <1>6, <1>7, HeaderCases

\* The iterator goes on to the next headers with what is in the buffer.
LEMMA OnSmall ==
  ASSUME PartTypesOK, BufferInv, parser.at \in {"body", "end"}, parser' = NextHeaders(parser),
         buffer' = buffer, wire' = wire, consumer # "gone"
  PROVE  BufferInv'
<1>1. parser \in ParserState /\ buffer \in Seq(Byte)
  BY DEF PartTypesOK
<1>2. parser'.eof = parser.eof
  BY <1>1, NextHeadersAre
<1>3. parser'.eof /\ consumer' # "gone" => wire' = <<>>
  BY Zenon, <1>2, EofKept
<1>4. CASE parser.closed
  <2>1. parser'.at = "done"
    BY <1>1, <1>4, NextHeadersAre
  <2>2. "done" \notin {"preamble", "body"} /\ "done" # "end" /\ "done" # "headers"
    OBVIOUS
  <2>3. QED BY Zenon, <1>3, <2>1, <2>2 DEF BufferInv
<1>5. CASE ~parser.closed
  <2>1. parser'.at = "headers" /\ ~parser'.starving
    BY <1>1, <1>5, NextHeadersAre
  <2>2. PICK n \in Nat : n = Len(buffer)
    BY <1>1
  <2>3. n <= Held
    <3>1. CASE parser.at = "body"
      <4>1. parser.at \in {"preamble", "body"}
        BY <3>1
      <4>2. n <= Retain + MaxPadding + (IF parser.starving THEN 0 ELSE MaxChunk)
        BY Zenon, <2>2, <4>1 DEF BufferInv
      <4>3. QED BY <4>2, Bounds
    <3>2. CASE parser.at = "end"
      BY Zenon, <2>2, <3>2 DEF BufferInv
    <3>3. QED BY <3>1, <3>2
  <2>4. buffer' \in Seq(Byte) /\ Len(buffer') <= Held
    BY Zenon, <1>1, <2>2, <2>3
  <2>5. QED BY Zenon, <1>3, <2>1, <2>4, HeadersRoom
<1>6. QED BY <1>4, <1>5

LEMMA OthersSmall ==
  ASSUME PartTypesOK, BufferInv, EndPart \/ ReadOn \/ Break \/ Advance \/ Abandon
  PROVE  BufferInv'
<1>1. parser \in ParserState
  BY DEF PartTypesOK
<1>2. /\ "reading" # "gone" /\ "draining" # "gone" /\ "holding" # "gone" /\ "end" \in {"body", "end"}
  OBVIOUS
<1>3. CASE EndPart
  <2>1. Stepping("end") /\ UNCHANGED <<wire, buffer>>
    BY Zenon, <1>3 DEF EndPart
  <2>2. parser.at \in {"body", "end"} /\ consumer # "gone"
    BY <2>1 DEF Stepping, Running
  <2>3. CASE consumer = "reading"
    <3>1. parser' = [parser EXCEPT !.returned = TRUE]
      BY Zenon, <1>3, <2>3 DEF EndPart
    <3>2. parser'.at = parser.at /\ parser'.starving = parser.starving /\ parser'.eof = parser.eof
      BY <1>1, <3>1 DEF ParserState
    <3>3. QED BY Zenon, <2>1, <2>2, <3>2, EofKept, SmallSame
  <2>4. CASE consumer # "reading"
    <3>1. parser' = NextHeaders(parser)
      BY Zenon, <1>3, <2>4 DEF EndPart
    <3>2. QED BY Zenon, <2>1, <2>2, <3>1, OnSmall
  <2>5. QED BY <2>3, <2>4
<1>4. CASE ReadOn
  <2>1. consumer = "holding" /\ UNCHANGED <<wire, buffer, parser>>
    BY Zenon, <1>4 DEF ReadOn, Holding
  <2>2. QED BY Zenon, <1>2, <2>1, EofKept, SmallSame
<1>5. CASE Break
  <2>1. consumer = "holding" /\ UNCHANGED <<wire, buffer>> /\ parser' = [parser EXCEPT !.returned = TRUE]
    BY Zenon, <1>5 DEF Break, Holding
  <2>2. parser'.at = parser.at /\ parser'.starving = parser.starving /\ parser'.eof = parser.eof
    BY <1>1, <2>1 DEF ParserState
  <2>3. QED BY Zenon, <1>2, <2>1, <2>2, EofKept, SmallSame
<1>6. CASE Advance
  <2>1. consumer = "holding" /\ UNCHANGED <<wire, buffer>>
    BY Zenon, <1>6 DEF Advance, Holding
  <2>2. CASE parser.at \in {"body", "end"} /\ parser.returned
    <3>1. parser' = NextHeaders(parser)
      BY Zenon, <1>6, <2>2 DEF Advance
    <3>2. QED BY Zenon, <1>2, <2>1, <2>2, <3>1, OnSmall
  <2>3. CASE ~(parser.at \in {"body", "end"} /\ parser.returned)
    <3>1. parser' = parser
      BY Zenon, <1>6, <2>3 DEF Advance
    <3>2. QED BY Zenon, <1>2, <2>1, <3>1, EofKept, SmallSame
  <2>4. QED BY <2>2, <2>3
<1>7. CASE Abandon
  <2>1. consumer' = "gone" /\ UNCHANGED <<buffer, parser>>
    BY Zenon, <1>7 DEF Abandon
  <2>2. QED BY Zenon, <2>1, SmallSame
<1>8. QED BY Zenon, <1>3, <1>4, <1>5, <1>6, <1>7

\* After a part that failed, headers are read from what is in the buffer.
LEMMA GoOnSmall ==
  ASSUME PartTypesOK, BufferInv, ThrownInv, GoOn
  PROVE  BufferInv'
<1>1. /\ parser \in ParserState /\ buffer \in Seq(Byte) /\ Len(buffer) <= Held /\ consumer # "gone"
  <2>1. parser \in ParserState /\ buffer \in Seq(Byte) /\ Thrown /\ Len(buffer) <= Held
    BY Zenon DEF PartTypesOK, GoOn, ThrownInv
  <2>2. QED BY <2>1 DEF Thrown
<1>2. PICK p : p = [parser EXCEPT !.matched = FALSE, !.head = <<>>]
  OBVIOUS
<1>3. parser' = NextHeaders(p) /\ wire' = (IF TooMuch THEN <<>> ELSE wire) /\ buffer' = buffer
  BY Zenon, <1>2 DEF GoOn
<1>4. p \in ParserState /\ p.eof = parser.eof /\ p.closed = parser.closed
  <2>1. <<>> \in Seq(Byte)
    OBVIOUS
  <2>2. QED BY <1>1, <1>2, <2>1 DEF ParserState
<1>5. parser'.eof /\ consumer' # "gone" => wire' = <<>>
  <2>1. parser'.eof = parser.eof
    BY <1>3, <1>4, NextHeadersAre
  <2>2. QED BY Zenon, <1>1, <1>3, <2>1 DEF BufferInv
<1>6. CASE parser.closed
  <2>1. parser'.at = "done"
    BY <1>3, <1>4, <1>6, NextHeadersAre
  <2>2. "done" \notin {"preamble", "body"} /\ "done" # "end" /\ "done" # "headers"
    OBVIOUS
  <2>3. QED BY Zenon, <1>5, <2>1, <2>2 DEF BufferInv
<1>7. CASE ~parser.closed
  <2>1. parser'.at = "headers" /\ ~parser'.starving
    BY <1>3, <1>4, <1>7, NextHeadersAre
  <2>2. QED BY Zenon, <1>1, <1>3, <1>5, <2>1, HeadersRoom
<1>8. QED BY <1>6, <1>7

LEMMA MultipartSmall ==
  ASSUME PartTypesOK, BufferInv, ThrownInv, [MultipartNext]_multipartVars
  PROVE  BufferInv'
<1>1. CASE UNCHANGED multipartVars
  <2>1. UNCHANGED <<body, wire, buffer, parser, consumer, parts>>
    BY <1>1 DEF multipartVars
  <2>2. parser'.eof /\ consumer' # "gone" => wire' = <<>>
    BY Zenon, <2>1 DEF BufferInv
  <2>3. QED BY Zenon, <2>1, <2>2, SmallSame
<1>2. CASE MultipartNext
  BY Zenon, <1>2, FillSmall, SkipSmall, HeaderSmall, ScanSmall, OthersSmall, GoOnSmall DEF MultipartNext
<1>3. QED BY Zenon, <1>1, <1>2

\* Only scanBody() makes a part fail under its reader.
LEMMA ThrownOnly ==
  ASSUME PartTypesOK, PartAtHand, MultipartNext, Thrown'
  PROVE  ScanBody
<1>1. parser \in ParserState /\ parser'.at = "failed" /\ consumer' = "reading"
  BY DEF PartTypesOK, Thrown
<1>2. /\ "holding" # "reading" /\ "draining" # "reading" /\ "skipping" # "reading" /\ "gone" # "reading"
  OBVIOUS
<1>3. ~Fill
  <2>1. ASSUME Fill  PROVE parser.at # "failed" /\ parser'.at = parser.at
    <3>1. parser.at \notin {"done", "failed"}
          /\ \E eof : parser' = [parser EXCEPT !.starving = FALSE, !.eof = eof]
      <4>1. \/ parser' = [parser EXCEPT !.starving = FALSE, !.eof = TRUE]
            \/ parser' = [parser EXCEPT !.starving = FALSE]
        BY Zenon, <2>1 DEF Fill
      <4>2. [parser EXCEPT !.starving = FALSE] = [parser EXCEPT !.starving = FALSE, !.eof = parser.eof]
        BY <1>1 DEF ParserState
      <4>3. parser.at \notin {"done", "failed"}
        BY Zenon, <2>1 DEF Fill, Running
      <4>4. QED BY Zenon, <4>1, <4>2, <4>3
    <3>2. QED BY <1>1, <3>1 DEF ParserState
  <2>2. QED BY <1>1, <2>1
<1>4. ~SkipPreamble
  <2>1. SkipPreamble => parser.at = "preamble" /\ consumer' = consumer
    BY Zenon DEF SkipPreamble, Stepping
  <2>2. parser.at = "preamble" => consumer # "reading"
    BY DEF PartAtHand
  <2>3. QED BY Zenon, <1>1, <2>1, <2>2
<1>5. ~ReadHeader
  <2>1. ReadHeader => parser.at = "headers"
    BY Zenon DEF ReadHeader, Stepping
  <2>2. parser.at = "headers" => consumer # "reading"
    BY DEF PartAtHand
  <2>3. HeaderOver => consumer' # "reading"
    BY <1>2 DEF HeaderOver
  <2>4. QED BY Zenon, <1>1, <1>2, <2>1, <2>2, <2>3, HeaderCases DEF HeaderWaits, HeaderFails, HeaderGoesOn, HeaderOpens
<1>6. ~EndPart
  BY Zenon, <1>1, <1>2 DEF EndPart
<1>7. ~ReadOn
  <2>1. ReadOn => parser.at \in {"body", "end"} /\ parser' = parser
    BY Zenon DEF ReadOn
  <2>2. QED BY <1>1, <2>1
<1>8. ~Break /\ ~Advance /\ ~GoOn /\ ~Abandon
  BY Zenon, <1>1, <1>2 DEF Break, Holding, Advance, GoOn, Abandon
<1>9. QED BY Zenon, <1>3, <1>4, <1>5, <1>6, <1>7, <1>8 DEF MultipartNext

LEMMA ThrownKept ==
  ASSUME PartTypesOK, PartAtHand, BufferInv, ThrownInv, [MultipartNext]_multipartVars
  PROVE  ThrownInv'
<1>1. CASE UNCHANGED multipartVars
  <2>1. UNCHANGED <<body, wire, buffer, parser, consumer, parts>>
    BY <1>1 DEF multipartVars
  <2>2. QED BY Zenon, <2>1 DEF ThrownInv, Thrown
<1>2. CASE MultipartNext
  <2>1. SUFFICES ASSUME Thrown'  PROVE parts' # <<>> /\ Len(buffer') <= Held
    BY Zenon DEF ThrownInv
  <2>2. ScanBody
    BY Zenon, <1>2, <2>1, ThrownOnly
  <2>3. parser.at = "body" /\ ~parser.starving /\ parts \in Seq(PartState) /\ consumer' = "reading"
    BY Zenon, <2>1, <2>2 DEF ScanBody, Stepping, PartTypesOK, Thrown
  <2>4. Len(buffer) <= Held
    <3>1. parser.at \in {"preamble", "body"}
      BY <2>3
    <3>2. Len(buffer) <= Retain + MaxPadding + (IF parser.starving THEN 0 ELSE MaxChunk)
      BY Zenon, <3>1 DEF BufferInv
    <3>3. Len(buffer) <= Retain + MaxPadding + MaxChunk
      BY Zenon, <2>3, <3>2
    <3>4. QED BY Zenon, <3>3, Bounds
  <2>5. PICK chunk, p, u : Scans(chunk, p, u) /\ u \in Nat /\ chunk \in Seq(Byte)
    <3>1. <<>> \in Seq(Byte)
      OBVIOUS
    <3>2. QED BY Zenon, <2>2, <3>1, ScanSome
  <2>6. Len(buffer') <= Held
    <3>1. buffer' = From(buffer, u + 1)
      BY Zenon, <2>5 DEF Scans
    <3>2. PICK n \in Nat, m \in Nat : n = Len(buffer) /\ m = Len(From(buffer, u + 1)) /\ m <= n
      BY Zenon, <2>5, RestShorter
    <3>3. m <= Held
      BY <2>4, <3>2, Bounds
    <3>4. QED BY Zenon, <3>1, <3>2, <3>3
  <2>7. Emitted(chunk, p) \/ Refused(chunk, p)
    BY Zenon, <2>5, EmitIs DEF Scans
  <2>8. consumer = "reading"
    <3>1. "holding" # "reading"
      OBVIOUS
    <3>2. QED BY Zenon, <2>3, <2>7, <3>1 DEF Emitted, Refused
  <2>9. parts # <<>>
    <3>1. "reading" # "skipping" /\ parser.at \in {"body", "end"}
      BY <2>3
    <3>2. QED BY Zenon, <2>8, <3>1 DEF PartAtHand
  <2>10. CASE Refused(chunk, p)
    BY Zenon, <2>6, <2>9, <2>10 DEF Refused
  <2>11. CASE Emitted(chunk, p)
    <3>1. parts' = [parts EXCEPT ![Len(parts)].bytes = @ \o chunk]
      BY Zenon, <2>8, <2>11 DEF Emitted
    <3>2. SameButLast(parts, parts')
      BY Zenon, <2>3, <2>5, <2>9, <3>1, PartGrows
    <3>3. Len(parts') = Len(parts) /\ Len(parts) \in Nat \ {0}
      BY Zenon, <3>2 DEF SameButLast
    <3>4. parts' # <<>>
      BY <3>3
    <3>5. QED BY <2>6, <3>4
  <2>12. QED BY <2>7, <2>10, <2>11
<1>3. QED BY Zenon, <1>1, <1>2

LEMMA SmallIs ==
  ASSUME PartTypesOK, BufferInv
  PROVE  BufferSmall
<1>1. PICK n \in Nat : n = Len(buffer)
  BY DEF PartTypesOK
<1>2. CASE parser.at \in {"preamble", "body"}
  <2>1. n <= Retain + MaxPadding + (IF parser.starving THEN 0 ELSE MaxChunk)
    BY Zenon, <1>1, <1>2 DEF BufferInv
  <2>2. n <= Held
    BY <2>1, Bounds
  <2>3. QED BY <1>1, <1>2, <2>2 DEF BufferSmall
<1>3. CASE parser.at \notin {"preamble", "body"}
  <2>1. parser.at = "end" => n <= Held
    BY Zenon, <1>1 DEF BufferInv
  <2>2. parser.at = "headers" => n <= MaxLine + Held
    BY Zenon, <1>1 DEF BufferInv
  <2>3. QED BY <1>1, <1>3, <2>1, <2>2 DEF BufferSmall
<1>4. QED BY <1>2, <1>3

-----------------------------------------------------------------------------
(* What is handed out and what was sent *)

AgreesWith(q, sent) ==
  /\ Len(q) <= Len(sent)
  /\ \A i \in DOMAIN q :
       /\ q[i].kind = sent[i].kind
       /\ IsPrefix(q[i].bytes, sent[i].bytes)
       /\ q[i].state = "whole" => q[i].bytes = sent[i].bytes

LEMMA AgreeIs ==
  ASSUME NEW sent
  PROVE  Agree(sent) <=> AgreesWith(parts, sent)
  BY Zenon DEF Agree, AgreesWith

LEMMA PrefixOfSlice ==
  ASSUME NEW c \in Seq(Byte), NEW n \in Nat, n <= Len(c), NEW m \in Nat, m <= n
  PROVE  IsPrefix(SubSeq(c, 1, m), SubSeq(c, 1, n))
<1>1. PICK s \in Seq(Byte), t \in Seq(Byte) : s = SubSeq(c, 1, m) /\ t = SubSeq(c, 1, n)
  <2>1. SubSeq(c, 1, m) \in Seq(Byte) /\ SubSeq(c, 1, n) \in Seq(Byte)
    OBVIOUS
  <2>2. QED BY Zenon, <2>1
<1>2. IsSlice(s, c, 1, m) /\ IsSlice(t, c, 1, n)
  BY <1>1, SliceHas
<1>3. Len(s) = m /\ Len(t) = n /\ (\A k \in 1..m : s[k] = c[k]) /\ (\A k \in 1..n : t[k] = c[k])
  BY <1>2 DEF IsSlice
<1>4. SubSeq(s, 1, m) = SubSeq(t, 1, m)
  <2>1. PICK u, v : u = SubSeq(s, 1, m) /\ v = SubSeq(t, 1, m)
    OBVIOUS
  <2>2. IsSlice(u, s, 1, m) /\ IsSlice(v, t, 1, m)
    BY <1>3, <2>1, SliceHas
  <2>3. u \in Seq(Byte) /\ v \in Seq(Byte) /\ Len(u) = m /\ Len(v) = m
        /\ (\A k \in 1..m : u[k] = s[k]) /\ (\A k \in 1..m : v[k] = t[k])
    BY <2>2 DEF IsSlice
  <2>4. \A k \in 1..m : u[k] = v[k]
    BY <1>3, <2>3
  <2>5. u = v
    BY <2>3, <2>4, SameSeq
  <2>6. QED BY Zenon, <2>1, <2>5
<1>5. QED BY Zenon, <1>1, <1>3, <1>4 DEF IsPrefix

\* What agrees with the beginning agrees with the whole.
LEMMA AgreeLonger ==
  ASSUME NEW q \in Seq(PartState), NEW a \in Seq(SentPart), NEW b \in Seq(SentPart),
         AgreesWith(q, a), Begins(a, b)
  PROVE  AgreesWith(q, b)
<1>1. PICK n \in Nat, m \in Nat : n = Len(q) /\ m = Len(a) /\ DOMAIN q = 1..n
  <2>1. Len(q) \in Nat /\ Len(a) \in Nat /\ DOMAIN q = 1..Len(q)
    OBVIOUS
  <2>2. QED BY Zenon, <2>1
<1>2. PICK l \in Nat : l = Len(b)
  OBVIOUS
<1>3. n <= m /\ m <= l
  BY Zenon, <1>1, <1>2 DEF AgreesWith, Begins
<1>4. n <= l /\ \A i \in 1..n : i \in 1..m
  BY <1>3
<1>5. \A i \in DOMAIN q : a[i] = b[i]
  BY Zenon, <1>1, <1>4 DEF Begins
<1>6. QED BY Zenon, <1>1, <1>2, <1>4, <1>5 DEF AgreesWith

LEMMA LastAgrees ==
  ASSUME NEW q \in Seq(PartState), NEW r, NEW sent \in Seq(SentPart), AgreesWith(q, sent),
         Len(q) = Len(sent), SameButLast(q, r),
         IsPrefix(r[Len(q)].bytes, sent[Len(q)].bytes),
         r[Len(q)].state = "whole" => r[Len(q)].bytes = sent[Len(q)].bytes
  PROVE  AgreesWith(r, sent) /\ Len(r) = Len(sent)
<1>1. PICK n \in Nat \ {0} : n = Len(q)
  BY Zenon DEF SameButLast
<1>2. DOMAIN q = 1..n /\ DOMAIN r = 1..n /\ n = Len(r) /\ n <= n /\ n = Len(sent)
  BY <1>1 DEF SameButLast
<1>3. ASSUME NEW i \in 1..n
      PROVE  /\ r[i].kind = sent[i].kind
             /\ IsPrefix(r[i].bytes, sent[i].bytes)
             /\ r[i].state = "whole" => r[i].bytes = sent[i].bytes
  <2>1. r[i].kind = q[i].kind /\ (i # n => r[i] = q[i])
    BY Zenon, <1>1 DEF SameButLast
  <2>2. q[i].kind = sent[i].kind /\ IsPrefix(q[i].bytes, sent[i].bytes)
        /\ (q[i].state = "whole" => q[i].bytes = sent[i].bytes)
    BY Zenon, <1>2 DEF AgreesWith
  <2>3. QED BY Zenon, <1>1, <2>1, <2>2
<1>4. QED BY Zenon, <1>2, <1>3 DEF AgreesWith

LEMMA OpenedAgrees ==
  ASSUME NEW q \in Seq(PartState), NEW r, NEW sent \in Seq(SentPart), AgreesWith(q, sent),
         Len(q) = Len(sent), NEW p \in SentPart, Behind(r, q, p.kind)
  PROVE  AgreesWith(r, Append(sent, p)) /\ Len(r) = Len(Append(sent, p))
<1>1. PICK n \in Nat : n = Len(q)
  OBVIOUS
<1>2. PICK more \in Seq(SentPart) : more = Append(sent, p)
  <2>1. Append(sent, p) \in Seq(SentPart)
    OBVIOUS
  <2>2. QED BY Zenon, <2>1
<1>3. Len(more) = n + 1 /\ more[n + 1] = p /\ \A i \in 1..n : more[i] = sent[i]
  BY <1>1, <1>2
<1>4. /\ Len(r) = n + 1 /\ r[n + 1].kind = p.kind /\ r[n + 1].bytes = <<>> /\ r[n + 1].state = "open"
      /\ \A i \in 1..n : r[i] = q[i]
  BY Zenon, <1>1 DEF Behind
<1>5. DOMAIN q = 1..n /\ DOMAIN r = 1..(n + 1)
  BY <1>1, <1>4 DEF Behind
<1>6. IsPrefix(<<>>, p.bytes)
  <2>1. PICK bytes \in Seq(Byte) : bytes = p.bytes
    BY DEF SentPart
  <2>2. Len(<<>>) = 0 /\ 0 <= Len(bytes) /\ SubSeq(<<>>, 1, 0) = SubSeq(bytes, 1, 0)
    BY <2>1
  <2>3. QED BY Zenon, <2>1, <2>2 DEF IsPrefix
<1>7. ASSUME NEW i \in 1..(n + 1)
      PROVE  /\ r[i].kind = more[i].kind
             /\ IsPrefix(r[i].bytes, more[i].bytes)
             /\ r[i].state = "whole" => r[i].bytes = more[i].bytes
  <2>1. CASE i = n + 1
    <3>1. "open" # "whole"
      OBVIOUS
    <3>2. QED BY Zenon, <1>3, <1>4, <1>6, <2>1, <3>1
  <2>2. CASE i # n + 1
    <3>1. i \in 1..n
      BY <2>2
    <3>2. r[i] = q[i] /\ more[i] = sent[i]
      BY Zenon, <1>3, <1>4, <3>1
    <3>3. q[i].kind = sent[i].kind /\ IsPrefix(q[i].bytes, sent[i].bytes)
          /\ (q[i].state = "whole" => q[i].bytes = sent[i].bytes)
      BY Zenon, <1>5, <3>1 DEF AgreesWith
    <3>4. QED BY Zenon, <3>2, <3>3
  <2>3. QED BY <2>1, <2>2
<1>8. Len(r) = Len(more) /\ Len(r) <= Len(more)
  BY <1>3, <1>4
<1>9. QED BY Zenon, <1>2, <1>5, <1>7, <1>8 DEF AgreesWith

-----------------------------------------------------------------------------
(* What is left of the body *)

\* A boundary that the buffer has is the first one of what is left.
LEMMA ScanFound ==
  ASSUME NEW b \in Seq(Byte), NEW w \in Seq(Byte), NEW needle \in Needles,
         NEW found \in Nat, found # 0, found = IndexOf(b, needle)
  PROVE  /\ Occurs(b \o w, found, needle) /\ found + Len(needle) <= Len(b) + 1
         /\ Clear(b \o w, found - 1, needle)
<1>1. IsNeedle(needle)
  BY NeedleIs
<1>2. Occurs(b, found, needle) /\ \A i \in 1..(found - 1) : ~Occurs(b, i, needle)
  BY <1>1, IndexIs DEF IsFirst
<1>3. found + Len(needle) <= Len(b) + 1
  BY Zenon, <1>2 DEF Occurs
<1>4. Occurs(b \o w, found, needle)
  <2>1. found \in Nat \ {0}
    OBVIOUS
  <2>2. QED BY <1>1, <1>2, <1>3, <2>1, OccursBoth
<1>5. ASSUME NEW i \in Nat \ {0}, IsDelimiter(b \o w, i, needle)  PROVE i > found - 1
  <2>1. SUFFICES ASSUME ~(i > found - 1)  PROVE FALSE
    OBVIOUS
  <2>2. PICK k \in Nat \ {0}, n \in Nat : k = Len(needle) /\ n = Len(b)
    BY <1>1 DEF IsNeedle
  <2>3. found + k <= n + 1
    BY Zenon, <1>3, <2>2
  <2>4. i \in 1..(found - 1) /\ i + k <= n + 1
    BY <2>1, <2>3
  <2>5. Occurs(b \o w, i, needle)
    BY Zenon, <1>5 DEF IsDelimiter
  <2>6. i + Len(needle) <= Len(b) + 1
    BY Zenon, <2>2, <2>4
  <2>7. Occurs(b, i, needle)
    BY <1>1, <2>5, <2>6, OccursBoth
  <2>8. QED BY Zenon, <1>2, <2>4, <2>7
<1>6. QED BY <1>3, <1>4, <1>5 DEF Clear

\* Of a buffer without a boundary the bytes are clear but for a tail.
LEMMA ScanNone ==
  ASSUME NEW b \in Seq(Byte), NEW w \in Seq(Byte), NEW needle \in Needles,
         IndexOf(b, needle) = 0, NEW n \in Nat, n = 0 \/ n + Len(needle) <= Len(b)
  PROVE  Clear(b \o w, n, needle)
<1>1. IsNeedle(needle)
  BY NeedleIs
<1>2. \A i \in Nat \ {0} : ~Occurs(b, i, needle)
  <2>1. IsFirst(0, b, needle)
    BY <1>1, IndexIs
  <2>2. QED BY <2>1 DEF IsFirst
<1>3. ASSUME NEW i \in Nat \ {0}, IsDelimiter(b \o w, i, needle)  PROVE i > n
  <2>1. SUFFICES ASSUME ~(i > n)  PROVE FALSE
    OBVIOUS
  <2>2. PICK k \in Nat \ {0}, l \in Nat : k = Len(needle) /\ l = Len(b)
    BY <1>1 DEF IsNeedle
  <2>3. n = 0 \/ n + k <= l
    BY Zenon, <2>2
  <2>4. i + k <= l + 1
    BY <2>1, <2>3
  <2>5. Occurs(b \o w, i, needle)
    BY Zenon, <1>3 DEF IsDelimiter
  <2>6. i + Len(needle) <= Len(b) + 1
    BY Zenon, <2>2, <2>4
  <2>7. Occurs(b, i, needle)
    BY <1>1, <2>5, <2>6, OccursBoth
  <2>8. QED BY Zenon, <1>2, <2>7
<1>4. QED BY <1>3 DEF Clear

\* A boundary that more data follows is none, and no other one begins in it.
LEMMA ClearOver ==
  ASSUME NEW s \in Seq(Byte), NEW needle \in Needles, NEW n \in Nat, Clear(s, n, needle),
         Occurs(s, n + 1, needle), Suffix(From(s, n + Len(needle) + 1), TRUE).kind = "false"
  PROVE  Clear(s, n + Len(needle), needle)
<1>1. PICK k \in Nat \ {0} : k = Len(needle)
  BY NeedleIs DEF IsNeedle
<1>2. ASSUME NEW i \in Nat \ {0}, IsDelimiter(s, i, needle)  PROVE i > n + k
  <2>1. SUFFICES ASSUME ~(i > n + k)  PROVE FALSE
    OBVIOUS
  <2>2. i > n
    BY <1>2 DEF Clear
  <2>3. Occurs(s, i, needle) /\ Suffix(From(s, i + k), TRUE).kind # "false"
    BY Zenon, <1>1, <1>2 DEF IsDelimiter
  <2>4. CASE i = n + 1
    <3>1. i + k = n + k + 1
      BY <2>4
    <3>2. QED BY Zenon, <1>1, <2>3, <3>1
  <2>5. CASE i # n + 1
    <3>1. n + 1 < i /\ n + 1 \in Nat \ {0}
      BY <2>2, <2>5
    <3>2. i >= (n + 1) + Len(needle)
      BY <2>3, <3>1, NoOverlap
    <3>3. i >= (n + 1) + k
      BY Zenon, <1>1, <3>2
    <3>4. QED BY <2>1, <3>3
  <2>6. QED BY <2>4, <2>5
<1>3. QED BY Zenon, <1>1, <1>2 DEF Clear

-----------------------------------------------------------------------------
(* Where the parser is in the body *)

LEMMA RestTyped ==
  ASSUME PartTypesOK
  PROVE  Rest \in Seq(Byte) /\ buffer \in Seq(Byte) /\ wire \in Seq(Byte) /\ body \in Seq(Byte)
<1>1. buffer \in Seq(Byte) /\ wire \in Seq(Byte) /\ body \in Seq(Byte)
  BY MultipartAssumption DEF PartTypesOK
<1>2. buffer \o wire \in Seq(Byte)
  BY <1>1
<1>3. QED BY <1>1, <1>2 DEF Rest

LEMMA RestAfter ==
  ASSUME PartTypesOK, NEW u \in Nat, u <= Len(buffer), buffer' = From(buffer, u + 1), wire' = wire
  PROVE  Rest' = From(Rest, u + 1) /\ u <= Len(Rest) /\ Rest' \in Seq(Byte)
<1>1. buffer \in Seq(Byte) /\ wire \in Seq(Byte) /\ Rest \in Seq(Byte)
  BY RestTyped
<1>2. u + 1 \in Nat \ {0} /\ u + 1 <= Len(buffer) + 1
  BY <1>1
<1>3. From(buffer \o wire, u + 1) = From(buffer, u + 1) \o wire
  BY <1>1, <1>2, FromBoth
<1>4. Rest' = From(Rest, u + 1)
  BY Zenon, <1>3 DEF Rest
<1>5. u <= Len(Rest)
  <2>1. Len(buffer \o wire) = Len(buffer) + Len(wire) /\ Len(wire) \in Nat /\ Len(buffer) \in Nat
    BY <1>1
  <2>2. PICK n \in Nat, m \in Nat : n = Len(buffer) /\ m = Len(wire)
    BY Zenon, <2>1
  <2>3. u <= n + m
    BY <2>2
  <2>4. QED BY Zenon, <2>1, <2>2, <2>3 DEF Rest
<1>6. Rest' \in Seq(Byte)
  BY <1>1, <1>2, <1>4, FromIs DEF IsRest
<1>7. QED BY <1>4, <1>5, <1>6

LEMMA PlacedIn ==
  ASSUME NEW R, R = Reading(body), body' = body,
         \/ /\ parser'.at = "preamble" /\ parts' = <<>> /\ parser'.kind = "none" /\ parser'.head = <<>>
            /\ InPreamble(R[0])'
         \/ parser'.at = "headers" /\ \E k \in 0..Len(body) : InHeaders(R, k)'
         \/ parser'.at \in {"body", "end"} /\ \E k \in 0..Len(body) : InPart(R, k)'
         \/ parser'.at = "done" /\ Len(parts') = Len(Sent(body))
         \/ parser'.at = "failed"
  PROVE  Placed'
<1>1. /\ "preamble" # "headers" /\ "preamble" \notin {"body", "end"} /\ "preamble" # "done"
      /\ "headers" \notin {"body", "end"} /\ "headers" # "done" /\ "done" \notin {"body", "end"}
      /\ "failed" # "headers" /\ "failed" \notin {"body", "end"} /\ "failed" # "done" /\ "failed" # "preamble"
  OBVIOUS
<1>2. R = Reading(body')
  BY Zenon
<1>3. PICK at : at = parser'.at
  OBVIOUS
<1>4. CASE at = "preamble" /\ parts' = <<>> /\ parser'.kind = "none" /\ parser'.head = <<>> /\ InPreamble(R[0])'
  BY Zenon, <1>1, <1>2, <1>3, <1>4 DEF Placed
<1>5. CASE at = "headers" /\ \E k \in 0..Len(body) : InHeaders(R, k)'
  BY Zenon, <1>1, <1>2, <1>3, <1>5 DEF Placed
<1>6. CASE at \in {"body", "end"} /\ \E k \in 0..Len(body) : InPart(R, k)'
  <2>1. at # "preamble" /\ at # "headers" /\ at # "done"
    BY <1>6
  <2>2. QED BY Zenon, <1>2, <1>3, <1>6, <2>1 DEF Placed
<1>7. CASE at = "done" /\ Len(parts') = Len(Sent(body))
  BY Zenon, <1>1, <1>2, <1>3, <1>7 DEF Placed
<1>8. CASE at = "failed"
  BY Zenon, <1>1, <1>2, <1>3, <1>8 DEF Placed
<1>9. QED BY Zenon, <1>3, <1>4, <1>5, <1>6, <1>7, <1>8

\* Nothing moves.
LEMMA PlacedSame ==
  ASSUME Placed, body' = body, parts' = parts, Rest' = Rest,
         parser'.at = parser.at, parser'.matched = parser.matched, parser'.head = parser.head,
         parser'.kind = parser.kind, parser'.size = parser.size, parser'.closed = parser.closed,
         consumer' \in {"holding", "reading"} => consumer \in {"holding", "reading"}
  PROVE  Placed'
<1>1. PICK R : R = Reading(body) /\ R = Reading(body')
  BY Zenon
<1>2. PICK q : q = parts /\ q = parts'
  BY Zenon
<1>3. PICK rest : rest = Rest /\ rest = Rest'
  BY Zenon
<1>4. PICK at, matched, head : at = parser.at /\ matched = parser.matched /\ head = parser.head
  BY Zenon
<1>5. PICK kind, size, closed : kind = parser.kind /\ size = parser.size /\ closed = parser.closed
  BY Zenon
<1>6. parser'.at = at /\ parser'.matched = matched /\ parser'.head = head
      /\ parser'.kind = kind /\ parser'.size = size /\ parser'.closed = closed
  BY Zenon, <1>4, <1>5
<1>7. ASSUME NEW sent, Up(sent)  PROVE Up(sent)'
  BY Zenon, <1>2, <1>7 DEF Up, Agree
<1>8. ASSUME NEW k, InHeaders(R, k)  PROVE InHeaders(R, k)'
  BY Zenon, <1>3, <1>4, <1>5, <1>6, <1>7, <1>8 DEF InHeaders
<1>9. ASSUME NEW c, HasRead(c)  PROVE HasRead(c)'
  BY Zenon, <1>2, <1>5, <1>6, <1>9 DEF HasRead
<1>10. ASSUME NEW c, InContent(c)  PROVE InContent(c)'
  BY Zenon, <1>3, <1>4, <1>5, <1>6, <1>10 DEF InContent
<1>11. ASSUME NEW c, AtEnd(c)  PROVE AtEnd(c)'
  BY Zenon, <1>3, <1>4, <1>5, <1>6, <1>11 DEF AtEnd
<1>12. ASSUME NEW k, InPart(R, k)  PROVE InPart(R, k)'
  BY Zenon, <1>4, <1>5, <1>6, <1>7, <1>9, <1>10, <1>11, <1>12 DEF InPart
<1>13. ASSUME NEW first, InPreamble(first)  PROVE InPreamble(first)'
  BY Zenon, <1>3, <1>4, <1>6, <1>13 DEF InPreamble
<1>14. QED BY Zenon, <1>1, <1>2, <1>4, <1>5, <1>6, <1>8, <1>12, <1>13 DEF Placed

LEMMA FillPlaced ==
  ASSUME PartTypesOK, Placed, Fill
  PROVE  Placed'
<1>1. parser \in ParserState /\ wire \in Seq(Byte) /\ buffer \in Seq(Byte)
  BY DEF PartTypesOK
<1>2. UNCHANGED <<body, consumer, parts>>
  BY Zenon DEF Fill
<1>3. CASE wire = <<>>
  <2>1. parser' = [parser EXCEPT !.starving = FALSE, !.eof = TRUE] /\ UNCHANGED <<wire, buffer>>
    BY Zenon, <1>3 DEF Fill
  <2>2. /\ parser'.at = parser.at /\ parser'.matched = parser.matched /\ parser'.head = parser.head
        /\ parser'.kind = parser.kind /\ parser'.size = parser.size /\ parser'.closed = parser.closed
    BY <1>1, <2>1 DEF ParserState
  <2>3. Rest' = Rest
    BY Zenon, <2>1 DEF Rest
  <2>4. QED BY Zenon, <1>2, <2>2, <2>3, PlacedSame
<1>4. CASE wire # <<>>
  <2>1. PICK n \in 1..MaxChunk : n <= Len(wire) /\ buffer' = buffer \o SubSeq(wire, 1, n)
                                 /\ wire' = From(wire, n + 1)
                                 /\ parser' = [parser EXCEPT !.starving = FALSE]
    BY Zenon, <1>4 DEF Fill
  <2>2. /\ parser'.at = parser.at /\ parser'.matched = parser.matched /\ parser'.head = parser.head
        /\ parser'.kind = parser.kind /\ parser'.size = parser.size /\ parser'.closed = parser.closed
    BY <1>1, <2>1 DEF ParserState
  <2>3. n \in Nat /\ n + 1 \in Nat \ {0} /\ 1 <= n + 1
    BY Bounds
  <2>4. PICK a \in Seq(Byte), z \in Seq(Byte) : a = SubSeq(wire, 1, n) /\ z = From(wire, n + 1)
    <3>1. SubSeq(wire, 1, n) \in Seq(Byte)
      BY <1>1, <2>1, <2>3
    <3>2. From(wire, n + 1) \in Seq(Byte)
      BY <1>1, <2>3, FromIs DEF IsRest
    <3>3. QED BY Zenon, <3>1, <3>2
  <2>5. a \o z = wire
    <3>1. PICK m \in Nat : m = Len(wire) /\ n <= m
      <4>1. Len(wire) \in Nat
        BY <1>1
      <4>2. QED BY Zenon, <2>1, <4>1
    <3>2. SubSeq(wire, 1, n) \o SubSeq(wire, n + 1, m) = SubSeq(wire, 1, m)
      BY <1>1, <2>3, <3>1, SlicesMeet
    <3>3. SubSeq(wire, 1, m) = wire
      BY <1>1, <3>1
    <3>4. QED BY Zenon, <2>4, <3>1, <3>2, <3>3 DEF From
  <2>6. (buffer \o a) \o z = buffer \o (a \o z)
    BY <1>1, <2>4
  <2>7. Rest' = Rest
    BY Zenon, <2>1, <2>4, <2>5, <2>6 DEF Rest
  <2>8. QED BY Zenon, <1>2, <2>2, <2>7, PlacedSame
<1>5. QED BY <1>3, <1>4

LEMMA SkipPlaced ==
  ASSUME PartTypesOK, BufferInv, Placed, SkipPreamble
  PROVE  Placed'
<1>1. /\ parser \in ParserState /\ parser.eof \in BOOLEAN
      /\ parser.at = "preamble" /\ ~parser.starving /\ consumer # "gone"
  <2>1. parser \in ParserState
    BY DEF PartTypesOK
  <2>2. parser.eof \in BOOLEAN
    BY <2>1 DEF ParserState
  <2>3. Stepping("preamble")
    BY Zenon DEF SkipPreamble
  <2>4. QED BY <2>1, <2>2, <2>3 DEF Stepping, Running
<1>2. Rest \in Seq(Byte) /\ buffer \in Seq(Byte) /\ wire \in Seq(Byte) /\ body \in Seq(Byte)
  BY RestTyped
<1>3. PICK R : R = Reading(body)
  OBVIOUS
<1>4. Stages(R, body) /\ 0 \in 0..(Len(body) + 1) /\ 0 \in 0..Len(body) /\ R[0].sent = <<>>
  <2>1. Stages(R, body) /\ 0 \in 0..(Len(body) + 1) /\ 0 \in 0..Len(body)
    BY <1>2, <1>3, ReadingIs
  <2>2. R[0] = FirstStage(body)
    BY Zenon, <2>1 DEF Stages
  <2>3. QED BY <2>1, <2>2 DEF FirstStage
<1>5. R[0].kind # "next" => Sent(body) = <<>>
  BY Zenon, <1>2, <1>4, StagesLead
<1>6. parts = <<>> /\ parser.kind = "none" /\ parser.head = <<>> /\ InPreamble(R[0])
  BY Zenon, <1>1, <1>3 DEF Placed
<1>7. UNCHANGED <<body, wire, consumer, parts>>
  BY Zenon DEF SkipPreamble
<1>8. PICK x : x = Suffix(buffer, parser.eof) /\ SuffixFits(x, buffer, parser.eof)
  BY <1>1, <1>2, SuffixIs
<1>9. /\ x.used \in Nat /\ x.used <= Len(buffer)
      /\ x.kind \in {"more", "false"} => x.used = 0
  BY Zenon, <1>8 DEF SuffixFits
<1>10. x.kind # "more" => Suffix(Rest, TRUE) = x
  <2>1. parser.eof => wire = <<>>
    BY Zenon, <1>1 DEF BufferInv
  <2>2. x.kind # "more" => Suffix(buffer \o wire, TRUE) = Suffix(buffer, parser.eof)
    BY <1>1, <1>2, <1>8, <2>1, SuffixKept
  <2>3. QED BY Zenon, <1>8, <2>2 DEF Rest
<1>11. ASSUME NEW u \in Nat, u <= Len(buffer), NEW p, Skips(p, u)
       PROVE  Rest' = From(Rest, u + 1) /\ u <= Len(Rest) /\ Rest' \in Seq(Byte) /\ parser' = p
  BY Zenon, <1>11, RestAfter DEF Skips
<1>12. From(Rest, 0 + 1) = Rest
  BY <1>2, FromFirst
<1>13. PICK found : found = IndexOf(buffer, FirstNeedle) /\ found \in Nat
  <2>1. IsNeedle(FirstNeedle)
    BY NeedleIs DEF Needles
  <2>2. QED BY <1>2, <2>1, IndexIs DEF IsFirst
<1>14. FirstNeedle \in Needles /\ Len(FirstNeedle) = 3 /\ IsNeedle(FirstNeedle)
  BY FirstNeedleIs, NeedleIs DEF Needles
<1>15. CASE SkipMore(x)
  <2>1. parser' = [parser EXCEPT !.starving = TRUE] /\ Rest' = Rest
    <3>1. Skips([parser EXCEPT !.starving = TRUE], x.used) /\ x.used = 0
      BY <1>9, <1>15 DEF SkipMore
    <3>2. QED BY Zenon, <1>9, <1>11, <1>12, <3>1
  <2>2. /\ parser'.at = parser.at /\ parser'.matched = parser.matched /\ parser'.head = parser.head
        /\ parser'.kind = parser.kind /\ parser'.size = parser.size /\ parser'.closed = parser.closed
    BY <1>1, <2>1 DEF ParserState
  <2>3. QED BY Zenon, <1>7, <2>1, <2>2, PlacedSame
<1>16. CASE SkipClose(x)
  <2>1. parser' = [parser EXCEPT !.at = "done"] /\ parser.matched /\ x.kind = "close"
    BY Zenon, <1>16 DEF SkipClose, Skips
  <2>2. parser'.at = "done"
    BY <1>1, <2>1 DEF ParserState
  <2>3. x.kind # "false" /\ x.kind # "more" /\ x.kind # "next"
    BY <2>1
  <2>4. R[0].kind = x.kind
    BY Zenon, <1>6, <1>10, <2>1, <2>3 DEF InPreamble
  <2>5. Sent(body) = <<>>
    BY Zenon, <1>5, <2>3, <2>4
  <2>6. QED BY Zenon, <1>3, <1>6, <1>7, <2>2, <2>5, PlacedIn
<1>17. CASE SkipNext(x)
  <2>1. parser' = [parser EXCEPT !.at = "headers", !.matched = FALSE] /\ Rest' = From(Rest, x.used + 1)
        /\ parser.matched /\ x.kind = "next"
    BY Zenon, <1>9, <1>11, <1>17 DEF SkipNext
  <2>2. parser'.at = "headers" /\ ~parser'.matched /\ parser'.kind = parser.kind /\ parser'.head = parser.head
    BY <1>1, <2>1 DEF ParserState
  <2>3. x.kind # "false" /\ x.kind # "more"
    BY <2>1
  <2>4. R[0].kind = "next" /\ R[0].rest = Rest'
    BY Zenon, <1>6, <1>10, <2>1, <2>3 DEF InPreamble
  <2>5. SameHeaders(Rest', "none", R[0].rest)
    BY Zenon, <2>4 DEF SameHeaders
  <2>6. Up(R[0].sent)'
    <3>1. Up(<<>>)'
      <4>1. Len(<<>>) = 0 /\ 0 <= 0 /\ DOMAIN <<>> = {}
        OBVIOUS
      <4>2. parts' = <<>>
        BY Zenon, <1>6, <1>7
      <4>3. \A i \in {} : FALSE
        OBVIOUS
      <4>4. \A i \in DOMAIN parts' : FALSE
        BY Zenon, <4>1, <4>2, <4>3
      <4>5. Len(parts') = Len(<<>>) /\ Len(parts') <= Len(<<>>)
        BY Zenon, <4>1, <4>2
      <4>6. QED BY Zenon, <4>4, <4>5 DEF Up, Agree
    <3>2. QED BY Zenon, <1>4, <3>1
  <2>7. InHeaders(R, 0)'
    BY Zenon, <1>6, <2>2, <2>4, <2>5, <2>6 DEF InHeaders
  <2>8. QED BY Zenon, <1>3, <1>4, <1>7, <2>2, <2>7, PlacedIn
<1>18. CASE SkipFalse(x)
  <2>1. parser' = [parser EXCEPT !.matched = FALSE] /\ Rest' = Rest /\ x.kind = "false" /\ parser.matched
    <3>1. Skips([parser EXCEPT !.matched = FALSE], x.used) /\ x.used = 0 /\ x.kind = "false" /\ parser.matched
      BY <1>9, <1>18 DEF SkipFalse
    <3>2. QED BY Zenon, <1>9, <1>11, <1>12, <3>1
  <2>2. parser'.at = "preamble" /\ ~parser'.matched /\ parser'.kind = parser.kind /\ parser'.head = parser.head
    BY <1>1, <2>1 DEF ParserState
  <2>3. SameFirst(Rest, R[0])
    <3>1. x.kind # "more"
      BY <2>1
    <3>2. QED BY Zenon, <1>6, <1>10, <2>1, <3>1 DEF InPreamble
  <2>4. InPreamble(R[0])'
    BY Zenon, <2>1, <2>2, <2>3 DEF InPreamble
  <2>5. QED BY Zenon, <1>3, <1>6, <1>7, <2>2, <2>4, PlacedIn
<1>19. CASE SkipFails
  <2>1. parser' = Fail(parser)
    BY Zenon, <1>19 DEF SkipFails, Skips
  <2>2. parser'.at = "failed"
    BY <1>1, <2>1 DEF ParserState, Fail
  <2>3. QED BY Zenon, <1>3, <1>7, <2>2, PlacedIn
<1>20. CASE SkipFinds(found)
  <2>1. ~parser.matched /\ found # 0 /\ Skips([parser EXCEPT !.matched = TRUE], (found + Len(FirstNeedle)) - 1)
    BY Zenon, <1>20 DEF SkipFinds
  <2>2. /\ Occurs(Rest, found, FirstNeedle) /\ found + Len(FirstNeedle) <= Len(buffer) + 1
        /\ Clear(Rest, found - 1, FirstNeedle)
    <3>1. /\ Occurs(buffer \o wire, found, FirstNeedle) /\ found + Len(FirstNeedle) <= Len(buffer) + 1
          /\ Clear(buffer \o wire, found - 1, FirstNeedle)
      BY <1>2, <1>13, <1>14, <2>1, ScanFound
    <3>2. QED BY Zenon, <3>1 DEF Rest
  <2>3. PICK u \in Nat, n \in Nat : u = (found + Len(FirstNeedle)) - 1 /\ u + 1 = found + Len(FirstNeedle)
                   /\ n = found - 1 /\ n + 1 = found /\ n + Len(FirstNeedle) = u /\ n + Len(FirstNeedle) + 1 = u + 1
    <3>1. found \in Nat \ {0}
      BY <1>13, <2>1
    <3>2. PICK m \in Nat : m = found - 1
      BY <3>1
    <3>3. PICK v \in Nat : v = m + 3
      OBVIOUS
    <3>4. v = (found + 3) - 1 /\ v + 1 = found + 3 /\ m = found - 1 /\ m + 1 = found /\ m + 3 = v /\ m + 3 + 1 = v + 1
      BY <3>1, <3>2, <3>3
    <3>5. QED BY Zenon, <1>14, <3>4
  <2>4. u <= Len(buffer)
    <3>1. PICK m \in Nat : m = Len(buffer)
      BY <1>2
    <3>2. u + 1 <= m + 1
      BY Zenon, <2>2, <2>3, <3>1
    <3>3. u <= m
      BY <3>2
    <3>4. QED BY Zenon, <3>1, <3>3
  <2>5. Rest' = From(Rest, u + 1) /\ u <= Len(Rest) /\ parser' = [parser EXCEPT !.matched = TRUE]
    BY Zenon, <1>11, <2>1, <2>3, <2>4
  <2>6. parser'.at = "preamble" /\ parser'.matched /\ parser'.kind = parser.kind /\ parser'.head = parser.head
    BY <1>1, <2>5 DEF ParserState
  <2>7. SameFirst(Rest, R[0])
    BY Zenon, <1>6, <2>1 DEF InPreamble
  <2>8. InPreamble(R[0])'
    <3>1. CASE Suffix(Rest', TRUE).kind # "false"
      <4>1. found \in Nat \ {0}
        BY <1>13, <2>1
      <4>2. Rest' = From(Rest, found + Len(FirstNeedle))
        BY Zenon, <2>3, <2>5
      <4>3. IsDelimiter(Rest, found, FirstNeedle)
        BY Zenon, <2>2, <3>1, <4>1, <4>2 DEF IsDelimiter
      <4>4. CutAtDelimiter(Cut(Rest, FirstNeedle), Rest, found, FirstNeedle)
        BY <1>2, <1>14, <2>2, <4>1, <4>3, CutHere
      <4>5. PICK c : c = Cut(Rest, FirstNeedle)
        OBVIOUS
      <4>6. PICK y : y = Suffix(Rest', TRUE)
        OBVIOUS
      <4>7. c = [before |-> SubSeq(Rest, 1, found - 1), kind |-> y.kind, rest |-> From(Rest', y.used + 1)]
        BY Zenon, <4>2, <4>4, <4>5, <4>6 DEF CutAtDelimiter
      <4>8. c.kind = y.kind /\ c.rest = From(Rest', y.used + 1)
        BY Zenon, <4>7
      <4>9. c.kind = R[0].kind /\ c.rest = R[0].rest
        BY Zenon, <2>7, <4>5 DEF SameFirst
      <4>10. QED BY Zenon, <2>6, <3>1, <4>6, <4>8, <4>9 DEF InPreamble
    <3>2. CASE Suffix(Rest', TRUE).kind = "false"
      <4>1. Clear(Rest, u, FirstNeedle)
        <5>1. Suffix(From(Rest, n + Len(FirstNeedle) + 1), TRUE).kind = "false"
          BY Zenon, <2>3, <2>5, <3>2
        <5>2. Clear(Rest, n, FirstNeedle) /\ Occurs(Rest, n + 1, FirstNeedle)
          BY Zenon, <2>2, <2>3
        <5>3. Clear(Rest, n + Len(FirstNeedle), FirstNeedle)
          BY <1>2, <1>14, <5>1, <5>2, ClearOver
        <5>4. QED BY Zenon, <2>3, <5>3
      <4>2. /\ Cut(From(Rest, u + 1), FirstNeedle).kind = Cut(Rest, FirstNeedle).kind
            /\ Cut(From(Rest, u + 1), FirstNeedle).rest = Cut(Rest, FirstNeedle).rest
        BY <1>2, <1>14, <2>5, <4>1, CutRest
      <4>3. SameFirst(Rest', R[0])
        BY Zenon, <2>5, <2>7, <4>2 DEF SameFirst
      <4>4. QED BY Zenon, <3>2, <4>3 DEF InPreamble
    <3>3. QED BY <3>1, <3>2
  <2>9. QED BY Zenon, <1>3, <1>6, <1>7, <2>6, <2>8, PlacedIn
<1>21. CASE SkipPasses(found)
  <2>1. /\ ~parser.matched /\ found = 0
        /\ parser' = IF parser.eof THEN [parser EXCEPT !.at = "done"] ELSE [parser EXCEPT !.starving = TRUE]
    BY Zenon, <1>21 DEF SkipPasses, Skips
  <2>2. SameFirst(Rest, R[0])
    BY Zenon, <1>6, <2>1 DEF InPreamble
  <2>3. CASE parser.eof
    <3>1. parser'.at = "done"
      BY <1>1, <2>1, <2>3 DEF ParserState
    <3>2. Rest = buffer
      <4>1. wire = <<>>
        BY Zenon, <1>1, <2>3 DEF BufferInv
      <4>2. buffer \o <<>> = buffer
        BY <1>2
      <4>3. QED BY Zenon, <4>1, <4>2 DEF Rest
    <3>3. \A i : ~IsDelimiter(Rest, i, FirstNeedle)
      <4>1. IsFirst(found, buffer, FirstNeedle)
        BY <1>2, <1>13, <1>14, IndexIs
      <4>2. \A i \in Nat \ {0} : ~Occurs(buffer, i, FirstNeedle)
        BY Zenon, <2>1, <4>1 DEF IsFirst
      <4>3. QED BY Zenon, <3>2, <4>2 DEF IsDelimiter
    <3>4. Cut(Rest, FirstNeedle).kind = "truncated"
      <4>1. Uncut(Cut(Rest, FirstNeedle), Rest, FirstNeedle)
        BY <1>2, <1>14, <3>3, CutIs DEF CutAtDelimiter
      <4>2. QED BY <4>1 DEF Uncut
    <3>5. R[0].kind # "next"
      <4>1. R[0].kind = "truncated"
        BY Zenon, <2>2, <3>4 DEF SameFirst
      <4>2. QED BY <4>1
    <3>6. QED BY Zenon, <1>3, <1>5, <1>6, <1>7, <3>1, <3>5, PlacedIn
  <2>4. CASE ~parser.eof
    <3>1. parser' = [parser EXCEPT !.starving = TRUE]
      BY Zenon, <2>1, <2>4
    <3>2. parser'.at = "preamble" /\ ~parser'.matched /\ parser'.kind = parser.kind /\ parser'.head = parser.head
      BY <1>1, <2>1, <3>1 DEF ParserState
    <3>3. PICK n \in Nat : n = Emptied /\ n <= Len(buffer) /\ (n = 0 \/ n + 3 <= Len(buffer))
      <4>1. PICK n \in Nat : n = Emptied /\ n <= Len(buffer) /\ (n # 0 => n + Retain = Len(buffer))
        BY Zenon, EmptiedIs
      <4>2. n = 0 \/ n + 3 <= Len(buffer)
        BY <1>2, <4>1, Bounds
      <4>3. QED BY Zenon, <4>1, <4>2
    <3>4. Rest' = From(Rest, n + 1) /\ n <= Len(Rest)
      BY Zenon, <1>11, <1>21, <3>3 DEF SkipPasses
    <3>5. Clear(Rest, n, FirstNeedle)
      <4>1. n = 0 \/ n + Len(FirstNeedle) <= Len(buffer)
        BY Zenon, <1>14, <3>3
      <4>2. IndexOf(buffer, FirstNeedle) = 0
        BY Zenon, <1>13, <2>1
      <4>3. Clear(buffer \o wire, n, FirstNeedle)
        BY <1>2, <1>14, <4>1, <4>2, ScanNone
      <4>4. QED BY Zenon, <4>3 DEF Rest
    <3>6. /\ Cut(From(Rest, n + 1), FirstNeedle).kind = Cut(Rest, FirstNeedle).kind
          /\ Cut(From(Rest, n + 1), FirstNeedle).rest = Cut(Rest, FirstNeedle).rest
      BY <1>2, <1>14, <3>4, <3>5, CutRest
    <3>7. SameFirst(Rest', R[0])
      BY Zenon, <2>2, <3>4, <3>6 DEF SameFirst
    <3>8. InPreamble(R[0])'
      BY Zenon, <3>2, <3>7 DEF InPreamble
    <3>9. QED BY Zenon, <1>3, <1>6, <1>7, <3>2, <3>8, PlacedIn
  <2>5. QED BY <2>3, <2>4
<1>22. QED BY Zenon, <1>8, <1>13, <1>15, <1>16, <1>17, <1>18, <1>19, <1>20, <1>21, SkipCases

\* What Reading says of a stage that another part follows.
LEMMA StageAfter ==
  ASSUME NEW b \in Seq(Byte), NEW R, Stages(R, b), NEW k \in 0..Len(b)
  PROVE  /\ R[k] \in Stage /\ R[k + 1] \in Stage /\ PartRead(R[k], R[k + 1])
         /\ k + 1 \in 0..(Len(b) + 1) /\ k \in 0..(Len(b) + 1)
         /\ R[k].rest \in Seq(Byte) /\ R[k].sent \in Seq(SentPart) /\ R[k + 1].sent \in Seq(SentPart)
<1>1. PICK n \in Nat : n = Len(b) + 1 /\ k \in 0..n /\ k + 1 \in 1..n /\ k + 1 \in 0..n /\ (k + 1) - 1 = k
  <2>1. PICK m \in Nat : m = Len(b)
    OBVIOUS
  <2>2. k \in 0..(m + 1) /\ k + 1 \in 1..(m + 1) /\ k + 1 \in 0..(m + 1) /\ (k + 1) - 1 = k /\ m + 1 \in Nat
    BY <2>1
  <2>3. QED BY Zenon, <2>1, <2>2
<1>2. R \in [0..n -> Stage] /\ \A i \in 1..n : R[i] = NextPart(R[i - 1])
  BY Zenon, <1>1 DEF Stages
<1>3. R[k] \in Stage /\ R[k + 1] \in Stage
  BY <1>1, <1>2
<1>4. R[k + 1] = NextPart(R[k])
  BY Zenon, <1>1, <1>2
<1>5. PartRead(R[k], R[k + 1])
  BY Zenon, <1>3, <1>4, NextPartIs
<1>6. R[k].rest \in Seq(Byte) /\ R[k].sent \in Seq(SentPart) /\ R[k + 1].sent \in Seq(SentPart)
  BY <1>3 DEF Stage
<1>7. QED BY Zenon, <1>1, <1>3, <1>5, <1>6

\* A line that was read is a line of what is left of the body.
LEMMA LineOfRest ==
  ASSUME PartTypesOK, BufferInv, consumer # "gone", wire' = wire, HeaderRead
  PROVE  /\ Rest # <<>> /\ Line(Rest) = Line(buffer) /\ Rest' = From(Rest, Len(Line(Rest)) + 2)
         /\ Rest' \in Seq(Byte)
<1>1. Rest \in Seq(Byte) /\ buffer \in Seq(Byte) /\ wire \in Seq(Byte)
  BY RestTyped
<1>2. HasNewline(buffer) \/ wire = <<>>
  BY Zenon DEF HeaderRead, BufferInv
<1>3. Line(Rest) = Line(buffer)
  <2>1. Line(buffer \o wire) = Line(buffer)
    BY <1>1, <1>2, LineKept
  <2>2. QED BY Zenon, <2>1 DEF Rest
<1>4. Rest # <<>>
  <2>1. buffer # <<>>
    BY Zenon DEF HeaderRead
  <2>2. buffer \o wire # <<>>
    BY <1>1, <2>1
  <2>3. QED BY Zenon, <2>2 DEF Rest
<1>5. IsLine(Line(buffer), buffer)
  BY <1>1, LineIs
<1>6. PICK l \in Nat : l = Len(Line(buffer))
  BY <1>5 DEF IsLine
<1>7. l + 2 \in Nat \ {0} /\ l + 1 \in Nat /\ (l + 1) + 1 = l + 2
  OBVIOUS
<1>8. buffer' = From(buffer, l + 2)
  BY Zenon, <1>6 DEF HeaderRead
<1>9. Rest' = From(Rest, l + 2) /\ Rest' \in Seq(Byte)
  <2>1. CASE HasNewline(buffer)
    <3>1. PICK n \in Nat, i \in 1..Len(buffer) : n = Len(buffer) /\ buffer[i] = "n"
      <4>1. Len(buffer) \in Nat
        BY <1>1
      <4>2. QED BY Zenon, <2>1, <4>1 DEF HasNewline
    <3>2. \A j \in 1..l : buffer[j] # "n"
      BY Zenon, <1>5, <1>6 DEF IsLine
    <3>3. i \notin 1..l
      BY <3>1, <3>2
    <3>4. l + 1 <= n
      BY <3>1, <3>3
    <3>5. QED BY Zenon, <1>7, <1>8, <3>1, <3>4, RestAfter
  <2>2. CASE wire = <<>>
    <3>1. PICK left \in Seq(Byte) : left = From(buffer, l + 2)
      <4>1. From(buffer, l + 2) \in Seq(Byte)
        BY <1>1, <1>7, FromIs DEF IsRest
      <4>2. QED BY Zenon, <4>1
    <3>2. left \o <<>> = left /\ buffer \o <<>> = buffer
      BY <1>1, <3>1
    <3>3. QED BY Zenon, <1>8, <2>2, <3>1, <3>2 DEF Rest
  <2>3. QED BY <1>2, <2>1, <2>2
<1>10. QED BY Zenon, <1>3, <1>4, <1>6, <1>9

LEMMA HeaderPlaced ==
  ASSUME PartTypesOK, BufferInv, Placed, ReadHeader
  PROVE  Placed'
<1>1. /\ parser \in ParserState /\ parser.at = "headers" /\ consumer # "gone" /\ parts \in Seq(PartState)
  <2>1. parser \in ParserState /\ parts \in Seq(PartState)
    BY DEF PartTypesOK
  <2>2. Stepping("headers")
    BY Zenon DEF ReadHeader
  <2>3. QED BY <2>1, <2>2 DEF Stepping, Running
<1>2. Rest \in Seq(Byte) /\ buffer \in Seq(Byte) /\ body \in Seq(Byte)
  BY RestTyped
<1>3. PICK R : R = Reading(body) /\ Stages(R, body)
  BY <1>2, ReadingIs
<1>4. PICK k \in 0..Len(body) : InHeaders(R, k)
  BY Zenon, <1>1, <1>3 DEF Placed
<1>5. UNCHANGED <<body, wire>>
  BY Zenon DEF ReadHeader
<1>6. PICK line : line = Chomp(Line(buffer))
  OBVIOUS
<1>7. ASSUME parser'.at = "failed"  PROVE Placed'
  BY Zenon, <1>3, <1>5, <1>7, PlacedIn
<1>8. CASE HeaderWaits
  <2>1. parser' = [parser EXCEPT !.starving = TRUE] /\ UNCHANGED <<buffer, consumer, parts>>
    BY Zenon, <1>8 DEF HeaderWaits
  <2>2. /\ parser'.at = parser.at /\ parser'.matched = parser.matched /\ parser'.head = parser.head
        /\ parser'.kind = parser.kind /\ parser'.size = parser.size /\ parser'.closed = parser.closed
    BY <1>1, <2>1 DEF ParserState
  <2>3. Rest' = Rest
    BY Zenon, <1>5, <2>1 DEF Rest
  <2>4. QED BY Zenon, <1>5, <2>1, <2>2, <2>3, PlacedSame
<1>9. CASE HeaderFails
  <2>1. parser' = Fail(parser)
    BY Zenon, <1>9 DEF HeaderFails
  <2>2. parser'.at = "failed"
    BY <1>1, <2>1 DEF ParserState, Fail
  <2>3. QED BY Zenon, <1>7, <2>2
<1>10. CASE HeaderOver
  <2>1. PICK fields \in Nat, files \in Nat : parser' = Fail(Opened(fields, files))
    BY Zenon, <1>10 DEF HeaderOver
  <2>2. parser'.at = "failed"
    BY <1>1, <2>1 DEF ParserState, Fail, Opened
  <2>3. QED BY Zenon, <1>7, <2>2
<1>11. R[k].kind = "next" /\ Up(R[k].sent) /\ SameHeaders(Rest, parser.kind, R[k].rest)
       /\ ~parser.matched /\ parser.head = <<>>
  BY Zenon, <1>4 DEF InHeaders
<1>12. HeaderRead => /\ Rest # <<>> /\ line = Chomp(Line(Rest)) /\ Rest' = From(Rest, Len(Line(Rest)) + 2)
                     /\ Rest' \in Seq(Byte)
  BY Zenon, <1>1, <1>5, <1>6, LineOfRest
<1>13. CASE HeaderGoesOn(line)
  <2>1. /\ HeaderRead /\ line # <<>> /\ UNCHANGED <<consumer, parts>>
        /\ parser' = [parser EXCEPT !.used = parser.used + Len(line) + 2, !.kind = Disposition(parser.kind, line)]
    BY Zenon, <1>13 DEF HeaderGoesOn
  <2>2. /\ parser'.at = "headers" /\ parser'.matched = parser.matched /\ parser'.head = parser.head
        /\ parser'.kind = Disposition(parser.kind, line)
    BY <1>1, <2>1 DEF ParserState
  <2>3. HeadersFollow(Rest, Rest', line)
    <3>1. HeadersFollow(Rest, From(Rest, Len(Line(Rest)) + 2), Chomp(Line(Rest)))
      <4>1. Rest # <<>> /\ Chomp(Line(Rest)) # <<>>
        BY Zenon, <1>12, <2>1
      <4>2. QED BY <1>2, <4>1, HeadersGoOn
    <3>2. QED BY Zenon, <1>12, <2>1, <3>1
  <2>4. SameHeaders(Rest', parser'.kind, R[k].rest)
    <3>1. PICK s, t, h, kind, now : s = Rest /\ t = Rest' /\ h = R[k].rest /\ kind = parser.kind /\ now = parser'.kind
      OBVIOUS
    <3>2. now = Disposition(kind, line)
      BY Zenon, <2>2, <3>1
    <3>3. /\ EmptyLine(s) = 0 <=> EmptyLine(t) = 0
          /\ EmptyLine(s) # 0 =>
               /\ Content(s) = Content(t)
               /\ Kind(s) = IF line \in {<<"f">>, <<"d">>} THEN Disposition("none", line) ELSE Kind(t)
      BY Zenon, <2>3, <3>1 DEF HeadersFollow
    <3>4. /\ EmptyLine(s) = 0 <=> EmptyLine(h) = 0
          /\ EmptyLine(h) # 0 =>
               /\ Content(s) = Content(h)
               /\ Kind(h) = IF kind = "none" THEN Kind(s) ELSE kind
      BY Zenon, <1>11, <3>1 DEF SameHeaders
    <3>5. EmptyLine(h) # 0 => Kind(h) = IF now = "none" THEN Kind(t) ELSE now
      <4>1. CASE kind # "none"
        <5>1. now = kind
          BY Zenon, <3>2, <4>1, DispositionIs
        <5>2. QED BY Zenon, <3>4, <4>1, <5>1
      <4>2. CASE kind = "none" /\ line \in {<<"f">>, <<"d">>}
        <5>1. now \in {"file", "field"}
          BY Zenon, <3>2, <4>2, DispositionIs DEF Named
        <5>2. now # "none"
          BY <5>1
        <5>3. QED BY Zenon, <3>2, <3>3, <3>4, <4>2, <5>2
      <4>3. CASE kind = "none" /\ line \notin {<<"f">>, <<"d">>}
        <5>1. now = "none"
          BY Zenon, <3>2, <4>3, DispositionIs
        <5>2. QED BY Zenon, <3>3, <3>4, <4>3, <5>1
      <4>4. QED BY Zenon, <4>1, <4>2, <4>3
    <3>6. SameHeaders(t, now, h)
      BY Zenon, <3>3, <3>4, <3>5 DEF SameHeaders
    <3>7. QED BY Zenon, <3>1, <3>6
  <2>5. Up(R[k].sent)'
    <3>1. PICK q : q = parts /\ q = parts'
      BY Zenon, <2>1
    <3>2. QED BY Zenon, <1>11, <3>1 DEF Up, Agree
  <2>6. InHeaders(R, k)'
    BY Zenon, <1>11, <2>2, <2>4, <2>5 DEF InHeaders
  <2>7. QED BY Zenon, <1>3, <1>5, <2>2, <2>6, PlacedIn
<1>14. CASE HeaderOpens(line)
  <2>1. /\ HeaderRead /\ line = <<>>
        /\ parts' = IF parser.kind = "none" THEN parts
                    ELSE Append(parts, [kind |-> parser.kind, bytes |-> <<>>, state |-> "open"])
    BY Zenon, <1>14 DEF HeaderOpens
  <2>2. PICK fields \in Nat, files \in Nat : parser' = Opened(fields, files)
    BY Zenon, <1>14 DEF HeaderOpens
  <2>3. /\ parser'.at = "body" /\ parser'.matched = parser.matched /\ parser'.head = parser.head
        /\ parser'.kind = parser.kind /\ parser'.size = 0
    BY <1>1, <2>2 DEF ParserState, Opened
  <2>4. EmptyLine(Rest) = 1 /\ Content(Rest) = Rest' /\ Kind(Rest) = "none"
    <3>1. Rest # <<>> /\ Chomp(Line(Rest)) = <<>>
      BY Zenon, <1>12, <2>1
    <3>2. EmptyLine(Rest) = 1 /\ Content(Rest) = From(Rest, Len(Line(Rest)) + 2) /\ Kind(Rest) = "none"
      BY <1>2, <3>1, HeadersEnd
    <3>3. QED BY Zenon, <1>12, <2>1, <3>2
  <2>5. EmptyLine(R[k].rest) # 0 /\ Content(R[k].rest) = Rest' /\ Kind(R[k].rest) = parser.kind
    <3>1. 1 # 0
      OBVIOUS
    <3>2. QED BY Zenon, <1>11, <2>4, <3>1 DEF SameHeaders
  <2>6. PICK c \in Seq(Byte) : c = Rest'
    BY Zenon, <1>12, <2>1
  <2>7. PICK cut : cut = Cut(c, Delim) /\ IsCut(cut, c)
    <3>1. IsNeedle(Delim)
      BY NeedleIs DEF Needles
    <3>2. QED BY <2>6, <3>1, CutTyped
  <2>8. /\ PartRead(R[k], R[k + 1]) /\ R[k].sent \in Seq(SentPart)
    BY <1>2, <1>3, StageAfter
  <2>9. R[k + 1].sent = IF parser.kind = "none" THEN R[k].sent
                        ELSE Append(R[k].sent, [kind |-> parser.kind, bytes |-> cut.before])
    BY Zenon, <1>11, <2>5, <2>6, <2>7, <2>8 DEF PartRead
  <2>10. AgreesWith(parts, R[k].sent) /\ Len(parts) = Len(R[k].sent)
    BY Zenon, <1>11, AgreeIs DEF Up
  <2>11. PICK more : more = R[k + 1].sent
    OBVIOUS
  <2>12. AgreesWith(parts', more) /\ Len(parts') = Len(more)
         /\ (parser.kind # "none" => parts'[Len(parts')].bytes = <<>>)
    <3>1. CASE parser.kind = "none"
      BY Zenon, <2>1, <2>9, <2>10, <2>11, <3>1
    <3>2. CASE parser.kind # "none"
      <4>1. parser.kind \in {"file", "field"}
        BY <1>1, <3>2 DEF ParserState
      <4>2. PICK p : p = [kind |-> parser.kind, bytes |-> cut.before]
        OBVIOUS
      <4>3. p \in SentPart /\ p.kind = parser.kind
        BY <2>7, <4>1, <4>2 DEF SentPart, IsCut
      <4>4. parts' = Append(parts, [kind |-> parser.kind, bytes |-> <<>>, state |-> "open"])
        BY Zenon, <2>1, <3>2
      <4>5. Behind(parts', parts, p.kind)
        <5>1. Behind(parts', parts, parser.kind)
          BY <1>1, <4>1, <4>4, PartOpened
        <5>2. QED BY Zenon, <4>3, <5>1
      <4>6. more = Append(R[k].sent, p)
        BY Zenon, <2>9, <2>11, <3>2, <4>2
      <4>7. AgreesWith(parts', Append(R[k].sent, p)) /\ Len(parts') = Len(Append(R[k].sent, p))
        BY <1>1, <2>8, <2>10, <4>3, <4>5, OpenedAgrees
      <4>8. QED BY Zenon, <4>5, <4>6, <4>7 DEF Behind
    <3>3. QED BY <3>1, <3>2
  <2>13. Up(R[k + 1].sent)'
    BY Zenon, <2>11, <2>12 DEF Up, Agree, AgreesWith
  <2>14. SubSeq(c, 1, 0) = <<>> /\ Len(<<>>) = 0 /\ 0 <= 0 /\ 0 <= Len(c) /\ 0 + 1 = 1 /\ 0 + 0 = 0
    <3>1. SubSeq(c, 1, 0) = <<>>
      BY <2>6
    <3>2. Len(c) \in Nat
      BY <2>6
    <3>3. QED BY <3>1, <3>2
  <2>15. HasRead(c)'
    BY Zenon, <2>3, <2>12, <2>14 DEF HasRead
  <2>16. InContent(c)'
    <3>1. From(c, 1) = c
      BY <2>6, FromFirst
    <3>2. \A i \in Delimiters(c, Delim) : i > 0
      <4>1. IsNeedle(Delim)
        BY NeedleIs DEF Needles
      <4>2. Delimiters(c, Delim) \subseteq Nat \ {0}
        BY <2>6, <4>1, DelimitersAre
      <4>3. QED BY <4>2
    <3>3. parser'.head = <<>> /\ parser'.size = 0 /\ ~parser'.matched
      BY Zenon, <1>11, <2>3
    <3>4. parser'.size + Len(parser'.head) = 0
      BY Zenon, <2>14, <3>3
    <3>5. QED BY Zenon, <2>6, <2>14, <3>1, <3>2, <3>3, <3>4 DEF InContent
  <2>17. InPart(R, k)'
    <3>1. "body" # "end"
      OBVIOUS
    <3>2. QED BY Zenon, <1>11, <2>3, <2>5, <2>6, <2>13, <2>15, <2>16, <3>1 DEF InPart
  <2>18. parser'.at \in {"body", "end"}
    BY <2>3
  <2>19. QED BY Zenon, <1>3, <1>5, <2>17, <2>18, PlacedIn
<1>15. QED BY Zenon, <1>6, <1>8, <1>9, <1>10, <1>13, <1>14, HeaderCases

\* What stands between the content of a part and the parser.
Between(c, size, n) ==
  /\ size \in Nat /\ n \in Nat /\ size <= n /\ n <= Len(c)
  /\ parser.size = size /\ parser.head = SubSeq(c, size + 1, n)
  /\ Clear(c, n, Delim)
  /\ parser.matched => Occurs(c, n + 1, Delim) /\ n + Retain <= Len(c) /\ Rest = From(c, n + Retain + 1)
  /\ ~parser.matched => n = size /\ Rest = From(c, n + 1)

LEMMA ContentIs ==
  ASSUME PartTypesOK, NEW c \in Seq(Byte), InContent(c)
  PROVE  \E size, n : Between(c, size, n) /\ Len(parser.head) = n - size
<1>1. parser \in ParserState
  BY DEF PartTypesOK
<1>2. PICK size \in Nat, head \in Seq(Byte) : size = parser.size /\ head = parser.head
  BY <1>1 DEF ParserState
<1>3. PICK h \in Nat : h = Len(head)
  BY <1>2
<1>4. PICK n \in Nat : n = size + h /\ size <= n /\ h = n - size /\ (h = 0 => n = size)
  BY <1>2, <1>3
<1>5. n <= Len(c) /\ head = SubSeq(c, size + 1, n) /\ \A i \in Delimiters(c, Delim) : i > n
  BY Zenon, <1>2, <1>3, <1>4 DEF InContent
<1>6. IsNeedle(Delim)
  BY NeedleIs DEF Needles
<1>7. Clear(c, n, Delim)
  <2>1. \A i : i \in Delimiters(c, Delim) <=> IsDelimiter(c, i, Delim)
    BY <1>6, DelimitersAre
  <2>2. QED BY Zenon, <1>5, <2>1 DEF Clear
<1>8. ASSUME parser.matched
      PROVE  Occurs(c, n + 1, Delim) /\ n + Retain <= Len(c) /\ Rest = From(c, n + Retain + 1)
  <2>1. n + Retain <= Len(c) /\ SubSeq(c, n + 1, n + Retain) = Delim /\ Rest = From(c, n + Retain + 1)
    BY Zenon, <1>2, <1>3, <1>4, <1>8 DEF InContent
  <2>2. PICK l \in Nat : l = Len(c)
    OBVIOUS
  <2>3. n + 5 <= l
    BY Zenon, <2>1, <2>2, Bounds
  <2>4. n + 1 \in 1..((l - 5) + 1) /\ ((n + 1) + 5) - 1 = n + 5 /\ n + 1 \in Nat \ {0}
    BY <2>3
  <2>5. n + 1 \in 1..((Len(c) - Len(Delim)) + 1) /\ SubSeq(c, n + 1, ((n + 1) + Len(Delim)) - 1) = Delim
    BY Zenon, <2>1, <2>2, <2>4, DelimIs
  <2>6. Occurs(c, n + 1, Delim)
    BY <1>6, <2>4, <2>5, OccursIs
  <2>7. QED BY <2>1, <2>6
<1>9. ASSUME ~parser.matched  PROVE n = size /\ Rest = From(c, n + 1)
  <2>1. parser.head = <<>> /\ Rest = From(c, n + 1)
    BY Zenon, <1>2, <1>3, <1>4, <1>9 DEF InContent
  <2>2. Len(<<>>) = 0
    OBVIOUS
  <2>3. QED BY Zenon, <1>2, <1>3, <1>4, <2>1, <2>2
<1>10. Between(c, size, n)
  BY Zenon, <1>2, <1>4, <1>5, <1>7, <1>8, <1>9 DEF Between
<1>11. QED BY Zenon, <1>2, <1>3, <1>4, <1>10

LEMMA InContentNow ==
  ASSUME NEW c \in Seq(Byte), NEW size \in Nat, NEW n \in Nat, size <= n, n <= Len(c),
         parser'.size = size, parser'.head = SubSeq(c, size + 1, n), Clear(c, n, Delim),
         parser'.matched => Occurs(c, n + 1, Delim) /\ Rest' = From(c, n + Retain + 1),
         ~parser'.matched => n = size /\ Rest' = From(c, n + 1)
  PROVE  InContent(c)'
<1>1. IsNeedle(Delim)
  BY NeedleIs DEF Needles
<1>2. PICK h \in Seq(Byte) : h = SubSeq(c, size + 1, n) /\ Len(h) = n - size
  <2>1. IsSlice(SubSeq(c, size + 1, n), c, size + 1, n)
    <3>1. size + 1 \in Nat \ {0}
      OBVIOUS
    <3>2. QED BY <3>1, SliceHas
  <2>2. PICK h : h = SubSeq(c, size + 1, n)
    OBVIOUS
  <2>3. h \in Seq(Byte) /\ Len(h) = IF size + 1 <= n THEN (n + 1) - (size + 1) ELSE 0
    BY Zenon, <2>1, <2>2 DEF IsSlice
  <2>4. Len(h) = n - size
    BY <2>3
  <2>5. QED BY Zenon, <2>2, <2>3, <2>4
<1>3. size + (n - size) = n
  OBVIOUS
<1>4. parser'.head = h /\ parser'.size + Len(parser'.head) = n
  BY Zenon, <1>2, <1>3
<1>5. \A i \in Delimiters(c, Delim) : i > n
  <2>1. /\ Delimiters(c, Delim) \subseteq Nat \ {0}
        /\ \A i : i \in Delimiters(c, Delim) <=> IsDelimiter(c, i, Delim)
    BY <1>1, DelimitersAre
  <2>2. QED BY Zenon, <2>1 DEF Clear
<1>6. ASSUME parser'.matched  PROVE n + Retain <= Len(c) /\ SubSeq(c, n + 1, n + Retain) = Delim
  <2>1. Occurs(c, n + 1, Delim) /\ n + 1 \in Nat \ {0}
    BY <1>6
  <2>2. n + 1 \in 1..((Len(c) - Len(Delim)) + 1) /\ SubSeq(c, n + 1, ((n + 1) + Len(Delim)) - 1) = Delim
    BY <1>1, <2>1, OccursIs
  <2>3. PICK l \in Nat : l = Len(c)
    OBVIOUS
  <2>4. n + 1 \in 1..((l - 5) + 1)
    BY Zenon, <2>2, <2>3, DelimIs
  <2>5. n + 5 <= l /\ ((n + 1) + 5) - 1 = n + 5
    BY <2>4
  <2>6. QED BY Zenon, <2>2, <2>3, <2>5, DelimIs
<1>7. ASSUME ~parser'.matched  PROVE parser'.head = <<>>
  <2>1. n = size
    BY <1>7
  <2>2. SubSeq(c, n + 1, n) = <<>>
    BY <2>1
  <2>3. QED BY Zenon, <2>1, <2>2
<1>8. QED BY Zenon, <1>4, <1>5, <1>6, <1>7 DEF InContent

\* Clear bytes, and behind them clear bytes.
LEMMA ClearJoined ==
  ASSUME NEW c \in Seq(Byte), NEW n \in Nat, n <= Len(c), NEW m \in Nat, NEW needle, IsNeedle(needle),
         Clear(c, n, needle), Clear(From(c, n + 1), m, needle)
  PROVE  Clear(c, n + m, needle)
<1>1. ASSUME NEW i \in Nat \ {0}, IsDelimiter(c, i, needle)  PROVE i > n + m
  <2>1. i > n
    BY <1>1 DEF Clear
  <2>2. PICK j \in Nat \ {0} : j = i - n /\ n + j = i
    BY <2>1
  <2>3. IsDelimiter(From(c, n + 1), j, needle)
    BY <1>1, <2>2, DelimiterRest
  <2>4. j > m
    BY <2>3 DEF Clear
  <2>5. QED BY <2>2, <2>4
<1>2. QED BY <1>1 DEF Clear

LEMMA EmittedFields ==
  ASSUME NEW p \in ParserState, NEW chunk \in Seq(Byte), Emitted(chunk, p)
  PROVE  /\ parser'.at = p.at /\ parser'.matched = p.matched /\ parser'.head = p.head
         /\ parser'.kind = p.kind /\ parser'.closed = p.closed /\ parser'.size = p.size + Len(chunk)
<1>1. PICK size, total : size = p.size + Len(chunk) /\ parser' = [p EXCEPT !.size = size, !.total = total]
  BY Zenon DEF Emitted
<1>2. QED BY <1>1 DEF ParserState

\* The chunk that comes next of the content: what is handed out of the part is
\* the more.
LEMMA ChunkPlaced ==
  ASSUME PartTypesOK, PartAtHand, parser.at = "body", consumer \notin {"holding", "gone"}, body' = body,
         NEW R, R = Reading(body), Stages(R, body), NEW k \in 0..Len(body), InPart(R, k),
         NEW c \in Seq(Byte), c = Content(R[k].rest),
         NEW chunk \in Seq(Byte), NEW size \in Nat, parser.size = size, NEW m \in Nat, m = size + Len(chunk),
         m <= Len(c), chunk = SubSeq(c, size + 1, m), Clear(c, m, Delim),
         NEW p \in ParserState, p.size = size, p.kind = parser.kind, p.returned = parser.returned,
         p.at \in {"body", "end"}, Emitted(chunk, p),
         p.at = "body" => InContent(c)', p.at = "end" => AtEnd(c)'
  PROVE  Placed'
<1>1. parser'.at = p.at /\ parser'.kind = parser.kind /\ parser'.size = m
  BY Zenon, EmittedFields
<1>2. /\ R[k].kind = "next" /\ EmptyLine(R[k].rest) # 0 /\ Up(R[k + 1].sent)
      /\ parser.kind = Kind(R[k].rest) /\ HasRead(c)
  BY Zenon DEF InPart
<1>3. parts \in Seq(PartState) /\ consumer \in {"holding", "reading", "draining", "skipping", "gone"}
  BY DEF PartTypesOK
<1>4. /\ PartRead(R[k], R[k + 1]) /\ R[k].sent \in Seq(SentPart) /\ R[k + 1].sent \in Seq(SentPart)
  <2>1. body \in Seq(Byte)
    BY RestTyped
  <2>2. QED BY <2>1, StageAfter
<1>5. PICK more \in Seq(SentPart) : more = R[k + 1].sent
  BY Zenon, <1>4
<1>6. AgreesWith(parts, more) /\ Len(parts) = Len(more)
  BY Zenon, <1>2, <1>5, AgreeIs DEF Up
<1>7. size <= m
  <2>1. Len(chunk) \in Nat
    OBVIOUS
  <2>2. QED BY <2>1
<1>8. CASE consumer = "reading"
  <2>1. parts # <<>> /\ p.kind # "none" /\ parts[Len(parts)].state = "open"
    BY Zenon, <1>8, EmittedTyped
  <2>2. parts' = [parts EXCEPT ![Len(parts)].bytes = @ \o chunk]
    BY Zenon, <1>8 DEF Emitted
  <2>3. /\ SameButLast(parts, parts') /\ parts'[Len(parts)].state = "open"
        /\ parts'[Len(parts)].bytes = parts[Len(parts)].bytes \o chunk
    BY Zenon, <1>3, <2>1, <2>2, PartGrows
  <2>4. parts[Len(parts)].bytes = SubSeq(c, 1, size)
    BY Zenon, <1>2, <1>8, <2>1 DEF HasRead
  <2>5. parts'[Len(parts)].bytes = SubSeq(c, 1, m)
    <3>1. SubSeq(c, 1, size) \o SubSeq(c, size + 1, m) = SubSeq(c, 1, m)
      <4>1. 1 \in Nat \ {0} /\ 1 <= size + 1
        OBVIOUS
      <4>2. QED BY <1>7, <4>1, SlicesMeet
    <3>2. QED BY Zenon, <2>3, <2>4, <3>1
  <2>6. PICK cut : cut = Cut(c, Delim) /\ IsCut(cut, c) /\ m <= Len(cut.before)
    <3>1. IsNeedle(Delim)
      BY NeedleIs DEF Needles
    <3>2. QED BY <3>1, CutTyped, ClearBefore
  <2>7. more[Len(parts)].bytes = cut.before
    <3>1. more = Append(R[k].sent, [kind |-> parser.kind, bytes |-> cut.before])
      BY Zenon, <1>2, <1>4, <1>5, <2>1, <2>6 DEF PartRead
    <3>2. PICK e : e = [kind |-> parser.kind, bytes |-> cut.before]
      OBVIOUS
    <3>3. more = Append(R[k].sent, e)
      BY Zenon, <3>1, <3>2
    <3>4. more[Len(more)] = e
      <4>1. PICK old : old \in Seq(SentPart) /\ old = R[k].sent
        BY Zenon, <1>4
      <4>2. Len(old) \in Nat /\ Len(Append(old, e)) = Len(old) + 1 /\ Append(old, e)[Len(old) + 1] = e
        BY <4>1
      <4>3. QED BY Zenon, <3>3, <4>1, <4>2
    <3>5. e.bytes = cut.before
      BY <3>2
    <3>6. QED BY Zenon, <1>6, <3>4, <3>5
  <2>8. IsPrefix(SubSeq(c, 1, m), cut.before)
    <3>1. PICK l \in Nat : l = Len(cut.before) /\ l <= Len(c) /\ cut.before = SubSeq(c, 1, l)
      <4>1. PICK b : b = cut.before
        OBVIOUS
      <4>2. b \in Seq(Byte) /\ Len(b) <= Len(c) /\ b = SubSeq(c, 1, Len(b))
        BY Zenon, <2>6, <4>1 DEF IsCut
      <4>3. Len(b) \in Nat
        BY <4>2
      <4>4. QED BY Zenon, <4>1, <4>2, <4>3
    <3>2. m <= l
      BY Zenon, <2>6, <3>1
    <3>3. IsPrefix(SubSeq(c, 1, m), SubSeq(c, 1, l))
      BY <3>1, <3>2, PrefixOfSlice
    <3>4. QED BY Zenon, <3>1, <3>3
  <2>9. AgreesWith(parts', more) /\ Len(parts') = Len(more)
    <3>1. IsPrefix(parts'[Len(parts)].bytes, more[Len(parts)].bytes)
      BY Zenon, <2>5, <2>7, <2>8
    <3>2. parts'[Len(parts)].state # "whole"
      BY <2>3
    <3>3. QED BY Zenon, <1>3, <1>5, <1>6, <2>3, <3>1, <3>2, LastAgrees
  <2>10. Up(R[k + 1].sent)'
    BY Zenon, <1>5, <2>9 DEF Up, Agree, AgreesWith
  <2>11. HasRead(c)'
    <3>1. Len(SubSeq(c, 1, m)) = m /\ m <= m
      OBVIOUS
    <3>2. Len(parts') = Len(parts)
      BY Zenon, <2>3 DEF SameButLast
    <3>3. QED BY Zenon, <1>1, <2>5, <3>1, <3>2 DEF HasRead
  <2>12. InPart(R, k)'
    BY Zenon, <1>1, <1>2, <2>10, <2>11 DEF InPart
  <2>13. QED BY Zenon, <1>1, <2>12, PlacedIn
<1>9. CASE consumer # "reading"
  <2>1. parts' = parts /\ consumer' = consumer
    BY Zenon, <1>9 DEF Emitted
  <2>2. Up(R[k + 1].sent)'
    BY Zenon, <1>5, <1>6, <2>1 DEF Up, Agree, AgreesWith
  <2>3. HasRead(c)'
    <3>1. PICK bytes : bytes = parts[Len(parts)].bytes /\ bytes = parts'[Len(parts')].bytes
      BY Zenon, <2>1
    <3>2. CASE parser.kind = "none"
      BY Zenon, <1>1, <3>2 DEF HasRead
    <3>3. CASE parser.kind # "none"
      <4>1. Len(bytes) <= size /\ bytes = SubSeq(c, 1, Len(bytes))
        BY Zenon, <1>2, <3>1, <3>3 DEF HasRead
      <4>2. Len(bytes) <= m
        <5>1. parts # <<>>
          <6>1. parser.at \in {"body", "end"}
            OBVIOUS
          <6>2. QED BY Zenon, <3>3, <6>1 DEF PartAtHand
        <5>2. parts[Len(parts)] \in PartState
          BY <1>3, <5>1
        <5>3. Len(bytes) \in Nat
          BY <3>1, <5>2 DEF PartState
        <5>4. PICK l \in Nat : l = Len(bytes) /\ l <= size
          BY Zenon, <4>1, <5>3
        <5>5. l <= m
          BY <1>7, <5>4
        <5>6. QED BY Zenon, <5>4, <5>5
      <4>3. consumer' \notin {"holding", "reading"}
        BY <1>9, <2>1
      <4>4. QED BY Zenon, <1>1, <3>1, <4>1, <4>2, <4>3 DEF HasRead
    <3>4. QED BY <3>2, <3>3
  <2>4. InPart(R, k)'
    BY Zenon, <1>1, <1>2, <2>2, <2>3 DEF InPart
  <2>5. QED BY Zenon, <1>1, <2>4, PlacedIn
<1>10. QED BY <1>8, <1>9

LEMMA ScanPlaced ==
  ASSUME PartTypesOK, PartAtHand, BufferInv, Placed, ScanBody
  PROVE  Placed'
<1>1. /\ parser \in ParserState /\ parser.eof \in BOOLEAN
      /\ parser.at = "body" /\ ~parser.starving /\ consumer \notin {"holding", "gone"}
  <2>1. parser \in ParserState
    BY DEF PartTypesOK
  <2>2. parser.eof \in BOOLEAN
    BY <2>1 DEF ParserState
  <2>3. Stepping("body")
    BY Zenon DEF ScanBody
  <2>4. QED BY <2>1, <2>2, <2>3 DEF Stepping, Running
<1>2. Rest \in Seq(Byte) /\ buffer \in Seq(Byte) /\ wire \in Seq(Byte) /\ body \in Seq(Byte)
  BY RestTyped
<1>3. PICK R : R = Reading(body) /\ Stages(R, body)
  BY <1>2, ReadingIs
<1>4. PICK k \in 0..Len(body) : InPart(R, k)
  <2>1. parser.at \in {"body", "end"}
    BY <1>1
  <2>2. QED BY Zenon, <1>3, <2>1 DEF Placed
<1>5. UNCHANGED <<body, wire>>
  BY Zenon DEF ScanBody
<1>6. PICK c \in Seq(Byte) : c = Content(R[k].rest)
  <2>1. R[k].rest \in Seq(Byte)
    BY <1>2, <1>3, StageAfter
  <2>2. EmptyLine(R[k].rest) # 0
    BY Zenon, <1>4 DEF InPart
  <2>3. Content(R[k].rest) \in Seq(Byte)
    BY <2>1, <2>2, ContentShorter
  <2>4. QED BY Zenon, <2>3
<1>7. PICK size, n : Between(c, size, n)
  <2>1. InContent(c)
    BY Zenon, <1>1, <1>4, <1>6 DEF InPart
  <2>2. QED BY <2>1, ContentIs
<1>8. /\ size \in Nat /\ n \in Nat /\ size <= n /\ n <= Len(c)
      /\ parser.size = size /\ parser.head = SubSeq(c, size + 1, n)
      /\ Clear(c, n, Delim)
  BY Zenon, <1>7 DEF Between
<1>9. PICK x : x = Suffix(buffer, parser.eof) /\ SuffixFits(x, buffer, parser.eof)
  BY <1>1, <1>2, SuffixIs
<1>10. /\ x.used \in Nat /\ x.used <= Len(buffer)
       /\ x.kind \in {"more", "false"} => x.used = 0
  BY Zenon, <1>9 DEF SuffixFits
<1>11. x.kind # "more" => Suffix(Rest, TRUE) = x
  <2>1. parser.eof => wire = <<>>
    BY Zenon, <1>1 DEF BufferInv
  <2>2. x.kind # "more" => Suffix(buffer \o wire, TRUE) = Suffix(buffer, parser.eof)
    BY <1>1, <1>2, <1>9, <2>1, SuffixKept
  <2>3. QED BY Zenon, <1>9, <2>2 DEF Rest
<1>12. ASSUME NEW u \in Nat, u <= Len(buffer), NEW p, NEW chunk, Scans(chunk, p, u)
       PROVE  Rest' = From(Rest, u + 1) /\ u <= Len(Rest) /\ Rest' \in Seq(Byte)
  BY Zenon, <1>12, RestAfter DEF Scans
<1>13. From(Rest, 0 + 1) = Rest /\ 0 \in Nat /\ 0 <= Len(buffer)
  BY <1>2, FromFirst
<1>14. PICK found : found = IndexOf(buffer, Delim) /\ found \in Nat
  <2>1. IsNeedle(Delim)
    BY NeedleIs DEF Needles
  <2>2. QED BY <1>2, <2>1, IndexIs DEF IsFirst
<1>15. Delim \in Needles /\ Len(Delim) = 5 /\ Retain = 5 /\ IsNeedle(Delim) /\ Delim \in Seq(Byte)
  BY DelimIs, NeedleIs DEF Needles
\* What is refused fails.
<1>16. ASSUME NEW p \in ParserState, NEW chunk, NEW u, Scans(chunk, p, u), ~Emitted(chunk, p)
       PROVE  Placed'
  <2>1. Refused(chunk, p)
    BY Zenon, <1>16, EmitIs DEF Scans
  <2>2. parser'.at = "failed"
    BY Zenon, <2>1, RefusedIs
  <2>3. QED BY Zenon, <1>3, <1>5, <2>2, PlacedIn
\* The bytes up to the position of the parser are clear.
<1>17. Clear(c, size, Delim) /\ <<>> \in Seq(Byte) /\ size = size + Len(<<>>) /\ size <= Len(c)
       /\ SubSeq(c, size + 1, size) = <<>>
  <2>1. Clear(c, size, Delim)
    <3>1. \A i \in Nat : i > n => i > size
      BY <1>8
    <3>2. QED BY Zenon, <1>8, <3>1 DEF Clear, IsDelimiter
  <2>2. size <= Len(c)
    <3>1. PICK l \in Nat : l = Len(c)
      OBVIOUS
    <3>2. QED BY <1>8, <3>1
  <2>3. SubSeq(c, size + 1, size) = <<>> /\ size = size + Len(<<>>)
    BY <1>8
  <2>4. QED BY <2>1, <2>2, <2>3
<1>18. CASE ScanMore(x)
  <2>1. PICK p : p = [parser EXCEPT !.starving = TRUE]
    OBVIOUS
  <2>2. /\ p \in ParserState /\ p.size = size /\ p.kind = parser.kind /\ p.returned = parser.returned
        /\ p.at = "body" /\ p.at # "end" /\ p.at \in {"body", "end"} /\ p.matched = parser.matched /\ p.head = parser.head
    BY <1>1, <1>8, <2>1 DEF ParserState
  <2>3. Scans(<<>>, p, 0) /\ parser.matched
    <3>1. Scans(<<>>, p, x.used) /\ x.used = 0 /\ parser.matched
      BY Zenon, <1>10, <1>18, <2>1 DEF ScanMore
    <3>2. QED BY Zenon, <3>1
  <2>4. CASE Emitted(<<>>, p)
    <3>1. parser'.matched = parser.matched /\ parser'.head = parser.head /\ parser'.size = size
      BY Zenon, <1>17, <2>2, <2>4, EmittedFields
    <3>2. Rest' = Rest
      BY Zenon, <1>10, <1>12, <1>13, <2>3
    <3>3. InContent(c)'
      <4>1. Occurs(c, n + 1, Delim) /\ Rest' = From(c, n + Retain + 1)
        BY Zenon, <1>7, <2>3, <3>2 DEF Between
      <4>2. parser'.matched /\ parser'.size = size /\ parser'.head = SubSeq(c, size + 1, n)
        BY Zenon, <1>8, <2>3, <3>1
      <4>3. QED BY Zenon, <1>8, <4>1, <4>2, InContentNow
    <3>4. QED BY Zenon, <1>1, <1>3, <1>4, <1>5, <1>6, <1>8, <1>17, <2>2, <2>4, <3>3, ChunkPlaced
  <2>5. QED BY Zenon, <1>16, <2>2, <2>3, <2>4
<1>19. CASE ScanEnds(x)
  <2>1. PICK closed \in BOOLEAN : closed = (x.kind = "close")
    OBVIOUS
  <2>2. PICK p : p = [parser EXCEPT !.at = "end", !.matched = FALSE, !.head = <<>>, !.closed = closed]
    OBVIOUS
  <2>3. /\ p \in ParserState /\ p.size = size /\ p.kind = parser.kind /\ p.returned = parser.returned
        /\ p.at = "end" /\ p.at # "body" /\ p.at \in {"body", "end"} /\ ~p.matched /\ p.head = <<>> /\ p.closed = closed
    BY <1>1, <1>8, <1>17, <2>2 DEF ParserState
  <2>4. Scans(parser.head, p, x.used) /\ parser.matched /\ x.kind \in {"close", "next"}
    BY Zenon, <1>19, <2>1, <2>2 DEF ScanEnds
  <2>5. PICK chunk \in Seq(Byte) : chunk = parser.head /\ chunk = SubSeq(c, size + 1, n) /\ n = size + Len(chunk)
    <3>1. parser.head \in Seq(Byte)
      BY <1>1 DEF ParserState
    <3>2. IsSlice(SubSeq(c, size + 1, n), c, size + 1, n)
      <4>1. size + 1 \in Nat \ {0}
        BY <1>8
      <4>2. QED BY <1>8, <4>1, SliceHas
    <3>3. Len(parser.head) = IF size + 1 <= n THEN (n + 1) - (size + 1) ELSE 0
      BY Zenon, <1>8, <3>2 DEF IsSlice
    <3>4. n = size + Len(parser.head)
      BY <1>8, <3>3
    <3>5. QED BY Zenon, <1>8, <3>1, <3>4
  <2>6. CASE Emitted(chunk, p)
    <3>1. parser'.size = n /\ ~parser'.matched /\ parser'.head = <<>> /\ parser'.closed = closed
      BY Zenon, <2>3, <2>5, <2>6, EmittedFields
    <3>2. Rest' = From(Rest, x.used + 1)
      BY Zenon, <1>10, <1>12, <2>4
    <3>3. Occurs(c, n + 1, Delim) /\ Rest = From(c, n + Retain + 1)
      BY Zenon, <1>7, <2>4 DEF Between
    <3>4. x.kind # "more" /\ x.kind # "false"
      BY <2>4
    <3>5. PICK i \in Nat \ {0} : i = n + 1 /\ i - 1 = n /\ i + 5 = n + 5 + 1
      BY <1>8
    <3>6. Rest = From(c, i + Len(Delim))
      BY Zenon, <1>15, <3>3, <3>5
    <3>7. IsDelimiter(c, i, Delim)
      BY Zenon, <1>11, <3>3, <3>4, <3>5, <3>6 DEF IsDelimiter
    <3>8. CutAtDelimiter(Cut(c, Delim), c, i, Delim)
      <4>1. Clear(c, i - 1, Delim)
        BY Zenon, <1>8, <3>5
      <4>2. QED BY <1>15, <3>7, <4>1, CutHere
    <3>9. PICK cut : cut = Cut(c, Delim)
      OBVIOUS
    <3>10. cut = [before |-> SubSeq(c, 1, n), kind |-> x.kind, rest |-> From(Rest, x.used + 1)]
      BY Zenon, <1>11, <3>4, <3>5, <3>6, <3>8, <3>9 DEF CutAtDelimiter
    <3>11. cut.before = SubSeq(c, 1, n) /\ cut.kind = x.kind /\ cut.rest = Rest'
      BY Zenon, <3>2, <3>10
    <3>12. Len(cut.before) = n
      <4>1. Len(SubSeq(c, 1, n)) = n
        BY <1>8
      <4>2. QED BY Zenon, <3>11, <4>1
    <3>13. x.kind = IF closed THEN "close" ELSE "next"
      BY <2>1, <2>4
    <3>14. AtEnd(c)'
      BY Zenon, <3>1, <3>9, <3>11, <3>12, <3>13 DEF AtEnd
    <3>15. QED BY Zenon, <1>1, <1>3, <1>4, <1>5, <1>6, <1>8, <2>3, <2>5, <2>6, <3>14, ChunkPlaced
  <2>7. QED BY Zenon, <1>16, <2>3, <2>4, <2>5, <2>6
<1>20. CASE ScanFalse(x)
  <2>1. PICK p : p = [parser EXCEPT !.matched = FALSE, !.head = <<>>]
    OBVIOUS
  <2>2. /\ p \in ParserState /\ p.size = size /\ p.kind = parser.kind /\ p.returned = parser.returned
        /\ p.at = "body" /\ p.at # "end" /\ p.at \in {"body", "end"} /\ ~p.matched /\ p.head = <<>>
    BY <1>1, <1>8, <1>17, <2>1 DEF ParserState
  <2>3. Scans(parser.head \o Delim, p, 0) /\ parser.matched /\ x.kind = "false"
    <3>1. Scans(parser.head \o Delim, p, x.used) /\ parser.matched /\ x.kind = "false" /\ x.used = 0
      BY Zenon, <1>10, <1>20, <2>1 DEF ScanFalse
    <3>2. QED BY Zenon, <3>1
  <2>4. Occurs(c, n + 1, Delim) /\ n + Retain <= Len(c) /\ Rest = From(c, n + Retain + 1)
    BY Zenon, <1>7, <2>3 DEF Between
  <2>5. PICK m \in Nat : m = n + Retain /\ m = n + Len(Delim) /\ m <= Len(c) /\ n <= m /\ size <= n + 1 /\ size <= m
    <3>1. PICK m \in Nat : m = n + 5 /\ n <= m /\ size <= n + 1 /\ size <= m
      BY <1>8
    <3>2. QED BY Zenon, <1>15, <2>4, <3>1
  <2>6. PICK chunk \in Seq(Byte) : chunk = parser.head \o Delim /\ chunk = SubSeq(c, size + 1, m) /\ m = size + Len(chunk)
    <3>1. parser.head \in Seq(Byte)
      BY <1>1 DEF ParserState
    <3>2. parser.head \o Delim \in Seq(Byte)
      BY Zenon, <1>15, <3>1, Both
    <3>3. SubSeq(c, n + 1, m) = Delim
      <4>1. n + 1 \in Nat \ {0}
        BY <1>8
      <4>2. SubSeq(c, n + 1, ((n + 1) + Len(Delim)) - 1) = Delim
        BY <1>15, <2>4, <4>1, OccursIs
      <4>3. ((n + 1) + 5) - 1 = n + 5
        BY <1>8
      <4>4. QED BY Zenon, <1>15, <2>5, <4>2, <4>3
    <3>4. SubSeq(c, size + 1, n) \o SubSeq(c, n + 1, m) = SubSeq(c, size + 1, m)
      <4>1. size + 1 \in Nat \ {0} /\ size + 1 <= n + 1
        BY <1>8
      <4>2. QED BY <1>8, <2>5, <4>1, SlicesMeet
    <3>5. parser.head \o Delim = SubSeq(c, size + 1, m)
      BY Zenon, <1>8, <3>3, <3>4
    <3>6. IsSlice(SubSeq(c, size + 1, m), c, size + 1, m)
      <4>1. size + 1 \in Nat \ {0}
        BY <1>8
      <4>2. QED BY <2>5, <4>1, SliceHas
    <3>7. Len(parser.head \o Delim) = IF size + 1 <= m THEN (m + 1) - (size + 1) ELSE 0
      BY Zenon, <3>5, <3>6 DEF IsSlice
    <3>8. PICK d \in Seq(Byte) : d = parser.head \o Delim
      BY Zenon, <3>2
    <3>9. Len(d) = IF size + 1 <= m THEN (m + 1) - (size + 1) ELSE 0
      BY Zenon, <3>7, <3>8
    <3>10. m = size + Len(d)
      BY <1>8, <2>5, <3>9
    <3>11. QED BY Zenon, <3>5, <3>8, <3>10
  <2>7. Clear(c, m, Delim)
    <3>1. Suffix(From(c, n + Len(Delim) + 1), TRUE).kind = "false"
      <4>1. x.kind # "more"
        BY <2>3
      <4>2. QED BY Zenon, <1>11, <1>15, <2>3, <2>4, <4>1
    <3>2. Clear(c, n + Len(Delim), Delim)
      BY <1>8, <1>15, <2>4, <3>1, ClearOver
    <3>3. QED BY Zenon, <2>5, <3>2
  <2>8. CASE Emitted(chunk, p)
    <3>1. ~parser'.matched /\ parser'.head = <<>> /\ parser'.size = m
      BY Zenon, <2>2, <2>6, <2>8, EmittedFields
    <3>2. Rest' = From(c, m + 1)
      BY Zenon, <1>10, <1>12, <1>13, <2>3, <2>4, <2>5
    <3>3. InContent(c)'
      <4>1. SubSeq(c, m + 1, m) = <<>> /\ m <= m
        OBVIOUS
      <4>2. parser'.head = SubSeq(c, m + 1, m)
        BY Zenon, <3>1, <4>1
      <4>3. QED BY Zenon, <2>5, <2>7, <3>1, <3>2, <4>1, <4>2, InContentNow
    <3>4. QED BY Zenon, <1>1, <1>3, <1>4, <1>5, <1>6, <1>8, <2>2, <2>5, <2>6, <2>7, <2>8, <3>3, ChunkPlaced
  <2>9. QED BY Zenon, <1>16, <2>2, <2>3, <2>6, <2>8
<1>21. CASE ScanFails
  <2>1. PICK u \in Nat : Scans(<<>>, Fail(parser), u)
    BY Zenon, <1>21 DEF ScanFails
  <2>2. PICK p \in ParserState : p = Fail(parser) /\ p.at = "failed"
    <3>1. Fail(parser) \in ParserState /\ Fail(parser).at = "failed"
      BY <1>1 DEF ParserState, Fail
    <3>2. QED BY Zenon, <3>1
  <2>3. CASE Emitted(<<>>, p)
    <3>1. parser'.at = "failed"
      BY Zenon, <1>17, <2>2, <2>3, EmittedFields
    <3>2. QED BY Zenon, <1>3, <1>5, <3>1, PlacedIn
  <2>4. QED BY Zenon, <1>16, <2>1, <2>2, <2>3
<1>22. ASSUME ~parser.matched  PROVE n = size /\ Rest = From(c, n + 1) /\ buffer \o wire = From(c, n + 1)
  BY Zenon, <1>7, <1>22 DEF Between, Rest
<1>23. CASE ScanFinds(found)
  <2>1. ~parser.matched /\ found # 0
    BY Zenon, <1>23 DEF ScanFinds
  <2>2. /\ Occurs(Rest, found, Delim) /\ found + Len(Delim) <= Len(buffer) + 1
        /\ Clear(Rest, found - 1, Delim)
    <3>1. /\ Occurs(buffer \o wire, found, Delim) /\ found + Len(Delim) <= Len(buffer) + 1
          /\ Clear(buffer \o wire, found - 1, Delim)
      BY <1>2, <1>14, <1>15, <2>1, ScanFound
    <3>2. QED BY Zenon, <3>1 DEF Rest
  <2>3. PICK f \in Nat : f = found - 1 /\ f + 1 = found /\ f <= Len(buffer) /\ f + 5 <= Len(buffer)
    <3>1. PICK l \in Nat : l = Len(buffer)
      BY <1>2
    <3>2. found + 5 <= l + 1
      BY Zenon, <1>15, <2>2, <3>1
    <3>3. found - 1 \in Nat /\ (found - 1) + 1 = found /\ found - 1 <= l /\ (found - 1) + 5 <= l
      BY <1>14, <2>1, <3>2
    <3>4. QED BY Zenon, <3>1, <3>3
  <2>4. SubSeq(buffer, 1, f) = SubSeq(c, n + 1, n + f) /\ n + f <= Len(c)
    <3>1. buffer \o wire = From(c, n + 1)
      BY Zenon, <1>22, <2>1
    <3>2. buffer \in Seq(Byte) /\ wire \in Seq(Byte) /\ n \in Nat /\ n <= Len(c) /\ f <= Len(buffer)
      BY Zenon, <1>2, <1>8, <2>3
    <3>3. QED BY <3>1, <3>2, SliceOfRest
  <2>5. PICK m \in Nat : m = n + f /\ m + 1 = n + found /\ n <= m
    <3>1. f \in Nat /\ found = f + 1 /\ n \in Nat
      BY Zenon, <1>8, <2>3
    <3>2. n + f \in Nat /\ (n + f) + 1 = n + found /\ n <= n + f
      BY <3>1
    <3>3. QED BY Zenon, <3>2
  <2>6. PICK head \in Seq(Byte) : head = SubSeq(c, n + 1, m)
    <3>1. IsSlice(SubSeq(c, n + 1, m), c, n + 1, m)
      <4>1. n + 1 \in Nat \ {0} /\ m <= Len(c)
        BY <1>8, <2>4, <2>5
      <4>2. QED BY <4>1, SliceHas
    <3>2. QED BY Zenon, <3>1 DEF IsSlice
  <2>7. PICK p : p = [parser EXCEPT !.matched = TRUE, !.head = head]
    OBVIOUS
  <2>8. /\ p \in ParserState /\ p.size = size /\ p.kind = parser.kind /\ p.returned = parser.returned
        /\ p.at = "body" /\ p.at # "end" /\ p.at \in {"body", "end"} /\ p.matched /\ p.head = head
    BY <1>1, <1>8, <2>7 DEF ParserState
  <2>9. PICK u \in Nat : u = f + 5 /\ u = (found + Retain) - 1 /\ u + 1 = f + 6
    <3>1. f + 5 = (found + 5) - 1
      BY <2>3
    <3>2. PICK u \in Nat : u = f + 5 /\ u + 1 = f + 6
      OBVIOUS
    <3>3. QED BY Zenon, <1>15, <3>1, <3>2
  <2>10. Scans(<<>>, p, u)
    BY Zenon, <1>23, <2>3, <2>4, <2>5, <2>6, <2>7, <2>9 DEF ScanFinds
  <2>11. CASE Emitted(<<>>, p)
    <3>1. parser'.matched /\ parser'.head = head /\ parser'.size = size
      BY Zenon, <1>17, <2>8, <2>11, EmittedFields
    <3>2. Rest' = From(c, m + Retain + 1)
      <4>1. Rest' = From(Rest, f + 6)
        BY Zenon, <1>12, <2>3, <2>9, <2>10
      <4>2. n + 1 \in Nat \ {0} /\ f + 6 \in Nat \ {0} /\ n + 1 <= Len(c) + 1
        <5>1. PICK l \in Nat : l = Len(c)
          OBVIOUS
        <5>2. n + 1 <= l + 1
          BY <1>8, <5>1
        <5>3. QED BY <1>8, <5>1, <5>2
      <4>3. From(From(c, n + 1), f + 6) = From(c, ((n + 1) + (f + 6)) - 1)
        BY <4>2, FromFrom
      <4>4. ((n + 1) + (f + 6)) - 1 = m + 5 + 1
        BY <1>8, <2>5
      <4>5. QED BY Zenon, <1>15, <1>22, <2>1, <4>1, <4>3, <4>4
    <3>3. Occurs(c, m + 1, Delim)
      <4>1. found \in Nat \ {0}
        BY <1>14, <2>1
      <4>2. Occurs(From(c, n + 1), found, Delim) <=> Occurs(c, n + found, Delim)
        BY <1>8, <1>15, <4>1, OccursRest
      <4>3. QED BY Zenon, <1>22, <2>1, <2>2, <2>5, <4>2
    <3>4. Clear(c, m, Delim)
      <4>1. Clear(From(c, n + 1), f, Delim)
        BY Zenon, <1>22, <2>1, <2>2, <2>3
      <4>2. Clear(c, n + f, Delim)
        BY <1>8, <1>15, <4>1, ClearJoined
      <4>3. QED BY Zenon, <2>5, <4>2
    <3>5. InContent(c)'
      <4>1. parser'.head = SubSeq(c, size + 1, m) /\ size <= m /\ m <= Len(c)
        BY Zenon, <1>22, <2>1, <2>4, <2>5, <2>6, <3>1
      <4>2. QED BY Zenon, <1>8, <3>1, <3>2, <3>3, <3>4, <4>1, InContentNow
    <3>6. QED BY Zenon, <1>1, <1>3, <1>4, <1>5, <1>6, <1>8, <1>17, <2>8, <2>11, <3>5, ChunkPlaced
  <2>12. QED BY Zenon, <1>16, <2>8, <2>10, <2>11
<1>24. CASE ScanPasses(found)
  <2>1. ~parser.matched /\ found = 0
    BY Zenon, <1>24 DEF ScanPasses
  <2>2. PICK p : p = [parser EXCEPT !.starving = TRUE]
    OBVIOUS
  <2>3. /\ p \in ParserState /\ p.size = size /\ p.kind = parser.kind /\ p.returned = parser.returned
        /\ p.at = "body" /\ p.at # "end" /\ p.at \in {"body", "end"} /\ p.matched = parser.matched /\ p.head = parser.head
    BY <1>1, <1>8, <2>2 DEF ParserState
  <2>4. PICK e \in Nat : e = Emptied /\ e <= Len(buffer) /\ (e # 0 => e + Retain = Len(buffer))
    BY Zenon, EmptiedIs
  <2>5. SubSeq(buffer, 1, e) = SubSeq(c, n + 1, n + e) /\ n + e <= Len(c)
    <3>1. buffer \o wire = From(c, n + 1)
      BY Zenon, <1>22, <2>1
    <3>2. buffer \in Seq(Byte) /\ wire \in Seq(Byte) /\ n \in Nat /\ n <= Len(c) /\ e <= Len(buffer)
      BY Zenon, <1>2, <1>8, <2>4
    <3>3. QED BY <3>1, <3>2, SliceOfRest
  <2>6. PICK m \in Nat : m = n + e /\ m <= Len(c)
    <3>1. n + e \in Nat
      BY <1>8
    <3>2. QED BY Zenon, <2>5, <3>1
  <2>7. PICK chunk \in Seq(Byte) : chunk = SubSeq(buffer, 1, e) /\ Len(chunk) = e
    <3>1. SubSeq(buffer, 1, e) \in Seq(Byte) /\ Len(SubSeq(buffer, 1, e)) = e
      BY <1>2, <2>4
    <3>2. QED BY Zenon, <3>1
  <2>8. chunk = SubSeq(c, size + 1, m) /\ m = size + Len(chunk)
    BY Zenon, <1>22, <2>1, <2>5, <2>6, <2>7
  <2>9. Scans(chunk, p, e)
    BY Zenon, <1>24, <2>2, <2>4, <2>7 DEF ScanPasses
  <2>10. Clear(c, m, Delim)
    <3>1. e = 0 \/ e + Len(Delim) <= Len(buffer)
      <4>1. PICK l \in Nat : l = Len(buffer)
        BY <1>2
      <4>2. e = 0 \/ e + 5 = l
        BY Zenon, <1>15, <2>4, <4>1
      <4>3. e = 0 \/ e + 5 <= l
        BY <4>2
      <4>4. QED BY Zenon, <1>15, <4>1, <4>3
    <3>2. IndexOf(buffer, Delim) = 0
      BY Zenon, <1>14, <2>1
    <3>3. Clear(buffer \o wire, e, Delim)
      BY <1>2, <1>15, <3>1, <3>2, ScanNone
    <3>4. Clear(From(c, n + 1), e, Delim)
      BY Zenon, <1>22, <2>1, <3>3
    <3>5. Clear(c, n + e, Delim)
      BY <1>8, <1>15, <3>4, ClearJoined
    <3>6. QED BY Zenon, <2>6, <3>5
  <2>11. CASE Emitted(chunk, p)
    <3>1. ~parser'.matched /\ parser'.head = parser.head /\ parser'.size = m
      BY Zenon, <2>1, <2>3, <2>8, <2>11, EmittedFields
    <3>2. Rest' = From(c, m + 1)
      <4>1. Rest' = From(Rest, e + 1)
        BY Zenon, <1>12, <2>4, <2>9
      <4>2. n + 1 \in Nat \ {0} /\ e + 1 \in Nat \ {0} /\ n + 1 <= Len(c) + 1
        <5>1. PICK l \in Nat : l = Len(c)
          OBVIOUS
        <5>2. n + 1 <= l + 1
          BY <1>8, <5>1
        <5>3. QED BY <1>8, <5>1, <5>2
      <4>3. From(From(c, n + 1), e + 1) = From(c, ((n + 1) + (e + 1)) - 1)
        BY <4>2, FromFrom
      <4>4. ((n + 1) + (e + 1)) - 1 = m + 1
        BY <1>8, <2>6
      <4>5. QED BY Zenon, <1>22, <2>1, <4>1, <4>3, <4>4
    <3>3. InContent(c)'
      <4>1. SubSeq(c, m + 1, m) = <<>> /\ m <= m
        OBVIOUS
      <4>2. parser'.head = SubSeq(c, m + 1, m)
        BY Zenon, <1>8, <1>17, <1>22, <2>1, <3>1, <4>1
      <4>3. QED BY Zenon, <2>6, <2>10, <3>1, <3>2, <4>1, <4>2, InContentNow
    <3>4. QED BY Zenon, <1>1, <1>3, <1>4, <1>5, <1>6, <1>8, <2>3, <2>6, <2>8, <2>10, <2>11, <3>3, ChunkPlaced
  <2>12. QED BY Zenon, <1>16, <2>3, <2>9, <2>11
<1>25. QED BY Zenon, <1>9, <1>14, <1>18, <1>19, <1>20, <1>21, <1>23, <1>24, ScanCases

\* The part is behind the parser: the headers of the next one follow, or nothing.
LEMMA OnwardPlaced ==
  ASSUME PartTypesOK, Placed, parser.at = "end", parser' = NextHeaders(parser),
         UNCHANGED <<body, wire, buffer, parts>>
  PROVE  Placed'
<1>1. Rest \in Seq(Byte) /\ body \in Seq(Byte) /\ parser \in ParserState
  BY RestTyped DEF PartTypesOK
<1>2. PICK R : R = Reading(body) /\ Stages(R, body)
  BY <1>1, ReadingIs
<1>3. PICK k \in 0..Len(body) : InPart(R, k)
  <2>1. parser.at \in {"body", "end"}
    OBVIOUS
  <2>2. QED BY Zenon, <1>2, <2>1 DEF Placed
<1>4. /\ R[k].kind = "next" /\ EmptyLine(R[k].rest) # 0 /\ Up(R[k + 1].sent)
      /\ AtEnd(Content(R[k].rest))
  BY Zenon, <1>3 DEF InPart
<1>5. PICK cut : cut = Cut(Content(R[k].rest), Delim)
  OBVIOUS
<1>6. /\ Rest = cut.rest /\ cut.kind = IF parser.closed THEN "close" ELSE "next"
      /\ ~parser.matched /\ parser.head = <<>>
  BY Zenon, <1>4, <1>5 DEF AtEnd
<1>7. PartRead(R[k], R[k + 1]) /\ k + 1 \in 0..(Len(body) + 1)
  BY <1>1, <1>2, StageAfter
<1>8. R[k + 1].rest = Rest /\ R[k + 1].kind = cut.kind
  BY Zenon, <1>4, <1>5, <1>6, <1>7 DEF PartRead
<1>9. /\ parser'.at = IF parser.closed THEN "done" ELSE "headers"
      /\ parser'.matched = parser.matched /\ parser'.head = parser.head
      /\ ~parser.closed => parser'.kind = "none"
  BY Zenon, <1>1, NextHeadersAre
<1>10. PICK q : q = parts /\ q = parts'
  BY Zenon
<1>11. Len(parts') = Len(R[k + 1].sent) /\ Up(R[k + 1].sent)'
  BY Zenon, <1>4, <1>10 DEF Up, Agree
<1>12. Rest' = Rest
  BY Zenon DEF Rest
<1>13. CASE parser.closed
  <2>1. R[k + 1].kind = "close" /\ parser'.at = "done"
    BY Zenon, <1>6, <1>8, <1>9, <1>13
  <2>2. R[k + 1].kind # "next"
    BY <2>1
  <2>3. Sent(body) = R[k + 1].sent
    BY Zenon, <1>1, <1>2, <1>7, <2>2, StagesLead
  <2>4. Len(parts') = Len(Sent(body))
    BY Zenon, <1>11, <2>3
  <2>5. QED BY Zenon, <1>2, <2>1, <2>4, PlacedIn
<1>14. CASE ~parser.closed
  <2>1. R[k + 1].kind = "next" /\ parser'.at = "headers" /\ parser'.kind = "none"
    BY Zenon, <1>6, <1>8, <1>9, <1>14
  <2>2. k + 1 \in 0..Len(body)
    <3>1. Len(R[k + 1].rest) + (k + 1) <= Len(body)
      BY Zenon, <1>1, <1>2, <1>7, <2>1, StageShort
    <3>2. Len(Rest) \in Nat /\ Len(body) \in Nat
      BY <1>1
    <3>3. PICK l \in Nat, n \in Nat : l = Len(Rest) /\ n = Len(body)
      BY Zenon, <3>2
    <3>4. l + (k + 1) <= n
      BY Zenon, <1>8, <3>1, <3>3
    <3>5. k \in Nat
      OBVIOUS
    <3>6. k + 1 \in 0..n
      BY <3>3, <3>4, <3>5
    <3>7. QED BY Zenon, <3>3, <3>6
  <2>3. SameHeaders(Rest', parser'.kind, R[k + 1].rest)
    <3>1. SameHeaders(Rest, "none", Rest)
      BY Zenon DEF SameHeaders
    <3>2. QED BY Zenon, <1>8, <1>12, <2>1, <3>1
  <2>4. InHeaders(R, k + 1)'
    BY Zenon, <1>6, <1>9, <1>11, <2>1, <2>3 DEF InHeaders
  <2>5. QED BY Zenon, <1>2, <2>1, <2>2, <2>4, PlacedIn
<1>15. QED BY <1>13, <1>14

LEMMA EndPlaced ==
  ASSUME PartTypesOK, PartAtHand, Placed, EndPart
  PROVE  Placed'
<1>1. /\ parser \in ParserState /\ parser.at = "end" /\ consumer \notin {"holding", "gone"}
      /\ parts \in Seq(PartState)
  <2>1. parser \in ParserState /\ parts \in Seq(PartState)
    BY DEF PartTypesOK
  <2>2. parser.at = "end" /\ consumer \notin {"holding", "gone"}
    BY DEF EndPart, Stepping, Running
  <2>3. QED BY <2>1, <2>2
<1>2. UNCHANGED <<body, wire, buffer>>
  BY Zenon DEF EndPart
<1>3. CASE consumer = "reading"
  <2>1. consumer' = "holding" /\ parser' = [parser EXCEPT !.returned = TRUE]
        /\ parts' = [parts EXCEPT ![Len(parts)].state = "whole"]
    BY Zenon, <1>3 DEF EndPart
  <2>2. /\ parser'.at = "end" /\ parser'.matched = parser.matched /\ parser'.head = parser.head
        /\ parser'.kind = parser.kind /\ parser'.size = parser.size /\ parser'.closed = parser.closed
    BY <1>1, <2>1 DEF ParserState
  <2>3. parts # <<>> /\ parser.kind # "none"
    BY Zenon, <1>1, <1>3 DEF PartAtHand
  <2>4. /\ SameButLast(parts, parts') /\ parts'[Len(parts)].state = "whole"
        /\ parts'[Len(parts)].bytes = parts[Len(parts)].bytes
    <3>1. "whole" \in {"whole", "broken"}
      OBVIOUS
    <3>2. QED BY Zenon, <1>1, <2>1, <2>3, <3>1, PartMarked
  <2>5. Len(parts') = Len(parts)
    BY Zenon, <2>4 DEF SameButLast
  <2>6. body \in Seq(Byte)
    BY RestTyped
  <2>7. PICK R : R = Reading(body) /\ Stages(R, body)
    BY <2>6, ReadingIs
  <2>8. PICK k \in 0..Len(body) : InPart(R, k)
    <3>1. parser.at \in {"body", "end"}
      BY <1>1
    <3>2. QED BY Zenon, <2>7, <3>1 DEF Placed
  <2>9. PICK c \in Seq(Byte) : c = Content(R[k].rest)
    <3>1. R[k].rest \in Seq(Byte)
      BY <2>6, <2>7, StageAfter
    <3>2. EmptyLine(R[k].rest) # 0
      BY Zenon, <2>8 DEF InPart
    <3>3. Content(R[k].rest) \in Seq(Byte)
      BY <3>1, <3>2, ContentShorter
    <3>4. QED BY Zenon, <3>3
  <2>10. /\ R[k].kind = "next" /\ EmptyLine(R[k].rest) # 0 /\ Up(R[k + 1].sent)
         /\ parser.kind = Kind(R[k].rest) /\ HasRead(c) /\ AtEnd(c)
    BY Zenon, <1>1, <2>8, <2>9 DEF InPart
  <2>11. PartRead(R[k], R[k + 1]) /\ R[k].sent \in Seq(SentPart) /\ R[k + 1].sent \in Seq(SentPart)
    BY <2>6, <2>7, StageAfter
  <2>12. PICK more \in Seq(SentPart) : more = R[k + 1].sent
    BY Zenon, <2>11
  <2>13. AgreesWith(parts, more) /\ Len(parts) = Len(more)
    BY Zenon, <2>10, <2>12, AgreeIs DEF Up
  <2>14. PICK cut : cut = Cut(c, Delim) /\ IsCut(cut, c)
    <3>1. IsNeedle(Delim)
      BY NeedleIs DEF Needles
    <3>2. QED BY <2>9, <3>1, CutTyped
  <2>15. PICK bytes \in Seq(Byte) : bytes = cut.before /\ cut.before = SubSeq(c, 1, Len(bytes))
    BY <2>14 DEF IsCut
  \* The reader has all of the content.
  <2>16. parts[Len(parts)].bytes = bytes
    <3>1. parts[Len(parts)].bytes = SubSeq(c, 1, parser.size)
      BY Zenon, <1>3, <2>3, <2>10 DEF HasRead
    <3>2. parser.size = Len(bytes)
      BY Zenon, <2>10, <2>14, <2>15 DEF AtEnd
    <3>3. QED BY Zenon, <2>15, <3>1, <3>2
  <2>17. more[Len(parts)].bytes = bytes
    <3>1. PICK e : e = [kind |-> parser.kind, bytes |-> bytes]
      OBVIOUS
    <3>2. more = Append(R[k].sent, e)
      BY Zenon, <2>3, <2>9, <2>10, <2>11, <2>12, <2>14, <2>15, <3>1 DEF PartRead
    <3>3. more[Len(more)] = e
      BY <2>11, <3>2
    <3>4. e.bytes = bytes
      BY <3>1
    <3>5. QED BY Zenon, <2>13, <3>3, <3>4
  <2>18. IsPrefix(bytes, bytes)
    <3>1. Len(bytes) <= Len(bytes) /\ SubSeq(bytes, 1, Len(bytes)) = SubSeq(bytes, 1, Len(bytes))
      BY <2>15
    <3>2. QED BY Zenon, <3>1 DEF IsPrefix
  <2>19. AgreesWith(parts', more) /\ Len(parts') = Len(more)
    <3>1. parts'[Len(parts)].bytes = more[Len(parts)].bytes
      BY Zenon, <2>4, <2>16, <2>17
    <3>2. IsPrefix(parts'[Len(parts)].bytes, more[Len(parts)].bytes)
      BY Zenon, <2>4, <2>16, <2>17, <2>18
    <3>3. QED BY Zenon, <1>1, <2>4, <2>12, <2>13, <3>1, <3>2, LastAgrees
  <2>20. Up(R[k + 1].sent)'
    BY Zenon, <2>12, <2>19 DEF Up, Agree, AgreesWith
  <2>21. HasRead(c)'
    <3>1. PICK had : had = parts[Len(parts)].bytes /\ had = parts'[Len(parts')].bytes
      BY Zenon, <2>4, <2>5
    <3>2. Len(had) <= parser.size /\ had = SubSeq(c, 1, Len(had)) /\ Len(had) = parser.size
      BY Zenon, <1>3, <2>3, <2>10, <3>1 DEF HasRead
    <3>3. QED BY Zenon, <2>2, <3>1, <3>2 DEF HasRead
  <2>22. AtEnd(c)'
    <3>1. PICK rest : rest = Rest /\ rest = Rest'
      BY Zenon, <1>2 DEF Rest
    <3>2. PICK size, closed : size = parser.size /\ closed = parser.closed
      OBVIOUS
    <3>3. parser'.size = size /\ parser'.closed = closed
      BY Zenon, <2>2, <3>2
    <3>4. QED BY Zenon, <2>2, <2>10, <3>1, <3>2, <3>3 DEF AtEnd
  <2>23. InPart(R, k)'
    <3>1. "end" # "body"
      OBVIOUS
    <3>2. QED BY Zenon, <2>2, <2>9, <2>10, <2>20, <2>21, <2>22, <3>1 DEF InPart
  <2>24. parser'.at \in {"body", "end"}
    BY <2>2
  <2>25. QED BY Zenon, <1>2, <2>7, <2>23, <2>24, PlacedIn
<1>4. CASE consumer # "reading"
  <2>1. parser' = NextHeaders(parser) /\ parts' = parts
    BY Zenon, <1>4 DEF EndPart
  <2>2. QED BY Zenon, <1>1, <1>2, <2>1, OnwardPlaced
<1>5. QED BY <1>3, <1>4

\* What the consumer does of itself: a part that it broke out of is another matter.
LEMMA ConsumerPlaced ==
  ASSUME PartTypesOK, PartAtHand, Placed, ~Broken, ReadOn \/ Advance
  PROVE  Placed'
<1>1. parts \in Seq(PartState) /\ consumer = "holding"
  <2>1. consumer = "holding"
    BY Zenon DEF ReadOn, Advance, Holding
  <2>2. QED BY <2>1 DEF PartTypesOK
<1>2. CASE ReadOn
  <2>1. UNCHANGED <<body, wire, buffer, parser, parts>>
    BY Zenon, <1>2 DEF ReadOn
  <2>2. Rest' = Rest
    BY Zenon, <2>1 DEF Rest
  <2>3. consumer \in {"holding", "reading"}
    BY <1>1
  <2>4. QED BY Zenon, <2>1, <2>2, <2>3, PlacedSame
<1>3. CASE Advance
  <2>1. UNCHANGED <<body, wire, buffer, parts>>
        /\ parser' = IF parser.at \in {"body", "end"} /\ parser.returned THEN NextHeaders(parser) ELSE parser
    BY Zenon, <1>3 DEF Advance
  <2>2. Rest' = Rest
    BY Zenon, <2>1 DEF Rest
  <2>3. CASE parser.at \in {"body", "end"} /\ parser.returned
    <3>1. parser' = NextHeaders(parser)
      BY Zenon, <2>1, <2>3
    <3>2. parts # <<>> /\ (parser.at = "body" => parts[Len(parts)].state = "broken")
      BY Zenon, <2>3 DEF PartAtHand
    <3>3. Len(parts) \in DOMAIN parts
      BY <1>1, <3>2
    <3>4. parser.at # "body"
      BY Zenon, <3>2, <3>3 DEF Broken
    <3>5. parser.at = "end"
      BY <2>3, <3>4
    <3>6. QED BY Zenon, <2>1, <3>1, <3>5, OnwardPlaced
  <2>4. CASE ~(parser.at \in {"body", "end"} /\ parser.returned)
    <3>1. parser' = parser
      BY Zenon, <2>1, <2>4
    <3>2. consumer \in {"holding", "reading"}
      BY <1>1
    <3>3. QED BY Zenon, <2>1, <2>2, <3>1, <3>2, PlacedSame
  <2>5. QED BY <2>3, <2>4
<1>4. QED BY <1>2, <1>3

LEMMA SentTyped ==
  ASSUME NEW b \in Seq(Byte)
  PROVE  \E all \in Seq(SentPart) : all = Sent(b)
<1>1. PICK R : R = Reading(b) /\ Stages(R, b)
  BY ReadingIs
<1>2. PICK n \in Nat : n = Len(b) + 1
  OBVIOUS
<1>3. R[n] \in Stage
  <2>1. R \in [0..n -> Stage]
    BY Zenon, <1>1, <1>2 DEF Stages
  <2>2. QED BY <2>1
<1>4. Sent(b) = R[n].sent
  BY Zenon, <1>1, <1>2 DEF Sent
<1>5. R[n].sent \in Seq(SentPart)
  BY <1>3 DEF Stage
<1>6. QED BY Zenon, <1>4, <1>5

\* What was handed out this far is among all that was sent.
LEMMA AgreeAhead ==
  ASSUME PartTypesOK', Placed', body' = body, body \in Seq(Byte), parser'.at \in {"body", "end"}
  PROVE  Agree(Sent(body))'
<1>1. PICK R : R = Reading(body) /\ Stages(R, body)
  BY ReadingIs
<1>2. PICK k \in 0..Len(body) : InPart(R, k)'
  <2>1. R = Reading(body')
    BY Zenon, <1>1
  <2>2. \E k \in 0..Len(body') : InPart(R, k)'
    BY Zenon, <2>1 DEF Placed
  <2>3. QED BY Zenon, <2>2
<1>3. parts' \in Seq(PartState)
  BY DEF PartTypesOK
<1>4. R[k + 1].sent \in Seq(SentPart) /\ k + 1 \in 0..(Len(body) + 1)
  BY <1>1, StageAfter
<1>5. PICK more \in Seq(SentPart) : more = R[k + 1].sent
  BY Zenon, <1>4
<1>6. AgreesWith(parts', more)
  <2>1. Up(R[k + 1].sent)'
    BY Zenon, <1>2 DEF InPart
  <2>2. QED BY Zenon, <1>5, <2>1 DEF Up, Agree, AgreesWith
<1>7. PICK all \in Seq(SentPart) : all = Sent(body)
  BY SentTyped
<1>8. Begins(more, all)
  BY Zenon, <1>1, <1>4, <1>5, <1>7, StagesLead
<1>9. AgreesWith(parts', all)
  BY <1>3, <1>6, <1>8, AgreeLonger
<1>10. QED BY Zenon, <1>7, <1>9 DEF Agree, AgreesWith

\* Handing out nothing of a part changes nothing.
LEMMA AgreeStill ==
  ASSUME NEW q \in Seq(PartState), q # <<>>, NEW r, r = [q EXCEPT ![Len(q)].bytes = @ \o <<>>],
         NEW sent, AgreesWith(q, sent)
  PROVE  AgreesWith(r, sent)
<1>1. <<>> \in Seq(Byte)
  OBVIOUS
<1>2. /\ SameButLast(q, r)
      /\ r[Len(q)].state = q[Len(q)].state /\ r[Len(q)].bytes = q[Len(q)].bytes \o <<>>
  BY <1>1, PartGrows
<1>3. PICK n \in Nat \ {0} : n = Len(q)
  BY Zenon, <1>2 DEF SameButLast
<1>4. DOMAIN q = 1..n /\ DOMAIN r = 1..n /\ n = Len(r) /\ n \in 1..n
  BY <1>2, <1>3 DEF SameButLast
<1>5. r[n].bytes = q[n].bytes
  <2>1. q[n] \in PartState
    BY <1>4
  <2>2. q[n].bytes \in Seq(Byte)
    BY <2>1 DEF PartState
  <2>3. q[n].bytes \o <<>> = q[n].bytes
    BY <2>2
  <2>4. QED BY Zenon, <1>2, <1>3, <2>3
<1>6. ASSUME NEW i \in 1..n
      PROVE  /\ r[i].kind = sent[i].kind
             /\ IsPrefix(r[i].bytes, sent[i].bytes)
             /\ r[i].state = "whole" => r[i].bytes = sent[i].bytes
  <2>1. r[i].kind = q[i].kind /\ r[i].bytes = q[i].bytes /\ r[i].state = q[i].state
    BY Zenon, <1>2, <1>3, <1>5 DEF SameButLast
  <2>2. QED BY Zenon, <1>4, <2>1 DEF AgreesWith
<1>7. QED BY Zenon, <1>3, <1>4, <1>6 DEF AgreesWith

\* Parts change only where the parser is in a part, or one is broken.
LEMMA AgreeKept ==
  ASSUME PartTypesOK, PartAtHand, NEW sent, Agree(sent), MultipartNext, ~Break, ~GoOn
  PROVE  body' = body /\ (Agree(sent)' \/ parser'.at \in {"body", "end"})
<1>1. parts \in Seq(PartState) /\ parser \in ParserState
  BY DEF PartTypesOK
<1>2. AgreesWith(parts, sent)
  BY Zenon, AgreeIs
<1>3. ASSUME AgreesWith(parts', sent)  PROVE Agree(sent)'
  BY Zenon, <1>3 DEF Agree, AgreesWith
<1>4. body' = body
  BY Zenon DEF MultipartNext, Fill, SkipPreamble, ReadHeader, ScanBody, EndPart, ReadOn, Advance, Abandon
<1>5. CASE Fill \/ SkipPreamble \/ ReadOn \/ Advance \/ Abandon
  <2>1. parts' = parts
    BY Zenon, <1>5 DEF Fill, SkipPreamble, ReadOn, Advance, Abandon
  <2>2. QED BY Zenon, <1>2, <1>3, <1>4, <2>1
<1>6. CASE ReadHeader
  <2>1. CASE HeaderWaits \/ HeaderFails \/ HeaderOver \/ HeaderGoesOn(Chomp(Line(buffer)))
    <3>1. parts' = parts
      BY Zenon, <2>1 DEF HeaderWaits, HeaderFails, HeaderOver, HeaderGoesOn
    <3>2. QED BY Zenon, <1>2, <1>3, <1>4, <3>1
  <2>2. CASE HeaderOpens(Chomp(Line(buffer)))
    <3>1. PICK fields \in Nat, files \in Nat : parser' = Opened(fields, files)
      BY Zenon, <2>2 DEF HeaderOpens
    <3>2. parser'.at = "body"
      BY <1>1, <3>1 DEF ParserState, Opened
    <3>3. parser'.at \in {"body", "end"}
      BY <3>2
    <3>4. QED BY Zenon, <1>4, <3>3
  <2>3. QED BY Zenon, <1>6, <2>1, <2>2, HeaderCases
<1>7. CASE EndPart
  <2>1. CASE consumer = "reading"
    <3>1. parser' = [parser EXCEPT !.returned = TRUE] /\ parser.at = "end"
      BY Zenon, <1>7, <2>1 DEF EndPart, Stepping
    <3>2. parser'.at \in {"body", "end"}
      BY <1>1, <3>1 DEF ParserState
    <3>3. QED BY Zenon, <1>4, <3>2
  <2>2. CASE consumer # "reading"
    <3>1. parts' = parts
      BY Zenon, <1>7, <2>2 DEF EndPart
    <3>2. QED BY Zenon, <1>2, <1>3, <1>4, <3>1
  <2>3. QED BY <2>1, <2>2
<1>8. CASE ScanBody
  <2>1. parser.at = "body" /\ consumer \notin {"holding", "gone"} /\ parser.head \in Seq(Byte)
    <3>1. parser.at = "body" /\ consumer \notin {"holding", "gone"}
      BY Zenon, <1>8 DEF ScanBody, Stepping, Running
    <3>2. QED BY <1>1, <3>1 DEF ParserState
  <2>2. ASSUME NEW chunk, NEW p \in ParserState, NEW u, Scans(chunk, p, u),
               p.at \in {"body", "end"} \/ chunk = <<>>
        PROVE  Agree(sent)' \/ parser'.at \in {"body", "end"}
    <3>1. Emitted(chunk, p) \/ Refused(chunk, p)
      BY Zenon, <2>2, EmitIs DEF Scans
    <3>2. CASE Refused(chunk, p)
      BY Zenon, <1>2, <1>3, <3>2 DEF Refused
    <3>3. CASE Emitted(chunk, p) /\ p.at \in {"body", "end"}
      <4>1. parser' = [p EXCEPT !.size = p.size + Len(chunk), !.total = p.total + Len(chunk)]
        BY Zenon, <3>3 DEF Emitted
      <4>2. parser'.at = p.at
        BY <2>2, <4>1 DEF ParserState
      <4>3. QED BY Zenon, <3>3, <4>2
    <3>4. CASE Emitted(chunk, p) /\ chunk = <<>>
      <4>1. CASE consumer = "reading"
        <5>1. parts # <<>>
          BY Zenon, <2>1, <4>1 DEF PartAtHand
        <5>2. parts' = [parts EXCEPT ![Len(parts)].bytes = @ \o <<>>]
          BY Zenon, <3>4, <4>1 DEF Emitted
        <5>3. AgreesWith(parts', sent)
          BY Zenon, <1>1, <1>2, <5>1, <5>2, AgreeStill
        <5>4. QED BY Zenon, <1>3, <5>3
      <4>2. CASE consumer # "reading"
        <5>1. parts' = parts
          BY Zenon, <3>4, <4>2 DEF Emitted
        <5>2. QED BY Zenon, <1>2, <1>3, <5>1
      <4>3. QED BY <4>1, <4>2
    <3>5. QED BY Zenon, <2>2, <3>1, <3>2, <3>3, <3>4
  <2>3. Fail(parser) \in ParserState
    BY <1>1 DEF ParserState, Fail
  <2>4. QED BY Zenon, <1>4, <1>8, <2>2, <2>3, ScanSome DEF InBody
<1>9. QED BY Zenon, <1>5, <1>6, <1>7, <1>8 DEF MultipartNext

\* It holds before a byte is read.
LEMMA MultipartStarts ==
  ASSUME MultipartInit
  PROVE  MultipartInv
<1>1. /\ body \in Bodies /\ wire = body /\ buffer = <<>> /\ parser = Start /\ consumer = "holding"
      /\ parts = <<>>
  BY DEF MultipartInit
<1>2. body \in Seq(Byte) /\ wire \in Seq(Byte) /\ buffer \in Seq(Byte) /\ parts \in Seq(PartState)
  BY <1>1, MultipartAssumption
<1>3. /\ parser \in ParserState /\ parser.at = "preamble" /\ ~parser.matched /\ ~parser.eof
      /\ parser.kind = "none" /\ parser.head = <<>>
  <2>1. <<>> \in Seq(Byte)
    OBVIOUS
  <2>2. QED BY <1>1, <2>1 DEF Start, ParserState
<1>4. PartTypesOK
  <2>1. "holding" \in {"holding", "reading", "draining", "skipping", "gone"}
    OBVIOUS
  <2>2. QED BY Zenon, <1>1, <1>2, <1>3, <2>1 DEF PartTypesOK
<1>5. PartAtHand
  <2>1. "preamble" \notin {"body", "end"} /\ "preamble" # "done" /\ "holding" # "reading" /\ "holding" # "gone"
    OBVIOUS
  <2>2. QED BY Zenon, <1>1, <1>3, <2>1 DEF PartAtHand
<1>6. BufferInv
  <2>1. PICK starving \in BOOLEAN : starving = parser.starving
    BY <1>3 DEF ParserState
  <2>2. Len(buffer) = 0
    BY <1>1
  <2>3. 0 <= Retain + MaxPadding + (IF starving THEN 0 ELSE MaxChunk)
    BY Bounds
  <2>4. "preamble" # "end" /\ "preamble" # "headers"
    OBVIOUS
  <2>5. QED BY Zenon, <1>3, <2>1, <2>2, <2>3, <2>4 DEF BufferInv
<1>7. PICK R : R = Reading(body) /\ Stages(R, body)
  BY <1>2, ReadingIs
<1>8. Rest = body
  <2>1. <<>> \o body = body
    BY <1>2
  <2>2. QED BY Zenon, <1>1, <2>1 DEF Rest
<1>9. InPreamble(R[0])
  <2>1. R[0] = FirstStage(body)
    BY Zenon, <1>7 DEF Stages
  <2>2. FirstStage(body).rest = Cut(body, FirstNeedle).rest
        /\ FirstStage(body).kind = Cut(body, FirstNeedle).kind
    BY DEF FirstStage
  <2>3. SameFirst(body, R[0])
    BY Zenon, <2>1, <2>2 DEF SameFirst
  <2>4. QED BY Zenon, <1>3, <1>8, <2>3 DEF InPreamble
<1>10. Placed
  <2>1. "preamble" \notin {"body", "end"} /\ "preamble" # "done" /\ "preamble" # "headers"
    OBVIOUS
  <2>2. QED BY Zenon, <1>1, <1>3, <1>7, <1>9, <2>1 DEF Placed
<1>11. Agree(Sent(body))
  <2>1. PICK all \in Seq(SentPart) : all = Sent(body)
    BY <1>2, SentTyped
  <2>2. Len(<<>>) <= Len(all) /\ DOMAIN <<>> = {}
    OBVIOUS
  <2>3. QED BY Zenon, <1>1, <2>1, <2>2 DEF Agree
<1>12. ThrownInv
  <2>1. "holding" # "reading"
    OBVIOUS
  <2>2. QED BY Zenon, <1>1, <2>1 DEF ThrownInv, Thrown
<1>13. QED BY Zenon, <1>4, <1>5, <1>6, <1>10, <1>11, <1>12 DEF MultipartInv

\* Every step of parser and consumer keeps it.
LEMMA MultipartStep ==
  ASSUME MultipartInv, [MultipartNext]_multipartVars
  PROVE  MultipartInv'
<1>1. PartTypesOK /\ PartAtHand /\ BufferInv /\ ThrownInv
  BY DEF MultipartInv
<1>2. PartTypesOK' /\ PartAtHand' /\ (Broken => Broken')
  BY Zenon, <1>1, MultipartTyped DEF Kept
<1>3. BufferInv' /\ ThrownInv'
  BY Zenon, <1>1, MultipartSmall, ThrownKept
<1>4. SUFFICES ASSUME ~Broken'
               PROVE  Agree(Sent(body))' /\ (consumer' # "gone" => Placed')
  BY Zenon, <1>2, <1>3 DEF MultipartInv
<1>5. ~Broken /\ Agree(Sent(body)) /\ (consumer # "gone" => Placed)
  BY Zenon, <1>2, <1>4 DEF MultipartInv
<1>6. CASE UNCHANGED multipartVars
  <2>1. UNCHANGED <<body, wire, buffer, parser, consumer, parts>>
    BY <1>6 DEF multipartVars
  <2>2. Agree(Sent(body))'
    <3>1. PICK sent : sent = Sent(body) /\ sent = Sent(body')
      BY Zenon, <2>1
    <3>2. AgreesWith(parts', sent)
      BY Zenon, <1>5, <2>1, <3>1, AgreeIs
    <3>3. QED BY Zenon, <3>1, <3>2 DEF Agree, AgreesWith
  <2>3. Rest' = Rest
    BY Zenon, <2>1 DEF Rest
  <2>4. consumer' # "gone" => Placed'
    BY Zenon, <1>5, <2>1, <2>3, PlacedSame
  <2>5. QED BY <2>2, <2>4
<1>7. CASE MultipartNext
  <2>1. consumer # "gone"
    <3>1. "holding" # "gone" /\ "reading" # "gone"
      OBVIOUS
    <3>2. QED BY Zenon, <1>7, <3>1 DEF MultipartNext, Fill, SkipPreamble, ReadHeader, ScanBody, EndPart, ReadOn,
                                     Break, Advance, GoOn, Abandon, Holding, Thrown, Stepping, Running
  <2>2. Placed
    BY <1>5, <2>1
  <2>3. ~Break /\ ~GoOn
    BY Zenon, <1>1, <1>4, BreakTyped, GoOnTyped
  <2>4. consumer' # "gone" => Placed'
    <3>1. Abandon => consumer' = "gone"
      BY Zenon DEF Abandon
    <3>2. QED BY Zenon, <1>1, <1>5, <1>7, <2>2, <2>3, <3>1, FillPlaced, SkipPlaced, HeaderPlaced, ScanPlaced, EndPlaced,
                 ConsumerPlaced DEF MultipartNext
  <2>5. body' = body /\ (Agree(Sent(body))' \/ parser'.at \in {"body", "end"})
    <3>1. PICK sent : sent = Sent(body)
      OBVIOUS
    <3>2. body' = body /\ (AgreesWith(parts', sent) \/ parser'.at \in {"body", "end"})
      <4>1. Agree(sent)
        BY Zenon, <1>5, <3>1
      <4>2. body' = body /\ (Agree(sent)' \/ parser'.at \in {"body", "end"})
        BY Zenon, <1>1, <1>7, <2>3, <4>1, AgreeKept
      <4>3. QED BY Zenon, <4>2 DEF Agree, AgreesWith
    <3>3. sent = Sent(body')
      BY Zenon, <3>1, <3>2
    <3>4. QED BY Zenon, <3>2, <3>3 DEF Agree, AgreesWith
  <2>6. consumer' = "gone" => Agree(Sent(body))'
    <3>1. SUFFICES ASSUME consumer' = "gone"  PROVE Agree(Sent(body))'
      OBVIOUS
    <3>2. Abandon
      <4>1. /\ "holding" # "gone" /\ "reading" # "gone" /\ "draining" # "gone" /\ "skipping" # "gone"
        OBVIOUS
      <4>2. Fill \/ SkipPreamble \/ ReadOn \/ Advance => consumer' # "gone"
        BY Zenon, <2>1, <4>1 DEF Fill, SkipPreamble, ReadOn, Advance
      <4>3. EndPart => consumer' # "gone"
        BY Zenon, <4>1 DEF EndPart
      <4>4. ReadHeader => consumer' # "gone"
        <5>1. ASSUME ReadHeader  PROVE consumer' # "gone"
          <6>1. HeaderOver => consumer' # "gone"
            BY <4>1 DEF HeaderOver
          <6>2. QED BY Zenon, <1>1, <2>1, <4>1, <5>1, <6>1, HeaderCases DEF HeaderWaits, HeaderFails, HeaderGoesOn, HeaderOpens
        <5>2. QED BY <5>1
      <4>5. ScanBody => consumer' # "gone"
        <5>1. ASSUME ScanBody  PROVE consumer' # "gone"
          <6>1. ASSUME NEW chunk, NEW p, NEW u, Scans(chunk, p, u)  PROVE consumer' # "gone"
            <7>1. Emitted(chunk, p) \/ Refused(chunk, p)
              BY Zenon, <6>1, EmitIs DEF Scans
            <7>2. QED BY Zenon, <2>1, <4>1, <7>1 DEF Emitted, Refused
          <6>2. QED BY Zenon, <1>1, <5>1, <6>1, ScanSome
        <5>2. QED BY <5>1
      <4>6. QED BY Zenon, <1>7, <2>3, <3>1, <4>2, <4>3, <4>4, <4>5 DEF MultipartNext
    <3>3. parts' = parts
      BY Zenon, <3>2 DEF Abandon
    <3>4. PICK sent : sent = Sent(body) /\ sent = Sent(body')
      BY Zenon, <2>5
    <3>5. AgreesWith(parts', sent)
      BY Zenon, <1>5, <3>3, <3>4, AgreeIs
    <3>6. QED BY Zenon, <3>4, <3>5 DEF Agree, AgreesWith
  <2>7. body \in Seq(Byte)
    BY <1>1, RestTyped
  <2>8. consumer' # "gone" => Agree(Sent(body))'
    BY Zenon, <1>2, <2>4, <2>5, <2>7, AgreeAhead
  <2>9. QED BY <2>4, <2>6, <2>8
<1>8. QED BY <1>6, <1>7

LEMMA MultipartInvIs ==
  ASSUME MultipartInv
  PROVE  PartsExact
<1>1. PartTypesOK /\ PartAtHand /\ BufferInv
  BY DEF MultipartInv
<1>2. BufferSmall
  BY <1>1, SmallIs
<1>3. ASSUME ~Broken  PROVE Agree(Sent(body)) /\ (parser.at = "done" => Len(parts) = Len(Sent(body)))
  <2>1. Agree(Sent(body)) /\ (consumer # "gone" => Placed)
    BY Zenon, <1>3 DEF MultipartInv
  <2>2. parser.at = "done" => consumer # "gone"
    BY Zenon, <1>1 DEF PartAtHand
  <2>3. QED BY Zenon, <2>1, <2>2 DEF Placed
<1>4. QED BY Zenon, <1>2, <1>3 DEF PartsExact

\* parseMultipart(), of a body of any bytes that comes in chunks of any sizes, to
\* a consumer that reads, leaves, breaks out of or abandons the parts, or catches
\* the error of one and goes on, as it likes: as long as none was broken out of or
\* its error caught, the parts handed out are those of the body, what a reader
\* has of one is where that part begins and all of it once the reader was told
\* its end, none is missing when the iteration is over; and never is more held
\* than the padding, a delimiter, a chunk and a line of headers.
THEOREM MultipartAlwaysExact == MultipartSpec => []PartsExact
<1>1. MultipartInit => MultipartInv
  BY MultipartStarts
<1>2. MultipartInv /\ [MultipartNext]_multipartVars => MultipartInv'
  BY MultipartStep
<1>3. MultipartInv => PartsExact
  BY MultipartInvIs
<1>4. QED BY <1>1, <1>2, <1>3, PTL DEF MultipartSpec
=============================================================================
