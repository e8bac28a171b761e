------------------------------ MODULE DiskSink ------------------------------
(***************************************************************************)
(* pipeToFile(): uploads are streamed to files of one directory.  A write  *)
(* stream opens its file, writes and closes on its own time; one that      *)
(* fails is destroyed at once, and its 'error' comes when it has closed.   *)
(* The disk may fail at every step, the last one, unlink(), included.      *)
(***************************************************************************)
EXTENDS Integers, FiniteSets

CONSTANTS
  Uploads, Names,
  MaxBytes,    \* opts.maxBytes
  MaxChunks    \* bound on the chunks, of a byte each, of an upload

ASSUME SinkAssumption == MaxBytes \in Nat /\ MaxChunks \in Nat /\ "none" \notin Uploads

VARIABLES
  named,       \* the file name of each upload
  sink,        \* pipeToFile(): "reading", "draining", "finishing", "closing", "saved", or
               \*   "failed", or "left": failed, but its file could not be unlinked
  taken,       \* the bytes it took from its upload
  ws,          \* its write stream: [state, opened, written, told (the 'error')]
  folder,      \* file name -> the file of that name, which is called by its first upload
  fileOf,      \* the file an upload opened
  content      \* of a file: whose byte is at each place

sinkVars == <<named, sink, taken, ws, folder, fileOf, content>>

None == "none"
Empty == [i \in 1..MaxChunks |-> None]

SinkInit ==
  /\ named \in [Uploads -> Names]
  /\ sink = [u \in Uploads |-> "reading"] /\ taken = [u \in Uploads |-> 0]
  /\ ws = [u \in Uploads |-> [state |-> "open", opened |-> "pending", written |-> 0, told |-> FALSE]]
  /\ folder = [n \in Names |-> None] /\ fileOf = [u \in Uploads |-> None]
  /\ content = [u \in Uploads |-> Empty]

Destroyed(s) == IF s.state \in {"open", "ending"} THEN [s EXCEPT !.state = "destroyed"] ELSE s

\* createWriteStream() creates the file, or truncates the one of that name.
Open(u) ==
  LET file == IF folder[named[u]] = None THEN u ELSE folder[named[u]]
  IN /\ ws[u].opened = "pending" /\ ws[u].state # "closed"
     /\ ws' = [ws EXCEPT ![u].opened = "yes"]
     /\ folder' = [folder EXCEPT ![named[u]] = file]
     /\ fileOf' = [fileOf EXCEPT ![u] = file]
     /\ content' = [content EXCEPT ![file] = Empty]
     /\ UNCHANGED <<named, sink, taken>>

OpenFails(u) ==
  /\ ws[u].opened = "pending" /\ ws[u].state # "closed"
  /\ ws' = [ws EXCEPT ![u] = [Destroyed(@) EXCEPT !.opened = "no"]]
  /\ UNCHANGED <<named, sink, taken, folder, fileOf, content>>

\* The first byte that waits is written, and the stream may drain; or the
\* write fails, and the stream is destroyed: nobody is told yet.
Flush(u) ==
  /\ ws[u].opened = "yes" /\ ws[u].state \in {"open", "ending"} /\ ws[u].written < taken[u]
  /\ \/ /\ ws' = [ws EXCEPT ![u].written = @ + 1]
        /\ content' = [content EXCEPT ![fileOf[u]][ws[u].written + 1] = u]
        /\ sink' = [sink EXCEPT ![u] = IF @ = "draining" /\ ws[u].written + 1 = taken[u]
                                       THEN "reading" ELSE @]
     \/ /\ ws' = [ws EXCEPT ![u] = Destroyed(@)]
        /\ UNCHANGED <<content, sink>>
  /\ UNCHANGED <<named, taken, folder, fileOf>>

\* A stream that was destroyed closes once its file is open or is not.  Its
\* 'error' rejects whoever waits for it to drain or to finish.
Closed(u) ==
  /\ ws[u].state = "destroyed" /\ ws[u].opened # "pending"
  /\ ws' = [ws EXCEPT ![u].state = "closed", ![u].told = TRUE]
  /\ sink' = [sink EXCEPT ![u] = IF @ \in {"draining", "finishing"} THEN "closing" ELSE @]
  /\ UNCHANGED <<named, taken, folder, fileOf, content>>

\* Fault: it is not looked at whether the stream has failed.
Take_Blind(u) ==
  /\ sink[u] = "reading" /\ taken[u] < MaxChunks
  /\ taken' = [taken EXCEPT ![u] = @ + 1]
  /\ IF taken[u] + 1 > MaxBytes
     THEN ws' = [ws EXCEPT ![u] = Destroyed(@)] /\ sink' = [sink EXCEPT ![u] = "closing"]
     ELSE /\ UNCHANGED ws
          /\ \E s \in (IF ws[u].state = "open" THEN {"reading", "draining"} ELSE {"draining"}) :
               sink' = [sink EXCEPT ![u] = s]
  /\ UNCHANGED <<named, folder, fileOf, content>>

\* The next chunk of the upload is counted, capped and written.  write() may
\* say that it has to drain; a destroyed stream says so, and takes nothing.
Take(u) ==
  /\ sink[u] = "reading" /\ taken[u] < MaxChunks
  /\ taken' = [taken EXCEPT ![u] = @ + 1]
  /\ IF ws[u].told \/ taken[u] + 1 > MaxBytes
     THEN ws' = [ws EXCEPT ![u] = Destroyed(@)] /\ sink' = [sink EXCEPT ![u] = "closing"]
     ELSE /\ UNCHANGED ws
          /\ \E s \in (IF ws[u].state = "open" THEN {"reading", "draining"} ELSE {"draining"}) :
               sink' = [sink EXCEPT ![u] = s]
  /\ UNCHANGED <<named, folder, fileOf, content>>

\* The upload ends, or it fails, or the stream has.
EndUpload(u) ==
  /\ sink[u] = "reading"
  /\ \/ /\ ~ws[u].told
        /\ sink' = [sink EXCEPT ![u] = "finishing"]
        /\ ws' = [ws EXCEPT ![u].state = IF @ = "open" THEN "ending" ELSE @]
     \/ /\ sink' = [sink EXCEPT ![u] = "closing"]
        /\ ws' = [ws EXCEPT ![u] = Destroyed(@)]
  /\ UNCHANGED <<named, taken, folder, fileOf, content>>

\* 'finish': every byte was written.
Finish(u) ==
  /\ sink[u] = "finishing" /\ ws[u].state = "ending" /\ ws[u].opened = "yes"
  /\ ws[u].written = taken[u]
  /\ sink' = [sink EXCEPT ![u] = "saved"]
  /\ ws' = [ws EXCEPT ![u].state = "closed"]
  /\ UNCHANGED <<named, taken, folder, fileOf, content>>

\* Fault: the file is unlinked while its stream still closes.
Unlink_Early(u) ==
  /\ sink[u] = "closing"
  /\ sink' = [sink EXCEPT ![u] = "failed"]
  /\ folder' = [folder EXCEPT ![named[u]] = None]
  /\ UNCHANGED <<named, taken, ws, fileOf, content>>

\* destroyAndUnlink(), once the stream has closed: the name is removed, if the
\* disk lets it; if it does not, the upload is reported as failed all the same.
Unlink(u) ==
  /\ sink[u] = "closing" /\ ws[u].state = "closed"
  /\ \/ /\ sink' = [sink EXCEPT ![u] = "failed"]
        /\ folder' = [folder EXCEPT ![named[u]] = None]
     \/ /\ sink' = [sink EXCEPT ![u] = "left"]
        /\ UNCHANGED folder
  /\ UNCHANGED <<named, taken, ws, fileOf, content>>

\* The upload arrives and ends, the disk answers.
SinkStep(u) ==
  \/ Open(u) \/ OpenFails(u) \/ Flush(u) \/ Closed(u)
  \/ Take(u) \/ EndUpload(u) \/ Finish(u) \/ Unlink(u)

SinkNext == \E u \in Uploads : SinkStep(u)

SinkSpec == SinkInit /\ [][SinkNext]_sinkVars

-----------------------------------------------------------------------------
(* Properties *)

Alone(u) == \A v \in Uploads \ {u} : named[v] # named[u]

\* An upload that was reported as saved is on the disk, whole, within the cap
\* and under its name, and one that was reported as failed left no file behind,
\* whenever its stream opens, fails and closes; only where the disk refuses to
\* unlink it does a file remain.  No file ever grows over the cap, that one
\* included.  (Two uploads of one name write to one file, and are left out.)
UploadsExact ==
  \A u \in Uploads : Alone(u) =>
    /\ sink[u] = "saved" =>
         /\ taken[u] <= MaxBytes /\ folder[named[u]] = u
         /\ content[u] = [i \in 1..MaxChunks |-> IF i <= taken[u] THEN u ELSE None]
    /\ sink[u] = "failed" => folder[named[u]] = None
    /\ \A i \in 1..MaxChunks : i > MaxBytes => content[u][i] = None

\* Every upload is reported, as saved or as failed, whatever the disk does.
UploadsSettle == \A u \in Uploads : <>(sink[u] \in {"saved", "failed", "left"})
=============================================================================
