---------------------------- MODULE NodeAdapter ----------------------------
(***************************************************************************)
(* One exchange of the Node adapter: the events of an IncomingMessage are  *)
(* turned into the body of a Request, and the body of the Response is      *)
(* pumped into a ServerResponse, while the client may go away.  Of Node it *)
(* is used that 'close' of a request follows its 'end' or a lost           *)
(* connection, that write() to a response that is gone says false and      *)
(* tells nobody, and that a destroyed request emits neither chunks nor its *)
(* end any more and takes its socket along.                                *)
(***************************************************************************)
EXTENDS Integers, Sequences

CONSTANTS
  Upload,      \* the chunks the client sends, 1..Upload
  Replies      \* the responses of the app: [status, chunks], chunks -1 for no body

ASSUME ExchangeAssumption ==
  /\ Upload \in Nat
  /\ Replies \subseteq [status : Nat, chunks : Nat \cup {-1}]

VARIABLES
  client,      \* [up, sent, ended, closed]: the connection and its request's events
  upload,      \* the body stream of the Request: [state, got, listening];
               \*   "cancelled" reads as done, like "closed"
  aborted,     \* ac.signal is aborted
  app,         \* "running", "replying", "threw", "over"
  reply,       \* the Response
  pump,        \* toNodeResponse(): "reading", "draining", or "idle"
  res          \* the ServerResponse: [state, status, sent (headers), bytes, closed]

exchangeVars == <<client, upload, aborted, app, reply, pump, res>>

ExchangeInit ==
  /\ client = [up |-> TRUE, sent |-> 0, ended |-> FALSE, closed |-> FALSE]
  /\ upload = [state |-> "open", got |-> <<>>, listening |-> TRUE]
  /\ aborted = FALSE /\ app = "running" /\ reply = [status |-> 200, chunks |-> -1] /\ pump = "idle"
  /\ res = [state |-> "open", status |-> 200, sent |-> FALSE, bytes |-> 0, closed |-> FALSE]

Emitting == client.up /\ ~client.ended /\ ~client.closed /\ upload.state # "cancelled"

\* onData(), onEnd(): the chunks are enqueued, the body is closed.
Data ==
  /\ Emitting /\ client.sent < Upload
  /\ client' = [client EXCEPT !.sent = @ + 1]
  /\ upload' = IF upload.listening THEN [upload EXCEPT !.got = Append(@, client.sent + 1)] ELSE upload
  /\ UNCHANGED <<aborted, app, reply, pump, res>>

Ending(b) == IF b.listening THEN [b EXCEPT !.state = "closed", !.listening = FALSE] ELSE b
End ==
  /\ Emitting /\ client.sent = Upload
  /\ client' = [client EXCEPT !.ended = TRUE]
  /\ upload' = Ending(upload)
  /\ UNCHANGED <<aborted, app, reply, pump, res>>

\* Fault: a request that is closed ends the body.
OnAbort_Closes(b) == Ending(b)

\* onAbort(), onError(): the body fails.  An error means nothing to a body that
\* was given up.
OnAbort(b) ==
  IF b.listening
  THEN [b EXCEPT !.state = IF @ = "open" THEN "errored" ELSE @, !.listening = FALSE]
  ELSE b

\* The listeners of the exchange are removed when it is over.
Heard == app # "over"

\* 'close' of a request that has ended.
RequestCloses ==
  /\ client.ended /\ ~client.closed
  /\ client' = [client EXCEPT !.closed = TRUE]
  /\ aborted' = (aborted \/ Heard)
  /\ upload' = OnAbort(upload)
  /\ UNCHANGED <<app, reply, pump, res>>

\* The connection is lost: the request is closed if it was not, and so is the
\* response.  A pump that waits for it to drain is rejected and destroys it.
Lost ==
  /\ client' = [client EXCEPT !.up = FALSE, !.closed = TRUE]
  /\ aborted' = (aborted \/ (Heard /\ ~client.closed))
  /\ upload' = OnAbort(upload)
  /\ res' = [res EXCEPT !.closed = TRUE, !.state = IF pump = "draining" THEN "destroyed" ELSE @]
  /\ pump' = IF pump = "draining" THEN "idle" ELSE pump
  /\ app' = IF pump = "draining" THEN "over" ELSE app
  /\ UNCHANGED reply

Disconnect == client.up /\ Lost

\* Who reads the body gives it up, which he may do after the answer too: it
\* reads as done from then on.  cancel() destroys the request, whose connection
\* is lost later (see Disconnect).
CancelUpload ==
  /\ upload.state = "open"
  /\ upload' = [upload EXCEPT !.state = "cancelled"]
  /\ UNCHANGED <<client, aborted, app, reply, pump, res>>

\* app.fetch() returns a response, or throws; toRequest() throws for a bad URL.
Answer ==
  /\ app = "running"
  /\ \/ app' = "replying" /\ reply' \in Replies
     \/ app' = "threw" /\ UNCHANGED reply
  /\ UNCHANGED <<client, upload, aborted, pump, res>>

\* toNodeResponse() up to the first read: the status and the headers are set,
\* one of which may be refused; a response without a body is over.
StartReply ==
  /\ app = "replying" /\ pump = "idle"
  /\ \/ /\ res' = [res EXCEPT !.status = reply.status] /\ app' = "threw" /\ UNCHANGED pump
     \/ IF reply.chunks = -1
        THEN /\ res' = [res EXCEPT !.status = reply.status, !.sent = TRUE, !.state = "ended"]
             /\ app' = "over" /\ UNCHANGED pump
        ELSE /\ res' = [res EXCEPT !.status = reply.status]
             /\ pump' = "reading" /\ UNCHANGED app
  /\ UNCHANGED <<client, upload, aborted, reply>>

\* A chunk of the response is read and written: write() may say that it has to
\* drain first, and says so of a response that is gone.
Write ==
  /\ pump = "reading" /\ res.bytes < reply.chunks
  /\ res' = [res EXCEPT !.bytes = @ + 1, !.sent = TRUE]
  /\ pump' \in IF res.closed THEN {"draining"} ELSE {"reading", "draining"}
  /\ UNCHANGED <<client, upload, aborted, app, reply>>

Drain ==
  /\ pump = "draining" /\ ~res.closed
  /\ pump' = "reading"
  /\ UNCHANGED <<client, upload, aborted, app, reply, res>>

\* The body of the response ends.
EndReply ==
  /\ pump = "reading" /\ res.bytes = reply.chunks
  /\ res' = [res EXCEPT !.state = "ended", !.sent = TRUE]
  /\ pump' = "idle" /\ app' = "over"
  /\ UNCHANGED <<client, upload, aborted, reply>>

\* The body of the response fails: the response is destroyed.
FailReply ==
  /\ pump = "reading"
  /\ res' = [res EXCEPT !.state = "destroyed"]
  /\ pump' = "idle" /\ app' = "over"
  /\ UNCHANGED <<client, upload, aborted, reply>>

\* The catch of the listener: nobody waits for an aborted exchange, any other
\* is answered with 500.
Catch ==
  /\ app = "threw" /\ app' = "over"
  /\ res' = IF aborted THEN [res EXCEPT !.state = "destroyed"]
            ELSE [res EXCEPT !.status = 500, !.sent = TRUE, !.state = "ended"]
  /\ UNCHANGED <<client, upload, aborted, reply, pump>>

\* What the event loop brings about: the app answers, the body of a response
\* goes on, and a response that is connected drains.
Flow == Answer \/ StartReply \/ Write \/ Drain \/ EndReply \/ FailReply \/ Catch
ExchangeNext == Data \/ End \/ RequestCloses \/ Disconnect \/ CancelUpload \/ Flow

ExchangeSpec == ExchangeInit /\ [][ExchangeNext]_exchangeVars

-----------------------------------------------------------------------------
(* Properties *)

\* An upload never looks complete when it is not: the body is closed only when
\* every chunk was enqueued, in order, and a lost client makes a body that had
\* not ended fail.  Only a body that was given up by its reader reads as done
\* with fewer chunks, for the stream is closed before cancel() runs.
UploadWhole ==
  /\ upload.got = [i \in 1..Len(upload.got) |-> i]
  /\ upload.state = "closed" => Len(upload.got) = Upload
  /\ client.closed => upload.state # "open"

\* A response that was ended is the one the app gave, whole, or a 500 of which
\* nothing was sent before: one that failed half way is never taken for whole.
ReplyWhole ==
  res.state = "ended" =>
    \/ app = "over" /\ res.status = 500 /\ res.bytes = 0
    \/ res.status = reply.status /\ res.bytes = (IF reply.chunks = -1 THEN 0 ELSE reply.chunks)

\* A client that stays gets an end: its response is ended or destroyed.
ClientsReleased == <>(res.state # "open" \/ ~client.up)

\* Neither the upload of an exchange nor its response ever looks complete when
\* it is not, whoever leaves or fails; see UploadWhole for uploads given up.
ExchangeWhole == UploadWhole /\ ReplyWhole
=============================================================================
