----------------------------- MODULE Multipart -----------------------------
(***************************************************************************)
(* parseMultipart(): a body that arrives in chunks of any size is scanned  *)
(* for delimiters, and its parts are handed to a consumer that may read a  *)
(* part, leave it half read, or break out of it.  The parser is a pair of  *)
(* generators: it runs only while the consumer waits for it.               *)
(*                                                                         *)
(* Bytes are one-character strings: "r" and "n" are CR and LF, "b" is the  *)
(* boundary.  A header line is "f" (a file), "d" (a field), or noise.      *)
(***************************************************************************)
EXTENDS Integers, Sequences, SequencesExt, FiniteSets

CONSTANTS
  Byte,         \* the bytes: of any but those above all that matters is that it is another
  Bodies,       \* the request bodies
  MaxChunk,     \* bound on the size of a chunk
  MaxPadding,   \* MAX_TRANSPORT_PADDING
  MaxHeaders,   \* MAX_PART_HEADERS
  MaxLine,      \* what readLine() holds of a line that has not ended
  PartLimit,    \* "file" -> maxFileSize, "field" -> maxFieldSize
  MaxFiles, MaxFields, MaxTotal

ASSUME MultipartAssumption ==
  /\ {"r", "n", "-", "b"} \subseteq Byte /\ Bodies \subseteq Seq(Byte)
  /\ MaxChunk \in Nat /\ MaxPadding \in Nat /\ MaxLine \in Nat

VARIABLES
  body,         \* the request body
  wire,         \* what of it was not read yet
  buffer,       \* ScanState.buf
  parser,       \* where the generators are, see Start
  consumer,     \* "holding", "reading" a part, "draining" what it left, "skipping", "gone"
  parts         \* the parts handed out: [kind, bytes, state]

multipartVars == <<body, wire, buffer, parser, consumer, parts>>

FirstNeedle == <<"-", "-", "b">>
Delim == <<"r", "n">> \o FirstNeedle
Retain == Len(Delim)
Blank == {" ", "t"}

From(s, i) == SubSeq(s, i, Len(s))

\* The lowest of some positions, and 0 for none.
Lowest(S) == IF S = {} THEN 0 ELSE Min(S)

\* indexOfNeedle(), counted from 1.
IndexOf(hay, needle) ==
  Lowest({i \in 1..(Len(hay) - Len(needle) + 1) : SubSeq(hay, i, i + Len(needle) - 1) = needle})

\* readDelimiterSuffix(): what follows a boundary, and how much of it is used.
Suffix(buf, eof) ==
  LET stop == Lowest({k \in DOMAIN buf : buf[k] \notin Blank})
      blanks == IF stop = 0 THEN Len(buf) ELSE stop - 1
      Is(kind, used) == [kind |-> kind, used |-> used]
      at == blanks + 1
  IN IF Len(buf) < 2 /\ ~eof THEN Is("more", 0)
     ELSE IF Len(buf) >= 2 /\ SubSeq(buf, 1, 2) = <<"-", "-">> THEN Is("close", 2)
     ELSE IF blanks > MaxPadding THEN Is("invalid", 0)
     ELSE IF at > Len(buf) THEN Is(IF eof THEN "truncated" ELSE "more", 0)
     ELSE IF buf[at] \notin {"r", "n"} THEN Is("false", 0)
     ELSE IF buf[at] = "r" /\ at = Len(buf) /\ ~eof THEN Is("more", 0)
     ELSE Is("next", IF buf[at] = "r" /\ at < Len(buf) /\ buf[at + 1] = "n" THEN at + 1 ELSE at)

\* at: "preamble", "headers", "body", "end" (of a part), "done" or "failed".
\* matched: a boundary was found, head is the data before it.
Start ==
  [at |-> "preamble", starving |-> FALSE, eof |-> FALSE, matched |-> FALSE, head |-> <<>>,
   closed |-> FALSE, kind |-> "none", used |-> 0, size |-> 0,
   files |-> 0, fields |-> 0, total |-> 0, returned |-> FALSE]

MultipartInit ==
  /\ body \in Bodies
  /\ wire = body /\ buffer = <<>> /\ parser = Start /\ consumer = "holding" /\ parts = <<>>

Running == parser.at \notin {"done", "failed"} /\ consumer \notin {"holding", "gone"}

\* fill(): the parser waits for the next chunk, or the end, of the body.
Fill ==
  /\ Running /\ parser.starving
  /\ IF wire = <<>> THEN parser' = [parser EXCEPT !.starving = FALSE, !.eof = TRUE]
                         /\ UNCHANGED <<wire, buffer>>
     ELSE \E n \in 1..MaxChunk :
       /\ n <= Len(wire)
       /\ buffer' = buffer \o SubSeq(wire, 1, n)
       /\ wire' = From(wire, n + 1)
       /\ parser' = [parser EXCEPT !.starving = FALSE]
  /\ UNCHANGED <<body, consumer, parts>>

Fail(p) == [p EXCEPT !.at = "failed"]
Stepping(at) == Running /\ ~parser.starving /\ parser.at = at

\* skipPreamble(): a body without a delimiter has no parts.
SkipPreamble ==
  /\ Stepping("preamble")
  /\ LET found == IndexOf(buffer, FirstNeedle)
         suffix == Suffix(buffer, parser.eof)
     IN IF parser.matched
        THEN /\ buffer' = From(buffer, suffix.used + 1)
             /\ parser' = CASE suffix.kind = "more" -> [parser EXCEPT !.starving = TRUE]
                            [] suffix.kind = "close" -> [parser EXCEPT !.at = "done"]
                            [] suffix.kind = "next" -> [parser EXCEPT !.at = "headers", !.matched = FALSE]
                            [] suffix.kind = "false" -> [parser EXCEPT !.matched = FALSE]
                            [] OTHER -> Fail(parser)
        ELSE IF found # 0
        THEN /\ buffer' = From(buffer, found + Len(FirstNeedle))
             /\ parser' = [parser EXCEPT !.matched = TRUE]
        ELSE /\ buffer' = IF Len(buffer) > Retain THEN From(buffer, Len(buffer) - Retain + 1) ELSE buffer
             /\ parser' = IF parser.eof THEN [parser EXCEPT !.at = "done"]
                          ELSE [parser EXCEPT !.starving = TRUE]
  /\ UNCHANGED <<body, wire, consumer, parts>>

\* readLine(): a line without its CR; the end of the body ends a line.
Line(buf) == LET at == IndexOf(buf, <<"n">>) IN IF at = 0 THEN buf ELSE SubSeq(buf, 1, at - 1)
Chomp(line) == IF line # <<>> /\ Last(line) = "r" THEN Front(line) ELSE line

\* The disposition of a part is that of the first line that has one.
Disposition(kind, line) ==
  IF kind # "none" THEN kind
  ELSE IF line = <<"f">> THEN "file" ELSE IF line = <<"d">> THEN "field" ELSE "none"

\* readPartHeaders(), one line at a time.  A line that goes on too long fails
\* before it has ended.
ReadHeader ==
  /\ Stepping("headers")
  /\ LET whole == IndexOf(buffer, <<"n">>) # 0 \/ parser.eof
         line == Chomp(Line(buffer))
         used == parser.used + Len(line) + 2
     IN IF ~whole
        THEN /\ parser' = IF Len(buffer) > MaxLine THEN Fail(parser)
                          ELSE [parser EXCEPT !.starving = TRUE]
             /\ UNCHANGED <<buffer, consumer, parts>>
        ELSE IF buffer = <<>> \/ used > MaxHeaders
        THEN parser' = Fail(parser) /\ UNCHANGED <<buffer, consumer, parts>>
        ELSE /\ buffer' = From(buffer, Len(Line(buffer)) + 2)
             /\ IF line # <<>>
                THEN /\ parser' = [parser EXCEPT !.used = used, !.kind = Disposition(@, line)]
                     /\ UNCHANGED <<consumer, parts>>
                ELSE LET named == parser.kind # "none"
                         fields == parser.fields + (IF named THEN 1 ELSE 0)
                         files == parser.files + (IF parser.kind = "file" THEN 1 ELSE 0)
                         over == fields > MaxFields \/ files > MaxFiles
                         open == [parser EXCEPT !.at = "body", !.size = 0, !.returned = FALSE,
                                                !.fields = fields, !.files = files]
                     IN /\ parser' = IF over THEN Fail(open) ELSE open
                        /\ consumer' = IF named THEN "holding" ELSE "skipping"
                        /\ parts' = IF named /\ ~over
                             THEN Append(parts, [kind |-> parser.kind, bytes |-> <<>>, state |-> "open"])
                             ELSE parts
  /\ UNCHANGED <<body, wire>>

\* A chunk of content: the caps are applied, and a reader gets it.  The total
\* does not count a chunk that is too much for its part.
Emit(chunk, p, reading) ==
  LET size == p.size + Len(chunk)
      total == p.total + Len(chunk)
      long == p.kind # "none" /\ size > PartLimit[p.kind]
      over == chunk # <<>> /\ (long \/ total > MaxTotal)
  IN [parser |-> IF over THEN Fail([p EXCEPT !.size = size, !.total = IF long THEN @ ELSE total])
                 ELSE [p EXCEPT !.size = size, !.total = total],
      parts |-> IF reading /\ ~over
                THEN [parts EXCEPT ![Len(parts)].bytes = @ \o chunk] ELSE parts,
      stops |-> reading /\ ~over]

\* Fault: everything in the buffer is emitted, the tail is not retained.
Safe_Everything(buf) == Len(buf)

\* All but a tail in which a delimiter may have begun.
Safe(buf) == Len(buf) - Retain

\* scanBody() up to its next yield or await, within the generator of a part.
ScanBody ==
  /\ Stepping("body")
  /\ LET found == IndexOf(buffer, Delim)
         suffix == Suffix(buffer, parser.eof)
         ends == suffix.kind \in {"close", "next"}
         Becomes(chunk, p) ==
           LET e == Emit(chunk, p, consumer = "reading")
           IN /\ parser' = e.parser /\ parts' = e.parts
              /\ consumer' = IF e.stops /\ chunk # <<>> THEN "holding" ELSE consumer
     IN IF parser.matched
        THEN /\ buffer' = From(buffer, suffix.used + 1)
             /\ CASE suffix.kind = "more" -> Becomes(<<>>, [parser EXCEPT !.starving = TRUE])
                  [] ends -> Becomes(parser.head, [parser EXCEPT !.at = "end", !.matched = FALSE,
                                                   !.head = <<>>, !.closed = suffix.kind = "close"])
                  [] suffix.kind = "false" ->
                       Becomes(parser.head \o Delim, [parser EXCEPT !.matched = FALSE, !.head = <<>>])
                  [] OTHER -> Becomes(<<>>, Fail(parser))
        ELSE IF found # 0
        THEN /\ buffer' = From(buffer, found + Retain)
             /\ Becomes(<<>>, [parser EXCEPT !.matched = TRUE, !.head = SubSeq(buffer, 1, found - 1)])
        ELSE IF parser.eof THEN Becomes(<<>>, Fail(parser)) /\ UNCHANGED buffer
        ELSE LET n == IF Safe(buffer) > 0 THEN Safe(buffer) ELSE 0
             IN /\ buffer' = From(buffer, n + 1)
                /\ Becomes(SubSeq(buffer, 1, n), [parser EXCEPT !.starving = TRUE])
  /\ UNCHANGED <<body, wire>>

NextHeaders(p) ==
  IF p.closed THEN [p EXCEPT !.at = "done"]
  ELSE [p EXCEPT !.at = "headers", !.kind = "none", !.used = 0, !.starving = FALSE]

\* The generator of a part returns: its reader is told, the iterator goes on.
EndPart ==
  /\ Stepping("end")
  /\ IF consumer = "reading"
     THEN /\ consumer' = "holding" /\ parser' = [parser EXCEPT !.returned = TRUE]
          /\ parts' = [parts EXCEPT ![Len(parts)].state = "whole"]
     ELSE /\ consumer' = "draining" /\ parser' = NextHeaders(parser)
          /\ parts' = parts
  /\ UNCHANGED <<body, wire, buffer>>

-----------------------------------------------------------------------------
(* The consumer *)

Holding == consumer = "holding" /\ parser.at \notin {"done", "failed"}

ReadOn ==
  /\ Holding /\ parser.at \in {"body", "end"} /\ ~parser.returned
  /\ consumer' = "reading"
  /\ UNCHANGED <<body, wire, buffer, parser, parts>>

\* for await (... of part.body) { break }: the generator is closed, nothing is
\* scanned any more.
Break ==
  /\ Holding /\ parser.at \in {"body", "end"} /\ ~parser.returned
  /\ parser' = [parser EXCEPT !.returned = TRUE]
  /\ parts' = [parts EXCEPT ![Len(parts)].state = "broken"]
  /\ UNCHANGED <<body, wire, buffer, consumer>>

\* The next part is asked for.  A generator that is not finished is drained;
\* of one that was closed nothing comes, and the headers are read at once.
Advance ==
  /\ Holding
  /\ consumer' = "draining"
  /\ parser' = IF parser.at \in {"body", "end"} /\ parser.returned THEN NextHeaders(parser) ELSE parser
  /\ UNCHANGED <<body, wire, buffer, parts>>

\* A part failed under its reader, who alone was told: the generator of the
\* part threw, the iterator did not run.  (A part that fails while it is drained
\* or skipped, and headers that fail, end the iterator.)
Thrown == parser.at = "failed" /\ consumer = "reading"
TooMuch == parser.size > PartLimit[parser.kind] \/ parser.total > MaxTotal

\* A reader who caught the error asks for the next part.  Nothing comes of the
\* generator that threw, and headers are read wherever the scan was left; over
\* a limit the body had been cancelled, and what is in the buffer is its rest.
GoOn ==
  /\ Thrown
  /\ consumer' = "draining"
  /\ parser' = NextHeaders([parser EXCEPT !.matched = FALSE, !.head = <<>>])
  /\ parts' = [parts EXCEPT ![Len(parts)].state = "broken"]
  /\ wire' = IF TooMuch THEN <<>> ELSE wire
  /\ UNCHANGED <<body, buffer>>

\* The iterator itself is closed: the body is cancelled.
Abandon ==
  /\ Holding \/ Thrown
  /\ consumer' = "gone" /\ wire' = <<>>
  /\ UNCHANGED <<body, buffer, parser, parts>>

MultipartNext ==
  \/ Fill \/ SkipPreamble \/ ReadHeader \/ ScanBody \/ EndPart
  \/ ReadOn \/ Break \/ Advance \/ GoOn \/ Abandon

MultipartSpec == MultipartInit /\ [][MultipartNext]_multipartVars

-----------------------------------------------------------------------------
(* Properties *)

(* The parts of a body that lies there as a whole. *)

\* The first delimiter: a boundary that more data follows is none.
Delimiters(rest, needle) ==
  {i \in 1..(Len(rest) - Len(needle) + 1) :
     /\ SubSeq(rest, i, i + Len(needle) - 1) = needle
     /\ Suffix(From(rest, i + Len(needle)), TRUE).kind # "false"}

\* What is before it and after it, and whether another part follows.
Cut(rest, needle) ==
  LET at == Lowest(Delimiters(rest, needle))
      after == From(rest, at + Len(needle))
      suffix == Suffix(after, TRUE)
  IN IF at = 0 THEN [before |-> rest, kind |-> "truncated", rest |-> <<>>]
     ELSE [before |-> SubSeq(rest, 1, at - 1), kind |-> suffix.kind,
           rest |-> From(after, suffix.used + 1)]

\* The headers end with the first empty line, and the first line that has a
\* disposition decides what the part is.
LineStarts(rest) == {i \in DOMAIN rest : i = 1 \/ rest[i - 1] = "n"}
LineAt(rest, i) == Chomp(Line(From(rest, i)))
EmptyLine(rest) == Lowest({i \in LineStarts(rest) : LineAt(rest, i) = <<>>})
Kind(rest) ==
  LET named == Lowest({i \in LineStarts(rest) :
                         i < EmptyLine(rest) /\ LineAt(rest, i) \in {<<"f">>, <<"d">>}})
  IN IF named = 0 THEN "none" ELSE Disposition("none", LineAt(rest, named))
Content(rest) == From(rest, EmptyLine(rest) + Len(Line(From(rest, EmptyLine(rest)))) + 1)

\* From the headers of a part to those of the next one.  A part that the body
\* ends in counts, one whose headers it ends in does not.
NextPart(s) ==
  LET cut == Cut(Content(s.rest), Delim)
  IN IF s.kind # "next" THEN s
     ELSE IF EmptyLine(s.rest) = 0 THEN [s EXCEPT !.kind = "truncated"]
     ELSE [rest |-> cut.rest, kind |-> cut.kind,
           sent |-> IF Kind(s.rest) = "none" THEN s.sent
                    ELSE Append(s.sent, [kind |-> Kind(s.rest), bytes |-> cut.before])]

\* As every part is shorter than the body, there are fewer than it has bytes.
Reading(b) ==
  LET first == Cut(b, FirstNeedle)
      reading[k \in 0..(Len(b) + 1)] ==
        IF k = 0 THEN [rest |-> first.rest, kind |-> first.kind, sent |-> <<>>]
        ELSE NextPart(reading[k - 1])
  IN reading
Sent(b) == Reading(b)[Len(b) + 1].sent

\* The parts handed out are among those sent: what a consumer has of a part is
\* where that part begins, and what it was told is whole is the whole of it.
Agree(sent) ==
  /\ Len(parts) <= Len(sent)
  /\ \A i \in DOMAIN parts :
       /\ parts[i].kind = sent[i].kind
       /\ IsPrefix(parts[i].bytes, sent[i].bytes)
       /\ parts[i].state = "whole" => parts[i].bytes = sent[i].bytes

\* A consumer broke out of a part, or caught its error and went on.  The generator
\* that would be drained has ended, and the remainder of the part is read as the
\* headers of a next one: of what is handed out from then on nothing is said.
Broken == \E i \in DOMAIN parts : parts[i].state = "broken"

\* The buffer holds a chunk, the tail in which a delimiter may begin, and of
\* headers one line.
Held == Retain + MaxPadding + MaxChunk
BufferSmall ==
  /\ parser.at \in {"preamble", "body", "end"} => Len(buffer) <= Held
  /\ parser.at = "headers" => Len(buffer) <= MaxLine + Held

\* However a body is cut into chunks, and whatever the consumer leaves unread:
\* unless it breaks out of a part or goes on after one that failed, the parts
\* are those that were sent, all of them when the iteration is over.  Even then
\* no more than a chunk, a tail and a line of headers is held at a time.
PartsExact ==
  /\ ~Broken => Agree(Sent(body)) /\ (parser.at = "done" => Len(parts) = Len(Sent(body)))
  /\ BufferSmall

=============================================================================
