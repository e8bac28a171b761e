------------------------------- MODULE Frames -------------------------------
(***************************************************************************)
(* The WebSocket codec: encodeFrame() on one side, createFrameParser() on  *)
(* the other, and a stream between them that is cut anywhere.              *)
(*                                                                         *)
(* The numbers are scaled: a byte is a digit of base Base, a length below  *)
(* Short (126) is written as itself, one below Base * Base (65536) as    *)
(* two digits and any other as WideDigits (8); a mask has MaskLen (4)      *)
(* digits, and of a first or second byte the upper half is its flag.       *)
(***************************************************************************)
EXTENDS Integers, Sequences, SequencesExt

CONSTANTS Base, Short, WideDigits, MaskLen,
          Payloads,    \* the payloads of frames: sequences of 0 and 1
          Masks,       \* the masks in use
          MaxFrames,   \* bound on the frames sent
          MaxPush,     \* bound on the size of a chunk
          LargestLength \* Number.MAX_SAFE_INTEGER

\* The opcodes: a continuation, a text, and a control frame.
Continuation == 0
Text == 1
Close == 8
Flag == 16

VARIABLES
  framesSent,  \* the frames encoded: [fin, opcode, data, mask]
  stream,      \* bytes on their way
  pending,     \* the parser's buf
  fragments,   \* its fragOpcode (-1 for none) and fragParts
  framesHeard, \* the calls of onFrame
  refused,     \* push() threw, for what the stream is
  threw,       \* onFrame threw, and push() with it
  heardFirst   \* what onFrame had heard when it first threw

frameVars == <<framesSent, stream, pending, fragments, framesHeard, refused, threw, heardFirst>>

FramesInit ==
  /\ framesSent = <<>> /\ stream = <<>> /\ pending = <<>> /\ framesHeard = <<>>
  /\ fragments = [opcode |-> -1, parts |-> <<>>] /\ refused = FALSE
  /\ threw = FALSE /\ heardFirst = <<>>

\* n without its last 0 to k digits.
Shifts(n, k) == LET rest[i \in 0..k] == IF i = 0 THEN n ELSE rest[i - 1] \div Base IN rest
Digits(n, k) == [i \in 1..k |-> Shifts(n, k)[k - i] % Base]
Number(digits) ==
  LET value[i \in 0..Len(digits)] == IF i = 0 THEN 0 ELSE value[i - 1] * Base + digits[i]
  IN value[Len(digits)]

ASSUME FramesAssumption ==
  /\ Base \in Nat /\ Base > 1 /\ Short \in Nat /\ Short + 1 < Flag
  /\ WideDigits \in Nat \ {0} /\ MaskLen \in Nat \ {0} /\ LargestLength \in Nat
  /\ MaxPush \in Nat
  /\ Payloads \subseteq Seq({0, 1})
  /\ Masks \subseteq {<<>>} \cup [1..MaskLen -> {0, 1}]
  /\ \A p \in Payloads :
       Len(p) <= LargestLength /\ Shifts(Len(p), WideDigits)[WideDigits] = 0

Masked(data, mask) ==
  [i \in DOMAIN data |-> (data[i] + mask[((i - 1) % MaskLen) + 1]) % 2]

EncodeFrame(f) ==
  LET len == Len(f.data)
      code == IF len < Short THEN len ELSE IF len < Base * Base THEN Short ELSE Short + 1
      extended == IF len < Short THEN <<>> ELSE Digits(len, IF len < Base * Base THEN 2 ELSE WideDigits)
  IN <<(IF f.fin THEN Flag ELSE 0) + f.opcode, (IF f.mask # <<>> THEN Flag ELSE 0) + code>>
     \o extended \o f.mask \o (IF f.mask = <<>> THEN f.data ELSE Masked(f.data, f.mask))

Outcome(kind) == [kind |-> kind]

\* tryParse(): a whole frame, or one that has to wait for more, or an error.
TryParse(buf, off) ==
  LET size == Len(buf) - off
      fin == buf[off + 1] >= Flag
      opcode == buf[off + 1] % Flag
      code == buf[off + 2] % Flag
      digits == IF code = Short THEN 2 ELSE IF code = Short + 1 THEN WideDigits ELSE 0
      len == IF digits = 0 THEN code ELSE Number(SubSeq(buf, off + 3, off + 2 + digits))
      mask == IF buf[off + 2] >= Flag THEN MaskLen ELSE 0
      head == 2 + digits + mask
      data == SubSeq(buf, off + head + 1, off + head + len)
  IN IF size < 2 \/ size < 2 + digits THEN Outcome("more")
     ELSE IF (code = Short + 1 /\ len > LargestLength) \/ (opcode >= Close /\ (~fin \/ len >= Short))
     THEN Outcome("error")
     ELSE IF size < head + len THEN Outcome("more")
     ELSE [kind |-> "frame", fin |-> fin, opcode |-> opcode, next |-> off + head + len,
           data |-> IF mask = 0 THEN data
                    ELSE Masked(data, SubSeq(buf, off + 2 + digits + 1, off + head))]

\* The parts of a message put together.
Merged(parts) ==
  LET merged[k \in 0..Len(parts)] == IF k = 0 THEN <<>> ELSE merged[k - 1] \o parts[k]
  IN merged[Len(parts)]

\* Fault: a continuation is appended to what a control frame left behind.
Deliver_Mixes(raw, frag) ==
  LET Heard(opcode, data, left) ==
        [kind |-> "heard", frames |-> <<[opcode |-> opcode, data |-> data]>>, frag |-> left]
      Waits(left) == [kind |-> "heard", frames |-> <<>>, frag |-> left]
      none == [opcode |-> -1, parts |-> <<>>]
      parts == Append(frag.parts, raw.data)
  IN IF raw.opcode >= Close THEN Heard(raw.opcode, raw.data, none)
     ELSE IF raw.opcode = Continuation
     THEN IF frag.opcode = -1 THEN Outcome("error")
          ELSE IF raw.fin THEN Heard(frag.opcode, Merged(parts), none)
          ELSE Waits([frag EXCEPT !.parts = parts])
     ELSE IF frag.opcode # -1 THEN Outcome("error")
     ELSE IF raw.fin THEN Heard(raw.opcode, raw.data, frag)
     ELSE Waits([opcode |-> raw.opcode, parts |-> <<raw.data>>])

\* deliver(): what one frame adds to onFrame's calls, and leaves unfinished.
Deliver(raw, frag) ==
  LET Heard(opcode, data, left) ==
        [kind |-> "heard", frames |-> <<[opcode |-> opcode, data |-> data]>>, frag |-> left]
      Waits(left) == [kind |-> "heard", frames |-> <<>>, frag |-> left]
      none == [opcode |-> -1, parts |-> <<>>]
      parts == Append(frag.parts, raw.data)
  IN IF raw.opcode = Continuation
     THEN IF frag.opcode = -1 THEN Outcome("error")
          ELSE IF raw.fin THEN Heard(frag.opcode, Merged(parts), none)
          ELSE Waits([frag EXCEPT !.parts = parts])
     ELSE IF raw.opcode >= Close THEN Heard(raw.opcode, raw.data, frag)
     ELSE IF frag.opcode # -1 THEN Outcome("error")
     ELSE IF raw.fin THEN Heard(raw.opcode, raw.data, frag)
     ELSE Waits([opcode |-> raw.opcode, parts |-> <<raw.data>>])

\* A turn of the loop of push(), which runs until no whole frame is left.
Turn(buf, s) ==
  LET parsed == TryParse(buf, s.off)
      d == Deliver(parsed, s.frag)
  IN IF s.at # "parsing" THEN s
     ELSE IF parsed.kind # "frame" THEN [s EXCEPT !.at = parsed.kind]
     ELSE IF d.kind = "error" THEN [s EXCEPT !.at = "error"]
     ELSE [off |-> parsed.next, frag |-> d.frag, heard |-> s.heard \o d.frames, at |-> "parsing"]

Turns(buf, frag) ==
  LET turns[k \in 0..Len(buf)] ==
        IF k = 0 THEN [off |-> 0, frag |-> frag, heard |-> <<>>, at |-> "parsing"]
        ELSE Turn(buf, turns[k - 1])
  IN turns
Loop(buf, frag) == Turns(buf, frag)[Len(buf)]

\* push(): one that throws does not cut buf: the frames it already delivered are
\* delivered again by the next push.
Push ==
  \E n \in 1..MaxPush :
    LET buf == pending \o SubSeq(stream, 1, n)
        r == Loop(buf, fragments)
    IN /\ n <= Len(stream)
       /\ stream' = SubSeq(stream, n + 1, Len(stream))
       /\ pending' = IF r.at = "error" THEN buf ELSE SubSeq(buf, r.off + 1, Len(buf))
       /\ fragments' = r.frag
       /\ framesHeard' = framesHeard \o r.heard
       /\ refused' = (refused \/ r.at = "error")
       /\ UNCHANGED <<framesSent, threw, heardFirst>>

\* push() of which a turn delivers a message to an onFrame that throws: buf is
\* not cut, and the next push begins with the same frames, but with the
\* fragments as this turn left them.
PushThrows ==
  \E n \in 1..MaxPush :
    LET buf == pending \o SubSeq(stream, 1, n)
        turns == Turns(buf, fragments)
    IN /\ n <= Len(stream)
       /\ \E i \in 1..Len(buf) :
            /\ turns[i].heard # turns[i - 1].heard
            /\ fragments' = turns[i].frag
            /\ framesHeard' = framesHeard \o turns[i].heard
       /\ stream' = SubSeq(stream, n + 1, Len(stream))
       /\ pending' = buf
       /\ threw' = TRUE /\ heardFirst' = IF threw THEN heardFirst ELSE framesHeard'
       /\ UNCHANGED <<framesSent, refused>>

\* The other side writes a frame, legal or not, with a mask of its own or none.
Send ==
  /\ Len(framesSent) < MaxFrames /\ ~refused
  /\ \E fin \in BOOLEAN, opcode \in {Continuation, Text, Close}, data \in Payloads, mask \in Masks :
       LET f == [fin |-> fin, opcode |-> opcode, data |-> data, mask |-> mask]
       IN /\ framesSent' = Append(framesSent, f)
          /\ stream' = stream \o EncodeFrame(f)
  /\ UNCHANGED <<pending, fragments, framesHeard, refused, threw, heardFirst>>

FramesNext == Send \/ Push \/ PushThrows

FramesSpec == FramesInit /\ [][FramesNext]_frameVars

-----------------------------------------------------------------------------
(* Properties *)

Control(f) == f.opcode >= Close

\* Of the first k frames the last one with data leaves its message unfinished.
Unfinished(fs, k) ==
  \E j \in 1..k : ~Control(fs[j]) /\ ~fs[j].fin /\ \A i \in (j + 1)..k : Control(fs[i])

\* A stream is legal when the data frames form messages, a start and its
\* continuations, and no control frame is long or in pieces.
Legal(fs) ==
  \A i \in DOMAIN fs :
    IF Control(fs[i]) THEN fs[i].fin /\ Len(fs[i].data) < Short
    ELSE (fs[i].opcode = Continuation) = Unfinished(fs, i - 1)

\* After each frame: the message that the data frames are at, which begins with
\* the last one that is no continuation, and what final frames have ended.
Told(fs) ==
  LET told[k \in 0..Len(fs)] ==
        IF k = 0 THEN [at |-> [opcode |-> -1, data |-> <<>>], messages |-> <<>>]
        ELSE LET f == fs[k]
                 own == [opcode |-> f.opcode, data |-> f.data]
                 before == told[k - 1]
                 at == IF Control(f) THEN before.at
                       ELSE IF f.opcode # Continuation THEN own
                       ELSE [opcode |-> before.at.opcode, data |-> before.at.data \o f.data]
             IN [at |-> at,
                 messages |-> IF ~f.fin THEN before.messages
                              ELSE Append(before.messages, IF Control(f) THEN own ELSE at)]
  IN told
Messages(fs) == Told(fs)[Len(fs)].messages

\* However the stream is cut, whatever mask each frame has, and wherever control
\* frames fall between the fragments of a message: a legal stream is never
\* refused, and what is heard is the messages that were sent, all of them once
\* everything has arrived.  An illegal stream that arrives is refused.  An onFrame
\* that throws has heard the messages in order until then; afterwards, frames may
\* come again and a legal stream may be refused, and nothing is promised.
MessagesArrive ==
  IF threw THEN Legal(framesSent) => IsPrefix(heardFirst, Messages(framesSent))
  ELSE IF Legal(framesSent)
  THEN /\ ~refused
       /\ IsPrefix(framesHeard, Messages(framesSent))
       /\ stream = <<>> => framesHeard = Messages(framesSent)
  ELSE stream = <<>> => refused
=============================================================================
