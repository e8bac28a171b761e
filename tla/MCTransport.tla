----------------------------- MODULE MCTransport -----------------------------
(***************************************************************************)
(* What happens to bytes on their way: the exchanges of the Node adapter,  *)
(* the files it saves, the parts of multipart bodies and the frames of     *)
(* WebSockets.  "focus" says which of them a behaviour exercises.          *)
(***************************************************************************)
EXTENDS Multipart, Frames, NodeAdapter, DiskSink, TLC

CONSTANT Focused

VARIABLE focus

File(bytes) == Delim \o <<"r", "n", "f", "r", "n", "r", "n">> \o bytes
Field(bytes) == Delim \o <<" ", "r", "n", "d", "r", "n", "r", "n">> \o bytes
Close_ == Delim \o <<"-", "-">>
MCBodies ==
  {Tail(Tail(File(c))) \o Field(<<"x">>) \o Close_ : c \in BoundedSeq({"x", "r", "n", "-"}, 2)} \cup
  {Tail(Tail(File(<<"x", "y">>))) \o Field(<<"r", "n", "-", "-">>) \o Close_,
   <<"x", "-", "-", "b", "x">> \o File(<<>>) \o Delim \o <<"n", "h", "r", "n", "r", "n", "x">> \o File(<<"n", "x">>) \o Close_ \o <<"x">>,
   Field(Delim \o <<"x">>) \o Field(<<"x", "x", "x", "x">>) \o Close_,
   File(<<"x", "r", "n", "r", "n">>) \o Delim \o <<" ", "r">>,
   File(<<"x">>) \o Delim \o <<" ", " ", "r", "n", "f">> \o Close_, Field(<<"x", "r">>),
   <<"-", "-", "b", "-", "-">>, <<"x", "x">>,
   <<"-", "-", "b", "n">> \o [i \in 1..12 |-> "h"] \o <<"n">>}
MCPartLimit == [file |-> 4, field |-> 6]

Ones(n) == [i \in 1..n |-> 1]
MCPayloads == {Ones(n) : n \in {1, 2, 4}}
MCMasks == {<<>>, <<1, 0>>, <<0, 1>>}
\* Bounds of a stream of frames: the first is not masked, the others are, each in
\* its own way; a stream ends when onFrame has thrown, after which nothing is
\* promised.
MCMasking == <<<<>>, <<1, 0>>, <<0, 1>>>>
MCFrames ==
  /\ ~threw /\ FramesNext
  /\ \A i \in DOMAIN framesSent' : framesSent'[i].mask = MCMasking[i]

MCReplies == {[status |-> 200, chunks |-> n] : n \in {-1, 0, 2}} \cup {[status |-> 500, chunks |-> -1]}

MCInit ==
  /\ focus \in Focused
  /\ MultipartInit /\ FramesInit /\ ExchangeInit /\ SinkInit
  /\ focus # "multipart" => body = <<"x", "x">>
  /\ focus # "sink" => \A u, v \in Uploads : named[u] = named[v]
MCNext ==
  /\ UNCHANGED focus
  /\ \/ focus = "multipart" /\ MultipartNext /\ UNCHANGED <<frameVars, exchangeVars, sinkVars>>
     \/ focus = "frames" /\ MCFrames /\ UNCHANGED <<multipartVars, exchangeVars, sinkVars>>
     \/ focus = "exchange" /\ ExchangeNext /\ UNCHANGED <<multipartVars, frameVars, sinkVars>>
     \/ focus = "sink" /\ SinkNext /\ UNCHANGED <<multipartVars, frameVars, exchangeVars>>
\* The event loop goes on: see Flow and SinkStep.
MCSpec ==
  /\ MCInit /\ [][MCNext]_<<focus, multipartVars, frameVars, exchangeVars, sinkVars>>
  /\ WF_exchangeVars(focus = "exchange" /\ Flow)
  /\ \A u \in Uploads : WF_sinkVars(focus = "sink" /\ SinkStep(u))

\* A client that stays is released, and an upload is reported.
AllReleased ==
  /\ focus = "exchange" => ClientsReleased
  /\ focus = "sink" => UploadsSettle
=============================================================================
