SPECIFICATION MCSpec
CONSTANTS
  Focused = {"multipart", "frames", "exchange", "sink"}
  Byte = {"r", "n", "-", "b", " ", "t", "f", "d", "h", "x", "y"}
  Bodies <- MCBodies
  MaxChunk = 3
  MaxPadding = 1
  MaxHeaders = 7
  MaxLine = 8
  PartLimit <- MCPartLimit
  MaxFiles = 2
  MaxFields = 3
  MaxTotal = 7
  Base = 2
  Short = 2
  WideDigits = 3
  MaskLen = 2
  Payloads <- MCPayloads
  Masks <- MCMasks
  MaxFrames = 3
  MaxPush = 4
  LargestLength = 6
  Upload = 2
  Replies <- MCReplies
  Uploads = {"u1", "u2"}
  Names = {"a", "b"}
  MaxBytes = 2
  MaxChunks = 3
CHECK_DEADLOCK FALSE
INVARIANTS
  PartsExact MessagesArrive ExchangeWhole UploadsExact
PROPERTIES
  AllReleased
