SPECIFICATION FairSpec
CONSTANTS
  Letters <- MCLetters
  Abbreviations <- MCAbbreviations
  MaxChunkChars = 5
  Deltas <- MCDeltas
  ByteCounts <- MCByteCounts
  FromRates <- MCFromRates
  To = 2
  FrameLen = 2
  MaxText = 5
  MaxWork = 6
INVARIANTS
  TextConserved
  StreamSafe
  AudioExact
  FadesAtTheEdges
  NoStreamLeftBehind
PROPERTIES
  CancelEndsReply
CHECK_DEADLOCK FALSE
