SPECIFICATION Spec
CONSTANTS
  Nil = Nil
  Greeting = TRUE
  MaxFinals = 2
  MaxDeltas = 1
  MaxFrames = 1
INVARIANTS
  OneLiveResponse
  HistoryAlternates
  NoTranscriptLost
  MetricsNameTheirTurn
  OwnTurnStart
PROPERTIES
  ImplementsTurnTaking
CHECK_DEADLOCK FALSE
