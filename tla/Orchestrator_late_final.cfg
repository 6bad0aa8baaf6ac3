SPECIFICATION Spec
CONSTANTS
  Nil = Nil
  Greeting = FALSE
  MaxFinals = 2
  MaxDeltas = 1
  MaxFrames = 1
INVARIANTS
  TranscriptFiresTurn
CHECK_DEADLOCK FALSE
