SPECIFICATION AgentSpec
CONSTANTS
  Nil = Nil
  Greeting = TRUE
  MaxFinals = 1
  MaxDeltas = 1
  MaxFrames = 1
  FrameSize = 1
  PlaybackCap = 1
  OutCap = 1
  PrebufferFrames = 1
  StartTimeoutTicks = 1
  MaxAccFrames = 2
  MaxUnits = 2
CONSTRAINT SessionUp
INVARIANTS
  ClearSilencesReply
CHECK_DEADLOCK FALSE
