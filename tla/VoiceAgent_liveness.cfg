SPECIFICATION FairAgentSpec
CONSTANTS
  Nil = Nil
  Greeting = FALSE
  MaxFinals = 1
  MaxDeltas = 1
  MaxFrames = 1
  FrameSize = 1
  PlaybackCap = 1
  OutCap = 1
  PrebufferFrames = 1
  StartTimeoutTicks = 1
  MaxAccFrames = 2
  MaxUnits = 1
VIEW ViewWithoutRecords
PROPERTIES
  ResponseEnds
  CancelledWorkersReturn
CHECK_DEADLOCK FALSE
