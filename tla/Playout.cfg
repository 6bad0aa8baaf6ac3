SPECIFICATION FairSpec
CONSTANTS
  w0 = w0
  Callers <- MCOneCaller
  FrameSize = 2
  PlaybackCap = 1
  OutCap = 1
  PrebufferFrames = 2
  StartTimeoutTicks = 2
  MaxAccFrames = 2
  MaxUnits = 3
PROPERTIES
  ImplementsPlayoutQueue
  WaitForDrainEnds
  AudioLeaves
CHECK_DEADLOCK FALSE
