SPECIFICATION FairSpec
CONSTANTS
  FrameBlocks = 2
  PacketBlocks <- MCPacketBlocks
  QueueCap = 1
  FrameSamples = 320
  WindowSize = 512
  MinSilence = 1600
  ResultsCap = 1
  MaxBlocks = 20
  MessageCost = 9
  MaxMessages = 2
INVARIANTS
  AudioAccounted
  FlagFollowsDetector
  DetectorIsPrompt
  TranscriptsInOrder
PROPERTIES
  EndOnlyAfterSilence
  SessionEnds
CHECK_DEADLOCK FALSE
