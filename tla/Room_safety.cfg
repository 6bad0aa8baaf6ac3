SPECIFICATION FairSpec
CONSTANTS
  Nil = Nil
  q0 = q0
  q1 = q1
  Requests <- MCRequests
  MaxJoins = 2
  TTLCoversSession = TRUE
INVARIANTS
  NoOrphanSession
  ClosedRoomIsEmpty
  RecordTracksRoom
PROPERTIES
  SessionsEnd
  RequestsReturn
CHECK_DEADLOCK FALSE
