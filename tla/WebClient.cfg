SPECIFICATION Spec
CONSTANTS
  Nil = Nil
  MaxCalls = 3
  MaxReleases = 2
  MaxCameras = 1
INVARIANTS
  NothingLeaks
  IdleHoldsNothing
  LatestCallOnly
  ConnectingIsAtWork
  ConnectedIsTrue
PROPERTIES
  CamerasReleased
CHECK_DEADLOCK FALSE
