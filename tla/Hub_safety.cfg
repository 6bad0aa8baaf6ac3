SPECIFICATION Spec
CONSTANTS
  Nil = Nil
  p0 = p0
  p1 = p1
  c0 = c0
  c1 = c1
  Publishers <- MCPublishers
  Clients <- MCOneClient
  Cap = 2
  HistoryLimit <- MCHistoryLimit
  MaxPublished = 4
SYMMETRY HubSymmetry
INVARIANTS
  TypeOK
  NoGap
  LiveInOrder
  NoSendOnClosed
CHECK_DEADLOCK FALSE
