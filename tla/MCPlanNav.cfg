SPECIFICATION FairSpec
CONSTANTS
  Quiet = 1
  SettleCap = 2
  Verify = 1
  SeekCheck = 1
  PinGate = 1
  EscMax = 2
  MenuN = 3
  Pin <- MCPin
  Routes <- AnyRoutes
  Views = {v1, v2}
  SeenMax = 2
  ParkCap = 2
  Interval = 1
  BackoffCap = 1
INVARIANTS TypeOK
PROPERTIES NoMoveAfterPark WalkEmitsOnce FreshAnchor CycleEnds
