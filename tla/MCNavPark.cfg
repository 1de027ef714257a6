SPECIFICATION FairSpec
CONSTANTS
  Quiet = 1
  SettleCap = 2
  Verify = 1
  SeekCheck = 1
  PinGate = 1
  EscMax = 2
  MenuN = 3
  Pin <- MCPin
  Routes <- Short
  Views = {v1}
  SeenMax = 2
  ParkCap = 2
  Interval = 1
  BackoffCap = 1
PROPERTIES ParkEnds
