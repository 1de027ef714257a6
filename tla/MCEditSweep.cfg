SPECIFICATION Spec
CONSTANTS
  Quiet = 1
  SettleCap = 4
  Verify = 3
  SeekCheck = 1
  PinGate = 1
  EscMax = 2
  MenuN = 2
  Pin <- MCPin
  Top = 2
  Visits <- MCVisits
  Attempts = 2
  MaxPress = 4
  Deadline = 5
  Ttl = 2
  Torn <- MCTorn
  NearRows <- MCNear
  NoRow <- MCNoRow
INVARIANT SweepOnPage
