SPECIFICATION MCSpec
CONSTANTS
  Frames <- AllOfThem
  FwdPolls = TRUE
  GapWalk = 2
  Fold = 1
  AbsentAfter = 2
  FwdBackoff = 1
  ProbePace = 1
  BackoffAfter = 2
  MaxShift = 1
  MaxJoins = 4
  Tasks = {"drain", "key"}
INVARIANTS
  TypeOK
  UnackedIsOpen
  FfProbeLeftToPgd
  NoForwardBeforeAck
  KeyNeedsRow
  DrainRenounces
PROPERTIES
  JoinStormDamped
  ForwardsAlternate
