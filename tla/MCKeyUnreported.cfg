SPECIFICATION Spec
CONSTANTS
  p1 = p1
  Presses = {p1}
  NoPress = NoPress
  QueueDepth = 2
  Ttl = 4
  DisarmWait = 2
  VerdictWait = 2
  RepeatInterval = 1
  Repeat = 1
  AckWindow = 1
  MaxBurst = 1
  TaskLag = 2
  MemberGap = 1
  AckLoss = FALSE
SYMMETRY Symmetry
INVARIANT EveryAckedPressReported
