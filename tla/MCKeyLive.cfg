SPECIFICATION FairSpec
CONSTANTS
  p1 = p1
  p2 = p2
  Presses = {p1, p2}
  NoPress = NoPress
  QueueDepth = 1
  Ttl = 2
  DisarmWait = 2
  VerdictWait = 2
  RepeatInterval = 1
  Repeat = 2
  AckWindow = 1
  MaxBurst = 1
  TaskLag = 1
  MemberGap = 1
  AckLoss = TRUE
INVARIANT AcceptedWasTaken
PROPERTY NeverSentAgain
PROPERTY EveryPressLeaves
