SPECIFICATION Spec
CONSTANTS
  p1 = p1
  p2 = p2
  Presses = {p1, p2}
  NoPress = NoPress
  QueueDepth = 2
  Ttl = 4
  DisarmWait = 2
  VerdictWait = 2
  RepeatInterval = 1
  Repeat = 1
  AckWindow = 1
  MaxBurst = 1
  TaskLag = 2
  MemberGap = 1
  AckLoss = FALSE
SYMMETRY Symmetry
INVARIANT TypeOK
INVARIANT SingleVerdict
INVARIANT ExpiredNeverSent
INVARIANT RejectedNotTaken
PROPERTY SentWhileFresh
PROPERTY ImplementsLifecycle
