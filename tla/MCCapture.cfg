SPECIFICATION Spec
CONSTANTS
  Frames <- MCFrames
  Blank = "blank"
  Slots = 2
  BacklogMax = 0
  DrainMax = 1
  Watched = {1}
  MaxSeq = 3
  MaxTyped = 1
  Reads <- MCReads
INVARIANTS
  TypeOK
  FaithfulReplica
  NothingTypedLost
