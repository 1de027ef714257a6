SPECIFICATION FairSpec
CONSTANTS
  sp = sp
  ro = ro
  Macros <- MCMacros
  ReadOnly <- MCReadOnly
  NoExtract <- MCReadOnly
  Unlisted <- MCReadOnly
  Uncounted <- MCUncounted
  QN = 3
INVARIANTS TypeOK
PROPERTIES KeepsOrder SetsServed
