SPECIFICATION Spec
CONSTANTS
  CallerSets <- MainOnly
  MaxCalls = 3
  Grace = 2
  DrainQuiet = TRUE
INVARIANTS
  LastWriterWins
