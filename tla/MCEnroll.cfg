SPECIFICATION FairSpec
CONSTANTS
  CallerSets <- Either
  MaxCalls = 4
  Grace = 2
  DrainQuiet = TRUE
INVARIANTS
  TypeOK
  StateReported
  JoinCertified
  RenounceWhileDraining
  CommandsWin
PROPERTIES
  CommandsGraceful
  LeaveCompletes
