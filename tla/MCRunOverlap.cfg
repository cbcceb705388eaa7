SPECIFICATION FairSpec
CONSTANTS
  MaxRuns = 2
  NumPhases = 1
  MaxTurns = 1
  MaxCalls = 2
  DemoModes <- AnyMode
  Tapes <- NoTape
INVARIANTS ResolvedAttackIsGreen ReplayIsWhole IncidentRunsTell
PROPERTY EveryRunEnds
CHECK_DEADLOCK FALSE
