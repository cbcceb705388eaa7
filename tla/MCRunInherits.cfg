SPECIFICATION Spec
CONSTANTS
  MaxRuns = 2
  NumPhases = 1
  MaxTurns = 2
  MaxCalls = 1
  DemoModes <- LiveOnly
  Tapes <- NoTape
INVARIANT NeverInherits
CHECK_DEADLOCK FALSE
