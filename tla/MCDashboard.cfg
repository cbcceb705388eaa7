SPECIFICATION Spec
CONSTANTS
  Kinds <- BothPages
  MaxRuns = 2
  MaxCalls = 1
  MaxFailures = 1
  Tellings = {"nothing", "green"}
  Total = 2
INVARIANTS ReplayLooksLive CaughtUpAgrees
PROPERTIES RevealNeverShrinks PageSettles
CHECK_DEADLOCK FALSE
