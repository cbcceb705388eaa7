SPECIFICATION FairSpec
CONSTANTS
  Runs = {r1}
  MaxEvents = 5
  MaxFaults = 1
  MaxKills = 1
  FaultKinds <- AnyFault
INVARIANTS TimelineHasNoHoles RowTellsTimeline FinishedIsHonest
PROPERTY RunsLeaveRunning
CHECK_DEADLOCK FALSE
