SPECIFICATION FairSpec
CONSTANTS
  w1 = w1
  w2 = w2
  r1 = r1
  r2 = r2
  e1 = e1
  t1 = t1
  t2 = t2
  t3 = t3
  t4 = t4
  t5 = t5
  t6 = t6
  NoEvent = NoEvent
  NoToken = NoToken
  Workers <- TwoWorkers
  KeyedWorkers <- OneWorker
  Requests <- OneRequest
  Events <- OneEvent
  ManualEvents <- NoManual
  Tokens <- SixTokens
  MaxIncidents = 1
  NumPhases = 2
  MaxCrashes = 3
  MaxFaults = 1
  MaxRetries = 1
  FaultKinds <- Refused
  LeaseOutlastsWork = TRUE
INVARIANTS ReviewIsComplete OneWorkerPerIncident
PROPERTIES FollowsLifecycle EveryIncidentSettles
