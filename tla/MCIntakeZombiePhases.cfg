SPECIFICATION Spec
CONSTANTS
  w1 = w1
  w2 = w2
  r1 = r1
  r2 = r2
  e1 = e1
  t1 = t1
  t2 = t2
  t3 = t3
  t4 = t4
  t5 = t5
  t6 = t6
  NoEvent = NoEvent
  NoToken = NoToken
  Workers <- TwoWorkers
  KeyedWorkers <- TwoWorkers
  Requests <- OneRequest
  Events <- OneEvent
  ManualEvents <- NoManual
  Tokens <- SixTokens
  MaxIncidents = 1
  NumPhases = 2
  MaxCrashes = 0
  MaxFaults = 0
  MaxRetries = 0
  FaultKinds <- NoFault
  LeaseOutlastsWork = FALSE
PROPERTY OwnersProgressStays
