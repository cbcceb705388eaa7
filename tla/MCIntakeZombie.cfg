SPECIFICATION Spec
CONSTANTS
  w1 = w1
  w2 = w2
  r1 = r1
  r2 = r2
  e1 = e1
  t1 = t1
  t2 = t2
  t3 = t3
  t4 = t4
  t5 = t5
  t6 = t6
  NoEvent = NoEvent
  NoToken = NoToken
  Workers <- TwoWorkers
  KeyedWorkers <- TwoWorkers
  Requests <- TwoRequests
  Events <- OneEvent
  ManualEvents <- OneEvent
  Tokens <- SixTokens
  MaxIncidents = 2
  NumPhases = 1
  MaxCrashes = 0
  MaxFaults = 1
  MaxRetries = 1
  FaultKinds <- AnyFault
  LeaseOutlastsWork = FALSE
INVARIANT ReportIsHolders
PROPERTIES AnswersAreStored LeaseProtectsRow DeletedStaysDeleted
SYMMETRY Symmetric
