SPECIFICATION Spec
CONSTANTS
  h1 = h1
  h2 = h2
  h3 = h3
  NoId = NoId
  Ids <- ThreeIds
  MaxEvidence = 2
  MaxPatches = 2
  RunKinds <- BothKinds
  Tape <- ATape
  Minutes <- TwoMinutes
  MaxLines = 3
  Null = Null
INVARIANTS EndIsIncluded
CHECK_DEADLOCK FALSE
