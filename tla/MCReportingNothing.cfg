SPECIFICATION Spec
CONSTANTS
  Clients <- Namesakes
  Limit <- ALimit
  Ceiling <- ACeiling
  Window = 2
  Second = 2
  SignatureLife = 1
  MaxKeys = 2
  Forms <- OneForm
  MaxTime = 2
  MaxSends = 3
INVARIANT NothingMeansNone
