SPECIFICATION Spec
CONSTANTS
  Clients <- Strangers
  Limit <- OneEach
  Ceiling <- ACeiling
  Window = 2
  Second = 1
  SignatureLife = 1
  MaxKeys = 2
  Forms <- OneForm
  MaxTime = 2
  MaxSends = 3
INVARIANT RetrySucceeds
