SPECIFICATION Spec
CONSTANTS
  Clients <- Namesakes
  Limit <- ALimit
  Ceiling <- ACeiling
  Window = 2
  Second = 2
  SignatureLife = 1
  MaxKeys = 1
  Forms <- ThreeForms
  MaxTime = 3
  MaxSends = 2
INVARIANTS BudgetKept WaitIsEnough AnswersTellTruth
