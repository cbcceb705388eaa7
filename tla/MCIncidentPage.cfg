SPECIFICATION FairSpec
CONSTANTS
  MaxRows = 2
  MaxForms = 2
  MaxKeys = 2
INVARIANTS DeletedStaysGone DetailIsSelected OneRowPerForm
PROPERTY ListCatchesUp
CHECK_DEADLOCK FALSE
