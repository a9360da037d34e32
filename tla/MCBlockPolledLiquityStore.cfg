SPECIFICATION FairSpec
CONSTANTS
  Transaction <- MCTransaction
  Touches <- MCTouches
  Approval = "approval"
  Fetches = {f, g}
  MaxBlock = 3
INVARIANT
  SameReads
PROPERTIES
  ImplementsDataStore
  CatchesUp
CHECK_DEADLOCK FALSE
