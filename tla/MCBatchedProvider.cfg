SPECIFICATION BatchedSpec
CONSTANTS
  Stores = {s}
  TxListeners = {h}
  Waits = {w}
  Calls = {c, d}
  Uses <- MCUses
  MaxBlock = 3
  MaxSockets = 2
  MaxDrops = 1
  Confirmations = 2
INVARIANTS
  ClosedIsClosed
  AnswersItsBlock
PROPERTIES
  WaitsEnd
  ReadsSettle
CHECK_DEADLOCK FALSE
