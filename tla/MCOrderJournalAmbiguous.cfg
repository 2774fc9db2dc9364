CONSTANTS
  ClientIds = {c1}
  Requests <- SettlingRequests
  MaxTerminal = 1
  MaxStored = 5
SPECIFICATION Spec
INVARIANTS
  StoreReplayable
