SPECIFICATION Spec
CONSTANTS
  MaxHandlers = 3
  MaxFailures = 1
  MaxReconciles = 2
  MaxAdds = 1
  MaxLosses = 2
  Orders <- ClientIds
  Prices = {10, 20, 30}
  Intents <- Entries
  InitialQuote = 100
  FeeDivisor = 10
  Slippage = 1
INVARIANTS FlattenedIfUnprotected
