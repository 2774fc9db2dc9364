SPECIFICATION AdmissionSpec
CONSTANTS
  r1 = r1
  r2 = r2
  o1 = o1
  btc = btc
  eth = eth
  Nobody = Nobody
  Procs = {r1, r2, o1}
  Runs = {r1, r2}
  Symbols = {btc, eth}
  QueueSize = 2
  MaxConcurrency = 1
  RunLimit = 1
  Contended = {btc}
  MaxPolls = 2
  Windows = {}
INVARIANTS
  OneRunPerSymbol
  HistoryKept
  DecisionHonoured
  ShutdownQuiet
  PostsOnce
  ReportAgrees
PROPERTIES
  RunEnds
  CloseReturns
  PlaceContractKept
  PlaceReturns
