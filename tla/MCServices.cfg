CONSTANTS
  ClientIds = {b1, b2}
  Requests <- MCRequests
  MaxTerminal = 1
  MaxStored = 4
  MaxWrites = 3
  MaxCrashes = 3
  Processes = {b1, b2}
  Sessions = 5
  MaxPosts = 2
  Calls = {a1, a2, a3}
  Days = {1, 2}
  TokenBudget = 4
  Allowance = 2
  Usages = {1, 3}
  SessionTokens = 1
  SessionCalls = 1
  Windows = {0, 1}
  MaxRetries = 1
  Threshold = 1
  QueueSize = 1
  Emitters = {e1, e2}
  Browsers = {b1, b2}
  Slots = 2
  MaxEvents = 3
  MaxTime = 2
  MaxConnects = 2
  HistoryLimit = 2
  Buffer = 1
  ReplayLimit = 1
  Updaters = {b1, b2}
  Nobody = Nobody
  Edits <- SettingsEdits
  Env <- SettingsEnv
  MaxToggles = 2
  Runs = {b1, b2}
  Signals <- RiskSignals
  Accounts <- RiskAccounts
  Modified = {50, 250}
  Drifts <- PriceDrifts
  Limits <- RiskLimits
  MaxAttempts = 3
  Marks <- PriceMarks
  Trails = {1}
  ProfitTarget = 3
  LossCut = 2
  TrailActivation = 2
  MinSamples = 2
  ExitConfirmations = 2
  ReverseConfirmations = 2
  SignalWindow = 1
  Cooldown = 1
  MaxReversalsPerDay = 1
  DayLength = 3
  Horizon = 5
SYMMETRY Symmetry
SPECIFICATION ServicesSpec
INVARIANTS
  ViewMatchesStore
  FileStoreReplayable
  
  
  
  StreamsComplete
  SettingsKept
  
  ReversalsLimited
  EvidenceIsRecent
  GatesAgree
PROPERTIES
  RestartRestoresLog
  LifecycleImplemented
CHECK_DEADLOCK FALSE
