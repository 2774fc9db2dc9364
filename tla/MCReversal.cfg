CONSTANTS
  Marks = {0, 1, 2}
  Trails = {1}
  ProfitTarget = 3
  LossCut = 2
  TrailActivation = 2
  MinSamples = 2
  ExitConfirmations = 2
  ReverseConfirmations = 2
  SignalWindow = 1
  Cooldown = 1
  MaxReversalsPerDay = 1
  DayLength = 3
  Horizon = 5
SPECIFICATION AutomationSpec
INVARIANT ConsecutiveSignals
CHECK_DEADLOCK FALSE
