CONSTANTS
  Runs = {r1, r2}
  Signals <- RiskSignals
  Accounts <- RiskAccounts
  Modified = {50, 250}
  Drifts <- PriceDrifts
  Limits <- RiskLimits
  MaxAttempts = 3
SPECIFICATION SizingSpec
INVARIANT ExposureWithinCap
CHECK_DEADLOCK FALSE
