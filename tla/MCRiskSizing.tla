---------------------------- MODULE MCRiskSizing ----------------------------
(* Limits, signals and accounts for the model checker: percent of the        *)
(* equity, of the price, or of one; maxScore 100 asks nothing of the score.  *)
EXTENDS RiskSizing, TLC

RiskLimits ==
  [maxRisk |-> 1, maxPosition |-> 20, maxGross |-> 30, maxSymbol |-> 30,
   maxCorrelated |-> 50, maxCVaR |-> 3, maxLeverage |-> 3, maxMargin |-> 12,
   minBuffer |-> 20, stopMultiple |-> 2, volMultiple |-> 3, reserve |-> 2,
   maxDrawdown |-> 10, maxLosses |-> 3, maxOrders |-> 5, maxSlippage |-> 20,
   kellyScale |-> 25, maxQuote |-> 90, minConfidence |-> 60, minRewardRisk |-> 1,
   addDecay |-> 60, addFraction |-> 50, addMinConfidence |-> 65, addMinProfit |-> 1,
   maxAdds |-> 2, minEntry |-> 20, maxScore |-> 100, equity |-> 1000]

(* A long, one that adds to a position, one on spot, and a volatile short.   *)
Long ==
  [side |-> "long", instrument |-> "perp", margin |-> "isolated", entry |-> 100,
   stop |-> 95, take |-> 115, size |-> 0, leverage |-> 1, minLeverage |-> 1,
   existing |-> 0, entries |-> 0, profit |-> 0, cooling |-> FALSE, buffer |-> 0,
   volatility |-> 2, confidence |-> 70]
RiskSignals ==
  {Long,
   [Long EXCEPT !.existing = 170, !.minLeverage = 2, !.entries = 1, !.profit = 10],
   [Long EXCEPT !.instrument = "spot", !.stop = 92],
   [Long EXCEPT !.side = "short", !.stop = 104, !.take = 90, !.volatility = 10]}

(* An account at rest; one whose operator decides; one with exposure and a   *)
(* cluster near its limit; one after too many losses.                        *)
Calm ==
  [equity |-> 1000, gross |-> 0, correlated |-> 0, cluster |-> 0, cvar |-> 10,
   slippage |-> 5, drawdown |-> 0, losses |-> 0, orders |-> 0, kill |-> FALSE,
   reconciling |-> FALSE, estimate |-> 100, automation |-> TRUE]
RiskAccounts ==
  {Calm, [Calm EXCEPT !.automation = FALSE],
   [Calm EXCEPT !.gross = 250, !.correlated = 420, !.cluster = 420, !.automation = FALSE],
   [Calm EXCEPT !.losses = 3]}

PriceDrifts == {0, -3}
=============================================================================
