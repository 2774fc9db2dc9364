----------------------------- MODULE RiskSizing -----------------------------
(* How a signal becomes a size: the strategist's proposal                    *)
(* (agents/strategist.go) or a tranche of a position (orchestrator/addon.go),*)
(* the deterministic rules (risk/engine.go), the leverage model              *)
(* (risk/leverage.go, orchestrator/leverage.go), the automatic approval      *)
(* (orchestrator/automation.go) or the operator's, and the loop that repeats *)
(* rules and leverage until nothing shrinks any more.  Runs of different     *)
(* symbols do this side by side on one account.                              *)
(*                                                                           *)
(* Prices and fractions are percentages of the reference price and of the    *)
(* equity; sizes are whole quote units, quotients are rounded the safe way.  *)
(* leverage_step is 1.  External: the exchange's answers to Preflight and    *)
(* the language model's review of the risk.                                  *)
EXTENDS Integers, FiniteSetsExt

CONSTANTS
  Runs,
  Signals,     \* what the analysts may see, the position it meets included
  Accounts,    \* states of the account a run may meet
  Modified,    \* sizes an operator may write into a proposal
  Drifts,      \* how far the price may be from the reference at a preflight
  Limits,      \* the risk configuration
  MaxAttempts  \* reassessExecutableProposal's three

VARIABLES
  proposal,   \* what each run is about, its size and leverage included
  context,    \* the account as the run read it, its RiskContext
  auto,       \* whether the automatic policy decided
  stage, attempts,
  opened      \* notional of the positions the runs have opened

sizingVars == <<proposal, context, auto, stage, attempts, opened>>

Ref == 100

-----------------------------------------------------------------------------
(* config.Settings, TradeProposal and RiskContext, as far as they matter.    *)
Configs ==
  [maxRisk : Nat, maxPosition : Nat, maxGross : Nat, maxSymbol : Nat,
   maxCorrelated : Nat, maxCVaR : Nat, maxLeverage : Nat, maxMargin : Nat,
   minBuffer : Nat \ {0}, stopMultiple : Nat, volMultiple : Nat, reserve : Nat,
   maxDrawdown : Nat, maxLosses : Nat, maxOrders : Nat, maxSlippage : Nat,
   kellyScale : Nat, maxQuote : Nat, minConfidence : Nat, minRewardRisk : Nat,
   addDecay : Nat, addFraction : Nat, addMinConfidence : Nat, addMinProfit : Nat,
   maxAdds : Nat, minEntry : Nat, maxScore : Nat, equity : Nat]

Proposals ==
  [side : {"long", "short"}, instrument : {"perp", "spot"}, margin : {"isolated", "cross"},
   entry : Nat \ {0}, stop : Nat \ {Ref}, take : Nat, size : Nat,
   leverage : 1..Limits.maxLeverage, minLeverage : Nat \ {0}, existing : Nat,
   entries : Nat, profit : Int, cooling : BOOLEAN, buffer : Nat, volatility : Nat,
   confidence : Nat]

Contexts ==
  [equity : Nat, gross : Nat, correlated : Nat, cluster : Nat, cvar : Nat,
   slippage : Nat, drawdown : Nat, losses : Nat, orders : Nat, kill : BOOLEAN,
   reconciling : BOOLEAN, estimate : Int, automation : BOOLEAN]

(* What the risk budget of a tranche is multiplied with, and of what.        *)
Decay(p) == Limits.addDecay ^ p.entries
DecayBase(p) == 100 ^ p.entries

(* The configuration is a validated one (config/load.go:440), the stop keeps *)
(* a distance (strategist.go:178), an account has settled numbers.  Powers   *)
(* are numbers.                                                              *)
ASSUME SizingAssumptions ==
  /\ Limits \in Configs
  /\ Signals \subseteq Proposals
  /\ Accounts \subseteq Contexts /\ Accounts # {}
  /\ Modified \subseteq Nat /\ Drifts \subseteq Int
  /\ MaxAttempts \in Nat /\ MaxAttempts >= 2
  /\ \A p \in Signals : Decay(p) \in Nat /\ DecayBase(p) \in Nat \ {0}

SizingTypeOK ==
  /\ proposal \in [Runs -> Proposals]
  /\ context \in [Runs -> Contexts]
  /\ auto \in [Runs -> BOOLEAN]
  /\ stage \in [Runs -> {"signal", "proposed", "assessed", "refine", "approved",
                         "rejected", "flat", "failed", "diverged", "placed"}]
  /\ attempts \in [Runs -> 0..MaxAttempts]
  /\ opened \in Nat

-----------------------------------------------------------------------------
Distance(a, b) == IF a < b THEN b - a ELSE a - b
CeilDiv(a, b) == (a + b - 1) \div b
Percent(part, whole) == (part * whole) \div 100

Existing(p) == p.existing   \* AddOnPlan.ExistingNotionalQuote, 0 without a plan
Total(p) == p.size + Existing(p)
Perp(p) == p.instrument = "perp"

-----------------------------------------------------------------------------
(* risk.Assess *)

(* Kill switch, reconciliation, drawdowns, losing streak, order rate.        *)
AccountVetoes(c) ==
  \/ c.kill \/ c.reconciling
  \/ c.drawdown >= Limits.maxDrawdown
  \/ c.losses >= Limits.maxLosses
  \/ c.orders >= Limits.maxOrders

StopVetoes(p) == IF p.side = "long" THEN p.stop >= Ref ELSE p.stop <= Ref

FinancingVetoes(p) ==
  \/ p.leverage > Limits.maxLeverage
  \/ Perp(p) /\ p.margin # "isolated"

(* Distance to the liquidation price the preflight estimated: it is the      *)
(* entry estimate moved against the position by one over the leverage.       *)
BufferVetoes(p, c) ==
  /\ Perp(p)
  /\ LET against == IF p.side = "long" THEN p.leverage - 1 ELSE p.leverage + 1
         required == Max({Limits.minBuffer + Limits.reserve, p.buffer})
     IN Distance(Ref * p.leverage, c.estimate * against) * 100
          < required * Ref * p.leverage

MarketVetoes(c) == c.slippage > Limits.maxSlippage

CVaRVetoes(c) == c.cvar > Percent(Limits.maxCVaR, c.equity)

(* What each downsizing rule leaves for the order.                           *)
MarginRoom(p, c) == Percent(Limits.maxMargin, c.equity) * p.leverage - Existing(p)
RiskRoom(p, c) ==
  (Percent(Limits.maxRisk, c.equity) * Ref) \div Distance(Ref, p.stop)

(* Variant: the position added to is left out. *)
PositionRoomAlone(p, c) == Percent(Limits.maxPosition, c.equity)

PositionRoom(p, c) == Percent(Limits.maxPosition, c.equity) - Existing(p)

GrossRoom(c) == Percent(Limits.maxGross, c.equity) - c.gross
SymbolRoom(p, c) == Percent(Limits.maxSymbol, c.equity) - Existing(p)
CorrelatedRoom(c) == Percent(Limits.maxCorrelated, c.equity) - c.correlated

(* All but the margin's depend on neither size nor leverage.                 *)
FixedRooms(p, c) ==
  {RiskRoom(p, c), PositionRoom(p, c), GrossRoom(c), SymbolRoom(p, c), CorrelatedRoom(c)}

Rooms(p, c) == FixedRooms(p, c) \cup IF Perp(p) THEN {MarginRoom(p, c)} ELSE {}

Rejected(p, c) ==
  \/ AccountVetoes(c) \/ StopVetoes(p) \/ FinancingVetoes(p)
  \/ BufferVetoes(p, c) \/ MarketVetoes(c) \/ CVaRVetoes(c)
  \/ \E room \in Rooms(p, c) : room <= 0

(* The size Assess leaves of an order it does not reject.                    *)
Assessed(p, c) == Min({p.size} \cup Rooms(p, c))

(* baseRiskScore: the tightest of the ratios, of 100.                        *)
RiskScore(p, c) ==
  Min({100, Max({(p.leverage * 100) \div Limits.maxLeverage,
                 (Total(p) * 100) \div Percent(Limits.maxPosition, c.equity),
                 (p.size * Distance(Ref, p.stop)) \div Percent(Limits.maxRisk, c.equity),
                 ((c.gross + p.size) * 100) \div Percent(Limits.maxGross, c.equity),
                 (c.cvar * 100) \div Percent(Limits.maxCVaR, c.equity)}
                \cup IF Perp(p) THEN {((Total(p) * 100) \div p.leverage)
                                        \div Percent(Limits.maxMargin, c.equity)}
                                ELSE {})})

-----------------------------------------------------------------------------
(* applyLeverageModel and CalculateLeverage *)

StopPercent(p) == (Distance(p.entry, p.stop) * 100) \div p.entry

StressBuffer(p) ==
  Max({Limits.minBuffer, StopPercent(p) * Limits.stopMultiple,
       p.volatility * Limits.volMultiple}) + Limits.reserve

MarginBudget(c) == Percent(Limits.maxMargin, c.equity)
SafeLeverage(p) == Min({Limits.maxLeverage, 100 \div StressBuffer(p)})

(* The proposal at the lowest leverage whose margin the budget covers, not   *)
(* below that of the position added to; smaller if even the safe maximum is  *)
(* too little; none where no leverage keeps the stress distance.             *)
Leveraged(p, c) ==
  LET notional == Min({Total(p), MarginBudget(c) * SafeLeverage(p)})
      selected == Max({p.minLeverage, CeilDiv(notional, MarginBudget(c))})
  IN IF ~Perp(p) THEN {[p EXCEPT !.leverage = 1, !.buffer = 0]}
     ELSE IF \/ StressBuffer(p) >= 100 \/ SafeLeverage(p) < p.minLeverage
             \/ selected > SafeLeverage(p) \/ notional <= Existing(p)
       THEN {}
       ELSE {[p EXCEPT !.size = notional - Existing(p), !.leverage = selected,
                       !.buffer = StressBuffer(p)]}

-----------------------------------------------------------------------------
(* evaluateAutoApproval: expectation and Kelly fraction in percent of R.     *)

RiskDistance(p) == IF p.side = "long" THEN p.entry - p.stop ELSE p.stop - p.entry
RewardDistance(p) == IF p.side = "long" THEN p.take - p.entry ELSE p.entry - p.take

ExpectedR(p) ==   \* times the risk distance
  p.confidence * RewardDistance(p) - (100 - p.confidence) * RiskDistance(p)

(* Hundredths of a percent of the equity that fractional Kelly would risk.   *)
KellyRisk(p) == Min({Limits.maxRisk * 100,
                     (Limits.kellyScale * ExpectedR(p)) \div RewardDistance(p)})

KellyQuote(p, c) ==
  (c.equity * KellyRisk(p) * p.entry) \div (10000 * Distance(p.entry, p.stop))

Recommended(p, c) == Min({Assessed(p, c), Limits.maxQuote, KellyQuote(p, c)})

AutoAllowed(p, c) ==
  /\ p.confidence >= Limits.minConfidence
  /\ RiskDistance(p) > 0 /\ RewardDistance(p) > 0
  /\ RewardDistance(p) >= Limits.minRewardRisk * RiskDistance(p)
  /\ ExpectedR(p) > 0 /\ KellyRisk(p) > 0
  /\ Recommended(p, c) >= Limits.minEntry

-----------------------------------------------------------------------------
(* Strategist.Run: the size at which the stop costs the budget of a trade,   *)
(* within the cap of a position and, once four fifths of the cluster are     *)
(* used, the rest of it.                                                     *)
Headroom(c) ==
  LET limit == Percent(Limits.maxCorrelated, c.equity)
  IN IF c.cluster * 10 >= limit * 8 THEN {limit - c.cluster} ELSE {}

SignalSize(p, c) ==
  Min({(RiskRoom(p, c) * 995) \div 1000, Percent(Limits.maxPosition, c.equity)}
      \cup Headroom(c))

(* Its proposal, as if there were no position yet; none is a flat one.       *)
Suggested(p, c) ==
  IF SignalSize(p, c) <= 0 \/ (p.side = "short" /\ ~Perp(p)) THEN {}
  ELSE {[q EXCEPT !.existing = p.existing, !.minLeverage = p.minLeverage] :
          q \in Leveraged([p EXCEPT !.size = SignalSize(p, c), !.existing = 0,
                                    !.minLeverage = 1], c)}

(* evaluateAddOn: the tranche's risk budget decays with every entry of the   *)
(* position, and it is a fraction of the position at most.                   *)
TrancheRisk(p, c) ==
  (Percent(Limits.maxRisk, c.equity) * Decay(p) * Ref)
    \div (DecayBase(p) * Distance(Ref, p.stop))

Tranche(p, c) ==
  Min({p.size, TrancheRisk(p, c), Percent(Limits.addFraction, Existing(p))})

AddOns(p, c) ==
  IF Existing(p) = 0 THEN {p}
  ELSE IF \/ p.confidence < Limits.addMinConfidence
          \/ p.profit < Limits.addMinProfit * Distance(Ref, p.stop)
          \/ p.entries > Limits.maxAdds \/ p.cooling \/ ~c.automation
          \/ Tranche(p, c) <= 0 \/ Tranche(p, c) < Limits.minEntry
    THEN {}
    ELSE {[p EXCEPT !.size = Tranche(p, c)]}

-----------------------------------------------------------------------------
SizingInit ==
  /\ proposal \in [Runs -> Signals]
  /\ context = [r \in Runs |-> CHOOSE account \in Accounts : TRUE]
  /\ auto = [r \in Runs |-> FALSE]
  /\ stage = [r \in Runs |-> "signal"]
  /\ attempts = [r \in Runs |-> 0]
  /\ opened = 0

Become(r, p, next) ==
  /\ proposal' = [proposal EXCEPT ![r] = p]
  /\ stage' = [stage EXCEPT ![r] = next]

(* view.Gross counts every position, the one this run would add to included. *)
ViewGross(p, account) == account.gross + p.existing + opened

(* The run reads account, positions and risk state.                          *)
Propose(r) ==
  /\ stage[r] = "signal"
  /\ \E account \in Accounts :
       LET c == [account EXCEPT !.gross = ViewGross(proposal[r], account)]
           proposals == UNION {AddOns(p, c) : p \in Suggested(proposal[r], c)}
       IN /\ context' = [context EXCEPT ![r] = c]
          /\ IF proposals = {} THEN Become(r, proposal[r], "flat")
             ELSE \E p \in proposals : Become(r, p, "proposed")
  /\ UNCHANGED <<auto, attempts, opened>>

(* Preflight: the entry estimate, a drift away from the reference price.     *)
Estimates(c) == {[c EXCEPT !.estimate = Ref + d] : d \in Drifts}

(* The first preflight and assessment, and the risk officer, who can reject  *)
(* what the rules accept and never the other way round.                      *)
AssessFirst(r) ==
  /\ stage[r] = "proposed"
  /\ \E c \in Estimates(context[r]) :
       /\ context' = [context EXCEPT ![r] = c]
       /\ \/ Become(r, proposal[r], "rejected")
          \/ ~Rejected(proposal[r], c) /\ Become(r, proposal[r], "assessed")
  /\ UNCHANGED <<auto, attempts, opened>>

(* decide: the policy's recommendation where it is switched on; otherwise an *)
(* operator's approval, with the size he likes.  A downsizing of the first   *)
(* assessment binds either.  Then the kill switch is read once more.         *)
Bound(p, c, size) == IF Assessed(p, c) < p.size THEN Min({size, Assessed(p, c)}) ELSE size

Decide(r) ==
  /\ stage[r] = "assessed"
  /\ LET p == proposal[r]
         c == context[r]
         Approve(size) == Become(r, [p EXCEPT !.size = Bound(p, c, size)], "refine")
     IN \/ /\ c.automation /\ AutoAllowed(p, c) /\ Approve(Recommended(p, c))
           /\ auto' = [auto EXCEPT ![r] = TRUE]
        \/ /\ c.automation => ~AutoAllowed(p, c)
           /\ Become(r, p, "rejected") /\ UNCHANGED auto
        \/ /\ ~c.automation /\ \E size \in {p.size} \cup Modified : Approve(size)
           /\ UNCHANGED auto
  /\ \E kill \in BOOLEAN : context' = [context EXCEPT ![r].kill = kill]
  /\ UNCHANGED <<attempts, opened>>

TooRisky(r, p, c) == auto[r] /\ RiskScore(p, c) > Limits.maxScore

(* One turn of reassessExecutableProposal: leverage, preflight, rules; an    *)
(* order that shrank goes round again, three times at most.                  *)
Reassess(r) ==
  /\ stage[r] = "refine"
  /\ attempts' = [attempts EXCEPT ![r] = @ + 1]
  /\ \E c \in Estimates(context[r]) :
       /\ context' = [context EXCEPT ![r] = c]
       /\ IF Leveraged(proposal[r], c) = {} THEN Become(r, proposal[r], "failed")
          ELSE \E p \in Leveraged(proposal[r], c) :
            IF Rejected(p, c) THEN Become(r, p, "rejected")
            ELSE IF Assessed(p, c) < p.size
              THEN Become(r, [p EXCEPT !.size = Assessed(p, c)],
                          IF attempts'[r] = MaxAttempts THEN "diverged" ELSE "refine")
            ELSE Become(r, p, IF TooRisky(r, p, c) THEN "rejected" ELSE "approved")
  /\ UNCHANGED <<auto, opened>>

(* The order goes to the venue and is filled.                                *)
Execute(r) ==
  /\ stage[r] = "approved"
  /\ opened' = opened + proposal[r].size
  /\ Become(r, proposal[r], "placed")
  /\ UNCHANGED <<context, auto, attempts>>

SizingNext ==
  \E r \in Runs : Propose(r) \/ AssessFirst(r) \/ Decide(r) \/ Reassess(r) \/ Execute(r)

SizingSpec == SizingInit /\ [][SizingNext]_sizingVars

-----------------------------------------------------------------------------
(* An approved order keeps every limit at once, with the leverage and the    *)
(* size of its last turn and the position it is added to counted in, whoever *)
(* approved it and whatever size he asked for; and the third turn of the     *)
(* loop is never one too few.                                                *)
WithinLimits ==
  \A r \in Runs :
    LET p == proposal[r]
        c == context[r]
    IN /\ stage[r] # "diverged"
       /\ stage[r] \in {"approved", "placed"} =>
            /\ p.size * Distance(Ref, p.stop) <= Limits.maxRisk * c.equity
            /\ Total(p) * 100 <= Limits.maxPosition * c.equity
            /\ (c.gross + p.size) * 100 <= Limits.maxGross * c.equity
            /\ Perp(p) => /\ Total(p) * 100 <= Limits.maxMargin * c.equity * p.leverage
                          /\ p.leverage >= p.minLeverage
                          /\ p.leverage * StressBuffer(p) <= 100
            /\ auto[r] => p.size <= Limits.maxQuote
            /\ Existing(p) > 0 => p.size * 100 <= Limits.addFraction * Existing(p)

(* docs/RISK.md:31: gross exposure stays below its share of the account.     *)
ExposureWithinCap ==
  opened * 100 <= Limits.maxGross * Limits.equity
=============================================================================
