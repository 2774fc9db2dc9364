-------------------------- MODULE RiskSizingProofs --------------------------
(* An approved order keeps the limits for every configuration, every signal, *)
(* every account and every number of runs, and the second turn of            *)
(* reassessExecutableProposal never shrinks it any more.                     *)
EXTENDS RiskSizing, TLAPS

(* The size is no larger than what the rules leave that look neither at the  *)
(* size nor at the leverage.                                                 *)
Fits(p, c) == \A room \in FixedRooms(p, c) : p.size <= room

(* What the last turn of the loop has made of an order.                      *)
Kept(p, c) ==
  /\ p.size * Distance(Ref, p.stop) <= Limits.maxRisk * c.equity
  /\ Total(p) * 100 <= Limits.maxPosition * c.equity
  /\ (c.gross + p.size) * 100 <= Limits.maxGross * c.equity
  /\ Perp(p) => /\ Total(p) * 100 <= Limits.maxMargin * c.equity * p.leverage
                /\ p.leverage >= p.minLeverage
                /\ p.leverage * StressBuffer(p) <= 100

(* A tranche is a part of the position, and only the policy decides on it.   *)
TrancheIsPart(p, c) ==
  Existing(p) > 0 => c.automation /\ p.size <= Percent(Limits.addFraction, Existing(p))

(* What holds of a run, stage by stage.                                      *)
RunInv(s, n, a, p, c) ==
  /\ s # "diverged"
  /\ s = "signal" => p \in Signals
  /\ s \in {"signal", "proposed", "assessed"} => n = 0 /\ a = FALSE
  /\ s \in {"proposed", "assessed", "refine", "approved", "placed"} => TrancheIsPart(p, c)
  /\ s = "assessed" => \A room \in Rooms(p, c) : room > 0
  /\ a => p.size <= Limits.maxQuote
  /\ s = "refine" => n <= 1 /\ (n = 1 => Fits(p, c))
  /\ s \in {"approved", "placed"} => Kept(p, c)

SizingInv ==
  /\ SizingTypeOK
  /\ \A r \in Runs : RunInv(stage[r], attempts[r], auto[r], proposal[r], context[r])

-----------------------------------------------------------------------------
(* Arithmetic.                                                               *)

(* A quotient does not exceed what was divided.                              *)
LEMMA Quotient ==
  ASSUME NEW n \in Nat, NEW d \in Nat \ {0}
  PROVE  n \div d \in Nat /\ (n \div d) * d <= n
  OBVIOUS

(* A quotient is an integer.                                                 *)
LEMMA QuotientIsInt ==
  ASSUME NEW n \in Int, NEW d \in Nat \ {0} PROVE n \div d \in Int
  OBVIOUS

(* A product of naturals is one.                                             *)
LEMMA Products ==
  ASSUME NEW a \in Nat, NEW b \in Nat PROVE a * b \in Nat
  OBVIOUS

(* A product of positive numbers is positive.                                *)
LEMMA Positive ==
  ASSUME NEW a \in Nat \ {0}, NEW b \in Nat \ {0} PROVE a * b \in Nat \ {0}
  OBVIOUS

(* More of one factor is more of the product.                                *)
LEMMA Grows ==
  ASSUME NEW a \in Int, NEW b \in Int, NEW d \in Nat, a <= b PROVE a * d <= b * d
  OBVIOUS

(* A share in percent.                                                       *)
LEMMA Share ==
  ASSUME NEW part \in Nat, NEW whole \in Nat
  PROVE  Percent(part, whole) \in Nat /\ Percent(part, whole) * 100 <= part * whole
<1>1. part * whole \in Nat
  BY Products
<1> QED BY <1>1, Quotient DEF Percent

(* The same with names for share and product.                                *)
LEMMA ShareIs ==
  ASSUME NEW part \in Nat, NEW whole \in Nat
  PROVE  \E k \in Nat, e \in Nat :
           k = Percent(part, whole) /\ e = part * whole /\ k * 100 <= e
<1>1. part * whole \in Nat
  BY Products
<1>2. Percent(part, whole) \in Nat /\ Percent(part, whole) * 100 <= part * whole
  BY Share
<1> QED BY <1>1, <1>2

(* Rounded up, a quotient suffices.                                          *)
LEMMA Suffices ==
  ASSUME NEW n \in Nat \ {0}, NEW b \in Nat \ {0}
  PROVE  CeilDiv(n, b) \in Nat \ {0} /\ n <= b * CeilDiv(n, b)
  BY DEF CeilDiv

(* How far two prices are apart.                                             *)
LEMMA DistanceIs ==
  ASSUME NEW a \in Nat, NEW b \in Nat
  PROVE  Distance(a, b) \in Nat /\ (a # b => Distance(a, b) \in Nat \ {0})
  BY DEF Distance

-----------------------------------------------------------------------------
(* Least and greatest elements.                                              *)
HasMin(S) == S \subseteq Int /\ \E x \in S : \A y \in S : x <= y
HasMax(S) == S \subseteq Int /\ \E x \in S : \A y \in S : y <= x

(* A set with a least element has Min for it.                                *)
LEMMA MinIs ==
  ASSUME NEW S, HasMin(S)
  PROVE  Min(S) \in S /\ Min(S) \in Int /\ \A y \in S : Min(S) <= y
  BY DEF HasMin, Min

(* A set with a greatest element has Max for it.                             *)
LEMMA MaxIs ==
  ASSUME NEW S, HasMax(S)
  PROVE  Max(S) \in S /\ Max(S) \in Int /\ \A y \in S : y <= Max(S)
  BY DEF HasMax, Max

(* Two sets with least elements have one together.                           *)
LEMMA MinOfUnion ==
  ASSUME NEW S, NEW T, HasMin(S), HasMin(T)
  PROVE  HasMin(S \cup T)
<1>1. PICK x \in S : \A y \in S : x <= y
  BY DEF HasMin
<1>2. PICK z \in T : \A y \in T : z <= y
  BY DEF HasMin
<1>3. x \in Int /\ z \in Int /\ S \cup T \subseteq Int
  BY <1>1, <1>2 DEF HasMin
<1>4. CASE x <= z
  <2>1. \A y \in S \cup T : x <= y
    BY <1>1, <1>2, <1>3, <1>4
  <2> QED BY <1>3, <2>1 DEF HasMin
<1>5. CASE z <= x
  <2>1. \A y \in S \cup T : z <= y
    BY <1>1, <1>2, <1>3, <1>5
  <2> QED BY <1>3, <2>1 DEF HasMin
<1> QED BY <1>3, <1>4, <1>5

(* Sets of one, two or three numbers.                                         *)
LEMMA MinOfOne == ASSUME NEW a \in Int PROVE HasMin({a})
  BY DEF HasMin

LEMMA MinOfTwo ==
  ASSUME NEW a \in Int, NEW b \in Int PROVE HasMin({a, b})
  BY DEF HasMin

LEMMA MinOfThree ==
  ASSUME NEW a \in Int, NEW b \in Int, NEW d \in Int PROVE HasMin({a, b, d})
<1>1. HasMin({a} \cup {b, d})
  BY MinOfOne, MinOfTwo, MinOfUnion
<1>2. {a, b, d} = {a} \cup {b, d}
  OBVIOUS
<1> QED BY <1>1, <1>2

LEMMA MaxOfTwo ==
  ASSUME NEW a \in Int, NEW b \in Int PROVE HasMax({a, b})
  BY DEF HasMax

LEMMA MaxOfThree ==
  ASSUME NEW a \in Int, NEW b \in Int, NEW d \in Int PROVE HasMax({a, b, d})
<1>1. PICK x \in {a, b} : \A y \in {a, b} : y <= x
  BY MaxOfTwo DEF HasMax
<1>2. CASE x <= d
  BY <1>1, <1>2 DEF HasMax
<1>3. CASE d <= x
  BY <1>1, <1>3 DEF HasMax
<1> QED BY <1>1, <1>2, <1>3

-----------------------------------------------------------------------------
(* The rules.                                                                *)

(* The limits are numbers.                                                   *)
LEMMA LimitsAre ==
  /\ Limits.maxRisk \in Nat /\ Limits.maxPosition \in Nat /\ Limits.maxGross \in Nat
  /\ Limits.maxSymbol \in Nat /\ Limits.maxCorrelated \in Nat
  /\ Limits.maxLeverage \in Nat /\ Limits.maxMargin \in Nat
  /\ Limits.minBuffer \in Nat \ {0} /\ Limits.stopMultiple \in Nat
  /\ Limits.volMultiple \in Nat /\ Limits.reserve \in Nat
  /\ Limits.maxQuote \in Nat /\ Limits.kellyScale \in Nat /\ Limits.minEntry \in Nat
  /\ Limits.addFraction \in Nat
  BY SizingAssumptions DEF Configs

(* A proposal's fields.                                                      *)
LEMMA ProposalIs ==
  ASSUME NEW p \in Proposals
  PROVE  /\ p.side \in {"long", "short"}
         /\ p.entry \in Nat \ {0} /\ p.stop \in Nat \ {Ref} /\ p.take \in Nat
         /\ p.size \in Nat /\ p.leverage \in 1..Limits.maxLeverage
         /\ p.minLeverage \in Nat \ {0} /\ p.existing \in Nat /\ p.buffer \in Nat
         /\ p.volatility \in Nat /\ p.confidence \in Nat
  BY DEF Proposals

(* An account's numbers.                                                     *)
LEMMA ContextIs ==
  ASSUME NEW c \in Contexts
  PROVE  c.equity \in Nat /\ c.gross \in Nat /\ c.correlated \in Nat /\ c.cluster \in Nat
         /\ c.automation \in BOOLEAN
  BY DEF Contexts

(* How far the stop is.                                                      *)
LEMMA StopDistance ==
  ASSUME NEW p \in Proposals PROVE Distance(Ref, p.stop) \in Nat \ {0}
  BY ProposalIs, DistanceIs DEF Ref

(* What the rules leave is a number each.                                    *)
LEMMA RoomsAreNumbers ==
  ASSUME NEW p \in Proposals, NEW c \in Contexts
  PROVE  /\ RiskRoom(p, c) \in Nat
         /\ RiskRoom(p, c) * Distance(Ref, p.stop) <= Limits.maxRisk * c.equity
         /\ PositionRoom(p, c) \in Int /\ GrossRoom(c) \in Int
         /\ SymbolRoom(p, c) \in Int /\ CorrelatedRoom(c) \in Int
         /\ MarginRoom(p, c) \in Int
         /\ MarginBudget(c) \in Nat
<1>1. /\ Percent(Limits.maxRisk, c.equity) \in Nat
      /\ Percent(Limits.maxRisk, c.equity) * 100 <= Limits.maxRisk * c.equity
  BY LimitsAre, ContextIs, Share
<1>2. Percent(Limits.maxPosition, c.equity) \in Nat
  BY LimitsAre, ContextIs, Share
<1>3. Percent(Limits.maxGross, c.equity) \in Nat
  BY LimitsAre, ContextIs, Share
<1>4. Percent(Limits.maxSymbol, c.equity) \in Nat
  BY LimitsAre, ContextIs, Share
<1>5. Percent(Limits.maxCorrelated, c.equity) \in Nat
  BY LimitsAre, ContextIs, Share
<1>6. Percent(Limits.maxMargin, c.equity) \in Nat
  BY LimitsAre, ContextIs, Share
<1>7. Percent(Limits.maxMargin, c.equity) * p.leverage \in Nat
  BY <1>6, ProposalIs, LimitsAre, Products
<1>8. PICK b \in Nat : b = Percent(Limits.maxRisk, c.equity)
  BY <1>1
<1>9. b * Ref \in Nat /\ b * Ref = b * 100
  BY <1>8 DEF Ref
<1>10. RiskRoom(p, c) \in Nat /\ RiskRoom(p, c) * Distance(Ref, p.stop) <= b * Ref
  BY <1>8, <1>9, StopDistance, Quotient DEF RiskRoom
<1>11. PICK e \in Nat : e = Limits.maxRisk * c.equity
  BY LimitsAre, ContextIs, Products
<1>12. RiskRoom(p, c) * Distance(Ref, p.stop) \in Nat
  BY <1>10, StopDistance, Products
<1>13. RiskRoom(p, c) * Distance(Ref, p.stop) <= Limits.maxRisk * c.equity
  BY <1>1, <1>8, <1>9, <1>10, <1>11, <1>12
<1> QED BY <1>2, <1>3, <1>4, <1>5, <1>6, <1>7, <1>10, <1>13, ProposalIs, ContextIs
        DEF PositionRoom, GrossRoom, SymbolRoom, CorrelatedRoom, MarginRoom, MarginBudget,
            Existing

(* One of what the rules leave is the least.                                 *)
LEMMA RoomsHaveMin ==
  ASSUME NEW p \in Proposals, NEW c \in Contexts
  PROVE  HasMin({p.size} \cup Rooms(p, c)) /\ Rooms(p, c) \subseteq Int
<1>1. HasMin({RiskRoom(p, c), PositionRoom(p, c), GrossRoom(c)})
  BY RoomsAreNumbers, MinOfThree
<1>2. HasMin({SymbolRoom(p, c), CorrelatedRoom(c)})
  BY RoomsAreNumbers, MinOfTwo
<1>3. HasMin({p.size})
  BY ProposalIs, MinOfOne
<1>4. FixedRooms(p, c) = {RiskRoom(p, c), PositionRoom(p, c), GrossRoom(c)}
                           \cup {SymbolRoom(p, c), CorrelatedRoom(c)}
  BY DEF FixedRooms
<1>5. HasMin(FixedRooms(p, c))
  BY <1>1, <1>2, <1>4, MinOfUnion
<1>6. HasMin(Rooms(p, c))
  <2>1. CASE Perp(p)
    <3>1. HasMin({MarginRoom(p, c)})
      BY RoomsAreNumbers, MinOfOne
    <3> QED BY <1>5, <2>1, <3>1, MinOfUnion DEF Rooms
  <2>2. CASE ~Perp(p)
    BY <1>5, <2>2 DEF Rooms
  <2> QED BY <2>1, <2>2
<1> QED BY <1>3, <1>6, MinOfUnion DEF HasMin

(* The rules take away and never add.                                        *)
LEMMA AssessedIs ==
  ASSUME NEW p \in Proposals, NEW c \in Contexts
  PROVE  /\ Assessed(p, c) \in Int
         /\ Assessed(p, c) <= p.size
         /\ \A room \in Rooms(p, c) : Assessed(p, c) <= room
         /\ (\A room \in Rooms(p, c) : room > 0) => Assessed(p, c) \in Nat
<1>1. /\ Assessed(p, c) \in {p.size} \cup Rooms(p, c)
      /\ Assessed(p, c) \in Int
      /\ \A y \in {p.size} \cup Rooms(p, c) : Assessed(p, c) <= y
  BY RoomsHaveMin, MinIs DEF Assessed
<1>2. p.size \in Nat
  BY ProposalIs
<1>3. ASSUME \A room \in Rooms(p, c) : room > 0 PROVE Assessed(p, c) \in Nat
  BY <1>1, <1>2, <1>3
<1> QED BY <1>1, <1>3

(* What nobody rejected has room under every rule.                           *)
LEMMA AcceptedHasRoom ==
  ASSUME NEW p \in Proposals, NEW c \in Contexts, ~Rejected(p, c)
  PROVE  \A room \in Rooms(p, c) : room > 0
<1> TAKE room \in Rooms(p, c)
<1>1. ~(room <= 0)
  BY DEF Rejected
<1>2. room \in Int
  BY RoomsHaveMin
<1> QED BY <1>1, <1>2

-----------------------------------------------------------------------------
(* The leverage model.                                                       *)

(* The stress distance is positive, and the safe leverage times it at most   *)
(* the whole.                                                                *)
LEMMA StressIs ==
  ASSUME NEW p \in Proposals
  PROVE  /\ StressBuffer(p) \in Nat \ {0}
         /\ SafeLeverage(p) \in Nat
         /\ SafeLeverage(p) <= Limits.maxLeverage
         /\ SafeLeverage(p) * StressBuffer(p) <= 100
<1>1. Distance(p.entry, p.stop) \in Nat
  BY ProposalIs, DistanceIs
<1>2. StopPercent(p) \in Nat
  BY <1>1, ProposalIs, Quotient DEF StopPercent
<1>3. StopPercent(p) * Limits.stopMultiple \in Nat /\ p.volatility * Limits.volMultiple \in Nat
  BY <1>2, ProposalIs, LimitsAre, Products
<1> DEFINE worst == Max({Limits.minBuffer, StopPercent(p) * Limits.stopMultiple,
                         p.volatility * Limits.volMultiple})
<1>4. worst \in Int /\ worst >= Limits.minBuffer
  <2>1. HasMax({Limits.minBuffer, StopPercent(p) * Limits.stopMultiple,
                p.volatility * Limits.volMultiple})
    BY <1>3, LimitsAre, MaxOfThree
  <2> QED BY <2>1, MaxIs
<1>5. StressBuffer(p) = worst + Limits.reserve
  BY DEF StressBuffer
<1> HIDE DEF worst
<1>6. StressBuffer(p) \in Nat \ {0}
  BY <1>4, <1>5, LimitsAre
<1>7. 100 \div StressBuffer(p) \in Nat /\ (100 \div StressBuffer(p)) * StressBuffer(p) <= 100
  BY <1>6, Quotient
<1>8. /\ SafeLeverage(p) \in {Limits.maxLeverage, 100 \div StressBuffer(p)}
      /\ SafeLeverage(p) <= Limits.maxLeverage
      /\ SafeLeverage(p) <= 100 \div StressBuffer(p)
  <2>1. HasMin({Limits.maxLeverage, 100 \div StressBuffer(p)})
    BY <1>7, LimitsAre, MinOfTwo
  <2> QED BY <2>1, MinIs DEF SafeLeverage
<1>9. SafeLeverage(p) \in Nat
  BY <1>7, <1>8, LimitsAre
<1>10. PICK s \in Nat, b \in Nat \ {0}, q \in Nat :
         s = SafeLeverage(p) /\ b = StressBuffer(p) /\ q = 100 \div StressBuffer(p)
  BY <1>6, <1>7, <1>9
<1>11. s * b <= q * b /\ q * b <= 100 /\ s * b \in Int /\ q * b \in Int
  BY <1>7, <1>8, <1>10, Grows
<1>12. SafeLeverage(p) * StressBuffer(p) <= 100
  BY <1>10, <1>11
<1> QED BY <1>6, <1>8, <1>9, <1>12

(* What the leverage model changes of an order.                              *)
Releveraged(q, p) ==
  /\ q.side = p.side /\ q.instrument = p.instrument /\ q.entry = p.entry
  /\ q.stop = p.stop /\ q.take = p.take /\ q.existing = p.existing
  /\ q.minLeverage = p.minLeverage /\ q.volatility = p.volatility
  /\ q.confidence = p.confidence /\ q.entries = p.entries

(* It never makes an order larger, and its margin is within the budget.      *)
LEMMA LeveragedIs ==
  ASSUME NEW p \in Proposals, NEW c \in Contexts, NEW q \in Leveraged(p, c)
  PROVE  /\ q \in Proposals /\ Releveraged(q, p) /\ q.size <= p.size
         /\ Perp(p) => /\ Total(q) <= MarginBudget(c) * q.leverage
                       /\ q.leverage >= q.minLeverage
                       /\ q.leverage <= SafeLeverage(p)
<1>1. CASE ~Perp(p)
  <2>1. q = [p EXCEPT !.leverage = 1, !.buffer = 0]
    BY <1>1 DEF Leveraged
  <2>2. 1 \in 1..Limits.maxLeverage
    BY ProposalIs, LimitsAre
  <2>3. q \in Proposals
    BY <2>1, <2>2 DEF Proposals
  <2> QED BY <1>1, <2>1, <2>3, ProposalIs DEF Releveraged, Proposals
<1>2. CASE Perp(p)
  <2> DEFINE cap == MarginBudget(c) * SafeLeverage(p)
             notional == Min({Total(p), cap})
             selected == Max({p.minLeverage, CeilDiv(notional, MarginBudget(c))})
  <2>1. /\ ~(SafeLeverage(p) < p.minLeverage) /\ ~(selected > SafeLeverage(p))
        /\ ~(notional <= Existing(p))
        /\ q = [p EXCEPT !.size = notional - Existing(p), !.leverage = selected,
                         !.buffer = StressBuffer(p)]
    BY <1>2 DEF Leveraged
  <2>2. cap \in Nat /\ Total(p) \in Nat /\ Existing(p) \in Nat /\ MarginBudget(c) \in Nat
    BY StressIs, RoomsAreNumbers, ProposalIs, Products DEF Total, Existing
  <2>3. notional \in Int /\ notional <= Total(p) /\ notional <= cap
    <3>1. HasMin({Total(p), cap})
      BY <2>2, MinOfTwo
    <3> QED BY <3>1, MinIs
  <2> HIDE DEF notional
  <2>4. notional \in Nat \ {0} /\ notional - Existing(p) \in Nat
        /\ notional - Existing(p) <= p.size
    BY <2>1, <2>2, <2>3, ProposalIs DEF Total
  <2>5. MarginBudget(c) \in Nat \ {0}
    <3>1. SUFFICES ASSUME MarginBudget(c) = 0 PROVE FALSE
      BY <2>2
    <3>2. cap = 0
      BY <3>1, StressIs
    <3> QED BY <2>2, <2>3, <2>4, <3>2
  <2>6. /\ CeilDiv(notional, MarginBudget(c)) \in Nat \ {0}
        /\ notional <= MarginBudget(c) * CeilDiv(notional, MarginBudget(c))
    BY <2>4, <2>5, Suffices
  <2>7. /\ selected \in {p.minLeverage, CeilDiv(notional, MarginBudget(c))}
        /\ selected >= p.minLeverage /\ selected >= CeilDiv(notional, MarginBudget(c))
    <3>1. HasMax({p.minLeverage, CeilDiv(notional, MarginBudget(c))})
      BY <2>6, ProposalIs, MaxOfTwo
    <3> QED BY <3>1, MaxIs
  <2> HIDE DEF selected, cap
  <2>8. selected \in Nat \ {0} /\ selected <= SafeLeverage(p)
        /\ selected \in 1..Limits.maxLeverage
    BY <2>1, <2>6, <2>7, StressIs, ProposalIs, LimitsAre
  <2>9. q \in Proposals
    BY <2>1, <2>4, <2>8, StressIs DEF Proposals
  <2>10. Releveraged(q, p) /\ q.size = notional - Existing(p) /\ q.leverage = selected
    BY <2>1 DEF Releveraged, Proposals
  <2>11. notional <= MarginBudget(c) * selected
    <3>1. PICK b \in Nat \ {0}, k \in Nat \ {0} :
            b = MarginBudget(c) /\ k = CeilDiv(notional, MarginBudget(c))
      BY <2>5, <2>6
    <3>2. k * b <= selected * b /\ b * k = k * b /\ b * selected = selected * b
          /\ b * k \in Int /\ b * selected \in Int
      BY <2>7, <2>8, <3>1, Grows
    <3> QED BY <2>4, <2>6, <3>1, <3>2
  <2>12. Total(q) = notional
    BY <2>2, <2>4, <2>10 DEF Total, Existing, Releveraged
  <2> QED BY <2>4, <2>7, <2>8, <2>9, <2>10, <2>11, <2>12 DEF Releveraged
<1> QED BY <1>1, <1>2

(* The size of a strategist's proposal is a number.                          *)
LEMMA SignalSizeIs ==
  ASSUME NEW p \in Proposals, NEW c \in Contexts PROVE SignalSize(p, c) \in Int
<1>1. Percent(Limits.maxPosition, c.equity) \in Nat
  BY LimitsAre, ContextIs, Share
<1>2. Percent(Limits.maxCorrelated, c.equity) \in Nat
  BY LimitsAre, ContextIs, Share
<1>3. (RiskRoom(p, c) * 995) \div 1000 \in Int
  BY RoomsAreNumbers
<1>4. HasMin({(RiskRoom(p, c) * 995) \div 1000, Percent(Limits.maxPosition, c.equity)})
  BY <1>1, <1>3, MinOfTwo
<1>5. \/ Headroom(c) = {}
      \/ Headroom(c) = {Percent(Limits.maxCorrelated, c.equity) - c.cluster}
  BY DEF Headroom
<1>6. HasMin({Percent(Limits.maxCorrelated, c.equity) - c.cluster})
  BY <1>2, ContextIs, MinOfOne
<1>7. HasMin({(RiskRoom(p, c) * 995) \div 1000, Percent(Limits.maxPosition, c.equity)}
               \cup Headroom(c))
  <2>1. CASE Headroom(c) = {}
    BY <1>4, <2>1
  <2>2. CASE Headroom(c) = {Percent(Limits.maxCorrelated, c.equity) - c.cluster}
    BY <1>4, <1>6, <2>2, MinOfUnion
  <2> QED BY <1>5, <2>1, <2>2
<1> QED BY <1>7, MinIs DEF SignalSize

(* The strategist's proposal is one, for the position there is.              *)
LEMMA SuggestedIs ==
  ASSUME NEW p \in Proposals, NEW c \in Contexts, NEW q \in Suggested(p, c)
  PROVE  /\ q \in Proposals
         /\ q.existing = p.existing /\ q.entries = p.entries
<1>1. ~(SignalSize(p, c) <= 0)
  BY DEF Suggested
<1>2. SignalSize(p, c) \in Nat
  BY <1>1, SignalSizeIs
<1>3. PICK n \in Nat : n = SignalSize(p, c)
  BY <1>2
<1>4. PICK bare \in Proposals : bare = [p EXCEPT !.size = n, !.existing = 0,
                                                  !.minLeverage = 1]
  <2>1. n \in Nat /\ 0 \in Nat /\ 1 \in Nat \ {0}
    OBVIOUS
  <2>2. [p EXCEPT !.size = n] \in Proposals
    BY DEF Proposals
  <2>3. [p EXCEPT !.size = n, !.existing = 0, !.minLeverage = 1] \in Proposals
    BY <2>1 DEF Proposals
  <2> QED BY <2>3
<1>5. PICK l \in Leveraged(bare, c) :
        q = [l EXCEPT !.existing = p.existing, !.minLeverage = p.minLeverage]
  BY <1>3, <1>4 DEF Suggested
<1>6. bare.entries = p.entries
  BY <1>4 DEF Proposals
<1>7. l \in Proposals /\ l.entries = p.entries
  BY <1>6, <1>4, <1>5, LeveragedIs DEF Releveraged
<1>8. q \in Proposals /\ q.existing = p.existing /\ q.entries = l.entries
  BY <1>5, <1>7, ProposalIs DEF Proposals
<1> QED BY <1>7, <1>8

(* A tranche is a part of the position at most.                              *)
LEMMA AddOnIs ==
  ASSUME NEW s \in Signals, NEW p \in Proposals, NEW c \in Contexts,
         p.entries = s.entries, NEW q \in AddOns(p, c)
  PROVE  q \in Proposals /\ TrancheIsPart(q, c) /\ q.existing = p.existing
<1>1. CASE Existing(p) = 0
  BY <1>1 DEF AddOns, TrancheIsPart
<1>2. CASE Existing(p) # 0
  <2>1. /\ c.automation /\ ~(Tranche(p, c) <= 0)
        /\ q = [p EXCEPT !.size = Tranche(p, c)]
    BY <1>2 DEF AddOns
  <2>2. TrancheRisk(p, c) \in Int
    <3>1. Decay(p) = Decay(s) /\ DecayBase(p) = DecayBase(s)
      BY DEF Decay, DecayBase
    <3>2. Decay(p) \in Nat /\ DecayBase(p) \in Nat \ {0}
      BY <3>1, SizingAssumptions
    <3>3. Percent(Limits.maxRisk, c.equity) \in Nat
      BY LimitsAre, ContextIs, Share
    <3>4. Percent(Limits.maxRisk, c.equity) * Decay(p) \in Nat
      BY <3>2, <3>3, Products
    <3>5. Percent(Limits.maxRisk, c.equity) * Decay(p) * Ref \in Nat
      BY <3>4 DEF Ref
    <3>6. DecayBase(p) * Distance(Ref, p.stop) \in Nat \ {0}
      BY <3>2, StopDistance, Positive
    <3> QED BY <3>5, <3>6, QuotientIsInt DEF TrancheRisk
  <2>3. Percent(Limits.addFraction, Existing(p)) \in Nat
    BY LimitsAre, ProposalIs, Share DEF Existing
  <2>4. Tranche(p, c) \in Int /\ Tranche(p, c) <= Percent(Limits.addFraction, Existing(p))
    <3>1. HasMin({p.size, TrancheRisk(p, c), Percent(Limits.addFraction, Existing(p))})
      BY <2>2, <2>3, ProposalIs, MinOfThree
    <3> QED BY <3>1, MinIs DEF Tranche
  <2>5. Tranche(p, c) \in Nat
    BY <2>1, <2>4
  <2>6. q \in Proposals /\ q.size = Tranche(p, c) /\ q.existing = p.existing
    BY <2>1, <2>5 DEF Proposals
  <2> QED BY <2>1, <2>4, <2>6 DEF TrancheIsPart, Existing
<1> QED BY <1>1, <1>2

(* What the policy recommends is within the rules and its own ceiling.       *)
LEMMA RecommendedIs ==
  ASSUME NEW p \in Proposals, NEW c \in Contexts, AutoAllowed(p, c)
  PROVE  /\ Recommended(p, c) \in Nat
         /\ Recommended(p, c) <= Assessed(p, c)
         /\ Recommended(p, c) <= Limits.maxQuote
<1>1. /\ RiskDistance(p) > 0 /\ RewardDistance(p) > 0 /\ ExpectedR(p) > 0
      /\ KellyRisk(p) > 0 /\ Recommended(p, c) >= Limits.minEntry
  BY DEF AutoAllowed
<1>2. RiskDistance(p) \in Int /\ RewardDistance(p) \in Int /\ p.entry # p.stop
  BY <1>1, ProposalIs DEF RiskDistance, RewardDistance
<1>3. ExpectedR(p) \in Int
  BY <1>2, ProposalIs DEF ExpectedR
<1>4. KellyRisk(p) \in Int
  <2>1. (Limits.kellyScale * ExpectedR(p)) \div RewardDistance(p) \in Int
    BY <1>1, <1>2, <1>3, LimitsAre, Products, QuotientIsInt
  <2>2. HasMin({Limits.maxRisk * 100,
                (Limits.kellyScale * ExpectedR(p)) \div RewardDistance(p)})
    BY <2>1, LimitsAre, MinOfTwo
  <2> QED BY <2>2, MinIs DEF KellyRisk
<1>5. KellyQuote(p, c) \in Int
  <2>1. Distance(p.entry, p.stop) \in Nat \ {0}
    BY <1>2, ProposalIs, DistanceIs
  <2>2. 10000 * Distance(p.entry, p.stop) \in Nat \ {0}
    BY <2>1
  <2>3. c.equity * KellyRisk(p) \in Nat
    BY <1>1, <1>4, ContextIs, Products
  <2>4. c.equity * KellyRisk(p) * p.entry \in Nat
    BY <2>3, ProposalIs, Products
  <2> QED BY <2>2, <2>4, QuotientIsInt DEF KellyQuote
<1>6. HasMin({Assessed(p, c), Limits.maxQuote, KellyQuote(p, c)})
  BY <1>5, AssessedIs, LimitsAre, MinOfThree
<1> QED BY <1>1, <1>6, MinIs, LimitsAre DEF Recommended

(* What is approved is a size, and never more than was asked for.            *)
LEMMA BoundIs ==
  ASSUME NEW p \in Proposals, NEW c \in Contexts, NEW size \in Nat,
         \A room \in Rooms(p, c) : room > 0
  PROVE  Bound(p, c, size) \in Nat /\ Bound(p, c, size) <= size
<1>1. Assessed(p, c) \in Nat
  BY AssessedIs
<1>2. HasMin({size, Assessed(p, c)})
  BY <1>1, MinOfTwo
<1>3. /\ Min({size, Assessed(p, c)}) \in {size, Assessed(p, c)}
      /\ Min({size, Assessed(p, c)}) <= size
  BY <1>2, MinIs
<1> QED BY <1>1, <1>3 DEF Bound

-----------------------------------------------------------------------------
(* One turn of the loop.                                                     *)

(* Neither leverage nor estimate matter to what the fixed rules leave.       *)
LEMMA SameRooms ==
  ASSUME NEW p, NEW q, NEW c, NEW d, q.stop = p.stop, q.existing = p.existing,
         d.equity = c.equity, d.gross = c.gross, d.correlated = c.correlated
  PROVE  FixedRooms(q, d) = FixedRooms(p, c)
  BY DEF FixedRooms, RiskRoom, PositionRoom, GrossRoom, SymbolRoom, CorrelatedRoom, Existing

(* After the leverage model no order is too large for its margin.            *)
LEMMA MarginSuffices ==
  ASSUME NEW p \in Proposals, NEW c \in Contexts, NEW q \in Leveraged(p, c), Fits(q, c)
  PROVE  \A room \in Rooms(q, c) : q.size <= room
<1>1. q \in Proposals /\ (Perp(p) => Total(q) <= MarginBudget(c) * q.leverage)
      /\ Releveraged(q, p)
  BY LeveragedIs
<1>2. Perp(q) => Perp(p)
  BY <1>1 DEF Perp, Releveraged
<1>3. ASSUME Perp(q) PROVE q.size <= MarginRoom(q, c)
  <2>1. MarginBudget(c) * q.leverage \in Nat
    BY <1>1, RoomsAreNumbers, ProposalIs, LimitsAre, Products
  <2>2. MarginRoom(q, c) = MarginBudget(c) * q.leverage - Existing(q)
    BY DEF MarginRoom, MarginBudget
  <2> QED BY <1>1, <1>2, <1>3, <2>1, <2>2, ProposalIs DEF Total, Existing
<1> QED BY <1>3 DEF Rooms, Fits

(* So an order that fits goes through unchanged.                             *)
LEMMA FitsStays ==
  ASSUME NEW p \in Proposals, NEW c \in Contexts, NEW q \in Leveraged(p, c), Fits(p, c)
  PROVE  Fits(q, c) /\ ~(Assessed(q, c) < q.size)
<1>1. q \in Proposals /\ Releveraged(q, p) /\ q.size <= p.size
  BY LeveragedIs
<1>2. FixedRooms(q, c) = FixedRooms(p, c)
  BY <1>1, SameRooms DEF Releveraged
<1>3. FixedRooms(p, c) \subseteq Int
  BY RoomsHaveMin DEF Rooms
<1>4. Fits(q, c)
  <2> SUFFICES ASSUME NEW room \in FixedRooms(q, c) PROVE q.size <= room
    BY DEF Fits
  <2>1. room \in Int /\ p.size <= room
    BY <1>2, <1>3 DEF Fits
  <2> QED BY <1>1, <2>1, ProposalIs
<1>5. \A y \in {q.size} \cup Rooms(q, c) : q.size <= y
  BY <1>1, <1>4, MarginSuffices, ProposalIs
<1>6. Assessed(q, c) \in {q.size} \cup Rooms(q, c) /\ Assessed(q, c) \in Int
  BY <1>1, RoomsHaveMin, MinIs DEF Assessed
<1> QED BY <1>1, <1>4, <1>5, <1>6, ProposalIs

(* What the rules leave fits them.                                           *)
LEMMA AssessedFits ==
  ASSUME NEW p \in Proposals, NEW c \in Contexts, \A room \in Rooms(p, c) : room > 0,
         NEW q, q = [p EXCEPT !.size = Assessed(p, c)]
  PROVE  q \in Proposals /\ Fits(q, c) /\ q.size <= p.size
         /\ q.existing = p.existing /\ q.size = Assessed(p, c)
<1>1. /\ Assessed(p, c) \in Nat /\ Assessed(p, c) <= p.size
      /\ \A room \in Rooms(p, c) : Assessed(p, c) <= room
  BY AssessedIs
<1>2. /\ q \in Proposals /\ q.size = Assessed(p, c) /\ q.existing = p.existing
      /\ q.stop = p.stop
  BY <1>1 DEF Proposals
<1>3. FixedRooms(q, c) = FixedRooms(p, c)
  <2>1. q.stop = p.stop /\ q.existing = p.existing
    BY <1>2
  <2> QED BY ONLY <2>1, SameRooms
<1> QED BY <1>1, <1>2, <1>3 DEF Fits, Rooms

(* And what fits when the loop is left keeps every limit.                    *)
LEMMA FitsKeeps ==
  ASSUME NEW p \in Proposals, NEW c \in Contexts, NEW q \in Leveraged(p, c), Fits(q, c)
  PROVE  Kept(q, c)
<1>1. /\ q \in Proposals /\ Releveraged(q, p)
      /\ Perp(p) => /\ Total(q) <= MarginBudget(c) * q.leverage
                    /\ q.leverage >= q.minLeverage
                    /\ q.leverage <= SafeLeverage(p)
  BY LeveragedIs
<1>2. /\ q.size \in Nat /\ q.existing \in Nat /\ Total(q) \in Nat
      /\ Total(q) = q.size + q.existing /\ Existing(q) = q.existing
  BY <1>1, ProposalIs DEF Total, Existing
<1>3. /\ q.size <= RiskRoom(q, c) /\ q.size <= PositionRoom(q, c) /\ q.size <= GrossRoom(c)
  BY DEF Fits, FixedRooms
<1>4. q.size * Distance(Ref, q.stop) <= Limits.maxRisk * c.equity
  <2>1. PICK d \in Nat, k \in Nat, e \in Nat :
          d = Distance(Ref, q.stop) /\ k = RiskRoom(q, c) /\ e = Limits.maxRisk * c.equity
    BY <1>1, StopDistance, RoomsAreNumbers, LimitsAre, ContextIs, Products
  <2>2. q.size * d <= k * d /\ k * d <= e /\ q.size * d \in Int /\ k * d \in Int
    BY <1>1, <1>2, <1>3, <2>1, RoomsAreNumbers, Grows
  <2> QED BY <2>1, <2>2
<1>5. Total(q) * 100 <= Limits.maxPosition * c.equity
  <2>1. PICK k \in Nat, e \in Nat : k = Percent(Limits.maxPosition, c.equity)
                                    /\ e = Limits.maxPosition * c.equity /\ k * 100 <= e
    BY LimitsAre, ContextIs, ShareIs
  <2>2. Total(q) <= k
    BY <1>2, <1>3, <2>1 DEF PositionRoom
  <2> QED BY <1>2, <2>1, <2>2
<1>6. (c.gross + q.size) * 100 <= Limits.maxGross * c.equity
  <2>1. PICK k \in Nat, e \in Nat : k = Percent(Limits.maxGross, c.equity)
                                    /\ e = Limits.maxGross * c.equity /\ k * 100 <= e
    BY LimitsAre, ContextIs, ShareIs
  <2>2. c.gross + q.size <= k /\ c.gross \in Nat
    BY <1>2, <1>3, <2>1, ContextIs DEF GrossRoom
  <2> QED BY <1>2, <2>1, <2>2
<1>7. ASSUME Perp(q)
      PROVE  /\ Total(q) * 100 <= Limits.maxMargin * c.equity * q.leverage
             /\ q.leverage >= q.minLeverage
             /\ q.leverage * StressBuffer(q) <= 100
  <2>1. /\ Total(q) <= MarginBudget(c) * q.leverage /\ q.leverage >= q.minLeverage
        /\ q.leverage <= SafeLeverage(p)
    BY <1>1, <1>7 DEF Perp, Releveraged
  <2>2. PICK k \in Nat, e \in Nat : k = MarginBudget(c)
                                    /\ e = Limits.maxMargin * c.equity /\ k * 100 <= e
    BY LimitsAre, ContextIs, ShareIs DEF MarginBudget
  <2>3. PICK l \in Nat : l = q.leverage
    BY <1>1, ProposalIs, LimitsAre
  <2>4. (k * 100) * l <= e * l /\ (k * 100) * l \in Int /\ e * l \in Int
    BY <2>2, <2>3, Grows
  <2>5. Total(q) * 100 <= (k * 100) * l
    <3>1. PICK m \in Nat : m = k * l
      BY <2>2, <2>3, Products
    <3>2. Total(q) <= m
      BY <2>1, <2>2, <2>3, <3>1
    <3>3. (k * 100) * l = (k * l) * 100
      BY <2>2, <2>3
    <3> QED BY <1>2, <3>1, <3>2, <3>3
  <2>6. Total(q) * 100 <= Limits.maxMargin * c.equity * q.leverage
    BY <1>2, <2>2, <2>3, <2>4, <2>5
  <2>7. StressBuffer(q) = StressBuffer(p)
    BY <1>1 DEF StressBuffer, StopPercent, Releveraged
  <2>8. PICK s \in Nat, b \in Nat : s = SafeLeverage(p) /\ b = StressBuffer(p) /\ s * b <= 100
    BY StressIs
  <2>9. l * b <= s * b /\ l * b \in Int /\ s * b \in Int
    BY <2>1, <2>3, <2>8, Grows
  <2>10. q.leverage * StressBuffer(q) <= 100
    BY <2>3, <2>7, <2>8, <2>9
  <2> QED BY <2>1, <2>6, <2>10
<1> QED BY <1>4, <1>5, <1>6, <1>7 DEF Kept

-----------------------------------------------------------------------------
(* The steps of a run.                                                       *)

(* A run's step leaves the others as they are.                               *)
LEMMA OthersStay ==
  ASSUME SizingInv, NEW r \in Runs, SizingTypeOK',
         RunInv(stage'[r], attempts'[r], auto'[r], proposal'[r], context'[r]),
         \A o \in Runs \ {r} : /\ stage'[o] = stage[o] /\ attempts'[o] = attempts[o]
                               /\ auto'[o] = auto[o] /\ proposal'[o] = proposal[o]
                               /\ context'[o] = context[o]
  PROVE  SizingInv'
<1>1. ASSUME NEW o \in Runs
      PROVE  RunInv(stage'[o], attempts'[o], auto'[o], proposal'[o], context'[o])
  <2>1. CASE o = r
    BY <2>1
  <2>2. CASE o # r
    <3>1. /\ stage'[o] = stage[o] /\ attempts'[o] = attempts[o] /\ auto'[o] = auto[o]
          /\ proposal'[o] = proposal[o] /\ context'[o] = context[o]
      BY <2>2
    <3>2. RunInv(stage[o], attempts[o], auto[o], proposal[o], context[o])
      BY DEF SizingInv
    <3> QED BY <3>1, <3>2
  <2> QED BY <2>1, <2>2
<1> QED BY <1>1 DEF SizingInv

Stages == {"signal", "proposed", "assessed", "refine", "approved",
           "rejected", "flat", "failed", "diverged", "placed"}

(* The types, taken apart for one run.                                       *)
LEMMA RunIs ==
  ASSUME SizingInv, NEW r \in Runs
  PROVE  /\ proposal[r] \in Proposals /\ context[r] \in Contexts
         /\ auto[r] \in BOOLEAN /\ stage[r] \in Stages /\ attempts[r] \in 0..MaxAttempts
         /\ RunInv(stage[r], attempts[r], auto[r], proposal[r], context[r])
  BY DEF SizingInv, SizingTypeOK, Stages

(* A function with one value replaced.                                       *)
LEMMA Excepted ==
  ASSUME NEW S, NEW f \in [Runs -> S], NEW r \in Runs, NEW v \in S,
         NEW g, g = [f EXCEPT ![r] = v]
  PROVE  g \in [Runs -> S] /\ g[r] = v /\ \A o \in Runs \ {r} : g[o] = f[o]
  OBVIOUS

(* A step that gives its run values of their types keeps the invariant if it *)
(* does for this run.                                                        *)
LEMMA Keeps ==
  ASSUME SizingInv, NEW r \in Runs,
         NEW p \in Proposals, NEW c \in Contexts, NEW a \in BOOLEAN, NEW s \in Stages,
         NEW n \in 0..MaxAttempts,
         proposal' = [proposal EXCEPT ![r] = p], context' = [context EXCEPT ![r] = c],
         auto' = [auto EXCEPT ![r] = a], stage' = [stage EXCEPT ![r] = s],
         attempts' = [attempts EXCEPT ![r] = n], opened' \in Nat,
         RunInv(s, n, a, p, c)
  PROVE  SizingInv'
<1>1. /\ proposal' \in [Runs -> Proposals] /\ proposal'[r] = p
      /\ \A o \in Runs \ {r} : proposal'[o] = proposal[o]
  BY Excepted DEF SizingInv, SizingTypeOK
<1>2. /\ context' \in [Runs -> Contexts] /\ context'[r] = c
      /\ \A o \in Runs \ {r} : context'[o] = context[o]
  BY Excepted DEF SizingInv, SizingTypeOK
<1>3. /\ auto' \in [Runs -> BOOLEAN] /\ auto'[r] = a
      /\ \A o \in Runs \ {r} : auto'[o] = auto[o]
  BY DEF SizingInv, SizingTypeOK
<1>4. /\ stage' \in [Runs -> Stages] /\ stage'[r] = s
      /\ \A o \in Runs \ {r} : stage'[o] = stage[o]
  <2>1. stage \in [Runs -> Stages]
    BY DEF SizingInv, SizingTypeOK, Stages
  <2> QED BY <2>1, Excepted
<1>5. /\ attempts' \in [Runs -> 0..MaxAttempts] /\ attempts'[r] = n
      /\ \A o \in Runs \ {r} : attempts'[o] = attempts[o]
  <2>1. attempts \in [Runs -> 0..MaxAttempts]
    BY DEF SizingInv, SizingTypeOK
  <2> QED BY <2>1, Excepted
<1>6. SizingTypeOK'
  BY <1>1, <1>2, <1>3, <1>4, <1>5 DEF SizingInv, SizingTypeOK, Stages
<1>7. ASSUME NEW o \in Runs \ {r}
      PROVE  /\ stage'[o] = stage[o] /\ attempts'[o] = attempts[o]
             /\ auto'[o] = auto[o] /\ proposal'[o] = proposal[o]
             /\ context'[o] = context[o]
  BY <1>1, <1>2, <1>3, <1>4, <1>5
<1>8. proposal'[r] = p /\ context'[r] = c /\ auto'[r] = a /\ stage'[r] = s
      /\ attempts'[r] = n
  BY <1>1, <1>2, <1>3, <1>4, <1>5
<1>9. RunInv(stage'[r], attempts'[r], auto'[r], proposal'[r], context'[r])
  BY <1>8
<1> QED BY <1>6, <1>7, <1>9, OthersStay

(* What a step leaves alone is set to what it was.                           *)
LEMMA Unchanged ==
  ASSUME SizingInv, NEW r \in Runs
  PROVE  /\ proposal = [proposal EXCEPT ![r] = proposal[r]]
         /\ context = [context EXCEPT ![r] = context[r]]
         /\ auto = [auto EXCEPT ![r] = auto[r]]
         /\ attempts = [attempts EXCEPT ![r] = attempts[r]]
         /\ opened \in Nat
  BY DEF SizingInv, SizingTypeOK

(* An estimate changes nothing the invariant is about.                       *)
LEMMA EstimateIs ==
  ASSUME NEW c \in Contexts, NEW d \in Estimates(c)
  PROVE  /\ d \in Contexts /\ d.equity = c.equity /\ d.gross = c.gross
         /\ d.correlated = c.correlated /\ d.automation = c.automation
<1>1. PICK x \in Drifts : d = [c EXCEPT !.estimate = Ref + x]
  BY DEF Estimates
<1>2. PICK e \in Int : e = Ref + x
  BY <1>1, SizingAssumptions DEF Ref
<1> QED BY <1>1, <1>2 DEF Contexts

(* The strategist's proposal and its tranche.                                *)
LEMMA ProposeKeeps ==
  ASSUME SizingInv, NEW r \in Runs, Propose(r) PROVE SizingInv'
<1>1. PICK account \in Accounts, c \in Contexts :
        /\ c = [account EXCEPT !.gross = ViewGross(proposal[r], account)]
        /\ context' = [context EXCEPT ![r] = c]
        /\ LET proposals == UNION {AddOns(p, c) : p \in Suggested(proposal[r], c)}
           IN IF proposals = {} THEN Become(r, proposal[r], "flat")
              ELSE \E p \in proposals : Become(r, p, "proposed")
  <2>1. PICK account \in Accounts :
          LET c == [account EXCEPT !.gross = ViewGross(proposal[r], account)]
              proposals == UNION {AddOns(p, c) : p \in Suggested(proposal[r], c)}
          IN /\ context' = [context EXCEPT ![r] = c]
             /\ IF proposals = {} THEN Become(r, proposal[r], "flat")
                ELSE \E p \in proposals : Become(r, p, "proposed")
    BY DEF Propose
  <2>2. account \in Contexts
    BY <2>1, SizingAssumptions
  <2>3. PICK g \in Nat : g = ViewGross(proposal[r], account)
    BY <2>2, RunIs, Unchanged, ProposalIs, ContextIs DEF ViewGross
  <2>4. [account EXCEPT !.gross = ViewGross(proposal[r], account)] \in Contexts
    BY <2>2, <2>3 DEF Contexts
  <2> QED BY <2>1, <2>4
<1>2. stage[r] = "signal" /\ UNCHANGED <<auto, attempts, opened>>
  BY DEF Propose
<1>3. attempts[r] = 0 /\ auto[r] = FALSE
  BY <1>2, RunIs DEF RunInv
<1>4. /\ auto' = [auto EXCEPT ![r] = FALSE] /\ attempts' = [attempts EXCEPT ![r] = 0]
      /\ opened' \in Nat /\ 0 \in 0..MaxAttempts
  BY <1>2, <1>3, RunIs, Unchanged
<1>5. CASE Become(r, proposal[r], "flat")
  <2>1. RunInv("flat", 0, FALSE, proposal[r], c)
    BY DEF RunInv
  <2>2. "flat" \in Stages
    BY DEF Stages
  <2>3. /\ proposal' = [proposal EXCEPT ![r] = proposal[r]]
        /\ stage' = [stage EXCEPT ![r] = "flat"]
    BY <1>5 DEF Become
  <2>4. proposal[r] \in Proposals
    BY RunIs
  <2> QED BY <1>1, <1>4, <2>1, <2>2, <2>3, <2>4, Keeps
<1>6. ASSUME NEW q \in Suggested(proposal[r], c), NEW p \in AddOns(q, c),
             Become(r, p, "proposed")
      PROVE  SizingInv'
  <2>1. proposal[r] \in Signals /\ proposal[r] \in Proposals
    BY <1>2, RunIs DEF RunInv
  <2>2. q \in Proposals /\ q.entries = proposal[r].entries
    BY <2>1, SuggestedIs
  <2>3. p \in Proposals /\ TrancheIsPart(p, c)
    BY <2>1, <2>2, AddOnIs
  <2>4. RunInv("proposed", 0, FALSE, p, c)
    BY <2>3 DEF RunInv
  <2>5. "proposed" \in Stages
    BY DEF Stages
  <2>6. proposal' = [proposal EXCEPT ![r] = p] /\ stage' = [stage EXCEPT ![r] = "proposed"]
    BY <1>6 DEF Become
  <2> QED BY <1>1, <1>4, <2>3, <2>4, <2>5, <2>6, Keeps
<1> QED BY <1>1, <1>5, <1>6

(* The first assessment leaves only orders every rule has room for.          *)
LEMMA AssessFirstKeeps ==
  ASSUME SizingInv, NEW r \in Runs, AssessFirst(r) PROVE SizingInv'
<1>1. PICK c \in Estimates(context[r]) :
        /\ context' = [context EXCEPT ![r] = c]
        /\ \/ Become(r, proposal[r], "rejected")
           \/ ~Rejected(proposal[r], c) /\ Become(r, proposal[r], "assessed")
  BY DEF AssessFirst
<1>2. stage[r] = "proposed" /\ UNCHANGED <<auto, attempts, opened>>
  BY DEF AssessFirst
<1>3. c \in Contexts /\ c.automation = context[r].automation
  BY <1>1, RunIs, EstimateIs
<1>4. attempts[r] = 0 /\ auto[r] = FALSE /\ TrancheIsPart(proposal[r], c)
  BY <1>2, <1>3, RunIs DEF RunInv, TrancheIsPart
<1>5. PICK s \in {"rejected", "assessed"} :
        /\ Become(r, proposal[r], s)
        /\ s = "assessed" => ~Rejected(proposal[r], c)
  BY <1>1
<1>6. s = "assessed" => \A room \in Rooms(proposal[r], c) : room > 0
  BY <1>3, <1>5, RunIs, AcceptedHasRoom
<1>7. RunInv(s, attempts[r], auto[r], proposal[r], c)
  BY <1>4, <1>5, <1>6 DEF RunInv
<1>8. s \in Stages
  BY <1>5 DEF Stages
<1>9. /\ proposal' = [proposal EXCEPT ![r] = proposal[r]]
      /\ stage' = [stage EXCEPT ![r] = s]
  BY <1>5 DEF Become
<1>10. /\ auto' = [auto EXCEPT ![r] = auto[r]] /\ opened' \in Nat
       /\ attempts' = [attempts EXCEPT ![r] = attempts[r]]
  BY <1>2, Unchanged
<1>11. /\ proposal[r] \in Proposals /\ auto[r] \in BOOLEAN
       /\ attempts[r] \in 0..MaxAttempts
  BY RunIs
<1> QED BY <1>1, <1>3, <1>7, <1>8, <1>9, <1>10, <1>11, Keeps

(* An approval: whoever gives it, the order has become no larger than both   *)
(* what was asked for and what the rules left.                               *)
LEMMA ApprovedIs ==
  ASSUME NEW p \in Proposals, NEW c \in Contexts, NEW d \in Contexts,
         d.automation = c.automation,
         NEW size \in Nat, NEW a \in BOOLEAN, NEW q,
         \A room \in Rooms(p, c) : room > 0, TrancheIsPart(p, c),
         q = [p EXCEPT !.size = Bound(p, c, size)],
         c.automation => size <= p.size, a => size <= Limits.maxQuote
  PROVE  q \in Proposals /\ RunInv("refine", 0, a, q, d)
<1>1. Bound(p, c, size) \in Nat /\ Bound(p, c, size) <= size
  BY BoundIs
<1>2. q \in Proposals /\ q.size = Bound(p, c, size) /\ q.existing = p.existing
  BY <1>1 DEF Proposals
<1>3. TrancheIsPart(q, d)
  <2>1. SUFFICES ASSUME q.existing > 0
                 PROVE  d.automation /\ q.size <= Percent(Limits.addFraction, q.existing)
    BY DEF TrancheIsPart, Existing
  <2>2. c.automation /\ p.size <= Percent(Limits.addFraction, p.existing)
    BY <1>2, <2>1 DEF TrancheIsPart, Existing
  <2>3. Percent(Limits.addFraction, p.existing) \in Nat
    BY LimitsAre, ProposalIs, Share
  <2> QED BY <1>1, <1>2, <2>2, <2>3, ProposalIs
<1>4. a => q.size <= Limits.maxQuote
  BY <1>1, <1>2, LimitsAre
<1> QED BY <1>2, <1>3, <1>4 DEF RunInv

(* The decision, the policy's or the operator's.                             *)
LEMMA DecideKeeps ==
  ASSUME SizingInv, NEW r \in Runs, Decide(r) PROVE SizingInv'
<1> DEFINE p == proposal[r]
           c == context[r]
<1>1. /\ stage[r] = "assessed" /\ UNCHANGED <<attempts, opened>>
      /\ \E kill \in BOOLEAN : context' = [context EXCEPT ![r].kill = kill]
  BY DEF Decide
<1>2. /\ p \in Proposals /\ c \in Contexts /\ auto[r] = FALSE /\ attempts[r] = 0
      /\ \A room \in Rooms(p, c) : room > 0
      /\ TrancheIsPart(p, c)
  BY <1>1, RunIs DEF RunInv
<1>3. PICK d \in Contexts :
        d.automation = c.automation /\ context' = [context EXCEPT ![r] = d]
  <2>1. PICK kill \in BOOLEAN : context' = [context EXCEPT ![r].kill = kill]
    BY <1>1
  <2>2. [c EXCEPT !.kill = kill] \in Contexts
        /\ [c EXCEPT !.kill = kill].automation = c.automation
    BY <1>2 DEF Contexts
  <2>3. context' = [context EXCEPT ![r] = [c EXCEPT !.kill = kill]]
    BY <2>1
  <2> QED BY <2>2, <2>3
<1>4. attempts' = [attempts EXCEPT ![r] = 0] /\ opened' \in Nat /\ 0 \in 0..MaxAttempts
  BY <1>1, <1>2, RunIs, Unchanged
<1>5. CASE c.automation /\ AutoAllowed(p, c)
           /\ Become(r, [p EXCEPT !.size = Bound(p, c, Recommended(p, c))], "refine")
           /\ auto' = [auto EXCEPT ![r] = TRUE]
  <2>1. PICK size \in Nat : /\ size = Recommended(p, c)
                            /\ size <= p.size /\ size <= Limits.maxQuote
    BY <1>2, <1>5, RecommendedIs, AssessedIs, ProposalIs
  <2>2. PICK q : q = [p EXCEPT !.size = Bound(p, c, size)]
    OBVIOUS
  <2>3. q \in Proposals /\ RunInv("refine", 0, TRUE, q, d)
    BY <1>2, <1>3, <2>1, <2>2, ApprovedIs
  <2>4. proposal' = [proposal EXCEPT ![r] = q] /\ stage' = [stage EXCEPT ![r] = "refine"]
    BY <1>5, <2>1, <2>2 DEF Become
  <2>5. "refine" \in Stages
    BY DEF Stages
  <2> QED BY <1>3, <1>4, <1>5, <2>3, <2>4, <2>5, Keeps
<1>6. CASE Become(r, p, "rejected") /\ UNCHANGED auto
  <2>1. RunInv("rejected", 0, FALSE, p, d)
    BY <1>2 DEF RunInv
  <2>2. proposal' = [proposal EXCEPT ![r] = p] /\ stage' = [stage EXCEPT ![r] = "rejected"]
    BY <1>6 DEF Become
  <2>3. "rejected" \in Stages
    BY DEF Stages
  <2>4. auto' = [auto EXCEPT ![r] = FALSE]
    BY <1>2, <1>6, Unchanged
  <2> QED BY <1>2, <1>3, <1>4, <2>1, <2>2, <2>3, <2>4, Keeps
<1>7. ASSUME ~c.automation, NEW size \in {p.size} \cup Modified, UNCHANGED auto,
             Become(r, [p EXCEPT !.size = Bound(p, c, size)], "refine")
      PROVE  SizingInv'
  <2>1. size \in Nat
    BY <1>2, <1>7, ProposalIs, SizingAssumptions
  <2>2. PICK q : q = [p EXCEPT !.size = Bound(p, c, size)]
    OBVIOUS
  <2>3. q \in Proposals /\ RunInv("refine", 0, FALSE, q, d)
    BY <1>2, <1>3, <1>7, <2>1, <2>2, ApprovedIs
  <2>4. proposal' = [proposal EXCEPT ![r] = q] /\ stage' = [stage EXCEPT ![r] = "refine"]
    BY <1>7, <2>2 DEF Become
  <2>5. "refine" \in Stages
    BY DEF Stages
  <2>6. auto' = [auto EXCEPT ![r] = FALSE]
    BY <1>2, <1>7, Unchanged
  <2> QED BY <1>3, <1>4, <2>3, <2>4, <2>5, <2>6, Keeps
<1>8. \/ /\ c.automation /\ AutoAllowed(p, c) /\ auto' = [auto EXCEPT ![r] = TRUE]
         /\ Become(r, [p EXCEPT !.size = Bound(p, c, Recommended(p, c))], "refine")
      \/ Become(r, p, "rejected") /\ UNCHANGED auto
      \/ /\ ~c.automation /\ UNCHANGED auto
         /\ \E size \in {p.size} \cup Modified :
              Become(r, [p EXCEPT !.size = Bound(p, c, size)], "refine")
  BY DEF Decide
<1> HIDE DEF p, c
<1> QED BY <1>5, <1>6, <1>7, <1>8

(* What a turn of the loop leaves of a run: an order that still goes round   *)
(* fits the rules; so the next turn leaves it as it is, and one that is      *)
(* through keeps the limits.                                                 *)
LEMMA ReassessKeeps ==
  ASSUME SizingInv, NEW r \in Runs, Reassess(r) PROVE SizingInv'
<1>1. PICK c \in Estimates(context[r]) :
        /\ context' = [context EXCEPT ![r] = c]
        /\ IF Leveraged(proposal[r], c) = {} THEN Become(r, proposal[r], "failed")
           ELSE \E q \in Leveraged(proposal[r], c) :
             IF Rejected(q, c) THEN Become(r, q, "rejected")
             ELSE IF Assessed(q, c) < q.size
               THEN Become(r, [q EXCEPT !.size = Assessed(q, c)],
                           IF attempts'[r] = MaxAttempts THEN "diverged" ELSE "refine")
             ELSE Become(r, q, IF TooRisky(r, q, c) THEN "rejected" ELSE "approved")
  BY DEF Reassess
<1>2. /\ stage[r] = "refine" /\ UNCHANGED <<auto, opened>>
      /\ attempts' = [attempts EXCEPT ![r] = attempts[r] + 1]
  BY DEF Reassess
<1>3. PICK p \in Proposals, n \in 0..MaxAttempts :
        /\ p = proposal[r] /\ n = attempts[r] + 1 /\ n \in 1..2
  <2>1. attempts[r] \in 0..1
    <3>1. RunInv("refine", attempts[r], auto[r], proposal[r], context[r])
      BY <1>2, RunIs
    <3>2. attempts[r] <= 1
      BY <3>1 DEF RunInv
    <3>3. attempts[r] \in Nat
      BY RunIs, SizingAssumptions
    <3> QED BY <3>2, <3>3
  <2>2. attempts[r] + 1 \in 0..MaxAttempts /\ attempts[r] + 1 \in 1..2
    BY <2>1, SizingAssumptions
  <2> QED BY <2>2, RunIs
<1>4. /\ c \in Contexts /\ c.automation = context[r].automation
      /\ FixedRooms(p, c) = FixedRooms(p, context[r])
  BY <1>1, <1>3, RunIs, EstimateIs, SameRooms
<1>5. /\ TrancheIsPart(p, c) /\ (auto[r] => p.size <= Limits.maxQuote)
      /\ n = 2 => Fits(p, c)
  <2>1. RunInv("refine", attempts[r], auto[r], p, context[r])
    BY <1>2, <1>3, RunIs
  <2>2. TrancheIsPart(p, c) /\ (auto[r] => p.size <= Limits.maxQuote)
    BY <1>4, <2>1 DEF RunInv, TrancheIsPart
  <2>3. n = 2 => attempts[r] = 1
    BY <1>3, RunIs
  <2> QED BY <1>4, <2>1, <2>2, <2>3 DEF RunInv, Fits
<1>6. attempts' = [attempts EXCEPT ![r] = n] /\ attempts'[r] = n
  BY <1>2, <1>3 DEF SizingInv, SizingTypeOK
<1>7. ASSUME NEW q \in Proposals, NEW s \in Stages, Become(r, q, s), RunInv(s, n, auto[r], q, c)
      PROVE  SizingInv'
  <2>1. proposal' = [proposal EXCEPT ![r] = q] /\ stage' = [stage EXCEPT ![r] = s]
    BY <1>7 DEF Become
  <2>2. opened' \in Nat /\ auto[r] \in BOOLEAN /\ attempts' = [attempts EXCEPT ![r] = n]
    BY <1>2, <1>6, Unchanged, RunIs
  <2>3. context' = [context EXCEPT ![r] = c] /\ c \in Contexts
    BY <1>1, <1>4
  <2>4. CASE auto[r] = TRUE
    <3>1. auto' = [auto EXCEPT ![r] = TRUE] /\ RunInv(s, n, TRUE, q, c)
      BY <1>2, <1>7, <2>4, Unchanged
    <3> QED BY <2>1, <2>2, <2>3, <3>1, Keeps
  <2>5. CASE auto[r] = FALSE
    <3>1. auto' = [auto EXCEPT ![r] = FALSE] /\ RunInv(s, n, FALSE, q, c)
      BY <1>2, <1>7, <2>5, Unchanged
    <3> QED BY <2>1, <2>2, <2>3, <3>1, Keeps
  <2> QED BY <2>2, <2>4, <2>5
<1>8. CASE Leveraged(p, c) = {}
  <2>1. Become(r, p, "failed")
    BY <1>1, <1>3, <1>8
  <2>2. RunInv("failed", n, auto[r], p, c)
    BY <1>5 DEF RunInv
  <2>3. "failed" \in Stages
    BY DEF Stages
  <2> QED BY <1>7, <2>1, <2>2, <2>3
<1>9. ASSUME NEW q \in Leveraged(p, c),
             IF Rejected(q, c) THEN Become(r, q, "rejected")
             ELSE IF Assessed(q, c) < q.size
               THEN Become(r, [q EXCEPT !.size = Assessed(q, c)],
                           IF n = MaxAttempts THEN "diverged" ELSE "refine")
             ELSE Become(r, q, IF TooRisky(r, q, c) THEN "rejected" ELSE "approved")
      PROVE  SizingInv'
  <2>1. q \in Proposals /\ q.existing = p.existing /\ q.size <= p.size
    BY <1>4, LeveragedIs DEF Releveraged
  <2>2. ASSUME NEW t \in Proposals, t.existing = p.existing, t.size <= p.size
        PROVE  TrancheIsPart(t, c) /\ (auto[r] => t.size <= Limits.maxQuote)
    <3>1. t.size \in Nat /\ p.size \in Nat /\ p.existing \in Nat
      BY <2>2, ProposalIs
    <3>2. Percent(Limits.addFraction, p.existing) \in Nat
      BY <3>1, LimitsAre, Share
    <3>3. auto[r] => t.size <= Limits.maxQuote
      BY <1>5, <2>2, <3>1, LimitsAre
    <3>4. TrancheIsPart(t, c)
      BY <1>5, <2>2, <3>1, <3>2 DEF TrancheIsPart, Existing
    <3> QED BY <3>3, <3>4
  <2>3. TrancheIsPart(q, c) /\ (auto[r] => q.size <= Limits.maxQuote)
    BY <2>1, <2>2, ProposalIs
  <2>4. ASSUME Become(r, q, "rejected") PROVE SizingInv'
    <3>1. RunInv("rejected", n, auto[r], q, c)
      BY <2>3 DEF RunInv
    <3>2. "rejected" \in Stages
      BY DEF Stages
    <3> QED BY <1>7, <2>1, <2>4, <3>1, <3>2
  <2>5. CASE ~Rejected(q, c) /\ Assessed(q, c) < q.size
    <3>1. n = 1 /\ n # MaxAttempts
      BY <1>3, <1>4, <1>5, <2>5, FitsStays, SizingAssumptions
    <3>2. \A room \in Rooms(q, c) : room > 0
      BY <1>4, <2>1, <2>5, AcceptedHasRoom
    <3>3. PICK t : t = [q EXCEPT !.size = Assessed(q, c)]
      OBVIOUS
    <3>4. t \in Proposals /\ Fits(t, c) /\ t.size <= q.size /\ t.existing = q.existing
      BY <1>4, <2>1, <3>2, <3>3, AssessedFits
    <3>5. t.size <= p.size /\ t.existing = p.existing
      BY <2>1, <3>4, ProposalIs
    <3>6. RunInv("refine", n, auto[r], t, c)
      BY <2>2, <3>1, <3>4, <3>5 DEF RunInv
    <3>7. Become(r, t, "refine")
      BY <1>9, <2>5, <3>1, <3>3
    <3>8. "refine" \in Stages
      BY DEF Stages
    <3>9. t \in Proposals
      BY <3>4
    <3> QED BY ONLY <1>7, <3>6, <3>7, <3>8, <3>9
  <2>6. CASE ~Rejected(q, c) /\ ~(Assessed(q, c) < q.size)
    <3>1. Fits(q, c)
      BY <1>4, <2>1, <2>6, AssessedIs, RoomsHaveMin, ProposalIs DEF Fits, Rooms
    <3>2. Kept(q, c)
      BY <1>4, <3>1, FitsKeeps
    <3>3. CASE Become(r, q, "rejected")
      BY <2>4, <3>3
    <3>4. CASE Become(r, q, "approved")
      <4>1. RunInv("approved", n, auto[r], q, c)
        BY <2>3, <3>2 DEF RunInv
      <4>2. "approved" \in Stages
        BY DEF Stages
      <4> QED BY <1>7, <2>1, <3>4, <4>1, <4>2
    <3> QED BY <1>9, <2>6, <3>3, <3>4
  <2>7. CASE Rejected(q, c)
    BY <1>9, <2>4, <2>7
  <2> QED BY <2>5, <2>6, <2>7
<1> QED BY <1>1, <1>3, <1>6, <1>8, <1>9

(* The order that goes out is the one that was approved.                     *)
LEMMA ExecuteKeeps ==
  ASSUME SizingInv, NEW r \in Runs, Execute(r) PROVE SizingInv'
<1>1. /\ stage[r] = "approved" /\ UNCHANGED <<context, auto, attempts>>
      /\ opened' = opened + proposal[r].size
      /\ proposal' = [proposal EXCEPT ![r] = proposal[r]]
      /\ stage' = [stage EXCEPT ![r] = "placed"]
  BY DEF Execute, Become
<1>2. opened' \in Nat
  BY <1>1, RunIs, Unchanged, ProposalIs
<1>3. RunInv("placed", attempts[r], auto[r], proposal[r], context[r])
  BY <1>1, RunIs DEF RunInv
<1>4. "placed" \in Stages
  BY DEF Stages
<1>5. /\ auto' = [auto EXCEPT ![r] = auto[r]] /\ context' = [context EXCEPT ![r] = context[r]]
      /\ attempts' = [attempts EXCEPT ![r] = attempts[r]]
  BY <1>1, Unchanged
<1>6. /\ proposal[r] \in Proposals /\ context[r] \in Contexts /\ auto[r] \in BOOLEAN
      /\ attempts[r] \in 0..MaxAttempts
  BY RunIs
<1>7. proposal' = [proposal EXCEPT ![r] = proposal[r]]
      /\ stage' = [stage EXCEPT ![r] = "placed"]
  BY <1>1
<1> QED BY <1>2, <1>3, <1>4, <1>5, <1>6, <1>7, Keeps

-----------------------------------------------------------------------------
(* The invariant holds at first.                                             *)
LEMMA SizingInitInv == SizingInit => SizingInv
<1> SUFFICES ASSUME SizingInit PROVE SizingInv
  OBVIOUS
<1>1. PICK account \in Contexts : context = [r \in Runs |-> account]
  <2>1. (CHOOSE account \in Accounts : TRUE) \in Accounts
    BY SizingAssumptions
  <2> QED BY <2>1, SizingAssumptions DEF SizingInit
<1>2. proposal \in [Runs -> Proposals]
  BY SizingAssumptions DEF SizingInit
<1>3. SizingTypeOK
  BY <1>1, <1>2, SizingAssumptions DEF SizingInit, SizingTypeOK
<1>4. ASSUME NEW r \in Runs
      PROVE  RunInv(stage[r], attempts[r], auto[r], proposal[r], context[r])
  <2>1. /\ stage[r] = "signal" /\ attempts[r] = 0 /\ auto[r] = FALSE
        /\ proposal[r] \in Signals
    BY DEF SizingInit
  <2> QED BY <2>1 DEF RunInv
<1> QED BY <1>3, <1>4 DEF SizingInv

(* Every step keeps it.                                                      *)
LEMMA SizingStepInv == SizingInv /\ [SizingNext]_sizingVars => SizingInv'
<1> SUFFICES ASSUME SizingInv, [SizingNext]_sizingVars PROVE SizingInv'
  OBVIOUS
<1>1. CASE UNCHANGED sizingVars
  BY <1>1 DEF sizingVars, SizingInv, SizingTypeOK
<1>2. ASSUME NEW r \in Runs,
             Propose(r) \/ AssessFirst(r) \/ Decide(r) \/ Reassess(r) \/ Execute(r)
      PROVE  SizingInv'
  BY <1>2, ProposeKeeps, AssessFirstKeeps, DecideKeeps, ReassessKeeps, ExecuteKeeps
<1> QED BY <1>1, <1>2 DEF SizingNext

(* What was approved keeps the limits.                                       *)
LEMMA InvMeansLimits == SizingInv => WithinLimits
<1> SUFFICES ASSUME SizingInv, NEW r \in Runs
             PROVE  LET p == proposal[r]
                        c == context[r]
                    IN /\ stage[r] # "diverged"
                       /\ stage[r] \in {"approved", "placed"} =>
                            /\ Kept(p, c)
                            /\ auto[r] => p.size <= Limits.maxQuote
                            /\ Existing(p) > 0 =>
                                 p.size * 100 <= Limits.addFraction * Existing(p)
  BY DEF WithinLimits, Kept
<1>1. PICK p \in Proposals, c \in Contexts : p = proposal[r] /\ c = context[r]
  BY RunIs
<1>2. RunInv(stage[r], attempts[r], auto[r], p, c)
  BY <1>1, RunIs
<1>3. ASSUME TrancheIsPart(p, c), Existing(p) > 0
      PROVE  p.size * 100 <= Limits.addFraction * Existing(p)
  <2>1. PICK k \in Nat, e \in Nat : /\ k = Percent(Limits.addFraction, Existing(p))
                                    /\ e = Limits.addFraction * Existing(p)
                                    /\ k * 100 <= e
    BY LimitsAre, ProposalIs, ShareIs DEF Existing
  <2>2. p.size <= k /\ p.size \in Nat
    BY <1>3, <2>1, ProposalIs DEF TrancheIsPart
  <2> QED BY <2>1, <2>2
<1> QED BY <1>1, <1>2, <1>3 DEF RunInv

(* risk/engine.go, risk/leverage.go, orchestrator/leverage.go: an approved   *)
(* order keeps every limit at once, for every configuration that validates,  *)
(* every signal, account and drift of the price, whoever approved it and     *)
(* whatever size he wrote; and reassessExecutableProposal never runs out of  *)
(* its turns, as the second one never makes an order smaller.                *)
THEOREM SizesStayWithinLimits == SizingSpec => []WithinLimits
<1>1. SizingSpec => []SizingInv
  BY SizingInitInv, SizingStepInv, PTL DEF SizingSpec
<1> QED BY <1>1, InvMeansLimits, PTL
=============================================================================
