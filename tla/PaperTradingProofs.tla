------------------------- MODULE PaperTradingProofs -------------------------
(* The paper venue neither makes nor loses money, and the handlers of a      *)
(* symbol keep its promise, leave no fill unbooked without a freeze, book    *)
(* what the orders made, and add no more than they may, for every number of  *)
(* handlers and every set of prices and intents.                             *)
EXTENDS PaperTrading, FiniteSetTheorems, WellFoundedInduction, TLAPS

-----------------------------------------------------------------------------
(* The venue.                                                                *)

(* What ties the free balance to the history: the margin is with the         *)
(* position, and only what the fills paid has come or gone.                  *)
Balanced ==
  freeQuote + (IF Adding THEN Margin(position.notional, position.leverage)
                              - Sign(position.side) * position.notional ELSE 0)
    = cash

(* Quotients are integers.                                                   *)
LEMMA DivIsInt == ASSUME NEW n \in Int, NEW d \in Nat \ {0} PROVE n \div d \in Int
  OBVIOUS

(* A position that is there has integer amounts.                             *)
LEMMA Amounts ==
  ASSUME VenueTypeOK, position # Flat
  PROVE  /\ position \in [side : {"long", "short"}, size : Nat, notional : Int,
                          leverage : Nat \ {0}]
         /\ Margin(position.notional, position.leverage) \in Int
         /\ Adding
<1>1. position \in [side : {"long", "short"}, size : Nat, notional : Int,
                    leverage : Nat \ {0}]
  BY DEF VenueTypeOK, Positions
<1>2. Margin(position.notional, position.leverage) \in Int
  BY <1>1, DivIsInt DEF Margin
<1> QED BY <1>1, <1>2 DEF Adding

(* Nothing is added to no position.                                          *)
LEMMA FlatIsNotAdding == ASSUME position = Flat PROVE ~Adding
  BY DEF Flat, Adding

(* Fees are integers.                                                        *)
LEMMA FeeIsInt == ASSUME NEW q \in Int PROVE Fee(q) \in Int
  BY DivIsInt, AmountsAssumption DEF Fee

(* Estimated prices are integers.                                            *)
LEMMA EstPriceIsInt ==
  ASSUME VenueTypeOK, NEW side, NEW r \in BOOLEAN PROVE EstPrice(side, r) \in Int
  BY AmountsAssumption DEF VenueTypeOK, EstPrice

(* The protective orders are triggers.                                       *)
LEMMA TriggersAre == ASSUME VenueTypeOK PROVE protective \in Triggers
  BY DEF VenueTypeOK

(* closeAtPriceLocked pays out what the position was worth. *)
LEMMA CloseKeepsBalance ==
  ASSUME VenueTypeOK, Balanced, position # Flat, NEW price \in Int, CloseAt(price)
  PROVE  /\ Balanced'
         /\ freeQuote' \in Int /\ cash' \in Int
         /\ position' \in Positions /\ protective' \in Triggers
<1> DEFINE n == position.notional  m == Margin(n, position.leverage)
           q == position.size * price  f == Fee(q)
<1>1. /\ n \in Int /\ m \in Int /\ Adding
      /\ position.side \in {"long", "short"} /\ position.size \in Nat
  BY Amounts
<1>2. q \in Int
  BY <1>1
<1>3. f \in Int
  BY <1>2, FeeIsInt
<1>4. /\ freeQuote' = freeQuote + m + Sign(position.side) * (q - n) - f
      /\ cash' = cash + Sign(position.side) * q - f
      /\ position' = Flat /\ protective' = NoOrders
  BY DEF CloseAt, Earned
<1>5. freeQuote + (m - Sign(position.side) * n) = cash
  BY <1>1 DEF Balanced
<1>6. freeQuote \in Int /\ cash \in Int
  BY DEF VenueTypeOK
<1> HIDE DEF n, m, q, f
<1>7. freeQuote' = cash' /\ freeQuote' \in Int
  <2>1. CASE position.side = "long"
    BY <2>1, <1>1, <1>2, <1>3, <1>4, <1>5, <1>6 DEF Sign
  <2>2. CASE position.side = "short"
    BY <2>2, <1>1, <1>2, <1>3, <1>4, <1>5, <1>6 DEF Sign
  <2> QED BY <2>1, <2>2, <1>1
<1>8. Balanced'
  BY <1>4, <1>7 DEF Balanced, Adding, Flat
<1> QED BY <1>4, <1>7, <1>8 DEF Positions, NoOrders, Triggers

(* Place with an entry pays the margin of the whole position at the new      *)
(* leverage, less the margin that was there.                                 *)
LEMMA EntryKeepsBalance ==
  ASSUME VenueTypeOK, Balanced, NEW o \in Orders, NEW i \in Intents,
         Accepted(i), FillEntry(o, i)
  PROVE  VenueTypeOK' /\ Balanced' /\ Adding'
<1> DEFINE price == EstPrice(i.side, FALSE)  q == i.size * price  f == Fee(q)
           n == position.notional  new == Margin(n + q, i.leverage)
           old == Margin(n, position.leverage)
           orders == ConservativeProtectiveOrders(i.side, protective, i.protective)
<1>1. /\ i.side \in {"long", "short"} /\ i.size \in Nat \ {0}
      /\ i.leverage \in Nat \ {0} /\ i.protective \in Triggers
  BY AmountsAssumption
<1>2. price \in Int
  BY EstPriceIsInt
<1>3. q \in Int
  <2> HIDE DEF price
  <2> QED BY <1>1, <1>2
<1>4. f \in Int
  BY <1>3, FeeIsInt
<1>5. /\ n \in Int /\ position.size \in Nat /\ position.leverage \in Nat \ {0}
      /\ position # Flat => position.side \in {"long", "short"}
  BY DEF VenueTypeOK, Positions, Flat
<1>6. old \in Int /\ new \in Int
  <2> HIDE DEF q, n
  <2>1. n + q \in Int
    BY <1>3, <1>5
  <2> QED BY <2>1, <1>1, <1>5, DivIsInt DEF Margin
<1>7. orders \in Triggers
  <2>1. ASSUME NEW kind, NEW a \in Nat, NEW b \in Nat
        PROVE  Tighter(i.side, kind, a, b) \in Nat
    BY DEF Tighter
  <2> QED BY <2>1, <1>1, TriggersAre DEF ConservativeProtectiveOrders, Triggers
<1>8. /\ freeQuote' = freeQuote - (new - old) - f
      /\ cash' = cash - Sign(i.side) * q - f
      /\ position' = [side |-> i.side, size |-> position.size + i.size,
                      notional |-> n + q, leverage |-> i.leverage]
      /\ protective' = orders
      /\ fills' = [fills EXCEPT ![o] =
           [status |-> "filled", size |-> i.size, price |-> price,
            fee |-> f, protective |-> orders]]
      /\ mark' = mark
  BY DEF FillEntry, Cost
<1>9. Adding => position.side = i.side
  BY DEF Accepted
<1>10. freeQuote + (IF Adding THEN old - Sign(i.side) * n ELSE 0) = cash
  BY <1>9 DEF Balanced
<1>11. ~Adding => old = 0 /\ n = 0
  <2>1. ~Adding => position = Flat
    BY <1>5 DEF Adding
  <2>2. 0 \div 1 = 0
    OBVIOUS
  <2> QED BY <2>1, <2>2 DEF Margin, Flat
<1>12. freeQuote \in Int /\ cash \in Int
  BY DEF VenueTypeOK
<1>13. /\ position' \in Positions /\ position'.side = i.side
       /\ Margin(position'.notional, position'.leverage) = new
       /\ position'.notional = n + q
  <2> HIDE DEF q
  <2> QED BY <1>1, <1>3, <1>5, <1>8 DEF Positions
<1>14. Adding'
  BY <1>13, <1>1 DEF Adding
<1>15. [status |-> "filled", size |-> i.size, price |-> price,
        fee |-> f, protective |-> orders] \in Results
  <2> HIDE DEF price, f, orders
  <2> QED BY <1>1, <1>2, <1>4, <1>7 DEF Results
<1>16. fills' \in [Orders -> Results]
  BY <1>8, <1>15 DEF VenueTypeOK
<1> HIDE DEF price, q, f, n, new, old, orders
<1>17. freeQuote' \in Int /\ cash' \in Int /\ freeQuote' + (new - Sign(i.side) * (n + q)) = cash'
  <2>1. CASE i.side = "long"
    BY <2>1, <1>3, <1>4, <1>5, <1>6, <1>8, <1>10, <1>11, <1>12 DEF Sign
  <2>2. CASE i.side = "short"
    BY <2>2, <1>3, <1>4, <1>5, <1>6, <1>8, <1>10, <1>11, <1>12 DEF Sign
  <2> QED BY <2>1, <2>2, <1>1
<1>18. Balanced'
  BY <1>13, <1>14, <1>17 DEF Balanced
<1>19. VenueTypeOK'
  BY <1>7, <1>8, <1>13, <1>16, <1>17 DEF VenueTypeOK
<1> QED BY <1>14, <1>18, <1>19

(* A rejected order changes no money.                                        *)
LEMMA RejectionKeepsBalance ==
  ASSUME VenueTypeOK, Balanced, NEW o \in Orders, RememberRejected(o)
  PROVE  VenueTypeOK' /\ Balanced'
<1>1. Rejected \in Results
  BY DEF Rejected, NoResult, NoOrders, Results, Triggers
<1> QED BY <1>1 DEF RememberRejected, VenueTypeOK, Balanced, Adding

(* Placing an order keeps the balance.                                       *)
LEMMA PlaceKeepsBalance ==
  ASSUME VenueTypeOK, Balanced, NEW o \in Orders
  PROVE  /\ \A i \in Intents : PlaceEntry(o, i) => VenueTypeOK' /\ Balanced'
         /\ PlaceClose(o) => VenueTypeOK' /\ Balanced'
<1>1. ASSUME NEW i \in Intents, PlaceEntry(o, i) PROVE VenueTypeOK' /\ Balanced'
  BY <1>1, EntryKeepsBalance, RejectionKeepsBalance DEF PlaceEntry
<1>2. ASSUME PlaceClose(o) PROVE VenueTypeOK' /\ Balanced'
  <2>1. CASE mark # 0 /\ Adding
    <3> DEFINE price == EstPrice(position.side, TRUE)
               r == [status |-> "filled", size |-> position.size, price |-> price,
                     fee |-> Fee(position.size * price), protective |-> NoOrders]
    <3>1. price \in Int
      BY EstPriceIsInt
    <3>2. CloseAt(price) /\ fills' = [fills EXCEPT ![o] = r] /\ mark' = mark
      BY <1>2, <2>1 DEF PlaceClose
    <3>3. position # Flat
      BY <2>1, FlatIsNotAdding
    <3>4. position.size \in Nat
      BY <3>3, Amounts
    <3> HIDE DEF price
    <3>5. r \in Results
      <4>1. position.size * price \in Int
        BY <3>1, <3>4
      <4>2. Fee(position.size * price) \in Int
        BY <4>1, FeeIsInt
      <4> QED BY <4>2, <3>1, <3>4 DEF Results, NoOrders, Triggers
    <3> HIDE DEF r
    <3>6. fills' \in [Orders -> Results]
      BY <3>2, <3>5 DEF VenueTypeOK
    <3> QED BY <3>1, <3>2, <3>3, <3>6, CloseKeepsBalance DEF VenueTypeOK
  <2>2. CASE ~(mark # 0 /\ Adding)
    BY <1>2, <2>2, RejectionKeepsBalance DEF PlaceClose
  <2> QED BY <2>1, <2>2
<1> QED BY <1>1, <1>2

(* SetMarkPrice, with what it triggers. *)
LEMMA MarkKeepsBalance ==
  ASSUME VenueTypeOK, Balanced, NEW p \in Prices, SetMarkPrice(p)
  PROVE  VenueTypeOK' /\ Balanced'
<1>1. p \in Int /\ mark' = p /\ fills' = fills
  BY AmountsAssumption DEF SetMarkPrice, TriggerProtective
<1>2. CASE Hit(p)
  <2>1. position # Flat
    BY <1>2 DEF Hit, Flat
  <2> QED BY <1>1, <1>2, <2>1, CloseKeepsBalance DEF SetMarkPrice, TriggerProtective, VenueTypeOK
<1>3. CASE ~Hit(p)
  BY <1>1, <1>3 DEF SetMarkPrice, TriggerProtective, VenueTypeOK, Balanced, Adding
<1> QED BY <1>2, <1>3

(* A new account is balanced.                                                *)
LEMMA VenueInitBalanced == VenueInit => VenueTypeOK /\ Balanced
<1>1. NoResult \in Results
  BY DEF NoResult, NoOrders, Results, Triggers
<1> QED BY <1>1, AmountsAssumption
        DEF VenueInit, VenueTypeOK, Balanced, Adding, Flat, Positions, NoOrders, Triggers

(* Standing still keeps the balance.                                         *)
LEMMA VenueStutterKeepsBalance ==
  ASSUME VenueTypeOK, Balanced, UNCHANGED venueVars PROVE VenueTypeOK' /\ Balanced'
BY DEF venueVars, VenueTypeOK, Balanced, Adding

(* Every step of the venue keeps the balance.                                *)
LEMMA VenueStepKeepsBalance ==
  ASSUME VenueTypeOK, Balanced, VenueNext PROVE VenueTypeOK' /\ Balanced'
<1>1. CASE \E p \in Prices : SetMarkPrice(p)
  BY <1>1, MarkKeepsBalance
<1>2. CASE \E o \in Orders : (\E i \in Intents : PlaceEntry(o, i)) \/ PlaceClose(o)
  BY <1>2, PlaceKeepsBalance
<1>3. CASE CancelProtectiveOrders
  BY <1>3 DEF CancelProtectiveOrders, VenueTypeOK, Balanced, Adding, NoOrders, Triggers
<1> QED BY <1>1, <1>2, <1>3 DEF VenueNext

(* A balanced account has conserved its equity.                              *)
LEMMA BalancedIsConserved == VenueTypeOK /\ Balanced => EquityConserved
<1> SUFFICES ASSUME VenueTypeOK, Balanced PROVE EquityConserved
  OBVIOUS
<1>1. CASE position = Flat
  <2>1. ~Adding
    BY <1>1, FlatIsNotAdding
  <2> QED BY <2>1 DEF Balanced, EquityConserved, TotalQuote, VenueTypeOK
<1>2. CASE position # Flat
  <2> DEFINE m == Margin(position.notional, position.leverage)
             n == position.notional  worth == position.size * mark
  <2>1. /\ m \in Int /\ n \in Int /\ Adding
        /\ position.side \in {"long", "short"} /\ position.size \in Nat
    BY <1>2, Amounts
  <2>2. mark \in Int /\ freeQuote \in Int /\ cash \in Int
    BY AmountsAssumption DEF VenueTypeOK
  <2>3. worth \in Int
    BY <2>1, <2>2
  <2>4. freeQuote + (m - Sign(position.side) * n) = cash
    BY <2>1 DEF Balanced
  <2>5. TotalQuote = freeQuote + (m + Sign(position.side) * (worth - n))
    BY <2>1 DEF TotalQuote, Earned
  <2> HIDE DEF m, n, worth
  <2>6. TotalQuote = cash + Sign(position.side) * worth
    <3>1. CASE position.side = "long"
      BY <3>1, <2>1, <2>2, <2>3, <2>4, <2>5 DEF Sign
    <3>2. CASE position.side = "short"
      BY <3>2, <2>1, <2>2, <2>3, <2>4, <2>5 DEF Sign
    <3> QED BY <3>1, <3>2, <2>1
  <2>7. Sign(position.side) * worth = Sign(position.side) * position.size * mark
    BY <2>1, <2>2 DEF Sign, worth
  <2> QED BY <2>1, <2>6, <2>7 DEF EquityConserved
<1> QED BY <1>1, <1>2

(* Every state of the venue is of its type, and what it reports as total is  *)
(* what was paid in and out with the position at its mark.                   *)
THEOREM VenueConservesEquity == VenueSpec => [](VenueTypeOK /\ EquityConserved)
<1>1. VenueInit => VenueTypeOK /\ Balanced
  BY VenueInitBalanced
<1>2. VenueTypeOK /\ Balanced /\ [VenueNext]_venueVars => (VenueTypeOK /\ Balanced)'
  BY VenueStepKeepsBalance, VenueStutterKeepsBalance
<1>3. VenueTypeOK /\ Balanced => VenueTypeOK /\ EquityConserved
  BY BalancedIsConserved
<1> QED BY <1>1, <1>2, <1>3, PTL DEF VenueSpec

-----------------------------------------------------------------------------
(* The handlers.                                                             *)

(* What a handler's local variables hold at each of its steps. *)
Locals ==
  /\ step \notin {"idle", "decide"} => handler # 0
  /\ step \in {"close", "book"} => seen # Flat
  /\ \/ step \in {"enter", "protect", "open"}
     \/ step \in {"close", "book", "reopen"} /\ role = "reverse"
     => intent \in Intents
  /\ step = "reopen" => role = "reverse"
  /\ step = "protect" => Adding

(* The fill a handler has still to book. *)
Pending(o) ==
  /\ o[1] = handler
  /\ \/ step = "book" /\ o[2] = role
     \/ step \in {"protect", "open"} /\ o[2] = "entry"

Accounted ==
  \A o \in Orders : Filled(o) /\ o[2] # "reverse" => Booked(o) \/ o \in excused \/ Pending(o)

(* The orders of a handler are its own.                                      *)
LEMMA OrderIsOrder ==
  ASSUME HandlersTypeOK, handler # 0, NEW k \in {"entry"} \cup Roles
  PROVE  Order(k) \in Orders /\ Order(k)[1] = handler /\ Order(k)[2] = k
<1>1. handler \in 1..MaxHandlers
  BY LimitsAssumption DEF HandlersTypeOK
<1> QED BY <1>1, OrdersAssumption DEF Order

(* Roles are kinds of orders.                                                *)
LEMMA RoleIsKind == ASSUME HandlersTypeOK PROVE role \in {"entry"} \cup Roles
  BY DEF HandlersTypeOK

-----------------------------------------------------------------------------
(* Every step is a step of the venue, or leaves it alone. *)
LEMMA VenueSteps ==
  ASSUME TypeOK, Locals, [Next]_vars PROVE [VenueNext]_venueVars
<1>1. ASSUME NEW p \in Prices, RunBegin(p) PROVE VenueNext
  BY <1>1 DEF RunBegin, VenueNext
<1>2. ASSUME Close PROVE VenueNext
  <2>1. PICK o \in Orders : o = Order(role)
    BY <1>2, OrderIsOrder, RoleIsKind DEF Close, Locals, TypeOK
  <2>2. PlaceClose(o)
    BY <1>2, <2>1 DEF Close
  <2> QED BY <2>2 DEF VenueNext
<1>3. ASSUME Enter PROVE VenueNext
  <2>1. PICK o \in Orders : o = Order("entry")
    BY <1>3, OrderIsOrder DEF Enter, Locals, TypeOK
  <2>2. PICK i \in Intents : i = intent
    BY <1>3 DEF Enter, Locals
  <2>3. PlaceEntry(o, i)
    BY <1>3, <2>1, <2>2 DEF Enter
  <2> QED BY <2>3 DEF VenueNext
<1>4. ASSUME NEW i \in Intents, RunPropose(i) PROVE UNCHANGED venueVars
  BY <1>4 DEF RunPropose
<1>5. CASE \/ RunNoTrade \/ ManualClose \/ ExitDecide \/ ExitBegin \/ SaveFails
           \/ BookClose \/ BookCloseFails \/ RunReopen \/ RunStaysOut
           \/ Protected \/ Remediate \/ BookOpen \/ ReconcileRead \/ ReconcileEnd
           \/ UNCHANGED vars
  BY <1>5 DEF RunNoTrade, ManualClose, ExitDecide, ExitBegin, CloseBegin, SaveFails,
              BookClose, BookCloseFails, RunReopen, RunStaysOut, Protected, Remediate,
              BookOpen, ReconcileRead, ReconcileEnd, vars
<1> QED BY <1>1, <1>2, <1>3, <1>4, <1>5 DEF Next

-----------------------------------------------------------------------------
(* The ledger. *)
LEMMA AppendKeepsTrades ==
  ASSUME LedgerTypeOK(Orders), NEW r \in Trades(Orders), trades' = Append(trades, r)
  PROVE  /\ trades' \in Seq(Trades(Orders))
         /\ \A id, kind : HasTrade(id, kind) => HasTrade(id, kind)'
         /\ HasTrade(r.id, r.kind)'
<1>1. trades \in Seq(Trades(Orders))
  BY DEF LedgerTypeOK
<1>2. /\ trades' \in Seq(Trades(Orders)) /\ Len(trades') = Len(trades) + 1
      /\ Len(trades) \in Nat
      /\ \A t \in 1..Len(trades) : trades'[t] = trades[t]
      /\ trades'[Len(trades) + 1] = r
  BY <1>1
<1>3. ASSUME NEW id, NEW kind, HasTrade(id, kind) PROVE HasTrade(id, kind)'
  BY <1>2, <1>3 DEF HasTrade
<1>4. HasTrade(r.id, r.kind)'
  BY <1>2 DEF HasTrade
<1> QED BY <1>2, <1>3, <1>4

(* What the ledger records is a trade.                                       *)
LEMMA RecordIsTrade ==
  ASSUME NEW id \in Orders \cup {<<>>}, NEW kind \in Kinds, NEW p, NEW pnl \in Int,
         p.side \in {"long", "short"}, p.size \in Nat, p.notional \in Int
  PROVE  /\ Record(id, kind, p, pnl) \in Trades(Orders)
         /\ Record(id, kind, p, pnl).id = id /\ Record(id, kind, p, pnl).kind = kind
BY DEF Record, Trades

(* RecordOpen and RecordClose book what they are given, once. *)
LEMMA OpenIsBooked ==
  ASSUME LedgerTypeOK(Orders), NEW o \in Orders, NEW p, NEW fee \in Int,
         p.side \in {"long", "short"}, p.size \in Nat, p.notional \in Int,
         RecordOpen(o, p, fee)
  PROVE  /\ LedgerTypeOK(Orders)' /\ HasTrade(o, "open")'
         /\ \A id, kind : HasTrade(id, kind) => HasTrade(id, kind)'
<1>1. CASE HasTrade(o, "open")
  BY <1>1 DEF RecordOpen, ledger, LedgerTypeOK, HasTrade
<1>2. CASE ~HasTrade(o, "open")
  <2> DEFINE r == Record(o, "open", p, -fee)
  <2>1. r \in Trades(Orders) /\ r.id = o /\ r.kind = "open"
    BY RecordIsTrade DEF Kinds
  <2>2. trades' = Append(trades, r) /\ realized' = realized - fee /\ losses' = losses
    BY <1>2 DEF RecordOpen
  <2> HIDE DEF r
  <2> QED BY <2>1, <2>2, AppendKeepsTrades DEF LedgerTypeOK
<1> QED BY <1>1, <1>2

(* RecordClose leaves the close in the ledger and drops nothing.             *)
LEMMA CloseIsBooked ==
  ASSUME LedgerTypeOK(Orders), NEW o \in Orders, NEW p, NEW pnl \in Int,
         p.side \in {"long", "short"}, p.size \in Nat, p.notional \in Int,
         RecordClose(o, p, pnl)
  PROVE  /\ LedgerTypeOK(Orders)' /\ HasTrade(o, "close")'
         /\ \A id, kind : HasTrade(id, kind) => HasTrade(id, kind)'
<1>1. CASE HasTrade(o, "close")
  BY <1>1 DEF RecordClose, ledger, LedgerTypeOK, HasTrade
<1>2. CASE ~HasTrade(o, "close")
  <2> DEFINE r == Record(o, "close", p, pnl)
  <2>1. r \in Trades(Orders) /\ r.id = o /\ r.kind = "close"
    BY RecordIsTrade DEF Kinds
  <2>2. trades' = Append(trades, r) /\ realized' = realized + pnl
    BY <1>2 DEF RecordClose
  <2>3. losses' \in Nat
    <3>1. losses' = CASE pnl < 0 -> losses + 1 [] pnl > 0 -> 0 [] OTHER -> losses
      BY <1>2 DEF RecordClose
    <3> QED BY <3>1 DEF LedgerTypeOK
  <2> HIDE DEF r
  <2> QED BY <2>1, <2>2, <2>3, AppendKeepsTrades DEF LedgerTypeOK
<1> QED BY <1>1, <1>2

(* The markers of a reconciliation come after what is there. *)
LEMMA ReconciliationKeepsTrades ==
  ASSUME LedgerTypeOK(Orders), NEW p \in Positions, ReconcilePositions(p)
  PROVE  /\ LedgerTypeOK(Orders)'
         /\ \A id, kind : HasTrade(id, kind) => HasTrade(id, kind)'
<1> DEFINE close == IF OpenTrade.side = "none" THEN <<>>
             ELSE <<Record(<<>>, "reconcile_close", OpenTrade, 0)>>
           open == IF p.side = "none" THEN <<>>
                   ELSE <<Record(<<>>, "reconcile_open", p, 0)>>
<1>1. trades \in Seq(Trades(Orders)) /\ realized' = realized /\ losses' = losses
  BY DEF LedgerTypeOK, ReconcilePositions
<1>2. OpenTrade \in Trades(Orders) \/ OpenTrade.side = "none"
  <2>1. CASE trades # <<>> /\ trades[Len(trades)].kind \in {"open", "reconcile_open"}
    <3>1. trades[Len(trades)] \in Trades(Orders)
      BY <1>1, <2>1
    <3> QED BY <3>1, <2>1 DEF OpenTrade
  <2>2. CASE ~(trades # <<>> /\ trades[Len(trades)].kind \in {"open", "reconcile_open"})
    BY <2>2 DEF OpenTrade
  <2> QED BY <2>1, <2>2
<1>3. close \in Seq(Trades(Orders))
  <2>1. ASSUME OpenTrade.side # "none"
        PROVE  Record(<<>>, "reconcile_close", OpenTrade, 0) \in Trades(Orders)
    <3>1. PICK r \in Trades(Orders) : r = OpenTrade
      BY <1>2, <2>1
    <3>2. Record(<<>>, "reconcile_close", r, 0) \in Trades(Orders)
      BY DEF Record, Trades, Kinds
    <3> QED BY <3>1, <3>2
  <2>2. OpenTrade.side # "none" =>
          <<Record(<<>>, "reconcile_close", OpenTrade, 0)>> \in Seq(Trades(Orders))
    BY <2>1
  <2> QED BY <2>2
<1>4. open \in Seq(Trades(Orders))
  <2>1. p.side # "none" => p.side \in {"long", "short"} /\ p.size \in Nat /\ p.notional \in Int
    BY DEF Positions, Flat
  <2>2. ASSUME p.side # "none" PROVE Record(<<>>, "reconcile_open", p, 0) \in Trades(Orders)
    <3>1. <<>> \in Orders \cup {<<>>} /\ "reconcile_open" \in Kinds /\ 0 \in Int
      BY DEF Kinds
    <3> QED BY <2>1, <2>2, <3>1, RecordIsTrade
  <2>3. p.side # "none" => <<Record(<<>>, "reconcile_open", p, 0)>> \in Seq(Trades(Orders))
    BY <2>2
  <2> QED BY <2>3
<1>5. Markers(p) \in Seq(Trades(Orders))
  <2>1. Markers(p) = close \o open
    BY DEF Markers
  <2> HIDE DEF close, open
  <2> QED BY <1>3, <1>4, <2>1
<1>6. trades' = trades \/ trades' = trades \o Markers(p)
  BY DEF ReconcilePositions
<1>7. CASE trades' = trades
  BY <1>1, <1>7 DEF LedgerTypeOK, HasTrade
<1>8. CASE trades' = trades \o Markers(p)
  <2>1. /\ trades' \in Seq(Trades(Orders)) /\ Len(trades') = Len(trades) + Len(Markers(p))
        /\ Len(trades) \in Nat /\ Len(Markers(p)) \in Nat
        /\ \A t \in 1..Len(trades) : trades'[t] = trades[t]
    BY <1>1, <1>5, <1>8
  <2>2. ASSUME NEW id, NEW kind, HasTrade(id, kind) PROVE HasTrade(id, kind)'
    BY <2>1, <2>2 DEF HasTrade
  <2> QED BY <1>1, <2>1, <2>2 DEF LedgerTypeOK
<1> QED BY <1>6, <1>7, <1>8

(* What the handlers give the ledger to book is fit to be booked. *)
LEMMA PnlIsInt ==
  ASSUME TypeOK, Locals, step = "book"
  PROVE  /\ Pnl \in Int /\ seen.side \in {"long", "short"}
         /\ seen.size \in Nat /\ seen.notional \in Int
<1> DEFINE r == fills[Order(role)]
<1>1. r \in Results
  <2>1. PICK o \in Orders : o = Order(role)
    BY OrderIsOrder, RoleIsKind DEF Locals, TypeOK
  <2> QED BY <2>1 DEF TypeOK, VenueTypeOK
<1>2. seen \in [side : {"long", "short"}, size : Nat, notional : Int, leverage : Nat \ {0}]
  BY DEF Locals, TypeOK, HandlersTypeOK, Positions
<1>3. r.price \in Int /\ r.fee \in Int
  BY <1>1 DEF Results
<1>4. Pnl = Sign(seen.side) * (seen.size * r.price - seen.notional) - r.fee
  BY DEF Pnl
<1> HIDE DEF r
<1>5. seen.size * r.price - seen.notional \in Int
  BY <1>2, <1>3
<1>6. Pnl \in Int
  BY <1>3, <1>4, <1>5 DEF Sign
<1> QED BY <1>2, <1>6

(* Booking a close leaves its trade in the ledger.                           *)
LEMMA BookingCloses ==
  ASSUME TypeOK, Locals, BookClose
  PROVE  /\ LedgerTypeOK(Orders)'
         /\ \A id, kind : HasTrade(id, kind) => HasTrade(id, kind)'
         /\ \A o \in Orders : o = Order(role) => HasTrade(o, "close")'
<1>1. step = "book"
  BY DEF BookClose
<1>2. PICK o \in Orders : o = Order(role)
  BY <1>1, OrderIsOrder, RoleIsKind DEF Locals, TypeOK
<1>3. PICK p \in Positions : p = seen
  BY DEF TypeOK, HandlersTypeOK
<1>4. PICK pnl \in Int : pnl = Pnl
  BY <1>1, PnlIsInt
<1>5. RecordClose(o, p, pnl)
  BY <1>2, <1>3, <1>4 DEF BookClose
<1>6. p.side \in {"long", "short"} /\ p.size \in Nat /\ p.notional \in Int
  BY <1>1, <1>3, PnlIsInt
<1>7. /\ LedgerTypeOK(Orders)' /\ HasTrade(o, "close")'
      /\ \A id, kind : HasTrade(id, kind) => HasTrade(id, kind)'
  BY <1>5, <1>6, CloseIsBooked DEF TypeOK
<1> QED BY <1>2, <1>7

(* Booking an entry leaves its trade in the ledger.                          *)
LEMMA BookingOpens ==
  ASSUME TypeOK, Locals, BookOpen
  PROVE  /\ LedgerTypeOK(Orders)'
         /\ \A id, kind : HasTrade(id, kind) => HasTrade(id, kind)'
         /\ \A o \in Orders : o = Order("entry") => HasTrade(o, "open")'
<1>1. step = "open"
  BY DEF BookOpen
<1>2. PICK o \in Orders : o = Order("entry")
  BY <1>1, OrderIsOrder DEF Locals, TypeOK
<1>3. PICK r \in Results : r = fills[o]
  BY DEF TypeOK, VenueTypeOK
<1>4. r.size \in Nat /\ r.price \in Int /\ r.fee \in Int
  BY DEF Results
<1>5. intent.side \in {"long", "short"}
  BY <1>1, AmountsAssumption DEF Locals
<1>6. PICK p : p = [side |-> intent.side, size |-> r.size, notional |-> r.size * r.price]
  OBVIOUS
<1>7. p.side \in {"long", "short"} /\ p.size \in Nat /\ p.notional \in Int
  <2>1. r.size * r.price \in Int
    BY <1>4
  <2> QED BY <1>4, <1>5, <1>6, <2>1
<1>8. RecordOpen(o, p, r.fee)
  BY <1>2, <1>3, <1>6 DEF BookOpen
<1>9. /\ LedgerTypeOK(Orders)' /\ HasTrade(o, "open")'
      /\ \A id, kind : HasTrade(id, kind) => HasTrade(id, kind)'
  BY <1>4, <1>7, <1>8, OpenIsBooked DEF TypeOK
<1> QED BY <1>2, <1>9

(* Nothing that has been booked is ever forgotten. *)
LEMMA LedgerSteps ==
  ASSUME TypeOK, Locals, [Next]_vars
  PROVE  /\ LedgerTypeOK(Orders)'
         /\ \A id, kind : HasTrade(id, kind) => HasTrade(id, kind)'
<1>1. CASE UNCHANGED ledger
  BY <1>1 DEF ledger, TypeOK, LedgerTypeOK, HasTrade
<1>2. CASE ReconcileEnd
  <2>1. PICK p \in Positions : p = rec.position
    BY DEF TypeOK, HandlersTypeOK
  <2>2. UNCHANGED ledger \/ ReconcilePositions(p)
    BY <1>2, <2>1 DEF ReconcileEnd
  <2> QED BY <1>1, <2>2, ReconciliationKeepsTrades DEF TypeOK
<1>3. CASE BookClose
  BY <1>3, BookingCloses
<1>4. CASE BookOpen
  BY <1>4, BookingOpens
<1>5. ASSUME NEW p \in Prices, RunBegin(p) PROVE UNCHANGED ledger
  BY <1>5 DEF RunBegin
<1>6. ASSUME NEW i \in Intents, RunPropose(i) PROVE UNCHANGED ledger
  BY <1>6 DEF RunPropose
<1>7. CASE \/ RunNoTrade \/ ManualClose \/ ExitDecide \/ ExitBegin \/ SaveFails
           \/ Close \/ BookCloseFails \/ RunReopen \/ RunStaysOut
           \/ Enter \/ Protected \/ Remediate \/ ReconcileRead \/ UNCHANGED vars
  <2>1. UNCHANGED ledger
    BY <1>7 DEF RunNoTrade, ManualClose, ExitDecide, ExitBegin, CloseBegin, SaveFails,
                Close, BookCloseFails, RunReopen, RunStaysOut, Enter, Protected,
                Remediate, ReconcileRead, vars
  <2> QED BY <1>1, <2>1
<1> QED BY <1>1, <1>2, <1>3, <1>4, <1>5, <1>6, <1>7 DEF Next

-----------------------------------------------------------------------------
(* The gate is the gate of GateContract. *)
LEMMA GateSteps ==
  ASSUME HandlersTypeOK, [Next]_vars
  PROVE  frozen' \in BOOLEAN /\ reconciling' \in BOOLEAN /\ overtaken' \in BOOLEAN
<1>1. frozen \in BOOLEAN /\ reconciling \in BOOLEAN /\ overtaken \in BOOLEAN
  BY DEF HandlersTypeOK
<1>2. CASE UNCHANGED gateVars
  BY <1>1, <1>2 DEF gateVars
<1>3. CASE Gate!Freeze
  BY <1>1, <1>3 DEF Gate!Freeze
<1>4. CASE Gate!Begin
  BY <1>1, <1>4 DEF Gate!Begin
<1>5. CASE ReconcileEnd
  <2>1. PICK ok \in BOOLEAN : Gate!Complete(ok)
    BY <1>5, Zenon DEF ReconcileEnd
  <2> QED BY <1>1, <2>1 DEF Gate!Complete
<1>6. UNCHANGED gateVars \/ Gate!Freeze \/ Gate!Begin \/ ReconcileEnd
  <2>1. ASSUME NEW p \in Prices, RunBegin(p) PROVE UNCHANGED gateVars
    BY <2>1 DEF RunBegin
  <2>2. ASSUME NEW i \in Intents, RunPropose(i) PROVE UNCHANGED gateVars
    BY <2>2 DEF RunPropose
  <2>3. CASE \/ RunNoTrade \/ ManualClose \/ ExitDecide \/ ExitBegin \/ Close
             \/ BookClose \/ RunReopen \/ RunStaysOut \/ Enter \/ Protected
             \/ BookOpen \/ UNCHANGED vars
    BY <2>3 DEF RunNoTrade, ManualClose, ExitDecide, ExitBegin, CloseBegin, Close,
                BookClose, RunReopen, RunStaysOut, Enter, Protected, BookOpen, vars
  <2>4. CASE SaveFails \/ BookCloseFails \/ Remediate \/ ReconcileRead
    BY <2>4 DEF SaveFails, BookCloseFails, Remediate, ReconcileRead, Freeze
  <2> QED BY <2>1, <2>2, <2>3, <2>4 DEF Next
<1> QED BY <1>2, <1>3, <1>4, <1>5, <1>6

(* A freeze excuses orders, and nothing else does. *)
LEMMA FreezeExcuses == ASSUME Freeze PROVE excused' = {o \in Orders : Filled(o)}
  BY DEF Freeze

-----------------------------------------------------------------------------
(* The handlers' own variables, the gate's aside. *)
Types ==
  /\ step \in {"idle", "decide", "close", "book", "reopen", "enter", "protect", "open"}
  /\ handler \in 0..MaxHandlers /\ role \in Roles
  /\ seen \in Positions /\ exitSeen \in Positions
  /\ intent \in Intents \cup {NoIntent}
  /\ rec \in [step : {"idle", "ledger"}, position : Positions]
  /\ failures \in 0..MaxFailures /\ reconciles \in 0..MaxReconciles
  /\ parts \subseteq Orders /\ stale \subseteq Orders /\ excused \subseteq Orders
  /\ brought \in [Orders -> Int]

(* The handlers' types, taken apart.                                         *)
LEMMA TypesAre ==
  HandlersTypeOK <=> Types /\ frozen \in BOOLEAN /\ reconciling \in BOOLEAN
                           /\ overtaken \in BOOLEAN
<1>1. {seen, exitSeen} \subseteq Positions <=> seen \in Positions /\ exitSeen \in Positions
  OBVIOUS
<1>2. {parts, stale, excused} \subseteq SUBSET Orders
        <=> parts \subseteq Orders /\ stale \subseteq Orders /\ excused \subseteq Orders
  OBVIOUS
<1> QED BY <1>1, <1>2, Zenon DEF HandlersTypeOK, Types

(* No position is a position, and an idle reconciliation has one.            *)
LEMMA FlatIsPosition == Flat \in Positions /\ RecIdle \in [step : {"idle", "ledger"}, position : Positions]
  BY DEF Positions, RecIdle

(* The bounds are naturals.                                                  *)
LEMMA LimitsAreNat ==
  /\ MaxHandlers \in Nat /\ MaxFailures \in Nat /\ MaxReconciles \in Nat
  BY LimitsAssumption

(* Handlers begin and propose well typed.                                    *)
LEMMA BeginningSteps ==
  ASSUME TypeOK, Types, Locals, VenueTypeOK',
         \/ \E p \in Prices : RunBegin(p)
         \/ \E i \in Intents : RunPropose(i)
         \/ ManualClose \/ ExitDecide \/ ExitBegin
  PROVE  Types' /\ Locals'
<1> USE FlatIsPosition, LimitsAreNat DEF Types, Roles, history, bounds
<1>1. ASSUME NEW p \in Prices, RunBegin(p) PROVE Types' /\ Locals'
  <2>1. position' \in Positions
    BY DEF VenueTypeOK
  <2> QED BY <1>1, <2>1 DEF RunBegin, Locals
<1>2. ASSUME NEW i \in Intents, RunPropose(i) PROVE Types' /\ Locals'
  <2>1. step' \in {"enter", "close"} /\ handler' = handler + 1 /\ handler' \in 1..MaxHandlers
    BY <1>2 DEF RunPropose
  <2>2. step' = "close" => seen' # Flat
    BY <1>2 DEF RunPropose, Flat
  <2> QED BY <1>2, <2>1, <2>2 DEF RunPropose, Locals
<1>3. ASSUME NEW p \in Positions, CloseBegin(p), p # Flat, exitSeen' \in Positions
      PROVE  Types' /\ Locals'
  <2>1. handler' \in 1..MaxHandlers
    BY <1>3 DEF CloseBegin
  <2> QED BY <1>3, <2>1 DEF CloseBegin, Locals
<1>4. CASE ManualClose
  <2>1. PICK p \in Positions : p = position
    BY DEF TypeOK, VenueTypeOK
  <2>2. CloseBegin(p) /\ exitSeen' = exitSeen /\ Adding
    BY <1>4, <2>1 DEF ManualClose
  <2> QED BY <1>3, <2>1, <2>2, FlatIsNotAdding
<1>5. CASE ExitDecide
  BY <1>5 DEF ExitDecide, Locals, TypeOK, VenueTypeOK, locals, venueVars, Adding
<1>6. CASE ExitBegin
  <2>1. PICK p \in Positions : p = exitSeen
    OBVIOUS
  <2>2. CloseBegin(p) /\ exitSeen' = Flat /\ p # Flat
    BY <1>6, <2>1 DEF ExitBegin
  <2> QED BY <1>3, <2>2
<1> QED BY <1>1, <1>2, <1>4, <1>5, <1>6

(* A handler that returns is well typed.                                     *)
LEMMA ReturnIsTyped ==
  ASSUME Types, Return
  PROVE  /\ step' = "idle" /\ handler' \in 0..MaxHandlers /\ role' \in Roles
         /\ seen' \in Positions /\ intent' \in Intents \cup {NoIntent}
BY FlatIsPosition DEF Types, Return, Roles

(* Handlers book, protect and end well typed.                                *)
LEMMA EndingSteps ==
  ASSUME TypeOK, Types, Locals,
         RunNoTrade \/ SaveFails \/ BookClose \/ BookCloseFails \/ RunReopen
           \/ RunStaysOut \/ Protected \/ Remediate \/ BookOpen
  PROVE  Types' /\ Locals'
<1> USE LimitsAreNat DEF Types, Roles, history, bounds, locals
<1>1. Freeze => excused' \subseteq Orders
  BY FreezeExcuses
<1>2. SaveFailure => failures' \in 0..MaxFailures
  BY DEF SaveFailure
<1>3. CASE RunNoTrade \/ RunStaysOut
  BY <1>3, ReturnIsTyped DEF RunNoTrade, RunStaysOut, Locals
<1>4. CASE SaveFails
  BY <1>1, <1>2, <1>4, ReturnIsTyped DEF SaveFails, Locals
<1>5. CASE BookClose
  BY <1>5, ReturnIsTyped DEF BookClose, Goto, Locals
<1>6. CASE BookCloseFails
  BY <1>1, <1>2, <1>6, ReturnIsTyped DEF BookCloseFails, Locals
<1>7. CASE RunReopen
  BY <1>7 DEF RunReopen, Goto, Locals
<1>8. CASE Protected
  BY <1>8 DEF Protected, Goto, Locals
<1>9. CASE Remediate
  <2>1. position \in Positions /\ position # Flat
    BY <1>9, FlatIsNotAdding DEF Remediate, Locals, TypeOK, VenueTypeOK
  <2> QED BY <1>1, <1>9, <2>1 DEF Remediate, Locals
<1>10. CASE BookOpen
  BY <1>10, ReturnIsTyped DEF BookOpen, Locals
<1> QED BY <1>3, <1>4, <1>5, <1>6, <1>7, <1>8, <1>9, <1>10

(* Reconciliations keep the handlers' types.                                 *)
LEMMA ReconcilingSteps ==
  ASSUME TypeOK, Types, Locals, ReconcileRead \/ ReconcileEnd \/ UNCHANGED vars
  PROVE  Types' /\ Locals'
<1> USE LimitsAreNat, FlatIsPosition DEF Types, Roles, history, locals
<1>1. Adding => (UNCHANGED venueVars => Adding')
  BY DEF Adding, venueVars
<1>2. position \in Positions
  BY DEF TypeOK, VenueTypeOK
<1>3. CASE ReconcileRead
  BY <1>1, <1>2, <1>3 DEF ReconcileRead, Locals
<1>4. CASE ReconcileEnd
  <2>1. UNCHANGED failures \/ SaveFailure
    BY <1>4 DEF ReconcileEnd
  <2>2. failures' \in 0..MaxFailures
    BY <2>1 DEF SaveFailure
  <2> QED BY <1>1, <1>4, <2>2 DEF ReconcileEnd, Locals
<1>5. CASE UNCHANGED vars
  BY <1>1, <1>5 DEF vars, bounds, Locals
<1> QED BY <1>3, <1>4, <1>5

(* The negation of an integer is one.                                        *)
LEMMA NegationIsInt == \A n \in Int : -n \in Int
  OBVIOUS

(* Orders keep the handlers' types.                                          *)
LEMMA OrderingSteps ==
  ASSUME TypeOK, Types, Locals, VenueTypeOK', Balanced, Close \/ Enter
  PROVE  Types' /\ Locals'
<1> USE LimitsAreNat DEF Types, Roles, history, bounds, locals
<1>1. CASE Close
  <2> DEFINE price == EstPrice(position.side, TRUE)
             made == Earned(position, price) - Fee(position.size * price)
  <2>1. PICK o \in Orders : o = Order(role)
    BY <1>1, OrderIsOrder, RoleIsKind DEF Close, Locals, TypeOK
  <2>2. CASE Adding
    <3>1. price \in Int
      BY EstPriceIsInt DEF TypeOK
    <3>2. /\ position.side \in {"long", "short"} /\ position.size \in Nat
          /\ position.notional \in Int
      BY <2>2, FlatIsNotAdding, Amounts DEF TypeOK
    <3>3. position.size * price \in Int
      <4> HIDE DEF price
      <4> QED BY <3>1, <3>2
    <3>4. Earned(position, price) \in Int
      <4> HIDE DEF price
      <4>1. position.size * price - position.notional \in Int
        BY <3>2, <3>3
      <4> QED BY <4>1 DEF Earned, Sign
    <3>5. made \in Int
      <4>1. PICK q \in Int : q = position.size * price
        BY <3>3
      <4>2. Fee(q) \in Int
        BY FeeIsInt
      <4>3. Fee(position.size * price) \in Int
        BY <4>1, <4>2
      <4> HIDE DEF price
      <4> QED BY <3>4, <4>3
    <3>6. /\ brought' = [brought EXCEPT ![o] = made]
          /\ step' = "book" /\ parts' = {} /\ stale' \in {stale, stale \cup {o}}
          /\ UNCHANGED <<handler, role, seen, intent, exitSeen, rec, failures,
                         reconciles, excused>>
      BY <1>1, <2>1, <2>2 DEF Close, Goto
    <3>7. step = "close"
      BY <1>1 DEF Close
    <3> HIDE DEF made
    <3> QED BY <2>1, <3>5, <3>6, <3>7 DEF Locals
  <2>3. CASE ~Adding
    BY <1>1, <2>3, ReturnIsTyped DEF Close, Locals
  <2> QED BY <2>2, <2>3
<1>2. CASE Enter
  <2>1. PICK o \in Orders : o = Order("entry")
    BY <1>2, OrderIsOrder DEF Enter, Locals, TypeOK
  <2>2. PICK i \in Intents : i = intent
    BY <1>2 DEF Enter, Locals
  <2>3. CASE Accepted(intent)
    <3> DEFINE made == -Fee(i.size * EstPrice(i.side, FALSE))
    <3>1. made \in Int
      <4>1. PICK price \in Int : price = EstPrice(i.side, FALSE)
        BY EstPriceIsInt DEF TypeOK
      <4>2. PICK q \in Int : q = i.size * price
        BY AmountsAssumption
      <4>3. Fee(q) \in Int /\ q = i.size * EstPrice(i.side, FALSE)
        BY <4>1, <4>2, FeeIsInt
      <4>4. PICK fee \in Int : fee = Fee(i.size * EstPrice(i.side, FALSE))
        BY <4>3
      <4>5. made = -fee
        BY <4>4
      <4>6. -fee \in Int
        BY <4>4, NegationIsInt
      <4> HIDE DEF made
      <4> QED BY <4>5, <4>6
    <3>2. FillEntry(o, i) /\ Accepted(i)
      BY <1>2, <2>1, <2>2, <2>3 DEF Enter, PlaceEntry
    <3>3. Adding'
      BY <3>2, EntryKeepsBalance DEF TypeOK
    <3>4. /\ brought' = [brought EXCEPT ![o] = made]
          /\ step' = "protect" /\ parts' = parts \cup {o} /\ stale' = stale
          /\ UNCHANGED <<handler, role, seen, intent, exitSeen, rec, failures,
                         reconciles, excused>>
      BY <1>2, <2>1, <2>2, <2>3 DEF Enter, Goto
    <3>5. step = "enter"
      BY <1>2 DEF Enter
    <3> HIDE DEF made
    <3> QED BY <2>1, <3>1, <3>3, <3>4, <3>5 DEF Locals
  <2>4. CASE ~Accepted(intent)
    BY <1>2, <2>4, ReturnIsTyped DEF Enter, Locals
  <2> QED BY <2>3, <2>4
<1> QED BY <1>1, <1>2

(* Every step keeps the handlers' types and locals.                          *)
LEMMA HandlerSteps ==
  ASSUME TypeOK, Types, Locals, Balanced, VenueTypeOK', [Next]_vars
  PROVE  Types' /\ Locals'
BY BeginningSteps, EndingSteps, ReconcilingSteps, OrderingSteps DEF Next

(* Every step keeps types, locals and the venue's balance.                   *)
LEMMA InvSteps ==
  ASSUME TypeOK, Locals, Balanced, [Next]_vars
  PROVE  TypeOK' /\ Locals' /\ Balanced'
<1>1. VenueTypeOK' /\ Balanced'
  BY VenueSteps, VenueStepKeepsBalance, VenueStutterKeepsBalance DEF TypeOK
<1>2. LedgerTypeOK(Orders)'
  BY LedgerSteps
<1>3. Types
  BY TypesAre DEF TypeOK
<1>4. Types' /\ Locals'
  BY <1>1, <1>3, HandlerSteps
<1>5. frozen' \in BOOLEAN /\ reconciling' \in BOOLEAN /\ overtaken' \in BOOLEAN
  BY GateSteps DEF TypeOK
<1>6. HandlersTypeOK'
  BY <1>4, <1>5 DEF HandlersTypeOK, Types
<1> QED BY <1>1, <1>2, <1>4, <1>6 DEF TypeOK

-----------------------------------------------------------------------------
(* A fill is the last order its handler sent, until that is booked. *)
LEMMA FillsSteps ==
  ASSUME TypeOK, Locals, [Next]_vars,
         NEW o \in Orders, Filled(o)', ~Filled(o)
  PROVE  o[2] # "reverse" => Pending(o)'
<1>1. CASE UNCHANGED fills
  BY <1>1 DEF Filled
<1>2. CASE Close
  <2>1. CASE Adding /\ mark # 0
    <3>1. fills'[o] = fills[o] \/ o = Order(role)
      BY <1>2, <2>1 DEF Close, PlaceClose, TypeOK, VenueTypeOK
    <3>2. o = Order(role)
      BY <3>1 DEF Filled
    <3>3. step' = "book" /\ role' = role /\ handler' = handler
      BY <1>2, <2>1 DEF Close, Goto, locals
    <3> QED BY <3>2, <3>3, OrderIsOrder, RoleIsKind, <1>2 DEF Pending, Close, Locals, TypeOK
  <2>2. CASE ~(Adding /\ mark # 0)
    <3>1. fills' = [fills EXCEPT ![Order(role)] = Rejected]
      BY <1>2, <2>2 DEF Close, PlaceClose, RememberRejected
    <3> QED BY <3>1 DEF Filled, Rejected, NoResult
  <2> QED BY <2>1, <2>2
<1>3. CASE Enter
  <2>1. CASE Accepted(intent)
    <3>1. fills'[o] = fills[o] \/ o = Order("entry")
      BY <1>3, <2>1 DEF Enter, PlaceEntry, FillEntry, TypeOK, VenueTypeOK
    <3>2. o = Order("entry")
      BY <3>1 DEF Filled
    <3>3. step' = "protect" /\ handler' = handler
      BY <1>3, <2>1 DEF Enter, Goto, locals
    <3> QED BY <3>2, <3>3, OrderIsOrder, <1>3 DEF Pending, Enter, Locals, TypeOK
  <2>2. CASE ~Accepted(intent)
    <3>1. fills' = [fills EXCEPT ![Order("entry")] = Rejected]
      BY <1>3, <2>2 DEF Enter, PlaceEntry, RememberRejected
    <3> QED BY <3>1 DEF Filled, Rejected, NoResult
  <2> QED BY <2>1, <2>2
<1>4. ASSUME NEW p \in Prices, RunBegin(p) PROVE UNCHANGED fills
  BY <1>4 DEF RunBegin, SetMarkPrice
<1>5. ASSUME NEW i \in Intents, RunPropose(i) PROVE UNCHANGED fills
  BY <1>5 DEF RunPropose, venueVars
<1>6. CASE \/ RunNoTrade \/ ManualClose \/ ExitDecide \/ ExitBegin \/ SaveFails
           \/ BookClose \/ BookCloseFails \/ RunReopen \/ RunStaysOut
           \/ Protected \/ Remediate \/ BookOpen \/ ReconcileRead \/ ReconcileEnd
           \/ UNCHANGED vars
  <2>1. UNCHANGED fills
    BY <1>6 DEF RunNoTrade, ManualClose, ExitDecide, ExitBegin, CloseBegin, SaveFails,
              BookClose, BookCloseFails, RunReopen, RunStaysOut, Protected, Remediate,
              BookOpen, ReconcileRead, ReconcileEnd, vars, venueVars
  <2> QED BY <1>1, <2>1
<1> QED BY <1>1, <1>2, <1>3, <1>4, <1>5, <1>6 DEF Next
-----------------------------------------------------------------------------
(* A fill stays pending until it is booked or its handler freezes over it. *)
LEMMA PendingSteps ==
  ASSUME TypeOK, Locals, [Next]_vars,
         NEW o \in Orders, Filled(o), Pending(o), o[2] # "reverse"
  PROVE  Pending(o)' \/ Booked(o)' \/ o \in excused'
<1>1. /\ o[1] = handler /\ o = <<o[1], o[2]>>
      /\ \/ step = "book" /\ o[2] = role
         \/ step \in {"protect", "open"} /\ o[2] = "entry"
  BY OrdersAssumption DEF Pending
<1>2. Freeze => o \in excused'
  BY FreezeExcuses
<1>3. CASE BookClose
  <2>1. step = "book"
    BY <1>3 DEF BookClose
  <2>2. o = Order(role) /\ o[2] # "entry"
    BY <1>1, <2>1 DEF Order, TypeOK, HandlersTypeOK, Roles
  <2>3. HasTrade(o, "close")'
    BY <1>3, <2>2, BookingCloses
  <2> QED BY <2>2, <2>3 DEF Booked
<1>4. CASE BookOpen
  <2>1. o = Order("entry") /\ o[2] = "entry"
    BY <1>1, <1>4 DEF Order, BookOpen
  <2>2. HasTrade(o, "open")'
    BY <1>4, <2>1, BookingOpens
  <2> QED BY <2>1, <2>2 DEF Booked
<1>5. CASE SaveFails \/ Remediate
  BY <1>2, <1>5 DEF SaveFails, Remediate
<1>6. CASE BookCloseFails
  <2>1. role # "reverse"
    BY <1>1, <1>6 DEF BookCloseFails
  <2> QED BY <1>2, <1>6, <2>1 DEF BookCloseFails
<1>7. CASE Protected
  BY <1>1, <1>7 DEF Protected, Goto, locals, Pending
<1>8. CASE ExitDecide \/ ReconcileRead \/ ReconcileEnd \/ UNCHANGED vars
  BY <1>1, <1>8 DEF ExitDecide, ReconcileRead, ReconcileEnd, vars, locals, Pending
<1>9. ASSUME NEW p \in Prices, RunBegin(p) PROVE FALSE
  BY <1>1, <1>9 DEF RunBegin
<1>10. ASSUME NEW i \in Intents, RunPropose(i) PROVE FALSE
  BY <1>1, <1>10 DEF RunPropose
<1>11. CASE \/ RunNoTrade \/ ManualClose \/ ExitBegin \/ Close \/ RunReopen
           \/ RunStaysOut \/ Enter
  BY <1>1, <1>11 DEF RunNoTrade, ManualClose, ExitBegin, CloseBegin, Close, RunReopen,
                     RunStaysOut, Enter
<1> QED BY <1>3, <1>4, <1>5, <1>6, <1>7, <1>8, <1>9, <1>10, <1>11 DEF Next

(* Who is excused stays excused. *)
LEMMA ExcusedSteps ==
  ASSUME TypeOK, Locals, [Next]_vars,
         NEW o \in Orders, Filled(o), o \in excused
  PROVE  o \in excused'
<1>1. UNCHANGED excused \/ Freeze
  <2>1. ASSUME NEW p \in Prices, RunBegin(p) PROVE UNCHANGED excused
    BY <2>1 DEF RunBegin
  <2>2. ASSUME NEW i \in Intents, RunPropose(i) PROVE UNCHANGED excused
    BY <2>2 DEF RunPropose
  <2>3. CASE \/ RunNoTrade \/ ManualClose \/ ExitDecide \/ ExitBegin \/ Close
             \/ BookClose \/ RunReopen \/ RunStaysOut \/ Enter \/ Protected
             \/ BookOpen \/ ReconcileRead \/ ReconcileEnd \/ UNCHANGED vars
    BY <2>3 DEF RunNoTrade, ManualClose, ExitDecide, ExitBegin, CloseBegin, Close,
                BookClose, RunReopen, RunStaysOut, Enter, Protected, BookOpen,
                ReconcileRead, ReconcileEnd, vars
  <2>4. CASE SaveFails \/ BookCloseFails \/ Remediate
    BY <2>4 DEF SaveFails, BookCloseFails, Remediate
  <2> QED BY <2>1, <2>2, <2>3, <2>4 DEF Next
<1> QED BY <1>1, FreezeExcuses

(* No step forgets a fill.                                                   *)
LEMMA AccountedSteps ==
  ASSUME TypeOK, Locals, Accounted, [Next]_vars PROVE Accounted'
<1> SUFFICES ASSUME NEW o \in Orders, Filled(o)', o[2] # "reverse"
             PROVE  (Booked(o) \/ o \in excused \/ Pending(o))'
  BY DEF Accounted
<1>1. CASE ~Filled(o)
  BY <1>1, FillsSteps
<1>2. CASE Filled(o)
  <2>1. CASE Booked(o)
    BY <2>1, LedgerSteps DEF Booked
  <2>2. CASE o \in excused
    BY <1>2, <2>2, ExcusedSteps
  <2>3. CASE Pending(o)
    BY <1>2, <2>3, PendingSteps
  <2> QED BY <1>2, <2>1, <2>2, <2>3 DEF Accounted
<1> QED BY <1>1, <1>2

-----------------------------------------------------------------------------
IInv == TypeOK /\ Locals /\ Balanced /\ Accounted

(* The invariant holds at the start.                                         *)
LEMMA InitHolds == ASSUME Init PROVE IInv
<1>1. VenueTypeOK /\ Balanced
  BY VenueInitBalanced DEF Init
<1>2. LedgerTypeOK(Orders)
  BY DEF Init, LedgerInit, LedgerTypeOK
<1>3. HandlersTypeOK
  <2>1. Types
    BY FlatIsPosition, LimitsAreNat DEF Init, Types, Roles, RecIdle
  <2>2. frozen \in BOOLEAN /\ reconciling \in BOOLEAN /\ overtaken \in BOOLEAN
    BY DEF Init, Gate!Shut
  <2> QED BY <2>1, <2>2, TypesAre
<1>4. Locals
  BY DEF Init, Locals
<1>5. Accounted
  BY DEF Init, VenueInit, Accounted, Filled, NoResult
<1> QED BY <1>1, <1>2, <1>3, <1>4, <1>5 DEF IInv, TypeOK

(* Every step keeps the invariant.                                           *)
LEMMA NextKeeps == ASSUME IInv, [Next]_vars PROVE IInv'
  BY InvSteps, AccountedSteps DEF IInv

(* The invariant always holds.                                               *)
LEMMA SpecKeeps == Spec => []IInv
<1>1. Init => IInv
  BY InitHolds
<1>2. IInv /\ [Next]_vars => IInv'
  BY NextKeeps
<1> QED BY <1>1, <1>2, PTL DEF Spec

(* service.go, application.go, dashboard.go: whatever the handlers, the      *)
(* reconciliations and the failures do, the venue, the ledger, the gate and  *)
(* every handler's variables stay what they are meant to be.                 *)
THEOREM TypeIsKept == Spec => []TypeOK
<1>1. IInv => TypeOK
  BY DEF IInv
<1> QED BY <1>1, SpecKeeps, PTL

(* paper.go, used by the handlers: however they open, add, reverse, close,   *)
(* flatten and are stopped out, the total the venue reports is what was paid *)
(* in and out with the position at its mark.                                 *)
THEOREM EquityStaysConserved == Spec => []EquityConserved
<1>1. IInv => EquityConserved
  BY BalancedIsConserved DEF IInv, TypeOK
<1> QED BY <1>1, SpecKeeps, PTL

(* service.go:772, application.go:663, dashboard.go:189: for any number of   *)
(* handlers, failures and reconciliations, a fill whose handler has returned *)
(* is in the ledger or its handler froze the gate, reversals' closes aside.  *)
THEOREM FillsAreBookedOrFrozen == Spec => []BookedOrFrozen
<1>1. IInv => BookedOrFrozen
  BY DEF IInv, Accounted, Pending, BookedOrFrozen
<1> QED BY <1>1, SpecKeeps, PTL

(* The handlers use the venue as its module says it is used: every step of   *)
(* theirs is a step of PaperVenue or leaves it alone, so what is proved of   *)
(* the venue by itself holds of it here.                                     *)
THEOREM VenueIsImplemented == Spec => VenueSpec
<1>1. Init => VenueInit
  BY DEF Init
<1>2. IInv /\ [Next]_vars => [VenueNext]_venueVars
  BY VenueSteps DEF IInv
<1> QED BY <1>1, <1>2, SpecKeeps, PTL DEF Spec, VenueSpec

-----------------------------------------------------------------------------
(* Sums over finite sets, by smallest counterexamples.                       *)
SumOf(f, S) == MapThenSumSet(LAMBDA x : f[x], S)

First(S) == CHOOSE x \in S : TRUE

Iterates(g, f, S) ==
  g = [s \in SUBSET S |-> IF s = {} THEN 0 ELSE f[First(s)] + g[s \ {First(s)}]]

(* A set of numbers that is not empty has a least one.                       *)
LEMMA LeastNumber ==
  ASSUME NEW T \in SUBSET Nat, T # {}
  PROVE  \E n \in T : \A m \in T : n <= m
<1>1. \E n \in T : \A m \in T : ~(<<m, n>> \in OpToRel(<, Nat))
  BY NatLessThanWellFounded, WFMin, Zenon
<1>2. \E n \in T : \A m \in T : ~(m < n)
  BY <1>1, Zenon DEF OpToRel
<1> QED BY <1>2

(* Some finite sets that are not none have one that contains no other.       *)
LEMMA SmallestSet ==
  ASSUME NEW S, IsFiniteSet(S), NEW B \in SUBSET (SUBSET S), B # {}
  PROVE  \E U \in B : \A V \in B : V \subseteq U => V = U
<1>1. \A U \in B : IsFiniteSet(U) /\ Cardinality(U) \in Nat
  BY FS_Subset, FS_CardinalityType
<1>2. PICK T : T = {Cardinality(U) : U \in B}
  OBVIOUS
<1>3. T \in SUBSET Nat /\ T # {}
  BY <1>1, <1>2
<1>4. PICK n \in T : \A m \in T : n <= m
  BY <1>3, LeastNumber
<1>5. PICK U \in B : n = Cardinality(U)
  BY <1>2, <1>4
<1>6. ASSUME NEW V \in B, V \subseteq U PROVE V = U
  <2>1. Cardinality(U) <= Cardinality(V)
    BY <1>2, <1>4, <1>5
  <2>2. Cardinality(V) <= Cardinality(U) /\ (Cardinality(V) = Cardinality(U) => V = U)
    BY <1>1, <1>6, FS_Subset
  <2> QED BY <1>1, <2>1, <2>2
<1> QED BY <1>6

LEMMA FirstIsIn == ASSUME NEW S, S # {} PROVE First(S) \in S
BY DEF First

(* The iteration is unique.                                                  *)
LEMMA IteratesAgree ==
  ASSUME NEW f, NEW S, NEW T, IsFiniteSet(S), NEW g, NEW h,
         Iterates(g, f, S), Iterates(h, f, T), T \subseteq S
  PROVE  g[T] = h[T]
<1>0. PICK B \in SUBSET (SUBSET T) : B = {U \in SUBSET T : g[U] # h[U]}
  OBVIOUS
<1>1. ASSUME B # {} PROVE FALSE
  <2>1. IsFiniteSet(T)
    BY FS_Subset
  <2>2. PICK U \in B : \A V \in B : V \subseteq U => V = U
    BY <1>1, <2>1, SmallestSet
  <2>3. U \in SUBSET S /\ U \in SUBSET T /\ g[U] # h[U]
    BY <1>0
  <2>4. /\ g[U] = IF U = {} THEN 0 ELSE f[First(U)] + g[U \ {First(U)}]
        /\ h[U] = IF U = {} THEN 0 ELSE f[First(U)] + h[U \ {First(U)}]
    BY <2>3 DEF Iterates
  <2>5. U # {}
    BY <2>3, <2>4
  <2>6. U \ {First(U)} \in SUBSET T /\ U \ {First(U)} # U
    BY <2>3, <2>5, FirstIsIn
  <2>7. g[U \ {First(U)}] = h[U \ {First(U)}]
    BY <1>0, <2>2, <2>6
  <2> QED BY <2>3, <2>4, <2>7
<1> QED BY <1>0, <1>1

(* The iteration exists.                                                     *)
LEMMA IteratesExists ==
  ASSUME NEW f, NEW S, IsFiniteSet(S)
  PROVE  \E g : Iterates(g, f, S)
<1> DEFINE G(U) == CHOOSE g : Iterates(g, f, U)
<1>0. PICK B \in SUBSET (SUBSET S) : B = {U \in SUBSET S : ~ \E g : Iterates(g, f, U)}
  OBVIOUS
<1>1. ASSUME B # {} PROVE FALSE
  <2>1. PICK U \in B : \A V \in B : V \subseteq U => V = U
    BY <1>1, SmallestSet
  <2>2. \A V \in SUBSET U : V # U => Iterates(G(V), f, V)
    BY <1>0, <2>1
  <2>3. \A V, W \in SUBSET U : V # U /\ W \subseteq V => G(V)[W] = G(W)[W]
    <3> SUFFICES ASSUME NEW V \in SUBSET U, NEW W \in SUBSET U, V # U, W \subseteq V
                 PROVE  G(V)[W] = G(W)[W]
      OBVIOUS
    <3>1. IsFiniteSet(V)
      BY FS_Subset
    <3>2. Iterates(G(V), f, V) /\ Iterates(G(W), f, W)
      BY <2>2
    <3> HIDE DEF G
    <3> QED BY <3>1, <3>2, IteratesAgree
  <2> HIDE DEF G
  <2>4. PICK g : g = [s \in SUBSET U |-> IF s = {} THEN 0
                        ELSE f[First(s)] + G(s \ {First(s)})[s \ {First(s)}]]
    OBVIOUS
  <2>5. ASSUME NEW V \in SUBSET U, V # U PROVE g[V] = G(V)[V]
    <3>1. g[V] = IF V = {} THEN 0 ELSE f[First(V)] + G(V \ {First(V)})[V \ {First(V)}]
      BY <2>4
    <3>2. G(V)[V] = IF V = {} THEN 0 ELSE f[First(V)] + G(V)[V \ {First(V)}]
      <4>1. Iterates(G(V), f, V)
        BY <2>2, <2>5
      <4> QED BY <4>1 DEF Iterates
    <3>3. G(V)[V \ {First(V)}] = G(V \ {First(V)})[V \ {First(V)}]
      BY <2>3, <2>5
    <3> QED BY <3>1, <3>2, <3>3
  <2>6. ASSUME NEW s \in SUBSET U, s # {}
        PROVE  G(s \ {First(s)})[s \ {First(s)}] = g[s \ {First(s)}]
    BY <2>5, <2>6, FirstIsIn
  <2>7. g = [s \in SUBSET U |-> IF s = {} THEN 0 ELSE f[First(s)] + g[s \ {First(s)}]]
    BY <2>4, <2>6
  <2>8. Iterates(g, f, U)
    BY <2>7 DEF Iterates
  <2> QED BY <1>0, <2>8
<1> QED BY <1>0, <1>1

(* A sum is the iteration's.                                                 *)
LEMMA SumIterates ==
  ASSUME NEW f, NEW S, IsFiniteSet(S)
  PROVE  \E g : Iterates(g, f, S) /\ SumOf(f, S) = g[S]
<1>1. SumOf(f, S) = (CHOOSE g : Iterates(g, f, S))[S]
  BY DEF SumOf, MapThenSumSet, MapThenFoldSet, Iterates, First
<1>2. Iterates(CHOOSE g : Iterates(g, f, S), f, S)
  BY IteratesExists
<1> QED BY <1>1, <1>2

LEMMA SumOfNone == ASSUME NEW f PROVE SumOf(f, {}) = 0
<1>1. PICK g : Iterates(g, f, {}) /\ SumOf(f, {}) = g[{}]
  BY SumIterates, FS_EmptySet
<1> QED BY <1>1 DEF Iterates

(* The first element's value and the sum of the rest.                        *)
LEMMA SumOfFirst ==
  ASSUME NEW f, NEW S, IsFiniteSet(S), S # {}
  PROVE  SumOf(f, S) = f[First(S)] + SumOf(f, S \ {First(S)})
<1>1. PICK g : Iterates(g, f, S) /\ SumOf(f, S) = g[S]
  BY SumIterates
<1>2. PICK T : T = S \ {First(S)}
  OBVIOUS
<1>3. IsFiniteSet(T) /\ T \subseteq S
  BY <1>2, FS_Subset
<1>4. PICK h : Iterates(h, f, T) /\ SumOf(f, T) = h[T]
  BY <1>3, SumIterates
<1>5. g[T] = h[T]
  BY <1>1, <1>3, <1>4, IteratesAgree
<1>6. g[S] = f[First(S)] + g[S \ {First(S)}]
  BY <1>1 DEF Iterates
<1> QED BY <1>1, <1>2, <1>4, <1>5, <1>6

(* Integers add up to an integer.                                            *)
LEMMA SumIsInt ==
  ASSUME NEW f, NEW S, IsFiniteSet(S), \A x \in S : f[x] \in Int
  PROVE  SumOf(f, S) \in Int
<1>0. PICK B \in SUBSET (SUBSET S) : B = {U \in SUBSET S : SumOf(f, U) \notin Int}
  OBVIOUS
<1>1. ASSUME B # {} PROVE FALSE
  <2>1. PICK U \in B : \A V \in B : V \subseteq U => V = U
    BY <1>1, SmallestSet
  <2>2. U \in SUBSET S /\ SumOf(f, U) \notin Int
    BY <1>0
  <2>3. U # {}
    BY <2>2, SumOfNone
  <2>4. IsFiniteSet(U)
    BY <2>2, FS_Subset
  <2>5. First(U) \in U /\ SumOf(f, U) = f[First(U)] + SumOf(f, U \ {First(U)})
    BY <2>3, <2>4, FirstIsIn, SumOfFirst
  <2>6. PICK V : V = U \ {First(U)}
    OBVIOUS
  <2>7. V \in SUBSET S /\ V \subseteq U /\ V # U
    BY <2>2, <2>5, <2>6
  <2>8. SumOf(f, V) \in Int
    BY <1>0, <2>1, <2>7
  <2> QED BY <2>2, <2>5, <2>6, <2>8
<1> QED BY <1>0, <1>1

(* Any element's value and the sum of the rest.                              *)
LEMMA SumOfAny ==
  ASSUME NEW f, NEW S, IsFiniteSet(S), \A x \in S : f[x] \in Int, NEW y \in S
  PROVE  SumOf(f, S) = f[y] + SumOf(f, S \ {y})
<1>0. PICK B \in SUBSET (SUBSET S) :
         B = {U \in SUBSET S : \E z \in U : SumOf(f, U) # f[z] + SumOf(f, U \ {z})}
  OBVIOUS
<1>1. ASSUME B # {} PROVE FALSE
  <2>1. PICK U \in B : \A V \in B : V \subseteq U => V = U
    BY <1>1, SmallestSet
  <2>2. U \in SUBSET S
    OBVIOUS
  <2>3. PICK z \in U : SumOf(f, U) # f[z] + SumOf(f, U \ {z})
    BY <1>0
  <2>4. PICK x : x = First(U)
    OBVIOUS
  <2>5. IsFiniteSet(U)
    BY <2>2, FS_Subset
  <2>6. x \in U /\ SumOf(f, U) = f[x] + SumOf(f, U \ {x})
    BY <2>3, <2>4, <2>5, SumOfFirst, FirstIsIn
  <2>7. x # z
    BY <2>3, <2>6
  <2>8. PICK V : V = U \ {x}
    OBVIOUS
  <2>9. PICK W : W = U \ {z}
    OBVIOUS
  <2>10. PICK R : R = U \ {x, z}
    OBVIOUS
  <2>11. V \ {z} = R /\ W \ {x} = R
    BY <2>8, <2>9, <2>10
  <2>12. /\ V \in SUBSET S /\ z \in V /\ V # U /\ V \subseteq U
         /\ W \in SUBSET S /\ x \in W /\ W # U /\ W \subseteq U
    BY <2>2, <2>6, <2>7, <2>8, <2>9
  <2>13. V \notin B /\ W \notin B
    BY <2>1, <2>12
  <2>14. SumOf(f, V) = f[z] + SumOf(f, R)
    BY <1>0, <2>11, <2>12, <2>13
  <2>15. SumOf(f, W) = f[x] + SumOf(f, R)
    BY <1>0, <2>11, <2>12, <2>13
  <2>16. SumOf(f, R) \in Int
    <3>1. IsFiniteSet(R) /\ \A e \in R : f[e] \in Int
      BY <2>2, <2>5, <2>10, FS_Subset
    <3> QED BY <3>1, SumIsInt
  <2>17. f[x] \in Int /\ f[z] \in Int
    BY <2>2, <2>6
  <2>18. SumOf(f, U) = f[x] + (f[z] + SumOf(f, R))
    BY <2>6, <2>8, <2>14
  <2>19. SumOf(f, U) # f[z] + (f[x] + SumOf(f, R))
    BY <2>3, <2>9, <2>15
  <2> QED BY <2>16, <2>17, <2>18, <2>19
<1>2. S \notin B
  BY <1>1
<1> QED BY <1>0, <1>2

(* One more element adds its value.                                          *)
LEMMA SumAdds ==
  ASSUME NEW f, NEW S, IsFiniteSet(S), \A x \in S : f[x] \in Int,
         NEW y, y \notin S, f[y] \in Int
  PROVE  SumOf(f, S \cup {y}) = SumOf(f, S) + f[y]
<1>1. PICK T : T = S \cup {y}
  OBVIOUS
<1>2. IsFiniteSet(T) /\ y \in T /\ \A x \in T : f[x] \in Int
  BY <1>1, FS_AddElement
<1>3. T \ {y} = S
  BY <1>1
<1>4. SumOf(f, T) = f[y] + SumOf(f, S)
  BY <1>2, <1>3, SumOfAny
<1>5. SumOf(f, S) \in Int
  BY SumIsInt
<1> QED BY <1>1, <1>4, <1>5

(* Where two functions agree their sums do.                                  *)
LEMMA SumSame ==
  ASSUME NEW f, NEW h, NEW S, IsFiniteSet(S), \A x \in S : f[x] = h[x]
  PROVE  SumOf(f, S) = SumOf(h, S)
<1>0. PICK B \in SUBSET (SUBSET S) : B = {U \in SUBSET S : SumOf(f, U) # SumOf(h, U)}
  OBVIOUS
<1>1. ASSUME B # {} PROVE FALSE
  <2>1. PICK U \in B : \A V \in B : V \subseteq U => V = U
    BY <1>1, SmallestSet
  <2>2. U \in SUBSET S /\ SumOf(f, U) # SumOf(h, U)
    BY <1>0
  <2>3. U # {}
    BY <2>2, SumOfNone
  <2>4. IsFiniteSet(U)
    BY <2>2, FS_Subset
  <2>5. /\ First(U) \in U
        /\ SumOf(f, U) = f[First(U)] + SumOf(f, U \ {First(U)})
        /\ SumOf(h, U) = h[First(U)] + SumOf(h, U \ {First(U)})
    BY <2>3, <2>4, FirstIsIn, SumOfFirst
  <2>6. PICK V : V = U \ {First(U)}
    OBVIOUS
  <2>7. V \in SUBSET S /\ V \subseteq U /\ V # U
    BY <2>2, <2>5, <2>6
  <2>8. SumOf(f, V) = SumOf(h, V)
    BY <1>0, <2>1, <2>7
  <2> QED BY <2>2, <2>5, <2>6, <2>8
<1> QED BY <1>0, <1>1

(* Part of a sum of positive numbers is less than the sum.                   *)
LEMMA SumOfLess ==
  ASSUME NEW f, NEW S, IsFiniteSet(S), \A x \in S : f[x] \in Nat \ {0},
         NEW P \in SUBSET S, P # S
  PROVE  SumOf(f, P) < SumOf(f, S)
<1>0. PICK B \in SUBSET (SUBSET S) :
         B = {U \in SUBSET S : P \subseteq U /\ P # U /\ ~(SumOf(f, P) < SumOf(f, U))}
  OBVIOUS
<1>1. ASSUME B # {} PROVE FALSE
  <2>1. PICK U \in B : \A V \in B : V \subseteq U => V = U
    BY <1>1, SmallestSet
  <2>2. U \in SUBSET S /\ P \subseteq U /\ P # U /\ ~(SumOf(f, P) < SumOf(f, U))
    BY <1>0
  <2>3. PICK x \in U : x \notin P
    BY <2>2
  <2>4. PICK V : V = U \ {x}
    OBVIOUS
  <2>5. V \in SUBSET S /\ V \subseteq U /\ V # U /\ P \subseteq V
    BY <2>2, <2>3, <2>4
  <2>6. IsFiniteSet(P) /\ IsFiniteSet(U) /\ IsFiniteSet(V)
    BY <2>2, <2>5, FS_Subset
  <2>7. SumOf(f, U) = f[x] + SumOf(f, V)
    BY <2>2, <2>4, <2>6, SumOfAny
  <2>8. SumOf(f, P) \in Int /\ SumOf(f, V) \in Int
    BY <2>5, <2>6, SumIsInt
  <2>9. P = V \/ SumOf(f, P) < SumOf(f, V)
    BY <1>0, <2>1, <2>5
  <2>10. f[x] \in Nat \ {0}
    BY <2>2
  <2>11. CASE P = V
    BY <2>2, <2>7, <2>8, <2>10, <2>11
  <2>12. CASE SumOf(f, P) < SumOf(f, V)
    BY <2>2, <2>7, <2>8, <2>10, <2>12
  <2> QED BY <2>9, <2>11, <2>12
<1>2. S \notin B
  BY <1>1
<1> QED BY <1>0, <1>2

(* A sum over what a one-to-one function returns.                            *)
LEMMA SumOfImage ==
  ASSUME NEW f, NEW h, NEW g, NEW S, IsFiniteSet(S),
         \A x, y \in S : g[x] = g[y] => x = y,
         \A x \in S : f[g[x]] = h[x] /\ h[x] \in Int,
         NEW T, T = {g[x] : x \in S}
  PROVE  SumOf(f, T) = SumOf(h, S)
<1> DEFINE Image(U) == {g[x] : x \in U}
<1>0. PICK B \in SUBSET (SUBSET S) : B = {U \in SUBSET S : SumOf(f, Image(U)) # SumOf(h, U)}
  OBVIOUS
<1>1. ASSUME B # {} PROVE FALSE
  <2>1. PICK U \in B : \A V \in B : V \subseteq U => V = U
    BY <1>1, SmallestSet
  <2>2. U \in SUBSET S /\ SumOf(f, Image(U)) # SumOf(h, U)
    BY <1>0
  <2>3. U # {}
    <3>1. U = {} => Image(U) = {}
      OBVIOUS
    <3> HIDE DEF Image
    <3> QED BY <2>2, <3>1, SumOfNone
  <2>4. PICK x \in U : TRUE
    BY <2>3
  <2>5. PICK V : V = U \ {x}
    OBVIOUS
  <2>6. V \in SUBSET S /\ V \subseteq U /\ V # U
    BY <2>2, <2>5
  <2>7. IsFiniteSet(U) /\ IsFiniteSet(V)
    BY <2>2, <2>6, FS_Subset
  <2>8. SumOf(h, U) = h[x] + SumOf(h, V)
    BY <2>2, <2>5, <2>7, SumOfAny
  <2>9. PICK W : W = Image(V)
    OBVIOUS
  <2>10. g[x] \notin W /\ Image(U) = W \cup {g[x]} /\ \A y \in W : f[y] \in Int
    BY <2>2, <2>5, <2>6, <2>9
  <2>11. IsFiniteSet(W)
    <3>1. PICK r : r = [y \in V |-> g[y]]
      OBVIOUS
    <3>2. r \in Surjection(V, W)
      BY <2>9, <3>1 DEF Surjection
    <3> QED BY <2>7, <3>2, FS_Surjection
  <2>12. f[g[x]] = h[x] /\ h[x] \in Int
    BY <2>2
  <2>13. SumOf(f, W \cup {g[x]}) = SumOf(f, W) + h[x]
    BY <2>10, <2>11, <2>12, SumAdds
  <2> HIDE DEF Image
  <2>14. SumOf(f, W) = SumOf(h, V)
    BY <1>0, <2>1, <2>6, <2>9
  <2>15. SumOf(h, V) \in Int
    BY <2>6, <2>7, SumIsInt
  <2> QED BY <2>2, <2>8, <2>10, <2>12, <2>13, <2>14, <2>15
<1>2. S \notin B
  BY <1>1
<1>3. T = Image(S)
  OBVIOUS
<1> HIDE DEF Image
<1> QED BY <1>0, <1>2, <1>3

-----------------------------------------------------------------------------
(* What the orders made and what is booked of it. *)
BookedOrders == {o \in Orders : Booked(o)}

(* A handler books an order once, and before it has been sent nothing: of a  *)
(* handler at work only the close of its reversal is in the ledger.          *)
Fresh ==
  \A o \in Orders : Booked(o) =>
    /\ o[1] <= handler
    /\ o[1] = handler /\ step \notin {"idle", "decide"} =>
         o[2] = "reverse" /\ ~(step \in {"close", "book"} /\ role = "reverse")

(* No order that the handler is about to send is booked.                     *)
LEMMA NotBookedYet ==
  ASSUME HandlersTypeOK, Locals, Fresh
  PROVE  /\ step \in {"close", "book"} => ~Booked(Order(role))
         /\ step \in {"enter", "protect", "open"} => ~Booked(Order("entry"))
<1>1. ASSUME step \in {"close", "book"} PROVE ~Booked(Order(role))
  <2>1. PICK o \in Orders : o = Order(role) /\ o[1] = handler /\ o[2] = role
    BY <1>1, OrderIsOrder, RoleIsKind DEF Locals
  <2> QED BY <1>1, <2>1 DEF Fresh
<1>2. ASSUME step \in {"enter", "protect", "open"} PROVE ~Booked(Order("entry"))
  <2>1. PICK o \in Orders : o = Order("entry") /\ o[1] = handler /\ o[2] = "entry"
    BY <1>2, OrderIsOrder DEF Locals
  <2> QED BY <1>2, <2>1 DEF Fresh
<1> QED BY <1>1, <1>2

(* A new trade is the one that is appended.                                  *)
LEMMA AppendAddsOne ==
  ASSUME LedgerTypeOK(Orders), NEW r \in Trades(Orders), trades' = Append(trades, r)
  PROVE  \A id, kind : HasTrade(id, kind)' => HasTrade(id, kind) \/ (id = r.id /\ kind = r.kind)
<1>1. trades \in Seq(Trades(Orders))
  BY DEF LedgerTypeOK
<1>2. /\ Len(trades') = Len(trades) + 1 /\ Len(trades) \in Nat
      /\ \A t \in 1..Len(trades) : trades'[t] = trades[t]
      /\ trades'[Len(trades) + 1] = r
  BY <1>1
<1>3. ASSUME NEW id, NEW kind, HasTrade(id, kind)'
      PROVE  HasTrade(id, kind) \/ (id = r.id /\ kind = r.kind)
  <2>1. PICK t \in 1..(Len(trades) + 1) : trades'[t].kind = kind /\ trades'[t].id = id
    BY <1>2, <1>3 DEF HasTrade
  <2>2. CASE t = Len(trades) + 1
    BY <1>2, <2>1, <2>2
  <2>3. CASE t \in 1..Len(trades)
    BY <1>2, <2>1, <2>3 DEF HasTrade
  <2> QED BY <1>2, <2>2, <2>3
<1> QED BY <1>3

(* RecordOpen books the order it is given, at its fee, and no other.         *)
LEMMA OpenBooksOne ==
  ASSUME LedgerTypeOK(Orders), NEW o \in Orders, NEW p, NEW fee \in Int,
         p.side \in {"long", "short"}, p.size \in Nat, p.notional \in Int,
         RecordOpen(o, p, fee), ~HasTrade(o, "open")
  PROVE  /\ realized' = realized - fee
         /\ \A id, kind : HasTrade(id, kind)' => HasTrade(id, kind) \/ (id = o /\ kind = "open")
<1> DEFINE r == Record(o, "open", p, -fee)
<1>1. r \in Trades(Orders) /\ r.id = o /\ r.kind = "open"
  BY RecordIsTrade DEF Kinds
<1>2. trades' = Append(trades, r) /\ realized' = realized - fee
  BY DEF RecordOpen
<1> HIDE DEF r
<1> QED BY <1>1, <1>2, AppendAddsOne

(* RecordClose books the order it is given, at its result, and no other.     *)
LEMMA CloseBooksOne ==
  ASSUME LedgerTypeOK(Orders), NEW o \in Orders, NEW p, NEW pnl \in Int,
         p.side \in {"long", "short"}, p.size \in Nat, p.notional \in Int,
         RecordClose(o, p, pnl), ~HasTrade(o, "close")
  PROVE  /\ realized' = realized + pnl
         /\ \A id, kind : HasTrade(id, kind)' => HasTrade(id, kind) \/ (id = o /\ kind = "close")
<1> DEFINE r == Record(o, "close", p, pnl)
<1>1. r \in Trades(Orders) /\ r.id = o /\ r.kind = "close"
  BY RecordIsTrade DEF Kinds
<1>2. trades' = Append(trades, r) /\ realized' = realized + pnl
  BY DEF RecordClose
<1> HIDE DEF r
<1> QED BY <1>1, <1>2, AppendAddsOne

GrowsBy(kinds) ==
  /\ Len(trades) \in Nat /\ Len(trades') \in Nat /\ Len(trades) <= Len(trades')
  /\ \A t \in 1..Len(trades) : trades'[t] = trades[t]
  /\ \A t \in 1..Len(trades') : t > Len(trades) => trades'[t].kind \in kinds

(* The markers of a reconciliation are neither entries nor closes.           *)
LEMMA MarkersOnly ==
  ASSUME LedgerTypeOK(Orders), NEW p \in Positions, ReconcilePositions(p)
  PROVE  GrowsBy({"reconcile_open", "reconcile_close"})
<1>1. trades \in Seq(Trades(Orders))
  BY DEF LedgerTypeOK
<1>2. PICK a, b : /\ a = Record(<<>>, "reconcile_close", OpenTrade, 0)
                  /\ b = Record(<<>>, "reconcile_open", p, 0)
  OBVIOUS
<1>3. a.kind = "reconcile_close" /\ b.kind = "reconcile_open"
  BY <1>2 DEF Record
<1>4. \E s, t : /\ s = <<>> \/ s = <<a>>
                /\ t = <<>> \/ t = <<b>>
                /\ Markers(p) = s \o t
  BY <1>2 DEF Markers
<1>5. PICK m \in Seq({a, b}) : m = Markers(p)
  BY <1>4
<1>6. trades' = trades \/ trades' = trades \o m
  BY <1>5 DEF ReconcilePositions
<1>7. CASE trades' = trades
  BY <1>1, <1>7 DEF GrowsBy
<1>8. CASE trades' = trades \o m
  <2>1. /\ Len(trades) \in Nat /\ Len(m) \in Nat /\ Len(trades') = Len(trades) + Len(m)
        /\ \A t \in 1..Len(trades) : trades'[t] = trades[t]
        /\ \A u \in 1..Len(m) : trades'[Len(trades) + u] = m[u] /\ m[u] \in {a, b}
    BY <1>1, <1>8
  <2>2. ASSUME NEW t \in 1..Len(trades'), t > Len(trades)
        PROVE  trades'[t] \in {a, b}
    <3>1. PICK u \in 1..Len(m) : Len(trades) + u = t
      <4>1. t - Len(trades) \in 1..Len(m) /\ Len(trades) + (t - Len(trades)) = t
        BY <2>1, <2>2
      <4> QED BY <4>1
    <3> QED BY <2>1, <3>1
  <2> QED BY <1>3, <2>1, <2>2 DEF GrowsBy
<1> QED BY <1>6, <1>7, <1>8

(* Markers bring nothing and book nothing.                                   *)
LEMMA MarkersBookNothing ==
  ASSUME LedgerTypeOK(Orders), NEW p \in Positions, ReconcilePositions(p)
  PROVE  /\ realized' = realized
         /\ \A id : \A kind \in {"open", "close"} : HasTrade(id, kind)' => HasTrade(id, kind)
<1>1. realized' = realized /\ GrowsBy({"reconcile_open", "reconcile_close"})
  BY MarkersOnly DEF ReconcilePositions
<1>2. ASSUME NEW id, NEW kind \in {"open", "close"}, HasTrade(id, kind)'
      PROVE  HasTrade(id, kind)
  <2>1. PICK t \in 1..Len(trades') : trades'[t].kind = kind /\ trades'[t].id = id
    BY <1>2 DEF HasTrade
  <2>2. t \in 1..Len(trades) /\ trades'[t] = trades[t]
    BY <1>1, <2>1 DEF GrowsBy
  <2> QED BY <2>1, <2>2 DEF HasTrade
<1> QED BY <1>1, <1>2

-----------------------------------------------------------------------------
SameBooks ==
  realized' = realized /\ \A o \in Orders : Booked(o)' <=> Booked(o)

OneMore(x, amount) ==
  /\ realized' = realized + amount
  /\ \A o \in Orders : Booked(o)' <=> Booked(o) \/ o = x

(* BookClose books the handler's close at Pnl.                               *)
LEMMA CloseBooks ==
  ASSUME TypeOK, Locals, Fresh, BookClose
  PROVE  OneMore(Order(role), Pnl)
<1>1. step = "book"
  BY DEF BookClose
<1>2. PICK o \in Orders : o = Order(role) /\ o[1] = handler /\ o[2] = role
  BY <1>1, OrderIsOrder, RoleIsKind DEF Locals, TypeOK
<1>3. o[2] # "entry"
  BY <1>2 DEF TypeOK, HandlersTypeOK, Roles
<1>4. ~HasTrade(o, "close")
  <2>1. ~Booked(o)
    BY <1>1, <1>2, NotBookedYet DEF TypeOK
  <2> QED BY <1>3, <2>1 DEF Booked
<1>5. PICK p \in Positions : p = seen
  BY DEF TypeOK, HandlersTypeOK
<1>6. PICK pnl \in Int : pnl = Pnl
  BY <1>1, PnlIsInt
<1>7. RecordClose(o, p, pnl)
  BY <1>2, <1>5, <1>6 DEF BookClose
<1>8. p.side \in {"long", "short"} /\ p.size \in Nat /\ p.notional \in Int
  BY <1>1, <1>5, PnlIsInt
<1>9. /\ realized' = realized + pnl
      /\ \A id, kind : HasTrade(id, kind)' => HasTrade(id, kind) \/ (id = o /\ kind = "close")
  BY <1>4, <1>7, <1>8, CloseBooksOne DEF TypeOK
<1>10. /\ \A id, kind : HasTrade(id, kind) => HasTrade(id, kind)'
       /\ HasTrade(o, "close")'
  BY <1>2, BookingCloses
<1>11. ASSUME NEW x \in Orders PROVE Booked(x)' <=> Booked(x) \/ x = o
  BY <1>3, <1>9, <1>10 DEF Booked
<1> QED BY <1>2, <1>6, <1>9, <1>11 DEF OneMore

(* BookOpen books the handler's entry at its fee.                            *)
LEMMA OpenBooks ==
  ASSUME TypeOK, Locals, Fresh, BookOpen
  PROVE  OneMore(Order("entry"), -fills[Order("entry")].fee)
<1>1. step = "open"
  BY DEF BookOpen
<1>2. PICK o \in Orders : o = Order("entry") /\ o[1] = handler /\ o[2] = "entry"
  BY <1>1, OrderIsOrder DEF Locals, TypeOK
<1>4. ~HasTrade(o, "open")
  <2>1. ~Booked(o)
    BY <1>1, <1>2, NotBookedYet DEF TypeOK
  <2> QED BY <1>2, <2>1 DEF Booked
<1>5. PICK r \in Results : r = fills[o]
  BY DEF TypeOK, VenueTypeOK
<1>6. r.size \in Nat /\ r.price \in Int /\ r.fee \in Int
  BY DEF Results
<1>7. intent.side \in {"long", "short"}
  BY <1>1, AmountsAssumption DEF Locals
<1>8. PICK p : p = [side |-> intent.side, size |-> r.size, notional |-> r.size * r.price]
  OBVIOUS
<1>9. p.side \in {"long", "short"} /\ p.size \in Nat /\ p.notional \in Int
  <2>1. r.size * r.price \in Int
    BY <1>6
  <2> QED BY <1>6, <1>7, <1>8, <2>1
<1>10. RecordOpen(o, p, r.fee)
  BY <1>2, <1>5, <1>8 DEF BookOpen
<1>11. /\ realized' = realized - r.fee
       /\ \A id, kind : HasTrade(id, kind)' => HasTrade(id, kind) \/ (id = o /\ kind = "open")
  BY <1>4, <1>6, <1>9, <1>10, OpenBooksOne DEF TypeOK
<1>12. /\ \A id, kind : HasTrade(id, kind) => HasTrade(id, kind)'
       /\ HasTrade(o, "open")'
  BY <1>2, BookingOpens
<1>13. ASSUME NEW x \in Orders PROVE Booked(x)' <=> Booked(x) \/ x = o
  BY <1>2, <1>11, <1>12 DEF Booked
<1>14. realized - r.fee = realized + (-r.fee)
  BY <1>6 DEF TypeOK, LedgerTypeOK
<1> QED BY <1>2, <1>5, <1>11, <1>13, <1>14 DEF OneMore

(* Nobody else books anything.                                               *)
LEMMA OthersBookNothing ==
  ASSUME TypeOK, Locals, [Next]_vars, ~BookClose, ~BookOpen
  PROVE  SameBooks
<1>1. CASE UNCHANGED ledger
  BY <1>1 DEF ledger, SameBooks, Booked, HasTrade
<1>2. CASE ReconcileEnd
  <2>1. PICK p \in Positions : p = rec.position
    BY DEF TypeOK, HandlersTypeOK
  <2>2. UNCHANGED ledger \/ ReconcilePositions(p)
    BY <1>2, <2>1 DEF ReconcileEnd
  <2>3. CASE ReconcilePositions(p)
    <3>1. /\ realized' = realized
          /\ \A id : \A kind \in {"open", "close"} : HasTrade(id, kind)' => HasTrade(id, kind)
      BY <2>3, MarkersBookNothing DEF TypeOK
    <3>2. \A id, kind : HasTrade(id, kind) => HasTrade(id, kind)'
      BY LedgerSteps
    <3> QED BY <3>1, <3>2 DEF SameBooks, Booked
  <2> QED BY <1>1, <2>2, <2>3
<1>3. ASSUME NEW p \in Prices, RunBegin(p) PROVE UNCHANGED ledger
  BY <1>3 DEF RunBegin
<1>4. ASSUME NEW i \in Intents, RunPropose(i) PROVE UNCHANGED ledger
  BY <1>4 DEF RunPropose
<1>5. CASE \/ RunNoTrade \/ ManualClose \/ ExitDecide \/ ExitBegin \/ SaveFails
           \/ Close \/ BookCloseFails \/ RunReopen \/ RunStaysOut
           \/ Enter \/ Protected \/ Remediate \/ ReconcileRead \/ UNCHANGED vars
  <2>1. UNCHANGED ledger
    BY <1>5 DEF RunNoTrade, ManualClose, ExitDecide, ExitBegin, CloseBegin, SaveFails,
                Close, BookCloseFails, RunReopen, RunStaysOut, Enter, Protected,
                Remediate, ReconcileRead, vars
  <2> QED BY <1>1, <2>1
<1> QED BY <1>1, <1>2, <1>3, <1>4, <1>5 DEF Next

(* Handlers come one after another.                                          *)
LEMMA OrdersAreNumbered == ASSUME TypeOK PROVE handler \in Nat /\ \A o \in Orders : o[1] \in Nat
  BY OrdersAssumption, LimitsAssumption DEF TypeOK, HandlersTypeOK

(* Fresh is kept.                                                            *)
LEMMA FreshSteps ==
  ASSUME TypeOK, Locals, Fresh, [Next]_vars
  PROVE  Fresh'
<1> SUFFICES ASSUME NEW o \in Orders, Booked(o)'
             PROVE  /\ o[1] <= handler'
                    /\ o[1] = handler' /\ step' \notin {"idle", "decide"} =>
                         o[2] = "reverse" /\ ~(step' \in {"close", "book"} /\ role' = "reverse")
  BY DEF Fresh
<1>1. handler \in Nat /\ o[1] \in Nat
  BY OrdersAreNumbered
<1>2. CASE BookClose
  <2>1. Booked(o) \/ o = Order(role)
    BY <1>2, CloseBooks DEF OneMore
  <2>2. step = "book" /\ handler' = handler
    BY <1>2 DEF BookClose, Goto, Return, locals
  <2>3. o[1] <= handler
    BY <1>1, <2>1 DEF Fresh, Order
  <2>4. CASE role # "reverse"
    BY <1>2, <2>2, <2>3, <2>4 DEF BookClose, Return
  <2>5. CASE role = "reverse"
    <3>1. step' = "reopen"
      BY <1>2, <2>5 DEF BookClose, Goto
    <3>2. o[1] = handler => o[2] = "reverse"
      BY <2>1, <2>2, <2>5 DEF Fresh, Order
    <3> QED BY <2>2, <2>3, <3>1, <3>2
  <2> QED BY <2>4, <2>5
<1>3. CASE BookOpen
  <2>1. Booked(o) \/ o = Order("entry")
    BY <1>3, OpenBooks DEF OneMore
  <2>2. step' = "idle" /\ handler' = handler
    BY <1>3 DEF BookOpen, Return
  <2>3. o[1] <= handler
    BY <1>1, <2>1 DEF Fresh, Order
  <2> QED BY <2>2, <2>3
<1>4. CASE ~BookClose /\ ~BookOpen
  <2>1. Booked(o)
    BY <1>4, OthersBookNothing DEF SameBooks
  <2>2. /\ o[1] <= handler
        /\ o[1] = handler /\ step \notin {"idle", "decide"} =>
             o[2] = "reverse" /\ ~(step \in {"close", "book"} /\ role = "reverse")
    BY <2>1 DEF Fresh
  <2>3. ASSUME handler' = handler + 1
        PROVE  o[1] <= handler' /\ o[1] # handler'
    BY <1>1, <2>2, <2>3
  <2>4. ASSUME NEW p \in Prices, RunBegin(p)
        PROVE  handler' = handler /\ step' = "decide"
    BY <2>4 DEF RunBegin
  <2>5. ASSUME NEW i \in Intents, RunPropose(i) PROVE handler' = handler + 1
    BY <2>5 DEF RunPropose
  <2>6. CASE ManualClose \/ ExitBegin
    <3>1. handler' = handler + 1
      BY <2>6 DEF ManualClose, ExitBegin, CloseBegin
    <3> QED BY <2>3, <3>1
  <2>7. CASE RunNoTrade \/ SaveFails \/ BookCloseFails \/ RunStaysOut
    <3>1. handler' = handler /\ step' = "idle"
      BY <2>7 DEF RunNoTrade, SaveFails, BookCloseFails, RunStaysOut, Return
    <3> QED BY <2>2, <3>1
  <2>8. CASE ExitDecide \/ ReconcileRead \/ ReconcileEnd \/ UNCHANGED vars
    <3>1. UNCHANGED <<handler, step, role>>
      BY <2>8 DEF ExitDecide, ReconcileRead, ReconcileEnd, vars, locals
    <3> QED BY <2>2, <3>1
  <2>9. CASE Close
    <3>1. step = "close" /\ handler' = handler /\ step' \in {"book", "idle"}
          /\ (step' = "book" => role' = role)
      BY <2>9 DEF Close, Goto, Return, locals
    <3> QED BY <2>2, <3>1
  <2>10. CASE RunReopen \/ Enter \/ Protected
    <3>1. /\ step \in {"reopen", "enter", "protect"} /\ handler' = handler
          /\ step' \in {"enter", "protect", "open", "idle"}
      BY <2>10 DEF RunReopen, Enter, Protected, Goto, Return, locals
    <3> QED BY <2>2, <3>1
  <2>11. CASE Remediate
    <3>1. step = "protect" /\ handler' = handler /\ role' = "flatten"
      BY <2>11 DEF Remediate
    <3> QED BY <2>2, <3>1
  <2>12. (\E p \in Prices : RunBegin(p)) => handler' = handler /\ step' = "decide"
    BY <2>4
  <2>13. (\E i \in Intents : RunPropose(i)) => handler' = handler + 1
    BY <2>5
  <2> QED BY <1>4, <2>2, <2>3, <2>6, <2>7, <2>8, <2>9, <2>10, <2>11, <2>12, <2>13 DEF Next
<1> QED BY <1>2, <1>3, <1>4

(* What a booked order made stays what it made, and who is stale stays so.   *)
LEMMA BroughtSteps ==
  ASSUME TypeOK, Locals, Fresh, [Next]_vars
  PROVE  /\ stale \subseteq stale'
         /\ \A o \in Orders : Booked(o) => brought'[o] = brought[o]
<1>1. CASE UNCHANGED <<stale, brought>>
  BY <1>1
<1>2. CASE Close
  <2>1. ~Booked(Order(role))
    BY <1>2, NotBookedYet DEF Close, TypeOK
  <2>2. \A o \in Orders : o # Order(role) => brought'[o] = brought[o]
    BY <1>2 DEF Close, history, TypeOK, HandlersTypeOK
  <2>3. stale \subseteq stale'
    BY <1>2 DEF Close, history
  <2> QED BY <2>1, <2>2, <2>3
<1>3. CASE Enter
  <2>1. ~Booked(Order("entry"))
    BY <1>3, NotBookedYet DEF Enter, TypeOK
  <2>2. \A o \in Orders : o # Order("entry") => brought'[o] = brought[o]
    BY <1>3 DEF Enter, history, TypeOK, HandlersTypeOK
  <2>3. stale \subseteq stale'
    BY <1>3 DEF Enter, history
  <2> QED BY <2>1, <2>2, <2>3
<1>4. ASSUME NEW p \in Prices, RunBegin(p) PROVE UNCHANGED <<stale, brought>>
  BY <1>4 DEF RunBegin
<1>5. ASSUME NEW i \in Intents, RunPropose(i) PROVE UNCHANGED <<stale, brought>>
  BY <1>5 DEF RunPropose, history
<1>6. CASE \/ RunNoTrade \/ ManualClose \/ ExitDecide \/ ExitBegin \/ SaveFails
           \/ BookClose \/ BookCloseFails \/ RunReopen \/ RunStaysOut
           \/ Protected \/ Remediate \/ BookOpen \/ ReconcileRead \/ ReconcileEnd
           \/ UNCHANGED vars
  <2>1. UNCHANGED <<stale, brought>>
    BY <1>6 DEF RunNoTrade, ManualClose, ExitDecide, ExitBegin, CloseBegin, SaveFails,
                BookClose, BookCloseFails, RunReopen, RunStaysOut, Protected, Remediate,
                BookOpen, ReconcileRead, ReconcileEnd, vars, history
  <2> QED BY <1>1, <2>1
<1> QED BY <1>1, <1>2, <1>3, <1>4, <1>5, <1>6 DEF Next

(* A position has been bought or sold at a mark.                             *)
Marked == Adding => mark # 0

(* The venue keeps a mark for what is held.                                  *)
LEMMA MarkedSteps == ASSUME Marked, [VenueNext]_venueVars PROVE Marked'
<1>1. CASE UNCHANGED venueVars
  BY <1>1 DEF Marked, Adding, venueVars
<1>2. ASSUME NEW p \in Prices, SetMarkPrice(p) PROVE mark' # 0
  BY <1>2, AmountsAssumption DEF SetMarkPrice
<1>3. ASSUME NEW o \in Orders, NEW i \in Intents, PlaceEntry(o, i) PROVE Marked'
  BY <1>3 DEF Marked, Adding, PlaceEntry, Accepted, FillEntry, RememberRejected
<1>4. ASSUME NEW o \in Orders, PlaceClose(o) PROVE Marked'
  BY <1>4 DEF Marked, Adding, PlaceClose, CloseAt, RememberRejected
<1>5. CASE CancelProtectiveOrders
  BY <1>5 DEF Marked, Adding, CancelProtectiveOrders
<1> QED BY <1>1, <1>2, <1>3, <1>4, <1>5 DEF VenueNext, Marked

(* A close of the position that was read makes what will be booked of it.    *)
LEMMA CloseMakesPnl ==
  ASSUME TypeOK, Locals, Marked, Close
  PROVE  step' = "book" /\ Order(role)' \notin stale' => Pnl' = brought'[Order(role)']
<1> SUFFICES ASSUME step' = "book", Order(role)' \notin stale'
             PROVE  Pnl' = brought'[Order(role)']
  OBVIOUS
<1>1. PICK o \in Orders : o = Order(role)
  BY OrderIsOrder, RoleIsKind DEF Close, Locals, TypeOK
<1>2. Adding /\ mark # 0
  BY DEF Close, Return, Marked
<1>3. UNCHANGED <<handler, role, seen>>
  BY <1>2 DEF Close, Goto, locals
<1>4. Order(role)' = o
  BY <1>1, <1>3 DEF Order
<1>5. seen = position
  BY <1>1, <1>2, <1>4 DEF Close
<1>6. PICK price : price = EstPrice(position.side, TRUE)
  OBVIOUS
<1>7. PICK r : r = [status |-> "filled", size |-> position.size, price |-> price,
                    fee |-> Fee(position.size * price), protective |-> NoOrders]
  OBVIOUS
<1>8. fills' = [fills EXCEPT ![o] = r]
  BY <1>1, <1>2, <1>6, <1>7 DEF Close, PlaceClose
<1>9. fills'[o] = r
  BY <1>8 DEF TypeOK, VenueTypeOK
<1>10. brought'[o] = Earned(position, price) - Fee(position.size * price)
  BY <1>1, <1>2, <1>6 DEF Close, TypeOK, HandlersTypeOK
<1>11. Pnl' = Sign(seen.side) * (seen.size * r.price - seen.notional) - r.fee
  BY <1>3, <1>4, <1>9 DEF Pnl, Sign
<1>12. r.price = price /\ r.fee = Fee(position.size * price)
  BY <1>7
<1> QED BY <1>4, <1>5, <1>10, <1>11, <1>12 DEF Earned

(* An entry costs the account its fee.                                       *)
LEMMA EnterCostsFee ==
  ASSUME TypeOK, Locals, Enter
  PROVE  step' \in {"protect", "open"} =>
           brought'[Order("entry")'] = -fills'[Order("entry")'].fee
<1> SUFFICES ASSUME step' \in {"protect", "open"}
             PROVE  brought'[Order("entry")'] = -fills'[Order("entry")'].fee
  OBVIOUS
<1>1. PICK o \in Orders : o = Order("entry")
  BY OrderIsOrder DEF Enter, Locals, TypeOK
<1>2. Accepted(intent)
  BY DEF Enter, Return
<1>3. handler' = handler
  BY <1>2 DEF Enter, Goto, locals
<1>4. Order("entry")' = o
  BY <1>1, <1>3 DEF Order
<1>5. PICK fee : fee = Fee(intent.size * EstPrice(intent.side, FALSE))
  OBVIOUS
<1>6. fills'[o].fee = fee
  <2>1. FillEntry(o, intent)
    BY <1>1, <1>2 DEF Enter, PlaceEntry
  <2>2. PICK orders, price :
          fills' = [fills EXCEPT ![o] = [status |-> "filled", size |-> intent.size,
                      price |-> price, fee |-> fee, protective |-> orders]]
    BY <1>5, <2>1 DEF FillEntry
  <2> QED BY <2>2 DEF TypeOK, VenueTypeOK
<1>7. brought'[o] = -fee
  BY <1>1, <1>2, <1>5 DEF Enter, TypeOK, HandlersTypeOK
<1> QED BY <1>4, <1>6, <1>7

(* What a handler is about to book is what its order made for the account.   *)
AboutRight ==
  /\ step = "book" /\ Order(role) \notin stale => Pnl = brought[Order(role)]
  /\ step \in {"protect", "open"} => brought[Order("entry")] = -fills[Order("entry")].fee

(* What is about to be booked stays right.                                   *)
LEMMA AboutRightSteps ==
  ASSUME TypeOK, Locals, Marked, AboutRight, [Next]_vars
  PROVE  AboutRight'
<1>1. CASE Close
  <2>1. step' \in {"book", "idle"}
    BY <1>1 DEF Close, Goto, Return
  <2> QED BY <1>1, <2>1, CloseMakesPnl DEF AboutRight
<1>2. CASE Enter
  <2>1. step' \in {"protect", "idle"}
    BY <1>2 DEF Enter, Goto, Return
  <2> QED BY <1>2, <2>1, EnterCostsFee DEF AboutRight
<1>3. ASSUME step' \notin {"book", "protect", "open"} PROVE AboutRight'
  BY <1>3 DEF AboutRight
<1>4. ASSUME NEW p \in Prices, RunBegin(p) PROVE step' \notin {"book", "protect", "open"}
  BY <1>4 DEF RunBegin
<1>5. ASSUME NEW i \in Intents, RunPropose(i) PROVE step' \notin {"book", "protect", "open"}
  BY <1>5 DEF RunPropose
<1>6. CASE \/ RunNoTrade \/ ManualClose \/ ExitBegin \/ SaveFails
           \/ BookClose \/ BookCloseFails \/ RunReopen \/ RunStaysOut
           \/ Remediate \/ BookOpen
  <2>1. step' \notin {"book", "protect", "open"}
    BY <1>6 DEF RunNoTrade, ManualClose, ExitBegin, CloseBegin, SaveFails, BookClose,
                BookCloseFails, RunReopen, RunStaysOut, Remediate, BookOpen, Goto, Return
  <2> QED BY <1>3, <2>1
<1>7. CASE Protected
  <2>1. /\ step = "protect" /\ step' = "open"
        /\ UNCHANGED <<handler, fills, brought>>
    BY <1>7 DEF Protected, Goto, locals, venueVars, history
  <2> QED BY <2>1 DEF AboutRight, Order
<1>8. CASE ExitDecide \/ ReconcileRead \/ ReconcileEnd \/ UNCHANGED vars
  <2>1. UNCHANGED <<step, handler, role, seen, fills, brought, stale>>
    BY <1>8 DEF ExitDecide, ReconcileRead, ReconcileEnd, vars, locals, venueVars, history
  <2>2. Pnl' = Pnl /\ Order(role)' = Order(role) /\ Order("entry")' = Order("entry")
    BY <2>1 DEF Pnl, Order, Sign
  <2> QED BY <2>1, <2>2 DEF AboutRight
<1> QED BY <1>1, <1>2, <1>3, <1>4, <1>5, <1>6, <1>7, <1>8 DEF Next

-----------------------------------------------------------------------------
(* There are finitely many orders.                                           *)
LEMMA OrdersAreFinite == IsFiniteSet(Orders)
<1>1. IsFiniteSet(1..MaxHandlers)
  BY LimitsAssumption, FS_Interval
<1>2. IsFiniteSet({"entry"} \cup Roles)
  <2>1. {"entry"} \cup Roles = {"entry", "reverse", "close", "flatten"}
    BY DEF Roles
  <2>2. IsFiniteSet({"entry", "reverse", "close", "flatten"})
    <3>1. IsFiniteSet({} \cup {"entry"})
      BY FS_EmptySet, FS_AddElement
    <3>2. IsFiniteSet({"entry"} \cup {"reverse"})
      BY <3>1, FS_AddElement
    <3>3. IsFiniteSet({"entry", "reverse"} \cup {"close"})
      BY <3>2, FS_AddElement
    <3>4. IsFiniteSet({"entry", "reverse", "close"} \cup {"flatten"})
      BY <3>3, FS_AddElement
    <3> QED BY <3>4
  <2> QED BY <2>1, <2>2
<1>3. IsFiniteSet((1..MaxHandlers) \X ({"entry"} \cup Roles))
  BY <1>1, <1>2, FS_Product
<1> QED BY <1>3, OrdersAssumption

Agrees ==
  BookedOrders \cap stale = {} => realized = SumOf(brought, BookedOrders)

(* Agrees is LedgerAgrees.                                                   *)
LEMMA AgreesIsLedgerAgrees == Agrees <=> LedgerAgrees
BY DEF Agrees, LedgerAgrees, SumOf, BookedOrders

(* One more order of the ledger's adds what it brought.                      *)
LEMMA OneMoreAgrees ==
  ASSUME TypeOK, Locals, Fresh, Agrees, [Next]_vars,
         NEW x \in Orders, ~Booked(x), NEW amount \in Int, OneMore(x, amount),
         x \notin stale => amount = brought[x], UNCHANGED <<stale, brought>>
  PROVE  Agrees'
<1> SUFFICES ASSUME BookedOrders' \cap stale = {}
             PROVE  realized' = SumOf(brought, BookedOrders')
  BY DEF Agrees
<1>1. PICK B \in SUBSET Orders : B = BookedOrders
  BY DEF BookedOrders
<1>2. BookedOrders' = B \cup {x} /\ x \notin B
  BY <1>1 DEF BookedOrders, OneMore
<1>3. realized = SumOf(brought, B)
  BY <1>1, <1>2 DEF Agrees
<1>4. amount = brought[x]
  BY <1>2
<1>5. IsFiniteSet(B) /\ \A o \in B : brought[o] \in Int
  BY <1>1, OrdersAreFinite, FS_Subset DEF TypeOK, HandlersTypeOK
<1>6. SumOf(brought, B \cup {x}) = SumOf(brought, B) + brought[x]
  BY <1>2, <1>4, <1>5, SumAdds
<1>7. realized' = realized + amount
  BY DEF OneMore
<1> QED BY <1>2, <1>3, <1>4, <1>6, <1>7

(* The ledger goes on agreeing.                                              *)
LEMMA AgreesSteps ==
  ASSUME TypeOK, Locals, Fresh, AboutRight, Agrees, [Next]_vars
  PROVE  Agrees'
<1>1. CASE BookClose
  <2>1. step = "book" /\ UNCHANGED <<stale, brought>>
    BY <1>1 DEF BookClose, history
  <2>2. PICK o \in Orders : o = Order(role)
    BY <2>1, OrderIsOrder, RoleIsKind DEF Locals, TypeOK
  <2>3. PICK pnl \in Int : pnl = Pnl
    BY <2>1, PnlIsInt
  <2>4. OneMore(o, pnl) /\ ~Booked(o)
    BY <1>1, <2>1, <2>2, <2>3, CloseBooks, NotBookedYet DEF TypeOK
  <2>5. o \notin stale => pnl = brought[o]
    BY <2>1, <2>2, <2>3 DEF AboutRight
  <2> QED BY <2>1, <2>4, <2>5, OneMoreAgrees
<1>2. CASE BookOpen
  <2>1. step = "open" /\ UNCHANGED <<stale, brought>>
    BY <1>2 DEF BookOpen, history
  <2>2. PICK o \in Orders : o = Order("entry")
    BY <2>1, OrderIsOrder DEF Locals, TypeOK
  <2>3. PICK cost \in Int : cost = brought[o]
    BY DEF TypeOK, HandlersTypeOK
  <2>4. cost = -fills[Order("entry")].fee
    BY <2>1, <2>2, <2>3 DEF AboutRight
  <2>5. OneMore(o, cost) /\ ~Booked(o)
    BY <1>2, <2>1, <2>2, <2>4, OpenBooks, NotBookedYet DEF TypeOK
  <2> QED BY <2>1, <2>3, <2>5, OneMoreAgrees
<1>3. CASE ~BookClose /\ ~BookOpen
  <2>1. PICK B \in SUBSET Orders : B = BookedOrders
    BY DEF BookedOrders
  <2>2. realized' = realized /\ BookedOrders' = B
    BY <1>3, <2>1, OthersBookNothing DEF SameBooks, BookedOrders
  <2>3. stale \subseteq stale' /\ \A o \in B : brought'[o] = brought[o]
    BY <2>1, BroughtSteps DEF BookedOrders
  <2>4. IsFiniteSet(B)
    BY OrdersAreFinite, FS_Subset
  <2>5. PICK after : after = brought'
    OBVIOUS
  <2>6. SumOf(after, B) = SumOf(brought, B)
    BY <2>3, <2>4, <2>5, SumSame
  <2>7. Agrees' = (BookedOrders' \cap stale' = {} => realized' = SumOf(after, BookedOrders'))
    BY <2>5 DEF Agrees
  <2>8. B \cap stale' = {} => B \cap stale = {}
    BY <2>3
  <2>9. B \cap stale = {} => realized = SumOf(brought, B)
    BY <2>1 DEF Agrees
  <2> QED BY <2>2, <2>6, <2>7, <2>8, <2>9
<1> QED BY <1>1, <1>2, <1>3

-----------------------------------------------------------------------------
BooksInv == IInv /\ Fresh /\ Marked /\ AboutRight /\ Agrees

(* Nothing is booked and nothing has been made at the start.                 *)
LEMMA InitBooks == ASSUME Init PROVE BooksInv
<1>1. IInv
  BY InitHolds
<1>2. \A o \in Orders : ~Booked(o)
  <2>1. trades = <<>> /\ Len(<<>>) = 0
    BY DEF Init, LedgerInit
  <2>2. \A t \in 1..Len(trades) : FALSE
    BY <2>1
  <2> QED BY <2>2 DEF Booked, HasTrade
<1>3. Fresh
  BY <1>2 DEF Fresh
<1>4. Marked /\ AboutRight
  BY DEF Init, VenueInit, Marked, Adding, Flat, AboutRight
<1>5. Agrees
  <2>1. BookedOrders = {} /\ realized = 0
    BY <1>2 DEF BookedOrders, Init, LedgerInit
  <2>2. SumOf(brought, {}) = 0
    BY SumOfNone
  <2> QED BY <2>1, <2>2 DEF Agrees
<1> QED BY <1>1, <1>3, <1>4, <1>5 DEF BooksInv

(* Every step keeps the books.                                               *)
LEMMA BooksAreKept == ASSUME BooksInv, [Next]_vars PROVE BooksInv'
<1>1. TypeOK /\ Locals /\ Fresh /\ Marked /\ AboutRight /\ Agrees
  BY DEF BooksInv, IInv
<1>2. IInv'
  BY NextKeeps DEF BooksInv
<1>3. Marked'
  BY <1>1, VenueSteps, MarkedSteps
<1>4. Fresh' /\ AboutRight' /\ Agrees'
  BY <1>1, FreshSteps, AboutRightSteps, AgreesSteps
<1> QED BY <1>2, <1>3, <1>4 DEF BooksInv

(* riskstate/tracker.go: for any number of handlers, failures and            *)
(* reconciliations, RealizedPNL is what the booked orders made for the       *)
(* venue's account, unless an automated exit closed another position than    *)
(* the one it had decided on.                                                *)
THEOREM LedgerAlwaysAgrees == Spec => []LedgerAgrees
<1>1. Init => BooksInv
  BY InitBooks
<1>2. BooksInv /\ [Next]_vars => BooksInv'
  BY BooksAreKept
<1>3. BooksInv => LedgerAgrees
  BY AgreesIsLedgerAgrees DEF BooksInv
<1> QED BY <1>1, <1>2, <1>3, PTL DEF Spec

-----------------------------------------------------------------------------
(* The entries that make the position, and the ledger's idea of them.        *)
Kept == {o \in parts : Booked(o)}
Lost == {o \in parts : ~Booked(o)}
Sizes == [o \in Orders |-> fills[o].size]

(* The position is what its entries bought or sold.                          *)
Whole ==
  /\ ~Adding => parts = {}
  /\ \A o \in parts : o[2] = "entry" /\ fills[o].size > 0
  /\ Adding => position.size = SumOf(Sizes, parts)

(* The trade of an entry that no close follows.                              *)
OpenAt(o, t) ==
  /\ trades[t].id = o /\ trades[t].kind = "open"
  /\ trades[t].side = position.side /\ trades[t].size = fills[o].size
  /\ \A u \in t..Len(trades) : trades[u].kind # "close"

InLedger == \A o \in Kept : \E t \in 1..Len(trades) : OpenAt(o, t)

Open(side) ==
  {t \in 1..Len(trades) : /\ trades[t].kind = "open" /\ trades[t].side = side
                          /\ ~ \E u \in t..Len(trades) : trades[u].kind \in {"close"}}

(* What activeEntryCount counts.                                             *)
LEMMA ActiveEntriesAre ==
  ASSUME LedgerTypeOK(Orders), NEW p
  PROVE  ActiveEntries(p) =
           Cardinality(Open(p.side)) +
             (IF Open(p.side) = {}
                 \/ SumOf([t \in 1..Len(trades) |-> trades[t].size], Open(p.side)) < p.size
              THEN 1 ELSE 0)
<1> DEFINE S == Open(p.side)
           sizes == [t \in 1..Len(trades) |-> trades[t].size]
           tracked == MapThenSumSet(LAMBDA t : trades[t].size, S)
           Sum(g) == g = [s \in SUBSET S |-> IF s = {} THEN 0
                            ELSE trades[First(s)].size + g[s \ {First(s)}]]
<1>1. ActiveEntries(p) = Cardinality(S) + (IF S = {} \/ tracked < p.size THEN 1 ELSE 0)
  BY DEF ActiveEntries, EntryCount, Open
<1>2. tracked = (CHOOSE g : Sum(g))[S]
  BY DEF MapThenSumSet, MapThenFoldSet, First
<1>3. IsFiniteSet(S)
  BY FS_Interval, FS_Subset DEF Open, LedgerTypeOK
<1>4. ASSUME NEW g PROVE Sum(g) <=> Iterates(g, sizes, S)
  <2>1. \A s \in SUBSET S : s # {} => trades[First(s)].size = sizes[First(s)]
    BY FirstIsIn DEF Open
  <2> QED BY <2>1 DEF Iterates
<1>5. PICK g : Iterates(g, sizes, S) /\ SumOf(sizes, S) = g[S]
  BY <1>3, SumIterates
<1>6. PICK h : h = CHOOSE k : Sum(k)
  OBVIOUS
<1> HIDE DEF sizes, tracked, S
<1>7. Sum(h)
  BY <1>4, <1>5, <1>6
<1> HIDE DEF Sum
<1>8. Iterates(h, sizes, S)
  BY <1>4, <1>7
<1>9. h[S] = g[S]
  BY <1>3, <1>5, <1>8, IteratesAgree
<1>10. tracked = SumOf(sizes, S)
  BY <1>2, <1>5, <1>6, <1>9
<1> QED BY <1>1, <1>10 DEF S, sizes

(* addon.go, activeEntryCount: the entries that are booked are counted, and  *)
(* one more when there are others.                                           *)
LEMMA EntriesAreCounted ==
  ASSUME TypeOK, Whole, InLedger, Adding
  PROVE  /\ Cardinality(Kept) <= ActiveEntries(position)
         /\ Lost # {} => Cardinality(Kept) < ActiveEntries(position)
<1>1. PICK K \in SUBSET Orders : K = Kept
  BY DEF Kept, TypeOK, HandlersTypeOK
<1>2. PICK E \in SUBSET (1..Len(trades)) : E = Open(position.side)
  BY DEF Open
<1>3. IsFiniteSet(K) /\ IsFiniteSet(E) /\ IsFiniteSet(parts)
  <2>1. Len(trades) \in Nat
    BY DEF TypeOK, LedgerTypeOK
  <2>2. parts \in SUBSET Orders
    BY DEF TypeOK, HandlersTypeOK
  <2>3. IsFiniteSet(1..Len(trades))
    BY <2>1, FS_Interval
  <2> QED BY <2>2, <2>3, OrdersAreFinite, FS_Subset
<1>4. \A o \in K : \E t \in E : trades[t].id = o /\ trades[t].size = fills[o].size
  BY <1>1, <1>2 DEF InLedger, OpenAt, Open
<1>5. PICK at : at = [o \in K |-> CHOOSE t \in E : trades[t].id = o /\ trades[t].size = fills[o].size]
  OBVIOUS
<1>6. \A o \in K : at[o] \in E /\ trades[at[o]].id = o /\ trades[at[o]].size = fills[o].size
  BY <1>4, <1>5
<1>7. at \in Injection(K, E)
  BY <1>5, <1>6 DEF Injection, IsInjective
<1>8. Cardinality(K) <= Cardinality(E) /\ Cardinality(K) \in Nat /\ Cardinality(E) \in Nat
  BY <1>3, <1>7, FS_Injection, FS_CardinalityType
<1>9. PICK sizes : sizes = [t \in 1..Len(trades) |-> trades[t].size]
  OBVIOUS
<1>10. ActiveEntries(position) = Cardinality(E) +
         (IF E = {} \/ SumOf(sizes, E) < position.size THEN 1 ELSE 0)
  BY <1>2, <1>9, ActiveEntriesAre DEF TypeOK
<1>11. ASSUME Lost # {}, Cardinality(K) = Cardinality(E), E # {}
       PROVE  SumOf(sizes, E) < position.size
  <2>1. E = {at[o] : o \in K}
    <3>1. at \in Surjection(K, E)
      BY <1>3, <1>7, <1>11, FS_Injection
    <3> QED BY <1>6, <3>1 DEF Surjection
  <2>2. \A o \in parts : Sizes[o] \in Nat \ {0}
    BY DEF Whole, Sizes, TypeOK, HandlersTypeOK, VenueTypeOK, Results
  <2>3. \A o \in K : sizes[at[o]] = Sizes[o] /\ Sizes[o] \in Int
    <3>1. \A o \in K : o \in parts /\ sizes[at[o]] = trades[at[o]].size
      BY <1>1, <1>6, <1>9 DEF Kept
    <3>2. \A o \in K : Sizes[o] = fills[o].size
      BY DEF Sizes
    <3> QED BY <1>6, <2>2, <3>1, <3>2
  <2>4. \A o, x \in K : at[o] = at[x] => o = x
    BY <1>6
  <2>5. SumOf(sizes, E) = SumOf(Sizes, K)
    BY <1>3, <2>1, <2>3, <2>4, SumOfImage
  <2>6. K \in SUBSET parts /\ K # parts
    BY <1>1, <1>11 DEF Kept, Lost
  <2>7. SumOf(Sizes, K) < SumOf(Sizes, parts)
    BY <1>3, <2>2, <2>6, SumOfLess
  <2> QED BY <2>5, <2>7 DEF Whole
<1>12. CASE E = {} \/ SumOf(sizes, E) < position.size
  BY <1>1, <1>8, <1>10, <1>12
<1>13. CASE ~(E = {} \/ SumOf(sizes, E) < position.size)
  BY <1>1, <1>8, <1>10, <1>11, <1>13
<1> QED BY <1>12, <1>13

(* An entry is sent by the handler at work, or was by an earlier one.        *)
Sent ==
  \A o \in parts :
    /\ o[1] <= handler
    /\ o[1] = handler /\ step \notin {"idle", "decide"} =>
         step \in {"protect", "open"} \/ (step = "close" /\ role = "flatten")

(* There is room for one entry beside the booked ones, these others being    *)
(* unbooked.                                                                 *)
Room(others) ==
  /\ Cardinality(Kept) <= MaxAdds
  /\ others # {} => Cardinality(Kept) < MaxAdds

(* What the handler at work knows of the position and its entries.           *)
Ready ==
  /\ step = "decide" => seen = position
  /\ step \in {"book", "reopen"} => parts = {}
  /\ step \in {"protect", "open"} => Order("entry") \in parts /\ intent.side = position.side
  /\ step = "enter" => Room(Lost)
  /\ step \in {"protect", "open"} => Room(Lost \ {Order("entry")})

AddsInv == Whole /\ InLedger /\ Sent /\ Ready /\ AddsBounded

(* Entries are booked or not.                                                *)
LEMMA EntriesAreFinite ==
  ASSUME TypeOK
  PROVE  /\ IsFiniteSet(parts) /\ IsFiniteSet(Kept) /\ IsFiniteSet(Lost)
         /\ Cardinality(Kept) \in Nat /\ Cardinality(Lost) \in Nat
         /\ Cardinality(parts) = Cardinality(Kept) + Cardinality(Lost)
<1>1. parts \in SUBSET Orders /\ Kept \in SUBSET Orders /\ Lost \in SUBSET Orders
  BY DEF TypeOK, HandlersTypeOK, Kept, Lost
<1>2. IsFiniteSet(parts) /\ IsFiniteSet(Kept) /\ IsFiniteSet(Lost)
  BY <1>1, OrdersAreFinite, FS_Subset
<1>3. Kept \cup Lost = parts /\ Kept \cap Lost = {}
  BY DEF Kept, Lost
<1>4. Cardinality(Kept) \in Nat /\ Cardinality(Lost) \in Nat
  BY <1>2, FS_CardinalityType
<1>5. Cardinality(Kept \cup Lost) = Cardinality(Kept) + Cardinality(Lost) - Cardinality(Kept \cap Lost)
  BY <1>2, FS_Union
<1>6. Cardinality(Kept \cap Lost) = 0
  BY <1>3, FS_EmptySet
<1>7. Cardinality(parts) = Cardinality(Kept) + Cardinality(Lost) - 0
  BY <1>3, <1>5, <1>6
<1>8. \A k, l \in Nat : k + l - 0 = k + l
  OBVIOUS
<1> QED BY <1>2, <1>4, <1>7, <1>8

(* AddsBounded is about the entries and the unbooked ones.                   *)
Within(all, lost) ==
  Cardinality(all) <= 1 + MaxAdds + (IF Cardinality(lost) > 1 THEN Cardinality(lost) - 1 ELSE 0)

(* It is so now and after a step.                                            *)
LEMMA AddsBoundedIs ==
  /\ AddsBounded <=> Within(parts, Lost)
  /\ AddsBounded' <=> Within(parts', Lost')
<1>1. AddsBounded <=> Within(parts, Lost)
  BY DEF AddsBounded, Within, Lost
<1>2. AddsBounded' <=> Within(parts', Lost')
  BY DEF AddsBounded, Within, Lost
<1> QED BY <1>1, <1>2

-----------------------------------------------------------------------------
(* An entry in the ledger stays there, unless a close comes after it.        *)
LEMMA OpenStaysOpen ==
  ASSUME NEW kinds, "close" \notin kinds, GrowsBy(kinds),
         NEW o, NEW t \in 1..Len(trades), OpenAt(o, t),
         fills'[o].size = fills[o].size, position'.side = position.side
  PROVE  t \in 1..Len(trades') /\ OpenAt(o, t)'
<1>1. t \in 1..Len(trades') /\ trades'[t] = trades[t]
  BY DEF GrowsBy
<1>2. ASSUME NEW u \in t..Len(trades') PROVE trades'[u].kind # "close"
  <2>1. CASE u <= Len(trades)
    <3>1. u \in t..Len(trades) /\ u \in 1..Len(trades)
      BY <2>1
    <3> QED BY <3>1 DEF OpenAt, GrowsBy
  <2>2. CASE ~(u <= Len(trades))
    BY <2>2 DEF GrowsBy
  <2> QED BY <2>1, <2>2
<1>3. trades'[t].id = o /\ trades'[t].kind = "open"
  BY <1>1 DEF OpenAt
<1>4. trades'[t].side = position'.side /\ trades'[t].size = fills'[o].size
  BY <1>1 DEF OpenAt
<1> QED BY <1>1, <1>2, <1>3, <1>4 DEF OpenAt

(* So do the entries of the position.                                        *)
LEMMA GrowingKeepsEntries ==
  ASSUME NEW kinds, "close" \notin kinds, GrowsBy(kinds), InLedger,
         Kept' \subseteq Kept, \A o \in Kept : fills'[o].size = fills[o].size,
         Kept # {} => position'.side = position.side
  PROVE  InLedger'
<1> SUFFICES ASSUME NEW o \in Kept' PROVE \E t \in 1..Len(trades') : OpenAt(o, t)'
  BY DEF InLedger
<1>1. o \in Kept
  OBVIOUS
<1>2. PICK t \in 1..Len(trades) : OpenAt(o, t)
  BY <1>1 DEF InLedger
<1> QED BY <1>1, <1>2, OpenStaysOpen

(* The markers of a reconciliation are neither entries nor closes.           *)
LEMMA MarkersGrow ==
  ASSUME LedgerTypeOK(Orders), NEW p \in Positions, ReconcilePositions(p)
  PROVE  GrowsBy({"open", "reconcile_open", "reconcile_close"})
<1>1. GrowsBy({"reconcile_open", "reconcile_close"})
  BY MarkersOnly
<1> QED BY <1>1 DEF GrowsBy

(* Steps of the ledger grow it.                                              *)
LEMMA LedgerGrows ==
  ASSUME TypeOK, Locals, [Next]_vars, ~BookClose
  PROVE  GrowsBy({"open", "reconcile_open", "reconcile_close"})
<1>1. trades \in Seq(Trades(Orders))
  BY DEF TypeOK, LedgerTypeOK
<1>2. CASE UNCHANGED ledger
  BY <1>1, <1>2 DEF ledger, GrowsBy
<1>3. CASE ReconcileEnd
  <2>1. PICK p \in Positions : p = rec.position
    BY DEF TypeOK, HandlersTypeOK
  <2>2. UNCHANGED ledger \/ ReconcilePositions(p)
    BY <1>3, <2>1 DEF ReconcileEnd
  <2>3. CASE ReconcilePositions(p)
    BY <2>3, MarkersGrow DEF TypeOK
  <2> QED BY <1>2, <2>2, <2>3
<1>4. CASE BookOpen
  <2>1. PICK r : trades' = trades \/ (trades' = Append(trades, r) /\ r.kind = "open")
    BY <1>4 DEF BookOpen, RecordOpen, ledger, Record
  <2> QED BY <1>1, <2>1 DEF GrowsBy
<1>5. ASSUME NEW p \in Prices, RunBegin(p) PROVE UNCHANGED ledger
  BY <1>5 DEF RunBegin
<1>6. ASSUME NEW i \in Intents, RunPropose(i) PROVE UNCHANGED ledger
  BY <1>6 DEF RunPropose
<1>7. CASE \/ RunNoTrade \/ ManualClose \/ ExitDecide \/ ExitBegin \/ SaveFails
           \/ Close \/ BookCloseFails \/ RunReopen \/ RunStaysOut
           \/ Enter \/ Protected \/ Remediate \/ ReconcileRead \/ UNCHANGED vars
  <2>1. UNCHANGED ledger
    BY <1>7 DEF RunNoTrade, ManualClose, ExitDecide, ExitBegin, CloseBegin, SaveFails,
                Close, BookCloseFails, RunReopen, RunStaysOut, Enter, Protected,
                Remediate, ReconcileRead, vars
  <2> QED BY <1>2, <2>1
<1> QED BY <1>2, <1>3, <1>4, <1>5, <1>6, <1>7 DEF Next

-----------------------------------------------------------------------------
(* Sums of sizes are sums after a step too.                                  *)
LEMMA SizesAfter ==
  ASSUME TypeOK', NEW P \in SUBSET Orders, \A o \in P : fills'[o].size = fills[o].size
  PROVE  SumOf(Sizes', P) = SumOf(Sizes, P)
<1>1. PICK after : after = Sizes'
  OBVIOUS
<1>2. IsFiniteSet(P) /\ \A o \in P : after[o] = Sizes[o]
  BY <1>1, OrdersAreFinite, FS_Subset DEF Sizes
<1>3. SumOf(after, P) = SumOf(Sizes, P)
  BY <1>2, SumSame
<1> QED BY <1>1, <1>3

(* Entries that nothing happens to.                                          *)
LEMMA EntriesLeftAlone ==
  ASSUME TypeOK, TypeOK', Locals, [Next]_vars, ~BookClose, Whole, InLedger, AddsBounded,
         UNCHANGED <<parts, position>>, \A o \in parts : fills'[o] = fills[o],
         \A o \in parts : Booked(o)' <=> Booked(o)
  PROVE  Whole' /\ InLedger' /\ AddsBounded' /\ Kept' = Kept /\ Lost' = Lost
<1>1. Kept' = Kept /\ Lost' = Lost
  BY DEF Kept, Lost
<1>2. Whole'
  <2>1. parts \in SUBSET Orders
    BY DEF TypeOK, HandlersTypeOK
  <2>2. SumOf(Sizes', parts) = SumOf(Sizes, parts)
    BY <2>1, SizesAfter
  <2> QED BY <2>2 DEF Whole, Adding
<1>3. InLedger'
  <2>1. GrowsBy({"open", "reconcile_open", "reconcile_close"})
    BY LedgerGrows
  <2>2. \A o \in Kept : fills'[o].size = fills[o].size
    BY DEF Kept
  <2> QED BY <1>1, <2>1, <2>2, GrowingKeepsEntries
<1>4. AddsBounded'
  BY <1>1, AddsBoundedIs
<1> QED BY <1>1, <1>2, <1>3, <1>4

(* No entries at all.                                                        *)
LEMMA NoEntries ==
  ASSUME parts' = {}, Adding' => position'.size = 0
  PROVE  Whole' /\ InLedger' /\ AddsBounded' /\ Kept' = {} /\ Lost' = {}
<1>1. Kept' = {} /\ Lost' = {}
  BY DEF Kept, Lost
<1>2. Whole'
  <2>1. PICK after : after = Sizes'
    OBVIOUS
  <2>2. SumOf(after, {}) = 0
    BY SumOfNone
  <2>3. SumOf(Sizes', parts') = 0
    BY <2>1, <2>2
  <2>4. (\A o \in parts : o[2] = "entry" /\ fills[o].size > 0)'
    OBVIOUS
  <2>5. (~Adding => parts = {})'
    OBVIOUS
  <2> QED BY <2>3, <2>4, <2>5 DEF Whole
<1>3. InLedger'
  BY <1>1 DEF InLedger
<1>4. AddsBounded'
  <2>1. Cardinality({}) = 0
    BY FS_EmptySet
  <2>2. MaxAdds \in Nat
    BY LimitsAssumption
  <2>3. Within({}, {})
    BY <2>1, <2>2 DEF Within
  <2> QED BY <1>1, <2>3, AddsBoundedIs
<1> QED BY <1>1, <1>2, <1>3, <1>4

(* An entry is added.                                                        *)
LEMMA EntryAdded ==
  ASSUME TypeOK, TypeOK', Locals, Locals', [Next]_vars, Whole, InLedger, Sent, Ready, Fresh,
         Enter, Accepted(intent)
  PROVE  /\ Whole' /\ InLedger' /\ AddsBounded'
         /\ Order("entry") \in parts' /\ position'.side = intent.side
         /\ Kept' = Kept /\ Lost' = Lost \cup {Order("entry")} /\ Order("entry") \notin Lost
<1>1. PICK x \in Orders : x = Order("entry") /\ x[1] = handler /\ x[2] = "entry"
  BY OrderIsOrder DEF Enter, Locals, TypeOK
<1>2. x \notin parts /\ ~Booked(x)
  <2>1. x \notin parts
    BY <1>1 DEF Sent, Enter
  <2>2. ~Booked(x)
    BY <1>1, NotBookedYet DEF Enter, TypeOK
  <2> QED BY <2>1, <2>2
<1>3. parts' = parts \cup {x} /\ step = "enter"
  BY <1>1 DEF Enter
<1>4. FillEntry(x, intent) /\ (Adding => position.side = intent.side)
  BY <1>1 DEF Enter, PlaceEntry, Accepted
<1>5. intent.side \in {"long", "short"} /\ intent.size \in Nat \ {0}
  BY AmountsAssumption DEF Enter, Locals
<1>6. /\ position'.side = intent.side /\ position'.size = position.size + intent.size
      /\ Adding'
  BY <1>4, <1>5 DEF FillEntry, Adding
<1>7. /\ fills'[x].size = intent.size
      /\ \A o \in Orders : o # x => fills'[o] = fills[o]
  <2>1. PICK orders, price, fee :
          fills' = [fills EXCEPT ![x] = [status |-> "filled", size |-> intent.size,
                      price |-> price, fee |-> fee, protective |-> orders]]
    BY <1>4 DEF FillEntry
  <2> QED BY <2>1 DEF TypeOK, VenueTypeOK
<1>8. \A o \in Orders : Booked(o)' <=> Booked(o)
  BY OthersBookNothing DEF Enter, BookClose, BookOpen, SameBooks
<1>9. parts \in SUBSET Orders
  BY DEF TypeOK, HandlersTypeOK
<1>10. Kept' = Kept /\ Lost' = Lost \cup {x} /\ x \notin Lost
  BY <1>2, <1>3, <1>8, <1>9 DEF Kept, Lost
<1>11. Whole'
  <2>1. PICK after : after = Sizes'
    OBVIOUS
  <2>2. \A o \in Orders : after[o] = fills'[o].size /\ after[o] \in Int
    BY <2>1 DEF Sizes, TypeOK, VenueTypeOK, Results
  <2>3. SumOf(after, parts) = SumOf(Sizes, parts)
    BY <1>2, <1>7, <1>9, <2>1, SizesAfter
  <2>4. IsFiniteSet(parts)
    BY <1>9, OrdersAreFinite, FS_Subset
  <2>5. SumOf(after, parts \cup {x}) = SumOf(after, parts) + after[x]
    BY <1>2, <1>9, <2>2, <2>4, SumAdds
  <2>6. position.size = SumOf(Sizes, parts)
    <3>1. CASE Adding
      BY <3>1 DEF Whole
    <3>2. CASE ~Adding
      <4>1. position.size = 0 /\ parts = {}
        BY <3>2, Amounts DEF Whole, TypeOK, Flat
      <4> QED BY <4>1, SumOfNone
    <3> QED BY <3>1, <3>2
  <2>7. position'.size = SumOf(after, parts')
    BY <1>3, <1>6, <1>7, <2>2, <2>3, <2>5, <2>6
  <2>8. \A o \in parts' : o[2] = "entry" /\ fills'[o].size > 0
    <3>1. \A o \in parts : o[2] = "entry" /\ fills'[o].size > 0
      BY <1>2, <1>7, <1>9 DEF Whole
    <3>2. x[2] = "entry" /\ fills'[x].size > 0
      BY <1>1, <1>5, <1>7
    <3> QED BY <1>3, <3>1, <3>2
  <2> QED BY <1>6, <2>1, <2>7, <2>8 DEF Whole
<1>12. InLedger'
  <2>1. GrowsBy({"open", "reconcile_open", "reconcile_close"})
    BY LedgerGrows DEF Enter, BookClose
  <2>2. \A o \in Kept : fills'[o].size = fills[o].size
    BY <1>2, <1>7, <1>9 DEF Kept
  <2>3. Kept # {} => position'.side = position.side
    BY <1>4, <1>6 DEF Whole, Kept
  <2> QED BY <1>10, <2>1, <2>2, <2>3, GrowingKeepsEntries
<1>13. AddsBounded'
  <2>1. Cardinality(Kept) <= MaxAdds
    BY <1>3 DEF Ready, Room
  <2>2. Cardinality(parts') = Cardinality(parts) + 1 /\ Cardinality(Lost') = Cardinality(Lost) + 1
    BY <1>2, <1>3, <1>10, EntriesAreFinite, FS_AddElement
  <2>3. /\ Cardinality(Kept) \in Nat /\ Cardinality(Lost) \in Nat
        /\ Cardinality(parts) = Cardinality(Kept) + Cardinality(Lost)
    BY EntriesAreFinite
  <2>4. MaxAdds \in Nat
    BY LimitsAssumption
  <2>5. Within(parts', Lost')
    BY <2>1, <2>2, <2>3, <2>4 DEF Within
  <2> QED BY <2>5, AddsBoundedIs
<1> QED BY <1>1, <1>3, <1>6, <1>10, <1>11, <1>12, <1>13

(* An entry is booked.                                                       *)
LEMMA EntryBooked ==
  ASSUME TypeOK, TypeOK', Locals, [Next]_vars, Whole, InLedger, Ready, Fresh, BookOpen
  PROVE  Whole' /\ InLedger' /\ AddsBounded'
<1>1. PICK x \in Orders : x = Order("entry") /\ x[1] = handler /\ x[2] = "entry"
  BY OrderIsOrder DEF BookOpen, Locals, TypeOK
<1>2. x \in parts /\ ~Booked(x) /\ intent.side = position.side /\ Room(Lost \ {x})
  <2>1. ~Booked(x)
    BY <1>1, NotBookedYet DEF BookOpen, TypeOK
  <2> QED BY <1>1, <2>1 DEF BookOpen, Ready
<1>3. UNCHANGED <<parts, position, fills>>
  BY DEF BookOpen, venueVars, history
<1>4. \A o \in Orders : Booked(o)' <=> Booked(o) \/ o = x
  BY <1>1, OpenBooks DEF OneMore
<1>5. parts \in SUBSET Orders
  BY DEF TypeOK, HandlersTypeOK
<1>6. Kept' = Kept \cup {x} /\ Lost' = Lost \ {x} /\ x \in Lost /\ x \notin Kept
  BY <1>2, <1>3, <1>4, <1>5 DEF Kept, Lost
<1>7. Whole'
  <2>1. SumOf(Sizes', parts) = SumOf(Sizes, parts)
    BY <1>3, <1>5, SizesAfter
  <2> QED BY <1>3, <2>1 DEF Whole, Adding
<1>8. trades' = Append(trades, trades'[Len(trades) + 1])
      /\ trades'[Len(trades) + 1].id = x /\ trades'[Len(trades) + 1].kind = "open"
      /\ trades'[Len(trades) + 1].side = intent.side
      /\ trades'[Len(trades) + 1].size = fills[x].size
  <2>1. ~HasTrade(x, "open")
    BY <1>1, <1>2 DEF Booked
  <2>2. PICK p : p = [side |-> intent.side, size |-> fills[x].size,
                      notional |-> fills[x].size * fills[x].price]
    OBVIOUS
  <2>3. PICK r : r = Record(x, "open", p, -fills[x].fee)
    OBVIOUS
  <2>4. trades' = Append(trades, r)
    BY <1>1, <2>1, <2>2, <2>3 DEF BookOpen, RecordOpen
  <2>5. r.id = x /\ r.kind = "open" /\ r.side = intent.side /\ r.size = fills[x].size
    BY <2>2, <2>3 DEF Record
  <2>6. trades \in Seq(Trades(Orders))
    BY DEF TypeOK, LedgerTypeOK
  <2>7. trades'[Len(trades) + 1] = r
    BY <2>4, <2>6
  <2> QED BY <2>4, <2>5, <2>7
<1>9. GrowsBy({"open", "reconcile_open", "reconcile_close"})
  BY LedgerGrows DEF BookOpen, BookClose
<1>10. InLedger'
  <2> SUFFICES ASSUME NEW o \in Kept' PROVE \E t \in 1..Len(trades') : OpenAt(o, t)'
    BY DEF InLedger
  <2>1. CASE o = x
    <3>1. PICK t : t = Len(trades) + 1
      OBVIOUS
    <3>2. Len(trades') = t /\ t \in 1..Len(trades')
      <4>1. trades \in Seq(Trades(Orders))
        BY DEF TypeOK, LedgerTypeOK
      <4> QED BY <1>8, <3>1, <4>1
    <3>3. OpenAt(o, t)'
      <4>1. \A u \in t..Len(trades') : trades'[u].kind # "close"
        BY <1>8, <3>1, <3>2
      <4>2. trades'[t].id = o /\ trades'[t].kind = "open" /\ trades'[t].side = position'.side
            /\ trades'[t].size = fills'[o].size
        BY <1>2, <1>3, <1>8, <2>1, <3>1
      <4> QED BY <4>1, <4>2 DEF OpenAt
    <3> QED BY <3>2, <3>3
  <2>2. CASE o # x
    <3>1. o \in Kept
      BY <1>6, <2>2
    <3>2. PICK t \in 1..Len(trades) : OpenAt(o, t)
      BY <3>1 DEF InLedger
    <3> QED BY <1>3, <1>9, <3>2, OpenStaysOpen
  <2> QED BY <2>1, <2>2
<1>11. AddsBounded'
  <2>1. PICK others : others = Lost \ {x}
    OBVIOUS
  <2>2. IsFiniteSet(others) /\ Cardinality(others) = Cardinality(Lost) - 1 /\ Lost' = others
    BY <1>6, <2>1, EntriesAreFinite, FS_RemoveElement
  <2>3. Cardinality(others) \in Nat /\ (Cardinality(others) = 0 <=> others = {})
    BY <2>2, FS_CardinalityType, FS_EmptySet
  <2>4. Cardinality(Kept) <= MaxAdds /\ (others # {} => Cardinality(Kept) < MaxAdds)
    BY <1>2, <2>1 DEF Room
  <2>5. /\ Cardinality(Kept) \in Nat /\ Cardinality(Lost) \in Nat
        /\ Cardinality(parts) = Cardinality(Kept) + Cardinality(Lost)
    BY EntriesAreFinite
  <2>6. MaxAdds \in Nat
    BY LimitsAssumption
  <2>7. Within(parts', Lost')
    BY <1>3, <2>2, <2>3, <2>4, <2>5, <2>6 DEF Within
  <2> QED BY <2>7, AddsBoundedIs
<1> QED BY <1>7, <1>10, <1>11

-----------------------------------------------------------------------------
(* The steps that leave the position and its entries alone.                  *)
LEMMA QuietSteps ==
  ASSUME TypeOK, TypeOK', Locals, Fresh, [Next]_vars, Whole, InLedger, AddsBounded,
         ~BookClose, ~BookOpen, UNCHANGED <<parts, position, fills>>
  PROVE  Whole' /\ InLedger' /\ AddsBounded' /\ Kept' = Kept /\ Lost' = Lost
<1>1. \A o \in parts : Booked(o)' <=> Booked(o)
  BY OthersBookNothing DEF SameBooks, TypeOK, HandlersTypeOK
<1>2. (\A o \in parts : fills'[o] = fills[o]) /\ UNCHANGED <<parts, position>>
  OBVIOUS
<1> QED BY <1>1, <1>2, EntriesLeftAlone

(* An order that is refused leaves them alone too.                           *)
LEMMA RefusedSteps ==
  ASSUME TypeOK, TypeOK', Locals, Fresh, [Next]_vars, Whole, InLedger, AddsBounded,
         NEW x, x \notin parts, RememberRejected(x), UNCHANGED parts, ~BookClose, ~BookOpen
  PROVE  Whole' /\ InLedger' /\ AddsBounded'
<1>1. \A o \in parts : Booked(o)' <=> Booked(o)
  BY OthersBookNothing DEF SameBooks, TypeOK, HandlersTypeOK
<1>2. UNCHANGED <<parts, position>> /\ \A o \in parts : fills'[o] = fills[o]
  BY DEF RememberRejected, TypeOK, HandlersTypeOK, VenueTypeOK
<1> QED BY <1>1, <1>2, EntriesLeftAlone

(* The close of an order.                                                    *)
LEMMA CloseEmpties ==
  ASSUME TypeOK, TypeOK', Locals, Marked, Fresh, [Next]_vars, Whole, InLedger, AddsBounded, Close
  PROVE  /\ Whole' /\ InLedger' /\ AddsBounded'
         /\ step' \in {"book", "idle"} /\ (step' = "book" => parts' = {})
         /\ parts' \subseteq parts /\ handler' = handler
<1>1. CASE Adding
  <2>1. parts' = {} /\ position' = Flat /\ step' = "book" /\ handler' = handler
    BY <1>1 DEF Close, Marked, PlaceClose, CloseAt, Goto, locals
  <2>2. Adding' => position'.size = 0
    BY <2>1 DEF Flat
  <2> QED BY <2>1, <2>2, NoEntries
<1>2. CASE ~Adding
  <2>1. PICK x : x = Order(role)
    OBVIOUS
  <2>2. RememberRejected(x) /\ UNCHANGED parts /\ step' = "idle" /\ handler' = handler
    BY <1>2, <2>1 DEF Close, PlaceClose, Return, history
  <2>3. x \notin parts
    BY <1>2 DEF Whole
  <2>4. ~BookClose /\ ~BookOpen
    BY DEF Close, BookClose, BookOpen
  <2> QED BY <2>2, <2>3, <2>4, RefusedSteps
<1> QED BY <1>1, <1>2

(* A mark may stop the position out.                                         *)
LEMMA MarkSteps ==
  ASSUME TypeOK, TypeOK', Locals, Fresh, [Next]_vars, Whole, InLedger, AddsBounded,
         NEW p \in Prices, RunBegin(p)
  PROVE  Whole' /\ InLedger' /\ AddsBounded' /\ parts' \subseteq parts
<1>1. CASE Hit(p)
  <2>1. parts' = {} /\ position' = Flat
    BY <1>1 DEF RunBegin, SetMarkPrice, TriggerProtective, CloseAt
  <2>2. Adding' => position'.size = 0
    BY <2>1 DEF Flat
  <2> QED BY <2>1, <2>2, NoEntries
<1>2. CASE ~Hit(p)
  <2>1. UNCHANGED <<parts, position, fills>> /\ ~BookClose /\ ~BookOpen
    BY <1>2 DEF RunBegin, SetMarkPrice, TriggerProtective, BookClose, BookOpen
  <2> QED BY <2>1, QuietSteps
<1> QED BY <1>1, <1>2

(* The position has room for what the strategy may propose.                  *)
LEMMA ProposeSteps ==
  ASSUME TypeOK, Whole, InLedger, Ready, NEW i \in Intents, RunPropose(i)
  PROVE  /\ step' \in {"enter", "close"} /\ handler' = handler + 1
         /\ step' = "enter" => Room(Lost)
<1>1. step = "decide" /\ seen = position
  BY DEF RunPropose, Ready
<1>2. ASSUME step' = "enter" PROVE Room(Lost)
  <2>1. seen.side = "none" \/ i.side = seen.side
    BY <1>2 DEF RunPropose
  <2>2. MaxAdds \in Nat
    BY LimitsAssumption
  <2>3. CASE seen.side = "none"
    <3>1. Kept = {} /\ Lost = {}
      BY <1>1, <2>3 DEF Whole, Adding, Kept, Lost
    <3>2. Cardinality(Kept) = 0
      BY <3>1, FS_EmptySet
    <3> QED BY <2>2, <3>1, <3>2 DEF Room
  <2>4. CASE i.side = seen.side /\ seen.side # "none"
    <3>1. ActiveEntries(position) <= MaxAdds /\ Adding
      BY <1>1, <2>4 DEF RunPropose, AddAllowed, Adding
    <3>2. PICK n \in Nat : n = ActiveEntries(position)
      <4>1. PICK S : S = Open(position.side)
        OBVIOUS
      <4>2. IsFiniteSet(1..Len(trades)) /\ S \in SUBSET (1..Len(trades))
        BY <4>1, FS_Interval DEF TypeOK, LedgerTypeOK, Open
      <4>3. Cardinality(S) \in Nat
        BY <4>2, FS_Subset, FS_CardinalityType
      <4>4. ActiveEntries(position) \in {Cardinality(S), Cardinality(S) + 1}
        <5>1. ActiveEntries(position) = Cardinality(S) + 1
              \/ ActiveEntries(position) = Cardinality(S) + 0
          BY <4>1, ActiveEntriesAre DEF TypeOK
        <5> QED BY <4>3, <5>1
      <4> QED BY <4>3, <4>4
    <3>3. PICK k \in Nat : k = Cardinality(Kept)
      BY EntriesAreFinite
    <3>4. k <= n /\ (Lost # {} => k < n)
      BY <3>1, <3>2, <3>3, EntriesAreCounted
    <3>5. n <= MaxAdds
      BY <3>1, <3>2
    <3> QED BY <2>2, <3>3, <3>4, <3>5 DEF Room
  <2> QED BY <2>1, <2>3, <2>4
<1>3. step' \in {"enter", "close"} /\ handler' = handler + 1
  BY DEF RunPropose
<1> QED BY <1>2, <1>3

(* Entries of handlers that are over, or go on as they were.                 *)
LEMMA SentFollows ==
  ASSUME TypeOK, Sent, parts' \subseteq parts,
         \/ handler' = handler + 1
         \/ handler' = handler /\ step' \in {"idle", "decide"}
         \/ UNCHANGED <<handler, step, role>>
         \/ handler' = handler /\ step \in {"close", "book", "reopen", "enter"} /\ role = "reverse"
         \/ handler' = handler /\ step \in {"protect", "open"} /\ step' \in {"protect", "open"}
         \/ handler' = handler /\ step' = "close" /\ role' = "flatten"
         \/ parts' = {}
  PROVE  Sent'
<1> SUFFICES ASSUME NEW o \in parts'
             PROVE  /\ o[1] <= handler'
                    /\ o[1] = handler' /\ step' \notin {"idle", "decide"} =>
                         step' \in {"protect", "open"} \/ (step' = "close" /\ role' = "flatten")
  BY DEF Sent
<1>1. /\ o[1] <= handler
      /\ o[1] = handler /\ step \notin {"idle", "decide"} =>
           step \in {"protect", "open"} \/ (step = "close" /\ role = "flatten")
  BY DEF Sent
<1>2. handler \in Nat /\ o[1] \in Nat
  BY OrdersAreNumbered DEF TypeOK, HandlersTypeOK
<1>3. handler' = handler + 1 => o[1] <= handler' /\ o[1] # handler'
  BY <1>1, <1>2
<1> QED BY <1>1, <1>3

(* Whatever a step does, entries beyond the limit are accounted for.         *)
LEMMA AddsSteps ==
  ASSUME TypeOK, TypeOK', Locals, Locals', Marked, Fresh, AddsInv, [Next]_vars
  PROVE  AddsInv'
<1>0. Whole /\ InLedger /\ Sent /\ Ready /\ AddsBounded
  BY DEF AddsInv
<1>1. ASSUME NEW p \in Prices, RunBegin(p) PROVE AddsInv'
  <2>1. Whole' /\ InLedger' /\ AddsBounded' /\ parts' \subseteq parts
    BY <1>0, <1>1, MarkSteps
  <2>2. handler' = handler /\ step' = "decide" /\ seen' = position'
    BY <1>1 DEF RunBegin
  <2>3. Sent'
    BY <1>0, <2>1, <2>2, SentFollows
  <2>4. Ready'
    BY <2>2 DEF Ready
  <2> QED BY <2>1, <2>3, <2>4 DEF AddsInv
<1>2. ASSUME ~BookClose, ~BookOpen, UNCHANGED <<parts, position, fills>>
      PROVE  /\ Whole' /\ InLedger' /\ AddsBounded'
             /\ Kept' = Kept /\ Lost' = Lost /\ parts' \subseteq parts
  BY <1>0, <1>2, QuietSteps
<1>3. ASSUME NEW i \in Intents, RunPropose(i) PROVE AddsInv'
  <2>1. ~BookClose /\ ~BookOpen /\ UNCHANGED <<parts, position, fills>>
    BY <1>3 DEF RunPropose, BookClose, BookOpen, venueVars, history
  <2>2. /\ step' \in {"enter", "close"} /\ handler' = handler + 1
        /\ step' = "enter" => Room(Lost)
    BY <1>0, <1>3, ProposeSteps
  <2>3. Sent'
    BY <1>0, <1>2, <2>1, <2>2, SentFollows
  <2>4. Ready'
    <3>1. step' = "enter" => Room(Lost)'
      BY <1>2, <2>1, <2>2 DEF Room
    <3> QED BY <2>2, <3>1 DEF Ready
  <2> QED BY <1>2, <2>1, <2>3, <2>4 DEF AddsInv
<1>4. CASE RunNoTrade \/ ManualClose \/ ExitBegin \/ SaveFails \/ BookCloseFails
           \/ RunStaysOut \/ Remediate
  <2>1. ~BookClose /\ ~BookOpen
    <3>1. BookClose \/ BookOpen => step \in {"book", "open"} /\ failures' = failures
      BY DEF BookClose, BookOpen, bounds
    <3>2. SaveFails \/ BookCloseFails => failures' # failures
      <4>1. SaveFailure => failures' # failures
        BY LimitsAreNat DEF SaveFailure, TypeOK, HandlersTypeOK
      <4> QED BY <4>1 DEF SaveFails, BookCloseFails
    <3>3. RunNoTrade \/ ManualClose \/ ExitBegin \/ RunStaysOut \/ Remediate
            => step \notin {"book", "open"}
      BY DEF RunNoTrade, ManualClose, ExitBegin, CloseBegin, RunStaysOut, Remediate
    <3> QED BY <1>4, <3>1, <3>2, <3>3
  <2>2. UNCHANGED <<parts, position, fills>>
    BY <1>4 DEF RunNoTrade, ManualClose, ExitBegin, CloseBegin, SaveFails, BookCloseFails,
                RunStaysOut, Remediate, venueVars, history
  <2>3. step' \in {"idle", "close"}
    BY <1>4 DEF RunNoTrade, ManualClose, ExitBegin, CloseBegin, SaveFails, BookCloseFails,
                RunStaysOut, Remediate, Return
  <2>4. Sent'
    <3>1. \/ handler' = handler + 1
          \/ handler' = handler /\ step' = "idle"
          \/ handler' = handler /\ step' = "close" /\ role' = "flatten"
      BY <1>4 DEF RunNoTrade, ManualClose, ExitBegin, CloseBegin, SaveFails, BookCloseFails,
                  RunStaysOut, Remediate, Return
    <3> QED BY <1>0, <2>2, <3>1, SentFollows
  <2>5. Ready'
    BY <2>3 DEF Ready
  <2> QED BY <1>2, <2>1, <2>2, <2>4, <2>5 DEF AddsInv
<1>5. CASE ExitDecide \/ ReconcileRead \/ ReconcileEnd \/ UNCHANGED vars
  <2>1. UNCHANGED <<step, handler, role, seen, intent, parts, position, fills>>
    BY <1>5 DEF ExitDecide, ReconcileRead, ReconcileEnd, vars, locals, venueVars, history
  <2>2. CASE BookClose \/ BookOpen
    BY <2>1, <2>2 DEF BookClose, BookOpen, Goto, Return
  <2>3. CASE ~BookClose /\ ~BookOpen
    <3>1. Sent'
      BY <1>0, <1>2, <2>1, <2>3, SentFollows
    <3>2. Ready'
      BY <1>0, <1>2, <2>1, <2>3 DEF Ready, Room, Order
    <3> QED BY <1>2, <2>1, <2>3, <3>1, <3>2 DEF AddsInv
  <2> QED BY <2>2, <2>3
<1>6. CASE Close
  <2>1. /\ Whole' /\ InLedger' /\ AddsBounded'
        /\ step' \in {"book", "idle"} /\ (step' = "book" => parts' = {})
        /\ parts' \subseteq parts /\ handler' = handler
    BY <1>0, <1>6, CloseEmpties
  <2>2. Sent'
    BY <1>0, <2>1, SentFollows
  <2>3. Ready'
    BY <2>1 DEF Ready
  <2> QED BY <2>1, <2>2, <2>3 DEF AddsInv
<1>7. CASE BookClose
  <2>1. step = "book" /\ parts = {} /\ UNCHANGED <<parts, position>>
    BY <1>0, <1>7 DEF BookClose, Ready, venueVars, history
  <2>2. Adding' => position'.size = 0
    BY <1>0, <2>1, SumOfNone DEF Whole, Adding
  <2>3. Whole' /\ InLedger' /\ AddsBounded'
    BY <2>1, <2>2, NoEntries
  <2>4. step' \in {"reopen", "idle"}
    BY <1>7 DEF BookClose, Goto, Return
  <2>5. Sent'
    BY <1>0, <2>1, SentFollows
  <2>6. Ready'
    BY <2>1, <2>4 DEF Ready
  <2> QED BY <2>3, <2>5, <2>6 DEF AddsInv
<1>8. CASE RunReopen
  <2>1. ~BookClose /\ ~BookOpen /\ UNCHANGED <<parts, position, fills>>
    BY <1>8 DEF RunReopen, BookClose, BookOpen, venueVars, history
  <2>2. step = "reopen" /\ step' = "enter" /\ handler' = handler /\ parts' = {}
    BY <1>0, <1>8, <2>1 DEF RunReopen, Goto, locals, Ready
  <2>3. Sent'
    BY <1>0, <2>1, <2>2, SentFollows
  <2>4. Room(Lost)'
    <3>1. Kept' = {} /\ Lost' = {} /\ Cardinality({}) = 0
      BY <2>2, FS_EmptySet DEF Kept, Lost
    <3>2. MaxAdds \in Nat
      BY LimitsAssumption
    <3> QED BY <3>1, <3>2 DEF Room
  <2>5. Ready'
    BY <2>2, <2>4 DEF Ready
  <2> QED BY <1>2, <2>1, <2>3, <2>5 DEF AddsInv
<1>9. CASE Enter /\ Accepted(intent)
  <2>1. PICK x : x = Order("entry")
    OBVIOUS
  <2>2. /\ Whole' /\ InLedger' /\ AddsBounded'
        /\ x \in parts' /\ position'.side = intent.side
        /\ Kept' = Kept /\ Lost' = Lost \cup {x} /\ x \notin Lost
    BY <1>0, <1>9, <2>1, EntryAdded
  <2>3. step = "enter" /\ step' = "protect" /\ UNCHANGED <<handler, intent>>
    BY <1>9 DEF Enter, Goto, locals
  <2>4. Order("entry")' = x
    BY <2>1, <2>3 DEF Order
  <2>5. Sent'
    <3> SUFFICES ASSUME NEW o \in parts' PROVE o[1] <= handler'
      BY <2>3 DEF Sent
    <3>1. o \in parts \/ o = x
      BY <1>9, <2>1 DEF Enter
    <3>2. handler \in Nat
      BY OrdersAreNumbered
    <3> QED BY <1>0, <2>1, <2>3, <3>1, <3>2 DEF Sent, Order
  <2>6. Ready'
    <3>1. Lost' \ {x} = Lost
      BY <2>2
    <3>2. Room(Lost)
      BY <1>0, <2>3 DEF Ready
    <3>3. Room(Lost \ {Order("entry")})'
      BY <2>2, <2>4, <3>1, <3>2 DEF Room
    <3> QED BY <2>2, <2>3, <2>4, <3>3 DEF Ready
  <2> QED BY <2>2, <2>5, <2>6 DEF AddsInv
<1>10. CASE Enter /\ ~Accepted(intent)
  <2>1. PICK x : x = Order("entry")
    OBVIOUS
  <2>2. RememberRejected(x) /\ UNCHANGED parts /\ step = "enter" /\ step' = "idle"
        /\ handler' = handler
    BY <1>10, <2>1 DEF Enter, PlaceEntry, Return, history
  <2>3. x \notin parts
    BY <1>0, <2>1, <2>2 DEF Sent, Order
  <2>4. ~BookClose /\ ~BookOpen
    BY <2>2 DEF BookClose, BookOpen
  <2>5. Whole' /\ InLedger' /\ AddsBounded'
    BY <1>0, <2>2, <2>3, <2>4, RefusedSteps
  <2>6. Sent'
    BY <1>0, <2>2, SentFollows
  <2>7. Ready'
    BY <2>2 DEF Ready
  <2> QED BY <2>5, <2>6, <2>7 DEF AddsInv
<1>11. CASE Protected
  <2>1. ~BookClose /\ ~BookOpen /\ UNCHANGED <<parts, position, fills>>
    BY <1>11 DEF Protected, BookClose, BookOpen, venueVars, history
  <2>2. step = "protect" /\ step' = "open" /\ UNCHANGED <<handler, intent>>
    BY <1>11 DEF Protected, Goto, locals
  <2>3. Sent'
    BY <1>0, <2>1, <2>2, SentFollows
  <2>4. Ready'
    BY <1>0, <1>2, <2>1, <2>2 DEF Ready, Room, Order
  <2> QED BY <1>2, <2>1, <2>3, <2>4 DEF AddsInv
<1>12. CASE BookOpen
  <2>1. Whole' /\ InLedger' /\ AddsBounded'
    BY <1>0, <1>12, EntryBooked
  <2>2. step' = "idle" /\ handler' = handler /\ parts' = parts
    BY <1>12 DEF BookOpen, Return, history
  <2>3. Sent'
    BY <1>0, <2>2, SentFollows
  <2>4. Ready'
    BY <2>2 DEF Ready
  <2> QED BY <2>1, <2>3, <2>4 DEF AddsInv
<1> QED BY <1>1, <1>3, <1>4, <1>5, <1>6, <1>7, <1>8, <1>9, <1>10, <1>11, <1>12 DEF Next

(* addon.go: for any number of handlers, failures and reconciliations, a     *)
(* position is never made of more entries than allowed, one entry missing    *)
(* from the ledger being made up for and each more of them costing one.      *)
THEOREM AddsStayBounded == Spec => []AddsBounded
<1>1. Init => BooksInv /\ AddsInv
  <2> SUFFICES ASSUME Init PROVE BooksInv /\ AddsInv
    OBVIOUS
  <2>1. parts = {} /\ ~Adding /\ step = "idle"
    BY DEF Init, VenueInit, Adding, Flat
  <2>2. Kept = {} /\ Lost = {}
    BY <2>1 DEF Kept, Lost
  <2>3. AddsBounded
    <3>1. Cardinality({}) = 0
      BY FS_EmptySet
    <3>2. MaxAdds \in Nat
      BY LimitsAssumption
    <3>3. Within({}, {})
      BY <3>1, <3>2 DEF Within
    <3> QED BY <2>1, <2>2, <3>3, AddsBoundedIs
  <2>4. Whole /\ InLedger /\ Sent /\ Ready
    BY <2>1, <2>2 DEF Whole, InLedger, Sent, Ready
  <2> QED BY <2>3, <2>4, InitBooks DEF AddsInv
<1>2. BooksInv /\ AddsInv /\ [Next]_vars => (BooksInv /\ AddsInv)'
  <2> SUFFICES ASSUME BooksInv, AddsInv, [Next]_vars PROVE BooksInv' /\ AddsInv'
    OBVIOUS
  <2>1. BooksInv'
    BY BooksAreKept
  <2>2. TypeOK /\ Locals /\ Marked /\ Fresh /\ TypeOK' /\ Locals'
    BY <2>1 DEF BooksInv, IInv
  <2>3. AddsInv'
    BY <2>2, AddsSteps
  <2> QED BY <2>1, <2>3
<1>3. AddsInv => AddsBounded
  BY DEF AddsInv
<1> QED BY <1>1, <1>2, <1>3, PTL DEF Spec
=============================================================================
