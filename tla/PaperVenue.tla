----------------------------- MODULE PaperVenue -----------------------------
(* venue/paper.go for one symbol and instrument: the balance, the position   *)
(* at its average price, the protective orders attached to it and the fills  *)
(* remembered by client id.  Spot is the leverage 1 of this module.          *)
(*                                                                           *)
(* An amount is an integer; the position keeps its entry notional, not the   *)
(* rounded average price, and an intent its base size, not its quote.  Fees  *)
(* and margins are rounded down, slippage is a distance.                     *)
EXTENDS Integers

CONSTANTS
  Orders,    \* client ids
  Prices,
  Intents,   \* entries that may be proposed
  InitialQuote, FeeDivisor, Slippage

Triggers == [stop : Nat, take : Nat]

ASSUME AmountsAssumption ==
  /\ Prices \subseteq Nat \ {0}
  /\ Intents \subseteq [side : {"long", "short"}, size : Nat \ {0},
                        leverage : Nat \ {0}, protective : Triggers]
  /\ InitialQuote \in Nat /\ FeeDivisor \in Nat \ {0} /\ Slippage \in Nat

VARIABLES
  mark,        \* the last mark price, 0 before the first
  freeQuote,
  position,    \* Flat, or what is held
  protective,  \* its triggers, 0 where there is none
  fills,       \* fills[o]: the remembered result of order o
  cash         \* history: what fills paid in and out, fees included

venueVars == <<mark, freeQuote, position, protective, fills, cash>>

Flat == [side |-> "none", size |-> 0, notional |-> 0, leverage |-> 1]
NoOrders == [stop |-> 0, take |-> 0]
NoResult == [status |-> "none", size |-> 0, price |-> 0, fee |-> 0,
             protective |-> NoOrders]
Rejected == [NoResult EXCEPT !.status = "rejected"]

Positions == {Flat} \cup [side : {"long", "short"}, size : Nat, notional : Int,
                         leverage : Nat \ {0}]
Results == [status : {"none", "filled", "rejected"}, size : Nat, price : Int,
            fee : Int, protective : Triggers]

VenueTypeOK ==
  /\ mark \in Prices \cup {0}
  /\ freeQuote \in Int /\ cash \in Int
  /\ position \in Positions
  /\ protective \in Triggers
  /\ fills \in [Orders -> Results]

VenueInit ==
  /\ mark = 0 /\ freeQuote = InitialQuote /\ cash = InitialQuote
  /\ position = Flat /\ protective = NoOrders
  /\ fills = [o \in Orders |-> NoResult]

-----------------------------------------------------------------------------
Sign(side) == IF side = "long" THEN 1 ELSE -1
Fee(quote) == quote \div FeeDivisor
Margin(notional, leverage) == notional \div leverage

(* preflightLocked: slippage is against the order. *)
EstPrice(side, reduceOnly) ==
  IF (side = "long") # reduceOnly THEN mark + Slippage ELSE mark - Slippage

(* What a position returns when it is sold or bought back, before fees. *)
Earned(p, price) == Sign(p.side) * (p.size * price - p.notional)

(* closeAtPriceLocked. *)
CloseAt(price) ==
  LET quote == position.size * price IN
  /\ freeQuote' = freeQuote + Margin(position.notional, position.leverage)
                            + Earned(position, price) - Fee(quote)
  /\ cash' = cash + Sign(position.side) * quote - Fee(quote)
  /\ position' = Flat /\ protective' = NoOrders

Hit(p) ==
  \/ position.side = "long" /\ protective.stop # 0 /\ p <= protective.stop
  \/ position.side = "long" /\ protective.take # 0 /\ p >= protective.take
  \/ position.side = "short" /\ protective.stop # 0 /\ p >= protective.stop
  \/ position.side = "short" /\ protective.take # 0 /\ p <= protective.take

(* triggerProtectiveLocked.  The trigger's own fill has a client id nobody   *)
(* else can have and is not kept here.                                       *)
TriggerProtective(p) ==
  IF Hit(p) THEN CloseAt(p) ELSE UNCHANGED <<freeQuote, cash, position, protective>>

SetMarkPrice(p) == mark' = p /\ TriggerProtective(p) /\ UNCHANGED fills

-----------------------------------------------------------------------------
(* The tighter of two triggers: of stops the nearer one, and of targets. *)
Tighter(side, kind, old, new) ==
  CASE old = 0 -> new
    [] new = 0 -> old
    [] OTHER -> IF (new > old) = ((side = "long") = (kind = "stop"))
                  THEN new ELSE old

ConservativeProtectiveOrders(side, old, new) ==
  [stop |-> Tighter(side, "stop", old.stop, new.stop),
   take |-> Tighter(side, "take", old.take, new.take)]

Adding == position.side # "none"

(* Variant: an add pays the margin of what it adds. *)
CostOfAddition(quote, leverage) == Margin(quote, leverage)

(* The quote an entry needs besides its fee: for an add the margin of all at *)
(* the new leverage less the margin that is there.                           *)
Cost(quote, leverage) ==
  Margin(position.notional + quote, leverage)
    - Margin(position.notional, position.leverage)

Accepted(i) ==
  LET quote == i.size * EstPrice(i.side, FALSE)
      required == Cost(quote, i.leverage) + Fee(quote)
  IN  /\ mark # 0
      /\ Adding => position.side = i.side
      /\ required > 0 => freeQuote >= required

RememberRejected(o) ==
  /\ fills' = [fills EXCEPT ![o] = Rejected]
  /\ UNCHANGED <<mark, freeQuote, position, protective, cash>>

FillEntry(o, i) ==
  LET price == EstPrice(i.side, FALSE)
      quote == i.size * price
      orders == ConservativeProtectiveOrders(i.side, protective, i.protective)
  IN  /\ freeQuote' = freeQuote - Cost(quote, i.leverage) - Fee(quote)
      /\ cash' = cash - Sign(i.side) * quote - Fee(quote)
      /\ position' = [side |-> i.side, size |-> position.size + i.size,
                      notional |-> position.notional + quote,
                      leverage |-> i.leverage]
      /\ protective' = orders
      /\ fills' = [fills EXCEPT ![o] =
           [status |-> "filled", size |-> i.size, price |-> price,
            fee |-> Fee(quote), protective |-> orders]]
      /\ UNCHANGED mark

(* Place with an intent to open or to add, under a client id that is new:    *)
(* the journal refuses to open an order twice.                               *)
PlaceEntry(o, i) ==
  IF Accepted(i) THEN FillEntry(o, i) ELSE RememberRejected(o)

(* Place with a reduce-only intent: it takes the side of what is held. *)
PlaceClose(o) ==
  IF mark # 0 /\ Adding
    THEN LET price == EstPrice(position.side, TRUE) IN
         /\ CloseAt(price)
         /\ fills' = [fills EXCEPT ![o] =
              [status |-> "filled", size |-> position.size, price |-> price,
               fee |-> Fee(position.size * price), protective |-> NoOrders]]
         /\ UNCHANGED mark
    ELSE RememberRejected(o)

CancelProtectiveOrders ==
  /\ protective' = NoOrders
  /\ UNCHANGED <<mark, freeQuote, position, fills, cash>>

VenueNext ==
  \/ \E p \in Prices : SetMarkPrice(p)
  \/ \E o \in Orders : \/ \E i \in Intents : PlaceEntry(o, i)
                       \/ PlaceClose(o)
  \/ CancelProtectiveOrders

VenueSpec == VenueInit /\ [][VenueNext]_venueVars

-----------------------------------------------------------------------------
(* Balances: the total the account is worth at the mark. *)
TotalQuote ==
  freeQuote + (IF Adding THEN Margin(position.notional, position.leverage)
                              + Earned(position, mark) ELSE 0)

(* paper.go: no sequence of entries, adds at other leverages, closes and     *)
(* triggered stops makes or loses money: what the venue reports as total is  *)
(* what was paid in and out, with the position at its mark.                  *)
EquityConserved ==
  TotalQuote = cash + (IF Adding THEN Sign(position.side) * position.size * mark
                                 ELSE 0)
=============================================================================
