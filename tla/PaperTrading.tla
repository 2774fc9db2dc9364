---------------------------- MODULE PaperTrading ----------------------------
(* What the paper venue holds and what the risk ledger has been told: the    *)
(* handlers of one symbol (runs that open, add and reverse, manual closes,   *)
(* automated exits, the emergency flatten) move the one and book the other.  *)
(* They hold the symbol's lock one at a time; the exit manager decides       *)
(* before it asks for the lock, and a reconciliation runs beside them.  The  *)
(* journal's own states and crashes are TradeExecution's: here a failure to  *)
(* save is a step that freezes.                                              *)
EXTENDS PaperVenue, RiskLedger

CONSTANTS
  MaxHandlers,   \* bound: handlers that send orders
  MaxFailures,   \* bound: saves that fail
  MaxReconciles, \* bound: reconciliations
  MaxAdds,       \* MaxAddsPerPosition
  MaxLosses      \* MaxConsecutiveLosses

Roles == {"reverse", "close", "flatten"}

ASSUME LimitsAssumption ==
  {MaxHandlers, MaxFailures, MaxReconciles, MaxAdds, MaxLosses} \subseteq Nat
ASSUME OrdersAssumption == Orders = (1..MaxHandlers) \X ({"entry"} \cup Roles)

VARIABLES
  frozen, reconciling, overtaken,   \* the safety gate, see GateContract
  step,        \* what the holder of the lock does next; "idle": nobody holds it
  handler,     \* its number, and of all that have sent orders
  role,        \* what its close is for
  seen,        \* the position it has read
  intent,      \* the entry it proposes
  exitSeen,    \* the position the exit manager has decided to leave
  rec,         \* the reconciliation: [step, position]
  failures, reconciles,   \* how many there have been
  parts,       \* history: the entries that made the present position
  brought,     \* history: what each order made for the account
  stale,       \* history: closes of a position other than the one read
  excused      \* history: orders filled before a freeze by their handler

Gate == INSTANCE GateContract

gateVars == <<frozen, reconciling, overtaken>>
locals   == <<handler, role, seen, intent>>
bounds   == <<failures, reconciles>>
history  == <<parts, brought, stale>>
vars == <<venueVars, ledger, gateVars, step, locals, exitSeen, rec, bounds, history,
          excused>>

RecIdle == [step |-> "idle", position |-> Flat]
NoIntent == [side |-> "none", size |-> 0, leverage |-> 1, protective |-> NoOrders]

HandlersTypeOK ==
  /\ frozen \in BOOLEAN /\ reconciling \in BOOLEAN /\ overtaken \in BOOLEAN
  /\ step \in {"idle", "decide", "close", "book", "reopen", "enter", "protect", "open"}
  /\ handler \in 0..MaxHandlers /\ role \in Roles
  /\ {seen, exitSeen} \subseteq Positions
  /\ intent \in Intents \cup {NoIntent}
  /\ rec \in [step : {"idle", "ledger"}, position : Positions]
  /\ failures \in 0..MaxFailures /\ reconciles \in 0..MaxReconciles
  /\ {parts, stale, excused} \subseteq SUBSET Orders
  /\ brought \in [Orders -> Int]

TypeOK == VenueTypeOK /\ LedgerTypeOK(Orders) /\ HandlersTypeOK

Init ==
  /\ VenueInit /\ LedgerInit /\ Gate!Shut
  /\ step = "idle" /\ handler = 0 /\ role = "close"
  /\ seen = Flat /\ intent = NoIntent /\ exitSeen = Flat /\ rec = RecIdle
  /\ failures = 0 /\ reconciles = 0
  /\ parts = {} /\ stale = {} /\ excused = {}
  /\ brought = [o \in Orders |-> 0]

-----------------------------------------------------------------------------
Order(kind) == <<handler, kind>>
Filled(o) == fills[o].status = "filled"

Goto(next) == step' = next /\ UNCHANGED locals

(* The handler returns and gives the lock back. *)
Return ==
  /\ step' = "idle" /\ role' = "close" /\ seen' = Flat /\ intent' = NoIntent
  /\ UNCHANGED handler

Freeze == Gate!Freeze /\ excused' = {o \in Orders : Filled(o)}

SaveFailure == failures < MaxFailures /\ failures' = failures + 1

-----------------------------------------------------------------------------
(* A run takes the lock, sets the mark its data shows, observes the equity   *)
(* and reads the position.                                                   *)
RunBegin(p) ==
  /\ step = "idle"
  /\ SetMarkPrice(p)
  /\ step' = "decide"
  /\ seen' = position'
  /\ parts' = IF Hit(p) THEN {} ELSE parts
  /\ UNCHANGED <<ledger, gateVars, handler, role, intent, exitSeen, rec, bounds,
                 brought, stale, excused>>

(* The strategy, a rule or the operator has it otherwise. *)
RunNoTrade ==
  /\ step = "decide"
  /\ Return
  /\ UNCHANGED <<venueVars, ledger, gateVars, exitSeen, rec, bounds, history, excused>>

(* evaluateAddOn: into profit only, and no more often than allowed; the      *)
(* leverage model never lowers the leverage.                                 *)
AddAllowed(leverage) ==
  /\ Earned(seen, mark) > 0
  /\ ActiveEntries(seen) <= MaxAdds
  /\ leverage >= seen.leverage

(* A stop and a target on their sides of the mark. *)
Sane(i) ==
  LET t == i.protective IN
  /\ 0 \notin {t.stop, t.take}
  /\ IF i.side = "long" THEN t.stop < mark /\ mark < t.take
                        ELSE t.take < mark /\ mark < t.stop

RunPropose(i) ==
  /\ step = "decide"
  /\ handler < MaxHandlers
  /\ ~frozen /\ losses < MaxLosses
  /\ Sane(i)
  /\ i.side = seen.side => AddAllowed(i.leverage)
  /\ handler' = handler + 1 /\ role' = "reverse" /\ intent' = i
  /\ step' = IF seen.side \in {"none", i.side} THEN "enter" ELSE "close"
  /\ UNCHANGED <<venueVars, ledger, gateVars, seen, exitSeen, rec, bounds, history, excused>>

CloseBegin(p) ==
  /\ step = "idle"
  /\ handler < MaxHandlers
  /\ handler' = handler + 1 /\ role' = "close" /\ seen' = p
  /\ step' = "close"
  /\ UNCHANGED <<venueVars, ledger, gateVars, intent, rec, bounds, history, excused>>

(* An operator's close reads the position under the lock. *)
ManualClose == Adding /\ CloseBegin(position) /\ UNCHANGED exitSeen

(* CheckOnce decides on a position that has a stop, then asks for the lock. *)
ExitDecide ==
  /\ exitSeen = Flat
  /\ handler < MaxHandlers
  /\ Adding /\ protective.stop # 0
  /\ exitSeen' = position
  /\ UNCHANGED <<venueVars, ledger, gateVars, step, locals, rec, bounds, history, excused>>

ExitBegin == exitSeen # Flat /\ CloseBegin(exitSeen) /\ exitSeen' = Flat

(* The journal, a checkpoint, the equity or the entry cannot be saved: the   *)
(* handler freezes the gate and gives up.                                    *)
SaveFails ==
  /\ step \in {"decide", "close", "enter", "protect", "open"}
  /\ SaveFailure /\ Freeze
  /\ Return
  /\ UNCHANGED <<venueVars, ledger, exitSeen, rec, reconciles, history>>

-----------------------------------------------------------------------------
(* ExecuteReduceOnly, and FinalizeClose that finds nothing left. *)
Close ==
  LET price == EstPrice(position.side, TRUE) IN
  /\ step = "close"
  /\ PlaceClose(Order(role))
  /\ IF Adding
       THEN /\ Goto("book")
            /\ parts' = {}
            /\ stale' = IF seen = position THEN stale ELSE stale \cup {Order(role)}
            /\ brought' = [brought EXCEPT ![Order(role)] =
                             Earned(position, price) - Fee(position.size * price)]
       ELSE Return /\ UNCHANGED history
  /\ UNCHANGED <<ledger, gateVars, exitSeen, rec, bounds, excused>>

(* Variant: the position as its last entry alone. *)
PnlOfLastEntry ==
  LET r == fills[Order(role)]
      o == OpenTrade
  IN  (IF o.side = "none" THEN 0 ELSE Sign(o.side) * (o.size * r.price - o.notional)) - r.fee

(* RecordClose: the position that was read, at the price of the fill. *)
Pnl == LET r == fills[Order(role)]
       IN  Sign(seen.side) * (seen.size * r.price - seen.notional) - r.fee

BookClose ==
  /\ step = "book"
  /\ RecordClose(Order(role), seen, Pnl)
  /\ IF role = "reverse" THEN Goto("reopen") ELSE Return
  /\ UNCHANGED <<venueVars, gateVars, exitSeen, rec, bounds, history, excused>>

(* Variant: nobody minds. *)
BookCloseFailsSilently ==
  /\ step = "book"
  /\ SaveFailure
  /\ Return
  /\ UNCHANGED <<venueVars, ledger, gateVars, exitSeen, rec, reconciles, history,
                 excused>>

(* The save fails: all but a reversal freeze. *)
BookCloseFails ==
  /\ step = "book"
  /\ SaveFailure
  /\ IF role = "reverse" THEN UNCHANGED <<gateVars, excused>> ELSE Freeze
  /\ Return
  /\ UNCHANGED <<venueVars, ledger, exitSeen, rec, reconciles, history>>

(* A reversal asks the gate and the rules again. *)
RunReopen ==
  /\ step = "reopen"
  /\ ~frozen /\ losses < MaxLosses
  /\ Goto("enter")
  /\ UNCHANGED <<venueVars, ledger, gateVars, exitSeen, rec, bounds, history, excused>>

RunStaysOut ==
  /\ step = "reopen"
  /\ Return
  /\ UNCHANGED <<venueVars, ledger, gateVars, exitSeen, rec, bounds, history, excused>>

-----------------------------------------------------------------------------
Enter ==
  LET o == Order("entry") IN
  /\ step = "enter"
  /\ PlaceEntry(o, intent)
  /\ IF Accepted(intent)
       THEN /\ Goto("protect")
            /\ parts' = parts \cup {o}
            /\ brought' = [brought EXCEPT ![o] =
                             -Fee(intent.size * EstPrice(intent.side, FALSE))]
            /\ UNCHANGED stale
       ELSE Return /\ UNCHANGED history
  /\ UNCHANGED <<ledger, gateVars, exitSeen, rec, bounds, excused>>

(* protectionSatisfied: the triggers the venue reports are those asked for. *)
Satisfied == fills[Order("entry")].protective = intent.protective

Protected ==
  /\ step = "protect" /\ Satisfied
  /\ Goto("open")
  /\ UNCHANGED <<venueVars, ledger, gateVars, exitSeen, rec, bounds, history, excused>>

(* remediateProtection: this venue places no protective orders on their own, *)
(* so the position, as it is now, is flattened.                              *)
Remediate ==
  /\ step = "protect" /\ ~Satisfied
  /\ Freeze
  /\ step' = "close" /\ role' = "flatten" /\ seen' = position
  /\ UNCHANGED <<venueVars, ledger, handler, intent, exitSeen, rec, bounds, history>>

BookOpen ==
  LET r == fills[Order("entry")] IN
  /\ step = "open"
  /\ RecordOpen(Order("entry"),
                [side |-> intent.side, size |-> r.size, notional |-> r.size * r.price],
                r.fee)
  /\ Return
  /\ UNCHANGED <<venueVars, gateVars, exitSeen, rec, bounds, history, excused>>

-----------------------------------------------------------------------------
ReconcileRead ==
  /\ Gate!Begin
  /\ reconciles < MaxReconciles /\ reconciles' = reconciles + 1
  /\ rec' = [step |-> "ledger", position |-> position]
  /\ UNCHANGED <<venueVars, ledger, step, locals, exitSeen, failures, history, excused>>

(* The ledger is brought to the position read, or that cannot be saved, and  *)
(* a position read must have its stop now.                                   *)
ReconcileEnd ==
  LET p == rec.position
      covered == p # Flat => protective.stop # 0 /\ position.side = p.side
  IN  /\ rec.step = "ledger"
      /\ \/ ReconcilePositions(p) /\ Gate!Complete(covered) /\ UNCHANGED failures
         \/ UNCHANGED ledger /\ Gate!Complete(FALSE) /\ SaveFailure
      /\ rec' = RecIdle
      /\ UNCHANGED <<venueVars, step, locals, exitSeen, reconciles, history, excused>>

Next ==
  \/ \E p \in Prices : RunBegin(p)
  \/ \E i \in Intents : RunPropose(i)
  \/ RunNoTrade \/ ManualClose \/ ExitDecide \/ ExitBegin \/ SaveFails
  \/ Close \/ BookClose \/ BookCloseFails \/ RunReopen \/ RunStaysOut
  \/ Enter \/ Protected \/ Remediate \/ BookOpen
  \/ ReconcileRead \/ ReconcileEnd

Spec == Init /\ [][Next]_vars

-----------------------------------------------------------------------------
Booked(o) == HasTrade(o, IF o[2] = "entry" THEN "open" ELSE "close")

(* riskstate/tracker.go: RealizedPNL is what the booked orders made for the  *)
(* venue's account, whatever is added, reversed, flattened, reconciled or    *)
(* left unbooked in between.  Only an automated exit that finds another      *)
(* position than it decided on books another result than it had.             *)
LedgerAgrees ==
  LET booked == {o \in Orders : Booked(o)}
  IN  booked \cap stale = {} => realized = MapThenSumSet(LAMBDA o : brought[o], booked)

(* service.go:772, application.go:663, dashboard.go:189: a fill of a handler *)
(* that has returned is in the ledger, or its handler froze the gate over it.*)
(* The close of a reversal is the exception (reversal_execution.go:185).     *)
BookedOrFrozen ==
  \A o \in Orders :
    Filled(o) /\ o[2] # "reverse" /\ (o[1] = handler => step = "idle")
      => Booked(o) \/ o \in excused

(* addon.go: a position is never made of more entries than allowed, whatever *)
(* is stopped out, reconciled or left unbooked in between: one entry missing *)
(* from the ledger is made up for, each more of them costs one.              *)
AddsBounded ==
  LET lost == Cardinality({o \in parts : ~Booked(o)})
  IN  Cardinality(parts) <= 1 + MaxAdds + (IF lost > 1 THEN lost - 1 ELSE 0)

(* docs/ROADMAP.md:82: the emergency flatten closes a position whose         *)
(* protective orders are missing.                                            *)
FlattenedIfUnprotected ==
  step = "close" /\ role = "flatten" => protective.stop = 0
=============================================================================
