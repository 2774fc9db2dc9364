----------------------------- MODULE RiskLedger -----------------------------
(* riskstate/tracker.go for one symbol and instrument: the trades it has     *)
(* been told of, what they realized and the losses in a row.  Every mutation *)
(* changes the state, saves it and, if the save fails, puts the old state    *)
(* back, so a failure is a step that leaves the ledger alone.  Equity marks, *)
(* the count of orders in an hour and the trim at 2000 records are left out. *)
EXTENDS Integers, Sequences, FiniteSets, FiniteSetsExt

VARIABLES
  trades,    \* records, oldest first
  realized,  \* RealizedPNL
  losses     \* ConsecutiveLosses

ledger == <<trades, realized, losses>>

Kinds == {"open", "close", "reconcile_open", "reconcile_close"}

Trades(ids) == [id : ids \cup {<<>>}, kind : Kinds, side : {"long", "short"},
                size : Nat, notional : Int, pnl : Int]

LedgerTypeOK(ids) == trades \in Seq(Trades(ids)) /\ realized \in Int /\ losses \in Nat

LedgerInit == trades = <<>> /\ realized = 0 /\ losses = 0

Record(id, kind, p, pnl) ==
  [id |-> id, kind |-> kind, side |-> p.side, size |-> p.size,
   notional |-> p.notional, pnl |-> pnl]

HasTrade(id, kind) ==
  \E t \in 1..Len(trades) : trades[t].kind = kind /\ trades[t].id = id

(* RecordOpen: an entry costs its fee. *)
RecordOpen(id, p, fee) ==
  IF HasTrade(id, "open")
    THEN UNCHANGED ledger
    ELSE /\ trades' = Append(trades, Record(id, "open", p, -fee))
         /\ realized' = realized - fee
         /\ UNCHANGED losses

(* RecordClose: what the caller's position makes at the fill's price. *)
RecordClose(id, p, pnl) ==
  IF HasTrade(id, "close")
    THEN UNCHANGED ledger
    ELSE /\ trades' = Append(trades, Record(id, "close", p, pnl))
         /\ realized' = realized + pnl
         /\ losses' = CASE pnl < 0 -> losses + 1
                        [] pnl > 0 -> 0
                        [] OTHER   -> losses

(* The position the ledger believes to be open. *)
OpenTrade ==
  IF trades # <<>> /\ trades[Len(trades)].kind \in {"open", "reconcile_open"}
    THEN trades[Len(trades)]
    ELSE [side |-> "none"]

Matches(p) ==
  /\ OpenTrade.side = p.side
  /\ p.side # "none" => OpenTrade.size = p.size /\ OpenTrade.notional = p.notional

(* What a reconciliation notes when they differ: no profit and no loss, under *)
(* ids made of the clock, which are never asked for.                          *)
Markers(p) ==
  LET close == IF OpenTrade.side = "none" THEN <<>>
               ELSE <<Record(<<>>, "reconcile_close", OpenTrade, 0)>>
      open  == IF p.side = "none" THEN <<>>
               ELSE <<Record(<<>>, "reconcile_open", p, 0)>>
  IN  close \o open

ReconcilePositions(p) ==
  /\ trades' = IF Matches(p) THEN trades ELSE trades \o Markers(p)
  /\ UNCHANGED <<realized, losses>>

(* The entries of a position since the last trade of the kinds given, and one *)
(* more when they do not make up its size.                                    *)
EntryCount(p, ends) ==
  LET ended(t) == \E u \in t..Len(trades) : trades[u].kind \in ends
      entries == {t \in 1..Len(trades) : /\ trades[t].kind = "open"
                                         /\ trades[t].side = p.side
                                         /\ ~ended(t)}
      tracked == MapThenSumSet(LAMBDA t : trades[t].size, entries)
  IN  Cardinality(entries) + (IF entries = {} \/ tracked < p.size THEN 1 ELSE 0)

(* Variant: a marker of a reconciliation ends the count too. *)
ActiveEntriesSinceMarker(p) == EntryCount(p, {"close", "reconcile_close"})

(* activeEntryCount: only a booked close ends the count. *)
ActiveEntries(p) == EntryCount(p, {"close"})
=============================================================================
