------------------------- MODULE PositionAutomation -------------------------
(* What the automation does with the position of one symbol: the reversal    *)
(* tracker (orchestrator/reversal.go), fed by the verdicts of the runs that  *)
(* reach decideReversal, and the exit model (runtime/exit_model.go), fed by  *)
(* the polls of the exit manager (runtime/exit_manager.go).  Runs and closes *)
(* of a symbol exclude each other (symbol locks); polls do not wait for them.*)
(*                                                                           *)
(* Prices are in R, the distance from the entry to its stop.  The EWMA of    *)
(* the returns is data: each poll may find any trailing distance of Trails.  *)
(* Counters stop where the code no longer tells the values apart.            *)
EXTENDS Integers, Sequences, FiniteSets, FiniteSetsExt

CONSTANTS
  Marks,          \* where a poll may find the price, in R of the position
  Trails,         \* trailing distances, trail_giveback_r the smallest
  ProfitTarget, LossCut, TrailActivation, MinSamples, ExitConfirmations,
  ReverseConfirmations, SignalWindow, Cooldown, MaxReversalsPerDay,
  DayLength, Horizon

(* What Settings.Validate asks of the automation block.                      *)
ASSUME AutomationAssumption ==
  /\ ReverseConfirmations \in Nat \ {0} /\ MaxReversalsPerDay \in Nat \ {0}
  /\ ExitConfirmations \in Nat \ {0} /\ MinSamples \in Nat \ {0}
  /\ DayLength \in Nat \ {0} /\ Horizon \in Nat /\ Marks \subseteq Int

VARIABLES
  time, position,
  enabled,      \* the automation settings
  wasEnabled, series,       \* the exit manager's
  signal, reversing,        \* the tracker's entry, and a run past decideReversal
  reversals,    \* times of the ledger's reverse-close trades
  watched,      \* history: polls that evaluated the position of the series
  streak        \* history: verdicts against the position, without another between

automationVars == <<time, position, enabled, wasEnabled, series, signal, reversing,
                    reversals, watched, streak>>

Sides == {"long", "short"}
Unseen == [samples |-> 0, peak |-> 0, confirmations |-> 0]
NoSignal == [side |-> "none", count |-> 0, last |-> 0]

AutomationTypeOK ==
  /\ time \in 0..Horizon /\ position \in Sides \cup {"none"}
  /\ enabled \in BOOLEAN /\ wasEnabled \in BOOLEAN /\ reversing \in BOOLEAN
  /\ series \in [Sides -> [samples : Nat, peak : Marks \cup {0}, confirmations : Nat]]
  /\ signal \in [side : Sides \cup {"none"}, count : Nat, last : 0..Horizon]
  /\ reversals \in Seq(0..Horizon) /\ watched \in [Sides -> Nat] /\ streak \in Nat

AutomationInit ==
  /\ time = 0 /\ position = "none" /\ enabled = TRUE /\ wasEnabled = FALSE
  /\ series = [s \in Sides |-> Unseen] /\ watched = [s \in Sides |-> 0]
  /\ signal = NoSignal /\ reversing = FALSE /\ reversals = << >> /\ streak = 0

Opposite(s) == CHOOSE t \in Sides : t # s
DayOf(t) == t \div DayLength

-----------------------------------------------------------------------------
(* ReversalTracker *)

ReversedToday == {i \in DOMAIN reversals : DayOf(reversals[i]) = DayOf(time)}

Cooling ==
  /\ ReversedToday # {}
  /\ time < Max({reversals[i] : i \in ReversedToday}) + Cooldown

(* Variant: one reversal more than the limit. *)
SpentOneMore == Cardinality(ReversedToday) > MaxReversalsPerDay

Spent == Cardinality(ReversedToday) >= MaxReversalsPerDay

(* Observe's count of a verdict against the position; outside the window it  *)
(* starts again, and a limit reached forgets it.                             *)
Observed(side) ==
  IF ~enabled \/ Spent \/ Cooling THEN NoSignal
  ELSE [side |-> side, last |-> time,
        count |-> IF signal.side # side \/ time - signal.last > SignalWindow
                    THEN 1 ELSE Min({ReverseConfirmations, signal.count + 1})]

-----------------------------------------------------------------------------
(* A run of the symbol reaches a verdict.  Without a position it may open    *)
(* one; a flat verdict ends it, one for the position may add to it; one      *)
(* against it may fail before the decision, fail the policy of the decision  *)
(* (Reset), or be observed, and is acted on once there are enough.           *)
Verdict(side) ==
  /\ ~reversing
  /\ streak' = IF position # "none" /\ side = Opposite(position)
                THEN Min({ReverseConfirmations, streak + 1}) ELSE 0
  /\ \/ /\ position = "none" /\ side # "flat" /\ position' = side
        /\ UNCHANGED <<signal, reversing>>
     \/ UNCHANGED <<position, signal, reversing>>
     \/ /\ position # "none" /\ side = Opposite(position)
        /\ signal' \in {NoSignal, Observed(side)}
        /\ IF signal'.count >= ReverseConfirmations THEN reversing' = TRUE
                                                    ELSE UNCHANGED reversing
        /\ UNCHANGED position
  /\ UNCHANGED <<time, enabled, wasEnabled, series, reversals, watched>>

(* closeForReversal and the order of the other side: nothing closed and the  *)
(* signal kept; or a reverse-close in the ledger, Reset, and the new position*)
(* if its own checks and its order succeed.                                  *)
ReverseRun ==
  /\ reversing /\ reversing' = FALSE /\ streak' = 0
  /\ \/ UNCHANGED <<position, signal, reversals>>
     \/ /\ position # "none"
        /\ reversals' = Append(reversals, time) /\ signal' = NoSignal
        /\ position' \in {"none", Opposite(position)}
  /\ UNCHANGED <<time, enabled, wasEnabled, series, watched>>

-----------------------------------------------------------------------------
(* ExitModel.Observe *)

ExitReason(s, r, trail) ==
  \/ r >= ProfitTarget
  \/ r <= -LossCut
  \/ s.samples >= MinSamples /\ s.peak >= TrailActivation /\ r <= s.peak - trail

(* The series after one more price, its confirmations counted or dropped.    *)
Evaluated(s, r, trail) ==
  LET seen == [s EXCEPT !.samples = Min({MinSamples, @ + 1}), !.peak = Max({@, r})]
  IN [seen EXCEPT !.confirmations =
        IF ExitReason(seen, r, trail) THEN Min({ExitConfirmations, @ + 1}) ELSE 0]

(* Polls are told apart as far as the samples and confirmations are.         *)
Watched(n) == Min({Max({MinSamples, ExitConfirmations}), n + 1})

Nothing == [s \in Sides |-> Unseen]
Unwatched == [s \in Sides |-> 0]

(* The poll's final loop: only the position it saw keeps its series.         *)
OnlyHeld(value, none) ==
  [s \in Sides |-> IF s = position THEN value ELSE none]

(* CheckOnce while switched off: the first time, the series are dropped.     *)
PollDisabled ==
  /\ ~enabled /\ wasEnabled' = FALSE
  /\ series' = IF wasEnabled THEN Nothing ELSE series
  /\ watched' = Unwatched
  /\ UNCHANGED <<time, position, enabled, signal, reversing, reversals, streak>>

(* Variant: the series of positions that are gone are kept. *)
PollEmptyKeeps ==
  /\ enabled /\ position = "none" /\ wasEnabled' = TRUE
  /\ UNCHANGED series /\ watched' = Unwatched
  /\ UNCHANGED <<time, position, enabled, signal, reversing, reversals, streak>>

(* No position: CheckOnce deletes every series.                              *)
PollEmpty ==
  /\ enabled /\ position = "none" /\ wasEnabled' = TRUE
  /\ series' = Nothing /\ watched' = Unwatched
  /\ UNCHANGED <<time, position, enabled, signal, reversing, reversals, streak>>

(* The price or the stop cannot be read: no evaluation, the series stays.    *)
PollFails ==
  /\ enabled /\ position # "none" /\ wasEnabled' = TRUE
  /\ series' = OnlyHeld(series[position], Unseen)
  /\ watched' = OnlyHeld(watched[position], 0)
  /\ UNCHANGED <<time, position, enabled, signal, reversing, reversals, streak>>

(* An evaluation; enough confirmations close the position, unless a run has  *)
(* the symbol or the close fails, and then the series is kept.               *)
Poll ==
  /\ enabled /\ position # "none" /\ wasEnabled' = TRUE
  /\ \E r \in Marks, trail \in Trails :
       LET s == Evaluated(series[position], r, trail)
       IN \/ /\ series' = OnlyHeld(s, Unseen)
             /\ watched' = OnlyHeld(Watched(watched[position]), 0)
             /\ UNCHANGED position
          \/ /\ s.confirmations >= ExitConfirmations /\ ~reversing
             /\ series' = Nothing /\ watched' = Unwatched /\ position' = "none"
  /\ UNCHANGED <<time, enabled, signal, reversing, reversals, streak>>

-----------------------------------------------------------------------------
Tick ==
  /\ time < Horizon /\ time' = time + 1
  /\ UNCHANGED <<position, enabled, wasEnabled, series, signal, reversing, reversals,
                 watched, streak>>

Toggle ==
  /\ enabled' = ~enabled
  /\ UNCHANGED <<time, position, wasEnabled, series, signal, reversing, reversals,
                 watched, streak>>

(* External: a protective order fills, or the operator closes by hand.       *)
ClosedElsewhere ==
  /\ position # "none" /\ position' = "none"
  /\ UNCHANGED <<time, enabled, wasEnabled, series, signal, reversing, reversals, watched,
                 streak>>

AutomationNext ==
  \/ \E side \in Sides \cup {"flat"} : Verdict(side)
  \/ ReverseRun \/ PollDisabled \/ PollEmpty \/ PollFails \/ Poll
  \/ Tick \/ Toggle \/ ClosedElsewhere

AutomationSpec == AutomationInit /\ [][AutomationNext]_automationVars
-----------------------------------------------------------------------------
(* Whatever the runs, settings and closes in between, the automation does    *)
(* not reverse a position more often in a day than its limit.                *)
ReversalsLimited ==
  \A d \in 0..DayOf(Horizon) :
    Cardinality({i \in DOMAIN reversals : DayOf(reversals[i]) = d}) <= MaxReversalsPerDay

(* What an exit is based on was measured since the manager last saw that     *)
(* there was no such position, or that it was switched off.                  *)
EvidenceIsRecent ==
  \A s \in Sides : /\ series[s].samples <= watched[s]
                   /\ series[s].confirmations <= watched[s]

(* docs/RUNTIME.md:108: the verdicts a reversal acts on are consecutive.     *)
ConsecutiveSignals == reversing => streak >= ReverseConfirmations
=============================================================================
