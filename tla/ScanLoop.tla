------------------------------ MODULE ScanLoop ------------------------------
(* runtime/scanner.go as app.New wires it: a loop that offers the symbols of *)
(* the watchlist, one under its lock after the other, to the orchestrator,   *)
(* sleeps for the scan interval, and is told of a new interval through a     *)
(* channel of one place.  The settings are edited beside it (ControlState).  *)
EXTENDS Naturals

CONSTANTS
  Editors,    \* requests to POST /api/settings
  Listable,   \* symbols a watchlist may hold
  Intervals,
  MaxEdits    \* bound

ASSUME ScanAssumption == Intervals \subseteq Nat \ {0} /\ Listable # {}

VARIABLES
  interval, watchlist, scanEnabled,  \* the settings, as published
  editor,     \* where each request is: "idle", "notify"
  edits,
  changed,    \* scheduleChanged holds a token
  timer,      \* [set, due]: the interval it was set to, 0 when it is stopped
  upcoming,   \* the interval read for the next Reset
  loop,       \* where Run is
  left,       \* symbols of this cycle still to do, the current one included
  current,    \* the one whose lock it waits for or has
  failed,     \* ScanOnce has seen an error
  elsewhere,     \* symbols others have the lock of
  active,     \* symbols with a run under way
  gateShut,
  quitting

scanVars == <<interval, watchlist, scanEnabled, editor, edits, changed, timer, upcoming,
              loop, left, current, failed, elsewhere, active, gateShut, quitting>>

settingVars == <<interval, watchlist, scanEnabled, editor, edits>>
worldVars == <<elsewhere, active, gateShut, quitting>>
cycleVars == <<left, current, failed>>

ScanTypeOK ==
  /\ interval \in Intervals /\ watchlist \subseteq Listable /\ scanEnabled \in BOOLEAN
  /\ editor \in [Editors -> {"idle", "notify"}] /\ edits \in 0..MaxEdits
  /\ changed \in BOOLEAN /\ upcoming \in Intervals
  /\ timer \in [set : Intervals \cup {0}, due : BOOLEAN]
  /\ loop \in {"cycle", "symbol", "lock", "run", "read", "reset", "select", "ended"}
  /\ left \subseteq Listable /\ current \in Listable /\ failed \in BOOLEAN
  /\ elsewhere \subseteq Listable /\ active \subseteq Listable
  /\ gateShut \in BOOLEAN /\ quitting \in BOOLEAN

Off == [set |-> 0, due |-> FALSE]

ScanInit ==
  /\ interval \in Intervals /\ watchlist = Listable /\ scanEnabled = TRUE
  /\ editor = [u \in Editors |-> "idle"] /\ edits = 0
  /\ changed = FALSE /\ timer = Off /\ upcoming = interval
  /\ loop = "cycle" /\ left = {} /\ current \in Listable /\ failed = FALSE
  /\ elsewhere = {} /\ active = {} /\ gateShut = FALSE /\ quitting = FALSE

-----------------------------------------------------------------------------
(* ScanOnce *)

(* An empty watchlist leaves the symbols the scanner was built with.         *)
BeginCycle ==
  /\ loop = "cycle"
  /\ left' = IF ~scanEnabled THEN {} ELSE IF watchlist = {} THEN Listable ELSE watchlist
  /\ failed' = FALSE /\ loop' = "symbol"
  /\ UNCHANGED <<settingVars, changed, timer, upcoming, current, worldVars>>

(* The gate is asked before the lock is waited for; the run asks again.      *)
CheckGate ==
  /\ loop = "symbol" /\ left # {} /\ ~quitting
  /\ IF gateShut
       THEN \E s \in left : left' = left \ {s} /\ failed' = TRUE /\ UNCHANGED <<loop, current>>
       ELSE current' \in left /\ loop' = "lock" /\ UNCHANGED <<left, failed>>
  /\ UNCHANGED <<settingVars, changed, timer, upcoming, worldVars>>

TakeSymbol ==
  /\ loop = "lock"
  /\ \/ current \notin elsewhere /\ loop' = "run" /\ UNCHANGED <<left, failed>>
     \/ quitting /\ loop' = "symbol" /\ left' = left \ {current} /\ failed' = TRUE
  /\ UNCHANGED <<settingVars, changed, timer, upcoming, current, worldVars>>

(* StartAutomated begins a run and returns; one already under way is as good. *)
RunSymbol ==
  /\ loop = "run"
  /\ left' = left \ {current} /\ loop' = "symbol"
  /\ \/ active' = active \cup {current} /\ UNCHANGED failed
     \/ current \notin active /\ failed' = TRUE /\ UNCHANGED active
  /\ UNCHANGED <<settingVars, changed, timer, upcoming, current, elsewhere, gateShut, quitting>>

(* The cycle is over; errors end the loop only when the context has ended.   *)
EndCycle ==
  /\ loop = "symbol" /\ (left = {} \/ quitting)
  /\ loop' = IF quitting /\ (left # {} \/ failed) THEN "ended" ELSE "read"
  /\ UNCHANGED <<settingVars, changed, timer, upcoming, cycleVars, worldVars>>

-----------------------------------------------------------------------------
(* Run's timer *)

ReadInterval ==
  /\ loop = "read" /\ upcoming' = interval /\ loop' = "reset"
  /\ UNCHANGED <<settingVars, changed, timer, cycleVars, worldVars>>

(* Variant: notices that came while the timer was off are thrown away. *)
ResetTimerAndDrain ==
  /\ loop = "reset" /\ timer' = [set |-> upcoming, due |-> FALSE] /\ loop' = "select"
  /\ changed' = FALSE
  /\ UNCHANGED <<settingVars, upcoming, cycleVars, worldVars>>

ResetTimer ==
  /\ loop = "reset" /\ timer' = [set |-> upcoming, due |-> FALSE] /\ loop' = "select"
  /\ UNCHANGED <<settingVars, changed, upcoming, cycleVars, worldVars>>

TimerFires ==
  /\ timer.set # 0 /\ ~timer.due /\ timer' = [timer EXCEPT !.due = TRUE]
  /\ UNCHANGED <<settingVars, changed, upcoming, loop, cycleVars, worldVars>>

(* The select: whichever case is ready.  A notice stops the timer and drains *)
(* it, so a timer that has just fired does not start a cycle.                *)
Select ==
  /\ loop = "select"
  /\ \/ quitting /\ loop' = "ended" /\ timer' = Off /\ UNCHANGED changed
     \/ changed /\ changed' = FALSE /\ loop' = "read" /\ timer' = Off
     \/ timer.due /\ loop' = "cycle" /\ timer' = Off /\ UNCHANGED changed
  /\ UNCHANGED <<settingVars, upcoming, cycleVars, worldVars>>

-----------------------------------------------------------------------------
(* The settings handler: publish, then notify if the interval was named.     *)
PublishEdit(u) ==
  /\ editor[u] = "idle" /\ edits < MaxEdits /\ edits' = edits + 1
  /\ \/ /\ interval' \in Intervals /\ editor' = [editor EXCEPT ![u] = "notify"]
        /\ UNCHANGED <<watchlist, scanEnabled>>
     \/ /\ watchlist' \in SUBSET Listable /\ scanEnabled' \in BOOLEAN
        /\ UNCHANGED <<interval, editor>>
  /\ UNCHANGED <<changed, timer, upcoming, loop, cycleVars, worldVars>>

NotifyScheduleChanged(u) ==
  /\ editor[u] = "notify" /\ changed' = TRUE
  /\ editor' = [editor EXCEPT ![u] = "idle"]
  /\ UNCHANGED <<interval, watchlist, scanEnabled, edits, timer, upcoming, loop, cycleVars,
                 worldVars>>

(* Manual runs and closes take the locks, runs end, the gate shuts and       *)
(* opens, the engine stops.                                                  *)
WorldMoves ==
  /\ \/ /\ \E s \in Listable \ elsewhere :
             ~(loop = "run" /\ current = s) /\ elsewhere' = elsewhere \cup {s}
        /\ UNCHANGED <<active, gateShut, quitting>>
     \/ \E s \in elsewhere : elsewhere' = elsewhere \ {s} /\ UNCHANGED <<active, gateShut, quitting>>
     \/ \E s \in active : active' = active \ {s} /\ UNCHANGED <<elsewhere, gateShut, quitting>>
     \/ gateShut' = ~gateShut /\ UNCHANGED <<elsewhere, active, quitting>>
     \/ quitting' = TRUE /\ UNCHANGED <<elsewhere, active, gateShut>>
  /\ UNCHANGED <<settingVars, changed, timer, upcoming, loop, cycleVars>>

ScanNext ==
  \/ BeginCycle \/ CheckGate \/ TakeSymbol \/ RunSymbol \/ EndCycle
  \/ ReadInterval \/ ResetTimer \/ TimerFires \/ Select
  \/ \E u \in Editors : PublishEdit(u) \/ NotifyScheduleChanged(u)
  \/ WorldMoves

ScanSpec == ScanInit /\ [][ScanNext]_scanVars

-----------------------------------------------------------------------------
(* scanner.go:97: an edit of the interval takes effect in a running scanner. *)
(* A sleep of the wrong length is about to be cut short, however edits and   *)
(* their notices overtake the reading of the interval and one another.       *)
ScheduleCurrent ==
  loop = "select" /\ timer.set # interval =>
    changed \/ \E u \in Editors : editor[u] = "notify"
=============================================================================
