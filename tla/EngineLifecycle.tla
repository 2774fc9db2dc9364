--------------------------- MODULE EngineLifecycle ---------------------------
(* runtime.Engine around the gate: Start called at boot and again by every   *)
(* settings edit that wants automation (EnsureRuntime), POST /api/reconcile  *)
(* beside it, the three loops, the monitor that freezes the gate over an     *)
(* unprotected position, and the Close that a signal brings.                 *)
(*                                                                           *)
(* External: the venue is the Boolean gap, a position without a stop.        *)
EXTENDS SafetyGate

CONSTANTS
  Starters,   \* calls of Engine.Start; the other Callers only reconcile
  NoStart     \* no call of Start

ASSUME StartersAssumption == Starters \subseteq Callers /\ NoStart \notin Callers

VARIABLES
  pc,         \* where each caller is
  starting, started,
  cancel,     \* the Start whose context engine.cancel ends
  startDone,  \* the Start whose channel engine.startDone is
  root,       \* the process has been signalled: rootContext is done
  canceled,   \* Starts whose run context is done
  chosen,     \* loops that a Start has decided to launch
  running,    \* <<loop, Start>> of the goroutines in engine.wait
  stop,       \* where Stop is
  awaited,    \* the Start whose channel Stop waits for
  gap,        \* the exchange holds a position without a stop
  unsafe      \* PositionMonitor.unsafeCounts of it, up to the two it tells apart

callVars == <<pc, starting, started, cancel, startDone>>
loopVars == <<chosen, running>>
stopVars == <<root, canceled, stop, awaited>>
watchVars == <<gap, unsafe>>
engineVars == <<gateVars, callVars, loopVars, stopVars, watchVars>>

Loops == {"scanner", "monitor", "exits"}

EngineTypeOK ==
  /\ GateTypeOK
  /\ pc \in [Callers -> {"out", "reconcile", "reconciling", "check", "abort",
                         "launch", "spawn", "closing", "done"}]
  /\ starting \in BOOLEAN /\ started \in BOOLEAN
  /\ cancel \in Starters \cup {NoStart} /\ startDone \in Starters \cup {NoStart}
  /\ root \in BOOLEAN /\ canceled \subseteq Starters
  /\ chosen \in [Starters -> SUBSET Loops] /\ running \subseteq Loops \X Starters
  /\ stop \in {"no", "start", "loops", "reset", "quiet", "gaveUp"}
  /\ awaited \in Starters \cup {NoStart}
  /\ gap \in BOOLEAN /\ unsafe \in 0..2

EngineInit ==
  /\ GateInit
  /\ pc = [c \in Callers |-> "out"]
  /\ starting = FALSE /\ started = FALSE
  /\ cancel = NoStart /\ startDone = NoStart
  /\ root = FALSE /\ canceled = {}
  /\ chosen = [s \in Starters |-> {}] /\ running = {}
  /\ stop = "no" /\ awaited = NoStart
  /\ gap = FALSE /\ unsafe = 0

Move(c, place) == pc' = [pc EXCEPT ![c] = place]

-----------------------------------------------------------------------------
(* Start and EnsureRuntime: a second call is told the runtime is there.      *)
BeginStart(s) ==
  /\ pc[s] = "out"
  /\ IF started \/ starting
       THEN Move(s, "done") /\ UNCHANGED <<starting, cancel, startDone>>
       ELSE /\ starting' = TRUE /\ cancel' = s /\ startDone' = s
            /\ Move(s, "reconcile")
  /\ UNCHANGED <<started, gateVars, loopVars, stopVars, watchVars>>

AskReconcile(c) ==
  /\ c \notin Starters /\ pc[c] = "out"
  /\ Move(c, "reconcile")
  /\ UNCHANGED <<starting, started, cancel, startDone, gateVars, loopVars, stopVars, watchVars>>

(* ErrReconcileInProgress: the answer for a request; a Start goes on with    *)
(* it as with any failed reconciliation, allowDegradedStart being set.       *)
EnterReconcile(c) ==
  /\ pc[c] = "reconcile"
  /\ IF reconcileMu = {}
       THEN TryLock(c) /\ Move(c, "reconciling")
       ELSE UNCHANGED gateVars /\ Move(c, IF c \in Starters THEN "check" ELSE "done")
  /\ UNCHANGED <<starting, started, cancel, startDone, loopVars, stopVars, watchVars>>

ReadVenue(c) ==
  /\ BeginReconcile(c)
  /\ UNCHANGED <<callVars, loopVars, stopVars, watchVars>>

FinishReconcile(c) ==
  /\ \E clean \in BOOLEAN : CompleteReconcile(c, clean)
  /\ Move(c, IF c \in Starters THEN "check" ELSE "done")
  /\ UNCHANGED <<starting, started, cancel, startDone, loopVars, stopVars, watchVars>>

(* A freeze of a gate that is shut, with no reconciliation it could overtake,*)
(* only moves a counter nobody compares any more: it is left out.            *)
FreezeGate ==
  IF frozen /\ (reconcileActive => freezeGeneration # reconcileGeneration)
    THEN UNCHANGED gateVars
    ELSE /\ frozen' = TRUE
         /\ freezeGeneration' = freezeGeneration + 1
         /\ UNCHANGED <<reconcileActive, reconcileGeneration, reconcileMu, inside>>

(* runContext.Err; then the loops, the scanner only behind an open gate.     *)
CheckContext(s) ==
  /\ s \in Starters /\ pc[s] = "check"
  /\ IF s \in canceled
       THEN FreezeGate /\ Move(s, "abort") /\ UNCHANGED chosen
       ELSE /\ chosen' = [chosen EXCEPT ![s] =
                            {"monitor", "exits"} \cup IF frozen THEN {} ELSE {"scanner"}]
            /\ Move(s, "launch") /\ UNCHANGED gateVars
  /\ UNCHANGED <<starting, started, cancel, startDone, running, stopVars, watchVars>>

AbortStart(s) ==
  /\ pc[s] = "abort"
  /\ starting' = FALSE /\ cancel' = NoStart
  /\ Move(s, "closing")
  /\ UNCHANGED <<started, startDone, gateVars, loopVars, stopVars, watchVars>>

MarkStarted(s) ==
  /\ pc[s] = "launch"
  /\ started' = TRUE /\ starting' = FALSE
  /\ Move(s, "spawn")
  /\ UNCHANGED <<cancel, startDone, gateVars, loopVars, stopVars, watchVars>>

Spawn(s) ==
  /\ pc[s] = "spawn"
  /\ running' = running \cup (chosen[s] \X {s})
  /\ Move(s, "closing")
  /\ UNCHANGED <<starting, started, cancel, startDone, chosen, gateVars, stopVars, watchVars>>

CloseStartDone(s) ==
  /\ pc[s] = "closing"
  /\ Move(s, "done")
  /\ UNCHANGED <<starting, started, cancel, startDone, gateVars, loopVars, stopVars, watchVars>>

-----------------------------------------------------------------------------
(* A loop returns only because its context is done.                          *)
LoopEnds ==
  /\ \E w \in running : w[2] \in canceled /\ running' = running \ {w}
  /\ UNCHANGED <<callVars, chosen, gateVars, stopVars, watchVars>>

Monitored == \E s \in Starters : <<"monitor", s>> \in running

(* Variant: only the look that makes the count two freezes.                  *)
PollFreezesOnce ==
  /\ Monitored
  /\ unsafe' = IF ~gap THEN 0 ELSE IF unsafe = 2 THEN 2 ELSE unsafe + 1
  /\ IF unsafe = 1 /\ gap THEN FreezeGate ELSE UNCHANGED gateVars
  /\ UNCHANGED <<callVars, loopVars, stopVars, gap>>

(* CheckOnce and updateProtectionSafety: the second look in a row that finds *)
(* the position without a stop freezes, and so does every one after it.      *)
Poll ==
  /\ Monitored
  /\ unsafe' = IF ~gap THEN 0 ELSE IF unsafe = 2 THEN 2 ELSE unsafe + 1
  /\ IF unsafe' = 2 THEN FreezeGate ELSE UNCHANGED gateVars
  /\ UNCHANGED <<callVars, loopVars, stopVars, gap>>

(* External: a stop is lost or placed, a position opened or closed.          *)
VenueMoves ==
  /\ gap' = ~gap
  /\ UNCHANGED <<unsafe, callVars, loopVars, stopVars, gateVars>>

(* Runs and closes freeze as well.                                           *)
OthersFreeze ==
  /\ Freeze
  /\ UNCHANGED <<callVars, loopVars, stopVars, watchVars>>

-----------------------------------------------------------------------------
(* main: the signal ends rootContext and with it every context made of it.   *)
Signal ==
  /\ ~root
  /\ root' = TRUE /\ canceled' = Starters
  /\ UNCHANGED <<stop, awaited, callVars, loopVars, gateVars, watchVars>>

(* Variant: Stop only waits for loops that are already there.                *)
StopIgnoresStart ==
  /\ root /\ stop = "no"
  /\ cancel' = NoStart
  /\ stop' = IF started \/ starting THEN "loops" ELSE "quiet"
  /\ awaited' = NoStart
  /\ UNCHANGED <<pc, starting, started, startDone, root, canceled, loopVars, gateVars, watchVars>>

(* Application.Close once the signal is seen: Engine.Stop.                   *)
StopEngine ==
  /\ root /\ stop = "no"
  /\ cancel' = NoStart
  /\ IF started \/ starting
       THEN stop' = "start" /\ awaited' = startDone
       ELSE stop' = "quiet" /\ UNCHANGED awaited
  /\ UNCHANGED <<pc, starting, started, startDone, root, canceled, loopVars, gateVars, watchVars>>

StartIsDone ==
  /\ stop = "start" /\ pc[awaited] = "done"
  /\ stop' = "loops"
  /\ UNCHANGED <<root, canceled, awaited, callVars, loopVars, gateVars, watchVars>>

LoopsAreDone ==
  /\ stop = "loops" /\ running = {}
  /\ stop' = "reset"
  /\ UNCHANGED <<root, canceled, awaited, callVars, loopVars, gateVars, watchVars>>

ResetFlags ==
  /\ stop = "reset"
  /\ started' = FALSE /\ starting' = FALSE
  /\ stop' = "quiet"
  /\ UNCHANGED <<pc, cancel, startDone, root, canceled, awaited, loopVars, gateVars, watchVars>>

StopTimesOut ==
  /\ stop \in {"start", "loops"}
  /\ stop' = "gaveUp"
  /\ UNCHANGED <<root, canceled, awaited, callVars, loopVars, gateVars, watchVars>>

-----------------------------------------------------------------------------
CallerStep(c) ==
  \/ EnterReconcile(c) \/ ReadVenue(c) \/ FinishReconcile(c)
  \/ CheckContext(c) \/ AbortStart(c) \/ MarkStarted(c) \/ Spawn(c) \/ CloseStartDone(c)

EngineNext ==
  \/ \E s \in Starters : BeginStart(s)
  \/ \E c \in Callers : AskReconcile(c) \/ CallerStep(c)
  \/ LoopEnds \/ Poll \/ VenueMoves \/ OthersFreeze
  \/ Signal \/ StopEngine \/ StartIsDone \/ LoopsAreDone \/ ResetFlags \/ StopTimesOut

EngineSpec == EngineInit /\ [][EngineNext]_engineVars

(* Goroutines are scheduled and venue calls return or fail within their      *)
(* deadlines; the monitor's timer fires and some of its polls get an answer. *)
(* Neither signals, requests, freezes nor the venue's moves are promised.    *)
EngineFairSpec ==
  /\ EngineSpec
  /\ \A c \in Callers : WF_engineVars(CallerStep(c))
  /\ WF_engineVars(Poll)

-----------------------------------------------------------------------------
(* Once Stop has answered nil, the loops are gone and no Start that was on   *)
(* its way launches any: what Close releases next (orchestrator, event bus,  *)
(* repository) has no user left.                                             *)
QuietAfterStop == stop = "quiet" => running = {}

(* A position that stays without a stop shuts the gate, whatever the         *)
(* reconciliations that run beside the monitor report and however the        *)
(* runtime was started, unless the process is ending.                        *)
GapFreezes == (started /\ gap) ~> (frozen \/ ~gap \/ root)
=============================================================================
