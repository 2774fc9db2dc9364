-------------------------- MODULE SafetyGateProofs --------------------------
(* Proofs about SafetyGate for any number of reconciling goroutines and any  *)
(* number of freezes, by themselves and in the engine that starts and stops  *)
(* around them (EngineLifecycle).  OpenGateIsCurrent alone is not inductive: *)
(* that the report being completed belongs to the latest BeginReconcile      *)
(* rests on the engine's mutex, so Inv says who may be in StartupReconcile.  *)
EXTENDS EngineLifecycle, TLAPS

Inv ==
  /\ GateTypeOK
  /\ \A c \in Callers : inside[c] # "idle" <=> c \in reconcileMu
  /\ \A c, d \in Callers : c \in reconcileMu /\ d \in reconcileMu => c = d
  /\ reconcileGeneration <= freezeGeneration
  /\ reconcileActive <=> \E c \in Callers : inside[c] = "reading"
  /\ reconcileActive => frozen
  /\ ~frozen => freezeGeneration = reconcileGeneration
  /\ freezeGeneration # reconcileGeneration => frozen

(* The gate starts shut and unheld.                                          *)
LEMMA InitInv == GateInit => Inv
<1> SUFFICES ASSUME GateInit PROVE Inv
  OBVIOUS
<1>1. GateTypeOK
  BY DEF GateInit, GateTypeOK, Steps
<1>2. \A c \in Callers : inside[c] = "idle" /\ c \notin reconcileMu
  BY DEF GateInit
<1> QED BY <1>1, <1>2 DEF GateInit, Inv

(* Every method of the gate keeps the invariant.                              *)
LEMMA NextInv == Inv /\ [GateNext]_gateVars => Inv'
<1> SUFFICES ASSUME Inv, [GateNext]_gateVars PROVE Inv'
  OBVIOUS
<1> USE DEF Inv, GateTypeOK, Steps
<1>1. CASE Freeze
  BY <1>1 DEF Freeze
<1>2. ASSUME NEW c \in Callers, TryLock(c) PROVE Inv'
  <2>1. reconcileMu = {} /\ inside[c] = "idle"
    BY <1>2 DEF TryLock
  <2>2. \A d \in Callers : inside[d] = "idle"
    BY <2>1
  <2> QED BY <1>2, <2>1, <2>2 DEF TryLock
<1>3. ASSUME NEW c \in Callers, BeginReconcile(c) PROVE Inv'
  BY <1>3 DEF BeginReconcile
<1>4. ASSUME NEW c \in Callers, NEW clean \in BOOLEAN, CompleteReconcile(c, clean)
      PROVE Inv'
  <2>1. \A d \in Callers \ {c} : inside[d] = "idle"
    BY <1>4 DEF CompleteReconcile
  <2>2. /\ inside' = [inside EXCEPT ![c] = "idle"]
        /\ reconcileMu' = {}
        /\ reconcileActive' = FALSE
        /\ UNCHANGED <<freezeGeneration, reconcileGeneration>>
        /\ frozen' = IF freezeGeneration # reconcileGeneration THEN frozen ELSE ~clean
    BY <1>4 DEF CompleteReconcile
  <2> QED BY <2>1, <2>2
<1>5. CASE UNCHANGED gateVars
  BY <1>5 DEF gateVars
<1> QED BY <1>1, <1>2, <1>3, <1>4, <1>5 DEF GateNext

(* Every behaviour keeps the gate's variables well typed. *)
THEOREM TypeCorrect == GateSpec => []GateTypeOK
<1>1. Inv => GateTypeOK
  BY DEF Inv
<1> QED BY <1>1, InitInv, NextInv, PTL DEF GateSpec

(* Whenever the gate is open, no freeze has happened since the reconciliation *)
(* that opened it began.                                                      *)
THEOREM GateNeverStale == GateSpec => []OpenGateIsCurrent
<1>1. Inv => OpenGateIsCurrent
  BY DEF Inv, OpenGateIsCurrent
<1> QED BY <1>1, InitInv, NextInv, PTL DEF GateSpec

(* A freeze is a freeze of the contract: the generation it leaves behind     *)
(* differs from that of any reconciliation under way.                        *)
LEMMA FreezeNoticed == Inv /\ Freeze => Contract!Freeze
<1> SUFFICES ASSUME Inv, Freeze PROVE Contract!Freeze
  OBVIOUS
<1>1. /\ frozen' = TRUE
      /\ freezeGeneration' # reconcileGeneration'
      /\ reconcileActive' = reconcileActive
      /\ reconcileActive \in BOOLEAN
  BY DEF Freeze, Inv, GateTypeOK
<1> QED BY <1>1, Zenon DEF Contract!Freeze

(* Every step of the gate by itself is one of the contract's.                *)
LEMMA GateStepsOfContract ==
  ASSUME Inv, [GateNext]_gateVars
  PROVE  [Contract!Operate]_(Contract!gate)
<1> SUFFICES Contract!Operate \/ UNCHANGED Contract!gate
  OBVIOUS
<1>1. CASE Freeze
  BY <1>1, FreezeNoticed DEF Contract!Operate
<1>2. ASSUME NEW c \in Callers, TryLock(c) PROVE UNCHANGED Contract!gate
  BY <1>2 DEF TryLock, Contract!gate
<1>3. ASSUME NEW c \in Callers, BeginReconcile(c) PROVE Contract!Begin
  <2>1. ~reconcileActive
    BY <1>3 DEF BeginReconcile, Inv
  <2> QED BY <1>3, <2>1 DEF BeginReconcile, Contract!Begin
<1>4. ASSUME NEW c \in Callers, NEW clean \in BOOLEAN, CompleteReconcile(c, clean)
      PROVE  Contract!Complete(clean)
  <2>1. reconcileActive /\ frozen
    BY <1>4 DEF CompleteReconcile, Inv
  <2> QED BY <1>4, <2>1 DEF CompleteReconcile, Inv, GateTypeOK, Contract!Complete
<1>5. CASE UNCHANGED gateVars
  BY <1>5 DEF gateVars, Contract!gate
<1> QED BY <1>1, <1>2, <1>3, <1>4, <1>5 DEF GateNext, Contract!Operate

(* The generation counters and the engine's mutex implement the contract the *)
(* execution path relies on.                                                 *)
THEOREM GateKeepsContract == GateSpec => ContractKept
<1>1. GateInit => Contract!Shut
  BY DEF GateInit, Contract!Shut
<1>2. Inv /\ [GateNext]_gateVars => [Contract!Operate]_(Contract!gate)
  BY GateStepsOfContract
<1> QED BY <1>1, <1>2, InitInv, NextInv, PTL DEF GateSpec, ContractKept, Contract!GateSpec

-----------------------------------------------------------------------------
(* The engine.  To the gate its steps are the gate's own, or freezes.        *)

Overtake ==
  /\ frozen' = TRUE
  /\ freezeGeneration' = freezeGeneration + 1
  /\ UNCHANGED <<reconcileActive, reconcileGeneration, reconcileMu, inside>>

(* Outside StartupReconcile the engine touches the gate only to freeze it.   *)
LEMMA EngineAtGate ==
  ASSUME EngineNext
  PROVE  [GateNext]_gateVars \/ Overtake
<1>1. ASSUME NEW c \in Callers, EnterReconcile(c) PROVE [GateNext]_gateVars
  BY <1>1 DEF EnterReconcile, GateNext
<1>2. ASSUME NEW c \in Callers, ReadVenue(c) \/ FinishReconcile(c) PROVE GateNext
  BY <1>2 DEF ReadVenue, FinishReconcile, GateNext
<1>3. ASSUME NEW c \in Callers, CheckContext(c) PROVE Overtake \/ UNCHANGED gateVars
  BY <1>3 DEF CheckContext, FreezeGate, Overtake
<1>4. CASE Poll
  BY <1>4 DEF Poll, FreezeGate, Overtake
<1>5. CASE OthersFreeze
  BY <1>5 DEF OthersFreeze, GateNext
<1>6. CASE \/ \E s \in Starters : BeginStart(s)
           \/ \E c \in Callers : \/ AskReconcile(c) \/ AbortStart(c) \/ MarkStarted(c)
                                 \/ Spawn(c) \/ CloseStartDone(c)
           \/ LoopEnds \/ VenueMoves \/ Signal \/ StopEngine \/ StartIsDone
           \/ LoopsAreDone \/ ResetFlags \/ StopTimesOut
  BY <1>6 DEF BeginStart, AskReconcile, AbortStart, MarkStarted, Spawn, CloseStartDone,
     LoopEnds, VenueMoves, Signal, StopEngine, StartIsDone, LoopsAreDone, ResetFlags,
     StopTimesOut
<1> QED BY <1>1, <1>2, <1>3, <1>4, <1>5, <1>6 DEF EngineNext, CallerStep

(* What holds of the gate by itself holds of it in the engine.               *)
LEMMA EngineKeepsInv == Inv /\ [EngineNext]_engineVars => Inv'
<1> SUFFICES ASSUME Inv, [EngineNext]_engineVars PROVE Inv'
  OBVIOUS
<1>1. CASE EngineNext
  <2>1. CASE Overtake
    BY <2>1 DEF Overtake, Inv, GateTypeOK, Steps
  <2> QED BY <1>1, <2>1, EngineAtGate, NextInv
<1>2. CASE UNCHANGED engineVars
  BY <1>2, NextInv DEF engineVars
<1> QED BY <1>1, <1>2

(* Started, reconciled, watched and stopped in any order: the gate keeps the *)
(* contract the execution path relies on.                                    *)
THEOREM EngineKeepsContract == EngineSpec => ContractKept
<1>1. EngineInit => Inv /\ Contract!Shut
  BY InitInv DEF EngineInit, GateInit, Contract!Shut
<1>2. Inv /\ [EngineNext]_engineVars => [Contract!Operate]_(Contract!gate)
  <2> SUFFICES ASSUME Inv, [EngineNext]_engineVars
               PROVE  [Contract!Operate]_(Contract!gate)
    OBVIOUS
  <2>1. CASE UNCHANGED engineVars
    BY <2>1, GateStepsOfContract DEF engineVars
  <2>2. CASE Overtake
    <3>1. /\ frozen' = TRUE
          /\ freezeGeneration' # reconcileGeneration'
          /\ reconcileActive' = reconcileActive
          /\ reconcileActive \in BOOLEAN
      BY <2>2 DEF Overtake, Inv, GateTypeOK
    <3>2. Contract!Freeze
      BY <3>1, Zenon DEF Contract!Freeze
    <3> QED BY <3>2 DEF Contract!Operate
  <2> QED BY <2>1, <2>2, EngineAtGate, GateStepsOfContract
<1> QED BY <1>1, <1>2, EngineKeepsInv, PTL DEF EngineSpec, ContractKept, Contract!GateSpec

-----------------------------------------------------------------------------
(* Stopping.  A Start may launch loops only if it looked at its context      *)
(* before the signal; from then on it is the only one on its way, the flags  *)
(* still name it, and Stop waits for its channel.                            *)

OnItsWay == {"reconcile", "reconciling", "check", "launch", "spawn", "abort"}

MayLaunch(s) ==
  \/ pc[s] \in {"launch", "spawn"}
  \/ ~root /\ pc[s] \in {"reconcile", "reconciling", "check"}

LaunchInv(s) ==
  /\ MayLaunch(s) => /\ started \/ starting
                     /\ startDone = s
                     /\ \A r \in Starters \ {s} : pc[r] \notin OnItsWay
  /\ pc[s] = "spawn" => started
  /\ pc[s] \in {"launch", "spawn"} => stop \in {"no", "gaveUp"} \/ (stop = "start" /\ awaited = s)

StopInv ==
  /\ pc \in [Callers -> {"out", "reconcile", "reconciling", "check", "abort",
                         "launch", "spawn", "closing", "done"}]
  /\ inside \in [Callers -> Steps]
  /\ \A c \in Callers : inside[c] # "idle" => pc[c] = "reconciling"
  /\ \A c \in Callers \ Starters : pc[c] \notin {"check", "abort", "launch", "spawn"}
  /\ root \in BOOLEAN /\ started \in BOOLEAN
  /\ canceled = IF root THEN Starters ELSE {}
  /\ \A s \in Starters : ~root => pc[s] # "abort"
  /\ stop # "no" => root
  /\ stop = "no" /\ running # {} => started
  /\ stop \in {"reset", "quiet"} => running = {}
  /\ \A s \in Starters : LaunchInv(s)

(* The invariant holds before the first Start.                               *)
LEMMA StopStarts == EngineInit => StopInv
BY StartersAssumption DEF EngineInit, GateInit, Steps, StopInv, LaunchInv, MayLaunch

(* Starts, reconciliations, the signal and Stop keep it, in any order.       *)
LEMMA StopSteps == StopInv /\ [EngineNext]_engineVars => StopInv'
<1> SUFFICES ASSUME StopInv, [EngineNext]_engineVars PROVE StopInv'
  OBVIOUS
<1> USE StartersAssumption DEF StopInv, LaunchInv, MayLaunch, OnItsWay, Move, Steps,
        stopVars, loopVars, callVars, gateVars
<1>1. ASSUME NEW s \in Starters, BeginStart(s) PROVE StopInv'
  BY <1>1 DEF BeginStart
<1>2. ASSUME NEW c \in Callers, AskReconcile(c) PROVE StopInv'
  BY <1>2 DEF AskReconcile
<1>3. ASSUME NEW c \in Callers, EnterReconcile(c) PROVE StopInv'
  BY <1>3 DEF EnterReconcile, TryLock
<1>4. ASSUME NEW c \in Callers, ReadVenue(c) PROVE StopInv'
  BY <1>4 DEF ReadVenue, BeginReconcile
<1>5. ASSUME NEW c \in Callers, FinishReconcile(c) PROVE StopInv'
  BY <1>5 DEF FinishReconcile, CompleteReconcile
<1>6. ASSUME NEW c \in Callers, CheckContext(c) PROVE StopInv'
  BY <1>6 DEF CheckContext, FreezeGate
<1>7. ASSUME NEW c \in Callers, AbortStart(c) PROVE StopInv'
  BY <1>7 DEF AbortStart
<1>8. ASSUME NEW c \in Callers, MarkStarted(c) PROVE StopInv'
  BY <1>8 DEF MarkStarted
<1>9. ASSUME NEW c \in Callers, Spawn(c) PROVE StopInv'
  BY <1>9 DEF Spawn
<1>10. ASSUME NEW c \in Callers, CloseStartDone(c) PROVE StopInv'
  BY <1>10 DEF CloseStartDone
<1>11. CASE LoopEnds
  BY <1>11 DEF LoopEnds
<1>12. CASE Poll \/ VenueMoves \/ OthersFreeze
  BY <1>12 DEF Poll, VenueMoves, OthersFreeze, Freeze, FreezeGate
<1>13. CASE Signal
  BY <1>13 DEF Signal
<1>14. CASE StopEngine
  BY <1>14 DEF StopEngine
<1>15. CASE StartIsDone
  BY <1>15 DEF StartIsDone
<1>16. CASE LoopsAreDone \/ StopTimesOut
  BY <1>16 DEF LoopsAreDone, StopTimesOut
<1>18. CASE ResetFlags
  BY <1>18 DEF ResetFlags
<1>17. CASE UNCHANGED engineVars
  BY <1>17 DEF engineVars
<1> QED BY <1>1, <1>2, <1>3, <1>4, <1>5, <1>6, <1>7, <1>8, <1>9, <1>10, <1>11, <1>12,
           <1>13, <1>14, <1>15, <1>16, <1>17, <1>18 DEF EngineNext, CallerStep

(* For any number of Starts: once Stop has answered nil there is no loop,    *)
(* and none is launched later.                                               *)
THEOREM StopMeansQuiet == EngineSpec => []QuietAfterStop
<1>1. StopInv => QuietAfterStop
  BY DEF StopInv, QuietAfterStop
<1> QED BY StopStarts, StopSteps, <1>1, PTL DEF EngineSpec
=============================================================================
