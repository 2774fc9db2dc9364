------------------------------ MODULE MCEngine ------------------------------
(* The engine with its gate and monitor, and beside it the scan loop, the    *)
(* run history and the dashboard's cache, which share no state with it: part *)
(* names the one that moves.                                                 *)
EXTENDS EngineLifecycle, RunHistory, AccountCache, ScanLoop, TLC

VARIABLE part

RunSymbols == "r1" :> "BTC" @@ "r2" :> "ETH"

runtimeVars == <<part, engineVars, historyVars, cacheVars, scanVars>>

RuntimeInit ==
  /\ part \in {"engine", "history", "cache", "scan"}
  /\ EngineInit /\ CacheInit
  /\ HistoryInit /\ (part # "history" => store = "memory")
  /\ ScanInit /\ (part # "scan" => interval = 1)

EngineMoves ==
  /\ part = "engine" /\ EngineNext
  /\ UNCHANGED <<part, historyVars, cacheVars, scanVars>>

HistoryMoves ==
  /\ part = "history" /\ HistoryNext
  /\ UNCHANGED <<part, engineVars, cacheVars, scanVars>>

CacheMoves ==
  /\ part = "cache" /\ CacheNext
  /\ UNCHANGED <<part, engineVars, historyVars, scanVars>>

ScanMoves ==
  /\ part = "scan" /\ ScanNext
  /\ UNCHANGED <<part, engineVars, historyVars, cacheVars>>

RuntimeNext == EngineMoves \/ HistoryMoves \/ CacheMoves \/ ScanMoves

(* The fairness of EngineFairSpec, for the behaviours in which the engine    *)
(* moves.                                                                    *)
RuntimeFairSpec ==
  /\ RuntimeInit /\ [][RuntimeNext]_runtimeVars
  /\ \A c \in Callers : WF_engineVars(part = "engine" /\ CallerStep(c))
  /\ WF_engineVars(part = "engine" /\ Poll)
=============================================================================
