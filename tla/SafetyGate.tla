----------------------------- MODULE SafetyGate -----------------------------
(* runtime.SafetyState and the reconciliation that drives it                 *)
(* (Engine.StartupReconcile).  Every method of SafetyState holds its mutex,  *)
(* so each is one action; StartupReconcile holds only the engine's           *)
(* reconcileMu, so freezes land between its two calls.  Callers are the      *)
(* goroutines that reconcile: engine start, EnsureRuntime and                *)
(* POST /api/reconcile.                                                      *)
EXTENDS Naturals

CONSTANTS
  Callers,     \* goroutines that may call StartupReconcile
  MaxFreezes   \* bound: how often the model freezes the gate

ASSUME MaxFreezesAssumption == MaxFreezes \in Nat

VARIABLES
  frozen, reconcileActive, freezeGeneration, reconcileGeneration,
  reconcileMu,   \* the caller holding Engine.reconcileMu, {} when free
  inside           \* where each caller is in StartupReconcile

gateVars == <<frozen, reconcileActive, freezeGeneration, reconcileGeneration,
          reconcileMu, inside>>

Steps == {"idle", "locked", "reading"}

GateTypeOK ==
  /\ frozen \in BOOLEAN
  /\ reconcileActive \in BOOLEAN
  /\ freezeGeneration \in Nat
  /\ reconcileGeneration \in Nat
  /\ reconcileMu \in SUBSET Callers
  /\ inside \in [Callers -> Steps]

GateInit ==
  /\ frozen = TRUE
  /\ reconcileActive = FALSE
  /\ freezeGeneration = 0
  /\ reconcileGeneration = 0
  /\ reconcileMu = {}
  /\ inside = [c \in Callers |-> "idle"]

(* Monitor, execution path, closes and the engine itself freeze at any time. *)
Freeze ==
  /\ freezeGeneration < MaxFreezes
  /\ frozen' = TRUE
  /\ freezeGeneration' = freezeGeneration + 1
  /\ UNCHANGED <<reconcileActive, reconcileGeneration, reconcileMu, inside>>

(* reconcileMu.TryLock; a caller that fails to get it returns at once with   *)
(* ErrReconcileInProgress and changes nothing.                               *)
TryLock(c) ==
  /\ inside[c] = "idle"
  /\ reconcileMu = {}
  /\ reconcileMu' = {c}
  /\ inside' = [inside EXCEPT ![c] = "locked"]
  /\ UNCHANGED <<frozen, reconcileActive, freezeGeneration, reconcileGeneration>>

BeginReconcile(c) ==
  /\ inside[c] = "locked"
  /\ frozen' = TRUE
  /\ reconcileActive' = TRUE
  /\ reconcileGeneration' = freezeGeneration
  /\ inside' = [inside EXCEPT ![c] = "reading"]
  /\ UNCHANGED <<freezeGeneration, reconcileMu>>

(* Variant: the report decides alone. *)
CompleteUnconditionally(c, clean) ==
  /\ inside[c] = "reading"
  /\ reconcileActive' = FALSE
  /\ frozen' = ~clean
  /\ reconcileMu' = {}
  /\ inside' = [inside EXCEPT ![c] = "idle"]
  /\ UNCHANGED <<freezeGeneration, reconcileGeneration>>

(* Variant: a caller overtaken by a freeze waits until it is not.            *)
CompleteWhenCurrent(c, clean) ==
  /\ inside[c] = "reading"
  /\ freezeGeneration = reconcileGeneration
  /\ reconcileActive' = FALSE
  /\ frozen' = ~clean
  /\ reconcileMu' = {}
  /\ inside' = [inside EXCEPT ![c] = "idle"]
  /\ UNCHANGED <<freezeGeneration, reconcileGeneration>>

(* The reconciler came back: with an error, with a report that is not OK, or *)
(* with a clean one.  A newer freeze wins over all three.                    *)
CompleteReconcile(c, clean) ==
  /\ inside[c] = "reading"
  /\ reconcileActive' = FALSE
  /\ frozen' = IF freezeGeneration # reconcileGeneration THEN frozen ELSE ~clean
  /\ reconcileMu' = {}
  /\ inside' = [inside EXCEPT ![c] = "idle"]
  /\ UNCHANGED <<freezeGeneration, reconcileGeneration>>

GateNext ==
  \/ Freeze
  \/ \E c \in Callers :
       \/ TryLock(c)
       \/ BeginReconcile(c)
       \/ \E clean \in BOOLEAN : CompleteReconcile(c, clean)

GateSpec == GateInit /\ [][GateNext]_gateVars

GateFairSpec ==
  /\ GateSpec
  /\ \A c \in Callers :
       /\ WF_gateVars(BeginReconcile(c))
       /\ WF_gateVars(\E clean \in BOOLEAN : CompleteReconcile(c, clean))

-----------------------------------------------------------------------------
(* An open gate has seen no freeze since the reconciliation that opened it   *)
(* began (docs/RUNTIME.md:18): a stale report never overrides a newer freeze *)
(* even when several goroutines reconcile.                                   *)
OpenGateIsCurrent ==
  ~frozen => /\ freezeGeneration = reconcileGeneration
             /\ ~reconcileActive

(* The gate keeps the contract the execution path is written against.  The   *)
(* generations appear there only as "a freeze has overtaken it".             *)
Contract == INSTANCE GateContract WITH
              reconciling <- reconcileActive,
              overtaken   <- /\ reconcileActive
                             /\ freezeGeneration # reconcileGeneration

ContractKept == Contract!GateSpec

(* A reconciliation that got the lock ends, and leaves it free: one caller   *)
(* never locks the others out for good.                                      *)
ReconcileEnds == \A c \in Callers : inside[c] # "idle" ~> inside[c] = "idle"
=============================================================================
