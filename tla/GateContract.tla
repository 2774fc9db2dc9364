---------------------------- MODULE GateContract ----------------------------
(* What the safety gate (runtime.SafetyState) promises to the components     *)
(* that consult it: it starts closed, any component may close it, and only a *)
(* reconciliation that ends well, with no freeze since it began, opens it.   *)

VARIABLES
  frozen,       \* no new position may be opened
  reconciling,  \* a reconciliation has begun and not completed
  overtaken     \* a freeze happened since that reconciliation began

gate == <<frozen, reconciling, overtaken>>

Shut == frozen = TRUE /\ reconciling = FALSE /\ overtaken = FALSE

Freeze ==
  /\ frozen' = TRUE
  /\ overtaken' = reconciling
  /\ UNCHANGED reconciling

Begin ==
  /\ ~reconciling
  /\ frozen' = TRUE
  /\ reconciling' = TRUE
  /\ overtaken' = FALSE

Complete(ok) ==
  /\ reconciling
  /\ reconciling' = FALSE
  /\ frozen' = (overtaken \/ ~ok)
  /\ overtaken' = FALSE

Operate == Freeze \/ Begin \/ \E ok \in BOOLEAN : Complete(ok)

GateSpec == Shut /\ [][Operate]_gate
=============================================================================
