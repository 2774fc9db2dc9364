--------------------------- MODULE MCOrderJournal ---------------------------
(* OrderJournal with the events its callers really submit: service.run,      *)
(* remediateProtection, ExecuteReduceOnly, CompleteReduceOnly and            *)
(* reconcileOrderTransition.                                                 *)
EXTENDS OrderJournal, TLC

Ev(id, s) == [id |-> id, status |-> s]

MCRequests ==
  {Ev("open", "new"), Ev("submit", "submitting"), Ev("result", "filled"),
   Ev("fail", "failed"), Ev("fail", "unknown"), Ev("closed", "closed"),
   Ev("reconcile:filled", "filled")}

(* One order filled by its run and, the run's answer lost, settled again by  *)
(* reconciliation: the calls of service.run and ReconcileOrders.             *)
SettlingRequests ==
  {Ev("open", "new"), Ev("submit", "submitting"), Ev("result", "filled"),
   Ev("reconcile:filled", "filled")}

OrderSymmetry == Permutations(ClientIds)
=============================================================================
