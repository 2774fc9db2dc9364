---------------------------- MODULE OrderMachine ----------------------------
(* The order state machine of internal/orders/machine.go: which status an   *)
(* order may move to from which.  Everything that records an order (the     *)
(* journal, the execution path, reconciliation) goes through this table.    *)

Statuses ==
  {"new", "preflight", "submitting", "acknowledged", "partially_filled",
   "filled", "protective_placed", "protective_failed", "flattening",
   "closed", "canceled", "rejected", "failed", "unknown"}

Terminal == {"closed", "canceled", "rejected", "failed"}

(* Keyed by the current status; a status with no entry in the Go map has no  *)
(* successor.                                                                *)
Transitions ==
  [s \in Statuses |->
     CASE s = "new" -> {"preflight", "submitting", "canceled", "rejected"}
       [] s = "preflight" -> {"submitting", "rejected", "canceled"}
       [] s = "submitting" ->
            {"acknowledged", "partially_filled", "filled", "canceled",
             "rejected", "failed", "unknown"}
       [] s = "acknowledged" ->
            {"partially_filled", "filled", "canceled", "failed", "unknown"}
       [] s = "partially_filled" ->
            {"partially_filled", "filled", "canceled", "unknown",
             "protective_placed", "protective_failed", "flattening"}
       [] s = "filled" ->
            {"protective_placed", "protective_failed", "flattening", "closed"}
       [] s = "protective_placed" -> {"flattening", "closed"}
       [] s = "protective_failed" ->
            {"protective_placed", "flattening", "closed"}
       [] s = "flattening" -> {"closed", "failed", "unknown"}
       [] s = "unknown" ->
            {"acknowledged", "partially_filled", "filled", "canceled",
             "rejected", "failed", "closed"}
       [] OTHER -> {}]

CanTransition(from, to) == to \in Transitions[from]

IsTerminal(s) == s \in Terminal

ValidTransition(from, to) == ~IsTerminal(from) /\ CanTransition(from, to)
=============================================================================
