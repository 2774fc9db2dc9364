--------------------------- MODULE PlaceContract ----------------------------
(* What the execution path takes for granted of venue.Place (service.go:719, *)
(* reduce_only.go:42): a refusal means no order exists or ever will, a       *)
(* result means the order is final and just so, and only a reply marked      *)
(* ErrOrderStateUnknown leaves the order open.                               *)

VARIABLES
  order,  \* the exchange's order: "absent", "live", "filled", "partial", "dead"
  reply   \* what Place returned: "none" yet, "refused", "unknown" or a result

Begin == order = "absent" /\ reply = "none"

(* The exchange takes the order, at the latest after Place gave it up as     *)
(* unknown: a request can outlive the client's wait for it.                  *)
Accept ==
  /\ order = "absent" /\ reply \in {"none", "unknown"}
  /\ order' = "live"
  /\ UNCHANGED reply

Settle ==
  /\ order = "live"
  /\ order' \in {"filled", "partial", "dead"}
  /\ UNCHANGED reply

Refuse  == order = "absent" /\ reply' = "refused"
GiveUp  == reply' = "unknown"
Result  == order \in {"filled", "partial", "dead"} /\ reply' = order

Return == reply = "none" /\ (Refuse \/ GiveUp \/ Result) /\ UNCHANGED order

PlaceSpec == Begin /\ [][Accept \/ Settle \/ Return]_<<order, reply>>
=============================================================================
