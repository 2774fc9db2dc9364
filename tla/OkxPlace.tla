------------------------------ MODULE OkxPlace ------------------------------
(* One order through the OKX adapter (venue/cex_okx_trade.go): placeOKX, the *)
(* recovery of an order whose answer was lost, the polling and cancellation  *)
(* that end it, and ReconcileOrder's later look-up.  The exchange works on   *)
(* the order all the while, and any request may fail or lose its answer.     *)
(* Sizing, prices, leverage and the list of protective orders are left out.  *)
EXTENDS Naturals

CONSTANTS
  MaxPolls,   \* okxOrderPollAttempts
  Windows     \* the windows (below) that the network may hit

(* "recovery_read": an order found again by its client id cannot be read     *)
(* "undecodable":   the answer to the order request is not valid JSON        *)
ASSUME PollsAssumption == MaxPolls \in Nat \ {0}
ASSUME WindowsAssumption == Windows \subseteq {"recovery_read", "undecodable"}

VARIABLES
  order,    \* at the exchange: "absent", "sent", "live", "filled", "canceled"
  fill,     \* how much of it: "none", "some", "all"
  posts,    \* history: order requests sent
  caller,   \* "place" or "reconcile": whose call is running, or ran last
  at,     \* where it is
  route,    \* how the order's exchange id became known: "ack" or "found"
  polls,    \* reads done in the current polling loop
  reply,    \* what Place returned
  report    \* what the latest ReconcileOrder returned

exchange == <<order, fill>>
okxVars == <<exchange, posts, caller, at, route, polls, reply, report>>

OkxTypeOK ==
  /\ order \in {"absent", "sent", "live", "filled", "canceled"}
  /\ fill \in {"none", "some", "all"}
  /\ posts \in Nat
  /\ caller \in {"place", "reconcile"}
  /\ at \in {"post", "recover", "poll", "cancel", "confirm", "returned"}
  /\ route \in {"ack", "found"}
  /\ polls \in 0..MaxPolls
  /\ reply \in {"none", "refused", "unknown", "filled", "partial", "dead"}
  /\ report \in {"none", "error", "absent", "acknowledged", "partially_filled",
                 "filled", "canceled"}

OkxInit ==
  /\ order = "absent" /\ fill = "none"
  /\ posts = 0
  /\ caller = "place" /\ at = "post" /\ route = "ack" /\ polls = 0
  /\ reply = "none" /\ report = "none"

-----------------------------------------------------------------------------
(* The exchange *)

Arrive ==
  /\ order = "sent"
  /\ order' = "live"
  /\ UNCHANGED <<fill, posts, caller, at, route, polls, reply, report>>

Match ==
  /\ order = "live"
  /\ \/ fill = "none" /\ fill' = "some" /\ order' = order
     \/ fill' = "all" /\ order' = "filled"
  /\ UNCHANGED <<posts, caller, at, route, polls, reply, report>>

(* The exchange drops what is left of the order ("canceled", "mmp_canceled").*)
Drop ==
  /\ order = "live"
  /\ order' = "canceled"
  /\ UNCHANGED <<fill, posts, caller, at, route, polls, reply, report>>

-----------------------------------------------------------------------------
(* placeOKX *)

Return(result) == at' = "returned" /\ reply' = result /\ UNCHANGED report
Report(result) == at' = "returned" /\ report' = result /\ UNCHANGED reply

(* A failed precondition, a look-up before the order, or the mutation guard. *)
Decline ==
  /\ at = "post"
  /\ Return("refused")
  /\ UNCHANGED <<exchange, posts, caller, route, polls>>

(* The exchange refuses: an error code that is not retryable, or an sCode.   *)
(* So does, to isAmbiguousOKXSubmission, a 2xx answer that does not decode.  *)
PostRefused ==
  /\ at = "post"
  /\ posts' = posts + 1
  /\ order' \in {"absent"} \cup (IF "undecodable" \in Windows THEN {"live"} ELSE {})
  /\ Return("refused")
  /\ UNCHANGED <<fill, caller, route, polls>>

PostAcknowledged ==
  /\ at = "post"
  /\ posts' = posts + 1
  /\ order' = "live"
  /\ at' = "poll" /\ route' = "ack" /\ polls' = 0
  /\ UNCHANGED <<fill, caller, reply, report>>

(* Variant: an ambiguous request is sent again. *)
PostAgain ==
  /\ at = "post"
  /\ posts' = posts + 1
  /\ order' \in {"absent", "sent", "live"}
  /\ UNCHANGED <<fill, caller, at, route, polls, reply, report>>

(* A transport error, a 5xx or a rate limit, or an acknowledgement without   *)
(* an order id: the exchange may have the order, get it yet, or never.       *)
PostAmbiguous ==
  /\ at = "post"
  /\ posts' = posts + 1
  /\ order' \in {"absent", "sent", "live"}
  /\ at' = "recover"
  /\ UNCHANGED <<fill, caller, route, polls, reply, report>>

-----------------------------------------------------------------------------
(* recoverOKXOrder and waitOKXOrder, shared by Place and ReconcileOrder *)

(* The look-up by client id fails or finds nothing, be it only for now. *)
NotRecovered ==
  /\ at = "recover"
  /\ IF caller = "place"
       THEN Return("unknown")
       ELSE \E result \in {"error", "absent"} : Report(result)
  /\ UNCHANGED <<exchange, posts, caller, route, polls>>

Recovered ==
  /\ at = "recover"
  /\ order \notin {"absent", "sent"}
  /\ at' = "poll" /\ route' = "found" /\ polls' = 0
  /\ UNCHANGED <<exchange, posts, caller, reply, report>>

Final == order \in {"filled", "canceled"}

(* Variant: a cancellation hides what was filled before it. *)
OutcomeByState == IF order = "filled" THEN "filled" ELSE "dead"

(* okxExecutionResult of a final order: canceled with a fill is a partial    *)
(* fill to both callers.                                                     *)
Outcome ==
  IF order = "filled" THEN "filled" ELSE IF fill = "none" THEN "dead" ELSE "partial"

ReportedAs(outcome) ==
  CASE outcome = "dead" -> "canceled"
    [] outcome = "partial" -> "partially_filled"
    [] OTHER -> "filled"

Conclude ==
  IF caller = "place" THEN Return(Outcome) ELSE Report(ReportedAs(Outcome))

(* A read that fails, or the settlement deadline.  placeOKX marks it unknown *)
(* after an acknowledgement; after a recovery the error goes out as it came. *)
PollFails ==
  /\ at = "poll"
  /\ caller = "place" /\ route = "found" => "recovery_read" \in Windows
  /\ IF caller = "reconcile"
       THEN Report("error")
       ELSE Return(IF route = "ack" THEN "unknown" ELSE "refused")
  /\ UNCHANGED <<exchange, posts, caller, route, polls>>

PollFinal ==
  /\ at = "poll" /\ Final
  /\ Conclude
  /\ UNCHANGED <<exchange, posts, caller, route, polls>>

(* Variant: reads are not counted. *)
PollForever ==
  /\ at = "poll" /\ ~Final
  /\ UNCHANGED okxVars

(* The order still works: read again; after the last read cancel it, or, for *)
(* a reconciliation, leave it and report what it is.                         *)
PollLive ==
  /\ at = "poll" /\ ~Final
  /\ IF polls + 1 < MaxPolls
       THEN polls' = polls + 1 /\ UNCHANGED <<at, reply, report>>
       ELSE /\ polls' = 0
            /\ IF caller = "place"
                 THEN at' = "cancel" /\ UNCHANGED <<reply, report>>
                 ELSE Report(IF fill = "none" THEN "acknowledged"
                                              ELSE "partially_filled")
  /\ UNCHANGED <<exchange, posts, caller, route>>

(* Variant: the cancellation's acknowledgement is believed. *)
CancelTrusted ==
  /\ at = "cancel"
  /\ order' \in (IF order = "live" THEN {"live", "canceled"} ELSE {order})
  /\ Return("dead")
  /\ UNCHANGED <<fill, posts, caller, route, polls>>

(* The cancellation takes effect, comes too late or gets lost; its answer is *)
(* not trusted either way.                                                   *)
Cancel ==
  /\ at = "cancel"
  /\ order' \in (IF order = "live" THEN {"live", "canceled"} ELSE {order})
  /\ at' = "confirm"
  /\ UNCHANGED <<fill, posts, caller, route, polls, reply, report>>

ConfirmFails ==
  /\ at = "confirm"
  /\ Return("unknown")
  /\ UNCHANGED <<exchange, posts, caller, route, polls>>

ConfirmFinal ==
  /\ at = "confirm" /\ Final
  /\ Conclude
  /\ UNCHANGED <<exchange, posts, caller, route, polls>>

ConfirmLive ==
  /\ at = "confirm" /\ ~Final
  /\ IF polls + 1 < MaxPolls
       THEN polls' = polls + 1 /\ UNCHANGED <<at, reply, report>>
       ELSE Return("unknown") /\ UNCHANGED polls
  /\ UNCHANGED <<exchange, posts, caller, route>>

-----------------------------------------------------------------------------
(* ReconcileOrder: the look-up alone, with cancelActive off. *)
Reconcile ==
  /\ at = "returned"
  /\ caller' = "reconcile" /\ at' = "recover" /\ report' = "none" /\ polls' = 0
  /\ UNCHANGED <<exchange, posts, route, reply>>

Exchange == Arrive \/ Match \/ Drop
Post == Decline \/ PostRefused \/ PostAcknowledged \/ PostAmbiguous
Follow ==
  \/ NotRecovered \/ Recovered
  \/ PollFails \/ PollFinal \/ PollLive
  \/ Cancel \/ ConfirmFails \/ ConfirmFinal \/ ConfirmLive

OkxNext == Exchange \/ Post \/ Follow \/ Reconcile

OkxSpec == OkxInit /\ [][OkxNext]_okxVars

(* The call runs on: every request has a deadline. *)
OkxFairSpec == OkxSpec /\ WF_okxVars(Post) /\ WF_okxVars(Follow)

-----------------------------------------------------------------------------
(* The adapter keeps what the execution path relies on: it refuses only      *)
(* orders that do not exist and returns only results that are final.         *)
Place == INSTANCE PlaceContract WITH
  order <- CASE order \in {"absent", "sent"} -> "absent"
             [] order = "canceled" -> Outcome
             [] OTHER -> order

PlaceContractKept == Place!PlaceSpec

(* cex_okx_trade.go:194: an order request is never sent twice, whatever      *)
(* became of the first.                                                      *)
PostsOnce == posts <= 1

(* ReconcileOrder reports an order over only when it is: what reconciliation *)
(* journals as filled or canceled can no longer change.                      *)
ReportAgrees ==
  /\ report = "filled" => order = "filled"
  /\ report = "canceled" => order = "canceled" /\ fill = "none"

(* cex_okx_trade.go:247: an error that is not marked unknown means the       *)
(* exchange has no such order.                                               *)
RefusedMeansNoOrder == reply = "refused" => order = "absent"

(* A request that went out is answered for: Place comes back, whatever the   *)
(* exchange and the network do.                                              *)
PlaceReturns == posts > 0 ~> reply # "none"
=============================================================================
