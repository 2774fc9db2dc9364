--------------------------- MODULE MCRunAdmission ---------------------------
(* A run's two ways: in and out of the service (RunAdmission, two runs and   *)
(* another user of the symbols' locks) and to the exchange (OkxPlace, one    *)
(* order).  They share no state, so part names the one that moves and the    *)
(* other stays as it began.                                                  *)
EXTENDS RunAdmission, OkxPlace

VARIABLE part

all == <<part, vars, okxVars>>

Admitting(A) == part = "admission" /\ A /\ UNCHANGED <<part, okxVars>>
Placing(A) == part = "okx" /\ A /\ UNCHANGED <<part, vars>>

AdmissionInit == part \in {"admission", "okx"} /\ Init /\ OkxInit
AdmissionNext == Admitting(Next) \/ Placing(OkxNext)

(* The fairness of each, for the one that moves. *)
AdmissionSpec ==
  /\ AdmissionInit /\ [][AdmissionNext]_all
  /\ \A r \in Runs : /\ WF_all(Admitting(RunStep(r)))
                     /\ SF_all(Admitting(AcquirePlace(r)))
                     /\ SF_all(Admitting(EnterSymbol(r)))
  /\ \A o \in Others : WF_all(Admitting(OtherUnlocks(o)))
  /\ WF_all(Admitting(CloseEnd))
  /\ WF_all(Placing(Post)) /\ WF_all(Placing(Follow))
=============================================================================
