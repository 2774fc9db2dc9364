--------------------------- MODULE TradeExecution ---------------------------
(* One symbol's way from a run's decision to a protected position and back:  *)
(* the execution half of orchestrator.Service.run, the protective            *)
(* remediation, the three reduce-only closes (reversal, emergency flatten,   *)
(* automated or manual exit) and the reconciliation of journal against venue.*)
(* Runs and closes of one symbol hold its lock (runtime.SymbolLocks);        *)
(* reconciliation and the monitor do not.                                    *)
(*                                                                           *)
(* The position is named by the run whose entry opened it, a protective stop *)
(* by the run whose entry it belongs to.  Sizes, prices, the risk ledger and *)
(* reviews are left out; adding to a position of the same side is left out.  *)
EXTENDS OrderMachine, FiniteSets, Naturals

CONSTANTS
  Runs,      \* Service.Run calls that reach execution
  Exits,     \* automated exits and manual closes
  Sides,     \* long and short
  NoOne,     \* a free lock; a flat position; no side proposed yet
  Windows    \* the windows (below) that the environment may hit

(* "overlap":  a reconciliation's reads span a change of the position        *)
(* "hang":     the venue hangs until remediation's 45 s deadline             *)
ASSUME WindowsAssumption == Windows \subseteq {"overlap", "hang"}
ASSUME ActorsAssumption ==
  /\ Runs \cap Exits = {}
  /\ NoOne \notin Runs \cup Exits

Actors == Runs \cup Exits
Orders == (Runs \X {"entry", "reverse", "flatten"}) \cup (Exits \X {"exit"})

VARIABLES
  frozen, reconciling, overtaken,   \* the safety gate, see GateContract
  started,   \* the startup reconciliation has come back, good or bad
  lock,      \* holder of the symbol's lock
  actor,     \* actor[a]: [step, work, seen, answer]
  side,      \* side[r]: the side run r proposes
  status,    \* status[o]: the journal's status of order o, "none" before Open
  remote,    \* remote[o]: what the exchange knows of order o
  position,  \* the run whose entry is open at the exchange
  stops,     \* the runs whose protective orders are pending there
  rec,       \* the reconciler: [step, position, todo, bad]
  slipped    \* history: entries sent after a freeze, before the gate reopened

gateVars == <<frozen, reconciling, overtaken>>
venue    == <<remote, position, stops>>
vars == <<gateVars, started, lock, actor, side, status, venue, rec, slipped>>

Gate == INSTANCE GateContract

Steps ==
  {"idle", "lock", "decide", "open", "submit", "post", "await", "record",
   "protect", "remediate", "flatten", "finalize", "complete", "done"}
Answers ==
  {"none", "refused", "unknown", "dead", "partial", "filled", "protected",
   "unrecorded"}
Idle == [step |-> "idle", work |-> "entry", seen |-> NoOne, answer |-> "none"]
RecIdle == [step |-> "idle", position |-> NoOne, todo |-> {}, bad |-> FALSE]

TypeOK ==
  /\ Gate!gate \in BOOLEAN \X BOOLEAN \X BOOLEAN
  /\ started \in BOOLEAN
  /\ lock \in Actors \cup {NoOne}
  /\ actor \in [Actors ->
       [step : Steps, work : {"entry", "reverse", "flatten", "exit"},
        seen : Runs \cup {NoOne}, answer : Answers]]
  /\ side \in [Runs -> Sides \cup {NoOne}]
  /\ status \in [Orders -> Statuses \cup {"none"}]
  /\ remote \in [Orders -> {"absent", "sent", "live", "filled", "partial", "dead"}]
  /\ position \in Runs \cup {NoOne}
  /\ stops \subseteq Runs
  /\ rec \in [step : {"idle", "read", "list", "orders", "gaps", "end"},
              position : Runs \cup {NoOne},
              todo : SUBSET (Orders \X Statuses), bad : BOOLEAN]
  /\ slipped \in Nat

Init ==
  /\ Gate!Shut
  /\ started = FALSE
  /\ lock = NoOne
  /\ actor = [a \in Actors |-> Idle]
  /\ side = [r \in Runs |-> NoOne]
  /\ status = [o \in Orders |-> "none"]
  /\ remote = [o \in Orders |-> "absent"]
  /\ position = NoOne
  /\ stops = {}
  /\ rec = RecIdle
  /\ slipped = 0

-----------------------------------------------------------------------------
(* The order an actor is working on, and its moves through the handler. *)
Order(a) == <<a, actor[a].work>>
Closing(a) == actor[a].work # "entry"

Goto(a, s) == actor' = [actor EXCEPT ![a].step = s] /\ UNCHANGED lock

GotoWith(a, s, answer) ==
  /\ actor' = [actor EXCEPT ![a].step = s, ![a].answer = answer]
  /\ UNCHANGED lock

(* All that outlives a handler is the side its order, if it may still fill,  *)
(* was made for.                                                             *)
Gone(a) ==
  [Idle EXCEPT !.step = "done",
               !.seen = IF remote[Order(a)] \in {"sent", "live"}
                          THEN actor[a].seen ELSE NoOne]

(* The handler returns, whatever its result, and releases the symbol. *)
Leave(a) ==
  /\ lock' = NoOne
  /\ actor' = [actor EXCEPT ![a] = Gone(a)]

(* Journal.TransitionContext and OpenContext: the status is legal and the    *)
(* store takes it; or one of the two is not so and the caller freezes the    *)
(* gate.  A checkpoint that cannot be saved ends the handler the same way.   *)
CanRecord(o, s) ==
  IF status[o] = "none" THEN s = "new" ELSE ValidTransition(status[o], s)

(* Variant: a store error ends the handler and freezes nothing. *)
JournaledQuietly(o, s, written, refused) ==
  \/ CanRecord(o, s) /\ status' = [status EXCEPT ![o] = s] /\ UNCHANGED gateVars /\ written
  \/ UNCHANGED status /\ UNCHANGED gateVars /\ refused

Journaled(o, s, written, refused) ==
  \/ CanRecord(o, s) /\ status' = [status EXCEPT ![o] = s] /\ UNCHANGED gateVars /\ written
  \/ Gate!Freeze /\ UNCHANGED status /\ refused

(* Without the "overlap" window nothing opens or moves the position while a  *)
(* reconciliation is between its first read and its verdict.                 *)
Quiet == "overlap" \in Windows \/ rec.step = "idle"

-----------------------------------------------------------------------------
(* Runs and closes *)

(* The lock is taken and the venue's positions read.  A proposal for the     *)
(* side already held only goes on as an add-on, left out here.               *)
RunStart(r, s) ==
  /\ actor[r].step = "idle"
  /\ started /\ lock = NoOne /\ Quiet
  /\ position # NoOne => side[position] # s
  /\ lock' = r
  /\ side' = [side EXCEPT ![r] = s]
  /\ actor' = [actor EXCEPT ![r].step = "decide", ![r].seen = position,
                 ![r].work = IF position = NoOne THEN "entry" ELSE "reverse"]
  /\ UNCHANGED <<gateVars, started, status, venue, rec, slipped>>

(* Variant: the gate is not asked again after the approval. *)
RunDecideOnce(r) ==
  /\ actor[r].step = "decide"
  /\ Leave(r) \/ Goto(r, "open")
  /\ UNCHANGED <<gateVars, started, side, status, venue, rec, slipped>>

(* Preflight, risk, approval: rejected, or on to the last checkNewPosition.  *)
(* A reversal comes here again between its close and its reopening.          *)
RunDecide(r) ==
  /\ actor[r].step = "decide"
  /\ \/ Leave(r)
     \/ ~frozen /\ Goto(r, "open")
  /\ UNCHANGED <<gateVars, started, side, status, venue, rec, slipped>>

(* The exit manager decides on positions it read before it has the lock; a   *)
(* manual close reads them under it, the case where ExitLock follows at once.*)
ExitRead(x) ==
  /\ actor[x].step = "idle"
  /\ started /\ position # NoOne
  /\ actor' = [actor EXCEPT ![x] = [@ EXCEPT !.step = "lock", !.work = "exit",
                                             !.seen = position]]
  /\ UNCHANGED <<gateVars, started, lock, side, status, venue, rec, slipped>>

ExitLock(x) ==
  /\ actor[x].step = "lock"
  /\ lock = NoOne /\ Quiet
  /\ lock' = x
  /\ actor' = [actor EXCEPT ![x].step = "open"]
  /\ UNCHANGED <<gateVars, started, side, status, venue, rec, slipped>>

OpenOrder(a) ==
  /\ actor[a].step = "open"
  /\ Journaled(Order(a), "new", Goto(a, "submit"), Leave(a))
  /\ UNCHANGED <<started, side, venue, rec, slipped>>

SubmitOrder(a) ==
  /\ actor[a].step = "submit"
  /\ Journaled(Order(a), "submitting", Goto(a, "post"), Leave(a))
  /\ UNCHANGED <<started, side, venue, rec, slipped>>

(* venue.Place, which keeps PlaceContract, sends the order: the exchange     *)
(* takes it; or it does not and Place says so (a rejected result or an       *)
(* error), or cannot tell and the request may yet arrive.                    *)
PostOrder(a) ==
  /\ actor[a].step = "post"
  /\ \/ /\ remote' = [remote EXCEPT ![Order(a)] = "live"]
        /\ Goto(a, "await")
        /\ slipped' = IF frozen /\ ~Closing(a) THEN slipped + 1 ELSE slipped
     \/ GotoWith(a, "record", "refused") /\ UNCHANGED <<remote, slipped>>
     \/ /\ remote' \in {remote, [remote EXCEPT ![Order(a)] = "sent"]}
        /\ GotoWith(a, "record", "unknown")
        /\ UNCHANGED slipped
  /\ UNCHANGED <<gateVars, started, side, status, position, stops, rec>>

(* Variant: the protection asked for is taken for the protection there is. *)
VerifiedByTemplate(r) == remote[<<r, "entry">>] = "filled"

(* Only a full fill of an entry is looked up for its protective orders. *)
Verified(r) == remote[<<r, "entry">>] = "filled" /\ r \in stops

(* Variant: nothing bounds the wait. *)
AnswersForever(a) ==
  (IF remote[Order(a)] = "live" THEN {} ELSE {remote[Order(a)]})
    \cup (IF ~Closing(a) /\ Verified(a) THEN {"protected"} ELSE {})

(* The order has settled; or a read or the cancellation failed, or the wait  *)
(* ran out, and the outcome is unknown.  The look-up of the protection may   *)
(* fail, too.                                                                *)
AnswersOf(a) ==
  (IF remote[Order(a)] = "live" THEN {} ELSE {remote[Order(a)]})
    \cup {"unknown"}
    \cup (IF ~Closing(a) /\ Verified(a) THEN {"protected"} ELSE {})

(* venue.Place waits. *)
AwaitAnswer(a) ==
  /\ actor[a].step = "await"
  /\ \E answer \in AnswersOf(a) : GotoWith(a, "record", answer)
  /\ UNCHANGED <<gateVars, started, side, status, venue, rec, slipped>>

Recorded(answer) ==
  CASE answer = "refused" -> "failed"
    [] answer = "dead" -> "canceled"
    [] answer = "partial" -> "partially_filled"
    [] OTHER -> "filled"

(* A close whose fill could not be journaled is finished all the same; every *)
(* other failure to journal ends the handler.                                *)
Unrecorded(a) ==
  IF Closing(a) /\ actor[a].answer = "filled"
    THEN GotoWith(a, "finalize", "unrecorded")
    ELSE Leave(a)

(* The venue's answer is journaled.  An unknown outcome freezes the gate     *)
(* before it is journaled, and whether or not it can be.                     *)
RecordAnswer(a) ==
  /\ actor[a].step = "record"
  /\ LET answer == actor[a].answer
     IN  IF answer = "unknown"
           THEN /\ Gate!Freeze
                /\ \/ CanRecord(Order(a), "unknown")
                      /\ status' = [status EXCEPT ![Order(a)] = "unknown"]
                   \/ UNCHANGED status
                /\ Leave(a)
           ELSE Journaled(Order(a), Recorded(answer),
                          IF answer \in {"refused", "dead"} THEN Leave(a)
                                                            ELSE Goto(a, "protect"),
                          Unrecorded(a))
  /\ UNCHANGED <<started, side, venue, rec, slipped>>

(* recordExecution's second event.  A reduce-only order wants no protection, *)
(* so it passes for protected; a close that filled in part is left there.    *)
RecordProtection(a) ==
  /\ actor[a].step = "protect"
  /\ LET answer == actor[a].answer
     IN  IF Closing(a)
           THEN Journaled(Order(a), "protective_placed",
                          IF answer = "filled" THEN Goto(a, "finalize") ELSE Leave(a),
                          Unrecorded(a))
           ELSE IF answer = "protected"
             THEN Journaled(Order(a), "protective_placed", Leave(a), Leave(a))
             ELSE Journaled(Order(a), "protective_failed", Goto(a, "remediate"), Leave(a))
  /\ UNCHANGED <<started, side, venue, rec, slipped>>

(* The stops after trying to place run r's: the exchange refuses an order    *)
(* that closes a position that is not there.                                 *)
Placed(r) == IF position = r THEN stops \cup {r} ELSE stops

(* remediateProtection: placed and verified; or its context expires between  *)
(* the attempts and it returns at once; or both attempts fail, which freezes *)
(* the gate and starts the emergency flatten.                                *)
Exhausted(r) ==
  /\ Gate!Freeze
  /\ \/ /\ CanRecord(Order(r), "flattening")
        /\ status' = [status EXCEPT ![Order(r)] = "flattening"]
        /\ Goto(r, "flatten")
     \/ UNCHANGED status /\ Leave(r)

Remediate(r) ==
  /\ actor[r].step = "remediate"
  /\ \/ /\ position = r /\ stops' = Placed(r)
        /\ Journaled(Order(r), "protective_placed", Leave(r), Leave(r))
     \/ /\ stops' \in {stops, Placed(r)}
        /\ \E expired \in {FALSE} \cup (IF "hang" \in Windows THEN {TRUE} ELSE {}) :
             IF expired
               THEN Leave(r) /\ UNCHANGED <<gateVars, status>>
               ELSE Exhausted(r)
  /\ UNCHANGED <<started, side, remote, position, rec, slipped>>

(* Variant: what is left after the cancellation is not read back. *)
ClearedUnread == stops' \in {stops, {}}

(* clearProtectiveOrders: canceled, and read back as gone. *)
Cleared == stops' = {}

(* flattenPosition up to its reduce-only order. *)
FlattenRead(r) ==
  /\ actor[r].step = "flatten"
  /\ \/ Leave(r) /\ UNCHANGED <<gateVars, status, stops>>
     \/ /\ position # NoOne
        /\ actor' = [actor EXCEPT ![r].step = "open", ![r].work = "flatten",
                       ![r].seen = position]
        /\ UNCHANGED <<gateVars, status, stops, lock>>
     \/ /\ position = NoOne
        /\ Cleared
        /\ Journaled(Order(r), "closed", Leave(r), Leave(r))
  /\ UNCHANGED <<started, side, remote, position, rec, slipped>>

(* FinalizeClose: the position is verified flat and every protective order   *)
(* of the symbol canceled and verified gone; or one of those calls fails.    *)
(* An exit then freezes the gate; a flatten runs on a gate it froze before;  *)
(* a reversal only returns its error.                                        *)
Finalize(a) ==
  /\ actor[a].step = "finalize"
  /\ \/ position = NoOne /\ Cleared /\ Goto(a, "complete") /\ UNCHANGED gateVars
     \/ /\ stops' \in (IF position = NoOne THEN {stops, {}} ELSE {stops})
        /\ Leave(a)
        /\ IF actor[a].work = "exit" THEN Gate!Freeze ELSE UNCHANGED gateVars
  /\ UNCHANGED <<started, side, status, remote, position, rec, slipped>>

(* The statuses CompleteReduceOnly and ReconcileOrders close once flat. *)
Swept == {"filled", "protective_placed", "protective_failed", "flattening"}

(* CompleteReduceOnly: the close, then every order of the symbol that rests  *)
(* on the position, one event each; the first failure ends it and freezes.   *)
(* An automated exit whose fill went unrecorded freezes once more, a manual  *)
(* close does not.                                                           *)
CompleteClose(a) ==
  /\ actor[a].step = "complete"
  /\ LET o == Order(a)
         sources == {q \in Orders \ {o} : status[q] \in Swept}
         closed(done) == [q \in Orders |-> IF q \in done THEN "closed" ELSE status[q]]
     IN  \/ /\ CanRecord(o, "closed")
            /\ status' = closed(sources \cup {o})
            /\ IF actor[a].work = "reverse" /\ actor[a].answer = "filled"
                 THEN /\ actor' = [actor EXCEPT ![a].step = "decide",
                                     ![a].work = "entry", ![a].answer = "none"]
                      /\ UNCHANGED <<lock, gateVars>>
                 ELSE /\ Leave(a)
                      /\ IF actor[a].work = "exit" /\ actor[a].answer = "unrecorded"
                           THEN Gate!Freeze \/ UNCHANGED gateVars
                           ELSE UNCHANGED gateVars
         \/ /\ \E done \in SUBSET sources :
                 /\ status' = closed(IF CanRecord(o, "closed") /\ done # sources
                                       THEN done \cup {o} ELSE {})
            /\ Gate!Freeze
            /\ Leave(a)
  /\ UNCHANGED <<started, side, venue, rec, slipped>>

-----------------------------------------------------------------------------
(* The exchange, the monitor and the process *)

(* Net mode: an entry against an open position first reduces it. *)
Netted(r) ==
  IF position = NoOne \/ side[position] = side[r] THEN {r} ELSE {r, position, NoOne}

Arrive(o) ==
  /\ remote[o] = "sent" /\ Quiet
  /\ remote' = [remote EXCEPT ![o] = "live"]
  /\ UNCHANGED <<gateVars, started, lock, actor, side, status, position, stops,
                 rec, slipped>>

(* An entry fills with the stop attached to it, or the stop gets lost.  A    *)
(* reduce-only order fills against a position of the side it was made for.   *)
Settle(o) ==
  /\ remote[o] = "live" /\ Quiet
  /\ \E outcome \in {"filled", "partial", "dead"} :
       /\ remote' = [remote EXCEPT ![o] = outcome]
       /\ IF outcome = "dead"
            THEN UNCHANGED <<position, stops>>
            ELSE IF o[2] = "entry"
              THEN /\ position' \in Netted(o[1])
                   /\ stops' \in {stops, stops \cup {o[1]}}
              ELSE /\ position # NoOne
                   /\ side[position] = side[actor[o[1]].seen]
                   /\ position' = IF outcome = "filled" THEN NoOne ELSE position
                   /\ UNCHANGED stops
  /\ UNCHANGED <<gateVars, started, lock, actor, side, status, rec, slipped>>

(* A protective order of the position's side triggers and closes it. *)
StopTriggers(s) ==
  /\ s \in stops /\ position # NoOne
  /\ side[s] = side[position]
  /\ position' = NoOne
  /\ stops' = stops \ {s}
  /\ UNCHANGED <<gateVars, started, lock, actor, side, status, remote, rec, slipped>>

(* PositionMonitor and the risk ledger freeze for reasons of their own. *)
MonitorFreezes ==
  /\ started
  /\ Gate!Freeze
  /\ UNCHANGED <<started, lock, actor, side, status, venue, rec, slipped>>

(* The process dies and comes up: the journal is replayed, the gate starts   *)
(* shut, and what the handlers had in memory is gone.                        *)
Restart ==
  /\ frozen' = TRUE /\ reconciling' = FALSE /\ overtaken' = FALSE
  /\ started' = FALSE
  /\ lock' = NoOne
  /\ actor' = [a \in Actors |->
       IF actor[a].step \in {"idle", "done"} THEN actor[a] ELSE Gone(a)]
  /\ rec' = RecIdle
  /\ slipped' = 0
  /\ UNCHANGED <<side, status, venue>>

-----------------------------------------------------------------------------
(* Reconciliation: at startup, then whenever the API asks for it *)

ReconcileBegin ==
  /\ rec.step = "idle"
  /\ "overlap" \in Windows \/ lock = NoOne
  /\ Gate!Begin
  /\ rec' = [rec EXCEPT !.step = "read"]
  /\ UNCHANGED <<started, lock, actor, side, status, venue, slipped>>

ReconcileRead ==
  /\ rec.step = "read"
  /\ rec' = [rec EXCEPT !.step = "list", !.position = position]
  /\ UNCHANGED <<gateVars, started, lock, actor, side, status, venue, slipped>>

(* ReconcileOrders works on a copy of the journal's unfinished orders. *)
ReconcileList ==
  /\ rec.step = "list"
  /\ LET open == {o \in Orders : status[o] \notin Terminal \cup {"none"}}
     IN  rec' = [rec EXCEPT !.step = "orders", !.todo = {<<o, status[o]>> : o \in open}]
  /\ UNCHANGED <<gateVars, started, lock, actor, side, status, venue, slipped>>

(* A venue read that fails, a discrepancy of the risk ledger or the margin:  *)
(* the verdict is bad, and the rest need not be looked at.                   *)
ReconcileFails ==
  /\ rec.step \in {"read", "list", "orders", "gaps"}
  /\ rec' = [rec EXCEPT !.step = "end", !.todo = {}, !.bad = TRUE]
  /\ UNCHANGED <<gateVars, started, lock, actor, side, status, venue, slipped>>

Checked(t, discrepancy) ==
  rec' = [rec EXCEPT !.todo = @ \ {t}, !.bad = @ \/ discrepancy]

Aborted == rec' = [rec EXCEPT !.step = "end", !.todo = {}, !.bad = TRUE]

(* What the look-up of an order by its client id returns as its status. *)
RemoteStatus(o) ==
  CASE remote[o] = "live" -> "acknowledged"
    [] remote[o] = "filled" -> "filled"
    [] remote[o] = "partial" -> "partially_filled"
    [] OTHER -> "canceled"

(* A filled order is given protective_placed when its result lists any       *)
(* protective order; a reduce-only order's lists none.                       *)
Restored(o) ==
  IF o[2] = "entry" THEN {"protective_placed", "protective_failed"}
                    ELSE {"protective_failed"}

(* A look-up lists the protective orders pending now, or fails to. *)
LookedUp(o) == IF stops = {} THEN {"protective_failed"} ELSE Restored(o)

(* One order that rests on the position: closed, with the symbol's stops     *)
(* canceled, when the venue was flat; else restored.                         *)
ReconcileResting(t) ==
  LET o == t[1]
      was == t[2]
  IN  /\ was \in Swept
      /\ IF rec.position = NoOne
           THEN \/ Cleared /\ Journaled(o, "closed", Checked(t, FALSE), Aborted)
                \/ /\ stops' \in {stops, {}}
                   /\ Checked(t, TRUE)
                   /\ UNCHANGED <<status, gateVars>>
           ELSE /\ UNCHANGED stops
                /\ IF was = "filled"
                     THEN \E next \in Restored(o) :
                            Journaled(o, next, Checked(t, FALSE), Aborted)
                     ELSE /\ Checked(t, was \in {"protective_failed", "flattening"})
                          /\ UNCHANGED <<status, gateVars>>

ReconcileNew(t) ==
  /\ t[2] = "new"
  /\ Journaled(t[1], "canceled", Checked(t, FALSE), Aborted)
  /\ UNCHANGED stops

(* Variant: an order the exchange does not show is taken for dead. *)
NotFoundIsDead(o) == FALSE

NotFound(o) == remote[o] \in {"absent", "sent"}

(* One order whose outcome the journal does not know.  The move into         *)
(* "filled" and on to its protection is two events of one iteration.         *)
ReconcileInFlight(t) ==
  LET o == t[1]
      was == t[2]
      now == RemoteStatus(o)
  IN  /\ was \notin Swept \cup {"new"}
      /\ UNCHANGED stops
      /\ IF NotFound(o) \/ now = was \/ ~CanTransition(was, now)
           THEN Checked(t, TRUE) /\ UNCHANGED <<status, gateVars>>
           ELSE IF now = "filled"
             THEN \/ /\ CanRecord(o, "filled")
                     /\ \E next \in LookedUp(o) : status' = [status EXCEPT ![o] = next]
                     /\ Checked(t, FALSE)
                     /\ UNCHANGED gateVars
                  \/ /\ Gate!Freeze
                     /\ Aborted
                     /\ IF CanRecord(o, "filled")
                          THEN status' \in {status, [status EXCEPT ![o] = "filled"]}
                          ELSE UNCHANGED status
             ELSE Journaled(o, now, Checked(t, now # "canceled"), Aborted)

ReconcileOrder ==
  /\ rec.step = "orders"
  /\ \E t \in rec.todo : ReconcileResting(t) \/ ReconcileNew(t) \/ ReconcileInFlight(t)
  /\ UNCHANGED <<started, lock, actor, side, remote, position, slipped>>

(* Every position needs a stop of its side; whose it is, is not compared. *)
ReconcileGaps ==
  /\ rec.step = "orders" /\ rec.todo = {}
  /\ LET gap == /\ rec.position # NoOne
                /\ ~\E s \in stops : side[s] = side[rec.position]
     IN  rec' = [rec EXCEPT !.step = "end", !.bad = @ \/ gap]
  /\ UNCHANGED <<gateVars, started, lock, actor, side, status, venue, slipped>>

ReconcileEnd ==
  /\ rec.step = "end"
  /\ Gate!Complete(~rec.bad)
  /\ started' = TRUE
  /\ rec' = RecIdle
  /\ slipped' = IF frozen' THEN slipped ELSE 0
  /\ UNCHANGED <<lock, actor, side, status, venue>>

-----------------------------------------------------------------------------
RunStep(r) == RunDecide(r) \/ Remediate(r) \/ FlattenRead(r)

ExitStep(x) == ExitRead(x) \/ ExitLock(x)

OrderStep(a) ==
  \/ OpenOrder(a) \/ SubmitOrder(a) \/ PostOrder(a) \/ AwaitAnswer(a)
  \/ RecordAnswer(a) \/ RecordProtection(a) \/ Finalize(a) \/ CompleteClose(a)

Reconcile ==
  \/ ReconcileBegin \/ ReconcileRead \/ ReconcileList \/ ReconcileFails
  \/ ReconcileOrder \/ ReconcileGaps \/ ReconcileEnd

Environment ==
  \/ \E o \in Orders : Arrive(o) \/ Settle(o)
  \/ \E s \in Runs : StopTriggers(s)
  \/ MonitorFreezes
  \/ Restart

Next ==
  \/ \E r \in Runs : RunStep(r) \/ \E s \in Sides : RunStart(r, s)
  \/ \E x \in Exits : ExitStep(x)
  \/ \E a \in Actors : OrderStep(a)
  \/ Reconcile
  \/ Environment

Spec == Init /\ [][Next]_vars

(* A handler runs on: its goroutine is scheduled and every call it makes has *)
(* a deadline, so the wait for the venue ends, if only as unknown.           *)
FairSpec ==
  /\ Spec
  /\ \A r \in Runs : WF_vars(RunStep(r))
  /\ \A a \in Actors : WF_vars(OrderStep(a))

-----------------------------------------------------------------------------
Protected == \E s \in stops : side[s] = side[position]

(* docs/RISK.md:16 and :28: where there is a position there is protection.   *)
(* Between handlers, an open position has a stop of its side pending at the  *)
(* exchange, or no new position may be opened.                               *)
ProtectedOrFrozen ==
  lock = NoOne /\ position # NoOne /\ ~Protected => frozen

(* reversal_execution.go:248: the protective orders of a position that is    *)
(* gone are removed before the symbol may be opened again.                   *)
ResidueMeansFrozen == lock = NoOne /\ stops \ {position} # {} => frozen

(* Whatever happens to the cleanup, a pending protective order belongs to an *)
(* entry the journal still has open: the next flat reconciliation or close   *)
(* of the symbol will cancel it.  No stop is forgotten at the exchange.      *)
StopsHaveOrder ==
  \A s \in stops : status[<<s, "entry">>] \notin Terminal \cup {"none", "new"}

(* The journal knows of every position: the entry that opened it is neither  *)
(* forgotten nor settled as if there were none.                              *)
PositionHasOrder ==
  position # NoOne => status[<<position, "entry">>] \notin Terminal \cup {"none", "new"}

(* Between handlers, an order whose outcome the journal does not know keeps  *)
(* the gate shut, so nothing is built on an account nobody is sure of.       *)
InFlight == {"new", "submitting", "acknowledged", "partially_filled", "unknown"}
UnknownMeansFrozen ==
  lock = NoOne /\ (\E o \in Orders : status[o] \in InFlight) => frozen

(* The symbol's lock is given back, through failures of the store and the    *)
(* venue: closes are never locked out by a run for good, nor runs by a close.*)
LockReleased == lock # NoOne ~> lock = NoOne

(* A freeze stops every entry but the one already past its last check.       *)
SlipAtMostOne == slipped <= 1
=============================================================================
