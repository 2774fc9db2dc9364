---------------------------- MODULE RunAdmission ----------------------------
(* How a run gets in and out (orchestrator.Service.start and Close): one run *)
(* per symbol, a bounded queue, a semaphore, the symbol's lock shared with   *)
(* exits, closes and the scanner, the operator's approval (approval.         *)
(* PendingGate), the bounded run history and the wait for all at shutdown.   *)
(* What a run does with its symbol is TradeExecution's.                      *)
EXTENDS SymbolLocks

CONSTANTS
  Runs,            \* accepted calls of Start; the other processes only lock
  QueueSize,       \* queueSize: symbols in flight
  MaxConcurrency,  \* capacity of the semaphore
  RunLimit,        \* runLimit: runs kept for look-up
  Contended        \* bound: the symbols the other processes lock

ASSUME RunsAssumption == Runs \subseteq Procs
ASSUME ContendedAssumption == Contended \subseteq Symbols
ASSUME LimitsAssumption ==
  QueueSize \in Nat \ {0} /\ MaxConcurrency \in Nat \ {0} /\ RunLimit \in Nat \ {0}

VARIABLES
  service,   \* "open", "closing" (stopped, waiting for the group), "closed"
  step,      \* step[r]: where the run's goroutine is
  symbol,    \* symbol[r]: what it was started for
  inFlight,  \* inFlight[s]: the run accepted for s
  active,    \* wg: goroutines to wait for
  sem,       \* the runs holding a place
  runs,      \* runs[r]: its record's status, "none" when there is no record
  runOrder,  \* runOrder[r]: the records that stand before r's
  pending,   \* the runs waiting for an operator
  result,    \* result[r]: what its entry's channel holds
  decision,  \* decision[r]: what Decide returned
  told       \* history: told[r], the decision an operator was told is taken

admission == <<service, inFlight, active, sem, runs, runOrder>>
approvals == <<pending, result, decision, told>>
runVars == <<step, symbol, admission, approvals>>
vars == <<runVars, lockVars>>

(* The service's context ends with Close.  The application's, its parent,    *)
(* ends only on the way to Close and is taken together with it.              *)
stopped == service # "open"
Done == stopped

Decisions == {"none", "approve", "reject", "expired"}

TypeOK ==
  /\ LocksTypeOK
  /\ service \in {"open", "closing", "closed"}
  /\ step \in [Runs -> {"idle", "queued", "placed", "locking", "run", "ask",
                        "expire", "recorded", "unlocked", "canceled",
                        "unrecorded", "free", "leave", "gone"}]
  /\ symbol \in [Runs -> Symbols]
  /\ inFlight \in [Symbols -> Runs \cup {Nobody}]
  /\ active \in Nat
  /\ sem \subseteq Runs
  /\ runs \in [Runs -> {"none", "queued", "running", "final"}]
  /\ runOrder \in [Runs -> SUBSET Runs]
  /\ pending \subseteq Runs
  /\ result \in [Runs -> {"none", "approve", "reject"}]
  /\ decision \in [Runs -> Decisions]
  /\ told \in [Runs -> {"none", "approve", "reject"}]

Init ==
  /\ LocksInit
  /\ service = "open"
  /\ step = [r \in Runs |-> "idle"]
  /\ symbol = [r \in Runs |-> CHOOSE s \in Symbols : TRUE]
  /\ inFlight = [s \in Symbols |-> Nobody]
  /\ active = 0 /\ sem = {}
  /\ runs = [r \in Runs |-> "none"] /\ runOrder = [r \in Runs |-> {}]
  /\ pending = {} /\ result = [r \in Runs |-> "none"]
  /\ decision = [r \in Runs |-> "none"] /\ told = [r \in Runs |-> "none"]

-----------------------------------------------------------------------------
Goto(r, next) == step' = [step EXCEPT ![r] = next]

Recorded(records) == {r \in Runs : records[r] # "none"}

Discard(gone, records, order) ==
  /\ runs' = [r \in Runs |-> IF r \in gone THEN "none" ELSE records[r]]
  /\ runOrder' = [r \in Runs |-> IF r \in gone THEN {} ELSE order[r] \ gone]

(* Variant: the oldest records go, finished or not. *)
PruneOldest(records, order) ==
  LET all == Recorded(records)
  IN  Discard({r \in all : Cardinality(order[r]) + RunLimit < Cardinality(all)},
             records, order)

(* pruneRunsLocked: while there are too many records the oldest finished one *)
(* goes, and none when all the rest are queued or running.                   *)
Prune(records, order) ==
  LET finished == {r \in Runs : records[r] = "final"}
      excess(r) == Cardinality(Recorded(records)) - Cardinality(order[r] \cap finished)
  IN  Discard({r \in finished : excess(r) > RunLimit}, records, order)

(* A new record stands behind all others. *)
Admit(r) == Prune([runs EXCEPT ![r] = "queued"], [runOrder EXCEPT ![r] = Recorded(runs)])

Status(r, s) == runs' = [runs EXCEPT ![r] = s] /\ UNCHANGED runOrder

(* Variant: a stopped service still takes runs. *)
StartStopped(r, s) ==
  /\ step[r] = "idle"
  /\ inFlight[s] = Nobody
  /\ Cardinality({t \in Symbols : inFlight[t] # Nobody}) < QueueSize
  /\ inFlight' = [inFlight EXCEPT ![s] = r]
  /\ symbol' = [symbol EXCEPT ![r] = s]
  /\ Admit(r)
  /\ active' = active + 1
  /\ Goto(r, "queued")
  /\ UNCHANGED <<service, sem, approvals, lockVars>>

(* Variant: any number of runs of one symbol. *)
StartTwice(r, s) ==
  /\ step[r] = "idle"
  /\ ~stopped
  /\ Cardinality({t \in Symbols : inFlight[t] # Nobody}) < QueueSize
  /\ inFlight' = [inFlight EXCEPT ![s] = r]
  /\ symbol' = [symbol EXCEPT ![r] = s]
  /\ Admit(r)
  /\ active' = active + 1
  /\ Goto(r, "queued")
  /\ UNCHANGED <<service, sem, approvals, lockVars>>

(* Start; the refusals (gate, stopped, in flight, queue full) change nothing.*)
Start(r, s) ==
  /\ step[r] = "idle"
  /\ ~stopped
  /\ inFlight[s] = Nobody
  /\ Cardinality({t \in Symbols : inFlight[t] # Nobody}) < QueueSize
  /\ inFlight' = [inFlight EXCEPT ![s] = r]
  /\ symbol' = [symbol EXCEPT ![r] = s]
  /\ Admit(r)
  /\ active' = active + 1
  /\ Goto(r, "queued")
  /\ UNCHANGED <<service, sem, approvals, lockVars>>

AcquirePlace(r) ==
  /\ step[r] = "queued"
  /\ Cardinality(sem) < MaxConcurrency
  /\ sem' = sem \cup {r}
  /\ Status(r, "running")
  /\ Goto(r, "placed")
  /\ UNCHANGED <<symbol, service, inFlight, active, approvals, lockVars>>

(* Variant: canceled in the queue, the goroutine does not report back. *)
CancelQueuedSilently(r) ==
  /\ step[r] = "queued"
  /\ Done
  /\ Status(r, "final")
  /\ Goto(r, "gone")
  /\ UNCHANGED <<symbol, service, inFlight, active, sem, approvals, lockVars>>

CancelQueued(r) ==
  /\ step[r] = "queued"
  /\ Done
  /\ Status(r, "final")
  /\ Goto(r, "leave")
  /\ UNCHANGED <<symbol, service, inFlight, active, sem, approvals, lockVars>>

PointToLock(r) ==
  /\ step[r] = "placed"
  /\ EntryFor(r, symbol[r])
  /\ Goto(r, "locking")
  /\ UNCHANGED <<symbol, admission, approvals>>

EnterSymbol(r) ==
  /\ step[r] = "locking"
  /\ Enter(r)
  /\ Goto(r, "run")
  /\ UNCHANGED <<symbol, admission, approvals>>

CancelWaiting(r) ==
  /\ step[r] = "locking"
  /\ Done
  /\ GiveUp(r)
  /\ Goto(r, "canceled")
  /\ UNCHANGED <<symbol, admission, approvals>>

-----------------------------------------------------------------------------
(* PendingGate.Decide registers the proposal.  Run ids are random, so it is  *)
(* never there already; automatic policies decide without the gate.          *)
Ask(r) ==
  /\ step[r] = "run" /\ decision[r] = "none"
  /\ pending' = pending \cup {r}
  /\ Goto(r, "ask")
  /\ UNCHANGED <<symbol, admission, result, decision, told, lockVars>>

(* Resolve; a request that is not valid, or too late, changes nothing. *)
Resolve(r, d) ==
  /\ r \in pending
  /\ pending' = pending \ {r}
  /\ result' = [result EXCEPT ![r] = d]
  /\ told' = [told EXCEPT ![r] = d]
  /\ UNCHANGED <<step, symbol, admission, decision, lockVars>>

Receive(r) ==
  /\ result[r] # "none"
  /\ result' = [result EXCEPT ![r] = "none"]
  /\ decision' = [decision EXCEPT ![r] = result[r]]

Decided(r) ==
  /\ step[r] = "ask"
  /\ Receive(r)
  /\ Goto(r, "run")
  /\ UNCHANGED <<symbol, admission, pending, told, lockVars>>

(* The timer fires or the context is done; with an answer there, too, the    *)
(* select may still take this branch.                                        *)
Expire(r) ==
  /\ step[r] = "ask"
  /\ Goto(r, "expire")
  /\ UNCHANGED <<symbol, admission, approvals, lockVars>>

(* Variant: time is up, whatever the operator did meanwhile. *)
SettleByTimer(r) ==
  /\ step[r] = "expire"
  /\ pending' = pending \ {r}
  /\ decision' = [decision EXCEPT ![r] = "expired"]
  /\ Goto(r, "run")
  /\ UNCHANGED <<symbol, admission, result, told, lockVars>>

(* removeIfCurrent: a fail-safe rejection, or the resolver was first. *)
SettleExpired(r) ==
  /\ step[r] = "expire"
  /\ IF r \in pending
       THEN /\ pending' = pending \ {r}
            /\ decision' = [decision EXCEPT ![r] = "expired"]
            /\ UNCHANGED result
       ELSE Receive(r) /\ UNCHANGED pending
  /\ Goto(r, "run")
  /\ UNCHANGED <<symbol, admission, told, lockVars>>

-----------------------------------------------------------------------------
(* run returned, with whatever status: runAndRecord keeps the result. *)
RecordResult(r) ==
  /\ step[r] = "run"
  /\ Status(r, "final")
  /\ Goto(r, "recorded")
  /\ UNCHANGED <<symbol, service, inFlight, active, sem, approvals, lockVars>>

ExitSymbol(r) ==
  /\ step[r] = "recorded"
  /\ Exit(r)
  /\ Goto(r, "unlocked")
  /\ UNCHANGED <<symbol, admission, approvals>>

ReleaseSymbol(r) ==
  /\ step[r] \in {"unlocked", "canceled"}
  /\ Release(r)
  /\ Goto(r, IF step[r] = "unlocked" THEN "free" ELSE "unrecorded")
  /\ UNCHANGED <<symbol, admission, approvals>>

FinishCanceled(r) ==
  /\ step[r] = "unrecorded"
  /\ Status(r, "final")
  /\ Goto(r, "free")
  /\ UNCHANGED <<symbol, service, inFlight, active, sem, approvals, lockVars>>

(* Variant: the place is not given back. *)
KeepPlace(r) ==
  /\ step[r] = "free"
  /\ Goto(r, "leave")
  /\ UNCHANGED <<symbol, admission, approvals, lockVars>>

FreePlace(r) ==
  /\ step[r] = "free"
  /\ sem' = sem \ {r}
  /\ Goto(r, "leave")
  /\ UNCHANGED <<symbol, service, inFlight, active, runs, runOrder,
                 approvals, lockVars>>

Leave(r) ==
  /\ step[r] = "leave"
  /\ inFlight' = [inFlight EXCEPT ![symbol[r]] = Nobody]
  /\ Prune(runs, runOrder)
  /\ active' = active - 1
  /\ Goto(r, "gone")
  /\ UNCHANGED <<symbol, service, sem, approvals, lockVars>>

-----------------------------------------------------------------------------
CloseBegin ==
  /\ service = "open"
  /\ service' = "closing"
  /\ UNCHANGED <<step, symbol, inFlight, active, sem, runs, runOrder,
                 approvals, lockVars>>

CloseEnd ==
  /\ service = "closing" /\ active = 0
  /\ service' = "closed"
  /\ UNCHANGED <<step, symbol, inFlight, active, sem, runs, runOrder,
                 approvals, lockVars>>

(* Exits, manual closes and the scanner, under contexts of their own. *)
Others == Procs \ Runs

OtherLocks(o) ==
  /\ \/ \E s \in Contended : EntryFor(o, s)
     \/ Enter(o) \/ GiveUp(o)
  /\ UNCHANGED runVars

OtherUnlocks(o) == (Exit(o) \/ Release(o)) /\ UNCHANGED runVars

RunStep(r) ==
  \/ CancelQueued(r) \/ PointToLock(r) \/ CancelWaiting(r) \/ Ask(r)
  \/ Decided(r) \/ Expire(r) \/ SettleExpired(r) \/ RecordResult(r)
  \/ ExitSymbol(r) \/ ReleaseSymbol(r) \/ FinishCanceled(r) \/ FreePlace(r)
  \/ Leave(r)

Next ==
  \/ \E r \in Runs :
       \/ \E s \in Symbols : Start(r, s)
       \/ AcquirePlace(r) \/ EnterSymbol(r) \/ RunStep(r)
       \/ \E d \in {"approve", "reject"} : Resolve(r, d)
  \/ \E o \in Others : OtherLocks(o) \/ OtherUnlocks(o)
  \/ CloseBegin \/ CloseEnd

Spec == Init /\ [][Next]_vars

(* Goroutines are scheduled, operations under a lock have deadlines, the     *)
(* approval's timer fires.  The two channels serve waiting senders in order, *)
(* so one that is free again and again is had at last.  Nobody has to start, *)
(* lock, answer or close.                                                    *)
FairSpec ==
  /\ Spec
  /\ \A r \in Runs : /\ WF_vars(RunStep(r))
                     /\ SF_vars(AcquirePlace(r))
                     /\ SF_vars(EnterSymbol(r))
  /\ \A o \in Others : WF_vars(OtherUnlocks(o))
  /\ WF_vars(CloseEnd)

-----------------------------------------------------------------------------
Alive(r) == step[r] \notin {"idle", "gone"}

(* service.go:266: a symbol has one run at a time, from its acceptance until *)
(* its goroutine has let go of everything.                                   *)
OneRunPerSymbol ==
  \A r, q \in Runs : Alive(r) /\ Alive(q) /\ symbol[r] = symbol[q] => r = q

(* An accepted run can be looked up until it has a result, however short the *)
(* history is and however many runs come after it; and the history is longer *)
(* than its limit only by runs that are still in flight.                     *)
HistoryKept ==
  /\ \A r \in Runs :
       step[r] \in {"queued", "placed", "locking", "run", "ask", "expire",
                    "canceled", "unrecorded"} =>
         runs[r] \in {"queued", "running"}
  /\ Cardinality(Recorded(runs)) > RunLimit => \A r \in Recorded(runs) : Alive(r)

(* approval/pending.go:154: the operator's answer and the timer never both   *)
(* win.  A run ends up with what its operator was told was taken, and with   *)
(* an approval only if one was given.                                        *)
DecisionHonoured ==
  \A r \in Runs : decision[r] # "none" =>
    IF told[r] = "none" THEN decision[r] = "expired" ELSE decision[r] = told[r]

(* After Close nothing runs, waits for an operator or holds a lock on behalf *)
(* of a run, and nothing ever will: the stores can be closed.                *)
ShutdownQuiet ==
  service = "closed" =>
    /\ pending = {} /\ sem = {}
    /\ \A r \in Runs : ~Alive(r) /\ stage[r] = "out"

(* An accepted run ends, whether or not anybody answers it. *)
RunEnds == \A r \in Runs : Alive(r) ~> ~Alive(r)

(* Close returns, whatever the runs are waiting for. *)
CloseReturns == service = "closing" ~> service = "closed"
=============================================================================
