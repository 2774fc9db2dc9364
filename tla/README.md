# Verification of cyp-agent

cyp-agent is a trading agent for crypto perpetuals: analysts backed by language
models propose a trade, deterministic rules size or reject it, and an execution
path places it at OKX or on a paper venue, keeps it protected by stop orders and
reconciles what it believes with what the exchange holds. A mistake of the
second half costs money without anybody asking for it: an order sent twice, a
position without a stop, a gate that opens over an account nobody is sure of.
That half is what these modules are about.

TLC model-checks small instances (`tlc -config X.cfg Module`), TLAPS proves the
theorems of the `...Proofs` modules for every value of the constants. Paths below are relative to `src/internal/`.

## 1. The system

### Components, their state and their operations

| Component | State | Operations | What makes it correct |
|---|---|---|---|
| **Order journal** `orders/` | materialized orders by client id, event ids seen | `OpenContext`, `TransitionContext`, `Replay` | every order obeys the status table; the view is what a restart rebuilds; an event counts once |
| **Event stores** `persistence/` | order events, checkpoints, lessons; a file or PostgreSQL; the execution lease | `AppendOrderEvent`, `LoadOrderEvents`, retention, lease | a write is whole or absent; retention never loses an open order; one process executes |
| **Safety gate** `runtime/safety.go` | frozen, reconcileActive, two generations | `Freeze`, `BeginReconcile`, `CompleteReconcile`, `CheckNewPosition` | a stale clean report never opens the gate over a newer freeze |
| **Engine** `runtime/engine.go` | reconcileMu, loops, lifecycle | `Start`, `StartupReconcile`, `Stop` | one reconciliation at a time; loops stop before the venue is torn down |
| **Trade execution** `orchestrator/` | run records, the handlers' local state | `run`, `remediateProtection`, `flattenPosition`, `prepareReversal`, `CompleteReduceOnly`, `FinalizeClose` | an open position is protected or the gate is shut; no entry follows a freeze |
| **Reconciliation** `runtime/reconcile.go`, `orchestrator/order_reconcile.go` | reads of the venue, the verdict | `Reconcile`, `ReconcileOrders` | a clean verdict means journal and venue agree |
| **Exits and manual closes** `app/application.go`, `api/dashboard.go`, `runtime/exit_manager.go` | none of their own | `executeAutomatedExit`, `closePosition` | closes the position decided on and nothing else |
| **Symbol locks, run admission, approvals** `runtime/symbols.go`, `orchestrator/service.go`, `approval/` | locks with waiters, runs in flight, pending approvals | `Lock`, `start`, `Decide`, `Resolve`, `Close` | no run is admitted twice, an approval is decided once, shutdown waits |
| **OKX execution** `venue/cex_okx_trade.go` | the order at the exchange | `placeOKX`, `recoverOKXOrder`, `waitOKXOrder`, `cancelOKX`, `ReconcileOrder` | one request per order, only final results are returned |
| **Paper venue** `venue/paper.go` | balance, positions, protective orders | `Place`, `SetMarkPrice`, `ReconcileOrder` | idempotent fills; a stop closes its own position |
| **Position monitor, scanner, recorder** `runtime/`, `ohlcv/` | cooldowns, queues | `CheckOnce`, `Scan`, `Record` | critical margin freezes; full queues do not block |
| **Risk ledger** `riskstate/` | open trades, loss streaks, equity marks | `RecordOpen`, `RecordClose`, `ReconcilePositions` | a close realizes its open once; a failed save rolls back |
| **Risk rules** `risk/` | none (pure) | `Assess` | an approved size is within every cap |
| **Control** `control/`, `runtimeprefs/` | kill switch, mode, settings | `SetKill`, `UpdateSettingsPersist` | a settings edit never undoes a kill |
| **Event bus** `events/` | history, subscribers | `Publish`, `SubscribeReplay` | what a stream misses is counted, or was out of its reach |
| **Token budget** `tokenusage/` | usage, reservations, pause | `Reserve`, `Record`, the writer loop | reservations never exceed the budget |
| **LLM client** `llm/` | circuit breaker, a run's budget window, retries | `Text`, `JSON` | a provider that failed is tried again; neither budget is overshot by calls made at once |
| **Exit model, reversal tracker** `runtime/exit_model.go`, `orchestrator/reversal.go` | series per position, signals, reversals of the day | `Observe`, `CheckOnce` | evidence belongs to the position it is used on; the daily limit holds |
| **Mode policies and production gate** `runtime/mode.go`, `config/`, `venue/cex.go` | none | `LiveGuard`, `ValidateExecution` | the gate's four statements agree |
| **HTTP API** `api/` | account cache, event streams, settings handler | | a view asked for after a close shows it |
| **Agents, data, dashboard, alerts, logs, backtest, other venues** | transport, presentation, prompts | | outside this development |

### How they interact

A run (`Service.run`) decides, takes the symbol's lock, asks the gate, appends
`new` and `submitting` to the journal, calls `venue.Place`, journals the answer,
and if the fill is not provably protected it remediates, then flattens. A
reversal first closes the opposite position through the same journal. Automated
exits and manual closes take the same lock. Reconciliation runs at startup,
after a venue switch and on `POST /api/reconcile`; it holds only the engine's
`reconcileMu`, so it runs **beside** the runs and closes, reads the venue first and the
journal later. Everything that cannot be decided freezes the gate (`freezeDurability`,
`freezeUnknownOrder` and their counterparts in the closes); only a clean reconciliation opens it again. Of
orders, the journal and the exchange alone survive a restart; ledger, lessons and saved settings are checkpoints of the same store.

### What is hard about it

Freezes during a reconciliation; a reconciliation during a fill; answers lost on
the way from the exchange or from the database; requests that arrive after their
sender gave up; a crash between any two of persist, apply, send and record; a
stop that triggers while its position is being closed; cleanups that fail half
way; deadlines between two attempts. `PROJECT.json` lists each hazard at its
line with the properties that would catch it, or the reason why none does.

## 2. The modules

| Module | Models | Built on |
|---|---|---|
| `OrderMachine` | the status table of `orders/machine.go` | |
| `OrderLifecycle` | *abstract*: what any reader of the journal may rely on - each order moves along the table, terminal histories may be archived | `OrderMachine` |
| `OrderJournal` | the journal over the file and the PostgreSQL store | `OrderMachine`; implements `OrderLifecycle` |
| `GateContract` | *abstract*: the gate without numbers - shut, reconciling, overtaken | |
| `SafetyGate` | `SafetyState` with its generations, `StartupReconcile` with its lock | implements `GateContract` |
| `PlaceContract` | *abstract*: what `venue.Place` promises to the execution path | |
| `OkxPlace` | the OKX order protocol | implements `PlaceContract` |
| `TradeExecution` | a symbol's runs, closes, monitor, reconciliation, exchange and restarts | `OrderMachine`, `GateContract` |
| `SymbolMutex` | *abstract*: one holder per symbol, no holder waits for another symbol | |
| `SymbolLocks` | `runtime.SymbolLocks`: entries made on demand and deleted with their last user | implements `SymbolMutex` |
| `RunAdmission` | `start`, a run's goroutine, `PendingGate`, the run history, `Close` | `SymbolLocks` |
| `PaperVenue` | `venue/paper.go`: balance, position, triggers, fills of one symbol | |
| `RiskLedger` | `riskstate/tracker.go` and the count of a position's entries | |
| `PaperTrading` | what runs (with adds and reversals), closes, exits, flattens and reconciliations do to the two | `PaperVenue`, `RiskLedger`, `GateContract` |
| `EngineLifecycle` | `Start`, the loops, the monitor's freeze, requests to reconcile, `Stop` | extends `SafetyGate` |
| `ScanLoop` | `Scanner.Run` with its schedule, the settings edited beside it | |
| `RunHistory` | checkpoints and lessons over the three repositories, and who saves, prunes and reads them | |
| `AccountCache` | the dashboard's cached account and the manual close that invalidates it | |
| `FileStore` | the replacement of the file repository's document, crash by crash | |
| `ExecutionLease` | the advisory lock of a session, its validation, two processes on one account | |
| `LlmBudget` | a call of the LLM client: circuit, session budget, day's budget, retries, the tracker's queue | |
| `EventBus` | publication, history, bounded streams, browsers that connect again | |
| `ControlState` | settings edits, the kill switch, what is saved, restarts | |
| `RiskSizing` | from a signal to an approved size: strategist, tranches, rules, leverage, approval, the repeating loop | |
| `PositionAutomation` | reversal tracker and exit model of one position | |
| `ExecutionPolicy` | which configurations may trade, in the four places that say it | |
| `OrderJournalProofs`, `SafetyGateProofs`, `TradeExecutionProofs`, `RunAdmissionProofs`, `PaperTradingProofs`, `RiskSizingProofs`, `RunHistoryProofs`, `ServiceProofs` | theorems; `OrderJournalProofs` holds those of `OkxPlace`, `RunAdmissionProofs` holds those of `SymbolLocks`, too, `PaperTradingProofs` those of `PaperVenue`, and `ServiceProofs` those of `ExecutionLease`, `FileStore`, `AccountCache`, `ScanLoop`, `ControlState`, `PositionAutomation`, `LlmBudget`, `ExecutionPolicy` and `EventBus` | |
| `MC...` | constants for TLC, symmetry; `MCServices`, `MCEngine` and `MCRunAdmission` put components that share no state into one run | |

The abstract modules are where the parts meet: `TradeExecution` uses the
actions of `GateContract` for the gate, the outcomes `PlaceContract` allows for
the venue and the one-holder lock of `SymbolMutex` for its symbol, and the detailed modules are shown to implement those contracts. An
order's journal in `TradeExecution` is its status alone, which is what
`OrderLifecycle` leaves of the journal.

Definitions whose comment starts with *Variant:* are plausible mistakes of the
code they stand beside (a dropped guard, a missing reset). No specification uses
them; they name, for each property, a change of the code that breaks it, and each was
run in place of the original to see the property fail.

### Order journal

`ApplyContext` runs under the journal's mutex, so an append is one action per way
it can end: `Apply`, `ApplyPersistedButFailed` (a COMMIT whose answer is lost,
PostgreSQL only) and `ApplyThenCrash`. `Persist` is `AppendOrderEvent`: a known id
with the same content is a no-op, with other content an error; then retention
(`Compact`) drops whole histories of terminal orders. Startup is `Restart`, one
`ReplayEvent` per event, `ReplayDone`; a log that does not replay leaves the
phase `refused`. An event is `[id, status]`: times, notes and payloads take part in
nothing except equality, and ids that differ in content differ here in status.
Ages are not kept; any terminal order may be the oldest.

### Safety gate

One action per method of `SafetyState`. `StartupReconcile` is `TryLock`,
`BeginReconcile`, `CompleteReconcile`, with freezes in between. `GateContract` has no
generations: the mapping reads `overtaken` as "reconciling and the generations
differ".

### Trade execution

One symbol, net mode. A handler's `step` is the call it makes next: `decide` -> `open`
-> `submit` -> `post` -> `await` -> `record` -> `protect` -> (`remediate` -> `flatten` ->)
... -> `done`. The three reduce-only closes are the same steps with `work` other than
"entry", followed by `finalize` (position flat, protective orders canceled and read back
as gone) and `complete` (close the order and sweep the symbol's others). Every
call of the store may fail (`Journaled`), every call of the venue may fail, be refused or stay
unknown, a request counted unknown may still arrive, orders fill while nobody
looks, stops trigger, the monitor freezes, the process restarts.

A position is named by the run whose entry opened it and a protective order by
the run it belongs to, so a leftover stop is told apart from the position's own.
Reconciliation is a process of its own with the order of reads of the code: positions
(`ReconcileRead`), a copy of the open orders (`ReconcileList`), one order at a time
(`ReconcileOrder`), protection gaps (`ReconcileGaps`), the verdict.

`Windows` names two windows which the runs open or close deliberately:

* `"overlap"`: a reconciliation may span a change of the position. Closed, the
  position stands still between the reconciliation's first read and its verdict.
* `"hang"`: the venue may hang until remediation's 45 s context expires between
  two attempts, after which `remediateProtection` returns without freezing. No run opens
  it; with it open `ProtectedOrFrozen` fails at that return.

### OKX orders

`placeOKX` from its order request on, `recoverOKXOrder`, the polling loop with its bound,
`cancelOKX` and the confirming loop, and `ReconcileOrder`, which shares recovery and
polling but never cancels. The exchange matches, drops and receives the order
between any two requests. `Windows`: `"recovery_read"` (the order was found by its client id, reading it then
fails) and `"undecodable"` (a 2xx answer that is not valid JSON; no run opens it,
with it open `RefusedMeansNoOrder` and `ContractKept` fail).

### Run admission

A run's `step` follows the goroutine that `start` spawns: `queued` (the select on the
semaphore and the context) -> `placed` -> `locking` (the lock's own select) -> `run` (with
`ask` and `expire` while `PendingGate.Decide` waits) -> `recorded` -> `unlocked` -> `free` -> `leave` ->
`gone`; a cancellation leaves from `queued` or by way of `canceled` and `unrecorded`. Every deferred call is
a step: the result is recorded under the lock, the channel's slot is given back before
the entry's reference, the place before the in-flight entry, pruning and
`wg.Done`. `Start` is one action because it runs under the service's mutex. Lock
entries are named by their maker and symbol, so one that was deleted and made
again while a goroutine still points to the old one would show. `told` and the
counters' sets are history. The gate's refusal of a start, a run's work on its symbol and
the contents of a proposal are left out: a refusal changes nothing and the work is
`TradeExecution`'s.

### Paper trading

`PaperVenue` is one symbol and instrument at the paper venue. Amounts are integers; a position keeps its
entry notional instead of the rounded average price, and margins and fees are rounded down.
`SetMarkPrice` fires the triggers, `PlaceEntry` opens or adds (the whole position is margined anew at the
add's leverage, `Cost`), `PlaceClose` takes the side of what is held. `cash` is history: what fills paid in and
out, counted without margins. `RiskLedger` has one operator per mutation of the tracker; each saves and rolls
back, so a failed save is a step of the caller.

`PaperTrading` lets the handlers of the symbol hold its lock one at a time, so one `step` is enough:
a run goes `decide` -> (`close` -> `book` -> `reopen` ->) `enter` -> `protect` -> `open`, a manual close, an automated exit and
the flatten go `close` -> `book`. `RunBegin` sets the mark, which may stop the position out, and reads
what is left. `RunPropose` is the rest of the decision: gate, consecutive losses, `evaluateAddOn`. `ExitDecide` reads
a position outside the lock and `ExitBegin` uses it under it. Every call that saves something before an
order or its booking (checkpoint, journal, equity, opening trade) is `SaveFails`, because all of them freeze and return;
closing trades are `BookCloseFails`, because a reversal's does not freeze. The ledger's half of a
reconciliation and its check for stops are one action, since the ledger does not depend on the stops.
`parts`, `brought`, `stale` and `excused` are history: the entries in the present position, what each order made
for the account, the closes that hit another position than the one read, and the orders filled before a
freeze of their handler. After a fill the run asks for the balances before it books (`service.go:764`); at the paper venue this fails only when
its 45 s context has run out, and is left out.

### Engine, scanner, history, cache

`EngineLifecycle` adds to the gate the calls that surround it. A caller is a `Start` (at boot, or `EnsureRuntime` after a
settings edit) or a request to reconcile; `pc` follows it through `BeginStart`, `EnterReconcile` (where a taken
mutex is `ErrReconcileInProgress`, with which a `Start` goes on degraded), `CheckContext`, `MarkStarted`, `Spawn`. The
three loops are pairs of a name and the `Start` that launched them, so a second `Start` beside `Stop` shows. `Stop` is
`StopEngine`, `StartIsDone`, `LoopsAreDone`, `ResetFlags`, with `StopTimesOut` between any two. The monitor's `Poll` counts
looks at a position without a stop; the exchange is the Boolean `gap`. A freeze of a gate that is shut and has no
reconciliation to overtake is skipped by the callers of the engine, since nobody compares its number any more.

`ScanLoop` is `Scanner.Run` call by call: a cycle, the gate asked *before* a symbol's lock is waited for, the run, then the interval
read, the timer reset and the select, in that order; `PublishEdit` and `NotifyScheduleChanged` are the two
halves of a settings edit and may fall between any two of them. `RunHistory` tells the repositories apart by what a failure
leaves: nothing in memory and file, an unknown outcome in PostgreSQL, whose lessons transactions (`InsertLessons`,
`CommitLessons`) run beside one another. `AccountCache` keeps the mutex over both reads of the venue as `Load` does; an account
is the number of changes it has seen.

### The file and the lease

A document in `FileStore` is the number of mutations it holds. Every call of the file system is an action that works or
fails (`Call`), in both worlds: where a rename replaces and where it does not (`replaces`). A crash of the machine may undo
renames no directory sync followed. `ExecutionLease` numbers PostgreSQL's sessions; a pooler may put a live connection on
another session (`Rebind`), which is why `validateExecutionLeaseLocked` compares process ids. A request validated before
its session was lost still goes out: that window is in the code, and `OneExecutor` says exactly how wide it is.

### Budgets, streams, settings

In `LlmBudget` tokens stand for dollars too, for both are gated alike; the day of a call's event is fixed at its entry, the day it
reserves on later, and midnight may fall between. `excess` counts what the gate cannot foresee. In `EventBus` the
timestamp is read before the lock (`Stamp`, `Publish`), so the history may be out of time order; a browser reconnects with
the timestamp it saw last. In `ControlState` an edit works on a copy under `updateMu` while the kill switch changes
the original; saving may fail after it was done. Four fields stand for the settings: one saved by itself, two saved as a block
with a constraint between them, one never saved.

### Sizes, exits, reversals, policies

`RiskSizing` is arithmetic on whole percentages and quote units, rounded to the safe side as the code's decimals are not:
every quotient that becomes a size is rounded down, leverage up. `Rooms` holds what each downsizing rule leaves; `Rejected` is the vetoes;
`Leveraged`, `AutoAllowed`, `Suggested` and `AddOns` are the pure functions of their files, sets because they may have no result.
The state machine around them is the order of calls in `run`, with the account read once (`context`), the operator's
modified size, and the loop of `reassessExecutableProposal` with its limit of three.

`PositionAutomation` keeps, per side, the series of `ExitModel` (samples, peak, confirmations) and the tracker's signal; a run's
verdict is observed only if it gets as far as `decideReversal`. `ExecutionPolicy` starts in every configuration there is.

## 3. The runs

| Run | Instance | Shows |
|---|---|---|
| `services` | nine components, one of which moves; constants in `MCServices.cfg` | the journal is always a legal history that a restart rebuilds, and implements `OrderLifecycle`; no acknowledged mutation of the file is lost; one process executes; budgets, streams and settings keep their promises; sizes are within the limits; reversals and exits are limited and based on recent evidence; the gate's statements agree |
| `journal_ambiguous` | 1 order, a path to a terminal status | *violated*: finding 1 |
| `engine` | 2 `Start`s and 1 request, 2 freezes; beside it history, cache, scanner; fair | `GateContract` is implemented inside the engine; nothing runs after `Stop`; a reconciliation ends; a position that stays without a stop shuts the gate; system state and lessons outlive retention; closes are shown; a scanner sleeps as long as it should |
| `trade` | 2 runs, or 1 run and 1 exit; fair | protected or frozen; no stop and no position without an open order; an unknown outcome keeps the gate shut; at most one entry slips past a freeze; the lock is always given back |
| `trade_overlap` | 1 run, 1 exit, `"overlap"` | *violated*: finding 2 |
| `trade_reversal` | 2 runs | *violated*: finding 3 |
| `admission` | 2 runs, 1 other user of locks, 2 symbols; beside it one OKX order, 2 polls; fair | one run per symbol; an accepted run stays known and the history bounded; operator and timer never both win; after `Close` nothing is left; one request, final results only, `PlaceContract` implemented; runs, `Close` and `Place` end |
| `okx_place_recovery` | 2 polls, `"recovery_read"` | *violated*: finding 4 |
| `paper` | 3 handlers, 1 failed save, 2 reconciliations, 1 add, 2 losses; marks 10, 20, 30 | equity is conserved; the ledger books what the account made; a fill is booked or its handler froze; positions stay within their adds |
| `paper_flatten` | the same | *violated*: finding 5 |
| `exposure` | 2 runs of different symbols, 4 signals, 4 accounts | *violated*: finding 6 |
| `reversal` | one position, 2 confirmations, 5 instants | *violated*: finding 7 |

**Several components in one run.** In `services`, `engine` and `admission` the variable `part` names, from the initial state on, the one
component that moves; the others stay as they began. They share no state in the program either, so nothing is lost, and
the state space is the sum of theirs. Where they do interact, one module has both sides: `EngineLifecycle` the gate,
`ScanLoop` the edits, `TradeExecution` the contracts.

**Bounds.** *Journal*: two orders are the least that let one be archived while the other is
open; the 7 requests are those of `run`, `CompleteReduceOnly` and
`ReconcileOrders`: paths to two terminal statuses, one id used with two contents, and two ids for one
status. Limits of 4 events and 1 terminal order make retention act both below and above its limit; logs are finite because ids
are. *File*: 3 mutations and 3 mishaps are a failed mutation, one after it and a crash in either. *Lease*: 5 sessions
let both processes lose one and one be put on another. *LLM*: a budget of 4, an
allowance of 2 and usages of 1 and 3 lie on both sides of it, 3 calls make one too many; a queue of 1, a threshold of 1 and 1
retry are met at once. *Streams*: 3 publications with a history of 2, a buffer and a replay of 1 drop, retire and skip events.
*Settings*: two requests overlap, edits touch every kind of field, two toggles throw and release the switch. *Sizing*: a long, an
add, a spot order and a volatile short, at accounts that are calm, decided by hand, nearly exposed, and losing; several rules are the
tightest in turn, and leverage, size and approval shrink one another. *Automation*: five instants
are two days. *Engine*: two `Start`s beside a request compete for the mutex, two freezes
put one before and one during a reconciliation. *History*: limits of 1 run and 2 lessons are passed by 2 runs and 4 lessons. *Cache,
scanner*: 2 readers and 2 changes, 2 editors and 3 edits are one more than each property names.

*Trade*: two runs give an entry and a reversal of it, or an entry after a close that left something behind; a run with an
exit gives the close of a position and its race with the run's own handlers. A third actor only repeats: the lock
lets one handler act at a time, and what it leaves is in the journal, the gate and the exchange. Behaviours come in mirrored pairs, so the
first run has the first side. *Place*: two polls give a read that is not the last and one that is. *Admission*: two runs compete for
one place, for one symbol or for neither, and the second prunes the first; the third process makes a run
wait for its lock and inherit an entry it did not make. `Contended` keeps that process to one symbol. The code's
queue holds 16 symbols at least; with 2 runs a queue of 2 is never full, and a refusal there changes nothing. *Paper*: three
handlers give entry, add and close, entry, close and a second entry, or entry, reversal (two orders of
one handler) and what follows. Marks are a stop, an entry and a profit apart, fees and margins round, an add at leverage 3 gives
margin back, and a balance of 100 makes an entry that is too large be refused. Two losses in a row are
reached and stop the entries.

**Type invariants.** Each component has one (`TypeOK`, `EngineTypeOK`, `FileTypeOK`, ...). Those the theorems rest on
are proved; the runs list none of them, and all hold when they are added to the runs.

**Symmetry.** `services` permutes the calls of the language model and the names it uses for orders, processes, browsers and requests,
which only take part in different components; none of its properties is a liveness property. The other runs use none.

**Deadlock** is checked where the system goes on for ever: in `trade`, `admission` and `paper` and in the runs of findings 1 to 5. It is
switched off in `services`, `engine`, `exposure` and `reversal`, where it may stop: a sized order is
filled or rejected, bounded histories of writes, events and sessions end, an engine that was stopped stays so.

**Fairness.** `engine`: a caller goes on (`CallerStep`), since goroutines are scheduled and the reconciler works under a
context with a deadline whose errors complete, too; the monitor's timer fires and some of its polls are answered (`Poll`). No
signal, request, freeze or move of the venue is promised. `trade`: a handler that has the lock takes its next step; its
goroutine is scheduled, store and venue calls carry timeouts, and the wait for an order ends by
`AnswersOf`'s "unknown". Neither runs nor exits are assumed to begin, and
the exchange owes nothing: an order may work, and a lost request may travel, for ever. `admission`: each step of a run's
goroutine (weak); taking a place or the symbol's channel is strongly fair, because Go serves the senders
waiting on a channel first come, first served, so that one whose slot is freed again and again is had at last;
holders give their locks back; the approval's timer fires. Nobody has to start,
answer or close. The application's context ends only on the way to `Close` and is taken together with it. For an OKX order
the call goes on (`Post`, `Follow`), every request has the HTTP client's deadline; the exchange again owes nothing.

## 4. What is proved

For every set of orders, requests, callers, runs, exits, calls, processes, readers and edits, and every limit:

* `OrderJournalProofs`: `TypeCorrect`; `ViewAlwaysLegal`; `ViewAlwaysMatchesStore` and
  `FileStoreAlwaysReplayable`; `RestartRestores` (an action property);
  `JournalImplementsLifecycle` (the refinement). The assumptions are those of the module:
  requests are pairs of an id and a status, limits are naturals.
  The view is legal because `Validates` is exactly what `Legal` asks of one more event. That the *store* is
  legal needs more than `FileStoreReplayable`: the view during a replay must be the
  prefix of the stored log up to the cursor, and a running view must equal the stored log or the
  store must have dropped a terminal order. This is the strengthening: it
  relates `events`, `stored` and `cursor` phase by phase, with the fact that `Compact` either keeps or
  empties a log, and empties only terminal ones. An archived order cannot be appended to again
  because its in-memory status is terminal, and after a restart it is unknown to both.
* `SafetyGateProofs`: `TypeCorrect`; `GateNeverStale`; `GateKeepsContract` (the refinement). The
  invariant adds that at most one caller is past `TryLock`, that it is the one
  holding the lock, that `reconcileActive` holds exactly while it is reading and the gate is then shut, that the
  reconciliation's generation never exceeds the gate's, and that where the two differ the gate is shut.
  `EngineKeepsContract` and `StopMeansQuiet` carry this into the engine: every step of the engine is a step of the
  gate or leaves it alone, and a `Start` that may still launch loops is the one whose channel `Stop` waits for.
* `TradeExecutionProofs`: `TypesHold`, `FreezeStopsEntries`, `DoubtShutsTheGate`, `PositionsAreJournaled`, `StopsAreJournaled`,
  `ProtectionHolds`, in three layers. Each action is first reduced to what it does to lock, gate, journal and venue (the lemmas
  `...Moves`), so that the layers need not open it again.
  `SInv`: whoever is inside holds the lock, works on what its step allows, and an entry past its last check is alone and found
  the gate open. It is inductive whatever windows the environment hits, and a freeze lets at most that one entry slip.
  `JInv` adds the journal: which orders an actor has still to open, what status and answer stand behind each step of the handler
  at work, that an order in flight is its own or the gate is shut, and that a position and a stop come from an entry that filled
  and is still open. `KInv` adds `Shield`: a position without a stop behind an open gate belongs to the handler at work, at a step from which it
  can only protect, close or freeze.
  The hypotheses are those of the code. A reconciliation that spans a change of the position opens the gate over a position it did
  not see (finding 2), so the journal's theorems assume `"overlap" \notin Windows`; remediation that is cut off by its deadline
  returns without freezing, so `ProtectionHolds` assumes that both windows are closed. Reconciliations between
  handlers, lost answers, failed writes, refused stops, freezes and restarts are all in.
* `RunAdmissionProofs`, for `SymbolLocks`: `LocksImplementMutex` (the refinement). Two goroutines that lock a
  symbol must meet at the same entry. The invariant: everybody past `entryFor` points to the entry the map
  holds, its `references` is the number of those users, and an entry the map does not hold has none.
  So an entry leaves the map only with its last user, and its channel is full exactly while one user is inside.
* `RunAdmissionProofs`, for `RunAdmission`: `RunsKeepMutex`, `NeverTwoRuns`, `AnswersHonoured`, `CloseLeavesNothing`. `AInv` says what `start`
  registers for a run that is alive (the symbol is its own, the group counts it) and what each step holds
  (a place, the lock, an entry in the pending gate). `ShutdownQuiet` follows because whoever holds anything is alive,
  and the group counts exactly the living. `DecisionHonoured` needs the state of the channel between `Resolve` and
  the receive: with the entry gone, the answer is in the channel and the operator was told. `HistoryAlwaysKept`: `HInv` says that a record
  is queued or running exactly until its run has a result, and that too many records are all alive. What `pruneLocked` leaves
  follows from the first finished record that stays (the least-number principle): those in front of it go, and they are enough.
* `OrderJournalProofs`, for `OkxPlace`: `NeverPostedTwice`, `ReportsAreFinal`, `PlaceImplementsContract` (the refinement, under the assumption
  that both windows are closed). `CallInv` says what each place of the call knows: nothing has been sent before the request, a reply exists
  exactly when `Place` has returned, and a reconciliation looks only afterwards.
* `PaperTradingProofs`, for `PaperVenue`: `VenueConservesEquity`. The equation of `EquityConserved` is inductive once the margin is
  kept symbolic: `Balanced` is free quote plus margin minus signed entry notional equals cash, which no mark price enters. Proved for
  any fee, slippage, prices and intents, since the rounding of a margin cancels between entry, add and close.
* `PaperTradingProofs`, for `PaperTrading`: `TypeIsKept`, `EquityStaysConserved`, `FillsAreBookedOrFrozen`, `VenueIsImplemented` (`PaperTrading` uses the venue as
  `VenueSpec` says). The invariant adds `Locals` (a handler past its decision has a number, one that closes has read a position, one
  that enters has an intent, one that protects has a position) and `Accounted`: a fill is booked, excused by a freeze, or
  `Pending`, the last order of the handler at work. No booking is forgotten because the ledger only grows, a reconciliation's
  markers included.
  `LedgerAlwaysAgrees` and `AddsStayBounded` are about sums over the entries. The module first proves what a sum over a finite set is
  (empty, one element more, equal terms, one smaller term, an image): where a textbook would use induction, it takes a smallest
  counterexample. `BooksInv` adds to the above that a handler at work has nothing booked but the close of its reversal, and that what
  is about to be booked is what the order made. `AddsInv` says that the position is the sum of its entries' sizes, that each booked entry has an
  open trade with no close after it, and what the handler at work knows of the room. The key is `EntriesAreCounted`:
  `activeEntryCount` counts every booked entry, and one more if one is not booked, as otherwise the tracked sizes would not reach the position's.

* `RiskSizingProofs`: `SizesStayWithinLimits`. `LeveragedIs` says what the leverage model does to any order: it never makes it larger, and its margin
  is within the budget, so the only rule that depends on the leverage has nothing left to take (`MarginSuffices`). The other rules
  depend on neither size nor leverage; what the first turn leaves `Fits` them, and the second turn leaves it as it is
  (`FitsStays`). So `reassessExecutableProposal` needs two of its three turns, and "diverged" is never reached. `SizingInv` adds, stage by stage, that an order
  at the loop fits from its second turn on, that a tranche is a part of the position and only the policy decides on it (an operator, who might enlarge
  it, is never asked), and that what the policy approved is within its ceiling. `SizingAssumptions` says what the code validates
  (`config/load.go`: a positive liquidation buffer; `strategist.go`: a stop away from the price) and, as the prover knows nothing of `^`, that powers of
  naturals are naturals. Quotients are those of integers, rounded as in the model; TLC evaluates the assumption in `services` and `exposure`.
* `RunHistoryProofs`: `HistoryAlwaysRetained`. `Numbered` says that every row got its number once, those pending in open transactions
  included; `LostToNewer` that what is trimmed, or would be by a commit to come, has enough newer lessons. The bound on what is stored
  is not inductive: a commit adds a row and deletes what its own trim saw, which another commit may have deleted already. `RoomLeft`
  looks ahead: whichever set of the open transactions commits, what is left has room. An insert keeps it because its trim leaves
  `MaxLessons` and each other transaction adds one row; a commit because what it leaves is what was already looked at. `NewestAreTold` follows from what
  the first `n` of an ordered set are (`TopIsSmall`, `TopIsFull`). The assumption `20 * LessonLimit >= MaxLessons` is the code's: `getLessons` of
  PostgreSQL looks at 20 times the lessons it tells (`postgres.go:497`), 10 (`service.go:494`), and 200 are kept (`application.go:576`).
* `ServiceProofs`: the smaller components.
  `OneProcessExecutes`: sessions are numbered, so that the session that took the lock belongs to one process for good, and as long as it
  lives it has the lock. `DiskAlwaysAgrees`: `AtPlace` says, for each place in `mutate`, which of the three files holds which
  document; what can be recovered changes only with the rename that installs. `CloseAlwaysShown`: `Due` is the account of a close from its
  invalidation on, and everything cached or read under the mutex is at least that. `ScheduleStaysCurrent`: what
  holds of the sleep holds of the interval read for it, from the reading on. `SettingsAlwaysKept`: whoever works on a copy
  holds `updateMu`, so the copy is the published settings with its own edit over them; and what is saved of the automation
  block comes whole from such a copy. `ReversalsAlwaysLimited`: one run at a time is past its decision, and it decided while the day had
  room; midnight can only make more. `EvidenceAlwaysRecent`: samples and
  confirmations of a series never outrun the polls that found its position, and a manager that is switched off keeps no
  series. `BudgetAlwaysHeld`: a call let through today still has its reservation (`TodayIsHeld`), and the day's totals with one allowance
  for each call let through on it stay within budget and excess (`DayIsCovered`). What the tracker's queue will add to the store is
  no sum: `StoreIsBehind` says that an account exists, which begins with what is stored, grows by each queued
  event at least and ends within what is counted. `GatesAlwaysAgree`: an accepted configuration
  determines the answers of all four gates; the kill switch is no part of it. `StreamsStayComplete`: the history is what was
  published last, up to its limit; what a subscriber misses is counted exactly behind its subscription, and before it
  an event is delivered, on the way or out of the history's reach.

Only model-checked: everything under fairness, which is out of the prover's reach: `ReconcileEnds`, `GapFreezes`, `LockReleased`, `PlaceReturns`, `RunEnds`, `CloseReturns`.

## 5. Findings

1. **A lost COMMIT leaves a log that startup refuses** (`journal_ambiguous`,
   `StoreReplayable`). `orders/journal.go:44-47` says a failed write can never authorize an
   order that cannot be recovered. `AppendOrderEvent` of PostgreSQL (`postgres.go:300`) may report an error
   for an event it committed; the view stays behind, accepts another transition, and the
   stored log no longer replays.
2. **A reconciliation beside a fill** (`trade_overlap`, `ProtectedOrFrozen`).
   `reconcile.go:104` reads the positions before the orders; an entry that fills in between is
   judged flat, or its protection is canceled, and the gate opens over an unprotected position,
   against `docs/RISK.md:16` and `:28`.
3. **A reversal that cannot clean up** (`trade_reversal`, `ResidueMeansFrozen`).
   `reversal_execution.go:138` returns the error of its cleanup without a freeze, so the next run may open the
   symbol beside the old position's stops, against `docs/ARCHITECTURE.md:167`.
4. **An order found again and called refused** (`okx_place_recovery`,
   `RefusedMeansNoOrder`). `cex_okx_trade.go:205` returns the error of reading a recovered order without marking the
   outcome unknown, against the comment at `:247-249`.
5. **An add flattens a protected position** (`paper_flatten`, `FlattenedIfUnprotected`). For an add the paper venue keeps the
   tighter of the old and the new triggers (`paper.go:422`), `protectionSatisfied` (`protection.go:232`) wants the
   add's own. An add with a farther target, the normal case when the price has moved into profit, is taken for unprotected;
   the paper venue cannot place protective orders on their own, so the gate freezes and the whole position is closed, against
   `docs/ROADMAP.md:82`, where the emergency close is for missing orders.

6. **Exposures that are read once** (`exposure`, `ExposureWithinCap`). `orchestrator/service.go:582-603` reads the account before rules and
   approval, and only settings, kill switch and mark are refreshed afterwards (`:654`). Two runs of different symbols that each
   fit under the gross limit open positions that exceed it together, against `docs/RISK.md:31`.
7. **Reversal signals that are not consecutive** (`reversal`, `ConsecutiveSignals`). `docs/RUNTIME.md:108` wants consecutive confirmations, and the
   tracker forgets its count at a flat verdict (`orchestrator/reversal.go:61-65`), but `run` returns before it is asked about one
   (`service.go:524`). A flat verdict between two opposite ones does not keep the position from being reversed.

## 6. What is not modelled, and why

* **Sizes, prices, margin, the risk ledger** in `TradeExecution`: an order fills in full, in part or not at all, and the
  ledger's discrepancies appear only as a bad verdict. Sizes are `RiskSizing`'s, amounts `PaperTrading`'s, where an order fills in full or is
  rejected. Reviews and lessons are text.
* **Adding to a position of the same side** at OKX: the steps are those of an entry with a stop to be resized. At the paper venue it is modelled.
* **What the analysts and the strategist propose**: any signal of a small set in `RiskSizing`, any sane intent in `PaperTrading`, a free choice in
  `TradeExecution`. Prompts, parsing and indicators keep nothing that trading reads later.
* **A restart at the paper venue** forgets balance and position while the ledger keeps its trades; the next reconciliation
  marks them closed at no profit. `PaperTrading` has no restarts. A position that is stopped out is not booked by
  `RecordClose` either: `LedgerAgrees` speaks of booked orders, and `ConsecutiveLosses` does not see a stop-out.
* **Authoritative misses** of the paper venue: reconciliation treats "not found" as OKX's case, a discrepancy.
* **Time**: deadlines are nondeterministic; cooldowns and windows are kept where a property is about them
  (`PositionAutomation`, `LlmBudget`) and left out elsewhere. The exit model's trailing distance, an EWMA, is a free
  choice, and its limit on the holding time is left out.
* **Margin alerts** of the monitor, **equity marks, drawdowns, CVaR and order rate** of the ledger: `RiskSizing` takes their values as inputs.
* **OKX details** around an order: contract sizes, leverage settings, the retry of reads, protective algos one by one.
* **An order no close sweeps** (`reduce_only.go:78`): partially filled, nothing to protect. Every reconciliation reports it and the
  gate stays shut; this is safe, and no document promises that it opens again, so no property is about it.
* **The OHLCV recorder** puts a bounded queue in front of an archive the trading path never reads; a batch queued just as it closes
  (`ohlcv/recorder.go:90`) is lost although `Record` said true.
* **Read-only venues, backtest, alerts, logs, command line tools, dashboard, parsing of the environment**: no state the
  trading path depends on, or no behaviour over time.

## 7. What is left

1. Adds in `TradeExecution`, with the stop they resize.
2. The monitor's margin alerts and their cooldowns; drawdowns and the order rate of the ledger.
