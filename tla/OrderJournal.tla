---------------------------- MODULE OrderJournal ----------------------------
(* The durable order journal: orders/journal.go over the append-only event   *)
(* store of internal/persistence.  ApplyContext holds the journal's mutex    *)
(* for its whole body, so an append is one action with one disjunct per way  *)
(* it can end; the process may die in the middle of it or at any other time  *)
(* and NewDurableJournal rebuilds the view by replaying the store.           *)
(*                                                                           *)
(* An event is [id, status]: the id is the part of the Go EventID that tells *)
(* the events of one order apart ("open", "submit", "reconcile:filled", ...).*)
(* Payload, note and time are left out, so two events are equivalent exactly *)
(* when id and status agree.                                                 *)
EXTENDS OrderMachine, Sequences, Naturals, Functions, FiniteSets

CONSTANTS
  ClientIds,        \* the orders, each named by its client id
  Requests,         \* the events callers submit for an order: [id, status]
  MaxStored,        \* defaultMaxOrderEvents: events the file store aims to keep
  MaxTerminal       \* defaultMaxTerminalOrders: terminal orders PostgreSQL keeps

ASSUME RequestsAssumption ==
  Requests \subseteq [id : STRING, status : Statuses]
ASSUME RetentionAssumption == MaxStored \in Nat /\ MaxTerminal \in Nat

VARIABLES
  backend,  \* the event store this process runs on; fixed by configuration
  phase,    \* "down", "replaying", "up", or "refused": replay found a bad log
  events,   \* events[c]: Order.Events of the in-memory view, <<>> if no order
  stored,   \* stored[c]: the persisted events of order c, oldest first
  cursor    \* cursor[c]: how many of stored[c] the running replay has applied

vars == <<backend, phase, events, stored, cursor>>

Empty == [c \in ClientIds |-> <<>>]
Zero  == [c \in ClientIds |-> 0]

(* The file store renames a complete new image into place: an error means   *)
(* nothing was written.  PostgreSQL can lose the answer to a COMMIT, so the  *)
(* error may come back for an event that is stored.                          *)
Backends == {"file", "postgres"}

TypeOK ==
  /\ backend \in Backends
  /\ phase \in {"down", "replaying", "up", "refused"}
  /\ events \in [ClientIds -> Seq(Requests)]
  /\ stored \in [ClientIds -> Seq(Requests)]
  /\ cursor \in [ClientIds -> Nat]

-----------------------------------------------------------------------------
StatusAfter(log) == log[Len(log)].status

SeenIn(log, e)   == \E i \in 1..Len(log) : log[i].id = e.id
SameIn(log, e)   == \E i \in 1..Len(log) : log[i] = e

(* validateLocked: the first event opens the order, later ones obey the      *)
(* status table and never open it again.                                     *)
Validates(log, e) ==
  IF log = <<>>
    THEN e.status = "new"
    ELSE e.status # "new" /\ ValidTransition(StatusAfter(log), e.status)

(* applyLocked *)
Materialize(c, e) == events' = [events EXCEPT ![c] = Append(@, e)]

(* Variant: retention drops orders that are still open. *)
ExpiredAny(log) == {c \in ClientIds : log[c] # <<>>}

Expired(log) == {c \in ClientIds : log[c] # <<>> /\ IsTerminal(StatusAfter(log[c]))}

(* compactOrderEvents: while the file holds more than MaxStored events, the  *)
(* complete histories of terminal orders go, oldest first.  Ages are left    *)
(* out, here and in FitsRows: any terminal order may be the oldest.          *)
StoredCount(log, kept) == FoldFunctionOnSet(LAMBDA h, n : Len(h) + n, 0, log, kept)

FitsFile(log, gone) ==
  /\ StoredCount(log, ClientIds \ gone) > MaxStored => gone = Expired(log)
  /\ gone # {} => \E c \in gone :
       StoredCount(log, (ClientIds \ gone) \cup {c}) > MaxStored

(* PostgreSQL prunes when a terminal event is stored, and keeps the newest   *)
(* MaxTerminal terminal orders whatever their number of events.              *)
FitsRows(log, gone, e) ==
  IF IsTerminal(e.status)
    THEN IF Cardinality(Expired(log)) <= MaxTerminal
           THEN gone = {}
           ELSE Cardinality(Expired(log) \ gone) = MaxTerminal
    ELSE gone = {}

(* Variant: of an archived order the last event stays. *)
CompactToLast(log, e) ==
  \E gone \in SUBSET Expired(log) :
    /\ IF backend = "file" THEN FitsFile(log, gone) ELSE FitsRows(log, gone, e)
    /\ stored' = [c \in ClientIds |->
         IF c \in gone THEN <<log[c][Len(log[c])]>> ELSE log[c]]

Compact(log, e) ==
  \E gone \in SUBSET Expired(log) :
    /\ IF backend = "file" THEN FitsFile(log, gone) ELSE FitsRows(log, gone, e)
    /\ stored' = [c \in ClientIds |-> IF c \in gone THEN <<>> ELSE log[c]]

(* AppendOrderEvent of both stores: a known id with the same content is a    *)
(* no-op, a known id with other content is an error; a new event is appended *)
(* and the log compacted.  PostgreSQL also wants the order to have a row.    *)
Persist(c, e) ==
  IF SeenIn(stored[c], e)
    THEN SameIn(stored[c], e) /\ UNCHANGED stored
    ELSE /\ backend = "postgres" /\ stored[c] = <<>> => e.status = "new"
         /\ Compact([stored EXCEPT ![c] = Append(@, e)], e)

(* ApplyContext up to the call of the store: not a replayed id, and valid.   *)
Admitted(c, e) ==
  /\ phase = "up"
  /\ ~SeenIn(events[c], e)
  /\ Validates(events[c], e)

-----------------------------------------------------------------------------
Init ==
  /\ backend \in Backends
  /\ phase = "up"
  /\ events = Empty
  /\ stored = Empty
  /\ cursor = Zero

(* The event is persisted, then materialized and acknowledged. *)
Apply(c, e) ==
  /\ Admitted(c, e)
  /\ Persist(c, e)
  /\ Materialize(c, e)
  /\ UNCHANGED <<backend, phase, cursor>>

(* Variant: the file store, too, may report a failure after its rename. *)
ApplyPersistedButFailedAnywhere(c, e) ==
  /\ Admitted(c, e)
  /\ Persist(c, e)
  /\ UNCHANGED <<backend, phase, events, cursor>>

(* The store wrote the event but the caller is told it failed: the in-memory *)
(* view keeps its old status.                                                *)
ApplyPersistedButFailed(c, e) ==
  /\ backend = "postgres"
  /\ Admitted(c, e)
  /\ Persist(c, e)
  /\ UNCHANGED <<backend, phase, events, cursor>>

(* The process dies after the store wrote the event and before the view was  *)
(* updated or the caller told.                                               *)
ApplyThenCrash(c, e) ==
  /\ Admitted(c, e)
  /\ Persist(c, e)
  /\ phase' = "down"
  /\ events' = Empty
  /\ UNCHANGED <<backend, cursor>>

Crash ==
  /\ phase \in {"up", "replaying"}
  /\ phase' = "down"
  /\ events' = Empty
  /\ cursor' = Zero
  /\ UNCHANGED <<backend, stored>>

(* NewDurableJournal: load the stream, start from an empty view. *)
Restart ==
  /\ phase \in {"down", "refused"}
  /\ phase' = "replaying"
  /\ events' = Empty
  /\ cursor' = Zero
  /\ UNCHANGED <<backend, stored>>

ReplayMoves(c, accepted) ==
  IF accepted
    THEN cursor' = [cursor EXCEPT ![c] = @ + 1] /\ phase' = phase
    ELSE phase' = "refused" /\ cursor' = cursor

(* One iteration of Replay: an event already applied is skipped, an event    *)
(* the view rejects refuses the whole log.  Orders do not share state, so    *)
(* the order in which their events interleave in the stream is left open.    *)
ReplayEvent(c) ==
  /\ phase = "replaying"
  /\ cursor[c] < Len(stored[c])
  /\ LET e == stored[c][cursor[c] + 1]
     IN  IF SeenIn(events[c], e)
           THEN events' = events /\ ReplayMoves(c, SameIn(events[c], e))
           ELSE IF Validates(events[c], e)
             THEN Materialize(c, e) /\ ReplayMoves(c, TRUE)
             ELSE events' = events /\ ReplayMoves(c, FALSE)
  /\ UNCHANGED <<backend, stored>>

(* Variant: the journal comes up before the whole stream is read. *)
ReplayDoneEarly ==
  /\ phase = "replaying"
  /\ phase' = "up"
  /\ cursor' = Zero
  /\ UNCHANGED <<backend, events, stored>>

ReplayDone ==
  /\ phase = "replaying"
  /\ \A c \in ClientIds : cursor[c] = Len(stored[c])
  /\ phase' = "up"
  /\ cursor' = Zero
  /\ UNCHANGED <<backend, events, stored>>

Next ==
  \/ \E c \in ClientIds, e \in Requests :
       \/ Apply(c, e)
       \/ ApplyPersistedButFailed(c, e)
       \/ ApplyThenCrash(c, e)
  \/ \E c \in ClientIds : ReplayEvent(c)
  \/ Crash
  \/ Restart
  \/ ReplayDone

Spec == Init /\ [][Next]_vars

-----------------------------------------------------------------------------
(* A log that Replay accepts from its first event to its last. *)
Legal(log) ==
  /\ log # <<>> => log[1].status = "new"
  /\ \A i \in 1..(Len(log) - 1) :
       /\ ValidTransition(log[i].status, log[i + 1].status)
       /\ log[i + 1].status # "new"
  /\ \A i, j \in 1..Len(log) : log[i].id = log[j].id => i = j

(* The view never holds an order whose own history breaks the status table   *)
(* or applies one event twice, whichever store it runs on and whatever that  *)
(* store answered: ApplyContext validates before it persists.                *)
ViewLegal == \A c \in ClientIds : Legal(events[c])

(* A running journal over the file store shows exactly what a restart would  *)
(* rebuild; the only orders it knows and the store has dropped are terminal, *)
(* so retention never loses an order reconciliation would have to settle.    *)
ViewMatchesStore ==
  backend = "file" /\ phase = "up" =>
    \A c \in ClientIds :
      \/ stored[c] = events[c]
      \/ /\ stored[c] = <<>>
         /\ IsTerminal(StatusAfter(events[c]))

(* Every log the file store can hold is one NewDurableJournal accepts, so    *)
(* startup is never refused over its own writes.                             *)
FileStoreReplayable ==
  backend = "file" =>
    /\ phase # "refused"
    /\ \A c \in ClientIds : Legal(stored[c])

(* The comment on Journal (orders/journal.go:44-47): mutations are persisted *)
(* before the view changes, "so a failed write can never authorize an order  *)
(* that cannot be recovered after restart".  It says so of every store.      *)
StoreReplayable ==
  \A c \in ClientIds : Legal(stored[c])

(* A journal comes up after a restart only with the complete stored history  *)
(* of every order, never with a part of it.                                  *)
RestartRestoresLog ==
  [][phase = "replaying" /\ phase' = "up" => events' = stored']_vars

(* The promise of OrderLifecycle, kept by the stored logs of the file store. *)
(* Over PostgreSQL the stored status is pinned, and nothing is claimed.      *)
StoredStatus(c) ==
  IF backend # "file" \/ stored[c] = <<>> THEN "absent" ELSE StatusAfter(stored[c])

Recorded == [c \in ClientIds |-> StoredStatus(c)]

Lifecycle == INSTANCE OrderLifecycle WITH recorded <- Recorded

LifecycleImplemented == Lifecycle!LifecycleSpec
=============================================================================
