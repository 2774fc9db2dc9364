------------------------- MODULE OrderJournalProofs -------------------------
(* Proofs about OrderJournal.  The invariant of the journal's own promises   *)
(* (ViewLegal, ViewMatchesStore, FileStoreReplayable) is not inductive:      *)
(* while the process is replaying, the view is a prefix of the stored log,   *)
(* and over the file store every stored log is legal.  Inv adds these.  At the   *)
(* end, what is proved about one order through the OKX adapter (OkxPlace).   *)
EXTENDS OrderJournal, OkxPlace, TLAPS

UniqueIds(log) ==
  \A i, j \in 1..Len(log) : log[i].id = log[j].id => i = j

(* A stored log and the view relate in a way that depends on the phase. *)
ViewFollows(c) ==
  /\ phase = "down" => events[c] = <<>>
  /\ phase = "replaying" =>
       /\ cursor[c] \in 0..Len(stored[c])
       /\ events[c] = SubSeq(stored[c], 1, cursor[c])
  /\ phase = "up" /\ backend = "file" =>
       \/ stored[c] = events[c]
       \/ /\ stored[c] = <<>>
          /\ events[c] # <<>>
          /\ IsTerminal(StatusAfter(events[c]))

Inv ==
  /\ TypeOK
  /\ ViewLegal
  /\ \A c \in ClientIds : UniqueIds(stored[c])
  /\ \A c \in ClientIds : ViewFollows(c)
  /\ FileStoreReplayable

(* Reading the status table: a terminal order moves nowhere.  *)
LEMMA StatusOfEvent ==
  ASSUME NEW log \in Seq(Requests), log # <<>>
  PROVE  /\ log[Len(log)] \in Requests
         /\ StatusAfter(log) \in Statuses
BY RequestsAssumption DEF StatusAfter

(* Appending an event the view accepts keeps a log legal: the case analysis  *)
(* of validateLocked is exactly what Replay asks of the log's last step.     *)
LEMMA LegalAppend ==
  ASSUME NEW log \in Seq(Requests), NEW e \in Requests,
         Legal(log), ~SeenIn(log, e), Validates(log, e)
  PROVE  Legal(Append(log, e))
<1> DEFINE new == Append(log, e)
<1>1. /\ Len(new) = Len(log) + 1
      /\ \A i \in 1..Len(log) : new[i] = log[i]
      /\ new[Len(log) + 1] = e
  OBVIOUS
<1>2. new # <<>> => new[1].status = "new"
  BY <1>1 DEF Legal, Validates
<1>3. \A i \in 1..(Len(new) - 1) :
        /\ ValidTransition(new[i].status, new[i + 1].status)
        /\ new[i + 1].status # "new"
  <2> TAKE i \in 1..(Len(new) - 1)
  <2>1. CASE i < Len(log)
    BY <1>1, <2>1 DEF Legal
  <2>2. CASE i = Len(log)
    <3>1. log # <<>>
      BY <2>2
    <3> QED BY <1>1, <2>2, <3>1 DEF Validates, StatusAfter
  <2> QED BY <1>1, <2>1, <2>2
<1>4. \A i, j \in 1..Len(new) : new[i].id = new[j].id => i = j
  BY <1>1 DEF Legal, SeenIn
<1> QED BY <1>2, <1>3, <1>4 DEF Legal

(* A prefix of a legal log is legal: replay passes only through legal views. *)
LEMMA LegalPrefix ==
  ASSUME NEW log \in Seq(Requests), NEW n \in 0..Len(log), Legal(log)
  PROVE  Legal(SubSeq(log, 1, n))
<1>1. /\ Len(SubSeq(log, 1, n)) = n
      /\ \A i \in 1..n : SubSeq(log, 1, n)[i] = log[i]
  OBVIOUS
<1> DEFINE prefix == SubSeq(log, 1, n)
<1>2. prefix # <<>> => prefix[1].status = "new"
  BY <1>1 DEF Legal
<1>3. \A i \in 1..(Len(prefix) - 1) :
        /\ ValidTransition(prefix[i].status, prefix[i + 1].status)
        /\ prefix[i + 1].status # "new"
  <2> TAKE i \in 1..(Len(prefix) - 1)
  <2>1. i \in 1..(Len(log) - 1) /\ i \in 1..n /\ i + 1 \in 1..n
    BY <1>1
  <2>2. prefix[i] = log[i] /\ prefix[i + 1] = log[i + 1]
    BY <1>1, <2>1
  <2> HIDE DEF prefix
  <2> QED BY <2>1, <2>2 DEF Legal
<1>4. \A i, j \in 1..Len(prefix) : prefix[i].id = prefix[j].id => i = j
  BY <1>1 DEF Legal
<1> QED BY <1>2, <1>3, <1>4 DEF Legal

(* What Persist does to the store: each log is kept, dropped when terminal,  *)
(* or, for the event's own order, extended by the event.                     *)
LEMMA PersistShape ==
  ASSUME TypeOK, NEW c \in ClientIds, NEW e \in Requests, Persist(c, e)
  PROVE  /\ stored' \in [ClientIds -> Seq(Requests)]
         /\ \A d \in ClientIds :
              LET moved == IF d = c /\ ~SeenIn(stored[c], e)
                             THEN Append(stored[c], e) ELSE stored[d]
              IN  \/ stored'[d] = moved
                  \/ /\ stored'[d] = <<>>
                     /\ moved # <<>>
                     /\ IsTerminal(StatusAfter(moved))
<1>1. CASE SeenIn(stored[c], e)
  BY <1>1 DEF Persist, TypeOK
<1>2. CASE ~SeenIn(stored[c], e)
  <2> DEFINE log == [stored EXCEPT ![c] = Append(@, e)]
  <2>1. log \in [ClientIds -> Seq(Requests)]
    BY DEF TypeOK
  <2>2. PICK gone \in SUBSET Expired(log) :
          stored' = [d \in ClientIds |-> IF d \in gone THEN <<>> ELSE log[d]]
    BY <1>2 DEF Persist, Compact
  <2>3. stored' \in [ClientIds -> Seq(Requests)]
    BY <2>1, <2>2
  <2>4. \A d \in ClientIds :
          log[d] = IF d = c THEN Append(stored[c], e) ELSE stored[d]
    BY DEF TypeOK
  <2> QED BY <1>2, <2>2, <2>3, <2>4 DEF Expired
<1> QED BY <1>1, <1>2

(* Persisting an event keeps the ids of every stored log apart. *)
LEMMA PersistKeepsIds ==
  ASSUME TypeOK, NEW c \in ClientIds, NEW e \in Requests, Persist(c, e),
         \A d \in ClientIds : UniqueIds(stored[d])
  PROVE  \A d \in ClientIds : UniqueIds(stored'[d])
<1> TAKE d \in ClientIds
<1>1. CASE stored'[d] = <<>> \/ stored'[d] = stored[d]
  BY <1>1 DEF UniqueIds
<1>2. CASE d = c /\ ~SeenIn(stored[c], e) /\ stored'[d] = Append(stored[c], e)
  <2>1. stored[c] \in Seq(Requests)
    BY DEF TypeOK
  <2> QED BY <1>2, <2>1 DEF UniqueIds, SeenIn
<1> QED BY <1>1, <1>2, PersistShape

(* Over the file store the view of a running journal matches the log, so an  *)
(* event the view admits extends the stored log legally, and a later one is  *)
(* never silently dropped as already stored.                                 *)
LEMMA PersistFromMatchingView ==
  ASSUME Inv, NEW c \in ClientIds, NEW e \in Requests,
         backend = "file", Admitted(c, e), Persist(c, e)
  PROVE  /\ stored[c] = events[c]
         /\ \A d \in ClientIds : Legal(stored'[d])
         /\ \/ stored'[c] = Append(events[c], e)
            \/ stored'[c] = <<>> /\ IsTerminal(e.status)
<1>1. stored[c] = events[c]
  BY DEF Inv, ViewFollows, Admitted, Validates, ValidTransition
<1>2. events[c] \in Seq(Requests) /\ Legal(events[c])
  BY DEF Inv, TypeOK, ViewLegal
<1>3. Legal(Append(events[c], e)) /\ ~SeenIn(events[c], e)
  BY <1>2, LegalAppend DEF Admitted
<1>4. Legal(<<>>)
  BY DEF Legal
<1>5. \A d \in ClientIds : Legal(stored'[d])
  BY <1>1, <1>3, <1>4, PersistShape DEF Inv, FileStoreReplayable
<1>6. StatusAfter(Append(events[c], e)) = e.status
  BY <1>2 DEF StatusAfter
<1> QED BY <1>1, <1>3, <1>5, <1>6, PersistShape DEF Inv

(* Extending a view that is a prefix of the stored log by the next event.    *)
LEMMA PrefixStep ==
  ASSUME NEW log \in Seq(Requests), NEW n \in 0..Len(log), n < Len(log)
  PROVE  Append(SubSeq(log, 1, n), log[n + 1]) = SubSeq(log, 1, n + 1)
OBVIOUS

-----------------------------------------------------------------------------
(* An empty journal over an empty store has it.                              *)
LEMMA InitInv == Init => Inv
BY DEF Init, Inv, TypeOK, ViewLegal, UniqueIds, ViewFollows, FileStoreReplayable,
       Legal, Empty, Zero, Backends

(* An append that succeeds keeps it.                                         *)
LEMMA ApplyInv ==
  ASSUME Inv, NEW c \in ClientIds, NEW e \in Requests, Apply(c, e)
  PROVE  Inv'
<1>1. Admitted(c, e) /\ Persist(c, e) /\ Materialize(c, e)
  BY DEF Apply
<1>2. TypeOK
  BY DEF Inv
<1>3. events[c] \in Seq(Requests) /\ Append(events[c], e) \in Seq(Requests)
  BY <1>2 DEF TypeOK
<1>4. events' = [events EXCEPT ![c] = Append(events[c], e)]
  BY <1>1 DEF Materialize
<1>5. TypeOK'
  BY <1>1, <1>2, <1>3, <1>4, PersistShape DEF TypeOK, Apply
<1>6. ViewLegal'
  BY <1>1, <1>2, <1>3, <1>4, LegalAppend DEF ViewLegal, Admitted, Inv, TypeOK
<1>7. (\A d \in ClientIds : UniqueIds(stored[d]))'
  BY <1>1, <1>2, PersistKeepsIds DEF Inv
<1>8. FileStoreReplayable'
  BY <1>1, PersistFromMatchingView DEF FileStoreReplayable, Apply, Inv
<1>9. (\A d \in ClientIds : ViewFollows(d))'
  <2> SUFFICES ASSUME NEW d \in ClientIds, backend = "file"
               PROVE  \/ stored'[d] = events'[d]
                      \/ /\ stored'[d] = <<>>
                         /\ events'[d] # <<>>
                         /\ IsTerminal(StatusAfter(events'[d]))
    BY DEF ViewFollows, Apply, Admitted
  <2>1. CASE d = c
    <3>1. events'[c] = Append(events[c], e) /\ StatusAfter(events'[c]) = e.status
      BY <1>2, <1>3, <1>4 DEF TypeOK, StatusAfter
    <3> QED BY <1>1, <1>3, <2>1, <3>1, PersistFromMatchingView
  <2>2. CASE d # c
    <3>1. events'[d] = events[d]
      BY <1>2, <1>4, <2>2 DEF TypeOK
    <3>2. \/ stored'[d] = stored[d]
          \/ stored'[d] = <<>> /\ stored[d] # <<>> /\ IsTerminal(StatusAfter(stored[d]))
      BY <1>1, <1>2, <2>2, PersistShape
    <3> QED BY <1>1, <3>1, <3>2 DEF Inv, ViewFollows, Admitted
  <2> QED BY <2>1, <2>2
<1> QED BY <1>5, <1>6, <1>7, <1>8, <1>9 DEF Inv

(* So does one whose COMMIT lost its answer, over the file store none.       *)
LEMMA ApplyPersistedButFailedInv ==
  ASSUME Inv, NEW c \in ClientIds, NEW e \in Requests, ApplyPersistedButFailed(c, e)
  PROVE  Inv'
<1>1. Admitted(c, e) /\ Persist(c, e) /\ backend # "file" /\ phase = "up"
  BY DEF ApplyPersistedButFailed, Admitted
<1>2. TypeOK'
  BY <1>1, PersistShape DEF TypeOK, Inv, ApplyPersistedButFailed
<1>3. (\A d \in ClientIds : UniqueIds(stored[d]))'
  BY <1>1, PersistKeepsIds DEF Inv
<1> QED BY <1>1, <1>2, <1>3 DEF Inv, ApplyPersistedButFailed, ViewLegal, ViewFollows,
                               FileStoreReplayable

(* So does a crash after the store took the event.                           *)
LEMMA ApplyThenCrashInv ==
  ASSUME Inv, NEW c \in ClientIds, NEW e \in Requests, ApplyThenCrash(c, e)
  PROVE  Inv'
<1>1. Admitted(c, e) /\ Persist(c, e) /\ phase' = "down" /\ events' = Empty
  BY DEF ApplyThenCrash
<1>2. TypeOK'
  BY <1>1, PersistShape DEF TypeOK, Inv, ApplyThenCrash, Empty
<1>3. (\A d \in ClientIds : UniqueIds(stored[d]))'
  BY <1>1, PersistKeepsIds DEF Inv
<1>4. ViewLegal' /\ (\A d \in ClientIds : ViewFollows(d))'
  BY <1>1 DEF ViewLegal, ViewFollows, Legal, Empty
<1>5. FileStoreReplayable'
  BY <1>1, PersistFromMatchingView DEF FileStoreReplayable, ApplyThenCrash
<1> QED BY <1>2, <1>3, <1>4, <1>5 DEF Inv

(* A replay stays a prefix of the stored log.                                *)
LEMMA ReplayEventInv ==
  ASSUME Inv, NEW c \in ClientIds, ReplayEvent(c)
  PROVE  Inv'
<1> DEFINE e == stored[c][cursor[c] + 1]
<1>1. /\ phase = "replaying" /\ stored[c] \in Seq(Requests)
      /\ cursor[c] \in 0..Len(stored[c]) /\ cursor[c] < Len(stored[c])
      /\ events[c] = SubSeq(stored[c], 1, cursor[c])
      /\ UNCHANGED <<backend, stored>>
  BY DEF ReplayEvent, Inv, TypeOK, ViewFollows
<1>2. e \in Requests
  BY <1>1
<1>3. ~SeenIn(events[c], e)
  <2>1. /\ Len(events[c]) = cursor[c]
        /\ \A i \in 1..cursor[c] : events[c][i] = stored[c][i]
    BY <1>1
  <2>2. UniqueIds(stored[c])
    BY DEF Inv
  <2> SUFFICES ASSUME NEW i \in 1..Len(events[c]), events[c][i].id = e.id
               PROVE  FALSE
    BY DEF SeenIn
  <2>3. i \in 1..Len(stored[c]) /\ cursor[c] + 1 \in 1..Len(stored[c]) /\ i # cursor[c] + 1
    BY <1>1, <2>1
  <2>4. stored[c][i].id = stored[c][cursor[c] + 1].id
    BY <1>1, <2>1
  <2> QED BY <2>2, <2>3, <2>4 DEF UniqueIds
<1>4. CASE Validates(events[c], e)
  <2>1. /\ events' = [events EXCEPT ![c] = Append(events[c], e)]
        /\ cursor' = [cursor EXCEPT ![c] = cursor[c] + 1]
        /\ phase' = phase
    BY <1>3, <1>4 DEF ReplayEvent, ReplayMoves, Materialize
  <2>2. events[c] \in Seq(Requests) /\ Legal(events[c])
    BY DEF Inv, TypeOK, ViewLegal
  <2>3. TypeOK'
    BY <1>1, <1>2, <2>1, <2>2 DEF Inv, TypeOK
  <2>4. ViewLegal'
    BY <1>2, <1>3, <1>4, <2>1, <2>2, LegalAppend DEF Inv, TypeOK, ViewLegal
  <2>5. events'[c] = SubSeq(stored'[c], 1, cursor'[c])
    BY <1>1, <2>1, PrefixStep DEF Inv, TypeOK
  <2>6. (\A d \in ClientIds : ViewFollows(d))'
    BY <1>1, <2>1, <2>5 DEF Inv, TypeOK, ViewFollows
  <2> QED BY <1>1, <2>1, <2>3, <2>4, <2>6 DEF Inv, FileStoreReplayable
<1>5. CASE ~Validates(events[c], e)
  <2>1. events' = events /\ cursor' = cursor /\ phase' = "refused"
    BY <1>3, <1>5 DEF ReplayEvent, ReplayMoves
  <2>2. backend # "file"
    <3> SUFFICES ASSUME Legal(stored[c]) PROVE FALSE
      BY DEF Inv, FileStoreReplayable
    <3>1. CASE cursor[c] = 0
      BY <1>1, <1>5, <3>1 DEF Validates, Legal
    <3>2. CASE cursor[c] # 0
      <4>1. /\ events[c] # <<>> /\ Len(events[c]) = cursor[c]
            /\ StatusAfter(events[c]) = stored[c][cursor[c]].status
        BY <1>1, <3>2 DEF StatusAfter
      <4>2. cursor[c] \in 1..(Len(stored[c]) - 1)
        BY <1>1, <3>2
      <4> QED BY <1>5, <4>1, <4>2 DEF Validates, Legal
    <3> QED BY <3>1, <3>2
  <2> QED BY <1>1, <2>1, <2>2 DEF Inv, TypeOK, ViewLegal, ViewFollows, FileStoreReplayable
<1> QED BY <1>4, <1>5

(* A replay that has come to the end is the log.                             *)
LEMMA ReplayDoneInv ==
  ASSUME Inv, ReplayDone
  PROVE  Inv' /\ events = stored
<1>1. events = stored
  <2>1. \A c \in ClientIds : stored[c] \in Seq(Requests) /\
          events[c] = SubSeq(stored[c], 1, Len(stored[c]))
    BY DEF Inv, TypeOK, ViewFollows, ReplayDone
  <2>2. \A c \in ClientIds : events[c] = stored[c]
    BY <2>1
  <2> QED BY <2>2 DEF Inv, TypeOK
<1> QED BY <1>1 DEF Inv, ReplayDone, TypeOK, Zero, ViewLegal, ViewFollows, FileStoreReplayable

(* The invariant is inductive: one step per action. *)
LEMMA NextInv == Inv /\ [Next]_vars => Inv'
<1> SUFFICES ASSUME Inv, [Next]_vars PROVE Inv'
  OBVIOUS
<1>1. ASSUME NEW c \in ClientIds, NEW e \in Requests, Apply(c, e) PROVE Inv'
  BY <1>1, ApplyInv
<1>2. ASSUME NEW c \in ClientIds, NEW e \in Requests, ApplyPersistedButFailed(c, e)
      PROVE Inv'
  BY <1>2, ApplyPersistedButFailedInv
<1>3. ASSUME NEW c \in ClientIds, NEW e \in Requests, ApplyThenCrash(c, e) PROVE Inv'
  BY <1>3, ApplyThenCrashInv
<1>4. ASSUME NEW c \in ClientIds, ReplayEvent(c) PROVE Inv'
  BY <1>4, ReplayEventInv
<1>5. CASE Crash
  BY <1>5 DEF Inv, Crash, TypeOK, Empty, Zero, ViewLegal, ViewFollows, FileStoreReplayable,
              Legal
<1>6. CASE Restart
  <2>1. \A c \in ClientIds : stored[c] \in Seq(Requests) /\ SubSeq(stored[c], 1, 0) = <<>>
    BY DEF Inv, TypeOK
  <2> QED BY <1>6, <2>1 DEF Inv, Restart, TypeOK, Empty, Zero, ViewLegal, ViewFollows,
                            FileStoreReplayable, Legal
<1>7. CASE ReplayDone
  BY <1>7, ReplayDoneInv
<1>8. CASE UNCHANGED vars
  BY <1>8 DEF Inv, vars, TypeOK, ViewLegal, ViewFollows, FileStoreReplayable
<1> QED BY <1>1, <1>2, <1>3, <1>4, <1>5, <1>6, <1>7, <1>8 DEF Next

-----------------------------------------------------------------------------
(* Every behaviour of the journal keeps its variables well typed. *)
THEOREM TypeCorrect == Spec => []TypeOK
<1>1. Inv => TypeOK
  BY DEF Inv
<1> QED BY <1>1, InitInv, NextInv, PTL DEF Spec

(* No view, over either store, ever holds an illegal order history. *)
THEOREM ViewAlwaysLegal == Spec => []ViewLegal
<1>1. Inv => ViewLegal
  BY DEF Inv
<1> QED BY <1>1, InitInv, NextInv, PTL DEF Spec

(* Over the file store, the view of a running journal is what a restart      *)
(* would rebuild, except for terminal orders dropped by retention.           *)
THEOREM ViewAlwaysMatchesStore == Spec => []ViewMatchesStore
<1>1. Inv => ViewMatchesStore
  BY DEF Inv, ViewFollows, ViewMatchesStore
<1> QED BY <1>1, InitInv, NextInv, PTL DEF Spec

(* The file store never holds a log that would refuse the next startup.      *)
THEOREM FileStoreAlwaysReplayable == Spec => []FileStoreReplayable
<1>1. Inv => FileStoreReplayable
  BY DEF Inv
<1> QED BY <1>1, InitInv, NextInv, PTL DEF Spec

(* The step that opens the journal for new orders after a restart finds the  *)
(* whole stored history in the view.                                         *)
THEOREM RestartRestores == Spec => RestartRestoresLog
<1>1. Inv /\ [Next]_vars => [phase = "replaying" /\ phase' = "up" => events' = stored']_vars
  <2> SUFFICES ASSUME Inv, Next, phase = "replaying", phase' = "up"
               PROVE  events' = stored'
    OBVIOUS
  <2>1. ReplayDone
    BY DEF Next, Apply, ApplyPersistedButFailed, ApplyThenCrash, Admitted, Crash, Restart,
           ReplayEvent, ReplayMoves
  <2> QED BY <2>1, ReplayDoneInv DEF ReplayDone
<1> QED BY <1>1, InitInv, NextInv, PTL DEF Spec, RestartRestoresLog

-----------------------------------------------------------------------------
(* The stored status of an order that has events. *)
LEMMA StoredStatusOfLog ==
  ASSUME Inv, backend = "file", NEW c \in ClientIds
  PROVE  /\ stored[c] = <<>> => StoredStatus(c) = "absent"
         /\ stored[c] # <<>> => /\ StoredStatus(c) = StatusAfter(stored[c])
                               /\ StoredStatus(c) \in Statuses
BY StatusOfEvent DEF StoredStatus, Inv, TypeOK

(* Persisting an admitted event over the file store is one step of the       *)
(* abstract lifecycle: the order advances and some terminal orders go.       *)
LEMMA PersistAdvances ==
  ASSUME Inv, NEW c \in ClientIds, NEW e \in Requests, backend = "file",
         Admitted(c, e), Persist(c, e), backend' = backend
  PROVE  Lifecycle!Advance(c, e.status)
<1>1. stored[c] = events[c] /\ ~SeenIn(stored[c], e) /\ stored[c] \in Seq(Requests)
  BY PersistFromMatchingView DEF Admitted, Inv, TypeOK
<1>2. e.status \in Statuses /\ "absent" \notin Statuses
  BY RequestsAssumption DEF Statuses
<1>3. Lifecycle!MayBecome(Recorded[c], e.status)
  <2>1. CASE stored[c] = <<>>
    BY <1>1, <2>1, StoredStatusOfLog DEF Recorded, Admitted, Validates, Lifecycle!MayBecome
  <2>2. CASE stored[c] # <<>>
    <3>1. ValidTransition(StatusAfter(stored[c]), e.status)
      BY <1>1, <2>2 DEF Admitted, Validates
    <3>2. Recorded[c] = StatusAfter(stored[c]) /\ Recorded[c] # "absent"
      BY <1>2, <2>2, StoredStatusOfLog DEF Recorded
    <3> QED BY <3>1, <3>2 DEF Lifecycle!MayBecome, Lifecycle!ValidTransition,
                ValidTransition, IsTerminal, CanTransition, Lifecycle!IsTerminal,
                Lifecycle!CanTransition, Terminal, Lifecycle!Terminal, Transitions,
                Lifecycle!Transitions, Statuses, Lifecycle!Statuses
  <2> QED BY <2>1, <2>2
<1> DEFINE moved == [Recorded EXCEPT ![c] = e.status]
           log   == [d \in ClientIds |-> IF d = c THEN Append(stored[c], e) ELSE stored[d]]
           gone  == {d \in ClientIds : stored'[d] = <<>> /\ log[d] # <<>>}
<1>4. \A d \in ClientIds : moved[d] = IF log[d] = <<>> THEN "absent" ELSE StatusAfter(log[d])
  <2> TAKE d \in ClientIds
  <2>1. CASE d = c
    BY <1>1, <2>1 DEF Recorded, StatusAfter
  <2>2. CASE d # c
    BY <2>2, StoredStatusOfLog DEF Recorded
  <2> QED BY <2>1, <2>2
<1>5. \A d \in ClientIds :
        \/ stored'[d] = log[d]
        \/ stored'[d] = <<>> /\ log[d] # <<>> /\ IsTerminal(StatusAfter(log[d]))
  BY <1>1, PersistShape DEF Inv
<1>6. \A d \in gone : moved[d] \in Lifecycle!Terminal
  BY <1>4, <1>5 DEF IsTerminal, Terminal, Lifecycle!Terminal
<1>7. Recorded' = [d \in ClientIds |-> IF d \in gone THEN "absent" ELSE moved[d]]
  <2> SUFFICES ASSUME NEW d \in ClientIds
               PROVE  Recorded'[d] = IF d \in gone THEN "absent" ELSE moved[d]
    BY DEF Recorded
  <2>1. Recorded'[d] = IF stored'[d] = <<>> THEN "absent" ELSE StatusAfter(stored'[d])
    BY DEF Recorded, StoredStatus
  <2> QED BY <1>4, <1>5, <2>1
<1>8. gone \in SUBSET ClientIds
  OBVIOUS
<1> HIDE DEF gone
<1> QED BY <1>3, <1>6, <1>7, <1>8 DEF Lifecycle!Advance

(* The journal over the file store implements the order lifecycle: through   *)
(* appends, failed appends, crashes, restarts and retention, a recorded      *)
(* order moves only along the status table and is forgotten only once it is  *)
(* terminal.                                                                 *)
THEOREM JournalImplementsLifecycle == Spec => LifecycleImplemented
<1>1. Init => Lifecycle!Start
  BY DEF Init, Lifecycle!Start, Recorded, StoredStatus, Empty
<1>2. Inv /\ [Next]_vars => [Lifecycle!Evolve]_Recorded
  <2> SUFFICES ASSUME Inv, [Next]_vars
               PROVE  Lifecycle!Evolve \/ Recorded' = Recorded
    OBVIOUS
  <2>1. backend' = backend
    BY DEF Next, vars, Apply, ApplyPersistedButFailed, ApplyThenCrash, Crash, Restart,
           ReplayEvent, ReplayDone
  <2>2. CASE backend # "file"
    BY <2>1, <2>2 DEF Recorded, StoredStatus
  <2>3. CASE backend = "file" /\ stored' = stored
    BY <2>1, <2>3 DEF Recorded, StoredStatus
  <2>4. ASSUME NEW c \in ClientIds, NEW e \in Requests, backend = "file",
               Apply(c, e) \/ ApplyThenCrash(c, e)
        PROVE  Lifecycle!Evolve
    <3>1. Lifecycle!Advance(c, e.status)
      BY <2>1, <2>4, PersistAdvances DEF Apply, ApplyThenCrash
    <3>2. e.status \in Lifecycle!Statuses
      BY RequestsAssumption DEF Statuses, Lifecycle!Statuses
    <3> QED BY <3>1, <3>2 DEF Lifecycle!Evolve
  <2> QED BY <2>2, <2>3, <2>4 DEF Next, vars, ApplyPersistedButFailed, Crash, Restart,
             ReplayEvent, ReplayDone
<1> QED BY <1>1, <1>2, InitInv, NextInv, PTL
        DEF Spec, LifecycleImplemented, Lifecycle!LifecycleSpec

-----------------------------------------------------------------------------
(* OkxPlace: a request is sent once, a reconciliation reports an order over  *)
(* only when it is, and, where the network spares the two windows of         *)
(* finding 4, Place keeps the contract of the execution path.  For any bound *)
(* of the polling loops.                                                     *)

(* Where a call is says what has been sent, asked and answered so far.       *)
CallInv ==
  /\ at = "post" => /\ posts = 0 /\ order = "absent" /\ caller = "place"
                    /\ reply = "none" /\ report = "none"
  /\ caller = "place" => (reply = "none" <=> at # "returned")
  /\ caller = "reconcile" => reply # "none" /\ at \in {"recover", "poll", "returned"}

PlaceInv == OkxTypeOK /\ CallInv /\ PostsOnce /\ ReportAgrees

(* The invariant holds before the order is sent.                             *)
LEMMA PlaceStarts == OkxInit => PlaceInv
BY PollsAssumption DEF OkxInit, PlaceInv, OkxTypeOK, CallInv, PostsOnce, ReportAgrees

(* Every step of the exchange, the adapter and a reconciliation keeps it.    *)
LEMMA PlaceSteps == PlaceInv /\ [OkxNext]_okxVars => PlaceInv'
<1> SUFFICES ASSUME PlaceInv, [OkxNext]_okxVars PROVE PlaceInv'
  OBVIOUS
<1> USE PollsAssumption DEF PlaceInv, OkxTypeOK, CallInv, PostsOnce, ReportAgrees, exchange
<1>1. CASE Exchange
  BY <1>1 DEF Exchange, Arrive, Match, Drop
<1>2. CASE Post
  <2>1. CASE Decline
    BY <2>1 DEF Decline, Return
  <2>2. CASE PostRefused
    BY <2>2 DEF PostRefused, Return
  <2>3. CASE PostAcknowledged
    BY <2>3 DEF PostAcknowledged
  <2>4. CASE PostAmbiguous
    BY <2>4 DEF PostAmbiguous
  <2> QED BY <1>2, <2>1, <2>2, <2>3, <2>4 DEF Post
<1>3. CASE Follow
  <2>1. CASE NotRecovered
    BY <2>1 DEF NotRecovered, Return, Report
  <2>2. CASE Recovered
    BY <2>2 DEF Recovered
  <2>3. CASE PollFails
    BY <2>3 DEF PollFails, Return, Report
  <2>4. CASE PollFinal
    BY <2>4 DEF PollFinal, Final, Conclude, Return, Report, Outcome, ReportedAs
  <2>5. CASE PollLive
    BY <2>5 DEF PollLive, Report
  <2>6. CASE Cancel
    BY <2>6 DEF Cancel
  <2>7. CASE ConfirmFails
    BY <2>7 DEF ConfirmFails, Return
  <2>8. CASE ConfirmFinal
    BY <2>8 DEF ConfirmFinal, Final, Conclude, Return, Report, Outcome, ReportedAs
  <2>9. CASE ConfirmLive
    BY <2>9 DEF ConfirmLive, Return
  <2> QED BY <1>3, <2>1, <2>2, <2>3, <2>4, <2>5, <2>6, <2>7, <2>8, <2>9 DEF Follow
<1>4. CASE Reconcile
  BY <1>4 DEF Reconcile
<1>5. CASE UNCHANGED okxVars
  BY <1>5 DEF okxVars
<1> QED BY <1>1, <1>2, <1>3, <1>4, <1>5 DEF OkxNext

(* cex_okx_trade.go:194, whatever the exchange and the network do.           *)
THEOREM NeverPostedTwice == OkxSpec => []PostsOnce
<1>1. PlaceInv => PostsOnce
  BY DEF PlaceInv
<1> QED BY PlaceStarts, PlaceSteps, <1>1, PTL DEF OkxSpec

(* What reconciliation journals as filled or canceled can no longer change.  *)
THEOREM ReportsAreFinal == OkxSpec => []ReportAgrees
<1>1. PlaceInv => ReportAgrees
  BY DEF PlaceInv
<1> QED BY PlaceStarts, PlaceSteps, <1>1, PTL DEF OkxSpec

-----------------------------------------------------------------------------
(* The contract.  While the windows are spared, an order the adapter knows   *)
(* is never refused, and a request that has not arrived outlives only a call *)
(* that gave up.                                                             *)

LateInv == PlaceInv /\ (order = "sent" => reply \in {"none", "unknown"})

(* A late request stays one that was given up.                               *)
LEMMA LateSteps ==
  ASSUME Windows = {}, LateInv, [OkxNext]_okxVars
  PROVE  LateInv'
<1>1. PlaceInv'
  BY PlaceSteps DEF LateInv
<1> USE DEF LateInv, PlaceInv, OkxTypeOK, CallInv, exchange
<1>2. CASE Exchange \/ Reconcile \/ UNCHANGED okxVars
  BY <1>1, <1>2 DEF Exchange, Arrive, Match, Drop, Reconcile, okxVars
<1>3. CASE Post
  BY <1>1, <1>3 DEF Post, Decline, PostRefused, PostAcknowledged, PostAmbiguous, Return
<1>4. CASE Follow
  <2>1. CASE NotRecovered \/ Recovered
    BY <1>1, <2>1 DEF NotRecovered, Recovered, Return, Report
  <2>2. CASE PollFails
    BY <1>1, <2>2 DEF PollFails, Return, Report
  <2>3. CASE PollFinal \/ ConfirmFinal
    BY <1>1, <2>3 DEF PollFinal, ConfirmFinal, Final
  <2>4. CASE PollLive
    BY <1>1, <2>4 DEF PollLive, Report
  <2>5. CASE Cancel \/ ConfirmFails \/ ConfirmLive
    BY <1>1, <2>5 DEF Cancel, ConfirmFails, ConfirmLive, Return
  <2> QED BY <1>4, <2>1, <2>2, <2>3, <2>4, <2>5 DEF Follow
<1> QED BY <1>2, <1>3, <1>4 DEF OkxNext

Promise == Place!Accept \/ Place!Settle \/ Place!Return

(* The order as the execution path sees it.                                  *)
Seen == CASE order \in {"absent", "sent"} -> "absent"
          [] order = "canceled" -> Outcome
          [] OTHER -> order

(* A step that changes neither what is seen of the order nor the answer is   *)
(* none of the contract's; the others are one of its three.                  *)
LEMMA StepsOfContract ==
  ASSUME Windows = {}, LateInv, [OkxNext]_okxVars
  PROVE  Promise \/ UNCHANGED <<Seen, reply>>
<1> USE DEF LateInv, PlaceInv, OkxTypeOK, CallInv, exchange, Seen, Outcome
<1>1. CASE Reconcile \/ UNCHANGED okxVars
  BY <1>1 DEF Reconcile, okxVars
<1>2. CASE Exchange
  <2>1. CASE Arrive
    BY <2>1 DEF Arrive, Promise, Place!Accept
  <2>2. CASE Match \/ Drop
    BY <2>2 DEF Match, Drop, Promise, Place!Settle
  <2> QED BY <1>2, <2>1, <2>2 DEF Exchange
<1>3. CASE Post
  <2>1. CASE Decline \/ PostRefused
    BY <2>1 DEF Decline, PostRefused, Return, Promise, Place!Return, Place!Refuse
  <2>2. CASE PostAcknowledged \/ PostAmbiguous
    BY <2>2 DEF PostAcknowledged, PostAmbiguous, Promise, Place!Accept
  <2> QED BY <1>3, <2>1, <2>2 DEF Post
<1>4. CASE Follow
  <2>1. CASE NotRecovered \/ Recovered
    BY <2>1 DEF NotRecovered, Recovered, Return, Report, Promise, Place!Return, Place!GiveUp
  <2>2. CASE PollFails
    BY <2>2 DEF PollFails, Return, Report, Promise, Place!Return, Place!GiveUp
  <2>3. CASE PollFinal \/ ConfirmFinal
    BY <2>3 DEF PollFinal, ConfirmFinal, Final, Conclude, Return, Report, Promise,
                Place!Return, Place!Result
  <2>4. CASE PollLive
    BY <2>4 DEF PollLive, Report
  <2>5. CASE Cancel
    BY <2>5 DEF Cancel, Promise, Place!Settle
  <2>6. CASE ConfirmFails \/ ConfirmLive
    BY <2>6 DEF ConfirmFails, ConfirmLive, Return, Promise, Place!Return, Place!GiveUp
  <2> QED BY <1>4, <2>1, <2>2, <2>3, <2>4, <2>5, <2>6 DEF Follow
<1> QED BY <1>1, <1>2, <1>3, <1>4 DEF OkxNext

(* For any bound of the loops: a refusal means there is no order, a result   *)
(* is final and just so, and only an answer marked unknown leaves it open.   *)
THEOREM PlaceImplementsContract ==
  ASSUME Windows = {}
  PROVE  OkxSpec => PlaceContractKept
<1>1. OkxInit => LateInv /\ Place!Begin
  BY PlaceStarts DEF OkxInit, LateInv, Place!Begin
<1>2. LateInv /\ [OkxNext]_okxVars => LateInv'
  BY LateSteps
<1>3. LateInv /\ [OkxNext]_okxVars => Promise \/ UNCHANGED <<Seen, reply>>
  BY StepsOfContract
<1> QED BY <1>1, <1>2, <1>3, PTL
        DEF OkxSpec, PlaceContractKept, Place!PlaceSpec, Promise, Seen
=============================================================================
