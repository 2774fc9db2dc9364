----------------------------- MODULE RunHistory -----------------------------
(* The checkpoints and the lessons of persistence.Repository in its three    *)
(* forms, and the orchestrator that saves, reads and prunes them.  Of a      *)
(* run's checkpoints the model keeps that there are some and when the last   *)
(* was saved; of a lesson its place in the order of appending and its        *)
(* symbol.  The memory and the file repository change a copy of their state  *)
(* under one lock (FileStore says how the file is replaced); PostgreSQL runs *)
(* transactions side by side, and a commit whose answer is lost may have     *)
(* taken place.                                                              *)
EXTENDS Naturals, FiniteSetsExt

CONSTANTS
  RunIds,    \* ids of the runs
  SymbolOf,    \* the symbol of each
  RunLimit,    \* the runs whose checkpoints a prune leaves
  MaxLessons,
  LessonLimit, \* lessons a run is told: 10 in service.go:494
  MaxLearned   \* bound: lessons written

(* PostgreSQL looks for the lessons to tell among 20 times as many           *)
(* (postgres.go:497), which is what every store keeps (application.go:576).  *)
ASSUME HistoryAssumption ==
  /\ IsFiniteSet(RunIds) /\ RunIds # {} /\ "system" \notin RunIds
  /\ RunLimit \in Nat \ {0} /\ MaxLessons \in Nat \ {0} /\ LessonLimit \in Nat
  /\ MaxLearned \in Nat
  /\ 20 * LessonLimit >= MaxLessons

VARIABLES
  store,      \* "memory", "file" or "postgres"
  saved,      \* the ids that have checkpoints
  older,      \* older[id]: those of them whose last save is older than id's
  lessons,    \* the lessons stored: [id, symbol]
  lessonID,   \* NextLessonID, or the sequence behind the id column
  txn,        \* a run's open lessons transaction: the rows it adds and deletes
  step,      \* what each run saves next
  unsaved,    \* freezeDurability has been called
  learned,    \* history: lessons that have been stored
  systemSaved \* history: a save of the risk state or the preferences returned nil

checkpoints == <<saved, older>>
historyVars == <<store, checkpoints, lessons, lessonID, txn, step, unsaved, learned,
                 systemSaved>>

NoTxn == [new |-> {}, gone |-> {}]
Lesson == [id : 1..MaxLearned, symbol : {SymbolOf[r] : r \in RunIds}]
Checkpointed == RunIds \cup {"system"}

HistoryTypeOK ==
  /\ store \in {"memory", "file", "postgres"}
  /\ saved \subseteq Checkpointed /\ older \in [Checkpointed -> SUBSET Checkpointed]
  /\ lessons \subseteq learned /\ learned \subseteq Lesson /\ lessonID \in 0..MaxLearned
  /\ txn \in [RunIds -> [new : SUBSET Lesson, gone : SUBSET Lesson]]
  /\ step \in [RunIds -> {"idle", "intent", "learn", "commit", "result", "prune",
                             "done", "relearn", "recommit", "review", "reviewed", "gone"}]
  /\ unsaved \in BOOLEAN /\ systemSaved \in BOOLEAN

HistoryInit ==
  /\ store \in {"memory", "file", "postgres"}
  /\ saved = {} /\ older = [id \in Checkpointed |-> {}]
  /\ lessons = {} /\ lessonID = 0
  /\ txn = [r \in RunIds |-> NoTxn]
  /\ step = [r \in RunIds |-> "idle"]
  /\ unsaved = FALSE /\ learned = {} /\ systemSaved = FALSE

Turn(r, s) == step' = [step EXCEPT ![r] = s]

-----------------------------------------------------------------------------
(* Checkpoints *)

(* saveCheckpoint: the run is now the one saved last. *)
SaveCheckpoint(id) ==
  /\ saved' = saved \cup {id}
  /\ older' = [o \in Checkpointed |-> (IF o = id THEN saved ELSE older[o]) \ {id}]

Discard(gone) ==
  /\ saved' = saved \ gone
  /\ older' = [o \in Checkpointed |-> IF o \in gone THEN {} ELSE older[o] \ gone]

(* What a failed write leaves: in memory nothing fails once the change has   *)
(* begun; the file's state is a copy until it has been written; PostgreSQL   *)
(* may have committed although the answer was lost.                          *)
MemoryRefuses == store = "memory" /\ UNCHANGED checkpoints
FileRefuses == store = "file" /\ UNCHANGED checkpoints
CommitLost(write) == store = "postgres" /\ (UNCHANGED checkpoints \/ write)

Lost(write) == MemoryRefuses \/ FileRefuses \/ CommitLost(write)

(* Variant: the prefix that marks the system's checkpoints is not looked at. *)
CandidatesAll == saved

(* Ids beginning with "__" are no runs.                                      *)
Candidates == saved \ {"system"}

(* The least recently saved go, as many as there are too many.               *)
PruneCheckpoints ==
  LET kept(id) == Cardinality(Candidates) - RunLimit <= Cardinality(older[id] \cap Candidates)
  IN  Discard({id \in Candidates : ~kept(id)})

(* The same as a statement: newest first, all after the first RunLimit.      *)
PrunePostgres ==
  LET newer(id) == {o \in Candidates : id \in older[o]}
  IN  Discard({id \in Candidates : Cardinality(newer(id)) >= RunLimit})

Pruned == IF store = "postgres" THEN PrunePostgres ELSE PruneCheckpoints

(* Service.checkpoint of a step of the pipeline: without it the run fails.   *)
(* A run may also end before it has an intent to save.                       *)
Checkpoint(r) ==
  /\ \/ step[r] = "idle" /\ SaveCheckpoint(r) /\ Turn(r, "intent") /\ UNCHANGED unsaved
     \/ step[r] = "intent" /\ SaveCheckpoint(r) /\ Turn(r, "learn") /\ UNCHANGED unsaved
     \/ /\ step[r] \in {"idle", "intent"}
        /\ Lost(SaveCheckpoint(r)) /\ Turn(r, "result") /\ unsaved' = TRUE
     \/ step[r] = "intent" /\ UNCHANGED <<checkpoints, unsaved>> /\ Turn(r, "result")
  /\ UNCHANGED <<store, lessons, lessonID, txn, learned, systemSaved>>

(* runAndRecord: the result is saved if it can be, and the history pruned if *)
(* it can be.                                                                *)
SaveResult(r) ==
  /\ step[r] = "result" /\ Turn(r, "prune")
  /\ \/ SaveCheckpoint(r) /\ UNCHANGED unsaved
     \/ Lost(SaveCheckpoint(r)) /\ unsaved' = TRUE
  /\ UNCHANGED <<store, lessons, lessonID, txn, learned, systemSaved>>

Prune(r) ==
  /\ step[r] = "prune" /\ Turn(r, "done")
  /\ Pruned \/ Lost(Pruned)
  /\ UNCHANGED <<store, lessons, lessonID, txn, unsaved, learned, systemSaved>>

(* ReviewClosed, of a run that may have been pruned by now: its id comes back *)
(* as the newest.                                                             *)
SaveReview(r) ==
  /\ step[r] = "review" /\ Turn(r, "reviewed")
  /\ \/ SaveCheckpoint(r) /\ UNCHANGED unsaved
     \/ Lost(SaveCheckpoint(r)) /\ unsaved' = TRUE
  /\ UNCHANGED <<store, lessons, lessonID, txn, learned, systemSaved>>

(* riskstate.Tracker and runtimeprefs.Store. *)
SaveSystem ==
  /\ \/ SaveCheckpoint("system") /\ systemSaved' = TRUE
     \/ Lost(SaveCheckpoint("system")) /\ UNCHANGED systemSaved
  /\ UNCHANGED <<store, lessons, lessonID, txn, step, unsaved, learned>>

-----------------------------------------------------------------------------
(* Lessons *)

Newer(S, l) == {k \in S : k.id > l.id}

(* What a set of lessons is too long by. *)
Overflow(S) == {l \in S : Cardinality(Newer(S, l)) >= MaxLessons}

(* A review has a lesson to append; or none, and only the trim is left.      *)
NewLessons(r) ==
  IF lessonID < MaxLearned
    THEN {{}, {[id |-> lessonID + 1, symbol |-> SymbolOf[r]]}} ELSE {{}}

After(s, next) == IF s \in {"learn", "commit"} THEN next[1] ELSE next[2]

(* A review whose lessons cannot be stored: that of an execution freezes the *)
(* gate, that of a close is given up.                                        *)
LessonsFail(r) ==
  /\ Turn(r, After(step[r], <<"result", "reviewed">>))
  /\ unsaved' = (unsaved \/ step[r] \in {"learn", "commit"})

(* appendLessons under the lock of the memory or the file repository.        *)
AppendLessons(r) ==
  /\ step[r] \in {"learn", "relearn"} /\ store # "postgres"
  /\ \/ \E new \in NewLessons(r) :
          LET longer == lessons \cup new IN
          /\ lessons' = longer \ Overflow(longer)
          /\ learned' = learned \cup new /\ lessonID' = lessonID + Cardinality(new)
          /\ Turn(r, After(step[r], <<"result", "review">>))
        /\ UNCHANGED unsaved
     \/ LessonsFail(r) /\ UNCHANGED <<lessons, learned, lessonID>>
  /\ UNCHANGED <<store, checkpoints, txn, systemSaved>>

(* PostgreSQL: the insert and the trim, which sees what has been committed   *)
(* and what the transaction itself has added.                                *)
InsertLessons(r) ==
  /\ step[r] \in {"learn", "relearn"} /\ store = "postgres"
  /\ \E new \in NewLessons(r) :
       /\ txn' = [txn EXCEPT ![r] = [new |-> new, gone |-> Overflow(lessons \cup new)]]
       /\ lessonID' = lessonID + Cardinality(new)
  /\ Turn(r, After(step[r], <<"commit", "recommit">>))
  /\ UNCHANGED <<store, checkpoints, lessons, unsaved, learned, systemSaved>>

(* An open transaction holds the rows it deletes, and another that would     *)
(* delete one of them waits and finds it gone; here either may commit first. *)
(* The answer to a commit may be lost.                                       *)
CommitLessons(r) ==
  /\ step[r] \in {"commit", "recommit"}
  /\ lessons' = (lessons \cup txn[r].new) \ txn[r].gone
  /\ learned' = learned \cup txn[r].new
  /\ txn' = [txn EXCEPT ![r] = NoTxn]
  /\ \/ Turn(r, After(step[r], <<"result", "review">>)) /\ UNCHANGED unsaved
     \/ LessonsFail(r)
  /\ UNCHANGED <<store, checkpoints, lessonID, systemSaved>>

RollbackLessons(r) ==
  /\ step[r] \in {"commit", "recommit"}
  /\ txn' = [txn EXCEPT ![r] = NoTxn]
  /\ LessonsFail(r)
  /\ UNCHANGED <<store, checkpoints, lessons, lessonID, learned, systemSaved>>

(* PostgreSQL looks at the newest rows only, as many as it keeps by default. *)
Considered ==
  IF store = "postgres"
    THEN {l \in lessons : Cardinality(Newer(lessons, l)) < 20 * LessonLimit}
    ELSE lessons

(* getLessons: every lesson of the symbol scores above those of others, and  *)
(* the newer of two of them higher; which others come next is left open.     *)
Answers(symbol) ==
  LET own == {l \in Considered : l.symbol = symbol}
      best == {l \in own : Cardinality(Newer(own, l)) < LessonLimit}
      room == LessonLimit - Cardinality(best)
      rest == Considered \ own
  IN  {best \cup more : more \in
         {m \in SUBSET rest : Cardinality(m) = Min({room, Cardinality(rest)})}}

-----------------------------------------------------------------------------
(* The position a run opened is closed, by hand, by its exit or a reversal.  *)
ClosePosition(r) ==
  /\ step[r] = "done" /\ Turn(r, "relearn")
  /\ UNCHANGED <<store, checkpoints, lessons, lessonID, txn, unsaved, learned, systemSaved>>

(* The process starts again: what was in memory, or in an open transaction,  *)
(* is gone, and so are the runs under way.                                   *)
RestartHistory ==
  /\ step' = [r \in RunIds |-> IF step[r] \in {"idle", "done"} THEN step[r] ELSE "gone"]
  /\ txn' = [r \in RunIds |-> NoTxn] /\ unsaved' = FALSE
  /\ IF store = "memory"
       THEN /\ saved' = {} /\ older' = [id \in Checkpointed |-> {}]
            /\ lessons' = {} /\ learned' = {} /\ lessonID' = 0
            /\ systemSaved' = FALSE
       ELSE UNCHANGED <<checkpoints, lessons, learned, lessonID, systemSaved>>
  /\ UNCHANGED store

HistoryNext ==
  \/ \E r \in RunIds :
       \/ Checkpoint(r) \/ AppendLessons(r) \/ InsertLessons(r) \/ CommitLessons(r)
       \/ RollbackLessons(r) \/ SaveResult(r) \/ Prune(r) \/ ClosePosition(r)
       \/ SaveReview(r)
  \/ SaveSystem \/ RestartHistory

HistorySpec == HistoryInit /\ [][HistoryNext]_historyVars

-----------------------------------------------------------------------------
(* service.go:406: however many runs come and go, the risk state and the     *)
(* preferences outlive them.                                                 *)
SystemKept == systemSaved => "system" \in saved

(* postgres.go:451: transactions that append at once do not see each other's *)
(* lessons, so each run beside another may leave its own beyond the limit,   *)
(* and no more; a lesson is only ever lost to newer ones, and a run is told  *)
(* the newest of its symbol.                                                 *)
LessonsTold ==
  /\ Cardinality(lessons) < MaxLessons + Cardinality(RunIds)
  /\ \A r \in RunIds : \A told \in Answers(SymbolOf[r]) :
       \A l \in learned \ told :
         l.symbol = SymbolOf[r] =>
           \/ Cardinality(Newer({k \in told : k.symbol = l.symbol}, l)) = LessonLimit
           \/ Cardinality(Newer(learned, l)) >= MaxLessons

(* What the retention limits of the repository never cost: the system's own  *)
(* state, and the newest lessons of a symbol.                                *)
HistoryRetained == SystemKept /\ LessonsTold
=============================================================================
