--------------------------- MODULE RunHistoryProofs ---------------------------
(* Theorems about the run history: however many runs save, review, prune,    *)
(* trim and restart, and whatever PostgreSQL's transactions do side by side, *)
(* the system's own checkpoints stay and a lesson is lost to newer ones only.*)
EXTENDS RunHistory, FiniteSetTheorems, WellFoundedInduction, TLAPS

(* No two lessons of a set have the same place in the order of appending.    *)
Unique(S) == \A k, l \in S : k.id = l.id => k = l

(* Every row was numbered once: those stored, those pending and the next.    *)
Numbered ==
  /\ Unique(learned) /\ \A l \in learned : l.id <= lessonID
  /\ \A r \in RunIds :
       /\ txn[r].new = {} \/ \E l \in Lesson : txn[r].new = {l}
       /\ \A l \in txn[r].new :
            /\ l.id <= lessonID
            /\ \A k \in learned : k.id # l.id
            /\ \A q \in RunIds \ {r} : \A k \in txn[q].new : k.id # l.id

(* What has been trimmed, or will be by an open transaction, is out of date. *)
LostToNewer ==
  /\ \A l \in learned \ lessons : Cardinality(Newer(learned, l)) >= MaxLessons
  /\ \A r \in RunIds : \A l \in txn[r].gone :
       l \in learned /\ Cardinality(Newer(learned \cup txn[r].new, l)) >= MaxLessons

Added(Q) == UNION {txn[q].new : q \in Q}
Trimmed(Q) == UNION {txn[q].gone : q \in Q}

(* What is stored once the open transactions of Q have committed.            *)
Left(Q) == (lessons \cup Added(Q)) \ Trimmed(Q)

(* Whichever of the open transactions commit, there is room for the lessons. *)
RoomLeft == \A Q \in SUBSET RunIds : Cardinality(Left(Q)) < MaxLessons + Cardinality(RunIds)

OnlyPostgres == store # "postgres" => \A r \in RunIds : txn[r] = NoTxn

HInv == /\ HistoryTypeOK /\ IsFiniteSet(learned) /\ SystemKept
        /\ Numbered /\ LostToNewer /\ RoomLeft /\ OnlyPostgres

-----------------------------------------------------------------------------
(* The newest lessons of a set.                                              *)

(* A set of numbers that is not empty has a least one.                       *)
LEMMA LeastNumber ==
  ASSUME NEW T \in SUBSET Nat, T # {}
  PROVE  \E n \in T : \A m \in T : n <= m
<1>1. \E n \in T : \A m \in T : ~(<<m, n>> \in OpToRel(<, Nat))
  BY NatLessThanWellFounded, WFMin, Zenon
<1>2. \E n \in T : \A m \in T : ~(m < n)
  BY <1>1, Zenon DEF OpToRel
<1> QED BY <1>2

LEMMA IdsAreNumbers == ASSUME NEW l \in Lesson PROVE l.id \in Nat
BY HistoryAssumption DEF Lesson

(* More lessons, more newer ones.                                            *)
LEMMA NewerGrows ==
  ASSUME NEW S, NEW T, IsFiniteSet(T), S \subseteq T, NEW l
  PROVE  /\ IsFiniteSet(Newer(S, l)) /\ IsFiniteSet(Newer(T, l))
         /\ Cardinality(Newer(S, l)) \in Nat /\ Cardinality(Newer(T, l)) \in Nat
         /\ Cardinality(Newer(S, l)) <= Cardinality(Newer(T, l))
<1>1. Newer(T, l) \subseteq T /\ Newer(S, l) \subseteq Newer(T, l)
  BY DEF Newer
<1>2. IsFiniteSet(Newer(T, l))
  BY <1>1, FS_Subset
<1> QED BY <1>1, <1>2, FS_Subset, FS_CardinalityType

(* The lessons with fewer than n newer ones are n at most.                   *)
Top(S, n) == {l \in S : Cardinality(Newer(S, l)) < n}

LEMMA TopIsSmall ==
  ASSUME NEW S \in SUBSET Lesson, IsFiniteSet(S), Unique(S), NEW n \in Nat, NEW T,
         T = Top(S, n)
  PROVE  IsFiniteSet(T) /\ Cardinality(T) \in Nat /\ Cardinality(T) <= n
<1> USE DEF Top
<1>1. T \subseteq S /\ IsFiniteSet(T) /\ Cardinality(T) \in Nat
  BY FS_Subset, FS_CardinalityType
<1>2. CASE T = {}
  BY <1>1, <1>2, FS_EmptySet
<1>3. CASE T # {}
  <2>1. PICK I : I = {l.id : l \in T}
    OBVIOUS
  <2>2. I \in SUBSET Nat /\ I # {}
    BY <1>1, <1>3, <2>1, IdsAreNumbers
  <2>3. PICK i \in I : \A j \in I : i <= j
    BY <2>2, LeastNumber
  <2>4. PICK l \in T : i = l.id
    BY <2>1, <2>3
  <2>5. \A k \in T : l.id <= k.id
    BY <2>1, <2>3, <2>4
  <2>6. T \subseteq Newer(S, l) \cup {l}
    <3> SUFFICES ASSUME NEW k \in T, k # l PROVE k.id > l.id
      BY <1>1 DEF Newer
    <3>1. k.id # l.id
      BY <1>1, <2>4 DEF Unique
    <3> QED BY <1>1, <2>4, <2>5, <3>1, IdsAreNumbers
  <2>7. IsFiniteSet(Newer(S, l)) /\ Cardinality(Newer(S, l)) \in Nat
    BY NewerGrows
  <2>8. l \notin Newer(S, l)
    BY <1>1, <2>4, IdsAreNumbers DEF Newer
  <2>9. /\ IsFiniteSet(Newer(S, l) \cup {l})
        /\ Cardinality(Newer(S, l) \cup {l}) = Cardinality(Newer(S, l)) + 1
    BY <2>7, <2>8, FS_AddElement
  <2>10. Cardinality(T) <= Cardinality(Newer(S, l)) + 1
    BY <2>6, <2>9, FS_Subset
  <2>11. Cardinality(Newer(S, l)) < n
    BY <2>4
  <2> QED BY <1>1, <2>7, <2>10, <2>11
<1> QED BY <1>2, <1>3

(* If one is left out, they are n, and all newer than it.                    *)
LEMMA TopIsFull ==
  ASSUME NEW S \in SUBSET Lesson, IsFiniteSet(S), Unique(S), NEW n \in Nat, NEW T,
         T = Top(S, n), NEW k \in S \ T
  PROVE  Newer(T, k) = T /\ Cardinality(T) = n
<1> USE DEF Top
<1>1. \A l \in S : Cardinality(Newer(S, l)) \in Nat /\ IsFiniteSet(Newer(S, l))
  BY NewerGrows
<1>2. IsFiniteSet(T) /\ Cardinality(T) \in Nat /\ Cardinality(T) <= n
  BY TopIsSmall
<1>3. \A j, l \in S : j.id <= l.id => Newer(S, l) \subseteq Newer(S, j)
  BY IdsAreNumbers DEF Newer
<1>4. ASSUME NEW l \in S \ T, NEW j \in T PROVE j.id > l.id
  <2>1. CASE j.id <= l.id
    <3>1. Newer(S, l) \subseteq Newer(S, j)
      BY <1>3, <2>1
    <3>2. Cardinality(Newer(S, l)) <= Cardinality(Newer(S, j))
      BY <1>1, <3>1, FS_Subset
    <3>3. Cardinality(Newer(S, j)) < n /\ ~(Cardinality(Newer(S, l)) < n)
      OBVIOUS
    <3> QED BY <1>1, <3>2, <3>3
  <2> QED BY <2>1, IdsAreNumbers
<1>5. Newer(T, k) = T
  BY <1>4 DEF Newer
<1>6. PICK C : C = {Cardinality(Newer(S, l)) : l \in S \ T}
  OBVIOUS
<1>7. C \in SUBSET Nat /\ C # {}
  BY <1>1, <1>6
<1>8. PICK c \in C : \A d \in C : c <= d
  BY <1>7, LeastNumber
<1>9. PICK l \in S \ T : c = Cardinality(Newer(S, l))
  BY <1>6, <1>8
<1>10. Newer(S, l) \subseteq T
  <2> SUFFICES ASSUME NEW j \in Newer(S, l), j \notin T PROVE FALSE
    OBVIOUS
  <2>1. j \in S \ T /\ j.id > l.id
    BY DEF Newer
  <2>2. Newer(S, j) \subseteq Newer(S, l)
    BY <1>3, <2>1, IdsAreNumbers
  <2>3. j \notin Newer(S, j)
    BY <2>1, IdsAreNumbers DEF Newer
  <2>4. Cardinality(Newer(S, j)) <= Cardinality(Newer(S, l))
    BY <1>1, <2>2, FS_Subset
  <2>5. Cardinality(Newer(S, j)) # Cardinality(Newer(S, l))
    BY <1>1, <2>2, <2>3, FS_Subset
  <2>6. Cardinality(Newer(S, l)) <= Cardinality(Newer(S, j))
    BY <1>6, <1>8, <1>9, <2>1
  <2> QED BY <1>1, <2>1, <2>4, <2>5, <2>6
<1>11. Cardinality(Newer(S, l)) <= Cardinality(T)
  BY <1>2, <1>10, FS_Subset
<1>12. Cardinality(Newer(S, l)) >= n
  BY <1>1
<1> QED BY <1>1, <1>2, <1>5, <1>11, <1>12

(* Trimmed, the lessons are no more than the limit.                          *)
LEMMA TrimFits ==
  ASSUME NEW S \in SUBSET Lesson, IsFiniteSet(S), Unique(S)
  PROVE  /\ IsFiniteSet(S \ Overflow(S)) /\ Cardinality(S \ Overflow(S)) \in Nat
         /\ Cardinality(S \ Overflow(S)) <= MaxLessons
<1>1. \A l \in S : Cardinality(Newer(S, l)) \in Nat
  BY NewerGrows
<1>2. S \ Overflow(S) = Top(S, MaxLessons)
  BY <1>1, HistoryAssumption DEF Overflow, Top
<1> QED BY <1>2, TopIsSmall, HistoryAssumption

(* Transactions with a row at most each add no more rows than there are.     *)
LEMMA AddedFits ==
  ASSUME NEW Q \in SUBSET RunIds,
         \A q \in Q : txn[q].new = {} \/ \E l : txn[q].new = {l}
  PROVE  /\ IsFiniteSet(Added(Q)) /\ Cardinality(Added(Q)) \in Nat
         /\ Cardinality(Added(Q)) <= Cardinality(Q)
<1>1. PICK f : f = [l \in Added(Q) |-> CHOOSE q \in Q : l \in txn[q].new]
  OBVIOUS
<1>2. \A l \in Added(Q) : f[l] \in Q /\ l \in txn[f[l]].new
  BY <1>1 DEF Added
<1>3. f \in Injection(Added(Q), Q)
  <2>1. f \in [Added(Q) -> Q]
    BY <1>1, <1>2
  <2>2. ASSUME NEW k \in Added(Q), NEW l \in Added(Q), f[k] = f[l] PROVE k = l
    BY <1>2, <2>2
  <2> QED BY <2>1, <2>2 DEF Injection, IsInjective
<1>4. IsFiniteSet(Q)
  BY HistoryAssumption, FS_Subset
<1> QED BY <1>3, <1>4, FS_Injection, FS_CardinalityType

-----------------------------------------------------------------------------
(* Checkpoints                                                               *)

CheckpointsOK ==
  saved \subseteq Checkpointed /\ older \in [Checkpointed -> SUBSET Checkpointed]

(* Saving adds an id and loses none.                                         *)
LEMMA SaveKeeps ==
  ASSUME CheckpointsOK, NEW id \in Checkpointed,
         SaveCheckpoint(id) \/ Lost(SaveCheckpoint(id))
  PROVE  CheckpointsOK' /\ saved \subseteq saved' /\ (SaveCheckpoint(id) => id \in saved')
<1>1. CASE SaveCheckpoint(id)
  BY <1>1 DEF SaveCheckpoint, CheckpointsOK
<1>2. CASE UNCHANGED checkpoints
  BY <1>2 DEF SaveCheckpoint, CheckpointsOK, checkpoints
<1> QED BY <1>1, <1>2 DEF Lost, MemoryRefuses, FileRefuses, CommitLost

(* A prune takes no checkpoint of the system's own.                          *)
LEMMA PruneKeeps ==
  ASSUME CheckpointsOK, Pruned \/ Lost(Pruned)
  PROVE  CheckpointsOK' /\ ("system" \in saved => "system" \in saved')
<1>1. ASSUME NEW gone \in SUBSET Candidates, Discard(gone)
      PROVE  CheckpointsOK' /\ ("system" \in saved => "system" \in saved')
  BY <1>1 DEF Discard, CheckpointsOK, Candidates
<1>2. CASE Pruned
  <2>1. CASE PruneCheckpoints
    BY <1>1, <2>1 DEF PruneCheckpoints
  <2>2. CASE PrunePostgres
    BY <1>1, <2>2 DEF PrunePostgres
  <2> QED BY <1>2, <2>1, <2>2 DEF Pruned
<1>3. CASE UNCHANGED checkpoints
  BY <1>3 DEF CheckpointsOK, checkpoints
<1> QED BY <1>2, <1>3 DEF Lost, MemoryRefuses, FileRefuses, CommitLost

lessonVars == <<store, lessons, lessonID, txn, learned>>

(* What a step that only saves checkpoints leaves as it is.                  *)
LEMMA LessonsStay ==
  ASSUME HInv, UNCHANGED lessonVars, CheckpointsOK', SystemKept',
         step' \in [RunIds -> {"idle", "intent", "learn", "commit", "result", "prune",
                             "done", "relearn", "recommit", "review", "reviewed", "gone"}],
         unsaved' \in BOOLEAN, systemSaved' \in BOOLEAN
  PROVE  HInv'
<1> USE DEF HInv, lessonVars
<1>1. HistoryTypeOK' /\ IsFiniteSet(learned')
  BY DEF HistoryTypeOK, CheckpointsOK
<1>2. Numbered' /\ OnlyPostgres'
  BY DEF Numbered, OnlyPostgres, Unique
<1>3. LostToNewer'
  BY DEF LostToNewer, Newer
<1>4. RoomLeft'
  <2> SUFFICES ASSUME NEW Q \in SUBSET RunIds
               PROVE  Cardinality(Left(Q)') < MaxLessons + Cardinality(RunIds)
    BY DEF RoomLeft
  <2>1. Left(Q)' = Left(Q)
    BY DEF Left, Added, Trimmed
  <2> QED BY <2>1 DEF RoomLeft
<1> QED BY <1>1, <1>2, <1>3, <1>4

(* Every step that saves or prunes checkpoints, and the close of a position. *)
LEMMA CheckpointSteps ==
  ASSUME HInv,
         \/ SaveSystem
         \/ \E r \in RunIds : \/ Checkpoint(r) \/ SaveResult(r) \/ Prune(r)
                              \/ SaveReview(r) \/ ClosePosition(r)
  PROVE  HInv'
<1> DEFINE Rest == /\ step' \in [RunIds -> {"idle", "intent", "learn", "commit", "result",
                                   "prune", "done", "relearn", "recommit", "review",
                                   "reviewed", "gone"}]
                   /\ unsaved' \in BOOLEAN /\ systemSaved' \in BOOLEAN
                   /\ UNCHANGED lessonVars
<1>1. CheckpointsOK /\ SystemKept
  BY DEF HInv, HistoryTypeOK, CheckpointsOK
<1>2. ASSUME NEW r \in RunIds, Checkpoint(r) \/ SaveResult(r) \/ SaveReview(r)
      PROVE  CheckpointsOK' /\ SystemKept' /\ Rest
  <2>1. Rest /\ UNCHANGED systemSaved
    BY <1>2 DEF Checkpoint, SaveResult, SaveReview, Turn, HInv, HistoryTypeOK, lessonVars
  <2>2. SaveCheckpoint(r) \/ Lost(SaveCheckpoint(r)) \/ UNCHANGED checkpoints
    BY <1>2 DEF Checkpoint, SaveResult, SaveReview
  <2>3. CheckpointsOK' /\ saved \subseteq saved'
    <3>1. CASE UNCHANGED checkpoints
      BY <1>1, <3>1 DEF CheckpointsOK, checkpoints
    <3>2. r \in Checkpointed
      BY DEF Checkpointed
    <3> QED BY <1>1, <2>2, <3>1, <3>2, SaveKeeps
  <2> QED BY <1>1, <2>1, <2>3 DEF SystemKept
<1>3. ASSUME NEW r \in RunIds, Prune(r) PROVE CheckpointsOK' /\ SystemKept' /\ Rest
  <2>1. Rest /\ UNCHANGED systemSaved
    BY <1>3 DEF Prune, Turn, HInv, HistoryTypeOK, lessonVars
  <2>2. CheckpointsOK' /\ ("system" \in saved => "system" \in saved')
    BY <1>1, <1>3, PruneKeeps DEF Prune
  <2> QED BY <1>1, <2>1, <2>2 DEF SystemKept
<1>4. ASSUME NEW r \in RunIds, ClosePosition(r)
      PROVE  CheckpointsOK' /\ SystemKept' /\ Rest
  BY <1>1, <1>4 DEF ClosePosition, Turn, HInv, HistoryTypeOK, lessonVars, checkpoints,
     CheckpointsOK, SystemKept
<1>5. ASSUME SaveSystem PROVE CheckpointsOK' /\ SystemKept' /\ Rest
  <2>1. Rest
    BY <1>5 DEF SaveSystem, HInv, HistoryTypeOK, lessonVars
  <2>2. "system" \in Checkpointed
    BY DEF Checkpointed
  <2>3. /\ CheckpointsOK' /\ saved \subseteq saved'
        /\ SaveCheckpoint("system") => "system" \in saved'
    BY <1>1, <1>5, <2>2, SaveKeeps DEF SaveSystem
  <2>4. SystemKept'
    BY <1>1, <1>5, <2>3 DEF SaveSystem, SystemKept
  <2> QED BY <2>1, <2>3, <2>4
<1>6. CheckpointsOK' /\ SystemKept' /\ Rest
  BY <1>2, <1>3, <1>4, <1>5
<1> QED BY <1>6, LessonsStay

-----------------------------------------------------------------------------
(* Lessons                                                                   *)

Steps == {"idle", "intent", "learn", "commit", "result", "prune",
          "done", "relearn", "recommit", "review", "reviewed", "gone"}

(* A lesson to be appended gets the next number.                             *)
LEMMA NewIsNext ==
  ASSUME lessonID \in 0..MaxLearned, NEW r \in RunIds, NEW new \in NewLessons(r)
  PROVE  /\ new = {} \/ \E l \in Lesson : new = {l}
         /\ \A l \in new : l.id = lessonID + 1 /\ l.id <= lessonID + Cardinality(new)
         /\ Cardinality(new) \in Nat /\ lessonID + Cardinality(new) \in 0..MaxLearned
         /\ IsFiniteSet(new)
<1>1. PICK l : l = [id |-> lessonID + 1, symbol |-> SymbolOf[r]]
  OBVIOUS
<1>2. new = {} \/ (lessonID < MaxLearned /\ new = {l})
  BY <1>1 DEF NewLessons
<1>3. l.id = lessonID + 1 /\ (lessonID < MaxLearned => l \in Lesson)
  BY <1>1, HistoryAssumption DEF Lesson
<1>4. Cardinality({}) = 0 /\ IsFiniteSet({}) /\ Cardinality({l}) = 1 /\ IsFiniteSet({l})
  BY FS_EmptySet, FS_Singleton
<1>5. CASE new = {}
  BY <1>4, <1>5, HistoryAssumption
<1>6. CASE lessonID < MaxLearned /\ new = {l}
  BY <1>3, <1>4, <1>6, HistoryAssumption
<1> QED BY <1>2, <1>5, <1>6

(* It has a place of its own among the lessons there are.                    *)
LEMMA LongerIsNumbered ==
  ASSUME HInv, NEW r \in RunIds, NEW new \in NewLessons(r), NEW S \in SUBSET learned
  PROVE  S \cup new \in SUBSET Lesson /\ IsFiniteSet(S \cup new) /\ Unique(S \cup new)
<1>1. lessonID \in 0..MaxLearned /\ learned \in SUBSET Lesson /\ lessonID \in Nat
  BY HistoryAssumption DEF HInv, HistoryTypeOK
<1>2. /\ new = {} \/ \E l \in Lesson : new = {l}
      /\ \A l \in new : l.id = lessonID + 1
      /\ IsFiniteSet(new)
  BY <1>1, NewIsNext
<1>3. IsFiniteSet(S)
  BY FS_Subset DEF HInv
<1>4. IsFiniteSet(S \cup new)
  BY <1>2, <1>3, FS_Union
<1>5. \A k \in S : k.id <= lessonID /\ k.id \in Nat
  BY <1>1, IdsAreNumbers DEF HInv, Numbered
<1>6. \A k \in S, l \in new : k.id # l.id
  BY <1>1, <1>2, <1>5
<1>7. \A k, l \in S : k.id = l.id => k = l
  BY DEF HInv, Numbered, Unique
<1>8. Unique(S \cup new)
  BY <1>2, <1>6, <1>7 DEF Unique
<1> QED BY <1>1, <1>2, <1>4, <1>8

(* A lesson that enough newer ones follow is followed by as many for good.   *)
LEMMA StaysOld ==
  ASSUME NEW S, NEW T, IsFiniteSet(T), S \subseteq T, NEW l,
         Cardinality(Newer(S, l)) >= MaxLessons
  PROVE  Cardinality(Newer(T, l)) >= MaxLessons
BY NewerGrows, HistoryAssumption

LEMMA LeftIsFinite ==
  ASSUME HInv, NEW Q \in SUBSET RunIds
  PROVE  IsFiniteSet(Left(Q))
<1>1. IsFiniteSet(Added(Q))
  BY AddedFits DEF HInv, Numbered
<1>2. IsFiniteSet(lessons)
  BY FS_Subset DEF HInv, HistoryTypeOK
<1> QED BY <1>1, <1>2, FS_Union, FS_Difference DEF Left

LEMMA AppendSteps ==
  ASSUME HInv, NEW r \in RunIds, AppendLessons(r)
  PROVE  HInv'
<1>1. /\ CheckpointsOK /\ CheckpointsOK' /\ SystemKept /\ SystemKept'
      /\ systemSaved' \in BOOLEAN
  BY DEF HInv, HistoryTypeOK, CheckpointsOK, AppendLessons, checkpoints, SystemKept
<1>2. step' \in [RunIds -> Steps] /\ unsaved' \in BOOLEAN
  BY DEF HInv, HistoryTypeOK, AppendLessons, LessonsFail, Turn, After, Steps
<1>3. CASE UNCHANGED <<lessons, learned, lessonID>>
  <2>1. UNCHANGED lessonVars
    BY <1>3 DEF AppendLessons, lessonVars
  <2> QED BY <1>1, <1>2, <2>1, LessonsStay DEF Steps
<1>4. ASSUME NEW new \in NewLessons(r),
             lessons' = (lessons \cup new) \ Overflow(lessons \cup new),
             learned' = learned \cup new, lessonID' = lessonID + Cardinality(new)
      PROVE  HInv'
  <2>1. /\ lessonID \in 0..MaxLearned /\ lessonID \in Nat /\ lessons \subseteq learned
        /\ learned \in SUBSET Lesson /\ IsFiniteSet(learned)
    BY HistoryAssumption DEF HInv, HistoryTypeOK
  <2>2. /\ \A l \in new : l.id = lessonID + 1 /\ l.id <= lessonID + Cardinality(new)
        /\ Cardinality(new) \in Nat /\ lessonID' \in 0..MaxLearned
    BY <1>4, <2>1, NewIsNext
  <2>3. /\ learned' \in SUBSET Lesson /\ IsFiniteSet(learned') /\ Unique(learned')
        /\ lessons \cup new \in SUBSET Lesson /\ IsFiniteSet(lessons \cup new)
        /\ Unique(lessons \cup new)
    BY <1>4, <2>1, LongerIsNumbered
  <2>4. /\ store # "postgres" /\ UNCHANGED <<store, txn>>
        /\ \A q \in RunIds : txn[q] = NoTxn
    BY DEF AppendLessons, HInv, OnlyPostgres
  <2>5. HistoryTypeOK'
    BY <1>1, <1>2, <1>4, <2>1, <2>2, <2>3, <2>4 DEF HInv, HistoryTypeOK, CheckpointsOK, Steps
  <2>6. Numbered'
    <3>1. \A l \in learned' : l.id <= lessonID'
      BY <1>4, <2>1, <2>2, IdsAreNumbers DEF HInv, Numbered
    <3> QED BY <2>3, <2>4, <3>1 DEF Numbered, NoTxn
  <2>7. LostToNewer'
    <3>1. ASSUME NEW l \in learned' \ lessons' PROVE Cardinality(Newer(learned', l)) >= MaxLessons
      <4>1. CASE l \in learned \ lessons
        BY <1>4, <2>3, <4>1, StaysOld DEF HInv, LostToNewer
      <4>2. CASE l \in Overflow(lessons \cup new)
        <5>1. Cardinality(Newer(lessons \cup new, l)) >= MaxLessons
          BY <4>2 DEF Overflow
        <5>2. lessons \cup new \subseteq learned'
          BY <1>4, <2>1
        <5> QED BY <2>3, <5>1, <5>2, StaysOld
      <4> QED BY <1>4, <4>1, <4>2
    <3>2. \A q \in RunIds : txn'[q].gone = {}
      BY <2>4 DEF NoTxn
    <3> QED BY <3>1, <3>2 DEF LostToNewer, Newer
  <2>8. RoomLeft'
    <3> SUFFICES ASSUME NEW Q \in SUBSET RunIds
                 PROVE  Cardinality(Left(Q)') < MaxLessons + Cardinality(RunIds)
      BY DEF RoomLeft
    <3>1. Left(Q)' = lessons'
      BY <2>4 DEF Left, Added, Trimmed, NoTxn
    <3>2. Cardinality(lessons') \in Nat /\ Cardinality(lessons') <= MaxLessons
      BY <1>4, <2>3, TrimFits
    <3>3. Cardinality(RunIds) \in Nat /\ Cardinality(RunIds) # 0
      BY HistoryAssumption, FS_EmptySet, FS_CardinalityType
    <3> QED BY <3>1, <3>2, <3>3, HistoryAssumption
  <2>9. OnlyPostgres'
    BY <2>4 DEF OnlyPostgres
  <2> QED BY <1>1, <2>3, <2>5, <2>6, <2>7, <2>8, <2>9 DEF HInv
<1> QED BY <1>3, <1>4 DEF AppendLessons

LEMMA InsertSteps ==
  ASSUME HInv, NEW r \in RunIds, InsertLessons(r)
  PROVE  HInv'
<1>1. /\ store = "postgres" /\ UNCHANGED <<store, checkpoints, lessons, learned>>
      /\ CheckpointsOK' /\ SystemKept' /\ systemSaved' \in BOOLEAN /\ unsaved' \in BOOLEAN
      /\ step' \in [RunIds -> Steps]
  BY DEF HInv, HistoryTypeOK, CheckpointsOK, InsertLessons, checkpoints, SystemKept, Turn,
     After, Steps
<1>2. PICK new \in NewLessons(r) :
        /\ txn' = [txn EXCEPT ![r] = [new |-> new, gone |-> Overflow(lessons \cup new)]]
        /\ lessonID' = lessonID + Cardinality(new)
  BY DEF InsertLessons
<1>3. /\ lessonID \in 0..MaxLearned /\ lessonID \in Nat /\ lessons \subseteq learned
      /\ learned \in SUBSET Lesson /\ IsFiniteSet(learned)
      /\ txn \in [RunIds -> [new : SUBSET Lesson, gone : SUBSET Lesson]]
  BY HistoryAssumption DEF HInv, HistoryTypeOK
<1>4. /\ new = {} \/ \E l \in Lesson : new = {l}
      /\ \A l \in new : l.id = lessonID + 1 /\ l.id <= lessonID'
      /\ Cardinality(new) \in Nat /\ lessonID' \in 0..MaxLearned
  BY <1>2, <1>3, NewIsNext
<1>5. /\ lessons \cup new \in SUBSET Lesson /\ IsFiniteSet(lessons \cup new)
      /\ Unique(lessons \cup new) /\ learned \cup new \in SUBSET Lesson
      /\ IsFiniteSet(learned \cup new)
  BY <1>3, LongerIsNumbered
<1>6. PICK gone : gone = Overflow(lessons \cup new)
  OBVIOUS
<1>7. /\ txn'[r].new = new /\ txn'[r].gone = gone
      /\ \A q \in RunIds \ {r} : txn'[q] = txn[q]
  BY <1>2, <1>3, <1>6
<1>8. gone \subseteq lessons
  <2>1. ASSUME NEW l \in new, l \in gone PROVE FALSE
    <3>1. \A k \in lessons \cup new : k.id <= l.id
      BY <1>3, <1>4, IdsAreNumbers DEF HInv, Numbered
    <3>2. Newer(lessons \cup new, l) = {}
      BY <1>3, <1>4, <1>5, <3>1, IdsAreNumbers DEF Newer
    <3>3. Cardinality(Newer(lessons \cup new, l)) >= MaxLessons
      BY <1>6, <2>1 DEF Overflow
    <3> QED BY <3>2, <3>3, FS_EmptySet, HistoryAssumption
  <2> QED BY <1>6, <2>1 DEF Overflow
<1>9. HistoryTypeOK'
  <2>1. [new |-> new, gone |-> gone] \in [new : SUBSET Lesson, gone : SUBSET Lesson]
    BY <1>3, <1>5, <1>8
  <2>2. txn' \in [RunIds -> [new : SUBSET Lesson, gone : SUBSET Lesson]]
    BY <1>2, <1>3, <1>6, <2>1
  <2> QED BY <1>1, <1>3, <1>4, <2>2 DEF HInv, HistoryTypeOK, CheckpointsOK, Steps
<1>10. \A q \in RunIds : \A l \in txn[q].new : l.id <= lessonID /\ l.id \in Nat
  BY <1>3, IdsAreNumbers DEF HInv, Numbered
<1>11. Numbered'
  <2>1. Unique(learned') /\ \A l \in learned' : l.id <= lessonID'
    BY <1>1, <1>2, <1>3, <1>4, IdsAreNumbers DEF HInv, Numbered, Unique
  <2>2. ASSUME NEW q \in RunIds
        PROVE  /\ txn'[q].new = {} \/ \E l \in Lesson : txn'[q].new = {l}
               /\ \A l \in txn'[q].new :
                    /\ l.id <= lessonID'
                    /\ \A k \in learned' : k.id # l.id
                    /\ \A p \in RunIds \ {q} : \A k \in txn'[p].new : k.id # l.id
    <3>1. CASE q = r
      <4>1. \A k \in learned : k.id <= lessonID /\ k.id \in Nat
        BY <1>3, IdsAreNumbers DEF HInv, Numbered
      <4> QED BY <1>1, <1>3, <1>4, <1>7, <1>10, <3>1, <4>1
    <3>2. CASE q # r
      <4>1. txn'[q].new = {} \/ \E l \in Lesson : txn'[q].new = {l}
        BY <1>7, <3>2 DEF HInv, Numbered
      <4>2. \A l \in txn'[q].new : l.id <= lessonID' /\ \A k \in learned' : k.id # l.id
        BY <1>1, <1>2, <1>3, <1>4, <1>7, <1>10, <3>2 DEF HInv, Numbered
      <4>3. ASSUME NEW l \in txn'[q].new, NEW p \in RunIds \ {q}, NEW k \in txn'[p].new
            PROVE  k.id # l.id
        <5>1. CASE p = r
          BY <1>3, <1>4, <1>7, <1>10, <3>2, <5>1
        <5>2. CASE p # r
          BY <1>7, <3>2, <5>2 DEF HInv, Numbered
        <5> QED BY <5>1, <5>2
      <4> QED BY <4>1, <4>2, <4>3
    <3> QED BY <3>1, <3>2
  <2> QED BY <2>1, <2>2 DEF Numbered
<1>12. LostToNewer'
  <2>1. \A l \in learned' \ lessons' : Cardinality(Newer(learned', l)) >= MaxLessons
    BY <1>1 DEF HInv, LostToNewer, Newer
  <2>2. ASSUME NEW q \in RunIds, NEW l \in txn'[q].gone
        PROVE  l \in learned' /\ Cardinality(Newer(learned' \cup txn'[q].new, l)) >= MaxLessons
    <3>1. CASE q = r
      <4>1. Cardinality(Newer(lessons \cup new, l)) >= MaxLessons /\ l \in lessons
        BY <1>6, <1>7, <1>8, <2>2, <3>1 DEF Overflow
      <4>2. Cardinality(Newer(learned \cup new, l)) >= MaxLessons
        BY <1>3, <1>5, <4>1, StaysOld
      <4> QED BY <1>1, <1>3, <1>7, <3>1, <4>1, <4>2
    <3>2. CASE q # r
      BY <1>1, <1>7, <2>2, <3>2 DEF HInv, LostToNewer
    <3> QED BY <3>1, <3>2
  <2>3. learned' = learned
    BY <1>1
  <2> QED BY <2>1, <2>2, <2>3 DEF LostToNewer, Newer
<1>13. RoomLeft'
  <2> SUFFICES ASSUME NEW Q \in SUBSET RunIds
               PROVE  Cardinality(Left(Q)') < MaxLessons + Cardinality(RunIds)
    BY DEF RoomLeft
  <2>1. CASE r \notin Q
    <3>1. \A q \in Q : txn'[q] = txn[q]
      BY <1>7, <2>1
    <3>2. Left(Q)' = Left(Q)
      BY <1>1, <3>1 DEF Left, Added, Trimmed
    <3> QED BY <3>2 DEF HInv, RoomLeft
  <2>2. CASE r \in Q
    <3>1. PICK P : P = Q \ {r}
      OBVIOUS
    <3>2. PICK kept : kept = (lessons \cup new) \ gone
      OBVIOUS
    <3>3. Left(Q)' \subseteq kept \cup Added(P)
      <4>1. Added(Q)' \subseteq new \cup Added(P)
        BY <1>7, <3>1 DEF Added
      <4>2. gone \subseteq Trimmed(Q)'
        BY <1>7, <2>2 DEF Trimmed
      <4> QED BY <1>1, <3>2, <4>1, <4>2 DEF Left
    <3>4. IsFiniteSet(kept) /\ Cardinality(kept) \in Nat /\ Cardinality(kept) <= MaxLessons
      BY <1>5, <1>6, <3>2, TrimFits
    <3>5. /\ IsFiniteSet(Added(P)) /\ Cardinality(Added(P)) \in Nat
          /\ Cardinality(Added(P)) <= Cardinality(P)
      <4>1. \A q \in P : txn[q].new = {} \/ \E l : txn[q].new = {l}
        BY <3>1 DEF HInv, Numbered
      <4>2. P \in SUBSET RunIds
        BY <3>1
      <4> QED BY <4>1, <4>2, AddedFits
    <3>6. /\ Cardinality(RunIds) \in Nat /\ Cardinality(P) \in Nat
          /\ Cardinality(P) < Cardinality(RunIds)
      <4>1. P \subseteq RunIds /\ r \notin P
        BY <3>1
      <4> QED BY <4>1, HistoryAssumption, FS_Subset, FS_CardinalityType
    <3>7. /\ IsFiniteSet(kept \cup Added(P)) /\ Cardinality(kept \cup Added(P)) \in Nat
          /\ Cardinality(kept \cup Added(P)) <= Cardinality(kept) + Cardinality(Added(P))
      <4>1. Cardinality(kept \cap Added(P)) \in Nat
        BY <3>4, FS_Intersection, FS_CardinalityType
      <4>2. /\ IsFiniteSet(kept \cup Added(P))
            /\ Cardinality(kept \cup Added(P))
                 = Cardinality(kept) + Cardinality(Added(P)) - Cardinality(kept \cap Added(P))
        BY <3>4, <3>5, FS_Union
      <4>3. Cardinality(kept \cup Added(P)) \in Nat
        BY <4>2, FS_CardinalityType
      <4> QED BY <3>4, <3>5, <4>1, <4>2, <4>3
    <3>8. /\ Cardinality(Left(Q)') \in Nat
          /\ Cardinality(Left(Q)') <= Cardinality(kept \cup Added(P))
      BY <3>3, <3>7, FS_Subset, FS_CardinalityType
    <3> QED BY <3>4, <3>5, <3>6, <3>7, <3>8, HistoryAssumption
  <2> QED BY <2>1, <2>2
<1>14. OnlyPostgres' /\ IsFiniteSet(learned')
  BY <1>1, <1>3 DEF OnlyPostgres
<1> QED BY <1>1, <1>9, <1>11, <1>12, <1>13, <1>14 DEF HInv

LEMMA CommitSteps ==
  ASSUME HInv, NEW r \in RunIds, CommitLessons(r)
  PROVE  HInv'
<1>1. /\ UNCHANGED <<store, checkpoints, lessonID>>
      /\ CheckpointsOK' /\ SystemKept' /\ systemSaved' \in BOOLEAN /\ unsaved' \in BOOLEAN
      /\ step' \in [RunIds -> Steps]
  BY DEF HInv, HistoryTypeOK, CheckpointsOK, CommitLessons, checkpoints, SystemKept, Turn,
     After, LessonsFail, Steps
<1>2. /\ lessonID \in 0..MaxLearned /\ lessons \subseteq learned
      /\ learned \in SUBSET Lesson /\ IsFiniteSet(learned)
      /\ txn \in [RunIds -> [new : SUBSET Lesson, gone : SUBSET Lesson]]
  BY DEF HInv, HistoryTypeOK
<1>3. PICK new, gone : new = txn[r].new /\ gone = txn[r].gone
  OBVIOUS
<1>4. /\ new \in SUBSET Lesson /\ gone \in SUBSET Lesson
      /\ new = {} \/ \E l \in Lesson : new = {l}
      /\ \A l \in new : l.id <= lessonID /\ \A k \in learned : k.id # l.id
      /\ \A l \in new : \A q \in RunIds \ {r} : \A k \in txn[q].new : k.id # l.id
      /\ \A l \in gone : l \in learned /\ Cardinality(Newer(learned \cup new, l)) >= MaxLessons
  BY <1>2, <1>3 DEF HInv, Numbered, LostToNewer
<1>5. lessons' = (lessons \cup new) \ gone /\ learned' = learned \cup new
  BY <1>3 DEF CommitLessons
<1>6. txn' = [txn EXCEPT ![r] = NoTxn]
  BY DEF CommitLessons
<1>7. txn'[r].new = {} /\ txn'[r].gone = {} /\ \A q \in RunIds \ {r} : txn'[q] = txn[q]
  BY <1>2, <1>6 DEF NoTxn
<1>8. IsFiniteSet(learned')
  BY <1>2, <1>4, <1>5, FS_EmptySet, FS_Singleton, FS_Union
<1>9. HistoryTypeOK'
  <2>1. NoTxn \in [new : SUBSET Lesson, gone : SUBSET Lesson]
    BY DEF NoTxn
  <2>2. txn' \in [RunIds -> [new : SUBSET Lesson, gone : SUBSET Lesson]]
    BY <1>2, <1>6, <2>1
  <2> QED BY <1>1, <1>2, <1>4, <1>5, <2>2 DEF HInv, HistoryTypeOK, CheckpointsOK, Steps
<1>10. Numbered'
  <2>1. Unique(learned')
    <3>1. Unique(learned)
      BY DEF HInv, Numbered
    <3> QED BY <1>4, <1>5, <3>1 DEF Unique
  <2>2. \A l \in learned' : l.id <= lessonID'
    BY <1>1, <1>4, <1>5 DEF HInv, Numbered
  <2>3. ASSUME NEW q \in RunIds
        PROVE  /\ txn'[q].new = {} \/ \E l \in Lesson : txn'[q].new = {l}
               /\ \A l \in txn'[q].new :
                    /\ l.id <= lessonID'
                    /\ \A k \in learned' : k.id # l.id
                    /\ \A p \in RunIds \ {q} : \A k \in txn'[p].new : k.id # l.id
    <3>1. CASE q = r
      BY <1>7, <3>1
    <3>2. CASE q # r
      <4>1. /\ txn[q].new = {} \/ \E l \in Lesson : txn[q].new = {l}
            /\ \A l \in txn[q].new :
                 /\ l.id <= lessonID
                 /\ \A k \in learned : k.id # l.id
                 /\ \A p \in RunIds \ {q} : \A k \in txn[p].new : k.id # l.id
        BY DEF HInv, Numbered
      <4>2. \A l \in txn[q].new : \A k \in learned' : k.id # l.id
        BY <1>3, <1>5, <3>2, <4>1
      <4>3. \A p \in RunIds : txn'[p].new \subseteq txn[p].new
        BY <1>7
      <4> QED BY <1>1, <1>7, <3>2, <4>1, <4>2, <4>3
    <3> QED BY <3>1, <3>2
  <2> QED BY <2>1, <2>2, <2>3 DEF Numbered
<1>11. LostToNewer'
  <2>1. ASSUME NEW l \in learned' \ lessons' PROVE Cardinality(Newer(learned', l)) >= MaxLessons
    <3>1. CASE l \in learned \ lessons
      BY <1>5, <1>8, <3>1, StaysOld DEF HInv, LostToNewer
    <3>2. CASE l \in gone
      BY <1>4, <1>5, <3>2
    <3> QED BY <1>5, <3>1, <3>2
  <2>2. ASSUME NEW q \in RunIds, NEW l \in txn'[q].gone
        PROVE  l \in learned' /\ Cardinality(Newer(learned' \cup txn'[q].new, l)) >= MaxLessons
    <3>1. q # r /\ txn'[q] = txn[q]
      BY <1>7, <2>2
    <3>2. l \in learned /\ Cardinality(Newer(learned \cup txn[q].new, l)) >= MaxLessons
      BY <2>2, <3>1 DEF HInv, LostToNewer
    <3>3. IsFiniteSet(learned' \cup txn[q].new)
      BY <1>8, FS_EmptySet, FS_Singleton, FS_Union DEF HInv, Numbered
    <3>4. learned \cup txn[q].new \subseteq learned' \cup txn[q].new
      BY <1>5
    <3> QED BY <1>5, <3>1, <3>2, <3>3, <3>4, StaysOld
  <2> QED BY <2>1, <2>2 DEF LostToNewer, Newer
<1>12. RoomLeft'
  <2> SUFFICES ASSUME NEW Q \in SUBSET RunIds
               PROVE  Cardinality(Left(Q)') < MaxLessons + Cardinality(RunIds)
    BY DEF RoomLeft
  <2>1. PICK P \in SUBSET RunIds : P = Q \cup {r}
    OBVIOUS
  <2>2. Left(Q)' \subseteq Left(P)
    <3> SUFFICES ASSUME NEW l \in Left(Q)' PROVE l \in Left(P)
      OBVIOUS
    <3>1. \/ l \in lessons'
          \/ \E q \in Q : l \in txn'[q].new
      BY DEF Left, Added
    <3>2. \A q \in Q : l \notin txn'[q].gone
      BY DEF Left, Trimmed
    <3>3. \A q \in P \ {r} : l \notin txn[q].gone
      BY <1>7, <2>1, <3>2
    <3>4. CASE l \in lessons'
      <4>1. l \notin gone /\ (l \in lessons \/ l \in new)
        BY <1>5, <3>4
      <4>2. \A q \in P : l \notin txn[q].gone
        BY <1>3, <3>3, <4>1
      <4>3. l \in lessons \/ \E q \in P : l \in txn[q].new
        BY <1>3, <2>1, <4>1
      <4> QED BY <4>2, <4>3 DEF Left, Added, Trimmed
    <3>5. ASSUME NEW q \in Q, l \in txn'[q].new PROVE l \in Left(P)
      <4>1. q # r /\ l \in txn[q].new /\ q \in P
        BY <1>7, <2>1, <3>5
      <4>2. l \notin learned
        BY <4>1 DEF HInv, Numbered
      <4>3. \A p \in P : l \notin txn[p].gone
        BY <1>3, <1>4, <3>3, <4>2
      <4> QED BY <4>1, <4>3 DEF Left, Added, Trimmed
    <3> QED BY <3>1, <3>4, <3>5
  <2>3. IsFiniteSet(Left(P)) /\ Cardinality(Left(P)) < MaxLessons + Cardinality(RunIds)
    BY LeftIsFinite DEF HInv, RoomLeft
  <2>4. Cardinality(Left(Q)') <= Cardinality(Left(P))
    BY <2>2, <2>3, FS_Subset
  <2>5. /\ Cardinality(Left(P)) \in Nat /\ Cardinality(Left(Q)') \in Nat
        /\ Cardinality(RunIds) \in Nat
    BY <2>2, <2>3, FS_Subset, FS_CardinalityType, HistoryAssumption
  <2> QED BY <2>3, <2>4, <2>5, HistoryAssumption
<1>13. OnlyPostgres'
  BY <1>1, <1>2, <1>6 DEF HInv, OnlyPostgres
<1> QED BY <1>1, <1>8, <1>9, <1>10, <1>11, <1>12, <1>13 DEF HInv

(* Open transactions are given up, all or one.                               *)
LEMMA AbortSteps ==
  ASSUME HInv, NEW R \in SUBSET RunIds,
         txn' = [q \in RunIds |-> IF q \in R THEN NoTxn ELSE txn[q]],
         UNCHANGED <<store, checkpoints, lessons, learned, lessonID, systemSaved>>,
         step' \in [RunIds -> Steps], unsaved' \in BOOLEAN
  PROVE  HInv'
<1>1. /\ \A q \in R : txn'[q] = NoTxn
      /\ \A q \in RunIds \ R : txn'[q] = txn[q]
  OBVIOUS
<1>2. \A q \in RunIds : txn'[q] = NoTxn \/ txn'[q] = txn[q]
  BY <1>1
<1>3. HistoryTypeOK' /\ IsFiniteSet(learned') /\ SystemKept'
  <2>1. NoTxn \in [new : SUBSET Lesson, gone : SUBSET Lesson]
    BY DEF NoTxn
  <2>2. txn' \in [RunIds -> [new : SUBSET Lesson, gone : SUBSET Lesson]]
    BY <2>1 DEF HInv, HistoryTypeOK
  <2> QED BY <2>2 DEF HInv, HistoryTypeOK, checkpoints, SystemKept, Steps
<1>4. Numbered'
  <2>1. Unique(learned') /\ \A l \in learned' : l.id <= lessonID'
    BY DEF HInv, Numbered, Unique
  <2>2. \A q \in RunIds : txn'[q].new = {} \/ txn'[q].new = txn[q].new
    BY <1>2 DEF NoTxn
  <2>3. \A q \in RunIds :
          /\ txn'[q].new = {} \/ \E l \in Lesson : txn'[q].new = {l}
          /\ \A l \in txn'[q].new : l.id <= lessonID' /\ \A k \in learned' : k.id # l.id
    BY <2>2 DEF HInv, Numbered
  <2>4. \A q \in RunIds : \A l \in txn'[q].new :
          \A p \in RunIds \ {q} : \A k \in txn'[p].new : k.id # l.id
    BY <2>2 DEF HInv, Numbered
  <2> QED BY <2>1, <2>3, <2>4 DEF Numbered
<1>5. LostToNewer'
  <2>1. \A l \in learned' \ lessons' : Cardinality(Newer(learned', l)) >= MaxLessons
    BY DEF HInv, LostToNewer, Newer
  <2>2. ASSUME NEW q \in RunIds, NEW l \in txn'[q].gone
        PROVE  l \in learned' /\ Cardinality(Newer(learned' \cup txn'[q].new, l)) >= MaxLessons
    <3>1. txn'[q] = txn[q]
      BY <1>2, <2>2 DEF NoTxn
    <3> QED BY <2>2, <3>1 DEF HInv, LostToNewer
  <2> QED BY <2>1, <2>2 DEF LostToNewer, Newer
<1>6. RoomLeft'
  <2> SUFFICES ASSUME NEW Q \in SUBSET RunIds
               PROVE  Cardinality(Left(Q)') < MaxLessons + Cardinality(RunIds)
    BY DEF RoomLeft
  <2>1. PICK P \in SUBSET RunIds : P = Q \ R
    OBVIOUS
  <2>2. Left(Q)' = Left(P)
    <3>1. \A q \in Q : IF q \in P THEN txn'[q] = txn[q] ELSE txn'[q].new = {} /\ txn'[q].gone = {}
      BY <1>1, <2>1 DEF NoTxn
    <3>2. Added(Q)' = Added(P) /\ Trimmed(Q)' = Trimmed(P)
      BY <2>1, <3>1 DEF Added, Trimmed
    <3> QED BY <3>2 DEF Left
  <2> QED BY <2>2 DEF HInv, RoomLeft
<1>7. OnlyPostgres'
  BY <1>2 DEF HInv, OnlyPostgres
<1> QED BY <1>3, <1>4, <1>5, <1>6, <1>7 DEF HInv

LEMMA RestartStep == ASSUME HInv, RestartHistory PROVE HInv'
<1>1. /\ step' \in [RunIds -> Steps] /\ unsaved' \in BOOLEAN /\ UNCHANGED store
      /\ txn' = [q \in RunIds |-> NoTxn]
  BY DEF RestartHistory, HInv, HistoryTypeOK, Steps
<1>2. CASE store = "memory"
  <2>1. /\ saved' = {} /\ older' = [id \in Checkpointed |-> {}]
        /\ lessons' = {} /\ learned' = {} /\ lessonID' = 0 /\ systemSaved' = FALSE
    BY <1>2 DEF RestartHistory
  <2>2. HistoryTypeOK' /\ IsFiniteSet(learned') /\ SystemKept'
    <3>1. NoTxn \in [new : SUBSET Lesson, gone : SUBSET Lesson]
      BY DEF NoTxn
    <3>2. txn' \in [RunIds -> [new : SUBSET Lesson, gone : SUBSET Lesson]]
      BY <1>1, <3>1
    <3>3. 0 \in 0..MaxLearned
      BY HistoryAssumption
    <3> QED BY <1>1, <1>2, <2>1, <3>2, <3>3, FS_EmptySet DEF HistoryTypeOK, SystemKept, Steps
  <2>3. Numbered' /\ LostToNewer' /\ OnlyPostgres'
    BY <1>1, <2>1 DEF Numbered, Unique, LostToNewer, OnlyPostgres, NoTxn
  <2>4. RoomLeft'
    <3> SUFFICES ASSUME NEW Q \in SUBSET RunIds
                 PROVE  Cardinality(Left(Q)') < MaxLessons + Cardinality(RunIds)
      BY DEF RoomLeft
    <3>1. Left(Q)' = {}
      BY <1>1, <2>1 DEF Left, Added, Trimmed, NoTxn
    <3>2. Cardinality({}) = 0 /\ Cardinality(RunIds) \in Nat
      BY FS_EmptySet, FS_CardinalityType, HistoryAssumption
    <3> QED BY <3>1, <3>2, HistoryAssumption
  <2> QED BY <2>2, <2>3, <2>4 DEF HInv
<1>3. CASE store # "memory"
  <2>1. UNCHANGED <<store, checkpoints, lessons, learned, lessonID, systemSaved>>
    BY <1>3 DEF RestartHistory
  <2>2. txn' = [q \in RunIds |-> IF q \in RunIds THEN NoTxn ELSE txn[q]]
    BY <1>1
  <2> QED BY <1>1, <2>1, <2>2, AbortSteps
<1> QED BY <1>2, <1>3

-----------------------------------------------------------------------------
(* The invariant                                                             *)

LEMMA HistoryStarts == HistoryInit => HInv
<1> SUFFICES ASSUME HistoryInit PROVE HInv
  OBVIOUS
<1> USE DEF HistoryInit
<1>1. HistoryTypeOK /\ IsFiniteSet(learned) /\ SystemKept
  <2>1. NoTxn \in [new : SUBSET Lesson, gone : SUBSET Lesson]
    BY DEF NoTxn
  <2>2. 0 \in 0..MaxLearned
    BY HistoryAssumption
  <2> QED BY <2>1, <2>2, FS_EmptySet DEF HistoryTypeOK, SystemKept
<1>2. Numbered /\ LostToNewer /\ OnlyPostgres
  BY DEF Numbered, Unique, LostToNewer, OnlyPostgres, NoTxn
<1>3. RoomLeft
  <2> SUFFICES ASSUME NEW Q \in SUBSET RunIds
               PROVE  Cardinality(Left(Q)) < MaxLessons + Cardinality(RunIds)
    BY DEF RoomLeft
  <2>1. Left(Q) = {}
    BY DEF Left, Added, Trimmed, NoTxn
  <2>2. Cardinality({}) = 0 /\ Cardinality(RunIds) \in Nat
    BY FS_EmptySet, FS_CardinalityType, HistoryAssumption
  <2> QED BY <2>1, <2>2, HistoryAssumption
<1> QED BY <1>1, <1>2, <1>3 DEF HInv

LEMMA HistorySteps == HInv /\ [HistoryNext]_historyVars => HInv'
<1> SUFFICES ASSUME HInv, [HistoryNext]_historyVars PROVE HInv'
  OBVIOUS
<1>1. ASSUME NEW r \in RunIds, AppendLessons(r) PROVE HInv'
  BY <1>1, AppendSteps
<1>2. ASSUME NEW r \in RunIds, InsertLessons(r) PROVE HInv'
  BY <1>2, InsertSteps
<1>3. ASSUME NEW r \in RunIds, CommitLessons(r) PROVE HInv'
  BY <1>3, CommitSteps
<1>4. ASSUME NEW r \in RunIds, RollbackLessons(r) PROVE HInv'
  <2>1. /\ UNCHANGED <<store, checkpoints, lessons, learned, lessonID, systemSaved>>
        /\ step' \in [RunIds -> Steps] /\ unsaved' \in BOOLEAN
    BY <1>4 DEF RollbackLessons, LessonsFail, Turn, After, HInv, HistoryTypeOK, Steps
  <2>2. txn' = [q \in RunIds |-> IF q \in {r} THEN NoTxn ELSE txn[q]]
    BY <1>4 DEF RollbackLessons, HInv, HistoryTypeOK
  <2> QED BY <2>1, <2>2, AbortSteps
<1>5. CASE RestartHistory
  BY <1>5, RestartStep
<1>6. CASE \/ SaveSystem
           \/ \E r \in RunIds : \/ Checkpoint(r) \/ SaveResult(r) \/ Prune(r)
                                \/ SaveReview(r) \/ ClosePosition(r)
  BY <1>6, CheckpointSteps
<1>7. CASE UNCHANGED historyVars
  <2>1. UNCHANGED lessonVars /\ CheckpointsOK' /\ SystemKept'
    BY <1>7 DEF historyVars, lessonVars, checkpoints, CheckpointsOK, SystemKept, HInv,
       HistoryTypeOK
  <2> QED BY <1>7, <2>1, LessonsStay DEF historyVars, HInv, HistoryTypeOK
<1> QED BY <1>1, <1>2, <1>3, <1>4, <1>5, <1>6, <1>7 DEF HistoryNext

LEMMA HistorySpecKeeps == HistorySpec => []HInv
<1> QED BY HistoryStarts, HistorySteps, PTL DEF HistorySpec

(* What an answer leaves out has been lost to newer lessons, or is older     *)
(* than as many of its symbol as are told.                                   *)
LEMMA NewestAreTold ==
  ASSUME HInv, NEW r \in RunIds, NEW told \in Answers(SymbolOf[r]),
         NEW l \in learned \ told, l.symbol = SymbolOf[r]
  PROVE  \/ Cardinality(Newer({k \in told : k.symbol = l.symbol}, l)) = LessonLimit
         \/ Cardinality(Newer(learned, l)) >= MaxLessons
<1>1. /\ lessons \subseteq learned /\ learned \in SUBSET Lesson /\ IsFiniteSet(learned)
      /\ Unique(learned)
  BY DEF HInv, HistoryTypeOK, Numbered
<1>0. LessonLimit \in Nat /\ MaxLessons \in Nat /\ 20 * LessonLimit >= MaxLessons
  BY HistoryAssumption
<1>2. CASE l \notin lessons
  BY <1>2 DEF HInv, LostToNewer
<1>3. CASE l \in lessons \ Considered
  <2>1. ~(Cardinality(Newer(lessons, l)) < 20 * LessonLimit)
    BY <1>3 DEF Considered
  <2>2. Cardinality(Newer(lessons, l)) >= MaxLessons
    <3>1. Cardinality(Newer(lessons, l)) \in Nat
      BY <1>1, NewerGrows
    <3> QED BY <1>0, <2>1, <3>1
  <2> QED BY <1>1, <2>2, StaysOld
<1>4. CASE l \in Considered
  <2>1. PICK own : own = {k \in Considered : k.symbol = SymbolOf[r]}
    OBVIOUS
  <2>2. PICK best : best = Top(own, LessonLimit)
    OBVIOUS
  <2>3. PICK more \in SUBSET (Considered \ own) : told = best \cup more
    BY <2>1, <2>2 DEF Answers, Top
  <2>4. /\ own \in SUBSET Lesson /\ IsFiniteSet(own) /\ Unique(own)
    <3>1. own \subseteq learned
      BY <1>1, <2>1 DEF Considered
    <3> QED BY <1>1, <3>1, FS_Subset DEF Unique
  <2>5. l \in own \ best
    BY <1>4, <2>1, <2>3
  <2>6. Newer(best, l) = best /\ Cardinality(best) = LessonLimit
    BY <1>0, <2>2, <2>4, <2>5, TopIsFull
  <2>7. {k \in told : k.symbol = l.symbol} = best
    BY <2>1, <2>2, <2>3 DEF Top
  <2> QED BY <2>6, <2>7
<1> QED BY <1>2, <1>3, <1>4

(* store.go, repository.go, postgres.go:451: for any number of runs, limits  *)
(* and interleavings of prunes, trims, lost commits and restarts, the        *)
(* system's checkpoints stay, the lessons stay within what transactions side *)
(* by side can add, and only newer lessons displace one.                     *)
THEOREM HistoryAlwaysRetained == HistorySpec => []HistoryRetained
<1>1. HInv => HistoryRetained
  <2> SUFFICES ASSUME HInv PROVE HistoryRetained
    OBVIOUS
  <2>1. SystemKept
    BY DEF HInv
  <2>2. Cardinality(lessons) < MaxLessons + Cardinality(RunIds)
    <3>1. Left({}) = lessons
      BY DEF Left, Added, Trimmed
    <3> QED BY <3>1 DEF HInv, RoomLeft
  <2>3. LessonsTold
    BY <2>2, NewestAreTold DEF LessonsTold
  <2> QED BY <2>1, <2>3 DEF HistoryRetained
<1> QED BY <1>1, HistorySpecKeeps, PTL

(* Sets of checkpoints and lessons, their numbers and the open transactions  *)
(* stay what they are meant to be.                                           *)
THEOREM HistoryTypeKept == HistorySpec => []HistoryTypeOK
<1>1. HInv => HistoryTypeOK
  BY DEF HInv
<1> QED BY <1>1, HistorySpecKeeps, PTL
=============================================================================
