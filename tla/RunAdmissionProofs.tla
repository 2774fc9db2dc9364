------------------------- MODULE RunAdmissionProofs -------------------------
(* Proofs about RunAdmission for any finite set of runs and other goroutines,*)
(* any symbols and any limits.  The invariant AInv says what start registers *)
(* for a run that is alive (its symbol is taken, the group counts it) and    *)
(* what each step of its goroutine holds (its place, the symbol's lock, an   *)
(* entry in the pending gate); shutdown is quiet because a run that holds    *)
(* anything is alive and the group counts the runs that are.  First come the *)
(* symbol locks the runs hold.  That Do serializes rests on the counting: an *)
(* entry leaves the map only with its last user, so all users of a symbol    *)
(* wait at one channel.  Inv says so, and that a taken channel is what keeps *)
(* the next one out.  Last comes the run history.                            *)
EXTENDS RunAdmission, FiniteSetTheorems, WellFoundedInduction, TLAPS

(* The symbol locks, for any finite set of goroutines.                       *)

Users(e) == {p \in Procs : stage[p] # "out" /\ entry[p] = e}

InMap(e) == locks[e[2]] = e[1]

Inv ==
  /\ LocksTypeOK
  /\ \A p \in Procs : stage[p] # "out" => InMap(entry[p])
  /\ \A e \in Entries : InMap(e) => references[e] = Cardinality(Users(e))
  /\ \A p \in Procs : stage[p] = "inside" => entry[p] \in full
  /\ \A p, q \in Procs :
       stage[p] = "inside" /\ stage[q] = "inside" /\ entry[p] = entry[q] => p = q

(* An entry has finitely many users.                                         *)
LEMMA UsersFinite ==
  \A e \in Entries : IsFiniteSet(Users(e)) /\ Cardinality(Users(e)) \in Nat
BY ProcsAssumption, FS_Subset, FS_CardinalityType DEF Users

(* The empty map has it.                                                     *)
LEMMA InitInv == LocksInit => Inv
<1> SUFFICES ASSUME LocksInit PROVE Inv
  OBVIOUS
<1>1. LocksTypeOK
  BY ProcsAssumption DEF LocksInit, LocksTypeOK, Entries
<1>2. \A e \in Entries : ~InMap(e)
  BY NobodyAssumption DEF LocksInit, InMap, Entries
<1> QED BY <1>1, <1>2 DEF LocksInit, Inv

(* The users of an entry when a process joins or leaves. *)
LEMMA UserJoins ==
  ASSUME Inv, NEW p \in Procs, NEW s \in Symbols, EntryFor(p, s), NEW e \in Entries
  PROVE  Users(e)' = IF e = entry'[p] THEN Users(e) \cup {p} ELSE Users(e)
BY DEF Inv, LocksTypeOK, EntryFor, Users, Entries

(* A release takes one user from one entry.                                  *)
LEMMA UserLeaves ==
  ASSUME Inv, NEW p \in Procs, Release(p), NEW e \in Entries
  PROVE  Users(e)' = IF e = entry[p] THEN Users(e) \ {p} ELSE Users(e)
BY DEF Inv, LocksTypeOK, Release, Users

(* Coming to an entry, new or found, keeps it.                               *)
LEMMA EntryForInv ==
  ASSUME Inv, NEW p \in Procs, NEW s \in Symbols, EntryFor(p, s)
  PROVE  Inv'
<1> DEFINE new == locks[s] = Nobody
<1> PICK e : e = IF new THEN <<p, s>> ELSE <<locks[s], s>>
  OBVIOUS
<1>1. /\ stage[p] = "out"
      /\ locks' = [locks EXCEPT ![s] = e[1]]
      /\ references' = [references EXCEPT ![e] = IF new THEN 1 ELSE references[e] + 1]
      /\ full' = IF new THEN full \ {e} ELSE full
      /\ entry' = [entry EXCEPT ![p] = e]
      /\ stage' = [stage EXCEPT ![p] = "waiting"]
  BY DEF EntryFor
<1>2. e \in Entries /\ e[2] = s
  BY DEF Inv, LocksTypeOK, Entries
<1>3. LocksTypeOK'
  BY <1>1, <1>2 DEF Inv, LocksTypeOK, Entries
<1>4. \A f \in Entries : f[2] = s => (InMap(f)' <=> f = e)
  BY <1>1, <1>2 DEF Inv, LocksTypeOK, InMap, Entries
<1>5. \A f \in Entries : f[2] # s => (InMap(f)' <=> InMap(f))
  BY <1>1, <1>2 DEF Inv, LocksTypeOK, InMap, Entries
<1>6. \A q \in Procs \ {p} : stage'[q] = stage[q] /\ entry'[q] = entry[q]
  BY <1>1 DEF Inv, LocksTypeOK
<1>7. stage'[p] = "waiting" /\ entry'[p] = e
  BY <1>1 DEF Inv, LocksTypeOK
<1>8. new => \A q \in Procs : stage[q] # "out" => entry[q][2] # s
  BY NobodyAssumption DEF Inv, LocksTypeOK, InMap, Entries
<1>9. ~new => InMap(e)
  BY DEF InMap
<1>10. \A q \in Procs : stage[q] # "out" /\ entry[q][2] = s => entry[q] = e
  BY <1>8 DEF Inv, LocksTypeOK, InMap, Entries
<1>11. \A q \in Procs : stage'[q] # "out" => InMap(entry[q])'
  <2> TAKE q \in Procs
  <2> HAVE stage'[q] # "out"
  <2>1. CASE q = p
    BY <2>1, <1>2, <1>4, <1>7
  <2>2. CASE q # p
    <3>1. stage[q] # "out" /\ entry'[q] = entry[q] /\ entry[q] \in Entries
      BY <2>2, <1>6 DEF Inv, LocksTypeOK
    <3> QED BY <3>1, <1>4, <1>5, <1>10 DEF Inv
  <2> QED BY <2>1, <2>2
<1>12. \A f \in Entries : InMap(f)' => references'[f] = Cardinality(Users(f)')
  <2> TAKE f \in Entries
  <2> HAVE InMap(f)'
  <2>1. CASE f # e
    <3>1. f[2] # s
      BY <2>1, <1>4
    <3>2. Users(f)' = Users(f)
      BY <2>1, <1>7, UserJoins
    <3>3. references'[f] = references[f]
      BY <2>1, <1>1, <1>2 DEF Inv, LocksTypeOK
    <3> QED BY <3>1, <3>2, <3>3, <1>5 DEF Inv
  <2>2. CASE f = e
    <3>1. Users(e)' = Users(e) \cup {p} /\ p \notin Users(e)
      BY <2>2, <1>1, <1>7, UserJoins DEF Users
    <3>2. Cardinality(Users(e)') = Cardinality(Users(e)) + 1
      BY <3>1, <1>2, UsersFinite, FS_AddElement
    <3>3. CASE new
      <4>1. Users(e) = {}
        BY <3>3, <1>2, <1>8 DEF Users
      <4>2. Cardinality(Users(e)') = 1
        BY <4>1, <3>2, FS_EmptySet
      <4>3. references'[e] = 1
        BY <3>3, <1>1, <1>2 DEF Inv, LocksTypeOK
      <4> QED BY <2>2, <4>2, <4>3
    <3>4. CASE ~new
      <4>1. references[e] = Cardinality(Users(e))
        BY <3>4, <1>2, <1>9 DEF Inv
      <4>2. references'[e] = references[e] + 1
        BY <3>4, <1>1, <1>2 DEF Inv, LocksTypeOK
      <4> QED BY <2>2, <4>1, <4>2, <3>2
    <3> QED BY <3>3, <3>4
  <2> QED BY <2>1, <2>2
<1>13. \A q \in Procs : stage'[q] = "inside" => entry'[q] \in full'
  <2> TAKE q \in Procs
  <2> HAVE stage'[q] = "inside"
  <2>1. q # p /\ stage[q] = "inside" /\ entry'[q] = entry[q]
    BY <1>6, <1>7
  <2>2. entry[q] \in full
    BY <2>1 DEF Inv
  <2>3. new => entry[q] # e
    BY <2>1, <1>2, <1>8
  <2> QED BY <2>1, <2>2, <2>3, <1>1
<1>14. \A q, o \in Procs :
         stage'[q] = "inside" /\ stage'[o] = "inside" /\ entry'[q] = entry'[o] => q = o
  BY <1>6, <1>7 DEF Inv
<1> QED BY <1>3, <1>11, <1>12, <1>13, <1>14 DEF Inv

(* Leaving an entry, and the map with the last user, keeps it.               *)
LEMMA ReleaseInv ==
  ASSUME Inv, NEW p \in Procs, Release(p)
  PROVE  Inv'
<1> PICK e : e = entry[p]
  OBVIOUS
<1>1. e \in Entries /\ InMap(e) /\ p \in Users(e)
  BY DEF Release, Inv, LocksTypeOK, Users
<1>2. references[e] = Cardinality(Users(e))
  BY <1>1 DEF Inv
<1>3. Cardinality(Users(e) \ {p}) = Cardinality(Users(e)) - 1 /\ Cardinality(Users(e)) > 0
  BY <1>1, UsersFinite, FS_RemoveElement, FS_EmptySet
<1>4. /\ references' = [references EXCEPT ![e] = references[e] - 1]
      /\ locks' = IF references[e] = 1 THEN [locks EXCEPT ![e[2]] = Nobody] ELSE locks
      /\ stage' = [stage EXCEPT ![p] = "out"]
      /\ UNCHANGED <<full, entry>>
  BY <1>1 DEF Release, InMap
<1>5. LocksTypeOK'
  BY <1>1, <1>2, <1>3, <1>4, UsersFinite DEF Inv, LocksTypeOK, Entries
<1>6. references[e] = 1 => \A q \in Procs \ {p} : stage[q] # "out" => entry[q][2] # e[2]
  <2> SUFFICES ASSUME references[e] = 1,
                      NEW q \in Procs \ {p}, stage[q] # "out", entry[q][2] = e[2]
               PROVE  FALSE
    OBVIOUS
  <2>1. entry[q] = e
    BY <1>1 DEF Inv, LocksTypeOK, InMap, Entries
  <2>2. q \in Users(e) \ {p}
    BY <2>1 DEF Users
  <2>3. IsFiniteSet(Users(e) \ {p})
    BY <1>1, UsersFinite, FS_RemoveElement
  <2>4. Users(e) \ {p} = {}
    BY <1>2, <1>3, <2>3, FS_EmptySet
  <2> QED BY <2>2, <2>4
<1>7. \A q \in Procs : stage'[q] # "out" => InMap(entry[q])'
  <2> TAKE q \in Procs
  <2> HAVE stage'[q] # "out"
  <2>1. q # p /\ stage[q] # "out" /\ entry'[q] = entry[q] /\ InMap(entry[q])
    BY <1>4 DEF Inv, LocksTypeOK
  <2>2. entry[q] \in Entries
    BY DEF Inv, LocksTypeOK
  <2> QED BY <2>1, <2>2, <1>1, <1>4, <1>6 DEF InMap, Inv, LocksTypeOK, Entries
<1>8. \A f \in Entries : InMap(f)' => references'[f] = Cardinality(Users(f)')
  <2> TAKE f \in Entries
  <2> HAVE InMap(f)'
  <2>1. InMap(f)
    BY <1>1, <1>4, NobodyAssumption DEF InMap, Inv, LocksTypeOK, Entries
  <2>2. CASE f = e
    <3>1. Users(f)' = Users(e) \ {p}
      BY <2>2, UserLeaves
    <3>2. references'[f] = references[e] - 1
      BY <2>2, <1>1, <1>4 DEF Inv, LocksTypeOK
    <3> QED BY <3>1, <3>2, <1>2, <1>3
  <2>3. CASE f # e
    <3>1. Users(f)' = Users(f)
      BY <2>3, UserLeaves
    <3>2. references'[f] = references[f]
      BY <2>3, <1>1, <1>4 DEF Inv, LocksTypeOK
    <3> QED BY <3>1, <3>2, <2>1 DEF Inv
  <2> QED BY <2>2, <2>3
<1>9. /\ \A q \in Procs : stage'[q] = "inside" => entry'[q] \in full'
      /\ \A q, o \in Procs :
           stage'[q] = "inside" /\ stage'[o] = "inside" /\ entry'[q] = entry'[o] => q = o
  BY <1>4 DEF Inv, LocksTypeOK
<1> QED BY <1>5, <1>7, <1>8, <1>9 DEF Inv

(* Every step keeps it.                                                      *)
LEMMA NextInv == Inv /\ [LocksNext]_lockVars => Inv'
<1> SUFFICES ASSUME Inv, [LocksNext]_lockVars PROVE Inv'
  OBVIOUS
<1>1. ASSUME NEW p \in Procs, Enter(p) \/ GiveUp(p) \/ Exit(p) PROVE Inv'
  <2>1. /\ UNCHANGED <<locks, references, entry>>
        /\ stage[p] # "out" /\ stage'[p] # "out"
        /\ stage' \in [Procs -> {"out", "waiting", "inside", "leaving"}]
        /\ \A q \in Procs \ {p} : stage'[q] = stage[q]
    BY <1>1 DEF Enter, GiveUp, Exit, Inv, LocksTypeOK
  <2>2. \A e \in Entries : Users(e)' = Users(e)
    BY <2>1 DEF Users
  <2>3. LocksTypeOK'
    BY <1>1, <2>1 DEF Enter, GiveUp, Exit, Inv, LocksTypeOK
  <2>4. /\ \A q \in Procs : stage'[q] # "out" => InMap(entry[q])'
        /\ \A e \in Entries : InMap(e)' => references'[e] = Cardinality(Users(e)')
    BY <2>1, <2>2 DEF Inv, InMap
  <2>5. /\ \A q \in Procs : stage'[q] = "inside" => entry'[q] \in full'
        /\ \A q, o \in Procs :
             stage'[q] = "inside" /\ stage'[o] = "inside" /\ entry'[q] = entry'[o]
               => q = o
    <3>1. CASE Enter(p)
      BY <3>1 DEF Enter, Inv, LocksTypeOK
    <3>2. CASE GiveUp(p)
      BY <3>2 DEF GiveUp, Inv, LocksTypeOK
    <3>3. CASE Exit(p)
      BY <3>3 DEF Exit, Inv, LocksTypeOK
    <3> QED BY <1>1, <3>1, <3>2, <3>3
  <2> QED BY <2>3, <2>4, <2>5 DEF Inv
<1>2. CASE UNCHANGED lockVars
  BY <1>2 DEF lockVars, Inv, LocksTypeOK, InMap, Users
<1> QED BY <1>1, <1>2, EntryForInv, ReleaseInv DEF LocksNext

(* Every behaviour of the locks keeps their variables well typed. *)
THEOREM LocksTypeCorrect == LocksSpec => []LocksTypeOK
<1>1. Inv => LocksTypeOK
  BY DEF Inv
<1> QED BY <1>1, InitInv, NextInv, PTL DEF LocksSpec

(* Every step takes or gives back one symbol, or changes no holder.          *)
LEMMA StepMaps == Inv /\ [LocksNext]_lockVars =>
  [\E p \in Procs, s \in Symbols : Mutex!Lock(p, s) \/ Mutex!Unlock(p, s)]_(
    {<<p, entry[p][2]>> : p \in {q \in Procs : stage[q] = "inside"}})
<1> DEFINE held == {<<p, entry[p][2]>> : p \in {q \in Procs : stage[q] = "inside"}}
<1> SUFFICES ASSUME Inv, [LocksNext]_lockVars
             PROVE  \/ \E p \in Procs, s \in Symbols : Mutex!Lock(p, s) \/ Mutex!Unlock(p, s)
                    \/ held' = held
  OBVIOUS
<1>1. ASSUME NEW p \in Procs, Enter(p) PROVE \E s \in Symbols : Mutex!Lock(p, s)
  <2> PICK s \in Symbols : s = entry[p][2]
    BY DEF Inv, LocksTypeOK, Entries
  <2>1. \A q \in Procs : <<q, s>> \notin held
    <3> SUFFICES ASSUME NEW q \in Procs, stage[q] = "inside", entry[q][2] = s PROVE FALSE
      OBVIOUS
    <3>1. entry[q] = entry[p]
      BY <1>1 DEF Enter, Inv, LocksTypeOK, InMap, Entries
    <3> QED BY <3>1, <1>1 DEF Enter, Inv
  <2>2. \A t \in Symbols : <<p, t>> \notin held
    BY <1>1 DEF Enter
  <2>3. held' = held \cup {<<p, s>>}
    BY <1>1 DEF Enter, Inv, LocksTypeOK
  <2> QED BY <2>1, <2>2, <2>3 DEF Mutex!Lock
<1>2. ASSUME NEW p \in Procs, Exit(p) PROVE \E s \in Symbols : Mutex!Unlock(p, s)
  <2> PICK s \in Symbols : s = entry[p][2]
    BY DEF Inv, LocksTypeOK, Entries
  <2>1. <<p, s>> \in held
    BY <1>2 DEF Exit
  <2>2. held' = held \ {<<p, s>>}
    BY <1>2 DEF Exit, Inv, LocksTypeOK
  <2> QED BY <2>1, <2>2 DEF Mutex!Unlock
<1>3. ASSUME NEW p \in Procs, NEW s \in Symbols, EntryFor(p, s) PROVE held' = held
  BY <1>3 DEF EntryFor, Inv, LocksTypeOK
<1>4. ASSUME NEW p \in Procs, GiveUp(p) \/ Release(p) PROVE held' = held
  BY <1>4 DEF GiveUp, Release, Inv, LocksTypeOK
<1>5. ASSUME UNCHANGED lockVars PROVE held' = held
  BY <1>5 DEF lockVars
<1> HIDE DEF held
<1>6. ASSUME LocksNext
      PROVE  \/ \E p \in Procs, s \in Symbols : Mutex!Lock(p, s) \/ Mutex!Unlock(p, s)
             \/ held' = held
  <2> PICK p \in Procs : \/ \E s \in Symbols : EntryFor(p, s)
                         \/ Enter(p) \/ GiveUp(p) \/ Exit(p) \/ Release(p)
    BY <1>6 DEF LocksNext
  <2>1. CASE Enter(p)
    BY <2>1, <1>1
  <2>3. CASE Exit(p)
    BY <2>3, <1>2
  <2>2. CASE (\E s \in Symbols : EntryFor(p, s)) \/ GiveUp(p) \/ Release(p)
    BY <2>2, <1>3, <1>4
  <2> QED BY <2>1, <2>2, <2>3
<1> QED BY <1>5, <1>6

(* The counted entries implement the mutex: for any number of goroutines no  *)
(* two ever work on one symbol at a time.                                    *)
THEOREM LocksImplementMutex == LocksSpec => MutexKept
<1>1. LocksInit => {<<p, entry[p][2]>> : p \in {q \in Procs : stage[q] = "inside"}} = {}
  BY DEF LocksInit
<1> QED BY <1>1, InitInv, NextInv, StepMaps, PTL DEF LocksSpec, MutexKept, Mutex!MutexSpec

-----------------------------------------------------------------------------
(* The runs that use them.                                                   *)

Steps == {"idle", "queued", "placed", "locking", "run", "ask", "expire",
          "recorded", "unlocked", "canceled", "unrecorded", "free", "leave", "gone"}

AliveRuns == {r \in Runs : Alive(r)}

RunTypes ==
  /\ service \in {"open", "closing", "closed"}
  /\ step \in [Runs -> Steps]
  /\ symbol \in [Runs -> Symbols]
  /\ inFlight \in [Symbols -> Runs \cup {Nobody}]
  /\ sem \subseteq Runs
  /\ pending \subseteq Runs
  /\ result \in [Runs -> {"none", "approve", "reject"}]
  /\ decision \in [Runs -> Decisions]
  /\ told \in [Runs -> {"none", "approve", "reject"}]

Registered == \A r \in Runs : Alive(r) => inFlight[symbol[r]] = r

Counted ==
  /\ active = Cardinality(AliveRuns)
  /\ service = "closed" => AliveRuns = {}

(* What a run's goroutine holds at each of its steps. *)
Holds ==
  \A r \in Runs :
    /\ r \in sem => step[r] \notin {"idle", "queued", "leave", "gone"}
    /\ stage[r] = CASE step[r] = "locking" -> "waiting"
                    [] step[r] \in {"run", "ask", "expire", "recorded"} -> "inside"
                    [] step[r] \in {"unlocked", "canceled"} -> "leaving"
                    [] OTHER -> "out"

(* The operator and the timer: an answer is in the channel exactly from      *)
(* Resolve until it is received.                                             *)
Approvals ==
  \A r \in Runs :
    IF step[r] \in {"ask", "expire"}
      THEN /\ decision[r] = "none"
           /\ IF r \in pending THEN told[r] = "none" /\ result[r] = "none"
                               ELSE told[r] # "none" /\ result[r] = told[r]
      ELSE /\ r \notin pending /\ result[r] = "none"
           /\ decision[r] = (IF told[r] # "none" THEN told[r]
                             ELSE IF decision[r] = "none" THEN "none" ELSE "expired")

AInv == RunTypes /\ Registered /\ Counted /\ Holds /\ Approvals

(* There are finitely many runs.                                             *)
LEMMA RunsFinite == IsFiniteSet(Runs) /\ IsFiniteSet(AliveRuns)
BY ProcsAssumption, RunsAssumption, FS_Subset DEF AliveRuns

-----------------------------------------------------------------------------
(* The invariant holds before the first start.                               *)
LEMMA AInvInit == Init => AInv
<1> SUFFICES ASSUME Init PROVE AInv
  OBVIOUS
<1>1. RunTypes
  BY ProcsAssumption DEF Init, RunTypes, Steps, Decisions
<1>2. AliveRuns = {}
  BY DEF Init, AliveRuns, Alive
<1>3. Registered /\ Counted
  BY <1>2, FS_EmptySet DEF Init, Registered, Counted, AliveRuns
<1>4. Holds
  BY RunsAssumption DEF Init, LocksInit, Holds
<1>5. Approvals
  BY DEF Init, Approvals
<1> QED BY <1>1, <1>3, <1>4, <1>5 DEF AInv

(* Every step but Start and Leave leaves the registrations alone and no run  *)
(* is born or dies.                                                          *)
LEMMA OnlyStartAndLeave ==
  ASSUME RunTypes, Next,
         ~ \E r \in Runs, s \in Symbols : Start(r, s),
         ~ \E r \in Runs : Leave(r)
  PROVE  /\ UNCHANGED <<symbol, inFlight, active>>
         /\ AliveRuns' = AliveRuns
         /\ service' = "closed" => service = "closed" \/ active = 0
<1> DEFINE Kept == /\ UNCHANGED <<symbol, inFlight, active>>
                   /\ \A r \in Runs : Alive(r)' <=> Alive(r)
                   /\ service' = "closed" => service = "closed" \/ active = 0
<1>1. ASSUME NEW r \in Runs, AcquirePlace(r) PROVE Kept
  BY <1>1 DEF AcquirePlace, Goto, Alive, RunTypes
<1>2. ASSUME NEW r \in Runs, EnterSymbol(r) PROVE Kept
  BY <1>2 DEF EnterSymbol, Goto, Alive, RunTypes, admission
<1>3. ASSUME NEW r \in Runs, NEW d, Resolve(r, d) PROVE Kept
  BY <1>3 DEF Resolve, Alive, admission
<1>4. ASSUME NEW r \in Runs, RunStep(r) PROVE Kept
  <2>1. CASE CancelQueued(r)
    BY <2>1 DEF CancelQueued, Goto, Alive, RunTypes
  <2>2. CASE PointToLock(r) \/ CancelWaiting(r)
    BY <2>2 DEF PointToLock, CancelWaiting, Goto, Alive, RunTypes, admission
  <2>3. CASE Ask(r) \/ Decided(r) \/ Expire(r) \/ SettleExpired(r)
    BY <2>3 DEF Ask, Decided, Expire, SettleExpired, Goto, Alive, RunTypes, admission
  <2>4. CASE RecordResult(r) \/ FinishCanceled(r) \/ FreePlace(r)
    BY <2>4 DEF RecordResult, FinishCanceled, FreePlace, Goto, Alive, RunTypes
  <2>5. CASE ExitSymbol(r) \/ ReleaseSymbol(r)
    BY <2>5 DEF ExitSymbol, ReleaseSymbol, Goto, Alive, RunTypes, admission
  <2> QED BY <1>4, <2>1, <2>2, <2>3, <2>4, <2>5 DEF RunStep
<1>5. ASSUME NEW o \in Others, OtherLocks(o) \/ OtherUnlocks(o) PROVE Kept
  BY <1>5 DEF OtherLocks, OtherUnlocks, Alive, runVars, admission
<1>6. ASSUME CloseBegin \/ CloseEnd PROVE Kept
  BY <1>6 DEF CloseBegin, CloseEnd, Alive
<1> HIDE DEF Kept
<1>7. Kept
  BY <1>1, <1>2, <1>3, <1>4, <1>5, <1>6 DEF Next
<1> QED BY <1>7 DEF Kept, AliveRuns

(* What start registers stays with a run until it leaves.                    *)
LEMMA RegisteredAndCounted ==
  ASSUME RunTypes, Registered, Counted, Next
  PROVE  Registered' /\ Counted'
<1>1. ASSUME NEW r \in Runs, NEW s \in Symbols, Start(r, s)
      PROVE  Registered' /\ Counted'
  <2>1. \A q \in Runs : Alive(q)' <=> Alive(q) \/ q = r
    BY <1>1 DEF Start, Goto, Alive, RunTypes
  <2>2. AliveRuns' = AliveRuns \cup {r} /\ r \notin AliveRuns
    BY <1>1, <2>1 DEF AliveRuns, Alive, Start
  <2>3. active' = Cardinality(AliveRuns')
    BY <1>1, <2>2, RunsFinite, FS_AddElement DEF Counted, Start
  <2>4. service' # "closed"
    BY <1>1 DEF Start, stopped
  <2>5. \A q \in Runs : Alive(q) => symbol[q] # s
    BY <1>1, RunsAssumption, NobodyAssumption DEF Registered, Start
  <2>6. Registered'
    BY <1>1, <2>1, <2>5 DEF Registered, Start, RunTypes
  <2> QED BY <2>3, <2>4, <2>6 DEF Counted
<1>2. ASSUME NEW r \in Runs, Leave(r) PROVE Registered' /\ Counted'
  <2>1. \A q \in Runs : Alive(q)' <=> Alive(q) /\ q # r
    BY <1>2 DEF Leave, Goto, Alive, RunTypes
  <2>2. AliveRuns' = AliveRuns \ {r} /\ r \in AliveRuns
    BY <1>2, <2>1 DEF AliveRuns, Alive, Leave
  <2>3. active' = Cardinality(AliveRuns')
    BY <1>2, <2>2, RunsFinite, FS_RemoveElement DEF Counted, Leave
  <2>4. service' = "closed" => AliveRuns' = {}
    BY <1>2, <2>2 DEF Leave, Counted
  <2>5. Registered'
    BY <1>2, <2>1, <2>2 DEF Registered, Leave, RunTypes, AliveRuns
  <2> QED BY <2>3, <2>4, <2>5 DEF Counted
<1>3. ASSUME ~ \E r \in Runs, s \in Symbols : Start(r, s),
             ~ \E r \in Runs : Leave(r)
      PROVE  Registered' /\ Counted'
  <2>1. /\ UNCHANGED <<symbol, inFlight, active>> /\ AliveRuns' = AliveRuns
        /\ service' = "closed" => service = "closed" \/ active = 0
    BY <1>3, OnlyStartAndLeave
  <2>2. active = 0 => AliveRuns = {}
    BY RunsFinite, FS_EmptySet DEF Counted
  <2>3. Counted'
    BY <2>1, <2>2 DEF Counted
  <2>4. Registered'
    BY <2>1 DEF Registered, AliveRuns
  <2> QED BY <2>3, <2>4
<1> QED BY <1>1, <1>2, <1>3

-----------------------------------------------------------------------------
(* Every step keeps the types.                                               *)
LEMMA TypesKept == ASSUME RunTypes, Next PROVE RunTypes'
<1>1. ASSUME NEW r \in Runs, NEW s \in Symbols, Start(r, s) PROVE RunTypes'
  BY <1>1 DEF Start, RunTypes, Steps, Goto, approvals
<1>2. ASSUME NEW r \in Runs, AcquirePlace(r) \/ EnterSymbol(r) PROVE RunTypes'
  BY <1>2 DEF AcquirePlace, EnterSymbol, RunTypes, Steps, Goto, admission, approvals
<1>3. ASSUME NEW r \in Runs, NEW d \in {"approve", "reject"}, Resolve(r, d)
      PROVE  RunTypes'
  BY <1>3 DEF Resolve, RunTypes, admission
<1>4. ASSUME NEW r \in Runs, RunStep(r) PROVE RunTypes'
  <2>1. CASE CancelQueued(r) \/ PointToLock(r) \/ CancelWaiting(r)
    BY <2>1 DEF CancelQueued, PointToLock, CancelWaiting, RunTypes, Steps, Goto,
                admission, approvals
  <2>2. CASE Ask(r) \/ Expire(r)
    BY <2>2 DEF Ask, Expire, RunTypes, Steps, Goto, admission, approvals
  <2>3. CASE Decided(r) \/ SettleExpired(r)
    BY <2>3 DEF Decided, SettleExpired, Receive, RunTypes, Steps, Decisions, Goto,
                admission
  <2>4. CASE RecordResult(r) \/ FinishCanceled(r) \/ FreePlace(r) \/ Leave(r)
    BY <2>4 DEF RecordResult, FinishCanceled, FreePlace, Leave, RunTypes, Steps,
                Goto, approvals
  <2>5. CASE ExitSymbol(r) \/ ReleaseSymbol(r)
    BY <2>5 DEF ExitSymbol, ReleaseSymbol, RunTypes, Steps, Goto, admission, approvals
  <2> QED BY <1>4, <2>1, <2>2, <2>3, <2>4, <2>5 DEF RunStep
<1>5. ASSUME NEW o \in Others, OtherLocks(o) \/ OtherUnlocks(o) PROVE RunTypes'
  BY <1>5 DEF OtherLocks, OtherUnlocks, RunTypes, runVars, admission, approvals
<1>6. ASSUME CloseBegin \/ CloseEnd PROVE RunTypes'
  BY <1>6 DEF CloseBegin, CloseEnd, RunTypes, approvals
<1> QED BY <1>1, <1>2, <1>3, <1>4, <1>5, <1>6 DEF Next

(* Every step keeps what each step of a run holds.                           *)
LEMMA HoldsKept == ASSUME RunTypes, LocksTypeOK, Holds, Next PROVE Holds'
<1>0. Runs \subseteq Procs
  BY RunsAssumption
<1>1. ASSUME NEW r \in Runs, NEW s \in Symbols, Start(r, s) PROVE Holds'
  BY <1>0, <1>1 DEF Start, Holds, RunTypes, Goto, lockVars
<1>2. ASSUME NEW r \in Runs, AcquirePlace(r) \/ EnterSymbol(r) PROVE Holds'
  BY <1>0, <1>2 DEF AcquirePlace, EnterSymbol, Enter, Holds, RunTypes, LocksTypeOK,
                    Goto, admission, lockVars
<1>3. ASSUME NEW r \in Runs, NEW d, Resolve(r, d) PROVE Holds'
  BY <1>3 DEF Resolve, Holds, admission, lockVars
<1>4. ASSUME NEW r \in Runs, RunStep(r) PROVE Holds'
  <2>1. CASE CancelQueued(r) \/ PointToLock(r) \/ CancelWaiting(r)
    BY <1>0, <2>1 DEF CancelQueued, PointToLock, CancelWaiting, EntryFor, GiveUp,
                      Holds, RunTypes, LocksTypeOK, Goto, admission, lockVars
  <2>2. CASE Ask(r) \/ Decided(r) \/ Expire(r) \/ SettleExpired(r)
    BY <1>0, <2>2 DEF Ask, Decided, Expire, SettleExpired, Holds, RunTypes, Goto,
                      admission, lockVars
  <2>3. CASE RecordResult(r) \/ FinishCanceled(r) \/ FreePlace(r) \/ Leave(r)
    BY <1>0, <2>3 DEF RecordResult, FinishCanceled, FreePlace, Leave, Holds,
                      RunTypes, Goto, lockVars
  <2>4. CASE ExitSymbol(r) \/ ReleaseSymbol(r)
    BY <1>0, <2>4 DEF ExitSymbol, ReleaseSymbol, Exit, Release, Holds, RunTypes,
                      LocksTypeOK, Goto, admission
  <2> QED BY <1>4, <2>1, <2>2, <2>3, <2>4 DEF RunStep
<1>5. ASSUME NEW o \in Others, OtherLocks(o) \/ OtherUnlocks(o) PROVE Holds'
  <2>1. \A r \in Runs : stage'[r] = stage[r]
    BY <1>0, <1>5 DEF OtherLocks, OtherUnlocks, EntryFor, Enter, GiveUp, Exit, Release,
                      Others, LocksTypeOK
  <2> QED BY <1>5, <2>1 DEF OtherLocks, OtherUnlocks, Holds, runVars, admission
<1>6. ASSUME CloseBegin \/ CloseEnd PROVE Holds'
  BY <1>6 DEF CloseBegin, CloseEnd, Holds, lockVars
<1> QED BY <1>1, <1>2, <1>3, <1>4, <1>5, <1>6 DEF Next

(* Every step keeps the approvals' bookkeeping.                              *)
LEMMA ApprovalsKept == ASSUME RunTypes, Approvals, Next PROVE Approvals'
<1>1. ASSUME NEW r \in Runs, NEW s \in Symbols, Start(r, s) PROVE Approvals'
  BY <1>1 DEF Start, Approvals, RunTypes, Goto, approvals
<1>2. ASSUME NEW r \in Runs, AcquirePlace(r) \/ EnterSymbol(r) PROVE Approvals'
  BY <1>2 DEF AcquirePlace, EnterSymbol, Approvals, RunTypes, Goto, approvals
<1>3. ASSUME NEW r \in Runs, NEW d \in {"approve", "reject"}, Resolve(r, d)
      PROVE  Approvals'
  BY <1>3 DEF Resolve, Approvals, RunTypes
<1>4. ASSUME NEW r \in Runs, RunStep(r) PROVE Approvals'
  <2>1. CASE CancelQueued(r) \/ PointToLock(r) \/ CancelWaiting(r)
    BY <2>1 DEF CancelQueued, PointToLock, CancelWaiting, Approvals, RunTypes, Goto,
                approvals
  <2>2. CASE Ask(r) \/ Expire(r)
    BY <2>2 DEF Ask, Expire, Approvals, RunTypes, Goto, approvals
  <2>3. CASE Decided(r) \/ SettleExpired(r)
    BY <2>3 DEF Decided, SettleExpired, Receive, Approvals, RunTypes, Goto
  <2>4. CASE RecordResult(r) \/ FinishCanceled(r) \/ FreePlace(r) \/ Leave(r)
    BY <2>4 DEF RecordResult, FinishCanceled, FreePlace, Leave, Approvals, RunTypes,
                Goto, approvals
  <2>5. CASE ExitSymbol(r) \/ ReleaseSymbol(r)
    BY <2>5 DEF ExitSymbol, ReleaseSymbol, Approvals, RunTypes, Goto, approvals
  <2> QED BY <1>4, <2>1, <2>2, <2>3, <2>4, <2>5 DEF RunStep
<1>5. ASSUME NEW o \in Others, OtherLocks(o) \/ OtherUnlocks(o) PROVE Approvals'
  BY <1>5 DEF OtherLocks, OtherUnlocks, Approvals, runVars, approvals
<1>6. ASSUME CloseBegin \/ CloseEnd PROVE Approvals'
  BY <1>6 DEF CloseBegin, CloseEnd, Approvals, approvals
<1> QED BY <1>1, <1>2, <1>3, <1>4, <1>5, <1>6 DEF Next

-----------------------------------------------------------------------------
(* The runs use the locks only by their operations. *)
LEMMA StepUsesLocks ==
  ASSUME RunTypes, [Next]_vars PROVE [LocksNext]_lockVars
<1>1. ASSUME NEW r \in Runs, PointToLock(r) PROVE LocksNext
  <2> PICK s \in Symbols : s = symbol[r]
    BY DEF RunTypes
  <2>1. EntryFor(r, s)
    BY <1>1 DEF PointToLock, EntryFor
  <2> QED BY <2>1, RunsAssumption DEF LocksNext
<1>2. ASSUME NEW r \in Runs, EnterSymbol(r) \/ CancelWaiting(r) \/ ExitSymbol(r)
                               \/ ReleaseSymbol(r)
      PROVE  LocksNext
  BY <1>2, RunsAssumption
     DEF EnterSymbol, CancelWaiting, ExitSymbol, ReleaseSymbol, LocksNext
<1>3. ASSUME NEW r \in Runs, CancelQueued(r) \/ Ask(r) \/ Decided(r) \/ Expire(r)
                               \/ SettleExpired(r) \/ RecordResult(r)
                               \/ FinishCanceled(r) \/ FreePlace(r) \/ Leave(r)
      PROVE  UNCHANGED lockVars
  BY <1>3 DEF CancelQueued, Ask, Decided, Expire, SettleExpired, RecordResult,
              FinishCanceled, FreePlace, Leave
<1>4. ASSUME NEW r \in Runs, NEW s \in Symbols, Start(r, s) PROVE UNCHANGED lockVars
  BY <1>4 DEF Start
<1>5. ASSUME NEW r \in Runs, NEW d, AcquirePlace(r) \/ Resolve(r, d)
      PROVE  UNCHANGED lockVars
  BY <1>5 DEF AcquirePlace, Resolve
<1>6. ASSUME NEW o \in Others, OtherLocks(o) \/ OtherUnlocks(o) PROVE LocksNext
  <2>1. o \in Procs /\ Contended \subseteq Symbols
    BY ContendedAssumption DEF Others
  <2> QED BY <1>6, <2>1 DEF OtherLocks, OtherUnlocks, LocksNext
<1>7. ASSUME CloseBegin \/ CloseEnd PROVE UNCHANGED lockVars
  BY <1>7 DEF CloseBegin, CloseEnd
<1>8. ASSUME UNCHANGED vars PROVE UNCHANGED lockVars
  BY <1>8 DEF vars
<1> QED BY <1>1, <1>2, <1>3, <1>4, <1>5, <1>6, <1>7, <1>8 DEF Next, RunStep

(* The types always hold.                                                    *)
LEMMA TypesAlways == Spec => []RunTypes
<1>1. Init => RunTypes
  BY AInvInit DEF AInv
<1>2. RunTypes /\ [Next]_vars => RunTypes'
  <2>1. ASSUME RunTypes, UNCHANGED vars PROVE RunTypes'
    BY <2>1 DEF RunTypes, vars, runVars, admission, approvals
  <2> QED BY <2>1, TypesKept
<1> QED BY <1>1, <1>2, PTL DEF Spec

(* Runs use the symbol locks as their specification says.                    *)
LEMMA RunsUseLocks == Spec => LocksSpec
<1>1. Init => LocksInit
  BY DEF Init
<1> QED BY <1>1, StepUsesLocks, TypesAlways, PTL DEF Spec, LocksSpec

(* A run never works on a symbol beside an exit, a close, the scanner or     *)
(* another run, for any number of them.                                      *)
THEOREM RunsKeepMutex == Spec => MutexKept
BY RunsUseLocks, LocksImplementMutex

(* The invariant always holds.                                               *)
LEMMA AInvAlways == Spec => []AInv
<1>1. AInv /\ LocksTypeOK /\ [Next]_vars => AInv'
  <2>1. ASSUME AInv, UNCHANGED vars PROVE AInv'
    BY <2>1 DEF AInv, RunTypes, Registered, Counted, Holds, Approvals, Alive,
                AliveRuns, vars, runVars, admission, approvals, lockVars
  <2>2. ASSUME AInv, LocksTypeOK, Next PROVE AInv'
    BY <2>2, TypesKept, RegisteredAndCounted, HoldsKept, ApprovalsKept DEF AInv
  <2> QED BY <2>1, <2>2
<1>2. Spec => []LocksTypeOK
  BY RunsUseLocks, LocksTypeCorrect
<1> QED BY <1>1, <1>2, AInvInit, PTL DEF Spec

(* No symbol ever has two runs, from acceptance to the end of the goroutine. *)
THEOREM NeverTwoRuns == Spec => []OneRunPerSymbol
<1>1. AInv => OneRunPerSymbol
  BY DEF AInv, Registered, OneRunPerSymbol
<1> QED BY <1>1, AInvAlways, PTL

(* The answer an operator was told is taken is the run's decision, and a run *)
(* has no approval nobody gave, however answer and timer race.               *)
THEOREM AnswersHonoured == Spec => []DecisionHonoured
<1>1. AInv => DecisionHonoured
  BY DEF AInv, RunTypes, Approvals, DecisionHonoured
<1> QED BY <1>1, AInvAlways, PTL

(* When Close has returned no run is alive, holds a place or a lock or waits *)
(* for an operator.                                                          *)
THEOREM CloseLeavesNothing == Spec => []ShutdownQuiet
<1>1. AInv => ShutdownQuiet
  <2> SUFFICES ASSUME AInv, service = "closed" PROVE ShutdownQuiet
    BY DEF ShutdownQuiet
  <2>1. \A r \in Runs : ~Alive(r)
    BY DEF AInv, Counted, AliveRuns
  <2>2. \A r \in Runs : step[r] \in {"idle", "gone"}
    BY <2>1 DEF Alive
  <2>3. \A r \in Runs : r \notin sem /\ stage[r] = "out"
    BY <2>2 DEF AInv, Holds
  <2>4. \A r \in Runs : r \notin pending
    BY <2>2 DEF AInv, Approvals
  <2> QED BY <2>1, <2>3, <2>4 DEF AInv, RunTypes, ShutdownQuiet
<1> QED BY <1>1, AInvAlways, PTL

-----------------------------------------------------------------------------
(* The run history.  Until a run has a result its record says queued or      *)
(* running, and nothing else does; a record stands behind records only, in   *)
(* one order; and too many records are all of runs that are alive.           *)
HistoryTypes ==
  /\ runs \in [Runs -> {"none", "queued", "running", "final"}]
  /\ runOrder \in [Runs -> SUBSET Runs]

InOrder(order) ==
  \A r, q \in Runs :
    /\ r \notin order[r]
    /\ q \in order[r] => order[q] \subseteq order[r]

Unfinished ==
  {"queued", "placed", "locking", "run", "ask", "expire", "canceled", "unrecorded"}

Recording ==
  /\ \A r \in Runs : /\ step[r] = "idle" => runs[r] = "none"
                     /\ step[r] \in Unfinished <=> runs[r] \in {"queued", "running"}
  /\ \A r \in Runs : runs[r] = "none" => runOrder[r] = {}
  /\ \A q, r \in Runs : r \in runOrder[q] => runs[r] # "none"

Bounded ==
  Cardinality(Recorded(runs)) > RunLimit => \A r \in Recorded(runs) : Alive(r)

HInv == HistoryTypes /\ InOrder(runOrder) /\ Recording /\ Bounded

(* A set of numbers that is not empty has a least one.                       *)
LEMMA LeastNumber ==
  ASSUME NEW T \in SUBSET Nat, T # {}
  PROVE  \E n \in T : \A m \in T : n <= m
<1>1. \E n \in T : \A m \in T : ~(<<m, n>> \in OpToRel(<, Nat))
  BY NatLessThanWellFounded, WFMin, Zenon
<1>2. \E n \in T : \A m \in T : ~(m < n)
  BY <1>1, Zenon DEF OpToRel
<1> QED BY <1>2

(* pruneRunsLocked ends with the limit respected or nothing left to remove.  *)
(* The first of the finished records that stay has in front of it, among the *)
(* finished, only records that go, and it stays because they are enough.     *)
LEMMA PruneIsEnough ==
  ASSUME NEW order \in [Runs -> SUBSET Runs], InOrder(order),
         NEW all \in SUBSET Runs, NEW finished \in SUBSET all,
         NEW gone \in SUBSET finished,
         \A r \in finished :
           r \in gone <=> Cardinality(all) - Cardinality(order[r] \cap finished) > RunLimit,
         finished \ gone # {}
  PROVE  Cardinality(all \ gone) <= RunLimit
<1>1. IsFiniteSet(all) /\ IsFiniteSet(gone) /\ Cardinality(all) \in Nat
      /\ Cardinality(gone) \in Nat /\ RunLimit \in Nat
  BY RunsFinite, FS_Subset, FS_CardinalityType, LimitsAssumption
<1>2. PICK rank \in [Runs -> Nat] :
        \A r \in Runs : rank[r] = Cardinality(order[r] \cap finished)
  <2>1. \A r \in Runs : Cardinality(order[r] \cap finished) \in Nat
    BY RunsFinite, FS_Subset, FS_CardinalityType
  <2>2. [r \in Runs |-> Cardinality(order[r] \cap finished)] \in [Runs -> Nat]
    BY <2>1
  <2> QED BY <2>2
<1>3. PICK r \in finished \ gone : \A q \in finished \ gone : rank[r] <= rank[q]
  <2>1. PICK T : T = {rank[q] : q \in finished \ gone}
    OBVIOUS
  <2>2. T \in SUBSET Nat /\ T # {}
    BY <2>1
  <2>3. PICK n \in T : \A m \in T : n <= m
    BY <2>2, LeastNumber
  <2> QED BY <2>1, <2>3
<1>4. ASSUME NEW q \in order[r] \cap finished
      PROVE  q \in gone
  <2>1. q \in Runs /\ r \in Runs /\ q \notin order[q] /\ order[q] \subseteq order[r]
    BY DEF InOrder
  <2>2. PICK S : S = order[r] \cap finished
    OBVIOUS
  <2>3. PICK Q : Q = order[q] \cap finished
    OBVIOUS
  <2>4. Q \subseteq S \ {q} /\ q \in S
    BY <2>1, <2>2, <2>3
  <2>5. IsFiniteSet(S) /\ Cardinality(S) \in Nat
    BY <2>2, RunsFinite, FS_Subset, FS_CardinalityType
  <2>6. Cardinality(Q) <= Cardinality(S \ {q}) /\ Cardinality(S \ {q}) = Cardinality(S) - 1
    BY <2>4, <2>5, FS_Subset, FS_RemoveElement
  <2>7. rank[q] = Cardinality(Q) /\ rank[r] = Cardinality(S)
    BY <1>2, <2>1, <2>2, <2>3
  <2>8. rank[q] \in Nat /\ rank[r] \in Nat
    BY <2>1
  <2>9. rank[q] < rank[r]
    BY <2>5, <2>6, <2>7, <2>8
  <2> QED BY <1>3, <2>8, <2>9
<1>5. rank[r] <= Cardinality(gone)
  <2>1. PICK P : P = order[r] \cap finished
    OBVIOUS
  <2>2. P \subseteq gone /\ rank[r] = Cardinality(P)
    BY <1>2, <1>4, <2>1
  <2> QED BY <1>1, <2>2, FS_Subset
<1>6. Cardinality(all) - rank[r] <= RunLimit
  <2>1. ~(Cardinality(all) - rank[r] > RunLimit)
    BY <1>2, <1>3
  <2>2. rank[r] \in Nat
    OBVIOUS
  <2> QED BY <1>1, <2>1, <2>2
<1>7. Cardinality(all \ gone) = Cardinality(all) - Cardinality(gone)
  <2>1. all \cap gone = gone
    OBVIOUS
  <2> QED BY <1>1, <2>1, FS_Difference
<1>8. rank[r] \in Nat
  OBVIOUS
<1> QED BY <1>1, <1>5, <1>6, <1>7, <1>8

(* What pruning leaves of a history. *)
PrunedFrom(records) ==
  /\ HistoryTypes /\ InOrder(runOrder)
  /\ \A r \in Runs :
       /\ runs[r] \in {"none", records[r]}
       /\ records[r] \in {"queued", "running"} => runs[r] = records[r]
       /\ runs[r] = "none" => runOrder[r] = {}
  /\ \A q, r \in Runs : r \in runOrder[q] => runs[r] # "none"
  /\ Cardinality(Recorded(runs)) > RunLimit =>
       \A r \in Recorded(runs) : runs[r] \in {"queued", "running"}

LEMMA PruneLeaves ==
  ASSUME NEW records \in [Runs -> {"none", "queued", "running", "final"}],
         NEW order \in [Runs -> SUBSET Runs], InOrder(order),
         \A q, r \in Runs : r \in order[q] => records[r] # "none",
         \A r \in Runs : records[r] = "none" => order[r] = {},
         Prune(records, order)
  PROVE  PrunedFrom(records)'
<1> DEFINE all == Recorded(records)
           finished == {r \in Runs : records[r] = "final"}
           gone == {r \in finished :
                      Cardinality(all) - Cardinality(order[r] \cap finished) > RunLimit}
<1>1. /\ runs' = [r \in Runs |-> IF r \in gone THEN "none" ELSE records[r]]
      /\ runOrder' = [r \in Runs |-> IF r \in gone THEN {} ELSE order[r] \ gone]
  BY DEF Prune, Discard
<1>2. all \subseteq Runs /\ finished \subseteq all /\ gone \subseteq finished
  BY DEF Recorded
<1>3. \A r \in Runs : /\ r \in all <=> records[r] # "none"
                      /\ r \in finished <=> records[r] = "final"
  BY DEF Recorded
<1>4. \A r \in finished :
        r \in gone <=> Cardinality(all) - Cardinality(order[r] \cap finished) > RunLimit
  OBVIOUS
<1> HIDE DEF all, finished, gone
<1>5. HistoryTypes'
  BY <1>1 DEF HistoryTypes
<1>6. InOrder(runOrder')
  BY <1>1 DEF InOrder
<1>7. Recorded(runs') = all \ gone
  <2>1. \A r \in Runs : runs'[r] # "none" <=> r \in all /\ r \notin gone
    BY <1>1, <1>3
  <2> QED BY <1>2, <2>1 DEF Recorded
<1>8. Cardinality(Recorded(runs')) > RunLimit =>
        \A r \in Recorded(runs') : runs'[r] \in {"queued", "running"}
  <2> SUFFICES ASSUME Cardinality(all \ gone) > RunLimit, NEW r \in all \ gone
               PROVE  records[r] \in {"queued", "running"}
    BY <1>1, <1>2, <1>7
  <2>1. IsFiniteSet(all \ gone) /\ Cardinality(all \ gone) \in Nat /\ RunLimit \in Nat
    BY <1>2, RunsFinite, FS_Subset, FS_CardinalityType, LimitsAssumption
  <2>2. finished \ gone = {}
    <3>1. ASSUME finished \ gone # {} PROVE Cardinality(all \ gone) <= RunLimit
      BY <1>2, <1>4, <3>1, PruneIsEnough
    <3> QED BY <2>1, <3>1
  <2> QED BY <1>2, <1>3, <2>2
<1> QED BY <1>1, <1>2, <1>3, <1>5, <1>6, <1>8 DEF PrunedFrom

LEMMA HistoryStarts == Init => HInv
<1> SUFFICES ASSUME Init PROVE HInv
  OBVIOUS
<1>1. Recorded(runs) = {}
  BY DEF Init, Recorded
<1> QED BY <1>1 DEF Init, HInv, HistoryTypes, InOrder, Recording, Unfinished, Bounded

(* Start adds a record behind all others and prunes.                         *)
LEMMA StartKeepsHistory ==
  ASSUME RunTypes, HInv, NEW r \in Runs, NEW s \in Symbols, Start(r, s)
  PROVE  HInv'
<1>1. step[r] = "idle" /\ Admit(r) /\ step' = [step EXCEPT ![r] = "queued"]
  BY DEF Start, Goto
<1>2. PICK records : records = [runs EXCEPT ![r] = "queued"]
  OBVIOUS
<1>3. PICK order : order = [runOrder EXCEPT ![r] = Recorded(runs)]
  OBVIOUS
<1>4. Prune(records, order)
  BY <1>1, <1>2, <1>3 DEF Admit
<1>5. /\ records \in [Runs -> {"none", "queued", "running", "final"}]
      /\ order \in [Runs -> SUBSET Runs]
  BY <1>2, <1>3 DEF HInv, HistoryTypes, Recorded
<1>6. /\ records[r] = "queued" /\ order[r] = Recorded(runs)
      /\ \A q \in Runs \ {r} : records[q] = runs[q] /\ order[q] = runOrder[q]
  BY <1>2, <1>3 DEF HInv, HistoryTypes
<1>7. /\ runs[r] = "none" /\ r \notin Recorded(runs)
      /\ \A q \in Runs : r \notin runOrder[q] /\ runOrder[q] \subseteq Recorded(runs)
  BY <1>1 DEF HInv, HistoryTypes, Recording, Recorded
<1>8. InOrder(order)
  BY <1>6, <1>7 DEF HInv, InOrder, Recorded
<1>9. \A q, p \in Runs : p \in order[q] => records[p] # "none"
  BY <1>6, <1>7 DEF Recorded
<1>10. \A q \in Runs : records[q] = "none" => order[q] = {}
  BY <1>6 DEF HInv, Recording
<1>11. PrunedFrom(records)'
  BY <1>4, <1>5, <1>8, <1>9, <1>10, PruneLeaves
<1>12. \A q \in Runs : step'[q] = (IF q = r THEN "queued" ELSE step[q])
  BY <1>1 DEF RunTypes
<1>13. Recording'
  <2>1. ASSUME NEW q \in Runs
        PROVE  /\ step'[q] = "idle" => runs'[q] = "none"
               /\ step'[q] \in Unfinished <=> runs'[q] \in {"queued", "running"}
    <3>1. CASE q = r
      BY <1>6, <1>11, <1>12, <3>1 DEF PrunedFrom, Unfinished
    <3>2. CASE q # r
      <4>1. records[q] = runs[q] /\ step'[q] = step[q]
        BY <1>6, <1>12, <3>2
      <4>2. /\ runs'[q] \in {"none", runs[q]}
            /\ runs[q] \in {"queued", "running"} => runs'[q] = runs[q]
        BY <1>11, <4>1 DEF PrunedFrom
      <4> QED BY <4>1, <4>2 DEF HInv, Recording
    <3> QED BY <3>1, <3>2
  <2> QED BY <1>11, <2>1 DEF Recording, PrunedFrom
<1>14. Bounded'
  BY <1>11, <1>13 DEF Bounded, Recording, Recorded, PrunedFrom, Unfinished, Alive
<1> QED BY <1>11, <1>13, <1>14 DEF HInv, PrunedFrom

(* The end of a run prunes, so that its own record may go.                   *)
LEMMA LeaveKeepsHistory ==
  ASSUME RunTypes, HInv, NEW r \in Runs, Leave(r)
  PROVE  HInv'
<1>1. step[r] = "leave" /\ Prune(runs, runOrder) /\ step' = [step EXCEPT ![r] = "gone"]
  BY DEF Leave, Goto
<1>0. PICK records : records = runs
  OBVIOUS
<1>2. PrunedFrom(records)'
  BY <1>0, <1>1, PruneLeaves DEF HInv, HistoryTypes, Recording
<1>3. \A q \in Runs : step'[q] = (IF q = r THEN "gone" ELSE step[q])
  BY <1>1 DEF RunTypes
<1>4. Recording'
  <2>1. ASSUME NEW q \in Runs
        PROVE  /\ step'[q] = "idle" => runs'[q] = "none"
               /\ step'[q] \in Unfinished <=> runs'[q] \in {"queued", "running"}
    <3>1. /\ runs'[q] \in {"none", runs[q]}
          /\ runs[q] \in {"queued", "running"} => runs'[q] = runs[q]
      BY <1>0, <1>2 DEF PrunedFrom
    <3>2. CASE q = r
      <4>1. step'[q] = "gone" /\ runs[q] \notin {"queued", "running"}
        BY <1>1, <1>3, <3>2 DEF HInv, Recording, Unfinished
      <4> QED BY <3>1, <4>1 DEF Unfinished
    <3>3. CASE q # r
      BY <1>3, <3>1, <3>3 DEF HInv, Recording
    <3> QED BY <3>2, <3>3
  <2> QED BY <1>2, <2>1 DEF Recording, PrunedFrom
<1>5. Bounded'
  BY <1>2, <1>4 DEF Bounded, Recording, Recorded, PrunedFrom, Unfinished, Alive
<1> QED BY <1>2, <1>4, <1>5 DEF HInv, PrunedFrom

(* The status of a run that has a record changes; the records are the same.  *)
LEMMA StatusKeepsHistory ==
  ASSUME RunTypes, HInv, NEW r \in Runs, NEW t \in {"running", "final"},
         runs[r] # "none", Status(r, t),
         \A q \in Runs : Alive(q)' <=> Alive(q),
         \A q \in Runs \ {r} : step'[q] = step[q],
         t = "final" => step'[r] \in {"recorded", "free", "leave"},
         t = "running" => step'[r] \in Unfinished
  PROVE  HInv'
<1>1. runs' = [runs EXCEPT ![r] = t] /\ runOrder' = runOrder
  BY DEF Status
<1>2. /\ HistoryTypes'
      /\ \A q \in Runs : /\ runs'[q] = (IF q = r THEN t ELSE runs[q])
                         /\ runs'[q] = "none" <=> runs[q] = "none"
  BY <1>1 DEF HInv, HistoryTypes
<1>3. Recorded(runs') = Recorded(runs)
  <2>1. \A q \in Runs : runs'[q] # "none" <=> runs[q] # "none"
    BY <1>2
  <2> QED BY <2>1 DEF Recorded
<1>4. Recording'
  <2>1. ASSUME NEW q \in Runs
        PROVE  /\ step'[q] = "idle" => runs'[q] = "none"
               /\ step'[q] \in Unfinished <=> runs'[q] \in {"queued", "running"}
    <3>1. CASE q = r
      BY <1>2, <3>1 DEF Unfinished
    <3>2. CASE q # r
      BY <1>2, <3>2 DEF HInv, Recording
    <3> QED BY <3>1, <3>2
  <2> QED BY <1>1, <1>2, <2>1 DEF HInv, Recording
<1>5. Bounded' /\ InOrder(runOrder')
  BY <1>1, <1>3 DEF HInv, Bounded, Recorded
<1> QED BY <1>2, <1>4, <1>5 DEF HInv

(* Where no record changes, a run goes on to a step that needs the same.     *)
LEMMA GoingOnKeepsHistory ==
  ASSUME RunTypes, HInv, UNCHANGED <<runs, runOrder>>,
         \A q \in Runs :
           \/ step'[q] = step[q]
           \/ /\ step[q] \in {"placed", "locking", "run", "ask", "expire"}
              /\ step'[q] \in {"locking", "run", "ask", "expire", "canceled"}
           \/ step[q] = "canceled" /\ step'[q] = "unrecorded"
           \/ step[q] \in {"recorded", "unlocked", "free"}
              /\ step'[q] \in {"unlocked", "free", "leave"}
  PROVE  HInv'
<1>1. \A q \in Runs : Alive(q)' <=> Alive(q)
  BY DEF Alive
<1>2. Recording'
  BY <1>1 DEF HInv, Recording, Unfinished
<1>3. HistoryTypes' /\ Bounded' /\ InOrder(runOrder')
  BY <1>1 DEF HInv, HistoryTypes, Bounded, Recorded
<1> QED BY <1>2, <1>3 DEF HInv

LEMMA HistorySteps == RunTypes /\ HInv /\ [Next]_vars => HInv'
<1> SUFFICES ASSUME RunTypes, HInv, [Next]_vars PROVE HInv'
  OBVIOUS
<1>1. ASSUME NEW r \in Runs, AcquirePlace(r) PROVE HInv'
  <2>1. /\ step[r] = "queued" /\ runs[r] # "none" /\ Status(r, "running")
        /\ step' = [step EXCEPT ![r] = "placed"]
    BY <1>1 DEF AcquirePlace, Goto, HInv, Recording, Unfinished
  <2>2. \A q \in Runs : /\ Alive(q)' <=> Alive(q)
                        /\ q # r => step'[q] = step[q]
    BY <2>1 DEF Alive, RunTypes
  <2>3. step'[r] \in Unfinished
    BY <2>1 DEF Unfinished, RunTypes
  <2>4. \A q \in Runs \ {r} : step'[q] = step[q]
    BY <2>2
  <2> QED BY <2>1, <2>2, <2>3, <2>4, StatusKeepsHistory
<1>2. ASSUME NEW r \in Runs, CancelQueued(r) \/ RecordResult(r) \/ FinishCanceled(r)
      PROVE  HInv'
  <2>1. PICK t \in {"recorded", "free", "leave"} : step' = [step EXCEPT ![r] = t]
    BY <1>2 DEF CancelQueued, RecordResult, FinishCanceled, Goto
  <2>2. /\ step[r] \in {"queued", "run", "unrecorded"} /\ runs[r] # "none"
        /\ Status(r, "final")
    BY <1>2 DEF CancelQueued, RecordResult, FinishCanceled, HInv, Recording, Unfinished
  <2>3. \A q \in Runs : /\ Alive(q)' <=> Alive(q)
                        /\ q # r => step'[q] = step[q]
    BY <2>1, <2>2 DEF Alive, RunTypes
  <2>4. step'[r] = t
    BY <2>1 DEF RunTypes
  <2>5. \A q \in Runs \ {r} : step'[q] = step[q]
    BY <2>3
  <2> QED BY <2>1, <2>2, <2>3, <2>4, <2>5, StatusKeepsHistory
<1>3. ASSUME NEW r \in Runs,
             PointToLock(r) \/ EnterSymbol(r) \/ CancelWaiting(r) \/ Ask(r) \/ Decided(r)
               \/ Expire(r) \/ SettleExpired(r)
      PROVE  HInv'
  <2>1. /\ UNCHANGED <<runs, runOrder>>
        /\ step[r] \in {"placed", "locking", "run", "ask", "expire"}
        /\ \E t \in {"locking", "run", "ask", "expire", "canceled"} :
             step' = [step EXCEPT ![r] = t]
    BY <1>3 DEF PointToLock, EnterSymbol, CancelWaiting, Ask, Decided, Expire,
                SettleExpired, Goto, admission
  <2>2. \A q \in Runs :
          \/ step'[q] = step[q]
          \/ /\ step[q] \in {"placed", "locking", "run", "ask", "expire"}
             /\ step'[q] \in {"locking", "run", "ask", "expire", "canceled"}
    BY <2>1 DEF RunTypes
  <2> QED BY <2>1, <2>2, GoingOnKeepsHistory
<1>4. ASSUME NEW r \in Runs, ExitSymbol(r) \/ ReleaseSymbol(r) \/ FreePlace(r)
      PROVE  HInv'
  <2>1. /\ UNCHANGED <<runs, runOrder>>
        /\ \/ /\ step[r] \in {"recorded", "unlocked", "free"}
              /\ \E t \in {"unlocked", "free", "leave"} : step' = [step EXCEPT ![r] = t]
           \/ step[r] = "canceled" /\ step' = [step EXCEPT ![r] = "unrecorded"]
    BY <1>4 DEF ExitSymbol, ReleaseSymbol, FreePlace, Goto, admission
  <2>2. \A q \in Runs :
          \/ step'[q] = step[q]
          \/ step[q] = "canceled" /\ step'[q] = "unrecorded"
          \/ step[q] \in {"recorded", "unlocked", "free"}
             /\ step'[q] \in {"unlocked", "free", "leave"}
    BY <2>1 DEF RunTypes
  <2> QED BY <2>1, <2>2, GoingOnKeepsHistory
<1>5. CASE UNCHANGED <<step, runs, runOrder>>
  BY <1>5, GoingOnKeepsHistory
<1>6. ASSUME NEW r \in Runs, NEW d, Resolve(r, d) PROVE UNCHANGED <<step, runs, runOrder>>
  BY <1>6 DEF Resolve, admission
<1>7. ASSUME NEW o \in Others, OtherLocks(o) \/ OtherUnlocks(o)
      PROVE  UNCHANGED <<step, runs, runOrder>>
  BY <1>7 DEF OtherLocks, OtherUnlocks, runVars, admission
<1>8. ASSUME CloseBegin \/ CloseEnd \/ UNCHANGED vars
      PROVE  UNCHANGED <<step, runs, runOrder>>
  BY <1>8 DEF CloseBegin, CloseEnd, vars, runVars, admission
<1>9. CASE Next
  BY <1>1, <1>2, <1>3, <1>4, <1>5, <1>6, <1>7, <1>8, <1>9, StartKeepsHistory,
     LeaveKeepsHistory DEF Next, RunStep
<1> QED BY <1>5, <1>8, <1>9

(* service.go:339: a run that was accepted can be looked up until it has a   *)
(* result, and the history is longer than its limit only by runs in flight,  *)
(* for any number of runs and any limit.                                     *)
THEOREM HistoryAlwaysKept == Spec => []HistoryKept
<1>1. HInv => HistoryKept
  BY DEF HInv, Recording, Unfinished, Bounded, HistoryKept
<1> QED BY <1>1, HistoryStarts, HistorySteps, TypesAlways, PTL DEF Spec
=============================================================================
