----------------------------- MODULE ServiceProofs -----------------------------
(* Theorems about the services beside the trading path, each of them a state *)
(* machine of its own: the execution lease, the file repository, the         *)
(* dashboard's account cache, the scanner's schedule, the settings, the      *)
(* reversals and the exits of a position, the budgets of the language model, *)
(* the gate of the configuration and the event streams.                      *)
EXTENDS ExecutionLease, FileStore, AccountCache, ScanLoop, ControlState,
        PositionAutomation, LlmBudget, ExecutionPolicy, EventBus, FiniteSetTheorems,
        TLAPS

-----------------------------------------------------------------------------
(* The execution lease.  Sessions are numbered as they are given out, so the *)
(* session that took the lock belongs to one process for good: while it      *)
(* lives it has the lock, and that is what the comparison of the session     *)
(* behind the connection with it finds out.                                  *)

Numbered ==
  /\ live \subseteq 1..born
  /\ \A p \in Processes : leaseConn[p] <= born /\ leasePID[p] <= born

OwnSessions ==
  \A p, q \in Processes :
    /\ leasePID[p] # 0 /\ leasePID[p] = leasePID[q] => p = q
    /\ leaseConn[p] # 0 /\ leaseConn[p] = leaseConn[q] => p = q
    /\ leaseConn[p] # 0 /\ leaseConn[p] = leasePID[q] => p = q

LivesMeansHolds == \A p \in Processes : leasePID[p] \in live => leased = leasePID[p]

LeaseInv ==
  /\ LeaseTypeOK /\ Numbered /\ OwnSessions /\ LivesMeansHolds
  /\ leased # 0 => leased \in live
  /\ \A p \in Processes : post[p] = "covered" => Holds(p)
  /\ sent # "foreign"

(* The invariant holds at the start.                                         *)
LEMMA LeaseStarts == LeaseInit => LeaseInv
BY LeaseAssumption DEF LeaseInit, LeaseInv, LeaseTypeOK, Numbered, OwnSessions,
   LivesMeansHolds, Holds

(* Every step of PostgreSQL and of the processes keeps it.                   *)
LEMMA LeaseSteps == LeaseInv /\ [LeaseNext]_leaseVars => LeaseInv'
<1> SUFFICES ASSUME LeaseInv, [LeaseNext]_leaseVars PROVE LeaseInv'
  OBVIOUS
<1> USE LeaseAssumption DEF LeaseInv, LeaseTypeOK, Holds
<1>1. CASE SessionEnds
  BY <1>1 DEF SessionEnds, Numbered, OwnSessions, LivesMeansHolds
<1>2. ASSUME NEW p \in Processes, AcquireLease(p) PROVE LeaseInv'
  <2>1. born' = born + 1 /\ born' \in Nat /\ born' <= Sessions /\ born' \notin live
    BY <1>2 DEF AcquireLease, Numbered
  <2>2. 1..born \subseteq 1..born'
    BY <2>1
  <2>3. CASE leased = 0
    <3>1. /\ leased' = born' /\ live' = live \cup {born'}
          /\ leaseConn' = [leaseConn EXCEPT ![p] = born']
          /\ leasePID' = [leasePID EXCEPT ![p] = born']
      BY <1>2, <2>3 DEF AcquireLease
    <3>2. UNCHANGED <<post, begun, sent>>
      BY <1>2 DEF AcquireLease
    <3>3. LeaseTypeOK'
      BY <2>1, <2>2, <3>1, <3>2 DEF Numbered
    <3>4. Numbered'
      BY <2>1, <2>2, <3>1 DEF Numbered
    <3>5. OwnSessions'
      BY <2>1, <3>1 DEF Numbered, OwnSessions
    <3>6. LivesMeansHolds'
      BY <2>1, <2>3, <3>1 DEF Numbered, OwnSessions, LivesMeansHolds
    <3>7. \A q \in Processes : post[q] # "covered"
      BY <2>3
    <3> QED BY <2>1, <3>1, <3>2, <3>3, <3>4, <3>5, <3>6, <3>7
  <2>4. CASE leased # 0
    <3>1. UNCHANGED <<leased, live, leaseConn, leasePID, post, begun, sent>>
      BY <1>2, <2>4 DEF AcquireLease
    <3>2. LeaseTypeOK' /\ Numbered'
      BY <2>1, <2>2, <3>1 DEF Numbered
    <3> QED BY <3>1, <3>2 DEF OwnSessions, LivesMeansHolds
  <2> QED BY <2>3, <2>4
<1>3. ASSUME NEW p \in Processes, Rebind(p) PROVE LeaseInv'
  BY <1>3 DEF Rebind, Numbered, OwnSessions, LivesMeansHolds
<1>4. ASSUME NEW p \in Processes, WantPost(p) PROVE LeaseInv'
  BY <1>4 DEF WantPost, Numbered, OwnSessions, LivesMeansHolds
<1>5. ASSUME NEW p \in Processes, ValidateLease(p) PROVE LeaseInv'
  <2>1. LeaseValid(p) => Holds(p)
    BY DEF LeaseValid, LivesMeansHolds, Numbered
  <2> QED BY <1>5, <2>1 DEF ValidateLease, Numbered, OwnSessions, LivesMeansHolds
<1>6. ASSUME NEW p \in Processes, SendPost(p) PROVE LeaseInv'
  BY <1>6 DEF SendPost, Numbered, OwnSessions, LivesMeansHolds
<1>7. ASSUME NEW p \in Processes, CloseRepository(p) PROVE LeaseInv'
  <2>1. /\ live' = live \ {leaseConn[p]}
        /\ leased' = IF leased = leaseConn[p] THEN 0 ELSE leased
        /\ leaseConn' = [leaseConn EXCEPT ![p] = 0]
        /\ leasePID' = [leasePID EXCEPT ![p] = 0]
        /\ post' = [post EXCEPT ![p] = "none"]
        /\ UNCHANGED <<born, begun, sent>> /\ leaseConn[p] # 0
    BY <1>7 DEF CloseRepository
  <2>2. Numbered' /\ OwnSessions' /\ LeaseTypeOK'
    <3>1. Numbered'
      <4>1. live' \subseteq 1..born'
        BY <2>1 DEF Numbered
      <4>2. ASSUME NEW q \in Processes
            PROVE  leaseConn'[q] <= born' /\ leasePID'[q] <= born'
        <5>1. CASE q = p
          BY <2>1, <5>1
        <5>2. CASE q # p
          BY <2>1, <5>2 DEF Numbered
        <5> QED BY <5>1, <5>2
      <4> QED BY <4>1, <4>2 DEF Numbered
    <3>2. OwnSessions'
      BY <2>1 DEF OwnSessions
    <3>3. leased' \in 0..Sessions
      BY <2>1
    <3>4. live' \subseteq 1..Sessions
      BY <2>1
    <3> QED BY <2>1, <3>1, <3>2, <3>3, <3>4
  <2>3. LivesMeansHolds'
    BY <2>1 DEF Numbered, OwnSessions, LivesMeansHolds
  <2>4. leased' # 0 => leased' \in live'
    BY <2>1
  <2>5. ASSUME NEW q \in Processes, post'[q] = "covered" PROVE Holds(q)'
    <3>1. q # p /\ post[q] = "covered" /\ leasePID'[q] = leasePID[q]
      BY <2>1, <2>5
    <3>2. leased # leaseConn[p]
      BY <2>1, <3>1 DEF OwnSessions
    <3> QED BY <2>1, <3>1, <3>2
  <2> QED BY <2>1, <2>2, <2>3, <2>4, <2>5
<1>8. CASE UNCHANGED leaseVars
  BY <1>8 DEF leaseVars, Numbered, OwnSessions, LivesMeansHolds
<1> QED BY <1>1, <1>2, <1>3, <1>4, <1>5, <1>6, <1>7, <1>8 DEF LeaseNext

(* For any processes and sessions: a process that lost its session never     *)
(* passes the guard again, and no two are past it with the lock.             *)
THEOREM OneProcessExecutes == LeaseSpec => []OneExecutor
<1>1. LeaseInv => OneExecutor
  BY DEF LeaseInv, OneExecutor, Holds, OwnSessions
<1> QED BY LeaseStarts, LeaseSteps, <1>1, PTL DEF LeaseSpec

-----------------------------------------------------------------------------
(* The file repository.  The document that can be recovered is the one of    *)
(* the last mutation until the rename that installs the next one, and its    *)
(* number from there on; where mutate is says which.                         *)

Worth(dir) == IF dir["path"] # Missing THEN dir["path"] ELSE dir["bak"]

AtPlace ==
  /\ place \in {"ready", "recover", "rename", "stage", "install", "restore", "failed"} =>
       state = Worth(files)
  /\ place \in {"recover", "rename", "stage", "install"} => files["temp"] = tries
  /\ place \in {"install", "restore"} => files["path"] = Missing
  /\ place = "stage" => files["path"] # Missing
  /\ place \in {"cleanup", "sync", "remember"} => files["path"] = tries
  /\ place = "remember" => synced["path"] = tries

FileInv ==
  /\ FileTypeOK /\ AtPlace
  /\ acked <= Worth(files) /\ Worth(files) <= tries
  /\ acked <= Worth(synced) /\ Worth(synced) <= tries

(* The invariant holds of a repository that has been written once.           *)
LEMMA FileStarts == FileInit => FileInv
BY FileAssumption DEF FileInit, FileInv, FileTypeOK, AtPlace, Worth, Files, Documents,
   Missing

(* Recovery changes the directory, never what it is worth.                   *)
LEMMA RecoveryKeeps ==
  ASSUME FileTypeOK, RecoverInterruptedReplace
  PROVE  /\ files' \in [Files -> Documents] /\ Worth(files)' = Worth(files)
         /\ files'["temp"] = files["temp"]
         /\ files'["path"] = Worth(files)
BY FileAssumption DEF FileTypeOK, RecoverInterruptedReplace, Worth, Has, Rename, Unlink,
   Files, Documents, Missing

(* Every call of mutate, the failed ones included, and every crash keep it.  *)
LEMMA FileSteps == FileInv /\ [FileNext]_fileVars => FileInv'
<1> SUFFICES ASSUME FileInv, [FileNext]_fileVars PROVE FileInv'
  OBVIOUS
<1> USE FileAssumption DEF FileInv, FileTypeOK, AtPlace, Worth, Documents, Missing, Files
<1>1. CASE WriteTemp
  BY <1>1 DEF WriteTemp
<1>2. CASE Recover
  BY <1>2, RecoveryKeeps DEF Recover, Call, Mishap
<1>3. CASE RenameOver
  BY <1>3 DEF RenameOver, Rename, Mishap, Has
<1>4. CASE Stage
  BY <1>4 DEF Stage, Call, Rename, Mishap
<1>5. CASE Install
  BY <1>5 DEF Install, Call, Rename, Mishap
<1>6. CASE Restore
  BY <1>6 DEF Restore, Call, Rename, Mishap
<1>7. CASE CleanUp
  BY <1>7 DEF CleanUp, Call, Unlink, Mishap
<1>8. CASE SyncDirectory
  BY <1>8 DEF SyncDirectory
<1>9. CASE Remember
  BY <1>9 DEF Remember, Unlink
<1>10. CASE ProcessDies
  BY <1>10 DEF ProcessDies, Mishap
<1>11. CASE Open
  BY <1>11, RecoveryKeeps DEF Open
<1>12. CASE UNCHANGED fileVars
  BY <1>12 DEF fileVars
<1> QED BY <1>1, <1>2, <1>3, <1>4, <1>5, <1>6, <1>7, <1>8, <1>9, <1>10, <1>11, <1>12
        DEF FileNext

(* For any number of mutations and mishaps: no acknowledged mutation is ever *)
(* out of reach of a restart, and memory is what a restart would load.       *)
THEOREM DiskAlwaysAgrees == FileSpec => []DiskAgrees
<1>1. FileInv => DiskAgrees
  BY DEF FileInv, FileTypeOK, AtPlace, DiskAgrees, Recoverable, Has, Worth
<1> QED BY FileStarts, FileSteps, <1>1, PTL DEF FileSpec

-----------------------------------------------------------------------------
(* The account cache.  The account a view still has to show is the one of    *)
(* the last answered close, and already that of a close that has invalidated *)
(* the cache: from the invalidation on nothing older can be stored, because  *)
(* it waited for the fetch under way.                                        *)

Due == IF manual.step = "answer" THEN manual.account ELSE shown

ViewInv(b) ==
  /\ owed[b] <= shown
  /\ mu = b <=> view[b].step \in {"both", "balances", "positions", "fetched"}
  /\ view[b].step \in {"positions", "fetched"} => view[b].balances >= Due
  /\ view[b].step \in {"balances", "fetched"} => view[b].positions >= Due
  /\ view[b].step = "answered" => /\ view[b].balances >= owed[b]
                                  /\ view[b].positions >= owed[b]

CacheInv ==
  /\ CacheTypeOK
  /\ shown <= Due /\ Due <= account
  /\ manual.step # "idle" => shown <= manual.account /\ manual.account <= account
  /\ fresh => cached.balances >= Due /\ cached.positions >= Due
  /\ \A b \in Readers : ViewInv(b)

(* The invariant holds before the first request.                             *)
LEMMA CacheStarts == CacheInit => CacheInv
<1> SUFFICES ASSUME CacheInit PROVE CacheInv
  OBVIOUS
<1>1. 0 \in 0..MaxChanges
  BY CacheAssumption
<1>2. CacheTypeOK
  BY <1>1 DEF CacheInit, CacheTypeOK, NoView, Snapshot
<1>3. ASSUME NEW b \in Readers PROVE ViewInv(b)
  <2>1. view[b].step = "idle" /\ owed[b] = 0 /\ shown = 0 /\ mu # b
    BY CacheAssumption DEF CacheInit, NoView
  <2> QED BY <2>1 DEF ViewInv
<1>4. shown = 0 /\ account = 0 /\ manual.step = "idle" /\ ~fresh
  BY DEF CacheInit
<1> QED BY <1>2, <1>3, <1>4 DEF CacheInv, Due

(* Every request, every change of the account and every close keep it.       *)
LEMMA CacheSteps == CacheInv /\ [CacheNext]_cacheVars => CacheInv'
<1> SUFFICES ASSUME CacheInv, [CacheNext]_cacheVars PROVE CacheInv'
  OBVIOUS
<1> USE CacheAssumption DEF CacheInv, CacheTypeOK, ViewInv, Due, Snapshot
<1>1. ASSUME NEW b \in Readers, Ask(b) PROVE CacheInv'
  BY <1>1 DEF Ask, NoView
<1>2. ASSUME NEW b \in Readers, Load(b) PROVE CacheInv'
  BY <1>2 DEF Load, Go
<1>3. ASSUME NEW b \in Readers, FetchBalances(b) PROVE CacheInv'
  BY <1>3 DEF FetchBalances
<1>4. ASSUME NEW b \in Readers, FetchPositions(b) PROVE CacheInv'
  BY <1>4 DEF FetchPositions
<1>5. ASSUME NEW b \in Readers, FetchFails(b) PROVE CacheInv'
  BY <1>5 DEF FetchFails, Go
<1>6. ASSUME NEW b \in Readers, StoreSnapshot(b) PROVE CacheInv'
  BY <1>6 DEF StoreSnapshot, Go
<1>7. CASE Expire
  BY <1>7 DEF Expire
<1>8. CASE AccountMoves
  BY <1>8 DEF AccountMoves
<1>9. CASE CloseFilled
  BY <1>9 DEF CloseFilled
<1>10. CASE Invalidate
  BY <1>10 DEF Invalidate
<1>11. CASE AnswerClose
  BY <1>11 DEF AnswerClose
<1>12. CASE UNCHANGED cacheVars
  BY <1>12 DEF cacheVars
<1> QED BY <1>1, <1>2, <1>3, <1>4, <1>5, <1>6, <1>7, <1>8, <1>9, <1>10, <1>11, <1>12
        DEF CacheNext

(* For any number of readers: a view asked for after a close was answered    *)
(* shows it.                                                                 *)
THEOREM CloseAlwaysShown == CacheSpec => []CloseIsShown
<1>1. CacheInv => CloseIsShown
  BY DEF CacheInv, ViewInv, CloseIsShown
<1> QED BY CacheStarts, CacheSteps, <1>1, PTL DEF CacheSpec

-----------------------------------------------------------------------------
(* The scanner.  What holds of the sleep holds of the interval read for it,  *)
(* from the reading on.                                                      *)

Told == changed \/ \E u \in Editors : editor[u] = "notify"

ScheduleInv ==
  /\ editor \in [Editors -> {"idle", "notify"}]
  /\ loop = "reset" /\ upcoming # interval => Told
  /\ loop = "select" /\ timer.set # interval => Told

(* The invariant holds before the first cycle.                               *)
LEMMA ScheduleStarts == ScanInit => ScheduleInv
BY DEF ScanInit, ScheduleInv

(* Every step of the loop, of an edit and of the rest of the program keeps   *)
(* it.                                                                       *)
LEMMA ScheduleSteps == ScheduleInv /\ [ScanNext]_scanVars => ScheduleInv'
<1> SUFFICES ASSUME ScheduleInv, [ScanNext]_scanVars PROVE ScheduleInv'
  OBVIOUS
<1> USE DEF ScheduleInv, Told
<1>1. CASE BeginCycle \/ CheckGate \/ TakeSymbol \/ RunSymbol \/ EndCycle
  BY <1>1 DEF BeginCycle, CheckGate, TakeSymbol, RunSymbol, EndCycle, settingVars
<1>2. CASE ReadInterval
  BY <1>2 DEF ReadInterval, settingVars
<1>3. CASE ResetTimer
  BY <1>3 DEF ResetTimer, settingVars
<1>4. CASE TimerFires
  BY <1>4 DEF TimerFires, settingVars
<1>5. CASE Select
  BY <1>5 DEF Select, settingVars
<1>6. ASSUME NEW u \in Editors, PublishEdit(u) PROVE ScheduleInv'
  BY <1>6 DEF PublishEdit
<1>7. ASSUME NEW u \in Editors, NotifyScheduleChanged(u) PROVE ScheduleInv'
  BY <1>7 DEF NotifyScheduleChanged
<1>8. CASE WorldMoves
  BY <1>8 DEF WorldMoves, settingVars
<1>9. CASE UNCHANGED scanVars
  BY <1>9 DEF scanVars
<1> QED BY <1>1, <1>2, <1>3, <1>4, <1>5, <1>6, <1>7, <1>8, <1>9 DEF ScanNext

(* For any watchlist, intervals and number of edits: a sleep of the wrong    *)
(* length is about to be cut short.                                          *)
THEOREM ScheduleStaysCurrent == ScanSpec => []ScheduleCurrent
<1>1. ScheduleInv => ScheduleCurrent
  BY DEF ScheduleInv, ScheduleCurrent, Told
<1> QED BY ScheduleStarts, ScheduleSteps, <1>1, PTL DEF ScanSpec

-----------------------------------------------------------------------------
(* The settings.  Whoever works on a copy holds updateMu, so the copy is     *)
(* still the published settings with its own edit over them when it is       *)
(* published in its turn; and since an edit saves the automation block whole *)
(* from such a copy, what is saved is valid as a block, and so is any        *)
(* environment with it.                                                      *)

Update == [step : {"idle", "persist", "publish", "model", "client", "done"},
           edit : Edits \cup {<<>>}, next : [Fields -> Nat], kill : BOOLEAN]

UpdateInv(u) ==
  /\ updating = u <=> updater[u].step \in {"persist", "publish"}
  /\ updating = u => /\ updater[u].edit \in Edits
                     /\ updater[u].next = Over(settings, updater[u].edit)
                     /\ Valid(updater[u].next)

BlockInv ==
  /\ DOMAIN prefs \subseteq Fields
  /\ \A f \in DOMAIN prefs : prefs[f] \in Nat
  /\ "min" \in DOMAIN prefs <=> "max" \in DOMAIN prefs
  /\ "max" \in DOMAIN prefs => Valid(prefs)

ControlInv ==
  /\ settings \in [Fields -> Nat] /\ Valid(settings) /\ kill \in BOOLEAN
  /\ updater \in [Updaters -> Update]
  /\ asked = [field |-> settings, kill |-> kill]
  /\ BlockInv
  /\ \A u \in Updaters : UpdateInv(u)

(* Settings stay settings whatever edit goes over them.                      *)
LEMMA OverSettings ==
  ASSUME NEW s \in [Fields -> Nat], NEW e \in Edits
  PROVE  Over(s, e) \in [Fields -> Nat]
BY ControlAssumption DEF Over, Fields

(* The invariant holds on the environment alone.                             *)
LEMMA ControlStarts == ControlInit => ControlInv
<1> SUFFICES ASSUME ControlInit PROVE ControlInv
  OBVIOUS
<1>1. BlockInv
  BY DEF ControlInit, BlockInv
<1>2. updater \in [Updaters -> Update]
  BY ControlAssumption DEF ControlInit, NoUpdate, Update
<1>3. ASSUME NEW u \in Updaters PROVE UpdateInv(u)
  BY ControlAssumption DEF ControlInit, NoUpdate, UpdateInv
<1> QED BY <1>1, <1>2, <1>3, ControlAssumption DEF ControlInit, ControlInv

(* A restart does not refuse what the invariant says of the saved settings.  *)
LEMMA RestoredIsValid ==
  ASSUME BlockInv
  PROVE  Over(Env, prefs) \in [Fields -> Nat] /\ Valid(Over(Env, prefs))
<1>1. Over(Env, prefs) \in [Fields -> Nat]
  BY ControlAssumption DEF BlockInv, Over, Fields
<1>2. CASE "max" \in DOMAIN prefs
  BY <1>2, ControlAssumption DEF BlockInv, Over, Valid, Fields
<1>3. CASE "max" \notin DOMAIN prefs
  BY <1>3, ControlAssumption DEF BlockInv, Over, Valid, Fields
<1> QED BY <1>1, <1>2, <1>3

(* A copy that is saved leaves the block valid.                              *)
LEMMA SavedIsValid ==
  ASSUME ControlInv, NEW u \in Updaters, updater[u].step = "persist", Saved(u)
  PROVE  BlockInv'
<1> DEFINE e == updater[u].edit
           next == updater[u].next
           written == SavedBy(e)
<1>1. /\ e \in Edits /\ next \in [Fields -> Nat] /\ Valid(next)
      /\ DOMAIN e \subseteq Fields
  BY ControlAssumption DEF ControlInv, UpdateInv, Update
<1>2. prefs' = [f \in DOMAIN prefs \cup written |->
                  IF f \in written THEN next[f] ELSE prefs[f]]
  BY DEF Saved
<1>3. /\ written \subseteq Fields
      /\ "min" \in written <=> "max" \in written
  BY <1>1 DEF SavedBy, Automation, Fields
<1> HIDE DEF written, next, e
<1>4. DOMAIN prefs' \subseteq Fields /\ \A f \in DOMAIN prefs' : prefs'[f] \in Nat
  BY <1>1, <1>2, <1>3 DEF ControlInv, BlockInv
<1>5. "min" \in DOMAIN prefs' <=> "max" \in DOMAIN prefs'
  BY <1>2, <1>3 DEF ControlInv, BlockInv
<1>6. "max" \in DOMAIN prefs' => Valid(prefs')
  BY <1>1, <1>2, <1>3 DEF ControlInv, BlockInv, Valid
<1> QED BY <1>4, <1>5, <1>6 DEF BlockInv, Valid

(* A request that goes on to a step without the lock, its copy its own       *)
(* again, leaves the others' copies good.                                    *)
LEMMA MovesOn ==
  ASSUME ControlInv, NEW u \in Updaters, NEW next \in [Fields -> Nat],
         NEW step \in {"idle", "model", "client", "done"},
         updater' = [updater EXCEPT ![u].step = step, ![u].next = next],
         \/ updating' = updating /\ updating # u
         \/ updating' = Nobody /\ updating = u,
         updating' = updating => UNCHANGED settings
  PROVE  updater' \in [Updaters -> Update] /\ \A q \in Updaters : UpdateInv(q)'
<1>1. updater' \in [Updaters -> Update]
  BY DEF ControlInv, Update
<1>2. ASSUME NEW q \in Updaters, q # u PROVE UpdateInv(q)'
  <2>1. updater'[q] = updater[q] /\ UpdateInv(q)
    BY <1>2 DEF ControlInv, Update
  <2>2. CASE updating' = updating
    BY <2>1, <2>2 DEF UpdateInv
  <2>3. CASE updating = u /\ updating' = Nobody
    BY <1>2, <2>1, <2>3, ControlAssumption DEF UpdateInv
  <2> QED BY <2>2, <2>3
<1>3. UpdateInv(u)'
  <2>1. updater'[u].step = step /\ updating' # u
    BY ControlAssumption DEF ControlInv, Update
  <2> QED BY <2>1 DEF UpdateInv
<1> QED BY <1>1, <1>2, <1>3

(* Every step of an edit, of the kill switch and of a restart keeps it.      *)
LEMMA ControlSteps == ControlInv /\ [ControlNext]_controlVars => ControlInv'
<1> SUFFICES ASSUME ControlInv, [ControlNext]_controlVars PROVE ControlInv'
  OBVIOUS
<1> USE ControlAssumption
<1>1. ASSUME NEW u \in Updaters, NEW e \in Edits, Candidate(u, e) PROVE ControlInv'
  <2>1. Over(settings, e) \in [Fields -> Nat]
    BY OverSettings DEF ControlInv
  <2>2. UNCHANGED <<settings, kill, prefs, client, toggles, asked>>
    BY <1>1 DEF Candidate
  <2>3. CASE Valid(Over(settings, e))
    <3>1. /\ updating' = u /\ updating = Nobody /\ updater[u].step = "idle"
          /\ updater' = [updater EXCEPT ![u] = [step |-> "persist", edit |-> e,
                          next |-> Over(settings, e), kill |-> kill]]
      BY <1>1, <2>3 DEF Candidate
    <3> QED BY <2>1, <2>2, <2>3, <3>1 DEF ControlInv, UpdateInv, Update, BlockInv
  <2>4. CASE ~Valid(Over(settings, e))
    <3>1. /\ updating' = updating /\ updating = Nobody
          /\ updater' = [updater EXCEPT ![u].step = "done"]
      BY <1>1, <2>4 DEF Candidate, Move
    <3>2. PICK n \in [Fields -> Nat] : n = updater[u].next
      BY DEF ControlInv, Update
    <3>3. updater' = [updater EXCEPT ![u].step = "done", ![u].next = n]
      BY <3>1, <3>2 DEF ControlInv, Update
    <3>4. updater' \in [Updaters -> Update] /\ \A q \in Updaters : UpdateInv(q)'
      BY <2>2, <3>1, <3>3, MovesOn
    <3> QED BY <2>2, <3>4 DEF ControlInv, BlockInv
  <2> QED BY <2>3, <2>4
<1>2. ASSUME NEW u \in Updaters, PersistSettings(u) PROVE ControlInv'
  <2>1. BlockInv'
    <3>1. CASE Saved(u)
      BY <1>2, <3>1, SavedIsValid DEF PersistSettings
    <3>2. CASE UNCHANGED prefs
      BY <3>2 DEF ControlInv, BlockInv
    <3> QED BY <1>2, <3>1, <3>2 DEF PersistSettings
  <2>2. /\ updater[u].step = "persist" /\ UNCHANGED <<settings, kill, asked>>
        /\ \/ Move(u, "publish") /\ UNCHANGED updating
           \/ Move(u, "done") /\ updating' = Nobody
    BY <1>2 DEF PersistSettings
  <2>3. updater[u].next \in [Fields -> Nat] /\ updating = u
    BY <2>2 DEF ControlInv, Update, UpdateInv
  <2>4. updater' \in [Updaters -> Update] /\ \A q \in Updaters : UpdateInv(q)'
    <3>1. CASE Move(u, "publish") /\ UNCHANGED updating
      BY <2>2, <2>3, <3>1 DEF Move, ControlInv, UpdateInv, Update
    <3>2. CASE Move(u, "done") /\ updating' = Nobody
      <4>1. PICK n \in [Fields -> Nat] : n = updater[u].next
        BY <2>3
      <4>2. updater' = [updater EXCEPT ![u].step = "done", ![u].next = n]
        BY <3>2, <4>1 DEF Move, ControlInv, Update
      <4> QED BY <2>2, <2>3, <3>2, <4>2, MovesOn
    <3> QED BY <2>2, <3>1, <3>2
  <2> QED BY <2>1, <2>2, <2>4 DEF ControlInv
<1>3. ASSUME NEW u \in Updaters, PublishSettings(u) PROVE ControlInv'
  <2>1. /\ updating = u /\ updater[u].next = Over(settings, updater[u].edit)
        /\ Valid(updater[u].next) /\ updater[u].next \in [Fields -> Nat]
    BY <1>3 DEF PublishSettings, ControlInv, UpdateInv, Update
  <2>2. asked' = [field |-> settings', kill |-> kill']
    BY <1>3, <2>1 DEF PublishSettings, ControlInv
  <2>3. /\ settings' = updater[u].next /\ updating' = Nobody
        /\ updater' = [updater EXCEPT ![u].step = "model"]
        /\ UNCHANGED <<kill, prefs>>
    BY <1>3 DEF PublishSettings, Move
  <2> QED BY <2>1, <2>2, <2>3 DEF ControlInv, UpdateInv, Update, BlockInv
<1>4. ASSUME NEW u \in Updaters, ReadModel(u) \/ SetClient(u) PROVE ControlInv'
  <2>1. /\ updating' = updating /\ updating # u
        /\ UNCHANGED <<settings, kill, prefs, asked>>
    BY <1>4 DEF ReadModel, SetClient, ControlInv, UpdateInv
  <2>2. PICK n \in [Fields -> Nat] :
          \/ updater' = [updater EXCEPT ![u].step = "client", ![u].next = n]
          \/ updater' = [updater EXCEPT ![u].step = "done", ![u].next = n]
    <3>1. updater[u].next \in [Fields -> Nat] /\ settings \in [Fields -> Nat]
      BY DEF ControlInv, Update
    <3>2. CASE updater' = [updater EXCEPT ![u].step = "client", ![u].next = settings]
      BY <3>1, <3>2
    <3>3. CASE updater' = [updater EXCEPT ![u].step = "done"]
      <4>1. updater' = [updater EXCEPT ![u].step = "done", ![u].next = updater[u].next]
        BY <3>3 DEF ControlInv, Update
      <4> QED BY <3>1, <4>1
    <3> QED BY <1>4, <3>2, <3>3 DEF ReadModel, SetClient, Move
  <2>4. updater' \in [Updaters -> Update] /\ \A q \in Updaters : UpdateInv(q)'
    <3>1. CASE updater' = [updater EXCEPT ![u].step = "client", ![u].next = n]
      BY <2>1, <3>1, MovesOn
    <3>2. CASE updater' = [updater EXCEPT ![u].step = "done", ![u].next = n]
      BY <2>1, <3>2, MovesOn
    <3> QED BY <2>2, <3>1, <3>2
  <2> QED BY <2>1, <2>4 DEF ControlInv, BlockInv
<1>5. ASSUME NEW on \in BOOLEAN, SetKill(on) PROVE ControlInv'
  BY <1>5 DEF SetKill, ControlInv, UpdateInv, Update, BlockInv
<1>6. CASE RestartControl
  <2>1. Over(Env, prefs) \in [Fields -> Nat] /\ Valid(Over(Env, prefs))
    BY RestoredIsValid DEF ControlInv
  <2>2. updater' \in [Updaters -> Update]
    BY <1>6 DEF RestartControl, NoUpdate, Update
  <2>3. ASSUME NEW u \in Updaters PROVE UpdateInv(u)'
    <3>1. updater'[u].step \in {"idle", "done"} /\ updating' = Nobody
      BY <1>6 DEF RestartControl, NoUpdate
    <3> QED BY <3>1 DEF UpdateInv
  <2> QED BY <1>6, <2>1, <2>2, <2>3 DEF RestartControl, ControlInv, BlockInv
<1>7. CASE UNCHANGED controlVars
  BY <1>7 DEF controlVars, ControlInv, UpdateInv, BlockInv
<1> QED BY <1>1, <1>2, <1>3, <1>4, <1>5, <1>6, <1>7 DEF ControlNext

(* For any number of requests, edits and environment: no published edit is   *)
(* undone, and no restart refuses what was saved.                            *)
THEOREM SettingsAlwaysKept == ControlSpec => []SettingsKept
<1>1. ControlInv => SettingsKept
  BY RestoredIsValid DEF ControlInv, SettingsKept, EditsKept, RestartAccepted
<1> QED BY ControlStarts, ControlSteps, <1>1, PTL DEF ControlSpec

-----------------------------------------------------------------------------
(* The automation of a position.  Every reversal was decided while the day   *)
(* still had room for one, and only one run at a time is past its decision;  *)
(* midnight can only make room.                                              *)

OnDay(d) == {i \in DOMAIN reversals : DayOf(reversals[i]) = d}

ReversalInv ==
  /\ time \in 0..Horizon
  /\ reversals \in Seq(0..Horizon)
  /\ \A i \in DOMAIN reversals : reversals[i] <= time
  /\ signal.count \in Nat
  /\ reversing \in BOOLEAN
  /\ reversing => ~Spent
  /\ \A d \in Nat : Cardinality(OnDay(d)) <= MaxReversalsPerDay

(* The smaller of two numbers.                                               *)
LEMMA MinOfTwo ==
  ASSUME NEW a \in Int, NEW b \in Int
  PROVE  Min({a, b}) = IF a <= b THEN a ELSE b
BY DEF Min

(* The larger of two numbers.                                                *)
LEMMA MaxOfTwo ==
  ASSUME NEW a \in Int, NEW b \in Int
  PROVE  Max({a, b}) = IF a >= b THEN a ELSE b
BY DEF Max

(* Days come one after the other.                                            *)
LEMMA DaysInOrder ==
  ASSUME NEW s \in Nat, NEW t \in Nat, s <= t
  PROVE  DayOf(s) \in Nat /\ DayOf(t) \in Nat /\ DayOf(s) <= DayOf(t)
BY AutomationAssumption DEF DayOf

(* The reversals of a day are finitely many.                                 *)
LEMMA OnDayFinite ==
  ASSUME NEW d, reversals \in Seq(0..Horizon)
  PROVE  IsFiniteSet(OnDay(d)) /\ Cardinality(OnDay(d)) \in Nat
<1>1. IsFiniteSet(1..Len(reversals))
  BY FS_Interval
<1>2. OnDay(d) \subseteq 1..Len(reversals)
  BY DEF OnDay
<1> QED BY <1>1, <1>2, FS_Subset, FS_CardinalityType

(* The invariant holds before the first verdict.                             *)
LEMMA ReversalStarts == AutomationInit => ReversalInv
<1> SUFFICES ASSUME AutomationInit PROVE ReversalInv
  OBVIOUS
<1>1. \A d : OnDay(d) = {}
  BY DEF AutomationInit, OnDay
<1>2. \A d \in Nat : Cardinality(OnDay(d)) = 0
  BY <1>1, FS_EmptySet
<1>3. time \in 0..Horizon /\ signal.count \in Nat /\ reversing = FALSE
  BY AutomationAssumption DEF AutomationInit, NoSignal
<1>4. reversals \in Seq(0..Horizon) /\ DOMAIN reversals = {}
  BY DEF AutomationInit
<1>5. \A d \in Nat : Cardinality(OnDay(d)) <= MaxReversalsPerDay
  BY <1>2, AutomationAssumption
<1>6. reversing \in BOOLEAN /\ (reversing => ~Spent)
  BY <1>3
<1>7. \A i \in DOMAIN reversals : reversals[i] <= time
  BY <1>4
<1> QED BY <1>3, <1>4, <1>5, <1>6, <1>7 DEF ReversalInv

(* A step that touches neither the ledger's reversals nor the run past its   *)
(* decision keeps the invariant.                                             *)
LEMMA ReversalUntouched ==
  ASSUME ReversalInv, UNCHANGED <<time, reversals, reversing>>, signal'.count \in Nat
  PROVE  ReversalInv'
<1>1. \A d : OnDay(d)' = OnDay(d)
  BY DEF OnDay
<1>2. Spent' = Spent
  BY DEF Spent, ReversedToday, DayOf
<1> QED BY <1>1, <1>2 DEF ReversalInv

(* Verdicts, reversals, polls and midnight keep it.                          *)
LEMMA ReversalSteps == ReversalInv /\ [AutomationNext]_automationVars => ReversalInv'
<1> SUFFICES ASSUME ReversalInv, [AutomationNext]_automationVars PROVE ReversalInv'
  OBVIOUS
<1>1. ASSUME NEW side \in Sides \cup {"flat"}, Verdict(side) PROVE ReversalInv'
  <2>1. UNCHANGED <<time, reversals>>
    BY <1>1 DEF Verdict
  <2>2. CASE UNCHANGED <<signal, reversing>>
    BY <2>1, <2>2, ReversalUntouched DEF ReversalInv
  <2>3. CASE /\ signal' \in {NoSignal, Observed(side)}
             /\ IF signal'.count >= ReverseConfirmations THEN reversing' = TRUE
                                                         ELSE UNCHANGED reversing
    <3>1. Min({ReverseConfirmations, signal.count + 1}) \in Nat
      BY AutomationAssumption, MinOfTwo DEF ReversalInv
    <3>4. signal'.count \in Nat /\ (Spent => signal'.count = 0)
      BY <2>3, <3>1 DEF Observed, NoSignal
    <3>5. signal'.count >= ReverseConfirmations => ~Spent
      BY <3>4, AutomationAssumption
    <3>6. reversing' \in BOOLEAN /\ (reversing' => signal'.count >= ReverseConfirmations)
      <4>1. reversing = FALSE
        BY <1>1 DEF Verdict, ReversalInv
      <4>2. CASE signal'.count >= ReverseConfirmations
        BY <2>3, <4>2
      <4>3. CASE ~(signal'.count >= ReverseConfirmations)
        BY <2>3, <4>1, <4>3
      <4> QED BY <4>2, <4>3
    <3>2. \A d : OnDay(d)' = OnDay(d)
      BY <2>1 DEF OnDay
    <3>3. Spent' = Spent
      BY <2>1 DEF Spent, ReversedToday, DayOf
    <3> QED BY <2>1, <3>2, <3>3, <3>4, <3>5, <3>6 DEF ReversalInv
  <2> QED BY <1>1, <2>2, <2>3 DEF Verdict
<1>2. CASE ReverseRun
  <2>1. reversing /\ reversing' = FALSE /\ UNCHANGED time
    BY <1>2 DEF ReverseRun
  <2>2. CASE UNCHANGED <<signal, reversals>>
    <3>1. \A d : OnDay(d)' = OnDay(d)
      BY <2>2 DEF OnDay
    <3> QED BY <2>1, <2>2, <3>1 DEF ReversalInv
  <2>3. CASE reversals' = Append(reversals, time) /\ signal' = NoSignal
    <3> DEFINE n == Len(reversals) + 1
    <3>1. /\ reversals' \in Seq(0..Horizon) /\ DOMAIN reversals' = 1..n
          /\ reversals'[n] = time /\ n \notin DOMAIN reversals
          /\ \A i \in DOMAIN reversals : i \in DOMAIN reversals' /\ reversals'[i] = reversals[i]
          /\ DOMAIN reversals' = DOMAIN reversals \cup {n}
      BY <2>3 DEF ReversalInv
    <3> HIDE DEF n
    <3>2. ASSUME NEW d \in Nat PROVE Cardinality(OnDay(d)') <= MaxReversalsPerDay
      <4>1. CASE d = DayOf(time)
        <5>1. OnDay(d)' = OnDay(d) \cup {n}
          BY <3>1, <4>1 DEF OnDay, DayOf
        <5>2. Cardinality(OnDay(d)) < MaxReversalsPerDay
          <6>1. ~Spent /\ ReversedToday = OnDay(d)
            BY <2>1, <4>1 DEF ReversalInv, ReversedToday, OnDay
          <6>2. Cardinality(OnDay(d)) \in Nat
            BY OnDayFinite DEF ReversalInv
          <6> QED BY <6>1, <6>2, AutomationAssumption DEF Spent
        <5>3. n \notin OnDay(d)
          BY <3>1 DEF OnDay
        <5>4. IsFiniteSet(OnDay(d)) /\ Cardinality(OnDay(d)) \in Nat
          BY OnDayFinite DEF ReversalInv
        <5>5. Cardinality(OnDay(d) \cup {n}) = Cardinality(OnDay(d)) + 1
          BY <5>3, <5>4, FS_AddElement
        <5> QED BY <5>1, <5>2, <5>4, <5>5, AutomationAssumption
      <4>2. CASE d # DayOf(time)
        <5>1. OnDay(d)' = OnDay(d)
          BY <3>1, <4>2 DEF OnDay, DayOf
        <5> QED BY <5>1 DEF ReversalInv
      <4> QED BY <4>1, <4>2
    <3>3. \A i \in DOMAIN reversals' : reversals'[i] <= time'
      <4>1. time \in Int /\ \A i \in DOMAIN reversals : reversals[i] <= time
        BY AutomationAssumption DEF ReversalInv
      <4> QED BY <2>1, <3>1, <4>1
    <3> QED BY <2>1, <2>3, <3>1, <3>2, <3>3 DEF ReversalInv, NoSignal
  <2> QED BY <1>2, <2>2, <2>3 DEF ReverseRun
<1>3. CASE Tick
  <2>1. /\ time' = time + 1 /\ time' \in 0..Horizon
        /\ UNCHANGED <<reversals, signal, reversing>>
    BY <1>3, AutomationAssumption DEF Tick, ReversalInv
  <2>2. \A d : OnDay(d)' = OnDay(d)
    BY <2>1 DEF OnDay
  <2>3. ASSUME ~Spent PROVE ~Spent'
    <3>1. ReversedToday' = OnDay(DayOf(time'))
      BY <2>1 DEF ReversedToday, OnDay, DayOf
    <3>2. CASE DayOf(time') = DayOf(time)
      BY <2>3, <3>1, <3>2 DEF Spent, ReversedToday, OnDay
    <3>3. CASE DayOf(time') # DayOf(time)
      <4>1. PICK now \in Nat : now = time
        BY DEF ReversalInv
      <4>2. DayOf(now) <= DayOf(now + 1) /\ DayOf(now) \in Nat /\ DayOf(now + 1) \in Nat
        BY DaysInOrder
      <4>3. ASSUME NEW i \in DOMAIN reversals PROVE DayOf(reversals[i]) # DayOf(time')
        <5>1. PICK then \in Nat : then = reversals[i]
          BY AutomationAssumption DEF ReversalInv
        <5>2. then <= now
          BY <4>1, <5>1 DEF ReversalInv
        <5>3. DayOf(then) <= DayOf(now) /\ DayOf(then) \in Nat
          BY <5>2, DaysInOrder
        <5>4. DayOf(now + 1) # DayOf(now)
          BY <2>1, <3>3, <4>1
        <5>5. DayOf(then) # DayOf(now + 1)
          BY <4>2, <5>3, <5>4
        <5> QED BY <2>1, <4>1, <5>1, <5>5
      <4>4. ReversedToday' = {}
        BY <3>1, <4>3 DEF OnDay
      <4> QED BY <4>4, FS_EmptySet, AutomationAssumption DEF Spent
    <3> QED BY <3>2, <3>3
  <2>4. \A i \in DOMAIN reversals : reversals[i] <= time'
    <3>1. time \in Int /\ \A i \in DOMAIN reversals : /\ reversals[i] \in Int
                                                    /\ reversals[i] <= time
      BY AutomationAssumption DEF ReversalInv
    <3> QED BY <2>1, <3>1
  <2> QED BY <2>1, <2>2, <2>3, <2>4 DEF ReversalInv
<1>4. CASE \/ PollDisabled \/ PollEmpty \/ PollFails \/ Poll \/ Toggle \/ ClosedElsewhere
           \/ UNCHANGED automationVars
  <2>1. UNCHANGED <<time, reversals, reversing, signal>>
    BY <1>4 DEF PollDisabled, PollEmpty, PollFails, Poll, Toggle, ClosedElsewhere,
       automationVars
  <2> QED BY <2>1, ReversalUntouched DEF ReversalInv
<1> QED BY <1>1, <1>2, <1>3, <1>4 DEF AutomationNext

(* For any limit, cooldown and confirmations, and any number of days: no day *)
(* has more reversals than the limit.                                        *)
THEOREM ReversalsAlwaysLimited == AutomationSpec => []ReversalsLimited
<1>1. ReversalInv => ReversalsLimited
  <2> SUFFICES ASSUME ReversalInv, NEW d \in 0..DayOf(Horizon)
               PROVE  Cardinality(OnDay(d)) <= MaxReversalsPerDay
    BY DEF ReversalsLimited, OnDay
  <2> QED BY DEF ReversalInv
<1> QED BY ReversalStarts, ReversalSteps, <1>1, PTL DEF AutomationSpec

-----------------------------------------------------------------------------
(* The exit manager's series.  The confirmations and samples of one never    *)
(* outrun the polls that found its position; and while the manager is off it *)
(* has none, which is why a poll may forget the polls and keep the series.   *)
Measured(s) ==
  /\ series[s].samples \in 0..MinSamples /\ series[s].samples <= watched[s]
  /\ series[s].confirmations \in 0..ExitConfirmations
  /\ series[s].confirmations <= watched[s]

EvidenceInv ==
  /\ position \in Sides \cup {"none"}
  /\ series \in [Sides -> [samples : Nat, peak : Int, confirmations : Nat]]
  /\ watched \in [Sides -> Nat]
  /\ \A s \in Sides : Measured(s)
  /\ ~wasEnabled => series = Nothing

(* A poll counts one sample, and one confirmation or none.                   *)
LEMMA EvaluatedCounts ==
  ASSUME NEW s \in [samples : Nat, peak : Int, confirmations : Nat], NEW r \in Int,
         NEW trail
  PROVE  LET e == Evaluated(s, r, trail) IN
         /\ e \in [samples : Nat, peak : Int, confirmations : Nat]
         /\ e.samples <= s.samples + 1 /\ e.samples <= MinSamples
         /\ e.confirmations <= s.confirmations + 1
         /\ e.confirmations <= ExitConfirmations
<1> DEFINE n == Min({MinSamples, s.samples + 1})
           p == Max({s.peak, r})
           m == Min({ExitConfirmations, s.confirmations + 1})
           taken == [s EXCEPT !.samples = n, !.peak = p]
           c == IF ExitReason(taken, r, trail) THEN m ELSE 0
<1>1. n \in Nat /\ n <= MinSamples /\ n <= s.samples + 1
  BY MinOfTwo, AutomationAssumption
<1>2. m \in Nat /\ m <= ExitConfirmations /\ m <= s.confirmations + 1
  BY MinOfTwo, AutomationAssumption
<1>3. p \in Int
  BY MaxOfTwo
<1>4. taken.confirmations = s.confirmations
  OBVIOUS
<1>5. Evaluated(s, r, trail) = [taken EXCEPT !.confirmations = c]
  BY <1>4 DEF Evaluated
<1>6. taken \in [samples : Nat, peak : Int, confirmations : Nat] /\ taken.samples = n
  BY <1>1, <1>3
<1>7. c \in Nat /\ c <= ExitConfirmations /\ c <= s.confirmations + 1
  BY <1>2, AutomationAssumption
<1> HIDE DEF n, p, m, taken, c
<1> QED BY <1>1, <1>5, <1>6, <1>7

(* The polls are counted as far as a sample or a confirmation needs.         *)
LEMMA WatchedCounts ==
  ASSUME NEW n \in Nat
  PROVE  /\ Watched(n) \in Nat
         /\ \A k \in Nat : k <= n + 1 /\ (k <= MinSamples \/ k <= ExitConfirmations)
                             => k <= Watched(n)
BY MinOfTwo, MaxOfTwo, AutomationAssumption DEF Watched

(* Where nothing has been seen there is nothing to be recent.                *)
LEMMA NothingMeasured ==
  ASSUME series' = Nothing, watched' = Unwatched
  PROVE  /\ series' \in [Sides -> [samples : Nat, peak : Int, confirmations : Nat]]
         /\ watched' \in [Sides -> Nat] /\ \A s \in Sides : Measured(s)'
BY AutomationAssumption DEF Nothing, Unwatched, Unseen, Measured

(* Polls, verdicts, settings and closes keep it.                             *)
LEMMA EvidenceSteps == EvidenceInv /\ [AutomationNext]_automationVars => EvidenceInv'
<1> SUFFICES ASSUME EvidenceInv, [AutomationNext]_automationVars PROVE EvidenceInv'
  OBVIOUS
<1>1. CASE PollDisabled
  <2>1. series' = Nothing /\ watched' = Unwatched /\ UNCHANGED position
    BY <1>1 DEF PollDisabled, EvidenceInv
  <2> QED BY <2>1, NothingMeasured DEF EvidenceInv
<1>2. CASE PollEmpty
  BY <1>2, NothingMeasured DEF PollEmpty, EvidenceInv
<1>3. CASE PollFails
  <2>1. /\ position \in Sides /\ UNCHANGED position /\ wasEnabled' = TRUE
        /\ series' = [s \in Sides |-> IF s = position THEN series[position] ELSE Unseen]
        /\ watched' = [s \in Sides |-> IF s = position THEN watched[position] ELSE 0]
    BY <1>3 DEF PollFails, OnlyHeld, EvidenceInv
  <2>2. \A s \in Sides : Measured(s)'
    BY <2>1, AutomationAssumption DEF EvidenceInv, Measured, Unseen
  <2> QED BY <2>1, <2>2 DEF EvidenceInv, Unseen
<1>4. CASE Poll
  <2>1. position \in Sides /\ wasEnabled' = TRUE
    BY <1>4 DEF Poll, EvidenceInv
  <2>2. PICK r \in Marks, trail \in Trails :
          LET s == Evaluated(series[position], r, trail)
          IN \/ /\ series' = OnlyHeld(s, Unseen)
                /\ watched' = OnlyHeld(Watched(watched[position]), 0)
                /\ UNCHANGED position
             \/ series' = Nothing /\ watched' = Unwatched /\ position' = "none"
    BY <1>4 DEF Poll
  <2>3. CASE series' = Nothing /\ watched' = Unwatched /\ position' = "none"
    BY <2>1, <2>3, NothingMeasured DEF EvidenceInv
  <2>4. CASE /\ series' = OnlyHeld(Evaluated(series[position], r, trail), Unseen)
             /\ watched' = OnlyHeld(Watched(watched[position]), 0)
             /\ UNCHANGED position
    <3> DEFINE e == Evaluated(series[position], r, trail)
               w == Watched(watched[position])
    <3>1. /\ e \in [samples : Nat, peak : Int, confirmations : Nat]
          /\ e.samples <= series[position].samples + 1 /\ e.samples <= MinSamples
          /\ e.confirmations <= series[position].confirmations + 1
          /\ e.confirmations <= ExitConfirmations
      <4>1. r \in Int /\ series[position] \in [samples : Nat, peak : Int, confirmations : Nat]
        BY <2>1, AutomationAssumption DEF EvidenceInv
      <4> QED BY <4>1, EvaluatedCounts
    <3>2. watched[position] \in Nat /\ Measured(position)
      BY <2>1 DEF EvidenceInv
    <3>3. w \in Nat /\ e.samples <= w /\ e.confirmations <= w
      <4>1. e.samples <= watched[position] + 1 /\ e.confirmations <= watched[position] + 1
        BY <3>1, <3>2 DEF Measured
      <4>2. e.samples \in Nat /\ e.confirmations \in Nat
        BY <3>1
      <4> HIDE DEF e
      <4> QED BY <3>1, <3>2, <4>1, <4>2, WatchedCounts
    <3>4. /\ series' = [s \in Sides |-> IF s = position THEN e ELSE Unseen]
          /\ watched' = [s \in Sides |-> IF s = position THEN w ELSE 0]
      BY <2>4 DEF OnlyHeld
    <3> HIDE DEF e, w
    <3>5. \A s \in Sides : Measured(s)'
      BY <3>1, <3>3, <3>4, AutomationAssumption DEF Measured, Unseen
    <3> QED BY <2>1, <2>4, <3>1, <3>3, <3>4, <3>5 DEF EvidenceInv, Unseen
  <2> QED BY <2>2, <2>3, <2>4
<1>5. CASE \/ \E side \in Sides \cup {"flat"} : Verdict(side)
           \/ ReverseRun \/ Tick \/ Toggle \/ ClosedElsewhere \/ UNCHANGED automationVars
  <2>1. UNCHANGED <<wasEnabled, series, watched>>
    BY <1>5 DEF Verdict, ReverseRun, Tick, Toggle, ClosedElsewhere, automationVars
  <2>2. position' \in Sides \cup {"none"}
    <3>1. \A s \in Sides : Opposite(s) \in Sides
      BY DEF Opposite, Sides
    <3> QED BY <1>5, <3>1 DEF Verdict, ReverseRun, Tick, Toggle, ClosedElsewhere,
               automationVars, EvidenceInv
  <2> QED BY <2>1, <2>2 DEF EvidenceInv, Measured, Nothing
<1> QED BY <1>1, <1>2, <1>3, <1>4, <1>5 DEF AutomationNext

(* Whatever the prices, the thresholds and the settings: what an exit is     *)
(* based on was measured since the manager last saw there was no such        *)
(* position, or was off.                                                     *)
THEOREM EvidenceAlwaysRecent == AutomationSpec => []EvidenceIsRecent
<1>1. AutomationInit => EvidenceInv
  BY AutomationAssumption DEF AutomationInit, EvidenceInv, Measured, Unseen, Nothing
<1>2. EvidenceInv => EvidenceIsRecent
  BY DEF EvidenceInv, EvidenceIsRecent, Measured
<1> QED BY <1>1, <1>2, EvidenceSteps, PTL DEF AutomationSpec

-----------------------------------------------------------------------------
(* The budgets of the language model.  What a day still has to expect are    *)
(* the allowances of the calls let through on it, those whose reservation    *)
(* another day has dropped included; and what the store will have after all  *)
(* that is queued is no more than what the tracker has counted.              *)
LetThrough(d) == {c \in Calls : call[c].on = d}

CallRecords ==
  [step : {"idle", "reserve", "session", "invoke", "sleep", "record", "rejected", "done"},
   ts : Nat, on : Nat, attempt : Nat, window : Nat, used : Nat, probe : BOOLEAN]

BudgetTypes ==
  /\ call \in [Calls -> CallRecords] /\ held \in [Calls -> Nat]
  /\ session \in [window : Nat, calls : Int, tokens : Int, reserved : Int]
  /\ circuit \in [failures : Int, cooling : BOOLEAN, half : BOOLEAN] /\ today \in Days
  /\ {totals, saved, excess} \subseteq [Days -> Nat]
  /\ queue \in Seq(Nat \X Nat)

(* A call of today has its reservation.                                      *)
TodayIsHeld ==
  \A c \in Calls : /\ call[c].on <= today
                   /\ call[c].on = today => held[c] = today

DayIsCovered(d) ==
  totals[d] + Allowance * Cardinality(LetThrough(d)) <= TokenBudget + excess[d]

(* Tokens of day d in the i-th event of the queue. *)
Queued(d, i) == IF queue[i][1] = d THEN queue[i][2] ELSE 0

(* An account of day d as the queue is saved, event by event: it begins with *)
(* what the store has, and ends within what the tracker has counted.         *)
Account(d, a) ==
  /\ a \in [0..Len(queue) -> Nat]
  /\ saved[d] <= a[0] /\ a[Len(queue)] <= totals[d]
  /\ \A i \in 1..Len(queue), j \in 0..Len(queue) : j < i => a[j] + Queued(d, i) <= a[i]

StoreIsBehind == \A d \in Days : \E a : Account(d, a)

BudgetInv ==
  /\ BudgetTypes /\ TodayIsHeld /\ TryIsHeld /\ StoreIsBehind
  /\ \A d \in Days : DayIsCovered(d)

(* The calls let through on a day are finitely many.                         *)
LEMMA CallsCount ==
  ASSUME NEW S \in SUBSET Calls
  PROVE  IsFiniteSet(S) /\ Cardinality(S) \in Nat
BY LlmBudgetAssumption, FS_Subset, FS_CardinalityType

(* More calls reserve more.                                                  *)
LEMMA ReserveGrows ==
  ASSUME NEW S \in SUBSET Calls, NEW T \in SUBSET Calls, S \subseteq T
  PROVE  /\ Allowance * Cardinality(S) \in Nat
         /\ Allowance * Cardinality(S) <= Allowance * Cardinality(T)
<1>1. /\ Cardinality(S) \in Nat /\ Cardinality(T) \in Nat
      /\ Cardinality(S) <= Cardinality(T)
  BY CallsCount, FS_Subset
<1>2. \A a, m, n \in Nat : m <= n => a * m \in Nat /\ a * m <= a * n
  OBVIOUS
<1> QED BY <1>1, <1>2, LlmBudgetAssumption

(* One call reserves one allowance.                                          *)
LEMMA ReserveOne ==
  ASSUME NEW S \in SUBSET Calls, NEW c \in Calls
  PROVE  /\ c \notin S => Allowance * Cardinality(S \cup {c})
                            = Allowance * Cardinality(S) + Allowance
         /\ c \in S => Allowance * Cardinality(S)
                            = Allowance * Cardinality(S \ {c}) + Allowance
<1>1. \A a, n \in Nat : a * (n + 1) = a * n + a
  OBVIOUS
<1>2. IsFiniteSet(S) /\ Cardinality(S) \in Nat /\ Cardinality(S \ {c}) \in Nat
  BY CallsCount
<1>3. CASE c \notin S
  <2>1. Cardinality(S \cup {c}) = Cardinality(S) + 1
    BY <1>2, <1>3, FS_AddElement
  <2> QED BY <1>1, <1>2, <1>3, <2>1, LlmBudgetAssumption
<1>4. CASE c \in S
  <2>1. Cardinality(S \ {c}) = Cardinality(S) - 1
    BY <1>2, <1>4, FS_RemoveElement
  <2>2. Cardinality(S) = Cardinality(S \ {c}) + 1
    BY <1>2, <2>1
  <2> QED BY <1>1, <1>2, <1>4, <2>2, LlmBudgetAssumption
<1> QED BY <1>3, <1>4

(* A store that is behind has no more of a day than the tracker.             *)
LEMMA BehindMeansLess ==
  ASSUME BudgetTypes, NEW d \in Days, NEW a, Account(d, a)
  PROVE  saved[d] <= totals[d]
<1>1. saved[d] \in Nat /\ totals[d] \in Nat /\ Len(queue) \in Nat
  BY DEF BudgetTypes
<1>2. \A i \in 1..Len(queue) : Queued(d, i) \in Nat
  BY DEF BudgetTypes, Queued
<1>3. saved[d] <= a[0] /\ a[Len(queue)] <= totals[d] /\ a \in [0..Len(queue) -> Nat]
  BY DEF Account
<1>4. a[0] <= a[Len(queue)]
  <2>1. CASE Len(queue) = 0
    BY <1>3, <2>1
  <2>2. CASE Len(queue) # 0
    <3>1. Len(queue) \in 1..Len(queue) /\ 0 \in 0..Len(queue) /\ 0 < Len(queue)
      BY <1>1, <2>2
    <3>2. a[0] + Queued(d, Len(queue)) <= a[Len(queue)]
      BY <3>1 DEF Account
    <3> QED BY <1>1, <1>2, <1>3, <3>1, <3>2
  <2> QED BY <2>1, <2>2
<1> QED BY <1>1, <1>3, <1>4

(* An event saved or given up: the account begins one event later.           *)
LEMMA AccountSaved ==
  ASSUME BudgetTypes, NEW d \in Days, NEW a, Account(d, a), SaveUsage
  PROVE  \E b : Account(d, b)'
<1> PICK n : n = Len(queue)
  OBVIOUS
<1> PICK b : b = [i \in 0..(n - 1) |-> a[i + 1]]
  OBVIOUS
<1>1. n \in Nat /\ n # 0 /\ queue \in Seq(Nat \X Nat)
  BY DEF BudgetTypes, SaveUsage
<1>2. /\ queue' = Tail(queue) /\ UNCHANGED totals
      /\ \/ saved' = saved
         \/ saved' = [saved EXCEPT ![queue[1][1]] = @ + queue[1][2]]
  BY <1>1 DEF SaveUsage
<1>3. Len(queue') = n - 1 /\ \A i \in 1..(n - 1) : queue'[i] = queue[i + 1]
  BY <1>1, <1>2
<1>4. queue[1][2] \in Nat /\ saved \in [Days -> Nat]
  BY <1>1 DEF BudgetTypes
<1>5. saved'[d] <= saved[d] + Queued(d, 1) /\ Queued(d, 1) \in Nat
  BY <1>2, <1>4 DEF Queued
<1>6. /\ a \in [0..n -> Nat] /\ saved[d] <= a[0] /\ a[n] <= totals[d]
      /\ \A i \in 1..n, j \in 0..n : j < i => a[j] + Queued(d, i) <= a[i]
  BY DEF Account
<1>7. a[0] + Queued(d, 1) <= a[1]
  BY <1>1, <1>6
<1>8. \A i \in 1..(n - 1) : Queued(d, i)' = Queued(d, i + 1)
  BY <1>3 DEF Queued
<1>9. b \in [0..(n - 1) -> Nat] /\ b[0] = a[1] /\ b[n - 1] = a[n]
  BY <1>1, <1>6
<1>10. saved'[d] <= b[0]
  <2>1. saved'[d] \in Nat /\ saved[d] \in Nat
    BY <1>2, <1>4
  <2>2. a[0] \in Nat /\ a[1] \in Nat
    BY <1>1, <1>6
  <2> QED BY <1>5, <1>6, <1>7, <1>9, <2>1, <2>2
<1>11. ASSUME NEW i \in 1..(n - 1), NEW j \in 0..(n - 1), j < i
       PROVE  b[j] + Queued(d, i)' <= b[i]
  <2>1. i + 1 \in 1..n /\ j + 1 \in 0..n /\ j + 1 < i + 1
    BY <1>1, <1>11
  <2>2. a[j + 1] + Queued(d, i + 1) <= a[i + 1]
    BY <1>6, <2>1
  <2>3. b[j] = a[j + 1] /\ b[i] = a[i + 1]
    BY <1>1
  <2> QED BY <1>8, <2>2, <2>3
<1>12. UNCHANGED totals /\ b[n - 1] <= totals'[d]
  BY <1>2, <1>6, <1>9
<1>13. Account(d, b)'
  BY <1>3, <1>9, <1>10, <1>11, <1>12 DEF Account
<1> QED BY <1>13

(* The store and the queue as they are, and a total that has not shrunk.     *)
LEMMA AccountKept ==
  ASSUME BudgetTypes, NEW d \in Days, NEW a, Account(d, a),
         UNCHANGED <<saved, queue>>, totals' \in [Days -> Nat], totals[d] <= totals'[d]
  PROVE  \E b : Account(d, b)'
<1>1. \A i : Queued(d, i)' = Queued(d, i)
  BY DEF Queued
<1>2. a[Len(queue)] \in Nat /\ totals[d] \in Nat /\ totals'[d] \in Nat
  <2>1. Len(queue) \in Nat /\ totals \in [Days -> Nat]
    BY DEF BudgetTypes
  <2>2. a \in [0..Len(queue) -> Nat]
    BY DEF Account
  <2> QED BY <2>1, <2>2
<1>3. Account(d, a)'
  BY <1>1, <1>2 DEF Account
<1> QED BY <1>3

(* An event more in the queue, and its tokens more in the total of its day.  *)
LEMMA AccountQueued ==
  ASSUME BudgetTypes, NEW d \in Days, NEW a, Account(d, a), NEW e \in Nat \X Nat,
         UNCHANGED saved, queue' = Append(queue, e), totals' \in [Days -> Nat],
         totals'[d] = totals[d] + (IF e[1] = d THEN e[2] ELSE 0)
  PROVE  \E b : Account(d, b)'
<1> PICK n : n = Len(queue)
  OBVIOUS
<1> PICK more : more = IF e[1] = d THEN e[2] ELSE 0
  OBVIOUS
<1> PICK b : b = [i \in 0..(n + 1) |-> IF i <= n THEN a[i] ELSE totals'[d]]
  OBVIOUS
<1>1. n \in Nat /\ queue \in Seq(Nat \X Nat) /\ totals[d] \in Nat /\ more \in Nat
  BY DEF BudgetTypes
<1>2. /\ Len(queue') = n + 1 /\ queue'[n + 1] = e
      /\ \A i \in 1..n : queue'[i] = queue[i]
  BY <1>1
<1>3. /\ a \in [0..n -> Nat] /\ saved[d] <= a[0] /\ a[n] <= totals[d]
      /\ \A i \in 1..n, j \in 0..n : j < i => a[j] + Queued(d, i) <= a[i]
  BY DEF Account
<1>4. /\ \A i \in 1..n : Queued(d, i)' = Queued(d, i) /\ Queued(d, i) \in Nat
      /\ Queued(d, n + 1)' = more
  BY <1>1, <1>2 DEF Queued
<1>5. totals'[d] = totals[d] + more
  BY <1>1
<1>6. \A j \in 0..n : a[j] <= totals[d]
  <2> SUFFICES ASSUME NEW j \in 0..n PROVE a[j] <= totals[d]
    OBVIOUS
  <2>1. CASE j = n
    BY <1>3, <2>1
  <2>2. CASE j # n
    <3>1. n \in 1..n /\ j < n
      BY <1>1, <2>2
    <3>2. a[j] + Queued(d, n) <= a[n] /\ Queued(d, n) \in Nat
      BY <1>3, <1>4, <3>1
    <3>3. a[j] \in Nat /\ a[n] \in Nat
      <4>1. n \in 0..n /\ j \in 0..n /\ a \in [0..n -> Nat]
        BY <1>1, <1>3
      <4> QED BY <4>1
    <3> QED BY <1>1, <1>3, <3>2, <3>3
  <2> QED BY <2>1, <2>2
<1>7. /\ b \in [0..(n + 1) -> Nat] /\ b[n + 1] = totals'[d]
      /\ \A i \in 0..n : b[i] = a[i]
  BY <1>1, <1>3, <1>5
<1>8. ASSUME NEW i \in 1..(n + 1), NEW j \in 0..(n + 1), j < i
      PROVE  b[j] + Queued(d, i)' <= b[i]
  <2>1. CASE i = n + 1
    <3>1. j \in 0..n /\ b[j] = a[j] /\ a[j] \in Nat /\ a[j] <= totals[d]
      BY <1>1, <1>3, <1>6, <1>7, <1>8, <2>1
    <3> QED BY <1>1, <1>4, <1>5, <1>7, <2>1, <3>1
  <2>2. CASE i # n + 1
    <3>1. i \in Int /\ j \in Int /\ 1 <= i /\ i <= n + 1 /\ 0 <= j
      BY <1>1
    <3>3. n \in Int /\ i <= n
      BY <1>1, <2>2, <3>1
    <3>4. i \in 1..n /\ i \in 0..n
      BY <3>1, <3>3
    <3>5. j < i
      BY <1>8
    <3>6. j <= n
      BY <3>1, <3>3, <3>5
    <3>2. i \in 1..n /\ i \in 0..n /\ j \in 0..n
      BY <3>1, <3>3, <3>4, <3>6
    <3> QED BY <1>3, <1>4, <1>7, <1>8, <3>2
  <2> QED BY <2>1, <2>2
<1>9. saved'[d] <= b[0]
  BY <1>1, <1>3, <1>7
<1>10. b[n + 1] <= totals'[d]
  BY <1>1, <1>5, <1>7
<1>11. Account(d, b)'
  BY <1>2, <1>7, <1>8, <1>9, <1>10 DEF Account
<1> QED BY <1>11

(* One call changes to r, the others are as they were.                       *)
Becomes(c, r) == call' = [call EXCEPT ![c] = r]

(* What of the new state is enough where nothing is counted: who was let     *)
(* through when, today's reservations, and somebody to have the try.         *)
LEMMA NothingCounted ==
  ASSUME BudgetInv, NEW c \in Calls, NEW r \in CallRecords, Becomes(c, r),
         r.on = call[c].on, UNCHANGED <<today, totals, queue, saved, excess>>,
         session' \in [window : Nat, calls : Int, tokens : Int, reserved : Int],
         circuit' \in [failures : Int, cooling : BOOLEAN, half : BOOLEAN],
         held' \in [Calls -> Nat],
         \A e \in Calls : held[e] = today => held'[e] = today,
         TryIsHeld'
  PROVE  BudgetInv'
<1>1. call' \in [Calls -> CallRecords] /\ \A e \in Calls : call'[e].on = call[e].on
  BY DEF Becomes, BudgetInv, BudgetTypes
<1>2. BudgetTypes'
  BY <1>1 DEF BudgetInv, BudgetTypes
<1>3. TodayIsHeld'
  BY <1>1 DEF BudgetInv, TodayIsHeld
<1>4. \A d : LetThrough(d)' = LetThrough(d)
  BY <1>1 DEF LetThrough
<1>5. \A d \in Days : DayIsCovered(d)'
  BY <1>4 DEF BudgetInv, DayIsCovered
<1>6. StoreIsBehind'
  BY DEF BudgetInv, StoreIsBehind, Account, Queued
<1> QED BY <1>2, <1>3, <1>5, <1>6 DEF BudgetInv

(* The call has the try, and will end it.                                    *)
Trying(c) ==
  call[c].probe /\ call[c].step \in {"reserve", "session", "rejected", "invoke"}

(* The try stays with whoever has it.                                        *)
LEMMA TryStays ==
  ASSUME BudgetInv, NEW c \in Calls, NEW r \in CallRecords, Becomes(c, r),
         circuit'.half => circuit.half,
         Trying(c) => r.probe /\ r.step \in {"reserve", "session", "rejected", "invoke"}
  PROVE  TryIsHeld'
<1> SUFFICES ASSUME circuit'.half PROVE \E e \in Calls : Trying(e)'
  BY DEF TryIsHeld, Trying
<1>1. PICK e \in Calls : Trying(e)
  BY DEF BudgetInv, TryIsHeld, Trying
<1>2. call'[e] = IF e = c THEN r ELSE call[e]
  BY DEF Becomes, BudgetInv, BudgetTypes
<1>3. Trying(e)'
  BY <1>1, <1>2 DEF Trying
<1> QED BY <1>3

(* No try is under way.                                                      *)
LEMMA NoTry ==
  ASSUME circuit'.half = FALSE
  PROVE  TryIsHeld'
BY DEF TryIsHeld

(* A call begins, and may be the try.                                        *)
LEMMA EnterKeeps ==
  ASSUME BudgetInv, NEW c \in Calls, EnterCall(c)
  PROVE  BudgetInv'
<1>1. /\ call[c] \in CallRecords /\ today \in Nat /\ held \in [Calls -> Nat]
      /\ session \in [window : Nat, calls : Int, tokens : Int, reserved : Int]
      /\ circuit \in [failures : Int, cooling : BOOLEAN, half : BOOLEAN]
  BY LlmBudgetAssumption DEF BudgetInv, BudgetTypes
<1>2. /\ UNCHANGED <<session, today, totals, held, queue, saved, excess>>
      /\ call[c].step = "idle"
  BY DEF EnterCall, dayVars
<1> PICK old \in CallRecords : old = call[c]
  BY <1>1
<1>3. CASE ~MayTry /\ Step(c, "done") /\ UNCHANGED circuit
  <2>1. PICK r : r = [old EXCEPT !.step = "done"]
    OBVIOUS
  <2>2. r \in CallRecords /\ r.on = old.on /\ r.step = "done"
    BY <1>1, <2>1 DEF CallRecords
  <2>3. Becomes(c, r)
    BY <1>3, <2>1 DEF Step, Becomes
  <2>4. TryIsHeld'
    BY <1>2, <1>3, <2>2, <2>3, TryStays DEF Trying
  <2> QED BY <1>1, <1>2, <1>3, <2>2, <2>3, <2>4, NothingCounted
<1>4. ASSUME NEW probe \in BOOLEAN, circuit' = [circuit EXCEPT !.half = @ \/ probe],
             call' = [call EXCEPT ![c].step = "reserve", ![c].ts = today,
                                  ![c].probe = probe]
      PROVE  BudgetInv'
  <2>1. PICK r : r = [old EXCEPT !.step = "reserve", !.ts = today, !.probe = probe]
    OBVIOUS
  <2>2. r \in CallRecords /\ r.on = old.on /\ r.step = "reserve" /\ r.probe = probe
    BY <1>1, <2>1 DEF CallRecords
  <2>3. Becomes(c, r)
    BY <1>4, <2>1 DEF Becomes
  <2>4. circuit'.half => circuit.half \/ probe
    BY <1>4
  <2>5. TryIsHeld'
    <3>1. CASE probe
      <4>1. call'[c] = r
        BY <2>3 DEF Becomes, BudgetInv, BudgetTypes
      <4> QED BY <2>2, <3>1, <4>1 DEF TryIsHeld
    <3>2. CASE ~probe
      BY <1>2, <2>2, <2>3, <2>4, <3>2, TryStays DEF Trying
    <3> QED BY <3>1, <3>2
  <2>6. circuit' \in [failures : Int, cooling : BOOLEAN, half : BOOLEAN]
    BY <1>1, <1>4
  <2> QED BY <1>1, <1>2, <2>2, <2>3, <2>5, <2>6, NothingCounted
<1>5. CASE MayTry
  <2>1. PICK probe : probe = (circuit.failures >= Threshold)
    OBVIOUS
  <2>2. probe \in BOOLEAN
    BY <2>1
  <2>3. \/ ~MayTry /\ Step(c, "done") /\ UNCHANGED circuit
        \/ /\ circuit' = [circuit EXCEPT !.half = @ \/ probe]
           /\ call' = [call EXCEPT ![c].step = "reserve", ![c].ts = today,
                                   ![c].probe = probe]
    BY <2>1 DEF EnterCall
  <2> QED BY <1>4, <1>5, <2>2, <2>3
<1> QED BY <1>3, <1>5 DEF EnterCall

(* A session that is settled is a session.                                   *)
LEMMA SettledIsTyped ==
  ASSUME BudgetInv, NEW c \in Calls, NEW used \in Nat, Settled(c, used)
  PROVE  session' \in [window : Nat, calls : Int, tokens : Int, reserved : Int]
<1>1. PICK s \in [window : Nat, calls : Int, tokens : Int, reserved : Int] : s = session
  BY DEF BudgetInv, BudgetTypes
<1>2. PICK n \in Int, m \in Int : n = s.reserved - 1 /\ m = s.tokens + used
  OBVIOUS
<1>3. [s EXCEPT !.reserved = n, !.tokens = m]
        \in [window : Nat, calls : Int, tokens : Int, reserved : Int]
  OBVIOUS
<1>4. session' = s \/ session' = [s EXCEPT !.reserved = n, !.tokens = m]
  BY <1>1, <1>2 DEF Settled
<1> QED BY <1>3, <1>4

(* The session's budget.                                                     *)
LEMMA SessionKeeps ==
  ASSUME BudgetInv, NEW c \in Calls, ReserveSession(c)
  PROVE  BudgetInv'
<1>1. /\ call[c] \in CallRecords /\ held \in [Calls -> Nat]
      /\ session \in [window : Nat, calls : Int, tokens : Int, reserved : Int]
      /\ circuit \in [failures : Int, cooling : BOOLEAN, half : BOOLEAN]
  BY DEF BudgetInv, BudgetTypes
<1>2. /\ UNCHANGED <<circuit, today, totals, held, queue, saved, excess>>
      /\ call[c].step = "session"
  BY DEF ReserveSession, dayVars
<1> PICK old \in CallRecords : old = call[c]
  BY <1>1
<1>3. PICK w \in {session.window, session.window + 1} \cap Windows :
        LET s == IF w = session.window THEN session ELSE Window(w) IN
        IF s.calls < SessionCalls /\ s.tokens + s.reserved + 1 <= SessionTokens
          THEN /\ session' = [s EXCEPT !.calls = @ + 1, !.reserved = @ + 1]
               /\ call' = [call EXCEPT ![c].step = "invoke", ![c].window = w]
          ELSE session' = s /\ Step(c, "rejected")
  BY DEF ReserveSession
<1>4. w \in Nat
  BY LlmBudgetAssumption
<1>5. PICK s \in [window : Nat, calls : Int, tokens : Int, reserved : Int] :
        s = IF w = session.window THEN session ELSE Window(w)
  <2>1. Window(w) \in [window : Nat, calls : Int, tokens : Int, reserved : Int]
    BY <1>4 DEF Window
  <2>2. CASE w = session.window
    BY <1>1, <2>2
  <2>3. CASE w # session.window
    BY <2>1, <2>3
  <2> QED BY <2>2, <2>3
<1>6. CASE /\ session' = [s EXCEPT !.calls = @ + 1, !.reserved = @ + 1]
           /\ call' = [call EXCEPT ![c].step = "invoke", ![c].window = w]
  <2>1. PICK r : r = [old EXCEPT !.step = "invoke", !.window = w]
    OBVIOUS
  <2>2. /\ r \in CallRecords /\ r.on = old.on /\ r.step = "invoke"
        /\ r.probe = old.probe
    BY <1>4, <2>1 DEF CallRecords
  <2>3. Becomes(c, r)
    BY <1>6, <2>1 DEF Becomes
  <2>4. TryIsHeld'
    BY <1>2, <2>2, <2>3, TryStays DEF Trying
  <2>5. session' \in [window : Nat, calls : Int, tokens : Int, reserved : Int]
    <3>1. PICK n \in Int, m \in Int : n = s.calls + 1 /\ m = s.reserved + 1
      OBVIOUS
    <3>2. session' = [s EXCEPT !.calls = n, !.reserved = m]
      BY <1>6, <3>1
    <3> QED BY <3>2
  <2> QED BY <1>1, <1>2, <2>2, <2>3, <2>4, <2>5, NothingCounted
<1>7. CASE session' = s /\ Step(c, "rejected")
  <2>1. PICK r : r = [old EXCEPT !.step = "rejected"]
    OBVIOUS
  <2>2. /\ r \in CallRecords /\ r.on = old.on /\ r.step = "rejected"
        /\ r.probe = old.probe
    BY <2>1 DEF CallRecords
  <2>3. Becomes(c, r)
    BY <1>7, <2>1 DEF Step, Becomes
  <2>4. TryIsHeld'
    BY <1>2, <2>2, <2>3, TryStays DEF Trying
  <2> QED BY <1>1, <1>2, <1>7, <2>2, <2>3, <2>4, NothingCounted
<1> QED BY <1>3, <1>5, <1>6, <1>7

(* A call that gives up has used its prompt, and has no try any more.        *)
LEMMA GivesUpKeeps ==
  ASSUME BudgetInv, NEW c \in Calls, GivesUp(c), UNCHANGED <<today, dayVars>>,
         circuit' \in [failures : Int, cooling : BOOLEAN, half : BOOLEAN],
         circuit'.half => circuit.half /\ ~Trying(c)
  PROVE  BudgetInv'
<1>1. call[c] \in CallRecords /\ held \in [Calls -> Nat]
  BY DEF BudgetInv, BudgetTypes
<1>2. UNCHANGED <<today, totals, held, queue, saved, excess>>
  BY DEF dayVars
<1> PICK old \in CallRecords : old = call[c]
  BY <1>1
<1>3. PICK r : r = [old EXCEPT !.step = "record", !.used = 1, !.probe = FALSE]
  OBVIOUS
<1>4. r \in CallRecords /\ r.on = old.on
  BY <1>3 DEF CallRecords
<1>5. Becomes(c, r)
  BY <1>3 DEF GivesUp, Becomes
<1>6. session' \in [window : Nat, calls : Int, tokens : Int, reserved : Int]
  BY SettledIsTyped DEF GivesUp
<1>7. TryIsHeld'
  <2>1. CASE circuit'.half
    BY <1>4, <1>5, <2>1, TryStays
  <2>2. CASE ~circuit'.half
    BY <2>2 DEF TryIsHeld
  <2> QED BY <2>1, <2>2
<1> QED BY <1>1, <1>2, <1>4, <1>5, <1>6, <1>7, NothingCounted

(* The provider answers.                                                     *)
LEMMA AnsweredKeeps ==
  ASSUME BudgetInv, NEW c \in Calls, NEW used \in Usages, Answered(c, used)
  PROVE  BudgetInv'
<1>1. call[c] \in CallRecords /\ held \in [Calls -> Nat] /\ used \in Nat
  BY LlmBudgetAssumption DEF BudgetInv, BudgetTypes
<1>2. UNCHANGED <<today, totals, held, queue, saved, excess>>
  BY DEF Answered, dayVars
<1> PICK old \in CallRecords : old = call[c]
  BY <1>1
<1>3. PICK r : r = [old EXCEPT !.step = "record", !.used = used, !.probe = FALSE]
  OBVIOUS
<1>4. r \in CallRecords /\ r.on = old.on
  BY <1>1, <1>3 DEF CallRecords
<1>5. Becomes(c, r)
  BY <1>3 DEF Answered, Becomes
<1>6. session' \in [window : Nat, calls : Int, tokens : Int, reserved : Int]
  BY <1>1, SettledIsTyped DEF Answered
<1>7. /\ circuit' \in [failures : Int, cooling : BOOLEAN, half : BOOLEAN]
      /\ TryIsHeld'
  BY DEF Answered, Closed, TryIsHeld
<1> QED BY <1>1, <1>2, <1>4, <1>5, <1>6, <1>7, NothingCounted

(* An attempt fails, and the circuit counts it.                              *)
LEMMA FailKeeps ==
  ASSUME BudgetInv, NEW c \in Calls, AttemptFails(c)
  PROVE  BudgetInv'
<1>1. /\ call[c] \in CallRecords /\ held \in [Calls -> Nat]
      /\ session \in [window : Nat, calls : Int, tokens : Int, reserved : Int]
      /\ circuit \in [failures : Int, cooling : BOOLEAN, half : BOOLEAN]
  BY DEF BudgetInv, BudgetTypes
<1>2. /\ UNCHANGED <<today, totals, held, queue, saved, excess>>
      /\ UNCHANGED <<today, dayVars>>
  BY DEF AttemptFails, dayVars
<1>3. /\ circuit' \in [failures : Int, cooling : BOOLEAN, half : BOOLEAN]
      /\ ~circuit'.half
  <2>1. PICK f \in Int : f = IF circuit.failures < Threshold
                               THEN circuit.failures + 1 ELSE Threshold
    BY <1>1, LlmBudgetAssumption
  <2>2. PICK g \in BOOLEAN :
          g = (circuit.cooling \/ circuit.failures + 1 >= Threshold)
    <3>1. PICK g : g = (circuit.cooling \/ circuit.failures + 1 >= Threshold)
      OBVIOUS
    <3> QED BY <3>1
  <2>3. circuit' = [failures |-> f, cooling |-> g, half |-> FALSE]
    BY <2>1, <2>2 DEF AttemptFails, CircuitFailure
  <2> QED BY <2>3
<1> PICK old \in CallRecords : old = call[c]
  BY <1>1
<1>4. CASE GivesUp(c)
  BY <1>2, <1>3, <1>4, GivesUpKeeps
<1>5. CASE call' = [call EXCEPT ![c].step = "sleep", ![c].probe = FALSE]
           /\ UNCHANGED session
  <2>1. PICK r : r = [old EXCEPT !.step = "sleep", !.probe = FALSE]
    OBVIOUS
  <2>2. r \in CallRecords /\ r.on = old.on
    BY <2>1 DEF CallRecords
  <2>3. Becomes(c, r)
    BY <1>5, <2>1 DEF Becomes
  <2>4. TryIsHeld'
    BY <1>3 DEF TryIsHeld
  <2> QED BY <1>1, <1>2, <1>3, <1>5, <2>2, <2>3, <2>4, NothingCounted
<1> QED BY <1>4, <1>5 DEF AttemptFails

(* The back-off ends.                                                        *)
LEMMA WakeKeeps ==
  ASSUME BudgetInv, NEW c \in Calls, WakeUp(c)
  PROVE  BudgetInv'
<1>1. /\ call[c] \in CallRecords /\ held \in [Calls -> Nat]
      /\ session \in [window : Nat, calls : Int, tokens : Int, reserved : Int]
      /\ circuit \in [failures : Int, cooling : BOOLEAN, half : BOOLEAN]
  BY DEF BudgetInv, BudgetTypes
<1>2. /\ UNCHANGED <<circuit, today, totals, held, queue, saved, excess>>
      /\ UNCHANGED <<today, dayVars>> /\ call[c].step = "sleep"
  BY DEF WakeUp, dayVars
<1> PICK old \in CallRecords : old = call[c]
  BY <1>1
<1>3. CASE GivesUp(c)
  BY <1>1, <1>2, <1>3, GivesUpKeeps DEF Trying
<1>4. CASE call' = [call EXCEPT ![c].step = "invoke", ![c].attempt = @ + 1]
           /\ UNCHANGED session
  <2>1. PICK n : n = old.attempt + 1
    OBVIOUS
  <2>2. n \in Nat
    BY <2>1 DEF CallRecords
  <2>3. PICK r : r = [old EXCEPT !.step = "invoke", !.attempt = n]
    OBVIOUS
  <2>4. r \in CallRecords /\ r.on = old.on /\ r.step = "invoke" /\ r.probe = old.probe
    BY <2>2, <2>3 DEF CallRecords
  <2>5. Becomes(c, r)
    BY <1>4, <2>1, <2>3 DEF Becomes
  <2>6. TryIsHeld'
    BY <1>2, <2>4, <2>5, TryStays DEF Trying
  <2> QED BY <1>1, <1>2, <1>4, <2>4, <2>5, <2>6, NothingCounted
<1> QED BY <1>3, <1>4 DEF WakeUp

(* The tracker lets a call through, or does not.                             *)
LEMMA ReserveKeeps ==
  ASSUME BudgetInv, NEW c \in Calls, Reserve(c)
  PROVE  BudgetInv'
<1>1. /\ call[c] \in CallRecords /\ held \in [Calls -> Nat]
      /\ call \in [Calls -> CallRecords]
      /\ session \in [window : Nat, calls : Int, tokens : Int, reserved : Int]
      /\ circuit \in [failures : Int, cooling : BOOLEAN, half : BOOLEAN]
      /\ today \in Days /\ today \in Nat /\ today # 0
  BY LlmBudgetAssumption DEF BudgetInv, BudgetTypes
<1>2. /\ UNCHANGED <<circuit, session, today, totals, queue, saved, excess>>
      /\ call[c].step = "reserve"
  BY DEF Reserve
<1> PICK old \in CallRecords : old = call[c]
  BY <1>1
<1> PICK kept : kept = [e \in Calls |-> IF held[e] = today THEN today ELSE 0]
  OBVIOUS
<1>3. /\ kept \in [Calls -> Nat]
      /\ \A e \in Calls : held[e] = today => kept[e] = today
  BY <1>1
<1>4. CASE Step(c, "rejected") /\ held' \in {held, kept}
  <2>1. PICK r : r = [old EXCEPT !.step = "rejected"]
    OBVIOUS
  <2>2. /\ r \in CallRecords /\ r.on = old.on /\ r.step = "rejected"
        /\ r.probe = old.probe
    BY <2>1 DEF CallRecords
  <2>3. Becomes(c, r)
    BY <1>4, <2>1 DEF Step, Becomes
  <2>4. TryIsHeld'
    BY <1>2, <2>2, <2>3, TryStays DEF Trying
  <2>5. /\ held' \in [Calls -> Nat]
        /\ \A e \in Calls : held[e] = today => held'[e] = today
    BY <1>1, <1>3, <1>4
  <2> QED BY <1>1, <1>2, <2>2, <2>3, <2>4, <2>5, NothingCounted
<1>5. CASE /\ ~Blocked
           /\ call' = [call EXCEPT ![c].step = "session", ![c].on = today]
           /\ held' = [kept EXCEPT ![c] = today]
  <2>1. PICK r : r = [old EXCEPT !.step = "session", !.on = today]
    OBVIOUS
  <2>2. /\ r \in CallRecords /\ r.on = today /\ r.step = "session"
        /\ r.probe = old.probe
    BY <1>1, <2>1 DEF CallRecords
  <2>3. Becomes(c, r)
    BY <1>5, <2>1 DEF Becomes
  <2>4. TryIsHeld'
    BY <1>2, <2>2, <2>3, TryStays DEF Trying
  <2>5. /\ call' \in [Calls -> CallRecords] /\ call'[c].on = today
        /\ \A e \in Calls : e # c => call'[e] = call[e]
    BY <1>1, <2>2, <2>3 DEF Becomes
  <2>6. /\ held' \in [Calls -> Nat] /\ held'[c] = today
        /\ \A e \in Calls : held[e] = today => held'[e] = today
    BY <1>1, <1>3, <1>5
  <2>7. BudgetTypes'
    BY <1>2, <2>5, <2>6 DEF BudgetInv, BudgetTypes
  <2>8. TodayIsHeld'
    BY <1>1, <1>2, <2>5, <2>6 DEF BudgetInv, TodayIsHeld
  <2>9. StoreIsBehind'
    BY <1>2 DEF BudgetInv, StoreIsBehind, Account, Queued
  <2>10. ASSUME NEW d \in Days PROVE DayIsCovered(d)'
    <3>1. /\ totals[d] \in Nat /\ excess[d] \in Nat
          /\ totals'[d] = totals[d] /\ excess'[d] = excess[d]
      BY <1>2 DEF BudgetInv, BudgetTypes
    <3>2. LetThrough(d) \in SUBSET Calls /\ LetThrough(d)' \in SUBSET Calls
      BY DEF LetThrough
    <3>3. CASE d = today
      <4> PICK H \in SUBSET Calls : H = {e \in Calls : held[e] = today}
        OBVIOUS
      <4>1. LetThrough(d)' \subseteq H \cup {c}
        BY <2>5, <3>3 DEF LetThrough, BudgetInv, TodayIsHeld
      <4>2. /\ totals[today] + Allowance * Cardinality(H) + Allowance <= TokenBudget
        BY <1>1, <1>5, <3>1, <3>3, ReserveGrows, LlmBudgetAssumption DEF Blocked, Reserved
      <4>3. /\ Allowance * Cardinality(H \cup {c})
                 <= Allowance * Cardinality(H) + Allowance
            /\ Allowance * Cardinality(H) \in Nat
            /\ Allowance * Cardinality(H \cup {c}) \in Nat
        <5>1. /\ Allowance * Cardinality(H) \in Nat
              /\ Allowance * Cardinality(H \cup {c}) \in Nat
          BY ReserveGrows
        <5>2. ASSUME c \in H
              PROVE  Allowance * Cardinality(H \cup {c}) = Allowance * Cardinality(H)
          <6>1. H \cup {c} = H
            BY <5>2
          <6> QED BY <6>1
        <5>3. ASSUME c \notin H
              PROVE  Allowance * Cardinality(H \cup {c})
                       = Allowance * Cardinality(H) + Allowance
          BY <5>3, ReserveOne
        <5> QED BY <5>1, <5>2, <5>3, LlmBudgetAssumption
      <4>4. /\ Allowance * Cardinality(LetThrough(d)') \in Nat
            /\ Allowance * Cardinality(LetThrough(d)')
                 <= Allowance * Cardinality(H \cup {c})
        BY <3>2, <4>1, ReserveGrows
      <4> QED BY <3>1, <3>3, <4>2, <4>3, <4>4, LlmBudgetAssumption DEF DayIsCovered
    <3>4. CASE d # today
      <4>1. LetThrough(d)' \subseteq LetThrough(d)
        BY <2>5, <3>4 DEF LetThrough
      <4>2. /\ Allowance * Cardinality(LetThrough(d)') \in Nat
            /\ Allowance * Cardinality(LetThrough(d)) \in Nat
            /\ Allowance * Cardinality(LetThrough(d)')
                 <= Allowance * Cardinality(LetThrough(d))
        BY <3>2, <4>1, ReserveGrows
      <4>3. totals[d] + Allowance * Cardinality(LetThrough(d)) <= TokenBudget + excess[d]
        BY DEF BudgetInv, DayIsCovered
      <4> QED BY <3>1, <4>2, <4>3, LlmBudgetAssumption DEF DayIsCovered
    <3> QED BY <3>3, <3>4
  <2> QED BY <2>4, <2>7, <2>8, <2>9, <2>10 DEF BudgetInv
<1> QED BY <1>4, <1>5 DEF Reserve

(* A call ends: what it used is counted, and no longer expected.             *)
LEMMA RecordKeeps ==
  ASSUME BudgetInv, NEW c \in Calls, Record(c), call' = [call EXCEPT ![c] = Ended],
         UNCHANGED <<session, today>>, TryIsHeld',
         circuit' \in [failures : Int, cooling : BOOLEAN, half : BOOLEAN]
  PROVE  BudgetInv'
<1>1. /\ call[c] \in CallRecords /\ held \in [Calls -> Nat]
      /\ call \in [Calls -> CallRecords] /\ queue \in Seq(Nat \X Nat)
      /\ totals \in [Days -> Nat] /\ saved \in [Days -> Nat] /\ excess \in [Days -> Nat]
      /\ today \in Nat /\ today # 0
  BY LlmBudgetAssumption DEF BudgetInv, BudgetTypes
<1> PICK ts \in Nat, on \in Nat, used \in Nat :
      ts = call[c].ts /\ on = call[c].on /\ used = call[c].used
  BY <1>1 DEF CallRecords
<1>2. PICK more : more = IF on = ts THEN Max({0, used - Allowance}) ELSE used
  OBVIOUS
<1>3. more \in Nat /\ used <= Allowance + more /\ (on # ts => more = used)
  <2>1. used - Allowance \in Int /\ Allowance \in Nat
    BY LlmBudgetAssumption
  <2>2. Max({0, used - Allowance}) = IF 0 >= used - Allowance THEN 0 ELSE used - Allowance
    BY <2>1, MaxOfTwo
  <2> QED BY <1>2, <2>1, <2>2
<1>4. /\ call' \in [Calls -> CallRecords] /\ call'[c].on = 0
      /\ \A e \in Calls : e # c => call'[e] = call[e]
  <2>1. Ended \in CallRecords /\ Ended.on = 0
    BY DEF Ended, NoCall, CallRecords
  <2> QED BY <1>1, <2>1
<1>5. \A d \in Days : LetThrough(d)' = LetThrough(d) \ {c}
  BY <1>4, LlmBudgetAssumption DEF LetThrough
<1>6. CASE closing /\ UNCHANGED dayVars
  <2>1. UNCHANGED <<totals, held, queue, saved, excess>>
    BY <1>6 DEF dayVars
  <2>2. BudgetTypes'
    BY <1>4, <2>1 DEF BudgetInv, BudgetTypes
  <2>3. TodayIsHeld'
    BY <1>1, <1>4, <2>1 DEF BudgetInv, TodayIsHeld
  <2>4. StoreIsBehind'
    BY <2>1 DEF BudgetInv, StoreIsBehind, Account, Queued
  <2>5. ASSUME NEW d \in Days PROVE DayIsCovered(d)'
    <3>1. LetThrough(d) \in SUBSET Calls /\ LetThrough(d) \ {c} \in SUBSET Calls
      BY DEF LetThrough
    <3>2. /\ Allowance * Cardinality(LetThrough(d) \ {c}) \in Nat
          /\ Allowance * Cardinality(LetThrough(d)) \in Nat
          /\ Allowance * Cardinality(LetThrough(d) \ {c})
               <= Allowance * Cardinality(LetThrough(d))
      BY <3>1, ReserveGrows
    <3>3. totals[d] + Allowance * Cardinality(LetThrough(d)) <= TokenBudget + excess[d]
      BY DEF BudgetInv, DayIsCovered
    <3>4. totals[d] \in Nat /\ excess[d] \in Nat
      BY <1>1
    <3>5. totals[d] + Allowance * Cardinality(LetThrough(d) \ {c})
            <= TokenBudget + excess[d]
      BY <3>2, <3>3, <3>4, LlmBudgetAssumption
    <3> QED BY <1>5, <2>1, <3>5 DEF DayIsCovered
  <2> QED BY <2>2, <2>3, <2>4, <2>5 DEF BudgetInv
<1>7. CASE /\ ~closing
           /\ held' = [held EXCEPT ![c] = 0]
           /\ totals' = [totals EXCEPT ![ts] = @ + used]
           /\ excess' = [excess EXCEPT ![ts] = @ + more]
           /\ queue' \in {queue, Append(queue, <<ts, used>>)}
           /\ UNCHANGED saved
  <2>1. /\ held' \in [Calls -> Nat]
        /\ \A e \in Calls : e # c => held'[e] = held[e]
    BY <1>1, <1>7
  <2>2. /\ totals' \in [Days -> Nat] /\ excess' \in [Days -> Nat]
        /\ \A d \in Days : /\ totals'[d] = totals[d] + (IF ts = d THEN used ELSE 0)
                           /\ excess'[d] = excess[d] + (IF ts = d THEN more ELSE 0)
    <3>1. /\ totals' \in [Days -> Nat]
          /\ \A d \in Days : totals'[d] = totals[d] + (IF ts = d THEN used ELSE 0)
      <4>1. totals \in [Days -> Nat] /\ totals' = [totals EXCEPT ![ts] = @ + used]
        BY <1>1, <1>7
      <4>2. used \in Nat
        OBVIOUS
      <4>3. /\ DOMAIN totals' = Days /\ totals' = [d \in Days |-> totals'[d]]
            /\ \A d \in Days : totals'[d] = IF d = ts THEN totals[d] + used ELSE totals[d]
        BY <4>1
      <4>4. \A d \in Days : totals[d] \in Nat /\ totals'[d] \in Nat
        BY <4>1, <4>2, <4>3
      <4>5. totals' \in [Days -> Nat]
        BY <4>3, <4>4
      <4> QED BY <4>3, <4>4, <4>5
    <3>2. /\ excess' \in [Days -> Nat]
          /\ \A d \in Days : excess'[d] = excess[d] + (IF ts = d THEN more ELSE 0)
      <4>1. excess \in [Days -> Nat] /\ excess' = [excess EXCEPT ![ts] = @ + more]
        BY <1>1, <1>7
      <4>2. more \in Nat
        BY <1>3
      <4>3. /\ DOMAIN excess' = Days /\ excess' = [d \in Days |-> excess'[d]]
            /\ \A d \in Days : excess'[d] = IF d = ts THEN excess[d] + more ELSE excess[d]
        BY <4>1
      <4>4. \A d \in Days : excess[d] \in Nat /\ excess'[d] \in Nat
        BY <4>1, <4>2, <4>3
      <4>5. excess' \in [Days -> Nat]
        BY <4>3, <4>4
      <4> QED BY <4>3, <4>4, <4>5
    <3> QED BY <3>1, <3>2
  <2>3. queue' \in Seq(Nat \X Nat)
    <3>1. PICK e \in Nat \X Nat : e = <<ts, used>>
      OBVIOUS
    <3>2. Append(queue, e) \in Seq(Nat \X Nat)
      BY <1>1
    <3> QED BY <1>1, <1>7, <3>1, <3>2
  <2>4. BudgetTypes'
    <3>1. saved' \in [Days -> Nat] /\ session' = session /\ today' = today
      BY <1>1, <1>7
    <3> QED BY <1>4, <2>1, <2>2, <2>3, <3>1 DEF BudgetInv, BudgetTypes
  <2>5. TodayIsHeld'
    BY <1>1, <1>4, <2>1 DEF BudgetInv, TodayIsHeld
  <2>6. ASSUME NEW d \in Days PROVE \E b : Account(d, b)'
    <3>1. PICK a : Account(d, a)
      BY DEF BudgetInv, StoreIsBehind
    <3>2. totals[d] \in Nat /\ totals[d] <= totals'[d]
      <4>1. totals[d] \in Nat /\ totals'[d] = totals[d] + (IF ts = d THEN used ELSE 0)
        BY <1>1, <2>2
      <4> QED BY <4>1
    <3>3. CASE queue' = queue
      BY <1>7, <2>2, <3>1, <3>2, <3>3, AccountKept DEF BudgetInv
    <3>4. CASE queue' = Append(queue, <<ts, used>>)
      <4>1. PICK e \in Nat \X Nat : e = <<ts, used>>
        OBVIOUS
      <4>2. totals'[d] = totals[d] + (IF e[1] = d THEN e[2] ELSE 0)
        BY <2>2, <4>1
      <4> QED BY <1>7, <2>2, <3>1, <3>4, <4>1, <4>2, AccountQueued DEF BudgetInv
    <3> QED BY <1>7, <3>3, <3>4
  <2>7. StoreIsBehind'
    BY <2>6 DEF StoreIsBehind
  <2>8. ASSUME NEW d \in Days PROVE DayIsCovered(d)'
    <3>1. LetThrough(d) \in SUBSET Calls /\ LetThrough(d) \ {c} \in SUBSET Calls
      BY DEF LetThrough
    <3>2. /\ Allowance * Cardinality(LetThrough(d) \ {c}) \in Nat
          /\ Allowance * Cardinality(LetThrough(d)) \in Nat
          /\ Allowance * Cardinality(LetThrough(d) \ {c})
               <= Allowance * Cardinality(LetThrough(d))
      BY <3>1, ReserveGrows
    <3>3. totals[d] + Allowance * Cardinality(LetThrough(d)) <= TokenBudget + excess[d]
      BY DEF BudgetInv, DayIsCovered
    <3>4. /\ totals[d] \in Nat /\ excess[d] \in Nat
          /\ totals'[d] = totals[d] + (IF ts = d THEN used ELSE 0)
          /\ excess'[d] = excess[d] + (IF ts = d THEN more ELSE 0)
      BY <1>1, <2>2
    <3>5. on = d => Allowance * Cardinality(LetThrough(d))
                      = Allowance * Cardinality(LetThrough(d) \ {c}) + Allowance
      BY <3>1, ReserveOne DEF LetThrough
    <3>6. totals'[d] + Allowance * Cardinality(LetThrough(d) \ {c})
            <= TokenBudget + excess'[d]
      BY <1>3, <3>2, <3>3, <3>4, <3>5, LlmBudgetAssumption
    <3> QED BY <1>5, <3>6 DEF DayIsCovered
  <2> QED BY <2>4, <2>5, <2>7, <2>8 DEF BudgetInv
<1>8. \/ closing /\ UNCHANGED dayVars
      \/ /\ ~closing
         /\ held' = [held EXCEPT ![c] = 0]
         /\ totals' = [totals EXCEPT ![ts] = @ + used]
         /\ excess' = [excess EXCEPT ![ts] = @ + more]
         /\ queue' \in {queue, Append(queue, <<ts, used>>)}
         /\ UNCHANGED saved
  BY <1>2 DEF Record
<1> QED BY <1>6, <1>7, <1>8

(* A call that was recorded, or refused.                                     *)
LEMMA UsageKeeps ==
  ASSUME BudgetInv, NEW c \in Calls, RecordUsage(c) \/ RecordRejected(c)
  PROVE  BudgetInv'
<1>1. Ended \in CallRecords
  BY DEF Ended, NoCall, CallRecords
<1>2. circuit \in [failures : Int, cooling : BOOLEAN, half : BOOLEAN]
  BY DEF BudgetInv, BudgetTypes
<1>3. CASE RecordUsage(c)
  <2>1. /\ Record(c) /\ Becomes(c, Ended) /\ UNCHANGED <<circuit, session, today>>
        /\ call[c].step = "record"
    BY <1>3 DEF RecordUsage, Becomes
  <2>2. TryIsHeld'
    BY <1>1, <2>1, TryStays DEF Trying
  <2> QED BY <1>2, <2>1, <2>2, RecordKeeps DEF Becomes
<1>4. CASE RecordRejected(c)
  <2>1. /\ Record(c) /\ call' = [call EXCEPT ![c] = Ended] /\ UNCHANGED <<session, today>>
        /\ circuit' = [circuit EXCEPT !.half = FALSE]
    BY <1>4 DEF RecordRejected
  <2>2. /\ circuit' \in [failures : Int, cooling : BOOLEAN, half : BOOLEAN]
        /\ TryIsHeld'
    BY <1>2, <2>1 DEF TryIsHeld
  <2> QED BY <2>1, <2>2, RecordKeeps
<1> QED BY <1>3, <1>4

(* The worker, the clock, and a restart.                                     *)
LEMMA BackgroundKeeps ==
  ASSUME BudgetInv, \/ SaveUsage \/ CloseTracker \/ RestartTracker \/ CoolDown
                    \/ Midnight \/ UNCHANGED llmVars
  PROVE  BudgetInv'
<1>1. /\ call \in [Calls -> CallRecords] /\ queue \in Seq(Nat \X Nat)
      /\ totals \in [Days -> Nat] /\ saved \in [Days -> Nat] /\ excess \in [Days -> Nat]
      /\ circuit \in [failures : Int, cooling : BOOLEAN, half : BOOLEAN]
      /\ today \in Nat /\ today # 0
  BY LlmBudgetAssumption DEF BudgetInv, BudgetTypes
<1>2. CASE SaveUsage
  <2>1. /\ UNCHANGED <<call, circuit, session, today, totals, held, excess>>
        /\ queue # << >> /\ queue' = Tail(queue)
        /\ saved' \in {saved, [saved EXCEPT ![queue[1][1]] = @ + queue[1][2]]}
    BY <1>1, <1>2 DEF SaveUsage
  <2>2. queue' \in Seq(Nat \X Nat) /\ saved' \in [Days -> Nat]
    <3>1. PICK n \in Nat : n = queue[1][2]
      BY <1>1, <2>1
    <3>2. saved' \in {saved, [saved EXCEPT ![queue[1][1]] = @ + n]}
      BY <2>1, <3>1
    <3>3. saved' \in [Days -> Nat]
      BY <1>1, <3>2
    <3>4. Tail(queue) \in Seq(Nat \X Nat)
      BY <1>1, <2>1
    <3> QED BY <2>1, <3>3, <3>4
  <2>3. BudgetTypes'
    BY <2>1, <2>2 DEF BudgetInv, BudgetTypes
  <2>4. StoreIsBehind'
    <3>1. ASSUME NEW d \in Days PROVE \E b : Account(d, b)'
      <4>1. PICK a : Account(d, a)
        BY DEF BudgetInv, StoreIsBehind
      <4> QED BY <1>2, <4>1, AccountSaved DEF BudgetInv
    <3> QED BY <3>1 DEF StoreIsBehind
  <2> QED BY <2>1, <2>3, <2>4
      DEF BudgetInv, TodayIsHeld, TryIsHeld, DayIsCovered, LetThrough
<1>3. CASE RestartTracker
  <2>1. /\ call' = [c \in Calls |-> IF call[c].step = "idle" THEN NoCall ELSE Ended]
        /\ circuit' = Closed /\ session' = Window(0) /\ totals' = saved
        /\ held' = [c \in Calls |-> 0] /\ queue' = << >>
        /\ UNCHANGED <<today, saved, excess>>
    BY <1>3 DEF RestartTracker
  <2>2. /\ call' \in [Calls -> CallRecords] /\ \A c \in Calls : call'[c].on = 0
    <3>1. /\ NoCall \in CallRecords /\ NoCall.on = 0
          /\ Ended \in CallRecords /\ Ended.on = 0
      BY DEF Ended, NoCall, CallRecords
    <3> QED BY <2>1, <3>1
  <2>3. /\ circuit' \in [failures : Int, cooling : BOOLEAN, half : BOOLEAN]
        /\ session' \in [window : Nat, calls : Int, tokens : Int, reserved : Int]
    BY <2>1 DEF Closed, Window
  <2>4. BudgetTypes'
    BY <1>1, <2>1, <2>2, <2>3 DEF BudgetInv, BudgetTypes
  <2>5. TodayIsHeld' /\ TryIsHeld'
    BY <1>1, <2>1, <2>2 DEF TodayIsHeld, TryIsHeld, Closed
  <2>6. ASSUME NEW d \in Days PROVE DayIsCovered(d)' /\ \E b : Account(d, b)'
    <3>1. PICK a : Account(d, a)
      BY DEF BudgetInv, StoreIsBehind
    <3>2. saved[d] <= totals[d]
      BY <3>1, BehindMeansLess DEF BudgetInv
    <3>3. LetThrough(d)' = {}
      BY <2>2, LlmBudgetAssumption DEF LetThrough
    <3>4. /\ totals[d] + Allowance * Cardinality(LetThrough(d)) <= TokenBudget + excess[d]
          /\ Allowance * Cardinality(LetThrough(d)) \in Nat
      BY ReserveGrows DEF BudgetInv, DayIsCovered, LetThrough
    <3>5. Allowance * Cardinality({}) = 0
      BY FS_EmptySet, LlmBudgetAssumption
    <3>6. saved[d] \in Nat /\ totals[d] \in Nat /\ excess[d] \in Nat
      BY <1>1
    <3>7. saved[d] + Allowance * Cardinality({}) <= TokenBudget + excess[d]
      BY <3>2, <3>4, <3>5, <3>6, LlmBudgetAssumption
    <3>8. DayIsCovered(d)'
      BY <2>1, <3>3, <3>7 DEF DayIsCovered
    <3> PICK b : b = [i \in 0..0 |-> saved[d]]
      OBVIOUS
    <3>9. Account(d, b)'
      <4>1. Len(queue') = 0 /\ totals' = saved /\ saved' = saved
        BY <2>1
      <4> QED BY <3>6, <4>1 DEF Account
    <3> QED BY <3>8, <3>9
  <2> QED BY <2>4, <2>5, <2>6 DEF BudgetInv, StoreIsBehind
<1>4. CASE CloseTracker \/ CoolDown \/ UNCHANGED llmVars
  <2>1. /\ UNCHANGED <<call, session, today, totals, held, queue, saved, excess>>
        /\ circuit' \in [failures : Int, cooling : BOOLEAN, half : BOOLEAN]
        /\ circuit'.half = circuit.half
    BY <1>1, <1>4 DEF CloseTracker, CoolDown, llmVars, dayVars
  <2> QED BY <2>1 DEF BudgetInv, BudgetTypes, TodayIsHeld, TryIsHeld, DayIsCovered,
             LetThrough, StoreIsBehind, Account, Queued
<1>5. CASE Midnight
  <2>1. /\ UNCHANGED <<call, circuit, session, totals, held, queue, saved, excess>>
        /\ today' = today + 1 /\ today' \in Days
    BY <1>5 DEF Midnight, dayVars
  <2>2. TodayIsHeld'
    <3>1. \A c \in Calls : call[c].on \in Nat
      BY <1>1 DEF CallRecords
    <3> QED BY <1>1, <2>1, <3>1 DEF BudgetInv, TodayIsHeld
  <2>3. BudgetTypes'
    BY <2>1 DEF BudgetInv, BudgetTypes
  <2> QED BY <2>1, <2>2, <2>3 DEF BudgetInv, TryIsHeld, DayIsCovered,
             LetThrough, StoreIsBehind, Account, Queued
<1> QED BY <1>2, <1>3, <1>4, <1>5

(* The invariant holds of a tracker that has begun.                          *)
LEMMA BudgetStarts == LlmInit => BudgetInv
<1> SUFFICES ASSUME LlmInit PROVE BudgetInv
  OBVIOUS
<1>1. NoCall \in CallRecords /\ NoCall.on = 0
  BY DEF NoCall, CallRecords
<1>2. /\ call = [c \in Calls |-> NoCall] /\ held = [c \in Calls |-> 0] /\ today = 1
      /\ circuit = Closed /\ session = Window(0) /\ queue = << >>
      /\ totals = [d \in Days |-> 0] /\ saved = totals /\ excess = totals
  BY DEF LlmInit
<1>3. BudgetTypes
  BY <1>1, <1>2, LlmBudgetAssumption DEF BudgetTypes, Closed, Window
<1>4. TodayIsHeld /\ TryIsHeld
  BY <1>1, <1>2 DEF TodayIsHeld, TryIsHeld, Closed
<1>5. ASSUME NEW d \in Days PROVE DayIsCovered(d) /\ \E a : Account(d, a)
  <2>1. LetThrough(d) = {}
    BY <1>1, <1>2, LlmBudgetAssumption DEF LetThrough
  <2>2. Allowance * Cardinality({}) = 0
    BY FS_EmptySet, LlmBudgetAssumption
  <2>3. DayIsCovered(d)
    BY <1>2, <2>1, <2>2, LlmBudgetAssumption DEF DayIsCovered
  <2> PICK a : a = [i \in 0..0 |-> 0]
    OBVIOUS
  <2>4. Account(d, a)
    <3>1. Len(queue) = 0 /\ totals[d] = 0 /\ saved[d] = 0
      BY <1>2
    <3> QED BY <3>1 DEF Account
  <2> QED BY <2>3, <2>4
<1> QED BY <1>3, <1>4, <1>5 DEF BudgetInv, StoreIsBehind

(* For any number of calls at once, any budgets, usages and failures of the  *)
(* provider, and across restarts: a day's total exceeds its budget only by   *)
(* what could not be foreseen, and the try at a provider that failed is      *)
(* always somebody's.                                                        *)
THEOREM BudgetAlwaysHeld == LlmSpec => []BudgetHeld
<1>1. BudgetInv /\ [LlmNext]_llmVars => BudgetInv'
  <2> SUFFICES ASSUME BudgetInv, [LlmNext]_llmVars PROVE BudgetInv'
    OBVIOUS
  <2>1. ASSUME NEW c \in Calls,
               \/ EnterCall(c) \/ Reserve(c) \/ ReserveSession(c)
               \/ \E used \in Usages : Answered(c, used)
               \/ AttemptFails(c) \/ WakeUp(c) \/ RecordUsage(c) \/ RecordRejected(c)
        PROVE  BudgetInv'
    BY <2>1, EnterKeeps, ReserveKeeps, SessionKeeps, AnsweredKeeps, FailKeeps, WakeKeeps,
       UsageKeeps
  <2> QED BY <2>1, BackgroundKeeps DEF LlmNext
<1>2. BudgetInv => BudgetHeld
  <2> SUFFICES ASSUME BudgetInv, NEW d \in Days PROVE totals[d] <= TokenBudget + excess[d]
    BY DEF BudgetInv, BudgetHeld, CeilingHolds
  <2>1. /\ totals[d] + Allowance * Cardinality(LetThrough(d)) <= TokenBudget + excess[d]
        /\ Allowance * Cardinality(LetThrough(d)) \in Nat
    BY ReserveGrows DEF BudgetInv, DayIsCovered, LetThrough
  <2>2. totals[d] \in Nat /\ excess[d] \in Nat
    BY DEF BudgetInv, BudgetTypes
  <2> QED BY <2>1, <2>2, LlmBudgetAssumption
<1> QED BY BudgetStarts, <1>1, <1>2, PTL DEF LlmSpec

-----------------------------------------------------------------------------
(* What was accepted at the start stays accepted, and the adapter is the one *)
(* the settings name: the kill switch, all that changes, is no part of it.   *)
Accepted(s) ==
  /\ s.mode = "live" => OKXLiveExecutionConfigured(s)
  /\ Validated(s.mode, Built(s))

PolicyInv ==
  /\ config \in [mode : Modes, venue : Venues, on : SUBSET Flags]
  /\ app = "running" => adapter = Built(config) /\ Accepted(config)

(* An operator's kill switch changes nothing the startup looked at.          *)
LEMMA KillIsNoCondition ==
  ASSUME NEW s \in [mode : Modes, venue : Venues, on : SUBSET Flags],
         NEW t \in [mode : Modes, venue : Venues, on : SUBSET Flags],
         t.mode = s.mode, t.venue = s.venue, t.on \ {"kill"} = s.on \ {"kill"}
  PROVE  Built(t) = Built(s) /\ (Accepted(s) => Accepted(t))
<1>1. \A f \in Flags \ {"kill"} : f \in s.on <=> f \in t.on
  OBVIOUS
<1>2. HasFlags(t, {"demo"}) = HasFlags(s, {"demo"})
  BY <1>1 DEF HasFlags, Flags
<1>3. HasFlags(t, {"demo", "keys"}) = HasFlags(s, {"demo", "keys"})
  BY <1>1 DEF HasFlags, Flags
<1>4. HasFlags(t, Production) = HasFlags(s, Production)
  BY <1>1 DEF HasFlags, Production
<1>5. /\ OKXDemoExecutionConfigured(t) = OKXDemoExecutionConfigured(s)
      /\ OKXLiveExecutionConfigured(t) = OKXLiveExecutionConfigured(s)
  BY <1>2, <1>3, <1>4 DEF OKXDemoExecutionConfigured, OKXLiveExecutionConfigured
<1>6. Built(t) = Built(s)
  BY <1>2, <1>5 DEF Built
<1> QED BY <1>5, <1>6 DEF Accepted

(* What was accepted is judged alike by all four.                            *)
LEMMA AcceptedMeansAgreed ==
  ASSUME NEW s \in [mode : Modes, venue : Venues, on : SUBSET Flags], Accepted(s)
  PROVE  /\ Described(s) = Built(s)
         /\ GatePasses(s) = NewPositionAllowed(s)
         /\ NewPositionAllowed(s) = (LiveGuard(s) /\ "kill" \notin s.on)
<1>1. Production \subseteq s.on <=> \A condition \in Production : {condition} \subseteq s.on
  OBVIOUS
<1>2. ("kill" \in s.on) <=> HasFlags(s, {"kill"})
  BY DEF HasFlags
<1>3. HasFlags(s, {"demo", "keys"}) => HasFlags(s, {"demo"})
  BY DEF HasFlags
<1>4. CASE s.mode = "paper"
  <2>1. CASE s.venue = "paper"
    <3>1. Described(s) = Built(s) /\ Validated(s.mode, Described(s))
      BY <1>4, <2>1 DEF Accepted, Described, Built
    <3> QED BY <1>2, <1>4, <2>1, <3>1 DEF GatePasses, NewPositionAllowed, LiveGuard
  <2>2. CASE s.venue # "paper"
    <3>1. Built(s).id = s.venue /\ Validated(s.mode, Built(s)) /\ Built(s).writable
      BY DEF Accepted, Validated, Built
    <3>2. s.venue = "okx" /\ Built(s).environment = "demo"
      BY <1>4, <2>2, <3>1 DEF Validated
    <3>3. OKXDemoExecutionConfigured(s) /\ HasFlags(s, {"demo", "keys"})
      BY <1>4, <2>2, <3>1 DEF Built, OKXLiveExecutionConfigured, OKXDemoExecutionConfigured
    <3>4. Described(s) = Built(s)
      BY <1>3, <2>2, <3>2, <3>3 DEF Described, Built
    <3> QED BY <1>2, <1>4, <2>2, <3>1, <3>2, <3>3, <3>4 DEF GatePasses, NewPositionAllowed, LiveGuard
  <2> QED BY <2>1, <2>2
<1>5. CASE s.mode = "live"
  <2>1. OKXLiveExecutionConfigured(s) /\ s.venue = "okx" /\ ~HasFlags(s, {"demo"})
        /\ HasFlags(s, Production)
    BY <1>5 DEF Accepted, OKXLiveExecutionConfigured
  <2>2. ~OKXDemoExecutionConfigured(s)
    BY <1>5 DEF OKXDemoExecutionConfigured
  <2>3. Described(s) = Built(s)
    BY <2>1, <2>2 DEF Described, Built
  <2>4. Validated(s.mode, Described(s))
    BY <2>3 DEF Accepted
  <2>5. \A condition \in Production : HasFlags(s, {condition})
    BY <2>1 DEF HasFlags
  <2> QED BY <1>2, <1>5, <2>1, <2>3, <2>4, <2>5 DEF GatePasses, NewPositionAllowed, LiveGuard
<1> QED BY <1>4, <1>5 DEF Modes

(* Building the application and the kill switch keep it.                     *)
LEMMA PolicySteps == PolicyInv /\ [PolicyNext]_policyVars => PolicyInv'
<1> SUFFICES ASSUME PolicyInv, [PolicyNext]_policyVars PROVE PolicyInv'
  OBVIOUS
<1>1. CASE BuildApplication
  BY <1>1 DEF BuildApplication, PolicyInv, Accepted
<1>2. CASE ToggleKill
  <2>1. /\ config'.mode = config.mode /\ config'.venue = config.venue
        /\ config'.on \ {"kill"} = config.on \ {"kill"}
        /\ config' \in [mode : Modes, venue : Venues, on : SUBSET Flags]
    <3>1. PICK flags \in SUBSET Flags : config' = [config EXCEPT !.on = flags]
                                        /\ flags \ {"kill"} = config.on \ {"kill"}
      <4> DEFINE flags == IF "kill" \in config.on THEN config.on \ {"kill"}
                          ELSE config.on \cup {"kill"}
      <4>1. flags \in SUBSET Flags /\ flags \ {"kill"} = config.on \ {"kill"}
        BY DEF PolicyInv, Flags
      <4>2. config' = [config EXCEPT !.on = flags]
        BY <1>2 DEF ToggleKill, PolicyInv
      <4> QED BY <4>1, <4>2
    <3> QED BY <3>1 DEF PolicyInv
  <2>2. Built(config') = Built(config) /\ (Accepted(config) => Accepted(config'))
    BY <2>1, KillIsNoCondition DEF PolicyInv
  <2> QED BY <1>2, <2>1, <2>2 DEF ToggleKill, PolicyInv
<1>3. CASE UNCHANGED policyVars
  BY <1>3 DEF policyVars, PolicyInv
<1> QED BY <1>1, <1>2, <1>3 DEF PolicyNext

(* For every configuration, and at every moment of the application: it       *)
(* trades through the adapter its mode policy accepted, and the settings,    *)
(* the readiness report and the run time's gate agree on whether it may.     *)
THEOREM GatesAlwaysAgree == PolicySpec => []GatesAgree
<1>1. PolicyInit => PolicyInv
  BY DEF PolicyInit, PolicyInv
<1>2. PolicyInv => GatesAgree
  BY AcceptedMeansAgreed DEF PolicyInv, GatesAgree, Accepted
<1> QED BY <1>1, <1>2, PolicySteps, PTL DEF PolicySpec

-----------------------------------------------------------------------------
(* The event streams.  The history is the last of what was published, so     *)
(* that what it no longer has lies that far back.  A stream's events lie     *)
(* behind its subscription, where all that is missing is counted, or before  *)
(* it, where an event is on its way or out of reach.                         *)
Missed(b) == {e \in Published : e > stream[b].from} \ OnTheWay(b)

StreamRecords ==
  [live : BOOLEAN, chan : SUBSET Nat, room : Nat, dropped : Nat, from : Nat]

BusTypes ==
  /\ clock \in Nat /\ emitting \in [Emitters -> Nat] /\ seen \in [Browsers -> Nat]
  /\ stamp \in Seq(Nat)
  /\ stream \in [Browsers -> StreamRecords]
  /\ arrived \in [Browsers -> SUBSET Nat]

StreamInv(b) ==
  /\ OnTheWay(b) \subseteq Published /\ stream[b].from <= Len(stamp)
  /\ seen[b] # 0 => \E f \in arrived[b] : seen[b] = stamp[f]
  /\ stream[b].live => /\ stream[b].dropped = Cardinality(Missed(b))
                       /\ \A e \in 1..stream[b].from : e \in OnTheWay(b) \/ Passed(b, e)

BusInv ==
  /\ BusTypes
  /\ history = {e \in Published : Len(stamp) - e < HistoryLimit}
  /\ \A b \in Browsers : StreamInv(b)

(* There are as many numbers after e, up to n, as the difference says.       *)
LEMMA NumbersAfter ==
  ASSUME NEW n \in Nat, NEW e \in 1..n
  PROVE  IsFiniteSet((e + 1)..n) /\ Cardinality((e + 1)..n) = n - e
<1>1. e + 1 \in Int /\ n \in Int
  OBVIOUS
<1>2. IsFiniteSet((e + 1)..n)
      /\ Cardinality((e + 1)..n) = IF e + 1 > n THEN 0 ELSE n - (e + 1) + 1
  BY <1>1, FS_Interval
<1> QED BY <1>2

(* The newest of consecutive numbers are the last of them.                   *)
LEMMA NewestAreLast ==
  ASSUME NEW n \in Nat, NEW k \in Nat, NEW h \in Int, NEW S \in SUBSET (1..n),
         \A e \in 1..n : e \in S <=> e >= h
  PROVE  \A e \in S : e \in Newest(S, k) <=> n - e < k
<1>1. ASSUME NEW e \in S
      PROVE  Cardinality({f \in S : f > e}) = n - e
  <2>1. e \in 1..n /\ e >= h
    OBVIOUS
  <2>2. ASSUME NEW f \in (e + 1)..n PROVE f \in S /\ f > e
    BY <2>1, <2>2
  <2>3. ASSUME NEW f \in S, f > e PROVE f \in (e + 1)..n
    <3>1. f \in 1..n
      OBVIOUS
    <3> QED BY <2>1, <2>3, <3>1
  <2>4. {f \in S : f > e} = (e + 1)..n
    BY <2>2, <2>3
  <2> QED BY <2>1, <2>4, NumbersAfter
<1> QED BY <1>1 DEF Newest

(* What is not among the newest k of some numbers lies at least k back.      *)
LEMMA NewestAreNear ==
  ASSUME NEW n \in Nat, NEW k \in Nat, NEW S \in SUBSET (1..n), NEW e \in S,
         e \notin Newest(S, k)
  PROVE  n - e >= k
<1>1. ASSUME NEW f \in S, f > e PROVE f \in (e + 1)..n
  <2>1. f \in 1..n /\ e \in 1..n
    OBVIOUS
  <2> QED BY <1>1, <2>1
<1>2. e \in 1..n
  OBVIOUS
<1>3. /\ Cardinality({f \in S : f > e}) \in Nat
      /\ Cardinality({f \in S : f > e}) <= n - e
  <2>1. PICK F : F = {f \in S : f > e}
    OBVIOUS
  <2>2. F \in SUBSET ((e + 1)..n)
    BY <1>1, <2>1
  <2>3. IsFiniteSet((e + 1)..n) /\ Cardinality((e + 1)..n) = n - e
    BY <1>2, NumbersAfter
  <2>4. IsFiniteSet(F) /\ Cardinality(F) <= Cardinality((e + 1)..n)
    BY <2>2, <2>3, FS_Subset
  <2> QED BY <2>1, <2>3, <2>4, FS_CardinalityType
<1>4. ~(Cardinality({f \in S : f > e}) < k)
  BY DEF Newest
<1> QED BY <1>2, <1>3, <1>4

(* What is missing is finite, so that it can be counted.                     *)
LEMMA MissingCount ==
  ASSUME NEW S \in SUBSET Published, stamp \in Seq(Nat)
  PROVE  IsFiniteSet(S) /\ Cardinality(S) \in Nat
<1>1. Len(stamp) \in Nat
  OBVIOUS
<1>2. IsFiniteSet(1..Len(stamp))
  BY <1>1, FS_Interval
<1> QED BY <1>2, FS_Subset, FS_CardinalityType DEF Published

(* A stream is what it was when nothing of its own changes.                  *)
LEMMA Untouched ==
  ASSUME BusInv, NEW b \in Browsers, stamp' = stamp, stream'[b] = stream[b],
         seen'[b] = seen[b], arrived'[b] = arrived[b]
  PROVE  StreamInv(b)'
<1>1. OnTheWay(b)' = OnTheWay(b) /\ Published' = Published /\ Len(stamp') = Len(stamp)
  BY DEF OnTheWay, Published
<1>2. Missed(b)' = Missed(b)
  BY <1>1 DEF Missed
<1>3. \A e : Passed(b, e)' <=> Passed(b, e)
  BY DEF Passed
<1>4. StreamInv(b)
  BY DEF BusInv
<1> QED BY <1>1, <1>2, <1>3, <1>4 DEF StreamInv

LEMMA BusStarts == BusInit => BusInv
<1> SUFFICES ASSUME BusInit PROVE BusInv
  OBVIOUS
<1>1. BusTypes /\ Published = {}
  BY DEF BusInit, BusTypes, StreamRecords, NoStream, Published
<1>2. ASSUME NEW b \in Browsers PROVE StreamInv(b)
  BY <1>1 DEF BusInit, NoStream, StreamInv, OnTheWay
<1> QED BY <1>1, <1>2 DEF BusInv, BusInit

(* A published event goes to the channel, or is counted by the stream as     *)
(* missing, which is then one event more.                                    *)
LEMMA PublishKeeps ==
  ASSUME BusInv, NEW p \in Emitters, Publish(p)
  PROVE  BusInv'
<1> USE DEF StreamRecords
<1> DEFINE n == Len(stamp)
<1>1. CASE busClosed /\ UNCHANGED <<stamp, history, stream>>
  <2>1. BusTypes'
    BY <1>1 DEF Publish, BusInv, BusTypes
  <2>2. Published' = Published /\ history' = history /\ Len(stamp') = Len(stamp)
    BY <1>1 DEF Published
  <2>3. ASSUME NEW b \in Browsers PROVE StreamInv(b)'
    BY <1>1 DEF BusInv, StreamInv, Publish, OnTheWay, Passed, Missed, Published
  <2> QED BY <2>1, <2>2, <2>3 DEF BusInv
<1>2. CASE /\ stamp' = Append(stamp, emitting[p])
           /\ history' = Retained(history, n + 1)
           /\ stream' = [b \in Browsers |-> Offered(stream[b], n + 1)]
  <2>1. /\ n \in Nat /\ emitting[p] \in Nat /\ stamp' \in Seq(Nat) /\ Len(stamp') = n + 1
        /\ \A e \in 1..n : stamp'[e] = stamp[e]
        /\ Published = 1..n /\ Published' = 1..(n + 1)
    BY <1>2 DEF BusInv, BusTypes, Published
  <2>2. history' = {e \in Published' : Len(stamp') - e < HistoryLimit}
    <3>1. PICK S : S = history \cup {n + 1}
      OBVIOUS
    <3>2. PICK h \in Int : h = IF HistoryLimit = 0 THEN n + 1 ELSE n + 1 - HistoryLimit
      BY <2>1, EventBusAssumption
    <3>3. PICK m \in Nat : m = n + 1
      BY <2>1
    <3>4. S \in SUBSET (1..m) /\ \A e \in 1..m : e \in S <=> e >= h
      BY <2>1, <3>1, <3>2, <3>3, EventBusAssumption DEF BusInv
    <3>5. HistoryLimit \in Nat
      BY EventBusAssumption
    <3>6. \A e \in S : e \in Newest(S, HistoryLimit) <=> m - e < HistoryLimit
      BY <3>2, <3>3, <3>4, <3>5, NewestAreLast
    <3>7. Newest(S, HistoryLimit) = {e \in 1..m : m - e < HistoryLimit}
      <4>1. ASSUME NEW e \in 1..m, m - e < HistoryLimit PROVE e \in S
        BY <3>2, <3>3, <3>4, <3>5, <4>1, <2>1
      <4>2. Newest(S, HistoryLimit) \subseteq S
        BY DEF Newest
      <4> QED BY <3>4, <3>6, <4>1, <4>2
    <3>8. history' = Newest(S, HistoryLimit) /\ Published' = 1..m /\ Len(stamp') = m
      BY <1>2, <2>1, <3>1, <3>3 DEF Retained
    <3> QED BY <3>7, <3>8
  <2>3. ASSUME NEW b \in Browsers
        PROVE  /\ stream'[b] \in StreamRecords
               /\ StreamInv(b)'
    <3>1. PICK s \in StreamRecords : s = stream[b]
      BY DEF BusInv, BusTypes
    <3>2. stream'[b] = Offered(s, n + 1) /\ arrived' = arrived /\ seen' = seen
      BY <1>2, <3>1 DEF Publish
    <3>3. /\ arrived[b] \cup s.chan \subseteq 1..n /\ s.from <= n
          /\ seen[b] # 0 => \E f \in arrived[b] : seen[b] = stamp[f]
      BY <2>1, <3>1 DEF BusInv, StreamInv, OnTheWay
    <3>4. n + 1 \notin OnTheWay(b) /\ OnTheWay(b) = arrived[b] \cup s.chan
      BY <2>1, <3>1, <3>3 DEF OnTheWay
    <3>5. CASE ~s.live
      <4>1. stream'[b] = s
        BY <3>2, <3>5 DEF Offered
      <4>2. OnTheWay(b)' = OnTheWay(b)
        BY <3>1, <3>2, <4>1 DEF OnTheWay
      <4> QED BY <2>1, <3>1, <3>2, <3>3, <3>4, <3>5, <4>1, <4>2 DEF StreamInv
    <3>6. CASE s.live
      <4>0. /\ s.dropped = Cardinality(Missed(b))
            /\ \A e \in 1..s.from : e \in OnTheWay(b) \/ Passed(b, e)
            /\ Missed(b) = {e \in 1..n : e > s.from} \ OnTheWay(b)
        BY <2>1, <3>1, <3>6 DEF BusInv, StreamInv, Missed
      <4>1. ASSUME stream'[b].from = s.from,
                   NEW e \in 1..s.from, e \in OnTheWay(b) \/ Passed(b, e),
                   OnTheWay(b) \subseteq OnTheWay(b)'
            PROVE  e \in OnTheWay(b)' \/ Passed(b, e)'
        <5>1. CASE e \in OnTheWay(b)
          BY <4>1, <5>1
        <5>2. CASE s.from - e >= HistoryLimit \/ s.from - e >= ReplayLimit
          BY <4>1, <5>2 DEF Passed
        <5>3. CASE \E f \in arrived[b] : stamp[e] <= stamp[f]
          <6>1. PICK f \in arrived[b] : stamp[e] <= stamp[f]
            BY <5>3
          <6>2. e \in 1..n /\ f \in 1..n
            BY <2>1, <3>1, <3>3
          <6> QED BY <2>1, <3>2, <6>1, <6>2 DEF Passed
        <5> QED BY <3>1, <4>1, <5>1, <5>2, <5>3 DEF Passed
      <4>2. CASE Cardinality(s.chan) < s.room
        <5>1. PICK t : t = [s EXCEPT !.chan = s.chan \cup {n + 1}]
          OBVIOUS
        <5>2. stream'[b] = t
          BY <3>2, <3>6, <4>2, <5>1 DEF Offered
        <5>3. /\ t \in StreamRecords
              /\ t.from = s.from /\ t.chan = s.chan \cup {n + 1} /\ t.live
              /\ t.dropped = s.dropped
          BY <2>1, <3>6, <5>1
        <5>4. OnTheWay(b)' = OnTheWay(b) \cup {n + 1}
          BY <3>2, <3>4, <5>2, <5>3 DEF OnTheWay
        <5>5. Missed(b)' = Missed(b)
          BY <2>1, <3>3, <3>4, <4>0, <5>2, <5>3, <5>4 DEF Missed
        <5>6. \A e \in 1..s.from : e \in OnTheWay(b)' \/ Passed(b, e)'
          BY <4>0, <4>1, <5>2, <5>3, <5>4
        <5>7. seen'[b] # 0 => \E f \in arrived'[b] : seen'[b] = stamp'[f]
          BY <2>1, <3>2, <3>3
        <5> QED BY <2>1, <3>2, <3>3, <3>4, <4>0, <5>2, <5>3, <5>4, <5>5, <5>6, <5>7
                DEF StreamInv
      <4>3. CASE ~(Cardinality(s.chan) < s.room)
        <5>1. PICK t : t = [s EXCEPT !.dropped = s.dropped + 1]
          OBVIOUS
        <5>2. stream'[b] = t
          BY <3>2, <3>6, <4>3, <5>1 DEF Offered
        <5>3. /\ t \in StreamRecords
              /\ t.from = s.from /\ t.chan = s.chan /\ t.live
              /\ t.dropped = s.dropped + 1
          BY <3>6, <5>1
        <5>4. OnTheWay(b)' = OnTheWay(b)
          BY <3>2, <3>4, <5>2, <5>3 DEF OnTheWay
        <5>5. Missed(b)' = Missed(b) \cup {n + 1} /\ n + 1 \notin Missed(b)
          BY <2>1, <3>3, <3>4, <4>0, <5>2, <5>3, <5>4 DEF Missed
        <5>6. Cardinality(Missed(b)') = Cardinality(Missed(b)) + 1
          <6>1. Missed(b) \subseteq Published /\ stamp \in Seq(Nat)
            BY <2>1, <4>0 DEF BusInv, BusTypes
          <6>2. IsFiniteSet(Missed(b))
            BY <6>1, MissingCount
          <6> QED BY <5>5, <6>2, FS_AddElement
        <5>7. \A e \in 1..s.from : e \in OnTheWay(b)' \/ Passed(b, e)'
          BY <4>0, <4>1, <5>2, <5>3, <5>4
        <5>8. seen'[b] # 0 => \E f \in arrived'[b] : seen'[b] = stamp'[f]
          BY <2>1, <3>2, <3>3
        <5> QED BY <2>1, <3>2, <3>3, <3>4, <4>0, <5>2, <5>3, <5>4, <5>6, <5>7, <5>8
                DEF StreamInv
      <4> QED BY <4>2, <4>3
    <3> QED BY <3>5, <3>6
  <2>4. BusTypes'
    <3>1. stream' \in [Browsers -> StreamRecords]
      BY <1>2, <2>3
    <3> QED BY <2>1, <3>1 DEF Publish, BusInv, BusTypes
  <2> QED BY <2>2, <2>3, <2>4 DEF BusInv
<1> QED BY <1>1, <1>2 DEF Publish

(* A new stream has counted nothing yet.  An event it does not replay is out *)
(* of the history, not after the last one seen, or behind the newest.        *)
LEMMA ConnectKeeps ==
  ASSUME BusInv, NEW b \in Browsers, Connect(b)
  PROVE  BusInv'
<1> USE DEF StreamRecords
<1> DEFINE n == Len(stamp)
           matched == {e \in history : seen[b] = 0 \/ stamp[e] > seen[b]}
           replay == Replay(seen[b])
<1>1. /\ n \in Nat /\ Published = 1..n /\ HistoryLimit \in Nat /\ ReplayLimit \in Nat
      /\ Buffer \in Nat
  BY EventBusAssumption DEF BusInv, BusTypes, Published
<1>2. replay = Newest(matched, ReplayLimit) /\ replay \subseteq matched
      /\ matched \subseteq 1..n
  BY <1>1 DEF Replay, Newest, BusInv
<1>3. Cardinality(replay) \in Nat
  BY <1>1, <1>2, MissingCount DEF BusInv, BusTypes
<1>4. PICK t \in StreamRecords :
        /\ t = [live |-> TRUE, chan |-> replay, room |-> Buffer + Cardinality(replay),
                dropped |-> 0, from |-> n]
        /\ t.live /\ t.chan = replay /\ t.dropped = 0 /\ t.from = n
  <2>1. PICK room : room = Buffer + Cardinality(replay)
    OBVIOUS
  <2>2. PICK chan : chan = replay
    OBVIOUS
  <2>3. room \in Nat /\ chan \in SUBSET Nat
    BY <1>1, <1>2, <1>3, <2>1, <2>2
  <2>4. [live |-> TRUE, chan |-> chan, room |-> room, dropped |-> 0, from |-> n]
          \in StreamRecords
    BY <1>1, <2>3
  <2> QED BY <2>1, <2>2, <2>4
<1>5. stream' = [stream EXCEPT ![b] = t] /\ UNCHANGED <<clock, emitting, stamp, history,
                                                       seen, arrived>>
  BY <1>4 DEF Connect
<1>6. BusTypes'
  BY <1>4, <1>5 DEF BusInv, BusTypes
<1>7. Published' = Published /\ Len(stamp') = Len(stamp) /\ history' = history
  BY <1>5 DEF Published
<1>8. stream'[b] = t
  BY <1>5 DEF BusInv, BusTypes
<1>9. ASSUME NEW c \in Browsers, c # b PROVE StreamInv(c)'
  <2>1. stream'[c] = stream[c]
    BY <1>5, <1>9 DEF BusInv, BusTypes
  <2> QED BY <1>5, <1>9, <2>1, Untouched
<1>10. StreamInv(b)'
  <2>1. OnTheWay(b)' = arrived[b] \cup replay
    BY <1>4, <1>5, <1>8 DEF OnTheWay
  <2>2. arrived[b] \subseteq 1..n
    BY <1>1 DEF BusInv, StreamInv, OnTheWay
  <2>3. Missed(b)' = {}
    BY <1>1, <1>4, <1>7, <1>8 DEF Missed
  <2>4. ASSUME NEW e \in 1..n PROVE e \in OnTheWay(b)' \/ Passed(b, e)'
    <3>1. CASE e \notin history
      <4>1. n - e >= HistoryLimit
        BY <1>1, <3>1 DEF BusInv
      <4> QED BY <1>4, <1>8, <4>1 DEF Passed
    <3>2. CASE e \in history /\ e \notin matched
      <4>1. seen[b] # 0 /\ ~(stamp[e] > seen[b])
        BY <3>2
      <4>2. PICK f \in arrived[b] : seen[b] = stamp[f]
        BY <4>1 DEF BusInv, StreamInv
      <4>3. stamp[e] \in Nat /\ stamp[f] \in Nat
        BY <1>1, <2>2, <4>2 DEF BusInv, BusTypes
      <4>4. stamp[e] <= stamp[f]
        BY <4>1, <4>2, <4>3
      <4> QED BY <1>5, <4>2, <4>4 DEF Passed
    <3>3. CASE e \in matched /\ e \notin replay
      <4>1. n - e >= ReplayLimit
        BY <1>1, <1>2, <3>3, NewestAreNear
      <4> QED BY <1>4, <1>8, <4>1 DEF Passed
    <3> QED BY <2>1, <3>1, <3>2, <3>3
  <2>5. Cardinality(Missed(b)') = 0
    BY <2>3, FS_EmptySet
  <2>6. seen'[b] # 0 => \E f \in arrived'[b] : seen'[b] = stamp'[f]
    BY <1>5 DEF BusInv, StreamInv
  <2> QED BY <1>1, <1>2, <1>4, <1>7, <1>8, <2>1, <2>2, <2>4, <2>5, <2>6 DEF StreamInv
<1> QED BY <1>6, <1>7, <1>9, <1>10 DEF BusInv

(* A delivered event stays on the way, and is the last one seen.             *)
LEMMA DeliverKeeps ==
  ASSUME BusInv, NEW b \in Browsers, Deliver(b)
  PROVE  BusInv'
<1> USE DEF StreamRecords
<1>1. PICK s \in StreamRecords : s = stream[b]
  BY DEF BusInv, BusTypes
<1>2. PICK e \in s.chan :
        /\ seen' = [seen EXCEPT ![b] = stamp[e]]
        /\ arrived' = [arrived EXCEPT ![b] = arrived[b] \cup {e}]
        /\ stream' = [stream EXCEPT ![b].chan = stream[b].chan \ {e}]
        /\ UNCHANGED <<clock, emitting, stamp, history>>
  BY <1>1 DEF Deliver
<1>3. PICK t \in StreamRecords :
        /\ t = [s EXCEPT !.chan = s.chan \ {e}]
        /\ t.live = s.live /\ t.chan = s.chan \ {e} /\ t.dropped = s.dropped /\ t.from = s.from
  <2>1. PICK chan \in SUBSET Nat : chan = s.chan \ {e}
    <3>1. s.chan \in SUBSET Nat
      BY <1>1
    <3> QED BY <3>1
  <2>2. [s EXCEPT !.chan = chan] \in StreamRecords
    BY <1>1, <2>1
  <2>3. PICK t : t = [s EXCEPT !.chan = chan]
    OBVIOUS
  <2>4. t.live = s.live /\ t.chan = chan /\ t.dropped = s.dropped /\ t.from = s.from
    BY <1>1, <2>3
  <2> QED BY <2>1, <2>2, <2>3, <2>4
<1>4. stream' = [stream EXCEPT ![b] = t]
  BY <1>1, <1>2, <1>3
<1>5. Published' = Published /\ Len(stamp') = Len(stamp) /\ history' = history
  BY <1>2 DEF Published
<1>6. /\ stream'[b] = t /\ seen'[b] = stamp[e] /\ arrived'[b] = arrived[b] \cup {e}
      /\ \A c \in Browsers \ {b} : /\ stream'[c] = stream[c] /\ seen'[c] = seen[c]
                                   /\ arrived'[c] = arrived[c]
  BY <1>2, <1>4 DEF BusInv, BusTypes
<1>7. e \in Published /\ stamp[e] \in Nat /\ e \in Nat
  BY <1>1, <1>2 DEF BusInv, BusTypes, StreamInv, OnTheWay, Published
<1>8. BusTypes'
  BY <1>2, <1>3, <1>4, <1>7 DEF BusInv, BusTypes
<1>9. ASSUME NEW c \in Browsers, c # b PROVE StreamInv(c)'
  BY <1>2, <1>6, <1>9, Untouched
<1>10. StreamInv(b)'
  <2>1. OnTheWay(b)' = OnTheWay(b)
    BY <1>1, <1>2, <1>3, <1>6 DEF OnTheWay
  <2>2. Missed(b)' = Missed(b)
    BY <1>1, <1>3, <1>5, <1>6, <2>1 DEF Missed
  <2>3. \A d : Passed(b, d) => Passed(b, d)'
    BY <1>1, <1>2, <1>3, <1>6 DEF Passed
  <2>4. \E f \in arrived'[b] : seen'[b] = stamp'[f]
    BY <1>2, <1>6
  <2> QED BY <1>1, <1>3, <1>5, <1>6, <2>1, <2>2, <2>3, <2>4 DEF BusInv, StreamInv
<1> QED BY <1>5, <1>8, <1>9, <1>10 DEF BusInv

(* A stream that ends promises nothing; what arrived has arrived.            *)
LEMMA StreamEnds ==
  ASSUME BusInv, NEW b \in Browsers, stream'[b] = NoStream,
         UNCHANGED <<stamp, seen, arrived>>
  PROVE  StreamInv(b)'
BY DEF NoStream, BusInv, BusTypes, StreamInv, OnTheWay, Published

LEMMA BusSteps == BusInv /\ [BusNext]_busVars => BusInv'
<1> SUFFICES ASSUME BusInv, [BusNext]_busVars PROVE BusInv'
  OBVIOUS
<1>0. NoStream \in StreamRecords
  BY DEF NoStream, StreamRecords
<1>1. ASSUME NEW p \in Emitters, Stamp(p) PROVE BusInv'
  <2>1. UNCHANGED <<stamp, history, stream, seen, arrived>>
    BY <1>1 DEF Stamp
  <2>2. BusTypes'
    <3>1. PICK t \in 1..MaxTime : clock' = t /\ emitting' = [emitting EXCEPT ![p] = t]
      BY <1>1 DEF Stamp
    <3>2. t \in Nat
      BY <3>1, EventBusAssumption
    <3> QED BY <1>1, <2>1, <3>1, <3>2 DEF BusInv, BusTypes, Stamp
  <2> QED BY <2>1, <2>2
          DEF BusInv, StreamInv, OnTheWay, Passed, Missed, Published
<1>2. ASSUME NEW b \in Browsers, Disconnect(b) PROVE BusInv'
  <2>1. /\ stream' = [stream EXCEPT ![b] = NoStream]
        /\ UNCHANGED <<clock, emitting, stamp, history, seen, arrived>>
    BY <1>2 DEF Disconnect
  <2>2. BusTypes' /\ stream'[b] = NoStream
        /\ \A c \in Browsers \ {b} : stream'[c] = stream[c]
    BY <1>0, <2>1 DEF BusInv, BusTypes
  <2>3. StreamInv(b)'
    BY <2>1, <2>2, StreamEnds
  <2>4. ASSUME NEW c \in Browsers, c # b PROVE StreamInv(c)'
    BY <2>1, <2>2, <2>4, Untouched
  <2> QED BY <2>1, <2>2, <2>3, <2>4 DEF BusInv, Published
<1>3. ASSUME CloseBus PROVE BusInv'
  <2>1. /\ stream' = [b \in Browsers |-> NoStream]
        /\ UNCHANGED <<clock, emitting, stamp, history, seen, arrived>>
    BY <1>3 DEF CloseBus
  <2>2. BusTypes' /\ \A b \in Browsers : stream'[b] = NoStream
    BY <1>0, <2>1 DEF BusInv, BusTypes
  <2>3. \A b \in Browsers : StreamInv(b)'
    BY <2>1, <2>2, StreamEnds
  <2> QED BY <2>1, <2>2, <2>3 DEF BusInv, Published
<1>4. CASE UNCHANGED busVars
  BY <1>4 DEF busVars, BusInv, BusTypes, StreamInv, OnTheWay, Passed, Missed, Published
<1> QED BY <1>1, <1>2, <1>3, <1>4, PublishKeeps, ConnectKeeps, DeliverKeeps DEF BusNext

(* bus.go:103, :163, :218: an event a browser does not get is counted, or    *)
(* was out of its reach when it connected, for any number of streams and any *)
(* limits.                                                                   *)
THEOREM StreamsStayComplete == BusSpec => []StreamsComplete
<1>1. BusInv => StreamsComplete
  <2> SUFFICES ASSUME BusInv, NEW b \in Live
               PROVE  /\ stream[b].dropped = Cardinality(Missed(b))
                      /\ stream[b].dropped = 0 =>
                           \A e \in Published : e \in OnTheWay(b) \/ Passed(b, e)
    BY DEF StreamsComplete, DroppedIsExact, NoGap, Missed
  <2>1. b \in Browsers /\ stream[b].live /\ StreamInv(b)
    BY DEF Live, BusInv
  <2>2. stream[b].dropped = Cardinality(Missed(b))
        /\ \A e \in 1..stream[b].from : e \in OnTheWay(b) \/ Passed(b, e)
    BY <2>1 DEF StreamInv
  <2>3. ASSUME stream[b].dropped = 0, NEW e \in Published
        PROVE  e \in OnTheWay(b) \/ Passed(b, e)
    <3>1. Missed(b) = {}
      <4>1. Missed(b) \subseteq Published /\ stamp \in Seq(Nat)
        BY DEF Missed, BusInv, BusTypes
      <4>2. IsFiniteSet(Missed(b))
        BY <4>1, MissingCount
      <4> QED BY <2>2, <2>3, <4>2, FS_EmptySet
    <3>2. e \in OnTheWay(b) \/ e \in 1..stream[b].from
      <4>1. PICK from \in Nat : from = stream[b].from
        BY <2>1 DEF BusInv, BusTypes, StreamRecords
      <4>2. e \in OnTheWay(b) \/ ~(e > from)
        BY <3>1, <4>1 DEF Missed
      <4>3. e \in Nat /\ e >= 1
        BY DEF Published
      <4> QED BY <4>1, <4>2, <4>3
    <3> QED BY <2>2, <3>2
  <2> QED BY <2>2, <2>3
<1> QED BY <1>1, BusStarts, BusSteps, PTL DEF BusSpec
=============================================================================
