---------------------------- MODULE AccountCache ----------------------------
(* api/account_cache.go: the account the dashboard's positions, risk and     *)
(* portfolio endpoints share for a second, and the manual close that         *)
(* invalidates it (dashboard.go).  The account at the venue is the number    *)
(* of changes it has seen; balances and positions are asked for apart.       *)
EXTENDS Naturals

CONSTANTS
  Readers,    \* requests for a view of the account
  Free,       \* a mutex nobody holds
  MaxChanges  \* bound on the changes of the account

ASSUME CacheAssumption == Free \notin Readers /\ MaxChanges \in Nat

VARIABLES
  account,  \* changes of the account so far
  cached,   \* the snapshot cached: [balances, positions]
  fresh,    \* its time to live is not over
  mu,       \* who holds the cache's mutex
  view,     \* view[b]: [step, balances, positions], with 0 for one not yet read
  manual,   \* the manual close: [step, account], the account with it filled
  shown,    \* history: the account as of the last close that was answered
  owed      \* history: what shown was when each request came in

cacheVars == <<account, cached, fresh, mu, view, manual, shown, owed>>

Snapshot == [balances : 0..MaxChanges, positions : 0..MaxChanges]
NoView == [step |-> "idle", balances |-> 0, positions |-> 0]

CacheTypeOK ==
  /\ account \in 0..MaxChanges /\ shown \in 0..MaxChanges
  /\ cached \in Snapshot /\ fresh \in BOOLEAN /\ mu \in Readers \cup {Free}
  /\ view \in [Readers -> [step : {"idle", "lock", "balances", "positions", "both",
                                   "fetched", "answered", "failed"},
                           balances : 0..MaxChanges, positions : 0..MaxChanges]]
  /\ manual \in [step : {"idle", "invalidate", "answer"}, account : 0..MaxChanges]
  /\ owed \in [Readers -> 0..MaxChanges]

CacheInit ==
  /\ account = 0 /\ shown = 0
  /\ cached = [balances |-> 0, positions |-> 0] /\ fresh = FALSE
  /\ mu = Free /\ view = [b \in Readers |-> NoView]
  /\ manual = [step |-> "idle", account |-> 0]
  /\ owed = [b \in Readers |-> 0]

Go(b, s) == view' = [view EXCEPT ![b].step = s]

-----------------------------------------------------------------------------
(* A request; the snapshot it was answered with before is done with.         *)
Ask(b) ==
  /\ view[b].step \in {"idle", "answered", "failed"}
  /\ view' = [view EXCEPT ![b] = [NoView EXCEPT !.step = "lock"]]
  /\ owed' = [owed EXCEPT ![b] = shown]
  /\ UNCHANGED <<account, cached, fresh, mu, manual, shown>>

(* Load takes the mutex, and keeps it while it asks the venue.               *)
Load(b) ==
  /\ view[b].step = "lock" /\ mu = Free
  /\ IF fresh
       THEN /\ view' = [view EXCEPT ![b] = [step |-> "answered",
                                            balances |-> cached.balances,
                                            positions |-> cached.positions]]
            /\ UNCHANGED mu
       ELSE /\ mu' = b /\ Go(b, "both")
  /\ UNCHANGED <<account, cached, fresh, manual, shown, owed>>

(* fetchAccountSnapshot: two requests at once, in either order.              *)
FetchBalances(b) ==
  /\ view[b].step \in {"both", "balances"}
  /\ view' = [view EXCEPT ![b].balances = account,
                          ![b].step = IF @ = "both" THEN "positions" ELSE "fetched"]
  /\ UNCHANGED <<account, cached, fresh, mu, manual, shown, owed>>

FetchPositions(b) ==
  /\ view[b].step \in {"both", "positions"}
  /\ view' = [view EXCEPT ![b].positions = account,
                          ![b].step = IF @ = "both" THEN "balances" ELSE "fetched"]
  /\ UNCHANGED <<account, cached, fresh, mu, manual, shown, owed>>

(* One of them failed, or the request was given up; both are waited for.     *)
FetchFails(b) ==
  /\ view[b].step \in {"both", "balances", "positions"}
  /\ mu' = Free /\ Go(b, "failed")
  /\ UNCHANGED <<account, cached, fresh, manual, shown, owed>>

(* Both have answered; a symbol's mark that cannot be had is left out.       *)
StoreSnapshot(b) ==
  /\ view[b].step = "fetched"
  /\ cached' = [balances |-> view[b].balances, positions |-> view[b].positions]
  /\ fresh' = TRUE /\ mu' = Free /\ Go(b, "answered")
  /\ UNCHANGED <<account, manual, shown, owed>>

Expire ==
  /\ fresh /\ fresh' = FALSE
  /\ UNCHANGED <<account, cached, mu, view, manual, shown, owed>>

-----------------------------------------------------------------------------
(* The account changes on its own: fills, exits, funding.                    *)
AccountMoves ==
  /\ account < MaxChanges /\ account' = account + 1
  /\ UNCHANGED <<cached, fresh, mu, view, manual, shown, owed>>

(* closePositionLocked: the close is filled. *)
CloseFilled ==
  /\ manual.step = "idle" /\ account < MaxChanges
  /\ account' = account + 1
  /\ manual' = [step |-> "invalidate", account |-> account']
  /\ UNCHANGED <<cached, fresh, mu, view, shown, owed>>

(* Variant: the time to live is ended without the mutex. *)
InvalidateAtOnce ==
  /\ manual.step = "invalidate"
  /\ fresh' = FALSE /\ manual' = [manual EXCEPT !.step = "answer"]
  /\ UNCHANGED <<account, cached, mu, view, shown, owed>>

Invalidate ==
  /\ manual.step = "invalidate" /\ mu = Free
  /\ fresh' = FALSE /\ manual' = [manual EXCEPT !.step = "answer"]
  /\ UNCHANGED <<account, cached, mu, view, shown, owed>>

AnswerClose ==
  /\ manual.step = "answer" /\ manual' = [manual EXCEPT !.step = "idle"]
  /\ shown' = manual.account
  /\ UNCHANGED <<account, cached, fresh, mu, view, owed>>

CacheNext ==
  \/ \E b \in Readers : \/ Ask(b) \/ Load(b) \/ FetchBalances(b) \/ FetchPositions(b)
                        \/ FetchFails(b) \/ StoreSnapshot(b)
  \/ Expire \/ AccountMoves \/ CloseFilled \/ Invalidate \/ AnswerClose

CacheSpec == CacheInit /\ [][CacheNext]_cacheVars

-----------------------------------------------------------------------------
(* dashboard.go:154: once a manual close has been answered, no view asked    *)
(* for afterwards shows the account from before it, although a fetch may     *)
(* have been under way all through the close.                                *)
CloseIsShown ==
  \A b \in Readers : view[b].step = "answered" =>
    view[b].balances >= owed[b] /\ view[b].positions >= owed[b]
=============================================================================
