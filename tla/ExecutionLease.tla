--------------------------- MODULE ExecutionLease ---------------------------
(* The lease that keeps two processes from trading one OKX account: a        *)
(* PostgreSQL advisory lock of a session, held on one retained connection    *)
(* (persistence/postgres.go) and validated before every mutation of the      *)
(* exchange (CEXVenue.checkMutationGuard, app.New).                          *)
(*                                                                           *)
(* External: PostgreSQL ends sessions and gives a lock free with its         *)
(* session; a pooler may put a live connection on another session.           *)
EXTENDS Naturals

CONSTANTS
  Processes,
  Sessions,   \* bound: sessions the server gives out, one after the other
  MaxPosts    \* bound: mutations a process begins

ASSUME LeaseAssumption == Sessions \in Nat /\ MaxPosts \in Nat

VARIABLES
  leaseConn,  \* the session behind the retained connection, 0 when none
  leasePID,   \* the session that took the lock
  leased,     \* the session the server has given the lock to, 0 when free
  live,       \* sessions the server has not ended
  born,       \* sessions given out
  post,       \* where each process is with its mutation of the exchange
  begun,
  sent        \* how the last request to reach the exchange was covered

leaseVars == <<leaseConn, leasePID, leased, live, born, post, begun, sent>>

LeaseTypeOK ==
  /\ leaseConn \in [Processes -> 0..Sessions]
  /\ leasePID \in [Processes -> 0..Sessions]
  /\ leased \in 0..Sessions /\ live \subseteq 1..Sessions /\ born \in 0..Sessions
  /\ post \in [Processes -> {"none", "wanted", "covered", "overtaken"}]
  /\ begun \in [Processes -> 0..MaxPosts]
  /\ sent \in {"nothing", "covered", "overtaken", "foreign"}

LeaseInit ==
  /\ leaseConn = [p \in Processes |-> 0] /\ leasePID = [p \in Processes |-> 0]
  /\ leased = 0 /\ live = {} /\ born = 0
  /\ post = [p \in Processes |-> "none"] /\ begun = [p \in Processes |-> 0]
  /\ sent = "nothing"

Holds(p) == leased # 0 /\ leasePID[p] = leased

-----------------------------------------------------------------------------
(* AcquireExecutionLease at start: without the lock the process does not     *)
(* come up, and its connection goes back.                                    *)
AcquireLease(p) ==
  /\ leaseConn[p] = 0 /\ post[p] = "none" /\ born < Sessions
  /\ born' = born + 1
  /\ IF leased = 0
       THEN /\ leased' = born' /\ live' = live \cup {born'}
            /\ leaseConn' = [leaseConn EXCEPT ![p] = born']
            /\ leasePID' = [leasePID EXCEPT ![p] = born']
       ELSE UNCHANGED <<leased, live, leaseConn, leasePID>>
  /\ UNCHANGED <<post, begun, sent>>

(* External: the session ends at the server, which frees its lock.           *)
SessionEnds ==
  /\ \E s \in live :
       /\ live' = live \ {s}
       /\ leased' = IF leased = s THEN 0 ELSE leased
       /\ post' = [p \in Processes |-> IF leasePID[p] = s /\ post[p] = "covered"
                                         THEN "overtaken" ELSE post[p]]
  /\ UNCHANGED <<leaseConn, leasePID, born, begun, sent>>

(* External: the pooler goes on with the connection on another session.      *)
Rebind(p) ==
  /\ leaseConn[p] # 0 /\ leaseConn[p] \notin live /\ born < Sessions
  /\ born' = born + 1 /\ live' = live \cup {born'}
  /\ leaseConn' = [leaseConn EXCEPT ![p] = born']
  /\ UNCHANGED <<leasePID, leased, post, begun, sent>>

-----------------------------------------------------------------------------
WantPost(p) ==
  /\ leaseConn[p] # 0 /\ post[p] = "none" /\ begun[p] < MaxPosts
  /\ begun' = [begun EXCEPT ![p] = @ + 1]
  /\ post' = [post EXCEPT ![p] = "wanted"]
  /\ UNCHANGED <<leaseConn, leasePID, leased, live, born, sent>>

(* Variant: a connection that answers is proof enough.                       *)
LeaseAnswersIsValid(p) == leaseConn[p] \in live

(* validateExecutionLeaseLocked: the retained connection answers, and it is  *)
(* still the session that took the lock.                                     *)
LeaseValid(p) == leaseConn[p] \in live /\ leaseConn[p] = leasePID[p]

ValidateLease(p) ==
  /\ post[p] = "wanted"
  /\ post' = [post EXCEPT ![p] = IF ~LeaseValid(p) THEN "none"
                                 ELSE IF Holds(p) THEN "covered" ELSE "overtaken"]
  /\ sent' = IF LeaseValid(p) /\ ~Holds(p) THEN "foreign" ELSE sent
  /\ UNCHANGED <<leaseConn, leasePID, leased, live, born, begun>>

(* The request: nothing looks at the lease again on its way out.             *)
SendPost(p) ==
  /\ post[p] \in {"covered", "overtaken"}
  /\ sent' = IF sent = "foreign" THEN sent ELSE post[p]
  /\ post' = [post EXCEPT ![p] = "none"]
  /\ UNCHANGED <<leaseConn, leasePID, leased, live, born, begun>>

(* Repository.Close unlocks and releases; a process that dies loses its      *)
(* session.  Either way it may be started again.                             *)
CloseRepository(p) ==
  /\ leaseConn[p] # 0
  /\ live' = live \ {leaseConn[p]}
  /\ leased' = IF leased = leaseConn[p] THEN 0 ELSE leased
  /\ leaseConn' = [leaseConn EXCEPT ![p] = 0]
  /\ leasePID' = [leasePID EXCEPT ![p] = 0]
  /\ post' = [post EXCEPT ![p] = "none"]
  /\ UNCHANGED <<born, begun, sent>>

LeaseNext ==
  \/ SessionEnds
  \/ \E p \in Processes :
       \/ AcquireLease(p) \/ Rebind(p) \/ WantPost(p) \/ ValidateLease(p)
       \/ SendPost(p) \/ CloseRepository(p)

LeaseSpec == LeaseInit /\ [][LeaseNext]_leaseVars

-----------------------------------------------------------------------------
(* Of two processes on one account only one gets past the guard: a process   *)
(* whose session was lost never does again, whatever its connection answers, *)
(* so that besides the holder only requests already validated can still go   *)
(* out, one per process that lost the lease.                                 *)
OneExecutor ==
  /\ sent # "foreign"
  /\ \A p, q \in Processes : post[p] = "covered" /\ post[q] = "covered" => p = q
=============================================================================
