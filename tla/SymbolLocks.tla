---------------------------- MODULE SymbolLocks ----------------------------
(* runtime/symbols.go: a map of one-slot channels, made on demand, counted   *)
(* by the callers that point to them and deleted with the last one.  Do is   *)
(* entryFor, a select on the channel and the context, the operation, and the *)
(* two deferred releases, of which the channel's runs first.                 *)
(*                                                                           *)
(* An entry is named by the process that made it and its symbol: the process *)
(* makes another for the symbol only when the map holds none.                *)
EXTENDS Naturals, FiniteSets

CONSTANTS
  Procs,     \* goroutines that call Do
  Symbols,
  Nobody     \* no entry

ASSUME NobodyAssumption == Nobody \notin Procs
ASSUME ProcsAssumption == IsFiniteSet(Procs) /\ Symbols # {}

Entries == Procs \X Symbols

VARIABLES
  locks,       \* locks[s]: the maker of the entry the map holds for s
  references,  \* references[e]
  full,        \* the entries whose channel is taken
  stage,       \* stage[p]: where in Do process p is
  entry        \* entry[p]: the entry p points to

lockVars == <<locks, references, full, stage, entry>>

LocksTypeOK ==
  /\ locks \in [Symbols -> Procs \cup {Nobody}]
  /\ references \in [Entries -> Nat]
  /\ full \subseteq Entries
  /\ stage \in [Procs -> {"out", "waiting", "inside", "leaving"}]
  /\ entry \in [Procs -> Entries]

LocksInit ==
  /\ locks = [s \in Symbols |-> Nobody]
  /\ references = [e \in Entries |-> 0]
  /\ full = {}
  /\ stage = [p \in Procs |-> "out"]
  /\ entry = [p \in Procs |-> <<p, CHOOSE s \in Symbols : TRUE>>]

EntryFor(p, s) ==
  /\ stage[p] = "out"
  /\ LET new == locks[s] = Nobody
         e == IF new THEN <<p, s>> ELSE <<locks[s], s>>
     IN  /\ locks' = [locks EXCEPT ![s] = e[1]]
         /\ references' = [references EXCEPT ![e] = IF new THEN 1 ELSE @ + 1]
         /\ full' = IF new THEN full \ {e} ELSE full
         /\ entry' = [entry EXCEPT ![p] = e]
  /\ stage' = [stage EXCEPT ![p] = "waiting"]

Enter(p) ==
  /\ stage[p] = "waiting"
  /\ entry[p] \notin full
  /\ full' = full \cup {entry[p]}
  /\ stage' = [stage EXCEPT ![p] = "inside"]
  /\ UNCHANGED <<locks, references, entry>>

(* The context is done before the channel is free. *)
GiveUp(p) ==
  /\ stage[p] = "waiting"
  /\ stage' = [stage EXCEPT ![p] = "leaving"]
  /\ UNCHANGED <<locks, references, full, entry>>

Exit(p) ==
  /\ stage[p] = "inside"
  /\ full' = full \ {entry[p]}
  /\ stage' = [stage EXCEPT ![p] = "leaving"]
  /\ UNCHANGED <<locks, references, entry>>

Release(p) ==
  /\ stage[p] = "leaving"
  /\ LET e == entry[p]
     IN  /\ references' = [references EXCEPT ![e] = @ - 1]
         /\ locks' = IF references[e] = 1 /\ locks[e[2]] = e[1]
                       THEN [locks EXCEPT ![e[2]] = Nobody] ELSE locks
  /\ stage' = [stage EXCEPT ![p] = "out"]
  /\ UNCHANGED <<full, entry>>

LocksNext ==
  \E p \in Procs :
    \/ \E s \in Symbols : EntryFor(p, s)
    \/ Enter(p) \/ GiveUp(p) \/ Exit(p) \/ Release(p)

LocksSpec == LocksInit /\ [][LocksNext]_lockVars

-----------------------------------------------------------------------------
(* Entries come and go with their users and still one process at a time      *)
(* works on a symbol: nobody waits at a channel the map no longer holds      *)
(* while another takes a fresh one.                                          *)
Mutex == INSTANCE SymbolMutex WITH
  held <- {<<p, entry[p][2]>> : p \in {q \in Procs : stage[q] = "inside"}}

MutexKept == Mutex!MutexSpec
=============================================================================
