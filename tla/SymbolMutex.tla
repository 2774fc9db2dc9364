---------------------------- MODULE SymbolMutex ----------------------------
(* What runtime.SymbolLocks promises to everybody that works on a symbol:    *)
(* one holder at a time, and a holder of one symbol waits for no other.      *)
CONSTANTS Procs, Symbols

VARIABLE held   \* pairs of a process and the symbol it works on

Lock(p, s) ==
  /\ \A q \in Procs : <<q, s>> \notin held
  /\ \A t \in Symbols : <<p, t>> \notin held
  /\ held' = held \cup {<<p, s>>}

Unlock(p, s) ==
  /\ <<p, s>> \in held
  /\ held' = held \ {<<p, s>>}

MutexSpec ==
  /\ held = {}
  /\ [][\E p \in Procs, s \in Symbols : Lock(p, s) \/ Unlock(p, s)]_held
=============================================================================
