--------------------------- MODULE OrderLifecycle ---------------------------
(* What the order journal promises, whatever happens to the process: each    *)
(* order is absent or has one status, a status only moves along the table of *)
(* OrderMachine, and a recorded order is forgotten only once it is terminal. *)
(* Recording one order may archive others (retention), which is why a step   *)
(* is one optional advance followed by forgetting some terminal orders.      *)
EXTENDS OrderMachine

CONSTANT ClientIds

VARIABLE recorded   \* recorded[c]: the durable status of order c, or "absent"

Start == recorded = [c \in ClientIds |-> "absent"]

MayBecome(from, to) ==
  IF from = "absent" THEN to = "new" ELSE ValidTransition(from, to)

Advance(c, s) ==
  /\ MayBecome(recorded[c], s)
  /\ \E gone \in SUBSET ClientIds :
       LET moved == [recorded EXCEPT ![c] = s]
       IN  /\ \A d \in gone : moved[d] \in Terminal
           /\ recorded' = [d \in ClientIds |->
                             IF d \in gone THEN "absent" ELSE moved[d]]

Evolve == \E c \in ClientIds, s \in Statuses : Advance(c, s)

LifecycleSpec == Start /\ [][Evolve]_recorded
=============================================================================
