-------------------------- MODULE MCTradeExecution --------------------------
(* TradeExecution with two runs, or with a run and an exit: enough for a     *)
(* position to be opened, reversed or closed, and opened again behind what   *)
(* was left.                                                                 *)
EXTENDS TradeExecution

CONSTANTS
  Casts,     \* the sets of actors of which one takes part
  FirstRun,  \* a run of every cast,
  FirstSide  \* and the side it proposes: behaviours come in mirrored pairs

VARIABLE cast

MCInit == Init /\ cast \in Casts

MCNext ==
  /\ Next /\ UNCHANGED cast
  /\ \A a \in Actors \ cast : actor'[a] = Idle
  /\ side'[FirstRun] \in {NoOne, FirstSide}

MCSpec ==
  /\ MCInit /\ [][MCNext]_<<vars, cast>>
  /\ \A r \in Runs : WF_vars(RunStep(r))
  /\ \A a \in Actors : WF_vars(OrderStep(a))
=============================================================================
