------------------------ MODULE TradeExecutionProofs ------------------------
(* Proofs about TradeExecution for any sets of runs, exits and sides. SInv:  *)
(* the handler inside holds the lock, works on what its step allows, and an  *)
(* entry past its last check is alone and found the gate open; it is         *)
(* inductive whatever windows the environment hits.  JInv adds what the      *)
(* journal knows: the orders an actor has still to open, the status and      *)
(* answer behind each step of the handler at work, that an order in flight   *)
(* is its own or the gate is shut, and that a position and a stop come from  *)
(* an entry that filled and is still open.  It is inductive as long as no    *)
(* reconciliation overlaps a handler.  KInv adds who may be holding a        *)
(* position without a stop.  Each action is first reduced to what it does    *)
(* (the lemmas ...Moves), so that the later proofs need not open it again.   *)
EXTENDS TradeExecution, TLAPS

Works == {"entry", "reverse", "flatten", "exit"}
Locals == [step : Steps, work : Works, seen : Runs \cup {NoOne}, answer : Answers]

(* An actor whose handler holds the symbol's lock.                           *)
Inside(a) == actor[a].step \notin {"idle", "lock", "done"}

Held == \A a \in Actors : Inside(a) <=> lock = a

(* What an actor can be working on at each of its steps.                     *)
Stations ==
  \A a \in Actors :
    /\ actor[a].step \in {"idle", "done"} => actor[a].work = "entry"
    /\ actor[a].step \notin {"idle", "done"} => (actor[a].work = "exit" <=> a \in Exits)
    /\ actor[a].step = "lock" => a \in Exits
    /\ actor[a].step = "decide" => actor[a].work \in {"entry", "reverse"}
    /\ actor[a].step \in {"remediate", "flatten"} => actor[a].work = "entry"
    /\ actor[a].step \in {"finalize", "complete"} => actor[a].work # "entry"

(* An order whose outcome is awaited is with the exchange.                   *)
Awaited ==
  \A a \in Actors :
    actor[a].step = "await" => remote[Order(a)] \in {"live", "filled", "partial", "dead"}

LInv == TypeOK /\ Held /\ Stations

(* A run is no close, and nobody is no actor.                                *)
LEMMA ActorsAre == /\ Actors = Runs \cup Exits /\ Runs \cap Exits = {} /\ NoOne \notin Actors
BY ActorsAssumption DEF Actors

(* An actor with work in hand has an order of the symbol.                    *)
LEMMA OrderIsOrder ==
  ASSUME TypeOK, Stations, NEW a \in Actors, actor[a].step \notin {"idle", "done"}
  PROVE  Order(a) \in Orders
BY ActorsAre DEF TypeOK, Stations, Order, Orders, Steps

(* The two sets, spelled out for the provers.                                *)
LEMMA StepsAre ==
  /\ {"idle", "lock", "decide", "open", "submit", "post", "await", "record", "protect",
      "remediate", "flatten", "finalize", "complete", "done"} = Steps
  /\ Answers = {"none", "refused", "unknown", "dead", "partial", "filled",
                "protected", "unrecorded"}
BY DEF Steps, Answers

(* Past its lock an actor is the holder.                                     *)
LEMMA InsideHolds ==
  ASSUME LInv, NEW a \in Actors, actor[a].step \notin {"idle", "lock", "done"}
  PROVE  lock = a
BY DEF LInv, Held, Inside

-----------------------------------------------------------------------------
(* How the actors move.  The others stay where they are.                     *)
Others(a) == \A b \in Actors \ {a} : actor'[b] = actor[b]

Becomes(a, s, w, v) ==
  /\ actor' \in [Actors -> Locals] /\ Others(a)
  /\ actor'[a].step = s /\ actor'[a].work = w /\ actor'[a].answer = v

Left(a) == lock' = NoOne /\ Becomes(a, "done", "entry", "none")

Went(a, s, v) == lock' = lock /\ Becomes(a, s, actor[a].work, v)

(* What an actor keeps, as one set.                                          *)
LEMMA LocalsAre ==
  ASSUME TypeOK
  PROVE  actor \in [Actors -> Locals]
BY DEF TypeOK, Locals, Works

(* One actor's record replaced.                                              *)
LEMMA BecomesThis ==
  ASSUME TypeOK, NEW a \in Actors, NEW m \in Locals, actor' = [actor EXCEPT ![a] = m]
  PROVE  Becomes(a, m.step, m.work, m.answer)
BY LocalsAre DEF Becomes, Others

(* Leaving gives the symbol back and forgets the work.                       *)
LEMMA LeaveLeft ==
  ASSUME TypeOK, NEW a \in Actors, Leave(a)
  PROVE  Left(a)
<1>1. /\ Gone(a) \in Locals
      /\ Gone(a).step = "done" /\ Gone(a).work = "entry" /\ Gone(a).answer = "none"
  BY DEF TypeOK, Gone, Idle, Locals, Works, Steps, Answers
<1> QED BY <1>1, BecomesThis DEF Leave, Left

(* Two fields of an actor's record replaced one after the other.             *)
LEMMA RecordMoves ==
  ASSUME NEW r \in Locals, NEW s \in Steps, NEW w \in Answers
  PROVE  [[r EXCEPT !.step = s] EXCEPT !.answer = w]
           = [step |-> s, work |-> r.work, seen |-> r.seen, answer |-> w]
<1>1. PICK q : q = [r EXCEPT !.step = s]
  OBVIOUS
<1>a. q \in Locals /\ q.step = s /\ q.work = r.work /\ q.seen = r.seen
  BY <1>1 DEF Locals
<1>2. [q EXCEPT !.answer = w]
        = [step |-> q.step, work |-> q.work, seen |-> q.seen, answer |-> w]
  BY <1>a DEF Locals
<1> QED BY <1>1, <1>a, <1>2

(* The same for the three fields an emergency flatten sets.                  *)
LEMMA RecordRedirected ==
  ASSUME NEW r \in Locals, NEW s \in Steps, NEW w \in Works, NEW p \in Runs \cup {NoOne}
  PROVE  [[[r EXCEPT !.step = s] EXCEPT !.work = w] EXCEPT !.seen = p]
           = [step |-> s, work |-> w, seen |-> p, answer |-> r.answer]
<1>1. PICK q : q = [r EXCEPT !.step = s]
  OBVIOUS
<1>2. q \in Locals /\ q.step = s /\ q.answer = r.answer
  BY <1>1 DEF Locals
<1>3. PICK t : t = [q EXCEPT !.work = w]
  OBVIOUS
<1>4. t \in Locals /\ t.step = s /\ t.work = w /\ t.answer = r.answer
  BY <1>2, <1>3 DEF Locals
<1>5. [t EXCEPT !.seen = p]
        = [step |-> t.step, work |-> t.work, seen |-> p, answer |-> t.answer]
  BY <1>4 DEF Locals
<1> QED BY <1>1, <1>3, <1>4, <1>5

(* The same for the three fields a reopening sets.                           *)
LEMMA RecordReopened ==
  ASSUME NEW r \in Locals, NEW s \in Steps, NEW w \in Works, NEW v \in Answers
  PROVE  [[[r EXCEPT !.step = s] EXCEPT !.work = w] EXCEPT !.answer = v]
           = [step |-> s, work |-> w, seen |-> r.seen, answer |-> v]
<1>1. PICK q : q = [r EXCEPT !.step = s]
  OBVIOUS
<1>2. q \in Locals /\ q.step = s /\ q.seen = r.seen
  BY <1>1 DEF Locals
<1>3. PICK t : t = [q EXCEPT !.work = w]
  OBVIOUS
<1>4. t \in Locals /\ t.step = s /\ t.work = w /\ t.seen = r.seen
  BY <1>2, <1>3 DEF Locals
<1>5. [t EXCEPT !.answer = v]
        = [step |-> t.step, work |-> t.work, seen |-> t.seen, answer |-> v]
  BY <1>4 DEF Locals
<1> QED BY <1>1, <1>3, <1>4, <1>5

(* Goto keeps work and answer.                                               *)
LEMMA GotoWent ==
  ASSUME TypeOK, NEW a \in Actors, NEW s \in Steps, Goto(a, s)
  PROVE  Went(a, s, actor[a].answer)
<1>1. actor[a] \in Locals
  BY LocalsAre
<1>2. PICK m : m = [actor[a] EXCEPT !.step = s]
  OBVIOUS
<1>3. m \in Locals /\ m.step = s /\ m.work = actor[a].work /\ m.answer = actor[a].answer
  BY <1>1, <1>2 DEF Locals
<1>4. actor' = [actor EXCEPT ![a] = m] /\ lock' = lock
  BY <1>2 DEF Goto
<1> QED BY <1>3, <1>4, BecomesThis DEF Went

(* GotoWith keeps the work and notes the answer.                             *)
LEMMA GotoWithWent ==
  ASSUME TypeOK, NEW a \in Actors, NEW s \in Steps, NEW v \in Answers, GotoWith(a, s, v)
  PROVE  Went(a, s, v)
<1>1. actor[a] \in Locals
  BY LocalsAre
<1>2. PICK m : m = [step |-> s, work |-> actor[a].work, seen |-> actor[a].seen, answer |-> v]
  OBVIOUS
<1>3. m \in Locals /\ m.step = s /\ m.work = actor[a].work /\ m.answer = v
  BY <1>1, <1>2 DEF Locals
<1>4. [[actor[a] EXCEPT !.step = s] EXCEPT !.answer = v] = m
  BY <1>1, <1>2, RecordMoves
<1>5. actor' = [actor EXCEPT ![a] = m] /\ lock' = lock
  BY <1>4, LocalsAre DEF GotoWith
<1> QED BY <1>3, <1>5, BecomesThis DEF Went

(* A run turns to the emergency flatten of its own position.                 *)
LEMMA FlattenRedirects ==
  ASSUME TypeOK, NEW a \in Actors,
         actor' = [actor EXCEPT ![a].step = "open", ![a].work = "flatten", ![a].seen = position]
  PROVE  Becomes(a, "open", "flatten", actor[a].answer)
<1>1. actor[a] \in Locals /\ position \in Runs \cup {NoOne}
  BY LocalsAre DEF TypeOK
<1>2. PICK m : m = [step |-> "open", work |-> "flatten", seen |-> position, answer |-> actor[a].answer]
  OBVIOUS
<1>3. m \in Locals /\ m.step = "open" /\ m.work = "flatten" /\ m.answer = actor[a].answer
  BY <1>1, <1>2 DEF Locals, Works, Steps
<1>4. [[[actor[a] EXCEPT !.step = "open"] EXCEPT !.work = "flatten"] EXCEPT !.seen = position] = m
  BY <1>1, <1>2, RecordRedirected DEF Works, Steps
<1>5. actor' = [actor EXCEPT ![a] = m]
  BY <1>4, LocalsAre
<1> QED BY <1>3, <1>5, BecomesThis

(* A reversal's close turns to the entry.                                    *)
LEMMA CloseReopens ==
  ASSUME TypeOK, NEW a \in Actors,
         actor' = [actor EXCEPT ![a].step = "decide", ![a].work = "entry", ![a].answer = "none"]
  PROVE  Becomes(a, "decide", "entry", "none")
<1>1. actor[a] \in Locals
  BY LocalsAre
<1>2. PICK m : m = [step |-> "decide", work |-> "entry", seen |-> actor[a].seen, answer |-> "none"]
  OBVIOUS
<1>3. m \in Locals /\ m.step = "decide" /\ m.work = "entry" /\ m.answer = "none"
  BY <1>1, <1>2 DEF Locals, Works, Steps, Answers
<1>4. [[[actor[a] EXCEPT !.step = "decide"] EXCEPT !.work = "entry"] EXCEPT !.answer = "none"] = m
  BY <1>1, <1>2, RecordReopened DEF Works, Steps, Answers
<1>5. actor' = [actor EXCEPT ![a] = m]
  BY <1>4, LocalsAre
<1> QED BY <1>3, <1>5, BecomesThis

(* A run starts on an entry or on a reversal.                                *)
LEMMA RunStarts ==
  ASSUME TypeOK, NEW r \in Actors, NEW w \in Works,
         actor' = [actor EXCEPT ![r].step = "decide", ![r].seen = position, ![r].work = w]
  PROVE  Becomes(r, "decide", w, actor[r].answer)
<1>1. actor[r] \in Locals /\ position \in Runs \cup {NoOne} /\ "decide" \in Steps
  BY LocalsAre DEF TypeOK, Steps
<1>2. PICK q : q = [actor[r] EXCEPT !.step = "decide"]
  OBVIOUS
<1>3. q \in Locals /\ q.step = "decide" /\ q.answer = actor[r].answer
  BY <1>1, <1>2 DEF Locals
<1>4. PICK t : t = [q EXCEPT !.seen = position]
  OBVIOUS
<1>5. t \in Locals /\ t.step = "decide" /\ t.answer = actor[r].answer
  BY <1>1, <1>3, <1>4 DEF Locals
<1>6. PICK m : m = [t EXCEPT !.work = w]
  OBVIOUS
<1>7. m \in Locals /\ m.step = "decide" /\ m.work = w /\ m.answer = actor[r].answer
  BY <1>5, <1>6 DEF Locals
<1>8. actor' = [actor EXCEPT ![r] = m]
  BY <1>2, <1>4, <1>6, LocalsAre
<1> QED BY <1>7, <1>8, BecomesThis

(* An exit has read the position it wants closed.                            *)
LEMMA ExitReads ==
  ASSUME TypeOK, NEW x \in Actors,
         actor' = [actor EXCEPT ![x] = [@ EXCEPT !.step = "lock", !.work = "exit", !.seen = position]]
  PROVE  Becomes(x, "lock", "exit", actor[x].answer)
<1>1. actor[x] \in Locals /\ position \in Runs \cup {NoOne}
  BY LocalsAre DEF TypeOK
<1>2. PICK m : m = [step |-> "lock", work |-> "exit", seen |-> position, answer |-> actor[x].answer]
  OBVIOUS
<1>3. m \in Locals /\ m.step = "lock" /\ m.work = "exit" /\ m.answer = actor[x].answer
  BY <1>1, <1>2 DEF Locals, Works, Steps
<1>4. [[[actor[x] EXCEPT !.step = "lock"] EXCEPT !.work = "exit"] EXCEPT !.seen = position] = m
  BY <1>1, <1>2, RecordRedirected DEF Works, Steps
<1>5. actor' = [actor EXCEPT ![x] = m]
  BY <1>4, LocalsAre
<1> QED BY <1>3, <1>5, BecomesThis

-----------------------------------------------------------------------------
(* What each action does to handlers, journal and gate.                      *)
Wrote(o, s) ==
  CanRecord(o, s) /\ status' = [status EXCEPT ![o] = s] /\ UNCHANGED gateVars

Refused == status' = status /\ Gate!Freeze

RunDecideMoved(r) ==
  /\ r \in Actors /\ lock = r /\ actor[r].step = "decide"
  /\ Left(r) \/ (~frozen /\ Went(r, "open", actor[r].answer))
  /\ UNCHANGED <<gateVars, started, side, status, remote, position, stops, rec, slipped>>

(* RunDecide: rejected, or on to the order with the gate open.               *)
LEMMA RunDecideMoves ==
  ASSUME LInv, NEW r \in Runs, RunDecide(r)
  PROVE  RunDecideMoved(r)
BY InsideHolds, ActorsAre, StepsAre, LeaveLeft, GotoWent
   DEF LInv, RunDecide, venue, RunDecideMoved

OpenOrderMoved(a) ==
  /\ lock = a /\ Order(a) \in Orders /\ actor[a].step = "open"
  /\ \/ Wrote(Order(a), "new") /\ Went(a, "submit", actor[a].answer)
     \/ Refused /\ Left(a)
  /\ UNCHANGED <<started, side, remote, position, stops, rec, slipped>>

(* OpenOrder: journaled as new, or a refusal that freezes.                   *)
LEMMA OpenOrderMoves ==
  ASSUME LInv, NEW a \in Actors, OpenOrder(a)
  PROVE  OpenOrderMoved(a)
BY InsideHolds, OrderIsOrder, StepsAre, LeaveLeft, GotoWent
   DEF LInv, OpenOrder, Journaled, Wrote, Refused, venue, OpenOrderMoved

SubmitOrderMoved(a) ==
  /\ lock = a /\ Order(a) \in Orders /\ actor[a].step = "submit"
  /\ \/ Wrote(Order(a), "submitting") /\ Went(a, "post", actor[a].answer)
     \/ Refused /\ Left(a)
  /\ UNCHANGED <<started, side, remote, position, stops, rec, slipped>>

(* SubmitOrder: journaled as submitting, or a refusal that freezes.          *)
LEMMA SubmitOrderMoves ==
  ASSUME LInv, NEW a \in Actors, SubmitOrder(a)
  PROVE  SubmitOrderMoved(a)
BY InsideHolds, OrderIsOrder, StepsAre, LeaveLeft, GotoWent
   DEF LInv, SubmitOrder, Journaled, Wrote, Refused, venue, SubmitOrderMoved

PostOrderMoved(a) ==
  /\ lock = a /\ Order(a) \in Orders /\ actor[a].step = "post"
  /\ \/ /\ remote' = [remote EXCEPT ![Order(a)] = "live"]
        /\ Went(a, "await", actor[a].answer)
        /\ slipped' = IF frozen /\ actor[a].work = "entry" THEN slipped + 1 ELSE slipped
     \/ Went(a, "record", "refused") /\ UNCHANGED <<remote, slipped>>
     \/ /\ remote' = remote \/ remote' = [remote EXCEPT ![Order(a)] = "sent"]
        /\ Went(a, "record", "unknown") /\ UNCHANGED slipped
  /\ UNCHANGED <<gateVars, started, side, status, position, stops, rec>>

(* PostOrder: taken, refused, or nobody knows.                               *)
LEMMA PostOrderMoves ==
  ASSUME LInv, NEW a \in Actors, PostOrder(a)
  PROVE  PostOrderMoved(a)
BY InsideHolds, OrderIsOrder, StepsAre, GotoWent, GotoWithWent
   DEF LInv, PostOrder, Closing, PostOrderMoved

AwaitAnswerMoved(a) ==
  /\ lock = a /\ Order(a) \in Orders /\ actor[a].step = "await"
  /\ \E answer \in AnswersOf(a) : Went(a, "record", answer)
  /\ UNCHANGED <<gateVars, started, side, status, remote, position, stops, rec, slipped>>

(* AwaitAnswer: nothing changes but what the handler has been told.          *)
LEMMA AwaitAnswerMoves ==
  ASSUME LInv, Awaited, NEW a \in Actors, AwaitAnswer(a)
  PROVE  AwaitAnswerMoved(a)
<1> USE DEF AwaitAnswerMoved
<1>1. lock = a /\ Order(a) \in Orders
  BY InsideHolds, OrderIsOrder DEF AwaitAnswer, LInv
<1>2. AnswersOf(a) \subseteq Answers
  BY <1>1 DEF LInv, TypeOK, Awaited, AwaitAnswer, AnswersOf, Answers
<1> QED BY <1>1, <1>2, StepsAre, GotoWithWent DEF LInv, AwaitAnswer, venue

(* Unrecorded: only a close that filled goes on.                             *)
LEMMA UnrecordedMoves ==
  ASSUME TypeOK, NEW a \in Actors, Unrecorded(a)
  PROVE  IF Closing(a) /\ actor[a].answer = "filled"
           THEN Went(a, "finalize", "unrecorded") ELSE Left(a)
BY StepsAre, LeaveLeft, GotoWithWent DEF Unrecorded

RecordAnswerMoved(a) ==
  /\ lock = a /\ Order(a) \in Orders /\ actor[a].step = "record"
  /\ \/ /\ actor[a].answer = "unknown" /\ Gate!Freeze
        /\ \/ CanRecord(Order(a), "unknown")
              /\ status' = [status EXCEPT ![Order(a)] = "unknown"]
           \/ status' = status
        /\ Left(a)
     \/ /\ actor[a].answer # "unknown"
        /\ \/ /\ Wrote(Order(a), Recorded(actor[a].answer))
              /\ IF actor[a].answer \in {"refused", "dead"}
                   THEN Left(a) ELSE Went(a, "protect", actor[a].answer)
           \/ /\ Refused
              /\ IF Closing(a) /\ actor[a].answer = "filled"
                   THEN Went(a, "finalize", "unrecorded") ELSE Left(a)
  /\ UNCHANGED <<started, side, remote, position, stops, rec, slipped>>

(* RecordAnswer: an unknown outcome freezes, whatever the journal takes.     *)
LEMMA RecordAnswerMoves ==
  ASSUME LInv, NEW a \in Actors, RecordAnswer(a)
  PROVE  RecordAnswerMoved(a)
<1> USE DEF RecordAnswerMoved
<1>1. lock = a /\ Order(a) \in Orders /\ actor[a].step = "record"
  BY InsideHolds, OrderIsOrder DEF RecordAnswer, LInv
<1>2. CASE actor[a].answer = "unknown"
  BY <1>1, <1>2, LeaveLeft DEF LInv, RecordAnswer, venue
<1>3. CASE actor[a].answer # "unknown"
  <2>1. Journaled(Order(a), Recorded(actor[a].answer),
                  IF actor[a].answer \in {"refused", "dead"} THEN Leave(a) ELSE Goto(a, "protect"),
                  Unrecorded(a))
    BY <1>3 DEF RecordAnswer
  <2> QED BY <1>1, <1>3, <2>1, StepsAre, LeaveLeft, GotoWent, UnrecordedMoves
          DEF LInv, RecordAnswer, Journaled, Wrote, Refused, venue
<1> QED BY <1>2, <1>3

RecordProtectionMoved(a) ==
  /\ lock = a /\ Order(a) \in Orders /\ actor[a].step = "protect"
  /\ \/ /\ Closing(a) /\ Wrote(Order(a), "protective_placed")
        /\ IF actor[a].answer = "filled" THEN Went(a, "finalize", "filled") ELSE Left(a)
     \/ /\ Closing(a) /\ Refused
        /\ IF actor[a].answer = "filled" THEN Went(a, "finalize", "unrecorded") ELSE Left(a)
     \/ /\ ~Closing(a) /\ actor[a].answer = "protected"
        /\ Wrote(Order(a), "protective_placed") /\ Left(a)
     \/ /\ ~Closing(a) /\ actor[a].answer # "protected"
        /\ Wrote(Order(a), "protective_failed") /\ Went(a, "remediate", actor[a].answer)
     \/ ~Closing(a) /\ Refused /\ Left(a)
  /\ UNCHANGED <<started, side, remote, position, stops, rec, slipped>>

(* RecordProtection: a close passes, an entry passes only if protected.      *)
LEMMA RecordProtectionMoves ==
  ASSUME LInv, NEW a \in Actors, RecordProtection(a)
  PROVE  RecordProtectionMoved(a)
<1> USE DEF RecordProtectionMoved
<1>1. lock = a /\ Order(a) \in Orders /\ actor[a].step = "protect"
  BY InsideHolds, OrderIsOrder DEF RecordProtection, LInv
<1>2. CASE Closing(a)
  BY <1>1, <1>2, StepsAre, LeaveLeft, GotoWent, UnrecordedMoves
     DEF LInv, RecordProtection, Journaled, Wrote, Refused, venue
<1>3. CASE ~Closing(a)
  BY <1>1, <1>3, StepsAre, LeaveLeft, GotoWent
     DEF LInv, RecordProtection, Journaled, Wrote, Refused, venue
<1> QED BY <1>2, <1>3

RemediateMoved(r) ==
  /\ r \in Actors /\ lock = r /\ Order(r) = <<r, "entry">> /\ Order(r) \in Orders
  /\ actor[r].step = "remediate"
  /\ \/ /\ position = r /\ stops' = stops \cup {r} /\ Left(r)
        /\ Wrote(Order(r), "protective_placed") \/ Refused
     \/ /\ stops' = stops \/ (position = r /\ stops' = stops \cup {r})
        /\ \/ "hang" \in Windows /\ Left(r) /\ UNCHANGED <<gateVars, status>>
           \/ /\ Gate!Freeze
              /\ CanRecord(Order(r), "flattening")
              /\ status' = [status EXCEPT ![Order(r)] = "flattening"]
              /\ Went(r, "flatten", actor[r].answer)
           \/ Refused /\ Left(r)
  /\ UNCHANGED <<started, side, remote, position, rec, slipped>>

(* Remediate: a stop placed, the deadline, or the gate shut.                 *)
LEMMA RemediateMoves ==
  ASSUME LInv, NEW r \in Runs, Remediate(r)
  PROVE  RemediateMoved(r)
<1> USE DEF RemediateMoved
<1>1. /\ r \in Actors /\ lock = r /\ Order(r) \in Orders /\ actor[r].step = "remediate"
      /\ Order(r) = <<r, "entry">>
  BY InsideHolds, OrderIsOrder, ActorsAre DEF Remediate, LInv, Stations, Order
<1>2. CASE /\ position = r /\ stops' = Placed(r)
           /\ Journaled(Order(r), "protective_placed", Leave(r), Leave(r))
  BY <1>1, <1>2, LeaveLeft DEF LInv, Remediate, Placed, Journaled, Wrote, Refused
<1>3. CASE /\ stops' \in {stops, Placed(r)}
           /\ \E expired \in {FALSE} \cup (IF "hang" \in Windows THEN {TRUE} ELSE {}) :
                IF expired
                  THEN Leave(r) /\ UNCHANGED <<gateVars, status>>
                  ELSE Exhausted(r)
  <2>1. \/ "hang" \in Windows /\ Leave(r) /\ UNCHANGED <<gateVars, status>>
        \/ Exhausted(r)
    BY <1>3
  <2> QED BY <1>1, <1>3, <2>1, StepsAre, LeaveLeft, GotoWent
          DEF LInv, Remediate, Placed, Exhausted, Refused
<1> QED BY <1>2, <1>3 DEF Remediate

FlattenReadMoved(r) ==
  /\ r \in Actors /\ lock = r /\ Order(r) = <<r, "entry">> /\ Order(r) \in Orders
  /\ actor[r].step = "flatten"
  /\ \/ Left(r) /\ UNCHANGED <<gateVars, status, stops>>
     \/ /\ UNCHANGED <<gateVars, status, stops, lock>>
        /\ Becomes(r, "open", "flatten", actor[r].answer)
     \/ /\ position = NoOne /\ stops' = {} /\ Left(r)
        /\ Wrote(Order(r), "closed") \/ Refused
  /\ UNCHANGED <<started, side, remote, position, rec, slipped>>

(* FlattenRead: given up, on to the close, or found flat and cleaned up.     *)
LEMMA FlattenReadMoves ==
  ASSUME LInv, NEW r \in Runs, FlattenRead(r)
  PROVE  FlattenReadMoved(r)
<1> USE DEF FlattenReadMoved
<1>1. /\ r \in Actors /\ lock = r /\ Order(r) \in Orders /\ actor[r].step = "flatten"
      /\ Order(r) = <<r, "entry">>
  BY InsideHolds, OrderIsOrder, ActorsAre DEF FlattenRead, LInv, Stations, Order
<1>2. CASE actor' = [actor EXCEPT ![r].step = "open", ![r].work = "flatten",
                       ![r].seen = position] /\ UNCHANGED <<gateVars, status, stops, lock>>
  <2>1. Becomes(r, "open", "flatten", actor[r].answer)
    BY <1>1, <1>2, FlattenRedirects DEF LInv
  <2> QED BY <1>1, <1>2, <2>1 DEF FlattenRead
<1> QED BY <1>1, <1>2, LeaveLeft
           DEF LInv, FlattenRead, Cleared, Journaled, Wrote, Refused

FinalizeMoved(a) ==
  /\ lock = a /\ Order(a) \in Orders /\ actor[a].step = "finalize"
  /\ \/ /\ position = NoOne /\ stops' = {} /\ Went(a, "complete", actor[a].answer)
        /\ UNCHANGED gateVars
     \/ /\ stops' = stops \/ (position = NoOne /\ stops' = {})
        /\ Left(a) /\ (Gate!Freeze \/ UNCHANGED gateVars)
  /\ UNCHANGED <<started, side, status, remote, position, rec, slipped>>

(* Finalize: flat with no stop left, or given up.                            *)
LEMMA FinalizeMoves ==
  ASSUME LInv, NEW a \in Actors, Finalize(a)
  PROVE  FinalizeMoved(a)
BY InsideHolds, OrderIsOrder, StepsAre, LeaveLeft, GotoWent
   DEF LInv, Finalize, Cleared, FinalizeMoved

CompleteCloseMoved(a) ==
  /\ lock = a /\ Order(a) \in Orders /\ actor[a].step = "complete"
  /\ \/ Left(a) /\ (Gate!Freeze \/ UNCHANGED gateVars)
     \/ /\ actor[a].work = "reverse" /\ UNCHANGED <<gateVars, lock>>
        /\ Becomes(a, "decide", "entry", "none")
  /\ \/ status'[Order(a)] = "closed" 
     \/ Gate!Freeze /\ Left(a)
  /\ UNCHANGED <<started, side, remote, position, stops, rec, slipped>>

(* CompleteClose: what becomes of handler, gate and the close itself.        *)
LEMMA CompleteCloseMoves ==
  ASSUME LInv, NEW a \in Actors, CompleteClose(a)
  PROVE  CompleteCloseMoved(a)
<1> USE DEF CompleteCloseMoved
<1>1. lock = a /\ Order(a) \in Orders /\ actor[a].step = "complete"
  BY InsideHolds, OrderIsOrder DEF CompleteClose, LInv
<1>2. CASE /\ actor' = [actor EXCEPT ![a].step = "decide", ![a].work = "entry", ![a].answer = "none"]
           /\ actor[a].work = "reverse" /\ UNCHANGED <<lock, gateVars>> /\ status'[Order(a)] = "closed"
  <2>1. Becomes(a, "decide", "entry", "none")
    BY <1>1, <1>2, CloseReopens DEF LInv
  <2> QED BY <1>1, <1>2, <2>1 DEF CompleteClose, venue
<1>3. CASE Leave(a) /\ (Gate!Freeze \/ (status'[Order(a)] = "closed" /\ UNCHANGED gateVars))
  BY <1>1, <1>3, LeaveLeft DEF LInv, CompleteClose, venue
<1> QED BY <1>1, <1>2, <1>3 DEF CompleteClose

(* RunStart: an idle run takes the lock and settles on a side.               *)
LEMMA RunStartMoves ==
  ASSUME LInv, NEW r \in Runs, NEW s \in Sides, RunStart(r, s)
  PROVE  /\ r \in Actors /\ r \notin Exits /\ actor[r].step = "idle"
         /\ lock = NoOne /\ lock' = r /\ r # NoOne
         /\ "overlap" \in Windows \/ rec.step = "idle"
         /\ \E w \in {"entry", "reverse"} : Becomes(r, "decide", w, actor[r].answer)
         /\ side' = [side EXCEPT ![r] = s]
         /\ UNCHANGED <<gateVars, started, status, remote, position, stops, rec, slipped>>
<1>1. r \in Actors /\ r \notin Exits /\ r # NoOne
  BY ActorsAre
<1>2. PICK w \in {"entry", "reverse"} : w = IF position = NoOne THEN "entry" ELSE "reverse"
  OBVIOUS
<1>3. actor' = [actor EXCEPT ![r].step = "decide", ![r].seen = position, ![r].work = w]
  BY <1>2 DEF RunStart
<1>4. Becomes(r, "decide", w, actor[r].answer)
  BY <1>1, <1>3, RunStarts DEF LInv, Works
<1> QED BY <1>1, <1>4 DEF RunStart, Quiet, venue

(* ExitRead: an idle exit goes to wait for the lock.                         *)
LEMMA ExitReadMoves ==
  ASSUME LInv, NEW x \in Exits, ExitRead(x)
  PROVE  /\ x \in Actors /\ x \notin Runs /\ actor[x].step = "idle" /\ lock' = lock
         /\ Becomes(x, "lock", "exit", actor[x].answer)
         /\ UNCHANGED <<gateVars, started, side, status, remote, position, stops, rec, slipped>>
<1>1. x \in Actors /\ x \notin Runs
  BY ActorsAre
<1>2. Becomes(x, "lock", "exit", actor[x].answer)
  BY <1>1, ExitReads DEF LInv, ExitRead
<1> QED BY <1>1, <1>2 DEF ExitRead, venue

(* ExitLock: a waiting exit takes the lock.                                  *)
LEMMA ExitLockMoves ==
  ASSUME LInv, NEW x \in Exits, ExitLock(x)
  PROVE  /\ x \in Actors /\ x \notin Runs /\ actor[x].step = "lock"
         /\ lock = NoOne /\ lock' = x /\ x # NoOne
         /\ "overlap" \in Windows \/ rec.step = "idle"
         /\ Becomes(x, "open", "exit", actor[x].answer)
         /\ UNCHANGED <<gateVars, started, side, status, remote, position, stops, rec, slipped>>
<1>1. x \in Actors /\ x \notin Runs /\ x # NoOne
  BY ActorsAre
<1>2. actor[x].work = "exit" /\ actor[x].step = "lock"
  BY <1>1 DEF ExitLock, LInv, Stations
<1>3. actor[x] \in Locals
  BY <1>1, LocalsAre DEF LInv
<1>4. PICK m : m = [actor[x] EXCEPT !.step = "open"]
  OBVIOUS
<1>5. m \in Locals /\ m.step = "open" /\ m.work = "exit" /\ m.answer = actor[x].answer
  BY <1>2, <1>3, <1>4 DEF Locals, Steps
<1>6. actor' = [actor EXCEPT ![x] = m]
  BY <1>4 DEF ExitLock
<1>7. Becomes(x, "open", "exit", actor[x].answer)
  BY <1>1, <1>5, <1>6, BecomesThis DEF LInv
<1> QED BY <1>1, <1>2, <1>7 DEF ExitLock, Quiet, venue

(* Restart: handlers and reconciliation are forgotten, the gate is shut.     *)
LEMMA RestartMoves ==
  ASSUME LInv, Restart
  PROVE  /\ actor' \in [Actors -> Locals] /\ lock' = NoOne
         /\ \A a \in Actors :
              IF actor[a].step \in {"idle", "done"}
                THEN actor'[a] = actor[a]
                ELSE /\ actor'[a].step = "done" /\ actor'[a].work = "entry"
                     /\ actor'[a].answer = "none"
         /\ frozen' /\ frozen' = TRUE /\ rec' = RecIdle /\ slipped' = 0
         /\ UNCHANGED <<side, status, remote, position, stops>>
<1>1. \A a \in Actors :
        /\ Gone(a) \in Locals
        /\ Gone(a).step = "done" /\ Gone(a).work = "entry" /\ Gone(a).answer = "none"
  BY DEF LInv, TypeOK, Gone, Idle, Locals, Works, Steps, Answers
<1>2. actor' = [a \in Actors |-> IF actor[a].step \in {"idle", "done"} THEN actor[a] ELSE Gone(a)]
  BY DEF Restart
<1> QED BY <1>1, <1>2, LocalsAre DEF LInv, Restart, venue

-----------------------------------------------------------------------------
(* Types, the holder of the lock, and what is awaited.  Whatever Windows.    *)
Seats == Held /\ Stations /\ lock \in Actors \cup {NoOne} /\ actor \in [Actors -> Locals]

(* The steps a holder can go to with the work it has.                        *)
Fits(s, w) ==
  /\ s \in Steps \ {"idle", "lock", "done"}
  /\ s = "decide" => w \in {"entry", "reverse"}
  /\ s \in {"remediate", "flatten"} => w = "entry"
  /\ s \in {"finalize", "complete"} => w # "entry"

(* A holder that leaves frees the lock.                                      *)
LEMMA LeftKeepsSeats ==
  ASSUME LInv, NEW a \in Actors, lock = a, Left(a)
  PROVE  Seats'
<1>1. Held'
  BY ActorsAre DEF LInv, Held, Inside, Left, Becomes, Others
<1>2. Stations'
  BY DEF LInv, Stations, Left, Becomes, Others
<1> QED BY <1>1, <1>2 DEF Left, Becomes, Seats

(* Who takes or keeps the lock is the one inside.                            *)
LEMMA BecomesKeepsSeats ==
  ASSUME LInv, NEW a \in Actors, lock' = a, lock = a \/ lock = NoOne,
         NEW s, NEW w, Fits(s, w), w = "exit" <=> a \in Exits, NEW v, Becomes(a, s, w, v)
  PROVE  Seats'
<1>1. Held'
  BY ActorsAre DEF LInv, Held, Inside, Becomes, Others, Fits
<1>2. Stations'
  BY DEF LInv, Stations, Becomes, Others, Fits
<1> QED BY <1>1, <1>2 DEF Becomes, Seats

(* A holder that moves on stays the holder.                                  *)
LEMMA WentKeepsSeats ==
  ASSUME LInv, NEW a \in Actors, lock = a, NEW s, Fits(s, actor[a].work), NEW v, Went(a, s, v)
  PROVE  Seats'
<1>1. actor[a].work = "exit" <=> a \in Exits
  BY ActorsAre DEF LInv, Held, Inside, Stations
<1> QED BY <1>1, BecomesKeepsSeats DEF Went

(* A freeze leaves the gate well formed.                                     *)
LEMMA GateTyped ==
  ASSUME Gate!gate \in BOOLEAN \X BOOLEAN \X BOOLEAN, Gate!Freeze \/ UNCHANGED gateVars
  PROVE  Gate!gate' \in BOOLEAN \X BOOLEAN \X BOOLEAN
BY DEF Gate!gate, Gate!Freeze, gateVars

(* What may be recorded is a status.                                         *)
LEMMA RecordedTyped ==
  ASSUME TypeOK, NEW o \in Orders, NEW s, CanRecord(o, s)
  PROVE  /\ s \in Statuses
         /\ [status EXCEPT ![o] = s] \in [Orders -> Statuses \cup {"none"}]
BY DEF TypeOK, CanRecord, ValidTransition, CanTransition, Transitions, Statuses

(* A step of a handler keeps LInv if it keeps the seats and records at most  *)
(* one status of one order.                                                  *)
LEMMA HandlerKeeps ==
  ASSUME LInv, Seats', Gate!Freeze \/ UNCHANGED gateVars,
         \/ status' = status
         \/ \E o \in Orders : \E s : CanRecord(o, s) /\ status' = [status EXCEPT ![o] = s],
         stops' \subseteq Runs, side' \in [Runs -> Sides \cup {NoOne}],
         UNCHANGED <<started, remote, position, rec, slipped>>
  PROVE  LInv'
<1>1. Gate!gate' \in BOOLEAN \X BOOLEAN \X BOOLEAN
  BY GateTyped DEF LInv, TypeOK
<1>2. status' \in [Orders -> Statuses \cup {"none"}]
  BY RecordedTyped DEF LInv, TypeOK
<1>3. TypeOK'
  BY <1>1, <1>2 DEF LInv, TypeOK, Seats, Locals, Works
<1> QED BY <1>3 DEF LInv, Seats

(* The handler steps that record one status at most keep LInv.               *)
LEMMA PlainKeeps ==
  ASSUME LInv, NEW a \in Actors,
         (RunDecide(a) /\ a \in Runs) \/ OpenOrder(a) \/ SubmitOrder(a)
           \/ RecordAnswer(a) \/ RecordProtection(a) \/ Finalize(a)
           \/ (a \in Runs /\ (Remediate(a) \/ FlattenRead(a)))
  PROVE  LInv'
<1>0. /\ stops \subseteq Runs /\ side \in [Runs -> Sides \cup {NoOne}]
  BY DEF LInv, TypeOK
<1>1. CASE a \in Runs /\ RunDecide(a)
  <2>1. actor[a].work \in {"entry", "reverse"}
    BY <1>1, RunDecideMoves DEF LInv, Stations, RunDecideMoved
  <2>2. Seats'
    BY <1>1, <2>1, RunDecideMoves, LeftKeepsSeats, WentKeepsSeats, StepsAre
       DEF Fits, RunDecideMoved
  <2> QED BY <1>0, <1>1, <2>2, RunDecideMoves, HandlerKeeps DEF RunDecideMoved
<1>2. CASE OpenOrder(a)
  <2>1. Seats'
    BY <1>2, OpenOrderMoves, LeftKeepsSeats, WentKeepsSeats, StepsAre
       DEF Fits, OpenOrderMoved
  <2> QED BY <1>0, <1>2, <2>1, OpenOrderMoves, HandlerKeeps
             DEF Wrote, Refused, OpenOrderMoved
<1>3. CASE SubmitOrder(a)
  <2>1. Seats'
    BY <1>3, SubmitOrderMoves, LeftKeepsSeats, WentKeepsSeats, StepsAre
       DEF Fits, SubmitOrderMoved
  <2> QED BY <1>0, <1>3, <2>1, SubmitOrderMoves, HandlerKeeps
             DEF Wrote, Refused, SubmitOrderMoved
<1>4. CASE RecordAnswer(a)
  <2>1. Seats'
    BY <1>4, RecordAnswerMoves, LeftKeepsSeats, WentKeepsSeats, StepsAre
       DEF Fits, Closing, RecordAnswerMoved
  <2> QED BY <1>0, <1>4, <2>1, RecordAnswerMoves, HandlerKeeps
             DEF Wrote, Refused, RecordAnswerMoved
<1>5. CASE RecordProtection(a)
  <2>1. Seats'
    BY <1>5, RecordProtectionMoves, LeftKeepsSeats, WentKeepsSeats, StepsAre
       DEF Fits, Closing, RecordProtectionMoved
  <2> QED BY <1>0, <1>5, <2>1, RecordProtectionMoves, HandlerKeeps
             DEF Wrote, Refused, RecordProtectionMoved
<1>6. CASE Finalize(a)
  <2>1. actor[a].work # "entry"
    BY <1>6, FinalizeMoves DEF LInv, Stations, FinalizeMoved
  <2>2. Seats'
    BY <1>6, <2>1, FinalizeMoves, LeftKeepsSeats, WentKeepsSeats, StepsAre
       DEF Fits, FinalizeMoved
  <2>3. stops' \subseteq Runs
    BY <1>0, <1>6, FinalizeMoves DEF FinalizeMoved
  <2> QED BY <1>0, <1>6, <2>2, <2>3, FinalizeMoves, HandlerKeeps DEF FinalizeMoved
<1>7. CASE a \in Runs /\ Remediate(a)
  <2>1. actor[a].work = "entry"
    BY <1>7, RemediateMoves DEF LInv, Stations, RemediateMoved
  <2>2. Seats'
    BY <1>7, <2>1, RemediateMoves, LeftKeepsSeats, WentKeepsSeats, StepsAre
       DEF Fits, RemediateMoved
  <2>3. stops' \subseteq Runs
    BY <1>0, <1>7, RemediateMoves DEF RemediateMoved
  <2> QED BY <1>0, <1>7, <2>2, <2>3, RemediateMoves, HandlerKeeps
             DEF Wrote, Refused, RemediateMoved
<1>8. CASE a \in Runs /\ FlattenRead(a)
  <2>1. a \notin Exits /\ lock = a
    BY <1>8, FlattenReadMoves, ActorsAre DEF FlattenReadMoved
  <2>2. Seats'
    BY <1>8, <2>1, FlattenReadMoves, LeftKeepsSeats, BecomesKeepsSeats, StepsAre
       DEF Fits, FlattenReadMoved
  <2>3. stops' \subseteq Runs
    BY <1>0, <1>8, FlattenReadMoves DEF FlattenReadMoved
  <2> QED BY <1>0, <1>8, <2>2, <2>3, FlattenReadMoves, HandlerKeeps
             DEF Wrote, Refused, FlattenReadMoved
<1> QED BY <1>1, <1>2, <1>3, <1>4, <1>5, <1>6, <1>7, <1>8

(* Sending the order keeps LInv.                                             *)
LEMMA PostOrderKeeps ==
  ASSUME LInv, NEW a \in Actors, PostOrder(a)
  PROVE  LInv'
<1>1. Seats'
  BY PostOrderMoves, WentKeepsSeats, StepsAre DEF Fits, PostOrderMoved
<1>2. remote' \in [Orders -> {"absent", "sent", "live", "filled", "partial", "dead"}]
  BY PostOrderMoves DEF LInv, TypeOK, PostOrderMoved
<1>3. slipped' \in Nat
  BY PostOrderMoves DEF LInv, TypeOK, PostOrderMoved
<1>4. TypeOK'
  BY <1>1, <1>2, <1>3, PostOrderMoves
     DEF TypeOK, LInv, Locals, Works, gateVars, Gate!gate, Seats, PostOrderMoved
<1> QED BY <1>1, <1>4 DEF LInv, Seats

(* Hearing the answer keeps LInv.                                            *)
LEMMA AwaitAnswerKeeps ==
  ASSUME LInv, Awaited, NEW a \in Actors, AwaitAnswer(a)
  PROVE  LInv'
<1>1. Seats'
  BY AwaitAnswerMoves, WentKeepsSeats, StepsAre DEF Fits, AwaitAnswerMoved
<1>2. /\ stops' \subseteq Runs /\ side' \in [Runs -> Sides \cup {NoOne}]
  BY AwaitAnswerMoves DEF LInv, TypeOK, AwaitAnswerMoved
<1> QED BY <1>1, <1>2, AwaitAnswerMoves, HandlerKeeps DEF AwaitAnswerMoved

Closed(done) == [q \in Orders |-> IF q \in done THEN "closed" ELSE status[q]]

(* However far it gets, a completed close closes itself and swept orders     *)
(* only.                                                                     *)
LEMMA CloseSweeps ==
  ASSUME NEW a \in Actors, CompleteClose(a), Order(a) \in Orders
  PROVE  \E done \in SUBSET Orders :
           /\ status' = Closed(done)
           /\ \A q \in done : \/ q = Order(a) /\ CanRecord(q, "closed")
                              \/ q # Order(a) /\ status[q] \in Swept
<1> DEFINE o == Order(a)
           sources == {q \in Orders \ {o} : status[q] \in Swept}
<1>1. \/ CanRecord(o, "closed") /\ status' = Closed(sources \cup {o})
      \/ \E done \in SUBSET sources :
           status' = Closed(IF CanRecord(o, "closed") /\ done # sources THEN done \cup {o} ELSE {})
  BY DEF CompleteClose, Closed
<1>2. CASE CanRecord(o, "closed") /\ status' = Closed(sources \cup {o})
  <2>1. sources \cup {o} \in SUBSET Orders
    OBVIOUS
  <2> QED BY <1>2, <2>1
<1>3. CASE \E done \in SUBSET sources :
           status' = Closed(IF CanRecord(o, "closed") /\ done # sources THEN done \cup {o} ELSE {})
  <2>1. PICK done \in SUBSET sources :
           status' = Closed(IF CanRecord(o, "closed") /\ done # sources THEN done \cup {o} ELSE {})
    BY <1>3
  <2>2. CASE CanRecord(o, "closed") /\ done # sources
    <3>1. done \cup {o} \in SUBSET Orders /\ status' = Closed(done \cup {o})
      BY <2>1, <2>2
    <3> QED BY <2>1, <2>2, <3>1
  <2>3. CASE ~(CanRecord(o, "closed") /\ done # sources)
    <3>1. {} \in SUBSET Orders /\ status' = Closed({})
      BY <2>1, <2>3
    <3> QED BY <3>1
  <2> QED BY <2>2, <2>3
<1> QED BY <1>1, <1>2, <1>3

(* Completing a close keeps LInv.                                            *)
LEMMA CompleteCloseKeeps ==
  ASSUME LInv, NEW a \in Actors, CompleteClose(a)
  PROVE  LInv'
<1>1. Order(a) \in Orders /\ lock = a /\ (actor[a].work = "exit" <=> a \in Exits)
  BY CompleteCloseMoves DEF LInv, Stations, CompleteCloseMoved
<1>2. Seats'
  BY <1>1, CompleteCloseMoves, LeftKeepsSeats, BecomesKeepsSeats, StepsAre
     DEF Fits, CompleteCloseMoved
<1>3. status' \in [Orders -> Statuses \cup {"none"}]
  BY <1>1, CloseSweeps DEF LInv, TypeOK, Statuses, Closed
<1>4. Gate!gate' \in BOOLEAN \X BOOLEAN \X BOOLEAN
  BY CompleteCloseMoves, GateTyped DEF LInv, TypeOK, CompleteCloseMoved
<1>5. TypeOK'
  BY <1>2, <1>3, <1>4, CompleteCloseMoves
     DEF TypeOK, LInv, Locals, Works, Seats, CompleteCloseMoved
<1> QED BY <1>2, <1>5 DEF LInv, Seats

(* Starting a run or an exit keeps LInv.                                     *)
LEMMA StartKeeps ==
  ASSUME LInv,
         (\E r \in Runs, s \in Sides : RunStart(r, s))
           \/ (\E x \in Exits : ExitRead(x) \/ ExitLock(x))
  PROVE  LInv'
<1>1. ASSUME NEW r \in Runs, NEW s \in Sides, RunStart(r, s) PROVE LInv'
  <2>1. Seats'
    BY <1>1, RunStartMoves, BecomesKeepsSeats, StepsAre DEF Fits
  <2>2. side' \in [Runs -> Sides \cup {NoOne}] /\ stops \subseteq Runs
    BY <1>1, RunStartMoves DEF LInv, TypeOK
  <2> QED BY <1>1, <2>1, <2>2, RunStartMoves, HandlerKeeps
<1>2. ASSUME NEW x \in Exits, ExitRead(x) PROVE LInv'
  <2>1. Held'
    BY <1>2, ExitReadMoves DEF LInv, Held, Inside, Becomes, Others
  <2>2. Stations'
    BY <1>2, ExitReadMoves DEF LInv, Stations, Becomes, Others
  <2>3. Seats'
    BY <1>2, <2>1, <2>2, ExitReadMoves DEF LInv, TypeOK, Seats, Becomes
  <2>4. side \in [Runs -> Sides \cup {NoOne}] /\ stops \subseteq Runs
    BY DEF LInv, TypeOK
  <2> QED BY <1>2, <2>3, <2>4, ExitReadMoves, HandlerKeeps
<1>3. ASSUME NEW x \in Exits, ExitLock(x) PROVE LInv'
  <2>1. Seats'
    BY <1>3, ExitLockMoves, BecomesKeepsSeats, StepsAre DEF Fits
  <2>2. side \in [Runs -> Sides \cup {NoOne}] /\ stops \subseteq Runs
    BY DEF LInv, TypeOK
  <2> QED BY <1>3, <2>1, <2>2, ExitLockMoves, HandlerKeeps
<1> QED BY <1>1, <1>2, <1>3

(* A restart keeps LInv.                                                     *)
LEMMA RestartKeeps ==
  ASSUME LInv, Restart
  PROVE  LInv'
<1>1. Held'
  BY RestartMoves, ActorsAre DEF LInv, Held, Inside
<1>2. Stations'
  BY RestartMoves DEF LInv, Stations
<1>3. TypeOK'
  BY RestartMoves DEF Restart, LInv, TypeOK, Locals, Works, Gate!gate, RecIdle, venue
<1> QED BY <1>1, <1>2, <1>3 DEF LInv

(* So do exchange, monitor and process.                                      *)
LEMMA EnvironmentKeeps ==
  ASSUME LInv, Environment
  PROVE  LInv'
<1>1. CASE \E o \in Orders : Arrive(o)
  <2>1. UNCHANGED <<lock, actor>> /\ TypeOK'
    BY <1>1 DEF Arrive, LInv, TypeOK, gateVars, Gate!gate
  <2> QED BY <2>1 DEF LInv, Held, Stations, Inside
<1>2. CASE \E o \in Orders : Settle(o)
  <2>1. PICK o \in Orders : Settle(o)
    BY <1>2
  <2>2. position' \in Runs \cup {NoOne} /\ stops' \subseteq Runs
    BY <2>1 DEF Settle, Orders, Netted, LInv, TypeOK
  <2>3. remote' \in [Orders -> {"absent", "sent", "live", "filled", "partial", "dead"}]
    BY <2>1 DEF Settle, LInv, TypeOK
  <2>4. UNCHANGED <<lock, actor>> /\ TypeOK'
    BY <2>1, <2>2, <2>3 DEF Settle, LInv, TypeOK, gateVars, Gate!gate
  <2> QED BY <2>4 DEF LInv, Held, Stations, Inside
<1>3. CASE \E s \in Runs : StopTriggers(s)
  <2>1. UNCHANGED <<lock, actor>> /\ TypeOK'
    BY <1>3 DEF StopTriggers, LInv, TypeOK, gateVars, Gate!gate
  <2> QED BY <2>1 DEF LInv, Held, Stations, Inside
<1>4. CASE MonitorFreezes
  <2>1. UNCHANGED <<lock, actor>> /\ TypeOK'
    BY <1>4, GateTyped DEF MonitorFreezes, LInv, TypeOK, venue
  <2> QED BY <2>1 DEF LInv, Held, Stations, Inside
<1> QED BY <1>1, <1>2, <1>3, <1>4, RestartKeeps DEF Environment

RecSteps == {"idle", "read", "list", "orders", "gaps", "end"}
Recs == [step : RecSteps, position : Runs \cup {NoOne},
         todo : SUBSET (Orders \X Statuses), bad : BOOLEAN]

(* Checked takes one order off the list and may spoil the verdict.           *)
LEMMA CheckedMoves ==
  ASSUME TypeOK, NEW t, NEW d \in BOOLEAN, Checked(t, d)
  PROVE  /\ rec' \in Recs
         /\ rec'.step = rec.step /\ rec'.position = rec.position
         /\ rec'.todo = rec.todo \ {t} /\ rec'.bad = (rec.bad \/ d)
<1>1. rec \in Recs
  BY DEF TypeOK, Recs, RecSteps
<1>2. PICK q : q = [rec EXCEPT !.todo = rec.todo \ {t}]
  OBVIOUS
<1>3. /\ q \in Recs
      /\ q.step = rec.step /\ q.position = rec.position
      /\ q.todo = rec.todo \ {t} /\ q.bad = rec.bad
  BY <1>1, <1>2 DEF Recs
<1>4. PICK b \in BOOLEAN : b = (rec.bad \/ d)
  OBVIOUS
<1>5. rec' = [q EXCEPT !.bad = b]
  BY <1>1, <1>2, <1>4 DEF Checked, Recs
<1>6. [q EXCEPT !.bad = b]
        = [step |-> q.step, position |-> q.position, todo |-> q.todo, bad |-> b]
  BY <1>3 DEF Recs
<1> QED BY <1>3, <1>4, <1>5, <1>6 DEF Recs

(* Aborted ends the reconciliation with a bad verdict.                       *)
LEMMA AbortedMoves ==
  ASSUME TypeOK, rec' = [rec EXCEPT !.step = "end", !.todo = {}, !.bad = TRUE]
  PROVE  /\ rec' \in Recs
         /\ rec'.step = "end" /\ rec'.position = rec.position
         /\ rec'.todo = {} /\ rec'.bad = TRUE
<1>1. rec \in Recs
  BY DEF TypeOK, Recs, RecSteps
<1>2. PICK q : q = [rec EXCEPT !.step = "end"]
  OBVIOUS
<1>3. q \in Recs /\ q.step = "end" /\ q.position = rec.position
  BY <1>1, <1>2 DEF Recs, RecSteps
<1>4. PICK p : p = [q EXCEPT !.todo = {}]
  OBVIOUS
<1>5. p \in Recs /\ p.step = "end" /\ p.position = rec.position /\ p.todo = {}
  BY <1>3, <1>4 DEF Recs
<1>6. PICK b \in BOOLEAN : b = TRUE
  OBVIOUS
<1>7. [p EXCEPT !.bad = b]
        = [step |-> p.step, position |-> p.position, todo |-> p.todo, bad |-> b]
  BY <1>5 DEF Recs
<1>8. rec' = [p EXCEPT !.bad = b]
  BY <1>2, <1>4, <1>6
<1> QED BY <1>5, <1>6, <1>7, <1>8 DEF Recs

RecordsOne(t) ==
  /\ \E d \in BOOLEAN : Checked(t, d) \/ Aborted
  /\ Gate!Freeze \/ UNCHANGED gateVars
  /\ status' = status \/ \E s \in Statuses : status' = [status EXCEPT ![t[1]] = s]
  /\ stops' = stops \/ (rec.position = NoOne /\ stops' = {})

(* An order that rests on the position is recorded once at most.             *)
LEMMA RestingRecords ==
  ASSUME TypeOK, NEW t \in rec.todo, t[1] \in Orders, ReconcileResting(t)
  PROVE  RecordsOne(t)
<1>1. CASE rec.position = NoOne
  BY <1>1, RecordedTyped DEF ReconcileResting, Cleared, Journaled, RecordsOne
<1>2. CASE rec.position # NoOne
  <2>1. PICK d \in BOOLEAN : d = (t[2] \in {"protective_failed", "flattening"})
    <3>1. (t[2] \in {"protective_failed", "flattening"}) \in BOOLEAN
      OBVIOUS
    <3> QED BY <3>1
  <2>2. CASE t[2] = "filled"
    <3>1. PICK s : Journaled(t[1], s, Checked(t, FALSE), Aborted)
      BY <1>2, <2>2 DEF ReconcileResting
    <3> QED BY <1>2, <3>1, RecordedTyped DEF ReconcileResting, Journaled, RecordsOne
  <2>3. CASE t[2] # "filled"
    <3>1. Checked(t, d)
      BY <1>2, <2>1, <2>3 DEF ReconcileResting, Checked
    <3> QED BY <1>2, <2>3, <3>1 DEF ReconcileResting, RecordsOne
  <2> QED BY <2>2, <2>3
<1> QED BY <1>1, <1>2

(* So is one that was never submitted.                                       *)
LEMMA NewRecords ==
  ASSUME TypeOK, NEW t \in rec.todo, t[1] \in Orders, ReconcileNew(t)
  PROVE  RecordsOne(t)
BY RecordedTyped DEF ReconcileNew, Journaled, RecordsOne

(* So is one whose outcome was not known.                                    *)
LEMMA InFlightRecords ==
  ASSUME TypeOK, NEW t \in rec.todo, t[1] \in Orders, ReconcileInFlight(t)
  PROVE  RecordsOne(t)
<1> DEFINE o == t[1]
           was == t[2]
           now == RemoteStatus(o)
<1>1. UNCHANGED stops
  BY DEF ReconcileInFlight
<1>2. CASE NotFound(o) \/ now = was \/ ~CanTransition(was, now)
  BY <1>1, <1>2 DEF ReconcileInFlight, RecordsOne
<1>3. CASE ~(NotFound(o) \/ now = was \/ ~CanTransition(was, now)) /\ now = "filled"
  <2>1. LookedUp(o) \subseteq Statuses /\ "filled" \in Statuses
    BY DEF LookedUp, Restored, Statuses
  <2> QED BY <1>1, <1>3, <2>1 DEF ReconcileInFlight, RecordsOne
<1>4. CASE ~(NotFound(o) \/ now = was \/ ~CanTransition(was, now)) /\ now # "filled"
  <2>1. PICK d \in BOOLEAN : d = (now # "canceled")
    OBVIOUS
  <2>2. Journaled(o, now, Checked(t, d), Aborted)
    BY <1>4, <2>1 DEF ReconcileInFlight
  <2> QED BY <1>1, <2>2, RecordedTyped DEF Journaled, RecordsOne
<1> QED BY <1>2, <1>3, <1>4

(* Reconciliation keeps LInv.                                                *)
LEMMA ReconcileKeeps ==
  ASSUME LInv, Reconcile
  PROVE  LInv'
<1>1. UNCHANGED <<lock, actor, side, remote, position>>
  BY DEF Reconcile, ReconcileBegin, ReconcileRead, ReconcileList, ReconcileFails,
         ReconcileOrder, ReconcileGaps, ReconcileEnd, venue
<1>2. Held' /\ Stations'
  BY <1>1 DEF LInv, Held, Stations, Inside
<1>3. CASE ReconcileBegin \/ ReconcileRead \/ ReconcileList \/ ReconcileGaps
  <2>1. rec' \in Recs
    <3>1. CASE ReconcileBegin
      BY <3>1 DEF ReconcileBegin, LInv, TypeOK, Recs, RecSteps
    <3>2. CASE ReconcileRead
      BY <3>2 DEF ReconcileRead, LInv, TypeOK, Recs, RecSteps
    <3>3. CASE ReconcileList
      <4> DEFINE open == {o \in Orders : status[o] \notin Terminal \cup {"none"}}
                 todo == {<<o, status[o]>> : o \in open}
      <4>1. todo \in SUBSET (Orders \X Statuses)
        BY DEF LInv, TypeOK
      <4>2. rec' = [rec EXCEPT !.step = "orders", !.todo = todo]
        BY <3>3 DEF ReconcileList
      <4> HIDE DEF todo
      <4> QED BY <4>1, <4>2 DEF LInv, TypeOK, Recs, RecSteps
    <3>4. CASE ReconcileGaps
      BY <3>4 DEF ReconcileGaps, LInv, TypeOK, Recs, RecSteps
    <3> QED BY <1>3, <3>1, <3>2, <3>3, <3>4
  <2>2. Gate!gate' \in BOOLEAN \X BOOLEAN \X BOOLEAN
    BY <1>3 DEF ReconcileBegin, ReconcileRead, ReconcileList, ReconcileGaps, Gate!Begin,
                LInv, TypeOK, gateVars, Gate!gate
  <2>3. UNCHANGED <<started, status, stops, slipped>>
    BY <1>3 DEF ReconcileBegin, ReconcileRead, ReconcileList, ReconcileGaps, venue
  <2> QED BY <1>1, <1>2, <2>1, <2>2, <2>3 DEF LInv, TypeOK, Recs, RecSteps
<1>4. CASE ReconcileFails
  <2>1. rec' \in Recs
    BY <1>4, AbortedMoves DEF ReconcileFails, LInv
  <2> QED BY <1>1, <1>2, <1>4, <2>1
             DEF ReconcileFails, venue, LInv, TypeOK, Recs, RecSteps, gateVars,
                 Gate!gate
<1>5. CASE ReconcileEnd
  BY <1>1, <1>2, <1>5
     DEF ReconcileEnd, Gate!Complete, RecIdle, venue, LInv, TypeOK, Gate!gate
<1>6. CASE ReconcileOrder
  <2>1. PICK t \in rec.todo : ReconcileResting(t) \/ ReconcileNew(t) \/ ReconcileInFlight(t)
    BY <1>6 DEF ReconcileOrder
  <2>2. TypeOK /\ t[1] \in Orders /\ t[2] \in Statuses
    BY DEF LInv, TypeOK
  <2>3. RecordsOne(t)
    BY <2>1, <2>2, RestingRecords, NewRecords, InFlightRecords DEF LInv
  <2>4. rec' \in Recs
    BY <2>2, <2>3, CheckedMoves, AbortedMoves DEF RecordsOne, Aborted
  <2>5. Gate!gate' \in BOOLEAN \X BOOLEAN \X BOOLEAN
    BY <2>2, <2>3, GateTyped DEF RecordsOne, TypeOK
  <2>6. status' \in [Orders -> Statuses \cup {"none"}] /\ stops' \subseteq Runs
    BY <2>2, <2>3 DEF RecordsOne, TypeOK
  <2>7. UNCHANGED <<started, slipped>>
    BY <1>6 DEF ReconcileOrder
  <2> QED BY <1>1, <1>2, <2>4, <2>5, <2>6, <2>7 DEF LInv, TypeOK, Recs, RecSteps
<1> QED BY <1>3, <1>4, <1>5, <1>6 DEF Reconcile

-----------------------------------------------------------------------------
(* One entry at most passes its last check before a freeze stops the rest.   *)
Slip ==
  /\ slipped \in {0, 1}
  /\ slipped = 1 => frozen
  /\ \A a \in Actors :
       actor[a].step \in {"open", "submit", "post"} /\ actor[a].work = "entry" => slipped = 0

SInv == LInv /\ Awaited /\ Slip

(* SInv holds at the start.                                                  *)
LEMMA SlipStarts == Init => SInv
<1> SUFFICES ASSUME Init PROVE SInv
  OBVIOUS
<1>1. TypeOK
  BY DEF Init, TypeOK, Gate!gate, Gate!Shut, Idle, RecIdle, Steps, Answers, Statuses
<1>2. Held /\ Stations /\ Awaited /\ Slip
  BY ActorsAre DEF Init, Held, Inside, Stations, Awaited, Slip, Idle, Gate!Shut
<1> QED BY <1>1, <1>2 DEF SInv, LInv

(* Every step on an order keeps SInv; only PostOrder can let an entry        *)
(* slip.                                                                     *)
LEMMA OrderStepsSlip ==
  ASSUME SInv, NEW a \in Actors, OrderStep(a)
  PROVE  SInv'
<1>1. CASE OpenOrder(a)
  <2>1. LInv'
    BY <1>1, PlainKeeps DEF SInv
  <2>2. Awaited'
    BY <1>1, OpenOrderMoves
       DEF SInv, LInv, Held, Inside, Awaited, Left, Went, Becomes, Others, Order,
           OpenOrderMoved
  <2>3. Slip'
    BY <1>1, OpenOrderMoves
       DEF SInv, LInv, Held, Inside, Slip, Left, Went, Becomes, Others, Wrote, Refused,
           Gate!Freeze, gateVars, OpenOrderMoved
  <2> QED BY <2>1, <2>2, <2>3 DEF SInv
<1>2. CASE SubmitOrder(a)
  <2>1. LInv'
    BY <1>2, PlainKeeps DEF SInv
  <2>2. Awaited'
    BY <1>2, SubmitOrderMoves
       DEF SInv, LInv, Held, Inside, Awaited, Left, Went, Becomes, Others, Order,
           SubmitOrderMoved
  <2>3. Slip'
    BY <1>2, SubmitOrderMoves
       DEF SInv, LInv, Held, Inside, Slip, Left, Went, Becomes, Others, Wrote, Refused,
           Gate!Freeze, gateVars, SubmitOrderMoved
  <2> QED BY <2>1, <2>2, <2>3 DEF SInv
<1>3. CASE PostOrder(a)
  <2>1. LInv'
    BY <1>3, PostOrderKeeps DEF SInv
  <2>2. Awaited'
    <3>1. \A b \in Actors : actor'[b].step = "await" => b = a /\ Order(a)' = Order(a)
      BY <1>3, PostOrderMoves
         DEF SInv, LInv, Held, Inside, Went, Becomes, Others, Order, PostOrderMoved
    <3>2. actor'[a].step = "await" => remote' = [remote EXCEPT ![Order(a)] = "live"]
      BY <1>3, PostOrderMoves DEF SInv, Went, Becomes, PostOrderMoved
    <3>3. Order(a) \in Orders /\ remote \in [Orders -> {"absent", "sent", "live", "filled", "partial", "dead"}]
      BY <1>3, PostOrderMoves DEF SInv, LInv, TypeOK, PostOrderMoved
    <3> QED BY <3>1, <3>2, <3>3 DEF Awaited
  <2>3. Slip'
    BY <1>3, PostOrderMoves
       DEF SInv, LInv, Held, Inside, Slip, Left, Went, Becomes, Others, gateVars,
           PostOrderMoved
  <2> QED BY <2>1, <2>2, <2>3 DEF SInv
<1>4. CASE AwaitAnswer(a)
  <2>1. LInv'
    BY <1>4, AwaitAnswerKeeps DEF SInv
  <2>2. Awaited'
    BY <1>4, AwaitAnswerMoves
       DEF SInv, LInv, Held, Inside, Awaited, Left, Went, Becomes, Others, Order,
           AwaitAnswerMoved
  <2>3. Slip'
    BY <1>4, AwaitAnswerMoves
       DEF SInv, LInv, Held, Inside, Slip, Left, Went, Becomes, Others, gateVars,
           AwaitAnswerMoved
  <2> QED BY <2>1, <2>2, <2>3 DEF SInv
<1>5. CASE RecordAnswer(a)
  <2>1. LInv'
    BY <1>5, PlainKeeps DEF SInv
  <2>2. Awaited'
    BY <1>5, RecordAnswerMoves
       DEF SInv, LInv, Held, Inside, Awaited, Left, Went, Becomes, Others, Order,
           RecordAnswerMoved
  <2>3. Slip'
    BY <1>5, RecordAnswerMoves
       DEF SInv, LInv, Held, Inside, Slip, Left, Went, Becomes, Others, Wrote, Refused,
           Gate!Freeze, gateVars, Closing, RecordAnswerMoved
  <2> QED BY <2>1, <2>2, <2>3 DEF SInv
<1>6. CASE RecordProtection(a)
  <2>1. LInv'
    BY <1>6, PlainKeeps DEF SInv
  <2>2. Awaited'
    BY <1>6, RecordProtectionMoves
       DEF SInv, LInv, Held, Inside, Awaited, Left, Went, Becomes, Others, Order,
           RecordProtectionMoved
  <2>3. Slip'
    BY <1>6, RecordProtectionMoves
       DEF SInv, LInv, Held, Inside, Slip, Left, Went, Becomes, Others, Wrote, Refused,
           Gate!Freeze, gateVars, Closing, RecordProtectionMoved
  <2> QED BY <2>1, <2>2, <2>3 DEF SInv
<1>7. CASE Finalize(a)
  <2>1. LInv'
    BY <1>7, PlainKeeps DEF SInv
  <2>2. Awaited'
    BY <1>7, FinalizeMoves
       DEF SInv, LInv, Held, Inside, Awaited, Left, Went, Becomes, Others, Order,
           FinalizeMoved
  <2>3. Slip'
    BY <1>7, FinalizeMoves
       DEF SInv, LInv, Held, Inside, Slip, Left, Went, Becomes, Others, Gate!Freeze,
           gateVars, FinalizeMoved
  <2> QED BY <2>1, <2>2, <2>3 DEF SInv
<1>8. CASE CompleteClose(a)
  <2>1. LInv'
    BY <1>8, CompleteCloseKeeps DEF SInv
  <2>2. Awaited'
    BY <1>8, CompleteCloseMoves
       DEF SInv, LInv, Held, Inside, Awaited, Left, Went, Becomes, Others, Order,
           CompleteCloseMoved
  <2>3. Slip'
    BY <1>8, CompleteCloseMoves
       DEF SInv, LInv, Held, Inside, Slip, Left, Went, Becomes, Others, Gate!Freeze,
           gateVars, CompleteCloseMoved
  <2> QED BY <2>1, <2>2, <2>3 DEF SInv
<1> QED BY <1>1, <1>2, <1>3, <1>4, <1>5, <1>6, <1>7, <1>8 DEF OrderStep

(* A run's other steps keep SInv; RunDecide lets nobody by a shut gate.      *)
LEMMA RunStepsSlip ==
  ASSUME SInv, NEW r \in Runs, RunStep(r)
  PROVE  SInv'
<1>0. r \in Actors
  BY ActorsAre
<1>1. CASE RunDecide(r)
  <2>1. LInv'
    BY <1>0, <1>1, PlainKeeps DEF SInv
  <2>2. Awaited'
    BY <1>1, RunDecideMoves
       DEF SInv, LInv, Held, Inside, Awaited, Left, Went, Becomes, Others, Order,
           RunDecideMoved
  <2>3. Slip'
    BY <1>1, RunDecideMoves
       DEF SInv, LInv, Held, Inside, Slip, Left, Went, Becomes, Others, Wrote, Refused,
           Gate!Freeze, gateVars, RunDecideMoved
  <2> QED BY <2>1, <2>2, <2>3 DEF SInv
<1>2. CASE Remediate(r)
  <2>1. LInv'
    BY <1>0, <1>2, PlainKeeps DEF SInv
  <2>2. Awaited'
    BY <1>2, RemediateMoves
       DEF SInv, LInv, Held, Inside, Awaited, Left, Went, Becomes, Others, Order,
           RemediateMoved
  <2>3. Slip'
    BY <1>2, RemediateMoves
       DEF SInv, LInv, Held, Inside, Slip, Left, Went, Becomes, Others, Wrote, Refused,
           Gate!Freeze, gateVars, RemediateMoved
  <2> QED BY <2>1, <2>2, <2>3 DEF SInv
<1>3. CASE FlattenRead(r)
  <2>1. LInv'
    BY <1>0, <1>3, PlainKeeps DEF SInv
  <2>2. Awaited'
    BY <1>3, FlattenReadMoves
       DEF SInv, LInv, Held, Inside, Awaited, Left, Went, Becomes, Others, Order,
           FlattenReadMoved
  <2>3. Slip'
    BY <1>3, FlattenReadMoves
       DEF SInv, LInv, Held, Inside, Slip, Left, Went, Becomes, Others, Wrote, Refused,
           Gate!Freeze, gateVars, FlattenReadMoved
  <2> QED BY <2>1, <2>2, <2>3 DEF SInv
<1> QED BY <1>1, <1>2, <1>3 DEF RunStep

(* Starting keeps SInv.                                                      *)
LEMMA StartsSlip ==
  ASSUME SInv,
         (\E r \in Runs, s \in Sides : RunStart(r, s))
           \/ (\E x \in Exits : ExitRead(x) \/ ExitLock(x))
  PROVE  SInv'
<1>1. LInv'
  BY StartKeeps DEF SInv
<1>2. ASSUME NEW r \in Runs, NEW s \in Sides, RunStart(r, s) PROVE Awaited' /\ Slip'
  BY <1>2, RunStartMoves DEF SInv, Awaited, Slip, Becomes, Others, Order, gateVars
<1>3. ASSUME NEW x \in Exits, ExitRead(x) PROVE Awaited' /\ Slip'
  BY <1>3, ExitReadMoves DEF SInv, Awaited, Slip, Becomes, Others, Order, gateVars
<1>4. ASSUME NEW x \in Exits, ExitLock(x) PROVE Awaited' /\ Slip'
  BY <1>4, ExitLockMoves DEF SInv, Awaited, Slip, Becomes, Others, Order, gateVars
<1> QED BY <1>1, <1>2, <1>3, <1>4 DEF SInv

(* Exchange, monitor and process keep SInv.                                  *)
LEMMA EnvironmentSlips ==
  ASSUME SInv, Environment
  PROVE  SInv'
<1>1. LInv'
  BY EnvironmentKeeps DEF SInv
<1>2. CASE \E o \in Orders : Arrive(o)
  BY <1>1, <1>2 DEF SInv, LInv, TypeOK, Awaited, Slip, Order, Arrive, gateVars
<1>3. CASE \E o \in Orders : Settle(o)
  <2>1. PICK o \in Orders : Settle(o)
    BY <1>3
  <2>2. /\ \E outcome \in {"filled", "partial", "dead"} : remote' = [remote EXCEPT ![o] = outcome]
        /\ UNCHANGED <<gateVars, actor, slipped>>
    BY <2>1 DEF Settle
  <2> QED BY <1>1, <2>2 DEF SInv, LInv, TypeOK, Awaited, Slip, Order, gateVars
<1>4. CASE (\E s \in Runs : StopTriggers(s)) \/ MonitorFreezes
  BY <1>1, <1>4 DEF SInv, LInv, Awaited, Slip, Order, StopTriggers, MonitorFreezes,
                    Gate!Freeze, gateVars, venue
<1>5. CASE Restart
  BY <1>1, <1>5, RestartMoves DEF SInv, LInv, Awaited, Slip, Order
<1> QED BY <1>2, <1>3, <1>4, <1>5 DEF Environment

(* Reconciliation keeps SInv; the count starts over when the gate opens.     *)
LEMMA ReconcileSlips ==
  ASSUME SInv, Reconcile
  PROVE  SInv'
<1>1. LInv'
  BY ReconcileKeeps DEF SInv
<1>2. UNCHANGED <<actor, remote>>
  BY DEF Reconcile, ReconcileBegin, ReconcileRead, ReconcileList, ReconcileFails,
         ReconcileOrder, ReconcileGaps, ReconcileEnd, venue
<1>3. Awaited'
  BY <1>2 DEF SInv, Awaited, Order
<1>4. CASE ReconcileBegin \/ ReconcileRead \/ ReconcileList \/ ReconcileFails \/ ReconcileGaps
  <2>1. Slip'
    BY <1>2, <1>4
       DEF SInv, Slip, ReconcileBegin, ReconcileRead, ReconcileList, ReconcileFails,
                      ReconcileGaps, Gate!Begin, gateVars
  <2> QED BY <1>1, <1>3, <2>1 DEF SInv
<1>5. CASE ReconcileOrder
  <2>1. PICK t \in rec.todo : ReconcileResting(t) \/ ReconcileNew(t) \/ ReconcileInFlight(t)
    BY <1>5 DEF ReconcileOrder
  <2>2. Gate!Freeze \/ UNCHANGED gateVars
    <3>1. TypeOK /\ t[1] \in Orders
      BY DEF SInv, LInv, TypeOK
    <3> QED BY <2>1, <3>1, RestingRecords, NewRecords, InFlightRecords DEF RecordsOne
  <2>3. slipped' = slipped
    BY <1>5 DEF ReconcileOrder
  <2>4. Slip'
    BY <1>2, <2>2, <2>3 DEF SInv, Slip, Gate!Freeze, gateVars
  <2> QED BY <1>1, <1>3, <2>4 DEF SInv
<1>6. CASE ReconcileEnd
  <2>1. frozen' \in BOOLEAN
    BY <1>1 DEF LInv, TypeOK, Gate!gate
  <2>2. Slip'
    BY <1>2, <1>6, <2>1 DEF SInv, Slip, ReconcileEnd
  <2> QED BY <1>1, <1>3, <2>2 DEF SInv
<1> QED BY <1>4, <1>5, <1>6 DEF Reconcile

(* SInv is inductive.                                                        *)
LEMMA SInvNext == SInv /\ [Next]_vars => SInv'
<1> SUFFICES ASSUME SInv, [Next]_vars PROVE SInv'
  OBVIOUS
<1>1. CASE UNCHANGED vars
  BY <1>1
     DEF SInv, LInv, TypeOK, Held, Inside, Stations, Awaited, Slip, Order, vars,
         gateVars,
              venue, Gate!gate
<1> QED BY <1>1, OrderStepsSlip, RunStepsSlip, StartsSlip, EnvironmentSlips,
           ReconcileSlips
        DEF Next, ExitStep

(* Every variable keeps its type, whatever windows the environment hits.     *)
THEOREM TypesHold == Spec => []TypeOK
<1>1. SInv => TypeOK
  BY DEF SInv, LInv
<1> QED BY <1>1, SlipStarts, SInvNext, PTL DEF Spec

(* SafetyState.Freeze (runtime/safety.go) stops every entry but the one      *)
(* already past its last checkNewPosition, however many runs, exits and      *)
(* windows there are: the lock lets one handler by at a time, and a          *)
(* handler let by found the gate open.                                       *)
THEOREM FreezeStopsEntries == Spec => []SlipAtMostOne
<1>1. SInv => SlipAtMostOne
  BY DEF SInv, Slip, SlipAtMostOne
<1> QED BY <1>1, SlipStarts, SInvNext, PTL DEF Spec

-----------------------------------------------------------------------------
(* A reconciliation has the symbol to itself, and the position it read can   *)
(* only have been closed since.                                              *)
Alone ==
  /\ rec.step # "idle" => lock = NoOne
  /\ rec.step # "gaps"
  /\ \A t \in rec.todo : rec.step = "orders" /\ status[t[1]] = t[2]
  /\ rec.step \in {"list", "orders"} => position \in {rec.position, NoOne}
  /\ rec.step = "end" /\ ~rec.bad => position \in {rec.position, NoOne}

(* The orders actor a has still to open.                                     *)
FreshOf(a) ==
  /\ actor[a].step \in {"idle", "lock"} => \A o \in Orders : o[1] = a => status[o] = "none"
  /\ actor[a].step \in {"decide", "open"} => status[Order(a)] = "none"
  /\ a \in Runs /\ Inside(a) /\ actor[a].work \in {"entry", "reverse"}
       => status[<<a, "flatten">>] = "none"
  /\ a \in Runs /\ actor[a].work = "reverse" => status[<<a, "entry">>] = "none"

(* What actor a, at work, knows of its order at each of its steps.           *)
OwnOf(a) ==
  /\ actor[a].step = "submit" => status[Order(a)] = "new"
  /\ actor[a].step = "post" => status[Order(a)] = "submitting" /\ remote[Order(a)] = "absent"
  /\ actor[a].step = "await" => status[Order(a)] = "submitting"
  /\ actor[a].step = "record" =>
       /\ status[Order(a)] = "submitting"
       /\ actor[a].answer \in {"refused", "unknown", "dead", "partial", "filled", "protected"}
  /\ actor[a].step = "protect" =>
       /\ status[Order(a)] = Recorded(actor[a].answer)
       /\ actor[a].answer \in {"partial", "filled", "protected"}
  /\ actor[a].step \in {"record", "protect"} =>
       /\ actor[a].answer = "refused" => remote[Order(a)] = "absent"
       /\ actor[a].answer = "dead" => remote[Order(a)] = "dead"
       /\ actor[a].answer = "partial" => remote[Order(a)] = "partial"
       /\ actor[a].answer \in {"filled", "protected"} => remote[Order(a)] = "filled"
  /\ actor[a].step = "remediate" => status[Order(a)] = "protective_failed"
  /\ actor[a].step = "flatten" => status[Order(a)] = "flattening"
  /\ actor[a].step \in {"finalize", "complete"} =>
       /\ remote[Order(a)] = "filled"
       /\ \/ actor[a].answer = "filled" /\ status[Order(a)] = "protective_placed"
          \/ /\ actor[a].answer = "unrecorded" /\ frozen
             /\ status[Order(a)] \in {"submitting", "filled"}

(* The journal against the exchange.                                         *)
KnownOf(o) ==
  /\ status[o] \in {"none", "new"} => remote[o] = "absent"
  /\ remote[o] \in {"sent", "live"} => status[o] \in {"submitting", "unknown", "acknowledged"}

(* An order in flight is the one at work, or the gate is shut; and no        *)
(* reconciliation overlooks it.                                              *)
DoubtOf(o) ==
  status[o] \in InFlight =>
    /\ frozen \/ (lock # NoOne /\ o = Order(lock))
    /\ rec.step = "orders" => <<o, status[o]>> \in rec.todo \/ rec.bad
    /\ rec.step = "end" => rec.bad

(* Positions and stops come from entries that the exchange filled and the    *)
(* journal has open; while a close completes, none of them is swept.         *)
Opened(r) ==
  /\ remote[<<r, "entry">>] \in {"filled", "partial"}
  /\ status[<<r, "entry">>] \notin Terminal \cup {"none", "new"}
  /\ lock # NoOne /\ actor[lock].step = "complete" => status[<<r, "entry">>] \notin Swept

Journal ==
  /\ Alone
  /\ \A a \in Actors : FreshOf(a) /\ OwnOf(a)
  /\ \A o \in Orders : KnownOf(o) /\ DoubtOf(o)
  /\ \A r \in Runs : position = r \/ r \in stops => Opened(r)

JInv == SInv /\ Journal

(* The types the journal's proofs use.                                       *)
LEMMA StatusIs ==
  ASSUME SInv
  PROVE  /\ status \in [Orders -> Statuses \cup {"none"}]
         /\ remote \in [Orders -> {"absent", "sent", "live", "filled", "partial", "dead"}]
         /\ stops \subseteq Runs /\ position \in Runs \cup {NoOne}
         /\ frozen \in BOOLEAN /\ lock \in Actors \cup {NoOne} /\ actor \in [Actors -> Locals]
         /\ \A r \in Runs : <<r, "entry">> \in Orders /\ <<r, "flatten">> \in Orders
BY LocalsAre DEF SInv, LInv, TypeOK, Gate!gate, Orders

(* No reconciliation runs while an actor has the lock.                       *)
LEMMA Serial ==
  ASSUME JInv, NEW a \in Actors, lock = a
  PROVE  /\ rec.step = "idle" /\ rec.todo = {} /\ a # NoOne
         /\ \A b \in Actors \ {a} : actor[b].step \in {"idle", "lock", "done"}
<1>1. a # NoOne
  BY ActorsAre
<1>2. rec.step = "idle" /\ rec.todo = {}
  BY <1>1 DEF JInv, Journal, SInv, LInv, TypeOK, Alone
<1> QED BY <1>1, <1>2 DEF JInv, SInv, LInv, Held, Inside

(* An actor that waits or is done knows nothing but that its orders are      *)
(* still to be opened.                                                       *)
LEMMA OutsideKeeps ==
  ASSUME JInv, NEW b \in Actors, actor[b].step \in {"idle", "lock", "done"},
         actor'[b] = actor[b],
         \A o \in Orders : o[1] = b /\ status[o] = "none" => status'[o] = "none"
  PROVE  FreshOf(b)' /\ OwnOf(b)'
<1>1. actor[b].work # "reverse"
  BY ActorsAre DEF JInv, SInv, LInv, Stations
<1>2. FreshOf(b)
  BY DEF JInv, Journal
<1>3. FreshOf(b)'
  BY <1>1, <1>2 DEF FreshOf, Inside
<1>4. OwnOf(b)'
  BY DEF OwnOf
<1> QED BY <1>3, <1>4

(* An actor that has left knows nothing.                                     *)
LEMMA LeftKnows ==
  ASSUME NEW a \in Actors, Left(a)
  PROVE  FreshOf(a)' /\ OwnOf(a)'
<1>1. actor'[a].step = "done" /\ actor'[a].work = "entry"
  BY DEF Left, Becomes
<1> QED BY <1>1 DEF FreshOf, OwnOf, Inside

(* Moving on with the order in hand leaves the other orders unopened.        *)
LEMMA WentFresh ==
  ASSUME JInv, NEW a \in Actors, lock = a, Order(a) \in Orders,
         NEW s, NEW v, Went(a, s, v), s \notin {"idle", "lock", "decide"},
         s = "open" => status'[Order(a)] = "none",
         \A q \in Orders \ {Order(a)} : status'[q] = status[q]
  PROVE  FreshOf(a)'
<1>1. actor'[a].step = s /\ actor'[a].work = actor[a].work
  BY DEF Went, Becomes
<1>2. FreshOf(a) /\ Inside(a)
  BY ActorsAre DEF JInv, Journal, SInv, LInv, Held
<1>3. a \in Runs => <<a, "flatten">> \in Orders /\ <<a, "entry">> \in Orders
  BY DEF Orders
<1>4. Order(a)' = Order(a)
  BY <1>1 DEF Order
<1>5. a \in Runs /\ actor[a].work \in {"entry", "reverse"} => status'[<<a, "flatten">>] = "none"
  BY <1>2, <1>3 DEF FreshOf, Order
<1>6. a \in Runs /\ actor[a].work = "reverse" => status'[<<a, "entry">>] = "none"
  BY <1>2, <1>3 DEF FreshOf, Order
<1> QED BY <1>1, <1>4, <1>5, <1>6 DEF FreshOf

(* What a step of the handler at work leaves alone, and what it must show of *)
(* its own order, for the journal to stay consistent.                        *)
Kept(a) ==
  /\ rec' = rec /\ position' = position /\ stops' \subseteq stops \cup {position}
  /\ frozen => frozen'
  /\ lock' \in {a, NoOne} /\ Others(a)
  /\ \A q \in Orders \ {Order(a)} : status'[q] = status[q] /\ remote'[q] = remote[q]

Shown(a, o) ==
  /\ status'[o] \in {"none", "new"} => remote'[o] = "absent"
  /\ remote'[o] \in {"sent", "live"} => status'[o] \in {"submitting", "unknown", "acknowledged"}
  /\ status'[o] \in InFlight => frozen' \/ (lock' = a /\ actor'[a].work = actor[a].work)
  /\ \A r \in Runs : o = <<r, "entry">> /\ (position = r \/ r \in stops') =>
       /\ remote'[o] \in {"filled", "partial"}
       /\ status'[o] \notin Terminal \cup {"none", "new"}
  /\ lock' = a /\ actor'[a].step = "complete" => position = NoOne /\ stops' = {}

(* A handler's step that keeps the rest and shows its own order keeps        *)
(* Journal.                                                                  *)
LEMMA HandlerKnows ==
  ASSUME JInv, NEW a \in Actors, lock = a, NEW o \in Orders, o = Order(a), Kept(a),
         FreshOf(a)', OwnOf(a)', Shown(a, o)
  PROVE  Journal'
<1>1. /\ rec.step = "idle" /\ rec.todo = {} /\ a # NoOne /\ rec' = rec
      /\ \A b \in Actors \ {a} : actor[b].step \in {"idle", "lock", "done"}
  BY Serial DEF Kept
<1>2. Alone'
  BY <1>1 DEF Alone
<1>3. ASSUME NEW b \in Actors PROVE FreshOf(b)' /\ OwnOf(b)'
  <2>1. CASE b = a
    BY <2>1
  <2>2. CASE b # a
    <3>1. \A q \in Orders : q[1] = b => status'[q] = status[q]
      BY <2>2 DEF Kept, Order
    <3>2. actor'[b] = actor[b] /\ actor[b].step \in {"idle", "lock", "done"}
      BY <1>1, <2>2 DEF Kept, Others
    <3> QED BY <3>1, <3>2, OutsideKeeps
  <2> QED BY <2>1, <2>2
<1>4. ASSUME NEW q \in Orders PROVE KnownOf(q)' /\ DoubtOf(q)'
  <2>1. CASE q = o
    <3>1. KnownOf(q)'
      BY <2>1 DEF Shown, KnownOf
    <3>2. lock' = a /\ actor'[a].work = actor[a].work => q = <<lock', actor'[lock'].work>>
      BY <2>1 DEF Order
    <3>3. DoubtOf(q)'
      BY <1>1, <2>1, <3>2 DEF Shown, DoubtOf, Order
    <3> QED BY <3>1, <3>3
  <2>2. CASE q # o
    <3>1. KnownOf(q) /\ DoubtOf(q)
      BY DEF JInv, Journal
    <3>2. status'[q] = status[q] /\ remote'[q] = remote[q]
      BY <2>2 DEF Kept
    <3>3. KnownOf(q)'
      BY <3>1, <3>2 DEF KnownOf
    <3>4. DoubtOf(q)'
      BY <1>1, <2>2, <3>1, <3>2 DEF DoubtOf, Kept
    <3> QED BY <3>3, <3>4
  <2> QED BY <2>1, <2>2
<1>5. ASSUME NEW r \in Runs, position' = r \/ r \in stops' PROVE Opened(r)'
  <2>1. position = r \/ r \in stops
    BY <1>5 DEF Kept
  <2>2. Opened(r) /\ <<r, "entry">> \in Orders
    BY <2>1 DEF JInv, Journal, Orders
  <2>3. /\ remote'[<<r, "entry">>] \in {"filled", "partial"}
        /\ status'[<<r, "entry">>] \notin Terminal \cup {"none", "new"}
    BY <1>5, <2>1, <2>2 DEF Opened, Kept, Shown
  <2>4. ~(lock' # NoOne /\ actor'[lock'].step = "complete")
    <3>1. r # NoOne
      BY ActorsAre
    <3> QED BY <1>5, <3>1 DEF Kept, Shown
  <2> QED BY <2>3, <2>4 DEF Opened
<1> QED BY <1>2, <1>3, <1>4, <1>5 DEF Journal

(* What the handler at work knows before its step.                           *)
LEMMA AtWork ==
  ASSUME JInv, NEW a \in Actors, lock = a
  PROVE  /\ a # NoOne /\ rec.step = "idle"
         /\ Order(a) \in Orders /\ FreshOf(a) /\ OwnOf(a)
         /\ status[Order(a)] \in {"none", "new"} => remote[Order(a)] = "absent"
         /\ remote[Order(a)] \in {"sent", "live"}
              => status[Order(a)] \in {"submitting", "unknown", "acknowledged"}
         /\ \A r \in Runs : Order(a) = <<r, "entry">> /\ (position = r \/ r \in stops) =>
              /\ remote[Order(a)] \in {"filled", "partial"}
              /\ status[Order(a)] \notin Terminal \cup {"none", "new"}
<1>1. actor[a].step \notin {"idle", "done"}
  BY DEF JInv, SInv, LInv, Held, Inside
<1>2. Order(a) \in Orders
  BY <1>1, OrderIsOrder DEF JInv, SInv, LInv
<1> QED BY <1>2, Serial DEF JInv, Journal, KnownOf, Opened

(* The decision touches no order.                                            *)
LEMMA RunDecideKnows ==
  ASSUME JInv, NEW r \in Runs, RunDecide(r)
  PROVE  Journal'
<1>1. RunDecideMoved(r) /\ r \in Actors /\ lock = r
  BY RunDecideMoves, ActorsAre DEF JInv, SInv, RunDecideMoved
<1>2. PICK o \in Orders : o = Order(r)
  BY <1>1, AtWork
<1>3. Kept(r)
  BY <1>1, <1>2, StatusIs
     DEF Kept, RunDecideMoved, Left, Went, Becomes, Others, JInv, gateVars
<1>4. ASSUME Left(r)
      PROVE  FreshOf(r)' /\ OwnOf(r)' /\ Shown(r, o)
  <2>1. FreshOf(r)' /\ OwnOf(r)'
    BY <1>1, <1>4, LeftKnows
  <2>2. Shown(r, o)
    BY <1>1, <1>2, <1>4, AtWork, StatusIs
       DEF Shown, RunDecideMoved, Left, OwnOf, FreshOf, InFlight, Terminal, Kept, JInv,
           gateVars
  <2> QED BY <2>1, <2>2
<1>5. ASSUME ~frozen, Went(r, "open", actor[r].answer)
      PROVE  FreshOf(r)' /\ OwnOf(r)' /\ Shown(r, o)
  <2>1. FreshOf(r)'
    BY <1>1, <1>2, <1>5, AtWork, StatusIs, WentFresh
       DEF FreshOf, JInv, RunDecideMoved, gateVars
  <2>a. actor'[r].step = "open" /\ actor'[r].answer = actor[r].answer /\ Order(r)' = o
    BY <1>2, <1>5 DEF Went, Becomes, Order
  <2>2. OwnOf(r)'
    BY <2>a DEF OwnOf
  <2>3. Shown(r, o)
    BY <1>1, <1>2, <1>5, AtWork, StatusIs
       DEF Shown, RunDecideMoved, Went, Becomes, OwnOf, FreshOf, InFlight, Terminal,
           Kept, JInv, gateVars
  <2> QED BY <2>1, <2>2, <2>3
<1> QED BY <1>1, <1>2, <1>3, <1>4, <1>5, HandlerKnows DEF RunDecideMoved

(* The new order is the one at work; a refusal freezes.                      *)
LEMMA OpenOrderKnows ==
  ASSUME JInv, NEW a \in Actors, OpenOrder(a)
  PROVE  Journal'
<1>1. OpenOrderMoved(a) /\ a \in Actors /\ lock = a
  BY OpenOrderMoves, ActorsAre DEF JInv, SInv, OpenOrderMoved
<1>2. PICK o \in Orders : o = Order(a)
  BY <1>1, AtWork
<1>3. Kept(a)
  BY <1>1, <1>2, StatusIs
     DEF Kept, OpenOrderMoved, Left, Went, Becomes, Others, JInv, Wrote, Refused,
         Gate!Freeze, gateVars
<1>4. ASSUME Wrote(Order(a), "new"), Went(a, "submit", actor[a].answer)
      PROVE  FreshOf(a)' /\ OwnOf(a)' /\ Shown(a, o)
  <2>1. FreshOf(a)'
    BY <1>1, <1>2, <1>4, AtWork, StatusIs, WentFresh
       DEF FreshOf, JInv, OpenOrderMoved, Wrote, Refused, Gate!Freeze, gateVars
  <2>a. actor'[a].step = "submit" /\ actor'[a].answer = actor[a].answer /\ Order(a)' = o
    BY <1>2, <1>4 DEF Went, Becomes, Order
  <2>b. status'[o] = "new"
    BY <1>1, <1>2, <1>4, AtWork, StatusIs
       DEF OwnOf, OpenOrderMoved, FreshOf, JInv, Wrote, Refused, Gate!Freeze, gateVars
  <2>2. OwnOf(a)'
    BY <2>a, <2>b DEF OwnOf, Recorded
  <2>3. Shown(a, o)
    BY <2>b, <1>1, <1>2, <1>4, AtWork, StatusIs
       DEF Shown, OpenOrderMoved, Went, Becomes, OwnOf, FreshOf, InFlight, Terminal,
           Kept, JInv, Wrote, Refused, Gate!Freeze, gateVars
  <2> QED BY <2>1, <2>2, <2>3
<1>5. ASSUME Refused /\ Left(a)
      PROVE  FreshOf(a)' /\ OwnOf(a)' /\ Shown(a, o)
  <2>1. FreshOf(a)' /\ OwnOf(a)'
    BY <1>1, <1>5, LeftKnows
  <2>2. Shown(a, o)
    BY <1>1, <1>2, <1>5, AtWork, StatusIs
       DEF Shown, OpenOrderMoved, Left, OwnOf, FreshOf, InFlight, Terminal, Kept, JInv,
           Wrote, Refused, Gate!Freeze, gateVars
  <2> QED BY <2>1, <2>2
<1> QED BY <1>1, <1>2, <1>3, <1>4, <1>5, HandlerKnows DEF OpenOrderMoved

(* The same for the order about to be sent.                                  *)
LEMMA SubmitOrderKnows ==
  ASSUME JInv, NEW a \in Actors, SubmitOrder(a)
  PROVE  Journal'
<1>1. SubmitOrderMoved(a) /\ a \in Actors /\ lock = a
  BY SubmitOrderMoves, ActorsAre DEF JInv, SInv, SubmitOrderMoved
<1>2. PICK o \in Orders : o = Order(a)
  BY <1>1, AtWork
<1>3. Kept(a)
  BY <1>1, <1>2, StatusIs
     DEF Kept, SubmitOrderMoved, Left, Went, Becomes, Others, JInv, Wrote, Refused,
         Gate!Freeze, gateVars
<1>4. ASSUME Wrote(Order(a), "submitting"), Went(a, "post", actor[a].answer)
      PROVE  FreshOf(a)' /\ OwnOf(a)' /\ Shown(a, o)
  <2>1. FreshOf(a)'
    BY <1>1, <1>2, <1>4, AtWork, StatusIs, WentFresh
       DEF FreshOf, JInv, SubmitOrderMoved, Wrote, Refused, Gate!Freeze, gateVars
  <2>a. actor'[a].step = "post" /\ actor'[a].answer = actor[a].answer /\ Order(a)' = o
    BY <1>2, <1>4 DEF Went, Becomes, Order
  <2>b. status'[o] = "submitting" /\ remote'[o] = "absent"
    BY <1>1, <1>2, <1>4, AtWork, StatusIs
       DEF OwnOf, SubmitOrderMoved, FreshOf, JInv, Wrote, Refused, Gate!Freeze,
           gateVars
  <2>2. OwnOf(a)'
    BY <2>a, <2>b DEF OwnOf, Recorded
  <2>3. Shown(a, o)
    BY <2>b, <1>1, <1>2, <1>4, AtWork, StatusIs
       DEF Shown, SubmitOrderMoved, Went, Becomes, OwnOf, FreshOf, InFlight, Terminal,
           Kept, JInv, Wrote, Refused, Gate!Freeze, gateVars
  <2> QED BY <2>1, <2>2, <2>3
<1>5. ASSUME Refused /\ Left(a)
      PROVE  FreshOf(a)' /\ OwnOf(a)' /\ Shown(a, o)
  <2>1. FreshOf(a)' /\ OwnOf(a)'
    BY <1>1, <1>5, LeftKnows
  <2>2. Shown(a, o)
    BY <1>1, <1>2, <1>5, AtWork, StatusIs
       DEF Shown, SubmitOrderMoved, Left, OwnOf, FreshOf, InFlight, Terminal, Kept,
           JInv, Wrote, Refused, Gate!Freeze, gateVars
  <2> QED BY <2>1, <2>2
<1> QED BY <1>1, <1>2, <1>3, <1>4, <1>5, HandlerKnows DEF SubmitOrderMoved

(* What is sent is recorded as submitting already.                           *)
LEMMA PostOrderKnows ==
  ASSUME JInv, NEW a \in Actors, PostOrder(a)
  PROVE  Journal'
<1>1. PostOrderMoved(a) /\ a \in Actors /\ lock = a
  BY PostOrderMoves, ActorsAre DEF JInv, SInv, PostOrderMoved
<1>2. PICK o \in Orders : o = Order(a)
  BY <1>1, AtWork
<1>3. Kept(a)
  BY <1>1, <1>2, StatusIs
     DEF Kept, PostOrderMoved, Left, Went, Becomes, Others, JInv, gateVars
<1>4. ASSUME remote' = [remote EXCEPT ![Order(a)] = "live"], Went(a, "await", actor[a].answer)
      PROVE  FreshOf(a)' /\ OwnOf(a)' /\ Shown(a, o)
  <2>1. FreshOf(a)'
    BY <1>1, <1>2, <1>4, AtWork, StatusIs, WentFresh
       DEF FreshOf, JInv, PostOrderMoved, gateVars
  <2>a. actor'[a].step = "await" /\ actor'[a].answer = actor[a].answer /\ Order(a)' = o
    BY <1>2, <1>4 DEF Went, Becomes, Order
  <2>b. status'[o] = "submitting"
    BY <1>1, <1>2, <1>4, AtWork, StatusIs
       DEF OwnOf, PostOrderMoved, FreshOf, JInv, gateVars
  <2>2. OwnOf(a)'
    BY <2>a, <2>b DEF OwnOf, Recorded
  <2>3. Shown(a, o)
    BY <2>b, <1>1, <1>2, <1>4, AtWork, StatusIs
       DEF Shown, PostOrderMoved, Went, Becomes, OwnOf, FreshOf, InFlight, Terminal,
           Kept, JInv, gateVars
  <2> QED BY <2>1, <2>2, <2>3
<1>5. ASSUME Went(a, "record", "refused"), UNCHANGED remote
      PROVE  FreshOf(a)' /\ OwnOf(a)' /\ Shown(a, o)
  <2>1. FreshOf(a)'
    BY <1>1, <1>2, <1>5, AtWork, StatusIs, WentFresh
       DEF FreshOf, JInv, PostOrderMoved, gateVars
  <2>a. actor'[a].step = "record" /\ actor'[a].answer = "refused" /\ Order(a)' = o
    BY <1>2, <1>5 DEF Went, Becomes, Order
  <2>b. status'[o] = "submitting" /\ remote'[o] = "absent"
    BY <1>1, <1>2, <1>5, AtWork, StatusIs
       DEF OwnOf, PostOrderMoved, FreshOf, JInv, gateVars
  <2>2. OwnOf(a)'
    BY <2>a, <2>b DEF OwnOf, Recorded
  <2>3. Shown(a, o)
    BY <2>b, <1>1, <1>2, <1>5, AtWork, StatusIs
       DEF Shown, PostOrderMoved, Went, Becomes, OwnOf, FreshOf, InFlight, Terminal,
           Kept, JInv, gateVars
  <2> QED BY <2>1, <2>2, <2>3
<1>6. ASSUME remote' = remote \/ remote' = [remote EXCEPT ![Order(a)] = "sent"], Went(a, "record", "unknown")
      PROVE  FreshOf(a)' /\ OwnOf(a)' /\ Shown(a, o)
  <2>1. FreshOf(a)'
    BY <1>1, <1>2, <1>6, AtWork, StatusIs, WentFresh
       DEF FreshOf, JInv, PostOrderMoved, gateVars
  <2>a. actor'[a].step = "record" /\ actor'[a].answer = "unknown" /\ Order(a)' = o
    BY <1>2, <1>6 DEF Went, Becomes, Order
  <2>b. status'[o] = "submitting"
    BY <1>1, <1>2, <1>6, AtWork, StatusIs
       DEF OwnOf, PostOrderMoved, FreshOf, JInv, gateVars
  <2>2. OwnOf(a)'
    BY <2>a, <2>b DEF OwnOf, Recorded
  <2>3. Shown(a, o)
    BY <2>b, <1>1, <1>2, <1>6, AtWork, StatusIs
       DEF Shown, PostOrderMoved, Went, Becomes, OwnOf, FreshOf, InFlight, Terminal,
           Kept, JInv, gateVars
  <2> QED BY <2>1, <2>2, <2>3
<1> QED BY <1>1, <1>2, <1>3, <1>4, <1>5, <1>6, HandlerKnows DEF PostOrderMoved

(* The answer is what the exchange shows, or unknown.                        *)
LEMMA AwaitAnswerKnows ==
  ASSUME JInv, NEW a \in Actors, AwaitAnswer(a)
  PROVE  Journal'
<1>1. AwaitAnswerMoved(a) /\ a \in Actors /\ lock = a
  BY AwaitAnswerMoves, ActorsAre DEF JInv, SInv, AwaitAnswerMoved
<1>2. PICK o \in Orders : o = Order(a)
  BY <1>1, AtWork
<1>3. Kept(a)
  BY <1>1, <1>2, StatusIs
     DEF Kept, AwaitAnswerMoved, Left, Went, Becomes, Others, JInv, gateVars,
         AnswersOf, Awaited, SInv, Verified, Closing, Order
<1>4. ASSUME NEW answer \in AnswersOf(a), Went(a, "record", answer)
      PROVE  FreshOf(a)' /\ OwnOf(a)' /\ Shown(a, o)
  <2>1. FreshOf(a)'
    BY <1>1, <1>2, <1>4, AtWork, StatusIs, WentFresh
       DEF FreshOf, JInv, AwaitAnswerMoved, gateVars, AnswersOf, Awaited, SInv,
           Verified, Closing, Order
  <2>a. actor'[a].step = "record" /\ actor'[a].answer = answer /\ Order(a)' = o
    BY <1>2, <1>4 DEF Went, Becomes, Order
  <2>b. /\ status'[o] = "submitting" /\ answer \in {"unknown", "dead", "partial", "filled", "protected"}
        /\ answer = "dead" => remote'[o] = "dead"
        /\ answer = "partial" => remote'[o] = "partial"
        /\ answer \in {"filled", "protected"} => remote'[o] = "filled"
    <3>1. status'[o] = "submitting" /\ remote'[o] = remote[o]
      BY <1>1, <1>2, AtWork DEF OwnOf, AwaitAnswerMoved
    <3>2. remote[o] \in {"live", "filled", "partial", "dead"}
      BY <1>1, <1>2 DEF JInv, SInv, Awaited, AwaitAnswerMoved
    <3>3. \/ answer = remote[o] /\ remote[o] # "live"
          \/ answer = "unknown"
          \/ answer = "protected" /\ remote[o] = "filled"
      BY <1>2 DEF AnswersOf, Verified, Closing, Order
    <3> QED BY <3>1, <3>2, <3>3
  <2>2. OwnOf(a)'
    BY <2>a, <2>b DEF OwnOf, Recorded
  <2>3. Shown(a, o)
    <3>1. actor'[a].step = "record" /\ actor'[a].work = actor[a].work /\ lock' = a
      BY <1>1, <1>4 DEF Went, Becomes
    <3>2. status'[o] = status[o] /\ remote'[o] = remote[o] /\ stops' = stops
      BY <1>1 DEF AwaitAnswerMoved
    <3> QED BY <2>b, <3>1, <3>2, <1>1, <1>2, AtWork DEF Shown
  <2> QED BY <2>1, <2>2, <2>3
<1> QED BY <1>1, <1>2, <1>3, <1>4, HandlerKnows DEF AwaitAnswerMoved

(* What is journaled is the answer; an unknown one shuts the gate.           *)
LEMMA RecordAnswerKnows ==
  ASSUME JInv, NEW a \in Actors, RecordAnswer(a)
  PROVE  Journal'
<1>1. RecordAnswerMoved(a) /\ a \in Actors /\ lock = a
  BY RecordAnswerMoves, ActorsAre DEF JInv, SInv, RecordAnswerMoved
<1>2. PICK o \in Orders : o = Order(a)
  BY <1>1, AtWork
<1>3. Kept(a)
  BY <1>1, <1>2, StatusIs
     DEF Kept, RecordAnswerMoved, Left, Went, Becomes, Others, JInv, Wrote, Refused,
         Gate!Freeze, gateVars, Recorded
<1>4. ASSUME actor[a].answer = "unknown", Gate!Freeze,
             \/ status' = [status EXCEPT ![Order(a)] = "unknown"] \/ status' = status,
             Left(a)
      PROVE  FreshOf(a)' /\ OwnOf(a)' /\ Shown(a, o)
  <2>1. FreshOf(a)' /\ OwnOf(a)'
    BY <1>1, <1>4, LeftKnows
  <2>2. Shown(a, o)
    BY <1>1, <1>2, <1>4, AtWork, StatusIs
       DEF Shown, RecordAnswerMoved, Left, OwnOf, FreshOf, InFlight, Terminal, Kept,
           JInv, Wrote, Refused, Gate!Freeze, gateVars, Recorded
  <2> QED BY <2>1, <2>2
<1>5. ASSUME Wrote(Order(a), Recorded(actor[a].answer)),
             actor[a].answer \in {"refused", "dead"} /\ Left(a)
      PROVE  FreshOf(a)' /\ OwnOf(a)' /\ Shown(a, o)
  <2>1. FreshOf(a)' /\ OwnOf(a)'
    BY <1>1, <1>5, LeftKnows
  <2>2. Shown(a, o)
    BY <1>1, <1>2, <1>5, AtWork, StatusIs
       DEF Shown, RecordAnswerMoved, Left, OwnOf, FreshOf, InFlight, Terminal, Kept,
           JInv, Wrote, Refused, Gate!Freeze, gateVars, Recorded
  <2> QED BY <2>1, <2>2
<1>6. ASSUME actor[a].answer \notin {"unknown", "refused", "dead"},
             Wrote(Order(a), Recorded(actor[a].answer)), Went(a, "protect", actor[a].answer)
      PROVE  FreshOf(a)' /\ OwnOf(a)' /\ Shown(a, o)
  <2>1. FreshOf(a)'
    BY <1>1, <1>2, <1>6, AtWork, StatusIs, WentFresh
       DEF FreshOf, JInv, RecordAnswerMoved, Wrote, Refused, Gate!Freeze, gateVars,
           Recorded
  <2>a. actor'[a].step = "protect" /\ actor'[a].answer = actor[a].answer /\ Order(a)' = o
    BY <1>2, <1>6 DEF Went, Becomes, Order
  <2>b. /\ status'[o] = Recorded(actor[a].answer)
        /\ actor[a].answer \in {"partial", "filled", "protected"}
        /\ actor[a].answer = "partial" => remote'[o] = "partial"
        /\ actor[a].answer # "partial" => remote'[o] = "filled"
    BY <1>1, <1>2, <1>6, AtWork, StatusIs
       DEF OwnOf, RecordAnswerMoved, FreshOf, JInv, Wrote, Refused, Gate!Freeze,
           gateVars, Recorded
  <2>2. OwnOf(a)'
    BY <2>a, <2>b DEF OwnOf, Recorded
  <2>3. Shown(a, o)
    BY <2>b, <1>1, <1>2, <1>6, AtWork, StatusIs
       DEF Shown, RecordAnswerMoved, Went, Becomes, OwnOf, FreshOf, InFlight, Terminal,
           Kept, JInv, Wrote, Refused, Gate!Freeze, gateVars, Recorded
  <2> QED BY <2>1, <2>2, <2>3
<1>7. ASSUME Refused, actor[a].answer = "filled", Went(a, "finalize", "unrecorded")
      PROVE  FreshOf(a)' /\ OwnOf(a)' /\ Shown(a, o)
  <2>1. FreshOf(a)'
    BY <1>1, <1>2, <1>7, AtWork, StatusIs, WentFresh
       DEF FreshOf, JInv, RecordAnswerMoved, Wrote, Refused, Gate!Freeze, gateVars,
           Recorded
  <2>a. actor'[a].step = "finalize" /\ actor'[a].answer = "unrecorded" /\ Order(a)' = o
    BY <1>2, <1>7 DEF Went, Becomes, Order
  <2>b. status'[o] = "submitting" /\ remote'[o] = "filled" /\ frozen'
    BY <1>1, <1>2, <1>7, AtWork, StatusIs
       DEF OwnOf, RecordAnswerMoved, FreshOf, JInv, Wrote, Refused, Gate!Freeze,
           gateVars, Recorded
  <2>2. OwnOf(a)'
    BY <2>a, <2>b DEF OwnOf, Recorded
  <2>3. Shown(a, o)
    BY <2>b, <1>1, <1>2, <1>7, AtWork, StatusIs
       DEF Shown, RecordAnswerMoved, Went, Becomes, OwnOf, FreshOf, InFlight, Terminal,
           Kept, JInv, Wrote, Refused, Gate!Freeze, gateVars, Recorded
  <2> QED BY <2>1, <2>2, <2>3
<1>8. ASSUME Refused /\ Left(a)
      PROVE  FreshOf(a)' /\ OwnOf(a)' /\ Shown(a, o)
  <2>1. FreshOf(a)' /\ OwnOf(a)'
    BY <1>1, <1>8, LeftKnows
  <2>2. Shown(a, o)
    BY <1>1, <1>2, <1>8, AtWork, StatusIs
       DEF Shown, RecordAnswerMoved, Left, OwnOf, FreshOf, InFlight, Terminal, Kept,
           JInv, Wrote, Refused, Gate!Freeze, gateVars, Recorded
  <2> QED BY <2>1, <2>2
<1> QED BY <1>1, <1>2, <1>3, <1>4, <1>5, <1>6, <1>7, <1>8, HandlerKnows
           DEF RecordAnswerMoved

(* The order leaves the statuses in flight, or the gate is shut.             *)
LEMMA RecordProtectionKnows ==
  ASSUME JInv, NEW a \in Actors, RecordProtection(a)
  PROVE  Journal'
<1>1. RecordProtectionMoved(a) /\ a \in Actors /\ lock = a
  BY RecordProtectionMoves, ActorsAre DEF JInv, SInv, RecordProtectionMoved
<1>2. PICK o \in Orders : o = Order(a)
  BY <1>1, AtWork
<1>3. Kept(a)
  BY <1>1, <1>2, StatusIs
     DEF Kept, RecordProtectionMoved, Left, Went, Becomes, Others, JInv, Wrote,
         Refused, Gate!Freeze, gateVars, Recorded
<1>4. ASSUME Wrote(Order(a), "protective_placed"), actor[a].answer = "filled", Went(a, "finalize", "filled")
      PROVE  FreshOf(a)' /\ OwnOf(a)' /\ Shown(a, o)
  <2>1. FreshOf(a)'
    BY <1>1, <1>2, <1>4, AtWork, StatusIs, WentFresh
       DEF FreshOf, JInv, RecordProtectionMoved, Wrote, Refused, Gate!Freeze, gateVars,
           Recorded
  <2>a. actor'[a].step = "finalize" /\ actor'[a].answer = "filled" /\ Order(a)' = o
    BY <1>2, <1>4 DEF Went, Becomes, Order
  <2>b. status'[o] = "protective_placed" /\ remote'[o] = "filled"
    BY <1>1, <1>2, <1>4, AtWork, StatusIs
       DEF OwnOf, RecordProtectionMoved, FreshOf, JInv, Wrote, Refused, Gate!Freeze,
           gateVars, Recorded
  <2>2. OwnOf(a)'
    BY <2>a, <2>b DEF OwnOf, Recorded
  <2>3. Shown(a, o)
    BY <2>b, <1>1, <1>2, <1>4, AtWork, StatusIs
       DEF Shown, RecordProtectionMoved, Went, Becomes, OwnOf, FreshOf, InFlight,
           Terminal, Kept, JInv, Wrote, Refused, Gate!Freeze, gateVars, Recorded
  <2> QED BY <2>1, <2>2, <2>3
<1>5. ASSUME Wrote(Order(a), "protective_placed") /\ Left(a)
      PROVE  FreshOf(a)' /\ OwnOf(a)' /\ Shown(a, o)
  <2>1. FreshOf(a)' /\ OwnOf(a)'
    BY <1>1, <1>5, LeftKnows
  <2>2. Shown(a, o)
    BY <1>1, <1>2, <1>5, AtWork, StatusIs
       DEF Shown, RecordProtectionMoved, Left, OwnOf, FreshOf, InFlight, Terminal,
           Kept, JInv, Wrote, Refused, Gate!Freeze, gateVars, Recorded
  <2> QED BY <2>1, <2>2
<1>6. ASSUME Refused, actor[a].answer = "filled", Went(a, "finalize", "unrecorded")
      PROVE  FreshOf(a)' /\ OwnOf(a)' /\ Shown(a, o)
  <2>1. FreshOf(a)'
    BY <1>1, <1>2, <1>6, AtWork, StatusIs, WentFresh
       DEF FreshOf, JInv, RecordProtectionMoved, Wrote, Refused, Gate!Freeze, gateVars,
           Recorded
  <2>a. actor'[a].step = "finalize" /\ actor'[a].answer = "unrecorded" /\ Order(a)' = o
    BY <1>2, <1>6 DEF Went, Becomes, Order
  <2>b. status'[o] = "filled" /\ remote'[o] = "filled" /\ frozen'
    BY <1>1, <1>2, <1>6, AtWork, StatusIs
       DEF OwnOf, RecordProtectionMoved, FreshOf, JInv, Wrote, Refused, Gate!Freeze,
           gateVars, Recorded
  <2>2. OwnOf(a)'
    BY <2>a, <2>b DEF OwnOf, Recorded
  <2>3. Shown(a, o)
    BY <2>b, <1>1, <1>2, <1>6, AtWork, StatusIs
       DEF Shown, RecordProtectionMoved, Went, Becomes, OwnOf, FreshOf, InFlight,
           Terminal, Kept, JInv, Wrote, Refused, Gate!Freeze, gateVars, Recorded
  <2> QED BY <2>1, <2>2, <2>3
<1>7. ASSUME Wrote(Order(a), "protective_failed"), Went(a, "remediate", actor[a].answer)
      PROVE  FreshOf(a)' /\ OwnOf(a)' /\ Shown(a, o)
  <2>1. FreshOf(a)'
    BY <1>1, <1>2, <1>7, AtWork, StatusIs, WentFresh
       DEF FreshOf, JInv, RecordProtectionMoved, Wrote, Refused, Gate!Freeze, gateVars,
           Recorded
  <2>a. actor'[a].step = "remediate" /\ actor'[a].answer = actor[a].answer /\ Order(a)' = o
    BY <1>2, <1>7 DEF Went, Becomes, Order
  <2>b. status'[o] = "protective_failed"
    BY <1>1, <1>2, <1>7, AtWork, StatusIs
       DEF OwnOf, RecordProtectionMoved, FreshOf, JInv, Wrote, Refused, Gate!Freeze,
           gateVars, Recorded
  <2>2. OwnOf(a)'
    BY <2>a, <2>b DEF OwnOf, Recorded
  <2>3. Shown(a, o)
    BY <2>b, <1>1, <1>2, <1>7, AtWork, StatusIs
       DEF Shown, RecordProtectionMoved, Went, Becomes, OwnOf, FreshOf, InFlight,
           Terminal, Kept, JInv, Wrote, Refused, Gate!Freeze, gateVars, Recorded
  <2> QED BY <2>1, <2>2, <2>3
<1>8. ASSUME Refused /\ Left(a)
      PROVE  FreshOf(a)' /\ OwnOf(a)' /\ Shown(a, o)
  <2>1. FreshOf(a)' /\ OwnOf(a)'
    BY <1>1, <1>8, LeftKnows
  <2>2. Shown(a, o)
    BY <1>1, <1>2, <1>8, AtWork, StatusIs
       DEF Shown, RecordProtectionMoved, Left, OwnOf, FreshOf, InFlight, Terminal,
           Kept, JInv, Wrote, Refused, Gate!Freeze, gateVars, Recorded
  <2> QED BY <2>1, <2>2
<1> QED BY <1>1, <1>2, <1>3, <1>4, <1>5, <1>6, <1>7, <1>8, HandlerKnows
           DEF RecordProtectionMoved

(* A stop is placed only for the position that is there.                     *)
LEMMA RemediateKnows ==
  ASSUME JInv, NEW r \in Runs, Remediate(r)
  PROVE  Journal'
<1>1. RemediateMoved(r) /\ r \in Actors /\ lock = r
  BY RemediateMoves, ActorsAre DEF JInv, SInv, RemediateMoved
<1>2. PICK o \in Orders : o = Order(r)
  BY <1>1, AtWork
<1>3. Kept(r)
  BY <1>1, <1>2, StatusIs
     DEF Kept, RemediateMoved, Left, Went, Becomes, Others, JInv, Wrote, Refused,
         Gate!Freeze, gateVars
<1>4. ASSUME stops' \subseteq stops \cup {position},
             Wrote(Order(r), "protective_placed") \/ Refused \/ UNCHANGED <<gateVars, status>>,
             Left(r)
      PROVE  FreshOf(r)' /\ OwnOf(r)' /\ Shown(r, o)
  <2>1. FreshOf(r)' /\ OwnOf(r)'
    BY <1>1, <1>4, LeftKnows
  <2>2. Shown(r, o)
    BY <1>1, <1>2, <1>4, AtWork, StatusIs
       DEF Shown, RemediateMoved, Left, OwnOf, FreshOf, InFlight, Terminal, Kept, JInv,
           Wrote, Refused, Gate!Freeze, gateVars
  <2> QED BY <2>1, <2>2
<1>5. ASSUME Gate!Freeze, status' = [status EXCEPT ![Order(r)] = "flattening"],
             Went(r, "flatten", actor[r].answer)
      PROVE  FreshOf(r)' /\ OwnOf(r)' /\ Shown(r, o)
  <2>1. FreshOf(r)'
    BY <1>1, <1>2, <1>5, AtWork, StatusIs, WentFresh
       DEF FreshOf, JInv, RemediateMoved, Wrote, Refused, Gate!Freeze, gateVars
  <2>a. actor'[r].step = "flatten" /\ actor'[r].answer = actor[r].answer /\ Order(r)' = o
    BY <1>2, <1>5 DEF Went, Becomes, Order
  <2>b. status'[o] = "flattening"
    BY <1>1, <1>2, <1>5, AtWork, StatusIs
       DEF OwnOf, RemediateMoved, FreshOf, JInv, Wrote, Refused, Gate!Freeze, gateVars
  <2>2. OwnOf(r)'
    BY <2>a, <2>b DEF OwnOf, Recorded
  <2>3. Shown(r, o)
    <3>1. actor'[r].step = "flatten" /\ remote'[o] = remote[o]
      BY <1>1, <1>5 DEF Went, Becomes, RemediateMoved
    <3>2. stops' \subseteq stops \cup {position}
      BY <1>3 DEF Kept
    <3>3. status[o] = "protective_failed"
      BY <1>1, <1>2, AtWork DEF OwnOf, RemediateMoved
    <3> QED BY <2>b, <3>1, <3>2, <3>3, <1>1, <1>2, AtWork DEF Shown, InFlight, Terminal
  <2> QED BY <2>1, <2>2, <2>3
<1> QED BY <1>1, <1>2, <1>3, <1>4, <1>5, HandlerKnows DEF RemediateMoved

(* A close completes with neither position nor stop left.                    *)
LEMMA FinalizeKnows ==
  ASSUME JInv, NEW a \in Actors, Finalize(a)
  PROVE  Journal'
<1>1. FinalizeMoved(a) /\ a \in Actors /\ lock = a
  BY FinalizeMoves, ActorsAre DEF JInv, SInv, FinalizeMoved
<1>2. PICK o \in Orders : o = Order(a)
  BY <1>1, AtWork
<1>3. Kept(a)
  BY <1>1, <1>2, StatusIs
     DEF Kept, FinalizeMoved, Left, Went, Becomes, Others, JInv, Gate!Freeze, gateVars
<1>4. ASSUME position = NoOne, stops' = {}, UNCHANGED gateVars, Went(a, "complete", actor[a].answer)
      PROVE  FreshOf(a)' /\ OwnOf(a)' /\ Shown(a, o)
  <2>1. FreshOf(a)'
    BY <1>1, <1>2, <1>4, AtWork, StatusIs, WentFresh
       DEF FreshOf, JInv, FinalizeMoved, Gate!Freeze, gateVars
  <2>a. actor'[a].step = "complete" /\ actor'[a].answer = actor[a].answer /\ Order(a)' = o
    BY <1>2, <1>4 DEF Went, Becomes, Order
  <2>b. /\ remote'[o] = "filled"
        /\ \/ actor[a].answer = "filled" /\ status'[o] = "protective_placed"
           \/ /\ actor[a].answer = "unrecorded" /\ frozen'
              /\ status'[o] \in {"submitting", "filled"}
    BY <1>1, <1>2, <1>4, AtWork, StatusIs
       DEF OwnOf, FinalizeMoved, FreshOf, JInv, Gate!Freeze, gateVars
  <2>2. OwnOf(a)'
    BY <2>a, <2>b DEF OwnOf, Recorded
  <2>3. Shown(a, o)
    BY <2>b, <1>1, <1>2, <1>4, AtWork, StatusIs
       DEF Shown, FinalizeMoved, Went, Becomes, OwnOf, FreshOf, InFlight, Terminal,
           Kept, JInv, Gate!Freeze, gateVars
  <2> QED BY <2>1, <2>2, <2>3
<1>5. ASSUME Gate!Freeze \/ UNCHANGED gateVars, Left(a)
      PROVE  FreshOf(a)' /\ OwnOf(a)' /\ Shown(a, o)
  <2>1. FreshOf(a)' /\ OwnOf(a)'
    BY <1>1, <1>5, LeftKnows
  <2>2. Shown(a, o)
    <3>1. lock' # a
      BY <1>1, <1>5, ActorsAre DEF Left
    <3>2. status'[o] = status[o] /\ remote'[o] = remote[o] /\ stops' \subseteq stops
      BY <1>1 DEF FinalizeMoved
    <3>3. status[o] \in {"submitting", "filled", "protective_placed"} /\ remote[o] = "filled"
      BY <1>1, <1>2, AtWork DEF OwnOf, FinalizeMoved
    <3>4. status[o] = "submitting" => frozen'
      BY <1>1, <1>2, <1>5, AtWork DEF OwnOf, FinalizeMoved, Gate!Freeze, gateVars
    <3> QED BY <3>1, <3>2, <3>3, <3>4, <1>1, <1>2, AtWork DEF Shown, InFlight, Terminal
  <2> QED BY <2>1, <2>2
<1> QED BY <1>1, <1>2, <1>3, <1>4, <1>5, HandlerKnows DEF FinalizeMoved

(* The entry is closed only with neither position nor stop left.             *)
LEMMA FlattenReadKnows ==
  ASSUME JInv, NEW r \in Runs, FlattenRead(r)
  PROVE  Journal'
<1>1. FlattenReadMoved(r) /\ r \in Actors /\ lock = r
  BY FlattenReadMoves, ActorsAre DEF JInv, SInv, FlattenReadMoved
<1>2. PICK o \in Orders : o = Order(r)
  BY <1>1, AtWork
<1>3. Kept(r)
  BY <1>1, <1>2, StatusIs
     DEF Kept, FlattenReadMoved, Left, Becomes, Others, JInv, Wrote, Refused, Gate!Freeze, gateVars
<1>4. status[o] = "flattening" /\ remote' = remote /\ o = <<r, "entry">>
  BY <1>1, <1>2, AtWork DEF OwnOf, FlattenReadMoved
<1>5. ASSUME Left(r), status' = status \/ (position = NoOne /\ stops' = {})
      PROVE  FreshOf(r)' /\ OwnOf(r)' /\ Shown(r, o)
  <2>1. FreshOf(r)' /\ OwnOf(r)'
    BY <1>1, <1>5, LeftKnows
  <2>2. lock' # r
    BY <1>1, <1>5, ActorsAre DEF Left
  <2>3. status'[o] \in {"flattening", "closed"} /\ (status'[o] = "closed" => status' # status)
    BY <1>1, <1>4, StatusIs DEF FlattenReadMoved, Wrote, Refused, JInv
  <2>4. position = NoOne => position \notin Runs
    BY ActorsAre
  <2> QED BY <2>1, <2>2, <2>3, <2>4, <1>1, <1>2, <1>3, <1>4, <1>5, AtWork, ActorsAre
          DEF Shown, InFlight, Terminal, Kept
<1>6. ASSUME UNCHANGED <<gateVars, status, stops, lock>>, Becomes(r, "open", "flatten", actor[r].answer)
      PROVE  FreshOf(r)' /\ OwnOf(r)' /\ Shown(r, o)
  <2>1. actor'[r].step = "open" /\ actor'[r].work = "flatten" /\ Order(r)' = <<r, "flatten">>
    BY <1>6 DEF Becomes, Order
  <2>2. actor[r].work = "entry" /\ Inside(r)
    BY <1>1 DEF JInv, SInv, LInv, Stations, FlattenReadMoved, Inside
  <2>3. status[<<r, "flatten">>] = "none"
    BY <1>1, <2>2, AtWork DEF FreshOf
  <2>4. FreshOf(r)'
    BY <1>6, <2>1, <2>3 DEF FreshOf
  <2>5. OwnOf(r)'
    BY <2>1 DEF OwnOf
  <2>6. Shown(r, o)
    BY <1>1, <1>2, <1>4, <1>6, <2>1, AtWork DEF Shown, InFlight, Terminal
  <2> QED BY <2>4, <2>5, <2>6
<1>7. CASE Left(r) /\ UNCHANGED <<gateVars, status, stops>>
  BY <1>1, <1>2, <1>3, <1>5, <1>7, HandlerKnows
<1>8. CASE UNCHANGED <<gateVars, status, stops, lock>> /\ Becomes(r, "open", "flatten", actor[r].answer)
  BY <1>1, <1>2, <1>3, <1>6, <1>8, HandlerKnows
<1>9. CASE position = NoOne /\ stops' = {} /\ Left(r)
  BY <1>1, <1>2, <1>3, <1>5, <1>9, HandlerKnows
<1> QED BY <1>1, <1>7, <1>8, <1>9 DEF FlattenReadMoved

(* The sweep finds no entry that has a position or a stop.                   *)
LEMMA CompleteCloseKnows ==
  ASSUME JInv, NEW a \in Actors, CompleteClose(a)
  PROVE  Journal'
<1>1. CompleteCloseMoved(a) /\ lock = a /\ actor[a].step = "complete"
  BY CompleteCloseMoves DEF JInv, SInv, CompleteCloseMoved
<1>2. PICK o \in Orders : o = Order(a)
  BY <1>1, AtWork
<1>3. PICK done \in SUBSET Orders :
        /\ status' = Closed(done)
        /\ \A q \in done : \/ q = o /\ CanRecord(q, "closed")
                           \/ q # o /\ status[q] \in Swept
  BY <1>2, CloseSweeps
<1>4. \A q \in Orders :
        \/ status'[q] = status[q]
        \/ /\ status'[q] = "closed"
           /\ q = o \/ status[q] \in Swept
  BY <1>3 DEF Closed
<1>5. /\ remote[o] = "filled" /\ status[o] \in {"submitting", "filled", "protective_placed"}
      /\ status[o] = "submitting" => frozen
  BY <1>1, <1>2, AtWork DEF OwnOf
<1>6. /\ rec.step = "idle" /\ rec.todo = {} /\ a # NoOne
      /\ \A b \in Actors \ {a} : actor[b].step \in {"idle", "lock", "done"}
      /\ UNCHANGED <<remote, position, stops, rec>> /\ Others(a)
  BY <1>1, Serial DEF CompleteCloseMoved, Left, Becomes
<1>7. Alone'
  BY <1>6 DEF Alone
<1>8. ASSUME NEW b \in Actors PROVE FreshOf(b)' /\ OwnOf(b)'
  <2>1. \A q \in Orders : status[q] = "none" => status'[q] = "none"
    BY <1>4, <1>5 DEF Swept
  <2>2. CASE b # a
    BY <1>6, <2>1, <2>2, OutsideKeeps DEF Others
  <2>3. CASE b = a /\ Left(a)
    BY <2>3, LeftKnows
  <2>4. CASE b = a /\ actor[a].work = "reverse" /\ Becomes(a, "decide", "entry", "none")
    <3>1. actor'[a].step = "decide" /\ actor'[a].work = "entry" /\ Order(a)' = <<a, "entry">>
      BY <2>4 DEF Becomes, Order
    <3>2. a \in Runs
      BY <1>1, <2>4, ActorsAre DEF JInv, SInv, LInv, Stations, Orders, Order
    <3>3. <<a, "entry">> \in Orders /\ <<a, "flatten">> \in Orders
      BY <3>2 DEF Orders
    <3>4. status'[<<a, "entry">>] = "none" /\ status'[<<a, "flatten">>] = "none"
      BY <1>1, <2>1, <2>4, <3>2, <3>3, AtWork DEF FreshOf, Inside
    <3> QED BY <2>4, <3>1, <3>4 DEF FreshOf, OwnOf
  <2> QED BY <1>1, <2>2, <2>3, <2>4 DEF CompleteCloseMoved
<1>9. ASSUME NEW q \in Orders PROVE KnownOf(q)' /\ DoubtOf(q)'
  <2>1. KnownOf(q) /\ DoubtOf(q)
    BY DEF JInv, Journal
  <2>2. KnownOf(q)'
    BY <1>4, <1>5, <1>6, <2>1 DEF KnownOf, Swept
  <2>3. frozen => frozen'
    BY <1>1 DEF CompleteCloseMoved, Gate!Freeze, gateVars
  <2>4. status'[q] \in InFlight => status[q] \in InFlight /\ status'[q] = status[q]
    BY <1>4 DEF InFlight
  <2>5. status'[q] \in InFlight => frozen'
    BY <1>2, <1>5, <1>6, <1>1, <2>1, <2>3, <2>4 DEF DoubtOf, InFlight
  <2>6. DoubtOf(q)'
    BY <1>6, <2>5 DEF DoubtOf
  <2> QED BY <2>2, <2>6
<1>10. ASSUME NEW r \in Runs, position' = r \/ r \in stops' PROVE Opened(r)'
  <2>1. Opened(r) /\ <<r, "entry">> \in Orders
    BY <1>6, <1>10 DEF JInv, Journal, Orders
  <2>2. <<r, "entry">> # o
    BY <1>1, <1>2 DEF JInv, SInv, LInv, Stations, Order
  <2>3. status'[<<r, "entry">>] = status[<<r, "entry">>]
    BY <1>1, <1>4, <1>6, <2>1, <2>2 DEF Opened
  <2>4. ~(lock' # NoOne /\ actor'[lock'].step = "complete")
    BY <1>1 DEF CompleteCloseMoved, Left, Becomes
  <2> QED BY <1>6, <2>1, <2>3, <2>4 DEF Opened
<1> QED BY <1>7, <1>8, <1>9, <1>10 DEF Journal

-----------------------------------------------------------------------------
(* The steps that begin a handler, and those of exchange, monitor and        *)
(* process.                                                                  *)

(* An actor is not disturbed by what happens elsewhere.                      *)
LEMMA BystanderKeeps ==
  ASSUME JInv, NEW b \in Actors, actor'[b] = actor[b], UNCHANGED status, frozen => frozen',
         \A o \in Orders : remote'[o] = remote[o] \/ remote[o] \in {"sent", "live"}
  PROVE  FreshOf(b)' /\ OwnOf(b)'
<1>1. FreshOf(b) /\ OwnOf(b)
  BY DEF JInv, Journal
<1>2. Order(b)' = Order(b)
  BY DEF Order
<1>3. FreshOf(b)'
  BY <1>1, <1>2 DEF FreshOf, Inside
<1>4. actor[b].step \notin {"idle", "done"} => remote'[Order(b)] = remote[Order(b)] \/ remote[Order(b)] \in {"sent", "live"}
  BY OrderIsOrder DEF JInv, SInv, LInv
<1>5. OwnOf(b)'
  BY <1>1, <1>2, <1>4 DEF OwnOf
<1> QED BY <1>3, <1>5

(* No order is in flight when a handler begins with the gate open.           *)
LEMMA StartKnows ==
  ASSUME JInv, "overlap" \notin Windows,
         (\E r \in Runs, s \in Sides : RunStart(r, s))
           \/ (\E x \in Exits : ExitRead(x) \/ ExitLock(x))
  PROVE  Journal'
<1>1. ASSUME NEW a \in Actors, Others(a), actor[a].step \in {"idle", "lock"},
             actor'[a].step \in {"decide", "lock", "open"},
             a \in Exits => actor'[a].step # "decide" /\ actor'[a].work = "exit",
             a \in Runs => actor'[a].step = "decide" /\ actor'[a].work \in {"entry", "reverse"},
             \/ lock = NoOne /\ lock' = a /\ rec.step = "idle"
             \/ lock' = lock /\ actor'[a].step = "lock",
             UNCHANGED <<gateVars, status, remote, position, stops, rec>>
      PROVE  Journal'
  <2>1. Alone'
    BY <1>1 DEF JInv, Journal, Alone
  <2>2. \A o \in Orders : o[1] = a => status[o] = "none"
    BY <1>1 DEF JInv, Journal, FreshOf
  <2>3. FreshOf(a)' /\ OwnOf(a)'
    <3>1. Order(a)' = <<a, actor'[a].work>>
      BY DEF Order
    <3>2. CASE a \in Runs
      <4>1. <<a, "entry">> \in Orders /\ <<a, "flatten">> \in Orders /\ <<a, "reverse">> \in Orders
        BY <3>2 DEF Orders
      <4> QED BY <1>1, <2>2, <3>1, <3>2, <4>1 DEF FreshOf, OwnOf
    <3>3. CASE a \in Exits
      <4>1. <<a, "exit">> \in Orders /\ a \notin Runs
        BY <3>3, ActorsAre DEF Orders
      <4> QED BY <1>1, <2>2, <3>1, <3>3, <4>1 DEF FreshOf, OwnOf
    <3> QED BY <3>2, <3>3, ActorsAre
  <2>4. ASSUME NEW b \in Actors PROVE FreshOf(b)' /\ OwnOf(b)'
    BY <1>1, <2>3, BystanderKeeps DEF Others, gateVars
  <2>5. lock' = lock => lock = NoOne \/ (lock # a /\ actor'[lock] = actor[lock])
    BY <1>1, StatusIs DEF JInv, SInv, LInv, Held, Inside, Others
  <2>6. ASSUME NEW o \in Orders PROVE KnownOf(o)' /\ DoubtOf(o)'
    <3>1. KnownOf(o) /\ DoubtOf(o)
      BY DEF JInv, Journal
    <3> QED BY <1>1, <2>5, <3>1 DEF KnownOf, DoubtOf, Order, gateVars
  <2>7. ASSUME NEW r \in Runs, position' = r \/ r \in stops' PROVE Opened(r)'
    <3>1. Opened(r)
      BY <1>1, <2>7 DEF JInv, Journal
    <3> QED BY <1>1, <2>5, <3>1 DEF Opened
  <2> QED BY <2>1, <2>4, <2>6, <2>7 DEF Journal
<1>2. LInv
  BY DEF JInv, SInv
<1>3. ASSUME NEW r \in Runs, NEW s \in Sides, RunStart(r, s) PROVE Journal'
  <2>1. Others(r) /\ actor'[r].step = "decide" /\ actor'[r].work \in {"entry", "reverse"}
    BY <1>2, <1>3, RunStartMoves DEF Becomes
  <2> QED BY <1>1, <1>2, <1>3, <2>1, RunStartMoves
<1>4. ASSUME NEW x \in Exits, ExitRead(x) PROVE Journal'
  <2>1. Others(x) /\ actor'[x].step = "lock" /\ actor'[x].work = "exit"
    BY <1>2, <1>4, ExitReadMoves DEF Becomes
  <2> QED BY <1>1, <1>2, <1>4, <2>1, ExitReadMoves
<1>5. ASSUME NEW x \in Exits, ExitLock(x) PROVE Journal'
  <2>1. Others(x) /\ actor'[x].step = "open" /\ actor'[x].work = "exit"
    BY <1>2, <1>5, ExitLockMoves DEF Becomes
  <2> QED BY <1>1, <1>2, <1>5, <2>1, ExitLockMoves
<1> QED BY <1>3, <1>4, <1>5

(* A step outside the handlers that changes no status.                       *)
LEMMA OutsideKnows ==
  ASSUME JInv, UNCHANGED <<actor, lock, status, rec>>, frozen => frozen',
         position' = position \/ position' = NoOne \/ rec.step = "idle",
         \A o \in Orders : remote'[o] = remote[o] \/ remote[o] \in {"sent", "live"},
         \A r \in Runs : position' = r \/ r \in stops' =>
           \/ position = r \/ r \in stops
           \/ /\ remote[<<r, "entry">>] = "live"
              /\ remote'[<<r, "entry">>] \in {"filled", "partial"}
  PROVE  Journal'
<1>1. Alone'
  BY DEF JInv, Journal, Alone
<1>2. \A b \in Actors : FreshOf(b)' /\ OwnOf(b)'
  BY BystanderKeeps
<1>3. ASSUME NEW o \in Orders PROVE KnownOf(o)' /\ DoubtOf(o)'
  <2>1. KnownOf(o) /\ DoubtOf(o)
    BY DEF JInv, Journal
  <2>2. KnownOf(o)'
    BY <2>1 DEF KnownOf
  <2>3. DoubtOf(o)'
    BY <2>1 DEF DoubtOf, Order
  <2> QED BY <2>2, <2>3
<1>4. ASSUME NEW r \in Runs, position' = r \/ r \in stops' PROVE Opened(r)'
  <2>1. <<r, "entry">> \in Orders
    BY DEF Orders
  <2>2. CASE position = r \/ r \in stops
    <3>1. Opened(r)
      BY <2>2 DEF JInv, Journal
    <3> QED BY <2>1, <3>1 DEF Opened
  <2>3. CASE /\ remote[<<r, "entry">>] = "live"
             /\ remote'[<<r, "entry">>] \in {"filled", "partial"}
    <3>1. status[<<r, "entry">>] \in {"submitting", "unknown", "acknowledged"}
      BY <2>1, <2>3 DEF JInv, Journal, KnownOf
    <3> QED BY <2>3, <3>1 DEF Opened, Terminal, Swept
  <2> QED BY <1>4, <2>2, <2>3
<1> QED BY <1>1, <1>2, <1>3, <1>4 DEF Journal

(* Only a live entry can become the position or leave a stop.                *)
LEMMA SettleMoves ==
  ASSUME JInv, NEW o \in Orders, Settle(o)
  PROVE  /\ \A q \in Orders : remote'[q] = remote[q] \/ remote[q] \in {"sent", "live"}
         /\ \A r \in Runs : position' = r \/ r \in stops' =>
              \/ position = r \/ r \in stops
              \/ /\ remote[<<r, "entry">>] = "live"
                 /\ remote'[<<r, "entry">>] \in {"filled", "partial"}
<1>1. PICK outcome \in {"filled", "partial", "dead"} :
        /\ remote' = [remote EXCEPT ![o] = outcome]
        /\ IF outcome = "dead"
             THEN UNCHANGED <<position, stops>>
             ELSE IF o[2] = "entry"
               THEN position' \in Netted(o[1]) /\ stops' \subseteq stops \cup {o[1]}
               ELSE position' \in {NoOne, position} /\ stops' = stops
  BY DEF Settle
<1>2. remote[o] = "live" /\ remote'[o] = outcome /\ \A q \in Orders : q # o => remote'[q] = remote[q]
  BY <1>1, StatusIs DEF Settle, JInv
<1>3. ASSUME NEW r \in Runs, position' = r \/ r \in stops'
      PROVE  \/ position = r \/ r \in stops
             \/ o = <<r, "entry">> /\ outcome # "dead"
  <2>1. r # NoOne
    BY ActorsAre
  <2>2. CASE outcome = "dead" \/ o[2] # "entry"
    BY <1>1, <1>3, <2>1, <2>2
  <2>3. CASE outcome # "dead" /\ o[2] = "entry"
    <3>1. position' \in {o[1], position, NoOne} /\ stops' \subseteq stops \cup {o[1]}
      BY <1>1, <2>3 DEF Netted
    <3>2. o = <<o[1], "entry">>
      BY <2>3 DEF Orders
    <3> QED BY <1>3, <2>1, <2>3, <3>1, <3>2
  <2> QED BY <2>2, <2>3
<1> QED BY <1>2, <1>3

(* Exchange, monitor and process keep Journal.                               *)
LEMMA EnvironmentKnows ==
  ASSUME JInv, "overlap" \notin Windows, Environment
  PROVE  Journal'
<1>1. CASE \E o \in Orders : Arrive(o)
  <2>1. PICK o \in Orders : Arrive(o)
    BY <1>1
  <2>2. \A q \in Orders : remote'[q] = remote[q] \/ remote[q] \in {"sent", "live"}
    BY <2>1, StatusIs DEF Arrive, JInv
  <2>3. UNCHANGED <<frozen, lock, actor, status, position, stops, rec>>
    BY <2>1 DEF Arrive, gateVars
  <2> QED BY <2>2, <2>3, OutsideKnows
<1>2. CASE \E o \in Orders : Settle(o)
  <2>1. PICK o \in Orders : Settle(o)
    BY <1>2
  <2>2. UNCHANGED <<frozen, lock, actor, status, rec>> /\ rec.step = "idle"
    BY <2>1 DEF Settle, gateVars, Quiet
  <2> QED BY <2>1, <2>2, SettleMoves, OutsideKnows
<1>3. CASE \E s \in Runs : StopTriggers(s)
  <2>1. /\ UNCHANGED <<frozen, lock, actor, status, remote, rec>>
        /\ position' = NoOne /\ stops' \subseteq stops
    BY <1>3 DEF StopTriggers, gateVars
  <2> QED BY <2>1, OutsideKnows, ActorsAre
<1>4. CASE MonitorFreezes
  BY <1>4, OutsideKnows DEF MonitorFreezes, Gate!Freeze, venue
<1>5. CASE Restart
  <2>1. LInv
    BY DEF JInv, SInv
  <2>2. frozen' /\ lock' = NoOne /\ rec' = RecIdle /\ UNCHANGED <<status, remote, position, stops>>
    BY <1>5, <2>1, RestartMoves
  <2>3. Alone'
    BY <2>2 DEF Alone, RecIdle
  <2>4. ASSUME NEW b \in Actors PROVE FreshOf(b)' /\ OwnOf(b)'
    <3>1. CASE actor[b].step \in {"idle", "done"}
      BY <1>5, <2>1, <2>2, <3>1, RestartMoves, OutsideKeeps
    <3>2. CASE actor[b].step \notin {"idle", "done"}
      <4>1. actor'[b].step = "done" /\ actor'[b].work = "entry"
        BY <1>5, <2>1, <3>2, RestartMoves
      <4> QED BY <4>1 DEF FreshOf, OwnOf, Inside
    <3> QED BY <3>1, <3>2
  <2>5. \A o \in Orders : KnownOf(o)' /\ DoubtOf(o)'
    BY <2>2 DEF JInv, Journal, KnownOf, DoubtOf, RecIdle
  <2>6. \A r \in Runs : position' = r \/ r \in stops' => Opened(r)'
    BY <2>2 DEF JInv, Journal, Opened
  <2> QED BY <2>3, <2>4, <2>5, <2>6 DEF Journal
<1> QED BY <1>1, <1>2, <1>3, <1>4, <1>5 DEF Environment

-----------------------------------------------------------------------------
(* Reconciliation: what it does to the order it looks at.                    *)
Listed(t) ==
  /\ frozen => frozen'
  /\ \/ rec'.step = "orders" /\ rec'.todo = rec.todo \ {t} /\ (rec.bad => rec'.bad)
     \/ rec'.step = "end" /\ rec'.todo = {} /\ rec'.bad
  /\ rec'.position = rec.position
  /\ \A q \in Orders : q # t[1] => status'[q] = status[q]
  /\ stops' = stops \/ (rec.position = NoOne /\ stops' = {})

Judged(t, o) ==
  /\ status'[o] \in InFlight => status[o] \in InFlight /\ rec'.bad
  /\ status'[o] \in {"none", "new"} => remote[o] = "absent"
  /\ remote[o] \in {"sent", "live"} => status'[o] \in {"submitting", "unknown", "acknowledged"}
  /\ \/ rec.position = NoOne /\ stops' = {}
     \/ remote[o] \notin {"filled", "partial"}
     \/ status[o] \in Terminal \cup {"none", "new"}
     \/ status'[o] \notin Terminal \cup {"none", "new"}

(* The order looked at leaves the list; the gate is not opened.              *)
LEMMA OrderListed ==
  ASSUME JInv, rec.step = "orders", NEW t \in rec.todo,
         ReconcileResting(t) \/ ReconcileNew(t) \/ ReconcileInFlight(t)
  PROVE  Listed(t)
<1>1. TypeOK /\ t[1] \in Orders /\ t[2] \in Statuses
  BY DEF JInv, SInv, LInv, TypeOK
<1>2. RecordsOne(t)
  BY <1>1, RestingRecords, NewRecords, InFlightRecords
<1>3. \/ rec'.step = "orders" /\ rec'.todo = rec.todo \ {t} /\ (rec.bad => rec'.bad)
      \/ rec'.step = "end" /\ rec'.todo = {} /\ rec'.bad
  BY <1>1, <1>2, CheckedMoves, AbortedMoves DEF RecordsOne, Aborted
<1>4. rec'.position = rec.position
  BY <1>1, <1>2, CheckedMoves, AbortedMoves DEF RecordsOne, Aborted
<1>5. frozen => frozen'
  BY <1>2 DEF RecordsOne, Gate!Freeze, gateVars
<1> QED BY <1>1, <1>2, <1>3, <1>4, <1>5, StatusIs DEF RecordsOne, Listed, JInv

(* Closed with every stop canceled when flat, else kept open.                *)
LEMMA RestingJudged ==
  ASSUME JInv, rec.step = "orders", NEW t \in rec.todo, NEW o \in Orders, o = t[1],
         status[o] = t[2], KnownOf(o), ReconcileResting(t)
  PROVE  Judged(t, o)
<1>1. status[o] \in Swept /\ remote[o] \notin {"sent", "live"}
  BY DEF ReconcileResting, KnownOf, Swept
<1>2. CASE rec.position = NoOne
  <2>1. \/ status'[o] = "closed" /\ stops' = {}
        \/ status'[o] = status[o]
    BY <1>2, StatusIs DEF ReconcileResting, Cleared, Journaled, JInv
  <2> QED BY <1>1, <1>2, <2>1 DEF Judged, InFlight, Swept, Terminal
<1>3. CASE rec.position # NoOne
  <2>1. status'[o] \in {"protective_placed", "protective_failed"} \/ status'[o] = status[o]
    <3>1. CASE t[2] = "filled"
      <4>1. PICK next \in Restored(o) : Journaled(o, next, Checked(t, FALSE), Aborted)
        BY <1>3, <3>1 DEF ReconcileResting
      <4> QED BY <4>1, StatusIs DEF Journaled, Restored, JInv
    <3>2. CASE t[2] # "filled"
      BY <1>3, <3>2 DEF ReconcileResting
    <3> QED BY <3>1, <3>2
  <2> QED BY <1>1, <2>1 DEF Judged, InFlight, Swept, Terminal
<1> QED BY <1>2, <1>3

(* An order never submitted is canceled.                                     *)
LEMMA NewJudged ==
  ASSUME JInv, rec.step = "orders", NEW t \in rec.todo, NEW o \in Orders, o = t[1],
         status[o] = t[2], KnownOf(o), ReconcileNew(t)
  PROVE  Judged(t, o)
<1>1. status[o] = "new" /\ remote[o] = "absent"
  BY DEF ReconcileNew, KnownOf
<1>2. status'[o] = "canceled" \/ (status'[o] = status[o] /\ rec'.bad)
  <2>1. TypeOK
    BY DEF JInv, SInv, LInv
  <2> QED BY <2>1, StatusIs, AbortedMoves DEF ReconcileNew, Journaled, JInv, Aborted
<1> QED BY <1>1, <1>2 DEF Judged, InFlight, Terminal

(* The exchange's answer is taken over, or the verdict is bad.               *)
LEMMA InFlightJudged ==
  ASSUME JInv, rec.step = "orders", NEW t \in rec.todo, NEW o \in Orders, o = t[1],
         status[o] = t[2], KnownOf(o), ReconcileInFlight(t)
  PROVE  Judged(t, o)
<1> DEFINE now == RemoteStatus(o)
<1>1. TypeOK /\ status[o] \in Statuses /\ status[o] \notin Swept \cup {"new"}
  BY DEF ReconcileInFlight, JInv, SInv, LInv, TypeOK
<1>2. CASE NotFound(o) \/ now = t[2] \/ ~CanTransition(t[2], now)
  <2>1. status'[o] = status[o] /\ rec'.bad
    BY <1>1, <1>2, CheckedMoves DEF ReconcileInFlight
  <2> QED BY <1>1, <2>1 DEF Judged, KnownOf
<1>3. CASE ~(NotFound(o) \/ now = t[2] \/ ~CanTransition(t[2], now))
  <2>1. /\ remote[o] \in {"live", "filled", "partial", "dead"} 
        /\ now \in {"acknowledged", "filled", "partially_filled", "canceled"}
        /\ now = "canceled" => remote[o] = "dead"
        /\ now = "acknowledged" <=> remote[o] = "live"
    BY <1>3, StatusIs DEF NotFound, RemoteStatus, JInv
  <2>2. status[o] \in InFlight \/ (status[o] = "preflight" /\ now = "canceled")
    BY <1>1, <1>3, <2>1 DEF CanTransition, Transitions, InFlight, Statuses, Swept
  <2>3. CASE now = "filled"
    <3>1. LookedUp(o) \subseteq {"protective_placed", "protective_failed"}
      BY DEF LookedUp, Restored
    <3>2. \/ status'[o] \in {"protective_placed", "protective_failed", "filled"}
          \/ status'[o] = status[o] /\ rec'.bad
      <4>1. \/ \E next \in LookedUp(o) : status' = [status EXCEPT ![o] = next]
            \/ Aborted /\ status' \in {status, [status EXCEPT ![o] = "filled"]}
        BY <1>3, <2>3 DEF ReconcileInFlight
      <4> QED BY <1>1, <3>1, <4>1, StatusIs, AbortedMoves DEF Aborted, JInv
    <3>3. remote[o] = "filled"
      BY <2>3 DEF RemoteStatus
    <3>4. status[o] \in InFlight
      BY <2>2, <2>3
    <3>5. CASE status'[o] \in {"protective_placed", "protective_failed", "filled"}
      BY <3>3, <3>5 DEF Judged, InFlight, Terminal
    <3>6. CASE status'[o] = status[o] /\ rec'.bad
      BY <1>1, <3>3, <3>4, <3>6 DEF Judged, InFlight, Terminal, KnownOf
    <3> QED BY <3>2, <3>5, <3>6
  <2>4. CASE now # "filled"
    <3>1. PICK d \in BOOLEAN : d = (now # "canceled")
      OBVIOUS
    <3>2. Journaled(o, now, Checked(t, d), Aborted)
      BY <1>3, <2>4, <3>1 DEF ReconcileInFlight
    <3>3. \/ status'[o] = now /\ (now # "canceled" => rec'.bad)
          \/ status'[o] = status[o] /\ rec'.bad
      BY <1>1, <3>1, <3>2, StatusIs, CheckedMoves, AbortedMoves
         DEF Journaled, Aborted, JInv
    <3> QED BY <1>1, <2>1, <2>2, <2>4, <3>3 DEF Judged, InFlight, Terminal, KnownOf
  <2> QED BY <2>3, <2>4
<1> QED BY <1>2, <1>3

(* Looking at one order keeps Journal.                                       *)
LEMMA ReconcileOrderKnows ==
  ASSUME JInv, ReconcileOrder
  PROVE  Journal'
<1>1. /\ rec.step = "orders" /\ lock = NoOne
      /\ UNCHANGED <<lock, actor, remote, position>>
  BY DEF ReconcileOrder, JInv, Journal, Alone
<1>2. PICK t \in rec.todo : ReconcileResting(t) \/ ReconcileNew(t) \/ ReconcileInFlight(t)
  BY DEF ReconcileOrder
<1>3. PICK o \in Orders : o = t[1] /\ status[o] = t[2] /\ t = <<o, status[o]>>
  BY DEF JInv, Journal, Alone, SInv, LInv, TypeOK
<1>4. Listed(t)
  BY <1>1, <1>2, OrderListed
<1>5. KnownOf(o)
  BY DEF JInv, Journal
<1>6. Judged(t, o)
  BY <1>1, <1>2, <1>3, <1>5, RestingJudged, NewJudged, InFlightJudged
<1>7. position \in {rec.position, NoOne}
  BY <1>1 DEF JInv, Journal, Alone
<1>8. Alone'
  <2>1. \A u \in rec'.todo : rec'.step = "orders" /\ status'[u[1]] = u[2]
    <3> SUFFICES ASSUME NEW u \in rec'.todo PROVE rec'.step = "orders" /\ status'[u[1]] = u[2]
      OBVIOUS
    <3>1. rec'.step = "orders" /\ u \in rec.todo /\ u # t
      BY <1>4 DEF Listed
    <3>2. u[1] \in Orders /\ u = <<u[1], u[2]>> /\ status[u[1]] = u[2]
      BY <3>1 DEF JInv, Journal, Alone, SInv, LInv, TypeOK
    <3>3. u[1] # o
      BY <1>3, <3>1, <3>2
    <3> QED BY <1>3, <1>4, <3>1, <3>2, <3>3 DEF Listed
  <2> QED BY <1>1, <1>4, <1>7, <2>1 DEF Alone, Listed
<1>9. ASSUME NEW b \in Actors PROVE FreshOf(b)' /\ OwnOf(b)'
  <2>1. actor[b].step \in {"idle", "lock", "done"}
    BY <1>1, ActorsAre DEF JInv, SInv, LInv, Held, Inside
  <2>2. \A q \in Orders : status[q] = "none" => q # o
    <3>1. t[2] \in Statuses
      BY DEF JInv, SInv, LInv, TypeOK
    <3> QED BY <1>3, <3>1 DEF Statuses
  <2> QED BY <1>1, <1>3, <1>4, <2>1, <2>2, OutsideKeeps DEF Listed
<1>10. ASSUME NEW q \in Orders PROVE KnownOf(q)' /\ DoubtOf(q)'
  <2>1. KnownOf(q) /\ DoubtOf(q)
    BY DEF JInv, Journal
  <2>2. CASE q = o
    <3>1. KnownOf(q)'
      BY <1>1, <1>6, <2>2 DEF Judged, KnownOf
    <3>2. status'[q] \in InFlight => frozen' /\ rec'.bad
      BY <1>1, <1>4, <1>6, <2>1, <2>2 DEF Judged, DoubtOf, Listed
    <3> QED BY <3>1, <3>2 DEF DoubtOf
  <2>3. CASE q # o
    <3>1. status'[q] = status[q]
      BY <1>3, <1>4, <2>3 DEF Listed
    <3>2. <<q, status[q]>> # t
      BY <1>3, <2>3
    <3>3. KnownOf(q)'
      BY <1>1, <2>1, <3>1 DEF KnownOf
    <3>4. DoubtOf(q)'
      BY <1>1, <1>4, <2>1, <3>1, <3>2 DEF DoubtOf, Listed
    <3> QED BY <3>3, <3>4
  <2> QED BY <2>2, <2>3
<1>11. ASSUME NEW r \in Runs, position' = r \/ r \in stops' PROVE Opened(r)'
  <2>1. r # NoOne
    BY ActorsAre
  <2>2. position = r \/ r \in stops
    BY <1>1, <1>4, <1>11 DEF Listed
  <2>3. Opened(r) /\ <<r, "entry">> \in Orders
    BY <2>2 DEF JInv, Journal, Orders
  <2>4. ~(rec.position = NoOne /\ stops' = {})
    BY <1>1, <1>7, <1>11, <2>1
  <2>5. status'[<<r, "entry">>] \notin Terminal \cup {"none", "new"}
    BY <1>3, <1>4, <1>6, <2>3, <2>4 DEF Opened, Judged, Listed
  <2> QED BY <1>1, <2>3, <2>5 DEF Opened
<1> QED BY <1>8, <1>9, <1>10, <1>11 DEF Journal

(* Reconciliation keeps Journal: a good verdict leaves nothing in flight.    *)
LEMMA ReconcileKnows ==
  ASSUME JInv, "overlap" \notin Windows, Reconcile
  PROVE  Journal'
<1>0. SInv'
  BY ReconcileSlips DEF JInv
<1>1. rec.step # "idle" => lock = NoOne
  BY DEF JInv, Journal, Alone
<1>2. ASSUME UNCHANGED <<lock, actor, status, remote, position, stops>>, lock = NoOne, Alone',
             \A o \in Orders : status[o] \in InFlight =>
               /\ frozen'
               /\ rec'.step = "orders" => <<o, status[o]>> \in rec'.todo \/ rec'.bad
               /\ rec'.step = "end" => rec'.bad
      PROVE  Journal'
  <2>1. ASSUME NEW b \in Actors PROVE FreshOf(b)' /\ OwnOf(b)'
    <3>1. actor[b].step \in {"idle", "lock", "done"}
      BY <1>2, ActorsAre DEF JInv, SInv, LInv, Held, Inside
    <3> QED BY <1>2, <3>1, OutsideKeeps
  <2>2. \A o \in Orders : KnownOf(o)' /\ DoubtOf(o)'
    BY <1>2 DEF JInv, Journal, KnownOf, DoubtOf
  <2>3. \A r \in Runs : position' = r \/ r \in stops' => Opened(r)'
    BY <1>2 DEF JInv, Journal, Opened
  <2> QED BY <1>2, <2>1, <2>2, <2>3 DEF Journal
<1>3. \A o \in Orders : status[o] \in InFlight =>
        /\ lock = NoOne => frozen
        /\ rec.step = "orders" => <<o, status[o]>> \in rec.todo \/ rec.bad
        /\ rec.step = "end" => rec.bad
  BY DEF JInv, Journal, DoubtOf
<1>a. rec \in Recs
  BY DEF JInv, SInv, LInv, TypeOK, Recs, RecSteps
<1>4. CASE ReconcileBegin
  <2>1. /\ rec.step = "idle" /\ rec.todo = {} /\ lock = NoOne /\ frozen'
        /\ UNCHANGED <<lock, actor, status, remote, position, stops>>
    BY <1>4, <1>a DEF ReconcileBegin, Gate!Begin, JInv, Journal, Alone, venue, Recs
  <2>2. rec'.step = "read" /\ rec'.todo = {}
    BY <1>4, <1>a, <2>1 DEF ReconcileBegin, Recs
  <2>3. Alone'
    BY <2>1, <2>2 DEF Alone
  <2> QED BY <1>2, <2>1, <2>2, <2>3
<1>5. CASE ReconcileRead
  <2>1. /\ rec.step = "read" /\ rec.todo = {} /\ lock = NoOne /\ UNCHANGED frozen
        /\ UNCHANGED <<lock, actor, status, remote, position, stops>>
    BY <1>1, <1>5, <1>a DEF ReconcileRead, JInv, Journal, Alone, venue, Recs, gateVars
  <2>2. rec'.step = "list" /\ rec'.position = position /\ rec'.todo = {}
    BY <1>5, <1>a, <2>1 DEF ReconcileRead, Recs
  <2>3. Alone'
    BY <2>1, <2>2 DEF Alone
  <2> QED BY <1>2, <1>3, <2>1, <2>2, <2>3
<1>6. CASE ReconcileList
  <2> DEFINE open == {o \in Orders : status[o] \notin Terminal \cup {"none"}}
             todo == {<<o, status[o]>> : o \in open}
  <2>1. /\ rec.step = "list" /\ lock = NoOne /\ UNCHANGED frozen
        /\ UNCHANGED <<lock, actor, status, remote, position, stops>>
    BY <1>1, <1>6 DEF ReconcileList, venue, gateVars
  <2>2. rec'.step = "orders" /\ rec'.position = rec.position /\ rec'.todo = todo
    <3>1. rec' = [rec EXCEPT !.step = "orders", !.todo = todo]
      BY <1>6 DEF ReconcileList
    <3> HIDE DEF todo
    <3> QED BY <3>1, <1>a DEF Recs
  <2>3. \A u \in todo : status[u[1]] = u[2]
    OBVIOUS
  <2>4. \A o \in Orders : status[o] \in InFlight => <<o, status[o]>> \in todo
    BY DEF InFlight, Terminal
  <2>5. position \in {rec.position, NoOne}
    BY <2>1 DEF JInv, Journal, Alone
  <2> HIDE DEF todo
  <2>6. Alone'
    BY <2>1, <2>2, <2>3, <2>5 DEF Alone
  <2> QED BY <1>2, <1>3, <2>1, <2>2, <2>4, <2>6
<1>7. CASE ReconcileFails
  <2>1. TypeOK /\ rec.step # "idle"
    BY <1>7 DEF JInv, SInv, LInv, ReconcileFails
  <2>2. rec'.step = "end" /\ rec'.todo = {} /\ rec'.bad = TRUE
    BY <1>7, <2>1, AbortedMoves DEF ReconcileFails
  <2>3. /\ lock = NoOne /\ UNCHANGED frozen
        /\ UNCHANGED <<lock, actor, status, remote, position, stops>>
    BY <1>1, <1>7, <2>1 DEF ReconcileFails, venue, gateVars
  <2>4. Alone'
    BY <2>2, <2>3 DEF Alone
  <2> QED BY <1>2, <1>3, <2>2, <2>3, <2>4
<1>8. CASE ReconcileGaps
  <2>1. /\ rec.step = "orders" /\ rec.todo = {} /\ lock = NoOne /\ UNCHANGED frozen
        /\ UNCHANGED <<lock, actor, status, remote, position, stops>>
    BY <1>1, <1>8 DEF ReconcileGaps, venue, gateVars
  <2>2. PICK gap \in BOOLEAN :
          gap = (rec.position # NoOne /\ ~\E s \in stops : side[s] = side[rec.position])
    OBVIOUS
  <2>3. PICK b \in BOOLEAN : b = (rec.bad \/ gap)
    OBVIOUS
  <2>4. rec' = [rec EXCEPT !.step = "end", !.bad = b]
    BY <1>8, <1>a, <2>2, <2>3 DEF ReconcileGaps, Recs
  <2>5. rec'.step = "end" /\ rec'.position = rec.position /\ rec'.todo = {} /\ rec'.bad = b
    BY <1>a, <2>1, <2>4 DEF Recs
  <2>6. Alone'
    BY <2>1, <2>5 DEF Alone, JInv, Journal
  <2>7. rec.bad => rec'.bad
    BY <2>3, <2>5
  <2> QED BY <1>2, <1>3, <2>1, <2>5, <2>6, <2>7
<1>9. CASE ReconcileEnd
  <2>1. /\ rec.step = "end" /\ lock = NoOne /\ rec' = RecIdle
        /\ UNCHANGED <<lock, actor, status, remote, position, stops>>
        /\ rec.bad => frozen'
    BY <1>1, <1>9 DEF ReconcileEnd, Gate!Complete, venue
  <2>2. Alone'
    BY <2>1 DEF Alone, RecIdle
  <2> QED BY <1>2, <1>3, <2>1, <2>2 DEF RecIdle
<1> QED BY <1>4, <1>5, <1>6, <1>7, <1>8, <1>9, ReconcileOrderKnows DEF Reconcile

(* JInv holds at the start.                                                  *)
LEMMA JInvStarts == Init => JInv
<1> SUFFICES ASSUME Init PROVE JInv
  OBVIOUS
<1>1. SInv
  BY SlipStarts
<1>2. Alone
  BY DEF Init, Alone, RecIdle
<1>3. \A a \in Actors : FreshOf(a) /\ OwnOf(a)
  BY DEF Init, FreshOf, OwnOf, Idle, Inside
<1>4. \A o \in Orders : KnownOf(o) /\ DoubtOf(o)
  BY DEF Init, KnownOf, DoubtOf, InFlight
<1>5. \A r \in Runs : ~(position = r \/ r \in stops)
  BY ActorsAre DEF Init
<1> QED BY <1>1, <1>2, <1>3, <1>4, <1>5 DEF JInv, Journal

(* JInv is inductive as long as no reconciliation overlaps a handler.        *)
LEMMA JInvNext ==
  ASSUME "overlap" \notin Windows
  PROVE  JInv /\ [Next]_vars => JInv'
<1> SUFFICES ASSUME JInv, [Next]_vars PROVE JInv'
  OBVIOUS
<1>1. SInv'
  BY SInvNext DEF JInv
<1>2. CASE UNCHANGED vars
  BY <1>2, OutsideKnows, <1>1 DEF vars, gateVars, venue, JInv
<1>3. ASSUME NEW a \in Actors, OrderStep(a) PROVE Journal'
  BY <1>3, OpenOrderKnows, SubmitOrderKnows, PostOrderKnows, AwaitAnswerKnows,
     RecordAnswerKnows, RecordProtectionKnows, FinalizeKnows, CompleteCloseKnows
     DEF OrderStep
<1>4. ASSUME NEW r \in Runs, RunStep(r) PROVE Journal'
  BY <1>4, RunDecideKnows, RemediateKnows, FlattenReadKnows DEF RunStep
<1> QED BY <1>1, <1>2, <1>3, <1>4, StartKnows, EnvironmentKnows, ReconcileKnows
        DEF Next, ExitStep, JInv

(* Between handlers an order whose outcome the journal does not know keeps   *)
(* the gate shut (recordExecution and freezeUnknownOrder,                    *)
(* Service.ReconcileOrders), through failed writes, lost answers and         *)
(* restarts.                                                                 *)
THEOREM DoubtShutsTheGate ==
  ASSUME "overlap" \notin Windows
  PROVE  Spec => []UnknownMeansFrozen
<1>1. JInv => UnknownMeansFrozen
  BY DEF JInv, Journal, DoubtOf, UnknownMeansFrozen
<1>2. JInv /\ [Next]_vars => JInv'
  BY JInvNext
<1> QED BY <1>1, <1>2, JInvStarts, PTL DEF Spec

(* The journal never forgets the entry behind an open position, nor          *)
(* settles it as if there were none (Journal.TransitionContext,              *)
(* CompleteReduceOnly and the reconciler's closing of swept orders).         *)
THEOREM PositionsAreJournaled ==
  ASSUME "overlap" \notin Windows
  PROVE  Spec => []PositionHasOrder
<1>1. JInv => PositionHasOrder
  BY StatusIs DEF JInv, Journal, Opened, PositionHasOrder
<1>2. JInv /\ [Next]_vars => JInv'
  BY JInvNext
<1> QED BY <1>1, <1>2, JInvStarts, PTL DEF Spec

(* The entry of a pending protective order stays open in the journal, so     *)
(* that a later flat reconciliation or close of the symbol cancels the       *)
(* stop (clearProtectiveOrders).                                             *)
THEOREM StopsAreJournaled ==
  ASSUME "overlap" \notin Windows
  PROVE  Spec => []StopsHaveOrder
<1>1. JInv => StopsHaveOrder
  BY StatusIs DEF JInv, Journal, Opened, StopsHaveOrder
<1>2. JInv /\ [Next]_vars => JInv'
  BY JInvNext
<1> QED BY <1>1, <1>2, JInvStarts, PTL DEF Spec

-----------------------------------------------------------------------------
(* Protection.  A position without a stop, the gate open, is the entry the   *)
(* lock's holder is still working on; and a reconciliation that ends well    *)
(* has seen the position protected.                                          *)
Bare == position # NoOne /\ ~Protected /\ ~frozen

Shield ==
  /\ Bare => /\ position = lock /\ actor[lock].work = "entry"
             /\ actor[lock].step \in {"await", "record", "protect", "remediate"}
  /\ \A a \in Actors :
       actor[a].step \in {"record", "protect"} /\ actor[a].answer = "protected" =>
         actor[a].work = "entry" /\ (a \in stops \/ position # a)
  /\ rec.step = "end" /\ ~rec.bad /\ position # NoOne => Protected

KInv == JInv /\ Shield

(* A step of the holder adds stops, or cancels those of a flat symbol.       *)
LEMMA StaysBare ==
  ASSUME UNCHANGED <<side, position>>, stops \subseteq stops' \/ position = NoOne,
         frozen => frozen', Bare'
  PROVE  Bare
BY DEF Bare, Protected

(* The holder keeps Shield if it does not leave a bare entry, and relies     *)
(* on protection it has seen.                                                *)
LEMMA HandlerShields ==
  ASSUME KInv, NEW a \in Actors, lock = a, Others(a),
         UNCHANGED <<side, position, rec>>, stops \subseteq stops' \/ position = NoOne,
         frozen => frozen',
         Bare /\ Bare' /\ position = a /\ actor[a].work = "entry"
           /\ actor[a].step \in {"await", "record", "protect", "remediate"} =>
           /\ lock' = a /\ actor'[a].work = "entry"
           /\ actor'[a].step \in {"await", "record", "protect", "remediate"},
         actor'[a].step \in {"record", "protect"} /\ actor'[a].answer = "protected" =>
           actor'[a].work = "entry" /\ (a \in stops' \/ position # a)
  PROVE  Shield'
<1>1. /\ rec.step = "idle" /\ a # NoOne
      /\ \A b \in Actors \ {a} : actor[b].step \in {"idle", "lock", "done"}
  BY Serial DEF KInv
<1>2. Bare' => Bare
  BY StaysBare
<1>3. Bare' => /\ position' = lock' /\ actor'[lock'].work = "entry"
               /\ actor'[lock'].step \in {"await", "record", "protect", "remediate"}
  BY <1>2 DEF KInv, Shield
<1>4. ASSUME NEW b \in Actors, actor'[b].step \in {"record", "protect"}, actor'[b].answer = "protected"
      PROVE  actor'[b].work = "entry" /\ (b \in stops' \/ position' # b)
  <2>1. b = a
    BY <1>1, <1>4 DEF Others
  <2> QED BY <1>4, <2>1
<1> QED BY <1>1, <1>3, <1>4 DEF Shield

(* Steps of a handler that is past the bare stretch, or not yet in it, and   *)
(* goes to no step that relies on protection.                                *)
LEMMA PlainShields ==
  ASSUME KInv, NEW a \in Actors,
         (a \in Runs /\ (RunDecide(a) \/ FlattenRead(a))) \/ OpenOrder(a) \/ SubmitOrder(a)
           \/ PostOrder(a) \/ Finalize(a) \/ CompleteClose(a)
  PROVE  Shield'
<1>1. ASSUME lock = a, Others(a), UNCHANGED <<side, position, rec>>,
             stops' = stops \/ position = NoOne, frozen => frozen',
             actor[a].step \notin {"await", "record", "protect", "remediate"},
             actor'[a].step \notin {"record", "protect"} \/ actor'[a].answer # "protected"
      PROVE  Shield'
  BY <1>1, HandlerShields
<1>2. LInv
  BY DEF KInv, JInv, SInv
<1>3. CASE a \in Runs /\ RunDecide(a)
  <2>1. RunDecideMoved(a)
    BY <1>2, <1>3, RunDecideMoves
  <2> QED BY <1>1, <2>1 DEF RunDecideMoved, Left, Went, Becomes, gateVars
<1>4. CASE a \in Runs /\ FlattenRead(a)
  <2>1. FlattenReadMoved(a)
    BY <1>2, <1>4, FlattenReadMoves
  <2> QED BY <1>1, <2>1
             DEF FlattenReadMoved, Left, Becomes, gateVars, Wrote, Refused, Gate!Freeze
<1>5. CASE OpenOrder(a)
  <2>1. OpenOrderMoved(a)
    BY <1>2, <1>5, OpenOrderMoves
  <2> QED BY <1>1, <2>1
             DEF OpenOrderMoved, Left, Went, Becomes, gateVars, Wrote, Refused,
                 Gate!Freeze
<1>6. CASE SubmitOrder(a)
  <2>1. SubmitOrderMoved(a)
    BY <1>2, <1>6, SubmitOrderMoves
  <2> QED BY <1>1, <2>1
             DEF SubmitOrderMoved, Left, Went, Becomes, gateVars, Wrote, Refused,
                 Gate!Freeze
<1>7. CASE PostOrder(a)
  <2>1. PostOrderMoved(a)
    BY <1>2, <1>7, PostOrderMoves
  <2> QED BY <1>1, <2>1 DEF PostOrderMoved, Went, Becomes, gateVars
<1>8. CASE Finalize(a)
  <2>1. FinalizeMoved(a)
    BY <1>2, <1>8, FinalizeMoves
  <2> QED BY <1>1, <2>1 DEF FinalizeMoved, Left, Went, Becomes, gateVars, Gate!Freeze
<1>9. CASE CompleteClose(a)
  <2>1. CompleteCloseMoved(a)
    BY <1>2, <1>9, CompleteCloseMoves
  <2> QED BY <1>1, <2>1 DEF CompleteCloseMoved, Left, Becomes, gateVars, Gate!Freeze
<1> QED BY <1>3, <1>4, <1>5, <1>6, <1>7, <1>8, <1>9

(* Protection is reported only with the stop pending.                        *)
LEMMA AwaitAnswerShields ==
  ASSUME KInv, NEW a \in Actors, AwaitAnswer(a)
  PROVE  Shield'
<1>1. AwaitAnswerMoved(a)
  BY AwaitAnswerMoves DEF KInv, JInv, SInv
<1>2. PICK answer \in AnswersOf(a) : Went(a, "record", answer)
  BY <1>1 DEF AwaitAnswerMoved
<1>3. /\ actor'[a].step = "record" /\ actor'[a].work = actor[a].work /\ actor'[a].answer = answer
      /\ lock' = lock /\ Others(a)
  BY <1>2 DEF Went, Becomes
<1>4. answer = "protected" => actor[a].work = "entry" /\ a \in stops
  <2>1. remote[Order(a)] # "protected"
    BY <1>1, StatusIs DEF AwaitAnswerMoved, KInv, JInv
  <2> QED BY <2>1 DEF AnswersOf, Verified, Closing
<1> QED BY <1>1, <1>3, <1>4, HandlerShields DEF AwaitAnswerMoved, gateVars

(* An entry that filled is not taken for dead or refused.                    *)
LEMMA RecordAnswerShields ==
  ASSUME KInv, NEW a \in Actors, RecordAnswer(a)
  PROVE  Shield'
<1>1. RecordAnswerMoved(a)
  BY RecordAnswerMoves DEF KInv, JInv, SInv
<1>2. lock = a /\ Others(a) /\ UNCHANGED <<side, position, stops, rec>> /\ (frozen => frozen')
  BY <1>1
     DEF RecordAnswerMoved, Left, Went, Becomes, Wrote, Refused, Gate!Freeze, gateVars
<1>3. \/ frozen' /\ (Left(a) \/ Went(a, "finalize", "unrecorded"))
      \/ Left(a) /\ actor[a].answer \in {"refused", "dead"}
      \/ Went(a, "protect", actor[a].answer)
  BY <1>1 DEF RecordAnswerMoved, Wrote, Refused, Gate!Freeze
<1>4. position = a /\ actor[a].work = "entry" => actor[a].answer \notin {"refused", "dead"}
  <2>1. SUFFICES ASSUME position = a, actor[a].work = "entry"
                 PROVE  actor[a].answer \notin {"refused", "dead"}
    OBVIOUS
  <2>2. a \in Runs /\ Order(a) = <<a, "entry">>
    BY <1>2, <2>1, StatusIs, ActorsAre DEF Order, KInv, JInv
  <2>3. remote[Order(a)] \in {"filled", "partial"}
    BY <2>1, <2>2 DEF KInv, JInv, Journal, Opened
  <2> QED BY <1>1, <1>2, <2>3, AtWork DEF OwnOf, RecordAnswerMoved, KInv
<1>5. CASE frozen' /\ (Left(a) \/ Went(a, "finalize", "unrecorded"))
  <2>1. ~Bare' /\ actor'[a].step \notin {"record", "protect"}
    BY <1>5 DEF Bare, Left, Went, Becomes
  <2> QED BY <1>2, <2>1, HandlerShields
<1>6. CASE Left(a) /\ actor[a].answer \in {"refused", "dead"}
  <2>1. actor'[a].step \notin {"record", "protect"}
    BY <1>6 DEF Left, Becomes
  <2> QED BY <1>2, <1>4, <1>6, <2>1, HandlerShields
<1>7. CASE Went(a, "protect", actor[a].answer)
  <2>1. /\ actor'[a].step = "protect" /\ actor'[a].work = actor[a].work
        /\ actor'[a].answer = actor[a].answer /\ lock' = a
    BY <1>2, <1>7 DEF Went, Becomes
  <2>2. actor[a].answer = "protected" => actor[a].work = "entry" /\ (a \in stops \/ position # a)
    BY <1>1 DEF KInv, Shield, RecordAnswerMoved
  <2> QED BY <1>2, <2>1, <2>2, HandlerShields
<1> QED BY <1>3, <1>5, <1>6, <1>7

(* An entry without its stop goes on to remediation, or the gate is shut.    *)
LEMMA RecordProtectionShields ==
  ASSUME KInv, NEW a \in Actors, RecordProtection(a)
  PROVE  Shield'
<1>1. RecordProtectionMoved(a)
  BY RecordProtectionMoves DEF KInv, JInv, SInv
<1>2. lock = a /\ Others(a) /\ UNCHANGED <<side, position, stops, rec>> /\ (frozen => frozen')
  BY <1>1
     DEF RecordProtectionMoved, Left, Went, Becomes, Wrote, Refused, Gate!Freeze,
         gateVars
<1>3. actor'[a].step \notin {"record", "protect"}
  BY <1>1 DEF RecordProtectionMoved, Left, Went, Becomes
<1>4. \/ frozen'
      \/ actor[a].work # "entry"
      \/ actor[a].answer = "protected"
      \/ lock' = a /\ actor'[a].work = actor[a].work /\ actor'[a].step = "remediate"
  BY <1>1 DEF RecordProtectionMoved, Closing, Went, Becomes, Refused, Gate!Freeze
<1>5. actor[a].answer = "protected" /\ position = a => ~Bare
  <2>1. SUFFICES ASSUME actor[a].answer = "protected", position = a PROVE Protected
    BY DEF Bare
  <2>2. a \in stops
    BY <1>1, <2>1 DEF KInv, Shield, RecordProtectionMoved
  <2> QED BY <2>1, <2>2 DEF Protected
<1>6. frozen' => ~Bare'
  BY DEF Bare
<1> QED BY <1>2, <1>3, <1>4, <1>5, <1>6, HandlerShields

(* Remediation places the stop or shuts the gate.                            *)
LEMMA RemediateShields ==
  ASSUME KInv, Windows = {}, NEW r \in Runs, Remediate(r)
  PROVE  Shield'
<1>1. RemediateMoved(r)
  BY RemediateMoves DEF KInv, JInv, SInv
<1>2. /\ r \in Actors /\ lock = r /\ Others(r) /\ UNCHANGED <<side, position, rec>>
      /\ frozen => frozen'
      /\ stops \subseteq stops'
  BY <1>1 DEF RemediateMoved, Left, Went, Becomes, Wrote, Refused, Gate!Freeze, gateVars
<1>3. actor'[r].step \notin {"record", "protect"}
  BY <1>1 DEF RemediateMoved, Left, Went, Becomes
<1>4. frozen' \/ (position' = r /\ r \in stops')
  BY <1>1 DEF RemediateMoved, Refused, Gate!Freeze
<1>5. ~Bare'
  BY <1>4 DEF Bare, Protected
<1> QED BY <1>2, <1>3, <1>5, HandlerShields

(* No run changes the side of a position or of a stop.                       *)
LEMMA StartShields ==
  ASSUME KInv, Windows = {},
         (\E r \in Runs, s \in Sides : RunStart(r, s))
           \/ (\E x \in Exits : ExitRead(x) \/ ExitLock(x))
  PROVE  Shield'
<1>1. LInv
  BY DEF KInv, JInv, SInv
<1>2. ASSUME NEW a \in Actors, Others(a), actor'[a].step \in {"decide", "lock", "open"},
             \/ lock' = lock /\ lock # a
             \/ lock = NoOne /\ rec.step = "idle",
             UNCHANGED <<frozen, position, stops, rec>>,
             position # NoOne => side'[position] = side[position],
             \A s \in stops : side'[s] = side[s]
      PROVE  Shield'
  <2>1. Protected' = Protected \/ position = NoOne
    BY <1>2 DEF Protected
  <2>2. Bare' => Bare
    BY <1>2, <2>1 DEF Bare
  <2>3. Bare => lock # NoOne
    BY DEF KInv, Shield, Bare
  <2>4. Bare' => /\ position' = lock' /\ actor'[lock'].work = "entry"
                 /\ actor'[lock'].step \in {"await", "record", "protect", "remediate"}
    <3>1. lock \in Actors \cup {NoOne}
      BY <1>1 DEF LInv, TypeOK
    <3> QED BY <1>2, <2>2, <2>3, <3>1 DEF KInv, Shield, Others
  <2>5. ASSUME NEW b \in Actors, actor'[b].step \in {"record", "protect"}, actor'[b].answer = "protected"
        PROVE  actor'[b].work = "entry" /\ (b \in stops' \/ position' # b)
    BY <1>2, <2>5 DEF KInv, Shield, Others
  <2>6. rec'.step = "end" /\ ~rec'.bad /\ position' # NoOne => Protected'
    BY <1>2, <2>1 DEF KInv, Shield
  <2> QED BY <2>4, <2>5, <2>6 DEF Shield
<1>3. ASSUME NEW r \in Runs, NEW s \in Sides, RunStart(r, s) PROVE Shield'
  <2>2. /\ r \in Actors /\ actor[r].step = "idle" /\ lock = NoOne /\ rec.step = "idle"
        /\ Others(r) /\ actor'[r].step = "decide"
        /\ side' = [side EXCEPT ![r] = s]
        /\ UNCHANGED <<frozen, position, stops, rec>>
    BY <1>1, <1>3, RunStartMoves DEF Becomes, gateVars
  <2>3. position # r /\ r \notin stops
    <3>1. <<r, "entry">> \in Orders
      BY DEF Orders
    <3>2. status[<<r, "entry">>] = "none"
      BY <2>2, <3>1 DEF KInv, JInv, Journal, FreshOf
    <3> QED BY <3>2 DEF KInv, JInv, Journal, Opened
  <2>4. \A q \in Runs : q # r => side'[q] = side[q]
    BY <2>2, <1>1 DEF LInv, TypeOK
  <2>5. stops \subseteq Runs /\ position \in Runs \cup {NoOne}
    BY <1>1 DEF LInv, TypeOK
  <2> QED BY <1>2, <2>2, <2>3, <2>4, <2>5
<1>4. ASSUME NEW x \in Exits, ExitRead(x) PROVE Shield'
  <2>1. /\ x \in Actors /\ actor[x].step = "idle" /\ lock' = lock
        /\ Others(x) /\ actor'[x].step = "lock"
        /\ UNCHANGED <<frozen, side, position, stops, rec>>
    BY <1>1, <1>4, ExitReadMoves DEF Becomes, gateVars
  <2>2. lock # x
    BY <1>1, <2>1 DEF LInv, Held, Inside
  <2>3. /\ position # NoOne => side'[position] = side[position]
        /\ \A s \in stops : side'[s] = side[s]
        /\ UNCHANGED <<frozen, position, stops, rec>>
    BY <2>1
  <2> QED BY <1>2, <2>1, <2>2, <2>3
<1>5. ASSUME NEW x \in Exits, ExitLock(x) PROVE Shield'
  <2>1. /\ x \in Actors /\ lock = NoOne /\ rec.step = "idle"
        /\ Others(x) /\ actor'[x].step = "open"
        /\ UNCHANGED <<frozen, side, position, stops, rec>>
    BY <1>1, <1>5, ExitLockMoves DEF Becomes, gateVars
  <2> QED BY <1>2, <2>1
<1> QED BY <1>3, <1>4, <1>5

(* Only the handler that placed it can be waiting for a live entry while the *)
(* gate is open.                                                             *)
LEMMA LiveIsDoubted ==
  ASSUME JInv, NEW r \in Runs, remote[<<r, "entry">>] = "live", ~frozen
  PROVE  /\ lock = r /\ actor[r].work = "entry"
         /\ actor[r].step \in {"await", "record", "protect", "remediate"}
<1>1. <<r, "entry">> \in Orders
  BY DEF Orders
<1>2. status[<<r, "entry">>] \in {"submitting", "unknown", "acknowledged"}
  BY <1>1 DEF JInv, Journal, KnownOf
<1>3. lock # NoOne /\ <<r, "entry">> = Order(lock)
  BY <1>1, <1>2 DEF JInv, Journal, DoubtOf, InFlight
<1>4. lock = r /\ actor[r].work = "entry" /\ Order(r) = <<r, "entry">>
  BY <1>3 DEF Order
<1>5. r \in Actors
  BY ActorsAre
<1>6. FreshOf(r) /\ OwnOf(r) /\ Inside(r) /\ actor[r].step \in Steps
  BY <1>4, <1>5 DEF JInv, Journal, SInv, LInv, Held, TypeOK
<1>7. actor[r].step \notin {"idle", "lock", "done", "finalize", "complete"}
  BY <1>4, <1>5, <1>6 DEF JInv, SInv, LInv, Stations, Inside
<1>8. actor[r].step \notin {"decide", "open", "submit", "post", "flatten"}
  BY <1>2, <1>4, <1>6 DEF FreshOf, OwnOf
<1> QED BY <1>4, <1>6, <1>7, <1>8 DEF Steps

(* An entry that fills with the gate open is still being waited for.         *)
LEMMA EnvironmentShields ==
  ASSUME KInv, Windows = {}, Environment
  PROVE  Shield'
<1>1. ASSUME UNCHANGED <<actor, lock, side, rec>>, frozen => frozen',
             position' = NoOne \/ (position' = position /\ stops \subseteq stops')
      PROVE  Shield'
  <2>1. CASE position' = NoOne
    <3>1. \A a \in Actors : position' # a
      BY <2>1, ActorsAre
    <3> QED BY <1>1, <2>1, <3>1 DEF KInv, Shield, Bare
  <2>2. CASE position' = position /\ stops \subseteq stops'
    <3>1. (Bare' => Bare) /\ (Protected => Protected')
      BY <1>1, <2>2 DEF Bare, Protected
    <3>2. Bare' => /\ position' = lock' /\ actor'[lock'].work = "entry"
                   /\ actor'[lock'].step \in {"await", "record", "protect", "remediate"}
      BY <1>1, <2>2, <3>1 DEF KInv, Shield
    <3>3. ASSUME NEW a \in Actors, actor'[a].step \in {"record", "protect"}, actor'[a].answer = "protected"
          PROVE  actor'[a].work = "entry" /\ (a \in stops' \/ position' # a)
      BY <1>1, <2>2, <3>3 DEF KInv, Shield
    <3>4. rec'.step = "end" /\ ~rec'.bad /\ position' # NoOne => Protected'
      BY <1>1, <2>2, <3>1 DEF KInv, Shield
    <3> QED BY <3>2, <3>3, <3>4 DEF Shield
  <2> QED BY <1>1, <2>1, <2>2
<1>2. CASE \E o \in Orders : Arrive(o)
  BY <1>1, <1>2 DEF Arrive, gateVars
<1>3. CASE \E o \in Orders : Settle(o)
  <2>1. PICK o \in Orders : Settle(o)
    BY <1>3
  <2>2. /\ UNCHANGED <<frozen, actor, lock, side, rec>> /\ rec.step = "idle"
        /\ remote[o] = "live" /\ stops \subseteq stops'
        /\ position' \in {position, NoOne} \/ (o[2] = "entry" /\ position' = o[1])
    BY <2>1 DEF Settle, Netted, Quiet, gateVars
  <2>3. CASE position' \in {position, NoOne}
    BY <1>1, <2>2, <2>3
  <2>4. ASSUME NEW r \in Runs, o = <<r, "entry">>, position' = r PROVE Shield'
    <3>1. Bare' => /\ position' = lock' /\ actor'[lock'].work = "entry"
                   /\ actor'[lock'].step \in {"await", "record", "protect", "remediate"}
      BY <2>2, <2>4, LiveIsDoubted DEF Bare, KInv
    <3>2. ASSUME NEW a \in Actors, actor'[a].step \in {"record", "protect"}, actor'[a].answer = "protected"
          PROVE  actor'[a].work = "entry" /\ (a \in stops' \/ position' # a)
      <4>1. actor[a].work = "entry" /\ Order(a) = <<a, "entry">>
        BY <2>2, <3>2 DEF KInv, Shield, Order
      <4>2. remote[Order(a)] = "filled"
        BY <2>2, <3>2 DEF KInv, JInv, Journal, OwnOf
      <4>3. a # r
        BY <2>2, <2>4, <4>1, <4>2
      <4> QED BY <2>2, <2>4, <4>1, <4>3
    <3> QED BY <2>2, <3>1, <3>2 DEF Shield
  <2>5. o[2] = "entry" => o = <<o[1], "entry">> /\ o[1] \in Runs
    BY DEF Orders
  <2> QED BY <2>2, <2>3, <2>4, <2>5
<1>4. CASE \E s \in Runs : StopTriggers(s)
  BY <1>1, <1>4 DEF StopTriggers, gateVars
<1>5. CASE MonitorFreezes
  BY <1>1, <1>5 DEF MonitorFreezes, Gate!Freeze, venue
<1>6. CASE Restart
  <2>1. LInv
    BY DEF KInv, JInv, SInv
  <2>2. frozen' /\ rec' = RecIdle
    BY <1>6, <2>1, RestartMoves
  <2>3. \A a \in Actors : actor'[a].step \notin {"record", "protect"}
    BY <1>6, <2>1, RestartMoves
  <2> QED BY <2>2, <2>3 DEF Shield, Bare, RecIdle
<1> QED BY <1>2, <1>3, <1>4, <1>5, <1>6 DEF Environment

(* The gate opens only on a position seen protected.                         *)
LEMMA ReconcileShields ==
  ASSUME KInv, Windows = {}, Reconcile
  PROVE  Shield'
<1>1. /\ lock = NoOne /\ UNCHANGED <<lock, actor, side, position>>
      /\ \A a \in Actors : actor[a].step \in {"idle", "lock", "done"}
  <2>1. lock = NoOne
    BY DEF KInv, JInv, Journal, Alone, Reconcile, ReconcileBegin, ReconcileRead,
           ReconcileList,
           ReconcileFails, ReconcileOrder, ReconcileGaps, ReconcileEnd
  <2>2. UNCHANGED <<lock, actor, side, position>>
    BY DEF Reconcile, ReconcileBegin, ReconcileRead, ReconcileList, ReconcileFails,
           ReconcileOrder, ReconcileGaps, ReconcileEnd, venue
  <2> QED BY <2>1, <2>2, ActorsAre DEF KInv, JInv, SInv, LInv, Held, Inside
<1>2. ~Bare
  BY <1>1 DEF KInv, Shield, Bare
<1>3. ASSUME ~Bare', rec'.step = "end" /\ ~rec'.bad /\ position # NoOne => Protected'
      PROVE  Shield'
  BY <1>1, <1>3 DEF Shield
<1>a. rec \in Recs
  BY DEF KInv, JInv, SInv, LInv, TypeOK, Recs, RecSteps
<1>4. CASE ReconcileBegin
  <2>1. frozen' /\ rec'.step = "read"
    BY <1>4, <1>a DEF ReconcileBegin, Gate!Begin, Recs
  <2> QED BY <1>3, <2>1 DEF Bare
<1>5. CASE ReconcileRead \/ ReconcileList \/ ReconcileFails
  <2>1. UNCHANGED <<frozen, stops>>
    BY <1>5 DEF ReconcileRead, ReconcileList, ReconcileFails, venue, gateVars
  <2>2. ~Bare'
    BY <1>1, <1>2, <2>1 DEF Bare, Protected
  <2>3. rec'.step # "end" \/ rec'.bad
    <3>1. CASE ReconcileRead
      BY <3>1, <1>a DEF ReconcileRead, Recs
    <3>2. CASE ReconcileList
      <4> DEFINE todo == {<<o, status[o]>> : o \in {o \in Orders : status[o] \notin Terminal \cup {"none"}}}
      <4>1. rec' = [rec EXCEPT !.step = "orders", !.todo = todo]
        BY <3>2 DEF ReconcileList
      <4> HIDE DEF todo
      <4> QED BY <4>1, <1>a DEF Recs
    <3>3. CASE ReconcileFails
      <4>1. TypeOK
        BY DEF KInv, JInv, SInv, LInv
      <4> QED BY <3>3, <4>1, AbortedMoves DEF ReconcileFails
    <3> QED BY <1>5, <3>1, <3>2, <3>3
  <2> QED BY <1>3, <2>2, <2>3
<1>6. CASE ReconcileGaps
  <2>1. UNCHANGED <<frozen, stops>>
    BY <1>6 DEF ReconcileGaps, venue, gateVars
  <2>2. ~Bare' /\ Protected' = Protected
    BY <1>1, <1>2, <2>1 DEF Bare, Protected
  <2>3. position \in {rec.position, NoOne}
    BY <1>6 DEF ReconcileGaps, KInv, JInv, Journal, Alone
  <2>4. PICK gap \in BOOLEAN :
          gap = (rec.position # NoOne /\ ~\E s \in stops : side[s] = side[rec.position])
    OBVIOUS
  <2>5. PICK b \in BOOLEAN : b = (rec.bad \/ gap)
    OBVIOUS
  <2>6. rec' = [rec EXCEPT !.step = "end", !.bad = b]
    BY <1>6, <1>a, <2>4, <2>5 DEF ReconcileGaps, Recs
  <2>7. ~rec'.bad => ~gap
    BY <1>a, <2>5, <2>6 DEF Recs
  <2>8. ~rec'.bad /\ position # NoOne => Protected
    BY <2>3, <2>4, <2>7 DEF Protected
  <2> QED BY <1>3, <2>2, <2>8
<1>7. CASE ReconcileEnd
  <2>1. /\ rec.step = "end" /\ rec' = RecIdle /\ stops' = stops
        /\ rec.bad => frozen'
    BY <1>7 DEF ReconcileEnd, Gate!Complete, venue
  <2>2. ~Bare'
    BY <1>1, <2>1 DEF KInv, Shield, Bare, Protected
  <2> QED BY <1>3, <2>1, <2>2 DEF RecIdle
<1>8. CASE ReconcileOrder
  <2>1. PICK t \in rec.todo : ReconcileResting(t) \/ ReconcileNew(t) \/ ReconcileInFlight(t)
    BY <1>8 DEF ReconcileOrder
  <2>2. Listed(t) /\ position \in {rec.position, NoOne}
    BY <1>8, <2>1, OrderListed DEF ReconcileOrder, KInv, JInv, Journal, Alone
  <2>3. stops' = stops \/ position = NoOne
    BY <2>2 DEF Listed
  <2>4. ~Bare'
    BY <1>1, <1>2, <2>2, <2>3 DEF Bare, Protected, Listed
  <2>5. rec'.step = "end" => rec'.bad
    BY <2>2 DEF Listed
  <2> QED BY <1>3, <2>4, <2>5
<1> QED BY <1>4, <1>5, <1>6, <1>7, <1>8 DEF Reconcile

(* docs/RISK.md:16: between handlers an open position has a stop of its      *)
(* side pending, or the gate is shut, for any number of runs and exits,      *)
(* provided no reconciliation overlaps a handler and remediation is not      *)
(* cut off by its deadline (the two windows; with "overlap" the run          *)
(* MCTradeOverlap shows the exception).                                      *)
THEOREM ProtectionHolds ==
  ASSUME Windows = {}
  PROVE  Spec => []ProtectedOrFrozen
<1>1. Init => KInv
  <2> SUFFICES ASSUME Init PROVE KInv
    OBVIOUS
  <2>1. Shield
    BY DEF Init, Shield, Bare, Idle, RecIdle
  <2> QED BY <2>1, JInvStarts DEF KInv
<1>2. KInv /\ [Next]_vars => KInv'
  <2> SUFFICES ASSUME KInv, [Next]_vars PROVE KInv'
    OBVIOUS
  <2>1. JInv'
    BY JInvNext DEF KInv
  <2>2. ASSUME UNCHANGED vars PROVE Shield'
    BY <2>2 DEF KInv, Shield, Bare, Protected, vars, gateVars, venue
  <2>3. ASSUME NEW a \in Actors, OrderStep(a) PROVE Shield'
    BY <2>3, PlainShields, AwaitAnswerShields, RecordAnswerShields,
       RecordProtectionShields
       DEF OrderStep
  <2>4. ASSUME NEW r \in Runs, RunStep(r) PROVE Shield'
    BY <2>4, PlainShields, RemediateShields, ActorsAre DEF RunStep
  <2>5. Shield'
    BY <2>2, <2>3, <2>4, StartShields, EnvironmentShields, ReconcileShields
       DEF Next, ExitStep, KInv
  <2> QED BY <2>1, <2>5 DEF KInv
<1>3. KInv => ProtectedOrFrozen
  BY ActorsAre DEF KInv, Shield, Bare, ProtectedOrFrozen
<1> QED BY <1>1, <1>2, <1>3, PTL DEF Spec
=============================================================================
