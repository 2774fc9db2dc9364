------------------------------ MODULE LlmBudget ------------------------------
(* A call of the resilient LLM client: circuit breaker, the budget of its    *)
(* run's session, the budget of the calendar day, the retries of the         *)
(* provider, and the account of what was used, which the tracker keeps in    *)
(* memory and a worker saves (internal/llm/client.go, internal/tokenusage).  *)
(*                                                                           *)
(* Tokens and dollars are gated alike, so one quantity stands for both.      *)
(* Prompts are of one size, 1; a call reserves Allowance for the day: its    *)
(* prompt and the longest answer the client asks for.                        *)
EXTENDS Integers, FiniteSets, FiniteSetsExt, Sequences

CONSTANTS
  Calls,          \* calls of LLMClient.Text and JSON
  Days,           \* 1..n, the calendar days of the run
  TokenBudget,    \* the day's budget
  Allowance,      \* what a call reserves for the day
  Usages,         \* what a provider may report as used
  SessionTokens,  \* Budget.MaxTokens of the run's session
  SessionCalls,   \* Budget.MaxCalls
  Windows,        \* 0..n, generations of the session's budget window
  MaxRetries,
  Threshold,      \* failures that open the circuit
  QueueSize       \* events waiting for the tracker's worker

ASSUME LlmBudgetAssumption ==
  /\ IsFiniteSet(Calls) /\ Windows \subseteq Nat
  /\ Days \subseteq Nat \ {0} /\ 1 \in Days
  /\ TokenBudget \in Nat \ {0} /\ Allowance \in Nat \ {0}
  /\ Usages \subseteq Nat /\ Threshold \in Nat \ {0}
  /\ QueueSize \in Nat \ {0} /\ MaxRetries \in Nat

VARIABLES
  call,      \* call[c]: [step, ts, on, attempt, window, used, probe]; ts dates
             \* its event, on is the day it was let through on
  circuit,   \* [failures, cooling, half]: openUntil not reached, halfOpenRun
  session,   \* budgetState: [window, calls, tokens, reserved]
  today,
  totals,    \* totals[d]: tokens the tracker has recorded for day d
  held,      \* reservations: held[c] is the day c reserved on, 0 for none
  paused,    \* pausedDay, 0 for none
  alerted,   \* the days a pause has been announced for
  closing,   \* Tracker.closing
  queue,     \* events on their way to the store, as <<day, tokens>>
  saved,    \* saved[d]: tokens of day d the store has
  excess     \* history: excess[d], tokens of day d the gate could not foresee

llmVars == <<call, circuit, session, today, totals, held, paused, alerted,
             closing, queue, saved, excess>>
dayVars == <<totals, held, paused, alerted, closing, queue, saved, excess>>

NoCall == [step |-> "idle", ts |-> 0, on |-> 0, attempt |-> 0, window |-> 0,
           used |-> 0, probe |-> FALSE]
Ended == [NoCall EXCEPT !.step = "done"]
Closed == [failures |-> 0, cooling |-> FALSE, half |-> FALSE]
Window(w) == [window |-> w, calls |-> 0, tokens |-> 0, reserved |-> 0]

(* Type invariant. *)
LlmTypeOK ==
  /\ call \in [Calls ->
       [step : {"idle", "reserve", "session", "invoke", "sleep", "record",
                "rejected", "done"},
        ts : Days \cup {0}, on : Days \cup {0}, attempt : 0..MaxRetries,
        window : Windows \cup {0}, used : Nat, probe : BOOLEAN]]
  /\ circuit \in [failures : 0..Threshold, cooling : BOOLEAN, half : BOOLEAN]
  /\ session \in [window : Windows \cup {0}, calls : 0..SessionCalls,
                  tokens : Nat, reserved : 0..SessionCalls]
  /\ today \in Days /\ paused \in Days \cup {0} /\ alerted \subseteq Days
  /\ {totals, saved, excess} \subseteq [Days -> Nat]
  /\ held \in [Calls -> Days \cup {0}] /\ closing \in BOOLEAN
  /\ queue \in Seq(Days \X Nat) /\ Len(queue) <= QueueSize

LlmInit ==
  /\ call = [c \in Calls |-> NoCall]
  /\ circuit = Closed
  /\ session = Window(0)
  /\ today = 1
  /\ totals = [d \in Days |-> 0] /\ saved = totals /\ excess = totals
  /\ held = [c \in Calls |-> 0]
  /\ paused = 0 /\ alerted = {} /\ closing = FALSE /\ queue = <<>>

-----------------------------------------------------------------------------
(* The client *)

Step(c, s) == call' = [call EXCEPT ![c].step = s]

(* beforeCircuit: closed circuits let everyone through, a circuit whose      *)
(* cooldown is over lets one call through to try.  The event the call will   *)
(* be recorded as is dated here.                                             *)
MayTry == circuit.failures < Threshold \/ (~circuit.cooling /\ ~circuit.half)

EnterCall(c) ==
  /\ call[c].step = "idle"
  /\ \/ /\ MayTry
        /\ LET probe == circuit.failures >= Threshold IN
           /\ circuit' = [circuit EXCEPT !.half = @ \/ probe]
           /\ call' = [call EXCEPT ![c].step = "reserve", ![c].ts = today,
                                   ![c].probe = probe]
     \/ ~MayTry /\ Step(c, "done") /\ UNCHANGED circuit
  /\ UNCHANGED <<session, today, dayVars>>

(* reserveBudget: a window that is over starts again before the limits are   *)
(* looked at.                                                                *)
ReserveSession(c) ==
  /\ call[c].step = "session"
  /\ \E w \in {session.window, session.window + 1} \cap Windows :
       LET s == IF w = session.window THEN session ELSE Window(w) IN
       IF s.calls < SessionCalls /\ s.tokens + s.reserved + 1 <= SessionTokens
         THEN /\ session' = [s EXCEPT !.calls = @ + 1, !.reserved = @ + 1]
              /\ call' = [call EXCEPT ![c].step = "invoke", ![c].window = w]
         ELSE session' = s /\ Step(c, "rejected")
  /\ UNCHANGED <<circuit, today, dayVars>>

(* settleBudget and settleFailedBudget: a reservation of an earlier window   *)
(* is forgotten with it.                                                     *)
Settled(c, used) ==
  session' = IF call[c].window # session.window THEN session
             ELSE [session EXCEPT !.reserved = @ - 1, !.tokens = @ + used]

(* The provider answers.  What was used is the event's, whether the run's    *)
(* budget bears it or not.                                                   *)
Answered(c, used) ==
  /\ call[c].step = "invoke"
  /\ circuit' = Closed
  /\ Settled(c, used)
  /\ call' = [call EXCEPT ![c].step = "record", ![c].used = used, ![c].probe = FALSE]
  /\ UNCHANGED <<today, dayVars>>

(* recordCircuitFailure; the failure count matters up to the threshold. *)
CircuitFailure ==
  circuit' = [failures |-> IF circuit.failures < Threshold
                             THEN circuit.failures + 1 ELSE Threshold,
              cooling |-> circuit.cooling \/ circuit.failures + 1 >= Threshold,
              half |-> FALSE]

(* The provider fails for good, or the caller's context ends: the prompt may *)
(* have been used.                                                           *)
GivesUp(c) ==
  /\ Settled(c, 1)
  /\ call' = [call EXCEPT ![c].step = "record", ![c].used = 1, ![c].probe = FALSE]

AttemptFails(c) ==
  /\ call[c].step = "invoke"
  /\ CircuitFailure
  /\ \/ GivesUp(c)
     \/ /\ call[c].attempt < MaxRetries
        /\ call' = [call EXCEPT ![c].step = "sleep", ![c].probe = FALSE]
        /\ UNCHANGED session
  /\ UNCHANGED <<today, dayVars>>

(* The back-off is over, or the context ends during it. *)
WakeUp(c) ==
  /\ call[c].step = "sleep"
  /\ \/ /\ call' = [call EXCEPT ![c].step = "invoke", ![c].attempt = @ + 1]
        /\ UNCHANGED session
     \/ GivesUp(c)
  /\ UNCHANGED <<circuit, today, dayVars>>

-----------------------------------------------------------------------------
(* The tracker *)

Reserved(d) == Allowance * Cardinality({c \in Calls : held[c] = d})

(* Tracker.Reserve: yesterday's pause and reservations lapse first. A call   *)
(* that does not fit pauses the rest of the day for everyone.                *)
Blocked == \/ paused = today
           \/ totals[today] >= TokenBudget
           \/ totals[today] + Reserved(today) + Allowance > TokenBudget

Reserve(c) ==
  /\ call[c].step = "reserve"
  /\ LET kept == [e \in Calls |-> IF held[e] = today THEN today ELSE 0] IN
     \/ closing /\ Step(c, "rejected") /\ UNCHANGED <<held, paused, alerted>>
     \/ /\ ~closing /\ Blocked
        /\ Step(c, "rejected")
        /\ held' = kept /\ paused' = today /\ alerted' = alerted \cup {today}
     \/ /\ ~closing /\ ~Blocked
        /\ call' = [call EXCEPT ![c].step = "session", ![c].on = today]
        /\ held' = [kept EXCEPT ![c] = today] /\ paused' = 0
        /\ UNCHANGED alerted
  /\ UNCHANGED <<circuit, session, today, totals, closing, queue, saved, excess>>

(* Tracker.Record: the reservation goes, the total of the event's day grows, *)
(* a day that has reached its budget is paused once, and the event is queued *)
(* for the store unless the queue is full.                                   *)
Record(c) ==
  LET d == call[c].ts
      used == call[c].used
      reached == totals[d] + used >= TokenBudget /\ d \notin alerted
      unforeseen == IF call[c].on = d THEN Max({0, used - Allowance}) ELSE used
  IN \/ closing /\ UNCHANGED dayVars
     \/ /\ ~closing
        /\ held' = [held EXCEPT ![c] = 0]
        /\ totals' = [totals EXCEPT ![d] = @ + used]
        /\ excess' = [excess EXCEPT ![d] = @ + unforeseen]
        /\ paused' = IF reached THEN d ELSE paused
        /\ alerted' = IF reached THEN alerted \cup {d} ELSE alerted
        /\ queue' = IF Len(queue) < QueueSize THEN Append(queue, <<d, used>>) ELSE queue
        /\ UNCHANGED <<closing, saved>>

(* recordUsage ends the call. *)
RecordUsage(c) ==
  /\ call[c].step = "record"
  /\ Record(c)
  /\ call' = [call EXCEPT ![c] = Ended]
  /\ UNCHANGED <<circuit, session, today>>

(* Variant: the try is not given back. *)
RecordRejectedOnly(c) ==
  /\ call[c].step = "rejected"
  /\ Record(c)
  /\ call' = [call EXCEPT ![c] = Ended]
  /\ UNCHANGED <<circuit, session, today>>

(* A refused call is recorded with nothing used, and gives the try at the    *)
(* provider back: releaseHalfOpen.                                           *)
RecordRejected(c) ==
  /\ call[c].step = "rejected"
  /\ Record(c)
  /\ circuit' = [circuit EXCEPT !.half = FALSE]
  /\ call' = [call EXCEPT ![c] = Ended]
  /\ UNCHANGED <<session, today>>

(* Tracker.run saves the oldest event, or gives up on it after three         *)
(* attempts.  After Close it goes on until the queue is empty.               *)
SaveUsage ==
  /\ queue # <<>>
  /\ queue' = Tail(queue)
  /\ LET e == Head(queue) IN
     saved' \in {saved, [saved EXCEPT ![e[1]] = @ + e[2]]}
  /\ UNCHANGED <<call, circuit, session, today, totals, held, paused, alerted,
                 closing, excess>>

CloseTracker ==
  /\ ~closing /\ closing' = TRUE
  /\ UNCHANGED <<call, circuit, session, today, totals, held, paused, alerted,
                 queue, saved, excess>>

(* The process ends, in order or not, and starts again on what the store     *)
(* has.  Calls under way are gone; a new client's circuit is closed.         *)
RestartTracker ==
  /\ call' = [c \in Calls |-> IF call[c].step = "idle" THEN NoCall ELSE Ended]
  /\ circuit' = Closed /\ session' = Window(0)
  /\ totals' = saved /\ held' = [c \in Calls |-> 0]
  /\ paused' = 0 /\ alerted' = {} /\ closing' = FALSE /\ queue' = <<>>
  /\ UNCHANGED <<today, saved, excess>>

CoolDown ==
  /\ circuit.cooling /\ circuit' = [circuit EXCEPT !.cooling = FALSE]
  /\ UNCHANGED <<call, session, today, dayVars>>

Midnight ==
  /\ today + 1 \in Days /\ today' = today + 1
  /\ UNCHANGED <<call, circuit, session, dayVars>>

LlmNext ==
  \/ \E c \in Calls :
       \/ EnterCall(c) \/ Reserve(c) \/ ReserveSession(c)
       \/ \E used \in Usages : Answered(c, used)
       \/ AttemptFails(c) \/ WakeUp(c) \/ RecordUsage(c) \/ RecordRejected(c)
  \/ SaveUsage \/ CloseTracker \/ RestartTracker
  \/ CoolDown \/ Midnight

LlmSpec == LlmInit /\ [][LlmNext]_llmVars

-----------------------------------------------------------------------------
(* client.go:250 and docs/GO_OPERATIONS.md:253: calls made at once cannot    *)
(* overshoot the day together.  A day's total exceeds its budget by no more  *)
(* than what calls used beyond their allowance, and by calls that were let   *)
(* through after the midnight that followed their date.                      *)
CeilingHolds == \A d \in Days : totals[d] <= TokenBudget + excess[d]

(* The one try at a provider that failed is always somebody's: a call that   *)
(* will end it on every path, refusals by either budget included.  A try     *)
(* nobody has would keep the provider shut off for good.                     *)
TryIsHeld ==
  circuit.half => \E c \in Calls :
    call[c].probe /\ call[c].step \in {"reserve", "session", "rejected", "invoke"}

(* Neither budget is overshot by calls made at once, and neither of them, by *)
(* refusing a call, takes the provider's one try with it.                    *)
BudgetHeld == CeilingHolds /\ TryIsHeld
=============================================================================
