------------------------------ MODULE EventBus ------------------------------
(* The dashboard's event fan-out (internal/events/bus.go) and the streams    *)
(* the API serves from it (eventStream in internal/api/server.go): a bounded *)
(* history, one bounded channel per stream, and browsers that connect again  *)
(* with the timestamp of the last event they saw.                            *)
(*                                                                           *)
(* An event is its number in the order Publish took them; stamp[e] is the    *)
(* time Emit read for it, before Publish took the lock.  History and         *)
(* channels are only ever filled in that order, so that each is the set of   *)
(* the events in it, its oldest the least of them.                           *)
EXTENDS Integers, FiniteSets, Sequences

CONSTANTS
  Emitters,      \* goroutines in Emit
  Browsers,      \* event streams, at most one connection each
  Slots,         \* eventStreamSlots
  MaxEvents,     \* bound on publications
  MaxTime,       \* bound on the clock
  MaxConnects,   \* bound on connections of a browser
  HistoryLimit,
  Buffer,        \* channel room besides the replayed events
  ReplayLimit    \* replay, as the request asked for it

ASSUME EventBusAssumption ==
  /\ {HistoryLimit, Buffer, ReplayLimit, MaxEvents, MaxConnects, MaxTime} \subseteq Nat
  /\ Slots \in Nat \ {0}

VARIABLES
  clock,
  emitting,   \* emitting[p]: the time p has read, 0 for none
  stamp,      \* stamp of every event published, in order
  history,    \* the retained events
  stream,     \* stream[b]: [live, chan, room, dropped, from], from the number
              \* of publications before the subscription
  seen,       \* Last-Event-ID of browser b, 0 for none
  connects,
  arrived,    \* history: the events browser b was ever sent
  busClosed

busVars == <<clock, emitting, stamp, history, stream, seen, connects, arrived,
             busClosed>>

NoStream == [live |-> FALSE, chan |-> {}, room |-> 0, dropped |-> 0, from |-> 0]

(* Type invariant; events are numbers of publications already made. *)
BusTypeOK ==
  /\ clock \in 1..MaxTime /\ emitting \in [Emitters -> 0..MaxTime]
  /\ stamp \in Seq(1..MaxTime) /\ history \subseteq DOMAIN stamp
  /\ stream \in [Browsers -> [live : BOOLEAN, chan : SUBSET DOMAIN stamp, room : Nat,
                              dropped : Nat, from : 0..Len(stamp)]]
  /\ seen \in [Browsers -> 0..MaxTime] /\ connects \in [Browsers -> 0..MaxConnects]
  /\ arrived \in [Browsers -> SUBSET DOMAIN stamp] /\ busClosed \in BOOLEAN

BusInit ==
  /\ clock = 1
  /\ emitting = [p \in Emitters |-> 0]
  /\ stamp = <<>> /\ history = {}
  /\ stream = [b \in Browsers |-> NoStream]
  /\ seen = [b \in Browsers |-> 0]
  /\ connects = [b \in Browsers |-> 0]
  /\ arrived = [b \in Browsers |-> {}]
  /\ busClosed = FALSE

Published == 1..Len(stamp)
Live == {b \in Browsers : stream[b].live}

(* Emit reads the clock, which never goes back but may read the same again. *)
Stamp(p) ==
  /\ emitting[p] = 0 /\ Len(stamp) < MaxEvents
  /\ \E t \in {clock, clock + 1} \cap 1..MaxTime :
       clock' = t /\ emitting' = [emitting EXCEPT ![p] = t]
  /\ UNCHANGED <<stamp, history, stream, seen, connects, arrived, busClosed>>

Newest(events, n) ==
  {e \in events : Cardinality({f \in events : f > e}) < n}

IsOldest(e, events) == e \in events /\ \A f \in events : e <= f

(* appendHistory *)
Retained(h, e) == Newest(h \cup {e}, HistoryLimit)

(* Variant: a full channel drops its oldest event for the new one. *)
OfferedNewest(s, e) ==
  IF ~s.live THEN s
  ELSE IF s.room = 0 THEN [s EXCEPT !.dropped = @ + 1]
  ELSE [s EXCEPT !.chan = Newest(@ \cup {e}, s.room)]

(* A full channel drops its own copy only. *)
Offered(s, e) ==
  IF ~s.live THEN s
  ELSE IF Cardinality(s.chan) < s.room THEN [s EXCEPT !.chan = @ \cup {e}]
  ELSE [s EXCEPT !.dropped = @ + 1]

Publish(p) ==
  LET e == Len(stamp) + 1 IN
  /\ emitting[p] # 0
  /\ emitting' = [emitting EXCEPT ![p] = 0]
  /\ \/ busClosed /\ UNCHANGED <<stamp, history, stream>>
     \/ /\ ~busClosed
        /\ stamp' = Append(stamp, emitting[p])
        /\ history' = Retained(history, e)
        /\ stream' = [b \in Browsers |-> Offered(stream[b], e)]
  /\ UNCHANGED <<clock, seen, connects, arrived, busClosed>>

(* replayLocked: the newest retained events stamped after the given time. *)
Replay(after) ==
  Newest({e \in history : after = 0 \/ stamp[e] > after}, ReplayLimit)

(* eventStream up to SubscribeReplay: a slot, then history and registration  *)
(* under one lock.                                                           *)
Connect(b) ==
  /\ ~stream[b].live /\ connects[b] < MaxConnects /\ ~busClosed
  /\ Cardinality(Live) < Slots
  /\ LET replay == Replay(seen[b]) IN
     stream' = [stream EXCEPT ![b] =
                  [live |-> TRUE, chan |-> replay, room |-> Buffer + Cardinality(replay),
                   dropped |-> 0, from |-> Len(stamp)]]
  /\ connects' = [connects EXCEPT ![b] = @ + 1]
  /\ UNCHANGED <<clock, emitting, stamp, history, seen, arrived, busClosed>>

(* The handler writes the oldest event, its timestamp as the id. *)
Deliver(b) ==
  /\ stream[b].live
  /\ \E e \in stream[b].chan :
     /\ IsOldest(e, stream[b].chan)
     /\ seen' = [seen EXCEPT ![b] = stamp[e]]
     /\ arrived' = [arrived EXCEPT ![b] = @ \cup {e}]
     /\ stream' = [stream EXCEPT ![b].chan = @ \ {e}]
  /\ UNCHANGED <<clock, emitting, stamp, history, connects, busClosed>>

(* The request's context ends, or a write fails: the subscription is         *)
(* cancelled with what its channel still holds.                              *)
Disconnect(b) ==
  /\ stream[b].live
  /\ stream' = [stream EXCEPT ![b] = NoStream]
  /\ UNCHANGED <<clock, emitting, stamp, history, seen, connects, arrived, busClosed>>

(* Close ends every stream once its channel is drained; here with what is    *)
(* left in it.                                                               *)
CloseBus ==
  /\ ~busClosed /\ busClosed' = TRUE
  /\ stream' = [b \in Browsers |-> NoStream]
  /\ UNCHANGED <<clock, emitting, stamp, history, seen, connects, arrived>>

BusNext ==
  \/ \E p \in Emitters : Stamp(p) \/ Publish(p)
  \/ \E b \in Browsers : Connect(b) \/ Deliver(b) \/ Disconnect(b)
  \/ CloseBus

BusSpec == BusInit /\ [][BusNext]_busVars

-----------------------------------------------------------------------------
(* bus.go:103 and :218: what a stream missed while it was subscribed is      *)
(* counted exactly, however publications, deliveries and a full channel      *)
(* interleave; another stream's slowness costs it nothing.                   *)
OnTheWay(b) == arrived[b] \cup stream[b].chan

DroppedIsExact ==
  \A b \in Live :
    stream[b].dropped =
      Cardinality({e \in Published : e > stream[b].from} \ OnTheWay(b))

(* bus.go:163: no event disappears between history and live delivery.  When  *)
(* a stream has dropped nothing, an event its browser never gets was already *)
(* out of the retained history when it connected, or behind the newest       *)
(* ReplayLimit events of it, or stamped no later than an event the browser   *)
(* had already seen.                                                         *)
Passed(b, e) ==
  \/ stream[b].from - e >= HistoryLimit \/ stream[b].from - e >= ReplayLimit
  \/ \E f \in arrived[b] : stamp[e] <= stamp[f]

NoGap ==
  \A b \in Live :
    stream[b].dropped = 0 =>
      \A e \in Published : e \in OnTheWay(b) \/ Passed(b, e)

(* An event a browser does not get is told of, or was out of its reach.      *)
StreamsComplete == DroppedIsExact /\ NoGap
=============================================================================
