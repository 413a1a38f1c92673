-------------------------------- MODULE EventsBus --------------------------------
(***************************************************************************)
(* observ/events_bus.py and the two SSE endpoints of web/pages.py.  The    *)
(* "scan" bus carries the outcome of every dispatch, the "raw" bus every   *)
(* watcher event; both have the same shape.  A record is the number of its *)
(* publication on its bus.                                                 *)
(*                                                                         *)
(* A viewer is one browser: its generator first replays the bus's recent   *)
(* records, one awaited frame at a time, and only then subscribes.         *)
(***************************************************************************)
EXTENDS Naturals, Sequences

CONSTANTS Viewer,      \* browsers that may open an event stream
          Capacity,    \* size of a bus's ring buffer
          QueueMax,    \* size of a subscriber's queue
          RecentLimit, \* default limit of recent()
          MaxPublished \* bound: records published on a bus

ASSUME BusBoundsAssumption == {Capacity, QueueMax, RecentLimit} \subseteq Nat \ {0}
ASSUME MaxPublishedAssumption == MaxPublished \in Nat

Bus == {"scan", "raw"}

VARIABLES published,  \* bus -> how many records were published
          buffer,     \* bus -> _buffer
          stage,      \* viewer -> how far its generator has come
          feed,       \* viewer -> the bus it reads
          todo,       \* viewer -> what is left of the replay
          queue,      \* viewer -> its queue in _subscribers
          shown       \* viewer -> the last record of this stream (history)

busVars == <<published, buffer, stage, feed, todo, queue, shown>>

BusInit == /\ published = [b \in Bus |-> 0]
           /\ buffer = [b \in Bus |-> <<>>]
           /\ stage = [v \in Viewer |-> "away"]
           /\ feed = [v \in Viewer |-> "scan"]
           /\ todo = [v \in Viewer |-> <<>>]
           /\ queue = [v \in Viewer |-> <<>>]
           /\ shown = [v \in Viewer |-> 0]

Subscribed(v) == stage[v] \in {"live", "hungup"}

\* The last n members of s.
Newest(s, n) == IF Len(s) <= n THEN s ELSE SubSeq(s, Len(s) - n + 1, Len(s))

\* Bug variant: a full queue grows.
PushUnbounded(q, bound, r) == Append(q, r)

\* A full queue loses its oldest record.
Push(q, bound, r) == Append(IF Len(q) = bound THEN Tail(q) ELSE q, r)

\* publish(): never blocks, whatever the subscribers do.
Publish(b) ==
  LET r == published[b] + 1 IN
  /\ published' = [published EXCEPT ![b] = r]
  /\ buffer' = [buffer EXCEPT ![b] = Push(@, Capacity, r)]
  /\ queue' = [v \in Viewer |-> IF Subscribed(v) /\ feed[v] = b
                                THEN Push(queue[v], QueueMax, r) ELSE queue[v]]
  /\ UNCHANGED <<stage, feed, todo, shown>>

\* The stream is opened: recent() is read, and without recent records the generator
\* subscribes in the same turn.
Connect(v, b) ==
  /\ stage[v] = "away"
  /\ feed' = [feed EXCEPT ![v] = b]
  /\ todo' = [todo EXCEPT ![v] = Newest(buffer[b], RecentLimit)]
  /\ stage' = [stage EXCEPT ![v] = IF buffer[b] = <<>> THEN "live" ELSE "replay"]
  /\ UNCHANGED <<published, buffer, queue, shown>>

\* One frame of the replay; the generator is suspended while it is sent.
Replay(v) ==
  /\ stage[v] = "replay" /\ todo[v] # <<>>
  /\ shown' = [shown EXCEPT ![v] = Head(todo[v])]
  /\ todo' = [todo EXCEPT ![v] = Tail(@)]
  /\ UNCHANGED <<published, buffer, stage, feed, queue>>

\* Bug variant: the new queue starts with the recent records.
SubscribeWithRecent(v) ==
  /\ stage[v] = "replay" /\ todo[v] = <<>>
  /\ stage' = [stage EXCEPT ![v] = "live"]
  /\ queue' = [queue EXCEPT ![v] = Newest(buffer[feed[v]], QueueMax)]
  /\ UNCHANGED <<published, buffer, feed, todo, shown>>

\* subscribe(): what was published during the replay is not in the new queue.
Subscribe(v) ==
  /\ stage[v] = "replay" /\ todo[v] = <<>>
  /\ stage' = [stage EXCEPT ![v] = "live"]
  /\ UNCHANGED <<published, buffer, feed, todo, queue, shown>>

\* queue.get() returns and the viewer is still there.
ShowNext(v) ==
  /\ stage[v] = "live" /\ queue[v] # <<>>
  /\ shown' = [shown EXCEPT ![v] = Head(queue[v])]
  /\ queue' = [queue EXCEPT ![v] = Tail(@)]
  /\ UNCHANGED <<published, buffer, stage, feed, todo>>

\* The browser goes away; nothing tells the bus.
Hangup(v) ==
  /\ stage[v] \in {"replay", "live"}
  /\ stage' = [stage EXCEPT ![v] = IF @ = "live" THEN "hungup" ELSE "away"]
  /\ todo' = [todo EXCEPT ![v] = <<>>]
  /\ shown' = [shown EXCEPT ![v] = IF stage[v] = "live" THEN @ ELSE 0]
  /\ UNCHANGED <<published, buffer, feed, queue>>

\* The generator ends, at the next record or because it is cancelled: the queue is discarded.
Unsubscribe(v) ==
  /\ stage[v] = "hungup"
  /\ stage' = [stage EXCEPT ![v] = "away"]
  /\ queue' = [queue EXCEPT ![v] = <<>>]
  /\ shown' = [shown EXCEPT ![v] = 0]
  /\ UNCHANGED <<published, buffer, feed, todo>>

View(v) == \/ \E b \in Bus : Connect(v, b)
           \/ Replay(v) \/ Subscribe(v) \/ ShowNext(v) \/ Hangup(v) \/ Unsubscribe(v)

BusNext == \/ \E b \in Bus : published[b] < MaxPublished /\ Publish(b)
           \/ \E v \in Viewer : View(v)

BusSpec == BusInit /\ [][BusNext]_busVars

-----------------------------------------------------------------------------
\* The type of the state.
BusTypeOK == /\ published \in [Bus -> Nat]
             /\ buffer \in [Bus -> Seq(Nat)]
             /\ \A b \in Bus : Len(buffer[b]) <= Capacity
             /\ stage \in [Viewer -> {"away", "replay", "live", "hungup"}]
             /\ feed \in [Viewer -> Bus]
             /\ todo \in [Viewer -> Seq(Nat)]
             /\ queue \in [Viewer -> Seq(Nat)]
             /\ \A v \in Viewer : Len(queue[v]) <= QueueMax
             /\ shown \in [Viewer -> Nat]

\* The records of s are in order, newer than a and not newer than p.
Between(s, a, p) == /\ \A i \in DOMAIN s : a < s[i] /\ s[i] <= p
                    /\ \A i, j \in DOMAIN s : i < j => s[i] < s[j]

\* A stream never shows a record twice or an older one after a newer one, although it is
\* fed from the ring buffer first and from a queue that drops its oldest records later;
\* and what is queued for it is the newest that was published, without a hole.
FeedInOrder ==
  \A v \in Viewer :
    /\ todo[v] = <<>> \/ queue[v] = <<>>
    /\ Between(todo[v], shown[v], published[feed[v]])
    /\ Between(queue[v], shown[v], published[feed[v]])
    /\ \A i \in DOMAIN queue[v] : queue[v][i] = published[feed[v]] - Len(queue[v]) + i
=============================================================================
