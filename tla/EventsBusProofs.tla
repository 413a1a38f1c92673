----------------------------- MODULE EventsBusProofs -----------------------------
(***************************************************************************)
(* Proofs about EventsBus: the type of its state, and that no stream shows *)
(* a record twice or out of order, for any number of viewers and any sizes *)
(* of the ring buffers, the queues and the replay.                         *)
(***************************************************************************)
EXTENDS EventsBus, TLAPS

\* The records of s are numbered without a hole, and p is the last.
EndsAt(s, p) == \A i \in DOMAIN s : s[i] = p - Len(s) + i

\* The newest records of a sequence: which they are.
LEMMA NewestIs ==
  ASSUME NEW s \in Seq(Nat), NEW n \in Nat
  PROVE  /\ Newest(s, n) \in Seq(Nat)
         /\ Len(Newest(s, n)) <= Len(s)
         /\ \A i \in DOMAIN Newest(s, n) :
              Newest(s, n)[i] = s[Len(s) - Len(Newest(s, n)) + i]
BY DEF Newest

\* What Tail and Append do, element by element.
LEMMA TailIs ==
  ASSUME NEW S, NEW q \in Seq(S), q # <<>>
  PROVE  /\ Tail(q) \in Seq(S) /\ Len(Tail(q)) = Len(q) - 1
         /\ Len(q) \in Nat \ {0} /\ DOMAIN Tail(q) = 1 .. (Len(q) - 1)
         /\ \A i \in 1 .. (Len(q) - 1) : Tail(q)[i] = q[i + 1]
BY SMT

LEMMA AppendIs ==
  ASSUME NEW S, NEW q \in Seq(S), NEW x \in S
  PROVE  /\ Append(q, x) \in Seq(S) /\ Len(Append(q, x)) = Len(q) + 1
         /\ Len(q) \in Nat /\ DOMAIN Append(q, x) = 1 .. (Len(q) + 1)
         /\ \A i \in 1 .. Len(q) : Append(q, x)[i] = q[i]
         /\ Append(q, x)[Len(q) + 1] = x
BY SMT

\* A push keeps a run without a hole, within its bound.
LEMMA PushEndsAt ==
  ASSUME NEW q \in Seq(Nat), NEW bound \in Nat \ {0}, NEW p \in Nat,
         EndsAt(q, p), Len(q) <= bound, Len(q) <= p
  PROVE  /\ Push(q, bound, p + 1) \in Seq(Nat)
         /\ EndsAt(Push(q, bound, p + 1), p + 1)
         /\ Len(Push(q, bound, p + 1)) <= bound
         /\ Len(Push(q, bound, p + 1)) <= p + 1
         /\ Len(Push(q, bound, p + 1)) <= Len(q) + 1
         /\ Push(q, bound, p + 1) # <<>>
<1> DEFINE t == IF Len(q) = bound THEN Tail(q) ELSE q
<1>1. /\ t \in Seq(Nat) /\ Len(t) \in Nat /\ Len(t) <= bound - 1 /\ Len(t) <= Len(q)
      /\ EndsAt(t, p)
  <2>1. CASE Len(q) = bound
    <3>1. q # <<>> /\ t = Tail(q)
      BY <2>1
    <3>2. \A i \in 1 .. (Len(q) - 1) : Tail(q)[i] = p - (Len(q) - 1) + i
      BY <3>1, TailIs DEF EndsAt
    <3>3. /\ Tail(q) \in Seq(Nat) /\ Len(Tail(q)) = Len(q) - 1 /\ Len(q) \in Nat \ {0}
          /\ DOMAIN Tail(q) = 1 .. (Len(q) - 1)
      BY <3>1, TailIs
    <3>4. EndsAt(Tail(q), p)
      BY <3>2, <3>3 DEF EndsAt
    <3> QED BY <2>1, <3>1, <3>3, <3>4
  <2>2. CASE Len(q) # bound
    BY <2>2
  <2> QED BY <2>1, <2>2
<1>2. Push(q, bound, p + 1) = Append(t, p + 1)
  BY DEF Push
<1> HIDE DEF t
<1>3. \A i \in 1 .. (Len(t) + 1) : Append(t, p + 1)[i] = (p + 1) - (Len(t) + 1) + i
  <2> SUFFICES ASSUME NEW i \in 1 .. (Len(t) + 1)
               PROVE  Append(t, p + 1)[i] = (p + 1) - (Len(t) + 1) + i
    OBVIOUS
  <2>1. CASE i <= Len(t)
    BY <1>1, <2>1, AppendIs DEF EndsAt
  <2>2. CASE i = Len(t) + 1
    BY <1>1, <2>2, AppendIs
  <2> QED BY <1>1, <2>1, <2>2
<1>4. EndsAt(Append(t, p + 1), p + 1)
  BY <1>1, <1>3, AppendIs DEF EndsAt
<1>5. p + 1 \in Nat
  OBVIOUS
<1>6. Append(t, p + 1) \in Seq(Nat) /\ Len(Append(t, p + 1)) = Len(t) + 1
  BY <1>1, <1>5
<1>7. Append(t, p + 1) # <<>>
  BY <1>1, <1>5
<1>8. Len(q) \in Nat
  OBVIOUS
<1>9. /\ Len(t) + 1 <= bound /\ Len(t) + 1 <= p + 1 /\ Len(t) + 1 <= Len(q) + 1
  BY <1>1, <1>8
<1> DEFINE u == Append(t, p + 1)
<1> HIDE DEF u
<1>10. /\ u \in Seq(Nat) /\ Len(u) = Len(t) + 1 /\ u # <<>> /\ EndsAt(u, p + 1)
       /\ Push(q, bound, p + 1) = u
  BY <1>2, <1>4, <1>6, <1>7 DEF u
<1> QED BY <1>9, <1>10

\* A run without a hole whose length is at most p - a is newer than a.
LEMMA RunIsBetween ==
  ASSUME NEW s \in Seq(Nat), NEW a \in Nat, NEW p \in Nat, EndsAt(s, p), a + Len(s) <= p
  PROVE  Between(s, a, p)
BY DEF EndsAt, Between

\* A suffix of a run without a hole is one.
LEMMA NewestEndsAt ==
  ASSUME NEW s \in Seq(Nat), NEW n \in Nat, NEW p \in Nat, EndsAt(s, p)
  PROVE  EndsAt(Newest(s, n), p)
<1> DEFINE u == Newest(s, n)
<1>1. /\ u \in Seq(Nat) /\ Len(u) <= Len(s) /\ Len(u) \in Nat /\ Len(s) \in Nat
      /\ \A i \in DOMAIN u : u[i] = s[Len(s) - Len(u) + i]
  BY NewestIs
<1> HIDE DEF u
<1>2. ASSUME NEW i \in DOMAIN u
      PROVE  u[i] = p - Len(u) + i
  <2>1. i \in Nat /\ 1 <= i /\ i <= Len(u)
    BY <1>1
  <2> DEFINE j == Len(s) - Len(u) + i
  <2>2. j \in DOMAIN s /\ u[i] = s[j]
    BY <1>1, <2>1
  <2>3. s[j] = p - Len(s) + j
    BY <2>2 DEF EndsAt
  <2> QED BY <1>1, <2>1, <2>2, <2>3
<1>3. EndsAt(u, p)
  BY <1>2 DEF EndsAt
<1> QED BY <1>3 DEF u

\* What is left behind a record that is shown is newer than it.
LEMMA TailBetween ==
  ASSUME NEW s \in Seq(Nat), NEW a \in Nat, NEW p \in Nat, Between(s, a, p), s # <<>>
  PROVE  /\ Tail(s) \in Seq(Nat)
         /\ Head(s) \in Nat /\ Head(s) <= p
         /\ Between(Tail(s), Head(s), p)
<1>1. /\ Tail(s) \in Seq(Nat) /\ Len(s) \in Nat \ {0} /\ DOMAIN Tail(s) = 1 .. (Len(s) - 1)
      /\ \A i \in 1 .. (Len(s) - 1) : Tail(s)[i] = s[i + 1]
  BY TailIs
<1>2. Head(s) = s[1] /\ 1 \in DOMAIN s /\ DOMAIN s = 1 .. Len(s)
  BY <1>1
<1> DEFINE t == Tail(s)
<1> HIDE DEF t
<1>3. \A i \in DOMAIN t : i + 1 \in DOMAIN s /\ t[i] = s[i + 1] /\ 1 < i + 1 /\ i \in Nat
  BY <1>1, <1>2 DEF t
<1>4. \A i \in DOMAIN t : Head(s) < t[i] /\ t[i] <= p
  BY <1>2, <1>3 DEF Between
<1>5. ASSUME NEW i \in DOMAIN t, NEW j \in DOMAIN t, i < j
      PROVE  t[i] < t[j]
  <2>1. i + 1 < j + 1
    BY <1>3, <1>5
  <2> QED BY <1>3, <2>1 DEF Between
<1>6. Between(t, Head(s), p)
  BY <1>4, <1>5 DEF Between
<1>7. Head(s) \in Nat /\ Head(s) <= p
  BY <1>2 DEF Between
<1> QED BY <1>1, <1>6, <1>7 DEF t

-----------------------------------------------------------------------------
\* The rings and the queues are runs without a hole that end at the last record.
Rings == \A b \in Bus : EndsAt(buffer[b], published[b]) /\ Len(buffer[b]) <= published[b]

Stream(v) ==
  /\ EndsAt(queue[v], published[feed[v]])
  /\ shown[v] + Len(queue[v]) <= published[feed[v]]
  /\ Between(todo[v], shown[v], published[feed[v]])
  /\ Subscribed(v) => todo[v] = <<>>
  /\ ~Subscribed(v) => queue[v] = <<>>
  /\ stage[v] = "away" => shown[v] = 0

IInv == BusTypeOK /\ Rings /\ \A v \in Viewer : Stream(v)

\* At first nothing is published and nobody watches.
LEMMA InitHolds == BusInit => IInv
BY BusBoundsAssumption DEF BusInit, IInv, BusTypeOK, Rings, Stream, EndsAt, Between, Subscribed, Bus

\* publish() appends to the ring and offers the event to every queue of its bus.
LEMMA StepPublish ==
  ASSUME IInv, NEW b \in Bus, Publish(b)
  PROVE  IInv'
<1> DEFINE p == published[b]
<1>1. /\ p \in Nat /\ published' = [published EXCEPT ![b] = p + 1]
      /\ published'[b] = p + 1 /\ \A c \in Bus \ {b} : published'[c] = published[c]
  BY DEF IInv, BusTypeOK, Publish
<1>2. /\ Push(buffer[b], Capacity, p + 1) \in Seq(Nat)
      /\ EndsAt(Push(buffer[b], Capacity, p + 1), p + 1)
      /\ Len(Push(buffer[b], Capacity, p + 1)) <= Capacity
      /\ Len(Push(buffer[b], Capacity, p + 1)) <= p + 1
  BY <1>1, PushEndsAt, BusBoundsAssumption DEF IInv, BusTypeOK, Rings
<1>3. /\ buffer' = [buffer EXCEPT ![b] = Push(buffer[b], Capacity, p + 1)]
      /\ UNCHANGED <<stage, feed, todo, shown>>
      /\ \A v \in Viewer : queue'[v] = IF Subscribed(v) /\ feed[v] = b
                                        THEN Push(queue[v], QueueMax, p + 1) ELSE queue[v]
      /\ queue' = [v \in Viewer |-> queue'[v]]
  BY DEF Publish
<1>4. ASSUME NEW v \in Viewer
      PROVE  queue'[v] \in Seq(Nat) /\ Len(queue'[v]) <= QueueMax /\ Stream(v)'
  <2>1. /\ queue[v] \in Seq(Nat) /\ Len(queue[v]) <= QueueMax /\ Len(queue[v]) \in Nat
        /\ todo[v] \in Seq(Nat) /\ shown[v] \in Nat /\ feed[v] \in Bus
        /\ published[feed[v]] \in Nat /\ Stream(v)
    BY DEF IInv, BusTypeOK
  <2>2. CASE feed[v] # b
    <3>1. published'[feed'[v]] = published[feed[v]] /\ queue'[v] = queue[v]
      BY <1>1, <1>3, <2>1, <2>2
    <3> QED BY <1>3, <2>1, <3>1 DEF Stream, Subscribed
  <2>3. CASE feed[v] = b /\ ~Subscribed(v)
    <3>1. published'[feed'[v]] = p + 1 /\ queue'[v] = queue[v] /\ queue[v] = <<>>
      BY <1>1, <1>3, <2>1, <2>3 DEF Stream
    <3>2. Between(todo[v], shown[v], p + 1) /\ EndsAt(queue[v], p + 1)
      BY <1>1, <2>1, <2>3, <3>1 DEF Stream, Between, EndsAt
    <3> QED BY <1>1, <1>3, <2>1, <2>3, <3>1, <3>2 DEF Stream, Subscribed
  <2>4. CASE feed[v] = b /\ Subscribed(v)
    <3>1. published'[feed'[v]] = p + 1 /\ queue'[v] = Push(queue[v], QueueMax, p + 1)
      BY <1>1, <1>3, <2>1, <2>4
    <3>2. /\ EndsAt(queue[v], p) /\ shown[v] + Len(queue[v]) <= p /\ todo[v] = <<>>
          /\ Len(queue[v]) <= p
      BY <2>1, <2>4 DEF Stream
    <3> DEFINE q == queue[v]
    <3>6. QueueMax \in Nat \ {0} /\ q \in Seq(Nat) /\ EndsAt(q, p) /\ Len(q) <= QueueMax
          /\ Len(q) <= p
      BY <2>1, <3>2, BusBoundsAssumption
    <3> HIDE DEF q, p
    <3>7. /\ Push(q, QueueMax, p + 1) \in Seq(Nat) /\ EndsAt(Push(q, QueueMax, p + 1), p + 1)
          /\ Len(Push(q, QueueMax, p + 1)) <= QueueMax
          /\ Len(Push(q, QueueMax, p + 1)) <= Len(q) + 1
      BY <1>1, <3>6, PushEndsAt
    <3>3. /\ queue'[v] \in Seq(Nat) /\ EndsAt(queue'[v], p + 1) /\ Len(queue'[v]) <= QueueMax
          /\ Len(queue'[v]) <= Len(queue[v]) + 1
      BY <3>1, <3>7 DEF q
    <3> USE DEF p
    <3>4. shown[v] + Len(queue'[v]) <= p + 1
      BY <1>1, <2>1, <3>2, <3>3
    <3>5. Between(todo[v], shown[v], p + 1)
      BY <3>2 DEF Between
    <3> QED BY <1>3, <2>1, <2>4, <3>1, <3>2, <3>3, <3>4, <3>5 DEF Stream, Subscribed
  <2> QED BY <2>2, <2>3, <2>4
<1>5. BusTypeOK'
  <2>1. published' \in [Bus -> Nat] /\ buffer' \in [Bus -> Seq(Nat)]
    BY <1>1, <1>2, <1>3 DEF IInv, BusTypeOK
  <2>2. \A c \in Bus : Len(buffer'[c]) <= Capacity
    BY <1>2, <1>3 DEF IInv, BusTypeOK
  <2>3. queue' \in [Viewer -> Seq(Nat)]
    BY <1>3, <1>4
  <2> QED BY <1>3, <1>4, <2>1, <2>2, <2>3 DEF IInv, BusTypeOK
<1>6. Rings'
  BY <1>1, <1>2, <1>3 DEF IInv, BusTypeOK, Rings
<1> QED BY <1>4, <1>5, <1>6 DEF IInv

\* The streams a step does not touch.
LEMMA OthersStay ==
  ASSUME IInv, NEW v \in Viewer,
         UNCHANGED <<published, stage[v], feed[v], todo[v], queue[v], shown[v]>>
  PROVE  Stream(v)'
BY DEF IInv, BusTypeOK, Stream, Subscribed, EndsAt, Between

\* stream() begins with the newest events of the ring.
LEMMA StepConnect ==
  ASSUME IInv, NEW v \in Viewer, NEW b \in Bus, Connect(v, b)
  PROVE  IInv'
<1> DEFINE u == Newest(buffer[b], RecentLimit)
<1>1. /\ buffer[b] \in Seq(Nat) /\ published[b] \in Nat /\ RecentLimit \in Nat
      /\ EndsAt(buffer[b], published[b]) /\ Len(buffer[b]) <= published[b]
  BY BusBoundsAssumption DEF IInv, BusTypeOK, Rings
<1>2. /\ u \in Seq(Nat) /\ EndsAt(u, published[b]) /\ Len(u) <= published[b]
  <2>1. u \in Seq(Nat) /\ Len(u) <= Len(buffer[b])
    BY <1>1, NewestIs
  <2>2. EndsAt(u, published[b])
    BY <1>1, NewestEndsAt
  <2> HIDE DEF u
  <2>3. Len(u) <= published[b]
    BY <1>1, <2>1
  <2> QED BY <2>1, <2>2, <2>3
<1>3. Between(u, 0, published[b])
  BY <1>1, <1>2, RunIsBetween
<1>4. buffer[b] = <<>> => u = <<>>
  BY <1>1 DEF Newest
<1> HIDE DEF u
<1>5. /\ feed' = [feed EXCEPT ![v] = b] /\ todo' = [todo EXCEPT ![v] = u]
      /\ stage' = [stage EXCEPT ![v] = IF buffer[b] = <<>> THEN "live" ELSE "replay"]
      /\ stage[v] = "away" /\ UNCHANGED <<published, buffer, queue, shown>>
  BY DEF Connect, u
<1>6. BusTypeOK'
  BY <1>2, <1>5 DEF IInv, BusTypeOK
<1>7. Stream(v)'
  <2>1. queue[v] = <<>> /\ shown[v] = 0
    BY <1>5 DEF IInv, Stream, Subscribed
  <2>2. /\ feed'[v] = b /\ todo'[v] = u /\ queue'[v] = <<>> /\ shown'[v] = 0
        /\ published'[feed'[v]] = published[b]
        /\ stage'[v] = IF buffer[b] = <<>> THEN "live" ELSE "replay"
    BY <1>5, <2>1 DEF IInv, BusTypeOK
  <2>3. EndsAt(queue'[v], published'[feed'[v]])
    BY <2>2 DEF EndsAt
  <2>4. shown'[v] + Len(queue'[v]) <= published'[feed'[v]]
    BY <1>1, <2>2
  <2>5. Between(todo'[v], shown'[v], published'[feed'[v]])
    BY <1>3, <2>2
  <2> QED BY <1>4, <2>2, <2>3, <2>4, <2>5 DEF Stream, Subscribed
<1>8. ASSUME NEW w \in Viewer, w # v
      PROVE  Stream(w)'
  BY <1>5, <1>8, OthersStay DEF IInv, BusTypeOK
<1>9. Rings'
  BY <1>5 DEF IInv, Rings
<1> QED BY <1>6, <1>7, <1>8, <1>9 DEF IInv

\* It sends these one by one.
LEMMA StepReplay ==
  ASSUME IInv, NEW v \in Viewer, Replay(v)
  PROVE  IInv'
<1> DEFINE p == published[feed[v]]
<1>1. /\ todo[v] \in Seq(Nat) /\ todo[v] # <<>> /\ shown[v] \in Nat /\ p \in Nat
      /\ Between(todo[v], shown[v], p) /\ stage[v] = "replay" /\ queue[v] = <<>>
  BY DEF IInv, BusTypeOK, Replay, Stream, Subscribed
<1>2. /\ Tail(todo[v]) \in Seq(Nat) /\ Head(todo[v]) \in Nat /\ Head(todo[v]) <= p
      /\ Between(Tail(todo[v]), Head(todo[v]), p)
  BY <1>1, TailBetween
<1>3. /\ shown' = [shown EXCEPT ![v] = Head(todo[v])]
      /\ todo' = [todo EXCEPT ![v] = Tail(todo[v])]
      /\ UNCHANGED <<published, buffer, stage, feed, queue>>
  BY DEF Replay
<1>4. BusTypeOK'
  BY <1>2, <1>3 DEF IInv, BusTypeOK
<1>5. Stream(v)'
  <2>1. /\ shown'[v] = Head(todo[v]) /\ todo'[v] = Tail(todo[v]) /\ queue'[v] = <<>>
        /\ published'[feed'[v]] = p /\ stage'[v] = "replay"
    BY <1>1, <1>3 DEF IInv, BusTypeOK
  <2>2. shown'[v] + Len(queue'[v]) <= p
    BY <1>2, <2>1
  <2> QED BY <1>2, <2>1, <2>2 DEF Stream, Subscribed, EndsAt
<1>6. ASSUME NEW w \in Viewer, w # v
      PROVE  Stream(w)'
  BY <1>3, <1>6, OthersStay DEF IInv, BusTypeOK
<1>7. Rings'
  BY <1>3 DEF IInv, Rings
<1> QED BY <1>4, <1>5, <1>6, <1>7 DEF IInv

\* Then it subscribes; what was published in between is not seen.
LEMMA StepSubscribe ==
  ASSUME IInv, NEW v \in Viewer, Subscribe(v)
  PROVE  IInv'
<1>1. /\ stage[v] = "replay" /\ todo[v] = <<>> /\ stage' = [stage EXCEPT ![v] = "live"]
      /\ UNCHANGED <<published, buffer, feed, todo, queue, shown>>
  BY DEF Subscribe
<1>2. BusTypeOK'
  BY <1>1 DEF IInv, BusTypeOK
<1>3. Stream(v)'
  BY <1>1 DEF IInv, BusTypeOK, Stream, Subscribed, EndsAt, Between
<1>4. ASSUME NEW w \in Viewer, w # v
      PROVE  Stream(w)'
  BY <1>1, <1>4, OthersStay DEF IInv, BusTypeOK
<1>5. Rings'
  BY <1>1 DEF IInv, Rings
<1> QED BY <1>2, <1>3, <1>4, <1>5 DEF IInv

\* A live viewer is sent the head of its queue.
LEMMA StepShowNext ==
  ASSUME IInv, NEW v \in Viewer, ShowNext(v)
  PROVE  IInv'
<1> DEFINE p == published[feed[v]]
           q == queue[v]
<1>1. /\ q \in Seq(Nat) /\ q # <<>> /\ shown[v] \in Nat /\ p \in Nat /\ Len(q) <= QueueMax
      /\ EndsAt(q, p) /\ shown[v] + Len(q) <= p /\ stage[v] = "live" /\ todo[v] = <<>>
  BY DEF IInv, BusTypeOK, ShowNext, Stream, Subscribed
<1>2. /\ shown' = [shown EXCEPT ![v] = Head(q)] /\ queue' = [queue EXCEPT ![v] = Tail(q)]
      /\ UNCHANGED <<published, buffer, stage, feed, todo>>
  BY DEF ShowNext
<1>3. /\ shown'[v] = Head(q) /\ queue'[v] = Tail(q) /\ todo'[v] = <<>>
      /\ published'[feed'[v]] = p /\ stage'[v] = "live"
  BY <1>1, <1>2 DEF IInv, BusTypeOK
<1> HIDE DEF p, q
<1>4. /\ Tail(q) \in Seq(Nat) /\ Len(Tail(q)) = Len(q) - 1 /\ Len(q) \in Nat \ {0}
      /\ DOMAIN Tail(q) = 1 .. (Len(q) - 1)
      /\ \A i \in 1 .. (Len(q) - 1) : Tail(q)[i] = q[i + 1]
  BY <1>1, TailIs
<1>5. Head(q) = p - Len(q) + 1 /\ Head(q) \in Nat
  <2>1. 1 \in DOMAIN q /\ Head(q) = q[1] /\ q[1] \in Nat
    BY <1>1, <1>4
  <2> QED BY <1>1, <2>1 DEF EndsAt
<1>6. EndsAt(Tail(q), p)
  <2>1. \A i \in 1 .. (Len(q) - 1) : i + 1 \in DOMAIN q
    BY <1>1, <1>4
  <2>2. \A i \in 1 .. (Len(q) - 1) : Tail(q)[i] = p - (Len(q) - 1) + i
    BY <1>1, <1>4, <2>1 DEF EndsAt
  <2> QED BY <1>4, <2>2 DEF EndsAt
<1>7. Head(q) + Len(Tail(q)) <= p
  BY <1>1, <1>4, <1>5
<1>8. Len(Tail(q)) <= QueueMax
  BY <1>1, <1>4, BusBoundsAssumption
<1>9. BusTypeOK'
  BY <1>2, <1>4, <1>5, <1>8 DEF IInv, BusTypeOK
<1>10. Stream(v)'
  BY <1>3, <1>6, <1>7 DEF Stream, Subscribed, Between
<1>11. ASSUME NEW w \in Viewer, w # v
       PROVE  Stream(w)'
  BY <1>2, <1>11, OthersStay DEF IInv, BusTypeOK
<1>12. Rings'
  BY <1>2 DEF IInv, Rings
<1> QED BY <1>9, <1>10, <1>11, <1>12 DEF IInv

\* A viewer goes away at any time.
LEMMA StepHangup ==
  ASSUME IInv, NEW v \in Viewer, Hangup(v)
  PROVE  IInv'
<1>1. /\ stage[v] \in {"replay", "live"}
      /\ stage' = [stage EXCEPT ![v] = IF stage[v] = "live" THEN "hungup" ELSE "away"]
      /\ todo' = [todo EXCEPT ![v] = <<>>]
      /\ shown' = [shown EXCEPT ![v] = IF stage[v] = "live" THEN shown[v] ELSE 0]
      /\ UNCHANGED <<published, buffer, feed, queue>>
  BY DEF Hangup
<1>2. BusTypeOK'
  BY <1>1 DEF IInv, BusTypeOK
<1>3. Stream(v)'
  <2>1. /\ stage'[v] = IF stage[v] = "live" THEN "hungup" ELSE "away"
        /\ todo'[v] = <<>> /\ queue'[v] = queue[v]
        /\ shown'[v] = IF stage[v] = "live" THEN shown[v] ELSE 0
        /\ published'[feed'[v]] = published[feed[v]]
    BY <1>1 DEF IInv, BusTypeOK
  <2>2. /\ Stream(v) /\ shown[v] \in Nat /\ queue[v] \in Seq(Nat) /\ Len(queue[v]) \in Nat
        /\ published[feed[v]] \in Nat
    BY DEF IInv, BusTypeOK
  <2>3. shown'[v] + Len(queue'[v]) <= published'[feed'[v]]
    BY <2>1, <2>2 DEF Stream
  <2> QED BY <1>1, <2>1, <2>2, <2>3 DEF Stream, Subscribed, Between
<1>4. ASSUME NEW w \in Viewer, w # v
      PROVE  Stream(w)'
  BY <1>1, <1>4, OthersStay DEF IInv, BusTypeOK
<1>5. Rings'
  BY <1>1 DEF IInv, Rings
<1> QED BY <1>2, <1>3, <1>4, <1>5 DEF IInv

\* Its queue is removed from the bus's subscribers.
LEMMA StepUnsubscribe ==
  ASSUME IInv, NEW v \in Viewer, Unsubscribe(v)
  PROVE  IInv'
<1>1. /\ stage[v] = "hungup" /\ stage' = [stage EXCEPT ![v] = "away"]
      /\ queue' = [queue EXCEPT ![v] = <<>>] /\ shown' = [shown EXCEPT ![v] = 0]
      /\ UNCHANGED <<published, buffer, feed, todo>>
  BY DEF Unsubscribe
<1>2. BusTypeOK'
  BY <1>1, BusBoundsAssumption DEF IInv, BusTypeOK
<1>3. Stream(v)'
  <2>1. /\ stage'[v] = "away" /\ todo'[v] = <<>> /\ queue'[v] = <<>> /\ shown'[v] = 0
        /\ published'[feed'[v]] \in Nat
    BY <1>1 DEF IInv, BusTypeOK, Stream, Subscribed
  <2> QED BY <2>1 DEF Stream, Subscribed, Between, EndsAt
<1>4. ASSUME NEW w \in Viewer, w # v
      PROVE  Stream(w)'
  BY <1>1, <1>4, OthersStay DEF IInv, BusTypeOK
<1>5. Rings'
  BY <1>1 DEF IInv, Rings
<1> QED BY <1>2, <1>3, <1>4, <1>5 DEF IInv

\* Every step of the component, and stuttering, keeps the invariant.
LEMMA StepHolds == IInv /\ [BusNext]_busVars => IInv'
<1> SUFFICES ASSUME IInv, [BusNext]_busVars
             PROVE  IInv'
  OBVIOUS
<1>1. ASSUME NEW b \in Bus, Publish(b)
      PROVE  IInv'
  BY <1>1, StepPublish
<1>2. ASSUME NEW v \in Viewer, View(v)
      PROVE  IInv'
  BY <1>2, StepConnect, StepReplay, StepSubscribe, StepShowNext, StepHangup, StepUnsubscribe
     DEF View
<1>3. CASE UNCHANGED busVars
  BY <1>3 DEF busVars, IInv, BusTypeOK, Rings, Stream, Subscribed, EndsAt, Between
<1> QED BY <1>1, <1>2, <1>3 DEF BusNext

\* The inductive invariant holds in every run.
LEMMA InvariantHolds == BusSpec => []IInv
<1> QED BY InitHolds, StepHolds, PTL DEF BusSpec

-----------------------------------------------------------------------------
\* Every run of the buses keeps the type of the state: rings and queues stay within
\* their sizes (observ/events_bus.py, deque(maxlen) and put_nowait).
THEOREM BusTypeCorrect == BusSpec => []BusTypeOK
<1>1. IInv => BusTypeOK
  BY DEF IInv
<1> QED BY <1>1, InvariantHolds, PTL

\* No stream shows a record twice or an older one after a newer one, and what is queued
\* for a viewer is the newest that was published, without a hole (web/pages.py replays
\* before it subscribes; EventsBus.publish drops the oldest of a full queue).
THEOREM InOrder == BusSpec => []FeedInOrder
<1>1. ASSUME IInv, NEW v \in Viewer
      PROVE  /\ todo[v] = <<>> \/ queue[v] = <<>>
             /\ Between(todo[v], shown[v], published[feed[v]])
             /\ Between(queue[v], shown[v], published[feed[v]])
             /\ EndsAt(queue[v], published[feed[v]])
  <2>1. /\ Stream(v) /\ queue[v] \in Seq(Nat) /\ shown[v] \in Nat /\ published[feed[v]] \in Nat
    BY <1>1 DEF IInv, BusTypeOK
  <2>2. Between(queue[v], shown[v], published[feed[v]])
    BY <2>1, RunIsBetween DEF Stream
  <2> QED BY <2>1, <2>2 DEF Stream
<1>2. IInv => FeedInOrder
  BY <1>1 DEF FeedInOrder, EndsAt
<1> QED BY <1>2, InvariantHolds, PTL
=============================================================================
