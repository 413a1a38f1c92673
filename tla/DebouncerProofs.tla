---------------------------- MODULE DebouncerProofs ----------------------------
(***************************************************************************)
(* Proofs about Debouncer, for every set of servers, keys and policies and *)
(* any number of requests.                                                 *)
(***************************************************************************)
EXTENDS Debouncer, TLAPS

\* The requests submitted so far are the ones that have left "new"; each has a key.
Numbered == \A r \in Req : /\ r > count <=> pc[r] = "new"
                           /\ r <= count => key[r] \in Key

\* A request was dispatched once if its dispatch is under way, and not at all while it
\* waits or after it was given up.
StartsOnce == \A r \in Req : /\ starts[r] <= 1
                             /\ pc[r] \in {"dispatching", "inline"} => starts[r] = 1
                             /\ pc[r] \in {"new", "ready", "sleeping"} => starts[r] = 0
                             /\ r \in cancelled => starts[r] = 0

\* Only debounced requests are cancelled, and none that already dispatches.
CancelledWaited == \A r \in cancelled : pc[r] \in {"ready", "sleeping", "done"}

\* A timer is armed only for a configured server.
ArmedAreConfigured == \A k \in Key : timers[k] # NoTask => servers[k[1]] # NoServer

\* aclose() awaits only what it cancelled.
AwaitedWereCancelled == closer = "waiting" => awaited \subseteq cancelled

\* The inductive invariant.
IInv == /\ TypeOK
        /\ TimerOwnership
        /\ Numbered /\ StartsOnce /\ CancelledWaited /\ ArmedAreConfigured /\ AwaitedWereCancelled

-----------------------------------------------------------------------------
\* Initially nothing is submitted.
LEMMA InitIInv == Init => IInv
<1> SUFFICES ASSUME Init PROVE IInv
  OBVIOUS
<1>1. TypeOK
  BY MaxReqAssumption DEF Init, TypeOK
<1>2. TimerOwnership
  BY DEF Init, TimerOwnership, Waiting
<1>3. Numbered /\ StartsOnce /\ CancelledWaited /\ ArmedAreConfigured /\ AwaitedWereCancelled
  BY DEF Init, Numbered, StartsOnce, CancelledWaited, ArmedAreConfigured, AwaitedWereCancelled, Req
<1> QED
  BY <1>1, <1>2, <1>3 DEF IInv

\* An immediate dispatch registers no timer.
LEMMA StepSubmitNow == ASSUME IInv, NEW k \in Key, SubmitNow(k) PROVE IInv'
<1> DEFINE r == count + 1
<1>0. r \in Req
  BY DEF SubmitNow
<1>1. TypeOK'
  <2>1. count' \in 0 .. MaxReq
    BY DEF SubmitNow, Req
  <2>2. key' \in [Req -> Key \cup {NoKey}]
    BY DEF SubmitNow, IInv, TypeOK
  <2>3. pc' \in [Req -> {"new", "ready", "sleeping", "dispatching", "inline", "done"}]
    BY DEF SubmitNow, IInv, TypeOK
  <2>4. starts' \in [Req -> Nat]
    BY DEF SubmitNow, IInv, TypeOK
  <2>5. UNCHANGED <<servers, timers, left, cancelled, closer, awaited>>
    BY DEF SubmitNow
  <2> QED
    BY <2>1, <2>2, <2>3, <2>4, <2>5 DEF IInv, TypeOK
<1>2. TimerOwnership'
  BY DEF SubmitNow, IInv, TypeOK, TimerOwnership, Numbered, Waiting
<1>3. Numbered'
  BY DEF SubmitNow, IInv, TypeOK, Numbered, Req
<1>4. StartsOnce'
  BY DEF SubmitNow, IInv, TypeOK, Numbered, StartsOnce, CancelledWaited
<1>5. CancelledWaited'
  BY DEF SubmitNow, IInv, TypeOK, Numbered, CancelledWaited
<1>6. ArmedAreConfigured'
  BY DEF SubmitNow, IInv, ArmedAreConfigured
<1>7. AwaitedWereCancelled'
  BY DEF SubmitNow, IInv, AwaitedWereCancelled
<1> QED
  BY <1>1, <1>2, <1>3, <1>4, <1>5, <1>6, <1>7 DEF IInv

\* A trailing request takes over its key: the old task is cancelled, the new one registered.
LEMMA StepSubmitTrailing == ASSUME IInv, NEW k \in Key, SubmitTrailing(k) PROVE IInv'
<1> DEFINE r == count + 1
<1>0. r \in Req
  BY DEF SubmitTrailing
<1>1. TypeOK'
  <2>1. timers' \in [Key -> Req \cup {NoTask}]
    BY DEF SubmitTrailing, IInv, TypeOK
  <2>2. count' \in 0 .. MaxReq
    BY DEF SubmitTrailing, Req
  <2>3. key' \in [Req -> Key \cup {NoKey}]
    BY DEF SubmitTrailing, IInv, TypeOK
  <2>4. pc' \in [Req -> {"new", "ready", "sleeping", "dispatching", "inline", "done"}]
    BY DEF SubmitTrailing, IInv, TypeOK
  <2>5. left' \in [Req -> Nat]
    <3>1. servers[k[1]] \in Policy
      BY DEF SubmitTrailing, IInv, TypeOK, ServerMap, Key
    <3>2. servers[k[1]].window \in Nat
      BY <3>1, PolicyAssumption
    <3> QED
      BY <3>2 DEF SubmitTrailing, IInv, TypeOK
  <2>6. cancelled' \subseteq Req
    BY DEF SubmitTrailing, IInv, TypeOK
  <2>7. UNCHANGED <<servers, starts, closer, awaited>>
    BY DEF SubmitTrailing
  <2> QED
    BY <2>1, <2>2, <2>3, <2>4, <2>5, <2>6, <2>7 DEF IInv, TypeOK
<1>2. TimerOwnership'
  <2>1. r \notin cancelled /\ pc[r] = "new" /\ timers[k] # r
    <3>1. r > count /\ r # NoTask
      BY DEF IInv, TypeOK, NoTask
    <3>2. pc[r] = "new"
      BY <1>0, <3>1 DEF IInv, Numbered
    <3> QED
      BY <3>1, <3>2 DEF IInv, CancelledWaited, TimerOwnership, Waiting
  <2>2. ASSUME NEW j \in Key, timers'[j] # NoTask
        PROVE  key'[timers'[j]] = j /\ pc'[timers'[j]] \in {"ready", "sleeping"}
               /\ timers'[j] \notin cancelled'
    <3>1. CASE j = k
      BY <3>1, <2>1 DEF SubmitTrailing, IInv, TypeOK
    <3>2. CASE j # k
      <4>1. timers'[j] = timers[j] /\ timers[j] \in Req /\ timers[j] # r
        BY <3>2, <2>1, <2>2 DEF SubmitTrailing, IInv, TypeOK, TimerOwnership, Waiting
      <4>2. timers[j] # timers[k]
        BY <3>2, <4>1, <2>2 DEF IInv, TimerOwnership
      <4> QED
        BY <4>1, <4>2, <2>2 DEF SubmitTrailing, IInv, TimerOwnership, Waiting
    <3> QED
      BY <3>1, <3>2
  <2>3. ASSUME NEW q \in Req, Waiting(q)', q \notin cancelled'
        PROVE  timers'[key'[q]] = q
    <3>1. CASE q = r
      BY <3>1 DEF SubmitTrailing, IInv, TypeOK
    <3>2. CASE q # r
      <4>1. Waiting(q) /\ q \notin cancelled /\ key'[q] = key[q]
        BY <3>2, <2>3 DEF SubmitTrailing, Waiting
      <4>2. timers[key[q]] = q /\ q <= count /\ key[q] \in Key
        BY <4>1 DEF IInv, TypeOK, TimerOwnership, Numbered, Waiting, Req
      <4>3. key[q] # k
        BY <4>2, <2>3 DEF SubmitTrailing, NoTask, Req
      <4> QED
        BY <4>1, <4>2, <4>3 DEF SubmitTrailing
    <3> QED
      BY <3>1, <3>2
  <2> QED
    BY <2>2, <2>3 DEF TimerOwnership, Waiting
<1>3. Numbered'
  BY DEF SubmitTrailing, IInv, TypeOK, Numbered, Req
<1>4. StartsOnce'
  BY DEF SubmitTrailing, IInv, TypeOK, TimerOwnership, Numbered, StartsOnce, CancelledWaited,
         ArmedAreConfigured, Waiting
<1>5. CancelledWaited'
  BY DEF SubmitTrailing, IInv, TimerOwnership, CancelledWaited, Waiting
<1>6. ArmedAreConfigured'
  BY DEF SubmitTrailing, IInv, ArmedAreConfigured
<1>7. AwaitedWereCancelled'
  BY DEF SubmitTrailing, IInv, AwaitedWereCancelled
<1> QED
  BY <1>1, <1>2, <1>3, <1>4, <1>5, <1>6, <1>7 DEF IInv

\* A task that begins to sleep keeps its timer; a cancelled one had none.
LEMMA StepStartSleep == ASSUME IInv, NEW r \in Req, StartSleep(r) PROVE IInv'
<1>1. TypeOK'
  <2>1. pc' \in [Req -> {"new", "ready", "sleeping", "dispatching", "inline", "done"}]
    BY DEF StartSleep, IInv, TypeOK
  <2>2. UNCHANGED <<servers, timers, count, key, left, cancelled, starts, closer, awaited>>
    BY DEF StartSleep
  <2> QED
    BY <2>1, <2>2 DEF IInv, TypeOK
<1>2. TimerOwnership'
  BY DEF StartSleep, IInv, TimerOwnership, Waiting
<1>3. Numbered'
  BY DEF StartSleep, IInv, Numbered
<1>4. StartsOnce'
  BY DEF StartSleep, IInv, StartsOnce
<1>5. CancelledWaited'
  BY DEF StartSleep, IInv, CancelledWaited
<1>6. ArmedAreConfigured'
  BY DEF StartSleep, IInv, ArmedAreConfigured
<1>7. AwaitedWereCancelled'
  BY DEF StartSleep, IInv, AwaitedWereCancelled
<1> QED
  BY <1>1, <1>2, <1>3, <1>4, <1>5, <1>6, <1>7 DEF IInv

\* Time changes no ownership.
LEMMA StepTick == ASSUME IInv, Tick PROVE IInv'
<1>1. TypeOK'
  <2>1. left' \in [Req -> Nat]
    BY DEF Tick, IInv, TypeOK
  <2>2. UNCHANGED <<servers, timers, count, key, pc, cancelled, starts, closer, awaited>>
    BY DEF Tick
  <2> QED
    BY <2>1, <2>2 DEF IInv, TypeOK
<1>2. TimerOwnership'
  BY DEF Tick, IInv, TimerOwnership, Waiting
<1>3. Numbered'
  BY DEF Tick, IInv, Numbered
<1>4. StartsOnce'
  BY DEF Tick, IInv, StartsOnce
<1>5. CancelledWaited'
  BY DEF Tick, IInv, CancelledWaited
<1>6. ArmedAreConfigured'
  BY DEF Tick, IInv, ArmedAreConfigured
<1>7. AwaitedWereCancelled'
  BY DEF Tick, IInv, AwaitedWereCancelled
<1> QED
  BY <1>1, <1>2, <1>3, <1>4, <1>5, <1>6, <1>7 DEF IInv

\* The registered task leaves the timers as it begins to dispatch.
LEMMA StepResume == ASSUME IInv, NEW r \in Req, Resume(r) PROVE IInv'
<1>1. TypeOK'
  <2>1. timers' \in [Key -> Req \cup {NoTask}]
    BY DEF Resume, IInv, TypeOK
  <2>2. pc' \in [Req -> {"new", "ready", "sleeping", "dispatching", "inline", "done"}]
    BY DEF Resume, IInv, TypeOK
  <2>3. starts' \in [Req -> Nat]
    <3>1. starts \in [Req -> Nat]
      BY DEF IInv, TypeOK
    <3>2. starts' = starts \/ starts' = [starts EXCEPT ![r] = @ + 1]
      BY DEF Resume
    <3> QED
      BY <3>1, <3>2
  <2>4. UNCHANGED <<servers, count, key, left, cancelled, closer, awaited>>
    BY DEF Resume
  <2> QED
    BY <2>1, <2>2, <2>3, <2>4 DEF IInv, TypeOK
<1>2. TimerOwnership'
  <2>1. CASE r \in cancelled \/ timers[key[r]] # r
    <3>1. r \in cancelled /\ UNCHANGED <<timers, key, cancelled>>
      BY <2>1 DEF Resume, IInv, TimerOwnership, Waiting
    <3>2. pc' = [pc EXCEPT ![r] = "done"]
      BY <2>1 DEF Resume
    <3> QED
      BY <3>1, <3>2 DEF IInv, TimerOwnership, Waiting
  <2>2. CASE r \notin cancelled /\ timers[key[r]] = r
    <3>1. timers' = [timers EXCEPT ![key[r]] = NoTask] /\ UNCHANGED <<key, cancelled>>
      BY <2>2 DEF Resume
    <3>2. pc' = [pc EXCEPT ![r] = "dispatching"]
      BY <2>2 DEF Resume
    <3>3. \A q \in Req : pc'[q] \in {"ready", "sleeping"} <=> Waiting(q) /\ q # r
      BY <3>2 DEF IInv, TypeOK, Waiting
    <3>4. ASSUME NEW j \in Key, timers'[j] # NoTask
          PROVE  key'[timers'[j]] = j /\ pc'[timers'[j]] \in {"ready", "sleeping"}
               /\ timers'[j] \notin cancelled'
      <4>1. timers'[j] = timers[j] /\ timers[j] \in Req
        BY <3>1, <3>4 DEF IInv, TypeOK
      <4>2. key[timers[j]] = j /\ Waiting(timers[j]) /\ timers[j] \notin cancelled
        BY <4>1, <3>4 DEF IInv, TimerOwnership
      <4>3. timers[j] # r
        BY <4>2, <3>1, <3>4 DEF IInv, TypeOK
      <4> QED
        BY <4>1, <4>2, <4>3, <3>1, <3>3
    <3>5. ASSUME NEW q \in Req, Waiting(q)', q \notin cancelled'
          PROVE  timers'[key'[q]] = q
      <4>1. Waiting(q) /\ q # r /\ q \notin cancelled /\ timers[key[q]] = q
        BY <3>1, <3>3, <3>5 DEF IInv, TimerOwnership, Waiting
      <4>2. key[q] \in Key
        BY <4>1 DEF IInv, TypeOK, Numbered, Waiting, Req
      <4> QED
        BY <4>1, <3>1, <2>2
    <3> QED
      BY <3>4, <3>5 DEF TimerOwnership, Waiting
  <2> QED
    BY <2>1, <2>2
<1>3. Numbered'
  BY DEF Resume, IInv, TypeOK, Numbered
<1>4. StartsOnce'
  BY DEF Resume, IInv, TypeOK, StartsOnce
<1>5. CancelledWaited'
  BY DEF Resume, IInv, TypeOK, CancelledWaited
<1>6. ArmedAreConfigured'
  BY DEF Resume, IInv, TypeOK, ArmedAreConfigured
<1>7. AwaitedWereCancelled'
  BY DEF Resume, IInv, AwaitedWereCancelled
<1> QED
  BY <1>1, <1>2, <1>3, <1>4, <1>5, <1>6, <1>7 DEF IInv

\* A dispatch that ends is no longer waited for by anybody.
LEMMA StepDispatchDone == ASSUME IInv, NEW r \in Req, DispatchDone(r) PROVE IInv'
<1>1. TypeOK'
  <2>1. pc' \in [Req -> {"new", "ready", "sleeping", "dispatching", "inline", "done"}]
    BY DEF DispatchDone, IInv, TypeOK
  <2>2. UNCHANGED <<servers, timers, count, key, left, cancelled, starts, closer, awaited>>
    BY DEF DispatchDone
  <2> QED
    BY <2>1, <2>2 DEF IInv, TypeOK
<1>2. TimerOwnership'
  BY DEF DispatchDone, IInv, TimerOwnership, Waiting
<1>3. Numbered'
  BY DEF DispatchDone, IInv, Numbered
<1>4. StartsOnce'
  BY DEF DispatchDone, IInv, StartsOnce
<1>5. CancelledWaited'
  BY DEF DispatchDone, IInv, CancelledWaited
<1>6. ArmedAreConfigured'
  BY DEF DispatchDone, IInv, ArmedAreConfigured
<1>7. AwaitedWereCancelled'
  BY DEF DispatchDone, IInv, AwaitedWereCancelled
<1> QED
  BY <1>1, <1>2, <1>3, <1>4, <1>5, <1>6, <1>7 DEF IInv

\* The timers that are popped are the tasks that are cancelled.
LEMMA StepUpdateServers == ASSUME IInv, NEW new \in ServerMap, UpdateServers(new) PROVE IInv'
<1>1. TypeOK'
  <2>1. servers' \in ServerMap
    BY DEF UpdateServers
  <2>2. timers' \in [Key -> Req \cup {NoTask}]
    BY DEF UpdateServers, Drop, IInv, TypeOK
  <2>3. cancelled' \subseteq Req
    BY DEF UpdateServers, Drop, IInv, TypeOK
  <2>4. UNCHANGED <<count, key, pc, left, starts, closer, awaited>>
    BY DEF UpdateServers, Drop
  <2> QED
    BY <2>1, <2>2, <2>3, <2>4 DEF IInv, TypeOK
<1>2. TimerOwnership'
  BY DEF UpdateServers, Drop, IInv, TypeOK, TimerOwnership, Numbered, Waiting, Req
<1>3. Numbered'
  BY DEF UpdateServers, IInv, Numbered
<1>4. StartsOnce'
  BY DEF UpdateServers, Drop, IInv, TimerOwnership, StartsOnce, Waiting
<1>5. CancelledWaited'
  BY DEF UpdateServers, Drop, IInv, TimerOwnership, CancelledWaited, Waiting
<1>6. ArmedAreConfigured'
  BY DEF UpdateServers, Drop, ArmedAreConfigured
<1>7. AwaitedWereCancelled'
  BY DEF UpdateServers, Drop, IInv, AwaitedWereCancelled
<1> QED
  BY <1>1, <1>2, <1>3, <1>4, <1>5, <1>6, <1>7 DEF IInv

\* All timers are popped and cancelled.
LEMMA StepAclose == ASSUME IInv, Aclose PROVE IInv'
<1>1. TypeOK'
  <2>1. timers' \in [Key -> Req \cup {NoTask}]
    BY DEF Aclose
  <2>2. cancelled' \subseteq Req
    BY DEF Aclose, IInv, TypeOK
  <2>3. closer' \in {"open", "waiting", "closed"}
    BY DEF Aclose
  <2>4. awaited' \subseteq Req
    BY DEF Aclose, IInv, TypeOK
  <2>5. UNCHANGED <<servers, count, key, pc, left, starts>>
    BY DEF Aclose
  <2> QED
    BY <2>1, <2>2, <2>3, <2>4, <2>5 DEF IInv, TypeOK
<1>2. TimerOwnership'
  BY DEF Aclose, IInv, TypeOK, TimerOwnership, Numbered, Waiting, Req
<1>3. Numbered'
  BY DEF Aclose, IInv, Numbered
<1>4. StartsOnce'
  BY DEF Aclose, IInv, TimerOwnership, StartsOnce, Waiting
<1>5. CancelledWaited'
  BY DEF Aclose, IInv, TimerOwnership, CancelledWaited, Waiting
<1>6. ArmedAreConfigured'
  BY DEF Aclose, ArmedAreConfigured
<1>7. AwaitedWereCancelled'
  BY DEF Aclose, AwaitedWereCancelled
<1> QED
  BY <1>1, <1>2, <1>3, <1>4, <1>5, <1>6, <1>7 DEF IInv

\* Nothing but the closer changes.
LEMMA StepAcloseReturn == ASSUME IInv, AcloseReturn PROVE IInv'
<1>1. TypeOK'
  <2>1. closer' \in {"open", "waiting", "closed"}
    BY DEF AcloseReturn
  <2>2. UNCHANGED <<servers, timers, count, key, pc, left, cancelled, starts, awaited>>
    BY DEF AcloseReturn
  <2> QED
    BY <2>1, <2>2 DEF IInv, TypeOK
<1>2. TimerOwnership'
  BY DEF AcloseReturn, IInv, TimerOwnership, Waiting
<1>3. Numbered'
  BY DEF AcloseReturn, IInv, Numbered
<1>4. StartsOnce'
  BY DEF AcloseReturn, IInv, StartsOnce
<1>5. CancelledWaited'
  BY DEF AcloseReturn, IInv, CancelledWaited
<1>6. ArmedAreConfigured'
  BY DEF AcloseReturn, IInv, ArmedAreConfigured
<1>7. AwaitedWereCancelled'
  BY DEF AcloseReturn, AwaitedWereCancelled
<1> QED
  BY <1>1, <1>2, <1>3, <1>4, <1>5, <1>6, <1>7 DEF IInv

-----------------------------------------------------------------------------
\* The invariant holds in every reachable state.
THEOREM Invariance == Spec => []IInv
<1>1. ASSUME IInv, [Next]_vars PROVE IInv'
  <2>1. CASE \E k \in Key : SubmitNow(k) \/ SubmitTrailing(k)
    BY <1>1, <2>1, StepSubmitNow, StepSubmitTrailing
  <2>2. CASE \E r \in Req : StartSleep(r) \/ Resume(r) \/ DispatchDone(r)
    BY <1>1, <2>2, StepStartSleep, StepResume, StepDispatchDone
  <2>3. CASE Tick
    BY <1>1, <2>3, StepTick
  <2>4. CASE \E new \in ServerMap : UpdateServers(new)
    BY <1>1, <2>4, StepUpdateServers
  <2>5. CASE Aclose \/ AcloseReturn
    BY <1>1, <2>5, StepAclose, StepAcloseReturn
  <2>6. CASE UNCHANGED vars
    BY <1>1, <2>6 DEF vars, IInv, TypeOK, TimerOwnership, Waiting, Numbered, StartsOnce,
                      CancelledWaited, ArmedAreConfigured, AwaitedWereCancelled
  <2> QED
    BY <1>1, <2>1, <2>2, <2>3, <2>4, <2>5, <2>6 DEF Next
<1> QED
  BY <1>1, InitIInv, PTL DEF Spec

\* The state keeps its type.
THEOREM TypeCorrect == Spec => []TypeOK
<1>1. IInv => TypeOK
  BY DEF IInv
<1> QED
  BY <1>1, Invariance, PTL

\* The registered task of a key is exactly the one that waits and was not cancelled.
THEOREM OwnershipHolds == Spec => []TimerOwnership
<1>1. IInv => TimerOwnership
  BY DEF IInv
<1> QED
  BY <1>1, Invariance, PTL

\* No request is dispatched twice, and none that was given up is dispatched at all.
THEOREM NeverDoubleDispatch == Spec => []AtMostOneDispatch
<1>1. IInv => AtMostOneDispatch
  BY DEF IInv, StartsOnce, AtMostOneDispatch
<1> QED
  BY <1>1, Invariance, PTL

\* aclose() never waits for a dispatch.
THEOREM CloseDoesNotWaitOnDispatch == Spec => []AcloseNeverAwaitsDispatch
<1>1. IInv => AcloseNeverAwaitsDispatch
  BY DEF IInv, TypeOK, StartsOnce, AwaitedWereCancelled, AcloseNeverAwaitsDispatch
<1> QED
  BY <1>1, Invariance, PTL

-----------------------------------------------------------------------------
\* The requests that came after an armed one on its key were dispatched immediately.
NewerWereImmediate ==
  \A k \in Key : timers[k] # NoTask => \A q \in Newer(timers[k]) : starts[q] = 1

\* Only a submit can add a newer request: a trailing one is armed itself, an immediate one
\* is dispatched on the spot.
LEMMA NewerStep ==
  ASSUME IInv, IInv', NewerWereImmediate, [Next]_vars
  PROVE  NewerWereImmediate'
<1> SUFFICES ASSUME NEW k \in Key, timers'[k] # NoTask,
                    NEW q \in Req, timers'[k] < q, q <= count', key'[q] = key'[timers'[k]]
             PROVE  starts'[q] = 1
  BY DEF NewerWereImmediate, Newer
<1>1. timers'[k] \in Req /\ key'[timers'[k]] = k
  BY DEF IInv, TypeOK, TimerOwnership
<1>2. CASE count' = count /\ key' = key /\ starts' = starts
  <2>1. timers'[k] = timers[k]
    BY <1>2
    DEF Next, vars, SubmitNow, SubmitTrailing, StartSleep, Resume, DispatchDone, Tick,
        UpdateServers, Drop, Aclose, AcloseReturn, IInv, TypeOK
  <2> QED
    BY <1>2, <2>1 DEF NewerWereImmediate, Newer
<1>3. CASE \E j \in Key : SubmitNow(j)
  <2>1. PICK j \in Key : SubmitNow(j)
    BY <1>3
  <2>2. timers'[k] = timers[k] /\ count + 1 \in Req /\ timers[k] <= count
    BY <2>1 DEF SubmitNow, IInv, TypeOK, Req
  <2>3. CASE q = count + 1
    <3>1. starts[q] = 0
      BY <2>3 DEF IInv, TypeOK, Numbered, StartsOnce
    <3> QED
      BY <2>1, <2>3, <3>1 DEF SubmitNow, IInv, TypeOK
  <2>4. CASE q # count + 1
    <3>1. q <= count /\ key'[q] = key[q] /\ starts'[q] = starts[q]
      BY <2>1, <2>4 DEF SubmitNow, IInv, TypeOK, Req
    <3>2. key'[timers[k]] = key[timers[k]]
      BY <2>1 DEF SubmitNow, Req
    <3> QED
      BY <2>2, <3>1, <3>2 DEF NewerWereImmediate, Newer
  <2> QED
    BY <2>3, <2>4
<1>4. CASE \E j \in Key : SubmitTrailing(j)
  <2>1. PICK j \in Key : SubmitTrailing(j)
    BY <1>4
  <2>2. j # k
    BY <2>1 DEF SubmitTrailing, IInv, TypeOK, Req
  <2>3. timers'[k] = timers[k] /\ timers[k] <= count
    BY <2>1 DEF SubmitTrailing, IInv, TypeOK, Req
  <2>4. q # count + 1
    BY <2>1, <1>1 DEF SubmitTrailing, IInv, TypeOK
  <2>5. q <= count /\ key'[q] = key[q] /\ key'[timers[k]] = key[timers[k]] /\ starts' = starts
    BY <2>1, <2>4 DEF SubmitTrailing, IInv, TypeOK, Req
  <2> QED
    BY <2>3, <2>5 DEF NewerWereImmediate, Newer
<1>5. CASE \E r \in Req : Resume(r)
  <2>1. PICK r \in Req : Resume(r)
    BY <1>5
  <2>2. timers'[k] = timers[k] /\ UNCHANGED <<count, key>> /\ timers[k] # r
    BY <2>1 DEF Resume, IInv, TypeOK, TimerOwnership
  <2>3. starts[q] = 1
    BY <2>2 DEF NewerWereImmediate, Newer
  <2>4. starts'[q] = starts[q]
    BY <2>1, <2>3 DEF Resume, IInv, TypeOK, StartsOnce
  <2> QED
    BY <2>3, <2>4
<1> QED
  BY <1>2, <1>3, <1>4, <1>5
  DEF Next, vars, StartSleep, DispatchDone, Tick, UpdateServers, Aclose, AcloseReturn

\* What fires is the newest debounced request of its key, and its server is configured.
THEOREM CarriesLatest == Spec => TrailingCarriesLatest
<1> DEFINE A == \A r \in Req : pc[r] = "sleeping" /\ pc'[r] = "dispatching" =>
                  /\ servers[key[r][1]] # NoServer
                  /\ \A q \in Newer(r) : starts[q] = 1
<1>1. Init => NewerWereImmediate
  BY DEF Init, NewerWereImmediate
<1>2. ASSUME IInv, NewerWereImmediate, [Next]_vars PROVE [A]_vars
  <2> SUFFICES ASSUME NEW r \in Req, pc[r] = "sleeping", pc'[r] = "dispatching"
               PROVE  servers[key[r][1]] # NoServer /\ \A q \in Newer(r) : starts[q] = 1
    OBVIOUS
  <2>1. r \notin cancelled /\ timers[key[r]] = r
    BY <1>2
    DEF Next, vars, SubmitNow, SubmitTrailing, StartSleep, Resume, DispatchDone, Tick,
        UpdateServers, Aclose, AcloseReturn, IInv, TypeOK
  <2>2. key[r] \in Key /\ timers[key[r]] # NoTask
    BY <2>1, <1>2 DEF IInv, TypeOK, Numbered, Req, NoTask
  <2> QED
    BY <2>1, <2>2, <1>2 DEF IInv, ArmedAreConfigured, NewerWereImmediate
<1>3. IInv /\ IInv' /\ NewerWereImmediate /\ [Next]_vars => NewerWereImmediate'
  BY NewerStep
<1>4. IInv /\ NewerWereImmediate /\ [Next]_vars => [A]_vars
  BY <1>2
<1> QED
  BY <1>1, <1>3, <1>4, Invariance, PTL DEF Spec, TrailingCarriesLatest

\* A request that waits is cancelled only for a newer one of its key, because its server is
\* gone, or by aclose().
THEOREM CancelledForAReason == Spec => GivenUpForAReason
<1> DEFINE A == \A r \in Req : r \in cancelled' /\ r \notin cancelled =>
                  \/ timers'[key[r]] \in Newer(r)'
                  \/ servers'[key[r][1]] = NoServer
                  \/ closer' = "waiting"
<1>1. ASSUME IInv, [Next]_vars PROVE [A]_vars
  <2> SUFFICES ASSUME NEW r \in Req, r \in cancelled', r \notin cancelled
               PROVE  \/ timers'[key[r]] \in Newer(r)'
                      \/ servers'[key[r][1]] = NoServer
                      \/ closer' = "waiting"
    OBVIOUS
  <2>1. CASE \E k \in Key : SubmitTrailing(k)
    <3>1. PICK k \in Key : SubmitTrailing(k)
      BY <2>1
    <3>2. timers[k] = r
      BY <3>1 DEF SubmitTrailing
    <3>3. k \in Key /\ key[r] = k /\ r <= count /\ count \in Nat
      BY <3>2, <1>1 DEF IInv, TypeOK, TimerOwnership, Numbered, Waiting, Req, NoTask
    <3>4. /\ timers'[k] = count + 1 /\ count' = count + 1 /\ count + 1 \in Req
          /\ key'[count + 1] = k /\ key'[r] = k
      BY <3>1, <3>3, <1>1 DEF SubmitTrailing, IInv, TypeOK
    <3>5. r < count + 1
      BY <3>3 DEF Req
    <3>6. count + 1 \in Newer(r)'
      BY <3>3, <3>4, <3>5 DEF Newer
    <3> QED
      BY <3>3, <3>4, <3>6
  <2>2. CASE \E new \in ServerMap : UpdateServers(new)
    BY <2>2, <1>1 DEF UpdateServers, Drop, IInv, TimerOwnership
  <2>3. CASE Aclose
    BY <2>3 DEF Aclose
  <2> QED
    BY <2>1, <2>2, <2>3, <1>1
    DEF Next, vars, SubmitNow, StartSleep, Resume, DispatchDone, Tick, AcloseReturn
<1> QED
  BY <1>1, Invariance, PTL DEF Spec, GivenUpForAReason

-----------------------------------------------------------------------------
\* The pending request and the window of a key, as the abstract debouncer sees them.
AbsLeft == [k \in Key |-> Left(k)]
AbsFired == {r \in Req : starts[r] > 0}

\* An immediate dispatch is an immediate dispatch.
LEMMA RefineSubmitNow ==
  ASSUME IInv, NEW k \in Key, NEW r \in Req, r = count + 1, SubmitNow(k)
  PROVE  Abstract!Immediate(k, r)
<1>0. r > count
  BY DEF IInv, TypeOK
<1>1. starts[r] = 0
  BY <1>0 DEF IInv, Numbered, StartsOnce
<1>2. AbsFired' = AbsFired \cup {r}
  BY DEF AbsFired, SubmitNow, IInv, TypeOK
<1>3. UNCHANGED <<servers, timers, AbsLeft>>
  BY DEF SubmitNow, AbsLeft, Left
<1> QED
  BY <1>1, <1>2, <1>3 DEF Abstract!Immediate, SubmitNow, AbsFired, AbsLeft

\* A trailing submit takes the key over.
LEMMA RefineSubmitTrailing ==
  ASSUME IInv, NEW k \in Key, NEW r \in Req, r = count + 1, SubmitTrailing(k)
  PROVE  Abstract!Arm(k, r)
<1>0. r > count /\ r # NoTask
  BY DEF IInv, TypeOK, NoTask
<1>1. \A j \in Key : timers[j] # r
  BY <1>0 DEF IInv, Numbered, TimerOwnership, Waiting
<1>2. \A j \in Key : Left(j)' = IF j = k THEN servers[k[1]].window ELSE Left(j)
  BY <1>0, <1>1 DEF Left, SubmitTrailing, IInv, TypeOK
<1>3. AbsLeft' = [AbsLeft EXCEPT ![k] = servers[k[1]].window]
  BY <1>2 DEF AbsLeft
<1>4. UNCHANGED <<servers, AbsFired>> /\ timers' = [timers EXCEPT ![k] = r]
  BY DEF SubmitTrailing, AbsFired
<1> QED
  BY <1>3 DEF Abstract!Arm, SubmitTrailing, AbsLeft

\* Time only shortens what is left of each window, by at most one unit.
LEMMA RefineTick == ASSUME IInv, Tick PROVE Abstract!Elapse
<1>1. AbsLeft' \in [Key -> Nat]
  BY DEF AbsLeft, Left, Tick, IInv, TypeOK
<1>2. \A k \in Key : AbsLeft'[k] <= AbsLeft[k] /\ AbsLeft[k] <= AbsLeft'[k] + 1
  BY DEF AbsLeft, Left, Tick, IInv, TypeOK
<1>3. UNCHANGED <<servers, timers, AbsFired>>
  BY DEF Tick, AbsFired
<1> QED
  BY <1>1, <1>2, <1>3 DEF Abstract!Elapse, Abstract!Key, Key, AbsLeft, AbsFired

\* A task that wakes up fires its key, or was none of the pending ones.
LEMMA RefineResume ==
  ASSUME IInv, NEW r \in Req, NEW k, k = key[r], Resume(r)
  PROVE  Abstract!Fire(k) \/ UNCHANGED <<servers, timers, AbsLeft, AbsFired>>
<1>1. CASE r \in cancelled \/ timers[key[r]] # r
  BY <1>1 DEF Resume, AbsLeft, Left, AbsFired
<1>2. CASE r \notin cancelled /\ timers[key[r]] = r
  <2>1. key[r] \in Key /\ r # NoTask /\ starts[r] = 0 /\ left[r] = 0
    BY <1>2 DEF Resume, IInv, TypeOK, Numbered, StartsOnce, Req, NoTask
  <2>2. servers[key[r][1]] # NoServer
    BY <1>2, <2>1 DEF IInv, ArmedAreConfigured
  <2>3. AbsFired' = AbsFired \cup {r}
    BY <1>2 DEF Resume, AbsFired, IInv, TypeOK
  <2>4. timers' = [timers EXCEPT ![key[r]] = NoTask] /\ UNCHANGED <<servers, left>>
    BY <1>2 DEF Resume
  <2>5. \A j \in Key : Left(j)' = Left(j)
    BY <1>2, <2>1, <2>4 DEF Left
  <2> QED
    BY <1>2, <2>1, <2>2, <2>3, <2>4 DEF Abstract!Fire, AbsFired, Left
<1> QED
  BY <1>1, <1>2

\* A new policy map drops what is pending for the servers that are gone.
LEMMA RefineUpdateServers ==
  ASSUME IInv, NEW new \in ServerMap, UpdateServers(new)
  PROVE  Abstract!Reconfigure(new)
<1>1. timers' = [k \in Key |-> IF new[k[1]] = NoServer THEN NoTask ELSE timers[k]]
  BY DEF UpdateServers, Drop
<1>2. AbsLeft' = [k \in Key |-> IF new[k[1]] = NoServer THEN 0 ELSE AbsLeft[k]]
  BY <1>1 DEF UpdateServers, AbsLeft, Left
<1>3. servers' = new /\ UNCHANGED AbsFired
  BY DEF UpdateServers, AbsFired
<1> QED
  BY <1>1, <1>2, <1>3 DEF Abstract!Reconfigure, Abstract!Key, Key, AbsLeft, AbsFired

\* The task-based debouncer implements trailing-edge debouncing.
THEOREM Refinement == Spec => ImplementsTrailingDebounce
<1>1. Init => Abstract!Init
  BY DEF Init, Abstract!Init, Abstract!Key, Key, ServerMap, Left
<1>2. ASSUME IInv, [Next]_vars PROVE [Abstract!Next]_(Abstract!vars)
  <2> USE <1>2
  <2>1. CASE \E k \in Key : SubmitNow(k) \/ SubmitTrailing(k)
    <3>1. PICK k \in Key : SubmitNow(k) \/ SubmitTrailing(k)
      BY <2>1
    <3>2. PICK r \in Req : r = count + 1
      BY <3>1 DEF SubmitNow, SubmitTrailing
    <3>3. Abstract!Arm(k, r) \/ Abstract!Immediate(k, r)
      BY <3>1, <3>2, RefineSubmitNow, RefineSubmitTrailing
    <3>4. Abstract!Next
      BY <3>3 DEF Abstract!Next, Abstract!Key, Key
    <3> QED
      BY <3>4
  <2>2. CASE \E r \in Req : Resume(r)
    <3>1. PICK r \in Req : Resume(r)
      BY <2>2
    <3>2. PICK k \in Key : k = key[r]
      BY <3>1 DEF Resume, IInv, TypeOK, Numbered, Req
    <3>3. Abstract!Fire(k) \/ UNCHANGED <<servers, timers, AbsLeft, AbsFired>>
      BY <3>1, <3>2, RefineResume
    <3>4. Abstract!Fire(k) => Abstract!Next
      BY DEF Abstract!Next, Abstract!Key, Key
    <3>5. UNCHANGED <<servers, timers, AbsLeft, AbsFired>> => UNCHANGED Abstract!vars
      BY DEF Abstract!vars, AbsLeft, AbsFired
    <3> QED
      BY <3>3, <3>4, <3>5
  <2>3. CASE Tick
    BY <2>3, RefineTick DEF Abstract!Next
  <2>4. CASE \E new \in ServerMap : UpdateServers(new)
    BY <2>4, RefineUpdateServers DEF Abstract!Next, ServerMap
  <2>5. CASE Aclose
    BY <2>5 DEF Aclose, Abstract!Next, Abstract!Close, Abstract!Key, Key, Left
  <2>6. CASE AcloseReturn \/ UNCHANGED vars \/ \E r \in Req : StartSleep(r) \/ DispatchDone(r)
    BY <2>6 DEF AcloseReturn, StartSleep, DispatchDone, vars, Abstract!vars, Left
  <2> QED
    BY <2>1, <2>2, <2>3, <2>4, <2>5, <2>6 DEF Next
<1> QED
  BY <1>1, <1>2, Invariance, PTL DEF Spec, ImplementsTrailingDebounce, Abstract!Spec
=============================================================================
