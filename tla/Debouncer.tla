------------------------------- MODULE Debouncer -------------------------------
(***************************************************************************)
(* pipeline/debounce.py.  One submitter (the engine's consume loop) calls  *)
(* submit(); a trailing request gets an asyncio task of its own            *)
(* (_fire_after), and update_servers() and aclose() run between its turns. *)
(*                                                                         *)
(* A request is the number of its submission, and names the task that      *)
(* submit() created for it as well.  A task is "ready" until its first     *)
(* turn, then "sleeping"; Task.cancel() is delivered as CancelledError on  *)
(* the task's next turn, even when the sleep has already run out.          *)
(***************************************************************************)
EXTENDS Naturals

CONSTANTS Server,    \* server ids
          ScanKey,   \* scan keys
          Policy,    \* debounce policies a ServerRuntime may carry
          NoServer,  \* _servers.get() returned None
          MaxReq     \* bound: how many requests are submitted

ASSUME PolicyAssumption == Policy \subseteq [mode : {"off", "trailing"}, window : Nat]
ASSUME NoServerAssumption == NoServer \notin Policy
ASSUME MaxReqAssumption == MaxReq \in Nat

Req == 1 .. MaxReq
NoTask == 0
Key == Server \X ScanKey
NoKey == <<>>
ServerMap == [Server -> Policy \cup {NoServer}]

VARIABLES servers,    \* _servers
          timers,     \* _timers: key -> the registered task, or NoTask
          count,      \* how many requests were submitted
          key,        \* request -> its (server_id, scan_key)
          pc,         \* request -> how far submit() / _fire_after() has come with it
          left,       \* request -> what its sleep still lasts
          cancelled,  \* tasks Task.cancel() was called on
          starts,     \* request -> how often its dispatch was begun (history)
          closer,     \* aclose(): "open", "waiting" or "closed"
          awaited     \* the tasks aclose() awaits

vars == <<servers, timers, count, key, pc, left, cancelled, starts, closer, awaited>>

\* A request that waits for its window: its task exists and has not fired.
Waiting(r) == pc[r] \in {"ready", "sleeping"}

\* The submitter awaits an immediate dispatch inside submit().
Submitting == \E r \in Req : pc[r] = "inline"

Init == /\ servers \in ServerMap
        /\ timers = [k \in Key |-> NoTask]
        /\ count = 0
        /\ key = [r \in Req |-> NoKey]
        /\ pc = [r \in Req |-> "new"]
        /\ left = [r \in Req |-> 0]
        /\ cancelled = {}
        /\ starts = [r \in Req |-> 0]
        /\ closer = "open"
        /\ awaited = {}

-----------------------------------------------------------------------------
\* submit() for an unknown server or one in mode off: dispatch at once.  A timer
\* that is armed for the key is left alone.
SubmitNow(k) ==
  LET r == count + 1 IN
  /\ r \in Req /\ ~Submitting
  /\ servers[k[1]] # NoServer => servers[k[1]].mode = "off"
  /\ count' = r
  /\ key' = [key EXCEPT ![r] = k]
  /\ pc' = [pc EXCEPT ![r] = "inline"]
  /\ starts' = [starts EXCEPT ![r] = @ + 1]
  /\ UNCHANGED <<servers, timers, left, cancelled, closer, awaited>>

\* Bug variant: a newer request does not restart the window.
SubmitKeepsWindow(k) ==
  LET r == count + 1
      armed == timers[k] # NoTask IN
  /\ r \in Req /\ ~Submitting
  /\ servers[k[1]] # NoServer /\ servers[k[1]].mode = "trailing"
  /\ count' = r
  /\ key' = [key EXCEPT ![r] = k]
  /\ pc' = [pc EXCEPT ![r] = "ready"]
  /\ left' = [left EXCEPT ![r] = IF armed THEN left[timers[k]] ELSE servers[k[1]].window]
  /\ cancelled' = cancelled \cup ({timers[k]} \ {NoTask})
  /\ timers' = [timers EXCEPT ![k] = r]
  /\ UNCHANGED <<servers, starts, closer, awaited>>

\* submit() in mode trailing: cancel the key's task and register a fresh one.
SubmitTrailing(k) ==
  LET r == count + 1 IN
  /\ r \in Req /\ ~Submitting
  /\ servers[k[1]] # NoServer /\ servers[k[1]].mode = "trailing"
  /\ count' = r
  /\ key' = [key EXCEPT ![r] = k]
  /\ pc' = [pc EXCEPT ![r] = "ready"]
  /\ left' = [left EXCEPT ![r] = servers[k[1]].window]
  /\ cancelled' = cancelled \cup ({timers[k]} \ {NoTask})
  /\ timers' = [timers EXCEPT ![k] = r]
  /\ UNCHANGED <<servers, starts, closer, awaited>>

\* Bug variant: a task that is cancelled before its first turn never ends.
StartSleepUnlessCancelled(r) ==
  /\ pc[r] = "ready" /\ r \notin cancelled
  /\ pc' = [pc EXCEPT ![r] = "sleeping"]
  /\ UNCHANGED <<servers, timers, count, key, left, cancelled, starts, closer, awaited>>

\* The first turn of a task: into sleep(), unless it was cancelled before it ran.
StartSleep(r) ==
  /\ pc[r] = "ready"
  /\ pc' = [pc EXCEPT ![r] = IF r \in cancelled THEN "done" ELSE "sleeping"]
  /\ UNCHANGED <<servers, timers, count, key, left, cancelled, starts, closer, awaited>>

\* One unit of time passes for every task that sleeps.
Tick ==
  /\ \E r \in Req : pc[r] = "sleeping" /\ left[r] > 0
  /\ left' = [r \in Req |-> IF pc[r] = "sleeping" /\ left[r] > 0 THEN left[r] - 1 ELSE left[r]]
  /\ UNCHANGED <<servers, timers, count, key, pc, cancelled, starts, closer, awaited>>

\* Bug variant: CancelledError is swallowed, and any timer of the key lets the task through.
ResumeRegardless(r) ==
  /\ pc[r] = "sleeping" /\ (r \in cancelled \/ left[r] = 0)
  /\ IF timers[key[r]] = NoTask
     THEN /\ pc' = [pc EXCEPT ![r] = "done"]
          /\ UNCHANGED <<timers, starts>>
     ELSE /\ pc' = [pc EXCEPT ![r] = "dispatching"]
          /\ timers' = [timers EXCEPT ![key[r]] = NoTask]
          /\ starts' = [starts EXCEPT ![r] = @ + 1]
  /\ UNCHANGED <<servers, count, key, left, cancelled, closer, awaited>>

\* Bug variant: the task stays registered while it dispatches.
ResumeStillArmed(r) ==
  /\ pc[r] = "sleeping" /\ (r \in cancelled \/ left[r] = 0)
  /\ IF r \in cancelled \/ timers[key[r]] # r
     THEN pc' = [pc EXCEPT ![r] = "done"] /\ UNCHANGED starts
     ELSE /\ pc' = [pc EXCEPT ![r] = "dispatching"]
          /\ starts' = [starts EXCEPT ![r] = @ + 1]
  /\ UNCHANGED <<servers, timers, count, key, left, cancelled, closer, awaited>>

\* The turn in which the sleep of a task ends: CancelledError and a task that is no
\* longer the registered one return; the registered one leaves _timers and dispatches.
Resume(r) ==
  /\ pc[r] = "sleeping"
  /\ r \in cancelled \/ left[r] = 0
  /\ \/ /\ r \in cancelled \/ timers[key[r]] # r
        /\ pc' = [pc EXCEPT ![r] = "done"]
        /\ UNCHANGED <<timers, starts>>
     \/ /\ r \notin cancelled /\ timers[key[r]] = r
        /\ pc' = [pc EXCEPT ![r] = "dispatching"]
        /\ timers' = [timers EXCEPT ![key[r]] = NoTask]
        /\ starts' = [starts EXCEPT ![r] = @ + 1]
  /\ UNCHANGED <<servers, count, key, left, cancelled, closer, awaited>>

\* The awaited dispatch returns, in the submitter or in the task.
DispatchDone(r) ==
  /\ pc[r] \in {"inline", "dispatching"}
  /\ pc' = [pc EXCEPT ![r] = "done"]
  /\ UNCHANGED <<servers, timers, count, key, left, cancelled, starts, closer, awaited>>

\* Drop the timers of some keys from the map and cancel their tasks.
Drop(gone) ==
  /\ timers' = [k \in Key |-> IF k \in gone THEN NoTask ELSE timers[k]]
  /\ cancelled' = cancelled \cup {timers[k] : k \in gone}

\* Bug variant: keys without a timer are dropped as well.
UpdateDropsUnarmed(new) ==
  /\ servers' = new
  /\ Drop({k \in Key : new[k[1]] = NoServer})
  /\ UNCHANGED <<count, key, pc, left, starts, closer, awaited>>

\* Bug variant: only the map is swapped.
UpdateDropsNothing(new) ==
  /\ servers' = new
  /\ UNCHANGED <<timers, count, key, pc, left, cancelled, starts, closer, awaited>>

\* Bug variant: the timers are popped and their tasks not cancelled.
UpdateWithoutCancel(new) ==
  /\ servers' = new
  /\ timers' = [k \in Key |-> IF new[k[1]] = NoServer THEN NoTask ELSE timers[k]]
  /\ UNCHANGED <<count, key, pc, left, cancelled, starts, closer, awaited>>

\* update_servers(): swap the map, then pop and cancel the timers of servers that are gone.
UpdateServers(new) ==
  /\ servers' = new
  /\ Drop({k \in Key : timers[k] # NoTask /\ new[k[1]] = NoServer})
  /\ UNCHANGED <<count, key, pc, left, starts, closer, awaited>>

\* aclose() up to its first await: clear _timers, cancel what was in it.
Aclose ==
  LET live == {timers[k] : k \in Key} \ {NoTask} IN
  /\ closer = "open"
  /\ timers' = [k \in Key |-> NoTask]
  /\ cancelled' = cancelled \cup live
  /\ awaited' = live
  /\ closer' = "waiting"
  /\ UNCHANGED <<servers, count, key, pc, left, starts>>

\* aclose() returns once every task it cancelled has ended.
AcloseReturn ==
  /\ closer = "waiting"
  /\ \A r \in awaited : pc[r] = "done"
  /\ closer' = "closed"
  /\ UNCHANGED <<servers, timers, count, key, pc, left, cancelled, starts, awaited>>

Next == \/ \E k \in Key : SubmitNow(k) \/ SubmitTrailing(k)
        \/ \E r \in Req : StartSleep(r) \/ Resume(r) \/ DispatchDone(r)
        \/ Tick
        \/ \E new \in ServerMap : UpdateServers(new)
        \/ Aclose
        \/ AcloseReturn

\* The event loop gives every runnable task its turn, time passes, a dispatch returns
\* (every HTTP call has a timeout) and aclose() is resumed; nobody is obliged to
\* submit, to reconfigure or to close.
Fairness == /\ \A r \in Req : WF_vars(StartSleep(r)) /\ WF_vars(Resume(r))
                              /\ WF_vars(DispatchDone(r))
            /\ WF_vars(Tick)
            /\ WF_vars(AcloseReturn)

Spec == Init /\ [][Next]_vars
FairSpec == Spec /\ Fairness

-----------------------------------------------------------------------------
\* The type of the state.
TypeOK == /\ servers \in ServerMap
          /\ timers \in [Key -> Req \cup {NoTask}]
          /\ count \in 0 .. MaxReq
          /\ key \in [Req -> Key \cup {NoKey}]
          /\ pc \in [Req -> {"new", "ready", "sleeping", "dispatching", "inline", "done"}]
          /\ left \in [Req -> Nat]
          /\ cancelled \subseteq Req
          /\ starts \in [Req -> Nat]
          /\ closer \in {"open", "waiting", "closed"}
          /\ awaited \subseteq Req

\* Cancelling and registering stay in step through every interleaving of submit(),
\* update_servers(), aclose() and the tasks' turns: the registered task of a key is
\* exactly the one task of that key that still waits and was not cancelled.
TimerOwnership ==
  /\ \A k \in Key : timers[k] # NoTask =>
       key[timers[k]] = k /\ Waiting(timers[k]) /\ timers[k] \notin cancelled
  /\ \A r \in Req : Waiting(r) /\ r \notin cancelled => timers[key[r]] = r

\* "Never double-dispatch" (the comment in _fire_after): no request is dispatched twice,
\* and one that was superseded, dropped or closed away is not dispatched at all.
AtMostOneDispatch == \A r \in Req : starts[r] <= (IF r \in cancelled THEN 0 ELSE 1)

\* aclose() awaits only tasks that end by themselves: never one that is in the middle of
\* a dispatch, whose HTTP retries would hold up the shutdown.
AcloseNeverAwaitsDispatch ==
  closer = "waiting" => \A r \in awaited : pc[r] # "dispatching" /\ starts[r] = 0

\* A request of a key that was submitted after r.
Newer(r) == {q \in Req : r < q /\ q <= count /\ key[q] = key[r]}

\* When a window runs out, the request that is dispatched is the newest one that was
\* debounced for its key, and its server is still configured: the only requests that may
\* have overtaken it were dispatched immediately because the mode was changed to off.
TrailingCarriesLatest ==
  [][\A r \in Req : pc[r] = "sleeping" /\ pc'[r] = "dispatching" =>
        /\ servers[key[r][1]] # NoServer
        /\ \A q \in Newer(r) : starts[q] = 1]_vars

\* A waiting request is given up only for a reason: a newer request of its key holds the
\* timer, its server is gone, or the debouncer is being closed.
GivenUpForAReason ==
  [][\A r \in Req : r \in cancelled' /\ r \notin cancelled =>
        \/ timers'[key[r]] \in Newer(r)'
        \/ servers'[key[r][1]] = NoServer
        \/ closer' = "waiting"]_vars

\* Every debounced request is dispatched or was given up: no timer is forgotten.
EveryRequestSettles ==
  \A r \in Req : Waiting(r) ~> (starts[r] = 1 \/ (r \in cancelled /\ pc[r] = "done"))

\* aclose() terminates, also while dispatches are in flight.
AcloseTerminates == closer = "waiting" ~> closer = "closed"

\* The task-based debouncer implements trailing-edge debouncing: one pending request per
\* key, replaced by a newer one, fired no earlier than its window after the latest request.
Left(k) == IF timers[k] = NoTask THEN 0 ELSE left[timers[k]]

Abstract == INSTANCE TrailingDebounce WITH
              pending <- timers,
              left    <- [k \in Key |-> Left(k)],
              fired   <- {r \in Req : starts[r] > 0},
              NoReq   <- NoTask

ImplementsTrailingDebounce == Abstract!Spec
=============================================================================
