--------------------------------- MODULE Engine ---------------------------------
(***************************************************************************)
(* engine.py with web/rebuild.py: start(), rebuild() and aclose() of one   *)
(* Engine, interleaved at their awaits on one event loop, against a        *)
(* database that web requests commit to from worker threads.               *)
(*                                                                         *)
(* The tasks are Start (Engine.start) and one Rebuilder per web request: a *)
(* request commits its change, then calls rebuild_engine().  Both run the  *)
(* same reads: build_runtime_config lists the servers and then, in         *)
(* sessions of their own, their folders (worker thread), and _gate_ok      *)
(* reads the policy and then measures the watch limit (worker thread); the *)
(* event loop resumes the task later.  What is between two awaits is one   *)
(* step.                                                                   *)
(***************************************************************************)
EXTENDS Naturals, FiniteSets

CONSTANTS Server,       \* server ids
          Path,         \* folder paths
          Unsupported,  \* servers create_adapter() raises for
          Rebuilder,    \* web requests that change the configuration
          Start,        \* the task that runs Engine.start()
          NoTask,       \* the lock is free
          Park,         \* start(park_when_blocked=...): TRUE web, FALSE headless
          MaxLimit,     \* bound: the watch limit, counted in paths
          EarlyWrites,  \* may requests arrive while start() is on its way to its loop?
          Faults        \* may a database read fail?

ASSUME UnsupportedAssumption == Unsupported \subseteq Server
ASSUME StartAssumption == Start \notin Rebuilder
ASSUME NoTaskAssumption == NoTask \notin Rebuilder
ASSUME MaxLimitAssumption == MaxLimit \in Nat
ASSUME SwitchAssumption == {Park, EarlyWrites, Faults} \subseteq BOOLEAN

Task == Rebuilder \cup {Start}
Ended == {"returned", "failed", "cancelled"}   \* start() is over
Client == Task \X Server      \* the httpx client a task built for a server
Config == [servers : SUBSET Server, paths : SUBSET Path]
Db == [enabled : SUBSET Server, folders : SUBSET (Server \X Path), policy : {"enforce", "off"}]
EmptyConfig == [servers |-> {}, paths |-> {}]

VARIABLES
  db, limit,                   \* the database; the host's watch limit
  pc, cfg, policy, measured,   \* per task: control and the local results of its reads
  old,                         \* per rebuilder: the clients it still has to close
  lock,                        \* Engine._lock
  config, debServers, adapters, clients,  \* Engine._config, Debouncer._servers,
                               \* Dispatcher._adapters, Engine._clients
  wired,                       \* dispatcher, debouncer and watcher exist
  roots, watching,             \* the watcher's roots; FALSE once it is closed
  state, watchLimit,           \* Engine.state, Engine.watch_limit
  open,                        \* clients that were built and not closed
  closer, closing              \* aclose(): control; clients it still has to close

tasks == <<pc, cfg, policy, measured, old, lock>>
maps == <<config, debServers, adapters, clients, wired>>
gate == <<roots, state, watchLimit>>
teardown == <<watching, closer, closing>>
vars == <<db, limit, tasks, maps, gate, teardown, open>>

Init == /\ db \in Db
        /\ limit \in 0 .. MaxLimit
        /\ pc = [t \in Task |-> "idle"]
        /\ cfg = [t \in Task |-> EmptyConfig]
        /\ policy = [t \in Task |-> "enforce"]
        /\ measured = [t \in Task |-> "none"]
        /\ old = [t \in Task |-> {}]
        /\ lock = NoTask
        /\ config = EmptyConfig /\ debServers = {} /\ adapters = {} /\ clients = {}
        /\ wired = FALSE
        /\ roots = {} /\ watching = TRUE
        /\ state = "stopped" /\ watchLimit = "none"
        /\ open = {}
        /\ closer = "idle" /\ closing = {}

-----------------------------------------------------------------------------
(* The reads both start() and rebuild() await. *)

Goto(t, label) == pc' = [pc EXCEPT ![t] = label]

\* build_runtime_config, first session: the enabled servers.
ReadServers(t) ==
  /\ pc[t] = "servers"
  /\ cfg' = [cfg EXCEPT ![t] = [servers |-> db.enabled, paths |-> {}]]
  /\ Goto(t, "folders")
  /\ UNCHANGED <<db, limit, policy, measured, old, lock, maps, gate, teardown, open>>

\* build_runtime_config, later sessions: the folders of the servers listed before.
ReadFolders(t) ==
  /\ pc[t] = "folders"
  /\ cfg' = [cfg EXCEPT ![t].paths =
               {p \in Path : \E s \in cfg[t].servers : <<s, p>> \in db.folders}]
  /\ Goto(t, "built")
  /\ UNCHANGED <<db, limit, policy, measured, old, lock, maps, gate, teardown, open>>

\* _gate_ok: the inotify_gate setting.
ReadPolicy(t) ==
  /\ pc[t] = "policy"
  /\ policy' = [policy EXCEPT ![t] = db.policy]
  /\ Goto(t, "measure")
  /\ UNCHANGED <<db, limit, cfg, measured, old, lock, maps, gate, teardown, open>>

\* Bug variant: the policy is kept where the verdict belongs.
MeasureKeepsPolicy(t) ==
  /\ pc[t] = "measure"
  /\ measured' = [measured EXCEPT ![t] = policy[t]]
  /\ Goto(t, "gated")
  /\ UNCHANGED <<db, limit, cfg, policy, old, lock, maps, gate, teardown, open>>

\* _gate_ok: check_watch_limit on the paths of the snapshot.
Measure(t) ==
  /\ pc[t] = "measure"
  /\ measured' = [measured EXCEPT ![t] = IF Cardinality(cfg[t].paths) <= limit THEN "ok" ELSE "low"]
  /\ Goto(t, "gated")
  /\ UNCHANGED <<db, limit, cfg, policy, old, lock, maps, gate, teardown, open>>

\* The locals of a call that has returned.
Forget(t) == /\ cfg' = [cfg EXCEPT ![t] = EmptyConfig]
             /\ policy' = [policy EXCEPT ![t] = "enforce"]
             /\ measured' = [measured EXCEPT ![t] = "none"]

\* Bug variant: the policy is not consulted.
GateIgnoresPolicy(t) == measured[t] = "ok"

\* The gate's verdict.
GateOk(t) == policy[t] = "off" \/ measured[t] = "ok"

\* _build_adapters: one client per server; that of an unsupported server is closed at once.
Built(t) == {t} \X (cfg[t].servers \ Unsupported)

\* The snapshot becomes the engine's: routing, debouncing and dispatching use it.
Publish(t) == /\ config' = cfg[t]
              /\ debServers' = cfg[t].servers
              /\ adapters' = Built(t)
              /\ clients' = Built(t)

\* Bug variant: a rebuild that fails keeps the lock.
ReadFailsKeepsLock(t) ==
  /\ Faults
  /\ pc[t] \in {"servers", "folders", "policy"}
  /\ Goto(t, "failed")
  /\ Forget(t)
  /\ UNCHANGED <<db, limit, old, lock, maps, gate, teardown, open>>

\* A read raises: start() ends with the exception, rebuild() releases the lock.
ReadFails(t) ==
  /\ Faults
  /\ pc[t] \in {"servers", "folders", "policy"}
  /\ Goto(t, "failed")
  /\ lock' = IF t = Start THEN lock ELSE NoTask
  /\ Forget(t)
  /\ UNCHANGED <<db, limit, old, maps, gate, teardown, open>>

-----------------------------------------------------------------------------
(* Engine.start() *)

StartBegin ==
  /\ pc[Start] = "idle"
  /\ Goto(Start, "servers")
  /\ state' = "starting"
  /\ UNCHANGED <<db, limit, cfg, policy, measured, old, lock, maps, roots, watchLimit,
                 teardown, open>>

\* Bug variant: a blocked engine is parked on its roots.
AttachBlocked(ok, wl) ==
  /\ watchLimit' = wl
  /\ state' = IF ok THEN "running" ELSE "blocked"
  /\ \/ ~ok /\ ~Park /\ Goto(Start, "returned") /\ UNCHANGED roots
     \/ (ok \/ Park) /\ Goto(Start, "loop") /\ roots' = cfg[Start].paths

\* After the gate: block and return (headless), or attach the roots of the LOCAL snapshot
\* (none when blocked) and enter the consume loop.
Attach(ok, wl) ==
  /\ watchLimit' = wl
  /\ state' = IF ok THEN "running" ELSE "blocked"
  /\ \/ /\ ~ok /\ ~Park
        /\ Goto(Start, "returned")
        /\ UNCHANGED roots
     \/ /\ ok \/ Park
        /\ Goto(Start, "loop")
        /\ roots' = IF ok THEN cfg[Start].paths ELSE {}

\* The snapshot is read: publish it and wire the pipeline; without watch paths the gate
\* awaits nothing and the roots are attached in the same turn.
StartWire ==
  /\ pc[Start] = "built"
  /\ Publish(Start)
  /\ open' = open \cup Built(Start)
  /\ wired' = TRUE
  /\ \/ cfg[Start].paths = {} /\ Attach(TRUE, "none")
     \/ cfg[Start].paths # {} /\ Goto(Start, "policy") /\ UNCHANGED gate
  /\ UNCHANGED <<db, limit, cfg, policy, measured, old, lock, teardown>>

StartAttach ==
  /\ pc[Start] = "gated"
  /\ Attach(GateOk(Start), measured[Start])
  /\ UNCHANGED <<db, limit, cfg, policy, measured, old, lock, maps, teardown, open>>

\* The consume loop waits in events(); closing the watcher ends the stream.
ConsumeEnds ==
  /\ pc[Start] = "loop" /\ ~watching
  /\ Goto(Start, "returned")
  /\ UNCHANGED <<db, limit, cfg, policy, measured, old, lock, maps, gate, teardown, open>>

-----------------------------------------------------------------------------
(* A web request: commit, rebuild_engine(), Engine.rebuild() *)

\* One committed change: a server or a folder is added or removed, the gate policy is set.
Changed(d) ==
  {[d EXCEPT !.enabled = e] : e \in {d.enabled \cup {s} : s \in Server}
                                    \cup {d.enabled \ {s} : s \in Server}}
  \cup {[d EXCEPT !.folders = f] : f \in {d.folders \cup {x} : x \in Server \X Path}
                                         \cup {d.folders \ {x} : x \in Server \X Path}}
  \cup {[d EXCEPT !.policy = g] : g \in {"enforce", "off"}}

Commit(t) ==
  /\ t \in Rebuilder /\ pc[t] = "idle" /\ pc[Start] # "idle"
  /\ EarlyWrites \/ pc[Start] \in Ended \cup {"loop"}
  /\ db' \in Changed(db)
  /\ Goto(t, "committed")
  /\ UNCHANGED <<limit, cfg, policy, measured, old, lock, maps, gate, teardown, open>>

\* The host's limit was changed and the operator asks for a recheck: no write.
Recheck(t) ==
  /\ t \in Rebuilder /\ pc[t] = "idle" /\ pc[Start] # "idle"
  /\ EarlyWrites \/ pc[Start] \in Ended \cup {"loop"}
  /\ limit' \in 0 .. MaxLimit
  /\ Goto(t, "committed")
  /\ UNCHANGED <<db, cfg, policy, measured, old, lock, maps, gate, teardown, open>>

\* rebuild_engine(): an engine that is not wired raises RuntimeError, which is swallowed.
RebuildSkipped(t) ==
  /\ t \in Rebuilder /\ pc[t] = "committed" /\ ~wired
  /\ Goto(t, "skipped")
  /\ UNCHANGED <<db, limit, cfg, policy, measured, old, lock, maps, gate, teardown, open>>

\* Bug variant: rebuilds are not serialised.
RebuildWithoutLock(t) ==
  /\ t \in Rebuilder /\ pc[t] = "committed" /\ wired
  /\ lock' = t
  /\ Goto(t, "servers")
  /\ UNCHANGED <<db, limit, cfg, policy, measured, old, maps, gate, teardown, open>>

\* async with self._lock
RebuildLock(t) ==
  /\ t \in Rebuilder /\ pc[t] = "committed" /\ wired
  /\ lock = NoTask
  /\ lock' = t
  /\ Goto(t, "servers")
  /\ UNCHANGED <<db, limit, cfg, policy, measured, old, maps, gate, teardown, open>>

\* Bug variant: the replaced clients are forgotten.
RetireNothing(t) == UNCHANGED old

\* The clients the swap replaces are left for rebuild() to close.
Retire(t) == old' = [old EXCEPT ![t] = clients]

\* The swap: no await between these assignments.
Swap(t, ok, wl) ==
  /\ Publish(t)
  /\ Retire(t)
  /\ roots' = IF ok THEN cfg[t].paths ELSE {}
  /\ state' = IF ok THEN "running" ELSE "blocked"
  /\ watchLimit' = wl
  /\ Goto(t, "close")
  /\ UNCHANGED wired

\* The snapshot is read: build clients; without watch paths swap in the same turn.
RebuildBuild(t) ==
  /\ t \in Rebuilder /\ pc[t] = "built"
  /\ open' = open \cup Built(t)
  /\ \/ cfg[t].paths = {} /\ Swap(t, TRUE, "none")
     \/ cfg[t].paths # {} /\ Goto(t, "policy") /\ UNCHANGED <<old, maps, gate>>
  /\ UNCHANGED <<db, limit, cfg, policy, measured, lock, teardown>>

RebuildSwap(t) ==
  /\ t \in Rebuilder /\ pc[t] = "gated"
  /\ Swap(t, GateOk(t), measured[t])
  /\ UNCHANGED <<db, limit, cfg, policy, measured, lock, teardown, open>>

\* The old clients are closed one await at a time.
RebuildClose(t, c) ==
  /\ pc[t] = "close" /\ c \in old[t]
  /\ old' = [old EXCEPT ![t] = @ \ {c}]
  /\ open' = open \ {c}
  /\ UNCHANGED <<db, limit, pc, cfg, policy, measured, lock, maps, gate, teardown>>

RebuildUnlock(t) ==
  /\ pc[t] = "close" /\ old[t] = {}
  /\ lock' = NoTask
  /\ Goto(t, "done")
  /\ Forget(t)
  /\ UNCHANGED <<db, limit, old, maps, gate, teardown, open>>

-----------------------------------------------------------------------------
(* Engine.aclose() *)

\* Close the watcher if there is one; without a pipeline there is nothing to await.
AcloseBegin ==
  /\ closer = "idle"
  /\ watching' = ~wired
  /\ closer' = IF wired THEN "timers" ELSE "done"
  /\ state' = IF wired THEN state ELSE "stopped"
  /\ UNCHANGED <<db, limit, tasks, maps, roots, watchLimit, closing, open>>

\* The debouncer is closed; the clients to close are those of this moment.
AcloseTimers ==
  /\ closer = "timers"
  /\ closer' = "clients"
  /\ closing' = clients
  /\ UNCHANGED <<db, limit, tasks, maps, gate, watching, open>>

AcloseClient(c) ==
  /\ closer = "clients" /\ c \in closing
  /\ closing' = closing \ {c}
  /\ open' = open \ {c}
  /\ UNCHANGED <<db, limit, tasks, maps, gate, watching, closer>>

AcloseReturn ==
  /\ closer = "clients" /\ closing = {}
  /\ closer' = "done"
  /\ clients' = {}
  /\ state' = "stopped"
  /\ UNCHANGED <<db, limit, tasks, config, debServers, adapters, wired, roots, watchLimit,
                 watching, closing, open>>
-----------------------------------------------------------------------------
\* The owner of the start task cancels it once aclose() has returned.
StartCancel ==
  /\ closer = "done" /\ pc[Start] \notin Ended \cup {"idle"}
  /\ Goto(Start, "cancelled")
  /\ UNCHANGED <<db, limit, cfg, policy, measured, old, lock, maps, gate, teardown, open>>

Reads(t) == ReadServers(t) \/ ReadFolders(t) \/ ReadPolicy(t) \/ Measure(t)

Starting == StartBegin \/ StartWire \/ StartAttach

Rebuilding(t) == \/ RebuildSkipped(t) \/ RebuildLock(t) \/ RebuildBuild(t) \/ RebuildSwap(t)
                 \/ (\E c \in Client : RebuildClose(t, c)) \/ RebuildUnlock(t)

Closing == AcloseTimers \/ (\E c \in Client : AcloseClient(c)) \/ AcloseReturn

Next == \/ \E t \in Task : Reads(t) \/ ReadFails(t)
        \/ Starting \/ ConsumeEnds \/ StartCancel
        \/ \E t \in Rebuilder : Commit(t) \/ Recheck(t) \/ Rebuilding(t)
        \/ AcloseBegin \/ Closing

\* Worker threads finish, the event loop resumes what is runnable and a client's aclose()
\* returns.  Nobody has to send a request or to stop the engine.
Fairness == /\ \A t \in Task : WF_vars(Reads(t))
            /\ WF_vars(Starting) /\ WF_vars(ConsumeEnds)
            /\ \A t \in Rebuilder : WF_vars(RebuildSkipped(t)) /\ SF_vars(RebuildLock(t))
                 /\ WF_vars(RebuildBuild(t) \/ RebuildSwap(t) \/ RebuildUnlock(t)
                            \/ \E c \in Client : RebuildClose(t, c))
            /\ WF_vars(Closing)

Spec == Init /\ [][Next]_vars
FairSpec == Spec /\ Fairness

-----------------------------------------------------------------------------
Labels == {"idle", "servers", "folders", "built", "policy", "measure", "gated", "loop",
           "returned", "failed", "cancelled", "committed", "skipped", "close", "done"}

\* The type of the state.
TypeOK == /\ db \in Db /\ limit \in 0 .. MaxLimit
          /\ pc \in [Task -> Labels]
          /\ cfg \in [Task -> Config]
          /\ policy \in [Task -> {"enforce", "off"}]
          /\ measured \in [Task -> {"none", "ok", "low"}]
          /\ old \in [Task -> SUBSET Client]
          /\ lock \in Rebuilder \cup {NoTask}
          /\ config \in Config
          /\ debServers \subseteq Server /\ adapters \subseteq Client /\ clients \subseteq Client
          /\ {wired, watching} \subseteq BOOLEAN
          /\ roots \subseteq Path
          /\ state \in {"starting", "running", "blocked", "stopped"}
          /\ watchLimit \in {"none", "ok", "low"}
          /\ open \subseteq Client
          /\ closer \in {"idle", "timers", "clients", "done"}
          /\ closing \subseteq Client

ServersOf(C) == {c[2] : c \in C}

\* The three server-keyed maps never disagree (invariant 7 of the interface contract): an
\* event in flight sees an adapter exactly for the configured servers that have one.
ThreeMapsAgree ==
  wired => /\ debServers = config.servers
           /\ ServersOf(adapters) = config.servers \ Unsupported

\* A task between building its clients and swapping them in.
HasBuilt(t) == pc[t] \in {"policy", "measure", "gated"} /\ t \in Rebuilder

\* Built by a rebuild whose gate read then failed: nobody closes these clients.
Abandoned(c) == c[1] \in Rebuilder /\ pc[c[1]] = "failed"

\* The clients somebody answers for: the engine's, those a rebuild is about to swap in and
\* those it has still to close.
Held == clients \cup (UNION {old[t] : t \in Rebuilder})
                \cup (UNION {Built(t) : t \in {u \in Rebuilder : HasBuilt(u)}})

\* Until teardown, what the dispatcher may use is open, and no client is lost track of: one
\* that is open is held by somebody, or was abandoned by a rebuild that failed.
NoClientLeak ==
  closer = "idle" => /\ adapters \subseteq open /\ Held \subseteq open
                     /\ \A c \in open \ Held : Abandoned(c)

\* Every request has been answered and the engine sits in its loop.
Quiescent == /\ pc[Start] = "loop" /\ closer = "idle"
             /\ \A t \in Rebuilder : pc[t] \in {"idle", "done", "skipped"}

\* "Every successful config mutation calls this so the running engine picks up the change":
\* whatever the overlap of writes and rebuilds, once all requests are answered the engine
\* runs what the database holds.
PicksUpEveryChange ==
  Quiescent => config = [servers |-> db.enabled,
                         paths |-> {p \in Path : \E s \in db.enabled : <<s, p>> \in db.folders}]

\* Once all requests are answered, the engine watches if and only if the gate, evaluated on
\* the database and the host as they are now, lets it: no request leaves it blocked or
\* running on a stale gate decision.
GateIsCurrent ==
  Quiescent => (state = "running" <=> \/ config.paths = {} \/ db.policy = "off"
                                      \/ Cardinality(config.paths) <= limit)

\* A running engine watches exactly the paths of the configuration it routes with; a blocked
\* one watches nothing.
RootsFollowConfig ==
  pc[Start] = "loop" /\ closer = "idle" =>
     \/ state = "running" /\ roots = config.paths
     \/ state = "blocked" /\ roots = {}

\* rebuild() "without raising": every request that reaches rebuild_engine() is answered,
\* and a failed one does not leave the lock behind for the others.
EveryRequestAnswered ==
  \A t \in Rebuilder : pc[t] = "committed" ~> pc[t] \in {"done", "skipped", "failed"}
=============================================================================
