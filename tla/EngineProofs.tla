----------------------------- MODULE EngineProofs -----------------------------
(***************************************************************************)
(* Proofs about Engine, for any number of servers, paths and web requests, *)
(* and about ServeHeadless and ServeWeb: what is left behind when the      *)
(* process exits.  The steps of the two processes are steps of the engine, *)
(* so that theirs rest on what is known of every engine.                   *)
(***************************************************************************)
EXTENDS ServeHeadless, ServeWeb, TLAPS

\* The steps of rebuild() that run under Engine._lock.
Holding == {"servers", "folders", "built", "policy", "measure", "gated", "close"}

\* The lock admits one rebuild at a time.
Mutex == \A t \in Rebuilder : pc[t] \in Holding <=> lock = t

\* start() wires the pipeline between its two reads; nobody rebuilds before that.
WiredByStart ==
  /\ pc[Start] \in {"idle", "servers", "folders", "built"} => ~wired
  /\ pc[Start] \in {"policy", "measure", "gated", "loop"} => wired
  /\ \A t \in Rebuilder : pc[t] \in Holding => wired
  /\ ~wired => clients = {} /\ adapters = {}

\* Whose clients are where: the engine's belong to start() or to a rebuild that has swapped
\* them in, and a rebuild has to close clients of others only.
Ownership ==
  /\ \A t \in Rebuilder : pc[t] # "close" => old[t] = {}
  /\ closer = "idle" =>
       /\ adapters = clients
       /\ \A c \in clients : c[1] # Start => pc[c[1]] \in {"close", "done"}
       /\ \A t \in Rebuilder : pc[t] = "close" =>
            (\A c \in clients : c[1] = t) /\ (\A c \in old[t] : c[1] # t)

-----------------------------------------------------------------------------
\* The state always has its type: the initial state.
LEMMA InitType == Init => TypeOK
<1> SUFFICES ASSUME Init PROVE TypeOK
  OBVIOUS
<1>1. EmptyConfig \in Config
  BY DEF EmptyConfig, Config
<1>2. /\ cfg \in [Task -> Config] /\ config \in Config
      /\ pc \in [Task -> Labels]
      /\ policy \in [Task -> {"enforce", "off"}]
      /\ measured \in [Task -> {"none", "ok", "low"}]
      /\ old \in [Task -> SUBSET Client]
  BY <1>1 DEF Init, Labels
<1> QED
  BY <1>2 DEF Init, TypeOK

\* The reads that start() and rebuild() share keep the type.
LEMMA ReadsType == ASSUME TypeOK, NEW t \in Task, Reads(t) \/ ReadFails(t) PROVE TypeOK'
<1> USE DEF tasks, maps, gate, teardown, Goto
<1>1. CASE ReadServers(t)
  <2>1. [servers |-> db.enabled, paths |-> {}] \in Config
    BY DEF TypeOK, Db, Config
  <2>2. cfg' \in [Task -> Config]
    BY <1>1, <2>1 DEF ReadServers, TypeOK
  <2>3. pc' \in [Task -> Labels]
    BY <1>1 DEF ReadServers, TypeOK, Labels
  <2> QED
    BY <1>1, <2>2, <2>3 DEF ReadServers, TypeOK
<1>2. CASE ReadFolders(t)
  <2>1. cfg' \in [Task -> Config]
    BY <1>2 DEF ReadFolders, TypeOK, Config
  <2>2. pc' \in [Task -> Labels]
    BY <1>2 DEF ReadFolders, TypeOK, Labels
  <2> QED
    BY <1>2, <2>1, <2>2 DEF ReadFolders, TypeOK
<1>3. CASE ReadPolicy(t)
  <2>1. policy' \in [Task -> {"enforce", "off"}]
    BY <1>3 DEF ReadPolicy, TypeOK, Db
  <2>2. pc' \in [Task -> Labels]
    BY <1>3 DEF ReadPolicy, TypeOK, Labels
  <2> QED
    BY <1>3, <2>1, <2>2 DEF ReadPolicy, TypeOK
<1>4. CASE Measure(t)
  <2>1. pc' \in [Task -> Labels] /\ measured' \in [Task -> {"none", "ok", "low"}]
    BY <1>4 DEF Measure, TypeOK, Labels
  <2> QED
    BY <1>4, <2>1 DEF Measure, TypeOK
<1>5. CASE ReadFails(t)
  <2>1. EmptyConfig \in Config
    BY DEF EmptyConfig, Config
  <2>2. pc' \in [Task -> Labels] /\ lock' \in Rebuilder \cup {NoTask}
    BY <1>5 DEF ReadFails, TypeOK, Labels
  <2>3. /\ cfg' \in [Task -> Config]
        /\ policy' \in [Task -> {"enforce", "off"}]
        /\ measured' \in [Task -> {"none", "ok", "low"}]
    BY <1>5, <2>1 DEF ReadFails, Forget, TypeOK
  <2> QED
    BY <1>5, <2>2, <2>3 DEF ReadFails, TypeOK
<1> QED
  BY <1>1, <1>2, <1>3, <1>4, <1>5 DEF Reads

\* What a task builds are clients of its own, one per supported server of its snapshot.
LEMMA BuiltType == ASSUME TypeOK, NEW t \in Task PROVE Built(t) \subseteq Client
  BY DEF TypeOK, Config, Built, Client

\* The steps of start() keep the type.
LEMMA StartType == ASSUME TypeOK, Starting \/ ConsumeEnds \/ StartCancel PROVE TypeOK'
<1> USE DEF tasks, maps, gate, teardown, Goto, Task
<1>1. CASE StartBegin
  BY <1>1 DEF StartBegin, TypeOK, Labels
<1>2. ASSUME NEW ok \in BOOLEAN, NEW wl \in {"none", "ok", "low"}, Attach(ok, wl)
      PROVE  /\ pc' \in [Task -> Labels]
             /\ roots' \subseteq Path
             /\ state' \in {"starting", "running", "blocked", "stopped"}
             /\ watchLimit' \in {"none", "ok", "low"}
  BY <1>2 DEF Attach, TypeOK, Labels, Config
<1>3. CASE StartWire
  <2>1. /\ config' \in Config /\ debServers' \subseteq Server
        /\ adapters' \subseteq Client /\ clients' \subseteq Client /\ open' \subseteq Client
    BY <1>3, BuiltType DEF StartWire, Publish, TypeOK, Config
  <2>2. /\ pc' \in [Task -> Labels]
        /\ roots' \subseteq Path
        /\ state' \in {"starting", "running", "blocked", "stopped"}
        /\ watchLimit' \in {"none", "ok", "low"}
    <3>1. CASE cfg[Start].paths = {}
      BY <1>2, <1>3, <3>1 DEF StartWire, Publish
    <3>2. CASE cfg[Start].paths # {}
      BY <1>3, <3>2 DEF StartWire, Publish, TypeOK, Labels
    <3> QED
      BY <3>1, <3>2
  <2> QED
    BY <1>3, <2>1, <2>2 DEF StartWire, Publish, TypeOK
<1>4. CASE StartAttach
  <2>1. GateOk(Start) \in BOOLEAN /\ measured[Start] \in {"none", "ok", "low"}
    BY DEF GateOk, TypeOK
  <2>2. Attach(GateOk(Start), measured[Start])
    BY <1>4 DEF StartAttach
  <2>3. /\ pc' \in [Task -> Labels]
        /\ roots' \subseteq Path
        /\ state' \in {"starting", "running", "blocked", "stopped"}
        /\ watchLimit' \in {"none", "ok", "low"}
    BY <1>2, <2>1, <2>2
  <2> QED
    BY <1>4, <2>3 DEF StartAttach, TypeOK
<1>5. CASE ConsumeEnds
  BY <1>5 DEF ConsumeEnds, TypeOK, Labels
<1>6. CASE StartCancel
  BY <1>6 DEF StartCancel, TypeOK, Labels
<1> QED
  BY <1>1, <1>3, <1>4, <1>5, <1>6 DEF Starting

\* A committed change leads from one database to another.
LEMMA ChangedType == ASSUME NEW d \in Db PROVE Changed(d) \subseteq Db
<1>1. ASSUME NEW e \in SUBSET Server PROVE [d EXCEPT !.enabled = e] \in Db
  BY DEF Db
<1>2. ASSUME NEW f \in SUBSET (Server \X Path) PROVE [d EXCEPT !.folders = f] \in Db
  BY DEF Db
<1>3. ASSUME NEW g \in {"enforce", "off"} PROVE [d EXCEPT !.policy = g] \in Db
  BY DEF Db
<1>4. d.enabled \subseteq Server /\ d.folders \subseteq Server \X Path
  BY DEF Db
<1> QED
  BY <1>1, <1>2, <1>3, <1>4 DEF Changed

\* The steps of a web request keep the type.
LEMMA RebuildType ==
  ASSUME TypeOK, NEW t \in Rebuilder, Commit(t) \/ Recheck(t) \/ Rebuilding(t) PROVE TypeOK'
<1> USE DEF tasks, maps, gate, teardown, Goto, Task
<1>1. CASE Commit(t)
  <2>1. db' \in Db
    BY <1>1, ChangedType DEF Commit, TypeOK
  <2> QED
    BY <1>1, <2>1 DEF Commit, TypeOK, Labels
<1>2. CASE Recheck(t)
  BY <1>2 DEF Recheck, TypeOK, Labels
<1>3. CASE RebuildSkipped(t)
  BY <1>3 DEF RebuildSkipped, TypeOK, Labels
<1>4. CASE RebuildLock(t)
  BY <1>4 DEF RebuildLock, TypeOK, Labels
<1>5. ASSUME NEW ok \in BOOLEAN, NEW wl \in {"none", "ok", "low"}, Swap(t, ok, wl)
      PROVE  /\ pc' \in [Task -> Labels] /\ old' \in [Task -> SUBSET Client]
             /\ config' \in Config /\ debServers' \subseteq Server
             /\ adapters' \subseteq Client /\ clients' \subseteq Client /\ wired' = wired
             /\ roots' \subseteq Path
             /\ state' \in {"starting", "running", "blocked", "stopped"}
             /\ watchLimit' \in {"none", "ok", "low"}
  <2>1. pc' \in [Task -> Labels] /\ old' \in [Task -> SUBSET Client]
    BY <1>5 DEF Swap, Publish, Retire, TypeOK, Labels
  <2>2. config' \in Config /\ debServers' \subseteq Server /\ roots' \subseteq Path
    BY <1>5 DEF Swap, Publish, Retire, TypeOK, Config
  <2> QED
    BY <1>5, <2>1, <2>2, BuiltType DEF Swap, Publish, Retire
<1>6. CASE RebuildBuild(t)
  <2>1. open' \subseteq Client
    BY <1>6, BuiltType DEF RebuildBuild, TypeOK
  <2>2. CASE cfg[t].paths = {}
    BY <1>5, <1>6, <2>1, <2>2 DEF RebuildBuild, TypeOK
  <2>3. CASE cfg[t].paths # {}
    BY <1>6, <2>1, <2>3 DEF RebuildBuild, TypeOK, Labels
  <2> QED
    BY <2>2, <2>3
<1>7. CASE RebuildSwap(t)
  <2>1. GateOk(t) \in BOOLEAN /\ measured[t] \in {"none", "ok", "low"}
    BY DEF GateOk, TypeOK
  <2>2. Swap(t, GateOk(t), measured[t])
    BY <1>7 DEF RebuildSwap
  <2> QED
    BY <1>5, <1>7, <2>1, <2>2 DEF RebuildSwap, TypeOK
<1>8. ASSUME NEW c \in Client, RebuildClose(t, c) PROVE TypeOK'
  BY <1>8 DEF RebuildClose, TypeOK
<1>9. CASE RebuildUnlock(t)
  <2>1. EmptyConfig \in Config
    BY DEF EmptyConfig, Config
  <2>2. /\ cfg' \in [Task -> Config]
        /\ policy' \in [Task -> {"enforce", "off"}]
        /\ measured' \in [Task -> {"none", "ok", "low"}]
    BY <1>9, <2>1 DEF RebuildUnlock, Forget, TypeOK
  <2>3. pc' \in [Task -> Labels]
    BY <1>9 DEF RebuildUnlock, TypeOK, Labels
  <2> QED
    BY <1>9, <2>2, <2>3 DEF RebuildUnlock, TypeOK
<1> QED
  BY <1>1, <1>2, <1>3, <1>4, <1>6, <1>7, <1>8, <1>9 DEF Rebuilding

\* Every step keeps the type.
LEMMA StepType == TypeOK /\ [Next]_vars => TypeOK'
<1> SUFFICES ASSUME TypeOK, [Next]_vars PROVE TypeOK'
  OBVIOUS
<1> USE DEF tasks, maps, gate, teardown
<1>1. CASE AcloseBegin
  BY <1>1 DEF AcloseBegin, TypeOK
<1>2. CASE Closing
  BY <1>2 DEF Closing, AcloseTimers, AcloseClient, AcloseReturn, TypeOK
<1>3. CASE UNCHANGED vars
  BY <1>3 DEF vars, TypeOK
<1> QED
  BY <1>1, <1>2, <1>3, ReadsType, StartType, RebuildType DEF Next

\* The type invariant of the engine.
THEOREM TypeCorrect == Spec => []TypeOK
  BY InitType, StepType, PTL DEF Spec

-----------------------------------------------------------------------------
\* Only the steps of a task move its control.
LEMMA OnlyOwnPc ==
  ASSUME TypeOK, NEW t \in Task, NEW u \in Task, u # t,
         \/ Reads(t) \/ ReadFails(t)
         \/ t = Start /\ (Starting \/ ConsumeEnds \/ StartCancel)
         \/ t \in Rebuilder /\ (Commit(t) \/ Recheck(t) \/ Rebuilding(t))
  PROVE  pc'[u] = pc[u]
<1> USE DEF TypeOK, Goto, maps, tasks
<1>1. CASE Reads(t) \/ ReadFails(t)
  BY <1>1 DEF Reads, ReadServers, ReadFolders, ReadPolicy, Measure, ReadFails
<1>2. CASE t = Start /\ (Starting \/ ConsumeEnds \/ StartCancel)
  BY <1>2 DEF Starting, StartBegin, StartWire, Publish, StartAttach, Attach, ConsumeEnds,
              StartCancel
<1>3. CASE t \in Rebuilder /\ (Commit(t) \/ Recheck(t) \/ Rebuilding(t))
  BY <1>3 DEF Commit, Recheck, Rebuilding, RebuildSkipped, RebuildLock, RebuildBuild,
              RebuildSwap, Swap, Publish, Retire, RebuildClose, RebuildUnlock
<1> QED
  BY <1>1, <1>2, <1>3

\* The lock is taken before the first read of a rebuild and released after its last close.
LEMMA MutexStep == TypeOK /\ Mutex /\ [Next]_vars => Mutex'
<1> SUFFICES ASSUME TypeOK, Mutex, [Next]_vars PROVE Mutex'
  OBVIOUS
<1> USE DEF tasks, Goto, Task
<1>1. ASSUME NEW t \in Task, Reads(t) PROVE Mutex'
  BY <1>1, StartAssumption
  DEF Reads, ReadServers, ReadFolders, ReadPolicy, Measure, Mutex, Holding, TypeOK
<1>2. ASSUME NEW t \in Task, ReadFails(t) PROVE Mutex'
  BY <1>2, StartAssumption, NoTaskAssumption DEF ReadFails, Mutex, Holding, TypeOK
<1>3. CASE Starting \/ ConsumeEnds \/ StartCancel
  <2>1. \A t \in Rebuilder : pc'[t] = pc[t]
    BY <1>3, StartAssumption, OnlyOwnPc
  <2>2. lock' = lock
    BY <1>3 DEF Starting, StartBegin, StartWire, StartAttach, ConsumeEnds, StartCancel
  <2> QED
    BY <2>1, <2>2 DEF Mutex
<1>4. ASSUME NEW t \in Rebuilder, Commit(t) \/ Recheck(t) \/ RebuildSkipped(t) PROVE Mutex'
  BY <1>4 DEF Commit, Recheck, RebuildSkipped, Mutex, Holding, TypeOK
<1>5. ASSUME NEW t \in Rebuilder, RebuildLock(t) PROVE Mutex'
  BY <1>5, NoTaskAssumption DEF RebuildLock, Mutex, Holding, TypeOK
<1>6. ASSUME NEW t \in Rebuilder, RebuildBuild(t) \/ RebuildSwap(t) PROVE Mutex'
  BY <1>6 DEF RebuildBuild, RebuildSwap, Swap, Publish, Retire, Mutex, Holding, TypeOK
<1>7. ASSUME NEW t \in Rebuilder, NEW c \in Client, RebuildClose(t, c) PROVE Mutex'
  BY <1>7 DEF RebuildClose, Mutex
<1>8. ASSUME NEW t \in Rebuilder, RebuildUnlock(t) PROVE Mutex'
  BY <1>8, NoTaskAssumption DEF RebuildUnlock, Mutex, Holding, TypeOK
<1>9. CASE AcloseBegin \/ Closing \/ UNCHANGED vars
  BY <1>9 DEF AcloseBegin, Closing, AcloseTimers,
              AcloseClient, AcloseReturn, vars, Mutex
<1> QED
  BY <1>1, <1>2, <1>3, <1>4, <1>5, <1>6, <1>7, <1>8, <1>9 DEF Next, Rebuilding

\* Wiring is start()'s, once.
LEMMA WiredStep == TypeOK /\ WiredByStart /\ [Next]_vars => WiredByStart'
<1> SUFFICES ASSUME TypeOK, WiredByStart, [Next]_vars PROVE WiredByStart'
  OBVIOUS
<1> USE StartAssumption DEF tasks, maps, Goto, Task, Holding
<1>1. ASSUME NEW t \in Task, Reads(t) \/ ReadFails(t) PROVE WiredByStart'
  BY <1>1 DEF Reads, ReadServers, ReadFolders, ReadPolicy, Measure, ReadFails, WiredByStart, TypeOK
<1>2. CASE StartBegin \/ StartAttach \/ ConsumeEnds \/ StartCancel
  BY <1>2 DEF StartBegin, StartAttach, Attach, ConsumeEnds, StartCancel, WiredByStart, TypeOK, Ended
<1>3. CASE StartWire
  BY <1>3 DEF StartWire, Publish, Attach, WiredByStart, TypeOK
<1>4. ASSUME NEW t \in Rebuilder, Commit(t) \/ Recheck(t) \/ RebuildSkipped(t) \/ RebuildLock(t)
      PROVE WiredByStart'
  BY <1>4 DEF Commit, Recheck, RebuildSkipped, RebuildLock, WiredByStart, TypeOK
<1>5. ASSUME NEW t \in Rebuilder, RebuildBuild(t) \/ RebuildSwap(t) PROVE WiredByStart'
  BY <1>5 DEF RebuildBuild, RebuildSwap, Swap, Publish, Retire, WiredByStart, TypeOK
<1>6. ASSUME NEW t \in Rebuilder, RebuildUnlock(t) \/ \E c \in Client : RebuildClose(t, c)
      PROVE WiredByStart'
  BY <1>6 DEF RebuildUnlock, RebuildClose, WiredByStart, TypeOK
<1>7. CASE AcloseBegin \/ Closing \/ UNCHANGED vars
  BY <1>7 DEF AcloseBegin, Closing, AcloseTimers,
              AcloseClient, AcloseReturn, vars, WiredByStart
<1> QED
  BY <1>1, <1>2, <1>3, <1>4, <1>5, <1>6, <1>7 DEF Next, Rebuilding, Starting

-----------------------------------------------------------------------------
\* The servers of freshly built clients are those of the snapshot that are supported.
LEMMA BuiltServers == ASSUME NEW t PROVE ServersOf(Built(t)) = cfg[t].servers \ Unsupported
<1> DEFINE S == cfg[t].servers \ Unsupported
<1>1. ASSUME NEW c \in {t} \X S PROVE c[2] \in S
  BY <1>1
<1>2. ASSUME NEW s \in S PROVE \E c \in {t} \X S : c[2] = s
  <2> WITNESS <<t, s>> \in {t} \X S
  <2> QED
    OBVIOUS
<1> HIDE DEF S
<1>3. {c[2] : c \in {t} \X S} = S
  BY <1>1, <1>2
<1> QED
  BY <1>3 DEF ServersOf, Built, S

\* All three maps are replaced in one turn, from one snapshot.
LEMMA MapsStep == ThreeMapsAgree /\ [Next]_vars => ThreeMapsAgree'
<1> SUFFICES ASSUME ThreeMapsAgree, [Next]_vars PROVE ThreeMapsAgree'
  OBVIOUS
<1> USE DEF maps
<1>1. CASE StartWire
  BY <1>1, BuiltServers DEF StartWire, Publish, ThreeMapsAgree, ServersOf
<1>2. ASSUME NEW t \in Rebuilder, RebuildBuild(t) \/ RebuildSwap(t) PROVE ThreeMapsAgree'
  BY <1>2, BuiltServers
     DEF RebuildBuild, RebuildSwap, Swap, Publish, Retire, ThreeMapsAgree, ServersOf
<1>3. CASE UNCHANGED <<config, debServers, adapters, wired>>
  BY <1>3 DEF ThreeMapsAgree, ServersOf
<1>4. \/ StartWire
      \/ \E t \in Rebuilder : RebuildBuild(t) \/ RebuildSwap(t)
      \/ UNCHANGED <<config, debServers, adapters, wired>>
  BY DEF Next, vars, Reads, ReadServers, ReadFolders, ReadPolicy, Measure, ReadFails,
         Starting, StartBegin, StartAttach, ConsumeEnds, StartCancel,
         Commit, Recheck, Rebuilding, RebuildSkipped, RebuildLock, RebuildClose, RebuildUnlock,
         AcloseBegin, Closing, AcloseTimers, AcloseClient, AcloseReturn
<1> QED
  BY <1>1, <1>2, <1>3, <1>4

\* The server-keyed maps of the pipeline never disagree.
THEOREM MapsAgree == Spec => []ThreeMapsAgree
<1>1. Init => ThreeMapsAgree
  BY DEF Init, ThreeMapsAgree
<1> QED
  BY <1>1, MapsStep, PTL DEF Spec

-----------------------------------------------------------------------------
\* What the ownership argument rests on.
Base == TypeOK /\ Mutex /\ WiredByStart

\* While a rebuild holds the lock no other one is between building and closing.
LEMMA Alone ==
  ASSUME Base, NEW t \in Rebuilder, NEW u \in Rebuilder, pc[t] \in Holding, u # t
  PROVE  pc[u] \notin Holding
  BY DEF Base, Mutex

\* The swap hands the engine's clients to the rebuild that replaced them.
LEMMA SwapOwnership ==
  ASSUME Base, Ownership, NEW t \in Rebuilder, RebuildBuild(t) \/ RebuildSwap(t)
  PROVE  Ownership'
<1> USE DEF Goto, teardown, maps
<1>1. t \in Task /\ t # Start /\ pc[t] \in Holding \ {"close"} /\ pc[t] # "done"
  BY StartAssumption DEF Task, RebuildBuild, RebuildSwap, Holding
<1>2. \A u \in Rebuilder : u # t => pc[u] # "close"
  BY <1>1, Alone DEF Holding
<1>3. CASE pc'[t] # "close"
  <2>1. /\ pc' = [pc EXCEPT ![t] = "policy"]
        /\ UNCHANGED <<old, adapters, clients, closer>>
    BY <1>3, <1>1 DEF RebuildBuild, RebuildSwap, Swap, Publish, Retire, Base, TypeOK
  <2> QED
    BY <2>1, <1>1, <1>2 DEF Ownership, Base, TypeOK
<1>4. CASE pc'[t] = "close"
  <2>1. /\ pc' = [pc EXCEPT ![t] = "close"]
        /\ old' = [old EXCEPT ![t] = clients]
        /\ adapters' = Built(t) /\ clients' = Built(t) /\ closer' = closer
    BY <1>4, <1>1 DEF RebuildBuild, RebuildSwap, Swap, Publish, Retire, Base, TypeOK
  <2>2. \A c \in Built(t) : c[1] = t
    BY DEF Built
  <2>3. closer = "idle" => \A c \in clients : c[1] # t
    BY <1>1 DEF Ownership
  <2> QED
    BY <2>1, <2>2, <2>3, <1>1, <1>2 DEF Ownership, Base, TypeOK
<1> QED
  BY <1>3, <1>4

\* Every step keeps clients with their owners.
LEMMA OwnershipStep == Base /\ Ownership /\ [Next]_vars => Ownership'
<1> SUFFICES ASSUME Base, Ownership, [Next]_vars PROVE Ownership'
  OBVIOUS
<1> USE DEF Goto, teardown, maps, tasks
<1>1. ASSUME NEW t \in Task, Reads(t) \/ ReadFails(t) PROVE Ownership'
  <2>1. UNCHANGED <<old, adapters, clients, closer>>
    BY <1>1 DEF Reads, ReadServers, ReadFolders, ReadPolicy, Measure, ReadFails
  <2>2. pc[t] \notin {"close", "done"} /\ pc'[t] # "close"
    BY <1>1 DEF Reads, ReadServers, ReadFolders, ReadPolicy, Measure, ReadFails, Base, TypeOK
  <2>3. \A u \in Task : u # t => pc'[u] = pc[u]
    BY <1>1, OnlyOwnPc DEF Base
  <2> QED
    BY <2>1, <2>2, <2>3 DEF Ownership, Base, TypeOK, Client, Task
<1>2. CASE StartBegin \/ StartAttach \/ ConsumeEnds \/ StartCancel
  <2>1. UNCHANGED <<old, adapters, clients, closer>>
    BY <1>2 DEF StartBegin, StartAttach, ConsumeEnds, StartCancel
  <2>2. \A u \in Task : u # Start => pc'[u] = pc[u]
    BY <1>2, OnlyOwnPc DEF Base, Starting, Task
  <2> QED
    BY <2>1, <2>2, StartAssumption DEF Ownership, Base, TypeOK, Client, Task
<1>3. CASE StartWire
  <2>1. old' = old /\ closer' = closer /\ adapters' = Built(Start) /\ clients' = Built(Start)
    BY <1>3 DEF StartWire, Publish
  <2>2. \A u \in Task : u # Start => pc'[u] = pc[u]
    BY <1>3, OnlyOwnPc DEF Base, Starting, Task
  <2>3. \A u \in Rebuilder : pc[u] # "close"
    BY <1>3 DEF StartWire, Publish, Base, WiredByStart, Holding
  <2>4. \A c \in Built(Start) : c[1] = Start
    BY DEF Built
  <2> QED
    BY <2>1, <2>2, <2>3, <2>4, StartAssumption DEF Ownership, Task
<1>4. ASSUME NEW t \in Rebuilder, Commit(t) \/ Recheck(t) \/ RebuildSkipped(t) \/ RebuildLock(t)
      PROVE Ownership'
  <2>1. UNCHANGED <<old, adapters, clients, closer>>
    BY <1>4 DEF Commit, Recheck, RebuildSkipped, RebuildLock
  <2>2. pc[t] \notin {"close", "done"} /\ pc'[t] # "close"
    BY <1>4 DEF Commit, Recheck, RebuildSkipped, RebuildLock, Base, TypeOK, Task
  <2>3. \A u \in Task : u # t => pc'[u] = pc[u]
    BY <1>4, OnlyOwnPc DEF Base, Rebuilding, Task
  <2> QED
    BY <2>1, <2>2, <2>3 DEF Ownership, Base, TypeOK, Client, Task
<1>5. ASSUME NEW t \in Rebuilder, NEW c \in Client, RebuildClose(t, c) PROVE Ownership'
  BY <1>5 DEF RebuildClose, Ownership, Base, TypeOK, Task
<1>6. ASSUME NEW t \in Rebuilder, RebuildUnlock(t) PROVE Ownership'
  <2>1. UNCHANGED <<old, adapters, clients, closer>> /\ old[t] = {}
    BY <1>6 DEF RebuildUnlock
  <2>2. pc' = [pc EXCEPT ![t] = "done"] /\ pc[t] = "close"
    BY <1>6 DEF RebuildUnlock
  <2> QED
    BY <2>1, <2>2 DEF Ownership, Base, TypeOK, Client, Task
<1>7. CASE UNCHANGED vars
  BY <1>7 DEF vars, Ownership
<1>8. CASE AcloseBegin \/ Closing
  BY <1>8 DEF AcloseBegin, Closing, AcloseTimers, AcloseClient, AcloseReturn, Ownership
<1> QED
  BY <1>1, <1>2, <1>3, <1>4, <1>5, <1>6, <1>7, <1>8, SwapOwnership
  DEF Next, Rebuilding, Starting

-----------------------------------------------------------------------------
\* A client somebody still answers for: c \in Held, pointwise.
Holds(c) == \/ c \in clients
            \/ \E t \in Rebuilder : c \in old[t]
            \/ \E t \in Rebuilder : HasBuilt(t) /\ c \in Built(t)

\* Until teardown a held client is open, and an open one is held or abandoned.
OpenIsHeld == closer = "idle" => \A c \in Client : /\ Holds(c) => c \in open
                                                   /\ c \in open => Holds(c) \/ Abandoned(c)

\* The pointwise form says what NoClientLeak says.
LEMMA HeldIsEnough == Base /\ Ownership /\ OpenIsHeld => NoClientLeak
<1> SUFFICES ASSUME Base, Ownership, OpenIsHeld, closer = "idle"
             PROVE  /\ adapters \subseteq open /\ Held \subseteq open
                    /\ \A c \in open \ Held : Abandoned(c)
  BY DEF NoClientLeak
<1> DEFINE Olds == UNION {old[t] : t \in Rebuilder}
           News == UNION {Built(t) : t \in {u \in Rebuilder : HasBuilt(u)}}
<1>1. \A c : c \in Olds <=> \E t \in Rebuilder : c \in old[t]
  OBVIOUS
<1>2. \A c : c \in News <=> \E t \in Rebuilder : HasBuilt(t) /\ c \in Built(t)
  OBVIOUS
<1>3. Olds \subseteq Client /\ clients \subseteq Client /\ open \subseteq Client
  BY DEF Base, TypeOK, Task
<1>4. News \subseteq Client
  BY <1>2, BuiltType DEF Base, Task
<1>5. Held = clients \cup Olds \cup News
  BY DEF Held
<1> HIDE DEF Olds, News
<1>6. \A c : c \in Held <=> c \in Client /\ Holds(c)
  BY <1>1, <1>2, <1>3, <1>4, <1>5 DEF Holds
<1>7. Held \subseteq open /\ \A c \in open \ Held : Abandoned(c)
  BY <1>3, <1>6 DEF OpenIsHeld
<1>8. adapters \subseteq Held
  BY <1>5 DEF Ownership
<1> QED
  BY <1>7, <1>8

\* A rebuild that failed stays failed, so what it abandoned stays abandoned.
LEMMA FailedStays ==
  ASSUME Base, [Next]_vars, NEW c, Abandoned(c)
  PROVE  Abandoned(c)'
<1> DEFINE u == c[1]
<1>1. u \in Rebuilder /\ u \in Task /\ u # Start /\ pc[u] = "failed"
  BY StartAssumption DEF Abandoned, Task
<1> SUFFICES pc'[u] = "failed"
  BY <1>1 DEF Abandoned
<1> HIDE DEF u
<1>2. ASSUME NEW t \in Task, Reads(t) \/ ReadFails(t) PROVE pc'[u] = "failed"
  <2>1. t # u
    BY <1>1, <1>2 DEF Reads, ReadServers, ReadFolders, ReadPolicy, Measure, ReadFails
  <2> QED
    BY <1>1, <1>2, <2>1, OnlyOwnPc DEF Base
<1>3. CASE Starting \/ ConsumeEnds \/ StartCancel
  BY <1>1, <1>3, OnlyOwnPc DEF Base, Task
<1>4. ASSUME NEW t \in Rebuilder, Commit(t) \/ Recheck(t) \/ Rebuilding(t) PROVE pc'[u] = "failed"
  <2>1. CASE \E d \in Client : RebuildClose(t, d)
    BY <1>1, <2>1 DEF RebuildClose
  <2>2. CASE ~\E d \in Client : RebuildClose(t, d)
    <3>1. t # u
      BY <1>1, <1>4, <2>2 DEF Commit, Recheck, Rebuilding, RebuildSkipped, RebuildLock,
                              RebuildBuild, RebuildSwap, RebuildUnlock
    <3>2. t \in Task
      BY DEF Task
    <3> QED
      BY <1>1, <1>4, <3>1, <3>2, OnlyOwnPc DEF Base
  <2> QED
    BY <2>1, <2>2
<1>5. CASE AcloseBegin \/ Closing \/ UNCHANGED vars
  BY <1>1, <1>5 DEF AcloseBegin, Closing, AcloseTimers, AcloseClient, AcloseReturn, tasks, vars
<1> QED
  BY <1>2, <1>3, <1>4, <1>5 DEF Next

\* A step that moves no client between its holders.
LEMMA HoldersKept ==
  ASSUME Base, OpenIsHeld, [Next]_vars, UNCHANGED <<open, clients, old, closer>>,
         \A u \in Rebuilder : /\ HasBuilt(u)' <=> HasBuilt(u)
                              /\ HasBuilt(u) => Built(u)' = Built(u)
  PROVE  OpenIsHeld'
  BY FailedStays DEF OpenIsHeld, Holds

\* Before the swap a rebuild adds the clients it builds; at the swap they become the
\* engine's and the engine's become its own to close.
LEMMA SwapHeld ==
  ASSUME Base, Ownership, OpenIsHeld, NEW t \in Rebuilder, RebuildBuild(t) \/ RebuildSwap(t)
  PROVE  OpenIsHeld'
<1> SUFFICES ASSUME closer = "idle", NEW c \in Client
             PROVE  /\ Holds(c)' => c \in open'
                    /\ c \in open' => Holds(c)' \/ Abandoned(c)'
  BY DEF OpenIsHeld, RebuildBuild, RebuildSwap, teardown
<1> USE DEF Goto, maps
<1>1. t \in Task /\ pc[t] \in {"built", "gated"} /\ old[t] = {}
  BY DEF Task, RebuildBuild, RebuildSwap, Ownership
<1>2. \A u \in Rebuilder : u # t => ~HasBuilt(u) /\ old[u] = {}
  BY <1>1, Alone DEF Holding, HasBuilt, Ownership
<1>3. /\ c \in clients \/ (HasBuilt(t) /\ c \in Built(t)) => c \in open
      /\ c \in open => c \in clients \/ (HasBuilt(t) /\ c \in Built(t)) \/ Abandoned(c)
  BY <1>1, <1>2 DEF OpenIsHeld, Holds
<1>4. \A u \in Rebuilder : u # t => pc'[u] = pc[u]
  BY OnlyOwnPc DEF Base, Rebuilding, Task
<1>5. \A u \in Rebuilder : u # t => ~HasBuilt(u)'
  BY <1>2, <1>4 DEF HasBuilt
<1>6. Built(t)' = Built(t)
  BY DEF Built, RebuildBuild, RebuildSwap
<1>7. Abandoned(c) => Abandoned(c)'
  BY FailedStays DEF Next, Rebuilding
<1>8. /\ c \in clients \/ c \in Built(t) => c \in open'
      /\ c \in open' => c \in clients \/ c \in Built(t) \/ Abandoned(c)'
  <2>1. CASE RebuildBuild(t)
    BY <2>1, <1>3, <1>7 DEF RebuildBuild, HasBuilt
  <2>2. CASE RebuildSwap(t)
    BY <2>2, <1>3, <1>7 DEF RebuildSwap, HasBuilt
  <2> QED
    BY <2>1, <2>2
<1>9. CASE pc'[t] = "policy"
  <2>1. UNCHANGED <<old, clients>> /\ HasBuilt(t)'
    BY <1>9, <1>1 DEF RebuildBuild, RebuildSwap, Swap, Publish, Retire, HasBuilt, Base, TypeOK
  <2> QED
    BY <2>1, <1>1, <1>2, <1>5, <1>6, <1>8 DEF Holds
<1>10. CASE pc'[t] = "close"
  <2>1. /\ old' = [old EXCEPT ![t] = clients]
        /\ clients' = Built(t) /\ ~HasBuilt(t)'
    BY <1>10, <1>1 DEF RebuildBuild, RebuildSwap, Swap, Publish, Retire, HasBuilt, Base, TypeOK
  <2>2. old'[t] = clients /\ \A u \in Rebuilder : u # t => old'[u] = {}
    BY <2>1, <1>1, <1>2 DEF Base, TypeOK, Task
  <2> QED
    BY <2>1, <2>2, <1>5, <1>8 DEF Holds
<1>11. pc'[t] \in {"policy", "close"}
  BY <1>1 DEF RebuildBuild, RebuildSwap, Swap, Publish, Retire, Base, TypeOK
<1> QED
  BY <1>9, <1>10, <1>11

\* A read that fails: what the rebuild had built is abandoned.
LEMMA FailHeld ==
  ASSUME Base, OpenIsHeld, NEW t \in Task, ReadFails(t)
  PROVE  OpenIsHeld'
<1> SUFFICES ASSUME closer = "idle", NEW c \in Client
             PROVE  /\ Holds(c)' => c \in open'
                    /\ c \in open' => Holds(c)' \/ Abandoned(c)'
  BY DEF OpenIsHeld, ReadFails, teardown
<1>1. UNCHANGED <<open, clients, old>> /\ pc' = [pc EXCEPT ![t] = "failed"]
  BY DEF ReadFails, Goto, maps
<1>2. \A u \in Rebuilder : u # t => /\ HasBuilt(u)' <=> HasBuilt(u)
                                    /\ Built(u)' = Built(u)
  BY <1>1 DEF ReadFails, Forget, HasBuilt, Built, Base, TypeOK, Task
<1>3. pc'[t] = "failed" /\ ~HasBuilt(t)'
  BY <1>1 DEF HasBuilt, Base, TypeOK
<1>4. t \in Rebuilder /\ c \in Built(t) => Abandoned(c)'
  BY <1>3 DEF Built, Abandoned
<1>5. HasBuilt(t) => t \in Rebuilder
  BY DEF HasBuilt
<1>6. Abandoned(c) => Abandoned(c)'
  BY FailedStays DEF Next
<1>7. Holds(c)' => Holds(c)
  BY <1>1, <1>2, <1>3 DEF Holds
<1>8. Holds(c) => Holds(c)' \/ Abandoned(c)'
  BY <1>1, <1>2, <1>4, <1>5 DEF Holds
<1> QED
  BY <1>1, <1>6, <1>7, <1>8 DEF OpenIsHeld

\* Every step opens and closes only clients that change hands.
LEMMA HeldStep == Base /\ Ownership /\ OpenIsHeld /\ [Next]_vars => OpenIsHeld'
<1> SUFFICES ASSUME Base, Ownership, OpenIsHeld, [Next]_vars PROVE OpenIsHeld'
  OBVIOUS
<1> USE DEF Goto, maps, tasks, teardown
<1>1. ASSUME NEW t \in Task, Reads(t) PROVE OpenIsHeld'
  <2>1. UNCHANGED <<open, clients, old, closer>>
    BY <1>1 DEF Reads, ReadServers, ReadFolders, ReadPolicy, Measure
  <2>2. \A u \in Rebuilder : u # t => pc'[u] = pc[u] /\ cfg'[u] = cfg[u]
    BY <1>1, OnlyOwnPc
    DEF Reads, ReadServers, ReadFolders, ReadPolicy, Measure, Base, TypeOK, Task
  <2>3. t \in Rebuilder => /\ HasBuilt(t)' <=> HasBuilt(t)
                           /\ HasBuilt(t) => cfg'[t] = cfg[t]
    BY <1>1 DEF Reads, ReadServers, ReadFolders, ReadPolicy, Measure, Base, TypeOK, Task, HasBuilt
  <2>4. \A u \in Rebuilder : /\ HasBuilt(u)' <=> HasBuilt(u)
                             /\ HasBuilt(u) => Built(u)' = Built(u)
    BY <2>2, <2>3 DEF HasBuilt, Built
  <2> QED
    BY <2>1, <2>4, HoldersKept
<1>2. CASE StartBegin \/ StartAttach \/ ConsumeEnds \/ StartCancel
  <2>1. UNCHANGED <<open, clients, old, closer, cfg>>
    BY <1>2 DEF StartBegin, StartAttach, ConsumeEnds, StartCancel
  <2>2. \A u \in Rebuilder : pc'[u] = pc[u]
    BY <1>2, OnlyOwnPc, StartAssumption DEF Base, Starting, Task
  <2> QED
    BY <2>1, <2>2, HoldersKept DEF HasBuilt, Built
<1>3. CASE StartWire
  <2>1. /\ open' = open \cup Built(Start) /\ clients' = Built(Start)
        /\ UNCHANGED <<old, closer, cfg>>
    BY <1>3 DEF StartWire, Publish
  <2>2. \A u \in Rebuilder : pc'[u] = pc[u]
    BY <1>3, OnlyOwnPc, StartAssumption DEF Base, Starting, Task
  <2>3. clients = {}
    BY <1>3 DEF StartWire, Publish, Base, WiredByStart
  <2>4. \A u \in Rebuilder : (HasBuilt(u)' <=> HasBuilt(u)) /\ Built(u)' = Built(u)
    BY <2>1, <2>2 DEF HasBuilt, Built
  <2> QED
    BY <2>1, <2>3, <2>4, FailedStays DEF OpenIsHeld, Holds
<1>4. ASSUME NEW t \in Rebuilder, Commit(t) \/ Recheck(t) \/ RebuildSkipped(t) \/ RebuildLock(t)
      PROVE OpenIsHeld'
  <2>1. UNCHANGED <<open, clients, old, closer, cfg>>
    BY <1>4 DEF Commit, Recheck, RebuildSkipped, RebuildLock
  <2>2. ~HasBuilt(t) /\ ~HasBuilt(t)'
    BY <1>4 DEF Commit, Recheck, RebuildSkipped, RebuildLock, HasBuilt, Base, TypeOK, Task
  <2>3. \A u \in Rebuilder : u # t => pc'[u] = pc[u]
    BY <1>4, OnlyOwnPc DEF Base, Rebuilding, Task
  <2> QED
    BY <2>1, <2>2, <2>3, HoldersKept DEF HasBuilt, Built
<1>5. ASSUME NEW t \in Rebuilder, NEW d \in Client, RebuildClose(t, d) PROVE OpenIsHeld'
  <2> SUFFICES ASSUME closer = "idle", NEW c \in Client
               PROVE  /\ Holds(c)' => c \in open'
                      /\ c \in open' => Holds(c)' \/ Abandoned(c)'
    BY <1>5 DEF OpenIsHeld, RebuildClose
  <2>1. \A u \in Rebuilder : ~HasBuilt(u) /\ ~HasBuilt(u)' /\ (u # t => old[u] = {})
    BY <1>5, Alone DEF RebuildClose, HasBuilt, Holding, Ownership
  <2>2. d \notin clients /\ clients' = clients
    BY <1>5 DEF RebuildClose, Ownership
  <2>3. old'[t] = old[t] \ {d} /\ \A u \in Rebuilder : u # t => old'[u] = old[u]
    BY <1>5 DEF RebuildClose, Base, TypeOK, Task
  <2>4. /\ c \in clients \/ c \in old[t] => c \in open
        /\ c \in open => c \in clients \/ c \in old[t] \/ Abandoned(c)'
    BY <2>1, FailedStays DEF OpenIsHeld, Holds
  <2>5. open' = open \ {d}
    BY <1>5 DEF RebuildClose
  <2> QED
    BY <2>1, <2>2, <2>3, <2>4, <2>5 DEF Holds
<1>6. ASSUME NEW t \in Rebuilder, RebuildUnlock(t) PROVE OpenIsHeld'
  <2>1. UNCHANGED <<open, clients, old, closer>>
    BY <1>6 DEF RebuildUnlock
  <2>2. ~HasBuilt(t) /\ ~HasBuilt(t)'
    BY <1>6 DEF RebuildUnlock, HasBuilt, Base, TypeOK, Task
  <2>3. \A u \in Rebuilder : u # t => pc'[u] = pc[u] /\ cfg'[u] = cfg[u]
    BY <1>6 DEF RebuildUnlock, Forget, Base, TypeOK, Task
  <2> QED
    BY <2>1, <2>2, <2>3, HoldersKept DEF HasBuilt, Built
<1>7. CASE UNCHANGED vars
  BY <1>7, HoldersKept DEF vars, HasBuilt, Built
<1>8. CASE AcloseBegin \/ Closing
  BY <1>8 DEF AcloseBegin, Closing, AcloseTimers, AcloseClient, AcloseReturn, OpenIsHeld
<1> QED
  BY <1>1, <1>2, <1>3, <1>4, <1>5, <1>6, <1>7, <1>8, FailHeld, SwapHeld
  DEF Next, Rebuilding, Starting

\* What the reachable states share.
Accounted == Base /\ Ownership /\ OpenIsHeld

LEMMA InitAccounted == Init => Accounted
<1> SUFFICES ASSUME Init PROVE Accounted
  OBVIOUS
<1>1. Mutex
  BY NoTaskAssumption DEF Init, Mutex, Holding, Task
<1>2. WiredByStart /\ Ownership
  BY DEF Init, WiredByStart, Ownership, Holding, Task
<1>3. OpenIsHeld
  BY DEF Init, OpenIsHeld, Holds, HasBuilt, Task
<1> QED
  BY <1>1, <1>2, <1>3, InitType DEF Accounted, Base

LEMMA StepAccounted == Accounted /\ [Next]_vars => Accounted'
<1>1. Base /\ [Next]_vars => Base'
  BY StepType, MutexStep, WiredStep DEF Base
<1> QED
  BY <1>1, OwnershipStep, HeldStep DEF Accounted

LEMMA Reachable == Spec => []Accounted
BY InitAccounted, StepAccounted, PTL DEF Spec

\* No client is lost: until teardown, open clients are the engine's, a rebuild's to swap in
\* or a rebuild's to close, and every adapter's client is open.
THEOREM NoLeak == Spec => []NoClientLeak
<1>1. Accounted => NoClientLeak
  BY HeldIsEnough DEF Accounted
<1> QED
  BY <1>1, Reachable, PTL

-----------------------------------------------------------------------------
(* Requests that arrive once the engine is in its loop are never lost.  The three theorems *)
(* below assume ~EarlyWrites; without it they do not hold (run engine_early_roots).        *)

\* The labels of start() before its loop, and of a snapshot under way.
Early == {"idle", "servers", "folders", "built", "policy", "measure", "gated"}
Reading == {"folders", "built", "policy", "measure", "gated"}
Gating == {"policy", "measure", "gated"}

\* What the database says now, and whether the gate lets the engine watch it.
Current == [servers |-> db.enabled,
            paths |-> {p \in Path : \E s \in db.enabled : <<s, p>> \in db.folders}]
MayWatch == Current.paths = {} \/ db.policy = "off" \/ Cardinality(Current.paths) <= limit

\* What a task has read so far is what the database and the host hold now.
Snapshot(t) ==
  /\ pc[t] = "folders" => cfg[t].servers = db.enabled
  /\ pc[t] \in {"built", "policy", "measure", "gated"} => cfg[t] = Current
  /\ pc[t] \in Gating => cfg[t].paths # {}
  /\ pc[t] \in {"measure", "gated"} => policy[t] = db.policy
  /\ pc[t] = "gated" => (measured[t] = "ok" <=> Cardinality(Current.paths) <= limit)

\* A request that has yet to read anything, or whose rebuild failed.
Unread == \E t \in Rebuilder : pc[t] \in {"committed", "servers", "failed"}

\* The engine runs what the database holds.
Settled == /\ config = Current
           /\ closer = "idle" => (state = "running" <=> MayWatch)

\* Requests find the engine wired.
LateWrites ==
  /\ pc[Start] \in Early => \A t \in Rebuilder : pc[t] = "idle"
  /\ pc[Start] = "loop" => \A t \in Rebuilder : pc[t] # "skipped"

\* Unless a request will yet read everything, the snapshots under way are current, and so
\* is the engine when none is.
UpToDate ==
  /\ pc[Start] \in Early => Snapshot(Start)
  /\ pc[Start] \in Gating => config = cfg[Start]
  /\ pc[Start] = "loop" /\ ~Unread =>
       /\ \A t \in Rebuilder : Snapshot(t)
       /\ (\A t \in Rebuilder : pc[t] \notin Reading) => Settled

\* No request is sent on the way to the loop, so none is skipped once it is reached.
LEMMA LateStep == ~EarlyWrites /\ Base /\ LateWrites /\ [Next]_vars => LateWrites'
<1> SUFFICES ASSUME ~EarlyWrites, Base, LateWrites, [Next]_vars PROVE LateWrites'
  OBVIOUS
<1> USE StartAssumption DEF tasks, maps, Goto, Task, Early
<1>1. ASSUME NEW t \in Task, Reads(t) \/ ReadFails(t) PROVE LateWrites'
  BY <1>1 DEF Reads, ReadServers, ReadFolders, ReadPolicy, Measure, ReadFails, LateWrites,
              Base, TypeOK
<1>2. CASE StartBegin \/ StartAttach \/ ConsumeEnds \/ StartCancel
  BY <1>2 DEF StartBegin, StartAttach, Attach, ConsumeEnds, StartCancel, Ended, LateWrites,
              Base, TypeOK
<1>3. CASE StartWire
  BY <1>3 DEF StartWire, Publish, Attach, LateWrites, Base, TypeOK
<1>4. ASSUME NEW t \in Rebuilder, Commit(t) \/ Recheck(t) PROVE LateWrites'
  BY <1>4 DEF Commit, Recheck, LateWrites, Base, TypeOK, WiredByStart, Ended
<1>5. ASSUME NEW t \in Rebuilder, RebuildSkipped(t) \/ RebuildLock(t) PROVE LateWrites'
  BY <1>5 DEF RebuildSkipped, RebuildLock, LateWrites, Base, TypeOK, WiredByStart
<1>6. ASSUME NEW t \in Rebuilder, RebuildBuild(t) \/ RebuildSwap(t) PROVE LateWrites'
  BY <1>6 DEF RebuildBuild, RebuildSwap, Swap, Publish, Retire, LateWrites, Base, TypeOK
<1>7. ASSUME NEW t \in Rebuilder, RebuildUnlock(t) \/ \E c \in Client : RebuildClose(t, c)
      PROVE LateWrites'
  BY <1>7 DEF RebuildUnlock, RebuildClose, LateWrites, Base, TypeOK
<1>8. CASE AcloseBegin \/ Closing \/ UNCHANGED vars
  BY <1>8 DEF AcloseBegin, Closing, AcloseTimers,
              AcloseClient, AcloseReturn, vars, LateWrites
<1> QED
  BY <1>1, <1>2, <1>3, <1>4, <1>5, <1>6, <1>7, <1>8 DEF Next, Rebuilding, Starting

\* Reading keeps a snapshot current as long as nothing is committed.
LEMMA SnapshotRead ==
  ASSUME TypeOK, NEW t \in Task, Snapshot(t), Reads(t) PROVE Snapshot(t)'
<1> USE DEF Snapshot, Gating, Goto
<1>0. Current' = Current
  BY DEF Current, Reads, ReadServers, ReadFolders, ReadPolicy, Measure
<1>1. CASE ReadServers(t)
  BY <1>1 DEF ReadServers, TypeOK
<1>2. CASE ReadFolders(t)
  BY <1>2 DEF ReadFolders, TypeOK, Config, Current
<1>3. CASE ReadPolicy(t)
  BY <1>0, <1>3 DEF ReadPolicy, TypeOK
<1>4. CASE Measure(t)
  BY <1>0, <1>4 DEF Measure, TypeOK
<1> QED
  BY <1>1, <1>2, <1>3, <1>4 DEF Reads

\* A snapshot stays current while neither its task nor the configuration moves.
LEMMA SnapshotKept ==
  ASSUME NEW t \in Task, Snapshot(t), UNCHANGED <<db, limit>>,
         pc'[t] = pc[t], cfg'[t] = cfg[t], policy'[t] = policy[t], measured'[t] = measured[t]
  PROVE  Snapshot(t)'
  BY DEF Snapshot, Current

\* A gate that was evaluated on a current snapshot decides as it would now.
LEMMA GateDecides ==
  ASSUME NEW t \in Task, Snapshot(t), pc[t] = "gated" PROVE GateOk(t) <=> MayWatch
  BY DEF Snapshot, GateOk, MayWatch, Gating

\* The reads of one task leave the others' alone, and the pipeline.
LEMMA ReadsUpToDate ==
  ASSUME Base, LateWrites, UpToDate, NEW t \in Task, Reads(t) PROVE UpToDate'
<1> USE StartAssumption DEF Goto, maps, gate, teardown, Task
<1>1. UNCHANGED <<db, limit, config, closer, state>>
  BY DEF Reads, ReadServers, ReadFolders, ReadPolicy, Measure
<1>2. \A u \in Task : u # t => /\ pc'[u] = pc[u] /\ cfg'[u] = cfg[u]
                              /\ policy'[u] = policy[u] /\ measured'[u] = measured[u]
  BY OnlyOwnPc DEF Reads, ReadServers, ReadFolders, ReadPolicy, Measure, Base, TypeOK
<1>3. pc[t] \in {"servers", "folders", "policy", "measure"} /\ pc'[t] \in Reading
  BY DEF Reads, ReadServers, ReadFolders, ReadPolicy, Measure, Reading, Base, TypeOK
<1>4. CASE t = Start
  <2>1. Snapshot(Start)'
    BY <1>3, <1>4, SnapshotRead DEF UpToDate, Early, Base
  <2>2. pc'[Start] \in Gating => config' = cfg'[Start]
    BY <1>1, <1>4 DEF UpToDate, Gating, Reads, ReadServers, ReadFolders, ReadPolicy, Measure,
                      Base, TypeOK
  <2>3. pc'[Start] # "loop"
    BY <1>3, <1>4 DEF Reading
  <2> QED
    BY <2>1, <2>2, <2>3 DEF UpToDate
<1>5. CASE t \in Rebuilder
  <2>1. pc[Start] \notin Early /\ pc'[Start] = pc[Start]
    BY <1>2, <1>3, <1>5 DEF LateWrites
  <2>2. ASSUME pc[Start] = "loop", ~Unread', NEW u \in Rebuilder PROVE Snapshot(u)'
    <3>1. CASE ReadServers(t)
      <4>1. u # t => pc'[u] \notin Reading
        BY <1>2, <1>5, <3>1, Alone DEF ReadServers, Holding, Reading
      <4>2. u = t => Snapshot(u)'
        BY <1>5, <3>1 DEF ReadServers, Snapshot, Gating, Base, TypeOK
      <4> QED
        BY <4>1, <4>2 DEF Snapshot, Reading, Gating
    <3>2. CASE ~ReadServers(t)
      <4>1. pc[t] \notin {"committed", "servers", "failed"}
        BY <1>3, <3>2 DEF Reads, ReadFolders, ReadPolicy, Measure
      <4>2. ~Unread
        BY <1>2, <2>2, <4>1 DEF Unread
      <4>3. \A v \in Rebuilder : Snapshot(v)
        BY <2>2, <4>2 DEF UpToDate
      <4>4. u = t => Snapshot(u)'
        BY <4>3, SnapshotRead DEF Base
      <4>5. u # t => Snapshot(u)'
        BY <1>1, <1>2, <4>3, SnapshotKept
      <4> QED
        BY <4>4, <4>5
    <3> QED
      BY <3>1, <3>2
  <2>3. ~\A u \in Rebuilder : pc'[u] \notin Reading
    BY <1>3, <1>5
  <2> QED
    BY <2>1, <2>2, <2>3 DEF UpToDate, Early, Gating
<1> QED
  BY <1>4, <1>5

\* start() publishes its snapshot before any request is sent, and decides on it.
LEMMA StartUpToDate ==
  ASSUME Base, LateWrites, UpToDate, StartBegin \/ StartWire \/ StartAttach PROVE UpToDate'
<1> USE StartAssumption DEF Goto, maps, gate, teardown, Task
<1>1. /\ UNCHANGED <<db, limit, cfg, policy, measured, closer>>
      /\ pc[Start] \in Early /\ Snapshot(Start) /\ Current' = Current
  BY DEF StartBegin, StartWire, StartAttach, Early, UpToDate, Current
<1>2. \A t \in Rebuilder : pc'[t] = "idle"
  BY <1>1, OnlyOwnPc DEF Starting, Base, LateWrites
<1>3. \A t \in Rebuilder : Snapshot(t)'
  BY <1>2 DEF Snapshot, Gating
<1>4. CASE StartBegin
  <2>1. pc'[Start] = "servers"
    BY <1>4 DEF StartBegin, Base, TypeOK
  <2> QED
    BY <2>1 DEF UpToDate, Snapshot, Gating
<1>5. CASE StartWire
  <2>1. cfg[Start] = Current /\ config' = Current
    BY <1>1, <1>5 DEF StartWire, Publish, Snapshot
  <2>2. CASE cfg[Start].paths = {}
    <3>1. pc'[Start] = "loop" /\ state' = "running"
      BY <1>5, <2>2 DEF StartWire, Publish, Attach, Base, TypeOK
    <3>2. MayWatch'
      BY <1>1, <2>1, <2>2 DEF MayWatch
    <3> QED
      BY <1>1, <1>3, <2>1, <3>1, <3>2 DEF UpToDate, Settled, Early, Gating
  <2>3. CASE cfg[Start].paths # {}
    <3>1. pc'[Start] = "policy"
      BY <1>5, <2>3 DEF StartWire, Publish, Base, TypeOK
    <3> QED
      BY <1>1, <2>1, <2>3, <3>1 DEF UpToDate, Snapshot, Gating
  <2> QED
    BY <2>2, <2>3
<1>6. CASE StartAttach
  <2>1. /\ config' = config /\ config = cfg[Start] /\ cfg[Start] = Current
        /\ pc[Start] = "gated"
    BY <1>1, <1>6 DEF StartAttach, UpToDate, Snapshot, Gating
  <2>2. /\ pc'[Start] \in {"returned", "loop"}
        /\ state' = IF GateOk(Start) THEN "running" ELSE "blocked"
    BY <1>6 DEF StartAttach, Attach, Base, TypeOK
  <2>3. GateOk(Start) <=> MayWatch
    BY <1>1, <2>1, GateDecides
  <2>4. MayWatch' <=> MayWatch
    BY <1>1 DEF MayWatch
  <2>5. Settled'
    BY <1>1, <2>1, <2>2, <2>3, <2>4 DEF Settled
  <2> QED
    BY <1>3, <2>2, <2>5 DEF UpToDate, Early, Gating
<1> QED
  BY <1>4, <1>5, <1>6

\* A swap makes a current snapshot the engine's configuration.
LEMMA SwapUpToDate ==
  ASSUME Base, LateWrites, UpToDate, NEW t \in Rebuilder, RebuildBuild(t) \/ RebuildSwap(t)
  PROVE  UpToDate'
<1> USE StartAssumption DEF Goto, maps, gate, teardown, Task
<1>1. /\ UNCHANGED <<db, limit, cfg, policy, measured, closer>>
      /\ pc[t] \in {"built", "gated"} /\ Current' = Current
  BY DEF RebuildBuild, RebuildSwap, Current
<1>2. \A u \in Task : u # t => pc'[u] = pc[u]
  BY OnlyOwnPc DEF Base, Rebuilding
<1>3. pc'[t] \in {"policy", "close"}
  BY DEF RebuildBuild, RebuildSwap, Swap, Publish, Retire, Base, TypeOK
<1>4. pc[Start] \notin Early /\ pc'[Start] = pc[Start]
  BY <1>1, <1>2 DEF LateWrites
<1> SUFFICES ASSUME pc[Start] = "loop", ~Unread'
             PROVE  /\ \A u \in Rebuilder : Snapshot(u)'
                    /\ (\A u \in Rebuilder : pc'[u] \notin Reading) => Settled'
  BY <1>4 DEF UpToDate, Early, Gating
<1>5. ~Unread
  BY <1>1, <1>2 DEF Unread
<1>6. Snapshot(t) /\ \A u \in Rebuilder : u # t => Snapshot(u)'
  BY <1>1, <1>2, <1>5, SnapshotKept DEF UpToDate
<1>7. CASE pc'[t] = "policy"
  <2>1. cfg[t] = Current /\ cfg[t].paths # {}
    BY <1>1, <1>6, <1>7 DEF RebuildBuild, RebuildSwap, Swap, Publish, Retire, Snapshot, Base, TypeOK
  <2>2. Snapshot(t)'
    BY <1>1, <1>7, <2>1 DEF Snapshot, Gating
  <2> QED
    BY <1>6, <1>7, <2>2 DEF Reading
<1>8. CASE pc'[t] = "close"
  <2>1. Snapshot(t)'
    BY <1>8 DEF Snapshot, Gating
  <2>2. cfg[t] = Current /\ config' = cfg[t]
    BY <1>1, <1>6, <1>8 DEF RebuildBuild, RebuildSwap, Swap, Publish, Retire, Snapshot, Base, TypeOK
  <2>3. state' = "running" <=> MayWatch
    <3>1. CASE RebuildBuild(t)
      BY <1>8, <2>2, <3>1 DEF RebuildBuild, Swap, Publish, Retire, MayWatch, Base, TypeOK
    <3>2. CASE RebuildSwap(t)
      BY <1>6, <3>2, GateDecides DEF RebuildSwap, Swap, Publish, Retire
    <3> QED
      BY <3>1, <3>2
  <2>4. MayWatch' <=> MayWatch
    BY <1>1 DEF MayWatch
  <2> QED
    BY <1>1, <1>6, <2>1, <2>2, <2>3, <2>4 DEF Settled
<1> QED
  BY <1>3, <1>7, <1>8

\* A step that leaves the configuration, the pipeline and the snapshots alone.
LEMMA QuietUpToDate ==
  ASSUME UpToDate, UNCHANGED <<db, limit, cfg, policy, measured, config>>,
         closer' = "idle" => closer = "idle" /\ state' = state,
         pc'[Start] = pc[Start] \/ pc'[Start] \in Ended,
         \A t \in Rebuilder : pc'[t] = pc[t]
  PROVE  UpToDate'
<1>1. Current' = Current /\ (MayWatch' <=> MayWatch) /\ (Unread' <=> Unread)
  BY DEF Current, MayWatch, Unread
<1>2. \A t \in Task : pc'[t] = pc[t] /\ Snapshot(t) => Snapshot(t)'
  BY SnapshotKept
<1>3. Settled => Settled'
  BY <1>1 DEF Settled
<1> QED
  BY <1>1, <1>2, <1>3 DEF UpToDate, Ended, Early, Gating, Task

\* Every step keeps the snapshots and the engine up to date.
LEMMA UpToDateStep == ~EarlyWrites /\ Base /\ LateWrites /\ UpToDate /\ [Next]_vars => UpToDate'
<1> SUFFICES ASSUME ~EarlyWrites, Base, LateWrites, UpToDate, [Next]_vars PROVE UpToDate'
  OBVIOUS
<1> USE StartAssumption DEF Goto, maps, gate, teardown, tasks, Task
<1>1. ASSUME NEW t \in Task, ReadFails(t) PROVE UpToDate'
  <2>1. CASE t = Start
    BY <1>1, <2>1 DEF ReadFails, UpToDate, Early, Gating, Base, TypeOK
  <2>2. CASE t \in Rebuilder
    <3>1. Unread'
      BY <1>1, <2>2 DEF ReadFails, Unread, Base, TypeOK
    <3>2. pc[Start] \notin Early /\ pc'[Start] = pc[Start]
      BY <1>1, <2>2 DEF ReadFails, LateWrites, Base, TypeOK
    <3> QED
      BY <3>1, <3>2 DEF UpToDate, Early, Gating
  <2> QED
    BY <2>1, <2>2
<1>2. CASE ConsumeEnds \/ StartCancel
  BY <1>2, QuietUpToDate DEF ConsumeEnds, StartCancel, Ended, Base, TypeOK
<1>3. ASSUME NEW t \in Rebuilder, Commit(t) \/ Recheck(t) \/ RebuildSkipped(t) \/ RebuildLock(t)
      PROVE UpToDate'
  <2>1. pc[Start] \notin Early /\ pc'[Start] = pc[Start]
    BY <1>3 DEF Commit, Recheck, RebuildSkipped, RebuildLock, LateWrites, Early, Ended, Base, TypeOK
  <2>2. CASE RebuildSkipped(t)
    <3>1. pc[Start] # "loop"
      BY <2>2 DEF RebuildSkipped, Base, WiredByStart
    <3> QED
      BY <2>1, <3>1 DEF UpToDate, Early, Gating
  <2>3. CASE ~RebuildSkipped(t)
    <3>1. Unread'
      BY <1>3, <2>3 DEF Commit, Recheck, RebuildLock, Unread, Base, TypeOK
    <3> QED
      BY <2>1, <3>1 DEF UpToDate, Early, Gating
  <2> QED
    BY <2>2, <2>3
<1>4. ASSUME NEW t \in Rebuilder, NEW c \in Client, RebuildClose(t, c) PROVE UpToDate'
  BY <1>4, QuietUpToDate DEF RebuildClose
<1>5. ASSUME NEW t \in Rebuilder, RebuildUnlock(t) PROVE UpToDate'
  <2>1. /\ UNCHANGED <<db, limit, config, closer, state>>
        /\ pc[t] = "close" /\ pc' = [pc EXCEPT ![t] = "done"]
    BY <1>5 DEF RebuildUnlock
  <2>2. \A u \in Task : u # t => /\ pc'[u] = pc[u] /\ cfg'[u] = cfg[u]
                                /\ policy'[u] = policy[u] /\ measured'[u] = measured[u]
    BY <1>5 DEF RebuildUnlock, Forget, Base, TypeOK
  <2>3. pc'[t] = "done" /\ Snapshot(t)'
    BY <2>1 DEF Snapshot, Gating, Base, TypeOK
  <2>4. \A u \in Task : u # t /\ Snapshot(u) => Snapshot(u)'
    BY <2>1, <2>2, SnapshotKept
  <2>5. (Unread' <=> Unread) /\ (Settled => Settled')
    BY <2>1, <2>2, <2>3 DEF Unread, Settled, Current, MayWatch
  <2>6. Start # t /\ pc'[Start] = pc[Start] /\ cfg'[Start] = cfg[Start]
    BY <2>2
  <2>7. pc[Start] \in Early => Snapshot(Start)'
    BY <2>4, <2>6 DEF UpToDate
  <2>8. (\A u \in Rebuilder : Snapshot(u)) => \A u \in Rebuilder : Snapshot(u)'
    BY <2>3, <2>4
  <2>9. (\A u \in Rebuilder : pc'[u] \notin Reading) => \A u \in Rebuilder : pc[u] \notin Reading
    BY <2>1, <2>2 DEF Reading
  <2> QED
    BY <2>1, <2>5, <2>6, <2>7, <2>8, <2>9 DEF UpToDate
<1>6. CASE AcloseBegin \/ Closing \/ UNCHANGED vars
  BY <1>6, QuietUpToDate
  DEF AcloseBegin, Closing, AcloseTimers, AcloseClient,
      AcloseReturn, vars
<1> QED
  BY <1>1, <1>2, <1>3, <1>4, <1>5, <1>6, ReadsUpToDate, StartUpToDate, SwapUpToDate
  DEF Next, Rebuilding, Starting

\* The watcher's roots are replaced together with the configuration.
LEMMA RootsStep ==
  Base /\ LateWrites /\ UpToDate /\ RootsFollowConfig /\ [Next]_vars => RootsFollowConfig'
<1> SUFFICES ASSUME Base, LateWrites, UpToDate, RootsFollowConfig, [Next]_vars
             PROVE RootsFollowConfig'
  OBVIOUS
<1> USE DEF Goto, maps, gate, teardown, tasks, Task
<1>1. CASE StartWire
  BY <1>1 DEF StartWire, Publish, Attach, RootsFollowConfig, Base, TypeOK
<1>2. CASE StartAttach
  BY <1>2 DEF StartAttach, Attach, RootsFollowConfig, UpToDate, Gating, Base, TypeOK
<1>3. ASSUME NEW t \in Rebuilder, RebuildBuild(t) \/ RebuildSwap(t) PROVE RootsFollowConfig'
  <2>1. pc'[Start] = pc[Start]
    BY <1>3, OnlyOwnPc, StartAssumption DEF Base, Rebuilding
  <2> QED
    BY <1>3, <2>1 DEF RebuildBuild, RebuildSwap, Swap, Publish, Retire, RootsFollowConfig
<1>4. CASE /\ UNCHANGED <<config, roots>>
           /\ pc'[Start] = "loop" => pc[Start] = "loop"
           /\ closer' = "idle" => closer = "idle" /\ state' = state
  BY <1>4 DEF RootsFollowConfig
<1>5. CASE StartBegin
  BY <1>5 DEF StartBegin, RootsFollowConfig, Base, TypeOK
<1>6. ASSUME NEW t \in Task, Reads(t) \/ ReadFails(t) PROVE RootsFollowConfig'
  BY <1>4, <1>6 DEF Reads, ReadServers, ReadFolders, ReadPolicy, Measure, ReadFails, Base, TypeOK
<1>7. CASE ConsumeEnds \/ StartCancel
  BY <1>4, <1>7 DEF ConsumeEnds, StartCancel, Base, TypeOK
<1>8. ASSUME NEW t \in Rebuilder,
             \/ Commit(t) \/ Recheck(t) \/ RebuildSkipped(t) \/ RebuildLock(t) \/ RebuildUnlock(t)
             \/ \E c \in Client : RebuildClose(t, c)
      PROVE RootsFollowConfig'
  BY <1>4, <1>8, StartAssumption
  DEF Commit, Recheck, RebuildSkipped, RebuildLock, RebuildUnlock, RebuildClose, Base, TypeOK
<1>9. CASE AcloseBegin \/ Closing \/ UNCHANGED vars
  BY <1>4, <1>9 DEF AcloseBegin, Closing, AcloseTimers,
                    AcloseClient, AcloseReturn, vars
<1> QED
  BY <1>1, <1>2, <1>3, <1>5, <1>6, <1>7, <1>8, <1>9 DEF Next, Rebuilding, Starting

\* What the reachable states share when requests arrive late.
LEMMA LateReachable ==
  ~EarlyWrites => (Spec => [](Base /\ LateWrites /\ UpToDate /\ RootsFollowConfig))
<1> SUFFICES ASSUME ~EarlyWrites
             PROVE  Spec => [](Base /\ LateWrites /\ UpToDate /\ RootsFollowConfig)
  OBVIOUS
<1>1. Init => LateWrites /\ UpToDate /\ RootsFollowConfig
  BY DEF Init, LateWrites, UpToDate, RootsFollowConfig, Snapshot, Early, Gating, Task
<1>2. Base /\ LateWrites /\ [Next]_vars => LateWrites'
  BY LateStep
<1>3. Base /\ LateWrites /\ UpToDate /\ [Next]_vars => UpToDate'
  BY UpToDateStep
<1>4. Accounted => Base
  BY DEF Accounted
<1> QED
  BY <1>1, <1>2, <1>3, <1>4, RootsStep, Reachable, PTL DEF Spec

\* Whatever the overlap of writes and rebuilds, once all requests are answered the engine
\* runs what the database holds.
THEOREM ChangesPickedUp == ~EarlyWrites => (Spec => []PicksUpEveryChange)
<1>1. Base /\ LateWrites /\ UpToDate /\ RootsFollowConfig => PicksUpEveryChange
  BY DEF UpToDate, PicksUpEveryChange, Quiescent, Unread, Reading, Settled, Current
<1> QED
  BY <1>1, LateReachable, PTL

\* Once all requests are answered the engine watches exactly when the gate, as it would be
\* evaluated now, lets it.
THEOREM GateCurrent == ~EarlyWrites => (Spec => []GateIsCurrent)
<1>1. Base /\ LateWrites /\ UpToDate /\ RootsFollowConfig => GateIsCurrent
  BY DEF UpToDate, GateIsCurrent, Quiescent, Unread, Reading, Settled, Current, MayWatch
<1> QED
  BY <1>1, LateReachable, PTL

\* A running engine watches the paths it routes with, a blocked one nothing.
THEOREM RootsFollow == ~EarlyWrites => (Spec => []RootsFollowConfig)
  BY LateReachable, PTL

-----------------------------------------------------------------------------
(* The headless process *)

\* There is no web layer.
NoRequests == \A t \in Rebuilder : pc[t] = "idle"

\* How far serve_headless, aclose() and start() have come.
HControl ==
  /\ serve \in {"running", "joining", "exited"}
  /\ serve = "running" <=> closer = "idle"
  /\ serve = "exited" => closer = "done" /\ pc[Start] \in Ended
  /\ ~watching => wired /\ closer # "idle"
  /\ closer \in {"timers", "clients"} => ~watching

\* The clients are those of start(); aclose() closes all of them.
HClients ==
  /\ ~wired => open = {}
  /\ closer \in {"idle", "timers"} => open = clients
  /\ closer = "clients" => open = closing
  /\ closer = "done" /\ ~watching => open = {} /\ clients = {}

\* What the gate has said; nothing is attached before it has, or when it blocks.
HBlocked ==
  /\ pc[Start] \in Early \cup {"failed"} => roots = {}
  /\ pc[Start] = "gated" => measured[Start] # "none"
  /\ state = "blocked" \/ code = 3 =>
       pc[Start] \in {"loop", "returned"} /\ watchLimit = "low" /\ roots = {}
  /\ pc[Start] = "returned" /\ serve = "running" => state = "blocked"
  /\ serve # "running" /\ ~stop =>
       pc[Start] \in Ended /\ (pc[Start] = "returned" => code = 3)
  /\ serve = "running" => code = 0
  /\ pc[Start] # "cancelled"

HInv == Base /\ NoRequests /\ HControl /\ HClients /\ HBlocked

LEMMA HInitInv == HInit => HInv
<1> SUFFICES ASSUME HInit PROVE HInv
  OBVIOUS
<1>1. Base
  BY InitAccounted DEF Accounted, HInit
<1>2. pc[Start] = "idle" /\ NoRequests
  BY DEF HInit, Init, Task, NoRequests
<1>3. HControl /\ HClients /\ HBlocked
  BY <1>2 DEF HInit, Init, HControl, HClients, HBlocked, Ended, Early
<1> QED
  BY <1>1, <1>2, <1>3 DEF HInv

\* What the process does with the engine are steps of the engine.
LEMMA HEngine == HNext => [Next]_vars
BY DEF HNext, ReadTurn, FailTurn, StartTurn, CloseTurn, Turn, Signal, Wake, Join, Next,
       Task

\* The headless process implements the engine: whatever its scheduling, signals and exits do,
\* the engine in it takes a step of its own or none.
THEOREM HeadlessIsEngine == HSpec => Spec
<1>1. HInit => Init
  BY DEF HInit
<1>2. [HNext]_hvars => [Next]_vars
  BY HEngine DEF hvars
<1> QED
  BY <1>1, <1>2, PTL DEF HSpec, Spec

LEMMA HBase == HInv /\ [HNext]_hvars => Base'
<1>1. [HNext]_hvars => [Next]_vars
  BY HEngine DEF hvars
<1>2. Base /\ [Next]_vars => Base'
  BY StepType, MutexStep, WiredStep DEF Base
<1> QED
  BY <1>1, <1>2 DEF HInv

LEMMA HRead ==
  ASSUME HInv, ReadTurn \/ FailTurn
  PROVE  NoRequests' /\ HControl' /\ HClients' /\ HBlocked'
<1>1. PICK t \in Task : Reads(t) \/ ReadFails(t)
  BY DEF ReadTurn, FailTurn, Turn
<1>2. UNCHANGED <<stop, serve, code>>
  BY DEF ReadTurn, FailTurn, Turn
<1>3. t = Start
  BY <1>1 DEF HInv, NoRequests, Task, Reads, ReadServers, ReadFolders, ReadPolicy, Measure,
              ReadFails
<1>4. Start \in Task /\ \A u \in Rebuilder : pc'[u] = pc[u]
  BY <1>1, <1>3, OnlyOwnPc, StartAssumption DEF HInv, Base, Task
<1>5. NoRequests'
  BY <1>4 DEF HInv, NoRequests
<1>6. UNCHANGED <<maps, gate, teardown, open>>
  BY <1>1 DEF Reads, ReadServers, ReadFolders, ReadPolicy, Measure, ReadFails
<1>7. /\ pc[Start] \in Early /\ pc'[Start] \in Early \cup {"failed"}
      /\ pc'[Start] = "gated" => measured'[Start] \in {"ok", "low"}
  BY <1>1, <1>3, <1>4
  DEF Reads, ReadServers, ReadFolders, ReadPolicy, Measure, ReadFails, Goto, Early, HInv, Base,
      TypeOK
<1>8. HControl' /\ HClients'
  BY <1>2, <1>6, <1>7 DEF HInv, HControl, HClients, maps, gate, teardown, Ended, Early
<1>9. HBlocked'
  BY <1>2, <1>6, <1>7 DEF HInv, HBlocked, maps, gate, teardown, Ended, Early
<1> QED
  BY <1>5, <1>8, <1>9

LEMMA HStart ==
  ASSUME HInv, StartTurn
  PROVE  NoRequests' /\ HControl' /\ HClients' /\ HBlocked'
<1>1. Starting \/ ConsumeEnds
  BY DEF StartTurn, Turn
<1>2. UNCHANGED <<stop, serve, code>>
  BY DEF StartTurn, Turn
<1>3. Start \in Task /\ \A u \in Rebuilder : pc'[u] = pc[u]
  BY <1>1, OnlyOwnPc, StartAssumption DEF HInv, Base, Task
<1>4. NoRequests'
  BY <1>3 DEF HInv, NoRequests
<1>5. /\ pc \in [Task -> Labels] /\ cfg \in [Task -> Config]
      /\ measured[Start] \in {"none", "ok", "low"}
  BY <1>3 DEF HInv, Base, TypeOK
<1>6. CASE StartBegin
  <2>1. pc'[Start] = "servers" /\ pc[Start] = "idle" /\ state' = "starting"
    BY <1>3, <1>5, <1>6 DEF StartBegin, Goto
  <2>2. UNCHANGED <<maps, roots, watchLimit, teardown, open, measured>>
    BY <1>6 DEF StartBegin
  <2> QED
    BY <1>2, <1>4, <2>1, <2>2
    DEF HInv, HControl, HClients, HBlocked, maps, teardown, Ended, Early
<1>7. CASE ConsumeEnds
  <2>1. pc'[Start] = "returned" /\ pc[Start] = "loop" /\ ~watching
    BY <1>3, <1>5, <1>7 DEF ConsumeEnds, Goto
  <2>2. UNCHANGED <<maps, gate, teardown, open, measured>>
    BY <1>7 DEF ConsumeEnds
  <2> QED
    BY <1>2, <1>4, <2>1, <2>2
    DEF HInv, HControl, HClients, HBlocked, maps, gate, teardown, Ended, Early
<1>8. CASE StartAttach
  <2>1. pc[Start] = "gated" /\ UNCHANGED <<maps, teardown, open, measured>>
    BY <1>8 DEF StartAttach
  <2>2. /\ watchLimit' = measured[Start]
        /\ \/ GateOk(Start) /\ state' = "running" /\ pc'[Start] = "loop"
           \/ /\ ~GateOk(Start) /\ state' = "blocked" /\ pc'[Start] \in {"loop", "returned"}
              /\ roots' = {}
    BY <1>3, <1>5, <1>8, <2>1 DEF StartAttach, Attach, Goto, HInv, HBlocked, Early
  <2>3. ~GateOk(Start) => measured[Start] = "low"
    BY <1>5, <2>1 DEF GateOk, HInv, HBlocked
  <2>4. HControl' /\ HClients'
    BY <1>2, <2>1, <2>2 DEF HInv, HControl, HClients, maps, teardown, Ended
  <2>5. HBlocked'
    BY <1>2, <2>1, <2>2, <2>3 DEF HInv, HBlocked, HControl, maps, teardown, Ended, Early
  <2> QED
    BY <1>4, <2>4, <2>5
<1>9. CASE StartWire
  <2>1. /\ pc[Start] = "built" /\ wired' /\ open' = open \cup Built(Start)
        /\ clients' = Built(Start) /\ UNCHANGED <<teardown, measured>>
    BY <1>9 DEF StartWire, Publish
  <2>2. /\ ~wired /\ open = {} /\ watching
    BY <2>1 DEF HInv, Base, WiredByStart, HClients, HControl
  <2>3. \/ pc'[Start] = "policy" /\ UNCHANGED gate
        \/ pc'[Start] = "loop" /\ state' = "running" /\ roots' = {}
    BY <1>3, <1>5, <1>9 DEF StartWire, Attach, Goto, Publish
  <2>4. HControl' /\ HClients'
    BY <1>2, <2>1, <2>2, <2>3 DEF HInv, HControl, HClients, teardown, Ended
  <2>5. HBlocked'
    BY <1>2, <2>1, <2>2, <2>3
    DEF HInv, HBlocked, HControl, gate, teardown, Ended, Early
  <2> QED
    BY <1>4, <2>4, <2>5
<1> QED
  BY <1>1, <1>6, <1>7, <1>8, <1>9 DEF Starting

LEMMA HClose ==
  ASSUME HInv, CloseTurn \/ Wake
  PROVE  NoRequests' /\ HControl' /\ HClients' /\ HBlocked'
<1>1. CASE CloseTurn
  <2>1. UNCHANGED <<stop, serve, code, tasks, wired, watching, roots, watchLimit>>
    BY <1>1 DEF CloseTurn, Turn, Closing, AcloseTimers, AcloseClient, AcloseReturn, maps, gate
  <2>2. NoRequests'
    BY <2>1 DEF HInv, NoRequests, tasks
  <2>3. HControl' /\ HClients'
    BY <1>1, <2>1
    DEF HInv, HControl, HClients, CloseTurn, Turn, Closing, AcloseTimers, AcloseClient,
        AcloseReturn, tasks, maps, gate
  <2>4. state' \in {state, "stopped"} /\ closer # "idle"
    BY <1>1 DEF CloseTurn, Turn, Closing, AcloseTimers, AcloseClient, AcloseReturn, gate
  <2>5. HBlocked'
    BY <2>1, <2>4 DEF HInv, HBlocked, HControl, tasks
  <2> QED
    BY <2>2, <2>3, <2>5
<1>2. CASE Wake
  <2>1. /\ serve = "running" /\ serve' = "joining" /\ stop' = stop
        /\ stop \/ pc[Start] \in Ended
        /\ code' = IF state = "blocked" THEN 3 ELSE 0
        /\ watching' = ~wired /\ closer' = (IF wired THEN "timers" ELSE "done")
        /\ state' = IF wired THEN state ELSE "stopped"
        /\ UNCHANGED <<tasks, maps, roots, watchLimit, open>>
    BY <1>2 DEF Wake, AcloseBegin
  <2>2. NoRequests'
    BY <2>1 DEF HInv, NoRequests, tasks
  <2>3. HControl' /\ HClients'
    BY <2>1 DEF HInv, HControl, HClients, tasks, maps, Base, TypeOK
  <2>4. HBlocked'
    BY <2>1 DEF HInv, HBlocked, HControl, tasks
  <2> QED
    BY <2>2, <2>3, <2>4
<1> QED
  BY <1>1, <1>2

LEMMA HStepInv == HInv /\ [HNext]_hvars => HInv'
<1> SUFFICES ASSUME HInv, [HNext]_hvars PROVE NoRequests' /\ HControl' /\ HClients' /\ HBlocked'
  BY HBase DEF HInv
<1> USE DEF vars, tasks, maps, gate, teardown
<1>1. CASE UNCHANGED hvars
  BY <1>1 DEF hvars, HInv, NoRequests, HControl, HClients, HBlocked
<1>2. CASE Signal
  BY <1>2 DEF Signal, HInv, NoRequests, HControl, HClients, HBlocked
<1>3. CASE Join
  BY <1>3 DEF Join, HInv, NoRequests, HControl, HClients, HBlocked
<1> QED
  BY <1>1, <1>2, <1>3, HRead, HStart, HClose DEF HNext

LEMMA HReachable == HSpec => []HInv
BY HInitInv, HStepInv, PTL DEF HSpec

\* ExitCodeTellsBlocked: serve_headless returns 3 only if the gate blocked startup and nothing
\* was attached, and always if start() returned without a signal (cli.py).
THEOREM ExitCode == HSpec => []ExitCodeTellsBlocked
<1>1. HInv => ExitCodeTellsBlocked
  BY DEF HInv, HControl, HBlocked, ExitCodeTellsBlocked, Ended
<1> QED
  BY <1>1, HReachable, PTL

\* ExitReleasesClients: a headless process that exits after its pipeline was wired has closed
\* every client, wherever start() was when the teardown began (cli.py, engine.py).
THEOREM HeadlessReleases == HSpec => []ExitReleasesClients
<1>1. HInv => ExitReleasesClients
  BY DEF HInv, HControl, HClients, ExitReleasesClients
<1> QED
  BY <1>1, HReachable, PTL

-----------------------------------------------------------------------------
(* The web process *)

Answered == {"idle", "done", "skipped", "failed"}

\* How far serve_web and aclose() have come.
WControl ==
  /\ server \in {"running", "closing", "exited"}
  /\ server = "running" <=> closer = "idle"
  /\ server = "exited" => closer = "done" /\ pc[Start] \in Ended

\* Once the teardown has begun upon a signal: no request is under way or will come, the
\* pipeline stays as it is, and what is open is about to be closed or was abandoned.
Torn ==
  /\ ~accepting /\ \A t \in Rebuilder : pc[t] \in Answered
  /\ wired <=> ~watching
  /\ closer # "done" => wired
  /\ closer = "timers" => \A c \in open : c \in clients \/ Abandoned(c)
  /\ closer = "clients" => \A c \in open : c \in closing \/ Abandoned(c)
  /\ closer = "done" =>
       clients = {} /\ state = "stopped" /\ \A c \in open : Abandoned(c)

WDown == server # "running" /\ ~stopEvent

WInv == Accounted /\ WControl /\ (WDown => Torn)

LEMMA WInitInv == WInit => WInv
BY InitAccounted DEF WInit, Init, WInv, WControl, WDown

\* What serve_web and its requests do with the engine are steps of the engine.
LEMMA WEngine == WNext => [Next]_vars
BY DEF WNext, Read, ReadRaises, Starts, Close, Rebuild, Request, UvicornStops, SetStopEvent,
       Shutdown, CancelStart, Exit, Next

\* The web process implements the engine as well, with requests, shutdown and a cancelled start.
THEOREM WebIsEngine == WSpec => Spec
<1>1. WInit => Init
  BY DEF WInit
<1>2. [WNext]_wvars => [Next]_vars
  BY WEngine DEF wvars
<1> QED
  BY <1>1, <1>2, PTL DEF WSpec, Spec

LEMMA WAccounted == WInv /\ [WNext]_wvars => Accounted'
<1>1. [WNext]_wvars => [Next]_vars
  BY WEngine DEF wvars
<1> QED
  BY <1>1, StepAccounted DEF WInv

\* A step that leaves the teardown and what it is about alone.
LEMMA WSame ==
  ASSUME WInv, UNCHANGED <<maps, gate, teardown, open, server>>,
         stopEvent' = stopEvent \/ stopEvent',
         accepting' => accepting, pc[Start] \in Ended => pc'[Start] \in Ended,
         WDown => \A t \in Rebuilder : pc'[t] = pc[t]
  PROVE  WControl' /\ (WDown' => Torn')
<1>1. WControl'
  BY DEF WInv, WControl, teardown
<1>2. WDown' => WDown
  BY DEF WDown
<1>3. WDown => Torn'
  <2> SUFFICES ASSUME WDown PROVE Torn'
    OBVIOUS
  <2>1. \A c : Abandoned(c)' <=> Abandoned(c)
    BY DEF Abandoned
  <2> QED
    BY <2>1 DEF WInv, Torn, maps, gate, teardown
<1> QED
  BY <1>1, <1>2, <1>3

LEMMA WRead ==
  ASSUME WInv, ReadRaises \/ \E t \in Task : Read(t)
  PROVE  WControl' /\ (WDown' => Torn')
<1>1. PICK t \in Task : Reads(t) \/ ReadFails(t)
  BY DEF ReadRaises, Read
<1>2. OnlyEngine
  BY DEF ReadRaises, Read
<1>3. UNCHANGED <<maps, gate, teardown, open>> /\ pc[t] \notin Ended \cup Answered
  BY <1>1 DEF Reads, ReadServers, ReadFolders, ReadPolicy, Measure, ReadFails, Ended, Answered
<1>4. \A u \in Task : u # t => pc'[u] = pc[u]
  BY <1>1, OnlyOwnPc DEF WInv, Accounted, Base
<1>5. WDown => \A u \in Rebuilder : pc'[u] = pc[u]
  BY <1>3, <1>4 DEF WInv, Torn, Task
<1>6. pc[Start] \in Ended => pc'[Start] \in Ended
  BY <1>3, <1>4 DEF Task
<1> QED
  BY <1>2, <1>3, <1>5, <1>6, WSame DEF OnlyEngine

LEMMA WStart ==
  ASSUME WInv, Starts
  PROVE  WControl' /\ (WDown' => Torn')
<1>1. ~Cancelled /\ (Starting \/ ConsumeEnds) /\ OnlyEngine
  BY DEF Starts
<1>2. pc[Start] \notin Ended
  BY <1>1 DEF Starting, StartBegin, StartWire, StartAttach, ConsumeEnds, Ended
<1>3. \A u \in Rebuilder : pc'[u] = pc[u]
  BY <1>1, OnlyOwnPc, StartAssumption DEF WInv, Accounted, Base, Task
<1>4. UNCHANGED <<teardown, server, stopEvent, accepting>>
  BY <1>1 DEF Starting, StartBegin, StartWire, StartAttach, ConsumeEnds, OnlyEngine
<1>5. WControl'
  BY <1>2, <1>4 DEF WInv, WControl, teardown
<1>6. ASSUME WDown PROVE Torn'
  <2>1. closer # "done" /\ wired
    BY <1>1, <1>2, <1>6 DEF WInv, WControl, Torn, Cancelled, WDown
  <2>2. pc[Start] \notin {"idle", "built"}
    BY <2>1 DEF WInv, Accounted, Base, WiredByStart
  <2>3. StartAttach \/ ConsumeEnds
    BY <1>1, <2>2 DEF Starting, StartBegin, StartWire
  <2>4. UNCHANGED <<maps, teardown, open>>
    BY <2>3 DEF StartAttach, ConsumeEnds
  <2>5. \A c : Abandoned(c)' <=> Abandoned(c)
    BY <1>3 DEF Abandoned
  <2> QED
    BY <1>3, <1>4, <1>6, <2>1, <2>4, <2>5 DEF WInv, Torn, maps, teardown
<1> QED
  BY <1>4, <1>5, <1>6 DEF WDown

LEMMA WClose ==
  ASSUME WInv, Close
  PROVE  WControl' /\ (WDown' => Torn')
<1>1. Closing /\ OnlyEngine
  BY DEF Close
<1>2. UNCHANGED <<tasks, wired, watching, server, stopEvent, accepting>>
  BY <1>1 DEF Closing, AcloseTimers, AcloseClient, AcloseReturn, OnlyEngine, maps
<1>3. WControl'
  BY <1>1, <1>2
  DEF WInv, WControl, Closing, AcloseTimers, AcloseClient, AcloseReturn, tasks
<1>4. ASSUME WDown PROVE Torn'
  <2>1. \A c : Abandoned(c)' <=> Abandoned(c)
    BY <1>2 DEF Abandoned, tasks
  <2>2. Torn
    BY <1>4 DEF WInv
  <2>3. CASE AcloseTimers
    BY <1>2, <2>1, <2>2, <2>3 DEF AcloseTimers, Torn, tasks, maps, gate
  <2>4. ASSUME NEW c \in Client, AcloseClient(c) PROVE Torn'
    BY <1>2, <2>1, <2>2, <2>4 DEF AcloseClient, Torn, tasks, maps, gate
  <2>5. CASE AcloseReturn
    BY <1>2, <2>1, <2>2, <2>5 DEF AcloseReturn, Torn, tasks
  <2> QED
    BY <1>1, <2>3, <2>4, <2>5 DEF Closing
<1> QED
  BY <1>2, <1>3, <1>4 DEF WDown

\* Requests are over when the teardown begins.
LEMMA WRequest ==
  ASSUME WInv, Request \/ \E t \in Rebuilder : Rebuild(t)
  PROVE  WControl' /\ (WDown' => Torn')
<1>1. PICK t \in Rebuilder : Commit(t) \/ Recheck(t) \/ Rebuilding(t)
  BY DEF Request, Rebuild
<1>2. UNCHANGED <<server, stopEvent, accepting, teardown>>
  BY <1>1
  DEF Request, Rebuild, OnlyEngine, Commit, Recheck, Rebuilding, RebuildSkipped, RebuildLock,
      RebuildBuild, RebuildSwap, RebuildClose, RebuildUnlock
<1>3. ~WDown
  <2>1. CASE Request
    BY <2>1 DEF Request, WInv, Torn
  <2>2. ASSUME NEW u \in Rebuilder, Rebuild(u) PROVE ~WDown
    <3>1. pc[u] \notin Answered
      BY <2>2 DEF Rebuild, Rebuilding, RebuildSkipped, RebuildLock, RebuildBuild, RebuildSwap,
                  RebuildClose, RebuildUnlock, Answered
    <3> QED
      BY <3>1 DEF WInv, Torn
  <2> QED
    BY <2>1, <2>2
<1>4. pc'[Start] = pc[Start]
  BY <1>1, OnlyOwnPc, StartAssumption DEF WInv, Accounted, Base, Task
<1>5. WControl'
  BY <1>2, <1>4 DEF WInv, WControl, teardown
<1> QED
  BY <1>2, <1>3, <1>5 DEF WDown

\* The teardown begins: with no request under way, what is open is the engine's.
LEMMA WShutdown ==
  ASSUME WInv, Shutdown
  PROVE  WControl' /\ (WDown' => Torn')
<1>1. /\ server = "running" /\ server' = "closing" /\ ~accepting' /\ stopEvent' = stopEvent
      /\ (~accepting /\ Active = {}) \/ stopEvent
      /\ watching' = ~wired /\ closer = "idle"
      /\ closer' = (IF wired THEN "timers" ELSE "done")
      /\ state' = IF wired THEN state ELSE "stopped"
      /\ UNCHANGED <<tasks, maps, open>>
  BY DEF Shutdown, AcloseBegin
<1>2. WControl'
  BY <1>1 DEF WControl
<1>3. ASSUME ~stopEvent PROVE Torn'
  <2>1. \A t \in Rebuilder : pc[t] \in Answered
    BY <1>1, <1>3 DEF Active, Answered
  <2>2. \A c : Abandoned(c)' <=> Abandoned(c)
    BY <1>1 DEF Abandoned, tasks
  <2>3. \A t \in Rebuilder : old[t] = {} /\ ~HasBuilt(t)
    BY <2>1 DEF WInv, Accounted, Ownership, Answered, HasBuilt
  <2>4. open \subseteq Client /\ wired \in BOOLEAN
    BY DEF WInv, Accounted, Base, TypeOK
  <2>5. \A c \in open : c \in clients \/ Abandoned(c)
    BY <1>1, <2>3, <2>4 DEF WInv, Accounted, OpenIsHeld, Holds
  <2>6. ~wired => clients = {}
    BY DEF WInv, Accounted, Base, WiredByStart
  <2> QED
    BY <1>1, <2>1, <2>2, <2>4, <2>5, <2>6 DEF Torn, tasks, maps
<1> QED
  BY <1>1, <1>2, <1>3 DEF WDown

LEMMA WEnd ==
  ASSUME WInv, CancelStart \/ Exit
  PROVE  WControl' /\ (WDown' => Torn')
<1>1. CASE CancelStart
  <2>1. UNCHANGED <<maps, gate, teardown, open, server, stopEvent, accepting>>
    BY <1>1 DEF CancelStart, StartCancel
  <2>2. \A u \in Rebuilder : pc'[u] = pc[u]
    BY <1>1, OnlyOwnPc, StartAssumption DEF CancelStart, WInv, Accounted, Base, Task
  <2>3. pc[Start] \notin Ended
    BY <1>1 DEF CancelStart, StartCancel
  <2> QED
    BY <2>1, <2>2, <2>3, WSame
<1>2. CASE Exit
  <2>1. /\ server = "closing" /\ closer = "done" /\ pc[Start] \in Ended /\ server' = "exited"
        /\ UNCHANGED <<vars, accepting, stopEvent>>
    BY <1>2 DEF Exit, Cancelled
  <2>2. WDown' => WDown
    BY <2>1 DEF WDown
  <2>3. Torn => Torn'
    BY <2>1 DEF Torn, Abandoned, vars, tasks, maps, gate, teardown
  <2>4. WControl'
    BY <2>1 DEF WControl, vars, tasks, teardown
  <2> QED
    BY <2>2, <2>3, <2>4 DEF WInv
<1> QED
  BY <1>1, <1>2

LEMMA WStepInv == WInv /\ [WNext]_wvars => WInv'
<1> SUFFICES ASSUME WInv, [WNext]_wvars PROVE WControl' /\ (WDown' => Torn')
  BY WAccounted DEF WInv
<1>1. CASE UNCHANGED wvars \/ UvicornStops \/ SetStopEvent
  BY <1>1, WSame DEF wvars, vars, tasks, UvicornStops, SetStopEvent
<1> QED
  BY <1>1, WRead, WStart, WClose, WRequest, WShutdown, WEnd DEF WNext

LEMMA WReachable == WSpec => []WInv
BY WInitInv, WStepInv, PTL DEF WSpec

\* ExitReleasesAll: when serve_web returns after a signal, the clients of start() and of every
\* rebuild are closed but for those a failed rebuild abandoned, and the engine is stopped
\* (web/server.py, engine.py).
THEOREM WebReleases == WSpec => []ExitReleasesAll
<1>1. WInv => ExitReleasesAll
  BY DEF WInv, WControl, WDown, Torn, ExitReleasesAll
<1> QED
  BY <1>1, WReachable, PTL
=============================================================================
