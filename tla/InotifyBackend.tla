----------------------------- MODULE InotifyBackend -----------------------------
(***************************************************************************)
(* watcher/inotify_backend.py over a file system that other processes      *)
(* change, and over the kernel's inotify (external): a watch is attached   *)
(* to an inode, one per inode, and reports the entries created, moved or   *)
(* deleted in that directory to a bounded queue; when the queue is full    *)
(* events are dropped and one overflow event is queued.                    *)
(*                                                                         *)
(* Directories are paths (sequences of names); files are left out: a file  *)
(* is reported exactly if its directory is watched, or is found by a walk. *)
(* A walk (os.walk) is one turn of the event loop, but not one step of the *)
(* file system: each directory is first listed and then watched.           *)
(***************************************************************************)
EXTENDS Naturals, Sequences, FiniteSets, SequencesExt

CONSTANTS Dir,         \* paths a directory may have: sequences of names
          InitDirs,    \* the directories that exist at first
          Hosts,       \* the hosts the program may run on, see Host below
          MaxWd        \* bound: watch descriptors ever handed out

\* What a host and its configuration allow: names in ignore_dirs; directories other processes
\* create and remove, and renames <<from, to>> they do; arguments of set_roots(); whose walks
\* the file system may change under; the kernel's limits of queued events (max_queued_events)
\* and of watches (max_user_watches); and bounds on calls of set_roots() and on changes, with
\* the directories that are there at first counted as changes.
HostFields == {"ignored", "mutable", "renames", "rootSets", "racy", "queue", "watches",
               "maxOps", "maxCalls"}

Name == {Last(d) : d \in Dir}
Path == Seq(Name)

\* With a directory the tree has the directories on the way to it.
HasPrefixes(ds) == \A d \in ds : \A n \in 1 .. Len(d) : SubSeq(d, 1, n) \in ds

ASSUME DirAssumption ==
  /\ IsFiniteSet(Dir) /\ \A d \in Dir : d \in Path /\ d # <<>>
  /\ InitDirs \subseteq Dir
  /\ HasPrefixes(Dir) /\ HasPrefixes(InitDirs)
ASSUME HostAssumption ==
  \A h \in Hosts :
    /\ DOMAIN h = HostFields
    /\ h.mutable \subseteq Dir /\ h.rootSets \subseteq SUBSET (InitDirs \cup h.mutable)
    /\ h.renames \subseteq Dir \X Dir
    /\ h.racy \subseteq {"events", "set_roots"}
    /\ {h.queue, h.watches, h.maxOps, h.maxCalls} \subseteq Nat
    /\ h.queue > 0 /\ Cardinality(InitDirs) <= h.maxOps
ASSUME WdAssumption == MaxWd \in Nat

Wd == 1 .. MaxWd
NoWd == 0
NoDir == <<>>
Absent == 0
Overflow == [wd |-> NoWd, name |-> "", kind |-> "overflow"]

VARIABLES
  host,               \* the host
  ino, ops,           \* path -> inode or Absent; how many changes were made
  kino, queue, nwd,   \* kernel: descriptor -> inode, queued events, descriptors handed out
  kpath,              \* asyncinotify: descriptor -> path of its Watch
  watches, roots,     \* _watches: path -> descriptor; _roots
  calls,              \* how often set_roots() was called
  gen, rest,          \* events(): where it is suspended; what it still has to walk
  walk,               \* the walk under way: who runs it, what is left, what is listed
  closed              \* _closing

fs == <<host, ino, ops>>
kernel == <<kino, queue, nwd, kpath>>
vars == <<fs, kernel, watches, roots, calls, gen, rest, walk, closed>>

Under(d, r) == IsPrefix(r, d)
Exists(d) == d \in Dir /\ ino[d] # Absent
Parent(d) == Front(d)
IsIgnored(d) == \E i \in DOMAIN d : d[i] \in host.ignored
Children(d) == {c \in Dir : Len(c) = Len(d) + 1 /\ Under(c, d) /\ Exists(c)}
NoWalk == [by |-> "nobody", todo |-> {}, cur |-> NoDir, kids |-> {}]
StartWalk(who, ds) == [by |-> who, todo |-> ds, cur |-> NoDir, kids |-> {}]
Busy == walk.by # "nobody"

Init == /\ host \in Hosts
        /\ \E f \in [InitDirs -> 1 .. Cardinality(InitDirs)] :
             /\ IsInjective(f)
             /\ ino = [d \in Dir |-> IF d \in InitDirs THEN f[d] ELSE Absent]
        /\ ops = Cardinality(InitDirs)
        /\ kino = [w \in Wd |-> Absent]
        /\ kpath = [w \in Wd |-> NoDir]
        /\ queue = <<>> /\ nwd = 0
        /\ watches = [d \in Dir |-> NoWd]
        /\ roots = {} /\ calls = 0
        /\ gen = "get" /\ rest = {}
        /\ walk = NoWalk
        /\ closed = FALSE

-----------------------------------------------------------------------------
(* The file system and the kernel *)

\* The descriptor that watches directory d now.
WatchOn(d) ==
  IF Exists(d) /\ \E w \in Wd : kino[w] = ino[d]
  THEN CHOOSE w \in Wd : kino[w] = ino[d] ELSE NoWd

\* What a change of entry d of its parent directory puts into the queue.
Push(q, d, kind) ==
  IF WatchOn(Parent(d)) = NoWd THEN q
  ELSE IF Len(q) < host.queue
       THEN Append(q, [wd |-> WatchOn(Parent(d)), name |-> Last(d), kind |-> kind])
  ELSE IF Last(q) = Overflow THEN q ELSE Append(q, Overflow)

MayChange == ops < host.maxOps /\ (Busy => walk.by \in host.racy)

Mkdir(d) ==
  /\ MayChange /\ d \in host.mutable /\ ~Exists(d)
  /\ Parent(d) \in Dir => Exists(Parent(d))
  /\ ino' = [ino EXCEPT ![d] = ops + 1]
  /\ ops' = ops + 1
  /\ queue' = Push(queue, d, "in")
  /\ UNCHANGED <<host, kino, nwd, kpath, watches, roots, calls, gen, rest, walk, closed>>

\* The kernel drops the watch of a directory that is removed.
Rmdir(d) ==
  /\ MayChange /\ d \in host.mutable /\ Exists(d) /\ Children(d) = {}
  /\ ino' = [ino EXCEPT ![d] = Absent]
  /\ ops' = ops + 1
  /\ kino' = [w \in Wd |-> IF kino[w] = ino[d] THEN Absent ELSE kino[w]]
  /\ queue' = Push(queue, d, "out")
  /\ UNCHANGED <<host, nwd, kpath, watches, roots, calls, gen, rest, walk, closed>>

\* Moving a directory moves its subtree; the inodes and their watches stay.
Rename(a, b) ==
  LET moved == {d \in Dir : Under(d, a)}
      To(d) == b \o SubSeq(d, Len(a) + 1, Len(d))
      From(d) == a \o SubSeq(d, Len(b) + 1, Len(d)) IN
  /\ MayChange /\ <<a, b>> \in host.renames
  /\ Exists(a) /\ ~Exists(b) /\ Parent(b) \in Dir /\ Exists(Parent(b)) /\ ~Under(b, a)
  /\ \A d \in moved : Exists(d) => To(d) \in Dir
  /\ ino' = [d \in Dir |-> IF d \in moved THEN Absent
                           ELSE IF Under(d, b) /\ From(d) \in Dir THEN ino[From(d)]
                           ELSE ino[d]]
  /\ ops' = ops + 1
  /\ queue' = Push(Push(queue, a, "out"), b, "in")
  /\ UNCHANGED <<host, kino, nwd, kpath, watches, roots, calls, gen, rest, walk, closed>>

-----------------------------------------------------------------------------
(* Watch bookkeeping *)

\* _walk_add_watches: os.walk lists the next directory; one that is gone or ignored is
\* passed over.
WalkList(d) ==
  /\ Busy /\ walk.cur = NoDir /\ d \in walk.todo
  /\ walk' = IF Exists(d) /\ ~IsIgnored(d)
             THEN [walk EXCEPT !.todo = @ \ {d}, !.cur = d,
                               !.kids = {c \in Children(d) : Last(c) \notin host.ignored}]
             ELSE [walk EXCEPT !.todo = @ \ {d}]
  /\ UNCHANGED <<fs, kernel, watches, roots, calls, gen, rest, closed>>

\* _add_watch for the listed directory: nothing if the path has an entry; an OSError (the
\* directory is gone, the limit is reached, the descriptor is closed) is logged only.
AddWatch(d) ==
  \/ /\ \/ watches[d] # NoWd \/ ~Exists(d) \/ closed
        \/ WatchOn(d) = NoWd /\ Cardinality({w \in Wd : kino[w] # Absent}) >= host.watches
     /\ UNCHANGED <<kino, nwd, kpath, watches>>
  \/ /\ watches[d] = NoWd /\ Exists(d) /\ ~closed
     /\ WatchOn(d) = NoWd => Cardinality({w \in Wd : kino[w] # Absent}) < host.watches
     /\ LET w == IF WatchOn(d) = NoWd THEN nwd + 1 ELSE WatchOn(d) IN
          /\ w \in Wd
          /\ nwd' = IF WatchOn(d) = NoWd THEN w ELSE nwd
          /\ kino' = [kino EXCEPT ![w] = ino[d]]
          /\ kpath' = [kpath EXCEPT ![w] = d]
          /\ watches' = [watches EXCEPT ![d] = w]

WalkWatch ==
  /\ Busy /\ walk.cur # NoDir
  /\ AddWatch(walk.cur)
  /\ walk' = [walk EXCEPT !.cur = NoDir, !.todo = @ \cup walk.kids, !.kids = {}]
  /\ UNCHANGED <<fs, queue, roots, calls, gen, rest, closed>>

\* The walk is over; events() goes on to yield the synthetic events it collected.
WalkDone ==
  /\ Busy /\ walk.cur = NoDir /\ walk.todo = {}
  /\ walk' = NoWalk
  /\ gen' = IF walk.by = "events" THEN "yield" ELSE gen
  /\ UNCHANGED <<fs, kernel, watches, roots, calls, rest, closed>>

\* Bug variant: the watches stay in the kernel.
RemoveEntries(ps) ==
  /\ watches' = [d \in Dir |-> IF \E p \in ps : Under(d, p) THEN NoWd ELSE watches[d]]
  /\ UNCHANGED <<kino, kpath>>

\* _remove_watch_tree: drop every entry at or under p, and its watch in the kernel.
RemoveTrees(ps) ==
  LET doomed == {d \in Dir : watches[d] # NoWd /\ \E p \in ps : Under(d, p)}
      gone == {watches[d] : d \in doomed} IN
  /\ watches' = [d \in Dir |-> IF d \in doomed THEN NoWd ELSE watches[d]]
  /\ kino' = [w \in Wd |-> IF w \in gone THEN Absent ELSE kino[w]]
  /\ kpath' = [w \in Wd |-> IF w \in gone THEN NoDir ELSE kpath[w]]

\* set_roots: drop the trees of roots that are gone, walk the added ones that exist, and
\* record the new set.  It runs while events() is suspended in a read or at a yield.
SetRoots(new) ==
  /\ ~Busy /\ ~closed /\ new \in host.rootSets /\ new # roots /\ calls < host.maxCalls
  /\ RemoveTrees(roots \ new)
  /\ walk' = StartWalk("set_roots", {r \in new \ roots : Exists(r) /\ ~IsIgnored(r)})
  /\ roots' = new
  /\ calls' = calls + 1
  /\ UNCHANGED <<fs, queue, nwd, gen, rest, closed>>

-----------------------------------------------------------------------------
(* events() *)

\* Go on after a yield, or after an overflow event: walk what is left, then read again.
Proceed(left) ==
  \/ /\ left = {}
     /\ gen' = "get" /\ rest' = {}
     /\ UNCHANGED walk
  \/ \E r \in left : /\ walk' = StartWalk("events", {r})
                     /\ gen' = "walk" /\ rest' = left \ {r}

\* The path of an event: that of its Watch, and the entry's name.
PathOf(e) == Append(kpath[e.wd], e.name)

\* Queue overflow: re-attach watches under all roots.
ReadOverflow ==
  /\ gen = "get" /\ ~Busy /\ queue # <<>> /\ Head(queue) = Overflow
  /\ queue' = Tail(queue)
  /\ Proceed(roots)
  /\ UNCHANGED <<fs, kino, nwd, kpath, watches, roots, calls, closed>>

\* Bug variant: an event is expected to have a path.
UnresolvedIfIgnored(e) == IsIgnored(PathOf(e))

\* An event of a watch that was removed meanwhile has no path; one that concerns an ignored
\* path is skipped as well.
Unresolved(e) == kpath[e.wd] = NoDir \/ IsIgnored(PathOf(e))

ReadSkipped ==
  /\ gen = "get" /\ ~Busy /\ queue # <<>> /\ Head(queue) # Overflow
  /\ Unresolved(Head(queue))
  /\ queue' = Tail(queue)
  /\ UNCHANGED <<fs, kino, nwd, kpath, watches, roots, calls, gen, rest, walk, closed>>

\* Bug variant: a directory that appears is not walked.
ReadAppearedNoWalk ==
  /\ gen = "get" /\ ~Busy /\ queue # <<>> /\ Head(queue).kind = "in"
  /\ ~Unresolved(Head(queue))
  /\ queue' = Tail(queue)
  /\ gen' = "yield" /\ rest' = {}
  /\ UNCHANGED <<fs, kino, nwd, kpath, watches, roots, calls, walk, closed>>

\* A directory appeared: yield its event; when the consumer comes back, walk it.
ReadAppeared ==
  /\ gen = "get" /\ ~Busy /\ queue # <<>> /\ Head(queue).kind = "in"
  /\ ~Unresolved(Head(queue))
  /\ queue' = Tail(queue)
  /\ gen' = "yield" /\ rest' = {PathOf(Head(queue))}
  /\ UNCHANGED <<fs, kino, nwd, kpath, watches, roots, calls, walk, closed>>

\* A directory went away: drop the watches of its tree, then yield its event.
ReadVanished ==
  /\ gen = "get" /\ ~Busy /\ queue # <<>> /\ Head(queue).kind = "out"
  /\ ~Unresolved(Head(queue))
  /\ queue' = Tail(queue)
  /\ RemoveTrees({PathOf(Head(queue))})
  /\ gen' = "yield" /\ rest' = {}
  /\ UNCHANGED <<fs, nwd, roots, calls, walk, closed>>

\* Bug variant: a resync starts over after every root.
ResumeFromScratch ==
  /\ gen = "yield" /\ ~Busy
  /\ Proceed(roots)
  /\ UNCHANGED <<fs, kernel, watches, roots, calls, closed>>

\* The consumer has handled what was yielded and asks for more.
Resume ==
  /\ gen = "yield" /\ ~Busy
  /\ Proceed(rest)
  /\ UNCHANGED <<fs, kernel, watches, roots, calls, closed>>

\* aclose(): the descriptor is closed, and with it every watch and queued event.
Aclose ==
  /\ ~Busy /\ ~closed
  /\ closed' = TRUE
  /\ watches' = [d \in Dir |-> NoWd]
  /\ kino' = [w \in Wd |-> Absent]
  /\ queue' = <<>>
  /\ UNCHANGED <<fs, nwd, kpath, roots, calls, gen, rest, walk>>

\* Bug variant: a suspended read is not interrupted.
EndOnEvent ==
  /\ gen = "get" /\ closed /\ queue # <<>>
  /\ gen' = "ended"
  /\ UNCHANGED <<fs, kernel, watches, roots, calls, rest, walk, closed>>

\* The read that aclose() cancelled, or the next one on the closed descriptor, ends events().
End ==
  /\ gen = "get" /\ closed
  /\ gen' = "ended"
  /\ UNCHANGED <<fs, kernel, watches, roots, calls, rest, walk, closed>>

FileSystem == \/ \E d \in Dir : Mkdir(d) \/ Rmdir(d)
              \/ \E a, b \in Dir : Rename(a, b)

Walking == (\E d \in walk.todo : WalkList(d)) \/ WalkWatch \/ WalkDone

Reading == ReadOverflow \/ ReadSkipped \/ ReadAppeared \/ ReadVanished

Next == \/ FileSystem \/ Walking \/ Reading \/ Resume
        \/ \E new \in host.rootSets : SetRoots(new)
        \/ Aclose \/ End

\* The event loop runs a walk to its end, and its FIFO queue gives the reader and the
\* consumer their turn between any number of set_roots() calls.
Fairness == WF_vars(Walking) /\ SF_vars(Reading) /\ SF_vars(Resume) /\ SF_vars(End)

Spec == Init /\ [][Next]_vars
FairSpec == Spec /\ Fairness

-----------------------------------------------------------------------------
Event == [wd : Wd, name : Name, kind : {"in", "out"}] \cup {Overflow}

\* What an event may name, and a walk start at: an entry of what is or was a directory.
Place == Dir \cup {Append(d, n) : d \in Dir, n \in Name}

\* The type of the state.
TypeOK == /\ host \in Hosts
          /\ ino \in [Dir -> 0 .. host.maxOps] /\ ops \in 0 .. host.maxOps
          /\ kino \in [Wd -> 0 .. host.maxOps] /\ kpath \in [Wd -> Dir \cup {NoDir}]
          /\ queue \in Seq(Event) /\ Len(queue) <= host.queue + 1 /\ nwd \in 0 .. MaxWd
          /\ watches \in [Dir -> Wd \cup {NoWd}]
          /\ roots \subseteq Dir /\ calls \in 0 .. host.maxCalls /\ rest \subseteq Place
          /\ gen \in {"get", "walk", "yield", "ended"}
          /\ walk \in [by : {"nobody", "events", "set_roots"}, todo : SUBSET Place,
                       cur : Dir \cup {NoDir}, kids : SUBSET Dir]
          /\ closed \in BOOLEAN

\* No watch is leaked to the kernel: whatever was renamed, removed or re-rooted, each active
\* watch is one of _watches, so that a later removal can find it.
NoOrphanWatch ==
  \A w \in Wd : kino[w] # Absent => \E d \in Dir : watches[d] = w

\* Nothing is left to do: no event queued, nobody walking, the reader waits.
Settled == gen = "get" /\ ~Busy /\ queue = <<>> /\ ~closed

\* A host on which nothing gets in the reader's way: no walk races the file system, neither
\* queue nor watches run out, every rename is between siblings and takes no root along, and
\* the roots are set once.
Calm == /\ host.racy = {} /\ host.maxCalls = 1
        /\ host.queue > 2 * host.maxOps /\ host.watches >= Cardinality(Dir)
        /\ \A move \in host.renames :
             /\ Parent(move[1]) = Parent(move[2])
             /\ \A R \in host.rootSets : \A r \in R : ~Under(r, move[1])

\* The root is there, and has been since it was set.
Attached(r) == Exists(r) /\ watches[r] # NoWd /\ kino[watches[r]] = ino[r]

Wanted(d) == Exists(d) /\ ~IsIgnored(d) /\ \E r \in roots : Attached(r) /\ Under(d, r)

\* The watcher is recursive: on a calm host, when everything has settled, every directory that
\* exists under a root is watched, under its own name - under a root that was there when it
\* was set, and was not removed since.
Coverage ==
  Calm /\ Settled =>
    /\ \A r \in roots \ host.mutable : IsIgnored(r) \/ Attached(r)
    /\ \A d \in Dir : Wanted(d) =>
         watches[d] # NoWd /\ kino[watches[d]] = ino[d] /\ kpath[watches[d]] = d

\* Bug variant: the walk starts below the root.
CountedBelow(r, d) ==
  Exists(d) /\ Len(d) > Len(r) /\ \A i \in Len(r) + 1 .. Len(d) : d[i] \notin host.ignored

\* count_dirs() counts d for root r: r itself, whatever its name, and every directory below
\* that no ignored name leads to.  A missing root counts zero.
Counted(r, d) ==
  Exists(d) /\ Exists(r) /\ Under(d, r) /\ \A i \in Len(r) + 1 .. Len(d) : d[i] \notin host.ignored

\* The gate of the watch limit is about the directories "that will be watched"
\* (watch_limit.py): on a calm host where nothing is renamed to an ignored name, every watch the
\* kernel holds is on a directory that count_dirs() would count now, so that a limit that is
\* high enough for the count is high enough for the watcher.
EveryWatchCounted ==
  Calm /\ (\A move \in host.renames : Last(move[2]) \notin host.ignored) =>
          \A w \in Wd : kino[w] # Absent =>
            \E r \in roots, d \in Dir : Counted(r, d) /\ ino[d] = kino[w]

\* aclose() terminates the event stream.
CloseEndsStream == closed ~> gen = "ended"

\* The reader always comes back to its read: no event, overflow or walk wedges it.
ReaderReturns == gen = "yield" ~> gen \in {"get", "ended"}
=============================================================================
