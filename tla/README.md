# Verification of MediaScanMonitor

MediaScanMonitor watches directory trees with inotify and tells media servers
(Plex, Emby, Jellyfin, Audiobookshelf, a webhook) to rescan what changed.  It is
one Python process with one asyncio event loop; blocking work (SQLite, counting
directories) runs in worker threads.  This directory holds TLA+ models of it,
the TLC configurations that check them, and proofs for TLAPS.  File names below
are relative to `src/mediascanmonitor/`.

## The system

| component | state it keeps | operations | properties that make it correct |
|---|---|---|---|
| Watcher `watcher/inotify_backend.py` | `_watches` (path to watch), `_roots`, `_closing`, the read task | `set_roots`, `events`, `aclose` | every directory under a root is watched under its own name; no watch is leaked; closing ends the stream |
| Watch limit `watcher/watch_limit.py` | none | `check_watch_limit` | the verdict counts the directories that will be watched |
| Router and filters `pipeline/router.py`, `filters.py`, `normalize.py` | none (pure) | `route` | one request per matching (server, folder) route; the scan finds the file |
| Debouncer `pipeline/debounce.py` | `_servers`, `_timers` (one task per key) | `submit`, `update_servers`, `aclose` | trailing edge: one dispatch per burst, of the newest request; nothing dispatched twice or lost |
| Dispatcher `pipeline/dispatcher.py` | `_adapters` | `dispatch`, `set_adapters` | an adapter that fails never stops the loop |
| Adapters `servers/*.py` | an HTTP client | `trigger`, the retry loop, probes | bounded retries; every outcome is reported once; the call made finds the file |
| Engine `engine.py`, `config/runtime.py` | configuration snapshot, dispatcher, debouncer, clients, lock, state, watch limit | `start`, `rebuild`, `aclose` | one consistent snapshot; every committed change is picked up; no client leaks; blocked and running follow the gate |
| Headless server `cli.py` | stop event, exit code | `serve_headless` | the exit code tells why; a stop ends the process |
| Web server `web/server.py` | stop event | `serve_web` | the shutdown ends and releases everything |
| Configuration writes `web/writes.py`, `db/repo.py`, `web/api/*` | the SQLite database | create, update, delete, recheck | an enabled server has its secret; each commit is followed by a rebuild |
| Event buses and SSE `observ/events_bus.py`, `web/pages.py` | ring of recent records, one bounded queue per subscriber | `publish`, `subscribe`, `recent` | a slow subscriber loses only the oldest records |
| Authentication `web/auth.py`, `web/deps.py` | password file, hash, must-change flag, session cookie | bootstrap, login, logout, change, reset, setup, the guards | a generated password in force can be read in the file; it has to be changed; nothing is served without a password; no redirects go in circles |
| Login throttle `web/ratelimit.py`, `web/app.py` | the recent attempts of each client, for logins and for resets | `allowed`, `record_failure`, `reset` | a bound over every window; nobody is refused for what somebody else did |
| Schema, sessions, crypto, migrations; pages, probes, logging | rows | declarative | not modelled: no control of their own |

**How they interact.** The consume loop of `Engine.start` awaits
`watcher.events()`, routes each event against a local copy of the snapshot and
awaits `debouncer.submit` for each request; a timer task later calls
`Engine._dispatch`, which looks the adapter up in the dispatcher's current map.  A
web request commits to the database in a worker thread and then awaits
`rebuild_engine`, which reads a new snapshot under `Engine._lock` and swaps it into
the debouncer, the dispatcher, the watcher and the engine without an await in
between.  `serve_web` and `serve_headless` own the start task and call `aclose`.

**What is hard.** Everything shares one loop, so the interleavings are those of
the awaits: a timer that wakes in the turn in which it is replaced, two rebuilds,
a rebuild that overlaps `start()`, a shutdown in the middle of either.  Reads of
the database are separate transactions.  Other processes change the file system
between any two system calls, the kernel's queue overflows, and watches run out.
`PROJECT.json` lists these hazards, each at its line, with the properties that
would catch it.

## The modules

| module | models | remarks |
|---|---|---|
| `TrailingDebounce` | what a trailing-edge debouncer promises | abstract: per key a pending request and the time left |
| `Debouncer` | `pipeline/debounce.py` | one task per timer; refines `TrailingDebounce` |
| `Engine` | `engine.py`, `web/rebuild.py`, the reads of `config/runtime.py`, the verdict of `watch_limit.py` | one step per turn of a task |
| `ServeHeadless` | `cli.serve_headless` | extends `Engine`, no web requests |
| `ServeWeb` | `web/server.serve_web` | extends `Engine`; uvicorn is external |
| `InotifyBackend` | `watcher/inotify_backend.py` | over a model of the file system and of inotify (external) |
| `Routing` | `pipeline/router.py`, `pipeline/filters.py` | operators only |
| `Adapters` | `trigger` of the adapters in `servers/` and the choice of `registry.py` | operators only; extends `Routing` |
| `EventsBus` | `observ/events_bus.py`, the SSE generators of `web/pages.py` | a specification of its own, and the `Publish` of `Pipeline` |
| `Pipeline` | `_handle_event` and `_dispatch` of `engine.py`, `pipeline/dispatcher.py`, `servers/http.py`, the swap as they see it | extends `Adapters` and `EventsBus` |
| `Credentials` | `web/auth.py`: bootstrap, reset, change and setup of the password | over crashes and failing writes |
| `Access` | `web/ratelimit.py`, `web/deps.py`, the handlers of `web/auth.py` that use them | over several tabs and a restart |
| `Writes` | `web/writes.py`, the write endpoints of `web/api`, `db/repo.py` | the tables of servers and folders under overlapping requests |
| `MCDebouncer`, `MCEngine`, `MCInotifyBackend`, `MCPipeline`, `MCEventsBus`, `MCCredentials`, `MCAccess`, `MCWrites` | values of the constants, symmetry | for TLC |
| `DebouncerProofs`, `EngineProofs` (with the two `Serve...` modules), `InotifyProofs`, `EventsBusProofs`, `PipelineProofs`, `CredentialsProofs`, `AccessProofs`, `WritesProofs` | theorems and proofs | for TLAPS |

Operators named `...Without...`, `...Keeps...` and the like, marked "Bug variant", are
not used by any specification: each is a plausible mistake in the operator after
it, kept to show that the properties notice it (`mutants` in `PROJECT.json`).

**Debouncer.**  `timers` is `_timers`; a task is named by its request.  `pc[r]` is
where the task is: created and not yet run (`ready`), in its sleep, in its dispatch,
or in an immediate dispatch of the caller (`inline`).  `cancelled` holds the tasks
`cancel()` was called on: the CancelledError arrives in the task's next turn
(`Resume`), or ends a task that has not run yet (`StartSleep`).  So a sleep that has
ended and a cancellation that follows it in the same turn are two steps, which is
the race the identity test at `debounce.py:69` is for.  Time passes in whole units;
a sleep may be resumed late, never early.

**Engine.**  A task is `start()` or a web request; `pc` tells the await it is at, `cfg`,
`policy` and `measured` are its locals.  `build_runtime_config` lists the servers and
reads their folders in sessions of their own, so another request may commit between
the two (`ReadServers`, `ReadFolders`).  The folders are read in a session per server; the model reads
them all at once, so a commit between two servers' folders is left out.  The gate reads the policy and then measures
(`ReadPolicy`, `Measure`).  Everything from the last of these awaits to the next is one
step: `StartWire`, `StartAttach`, `RebuildSwap`.  When there is no path to watch the
gate awaits nothing and the swap happens in the same step as the building of the
clients, as in the code.  A client is named by the task that built it and its server.
The watch limit is counted in paths: what matters is that the verdict compares what
was read with what the host allows at that moment.  Events, requests and dispatches are
the subject of `Pipeline`.

**Routing.**  A path is the sequence of its segments and a segment is what
`rpartition(".")` makes of it, so that the cases of `extension_matches` (no dot, a leading
dot, upper case) are kept and no string is taken apart.  `_is_path_prefix` on normalised
strings is the prefix of sequences.

**Adapters.**  A call is what the server is asked to look at: a library, and a path in it or the
whole of it.  Only Plex in targeted mode and the webhook name a path; Emby, Jellyfin and
Audiobookshelf refresh a library whatever the mode.  `Finds` says when a call made for one request also
does for an earlier one with its key.  A server's type may change while a request waits, so a request can
meet an adapter it was not routed for.

**Pipeline.**  `jobs` lists the requests that reached `submit()` and what became of each:
waiting for its window, superseded, dropped with its server, sent, in its backoff, done.  `call` is
what its adapter asked for, and `by` the job that carries it out: its own, or that of the request that
superseded it (history).  A webhook without a URL, or with a template that cannot be rendered, fails
before it sends anything (`SubmitUnsent`, and the same when a timer fires).
The consume loop holds the event loop from one awaited dispatch to the next (`Yielding`), so
nothing comes between two requests of one event unless the first is dispatched
immediately.  The event is routed once, under the configuration of its turn; the policy
and the adapter of each of its requests are those of the moment it is submitted or
fired, which a rebuild may have changed since.  A rebuild is its swap followed by the
closing of the replaced clients; a dispatch that still uses one fails at its next
attempt.  The timers are abstract: a waiting request may fire at any time, which is
what `debouncer` shows the tasks to implement.

**EventsBus.**  A record is its number on its bus.  A viewer's generator replays what
`recent()` returned, is suspended while each frame is sent, and subscribes after the last
one, or at once when there was none.

**Credentials.**  Three places are written one after the other: the
file, the flag (`mustChange`) and the hash; a change writes them in the opposite order.  The file takes
three steps: `Open` truncates it, `Write` fills it (one that was unlinked meanwhile is no longer `linked`
to the path), `Chmod` needs it to be there.  Every step may fail.  `FileFails` is an `OSError` of any of the three, and may
leave the file empty, torn (`Partial`) or complete; `StoreFails` is an error of the database, whose row then stays as it was.
Both end the writer where it is (`Raises`): a reset is answered with its error page or with 500, a change with
its flag and its file not cleared, and a bootstrap ends the process.  The process may also die between any two
steps (`Crash`); a failure of the machine, which may lose a file that was written and not synced, is left out.  The
hash is modelled by the password it is the hash of: a generated one is the number of its
generation, `Own` is whatever a person chose.  `seen` are the generated passwords somebody has read in
the file, so `Known` is what can be typed at a login or a change.  Logins write
nothing here, and changes that are refused or fail before they write change nothing at all; logins are in `Access`.
`trouble` remembers that a reset went wrong since the last one that ran alone and stored its hash: it failed or died after
truncating the file and before storing the hash (`HalfReset`), or there was another writer beside it.  A bootstrap and a
change that fail or die are no trouble, nor are changes that overlap.

**Access.**  A client is an address with one cookie; its tabs ask for pages and submit forms at the same
time.  A tab follows redirects with the cookie it had when it asked.  What runs in a thread (checking a
password, generating one) begins in one step and ends in a later one, so that several logins may be past
`allowed()` before the first is counted.  `failures` is what the limiter stores, `count` what it ought to:
every attempt since the client last got in.  A restart empties the limiters; the signed cookies stay
valid.  Which password is in force is left to `Credentials`: one that is typed is right or wrong.

**Writes.**  A call of a `Repo` method is a thread with a session of its own, and SQLite
begins the transaction at the flush: what a method read before may be stale when it commits.
So a request is checked (`CheckUpdate`, `CheckFolder`, ...), reads its row again (`ReadUpdate`)
and commits (`WriteUpdate`) in steps of their own.  The ORM writes only the columns that
differ from the row it read, inserts before it deletes, and deletes by the ids it read; an
UPDATE that matches no row and an INSERT without its server roll back.  A row's id is its
rowid and is given out again after a deletion, so rows remember when they were made
(`made`, `owner`) and when they were last written (`stamp`, `edited`); `excused` marks what the gate
could not see.  Refused requests write nothing and are left out, as are the unique names.

**ServeHeadless, ServeWeb.**  The engine's actions, restricted to what the caller's
task can do, with the signal, the return of `asyncio.wait`, the beginning of
`aclose` in the same turn, the cancellation of the start task (web only) and the final
awaits.  `serve_web` waits for `serve_task`, that is until uvicorn has drained the
requests it accepted.  That a failed start comes out of `serve_web` or `serve_headless` as an exception, and not as a
return, is not told apart: no property is about it.

**InotifyBackend.**  A directory is a path; `ino` gives its inode.  The kernel holds one
watch per inode (`kino`), the queue and its overflow event; asyncinotify maps a
descriptor to the path its watch was added with (`kpath`), which a rename does not
change, and is assumed to forget the descriptor of a watch when the watch is removed.  `events()` is suspended at its read (`get`) or at a `yield`.  A walk is
listed directory by directory (`WalkList`, then `WalkWatch`); other processes may
change the file system between these if `host.racy` names the caller.  `host` says what the program meets:
ignored names, which directories come and go, the renames, the arguments of `set_roots`, the
kernel's limits on events and watches.  `Calm` is a host on which nothing of this stands in the
reader's way, and `Coverage` and `EveryWatchCounted` are about calm hosts; the other properties hold on
every host.  Files are left out: a file is reported exactly if its directory is watched or walked.

## The runs

| run | bounds | what it shows |
|---|---|---|
| `debouncer` | 2 servers, 1 scan key each, 3 requests, windows of one unit | `TypeOK`, `AtMostOneDispatch`, `AcloseNeverAwaitsDispatch`, `TrailingCarriesLatest`, the refinement of `TrailingDebounce`; under fairness `EveryRequestSettles` and `AcloseTerminates` |
| `engine` | 2 servers (one without an adapter), 2 paths, 2 requests, limits 0 and 1, any read may fail | `TypeOK`, `NoClientLeak`, `PicksUpEveryChange`, `GateIsCurrent`, `RootsFollowConfig` for requests that arrive once `start()` is in its loop or over |
| `engine_early_roots` | 1 server, 1 path, 1 request that may arrive earlier | finding: `RootsFollowConfig` fails |
| `headless` | 1 server, 2 paths, any read may fail | `ExitCodeTellsBlocked`, `ExitReleasesClients`; under fairness `BlockedExits` |
| `headless_stop` | the same | finding: `StopEndsProcess` fails |
| `web` | 1 server, 1 path, limit 0 (the policy decides), 2 requests at any time, any read may fail, a signal or the stop event at any time | `ExitReleasesAll`; under fairness `EveryRequestAnswered`, `ShutdownEnds` |
| `inotify` | 7 directories in 3 levels under 2 roots; three hosts: `Library` (7 changes, renames between siblings), `Disks` (6 changes, roots that nest, are ignored or missing), `Hostile` (4 changes, a queue of 1, 2 watches, 3 calls of `set_roots`, walks that race) | `TypeOK`, `Coverage`, `EveryWatchCounted`, `NoOrphanWatch`; under fairness `ReaderReturns`, `CloseEndsStream` |
| `pipeline` | 2 events of 4, 5 configurations with up to 2 routes, 1 rebuild, 2 attempts; a server without an adapter, one in mode off, one removed, one whose type changes, a broken webhook | `TypeOK`, `OneRecordPerDispatch`, `CoalescedScanFinds`, `StartsOnOpenClient`; under fairness `EveryRequestSettles` |
| `events_bus` | 2 browsers, 5 records on each of 2 buses, a ring of 3, a replay of 2, queues of 2 | `BusTypeOK`, `FeedInOrder` |
| `credentials` | 3 requests of any kind, overlapping or not, 4 generated passwords, 3 crashes; every operation on the file and every transaction may fail | `Recoverable`, `GeneratedMustChange` |
| `access` | 2 tabs of 1 or 2 clients, 3 attempts, 2 units of time, at most 2 logins in 2 units and 1 reset in 1 unit | `TypeOK`, `AttemptsBounded`, `RefusedForAReason`; under fairness `EveryTabShows` |
| `writes` | 2 servers with a folder each at first, 3 requests of any kind, forms of at most 1 folder | `FoldersFollowServer`, `TokenMandatory`, `NoIdLeak` |

Why these bounds are enough.  The debouncer treats keys independently except in
`update_servers` and `aclose`, which two keys of two servers tell apart; three requests
are a burst with one to spare.  Two rebuilds are the smallest overlap, and the lock
makes a third wait; the proofs of the same properties hold for any number.  The changes of `Library` are enough to create,
rename and remove a two-level subtree while its own events are still queued; `Disks` can unmount and mount a root that is
set, and nest one in another; on `Hostile` a queue of one overflows at the second change.  Two events
of two routes give four requests, enough for a key to be superseded within an event and
between two; with two attempts a dispatch passes through its backoff, where the one rebuild
may close its client.  Five records overflow the ring and the queues twice.
Three writers of the password are an overlap and the undisturbed reset that repairs it; three
crashes fall into the bootstrap, a reset and a change of one run.  Three writes of two servers
are enough to delete a row under a request that has checked it and to give its id to
another row before that request commits.  Three attempts of a maximum of two reach the refusal of a login
and of a reset, and two tabs of one client are the overlap that exceeds it; two units of time let the window of
the resets pass and that of the logins not.  In
every run the bounds on counters (`MaxReq`, `host.maxOps`, `host.maxCalls`, `MaxWd`, `MaxEvents`,
`MaxRebuilds`, `MaxPublished`, `MaxGenerated`,
`MaxCrashes`, `MaxTime`, `MaxTried`, `MaxRows`, one request per `Rebuilder`) only stop the environment; the program is never stopped by
one.  Deadlock is not checked, because with these bounds, and after a close, the
system rightly stops.

**Fairness.**  A runnable task of the event loop gets its turn (weak fairness of each
task's steps); worker threads finish; sleeping ends.  Dispatches end because every HTTP
call has a timeout and the number of retries is bounded.  `asyncio.Lock` is first come,
first served, so a waiting rebuild gets it (strong fairness of `Rebuilding`).
inotify's reader is strongly fair because changes by others may keep it from being
continuously enabled.  A browser's request is answered and the thread it started ends
(`Access`).  Uvicorn's drain ends: an event stream that stays open delays it until its browser goes
away, for the server is given no time limit.  Nobody is obliged to send a request, to change a file or to
stop the process.

## What is proved

The eight proof modules prove, for all values of the constants that
satisfy the assumptions of the modules (any servers, keys, paths, configurations, requests, tabs and
windows; a limit that is a natural number; sizes of queues and rings, numbers of attempts and maxima that are
not zero; `NoServer`, `NoTask`, `NoPassword`, `Partial` and `Own` different from the rest):

* of the debouncer: `TypeOK`, `TimerOwnership`, `AtMostOneDispatch`,
  `AcloseNeverAwaitsDispatch`, `TrailingCarriesLatest`, `GivenUpForAReason`, and that it
  implements `TrailingDebounce`;
* of the engine: `TypeOK`, `ThreeMapsAgree`, `NoClientLeak`, and, for engines whose
  requests arrive after `start()` has reached its loop, `PicksUpEveryChange`,
  `GateIsCurrent` and `RootsFollowConfig`;
* of the two processes around it: `ExitCodeTellsBlocked` and `ExitReleasesClients` (headless),
  `ExitReleasesAll` (web), and that both implement `Engine`;
* of the watcher: `TypeOK` and `NoOrphanWatch`, on any host and for any tree; `EveryWatchCounted` and `Coverage`, on calm hosts;
* of the event buses: `BusTypeOK` and `FeedInOrder`;
* of the pipeline: `TypeOK`, `OneRecordPerDispatch`, `CoalescedScanFinds` and `StartsOnOpenClient`;
* of the password, whichever of its writes fail: `TypeOK`, `Recoverable`, `GeneratedMustChange` and `SetBeforeServing`;
* of the access to the pages: `TypeOK`, `AttemptsBounded` and `RefusedForAReason`;
* of the writes: `FoldersFollowServer`, `TokenMandatory` and `NoIdLeak`.

`TimerOwnership`, `GivenUpForAReason`, `ThreeMapsAgree`, `SetBeforeServing` and the `TypeOK` of
`Credentials` are proved and not part of a run.

**Debouncer: the inductive invariant.**  `AtMostOneDispatch` is not inductive: a task
about to dispatch must know that it has not done so.  `IInv` adds that exactly
the waiting, uncancelled task of a key is registered, that requests are numbered in the
order of submission, that the tasks of a key older than the registered one are
cancelled or past their wait, and that what `aclose` awaits was cancelled while it
waited.  Each step lemma (`StepSubmitTrailing`, `StepResume`, ...) shows that one action
keeps all of it.  The refinement maps each concrete step to a step or a stutter:
`SubmitTrailing` is `Arm` whatever the old task does afterwards, the turn in which a
cancelled task ends is a stutter, and `Resume` is `Fire` exactly if the task is the
registered one.

**Engine: the inductive invariant.**  It is built in layers, each proved from the ones below:
`TypeOK`; `Mutex` (only the holder of the lock is between reading and closing) and
`WiredByStart` (before the pipeline exists no rebuild is under way); `Ownership` (the
engine's clients and those being closed are different ones, and adapters use the
engine's); `OpenIsHeld`, from which `NoClientLeak` follows.  For what is committed:
`LateWrites` (no request before the loop), `Snapshot` (what a task has read is what the
database held, unless a request that committed since has not started its rebuild), and
`UpToDate` (the published configuration is that of the database, or somebody is
still going to read it).  The theorems about up-to-dateness assume `~EarlyWrites`: without it
they are false, as `engine_early_roots` shows.

**Event buses: the inductive invariant.**  The rings and the queues are runs without a hole that
end at the last record published (`EndsAt`).  `FeedInOrder` follows once it is known that the
records still queued for a viewer are fewer than those published after the last one shown
(`shown + Len(queue) <= published`), and that the replay and the queue are never both
in use.  That a suffix of such a run is one, that a push keeps it, and that such a run is
in order are lemmas about the operators.

**Password: the inductive invariant.**  `Recoverable` needs to know, of each writer, what it wrote
before: `BootOK` for the bootstrap, which no request disturbs because nothing is served yet, and which
has nothing in force to lose until its last write; `Undisturbed` for a request that had no other writer beside it, whose
open file is still the one at the path, and in which file, flag and hash are still as it left them.  `Calm` says that
without trouble every reset is such a request, and that a change which has its flag or file to clear yet has
its own hash in force.  `StepRaises` is the one lemma for all errors: an unfinished bootstrap has stored no hash, an unfinished
change none but the owner's, and an unfinished reset is trouble.

**Processes: the inductive invariants.**  The steps of `ServeHeadless` and `ServeWeb` are steps of the
engine or leave it alone (`HEngine`, `WEngine`), so that both implement `Engine` (`HeadlessIsEngine`, `WebIsEngine`) and what is known of every reachable engine
(`Base`, `Accounted`) is kept, and only what the process adds has to be shown.  `HControl` and `WControl` relate
how far the process has come to how far `aclose` and `start()` have; `HClients` follows the clients from `start()`
to the end of `aclose`; `HBlocked` carries the verdict of the gate to the exit code.  `Torn` says that once
the web process shuts down after a signal no request is under way or will come, so that whatever is open is about to be
closed or was abandoned by a failed rebuild.

**Watcher: the inductive invariants.**  `NoOrphanWatch` needs only the domains of the tables and that after a close
nothing is watched.  An entry is added under a path that has none (`AddKeeps`), so it takes no other
entry's place, and what is dropped from `_watches` is dropped in the kernel with it (`RemoveKeeps`), whichever
path the event it came from names by then.  `TypeOK` needs to know of the queue that it is over its limit only
with the overflow event last (`QueueOK`).  What is said of calm hosts rests on an order of paths (`UnderTrans`, `UnderChain`,
`FrontUnder`) and on what a rename does to them (`MovedIs`, `MovedBack`): the tree stays closed under parents,
no two directories share an inode, and no root moves (`TreeInv`).  `TableInv` says of the tables that an inode has one
watch (`OneWatch`), that the descriptor an event resolves by is the entry of the path it resolves to (`Attributed`),
that entries are at or under a root (`EntriesWanted`), that a walk stays there (`WalkShape`), and that a watch is on a directory
there (`Placed`), which is `EveryWatchCounted`: a rename between siblings takes no directory out of a root.

**Watcher: why it is recursive.**  `Coverage` is about settled states only, and its inductive invariant (`CoverInv`) has
to say what holds in between, while events are queued and a walk is half done.  A directory is `Sure` if no event ahead
of the reader (in the queue, or yielded and not yet walked) is about it or a directory above it, and `Walked` if
the walk under way does not come to it any more.  Where both hold the table is right already: entry and watch
fit the inode (`SureWatches`), and below a root what exists there is in the table and nothing else is (`Complete`).
Elsewhere the events ahead repair it, because of how they follow each other: nothing is in the table
below a directory whose first event ahead is that it appeared (`NothingYet`), between two appearances there is a
disappearance (`Alternate`), and the last event about a directory tells whether it exists (`LastTells`).  A walk
starts at a directory whose parent has an entry (`ParentsKnown`), which exists unless its disappearance is
ahead (`HeadsTold`, `HeadsReal`), and a walk from `events()` finds nothing in the table (`LaterWalk`), so that `_add_watch`,
which skips a path it has, skips nothing.  The hard case is a rename: the inode takes its watch along, the table keeps it under the old path.
`WatchesKept` says that such a watch either is the entry of its directory or is `Doomed`: the table has it under a path that an event ahead will
remove, and a later event will walk its directory.  When everything is read, everything is `Sure` and `Walked`, and
`Coverage` is what `SureWatches`, `Complete` and `RootsKept` say.  A `mkdir`, `rmdir` or rename between siblings is treated as one
kind of step, in which entries of one directory go away and others appear (`Change`, `Inherits`).

**Pipeline: the inductive invariant.**  `Legal` says of each job what its status implies: whether it has a
client, a call, and records.  `CarriedOut` says that `by` leads to a job with the same key, and `Counted` that as many
outcomes were published as jobs are done, from which `OneRecordPerDispatch` follows.  `AdaptersNew` (the adapters use open
clients of the newest generation) gives `StartsOnOpenClient`.  `CoalescedScanFinds` rests on `KeyCovers`, a lemma
about the operators of `Routing` and `Adapters` alone: of two requests with one key, the call any adapter makes
for either finds the file of the other.

**Access: the inductive invariant.**  `Consistent`: of the last window the limiter knows exactly what it ought to,
although it prunes its lists only when asked and forgets a client that got in.  `AttemptsBounded`
is inductive with it and with `AllFinite` and `Numbered` (the attempts under way have numbers of their own): a step that starts
a check passed `Allowed`, and one that ends it moves an attempt from the tabs to the list.

**Writes: the inductive invariant.**  `Checked`: what an update was checked against still is the row, or the row was
written since, which its stamp shows.  `Owned`: the folders a request has read belong to its server, or were
made since.  `Evolves` says that any commit leaves a row alone or marks it with its own number; so a request that does
not act keeps both, whatever the others do.  `NextIdFresh` (the next id is larger than all in use) keeps new
rows from replacing others.

**Only model-checked:** liveness under fairness, which is out of the prover's reach.

## Findings

* `engine_early_roots`.  `start()` awaits the gate after it has wired the pipeline and
  outside the lock.  A rebuild may complete meanwhile; `start()` then overwrites its roots
  and state with those of its own, older snapshot (`engine.py:105`).  The configuration
  routed with and the roots watched differ until the next write.
* `headless_stop`.  A stop signal during the first read calls `aclose()` while there is
  no watcher to close.  `start()` goes on, creates the watcher and enters its loop, and
  `serve_headless` awaits it without cancelling it (`cli.py:107`): the process does not end.

The models show more of the kind, which have no run of their own:

* The debounce key of a targeted request is its path without the library (`router.py:54`).  For
  folders `/tv` and `/tv/Anime` of two libraries of one Plex server, a file in `/tv/Anime` matches
  both, both requests have the key `/tv/Anime`, and the request for the first library is
  superseded by that for the second.  For a Jellyfin, Emby or Audiobookshelf server in targeted mode, which is the default,
  the first library is then not refreshed at all.  (The repository's README says that a burst is
  collapsed per server and scan target.)
* With `EarlyWrites = TRUE` `PicksUpEveryChange` fails: `rebuild()` raises while `start()` has
  read the servers and not wired the pipeline, `rebuild_engine` swallows it
  (`web/rebuild.py:20`), and the change waits for the next write.
* Without `~stopEvent` in `ExitReleasesAll` it fails: after a `stop_event` a request may outlive the
  teardown, because `engine.py:173` does not recognise a closed engine: `rebuild()` opens
  clients nobody closes and sets the state back to running.  (A signal is different: uvicorn
  drains the requests first.  In production there is only the signal; `stop_event` is a
  parameter of `serve_web`.)
* Each conjunct of `Calm` is needed for `Coverage`:
  - if walks race the file system: `os.walk` lists a directory before its watch is
    added (`inotify_backend.py:117-121`); a subdirectory created in between is in neither the
    listing nor the queue, and is never watched;
  - if the queue overflows: a removal that was lost leaves
    an entry in `_watches`, and the resync takes a directory of that name for watched
    (`inotify_backend.py:83`);
  - if watches run out: a directory `add_watch` failed for is skipped (`inotify_backend.py:87`), and nothing
    tries it again before the next resync;
  - if the roots change: dropping a root inside another one drops
    watches the outer root needs (`inotify_backend.py:133`), and events queued before the
    roots were cleared still add watches (`:182`);
  - if a root, or a directory above it, is renamed: its watch goes along, and what appears in it meanwhile
    is looked for under the old path (`inotify_backend.py:182`), so that it is missed when the root comes back;
  - if a directory moves into one created just before: it is
    watched by the walk of its new parent under a descriptor that its queued `moved_from` event
    then removes (`:192`).
* A root that is missing when it is set is never watched, also when it appears later: it stays in
  `_roots`, so the next `set_roots` does not retry it (`inotify_backend.py:135`), unless another root lies above it.
* A record published while a stream's replay is being sent is neither replayed nor
  queued (`web/pages.py:81-83`): a browser sees it only when it opens the page again.
* Without `~trouble` in `Recoverable` it fails: a reset may leave a generated password in force that nobody has read and
  that is no longer in the file, although the comment at `auth.py:99-100` rules out a lockout after a write failure.  After
  `auth.py:91` has truncated the file
  - the write at `:93` fails, and the file is empty or torn;
  - `path.chmod` at `:94` raises, and the file holds a password that is never stored.  In both cases the page
    says that the current password is unchanged (`:260`), which is true and of no use;
  - the commit of the flag at `:104`, or that of the hash at `:105`, fails: the file holds a password that is not stored.
    `:256` catches only `OSError`, so the answer is a 500.  By default the database is on the same volume as the file,
    and a full disk may hit either;
  - the process dies anywhere between `:91` and the commit at `:105`;
  - another reset, or a change, overlaps: the file keeps the password of one and the hash is that of the
    other, or the change removes the file (`:124`).

  In each case one more undisturbed reset helps.
* Without `~trouble` in `GeneratedMustChange` it fails: a change that overlaps a reset clears the flag of the
  generated password (`auth.py:121`), and removes its file.
* Without `excused` `TokenMandatory` fails in two ways.  Two updates overlap, one making a webhook a
  media server and the other removing its token; or an empty token is stored for a webhook, which needs
  none, and a later change of the type takes it for a token (`web/writes.py` asks only whether there
  is one), although a token is to be mandatory "at save time" (`web/api_schemas.py:138`).
* Without `made > since` `NoIdLeak` fails: the folder a request has checked is deleted, its id is
  given to a folder of another server, and the request changes that one.
* Two overlapping saves of a server's form may leave the folders of both: each deletes only the
  folders it read.
* `/setup` never sets a password in a served process (`SetBeforeServing`): `serve_web`
  has bootstrapped one before.  (Where none is set, two tabs may complete it at once, as the check and the write
  are apart, and the later password stays.)
* Logins sent at once are all past `allowed()` before the first is counted (`auth.py:211`): they exceed the maximum by
  as many as are under way, which is what the bound of `AttemptsBounded` allows.
* A server deleted and another created before the next rebuild may share an id (`debounce.py:52-56`): a timer armed for the
  first then stays and dispatches to the second.
* Events of one key that arrive closer together than its window postpone its dispatch for as long as they do
  (`debounce.py:45`); this is what a trailing edge means, and `EveryRequestSettles` says that each request is sent or superseded.
* A rebuild fails the dispatches that are in flight: `client.aclose()` comes right after the
  swap (`engine.py:210`), and a request in its backoff then ends with an error instead of
  its next attempt.  It is reported, and not repeated.

## Plan

1. (done) `TrailingDebounce`, `Debouncer`, `DebouncerProofs`.
2. (done) `Engine`, `EngineProofs`.
3. (done) `ServeHeadless`, `ServeWeb` over `Engine`; `InotifyBackend`, `InotifyProofs`.
4. (done) `Routing`, `Adapters`, `EventsBus`, `EventsBusProofs`, `Pipeline`, `PipelineProofs`.
5. (done) `Credentials`, `CredentialsProofs`; `Access`, `AccessProofs`.
6. (done) `Writes`, `WritesProofs`.
7. (done) A proof of `Coverage`, through every rename of a calm host.
8. The strings at the database's edge (`normalize.py`) and the headroom arithmetic of `watch_limit.py`,
   as operators checked against a reference definition.

## Not modelled

* The probes of the set-up pages (`test`, `list_libraries`), the file browser, the other sub-commands of `cli.py`:
  they read, or edit the database once, and keep no state.
* Headers, payload templates, the parsing of bodies, HTML, logging: no property depends on their text.  That a
  template cannot be rendered is modelled, how it is rendered is not.
* Normalising strings into paths and extensions: the models start from normalised ones.
* The factor of 1.2 by which `watch_limit.py` enlarges what it counted, and the limit it recommends: they only add
  to the count.
* Schema, migrations, encryption: declarative, or calls of libraries.  A secret that does not decrypt is a read that fails.
* Names, settings and other fields of servers and folders that no property tells apart.

A commit of SQLite is taken as atomic; the reads before it are steps of their own.  Uvicorn, asyncinotify, the kernel and
the file system are external, modelled by what the code relies on.

## Running

    tlc -workers 2 -config engine.cfg MCEngine
    tlapm EngineProofs.tla
