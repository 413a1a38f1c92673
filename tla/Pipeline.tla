-------------------------------- MODULE Pipeline --------------------------------
(***************************************************************************)
(* From a watcher event to the HTTP requests it leads to: the consume loop *)
(* (Engine._handle_event), Debouncer.submit, Engine._dispatch, Dispatcher, *)
(* and servers/http.py, while Engine.rebuild swaps the configuration and   *)
(* closes the clients it replaced.  Routing gives the requests of an       *)
(* event; EventsBus is what the outcomes are published on.                 *)
(*                                                                         *)
(* The timers of the debouncer are abstract here: a waiting request may    *)
(* fire at any time (Debouncer shows that its tasks implement this).  The  *)
(* engine's reads, its gate and its shutdown are the subject of Engine.    *)
(***************************************************************************)
EXTENDS Adapters, EventsBus, FiniteSets

CONSTANTS Server,       \* server ids
          Event,        \* what the watcher may report: [path, type]
          Config,       \* configurations: [routes, policy, type, broken]
          Unsupported,  \* servers create_adapter() raises for
          Attempts,     \* retry_attempts
          MaxEvents,    \* bound: events consumed
          MaxRebuilds   \* bound: rebuilds

Policy == {"gone", "off", "trailing"}  \* "gone": _servers has no such id

ASSUME AttemptsAssumption == Attempts \in Nat \ {0}
ASSUME PipelineBoundsAssumption == MaxEvents \in Nat /\ MaxRebuilds \in Nat
\* Paths are sequences of segments.
ASSUME PathAssumption ==
  /\ \A event \in Event : IsPath(event.path)
  /\ \A c \in Config : \A i \in DOMAIN c.routes : IsPath(c.routes[i].folder)
ASSUME ConfigAssumption ==
  \A c \in Config : /\ c.policy \in [Server -> Policy]
                    /\ c.type \in [Server -> ServerType]
                    \* webhooks without a URL, or whose templates cannot be rendered
                    /\ c.broken \subseteq {s \in Server : c.type[s] = "webhook"}
                    /\ c.routes \in Seq(Range(c.routes))
                    /\ \A i \in DOMAIN c.routes : c.policy[c.routes[i].server] # "gone"
ASSUME UnsupportedAssumption == Unsupported \subseteq Server

VARIABLES config,    \* Engine._config and Debouncer._servers
          adapters,  \* Dispatcher._adapters: server -> the client of its adapter
          open,      \* clients that are not closed
          gen,       \* how many rebuilds there were
          consumed,  \* how many events were consumed
          batch,     \* _handle_event: the requests still to submit
          awaiting,  \* _handle_event: the job whose dispatch submit() awaits, or NoJob
          jobs       \* the submitted requests, in order, and what became of them; "by" is
                     \* the job that carries a request out (history)

work == <<consumed, batch, awaiting, jobs>>
setup == <<config, adapters, open, gen>>
vars == <<setup, work, busVars>>

NoJob == 0
Job == DOMAIN jobs
Client == (0 .. MaxRebuilds) \X Server   \* the client a generation built for a server
NoClient == <<>>
Built(g, c) == {g} \X {s \in Server \ Unsupported : c.policy[s] # "gone"}
AdapterMap(clients) == [s \in {c[2] : c \in clients} |-> CHOOSE c \in clients : c[2] = s]

Init == /\ config \in Config
        /\ open = Built(0, config)
        /\ adapters = AdapterMap(open)
        /\ gen = 0 /\ consumed = 0
        /\ batch = {} /\ awaiting = NoJob
        /\ jobs = <<>>
        /\ BusInit

\* _handle_event runs from one awaited dispatch to the next without yielding.
Yielding == batch = {} \/ awaiting # NoJob
-----------------------------------------------------------------------------
(* The consume loop *)

\* The next event: routed under the configuration of this moment.
Consume(event) ==
  /\ batch = {} /\ awaiting = NoJob
  /\ consumed < MaxEvents
  /\ consumed' = consumed + 1
  /\ batch' = Requests(event, config.routes)
  /\ Publish("raw")
  /\ UNCHANGED <<setup, awaiting, jobs>>

\* A dispatch has ended: the job with one record more.
Ended(job) == [job EXCEPT !.status = "done", !.records = @ + 1]

\* Its outcome is published, and submit() is resumed if it awaited it.
Finish(n) ==
  /\ awaiting' = IF awaiting = n THEN NoJob ELSE awaiting
  /\ Publish("scan")

\* The turn of a request: the loop over reqs has come to it.
Turn(r) == ~Yielding /\ r \in batch /\ \A q \in batch : r.nr <= q.nr

NewId == Len(jobs) + 1
NewJob(request) ==
  [request |-> request, status |-> "waiting", client |-> NoClient, call |-> NoCall,
   tries |-> 1, by |-> NewId, records |-> 0]

\* Dispatcher.dispatch and the adapter's trigger() get to an HTTP request: there is an adapter,
\* and its webhook can be rendered.
Sends(s) == s \in DOMAIN adapters /\ s \notin config.broken
Sent(job) == [job EXCEPT !.status = "sent", !.client = adapters[job.request.server],
                         !.call = Call(config.type[job.request.server], job.request)]

\* submit() in mode off, or for a server that a rebuild removed meanwhile: the first
\* attempt starts at once and submit() awaits the outcome.
SubmitNow(r) ==
  /\ Turn(r) /\ config.policy[r.request.server] # "trailing"
  /\ Sends(r.request.server)
  /\ jobs' = Append(jobs, Sent(NewJob(r.request)))
  /\ awaiting' = NewId
  /\ batch' = batch \ {r}
  /\ UNCHANGED <<setup, consumed, busVars>>

\* The same without an HTTP request: the failure is published in the same turn.
SubmitUnsent(r) ==
  /\ Turn(r) /\ config.policy[r.request.server] # "trailing"
  /\ ~Sends(r.request.server)
  /\ jobs' = Append(jobs, Ended(NewJob(r.request)))
  /\ Finish(NewId)
  /\ batch' = batch \ {r}
  /\ UNCHANGED <<setup, consumed>>

SameKey(r, q) == r.server = q.server /\ r.key = q.key

\* The timer that a request cancels, if there is one.
Superseded(request) == {n \in Job : jobs[n].status = "waiting" /\ SameKey(jobs[n].request, request)}

\* submit() in mode trailing: the waiting request of the key is superseded.
SubmitTrailing(r) ==
  /\ Turn(r) /\ config.policy[r.request.server] = "trailing"
  /\ LET old == Superseded(r.request) IN
     jobs' = Append([n \in Job |-> [jobs[n] EXCEPT
                       !.status = IF n \in old THEN "superseded" ELSE @,
                       !.by = IF @ \in old THEN NewId ELSE @]],
                    NewJob(r.request))
  /\ batch' = batch \ {r}
  /\ UNCHANGED <<setup, consumed, awaiting, busVars>>

-----------------------------------------------------------------------------
(* Dispatching: each step is one turn of the task that dispatches the job *)

\* The window of a waiting request has run out.
Fire(n) ==
  /\ Yielding /\ n \in Job /\ jobs[n].status = "waiting"
  /\ \/ /\ Sends(jobs[n].request.server)
        /\ jobs' = [jobs EXCEPT ![n] = Sent(@)]
        /\ UNCHANGED <<awaiting, busVars>>
     \/ /\ ~Sends(jobs[n].request.server)
        /\ jobs' = [jobs EXCEPT ![n] = Ended(@)]
        /\ Finish(n)
  /\ UNCHANGED <<setup, consumed, batch>>

\* A 2xx answer, or one that is not retried (4xx).
Answered(n) ==
  /\ Yielding /\ n \in Job /\ jobs[n].status = "sent"
  /\ jobs' = [jobs EXCEPT ![n] = Ended(@)]
  /\ Finish(n)
  /\ UNCHANGED <<setup, consumed, batch>>

\* Bug variant: the count of the attempts starts over.
FailedForever(n) ==
  /\ Yielding /\ n \in Job /\ jobs[n].status = "sent"
  /\ jobs' = [jobs EXCEPT ![n].status = "backoff", ![n].tries = 1]
  /\ UNCHANGED <<setup, consumed, batch, awaiting, busVars>>

\* Bug variant: one attempt too many.
FailedOnceMore(n) ==
  /\ Yielding /\ n \in Job /\ jobs[n].status = "sent"
  /\ \/ /\ jobs[n].tries <= Attempts
        /\ jobs' = [jobs EXCEPT ![n].status = "backoff"]
        /\ UNCHANGED <<awaiting, busVars>>
     \/ /\ jobs[n].tries > Attempts
        /\ jobs' = [jobs EXCEPT ![n] = Ended(@)]
        /\ Finish(n)
  /\ UNCHANGED <<setup, consumed, batch>>

\* A 5xx answer or a transport error: back off, unless this was the last attempt.
Failed(n) ==
  /\ Yielding /\ n \in Job /\ jobs[n].status = "sent"
  /\ \/ /\ jobs[n].tries < Attempts
        /\ jobs' = [jobs EXCEPT ![n].status = "backoff"]
        /\ UNCHANGED <<awaiting, busVars>>
     \/ /\ jobs[n].tries = Attempts
        /\ jobs' = [jobs EXCEPT ![n] = Ended(@)]
        /\ Finish(n)
  /\ UNCHANGED <<setup, consumed, batch>>

\* Bug variant: the RuntimeError of a closed client ends the task without an outcome.
RetryRaises(n) ==
  /\ Yielding /\ n \in Job /\ jobs[n].status = "backoff"
  /\ awaiting' = IF awaiting = n THEN NoJob ELSE awaiting
  /\ jobs' = [jobs EXCEPT ![n].status = IF jobs[n].client \in open THEN "sent" ELSE "done",
                          ![n].tries = IF jobs[n].client \in open THEN @ + 1 ELSE @]
  /\ UNCHANGED <<setup, consumed, batch, busVars>>

\* The backoff is over: the next attempt, with the client of the first one.  A closed
\* client raises RuntimeError, which is not retried and becomes a failed outcome.
Retry(n) ==
  /\ Yielding /\ n \in Job /\ jobs[n].status = "backoff"
  /\ \/ /\ jobs[n].client \in open
        /\ jobs' = [jobs EXCEPT ![n].status = "sent", ![n].tries = @ + 1]
        /\ UNCHANGED <<awaiting, busVars>>
     \/ /\ jobs[n].client \notin open
        /\ jobs' = [jobs EXCEPT ![n] = Ended(@)]
        /\ Finish(n)
  /\ UNCHANGED <<setup, consumed, batch>>

-----------------------------------------------------------------------------
(* Engine.rebuild() *)

\* Debouncer.update_servers: the waiting requests of servers that are gone are cancelled.
DropGone(new) ==
  jobs' = [n \in Job |->
             IF jobs[n].status = "waiting" /\ new.policy[jobs[n].request.server] = "gone"
             THEN [jobs[n] EXCEPT !.status = "dropped"] ELSE jobs[n]]

\* Bug variant: the dispatcher keeps its adapters.
RebuildKeepsAdapters(new) ==
  /\ Yielding /\ gen < MaxRebuilds
  /\ gen' = gen + 1 /\ config' = new
  /\ open' = open \cup Built(gen + 1, new)
  /\ DropGone(new)
  /\ UNCHANGED <<adapters, consumed, batch, awaiting, busVars>>

\* The swap, one turn of the event loop.
Rebuild(new) ==
  /\ Yielding /\ gen < MaxRebuilds
  /\ gen' = gen + 1 /\ config' = new
  /\ open' = open \cup Built(gen + 1, new)
  /\ adapters' = AdapterMap(Built(gen + 1, new))
  /\ DropGone(new)
  /\ UNCHANGED <<consumed, batch, awaiting, busVars>>

\* Then the replaced clients are closed, one await each, whoever still uses them.
CloseClient(c) ==
  /\ Yielding /\ c \in open /\ c[1] < gen
  /\ open' = open \ {c}
  /\ UNCHANGED <<config, adapters, gen, work, busVars>>

-----------------------------------------------------------------------------
Submit(r) == SubmitNow(r) \/ SubmitUnsent(r) \/ SubmitTrailing(r)

Advance(n) == Answered(n) \/ Failed(n) \/ Retry(n)

Next == \/ \E event \in Event : Consume(event)
        \/ \E r \in batch : Submit(r)
        \/ \E n \in Job : Fire(n) \/ Advance(n)
        \/ \E new \in Config : Rebuild(new)
        \/ \E c \in Client : CloseClient(c)

MaxRoutes == CHOOSE m \in {Len(c.routes) : c \in Config} : \A c \in Config : Len(c.routes) <= m
JobId == 1 .. MaxEvents * MaxRoutes

\* The consume loop goes on once it is resumed, a window runs out, every HTTP call ends (it
\* has a timeout) and a backoff is finite.  Nothing obliges a file to change, an operator to
\* reconfigure or a browser to read.
Fairness == /\ WF_vars(\E r \in batch : Submit(r))
            /\ \A n \in JobId : WF_vars(Fire(n)) /\ WF_vars(Advance(n))

Spec == Init /\ [][Next]_vars
FairSpec == Spec /\ Fairness

-----------------------------------------------------------------------------
Statuses == {"waiting", "sent", "backoff", "done", "superseded", "dropped"}

\* All requests that a configuration can lead to, and what can be asked of a server for them.
Routed == UNION {{r.request : r \in Requests(event, c.routes)} : event \in Event, c \in Config}
Calls == {NoCall} \cup {Call(type, request) : type \in ServerType, request \in Routed}
Jobs == [request : Routed, status : Statuses, client : Client \cup {NoClient}, call : Calls,
         tries : 1 .. Attempts, by : Nat, records : Nat]

\* The type of the state.
TypeOK == /\ config \in Config
          /\ open \subseteq Client
          /\ \A s \in DOMAIN adapters : s \in Server /\ adapters[s] \in Client
          /\ gen \in 0 .. MaxRebuilds /\ consumed \in 0 .. MaxEvents
          /\ \A r \in batch : r.nr \in Nat /\ r.request \in Routed
          /\ jobs \in Seq(Jobs) /\ awaiting \in Job \cup {NoJob}

\* The live feed tells the truth: every dispatch that ended has exactly one record, whatever
\* way it ended - answered, given up, without an adapter, on a webhook that cannot be rendered,
\* or with its client closed under it - and a request that was superseded or dropped has none.
OneRecordPerDispatch ==
  /\ published["scan"] = Cardinality({n \in Job : jobs[n].status = "done"})
  /\ \A n \in Job : jobs[n].records = IF jobs[n].status = "done" THEN 1 ELSE 0

\* Coalescing by (server, scan_key) loses no file, whatever adapter carries out the request
\* that is left: what is asked of the server finds the file of every request it stands for,
\* also when the server's type was changed meanwhile.
CoalescedScanFinds ==
  \A n \in Job :
    LET last == jobs[jobs[n].by] IN
    last.call # NoCall => /\ last.request.server = jobs[n].request.server
                          /\ Finds(last.call, last.request, jobs[n].request)

\* "New requests already use new adapters/clients" (the comment in rebuild()): a dispatch
\* starts on a client that is open and belongs to the newest configuration, also when its
\* request was routed or armed under an older one.
StartsOnOpenClient ==
  [][\A n \in DOMAIN jobs' :
       (jobs'[n].status = "sent" /\ (n \in Job => jobs[n].status = "waiting"))
         => jobs'[n].client \in open /\ jobs'[n].client[1] = gen]_vars

\* One bad server never stops the pipeline: once the files are quiet, every request that
\* was submitted has ended and the consume loop waits for the next event, however often a
\* server failed and whatever was swapped or closed meanwhile.
EveryRequestSettles ==
  <>[](/\ batch = {} /\ awaiting = NoJob
       /\ \A n \in Job : jobs[n].status \in {"done", "superseded", "dropped"})
=============================================================================
