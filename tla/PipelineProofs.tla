----------------------------- MODULE PipelineProofs -----------------------------
(***************************************************************************)
(* Proofs about Pipeline, Routing and Adapters, for any configurations,    *)
(* events and bounds.                                                      *)
(***************************************************************************)
EXTENDS Pipeline, FiniteSetTheorems, SequenceTheorems, TLAPS

-----------------------------------------------------------------------------
(* Paths *)

LEMMA PathIsSeq ==
  ASSUME NEW p, IsPath(p)
  PROVE  Len(p) \in Nat /\ DOMAIN p = 1 .. Len(p)
BY DEF IsPath

\* The segments of a prefix are those of the path.
LEMMA PrefixMeans ==
  ASSUME NEW p, NEW q, IsPath(p), IsPath(q)
  PROVE  IsPrefix(p, q) <=> /\ Len(p) <= Len(q)
                            /\ \A i \in 1 .. Len(p) : p[i] = q[i]
<1>1. Len(p) \in Nat /\ Len(q) \in Nat
  BY PathIsSeq
<1> QED
  BY <1>1 DEF IsPrefix

LEMMA PrefixTransitive ==
  ASSUME NEW p, NEW q, NEW r, IsPath(p), IsPath(q), IsPath(r), IsPrefix(p, q), IsPrefix(q, r)
  PROVE  IsPrefix(p, r)
<1>1. Len(p) \in Nat /\ Len(q) \in Nat /\ Len(r) \in Nat
  BY PathIsSeq
<1> QED
  BY <1>1, PrefixMeans

\* compute_scan_path(): the path to scan lies below the folder, and the file below it.
LEMMA ScanPathBetween ==
  ASSUME NEW folder, NEW file, IsPath(folder), IsPath(file), IsPrefix(folder, file)
  PROVE  /\ IsPath(ScanPath(folder, file))
         /\ IsPrefix(folder, ScanPath(folder, file))
         /\ IsPrefix(ScanPath(folder, file), file)
<1> DEFINE scan == SubSeq(file, 1, Len(folder) + 1)
<1>1. Len(folder) \in Nat /\ Len(file) \in Nat /\ DOMAIN file = 1 .. Len(file)
  BY PathIsSeq
<1>2. CASE Len(file) < Len(folder) + 2
  <2>1. ScanPath(folder, file) = folder
    BY <1>1, <1>2 DEF ScanPath
  <2> QED
    BY <2>1, PrefixMeans, PathIsSeq
<1>3. CASE Len(file) >= Len(folder) + 2
  <2>1. ScanPath(folder, file) = scan
    BY <1>3 DEF ScanPath
  <2>2. \A i \in 1 .. Len(folder) + 1 : file[i] \in {file[k] : k \in DOMAIN file}
    BY <1>1, <1>3
  <2>3. /\ Len(scan) = Len(folder) + 1
        /\ \A i \in 1 .. Len(folder) + 1 : scan[i] = file[i]
    BY <1>1, <2>2, SubSeqProperties
  <2>4. scan \in Seq({file[k] : k \in DOMAIN file}) /\ DOMAIN scan = 1 .. Len(scan)
    BY <1>1, <2>2, SubSeqProperties, LenProperties
  <2>5. IsPath(scan)
    BY <2>4, SeqOfRange DEF IsPath
  <2>6. Len(scan) <= Len(file) /\ Len(folder) <= Len(scan)
    BY <1>1, <1>3, <2>3
  <2>7. IsPrefix(scan, file)
    BY <1>1, <2>3, <2>5, <2>6, PrefixMeans
  <2>8. IsPrefix(folder, scan)
    <3>1. \A i \in 1 .. Len(folder) : folder[i] = file[i] /\ scan[i] = file[i]
      BY <1>1, <2>3, PrefixMeans
    <3>2. \A i \in 1 .. Len(folder) : folder[i] = scan[i]
      BY <3>1
    <3> HIDE DEF scan
    <3> QED
      BY <2>5, <2>6, <3>2, PrefixMeans
  <2> QED
    BY <2>1, <2>5, <2>7, <2>8
<1> QED
  BY <1>1, <1>2, <1>3

-----------------------------------------------------------------------------
(* Requests *)

\* What route() computes for a route.
Proper(request) ==
  /\ IsPath(request.folder) /\ IsPath(request.file) /\ IsPrefix(request.folder, request.file)
  /\ \/ /\ request.scan = <<"none">> /\ request.key = <<"lib", request.library>>
     \/ \E p : /\ IsPath(p) /\ IsPrefix(request.folder, p) /\ IsPrefix(p, request.file)
               /\ request.scan = <<"path", p>> /\ request.key = <<"path", p>>

LEMMA RequestsProper ==
  ASSUME NEW event \in Event, NEW c \in Config, NEW r \in Requests(event, c.routes)
  PROVE  Proper(r.request)
<1>1. PICK i \in DOMAIN c.routes : /\ Matches(c.routes[i], event)
                                   /\ r = [nr |-> i, request |-> Request(c.routes[i], event)]
  BY DEF Requests
<1> DEFINE route == c.routes[i]
<1>2. IsPath(route.folder) /\ IsPath(event.path) /\ IsPrefix(route.folder, event.path)
  BY <1>1, PathAssumption DEF Matches
<1>3. /\ r.request.folder = route.folder /\ r.request.file = event.path
      /\ r.request.library = route.library
  BY <1>1 DEF Request
<1>4. CASE route.mode = "targeted"
  <2>1. /\ r.request.scan = <<"path", ScanPath(route.folder, event.path)>>
        /\ r.request.key = <<"path", ScanPath(route.folder, event.path)>>
    BY <1>1, <1>4 DEF Request, ScanKey
  <2> QED
    BY <1>2, <1>3, <2>1, ScanPathBetween DEF Proper
<1>5. CASE route.mode # "targeted"
  <2>1. r.request.scan = <<"none">> /\ r.request.key = <<"lib", route.library>>
    BY <1>1, <1>5 DEF Request, ScanKey
  <2> QED
    BY <1>2, <1>3, <2>1 DEF Proper
<1> QED
  BY <1>4, <1>5

LEMMA RoutedProper == \A request \in Routed : Proper(request)
BY RequestsProper DEF Routed

\* The key of the debouncer decides what a server finds: the call carried out for a request
\* finds the file of every other request with its key, whatever the adapter.
LEMMA KeyCovers ==
  ASSUME NEW r, NEW q, Proper(r), Proper(q), SameKey(r, q), NEW type \in ServerType
  PROVE  Finds(Call(type, r), r, q)
<1>1. Call(type, r) \in {[library |-> r.library, path |-> r.scan],
                         [library |-> r.library, path |-> WholeLibrary]}
  BY DEF Call, PlexScan, Delivery, EmbyRefresh, JellyfinRefresh, AudiobookshelfScan, Whole,
         ServerType
<1>2. CASE r.key = <<"lib", r.library>> /\ r.scan = <<"none">>
  <2>1. q.key = <<"lib", r.library>>
    BY <1>2 DEF SameKey
  <2>2. q.library = r.library
    BY <2>1 DEF Proper
  <2> QED
    BY <1>1, <1>2, <2>2 DEF Finds, WholeLibrary
<1>3. CASE \E p : /\ IsPath(p) /\ IsPrefix(r.folder, p)
                  /\ r.scan = <<"path", p>> /\ r.key = <<"path", p>>
  <2>1. PICK p : /\ IsPath(p) /\ IsPrefix(r.folder, p)
                 /\ r.scan = <<"path", p>> /\ r.key = <<"path", p>>
    BY <1>3
  <2>2. q.key = <<"path", p>>
    BY <2>1 DEF SameKey
  <2>3. IsPrefix(p, q.file)
    BY <2>2 DEF Proper
  <2>4. IsPrefix(r.folder, q.file)
    BY <2>1, <2>3, PrefixTransitive DEF Proper
  <2> QED
    BY <1>1, <2>1, <2>3, <2>4 DEF Finds, WholeLibrary
<1> QED
  BY <1>2, <1>3 DEF Proper

-----------------------------------------------------------------------------
(* The invariant *)

\* A job by itself.
Legal(job) ==
  /\ job \in Jobs
  /\ job.call # NoCall => \E type \in ServerType : job.call = Call(type, job.request)
  /\ job.status = "backoff" => job.tries < Attempts
  /\ job.records = IF job.status = "done" THEN 1 ELSE 0

\* The job that carries out a request has its key.
CarriedOut == \A n \in Job : /\ jobs[n].by \in Job
                             /\ SameKey(jobs[jobs[n].by].request, jobs[n].request)

Done == {n \in Job : jobs[n].status = "done"}
Counted == published \in [Bus -> Nat] /\ published["scan"] = Cardinality(Done)

\* The adapters are those of the newest configuration, on clients that are open.
AdaptersNew == \A s \in DOMAIN adapters : /\ s \in Server
                                          /\ adapters[s] \in Client \cap open
                                          /\ adapters[s][1] = gen

StateOK == /\ config \in Config
           /\ open \subseteq Client
           /\ gen \in 0 .. MaxRebuilds /\ consumed \in 0 .. MaxEvents
           /\ \A r \in batch : r.nr \in Nat /\ r.request \in Routed

IInv == /\ StateOK
        /\ jobs \in Seq(Jobs) /\ awaiting \in Job \cup {NoJob}
        /\ \A n \in Job : Legal(jobs[n])
        /\ CarriedOut /\ Counted /\ AdaptersNew

-----------------------------------------------------------------------------
(* Steps that change one job *)

LEMMA JobsAreSeq ==
  ASSUME jobs \in Seq(Jobs)
  PROVE  Len(jobs) \in Nat /\ Job = 1 .. Len(jobs) /\ \A n \in Job : jobs[n] \in Jobs
BY LenProperties, ElementOfSeq DEF Job

\* The client and the call of a dispatch that starts.
LEMMA SentLegal ==
  ASSUME IInv, NEW job, Legal(job), job.status = "waiting", Sends(job.request.server)
  PROVE  /\ Legal(Sent(job)) /\ Sent(job).status = "sent"
         /\ Sent(job).client = adapters[job.request.server]
         /\ Sent(job).request = job.request /\ Sent(job).by = job.by
<1> DEFINE s == job.request.server
           call == Call(config.type[s], job.request)
<1>1. s \in DOMAIN adapters /\ s \in Server /\ adapters[s] \in Client
  BY DEF Sends, IInv, AdaptersNew
<1>2. config.type[s] \in ServerType
  BY <1>1, ConfigAssumption DEF IInv, StateOK
<1>3. job \in Jobs /\ job.request \in Routed
  BY DEF Legal, Jobs
<1>4. call \in Calls
  BY <1>2, <1>3 DEF Calls
<1> HIDE DEF call, s
<1>5. Sent(job) = [job EXCEPT !.status = "sent", !.client = adapters[s], !.call = call]
  BY DEF Sent, s, call
<1>6. Sent(job) \in Jobs
  BY <1>1, <1>3, <1>4, <1>5 DEF Jobs, Statuses
<1>7. /\ Sent(job).status = "sent" /\ Sent(job).client = adapters[s]
      /\ Sent(job).call = call /\ Sent(job).request = job.request /\ Sent(job).by = job.by
      /\ Sent(job).records = job.records
  BY <1>3, <1>5 DEF Jobs
<1>8. \E type \in ServerType : Sent(job).call = Call(type, Sent(job).request)
  BY <1>2, <1>7 DEF call, s
<1> QED
  BY <1>6, <1>7, <1>8 DEF Legal, s

LEMMA EndedLegal ==
  ASSUME NEW job, Legal(job), job.status # "done"
  PROVE  /\ Legal(Ended(job)) /\ Ended(job).status = "done"
         /\ Ended(job).request = job.request /\ Ended(job).by = job.by
<1>1. job \in Jobs /\ job.records = 0
  BY DEF Legal
<1>2. Ended(job) = [job EXCEPT !.status = "done", !.records = 1]
  BY <1>1 DEF Ended, Jobs
<1>3. Ended(job) \in Jobs
  <2>1. "done" \in Statuses /\ 1 \in Nat
    BY DEF Statuses
  <2> QED
    BY <1>1, <1>2, <2>1 DEF Jobs
<1>4. /\ Ended(job).status = "done" /\ Ended(job).records = 1
      /\ Ended(job).request = job.request /\ Ended(job).by = job.by
      /\ Ended(job).call = job.call
  BY <1>1, <1>2 DEF Jobs
<1> QED
  BY <1>3, <1>4 DEF Legal

\* The job n is now that job; it has just ended, or it has not ended.
Becomes(n, job) ==
  /\ jobs' = [jobs EXCEPT ![n] = job]
  /\ Legal(job) /\ job.request = jobs[n].request /\ job.by = jobs[n].by
  /\ jobs[n].status # "done"
  /\ \/ job.status = "done" /\ Finish(n)
     \/ job.status # "done" /\ UNCHANGED <<awaiting, busVars>>
  /\ jobs[n].status = "waiting" /\ job.status = "sent" =>
       Sends(job.request.server) /\ job.client = adapters[job.request.server]
  /\ UNCHANGED <<setup, consumed, batch>>

LEMMA FireBecomes ==
  ASSUME IInv, NEW n \in Job, Fire(n)
  PROVE  \E job : Becomes(n, job)
<1>1. jobs[n].status = "waiting" /\ Legal(jobs[n])
  BY DEF Fire, IInv
<1>2. CASE Sends(jobs[n].request.server)
  <2>1. jobs' = [jobs EXCEPT ![n] = Sent(jobs[n])] /\ UNCHANGED <<awaiting, busVars>>
    BY <1>2 DEF Fire
  <2> QED
    BY <1>1, <1>2, <2>1, SentLegal DEF Becomes, Fire
<1>3. CASE ~Sends(jobs[n].request.server)
  <2>1. jobs' = [jobs EXCEPT ![n] = Ended(jobs[n])] /\ Finish(n)
    BY <1>3 DEF Fire
  <2> QED
    BY <1>1, <2>1, EndedLegal DEF Becomes, Fire
<1> QED
  BY <1>2, <1>3

LEMMA AnsweredBecomes ==
  ASSUME IInv, NEW n \in Job, Answered(n)
  PROVE  \E job : Becomes(n, job)
<1>1. jobs[n].status = "sent" /\ Legal(jobs[n])
  BY DEF Answered, IInv
<1>2. jobs' = [jobs EXCEPT ![n] = Ended(jobs[n])] /\ Finish(n)
  BY DEF Answered
<1> QED
  BY <1>1, <1>2, EndedLegal DEF Becomes, Answered

LEMMA FailedBecomes ==
  ASSUME IInv, NEW n \in Job, Failed(n)
  PROVE  \E job : Becomes(n, job)
<1>1. jobs[n].status = "sent" /\ Legal(jobs[n])
  BY DEF Failed, IInv
<1>2. CASE /\ jobs[n].tries < Attempts
           /\ jobs' = [jobs EXCEPT ![n].status = "backoff"]
           /\ UNCHANGED <<awaiting, busVars>>
  <2> DEFINE job == [jobs[n] EXCEPT !.status = "backoff"]
  <2>1. jobs[n] \in Jobs
    BY <1>1 DEF Legal
  <2>2. /\ job \in Jobs /\ job.status = "backoff" /\ job.tries = jobs[n].tries
        /\ job.call = jobs[n].call /\ job.request = jobs[n].request
        /\ job.by = jobs[n].by /\ job.records = jobs[n].records
    BY <2>1 DEF Jobs, Statuses
  <2>3. jobs' = [jobs EXCEPT ![n] = job]
    BY <1>2
  <2> HIDE DEF job
  <2>4. Legal(job)
    BY <1>1, <1>2, <2>2 DEF Legal
  <2> QED
    BY <1>1, <1>2, <2>2, <2>3, <2>4 DEF Becomes, Failed
<1>3. CASE jobs' = [jobs EXCEPT ![n] = Ended(jobs[n])] /\ Finish(n)
  BY <1>1, <1>3, EndedLegal DEF Becomes, Failed
<1> QED
  BY <1>2, <1>3 DEF Failed

LEMMA RetryBecomes ==
  ASSUME IInv, NEW n \in Job, Retry(n)
  PROVE  \E job : Becomes(n, job)
<1>1. jobs[n].status = "backoff" /\ Legal(jobs[n])
  BY DEF Retry, IInv
<1>2. CASE /\ jobs' = [jobs EXCEPT ![n].status = "sent", ![n].tries = @ + 1]
           /\ UNCHANGED <<awaiting, busVars>>
  <2> DEFINE job == [jobs[n] EXCEPT !.status = "sent", !.tries = @ + 1]
  <2>1. /\ jobs[n] \in Jobs /\ jobs[n].tries + 1 \in 1 .. Attempts
    BY <1>1, AttemptsAssumption DEF Legal, Jobs
  <2>2. /\ job \in Jobs /\ job.status = "sent"
        /\ job.call = jobs[n].call /\ job.request = jobs[n].request
        /\ job.by = jobs[n].by /\ job.records = jobs[n].records
    BY <2>1 DEF Jobs, Statuses
  <2>3. jobs' = [jobs EXCEPT ![n] = job]
    BY <1>2
  <2> HIDE DEF job
  <2>4. Legal(job)
    BY <1>1, <2>2 DEF Legal
  <2> QED
    BY <1>1, <1>2, <2>2, <2>3, <2>4 DEF Becomes, Retry
<1>3. CASE jobs' = [jobs EXCEPT ![n] = Ended(jobs[n])] /\ Finish(n)
  BY <1>1, <1>3, EndedLegal DEF Becomes, Retry
<1> QED
  BY <1>2, <1>3 DEF Retry

LEMMA DoneFinite ==
  ASSUME IInv
  PROVE  IsFiniteSet(Done) /\ Cardinality(Done) \in Nat
<1>1. IsFiniteSet(1 .. Len(jobs)) /\ Done \subseteq 1 .. Len(jobs)
  BY JobsAreSeq, FS_Interval DEF Done, IInv
<1> QED
  BY <1>1, FS_Subset, FS_CardinalityType

\* A job that ends is counted by the record that is published for it.
LEMMA EndCounts ==
  ASSUME IInv, NEW n, n \notin Done, Done' = Done \cup {n}, Publish("scan")
  PROVE  Counted'
<1>1. Cardinality(Done') = Cardinality(Done) + 1 /\ Cardinality(Done) \in Nat
  BY DoneFinite, FS_AddElement
<1>2. published' = [published EXCEPT !["scan"] = @ + 1]
  BY DEF Publish
<1> QED
  BY <1>1, <1>2 DEF IInv, Counted, Bus

\* A step of one job keeps the invariant, and counts its record if it ends.
LEMMA BecomesKeeps ==
  ASSUME IInv, NEW n \in Job, NEW job, Becomes(n, job)
  PROVE  IInv'
<1>1. Len(jobs) \in Nat /\ Job = 1 .. Len(jobs) /\ \A m \in Job : jobs[m] \in Jobs
  BY JobsAreSeq DEF IInv
<1>2. job \in Jobs /\ Legal(job)
  BY DEF Becomes, Legal
<1>3. jobs' \in Seq(Jobs) /\ Job' = Job
  BY <1>2, ExceptSeq DEF Becomes, IInv, Job
<1>4. \A m \in Job : jobs'[m] = IF m = n THEN job ELSE jobs[m]
  BY DEF Becomes, IInv, Job
<1>5. StateOK' /\ AdaptersNew'
  BY DEF IInv, Becomes, StateOK, AdaptersNew, setup
<1>6. awaiting' \in Job \cup {NoJob}
  BY DEF IInv, Becomes, Finish
<1>7. \A m \in Job : Legal(jobs'[m])
  BY <1>2, <1>4 DEF IInv
<1>8. CarriedOut'
  <2>1. \A m \in Job : jobs'[m].request = jobs[m].request /\ jobs'[m].by = jobs[m].by
    BY <1>4 DEF Becomes
  <2> QED
    BY <1>3, <2>1 DEF IInv, CarriedOut
<1>9. Counted'
  <2>2. CASE job.status = "done" /\ Finish(n)
    <3>1. Done' = Done \cup {n} /\ n \notin Done
      BY <1>3, <1>4, <2>2 DEF Done, Becomes
    <3> QED
      BY <2>2, <3>1, EndCounts DEF Finish
  <2>3. CASE job.status # "done" /\ UNCHANGED <<awaiting, busVars>>
    <3>1. Done' = Done
      BY <1>3, <1>4, <2>3 DEF Done, Becomes
    <3> QED
      BY <2>3, <3>1 DEF IInv, Counted, busVars
  <2> QED
    BY <2>2, <2>3 DEF Becomes
<1> QED
  BY <1>3, <1>5, <1>6, <1>7, <1>8, <1>9 DEF IInv

-----------------------------------------------------------------------------
(* Steps that submit a request *)

LEMMA NewJobLegal ==
  ASSUME IInv, NEW request \in Routed
  PROVE  /\ Legal(NewJob(request)) /\ NewJob(request).status = "waiting"
         /\ NewJob(request).request = request /\ NewJob(request).by = NewId
<1>1. NewId \in Nat /\ 1 \in 1 .. Attempts
  BY JobsAreSeq, AttemptsAssumption DEF IInv, NewId
<1>2. NoCall \in Calls /\ NoClient \in Client \cup {NoClient} /\ "waiting" \in Statuses
  BY DEF Calls, Statuses
<1>3. NewJob(request) \in Jobs
  BY <1>1, <1>2 DEF NewJob, Jobs
<1> QED
  BY <1>3 DEF NewJob, Legal

\* The jobs after a step that changes none of them but in its carrier and its supersession,
\* and appends one.
LEMMA AppendedJobs ==
  ASSUME IInv, NEW mid, mid \in Seq(Jobs), Len(mid) = Len(jobs),
         \A n \in Job : /\ Legal(mid[n]) /\ mid[n].request = jobs[n].request
                        /\ mid[n].status = "done" <=> jobs[n].status = "done",
         NEW job, Legal(job), jobs' = Append(mid, job)
  PROVE  /\ jobs' \in Seq(Jobs) /\ Job' = Job \cup {NewId}
         /\ NewId \notin Job /\ NewId # NoJob
         /\ jobs'[NewId] = job /\ \A n \in Job : jobs'[n] = mid[n]
         /\ \A n \in Job' : Legal(jobs'[n])
         /\ Done' = Done \cup (IF job.status = "done" THEN {NewId} ELSE {})
<1>1. Len(jobs) \in Nat /\ Job = 1 .. Len(jobs)
  BY JobsAreSeq DEF IInv
<1>2. job \in Jobs
  BY DEF Legal
<1>3. /\ jobs' \in Seq(Jobs) /\ Len(jobs') = Len(jobs) + 1
      /\ \A n \in 1 .. Len(jobs) : jobs'[n] = mid[n]
      /\ jobs'[Len(jobs) + 1] = job
  BY <1>2, AppendProperties
<1>4. Job' = 1 .. Len(jobs) + 1
  BY <1>3, LenProperties DEF Job
<1>5. Job' = Job \cup {NewId} /\ NewId \notin Job /\ NewId # NoJob
  BY <1>1, <1>4 DEF NewId, NoJob
<1>6. jobs'[NewId] = job /\ \A n \in Job : jobs'[n] = mid[n]
  BY <1>1, <1>3 DEF NewId
<1>7. \A n \in Job' : Legal(jobs'[n])
  BY <1>5, <1>6
<1>8. Done' = Done \cup (IF job.status = "done" THEN {NewId} ELSE {})
  BY <1>5, <1>6 DEF Done
<1> QED
  BY <1>3, <1>5, <1>6, <1>7, <1>8

\* Appending a job that carries itself out.
LEMMA AppendKeeps ==
  ASSUME IInv, NEW job, Legal(job), job.by = NewId, jobs' = Append(jobs, job)
  PROVE  /\ jobs' \in Seq(Jobs) /\ Job' = Job \cup {NewId}
         /\ \A n \in Job' : Legal(jobs'[n])
         /\ CarriedOut'
         /\ Done' = Done \cup (IF job.status = "done" THEN {NewId} ELSE {})
         /\ NewId \notin Done
<1>1. /\ jobs' \in Seq(Jobs) /\ Job' = Job \cup {NewId} /\ NewId \notin Job
      /\ jobs'[NewId] = job /\ \A n \in Job : jobs'[n] = jobs[n]
      /\ \A n \in Job' : Legal(jobs'[n])
      /\ Done' = Done \cup (IF job.status = "done" THEN {NewId} ELSE {})
  BY AppendedJobs DEF IInv
<1>2. CarriedOut'
  <2>1. \A n \in Job : /\ jobs'[n].by \in Job
                       /\ SameKey(jobs'[jobs'[n].by].request, jobs'[n].request)
    BY <1>1 DEF IInv, CarriedOut
  <2>2. jobs'[NewId].by = NewId /\ SameKey(job.request, job.request)
    BY <1>1 DEF SameKey
  <2> QED
    BY <1>1, <2>1, <2>2 DEF CarriedOut
<1> QED
  BY <1>1, <1>2 DEF Done

LEMMA SubmitNowKeeps ==
  ASSUME IInv, NEW r \in batch, SubmitNow(r)
  PROVE  IInv'
<1> DEFINE job == Sent(NewJob(r.request))
<1>1. r.request \in Routed
  BY DEF IInv, StateOK
<1>2. Legal(job) /\ job.by = NewId /\ job.status = "sent"
  BY <1>1, NewJobLegal, SentLegal DEF SubmitNow
<1>3. jobs' = Append(jobs, job)
  BY DEF SubmitNow
<1> HIDE DEF job
<1>4. /\ jobs' \in Seq(Jobs) /\ Job' = Job \cup {NewId}
      /\ \A n \in Job' : Legal(jobs'[n])
      /\ CarriedOut' /\ Done' = Done
  BY <1>2, <1>3, AppendKeeps
<1>5. StateOK' /\ AdaptersNew' /\ Counted'
  BY <1>4 DEF IInv, SubmitNow, StateOK, AdaptersNew, Counted, setup, busVars
<1>6. awaiting' \in Job' \cup {NoJob}
  BY <1>4 DEF SubmitNow
<1> QED
  BY <1>4, <1>5, <1>6 DEF IInv

LEMMA SubmitUnsentKeeps ==
  ASSUME IInv, NEW r \in batch, SubmitUnsent(r)
  PROVE  IInv'
<1> DEFINE job == Ended(NewJob(r.request))
<1>1. r.request \in Routed
  BY DEF IInv, StateOK
<1>2. Legal(job) /\ job.by = NewId /\ job.status = "done"
  BY <1>1, NewJobLegal, EndedLegal
<1>3. jobs' = Append(jobs, job) /\ Finish(NewId)
  BY DEF SubmitUnsent
<1> HIDE DEF job
<1>4. /\ jobs' \in Seq(Jobs) /\ Job' = Job \cup {NewId}
      /\ \A n \in Job' : Legal(jobs'[n])
      /\ CarriedOut' /\ Done' = Done \cup {NewId} /\ NewId \notin Done
  BY <1>2, <1>3, AppendKeeps
<1>5. Counted'
  BY <1>3, <1>4, EndCounts DEF Finish
<1>6. StateOK' /\ AdaptersNew'
  BY DEF IInv, SubmitUnsent, StateOK, AdaptersNew, setup
<1>7. awaiting' \in Job' \cup {NoJob}
  BY <1>3, <1>4 DEF Finish, IInv
<1> QED
  BY <1>4, <1>5, <1>6, <1>7 DEF IInv

LEMMA TrailingJobs ==
  ASSUME IInv, NEW r \in batch, SubmitTrailing(r)
  PROVE  /\ jobs' \in Seq(Jobs) /\ Job' = Job \cup {NewId}
         /\ jobs'[NewId].status = "waiting" /\ jobs'[NewId].by = NewId
         /\ jobs'[NewId].request = r.request
         /\ \A n \in Job :
              /\ jobs'[n].request = jobs[n].request
              /\ jobs'[n].status = IF n \in Superseded(r.request) THEN "superseded"
                                   ELSE jobs[n].status
              /\ jobs'[n].by = IF jobs[n].by \in Superseded(r.request) THEN NewId
                               ELSE jobs[n].by
         /\ \A n \in Job' : Legal(jobs'[n])
         /\ Done' = Done
<1> DEFINE old == Superseded(r.request)
           job == NewJob(r.request)
           mid == [n \in Job |-> [jobs[n] EXCEPT
                     !.status = IF n \in old THEN "superseded" ELSE @,
                     !.by = IF @ \in old THEN NewId ELSE @]]
<1>1. r.request \in Routed
  BY DEF IInv, StateOK
<1>2. Legal(job) /\ job.by = NewId /\ job.status = "waiting" /\ job.request = r.request
  BY <1>1, NewJobLegal
<1>3. jobs' = Append(mid, job)
  BY DEF SubmitTrailing
<1>4. \A n \in old : /\ n \in Job /\ jobs[n].status = "waiting"
                     /\ SameKey(jobs[n].request, r.request)
  BY DEF Superseded
<1>5. Len(jobs) \in Nat /\ Job = 1 .. Len(jobs) /\ \A n \in Job : jobs[n] \in Jobs
  BY JobsAreSeq DEF IInv
<1>6. NewId \in Nat /\ "superseded" \in Statuses
  BY <1>5 DEF NewId, Statuses
<1> HIDE DEF old, job
<1>7. \A n \in Job : /\ mid[n] \in Jobs
                     /\ mid[n].request = jobs[n].request /\ mid[n].call = jobs[n].call
                     /\ mid[n].tries = jobs[n].tries /\ mid[n].records = jobs[n].records
                     /\ mid[n].status = IF n \in old THEN "superseded" ELSE jobs[n].status
                     /\ mid[n].by = IF jobs[n].by \in old THEN NewId ELSE jobs[n].by
  BY <1>5, <1>6 DEF Jobs
<1>8. mid \in Seq(Jobs) /\ Len(mid) = Len(jobs)
  <2>1. mid \in [1 .. Len(jobs) -> Jobs]
    BY <1>5, <1>7
  <2>2. mid \in Seq(Jobs)
    BY <1>5, <2>1, SeqDef
  <2>3. DOMAIN mid = 1 .. Len(jobs)
    BY <1>5
  <2> HIDE DEF mid
  <2>4. Len(mid) \in Nat /\ DOMAIN mid = 1 .. Len(mid)
    BY <2>2, LenProperties
  <2> QED
    BY <1>5, <2>2, <2>3, <2>4
<1> HIDE DEF mid
<1>9. \A n \in Job : /\ Legal(mid[n]) /\ mid[n].request = jobs[n].request
                     /\ mid[n].status = "done" <=> jobs[n].status = "done"
  <2> SUFFICES ASSUME NEW n \in Job
               PROVE  /\ Legal(mid[n]) /\ mid[n].request = jobs[n].request
                      /\ mid[n].status = "done" <=> jobs[n].status = "done"
    OBVIOUS
  <2>1. Legal(jobs[n])
    BY DEF IInv
  <2>2. CASE n \in old
    <3>1. mid[n].status = "superseded" /\ jobs[n].status = "waiting"
      BY <1>4, <1>7, <2>2
    <3> QED
      BY <1>7, <2>1, <3>1 DEF Legal
  <2>3. CASE n \notin old
    <3>1. mid[n].status = jobs[n].status
      BY <1>7, <2>3
    <3> QED
      BY <1>7, <2>1, <3>1 DEF Legal
  <2> QED
    BY <2>2, <2>3
<1>10. /\ jobs' \in Seq(Jobs) /\ Job' = Job \cup {NewId}
       /\ jobs'[NewId] = job /\ \A n \in Job : jobs'[n] = mid[n]
       /\ \A n \in Job' : Legal(jobs'[n])
       /\ Done' = Done
  BY <1>2, <1>3, <1>8, <1>9, AppendedJobs
<1> QED
  BY <1>2, <1>7, <1>10 DEF old

\* The request that supersedes another carries out all that the other one stood for.
LEMMA SubmitTrailingKeeps ==
  ASSUME IInv, NEW r \in batch, SubmitTrailing(r)
  PROVE  IInv'
<1> DEFINE old == Superseded(r.request)
<1>1. /\ jobs' \in Seq(Jobs) /\ Job' = Job \cup {NewId}
      /\ jobs'[NewId].by = NewId /\ jobs'[NewId].request = r.request
      /\ \A n \in Job : /\ jobs'[n].request = jobs[n].request
                        /\ jobs'[n].by = IF jobs[n].by \in old THEN NewId ELSE jobs[n].by
      /\ \A n \in Job' : Legal(jobs'[n])
      /\ Done' = Done
  BY TrailingJobs
<1>2. \A n \in old : SameKey(jobs[n].request, r.request)
  BY DEF Superseded
<1> HIDE DEF old
<1>3. CarriedOut'
  <2> SUFFICES ASSUME NEW n \in Job'
               PROVE  /\ jobs'[n].by \in Job'
                      /\ SameKey(jobs'[jobs'[n].by].request, jobs'[n].request)
    BY DEF CarriedOut
  <2>1. CASE n = NewId
    BY <1>1, <2>1 DEF SameKey
  <2>2. CASE n \in Job /\ jobs[n].by \in old
    <3>1. SameKey(jobs[jobs[n].by].request, jobs[n].request)
      BY <2>2 DEF IInv, CarriedOut
    <3>2. SameKey(r.request, jobs[n].request)
      BY <1>2, <2>2, <3>1 DEF SameKey
    <3> QED
      BY <1>1, <2>2, <3>2
  <2>3. CASE n \in Job /\ jobs[n].by \notin old
    <3>1. jobs[n].by \in Job /\ SameKey(jobs[jobs[n].by].request, jobs[n].request)
      BY <2>3 DEF IInv, CarriedOut
    <3> QED
      BY <1>1, <2>3, <3>1
  <2> QED
    BY <1>1, <2>1, <2>2, <2>3
<1>4. StateOK' /\ AdaptersNew' /\ Counted' /\ awaiting' \in Job' \cup {NoJob}
  BY <1>1 DEF IInv, SubmitTrailing, StateOK, AdaptersNew, Counted, setup, busVars
<1> QED
  BY <1>1, <1>3, <1>4 DEF IInv

-----------------------------------------------------------------------------
(* The remaining steps *)

LEMMA BuiltClients ==
  ASSUME NEW g \in 0 .. MaxRebuilds, NEW c
  PROVE  /\ Built(g, c) \subseteq Client
         /\ \A s \in DOMAIN AdapterMap(Built(g, c)) :
              /\ s \in Server
              /\ AdapterMap(Built(g, c))[s] \in Built(g, c)
              /\ AdapterMap(Built(g, c))[s][1] = g
<1> DEFINE clients == Built(g, c)
<1>1. \A client \in clients : client \in Client /\ client[1] = g /\ client[2] \in Server
  BY DEF Built, Client
<1> HIDE DEF clients
<1>2. \A s \in DOMAIN AdapterMap(clients) : \E client \in clients : client[2] = s
  BY DEF AdapterMap
<1>3. \A s \in DOMAIN AdapterMap(clients) :
        AdapterMap(clients)[s] = CHOOSE client \in clients : client[2] = s
  BY DEF AdapterMap
<1>4. \A s \in DOMAIN AdapterMap(clients) : /\ AdapterMap(clients)[s] \in clients
                                           /\ s \in Server
  BY <1>1, <1>2, <1>3
<1> QED
  BY <1>1, <1>4 DEF clients

LEMMA ConsumeKeeps ==
  ASSUME IInv, NEW event \in Event, Consume(event)
  PROVE  IInv'
<1>1. \A r \in batch' : r.nr \in Nat /\ r.request \in Routed
  <2>1. config \in Config
    BY DEF IInv, StateOK
  <2>2. config.routes \in Seq(Range(config.routes))
    BY <2>1, ConfigAssumption
  <2>3. DOMAIN config.routes \subseteq Nat
    BY <2>2, LenProperties
  <2>4. \A r \in batch' : r \in Requests(event, config.routes)
    BY DEF Consume
  <2>5. \A r \in Requests(event, config.routes) : r.nr \in DOMAIN config.routes
    BY DEF Requests
  <2>6. \A r \in Requests(event, config.routes) : r.request \in Routed
    <3> DEFINE requests(e, c) == {r.request : r \in Requests(e, c.routes)}
    <3>1. \A r \in Requests(event, config.routes) : r.request \in requests(event, config)
      OBVIOUS
    <3>2. requests(event, config) \in {requests(e, c) : e \in Event, c \in Config}
      BY <2>1
    <3>3. Routed = UNION {requests(e, c) : e \in Event, c \in Config}
      BY DEF Routed
    <3> HIDE DEF requests
    <3> QED
      BY <3>1, <3>2, <3>3
  <2> QED
    BY <2>3, <2>4, <2>5, <2>6
<1>2. consumed' \in 0 .. MaxEvents
  BY PipelineBoundsAssumption DEF IInv, StateOK, Consume
<1>3. published' = [published EXCEPT !["raw"] = @ + 1]
  BY DEF Consume, Publish
<1>4. Counted'
  BY <1>3 DEF IInv, Counted, Consume, Done, Bus, Job
<1> QED
  BY <1>1, <1>2, <1>4 DEF IInv, StateOK, AdaptersNew, CarriedOut, Consume, setup, Job

LEMMA RebuildKeeps ==
  ASSUME IInv, NEW new \in Config, Rebuild(new)
  PROVE  IInv'
<1>1. Len(jobs) \in Nat /\ Job = 1 .. Len(jobs) /\ \A n \in Job : jobs[n] \in Jobs
  BY JobsAreSeq DEF IInv
<1>2. \A n \in Job : \/ jobs'[n] = jobs[n]
                     \/ /\ jobs[n].status = "waiting"
                        /\ jobs'[n] = [jobs[n] EXCEPT !.status = "dropped"]
  BY DEF Rebuild, DropGone
<1>3. "dropped" \in Statuses
  BY DEF Statuses
<1>4. \A n \in Job : /\ Legal(jobs'[n])
                     /\ jobs'[n].by = jobs[n].by /\ jobs'[n].request = jobs[n].request
                     /\ jobs'[n].status = "done" <=> jobs[n].status = "done"
  <2> SUFFICES ASSUME NEW n \in Job
               PROVE  /\ Legal(jobs'[n])
                      /\ jobs'[n].by = jobs[n].by /\ jobs'[n].request = jobs[n].request
                      /\ jobs'[n].status = "done" <=> jobs[n].status = "done"
    OBVIOUS
  <2>1. Legal(jobs[n])
    BY DEF IInv
  <2>2. CASE jobs'[n] = jobs[n]
    BY <2>1, <2>2
  <2>3. CASE /\ jobs[n].status = "waiting"
             /\ jobs'[n] = [jobs[n] EXCEPT !.status = "dropped"]
    <3>1. /\ jobs'[n] \in Jobs /\ jobs'[n].status = "dropped"
          /\ jobs'[n].by = jobs[n].by /\ jobs'[n].request = jobs[n].request
          /\ jobs'[n].call = jobs[n].call /\ jobs'[n].records = jobs[n].records
      BY <1>1, <1>3, <2>3 DEF Jobs
    <3> QED
      BY <2>1, <2>3, <3>1 DEF Legal
  <2> QED
    BY <1>2, <2>2, <2>3
<1>5. jobs' \in Seq(Jobs) /\ Job' = Job
  <2>1. DOMAIN jobs' = 1 .. Len(jobs) /\ jobs' = [n \in 1 .. Len(jobs) |-> jobs'[n]]
    BY <1>1 DEF Rebuild, DropGone
  <2>2. \A n \in 1 .. Len(jobs) : jobs'[n] \in Jobs
    BY <1>1, <1>4 DEF Legal
  <2>3. jobs' \in [1 .. Len(jobs) -> Jobs]
    BY <2>1, <2>2
  <2> QED
    BY <1>1, <2>1, <2>3, SeqDef DEF Job
<1>6. CarriedOut' /\ Done' = Done
  BY <1>4, <1>5 DEF IInv, CarriedOut, Done
<1>7. Counted'
  BY <1>6 DEF IInv, Counted, Rebuild, busVars
<1>8. gen' = gen + 1 /\ gen' \in 0 .. MaxRebuilds
  BY PipelineBoundsAssumption DEF IInv, StateOK, Rebuild
<1>9. Built(gen', new) \subseteq Client /\ AdaptersNew'
  <2>1. /\ adapters' = AdapterMap(Built(gen', new))
        /\ Built(gen', new) \subseteq open'
    BY <1>8 DEF Rebuild
  <2> QED
    BY <1>8, <2>1, BuiltClients DEF AdaptersNew
<1>10. StateOK'
  BY <1>8, <1>9 DEF IInv, StateOK, Rebuild
<1>11. awaiting' \in Job' \cup {NoJob}
  BY <1>5 DEF IInv, Rebuild
<1> QED
  BY <1>4, <1>5, <1>6, <1>7, <1>9, <1>10, <1>11 DEF IInv

\* No client of an adapter is ever closed: those have the newest generation.
LEMMA CloseClientKeeps ==
  ASSUME IInv, NEW c \in Client, CloseClient(c)
  PROVE  IInv'
<1>1. AdaptersNew'
  BY DEF IInv, CloseClient, AdaptersNew, StateOK
<1>2. StateOK'
  BY DEF IInv, CloseClient, StateOK, work
<1> QED
  BY <1>1, <1>2 DEF IInv, CloseClient, work, busVars, CarriedOut, Counted, Done, Job

LEMMA InitInv == Init => IInv
<1> SUFFICES ASSUME Init PROVE IInv
  OBVIOUS
<1>1. 0 \in 0 .. MaxRebuilds /\ 0 \in 0 .. MaxEvents
  BY PipelineBoundsAssumption
<1>2. StateOK /\ AdaptersNew
  BY <1>1, BuiltClients DEF Init, StateOK, AdaptersNew
<1>3. jobs \in Seq(Jobs) /\ Job = {}
  BY EmptySeq, LenProperties DEF Init, Job
<1>4. Counted
  <2>1. Done = {}
    BY <1>3 DEF Done
  <2> QED
    BY <2>1, FS_EmptySet DEF Init, BusInit, Counted, Bus
<1> QED
  BY <1>2, <1>3, <1>4 DEF IInv, Init, CarriedOut

LEMMA StutterKeeps == IInv /\ UNCHANGED vars => IInv'
BY DEF IInv, vars, setup, work, busVars, StateOK, CarriedOut, Counted, Done, AdaptersNew, Job

LEMMA NextInv == IInv /\ [Next]_vars => IInv'
<1> SUFFICES ASSUME IInv, [Next]_vars PROVE IInv'
  OBVIOUS
<1>1. CASE \E event \in Event : Consume(event)
  BY <1>1, ConsumeKeeps
<1>2. CASE \E r \in batch : Submit(r)
  BY <1>2, SubmitNowKeeps, SubmitUnsentKeeps, SubmitTrailingKeeps DEF Submit
<1>3. CASE \E n \in Job : Fire(n) \/ Advance(n)
  BY <1>3, FireBecomes, AnsweredBecomes, FailedBecomes, RetryBecomes, BecomesKeeps DEF Advance
<1>4. CASE \E new \in Config : Rebuild(new)
  BY <1>4, RebuildKeeps
<1>5. CASE \E c \in Client : CloseClient(c)
  BY <1>5, CloseClientKeeps
<1>6. CASE UNCHANGED vars
  BY <1>6, StutterKeeps
<1> QED
  BY <1>1, <1>2, <1>3, <1>4, <1>5, <1>6 DEF Next

LEMMA Invariant == Spec => []IInv
BY InitInv, NextInv, PTL DEF Spec

-----------------------------------------------------------------------------
(* The theorems *)

\* Every variable keeps its type, for any configurations and events (Engine, Dispatcher).
THEOREM TypeCorrect == Spec => []TypeOK
<1>1. IInv => TypeOK
  BY DEF IInv, StateOK, AdaptersNew, TypeOK
<1> QED
  BY <1>1, Invariant, PTL

\* The outcome of every dispatch is published once, whatever way it ends, and nothing else is
\* (Engine._dispatch, Dispatcher.dispatch).
THEOREM OneRecord == Spec => []OneRecordPerDispatch
<1>1. IInv => OneRecordPerDispatch
  BY DEF IInv, Counted, Done, Legal, OneRecordPerDispatch
<1> QED
  BY <1>1, Invariant, PTL

\* The scan that is left of the requests with a key finds the file of each of them, whatever
\* the folders, libraries and adapters are (Debouncer.submit, compute_scan_path, trigger).
THEOREM CoalescingFinds == Spec => []CoalescedScanFinds
<1>1. IInv => CoalescedScanFinds
  <2> SUFFICES ASSUME IInv, NEW n \in Job, jobs[jobs[n].by].call # NoCall
               PROVE  /\ jobs[jobs[n].by].request.server = jobs[n].request.server
                      /\ Finds(jobs[jobs[n].by].call, jobs[jobs[n].by].request,
                               jobs[n].request)
    BY DEF CoalescedScanFinds
  <2> DEFINE last == jobs[jobs[n].by]
  <2>1. jobs[n].by \in Job /\ SameKey(last.request, jobs[n].request)
    BY DEF IInv, CarriedOut
  <2>2. Legal(last) /\ Legal(jobs[n])
    BY <2>1 DEF IInv
  <2>3. PICK type \in ServerType : last.call = Call(type, last.request)
    BY <2>2 DEF Legal
  <2>4. Proper(last.request) /\ Proper(jobs[n].request)
    BY <2>2, RoutedProper DEF Legal, Jobs
  <2>5. Finds(last.call, last.request, jobs[n].request)
    BY <2>1, <2>3, <2>4, KeyCovers
  <2> QED
    BY <2>1, <2>5 DEF SameKey
<1> QED
  BY <1>1, Invariant, PTL

\* A dispatch starts on a client of the newest configuration that is open
\* (Dispatcher.replace_adapters, Engine.rebuild).
THEOREM StartsOpen == Spec => StartsOnOpenClient
<1> DEFINE Starts(n) == jobs'[n].status = "sent" /\ (n \in Job => jobs[n].status = "waiting")
           OnNewest(n) == jobs'[n].client \in open /\ jobs'[n].client[1] = gen
<1>1. ASSUME IInv, [Next]_vars
      PROVE  [\A n \in DOMAIN jobs' : Starts(n) => OnNewest(n)]_vars
  <2> SUFFICES ASSUME IInv, [Next]_vars, NEW n \in DOMAIN jobs', Starts(n)
               PROVE  OnNewest(n) \/ UNCHANGED vars
    BY <1>1
  <2>1. \A s \in DOMAIN adapters : adapters[s] \in open /\ adapters[s][1] = gen
    BY DEF IInv, AdaptersNew
  <2>2. CASE \E event \in Event : Consume(event)
    BY <2>2 DEF Consume, Job
  <2>3. CASE \E r \in batch : Submit(r)
    <3>1. PICK r \in batch : Submit(r)
      BY <2>3
    <3>2. r.request \in Routed
      BY DEF IInv, StateOK
    <3>3. CASE SubmitNow(r)
      <4> DEFINE job == Sent(NewJob(r.request))
      <4>1. Legal(job) /\ job.by = NewId
            /\ job.client = adapters[r.request.server] /\ r.request.server \in DOMAIN adapters
        BY <3>2, <3>3, NewJobLegal, SentLegal DEF SubmitNow, Sends
      <4>2. jobs' = Append(jobs, job)
        BY <3>3 DEF SubmitNow
      <4> HIDE DEF job
      <4>3. /\ Job' = Job \cup {NewId} /\ jobs'[NewId] = job
            /\ \A m \in Job : jobs'[m] = jobs[m]
        BY <4>1, <4>2, AppendedJobs DEF IInv
      <4>4. n = NewId
        BY <4>3 DEF Job
      <4> QED
        BY <2>1, <4>1, <4>3, <4>4
    <3>4. CASE SubmitUnsent(r)
      <4> DEFINE job == Ended(NewJob(r.request))
      <4>1. Legal(job) /\ job.status = "done"
        BY <3>2, NewJobLegal, EndedLegal
      <4>2. jobs' = Append(jobs, job)
        BY <3>4 DEF SubmitUnsent
      <4> HIDE DEF job
      <4>3. /\ Job' = Job \cup {NewId} /\ jobs'[NewId] = job
            /\ \A m \in Job : jobs'[m] = jobs[m]
        BY <4>1, <4>2, AppendedJobs DEF IInv
      <4> QED
        BY <4>1, <4>3 DEF Job
    <3>5. CASE SubmitTrailing(r)
      <4>1. /\ Job' = Job \cup {NewId} /\ jobs'[NewId].status = "waiting"
            /\ \A m \in Job : jobs'[m].status \in {"superseded", jobs[m].status}
        BY <3>5, TrailingJobs
      <4> QED
        BY <4>1 DEF Job
    <3> QED
      BY <3>1, <3>3, <3>4, <3>5 DEF Submit
  <2>4. CASE \E m \in Job : Fire(m) \/ Advance(m)
    <3>1. PICK m \in Job : \E job : Becomes(m, job)
      BY <2>4, FireBecomes, AnsweredBecomes, FailedBecomes, RetryBecomes DEF Advance
    <3>2. PICK job : Becomes(m, job)
      BY <3>1
    <3>3. n \in Job /\ jobs'[n] = IF n = m THEN job ELSE jobs[n]
      BY <3>2 DEF Becomes, Job
    <3> QED
      BY <2>1, <3>2, <3>3 DEF Becomes, Sends
  <2>5. CASE \E new \in Config : Rebuild(new)
    BY <2>5 DEF Rebuild, DropGone, Job
  <2>6. CASE \E c \in Client : CloseClient(c)
    BY <2>6 DEF CloseClient, work, Job
  <2> QED
    BY <2>2, <2>3, <2>4, <2>5, <2>6 DEF Next
<1>2. IInv /\ [Next]_vars => [\A n \in DOMAIN jobs' : Starts(n) => OnNewest(n)]_vars
  BY <1>1
<1> QED
  BY <1>2, Invariant, PTL DEF Spec, StartsOnOpenClient
=============================================================================
