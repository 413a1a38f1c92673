-------------------------------- MODULE ServeWeb --------------------------------
(***************************************************************************)
(* web/server.serve_web around one Engine: uvicorn serves requests while   *)
(* the engine starts and runs.  SIGINT/SIGTERM goes to uvicorn, which      *)
(* stops accepting and waits for the requests it has accepted (external);  *)
(* the stop_event parameter does not wait for them.  Then the engine is    *)
(* closed and the start task cancelled.                                    *)
(***************************************************************************)
EXTENDS Engine

VARIABLES accepting,  \* uvicorn accepts requests
          stopEvent,  \* stop_event is set
          server      \* serve_web: "running", "closing" or "exited"

wvars == <<vars, accepting, stopEvent, server>>

WInit == Init /\ accepting = TRUE /\ stopEvent = FALSE /\ server = "running"

\* Requests between commit and answer.
Active == {t \in Rebuilder : pc[t] \notin {"idle", "done", "skipped", "failed"}}

Request == /\ accepting
           /\ \E t \in Rebuilder : Commit(t) \/ Recheck(t)
           /\ UNCHANGED <<accepting, stopEvent, server>>

\* A signal, or should_exit: uvicorn stops accepting.
UvicornStops == /\ accepting
                /\ accepting' = FALSE
                /\ UNCHANGED <<vars, stopEvent, server>>

SetStopEvent == /\ ~stopEvent
                /\ stopEvent' = TRUE
                /\ UNCHANGED <<vars, accepting, server>>

\* Bug variant: accepted requests are not drained.
ShutdownUndrained == /\ server = "running"
                     /\ pc[Start] # "idle"
                     /\ ~accepting \/ stopEvent
                     /\ server' = "closing"
                     /\ accepting' = FALSE
                     /\ AcloseBegin
                     /\ UNCHANGED stopEvent

\* asyncio.wait returns (uvicorn has drained its requests, or the event is set), uvicorn is
\* told to exit and aclose() begins, in one turn.
Shutdown == /\ server = "running"
            /\ pc[Start] # "idle"
            /\ (~accepting /\ Active = {}) \/ stopEvent
            /\ server' = "closing"
            /\ accepting' = FALSE
            /\ AcloseBegin
            /\ UNCHANGED stopEvent

\* start_task.cancel() is called in the turn in which aclose() returns: the next turn of the
\* start task, if it has not ended, is its CancelledError ...
Cancelled == server = "closing" /\ closer = "done"

CancelStart == /\ Cancelled
               /\ StartCancel
               /\ UNCHANGED <<accepting, stopEvent, server>>

\* Bug variant: the CancelledError of the start task is not expected.
ExitIfReturned == /\ Cancelled
                  /\ pc[Start] = "returned" /\ Active = {}
                  /\ server' = "exited"
                  /\ UNCHANGED <<vars, accepting, stopEvent>>

\* ... and both tasks are awaited.
Exit == /\ Cancelled
        /\ pc[Start] \in Ended /\ Active = {}
        /\ server' = "exited"
        /\ UNCHANGED <<vars, accepting, stopEvent>>

OnlyEngine == UNCHANGED <<accepting, stopEvent, server>>
Read(t) == Reads(t) /\ OnlyEngine
Starts == ~Cancelled /\ (Starting \/ ConsumeEnds) /\ OnlyEngine
Close == Closing /\ OnlyEngine
Rebuild(t) == Rebuilding(t) /\ OnlyEngine
ReadRaises == (\E t \in Task : ReadFails(t)) /\ OnlyEngine

WNext == \/ \E t \in Task : Read(t)
         \/ ReadRaises \/ Starts \/ Close
         \/ \E t \in Rebuilder : Rebuild(t)
         \/ Request \/ UvicornStops \/ SetStopEvent \/ Shutdown \/ CancelStart \/ Exit

WSpec == WInit /\ [][WNext]_wvars
WFairSpec ==
  /\ WSpec
  /\ WF_wvars(Shutdown) /\ WF_wvars(CancelStart) /\ WF_wvars(Exit)
  /\ WF_wvars(Starts) /\ WF_wvars(Close)
  /\ \A t \in Task : WF_wvars(Read(t))
  /\ \A t \in Rebuilder : SF_wvars(Rebuild(t))

-----------------------------------------------------------------------------
\* When serve_web returns after a signal, nothing is left behind: every client that start()
\* or a rebuild opened is closed (but for what a failed rebuild abandoned), the watcher is
\* closed and the engine reads as stopped, also if the signal came while start() was reading.
ExitReleasesAll ==
  server = "exited" /\ ~stopEvent =>
     /\ \A c \in open : Abandoned(c)
     /\ clients = {} /\ state = "stopped" /\ (wired => ~watching)

\* The shutdown ends, whatever start() and the requests were doing when it began.
ShutdownEnds == ~accepting \/ stopEvent ~> server = "exited"
=============================================================================
