----------------------------- MODULE ServeHeadless -----------------------------
(***************************************************************************)
(* cli.serve_headless around one Engine: the start task races the stop     *)
(* event of SIGINT/SIGTERM; then the engine is closed and the start task   *)
(* is awaited, never cancelled.  There is no web layer, so no requests.    *)
(***************************************************************************)
EXTENDS Engine

VARIABLES stop,   \* the stop event is set
          serve,  \* serve_headless: "running", "joining" or "exited"
          code    \* its exit code

hvars == <<vars, stop, serve, code>>

HInit == Init /\ stop = FALSE /\ serve = "running" /\ code = 0

Signal == /\ ~stop
          /\ stop' = TRUE
          /\ UNCHANGED <<vars, serve, code>>

\* Bug variant: the exit code tells the measurement, not the state.
WakeTellsLimit == /\ serve = "running"
                  /\ pc[Start] # "idle"
                  /\ stop \/ pc[Start] \in Ended
                  /\ code' = IF watchLimit = "low" THEN 3 ELSE 0
                  /\ serve' = "joining"
                  /\ AcloseBegin
                  /\ UNCHANGED stop

\* Bug variant: only the signal is waited for.
WakeOnSignal == /\ serve = "running"
                /\ pc[Start] # "idle" /\ stop
                /\ code' = IF state = "blocked" THEN 3 ELSE 0
                /\ serve' = "joining"
                /\ AcloseBegin
                /\ UNCHANGED stop

\* asyncio.wait returns, the exit code is chosen and aclose() begins, in one turn.
Wake == /\ serve = "running"
        /\ pc[Start] # "idle"
        /\ stop \/ pc[Start] \in Ended
        /\ code' = IF state = "blocked" THEN 3 ELSE 0
        /\ serve' = "joining"
        /\ AcloseBegin
        /\ UNCHANGED stop

\* Bug variant: aclose() is not awaited.
JoinStartOnly == /\ serve = "joining"
                 /\ pc[Start] \in Ended
                 /\ serve' = "exited"
                 /\ UNCHANGED <<vars, stop, code>>

\* aclose() has returned and the start task has ended by itself.
Join == /\ serve = "joining"
        /\ closer = "done" /\ pc[Start] \in Ended
        /\ serve' = "exited"
        /\ UNCHANGED <<vars, stop, code>>

Turn(A) == A /\ UNCHANGED <<stop, serve, code>>
ReadTurn == Turn(\E t \in Task : Reads(t))
StartTurn == Turn(Starting \/ ConsumeEnds)
CloseTurn == Turn(Closing)
FailTurn == Turn(\E t \in Task : ReadFails(t))

HNext == ReadTurn \/ FailTurn \/ StartTurn \/ CloseTurn \/ Signal \/ Wake \/ Join

HSpec == HInit /\ [][HNext]_hvars
HFairSpec == /\ HSpec
             /\ WF_hvars(Wake) /\ WF_hvars(Join)
             /\ WF_hvars(ReadTurn) /\ WF_hvars(StartTurn) /\ WF_hvars(CloseTurn)

-----------------------------------------------------------------------------
\* The exit code tells a supervisor what happened: 3 only when the gate blocked startup and
\* no root was ever attached, and always when the start task returned without a signal.
ExitCodeTellsBlocked ==
  /\ serve = "exited" /\ code = 3 => pc[Start] = "returned" /\ watchLimit = "low" /\ roots = {}
  /\ serve = "exited" /\ ~stop /\ pc[Start] = "returned" => code = 3

\* When the process exits, every client is closed, provided the pipeline was wired when the
\* teardown began: start() cannot open clients behind the back of aclose().
ExitReleasesClients == serve = "exited" /\ ~watching => open = {} /\ clients = {}

\* A startup the gate blocks ends the process by itself, without a signal.
BlockedExits == pc[Start] = "returned" ~> serve = "exited"

\* "Run the engine until SIGINT/SIGTERM, then shut down": a stop signal ends the process.
StopEndsProcess == stop ~> serve = "exited"
=============================================================================
