---------------------------- MODULE TrailingDebounce ----------------------------
(***************************************************************************)
(* What the Debouncer promises, without tasks, cancellation or event-loop  *)
(* turns: a key holds at most one pending request; a newer request takes   *)
(* its place and restarts the window; the request leaves the key by firing *)
(* once its window has run out, by being replaced, or by being dropped     *)
(* because its server is gone or the debouncer was closed.                 *)
(***************************************************************************)
EXTENDS Naturals

CONSTANTS Server,    \* server ids
          ScanKey,   \* scan keys a server's requests coalesce on
          Policy,    \* per-server policies: [mode, window]
          NoServer,  \* "no ServerRuntime registered under this id"
          Req,       \* requests
          NoReq      \* "no pending request"

VARIABLES servers,   \* the per-server policy map
          pending,   \* key -> the request waiting for its window
          left,      \* key -> what is left of the window
          fired      \* the requests fired so far

vars == <<servers, pending, left, fired>>

Key == Server \X ScanKey

Init == /\ servers \in [Server -> Policy \cup {NoServer}]
        /\ pending = [k \in Key |-> NoReq]
        /\ left = [k \in Key |-> 0]
        /\ fired = {}

\* A request r for key k takes the key over and restarts its window.
Arm(k, r) == /\ servers[k[1]] # NoServer
             /\ servers[k[1]].mode = "trailing"
             /\ pending' = [pending EXCEPT ![k] = r]
             /\ left' = [left EXCEPT ![k] = servers[k[1]].window]
             /\ UNCHANGED <<servers, fired>>

\* A request r for key k that is not debounced.
Immediate(k, r) == /\ servers[k[1]] # NoServer => servers[k[1]].mode = "off"
                   /\ r \notin fired
                   /\ fired' = fired \cup {r}
                   /\ UNCHANGED <<servers, pending, left>>

\* The window of k has run out: its request fires and the key is free.
Fire(k) == /\ pending[k] # NoReq
           /\ left[k] = 0
           /\ servers[k[1]] # NoServer
           /\ pending[k] \notin fired
           /\ fired' = fired \cup {pending[k]}
           /\ pending' = [pending EXCEPT ![k] = NoReq]
           /\ UNCHANGED <<servers, left>>

\* Time passes: no window grows.
Elapse == /\ left' \in [Key -> Nat]
          /\ \A k \in Key : left'[k] <= left[k] /\ left[k] <= left'[k] + 1
          /\ UNCHANGED <<servers, pending, fired>>

\* A new policy map: what is pending for a server that is gone is dropped.
Reconfigure(new) == /\ servers' = new
                    /\ pending' = [k \in Key |-> IF new[k[1]] = NoServer THEN NoReq
                                                                         ELSE pending[k]]
                    /\ left' = [k \in Key |-> IF new[k[1]] = NoServer THEN 0 ELSE left[k]]
                    /\ UNCHANGED fired

\* Teardown: nothing stays pending.
Close == /\ pending' = [k \in Key |-> NoReq]
         /\ left' = [k \in Key |-> 0]
         /\ UNCHANGED <<servers, fired>>

Next == \/ \E k \in Key, r \in Req : Arm(k, r) \/ Immediate(k, r)
        \/ \E k \in Key : Fire(k)
        \/ Elapse
        \/ \E new \in [Server -> Policy \cup {NoServer}] : Reconfigure(new)
        \/ Close

Spec == Init /\ [][Next]_vars
=============================================================================
