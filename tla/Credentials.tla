------------------------------- MODULE Credentials -------------------------------
(***************************************************************************)
(* web/auth.py: where the admin password is kept.  The file a generated    *)
(* password is left in, the must-change flag and the hash are written one  *)
(* after the other; the flag and the hash are rows of the Setting table,   *)
(* with a transaction each.  The writers are bootstrap_password(), before  *)
(* requests are served, and the handlers of web requests, whose writes run *)
(* in worker threads.  Every write of the file or of a row may fail, and   *)
(* the process may die between any two of them.                            *)
(*                                                                         *)
(* A generated password is the number of its generation; Own stands for    *)
(* every password a person chose.                                          *)
(***************************************************************************)
EXTENDS Naturals

CONSTANTS Request,      \* web requests
          Boot,         \* the task that runs bootstrap_password()
          Own,          \* a password somebody chose: typed, or of the environment
          NoPassword,   \* no row, no file
          Partial,      \* a file that is empty or was written in part
          MaxGenerated, \* bound: passwords generated
          MaxCrashes    \* bound: crashes

ASSUME BootAssumption == Boot \notin Request
ASSUME PasswordAssumption == /\ Own # NoPassword /\ Partial \notin {Own, NoPassword}
                             /\ Own \notin Nat /\ NoPassword \notin Nat /\ Partial \notin Nat
ASSUME BoundAssumption == MaxGenerated \in Nat /\ MaxCrashes \in Nat

Task == Request \cup {Boot}

VARIABLES
  hash,       \* the password that password_hash is the hash of
  mustChange, \* must_change_password = "1"
  file,       \* what the initial-password file holds
  linked,     \* tasks whose open file is the one at the path: it was not removed since
  env,        \* what MSM_PASSWORD_FILE or MSM_PASSWORD supplies
  pc,         \* task -> what it does next
  kind,       \* request -> its handler
  made,       \* task -> the password it is about to store
  serving,    \* bootstrap is over and requests are served
  generated,  \* how many passwords were generated
  crashes,    \* how often the process died
  seen,       \* the generated passwords somebody has read in the file (history)
  alone,      \* writers that had no other writer beside them (history)
  trouble     \* a reset went wrong since the last undisturbed one (history)

stored == <<hash, mustChange, file, linked>>
process == <<env, pc, kind, made, serving, generated, crashes>>
history == <<seen, alone, trouble>>
vars == <<stored, process, history>>

Init == /\ hash = NoPassword /\ mustChange = FALSE /\ file = NoPassword /\ linked = {}
        /\ env \in {Own, NoPassword}
        /\ pc = [t \in Task |-> IF t = Boot THEN "boot" ELSE "idle"]
        /\ kind = [r \in Request |-> "none"]
        /\ made = [t \in Task |-> NoPassword]
        /\ serving = FALSE /\ generated = 0 /\ crashes = 0
        /\ seen = {} /\ alone = {} /\ trouble = FALSE

Goto(t, where) == pc' = [pc EXCEPT ![t] = where]
Takes(t, p) == made' = [made EXCEPT ![t] = p]

\* A person knows the password p.
Known(p) == p = Own \/ p \in seen

Writing == {"open", "write", "chmod", "set flag", "set hash", "clear flag", "unlink"}
Writers == {r \in Request : pc[r] \in Writing}

\* A reset has truncated the file and not yet replaced the hash.
HalfReset(r) == kind[r] = "reset" /\ pc[r] \in {"write", "chmod", "set flag", "set hash"}

-----------------------------------------------------------------------------
(* bootstrap_password: an existing password, that of the environment, a generated one. *)

Bootstrap == /\ pc[Boot] = "boot"
             /\ \/ hash # NoPassword /\ Goto(Boot, "serve") /\ UNCHANGED made
                \/ /\ hash = NoPassword /\ env # NoPassword
                   /\ Goto(Boot, "set hash") /\ Takes(Boot, env)
                \/ /\ hash = NoPassword /\ env = NoPassword
                   /\ Goto(Boot, "open") /\ UNCHANGED made
             /\ UNCHANGED <<stored, env, kind, serving, generated, crashes, history>>

Serve == /\ pc[Boot] = "serve"
         /\ serving' = TRUE
         /\ Goto(Boot, "done")
         /\ UNCHANGED <<stored, env, kind, made, generated, crashes, history>>

-----------------------------------------------------------------------------
(* _generate_and_store by a task: the file in three steps, the flag, the hash. *)

\* Bug variant: the hash is stored before the file is written.
OpenHashFirst(t) == /\ pc[t] = "open"
                    /\ generated < MaxGenerated
                    /\ generated' = generated + 1
                    /\ Takes(t, generated + 1)
                    /\ file' = Partial /\ linked' = linked \cup {t}
                    /\ hash' = generated + 1
                    /\ Goto(t, "write")
                    /\ UNCHANGED <<mustChange, env, kind, serving, crashes, history>>

\* A password is generated and the file opened with O_TRUNC.
Open(t) == /\ pc[t] = "open"
           /\ generated < MaxGenerated
           /\ generated' = generated + 1
           /\ Takes(t, generated + 1)
           /\ file' = Partial /\ linked' = linked \cup {t}
           /\ Goto(t, "write")
           /\ UNCHANGED <<hash, mustChange, env, kind, serving, crashes, history>>

\* The file is written and closed; one that was removed in between is nobody's.
Write(t) == /\ pc[t] = "write"
            /\ file' = IF t \in linked THEN made[t] ELSE file
            /\ Goto(t, "chmod")
            /\ UNCHANGED <<hash, mustChange, linked, env, kind, made, serving, generated, crashes,
                           history>>

\* path.chmod finds a file at the path.
Chmod(t) == /\ pc[t] = "chmod" /\ file # NoPassword
            /\ Goto(t, "set flag")
            /\ UNCHANGED <<stored, env, kind, made, serving, generated, crashes, history>>

SetFlag(t) == /\ pc[t] = "set flag"
              /\ mustChange' = TRUE
              /\ Goto(t, "set hash")
              /\ UNCHANGED <<hash, file, linked, env, kind, made, serving, generated, crashes,
                             history>>

\* set_password(), by every writer; a change has its flag and its file to clear yet.
SetHash(t) == /\ pc[t] = "set hash"
              /\ hash' = made[t]
              /\ Goto(t, IF t = Boot THEN "serve"
                         ELSE IF kind[t] = "change" THEN "clear flag" ELSE "done")
              /\ trouble' = (trouble /\ ~(t = Boot \/ (kind[t] = "reset" /\ t \in alone)))
              /\ UNCHANGED <<mustChange, file, linked, env, kind, made, serving, generated, crashes,
                             seen, alone>>

\* An error ends the writer: a request is answered with it (OSError) or with 500, bootstrap
\* raises and the process ends.  A reset that has truncated the file leaves it behind.
Raises(t) == /\ Goto(t, IF t = Boot THEN "failed" ELSE "done")
             /\ trouble' = (trouble \/ (t \in Request /\ HalfReset(t)))
             /\ UNCHANGED <<hash, mustChange, linked, env, kind, made, serving, generated, crashes,
                            seen, alone>>

\* The directory cannot be made or the file not opened, written, closed or chmod'ed; a failed
\* write may have changed the file in part.
FileFails(t) == /\ pc[t] \in {"open", "write", "chmod"}
                /\ file' \in IF pc[t] = "write" /\ t \in linked THEN {file, Partial} ELSE {file}
                /\ Raises(t)

\* A transaction fails: its row stays as it was.
StoreFails(t) == /\ pc[t] \in {"boot", "set flag", "set hash", "clear flag"}
                 /\ UNCHANGED file
                 /\ Raises(t)

-----------------------------------------------------------------------------
(* The handlers. *)

\* A writer begins; trouble is a reset that has another writer beside it.
Begin(r, handler) == /\ serving /\ pc[r] = "idle"
                     /\ kind' = [kind EXCEPT ![r] = handler]
                     /\ alone' = IF Writers = {} THEN {r} ELSE {}
                     /\ trouble' = (trouble \/ \E w \in Writers : "reset" \in {handler, kind[w]})
                     /\ UNCHANGED <<stored, env, serving, generated, crashes, seen>>

\* POST /auth/reset-password.
Reset(r) == /\ Begin(r, "reset")
            /\ Goto(r, "open")
            /\ UNCHANGED made

\* Bug variant: the flag is cleared before the new password is stored.
ChangeClearsFirst(r) == /\ serving /\ pc[r] = "idle" /\ Known(hash)
                        /\ kind' = [kind EXCEPT ![r] = "change"]
                        /\ Goto(r, "set hash") /\ Takes(r, Own)
                        /\ mustChange' = FALSE
                        /\ alone' = IF Writers = {} THEN {r} ELSE {}
                        /\ trouble' = (trouble \/ \E w \in Writers : kind[w] = "reset")
                        /\ UNCHANGED <<hash, file, linked, env, serving, generated, crashes, seen>>

\* POST /account/password by somebody who knows the password; anything else is refused.
Change(r) == /\ Known(hash)
             /\ Begin(r, "change")
             /\ Goto(r, "set hash") /\ Takes(r, Own)

\* POST /setup: for a new password only as long as there is none.
Setup(r) ==
  IF hash = NoPassword
  THEN /\ Begin(r, "setup")
       /\ Goto(r, "set hash") /\ Takes(r, Own)
  ELSE /\ serving /\ pc[r] = "idle"
       /\ kind' = [kind EXCEPT ![r] = "setup"]
       /\ Goto(r, "done")
       /\ UNCHANGED <<stored, env, made, serving, generated, crashes, history>>

\* clear_initial_password() of a change: the flag, then the file if it can be removed.
ClearFlag(r) == /\ pc[r] = "clear flag"
                /\ mustChange' = FALSE
                /\ Goto(r, "unlink")
                /\ UNCHANGED <<hash, file, linked, env, kind, made, serving, generated, crashes,
                             history>>

Unlink(r) == /\ pc[r] = "unlink"
             /\ \/ file' = NoPassword /\ linked' = {}
                \/ UNCHANGED <<file, linked>>
             /\ Goto(r, "done")
             /\ UNCHANGED <<hash, mustChange, env, kind, made, serving, generated, crashes,
                            history>>

-----------------------------------------------------------------------------
(* Around the process. *)

\* Somebody reads the file on the host.
ReadFile == /\ file \in Nat
            /\ seen' = seen \cup {file}
            /\ UNCHANGED <<stored, process, alone, trouble>>

\* The process dies and is started again, perhaps with another environment.  The password
\* in the file of an unfinished reset is not the one that is stored.
Crash == /\ crashes < MaxCrashes
         /\ crashes' = crashes + 1
         /\ env' \in {Own, NoPassword}
         /\ serving' = FALSE
         /\ pc' = [t \in Task |-> IF t = Boot THEN "boot"
                                  ELSE IF pc[t] = "idle" THEN "idle" ELSE "done"]
         /\ alone' = {}
         /\ linked' = {}
         /\ trouble' = (trouble \/ \E r \in Request : HalfReset(r))
         /\ UNCHANGED <<hash, mustChange, file, kind, made, generated, seen>>

Store(t) == \/ Open(t) \/ Write(t) \/ Chmod(t) \/ FileFails(t)
            \/ SetFlag(t) \/ SetHash(t) \/ StoreFails(t)
Handle(r) == Reset(r) \/ Change(r) \/ Setup(r) \/ ClearFlag(r) \/ Unlink(r)

Next == \/ Bootstrap \/ Serve
        \/ \E t \in Task : Store(t)
        \/ \E r \in Request : Handle(r)
        \/ ReadFile \/ Crash

Spec == Init /\ [][Next]_vars

-----------------------------------------------------------------------------
\* The type of the state.
Password == Nat \cup {Own, NoPassword}
TypeOK == /\ hash \in Password /\ env \in {Own, NoPassword}
          /\ file \in Nat \cup {NoPassword, Partial}
          /\ mustChange \in BOOLEAN /\ serving \in BOOLEAN /\ trouble \in BOOLEAN
          /\ pc \in [Task -> Writing \cup {"boot", "serve", "failed", "idle", "done"}]
          /\ kind \in [Request -> {"none", "reset", "change", "setup"}]
          /\ made \in [Task -> Password]
          /\ generated \in Nat /\ crashes \in Nat
          /\ seen \subseteq Nat /\ alone \subseteq Request /\ linked \subseteq Task

\* A generated password that is in force is in the file, or somebody has read it there.  No
\* bootstrap and no change loses it, wherever a write of theirs fails or the process dies; a
\* reset can only between the truncation of the file and the hash: by an error there, by the
\* process dying there, or by another writer beside it.  The next undisturbed reset repairs it.
Recoverable == /\ ~trouble /\ hash \in Nat
               /\ \A r \in Request : ~HalfReset(r)
               => hash = file \/ hash \in seen

\* A generated password that is in force has to be changed at the next login.
GeneratedMustChange == ~trouble /\ hash \in Nat => mustChange

\* Requests are served only once a password is set; the page that sets the first one
\* (/setup) then never does.
SetBeforeServing ==
  serving => hash # NoPassword /\ \A r \in Request : kind[r] = "setup" => pc[r] = "done"
=============================================================================
