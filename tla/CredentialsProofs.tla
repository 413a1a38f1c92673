---------------------------- MODULE CredentialsProofs ----------------------------
(***************************************************************************)
(* Proofs about Credentials, for any number of requests, generated         *)
(* passwords and crashes.                                                  *)
(***************************************************************************)
EXTENDS Credentials, TLAPS

\* Where a writer is about to store a password.
Generating == {"open", "write", "chmod", "set flag", "set hash"}

\* bootstrap_password() stores a password only while there is none, and before requests.
BootOK ==
  /\ pc[Boot] \in {"boot", "serve", "failed", "done"} \cup Generating
  /\ pc[Boot] \in Generating => hash = NoPassword
  /\ pc[Boot] \in {"serve", "done"} => hash # NoPassword
  /\ pc[Boot] = "write" => made[Boot] \in Nat /\ Boot \in linked
  /\ pc[Boot] \in {"chmod", "set flag"} => made[Boot] \in Nat /\ file = made[Boot]
  /\ pc[Boot] = "set hash" =>
       made[Boot] # NoPassword /\ (made[Boot] \in Nat => file = made[Boot] /\ mustChange)
  /\ serving => pc[Boot] = "done"
  /\ \A r \in Request : pc[r] \in Writing => serving

\* What a request writes.
RequestOK(r) ==
  /\ pc[r] \in Writing \cup {"idle", "done"}
  /\ kind[r] = "setup" => pc[r] = "done"
  /\ pc[r] \in {"open", "write", "chmod", "set flag"} => kind[r] = "reset"
  /\ pc[r] \in {"clear flag", "unlink"} => kind[r] = "change"
  /\ pc[r] \in {"write", "chmod", "set flag"} => made[r] \in Nat
  /\ pc[r] = "set hash" => \/ kind[r] = "change" /\ made[r] = Own
                           \/ kind[r] = "reset" /\ made[r] \in Nat

\* A writer without another beside it finds what it wrote as it left it.
Undisturbed(r) ==
  r \in alone /\ pc[r] \in Writing =>
    /\ \A u \in Request : pc[u] \in Writing => u = r
    /\ pc[r] = "write" => r \in linked
    /\ pc[r] \in {"chmod", "set flag"} => file = made[r]
    /\ pc[r] = "set hash" /\ kind[r] = "reset" => file = made[r] /\ mustChange

\* Without trouble every reset is undisturbed, and a change has its own hash in force until
\* it is done.
Calm == ~trouble => \A r \in Request :
          /\ pc[r] \in Writing /\ kind[r] = "reset" => r \in alone
          /\ pc[r] \in {"clear flag", "unlink"} => hash = Own

IInv == /\ TypeOK
        /\ BootOK
        /\ \A r \in Request : RequestOK(r)
        /\ \A r \in Request : Undisturbed(r)
        /\ Calm
        /\ Recoverable
        /\ GeneratedMustChange

-----------------------------------------------------------------------------
\* A new installation: no password, no file, no request (Settings empty).
LEMMA InitHolds == Init => IInv
<1> SUFFICES ASSUME Init PROVE IInv
  OBVIOUS
<1>1. TypeOK
  BY PasswordAssumption DEF Init, TypeOK, Password
<1>2. BootOK
  BY DEF Init, BootOK, Generating, Writing, Task
<1>3. \A r \in Request : RequestOK(r) /\ Undisturbed(r)
  BY BootAssumption DEF Init, RequestOK, Undisturbed, Task
<1>4. Calm
  BY DEF Init, Calm, Task, Writing
<1>5. Recoverable /\ GeneratedMustChange
  BY PasswordAssumption DEF Init, Recoverable, GeneratedMustChange
<1> QED BY <1>1, <1>2, <1>3, <1>4, <1>5 DEF IInv

\* bootstrap_password() finds a password, takes the one of the environment or generates one.
LEMMA StepBootstrap ==
  ASSUME IInv, Bootstrap
  PROVE  IInv'
<1>1. TypeOK'
  BY DEF IInv, TypeOK, Password, Writing, Bootstrap, Goto, Takes, stored, history
<1>2. BootOK'
  BY BootAssumption, PasswordAssumption
  DEF IInv, TypeOK, BootOK, Generating, Writing, Task, Bootstrap, Goto, Takes, stored
<1>3. \A r \in Request : RequestOK(r)'
  BY BootAssumption DEF IInv, TypeOK, RequestOK, Task, Bootstrap, Goto, Takes
<1>4. \A r \in Request : Undisturbed(r)'
  BY BootAssumption DEF IInv, TypeOK, Undisturbed, Task, Bootstrap, Goto, Takes, stored, history
<1>5. Calm'
  BY BootAssumption DEF IInv, TypeOK, Calm, Task, Bootstrap, Goto, stored, history
<1>6. Recoverable'
  BY DEF IInv, BootOK, Recoverable, HalfReset, Writing, Bootstrap, stored, history
<1>7. GeneratedMustChange'
  BY DEF IInv, GeneratedMustChange, Bootstrap, stored, history
<1> QED BY <1>1, <1>2, <1>3, <1>4, <1>5, <1>6, <1>7 DEF IInv

\* serve_web starts to serve once bootstrap_password() has returned.
LEMMA StepServe ==
  ASSUME IInv, Serve
  PROVE  IInv'
<1>1. TypeOK'
  BY DEF IInv, TypeOK, Serve, Goto, stored, history
<1>2. BootOK'
  BY DEF IInv, TypeOK, BootOK, Generating, Writing, Task, Serve, Goto, stored
<1>3. \A r \in Request : RequestOK(r)'
  BY DEF IInv, TypeOK, RequestOK, Task, Serve, Goto
<1>4. \A r \in Request : Undisturbed(r)'
  BY BootAssumption DEF IInv, TypeOK, Undisturbed, Task, Serve, Goto, stored, history
<1>5. Calm'
  BY BootAssumption DEF IInv, TypeOK, Calm, Task, Serve, Goto, stored, history
<1>6. Recoverable'
  BY DEF IInv, BootOK, Recoverable, HalfReset, Writing, Serve, stored, history
<1>7. GeneratedMustChange'
  BY DEF IInv, GeneratedMustChange, Serve, stored, history
<1> QED BY <1>1, <1>2, <1>3, <1>4, <1>5, <1>6, <1>7 DEF IInv

\* _generate_and_store makes up a password and truncates the file.
LEMMA StepOpen ==
  ASSUME IInv, NEW t \in Task, Open(t)
  PROVE  IInv'
<1> DEFINE g == generated + 1
<1>8. g \in Nat
  BY DEF IInv, TypeOK
<1>9. /\ pc[t] = "open" /\ pc' = [pc EXCEPT ![t] = "write"]
      /\ made' = [made EXCEPT ![t] = g] /\ file' = Partial /\ generated' = g
      /\ linked' = linked \cup {t}
      /\ UNCHANGED <<hash, mustChange, env, kind, serving, crashes, seen, alone, trouble>>
  BY DEF Open, Goto, Takes, history
<1> HIDE DEF g
<1>1. TypeOK'
  BY <1>8, <1>9 DEF IInv, TypeOK, Password, Writing
<1>2. BootOK'
  BY <1>8, <1>9 DEF IInv, TypeOK, BootOK, Generating, Writing, Task
<1>3. \A r \in Request : RequestOK(r)'
  BY <1>8, <1>9 DEF IInv, TypeOK, RequestOK, Task, Writing
<1>4. \A r \in Request : Undisturbed(r)'
  BY <1>9 DEF IInv, TypeOK, BootOK, Undisturbed, Generating, Writing, Task
<1>5. Calm'
  BY <1>9 DEF IInv, TypeOK, Calm, Writing, Task
<1>6. Recoverable'
  BY PasswordAssumption, <1>9
  DEF IInv, TypeOK, BootOK, RequestOK, Recoverable, HalfReset, Generating, Task
<1>7. GeneratedMustChange'
  BY <1>9 DEF IInv, GeneratedMustChange
<1> QED BY <1>1, <1>2, <1>3, <1>4, <1>5, <1>6, <1>7 DEF IInv

\* The password is written to the file, if it is still the one that was opened.
LEMMA StepWrite ==
  ASSUME IInv, NEW t \in Task, Write(t)
  PROVE  IInv'
<1>9. /\ pc[t] = "write" /\ pc' = [pc EXCEPT ![t] = "chmod"]
      /\ file' = IF t \in linked THEN made[t] ELSE file
      /\ UNCHANGED <<hash, mustChange, linked, env, kind, made, serving, generated, crashes,
                     seen, alone, trouble>>
  BY DEF Write, Goto, history
<1>8. made[t] \in Nat
  <2>1. CASE t = Boot
    BY <1>9, <2>1 DEF IInv, BootOK
  <2>2. CASE t \in Request
    BY <1>9, <2>2 DEF IInv, RequestOK
  <2> QED BY <2>1, <2>2 DEF Task
<1>1. TypeOK'
  BY <1>8, <1>9 DEF IInv, TypeOK, Writing
<1>2. BootOK'
  BY <1>8, <1>9 DEF IInv, TypeOK, BootOK, Generating, Writing, Task
<1>3. \A r \in Request : RequestOK(r)'
  BY <1>8, <1>9 DEF IInv, TypeOK, RequestOK, Task, Writing
<1>4. \A r \in Request : Undisturbed(r)'
  BY <1>9 DEF IInv, TypeOK, BootOK, Undisturbed, Generating, Writing, Task
<1>5. Calm'
  BY <1>9 DEF IInv, TypeOK, Calm, Writing, Task
<1>6. Recoverable'
  BY PasswordAssumption, <1>9
  DEF IInv, TypeOK, BootOK, RequestOK, Recoverable, HalfReset, Generating, Task
<1>7. GeneratedMustChange'
  BY <1>9 DEF IInv, GeneratedMustChange
<1> QED BY <1>1, <1>2, <1>3, <1>4, <1>5, <1>6, <1>7 DEF IInv

\* The mode of the file is set.
LEMMA StepChmod ==
  ASSUME IInv, NEW t \in Task, Chmod(t)
  PROVE  IInv'
<1>1. TypeOK'
  BY DEF IInv, TypeOK, Writing, Chmod, Goto, stored, history
<1>2. BootOK'
  BY DEF IInv, TypeOK, BootOK, Generating, Writing, Task, Chmod, Goto, stored
<1>3. \A r \in Request : RequestOK(r)'
  BY DEF IInv, TypeOK, RequestOK, Task, Writing, Chmod, Goto
<1>4. \A r \in Request : Undisturbed(r)'
  BY DEF IInv, TypeOK, Undisturbed, Writing, Task, Chmod, Goto, stored, history
<1>5. Calm'
  BY DEF IInv, TypeOK, Calm, Writing, Task, Chmod, Goto, stored, history
<1>6. Recoverable'
  BY DEF IInv, TypeOK, Recoverable, HalfReset, Task, Chmod, Goto, stored, history
<1>7. GeneratedMustChange'
  BY DEF IInv, GeneratedMustChange, Chmod, stored, history
<1> QED BY <1>1, <1>2, <1>3, <1>4, <1>5, <1>6, <1>7 DEF IInv

\* An error ends a writer: an unfinished bootstrap has stored nothing, an unfinished change
\* nothing that is not the owner's, and an unfinished reset is trouble.
LEMMA StepRaises ==
  ASSUME IInv, NEW t \in Task, Raises(t),
         pc[t] \in {"boot", "open", "write", "chmod", "set flag", "set hash", "clear flag"},
         \/ UNCHANGED file
         \/ pc[t] = "write" /\ file' = Partial
  PROVE  IInv'
<1>9. /\ pc' = [pc EXCEPT ![t] = IF t = Boot THEN "failed" ELSE "done"]
      /\ trouble' = (trouble \/ (t \in Request /\ HalfReset(t)))
      /\ UNCHANGED <<hash, mustChange, linked, env, kind, made, serving, generated, crashes,
                     seen, alone>>
  BY DEF Raises, Goto
<1>1. TypeOK'
  BY <1>9 DEF IInv, TypeOK
<1>2. BootOK'
  BY <1>9 DEF IInv, TypeOK, BootOK, Generating, Writing, Task
<1>3. \A r \in Request : RequestOK(r)'
  BY BootAssumption, <1>9 DEF IInv, TypeOK, RequestOK, Task
<1>4. \A r \in Request : Undisturbed(r)'
  BY <1>9 DEF IInv, TypeOK, BootOK, RequestOK, Undisturbed, Generating, Writing, Task
<1>5. Calm'
  BY <1>9 DEF IInv, TypeOK, Calm, Writing, Task
<1>6. Recoverable'
  <2>1. CASE t = Boot
    BY <1>9, <2>1, BootAssumption, PasswordAssumption
    DEF IInv, TypeOK, BootOK, Recoverable, HalfReset, Generating, Task
  <2>2. CASE t \in Request
    BY <1>9, <2>2, BootAssumption DEF IInv, TypeOK, RequestOK, Recoverable, HalfReset, Task
  <2> QED BY <2>1, <2>2 DEF Task
<1>7. GeneratedMustChange'
  BY <1>9 DEF IInv, GeneratedMustChange
<1> QED BY <1>1, <1>2, <1>3, <1>4, <1>5, <1>6, <1>7 DEF IInv

\* _write_initial_password_file raises.
LEMMA StepFileFails ==
  ASSUME IInv, NEW t \in Task, FileFails(t)
  PROVE  IInv'
BY StepRaises DEF FileFails

\* A transaction of Repo.set_setting, or the one bootstrap_password() reads in, raises.
LEMMA StepStoreFails ==
  ASSUME IInv, NEW t \in Task, StoreFails(t)
  PROVE  IInv'
BY StepRaises DEF StoreFails

\* set_must_change_password(True), between the file and the hash.
LEMMA StepSetFlag ==
  ASSUME IInv, NEW t \in Task, SetFlag(t)
  PROVE  IInv'
<1>1. TypeOK'
  BY DEF IInv, TypeOK, Writing, SetFlag, Goto, history
<1>2. BootOK'
  BY PasswordAssumption DEF IInv, TypeOK, BootOK, Generating, Writing, Task, SetFlag, Goto
<1>3. \A r \in Request : RequestOK(r)'
  BY DEF IInv, TypeOK, RequestOK, Task, Writing, SetFlag, Goto
<1>4. \A r \in Request : Undisturbed(r)'
  BY DEF IInv, TypeOK, Undisturbed, Task, SetFlag, Goto, history
<1>5. Calm'
  BY DEF IInv, TypeOK, Calm, Task, SetFlag, Goto, history
<1>6. Recoverable'
  BY DEF IInv, TypeOK, Recoverable, HalfReset, Task, SetFlag, Goto, history
<1>7. GeneratedMustChange'
  BY DEF GeneratedMustChange, SetFlag
<1> QED BY <1>1, <1>2, <1>3, <1>4, <1>5, <1>6, <1>7 DEF IInv

\* set_password_hash: the password written before is now the one in force.
LEMMA StepSetHash ==
  ASSUME IInv, NEW t \in Task, SetHash(t)
  PROVE  IInv'
<1>1. TypeOK'
  BY DEF IInv, TypeOK, Writing, SetHash, Goto
<1>2. BootOK'
  BY PasswordAssumption
  DEF IInv, TypeOK, BootOK, RequestOK, Generating, Writing, Task, SetHash, Goto
<1>3. \A r \in Request : RequestOK(r)'
  BY BootAssumption DEF IInv, TypeOK, RequestOK, Task, Writing, SetHash, Goto
<1>4. \A r \in Request : Undisturbed(r)'
  BY DEF IInv, TypeOK, BootOK, RequestOK, Undisturbed, Task, SetHash, Goto
<1>5. Calm'
  BY PasswordAssumption
  DEF IInv, TypeOK, BootOK, RequestOK, Undisturbed, Calm, Generating, Writing, Task, SetHash, Goto
<1>6. Recoverable'
  BY PasswordAssumption DEF IInv, BootOK, RequestOK, Undisturbed, Calm, Recoverable, Task, SetHash
<1>7. GeneratedMustChange'
  BY PasswordAssumption
  DEF IInv, BootOK, RequestOK, Undisturbed, Calm, GeneratedMustChange, Task, SetHash
<1> QED BY <1>1, <1>2, <1>3, <1>4, <1>5, <1>6, <1>7 DEF IInv

\* The reset endpoint begins to write.
LEMMA StepReset ==
  ASSUME IInv, NEW q \in Request, Reset(q)
  PROVE  IInv'
<1>1. TypeOK'
  BY DEF IInv, TypeOK, Writing, Reset, Goto, Begin, stored
<1>2. BootOK'
  BY DEF IInv, TypeOK, BootOK, Generating, Writing, Task, Reset, Goto, Begin, stored
<1>3. \A r \in Request : RequestOK(r)'
  BY DEF IInv, TypeOK, RequestOK, Task, Writing, Reset, Goto, Begin
<1>4. \A r \in Request : Undisturbed(r)'
  BY DEF IInv, TypeOK, Undisturbed, Task, Reset, Goto, Begin, Writers
<1>5. Calm'
  BY DEF IInv, TypeOK, Calm, Task, Reset, Goto, Begin, Writers
<1>6. Recoverable'
  BY DEF IInv, Recoverable, HalfReset, Writing, Reset, Begin, Writers, stored
<1>7. GeneratedMustChange'
  BY DEF IInv, GeneratedMustChange, Reset, Begin, stored
<1> QED BY <1>1, <1>2, <1>3, <1>4, <1>5, <1>6, <1>7 DEF IInv

\* A password change whose current password verifies begins to write.
LEMMA StepChange ==
  ASSUME IInv, NEW q \in Request, Change(q)
  PROVE  IInv'
<1>1. TypeOK'
  BY DEF IInv, TypeOK, Password, Writing, Change, Goto, Takes, Begin, stored
<1>2. BootOK'
  BY DEF IInv, TypeOK, BootOK, Generating, Writing, Task, Change, Goto, Begin, stored
<1>3. \A r \in Request : RequestOK(r)'
  BY DEF IInv, TypeOK, RequestOK, Task, Writing, Change, Goto, Takes, Begin
<1>4. \A r \in Request : Undisturbed(r)'
  BY DEF IInv, TypeOK, Undisturbed, Task, Change, Goto, Begin, Writers
<1>5. Calm'
  BY DEF IInv, TypeOK, RequestOK, Calm, Task, Change, Goto, Begin, Writers, stored
<1>6. Recoverable'
  BY PasswordAssumption DEF Recoverable, Change, Begin, Known, stored
<1>7. GeneratedMustChange'
  BY DEF IInv, GeneratedMustChange, Change, Begin, stored
<1> QED BY <1>1, <1>2, <1>3, <1>4, <1>5, <1>6, <1>7 DEF IInv

\* The setup endpoint never writes: there is a password before the first request.
LEMMA StepSetup ==
  ASSUME IInv, NEW q \in Request, Setup(q)
  PROVE  IInv'
<1>8. serving /\ pc[q] = "idle" /\ hash # NoPassword
  BY DEF IInv, BootOK, Setup, Begin
<1>9. /\ kind' = [kind EXCEPT ![q] = "setup"] /\ pc' = [pc EXCEPT ![q] = "done"]
      /\ UNCHANGED <<stored, env, made, serving, generated, crashes, history>>
  BY <1>8 DEF Setup, Goto
<1>1. TypeOK'
  BY <1>9 DEF IInv, TypeOK, stored, history
<1>2. BootOK'
  BY <1>8, <1>9 DEF IInv, TypeOK, BootOK, Generating, Writing, Task, stored
<1>3. \A r \in Request : RequestOK(r)'
  BY <1>9 DEF IInv, TypeOK, RequestOK, Task
<1>4. \A r \in Request : Undisturbed(r)'
  BY <1>9 DEF IInv, TypeOK, Undisturbed, Task, Writing, stored, history
<1>5. Calm'
  BY <1>9 DEF IInv, TypeOK, Calm, Task, Writing, stored, history
<1>6. Recoverable'
  BY <1>8, <1>9 DEF IInv, TypeOK, BootOK, Recoverable, HalfReset, Task, stored, history
<1>7. GeneratedMustChange'
  BY <1>9 DEF IInv, GeneratedMustChange, stored, history
<1> QED BY <1>1, <1>2, <1>3, <1>4, <1>5, <1>6, <1>7 DEF IInv

\* set_must_change_password(False), after the owner's hash is stored.
LEMMA StepClearFlag ==
  ASSUME IInv, NEW q \in Request, ClearFlag(q)
  PROVE  IInv'
<1>1. TypeOK'
  BY DEF IInv, TypeOK, Writing, ClearFlag, Goto, history
<1>2. BootOK'
  BY DEF IInv, TypeOK, BootOK, Generating, Writing, Task, ClearFlag, Goto
<1>3. \A r \in Request : RequestOK(r)'
  BY DEF IInv, TypeOK, RequestOK, Task, Writing, ClearFlag, Goto
<1>4. \A r \in Request : Undisturbed(r)'
  BY DEF IInv, TypeOK, Undisturbed, Task, ClearFlag, Goto, history
<1>5. Calm'
  BY DEF IInv, TypeOK, Calm, Task, ClearFlag, Goto, history
<1>6. Recoverable'
  BY PasswordAssumption DEF IInv, Undisturbed, Calm, Recoverable, Writing, ClearFlag, history
<1>7. GeneratedMustChange'
  BY PasswordAssumption
  DEF IInv, Undisturbed, Calm, GeneratedMustChange, Writing, ClearFlag, history
<1> QED BY <1>1, <1>2, <1>3, <1>4, <1>5, <1>6, <1>7 DEF IInv

\* The initial-password file is removed last.
LEMMA StepUnlink ==
  ASSUME IInv, NEW q \in Request, Unlink(q)
  PROVE  IInv'
<1>1. TypeOK'
  BY PasswordAssumption DEF IInv, TypeOK, Password, Unlink, Goto, history
<1>2. BootOK'
  BY DEF IInv, TypeOK, BootOK, Generating, Writing, Task, Unlink, Goto
<1>3. \A r \in Request : RequestOK(r)'
  BY DEF IInv, TypeOK, RequestOK, Task, Unlink, Goto
<1>4. \A r \in Request : Undisturbed(r)'
  BY DEF IInv, TypeOK, Undisturbed, Task, Unlink, Goto, history
<1>5. Calm'
  BY DEF IInv, TypeOK, Calm, Task, Unlink, Goto, history
<1>6. Recoverable'
  BY PasswordAssumption DEF IInv, Undisturbed, Calm, Recoverable, Writing, Unlink, history
<1>7. GeneratedMustChange'
  BY DEF IInv, GeneratedMustChange, Unlink, history
<1> QED BY <1>1, <1>2, <1>3, <1>4, <1>5, <1>6, <1>7 DEF IInv

\* The owner reads the file.
LEMMA StepReadFile ==
  ASSUME IInv, ReadFile
  PROVE  IInv'
<1>1. TypeOK'
  BY DEF IInv, TypeOK, Password, ReadFile, stored, process
<1>2. BootOK'
  BY DEF IInv, BootOK, ReadFile, stored, process
<1>3. \A r \in Request : RequestOK(r)'
  BY DEF IInv, RequestOK, ReadFile, process
<1>4. \A r \in Request : Undisturbed(r)'
  BY DEF IInv, Undisturbed, ReadFile, stored, process
<1>5. Calm'
  BY DEF IInv, Calm, ReadFile, stored, process
<1>6. Recoverable'
  BY DEF IInv, Recoverable, HalfReset, ReadFile, stored, process
<1>7. GeneratedMustChange'
  BY DEF IInv, GeneratedMustChange, ReadFile, stored
<1> QED BY <1>1, <1>2, <1>3, <1>4, <1>5, <1>6, <1>7 DEF IInv

\* The process dies between two writes and starts again with what is stored.
LEMMA StepCrash ==
  ASSUME IInv, Crash
  PROVE  IInv'
<1>1. TypeOK'
  <2>1. pc' \in [Task -> Writing \cup {"boot", "serve", "failed", "idle", "done"}]
    BY DEF Crash
  <2>2. env' \in {Own, NoPassword} /\ serving' \in BOOLEAN
    BY DEF Crash
  <2>4. crashes' \in Nat
    <3>1. crashes' = crashes + 1 /\ crashes \in Nat
      BY DEF IInv, TypeOK, Crash
    <3> QED BY <3>1
  <2>3. trouble' \in BOOLEAN
    BY DEF Crash
  <2> QED BY <2>1, <2>2, <2>3, <2>4 DEF IInv, TypeOK, Password, Crash, stored
<1>2. BootOK'
  BY DEF BootOK, Generating, Writing, Task, Crash
<1>3. \A r \in Request : RequestOK(r)'
  BY BootAssumption DEF IInv, RequestOK, Task, Crash
<1>4. \A r \in Request : Undisturbed(r)'
  BY DEF Undisturbed, Crash
<1>5. Calm'
  BY DEF Calm, Task, Writing, Crash
<1>6. Recoverable'
  BY DEF IInv, Recoverable, Crash, stored
<1>7. GeneratedMustChange'
  BY DEF IInv, GeneratedMustChange, Crash, stored
<1> QED BY <1>1, <1>2, <1>3, <1>4, <1>5, <1>6, <1>7 DEF IInv

\* Every step of the component, and stuttering, keeps the invariant.
LEMMA StepHolds == IInv /\ [Next]_vars => IInv'
<1> SUFFICES ASSUME IInv, [Next]_vars
             PROVE  IInv'
  OBVIOUS
<1>1. ASSUME NEW t \in Task, Store(t)
      PROVE  IInv'
  BY <1>1, StepOpen, StepWrite, StepChmod, StepFileFails, StepSetFlag, StepSetHash,
     StepStoreFails DEF Store
<1>2. ASSUME NEW r \in Request, Handle(r)
      PROVE  IInv'
  BY <1>2, StepReset, StepChange, StepSetup, StepClearFlag, StepUnlink DEF Handle
<1>3. CASE UNCHANGED vars
  <2>1. TypeOK' /\ BootOK' /\ \A r \in Request : RequestOK(r)'
    BY <1>3 DEF vars, stored, process, history, IInv, TypeOK, BootOK, RequestOK
  <2>2. Calm' /\ \A r \in Request : Undisturbed(r)'
    BY <1>3 DEF vars, stored, process, history, IInv, Undisturbed, Calm
  <2>3. Recoverable' /\ GeneratedMustChange'
    BY <1>3 DEF vars, stored, process, history, IInv, Recoverable, HalfReset, GeneratedMustChange
  <2> QED BY <2>1, <2>2, <2>3 DEF IInv
<1> QED BY <1>1, <1>2, <1>3, StepBootstrap, StepServe, StepReadFile, StepCrash DEF Next

\* The inductive invariant holds in every run.
LEMMA InvariantHolds == Spec => []IInv
BY InitHolds, StepHolds, PTL DEF Spec

-----------------------------------------------------------------------------
\* Every run keeps the type of the password's state (web/auth.py).
THEOREM TypeCorrect == Spec => []TypeOK
<1>1. IInv => TypeOK
  BY DEF IInv
<1> QED BY <1>1, InvariantHolds, PTL

\* No generated password is lost by a bootstrap or a change that fails or dies: the one writes
\* the file before the flag and the hash, the other clears them in the opposite order; and an
\* undisturbed reset that stores its hash repairs what others spoilt.
THEOREM NeverLost == Spec => []Recoverable
<1>1. IInv => Recoverable
  BY DEF IInv
<1> QED BY <1>1, InvariantHolds, PTL

\* A generated password in force is marked for change (must_change_password).
THEOREM MarkedForChange == Spec => []GeneratedMustChange
<1>1. IInv => GeneratedMustChange
  BY DEF IInv
<1> QED BY <1>1, InvariantHolds, PTL

\* serve_web serves requests only once bootstrap_password() has made sure of a password.
THEOREM SetFirst == Spec => []SetBeforeServing
<1>1. IInv => SetBeforeServing
  BY DEF IInv, BootOK, RequestOK, SetBeforeServing
<1> QED BY <1>1, InvariantHolds, PTL
=============================================================================
