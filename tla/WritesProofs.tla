----------------------------- MODULE WritesProofs -----------------------------
(***************************************************************************)
(* Proofs about Writes, for any requests, databases and forms.             *)
(***************************************************************************)
EXTENDS Writes, WellFoundedInduction, TLAPS

-----------------------------------------------------------------------------
(* Ids *)

\* A set of naturals has a least member.
LEMMA LeastNat ==
  ASSUME NEW U, U \subseteq Nat, U # {}
  PROVE  \E m \in U : \A n \in U : m <= n
<1> DEFINE R == OpToRel(<, Nat)
<1>1. IsWellFoundedOn(R, Nat)
  BY NatLessThanWellFounded
<1>2. \A x, y \in Nat : x < y => <<x, y>> \in R
  BY DEF OpToRel
<1> HIDE DEF R
<1>3. PICK m \in U : \A n \in U : <<n, m>> \notin R
  BY <1>1, WFMin
<1>4. m \in Nat /\ \A n \in U : n \in Nat /\ ~(n < m)
  BY <1>2, <1>3
<1> QED
  BY <1>4

\* The next id is not in use, and no larger than it has to be.
LEMMA NextIdFresh ==
  ASSUME NEW ids, NEW b \in Nat, ids \subseteq 1 .. b
  PROVE  NextId(ids) \in 1 .. b + 1 /\ \A i \in ids : i < NextId(ids)
<1>1. CASE ids = {}
  BY <1>1 DEF NextId
<1>2. CASE ids # {}
  <2> DEFINE U == {m \in Nat : \A i \in ids : i <= m}
  <2>1. U \subseteq Nat /\ b \in U
    OBVIOUS
  <2>2. PICK m \in U : \A n \in U : m <= n
    BY <2>1, LeastNat
  <2>3. m \in Nat /\ \A i \in ids : i \in Nat /\ i <= m /\ i >= 1
    OBVIOUS
  <2>4. m \in ids
    <3> SUFFICES ASSUME m \notin ids PROVE FALSE
      OBVIOUS
    <3>1. \A i \in ids : i <= m - 1
      BY <2>3
    <3>2. PICK i \in ids : TRUE
      BY <1>2
    <3>3. i <= m - 1 /\ i >= 1 /\ i \in Nat
      BY <2>3, <3>1
    <3>4. m - 1 \in Nat
      BY <2>3, <3>3
    <3>5. m - 1 \in U
      BY <3>1, <3>4
    <3> QED
      BY <2>2, <2>3, <3>5
  <2>5. \E x \in ids : \A y \in ids : x >= y
    BY <2>3, <2>4
  <2>6. Max(ids) \in ids /\ \A y \in ids : Max(ids) >= y
    BY <2>5 DEF Max
  <2>7. NextId(ids) = Max(ids) + 1
    BY <1>2 DEF NextId
  <2>8. Max(ids) \in 1 .. b
    BY <2>6
  <2>9. \A i \in ids : i \in Nat /\ i < Max(ids) + 1
    BY <2>3, <2>6, <2>8
  <2> HIDE DEF U
  <2> QED
    BY <2>7, <2>8, <2>9
<1> QED
  BY <1>1, <1>2

Bounded(ids) == \E b \in Nat : ids \subseteq 1 .. b

\* Inserting folders leaves those that are there alone.
LEMMA InsertedFolders ==
  ASSUME NEW table, Bounded(DOMAIN table), NEW n \in Nat, NEW s, NEW owner, NEW now
  PROVE  LET new == Inserted(table, n, s, owner, now) IN
         /\ Bounded(DOMAIN new) /\ DOMAIN table \subseteq DOMAIN new
         /\ \A f \in DOMAIN table : new[f] = table[f]
         /\ \A f \in DOMAIN new \ DOMAIN table : new[f] = FolderRow(s, owner, now)
<1> DEFINE next == NextId(DOMAIN table)
           ids == next .. next + n - 1
           new == Inserted(table, n, s, owner, now)
<1>1. PICK b \in Nat : DOMAIN table \subseteq 1 .. b
  BY DEF Bounded
<1>2. next \in 1 .. b + 1 /\ \A f \in DOMAIN table : f < next
  BY <1>1, NextIdFresh
<1> HIDE DEF next
<1>3. DOMAIN table \cap ids = {} /\ ids \subseteq 1 .. b + n
  BY <1>1, <1>2
<1>4. new = [f \in DOMAIN table \cup ids |->
               IF f \in ids THEN FolderRow(s, owner, now) ELSE table[f]]
  BY DEF Inserted, next
<1> HIDE DEF ids, new
<1>5. DOMAIN new = DOMAIN table \cup ids
  BY <1>4
<1>6. 1 .. b \subseteq 1 .. b + n /\ b + n \in Nat
  OBVIOUS
<1>7. Bounded(DOMAIN new)
  BY <1>1, <1>3, <1>5, <1>6 DEF Bounded
<1>8. /\ \A f \in DOMAIN table : new[f] = table[f]
      /\ \A f \in DOMAIN new \ DOMAIN table : new[f] = FolderRow(s, owner, now)
  BY <1>3, <1>4, <1>5
<1> QED
  BY <1>5, <1>7, <1>8 DEF new

-----------------------------------------------------------------------------
(* The inductive invariant *)

Patches == [type : {Keep} \cup Type, token : {Keep} \cup Token,
            folders : {{}} \cup {{n} : n \in 0 .. MaxRows}]
Rows == [type : Type, token : Token, excused : BOOLEAN, made : Nat, stamp : Nat]
FolderRows == [server : Nat, owner : Nat, made : Nat, edited : Nat]
Jobs == [server : Nat, folder : Nat, patch : Patches, stamp : Nat, since : Nat,
         row : Rows, old : SUBSET Nat]
Turns == {"idle", "read", "write", "delete", "insert", "update folder", "delete folder", "done"}

\* Whoever stored an empty token is excused.
Tables ==
  /\ clock \in Nat
  /\ Bounded(ServerId) /\ servers \in [ServerId -> Rows]
  /\ Bounded(FolderId) /\ folders \in [FolderId -> FolderRows]
  /\ \A s \in ServerId : /\ servers[s].token = "empty" => servers[s].excused
                         /\ servers[s].stamp <= clock

Requests == pc \in [Request -> Turns] /\ job \in [Request -> Jobs]

\* What an update was checked against is the row, or the row was written since.
Checked(r) ==
  /\ pc[r] \in {"read", "write"}
  /\ job[r].server \in ServerId
  /\ servers[job[r].server].stamp = job[r].stamp
  => /\ Gate(job[r].patch, servers[job[r].server])
     /\ pc[r] = "write" => job[r].row = servers[job[r].server]

\* The folders a request knows are those of its server, or were made since.
Owned(r) ==
  \A f \in FolderId : f \in job[r].old \/ f = job[r].folder
                        => folders[f].server = job[r].server \/ folders[f].made > job[r].since

Sound(r) == /\ job[r].stamp <= clock /\ job[r].since <= clock
            /\ Checked(r) /\ Owned(r)

Valid == Tables /\ FoldersFollowServer /\ TokenMandatory

IInv == Valid /\ Requests /\ \A r \in Request : Sound(r)

\* What any commit does to the tables: rows are left alone, or bear the mark of the commit.
Evolves ==
  /\ clock' \in {clock, clock + 1}
  /\ \A s \in DOMAIN servers' : \/ s \in ServerId /\ servers'[s] = servers[s]
                                \/ servers'[s].stamp = clock + 1
  /\ \A f \in DOMAIN folders' : \/ /\ f \in FolderId
                                   /\ folders'[f].server = folders[f].server
                                   /\ folders'[f].made = folders[f].made
                                \/ folders'[f].made = clock + 1

\* A request that does not act stays sound.
LEMMA OthersSound ==
  ASSUME IInv, Evolves, Valid', NEW q \in Request, pc'[q] = pc[q], job'[q] = job[q]
  PROVE  Sound(q)'
<1>1. clock \in Nat /\ job[q].stamp \in Nat /\ job[q].since \in Nat
  BY DEF IInv, Valid, Tables, Requests, Jobs
<1>2. job[q].stamp <= clock /\ job[q].since <= clock /\ Checked(q) /\ Owned(q)
  BY DEF IInv, Sound
<1>3. job'[q].stamp <= clock' /\ job'[q].since <= clock'
  BY <1>1, <1>2 DEF Evolves
<1>4. Checked(q)'
  <2> SUFFICES ASSUME pc[q] \in {"read", "write"}, job[q].server \in DOMAIN servers',
                      servers'[job[q].server].stamp = job[q].stamp
               PROVE  /\ Gate(job[q].patch, servers'[job[q].server])
                      /\ pc[q] = "write" => job[q].row = servers'[job[q].server]
    BY DEF Checked, ServerId, Gate
  <2>1. job[q].server \in ServerId /\ servers'[job[q].server] = servers[job[q].server]
    BY <1>1, <1>2 DEF Evolves
  <2> QED
    BY <1>2, <2>1 DEF Checked
<1>5. Owned(q)'
  <2> SUFFICES ASSUME NEW f \in DOMAIN folders', f \in job[q].old \/ f = job[q].folder
               PROVE  folders'[f].server = job[q].server \/ folders'[f].made > job[q].since
    BY DEF Owned, FolderId
  <2>1. CASE folders'[f].made = clock + 1
    BY <1>1, <1>2, <2>1
  <2>2. CASE folders'[f].made # clock + 1
    <3>1. /\ f \in FolderId /\ folders'[f].server = folders[f].server
          /\ folders'[f].made = folders[f].made
      BY <2>2 DEF Evolves
    <3> QED
      BY <1>2, <3>1 DEF Owned
  <2> QED
    BY <2>1, <2>2
<1> QED
  BY <1>3, <1>4, <1>5 DEF Sound

\* A step of one request keeps the invariant if it keeps the tables valid and its own
\* request sound.
LEMMA StepOf ==
  ASSUME IInv, Evolves, Valid', NEW r \in Request, NEW turn \in Turns, NEW what \in Jobs,
         Goto(r, turn, what), Sound(r)'
  PROVE  IInv'
<1>1. Requests'
  BY DEF IInv, Requests, Goto
<1>2. \A q \in Request \ {r} : pc'[q] = pc[q] /\ job'[q] = job[q]
  BY DEF IInv, Requests, Goto
<1>3. \A q \in Request : Sound(q)'
  BY <1>2, OthersSound
<1> QED
  BY <1>1, <1>3 DEF IInv

LEMMA NoJobIs ==
  /\ NoJob \in Jobs
  /\ NoJob.stamp = 0 /\ NoJob.since = 0 /\ NoJob.old = {} /\ NoJob.folder = 0
BY RowsAssumption DEF NoJob, NoPatch, Jobs, Patches, Rows, Row, Type, Token

LEMMA IdsNatural ==
  ASSUME Tables
  PROVE  ServerId \subseteq Nat /\ FolderId \subseteq Nat
BY DEF Tables, Bounded

LEMMA ClockGrows ==
  ASSUME Tables
  PROVE  0 <= clock /\ clock <= clock
BY DEF Tables

LEMMA NoFolderZero ==
  ASSUME Tables
  PROVE  0 \notin FolderId
BY DEF Tables, Bounded

\* A request that ends is sound.
LEMMA EndSound ==
  ASSUME IInv, Evolves, Valid', NEW r \in Request, Ends(r)
  PROVE  IInv'
<1>1. pc'[r] = "done" /\ job'[r] = NoJob
  BY DEF Ends, Goto, IInv, Requests
<1>2. 0 <= clock' /\ 0 \notin DOMAIN folders'
  BY NoFolderZero DEF Valid, Tables, Bounded, FolderId
<1>3. Sound(r)'
  BY <1>1, <1>2, NoJobIs DEF Sound, Checked, Owned, FolderId
<1> QED
  BY <1>3, NoJobIs, StepOf DEF Ends, Turns

\* A request that only reads leaves the tables valid.
LEMMA ReadsValid ==
  ASSUME IInv, UNCHANGED <<servers, folders, clock>>
  PROVE  Evolves /\ Valid'
BY DEF IInv, Valid, Tables, Evolves, FoldersFollowServer, TokenMandatory, ServerId, FolderId

-----------------------------------------------------------------------------
(* The tables *)

\* Folders that are removed leave the rest as it was.
LEMMA FoldersRemoved ==
  ASSUME IInv, NEW ids, servers' = servers, folders' = Without(folders, ids),
         clock' = clock + 1
  PROVE  Evolves /\ Valid'
<1>1. clock \in Nat /\ \A s \in ServerId : servers[s] \in Rows /\ servers[s].stamp <= clock
  BY DEF IInv, Valid, Tables
<1>2. \A s \in ServerId : servers[s].stamp <= clock + 1
  BY <1>1 DEF Rows
<1>3. /\ DOMAIN folders' \subseteq FolderId /\ folders' \in [DOMAIN folders' -> FolderRows]
      /\ \A f \in DOMAIN folders' : folders'[f] = folders[f]
  BY DEF Without, IInv, Valid, Tables
<1>4. Bounded(DOMAIN folders')
  BY <1>3 DEF Bounded, IInv, Valid, Tables
<1>5. Tables'
  BY <1>1, <1>2, <1>3, <1>4 DEF IInv, Valid, Tables, ServerId, FolderId, Bounded
<1>6. FoldersFollowServer' /\ TokenMandatory' /\ Evolves
  BY <1>3 DEF IInv, Valid, FoldersFollowServer, TokenMandatory, ServerId, FolderId, Evolves
<1> QED
  BY <1>5, <1>6 DEF Valid

\* Folders are inserted for a server that is there.
LEMMA FoldersInserted ==
  ASSUME IInv, NEW n \in Nat, NEW s \in ServerId
  PROVE  LET new == Inserted(folders, n, s, servers[s].made, clock + 1) IN
         /\ Bounded(DOMAIN new) /\ new \in [DOMAIN new -> FolderRows]
         /\ \A f \in DOMAIN new :
              \/ f \in FolderId /\ new[f] = folders[f]
              \/ new[f] = FolderRow(s, servers[s].made, clock + 1)
<1> DEFINE new == Inserted(folders, n, s, servers[s].made, clock + 1)
<1>1. Bounded(DOMAIN folders)
  BY DEF IInv, Valid, Tables, FolderId
<1>2. /\ Bounded(DOMAIN new)
      /\ \A f \in DOMAIN folders : new[f] = folders[f]
      /\ \A f \in DOMAIN new \ DOMAIN folders : new[f] = FolderRow(s, servers[s].made, clock + 1)
  BY <1>1, InsertedFolders
<1>3. new = [f \in DOMAIN new |-> new[f]]
  BY DEF Inserted
<1>4. s \in Nat /\ servers[s].made \in Nat /\ clock + 1 \in Nat
  BY DEF IInv, Valid, Tables, Bounded, Rows
<1>5. FolderRow(s, servers[s].made, clock + 1) \in FolderRows
  BY <1>4 DEF FolderRow, FolderRows
<1> HIDE DEF new
<1>6. \A f \in DOMAIN new : new[f] \in FolderRows
  BY <1>2, <1>5 DEF IInv, Valid, Tables, FolderId
<1>7. new \in [DOMAIN new -> FolderRows]
  BY <1>3, <1>6
<1> QED
  BY <1>2, <1>7 DEF new, FolderId

-----------------------------------------------------------------------------
(* Creating a server *)

LEMMA StepCreate ==
  ASSUME IInv, NEW r \in Request, Create(r)
  PROVE  IInv'
<1>1. PICK new \in ApiServers \cup FormServers :
        /\ SecretOk(new.type, new.token = "set")
        /\ LET s == NextId(ServerId) IN
           /\ servers' = [i \in ServerId \cup {s} |->
                            IF i = s THEN Row(new.type, new.token, clock + 1) ELSE servers[i]]
           /\ folders' = Inserted(folders, new.folders, s, clock + 1, clock + 1)
  BY DEF Create
<1> DEFINE s == NextId(ServerId)
           row == Row(new.type, new.token, clock + 1)
<1>2. clock' = clock + 1 /\ clock \in Nat /\ Ends(r)
  BY DEF Create, IInv, Valid, Tables
<1>3. new.type \in Type /\ new.token \in Token /\ new.folders \in Nat
  BY <1>1, RowsAssumption DEF ApiServers, FormServers, Token
<1>4. PICK b \in Nat : ServerId \subseteq 1 .. b
  BY DEF IInv, Valid, Tables, Bounded
<1>5. s \in 1 .. b + 1 /\ s \notin ServerId
  <2>1. s \in 1 .. b + 1 /\ \A i \in ServerId : i < s
    BY <1>4, NextIdFresh
  <2> QED
    BY <1>4, <2>1
<1> HIDE DEF s
<1>6. servers' = [i \in ServerId \cup {s} |-> IF i = s THEN row ELSE servers[i]]
  BY <1>1 DEF s
<1>7. /\ row \in Rows /\ row.stamp = clock + 1 /\ row.made = clock + 1
      /\ row.type = new.type /\ row.token = new.token /\ row.excused = (new.token = "empty")
  BY <1>2, <1>3 DEF Row, Rows
<1> HIDE DEF row
<1>8. /\ Bounded(DOMAIN folders')
      /\ \A f \in FolderId : f \in DOMAIN folders' /\ folders'[f] = folders[f]
      /\ \A f \in DOMAIN folders' \ FolderId :
           folders'[f] = FolderRow(s, clock + 1, clock + 1)
  BY <1>1, <1>3, InsertedFolders DEF IInv, Valid, Tables, FolderId, s
<1>9. FolderRow(s, clock + 1, clock + 1) \in FolderRows
  BY <1>2, <1>4, <1>5 DEF FolderRow, FolderRows
<1>10. Tables'
  <2>1. DOMAIN servers' \subseteq 1 .. b + 1 /\ b + 1 \in Nat
    BY <1>4, <1>5, <1>6
  <2>2. servers' \in [DOMAIN servers' -> Rows]
    BY <1>6, <1>7 DEF IInv, Valid, Tables
  <2>3. \A i \in DOMAIN servers' : /\ servers'[i].token = "empty" => servers'[i].excused
                                   /\ servers'[i].stamp <= clock + 1
    BY <1>2, <1>6, <1>7 DEF IInv, Valid, Tables, Rows
  <2>4. folders' = [f \in DOMAIN folders' |-> folders'[f]]
    BY <1>1 DEF Inserted
  <2>5. folders' \in [DOMAIN folders' -> FolderRows]
    BY <1>8, <1>9, <2>4 DEF IInv, Valid, Tables
  <2> QED
    BY <1>2, <1>8, <2>1, <2>2, <2>3, <2>5 DEF Tables, Bounded, ServerId, FolderId
<1>11. FoldersFollowServer'
  <2> SUFFICES ASSUME NEW f \in DOMAIN folders'
               PROVE  /\ folders'[f].server \in DOMAIN servers'
                      /\ folders'[f].owner = servers'[folders'[f].server].made
    BY DEF FoldersFollowServer, FolderId, ServerId
  <2>1. CASE f \in FolderId
    BY <1>5, <1>6, <1>8, <2>1 DEF IInv, Valid, FoldersFollowServer
  <2>2. CASE f \notin FolderId
    BY <1>6, <1>7, <1>8, <2>2 DEF FolderRow
  <2> QED
    BY <2>1, <2>2
<1>12. TokenMandatory'
  <2>1. RequiresSecret(row.type) => row.token = "set"
    BY <1>1, <1>7 DEF SecretOk
  <2> QED
    BY <1>5, <1>6, <2>1 DEF IInv, Valid, TokenMandatory, ServerId
<1>13. Evolves
  <2>1. \A i \in DOMAIN servers' : \/ i \in ServerId /\ servers'[i] = servers[i]
                                   \/ servers'[i].stamp = clock + 1
    BY <1>6, <1>7
  <2>2. \A f \in DOMAIN folders' :
          (f \in FolderId /\ folders'[f] = folders[f]) \/ folders'[f].made = clock + 1
    BY <1>8 DEF FolderRow
  <2> QED
    BY <1>2, <2>1, <2>2 DEF Evolves
<1> QED
  BY <1>2, <1>10, <1>11, <1>12, <1>13, EndSound DEF Valid

-----------------------------------------------------------------------------
(* Updating a server *)

LEMMA PatchesIn == ApiPatches \cup FormPatches \subseteq Patches
BY DEF ApiPatches, FormPatches, Patches, Type, Token

LEMMA StepCheckUpdate ==
  ASSUME IInv, NEW r \in Request, NEW patch \in ApiPatches \cup FormPatches,
         CheckUpdate(r, patch)
  PROVE  IInv'
<1>1. UNCHANGED <<servers, folders, clock>>
  BY DEF CheckUpdate
<1>2. PICK s \in ServerId :
        /\ Gate(patch, servers[s])
        /\ Goto(r, "read", [NoJob EXCEPT !.server = s, !.patch = patch, !.since = clock,
                                         !.stamp = servers[s].stamp])
  BY DEF CheckUpdate
<1> DEFINE what == [NoJob EXCEPT !.server = s, !.patch = patch, !.since = clock,
                                 !.stamp = servers[s].stamp]
<1>3. Evolves /\ Valid'
  BY <1>1, ReadsValid
<1>4. clock \in Nat /\ s \in Nat /\ servers[s].stamp \in Nat /\ patch \in Patches
  BY PatchesIn DEF IInv, Valid, Tables, Bounded, Rows
<1>5. what \in Jobs
  BY <1>4, NoJobIs DEF Jobs
<1>6. pc'[r] = "read" /\ job'[r] = what
  BY <1>2 DEF Goto, IInv, Requests
<1>7. /\ what.server = s /\ what.patch = patch /\ what.since = clock
      /\ what.stamp = servers[s].stamp /\ what.old = {} /\ what.folder = 0
  BY NoJobIs DEF Jobs
<1> HIDE DEF what
<1>8. Sound(r)'
  <2>1. what.stamp <= clock' /\ what.since <= clock'
    BY <1>1, <1>4, <1>7 DEF IInv, Valid, Tables
  <2>2. Checked(r)'
    BY <1>1, <1>2, <1>6, <1>7 DEF Checked, Gate, ServerId
  <2>3. 0 \notin DOMAIN folders'
    BY <1>3, NoFolderZero DEF Valid, Tables, Bounded, FolderId
  <2>4. Owned(r)'
    BY <1>6, <1>7, <2>3 DEF Owned, FolderId
  <2> QED
    BY <1>6, <2>1, <2>2, <2>4 DEF Sound
<1> QED
  BY <1>2, <1>3, <1>5, <1>8, StepOf DEF Turns, what

LEMMA StepReadUpdate ==
  ASSUME IInv, NEW r \in Request, ReadUpdate(r)
  PROVE  IInv'
<1>1. UNCHANGED <<servers, folders, clock>> /\ pc[r] = "read"
  BY DEF ReadUpdate
<1>2. Evolves /\ Valid'
  BY <1>1, ReadsValid
<1>3. CASE Ends(r)
  BY <1>2, <1>3, EndSound
<1>4. CASE ~Ends(r)
  <2> DEFINE s == job[r].server
             old == IF job[r].patch.folders = {} THEN {} ELSE FoldersOf(s)
             what == [job[r] EXCEPT !.row = servers[s], !.old = old]
  <2>1. s \in ServerId /\ Goto(r, "write", what)
    BY <1>4 DEF ReadUpdate
  <2>2. job[r] \in Jobs /\ servers[s] \in Rows
    BY <2>1 DEF IInv, Valid, Tables, Requests
  <2>3. \A f \in old : f \in Nat /\ f \in FolderId /\ folders[f].server = s
    <3>1. FolderId \subseteq Nat
      BY DEF IInv, Valid, Tables, Bounded
    <3>2. old \subseteq FoldersOf(s)
      OBVIOUS
    <3> QED
      BY <3>1, <3>2 DEF FoldersOf
  <2> HIDE DEF old
  <2>4. what \in Jobs
    BY <2>2, <2>3 DEF Jobs
  <2>5. /\ what.row = servers[s] /\ what.old = old /\ what.server = s
        /\ what.patch = job[r].patch /\ what.stamp = job[r].stamp
        /\ what.since = job[r].since /\ what.folder = job[r].folder
    BY <2>2 DEF Jobs
  <2> HIDE DEF what
  <2>6. pc'[r] = "write" /\ job'[r] = what
    BY <2>1 DEF Goto, IInv, Requests
  <2>7. Sound(r)
    BY DEF IInv
  <2>8. Checked(r)'
    BY <1>1, <2>1, <2>5, <2>6, <2>7 DEF Sound, Checked, Gate, ServerId
  <2>9. Owned(r)'
    BY <1>1, <2>3, <2>5, <2>6, <2>7 DEF Sound, Owned, FolderId
  <2>10. Sound(r)'
    BY <1>1, <2>5, <2>6, <2>7, <2>8, <2>9 DEF Sound
  <2> QED
    BY <1>2, <2>1, <2>4, <2>10, StepOf DEF Turns, what
<1> QED
  BY <1>3, <1>4

\* The row an update writes is one the gate has let pass, or is excused.
LEMMA UpdatedRow ==
  ASSUME IInv, NEW r \in Request, pc[r] = "write", job[r].server \in ServerId
  PROVE  LET old == servers[job[r].server]
             row == Updated(r, old) IN
         /\ row \in Rows /\ row.stamp = clock + 1 /\ row.made = old.made
         /\ row.token = "empty" => row.excused
         /\ RequiresSecret(row.type) /\ row.token # "set" => row.excused
<1> DEFINE s == job[r].server
           patch == job[r].patch
           old == servers[s]
           row == Updated(r, old)
<1>1. /\ old \in Rows /\ clock + 1 \in Nat /\ patch \in Patches /\ job[r].row \in Rows
      /\ old.token = "empty" => old.excused
  BY DEF IInv, Valid, Tables, Requests, Jobs
<1>2. /\ row.type = IF SetsType(r) THEN patch.type ELSE old.type
      /\ row.token = IF SetsToken(r) THEN patch.token ELSE old.token
      /\ row.excused = (old.excused \/ old.stamp # job[r].stamp \/ patch.token = "empty")
      /\ row.made = old.made /\ row.stamp = clock + 1
      /\ row \in [type : {row.type}, token : {row.token}, excused : {row.excused},
                  made : {row.made}, stamp : {row.stamp}]
  BY <1>1 DEF Updated, Rows
<1>3. row.type \in Type /\ row.token \in Token /\ row.excused \in BOOLEAN /\ row.made \in Nat
  BY <1>1, <1>2 DEF SetsType, SetsToken, Patches, Rows, Token, Keep
<1> HIDE DEF row
<1>4. row \in Rows
  BY <1>1, <1>2, <1>3 DEF Rows
<1>5. CASE old.stamp # job[r].stamp
  BY <1>2, <1>4, <1>5 DEF row
<1>6. CASE old.stamp = job[r].stamp
  <2>1. Gate(patch, old) /\ job[r].row = old
    BY <1>6 DEF IInv, Sound, Checked
  <2>2. /\ row.type = IF patch.type # Keep THEN patch.type ELSE old.type
        /\ row.token = IF patch.token # Keep THEN patch.token ELSE old.token
    BY <1>1, <1>2, <2>1 DEF SetsType, SetsToken, Patches, Rows, Token, Keep
  <2>3. row.token = "empty" => row.excused
    BY <1>1, <1>2, <2>2 
  <2>4. RequiresSecret(row.type) /\ row.token # "set" => row.excused
    BY <1>1, <1>2, <1>3, <2>1, <2>2, <2>3 DEF Gate, SecretOk, Token, Rows
  <2> QED
    BY <1>2, <1>4, <2>3, <2>4 DEF row
<1> QED
  BY <1>5, <1>6

\* The folders an update leaves.
LEMMA ReplacedFolders ==
  ASSUME IInv, NEW r \in Request, pc[r] = "write",
         \/ job[r].server \in ServerId
         \/ job[r].patch.folders \in {{}, {0}}
  PROVE  LET new == Replaced(r) IN
         /\ Bounded(DOMAIN new) /\ new \in [DOMAIN new -> FolderRows]
         /\ \A f \in DOMAIN new :
              \/ f \in FolderId /\ new[f] = folders[f]
              \/ /\ job[r].server \in ServerId
                 /\ new[f] = FolderRow(job[r].server, servers[job[r].server].made, clock + 1)
<1> DEFINE s == job[r].server
           patch == job[r].patch
           n == CHOOSE n \in patch.folders : TRUE
           more == IF patch.folders \in {{}, {0}} THEN folders
                   ELSE Inserted(folders, n, s, servers[s].made, clock + 1)
           Inv(table) == /\ Bounded(DOMAIN table) /\ table \in [DOMAIN table -> FolderRows]
                         /\ \A f \in DOMAIN table :
                              \/ f \in FolderId /\ table[f] = folders[f]
                              \/ /\ s \in ServerId
                                 /\ table[f] = FolderRow(s, servers[s].made, clock + 1)
<1>1. Inv(more)
  <2>1. CASE patch.folders \in {{}, {0}}
    BY <2>1 DEF IInv, Valid, Tables, FolderId
  <2>2. CASE patch.folders \notin {{}, {0}}
    <3>1. patch.folders \in {{m} : m \in 0 .. MaxRows}
      BY <2>2 DEF IInv, Requests, Jobs, Patches
    <3>2. n \in Nat
      BY <3>1, RowsAssumption
    <3> HIDE DEF n
    <3>3. more = Inserted(folders, n, s, servers[s].made, clock + 1) /\ s \in ServerId
      BY <2>2
    <3> QED
      BY <3>2, <3>3, FoldersInserted
  <2> QED
    BY <2>1, <2>2
<1>2. Replaced(r) = Without(more, job[r].old)
  BY DEF Replaced
<1> HIDE DEF more
<1>3. /\ DOMAIN Replaced(r) \subseteq DOMAIN more
      /\ Replaced(r) = [f \in DOMAIN Replaced(r) |-> more[f]]
  BY <1>2 DEF Without
<1>4. \A f \in DOMAIN Replaced(r) : Replaced(r)[f] = more[f]
  BY <1>3
<1>5. Inv(Replaced(r))
  <2>1. Bounded(DOMAIN Replaced(r))
    BY <1>1, <1>3 DEF Bounded
  <2>2. Replaced(r) \in [DOMAIN Replaced(r) -> FolderRows]
    BY <1>1, <1>3
  <2> QED
    BY <1>1, <1>3, <1>4, <2>1, <2>2
<1> QED
  BY <1>5

LEMMA StepWriteUpdate ==
  ASSUME IInv, NEW r \in Request, WriteUpdate(r)
  PROVE  IInv'
<1> DEFINE s == job[r].server
<1>1. pc[r] = "write" /\ Ends(r) /\ clock \in Nat
  BY DEF WriteUpdate, IInv, Valid, Tables
<1>2. CASE UNCHANGED <<servers, folders, clock>>
  BY <1>1, <1>2, ReadsValid, EndSound
<1>3. CASE ~UNCHANGED <<servers, folders, clock>>
  <2>1. /\ folders' = Replaced(r) /\ clock' = clock + 1
        /\ s \in ServerId \/ job[r].patch.folders \in {{}, {0}}
        /\ \/ servers' = servers
           \/ s \in ServerId /\ servers' = [servers EXCEPT ![s] = Updated(r, @)]
    BY <1>3 DEF WriteUpdate
  <2>2. /\ DOMAIN servers' = ServerId
        /\ \A i \in ServerId : \/ servers'[i] = servers[i]
                               \/ i = s /\ servers'[i] = Updated(r, servers[s])
        /\ servers' \in [ServerId -> {servers'[i] : i \in ServerId}]
    BY <2>1 DEF IInv, Valid, Tables
  <2>3. \A i \in ServerId :
          /\ servers'[i] \in Rows /\ servers'[i].stamp <= clock + 1
          /\ servers'[i].made = servers[i].made
          /\ servers'[i].token = "empty" => servers'[i].excused
          /\ RequiresSecret(servers'[i].type) /\ servers'[i].token # "set"
               => servers'[i].excused
          /\ servers'[i] = servers[i] \/ servers'[i].stamp = clock + 1
    <3> TAKE i \in ServerId
    <3>1. CASE servers'[i] = servers[i]
      BY <1>1, <3>1 DEF IInv, Valid, Tables, TokenMandatory, Rows
    <3>2. CASE i = s /\ servers'[i] = Updated(r, servers[s])
      BY <1>1, <3>2, UpdatedRow
    <3> QED
      BY <2>2, <3>1, <3>2
  <2>4. /\ Bounded(DOMAIN folders') /\ folders' \in [DOMAIN folders' -> FolderRows]
        /\ \A f \in DOMAIN folders' :
             \/ f \in FolderId /\ folders'[f] = folders[f]
             \/ s \in ServerId /\ folders'[f] = FolderRow(s, servers[s].made, clock + 1)
    BY <1>1, <2>1, ReplacedFolders
  <2>5. Tables'
    <3>1. servers' \in [DOMAIN servers' -> Rows] /\ Bounded(DOMAIN servers')
      BY <2>2, <2>3 DEF IInv, Valid, Tables
    <3> QED
      BY <1>1, <2>1, <2>2, <2>3, <2>4, <3>1 DEF Tables, ServerId, FolderId, Bounded
  <2>6. FoldersFollowServer'
    <3> SUFFICES ASSUME NEW f \in DOMAIN folders'
                 PROVE  /\ folders'[f].server \in DOMAIN servers'
                        /\ folders'[f].owner = servers'[folders'[f].server].made
      BY DEF FoldersFollowServer, FolderId, ServerId
    <3>1. CASE f \in FolderId /\ folders'[f] = folders[f]
      BY <2>2, <2>3, <3>1 DEF IInv, Valid, FoldersFollowServer
    <3>2. CASE s \in ServerId /\ folders'[f] = FolderRow(s, servers[s].made, clock + 1)
      BY <2>2, <2>3, <3>2 DEF FolderRow
    <3> QED
      BY <2>4, <3>1, <3>2
  <2>7. TokenMandatory'
    BY <2>2, <2>3 DEF TokenMandatory, ServerId
  <2>8. Evolves
    BY <2>1, <2>2, <2>3, <2>4 DEF Evolves, FolderRow
  <2> QED
    BY <1>1, <2>5, <2>6, <2>7, <2>8, EndSound DEF Valid
<1> QED
  BY <1>2, <1>3

-----------------------------------------------------------------------------
(* Deleting a server *)

LEMMA StepReadDelete ==
  ASSUME IInv, NEW r \in Request, ReadDelete(r)
  PROVE  IInv'
<1>1. UNCHANGED <<servers, folders, clock>>
  BY DEF ReadDelete
<1>2. PICK s \in ServerId :
        Goto(r, "delete", [NoJob EXCEPT !.server = s, !.old = FoldersOf(s), !.since = clock])
  BY DEF ReadDelete
<1> DEFINE old == FoldersOf(s)
           what == [NoJob EXCEPT !.server = s, !.old = old, !.since = clock]
<1>3. Evolves /\ Valid'
  BY <1>1, ReadsValid
<1>4. clock \in Nat /\ s \in Nat /\ old \subseteq Nat
  <2>1. clock \in Nat /\ s \in Nat /\ FolderId \subseteq Nat
    BY DEF IInv, Valid, Tables, Bounded
  <2> QED
    BY <2>1 DEF FoldersOf
<1>5. \A f \in old : folders[f].server = s
  BY DEF FoldersOf
<1>6. Goto(r, "delete", what)
  BY <1>2
<1> HIDE DEF old
<1>7. what \in Jobs
  BY <1>4, NoJobIs DEF Jobs
<1>8. /\ what.server = s /\ what.old = old /\ what.since = clock /\ what.stamp = 0
      /\ what.folder = 0
  BY NoJobIs DEF Jobs
<1> HIDE DEF what
<1>9. pc'[r] = "delete" /\ job'[r] = what
  BY <1>6 DEF Goto, IInv, Requests
<1>10. 0 \notin FolderId
  BY NoFolderZero DEF IInv, Valid
<1>11. Sound(r)'
  <2>1. Checked(r)'
    BY <1>9 DEF Checked
  <2>2. Owned(r)'
    BY <1>1, <1>5, <1>8, <1>9, <1>10 DEF Owned, FolderId
  <2>3. what.stamp <= clock' /\ what.since <= clock'
    BY <1>1, <1>4, <1>8
  <2> QED
    BY <1>9, <2>1, <2>2, <2>3 DEF Sound
<1> QED
  BY <1>3, <1>6, <1>7, <1>11, StepOf DEF Turns

LEMMA StepWriteDelete ==
  ASSUME IInv, NEW r \in Request, WriteDelete(r)
  PROVE  IInv'
<1> DEFINE s == job[r].server
<1>1. /\ servers' = Without(servers, {s}) /\ clock' = clock + 1
      /\ folders' = Without(folders, job[r].old \cup Cascaded(s))
      /\ Ends(r)
  BY DEF WriteDelete
<1>2. /\ clock \in Nat
      /\ \A i \in ServerId : servers[i] \in Rows /\ servers[i].stamp <= clock
  BY DEF IInv, Valid, Tables
<1>3. \A i \in ServerId : servers[i].stamp <= clock + 1
  BY <1>2 DEF Rows
<1>4. /\ DOMAIN servers' = ServerId \ {s} /\ servers' \in [DOMAIN servers' -> Rows]
      /\ \A i \in DOMAIN servers' : servers'[i] = servers[i]
  BY <1>1 DEF Without, IInv, Valid, Tables
<1>5. /\ DOMAIN folders' \subseteq FolderId /\ folders' \in [DOMAIN folders' -> FolderRows]
      /\ \A f \in DOMAIN folders' : folders'[f] = folders[f] /\ folders[f].server # s
  BY <1>1 DEF Without, IInv, Valid, Tables, Cascaded, FoldersOf
<1>6. Bounded(DOMAIN servers') /\ Bounded(DOMAIN folders')
  BY <1>4, <1>5 DEF Bounded, IInv, Valid, Tables
<1>7. Tables'
  <2>1. \A i \in DOMAIN servers' : /\ servers'[i].token = "empty" => servers'[i].excused
                                   /\ servers'[i].stamp <= clock + 1
    BY <1>3, <1>4 DEF IInv, Valid, Tables
  <2>2. clock + 1 \in Nat
    BY <1>2
  <2> QED
    BY <1>1, <1>4, <1>5, <1>6, <2>1, <2>2 DEF Tables, ServerId, FolderId, Bounded
<1>8. FoldersFollowServer'
  BY <1>4, <1>5 DEF IInv, Valid, FoldersFollowServer, FolderId, ServerId
<1>9. TokenMandatory' /\ Evolves
  BY <1>1, <1>4, <1>5 DEF IInv, Valid, TokenMandatory, FolderId, ServerId, Evolves
<1> QED
  BY <1>1, <1>7, <1>8, <1>9, EndSound DEF Valid

-----------------------------------------------------------------------------
(* Folders *)

\* A request that has looked at a server, or at a folder of it.
LEMMA StepLook ==
  ASSUME IInv, NEW r \in Request, NEW turn \in {"insert", "update folder", "delete folder"},
         NEW what \in Jobs, what.old = {},
         what.stamp <= clock /\ what.since <= clock,
         what.folder \in FolderId => folders[what.folder].server = what.server,
         Goto(r, turn, what), UNCHANGED <<servers, folders, clock>>
  PROVE  IInv'
<1>1. Evolves /\ Valid'
  BY ReadsValid
<1>2. pc'[r] = turn /\ job'[r] = what
  BY DEF Goto, IInv, Requests
<1>3. Checked(r)'
  BY <1>2 DEF Checked
<1>4. Owned(r)'
  BY <1>2 DEF Owned, FolderId
<1>5. what.stamp <= clock' /\ what.since <= clock'
  OBVIOUS
<1>6. Sound(r)'
  BY <1>2, <1>3, <1>4, <1>5 DEF Sound
<1> QED
  BY <1>1, <1>6, StepOf DEF Turns

LEMMA StepCheckFolderCreate ==
  ASSUME IInv, NEW r \in Request, CheckFolderCreate(r)
  PROVE  IInv'
<1>1. UNCHANGED <<servers, folders, clock>> /\ 0 \notin FolderId
  BY NoFolderZero DEF CheckFolderCreate, IInv, Valid
<1>2. PICK s \in ServerId : Goto(r, "insert", [NoJob EXCEPT !.server = s, !.since = clock])
  BY DEF CheckFolderCreate
<1> DEFINE what == [NoJob EXCEPT !.server = s, !.since = clock]
<1>4. Goto(r, "insert", what)
  BY <1>2
<1> HIDE DEF what
<1>5. /\ what \in Jobs /\ what.old = {} /\ what.folder = 0
      /\ what.stamp <= clock /\ what.since <= clock
  <2>1. s \in Nat /\ clock \in Nat
    BY IdsNatural DEF IInv, Valid, Tables
  <2>2. /\ what \in Jobs /\ what.old = {} /\ what.folder = 0
        /\ what.stamp = 0 /\ what.since = clock
    BY <2>1, NoJobIs DEF Jobs, what
  <2>3. 0 <= clock /\ clock <= clock
    BY ClockGrows DEF IInv, Valid
  <2> HIDE DEF what
  <2> QED
    BY <2>2, <2>3, Zenon
<1> QED
  BY <1>1, <1>4, <1>5, StepLook

LEMMA StepCheckFolder ==
  ASSUME IInv, NEW r \in Request, NEW turn \in {"update folder", "delete folder"},
         CheckFolder(r, turn)
  PROVE  IInv'
<1>1. PICK s \in ServerId, f \in FolderId :
        /\ folders[f].server = s
        /\ Goto(r, turn, [NoJob EXCEPT !.server = s, !.folder = f, !.since = clock])
  BY DEF CheckFolder
<1> DEFINE what == [NoJob EXCEPT !.server = s, !.folder = f, !.since = clock]
<1>2. Goto(r, turn, what) /\ UNCHANGED <<servers, folders, clock>>
  BY <1>1 DEF CheckFolder
<1>3. /\ what \in Jobs /\ what.old = {} /\ what.server = s /\ what.folder = f
      /\ what.stamp <= clock /\ what.since <= clock
  <2>1. s \in Nat /\ f \in Nat /\ clock \in Nat
    BY IdsNatural DEF IInv, Valid, Tables
  <2>2. /\ what \in Jobs /\ what.old = {} /\ what.server = s /\ what.folder = f
        /\ what.stamp = 0 /\ what.since = clock
    BY <2>1, NoJobIs DEF Jobs, what
  <2>3. 0 <= clock /\ clock <= clock
    BY ClockGrows DEF IInv, Valid
  <2> HIDE DEF what
  <2> QED
    BY <2>2, <2>3, Zenon
<1> HIDE DEF what
<1> QED
  BY <1>1, <1>2, <1>3, StepLook

LEMMA StepInsertFolder ==
  ASSUME IInv, NEW r \in Request, InsertFolder(r)
  PROVE  IInv'
<1> DEFINE s == job[r].server
<1>1. Ends(r) /\ servers' = servers /\ clock \in Nat
  BY DEF InsertFolder, IInv, Valid, Tables
<1>2. CASE UNCHANGED <<folders, clock>>
  BY <1>1, <1>2, ReadsValid, EndSound
<1>3. CASE ~UNCHANGED <<folders, clock>>
  <2>1. /\ s \in ServerId /\ clock' = clock + 1
        /\ folders' = Inserted(folders, 1, s, servers[s].made, clock + 1)
    BY <1>3 DEF InsertFolder
  <2>2. /\ Bounded(DOMAIN folders') /\ folders' \in [DOMAIN folders' -> FolderRows]
        /\ \A f \in DOMAIN folders' :
             \/ f \in FolderId /\ folders'[f] = folders[f]
             \/ folders'[f] = FolderRow(s, servers[s].made, clock + 1)
    BY <2>1, FoldersInserted
  <2>3. \A i \in ServerId : servers[i].stamp <= clock + 1
    BY <1>1 DEF IInv, Valid, Tables, Rows
  <2>4. Tables'
    BY <1>1, <2>1, <2>2, <2>3 DEF IInv, Valid, Tables, ServerId, FolderId, Bounded
  <2>5. FoldersFollowServer'
    BY <1>1, <2>1, <2>2 DEF IInv, Valid, FoldersFollowServer, FolderId, ServerId, FolderRow
  <2>6. TokenMandatory' /\ Evolves
    BY <1>1, <2>1, <2>2
       DEF IInv, Valid, TokenMandatory, FolderId, ServerId, Evolves, FolderRow
  <2> QED
    BY <1>1, <2>4, <2>5, <2>6, EndSound DEF Valid
<1> QED
  BY <1>2, <1>3

LEMMA StepUpdateFolder ==
  ASSUME IInv, NEW r \in Request, UpdateFolder(r)
  PROVE  IInv'
<1> DEFINE f == job[r].folder
<1>1. Ends(r) /\ servers' = servers /\ clock \in Nat
  BY DEF UpdateFolder, IInv, Valid, Tables
<1>2. CASE UNCHANGED <<folders, clock>>
  BY <1>1, <1>2, ReadsValid, EndSound
<1>3. CASE ~UNCHANGED <<folders, clock>>
  <2>1. /\ f \in FolderId /\ clock' = clock + 1
        /\ folders' = [folders EXCEPT ![f].edited = clock + 1]
    BY <1>3 DEF UpdateFolder
  <2>2. folders \in [FolderId -> FolderRows]
    BY DEF IInv, Valid, Tables
  <2>3. /\ DOMAIN folders' = FolderId /\ folders' \in [DOMAIN folders' -> FolderRows]
        /\ \A g \in FolderId : /\ folders'[g].server = folders[g].server
                               /\ folders'[g].owner = folders[g].owner
                               /\ folders'[g].made = folders[g].made
    BY <1>1, <2>1, <2>2 DEF FolderRows
  <2>4. \A i \in ServerId : servers[i].stamp <= clock + 1
    BY <1>1 DEF IInv, Valid, Tables, Rows
  <2>5. Tables'
    BY <1>1, <2>1, <2>3, <2>4 DEF IInv, Valid, Tables, ServerId, FolderId, Bounded
  <2>6. FoldersFollowServer' /\ TokenMandatory' /\ Evolves
    BY <1>1, <2>1, <2>3
       DEF IInv, Valid, FoldersFollowServer, TokenMandatory, FolderId, ServerId, Evolves
  <2> QED
    BY <1>1, <2>5, <2>6, EndSound DEF Valid
<1> QED
  BY <1>2, <1>3

LEMMA StepDeleteFolder ==
  ASSUME IInv, NEW r \in Request, DeleteFolder(r)
  PROVE  IInv'
BY FoldersRemoved, EndSound DEF DeleteFolder

-----------------------------------------------------------------------------
(* The specification *)

LEMMA InitInv == Init => IInv
<1> SUFFICES ASSUME Init PROVE IInv
  OBVIOUS
<1>1. PICK database \in Initial :
        /\ servers = [s \in DOMAIN database |-> Row(database[s][1], database[s][2], 0)]
        /\ folders = [f \in DOMAIN database |-> FolderRow(f, 0, 0)]
  BY DEF Init
<1>2. /\ Len(database) \in Nat /\ DOMAIN database = 1 .. Len(database)
      /\ \A s \in DOMAIN database :
           database[s] \in {<<"media", "set">>, <<"webhook", "set">>, <<"webhook", "none">>}
  BY InitialAssumption
<1>3. \A s \in DOMAIN database :
        /\ database[s][1] \in Type /\ database[s][2] \in Token /\ database[s][2] # "empty"
        /\ RequiresSecret(database[s][1]) => database[s][2] = "set"
  BY <1>2 DEF Type, Token, RequiresSecret
<1>4. ServerId = DOMAIN database /\ FolderId = DOMAIN database /\ clock = 0
  BY <1>1 DEF ServerId, FolderId, Init
<1>5. \A s \in ServerId :
        /\ servers[s] \in Rows /\ servers[s].made = 0 /\ servers[s].stamp = 0
        /\ servers[s].token # "empty"
        /\ RequiresSecret(servers[s].type) => servers[s].token = "set"
  BY <1>1, <1>3, <1>4 DEF Row, Rows
<1>6. \A f \in FolderId : folders[f] = FolderRow(f, 0, 0) /\ folders[f] \in FolderRows
  BY <1>1, <1>2, <1>4 DEF FolderRow, FolderRows
<1>7. Tables
  <2>1. Bounded(ServerId) /\ Bounded(FolderId)
    BY <1>2, <1>4 DEF Bounded
  <2>2. servers \in [ServerId -> Rows] /\ folders \in [FolderId -> FolderRows]
    BY <1>1, <1>4, <1>5, <1>6
  <2> QED
    BY <1>4, <1>5, <2>1, <2>2 DEF Tables
<1>8. FoldersFollowServer /\ TokenMandatory
  <2>1. \A f \in FolderId : folders[f].server = f /\ folders[f].owner = 0
    BY <1>1, <1>4 DEF FolderRow
  <2> QED
    BY <1>4, <1>5, <2>1 DEF FoldersFollowServer, TokenMandatory
<1>9. Requests
  BY NoJobIs DEF Init, Requests, Turns
<1>10. \A r \in Request : Sound(r)
  <2> TAKE r \in Request
  <2>1. pc[r] = "idle" /\ job[r] = NoJob
    BY DEF Init
  <2>2. 0 \notin FolderId
    BY <1>7, NoFolderZero
  <2> QED
    BY <1>4, <2>1, <2>2, NoJobIs DEF Sound, Checked, Owned
<1> QED
  BY <1>7, <1>8, <1>9, <1>10 DEF IInv, Valid

LEMMA NextInv == IInv /\ [Next]_vars => IInv'
<1> SUFFICES ASSUME IInv, [Next]_vars PROVE IInv'
  OBVIOUS
<1>1. CASE UNCHANGED vars
  BY <1>1 DEF vars, IInv, Valid, Tables, FoldersFollowServer, TokenMandatory, Requests, Sound,
              Checked, Owned, Gate, ServerId, FolderId
<1>2. ASSUME NEW r \in Request, Create(r) PROVE IInv'
  BY <1>2, StepCreate
<1>3. ASSUME NEW r \in Request, Update(r) PROVE IInv'
  BY <1>3, StepCheckUpdate, StepReadUpdate, StepWriteUpdate DEF Update
<1>4. ASSUME NEW r \in Request, Delete(r) PROVE IInv'
  BY <1>4, StepReadDelete, StepWriteDelete DEF Delete
<1>5. ASSUME NEW r \in Request, CheckFolderCreate(r) \/ InsertFolder(r) PROVE IInv'
  BY <1>5, StepCheckFolderCreate, StepInsertFolder
<1>6. ASSUME NEW r \in Request, CheckFolder(r, "update folder") \/ UpdateFolder(r) PROVE IInv'
  BY <1>6, StepCheckFolder, StepUpdateFolder
<1>7. ASSUME NEW r \in Request, CheckFolder(r, "delete folder") \/ DeleteFolder(r) PROVE IInv'
  BY <1>7, StepCheckFolder, StepDeleteFolder
<1> QED
  BY <1>1, <1>2, <1>3, <1>4, <1>5, <1>6, <1>7 DEF Next

LEMMA InvHolds == Spec => []IInv
BY InitInv, NextInv, PTL DEF Spec

\* FoldersFollowServer: no folder outlives its server or is handed to a later one that was
\* given the same number, however the requests overlap (db/repo.py, db/models.py).
THEOREM FoldersFollow == Spec => []FoldersFollowServer
<1>1. IInv => FoldersFollowServer
  BY DEF IInv, Valid
<1> QED
  BY <1>1, InvHolds, PTL

\* TokenMandatory: an update that was checked against the row it changes leaves no server
\* without the token its type requires (_require_update_secret, Repo.update_server).
THEOREM Mandatory == Spec => []TokenMandatory
<1>1. IInv => TokenMandatory
  BY DEF IInv, Valid
<1> QED
  BY <1>1, InvHolds, PTL

\* What one step of a request does to a folder.
LEMMA StepNoLeak ==
  ASSUME IInv, Next, NEW r \in Request, pc[r] \notin {"idle", "done"}, pc'[r] # pc[r],
         NEW f \in FolderId, f \notin DOMAIN folders' \/ folders'[f] # folders[f]
  PROVE  folders[f].server = job[r].server \/ folders[f].made > job[r].since
<1>1. /\ Owned(r) /\ pc \in [Request -> Turns]
      /\ Bounded(FolderId) /\ folders \in [FolderId -> FolderRows]
  BY DEF IInv, Sound, Requests, Valid, Tables
<1>2. SUFFICES ASSUME f # job[r].folder, f \notin job[r].old
               PROVE  folders[f].server = job[r].server
  BY <1>1 DEF Owned
<1>3. ASSUME NEW q \in Request, NEW turn, NEW what, Goto(q, turn, what) PROVE q = r
  BY <1>1, <1>3 DEF Goto
<1>4. ASSUME NEW q \in Request, Ends(q) PROVE q = r
  BY <1>3, <1>4 DEF Ends
<1>5. folders' # folders
  BY DEF FolderId
<1>6. ASSUME NEW q \in Request, Create(q) PROVE FALSE
  BY <1>4, <1>6 DEF Create
<1>7. ASSUME NEW q \in Request, Update(q) PROVE FALSE
  <2>1. WriteUpdate(q)
    BY <1>5, <1>7 DEF Update, CheckUpdate, ReadUpdate
  <2>2. q = r
    BY <1>4, <2>1 DEF WriteUpdate
  <2>3. folders' = Replaced(r)
    BY <1>5, <2>1, <2>2 DEF WriteUpdate
  <2> DEFINE s == job[r].server
             patch == job[r].patch
             n == CHOOSE n \in patch.folders : TRUE
             more == IF patch.folders \in {{}, {0}} THEN folders
                     ELSE Inserted(folders, n, s, servers[s].made, clock + 1)
  <2>4. f \in DOMAIN more /\ more[f] = folders[f]
    <3>1. CASE patch.folders \in {{}, {0}}
      BY <3>1 DEF FolderId
    <3>2. CASE patch.folders \notin {{}, {0}}
      <4>1. patch.folders \in {{m} : m \in 0 .. MaxRows}
        BY <3>2 DEF IInv, Requests, Jobs, Patches
      <4>2. n \in Nat
        BY <4>1, RowsAssumption
      <4> HIDE DEF n
      <4>3. more = Inserted(folders, n, s, servers[s].made, clock + 1)
        BY <3>2
      <4> QED
        BY <1>1, <4>2, <4>3, InsertedFolders DEF FolderId
    <3> QED
      BY <3>1, <3>2
  <2>5. folders' = Without(more, job[r].old)
    BY <2>3 DEF Replaced
  <2> HIDE DEF more
  <2> QED
    BY <1>2, <2>4, <2>5 DEF Without
<1>8. ASSUME NEW q \in Request, Delete(q) PROVE folders[f].server = job[r].server
  <2>1. WriteDelete(q)
    BY <1>5, <1>8 DEF Delete, ReadDelete
  <2>2. q = r /\ folders' = Without(folders, job[q].old \cup Cascaded(job[q].server))
    BY <1>4, <2>1 DEF WriteDelete
  <2> QED
    BY <1>2, <2>2 DEF Without, Cascaded, FoldersOf, FolderId
<1>9. ASSUME NEW q \in Request, CheckFolderCreate(q) \/ InsertFolder(q) PROVE FALSE
  <2>1. folders' = Inserted(folders, 1, job[q].server, servers[job[q].server].made, clock + 1)
    BY <1>5, <1>9 DEF CheckFolderCreate, InsertFolder
  <2>2. Bounded(DOMAIN folders) /\ f \in DOMAIN folders /\ 1 \in Nat
    BY <1>1 DEF FolderId
  <2> DEFINE new == Inserted(folders, 1, job[q].server, servers[job[q].server].made, clock + 1)
  <2>3. f \in DOMAIN new /\ new[f] = folders[f]
    BY <2>2, InsertedFolders
  <2> QED
    BY <2>1, <2>3
<1>10. ASSUME NEW q \in Request, CheckFolder(q, "update folder") \/ UpdateFolder(q) PROVE FALSE
  <2>1. q = r /\ folders' = [folders EXCEPT ![job[q].folder].edited = clock + 1]
    BY <1>4, <1>5, <1>10 DEF CheckFolder, UpdateFolder
  <2>2. f \in DOMAIN folders' /\ folders'[f] = folders[f]
    BY <1>1, <1>2, <2>1 DEF FolderId
  <2> QED
    BY <2>2
<1>11. ASSUME NEW q \in Request, CheckFolder(q, "delete folder") \/ DeleteFolder(q) PROVE FALSE
  <2>1. q = r /\ folders' = Without(folders, {job[q].folder})
    BY <1>4, <1>5, <1>11 DEF CheckFolder, DeleteFolder
  <2> QED
    BY <1>2, <2>1 DEF Without, FolderId
<1> QED
  BY <1>6, <1>7, <1>8, <1>9, <1>10, <1>11 DEF Next

\* NoIdLeak: what a request changes or deletes is a folder of the server in its URL, or
\* one that was made after the request was checked (_owned_folder, Repo.delete_folder).
THEOREM IdsStay == Spec => NoIdLeak
<1>1. IInv /\ [Next]_vars =>
        [\A r \in Request : pc[r] \notin {"idle", "done"} =>
           \A f \in FolderId :
             pc'[r] # pc[r] /\ (f \notin DOMAIN folders' \/ folders'[f] # folders[f])
               => folders[f].server = job[r].server \/ folders[f].made > job[r].since]_vars
  BY StepNoLeak
<1> QED
  BY <1>1, InvHolds, PTL DEF Spec, NoIdLeak
=============================================================================
