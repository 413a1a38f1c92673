---------------------------------- MODULE Writes ----------------------------------
(***************************************************************************)
(* web/writes.py, web/api and db/repo.py: the requests that change servers *)
(* and folders, and the two tables.  Every call of a Repo method is a      *)
(* thread of its own with a session of its own; SQLite begins the          *)
(* transaction at the flush, so what a method has read may be stale when   *)
(* it commits.  One action is the work between two such points.            *)
(*                                                                         *)
(* A row's id is its SQLite rowid: the largest plus one, so that the id of *)
(* a deleted row can be given out again.  A row remembers when it was      *)
(* made; the code does not.  The rebuild that follows every write is the   *)
(* subject of Engine.                                                      *)
(***************************************************************************)
EXTENDS Naturals, Sequences, FiniteSets, FiniteSetsExt

CONSTANTS Request,   \* write requests, each served once
          Initial,   \* databases to start from: the type and the token of each server
          MaxRows    \* bound: folders one form carries

VARIABLES servers,  \* table server: id -> [type, token, excused, made, stamp]
          folders,  \* table folder: id -> [server, owner, made, edited]
          clock,    \* how many writes were committed (history)
          pc,       \* how far a request has come
          job       \* what it carries

vars == <<servers, folders, clock, pc, job>>

Type == {"media", "webhook"}
Token == {"none", "empty", "set"}
Keep == "keep"                       \* a field that is not in the request
ServerId == DOMAIN servers
FolderId == DOMAIN folders

\* What a request to create carries: POST has any token and no folders; the form never sends
\* an empty token, and has folders.
ApiServers == [type : Type, token : Token, folders : {0}]
FormServers == [type : Type, token : {"none", "set"}, folders : 0 .. MaxRows]

\* What an update carries: PATCH has any field; the form of the page keeps the type, never
\* sends an empty token, and has how many folders there are to be.
ApiPatches == [type : {Keep} \cup Type, token : {Keep} \cup Token, folders : {{}}]
FormPatches == [type : {Keep}, token : {Keep, "none", "set"},
                folders : {{n} : n \in 0 .. MaxRows}]

\* ServerTypeSpec.requires_secret.
RequiresSecret(type) == type = "media"

\* excused: see TokenMandatory.
Row(type, token, now) ==
  [type |-> type, token |-> token, excused |-> token = "empty", made |-> now, stamp |-> now]

FolderRow(server, owner, now) ==
  [server |-> server, owner |-> owner, made |-> now, edited |-> now]

\* A database is one that was saved: a token where the type requires one, no empty one.
ASSUME RowsAssumption == MaxRows \in Nat
ASSUME InitialAssumption ==
  Initial \subseteq Seq({<<"media", "set">>, <<"webhook", "set">>, <<"webhook", "none">>})

\* The request has nothing left to do; its job is forgotten.
NoPatch == [type |-> Keep, token |-> Keep, folders |-> {}]
NoJob == [server |-> 0, folder |-> 0, patch |-> NoPatch, stamp |-> 0, since |-> 0,
          row |-> Row("webhook", "none", 0), old |-> {}]
Goto(r, turn, what) == pc' = [pc EXCEPT ![r] = turn] /\ job' = [job EXCEPT ![r] = what]
Ends(r) == Goto(r, "done", NoJob)

NextId(ids) == IF ids = {} THEN 1 ELSE Max(ids) + 1

\* n fresh folders of server s, besides those of the table.
Inserted(table, n, s, owner, now) ==
  LET ids == NextId(DOMAIN table) .. NextId(DOMAIN table) + n - 1 IN
  [f \in DOMAIN table \cup ids |-> IF f \in ids THEN FolderRow(s, owner, now) ELSE table[f]]

Without(table, ids) == [i \in DOMAIN table \ ids |-> table[i]]

Init == /\ \E database \in Initial :
             /\ servers = [s \in DOMAIN database |-> Row(database[s][1], database[s][2], 0)]
             /\ folders = [f \in DOMAIN database |-> FolderRow(f, 0, 0)]
        /\ clock = 0
        /\ pc = [r \in Request |-> "idle"]
        /\ job = [r \in Request |-> NoJob]

-----------------------------------------------------------------------------
(* Creating a server *)

\* _require_secret_or_422.
SecretOk(type, has) == RequiresSecret(type) => has

\* apply_server_create(_with_folders): the gate, then one transaction.
Create(r) ==
  /\ pc[r] = "idle"
  /\ \E new \in ApiServers \cup FormServers :
       /\ SecretOk(new.type, new.token = "set")
       /\ LET s == NextId(ServerId) IN
          /\ servers' = [i \in ServerId \cup {s} |->
                           IF i = s THEN Row(new.type, new.token, clock + 1) ELSE servers[i]]
          /\ folders' = Inserted(folders, new.folders, s, clock + 1, clock + 1)
  /\ clock' = clock + 1
  /\ Ends(r)

-----------------------------------------------------------------------------
(* Updating a server *)

\* Bug variant: only the type of the row counts, not that of the request.
GateOnRow(patch, row) ==
  SecretOk(row.type, IF patch.token # Keep THEN patch.token = "set" ELSE row.token # "none")

\* _require_update_secret: the type and the token as they will be.
Gate(patch, row) ==
  SecretOk(IF patch.type # Keep THEN patch.type ELSE row.type,
           IF patch.token # Keep THEN patch.token = "set" ELSE row.token # "none")

\* apply_server_update(_with_folders): the row is read and the request is checked against it.
CheckUpdate(r, patch) ==
  /\ pc[r] = "idle"
  /\ \E s \in ServerId :
       /\ Gate(patch, servers[s])
       /\ Goto(r, "read", [NoJob EXCEPT !.server = s, !.patch = patch, !.since = clock,
                                        !.stamp = servers[s].stamp])
  /\ UNCHANGED <<servers, folders, clock>>

FoldersOf(s) == {f \in FolderId : folders[f].server = s}

\* Repo.update_server(_with_folders) reads the row once more, and its folders if they are
\* to be replaced; KeyError if it is gone.
ReadUpdate(r) ==
  /\ pc[r] = "read"
  /\ LET s == job[r].server IN
     \/ /\ s \notin ServerId
        /\ Ends(r)
     \/ /\ s \in ServerId
        /\ Goto(r, "write", [job[r] EXCEPT !.row = servers[s],
                                           !.old = IF job[r].patch.folders = {} THEN {}
                                                   ELSE FoldersOf(s)])
  /\ UNCHANGED <<servers, folders, clock>>

\* The columns that are in the UPDATE: those whose value differs from the row that was read;
\* a token is encrypted afresh and always differs.
SetsType(r) == job[r].patch.type \notin {Keep, job[r].row.type}
SetsToken(r) == \/ job[r].patch.token \in {"empty", "set"}
                \/ job[r].patch.token = "none" /\ job[r].row.token # "none"

Updated(r, row) ==
  [row EXCEPT
     !.type = IF SetsType(r) THEN job[r].patch.type ELSE @,
     !.token = IF SetsToken(r) THEN job[r].patch.token ELSE @,
     !.excused = @ \/ row.stamp # job[r].stamp \/ job[r].patch.token = "empty",
     !.stamp = clock + 1]

\* _set_server_folders at the flush: the new rows are inserted, then those that were read
\* are deleted by their ids.
Replaced(r) ==
  LET s == job[r].server
      n == CHOOSE n \in job[r].patch.folders : TRUE
      more == IF job[r].patch.folders \in {{}, {0}} THEN folders
              ELSE Inserted(folders, n, s, servers[s].made, clock + 1)
  IN Without(more, job[r].old)

\* The commit.  An UPDATE that finds no row, and an INSERT without its server, roll back.
WriteUpdate(r) ==
  /\ pc[r] = "write"
  /\ \E other \in BOOLEAN :   \* whether a column without a part here changes too
       LET s == job[r].server
           updates == other \/ SetsType(r) \/ SetsToken(r)
           inserts == job[r].patch.folders \notin {{}, {0}}
       IN \/ /\ s \in ServerId
             /\ servers' = IF updates THEN [servers EXCEPT ![s] = Updated(r, @)] ELSE servers
             /\ folders' = Replaced(r)
             /\ clock' = clock + 1
          \/ /\ s \notin ServerId /\ ~updates /\ ~inserts
             /\ folders' = Replaced(r)
             /\ clock' = clock + 1
             /\ UNCHANGED servers
          \/ /\ s \notin ServerId /\ (updates \/ inserts)
             /\ UNCHANGED <<servers, folders, clock>>
  /\ Ends(r)

-----------------------------------------------------------------------------
(* Deleting a server *)

\* Repo.delete_server: the row and the folders that go with it are read; no row, no error.
ReadDelete(r) ==
  /\ pc[r] = "idle"
  /\ \E s \in ServerId :
       Goto(r, "delete", [NoJob EXCEPT !.server = s, !.old = FoldersOf(s), !.since = clock])
  /\ UNCHANGED <<servers, folders, clock>>

\* Bug variant: the database does not cascade, only the session does.
WriteDeleteRead(r) ==
  /\ pc[r] = "delete"
  /\ servers' = Without(servers, {job[r].server})
  /\ folders' = Without(folders, job[r].old)
  /\ clock' = clock + 1
  /\ Ends(r)

\* ON DELETE CASCADE, with the foreign keys that every connection turns on: the folders of
\* the server as they are at the commit.
Cascaded(s) == FoldersOf(s)

\* The folders that were read are deleted by their ids, the others of the server cascade.
WriteDelete(r) ==
  /\ pc[r] = "delete"
  /\ servers' = Without(servers, {job[r].server})
  /\ folders' = Without(folders, job[r].old \cup Cascaded(job[r].server))
  /\ clock' = clock + 1
  /\ Ends(r)

\* DELETE, and the button of the page.
Delete(r) == ReadDelete(r) \/ WriteDelete(r)

-----------------------------------------------------------------------------
(* Folders *)

\* POST: _require_server.
CheckFolderCreate(r) ==
  /\ pc[r] = "idle"
  /\ \E s \in ServerId : Goto(r, "insert", [NoJob EXCEPT !.server = s, !.since = clock])
  /\ UNCHANGED <<servers, folders, clock>>

\* Repo.create_folder: IntegrityError if the server is gone.
InsertFolder(r) ==
  /\ pc[r] = "insert"
  /\ LET s == job[r].server IN
     \/ /\ s \in ServerId
        /\ folders' = Inserted(folders, 1, s, servers[s].made, clock + 1)
        /\ clock' = clock + 1
     \/ /\ s \notin ServerId
        /\ UNCHANGED <<folders, clock>>
  /\ Ends(r)
  /\ UNCHANGED servers

\* Bug variant: any folder will do.
CheckFolderExists(r, turn) ==
  /\ pc[r] = "idle"
  /\ \E s \in ServerId, f \in FolderId :
       Goto(r, turn, [NoJob EXCEPT !.server = s, !.folder = f, !.since = clock])
  /\ UNCHANGED <<servers, folders, clock>>

\* PATCH and DELETE: _require_server and _owned_folder.
CheckFolder(r, turn) ==
  /\ pc[r] = "idle"
  /\ \E s \in ServerId, f \in FolderId :
       /\ folders[f].server = s
       /\ Goto(r, turn, [NoJob EXCEPT !.server = s, !.folder = f, !.since = clock])
  /\ UNCHANGED <<servers, folders, clock>>

\* Repo.update_folder: KeyError, or an UPDATE without a row, if it is gone.
UpdateFolder(r) ==
  /\ pc[r] = "update folder"
  /\ LET f == job[r].folder IN
     \/ /\ f \in FolderId
        /\ folders' = [folders EXCEPT ![f].edited = clock + 1]
        /\ clock' = clock + 1
     \/ /\ f \notin FolderId
        /\ UNCHANGED <<folders, clock>>
  /\ Ends(r)
  /\ UNCHANGED servers

\* Repo.delete_folder; no row, no error.
DeleteFolder(r) ==
  /\ pc[r] = "delete folder"
  /\ folders' = Without(folders, {job[r].folder})
  /\ clock' = clock + 1
  /\ Ends(r)
  /\ UNCHANGED servers

-----------------------------------------------------------------------------
Update(r) == \/ \E patch \in ApiPatches \cup FormPatches : CheckUpdate(r, patch)
             \/ ReadUpdate(r) \/ WriteUpdate(r)

Next == \E r \in Request :
          \/ Create(r) \/ Update(r) \/ Delete(r)
          \/ CheckFolderCreate(r) \/ InsertFolder(r)
          \/ CheckFolder(r, "update folder") \/ UpdateFolder(r)
          \/ CheckFolder(r, "delete folder") \/ DeleteFolder(r)

Spec == Init /\ [][Next]_vars

-----------------------------------------------------------------------------
\* No folder is left without its server, or handed to a later server that was given the
\* number of the old one: the foreign key and the cascade of the database also cover the
\* folders a session did not know of when it deleted the server.
FoldersFollowServer ==
  \A f \in FolderId : /\ folders[f].server \in ServerId
                      /\ folders[f].owner = servers[folders[f].server].made

\* "A token is mandatory at save time" (ServerTypeSpec.requires_secret).  What the gate
\* cannot see excuses a row: another update was committed between the check and the write,
\* or an empty token was stored while the type needed none, which later counts as one.
TokenMandatory ==
  \A s \in ServerId :
    RequiresSecret(servers[s].type) /\ servers[s].token # "set" => servers[s].excused

\* "Ids cannot leak across servers" (web/api/folders.py): what a request changes or deletes
\* is a folder of the server in its URL.  The check and the write are threads of their own;
\* the only way out is a folder that was deleted in between and its number given out again.
NoIdLeak ==
  [][\A r \in Request : pc[r] \notin {"idle", "done"} =>
       \A f \in FolderId :
         pc'[r] # pc[r] /\ (f \notin DOMAIN folders' \/ folders'[f] # folders[f])
           => folders[f].server = job[r].server \/ folders[f].made > job[r].since]_vars
=============================================================================
