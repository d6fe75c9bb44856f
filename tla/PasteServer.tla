----------------------------- MODULE PasteServer -----------------------------
(***************************************************************************)
(* The server with authentication on: upload, serve and delete handlers,   *)
(* the cleanup thread, the consumer of expired paths, crash and restart,   *)
(* over one upload directory and one database.                             *)
(*                                                                         *)
(* Handlers run in parallel.  A step is one file-system call, with the     *)
(* decisions that follow it, or one database call: between any two of them *)
(* other handlers run, and what was read before may no longer hold.        *)
(*                                                                         *)
(* A file holds [by, kind]: the upload that wrote it, and whether it is    *)
(* the content or the password hash of that upload.                        *)
(***************************************************************************)
EXTENDS PasteTable, FiniteSets

CONSTANTS
  MaxRequests,    \* bound: requests, numbered in the order they arrive
  MaxTime,        \* bound: the last tick of the clock, after every stamp of an upload
  MaxCrashes,     \* bound: crashes of the server
  MaxFaults,      \* bound: failures of the database
  Ops,            \* the operations requested
  UploadNames,    \* the names uploads may ask for
  FreshNames,     \* random_url: no two uploads have the same name
  Deduplicate,    \* paste.duplicate_files = false
  Cleanup,        \* paste.delete_expired_files is enabled
  Admins          \* principals with global_delete

ASSUME ServerBounds == {MaxRequests, MaxTime, MaxCrashes, MaxFaults} \subseteq Nat
ASSUME AdminsAssumption == Admins \subseteq Owners /\ UploadNames \subseteq PublicNames
(* A restart may take the file of a password hash for a paste.             *)
ASSUME SidecarHashAssumption == MaxCrashes > 0 => PasswordExt \in Hashes
ASSUME FateAssumption ==
  None \notin [how : {"delete", "rollback", "cleanup", "consumed", "orphan"}, by : Nat]
ASSUME RecordAssumption ==
  None \notin [path : Paths, gen : Nat, owner : Owners \cup {None}, type : PasteTypes]

VARIABLES
  pastes,         \* the database table
  gen,            \* its next identifier
  fs,             \* the upload directory: a function on the paths of files
  now,            \* the clock, in ticks
  req,            \* the requests
  server,         \* "up", or where the start of the process is
  scan,           \* the scan of the last start: see NoScan
  cleaner,        \* the cleanup thread
  expired,        \* the channel from the cleanup thread to the consumer
  crashes, faults,
  fate            \* history: how the content of each upload went away

vars == <<pastes, gen, fs, now, req, server, scan, cleaner, expired, crashes, faults, fate>>

Requests == 1..MaxRequests

(* The directories of the types in use; the others are empty.              *)
Directories == {GetDir(type) : type \in Types}

NoRequest ==
  [op |-> "none", pc |-> "idle", owner |-> None, name |-> None, type |-> None,
   expiry |-> None, hash |-> None, knows |-> FALSE,
   rows |-> {}, rec |-> None, seen |-> None, tries |-> 0, status |-> None]

(* dirs: the directories the scan has yet to read; todo: the files it has  *)
(* read of the present one and not looked at yet; found: the hashes of the *)
(* files it found; skipped: it met an entry that it could not read; kept:  *)
(* the paths that were not found and whose rows are retained.  As history  *)
(* kept lasts until the next start.                                        *)
NoScan ==
  [dirs |-> {}, todo |-> {}, found |-> [p \in {} |-> None], skipped |-> FALSE, kept |-> {}]

CleanerIdle == [pc |-> "idle", todo |-> {}, path |-> None]

Init ==
  /\ pastes = [p \in Paths |-> NoRow]
  /\ gen = 0
  /\ fs = [p \in {} |-> None]
  /\ now = MinStamp
  /\ req = [r \in Requests |-> NoRequest]
  /\ server = "up"
  /\ scan = NoScan
  /\ cleaner = CleanerIdle
  /\ expired = <<>>
  /\ crashes = 0
  /\ faults = 0
  /\ fate = [r \in Requests |-> None]

------------------------------------------------------------------------------
(* The file system.                                                        *)

IsFile(p) == p \in DOMAIN fs

PasswordPath(p) == [dir |-> p.dir, file |-> PasswordFileName(p.file)]

CreateNew(p, r, kind) ==
  fs' = [q \in DOMAIN fs \cup {p} |-> IF q = p THEN [by |-> r, kind |-> kind] ELSE fs[q]]

Without(files) == [q \in DOMAIN fs \ files |-> fs[q]]

(* The content at p goes away: remember how, the first time.               *)
Fated(p, how) ==
  LET u == fs[p].by
  IN  IF fs[p].kind = "content" /\ fate[u] = None
      THEN [fate EXCEPT ![u] = how] ELSE fate

RemoveFile(p, how) == fs' = Without({p}) /\ fate' = Fated(p, how)

(* delete_password_file: whatever has the name of the sidecar goes.        *)
RemoveSidecar(p, how) ==
  IF IsFile(PasswordPath(p)) THEN RemoveFile(PasswordPath(p), how)
                             ELSE UNCHANGED <<fs, fate>>

(* glob_match_file: a file with a stamp that has not passed hides the bare *)
(* name.  The last match in the order of the glob counts, and that is the  *)
(* sidecar when the paste with the greatest stamp has one.                 *)
GlobMatchFile(p) ==
  LET bare == IF HasStamp(p.file) THEN [p EXCEPT !.file = WithoutSuffix(p.file)] ELSE p
      stamped(n) == [bare EXCEPT !.file = Append(bare.file, n)]
      last == {n \in NumericParts :
                 /\ IsFile(stamped(n)) \/ IsFile(PasswordPath(stamped(n)))
                 /\ \A m \in NumericParts : m > n =>
                      ~IsFile(stamped(m)) /\ ~IsFile(PasswordPath(stamped(m)))}
      live == {n \in last : ~IsFile(PasswordPath(stamped(n))) /\ now < n}
  IN  IF live = {} THEN bare ELSE stamped(CHOOSE n \in live : TRUE)

------------------------------------------------------------------------------
(* Requests.                                                               *)

At(r, pc) == server = "up" /\ req[r].pc = pc

Goto(r, pc) == req' = [req EXCEPT ![r].pc = pc]

Reply(r, status) == req' = [req EXCEPT ![r].pc = "done", ![r].status = status]

(* The request is answered with the content that upload u wrote.           *)
Answer(r, u, pc) ==
  req' = [req EXCEPT ![r].status = "ok", ![r].seen = u, ![r].pc = pc]

UnchangedTable == UNCHANGED <<pastes, gen>>
UnchangedDisk == UNCHANGED <<fs, fate>>
UnchangedProcess == UNCHANGED <<now, server, scan, cleaner, expired, crashes>>

(* A database call succeeds, or fails while the bound allows it.           *)
Write(table) == pastes' = table /\ UNCHANGED faults
DatabaseFails == faults < MaxFaults /\ faults' = faults + 1 /\ UNCHANGED pastes

UsedNames == {req[r].name : r \in {q \in Requests : req[q].op = "upload"}}

Arrive(r) ==
  /\ server = "up"
  /\ req[r].pc = "idle"
  /\ \A q \in Requests : q < r => req[q].pc # "idle"
  /\ UnchangedTable /\ UnchangedDisk /\ UnchangedProcess /\ UNCHANGED faults

(* Where the storing of a paste begins: store_url does not look for stamps *)
StoreStep(type) == IF type \in {"url", "oneshot_url"} THEN "create_new" ELSE "glob_match"

(* An upload starts with the optimistic duplicate check or with its file.  *)
(* MaxTime bounds the stamps too: a paste that expires does so before it.  *)
ArriveUpload(r, owner, name, type, expiry, hash) ==
  LET new == [NoRequest EXCEPT !.op = "upload", !.owner = owner, !.name = name,
                               !.type = type, !.expiry = expiry, !.hash = hash]
  IN  /\ Arrive(r)
      /\ expiry # None => now < expiry /\ expiry < MaxTime
      /\ FreshNames => name \notin UsedNames
      /\ req' = [req EXCEPT ![r] =
                  [new EXCEPT !.pc = IF Deduplicate /\ MayDeduplicate(new) /\ type # "remote_file"
                                     THEN "find_owner_duplicate" ELSE StoreStep(type)]]

ArriveOther(r, op, owner, name, knows) ==
  /\ Arrive(r)
  /\ req' = [req EXCEPT ![r] = [NoRequest EXCEPT !.op = op, !.owner = owner, !.name = name,
                                                 !.knows = knows, !.pc = "find_pastes"]]

(* What a query returns of a row: the record the handler goes on with.     *)
RecordAt(p) ==
  [path |-> p, gen |-> pastes[p].gen, owner |-> pastes[p].owner, type |-> pastes[p].type]

(* A mutant: duplicates of anyone.                                         *)
DuplicatesOfAnyone(owner, hash) ==
  {p \in Present(pastes) : pastes[p].hash = hash /\ Unexpired(pastes[p], Seconds(now))}

(* find_owner_duplicate: the newest unexpired row of the owner with this   *)
(* hash, of any type.  The age of rows is not modelled: it is any of them. *)
(* The hash of a URL's bytes is not that of the URL that store_url writes  *)
(* unless they were in normal form: a URL may miss its duplicate.          *)
OwnerDuplicates(owner, hash) ==
  {p \in Present(pastes) :
     pastes[p].owner = owner /\ pastes[p].hash = hash /\ Unexpired(pastes[p], Seconds(now))}

IsCompatibleDuplicate(requested, existing) ==
  CategoryOf(requested) # None /\ CategoryOf(requested) = CategoryOf(existing)

(* Where the optimistic check continues; a remote file is stored by then.  *)
AfterCheck(r) ==
  IF req[r].type = "remote_file" THEN "insert_paste" ELSE StoreStep(req[r].type)

FindOwnerDuplicate(r) ==
  /\ At(r, "find_owner_duplicate")
  /\ LET found == OwnerDuplicates(req[r].owner, req[r].hash)
     IN  \/ found = {} /\ Goto(r, AfterCheck(r)) /\ UNCHANGED faults
         \/ /\ \E p \in found :
                 req' = [req EXCEPT ![r].pc = "check_duplicate", ![r].rec = RecordAt(p)]
            /\ UNCHANGED faults
         \/ DatabaseFails /\ Reply(r, "error")
  /\ UnchangedTable /\ UnchangedDisk /\ UnchangedProcess

(* The duplicate's file exists: its link is the answer, if the types fit.  *)
CheckDuplicate(r) ==
  /\ At(r, "check_duplicate")
  /\ LET p == req[r].rec.path
         fits == IsCompatibleDuplicate(req[r].type, req[r].rec.type)
         next == IF req[r].type = "remote_file" THEN "remove_new_upload" ELSE "done"
     IN  \/ ~IsFile(p) /\ Goto(r, "delete_stale")
         \/ IsFile(p) /\ ~fits /\ Goto(r, AfterCheck(r))
         \/ IsFile(p) /\ fits /\ Answer(r, fs[p].by, next)
  /\ UnchangedTable /\ UnchangedDisk /\ UnchangedProcess /\ UNCHANGED faults

(* The optimistic check drops a record whose file is gone.                 *)
DeleteStale(r) ==
  /\ At(r, "delete_stale")
  /\ \/ /\ Write(DeletePaste(pastes, req[r].rec.path, req[r].rec.gen))
        /\ Goto(r, AfterCheck(r))
     \/ DatabaseFails /\ Reply(r, "error")
  /\ UNCHANGED gen /\ UnchangedDisk /\ UnchangedProcess

(* store_file refuses a name that a paste without or with a stamp has.     *)
GlobMatch(r) ==
  /\ At(r, "glob_match")
  /\ IF IsFile(GlobMatchFile([dir |-> GetDir(req[r].type), file |-> req[r].name]))
     THEN Reply(r, "conflict")
     ELSE Goto(r, IF req[r].type = "protected_file" THEN "store_password" ELSE "create_new")
  /\ UnchangedTable /\ UnchangedDisk /\ UnchangedProcess /\ UNCHANGED faults

(* The sidecar comes before the content.                                   *)
StorePassword(r) ==
  /\ At(r, "store_password")
  /\ LET p == PasswordPath(PathOf(req[r]))
     IN  \/ IsFile(p) /\ Reply(r, "conflict") /\ UNCHANGED fs
         \/ ~IsFile(p) /\ CreateNew(p, r, "hash") /\ Goto(r, "create_new")
  /\ UNCHANGED fate /\ UnchangedTable /\ UnchangedProcess /\ UNCHANGED faults

(* If the file exists, store_file removes the sidecar of the path, whatever*)
(* the type of the paste; store_url does not.                              *)
CreateContent(r) ==
  /\ At(r, "create_new")
  /\ LET p == PathOf(req[r])
         isUrl == req[r].type \in {"url", "oneshot_url"}
         next == IF req[r].type = "remote_file" /\ Deduplicate /\ req[r].expiry = None
                 THEN "find_owner_duplicate" ELSE "insert_paste"
     IN  \/ IsFile(p) /\ isUrl /\ Reply(r, "conflict") /\ UNCHANGED fs
         \/ /\ IsFile(p) /\ ~isUrl
            /\ req' = [req EXCEPT ![r].status = "conflict", ![r].pc = "delete_password"]
            /\ UNCHANGED fs
         \/ ~IsFile(p) /\ CreateNew(p, r, "content") /\ Goto(r, next)
  /\ UNCHANGED fate /\ UnchangedTable /\ UnchangedProcess /\ UNCHANGED faults

(* A mutant: a failed insert leaves the file.                              *)
NoRollback(r, status) == Reply(r, status)

Rollback(r, status) ==
  req' = [req EXCEPT ![r].status = status, ![r].pc = "remove_new_upload"]

(* persist_paste_metadata: one of the two insert transactions.             *)
PersistPasteMetadata(r) ==
  /\ At(r, "insert_paste")
  /\ LET dedup == Deduplicate /\ MayDeduplicate(req[r])
         result == IF dedup THEN InsertPasteDeduplicated(pastes, req[r], gen, Seconds(now))
                            ELSE InsertPaste(pastes, req[r], gen, Seconds(now))
         holders == DedupHolders(pastes, req[r].owner, DedupKey(req[r]))
     IN  \/ /\ Write(result.table)
            /\ gen' = gen + 1
            /\ CASE result.result = "inserted" -> Answer(r, r, "done")
                 [] result.result = "duplicate" ->
                      \E p \in holders :
                        req' = [req EXCEPT ![r].pc = "check_winner", ![r].rec = RecordAt(p)]
                 [] OTHER -> Rollback(r, result.result)
         \/ DatabaseFails /\ UNCHANGED gen /\ Rollback(r, "error")
  /\ UnchangedDisk /\ UnchangedProcess

(* The row that won the unique key: its link is the answer if its file     *)
(* exists; a row whose file is gone is dropped and the insert tried again, *)
(* three times at most.                                                    *)
CheckWinner(r) ==
  /\ At(r, "check_winner")
  /\ LET p == req[r].rec.path
     IN  \/ IsFile(p) /\ Answer(r, fs[p].by, "remove_new_upload")
         \/ ~IsFile(p) /\ Goto(r, "drop_winner")
  /\ UnchangedTable /\ UnchangedDisk /\ UnchangedProcess /\ UNCHANGED faults

DropWinner(r) ==
  /\ At(r, "drop_winner")
  /\ \/ /\ Write(DeletePaste(pastes, req[r].rec.path, req[r].rec.gen))
        /\ IF req[r].tries < 2
           THEN req' = [req EXCEPT ![r].tries = @ + 1, ![r].pc = "insert_paste"]
           ELSE Rollback(r, "error")
     \/ DatabaseFails /\ Rollback(r, "error")
  /\ UNCHANGED gen /\ UnchangedDisk /\ UnchangedProcess

(* remove_new_upload: the file at the path of this upload, then its sidecar*)
RemoveNewUpload(r) ==
  /\ At(r, "remove_new_upload")
  /\ LET p == PathOf(req[r])
     IN  IF IsFile(p) THEN RemoveFile(p, [how |-> "rollback", by |-> r]) ELSE UnchangedDisk
  /\ Goto(r, "delete_password")
  /\ UnchangedTable /\ UnchangedProcess /\ UNCHANGED faults

(* The sidecar goes last: of an upload taken back, of a paste deleted.     *)
DeletePassword(r) ==
  /\ At(r, "delete_password")
  /\ IF req[r].op = "upload"
     THEN /\ RemoveSidecar(PathOf(req[r]), [how |-> "rollback", by |-> r])
          /\ Goto(r, "done")
     ELSE /\ RemoveSidecar(req[r].rec.path, [how |-> "delete", by |-> r])
          /\ Goto(r, "delete_paste")
  /\ UnchangedTable /\ UnchangedProcess /\ UNCHANGED faults

------------------------------------------------------------------------------
(* Serve and delete.                                                       *)

(* find_pastes_by_public_filename                                          *)
FindPastes(r) ==
  /\ At(r, "find_pastes")
  /\ LET rows == RowsByPublicName(pastes, req[r].name, Seconds(now))
     IN  req' = [req EXCEPT ![r].pc = "is_file", ![r].rows = {RecordAt(p) : p \in rows}]
  /\ UnchangedTable /\ UnchangedDisk /\ UnchangedProcess /\ UNCHANGED faults

TypeRank(type) ==
  CASE type = "file" -> 0 [] type = "remote_file" -> 1 [] type = "url" -> 2
    [] type = "oneshot" -> 3 [] type = "oneshot_url" -> 4 [] OTHER -> 5

(* The order of the query: type, then id.  Rows that one reconciliation    *)
(* inserted share a gen; their order is that of the directory.             *)
NotAfter(x, y) ==
  \/ TypeRank(x.type) < TypeRank(y.type)
  \/ TypeRank(x.type) = TypeRank(y.type) /\ x.gen <= y.gen

FirstFile(rows) ==
  LET files == {x \in rows : IsFile(x.path)}
  IN  {x \in files : \A y \in files : NotAfter(x, y)}

(* A mutant: any paste with an owner may be deleted.                       *)
OwnedCanBeDeleted(owner, record) == owner \in Admins \/ record.owner # None

(* can_delete_record                                                       *)
CanDelete(owner, record) == owner \in Admins \/ record.owner = owner

(* The first record whose file exists; a deletion is then authorised.      *)
IsFileStep(r) ==
  /\ At(r, "is_file")
  /\ LET first == FirstFile(req[r].rows)
     IN  \/ first = {} /\ Reply(r, "not_found")
         \/ \E x \in first :
              IF req[r].op = "delete" /\ ~CanDelete(req[r].owner, x)
              THEN Reply(r, "forbidden")
              ELSE req' = [req EXCEPT ![r].rec = x, ![r].rows = {},
                             ![r].pc = IF req[r].op = "delete" THEN "remove_file"
                                                               ELSE "has_password"]
  /\ UnchangedTable /\ UnchangedDisk /\ UnchangedProcess /\ UNCHANGED faults

(* Any file with the sidecar's name protects the paste; only a hash lets   *)
(* in those who know the password.  The file may be gone by then: there is *)
(* a second look at it before the sidecar's.                               *)
HasPassword(r) ==
  /\ At(r, "has_password")
  /\ LET p == PasswordPath(req[r].rec.path)
         admitted == IsFile(p) => req[r].knows /\ fs[p].kind = "hash"
     IN  \/ admitted /\ Goto(r, "open")
         \/ (~admitted \/ ~IsFile(req[r].rec.path)) /\ Reply(r, "not_found")
  /\ UnchangedTable /\ UnchangedDisk /\ UnchangedProcess /\ UNCHANGED faults

(* The content is what the path leads to when it is opened.                *)
Open(r) ==
  /\ At(r, "open")
  /\ LET p == req[r].rec.path
         oneshot == req[r].rec.type \in {"oneshot", "oneshot_url"}
     IN  \/ ~IsFile(p) /\ Reply(r, "error")
         \/ IsFile(p) /\ oneshot /\ req' = [req EXCEPT ![r].seen = fs[p].by, ![r].pc = "consume"]
         \/ IsFile(p) /\ ~oneshot /\ Answer(r, fs[p].by, "done")
  /\ UnchangedTable /\ UnchangedDisk /\ UnchangedProcess /\ UNCHANGED faults

(* A mutant: a viewer who finds the paste consumed is served all the same. *)
ConsumeIgnoringErrors(r) ==
  /\ At(r, "consume")
  /\ LET p == req[r].rec.path
     IN  IF IsFile(p) THEN RemoveFile(p, [how |-> "consumed", by |-> r]) ELSE UnchangedDisk
  /\ Goto(r, "delete_metadata")
  /\ UnchangedTable /\ UnchangedProcess /\ UNCHANGED faults

(* A one-shot paste is renamed to its public name with the current time.   *)
Consume(r) ==
  /\ At(r, "consume")
  /\ LET p == req[r].rec.path
         q == [p EXCEPT !.file = Append(req[r].name, now)]
     IN  \/ ~IsFile(p) /\ Reply(r, "error") /\ UnchangedDisk
         \/ /\ IsFile(p)
            /\ fs' = [x \in (DOMAIN fs \ {p}) \cup {q} |-> IF x = q THEN fs[p] ELSE fs[x]]
            /\ fate' = Fated(p, [how |-> "consumed", by |-> r])
            /\ Goto(r, "delete_metadata")
  /\ UnchangedTable /\ UnchangedProcess /\ UNCHANGED faults

(* A mutant: the row of a consumed paste stays.                            *)
ConsumeKeepsRow(r) ==
  /\ At(r, "delete_metadata")
  /\ Reply(r, "ok")
  /\ UnchangedTable /\ UnchangedDisk /\ UnchangedProcess /\ UNCHANGED faults

(* delete_metadata_for_path: the row at the path, whichever it is by now.  *)
DeleteMetadata(r) ==
  /\ At(r, "delete_metadata")
  /\ \/ Write(DeletePasteByPath(pastes, req[r].rec.path)) /\ Reply(r, "ok")
     \/ DatabaseFails /\ Reply(r, "error")
  /\ UNCHANGED gen /\ UnchangedDisk /\ UnchangedProcess

(* A mutant: the sidecar goes before the content.                          *)
RemoveSidecarFirst(r) ==
  /\ At(r, "remove_file")
  /\ LET p == req[r].rec.path
         how == [how |-> "delete", by |-> r]
     IN  IF IsFile(PasswordPath(p)) THEN RemoveFile(PasswordPath(p), how) /\ UNCHANGED req
         ELSE IF IsFile(p) THEN RemoveFile(p, how) /\ Goto(r, "delete_paste")
         ELSE Reply(r, "error") /\ UnchangedDisk
  /\ UnchangedTable /\ UnchangedProcess /\ UNCHANGED faults

(* remove_paste_file: without its content the paste is not deleted further *)
RemovePasteFile(r) ==
  /\ At(r, "remove_file")
  /\ LET p == req[r].rec.path
     IN  \/ ~IsFile(p) /\ Reply(r, "error") /\ UnchangedDisk
         \/ /\ IsFile(p)
            /\ RemoveFile(p, [how |-> "delete", by |-> r])
            /\ Goto(r, "delete_password")
  /\ UnchangedTable /\ UnchangedProcess /\ UNCHANGED faults

DeleteRow(r) ==
  /\ At(r, "delete_paste")
  /\ \/ Write(DeletePaste(pastes, req[r].rec.path, req[r].rec.gen)) /\ Reply(r, "ok")
     \/ DatabaseFails /\ Reply(r, "error")
  /\ UNCHANGED gen /\ UnchangedDisk /\ UnchangedProcess

------------------------------------------------------------------------------
(* The cleanup thread.  Its upload path is that of the start; it runs from *)
(* before the reconciliation on.                                           *)

(* get_expired_files *)
ListExpired ==
  /\ Cleanup
  /\ cleaner.pc = "idle"
  /\ cleaner' = [cleaner EXCEPT !.pc = "files",
                   !.todo = {p \in DOMAIN fs : ExpiredOnDisk(p.file, now)}]

RemoveExpired(p) ==
  /\ cleaner.pc = "files" /\ p \in cleaner.todo
  /\ \/ /\ IsFile(p)
        /\ RemoveFile(p, [how |-> "cleanup", by |-> now])
        /\ cleaner' = [pc |-> "sidecar", todo |-> cleaner.todo \ {p}, path |-> p]
     \/ ~IsFile(p) /\ UnchangedDisk /\ cleaner' = [cleaner EXCEPT !.todo = @ \ {p}]

(* The sidecar goes after the content, then the consumer is told.          *)
RemoveExpiredSidecar ==
  /\ cleaner.pc = "sidecar"
  /\ RemoveSidecar(cleaner.path, [how |-> "cleanup", by |-> now])
  /\ expired' = Append(expired, cleaner.path)
  /\ cleaner' = [cleaner EXCEPT !.pc = "files", !.path = None]

(* get_orphaned_password_files: password hashes whose main file is gone    *)
Orphans ==
  {p \in DOMAIN fs :
     /\ p.dir \in {"root", "protected_file"}
     /\ p.file[Len(p.file)] = PasswordExt
     /\ fs[p].kind = "hash"
     /\ ~IsFile([p EXCEPT !.file = WithoutSuffix(p.file)])}

ListOrphans ==
  /\ cleaner.pc = "files" /\ cleaner.todo = {}
  /\ cleaner' = [cleaner EXCEPT !.pc = IF Orphans = {} THEN "idle" ELSE "orphans",
                                !.todo = Orphans]

RemoveOrphan(p) ==
  /\ cleaner.pc = "orphans" /\ p \in cleaner.todo
  /\ IF IsFile(p) THEN RemoveFile(p, [how |-> "orphan", by |-> now]) ELSE UnchangedDisk
  /\ cleaner' = [cleaner EXCEPT !.todo = @ \ {p},
                                !.pc = IF cleaner.todo = {p} THEN "idle" ELSE "orphans"]

CleanerStep ==
  /\ \/ (ListExpired \/ ListOrphans) /\ UnchangedDisk /\ UNCHANGED expired
     \/ (\E p \in cleaner.todo : RemoveExpired(p) \/ RemoveOrphan(p)) /\ UNCHANGED expired
     \/ RemoveExpiredSidecar
  /\ UnchangedTable /\ UNCHANGED <<now, req, server, scan, crashes, faults>>

(* A mutant: the consumer leaves the row.                                  *)
ConsumeWithoutDeleting ==
  /\ server = "up"
  /\ expired # <<>>
  /\ expired' = Tail(expired)
  /\ UnchangedTable /\ UnchangedDisk
  /\ UNCHANGED <<now, req, server, scan, cleaner, crashes, faults>>

(* The consumer, spawned after the reconciliation, deletes rows by path.   *)
ConsumeExpired ==
  /\ server = "up"
  /\ expired # <<>>
  /\ Write(DeletePasteByPath(pastes, Head(expired))) \/ DatabaseFails
  /\ expired' = Tail(expired)
  /\ UNCHANGED gen /\ UnchangedDisk /\ UNCHANGED <<now, req, server, scan, cleaner, crashes>>

------------------------------------------------------------------------------
(* Crash and start.                                                        *)

InProgress(r) == req[r].pc \notin {"idle", "done"}

(* Requests in progress, the thread and its channel are lost, what is in   *)
(* the directory and in the database stays.  A start that fails, in the    *)
(* scan or at the database, ends the process as well.                      *)
Crash ==
  /\ crashes < MaxCrashes
  /\ crashes' = crashes + 1
  /\ req' = [r \in Requests |-> IF InProgress(r)
                                THEN [req[r] EXCEPT !.pc = "done", !.status = "lost"]
                                ELSE req[r]]
  /\ server' = "scan"
  /\ scan' = [NoScan EXCEPT !.dirs = Directories]
  /\ cleaner' = CleanerIdle
  /\ expired' = <<>>
  /\ UnchangedTable /\ UnchangedDisk /\ UNCHANGED <<now, faults>>

(* is_password_sidecar *)
IsPasswordSidecar(p) ==
  /\ p.dir = "protected_file"
  /\ p.file[Len(p.file)] = PasswordExt
  /\ IsFile([p EXCEPT !.file = WithoutSuffix(p.file)])
  /\ fs[p].kind = "hash"

(* PasswordExt stands for the hash of a sidecar: no content has it.        *)
FileHash(p) == IF fs[p].kind = "content" THEN req[fs[p].by].hash ELSE PasswordExt

(* The order in which scan_pastes reads the directories.                   *)
DirRank(dir) ==
  CASE dir = "root" -> 0 [] dir = "oneshot" -> 1 [] dir = "url" -> 2
    [] dir = "oneshot_url" -> 3 [] OTHER -> 4

ReadDir ==
  /\ scan.todo = {}
  /\ \E dir \in scan.dirs :
       /\ \A d \in scan.dirs : DirRank(dir) <= DirRank(d)
       /\ scan' = [scan EXCEPT !.dirs = @ \ {dir}, !.todo = {p \in DOMAIN fs : p.dir = dir}]
  /\ UNCHANGED server

(* scan_entry.  The cleanup thread may have removed the file since the     *)
(* directory was opened: read_dir returns it or not, and if it does, the   *)
(* entry cannot be read.                                                   *)
ScanEntry(p) ==
  /\ p \in scan.todo
  /\ \/ /\ IsFile(p) /\ ~IsPasswordSidecar(p)
        /\ scan' = [scan EXCEPT !.todo = @ \ {p},
                     !.found = [q \in DOMAIN @ \cup {p} |-> IF q = p THEN FileHash(p) ELSE @[q]]]
     \/ /\ IsFile(p) => IsPasswordSidecar(p)
        /\ scan' = [scan EXCEPT !.todo = @ \ {p}]
     \/ /\ ~IsFile(p)
        /\ scan' = [scan EXCEPT !.todo = @ \ {p}, !.skipped = TRUE]
  /\ UNCHANGED server

(* retain_existing_pastes: if an entry was skipped, every row that has not *)
(* expired stays, and with it that of a file that is gone.                 *)
RetainExisting ==
  /\ scan.dirs = {} /\ scan.todo = {}
  /\ scan' = [scan EXCEPT !.kept = IF scan.skipped
                 THEN ListAll(pastes, Seconds(now)) \ DOMAIN scan.found ELSE {}]
  /\ server' = "reconcile"

(* The scan runs beside the cleanup thread, one entry after the other.     *)
ScanPastes ==
  /\ server = "scan"
  /\ ReadDir \/ (\E p \in scan.todo : ScanEntry(p)) \/ RetainExisting
  /\ UnchangedTable /\ UnchangedDisk /\ UNCHANGED <<now, req, cleaner, expired, crashes, faults>>

Reconcile ==
  /\ server = "reconcile"
  /\ pastes' = ReconcilePastes(pastes, scan.found, scan.kept, gen)
  /\ gen' = gen + 1
  /\ server' = "up"
  /\ scan' = [NoScan EXCEPT !.kept = scan.kept]
  /\ UnchangedDisk /\ UNCHANGED <<now, req, cleaner, expired, crashes, faults>>

Tick ==
  /\ now < MaxTime
  /\ now' = now + 1
  /\ UnchangedTable /\ UnchangedDisk
  /\ UNCHANGED <<req, server, scan, cleaner, expired, crashes, faults>>

------------------------------------------------------------------------------

Step(r) ==
  \/ FindOwnerDuplicate(r) \/ CheckDuplicate(r) \/ DeleteStale(r)
  \/ GlobMatch(r) \/ StorePassword(r) \/ CreateContent(r)
  \/ PersistPasteMetadata(r) \/ CheckWinner(r) \/ DropWinner(r)
  \/ RemoveNewUpload(r) \/ DeletePassword(r)
  \/ FindPastes(r) \/ IsFileStep(r) \/ HasPassword(r) \/ Open(r)
  \/ Consume(r) \/ DeleteMetadata(r) \/ RemovePasteFile(r) \/ DeleteRow(r)

(* Only a protected paste tells those who know a password from the others. *)
Knowledge == IF "protected_file" \in Types THEN BOOLEAN ELSE {FALSE}

Arrival(r) ==
  \/ /\ "upload" \in Ops
     /\ \E owner \in Owners, name \in UploadNames, type \in Types,
           expiry \in Expiries, hash \in Hashes \ {PasswordExt} :
          ArriveUpload(r, owner, name, type, expiry, hash)
  \/ \E name \in UsedNames :
       \/ "serve" \in Ops /\ \E knows \in Knowledge : ArriveOther(r, "serve", None, name, knows)
       \/ "delete" \in Ops /\ \E owner \in Owners : ArriveOther(r, "delete", owner, name, FALSE)

Next ==
  \/ \E r \in Requests : Arrival(r) \/ Step(r)
  \/ CleanerStep
  \/ ConsumeExpired
  \/ Crash
  \/ ScanPastes
  \/ Reconcile
  \/ Tick

Spec == Init /\ [][Next]_vars

(* The thread and the tasks keep running, the clock keeps going, and every *)
(* request in progress goes on; nobody has to send one.                    *)
FairSpec ==
  /\ Spec
  /\ WF_vars(CleanerStep)
  /\ WF_vars(ConsumeExpired)
  /\ WF_vars(ScanPastes \/ Reconcile)
  /\ WF_vars(Tick)
  /\ \A r \in Requests : WF_vars(Step(r))

------------------------------------------------------------------------------

Statuses == {None, "ok", "not_found", "forbidden", "conflict", "database", "error", "lost"}

TypeOK ==
  /\ pastes \in Tables
  /\ gen \in Nat
  /\ \A p \in DOMAIN fs : fs[p].by \in Requests /\ fs[p].kind \in {"content", "hash"}
  /\ now \in Nat
  /\ \A r \in Requests :
       /\ req[r].status \in Statuses
       /\ req[r].rec # None => req[r].rec.path \in Paths
       /\ req[r].seen \in Requests \cup {None}
  /\ server \in {"up", "scan", "reconcile"}
  /\ cleaner.pc \in {"idle", "files", "sidecar", "orphans"}
  /\ \A i \in DOMAIN expired : expired[i].dir \in {GetDir(type) : type \in Types}

Acknowledged(r) == req[r].op = "upload" /\ req[r].pc = "done" /\ req[r].status = "ok"
Served(r) == req[r].op = "serve" /\ req[r].pc = "done" /\ req[r].status = "ok"

(* Content leaves the directory only by the hand of its owner or of an     *)
(* administrator, by the uploader's own roll-back, by cleanup after its    *)
(* expiry, or because a one-shot paste was viewed ("only the paste owner   *)
(* or an administrator may delete this file").                             *)
RemovalIsAuthorised ==
  \A u \in Requests :
    fate[u] # None =>
      CASE fate[u].how = "delete" -> req[fate[u].by].owner \in Admins \cup {req[u].owner}
        [] fate[u].how = "rollback" -> fate[u].by = u
        [] fate[u].how = "cleanup" -> req[u].expiry # None /\ req[u].expiry < fate[u].by
        [] fate[u].how = "consumed" -> req[u].type \in {"oneshot", "oneshot_url"}
        [] OTHER -> FALSE

(* An upload that was answered with a link is stored: the link leads to    *)
(* content of the same hash, owner and category that lasts as long, and    *)
(* no roll-back, of this upload or another, took it away.                  *)
AcknowledgedIsStored ==
  \A r \in Requests :
    Acknowledged(r) =>
      LET u == req[r].seen
      IN  /\ req[u].owner = req[r].owner
          /\ req[u].hash = req[r].hash
          /\ req[u].expiry = req[r].expiry
          /\ u # r => CategoryOf(req[u].type) = CategoryOf(req[r].type)
          /\ fate[u] # None => fate[u].how # "rollback"

(* "One shot": the content of an upload is shown to one viewer.            *)
OneshotIsViewedOnce ==
  \A g, h \in Requests :
    /\ Served(g) /\ Served(h) /\ req[g].seen = req[h].seen
    /\ req[req[g].seen].type \in {"oneshot", "oneshot_url"}
    => g = h

(* Protected content is shown only to those who know its password.         *)
ProtectedNeedsPassword ==
  \A g \in Requests :
    Served(g) /\ req[req[g].seen].type = "protected_file" => req[g].knows

(* Nothing is going on: no request, no cleanup, no path on its way.        *)
Quiet ==
  /\ server = "up"
  /\ \A r \in Requests : ~InProgress(r)
  /\ cleaner.pc = "idle"
  /\ expired = <<>>

(* At rest, every paste on disk that nobody consumed has its row, so it    *)
(* can be served, listed and deleted: no failure, roll-back or crash       *)
(* leaves content behind that the database does not know.                  *)
FilesHaveRows ==
  Quiet => \A p \in DOMAIN fs :
             fs[p].kind = "content" /\ fate[fs[p].by] = None => pastes[p] # NoRow

(* The deletion or the view of the paste at p was lost in a crash: its     *)
(* file may be gone already, its row not yet.                              *)
LostAt(p) ==
  \E r \in Requests :
    /\ req[r].pc = "done" /\ req[r].status = "lost" /\ req[r].op \in {"serve", "delete"}
    /\ req[r].rec # None /\ req[r].rec.path = p

(* At rest, a row whose paste has not expired has its file, with the hash  *)
(* and the owner the row claims.  One row may stay without: that of a      *)
(* deletion or view lost in a crash, if the next start met an entry it     *)
(* could not read and retained all rows (main.rs, retain_existing_pastes). *)
(* While the database fails others may stay; so does that of a sidecar     *)
(* adopted by a restart when cleanup removes it.                           *)
RowsHaveFiles ==
  Quiet /\ faults = 0 =>
    \A p \in Present(pastes) :
      ~ExpiredOnDisk(p.file, now) /\ Suffix(p.file) # PasswordExt =>
        \/ /\ IsFile(p)
           /\ pastes[p].hash = FileHash(p)
           /\ pastes[p].owner \in {None, req[fs[p].by].owner}
        \/ ~IsFile(p) /\ p \in scan.kept /\ LostAt(p)

(* Nothing but what takes the content away takes a paste from its owner:   *)
(* through crashes, restarts and the deletions of others, an acknowledged  *)
(* paste keeps its file, its row, and the owner in that row.               *)
OwnersKeepTheirPastes ==
  \A u \in Requests :
    Acknowledged(u) /\ req[u].seen = u /\ fate[u] = None =>
      /\ IsFile(PathOf(req[u]))
      /\ pastes[PathOf(req[u])] # NoRow
      /\ pastes[PathOf(req[u])].owner = req[u].owner

(* A paste acknowledged before its expiry is in the end gone from disk and *)
(* from the database, by cleanup or otherwise.  The row may stay only if   *)
(* the last start retained it without having found its file: a deletion,   *)
(* or cleanup in the second of the expiry, was interrupted by the crash.   *)
ExpiredPastesGo ==
  \A r \in Requests :
    Acknowledged(r) /\ req[r].seen = r /\ req[r].expiry # None /\ now <= req[r].expiry
    ~> /\ PathOf(req[r]) \notin DOMAIN fs
       /\ PathOf(req[r]) \in Present(pastes) => PathOf(req[r]) \in scan.kept
==============================================================================
