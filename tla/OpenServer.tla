------------------------------ MODULE OpenServer ------------------------------
(***************************************************************************)
(* The server without [auth]: no database, every link is looked up in the  *)
(* upload directory, and the configuration changes while the server runs.  *)
(*                                                                         *)
(* Handlers run on several threads.  A step is what a handler decides and  *)
(* does about one file; between two steps other handlers, the cleanup      *)
(* thread and the watcher run.  A handler that stores a file holds the     *)
(* read lock of the configuration from its checks until the file is there. *)
(*                                                                         *)
(* The path of a file is its upload directory, the directory of its type,  *)
(* its name, and the stamp behind the name or None.  A protected paste and *)
(* its password are one file here; PasteServer takes them apart.           *)
(***************************************************************************)
EXTENDS Configuration, FiniteSets, FiniteSetsExt, Functions

CONSTANTS
  Threads,        \* handlers that may run at the same time
  Uploads,        \* what clients upload, each once
  Lifetime,       \* ticks until an expiring upload expires
  MaxTime         \* bound: the last tick

ASSUME OpenAssumption == Lifetime \in Nat \ {0} /\ MaxTime \in Nat
ASSUME ThreadsAssumption == Threads # {} /\ IsFiniteSet(Threads)
ASSUME StartAssumption == ~StartConfig.auth
ASSUME NoneAssumption == None \notin Nat \cup Uploads

VARIABLES
  fs,             \* the content of every file, by path
  now,            \* the clock, in ticks
  cleaner,        \* the cleanup thread, with its copy of the configuration
  req,            \* the request of each thread
  sent,           \* bound: the uploads sent
  owed            \* history: the links given out that still have to work

serverVars == <<fs, now, cleaner, req, sent, owed>>
vars == <<configVars, serverVars>>

NoRequest == [pc |-> "idle", upload |-> None, name |-> None, path |-> None, stamp |-> None]

Init ==
  /\ ConfigInit
  /\ fs = [p \in {} |-> None]
  /\ now = 0
  /\ cleaner = [pc |-> "loop", enabled |-> StartConfig.cleanup, todo |-> {}]
  /\ req = [r \in Threads |-> NoRequest]
  /\ sent = {}
  /\ owed = {}

------------------------------------------------------------------------------
(* Files *)

(* PasteType::get_dir *)
GetDir(type) == IF type \in {"file", "remote_file"} THEN "root" ELSE type

Path(root, dir, name, stamp) == [root |-> root, dir |-> dir, name |-> name, stamp |-> stamp]

IsFile(p) == p \in DOMAIN fs

Without(p) == Restrict(fs, DOMAIN fs \ {p})

(* setup makes the directories of the types, under the first upload_path.  *)
DirExists(root, dir) == dir = "root" \/ root = StartConfig.upload_path

(* glob_match_file: the greatest stamp counts, as long as it lies ahead.   *)
GlobMatchFile(root, dir, name) ==
  LET stamps == {s \in 0..(MaxTime + Lifetime) : IsFile(Path(root, dir, name, s))}
  IN  IF stamps # {} /\ now < Max(stamps)
      THEN Path(root, dir, name, Max(stamps))
      ELSE Path(root, dir, name, None)

(* serve: the root comes first, then the directories of the other types.   *)
TypeDirs == <<"root", "url", "oneshot", "oneshot_url", "protected_file">>

Lookup(root, name, dirs) ==
  LET hits == {i \in DOMAIN TypeDirs :
                 TypeDirs[i] \in dirs /\ IsFile(GlobMatchFile(root, TypeDirs[i], name))}
  IN  IF hits = {} THEN None ELSE GlobMatchFile(root, TypeDirs[Min(hits)], name)

ServedFrom == {"root", "url", "oneshot", "oneshot_url", "protected_file"}
DeletedFrom == {"root", "protected_file"}

(* get_dir_size, all files being of one size; the root contains the rest.  *)
DirSize(root, dir) ==
  Cardinality({p \in DOMAIN fs : p.root = root /\ dir \in {p.dir, "root"}})

------------------------------------------------------------------------------
(* Requests *)

At(r, pc) == req[r].pc = pc

Done(r) == req' = [req EXCEPT ![r] = NoRequest]

(* A handler that stores a file keeps the watcher waiting.                 *)
HoldsReadLock(r) == At(r, "create")

Tick ==
  /\ now < MaxTime
  /\ now' = now + 1
  /\ UNCHANGED <<configVars, fs, cleaner, req, sent, owed>>

Edit == EditFile /\ UNCHANGED serverVars
Parse == ParseFile /\ UNCHANGED serverVars
Replace == (\A r \in Threads : ~HoldsReadLock(r)) /\ ReplaceConfig /\ UNCHANGED serverVars

(* authenticate_legacy_request: without auth tokens anyone may upload.     *)
MayUpload(token) ==
  GetTokens(config, "auth") = {} \/ token \in GetTokens(config, "auth")

MayDelete(token) == token \in GetTokens(config, "delete")

------------------------------------------------------------------------------
(* upload: one field, after its content has been received                  *)

(* parse_expiry_date, or else paste.default_expiry                         *)
ExpiryDate(u) == IF u.expires THEN now + Lifetime ELSE None

ArriveUpload(r, u) ==
  /\ At(r, "idle") /\ u \notin sent
  /\ \A q \in Threads : req[q].upload # None => req[q].upload.name # u.name
  /\ \E t \in Tokens \cup {None} : MayUpload(t)
  /\ req' = [req EXCEPT ![r].pc = IF u.type = "remote_file" THEN "download" ELSE "field",
                        ![r].upload = u, ![r].stamp = ExpiryDate(u)]
  /\ sent' = sent \cup {u}
  /\ UNCHANGED <<configVars, fs, now, cleaner, owed>>

(* store_remote_file: the URL is refused, or the download fails, or not.   *)
Download(r) ==
  /\ At(r, "download")
  /\ Done(r) \/ req' = [req EXCEPT ![r].pc = "field"]
  /\ UNCHANGED <<configVars, fs, now, cleaner, sent, owed>>

Link(p, u) == [path |-> p, content |-> u.content, once |-> u.type \in {"oneshot", "oneshot_url"}]

Deduplicates(r) ==
  /\ req[r].upload.type \in {"file", "remote_file", "url"}
  /\ req[r].stamp = None
  /\ ~config.duplicate_files

(* Directory::get_file: a file of that content, in any directory; files    *)
(* whose name ends in a stamp do not count.                                *)
SameContent(root, content) ==
  {p \in DOMAIN fs : p.root = root /\ p.stamp = None /\ fs[p] = content}

(* The duplicate check, for a remote file once it has been downloaded.     *)
FindDuplicate(r) ==
  LET u == req[r].upload
      same == SameContent(config.upload_path, u.content)
  IN  /\ At(r, "field")
      /\ IF Deduplicates(r) /\ same # {}
         THEN /\ \E p \in same : owed' = owed \cup {Link(p, u)}
              /\ Done(r)
         ELSE /\ req' = [req EXCEPT ![r].pc = "store"]
              /\ UNCHANGED owed
      /\ UNCHANGED <<configVars, fs, now, cleaner, sent>>

(* A mutant: only the very path is looked at, not the expiring ones.       *)
PathTaken(root, dir, name) == IsFile(Path(root, dir, name, None))

NameTaken(root, dir, name) == IsFile(GlobMatchFile(root, dir, name))

(* A mutant: the new file is left out of the account.                      *)
WasWithinLimit(root, dir) ==
  config.max_upload_dir_size = None \/ DirSize(root, dir) <= config.max_upload_dir_size

FitsIntoLimit(root, dir) ==
  config.max_upload_dir_size = None \/ DirSize(root, dir) + 1 <= config.max_upload_dir_size

(* store_url looks neither at the limit nor at the expiring files.         *)
StoredByUrl(u) == u.type \in {"url", "oneshot_url"}

MayStore(u, root) ==
  LET dir == GetDir(u.type)
  IN  /\ DirExists(root, dir)
      /\ StoredByUrl(u) \/ (FitsIntoLimit(root, dir) /\ ~NameTaken(root, dir, u.name))

CheckTarget(r) ==
  LET u == req[r].upload
      root == config.upload_path
  IN  /\ At(r, "store")
      /\ IF MayStore(u, root)
         THEN req' = [req EXCEPT ![r].pc = "create",
                                 ![r].path = Path(root, GetDir(u.type), u.name, req[r].stamp)]
         ELSE Done(r)
      /\ UNCHANGED <<configVars, fs, now, cleaner, sent, owed>>

(* create_new, and the answer with the link.                               *)
Create(r) ==
  LET p == req[r].path
      u == req[r].upload
  IN  /\ At(r, "create")
      /\ IF IsFile(p)
         THEN UNCHANGED <<fs, owed>>
         ELSE /\ fs' = [q \in DOMAIN fs \cup {p} |-> IF q = p THEN u.content ELSE fs[q]]
              /\ owed' = owed \cup {Link(p, u)}
      /\ Done(r)
      /\ UNCHANGED <<configVars, now, cleaner, sent>>

------------------------------------------------------------------------------
(* serve and delete *)

IsOneshot(p) == p.dir \in {"oneshot", "oneshot_url"}

(* serve finds and opens the file.  Reading leaves no trace, except that a *)
(* one-shot paste is about to be consumed.                                 *)
View(r, name) ==
  LET p == Lookup(config.upload_path, name, ServedFrom)
  IN  /\ At(r, "idle") /\ p # None /\ IsOneshot(p)
      /\ req' = [req EXCEPT ![r].pc = "consume", ![r].path = p]
      /\ UNCHANGED <<configVars, fs, now, cleaner, sent, owed>>

(* The file gets the time behind its name, and fails if it is gone.        *)
Consume(r) ==
  LET p == req[r].path
      consumed == Path(p.root, p.dir, p.name, now)
  IN  /\ At(r, "consume")
      /\ IF IsFile(p)
         THEN /\ fs' = [q \in (DOMAIN fs \ {p}) \cup {consumed} |->
                          IF q = consumed THEN fs[p] ELSE fs[q]]
              /\ owed' = {l \in owed : ~(l.once /\ l.path = p)}
         ELSE UNCHANGED <<fs, owed>>
      /\ Done(r)
      /\ UNCHANGED <<configVars, now, cleaner, sent>>

ArriveDelete(r, name) ==
  /\ At(r, "idle")
  /\ \E t \in Tokens : MayDelete(t)
  /\ req' = [req EXCEPT ![r].pc = "find", ![r].name = name]
  /\ UNCHANGED <<configVars, fs, now, cleaner, sent, owed>>

(* delete looks in the root and among the protected pastes, nowhere else.  *)
FindFile(r) ==
  LET p == Lookup(config.upload_path, req[r].name, DeletedFrom)
  IN  /\ At(r, "find")
      /\ IF p = None THEN Done(r)
         ELSE req' = [req EXCEPT ![r].pc = "remove", ![r].name = None, ![r].path = p]
      /\ UNCHANGED <<configVars, fs, now, cleaner, sent, owed>>

RemovePasteFile(r) ==
  LET p == req[r].path
  IN  /\ At(r, "remove")
      /\ fs' = Without(p)
      /\ owed' = {l \in owed : l.path # p}
      /\ Done(r)
      /\ UNCHANGED <<configVars, now, cleaner, sent>>

------------------------------------------------------------------------------
(* The cleanup thread; the upload directory is that of the start.          *)

(* A mutant: a paste goes a tick before it expires.                        *)
ExpiredNextTick(p) == p.stamp # None /\ now + 1 >= p.stamp

Expired(p) == p.stamp # None /\ now > p.stamp

(* A mutant: the directories of the types are forgotten.                   *)
RootOnly == {"root"}

CleanedDirs == {"root", "oneshot", "url", "oneshot_url", "protected_file"}

(* get_expired_files *)
ExpiredFiles ==
  {p \in DOMAIN fs : p.root = StartConfig.upload_path /\ p.dir \in CleanedDirs /\ Expired(p)}

ScanExpired ==
  /\ cleaner.pc = "loop" /\ cleaner.enabled
  /\ cleaner' = [cleaner EXCEPT !.pc = "remove", !.todo = ExpiredFiles]
  /\ UNCHANGED <<configVars, fs, now, req, sent, owed>>

RemoveExpired ==
  /\ cleaner.pc = "remove"
  /\ \E p \in cleaner.todo :
       /\ fs' = Without(p)
       /\ cleaner' = [cleaner EXCEPT !.todo = @ \ {p}]
  /\ UNCHANGED <<configVars, now, req, sent, owed>>

ReceiveConfig ==
  /\ channel # <<>>
  /\ cleaner' = [cleaner EXCEPT !.pc = "loop", !.enabled = Head(channel).cleanup]
  /\ channel' = Tail(channel)

UnchangedButCleaner == UNCHANGED <<disk, edits, event, parsed, config, fs, now, req, sent, owed>>

(* Enabled, the thread sleeps and takes at most one configuration.         *)
SleepAndTryReceive ==
  /\ cleaner.pc = "remove" /\ cleaner.todo = {}
  /\ \/ ReceiveConfig
     \/ channel = <<>> /\ cleaner' = [cleaner EXCEPT !.pc = "loop"] /\ UNCHANGED channel
  /\ UnchangedButCleaner

(* Disabled, it waits for the next one.                                    *)
WaitForConfig ==
  /\ cleaner.pc = "loop" /\ ~cleaner.enabled
  /\ ReceiveConfig
  /\ UnchangedButCleaner

------------------------------------------------------------------------------
(* list *)

ListedDirs == {"root", "oneshot", "url", "oneshot_url"}

(* A mutant: expired files are listed until they are removed.              *)
ListedWithExpired(root) == {p.name : p \in {q \in DOMAIN fs : q.root = root /\ q.dir \in ListedDirs}}

(* The names of the files in the directories, without those whose stamp    *)
(* has passed.                                                             *)
Listed(root) ==
  {p.name : p \in {q \in DOMAIN fs : q.root = root /\ q.dir \in ListedDirs /\ ~Expired(q)}}

------------------------------------------------------------------------------
Names == {u.name : u \in Uploads}

Arrive(r) ==
  \/ \E u \in Uploads : ArriveUpload(r, u)
  \/ \E n \in Names : View(r, n) \/ ArriveDelete(r, n)

Handle(r) ==
  \/ Download(r) \/ FindDuplicate(r) \/ CheckTarget(r) \/ Create(r)
  \/ Consume(r)
  \/ FindFile(r) \/ RemovePasteFile(r)

Watcher == Parse \/ Replace

Cleaner == ScanExpired \/ RemoveExpired \/ SleepAndTryReceive \/ WaitForConfig

Next ==
  \/ Tick
  \/ Edit
  \/ Watcher
  \/ Cleaner
  \/ \E r \in Threads : Arrive(r) \/ Handle(r)

Spec == Init /\ [][Next]_vars

(* Threads go on; nobody has to send a request or to change the file.      *)
FairSpec ==
  /\ Spec
  /\ WF_vars(Watcher)
  /\ WF_vars(Cleaner)
  /\ \A r \in Threads : WF_vars(Handle(r))

------------------------------------------------------------------------------
(* Properties *)

(* Every variable has its type; whatever the file says, the server goes on *)
(* without [auth], as there is nothing that could authenticate.            *)
TypeOK ==
  /\ disk \in Configs \cup {None} /\ parsed \in Configs \cup {None}
  /\ event \in BOOLEAN
  /\ config \in Configs /\ ~config.auth
  /\ channel \in Seq(Configs)
  /\ now \in 0..MaxTime
  /\ cleaner.pc \in {"loop", "remove"} /\ cleaner.enabled \in BOOLEAN
  /\ \A p \in DOMAIN fs : p.stamp \in Nat \cup {None}
  /\ \A r \in Threads :
       req[r].pc \in {"idle", "download", "field", "store", "create", "consume", "find", "remove"}
  /\ sent \subseteq Uploads

(* A link that an upload was answered with leads to the content uploaded,  *)
(* until it expires, is deleted by a holder of a delete token or, if it is *)
(* a one-shot link, is viewed: whatever is uploaded, deleted, cleaned up   *)
(* and reconfigured meanwhile.                                             *)
LinksLeadToUploads ==
  \A l \in owed :
    LET p == l.path
    IN  p.root = config.upload_path /\ (p.stamp = None \/ now < p.stamp)
          => Lookup(p.root, p.name, ServedFrom) = p /\ fs[p] = l.content

(* Two readers of the same names, the glob of a download and the listing   *)
(* of the directories, agree on what there is; in the instant in which a   *)
(* paste expires they need not.                                            *)
ListingAgrees ==
  (\A p \in DOMAIN fs : p.stamp # now) =>
    Listed(config.upload_path) =
      {n \in Names : Lookup(config.upload_path, n, ListedDirs) # None}

(* max_upload_dir_size is checked before the file is written: uploads that *)
(* run together exceed it, by one for every other thread and no more.      *)
(* A directory's own files are counted, not those of the directories below *)
(* it; with three uploads only a limit of one can be exceeded.             *)
FilesIn(root, dir) == {p \in DOMAIN fs : p.root = root /\ p.dir = dir}

OvershootIsBounded ==
  config.max_upload_dir_size # None =>
    \A dir \in {"root", "oneshot", "protected_file"} :
      Cardinality(FilesIn(config.upload_path, dir))
        <= config.max_upload_dir_size + Cardinality(Threads) - 1

(* Whatever was refused, delayed or replaced: the last configuration that  *)
(* the cleanup thread has or is about to get is the one the handlers use.  *)
CleanupGetsTheLatest ==
  IF channel = <<>> THEN cleaner.enabled = config.cleanup
  ELSE channel[Len(channel)].cleanup = config.cleanup

(* A change of the file takes effect without a restart: when it is changed *)
(* no more and holds a configuration without [auth], this comes into use.  *)
(* A change is one of the data in place, EventKind::Modify(Data): a file   *)
(* that is renamed over the configuration is not seen by the watcher.      *)
ReloadTakesEffect ==
  \A c \in {d \in Configs : ~d.auth} : <>[](disk = c) => <>[](config = c)

(* Expired pastes go as long as the configuration in use says so, also     *)
(* when it said otherwise before.                                          *)
ExpiringPaths ==
  {Path(StartConfig.upload_path, GetDir(u.type), u.name, s) :
     u \in {v \in Uploads : v.expires}, s \in 0..(MaxTime + Lifetime)}

ExpiredContentGoes ==
  <>[](config.cleanup) =>
    \A p \in ExpiringPaths : [](IsFile(p) /\ Expired(p) => <>~IsFile(p))
==============================================================================
