-------------------------- MODULE PasteServerProofs --------------------------
(***************************************************************************)
(* Theorems about the handlers, the cleanup thread and the restarts of the *)
(* server, for every number of requests, names, owners, crashes and        *)
(* database failures.                                                      *)
(***************************************************************************)
EXTENDS PasteServer, PasteTableProofs, SequenceTheorems

(* Names end neither in a number nor in the extension of the sidecars.     *)
PlainNames == \A n \in UploadNames : Suffix(n) \notin Nat \cup {PasswordExt}

(* Names are used once, and it can be told from a path whose file it is.   *)
DistinctNames == FreshNames /\ PlainNames

------------------------------------------------------------------------------
(* Whose files are whose.                                                  *)

AnyParts == Parts \cup Nat \cup {PasswordExt}
Locations == [dir : Directories, file : Seq(AnyParts) \ {<<>>}]

OneshotTypes == {"oneshot", "oneshot_url"}

(* The files of an upload: its content, its sidecar, and its content once  *)
(* it was viewed.                                                          *)
SidecarOf(x) == PasswordPath(PathOf(x))
ConsumedPath(x, t) == [dir |-> GetDir(x.type), file |-> Append(x.name, t)]

(* The names of files that an upload of this name may leave.               *)
ContentName(file, name) == file = name \/ \E t \in Nat : file = Append(name, t)
Belongs(file, name) ==
  \/ ContentName(file, name)
  \/ \E f \in Seq(AnyParts) : ContentName(f, name) /\ file = PasswordFileName(f)

(* An upload, as far as its files go.                                      *)
UploadRecord(x) == x.name \in UploadNames /\ x.type \in Types /\ x.expiry \in Expiries

(* Names are sequences of parts.                                           *)
LEMMA NameType == ASSUME NEW n \in UploadNames
                  PROVE  /\ n \in PublicNames /\ n \in Seq(AnyParts)
                         /\ n # <<>> /\ Len(n) \in Nat \ {0}
<1>1. n \in PublicNames
  BY AdminsAssumption
<1>2. n \in Seq(Parts) /\ n # <<>>
  BY <1>1, NamesAssumption
<1>3. n \in Seq(AnyParts)
  BY <1>2 DEF AnyParts
<1>. QED
  BY <1>1, <1>2, <1>3

(* What is appended comes last, and the rest can be had back.              *)
LEMMA AppendParts ==
  ASSUME NEW f \in Seq(AnyParts), NEW e \in AnyParts
  PROVE  /\ Append(f, e) \in Seq(AnyParts) \ {<<>>}
         /\ Suffix(Append(f, e)) = e
         /\ WithoutSuffix(Append(f, e)) = f
         /\ Len(Append(f, e)) = Len(f) + 1
<1>1. Append(f, e) \in Seq(AnyParts) /\ Append(f, e) # <<>> /\ Len(Append(f, e)) = Len(f) + 1
  BY AppendProperties
<1>2. Append(f, e)[Len(f) + 1] = e
  BY AppendProperties
<1>3. SubSeq(Append(f, e), 1, Len(f)) = f
  OBVIOUS
<1>4. Len(f) \in Nat /\ Len(f) + 1 - 1 = Len(f)
  OBVIOUS
<1>. QED
  BY <1>1, <1>2, <1>3, <1>4 DEF Suffix, WithoutSuffix

(* A sequence that is not empty is what comes before its end and its end.  *)
LEMMA SuffixParts ==
  ASSUME NEW f \in Seq(AnyParts), f # <<>>
  PROVE  /\ WithoutSuffix(f) \in Seq(AnyParts) /\ Suffix(f) \in AnyParts
         /\ f = Append(WithoutSuffix(f), Suffix(f))
<1>1. PICK g \in Seq(AnyParts), e \in AnyParts : f = Append(g, e)
  BY SequenceEmptyOrAppend
<1>. QED
  BY <1>1, AppendParts

(* The name of a content ends in the name or in a number, never in the     *)
(* extension of the sidecars.                                              *)
LEMMA ContentNames ==
  ASSUME PlainNames, NEW n \in UploadNames, NEW f, ContentName(f, n)
  PROVE  /\ f \in Seq(AnyParts) \ {<<>>}
         /\ Suffix(f) # PasswordExt
         /\ Suffix(f) \in Nat => f # n /\ n = WithoutSuffix(f)
         /\ Suffix(f) \notin Nat => f = n
<1>1. n \in Seq(AnyParts) /\ n # <<>> /\ Suffix(n) \notin Nat \cup {PasswordExt}
  BY NameType DEF PlainNames
<1>2. CASE f = n
  BY <1>1, <1>2
<1>3. CASE \E t \in Nat : f = Append(n, t)
  <2>1. PICK t \in Nat : f = Append(n, t)
    BY <1>3
  <2>2. t \in AnyParts /\ t # PasswordExt
    BY PasswordExtAssumption DEF AnyParts
  <2>. QED
    BY <1>1, <2>1, <2>2, AppendParts
<1>. QED
  BY <1>2, <1>3 DEF ContentName

(* A content has one name.                                                 *)
LEMMA ContentNameOnce ==
  ASSUME PlainNames, NEW n \in UploadNames, NEW m \in UploadNames, NEW f,
         ContentName(f, n), ContentName(f, m)
  PROVE  n = m
BY ContentNames

(* A file belongs to one name.                                             *)
LEMMA BelongsOnce ==
  ASSUME PlainNames, NEW n \in UploadNames, NEW m \in UploadNames, NEW f,
         Belongs(f, n), Belongs(f, m)
  PROVE  n = m
<1>1. ASSUME NEW k \in UploadNames, Belongs(f, k), Suffix(f) # PasswordExt
      PROVE  ContentName(f, k)
  BY <1>1, AppendParts DEF Belongs, PasswordFileName, AnyParts
<1>2. ASSUME NEW k \in UploadNames, Belongs(f, k), Suffix(f) = PasswordExt
      PROVE  ContentName(WithoutSuffix(f), k)
  <2>1. ~ContentName(f, k)
    BY <1>2, ContentNames
  <2>2. PICK g \in Seq(AnyParts) : ContentName(g, k) /\ f = PasswordFileName(g)
    BY <1>2, <2>1 DEF Belongs
  <2>3. WithoutSuffix(f) = g
    BY <2>2, AppendParts DEF PasswordFileName, AnyParts
  <2>. QED
    BY <2>2, <2>3
<1>. QED
  BY <1>1, <1>2, ContentNameOnce

(* Where the files of an upload lie, and what their names say.             *)
LEMMA UploadFiles ==
  ASSUME PlainNames, NEW x, UploadRecord(x)
  PROVE  /\ PathOf(x) \in Paths
         /\ PathOf(x).dir = GetDir(x.type) /\ GetDir(x.type) \in Directories
         /\ ContentName(PathOf(x).file, x.name)
         /\ SidecarOf(x).dir = GetDir(x.type)
         /\ SidecarOf(x).file = PasswordFileName(PathOf(x).file)
         /\ Suffix(SidecarOf(x).file) = PasswordExt
         /\ Belongs(SidecarOf(x).file, x.name)
         /\ PathOf(x) \in Locations /\ SidecarOf(x) \in Locations
<1>1. x.name \in UploadNames /\ x.type \in Types /\ x.expiry \in Expiries /\ x.name \in PublicNames
  BY NameType DEF UploadRecord
<1>2. PathOf(x) \in Paths /\ PathOf(x).dir = GetDir(x.type)
  BY <1>1 DEF PathOf, Paths, StoredNames
<1>3. GetDir(x.type) \in Directories
  BY <1>1 DEF Directories
<1>4. ContentName(PathOf(x).file, x.name)
  BY <1>1, PartsAssumption DEF PathOf, StoredName, ContentName, Expiries, Stamps
<1>5. PathOf(x).file \in Seq(AnyParts) \ {<<>>}
  BY <1>1, <1>4, ContentNames
<1>6. SidecarOf(x).dir = GetDir(x.type) /\ SidecarOf(x).file = PasswordFileName(PathOf(x).file)
  BY <1>2 DEF SidecarOf, PasswordPath
<1>7. PasswordExt \in AnyParts
  BY DEF AnyParts
<1>8. /\ SidecarOf(x).file \in Seq(AnyParts) \ {<<>>}
      /\ Suffix(SidecarOf(x).file) = PasswordExt
  BY <1>5, <1>6, <1>7, AppendParts DEF PasswordFileName
<1>9. Belongs(SidecarOf(x).file, x.name)
  BY <1>4, <1>5, <1>6 DEF Belongs
<1>10. PathOf(x) \in Locations
  BY <1>2, <1>3, <1>5 DEF Locations, PathOf
<1>11. SidecarOf(x) \in Locations
  BY <1>3, <1>6, <1>8 DEF Locations, SidecarOf, PasswordPath
<1>. QED
  BY <1>2, <1>3, <1>4, <1>6, <1>8, <1>9, <1>10, <1>11

(* A viewed content still has a content's name.                            *)
LEMMA ConsumedFiles ==
  ASSUME PlainNames, NEW x, UploadRecord(x), NEW t \in Nat
  PROVE  /\ ConsumedPath(x, t) \in Locations
         /\ ConsumedPath(x, t).dir = GetDir(x.type)
         /\ ContentName(ConsumedPath(x, t).file, x.name)
<1>1. ContentName(Append(x.name, t), x.name)
  BY DEF ContentName
<1>2. Append(x.name, t) \in Seq(AnyParts) \ {<<>>}
  BY <1>1, ContentNames DEF UploadRecord
<1>. QED
  BY <1>1, <1>2 DEF ConsumedPath, Locations, Directories, UploadRecord

(* A row that is found by the name of an upload is that of a content.      *)
LEMMA ScanNames ==
  ASSUME NEW p \in Paths, SplitExpiry(p.file).name \in UploadNames
  PROVE  ContentName(p.file, SplitExpiry(p.file).name)
<1> DEFINE f == p.file
<1>1. PICK n \in PublicNames, e \in Expiries : f = StoredName(n, e)
  BY DEF Paths, StoredNames
<1>2. n \in Seq(AnyParts) /\ n # <<>>
  BY NamesAssumption DEF AnyParts
<1>3. e = None \/ e \in AnyParts
  BY PartsAssumption DEF Expiries, Stamps, AnyParts
<1>4. f \in Seq(AnyParts) /\ f # <<>>
  BY <1>1, <1>2, <1>3, AppendParts DEF StoredName
<1>5. f = Append(WithoutSuffix(f), Suffix(f))
  BY <1>4, SuffixParts
<1>6. HasStamp(f) => Suffix(f) \in Nat
  BY PartsAssumption DEF HasStamp, Numeric, Suffix
<1>. QED
  BY <1>5, <1>6 DEF SplitExpiry, ContentName

(* What the scan reads off the file of an upload.                          *)
LEMMA ScanOfUpload ==
  ASSUME PlainNames, NEW x, UploadRecord(x)
  PROVE  SplitExpiry(PathOf(x).file).name = x.name
<1>1. x.name \in PublicNames /\ x.expiry \in Expiries
  BY NameType DEF UploadRecord
<1>2. ~HasStamp(x.name)
  BY PartsAssumption DEF UploadRecord, PlainNames, HasStamp, Numeric, Suffix
<1>. QED
  BY <1>1, <1>2, SplitStored DEF PathOf

(* What looks expired to the cleanup thread is.                            *)
LEMMA ExpiredUpload ==
  ASSUME PlainNames, NEW x, UploadRecord(x), NEW t \in Nat, ExpiredOnDisk(PathOf(x).file, t)
  PROVE  x.expiry # None /\ x.expiry < t
<1>1. Suffix(PathOf(x).file) \in NumericParts /\ t > Suffix(PathOf(x).file)
  BY DEF ExpiredOnDisk, Numeric, Suffix
<1>2. Suffix(x.name) \notin Nat /\ x.name \in Seq(AnyParts) /\ x.expiry \in Expiries
  BY NameType DEF UploadRecord, PlainNames
<1>3. x.expiry # None
  BY <1>1, <1>2, PartsAssumption DEF PathOf, StoredName
<1>4. x.expiry \in AnyParts
  BY <1>2, <1>3, PartsAssumption DEF Expiries, Stamps, AnyParts
<1>5. Suffix(PathOf(x).file) = x.expiry
  BY <1>2, <1>3, <1>4, AppendParts DEF PathOf, StoredName
<1>. QED
  BY <1>1, <1>3, <1>5, PartsAssumption

------------------------------------------------------------------------------
(* Types.                                                                  *)

Records ==
  [path : Paths, gen : Nat, owner : Owners \cup {None}, type : PasteTypes]

(* Where the handlers of each request may be.                              *)
PcsOf(op) ==
  CASE op = "none" -> {"idle"}
    [] op = "upload" ->
         {"find_owner_duplicate", "check_duplicate", "delete_stale", "glob_match",
          "store_password", "create_new", "insert_paste", "check_winner", "drop_winner",
          "remove_new_upload", "delete_password", "done"}
    [] op = "serve" ->
         {"find_pastes", "is_file", "has_password", "open", "consume", "delete_metadata",
          "done"}
    [] op = "delete" ->
         {"find_pastes", "is_file", "remove_file", "delete_password", "delete_paste", "done"}

Pcs == PcsOf("none") \cup PcsOf("upload") \cup PcsOf("serve") \cup PcsOf("delete")

RequestRecords ==
  [op : {"none", "upload", "serve", "delete"}, pc : Pcs,
   owner : Owners \cup {None}, name : UploadNames \cup {None}, type : Types \cup {None},
   expiry : Expiries, hash : Hashes \cup {None}, knows : BOOLEAN,
   rows : SUBSET Records, rec : Records \cup {None}, seen : Requests \cup {None},
   tries : Nat, status : Statuses]

(* The steps that use the record a query has returned.                     *)
HoldsRecord(x) ==
  \/ x.pc \in {"check_duplicate", "delete_stale", "check_winner", "drop_winner",
               "has_password", "open", "consume", "delete_metadata", "remove_file",
               "delete_paste"}
  \/ x.pc = "delete_password" /\ x.op = "delete"

GoodRequest(x) ==
  /\ x \in RequestRecords
  /\ x.pc \in PcsOf(x.op)
  /\ x.op = "upload" => UploadRecord(x) /\ x.owner \in Owners /\ x.hash \in Hashes
  /\ x.op \in {"serve", "delete"} => x.name \in UploadNames
  /\ x.op = "delete" => x.owner \in Owners
  /\ HoldsRecord(x) => x.rec \in Records

(* What a request asks for, which its handler does not change.             *)
SameRequest(x, y) ==
  /\ x.op = y.op /\ x.owner = y.owner /\ x.name = y.name /\ x.type = y.type
  /\ x.expiry = y.expiry /\ x.hash = y.hash /\ x.knows = y.knows

FileRecords == [by : Requests, kind : {"content", "hash"}]

Uploads == {u \in Requests : req[u].op = "upload"}

FileTypes ==
  \A p \in DOMAIN fs : p \in Locations /\ fs[p] \in FileRecords /\ fs[p].by \in Uploads

CleanerTypes ==
  /\ cleaner \in [pc : {"idle", "files", "sidecar", "orphans"}, todo : SUBSET Locations,
                  path : Locations \cup {None}]
  /\ cleaner.pc = "sidecar" => cleaner.path \in Locations

ScanTypes ==
  /\ scan = [dirs |-> scan.dirs, todo |-> scan.todo, found |-> scan.found,
             skipped |-> scan.skipped, kept |-> scan.kept]
  /\ \A p \in DOMAIN scan.found : scan.found[p] \in Hashes
  /\ scan.kept \subseteq Paths

StartTypes ==
  /\ server \in {"up", "scan", "reconcile"}
  /\ crashes \in Nat
  /\ server # "up" => PasswordExt \in Hashes
  /\ ScanTypes

RequestTypes == req \in [Requests -> RequestRecords] /\ \A r \in Requests : GoodRequest(req[r])

StateTypes ==
  /\ pastes \in Tables /\ gen \in Nat /\ now \in Nat
  /\ RequestTypes
  /\ FileTypes
  /\ fate = [r \in Requests |-> fate[r]]
  /\ CleanerTypes
  /\ StartTypes
  /\ expired \in Seq(Locations)

------------------------------------------------------------------------------
(* How a handler changes its request.                                      *)

Moved(r) ==
  /\ req' \in [Requests -> RequestRecords]
  /\ \A q \in Requests \ {r} : req'[q] = req[q]
  /\ SameRequest(req[r], req'[r])

RecordKept(r) == req'[r].rec = req[r].rec /\ req'[r].rows = req[r].rows

(* The other ways in which actions change a request.                       *)
SetStatus(r, status, pc) == req' = [req EXCEPT ![r].status = status, ![r].pc = pc]
SetSeen(r, u, pc) == req' = [req EXCEPT ![r].seen = u, ![r].pc = pc]
SetRecord(r, x, pc) == req' = [req EXCEPT ![r].pc = pc, ![r].rec = x]
TakeRecord(r, x, pc) == req' = [req EXCEPT ![r].rec = x, ![r].rows = {}, ![r].pc = pc]
SetRows(r, rows, pc) == req' = [req EXCEPT ![r].pc = pc, ![r].rows = rows]
CountTry(r, pc) == req' = [req EXCEPT ![r].tries = @ + 1, ![r].pc = pc]

(* One request changes.                                                    *)
LEMMA Update ==
  ASSUME RequestTypes, NEW r \in Requests, NEW y \in RequestRecords, SameRequest(req[r], y),
         req' = [req EXCEPT ![r] = y]
  PROVE  Moved(r) /\ req'[r] = y
BY DEF RequestTypes, Moved

(* Only the program counter changes.                                       *)
LEMMA GotoMoves ==
  ASSUME RequestTypes, NEW r \in Requests, NEW pc \in Pcs, Goto(r, pc)
  PROVE  /\ Moved(r) /\ RecordKept(r) /\ req'[r].pc = pc
         /\ req'[r].seen = req[r].seen /\ req'[r].status = req[r].status
<1> DEFINE x == req[r]
           y == [req[r] EXCEPT !.pc = pc]
<1>1. x \in RequestRecords /\ req' = [req EXCEPT ![r] = y]
  BY DEF RequestTypes, Goto
<1>2. y \in RequestRecords /\ SameRequest(x, y) /\ y.pc = pc /\ y.rec = x.rec
      /\ y.rows = x.rows /\ y.seen = x.seen /\ y.status = x.status
  BY <1>1 DEF RequestRecords, SameRequest
<1> HIDE DEF y
<1>. QED
  BY <1>1, <1>2, Update DEF RecordKept

(* The handler is done.                                                    *)
LEMMA ReplyMoves ==
  ASSUME RequestTypes, NEW r \in Requests, NEW status \in Statuses, Reply(r, status)
  PROVE  /\ Moved(r) /\ RecordKept(r) /\ req'[r].pc = "done"
         /\ req'[r].seen = req[r].seen /\ req'[r].status = status
<1> DEFINE x == req[r]
           y == [req[r] EXCEPT !.pc = "done", !.status = status]
<1>1. x \in RequestRecords /\ req' = [req EXCEPT ![r] = y]
  BY DEF RequestTypes, Reply
<1>2. y \in RequestRecords /\ y.pc = "done" /\ y.rec = x.rec
      /\ y.rows = x.rows /\ y.seen = x.seen /\ y.status = status
  <2>1. "done" \in Pcs
    BY DEF Pcs, PcsOf
  <2>. QED
    BY <1>1, <2>1 DEF RequestRecords
<1>3. SameRequest(x, y)
  BY <1>1 DEF RequestRecords, SameRequest
<1> HIDE DEF y
<1>. QED
  BY <1>1, <1>2, <1>3, Update DEF RecordKept

(* The answer is known, and something is left to be done.                  *)
LEMMA StatusMoves ==
  ASSUME RequestTypes, NEW r \in Requests, NEW status \in Statuses, NEW pc \in Pcs,
         SetStatus(r, status, pc)
  PROVE  /\ Moved(r) /\ RecordKept(r) /\ req'[r].pc = pc
         /\ req'[r].seen = req[r].seen /\ req'[r].status = status
<1> DEFINE x == req[r]
           y == [req[r] EXCEPT !.status = status, !.pc = pc]
<1>1. x \in RequestRecords /\ req' = [req EXCEPT ![r] = y]
  BY DEF RequestTypes, SetStatus
<1>2. y \in RequestRecords /\ SameRequest(x, y) /\ y.pc = pc /\ y.rec = x.rec
      /\ y.rows = x.rows /\ y.seen = x.seen /\ y.status = status
  BY <1>1 DEF RequestRecords, SameRequest
<1> HIDE DEF y
<1>. QED
  BY <1>1, <1>2, Update DEF RecordKept

(* The answer is a content.                                                *)
LEMMA AnswerMoves ==
  ASSUME RequestTypes, NEW r \in Requests, NEW u \in Requests, NEW pc \in Pcs, Answer(r, u, pc)
  PROVE  /\ Moved(r) /\ RecordKept(r) /\ req'[r].pc = pc
         /\ req'[r].seen = u /\ req'[r].status = "ok"
<1> DEFINE x == req[r]
           y == [req[r] EXCEPT !.status = "ok", !.seen = u, !.pc = pc]
<1>1. x \in RequestRecords /\ req' = [req EXCEPT ![r] = y]
  BY DEF RequestTypes, Answer
<1>2. y \in RequestRecords /\ SameRequest(x, y) /\ y.pc = pc /\ y.rec = x.rec
      /\ y.rows = x.rows /\ y.seen = u /\ y.status = "ok"
  BY <1>1 DEF RequestRecords, SameRequest, Statuses
<1> HIDE DEF y
<1>. QED
  BY <1>1, <1>2, Update DEF RecordKept

(* A one-shot content has been opened.                                     *)
LEMMA SeenMoves ==
  ASSUME RequestTypes, NEW r \in Requests, NEW u \in Requests, NEW pc \in Pcs,
         SetSeen(r, u, pc)
  PROVE  /\ Moved(r) /\ RecordKept(r) /\ req'[r].pc = pc
         /\ req'[r].seen = u /\ req'[r].status = req[r].status
<1> DEFINE x == req[r]
           y == [req[r] EXCEPT !.seen = u, !.pc = pc]
<1>1. x \in RequestRecords /\ req' = [req EXCEPT ![r] = y]
  BY DEF RequestTypes, SetSeen
<1>2. y \in RequestRecords /\ SameRequest(x, y) /\ y.pc = pc /\ y.rec = x.rec
      /\ y.rows = x.rows /\ y.seen = u /\ y.status = x.status
  BY <1>1 DEF RequestRecords, SameRequest
<1> HIDE DEF y
<1>. QED
  BY <1>1, <1>2, Update DEF RecordKept

(* The handler goes on with a record.                                      *)
LEMMA RecordMoves ==
  ASSUME RequestTypes, NEW r \in Requests, NEW x \in Records, NEW pc \in Pcs,
         SetRecord(r, x, pc)
  PROVE  /\ Moved(r) /\ req'[r].pc = pc /\ req'[r].rec = x
         /\ req'[r].seen = req[r].seen /\ req'[r].status = req[r].status
<1> DEFINE y == [req[r] EXCEPT !.pc = pc, !.rec = x]
<1>1. req[r] \in RequestRecords /\ req' = [req EXCEPT ![r] = y]
  BY DEF RequestTypes, SetRecord
<1>2. y \in RequestRecords /\ SameRequest(req[r], y) /\ y.pc = pc /\ y.rec = x
      /\ y.seen = req[r].seen /\ y.status = req[r].status
  BY <1>1 DEF RequestRecords, SameRequest
<1> HIDE DEF y
<1>. QED
  BY <1>1, <1>2, Update

(* The handler goes on with the first of its rows.                         *)
LEMMA FirstMoves ==
  ASSUME RequestTypes, NEW r \in Requests, NEW x \in Records, NEW pc \in Pcs,
         TakeRecord(r, x, pc)
  PROVE  /\ Moved(r) /\ req'[r].pc = pc /\ req'[r].rec = x /\ req'[r].rows = {}
         /\ req'[r].seen = req[r].seen /\ req'[r].status = req[r].status
<1> DEFINE y == [req[r] EXCEPT !.rec = x, !.rows = {}, !.pc = pc]
<1>1. req[r] \in RequestRecords /\ req' = [req EXCEPT ![r] = y]
  BY DEF RequestTypes, TakeRecord
<1>2. y \in RequestRecords /\ SameRequest(req[r], y) /\ y.pc = pc /\ y.rec = x
      /\ y.rows = {} /\ y.seen = req[r].seen /\ y.status = req[r].status
  BY <1>1 DEF RequestRecords, SameRequest
<1> HIDE DEF y
<1>. QED
  BY <1>1, <1>2, Update

(* The handler goes on with rows.                                          *)
LEMMA RowsMove ==
  ASSUME RequestTypes, NEW r \in Requests, NEW rows \in SUBSET Records, NEW pc \in Pcs,
         SetRows(r, rows, pc)
  PROVE  /\ Moved(r) /\ req'[r].pc = pc /\ req'[r].rec = req[r].rec /\ req'[r].rows = rows
         /\ req'[r].seen = req[r].seen /\ req'[r].status = req[r].status
<1> DEFINE x == req[r]
           y == [req[r] EXCEPT !.pc = pc, !.rows = rows]
<1>1. x \in RequestRecords /\ req' = [req EXCEPT ![r] = y]
  BY DEF RequestTypes, SetRows
<1>2. y \in RequestRecords /\ SameRequest(x, y) /\ y.pc = pc /\ y.rec = x.rec
      /\ y.rows = rows /\ y.seen = x.seen /\ y.status = x.status
  BY <1>1 DEF RequestRecords, SameRequest
<1> HIDE DEF y
<1>. QED
  BY <1>1, <1>2, Update

(* The handler tries again.                                                *)
LEMMA TriesMove ==
  ASSUME RequestTypes, NEW r \in Requests, NEW pc \in Pcs,
         CountTry(r, pc)
  PROVE  /\ Moved(r) /\ RecordKept(r) /\ req'[r].pc = pc
         /\ req'[r].seen = req[r].seen /\ req'[r].status = req[r].status
<1> DEFINE x == req[r]
           n == x.tries + 1
           y == [req[r] EXCEPT !.tries = n, !.pc = pc]
<1>1. x \in RequestRecords /\ n \in Nat /\ req \in [Requests -> RequestRecords]
  BY DEF RequestTypes, RequestRecords
<1>2. x \in RequestRecords /\ req' = [req EXCEPT ![r] = y]
  BY <1>1 DEF CountTry
<1> HIDE DEF n
<1>3. y \in RequestRecords /\ SameRequest(x, y) /\ y.pc = pc /\ y.rec = x.rec
      /\ y.rows = x.rows /\ y.seen = x.seen /\ y.status = x.status
  BY <1>1 DEF RequestRecords, SameRequest
<1> HIDE DEF y
<1>. QED
  BY <1>2, <1>3, Update DEF RecordKept

(* The program counter tells what kind of request it is.                   *)
LEMMA OpOfPc ==
  ASSUME NEW x, GoodRequest(x)
  PROVE  /\ x.pc \in {"find_owner_duplicate", "check_duplicate", "delete_stale", "glob_match",
                      "store_password", "create_new", "insert_paste", "check_winner",
                      "drop_winner", "remove_new_upload"} => x.op = "upload"
         /\ x.pc \in {"has_password", "open", "consume", "delete_metadata"} => x.op = "serve"
         /\ x.pc \in {"remove_file", "delete_paste"} => x.op = "delete"
         /\ x.pc \in {"find_pastes", "is_file"} => x.op \in {"serve", "delete"}
         /\ x.pc = "delete_password" => x.op \in {"upload", "delete"}
         /\ x.op = "none" <=> x.pc = "idle"
BY DEF GoodRequest, RequestRecords, PcsOf

(* The uploads that have yet to create their content.                      *)
IsCreating(x) ==
  \/ x.pc \in {"glob_match", "store_password", "create_new"}
  \/ /\ x.pc \in {"find_owner_duplicate", "check_duplicate", "delete_stale"}
     /\ x.type # "remote_file"

(* What every step of a handler leaves of its request.                     *)
Handled(r) ==
  /\ Moved(r)
  /\ GoodRequest(req'[r])
  /\ req[r].op # "none"
  /\ IsCreating(req'[r]) => IsCreating(req[r])

(* A request stays good if its program counter does.                       *)
LEMMA HandledWell ==
  ASSUME RequestTypes, NEW r \in Requests, Moved(r), req[r].op # "none",
         req'[r].pc \in PcsOf(req[r].op),
         HoldsRecord(req'[r]) => req'[r].rec \in Records,
         IsCreating(req'[r]) => IsCreating(req[r])
  PROVE  Handled(r)
<1>1. req'[r] \in RequestRecords /\ GoodRequest(req[r]) /\ SameRequest(req[r], req'[r])
  BY DEF Moved, RequestTypes
<1>. QED
  BY <1>1 DEF Handled, GoodRequest, SameRequest, UploadRecord

(* A handler that keeps its record may go on using it.                     *)
LEMMA KeptRecord ==
  ASSUME RequestTypes, NEW r \in Requests, Moved(r), RecordKept(r), req[r].op # "none",
         req'[r].pc \in PcsOf(req[r].op),
         HoldsRecord(req'[r]) => HoldsRecord(req[r]),
         IsCreating(req'[r]) => IsCreating(req[r])
  PROVE  Handled(r)
BY HandledWell DEF RequestTypes, GoodRequest, RecordKept

(* The record a query returns of a row.                                    *)
LEMMA RecordType ==
  ASSUME pastes \in Tables, NEW p \in Present(pastes)
  PROVE  /\ RecordAt(p) \in Records
         /\ RecordAt(p).path = p /\ RecordAt(p).owner = pastes[p].owner
         /\ RecordAt(p).type = pastes[p].type
BY DEF RecordAt, Records, Present, Tables, Rows

(* Uploads, up to the file.                                                *)
LEMMA UploadsHandled ==
  ASSUME StateTypes, NEW r \in Requests,
         \/ FindOwnerDuplicate(r) \/ CheckDuplicate(r) \/ DeleteStale(r)
         \/ GlobMatch(r) \/ StorePassword(r) \/ CreateContent(r)
  PROVE  Handled(r)
<1>1. RequestTypes /\ req[r] \in RequestRecords /\ GoodRequest(req[r])
  BY DEF StateTypes, RequestTypes
<1>2. req[r].op = "upload"
  BY <1>1, OpOfPc DEF FindOwnerDuplicate, CheckDuplicate, DeleteStale, GlobMatch,
                      StorePassword, CreateContent, At
<1>3. {"error", "conflict", "ok"} \subseteq Statuses /\ PcsOf("upload") \subseteq Pcs
  BY DEF Statuses, Pcs
<1> DEFINE next == AfterCheck(r)
<1>4. next \in {"insert_paste", "create_new", "glob_match"} /\ next \in PcsOf("upload")
      /\ (next # "insert_paste" => req[r].type # "remote_file")
  BY DEF AfterCheck, StoreStep, PcsOf
<1>5. "done" \in PcsOf("upload")
  BY DEF PcsOf
<1>6. CASE FindOwnerDuplicate(r)
  <2>1. CASE Goto(r, next)
    BY <1>1, <1>2, <1>3, <1>4, <1>6, <2>1, GotoMoves, KeptRecord
       DEF HoldsRecord, IsCreating, FindOwnerDuplicate, At
  <2>2. CASE Reply(r, "error")
    BY <1>1, <1>2, <1>3, <1>5, <2>2, ReplyMoves, KeptRecord DEF HoldsRecord, IsCreating
  <2>3. CASE \E p \in OwnerDuplicates(req[r].owner, req[r].hash) :
               req' = [req EXCEPT ![r].pc = "check_duplicate", ![r].rec = RecordAt(p)]
    <3>1. PICK x \in Records : SetRecord(r, x, "check_duplicate")
      BY <2>3, RecordType DEF OwnerDuplicates, StateTypes, SetRecord
    <3>2. "check_duplicate" \in PcsOf("upload") /\ "check_duplicate" \in Pcs
      BY DEF PcsOf, Pcs
    <3>3. Moved(r) /\ req'[r].pc = "check_duplicate" /\ req'[r].rec \in Records
      BY <1>1, <1>3, <3>1, <3>2, RecordMoves
    <3>. QED
      BY <1>1, <1>2, <1>6, <3>2, <3>3, HandledWell
         DEF IsCreating, FindOwnerDuplicate, At, Moved, SameRequest
  <2>. QED
    BY <1>6, <2>1, <2>2, <2>3 DEF FindOwnerDuplicate
<1>7. CASE CheckDuplicate(r)
  <2> DEFINE last == IF req[r].type = "remote_file" THEN "remove_new_upload" ELSE "done"
             p == req[r].rec.path
  <2>1. last \in PcsOf("upload") /\ "delete_stale" \in PcsOf("upload")
    BY DEF PcsOf
  <2>2. CASE Goto(r, "delete_stale")
    BY <1>1, <1>2, <1>3, <1>7, <2>1, <2>2, GotoMoves, KeptRecord
       DEF HoldsRecord, IsCreating, CheckDuplicate, At, Moved, SameRequest
  <2>3. CASE Goto(r, next)
    BY <1>1, <1>2, <1>3, <1>4, <1>7, <2>3, GotoMoves, KeptRecord
       DEF HoldsRecord, IsCreating, CheckDuplicate, At
  <2>4. CASE IsFile(p) /\ Answer(r, fs[p].by, last)
    <3>1. fs[p].by \in Requests
      BY <2>4 DEF StateTypes, FileTypes, FileRecords, IsFile
    <3>2. Moved(r) /\ RecordKept(r) /\ req'[r].pc = last
      BY <1>1, <1>3, <2>1, <2>4, <3>1, AnswerMoves
    <3>. QED
      BY <1>1, <1>2, <2>1, <3>2, KeptRecord DEF HoldsRecord, IsCreating, Moved, SameRequest
  <2>. QED
    BY <1>7, <2>2, <2>3, <2>4 DEF CheckDuplicate
<1>8. CASE DeleteStale(r)
  <2>1. CASE Goto(r, next)
    BY <1>1, <1>2, <1>3, <1>4, <1>8, <2>1, GotoMoves, KeptRecord
       DEF HoldsRecord, IsCreating, DeleteStale, At
  <2>2. CASE Reply(r, "error")
    BY <1>1, <1>2, <1>3, <1>5, <2>2, ReplyMoves, KeptRecord DEF HoldsRecord, IsCreating
  <2>. QED
    BY <1>8, <2>1, <2>2 DEF DeleteStale
<1>9. CASE GlobMatch(r)
  <2> DEFINE first == IF req[r].type = "protected_file" THEN "store_password" ELSE "create_new"
  <2>1. first \in PcsOf("upload") /\ first \in {"store_password", "create_new"}
    BY DEF PcsOf
  <2>2. CASE Goto(r, first)
    BY <1>1, <1>2, <1>3, <1>9, <2>1, <2>2, GotoMoves, KeptRecord
       DEF HoldsRecord, IsCreating, GlobMatch, At
  <2>3. CASE Reply(r, "conflict")
    BY <1>1, <1>2, <1>3, <1>5, <2>3, ReplyMoves, KeptRecord DEF HoldsRecord, IsCreating
  <2>. QED
    BY <1>9, <2>2, <2>3 DEF GlobMatch
<1>10. CASE StorePassword(r)
  <2>1. "create_new" \in PcsOf("upload")
    BY DEF PcsOf
  <2>2. CASE Goto(r, "create_new")
    BY <1>1, <1>2, <1>3, <1>10, <2>1, <2>2, GotoMoves, KeptRecord
       DEF HoldsRecord, IsCreating, StorePassword, At
  <2>3. CASE Reply(r, "conflict")
    BY <1>1, <1>2, <1>3, <1>5, <2>3, ReplyMoves, KeptRecord DEF HoldsRecord, IsCreating
  <2>. QED
    BY <1>10, <2>2, <2>3 DEF StorePassword
<1>11. CASE CreateContent(r)
  <2> DEFINE after == IF req[r].type = "remote_file" /\ Deduplicate /\ req[r].expiry = None
                      THEN "find_owner_duplicate" ELSE "insert_paste"
  <2>1. /\ after \in PcsOf("upload") /\ after \in {"find_owner_duplicate", "insert_paste"}
        /\ "delete_password" \in PcsOf("upload")
    BY DEF PcsOf
  <2>2. CASE Goto(r, after)
    BY <1>1, <1>2, <1>3, <1>11, <2>1, <2>2, GotoMoves, KeptRecord
       DEF HoldsRecord, IsCreating, CreateContent, At
  <2>3. CASE Reply(r, "conflict")
    BY <1>1, <1>2, <1>3, <1>5, <2>3, ReplyMoves, KeptRecord DEF HoldsRecord, IsCreating
  <2>4. CASE req' = [req EXCEPT ![r].status = "conflict", ![r].pc = "delete_password"]
    <3>1. SetStatus(r, "conflict", "delete_password")
      BY <2>4 DEF SetStatus
    <3>2. Moved(r) /\ RecordKept(r) /\ req'[r].pc = "delete_password"
      BY <1>1, <1>3, <2>1, <3>1, StatusMoves
    <3>. QED
      BY <1>1, <1>2, <2>1, <3>2, KeptRecord DEF HoldsRecord, IsCreating, Moved, SameRequest
  <2>. QED
    BY <1>11, <2>2, <2>3, <2>4 DEF CreateContent
<1>. QED
  BY <1>6, <1>7, <1>8, <1>9, <1>10, <1>11

(* Uploads, from the row on.                                               *)
LEMMA InsertsHandled ==
  ASSUME StateTypes, NEW r \in Requests,
         \/ PersistPasteMetadata(r) \/ CheckWinner(r) \/ DropWinner(r)
         \/ RemoveNewUpload(r) \/ DeletePassword(r)
  PROVE  Handled(r)
<1>1. RequestTypes /\ req[r] \in RequestRecords /\ GoodRequest(req[r])
  BY DEF StateTypes, RequestTypes
<1>2. /\ ~DeletePassword(r) => req[r].op = "upload"
      /\ DeletePassword(r) => req[r].op \in {"upload", "delete"}
  BY <1>1, OpOfPc DEF PersistPasteMetadata, CheckWinner, DropWinner, RemoveNewUpload,
                      DeletePassword, At
<1>3. {"error", "conflict", "ok", "database"} \subseteq Statuses
      /\ PcsOf("upload") \cup PcsOf("delete") \subseteq Pcs
  BY DEF Statuses, Pcs
<1>4. /\ {"done", "check_winner", "insert_paste", "drop_winner", "remove_new_upload",
          "delete_password"} \subseteq PcsOf("upload")
      /\ "delete_paste" \in PcsOf("delete")
  BY DEF PcsOf
<1>5. ASSUME NEW status \in Statuses, Rollback(r, status), req[r].op = "upload"
      PROVE  Handled(r)
  <2>1. /\ "remove_new_upload" \in Pcs
        /\ SetStatus(r, status, "remove_new_upload")
    BY <1>3, <1>4, <1>5 DEF Rollback, SetStatus
  <2>2. Moved(r) /\ RecordKept(r) /\ req'[r].pc = "remove_new_upload"
    BY <1>1, <1>5, <2>1, StatusMoves
  <2>. QED
    BY <1>1, <1>4, <1>5, <2>2, KeptRecord DEF HoldsRecord, IsCreating
<1>6. CASE PersistPasteMetadata(r)
  <2> DEFINE dedup == Deduplicate /\ MayDeduplicate(req[r])
             result == IF dedup THEN InsertPasteDeduplicated(pastes, req[r], gen, Seconds(now))
                                ELSE InsertPaste(pastes, req[r], gen, Seconds(now))
  <2>1. result.result \in {"inserted", "duplicate", "conflict", "database"}
    BY InsertResults
  <2>2. CASE Answer(r, r, "done")
    <3>1. Moved(r) /\ RecordKept(r) /\ req'[r].pc = "done"
      BY <1>1, <1>3, <1>4, <2>2, AnswerMoves
    <3>. QED
      BY <1>1, <1>2, <1>4, <1>6, <3>1, KeptRecord
         DEF HoldsRecord, IsCreating, PersistPasteMetadata, DeletePassword, At
  <2>3. CASE \E p \in DedupHolders(pastes, req[r].owner, DedupKey(req[r])) :
               req' = [req EXCEPT ![r].pc = "check_winner", ![r].rec = RecordAt(p)]
    <3>1. PICK x \in Records : SetRecord(r, x, "check_winner")
      BY <2>3, RecordType DEF DedupHolders, StateTypes, SetRecord
    <3>2. "check_winner" \in Pcs
      BY <1>3, <1>4
    <3>3. Moved(r) /\ req'[r].pc = "check_winner" /\ req'[r].rec \in Records
      BY <1>1, <3>1, <3>2, RecordMoves
    <3>. QED
      BY <1>1, <1>2, <1>4, <1>6, <3>3, HandledWell
         DEF HoldsRecord, IsCreating, PersistPasteMetadata, DeletePassword, At
  <2>4. CASE \E status \in {result.result, "error"} :
               status \in Statuses /\ Rollback(r, status)
    BY <1>2, <1>5, <1>6, <2>4 DEF PersistPasteMetadata, DeletePassword, At
  <2>. QED
    BY <1>3, <1>6, <2>1, <2>2, <2>3, <2>4 DEF PersistPasteMetadata
<1>7. CASE CheckWinner(r)
  <2> DEFINE p == req[r].rec.path
  <2>1. req[r].op = "upload"
    BY <1>1, <1>7, OpOfPc DEF CheckWinner, At
  <2>2. CASE IsFile(p) /\ Answer(r, fs[p].by, "remove_new_upload")
    <3>1. fs[p].by \in Requests
      BY <2>2 DEF StateTypes, FileTypes, FileRecords, IsFile
    <3>2. Moved(r) /\ RecordKept(r) /\ req'[r].pc = "remove_new_upload"
      BY <1>1, <1>3, <1>4, <2>2, <3>1, AnswerMoves
    <3>. QED
      BY <1>1, <1>4, <2>1, <3>2, KeptRecord DEF HoldsRecord, IsCreating
  <2>3. CASE Goto(r, "drop_winner")
    <3>1. Moved(r) /\ RecordKept(r) /\ req'[r].pc = "drop_winner"
      BY <1>1, <1>3, <1>4, <2>3, GotoMoves
    <3>. QED
      BY <1>1, <1>4, <1>7, <2>1, <3>1, KeptRecord DEF HoldsRecord, IsCreating, CheckWinner, At
  <2>. QED
    BY <1>7, <2>2, <2>3 DEF CheckWinner
<1>8. CASE DropWinner(r)
  <2>1. req[r].op = "upload"
    BY <1>1, <1>8, OpOfPc DEF DropWinner, At
  <2>2. CASE req' = [req EXCEPT ![r].tries = @ + 1, ![r].pc = "insert_paste"]
    <3>1. CountTry(r, "insert_paste")
      BY <2>2 DEF CountTry
    <3>2. Moved(r) /\ RecordKept(r) /\ req'[r].pc = "insert_paste"
      BY <1>1, <1>3, <1>4, <3>1, TriesMove
    <3>. QED
      BY <1>1, <1>4, <2>1, <3>2, KeptRecord DEF HoldsRecord, IsCreating
  <2>3. CASE Rollback(r, "error")
    BY <1>3, <1>5, <2>1, <2>3
  <2>. QED
    BY <1>8, <2>2, <2>3 DEF DropWinner
<1>9. CASE RemoveNewUpload(r)
  <2>1. req[r].op = "upload"
    BY <1>1, <1>9, OpOfPc DEF RemoveNewUpload, At
  <2>2. Moved(r) /\ RecordKept(r) /\ req'[r].pc = "delete_password"
    BY <1>1, <1>3, <1>4, <1>9, GotoMoves DEF RemoveNewUpload
  <2>. QED
    BY <1>1, <1>4, <2>1, <2>2, KeptRecord DEF HoldsRecord, IsCreating, Moved, SameRequest
<1>10. CASE DeletePassword(r)
  <2>1. req[r].op \in {"upload", "delete"} /\ req[r].pc = "delete_password"
    BY <1>1, <1>10, OpOfPc DEF DeletePassword, At
  <2>2. CASE req[r].op = "upload"
    <3>1. Moved(r) /\ RecordKept(r) /\ req'[r].pc = "done"
      BY <1>1, <1>3, <1>4, <1>10, <2>2, GotoMoves DEF DeletePassword
    <3>. QED
      BY <1>1, <1>4, <2>2, <3>1, KeptRecord DEF HoldsRecord, IsCreating
  <2>3. CASE req[r].op = "delete"
    <3>1. Moved(r) /\ RecordKept(r) /\ req'[r].pc = "delete_paste"
      BY <1>1, <1>3, <1>4, <1>10, <2>3, GotoMoves DEF DeletePassword
    <3>. QED
      BY <1>1, <1>4, <2>1, <2>3, <3>1, KeptRecord DEF HoldsRecord, IsCreating
  <2>. QED
    BY <2>1, <2>2, <2>3
<1>. QED
  BY <1>6, <1>7, <1>8, <1>9, <1>10

(* Downloads and deletions, up to the authorisation.                       *)
LEMMA LookupsHandled ==
  ASSUME StateTypes, NEW r \in Requests,
         FindPastes(r) \/ IsFileStep(r)
  PROVE  Handled(r) /\ req[r].op \in {"serve", "delete"}
<1>1. RequestTypes /\ req[r] \in RequestRecords /\ GoodRequest(req[r])
  BY DEF StateTypes, RequestTypes
<1>2. req[r].op \in {"serve", "delete"}
  BY <1>1, OpOfPc DEF FindPastes, IsFileStep, At
<1>3. /\ {"not_found", "forbidden"} \subseteq Statuses
      /\ {"is_file", "done"} \subseteq PcsOf("serve") \cap PcsOf("delete")
      /\ "remove_file" \in PcsOf("delete") /\ "has_password" \in PcsOf("serve")
      /\ PcsOf("serve") \cup PcsOf("delete") \subseteq Pcs
  BY DEF Statuses, Pcs, PcsOf
<1>4. CASE FindPastes(r)
  <2> DEFINE rows == {RecordAt(p) : p \in RowsByPublicName(pastes, req[r].name, Seconds(now))}
  <2>1. rows \in SUBSET Records
    BY RecordType DEF RowsByPublicName, StateTypes
  <2>2. SetRows(r, rows, "is_file")
    BY <1>4 DEF FindPastes, SetRows
  <2> HIDE DEF rows
  <2>3. "is_file" \in Pcs
    BY <1>3
  <2>4. Moved(r) /\ req'[r].pc = "is_file"
    BY <1>1, <2>1, <2>2, <2>3, RowsMove
  <2>. QED
    BY <1>1, <1>2, <1>3, <2>4, HandledWell DEF HoldsRecord, IsCreating
<1>5. CASE IsFileStep(r)
  <2>1. CASE Reply(r, "not_found") \/ Reply(r, "forbidden")
    <3>1. Moved(r) /\ RecordKept(r) /\ req'[r].pc = "done"
      BY <1>1, <1>3, <2>1, ReplyMoves
    <3>. QED
      BY <1>1, <1>2, <1>3, <3>1, KeptRecord DEF HoldsRecord, IsCreating
  <2>2. CASE \E x \in FirstFile(req[r].rows) :
               req' = [req EXCEPT ![r].rec = x, ![r].rows = {},
                         ![r].pc = IF req[r].op = "delete" THEN "remove_file"
                                                           ELSE "has_password"]
    <3> DEFINE next == IF req[r].op = "delete" THEN "remove_file" ELSE "has_password"
    <3>1. PICK x \in req[r].rows : TakeRecord(r, x, next)
      BY <2>2 DEF FirstFile, TakeRecord
    <3>2. x \in Records
      BY <1>1 DEF RequestRecords
    <3>3. next \in PcsOf(req[r].op) /\ next \in Pcs /\ next \in {"remove_file", "has_password"}
      BY <1>2, <1>3
    <3> HIDE DEF next
    <3>4. Moved(r) /\ req'[r].pc = next /\ req'[r].rec \in Records
      BY <1>1, <3>1, <3>2, <3>3, FirstMoves
    <3>. QED
      BY <1>1, <1>2, <3>3, <3>4, HandledWell DEF IsCreating
  <2>. QED
    BY <1>5, <2>1, <2>2 DEF IsFileStep
<1>. QED
  BY <1>2, <1>4, <1>5

(* Downloads.                                                              *)
LEMMA DownloadsHandled ==
  ASSUME StateTypes, NEW r \in Requests,
         HasPassword(r) \/ Open(r) \/ Consume(r) \/ DeleteMetadata(r)
  PROVE  Handled(r) /\ RecordKept(r) /\ req[r].op = "serve"
<1>1. RequestTypes /\ req[r] \in RequestRecords /\ GoodRequest(req[r])
  BY DEF StateTypes, RequestTypes
<1>2. req[r].op = "serve" /\ HoldsRecord(req[r])
  BY <1>1, OpOfPc DEF HasPassword, Open, Consume, DeleteMetadata, At, HoldsRecord
<1>3. /\ {"not_found", "error", "ok"} \subseteq Statuses
      /\ {"open", "consume", "delete_metadata", "done"} \subseteq PcsOf("serve")
      /\ PcsOf("serve") \subseteq Pcs
  BY DEF Statuses, Pcs, PcsOf
<1>4. ASSUME NEW pc \in PcsOf("serve"), Moved(r), RecordKept(r), req'[r].pc = pc
      PROVE  Handled(r)
  <2>1. ~IsCreating(req'[r])
    BY <1>4 DEF IsCreating, PcsOf
  <2>. QED
    BY <1>1, <1>2, <1>4, <2>1, KeptRecord
<1>5. ASSUME NEW status \in {"not_found", "error", "ok"}, Reply(r, status)
      PROVE  Moved(r) /\ RecordKept(r) /\ req'[r].pc = "done"
  <2>1. status \in Statuses
    BY <1>3
  <2>. QED
    BY <1>1, <1>5, <2>1, ReplyMoves
<1>6. ASSUME NEW pc \in {"open", "delete_metadata"}, Goto(r, pc)
      PROVE  Moved(r) /\ RecordKept(r) /\ req'[r].pc = pc
  <2>1. pc \in Pcs
    BY <1>3
  <2>. QED
    BY <1>1, <1>6, <2>1, GotoMoves
<1>7. ASSUME Open(r), IsFile(req[r].rec.path)
      PROVE  fs[req[r].rec.path].by \in Requests
  BY <1>7 DEF StateTypes, FileTypes, FileRecords, IsFile
<1>8. CASE Open(r)
  <2> DEFINE u == fs[req[r].rec.path].by
  <2>1. CASE Reply(r, "error")
    BY <1>2, <1>3, <1>4, <1>5, <2>1
  <2>2. CASE u \in Requests /\ SetSeen(r, u, "consume")
    <3>1. Moved(r) /\ RecordKept(r) /\ req'[r].pc = "consume"
      BY <1>1, <1>3, <2>2, SeenMoves
    <3>. QED
      BY <1>2, <1>3, <1>4, <3>1
  <2>3. CASE u \in Requests /\ Answer(r, u, "done")
    <3>1. Moved(r) /\ RecordKept(r) /\ req'[r].pc = "done"
      BY <1>1, <1>3, <2>3, AnswerMoves
    <3>. QED
      BY <1>2, <1>3, <1>4, <3>1
  <2>. QED
    BY <1>7, <1>8, <2>1, <2>2, <2>3 DEF Open, SetSeen
<1>9. CASE HasPassword(r)
  BY <1>2, <1>3, <1>4, <1>5, <1>6, <1>9 DEF HasPassword
<1>10. CASE Consume(r)
  BY <1>2, <1>3, <1>4, <1>5, <1>6, <1>10 DEF Consume
<1>11. CASE DeleteMetadata(r)
  BY <1>2, <1>3, <1>4, <1>5, <1>11 DEF DeleteMetadata
<1>. QED
  BY <1>8, <1>9, <1>10, <1>11

(* Deletions.                                                              *)
LEMMA DeletionsHandled ==
  ASSUME StateTypes, NEW r \in Requests, RemovePasteFile(r) \/ DeleteRow(r)
  PROVE  Handled(r) /\ RecordKept(r) /\ req[r].op = "delete"
<1>1. RequestTypes /\ req[r] \in RequestRecords /\ GoodRequest(req[r])
  BY DEF StateTypes, RequestTypes
<1>2. req[r].op = "delete" /\ HoldsRecord(req[r])
  BY <1>1, OpOfPc DEF RemovePasteFile, DeleteRow, At, HoldsRecord
<1>3. /\ {"error", "ok"} \subseteq Statuses
      /\ {"delete_password", "done"} \subseteq PcsOf("delete")
      /\ PcsOf("delete") \subseteq Pcs
  BY DEF Statuses, Pcs, PcsOf
<1>4. ASSUME NEW pc \in PcsOf("delete"), Moved(r), RecordKept(r), req'[r].pc = pc
      PROVE  Handled(r)
  <2>1. ~IsCreating(req'[r])
    BY <1>4 DEF IsCreating, PcsOf
  <2>. QED
    BY <1>1, <1>2, <1>4, <2>1, KeptRecord
<1>5. ASSUME NEW status \in {"error", "ok"}, Reply(r, status)
      PROVE  Moved(r) /\ RecordKept(r) /\ req'[r].pc = "done"
  <2>1. status \in Statuses
    BY <1>3
  <2>. QED
    BY <1>1, <1>5, <2>1, ReplyMoves
<1>6. ASSUME Goto(r, "delete_password")
      PROVE  Moved(r) /\ RecordKept(r) /\ req'[r].pc = "delete_password"
  <2>1. "delete_password" \in Pcs
    BY <1>3
  <2>. QED
    BY <1>1, <1>6, <2>1, GotoMoves
<1>. QED
  BY <1>2, <1>3, <1>4, <1>5, <1>6 DEF RemovePasteFile, DeleteRow

(* Every step of a handler is about its own request, and keeps it good.    *)
LEMMA StepsHandle ==
  ASSUME StateTypes, NEW r \in Requests, Step(r)
  PROVE  Handled(r)
BY UploadsHandled, InsertsHandled, LookupsHandled, DownloadsHandled, DeletionsHandled DEF Step

(* Only permanent pastes are looked for, where duplicates are not wanted.   *)
Checked(x) ==
  x.pc \in {"find_owner_duplicate", "check_duplicate", "delete_stale"} =>
    Deduplicate /\ x.expiry = None

(* Requests that arrive: nothing of it was there before.                   *)
Arrived(r) ==
  /\ req' \in [Requests -> RequestRecords]
  /\ \A q \in Requests \ {r} : req'[q] = req[q]
  /\ req[r].op = "none" /\ GoodRequest(req'[r])
  /\ ~HoldsRecord(req'[r]) /\ req'[r].rows = {}
  /\ req'[r].op = "upload" => (FreshNames => req'[r].name \notin UsedNames)
  /\ req'[r].op # "upload" => req'[r].op \in {"serve", "delete"} /\ req'[r].name \in UsedNames
  /\ req'[r].pc # "done" /\ req'[r].status = None /\ req'[r].seen = None
  /\ req'[r].op = "upload" => IsCreating(req'[r]) /\ Checked(req'[r])

(* What a request is made from.                                            *)
LEMMA EmptyRequest ==
  /\ NoRequest \in RequestRecords
  /\ NoRequest.pc = "idle" /\ NoRequest.op = "none" /\ NoRequest.rows = {}
  /\ NoRequest.status = None /\ NoRequest.seen = None
BY DEF NoRequest, RequestRecords, Statuses, Pcs, PcsOf, Expiries

(* An arrival comes to a running server and changes nothing but requests.  *)
LEMMA ArrivalsAreGood ==
  ASSUME StateTypes, NEW r \in Requests, Arrival(r)
  PROVE  /\ Arrived(r)
         /\ UNCHANGED <<pastes, gen, fs, fate, now, server, scan, cleaner,
                        expired, crashes, faults>>
         /\ server = "up"
<1>1. RequestTypes /\ req \in [Requests -> RequestRecords] /\ GoodRequest(req[r])
  BY DEF StateTypes, RequestTypes
<1>2. ASSUME NEW owner \in Owners, NEW name \in UploadNames, NEW type \in Types,
             NEW expiry \in Expiries, NEW hash \in Hashes \ {PasswordExt},
             ArriveUpload(r, owner, name, type, expiry, hash)
      PROVE  Arrived(r) /\ Arrive(r)
  <2> DEFINE new == [NoRequest EXCEPT !.op = "upload", !.owner = owner, !.name = name,
                                      !.type = type, !.expiry = expiry, !.hash = hash]
             pc == IF Deduplicate /\ MayDeduplicate(new) /\ type # "remote_file"
                   THEN "find_owner_duplicate" ELSE StoreStep(type)
             y == [new EXCEPT !.pc = pc]
  <2>1. req' = [req EXCEPT ![r] = [new EXCEPT !.pc = pc]] /\ Arrive(r)
        /\ (FreshNames => name \notin UsedNames)
    BY <1>2 DEF ArriveUpload
  <2>2. pc \in {"find_owner_duplicate", "create_new", "glob_match"}
    BY DEF StoreStep
  <2> HIDE DEF pc
  <2>3. pc \in PcsOf("upload") /\ pc \in Pcs
    BY <2>2 DEF PcsOf, Pcs
  <2>4. new \in RequestRecords /\ new.op = "upload" /\ new.name = name /\ new.owner = owner
        /\ new.type = type /\ new.expiry = expiry /\ new.hash = hash /\ new.rows = {}
        /\ new.status = None /\ new.seen = None
    BY EmptyRequest DEF RequestRecords
  <2>11. pc = "find_owner_duplicate" => Deduplicate /\ expiry = None /\ type # "remote_file"
    BY <2>4 DEF pc, StoreStep, MayDeduplicate
  <2> HIDE DEF new
  <2>5. y \in RequestRecords /\ y.pc = pc /\ y.op = "upload" /\ y.name = name
        /\ y.owner = owner /\ y.type = type /\ y.expiry = expiry /\ y.hash = hash /\ y.rows = {}
        /\ y.status = None /\ y.seen = None
    BY <2>3, <2>4 DEF RequestRecords
  <2>6. req' = [req EXCEPT ![r] = y]
    BY <2>1
  <2> HIDE DEF y
  <2>7. GoodRequest(y) /\ ~HoldsRecord(y)
    BY <2>2, <2>3, <2>5 DEF GoodRequest, HoldsRecord, UploadRecord
  <2>8. y.op = "upload" /\ y.name = name /\ y.rows = {} /\ y.pc # "done"
        /\ y.status = None /\ y.seen = None /\ IsCreating(y) /\ Checked(y)
    BY <2>2, <2>5, <2>11 DEF IsCreating, Checked
  <2> HIDE DEF y
  <2>9. req'[r] = y /\ req' \in [Requests -> RequestRecords]
        /\ \A q \in Requests \ {r} : req'[q] = req[q]
    BY <1>1, <2>5, <2>6
  <2>10. req[r].op = "none"
    BY <1>1, <2>1, OpOfPc DEF Arrive
  <2>. QED
    BY <2>1, <2>7, <2>8, <2>9, <2>10 DEF Arrived
<1>3. ASSUME NEW op \in {"serve", "delete"}, NEW owner \in Owners \cup {None},
             NEW name \in UsedNames, NEW knows \in BOOLEAN, op = "delete" => owner \in Owners,
             ArriveOther(r, op, owner, name, knows)
      PROVE  Arrived(r) /\ Arrive(r)
  <2> DEFINE y == [NoRequest EXCEPT !.op = op, !.owner = owner, !.name = name,
                                    !.knows = knows, !.pc = "find_pastes"]
  <2>1. req' = [req EXCEPT ![r] = [NoRequest EXCEPT !.op = op, !.owner = owner, !.name = name,
                                     !.knows = knows, !.pc = "find_pastes"]] /\ Arrive(r)
    BY <1>3 DEF ArriveOther
  <2>2. name \in UploadNames
    BY DEF UsedNames, StateTypes, RequestTypes, GoodRequest, UploadRecord
  <2>3. "find_pastes" \in PcsOf(op) /\ "find_pastes" \in Pcs
    BY <1>3 DEF PcsOf, Pcs
  <2>4. y \in RequestRecords /\ y.pc = "find_pastes" /\ y.op = op /\ y.name = name
        /\ y.owner = owner /\ y.rows = {} /\ y.status = None /\ y.seen = None
    BY <1>3, <2>2, <2>3, EmptyRequest DEF RequestRecords
  <2>5. req' = [req EXCEPT ![r] = y]
    BY <2>1
  <2> HIDE DEF y
  <2>6. GoodRequest(y) /\ ~HoldsRecord(y)
    BY <1>3, <2>2, <2>3, <2>4 DEF GoodRequest, HoldsRecord
  <2>7. y.op = op /\ y.name = name /\ y.rows = {} /\ y.pc # "done"
        /\ y.status = None /\ y.seen = None
    BY <2>4
  <2>8. req'[r] = y /\ req' \in [Requests -> RequestRecords]
        /\ \A q \in Requests \ {r} : req'[q] = req[q]
    BY <1>1, <2>4, <2>5
  <2>9. req[r].op = "none"
    BY <1>1, <2>1, OpOfPc DEF Arrive
  <2>. QED
    BY <1>3, <2>1, <2>6, <2>7, <2>8, <2>9 DEF Arrived
<1>4. Arrived(r) /\ Arrive(r)
  BY <1>2, <1>3 DEF Arrival, Knowledge
<1>. QED
  BY <1>4 DEF Arrive, UnchangedTable, UnchangedDisk, UnchangedProcess

(* What a crash does to a request.                                         *)
LostOrKept(x, y) ==
  \/ y = x
  \/ /\ x.pc \notin {"idle", "done"}
     /\ y.pc = "done" /\ y.status = "lost" /\ y.seen = x.seen
     /\ y.rec = x.rec /\ y.rows = x.rows

(* A crash loses every request.                                            *)
LEMMA CrashedRequests ==
  ASSUME StateTypes, Crash
  PROVE  /\ req' \in [Requests -> RequestRecords]
         /\ \A r \in Requests :
              /\ GoodRequest(req'[r]) /\ SameRequest(req[r], req'[r])
              /\ LostOrKept(req[r], req'[r])
              /\ req'[r].pc \in {"idle", "done"}
              /\ req[r].op = "none" => req'[r] = req[r]
<1>1. RequestTypes
  BY DEF StateTypes
<1>2. ASSUME NEW r \in Requests
      PROVE  /\ req'[r] \in RequestRecords /\ GoodRequest(req'[r])
             /\ SameRequest(req[r], req'[r]) /\ LostOrKept(req[r], req'[r])
             /\ req'[r].pc \in {"idle", "done"}
             /\ req[r].op = "none" => req'[r] = req[r]
  <2> DEFINE x == req[r]
             y == [x EXCEPT !.pc = "done", !.status = "lost"]
  <2>1. x \in RequestRecords /\ GoodRequest(x)
    BY <1>1 DEF RequestTypes
  <2>2. req'[r] = IF x.pc \notin {"idle", "done"} THEN y ELSE x
    BY DEF Crash, InProgress
  <2>3. x.op = "none" <=> x.pc = "idle"
    BY <2>1, OpOfPc
  <2>4. "lost" \in Statuses /\ "done" \in Pcs /\ (x.op # "none" => "done" \in PcsOf(x.op))
    BY <2>1 DEF Statuses, Pcs, PcsOf, RequestRecords
  <2>5. y \in RequestRecords /\ SameRequest(x, y) /\ y.pc = "done" /\ y.status = "lost"
        /\ y.seen = x.seen /\ y.rec = x.rec /\ y.rows = x.rows
    BY <2>1, <2>4 DEF RequestRecords, SameRequest
  <2> HIDE DEF y, x
  <2>6. ASSUME x.pc \notin {"idle", "done"}  PROVE GoodRequest(y)
    BY <2>1, <2>3, <2>4, <2>5, <2>6 DEF GoodRequest, SameRequest, UploadRecord, HoldsRecord
  <2>7. CASE x.pc \notin {"idle", "done"}
    BY <2>2, <2>3, <2>5, <2>6, <2>7 DEF LostOrKept, x
  <2>8. CASE x.pc \in {"idle", "done"}
    BY <2>1, <2>2, <2>8 DEF LostOrKept, SameRequest, x
  <2>. QED
    BY <2>7, <2>8
<1>3. req' = [r \in Requests |-> req'[r]]
  BY DEF Crash
<1>. QED
  BY <1>2, <1>3

(* A request that has arrived stays what it is.                            *)
RequestsKept ==
  /\ \A r \in Requests : req[r].op # "none" => SameRequest(req[r], req'[r])
  /\ Uploads \subseteq Uploads'

(* Requests stay good.                                                     *)
LEMMA RequestsStep ==
  ASSUME StateTypes, [Next]_vars
  PROVE  RequestTypes' /\ RequestsKept
<1>1. req \in [Requests -> RequestRecords] /\ \A q \in Requests : GoodRequest(req[q])
  BY DEF StateTypes, RequestTypes
<1>2. ASSUME req' \in [Requests -> RequestRecords],
             \A r \in Requests : /\ GoodRequest(req'[r])
                                 /\ req[r].op # "none" => SameRequest(req[r], req'[r])
      PROVE  RequestTypes' /\ RequestsKept
  <2>1. ASSUME NEW u \in Uploads  PROVE u \in Requests /\ req'[u].op = "upload"
    BY <1>2 DEF Uploads, SameRequest
  <2>2. Uploads \subseteq Uploads'
    BY <2>1 DEF Uploads
  <2>. QED
    BY <1>2, <2>2 DEF RequestTypes, RequestsKept
<1>3. CASE req' = req
  BY <1>1, <1>2, <1>3 DEF SameRequest
<1>4. ASSUME NEW r \in Requests, Step(r)  PROVE RequestTypes' /\ RequestsKept
  <2>1. Handled(r)
    BY <1>4, StepsHandle
  <2>. QED
    BY <1>1, <1>2, <2>1 DEF Handled, Moved, SameRequest
<1>5. ASSUME NEW r \in Requests, Arrival(r)  PROVE RequestTypes' /\ RequestsKept
  <2>1. Arrived(r)
    BY <1>5, ArrivalsAreGood
  <2>. QED
    BY <1>1, <1>2, <2>1 DEF Arrived, SameRequest
<1>6. CASE Crash
  BY <1>2, <1>6, CrashedRequests
<1>7. \/ req' = req \/ Crash
      \/ \E r \in Requests : Step(r) \/ Arrival(r)
  BY DEF Next, CleanerStep, ConsumeExpired, ScanPastes, Reconcile, Tick, vars
<1>. QED
  BY <1>3, <1>4, <1>5, <1>6, <1>7

------------------------------------------------------------------------------
(* The types of the rest.                                                  *)

(* The files of an upload lie in its directory.                            *)
LEMMA UploadPlaces ==
  ASSUME NEW x, UploadRecord(x)
  PROVE  PathOf(x) \in Paths /\ PathOf(x) \in Locations /\ SidecarOf(x) \in Locations
<1>1. x.name \in UploadNames /\ x.type \in Types /\ x.expiry \in Expiries /\ x.name \in PublicNames
  BY NameType DEF UploadRecord
<1>2. PathOf(x) \in Paths /\ PathOf(x).dir \in Directories
  BY <1>1 DEF PathOf, Paths, StoredNames, Directories
<1>3. x.expiry = None \/ x.expiry \in AnyParts
  BY <1>1, PartsAssumption DEF Expiries, Stamps, AnyParts
<1>4. PathOf(x).file \in Seq(AnyParts) \ {<<>>}
  BY <1>1, <1>3, NameType, AppendParts DEF PathOf, StoredName
<1>5. PathOf(x) \in Locations
  BY <1>2, <1>4 DEF PathOf, Locations
<1>6. PasswordFileName(PathOf(x).file) \in Seq(AnyParts) \ {<<>>}
  BY <1>4, AppendParts DEF PasswordFileName, AnyParts
<1>. QED
  BY <1>2, <1>5, <1>6 DEF SidecarOf, PasswordPath, Locations

(* What the requests read and write.                                       *)
LEMMA RequestPlaces ==
  ASSUME StateTypes, NEW r \in Requests
  PROVE  /\ req[r].op = "upload" => UploadRecord(req[r]) /\ r \in Uploads
         /\ HoldsRecord(req[r]) => /\ req[r].rec \in Records /\ req[r].rec.path \in Paths
                                   /\ req[r].rec.path.dir \in Directories
BY DEF StateTypes, RequestTypes, GoodRequest, Uploads, Records, Paths, Directories

(* How the directory changes: the calls of handlers and of the cleanup.    *)
LEMMA DiskActions ==
  ASSUME [Next]_vars
  PROVE  \/ UnchangedDisk
         \/ \E r \in Requests : \/ StorePassword(r) \/ CreateContent(r) \/ RemoveNewUpload(r)
                                \/ DeletePassword(r) \/ Consume(r) \/ RemovePasteFile(r)
         \/ \E p \in cleaner.todo : RemoveExpired(p) \/ RemoveOrphan(p)
         \/ RemoveExpiredSidecar
<1>1. CASE UNCHANGED vars
  BY <1>1 DEF vars, UnchangedDisk
<1>2. ASSUME NEW r \in Requests, Arrival(r)  PROVE UnchangedDisk
  BY <1>2 DEF Arrival, ArriveUpload, ArriveOther, Arrive
<1>3. CASE \/ ConsumeExpired \/ Crash \/ ScanPastes \/ Reconcile \/ Tick
  BY <1>3 DEF ConsumeExpired, Crash, ScanPastes, Reconcile, Tick
<1>4. ASSUME NEW r \in Requests, Step(r)
      PROVE  \/ UnchangedDisk
             \/ StorePassword(r) \/ CreateContent(r) \/ RemoveNewUpload(r)
             \/ DeletePassword(r) \/ Consume(r) \/ RemovePasteFile(r)
  BY <1>4 DEF Step, FindOwnerDuplicate, CheckDuplicate, DeleteStale, GlobMatch,
              PersistPasteMetadata, CheckWinner, DropWinner, FindPastes, IsFileStep,
              HasPassword, Open, DeleteMetadata, DeleteRow
<1>. QED
  BY <1>1, <1>2, <1>3, <1>4 DEF Next, CleanerStep

(* What each kind of call does to the directory and to the fates.          *)
Removes(p, how) == IsFile(p) /\ RemoveFile(p, how)
Creates(p, r, kind) == ~IsFile(p) /\ CreateNew(p, r, kind) /\ UNCHANGED fate
Renames(p, q, how) ==
  /\ IsFile(p)
  /\ fs' = [x \in (DOMAIN fs \ {p}) \cup {q} |-> IF x = q THEN fs[p] ELSE fs[x]]
  /\ fate' = Fated(p, how)

(* What a removal does to the files.                                       *)
LEMMA RemoveEffect ==
  ASSUME NEW p, NEW how, Removes(p, how)
  PROVE  /\ DOMAIN fs' = DOMAIN fs \ {p}
         /\ \A x \in DOMAIN fs' : fs'[x] = fs[x]
         /\ p \in DOMAIN fs /\ fate' = Fated(p, how)
BY DEF Removes, RemoveFile, Without, IsFile

(* What a creation does to the files.                                      *)
LEMMA CreateEffect ==
  ASSUME NEW p, NEW r, NEW kind, Creates(p, r, kind)
  PROVE  /\ DOMAIN fs' = DOMAIN fs \cup {p} /\ p \notin DOMAIN fs
         /\ \A x \in DOMAIN fs : fs'[x] = fs[x]
         /\ fs'[p] = [by |-> r, kind |-> kind]
         /\ fate' = fate
BY DEF Creates, CreateNew, IsFile

(* What a renaming does to the files.                                      *)
LEMMA RenameEffect ==
  ASSUME NEW p, NEW q, NEW how, Renames(p, q, how)
  PROVE  /\ DOMAIN fs' = (DOMAIN fs \ {p}) \cup {q} /\ p \in DOMAIN fs
         /\ \A x \in DOMAIN fs' : x # q => fs'[x] = fs[x]
         /\ fs'[q] = fs[p]
         /\ fate' = Fated(p, how)
BY DEF Renames, IsFile

(* The fates of uploads: the first way a content went is remembered.       *)
LEMMA FateEffect ==
  ASSUME StateTypes, NEW p \in DOMAIN fs, NEW how, fate' = Fated(p, how)
  PROVE  /\ fate' = [r \in Requests |-> fate'[r]]
         /\ \A u \in Requests : fate[u] # None => fate'[u] = fate[u]
         /\ \A u \in Requests : fate'[u] # fate[u] =>
              /\ fate'[u] = how /\ fate[u] = None
              /\ u = fs[p].by /\ fs[p].kind = "content"
         /\ fs[p].kind = "content" =>
              fate'[fs[p].by] = IF fate[fs[p].by] = None THEN how ELSE fate[fs[p].by]
<1>1. fs[p].by \in Requests
  BY DEF StateTypes, FileTypes, FileRecords
<1>2. fate = [r \in Requests |-> fate[r]]
  BY DEF StateTypes
<1>. QED
  BY <1>1, <1>2 DEF Fated

(* The calls that change the directory, by what they do.                   *)
DiskCalls ==
  \/ UnchangedDisk
  \/ \E r \in Requests :
       \/ StorePassword(r) /\ Creates(SidecarOf(req[r]), r, "hash")
       \/ CreateContent(r) /\ Creates(PathOf(req[r]), r, "content")
       \/ RemoveNewUpload(r) /\ Removes(PathOf(req[r]), [how |-> "rollback", by |-> r])
       \/ /\ DeletePassword(r) /\ req[r].op = "upload"
          /\ Removes(SidecarOf(req[r]), [how |-> "rollback", by |-> r])
       \/ /\ DeletePassword(r) /\ req[r].op # "upload"
          /\ Removes(PasswordPath(req[r].rec.path), [how |-> "delete", by |-> r])
       \/ /\ Consume(r)
          /\ Renames(req[r].rec.path, [req[r].rec.path EXCEPT !.file = Append(req[r].name, now)],
                     [how |-> "consumed", by |-> r])
       \/ RemovePasteFile(r) /\ Removes(req[r].rec.path, [how |-> "delete", by |-> r])
  \/ \E p \in cleaner.todo :
       \/ RemoveExpired(p) /\ Removes(p, [how |-> "cleanup", by |-> now])
       \/ RemoveOrphan(p) /\ Removes(p, [how |-> "orphan", by |-> now])
  \/ RemoveExpiredSidecar /\ Removes(PasswordPath(cleaner.path), [how |-> "cleanup", by |-> now])

(* Every step makes at most one of the disk calls, and says who removed.    *)
LEMMA EveryDiskCall == ASSUME [Next]_vars  PROVE DiskCalls
<1>1. ASSUME NEW r \in Requests, StorePassword(r)  PROVE DiskCalls
  BY <1>1 DEF DiskCalls, StorePassword, Creates, SidecarOf, UnchangedDisk
<1>2. ASSUME NEW r \in Requests, CreateContent(r)  PROVE DiskCalls
  BY <1>2 DEF DiskCalls, CreateContent, Creates, UnchangedDisk
<1>3. ASSUME NEW r \in Requests, RemoveNewUpload(r)  PROVE DiskCalls
  BY <1>3 DEF DiskCalls, RemoveNewUpload, Removes, UnchangedDisk
<1>4. ASSUME NEW r \in Requests, DeletePassword(r)  PROVE DiskCalls
  BY <1>4 DEF DiskCalls, DeletePassword, RemoveSidecar, Removes, SidecarOf, UnchangedDisk
<1>5. ASSUME NEW r \in Requests, Consume(r)  PROVE DiskCalls
  BY <1>5 DEF DiskCalls, Consume, Renames, UnchangedDisk
<1>6. ASSUME NEW r \in Requests, RemovePasteFile(r)  PROVE DiskCalls
  BY <1>6 DEF DiskCalls, RemovePasteFile, Removes, UnchangedDisk
<1>7. ASSUME NEW p \in cleaner.todo, RemoveExpired(p) \/ RemoveOrphan(p)  PROVE DiskCalls
  BY <1>7 DEF DiskCalls, RemoveExpired, RemoveOrphan, Removes, UnchangedDisk
<1>8. CASE RemoveExpiredSidecar
  BY <1>8 DEF DiskCalls, RemoveExpiredSidecar, RemoveSidecar, Removes, UnchangedDisk
<1>. QED
  BY <1>1, <1>2, <1>3, <1>4, <1>5, <1>6, <1>7, <1>8, DiskActions DEF DiskCalls

(* Files lie in the directories of their uploads.                          *)
LEMMA FilesTyped ==
  ASSUME StateTypes, [Next]_vars
  PROVE  FileTypes' /\ (fate = [r \in Requests |-> fate[r]])'
<1>1. DiskCalls
  BY EveryDiskCall
<1>2. /\ Uploads \subseteq Uploads'
      /\ \A p \in DOMAIN fs : p \in Locations /\ fs[p] \in FileRecords /\ fs[p].by \in Uploads
      /\ fate = [r \in Requests |-> fate[r]]
  BY RequestsStep DEF RequestsKept, StateTypes, FileTypes
<1>3. ASSUME DOMAIN fs' \subseteq DOMAIN fs, \A x \in DOMAIN fs' : fs'[x] = fs[x]
      PROVE  FileTypes'
  BY <1>2, <1>3 DEF FileTypes
<1>4. ASSUME NEW p, NEW how, Removes(p, how)
      PROVE  FileTypes' /\ (fate = [r \in Requests |-> fate[r]])'
  <2>1. DOMAIN fs' = DOMAIN fs \ {p} /\ (\A x \in DOMAIN fs' : fs'[x] = fs[x])
        /\ p \in DOMAIN fs /\ fate' = Fated(p, how)
    BY <1>4, RemoveEffect
  <2>. QED
    BY <1>3, <2>1, FateEffect
<1>5. ASSUME NEW r \in Uploads, NEW p \in Locations, NEW kind \in {"content", "hash"},
             Creates(p, r, kind)
      PROVE  FileTypes' /\ (fate = [q \in Requests |-> fate[q]])'
  <2>1. /\ DOMAIN fs' = DOMAIN fs \cup {p} /\ fate' = fate
        /\ \A x \in DOMAIN fs : fs'[x] = fs[x]
        /\ fs'[p] = [by |-> r, kind |-> kind]
    BY <1>5, CreateEffect
  <2>2. fs'[p] \in FileRecords /\ fs'[p].by \in Uploads
    BY <2>1 DEF FileRecords, Uploads
  <2>3. FileTypes'
    BY <1>2, <2>1, <2>2 DEF FileTypes
  <2>. QED
    BY <1>2, <2>1, <2>3
<1>6. ASSUME NEW q \in Locations, NEW p, NEW how, Renames(p, q, how)
      PROVE  FileTypes' /\ (fate = [r \in Requests |-> fate[r]])'
  <2>1. /\ DOMAIN fs' = (DOMAIN fs \ {p}) \cup {q} /\ p \in DOMAIN fs
        /\ \A x \in DOMAIN fs' : x # q => fs'[x] = fs[x]
        /\ fs'[q] = fs[p] /\ fate' = Fated(p, how)
    BY <1>6, RenameEffect
  <2>2. FileTypes'
    BY <1>2, <2>1 DEF FileTypes
  <2>. QED
    BY <2>1, <2>2, FateEffect
<1>7. CASE UnchangedDisk
  BY <1>2, <1>3, <1>7 DEF UnchangedDisk
<1>8. ASSUME NEW r \in Requests, StorePassword(r) \/ CreateContent(r)
      PROVE  r \in Uploads /\ PathOf(req[r]) \in Locations /\ SidecarOf(req[r]) \in Locations
  <2>1. req[r].op = "upload"
    BY <1>8, OpOfPc DEF StorePassword, CreateContent, At, StateTypes, RequestTypes
  <2>. QED
    BY <2>1, RequestPlaces, UploadPlaces
<1>9. ASSUME NEW r \in Requests, Consume(r)
      PROVE  [req[r].rec.path EXCEPT !.file = Append(req[r].name, now)] \in Locations
  <2>1. req[r].op = "serve" /\ HoldsRecord(req[r])
    BY <1>9, OpOfPc DEF Consume, At, StateTypes, RequestTypes, HoldsRecord
  <2>2. req[r].name \in UploadNames /\ now \in AnyParts
    BY <2>1 DEF StateTypes, RequestTypes, GoodRequest, AnyParts
  <2>3. Append(req[r].name, now) \in Seq(AnyParts) \ {<<>>}
    BY <2>2, NameType, AppendParts
  <2> DEFINE p == req[r].rec.path
  <2>4. p \in Paths /\ p.dir \in Directories
    BY <2>1, RequestPlaces
  <2>. QED
    BY <2>3, <2>4 DEF Locations, Paths
<1>. QED
  BY <1>1, <1>4, <1>5, <1>6, <1>7, <1>8, <1>9 DEF DiskCalls

(* The rows that a deletion leaves.                                        *)
LEMMA DeletionTypes ==
  ASSUME NEW T \in Tables, NEW p, NEW g
  PROVE  DeletePaste(T, p, g) \in Tables /\ DeletePasteByPath(T, p) \in Tables
<1>1. DeletePasteByPath(T, p) \in Tables
  BY DEF DeletePasteByPath, Tables
<1>. QED
  BY <1>1 DEF DeletePaste, DeletePasteByPath

(* What the scan found of the paths the table may have.                    *)
Found == [p \in DOMAIN scan.found \cap Paths |-> scan.found[p]]

(* The scan finds files, and reconciliation looks at those of them that    *)
(* are at paths of the table.                                              *)
LEMMA FoundType ==
  ASSUME StateTypes
  PROVE  /\ Found \in [DOMAIN scan.found \cap Paths -> Hashes]
         /\ scan.kept \in SUBSET Paths
         /\ ReconcilePastes(pastes, scan.found, scan.kept, gen)
              = ReconcilePastes(pastes, Found, scan.kept, gen)
<1>1. Found \in [DOMAIN scan.found \cap Paths -> Hashes] /\ scan.kept \in SUBSET Paths
  BY DEF StateTypes, StartTypes, ScanTypes, Found
<1>2. \A p \in Paths : /\ p \in DOMAIN Found <=> p \in DOMAIN scan.found
                       /\ p \in DOMAIN Found => Found[p] = scan.found[p]
  BY DEF Found
<1>. QED
  BY <1>1, <1>2 DEF ReconcilePastes

(* What an upload asks for is a paste of the schema.                       *)
LEMMA NewPasteType ==
  ASSUME StateTypes, NEW r \in Uploads
  PROVE  NewPasteOf(req[r]) \in NewPastes
BY NameType DEF StateTypes, RequestTypes, GoodRequest, Uploads, NewPasteOf, NewPastes, UploadRecord

(* How the table changes.                                                  *)
TableCalls ==
  \/ pastes' = pastes
  \/ \E r \in Uploads :
       /\ PersistPasteMetadata(r)
       /\ \/ pastes' = InsertPaste(pastes, NewPasteOf(req[r]), gen, Seconds(now)).table
          \/ /\ MayDeduplicate(NewPasteOf(req[r]))
             /\ pastes' =
                     InsertPasteDeduplicated(pastes, NewPasteOf(req[r]), gen, Seconds(now)).table
  \/ \E p, g : pastes' = DeletePaste(pastes, p, g)
  \/ \E p : pastes' = DeletePasteByPath(pastes, p)
  \/ Reconcile /\ pastes' = ReconcilePastes(pastes, Found, scan.kept, gen)

(* Every step makes at most one of the table calls.                        *)
LEMMA EveryTableCall == ASSUME StateTypes, [Next]_vars  PROVE TableCalls
<1>1. CASE UNCHANGED vars
  BY <1>1 DEF vars, TableCalls
<1>2. ASSUME NEW r \in Requests, Arrival(r)  PROVE TableCalls
  BY <1>2, ArrivalsAreGood DEF TableCalls
<1>3. CASE CleanerStep \/ Crash \/ ScanPastes \/ Tick
  BY <1>3 DEF CleanerStep, Crash, ScanPastes, Tick, TableCalls, UnchangedTable
<1>4. CASE ConsumeExpired
  BY <1>4 DEF ConsumeExpired, Write, DatabaseFails, TableCalls
<1>5. CASE Reconcile
  BY <1>5, FoundType DEF Reconcile, TableCalls
<1>6. ASSUME NEW r \in Requests, PersistPasteMetadata(r)  PROVE TableCalls
  <2>1. r \in Uploads
    BY <1>6, OpOfPc DEF PersistPasteMetadata, At, StateTypes, RequestTypes, Uploads
  <2>2. CASE pastes' = pastes
    BY <2>2 DEF TableCalls
  <2>3. CASE /\ Deduplicate /\ MayDeduplicate(req[r])
             /\ pastes' = InsertPasteDeduplicated(pastes, req[r], gen, Seconds(now)).table
    <3>1. MayDeduplicate(NewPasteOf(req[r]))
      BY <2>3, InsertOfFields
    <3>2. pastes' = InsertPasteDeduplicated(pastes, NewPasteOf(req[r]), gen, Seconds(now)).table
      BY <2>3, InsertOfFields
    <3>. QED
      BY <1>6, <2>1, <3>1, <3>2 DEF TableCalls
  <2>4. CASE pastes' = InsertPaste(pastes, req[r], gen, Seconds(now)).table
    <3>1. pastes' = InsertPaste(pastes, NewPasteOf(req[r]), gen, Seconds(now)).table
      BY <2>4, InsertOfFields
    <3>. QED
      BY <1>6, <2>1, <3>1 DEF TableCalls
  <2>. QED
    BY <1>6, <2>2, <2>3, <2>4 DEF PersistPasteMetadata, Write, DatabaseFails
<1>7. ASSUME NEW r \in Requests, Step(r), ~PersistPasteMetadata(r)  PROVE TableCalls
  BY <1>7 DEF Step, FindOwnerDuplicate, CheckDuplicate, DeleteStale, GlobMatch, StorePassword,
              CreateContent, CheckWinner, DropWinner, RemoveNewUpload, DeletePassword,
              FindPastes, IsFileStep, HasPassword, Open, Consume, DeleteMetadata,
              RemovePasteFile, DeleteRow, Write, DatabaseFails, UnchangedTable, TableCalls
<1>. QED
  BY <1>1, <1>2, <1>3, <1>4, <1>5, <1>6, <1>7 DEF Next

(* The table stays one of the schema.                                      *)
LEMMA TableTyped ==
  ASSUME StateTypes, [Next]_vars
  PROVE  pastes' \in Tables
<1>1. TableCalls /\ pastes \in Tables /\ gen \in Nat
  BY EveryTableCall DEF StateTypes
<1>2. ReconcilePastes(pastes, Found, scan.kept, gen) \in Tables
  BY <1>1, FoundType, ReconcileType
<1>. QED
  BY <1>1, <1>2, NewPasteType, InsertPasteType, DeletionTypes DEF TableCalls

(* The sidecar of a file lies beside it.                                   *)
LEMMA SidecarPlace ==
  ASSUME NEW p \in Locations
  PROVE  PasswordPath(p) \in Locations
<1>1. PasswordFileName(p.file) \in Seq(AnyParts) \ {<<>>}
  BY AppendParts DEF PasswordFileName, AnyParts, Locations
<1>. QED
  BY <1>1 DEF PasswordPath, Locations

(* The cleanup thread is about files that were there.                      *)
LEMMA CleanerTyped ==
  ASSUME StateTypes, [Next]_vars
  PROVE  CleanerTypes' /\ (expired \in Seq(Locations))'
<1>1. /\ CleanerTypes /\ expired \in Seq(Locations)
      /\ DOMAIN fs \subseteq Locations /\ Orphans \subseteq Locations
  BY DEF StateTypes, FileTypes, Orphans
<1>2. CASE UNCHANGED <<cleaner, expired>>
  BY <1>1, <1>2 DEF CleanerTypes
<1>3. ASSUME NEW r \in Requests, Arrival(r) \/ Step(r)
      PROVE  UNCHANGED <<cleaner, expired>>
  BY <1>3, ArrivalsAreGood
     DEF Step, FindOwnerDuplicate, CheckDuplicate, DeleteStale, GlobMatch, StorePassword,
         CreateContent, PersistPasteMetadata, CheckWinner, DropWinner, RemoveNewUpload,
         DeletePassword, FindPastes, IsFileStep, HasPassword, Open, Consume, DeleteMetadata,
         RemovePasteFile, DeleteRow, UnchangedProcess
<1>4. CASE ScanPastes \/ Reconcile \/ Tick \/ UNCHANGED vars
  BY <1>4, <1>2 DEF ScanPastes, Reconcile, Tick, vars
<1>5. CASE Crash
  <2>1. cleaner' = [pc |-> "idle", todo |-> {}, path |-> None] /\ expired' = <<>>
    BY <1>5 DEF Crash, CleanerIdle
  <2>2. CleanerTypes'
    BY <2>1 DEF CleanerTypes
  <2>. QED
    BY <2>1, <2>2
<1>6. CASE ConsumeExpired
  <2>1. cleaner' = cleaner /\ expired # <<>> /\ expired' = Tail(expired)
    BY <1>6 DEF ConsumeExpired
  <2>2. expired' \in Seq(Locations)
    BY <1>1, <2>1, HeadTailProperties
  <2>. QED
    BY <1>1, <2>1, <2>2 DEF CleanerTypes
<1>7. CASE ListExpired /\ UNCHANGED expired
  BY <1>1, <1>7 DEF ListExpired, CleanerTypes
<1>8. CASE ListOrphans /\ UNCHANGED expired
  BY <1>1, <1>8 DEF ListOrphans, CleanerTypes
<1>9. ASSUME NEW p \in cleaner.todo, RemoveExpired(p), UNCHANGED expired
      PROVE  CleanerTypes' /\ (expired \in Seq(Locations))'
  <2>1. p \in Locations
    BY <1>1 DEF CleanerTypes
  <2>2. CASE cleaner' = [pc |-> "sidecar", todo |-> cleaner.todo \ {p}, path |-> p]
    BY <1>1, <1>9, <2>1, <2>2 DEF CleanerTypes
  <2>3. CASE cleaner' = [cleaner EXCEPT !.todo = @ \ {p}]
    BY <1>1, <1>9, <2>3 DEF CleanerTypes, RemoveExpired
  <2>. QED
    BY <1>9, <2>2, <2>3 DEF RemoveExpired
<1>10. ASSUME NEW p \in cleaner.todo, RemoveOrphan(p), UNCHANGED expired
       PROVE  CleanerTypes' /\ (expired \in Seq(Locations))'
  BY <1>1, <1>10 DEF CleanerTypes, RemoveOrphan
<1>11. CASE RemoveExpiredSidecar
  <2>1. cleaner.path \in Locations /\ expired' = Append(expired, cleaner.path)
    BY <1>1, <1>11 DEF RemoveExpiredSidecar, CleanerTypes
  <2>2. expired' \in Seq(Locations)
    BY <1>1, <2>1, AppendProperties
  <2>3. CleanerTypes'
    BY <1>1, <1>11 DEF RemoveExpiredSidecar, CleanerTypes
  <2>. QED
    BY <2>2, <2>3
<1>. QED
  BY <1>2, <1>3, <1>4, <1>5, <1>6, <1>7, <1>8, <1>9, <1>10, <1>11 DEF Next, CleanerStep

(* A start finds contents whose hashes are known, and sidecars.            *)
LEMMA StartTyped ==
  ASSUME StateTypes, [Next]_vars
  PROVE  StartTypes' /\ (gen \in Nat)' /\ (now \in Nat)'
<1>1. StartTypes /\ gen \in Nat /\ now \in Nat
  BY DEF StateTypes
<1>2. CASE UNCHANGED <<server, scan, crashes>> /\ gen' \in Nat /\ now' \in Nat
  BY <1>1, <1>2 DEF StartTypes, ScanTypes
<1>3. ASSUME NEW r \in Requests, PersistPasteMetadata(r)
      PROVE  UNCHANGED <<server, scan, crashes, now>> /\ gen' \in Nat
  <2>1. gen' \in {gen, gen + 1} /\ UNCHANGED <<server, scan, crashes, now>>
    BY <1>3 DEF PersistPasteMetadata, UnchangedProcess
  <2>. QED
    BY <1>1, <2>1
<1>4. ASSUME NEW r \in Requests, Arrival(r) \/ Step(r)
      PROVE  UNCHANGED <<server, scan, crashes>> /\ gen' \in Nat /\ now' \in Nat
  BY <1>1, <1>4, <1>3, ArrivalsAreGood
     DEF Step, FindOwnerDuplicate, CheckDuplicate, DeleteStale, GlobMatch, StorePassword,
         CreateContent, CheckWinner, DropWinner, RemoveNewUpload,
         DeletePassword, FindPastes, IsFileStep, HasPassword, Open, Consume, DeleteMetadata,
         RemovePasteFile, DeleteRow, UnchangedProcess, UnchangedTable
<1>5. CASE Tick \/ CleanerStep \/ ConsumeExpired \/ UNCHANGED vars
  <2>1. UNCHANGED <<server, scan, crashes, gen>> /\ now' \in {now, now + 1}
    BY <1>5 DEF Tick, CleanerStep, ConsumeExpired, ListExpired, ListOrphans, RemoveExpired,
                RemoveOrphan, RemoveExpiredSidecar, UnchangedTable, vars
  <2>. QED
    BY <1>1, <1>2, <2>1
<1>6. CASE Crash
  <2>1. crashes < MaxCrashes /\ crashes' = crashes + 1 /\ server' = "scan"
        /\ gen' = gen /\ now' = now /\ scan' = [NoScan EXCEPT !.dirs = Directories]
    BY <1>6 DEF Crash, UnchangedTable
  <2>2. crashes \in Nat /\ MaxCrashes \in Nat
    BY <1>1, ServerBounds DEF StartTypes
  <2>3. PasswordExt \in Hashes
    BY <2>1, <2>2, SidecarHashAssumption
  <2>4. scan' = [dirs |-> Directories, todo |-> {}, found |-> [p \in {} |-> None],
                 skipped |-> FALSE, kept |-> {}]
    BY <2>1 DEF NoScan
  <2>5. DOMAIN scan'.found = {} /\ scan'.kept = {}
    BY <2>4
  <2>6. ScanTypes'
    BY <2>4, <2>5 DEF ScanTypes
  <2>. QED
    BY <1>1, <2>1, <2>2, <2>3, <2>6 DEF StartTypes
<1>7. CASE ScanPastes
  <2>1. server = "scan" /\ UNCHANGED <<crashes, gen, now>>
    BY <1>7 DEF ScanPastes, UnchangedTable
  <2>2. ASSUME NEW p \in DOMAIN fs  PROVE FileHash(p) \in Hashes
    <3>1. PasswordExt \in Hashes
      BY <1>1, <2>1 DEF StartTypes
    <3>2. req[fs[p].by].hash \in Hashes
      BY DEF StateTypes, FileTypes, RequestTypes, GoodRequest, Uploads
    <3>. QED
      BY <3>1, <3>2 DEF FileHash
  <2>3. CASE ReadDir
    BY <1>1, <2>1, <2>3 DEF ReadDir, StartTypes, ScanTypes
  <2>4. ASSUME NEW p \in scan.todo, ScanEntry(p)  PROVE StartTypes'
    <3>1. CASE scan'.found = scan.found
      BY <1>1, <2>1, <2>4, <3>1 DEF ScanEntry, StartTypes, ScanTypes
    <3>2. CASE /\ IsFile(p)
               /\ scan' = [scan EXCEPT !.todo = @ \ {p},
                    !.found = [q \in DOMAIN @ \cup {p} |-> IF q = p THEN FileHash(p) ELSE @[q]]]
      BY <1>1, <2>1, <2>2, <2>4, <3>2 DEF ScanEntry, StartTypes, ScanTypes, IsFile
    <3>. QED
      BY <1>1, <2>4, <3>1, <3>2 DEF ScanEntry, StartTypes, ScanTypes
  <2>5. CASE RetainExisting
    <3>1. ListAll(pastes, Seconds(now)) \subseteq Paths
      BY DEF ListAll, Present
    <3>. QED
      BY <1>1, <2>1, <2>5, <3>1 DEF RetainExisting, StartTypes, ScanTypes
  <2>. QED
    BY <1>1, <1>7, <2>1, <2>3, <2>4, <2>5 DEF ScanPastes
<1>8. CASE Reconcile
  <2>1. server' = "up" /\ gen' = gen + 1 /\ UNCHANGED <<crashes, now>>
        /\ scan' = [NoScan EXCEPT !.kept = scan.kept]
    BY <1>8 DEF Reconcile
  <2>2. scan' = [dirs |-> {}, todo |-> {}, found |-> [p \in {} |-> None], skipped |-> FALSE,
                 kept |-> scan.kept]
    BY <2>1 DEF NoScan
  <2>3. DOMAIN scan'.found = {} /\ scan'.kept = scan.kept
    BY <2>2
  <2>4. ScanTypes'
    BY <1>1, <2>2, <2>3 DEF StartTypes, ScanTypes
  <2>. QED
    BY <1>1, <2>1, <2>4 DEF StartTypes
<1>. QED
  BY <1>1, <1>2, <1>4, <1>5, <1>6, <1>7, <1>8 DEF Next

(* The server starts with nothing.                                         *)
LEMMA TypesAtStart == Init => StateTypes
<1> SUFFICES ASSUME Init  PROVE StateTypes
  OBVIOUS
<1>1. pastes \in Tables /\ gen \in Nat /\ now \in Nat
  BY MinStampAssumption DEF Init, Tables
<1>2. \A r \in Requests : req[r] = NoRequest
  BY DEF Init
<1>3. GoodRequest(NoRequest)
  BY EmptyRequest DEF GoodRequest, HoldsRecord, PcsOf
<1>4. RequestTypes
  BY <1>2, <1>3, EmptyRequest DEF RequestTypes, Init
<1>5. FileTypes /\ (fate = [r \in Requests |-> fate[r]])
  BY DEF FileTypes, Init
<1>6. CleanerTypes /\ StartTypes /\ expired \in Seq(Locations)
  BY DEF CleanerTypes, StartTypes, ScanTypes, Init, CleanerIdle, NoScan
<1>. QED
  BY <1>1, <1>4, <1>5, <1>6 DEF StateTypes

(* Every step keeps the types.                                             *)
LEMMA TypesStep == StateTypes /\ [Next]_vars => StateTypes'
<1> SUFFICES ASSUME StateTypes, [Next]_vars  PROVE StateTypes'
  OBVIOUS
<1>1. RequestTypes'
  BY RequestsStep
<1>. QED
  BY <1>1, FilesTyped, TableTyped, CleanerTyped, StartTyped DEF StateTypes

(* The types hold in every state.                                          *)
LEMMA TypesHold == Spec => []StateTypes
<1>. QED
  BY TypesAtStart, TypesStep, PTL DEF Spec

(* The type invariant: whatever the handlers, the cleanup thread, crashes  *)
(* and failures of the database do in whichever order, the table keeps its *)
(* schema, the channel carries paths of the upload directories, and every  *)
(* request ends with one of the answers.                                   *)
THEOREM TypeCorrect == Spec => []TypeOK
<1>1. StateTypes => TypeOK
  <2> SUFFICES ASSUME StateTypes  PROVE TypeOK
    OBVIOUS
  <2>1. \A p \in DOMAIN fs : fs[p].by \in Requests /\ fs[p].kind \in {"content", "hash"}
    BY DEF StateTypes, FileTypes, FileRecords
  <2>2. ASSUME NEW r \in Requests
        PROVE  /\ req[r].status \in Statuses
               /\ req[r].rec # None => req[r].rec.path \in Paths
               /\ req[r].seen \in Requests \cup {None}
    BY DEF StateTypes, RequestTypes, RequestRecords, Records
  <2>3. \A i \in DOMAIN expired : expired[i].dir \in {GetDir(type) : type \in Types}
    <3>1. expired \in Seq(Locations)
      BY DEF StateTypes
    <3>2. \A i \in DOMAIN expired : expired[i] \in Locations
      BY <3>1
    <3>. QED
      BY <3>2 DEF Locations, Directories
  <2>. QED
    BY <2>1, <2>2, <2>3 DEF TypeOK, StateTypes, CleanerTypes, StartTypes
<1>. QED
  BY <1>1, TypesHold, PTL

------------------------------------------------------------------------------
(* Removal.  The invariant: a content lies at the path of its upload, or,  *)
(* once viewed, beside it; a row or record with an owner is about a path   *)
(* of that owner; a file is removed or viewed by those who were let to.    *)

NamesDiffer == \A u, v \in Uploads : req[u].name = req[v].name => u = v

GoodContent(p, u) ==
  \/ p = PathOf(req[u])
  \/ /\ req[u].type \in OneshotTypes
     /\ fate[u] # None
     /\ \E t \in Nat : p = ConsumedPath(req[u], t)

GoodFiles ==
  \A p \in DOMAIN fs :
    fs[p].kind = "content" => GoodContent(p, fs[p].by) /\ ~IsCreating(req[fs[p].by])

OwnerAt(p, owner) ==
  owner # None => \E u \in Uploads : p = PathOf(req[u]) /\ owner = req[u].owner

GoodRows ==
  \A p \in Present(pastes) :
    /\ p.dir = GetDir(pastes[p].type)
    /\ pastes[p].name = SplitExpiry(p.file).name
    /\ OwnerAt(p, pastes[p].owner)

GoodRecord(x, name) ==
  /\ x.path.dir = GetDir(x.type)
  /\ ContentName(x.path.file, name)
  /\ OwnerAt(x.path, x.owner)

(* The records a download or a deletion goes on with, and what has been    *)
(* looked at before it uses one.                                           *)
RecordsOf(x) == x.rows \cup (IF HoldsRecord(x) THEN {x.rec} ELSE {})

Authorised(x) ==
  /\ x.op = "delete" /\ HoldsRecord(x) => CanDelete(x.owner, x.rec)
  /\ x.pc \in {"consume", "delete_metadata"} => x.rec.type \in OneshotTypes

GoodRecords ==
  \A r \in Requests :
    req[r].op \in {"serve", "delete"} =>
      /\ \A x \in RecordsOf(req[r]) : GoodRecord(x, req[r].name)
      /\ Authorised(req[r])

GoodCleaner ==
  /\ cleaner.pc \in {"files", "sidecar"} => \A p \in cleaner.todo : ExpiredOnDisk(p.file, now)
  /\ cleaner.pc = "orphans" => \A p \in cleaner.todo : Suffix(p.file) = PasswordExt

GoodFate(f, u) ==
  /\ u \in Uploads
  /\ CASE f.how = "delete" -> /\ f.by \in Requests /\ req[f.by].op = "delete"
                              /\ req[f.by].owner \in Admins \cup {req[u].owner}
       [] f.how = "rollback" -> f.by = u
       [] f.how = "cleanup" -> req[u].expiry # None /\ req[u].expiry < f.by
       [] f.how = "consumed" -> req[u].type \in OneshotTypes
       [] OTHER -> FALSE

GoodFates == \A u \in Requests : fate[u] # None => GoodFate(fate[u], u)

RemovalInv == NamesDiffer /\ GoodFiles /\ GoodRows /\ GoodRecords /\ GoodCleaner /\ GoodFates

(* A request that goes on keeps its files where they are.                  *)
LEMMA SameFiles ==
  ASSUME NEW x, NEW y, SameRequest(x, y)
  PROVE  /\ PathOf(x) = PathOf(y) /\ SidecarOf(x) = SidecarOf(y)
         /\ \A t : ConsumedPath(x, t) = ConsumedPath(y, t)
         /\ x.type = y.type /\ x.owner = y.owner /\ x.expiry = y.expiry /\ x.name = y.name
         /\ x.op = y.op
BY DEF SameRequest, PathOf, SidecarOf, ConsumedPath

(* Requests after a step: those of before, and at most one that arrives.   *)
LEMMA UploadsMove ==
  ASSUME StateTypes, [Next]_vars
  PROVE  /\ \A u \in Uploads : /\ u \in Requests /\ UploadRecord(req[u]) /\ req[u].owner \in Owners
                               /\ u \in Uploads' /\ SameRequest(req[u], req'[u])
                               /\ ~IsCreating(req[u]) => ~IsCreating(req'[u])
         /\ \A u \in Uploads' : \/ u \in Uploads
                                \/ u \in Requests /\ Arrived(u) /\ server = "up"
                                   /\ UNCHANGED <<pastes, fs, fate, scan, server>>
<1>1. \A u \in Uploads : u \in Requests /\ req[u].op = "upload" /\ UploadRecord(req[u])
                         /\ req[u].owner \in Owners
  BY DEF StateTypes, RequestTypes, GoodRequest, Uploads
<1>2. \A u \in Uploads : u \in Uploads' /\ SameRequest(req[u], req'[u])
  BY <1>1, RequestsStep DEF RequestsKept
<1>3. CASE req' = req
  BY <1>1, <1>2, <1>3 DEF Uploads
<1>4. ASSUME NEW r \in Requests, Step(r)
      PROVE  /\ \A u \in Uploads : ~IsCreating(req[u]) => ~IsCreating(req'[u])
             /\ Uploads' \subseteq Uploads
  <2>1. Handled(r) /\ req \in [Requests -> RequestRecords]
    BY <1>4, StepsHandle DEF StateTypes, RequestTypes
  <2>2. \A u \in Requests : /\ IsCreating(req'[u]) => IsCreating(req[u])
                            /\ req'[u].op = req[u].op
    BY <2>1 DEF Handled, Moved, SameRequest
  <2>. QED
    BY <1>1, <2>2 DEF Uploads
<1>5. ASSUME NEW r \in Requests, Arrival(r)
      PROVE  /\ \A u \in Uploads : ~IsCreating(req[u]) => ~IsCreating(req'[u])
             /\ \A u \in Uploads' : u \in Uploads \/ u = r
             /\ Arrived(r) /\ server = "up" /\ UNCHANGED <<pastes, fs, fate, scan, server>>
  <2>1. /\ Arrived(r) /\ server = "up" /\ UNCHANGED <<pastes, fs, fate, scan, server>>
    BY <1>5, ArrivalsAreGood
  <2>. QED
    BY <1>1, <2>1 DEF Arrived, Uploads
<1>6. ASSUME Crash
      PROVE  /\ \A u \in Uploads : ~IsCreating(req[u]) => ~IsCreating(req'[u])
             /\ Uploads' \subseteq Uploads
  <2>1. \A u \in Requests : req'[u].pc \in {"idle", "done"} /\ SameRequest(req[u], req'[u])
    BY <1>6, CrashedRequests
  <2>. QED
    BY <1>1, <2>1 DEF IsCreating, Uploads, SameRequest
<1>7. \/ req' = req \/ Crash
      \/ \E r \in Requests : Step(r) \/ Arrival(r)
  BY DEF Next, CleanerStep, ConsumeExpired, ScanPastes, Reconcile, Tick, vars
<1>. QED
  BY <1>1, <1>2, <1>3, <1>4, <1>5, <1>6, <1>7

(* Names stay apart.                                                       *)
LEMMA NamesStep ==
  ASSUME DistinctNames, StateTypes, NamesDiffer, [Next]_vars
  PROVE  NamesDiffer'
<1>1. ASSUME NEW u \in Uploads', NEW v \in Uploads', req'[u].name = req'[v].name, u \notin Uploads
      PROVE  u = v
  <2>1. Arrived(u) /\ u \in Requests /\ req'[u].op = "upload" /\ req'[u].name \notin UsedNames
    BY <1>1, UploadsMove DEF Arrived, DistinctNames, Uploads
  <2>2. ASSUME v \in Uploads  PROVE FALSE
    <3>1. req'[v].name = req[v].name /\ v \in Requests /\ req[v].op = "upload"
      BY <2>2, UploadsMove DEF SameRequest, Uploads
    <3>. QED
      BY <1>1, <2>1, <3>1 DEF UsedNames
  <2>3. Arrived(v) /\ v \in Requests
    BY <2>2, UploadsMove
  <2>. QED
    BY <1>1, <2>1, <2>2, <2>3 DEF Arrived, Uploads
<1>2. ASSUME NEW u \in Uploads, NEW v \in Uploads, req'[u].name = req'[v].name  PROVE u = v
  BY <1>2, UploadsMove DEF SameRequest, NamesDiffer
<1>. QED
  BY <1>1, <1>2 DEF NamesDiffer

(* Where a content lies tells whose it is.                                 *)
LEMMA ContentOf ==
  ASSUME DistinctNames, StateTypes, NamesDiffer, GoodFiles,
         NEW p \in DOMAIN fs, fs[p].kind = "content"
  PROVE  LET u == fs[p].by IN
         /\ u \in Uploads /\ u \in Requests /\ UploadRecord(req[u])
         /\ ContentName(p.file, req[u].name) /\ p.dir = GetDir(req[u].type)
         /\ Suffix(p.file) # PasswordExt
         /\ \A n \in UploadNames : ContentName(p.file, n) => n = req[u].name
<1> DEFINE u == fs[p].by
<1>1. u \in Uploads /\ u \in Requests /\ UploadRecord(req[u]) /\ PlainNames
  BY DEF StateTypes, FileTypes, Uploads, RequestTypes, GoodRequest, DistinctNames
<1>2. GoodContent(p, u)
  BY DEF GoodFiles
<1>3. ContentName(p.file, req[u].name) /\ p.dir = GetDir(req[u].type)
  BY <1>1, <1>2, UploadFiles, ConsumedFiles DEF GoodContent
<1>4. req[u].name \in UploadNames
  BY <1>1 DEF UploadRecord
<1>. QED
  BY <1>1, <1>3, <1>4, ContentNames, ContentNameOnce

(* The fates of contents do not change.                                    *)
LEMMA FatesLast ==
  ASSUME StateTypes, [Next]_vars
  PROVE  \A u \in Requests : fate[u] # None => fate'[u] = fate[u]
<1>1. DiskCalls
  BY EveryDiskCall
<1>2. ASSUME NEW p, NEW how, Removes(p, how)
      PROVE  \A u \in Requests : fate[u] # None => fate'[u] = fate[u]
  <2>1. p \in DOMAIN fs /\ fate' = Fated(p, how)
    BY <1>2, RemoveEffect
  <2>. QED
    BY <2>1, FateEffect
<1>3. ASSUME NEW p, NEW q, NEW how, Renames(p, q, how)
      PROVE  \A u \in Requests : fate[u] # None => fate'[u] = fate[u]
  <2>1. p \in DOMAIN fs /\ fate' = Fated(p, how)
    BY <1>3, RenameEffect
  <2>. QED
    BY <2>1, FateEffect
<1>4. ASSUME NEW p, NEW r, NEW kind, Creates(p, r, kind)
      PROVE  fate' = fate
  BY <1>4, CreateEffect
<1>. QED
  BY <1>1, <1>2, <1>3, <1>4 DEF DiskCalls, UnchangedDisk

(* What the record of a download or a deletion is about.                   *)
LEMMA RecordInUse ==
  ASSUME StateTypes, GoodRecords, NEW r \in Requests,
         req[r].op \in {"serve", "delete"}, HoldsRecord(req[r])
  PROVE  /\ GoodRecord(req[r].rec, req[r].name) /\ Authorised(req[r])
         /\ req[r].name \in UploadNames /\ req[r].rec \in Records
         /\ req[r].op = "delete" => req[r].owner \in Owners
<1>1. req[r].rec \in RecordsOf(req[r])
  BY DEF RecordsOf
<1>. QED
  BY <1>1 DEF GoodRecords, StateTypes, RequestTypes, GoodRequest

(* A sidecar is no content.                                                *)
LEMMA SidecarsAreHashes ==
  ASSUME DistinctNames, StateTypes, NamesDiffer, GoodFiles,
         NEW p \in DOMAIN fs, Suffix(p.file) = PasswordExt
  PROVE  fs[p].kind # "content"
BY ContentOf

(* The sidecar of a path ends in the extension.                            *)
LEMMA SidecarSuffix ==
  ASSUME NEW p, p.file \in Seq(AnyParts)
  PROVE  Suffix(PasswordPath(p).file) = PasswordExt
BY AppendParts DEF PasswordPath, PasswordFileName, AnyParts

(* An orphan is a sidecar by its name.                                     *)
LEMMA GoodFateLasts ==
  ASSUME StateTypes, [Next]_vars, NEW f, NEW u, GoodFate(f, u)
  PROVE  GoodFate(f, u)'
<1>1. /\ u \in Uploads' /\ SameRequest(req[u], req'[u])
      /\ \A r \in Requests : req[r].op # "none" => SameRequest(req[r], req'[r])
  BY UploadsMove, RequestsStep DEF GoodFate, RequestsKept
<1>2. /\ req'[u].owner = req[u].owner /\ req'[u].expiry = req[u].expiry
      /\ req'[u].type = req[u].type
      /\ \A r \in Requests : req[r].op = "delete" =>
                               req'[r].op = "delete" /\ req'[r].owner = req[r].owner
  BY <1>1 DEF SameRequest
<1>. QED
  BY <1>1, <1>2 DEF GoodFate

(* A content goes only by right.                                           *)
LEMMA FatesStep ==
  ASSUME DistinctNames, StateTypes, RemovalInv, [Next]_vars
  PROVE  GoodFates'
<1>1. /\ NamesDiffer /\ GoodFiles /\ GoodRecords /\ GoodCleaner /\ GoodFates
      /\ DiskCalls /\ PlainNames
  BY EveryDiskCall DEF RemovalInv, DistinctNames
<1>2. ASSUME NEW u \in Requests, fate'[u] # fate[u]  PROVE GoodFate(fate'[u], u)
  <2>1. ASSUME NEW p, NEW how, p \in DOMAIN fs, fate' = Fated(p, how),
               fs[p].kind = "content" => GoodFate(how, fs[p].by)
        PROVE  GoodFate(fate'[u], u)
    <3>1. fate'[u] = how /\ u = fs[p].by /\ fs[p].kind = "content"
      BY <1>2, <2>1, FateEffect
    <3>. QED
      BY <2>1, <3>1
  <2>2. ASSUME NEW p, NEW how, Removes(p, how), fs[p].kind = "content" => GoodFate(how, fs[p].by)
        PROVE  GoodFate(fate'[u], u)
    BY <2>1, <2>2, RemoveEffect
  <2>3. ASSUME NEW p, NEW how, Removes(p, how), Suffix(p.file) = PasswordExt
        PROVE  GoodFate(fate'[u], u)
    <3>1. p \in DOMAIN fs
      BY <2>3, RemoveEffect
    <3>. QED
      BY <1>1, <2>2, <2>3, <3>1, SidecarsAreHashes
  <2>4. ASSUME NEW r \in Requests, RemoveNewUpload(r),
               Removes(PathOf(req[r]), [how |-> "rollback", by |-> r])
        PROVE  GoodFate(fate'[u], u)
    <3> DEFINE p == PathOf(req[r])
               how == [how |-> "rollback", by |-> r]
    <3>1. r \in Uploads /\ UploadRecord(req[r])
      BY <2>4, OpOfPc, RequestPlaces DEF RemoveNewUpload, At, StateTypes, RequestTypes
    <3>2. ContentName(p.file, req[r].name) /\ req[r].name \in UploadNames
      BY <1>1, <3>1, UploadFiles DEF UploadRecord
    <3>3. p \in DOMAIN fs
      BY <2>4 DEF Removes, IsFile
    <3>4. fs[p].kind = "content" => fs[p].by = r
      BY <1>1, <3>1, <3>2, <3>3, ContentOf DEF NamesDiffer
    <3>5. GoodFate(how, r)
      BY <3>1 DEF GoodFate
    <3>. QED
      BY <2>2, <2>4, <3>4, <3>5
  <2>5. ASSUME NEW r \in Requests, DeletePassword(r), req[r].op = "upload", NEW how,
               Removes(SidecarOf(req[r]), how)
        PROVE  GoodFate(fate'[u], u)
    <3>1. UploadRecord(req[r])
      BY <2>5, RequestPlaces
    <3>. QED
      BY <1>1, <2>3, <2>5, <3>1, UploadFiles
  <2>6. ASSUME NEW r \in Requests, DeletePassword(r), req[r].op # "upload", NEW how,
               Removes(PasswordPath(req[r].rec.path), how)
        PROVE  GoodFate(fate'[u], u)
    <3>1. req[r].op = "delete" /\ HoldsRecord(req[r])
      BY <2>6, OpOfPc DEF DeletePassword, At, StateTypes, RequestTypes, HoldsRecord
    <3>2. GoodRecord(req[r].rec, req[r].name) /\ req[r].name \in UploadNames
      BY <1>1, <3>1, RecordInUse
    <3>3. req[r].rec.path.file \in Seq(AnyParts)
      BY <1>1, <3>2, ContentNames DEF GoodRecord
    <3>. QED
      BY <2>3, <2>6, <3>3, SidecarSuffix
  <2>7. ASSUME NEW r \in Requests, Consume(r), NEW q, NEW how, how.how = "consumed",
               Renames(req[r].rec.path, q, how)
        PROVE  GoodFate(fate'[u], u)
    <3> DEFINE p == req[r].rec.path
    <3>1. req[r].op = "serve" /\ HoldsRecord(req[r]) /\ req[r].pc = "consume"
      BY <2>7, OpOfPc DEF Consume, At, StateTypes, RequestTypes, HoldsRecord
    <3>2. /\ GoodRecord(req[r].rec, req[r].name) /\ req[r].rec.type \in OneshotTypes
      BY <1>1, <3>1, RecordInUse DEF Authorised
    <3>3. p \in DOMAIN fs /\ fate' = Fated(p, how)
      BY <2>7, RenameEffect
    <3>4. ASSUME fs[p].kind = "content"  PROVE GoodFate(how, fs[p].by)
      <4>1. fs[p].by \in Uploads /\ p.dir = GetDir(req[fs[p].by].type)
        BY <1>1, <3>3, <3>4, ContentOf
      <4>2. req[fs[p].by].type \in OneshotTypes
        BY <3>2, <4>1 DEF GoodRecord, GetDir, OneshotTypes
      <4>. QED
        BY <2>7, <4>1, <4>2 DEF GoodFate
    <3>. QED
      BY <2>1, <3>3, <3>4
  <2>8. ASSUME NEW r \in Requests, RemovePasteFile(r),
               Removes(req[r].rec.path, [how |-> "delete", by |-> r])
        PROVE  GoodFate(fate'[u], u)
    <3> DEFINE p == req[r].rec.path
               how == [how |-> "delete", by |-> r]
    <3>1. req[r].op = "delete" /\ HoldsRecord(req[r])
      BY <2>8, OpOfPc DEF RemovePasteFile, At, StateTypes, RequestTypes, HoldsRecord
    <3>2. /\ GoodRecord(req[r].rec, req[r].name) /\ CanDelete(req[r].owner, req[r].rec)
          /\ req[r].name \in UploadNames /\ req[r].owner \in Owners
      BY <1>1, <3>1, RecordInUse DEF Authorised
    <3>3. p \in DOMAIN fs
      BY <2>8 DEF Removes, IsFile
    <3>4. ASSUME fs[p].kind = "content"  PROVE GoodFate(how, fs[p].by)
      <4>1. fs[p].by \in Uploads /\ req[fs[p].by].name = req[r].name
        BY <1>1, <3>2, <3>3, <3>4, ContentOf DEF GoodRecord
      <4>2. ASSUME req[r].owner \notin Admins  PROVE req[r].owner = req[fs[p].by].owner
        <5>1. req[r].rec.owner = req[r].owner /\ req[r].rec.owner # None
          BY <3>2, <4>2, NullAssumption DEF CanDelete
        <5>2. PICK v \in Uploads : p = PathOf(req[v]) /\ req[r].rec.owner = req[v].owner
          BY <3>2, <5>1 DEF GoodRecord, OwnerAt
        <5>3. UploadRecord(req[v]) /\ req[v].name \in UploadNames
          BY <5>2, UploadsMove DEF UploadRecord
        <5>4. ContentName(p.file, req[v].name)
          BY <1>1, <5>2, <5>3, UploadFiles
        <5>5. req[v].name = req[fs[p].by].name
          BY <1>1, <3>3, <3>4, <5>3, <5>4, ContentOf
        <5>6. v = fs[p].by
          BY <1>1, <4>1, <5>2, <5>5 DEF NamesDiffer
        <5>. QED
          BY <5>1, <5>2, <5>6
      <4>. QED
        BY <3>1, <4>1, <4>2 DEF GoodFate
    <3>. QED
      BY <2>2, <2>8, <3>4
  <2>9. ASSUME NEW p \in cleaner.todo, RemoveExpired(p), NEW how,
               how.how = "cleanup" /\ how.by = now, Removes(p, how)
        PROVE  GoodFate(fate'[u], u)
    <3>1. ExpiredOnDisk(p.file, now) /\ p \in DOMAIN fs /\ now \in Nat
      BY <1>1, <2>9 DEF RemoveExpired, GoodCleaner, Removes, IsFile, StateTypes
    <3>2. ASSUME fs[p].kind = "content", fate[fs[p].by] = None  PROVE GoodFate(how, fs[p].by)
      <4>1. fs[p].by \in Uploads /\ UploadRecord(req[fs[p].by]) /\ p = PathOf(req[fs[p].by])
        BY <1>1, <3>1, <3>2, ContentOf DEF GoodFiles, GoodContent
      <4>2. req[fs[p].by].expiry # None /\ req[fs[p].by].expiry < now
        BY <1>1, <3>1, <4>1, ExpiredUpload
      <4>. QED
        BY <2>9, <4>1, <4>2 DEF GoodFate
    <3>3. fate' = Fated(p, how)
      BY <2>9, RemoveEffect
    <3>4. fate'[u] = how /\ u = fs[p].by /\ fs[p].kind = "content" /\ fate[u] = None
      BY <1>2, <3>1, <3>3, FateEffect
    <3>. QED
      BY <3>2, <3>4
  <2>10. ASSUME NEW p \in cleaner.todo, RemoveOrphan(p), NEW how, Removes(p, how)
         PROVE  GoodFate(fate'[u], u)
    BY <1>1, <2>3, <2>10 DEF RemoveOrphan, GoodCleaner
  <2>11. ASSUME RemoveExpiredSidecar, NEW how, Removes(PasswordPath(cleaner.path), how)
         PROVE  GoodFate(fate'[u], u)
    <3>1. cleaner.path \in Locations
      BY <2>11 DEF RemoveExpiredSidecar, StateTypes, CleanerTypes
    <3>. QED
      BY <2>3, <2>11, <3>1, SidecarSuffix DEF Locations
  <2>12. ASSUME fate' = fate  PROVE FALSE
    BY <1>2, <2>12
  <2>13. ASSUME NEW r \in Requests, Consume(r),
                Renames(req[r].rec.path, [req[r].rec.path EXCEPT !.file = Append(req[r].name, now)],
                        [how |-> "consumed", by |-> r])
         PROVE  GoodFate(fate'[u], u)
    BY <2>7, <2>13
  <2>14. ASSUME NEW p \in cleaner.todo, RemoveExpired(p),
                Removes(p, [how |-> "cleanup", by |-> now])
         PROVE  GoodFate(fate'[u], u)
    BY <2>9, <2>14
  <2>. QED
    BY <1>1, <2>4, <2>5, <2>6, <2>8, <2>10, <2>11, <2>12, <2>13, <2>14
       DEF DiskCalls, UnchangedDisk, Creates
<1>3. ASSUME NEW u \in Requests, fate'[u] # None  PROVE GoodFate(fate'[u], u)
  BY <1>1, <1>2, <1>3 DEF GoodFates
<1>4. ASSUME NEW u \in Requests, fate'[u] # None  PROVE GoodFate(fate[u], u)'
  <2>1. PICK f : f = fate'[u]
    OBVIOUS
  <2>2. GoodFate(f, u)
    BY <1>3, <1>4, <2>1
  <2>3. GoodFate(f, u)'
    BY <2>2, GoodFateLasts
  <2>. QED
    BY <2>1, <2>3 DEF GoodFate
<1>. QED
  BY <1>4 DEF GoodFates

(* An upload that has created its content is past creating it.             *)
LEMMA CreationEnds ==
  ASSUME StateTypes, NEW r \in Requests, CreateContent(r), Creates(PathOf(req[r]), r, "content")
  PROVE  ~IsCreating(req'[r])
<1> DEFINE after == IF req[r].type = "remote_file" /\ Deduplicate /\ req[r].expiry = None
                    THEN "find_owner_duplicate" ELSE "insert_paste"
<1>1. Goto(r, after)
  BY DEF CreateContent, Creates, IsFile
<1>2. after \in Pcs /\ RequestTypes
  BY DEF Pcs, PcsOf, StateTypes
<1>3. req'[r].pc = after /\ req'[r].type = req[r].type
  BY <1>1, <1>2, GotoMoves DEF Moved, SameRequest
<1>. QED
  BY <1>3 DEF IsCreating

(* Contents stay where they belong.                                        *)
LEMMA FilesStep ==
  ASSUME DistinctNames, StateTypes, RemovalInv, [Next]_vars
  PROVE  GoodFiles'
<1>1. /\ NamesDiffer /\ GoodFiles /\ GoodRecords /\ DiskCalls /\ PlainNames /\ FileTypes
  BY EveryDiskCall DEF RemovalInv, DistinctNames, StateTypes
<1>2. ASSUME NEW p, NEW u \in Uploads, GoodContent(p, u), ~IsCreating(req[u])
      PROVE  GoodContent(p, u)' /\ ~IsCreating(req'[u])
  <2>1. u \in Requests /\ SameRequest(req[u], req'[u]) /\ ~IsCreating(req'[u])
    BY <1>2, UploadsMove
  <2>2. fate[u] # None => fate'[u] # None
    BY <2>1, FatesLast
  <2>3. /\ PathOf(req[u]) = PathOf(req'[u]) /\ req[u].type = req'[u].type
        /\ \A t : ConsumedPath(req[u], t) = ConsumedPath(req'[u], t)
    BY <2>1, SameFiles
  <2>4. GoodContent(p, u)'
    BY <1>2, <2>2, <2>3 DEF GoodContent
  <2>. QED
    BY <2>1, <2>4
<1>3. ASSUME NEW p, p \in DOMAIN fs, fs[p].kind = "content"
      PROVE  fs[p].by \in Uploads /\ GoodContent(p, fs[p].by) /\ ~IsCreating(req[fs[p].by])
  BY <1>1, <1>3 DEF GoodFiles, FileTypes
(* A file that was there, stays where it belongs.                          *)
<1>4. ASSUME NEW p, p \in DOMAIN fs, p \in DOMAIN fs', fs'[p] = fs[p], fs'[p].kind = "content"
      PROVE  GoodContent(p, fs[p].by)' /\ ~IsCreating(req[fs[p].by])'
  <2>1. PICK u \in Uploads : u = fs[p].by
    BY <1>3, <1>4
  <2>2. GoodContent(p, u) /\ ~IsCreating(req[u])
    BY <1>3, <1>4, <2>1
  <2>3. GoodContent(p, u)' /\ ~IsCreating(req'[u])
    BY <1>2, <2>2
  <2>4. u = fs'[p].by
    BY <1>4, <2>1
  <2>. QED
    BY <2>3, <2>4 DEF GoodContent
<1>5. ASSUME DOMAIN fs' \subseteq DOMAIN fs, \A x \in DOMAIN fs' : fs'[x] = fs[x]
      PROVE  GoodFiles'
  BY <1>4, <1>5 DEF GoodFiles
<1>6. ASSUME NEW p, NEW how, Removes(p, how)  PROVE GoodFiles'
  BY <1>5, <1>6, RemoveEffect
<1>7. ASSUME NEW p, NEW r, NEW kind, Creates(p, r, kind),
             kind = "content" => GoodContent(p, r)' /\ ~IsCreating(req'[r])
      PROVE  GoodFiles'
  <2>1. /\ DOMAIN fs' = DOMAIN fs \cup {p} /\ fs'[p] = [by |-> r, kind |-> kind]
        /\ \A x \in DOMAIN fs : fs'[x] = fs[x]
    BY <1>7, CreateEffect
  <2>2. fs'[p].by = r /\ fs'[p].kind = kind
    BY <2>1
  <2>3. ASSUME kind = "content"  PROVE GoodContent(p, fs[p].by)' /\ ~IsCreating(req[fs[p].by])'
    BY <1>7, <2>2, <2>3 DEF GoodContent
  <2>. QED
    BY <1>4, <2>1, <2>2, <2>3 DEF GoodFiles
<1>8. ASSUME NEW r \in Requests, CreateContent(r), Creates(PathOf(req[r]), r, "content")
      PROVE  GoodFiles'
  <2>1. r \in Uploads
    BY <1>8, OpOfPc DEF CreateContent, At, StateTypes, RequestTypes, Uploads
  <2>2. PathOf(req[r]) = PathOf(req'[r])
    BY <2>1, UploadsMove, SameFiles
  <2>3. PICK p : p = PathOf(req[r])
    OBVIOUS
  <2>4. GoodContent(p, r)'
    BY <2>2, <2>3 DEF GoodContent
  <2>. QED
    BY <1>7, <1>8, <2>3, <2>4, CreationEnds
<1>9. ASSUME NEW r \in Requests, StorePassword(r), NEW p, Creates(p, r, "hash")
      PROVE  GoodFiles'
  BY <1>7, <1>9
<1>10. ASSUME NEW r \in Requests, Consume(r), NEW how, how # None,
              Renames(req[r].rec.path,
                      [req[r].rec.path EXCEPT !.file = Append(req[r].name, now)], how)
       PROVE  GoodFiles'
  <2> DEFINE p == req[r].rec.path
  <2>1. PICK q : q = [p EXCEPT !.file = Append(req[r].name, now)]
    OBVIOUS
  <2>2. /\ DOMAIN fs' = (DOMAIN fs \ {p}) \cup {q} /\ p \in DOMAIN fs
        /\ \A x \in DOMAIN fs' : x # q => fs'[x] = fs[x]
        /\ fs'[q] = fs[p] /\ fate' = Fated(p, how)
    <3>1. Renames(p, q, how)
      BY <1>10, <2>1
    <3>. QED
      BY <3>1, RenameEffect
  <2>3. req[r].op = "serve" /\ HoldsRecord(req[r]) /\ req[r].pc = "consume"
    BY <1>10, OpOfPc DEF Consume, At, StateTypes, RequestTypes, HoldsRecord
  <2>4. /\ GoodRecord(req[r].rec, req[r].name) /\ req[r].rec.type \in OneshotTypes
        /\ req[r].name \in UploadNames /\ p \in Paths
    BY <1>1, <2>3, RecordInUse DEF Authorised, Records
  <2>5. ASSUME fs[p].kind = "content"
        PROVE  GoodContent(q, fs[q].by)' /\ ~IsCreating(req[fs[q].by])'
    <3>1. PICK u \in Uploads : u = fs[p].by
      BY <1>3, <2>2, <2>5
    <3>2. u \in Requests /\ req[u].name = req[r].name /\ p.dir = GetDir(req[u].type)
      BY <1>1, <2>2, <2>4, <2>5, <3>1, ContentOf DEF GoodRecord
    <3>3. req[u].type \in OneshotTypes
      BY <2>4, <3>2 DEF GoodRecord, GetDir, OneshotTypes
    <3>4. q = ConsumedPath(req[u], now)
      BY <2>1, <2>4, <3>2 DEF ConsumedPath, Paths
    <3>5. fate'[u] # None
      BY <1>10, <2>2, <2>5, <3>1, FateEffect
    <3>6. ~IsCreating(req'[u]) /\ SameRequest(req[u], req'[u])
      BY <1>3, <2>2, <2>5, <3>1, UploadsMove
    <3>7. q = ConsumedPath(req'[u], now) /\ req'[u].type \in OneshotTypes
      BY <3>3, <3>4, <3>6, SameFiles
    <3>8. now \in Nat
      BY DEF StateTypes
    <3>9. GoodContent(q, u)'
      BY <3>5, <3>7, <3>8 DEF GoodContent
    <3>. QED
      BY <2>2, <3>1, <3>6, <3>9 DEF GoodContent
  <2>. QED
    BY <1>4, <2>2, <2>5 DEF GoodFiles
<1>11. \A r \in Requests : [how |-> "consumed", by |-> r] # None
  BY FateAssumption DEF Requests
<1>. QED
  BY <1>1, <1>5, <1>6, <1>8, <1>9, <1>10, <1>11 DEF DiskCalls, UnchangedDisk

(* What the cleanup thread is about to remove, has expired or is a sidecar *)
LEMMA CleanerInvStep ==
  ASSUME StateTypes, GoodCleaner, [Next]_vars
  PROVE  GoodCleaner'
<1>1. CleanerTypes /\ now \in Nat
  BY DEF StateTypes
<1>2. ASSUME NEW f, NEW t \in {now, now + 1}, ExpiredOnDisk(f, now)
      PROVE  ExpiredOnDisk(f, t)
  <2>1. Numeric(f) /\ now > Suffix(f) /\ Suffix(f) \in Nat
    BY <1>2, PartsAssumption DEF ExpiredOnDisk, Numeric, Suffix
  <2>2. t > Suffix(f)
    BY <1>1, <2>1
  <2>. QED
    BY <2>1, <2>2 DEF ExpiredOnDisk
<1>3. CASE cleaner' = cleaner /\ now' \in {now, now + 1}
  BY <1>2, <1>3 DEF GoodCleaner
<1>4. ASSUME NEW r \in Requests, Arrival(r) \/ Step(r)
      PROVE  cleaner' = cleaner /\ now' = now
  BY <1>4, ArrivalsAreGood
     DEF Step, FindOwnerDuplicate, CheckDuplicate, DeleteStale, GlobMatch, StorePassword,
         CreateContent, PersistPasteMetadata, CheckWinner, DropWinner, RemoveNewUpload,
         DeletePassword, FindPastes, IsFileStep, HasPassword, Open, Consume, DeleteMetadata,
         RemovePasteFile, DeleteRow, UnchangedProcess
<1>5. CASE ScanPastes \/ Reconcile \/ Tick \/ ConsumeExpired \/ UNCHANGED vars
  <2>1. cleaner' = cleaner /\ now' \in {now, now + 1}
    BY <1>5 DEF ScanPastes, Reconcile, Tick, ConsumeExpired, vars
  <2>. QED
    BY <1>3, <2>1
<1>6. CASE Crash
  BY <1>6 DEF Crash, CleanerIdle, GoodCleaner
<1>7. CASE CleanerStep
  <2>1. now' = now
    BY <1>7 DEF CleanerStep
  <2>2. CASE ListExpired
    BY <1>1, <2>1, <2>2 DEF ListExpired, GoodCleaner, CleanerTypes
  <2>3. CASE ListOrphans
    BY <1>1, <2>1, <2>3 DEF ListOrphans, GoodCleaner, CleanerTypes, Orphans, Suffix
  <2>4. ASSUME NEW p \in cleaner.todo, RemoveExpired(p)  PROVE GoodCleaner'
    <3>1. CASE cleaner' = [pc |-> "sidecar", todo |-> cleaner.todo \ {p}, path |-> p]
      BY <2>1, <2>4, <3>1 DEF GoodCleaner, RemoveExpired
    <3>2. CASE cleaner' = [cleaner EXCEPT !.todo = @ \ {p}]
      BY <1>1, <2>1, <2>4, <3>2 DEF GoodCleaner, RemoveExpired, CleanerTypes
    <3>. QED
      BY <2>4, <3>1, <3>2 DEF RemoveExpired
  <2>5. ASSUME NEW p \in cleaner.todo, RemoveOrphan(p)  PROVE GoodCleaner'
    BY <1>1, <2>1, <2>5 DEF GoodCleaner, RemoveOrphan, CleanerTypes
  <2>6. CASE RemoveExpiredSidecar
    BY <1>1, <2>1, <2>6 DEF GoodCleaner, RemoveExpiredSidecar, CleanerTypes
  <2>. QED
    BY <1>7, <2>2, <2>3, <2>4, <2>5, <2>6 DEF CleanerStep
<1>. QED
  BY <1>1, <1>3, <1>4, <1>5, <1>6, <1>7 DEF Next

(* A path stays that of its owner.                                         *)
LEMMA OwnerAtLasts ==
  ASSUME StateTypes, [Next]_vars, NEW p, NEW owner, OwnerAt(p, owner)
  PROVE  OwnerAt(p, owner)'
<1>1. ASSUME owner # None  PROVE \E u \in Uploads' : p = PathOf(req'[u]) /\ owner = req'[u].owner
  <2>1. PICK u \in Uploads : p = PathOf(req[u]) /\ owner = req[u].owner
    BY <1>1 DEF OwnerAt
  <2>2. u \in Uploads' /\ SameRequest(req[u], req'[u])
    BY UploadsMove
  <2>3. PathOf(req[u]) = PathOf(req'[u]) /\ req[u].owner = req'[u].owner
    BY <2>2, SameFiles
  <2>. QED
    BY <2>1, <2>2, <2>3
<1>. QED
  BY <1>1 DEF OwnerAt

(* What a new row must be like, as seen before the step.                   *)
RowFits(p) ==
  /\ p.dir = GetDir(pastes'[p].type)
  /\ pastes'[p].name = SplitExpiry(p.file).name
  /\ OwnerAt(p, pastes'[p].owner)

(* Rows stay about the paths of their owners.                              *)
LEMMA RowsStep ==
  ASSUME DistinctNames, StateTypes, RemovalInv, [Next]_vars
  PROVE  GoodRows'
<1>1. /\ pastes \in Tables /\ pastes' \in Tables /\ GoodRows /\ TableCalls /\ PlainNames
      /\ gen \in Nat
  BY EveryTableCall, TableTyped DEF StateTypes, RemovalInv, DistinctNames
<1>2. ASSUME NEW p \in Present(pastes)'
      PROVE  RowFits(p)
  <2>1. p \in Paths /\ pastes'[p] # NoRow
    BY DEF Present
  <2>2. CASE p \in Present(pastes) /\ pastes'[p] = pastes[p]
    BY <1>1, <2>2 DEF GoodRows, RowFits
  <2>3. ASSUME NEW r \in Uploads, RowsFrom(pastes, pastes', NewPasteOf(req[r]))
        PROVE  RowFits(p)
    <3>1. UploadRecord(req[r])
      BY UploadsMove
    <3>2. /\ NewPasteOf(req[r]).owner = req[r].owner /\ NewPasteOf(req[r]).name = req[r].name
          /\ NewPasteOf(req[r]).type = req[r].type
      BY DEF NewPasteOf
    <3>3. CASE /\ p \in Present(pastes)
               /\ pastes'[p].owner = pastes[p].owner /\ pastes'[p].name = pastes[p].name
               /\ pastes'[p].type = pastes[p].type
      BY <1>1, <3>3 DEF GoodRows, RowFits
    <3>4. CASE /\ p = PathOf(NewPasteOf(req[r]))
               /\ pastes'[p].owner = req[r].owner /\ pastes'[p].name = req[r].name
               /\ pastes'[p].type = req[r].type
      <4>1. p = PathOf(req[r])
        BY <3>4, InsertOfFields
      <4>2. p.dir = GetDir(req[r].type)
        BY <1>1, <3>1, <4>1, UploadFiles
      <4>3. SplitExpiry(p.file).name = req[r].name
        BY <1>1, <3>1, <4>1, ScanOfUpload
      <4>. QED
        BY <3>4, <4>1, <4>2, <4>3 DEF OwnerAt, RowFits
    <3>. QED
      BY <2>3, <3>2, <3>3, <3>4 DEF RowsFrom
  <2>4. ASSUME NEW r \in Uploads,
               \/ pastes' = InsertPaste(pastes, NewPasteOf(req[r]), gen, Seconds(now)).table
               \/ pastes' =
                           InsertPasteDeduplicated(pastes, NewPasteOf(req[r]),
                                                   gen, Seconds(now)).table
        PROVE  RowFits(p)
    BY <1>1, <2>3, <2>4, NewPasteType, InsertPasteFrom
  <2>5. ASSUME NEW q, NEW g,
               pastes' = DeletePaste(pastes, q, g) \/ pastes' = DeletePasteByPath(pastes, q)
        PROVE  RowFits(p)
    BY <1>1, <2>1, <2>2, <2>5 DEF DeletePaste, DeletePasteByPath, Present, Tables
  <2>6. ASSUME Reconcile, pastes' = ReconcilePastes(pastes, Found, scan.kept, gen)
        PROVE  RowFits(p)
    <3>1. Found \in [DOMAIN scan.found \cap Paths -> Hashes] /\ scan.kept \in SUBSET Paths
      BY FoundType
    <3>2. \/ pastes'[p] = pastes[p] /\ p \in Present(pastes)
          \/ /\ pastes'[p].name = SplitExpiry(p.file).name
             /\ pastes'[p].type = TypeOfDir(p.dir)
             /\ \/ pastes'[p].owner = None
                \/ p \in Present(pastes) /\ pastes'[p].owner = pastes[p].owner
      BY <1>1, <2>1, <2>6, <3>1, ReconcileEffect
    <3>3. GetDir(TypeOfDir(p.dir)) = p.dir
      BY <2>1, TypesAssumption DEF Paths, GetDir, TypeOfDir, PasteTypes
    <3>. QED
      BY <1>1, <2>2, <3>2, <3>3 DEF GoodRows, OwnerAt, RowFits
  <2>7. CASE pastes' = pastes
    BY <2>1, <2>2, <2>7 DEF Present
  <2>. QED
    BY <1>1, <2>4, <2>5, <2>6, <2>7 DEF TableCalls
<1>3. ASSUME NEW p \in Present(pastes)'
      PROVE  OwnerAt(p, pastes[p].owner)'
  <2>1. PICK owner : owner = pastes'[p].owner
    OBVIOUS
  <2>2. OwnerAt(p, owner)'
    BY <1>2, <2>1, OwnerAtLasts DEF RowFits
  <2>. QED
    BY <2>1, <2>2 DEF OwnerAt
<1>. QED
  BY <1>2, <1>3 DEF GoodRows, RowFits

(* A record stays about the path of its owner.                             *)
LEMMA GoodRecordLasts ==
  ASSUME StateTypes, [Next]_vars, NEW x, NEW name, GoodRecord(x, name)
  PROVE  GoodRecord(x, name)'
BY OwnerAtLasts DEF GoodRecord

(* A row that is found by its name leads to the paste of this name.        *)
LEMMA RowsFoundAreGood ==
  ASSUME StateTypes, GoodRows, NEW name \in UploadNames,
         NEW p \in RowsByPublicName(pastes, name, Seconds(now))
  PROVE  GoodRecord(RecordAt(p), name)
<1>1. p \in Present(pastes) /\ pastes[p].name = name /\ p \in Paths
  BY DEF RowsByPublicName, Present
<1>2. /\ p.dir = GetDir(pastes[p].type) /\ SplitExpiry(p.file).name = name
      /\ OwnerAt(p, pastes[p].owner)
  BY <1>1 DEF GoodRows
<1>3. ContentName(p.file, name)
  BY <1>1, <1>2, ScanNames
<1>4. /\ RecordAt(p).path = p /\ RecordAt(p).owner = pastes[p].owner
      /\ RecordAt(p).type = pastes[p].type
  BY <1>1, RecordType DEF StateTypes
<1>. QED
  BY <1>2, <1>3, <1>4 DEF GoodRecord

(* How a download or a deletion comes by its record, and what it has       *)
(* looked at when it uses it.                                              *)
LEMMA RecordsMove ==
  ASSUME StateTypes, GoodRows, GoodRecords, NEW r \in Requests, Step(r),
         req[r].op \in {"serve", "delete"}
  PROVE  /\ \A x \in RecordsOf(req'[r]) : GoodRecord(x, req[r].name)
         /\ Authorised(req'[r])
<1>1. /\ req[r] \in RequestRecords /\ GoodRequest(req[r]) /\ RequestTypes /\ Handled(r)
      /\ req[r].name \in UploadNames
  BY StepsHandle DEF StateTypes, RequestTypes, GoodRequest
<1>2. /\ \A x \in RecordsOf(req[r]) : GoodRecord(x, req[r].name)
      /\ Authorised(req[r])
  BY DEF GoodRecords
<1>3. req'[r].op = req[r].op /\ req'[r].owner = req[r].owner
  BY <1>1 DEF Handled, Moved, SameRequest
<1>4. ASSUME RecordKept(r), HoldsRecord(req[r]),
             req'[r].pc \in {"consume", "delete_metadata"} => req[r].rec.type \in OneshotTypes
      PROVE  /\ \A x \in RecordsOf(req'[r]) : GoodRecord(x, req[r].name)
             /\ Authorised(req'[r])
  BY <1>2, <1>3, <1>4 DEF RecordKept, RecordsOf, Authorised
<1>5. ASSUME RecordKept(r), req'[r].pc = "done"
      PROVE  /\ \A x \in RecordsOf(req'[r]) : GoodRecord(x, req[r].name)
             /\ Authorised(req'[r])
  <2>1. ~HoldsRecord(req'[r])
    BY <1>5 DEF HoldsRecord
  <2>. QED
    BY <1>2, <1>5, <2>1 DEF RecordKept, RecordsOf, Authorised
<1>6. CASE FindPastes(r)
  <2> DEFINE rows == {RecordAt(p) : p \in RowsByPublicName(pastes, req[r].name, Seconds(now))}
  <2>1. rows \in SUBSET Records
    BY RecordType DEF RowsByPublicName, StateTypes
  <2>2. \A x \in rows : GoodRecord(x, req[r].name)
    BY <1>1, RowsFoundAreGood
  <2>3. SetRows(r, rows, "is_file")
    BY <1>6 DEF FindPastes, SetRows
  <2> HIDE DEF rows
  <2>4. "is_file" \in Pcs
    BY DEF Pcs, PcsOf
  <2>5. req'[r].pc = "is_file" /\ req'[r].rows = rows
    BY <1>1, <2>1, <2>3, <2>4, RowsMove
  <2>6. ~HoldsRecord(req'[r])
    BY <2>5 DEF HoldsRecord
  <2>. QED
    BY <2>2, <2>5, <2>6 DEF RecordsOf, Authorised
<1>7. CASE IsFileStep(r)
  <2>1. ASSUME NEW status \in {"not_found", "forbidden"}, Reply(r, status)
        PROVE  RecordKept(r) /\ req'[r].pc = "done"
    <3>1. status \in Statuses
      BY DEF Statuses
    <3>. QED
      BY <1>1, <2>1, <3>1, ReplyMoves
  <2>2. ASSUME NEW x \in FirstFile(req[r].rows),
               req[r].op = "delete" => CanDelete(req[r].owner, x),
               req' = [req EXCEPT ![r].rec = x, ![r].rows = {},
                         ![r].pc = IF req[r].op = "delete" THEN "remove_file"
                                                           ELSE "has_password"]
        PROVE  /\ \A z \in RecordsOf(req'[r]) : GoodRecord(z, req[r].name)
               /\ Authorised(req'[r])
    <3> DEFINE next == IF req[r].op = "delete" THEN "remove_file" ELSE "has_password"
    <3>1. x \in req[r].rows /\ TakeRecord(r, x, next)
      BY <2>2 DEF FirstFile, TakeRecord
    <3>2. x \in Records /\ GoodRecord(x, req[r].name)
      BY <1>1, <1>2, <3>1 DEF RequestRecords, RecordsOf
    <3>3. next \in Pcs /\ next \in {"remove_file", "has_password"}
      BY DEF Pcs, PcsOf
    <3> HIDE DEF next
    <3>4. req'[r].pc = next /\ req'[r].rec = x /\ req'[r].rows = {}
      BY <1>1, <3>1, <3>2, <3>3, FirstMoves
    <3>. QED
      BY <1>3, <2>2, <3>2, <3>3, <3>4 DEF RecordsOf, Authorised
  <2>. QED
    BY <1>5, <1>7, <2>1, <2>2 DEF IsFileStep
<1>8. CASE HasPassword(r) \/ Open(r) \/ Consume(r) \/ DeleteMetadata(r)
  <2>1. RecordKept(r) /\ HoldsRecord(req[r])
    BY <1>8, DownloadsHandled DEF HasPassword, Open, Consume, DeleteMetadata, At, HoldsRecord
  <2>2. req'[r].pc \in {"consume", "delete_metadata"} => req[r].rec.type \in OneshotTypes
    <3>1. CASE HasPassword(r)
      <4>1. Goto(r, "open") \/ Reply(r, "not_found")
        BY <3>1 DEF HasPassword
      <4>2. "open" \in Pcs /\ "not_found" \in Statuses
        BY DEF Pcs, PcsOf, Statuses
      <4>3. req'[r].pc \in {"open", "done"}
        BY <1>1, <4>1, <4>2, GotoMoves, ReplyMoves
      <4>. QED
        BY <4>3
    <3>2. CASE Open(r)
      <4>1. CASE req[r].rec.type \in OneshotTypes
        BY <4>1
      <4>2. CASE req[r].rec.type \notin OneshotTypes
        <5>1. \/ Reply(r, "error")
              \/ IsFile(req[r].rec.path) /\ Answer(r, fs[req[r].rec.path].by, "done")
          BY <3>2, <4>2 DEF Open, OneshotTypes
        <5>2. "done" \in Pcs /\ "error" \in Statuses
          BY DEF Pcs, PcsOf, Statuses
        <5>3. IsFile(req[r].rec.path) => fs[req[r].rec.path].by \in Requests
          BY DEF StateTypes, FileTypes, FileRecords, IsFile
        <5>4. req'[r].pc = "done"
          BY <1>1, <5>1, <5>2, <5>3, AnswerMoves, ReplyMoves
        <5>. QED
          BY <5>4
      <4>. QED
        BY <4>1, <4>2
    <3>3. CASE Consume(r)
      BY <1>2, <3>3 DEF Consume, At, Authorised
    <3>4. CASE DeleteMetadata(r)
      BY <1>2, <3>4 DEF DeleteMetadata, At, Authorised
    <3>. QED
      BY <1>8, <3>1, <3>2, <3>3, <3>4
  <2>. QED
    BY <1>4, <2>1, <2>2
<1>9. CASE RemovePasteFile(r) \/ DeleteRow(r)
  <2>1. RecordKept(r) /\ req[r].op = "delete" /\ HoldsRecord(req[r]) /\ GoodRequest(req'[r])
    BY <1>1, <1>9, DeletionsHandled DEF RemovePasteFile, DeleteRow, At, HoldsRecord, Handled
  <2>2. req'[r].pc \notin {"consume", "delete_metadata"}
    BY <1>3, <2>1, OpOfPc
  <2>. QED
    BY <1>4, <2>1, <2>2
<1>10. CASE DeletePassword(r)
  <2>1. req[r].op = "delete" /\ HoldsRecord(req[r])
    BY <1>1, <1>10, OpOfPc DEF DeletePassword, At, HoldsRecord
  <2>2. Goto(r, "delete_paste") /\ "delete_paste" \in Pcs
    BY <1>10, <2>1 DEF DeletePassword, Pcs, PcsOf
  <2>3. RecordKept(r) /\ req'[r].pc = "delete_paste"
    BY <1>1, <2>2, GotoMoves
  <2>. QED
    BY <1>4, <2>1, <2>3
<1>11. \/ FindPastes(r) \/ IsFileStep(r) \/ HasPassword(r) \/ Open(r)
       \/ Consume(r) \/ DeleteMetadata(r) \/ RemovePasteFile(r) \/ DeleteRow(r) \/ DeletePassword(r)
  BY <1>1, OpOfPc
     DEF Step, FindOwnerDuplicate, CheckDuplicate, DeleteStale, GlobMatch, StorePassword,
         CreateContent, PersistPasteMetadata, CheckWinner, DropWinner, RemoveNewUpload, At
<1>. QED
  BY <1>6, <1>7, <1>8, <1>9, <1>10, <1>11

(* The records of all requests stay good.                                  *)
LEMMA RecordsStep ==
  ASSUME StateTypes, RemovalInv, [Next]_vars
  PROVE  GoodRecords'
<1>1. GoodRows /\ GoodRecords /\ req \in [Requests -> RequestRecords]
  BY DEF RemovalInv, StateTypes, RequestTypes
<1>2. ASSUME NEW q \in Requests, NEW n, \A x \in RecordsOf(req'[q]) : GoodRecord(x, n)
      PROVE  \A x \in RecordsOf(req'[q]) : GoodRecord(x, n)'
  <2>1. \A x : GoodRecord(x, n) => GoodRecord(x, n)'
    BY GoodRecordLasts
  <2>. QED
    BY <1>2, <2>1
<1>3. ASSUME NEW q \in Requests, req'[q].op \in {"serve", "delete"}
      PROVE  /\ \A x \in RecordsOf(req'[q]) : GoodRecord(x, req'[q].name)
             /\ Authorised(req'[q])
  <2>1. CASE req'[q] = req[q]
    BY <1>1, <1>3, <2>1 DEF GoodRecords
  <2>2. ASSUME NEW r \in Requests, Step(r), req'[q] # req[q]
        PROVE  /\ \A x \in RecordsOf(req'[q]) : GoodRecord(x, req'[q].name)
               /\ Authorised(req'[q])
    <3>1. q = r /\ req'[q].op = req[q].op /\ req'[q].name = req[q].name
      BY <2>2, StepsHandle DEF Handled, Moved, SameRequest
    <3>. QED
      BY <1>1, <1>3, <2>2, <3>1, RecordsMove
  <2>3. ASSUME NEW r \in Requests, Arrival(r), req'[q] # req[q]
        PROVE  /\ \A x \in RecordsOf(req'[q]) : GoodRecord(x, req'[q].name)
               /\ Authorised(req'[q])
    <3>1. q = r /\ ~HoldsRecord(req'[q]) /\ req'[q].rows = {}
      BY <2>3, ArrivalsAreGood DEF Arrived
    <3>. QED
      BY <3>1 DEF RecordsOf, Authorised, HoldsRecord
  <2>4. ASSUME Crash, req'[q] # req[q]
        PROVE  /\ \A x \in RecordsOf(req'[q]) : GoodRecord(x, req'[q].name)
               /\ Authorised(req'[q])
    <3>1. /\ req'[q].pc = "done" /\ req'[q].rows = req[q].rows
          /\ req'[q].op = req[q].op /\ req'[q].name = req[q].name
      BY <2>4, CrashedRequests DEF LostOrKept, SameRequest
    <3>2. ~HoldsRecord(req'[q])
      BY <3>1 DEF HoldsRecord
    <3>3. \A x \in RecordsOf(req[q]) : GoodRecord(x, req[q].name)
      BY <1>1, <1>3, <3>1 DEF GoodRecords
    <3>. QED
      BY <3>1, <3>2, <3>3 DEF RecordsOf, Authorised
  <2>5. \/ req' = req \/ Crash
        \/ \E r \in Requests : Step(r) \/ Arrival(r)
    BY DEF Next, CleanerStep, ConsumeExpired, ScanPastes, Reconcile, Tick, vars
  <2>. QED
    BY <2>1, <2>2, <2>3, <2>4, <2>5
<1>4. ASSUME NEW q \in Requests, req'[q].op \in {"serve", "delete"}
      PROVE  /\ \A x \in RecordsOf(req'[q]) : GoodRecord(x, req[q].name)'
             /\ Authorised(req'[q])
  <2>1. PICK n : n = req'[q].name
    OBVIOUS
  <2>2. \A x \in RecordsOf(req'[q]) : GoodRecord(x, n)'
    BY <1>2, <1>3, <1>4, <2>1
  <2>. QED
    BY <1>3, <1>4, <2>1, <2>2 DEF GoodRecord
<1>. QED
  BY <1>4 DEF GoodRecords

(* The invariant holds at the start and is kept.                           *)
LEMMA RemovalInvHolds == DistinctNames => (Spec => [](StateTypes /\ RemovalInv))
<1> SUFFICES ASSUME DistinctNames  PROVE Spec => [](StateTypes /\ RemovalInv)
  OBVIOUS
<1>1. Init => RemovalInv
  <2> SUFFICES ASSUME Init  PROVE RemovalInv
    OBVIOUS
  <2>1. \A r \in Requests : req[r].op = "none" /\ fate[r] = None
    BY DEF Init, NoRequest
  <2>2. NamesDiffer /\ GoodRecords /\ GoodFates
    BY <2>1 DEF NamesDiffer, GoodRecords, GoodFates, Uploads
  <2>3. GoodFiles /\ GoodRows /\ GoodCleaner
    BY DEF Init, GoodFiles, GoodRows, GoodCleaner, CleanerIdle, Present
  <2>. QED
    BY <2>2, <2>3 DEF RemovalInv
<1>2. StateTypes /\ RemovalInv /\ [Next]_vars => RemovalInv'
  <2> SUFFICES ASSUME StateTypes, RemovalInv, [Next]_vars  PROVE RemovalInv'
    OBVIOUS
  <2>1. NamesDiffer /\ GoodCleaner
    BY DEF RemovalInv
  <2>. QED
    BY <2>1, NamesStep, FilesStep, RowsStep, RecordsStep, CleanerInvStep, FatesStep DEF RemovalInv
<1>. QED
  BY <1>1, <1>2, TypesAtStart, TypesStep, PTL DEF Spec

(* Content is removed by right only: by its owner or an administrator, by  *)
(* the upload's own roll-back, by cleanup after its expiry, or because the *)
(* one-shot paste was viewed.  It holds under any interleaving of handlers,*)
(* cleanup, crashes and database failures as long as names are used once;  *)
(* handlers check the row and act on the path, in separate calls.          *)
THEOREM OnlyByRight == DistinctNames => (Spec => []RemovalIsAuthorised)
<1>1. RemovalInv => RemovalIsAuthorised
  BY DEF RemovalInv, GoodFates, GoodFate, RemovalIsAuthorised, OneshotTypes
<1>. QED
  BY <1>1, RemovalInvHolds, PTL

------------------------------------------------------------------------------
(* What each step of a handler does to its request.                        *)

AnswerKept(r) == req'[r].seen = req[r].seen /\ req'[r].status = req[r].status

GoesOn(r, pc) == Moved(r) /\ RecordKept(r) /\ AnswerKept(r) /\ req'[r].pc = pc

Turns(r, status, pc) ==
  /\ Moved(r) /\ RecordKept(r)
  /\ req'[r].pc = pc /\ req'[r].status = status /\ req'[r].seen = req[r].seen

Answers(r, u, pc) ==
  /\ Moved(r) /\ RecordKept(r)
  /\ req'[r].pc = pc /\ req'[r].status = "ok" /\ req'[r].seen = u

Sees(r, u, pc) ==
  /\ Moved(r) /\ RecordKept(r)
  /\ req'[r].pc = pc /\ req'[r].status = req[r].status /\ req'[r].seen = u

Holds(r, x, pc) ==
  Moved(r) /\ AnswerKept(r) /\ req'[r].pc = pc /\ req'[r].rec = x

(* The ways to change a request come to that.                              *)
LEMMA Outcomes ==
  ASSUME StateTypes, NEW r \in Requests
  PROVE  /\ \A pc \in Pcs : Goto(r, pc) => GoesOn(r, pc)
         /\ \A status \in Statuses : Reply(r, status) => Turns(r, status, "done")
         /\ \A status \in Statuses, pc \in Pcs :
              req' = [req EXCEPT ![r].status = status, ![r].pc = pc] => Turns(r, status, pc)
         /\ \A u \in Requests, pc \in Pcs : Answer(r, u, pc) => Answers(r, u, pc)
         /\ \A u \in Requests, pc \in Pcs :
              req' = [req EXCEPT ![r].seen = u, ![r].pc = pc] => Sees(r, u, pc)
         /\ \A x \in Records, pc \in Pcs :
              req' = [req EXCEPT ![r].pc = pc, ![r].rec = x] => Holds(r, x, pc)
         /\ \A x \in Records, pc \in Pcs :
              req' = [req EXCEPT ![r].rec = x, ![r].rows = {}, ![r].pc = pc]
              => Holds(r, x, pc) /\ req'[r].rows = {}
<1>1. RequestTypes
  BY DEF StateTypes
<1>2. ASSUME NEW pc \in Pcs, Goto(r, pc)  PROVE GoesOn(r, pc)
  BY <1>1, <1>2, GotoMoves DEF GoesOn, AnswerKept
<1>3. ASSUME NEW status \in Statuses, Reply(r, status)  PROVE Turns(r, status, "done")
  BY <1>1, <1>3, ReplyMoves DEF Turns
<1>4. ASSUME NEW status \in Statuses, NEW pc \in Pcs,
             req' = [req EXCEPT ![r].status = status, ![r].pc = pc]
      PROVE  Turns(r, status, pc)
  <2>1. SetStatus(r, status, pc)
    BY <1>4 DEF SetStatus
  <2>. QED
    BY <1>1, <2>1, StatusMoves DEF Turns
<1>5. ASSUME NEW u \in Requests, NEW pc \in Pcs, Answer(r, u, pc)  PROVE Answers(r, u, pc)
  BY <1>1, <1>5, AnswerMoves DEF Answers
<1>6. ASSUME NEW u \in Requests, NEW pc \in Pcs,
             req' = [req EXCEPT ![r].seen = u, ![r].pc = pc]
      PROVE  Sees(r, u, pc)
  <2>1. SetSeen(r, u, pc)
    BY <1>6 DEF SetSeen
  <2>. QED
    BY <1>1, <2>1, SeenMoves DEF Sees
<1>7. ASSUME NEW x \in Records, NEW pc \in Pcs,
             req' = [req EXCEPT ![r].pc = pc, ![r].rec = x]
      PROVE  Holds(r, x, pc)
  <2>1. SetRecord(r, x, pc)
    BY <1>7 DEF SetRecord
  <2>. QED
    BY <1>1, <2>1, RecordMoves DEF Holds, AnswerKept
<1>8. ASSUME NEW x \in Records, NEW pc \in Pcs,
             req' = [req EXCEPT ![r].rec = x, ![r].rows = {}, ![r].pc = pc]
      PROVE  Holds(r, x, pc) /\ req'[r].rows = {}
  <2>1. TakeRecord(r, x, pc)
    BY <1>8 DEF TakeRecord
  <2>. QED
    BY <1>1, <2>1, FirstMoves DEF Holds, AnswerKept
<1>. QED
  BY <1>2, <1>3, <1>4, <1>5, <1>6, <1>7, <1>8

(* A handler takes a step while the server is up, and is not done before.  *)
LEMMA StepsRun ==
  ASSUME StateTypes, NEW r \in Requests, Step(r)
  PROVE  /\ server = "up" /\ server' = "up" /\ InProgress(r)
         /\ UNCHANGED <<now, scan, cleaner, expired, crashes>>
         /\ \A q \in Requests \ {r} : req'[q] = req[q]
<1>1. Moved(r)
  BY StepsHandle DEF Handled
<1>2. UnchangedProcess /\ \E pc \in Pcs \ {"idle", "done"} : At(r, pc)
  BY DEF Step, FindOwnerDuplicate, CheckDuplicate, DeleteStale, GlobMatch, StorePassword,
         CreateContent, PersistPasteMetadata, CheckWinner, DropWinner, RemoveNewUpload,
         DeletePassword, FindPastes, IsFileStep, HasPassword, Open, Consume, DeleteMetadata,
         RemovePasteFile, DeleteRow, Pcs, PcsOf
<1>. QED
  BY <1>1, <1>2 DEF UnchangedProcess, At, InProgress, Moved

(* find_owner_duplicate.                                                   *)
LEMMA FindOwnerDuplicateDoes ==
  ASSUME StateTypes, NEW r \in Requests, FindOwnerDuplicate(r)
  PROVE  /\ req[r].pc = "find_owner_duplicate" /\ req[r].op = "upload"
         /\ UNCHANGED <<pastes, fs, fate>>
         /\ \/ GoesOn(r, AfterCheck(r)) /\ UNCHANGED faults
            \/ \E p \in OwnerDuplicates(req[r].owner, req[r].hash) :
                 RecordAt(p) \in Records /\ Holds(r, RecordAt(p), "check_duplicate")
            \/ DatabaseFails /\ Turns(r, "error", "done")
<1>1. {AfterCheck(r), "check_duplicate"} \subseteq Pcs /\ "error" \in Statuses
  BY DEF AfterCheck, StoreStep, Pcs, PcsOf, Statuses
<1>2. \A p \in OwnerDuplicates(req[r].owner, req[r].hash) : RecordAt(p) \in Records
  BY RecordType DEF OwnerDuplicates, StateTypes
<1>3. req[r].op = "upload"
  BY OpOfPc DEF FindOwnerDuplicate, At, StateTypes, RequestTypes
<1>. QED
  BY <1>1, <1>2, <1>3, Outcomes
     DEF FindOwnerDuplicate, At, UnchangedTable, UnchangedDisk

(* The check of the duplicate's file.                                      *)
LEMMA CheckDuplicateDoes ==
  ASSUME StateTypes, NEW r \in Requests, CheckDuplicate(r)
  PROVE  LET p == req[r].rec.path
             fits == IsCompatibleDuplicate(req[r].type, req[r].rec.type)
         IN  /\ req[r].pc = "check_duplicate" /\ req[r].op = "upload" /\ HoldsRecord(req[r])
             /\ UNCHANGED <<pastes, fs, fate, faults>>
             /\ \/ p \notin DOMAIN fs /\ GoesOn(r, "delete_stale")
                \/ p \in DOMAIN fs /\ ~fits /\ GoesOn(r, AfterCheck(r))
                \/ p \in DOMAIN fs /\ fits /\ req[r].type = "remote_file"
                   /\ Answers(r, fs[p].by, "remove_new_upload")
                \/ p \in DOMAIN fs /\ fits /\ req[r].type # "remote_file"
                   /\ Answers(r, fs[p].by, "done")
<1>1. {AfterCheck(r), "delete_stale", "remove_new_upload", "done"} \subseteq Pcs
  BY DEF AfterCheck, StoreStep, Pcs, PcsOf
<1>2. \A p \in DOMAIN fs : fs[p].by \in Requests
  BY DEF StateTypes, FileTypes, FileRecords
<1>3. req[r].op = "upload" /\ HoldsRecord(req[r])
  BY OpOfPc DEF CheckDuplicate, At, StateTypes, RequestTypes, HoldsRecord
<1>. QED
  BY <1>1, <1>2, <1>3, Outcomes
     DEF CheckDuplicate, At, UnchangedTable, UnchangedDisk, IsFile

(* The stale record is dropped.                                            *)
LEMMA DeleteStaleDoes ==
  ASSUME StateTypes, NEW r \in Requests, DeleteStale(r)
  PROVE  /\ req[r].pc = "delete_stale" /\ req[r].op = "upload" /\ HoldsRecord(req[r])
         /\ UNCHANGED <<fs, fate>>
         /\ \/ /\ pastes' = DeletePaste(pastes, req[r].rec.path, req[r].rec.gen)
               /\ UNCHANGED faults /\ GoesOn(r, AfterCheck(r))
            \/ DatabaseFails /\ Turns(r, "error", "done")
<1>1. AfterCheck(r) \in Pcs /\ "error" \in Statuses
  BY DEF AfterCheck, StoreStep, Pcs, PcsOf, Statuses
<1>2. req[r].op = "upload" /\ HoldsRecord(req[r])
  BY OpOfPc DEF DeleteStale, At, StateTypes, RequestTypes, HoldsRecord
<1>. QED
  BY <1>1, <1>2, Outcomes DEF DeleteStale, At, Write, UnchangedDisk

(* The steps that come before the content.                                 *)
LEMMA PreparationDoes ==
  ASSUME StateTypes, NEW r \in Requests, GlobMatch(r) \/ StorePassword(r)
  PROVE  /\ req[r].pc \in {"glob_match", "store_password"} /\ req[r].op = "upload"
         /\ UNCHANGED <<pastes, fate, faults>>
         /\ \/ UNCHANGED fs /\ Turns(r, "conflict", "done")
            \/ UNCHANGED fs /\ GoesOn(r, "create_new") /\ req[r].type # "protected_file"
            \/ UNCHANGED fs /\ GoesOn(r, "store_password") /\ req[r].type = "protected_file"
            \/ /\ req[r].pc = "store_password" /\ GoesOn(r, "create_new")
               /\ Creates(SidecarOf(req[r]), r, "hash")
<1>1. {"store_password", "create_new"} \subseteq Pcs /\ "conflict" \in Statuses
  BY DEF Pcs, PcsOf, Statuses
<1>2. req[r].op = "upload"
  BY OpOfPc DEF GlobMatch, StorePassword, At, StateTypes, RequestTypes
<1>3. CASE GlobMatch(r)
  BY <1>1, <1>2, <1>3, Outcomes DEF GlobMatch, At, UnchangedTable, UnchangedDisk
<1>4. CASE StorePassword(r)
  BY <1>1, <1>2, <1>4, Outcomes DEF StorePassword, At, UnchangedTable, Creates, SidecarOf
<1>. QED
  BY <1>3, <1>4

(* The content is created, or its path is in use.                          *)
LEMMA CreateContentDoes ==
  ASSUME StateTypes, NEW r \in Requests, CreateContent(r)
  PROVE  /\ req[r].pc = "create_new" /\ req[r].op = "upload"
         /\ UNCHANGED <<pastes, fate, faults>>
         /\ \/ /\ UNCHANGED fs /\ PathOf(req[r]) \in DOMAIN fs
               /\ \E pc \in {"done", "delete_password"} : Turns(r, "conflict", pc)
            \/ /\ Creates(PathOf(req[r]), r, "content") /\ GoesOn(r, "insert_paste")
            \/ /\ Creates(PathOf(req[r]), r, "content") /\ GoesOn(r, "find_owner_duplicate")
               /\ req[r].type = "remote_file" /\ Deduplicate /\ req[r].expiry = None
<1>1. {"find_owner_duplicate", "insert_paste", "delete_password"} \subseteq Pcs
      /\ "conflict" \in Statuses
  BY DEF Pcs, PcsOf, Statuses
<1>2. req[r].op = "upload"
  BY OpOfPc DEF CreateContent, At, StateTypes, RequestTypes
<1>. QED
  BY <1>1, <1>2, Outcomes DEF CreateContent, At, UnchangedTable, Creates, IsFile

(* The row is inserted, or another one has its key, or the paste is taken  *)
(* back.                                                                   *)
LEMMA PersistDoes ==
  ASSUME StateTypes, NEW r \in Requests, PersistPasteMetadata(r)
  PROVE  LET new == NewPasteOf(req[r])
         IN  /\ req[r].pc = "insert_paste" /\ req[r].op = "upload"
             /\ UNCHANGED <<fs, fate>>
             /\ \/ DatabaseFails /\ Turns(r, "error", "remove_new_upload")
                \/ /\ UNCHANGED faults
                   /\ \E result \in {InsertPaste(pastes, new, gen, Seconds(now)),
                                     InsertPasteDeduplicated(pastes, new, gen, Seconds(now))} :
                        /\ pastes' = result.table /\ Inserts(pastes, result, new)
                        /\ \/ result.result = "inserted" /\ Answers(r, r, "done")
                           \/ /\ result.result # "inserted" /\ Deduplicate /\ MayDeduplicate(new)
                              /\ \E p \in DedupHolders(pastes, req[r].owner, DedupKey(new)) :
                                   /\ RecordAt(p) \in Records
                                   /\ Holds(r, RecordAt(p), "check_winner")
                           \/ /\ result.result # "inserted"
                              /\ \E status \in {"conflict", "database"} :
                                   Turns(r, status, "remove_new_upload")
<1> DEFINE new == NewPasteOf(req[r])
           plain == InsertPaste(pastes, new, gen, Seconds(now))
           keyed == InsertPasteDeduplicated(pastes, new, gen, Seconds(now))
<1>1. {"check_winner", "remove_new_upload", "done"} \subseteq Pcs
      /\ {"conflict", "database", "error"} \subseteq Statuses
  BY DEF Pcs, PcsOf, Statuses
<1>2. req[r].op = "upload" /\ r \in Uploads
  BY OpOfPc DEF PersistPasteMetadata, At, StateTypes, RequestTypes, Uploads
<1>3. /\ InsertPaste(pastes, req[r], gen, Seconds(now)) = plain
      /\ InsertPasteDeduplicated(pastes, req[r], gen, Seconds(now)) = keyed
      /\ MayDeduplicate(req[r]) <=> MayDeduplicate(new)
      /\ DedupKey(req[r]) = DedupKey(new)
  BY InsertOfFields
<1>4. /\ plain.result \in {"inserted", "conflict", "database"}
      /\ keyed.result \in {"inserted", "duplicate", "conflict", "database"}
  BY InsertResults DEF InsertPaste, InsertRow, Refused
<1>5. Inserts(pastes, plain, new) /\ (MayDeduplicate(new) => Inserts(pastes, keyed, new))
  BY <1>2, NewPasteType, InsertPasteAdds, SecondsType DEF StateTypes
<1>6. \A p \in DedupHolders(pastes, req[r].owner, DedupKey(new)) : RecordAt(p) \in Records
  BY RecordType DEF DedupHolders, StateTypes
<1>7. \A status \in {"conflict", "database", "error"} :
        Rollback(r, status) => Turns(r, status, "remove_new_upload")
  BY <1>1, Outcomes DEF Rollback
<1>8. Answer(r, r, "done") => Answers(r, r, "done")
  BY <1>1, Outcomes
<1>9. \A p \in DedupHolders(pastes, req[r].owner, DedupKey(new)) :
        req' = [req EXCEPT ![r].pc = "check_winner", ![r].rec = RecordAt(p)]
        => Holds(r, RecordAt(p), "check_winner")
  BY <1>1, <1>6, Outcomes
<1>10. ASSUME NEW result \in {plain, keyed}, Inserts(pastes, result, new),
              result.result = "duplicate" => Deduplicate /\ MayDeduplicate(new),
              Write(result.table),
              CASE result.result = "inserted" -> Answer(r, r, "done")
                [] result.result = "duplicate" ->
                     \E p \in DedupHolders(pastes, req[r].owner, DedupKey(new)) :
                       req' = [req EXCEPT ![r].pc = "check_winner", ![r].rec = RecordAt(p)]
                [] OTHER -> Rollback(r, result.result)
       PROVE  /\ UNCHANGED faults
              /\ pastes' = result.table
              /\ \/ result.result = "inserted" /\ Answers(r, r, "done")
                 \/ /\ result.result # "inserted" /\ Deduplicate /\ MayDeduplicate(new)
                    /\ \E p \in DedupHolders(pastes, req[r].owner, DedupKey(new)) :
                         /\ RecordAt(p) \in Records
                         /\ Holds(r, RecordAt(p), "check_winner")
                 \/ /\ result.result # "inserted"
                    /\ \E status \in {"conflict", "database"} :
                         Turns(r, status, "remove_new_upload")
  <2> HIDE DEF plain, keyed, new
  <2>2. CASE result.result = "inserted"
    BY <1>8, <1>10, <2>2 DEF Write
  <2>3. CASE result.result = "duplicate"
    BY <1>6, <1>9, <1>10, <2>3 DEF Write
  <2>4. CASE result.result \in {"conflict", "database"}
    BY <1>7, <1>10, <2>4 DEF Write
  <2>. QED
    BY <1>4, <1>10, <2>2, <2>3, <2>4
<1>11. \/ DatabaseFails /\ Rollback(r, "error")
       \/ \E result \in {plain, keyed} :
            /\ result = (IF Deduplicate /\ MayDeduplicate(new) THEN keyed ELSE plain)
            /\ Write(result.table)
            /\ CASE result.result = "inserted" -> Answer(r, r, "done")
                [] result.result = "duplicate" ->
                     \E p \in DedupHolders(pastes, req[r].owner, DedupKey(new)) :
                       req' = [req EXCEPT ![r].pc = "check_winner", ![r].rec = RecordAt(p)]
                [] OTHER -> Rollback(r, result.result)
  BY <1>3 DEF PersistPasteMetadata
<1>12. req[r].pc = "insert_paste" /\ UNCHANGED <<fs, fate>>
  BY DEF PersistPasteMetadata, At, UnchangedDisk
<1>13. CASE DatabaseFails /\ Rollback(r, "error")
  BY <1>2, <1>7, <1>12, <1>13
<1>14. ASSUME NEW result \in {plain, keyed},
              result = (IF Deduplicate /\ MayDeduplicate(new) THEN keyed ELSE plain),
              Write(result.table),
              CASE result.result = "inserted" -> Answer(r, r, "done")
                [] result.result = "duplicate" ->
                     \E p \in DedupHolders(pastes, req[r].owner, DedupKey(new)) :
                       req' = [req EXCEPT ![r].pc = "check_winner", ![r].rec = RecordAt(p)]
                [] OTHER -> Rollback(r, result.result)
       PROVE  /\ UNCHANGED faults
              /\ pastes' = result.table /\ Inserts(pastes, result, new)
              /\ \/ result.result = "inserted" /\ Answers(r, r, "done")
                 \/ /\ result.result # "inserted" /\ Deduplicate /\ MayDeduplicate(new)
                    /\ \E p \in DedupHolders(pastes, req[r].owner, DedupKey(new)) :
                         /\ RecordAt(p) \in Records
                         /\ Holds(r, RecordAt(p), "check_winner")
                 \/ /\ result.result # "inserted"
                    /\ \E status \in {"conflict", "database"} :
                         Turns(r, status, "remove_new_upload")
  <2>1. /\ Inserts(pastes, result, new)
        /\ result.result = "duplicate" => Deduplicate /\ MayDeduplicate(new)
    BY <1>4, <1>5, <1>14
  <2> HIDE DEF plain, keyed, new
  <2>. QED
    BY <1>10, <1>14, <2>1
<1> HIDE DEF plain, keyed, new
<1>. QED
  BY <1>2, <1>11, <1>12, <1>13, <1>14 DEF plain, keyed, new

(* The winner's file is looked for.                                        *)
LEMMA CheckWinnerDoes ==
  ASSUME StateTypes, NEW r \in Requests, CheckWinner(r)
  PROVE  LET p == req[r].rec.path
         IN  /\ req[r].pc = "check_winner" /\ req[r].op = "upload" /\ HoldsRecord(req[r])
             /\ UNCHANGED <<pastes, fs, fate, faults>>
             /\ \/ p \in DOMAIN fs /\ Answers(r, fs[p].by, "remove_new_upload")
                \/ p \notin DOMAIN fs /\ GoesOn(r, "drop_winner")
<1>1. {"drop_winner", "remove_new_upload"} \subseteq Pcs
  BY DEF Pcs, PcsOf
<1>2. \A p \in DOMAIN fs : fs[p].by \in Requests
  BY DEF StateTypes, FileTypes, FileRecords
<1>3. req[r].op = "upload" /\ HoldsRecord(req[r])
  BY OpOfPc DEF CheckWinner, At, StateTypes, RequestTypes, HoldsRecord
<1>. QED
  BY <1>1, <1>2, <1>3, Outcomes DEF CheckWinner, At, UnchangedTable, UnchangedDisk, IsFile

(* The winner's row is dropped.                                            *)
LEMMA DropWinnerDoes ==
  ASSUME StateTypes, NEW r \in Requests, DropWinner(r)
  PROVE  /\ req[r].pc = "drop_winner" /\ req[r].op = "upload" /\ HoldsRecord(req[r])
         /\ UNCHANGED <<fs, fate>>
         /\ \/ /\ pastes' = DeletePaste(pastes, req[r].rec.path, req[r].rec.gen)
               /\ UNCHANGED faults
               /\ GoesOn(r, "insert_paste") \/ Turns(r, "error", "remove_new_upload")
            \/ DatabaseFails /\ Turns(r, "error", "remove_new_upload")
<1>1. {"insert_paste", "remove_new_upload"} \subseteq Pcs /\ "error" \in Statuses
  BY DEF Pcs, PcsOf, Statuses
<1>2. req[r].op = "upload" /\ HoldsRecord(req[r])
  BY OpOfPc DEF DropWinner, At, StateTypes, RequestTypes, HoldsRecord
<1>3. ASSUME CountTry(r, "insert_paste")  PROVE GoesOn(r, "insert_paste")
  BY <1>1, <1>3, TriesMove DEF GoesOn, AnswerKept, StateTypes
<1>4. Rollback(r, "error") => Turns(r, "error", "remove_new_upload")
  BY <1>1, Outcomes DEF Rollback
<1>. QED
  BY <1>2, <1>3, <1>4 DEF DropWinner, At, Write, UnchangedDisk, CountTry

(* The content of this upload is removed.                                  *)
LEMMA RemoveNewUploadDoes ==
  ASSUME StateTypes, NEW r \in Requests, RemoveNewUpload(r)
  PROVE  /\ req[r].pc = "remove_new_upload" /\ req[r].op = "upload"
         /\ UNCHANGED <<pastes, faults>>
         /\ GoesOn(r, "delete_password")
         /\ \/ PathOf(req[r]) \notin DOMAIN fs /\ UNCHANGED <<fs, fate>>
            \/ Removes(PathOf(req[r]), [how |-> "rollback", by |-> r])
<1>1. "delete_password" \in Pcs
  BY DEF Pcs, PcsOf
<1>2. req[r].op = "upload"
  BY OpOfPc DEF RemoveNewUpload, At, StateTypes, RequestTypes
<1>. QED
  BY <1>1, <1>2, Outcomes
     DEF RemoveNewUpload, At, UnchangedTable, UnchangedDisk, Removes, IsFile

(* The sidecar is removed.                                                 *)
LEMMA DeletePasswordDoes ==
  ASSUME StateTypes, NEW r \in Requests, DeletePassword(r)
  PROVE  /\ req[r].pc = "delete_password" /\ req[r].op \in {"upload", "delete"}
         /\ UNCHANGED <<pastes, faults>>
         /\ req[r].op = "upload" =>
              /\ GoesOn(r, "done")
              /\ \/ UNCHANGED <<fs, fate>>
                 \/ Removes(SidecarOf(req[r]), [how |-> "rollback", by |-> r])
         /\ req[r].op = "delete" =>
              /\ GoesOn(r, "delete_paste") /\ HoldsRecord(req[r])
              /\ \/ UNCHANGED <<fs, fate>>
                 \/ Removes(PasswordPath(req[r].rec.path), [how |-> "delete", by |-> r])
<1>1. {"done", "delete_paste"} \subseteq Pcs
  BY DEF Pcs, PcsOf
<1>2. req[r].op \in {"upload", "delete"} /\ req[r].pc = "delete_password"
  BY OpOfPc DEF DeletePassword, At, StateTypes, RequestTypes
<1>3. UNCHANGED <<pastes, faults>>
  BY DEF DeletePassword, UnchangedTable
<1>4. CASE req[r].op = "upload"
  BY <1>1, <1>2, <1>3, <1>4, Outcomes DEF DeletePassword, RemoveSidecar, Removes, SidecarOf
<1>5. CASE req[r].op = "delete"
  BY <1>1, <1>2, <1>3, <1>5, Outcomes DEF DeletePassword, RemoveSidecar, Removes, HoldsRecord
<1>. QED
  BY <1>2, <1>4, <1>5

(* find_pastes_by_public_filename.                                         *)
LEMMA FindPastesDoes ==
  ASSUME StateTypes, NEW r \in Requests, FindPastes(r)
  PROVE  /\ req[r].pc = "find_pastes" /\ req[r].op \in {"serve", "delete"}
         /\ req[r].name \in UploadNames
         /\ UNCHANGED <<pastes, fs, fate, faults>>
         /\ Moved(r) /\ AnswerKept(r) /\ req'[r].pc = "is_file"
         /\ req'[r].rows = {RecordAt(p) : p \in RowsByPublicName(pastes, req[r].name, Seconds(now))}
<1> DEFINE rows == {RecordAt(p) : p \in RowsByPublicName(pastes, req[r].name, Seconds(now))}
<1>1. rows \in SUBSET Records
  BY RecordType DEF RowsByPublicName, StateTypes
<1>2. SetRows(r, rows, "is_file") /\ req[r].pc = "find_pastes"
      /\ UNCHANGED <<pastes, fs, fate, faults>>
  BY DEF FindPastes, SetRows, At, UnchangedTable, UnchangedDisk
<1> HIDE DEF rows
<1>3. "is_file" \in Pcs
  BY DEF Pcs, PcsOf
<1>4. Moved(r) /\ AnswerKept(r) /\ req'[r].pc = "is_file" /\ req'[r].rows = rows
  BY <1>1, <1>2, <1>3, RowsMove DEF AnswerKept, StateTypes
<1>5. req[r].op \in {"serve", "delete"} /\ req[r].name \in UploadNames
  BY <1>2, OpOfPc DEF StateTypes, RequestTypes, GoodRequest
<1>. QED
  BY <1>2, <1>4, <1>5 DEF rows

(* The first record with a file is taken.                                  *)
LEMMA IsFileStepDoes ==
  ASSUME StateTypes, NEW r \in Requests, IsFileStep(r)
  PROVE  /\ req[r].pc = "is_file" /\ req[r].op \in {"serve", "delete"}
         /\ UNCHANGED <<pastes, fs, fate, faults>>
         /\ \/ \E status \in {"not_found", "forbidden"} : Turns(r, status, "done")
            \/ \E x \in req[r].rows, pc \in {"remove_file", "has_password"} :
                 x.path \in DOMAIN fs /\ Holds(r, x, pc) /\ req'[r].rows = {}
<1>1. {"remove_file", "has_password"} \subseteq Pcs /\ {"not_found", "forbidden"} \subseteq Statuses
  BY DEF Pcs, PcsOf, Statuses
<1>2. req[r].pc = "is_file" /\ req[r].op \in {"serve", "delete"} /\ req[r].rows \subseteq Records
      /\ UNCHANGED <<pastes, fs, fate, faults>>
  BY OpOfPc DEF IsFileStep, At, StateTypes, RequestTypes, RequestRecords,
                UnchangedTable, UnchangedDisk
<1>3. ASSUME NEW status \in {"not_found", "forbidden"}, Reply(r, status)
      PROVE  Turns(r, status, "done")
  BY <1>1, <1>3, Outcomes
<1>4. ASSUME NEW x \in FirstFile(req[r].rows),
             req' = [req EXCEPT ![r].rec = x, ![r].rows = {},
                       ![r].pc = IF req[r].op = "delete" THEN "remove_file" ELSE "has_password"]
      PROVE  \E pc \in {"remove_file", "has_password"} :
               /\ x \in req[r].rows /\ x.path \in DOMAIN fs
               /\ Holds(r, x, pc) /\ req'[r].rows = {}
  <2>1. PICK pc \in {"remove_file", "has_password"} :
          pc = IF req[r].op = "delete" THEN "remove_file" ELSE "has_password"
    OBVIOUS
  <2>2. x \in req[r].rows /\ x.path \in DOMAIN fs /\ x \in Records
    BY <1>2 DEF FirstFile, IsFile
  <2>3. req' = [req EXCEPT ![r].rec = x, ![r].rows = {}, ![r].pc = pc]
    BY <1>4, <2>1
  <2>4. Holds(r, x, pc) /\ req'[r].rows = {}
    BY <1>1, <2>2, <2>3, Outcomes
  <2>. QED
    BY <2>2, <2>4
<1>5. \/ \E status \in {"not_found", "forbidden"} : Reply(r, status)
      \/ \E x \in FirstFile(req[r].rows) :
           req' = [req EXCEPT ![r].rec = x, ![r].rows = {},
                     ![r].pc = IF req[r].op = "delete" THEN "remove_file" ELSE "has_password"]
  BY DEF IsFileStep
<1>. QED
  BY <1>2, <1>3, <1>4, <1>5

(* The password is asked for.                                              *)
LEMMA HasPasswordDoes ==
  ASSUME StateTypes, NEW r \in Requests, HasPassword(r)
  PROVE  LET p == req[r].rec.path
             q == PasswordPath(p)
         IN  /\ req[r].pc = "has_password" /\ req[r].op = "serve" /\ HoldsRecord(req[r])
             /\ UNCHANGED <<pastes, fs, fate, faults>>
             /\ \/ (q \in DOMAIN fs => req[r].knows) /\ GoesOn(r, "open")
                \/ Turns(r, "not_found", "done")
<1>1. "open" \in Pcs /\ "not_found" \in Statuses
  BY DEF Pcs, PcsOf, Statuses
<1>2. req[r].op = "serve" /\ HoldsRecord(req[r])
  BY OpOfPc DEF HasPassword, At, StateTypes, RequestTypes, HoldsRecord
<1>. QED
  BY <1>1, <1>2, Outcomes DEF HasPassword, At, UnchangedTable, UnchangedDisk, IsFile

(* The content is opened.                                                  *)
LEMMA OpenDoes ==
  ASSUME StateTypes, NEW r \in Requests, Open(r)
  PROVE  LET p == req[r].rec.path
         IN  /\ req[r].pc = "open" /\ req[r].op = "serve" /\ HoldsRecord(req[r])
             /\ UNCHANGED <<pastes, fs, fate, faults>>
             /\ \/ Turns(r, "error", "done")
                \/ p \in DOMAIN fs /\ req[r].rec.type \in OneshotTypes
                   /\ Sees(r, fs[p].by, "consume")
                \/ p \in DOMAIN fs /\ req[r].rec.type \notin OneshotTypes
                   /\ Answers(r, fs[p].by, "done")
<1>1. {"consume", "done"} \subseteq Pcs /\ "error" \in Statuses
  BY DEF Pcs, PcsOf, Statuses
<1>2. \A p \in DOMAIN fs : fs[p].by \in Requests
  BY DEF StateTypes, FileTypes, FileRecords
<1>3. req[r].op = "serve" /\ HoldsRecord(req[r])
  BY OpOfPc DEF Open, At, StateTypes, RequestTypes, HoldsRecord
<1>. QED
  BY <1>1, <1>2, <1>3, Outcomes
     DEF Open, At, UnchangedTable, UnchangedDisk, IsFile, OneshotTypes

(* The content of a one-shot paste is renamed.                             *)
LEMMA ConsumeDoes ==
  ASSUME StateTypes, NEW r \in Requests, Consume(r)
  PROVE  LET p == req[r].rec.path
             q == [p EXCEPT !.file = Append(req[r].name, now)]
         IN  /\ req[r].pc = "consume" /\ req[r].op = "serve" /\ HoldsRecord(req[r])
             /\ UNCHANGED <<pastes, faults>>
             /\ \/ UNCHANGED <<fs, fate>> /\ Turns(r, "error", "done")
                \/ Renames(p, q, [how |-> "consumed", by |-> r]) /\ GoesOn(r, "delete_metadata")
<1>1. "delete_metadata" \in Pcs /\ "error" \in Statuses
  BY DEF Pcs, PcsOf, Statuses
<1>2. req[r].op = "serve" /\ HoldsRecord(req[r])
  BY OpOfPc DEF Consume, At, StateTypes, RequestTypes, HoldsRecord
<1>. QED
  BY <1>1, <1>2, Outcomes DEF Consume, At, UnchangedTable, UnchangedDisk, Renames

(* The row of a consumed paste is deleted, by its path.                    *)
LEMMA DeleteMetadataDoes ==
  ASSUME StateTypes, NEW r \in Requests, DeleteMetadata(r)
  PROVE  /\ req[r].pc = "delete_metadata" /\ req[r].op = "serve" /\ HoldsRecord(req[r])
         /\ UNCHANGED <<fs, fate>>
         /\ \/ pastes' = DeletePasteByPath(pastes, req[r].rec.path) /\ Turns(r, "ok", "done")
            \/ DatabaseFails /\ Turns(r, "error", "done")
<1>1. {"ok", "error"} \subseteq Statuses
  BY DEF Statuses
<1>2. req[r].op = "serve" /\ HoldsRecord(req[r])
  BY OpOfPc DEF DeleteMetadata, At, StateTypes, RequestTypes, HoldsRecord
<1>. QED
  BY <1>1, <1>2, Outcomes DEF DeleteMetadata, At, Write, UnchangedDisk

(* The content is deleted.                                                 *)
LEMMA RemovePasteFileDoes ==
  ASSUME StateTypes, NEW r \in Requests, RemovePasteFile(r)
  PROVE  /\ req[r].pc = "remove_file" /\ req[r].op = "delete" /\ HoldsRecord(req[r])
         /\ UNCHANGED <<pastes, faults>>
         /\ \/ UNCHANGED <<fs, fate>> /\ Turns(r, "error", "done")
            \/ /\ Removes(req[r].rec.path, [how |-> "delete", by |-> r])
               /\ GoesOn(r, "delete_password")
<1>1. "delete_password" \in Pcs /\ "error" \in Statuses
  BY DEF Pcs, PcsOf, Statuses
<1>2. req[r].op = "delete" /\ HoldsRecord(req[r])
  BY OpOfPc DEF RemovePasteFile, At, StateTypes, RequestTypes, HoldsRecord
<1>. QED
  BY <1>1, <1>2, Outcomes DEF RemovePasteFile, At, UnchangedTable, UnchangedDisk, Removes

(* The row is deleted, by its identifier.                                  *)
LEMMA DeleteRowDoes ==
  ASSUME StateTypes, NEW r \in Requests, DeleteRow(r)
  PROVE  /\ req[r].pc = "delete_paste" /\ req[r].op = "delete" /\ HoldsRecord(req[r])
         /\ UNCHANGED <<fs, fate>>
         /\ \/ /\ pastes' = DeletePaste(pastes, req[r].rec.path, req[r].rec.gen)
               /\ Turns(r, "ok", "done")
            \/ DatabaseFails /\ Turns(r, "error", "done")
<1>1. {"ok", "error"} \subseteq Statuses
  BY DEF Statuses
<1>2. req[r].op = "delete" /\ HoldsRecord(req[r])
  BY OpOfPc DEF DeleteRow, At, StateTypes, RequestTypes, HoldsRecord
<1>. QED
  BY <1>1, <1>2, Outcomes DEF DeleteRow, At, Write, UnchangedDisk

------------------------------------------------------------------------------
(* Storage.  The invariant relates, at every step, the directory, the      *)
(* table, and what each request, the cleanup thread, the consumer and the  *)
(* start of the process are about to do to them.                           *)

(* The upload has its content on disk and has yet to insert its row.       *)
Inserting(x) ==
  \/ x.pc \in {"insert_paste", "check_winner", "drop_winner"}
  \/ /\ x.type = "remote_file"
     /\ x.pc \in {"find_owner_duplicate", "check_duplicate", "delete_stale"}

(* The upload was answered with the link to its own content.               *)
SelfStored(u) == Acknowledged(u) /\ req[u].seen = u

InPlace(u) ==
  /\ PathOf(req[u]) \in DOMAIN fs
  /\ fs[PathOf(req[u])] = [by |-> u, kind |-> "content"]
  /\ fate[u] = None

Taken(u) == fate[u] # None /\ fate[u].how # "rollback"

ContentAt(p, x) == p.dir = GetDir(x.type) /\ ContentName(p.file, x.name)

(* The upload that has used this path is done; its content is gone.        *)
Finished(p) == \E u \in Uploads : req[u].pc = "done" /\ ContentAt(p, req[u])
Gone(p) == \E u \in Uploads : fate[u] # None /\ ContentAt(p, req[u])

(* Fates are of contents that were created.                                *)
FreshFates == \A u \in Uploads : IsCreating(req[u]) => fate[u] = None

(* Hashes are in files with the name of a sidecar.                         *)
SidecarNames == \A p \in DOMAIN fs : fs[p].kind = "hash" => Suffix(p.file) = PasswordExt

(* A content waits for its row, and an acknowledged one lasts, unless it   *)
(* expires or is deleted or viewed.                                        *)
StoredInPlace ==
  \A u \in Uploads :
    /\ Inserting(req[u]) =>
         InPlace(u) \/ (Taken(u) /\ ExpiredOnDisk(PathOf(req[u]).file, now))
    /\ SelfStored(u) => InPlace(u) \/ Taken(u)

(* The row of a duplicate or of a winner is that of an acknowledged upload *)
(* of the same owner and content; one that is dropped has lost its file.   *)
OffersFrom(x, v) ==
  /\ SelfStored(v) /\ x.rec.path = PathOf(req[v])
  /\ req[v].owner = x.owner /\ req[v].hash = x.hash
  /\ x.rec.path.dir = GetDir(x.rec.type)
  /\ x.pc \in {"check_winner", "drop_winner"} =>
       CategoryOf(req[v].type) = CategoryOf(x.type) /\ x.expiry = None /\ Deduplicate
  /\ x.pc \in {"delete_stale", "drop_winner"} => fate[v] # None

DuplicatesStored ==
  \A r \in Uploads :
    /\ Checked(req[r])
    /\ HoldsRecord(req[r]) => \E v \in Uploads : OffersFrom(req[r], v)

(* The rows with an owner are of acknowledged uploads.                     *)
RowFrom(p, row, v) ==
  /\ SelfStored(v) /\ p = PathOf(req[v]) /\ req[v].owner = row.owner /\ req[v].hash = row.hash
  /\ row.dedup # None => row.dedup = DedupKey(req[v])

OwnedRows ==
  \A p \in Present(pastes) :
    pastes[p].owner # None => \E v \in Uploads : RowFrom(p, pastes[p], v)

(* The rows of pastes are of uploads that are done.                        *)
FinishedRows ==
  \A p \in Present(pastes) :
    Suffix(p.file) # PasswordExt =>
      \E u \in Uploads :
        req[u].pc = "done" /\ ContentAt(p, req[u]) /\ pastes[p].hash = req[u].hash

(* A row without its file is about to go, ...                              *)
Dropping(r, p) ==
  /\ HoldsRecord(req[r]) /\ req[r].rec.path = p
  /\ \/ req[r].pc = "delete_metadata"
     \/ /\ req[r].op = "delete" /\ req[r].pc \in {"delete_password", "delete_paste"}
        /\ req[r].rec.gen = pastes[p].gen

(* ... or what was about to delete it was lost in a crash, and the start   *)
(* has yet to reconcile or has retained the row.                           *)
Retained(p) == LostAt(p) /\ (server # "up" \/ p \in scan.kept)

RowHasFile(p) ==
  \/ p \in DOMAIN fs \/ ExpiredOnDisk(p.file, now)
  \/ (\E r \in Requests : Dropping(r, p)) \/ Retained(p)

RowsFiled ==
  faults = 0 =>
    \A p \in Present(pastes) : Suffix(p.file) # PasswordExt => RowHasFile(p)

(* Downloads and deletions are about pastes that were stored, and they     *)
(* take the row away after the file.                                       *)
GoodLookup(x) == Finished(x.path) /\ (pastes[x.path] # NoRow => pastes[x.path].gen = x.gen)

LookupsFinished ==
  \A r \in Requests :
    req[r].op \in {"serve", "delete"} /\ InProgress(r) =>
      /\ \A x \in RecordsOf(req[r]) : GoodLookup(x)
      /\ req[r].pc \in {"delete_metadata", "delete_password", "delete_paste"} =>
           Gone(req[r].rec.path)

(* What the scan has found stays there until the table is reconciled, but  *)
(* for what expires, and nothing that is there is missed.                  *)
FoundHere(p) ==
  /\ \E u \in Uploads : ContentAt(p, req[u]) /\ scan.found[p] = req[u].hash
  /\ p \in DOMAIN fs \/ ExpiredOnDisk(p.file, now)

Scanned(p) ==
  \/ p \in DOMAIN scan.found
  \/ server = "scan" /\ (p \in scan.todo \/ p.dir \in scan.dirs)

FaithfulScan ==
  server # "up" =>
    /\ \A p \in DOMAIN scan.found : Suffix(p.file) # PasswordExt => FoundHere(p)
    /\ \A p \in DOMAIN fs : fs[p].kind = "content" => Scanned(p)

QuietStart == server # "up" => \A r \in Requests : ~InProgress(r)

(* The paths on their way to the consumer have lost their content.         *)
ExpiredGone ==
  /\ \A i \in DOMAIN expired : Gone(expired[i])
  /\ cleaner.pc = "sidecar" => Gone(cleaner.path)

(* A content has its row, or its upload goes on.  A remote upload whose    *)
(* duplicate check fails after the file was stored does not.               *)
Restoring(x) == Inserting(x) \/ x.pc = "remove_new_upload"

RemoteChecked == MaxFaults = 0 \/ ~Deduplicate \/ "remote_file" \notin Types

FilesFiled ==
  RemoteChecked /\ server = "up" =>
    \A p \in DOMAIN fs :
      fs[p].kind = "content" /\ fate[fs[p].by] = None =>
        p \in Present(pastes) \/ Restoring(req[fs[p].by])

(* An acknowledged paste that was not taken away has its row.              *)
OwnRows ==
  \A u \in Uploads :
    SelfStored(u) /\ fate[u] = None =>
      /\ PathOf(req[u]) \in Present(pastes)
      /\ pastes[PathOf(req[u])].owner = req[u].owner

(* The answer is one's own content, or that of an acknowledged upload of   *)
(* the same owner, content and category.                                   *)
AnswerFrom(x, v) ==
  /\ SelfStored(v) /\ req[v].owner = x.owner /\ req[v].hash = x.hash
  /\ CategoryOf(req[v].type) = CategoryOf(x.type)
  /\ Deduplicate /\ x.expiry = None

Answered(x) == x.status = "ok" /\ x.pc \in {"remove_new_upload", "delete_password", "done"}

StoredAnswers ==
  \A r \in Uploads :
    Answered(req[r]) =>
      \/ req[r].pc = "done" /\ req[r].seen = r
      \/ req[r].seen \in Uploads /\ AnswerFrom(req[r], req[r].seen)

StorageInv ==
  /\ faults \in Nat
  /\ FreshFates /\ SidecarNames /\ StoredInPlace /\ DuplicatesStored
  /\ OwnedRows /\ FinishedRows /\ RowsFiled /\ LookupsFinished
  /\ FaithfulScan /\ QuietStart /\ ExpiredGone
  /\ FilesFiled /\ OwnRows /\ StoredAnswers

(* Everything that is assumed of a step below.                             *)
StorageState == DistinctNames /\ StateTypes /\ RemovalInv /\ StorageInv

(* Who takes the step.                                                     *)
LEMMA NextCases ==
  ASSUME [Next]_vars
  PROVE  \/ \E r \in Requests : Step(r)
         \/ \E r \in Requests : Arrival(r)
         \/ Crash
         \/ req' = req /\ (CleanerStep \/ ConsumeExpired \/ ScanPastes \/ Reconcile \/ Tick)
         \/ UNCHANGED vars
BY DEF Next, CleanerStep, ConsumeExpired, ScanPastes, Reconcile, Tick

(* A request that is done stays as it is.                                  *)
LEMMA DoneStays ==
  ASSUME StateTypes, [Next]_vars, NEW u \in Requests, req[u].pc = "done"
  PROVE  req'[u] = req[u]
<1>1. ASSUME NEW r \in Requests, Step(r)  PROVE req'[u] = req[u]
  BY <1>1, StepsRun DEF InProgress
<1>2. ASSUME NEW r \in Requests, Arrival(r)  PROVE req'[u] = req[u]
  <2>1. Arrived(r) /\ GoodRequest(req[u])
    BY <1>2, ArrivalsAreGood DEF StateTypes, RequestTypes
  <2>2. req[u].op # "none"
    BY <2>1, OpOfPc
  <2>. QED
    BY <2>1, <2>2 DEF Arrived
<1>3. CASE Crash
  BY <1>3 DEF Crash, InProgress
<1>4. CASE UNCHANGED vars
  BY <1>4 DEF vars
<1>. QED
  BY <1>1, <1>2, <1>3, <1>4, NextCases

(* What has been stored, finished or lost stays so.                        *)
LEMMA Lasting ==
  ASSUME StateTypes, [Next]_vars
  PROVE  /\ \A u \in Requests : SelfStored(u) => req'[u] = req[u] /\ SelfStored(u)'
         /\ \A u \in Uploads : /\ u \in Uploads' /\ PathOf(req'[u]) = PathOf(req[u])
                               /\ \A p : ContentAt(p, req'[u]) <=> ContentAt(p, req[u])
         /\ \A p : (Finished(p) => Finished(p)') /\ (Gone(p) => Gone(p)')
<1>1. ASSUME NEW u \in Requests, SelfStored(u)  PROVE req'[u] = req[u] /\ SelfStored(u)'
  <2>1. req'[u] = req[u]
    BY <1>1, DoneStays DEF SelfStored, Acknowledged
  <2>. QED
    BY <1>1, <2>1 DEF SelfStored, Acknowledged
<1>2. ASSUME NEW u \in Uploads
      PROVE  /\ u \in Requests /\ u \in Uploads' /\ PathOf(req'[u]) = PathOf(req[u])
             /\ \A p : ContentAt(p, req'[u]) <=> ContentAt(p, req[u])
  <2>1. u \in Requests /\ u \in Uploads' /\ SameRequest(req[u], req'[u])
    BY UploadsMove
  <2>. QED
    BY <2>1, SameFiles DEF ContentAt, SameRequest
<1>3. ASSUME NEW p, Finished(p)  PROVE Finished(p)'
  <2>1. PICK u \in Uploads : req[u].pc = "done" /\ ContentAt(p, req[u])
    BY <1>3 DEF Finished
  <2>2. u \in Uploads' /\ req'[u] = req[u]
    BY <1>2, <2>1, DoneStays
  <2>. QED
    BY <2>1, <2>2 DEF Finished, ContentAt
<1>4. ASSUME NEW p, Gone(p)  PROVE Gone(p)'
  <2>1. PICK u \in Uploads : fate[u] # None /\ ContentAt(p, req[u])
    BY <1>4 DEF Gone
  <2>2. u \in Uploads' /\ fate'[u] # None /\ ContentAt(p, req'[u])
    BY <1>2, <2>1, FatesLast
  <2>. QED
    BY <2>2 DEF Gone, ContentAt
<1>. QED
  BY <1>1, <1>2, <1>3, <1>4

(* A path is that of one upload.                                           *)
LEMMA ContentAtOnce ==
  ASSUME DistinctNames, StateTypes, NamesDiffer, NEW u \in Uploads, NEW v \in Uploads, NEW p,
         ContentAt(p, req[u]), ContentAt(p, req[v])
  PROVE  u = v
<1>1. req[u].name \in UploadNames /\ req[v].name \in UploadNames /\ PlainNames
  BY DEF StateTypes, RequestTypes, GoodRequest, Uploads, UploadRecord, DistinctNames
<1>2. req[u].name = req[v].name
  BY <1>1, ContentNameOnce DEF ContentAt
<1>. QED
  BY <1>2 DEF NamesDiffer

(* The path of an upload.                                                  *)
LEMMA PathOfUpload ==
  ASSUME DistinctNames, StateTypes, NEW u \in Uploads
  PROVE  /\ u \in Requests /\ UploadRecord(req[u]) /\ req[u].owner \in Owners
         /\ PathOf(req[u]) \in Paths /\ ContentAt(PathOf(req[u]), req[u])
         /\ Suffix(PathOf(req[u]).file) # PasswordExt
         /\ Suffix(SidecarOf(req[u]).file) = PasswordExt
<1>1. u \in Requests /\ UploadRecord(req[u]) /\ PlainNames /\ req[u].owner \in Owners
      /\ req[u].name \in UploadNames
  BY DEF StateTypes, RequestTypes, GoodRequest, Uploads, UploadRecord, DistinctNames
<1>2. ContentAt(PathOf(req[u]), req[u])
  BY <1>1, UploadFiles DEF ContentAt
<1>. QED
  BY <1>1, <1>2, UploadFiles, ContentNames DEF ContentAt

(* A name with a content's path does not end like a sidecar's.             *)
LEMMA ContentAtSuffix ==
  ASSUME DistinctNames, StateTypes, NEW u \in Uploads, NEW p, ContentAt(p, req[u])
  PROVE  Suffix(p.file) # PasswordExt
BY ContentNames
   DEF ContentAt, StateTypes, RequestTypes, GoodRequest, Uploads, UploadRecord, DistinctNames

(* The name of a file tells whether it is a content.                       *)
LEMMA ContentHere ==
  ASSUME DistinctNames, StateTypes, RemovalInv, SidecarNames, NEW p \in DOMAIN fs
  PROVE  /\ fs[p].by \in Uploads /\ fs[p].by \in Requests
         /\ fs[p].kind = "content" <=> Suffix(p.file) # PasswordExt
         /\ fs[p].kind = "content" => ContentAt(p, req[fs[p].by])
         /\ fs[p].kind = "content" => fs[p] = [by |-> fs[p].by, kind |-> "content"]
<1>1. fs[p] \in FileRecords /\ fs[p].by \in Uploads /\ NamesDiffer /\ GoodFiles
  BY DEF StateTypes, FileTypes, RemovalInv
<1>2. fs[p].kind \in {"content", "hash"} /\ fs[p].by \in Requests
  BY <1>1 DEF FileRecords
<1>3. fs[p].kind = "content" => Suffix(p.file) # PasswordExt /\ ContentAt(p, req[fs[p].by])
  BY <1>1, ContentOf DEF ContentAt
<1>4. fs[p].kind = "hash" => Suffix(p.file) = PasswordExt
  BY DEF SidecarNames
<1>5. fs[p].kind = "content" => fs[p] = [by |-> fs[p].by, kind |-> "content"]
  BY <1>1 DEF FileRecords
<1>. QED
  BY <1>1, <1>2, <1>3, <1>4, <1>5

(* What a step does to the contents: nothing, one is created, one is       *)
(* removed, or one is renamed because it was viewed.                       *)
NoContentMoves ==
  /\ fate' = fate
  /\ \A p \in DOMAIN fs : fs[p].kind = "content" => p \in DOMAIN fs' /\ fs'[p] = fs[p]
  /\ \A p \in DOMAIN fs' : fs'[p].kind = "content" => p \in DOMAIN fs /\ fs'[p] = fs[p]

ContentCreated(r) ==
  CreateContent(r) /\ Creates(PathOf(req[r]), r, "content")

ContentRemoved(p, how) ==
  /\ fs[p].kind = "content" /\ Removes(p, how)
  /\ \/ how.how = "rollback" /\ RemoveNewUpload(fs[p].by) /\ p = PathOf(req[fs[p].by])
     \/ how.how = "delete" /\ \E r \in Requests : RemovePasteFile(r) /\ p = req[r].rec.path
     \/ how.how = "cleanup" /\ RemoveExpired(p) /\ ExpiredOnDisk(p.file, now)

ContentConsumed(p, how) ==
  /\ fs[p].kind = "content" /\ how.how = "consumed"
  /\ Renames(p, ConsumedPath(req[fs[p].by], now), how)
  /\ \E r \in Requests : Consume(r) /\ p = req[r].rec.path

DiskEvents ==
  \/ NoContentMoves
  \/ \E r \in Uploads : ContentCreated(r)
  \/ \E how : \E p \in DOMAIN fs :
       how # None /\ (ContentRemoved(p, how) \/ ContentConsumed(p, how))

(* Every disk call is one of these events.                                 *)
LEMMA EveryDiskEvent ==
  ASSUME DistinctNames, StateTypes, RemovalInv, SidecarNames, [Next]_vars
  PROVE  DiskEvents
<1>1. /\ DiskCalls /\ PlainNames /\ NamesDiffer /\ GoodFiles /\ GoodRecords /\ GoodCleaner
      /\ FileTypes
  BY EveryDiskCall DEF RemovalInv, DistinctNames, StateTypes
<1>2. ASSUME NEW p, NEW how, Removes(p, how), Suffix(p.file) = PasswordExt
      PROVE  NoContentMoves
  <2>1. /\ DOMAIN fs' = DOMAIN fs \ {p} /\ (\A x \in DOMAIN fs' : fs'[x] = fs[x])
        /\ p \in DOMAIN fs /\ fate' = Fated(p, how)
    BY <1>2, RemoveEffect
  <2>2. fs[p].kind # "content"
    BY <1>2, <2>1, ContentHere
  <2>. QED
    BY <2>1, <2>2 DEF NoContentMoves, Fated
<1>3. ASSUME NEW r \in Requests, StorePassword(r), Creates(SidecarOf(req[r]), r, "hash")
      PROVE  NoContentMoves
  <2>1. /\ DOMAIN fs' = DOMAIN fs \cup {SidecarOf(req[r])} /\ fate' = fate
        /\ \A x \in DOMAIN fs : fs'[x] = fs[x]
        /\ fs'[SidecarOf(req[r])] = [by |-> r, kind |-> "hash"]
    BY <1>3, CreateEffect
  <2>2. fs'[SidecarOf(req[r])].kind # "content"
    BY <2>1
  <2>. QED
    BY <2>1, <2>2 DEF NoContentMoves
<1>4. ASSUME NEW r \in Requests, RemoveNewUpload(r), NEW how, how.how = "rollback",
             Removes(PathOf(req[r]), how)
      PROVE  PathOf(req[r]) \in DOMAIN fs /\ ContentRemoved(PathOf(req[r]), how)
  <2>1. r \in Uploads /\ PathOf(req[r]) \in DOMAIN fs
    BY <1>4, RemoveNewUploadDoes DEF Uploads, Removes, IsFile
  <2>2. /\ fs[PathOf(req[r])].kind = "content"
        /\ ContentAt(PathOf(req[r]), req[fs[PathOf(req[r])].by])
        /\ fs[PathOf(req[r])].by \in Uploads
    BY <2>1, ContentHere, PathOfUpload
  <2>3. fs[PathOf(req[r])].by = r
    BY <1>1, <2>1, <2>2, PathOfUpload, ContentAtOnce
  <2>. QED
    BY <1>4, <2>1, <2>2, <2>3 DEF ContentRemoved
<1>5. ASSUME NEW r \in Requests, HoldsRecord(req[r]), req[r].op \in {"serve", "delete"}
      PROVE  /\ ContentName(req[r].rec.path.file, req[r].name)
             /\ req[r].rec.path.dir = GetDir(req[r].rec.type)
             /\ req[r].name \in UploadNames /\ req[r].rec.path \in Paths
             /\ req[r].rec.path.file \in Seq(AnyParts)
             /\ Suffix(req[r].rec.path.file) # PasswordExt
  <2>1. GoodRecord(req[r].rec, req[r].name) /\ req[r].name \in UploadNames /\ req[r].rec \in Records
    BY <1>1, <1>5, RecordInUse
  <2>. QED
    BY <1>1, <2>1, ContentNames DEF GoodRecord, Records
<1>6. ASSUME NEW r \in Requests, RemovePasteFile(r), NEW how, how.how = "delete",
             Removes(req[r].rec.path, how)
      PROVE  req[r].rec.path \in DOMAIN fs /\ ContentRemoved(req[r].rec.path, how)
  <2>1. req[r].rec.path \in DOMAIN fs
    BY <1>6 DEF Removes, IsFile
  <2>2. fs[req[r].rec.path].kind = "content"
    BY <1>5, <1>6, <2>1, ContentHere, RemovePasteFileDoes
  <2>. QED
    BY <1>6, <2>1, <2>2 DEF ContentRemoved
<1>7. ASSUME NEW r \in Requests, Consume(r), NEW how, how.how = "consumed",
             Renames(req[r].rec.path,
                     [req[r].rec.path EXCEPT !.file = Append(req[r].name, now)], how)
      PROVE  req[r].rec.path \in DOMAIN fs /\ ContentConsumed(req[r].rec.path, how)
  <2> DEFINE p == req[r].rec.path
  <2>1. /\ p \in DOMAIN fs /\ p \in Paths /\ req[r].name \in UploadNames
        /\ ContentName(p.file, req[r].name) /\ Suffix(p.file) # PasswordExt
    BY <1>5, <1>7, ConsumeDoes DEF Renames, IsFile
  <2>2. /\ fs[p].kind = "content" /\ ContentAt(p, req[fs[p].by])
        /\ fs[p].by \in Uploads
    BY <2>1, ContentHere
  <2>3. req[fs[p].by].name = req[r].name
    BY <1>1, <2>1, <2>2, ContentOf
  <2>4. [p EXCEPT !.file = Append(req[r].name, now)] = ConsumedPath(req[fs[p].by], now)
    BY <2>1, <2>2, <2>3 DEF ConsumedPath, ContentAt, Paths
  <2>. QED
    BY <1>7, <2>1, <2>2, <2>4 DEF ContentConsumed
<1>8. ASSUME NEW p \in cleaner.todo, RemoveExpired(p), NEW how, how.how = "cleanup",
             Removes(p, how)
      PROVE  p \in DOMAIN fs /\ ContentRemoved(p, how)
  <2>1. p \in DOMAIN fs /\ ExpiredOnDisk(p.file, now)
    BY <1>1, <1>8 DEF Removes, IsFile, RemoveExpired, GoodCleaner
  <2>2. Suffix(p.file) \in NumericParts
    BY <2>1 DEF ExpiredOnDisk, Numeric, Suffix
  <2>3. fs[p].kind = "content"
    BY <2>1, <2>2, ContentHere, PartsAssumption, PasswordExtAssumption
  <2>. QED
    BY <1>8, <2>1, <2>3 DEF ContentRemoved
<1>9. ASSUME NEW r \in Requests, DeletePassword(r), req[r].op = "upload", NEW how,
             Removes(SidecarOf(req[r]), how)
      PROVE  NoContentMoves
  <2>1. r \in Uploads
    BY <1>9 DEF Uploads
  <2>. QED
    BY <1>2, <1>9, <2>1, PathOfUpload
<1>10. ASSUME NEW r \in Requests, DeletePassword(r), req[r].op # "upload", NEW how,
              Removes(PasswordPath(req[r].rec.path), how)
       PROVE  NoContentMoves
  <2>1. req[r].op = "delete" /\ HoldsRecord(req[r])
    BY <1>10, DeletePasswordDoes
  <2>. QED
    BY <1>2, <1>5, <1>10, <2>1, SidecarSuffix
<1>11. ASSUME NEW p \in cleaner.todo, RemoveOrphan(p), NEW how, Removes(p, how)
       PROVE  NoContentMoves
  BY <1>1, <1>2, <1>11 DEF RemoveOrphan, GoodCleaner
<1>12. ASSUME RemoveExpiredSidecar, NEW how, Removes(PasswordPath(cleaner.path), how)
       PROVE  NoContentMoves
  <2>1. cleaner.path \in Locations
    BY <1>12 DEF RemoveExpiredSidecar, StateTypes, CleanerTypes
  <2>. QED
    BY <1>2, <1>12, <2>1, SidecarSuffix DEF Locations
<1>13. UnchangedDisk => NoContentMoves
  BY DEF UnchangedDisk, NoContentMoves
<1>14. /\ \A r \in Requests : /\ [how |-> "rollback", by |-> r] # None
                              /\ [how |-> "delete", by |-> r] # None
                              /\ [how |-> "consumed", by |-> r] # None
       /\ [how |-> "cleanup", by |-> now] # None
  BY FateAssumption DEF Requests, StateTypes
<1>15. ASSUME NEW r \in Requests, CreateContent(r)  PROVE r \in Uploads
  BY <1>15, CreateContentDoes DEF Uploads
<1>16. ASSUME NEW r \in Requests, RemoveNewUpload(r),
              Removes(PathOf(req[r]), [how |-> "rollback", by |-> r])
       PROVE  DiskEvents
  BY <1>4, <1>14, <1>16 DEF DiskEvents
<1>17. ASSUME NEW r \in Requests, RemovePasteFile(r),
              Removes(req[r].rec.path, [how |-> "delete", by |-> r])
       PROVE  DiskEvents
  BY <1>6, <1>14, <1>17 DEF DiskEvents
<1>18. ASSUME NEW r \in Requests, Consume(r),
              Renames(req[r].rec.path,
                      [req[r].rec.path EXCEPT !.file = Append(req[r].name, now)],
                      [how |-> "consumed", by |-> r])
       PROVE  DiskEvents
  BY <1>7, <1>14, <1>18 DEF DiskEvents
<1>19. ASSUME NEW p \in cleaner.todo, RemoveExpired(p),
              Removes(p, [how |-> "cleanup", by |-> now])
       PROVE  DiskEvents
  BY <1>8, <1>14, <1>19 DEF DiskEvents
<1>20. NoContentMoves => DiskEvents
  BY DEF DiskEvents
<1>21. ASSUME NEW r \in Requests, CreateContent(r), Creates(PathOf(req[r]), r, "content")
       PROVE  DiskEvents
  BY <1>15, <1>21 DEF DiskEvents, ContentCreated
<1>. QED
  BY <1>1, <1>3, <1>9, <1>10, <1>11, <1>12, <1>13, <1>16, <1>17, <1>18, <1>19, <1>20, <1>21
     DEF DiskCalls

(* A record of a download or a deletion in progress leads to an upload     *)
(* that is done.                                                           *)
LEMMA RecordFinished ==
  ASSUME StateTypes, LookupsFinished, NEW r \in Requests,
         RemovePasteFile(r) \/ Consume(r)
  PROVE  Finished(req[r].rec.path)
<1>1. req[r].op \in {"serve", "delete"} /\ HoldsRecord(req[r]) /\ InProgress(r)
  BY ConsumeDoes, RemovePasteFileDoes DEF InProgress
<1>2. req[r].rec \in RecordsOf(req[r])
  BY <1>1 DEF RecordsOf
<1>. QED
  BY <1>1, <1>2 DEF LookupsFinished, GoodLookup

(* A content stays where it is until it goes, and only its own upload      *)
(* takes it back; what is not acknowledged yet is not deleted or viewed.   *)
LEMMA InPlaceLasts ==
  ASSUME StorageState, [Next]_vars, NEW u \in Uploads, InPlace(u)
  PROVE  \/ InPlace(u)'
         \/ /\ fate'[u] # None
            /\ \/ RemoveNewUpload(u)
               \/ /\ fate'[u].how # "rollback"
                  /\ req[u].pc = "done" \/ ExpiredOnDisk(PathOf(req[u]).file, now)
<1> DEFINE p == PathOf(req[u])
<1>1. /\ DiskEvents /\ NamesDiffer /\ DistinctNames /\ StateTypes /\ LookupsFinished
      /\ PathOf(req'[u]) = p /\ ContentAt(p, req[u]) /\ u \in Requests
      /\ RemovalInv /\ SidecarNames
  BY EveryDiskEvent, Lasting, PathOfUpload DEF StorageState, StorageInv, RemovalInv
<1>2. /\ p \in DOMAIN fs /\ fs[p] = [by |-> u, kind |-> "content"] /\ fate[u] = None
      /\ fs[p].by = u /\ fs[p].kind = "content"
  BY DEF InPlace
<1>3. ASSUME p \in DOMAIN fs', fs'[p] = fs[p], fate'[u] = None  PROVE InPlace(u)'
  BY <1>1, <1>2, <1>3 DEF InPlace
<1>4. CASE NoContentMoves
  BY <1>2, <1>3, <1>4 DEF NoContentMoves
<1>5. ASSUME NEW r \in Uploads, ContentCreated(r)  PROVE InPlace(u)'
  BY <1>2, <1>3, <1>5, CreateEffect DEF ContentCreated
<1>6. ASSUME NEW q \in DOMAIN fs, NEW how, how # None, fs[q].kind = "content",
             fate' = Fated(q, how), fs[q].by = u
      PROVE  q = p /\ fate'[u] = how
  <2>1. q = p
    BY <1>1, <1>2, <1>6 DEF RemovalInv, GoodFiles, GoodContent
  <2>. QED
    BY <1>1, <1>2, <1>6, <2>1, FateEffect
<1>7. ASSUME NEW q \in DOMAIN fs, NEW how, how # None, fs[q].kind = "content",
             fate' = Fated(q, how), fs[q].by # u
      PROVE  q # p /\ fate'[u] = None
  BY <1>1, <1>2, <1>7, FateEffect
<1>8. ASSUME Finished(p)  PROVE req[u].pc = "done"
  BY <1>1, <1>8, ContentAtOnce DEF Finished
<1>9. ASSUME NEW q \in DOMAIN fs, NEW how, how # None, ContentRemoved(q, how)
      PROVE  \/ InPlace(u)'
             \/ /\ fate'[u] # None
                /\ \/ RemoveNewUpload(u)
                   \/ /\ fate'[u].how # "rollback"
                      /\ req[u].pc = "done" \/ ExpiredOnDisk(p.file, now)
  <2>1. /\ DOMAIN fs' = DOMAIN fs \ {q} /\ (\A x \in DOMAIN fs' : fs'[x] = fs[x])
        /\ fate' = Fated(q, how) /\ fs[q].kind = "content"
    BY <1>9, RemoveEffect DEF ContentRemoved
  <2>2. CASE fs[q].by # u
    BY <1>2, <1>3, <1>7, <1>9, <2>1, <2>2
  <2>3. CASE fs[q].by = u
    <3>1. q = p /\ fate'[u] = how
      BY <1>6, <1>9, <2>1, <2>3
    <3>2. how.how = "delete" => Finished(p)
      BY <1>1, <1>9, <3>1, RecordFinished DEF ContentRemoved
    <3>. QED
      BY <1>8, <1>9, <2>3, <3>1, <3>2 DEF ContentRemoved
  <2>. QED
    BY <2>2, <2>3
<1>10. ASSUME NEW q \in DOMAIN fs, NEW how, how # None, ContentConsumed(q, how)
       PROVE  \/ InPlace(u)'
              \/ /\ fate'[u] # None
                 /\ fate'[u].how # "rollback"
                 /\ req[u].pc = "done"
  <2>0. PICK c : /\ c = ConsumedPath(req[fs[q].by], now) /\ Renames(q, c, how)
                 /\ fs[q].kind = "content" /\ how.how = "consumed"
    BY <1>10 DEF ContentConsumed
  <2>1. /\ DOMAIN fs' = (DOMAIN fs \ {q}) \cup {c}
        /\ \A x \in DOMAIN fs' : x # c => fs'[x] = fs[x]
        /\ fate' = Fated(q, how) /\ fs[q].kind = "content" /\ how.how = "consumed"
        /\ fs'[c] = fs[q]
    <3>1. Renames(q, c, how)
      BY <2>0
    <3>2. /\ DOMAIN fs' = (DOMAIN fs \ {q}) \cup {c}
          /\ fs'[c] = fs[q] /\ fate' = Fated(q, how)
      BY <3>1, RenameEffect
    <3>3. \A x \in DOMAIN fs' : x # c => fs'[x] = fs[x]
      BY <3>1, RenameEffect
    <3>. QED
      BY <2>0, <3>2, <3>3
  <2>2. CASE fs[q].by # u
    <3>1. q # p /\ fate'[u] = None
      BY <1>7, <1>10, <2>1, <2>2
    <3>2. fs[q].by \in Uploads /\ UploadRecord(req[fs[q].by]) /\ now \in Nat
      BY <1>1, ContentHere, PathOfUpload DEF StateTypes
    <3>3. ContentAt(c, req[fs[q].by])
      BY <1>1, <2>0, <3>2, ConsumedFiles DEF ContentAt, DistinctNames
    <3>4. c # p
      BY <1>1, <2>2, <3>2, <3>3, ContentAtOnce
    <3>5. p \in DOMAIN fs' /\ fs'[p] = fs[p]
      BY <1>2, <2>1, <3>1, <3>4
    <3>. QED
      BY <1>3, <3>1, <3>5
  <2>3. CASE fs[q].by = u
    <3>1. q = p /\ fate'[u] = how
      BY <1>6, <1>10, <2>1, <2>3
    <3>2. Finished(p)
      BY <1>1, <1>10, <3>1, RecordFinished DEF ContentConsumed
    <3>. QED
      BY <1>8, <1>10, <2>1, <3>1, <3>2
  <2>. QED
    BY <2>2, <2>3
<1>. QED
  BY <1>1, <1>4, <1>5, <1>9, <1>10 DEF DiskEvents

(* What a step does to the table: nothing, a row is inserted, the row at   *)
(* the path of a content that is gone is deleted, or a start reconciles.   *)
Insertion(r) ==
  /\ PersistPasteMetadata(r) /\ RowsAdded(pastes, pastes', NewPasteOf(req[r]))
  /\ PathOf(req[r]) \in Present(pastes') \ Present(pastes) <=> Answers(r, r, "done")

Deletion(p) ==
  /\ Gone(p)
  /\ \/ pastes' = DeletePasteByPath(pastes, p)
     \/ \E g : pastes' = DeletePaste(pastes, p, g)

TableEvents ==
  \/ pastes' = pastes
  \/ \E r \in Uploads : Insertion(r)
  \/ \E p : Deletion(p)
  \/ Reconcile

(* The record of a request is in use.                                      *)
LEMMA LookupInUse ==
  ASSUME LookupsFinished, NEW r \in Requests, req[r].op \in {"serve", "delete"},
         InProgress(r), HoldsRecord(req[r])
  PROVE  /\ GoodLookup(req[r].rec)
         /\ req[r].pc \in {"delete_metadata", "delete_password", "delete_paste"} =>
              Gone(req[r].rec.path)
BY DEF LookupsFinished, RecordsOf

(* Every transaction is one of these events.                               *)
LEMMA EveryTableEvent ==
  ASSUME StorageState, [Next]_vars
  PROVE  TableEvents
<1>1. /\ StateTypes /\ DistinctNames /\ DuplicatesStored /\ LookupsFinished /\ ExpiredGone
      /\ QuietStart
  BY DEF StorageState, StorageInv
<1>2. ASSUME NEW r \in Requests, HoldsRecord(req[r]), req[r].op = "upload",
             req[r].pc \in {"delete_stale", "drop_winner"}
      PROVE  Gone(req[r].rec.path)
  <2>1. r \in Uploads
    BY <1>2 DEF Uploads
  <2>2. PICK v \in Uploads : OffersFrom(req[r], v)
    BY <1>1, <1>2, <2>1 DEF DuplicatesStored
  <2>3. fate[v] # None /\ req[r].rec.path = PathOf(req[v])
    BY <1>2, <2>2 DEF OffersFrom
  <2>. QED
    BY <1>1, <2>3, PathOfUpload DEF Gone
<1>3. ASSUME NEW r \in Requests, HoldsRecord(req[r]), req[r].op \in {"serve", "delete"},
             req[r].pc \in {"delete_metadata", "delete_paste"}
      PROVE  Gone(req[r].rec.path)
  BY <1>1, <1>3, LookupInUse DEF InProgress
<1>4. ASSUME NEW r \in Requests, DeleteStale(r)  PROVE TableEvents
  BY <1>1, <1>2, <1>4, DeleteStaleDoes DEF TableEvents, Deletion, DatabaseFails
<1>5. ASSUME NEW r \in Requests, DropWinner(r)  PROVE TableEvents
  BY <1>1, <1>2, <1>5, DropWinnerDoes DEF TableEvents, Deletion, DatabaseFails
<1>6. ASSUME NEW r \in Requests, DeleteMetadata(r)  PROVE TableEvents
  BY <1>1, <1>3, <1>6, DeleteMetadataDoes DEF TableEvents, Deletion, DatabaseFails
<1>7. ASSUME NEW r \in Requests, DeleteRow(r)  PROVE TableEvents
  BY <1>1, <1>3, <1>7, DeleteRowDoes DEF TableEvents, Deletion, DatabaseFails
<1>8. ASSUME NEW r \in Requests, PersistPasteMetadata(r)  PROVE TableEvents
  <2> DEFINE new == NewPasteOf(req[r])
  <2>1. r \in Uploads /\ PathOf(new) = PathOf(req[r])
    BY <1>1, <1>8, PersistDoes, InsertOfFields DEF Uploads
  <2>2. CASE DatabaseFails
    BY <2>2 DEF TableEvents, DatabaseFails
  <2>3. ASSUME NEW result, pastes' = result.table, Inserts(pastes, result, new),
               \/ result.result = "inserted" /\ Answers(r, r, "done")
               \/ result.result # "inserted" /\ req'[r].pc # "done"
        PROVE  TableEvents
    BY <1>8, <2>1, <2>3 DEF TableEvents, Insertion, Inserts, Answers
  <2>. QED
    BY <1>1, <1>8, <2>2, <2>3, PersistDoes DEF Holds, Turns
<1>9. CASE ConsumeExpired
  <2>1. expired # <<>> /\ expired \in Seq(Locations)
    BY <1>1, <1>9 DEF ConsumeExpired, StateTypes
  <2>2. 1 \in DOMAIN expired /\ Head(expired) = expired[1]
    BY <2>1
  <2>3. Gone(Head(expired))
    BY <1>1, <2>2 DEF ExpiredGone
  <2>. QED
    BY <1>9, <2>3 DEF ConsumeExpired, TableEvents, Deletion, Write, DatabaseFails
<1>10. ASSUME NEW r \in Requests,
              \/ FindOwnerDuplicate(r) \/ CheckDuplicate(r) \/ GlobMatch(r)
              \/ StorePassword(r) \/ CreateContent(r) \/ CheckWinner(r)
              \/ RemoveNewUpload(r) \/ DeletePassword(r) \/ FindPastes(r) \/ IsFileStep(r)
              \/ HasPassword(r) \/ Open(r) \/ Consume(r) \/ RemovePasteFile(r)
       PROVE  TableEvents
  <2>1. UnchangedTable
    BY <1>10 DEF FindOwnerDuplicate, CheckDuplicate, GlobMatch, StorePassword, CreateContent,
                 CheckWinner, RemoveNewUpload, DeletePassword, FindPastes, IsFileStep,
                 HasPassword, Open, Consume, RemovePasteFile
  <2>. QED
    BY <2>1 DEF UnchangedTable, TableEvents
<1>11. CASE \/ \E r \in Requests : Arrival(r)
            \/ Crash \/ CleanerStep \/ ScanPastes \/ Tick
  <2>1. (\E r \in Requests : Arrival(r)) => pastes' = pastes
    BY <1>1, ArrivalsAreGood
  <2>2. Crash \/ CleanerStep \/ ScanPastes \/ Tick => pastes' = pastes
    BY DEF Crash, CleanerStep, ScanPastes, Tick, UnchangedTable
  <2>. QED
    BY <1>11, <2>1, <2>2 DEF TableEvents
<1>12. CASE Reconcile \/ UNCHANGED vars
  BY <1>12 DEF TableEvents, vars
<1>. QED
  BY <1>4, <1>5, <1>6, <1>7, <1>8, <1>9, <1>10, <1>11, <1>12 DEF Next, Step

(* What an event leaves of the rows.                                       *)
RowsFollow ==
  /\ \A p \in Present(pastes) :
       \/ p \in Present(pastes') /\ SameRow(pastes[p], pastes'[p])
       \/ p \notin Present(pastes') /\ Gone(p)
  /\ \A p \in Present(pastes') \ Present(pastes) :
       \E r \in Uploads :
         /\ Answers(r, r, "done") /\ p = PathOf(req[r]) /\ PersistPasteMetadata(r)
         /\ pastes'[p].owner = req[r].owner /\ pastes'[p].hash = req[r].hash
         /\ pastes'[p].dedup # None => pastes'[p].dedup = DedupKey(req[r])
  /\ \A r \in Uploads :
       PersistPasteMetadata(r) /\ Answers(r, r, "done") =>
         /\ PathOf(req[r]) \in Present(pastes') \ Present(pastes)
         /\ pastes'[PathOf(req[r])].owner = req[r].owner

(* Rows stay, go when the content is gone, or come with an acknowledgement.*)
LEMMA RowsLast ==
  ASSUME StorageState, [Next]_vars, ~Reconcile
  PROVE  RowsFollow
<1>1. StateTypes /\ TableEvents /\ pastes \in Tables /\ pastes' \in Tables
  BY EveryTableEvent, TableTyped DEF StorageState, StateTypes
<1>2. ASSUME NEW r \in Uploads
      PROVE  /\ NewPasteOf(req[r]).owner = req[r].owner /\ NewPasteOf(req[r]).hash = req[r].hash
             /\ PathOf(NewPasteOf(req[r])) = PathOf(req[r])
             /\ DedupKey(NewPasteOf(req[r])) = DedupKey(req[r])
  BY InsertOfFields DEF NewPasteOf
<1>3. ASSUME NEW p, Deletion(p)
      PROVE  /\ Gone(p)
             /\ \A q \in Paths : q # p => pastes'[q] = pastes[q]
             /\ pastes'[p] = pastes[p] \/ pastes'[p] = NoRow \/ p \notin Paths
  BY <1>1, <1>3 DEF Deletion, DeletePaste, DeletePasteByPath, Tables
<1>4. ASSUME NEW p \in Present(pastes)
      PROVE  \/ p \in Present(pastes') /\ SameRow(pastes[p], pastes'[p])
             \/ p \notin Present(pastes') /\ Gone(p)
  <2>1. CASE pastes' = pastes
    BY <2>1 DEF SameRow
  <2>2. ASSUME NEW r \in Uploads, Insertion(r)
        PROVE  p \in Present(pastes') /\ SameRow(pastes[p], pastes'[p])
    BY <2>2 DEF Insertion, RowsAdded
  <2>3. ASSUME NEW q, Deletion(q)
        PROVE  \/ p \in Present(pastes') /\ SameRow(pastes[p], pastes'[p])
               \/ p \notin Present(pastes') /\ Gone(p)
    BY <1>3, <2>3 DEF Present, SameRow
  <2>. QED
    BY <1>1, <2>1, <2>2, <2>3 DEF TableEvents
<1>5. ASSUME NEW p \in Present(pastes') \ Present(pastes)
      PROVE  \E r \in Uploads :
               /\ Answers(r, r, "done") /\ p = PathOf(req[r]) /\ PersistPasteMetadata(r)
               /\ pastes'[p].owner = req[r].owner /\ pastes'[p].hash = req[r].hash
               /\ pastes'[p].dedup # None => pastes'[p].dedup = DedupKey(req[r])
  <2>1. PICK r \in Uploads : Insertion(r)
    BY <1>1, <1>3, <1>5 DEF TableEvents, Present
  <2>2. p = PathOf(req[r])
    BY <1>2, <1>5, <2>1 DEF Insertion, RowsAdded
  <2>3. Answers(r, r, "done") /\ PersistPasteMetadata(r)
    BY <1>5, <2>1, <2>2 DEF Insertion
  <2>4. /\ pastes'[p].owner = req[r].owner /\ pastes'[p].hash = req[r].hash
        /\ pastes'[p].dedup # None => pastes'[p].dedup = DedupKey(req[r])
    BY <1>2, <1>5, <2>1 DEF Insertion, RowsAdded
  <2>. QED
    BY <2>2, <2>3, <2>4
<1>6. ASSUME NEW r \in Uploads, PersistPasteMetadata(r), Answers(r, r, "done")
      PROVE  /\ PathOf(req[r]) \in Present(pastes') \ Present(pastes)
             /\ pastes'[PathOf(req[r])].owner = req[r].owner
  <2>1. r \in Requests /\ req'[r].pc = "done"
    BY <1>6 DEF Uploads, Answers
  <2>2. PICK result : /\ pastes' = result.table /\ Inserts(pastes, result, NewPasteOf(req[r]))
                      /\ result.result = "inserted"
    BY <1>1, <1>6, <2>1, PersistDoes DEF Holds, Turns
  <2>3. PathOf(req[r]) \in Present(pastes') \ Present(pastes)
    BY <1>2, <2>2 DEF Inserts
  <2>. QED
    BY <1>2, <2>2, <2>3 DEF Inserts, RowsAdded
<1>. QED
  BY <1>4, <1>5, <1>6 DEF RowsFollow

(* A start leaves rows for what the scan found, with their owners.         *)
LEMMA ReconcileDoes ==
  ASSUME StateTypes, Reconcile
  PROVE  /\ server = "reconcile" /\ server' = "up"
         /\ UNCHANGED <<fs, fate, now, req, cleaner, expired, crashes, faults>>
         /\ scan'.kept = scan.kept
         /\ DOMAIN scan.found \cap Paths \subseteq Present(pastes')
         /\ \A p \in Present(pastes') :
              \/ /\ p \in DOMAIN scan.found
                 /\ pastes'[p].hash = scan.found[p]
                 /\ pastes'[p].owner = (IF p \in Present(pastes) THEN pastes[p].owner ELSE None)
                 /\ pastes'[p].dedup = (IF p \in Present(pastes) THEN pastes[p].dedup ELSE None)
              \/ p \in scan.kept /\ p \in Present(pastes) /\ pastes'[p] = pastes[p]
<1> DEFINE U == ReconcilePastes(pastes, Found, scan.kept, gen)
<1>1. /\ server = "reconcile" /\ server' = "up" /\ pastes' = U
      /\ UNCHANGED <<fs, fate, now, req, cleaner, expired, crashes, faults>>
      /\ Found \in [DOMAIN scan.found \cap Paths -> Hashes]
      /\ pastes \in Tables /\ gen \in Nat
      /\ scan' = [NoScan EXCEPT !.kept = scan.kept]
  BY FoundType DEF Reconcile, UnchangedDisk, StateTypes
<1>2. \A p \in Paths : p \notin DOMAIN scan.found =>
                        \/ U[p] = NoRow
                        \/ p \in scan.kept /\ U[p] = pastes[p]
  BY DEF ReconcilePastes, Found
<1>3. ASSUME NEW p \in Paths, p \in DOMAIN scan.found
      PROVE  /\ U[p] # NoRow /\ U[p].hash = scan.found[p]
             /\ U[p].owner = (IF p \in Present(pastes) THEN pastes[p].owner ELSE None)
             /\ U[p].dedup = (IF p \in Present(pastes) THEN pastes[p].dedup ELSE None)
  <2>1. /\ SplitExpiry(p.file).name \in PublicNames
        /\ SplitExpiry(p.file).expires \in Nat \cup {None}
        /\ TypeOfDir(p.dir) \in PasteTypes /\ Found[p] \in Hashes /\ Found[p] = scan.found[p]
    BY <1>1, <1>3, SplitType, TypeOfDirType DEF Paths, Found
  <2>2. CASE pastes[p] = NoRow
    <3>1. U[p] = ScannedRow(p, Found[p], gen)
      BY <1>3, <2>2 DEF ReconcilePastes, Found
    <3>2. ScannedRow(p, Found[p], gen) \in Rows
      BY <1>1, <2>1 DEF ScannedRow, Rows
    <3>. QED
      BY <2>1, <2>2, <3>1, <3>2, NoRowAssumption DEF ScannedRow, Present
  <2>3. CASE pastes[p] # NoRow
    <3>1. U[p] = Rescanned(pastes[p], p, Found[p])
      BY <1>3, <2>3 DEF ReconcilePastes, Found
    <3>2. pastes[p] \in Rows
      BY <1>1, <2>3 DEF Tables
    <3>3. Rescanned(pastes[p], p, Found[p]) \in Rows
      BY <2>1, <3>2 DEF Rescanned, Rows
    <3>. QED
      BY <1>3, <2>1, <2>3, <3>1, <3>2, <3>3, NoRowAssumption DEF Rescanned, Rows, Present
  <2>. QED
    BY <2>2, <2>3
<1>4. scan'.kept = scan.kept
  BY <1>1 DEF NoScan
<1> HIDE DEF U
<1>5. DOMAIN scan.found \cap Paths \subseteq Present(pastes')
  BY <1>1, <1>3 DEF Present
<1>6. ASSUME NEW p \in Present(pastes'), p \notin DOMAIN scan.found
      PROVE  p \in scan.kept /\ p \in Present(pastes) /\ pastes'[p] = pastes[p]
  BY <1>1, <1>2, <1>6 DEF Present
<1>7. \A p \in Present(pastes') : p \in Paths /\ pastes'[p] = U[p]
  BY <1>1 DEF Present
<1>. QED
  BY <1>1, <1>3, <1>4, <1>5, <1>6, <1>7

(* Time does not run backwards.                                            *)
LEMMA ExpiredLasts ==
  ASSUME StateTypes, [Next]_vars
  PROVE  /\ now' \in {now, now + 1}
         /\ \A f : ExpiredOnDisk(f, now) => ExpiredOnDisk(f, now')
<1>1. now \in Nat
  BY DEF StateTypes
<1>2. now' \in {now, now + 1}
  <2>1. ASSUME NEW r \in Requests, Arrival(r) \/ Step(r)  PROVE now' = now
    BY <2>1, ArrivalsAreGood, StepsRun
  <2>2. CASE \/ CleanerStep \/ ConsumeExpired \/ Crash \/ ScanPastes \/ Reconcile \/ Tick
             \/ UNCHANGED vars
    BY <2>2 DEF CleanerStep, ConsumeExpired, Crash, ScanPastes, Reconcile, Tick, vars
  <2>. QED
    BY <2>1, <2>2 DEF Next
<1>3. ASSUME NEW f, ExpiredOnDisk(f, now)  PROVE ExpiredOnDisk(f, now')
  <2>1. Numeric(f) /\ now > Suffix(f) /\ Suffix(f) \in Nat
    BY <1>3, PartsAssumption DEF ExpiredOnDisk, Numeric, Suffix
  <2>2. now' > Suffix(f)
    BY <1>1, <1>2, <2>1
  <2>. QED
    BY <2>1, <2>2 DEF ExpiredOnDisk
<1>. QED
  BY <1>2, <1>3

(* What may happen to a request.                                           *)
Lost(u) ==
  /\ Crash /\ InProgress(u) /\ SameRequest(req[u], req'[u])
  /\ req'[u].pc = "done" /\ req'[u].status = "lost" /\ req'[u].seen = req[u].seen

(* A request arrives, takes a step or is lost, or nothing happens to it.   *)
LEMMA RequestCases ==
  ASSUME StateTypes, [Next]_vars, NEW u \in Requests
  PROVE  req'[u] = req[u] \/ Step(u) \/ (Arrived(u) /\ Arrival(u)) \/ Lost(u)
<1>1. ASSUME NEW r \in Requests, Step(r)
      PROVE  req'[u] = req[u] \/ Step(u)
  BY <1>1, StepsRun
<1>2. ASSUME NEW r \in Requests, Arrival(r)
      PROVE  req'[u] = req[u] \/ (Arrived(u) /\ Arrival(u))
  <2>1. Arrived(r)
    BY <1>2, ArrivalsAreGood
  <2>2. CASE u = r
    BY <1>2, <2>1, <2>2
  <2>3. CASE u # r
    BY <2>1, <2>3 DEF Arrived
  <2>. QED
    BY <2>2, <2>3
<1>3. CASE Crash
  <2>1. LostOrKept(req[u], req'[u]) /\ SameRequest(req[u], req'[u])
    BY <1>3, CrashedRequests
  <2>. QED
    BY <1>3, <2>1 DEF LostOrKept, Lost, InProgress
<1>4. CASE UNCHANGED vars
  BY <1>4 DEF vars
<1>. QED
  BY <1>1, <1>2, <1>3, <1>4, NextCases

(* A content that is being created is not gone.                            *)
LEMMA FreshFatesStep ==
  ASSUME StorageState, [Next]_vars
  PROVE  FreshFates'
<1>1. /\ StateTypes /\ DiskEvents /\ FreshFates /\ GoodFiles /\ GoodFates
  BY EveryDiskEvent DEF StorageState, StorageInv, RemovalInv
<1>2. ASSUME NEW u \in Uploads, IsCreating(req[u])  PROVE fate'[u] = None
  <2>1. fate[u] = None /\ u \in Requests
    BY <1>1, <1>2 DEF FreshFates, Uploads
  <2>2. CASE NoContentMoves
    BY <2>1, <2>2 DEF NoContentMoves
  <2>3. ASSUME NEW r \in Uploads, ContentCreated(r)  PROVE fate' = fate
    BY <2>3 DEF ContentCreated, Creates
  <2>4. ASSUME NEW how, NEW p \in DOMAIN fs, ContentRemoved(p, how) \/ ContentConsumed(p, how)
        PROVE  fate'[u] = fate[u]
    <3>1. fate' = Fated(p, how) /\ fs[p].kind = "content"
      BY <2>4 DEF ContentRemoved, ContentConsumed, Removes, Renames, RemoveFile
    <3>2. ~IsCreating(req[fs[p].by])
      BY <1>1, <3>1 DEF GoodFiles
    <3>. QED
      BY <1>1, <1>2, <2>1, <3>1, <3>2, FateEffect
  <2>. QED
    BY <1>1, <2>1, <2>2, <2>3, <2>4 DEF DiskEvents
<1>3. ASSUME NEW u \in Uploads', IsCreating(req'[u])  PROVE fate'[u] = None
  <2>1. CASE u \in Uploads
    BY <1>1, <1>2, <1>3, <2>1, UploadsMove
  <2>2. CASE u \notin Uploads
    <3>1. u \in Requests /\ fate' = fate
      BY <1>1, <2>2, UploadsMove
    <3>. QED
      BY <1>1, <2>2, <3>1 DEF GoodFates, GoodFate
  <2>. QED
    BY <2>1, <2>2
<1>. QED
  BY <1>3 DEF FreshFates

(* Hashes are where they belong.                                           *)
LEMMA SidecarNamesStep ==
  ASSUME StorageState, [Next]_vars
  PROVE  SidecarNames'
<1>1. /\ StateTypes /\ DiskCalls /\ SidecarNames /\ DistinctNames /\ GoodRecords /\ PlainNames
  BY EveryDiskCall DEF StorageState, StorageInv, RemovalInv, DistinctNames
<1>0. ASSUME \A x \in DOMAIN fs' : \/ x \in DOMAIN fs /\ fs'[x] = fs[x]
                                   \/ fs'[x].kind # "hash"
                                   \/ Suffix(x.file) = PasswordExt
      PROVE  SidecarNames'
  BY <1>1, <1>0 DEF SidecarNames
<1>2. ASSUME NEW p, NEW how, Removes(p, how)  PROVE SidecarNames'
  BY <1>1, <1>2, RemoveEffect DEF SidecarNames
<1>3. ASSUME NEW p, NEW r, Creates(p, r, "content")  PROVE SidecarNames'
  <2>1. /\ DOMAIN fs' = DOMAIN fs \cup {p} /\ \A x \in DOMAIN fs : fs'[x] = fs[x]
    BY <1>3, CreateEffect
  <2>2. fs'[p] = [by |-> r, kind |-> "content"]
    BY <1>3, CreateEffect
  <2>. QED
    BY <1>0, <2>1, <2>2
<1>4. ASSUME NEW p, NEW r, Creates(p, r, "hash"), Suffix(p.file) = PasswordExt
      PROVE  SidecarNames'
  <2>1. DOMAIN fs' = DOMAIN fs \cup {p} /\ \A x \in DOMAIN fs : fs'[x] = fs[x]
    BY <1>4, CreateEffect
  <2>. QED
    BY <1>4, <1>0, <2>1
<1>5. ASSUME NEW r \in Requests, StorePassword(r)
      PROVE  Suffix(SidecarOf(req[r]).file) = PasswordExt
  BY <1>1, <1>5, PreparationDoes, PathOfUpload DEF Uploads
<1>6. ASSUME NEW r \in Requests, Consume(r), NEW q, NEW how, Renames(req[r].rec.path, q, how)
      PROVE  SidecarNames'
  <2>1. HoldsRecord(req[r]) /\ req[r].op = "serve"
    BY <1>1, <1>6, ConsumeDoes
  <2>2. PICK p : p = req[r].rec.path /\ Renames(p, q, how)
    BY <1>6
  <2>3. Suffix(p.file) # PasswordExt
    BY <1>1, <2>1, <2>2, RecordInUse, ContentNames DEF GoodRecord
  <2>4. fs[p].kind # "hash"
    BY <1>1, <2>2, <2>3 DEF SidecarNames, Renames, IsFile
  <2>5. DOMAIN fs' = (DOMAIN fs \ {p}) \cup {q} /\ fs'[q] = fs[p]
    BY <2>2, RenameEffect
  <2>6. \A x \in DOMAIN fs' : x # q => fs'[x] = fs[x]
    BY <2>2, RenameEffect
  <2>. QED
    BY <1>0, <2>4, <2>5, <2>6
<1>7. UnchangedDisk => SidecarNames'
  BY <1>1 DEF UnchangedDisk, SidecarNames
<1>. QED
  BY <1>1, <1>2, <1>3, <1>4, <1>5, <1>6, <1>7 DEF DiskCalls

(* While the process starts, no request is in progress.                    *)
LEMMA QuietStartStep ==
  ASSUME StorageState, [Next]_vars
  PROVE  QuietStart'
<1>1. StateTypes /\ QuietStart
  BY DEF StorageState, StorageInv
<1>2. CASE Crash
  <2>1. \A r \in Requests : req'[r].pc \in {"idle", "done"}
    BY <1>1, <1>2, CrashedRequests
  <2>. QED
    BY <2>1 DEF QuietStart, InProgress
<1>3. ASSUME NEW r \in Requests, Step(r) \/ Arrival(r)  PROVE server' = "up"
  BY <1>1, <1>3, StepsRun, ArrivalsAreGood
<1>4. CASE req' = req /\ (CleanerStep \/ ConsumeExpired \/ ScanPastes \/ Reconcile \/ Tick)
  BY <1>1, <1>4 DEF QuietStart, InProgress, CleanerStep, ConsumeExpired, ScanPastes, Reconcile, Tick
<1>5. CASE UNCHANGED vars
  BY <1>1, <1>5 DEF QuietStart, InProgress, vars
<1>. QED
  BY <1>2, <1>3, <1>4, <1>5, NextCases DEF QuietStart

(* What the consumer is told of is gone.                                   *)
LEMMA ExpiredGoneStep ==
  ASSUME StorageState, [Next]_vars
  PROVE  ExpiredGone'
<1>1. /\ StateTypes /\ DistinctNames /\ RemovalInv /\ SidecarNames /\ GoodCleaner /\ ExpiredGone
      /\ CleanerTypes /\ expired \in Seq(Locations)
      /\ \A p : Gone(p) => Gone(p)'
  BY Lasting DEF StorageState, StorageInv, RemovalInv, StateTypes
<1>2. CASE UNCHANGED <<expired, cleaner>>
  BY <1>1, <1>2 DEF ExpiredGone
<1>3. ASSUME NEW p \in cleaner.todo, RemoveExpired(p), UNCHANGED expired  PROVE ExpiredGone'
  <2>1. CASE IsFile(p) /\ cleaner' = [pc |-> "sidecar", todo |-> cleaner.todo \ {p}, path |-> p]
             /\ RemoveFile(p, [how |-> "cleanup", by |-> now])
    <3>1. p \in DOMAIN fs /\ fate' = Fated(p, [how |-> "cleanup", by |-> now])
      BY <2>1 DEF IsFile, RemoveFile
    <3>2. Suffix(p.file) \in NumericParts
      BY <1>1, <1>3 DEF RemoveExpired, GoodCleaner, ExpiredOnDisk, Numeric, Suffix
    <3>3. fs[p].kind = "content" /\ ContentAt(p, req[fs[p].by]) /\ fs[p].by \in Uploads
      BY <1>1, <3>1, <3>2, ContentHere, PartsAssumption, PasswordExtAssumption
    <3>4. [how |-> "cleanup", by |-> now] # None
      BY <1>1, FateAssumption DEF StateTypes
    <3>5. PICK u \in Uploads : u = fs[p].by
      BY <3>3
    <3>6. u \in Requests /\ ContentAt(p, req'[u]) /\ u \in Uploads'
      BY <1>1, <3>3, <3>5, Lasting DEF Uploads
    <3>7. fate'[u] # None
      BY <1>1, <3>1, <3>3, <3>4, <3>5, <3>6, FateEffect
    <3>8. Gone(p)'
      BY <3>6, <3>7 DEF Gone, ContentAt
    <3>. QED
      BY <1>1, <1>3, <2>1, <3>8 DEF ExpiredGone
  <2>2. CASE cleaner' = [cleaner EXCEPT !.todo = @ \ {p}]
    <3>1. cleaner'.pc = cleaner.pc /\ cleaner'.path = cleaner.path
      BY <1>1, <2>2 DEF CleanerTypes
    <3>. QED
      BY <1>1, <1>3, <3>1 DEF ExpiredGone
  <2>. QED
    BY <1>3, <2>1, <2>2 DEF RemoveExpired
<1>4. CASE RemoveExpiredSidecar
  <2>1. PICK q : q = cleaner.path /\ q \in Locations /\ Gone(q)
    BY <1>1, <1>4 DEF RemoveExpiredSidecar, ExpiredGone, CleanerTypes
  <2>2. expired' = Append(expired, q) /\ cleaner'.pc = "files"
    BY <1>1, <1>4, <2>1 DEF RemoveExpiredSidecar, CleanerTypes
  <2>3. \A i \in DOMAIN expired' : \/ i \in DOMAIN expired /\ expired'[i] = expired[i]
                                   \/ expired'[i] = q
    BY <1>1, <2>1, <2>2
  <2>4. ASSUME NEW x, Gone(x)  PROVE Gone(x)'
    BY <1>1, <2>4
  <2>5. \A i \in DOMAIN expired : Gone(expired[i])
    BY <1>1 DEF ExpiredGone
  <2>6. \A i \in DOMAIN expired' : Gone(expired'[i])
    BY <2>1, <2>3, <2>5
  <2>. QED
    BY <1>1, <2>2, <2>6 DEF ExpiredGone
<1>5. ASSUME cleaner'.pc # "sidecar", UNCHANGED expired  PROVE ExpiredGone'
  BY <1>1, <1>5 DEF ExpiredGone
<1>6. CASE CleanerStep
  <2>1. ListExpired \/ ListOrphans => cleaner'.pc # "sidecar"
    BY <1>1 DEF ListExpired, ListOrphans, CleanerTypes
  <2>2. ASSUME NEW p \in cleaner.todo, RemoveOrphan(p)  PROVE cleaner'.pc # "sidecar"
    BY <1>1, <2>2 DEF RemoveOrphan, CleanerTypes
  <2>. QED
    BY <1>3, <1>4, <1>5, <1>6, <2>1, <2>2 DEF CleanerStep
<1>7. CASE ConsumeExpired
  <2>1. expired # <<>> /\ expired' = Tail(expired) /\ cleaner' = cleaner
    BY <1>7 DEF ConsumeExpired
  <2>2. \A i \in DOMAIN expired' : i + 1 \in DOMAIN expired /\ expired'[i] = expired[i + 1]
    BY <1>1, <2>1
  <2>. QED
    BY <1>1, <2>1, <2>2 DEF ExpiredGone
<1>8. CASE Crash
  <2>1. expired' = <<>> /\ cleaner'.pc = "idle"
    BY <1>8 DEF Crash, CleanerIdle
  <2>2. <<>> \in Seq(Locations) /\ Len(<<>>) = 0
    OBVIOUS
  <2>3. DOMAIN expired' = {}
    BY <2>1, <2>2
  <2>. QED
    BY <2>1, <2>3 DEF ExpiredGone
<1>9. ASSUME NEW r \in Requests, Step(r) \/ Arrival(r)  PROVE UNCHANGED <<expired, cleaner>>
  BY <1>1, <1>9, StepsRun, ArrivalsAreGood
<1>10. CASE ScanPastes \/ Reconcile \/ Tick \/ UNCHANGED vars
  BY <1>2, <1>10 DEF ScanPastes, Reconcile, Tick, vars
<1>. QED
  BY <1>2, <1>6, <1>7, <1>8, <1>9, <1>10 DEF Next

(* Which steps an upload takes, and which a download or a deletion.        *)
LEMMA UploadSteps ==
  ASSUME StateTypes, NEW u \in Requests, Step(u)
  PROVE  /\ req[u].op = "upload" =>
              \/ FindOwnerDuplicate(u) \/ CheckDuplicate(u) \/ DeleteStale(u)
              \/ GlobMatch(u) \/ StorePassword(u) \/ CreateContent(u)
              \/ PersistPasteMetadata(u) \/ CheckWinner(u) \/ DropWinner(u)
              \/ RemoveNewUpload(u) \/ DeletePassword(u)
         /\ req[u].op # "upload" =>
              \/ FindPastes(u) \/ IsFileStep(u) \/ HasPassword(u) \/ Open(u)
              \/ Consume(u) \/ DeleteMetadata(u) \/ RemovePasteFile(u) \/ DeletePassword(u)
              \/ DeleteRow(u)
<1>1. FindPastes(u) \/ IsFileStep(u) => req[u].op \in {"serve", "delete"}
  BY FindPastesDoes, IsFileStepDoes
<1>2. HasPassword(u) \/ Open(u) \/ Consume(u) \/ DeleteMetadata(u) => req[u].op = "serve"
  BY HasPasswordDoes, OpenDoes, ConsumeDoes, DeleteMetadataDoes
<1>3. RemovePasteFile(u) \/ DeleteRow(u) => req[u].op = "delete"
  BY RemovePasteFileDoes, DeleteRowDoes
<1>4. FindOwnerDuplicate(u) \/ CheckDuplicate(u) \/ DeleteStale(u) => req[u].op = "upload"
  BY FindOwnerDuplicateDoes, CheckDuplicateDoes, DeleteStaleDoes
<1>5. GlobMatch(u) \/ StorePassword(u) \/ CreateContent(u) => req[u].op = "upload"
  BY PreparationDoes, CreateContentDoes
<1>6. PersistPasteMetadata(u) \/ CheckWinner(u) \/ DropWinner(u) \/ RemoveNewUpload(u)
      => req[u].op = "upload"
  BY PersistDoes, CheckWinnerDoes, DropWinnerDoes, RemoveNewUploadDoes
<1>. QED
  BY <1>1, <1>2, <1>3, <1>4, <1>5, <1>6 DEF Step

(* The file at the path of an offer is that of another upload.             *)
LEMMA OfferHere ==
  ASSUME StorageState, NEW r \in Uploads, HoldsRecord(req[r]), req[r].rec.path \in DOMAIN fs
  PROVE  /\ fs[req[r].rec.path].by \in Uploads /\ fs[req[r].rec.path].by # r
         /\ OffersFrom(req[r], fs[req[r].rec.path].by)
<1>1. /\ StateTypes /\ DistinctNames /\ RemovalInv /\ SidecarNames /\ DuplicatesStored
      /\ NamesDiffer /\ r \in Requests /\ req[r].op = "upload"
  BY DEF StorageState, StorageInv, RemovalInv, Uploads
<1>2. PICK v \in Uploads : OffersFrom(req[r], v)
  BY <1>1 DEF DuplicatesStored
<1>3. PICK p : p = req[r].rec.path
  OBVIOUS
<1>4. p = PathOf(req[v]) /\ v # r
  BY <1>1, <1>2, <1>3 DEF OffersFrom, SelfStored, Acknowledged, HoldsRecord
<1>5. ContentAt(p, req[v]) /\ Suffix(p.file) # PasswordExt
  BY <1>1, <1>4, PathOfUpload
<1>6. ContentAt(p, req[fs[p].by]) /\ fs[p].by \in Uploads
  BY <1>1, <1>3, <1>5, ContentHere
<1>7. fs[p].by = v
  BY <1>1, <1>5, <1>6, ContentAtOnce
<1>. QED
  BY <1>2, <1>3, <1>4, <1>7

(* An upload is answered with its own content when its row is inserted.    *)
LEMMA StoredByInsertion ==
  ASSUME StorageState, [Next]_vars, NEW u \in Uploads', SelfStored(u)'
  PROVE  /\ u \in Uploads /\ u \in Requests
         /\ \/ SelfStored(u) /\ req'[u] = req[u]
            \/ PersistPasteMetadata(u) /\ Answers(u, u, "done")
<1>1. /\ StateTypes /\ DistinctNames /\ RemovalInv /\ SidecarNames /\ StoredAnswers
      /\ req'[u].op = "upload" /\ req'[u].pc = "done" /\ req'[u].status = "ok" /\ req'[u].seen = u
  BY DEF StorageState, StorageInv, SelfStored, Acknowledged
<1>2. u \in Uploads /\ u \in Requests /\ req[u].op = "upload"
  BY <1>1, UploadsMove DEF Arrived, Uploads
<1>3. CASE req'[u] = req[u]
  BY <1>1, <1>2, <1>3 DEF SelfStored, Acknowledged
<1>4. ASSUME Step(u)  PROVE PersistPasteMetadata(u) /\ Answers(u, u, "done")
  <2>1. ~FindOwnerDuplicate(u)
    BY <1>1, <1>2, FindOwnerDuplicateDoes DEF GoesOn, Holds, Turns, AfterCheck, StoreStep
  <2>2. ~CheckDuplicate(u)
    BY <1>1, <1>2, CheckDuplicateDoes, OfferHere DEF GoesOn, Answers, AfterCheck, StoreStep
  <2>3. ~DeleteStale(u)
    BY <1>1, <1>2, DeleteStaleDoes DEF GoesOn, Turns, AfterCheck, StoreStep
  <2>4. ~GlobMatch(u) /\ ~StorePassword(u)
    BY <1>1, <1>2, PreparationDoes DEF GoesOn, Turns
  <2>5. ~CreateContent(u)
    BY <1>1, <1>2, CreateContentDoes DEF GoesOn, Turns
  <2>6. ~CheckWinner(u)
    BY <1>1, <1>2, CheckWinnerDoes DEF GoesOn, Answers
  <2>7. ~DropWinner(u)
    BY <1>1, <1>2, DropWinnerDoes DEF GoesOn, Turns
  <2>8. ~RemoveNewUpload(u)
    BY <1>1, <1>2, RemoveNewUploadDoes DEF GoesOn
  <2>9. ~DeletePassword(u)
    <3>1. DeletePassword(u) => req[u].pc = "delete_password" /\ GoesOn(u, "done")
      BY <1>1, <1>2, DeletePasswordDoes
    <3>2. DeletePassword(u) => req[u].status = "ok" /\ req[u].seen = u
      BY <1>1, <3>1 DEF GoesOn, AnswerKept
    <3>3. Answered(req[u]) /\ req[u].seen = u => req[u].pc = "done"
      BY <1>1, <1>2 DEF StoredAnswers, AnswerFrom, SelfStored, Acknowledged
    <3>. QED
      BY <3>1, <3>2, <3>3 DEF Answered
  <2>10. PersistPasteMetadata(u)
    BY <1>1, <1>2, <1>4, <2>1, <2>2, <2>3, <2>4, <2>5, <2>6, <2>7, <2>8, <2>9, UploadSteps
  <2>. QED
    BY <1>1, <1>2, <2>10, PersistDoes DEF Holds, Turns
<1>5. ~Arrived(u) /\ ~Lost(u)
  BY <1>1, <1>2 DEF Arrived, Lost
<1>. QED
  BY <1>1, <1>2, <1>3, <1>4, <1>5, RequestCases

(* Rows with owners are of acknowledged uploads.                           *)
LEMMA OwnedRowsStep ==
  ASSUME StorageState, [Next]_vars
  PROVE  OwnedRows'
<1>1. /\ StateTypes /\ DistinctNames /\ NamesDiffer /\ OwnedRows /\ FaithfulScan /\ RemovalInv
      /\ \A v \in Requests : SelfStored(v) => req'[v] = req[v] /\ SelfStored(v)'
  BY Lasting DEF StorageState, StorageInv, RemovalInv
<1>2. ASSUME NEW p, NEW x, NEW y, NEW v \in Uploads, RowFrom(p, x, v),
             x.owner = y.owner, x.hash = y.hash, x.dedup = y.dedup
      PROVE  RowFrom(p, y, v)' /\ v \in Uploads'
  BY <1>1, <1>2 DEF RowFrom, Uploads, PathOf, DedupKey
<1>3. ASSUME NEW p \in Present(pastes'), pastes'[p].owner # None
      PROVE  \E v \in Uploads' : RowFrom(p, pastes[p], v)'
  <2>1. CASE ~Reconcile /\ p \in Present(pastes)
    <3>1. SameRow(pastes[p], pastes'[p])
      BY <1>3, <2>1, RowsLast DEF RowsFollow
    <3>2. PICK v \in Uploads : RowFrom(p, pastes[p], v)
      BY <1>1, <1>3, <2>1, <3>1 DEF OwnedRows, SameRow
    <3>. QED
      BY <1>2, <3>1, <3>2 DEF SameRow
  <2>2. CASE ~Reconcile /\ p \notin Present(pastes)
    <3>1. PICK r \in Uploads :
            /\ Answers(r, r, "done") /\ p = PathOf(req[r]) /\ PersistPasteMetadata(r)
            /\ pastes'[p].owner = req[r].owner /\ pastes'[p].hash = req[r].hash
            /\ pastes'[p].dedup # None => pastes'[p].dedup = DedupKey(req[r])
      BY <1>3, <2>2, RowsLast DEF RowsFollow
    <3>2. /\ r \in Uploads' /\ req'[r].op = "upload" /\ SameRequest(req[r], req'[r])
          /\ PathOf(req'[r]) = PathOf(req[r])
      BY <1>1, UploadsMove, SameFiles DEF Uploads
    <3>3. SelfStored(r)'
      BY <3>1, <3>2 DEF SelfStored, Acknowledged, Answers
    <3>4. DedupKey(req'[r]) = DedupKey(req[r])
      BY <3>2 DEF DedupKey, SameRequest
    <3>5. RowFrom(p, pastes[p], r)'
      BY <3>1, <3>2, <3>3, <3>4 DEF RowFrom, SameRequest
    <3>. QED
      BY <3>2, <3>5
  <2>3. CASE Reconcile
    <3>1. /\ p \in Present(pastes) /\ pastes'[p].owner = pastes[p].owner
          /\ pastes'[p].dedup = pastes[p].dedup /\ server = "reconcile"
          /\ \/ pastes'[p].hash = pastes[p].hash
             \/ p \in DOMAIN scan.found /\ pastes'[p].hash = scan.found[p]
      BY <1>1, <1>3, <2>3, ReconcileDoes
    <3>2. PICK v \in Uploads : RowFrom(p, pastes[p], v)
      BY <1>1, <1>3, <3>1 DEF OwnedRows
    <3>3. ContentAt(p, req[v]) /\ Suffix(p.file) # PasswordExt
      BY <1>1, <3>2, PathOfUpload DEF RowFrom
    <3>4. ASSUME p \in DOMAIN scan.found, pastes'[p].hash = scan.found[p]
          PROVE  pastes'[p].hash = pastes[p].hash
      <4>1. PICK u \in Uploads : ContentAt(p, req[u]) /\ scan.found[p] = req[u].hash
        BY <1>1, <3>1, <3>3, <3>4 DEF FaithfulScan, FoundHere
      <4>2. u = v
        BY <1>1, <3>3, <4>1, ContentAtOnce
      <4>. QED
        BY <3>2, <3>4, <4>1, <4>2 DEF RowFrom
    <3>6. pastes'[p].hash = pastes[p].hash
      BY <3>1, <3>4
    <3>. QED
      BY <1>2, <3>1, <3>2, <3>6
  <2>. QED
    BY <2>1, <2>2, <2>3
<1>. QED
  BY <1>3 DEF OwnedRows

(* A path is gone once the file at it is renamed or removed.               *)
LEMMA TakenAway ==
  ASSUME StorageState, [Next]_vars, NEW p \in DOMAIN fs, Suffix(p.file) # PasswordExt,
         NEW how, how # None, fate' = Fated(p, how)
  PROVE  Gone(p)'
<1>1. StateTypes /\ DistinctNames /\ RemovalInv /\ SidecarNames
  BY DEF StorageState, StorageInv
<1>2. PICK u \in Uploads : u = fs[p].by /\ ContentAt(p, req[u]) /\ fs[p].kind = "content"
  BY <1>1, ContentHere
<1>3. u \in Requests /\ ContentAt(p, req'[u]) /\ u \in Uploads'
  BY <1>1, <1>2, Lasting DEF Uploads
<1>4. fate'[u] # None
  BY <1>1, <1>2, <1>3, FateEffect
<1>. QED
  BY <1>3, <1>4 DEF Gone, ContentAt

(* An upload has a content on its hands that it had before, or has just    *)
(* created.                                                                *)
LEMMA InsertingFrom ==
  ASSUME StateTypes, [Next]_vars, NEW u \in Uploads', Inserting(req'[u])
  PROVE  /\ u \in Uploads /\ u \in Requests
         /\ \/ Inserting(req[u]) /\ ~RemoveNewUpload(u)
            \/ /\ CreateContent(u) /\ Creates(PathOf(req[u]), u, "content")
               /\ IsCreating(req[u])
<1>1. ~Arrived(u)
  BY DEF Arrived, Uploads, IsCreating, Inserting
<1>2. u \in Uploads /\ u \in Requests /\ req[u].op = "upload" /\ SameRequest(req[u], req'[u])
  BY <1>1, UploadsMove DEF Uploads
<1>3. ~Lost(u)
  BY DEF Lost, Inserting
<1>4. CASE req'[u] = req[u]
  <2>1. RemoveNewUpload(u) => req'[u].pc # req[u].pc
    BY <1>2, RemoveNewUploadDoes DEF GoesOn
  <2>. QED
    BY <1>2, <1>4, <2>1
<1>5. ASSUME Step(u)
      PROVE  \/ Inserting(req[u]) /\ ~RemoveNewUpload(u)
             \/ /\ CreateContent(u) /\ Creates(PathOf(req[u]), u, "content")
                /\ IsCreating(req[u])
  <2>1. req'[u].type = req[u].type
    BY <1>2 DEF SameRequest
  <2>2. CASE FindOwnerDuplicate(u)
    BY <1>2, <2>1, <2>2, FindOwnerDuplicateDoes
       DEF GoesOn, Holds, Turns, Inserting, RemoveNewUpload, At, AfterCheck, StoreStep
  <2>3. CASE CheckDuplicate(u)
    BY <1>2, <2>1, <2>3, CheckDuplicateDoes
       DEF GoesOn, Answers, Inserting, RemoveNewUpload, At, AfterCheck, StoreStep
  <2>4. CASE DeleteStale(u)
    BY <1>2, <2>1, <2>4, DeleteStaleDoes
       DEF GoesOn, Turns, Inserting, RemoveNewUpload, At, AfterCheck, StoreStep
  <2>5. CASE GlobMatch(u) \/ StorePassword(u)
    BY <1>2, <2>5, PreparationDoes DEF GoesOn, Turns, Inserting
  <2>6. CASE CreateContent(u)
    BY <1>2, <2>6, CreateContentDoes DEF GoesOn, Turns, Inserting, IsCreating
  <2>7. CASE PersistPasteMetadata(u) \/ CheckWinner(u) \/ DropWinner(u)
    BY <1>2, <2>7, PersistDoes, CheckWinnerDoes, DropWinnerDoes DEF Inserting, RemoveNewUpload, At
  <2>8. CASE RemoveNewUpload(u) \/ DeletePassword(u)
    BY <1>2, <2>8, RemoveNewUploadDoes, DeletePasswordDoes DEF GoesOn, Inserting
  <2>. QED
    BY <1>2, <1>5, <2>2, <2>3, <2>4, <2>5, <2>6, <2>7, <2>8, UploadSteps
<1>. QED
  BY <1>1, <1>2, <1>3, <1>4, <1>5, RequestCases

(* Contents wait for their rows, and stay.                                 *)
LEMMA StoredInPlaceStep ==
  ASSUME StorageState, [Next]_vars
  PROVE  StoredInPlace'
<1>1. /\ StateTypes /\ DistinctNames /\ StoredInPlace /\ FreshFates
      /\ \A u \in Uploads : u \in Uploads' /\ PathOf(req'[u]) = PathOf(req[u]) /\ u \in Requests
  BY Lasting DEF StorageState, StorageInv, Uploads
<1>2. ASSUME NEW u \in Uploads, Taken(u)  PROVE Taken(u)'
  BY <1>1, <1>2, FatesLast DEF Taken
<1>3. ASSUME NEW u \in Uploads', Inserting(req'[u])
      PROVE  InPlace(u)' \/ (Taken(u)' /\ ExpiredOnDisk(PathOf(req'[u]).file, now'))
  <2>1. /\ u \in Uploads /\ u \in Requests
        /\ \/ Inserting(req[u]) /\ ~RemoveNewUpload(u)
           \/ /\ CreateContent(u) /\ Creates(PathOf(req[u]), u, "content")
              /\ IsCreating(req[u])
    BY <1>1, <1>3, InsertingFrom
  <2>2. CASE Inserting(req[u]) /\ ~RemoveNewUpload(u) /\ InPlace(u)
    <3>1. req[u].pc # "done"
      BY <2>2 DEF Inserting
    <3>. QED
      BY <1>1, <2>1, <2>2, <3>1, InPlaceLasts, ExpiredLasts DEF Taken
  <2>3. CASE Taken(u) /\ ExpiredOnDisk(PathOf(req[u]).file, now)
    BY <1>1, <1>2, <2>1, <2>3, ExpiredLasts
  <2>4. CASE CreateContent(u) /\ Creates(PathOf(req[u]), u, "content") /\ IsCreating(req[u])
    <3>1. fate[u] = None
      BY <1>1, <2>1, <2>4 DEF FreshFates
    <3>2. PICK p : p = PathOf(req[u]) /\ Creates(p, u, "content")
      BY <2>4
    <3>3. p \in DOMAIN fs' /\ fs'[p] = [by |-> u, kind |-> "content"] /\ fate' = fate
      BY <3>2, CreateEffect
    <3>. QED
      BY <1>1, <2>1, <3>1, <3>2, <3>3 DEF InPlace
  <2>. QED
    BY <1>1, <2>1, <2>2, <2>3, <2>4 DEF StoredInPlace
<1>4. ASSUME NEW u \in Uploads', SelfStored(u)'  PROVE InPlace(u)' \/ Taken(u)'
  <2>1. /\ u \in Uploads /\ u \in Requests
        /\ \/ SelfStored(u) /\ req'[u] = req[u]
           \/ PersistPasteMetadata(u) /\ Answers(u, u, "done")
    BY <1>4, StoredByInsertion
  <2>2. CASE Taken(u)
    BY <1>2, <2>1, <2>2
  <2>3. CASE SelfStored(u) /\ InPlace(u)
    <3>1. ~RemoveNewUpload(u)
      BY <1>1, <2>1, <2>3, RemoveNewUploadDoes DEF SelfStored, Acknowledged
    <3>. QED
      BY <2>1, <2>3, <3>1, InPlaceLasts DEF Taken
  <2>4. CASE PersistPasteMetadata(u) /\ InPlace(u)
    <3>1. UNCHANGED <<fs, fate>>
      BY <1>1, <2>1, <2>4, PersistDoes
    <3>. QED
      BY <1>1, <2>1, <2>4, <3>1 DEF InPlace
  <2>5. PersistPasteMetadata(u) => InPlace(u) \/ Taken(u)
    BY <1>1, <2>1, PersistDoes DEF StoredInPlace, Inserting
  <2>. QED
    BY <1>1, <2>1, <2>2, <2>3, <2>4, <2>5 DEF StoredInPlace
<1>. QED
  BY <1>3, <1>4 DEF StoredInPlace

(* The rows of pastes are of uploads that are done.                        *)
LEMMA FinishedRowsStep ==
  ASSUME StorageState, [Next]_vars
  PROVE  FinishedRows'
<1>1. /\ StateTypes /\ DistinctNames /\ FinishedRows /\ FaithfulScan /\ QuietStart
      /\ \A u \in Uploads : /\ u \in Requests /\ u \in Uploads' /\ SameRequest(req[u], req'[u])
                            /\ \A p : ContentAt(p, req'[u]) <=> ContentAt(p, req[u])
  BY Lasting, UploadsMove DEF StorageState, StorageInv
<1>2. ASSUME NEW p \in Present(pastes'), Suffix(p.file) # PasswordExt
      PROVE  \E u \in Uploads' :
               req'[u].pc = "done" /\ ContentAt(p, req'[u]) /\ pastes'[p].hash = req'[u].hash
  <2>1. CASE ~Reconcile /\ p \in Present(pastes)
    <3>1. SameRow(pastes[p], pastes'[p])
      BY <1>2, <2>1, RowsLast DEF RowsFollow
    <3>2. PICK u \in Uploads :
            req[u].pc = "done" /\ ContentAt(p, req[u]) /\ pastes[p].hash = req[u].hash
      BY <1>1, <1>2, <2>1 DEF FinishedRows
    <3>3. req'[u] = req[u]
      BY <1>1, <3>2, DoneStays
    <3>. QED
      BY <1>1, <3>1, <3>2, <3>3 DEF SameRow
  <2>2. CASE ~Reconcile /\ p \notin Present(pastes)
    <3>1. PICK r \in Uploads : Answers(r, r, "done") /\ p = PathOf(req[r])
                               /\ pastes'[p].hash = req[r].hash
      BY <1>2, <2>2, RowsLast DEF RowsFollow
    <3>2. ContentAt(p, req[r])
      BY <1>1, <3>1, PathOfUpload
    <3>. QED
      BY <1>1, <3>1, <3>2 DEF Answers, SameRequest
  <2>3. CASE Reconcile
    <3>1. /\ req' = req /\ server = "reconcile"
          /\ \/ p \in Present(pastes) /\ pastes'[p] = pastes[p]
             \/ p \in DOMAIN scan.found /\ pastes'[p].hash = scan.found[p]
      BY <1>1, <1>2, <2>3, ReconcileDoes
    <3>2. PICK u \in Uploads : ContentAt(p, req[u]) /\ pastes'[p].hash = req[u].hash
      BY <1>1, <1>2, <3>1 DEF FaithfulScan, FoundHere, FinishedRows
    <3>3. ~InProgress(u) /\ GoodRequest(req[u]) /\ req[u].op = "upload"
      BY <1>1, <3>1 DEF QuietStart, StateTypes, RequestTypes, Uploads
    <3>4. req[u].pc = "done"
      BY <3>3, OpOfPc DEF InProgress
    <3>. QED
      BY <1>1, <3>1, <3>2, <3>4
  <2>. QED
    BY <2>1, <2>2, <2>3
<1>. QED
  BY <1>2 DEF FinishedRows, ContentAt

(* An acknowledged paste keeps its row.                                    *)
LEMMA OwnRowsStep ==
  ASSUME StorageState, [Next]_vars
  PROVE  OwnRows'
<1>1. /\ StateTypes /\ DistinctNames /\ OwnRows /\ FaithfulScan /\ StoredInPlace /\ NamesDiffer
      /\ \A v \in Uploads : v \in Requests /\ PathOf(req'[v]) = PathOf(req[v])
      /\ \A v \in Uploads : SameRequest(req[v], req'[v])
  BY Lasting, UploadsMove DEF StorageState, StorageInv, RemovalInv, Uploads
<1>2. ASSUME NEW u \in Uploads', SelfStored(u)', fate'[u] = None
      PROVE  /\ PathOf(req'[u]) \in Present(pastes')
             /\ pastes'[PathOf(req'[u])].owner = req'[u].owner
  <2>1. /\ u \in Uploads /\ u \in Requests
        /\ \/ SelfStored(u) /\ req'[u] = req[u]
           \/ PersistPasteMetadata(u) /\ Answers(u, u, "done")
    BY <1>2, StoredByInsertion
  <2>2. PICK p : p = PathOf(req[u])
    OBVIOUS
  <2>3. ContentAt(p, req[u]) /\ p \in Paths /\ fate[u] = None
    BY <1>1, <1>2, <2>1, <2>2, PathOfUpload, FatesLast
  <2>4. ~Gone(p)
    BY <1>1, <2>1, <2>3, ContentAtOnce DEF Gone
  <2>5. CASE PersistPasteMetadata(u) /\ Answers(u, u, "done")
    <3>1. ~Reconcile
      BY <1>1, <2>5, PersistDoes DEF PersistPasteMetadata, At, Reconcile
    <3>. QED
      BY <1>1, <2>1, <2>5, <3>1, RowsLast DEF RowsFollow, SameRequest
  <2>6. CASE SelfStored(u) /\ req'[u] = req[u] /\ ~Reconcile
    <3>1. p \in Present(pastes) /\ pastes[p].owner = req[u].owner
      BY <1>1, <2>1, <2>2, <2>3, <2>6 DEF OwnRows
    <3>2. p \in Present(pastes') /\ SameRow(pastes[p], pastes'[p])
      BY <2>4, <2>6, <3>1, RowsLast DEF RowsFollow
    <3>. QED
      BY <2>2, <2>6, <3>1, <3>2 DEF SameRow
  <2>7. CASE SelfStored(u) /\ req'[u] = req[u] /\ Reconcile
    <3>1. p \in Present(pastes) /\ pastes[p].owner = req[u].owner
      BY <1>1, <2>1, <2>2, <2>3, <2>7 DEF OwnRows
    <3>2. InPlace(u)
      BY <1>1, <2>1, <2>3, <2>7 DEF StoredInPlace, Taken
    <3>3. p \in DOMAIN scan.found
      BY <1>1, <2>2, <2>7, <3>2, ReconcileDoes DEF FaithfulScan, Scanned, InPlace
    <3>4. p \in Present(pastes') /\ pastes'[p].owner = pastes[p].owner
      BY <1>1, <2>3, <2>7, <3>1, <3>3, ReconcileDoes
    <3>. QED
      BY <2>2, <2>7, <3>1, <3>4
  <2>. QED
    BY <2>1, <2>5, <2>6, <2>7
<1>. QED
  BY <1>2 DEF OwnRows

(* The directory of a paste tells its category.                            *)
LEMMA CategoryByDir ==
  ASSUME NEW a \in PasteTypes, NEW b \in PasteTypes, GetDir(a) = GetDir(b)
  PROVE  CategoryOf(a) = CategoryOf(b)
BY DEF PasteTypes, GetDir, CategoryOf

(* An offer stands while the record is kept.                               *)
LEMMA OfferLasts ==
  ASSUME StorageState, [Next]_vars, NEW r \in Uploads, NEW v \in Uploads, OffersFrom(req[r], v),
         req'[r].rec = req[r].rec,
         req'[r].pc \in {"check_winner", "drop_winner"} =>
           req[r].pc \in {"check_winner", "drop_winner"},
         req'[r].pc \in {"delete_stale", "drop_winner"} => fate'[v] # None
  PROVE  v \in Uploads' /\ OffersFrom(req[r], v)'
<1>1. /\ req'[v] = req[v] /\ SelfStored(v)' /\ v \in Uploads'
      /\ SameRequest(req[r], req'[r])
  BY Lasting, UploadsMove DEF StorageState, OffersFrom, Uploads
<1>. QED
  BY <1>1 DEF OffersFrom, SameRequest, PathOf

(* A row that is offered is that of an acknowledged upload.                *)
LEMMA OfferMade ==
  ASSUME StorageState, [Next]_vars, NEW r \in Uploads, NEW p \in Present(pastes),
         pastes[p].owner = req[r].owner, pastes[p].hash = req[r].hash,
         Holds(r, RecordAt(p), req'[r].pc),
         \/ req'[r].pc = "check_duplicate"
         \/ /\ req'[r].pc = "check_winner" /\ Deduplicate /\ MayDeduplicate(NewPasteOf(req[r]))
            /\ pastes[p].dedup = DedupKey(NewPasteOf(req[r]))
  PROVE  \E v \in Uploads' : OffersFrom(req[r], v)'
<1>1. /\ StateTypes /\ OwnedRows /\ GoodRows /\ r \in Requests /\ SameRequest(req[r], req'[r])
      /\ req[r].owner \in Owners /\ req'[r].rec = RecordAt(p)
  BY UploadsMove DEF StorageState, StorageInv, RemovalInv, Uploads, Holds
<1>2. req[r].owner # None
  BY <1>1, NullAssumption
<1>3. PICK v \in Uploads : RowFrom(p, pastes[p], v)
  BY <1>1, <1>2 DEF OwnedRows
<1>4. /\ req'[v] = req[v] /\ SelfStored(v)' /\ v \in Uploads'
  BY <1>1, <1>3, Lasting DEF RowFrom, Uploads
<1>5. /\ RecordAt(p).path = p /\ RecordAt(p).type = pastes[p].type
      /\ p.dir = GetDir(pastes[p].type)
  BY <1>1, RecordType DEF GoodRows, StateTypes
<1>6. ASSUME req'[r].pc = "check_winner"
      PROVE  /\ CategoryOf(req[v].type) = CategoryOf(req[r].type)
             /\ req[r].expiry = None /\ Deduplicate
  <2>1. /\ Deduplicate /\ MayDeduplicate(NewPasteOf(req[r]))
        /\ pastes[p].dedup = DedupKey(NewPasteOf(req[r]))
    BY <1>6
  <2>2. /\ NewPasteOf(req[r]).type = req[r].type /\ NewPasteOf(req[r]).expiry = req[r].expiry
        /\ NewPasteOf(req[r]).hash = req[r].hash /\ NewPasteOf(req[r]) \in NewPastes
    BY <1>1, NewPasteType DEF NewPasteOf
  <2>3. req[r].expiry = None /\ CategoryOf(req[r].type) \in {"file", "url"}
    BY <2>1, <2>2 DEF MayDeduplicate, CategoryOf
  <2>4. DedupKey(NewPasteOf(req[r])) = <<CategoryOf(req[r].type), req[r].hash>>
        /\ req[r].hash \in Hashes
    BY <2>2 DEF DedupKey, NewPastes
  <2>5. pastes[p].dedup # None
    BY <2>1, <2>3, <2>4, NullAssumption DEF DedupKeys
  <2>6. DedupKey(req[v]) = <<CategoryOf(req[r].type), req[r].hash>>
    BY <1>3, <2>1, <2>4, <2>5 DEF RowFrom
  <2>. QED
    BY <2>1, <2>3, <2>6 DEF DedupKey
<1>7. OffersFrom(req[r], v)'
  BY <1>1, <1>3, <1>4, <1>5, <1>6 DEF OffersFrom, RowFrom, SameRequest, PathOf
<1>. QED
  BY <1>4, <1>7

(* Duplicates and winners are acknowledged uploads.                        *)
LEMMA DuplicatesStoredStep ==
  ASSUME StorageState, [Next]_vars
  PROVE  DuplicatesStored'
<1>1. /\ StateTypes /\ DuplicatesStored /\ StoredInPlace
      /\ \A v \in Requests : fate[v] # None => fate'[v] # None
  BY FatesLast DEF StorageState, StorageInv
<1> DEFINE Good(r) == /\ Checked(req'[r])
                      /\ HoldsRecord(req'[r]) => \E v \in Uploads' : OffersFrom(req[r], v)'
<1>2. ASSUME NEW r \in Uploads, RecordKept(r), HoldsRecord(req'[r]) => HoldsRecord(req[r]),
             Checked(req'[r]),
             req'[r].pc \in {"check_winner", "drop_winner"} =>
               req[r].pc \in {"check_winner", "drop_winner"},
             req'[r].pc \in {"delete_stale", "drop_winner"} /\ req'[r].pc # req[r].pc =>
               req[r].rec.path \notin DOMAIN fs
      PROVE  Good(r)
  <2>1. SUFFICES ASSUME HoldsRecord(req'[r])  PROVE \E v \in Uploads' : OffersFrom(req[r], v)'
    BY <1>2
  <2>2. PICK v \in Uploads : OffersFrom(req[r], v)
    BY <1>1, <1>2, <2>1 DEF DuplicatesStored
  <2>3. InPlace(v) \/ Taken(v)
    BY <1>1, <2>2 DEF OffersFrom, StoredInPlace
  <2>4. req[r].rec.path \notin DOMAIN fs => fate[v] # None
    BY <2>2, <2>3 DEF OffersFrom, InPlace, Taken
  <2>5. req'[r].pc \in {"delete_stale", "drop_winner"} => fate'[v] # None
    BY <1>1, <1>2, <2>2, <2>4 DEF OffersFrom, Uploads
  <2>. QED
    BY <1>2, <2>2, <2>5, OfferLasts DEF RecordKept
<1>3. ASSUME NEW r \in Uploads, RecordKept(r),
             req'[r].pc \notin {"find_owner_duplicate", "check_duplicate", "delete_stale",
                                "check_winner", "drop_winner"}
      PROVE  Good(r)
  <2>1. req'[r].op = "upload" /\ r \in Requests /\ GoodRequest(req'[r])
    BY <1>1, RequestsStep, UploadsMove DEF Uploads, SameRequest, RequestTypes
  <2>2. ~HoldsRecord(req'[r])
    BY <1>3, <2>1, OpOfPc DEF HoldsRecord
  <2>. QED
    BY <1>3, <2>2 DEF Checked
<1>4. ASSUME NEW r \in Uploads', Arrived(r)  PROVE Good(r)
  BY <1>4 DEF Arrived, Uploads
<1>5. ASSUME NEW r \in Uploads  PROVE Good(r)
  <2>1. r \in Requests /\ req[r].op = "upload" /\ SameRequest(req[r], req'[r])
    BY <1>1, UploadsMove DEF Uploads
  <2>2. CASE req'[r] = req[r]
    BY <1>1, <1>2, <2>2 DEF RecordKept, DuplicatesStored
  <2>3. CASE Lost(r)
    BY <2>3 DEF Lost, HoldsRecord, Checked
  <2>4. CASE FindOwnerDuplicate(r)
    <3>1. CASE GoesOn(r, AfterCheck(r)) \/ Turns(r, "error", "done")
      BY <1>3, <3>1 DEF GoesOn, Turns, AfterCheck, StoreStep
    <3>2. ASSUME NEW p \in OwnerDuplicates(req[r].owner, req[r].hash),
                 Holds(r, RecordAt(p), "check_duplicate")
          PROVE  Good(r)
      <4>1. /\ p \in Present(pastes) /\ pastes[p].owner = req[r].owner
            /\ pastes[p].hash = req[r].hash
        BY DEF OwnerDuplicates
      <4>2. req'[r].pc = "check_duplicate" /\ Checked(req[r]) /\ req[r].pc = "find_owner_duplicate"
        BY <1>1, <2>1, <2>4, <3>2, FindOwnerDuplicateDoes DEF Holds, DuplicatesStored
      <4>3. \E v \in Uploads' : OffersFrom(req[r], v)'
        BY <3>2, <4>1, <4>2, OfferMade
      <4>. QED
        BY <2>1, <4>2, <4>3 DEF Checked, SameRequest
    <3>. QED
      BY <1>1, <2>1, <2>4, <3>1, <3>2, FindOwnerDuplicateDoes
  <2>5. CASE CheckDuplicate(r)
    <3>1. HoldsRecord(req[r]) /\ req[r].pc = "check_duplicate" /\ Checked(req[r])
      BY <1>1, <2>1, <2>5, CheckDuplicateDoes DEF DuplicatesStored
    <3>2. CASE req[r].rec.path \notin DOMAIN fs /\ GoesOn(r, "delete_stale")
      BY <1>2, <2>1, <3>1, <3>2 DEF GoesOn, Checked, SameRequest
    <3>3. CASE \E u, pc : pc \in {"remove_new_upload", "done"} /\ Answers(r, u, pc)
      BY <1>3, <3>3 DEF Answers
    <3>4. CASE GoesOn(r, AfterCheck(r))
      BY <1>3, <3>4 DEF GoesOn, AfterCheck, StoreStep
    <3>. QED
      BY <1>1, <2>1, <2>5, <3>2, <3>3, <3>4, CheckDuplicateDoes
  <2>6. CASE DeleteStale(r)
    BY <1>1, <1>3, <2>1, <2>6, DeleteStaleDoes DEF GoesOn, Turns, AfterCheck, StoreStep
  <2>7. CASE GlobMatch(r) \/ StorePassword(r)
    BY <1>1, <1>3, <2>1, <2>7, PreparationDoes DEF GoesOn, Turns
  <2>8. CASE CreateContent(r)
    <3>1. CASE GoesOn(r, "find_owner_duplicate") /\ Deduplicate /\ req[r].expiry = None
      BY <2>1, <3>1 DEF GoesOn, Checked, HoldsRecord, SameRequest
    <3>2. CASE \/ GoesOn(r, "insert_paste")
               \/ \E pc \in {"done", "delete_password"} : Turns(r, "conflict", pc)
      BY <1>3, <3>2 DEF GoesOn, Turns
    <3>. QED
      BY <1>1, <2>1, <2>8, <3>1, <3>2, CreateContentDoes
  <2>9. CASE PersistPasteMetadata(r)
    <3>1. ASSUME NEW p \in DedupHolders(pastes, req[r].owner, DedupKey(NewPasteOf(req[r]))),
                 Deduplicate, MayDeduplicate(NewPasteOf(req[r])),
                 Holds(r, RecordAt(p), "check_winner")
          PROVE  Good(r)
      <4>1. /\ p \in Present(pastes) /\ pastes[p].owner = req[r].owner
            /\ pastes[p].dedup = DedupKey(NewPasteOf(req[r]))
        BY DEF DedupHolders
      <4>2. req'[r].pc = "check_winner"
        BY <3>1 DEF Holds
      <4>3. pastes[p].hash = req[r].hash
        <5>1. /\ OwnedRows /\ req[r].owner \in Owners /\ req[r].owner # None
          BY <2>1, UploadsMove, NullAssumption DEF StorageState, StorageInv
        <5>2. PICK v \in Uploads : RowFrom(p, pastes[p], v)
          BY <4>1, <5>1 DEF OwnedRows
        <5>3. NewPasteOf(req[r]) \in NewPastes /\ NewPasteOf(req[r]).hash = req[r].hash
          BY <1>1, NewPasteType DEF NewPasteOf
        <5>4. DedupKey(NewPasteOf(req[r])) \in DedupKeys
          BY <3>1, <5>3 DEF DedupKey, DedupKeys, MayDeduplicate, CategoryOf, NewPastes
        <5>5. pastes[p].dedup # None
          BY <4>1, <5>4, NullAssumption
        <5>6. DedupKey(req[v]) = DedupKey(NewPasteOf(req[r])) /\ pastes[p].hash = req[v].hash
          BY <4>1, <5>2, <5>5 DEF RowFrom
        <5>. QED
          BY <5>3, <5>6 DEF DedupKey
      <4>4. \E v \in Uploads' : OffersFrom(req[r], v)'
        BY <3>1, <4>1, <4>2, <4>3, OfferMade
      <4>. QED
        BY <4>2, <4>4 DEF Checked
    <3>2. CASE \/ \E status, pc : pc \in {"done", "remove_new_upload"} /\ Turns(r, status, pc)
               \/ Answers(r, r, "done")
      BY <1>3, <3>2 DEF Turns, Answers
    <3>. QED
      BY <1>1, <2>1, <2>9, <3>1, <3>2, PersistDoes
  <2>10. CASE CheckWinner(r)
    <3>1. HoldsRecord(req[r]) /\ req[r].pc = "check_winner"
      BY <1>1, <2>1, <2>10, CheckWinnerDoes
    <3>2. CASE req[r].rec.path \notin DOMAIN fs /\ GoesOn(r, "drop_winner")
      BY <1>2, <3>1, <3>2 DEF GoesOn, Checked
    <3>3. CASE \E u : Answers(r, u, "remove_new_upload")
      BY <1>3, <3>3 DEF Answers
    <3>. QED
      BY <1>1, <2>1, <2>10, <3>2, <3>3, CheckWinnerDoes
  <2>11. CASE DropWinner(r)
    BY <1>1, <1>3, <2>1, <2>11, DropWinnerDoes DEF GoesOn, Turns
  <2>12. CASE RemoveNewUpload(r) \/ DeletePassword(r)
    BY <1>1, <1>3, <2>1, <2>12, RemoveNewUploadDoes, DeletePasswordDoes DEF GoesOn
  <2>13. ~Arrived(r)
    BY <2>1 DEF Arrived
  <2> HIDE DEF Good
  <2>. QED
    BY <1>1, <2>1, <2>2, <2>3, <2>4, <2>5, <2>6, <2>7, <2>8, <2>9, <2>10, <2>11, <2>12, <2>13,
       RequestCases, UploadSteps
<1>6. \A r \in Uploads' : Good(r)
  BY <1>1, <1>4, <1>5, UploadsMove
<1>. QED
  BY <1>6 DEF DuplicatesStored

(* A link that is the answer leads to an acknowledged upload.              *)
LEMMA StoredAnswersStep ==
  ASSUME StorageState, [Next]_vars
  PROVE  StoredAnswers'
<1>1. /\ StateTypes /\ DistinctNames /\ StoredAnswers /\ DuplicatesStored
  BY DEF StorageState, StorageInv
<1> DEFINE Good(r) ==
      Answered(req'[r]) =>
        \/ req'[r].pc = "done" /\ req'[r].seen = r
        \/ req'[r].seen \in Uploads' /\ AnswerFrom(req[r], req[r].seen)'
<1>2. ASSUME NEW r \in Uploads, NEW v \in Uploads, AnswerFrom(req[r], v), req'[r].seen = v
      PROVE  Good(r)
  <2>1. /\ req'[v] = req[v] /\ SelfStored(v)' /\ v \in Uploads' /\ SameRequest(req[r], req'[r])
    BY <1>1, <1>2, Lasting, UploadsMove DEF AnswerFrom, Uploads
  <2>2. AnswerFrom(req[r], v)'
    BY <1>2, <2>1 DEF AnswerFrom, SameRequest
  <2>. QED
    BY <1>2, <2>1, <2>2 DEF AnswerFrom
<1>3. ASSUME NEW r \in Uploads, AnswerKept(r),
             Answered(req'[r]) => Answered(req[r]) /\ req[r].pc # "done"
      PROVE  Good(r)
  <2>1. SUFFICES ASSUME Answered(req[r]), req[r].pc # "done"  PROVE Good(r)
    BY <1>3
  <2>2. req[r].seen \in Uploads /\ AnswerFrom(req[r], req[r].seen)
    BY <1>1, <1>3, <2>1 DEF StoredAnswers
  <2>. QED
    BY <1>2, <1>3, <2>2 DEF AnswerKept
<1>4. ASSUME NEW r, ~Answered(req'[r])  PROVE Good(r)
  BY <1>4
<1>5. ASSUME NEW r \in Uploads', Arrived(r)  PROVE Good(r)
  <2>1. req'[r].pc \notin {"remove_new_upload", "delete_password", "done"}
    BY <1>5 DEF Arrived, Uploads, IsCreating
  <2>. QED
    BY <1>4, <2>1 DEF Answered
<1>6. ASSUME NEW r \in Uploads, HoldsRecord(req[r]), req[r].rec.path \in DOMAIN fs, NEW pc,
             Answers(r, fs[req[r].rec.path].by, pc),
             \/ req[r].pc = "check_winner"
             \/ /\ req[r].pc = "check_duplicate"
                /\ IsCompatibleDuplicate(req[r].type, req[r].rec.type)
      PROVE  Good(r)
  <2>1. PICK v \in Uploads : v = fs[req[r].rec.path].by /\ OffersFrom(req[r], v)
    BY <1>6, OfferHere
  <2>2. /\ Checked(req[r]) /\ SelfStored(v) /\ req[v].owner = req[r].owner
        /\ req[v].hash = req[r].hash
    BY <1>1, <2>1 DEF DuplicatesStored, OffersFrom
  <2>3. CASE req[r].pc = "check_winner"
    <3>1. AnswerFrom(req[r], v)
      BY <2>1, <2>2, <2>3 DEF AnswerFrom, OffersFrom
    <3>. QED
      BY <1>2, <1>6, <2>1, <3>1 DEF Answers
  <2>4. CASE /\ req[r].pc = "check_duplicate"
             /\ IsCompatibleDuplicate(req[r].type, req[r].rec.type)
    <3>1. /\ req[v].type \in PasteTypes /\ req[r].rec.type \in PasteTypes
          /\ PathOf(req[v]).dir = GetDir(req[v].type)
      BY <1>1, <1>6, PathOfUpload, RequestPlaces, TypesAssumption
         DEF UploadRecord, ContentAt, Records, Uploads
    <3>2. CategoryOf(req[v].type) = CategoryOf(req[r].rec.type)
      BY <2>1, <3>1, CategoryByDir DEF OffersFrom
    <3>3. CategoryOf(req[v].type) = CategoryOf(req[r].type)
      BY <2>4, <3>2 DEF IsCompatibleDuplicate
    <3>4. AnswerFrom(req[r], v)
      BY <2>2, <2>4, <3>3 DEF AnswerFrom, Checked
    <3>. QED
      BY <1>2, <1>6, <2>1, <3>4 DEF Answers
  <2>. QED
    BY <1>6, <2>3, <2>4
<1>7. ASSUME NEW r \in Uploads  PROVE Good(r)
  <2>1. r \in Requests /\ req[r].op = "upload" /\ ~Arrived(r)
    BY <1>1 DEF Uploads, Arrived
  <2>2. CASE req'[r] = req[r]
    <3>1. CASE req[r].pc = "done" /\ req[r].seen = r
      BY <2>2, <3>1
    <3>2. CASE req[r].seen \in Uploads /\ AnswerFrom(req[r], req[r].seen)
      BY <1>2, <2>2, <3>2
    <3>. QED
      BY <1>1, <2>2, <3>1, <3>2 DEF StoredAnswers
  <2>3. CASE Lost(r)
    BY <1>4, <2>3 DEF Lost, Answered
  <2>4. CASE FindOwnerDuplicate(r)
    <3>1. ~Answered(req'[r])
      BY <1>1, <2>1, <2>4, FindOwnerDuplicateDoes
         DEF GoesOn, Holds, Turns, AfterCheck, StoreStep, Answered
    <3>. QED
      BY <1>4, <3>1
  <2>5. CASE CheckDuplicate(r)
    <3>1. HoldsRecord(req[r]) /\ req[r].pc = "check_duplicate"
      BY <1>1, <2>1, <2>5, CheckDuplicateDoes
    <3>2. CASE GoesOn(r, "delete_stale") \/ GoesOn(r, AfterCheck(r))
      BY <1>4, <3>2 DEF GoesOn, AfterCheck, StoreStep, Answered
    <3>3. CASE ~(GoesOn(r, "delete_stale") \/ GoesOn(r, AfterCheck(r)))
      BY <1>1, <1>6, <2>1, <2>5, <3>1, <3>3, CheckDuplicateDoes
    <3>. QED
      BY <3>2, <3>3
  <2>6. CASE DeleteStale(r)
    BY <1>1, <1>4, <2>1, <2>6, DeleteStaleDoes DEF GoesOn, Turns, AfterCheck, StoreStep, Answered
  <2>7. CASE GlobMatch(r) \/ StorePassword(r)
    BY <1>1, <1>4, <2>1, <2>7, PreparationDoes DEF GoesOn, Turns, Answered
  <2>8. CASE CreateContent(r)
    BY <1>1, <1>4, <2>1, <2>8, CreateContentDoes DEF GoesOn, Turns, Answered
  <2>9. CASE PersistPasteMetadata(r)
    <3>1. Answers(r, r, "done") \/ ~Answered(req'[r])
      BY <1>1, <2>1, <2>9, PersistDoes DEF Holds, Turns, Answered
    <3>. QED
      BY <1>4, <3>1 DEF Answers
  <2>10. CASE CheckWinner(r)
    <3>1. HoldsRecord(req[r]) /\ req[r].pc = "check_winner"
      BY <1>1, <2>1, <2>10, CheckWinnerDoes
    <3>2. CASE GoesOn(r, "drop_winner")
      BY <1>4, <3>2 DEF GoesOn, Answered
    <3>. QED
      BY <1>1, <1>6, <2>1, <2>10, <3>1, <3>2, CheckWinnerDoes
  <2>11. CASE DropWinner(r)
    BY <1>1, <1>4, <2>1, <2>11, DropWinnerDoes DEF GoesOn, Turns, Answered
  <2>12. CASE RemoveNewUpload(r)
    BY <1>1, <1>3, <2>1, <2>12, RemoveNewUploadDoes DEF GoesOn, AnswerKept, Answered
  <2>13. CASE DeletePassword(r)
    BY <1>1, <1>3, <2>1, <2>13, DeletePasswordDoes DEF GoesOn, AnswerKept, Answered
  <2> HIDE DEF Good
  <2>. QED
    BY <1>1, <2>1, <2>2, <2>3, <2>4, <2>5, <2>6, <2>7, <2>8, <2>9, <2>10, <2>11, <2>12, <2>13,
       RequestCases, UploadSteps
<1>8. \A r \in Uploads' : Good(r)
  BY <1>1, <1>5, <1>7, UploadsMove
<1>. QED
  BY <1>8 DEF StoredAnswers

(* Only a crash leads to a start.                                          *)
LEMMA StartsByCrash ==
  ASSUME StorageState, [Next]_vars, ~Reconcile
  PROVE  \/ Crash
         \/ server = "up" /\ server' = "up" /\ UNCHANGED scan
         \/ /\ server # "up" /\ server' # "up"
            /\ ScanPastes \/ UNCHANGED <<req, scan, server>>
<1>1. StateTypes
  BY DEF StorageState
<1>2. ASSUME NEW r \in Requests, Step(r) \/ Arrival(r)
      PROVE  server' = "up" /\ server = "up" /\ UNCHANGED scan
  BY <1>1, <1>2, StepsRun, ArrivalsAreGood
<1>3. CASE ScanPastes
  BY <1>3 DEF ScanPastes, ReadDir, ScanEntry, RetainExisting
<1>4. CASE CleanerStep \/ ConsumeExpired \/ Tick \/ UNCHANGED vars
  BY <1>4 DEF CleanerStep, ConsumeExpired, Tick, vars
<1>. QED
  BY <1>2, <1>3, <1>4 DEF Next

(* The start reconciles with what is there.                                *)
LEMMA FaithfulScanStep ==
  ASSUME StorageState, [Next]_vars
  PROVE  FaithfulScan'
<1>1. /\ StateTypes /\ DistinctNames /\ RemovalInv /\ SidecarNames /\ FaithfulScan /\ DiskEvents
      /\ \A u \in Uploads : u \in Uploads'
  BY EveryDiskEvent, UploadsMove DEF StorageState, StorageInv
<1>2. ASSUME NEW p \in DOMAIN fs, fs[p].kind = "content"
      PROVE  ~IsPasswordSidecar(p) /\ p.dir \in Directories
  BY <1>1, <1>2 DEF IsPasswordSidecar, StateTypes, FileTypes, Locations
<1>3. CASE ScanPastes
  <2>1. /\ server = "scan" /\ UNCHANGED <<fs, req, now>> /\ ScanTypes
        /\ \A u \in Uploads : u \in Uploads'
    BY <1>1, <1>3 DEF ScanPastes, UnchangedDisk, StateTypes, StartTypes
  <2>2. ASSUME NEW p \in DOMAIN scan.found, Suffix(p.file) # PasswordExt,
               p \in DOMAIN scan'.found, scan'.found[p] = scan.found[p]
        PROVE  FoundHere(p)'
    BY <1>1, <2>1, <2>2 DEF FaithfulScan, FoundHere, ContentAt
  <2>3. CASE ReadDir
    <3>1. PICK dir \in scan.dirs :
            scan' = [scan EXCEPT !.dirs = @ \ {dir}, !.todo = {p \in DOMAIN fs : p.dir = dir}]
      BY <2>3 DEF ReadDir
    <3>2. /\ scan'.found = scan.found /\ scan'.dirs = scan.dirs \ {dir}
          /\ scan'.todo = {p \in DOMAIN fs : p.dir = dir} /\ scan.todo = {} /\ server' = server
      BY <2>1, <2>3, <3>1 DEF ReadDir, ScanTypes
    <3>3. ASSUME NEW p \in DOMAIN fs, fs[p].kind = "content"  PROVE Scanned(p)'
      BY <1>1, <2>1, <3>2, <3>3 DEF FaithfulScan, Scanned
    <3>. QED
      BY <2>1, <2>2, <3>2, <3>3 DEF FaithfulScan
  <2>4. ASSUME NEW q \in scan.todo, ScanEntry(q)  PROVE FaithfulScan'
    <3>1. /\ scan'.dirs = scan.dirs /\ scan'.todo = scan.todo \ {q} /\ server' = server
          /\ \/ /\ q \in DOMAIN fs /\ ~IsPasswordSidecar(q)
                /\ scan'.found = [x \in DOMAIN scan.found \cup {q} |->
                                    IF x = q THEN FileHash(q) ELSE scan.found[x]]
             \/ (q \in DOMAIN fs => IsPasswordSidecar(q)) /\ scan'.found = scan.found
      BY <2>1, <2>4 DEF ScanEntry, ScanTypes, IsFile
    <3>2. ASSUME NEW p \in DOMAIN fs, fs[p].kind = "content"  PROVE Scanned(p)'
      <4>1. Scanned(p)
        BY <1>1, <2>1, <3>2 DEF FaithfulScan
      <4>2. p # q => Scanned(p)'
        BY <2>1, <3>1, <4>1 DEF Scanned
      <4>3. p = q => Scanned(p)'
        BY <1>2, <3>1, <3>2 DEF Scanned
      <4>. QED
        BY <4>2, <4>3
    <3>3. ASSUME q \in DOMAIN fs, Suffix(q.file) # PasswordExt, scan'.found[q] = FileHash(q)
          PROVE  FoundHere(q)'
      <4>1. fs[q].by \in Uploads /\ fs[q].kind = "content" /\ ContentAt(q, req[fs[q].by])
        BY <1>1, <3>3, ContentHere
      <4>2. scan'.found[q] = req[fs[q].by].hash
        BY <3>3, <4>1 DEF FileHash
      <4>. QED
        BY <2>1, <3>3, <4>1, <4>2 DEF FoundHere, ContentAt
    <3>4. ASSUME NEW p \in DOMAIN scan'.found, Suffix(p.file) # PasswordExt
          PROVE  FoundHere(p)'
      <4>1. \/ p \in DOMAIN scan.found /\ scan'.found[p] = scan.found[p]
            \/ p = q /\ q \in DOMAIN fs /\ scan'.found[q] = FileHash(q)
        BY <3>1, <3>4
      <4>. QED
        BY <2>2, <3>3, <3>4, <4>1
    <3>. QED
      BY <2>1, <3>2, <3>4 DEF FaithfulScan
  <2>5. CASE RetainExisting
    <3>1. /\ scan'.found = scan.found /\ scan.dirs = {} /\ scan.todo = {}
          /\ server' = "reconcile"
      BY <2>1, <2>5 DEF RetainExisting, ScanTypes
    <3>2. ASSUME NEW p \in DOMAIN fs, fs[p].kind = "content"  PROVE Scanned(p)'
      BY <1>1, <2>1, <3>1, <3>2 DEF FaithfulScan, Scanned
    <3>. QED
      BY <2>1, <2>2, <3>1, <3>2 DEF FaithfulScan
  <2>. QED
    BY <1>3, <2>3, <2>4, <2>5 DEF ScanPastes
<1>4. CASE Crash
  <2>1. server' = "scan" /\ fs' = fs /\ scan' = [NoScan EXCEPT !.dirs = Directories]
    BY <1>4 DEF Crash, UnchangedDisk
  <2>2. scan'.dirs = Directories /\ scan'.found = [p \in {} |-> None]
    BY <2>1 DEF NoScan
  <2>3. DOMAIN scan'.found = {}
    BY <2>2
  <2>4. \A p \in DOMAIN fs' : fs'[p].kind = "content" => Scanned(p)'
    BY <1>2, <2>1, <2>2 DEF Scanned
  <2>. QED
    BY <2>3, <2>4 DEF FaithfulScan
<1>5. CASE /\ server # "up" /\ server' # "up" /\ UNCHANGED <<req, scan, server>>
           /\ \A r \in Requests : ~Step(r)
  <2>1. ASSUME NEW p \in DOMAIN fs, Suffix(p.file) # PasswordExt
        PROVE  p \in DOMAIN fs' \/ ExpiredOnDisk(p.file, now)
    <3>1. fs[p].kind = "content"
      BY <1>1, <2>1, ContentHere
    <3>2. CASE NoContentMoves
      BY <3>1, <3>2 DEF NoContentMoves
    <3>3. ASSUME NEW r \in Uploads, ContentCreated(r)  PROVE FALSE
      BY <1>5, <3>3 DEF ContentCreated, Step, Uploads
    <3>4. ASSUME NEW how, NEW q \in DOMAIN fs, ContentRemoved(q, how)
          PROVE  p \in DOMAIN fs' \/ ExpiredOnDisk(p.file, now)
      <4>1. fs[q].by \in Requests
        BY <1>1, ContentHere
      <4>2. how.how = "cleanup" /\ ExpiredOnDisk(q.file, now)
        BY <1>5, <3>4, <4>1 DEF ContentRemoved, Step
      <4>3. DOMAIN fs' = DOMAIN fs \ {q}
        BY <3>4, RemoveEffect DEF ContentRemoved
      <4>. QED
        BY <4>2, <4>3
    <3>5. ASSUME NEW how, NEW q \in DOMAIN fs, ContentConsumed(q, how)  PROVE FALSE
      BY <1>5, <3>5 DEF ContentConsumed, Step
    <3>. QED
      BY <1>1, <3>2, <3>3, <3>4, <3>5 DEF DiskEvents
  <2>2. ASSUME NEW p \in DOMAIN fs', fs'[p].kind = "content"
        PROVE  p \in DOMAIN fs /\ fs[p].kind = "content"
    <3>2. CASE NoContentMoves
      BY <2>2, <3>2 DEF NoContentMoves
    <3>3. ASSUME NEW r \in Uploads, ContentCreated(r)  PROVE FALSE
      BY <1>5, <3>3 DEF ContentCreated, Step, Uploads
    <3>4. ASSUME NEW how, NEW q \in DOMAIN fs, ContentRemoved(q, how)
          PROVE  p \in DOMAIN fs /\ fs[p].kind = "content"
      BY <2>2, <3>4, RemoveEffect DEF ContentRemoved
    <3>5. ASSUME NEW how, NEW q \in DOMAIN fs, ContentConsumed(q, how)  PROVE FALSE
      BY <1>5, <3>5 DEF ContentConsumed, Step
    <3>. QED
      BY <1>1, <3>2, <3>3, <3>4, <3>5 DEF DiskEvents
  <2>3. ASSUME NEW p \in DOMAIN scan'.found, Suffix(p.file) # PasswordExt
        PROVE  FoundHere(p)'
    <3>1. FoundHere(p) /\ scan'.found = scan.found
      BY <1>1, <1>5, <2>3 DEF FaithfulScan
    <3>2. p \in DOMAIN fs' \/ ExpiredOnDisk(p.file, now)
      BY <2>1, <2>3, <3>1 DEF FoundHere
    <3>3. \E u \in Uploads' : ContentAt(p, req[u]) /\ scan'.found[p] = req'[u].hash
      BY <1>1, <1>5, <3>1 DEF FoundHere
    <3>. QED
      BY <1>1, <1>5, <3>2, <3>3, ExpiredLasts DEF FoundHere, ContentAt
  <2>4. ASSUME NEW p \in DOMAIN fs', fs'[p].kind = "content"  PROVE Scanned(p)'
    BY <1>1, <1>5, <2>2, <2>4 DEF FaithfulScan, Scanned
  <2>. QED
    BY <2>3, <2>4 DEF FaithfulScan
<1>6. CASE server' = "up"
  BY <1>6 DEF FaithfulScan
<1>7. ASSUME NEW r \in Requests, Step(r)  PROVE server' = "up"
  BY <1>1, <1>7, StepsRun
<1>8. Reconcile => server' = "up"
  BY DEF Reconcile
<1>. QED
  BY <1>3, <1>4, <1>5, <1>6, <1>7, <1>8, StartsByCrash

(* Failures of the database are counted.                                   *)
LEMMA FaultsStep ==
  ASSUME StorageState, [Next]_vars
  PROVE  faults' \in {faults, faults + 1} /\ faults' \in Nat
<1>1. StateTypes /\ faults \in Nat
  BY DEF StorageState, StorageInv
<1>2. ASSUME NEW r \in Requests, Step(r)  PROVE faults' \in {faults, faults + 1}
  <2>1. CASE FindOwnerDuplicate(r)
    BY <2>1 DEF FindOwnerDuplicate, DatabaseFails
  <2>2. CASE DeleteStale(r) \/ DropWinner(r) \/ DeleteMetadata(r) \/ DeleteRow(r)
    BY <2>2 DEF DeleteStale, DropWinner, DeleteMetadata, DeleteRow, Write, DatabaseFails
  <2>3. CASE PersistPasteMetadata(r)
    BY <1>1, <2>3, PersistDoes DEF DatabaseFails
  <2>4. CASE \/ CheckDuplicate(r) \/ GlobMatch(r) \/ StorePassword(r) \/ CreateContent(r)
             \/ CheckWinner(r) \/ RemoveNewUpload(r) \/ DeletePassword(r)
             \/ FindPastes(r) \/ IsFileStep(r) \/ HasPassword(r) \/ Open(r)
             \/ Consume(r) \/ RemovePasteFile(r)
    BY <2>4 DEF CheckDuplicate, GlobMatch, StorePassword, CreateContent, CheckWinner,
                RemoveNewUpload, DeletePassword, FindPastes, IsFileStep, HasPassword, Open,
                Consume, RemovePasteFile
  <2>. QED
    BY <1>2, <2>1, <2>2, <2>3, <2>4 DEF Step
<1>3. ASSUME NEW r \in Requests, Arrival(r)  PROVE faults' = faults
  BY <1>1, <1>3, ArrivalsAreGood
<1>4. CASE CleanerStep \/ Crash \/ ScanPastes \/ Reconcile \/ Tick \/ UNCHANGED vars
  <2>1. CleanerStep => faults' = faults
    BY DEF CleanerStep
  <2>2. (Crash => faults' = faults) /\ (ScanPastes => faults' = faults)
    BY DEF Crash, ScanPastes
  <2>3. (Reconcile => faults' = faults) /\ (Tick => faults' = faults)
    BY DEF Reconcile, Tick
  <2>4. UNCHANGED vars => faults' = faults
    BY DEF vars
  <2>. QED
    BY <1>1, <1>4, <2>1, <2>2, <2>3, <2>4
<1>5. CASE ConsumeExpired
  <2> DEFINE table == DeletePasteByPath(pastes, Head(expired))
  <2>1. Write(table) \/ DatabaseFails
    BY <1>5 DEF ConsumeExpired
  <2> HIDE DEF table
  <2>2. Write(table) => faults' = faults
    BY DEF Write
  <2>3. DatabaseFails => faults' = faults + 1
    BY DEF DatabaseFails
  <2>. QED
    BY <1>1, <2>1, <2>2, <2>3
<1>6. faults' \in {faults, faults + 1}
  BY <1>2, <1>3, <1>4, <1>5 DEF Next
<1>. QED
  BY <1>1, <1>6

(* The database fails where failures are allowed.                          *)
LEMMA FailuresCount ==
  ASSUME faults \in Nat, DatabaseFails
  PROVE  MaxFaults # 0 /\ faults' # 0
BY ServerBounds DEF DatabaseFails

(* What an upload with a content on its hands does next.                   *)
LEMMA RestoringStep ==
  ASSUME StorageState, [Next]_vars, NEW u \in Uploads, Restoring(req[u]), RemoteChecked,
         server' = "up"
  PROVE  \/ Restoring(req'[u])
         \/ PersistPasteMetadata(u) /\ Answers(u, u, "done")
         \/ RemoveNewUpload(u) /\ PathOf(req[u]) \notin DOMAIN fs'
<1>1. /\ StateTypes /\ DuplicatesStored /\ faults \in Nat /\ u \in Requests /\ req[u].op = "upload"
      /\ SameRequest(req[u], req'[u]) /\ Checked(req[u]) /\ req[u].type \in Types
  BY UploadsMove DEF StorageState, StorageInv, Uploads, DuplicatesStored, UploadRecord
<1>2. req'[u].type = req[u].type
  BY <1>1 DEF SameRequest
<1>3. ASSUME DatabaseFails
      PROVE  req[u].pc \notin {"find_owner_duplicate", "check_duplicate", "delete_stale"}
  BY <1>1, <1>3, FailuresCount DEF Restoring, Inserting, RemoteChecked, Checked
<1>4. CASE req'[u] = req[u]
  BY <1>4
<1>5. CASE Lost(u)
  BY <1>5 DEF Lost, Crash
<1>6. CASE FindOwnerDuplicate(u)
  BY <1>1, <1>2, <1>3, <1>6, FindOwnerDuplicateDoes
     DEF GoesOn, Holds, AfterCheck, Restoring, Inserting
<1>7. CASE CheckDuplicate(u)
  BY <1>1, <1>2, <1>7, CheckDuplicateDoes
     DEF GoesOn, Answers, AfterCheck, Restoring, Inserting
<1>8. CASE DeleteStale(u)
  BY <1>1, <1>2, <1>3, <1>8, DeleteStaleDoes
     DEF GoesOn, AfterCheck, Restoring, Inserting
<1>9. CASE GlobMatch(u) \/ StorePassword(u) \/ CreateContent(u)
  BY <1>1, <1>9, PreparationDoes, CreateContentDoes DEF Restoring, Inserting
<1>10. CASE PersistPasteMetadata(u)
  BY <1>1, <1>10, PersistDoes DEF Turns, Holds, Restoring, Inserting
<1>11. CASE CheckWinner(u)
  BY <1>1, <1>11, CheckWinnerDoes DEF Answers, GoesOn, Restoring, Inserting
<1>12. CASE DropWinner(u)
  BY <1>1, <1>12, DropWinnerDoes DEF Turns, GoesOn, Restoring, Inserting
<1>13. CASE RemoveNewUpload(u)
  <2>1. \/ PathOf(req[u]) \notin DOMAIN fs /\ UNCHANGED <<fs, fate>>
        \/ Removes(PathOf(req[u]), [how |-> "rollback", by |-> u])
    BY <1>1, <1>13, RemoveNewUploadDoes
  <2>2. ASSUME NEW p, NEW how, Removes(p, how)  PROVE p \notin DOMAIN fs'
    BY <2>2, RemoveEffect
  <2>. QED
    BY <1>13, <2>1, <2>2
<1>14. CASE DeletePassword(u)
  BY <1>1, <1>14, DeletePasswordDoes DEF Restoring, Inserting
<1>15. ~Arrived(u)
  BY <1>1 DEF Arrived
<1>. QED
  BY <1>1, <1>4, <1>5, <1>6, <1>7, <1>8, <1>9, <1>10, <1>11, <1>12, <1>13, <1>14, <1>15,
     RequestCases, UploadSteps

(* Contents have their rows, or are about to get them or to go.            *)
LEMMA FilesFiledStep ==
  ASSUME StorageState, [Next]_vars
  PROVE  FilesFiled'
<1>1. /\ StateTypes /\ DistinctNames /\ RemovalInv /\ SidecarNames /\ NamesDiffer /\ GoodFiles
      /\ FaithfulScan /\ FilesFiled /\ DiskEvents
      /\ \A u \in Uploads : u \in Requests /\ SameRequest(req[u], req'[u]) /\ u \in Uploads'
  BY EveryDiskEvent, UploadsMove DEF StorageState, StorageInv, RemovalInv
<1>2. ASSUME RemoteChecked, server' = "up", NEW p \in DOMAIN fs', fs'[p].kind = "content",
             fate'[fs'[p].by] = None
      PROVE  p \in Present(pastes') \/ Restoring(req'[fs'[p].by])
  <2>1. ASSUME p \in DOMAIN fs, fs'[p] = fs[p], ~Reconcile
        PROVE  p \in Present(pastes') \/ Restoring(req'[fs'[p].by])
    <3>1. PICK u : /\ u = fs[p].by /\ u = fs'[p].by /\ u \in Uploads /\ u \in Requests
                   /\ fs[p].kind = "content" /\ ContentAt(p, req[u])
      BY <1>1, <1>2, <2>1, ContentHere
    <3>2. fate[u] = None
      BY <1>1, <1>2, <3>1, FatesLast
    <3>3. server = "up"
      BY <1>2, <2>1, StartsByCrash DEF Crash
    <3>4. CASE p \in Present(pastes)
      <4>1. ~Gone(p)
        BY <1>1, <3>1, <3>2, ContentAtOnce DEF Gone
      <4>. QED
        BY <2>1, <3>4, <4>1, RowsLast DEF RowsFollow
    <3>5. CASE Restoring(req[u])
      <4>1. p = PathOf(req[u])
        BY <1>1, <3>1, <3>2, <2>1 DEF GoodFiles, GoodContent
      <4>2. PersistPasteMetadata(u) /\ Answers(u, u, "done") => p \in Present(pastes')
        BY <2>1, <3>1, <4>1, RowsLast DEF RowsFollow
      <4>. QED
        BY <1>2, <3>1, <3>5, <4>1, <4>2, RestoringStep
    <3>. QED
      BY <1>1, <1>2, <2>1, <3>1, <3>2, <3>3, <3>4, <3>5 DEF FilesFiled
  <2>2. CASE Reconcile
    <3>1. /\ UNCHANGED <<fs, fate>> /\ server = "reconcile"
          /\ DOMAIN scan.found \cap Paths \subseteq Present(pastes')
      BY <1>1, <2>2, ReconcileDoes
    <3>2. p \in DOMAIN scan.found
      BY <1>1, <1>2, <3>1 DEF FaithfulScan, Scanned
    <3>3. PICK u : u = fs[p].by /\ u \in Uploads /\ fate[u] = None /\ p \in DOMAIN fs
                   /\ fs[p].kind = "content"
      BY <1>1, <1>2, <3>1, ContentHere
    <3>4. p = PathOf(req[u])
      BY <1>1, <3>3 DEF GoodFiles, GoodContent
    <3>5. p \in Paths
      BY <1>1, <3>3, <3>4, PathOfUpload
    <3>. QED
      BY <3>1, <3>2, <3>5
  <2>3. CASE NoContentMoves
    BY <1>2, <2>1, <2>2, <2>3 DEF NoContentMoves
  <2>4. ASSUME NEW r \in Uploads, ContentCreated(r)
        PROVE  p \in Present(pastes') \/ Restoring(req'[fs'[p].by])
    <3>1. /\ CreateContent(r) /\ Creates(PathOf(req[r]), r, "content") /\ r \in Requests
          /\ req'[r].type = req[r].type
      BY <1>1, <2>4 DEF ContentCreated, SameRequest
    <3>2. PICK q : q = PathOf(req[r]) /\ Creates(q, r, "content")
      BY <3>1
    <3>3. /\ DOMAIN fs' = DOMAIN fs \cup {q} /\ fs'[q] = [by |-> r, kind |-> "content"]
          /\ q \notin DOMAIN fs
      BY <3>2, CreateEffect
    <3>4. \A x \in DOMAIN fs : fs'[x] = fs[x]
      BY <3>2, CreateEffect
    <3>5. Restoring(req'[r])
      BY <1>1, <3>1, <3>2, <3>3, CreateContentDoes DEF Restoring, Inserting, GoesOn
    <3>. QED
      BY <1>2, <2>1, <2>2, <3>3, <3>4, <3>5
  <2>5. ASSUME NEW how, NEW q \in DOMAIN fs, ContentRemoved(q, how)
        PROVE  p \in DOMAIN fs /\ fs'[p] = fs[p]
    BY <1>2, <2>5, RemoveEffect DEF ContentRemoved
  <2>6. ASSUME NEW how, how # None, NEW q \in DOMAIN fs, ContentConsumed(q, how)
        PROVE  p \in DOMAIN fs /\ fs'[p] = fs[p]
    <3>1. PICK c : Renames(q, c, how) /\ fs[q].kind = "content"
      BY <2>6 DEF ContentConsumed
    <3>2. fs'[c] = fs[q] /\ fate' = Fated(q, how) /\ DOMAIN fs' = (DOMAIN fs \ {q}) \cup {c}
      BY <3>1, RenameEffect
    <3>3. \A x \in DOMAIN fs' : x # c => fs'[x] = fs[x]
      BY <3>1, RenameEffect
    <3>4. fate'[fs[q].by] # None
      BY <1>1, <2>6, <3>1, <3>2, FateEffect
    <3>. QED
      BY <1>2, <3>2, <3>3, <3>4
  <2>. QED
    BY <1>1, <2>1, <2>2, <2>3, <2>4, <2>5, <2>6 DEF DiskEvents
<1>. QED
  BY <1>2 DEF FilesFiled

(* What a query has returned is about a paste that was stored, and stays   *)
(* so: no other row comes to its path.                                     *)
LEMMA GoodLookupLasts ==
  ASSUME StorageState, [Next]_vars, ~Reconcile, NEW x \in Records, GoodLookup(x)
  PROVE  GoodLookup(x)'
<1> DEFINE p == x.path
<1>1. /\ StateTypes /\ DistinctNames /\ NamesDiffer /\ p \in Paths /\ Finished(p) /\ Finished(p)'
      /\ RowsFollow
  BY Lasting, RowsLast DEF StorageState, StorageInv, RemovalInv, Records, GoodLookup
<1>2. ASSUME p \in Present(pastes')  PROVE pastes'[p].gen = x.gen
  <2>1. CASE p \in Present(pastes)
    <3>1. SameRow(pastes[p], pastes'[p])
      BY <1>1, <1>2, <2>1 DEF RowsFollow
    <3>. QED
      BY <2>1, <3>1 DEF GoodLookup, Present, SameRow
  <2>2. ASSUME p \notin Present(pastes)  PROVE FALSE
    <3>1. PICK r \in Uploads : p = PathOf(req[r]) /\ PersistPasteMetadata(r)
      BY <1>1, <1>2, <2>2 DEF RowsFollow
    <3>2. PICK u \in Uploads : req[u].pc = "done" /\ ContentAt(p, req[u])
      BY <1>1 DEF Finished
    <3>3. u = r
      BY <1>1, <3>1, <3>2, PathOfUpload, ContentAtOnce
    <3>. QED
      BY <3>1, <3>2, <3>3 DEF PersistPasteMetadata, At
  <2>. QED
    BY <2>1, <2>2
<1>3. pastes'[p] # NoRow => pastes'[p].gen = x.gen
  BY <1>1, <1>2 DEF Present
<1>. QED
  BY <1>1, <1>3 DEF GoodLookup

(* A row found by its public name is that of a stored paste.               *)
LEMMA FoundRowsFinished ==
  ASSUME StorageState, NEW name \in UploadNames,
         NEW p \in RowsByPublicName(pastes, name, Seconds(now))
  PROVE  RecordAt(p) \in Records /\ GoodLookup(RecordAt(p))
<1>1. /\ StateTypes /\ GoodRows /\ PlainNames /\ FinishedRows /\ p \in Present(pastes)
  BY DEF StorageState, StorageInv, RemovalInv, DistinctNames, RowsByPublicName
<1>2. /\ RecordAt(p) \in Records /\ RecordAt(p).path = p /\ RecordAt(p).gen = pastes[p].gen
      /\ GoodRecord(RecordAt(p), name)
  BY <1>1, RecordType, RowsFoundAreGood DEF RecordAt, StateTypes
<1>3. Suffix(p.file) # PasswordExt
  BY <1>1, <1>2, ContentNames DEF GoodRecord
<1>4. Finished(p)
  BY <1>1, <1>3 DEF FinishedRows, Finished
<1>. QED
  BY <1>2, <1>4 DEF GoodLookup

(* Downloads and deletions go on with pastes that were stored.             *)
LEMMA LookupsFinishedStep ==
  ASSUME StorageState, [Next]_vars
  PROVE  LookupsFinished'
<1>1. /\ StateTypes /\ DistinctNames /\ LookupsFinished /\ QuietStart /\ RemovalInv
      /\ SidecarNames /\ PlainNames /\ GoodRecords
  BY DEF StorageState, StorageInv, RemovalInv, DistinctNames
<1> DEFINE Good(r) ==
      /\ \A x \in RecordsOf(req'[r]) : GoodLookup(x)'
      /\ req'[r].pc \in {"delete_metadata", "delete_password", "delete_paste"} =>
           Gone(req[r].rec.path)'
<1>2. ASSUME NEW r \in Requests, req[r].op \in {"serve", "delete"}, InProgress(r), ~Reconcile
      PROVE  /\ \A x \in RecordsOf(req[r]) : GoodLookup(x)' /\ x \in Records
             /\ HoldsRecord(req[r]) => req[r].rec \in RecordsOf(req[r])
             /\ req[r].pc \in {"delete_metadata", "delete_password", "delete_paste"} =>
                  HoldsRecord(req[r]) /\ \A p : p = req[r].rec.path => Gone(p)'
  <2>1. GoodRequest(req[r])
    BY <1>1 DEF StateTypes, RequestTypes
  <2>2. RecordsOf(req[r]) \subseteq Records
    BY <2>1 DEF GoodRequest, RequestRecords, RecordsOf
  <2>3. \A x \in RecordsOf(req[r]) : GoodLookup(x)
    BY <1>1, <1>2 DEF LookupsFinished
  <2>4. req[r].pc = "delete_password" => req[r].op = "delete"
    BY <1>2, <2>1, OpOfPc DEF GoodRequest, PcsOf
  <2>5. req[r].pc \in {"delete_metadata", "delete_password", "delete_paste"} =>
          HoldsRecord(req[r]) /\ Gone(req[r].rec.path)
    BY <1>1, <1>2, <2>4 DEF LookupsFinished, HoldsRecord
  <2>6. \A p : Gone(p) => Gone(p)'
    BY <1>1, Lasting
  <2>. QED
    BY <1>2, <2>2, <2>3, <2>5, <2>6, GoodLookupLasts DEF RecordsOf
<1>3. ASSUME NEW r \in Requests, req[r].op \in {"serve", "delete"}, InProgress(r), ~Reconcile,
             RecordKept(r), HoldsRecord(req'[r]) => HoldsRecord(req[r]),
             req'[r].pc \in {"delete_metadata", "delete_password", "delete_paste"} =>
               \/ req[r].pc \in {"delete_metadata", "delete_password", "delete_paste"}
               \/ \A p : p = req[r].rec.path => Gone(p)'
      PROVE  Good(r)
  <2>1. RecordsOf(req'[r]) \subseteq RecordsOf(req[r]) /\ req'[r].rec = req[r].rec
    BY <1>3 DEF RecordKept, RecordsOf
  <2>2. req'[r].pc \in {"delete_metadata", "delete_password", "delete_paste"} =>
          Gone(req[r].rec.path)'
    <3>1. PICK p : p = req[r].rec.path
      OBVIOUS
    <3>2. p = req'[r].rec.path
      BY <2>1, <3>1
    <3>3. req'[r].pc \in {"delete_metadata", "delete_password", "delete_paste"} => Gone(p)'
      BY <1>2, <1>3, <3>1
    <3>. QED
      BY <3>2, <3>3 DEF Gone
  <2>. QED
    BY <1>2, <1>3, <2>1, <2>2
<1>4. ASSUME NEW r \in Requests, req[r].op \in {"serve", "delete"}, Step(r), InProgress(r)',
             ~Reconcile
      PROVE  Good(r)
  <2>1. InProgress(r) /\ req'[r].pc # "done"
    BY <1>1, <1>4, StepsRun DEF InProgress
  <2>2. CASE FindPastes(r)
    <3>1. /\ req'[r].pc = "is_file" /\ req[r].name \in UploadNames
          /\ req'[r].rows =
               {RecordAt(p) : p \in RowsByPublicName(pastes, req[r].name, Seconds(now))}
      BY <1>1, <2>2, FindPastesDoes
    <3>2. \A x \in RecordsOf(req'[r]) : x \in Records /\ GoodLookup(x)
      BY <3>1, FoundRowsFinished DEF RecordsOf, HoldsRecord
    <3>3. \A x \in RecordsOf(req'[r]) : GoodLookup(x)'
      BY <1>4, <3>2, GoodLookupLasts
    <3>. QED
      BY <3>1, <3>3
  <2>3. CASE IsFileStep(r)
    <3>1. PICK x \in req[r].rows, pc \in {"remove_file", "has_password"} :
            Holds(r, x, pc) /\ req'[r].rows = {}
      BY <1>1, <2>1, <2>3, IsFileStepDoes DEF Turns
    <3>2. RecordsOf(req'[r]) \subseteq {x} /\ x \in RecordsOf(req[r])
      BY <3>1 DEF Holds, RecordsOf
    <3>3. GoodLookup(x)'
      BY <1>2, <1>4, <2>1, <3>2
    <3>4. req'[r].pc = pc
      BY <3>1 DEF Holds
    <3>. QED
      BY <3>1, <3>2, <3>3, <3>4
  <2>4. CASE HasPassword(r)
    BY <1>1, <1>3, <1>4, <2>1, <2>4, HasPasswordDoes DEF GoesOn, Turns, HoldsRecord
  <2>5. CASE Open(r)
    BY <1>1, <1>3, <1>4, <2>1, <2>5, OpenDoes DEF Sees, Answers, Turns, HoldsRecord
  <2>6. CASE DeleteMetadata(r) \/ DeleteRow(r)
    BY <1>1, <2>1, <2>6, DeleteMetadataDoes, DeleteRowDoes DEF Turns
  <2>7. CASE DeletePassword(r)
    <3>1. HoldsRecord(req[r]) /\ GoesOn(r, "delete_paste") /\ req[r].pc = "delete_password"
      BY <1>1, <1>4, <2>7, DeletePasswordDoes
    <3>. QED
      BY <1>3, <1>4, <2>1, <3>1 DEF GoesOn
  <2>8. ASSUME Consume(r) \/ RemovePasteFile(r)
        PROVE  Good(r)
    <3>1. HoldsRecord(req[r])
      BY <1>1, <2>8, ConsumeDoes, RemovePasteFileDoes
    <3>2. Suffix(req[r].rec.path.file) # PasswordExt
      BY <1>1, <1>4, <3>1, RecordInUse, ContentNames DEF GoodRecord
    <3>3. PICK p : p = req[r].rec.path
      OBVIOUS
    <3>4. PICK how : /\ how # None
                     /\ (\E q : Renames(p, q, how)) \/ Removes(p, how)
      <4>1. [how |-> "consumed", by |-> r] # None /\ [how |-> "delete", by |-> r] # None
        BY FateAssumption DEF Requests
      <4>2. CASE Consume(r)
        BY <1>1, <2>1, <3>3, <4>1, <4>2, ConsumeDoes DEF Turns
      <4>3. CASE RemovePasteFile(r)
        BY <1>1, <2>1, <3>3, <4>1, <4>3, RemovePasteFileDoes DEF Turns
      <4>. QED
        BY <2>8, <4>2, <4>3
    <3>5. p \in DOMAIN fs /\ fate' = Fated(p, how)
      BY <3>4, RemoveEffect, RenameEffect
    <3>6. Gone(p)'
      BY <3>2, <3>3, <3>4, <3>5, TakenAway
    <3>7. RecordKept(r)
      BY <1>1, <2>1, <2>8, ConsumeDoes, RemovePasteFileDoes DEF Turns, GoesOn
    <3>. QED
      BY <1>3, <1>4, <2>1, <3>1, <3>3, <3>6, <3>7
  <2>. QED
    BY <1>1, <1>4, <2>2, <2>3, <2>4, <2>5, <2>6, <2>7, <2>8, UploadSteps
<1>5. ASSUME NEW r \in Requests, req'[r].op \in {"serve", "delete"}, InProgress(r)'
      PROVE  Good(r)
  <2>1. CASE req'[r] = req[r]
    <3>1. InProgress(r) /\ req[r].op \in {"serve", "delete"} /\ RecordKept(r)
      BY <1>5, <2>1 DEF InProgress, RecordKept
    <3>2. ~Reconcile
      BY <1>1, <3>1 DEF QuietStart, Reconcile
    <3>. QED
      BY <1>3, <2>1, <3>1, <3>2
  <2>2. CASE Step(r)
    <3>1. SameRequest(req[r], req'[r]) /\ server = "up"
      BY <1>1, <2>2, StepsRun, StepsHandle DEF Handled, Moved
    <3>. QED
      BY <1>4, <1>5, <2>2, <3>1 DEF SameRequest, Reconcile
  <2>3. CASE Arrived(r)
    <3>1. RecordsOf(req'[r]) = {} /\ GoodRequest(req'[r]) /\ ~HoldsRecord(req'[r])
      BY <2>3 DEF Arrived, RecordsOf
    <3>2. req'[r].pc \notin {"delete_metadata", "delete_password", "delete_paste"}
      BY <1>5, <3>1 DEF HoldsRecord, GoodRequest, PcsOf
    <3>. QED
      BY <3>1, <3>2
  <2>4. CASE Lost(r)
    BY <1>5, <2>4 DEF Lost, InProgress
  <2>. QED
    BY <1>1, <2>1, <2>2, <2>3, <2>4, RequestCases
<1> HIDE DEF Good
<1>6. \A r \in Requests : req'[r].op \in {"serve", "delete"} /\ InProgress(r)' => Good(r)
  BY <1>5
<1>. QED
  BY <1>6 DEF LookupsFinished, Good

(* Who takes the file of a paste away.                                     *)
LEMMA FileGoes ==
  ASSUME StorageState, [Next]_vars, NEW p \in DOMAIN fs, Suffix(p.file) # PasswordExt,
         p \notin DOMAIN fs'
  PROVE  \/ \E r \in Uploads : RemoveNewUpload(r) /\ p = PathOf(req[r])
         \/ \E r \in Requests : (RemovePasteFile(r) \/ Consume(r)) /\ p = req[r].rec.path
         \/ ExpiredOnDisk(p.file, now)
<1>1. /\ StateTypes /\ DistinctNames /\ RemovalInv /\ SidecarNames /\ DiskEvents
  BY EveryDiskEvent DEF StorageState, StorageInv
<1>2. fs[p].kind = "content"
  BY <1>1, ContentHere
<1>3. ~NoContentMoves
  BY <1>2 DEF NoContentMoves
<1>4. ASSUME NEW r \in Uploads, ContentCreated(r)  PROVE FALSE
  BY <1>4, CreateEffect DEF ContentCreated
<1>5. ASSUME NEW how, NEW q \in DOMAIN fs, ContentRemoved(q, how)
      PROVE  \/ \E r \in Uploads : RemoveNewUpload(r) /\ p = PathOf(req[r])
             \/ \E r \in Requests : RemovePasteFile(r) /\ p = req[r].rec.path
             \/ ExpiredOnDisk(p.file, now)
  <2>1. q = p
    BY <1>5, RemoveEffect DEF ContentRemoved
  <2>2. fs[p].by \in Uploads
    BY <1>1, ContentHere
  <2>. QED
    BY <1>5, <2>1, <2>2 DEF ContentRemoved
<1>6. ASSUME NEW how, NEW q \in DOMAIN fs, ContentConsumed(q, how)
      PROVE  \E r \in Requests : Consume(r) /\ p = req[r].rec.path
  <2>1. PICK c : Renames(q, c, how)
    BY <1>6 DEF ContentConsumed
  <2>2. DOMAIN fs' = (DOMAIN fs \ {q}) \cup {c}
    BY <2>1, RenameEffect
  <2>3. q = p
    BY <2>2
  <2>. QED
    BY <1>6, <2>3 DEF ContentConsumed
<1>. QED
  BY <1>1, <1>3, <1>4, <1>5, <1>6 DEF DiskEvents

(* Whoever takes the file away goes on to delete the row.                  *)
LEMMA DroppingBegins ==
  ASSUME StorageState, [Next]_vars, NEW r \in Requests, RemovePasteFile(r) \/ Consume(r),
         NEW p \in DOMAIN fs, p \notin DOMAIN fs', p = req[r].rec.path,
         p \in Present(pastes), p \in Present(pastes'), SameRow(pastes[p], pastes'[p])
  PROVE  Dropping(r, p)'
<1>1. StateTypes /\ LookupsFinished
  BY DEF StorageState, StorageInv
<1>2. CASE Consume(r)
  <2>1. GoesOn(r, "delete_metadata") /\ HoldsRecord(req[r])
    BY <1>1, <1>2, ConsumeDoes
  <2>. QED
    BY <2>1 DEF GoesOn, RecordKept, Dropping, HoldsRecord
<1>3. CASE RemovePasteFile(r)
  <2>1. /\ GoesOn(r, "delete_password") /\ HoldsRecord(req[r]) /\ req[r].op = "delete"
        /\ req[r].pc = "remove_file"
    BY <1>1, <1>3, RemovePasteFileDoes
  <2>2. GoodLookup(req[r].rec)
    BY <1>1, <2>1, LookupInUse DEF InProgress
  <2>3. req[r].rec.gen = pastes'[p].gen
    BY <2>2 DEF GoodLookup, Present, SameRow
  <2>. QED
    BY <2>1, <2>3 DEF GoesOn, Moved, SameRequest, RecordKept, Dropping, HoldsRecord
<1>. QED
  BY <1>2, <1>3

(* It does, unless the database fails.                                     *)
LEMMA DroppingLasts ==
  ASSUME StorageState, [Next]_vars, NEW r \in Requests, NEW p, Dropping(r, p),
         server' = "up", ~DatabaseFails,
         p \in Present(pastes), p \in Present(pastes'), SameRow(pastes[p], pastes'[p])
  PROVE  Dropping(r, p)'
<1>1. StateTypes /\ GoodRequest(req[r]) /\ pastes \in Tables
  BY DEF StorageState, StateTypes, RequestTypes
<1>2. req[r].pc \in {"delete_metadata", "delete_password", "delete_paste"} /\ p = req[r].rec.path
      /\ req[r].op \in {"serve", "delete"}
  BY <1>1, OpOfPc DEF Dropping
<1>3. CASE req'[r] = req[r]
  BY <1>3 DEF Dropping, SameRow
<1>4. ASSUME Step(r)  PROVE Dropping(r, p)'
  <2>1. DeleteMetadata(r) \/ DeletePassword(r) \/ DeleteRow(r)
    BY <1>1, <1>2, <1>4, UploadSteps
       DEF FindPastes, IsFileStep, HasPassword, Open, Consume, RemovePasteFile, At
  <2>2. ASSUME DeleteMetadata(r)  PROVE FALSE
    <3>1. pastes' = DeletePasteByPath(pastes, p)
      BY <1>1, <1>2, <2>2, DeleteMetadataDoes
    <3>. QED
      BY <1>1, <3>1 DEF DeletePasteByPath, Present, Tables
  <2>3. ASSUME DeleteRow(r)  PROVE FALSE
    <3>1. pastes' = DeletePaste(pastes, p, req[r].rec.gen) /\ req[r].pc = "delete_paste"
      BY <1>1, <1>2, <2>3, DeleteRowDoes
    <3>2. req[r].rec.gen = pastes[p].gen
      BY <3>1 DEF Dropping
    <3>. QED
      BY <1>1, <3>1, <3>2 DEF DeletePaste, Present, Tables
  <2>4. CASE DeletePassword(r)
    <3>1. req[r].op = "delete" /\ req[r].pc = "delete_password" /\ GoesOn(r, "delete_paste")
      BY <1>1, <1>2, <2>4, OpOfPc, DeletePasswordDoes DEF GoodRequest, PcsOf
    <3>. QED
      BY <3>1 DEF GoesOn, Moved, SameRequest, RecordKept, Dropping, HoldsRecord, SameRow
  <2>. QED
    BY <2>1, <2>2, <2>3, <2>4
<1>5. ~Arrived(r) /\ ~Lost(r)
  BY <1>2 DEF Arrived, Lost, Crash
<1>. QED
  BY <1>1, <1>3, <1>4, <1>5, RequestCases

(* What drops a row is in progress.                                        *)
LEMMA DroppingRuns ==
  ASSUME StorageState, NEW r \in Requests, NEW p, Dropping(r, p)
  PROVE  InProgress(r) /\ req[r].op \in {"serve", "delete"} /\ req[r].rec \in Records
<1>1. StateTypes /\ GoodRequest(req[r])
  BY DEF StorageState, StateTypes, RequestTypes
<1>. QED
  BY <1>1, OpOfPc DEF Dropping, InProgress, GoodRequest

(* In a crash it is lost.                                                  *)
LEMMA DroppingLost ==
  ASSUME StorageState, NEW r \in Requests, NEW p, Dropping(r, p), Crash
  PROVE  Retained(p)'
<1>1. InProgress(r) /\ req[r].op \in {"serve", "delete"} /\ req[r].rec \in Records
  BY DroppingRuns
<1>2. /\ server' = "scan" /\ req[r] \in RequestRecords
      /\ req'[r] = [req[r] EXCEPT !.pc = "done", !.status = "lost"]
  BY <1>1 DEF Crash, StorageState, StateTypes, RequestTypes
<1>3. req[r].rec # None /\ req[r].rec.path = p
  BY <1>1, RecordAssumption DEF Records, Dropping
<1>4. /\ req'[r].pc = "done" /\ req'[r].status = "lost" /\ req'[r].op = req[r].op
      /\ req'[r].rec = req[r].rec
  BY <1>2 DEF RequestRecords
<1>5. LostAt(p)'
  BY <1>1, <1>3, <1>4 DEF LostAt
<1>. QED
  BY <1>2, <1>5 DEF Retained

(* A row that waits for its start waits on, until it is deleted.           *)
LEMMA RetainedLasts ==
  ASSUME StorageState, [Next]_vars, ~Reconcile, NEW p, Retained(p)
  PROVE  Retained(p)'
<1>1. LostAt(p)'
  <2>1. PICK r \in Requests :
          /\ req[r].pc = "done" /\ req[r].status = "lost" /\ req[r].op \in {"serve", "delete"}
          /\ req[r].rec # None /\ req[r].rec.path = p
    BY DEF Retained, LostAt
  <2>2. req'[r] = req[r]
    BY <2>1, DoneStays DEF StorageState
  <2>. QED
    BY <2>1, <2>2 DEF LostAt
<1>2. Crash => server' = "scan"
  BY DEF Crash
<1>. QED
  BY <1>1, <1>2, StartsByCrash DEF Retained

(* Rows have their files, or are about to go, or wait for a start.         *)
LEMMA RowsFiledStep ==
  ASSUME StorageState, [Next]_vars
  PROVE  RowsFiled'
<1>1. /\ StateTypes /\ DistinctNames /\ FinishedRows /\ FaithfulScan /\ RowsFiled
      /\ StoredInPlace /\ NamesDiffer /\ faults \in Nat /\ QuietStart
  BY DEF StorageState, StorageInv, RemovalInv
<1>2. ASSUME faults' = 0, NEW p \in Present(pastes'), Suffix(p.file) # PasswordExt
      PROVE  RowHasFile(p)'
  <2>1. faults = 0 /\ ~DatabaseFails
    BY <1>1, <1>2, FaultsStep, FailuresCount
  <2>2. ExpiredOnDisk(p.file, now) => RowHasFile(p)'
    BY <1>1, ExpiredLasts DEF RowHasFile
  <2>3. CASE Reconcile
    <3>1. /\ server = "reconcile" /\ UNCHANGED <<fs, req>> /\ scan'.kept = scan.kept
          /\ p \in DOMAIN scan.found \/ (p \in Present(pastes) /\ p \in scan.kept)
      BY <1>1, <1>2, <2>3, ReconcileDoes
    <3>2. CASE p \in DOMAIN scan.found
      <4>1. p \in DOMAIN fs \/ ExpiredOnDisk(p.file, now)
        BY <1>1, <1>2, <3>1, <3>2 DEF FaithfulScan, FoundHere
      <4>. QED
        BY <2>2, <3>1, <4>1 DEF RowHasFile
    <3>3. CASE p \in Present(pastes) /\ p \in scan.kept
      <4>1. RowHasFile(p) /\ \A r \in Requests : ~Dropping(r, p)
        BY <1>1, <1>2, <2>1, <3>1, <3>3, DroppingRuns DEF RowsFiled, QuietStart
      <4>2. LostAt(p) => Retained(p)'
        BY <3>1, <3>3 DEF LostAt, Retained
      <4>. QED
        BY <2>2, <3>1, <4>1, <4>2 DEF RowHasFile, Retained
    <3>. QED
      BY <3>1, <3>2, <3>3
  <2>4. CASE ~Reconcile /\ p \in Present(pastes)
    <3>1. SameRow(pastes[p], pastes'[p])
      BY <1>2, <2>4, RowsLast DEF RowsFollow
    <3>3. RowHasFile(p)
      BY <1>1, <1>2, <2>1, <2>4 DEF RowsFiled
    <3>4. ASSUME p \in DOMAIN fs, p \notin DOMAIN fs'  PROVE RowHasFile(p)'
      <4>1. ASSUME NEW r \in Uploads, RemoveNewUpload(r), p = PathOf(req[r])  PROVE FALSE
        <5>1. PICK u \in Uploads : req[u].pc = "done" /\ ContentAt(p, req[u])
          BY <1>1, <1>2, <2>4 DEF FinishedRows
        <5>2. u = r
          BY <1>1, <4>1, <5>1, PathOfUpload, ContentAtOnce
        <5>. QED
          BY <4>1, <5>1, <5>2 DEF RemoveNewUpload, At
      <4>2. ASSUME NEW r \in Requests, RemovePasteFile(r) \/ Consume(r), p = req[r].rec.path
            PROVE  Dropping(r, p)'
        BY <1>2, <2>4, <3>1, <3>4, <4>2, DroppingBegins
      <4>. QED
        BY <1>2, <2>2, <3>4, <4>1, <4>2, FileGoes DEF RowHasFile
    <3>5. ASSUME NEW r \in Requests, Dropping(r, p)  PROVE RowHasFile(p)'
      <4>1. CASE server' = "up"
        BY <1>2, <2>1, <2>4, <3>1, <3>5, <4>1, DroppingLasts DEF RowHasFile
      <4>2. CASE Crash
        BY <3>5, <4>2, DroppingLost DEF RowHasFile
      <4>. QED
        BY <1>1, <2>4, <3>5, <4>1, <4>2, DroppingRuns, StartsByCrash DEF QuietStart
    <3>7. Retained(p) => RowHasFile(p)'
      BY <2>4, RetainedLasts DEF RowHasFile
    <3>6. p \in DOMAIN fs' => RowHasFile(p)'
      BY DEF RowHasFile
    <3>. QED
      BY <2>2, <3>3, <3>4, <3>5, <3>6, <3>7 DEF RowHasFile
  <2>5. CASE ~Reconcile /\ p \notin Present(pastes)
    <3>1. PICK r \in Uploads : p = PathOf(req[r]) /\ PersistPasteMetadata(r)
      BY <1>2, <2>5, RowsLast DEF RowsFollow
    <3>2. req[r].pc = "insert_paste" /\ UNCHANGED fs
      BY <1>1, <3>1, PersistDoes DEF Uploads
    <3>3. InPlace(r) \/ ExpiredOnDisk(p.file, now)
      BY <1>1, <3>1, <3>2 DEF StoredInPlace, Inserting
    <3>. QED
      BY <2>2, <3>1, <3>2, <3>3 DEF InPlace, RowHasFile
  <2>. QED
    BY <2>3, <2>4, <2>5
<1>. QED
  BY <1>2 DEF RowsFiled

(* The invariant holds at the start.                                       *)
LEMMA StorageAtStart == Init => StorageInv
<1> SUFFICES ASSUME Init  PROVE StorageInv
  OBVIOUS
<1>1. /\ Uploads = {} /\ DOMAIN fs = {} /\ faults = 0 /\ server = "up"
      /\ \A r \in Requests : req[r].op = "none" /\ req[r].pc = "idle"
  BY DEF Init, NoRequest, Uploads
<1>2. \A u \in Requests : ~SelfStored(u)
  BY <1>1 DEF SelfStored, Acknowledged
<1>3. Present(pastes) = {}
  BY DEF Init, Present
<1>4. expired = <<>> /\ cleaner.pc = "idle"
  BY DEF Init, CleanerIdle
<1>5. DOMAIN expired = {}
  <2>1. expired \in Seq(Locations) /\ Len(expired) = 0
    BY <1>4
  <2>. QED
    BY <2>1
<1>6. /\ FreshFates /\ SidecarNames /\ StoredInPlace /\ DuplicatesStored
      /\ FilesFiled /\ StoredAnswers
  BY <1>1 DEF FreshFates, SidecarNames, StoredInPlace, DuplicatesStored, FilesFiled, StoredAnswers
<1>7. OwnedRows /\ FinishedRows /\ RowsFiled
  BY <1>3 DEF OwnedRows, FinishedRows, RowsFiled
<1>8. LookupsFinished /\ FaithfulScan /\ QuietStart /\ OwnRows
  BY <1>1, <1>2 DEF LookupsFinished, FaithfulScan, QuietStart, OwnRows, Uploads
<1>9. ExpiredGone
  BY <1>4, <1>5 DEF ExpiredGone
<1>. QED
  BY <1>1, <1>6, <1>7, <1>8, <1>9 DEF StorageInv

(* Every step keeps it.                                                    *)
LEMMA StorageStep == StorageState /\ [Next]_vars => StorageInv'
<1> SUFFICES ASSUME StorageState, [Next]_vars  PROVE StorageInv'
  OBVIOUS
<1>1. faults' \in Nat
  BY FaultsStep
<1>2. FreshFates' /\ SidecarNames' /\ StoredInPlace' /\ DuplicatesStored'
  BY FreshFatesStep, SidecarNamesStep, StoredInPlaceStep, DuplicatesStoredStep
<1>3. OwnedRows' /\ FinishedRows' /\ RowsFiled' /\ LookupsFinished'
  BY OwnedRowsStep, FinishedRowsStep, RowsFiledStep, LookupsFinishedStep
<1>4. FaithfulScan' /\ QuietStart' /\ ExpiredGone'
  BY FaithfulScanStep, QuietStartStep, ExpiredGoneStep
<1>5. FilesFiled' /\ OwnRows' /\ StoredAnswers'
  BY FilesFiledStep, OwnRowsStep, StoredAnswersStep
<1>. QED
  BY <1>1, <1>2, <1>3, <1>4, <1>5 DEF StorageInv

(* The invariant, with what it rests on.                                   *)
LEMMA StorageInvHolds == DistinctNames => (Spec => []StorageState)
<1> SUFFICES ASSUME DistinctNames  PROVE Spec => []StorageState
  OBVIOUS
<1>1. Spec => [](StateTypes /\ RemovalInv)
  BY RemovalInvHolds
<1>2. StateTypes /\ RemovalInv /\ StorageInv /\ [Next]_vars => StorageInv'
  BY StorageStep DEF StorageState
<1>3. StateTypes /\ RemovalInv /\ StorageInv => StorageState
  BY DEF StorageState
<1>. QED
  BY <1>1, <1>2, <1>3, StorageAtStart, PTL DEF Spec

(* At rest, every content on disk that was not taken away has its row, so  *)
(* it can be served, listed and deleted: persist_paste_metadata's failures *)
(* and crashes between the file and the row leave nothing behind.  It is   *)
(* assumed that the second duplicate check of a remote upload does not     *)
(* fail: there the handler returns and leaves the file it has stored.      *)
THEOREM NoContentWithoutRow ==
  DistinctNames /\ RemoteChecked => (Spec => []FilesHaveRows)
<1> SUFFICES ASSUME DistinctNames, RemoteChecked  PROVE Spec => []FilesHaveRows
  OBVIOUS
<1>1. StorageState => FilesHaveRows
  <2> SUFFICES ASSUME StorageState, Quiet, NEW p \in DOMAIN fs, fs[p].kind = "content",
                      fate[fs[p].by] = None
               PROVE  pastes[p] # NoRow
    BY DEF FilesHaveRows
  <2>1. /\ StateTypes /\ DistinctNames /\ RemovalInv /\ SidecarNames /\ FilesFiled
    BY DEF StorageState, StorageInv
  <2>2. fs[p].by \in Requests
    BY <2>1, ContentHere
  <2>3. ~Restoring(req[fs[p].by])
    BY <2>2 DEF Quiet, InProgress, Restoring, Inserting
  <2>4. p \in Present(pastes)
    BY <2>1, <2>3 DEF Quiet, FilesFiled
  <2>. QED
    BY <2>4 DEF Present
<1>. QED
  BY <1>1, StorageInvHolds, PTL

(* At rest, unless the database has failed, the row of a paste that has    *)
(* not expired leads to a file with the hash and the owner of the row:     *)
(* deletions, viewings and roll-backs remove file and row one by one, and  *)
(* a start takes rows from a scan while the cleanup thread removes files.  *)
(* The one row without a file is that of a deletion or view lost in a      *)
(* crash, which the start retained because it could not read all entries.  *)
THEOREM NoRowWithoutContent ==
  DistinctNames => (Spec => []RowsHaveFiles)
<1> SUFFICES ASSUME DistinctNames  PROVE Spec => []RowsHaveFiles
  OBVIOUS
<1>1. StorageState => RowsHaveFiles
  <2> SUFFICES ASSUME StorageState, Quiet, faults = 0, NEW p \in Present(pastes),
                      ~ExpiredOnDisk(p.file, now), Suffix(p.file) # PasswordExt
               PROVE  \/ /\ IsFile(p)
                         /\ pastes[p].hash = FileHash(p)
                         /\ pastes[p].owner \in {None, req[fs[p].by].owner}
                      \/ ~IsFile(p) /\ p \in scan.kept /\ LostAt(p)
    BY DEF RowsHaveFiles
  <2>1. /\ StateTypes /\ DistinctNames /\ RemovalInv /\ SidecarNames /\ RowsFiled /\ NamesDiffer
        /\ FinishedRows /\ OwnedRows
    BY DEF StorageState, StorageInv, RemovalInv
  <2>2. \A r \in Requests : ~Dropping(r, p)
    BY DEF Quiet, InProgress, Dropping
  <2>3. CASE p \notin DOMAIN fs
    BY <2>1, <2>2, <2>3 DEF RowsFiled, RowHasFile, Retained, Quiet, IsFile
  <2>4. CASE p \in DOMAIN fs
    <3>1. PICK v \in Uploads : v = fs[p].by /\ fs[p].kind = "content" /\ ContentAt(p, req[v])
      BY <2>1, <2>4, ContentHere
    <3>2. PICK u \in Uploads : ContentAt(p, req[u]) /\ pastes[p].hash = req[u].hash
      BY <2>1 DEF FinishedRows
    <3>3. u = v
      BY <2>1, <3>1, <3>2, ContentAtOnce
    <3>4. ASSUME pastes[p].owner # None  PROVE pastes[p].owner = req[v].owner
      <4>1. PICK w \in Uploads : p = PathOf(req[w]) /\ req[w].owner = pastes[p].owner
        BY <2>1, <3>4 DEF OwnedRows, RowFrom
      <4>2. w = v
        BY <2>1, <3>1, <4>1, PathOfUpload, ContentAtOnce
      <4>. QED
        BY <4>1, <4>2
    <3>. QED
      BY <2>4, <3>1, <3>2, <3>3, <3>4 DEF IsFile, FileHash
  <2>. QED
    BY <2>3, <2>4
<1>. QED
  BY <1>1, StorageInvHolds, PTL

(* Only what takes the content away takes a paste from its owner: through  *)
(* crashes, starts, expiries and the deletions of others, at every step    *)
(* and not only at rest, an acknowledged paste keeps its file, its row and *)
(* the owner in that row.                                                  *)
THEOREM PastesStayWithTheirOwners ==
  DistinctNames => (Spec => []OwnersKeepTheirPastes)
<1> SUFFICES ASSUME DistinctNames  PROVE Spec => []OwnersKeepTheirPastes
  OBVIOUS
<1>1. StorageState => OwnersKeepTheirPastes
  <2> SUFFICES ASSUME StorageState, NEW u \in Requests, Acknowledged(u), req[u].seen = u,
                      fate[u] = None
               PROVE  /\ IsFile(PathOf(req[u]))
                      /\ pastes[PathOf(req[u])] # NoRow
                      /\ pastes[PathOf(req[u])].owner = req[u].owner
    BY DEF OwnersKeepTheirPastes
  <2>1. u \in Uploads /\ SelfStored(u) /\ StoredInPlace /\ OwnRows
    BY DEF StorageState, StorageInv, Uploads, SelfStored, Acknowledged
  <2>2. InPlace(u)
    BY <2>1 DEF StoredInPlace, Taken
  <2>. QED
    BY <2>1, <2>2 DEF OwnRows, InPlace, IsFile, Present
<1>. QED
  BY <1>1, StorageInvHolds, PTL

(* The link an upload is answered with leads to content of that owner,     *)
(* hash, category and expiry, and no roll-back takes it away: duplicates   *)
(* that are found, lost and replaced while other handlers run included.    *)
(* Where pastes are deduplicated none expires: find_owner_duplicate offers *)
(* an expiring paste for one that does not expire.                         *)
THEOREM LinksLeadToStoredContent ==
  DistinctNames /\ (Deduplicate => Stamps = {}) => (Spec => []AcknowledgedIsStored)
<1> SUFFICES ASSUME DistinctNames, Deduplicate => Stamps = {}
             PROVE  Spec => []AcknowledgedIsStored
  OBVIOUS
<1>1. StorageState => AcknowledgedIsStored
  <2> SUFFICES ASSUME StorageState, NEW r \in Requests, Acknowledged(r)
               PROVE  LET u == req[r].seen
                      IN  /\ req[u].owner = req[r].owner
                          /\ req[u].hash = req[r].hash
                          /\ req[u].expiry = req[r].expiry
                          /\ u # r => CategoryOf(req[u].type) = CategoryOf(req[r].type)
                          /\ fate[u] # None => fate[u].how # "rollback"
    BY DEF AcknowledgedIsStored
  <2>1. StateTypes /\ r \in Uploads /\ StoredInPlace /\ StoredAnswers /\ Answered(req[r])
    BY DEF StorageState, StorageInv, Uploads, Acknowledged, Answered
  <2>2. \A u \in Uploads : SelfStored(u) /\ fate[u] # None => fate[u].how # "rollback"
    BY <2>1 DEF StoredInPlace, InPlace, Taken
  <2>3. CASE req[r].seen = r
    BY <2>1, <2>2, <2>3 DEF SelfStored
  <2>4. CASE req[r].seen \in Uploads /\ AnswerFrom(req[r], req[r].seen)
    <3>1. PICK u \in Uploads : u = req[r].seen /\ AnswerFrom(req[r], u)
      BY <2>4
    <3>2. UploadRecord(req[u])
      BY <2>1, <3>1 DEF StateTypes, RequestTypes, GoodRequest, Uploads
    <3>3. req[u].expiry = req[r].expiry
      BY <3>1, <3>2 DEF AnswerFrom, UploadRecord, Expiries
    <3>. QED
      BY <2>2, <3>1, <3>3 DEF AnswerFrom
  <2>. QED
    BY <2>1, <2>3, <2>4 DEF StoredAnswers
<1>. QED
  BY <1>1, StorageInvHolds, PTL

------------------------------------------------------------------------------
(* Viewing.  What a download shows was opened at a path, after a look at   *)
(* the password of that path and before the view of a one-shot paste.      *)

(* The download has opened a content that it may yet be answered with.     *)
Viewing(x) ==
  /\ x.op = "serve"
  /\ x.pc \in {"consume", "delete_metadata"} \/ (x.pc = "done" /\ x.status = "ok")

(* A path of an upload and the name of its sidecar tell one another.       *)
LEMMA SidecarOnce ==
  ASSUME DistinctNames, StateTypes, NEW u \in Uploads, NEW p \in Paths,
         p.file \in Seq(AnyParts), PasswordPath(p) = SidecarOf(req[u])
  PROVE  p = PathOf(req[u])
<1> DEFINE q == PathOf(req[u])
<1>1. q \in Paths /\ q.file \in Seq(AnyParts)
  <2>1. UploadRecord(req[u]) /\ PlainNames
    BY PathOfUpload DEF DistinctNames
  <2>. QED
    BY <2>1, UploadFiles DEF Locations
<1> HIDE DEF q
<1>2. PasswordPath(p) = PasswordPath(q)
  BY DEF SidecarOf, q
<1>3. p.dir = q.dir /\ Append(p.file, PasswordExt) = Append(q.file, PasswordExt)
  BY <1>2 DEF PasswordPath, PasswordFileName
<1>4. PasswordExt \in AnyParts
  BY DEF AnyParts
<1>5. p.file = q.file
  BY <1>1, <1>3, <1>4, AppendParts
<1>. QED
  BY <1>1, <1>3, <1>5 DEF Paths, q

(* Nothing is stored yet at the path of an upload that arrives.            *)
LEMMA FreshPath ==
  ASSUME StorageState, NEW u \in Requests, Arrived(u), req'[u].op = "upload"
  PROVE  PathOf(req'[u]) \notin DOMAIN fs
<1> DEFINE p == PathOf(req'[u])
<1>1. /\ StateTypes /\ DistinctNames /\ RemovalInv /\ SidecarNames /\ PlainNames
      /\ NamesDiffer /\ GoodFiles
  BY DEF StorageState, StorageInv, RemovalInv, DistinctNames
<1>2. UploadRecord(req'[u]) /\ req'[u].name \notin UsedNames /\ req'[u].name \in UploadNames
  BY <1>1 DEF Arrived, GoodRequest, DistinctNames, UploadRecord
<1>3. ContentName(p.file, req'[u].name)
  BY <1>1, <1>2, UploadFiles
<1>4. Suffix(p.file) # PasswordExt
  BY <1>1, <1>2, <1>3, ContentNames
<1>5. ASSUME p \in DOMAIN fs  PROVE FALSE
  <2>1. fs[p].kind = "content"
    BY <1>1, <1>4, <1>5, ContentHere
  <2>2. PICK v \in Uploads : v \in Requests /\ req'[u].name = req[v].name
    BY <1>1, <1>2, <1>3, <1>5, <2>1, ContentOf
  <2>. QED
    BY <1>2, <2>2 DEF UsedNames, Uploads
<1>. QED
  BY <1>5

(* A content comes to the path of an upload by its creation; only that of  *)
(* a one-shot paste may move there.                                        *)
LEMMA ContentComes ==
  ASSUME StorageState, StorageState', [Next]_vars, NEW u \in Uploads,
         PathOf(req[u]) \notin DOMAIN fs, PathOf(req[u]) \in DOMAIN fs'
  PROVE  \/ CreateContent(u) /\ req[u].pc = "create_new"
         \/ req[u].type \in OneshotTypes /\ PathOf(req[u]) = ConsumedPath(req[u], now)
<1>1. /\ StateTypes /\ DistinctNames /\ RemovalInv /\ SidecarNames /\ NamesDiffer /\ GoodFiles
      /\ DiskEvents /\ PlainNames
  BY EveryDiskEvent DEF StorageState, StorageInv, RemovalInv, DistinctNames
<1>2. PICK p : p = PathOf(req[u]) /\ ContentAt(p, req[u]) /\ Suffix(p.file) # PasswordExt
               /\ u \in Requests
  BY <1>1, PathOfUpload
<1>3. fs'[p].kind = "content"
  <2>1. StateTypes' /\ SidecarNames'
    BY DEF StorageState, StorageInv
  <2>2. fs'[p].kind \in {"content", "hash"}
    BY <1>2, <2>1 DEF StateTypes, FileTypes, FileRecords
  <2>. QED
    BY <1>2, <2>1, <2>2 DEF SidecarNames
<1>4. ~NoContentMoves
  BY <1>2, <1>3 DEF NoContentMoves
<1>5. ASSUME NEW r \in Uploads, ContentCreated(r)
      PROVE  CreateContent(u) /\ req[u].pc = "create_new"
  <2>1. PICK q : q = PathOf(req[r]) /\ ContentAt(q, req[r]) /\ r \in Requests
    BY <1>1, PathOfUpload
  <2>2. Creates(q, r, "content") /\ CreateContent(r)
    BY <1>5, <2>1 DEF ContentCreated
  <2>3. DOMAIN fs' = DOMAIN fs \cup {q}
    BY <2>2, CreateEffect
  <2>4. r = u
    BY <1>1, <1>2, <2>1, <2>3, ContentAtOnce
  <2>. QED
    BY <1>1, <2>1, <2>2, <2>4, CreateContentDoes
<1>6. ASSUME NEW how, NEW x \in DOMAIN fs, ContentRemoved(x, how)  PROVE FALSE
  <2>1. DOMAIN fs' = DOMAIN fs \ {x}
    BY <1>6, RemoveEffect DEF ContentRemoved
  <2>. QED
    BY <1>2, <2>1
<1>7. ASSUME NEW how, NEW x \in DOMAIN fs, ContentConsumed(x, how)
      PROVE  req[u].type \in OneshotTypes /\ PathOf(req[u]) = ConsumedPath(req[u], now)
  <2>1. fs[x].kind = "content" /\ GoodContent(x, fs[x].by)
    BY <1>1, <1>7 DEF ContentConsumed, GoodFiles
  <2>2. PICK v \in Uploads : v = fs[x].by /\ v \in Requests
    BY <1>1, <2>1, ContentHere
  <2>3. PICK q : q = ConsumedPath(req[v], now)
    OBVIOUS
  <2>4. Renames(x, q, how)
    BY <1>7, <2>2, <2>3 DEF ContentConsumed
  <2>5. DOMAIN fs' = (DOMAIN fs \ {x}) \cup {q}
    BY <2>4, RenameEffect
  <2>6. UploadRecord(req[v]) /\ now \in Nat
    BY <1>1, PathOfUpload DEF StateTypes
  <2>7. ContentAt(q, req[v])
    BY <1>1, <2>3, <2>6, ConsumedFiles DEF ContentAt
  <2>8. p = q
    BY <1>2, <2>5
  <2>9. v = u
    BY <1>1, <1>2, <2>7, <2>8, ContentAtOnce
  <2>10. x # PathOf(req[u])
    BY <1>2
  <2>. QED
    BY <1>2, <2>1, <2>2, <2>3, <2>8, <2>9, <2>10 DEF GoodContent
<1>. QED
  BY <1>1, <1>4, <1>5, <1>6, <1>7 DEF DiskEvents

(* A download that has opened a content goes on with it, or opens one now. *)
ViewGoesOn(r) ==
  /\ Viewing(req[r]) /\ req'[r].seen = req[r].seen
  /\ \/ req[r].pc = "delete_metadata" /\ UNCHANGED <<fs, fate>>
     \/ /\ req[r].pc = "consume" /\ HoldsRecord(req[r])
        /\ \E q : Renames(req[r].rec.path, q, [how |-> "consumed", by |-> r])
  /\ req'[r].pc # "consume"

ViewBegins(r) ==
  LET p == req[r].rec.path
  IN  /\ req[r].pc = "open" /\ req[r].op = "serve" /\ HoldsRecord(req[r])
      /\ UNCHANGED <<pastes, fs, fate>>
      /\ p \in DOMAIN fs /\ req'[r].seen = fs[p].by
      /\ req'[r].rec = req[r].rec
      /\ req'[r].pc = "consume" <=> req[r].rec.type \in OneshotTypes

(* How a download comes to view a content.                                 *)
LEMMA ViewSteps ==
  ASSUME StateTypes, [Next]_vars, NEW r \in Requests, Viewing(req'[r])
  PROVE  \/ req'[r] = req[r]
         \/ Step(r) /\ req[r].op = "serve" /\ (ViewGoesOn(r) \/ ViewBegins(r))
<1>1. ASSUME Step(r)  PROVE req[r].op = "serve" /\ (ViewGoesOn(r) \/ ViewBegins(r))
  <2>1. /\ SameRequest(req[r], req'[r]) /\ req'[r].op = "serve" /\ req[r].op = "serve"
        /\ req'[r].pc \in {"consume", "delete_metadata", "done"}
        /\ req'[r].pc = "done" => req'[r].status = "ok"
    BY <1>1, StepsHandle DEF Handled, Moved, Viewing, SameRequest
  <2>2. CASE FindPastes(r)
    BY <2>1, <2>2, FindPastesDoes
  <2>3. CASE IsFileStep(r)
    BY <2>1, <2>3, IsFileStepDoes DEF Turns, Holds
  <2>4. CASE HasPassword(r)
    BY <2>1, <2>4, HasPasswordDoes DEF Turns, GoesOn
  <2>5. CASE Open(r)
    <3>1. ViewBegins(r)
      BY <2>1, <2>5, OpenDoes DEF Turns, Sees, Answers, RecordKept, ViewBegins
    <3>. QED
      BY <2>1, <3>1
  <2>6. CASE Consume(r)
    <3>1. /\ req[r].pc = "consume" /\ HoldsRecord(req[r]) /\ GoesOn(r, "delete_metadata")
          /\ \E q : Renames(req[r].rec.path, q, [how |-> "consumed", by |-> r])
      BY <2>1, <2>6, ConsumeDoes DEF Turns
    <3>. QED
      BY <2>1, <3>1 DEF ViewGoesOn, Viewing, GoesOn, AnswerKept
  <2>7. CASE DeleteMetadata(r)
    <3>1. /\ req[r].pc = "delete_metadata" /\ UNCHANGED <<fs, fate>>
          /\ Turns(r, "ok", "done")
      BY <2>1, <2>7, DeleteMetadataDoes DEF Turns
    <3>. QED
      BY <2>1, <3>1 DEF ViewGoesOn, Viewing, Turns
  <2>8. ~(RemovePasteFile(r) \/ DeleteRow(r))
    BY <2>1, RemovePasteFileDoes, DeleteRowDoes
  <2>9. ~DeletePassword(r)
    BY <2>1, DeletePasswordDoes
  <2>. QED
    BY <1>1, <2>1, <2>2, <2>3, <2>4, <2>5, <2>6, <2>7, <2>8, <2>9, UploadSteps
<1>2. CASE Arrived(r)
  BY <1>2 DEF Arrived, Viewing, HoldsRecord
<1>3. CASE Lost(r)
  BY <1>3 DEF Lost, Viewing
<1>. QED
  BY <1>1, <1>2, <1>3, RequestCases

(* What a download or a deletion holds is the path of a content.           *)
LEMMA RecordPath ==
  ASSUME StorageState, NEW r \in Requests, req[r].op \in {"serve", "delete"},
         HoldsRecord(req[r])
  PROVE  /\ req[r].rec.path \in Paths /\ req[r].rec.path.file \in Seq(AnyParts)
         /\ Suffix(req[r].rec.path.file) # PasswordExt
         /\ req[r].rec.path.dir = GetDir(req[r].rec.type)
         /\ req[r].rec.type \in PasteTypes
<1>1. StateTypes /\ GoodRecords /\ PlainNames
  BY DEF StorageState, RemovalInv, DistinctNames
<1>2. GoodRecord(req[r].rec, req[r].name) /\ req[r].name \in UploadNames /\ req[r].rec \in Records
  BY <1>1, RecordInUse
<1>. QED
  BY <1>1, <1>2, ContentNames DEF GoodRecord, Records

(* The paste that a download or a deletion in progress is about has been   *)
(* stored by an upload that is done.                                       *)
LEMMA RecordUpload ==
  ASSUME StorageState, NEW r \in Requests, req[r].op \in {"serve", "delete"},
         HoldsRecord(req[r]), NEW u \in Uploads, req[r].rec.path = PathOf(req[u])
  PROVE  req[u].pc = "done"
<1>1. /\ StateTypes /\ DistinctNames /\ LookupsFinished /\ NamesDiffer
      /\ ContentAt(PathOf(req[u]), req[u])
  BY PathOfUpload DEF StorageState, StorageInv, RemovalInv
<1>2. InProgress(r)
  BY DEF HoldsRecord, InProgress
<1>3. GoodLookup(req[r].rec)
  BY <1>1, <1>2, LookupInUse
<1>4. PICK v \in Uploads : req[v].pc = "done" /\ ContentAt(PathOf(req[u]), req[v])
  BY <1>3 DEF GoodLookup, Finished
<1>. QED
  BY <1>1, <1>4, ContentAtOnce

------------------------------------------------------------------------------
(* Protected pastes: no content without its password beside it, as long as *)
(* no cleanup runs.                                                        *)

IsProtected(x) == x.type = "protected_file"

(* The password comes before the content,                                  *)
SidecarsFirst ==
  \A u \in Uploads :
    IsProtected(req[u]) /\ (PathOf(req[u]) \in DOMAIN fs \/ req[u].pc = "create_new") =>
      SidecarOf(req[u]) \in DOMAIN fs

(* and whoever is about to remove it has removed the content.              *)
DropsSidecar(r, u) ==
  /\ req[r].pc = "delete_password"
  /\ r = u \/ (req[r].op = "delete" /\ req[r].rec.path = PathOf(req[u]))

SidecarsLast ==
  \A r \in Requests, u \in Uploads :
    IsProtected(req[u]) /\ DropsSidecar(r, u) => PathOf(req[u]) \notin DOMAIN fs

(* Who is about to open a protected content knows its password,            *)
OpenersKnow ==
  \A r \in Requests, u \in Uploads :
    /\ req[r].pc = "open" /\ req[r].rec.path = PathOf(req[u])
    /\ IsProtected(req[u]) /\ PathOf(req[u]) \in DOMAIN fs
    => req[r].knows

(* and so does who has opened it.                                          *)
ViewersKnow ==
  \A r \in Requests :
    Viewing(req[r]) =>
      /\ req[r].seen \in Uploads
      /\ IsProtected(req[req[r].seen]) => req[r].knows

PasswordInv ==
  cleaner.pc = "idle" /\ SidecarsFirst /\ SidecarsLast /\ OpenersKnow /\ ViewersKnow

(* The assumptions of a step.                                              *)
PasswordState == ~Cleanup /\ StorageState /\ StorageState' /\ PasswordInv

(* Nothing is cleaned up.                                                  *)
LEMMA NoCleanup ==
  ASSUME PasswordState, [Next]_vars
  PROVE  /\ cleaner'.pc = "idle" /\ ~CleanerStep
<1>1. ~CleanerStep /\ cleaner.pc = "idle"
  <2>1. cleaner.pc = "idle" /\ ~Cleanup
    BY DEF PasswordState, PasswordInv
  <2>2. ~ListExpired /\ ~ListOrphans /\ ~RemoveExpiredSidecar
    BY <2>1 DEF ListExpired, ListOrphans, RemoveExpiredSidecar
  <2>3. \A p : ~RemoveExpired(p) /\ ~RemoveOrphan(p)
    BY <2>1 DEF RemoveExpired, RemoveOrphan
  <2>. QED
    BY <2>1, <2>2, <2>3 DEF CleanerStep
<1>2. ASSUME NEW r \in Requests, Step(r) \/ Arrival(r)  PROVE cleaner' = cleaner
  BY <1>2, StepsRun, ArrivalsAreGood DEF PasswordState, StorageState
<1>3. CASE Crash
  BY <1>1, <1>3 DEF Crash, CleanerIdle
<1>4. CASE ConsumeExpired \/ ScanPastes \/ Reconcile \/ Tick
  BY <1>1, <1>4 DEF ConsumeExpired, ScanPastes, Reconcile, Tick
<1>5. CASE UNCHANGED vars
  BY <1>1, <1>5 DEF vars
<1>. QED
  BY <1>1, <1>2, <1>3, <1>4, <1>5 DEF Next

(* An upload that arrives does not create a protected content at once.     *)
LEMMA ArrivalPlace ==
  ASSUME StateTypes, NEW r \in Requests, Arrival(r)
  PROVE  req'[r].pc = "create_new" => ~IsProtected(req'[r])
<1>1. ASSUME NEW owner \in Owners, NEW name \in UploadNames, NEW type \in Types,
             NEW expiry \in Expiries, NEW hash \in Hashes \ {PasswordExt},
             ArriveUpload(r, owner, name, type, expiry, hash)
      PROVE  req'[r].pc = "create_new" => ~IsProtected(req'[r])
  <2> DEFINE new == [NoRequest EXCEPT !.op = "upload", !.owner = owner, !.name = name,
                                      !.type = type, !.expiry = expiry, !.hash = hash]
             pc == IF Deduplicate /\ MayDeduplicate(new) /\ type # "remote_file"
                   THEN "find_owner_duplicate" ELSE StoreStep(type)
  <2>1. req' = [req EXCEPT ![r] = [new EXCEPT !.pc = pc]]
    BY <1>1 DEF ArriveUpload
  <2>2. pc = "create_new" => type # "protected_file"
    BY DEF StoreStep
  <2>3. new.type = type /\ DOMAIN new = DOMAIN NoRequest
    BY DEF NoRequest
  <2> HIDE DEF new, pc
  <2>4. new \in RequestRecords
    BY <1>1, <2>1, EmptyRequest DEF new, RequestRecords
  <2>5. [new EXCEPT !.pc = pc].pc = pc /\ [new EXCEPT !.pc = pc].type = type
    BY <2>3, <2>4 DEF RequestRecords
  <2>6. req'[r] = [new EXCEPT !.pc = pc]
    BY <2>1 DEF StateTypes, RequestTypes
  <2>. QED
    BY <2>2, <2>5, <2>6 DEF IsProtected
<1>2. ASSUME NEW op, NEW owner, NEW name, NEW knows,
             ArriveOther(r, op, owner, name, knows)
      PROVE  req'[r].pc # "create_new"
  <2> DEFINE y == [NoRequest EXCEPT !.op = op, !.owner = owner, !.name = name,
                                    !.knows = knows, !.pc = "find_pastes"]
  <2>1. req' = [req EXCEPT ![r] = y] /\ y.pc = "find_pastes"
    BY <1>2 DEF ArriveOther, NoRequest
  <2> HIDE DEF y
  <2>2. req'[r] = y
    BY <2>1 DEF StateTypes, RequestTypes
  <2>. QED
    BY <2>1, <2>2
<1>. QED
  BY <1>1, <1>2 DEF Arrival

(* A protected upload comes to its content with its password stored.       *)
LEMMA ProtectedSteps ==
  ASSUME StateTypes, NEW u \in Requests, Step(u), req[u].op = "upload", IsProtected(req[u])
  PROVE  /\ req'[u].pc = "create_new" => Creates(SidecarOf(req[u]), u, "hash")
         /\ req'[u].pc = "delete_password" =>
              \/ CreateContent(u) /\ UNCHANGED fs /\ PathOf(req[u]) \in DOMAIN fs
              \/ PathOf(req[u]) \notin DOMAIN fs'
<1>1. AfterCheck(u) = "glob_match"
  BY DEF AfterCheck, StoreStep, IsProtected
<1>2. CASE FindOwnerDuplicate(u)
  BY <1>1, <1>2, FindOwnerDuplicateDoes DEF GoesOn, Holds, Turns
<1>3. CASE CheckDuplicate(u)
  BY <1>1, <1>3, CheckDuplicateDoes DEF GoesOn, Answers, IsProtected
<1>4. CASE DeleteStale(u)
  BY <1>1, <1>4, DeleteStaleDoes DEF GoesOn, Turns
<1>5. CASE GlobMatch(u) \/ StorePassword(u)
  BY <1>5, PreparationDoes DEF GoesOn, Turns, IsProtected
<1>6. CASE CreateContent(u)
  BY <1>6, CreateContentDoes DEF GoesOn, Turns
<1>7. CASE PersistPasteMetadata(u)
  BY <1>7, PersistDoes DEF Answers, Turns, Holds
<1>8. CASE CheckWinner(u)
  BY <1>8, CheckWinnerDoes DEF GoesOn, Answers
<1>9. CASE DropWinner(u)
  BY <1>9, DropWinnerDoes DEF GoesOn, Turns
<1>10. CASE RemoveNewUpload(u)
  <2>1. req'[u].pc # "create_new"
    BY <1>10, RemoveNewUploadDoes DEF GoesOn
  <2>2. PICK p : p = PathOf(req[u])
    OBVIOUS
  <2>3. \/ p \notin DOMAIN fs /\ UNCHANGED fs
        \/ \E how : Removes(p, how)
    BY <1>10, <2>2 DEF RemoveNewUpload, Removes, IsFile, UnchangedDisk
  <2>4. p \notin DOMAIN fs'
    BY <2>3, RemoveEffect
  <2>. QED
    BY <2>1, <2>2, <2>4
<1>11. CASE DeletePassword(u)
  BY <1>11, DeletePasswordDoes DEF GoesOn
<1>. QED
  BY <1>2, <1>3, <1>4, <1>5, <1>6, <1>7, <1>8, <1>9, <1>10, <1>11, UploadSteps

(* Who takes the password of a protected paste away.                       *)
LEMMA SidecarGoes ==
  ASSUME PasswordState, [Next]_vars, NEW u \in Uploads, SidecarOf(req[u]) \in DOMAIN fs,
         SidecarOf(req[u]) \notin DOMAIN fs'
  PROVE  \E r \in Requests : DropsSidecar(r, u)
<1>1. /\ StateTypes /\ DistinctNames /\ NamesDiffer /\ StorageState /\ DiskCalls /\ PlainNames
      /\ ~CleanerStep
  BY EveryDiskCall, NoCleanup DEF PasswordState, StorageState, RemovalInv, DistinctNames
<1>2. PICK q : q = SidecarOf(req[u]) /\ Suffix(q.file) = PasswordExt
  BY <1>1, PathOfUpload
<1>3. ASSUME NEW p, NEW how, Removes(p, how)  PROVE p = q
  <2>1. DOMAIN fs' = DOMAIN fs \ {p}
    BY <1>3, RemoveEffect
  <2>. QED
    BY <1>2, <2>1
<1>4. ASSUME NEW p, NEW r, NEW kind, Creates(p, r, kind)  PROVE FALSE
  <2>1. DOMAIN fs' = DOMAIN fs \cup {p}
    BY <1>4, CreateEffect
  <2>. QED
    BY <1>2, <2>1
<1>5. ASSUME NEW p, NEW x, NEW how, Renames(p, x, how)  PROVE p = q
  <2>1. DOMAIN fs' = (DOMAIN fs \ {p}) \cup {x}
    BY <1>5, RenameEffect
  <2>. QED
    BY <1>2, <2>1
<1>6. ~UnchangedDisk
  BY <1>2 DEF UnchangedDisk
<1>7. ASSUME NEW r \in Requests, RemoveNewUpload(r), NEW how, Removes(PathOf(req[r]), how)
      PROVE  FALSE
  <2>1. r \in Uploads
    BY <1>1, <1>7, RemoveNewUploadDoes DEF Uploads
  <2>2. PathOf(req[r]) = q
    BY <1>3, <1>7
  <2>. QED
    BY <1>1, <1>2, <2>1, <2>2, PathOfUpload
<1>8. ASSUME NEW r \in Requests, DeletePassword(r), req[r].op = "upload", NEW how,
             Removes(SidecarOf(req[r]), how)
      PROVE  DropsSidecar(r, u)
  <2>1. r \in Uploads /\ req[r].pc = "delete_password"
    BY <1>1, <1>8, DeletePasswordDoes DEF Uploads
  <2>2. SidecarOf(req[r]) = SidecarOf(req[u])
    BY <1>2, <1>3, <1>8
  <2>3. /\ PathOf(req[r]) \in Paths /\ PathOf(req[r]).file \in Seq(AnyParts)
        /\ UploadRecord(req[u])
    BY <1>1, <2>1, PathOfUpload, UploadFiles DEF Locations
  <2>4. PathOf(req[r]) = PathOf(req[u])
    BY <1>1, <2>2, <2>3, SidecarOnce DEF SidecarOf
  <2>5. r = u
    BY <1>1, <2>1, <2>4, PathOfUpload, ContentAtOnce
  <2>. QED
    BY <2>1, <2>5 DEF DropsSidecar
<1>9. ASSUME NEW r \in Requests, DeletePassword(r), req[r].op # "upload", NEW how,
             Removes(PasswordPath(req[r].rec.path), how)
      PROVE  DropsSidecar(r, u)
  <2>1. req[r].op = "delete" /\ HoldsRecord(req[r]) /\ req[r].pc = "delete_password"
    BY <1>1, <1>9, DeletePasswordDoes
  <2>2. req[r].rec.path \in Paths /\ req[r].rec.path.file \in Seq(AnyParts)
    BY <1>1, <2>1, RecordPath
  <2>3. PasswordPath(req[r].rec.path) = SidecarOf(req[u])
    BY <1>2, <1>3, <1>9
  <2>4. req[r].rec.path = PathOf(req[u])
    BY <1>1, <2>2, <2>3, SidecarOnce
  <2>. QED
    BY <2>1, <2>4 DEF DropsSidecar
<1>10. ASSUME NEW r \in Requests, RemovePasteFile(r) \/ Consume(r), req[r].rec.path = q
       PROVE  FALSE
  <2>1. req[r].op \in {"serve", "delete"} /\ HoldsRecord(req[r])
    BY <1>1, <1>10, RemovePasteFileDoes, ConsumeDoes
  <2>. QED
    BY <1>1, <1>2, <1>10, <2>1, RecordPath
<1>11. \A p : RemoveExpired(p) \/ RemoveOrphan(p) => FALSE
  BY DEF PasswordState, PasswordInv, RemoveExpired, RemoveOrphan
<1>12. ~RemoveExpiredSidecar
  BY DEF PasswordState, PasswordInv, RemoveExpiredSidecar
<1>. QED
  BY <1>1, <1>3, <1>4, <1>5, <1>6, <1>7, <1>8, <1>9, <1>10, <1>11, <1>12 DEF DiskCalls

(* What a protected upload becomes: its content is created by it alone.    *)
LEMMA ProtectedComes ==
  ASSUME PasswordState, [Next]_vars, NEW u \in Uploads', IsProtected(req'[u]),
         PathOf(req'[u]) \in DOMAIN fs'
  PROVE  /\ u \in Uploads /\ u \in Requests /\ IsProtected(req[u])
         /\ PathOf(req'[u]) = PathOf(req[u]) /\ SidecarOf(req'[u]) = SidecarOf(req[u])
         /\ \/ PathOf(req[u]) \in DOMAIN fs
            \/ CreateContent(u) /\ req[u].pc = "create_new"
<1>1. StateTypes /\ StorageState /\ StorageState'
  BY DEF PasswordState, StorageState
<1>2. CASE u \in Uploads
  <2>1. u \in Requests /\ SameRequest(req[u], req'[u])
    BY <1>1, <1>2, UploadsMove
  <2>2. /\ IsProtected(req[u]) /\ PathOf(req'[u]) = PathOf(req[u])
        /\ SidecarOf(req'[u]) = SidecarOf(req[u])
    BY <2>1, SameFiles DEF IsProtected
  <2>3. req[u].type \notin OneshotTypes
    BY <2>2 DEF IsProtected, OneshotTypes
  <2>. QED
    BY <1>1, <1>2, <2>1, <2>2, <2>3, ContentComes
<1>3. CASE u \notin Uploads
  <2>1. u \in Requests /\ Arrived(u) /\ req'[u].op = "upload"
    BY <1>1, <1>3, UploadsMove DEF Arrived, Uploads
  <2>2. fs' = fs
    BY <1>1, <1>3, UploadsMove
  <2>. QED
    BY <1>1, <2>1, <2>2, FreshPath
<1>. QED
  BY <1>2, <1>3

(* The password comes first.                                               *)
LEMMA SidecarsFirstStep ==
  ASSUME PasswordState, [Next]_vars
  PROVE  SidecarsFirst'
<1>1. /\ StateTypes /\ StorageState /\ SidecarsFirst /\ SidecarsLast /\ DistinctNames /\ PlainNames
  BY DEF PasswordState, PasswordInv, StorageState, DistinctNames
<1>2. ASSUME NEW u \in Uploads, u \in Requests, IsProtected(req[u]),
             PathOf(req[u]) \in DOMAIN fs \/ req[u].pc = "create_new"
      PROVE  SidecarOf(req[u]) \in DOMAIN fs'
  <2>1. SidecarOf(req[u]) \in DOMAIN fs
    BY <1>1, <1>2 DEF SidecarsFirst
  <2>2. ASSUME NEW r \in Requests, DropsSidecar(r, u)  PROVE FALSE
    <3>1. PathOf(req[u]) \notin DOMAIN fs
      BY <1>1, <1>2, <2>2 DEF SidecarsLast
    <3>2. req[u].pc = "create_new" /\ r # u
      BY <1>2, <2>2, <3>1 DEF DropsSidecar
    <3>3. HoldsRecord(req[r]) /\ req[r].op = "delete" /\ req[r].rec.path = PathOf(req[u])
      BY <2>2, <3>2 DEF DropsSidecar, HoldsRecord
    <3>. QED
      BY <1>1, <3>2, <3>3, RecordUpload
  <2>. QED
    BY <2>1, <2>2, SidecarGoes
<1>3. ASSUME NEW u \in Uploads', IsProtected(req'[u]),
             PathOf(req'[u]) \in DOMAIN fs' \/ req'[u].pc = "create_new"
      PROVE  SidecarOf(req'[u]) \in DOMAIN fs'
  <2>1. CASE PathOf(req'[u]) \in DOMAIN fs'
    BY <1>2, <1>3, <2>1, ProtectedComes
  <2>2. CASE req'[u].pc = "create_new"
    <3>1. u \in Requests /\ req'[u].op = "upload"
      BY <1>3 DEF Uploads
    <3>2. ASSUME req'[u] = req[u]  PROVE SidecarOf(req'[u]) \in DOMAIN fs'
      BY <1>2, <1>3, <2>2, <3>1, <3>2 DEF Uploads
    <3>3. ASSUME Step(u)  PROVE SidecarOf(req'[u]) \in DOMAIN fs'
      <4>1. SameRequest(req[u], req'[u])
        BY <1>1, <3>1, <3>3, StepsHandle DEF Handled, Moved
      <4>2. req[u].op = "upload" /\ IsProtected(req[u]) /\ SidecarOf(req'[u]) = SidecarOf(req[u])
        BY <1>3, <3>1, <4>1, SameFiles DEF IsProtected
      <4>3. PICK q : q = SidecarOf(req[u])
        OBVIOUS
      <4>4. Creates(q, u, "hash")
        BY <1>1, <2>2, <3>1, <3>3, <4>2, <4>3, ProtectedSteps
      <4>. QED
        BY <4>2, <4>3, <4>4, CreateEffect
    <3>4. ~(Arrived(u) /\ Arrival(u))
      BY <1>1, <1>3, <2>2, <3>1, ArrivalPlace
    <3>5. ~Lost(u)
      BY <2>2 DEF Lost
    <3>. QED
      BY <1>1, <3>1, <3>2, <3>3, <3>4, <3>5, RequestCases
  <2>. QED
    BY <1>3, <2>1, <2>2
<1>. QED
  BY <1>3 DEF SidecarsFirst

(* and goes last.                                                          *)
LEMMA SidecarsLastStep ==
  ASSUME PasswordState, [Next]_vars
  PROVE  SidecarsLast'
<1>1. /\ StateTypes /\ StorageState /\ SidecarsLast /\ DistinctNames /\ RemovalInv /\ SidecarNames
  BY DEF PasswordState, PasswordInv, StorageState, StorageInv
<1>2. ASSUME NEW r \in Requests, NEW u \in Uploads', IsProtected(req'[u]),
             req'[r].pc = "delete_password",
             r = u \/ (req'[r].op = "delete" /\ req'[r].rec.path = PathOf(req'[u])),
             PathOf(req'[u]) \in DOMAIN fs'
      PROVE  FALSE
  <2>1. /\ u \in Uploads /\ u \in Requests /\ IsProtected(req[u])
        /\ PathOf(req'[u]) = PathOf(req[u])
        /\ PathOf(req[u]) \in DOMAIN fs \/ (CreateContent(u) /\ req[u].pc = "create_new")
    BY <1>2, ProtectedComes
  <2>2. ASSUME CreateContent(u), r = u  PROVE FALSE
    <3>1. /\ UNCHANGED fs /\ PathOf(req[u]) \in DOMAIN fs /\ IsCreating(req[u])
      BY <1>1, <1>2, <2>1, <2>2, CreateContentDoes DEF GoesOn, IsCreating
    <3>2. ~IsCreating(req[u])
      <4>1. /\ fs[PathOf(req[u])].kind = "content" /\ fs[PathOf(req[u])].by \in Uploads
            /\ ContentAt(PathOf(req[u]), req[fs[PathOf(req[u])].by])
        BY <1>1, <2>1, <3>1, PathOfUpload, ContentHere
      <4>2. fs[PathOf(req[u])].by = u
        BY <1>1, <2>1, <4>1, PathOfUpload, ContentAtOnce DEF RemovalInv
      <4>. QED
        BY <1>1, <3>1, <4>1, <4>2 DEF RemovalInv, GoodFiles
    <3>. QED
      BY <3>1, <3>2
  <2>3. CASE req'[r] = req[r]
    <3>1. DropsSidecar(r, u)
      BY <1>2, <2>1, <2>3 DEF DropsSidecar
    <3>2. CreateContent(u) /\ req[u].pc = "create_new"
      BY <1>1, <2>1, <3>1 DEF SidecarsLast
    <3>3. HoldsRecord(req[r]) /\ req[r].op = "delete" /\ req[r].rec.path = PathOf(req[u])
      BY <2>2, <3>1, <3>2 DEF DropsSidecar, HoldsRecord
    <3>. QED
      BY <1>1, <2>1, <3>2, <3>3, RecordUpload
  <2>4. CASE Step(r)
    <3>1. SameRequest(req[r], req'[r])
      BY <1>1, <2>4, StepsHandle DEF Handled, Moved
    <3>2. CASE r = u
      <4>1. req[u].op = "upload"
        BY <2>1 DEF Uploads
      <4>2. CreateContent(u) \/ PathOf(req[u]) \notin DOMAIN fs'
        BY <1>1, <1>2, <2>1, <2>4, <3>2, <4>1, ProtectedSteps
      <4>. QED
        BY <1>2, <2>1, <2>2, <3>2, <4>2
    <3>3. CASE r # u
      <4>1. req[r].op = "delete" /\ req'[r].rec.path = PathOf(req[u])
        BY <1>2, <2>1, <3>1, <3>3 DEF SameRequest
      <4>2. RemovePasteFile(r)
        BY <1>1, <1>2, <2>4, <4>1, UploadSteps, FindPastesDoes, IsFileStepDoes, HasPasswordDoes,
           OpenDoes, ConsumeDoes, DeleteMetadataDoes, DeletePasswordDoes, DeleteRowDoes
           DEF GoesOn, Turns, Holds
      <4>3. PICK p : p = req[r].rec.path
        OBVIOUS
      <4>4. Removes(p, [how |-> "delete", by |-> r]) /\ req'[r].rec = req[r].rec
        BY <1>1, <1>2, <4>2, <4>3, RemovePasteFileDoes DEF Turns, GoesOn, RecordKept
      <4>5. p \notin DOMAIN fs'
        BY <4>4, RemoveEffect
      <4>. QED
        BY <1>2, <2>1, <4>1, <4>3, <4>4, <4>5
    <3>. QED
      BY <3>2, <3>3
  <2>5. ~Arrived(r)
    <3>1. Arrived(r) => ~HoldsRecord(req'[r]) /\ (req'[r].op = "upload" => IsCreating(req'[r]))
      BY DEF Arrived
    <3>2. u = r => req'[r].op = "upload"
      BY <1>2 DEF Uploads
    <3>. QED
      BY <1>2, <3>1, <3>2 DEF HoldsRecord, IsCreating
  <2>6. ~Lost(r)
    BY <1>2 DEF Lost
  <2>. QED
    BY <1>1, <2>3, <2>4, <2>5, <2>6, RequestCases
<1>. QED
  BY <1>2 DEF SidecarsLast, DropsSidecar

(* Who opens a protected content was asked for its password.               *)
LEMMA OpenersKnowStep ==
  ASSUME PasswordState, [Next]_vars
  PROVE  OpenersKnow'
<1>1. /\ StateTypes /\ StorageState /\ SidecarsFirst /\ OpenersKnow
  BY DEF PasswordState, PasswordInv, StorageState
<1>2. ASSUME NEW r \in Requests, NEW u \in Uploads', req'[r].pc = "open",
             req'[r].rec.path = PathOf(req'[u]), IsProtected(req'[u]),
             PathOf(req'[u]) \in DOMAIN fs'
      PROVE  req'[r].knows
  <2>1. /\ u \in Uploads /\ u \in Requests /\ IsProtected(req[u])
        /\ PathOf(req'[u]) = PathOf(req[u])
        /\ PathOf(req[u]) \in DOMAIN fs \/ (CreateContent(u) /\ req[u].pc = "create_new")
    BY <1>2, ProtectedComes
  <2>2. CASE req'[r] = req[r]
    <3>1. HoldsRecord(req[r]) /\ req[r].op = "serve"
      <4>1. GoodRequest(req[r])
        BY <1>1 DEF StateTypes, RequestTypes
      <4>. QED
        BY <1>1, <1>2, <2>2, OpOfPc DEF HoldsRecord, StateTypes, RequestTypes
    <3>2. req[u].pc = "done"
      BY <1>1, <1>2, <2>1, <2>2, <3>1, RecordUpload
    <3>. QED
      BY <1>1, <1>2, <2>1, <2>2, <3>2 DEF OpenersKnow
  <2>3. CASE Step(r)
    <3>1. SameRequest(req[r], req'[r])
      BY <1>1, <2>3, StepsHandle DEF Handled, Moved
    <3>2. req[r].op # "upload"
      <4>1. GoodRequest(req'[r]) /\ req'[r].op = req[r].op
        BY <1>1, <2>3, <3>1, StepsHandle DEF Handled, SameRequest
      <4>. QED
        BY <1>2, <4>1 DEF GoodRequest, PcsOf
    <3>3. HasPassword(r)
      BY <1>1, <1>2, <2>3, <3>2, UploadSteps, FindPastesDoes, IsFileStepDoes, RemovePasteFileDoes,
         OpenDoes, ConsumeDoes, DeleteMetadataDoes, DeletePasswordDoes, DeleteRowDoes
         DEF GoesOn, Turns, Holds, Sees, Answers
    <3>4. /\ PasswordPath(req[r].rec.path) \in DOMAIN fs => req[r].knows
          /\ GoesOn(r, "open") /\ UNCHANGED fs
      BY <1>1, <1>2, <3>3, HasPasswordDoes DEF Turns
    <3>5. req[r].rec.path = PathOf(req[u])
      BY <1>2, <2>1, <3>4 DEF GoesOn, RecordKept
    <3>6. SidecarOf(req[u]) \in DOMAIN fs
      BY <1>1, <1>2, <2>1, <3>4 DEF SidecarsFirst
    <3>. QED
      BY <3>1, <3>4, <3>5, <3>6 DEF SidecarOf, SameRequest
  <2>4. ~Arrived(r)
    BY <1>2 DEF Arrived, HoldsRecord
  <2>5. ~Lost(r)
    BY <1>2 DEF Lost
  <2>. QED
    BY <1>1, <2>2, <2>3, <2>4, <2>5, RequestCases
<1>. QED
  BY <1>2 DEF OpenersKnow

(* What is opened at a path is a content of the upload it was stored for.  *)
LEMMA OpenedContent ==
  ASSUME StorageState, NEW r \in Requests, ViewBegins(r)
  PROVE  LET p == req[r].rec.path
             u == fs[p].by
         IN  /\ u \in Uploads /\ u \in Requests /\ fs[p].kind = "content"
             /\ ContentAt(p, req[u]) /\ GoodContent(p, u)
             /\ GetDir(req[r].rec.type) = GetDir(req[u].type)
<1>1. /\ StateTypes /\ DistinctNames /\ RemovalInv /\ SidecarNames /\ GoodFiles
  BY DEF StorageState, StorageInv, RemovalInv
<1>2. PICK p : p = req[r].rec.path
  OBVIOUS
<1>3. p \in DOMAIN fs /\ Suffix(p.file) # PasswordExt /\ p.dir = GetDir(req[r].rec.type)
  BY <1>2, RecordPath DEF ViewBegins
<1>4. /\ fs[p].kind = "content" /\ ContentAt(p, req[fs[p].by]) /\ fs[p].by \in Uploads
      /\ fs[p].by \in Requests
  BY <1>1, <1>3, ContentHere
<1>5. GoodContent(p, fs[p].by)
  BY <1>1, <1>3, <1>4 DEF GoodFiles
<1>. QED
  BY <1>2, <1>3, <1>4, <1>5 DEF ContentAt

(* Who has opened a protected content knows its password.                  *)
LEMMA ViewersKnowStep ==
  ASSUME PasswordState, [Next]_vars
  PROVE  ViewersKnow'
<1>1. /\ StateTypes /\ StorageState /\ OpenersKnow /\ ViewersKnow
  BY DEF PasswordState, PasswordInv, StorageState
<1> DEFINE Knows(r, u) == u \in Uploads /\ (IsProtected(req[u]) => req[r].knows)
<1>2. ASSUME NEW r \in Requests, Viewing(req'[r])
      PROVE  \E u \in Uploads : /\ req'[r].seen = u /\ Knows(r, u)
                                /\ req'[r].knows = req[r].knows
  <2>1. CASE req'[r] = req[r]
    BY <1>1, <1>2, <2>1 DEF ViewersKnow
  <2>2. CASE Step(r) /\ ViewGoesOn(r)
    <3>1. req'[r].knows = req[r].knows /\ req'[r].seen = req[r].seen /\ Viewing(req[r])
      BY <1>1, <2>2, StepsHandle DEF Handled, Moved, SameRequest, ViewGoesOn
    <3>. QED
      BY <1>1, <3>1 DEF ViewersKnow
  <2>3. CASE Step(r) /\ ViewBegins(r)
    <3>1. PICK p : p = req[r].rec.path
      OBVIOUS
    <3>2. PICK u : u = fs[p].by
      OBVIOUS
    <3>3. /\ req'[r].seen = u /\ req'[r].knows = req[r].knows /\ p \in DOMAIN fs
          /\ req[r].pc = "open"
      BY <1>1, <2>3, <3>1, <3>2, StepsHandle DEF Handled, Moved, SameRequest, ViewBegins
    <3>4. u \in Uploads /\ u \in Requests /\ GoodContent(p, u)
      BY <1>1, <2>3, <3>1, <3>2, OpenedContent
    <3>5. IsProtected(req[u]) => p = PathOf(req[u])
      BY <3>4 DEF GoodContent, IsProtected, OneshotTypes
    <3>6. IsProtected(req[u]) => req[r].knows
      BY <1>1, <3>1, <3>3, <3>4, <3>5 DEF OpenersKnow
    <3>. QED
      BY <3>3, <3>4, <3>6
  <2>. QED
    BY <1>1, <1>2, <2>1, <2>2, <2>3, ViewSteps
<1>3. ASSUME NEW r \in Requests, Viewing(req'[r])
      PROVE  req'[r].seen \in Uploads' /\ (IsProtected(req'[req'[r].seen]) => req'[r].knows)
  <2>1. PICK u \in Uploads : /\ req'[r].seen = u /\ Knows(r, u)
                             /\ req'[r].knows = req[r].knows
    BY <1>2, <1>3
  <2>2. u \in Uploads' /\ SameRequest(req[u], req'[u])
    BY <1>1, UploadsMove
  <2>. QED
    BY <2>1, <2>2 DEF IsProtected, SameRequest
<1>. QED
  BY <1>3 DEF ViewersKnow

(* The invariant about passwords.                                          *)
LEMMA PasswordInvHolds ==
  DistinctNames /\ ~Cleanup => (Spec => []PasswordInv)
<1> SUFFICES ASSUME DistinctNames, ~Cleanup  PROVE Spec => []PasswordInv
  OBVIOUS
<1>1. Init => PasswordInv
  <2> SUFFICES ASSUME Init  PROVE PasswordInv
    OBVIOUS
  <2>1. /\ Uploads = {} /\ \A r \in Requests : req[r].op = "none" /\ req[r].pc = "idle"
    BY DEF Init, NoRequest, Uploads
  <2>2. cleaner.pc = "idle"
    BY DEF Init, CleanerIdle
  <2>3. SidecarsFirst /\ SidecarsLast /\ OpenersKnow /\ ViewersKnow
    BY <2>1 DEF SidecarsFirst, SidecarsLast, OpenersKnow, ViewersKnow, Viewing
  <2>. QED
    BY <2>2, <2>3 DEF PasswordInv
<1>2. PasswordInv /\ StorageState /\ StorageState' /\ [Next]_vars => PasswordInv'
  <2> SUFFICES ASSUME PasswordInv, StorageState, StorageState', [Next]_vars  PROVE PasswordInv'
    OBVIOUS
  <2>1. PasswordState
    BY DEF PasswordState
  <2>2. SidecarsFirst' /\ SidecarsLast' /\ OpenersKnow' /\ ViewersKnow'
    BY <2>1, SidecarsFirstStep, SidecarsLastStep, OpenersKnowStep, ViewersKnowStep
  <2>3. cleaner'.pc = "idle"
    BY <2>1, NoCleanup
  <2>. QED
    BY <2>2, <2>3 DEF PasswordInv
<1>. QED
  BY <1>1, <1>2, StorageInvHolds, PTL DEF Spec

(* Protected content is shown only to those who know its password: the     *)
(* password is on disk before the content and after it, in every           *)
(* interleaving of uploads, roll-backs, deletions, downloads, crashes and  *)
(* starts.  It is assumed that no cleanup runs: its thread may remove the  *)
(* password of a paste that is just being created.                         *)
THEOREM ProtectedContentIsProtected ==
  DistinctNames /\ ~Cleanup => (Spec => []ProtectedNeedsPassword)
<1> SUFFICES ASSUME DistinctNames, ~Cleanup  PROVE Spec => []ProtectedNeedsPassword
  OBVIOUS
<1>1. PasswordInv => ProtectedNeedsPassword
  BY DEF PasswordInv, ViewersKnow, ProtectedNeedsPassword, Served, Viewing, IsProtected
<1>. QED
  BY <1>1, PasswordInvHolds, PTL

------------------------------------------------------------------------------
(* One-shot pastes: as long as the server does not crash, a one-shot paste *)
(* without an expiry is shown to whoever has renamed its file.             *)

IsLastingOneshot(x) == x.type \in OneshotTypes /\ x.expiry = None

(* The rows are those that uploads inserted.                               *)
RowsOwned == \A p \in Present(pastes) : pastes[p].owner # None

StoredPath(p) == \E v \in Uploads : SelfStored(v) /\ p = PathOf(req[v])

(* What downloads have looked up are paths of stored uploads, not of files *)
(* that were viewed.                                                       *)
LookupsStored ==
  \A r \in Requests :
    req[r].op = "serve" => \A x \in RecordsOf(req[r]) : StoredPath(x.path)

(* A content at its path was not viewed.                                   *)
Unviewed ==
  \A u \in Uploads :
    IsLastingOneshot(req[u]) /\ PathOf(req[u]) \in DOMAIN fs => fate[u] = None

(* A download is about to rename the file of the content it has opened, or *)
(* it was the one to rename it.                                            *)
FirstViewer(r, u) ==
  IF req[r].pc = "consume" THEN req[r].rec.path = PathOf(req[u])
  ELSE fate[u] = [how |-> "consumed", by |-> r]

Viewers ==
  \A r \in Requests :
    Viewing(req[r]) =>
      \E u \in Uploads :
        req[r].seen = u /\ (IsLastingOneshot(req[u]) => FirstViewer(r, u))

OneshotInv ==
  server = "up" /\ crashes = 0 /\ RowsOwned /\ LookupsStored /\ Unviewed /\ Viewers

OneshotState == MaxCrashes = 0 /\ StorageState /\ StorageState' /\ OneshotInv

(* The server stays up.                                                    *)
LEMMA NoCrash ==
  ASSUME OneshotState, [Next]_vars
  PROVE  server' = "up" /\ crashes' = 0 /\ ~Crash /\ ~Reconcile
<1>1. server = "up" /\ crashes = 0 /\ MaxCrashes = 0 /\ StateTypes
  BY DEF OneshotState, OneshotInv, StorageState
<1>2. ~Crash /\ ~Reconcile /\ ~ScanPastes
  BY <1>1 DEF Crash, Reconcile, ScanPastes
<1>3. ASSUME NEW r \in Requests, Step(r) \/ Arrival(r)  PROVE server' = "up" /\ crashes' = 0
  BY <1>1, <1>3, StepsRun, ArrivalsAreGood
<1>4. ASSUME CleanerStep \/ ConsumeExpired \/ Tick  PROVE server' = "up" /\ crashes' = 0
  BY <1>1, <1>4 DEF CleanerStep, ConsumeExpired, Tick
<1>5. CASE UNCHANGED vars
  BY <1>1, <1>2, <1>5 DEF vars
<1>. QED
  BY <1>2, <1>3, <1>4, <1>5 DEF Next

(* Rows keep their owners.                                                 *)
LEMMA RowsOwnedStep ==
  ASSUME OneshotState, [Next]_vars
  PROVE  RowsOwned'
<1>1. StateTypes /\ StorageState /\ RowsOwned /\ RowsFollow
  BY NoCrash, RowsLast DEF OneshotState, OneshotInv, StorageState
<1>2. ASSUME NEW p \in Present(pastes')  PROVE pastes'[p].owner # None
  <2>1. CASE p \in Present(pastes)
    BY <1>1, <1>2, <2>1 DEF RowsOwned, RowsFollow, SameRow
  <2>2. CASE p \notin Present(pastes)
    <3>1. PICK r \in Uploads : pastes'[p].owner = req[r].owner
      BY <1>1, <1>2, <2>2 DEF RowsFollow
    <3>. QED
      BY <1>1, <3>1, UploadsMove, NullAssumption
  <2>. QED
    BY <2>1, <2>2
<1>. QED
  BY <1>2 DEF RowsOwned, Present

(* A stored path stays one.                                                *)
LEMMA StoredPathLasts ==
  ASSUME StateTypes, [Next]_vars, NEW p, StoredPath(p)
  PROVE  StoredPath(p)'
<1>1. PICK v \in Uploads : SelfStored(v) /\ p = PathOf(req[v])
  BY DEF StoredPath
<1>2. v \in Uploads' /\ SelfStored(v)' /\ PathOf(req'[v]) = PathOf(req[v])
  BY <1>1, Lasting DEF Uploads
<1>. QED
  BY <1>1, <1>2 DEF StoredPath

(* Downloads look up what is stored.                                       *)
LEMMA LookupsStoredStep ==
  ASSUME OneshotState, [Next]_vars
  PROVE  LookupsStored'
<1>1. /\ StateTypes /\ StorageState /\ RowsOwned /\ LookupsStored /\ OwnedRows
  BY DEF OneshotState, OneshotInv, StorageState, StorageInv
<1>2. ASSUME NEW r \in Requests, req[r].op = "serve", Step(r), NEW x \in RecordsOf(req'[r])
      PROVE  StoredPath(x.path)
  <2>1. ASSUME RecordKept(r), HoldsRecord(req'[r]) => HoldsRecord(req[r])
        PROVE  StoredPath(x.path)
    BY <1>1, <1>2, <2>1 DEF LookupsStored, RecordsOf, RecordKept
  <2>2. CASE FindPastes(r)
    <3>1. /\ req'[r].pc = "is_file" /\ req[r].name \in UploadNames
          /\ req'[r].rows =
               {RecordAt(p) : p \in RowsByPublicName(pastes, req[r].name, Seconds(now))}
      BY <1>1, <2>2, FindPastesDoes
    <3>2. PICK p \in RowsByPublicName(pastes, req[r].name, Seconds(now)) : x = RecordAt(p)
      BY <1>2, <3>1 DEF RecordsOf, HoldsRecord
    <3>3. p \in Present(pastes) /\ x.path = p
      BY <3>2 DEF RowsByPublicName, RecordAt
    <3>4. PICK v \in Uploads : RowFrom(p, pastes[p], v)
      BY <1>1, <3>3 DEF RowsOwned, OwnedRows
    <3>. QED
      BY <3>3, <3>4 DEF RowFrom, StoredPath
  <2>3. CASE IsFileStep(r)
    <3>1. CASE \E status \in {"not_found", "forbidden"} : Turns(r, status, "done")
      BY <2>1, <3>1 DEF Turns, HoldsRecord
    <3>2. ASSUME NEW y \in req[r].rows, NEW pc, Holds(r, y, pc), req'[r].rows = {}
          PROVE  StoredPath(x.path)
      <4>1. x = y
        BY <1>2, <3>2 DEF RecordsOf, Holds
      <4>. QED
        BY <1>1, <1>2, <3>2, <4>1 DEF LookupsStored, RecordsOf
    <3>. QED
      BY <1>1, <2>3, <3>1, <3>2, IsFileStepDoes
  <2>4. CASE HasPassword(r)
    BY <1>1, <2>1, <2>4, HasPasswordDoes DEF GoesOn, Turns, HoldsRecord
  <2>5. CASE Open(r)
    BY <1>1, <2>1, <2>5, OpenDoes DEF Sees, Answers, Turns, HoldsRecord
  <2>6. CASE Consume(r)
    BY <1>1, <2>1, <2>6, ConsumeDoes DEF GoesOn, Turns, HoldsRecord
  <2>7. CASE DeleteMetadata(r)
    BY <1>1, <2>1, <2>7, DeleteMetadataDoes DEF Turns, HoldsRecord
  <2>8. ~(RemovePasteFile(r) \/ DeleteRow(r) \/ DeletePassword(r))
    BY <1>1, <1>2, RemovePasteFileDoes, DeleteRowDoes, DeletePasswordDoes
  <2>. QED
    BY <1>1, <1>2, <2>2, <2>3, <2>4, <2>5, <2>6, <2>7, <2>8, UploadSteps
<1>3. ASSUME NEW r \in Requests, req'[r].op = "serve", NEW x \in RecordsOf(req'[r])
      PROVE  StoredPath(x.path)
  <2>1. CASE req'[r] = req[r]
    BY <1>1, <1>3, <2>1 DEF LookupsStored
  <2>2. CASE Step(r)
    <3>1. req[r].op = "serve"
      BY <1>1, <1>3, <2>2, StepsHandle DEF Handled, Moved, SameRequest
    <3>. QED
      BY <1>2, <1>3, <2>2, <3>1
  <2>3. ~Arrived(r)
    BY <1>3 DEF Arrived, RecordsOf
  <2>4. ~Lost(r)
    BY NoCrash DEF Lost
  <2>. QED
    BY <1>1, <2>1, <2>2, <2>3, <2>4, RequestCases
<1>4. ASSUME NEW r \in Requests, req'[r].op = "serve", NEW x \in RecordsOf(req'[r])
      PROVE  StoredPath(x.path)'
  <2>1. PICK p : p = x.path
    OBVIOUS
  <2>2. StoredPath(p)'
    BY <1>1, <1>3, <1>4, <2>1, StoredPathLasts
  <2>. QED
    BY <2>1, <2>2
<1>. QED
  BY <1>4 DEF LookupsStored, RecordsOf, HoldsRecord

(* A viewed content does not lie where it lay.                             *)
LEMMA ConsumedElsewhere ==
  ASSUME NEW x, UploadRecord(x), x.expiry = None, NEW t \in Nat
  PROVE  ConsumedPath(x, t) # PathOf(x)
<1>1. x.name \in Seq(AnyParts) /\ t \in AnyParts
  BY NameType DEF UploadRecord, AnyParts
<1>2. Len(Append(x.name, t)) = Len(x.name) + 1 /\ Len(x.name) \in Nat
  BY <1>1, AppendParts
<1>3. Append(x.name, t) # x.name
  BY <1>2
<1>. QED
  BY <1>3 DEF ConsumedPath, PathOf, StoredName

(* What is at its path was not viewed.                                     *)
LEMMA UnviewedStep ==
  ASSUME OneshotState, [Next]_vars
  PROVE  Unviewed'
<1>1. /\ StateTypes /\ StorageState /\ StorageState' /\ Unviewed /\ DiskEvents /\ FreshFates
      /\ GoodFiles /\ GoodFates /\ DistinctNames /\ SidecarNames /\ RemovalInv
  BY EveryDiskEvent DEF OneshotState, OneshotInv, StorageState, StorageInv, RemovalInv
<1>2. ASSUME NEW u \in Uploads, IsLastingOneshot(req[u]), PathOf(req[u]) \in DOMAIN fs'
      PROVE  fate'[u] = None
  <2>1. u \in Requests /\ UploadRecord(req[u]) /\ now \in Nat
    BY <1>1, PathOfUpload DEF StateTypes
  <2>2. ConsumedPath(req[u], now) # PathOf(req[u])
    BY <1>2, <2>1, ConsumedElsewhere DEF IsLastingOneshot
  <2>3. fate[u] = None
    <3>1. CASE PathOf(req[u]) \in DOMAIN fs
      BY <1>1, <1>2, <3>1 DEF Unviewed
    <3>2. CASE PathOf(req[u]) \notin DOMAIN fs
      <4>1. req[u].pc = "create_new"
        BY <1>1, <1>2, <2>2, <3>2, ContentComes
      <4>. QED
        BY <1>1, <4>1 DEF FreshFates, IsCreating
    <3>. QED
      BY <3>1, <3>2
  <2>4. CASE NoContentMoves
    BY <2>3, <2>4 DEF NoContentMoves
  <2>5. ASSUME NEW r \in Uploads, ContentCreated(r)  PROVE fate'[u] = None
    BY <2>3, <2>5 DEF ContentCreated, Creates
  <2>6. ASSUME NEW how, NEW p \in DOMAIN fs, ContentRemoved(p, how) \/ ContentConsumed(p, how),
               fate'[u] # None
        PROVE  FALSE
    <3>1. fs[p].kind = "content" /\ fate' = Fated(p, how)
      BY <2>6 DEF ContentRemoved, ContentConsumed, Removes, Renames, RemoveFile
    <3>2. u = fs[p].by
      BY <1>1, <2>1, <2>3, <2>6, <3>1, FateEffect
    <3>3. p = PathOf(req[u])
      BY <1>1, <2>3, <3>1, <3>2 DEF GoodFiles, GoodContent
    <3>4. CASE ContentRemoved(p, how)
      <4>1. DOMAIN fs' = DOMAIN fs \ {p}
        BY <3>4, RemoveEffect DEF ContentRemoved
      <4>. QED
        BY <1>2, <3>3, <4>1
    <3>5. CASE ContentConsumed(p, how)
      <4>1. PICK q : q = ConsumedPath(req[u], now)
        OBVIOUS
      <4>2. Renames(p, q, how)
        BY <3>2, <3>5, <4>1 DEF ContentConsumed
      <4>3. DOMAIN fs' = (DOMAIN fs \ {p}) \cup {q}
        BY <4>2, RenameEffect
      <4>. QED
        BY <1>2, <2>2, <3>3, <4>1, <4>3
    <3>. QED
      BY <2>6, <3>4, <3>5
  <2>. QED
    BY <1>1, <2>4, <2>5, <2>6 DEF DiskEvents
<1>3. ASSUME NEW u \in Uploads', IsLastingOneshot(req'[u]), PathOf(req'[u]) \in DOMAIN fs'
      PROVE  fate'[u] = None
  <2>1. CASE u \in Uploads
    <3>1. SameRequest(req[u], req'[u])
      BY <1>1, <2>1, UploadsMove
    <3>2. IsLastingOneshot(req[u]) /\ PathOf(req'[u]) = PathOf(req[u])
      BY <1>3, <3>1, SameFiles DEF IsLastingOneshot
    <3>. QED
      BY <1>2, <1>3, <2>1, <3>2
  <2>2. CASE u \notin Uploads
    <3>1. u \in Requests /\ Arrived(u) /\ req'[u].op = "upload" /\ fs' = fs
      BY <1>1, <1>3, <2>2, UploadsMove DEF Arrived, Uploads
    <3>. QED
      BY <1>1, <1>3, <3>1, FreshPath
  <2>. QED
    BY <2>1, <2>2
<1>. QED
  BY <1>3 DEF Unviewed

(* Who opens a one-shot paste opens it at its path, and is to rename it.   *)
LEMMA OneshotOpened ==
  ASSUME OneshotState, NEW r \in Requests, ViewBegins(r),
         NEW u, u = fs[req[r].rec.path].by
  PROVE  /\ u \in Uploads /\ u \in Requests
         /\ req[r].rec.path = PathOf(req[u])
         /\ req[u].type \in OneshotTypes => req[r].rec.type \in OneshotTypes
<1>1. /\ StateTypes /\ StorageState /\ LookupsStored /\ DistinctNames /\ NamesDiffer
  BY DEF OneshotState, OneshotInv, StorageState, RemovalInv
<1>2. /\ u \in Uploads /\ u \in Requests /\ ContentAt(req[r].rec.path, req[u])
      /\ GetDir(req[r].rec.type) = GetDir(req[u].type)
  BY <1>1, OpenedContent
<1>3. req[r].rec \in RecordsOf(req[r]) /\ req[r].op = "serve"
  BY DEF ViewBegins, RecordsOf
<1>4. PICK v \in Uploads : req[r].rec.path = PathOf(req[v])
  BY <1>1, <1>3 DEF LookupsStored, StoredPath, SelfStored, Acknowledged, Uploads
<1>5. v = u
  BY <1>1, <1>2, <1>4, PathOfUpload, ContentAtOnce
<1>6. req[u].type \in OneshotTypes => req[r].rec.type \in OneshotTypes
  BY <1>2 DEF GetDir, OneshotTypes
<1>. QED
  BY <1>2, <1>4, <1>5, <1>6

(* A one-shot paste is renamed by one viewer.                              *)
LEMMA ViewersStep ==
  ASSUME OneshotState, [Next]_vars
  PROVE  Viewers'
<1>1. /\ StateTypes /\ StorageState /\ Viewers /\ Unviewed /\ RemovalInv /\ SidecarNames
      /\ DistinctNames /\ NamesDiffer
  BY DEF OneshotState, OneshotInv, StorageState, StorageInv, RemovalInv
<1> DEFINE First(r, u) ==
      IF req'[r].pc = "consume" THEN req'[r].rec.path = PathOf(req[u])
      ELSE fate'[u] = [how |-> "consumed", by |-> r]
<1>2. ASSUME NEW r \in Requests, Viewing(req'[r])
      PROVE  \E u \in Uploads : req'[r].seen = u /\ (IsLastingOneshot(req[u]) => First(r, u))
  <2>1. [how |-> "consumed", by |-> r] # None
    BY FateAssumption DEF Requests
  <2>2. CASE req'[r] = req[r]
    <3>1. PICK u \in Uploads : req[r].seen = u /\ (IsLastingOneshot(req[u]) => FirstViewer(r, u))
      BY <1>1, <1>2, <2>2 DEF Viewers
    <3>2. fate[u] = [how |-> "consumed", by |-> r] => fate'[u] = fate[u]
      BY <1>1, <2>1, <3>1, FatesLast DEF Uploads
    <3>. QED
      BY <2>2, <3>1, <3>2 DEF FirstViewer
  <2>3. CASE Step(r) /\ ViewGoesOn(r)
    <3>1. PICK u \in Uploads : req[r].seen = u /\ (IsLastingOneshot(req[u]) => FirstViewer(r, u))
      BY <1>1, <2>3 DEF Viewers, ViewGoesOn
    <3>2. req'[r].pc # "consume" /\ req'[r].seen = u
      BY <2>3, <3>1 DEF ViewGoesOn
    <3>3. ASSUME IsLastingOneshot(req[u])  PROVE fate'[u] = [how |-> "consumed", by |-> r]
      <4>1. CASE req[r].pc = "delete_metadata"
        BY <2>3, <3>1, <3>3, <4>1 DEF ViewGoesOn, FirstViewer
      <4>2. CASE req[r].pc = "consume"
        <5>1. PICK p : p = PathOf(req[u])
          OBVIOUS
        <5>2. req[r].rec.path = p
          BY <3>1, <3>3, <4>2, <5>1 DEF FirstViewer
        <5>3. PICK how : how = [how |-> "consumed", by |-> r]
          OBVIOUS
        <5>4. PICK q : Renames(p, q, how)
          BY <2>3, <4>2, <5>2, <5>3 DEF ViewGoesOn
        <5>5. p \in DOMAIN fs /\ fate' = Fated(p, how)
          BY <5>4, RenameEffect
        <5>6. /\ fs[p].kind = "content" /\ fs[p].by \in Uploads
              /\ ContentAt(p, req[fs[p].by])
          BY <1>1, <5>1, <5>5, PathOfUpload, ContentHere
        <5>7. fs[p].by = u
          BY <1>1, <3>1, <5>1, <5>6, PathOfUpload, ContentAtOnce
        <5>8. fate[u] = None
          BY <1>1, <3>1, <3>3, <5>1, <5>5 DEF Unviewed
        <5>9. fate'[u] = how
          BY <1>1, <5>5, <5>6, <5>7, <5>8, FateEffect
        <5>. QED
          BY <5>3, <5>9
      <4>. QED
        BY <2>3, <4>1, <4>2 DEF ViewGoesOn
    <3>. QED
      BY <3>2, <3>3
  <2>4. CASE Step(r) /\ ViewBegins(r)
    <3>1. PICK u : u = fs[req[r].rec.path].by
      OBVIOUS
    <3>2. /\ u \in Uploads /\ req[r].rec.path = PathOf(req[u])
          /\ req[u].type \in OneshotTypes => req[r].rec.type \in OneshotTypes
      BY <2>4, <3>1, OneshotOpened
    <3>3. /\ req'[r].seen = u /\ req'[r].rec = req[r].rec
          /\ req'[r].pc = "consume" <=> req[r].rec.type \in OneshotTypes
      BY <2>4, <3>1 DEF ViewBegins
    <3>. QED
      BY <3>2, <3>3 DEF IsLastingOneshot
  <2>. QED
    BY <1>1, <1>2, <2>2, <2>3, <2>4, ViewSteps
<1>3. ASSUME NEW r \in Requests, Viewing(req'[r])
      PROVE  \E u \in Uploads' :
               req'[r].seen = u /\ (IsLastingOneshot(req'[u]) => FirstViewer(r, u)')
  <2>1. PICK u \in Uploads : req'[r].seen = u /\ (IsLastingOneshot(req[u]) => First(r, u))
    BY <1>2, <1>3
  <2>2. u \in Uploads' /\ SameRequest(req[u], req'[u])
    BY <1>1, UploadsMove
  <2>3. IsLastingOneshot(req'[u]) => IsLastingOneshot(req[u])
    BY <2>2 DEF IsLastingOneshot, SameRequest
  <2>4. PathOf(req'[u]) = PathOf(req[u])
    BY <2>2, SameFiles
  <2>. QED
    BY <2>1, <2>2, <2>3, <2>4 DEF FirstViewer
<1>. QED
  BY <1>3 DEF Viewers

(* The invariant about one-shot pastes.                                    *)
LEMMA OneshotInvHolds ==
  DistinctNames /\ MaxCrashes = 0 => (Spec => []OneshotInv)
<1> SUFFICES ASSUME DistinctNames, MaxCrashes = 0  PROVE Spec => []OneshotInv
  OBVIOUS
<1>1. Init => OneshotInv
  <2> SUFFICES ASSUME Init  PROVE OneshotInv
    OBVIOUS
  <2>1. /\ Uploads = {} /\ \A r \in Requests : req[r].op = "none" /\ req[r].pc = "idle"
        /\ server = "up" /\ crashes = 0
    BY DEF Init, NoRequest, Uploads
  <2>2. Present(pastes) = {}
    BY DEF Init, Present
  <2>3. RowsOwned /\ LookupsStored /\ Unviewed /\ Viewers
    BY <2>1, <2>2 DEF RowsOwned, LookupsStored, Unviewed, Viewers, Viewing
  <2>. QED
    BY <2>1, <2>3 DEF OneshotInv
<1>2. OneshotInv /\ StorageState /\ StorageState' /\ [Next]_vars => OneshotInv'
  <2> SUFFICES ASSUME OneshotInv, StorageState, StorageState', [Next]_vars  PROVE OneshotInv'
    OBVIOUS
  <2>1. OneshotState
    BY DEF OneshotState
  <2>2. RowsOwned' /\ LookupsStored' /\ Unviewed' /\ Viewers'
    BY <2>1, RowsOwnedStep, LookupsStoredStep, UnviewedStep, ViewersStep
  <2>3. server' = "up" /\ crashes' = 0
    BY <2>1, NoCrash
  <2>. QED
    BY <2>2, <2>3 DEF OneshotInv
<1>. QED
  BY <1>1, <1>2, StorageInvHolds, PTL DEF Spec

(* A one-shot paste without an expiry is shown once, beside pastes that    *)
(* expire as well.  It is assumed that the server does not crash: the scan *)
(* may take the renamed file for a paste that has not expired.             *)
LastingOneshotsOnce ==
  \A g, h \in Requests :
    /\ Served(g) /\ Served(h) /\ req[g].seen = req[h].seen
    /\ req[req[g].seen].expiry = None /\ req[req[g].seen].type \in OneshotTypes
    => g = h

(* Of all downloads that have opened the file of such a paste, the one     *)
(* that renames it is answered; to the others the rename fails, and they   *)
(* answer with an error (serve in server.rs).                              *)
THEOREM LastingOneshotsAreViewedOnce ==
  DistinctNames /\ MaxCrashes = 0 => (Spec => []LastingOneshotsOnce)
<1> SUFFICES ASSUME DistinctNames, MaxCrashes = 0  PROVE Spec => []LastingOneshotsOnce
  OBVIOUS
<1>1. OneshotInv => LastingOneshotsOnce
  <2> SUFFICES ASSUME OneshotInv, NEW g \in Requests, NEW h \in Requests,
                      Served(g), Served(h), req[g].seen = req[h].seen,
                      IsLastingOneshot(req[req[g].seen])
               PROVE  g = h
    BY DEF LastingOneshotsOnce, IsLastingOneshot
  <2>1. PICK u : u = req[g].seen
    OBVIOUS
  <2>2. fate[u] = [how |-> "consumed", by |-> g]
    BY <2>1 DEF OneshotInv, Viewers, Served, Viewing, FirstViewer
  <2>3. fate[u] = [how |-> "consumed", by |-> h]
    BY <2>1 DEF OneshotInv, Viewers, Served, Viewing, FirstViewer
  <2>. QED
    BY <2>2, <2>3
<1>. QED
  BY <1>1, OneshotInvHolds, PTL

(* Where pastes do not expire, every one-shot paste is shown once.  One    *)
(* that expires may be viewed at the very millisecond of its stamp: it is  *)
(* renamed onto itself, and a second download finds it.                    *)
THEOREM OneshotsAreViewedOnce ==
  DistinctNames /\ MaxCrashes = 0 /\ Stamps = {} => (Spec => []OneshotIsViewedOnce)
<1> SUFFICES ASSUME DistinctNames, MaxCrashes = 0, Stamps = {}
             PROVE  Spec => []OneshotIsViewedOnce
  OBVIOUS
<1>1. StateTypes /\ OneshotInv /\ LastingOneshotsOnce => OneshotIsViewedOnce
  <2> SUFFICES ASSUME StateTypes, OneshotInv, LastingOneshotsOnce,
                      NEW g \in Requests, NEW h \in Requests,
                      Served(g), Served(h), req[g].seen = req[h].seen,
                      req[req[g].seen].type \in OneshotTypes
               PROVE  g = h
    BY DEF OneshotIsViewedOnce, OneshotTypes
  <2>1. req[g].seen \in Uploads
    BY DEF OneshotInv, Viewers, Served, Viewing
  <2>2. UploadRecord(req[req[g].seen])
    BY <2>1 DEF StateTypes, RequestTypes, GoodRequest, Uploads
  <2>3. req[req[g].seen].expiry = None
    BY <2>2 DEF UploadRecord, Expiries
  <2>. QED
    BY <2>3 DEF LastingOneshotsOnce
<1>2. DistinctNames /\ MaxCrashes = 0
  OBVIOUS
<1>. QED
  BY <1>1, <1>2, LastingOneshotsAreViewedOnce, OneshotInvHolds, TypesHold, PTL
==============================================================================
