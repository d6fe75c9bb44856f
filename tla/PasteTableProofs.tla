-------------------------- MODULE PasteTableProofs ---------------------------
(***************************************************************************)
(* Lemmas about the names of stored files and about what each transaction  *)
(* does to the table of pastes, for the proofs about the table on its own  *)
(* (PasteStoreProofs) and under the server (PasteServerProofs).            *)
(***************************************************************************)
EXTENDS PasteTable, TLAPS

(* The parts of the inductive invariant, as predicates of a table T and of *)
(* the current second s.                                                   *)

(* A row says of its file what a scan would read off the file's name.      *)
RowsMatchFiles(T) ==
  \A p \in Present(T) :
    /\ T[p].name = SplitExpiry(p.file).name
    /\ T[p].expires = SplitExpiry(p.file).expires

(* A link key is the public name of an owned paste.                        *)
LinksAreNames(T) ==
  \A p \in Present(T) :
    T[p].link # None => T[p].link = T[p].name /\ T[p].owner # None

(* Only expired pastes of an owner are without a link key.                 *)
OwnedAreLinked(T, s) ==
  \A p \in Present(T) :
    T[p].owner # None /\ T[p].link = None => ~Unexpired(T[p], s)

(* The unique index on link keys.                                          *)
LinksDiffer(T) ==
  \A p, q \in Present(T) : T[p].link # None /\ T[p].link = T[q].link => p = q

LinkInv(T, s) ==
  /\ RowsMatchFiles(T)
  /\ LinksAreNames(T)
  /\ OwnedAreLinked(T, s)
  /\ LinksDiffer(T)

------------------------------------------------------------------------------
(* Names and times.                                                        *)

(* The difference to the stamp is a natural number.                        *)
LEMMA ExpirySecondsType ==
  \A e \in Nat \cup {None} : ExpirySeconds(e) \in Nat \cup {None}
BY TicksPerSecAssumption DEF ExpirySeconds

(* The clock shows natural numbers of seconds.                             *)
LEMMA SecondsType == \A n \in Nat : Seconds(n) \in Nat
BY TicksPerSecAssumption DEF Seconds

(* A tick never takes the clock's second back.                             *)
LEMMA SecondsMonotone == \A m \in Nat : Seconds(m) <= Seconds(m + 1)
BY TicksPerSecAssumption DEF Seconds

(* What an upload writes into the name of a file is what a scan reads, if  *)
(* the public name does not end in a stamp itself.                         *)
LEMMA SplitStored ==
  ASSUME NEW n \in PublicNames, ~HasStamp(n), NEW e \in Expiries
  PROVE  /\ SplitExpiry(StoredName(n, e)).name = n
         /\ SplitExpiry(StoredName(n, e)).expires = ExpirySeconds(e)
<1>1. n \in Seq(Parts) /\ n # <<>> /\ ~HasStamp(n)
  BY NamesAssumption
<1>2. CASE e = None
  BY <1>1, <1>2 DEF SplitExpiry, StoredName, ExpirySeconds
<1>3. CASE e # None
  <2>1. e \in NumericParts /\ e \in Parts /\ e >= MinStamp
    BY <1>3, PartsAssumption DEF Expiries, Stamps
  <2> DEFINE f == Append(n, e)
  <2>2. f \in Seq(Parts) /\ Len(f) = Len(n) + 1 /\ f[Len(f)] = e
    BY <1>1, <2>1
  <2>3. Len(n) \in Nat /\ Len(n) > 0
    BY <1>1
  <2>4. HasStamp(f)
    BY <2>1, <2>2, <2>3 DEF HasStamp, Numeric, Suffix
  <2>5. SubSeq(f, 1, Len(f) - 1) = n
    BY <1>1, <2>1, <2>2, <2>3
  <2>. QED
    BY <1>3, <2>2, <2>4, <2>5 DEF SplitExpiry, StoredName, WithoutSuffix, Suffix
<1>. QED
  BY <1>2, <1>3

(* What a scan makes of a name is a public name and an expiry.             *)
LEMMA SplitType ==
  \A f \in StoredNames :
    /\ SplitExpiry(f).name \in PublicNames
    /\ SplitExpiry(f).expires \in Nat \cup {None}
<1> SUFFICES ASSUME NEW f \in StoredNames
             PROVE  /\ SplitExpiry(f).name \in PublicNames
                    /\ SplitExpiry(f).expires \in Nat \cup {None}
  OBVIOUS
<1>1. HasStamp(f) => Suffix(f) \in Nat
  BY PartsAssumption DEF HasStamp, Numeric, Suffix
<1>2. SplitExpiry(f).expires \in Nat \cup {None}
  BY <1>1, ExpirySecondsType DEF SplitExpiry
<1>. QED
  BY <1>2, ScanAssumption

(* An upload's file has a path of the directory.                           *)
LEMMA PathOfType == \A new \in NewPastes : PathOf(new) \in Paths
BY DEF NewPastes, PathOf, Paths, StoredNames

(* A directory stands for a type of paste.                                 *)
LEMMA TypeOfDirType == \A p \in Paths : TypeOfDir(p.dir) \in PasteTypes
BY TypesAssumption DEF Paths, TypeOfDir, GetDir, PasteTypes

(* An upload is stored as a row of the schema.                             *)
LEMMA RowOfType ==
  ASSUME NEW new \in NewPastes, NEW g \in Nat,
         NEW link \in PublicNames \cup {None}, NEW dedup \in DedupKeys \cup {None}
  PROVE  RowOf(new, link, dedup, g) \in Rows
<1>1. ExpirySeconds(new.expiry) \in Nat \cup {None}
  BY ExpirySecondsType, PartsAssumption DEF NewPastes, Expiries, Stamps
<1>. QED
  BY <1>1, TypesAssumption DEF RowOf, Rows, NewPastes

------------------------------------------------------------------------------
(* What each transaction does to the table.                                *)

(* The columns of the row an upload inserts.                               *)
LEMMA RowFields ==
  ASSUME NEW T \in Tables, NEW p \in Present(T)
  PROVE  /\ p \in Paths
         /\ T[p] \in Rows
BY DEF Tables, Present

(* Clearing expired links changes nothing but links of expired rows.       *)
LEMMA ClearExpiredLinkEffect ==
  ASSUME NEW T \in Tables, NEW k, NEW t,
         NEW p \in Present(T)
  PROVE  LET row == ClearExpiredLink(T, k, t)[p] IN
           /\ row \in Rows
           /\ \A f \in {"gen", "owner", "name", "type", "expires", "hash", "dedup"} :
                row[f] = T[p][f]
           /\ IF T[p].link = k /\ ~Unexpired(T[p], t)
              THEN row.link = None ELSE row.link = T[p].link
<1>1. T[p] \in Rows /\ p \in Paths /\ T[p] # NoRow
  BY DEF Tables, Present
<1>2. CASE T[p].link = k /\ ~Unexpired(T[p], t)
  <2>1. ClearExpiredLink(T, k, t)[p] = [T[p] EXCEPT !.link = None]
    BY <1>1, <1>2 DEF ClearExpiredLink
  <2>. QED
    BY <1>1, <1>2, <2>1 DEF Rows
<1>3. CASE ~(T[p].link = k /\ ~Unexpired(T[p], t))
  BY <1>1, <1>3 DEF ClearExpiredLink
<1>. QED
  BY <1>2, <1>3

(* Clearing expired links leaves a table.                                  *)
LEMMA ClearExpiredLinkType ==
  ASSUME NEW T \in Tables, NEW k, NEW t
  PROVE  /\ ClearExpiredLink(T, k, t) \in Tables
         /\ Present(ClearExpiredLink(T, k, t)) = Present(T)
<1>1. ASSUME NEW p \in Paths, T[p] = NoRow
      PROVE  ClearExpiredLink(T, k, t)[p] = NoRow
  BY <1>1 DEF ClearExpiredLink
<1>2. ASSUME NEW p \in Present(T)
      PROVE  ClearExpiredLink(T, k, t)[p] \in Rows
  BY ClearExpiredLinkEffect
<1>3. DOMAIN ClearExpiredLink(T, k, t) = Paths
  BY DEF ClearExpiredLink
<1>4. ClearExpiredLink(T, k, t) = [p \in Paths |-> ClearExpiredLink(T, k, t)[p]]
  BY DEF ClearExpiredLink
<1>. QED
  BY <1>1, <1>2, <1>3, <1>4, NoRowAssumption DEF Present, Tables

(* Clearing expired links keeps the link keys in order.                    *)
LEMMA ClearExpiredLinkInv ==
  ASSUME NEW T \in Tables, NEW s \in Nat, NEW t \in 0..s, NEW k, LinkInv(T, s)
  PROVE  LinkInv(ClearExpiredLink(T, k, t), s)
<1> DEFINE C == ClearExpiredLink(T, k, t)
<1>1. Present(C) = Present(T)
  BY ClearExpiredLinkType
<1>2. \A p \in Present(T) :
        /\ C[p].name = T[p].name
        /\ C[p].owner = T[p].owner
        /\ C[p].expires = T[p].expires
        /\ C[p].link \in {T[p].link, None}
        /\ C[p].link = T[p].link \/ ~Unexpired(T[p], t)
  BY ClearExpiredLinkEffect
<1>3. \A p \in Present(T) : T[p].expires \in Nat \cup {None}
  BY DEF Tables, Present, Rows
<1>4. \A p \in Present(T) : ~Unexpired(T[p], t) => ~Unexpired(C[p], s)
  BY <1>2, <1>3 DEF Unexpired
<1>5. \A p \in Present(T) : ~Unexpired(T[p], s) => ~Unexpired(C[p], s)
  BY <1>2 DEF Unexpired
<1> HIDE DEF C
<1>6. RowsMatchFiles(C)
  BY <1>1, <1>2 DEF LinkInv, RowsMatchFiles
<1>7. LinksAreNames(C)
  BY <1>1, <1>2 DEF LinkInv, LinksAreNames
<1>8. OwnedAreLinked(C, s)
  BY <1>1, <1>2, <1>4, <1>5 DEF LinkInv, OwnedAreLinked
<1>9. LinksDiffer(C)
  BY <1>1, <1>2 DEF LinkInv, LinksDiffer
<1>. QED
  BY <1>6, <1>7, <1>8, <1>9 DEF LinkInv, C

(* The row an upload inserts, if the unique indexes let it in, takes a     *)
(* path of its own.                                                        *)
LEMMA InsertRowCases ==
  ASSUME NEW T, NEW before, NEW new, NEW row, NEW t
  PROVE  LET result == InsertRow(T, before, new, row, t) IN
           \/ /\ ~UniqueViolation(T, PathOf(new), row)
              /\ result.table = [T EXCEPT ![PathOf(new)] = row]
           \/ result.table = before
BY DEF InsertRow, Refused

(* Inserting a row leaves a table.                                         *)
LEMMA InsertRowType ==
  ASSUME NEW T \in Tables, NEW before \in Tables, NEW new \in NewPastes,
         NEW row \in Rows, NEW t
  PROVE  InsertRow(T, before, new, row, t).table \in Tables
<1>1. [T EXCEPT ![PathOf(new)] = row] \in Tables
  BY PathOfType DEF Tables
<1>. QED
  BY <1>1, InsertRowCases

(* A row inserted for a free link keeps the link keys in order.            *)
LEMMA InsertRowInv ==
  ASSUME CleanNames,
         NEW T \in Tables, NEW before \in Tables, NEW new \in NewPastes,
         NEW dedup \in DedupKeys \cup {None}, NEW g \in Nat,
         NEW s \in Nat, NEW t \in 0..s,
         LinkInv(T, s), LinkInv(before, s)
  PROVE  LET row == RowOf(new, ActivePublicLinkKey(new, t), dedup, g)
         IN  LinkInv(InsertRow(T, before, new, row, t).table, s)
<1> DEFINE link == ActivePublicLinkKey(new, t)
           row == RowOf(new, link, dedup, g)
           p0 == PathOf(new)
           U == [T EXCEPT ![p0] = row]
<1>1. /\ row.name = new.name /\ row.owner = new.owner /\ row.link = link
      /\ row.expires = ExpirySeconds(new.expiry)
  BY DEF RowOf
<1>2. new.name \in PublicNames /\ new.owner \in Owners /\ new.expiry \in Expiries
  BY DEF NewPastes
<1>3. p0 \in Paths /\ p0.file = StoredName(new.name, new.expiry)
  BY PathOfType DEF PathOf
<1>4. row.name = SplitExpiry(p0.file).name /\ row.expires = SplitExpiry(p0.file).expires
  BY <1>1, <1>2, <1>3, SplitStored DEF CleanNames
<1>5. link \in {new.name, None}
  BY DEF ActivePublicLinkKey
<1>6. row.link = None => ~Unexpired(row, s)
  <2>1. new.name # None
    BY <1>2, NullAssumption
  <2>2. link = None => new.expiry # None /\ ~(ExpirySeconds(new.expiry) > t)
    BY <2>1 DEF ActivePublicLinkKey
  <2>3. new.expiry # None => new.expiry \in Nat
    BY <1>2, PartsAssumption DEF Expiries, Stamps
  <2>4. new.expiry # None =>
          ExpirySeconds(new.expiry) \in Nat /\ ExpirySeconds(new.expiry) # None
    BY <2>3, NoneAssumption, TicksPerSecAssumption DEF ExpirySeconds
  <2>. QED
    BY <1>1, <2>2, <2>4 DEF Unexpired
<1>7. ASSUME ~UniqueViolation(T, p0, row)
      PROVE  LinkInv(U, s)
  <2>1. \A p \in Present(U) : (p = p0 /\ U[p] = row) \/ (p \in Present(T) /\ U[p] = T[p])
    BY <1>3 DEF Present, Tables
  <2>2. \A p \in Present(T) : row.link # None => T[p].link # row.link
    BY <1>7 DEF UniqueViolation
  <2> HIDE DEF U, row
  <2>3. RowsMatchFiles(U)
    BY <1>4, <2>1 DEF LinkInv, RowsMatchFiles
  <2>4. LinksAreNames(U)
    BY <1>1, <1>2, <1>5, <2>1, NullAssumption DEF LinkInv, LinksAreNames
  <2>5. OwnedAreLinked(U, s)
    BY <1>6, <2>1 DEF LinkInv, OwnedAreLinked
  <2>6. LinksDiffer(U)
    BY <2>1, <2>2 DEF LinkInv, LinksDiffer
  <2>. QED
    BY <2>3, <2>4, <2>5, <2>6 DEF LinkInv
<1>. QED
  BY <1>7, InsertRowCases

(* insert_paste leaves a table.                                            *)
LEMMA InsertPasteType ==
  ASSUME NEW T \in Tables, NEW new \in NewPastes, NEW g \in Nat, NEW t
  PROVE  /\ InsertPaste(T, new, g, t).table \in Tables
         /\ MayDeduplicate(new) =>
              InsertPasteDeduplicated(T, new, g, t).table \in Tables
<1>1. \A k : ClearExpiredLink(T, k, t) \in Tables
  BY ClearExpiredLinkType
<1>2. new.name \in PublicNames /\ ActivePublicLinkKey(new, t) \in PublicNames \cup {None}
  BY DEF NewPastes, ActivePublicLinkKey
<1>3. RowOf(new, ActivePublicLinkKey(new, t), None, g) \in Rows
  BY <1>2, RowOfType
<1>4. InsertPaste(T, new, g, t).table \in Tables
  <2> DEFINE link == ActivePublicLinkKey(new, t)
             cleared == IF link = None THEN T ELSE ClearExpiredLink(T, link, t)
             row == RowOf(new, link, None, g)
  <2>1. cleared \in Tables
    BY <1>1
  <2>2. InsertRow(cleared, T, new, row, t).table \in Tables
    BY <1>3, <2>1, InsertRowType
  <2>. QED
    BY <2>2 DEF InsertPaste, Refused
<1>5. ASSUME MayDeduplicate(new)
      PROVE  InsertPasteDeduplicated(T, new, g, t).table \in Tables
  <2> DEFINE cleared == ClearExpiredLink(T, new.name, t)
             row == RowOf(new, new.name, DedupKey(new), g)
  <2>1. DedupKey(new) \in DedupKeys
    BY <1>5 DEF MayDeduplicate, DedupKey, DedupKeys, CategoryOf, NewPastes
  <2>2. row \in Rows
    BY <1>2, <2>1, RowOfType
  <2>3. cleared \in Tables
    BY <1>1
  <2>4. InsertRow(cleared, T, new, row, t).table \in Tables
    BY <2>2, <2>3, InsertRowType
  <2>. QED
    BY <2>3, <2>4 DEF InsertPasteDeduplicated, Refused
<1>. QED
  BY <1>4, <1>5

(* insert_paste keeps the link keys in order.                              *)
LEMMA InsertPasteInv ==
  ASSUME CleanNames,
         NEW T \in Tables, NEW new \in NewPastes, NEW g \in Nat,
         NEW s \in Nat, NEW t \in 0..s, LinkInv(T, s)
  PROVE  LinkInv(InsertPaste(T, new, g, t).table, s)
<1> DEFINE link == ActivePublicLinkKey(new, t)
           cleared == IF link = None THEN T ELSE ClearExpiredLink(T, link, t)
           row == RowOf(new, link, None, g)
<1>1. cleared \in Tables
  BY ClearExpiredLinkType
<1>2. LinkInv(cleared, s)
  BY ClearExpiredLinkInv
<1>3. LinkInv(InsertRow(cleared, T, new, row, t).table, s)
  BY <1>1, <1>2, InsertRowInv
<1>. QED
  BY <1>3 DEF InsertPaste, Refused

(* insert_paste_deduplicated keeps the link keys in order.                 *)
LEMMA InsertPasteDeduplicatedInv ==
  ASSUME CleanNames,
         NEW T \in Tables, NEW new \in NewPastes, NEW g \in Nat,
         NEW s \in Nat, NEW t \in 0..s, LinkInv(T, s), MayDeduplicate(new)
  PROVE  LinkInv(InsertPasteDeduplicated(T, new, g, t).table, s)
<1> DEFINE cleared == ClearExpiredLink(T, new.name, t)
           row == RowOf(new, new.name, DedupKey(new), g)
<1>1. cleared \in Tables
  BY ClearExpiredLinkType
<1>2. LinkInv(cleared, s)
  BY ClearExpiredLinkInv
<1>3. DedupKey(new) \in DedupKeys
  BY DEF MayDeduplicate, DedupKey, DedupKeys, CategoryOf, NewPastes
<1>4. ActivePublicLinkKey(new, t) = new.name
  BY DEF ActivePublicLinkKey, MayDeduplicate
<1>5. LinkInv(InsertRow(cleared, T, new, row, t).table, s)
  BY <1>1, <1>2, <1>3, <1>4, InsertRowInv
<1>. QED
  BY <1>2, <1>5 DEF InsertPasteDeduplicated, Refused

(* A deletion takes rows away and changes none.                            *)
LEMMA DeletionInv ==
  ASSUME NEW T \in Tables, NEW p \in Paths, NEW s
  PROVE  /\ [T EXCEPT ![p] = NoRow] \in Tables
         /\ LinkInv(T, s) => LinkInv([T EXCEPT ![p] = NoRow], s)
<1> DEFINE U == [T EXCEPT ![p] = NoRow]
<1>1. U \in Tables
  BY DEF Tables
<1>2. \A q \in Present(U) : q \in Present(T) /\ U[q] = T[q]
  BY DEF Present, Tables
<1> HIDE DEF U
<1>3. LinkInv(T, s) => LinkInv(U, s)
  BY <1>2 DEF LinkInv, RowsMatchFiles, LinksAreNames, OwnedAreLinked, LinksDiffer
<1>. QED
  BY <1>1, <1>3 DEF U

(* A reconciliation inserts rows that have no owner and no link, and the   *)
(* rows it updates keep theirs.                                            *)
LEMMA ReconcileEffect ==
  ASSUME NEW T \in Tables, NEW scanned \in SUBSET Paths,
         NEW found \in [scanned -> Hashes], NEW kept \in SUBSET Paths, NEW g \in Nat,
         NEW p \in Paths
  PROVE  LET row == ReconcilePastes(T, found, kept, g)[p] IN
           \/ row = NoRow
           \/ row = T[p] /\ p \in Present(T)
           \/ /\ row \in Rows
              /\ row.name = SplitExpiry(p.file).name
              /\ row.expires = SplitExpiry(p.file).expires
              /\ row.type = TypeOfDir(p.dir)
              /\ \/ p \notin Present(T) /\ row.owner = None /\ row.link = None
                                         /\ row.dedup = None
                 \/ p \in Present(T) /\ row.owner = T[p].owner /\ row.link = T[p].link
                                      /\ row.dedup = T[p].dedup
<1>1. CASE p \notin scanned
  BY <1>1 DEF ReconcilePastes, Present
<1>2. CASE p \in scanned
  <2>1. /\ SplitExpiry(p.file).name \in PublicNames
        /\ SplitExpiry(p.file).expires \in Nat \cup {None}
    BY SplitType DEF Paths
  <2>2. TypeOfDir(p.dir) \in PasteTypes /\ found[p] \in Hashes
    BY <1>2, TypeOfDirType
  <2>3. CASE T[p] = NoRow
    <3>1. ReconcilePastes(T, found, kept, g)[p] = ScannedRow(p, found[p], g)
      BY <1>2, <2>3 DEF ReconcilePastes
    <3>2. ScannedRow(p, found[p], g) \in Rows
      BY <2>1, <2>2 DEF ScannedRow, Rows
    <3>. QED
      BY <2>3, <3>1, <3>2 DEF ScannedRow, Present
  <2>4. CASE T[p] # NoRow
    <3>1. ReconcilePastes(T, found, kept, g)[p] = Rescanned(T[p], p, found[p])
      BY <1>2, <2>4 DEF ReconcilePastes
    <3>2. T[p] \in Rows
      BY <2>4 DEF Tables
    <3>3. Rescanned(T[p], p, found[p]) \in Rows
      BY <2>1, <2>2, <3>2 DEF Rescanned, Rows
    <3>. QED
      BY <2>4, <3>1, <3>2, <3>3 DEF Rescanned, Rows, Present
  <2>. QED
    BY <2>3, <2>4
<1>. QED
  BY <1>1, <1>2

(* A reconciliation leaves a table.                                        *)
LEMMA ReconcileType ==
  ASSUME NEW T \in Tables, NEW scanned \in SUBSET Paths,
         NEW found \in [scanned -> Hashes], NEW kept \in SUBSET Paths, NEW g \in Nat
  PROVE  ReconcilePastes(T, found, kept, g) \in Tables
<1> DEFINE R == ReconcilePastes(T, found, kept, g)
<1>1. \A p \in Paths : R[p] \in Rows \cup {NoRow}
  BY ReconcileEffect DEF Tables
<1>2. R = [p \in Paths |-> R[p]]
  BY DEF ReconcilePastes
<1>. QED
  BY <1>1, <1>2 DEF Tables

(* A reconciliation keeps the link keys in order: it renames no paste.     *)
LEMMA ReconcileInv ==
  ASSUME NEW T \in Tables, NEW scanned \in SUBSET Paths,
         NEW found \in [scanned -> Hashes], NEW kept \in SUBSET Paths, NEW g \in Nat,
         NEW s, LinkInv(T, s)
  PROVE  LinkInv(ReconcilePastes(T, found, kept, g), s)
<1> DEFINE R == ReconcilePastes(T, found, kept, g)
<1>1. \A p \in Present(R) :
        /\ R[p].name = SplitExpiry(p.file).name
        /\ R[p].expires = SplitExpiry(p.file).expires
        /\ \/ p \notin Present(T) /\ R[p].owner = None /\ R[p].link = None
           \/ p \in Present(T) /\ R[p].owner = T[p].owner /\ R[p].link = T[p].link
  BY ReconcileEffect DEF Present, LinkInv, RowsMatchFiles
<1>2. \A p \in Present(R) \cap Present(T) :
        R[p].name = T[p].name /\ R[p].expires = T[p].expires
  BY <1>1 DEF LinkInv, RowsMatchFiles
<1> HIDE DEF R
<1>3. RowsMatchFiles(R)
  BY <1>1 DEF RowsMatchFiles
<1>4. LinksAreNames(R)
  BY <1>1, <1>2 DEF LinkInv, LinksAreNames
<1>5. OwnedAreLinked(R, s)
  BY <1>1, <1>2 DEF LinkInv, OwnedAreLinked, Unexpired
<1>6. LinksDiffer(R)
  BY <1>1 DEF LinkInv, LinksDiffer
<1>. QED
  BY <1>3, <1>4, <1>5, <1>6 DEF LinkInv, R

------------------------------------------------------------------------------
(* Ownership.                                                              *)

OwnersKept(T, U) ==
  \A p \in Paths : T[p] # NoRow /\ U[p] # NoRow => U[p].owner = T[p].owner

(* Clearing expired links changes no owner.                                *)
LEMMA ClearExpiredLinkOwners ==
  ASSUME NEW T \in Tables, NEW k, NEW t
  PROVE  OwnersKept(T, ClearExpiredLink(T, k, t))
BY ClearExpiredLinkEffect DEF OwnersKept, Present

(* The unique index on storage_path keeps an insertion off another's row.  *)
LEMMA InsertRowOwners ==
  ASSUME NEW T \in Tables, NEW before \in Tables, NEW new \in NewPastes, NEW row, NEW t,
         OwnersKept(before, T), Present(T) = Present(before)
  PROVE  OwnersKept(before, InsertRow(T, before, new, row, t).table)
<1>1. CASE InsertRow(T, before, new, row, t).table = before
  BY <1>1 DEF OwnersKept
<1>2. CASE /\ ~UniqueViolation(T, PathOf(new), row)
           /\ InsertRow(T, before, new, row, t).table = [T EXCEPT ![PathOf(new)] = row]
  <2>1. T[PathOf(new)] = NoRow /\ PathOf(new) \in Paths
    BY <1>2, PathOfType DEF UniqueViolation
  <2>. QED
    BY <1>2, <2>1 DEF OwnersKept, Tables, Present
<1>. QED
  BY <1>1, <1>2, InsertRowCases

(* insert_paste changes the owner of no row.                               *)
LEMMA InsertPasteOwners ==
  ASSUME NEW T \in Tables, NEW new \in NewPastes, NEW g, NEW t
  PROVE  /\ OwnersKept(T, InsertPaste(T, new, g, t).table)
         /\ OwnersKept(T, InsertPasteDeduplicated(T, new, g, t).table)
<1>1. OwnersKept(T, T)
  BY DEF OwnersKept
<1>2. ASSUME NEW k
      PROVE  /\ ClearExpiredLink(T, k, t) \in Tables
             /\ OwnersKept(T, ClearExpiredLink(T, k, t))
             /\ Present(ClearExpiredLink(T, k, t)) = Present(T)
  BY ClearExpiredLinkType, ClearExpiredLinkOwners
<1>3. OwnersKept(T, InsertPaste(T, new, g, t).table)
  <2> DEFINE link == ActivePublicLinkKey(new, t)
             cleared == IF link = None THEN T ELSE ClearExpiredLink(T, link, t)
  <2>1. /\ cleared \in Tables
        /\ OwnersKept(T, cleared)
        /\ Present(cleared) = Present(T)
    BY <1>1, <1>2
  <2>2. OwnersKept(T, InsertRow(cleared, T, new, RowOf(new, link, None, g), t).table)
    BY <2>1, InsertRowOwners
  <2>. QED
    BY <1>1, <2>2 DEF InsertPaste, Refused
<1>4. OwnersKept(T, InsertPasteDeduplicated(T, new, g, t).table)
  <2> DEFINE cleared == ClearExpiredLink(T, new.name, t)
             row == RowOf(new, new.name, DedupKey(new), g)
  <2>1. OwnersKept(T, InsertRow(cleared, T, new, row, t).table)
    BY <1>2, InsertRowOwners
  <2>. QED
    BY <1>1, <1>2, <2>1 DEF InsertPasteDeduplicated, Refused
<1>. QED
  BY <1>3, <1>4

------------------------------------------------------------------------------
(* Deduplication.                                                          *)

(* A row with a deduplication key has an owner, does not expire, and is of *)
(* the category of its key, also in the eyes of a scan of its directory.   *)
KeyInv(T) ==
  \A p \in Present(T) :
    T[p].dedup # None =>
      /\ T[p].owner # None
      /\ T[p].expires = None
      /\ CategoryOf(T[p].type) = T[p].dedup[1]
      /\ CategoryOf(TypeOfDir(p.dir)) = T[p].dedup[1]

(* A scan files a deduplicated paste under the category it had.            *)
LEMMA SameCategory ==
  ASSUME NEW new \in NewPastes, CategoryOf(new.type) # None
  PROVE  CategoryOf(TypeOfDir(PathOf(new).dir)) = CategoryOf(new.type)
<1>1. new.type \in {"file", "remote_file", "url"}
  BY TypesAssumption DEF NewPastes, CategoryOf, PasteTypes
<1>. QED
  BY <1>1 DEF PathOf, GetDir, TypeOfDir, CategoryOf

(* Clearing expired links keeps the deduplication keys in order.           *)
LEMMA ClearExpiredLinkKeys ==
  ASSUME NEW T \in Tables, NEW k, NEW t, KeyInv(T)
  PROVE  KeyInv(ClearExpiredLink(T, k, t))
<1>1. Present(ClearExpiredLink(T, k, t)) = Present(T)
  BY ClearExpiredLinkType
<1>. QED
  BY <1>1, ClearExpiredLinkEffect DEF KeyInv

(* Inserting a row keeps the deduplication keys in order.                  *)
LEMMA InsertRowKeys ==
  ASSUME NEW T \in Tables, NEW before \in Tables, NEW new \in NewPastes, NEW t,
         NEW row \in Rows, KeyInv(T), KeyInv(before),
         row.dedup # None => /\ row.owner # None
                             /\ row.expires = None
                             /\ CategoryOf(row.type) = row.dedup[1]
                             /\ CategoryOf(TypeOfDir(PathOf(new).dir)) = row.dedup[1]
  PROVE  KeyInv(InsertRow(T, before, new, row, t).table)
<1>1. \A p \in Present([T EXCEPT ![PathOf(new)] = row]) :
        \/ p = PathOf(new) /\ [T EXCEPT ![PathOf(new)] = row][p] = row
        \/ p \in Present(T) /\ [T EXCEPT ![PathOf(new)] = row][p] = T[p]
  BY PathOfType DEF Present, Tables
<1>2. KeyInv([T EXCEPT ![PathOf(new)] = row])
  BY <1>1 DEF KeyInv
<1>. QED
  BY <1>2, InsertRowCases

(* insert_paste keeps the deduplication keys in order.                     *)
LEMMA InsertPasteKeys ==
  ASSUME NEW T \in Tables, NEW new \in NewPastes, NEW g \in Nat, NEW t, KeyInv(T)
  PROVE  /\ KeyInv(InsertPaste(T, new, g, t).table)
         /\ MayDeduplicate(new) => KeyInv(InsertPasteDeduplicated(T, new, g, t).table)
<1>1. ASSUME NEW k
      PROVE  ClearExpiredLink(T, k, t) \in Tables /\ KeyInv(ClearExpiredLink(T, k, t))
  BY ClearExpiredLinkType, ClearExpiredLinkKeys
<1>2. KeyInv(InsertPaste(T, new, g, t).table)
  <2> DEFINE link == ActivePublicLinkKey(new, t)
             cleared == IF link = None THEN T ELSE ClearExpiredLink(T, link, t)
             row == RowOf(new, link, None, g)
  <2>1. cleared \in Tables /\ KeyInv(cleared)
    BY <1>1
  <2>2. link \in PublicNames \cup {None}
    BY DEF NewPastes, ActivePublicLinkKey
  <2>3. row \in Rows /\ row.dedup = None
    BY <2>2, RowOfType DEF RowOf
  <2>4. KeyInv(InsertRow(cleared, T, new, row, t).table)
    BY <2>1, <2>3, InsertRowKeys
  <2>. QED
    BY <2>4 DEF InsertPaste, Refused
<1>3. ASSUME MayDeduplicate(new)
      PROVE  KeyInv(InsertPasteDeduplicated(T, new, g, t).table)
  <2> DEFINE cleared == ClearExpiredLink(T, new.name, t)
             row == RowOf(new, new.name, DedupKey(new), g)
  <2>1. cleared \in Tables /\ KeyInv(cleared)
    BY <1>1
  <2>2. DedupKey(new) \in DedupKeys /\ DedupKey(new)[1] = CategoryOf(new.type)
    BY <1>3 DEF MayDeduplicate, DedupKey, DedupKeys, CategoryOf, NewPastes
  <2>3. row \in Rows
    BY <2>2, RowOfType DEF NewPastes
  <2>4. /\ row.owner # None
        /\ row.expires = None
        /\ CategoryOf(row.type) = row.dedup[1]
        /\ CategoryOf(TypeOfDir(PathOf(new).dir)) = row.dedup[1]
    BY <1>3, <2>2, SameCategory, NullAssumption
       DEF RowOf, NewPastes, MayDeduplicate, ExpirySeconds
  <2>5. KeyInv(InsertRow(cleared, T, new, row, t).table)
    BY <2>1, <2>3, <2>4, InsertRowKeys
  <2>. QED
    BY <2>1, <2>5 DEF InsertPasteDeduplicated, Refused
<1>. QED
  BY <1>2, <1>3

(* A reconciliation keeps the deduplication keys in order.                 *)
LEMMA ReconcileKeys ==
  ASSUME NEW T \in Tables, NEW scanned \in SUBSET Paths,
         NEW found \in [scanned -> Hashes], NEW kept \in SUBSET Paths, NEW g \in Nat,
         KeyInv(T), RowsMatchFiles(T)
  PROVE  KeyInv(ReconcilePastes(T, found, kept, g))
<1> DEFINE R == ReconcilePastes(T, found, kept, g)
<1>1. \A p \in Present(R) :
        R[p].dedup # None =>
          /\ p \in Present(T)
          /\ R[p].owner = T[p].owner
          /\ R[p].dedup = T[p].dedup
          /\ R[p].expires = T[p].expires
          /\ R[p].type \in {T[p].type, TypeOfDir(p.dir)}
  BY ReconcileEffect DEF Present, RowsMatchFiles
<1> HIDE DEF R
<1>2. KeyInv(R)
  BY <1>1 DEF KeyInv
<1>. QED
  BY <1>2 DEF R

------------------------------------------------------------------------------
(* Callers that pass more than a NewPaste.                                 *)

NewPasteOf(x) ==
  [owner |-> x.owner, name |-> x.name, type |-> x.type, expiry |-> x.expiry, hash |-> x.hash]

(* The transactions look at the fields of a NewPaste only.                 *)
LEMMA InsertOfFields ==
  ASSUME NEW T, NEW x, NEW g, NEW t
  PROVE  /\ InsertPaste(T, x, g, t) = InsertPaste(T, NewPasteOf(x), g, t)
         /\ InsertPasteDeduplicated(T, x, g, t)
              = InsertPasteDeduplicated(T, NewPasteOf(x), g, t)
         /\ PathOf(x) = PathOf(NewPasteOf(x))
         /\ MayDeduplicate(x) <=> MayDeduplicate(NewPasteOf(x))
         /\ DedupKey(x) = DedupKey(NewPasteOf(x))
<1>1. /\ NewPasteOf(x).owner = x.owner /\ NewPasteOf(x).name = x.name
      /\ NewPasteOf(x).type = x.type /\ NewPasteOf(x).expiry = x.expiry
      /\ NewPasteOf(x).hash = x.hash
  BY DEF NewPasteOf
<1>2. PathOf(x) = PathOf(NewPasteOf(x))
  BY <1>1 DEF PathOf
<1>3. /\ ActivePublicLinkKey(x, t) = ActivePublicLinkKey(NewPasteOf(x), t)
      /\ DedupKey(x) = DedupKey(NewPasteOf(x))
      /\ MayDeduplicate(x) <=> MayDeduplicate(NewPasteOf(x))
  BY <1>1 DEF ActivePublicLinkKey, DedupKey, MayDeduplicate
<1>4. \A link, dedup : RowOf(x, link, dedup, g) = RowOf(NewPasteOf(x), link, dedup, g)
  BY <1>1 DEF RowOf
<1>5. \A C, row : InsertRow(C, T, x, row, t) = InsertRow(C, T, NewPasteOf(x), row, t)
  BY <1>2 DEF InsertRow
<1>. QED
  BY <1>1, <1>2, <1>3, <1>4, <1>5 DEF InsertPaste, InsertPasteDeduplicated

(* Every row of U is a row of T, as far as owner, name and type go, or the *)
(* one of the upload.                                                      *)
RowsFrom(T, U, new) ==
  \A p \in Present(U) :
    \/ /\ p \in Present(T)
       /\ U[p].owner = T[p].owner /\ U[p].name = T[p].name /\ U[p].type = T[p].type
    \/ /\ p = PathOf(new)
       /\ U[p].owner = new.owner /\ U[p].name = new.name /\ U[p].type = new.type

(* Clearing links and inserting a row adds the row of the upload at most.  *)
LEMMA InsertRowFrom ==
  ASSUME NEW T \in Tables, NEW k, NEW t, NEW new \in NewPastes, NEW link, NEW dedup, NEW g
  PROVE  LET C == ClearExpiredLink(T, k, t)
         IN  /\ RowsFrom(T, C, new)
             /\ RowsFrom(T, InsertRow(C, T, new, RowOf(new, link, dedup, g), t).table, new)
             /\ RowsFrom(T, InsertRow(T, T, new, RowOf(new, link, dedup, g), t).table, new)
<1> DEFINE C == ClearExpiredLink(T, k, t)
           row == RowOf(new, link, dedup, g)
<1>1. RowsFrom(T, C, new)
  BY ClearExpiredLinkType, ClearExpiredLinkEffect DEF RowsFrom
<1>2. RowsFrom(T, T, new)
  BY DEF RowsFrom
<1>3. row.owner = new.owner /\ row.name = new.name /\ row.type = new.type
  BY DEF RowOf
<1>4. C \in Tables /\ PathOf(new) \in Paths
  BY ClearExpiredLinkType, PathOfType
<1> HIDE DEF C, row
<1>5. ASSUME NEW D \in Tables, RowsFrom(T, D, new)
      PROVE  RowsFrom(T, InsertRow(D, T, new, row, t).table, new)
  <2> DEFINE E == [D EXCEPT ![PathOf(new)] = row]
  <2>1. \A p \in Present(E) : (p = PathOf(new) /\ E[p] = row) \/ (p \in Present(D) /\ E[p] = D[p])
    BY <1>4 DEF Present, Tables
  <2> HIDE DEF E
  <2>2. RowsFrom(T, E, new)
    BY <1>3, <1>5, <2>1 DEF RowsFrom
  <2>. QED
    BY <1>2, <2>2, InsertRowCases DEF E
<1>. QED
  BY <1>1, <1>2, <1>4, <1>5 DEF C, row

(* Both transactions add the row of the upload at most.                    *)
LEMMA InsertPasteFrom ==
  ASSUME NEW T \in Tables, NEW new \in NewPastes, NEW g, NEW t
  PROVE  /\ RowsFrom(T, InsertPaste(T, new, g, t).table, new)
         /\ RowsFrom(T, InsertPasteDeduplicated(T, new, g, t).table, new)
<1>1. RowsFrom(T, T, new)
  BY DEF RowsFrom
<1>2. \A link, dedup :
        RowsFrom(T, InsertRow(T, T, new, RowOf(new, link, dedup, g), t).table, new)
  BY InsertRowFrom
<1>3. \A k, link, dedup :
        /\ RowsFrom(T, ClearExpiredLink(T, k, t), new)
        /\ RowsFrom(T, InsertRow(ClearExpiredLink(T, k, t), T, new,
                                 RowOf(new, link, dedup, g), t).table, new)
  BY InsertRowFrom
<1>4. RowsFrom(T, InsertPaste(T, new, g, t).table, new)
  BY <1>1, <1>2, <1>3 DEF InsertPaste, Refused
<1>5. RowsFrom(T, InsertPasteDeduplicated(T, new, g, t).table, new)
  BY <1>1, <1>3 DEF InsertPasteDeduplicated, Refused
<1>. QED
  BY <1>4, <1>5

(* What a transaction may be answered with.                                *)
LEMMA InsertResults ==
  ASSUME NEW T, NEW x, NEW g, NEW t
  PROVE  /\ InsertPaste(T, x, g, t).result \in {"inserted", "conflict", "database"}
         /\ InsertPasteDeduplicated(T, x, g, t).result
              \in {"inserted", "duplicate", "conflict", "database"}
<1>1. \A C, row : InsertRow(C, T, x, row, t).result \in {"inserted", "conflict", "database"}
  BY DEF InsertRow, Refused
<1>. QED
  BY <1>1 DEF InsertPaste, InsertPasteDeduplicated, Refused

------------------------------------------------------------------------------
(* What an insertion adds.                                                 *)
(* Two rows that differ in their link at most.                             *)
SameRow(x, y) ==
  /\ x.gen = y.gen /\ x.owner = y.owner /\ x.name = y.name /\ x.type = y.type
  /\ x.expires = y.expires /\ x.hash = y.hash /\ x.dedup = y.dedup

(* U has the rows of T, but for links, and the row of the upload at most.  *)
RowsAdded(T, U, new) ==
  /\ Present(T) \subseteq Present(U)
  /\ \A p \in Present(T) : SameRow(T[p], U[p])
  /\ \A p \in Present(U) \ Present(T) :
       /\ p = PathOf(new)
       /\ U[p].owner = new.owner /\ U[p].hash = new.hash
       /\ U[p].dedup # None => U[p].dedup = DedupKey(new) /\ MayDeduplicate(new)

(* What a transaction returns: "inserted" if and only if the row is new.   *)
Inserts(T, result, new) ==
  /\ RowsAdded(T, result.table, new)
  /\ result.result = "inserted" <=> PathOf(new) \in Present(result.table) \ Present(T)

(* A transaction that is refused adds nothing.                             *)
LEMMA RefusedAddsNothing ==
  ASSUME NEW T \in Tables, NEW k, NEW t, NEW D \in {T, ClearExpiredLink(T, k, t)}, NEW new,
         NEW why \in {"conflict", "database", "duplicate"}
  PROVE  Inserts(T, Refused(D, why), new)
<1>1. Present(D) = Present(T) /\ \A p \in Present(T) : SameRow(T[p], D[p])
  BY ClearExpiredLinkType, ClearExpiredLinkEffect DEF SameRow
<1>. QED
  BY <1>1 DEF Inserts, RowsAdded, Refused

(* Inserting a row, after links have been cleared, adds that row or none.  *)
LEMMA InsertRowAdds ==
  ASSUME NEW T \in Tables, NEW k \in PublicNames \cup {None}, NEW t \in Nat,
         NEW new \in NewPastes, NEW row \in Rows,
         row.owner = new.owner, row.hash = new.hash,
         row.dedup # None => row.dedup = DedupKey(new) /\ MayDeduplicate(new),
         NEW D \in {T, ClearExpiredLink(T, k, t)}
  PROVE  Inserts(T, InsertRow(D, T, new, row, t), new)
<1> DEFINE E == [D EXCEPT ![PathOf(new)] = row]
<1>1. D \in Tables /\ Present(D) = Present(T) /\ PathOf(new) \in Paths /\ row # NoRow
  BY ClearExpiredLinkType, PathOfType, NoRowAssumption
<1>2. \A p \in Present(T) : SameRow(T[p], D[p])
  BY ClearExpiredLinkEffect DEF SameRow
<1>3. CASE UniqueViolation(D, PathOf(new), row)
  BY <1>3, RefusedAddsNothing DEF InsertRow
<1>4. CASE ~UniqueViolation(D, PathOf(new), row)
  <2>1. /\ InsertRow(D, T, new, row, t) = [table |-> E, result |-> "inserted"]
        /\ PathOf(new) \notin Present(D)
    BY <1>4 DEF InsertRow, UniqueViolation, Present
  <2>2. /\ Present(E) = Present(D) \cup {PathOf(new)} /\ E[PathOf(new)] = row
        /\ \A p \in Present(D) : E[p] = D[p]
    BY <1>1, <2>1 DEF Present, Tables
  <2> HIDE DEF E
  <2>3. RowsAdded(T, E, new)
    BY <1>1, <1>2, <2>1, <2>2 DEF RowsAdded
  <2>. QED
    BY <1>1, <2>1, <2>2, <2>3 DEF Inserts
<1>. QED
  BY <1>3, <1>4

(* Both transactions add the row of the upload or none, and say which.     *)
LEMMA InsertPasteAdds ==
  ASSUME NEW T \in Tables, NEW new \in NewPastes, NEW g \in Nat, NEW t \in Nat
  PROVE  /\ Inserts(T, InsertPaste(T, new, g, t), new)
         /\ MayDeduplicate(new) => Inserts(T, InsertPasteDeduplicated(T, new, g, t), new)
<1> DEFINE link == ActivePublicLinkKey(new, t)
           key == DedupKey(new)
           plain == RowOf(new, link, None, g)
           keyed == RowOf(new, new.name, key, g)
<1>1. link \in PublicNames \cup {None} /\ new.name \in PublicNames
  BY DEF NewPastes, ActivePublicLinkKey
<1>2. /\ plain \in Rows /\ plain.owner = new.owner /\ plain.hash = new.hash /\ plain.dedup = None
  BY <1>1, RowOfType DEF RowOf
<1>3. ASSUME MayDeduplicate(new)
      PROVE  keyed \in Rows /\ keyed.owner = new.owner /\ keyed.hash = new.hash /\ keyed.dedup = key
  <2>1. key \in DedupKeys \cup {None}
    BY <1>3 DEF NewPastes, MayDeduplicate, DedupKey, DedupKeys, CategoryOf
  <2>. QED
    BY <1>1, <2>1, RowOfType DEF RowOf
<1>4. Inserts(T, InsertPaste(T, new, g, t), new)
  <2>1. PICK row \in Rows : row = plain
    BY <1>2
  <2>2. PICK k \in PublicNames \cup {None} : k = link
    BY <1>1
  <2>3. \A D \in {T, ClearExpiredLink(T, k, t)} : Inserts(T, InsertRow(D, T, new, row, t), new)
    BY <1>2, <2>1, InsertRowAdds
  <2>4. Inserts(T, Refused(T, "conflict"), new)
    BY RefusedAddsNothing
  <2>. QED
    BY <2>1, <2>2, <2>3, <2>4 DEF InsertPaste
<1>5. ASSUME MayDeduplicate(new)  PROVE Inserts(T, InsertPasteDeduplicated(T, new, g, t), new)
  <2>1. PICK row \in Rows : row = keyed
    BY <1>3, <1>5
  <2>2. PICK D : D = ClearExpiredLink(T, new.name, t)
    OBVIOUS
  <2>3. Inserts(T, InsertRow(D, T, new, row, t), new)
    BY <1>1, <1>3, <1>5, <2>1, <2>2, InsertRowAdds
  <2>4. Inserts(T, Refused(T, "conflict"), new) /\ Inserts(T, Refused(D, "duplicate"), new)
    BY <1>1, <2>2, RefusedAddsNothing
  <2>. QED
    BY <2>1, <2>2, <2>3, <2>4 DEF InsertPasteDeduplicated, Refused
<1>. QED
  BY <1>4, <1>5
==============================================================================
