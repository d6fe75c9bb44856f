----------------------------- MODULE PasteTable ------------------------------
(***************************************************************************)
(* The transactions of AuthStore on the table "pastes", as functions of    *)
(* the table.  SQLite serialises writers, so each transaction is one step; *)
(* a transaction that fails leaves the table as it was.                    *)
(*                                                                         *)
(* storage_path is UNIQUE, so the table is a function from paths to rows.  *)
(* A row is identified by its path and by gen, the number of the insertion *)
(* that made it: ids are AUTOINCREMENT and never used again.               *)
(***************************************************************************)
EXTENDS FileNames

CONSTANTS
  Owners,         \* principals
  Hashes,         \* content hashes
  Types,          \* the paste types of the instance
  NoRow           \* no row for this path

ASSUME TypesAssumption == Types \subseteq PasteTypes

Paths == [dir : {GetDir(type) : type \in Types}, file : StoredNames]

CategoryOf(type) ==
  CASE type \in {"file", "remote_file"} -> "file"
    [] type = "url" -> "url"
    [] OTHER -> None

DedupKeys == {"file", "url"} \X Hashes

Rows ==
  [gen : Nat, owner : Owners \cup {None}, name : PublicNames, type : PasteTypes,
   expires : Nat \cup {None}, hash : Hashes,
   link : PublicNames \cup {None}, dedup : DedupKeys \cup {None}]

ASSUME NullAssumption == None \notin Owners \cup PublicNames \cup DedupKeys
ASSUME NoRowAssumption == NoRow \notin Rows

Tables == [Paths -> Rows \cup {NoRow}]

Present(T) == {p \in Paths : T[p] # NoRow}

(* What an upload asks to be stored (NewPaste), and the path of its file.  *)
NewPastes ==
  [owner : Owners, name : PublicNames, type : Types,
   expiry : Expiries, hash : Hashes]

PathOf(new) == [dir |-> GetDir(new.type), file |-> StoredName(new.name, new.expiry)]

Unexpired(row, t) == row.expires = None \/ row.expires > t

(* A mutant: expired rows keep their link.                                 *)
ClearNothing(T, k, t) == T

(* clear_expired_public_link                                               *)
ClearExpiredLink(T, k, t) ==
  [p \in Paths |->
     IF T[p] # NoRow /\ T[p].link = k /\ ~Unexpired(T[p], t)
     THEN [T[p] EXCEPT !.link = None]
     ELSE T[p]]

(* public_link_is_active                                                   *)
PublicLinkIsActive(T, k, t) ==
  \E p \in Present(T) :
    /\ T[p].link = k \/ (T[p].link = None /\ T[p].name = k)
    /\ Unexpired(T[p], t)

(* The three unique indexes: storage_path, (owner, dedup_key), link_key.   *)
UniqueViolation(T, p, row) ==
  \/ T[p] # NoRow
  \/ \E q \in Present(T) :
       \/ row.link # None /\ T[q].link = row.link
       \/ row.dedup # None /\ T[q].dedup = row.dedup /\ T[q].owner = row.owner

(* A mutant: expiring pastes reserve no link.                              *)
NoLinkForExpiring(new, t) == IF new.expiry = None THEN new.name ELSE None

(* A mutant: the link is reserved under the stored name.                   *)
StoredNameAsLink(new, t) == StoredName(new.name, new.expiry)

(* active_public_link_key, for an upload, which always has an owner.       *)
ActivePublicLinkKey(new, t) ==
  IF new.expiry = None \/ ExpirySeconds(new.expiry) > t THEN new.name ELSE None

RowOf(new, link, dedup, gen) ==
  [gen |-> gen, owner |-> new.owner, name |-> new.name, type |-> new.type,
   expires |-> ExpirySeconds(new.expiry), hash |-> new.hash,
   link |-> link, dedup |-> dedup]

Refused(T, why) == [table |-> T, result |-> why]

(* The INSERT at the end of both transactions, and its error path.         *)
InsertRow(T, before, new, row, t) ==
  IF ~UniqueViolation(T, PathOf(new), row)
  THEN [table |-> [T EXCEPT ![PathOf(new)] = row], result |-> "inserted"]
  ELSE IF row.link # None /\ PublicLinkIsActive(T, row.link, t)
       THEN Refused(before, "conflict")
       ELSE Refused(before, "database")

(* insert_paste, at gen, with the clock read as t before the transaction   *)
InsertPaste(T, new, gen, t) ==
  LET link == ActivePublicLinkKey(new, t)
      cleared == IF link = None THEN T ELSE ClearExpiredLink(T, link, t)
  IN  IF link # None /\ PublicLinkIsActive(cleared, link, t)
      THEN Refused(T, "conflict")
      ELSE InsertRow(cleared, T, new, RowOf(new, link, None, gen), t)

DedupKey(new) == <<CategoryOf(new.type), new.hash>>

(* find_dedup_in_transaction: the row that holds the key, if there is one  *)
DedupHolders(T, owner, key) ==
  {p \in Present(T) : T[p].owner = owner /\ T[p].dedup = key}

(* A mutant: expiring pastes are deduplicated too.                         *)
AnyExpiryMayDeduplicate(new) == CategoryOf(new.type) # None

(* Which pastes persist_paste_metadata may offer for deduplication.        *)
MayDeduplicate(new) == new.expiry = None /\ CategoryOf(new.type) # None

(* insert_paste_deduplicated, for a paste with MayDeduplicate.  With the   *)
(* result "duplicate" the cleared links are committed, the paste is not    *)
(* stored, and the row found is any of DedupHolders.                       *)
InsertPasteDeduplicated(T, new, gen, t) ==
  LET cleared == ClearExpiredLink(T, new.name, t)
      row == RowOf(new, new.name, DedupKey(new), gen)
  IN  IF DedupHolders(cleared, new.owner, DedupKey(new)) # {}
      THEN [table |-> cleared, result |-> "duplicate"]
      ELSE IF PublicLinkIsActive(cleared, new.name, t)
           THEN Refused(T, "conflict")
           ELSE InsertRow(cleared, T, new, row, t)

(* find_pastes_by_public_filename                                          *)
RowsByPublicName(T, name, t) ==
  {p \in Present(T) : T[p].name = name /\ Unexpired(T[p], t)}

(* delete_paste, by identifier                                             *)
DeletePaste(T, p, gen) ==
  IF T[p] # NoRow /\ T[p].gen = gen THEN [T EXCEPT ![p] = NoRow] ELSE T

(* delete_paste_by_storage_path                                            *)
DeletePasteByPath(T, p) == [T EXCEPT ![p] = NoRow]

(* list_all_pastes *)
ListAll(T, t) == {p \in Present(T) : Unexpired(T[p], t)}

(* A row the scan found and the table did not know: no owner, no link.     *)
ScannedRow(p, hash, gen) ==
  LET split == SplitExpiry(p.file)
  IN  [gen |-> gen, owner |-> None, name |-> split.name, type |-> TypeOfDir(p.dir),
       expires |-> split.expires, hash |-> hash, link |-> None, dedup |-> None]

(* A mutant: a known row is replaced by what the scan found.               *)
RescanAll(row, p, hash) == ScannedRow(p, hash, row.gen)

(* A known row takes what the scan found and keeps its owner and keys.     *)
Rescanned(row, p, hash) ==
  LET split == SplitExpiry(p.file)
  IN  [row EXCEPT !.name = split.name, !.type = TypeOfDir(p.dir),
                  !.expires = split.expires, !.hash = hash]

(* reconcile_pastes with what main gives it: the scan, and the rows of the *)
(* files the scan had to skip.  found maps each path of the scan to the    *)
(* hash of its content; kept are the paths of the retained rows.           *)
ReconcilePastes(T, found, kept, gen) ==
  [p \in Paths |->
     IF p \in DOMAIN found
     THEN IF T[p] = NoRow THEN ScannedRow(p, found[p], gen)
                          ELSE Rescanned(T[p], p, found[p])
     ELSE IF p \in kept THEN T[p] ELSE NoRow]
==============================================================================
