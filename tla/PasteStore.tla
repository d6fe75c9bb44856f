----------------------------- MODULE PasteStore ------------------------------
(***************************************************************************)
(* The table "pastes" under every sequence of its transactions.  The       *)
(* callers are the request handlers, the consumer of expired paths and the *)
(* reconciliation at startup; here they may call at any time, with any     *)
(* argument.  Module PasteServer says when they do.                        *)
(***************************************************************************)
EXTENDS PasteTable

CONSTANTS
  Scans,          \* bound: the sets of files that a scan may find
  MaxTime,        \* bound: the last tick of the clock
  MaxGen          \* bound: insertions, a reconciliation counting as one

ASSUME ScansAssumption == Scans \subseteq SUBSET Paths
ASSUME BoundsAssumption == MaxTime \in Nat /\ MaxGen \in Nat

VARIABLES
  pastes,         \* the table
  now,            \* the clock, in ticks
  gen             \* the next identifier

vars == <<pastes, now, gen>>

Init ==
  /\ pastes = [p \in Paths |-> NoRow]
  /\ now = 0
  /\ gen = 0

(* unix_now() is read before the transaction gets the write lock, so a     *)
(* transaction may work with any earlier second.                           *)
ReadTimes == 0..Seconds(now)

Insert(new, t) ==
  /\ gen < MaxGen
  /\ pastes' = InsertPaste(pastes, new, gen, t).table
  /\ gen' = gen + 1
  /\ UNCHANGED now

InsertDeduplicated(new, t) ==
  /\ gen < MaxGen
  /\ MayDeduplicate(new)
  /\ pastes' = InsertPasteDeduplicated(pastes, new, gen, t).table
  /\ gen' = gen + 1
  /\ UNCHANGED now

Delete(p, g) ==
  /\ pastes' = DeletePaste(pastes, p, g)
  /\ UNCHANGED <<now, gen>>

DeleteByPath(p) ==
  /\ pastes' = DeletePasteByPath(pastes, p)
  /\ UNCHANGED <<now, gen>>

(* The scan finds the files of scanned and has to skip those of skipped.   *)
(* The rows of skipped files are kept if list_all_pastes returns them.     *)
Reconcile(found, skipped, t) ==
  /\ gen < MaxGen
  /\ pastes' = ReconcilePastes(pastes, found, skipped \cap ListAll(pastes, t), gen)
  /\ gen' = gen + 1
  /\ UNCHANGED now

Tick ==
  /\ now < MaxTime
  /\ now' = now + 1
  /\ UNCHANGED <<pastes, gen>>

Next ==
  \/ \E new \in NewPastes, t \in ReadTimes :
       Insert(new, t) \/ InsertDeduplicated(new, t)
  \/ \E p \in Paths, g \in 0..MaxGen : Delete(p, g)
  \/ \E p \in Paths : DeleteByPath(p)
  \/ \E scanned \in Scans, skipped \in SUBSET Present(pastes), t \in ReadTimes :
       \E found \in [scanned -> Hashes] : Reconcile(found, skipped, t)
  \/ Tick

Spec == Init /\ [][Next]_vars

------------------------------------------------------------------------------

Active(p) == pastes[p] # NoRow /\ Unexpired(pastes[p], Seconds(now))

TypeOK ==
  /\ pastes \in Tables
  /\ now \in Nat
  /\ gen \in Nat

(* A public link leads to one owner: of the rows that are not expired and  *)
(* have an owner, no two have the same public name, in whatever directory  *)
(* and under whatever stamp their files lie.  find_pastes_by_public_       *)
(* filename serves the first such row, and delete checks its owner.        *)
UniqueActiveLink ==
  \A p, q \in Paths :
    /\ Active(p) /\ pastes[p].owner # None
    /\ Active(q) /\ pastes[q].owner # None
    /\ pastes[p].name = pastes[q].name
    => p = q

(* A paste can take a link exactly when no active paste answers to it: the *)
(* links of expired rows are always cleared first, so neither they nor the *)
(* unique indexes ever stand in the way of an upload to a new path.        *)
InsertsExactlyFreeLinks ==
  \A new \in NewPastes :
    /\ pastes[PathOf(new)] = NoRow
    /\ ActivePublicLinkKey(new, Seconds(now)) # None
    => InsertPaste(pastes, new, gen, Seconds(now)).result =
         IF RowsByPublicName(pastes, new.name, Seconds(now)) = {}
         THEN "inserted" ELSE "conflict"

(* A row found as a duplicate is an unexpired paste of the same owner and  *)
(* of the same category, so offering its link instead of a new upload is   *)
(* no loss to the uploader (insert_paste_deduplicated returns it without a *)
(* look at its expiry or type).                                            *)
DuplicatesAreLasting ==
  \A p \in Paths :
    pastes[p] # NoRow /\ pastes[p].dedup # None =>
      /\ pastes[p].owner # None
      /\ pastes[p].expires = None
      /\ CategoryOf(pastes[p].type) = pastes[p].dedup[1]

(* The owner of a row never changes while the row exists: neither a rescan *)
(* of its file nor another insertion at its path takes it from its owner   *)
(* ("Existing ownership is preserved").                                    *)
OwnerKept ==
  \A p \in Paths :
    /\ pastes[p] # NoRow
    /\ pastes'[p] # NoRow
    => pastes'[p].owner = pastes[p].owner

OwnershipPreserved == [][OwnerKept]_vars
==============================================================================
