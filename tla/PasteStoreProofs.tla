-------------------------- MODULE PasteStoreProofs ---------------------------
(***************************************************************************)
(* Theorems about the table of pastes, for every number of owners, names,  *)
(* contents and ticks.                                                     *)
(***************************************************************************)
EXTENDS PasteStore, PasteTableProofs

(* Every reachable table is a table, the clock a number: each transaction  *)
(* of AuthStore writes rows of the schema, whatever it is called with.     *)
THEOREM TypeCorrect == Spec => []TypeOK
<1>1. Init => TypeOK
  BY DEF Init, TypeOK, Tables
<1>2. TypeOK /\ [Next]_vars => TypeOK'
  <2> SUFFICES ASSUME TypeOK, [Next]_vars PROVE TypeOK'
    OBVIOUS
  <2> USE DEF TypeOK
  <2>1. ASSUME NEW new \in NewPastes, NEW t \in ReadTimes, Insert(new, t)
        PROVE  TypeOK'
    BY <2>1, InsertPasteType DEF Insert
  <2>2. ASSUME NEW new \in NewPastes, NEW t \in ReadTimes, InsertDeduplicated(new, t)
        PROVE  TypeOK'
    BY <2>2, InsertPasteType DEF InsertDeduplicated
  <2>3. ASSUME NEW p \in Paths, NEW g \in 0..MaxGen, Delete(p, g)
        PROVE  TypeOK'
    BY <2>3, DeletionInv DEF Delete, DeletePaste
  <2>4. ASSUME NEW p \in Paths, DeleteByPath(p)
        PROVE  TypeOK'
    BY <2>4, DeletionInv DEF DeleteByPath, DeletePasteByPath
  <2>5. ASSUME NEW scanned \in Scans, NEW skipped \in SUBSET Present(pastes),
               NEW t \in ReadTimes, NEW found \in [scanned -> Hashes],
               Reconcile(found, skipped, t)
        PROVE  TypeOK'
    <3>1. scanned \in SUBSET Paths /\ skipped \cap ListAll(pastes, t) \in SUBSET Paths
      BY ScansAssumption DEF Present
    <3>. QED
      BY <2>5, <3>1, ReconcileType DEF Reconcile
  <2>6. CASE Tick
    BY <2>6 DEF Tick
  <2>7. CASE UNCHANGED vars
    BY <2>7 DEF vars
  <2>. QED
    BY <2>1, <2>2, <2>3, <2>4, <2>5, <2>6, <2>7 DEF Next
<1>. QED
  BY <1>1, <1>2, PTL DEF Spec

LinkIInv == TypeOK /\ LinkInv(pastes, Seconds(now))

(* The passing of time keeps the link keys in order.                       *)
LEMMA TickInv ==
  ASSUME TypeOK, LinkInv(pastes, Seconds(now))
  PROVE  LinkInv(pastes, Seconds(now + 1))
<1>1. Seconds(now) \in Nat /\ Seconds(now + 1) \in Nat /\ Seconds(now) <= Seconds(now + 1)
  BY SecondsType, SecondsMonotone DEF TypeOK
<1>2. \A p \in Present(pastes) : pastes[p].expires \in Nat \cup {None}
  BY DEF TypeOK, Tables, Present, Rows
<1>3. OwnedAreLinked(pastes, Seconds(now + 1))
  BY <1>1, <1>2 DEF LinkInv, OwnedAreLinked, Unexpired
<1>. QED
  BY <1>3 DEF LinkInv

(* If no public name ends in a stamp, the links of owned pastes are their  *)
(* public names, differ from each other, and are missing only on expired   *)
(* rows.                                                                   *)
THEOREM LinkInvariant == CleanNames => (Spec => []LinkIInv)
<1> SUFFICES ASSUME CleanNames PROVE Spec => []LinkIInv
  OBVIOUS
<1>1. Init => LinkInv(pastes, Seconds(now))
  BY DEF Init, LinkInv, Present, RowsMatchFiles, LinksAreNames, OwnedAreLinked, LinksDiffer
<1>2. TypeOK /\ TypeOK' /\ LinkInv(pastes, Seconds(now)) /\ [Next]_vars
      => LinkInv(pastes, Seconds(now))'
  <2> SUFFICES ASSUME TypeOK, TypeOK', LinkInv(pastes, Seconds(now)), [Next]_vars
               PROVE  LinkInv(pastes', Seconds(now'))
    OBVIOUS
  <2>1. pastes \in Tables /\ now \in Nat /\ gen \in Nat /\ Seconds(now) \in Nat
    BY SecondsType DEF TypeOK
  <2>2. ASSUME NEW new \in NewPastes, NEW t \in ReadTimes, Insert(new, t)
        PROVE  LinkInv(pastes', Seconds(now'))
    BY <2>1, <2>2, InsertPasteInv DEF Insert, ReadTimes
  <2>3. ASSUME NEW new \in NewPastes, NEW t \in ReadTimes, InsertDeduplicated(new, t)
        PROVE  LinkInv(pastes', Seconds(now'))
    BY <2>1, <2>3, InsertPasteDeduplicatedInv DEF InsertDeduplicated, ReadTimes
  <2>4. ASSUME NEW p \in Paths, NEW g \in 0..MaxGen, Delete(p, g)
        PROVE  LinkInv(pastes', Seconds(now'))
    BY <2>1, <2>4, DeletionInv DEF Delete, DeletePaste
  <2>5. ASSUME NEW p \in Paths, DeleteByPath(p)
        PROVE  LinkInv(pastes', Seconds(now'))
    BY <2>1, <2>5, DeletionInv DEF DeleteByPath, DeletePasteByPath
  <2>6. ASSUME NEW scanned \in Scans, NEW skipped \in SUBSET Present(pastes),
               NEW t \in ReadTimes, NEW found \in [scanned -> Hashes],
               Reconcile(found, skipped, t)
        PROVE  LinkInv(pastes', Seconds(now'))
    <3>1. scanned \in SUBSET Paths /\ skipped \cap ListAll(pastes, t) \in SUBSET Paths
      BY ScansAssumption DEF Present
    <3>. QED
      BY <2>1, <2>6, <3>1, ReconcileInv DEF Reconcile
  <2>7. CASE Tick
    BY <2>1, <2>7, TickInv DEF Tick
  <2>8. CASE UNCHANGED vars
    BY <2>8 DEF vars
  <2>. QED
    BY <2>2, <2>3, <2>4, <2>5, <2>6, <2>7, <2>8 DEF Next
<1>. QED
  BY <1>1, <1>2, TypeCorrect, PTL DEF Spec, LinkIInv

(* A public link leads to one owner.                                       *)
THEOREM LinksAreUnique == CleanNames => (Spec => []UniqueActiveLink)
<1>1. LinkIInv => UniqueActiveLink
  BY DEF LinkIInv, LinkInv, UniqueActiveLink, Active, Present, LinksAreNames,
         OwnedAreLinked, LinksDiffer
<1>. QED
  BY <1>1, LinkInvariant, PTL

(* An upload to a new path gets its link exactly if no active paste        *)
(* answers to it.                                                          *)
THEOREM FreeLinksAreGranted == CleanNames => (Spec => []InsertsExactlyFreeLinks)
<1>1. LinkIInv => InsertsExactlyFreeLinks
  <2> SUFFICES ASSUME LinkIInv, NEW new \in NewPastes,
                      pastes[PathOf(new)] = NoRow,
                      ActivePublicLinkKey(new, Seconds(now)) # None
               PROVE  InsertPaste(pastes, new, gen, Seconds(now)).result =
                        IF RowsByPublicName(pastes, new.name, Seconds(now)) = {}
                        THEN "inserted" ELSE "conflict"
    BY DEF InsertsExactlyFreeLinks
  <2> DEFINE s == Seconds(now)
             k == new.name
             C == ClearExpiredLink(pastes, k, s)
             row == RowOf(new, k, None, gen)
  <2>1. ActivePublicLinkKey(new, s) = k
    BY DEF ActivePublicLinkKey
  <2>2. pastes \in Tables /\ Present(C) = Present(pastes) /\ k # None
    BY <2>1, ClearExpiredLinkType DEF LinkIInv, TypeOK
  <2>3. \A p \in Present(C) :
          /\ C[p].name = pastes[p].name
          /\ C[p].owner = pastes[p].owner
          /\ Unexpired(C[p], s) <=> Unexpired(pastes[p], s)
          /\ C[p].link = IF pastes[p].link = k /\ ~Unexpired(pastes[p], s)
                         THEN None ELSE pastes[p].link
    BY <2>2, ClearExpiredLinkEffect DEF Unexpired
  <2>4. PublicLinkIsActive(C, k, s) <=> RowsByPublicName(pastes, k, s) # {}
    BY <2>2, <2>3 DEF PublicLinkIsActive, RowsByPublicName, LinkIInv, LinkInv, LinksAreNames
  <2>5. ASSUME RowsByPublicName(pastes, k, s) = {}
        PROVE  ~UniqueViolation(C, PathOf(new), row)
    <3>1. C[PathOf(new)] = NoRow
      BY PathOfType DEF ClearExpiredLink
    <3>2. row.link = k /\ row.dedup = None
      BY DEF RowOf
    <3>3. ASSUME NEW q \in Present(C), C[q].link = k
          PROVE  FALSE
      BY <2>2, <2>3, <2>5, <3>3 DEF RowsByPublicName, LinkIInv, LinkInv, LinksAreNames
    <3>. QED
      BY <3>1, <3>2, <3>3 DEF UniqueViolation
  <2>. QED
    BY <2>1, <2>2, <2>4, <2>5 DEF InsertPaste, InsertRow, Refused
<1>. QED
  BY <1>1, LinkInvariant, PTL

------------------------------------------------------------------------------
(* Ownership.                                                              *)

(* No transaction takes a paste from its owner, reconciliation included.   *)
THEOREM OwnershipIsPreserved == Spec => OwnershipPreserved
<1>1. TypeOK /\ [Next]_vars => [OwnerKept]_vars
  <2> SUFFICES ASSUME TypeOK, [Next]_vars PROVE [OwnerKept]_vars
    OBVIOUS
  <2>0. pastes \in Tables /\ gen \in Nat
    BY DEF TypeOK
  <2>1. ASSUME NEW new \in NewPastes, NEW t \in ReadTimes, Insert(new, t)
        PROVE  OwnerKept
    BY <2>0, <2>1, InsertPasteOwners DEF Insert, OwnersKept, OwnerKept
  <2>2. ASSUME NEW new \in NewPastes, NEW t \in ReadTimes, InsertDeduplicated(new, t)
        PROVE  OwnerKept
    BY <2>0, <2>2, InsertPasteOwners DEF InsertDeduplicated, OwnersKept, OwnerKept
  <2>3. ASSUME NEW p \in Paths, NEW g \in 0..MaxGen, Delete(p, g)
        PROVE  OwnerKept
    BY <2>0, <2>3 DEF Delete, DeletePaste, OwnerKept, Tables
  <2>4. ASSUME NEW p \in Paths, DeleteByPath(p)
        PROVE  OwnerKept
    BY <2>0, <2>4 DEF DeleteByPath, DeletePasteByPath, OwnerKept, Tables
  <2>5. ASSUME NEW scanned \in Scans, NEW skipped \in SUBSET Present(pastes),
               NEW t \in ReadTimes, NEW found \in [scanned -> Hashes],
               Reconcile(found, skipped, t)
        PROVE  OwnerKept
    <3>1. scanned \in SUBSET Paths /\ skipped \cap ListAll(pastes, t) \in SUBSET Paths
      BY ScansAssumption DEF Present
    <3>. QED
      BY <2>0, <2>5, <3>1, ReconcileEffect DEF Reconcile, OwnerKept, Present
  <2>6. CASE Tick
    BY <2>6 DEF Tick, OwnerKept
  <2>7. CASE UNCHANGED vars
    BY <2>7
  <2>. QED
    BY <2>1, <2>2, <2>3, <2>4, <2>5, <2>6, <2>7 DEF Next
<1>. QED
  BY <1>1, TypeCorrect, PTL DEF Spec, OwnershipPreserved

------------------------------------------------------------------------------
(* Deduplication.                                                          *)

(* If no public name ends in a stamp, what is offered as a duplicate is a  *)
(* lasting paste of the same owner and category.                           *)
THEOREM DuplicatesLast == CleanNames => (Spec => []DuplicatesAreLasting)
<1> SUFFICES ASSUME CleanNames PROVE Spec => []DuplicatesAreLasting
  OBVIOUS
<1>1. Init => KeyInv(pastes)
  BY DEF Init, KeyInv, Present
<1>2. LinkIInv /\ KeyInv(pastes) /\ [Next]_vars => KeyInv(pastes)'
  <2> SUFFICES ASSUME LinkIInv, KeyInv(pastes), [Next]_vars
               PROVE  KeyInv(pastes')
    OBVIOUS
  <2>0. pastes \in Tables /\ gen \in Nat /\ RowsMatchFiles(pastes)
    BY DEF LinkIInv, LinkInv, TypeOK
  <2>1. ASSUME NEW new \in NewPastes, NEW t \in ReadTimes, Insert(new, t)
        PROVE  KeyInv(pastes')
    BY <2>0, <2>1, InsertPasteKeys DEF Insert
  <2>2. ASSUME NEW new \in NewPastes, NEW t \in ReadTimes, InsertDeduplicated(new, t)
        PROVE  KeyInv(pastes')
    BY <2>0, <2>2, InsertPasteKeys DEF InsertDeduplicated
  <2>3. ASSUME NEW p \in Paths, KeyInv(pastes)
        PROVE  KeyInv([pastes EXCEPT ![p] = NoRow])
    BY <2>0, <2>3 DEF KeyInv, Present, Tables
  <2>4. ASSUME NEW p \in Paths, NEW g \in 0..MaxGen, Delete(p, g)
        PROVE  KeyInv(pastes')
    BY <2>3, <2>4 DEF Delete, DeletePaste
  <2>5. ASSUME NEW p \in Paths, DeleteByPath(p)
        PROVE  KeyInv(pastes')
    BY <2>3, <2>5 DEF DeleteByPath, DeletePasteByPath
  <2>6. ASSUME NEW scanned \in Scans, NEW skipped \in SUBSET Present(pastes),
               NEW t \in ReadTimes, NEW found \in [scanned -> Hashes],
               Reconcile(found, skipped, t)
        PROVE  KeyInv(pastes')
    <3>1. scanned \in SUBSET Paths /\ skipped \cap ListAll(pastes, t) \in SUBSET Paths
      BY ScansAssumption DEF Present
    <3>. QED
      BY <2>0, <2>6, <3>1, ReconcileKeys DEF Reconcile
  <2>7. CASE Tick
    BY <2>7 DEF Tick
  <2>8. CASE UNCHANGED vars
    BY <2>8 DEF vars
  <2>. QED
    BY <2>1, <2>2, <2>4, <2>5, <2>6, <2>7, <2>8 DEF Next
<1>3. KeyInv(pastes) => DuplicatesAreLasting
  BY DEF KeyInv, DuplicatesAreLasting, Present
<1>. QED
  BY <1>1, <1>2, <1>3, LinkInvariant, PTL DEF Spec
==============================================================================
