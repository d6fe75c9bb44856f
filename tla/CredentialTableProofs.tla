------------------------ MODULE CredentialTableProofs -------------------------
(***************************************************************************)
(* What the statements of AuthStore do to a table of credentials, for      *)
(* tables of any length and any number of principals.                      *)
(***************************************************************************)
EXTENDS CredentialTable, FiniteSetTheorems, WellFoundedInduction, TLAPS

(* A table whose identifiers are below n.                                  *)
Rows(T, n) == DOMAIN T \subseteq 0..(n - 1) /\ \A i \in DOMAIN T : T[i] \in CredentialRows

(* The bound that pruning is there for.                                    *)
Bounded(T) == \A p \in Principals : Cardinality(Dynamic(T, p)) <= MaxActive

LiveDynamic(T, p, t) == {i \in Dynamic(T, p) : Live(T[i], t)}

------------------------------------------------------------------------------
(* Orders on finite sets                                                   *)

(* A finite set with a strict order has a least element.                   *)
LEMMA LeastElement ==
  ASSUME NEW S, IsFiniteSet(S), S # {}, NEW R,
         \A x, y, z \in S : <<x, y>> \in R /\ <<y, z>> \in R => <<x, z>> \in R,
         \A x \in S : <<x, x>> \notin R,
         \A x, y \in S : x # y => <<x, y>> \in R \/ <<y, x>> \in R
  PROVE  \E x \in S : \A y \in S \ {x} : <<x, y>> \in R
<1> DEFINE Below(x) == {y \in S : <<y, x>> \in R}
           T == {Below(x) : x \in S}
<1>1. \A x \in S : Below(x) \in SUBSET S
  OBVIOUS
<1>2. T \subseteq FiniteSubsetsOf(S) /\ T # {}
  <2>1. \A x \in S : IsFiniteSet(Below(x))
    BY <1>1, FS_Subset
  <2>2. \A x \in S : Below(x) \in FiniteSubsetsOf(S)
    BY <1>1, <2>1 DEF FiniteSubsetsOf
  <2> HIDE DEF Below
  <2>. QED
    BY <2>2
<1>3. PICK A \in T : \A B \in T : ~(<<B, A>> \in StrictSubsetOrdering(S))
  <2> HIDE DEF T
  <2>. QED
    BY <1>2, FS_StrictSubsetOrderingWellFounded, WFMin
<1>4. PICK x \in S : A = Below(x)
  BY <1>3
<1>5. ASSUME NEW y \in S, <<y, x>> \in R PROVE FALSE
  <2>1. Below(y) \subseteq Below(x) /\ y \in Below(x) /\ y \notin Below(y)
    BY <1>5
  <2>2. Below(y) \in SUBSET S /\ Below(x) \in SUBSET S /\ Below(y) \in T
    OBVIOUS
  <2> HIDE DEF Below, T
  <2>3. <<Below(y), Below(x)>> \in StrictSubsetOrdering(S)
    BY <2>1, <2>2 DEF StrictSubsetOrdering
  <2>. QED
    BY <1>3, <1>4, <2>2, <2>3
<1>. QED
  BY <1>5

(* Any two rows of a table have an order: the one that was created later,  *)
(* or, of the same second, has the greater identifier, is the newer.       *)
LEMMA NewerIsAnOrder ==
  ASSUME NEW n \in Nat, NEW T, Rows(T, n)
  PROVE  /\ \A i, j, k \in DOMAIN T : Newer(T, i, j) /\ Newer(T, j, k) => Newer(T, i, k)
         /\ \A i \in DOMAIN T : ~Newer(T, i, i)
         /\ \A i, j \in DOMAIN T : i # j => Newer(T, i, j) \/ Newer(T, j, i)
<1>1. \A i \in DOMAIN T : i \in Nat /\ T[i].created \in Nat
  BY DEF Rows, CredentialRows
<1>. QED
  BY <1>1 DEF Newer

(* Of some rows, one is the newest ...                                     *)
LEMMA NewestExists ==
  ASSUME NEW n \in Nat, NEW T, Rows(T, n), NEW S \in SUBSET DOMAIN T, S # {}
  PROVE  \E i \in S : \A j \in S \ {i} : Newer(T, i, j)
<1> DEFINE R == {e \in S \X S : Newer(T, e[1], e[2])}
<1>1. IsFiniteSet(S)
  <2>1. IsFiniteSet(0..(n - 1))
    BY FS_Interval
  <2>. QED
    BY <2>1, FS_Subset DEF Rows
<1>2. \A i, j \in S : <<i, j>> \in R <=> Newer(T, i, j)
  OBVIOUS
<1> HIDE DEF R
<1>3. /\ \A x, y, z \in S : <<x, y>> \in R /\ <<y, z>> \in R => <<x, z>> \in R
      /\ \A x \in S : <<x, x>> \notin R
      /\ \A x, y \in S : x # y => <<x, y>> \in R \/ <<y, x>> \in R
  BY <1>2, NewerIsAnOrder
<1>4. \E x \in S : \A y \in S \ {x} : <<x, y>> \in R
  BY <1>1, <1>3, LeastElement
<1>. QED
  BY <1>2, <1>4

(* ... and one is the oldest.                                              *)
LEMMA OldestExists ==
  ASSUME NEW n \in Nat, NEW T, Rows(T, n), NEW S \in SUBSET DOMAIN T, S # {}
  PROVE  \E i \in S : \A j \in S \ {i} : Newer(T, j, i)
<1> DEFINE R == {e \in S \X S : Newer(T, e[2], e[1])}
<1>1. IsFiniteSet(S)
  <2>1. IsFiniteSet(0..(n - 1))
    BY FS_Interval
  <2>. QED
    BY <2>1, FS_Subset DEF Rows
<1>2. \A i, j \in S : <<i, j>> \in R <=> Newer(T, j, i)
  OBVIOUS
<1> HIDE DEF R
<1>3. /\ \A x, y, z \in S : <<x, y>> \in R /\ <<y, z>> \in R => <<x, z>> \in R
      /\ \A x \in S : <<x, x>> \notin R
      /\ \A x, y \in S : x # y => <<x, y>> \in R \/ <<y, x>> \in R
  BY <1>2, NewerIsAnOrder
<1>4. \E x \in S : \A y \in S \ {x} : <<x, y>> \in R
  BY <1>1, <1>3, LeastElement
<1>. QED
  BY <1>2, <1>4

------------------------------------------------------------------------------
(* Pruning                                                                 *)

(* The sets that pruning counts are finite.                                *)
LEMMA FiniteRows ==
  ASSUME NEW n \in Nat, NEW T, Rows(T, n), NEW S \in SUBSET DOMAIN T
  PROVE  IsFiniteSet(S) /\ Cardinality(S) \in Nat
<1>1. IsFiniteSet(0..(n - 1))
  BY FS_Interval
<1>2. IsFiniteSet(S)
  BY <1>1, FS_Subset DEF Rows
<1>. QED
  BY <1>2, FS_CardinalityType

NewerThan(T, p, t, i) == {j \in LiveDynamic(T, p, t) : Newer(T, j, i)}

(* No more than MaxActive are kept: all but one of them are newer than the *)
(* oldest of them.                                                         *)
LEMMA NewestAreFew ==
  ASSUME NEW n \in Nat, NEW T, Rows(T, n), NEW p, NEW t
  PROVE  Cardinality(Newest(T, p, t)) <= MaxActive
<1> DEFINE N == Newest(T, p, t)
<1>1. N \in SUBSET DOMAIN T /\ N \subseteq LiveDynamic(T, p, t)
  BY DEF Newest, LiveDynamic, Dynamic
<1>2. LiveDynamic(T, p, t) \in SUBSET DOMAIN T
  BY DEF LiveDynamic, Dynamic
<1>3. \A i \in N : NewerThan(T, p, t, i) \in SUBSET DOMAIN T
                   /\ Cardinality(NewerThan(T, p, t, i)) < MaxActive
  BY DEF Newest, LiveDynamic, Dynamic, NewerThan
<1>4. CASE N = {}
  BY <1>4, FS_EmptySet, MaxActiveAssumption
<1>5. CASE N # {}
  <2> HIDE DEF N
  <2>1. PICK i \in N : \A j \in N \ {i} : Newer(T, j, i)
    BY <1>1, <1>5, OldestExists
  <2>2. N \ {i} \subseteq NewerThan(T, p, t, i)
    BY <1>1, <2>1 DEF NewerThan
  <2>3. IsFiniteSet(N) /\ Cardinality(N) \in Nat /\ IsFiniteSet(NewerThan(T, p, t, i))
        /\ Cardinality(NewerThan(T, p, t, i)) \in Nat
    BY <1>1, <1>3, FiniteRows
  <2>4. Cardinality(N \ {i}) <= Cardinality(NewerThan(T, p, t, i))
    BY <2>2, <2>3, FS_Subset
  <2>5. Cardinality(N \ {i}) = Cardinality(N) - 1
    BY <2>3, FS_RemoveElement
  <2>. QED
    BY <1>3, <2>3, <2>4, <2>5, MaxActiveAssumption DEF N
<1>. QED
  BY <1>4, <1>5

(* If one that could still be used goes, MaxActive newer ones are kept.    *)
LEMMA SurplusMeansFull ==
  ASSUME NEW n \in Nat, NEW T, Rows(T, n), NEW p, NEW t,
         NEW d \in LiveDynamic(T, p, t), d \notin Newest(T, p, t)
  PROVE  /\ Cardinality(Newest(T, p, t)) = MaxActive
         /\ \A i \in Newest(T, p, t) : Newer(T, i, d)
<1> DEFINE N == Newest(T, p, t)
           L == LiveDynamic(T, p, t)
<1>1. N \in SUBSET DOMAIN T /\ L \in SUBSET DOMAIN T /\ N \subseteq L
  BY DEF Newest, LiveDynamic, Dynamic
<1>2. \A i \in L : /\ NewerThan(T, p, t, i) \in SUBSET DOMAIN T
                   /\ i \in N <=> Cardinality(NewerThan(T, p, t, i)) < MaxActive
  BY DEF Newest, LiveDynamic, Dynamic, NewerThan
<1>3. Cardinality(N) \in Nat /\ IsFiniteSet(N)
  BY <1>1, FiniteRows
<1>4. Cardinality(N) <= MaxActive
  BY NewestAreFew
<1>5. ASSUME Cardinality(N) < MaxActive PROVE FALSE
  <2>1. L \ N \in SUBSET DOMAIN T /\ L \ N # {}
    BY <1>1
  <2> HIDE DEF N, L
  <2>2. PICK i \in L \ N : \A j \in (L \ N) \ {i} : Newer(T, i, j)
    BY <2>1, NewestExists
  <2>3. NewerThan(T, p, t, i) \subseteq N
    <3>1. SUFFICES ASSUME NEW j \in L, Newer(T, j, i), j \notin N PROVE FALSE
      BY DEF NewerThan, L
    <3>2. j # i /\ Newer(T, i, j)
      BY <1>1, <2>2, <3>1, NewerIsAnOrder
    <3>3. Newer(T, i, i)
      BY <1>1, <3>1, <3>2, NewerIsAnOrder
    <3>. QED
      BY <1>1, <3>3, NewerIsAnOrder
  <2>4. Cardinality(NewerThan(T, p, t, i)) <= Cardinality(N)
    BY <1>3, <2>3, FS_Subset
  <2>5. Cardinality(NewerThan(T, p, t, i)) \in Nat
    BY <1>2, FiniteRows
  <2>. QED
    BY <1>2, <1>3, <1>5, <2>2, <2>4, <2>5, MaxActiveAssumption
<1>6. ASSUME NEW i \in N, ~Newer(T, i, d) PROVE FALSE
  <2>1. d \in L /\ d \notin N /\ i # d
    BY <1>6
  <2> HIDE DEF N, L
  <2>2. Newer(T, d, i)
    BY <1>1, <1>6, <2>1, NewerIsAnOrder
  <2>3. NewerThan(T, p, t, d) \subseteq NewerThan(T, p, t, i)
    <3>1. SUFFICES ASSUME NEW j \in L, Newer(T, j, d) PROVE Newer(T, j, i)
      BY DEF NewerThan, L
    <3>. QED
      BY <1>1, <1>6, <2>1, <2>2, <3>1, NewerIsAnOrder
  <2>4. /\ IsFiniteSet(NewerThan(T, p, t, i))
        /\ Cardinality(NewerThan(T, p, t, i)) \in Nat
        /\ Cardinality(NewerThan(T, p, t, d)) \in Nat
    BY <1>1, <1>2, <1>6, <2>1, FiniteRows
  <2>5. Cardinality(NewerThan(T, p, t, d)) <= Cardinality(NewerThan(T, p, t, i))
    BY <2>3, <2>4, FS_Subset
  <2>. QED
    BY <1>1, <1>2, <1>6, <2>1, <2>4, <2>5, MaxActiveAssumption
<1>. QED
  BY <1>3, <1>4, <1>5, <1>6, MaxActiveAssumption

------------------------------------------------------------------------------
(* The statements on tables with a bound                                   *)

(* With fewer rows, or more of them managed, a table keeps to the bound.   *)
LEMMA FewerRows ==
  ASSUME NEW n \in Nat, NEW T, Rows(T, n), Bounded(T), NEW U,
         \A p \in Principals : Dynamic(U, p) \subseteq Dynamic(T, p)
  PROVE  Bounded(U)
<1> SUFFICES ASSUME NEW p \in Principals PROVE Cardinality(Dynamic(U, p)) <= MaxActive
  BY DEF Bounded
<1>1. Dynamic(T, p) \in SUBSET DOMAIN T
  BY DEF Dynamic
<1>2. IsFiniteSet(Dynamic(T, p)) /\ Cardinality(Dynamic(T, p)) \in Nat
  BY <1>1, FiniteRows
<1>3. Cardinality(Dynamic(U, p)) <= Cardinality(Dynamic(T, p))
  BY <1>2, FS_Subset
<1>4. Cardinality(Dynamic(U, p)) \in Nat
  BY <1>2, FS_Subset, FS_CardinalityType
<1>5. Cardinality(Dynamic(T, p)) <= MaxActive
  BY DEF Bounded
<1>. QED
  BY <1>2, <1>3, <1>4, <1>5, MaxActiveAssumption

(* A purge leaves rows as they are.                                        *)
LEMMA PurgedTable ==
  ASSUME NEW n \in Nat, NEW T, Rows(T, n), NEW t
  PROVE  /\ DOMAIN Purged(T, t) = {i \in DOMAIN T : Live(T[i], t)}
         /\ \A i \in DOMAIN Purged(T, t) : Purged(T, t)[i] = T[i]
         /\ Rows(Purged(T, t), n)
         /\ Bounded(T) => Bounded(Purged(T, t))
<1> DEFINE U == Purged(T, t)
<1>1. /\ DOMAIN U = {i \in DOMAIN T : Live(T[i], t)}
      /\ \A i \in DOMAIN U : U[i] = T[i]
  BY DEF Purged, Restrict
<1> HIDE DEF U
<1>2. Rows(U, n)
  BY <1>1 DEF Rows
<1>3. \A p \in Principals : Dynamic(U, p) \subseteq Dynamic(T, p)
  BY <1>1 DEF Dynamic
<1>4. Bounded(T) => Bounded(U)
  BY <1>3, FewerRows
<1>. QED
  BY <1>1, <1>2, <1>4 DEF U

(* A revocation only leaves its mark.                                      *)
LEMMA RevokedTable ==
  ASSUME NEW n \in Nat, NEW T, Rows(T, n), NEW rows
  PROVE  /\ DOMAIN Revoked(T, rows) = DOMAIN T
         /\ \A i \in DOMAIN T : Revoked(T, rows)[i] = IF i \in rows
                                  THEN [T[i] EXCEPT !.revoked = TRUE] ELSE T[i]
         /\ Rows(Revoked(T, rows), n)
         /\ Bounded(T) => Bounded(Revoked(T, rows))
<1> DEFINE U == Revoked(T, rows)
<1>1. /\ DOMAIN U = DOMAIN T
      /\ \A i \in DOMAIN T : U[i] = IF i \in rows
                                    THEN [T[i] EXCEPT !.revoked = TRUE] ELSE T[i]
  BY DEF Revoked
<1> HIDE DEF U
<1>2. \A r \in CredentialRows :
        /\ [r EXCEPT !.revoked = TRUE] \in CredentialRows
        /\ [r EXCEPT !.revoked = TRUE].owner = r.owner
        /\ [r EXCEPT !.revoked = TRUE].managed = r.managed
  BY DEF CredentialRows
<1>3. \A i \in DOMAIN T : /\ U[i] \in CredentialRows
                          /\ U[i].owner = T[i].owner /\ U[i].managed = T[i].managed
  BY <1>1, <1>2 DEF Rows
<1>4. Rows(U, n)
  BY <1>1, <1>3 DEF Rows
<1>5. \A p \in Principals : Dynamic(U, p) \subseteq Dynamic(T, p)
  BY <1>1, <1>3 DEF Dynamic
<1>6. Bounded(T) => Bounded(U)
  BY <1>5, FewerRows
<1>. QED
  BY <1>1, <1>4, <1>6 DEF U

(* A new credential keeps to the bound, and only a surplus goes for it.    *)
LEMMA CreatedTable ==
  ASSUME NEW n \in Nat, NEW T, Rows(T, n), NEW p \in Principals, NEW t \in Nat
  PROVE  LET C == CreateCredential(T, n, p, t)
         IN  /\ Rows(C, n + 1)
             /\ Bounded(T) => Bounded(C)
             /\ \A d \in DOMAIN T \ DOMAIN C : Live(T[d], t) =>
                  /\ T[d].owner = p /\ ~T[d].managed
                  /\ Cardinality(Dynamic(C, p)) = MaxActive
                  /\ \A i \in Dynamic(C, p) : C[i].created >= T[d].created
             /\ n \notin DOMAIN C =>
                  /\ Cardinality(Dynamic(C, p)) = MaxActive
                  /\ \A i \in Dynamic(C, p) : C[i].created > t
<1> DEFINE new == NewCredential(n, p, FALSE, t)
           I == Inserted(T, n, new)
           C == CreateCredential(T, n, p, t)
<1>1. n \notin DOMAIN T
  BY DEF Rows
<1>2. /\ new \in CredentialRows /\ new.owner = p
      /\ new.created = t /\ ~new.managed /\ Live(new, t)
  BY TimeoutAssumption DEF NewCredential, CredentialRows, Secrets, Live
<1>3. DOMAIN I = DOMAIN T \cup {n} /\ \A i \in DOMAIN I : I[i] = IF i = n THEN new ELSE T[i]
  BY DEF Inserted
<1>4. /\ DOMAIN C = {i \in DOMAIN I : \/ I[i].owner # p
                                      \/ Live(I[i], t) /\ I[i].managed
                                      \/ i \in Newest(I, p, t)}
      /\ \A i \in DOMAIN C : C[i] = I[i]
  BY DEF CreateCredential, Pruned, Restrict
<1> HIDE DEF new, I, C
<1>5. Rows(I, n + 1)
  BY <1>2, <1>3 DEF Rows
<1>6. DOMAIN C \subseteq DOMAIN I
  BY <1>4
<1>7. Rows(C, n + 1)
  BY <1>4, <1>5, <1>6 DEF Rows
<1>8. Dynamic(C, p) = Newest(I, p, t)
  BY <1>4 DEF Dynamic, Newest
<1>9. ASSUME Bounded(T) PROVE Bounded(C)
  <2> SUFFICES ASSUME NEW q \in Principals PROVE Cardinality(Dynamic(C, q)) <= MaxActive
    BY DEF Bounded
  <2>1. CASE q = p
    BY <1>5, <1>8, <2>1, NewestAreFew
  <2>2. CASE q # p
    <3>1. Dynamic(C, q) = Dynamic(T, q)
      BY <1>1, <1>2, <1>3, <1>4, <2>2 DEF Dynamic
    <3>. QED
      BY <1>9, <3>1 DEF Bounded
  <2>. QED
    BY <2>1, <2>2
<1>10. ASSUME NEW d \in DOMAIN T \ DOMAIN C, Live(T[d], t)
       PROVE  /\ T[d].owner = p /\ ~T[d].managed
              /\ Cardinality(Dynamic(C, p)) = MaxActive
              /\ \A i \in Dynamic(C, p) : C[i].created >= T[d].created
  <2>1. d \in DOMAIN I /\ I[d] = T[d] /\ d \notin DOMAIN C
    BY <1>1, <1>3
  <2>2. T[d].owner = p /\ ~T[d].managed /\ d \notin Newest(I, p, t)
    BY <1>4, <1>10, <2>1
  <2>3. d \in LiveDynamic(I, p, t)
    BY <1>10, <2>1, <2>2 DEF LiveDynamic, Dynamic
  <2>4. /\ Cardinality(Newest(I, p, t)) = MaxActive
        /\ \A i \in Newest(I, p, t) : Newer(I, i, d)
    BY <1>5, <2>2, <2>3, SurplusMeansFull
  <2>5. ASSUME NEW i \in Dynamic(C, p) PROVE C[i].created >= T[d].created
    <3>1. i \in DOMAIN I /\ C[i] = I[i] /\ Newer(I, i, d)
      BY <1>4, <1>6, <1>8, <2>4 DEF Dynamic
    <3>2. I[i].created \in Nat /\ I[d].created \in Nat
      BY <1>5, <2>1, <3>1 DEF Rows, CredentialRows
    <3>. QED
      BY <2>1, <3>1, <3>2 DEF Newer
  <2>. QED
    BY <1>8, <2>2, <2>4, <2>5
<1>11. ASSUME n \notin DOMAIN C
       PROVE  /\ Cardinality(Dynamic(C, p)) = MaxActive
              /\ \A i \in Dynamic(C, p) : C[i].created > t
  <2>1. n \in LiveDynamic(I, p, t) /\ n \notin Newest(I, p, t) /\ I[n].created = t
    BY <1>2, <1>3, <1>4, <1>11 DEF LiveDynamic, Dynamic
  <2>2. /\ Cardinality(Newest(I, p, t)) = MaxActive
        /\ \A i \in Newest(I, p, t) : Newer(I, i, n)
    BY <1>5, <2>1, SurplusMeansFull
  <2>3. ASSUME NEW i \in Dynamic(C, p) PROVE C[i].created > t
    <3>1. i \in 0..n /\ C[i] = I[i] /\ Newer(I, i, n)
      BY <1>4, <1>5, <1>6, <1>8, <2>2 DEF Dynamic, Rows
    <3>2. I[i].created \in Nat
      BY <1>4, <1>5, <1>6, <2>3 DEF Dynamic, Rows, CredentialRows
    <3>. QED
      BY <2>1, <3>1, <3>2 DEF Newer
  <2>. QED
    BY <1>8, <2>2, <2>3
<1>. QED
  BY <1>7, <1>9, <1>10, <1>11 DEF C
==============================================================================
