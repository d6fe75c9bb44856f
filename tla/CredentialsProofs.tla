-------------------------- MODULE CredentialsProofs ---------------------------
(***************************************************************************)
(* Theorems about the life of sessions and API tokens, for any number of   *)
(* principals, requests, rows and configurations.                          *)
(***************************************************************************)
EXTENDS Credentials, CredentialTableProofs

(* The idle timeout runs from the last recorded use; a secret that the     *)
(* server made is the row's own, and another one is a configured token's.  *)
Named(i, c) == c.secret = i \/ (c.secret \in StaticTokens /\ c.managed)

GoodTable(T, n, t) ==
  /\ Rows(T, n)
  /\ \A i \in DOMAIN T :
       T[i].expires = T[i].used + IdleTimeout /\ T[i].used <= t /\ Named(i, T[i])
  /\ \A i, j \in DOMAIN T : T[i].secret = T[j].secret => i = j

Types ==
  /\ next \in Nat /\ now \in Nat
  /\ GoodTable(tokens, next, now)
  /\ status \in Statuses /\ config \in Configs /\ todo \subseteq DOMAIN config
  /\ req \in [Requests -> RequestStates]

(* Only the server that is up has requests.                                *)
NoRequestsAtStart == status # "up" => \A r \in Requests : req[r] = Idle

(* After the managed tokens were revoked, a static token that is valid is  *)
(* one of this configuration.                                              *)
AsConfigured(c) ==
  c.secret \in StaticTokens => c.secret \in DOMAIN config /\ c.owner = config[c.secret]

Configured ==
  status \in {"provisioning", "purging", "up"} =>
    \A i \in DOMAIN tokens : tokens[i].revoked \/ AsConfigured(tokens[i])

(* What a request knows of its credential: the row was what it remembers,  *)
(* and has been used since at most.                                        *)
GoodRequest(k) ==
  k.pc # "idle" =>
    /\ k.id < next
    /\ k.row.expires = k.row.used + IdleTimeout
    /\ AsConfigured(k.row)
    /\ k.id \in DOMAIN tokens => tokens[k.id].used >= k.row.used
    /\ k.pc # "selected" => k.time <= now
    /\ k.pc = "accepted" /\ k.id \in DOMAIN tokens =>
         tokens[k.id].revoked \/ tokens[k.id].expires > k.time + IdleTimeout - RollInterval

GoodRequests == \A r \in Requests : GoodRequest(req[r])

Inv == Types /\ NoRequestsAtStart /\ Configured /\ GoodRequests

------------------------------------------------------------------------------
(* How rows change *)

(* A credential keeps its owner, its secret and its record of uses.        *)
Keeps(c, d) ==
  /\ d.owner = c.owner /\ d.secret = c.secret /\ d.created = c.created
  /\ d.used >= c.used /\ d.expires = d.used + IdleTimeout
  /\ c.managed => d.managed

(* A step of the running server: rows stay, or come with the next          *)
(* identifier, and what is revoked stays revoked.                          *)
Evolves(T, U, n) ==
  \A i \in DOMAIN U :
    \/ i \in DOMAIN T /\ Keeps(T[i], U[i]) /\ (T[i].revoked => U[i].revoked)
    \/ i = n /\ U[i].secret = n

(* A row of a good table.                                                  *)
LEMMA RowFields ==
  ASSUME NEW n \in Nat, NEW t \in Nat, NEW T, GoodTable(T, n, t), NEW i \in DOMAIN T
  PROVE  /\ i \in Nat /\ i < n /\ T[i] \in CredentialRows
         /\ T[i].used \in Nat /\ T[i].expires \in Nat /\ T[i].created \in Nat
         /\ T[i].owner \in Principals /\ T[i].secret \in Secrets
         /\ Keeps(T[i], T[i])
BY TimeoutAssumption DEF GoodTable, Rows, CredentialRows, Keeps

(* A table whose rows are some of a good one's is a good one.              *)
LEMMA SomeRows ==
  ASSUME NEW n \in Nat, NEW t \in Nat, NEW T, GoodTable(T, n, t), NEW U,
         DOMAIN U \subseteq DOMAIN T, \A i \in DOMAIN U : U[i] = T[i]
  PROVE  GoodTable(U, n, t) /\ Evolves(T, U, n)
<1>1. GoodTable(U, n, t)
  BY DEF GoodTable, Rows
<1>2. \A i \in DOMAIN U : Keeps(T[i], U[i])
  BY RowFields
<1>. QED
  BY <1>1, <1>2 DEF Evolves

(* Rows may change in place, as long as they keep what identifies them.    *)
LEMMA ChangedRows ==
  ASSUME NEW n \in Nat, NEW t \in Nat, NEW T, GoodTable(T, n, t), NEW U,
         DOMAIN U = DOMAIN T,
         \A i \in DOMAIN T : U[i] \in CredentialRows /\ Keeps(T[i], U[i]) /\ U[i].used <= t
  PROVE  GoodTable(U, n, t)
<1>1. Rows(U, n)
  BY DEF GoodTable, Rows
<1>2. \A i \in DOMAIN U :
        U[i].expires = U[i].used + IdleTimeout /\ U[i].used <= t /\ Named(i, U[i])
  BY DEF GoodTable, Named, Keeps
<1>3. \A i, j \in DOMAIN U : U[i].secret = U[j].secret => i = j
  BY DEF GoodTable, Keeps
<1>. QED
  BY <1>1, <1>2, <1>3 DEF GoodTable

(* The fields that a statement sets.                                       *)
LEMMA Marked ==
  ASSUME NEW c \in CredentialRows
  PROVE  LET d == [c EXCEPT !.revoked = TRUE]
         IN  /\ d \in CredentialRows /\ d.revoked
             /\ d.owner = c.owner /\ d.secret = c.secret /\ d.created = c.created
             /\ d.managed = c.managed /\ d.used = c.used /\ d.expires = c.expires
BY DEF CredentialRows

(* A use records its time, and the timeout starts anew.                    *)
LEMMA UsedAt ==
  ASSUME NEW c \in CredentialRows, NEW t \in Nat
  PROVE  LET d == [c EXCEPT !.used = t, !.expires = t + IdleTimeout]
         IN  /\ d \in CredentialRows /\ d.revoked = c.revoked
             /\ d.owner = c.owner /\ d.secret = c.secret /\ d.created = c.created
             /\ d.managed = c.managed /\ d.used = t /\ d.expires = t + IdleTimeout
<1>1. t + IdleTimeout \in Nat
  BY TimeoutAssumption
<1>2. PICK e : e = t + IdleTimeout
  OBVIOUS
<1>3. LET d == [c EXCEPT !.used = t, !.expires = e]
      IN  /\ d \in CredentialRows /\ d.revoked = c.revoked
          /\ d.owner = c.owner /\ d.secret = c.secret /\ d.created = c.created
          /\ d.managed = c.managed /\ d.used = t /\ d.expires = e
  BY <1>1, <1>2 DEF CredentialRows
<1>. QED
  BY <1>2, <1>3

(* Provisioning makes a row valid and managed, and keeps whose it is.      *)
LEMMA Revived ==
  ASSUME NEW c \in CredentialRows, NEW t \in Nat
  PROVE  LET d == [c EXCEPT !.managed = TRUE, !.used = t, !.expires = t + IdleTimeout,
                            !.revoked = FALSE]
         IN  /\ d \in CredentialRows /\ d.managed /\ ~d.revoked
             /\ d.owner = c.owner /\ d.secret = c.secret /\ d.created = c.created
             /\ d.used = t /\ d.expires = t + IdleTimeout
<1>1. t + IdleTimeout \in Nat
  BY TimeoutAssumption
<1>2. PICK e : e = t + IdleTimeout
  OBVIOUS
<1>3. LET d == [c EXCEPT !.managed = TRUE, !.used = t, !.expires = e, !.revoked = FALSE]
      IN  /\ d \in CredentialRows /\ d.managed /\ ~d.revoked
          /\ d.owner = c.owner /\ d.secret = c.secret /\ d.created = c.created
          /\ d.used = t /\ d.expires = e
  BY <1>1, <1>2 DEF CredentialRows
<1>. QED
  BY <1>2, <1>3

------------------------------------------------------------------------------
(* The statements, on a good table *)

(* Each of the running server's statements lets the table evolve: ...      *)
LEMMA RevokedEvolves ==
  ASSUME NEW n \in Nat, NEW t \in Nat, NEW T, GoodTable(T, n, t), NEW rows
  PROVE  GoodTable(Revoked(T, rows), n, t) /\ Evolves(T, Revoked(T, rows), n)
<1> DEFINE U == Revoked(T, rows)
<1>1. /\ DOMAIN U = DOMAIN T
      /\ \A i \in DOMAIN T : U[i] = IF i \in rows
                                    THEN [T[i] EXCEPT !.revoked = TRUE] ELSE T[i]
  BY DEF Revoked
<1> HIDE DEF U
<1>2. ASSUME NEW i \in DOMAIN T
      PROVE  /\ U[i] \in CredentialRows /\ Keeps(T[i], U[i]) /\ U[i].used <= t
             /\ T[i].revoked => U[i].revoked
  <2>1. T[i] \in CredentialRows /\ T[i].used <= t /\ Keeps(T[i], T[i])
    BY RowFields DEF GoodTable
  <2>2. CASE i \in rows
    <3> DEFINE d == [T[i] EXCEPT !.revoked = TRUE]
    <3>1. /\ d \in CredentialRows /\ d.revoked
          /\ d.owner = T[i].owner /\ d.secret = T[i].secret /\ d.created = T[i].created
          /\ d.managed = T[i].managed /\ d.used = T[i].used /\ d.expires = T[i].expires
      BY <2>1, Marked
    <3>2. U[i] = d
      BY <1>1, <2>2
    <3> HIDE DEF d
    <3>. QED
      BY <2>1, <3>1, <3>2 DEF Keeps
  <2>3. CASE i \notin rows
    BY <1>1, <2>1, <2>3
  <2>. QED
    BY <2>2, <2>3
<1>3. GoodTable(U, n, t)
  BY <1>1, <1>2, ChangedRows
<1>. QED
  BY <1>1, <1>2, <1>3 DEF Evolves, U

(* ... rolling, ...                                                        *)
LEMMA RolledEvolves ==
  ASSUME NEW n \in Nat, NEW t \in Nat, NEW T, GoodTable(T, n, t), NEW k, NEW u \in Nat, u <= t
  PROVE  GoodTable(Rolled(T, k, u), n, t) /\ Evolves(T, Rolled(T, k, u), n)
<1>1. CASE ~(k \in DOMAIN T /\ T[k].used <= u - RollInterval /\ ~T[k].revoked)
  BY <1>1, SomeRows DEF Rolled
<1>2. CASE k \in DOMAIN T /\ T[k].used <= u - RollInterval /\ ~T[k].revoked
  <2> DEFINE U == Rolled(T, k, u)
             d == [T[k] EXCEPT !.used = u, !.expires = u + IdleTimeout]
  <2>1. T[k] \in CredentialRows /\ T[k].used \in Nat
    BY <1>2, RowFields
  <2>2. /\ d \in CredentialRows /\ d.revoked = T[k].revoked
        /\ d.owner = T[k].owner /\ d.secret = T[k].secret /\ d.created = T[k].created
        /\ d.managed = T[k].managed /\ d.used = u /\ d.expires = u + IdleTimeout
    BY <2>1, UsedAt
  <2>3. T[k].used <= u
    BY <1>2, <2>1, TimeoutAssumption
  <2>4. DOMAIN U = DOMAIN T /\ \A i \in DOMAIN T : U[i] = IF i = k THEN d ELSE T[i]
    BY <1>2 DEF Rolled
  <2> HIDE DEF U, d
  <2>5. Keeps(T[k], d)
    BY <2>2, <2>3 DEF Keeps
  <2>6. \A i \in DOMAIN T : T[i] \in CredentialRows /\ T[i].used <= t /\ Keeps(T[i], T[i])
    BY RowFields DEF GoodTable
  <2>7. \A i \in DOMAIN T :
          /\ U[i] \in CredentialRows /\ Keeps(T[i], U[i]) /\ U[i].used <= t
          /\ T[i].revoked => U[i].revoked
    BY <2>2, <2>4, <2>5, <2>6
  <2>8. GoodTable(U, n, t)
    BY <2>4, <2>7, ChangedRows
  <2>. QED
    BY <2>4, <2>7, <2>8 DEF Evolves, U
<1>. QED
  BY <1>1, <1>2

(* ... the purge ...                                                       *)
LEMMA PurgedEvolves ==
  ASSUME NEW n \in Nat, NEW t \in Nat, NEW T, GoodTable(T, n, t), NEW u
  PROVE  GoodTable(Purged(T, u), n, t) /\ Evolves(T, Purged(T, u), n)
<1>1. /\ DOMAIN Purged(T, u) \subseteq DOMAIN T
      /\ \A i \in DOMAIN Purged(T, u) : Purged(T, u)[i] = T[i]
  BY DEF Purged, Restrict
<1>. QED
  BY <1>1, SomeRows

(* How a row comes, and that its secret is not yet there.                  *)
RowAdded(T, U, n, c) ==
  /\ DOMAIN U \subseteq DOMAIN T \cup {n}
  /\ \A i \in DOMAIN U : U[i] = IF i = n THEN c ELSE T[i]

HasNewSecret(c, T) == \A i \in DOMAIN T : T[i].secret # c.secret

(* A row with a secret of its own comes to the others.                     *)
LEMMA InsertedRow ==
  ASSUME NEW n \in Nat, NEW t \in Nat, NEW T, GoodTable(T, n, t),
         NEW c \in CredentialRows, c.expires = c.used + IdleTimeout, c.used <= t, Named(n, c),
         HasNewSecret(c, T), NEW U, RowAdded(T, U, n, c)
  PROVE  GoodTable(U, n + 1, t)
<1>1. \A i \in DOMAIN T : i \in Nat /\ i < n
  BY RowFields
<1>2. Rows(U, n + 1)
  BY <1>1 DEF GoodTable, Rows, RowAdded
<1>3. \A i \in DOMAIN U :
        U[i].expires = U[i].used + IdleTimeout /\ U[i].used <= t /\ Named(i, U[i])
  BY DEF GoodTable, RowAdded
<1>4. \A i, j \in DOMAIN U : U[i].secret = U[j].secret => i = j
  BY DEF GoodTable, RowAdded, HasNewSecret
<1>. QED
  BY <1>2, <1>3, <1>4 DEF GoodTable

(* ... and the creation of a credential.                                   *)
LEMMA CreatedEvolves ==
  ASSUME NEW n \in Nat, NEW t \in Nat, NEW T, GoodTable(T, n, t), NEW p \in Principals,
         NEW u \in Nat, u <= t
  PROVE  /\ GoodTable(CreateCredential(T, n, p, u), n + 1, t)
         /\ Evolves(T, CreateCredential(T, n, p, u), n)
<1> DEFINE C == CreateCredential(T, n, p, u)
           new == NewCredential(n, p, FALSE, u)
<1>1. /\ DOMAIN C \subseteq DOMAIN T \cup {n}
      /\ \A i \in DOMAIN C : C[i] = IF i = n THEN new ELSE T[i]
  BY DEF CreateCredential, Pruned, Restrict, Inserted
<1>2. /\ new \in CredentialRows /\ new.secret = n
      /\ new.used = u /\ new.expires = u + IdleTimeout
  BY TimeoutAssumption DEF NewCredential, CredentialRows, Secrets
<1> HIDE DEF C, new
<1>3. ASSUME NEW i \in DOMAIN T PROVE T[i].secret # new.secret
  <2>1. Named(i, T[i]) /\ i # n
    BY RowFields DEF GoodTable
  <2>. QED
    BY <1>2, <2>1, StaticTokensAssumption DEF Named
<1>4. new.used <= t /\ new.expires = new.used + IdleTimeout /\ Named(n, new)
  BY <1>2 DEF Named
<1>5. GoodTable(C, n + 1, t)
  <2>1. RowAdded(T, C, n, new) /\ HasNewSecret(new, T)
    BY <1>1, <1>3 DEF RowAdded, HasNewSecret
  <2>. QED
    BY <1>2, <1>4, <2>1, InsertedRow
<1>6. \A i \in DOMAIN T : Keeps(T[i], T[i])
  BY RowFields
<1>7. Evolves(T, C, n)
  BY <1>1, <1>2, <1>6 DEF Evolves
<1>. QED
  BY <1>5, <1>7 DEF C

(* At the start, a configured token is the configuration's: its row is     *)
(* there and valid, whether it was or not.                                 *)
LEMMA ProvisionedTable ==
  ASSUME NEW n \in Nat, NEW t \in Nat, NEW T, GoodTable(T, n, t), NEW p \in Principals,
         NEW s \in StaticTokens, ~BelongsToAnother(T, s, p),
         NEW m, m = IF BySecret(T, s) = {} THEN n + 1 ELSE n
  PROVE  LET U == Provisioned(T, n, s, p, t)
         IN  /\ GoodTable(U, m, t)
             /\ DOMAIN T \subseteq DOMAIN U
             /\ \A i \in DOMAIN T : Keeps(T[i], U[i])
             /\ \A i \in DOMAIN U :
                  \/ U[i].secret = s /\ U[i].owner = p /\ U[i].managed
                  \/ i \in DOMAIN T /\ U[i] = T[i]
<1> DEFINE U == Provisioned(T, n, s, p, t)
<1>1. \A i \in DOMAIN T : /\ T[i] \in CredentialRows /\ T[i].used <= t /\ Keeps(T[i], T[i])
                           /\ i \in Nat /\ i < n
  BY RowFields DEF GoodTable
<1>2. CASE BySecret(T, s) = {}
  <2> DEFINE new == NewCredential(s, p, TRUE, t)
  <2>1. DOMAIN U = DOMAIN T \cup {n} /\ \A i \in DOMAIN U : U[i] = IF i = n THEN new ELSE T[i]
    BY <1>2 DEF Provisioned, Inserted
  <2>2. /\ new \in CredentialRows /\ new.secret = s /\ new.owner = p /\ new.managed
        /\ new.used = t /\ new.expires = t + IdleTimeout
    BY TimeoutAssumption DEF NewCredential, CredentialRows, Secrets
  <2> HIDE DEF U, new
  <2>3. \A i \in DOMAIN T : T[i].secret # new.secret
    BY <1>2, <2>2 DEF BySecret
  <2>4. new.used <= t /\ new.expires = new.used + IdleTimeout /\ Named(n, new)
    BY <2>2 DEF Named
  <2>5. RowAdded(T, U, n, new) /\ HasNewSecret(new, T) /\ m = n + 1
    BY <1>2, <2>1, <2>3 DEF RowAdded, HasNewSecret
  <2>6. GoodTable(U, m, t)
    BY <2>2, <2>4, <2>5, InsertedRow
  <2>7. \A i \in DOMAIN T : Keeps(T[i], U[i])
    BY <1>1, <2>1
  <2>8. \A i \in DOMAIN U : \/ U[i].secret = s /\ U[i].owner = p /\ U[i].managed
                            \/ i \in DOMAIN T /\ U[i] = T[i]
    BY <2>1, <2>2
  <2>. QED
    BY <2>1, <2>6, <2>7, <2>8 DEF U
<1>3. CASE BySecret(T, s) # {}
  <2>1. /\ DOMAIN U = DOMAIN T
        /\ \A i \in DOMAIN T :
             U[i] = IF i \in BySecret(T, s)
                    THEN [T[i] EXCEPT !.managed = TRUE, !.used = t,
                                      !.expires = t + IdleTimeout, !.revoked = FALSE]
                    ELSE T[i]
    BY <1>3 DEF Provisioned
  <2> HIDE DEF U
  <2>2. \A i \in BySecret(T, s) : i \in DOMAIN T /\ T[i].secret = s /\ T[i].owner = p
    BY DEF BySecret, BelongsToAnother
  <2>3. ASSUME NEW i \in DOMAIN T
        PROVE  /\ U[i] \in CredentialRows /\ Keeps(T[i], U[i]) /\ U[i].used <= t
               /\ \/ U[i].secret = s /\ U[i].owner = p /\ U[i].managed
                  \/ U[i] = T[i]
    <3>1. CASE i \in BySecret(T, s)
      <4> DEFINE d == [T[i] EXCEPT !.managed = TRUE, !.used = t,
                                   !.expires = t + IdleTimeout, !.revoked = FALSE]
      <4>1. T[i] \in CredentialRows
        BY <1>1
      <4>2. /\ d \in CredentialRows /\ d.managed
            /\ d.owner = T[i].owner /\ d.secret = T[i].secret /\ d.created = T[i].created
            /\ d.used = t /\ d.expires = t + IdleTimeout
        BY <4>1, Revived
      <4>3. U[i] = d
        BY <2>1, <3>1
      <4> HIDE DEF d
      <4>4. /\ U[i] \in CredentialRows /\ U[i].managed
            /\ U[i].owner = T[i].owner /\ U[i].secret = T[i].secret
            /\ U[i].created = T[i].created
            /\ U[i].used = t /\ U[i].expires = t + IdleTimeout
        BY <4>2, <4>3
      <4>5. T[i].used \in Nat
        BY RowFields
      <4>. QED
        BY <1>1, <2>2, <3>1, <4>4, <4>5 DEF Keeps
    <3>2. CASE i \notin BySecret(T, s)
      BY <1>1, <2>1, <3>2
    <3>. QED
      BY <3>1, <3>2
  <2>4. GoodTable(U, n, t)
    BY <2>1, <2>3, ChangedRows
  <2>. QED
    BY <1>3, <2>1, <2>3, <2>4 DEF U
<1>. QED
  BY <1>2, <1>3

------------------------------------------------------------------------------
(* The invariant *)

(* A configuration gives static tokens to principals.                      *)
LEMMA ConfigOwners ==
  ASSUME NEW c \in Configs
  PROVE  DOMAIN c \subseteq StaticTokens /\ \A s \in DOMAIN c : c[s] \in Principals
BY ConfigsAssumption

(* A request that is under way has a record.                               *)
LEMMA RequestFields ==
  ASSUME NEW k \in RequestStates, k.pc # "idle"
  PROVE  /\ k \in [pc : {"selected", "expire", "roll", "accepted"}, id : Nat,
                   row : CredentialRows, time : Nat]
         /\ k.id \in Nat /\ k.row \in CredentialRows /\ k.time \in Nat
         /\ k.row.used \in Nat /\ k.row.expires \in Nat
BY DEF RequestStates, Idle, CredentialRows

(* While rows evolve, what requests remember stays true ...                *)
LEMMA RequestsStayGood ==
  ASSUME Types, next' \in Nat, next <= next', now' \in Nat, now <= now',
         GoodTable(tokens', next', now'), Evolves(tokens, tokens', next), UNCHANGED config,
         NEW k \in RequestStates, GoodRequest(k)
  PROVE  GoodRequest(k)'
<1> SUFFICES ASSUME k.pc # "idle" PROVE GoodRequest(k)'
  BY DEF GoodRequest
<1>1. /\ k.id \in Nat /\ k.time \in Nat /\ k.row.used \in Nat /\ k.row.expires \in Nat
      /\ next \in Nat /\ now \in Nat
  BY RequestFields DEF Types
<1>2. k.id < next /\ k.id # next /\ AsConfigured(k.row)'
  BY <1>1 DEF GoodRequest, AsConfigured
<1>3. ASSUME k.id \in DOMAIN tokens'
      PROVE  /\ k.id \in DOMAIN tokens /\ Keeps(tokens[k.id], tokens'[k.id])
             /\ tokens[k.id].revoked => tokens'[k.id].revoked
             /\ tokens[k.id].used \in Nat /\ tokens'[k.id].used \in Nat
             /\ tokens[k.id].expires = tokens[k.id].used + IdleTimeout
             /\ tokens'[k.id].expires = tokens'[k.id].used + IdleTimeout
             /\ tokens'[k.id].used >= tokens[k.id].used
  <2>1. /\ k.id \in DOMAIN tokens /\ Keeps(tokens[k.id], tokens'[k.id])
        /\ tokens[k.id].revoked => tokens'[k.id].revoked
    BY <1>2, <1>3 DEF Evolves
  <2>2. tokens[k.id].used \in Nat
    BY <2>1, RowFields DEF Types
  <2>3. tokens'[k.id].used \in Nat
    BY <1>3, RowFields
  <2>4. tokens[k.id].expires = tokens[k.id].used + IdleTimeout
    BY <2>1 DEF Types, GoodTable
  <2>. QED
    BY <2>1, <2>2, <2>3, <2>4 DEF Keeps
<1>4. k.id \in DOMAIN tokens' => tokens'[k.id].used >= k.row.used
  BY <1>1, <1>3 DEF GoodRequest
<1>5. k.pc = "accepted" /\ k.id \in DOMAIN tokens' =>
        tokens'[k.id].revoked \/ tokens'[k.id].expires > k.time + IdleTimeout - RollInterval
  BY <1>1, <1>3, TimeoutAssumption DEF GoodRequest
<1>. QED
  BY <1>1, <1>2, <1>4, <1>5 DEF GoodRequest

(* ... and valid static tokens are still those of the configuration.       *)
LEMMA StaysConfigured ==
  ASSUME Types, Evolves(tokens, tokens', next), UNCHANGED config,
         \A i \in DOMAIN tokens : tokens[i].revoked \/ AsConfigured(tokens[i])
  PROVE  \A i \in DOMAIN tokens' : tokens'[i].revoked \/ AsConfigured(tokens[i])'
<1> SUFFICES ASSUME NEW i \in DOMAIN tokens'
             PROVE  tokens'[i].revoked \/ AsConfigured(tokens[i])'
  OBVIOUS
<1>1. CASE i \in DOMAIN tokens /\ Keeps(tokens[i], tokens'[i])
           /\ (tokens[i].revoked => tokens'[i].revoked)
  BY <1>1 DEF Keeps, AsConfigured
<1>2. CASE i = next /\ tokens'[i].secret = next
  BY <1>2, StaticTokensAssumption DEF Types, AsConfigured
<1>. QED
  BY <1>1, <1>2 DEF Evolves

(* So a step of the running server only has to answer for the request that *)
(* it moves.                                                               *)
LEMMA RunningStep ==
  ASSUME Inv, next' \in Nat, next <= next', GoodTable(tokens', next', now'),
         Evolves(tokens, tokens', next), UNCHANGED <<now, config, todo>>,
         status \in {"purging", "up"}, status' \in {status, "up"},
         req' \in [Requests -> RequestStates],
         status' # "up" => req' = req,
         \A r \in Requests : req'[r] = req[r] \/ GoodRequest(req[r])'
  PROVE  Inv'
<1>1. now \in Nat /\ now <= now'
  BY DEF Inv, Types
<1>2. Types'
  BY <1>1 DEF Inv, Types, Statuses
<1>3. NoRequestsAtStart'
  BY DEF Inv, NoRequestsAtStart
<1>4. Configured'
  <2>1. \A i \in DOMAIN tokens : tokens[i].revoked \/ AsConfigured(tokens[i])
    BY DEF Inv, Configured
  <2>. QED
    BY <2>1, StaysConfigured DEF Inv, Configured
<1>5. GoodRequests'
  <2> SUFFICES ASSUME NEW r \in Requests PROVE GoodRequest(req[r])'
    BY DEF GoodRequests
  <2>1. CASE req'[r] = req[r]
    <3>1. PICK k \in RequestStates : k = req[r]
      BY DEF Inv, Types
    <3>2. GoodRequest(k)
      BY <3>1 DEF Inv, GoodRequests
    <3>3. GoodRequest(k)'
      BY <1>1, <3>2, RequestsStayGood DEF Inv
    <3>. QED
      BY <2>1, <3>1, <3>3
  <2>. QED
    BY <2>1
<1>. QED
  BY <1>2, <1>3, <1>4, <1>5 DEF Inv

(* A table that is left alone evolves.                                     *)
LEMMA TableLeftAlone ==
  ASSUME Inv, UNCHANGED <<tokens, next, now>>
  PROVE  GoodTable(tokens', next', now') /\ Evolves(tokens, tokens', next)
<1>1. GoodTable(tokens, next, now) /\ next \in Nat /\ now \in Nat
  BY DEF Inv, Types
<1>2. \A i \in DOMAIN tokens : Keeps(tokens[i], tokens[i])
  BY <1>1, RowFields
<1>. QED
  BY <1>1, <1>2 DEF Evolves

------------------------------------------------------------------------------
(* The steps of a request *)

(* The row that is read is the row that is remembered.                     *)
LEMMA SelectStep ==
  ASSUME Inv, NEW r \in Requests, NEW i \in DOMAIN tokens, Select(r, i)
  PROVE  Inv'
<1> DEFINE k == [pc |-> "selected", id |-> i, row |-> tokens[i], time |-> 0]
<1>1. /\ status = "up" /\ ~tokens[i].revoked
      /\ req' = [req EXCEPT ![r] = k]
      /\ UNCHANGED <<tokens, next, now, status, config, todo>>
  BY DEF Select
<1>2. /\ i \in Nat /\ i < next /\ tokens[i] \in CredentialRows /\ tokens[i].used \in Nat
      /\ tokens[i].expires = tokens[i].used + IdleTimeout
  BY RowFields DEF Inv, Types, GoodTable
<1>3. AsConfigured(tokens[i])
  BY <1>1 DEF Inv, Configured
<1>4. k \in RequestStates
  BY <1>2 DEF RequestStates
<1>5. k.pc = "selected" /\ k.id = i /\ k.row = tokens[i]
  OBVIOUS
<1> HIDE DEF k
<1>6. req \in [Requests -> RequestStates] /\ next \in Nat
  BY DEF Inv, Types
<1>7. req' \in [Requests -> RequestStates] /\ req'[r] = k
      /\ \A s \in Requests \ {r} : req'[s] = req[s]
  BY <1>1, <1>4, <1>6
<1>8. GoodRequest(req[r])'
  BY <1>1, <1>2, <1>3, <1>5, <1>7 DEF GoodRequest, AsConfigured
<1>. QED
  BY <1>1, <1>6, <1>7, <1>8, TableLeftAlone, RunningStep

(* What is accepted without a roll was used within the last interval.      *)
LEMMA ReadClockStep ==
  ASSUME Inv, NEW r \in Requests, ReadClock(r)
  PROVE  Inv'
<1>1. PICK k \in RequestStates : k = req[r]
  BY DEF Inv, Types
<1> DEFINE d == [k EXCEPT !.time = now, !.pc = Verdict(k.row, now)]
<1>2. k.pc = "selected" /\ status = "up"
  BY <1>1 DEF ReadClock, Inv, NoRequestsAtStart, Idle
<1>3. /\ req' = [req EXCEPT ![r] = d]
      /\ UNCHANGED <<tokens, next, now, status, config, todo>>
  BY <1>1 DEF ReadClock
<1>4. /\ k \in [pc : {"selected", "expire", "roll", "accepted"}, id : Nat,
                row : CredentialRows, time : Nat]
      /\ k.row.used \in Nat /\ k.row.expires \in Nat
  BY <1>2, RequestFields
<1>5. now \in Nat /\ next \in Nat /\ req \in [Requests -> RequestStates]
  BY DEF Inv, Types
<1>6. Verdict(k.row, now) \in {"expire", "roll", "accepted"}
  BY DEF Verdict
<1>7. /\ d \in RequestStates /\ d.id = k.id /\ d.row = k.row /\ d.time = now
      /\ d.pc = Verdict(k.row, now)
  BY <1>4, <1>5, <1>6 DEF RequestStates
<1>8. d.pc = "accepted" => k.row.used > now - RollInterval
  BY <1>4, <1>5, <1>7, TimeoutAssumption DEF Verdict
<1> HIDE DEF d
<1>9. GoodRequest(k)
  BY <1>1 DEF Inv, GoodRequests
<1>10. ASSUME d.pc = "accepted", k.id \in DOMAIN tokens
       PROVE  tokens[k.id].expires > now + IdleTimeout - RollInterval
  <2>1. tokens[k.id].used \in Nat /\ tokens[k.id].expires = tokens[k.id].used + IdleTimeout
    BY <1>10, RowFields DEF Inv, Types, GoodTable
  <2>2. tokens[k.id].used >= k.row.used
    BY <1>2, <1>9, <1>10 DEF GoodRequest
  <2>. QED
    BY <1>4, <1>5, <1>8, <1>10, <2>1, <2>2, TimeoutAssumption
<1>11. req' \in [Requests -> RequestStates] /\ req'[r] = d
       /\ \A s \in Requests \ {r} : req'[s] = req[s]
  BY <1>3, <1>5, <1>7
<1>12. GoodRequest(req[r])'
  BY <1>2, <1>3, <1>5, <1>7, <1>9, <1>10, <1>11 DEF GoodRequest, AsConfigured
<1>. QED
  BY <1>2, <1>3, <1>5, <1>11, <1>12, TableLeftAlone, RunningStep

(* A request that ends, whatever it does to the table.                     *)
LEMMA RequestEnds ==
  ASSUME Inv, NEW r \in Requests, status = "up", req' = [req EXCEPT ![r] = Idle],
         UNCHANGED <<next, now, status, config, todo>>,
         GoodTable(tokens', next', now'), Evolves(tokens, tokens', next)
  PROVE  Inv'
<1>1. next \in Nat /\ req \in [Requests -> RequestStates]
  BY DEF Inv, Types
<1>2. Idle \in RequestStates /\ Idle.pc = "idle"
  BY DEF RequestStates, Idle
<1>3. req' \in [Requests -> RequestStates] /\ req'[r] = Idle
      /\ \A s \in Requests \ {r} : req'[s] = req[s]
  BY <1>1, <1>2
<1>4. GoodRequest(req[r])'
  BY <1>2, <1>3 DEF GoodRequest
<1>. QED
  BY <1>1, <1>3, <1>4, RunningStep

(* While a request is under way, the server is up.                         *)
LEMMA RequestMeansUp ==
  ASSUME Inv, NEW r \in Requests, req[r].pc # "idle"
  PROVE  status = "up"
BY DEF Inv, NoRequestsAtStart, Idle

(* A request that finds its credential expired revokes it.                 *)
LEMMA ExpireStep ==
  ASSUME Inv, NEW r \in Requests, Expire(r)
  PROVE  Inv'
<1>1. status = "up"
  BY RequestMeansUp DEF Expire
<1>2. GoodTable(tokens', next', now') /\ Evolves(tokens, tokens', next)
  BY RevokedEvolves DEF Expire, Inv, Types
<1>. QED
  BY <1>1, <1>2, RequestEnds DEF Expire

(* An answer changes nothing but the request.                              *)
LEMMA RespondStep ==
  ASSUME Inv, NEW r \in Requests, Respond(r)
  PROVE  Inv'
<1>1. status = "up"
  BY RequestMeansUp DEF Respond
<1>2. GoodTable(tokens', next', now') /\ Evolves(tokens, tokens', next)
  BY TableLeftAlone DEF Respond
<1>. QED
  BY <1>1, <1>2, RequestEnds DEF Respond

(* A logout revokes the credential that the request came with.             *)
LEMMA RevokeOwnStep ==
  ASSUME Inv, NEW r \in Requests, RevokeOwn(r)
  PROVE  Inv'
<1>1. status = "up"
  BY RequestMeansUp DEF RevokeOwn
<1>2. GoodTable(tokens', next', now') /\ Evolves(tokens, tokens', next)
  BY RevokedEvolves DEF RevokeOwn, Inv, Types
<1>. QED
  BY <1>1, <1>2, RequestEnds DEF RevokeOwn

(* A request that rolls its credential, or finds it rolled, has extended   *)
(* it, unless the credential is gone or revoked.                           *)
LEMMA RollStep ==
  ASSUME Inv, NEW r \in Requests, Roll(r)
  PROVE  Inv'
<1>1. PICK k \in RequestStates : k = req[r]
  BY DEF Inv, Types
<1> DEFINE d == [k EXCEPT !.pc = "accepted"]
<1>2. k.pc = "roll" /\ status = "up"
  BY <1>1, RequestMeansUp DEF Roll
<1>3. /\ tokens' = Rolled(tokens, k.id, k.time)
      /\ req' = [req EXCEPT ![r] = d]
      /\ UNCHANGED <<next, now, status, config, todo>>
  BY <1>1 DEF Roll
<1>4. /\ k \in [pc : {"selected", "expire", "roll", "accepted"}, id : Nat,
                row : CredentialRows, time : Nat]
      /\ k.id \in Nat /\ k.time \in Nat
  BY <1>2, RequestFields
<1>5. now \in Nat /\ next \in Nat /\ req \in [Requests -> RequestStates]
      /\ GoodTable(tokens, next, now)
  BY DEF Inv, Types
<1>6. GoodRequest(k)
  BY <1>1 DEF Inv, GoodRequests
<1>7. k.time <= now
  BY <1>2, <1>6 DEF GoodRequest
<1>8. GoodTable(tokens', next', now') /\ Evolves(tokens, tokens', next)
  BY <1>3, <1>4, <1>5, <1>7, RolledEvolves
<1>9. GoodRequest(k)'
  BY <1>3, <1>5, <1>6, <1>8, RequestsStayGood DEF Inv
<1>10. d \in RequestStates /\ d.id = k.id /\ d.row = k.row /\ d.time = k.time
       /\ d.pc = "accepted"
  BY <1>4 DEF RequestStates
<1> HIDE DEF d
<1>11. ASSUME k.id \in DOMAIN tokens', ~tokens'[k.id].revoked
       PROVE  tokens'[k.id].expires > k.time + IdleTimeout - RollInterval
  <2>1. DOMAIN tokens' = DOMAIN tokens
    BY <1>3 DEF Rolled
  <2>2. tokens[k.id] \in CredentialRows /\ tokens[k.id].used \in Nat
        /\ tokens[k.id].expires = tokens[k.id].used + IdleTimeout
    BY <1>5, <1>11, <2>1, RowFields DEF GoodTable
  <2>3. CASE tokens[k.id].used <= k.time - RollInterval /\ ~tokens[k.id].revoked
    <3>1. tokens'[k.id] = [tokens[k.id] EXCEPT !.used = k.time,
                                               !.expires = k.time + IdleTimeout]
      BY <1>3, <1>11, <2>1, <2>3 DEF Rolled
    <3>2. PICK c \in CredentialRows : c = tokens[k.id]
      BY <2>2
    <3>3. [c EXCEPT !.used = k.time, !.expires = k.time + IdleTimeout].expires
            = k.time + IdleTimeout
      BY <1>4, UsedAt
    <3>4. tokens'[k.id].expires = k.time + IdleTimeout
      BY <3>1, <3>2, <3>3
    <3>. QED
      BY <1>4, <3>4, TimeoutAssumption
  <2>4. CASE ~(tokens[k.id].used <= k.time - RollInterval /\ ~tokens[k.id].revoked)
    <3>1. tokens' = tokens
      BY <1>3, <2>4 DEF Rolled
    <3>. QED
      BY <1>4, <1>11, <2>2, <2>4, <3>1, TimeoutAssumption
  <2>. QED
    BY <2>3, <2>4
<1>12. req' \in [Requests -> RequestStates] /\ req'[r] = d
       /\ \A s \in Requests \ {r} : req'[s] = req[s]
  BY <1>3, <1>5, <1>10
<1>13. GoodRequest(req[r])'
  BY <1>2, <1>9, <1>10, <1>11, <1>12 DEF GoodRequest
<1>. QED
  BY <1>2, <1>3, <1>5, <1>8, <1>12, <1>13, RunningStep

------------------------------------------------------------------------------
(* The other steps of the running server *)

(* A bound on the time that a handler has read.                            *)
LEMMA ReadTimesArePast ==
  ASSUME Inv, NEW t \in ReadTimes
  PROVE  t \in Nat /\ t <= now
BY DEF ReadTimes, Inv, Types

(* A login or a new token adds a row, and may evict others.                *)
LEMMA IssueStep ==
  ASSUME Inv, NEW p \in Principals, NEW t \in ReadTimes, Issue(p, t)
  PROVE  Inv'
<1>1. GoodTable(tokens', next', now') /\ Evolves(tokens, tokens', next)
  BY ReadTimesArePast, CreatedEvolves DEF Issue, Inv, Types
<1>2. next \in Nat /\ req \in [Requests -> RequestStates]
  BY DEF Inv, Types
<1>. QED
  BY <1>1, <1>2, RunningStep DEF Issue

(* An administrator may revoke while others are being let in.              *)
LEMMA RevokePrincipalStep ==
  ASSUME Inv, NEW p \in Principals, RevokePrincipal(p)
  PROVE  Inv'
<1>1. GoodTable(tokens', next', now') /\ Evolves(tokens, tokens', next)
  BY RevokedEvolves DEF RevokePrincipal, Inv, Types
<1>2. next \in Nat /\ req \in [Requests -> RequestStates]
  BY DEF Inv, Types
<1>. QED
  BY <1>1, <1>2, RunningStep DEF RevokePrincipal

(* The purge may remove a row that a request remembers.                    *)
LEMMA PurgeStep ==
  ASSUME Inv, NEW t \in ReadTimes, PurgeExpired(t)
  PROVE  Inv'
<1>1. GoodTable(tokens', next', now') /\ Evolves(tokens, tokens', next)
  BY PurgedEvolves DEF PurgeExpired, Inv, Types
<1>2. next \in Nat /\ req \in [Requests -> RequestStates]
  BY DEF Inv, Types
<1>. QED
  BY <1>1, <1>2, RunningStep DEF PurgeExpired

------------------------------------------------------------------------------
(* The clock, and the start of the server *)

(* Time passes: what was used in the past still was.                       *)
LEMMA TickStep ==
  ASSUME Inv, Tick
  PROVE  Inv'
<1>1. now \in Nat /\ now' \in Nat /\ now < now' /\ next \in Nat
  BY DEF Inv, Types, Tick
<1>2. UNCHANGED <<tokens, next, status, config, todo, req>>
  BY DEF Tick
<1>3. GoodTable(tokens, next, now)
  BY DEF Inv, Types
<1>4. GoodTable(tokens, next, now')
  <2>1. \A i \in DOMAIN tokens : tokens[i].used <= now'
    BY <1>1, <1>3, RowFields DEF GoodTable
  <2>. QED
    BY <1>3, <2>1 DEF GoodTable
<1>5. Types' /\ NoRequestsAtStart' /\ Configured'
  BY <1>1, <1>2, <1>4 DEF Inv, Types, NoRequestsAtStart, Configured, AsConfigured
<1>6. GoodRequests'
  <2> SUFFICES ASSUME NEW r \in Requests PROVE GoodRequest(req[r])'
    BY DEF GoodRequests
  <2>1. CASE req[r].pc = "idle"
    BY <1>2, <2>1 DEF GoodRequest
  <2>2. CASE req[r].pc # "idle"
    <3>1. req[r] \in RequestStates
      BY DEF Inv, Types
    <3>2. req[r].time \in Nat
      BY <2>2, <3>1, RequestFields
    <3>. QED
      BY <1>1, <1>2, <2>2, <3>2 DEF Inv, GoodRequests, GoodRequest, AsConfigured
  <2>. QED
    BY <2>1, <2>2
<1>. QED
  BY <1>5, <1>6 DEF Inv

(* A step of a server without requests only has to answer for the table.   *)
LEMMA StartingStep ==
  ASSUME Inv, next' \in Nat, GoodTable(tokens', next', now'), UNCHANGED now,
         status' \in Statuses, config' \in Configs, todo' \subseteq DOMAIN config',
         req' = [r \in Requests |-> Idle], Configured'
  PROVE  Inv'
<1>1. Idle \in RequestStates /\ Idle.pc = "idle"
  BY DEF RequestStates, Idle
<1>2. \A r \in Requests : req'[r] = Idle
  OBVIOUS
<1>3. Types'
  BY <1>1 DEF Inv, Types
<1>4. GoodRequests'
  BY <1>1, <1>2 DEF GoodRequests, GoodRequest
<1>. QED
  BY <1>2, <1>3, <1>4 DEF Inv, NoRequestsAtStart

(* The requests of a server that is not up are idle, all of them.          *)
LEMMA AllIdle ==
  ASSUME Inv, status # "up"
  PROVE  req = [r \in Requests |-> Idle]
BY DEF Inv, Types, NoRequestsAtStart

(* A new configuration comes before anything is accepted.                  *)
LEMMA StartStep ==
  ASSUME Inv, NEW c \in Configs, Start(c)
  PROVE  Inv'
<1>1. req' = [r \in Requests |-> Idle]
  BY AllIdle DEF Start
<1>2. GoodTable(tokens', next', now') /\ next' \in Nat /\ status' = "revoking"
      /\ status' \in Statuses
  BY TableLeftAlone DEF Start, Inv, Types, Statuses
<1>3. Configured'
  BY <1>2 DEF Configured
<1>. QED
  BY <1>1, <1>2, <1>3, StartingStep DEF Start

(* Static tokens are managed: after this step none is valid.               *)
LEMMA RevokeManagedStep ==
  ASSUME Inv, RevokeManaged
  PROVE  Inv'
<1>1. req' = [r \in Requests |-> Idle]
  BY AllIdle DEF RevokeManaged
<1>2. GoodTable(tokens', next', now') /\ next' \in Nat /\ status' \in Statuses
  BY RevokedEvolves DEF RevokeManaged, Inv, Types, Statuses
<1>3. GoodTable(tokens, next, now) /\ next \in Nat /\ now \in Nat
  BY DEF Inv, Types
<1>4. ASSUME NEW i \in DOMAIN tokens'
      PROVE  tokens'[i].revoked \/ tokens'[i].secret \notin StaticTokens
  <2>1. PICK c \in CredentialRows : c = tokens[i]
    BY <1>3, RowFields DEF RevokeManaged, Revoked
  <2>2. i \in DOMAIN tokens /\ i \in Nat /\ Named(i, c)
    BY <1>3, <2>1, RowFields DEF GoodTable, RevokeManaged, Revoked
  <2>3. CASE i \in Managed(tokens)
    <3>1. tokens'[i] = [c EXCEPT !.revoked = TRUE]
      BY <2>1, <2>2, <2>3 DEF RevokeManaged, Revoked
    <3>. QED
      BY <3>1, Marked
  <2>4. CASE i \notin Managed(tokens)
    <3>1. tokens'[i] = c /\ ~c.managed
      BY <2>1, <2>2, <2>4 DEF RevokeManaged, Revoked, Managed
    <3>. QED
      BY <2>2, <3>1, StaticTokensAssumption DEF Named
  <2>. QED
    BY <2>3, <2>4
<1>5. Configured'
  BY <1>4 DEF Configured, AsConfigured
<1>. QED
  BY <1>1, <1>2, <1>5, StartingStep DEF RevokeManaged, Inv, Types

(* A token that is provisioned is this configuration's.                    *)
LEMMA ProvisionStep ==
  ASSUME Inv, NEW s \in todo, Provision(s)
  PROVE  Inv'
<1>1. req' = [r \in Requests |-> Idle]
  BY AllIdle DEF Provision
<1>2. s \in StaticTokens /\ s \in DOMAIN config /\ config[s] \in Principals
  BY ConfigOwners DEF Inv, Types
<1>3. PICK m : m = IF BySecret(tokens, s) = {} THEN next + 1 ELSE next
  OBVIOUS
<1>4. /\ GoodTable(tokens', m, now)
      /\ \A i \in DOMAIN tokens' :
           \/ tokens'[i].secret = s /\ tokens'[i].owner = config[s]
           \/ i \in DOMAIN tokens /\ tokens'[i] = tokens[i]
  BY <1>2, <1>3, ProvisionedTable DEF Provision, Inv, Types
<1>5. next' = m /\ m \in Nat
  BY <1>3 DEF Provision, Inv, Types
<1>6. Configured'
  <2>1. \A i \in DOMAIN tokens : tokens[i].revoked \/ AsConfigured(tokens[i])
    BY DEF Inv, Configured, Provision
  <2>. QED
    BY <1>2, <1>4, <2>1 DEF Configured, AsConfigured, Provision
<1>. QED
  BY <1>1, <1>4, <1>5, <1>6, StartingStep DEF Provision, Inv, Types

(* A start that fails leaves the table as it was.                          *)
LEMMA FailStep ==
  ASSUME Inv, NEW s, FailToProvision(s)
  PROVE  Inv'
<1>1. req' = [r \in Requests |-> Idle]
  BY AllIdle DEF FailToProvision
<1>2. GoodTable(tokens', next', now') /\ next' \in Nat /\ status' \in Statuses
  BY TableLeftAlone DEF FailToProvision, Inv, Types, Statuses
<1>3. Configured'
  BY DEF Configured, FailToProvision
<1>. QED
  BY <1>1, <1>2, <1>3, StartingStep DEF FailToProvision, Inv, Types

(* With the last token, the configuration is in force.                     *)
LEMMA EndProvisioningStep ==
  ASSUME Inv, EndProvisioning
  PROVE  Inv'
<1>1. req' = [r \in Requests |-> Idle]
  BY AllIdle DEF EndProvisioning
<1>2. GoodTable(tokens', next', now') /\ next' \in Nat /\ status' \in Statuses
  BY TableLeftAlone DEF EndProvisioning, Inv, Types, Statuses
<1>3. Configured'
  BY DEF Configured, AsConfigured, EndProvisioning, Inv
<1>. QED
  BY <1>1, <1>2, <1>3, StartingStep DEF EndProvisioning, Inv, Types

(* A crash ends all requests.                                              *)
LEMMA CrashStep ==
  ASSUME Inv, Crash
  PROVE  Inv'
<1>1. GoodTable(tokens', next', now') /\ next' \in Nat /\ status' \in Statuses
  BY TableLeftAlone DEF Crash, Inv, Types, Statuses
<1>2. Configured'
  BY DEF Configured, Crash
<1>. QED
  BY <1>1, <1>2, StartingStep DEF Crash, Inv, Types

------------------------------------------------------------------------------
(* The theorems *)

(* The invariant holds of an empty table, ...                              *)
LEMMA InvInit == Init => Inv
<1> SUFFICES ASSUME Init PROVE Inv
  OBVIOUS
<1>1. DOMAIN tokens = {} /\ next = 0 /\ now = 0
  BY DEF Init
<1>2. GoodTable(tokens, next, now)
  BY <1>1 DEF GoodTable, Rows
<1>3. Idle \in RequestStates /\ Idle.pc = "idle"
  BY DEF RequestStates, Idle
<1>4. Types
  BY <1>1, <1>2, <1>3 DEF Init, Types, Statuses
<1>. QED
  BY <1>3, <1>4 DEF Init, Inv, NoRequestsAtStart, Configured, GoodRequests, GoodRequest

(* ... is kept by every step, ...                                          *)
LEMMA InvNext == Inv /\ [Next]_vars => Inv'
<1> SUFFICES ASSUME Inv, [Next]_vars PROVE Inv'
  OBVIOUS
<1>1. CASE UNCHANGED vars
  BY <1>1 DEF vars, Inv, Types, NoRequestsAtStart, Configured, AsConfigured, GoodRequests,
       GoodRequest
<1>2. ASSUME NEW r \in Requests, Authenticate(r) PROVE Inv'
  BY <1>2, SelectStep, ReadClockStep, ExpireStep, RollStep, RespondStep DEF Authenticate
<1>3. ASSUME Provisioning PROVE Inv'
  BY <1>3, ProvisionStep, FailStep DEF Provisioning
<1>. QED
  BY <1>1, <1>2, <1>3, TickStep, RevokeOwnStep, RevokePrincipalStep, IssueStep, PurgeStep,
     StartStep, RevokeManagedStep, EndProvisioningStep, CrashStep DEF Next

(* ... and so holds always.                                                *)
LEMMA Invariance == Spec => []Inv
BY InvInit, InvNext, PTL DEF Spec

(* A row of a good table is alone with its secret.                         *)
LEMMA TypesAreRight == Inv => TypeOK
<1> SUFFICES ASSUME Inv PROVE TypeOK
  OBVIOUS
<1>1. GoodTable(tokens, next, now)
  BY DEF Inv, Types
<1>2. \A i \in DOMAIN tokens : BySecret(tokens, tokens[i].secret) = {i}
  BY <1>1 DEF GoodTable, BySecret
<1>. QED
  BY <1>1, <1>2 DEF Inv, Types, TypeOK, GoodTable, Rows

(* Every variable has its type, and no two rows have one secret, although  *)
(* secrets come from the configuration and from the server.                *)
THEOREM TypeCorrect == Spec => []TypeOK
BY Invariance, TypesAreRight, PTL

(* Whoever was let in has, give or take the roll interval, the full idle   *)
(* timeout from then on, whatever other requests and the purge do.         *)
THEOREM TimeoutIsFromUse == Spec => []UseExtends
<1>1. ASSUME Inv, NEW r \in Requests, req[r].pc = "accepted",
             NEW i \in DOMAIN tokens \cap {req[r].id}
      PROVE  tokens[i].revoked \/ tokens[i].expires > req[r].time + IdleTimeout - RollInterval
  BY <1>1 DEF Inv, GoodRequests, GoodRequest
<1>2. Inv => UseExtends
  BY <1>1 DEF UseExtends
<1>. QED
  BY <1>2, Invariance, PTL

(* A static token lets in whom the running configuration names, through    *)
(* any sequence of configurations, crashes and failed starts.              *)
THEOREM StaticTokensFollowConfig == Spec => []AcceptedAsConfigured
<1>1. Inv => AcceptedAsConfigured
  BY DEF Inv, GoodRequests, GoodRequest, AsConfigured, AcceptedAsConfigured
<1>. QED
  BY <1>1, Invariance, PTL

------------------------------------------------------------------------------
(* What a step may do to the table *)

TableChanges ==
  \/ UNCHANGED tokens
  \/ \E rows : tokens' = Revoked(tokens, rows)
  \/ \E i \in Nat, t \in 0..now : tokens' = Rolled(tokens, i, t)
  \/ \E t \in 0..now : tokens' = Purged(tokens, t)
  \/ \E p \in Principals, t \in 0..now : tokens' = CreateCredential(tokens, next, p, t)
  \/ /\ status = "provisioning"
     /\ \E s \in StaticTokens, p \in Principals :
          ~BelongsToAnother(tokens, s, p) /\ tokens' = Provisioned(tokens, next, s, p, now)

(* Every step is one statement at most.                                    *)
LEMMA StepsAreStatements ==
  ASSUME Inv, [Next]_vars
  PROVE  TableChanges
<1>1. CASE UNCHANGED vars
  BY <1>1 DEF vars, TableChanges
<1>2. CASE Tick \/ RevokeManaged \/ EndProvisioning \/ Crash \/ (\E c \in Configs : Start(c))
  BY <1>2 DEF Tick, RevokeManaged, EndProvisioning, Crash, Start, TableChanges
<1>3. ASSUME NEW r \in Requests, Authenticate(r) \/ RevokeOwn(r) PROVE TableChanges
  <2>1. CASE Roll(r)
    <3>1. req[r].id \in Nat /\ req[r].time \in Nat
      BY <2>1, RequestFields DEF Roll, Inv, Types
    <3>2. req[r].time \in 0..now
      BY <2>1, <3>1 DEF Roll, Inv, Types, GoodRequests, GoodRequest
    <3>. QED
      BY <2>1, <3>1, <3>2 DEF Roll, TableChanges
  <2>2. CASE ~Roll(r)
    BY <1>3, <2>2 DEF Authenticate, Select, ReadClock, Expire, Respond, RevokeOwn, TableChanges
  <2>. QED
    BY <2>1, <2>2
<1>4. ASSUME NEW p \in Principals, RevokePrincipal(p) PROVE TableChanges
  BY <1>4 DEF RevokePrincipal, TableChanges
<1>5. ASSUME NEW p \in Principals, NEW t \in ReadTimes, Issue(p, t) PROVE TableChanges
  BY <1>5 DEF Issue, ReadTimes, TableChanges
<1>6. ASSUME NEW t \in ReadTimes, PurgeExpired(t) PROVE TableChanges
  BY <1>6 DEF PurgeExpired, ReadTimes, TableChanges
<1>7. ASSUME Provisioning PROVE TableChanges
  <2>1. PICK s \in todo : Provision(s) \/ FailToProvision(s)
    BY <1>7 DEF Provisioning
  <2>2. s \in StaticTokens /\ config[s] \in Principals
    BY ConfigOwners DEF Inv, Types
  <2>. QED
    BY <2>1, <2>2 DEF Provision, FailToProvision, TableChanges
<1>. QED
  BY <1>1, <1>2, <1>3, <1>4, <1>5, <1>6, <1>7 DEF Next

(* Apart from provisioning, the table evolves.                             *)
LEMMA TableEvolves ==
  ASSUME Inv, TableChanges
  PROVE  \/ Evolves(tokens, tokens', next)
         \/ /\ status = "provisioning"
            /\ \A i \in DOMAIN tokens \cap DOMAIN tokens' :
                 Keeps(tokens[i], tokens'[i]) /\ (tokens'[i].managed \/ tokens'[i] = tokens[i])
<1>1. GoodTable(tokens, next, now) /\ next \in Nat /\ now \in Nat
  BY DEF Inv, Types
<1>2. CASE UNCHANGED tokens
  BY <1>1, <1>2, SomeRows
<1>3. ASSUME NEW rows, tokens' = Revoked(tokens, rows) PROVE Evolves(tokens, tokens', next)
  BY <1>1, <1>3, RevokedEvolves
<1>4. ASSUME NEW i \in Nat, NEW t \in 0..now, tokens' = Rolled(tokens, i, t)
      PROVE  Evolves(tokens, tokens', next)
  BY <1>1, <1>4, RolledEvolves
<1>5. ASSUME NEW t \in 0..now, tokens' = Purged(tokens, t) PROVE Evolves(tokens, tokens', next)
  BY <1>1, <1>5, PurgedEvolves
<1>6. ASSUME NEW p \in Principals, NEW t \in 0..now,
             tokens' = CreateCredential(tokens, next, p, t)
      PROVE  Evolves(tokens, tokens', next)
  BY <1>1, <1>6, CreatedEvolves
<1>7. ASSUME NEW s \in StaticTokens, NEW p \in Principals, ~BelongsToAnother(tokens, s, p),
             tokens' = Provisioned(tokens, next, s, p, now)
      PROVE  \A i \in DOMAIN tokens \cap DOMAIN tokens' :
               Keeps(tokens[i], tokens'[i]) /\ (tokens'[i].managed \/ tokens'[i] = tokens[i])
  <2>1. PICK m : m = IF BySecret(tokens, s) = {} THEN next + 1 ELSE next
    OBVIOUS
  <2>. QED
    BY <1>1, <1>7, <2>1, ProvisionedTable
<1>. QED
  BY <1>2, <1>3, <1>4, <1>5, <1>6, <1>7 DEF TableChanges

(* Once revoked, a credential stays so, whatever is in flight: a roll that *)
(* was decided before the revocation does not bring it back.               *)
THEOREM RevokedForGood == Spec => RevocationIsFinal
<1>1. ASSUME Inv, [Next]_vars, NEW i \in DOMAIN tokens \cap DOMAIN tokens',
             tokens[i].revoked, ~tokens'[i].revoked
      PROVE  tokens'[i].managed /\ status = "provisioning"
  <2>1. i # next
    BY <1>1, RowFields DEF Inv, Types
  <2>2. ~Evolves(tokens, tokens', next)
    BY <1>1, <2>1 DEF Evolves
  <2>3. tokens'[i] # tokens[i]
    BY <1>1
  <2>. QED
    BY <1>1, <2>2, <2>3, StepsAreStatements, TableEvolves
<1>2. Inv /\ [Next]_vars =>
        [\A i \in DOMAIN tokens \cap DOMAIN tokens' :
           tokens[i].revoked /\ ~tokens'[i].revoked
             => tokens'[i].managed /\ status = "provisioning"]_vars
  BY <1>1
<1>. QED
  BY <1>2, Invariance, PTL DEF Spec, RevocationIsFinal

(* Of two uses at once the later one counts; neither they nor a start take *)
(* lifetime from a credential.                                             *)
THEOREM LifetimeOnlyGrows == Spec => ExpiryNeverMovesBack
<1>1. ASSUME Inv, [Next]_vars, NEW i \in DOMAIN tokens \cap DOMAIN tokens'
      PROVE  tokens'[i].expires >= tokens[i].expires
  <2>1. i # next /\ tokens[i].used \in Nat
        /\ tokens[i].expires = tokens[i].used + IdleTimeout
    BY <1>1, RowFields DEF Inv, Types, GoodTable
  <2>2. Keeps(tokens[i], tokens'[i])
    BY <1>1, <2>1, StepsAreStatements, TableEvolves DEF Evolves
  <2>3. GoodTable(tokens', next', now') /\ next' \in Nat /\ now' \in Nat
    BY <1>1, InvNext DEF Inv, Types
  <2>4. tokens'[i].used \in Nat
    BY <2>3, RowFields
  <2>. QED
    BY <2>1, <2>2, <2>4, TimeoutAssumption DEF Keeps
<1>2. Inv /\ [Next]_vars =>
        [\A i \in DOMAIN tokens \cap DOMAIN tokens' :
           tokens'[i].expires >= tokens[i].expires]_vars
  BY <1>1
<1>. QED
  BY <1>2, Invariance, PTL DEF Spec, ExpiryNeverMovesBack

(* Rolling and provisioning make no row dynamic that was not.              *)
LEMMA BoundNext == Inv /\ Bounded(tokens) /\ [Next]_vars => Bounded(tokens)'
<1> SUFFICES ASSUME Inv, Bounded(tokens), [Next]_vars PROVE Bounded(tokens')
  OBVIOUS
<1>1. GoodTable(tokens, next, now) /\ Rows(tokens, next) /\ next \in Nat /\ now \in Nat
  BY DEF Inv, Types, GoodTable
<1>2. TableChanges
  BY StepsAreStatements
<1>3. ASSUME NEW rows, tokens' = Revoked(tokens, rows) PROVE Bounded(tokens')
  BY <1>1, <1>3, RevokedTable
<1>4. ASSUME NEW i \in Nat, NEW t \in 0..now, tokens' = Rolled(tokens, i, t)
      PROVE  Bounded(tokens')
  <2>1. ASSUME NEW j \in DOMAIN tokens
        PROVE  tokens'[j].owner = tokens[j].owner /\ tokens'[j].managed = tokens[j].managed
    <3>1. PICK c \in CredentialRows : c = tokens[j]
      BY <1>1 DEF Rows
    <3> DEFINE d == [c EXCEPT !.used = t, !.expires = t + IdleTimeout]
    <3>2. t \in Nat
      BY <1>1
    <3>3. d.owner = c.owner /\ d.managed = c.managed
      BY <3>2, UsedAt
    <3>4. tokens'[j] = c \/ tokens'[j] = d
      BY <1>4, <3>1 DEF Rolled
    <3> HIDE DEF d
    <3>. QED
      BY <3>1, <3>3, <3>4
  <2>2. DOMAIN tokens' = DOMAIN tokens
    BY <1>4 DEF Rolled
  <2>3. \A p \in Principals : Dynamic(tokens', p) \subseteq Dynamic(tokens, p)
    BY <2>1, <2>2 DEF Dynamic
  <2>. QED
    BY <1>1, <2>3, FewerRows
<1>5. ASSUME NEW t \in 0..now, tokens' = Purged(tokens, t) PROVE Bounded(tokens')
  BY <1>1, <1>5, PurgedTable
<1>6. ASSUME NEW p \in Principals, NEW t \in 0..now,
             tokens' = CreateCredential(tokens, next, p, t)
      PROVE  Bounded(tokens')
  BY <1>1, <1>6, CreatedTable
<1>7. ASSUME NEW s \in StaticTokens, NEW p \in Principals, ~BelongsToAnother(tokens, s, p),
             tokens' = Provisioned(tokens, next, s, p, now)
      PROVE  Bounded(tokens')
  <2>1. PICK m : m = IF BySecret(tokens, s) = {} THEN next + 1 ELSE next
    OBVIOUS
  <2>2. \A i \in DOMAIN tokens' : tokens'[i].managed
                                 \/ (i \in DOMAIN tokens /\ tokens'[i] = tokens[i])
    BY <1>1, <1>7, <2>1, ProvisionedTable
  <2>3. \A q \in Principals : Dynamic(tokens', q) \subseteq Dynamic(tokens, q)
    BY <2>2 DEF Dynamic
  <2>. QED
    BY <1>1, <2>3, FewerRows
<1>. QED
  BY <1>2, <1>3, <1>4, <1>5, <1>6, <1>7 DEF TableChanges

(* No principal ever has more than MaxActive dynamic credentials, whatever *)
(* expires, is revoked or handed over to the configuration meanwhile.      *)
THEOREM CredentialBound == Spec => []BoundedCredentials
<1>1. Init => Bounded(tokens)
  <2>1. Init => \A p \in Principals : Dynamic(tokens, p) = {}
    BY DEF Init, Dynamic
  <2>. QED
    BY <2>1, FS_EmptySet, MaxActiveAssumption DEF Bounded
<1>2. Bounded(tokens) => BoundedCredentials
  BY DEF Bounded, BoundedCredentials
<1>. QED
  BY <1>1, <1>2, BoundNext, Invariance, PTL DEF Spec

(* A credential that could still be used leaves the table only for newer   *)
(* ones of its principal, which then has as many as it may.                *)
THEOREM SurplusGoesFirst == Spec => OldestGoFirst
<1>1. ASSUME Inv, [Next]_vars, NEW d \in DOMAIN tokens \ DOMAIN tokens', Live(tokens[d], now)
      PROVE  /\ ~tokens[d].managed
             /\ Cardinality({j \in Dynamic(tokens', tokens[d].owner) :
                  tokens'[j].created >= tokens[d].created}) = MaxActive
  <2>1. GoodTable(tokens, next, now) /\ Rows(tokens, next) /\ next \in Nat /\ now \in Nat
    BY <1>1 DEF Inv, Types, GoodTable
  <2>2. tokens[d].expires \in Nat
    BY <2>1, RowFields
  <2>3. \A t \in 0..now : Live(tokens[d], t)
    BY <1>1, <2>1, <2>2 DEF Live
  <2>4. \A t \in 0..now : tokens' # Purged(tokens, t)
    BY <1>1, <2>3 DEF Purged, Restrict
  <2>5. \A rows : tokens' # Revoked(tokens, rows)
    BY <1>1 DEF Revoked
  <2>6. \A i, t : tokens' # Rolled(tokens, i, t)
    BY <1>1 DEF Rolled
  <2>7. \A s, p : tokens' # Provisioned(tokens, next, s, p, now)
    BY <1>1 DEF Provisioned, Inserted
  <2>8. PICK p \in Principals, t \in 0..now : tokens' = CreateCredential(tokens, next, p, t)
    BY <1>1, <2>4, <2>5, <2>6, <2>7, StepsAreStatements DEF TableChanges
  <2>9. /\ tokens[d].owner = p /\ ~tokens[d].managed
        /\ Cardinality(Dynamic(tokens', p)) = MaxActive
        /\ \A i \in Dynamic(tokens', p) : tokens'[i].created >= tokens[d].created
    BY <1>1, <2>1, <2>3, <2>8, CreatedTable
  <2>10. {j \in Dynamic(tokens', p) : tokens'[j].created >= tokens[d].created}
           = Dynamic(tokens', p)
    BY <2>9
  <2>. QED
    BY <2>9, <2>10
<1>2. Inv /\ [Next]_vars =>
        [\A i \in DOMAIN tokens \ DOMAIN tokens' : Live(tokens[i], now) =>
           /\ ~tokens[i].managed
           /\ Cardinality({j \in Dynamic(tokens', tokens[i].owner) :
                tokens'[j].created >= tokens[i].created}) = MaxActive]_vars
  BY <1>1
<1>. QED
  BY <1>2, Invariance, PTL DEF Spec, OldestGoFirst

(* No login and no new token is lost to the bound: whoever gets a new      *)
(* credential can use it, unless as many newer ones were issued to the     *)
(* same principal in the second that has just begun.                       *)
THEOREM NewcomersStay == Spec => NewCredentialsStay
<1>1. ASSUME Inv, [Next]_vars, status = "up", next' # next, next \notin DOMAIN tokens'
      PROVE  \E p \in Principals :
               Cardinality({j \in Dynamic(tokens', p) : tokens'[j].created >= now}) = MaxActive
  <2>1. Rows(tokens, next) /\ next \in Nat /\ now \in Nat
    BY <1>1 DEF Inv, Types, GoodTable
  <2>2. PICK p \in Principals, t \in ReadTimes : Issue(p, t)
    BY <1>1 DEF Next, vars, Tick, Authenticate, Select, ReadClock, Expire, Roll, Respond,
                RevokeOwn, RevokePrincipal, PurgeExpired, Start, RevokeManaged, Provisioning,
                Provision, FailToProvision, EndProvisioning, Crash
  <2>3. tokens' = CreateCredential(tokens, next, p, t) /\ t \in Nat /\ t >= now - 1
    BY <2>1, <2>2 DEF Issue, ReadTimes
  <2>4. /\ Rows(tokens', next + 1) /\ Cardinality(Dynamic(tokens', p)) = MaxActive
        /\ \A j \in Dynamic(tokens', p) : tokens'[j].created > t
    BY <1>1, <2>1, <2>3, CreatedTable
  <2>5. ASSUME NEW j \in Dynamic(tokens', p)  PROVE tokens'[j].created >= now
    <3>1. tokens'[j].created \in Nat
      BY <2>4, <2>5 DEF Dynamic, Rows, CredentialRows
    <3>. QED
      BY <2>1, <2>3, <2>4, <2>5, <3>1
  <2>6. {j \in Dynamic(tokens', p) : tokens'[j].created >= now} = Dynamic(tokens', p)
    BY <2>5
  <2>. QED
    BY <2>4, <2>6
<1>2. Inv /\ [Next]_vars =>
        [status = "up" /\ next' # next /\ next \notin DOMAIN tokens' =>
           \E p \in Principals :
             Cardinality({j \in Dynamic(tokens', p) : tokens'[j].created >= now})
               = MaxActive]_vars
  BY <1>1
<1>. QED
  BY <1>2, Invariance, PTL DEF Spec, NewCredentialsStay
==============================================================================
