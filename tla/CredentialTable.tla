--------------------------- MODULE CredentialTable ---------------------------
(***************************************************************************)
(* The statements of AuthStore on a table of credentials, as functions of  *)
(* the table.  browser_sessions and api_tokens differ in the label only:   *)
(* a managed credential is an API token of a service account or of the     *)
(* legacy settings; every other one is dynamic.                            *)
(*                                                                         *)
(* A table is a function on the identifiers of its rows.  Identifiers are  *)
(* AUTOINCREMENT, so a later insertion has a greater one.                  *)
(***************************************************************************)
EXTENDS Integers, FiniteSets, Functions

CONSTANTS
  Principals,
  StaticTokens,   \* the secrets that the configuration may name
  IdleTimeout,    \* session_idle_timeout, token_idle_timeout
  RollInterval,   \* ROLLING_UPDATE_INTERVAL_SECONDS
  MaxActive       \* MAX_ACTIVE_CREDENTIALS_PER_PRINCIPAL

ASSUME StaticTokensAssumption == StaticTokens \cap Nat = {}
ASSUME TimeoutAssumption == IdleTimeout \in Nat \ {0} /\ RollInterval \in Nat \ {0}
ASSUME MaxActiveAssumption == MaxActive \in Nat \ {0}

(* A generated secret is nobody else's: the identifier stands for it.      *)
Secrets == StaticTokens \cup Nat

CredentialRows ==
  [owner : Principals, secret : Secrets, managed : BOOLEAN,
   created : Nat, used : Nat, expires : Nat, revoked : BOOLEAN]

Live(c, t) == ~c.revoked /\ c.expires > t

Dynamic(T, p) == {i \in DOMAIN T : T[i].owner = p /\ ~T[i].managed}

(* A mutant: the newest go first.                                          *)
Older(T, i, j) ==
  T[i].created < T[j].created \/ (T[i].created = T[j].created /\ i < j)

(* A mutant: of one second, the order is that of the rows.                 *)
NewerByClock(T, i, j) ==
  T[i].created > T[j].created \/ (T[i].created = T[j].created /\ i < j)

(* ORDER BY created_at DESC, id DESC *)
Newer(T, i, j) ==
  T[i].created > T[j].created \/ (T[i].created = T[j].created /\ i > j)

(* A mutant: pruning keeps one credential too many.                        *)
NewestAndOne(T, p, t) ==
  LET live == {i \in Dynamic(T, p) : Live(T[i], t)}
  IN  {i \in live : Cardinality({j \in live : Newer(T, j, i)}) <= MaxActive}

(* The newest live dynamic credentials of a principal, MaxActive at most.  *)
Newest(T, p, t) ==
  LET live == {i \in Dynamic(T, p) : Live(T[i], t)}
  IN  {i \in live : Cardinality({j \in live : Newer(T, j, i)}) < MaxActive}

(* prune_credentials: of this principal, the dead and the surplus go.      *)
Pruned(T, p, t) ==
  Restrict(T, {i \in DOMAIN T :
                 \/ T[i].owner # p
                 \/ Live(T[i], t) /\ T[i].managed
                 \/ i \in Newest(T, p, t)})

NewCredential(secret, p, managed, t) ==
  [owner |-> p, secret |-> secret, managed |-> managed, created |-> t, used |-> t,
   expires |-> t + IdleTimeout, revoked |-> FALSE]

Inserted(T, i, c) == [j \in DOMAIN T \cup {i} |-> IF j = i THEN c ELSE T[j]]

(* create_credential *)
CreateCredential(T, i, p, t) ==
  Pruned(Inserted(T, i, NewCredential(i, p, FALSE, t)), p, t)

(* UPDATE ... SET revoked_at ... WHERE revoked_at IS NULL                  *)
Revoked(T, rows) ==
  [i \in DOMAIN T |-> IF i \in rows THEN [T[i] EXCEPT !.revoked = TRUE] ELSE T[i]]

BySecret(T, secret) == {i \in DOMAIN T : T[i].secret = secret}
ByPrincipal(T, p) == {i \in DOMAIN T : T[i].owner = p}
Managed(T) == {i \in DOMAIN T : T[i].managed}

(* A mutant: whoever rolls late wins, revoked or not.                      *)
RolledAnyway(T, i, t) ==
  IF i \in DOMAIN T
  THEN [T EXCEPT ![i].used = t, ![i].expires = t + IdleTimeout]
  ELSE T

(* A mutant: rolling makes the credential valid again.                     *)
RolledAndRevived(T, i, t) ==
  IF i \in DOMAIN T /\ T[i].used <= t - RollInterval
  THEN [T EXCEPT ![i].used = t, ![i].expires = t + IdleTimeout, ![i].revoked = FALSE]
  ELSE T

(* roll_sql: unless another request has rolled it, or it is revoked.       *)
Rolled(T, i, t) ==
  IF i \in DOMAIN T /\ T[i].used <= t - RollInterval /\ ~T[i].revoked
  THEN [T EXCEPT ![i].used = t, ![i].expires = t + IdleTimeout]
  ELSE T

(* provision_static_api_token: an error if the token is another's.         *)
BelongsToAnother(T, secret, p) == \E i \in BySecret(T, secret) : T[i].owner # p

(* A mutant: the row of an earlier start is not looked for.                *)
ProvisionedAgain(T, i, secret, p, t) ==
  Inserted(T, i, NewCredential(secret, p, TRUE, t))

Provisioned(T, i, secret, p, t) ==
  IF BySecret(T, secret) = {}
  THEN Inserted(T, i, NewCredential(secret, p, TRUE, t))
  ELSE [j \in DOMAIN T |->
          IF j \in BySecret(T, secret)
          THEN [T[j] EXCEPT !.managed = TRUE, !.used = t,
                            !.expires = t + IdleTimeout, !.revoked = FALSE]
          ELSE T[j]]

(* purge_expired *)
Purged(T, t) == Restrict(T, {i \in DOMAIN T : Live(T[i], t)})
==============================================================================
