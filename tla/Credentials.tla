----------------------------- MODULE Credentials -----------------------------
(***************************************************************************)
(* The life of sessions and API tokens: they are issued, used, rolled,     *)
(* revoked, purged, and, when the configuration names them, provisioned at *)
(* every start of the server.                                              *)
(*                                                                         *)
(* Authentication takes several statements, and none of them shares a      *)
(* transaction with the others, so that any other step may come between.   *)
(* AuthRuntime::initialize and the purge that follows it in main are one   *)
(* action per statement; the server may crash between them.                *)
(***************************************************************************)
EXTENDS CredentialTable

CONSTANTS
  Requests,       \* requests being authenticated, each used again and again
  Configs,        \* bound: the static tokens of a configuration, with owners
  MaxTime,        \* bound: the last second
  MaxId           \* bound: rows inserted

ASSUME ConfigsAssumption ==
  Configs \subseteq UNION {[S -> Principals] : S \in SUBSET StaticTokens}
ASSUME BoundsAssumption == MaxTime \in Nat /\ MaxId \in Nat

VARIABLES
  tokens,         \* api_tokens and browser_sessions
  next,           \* the next identifier
  now,            \* the clock
  status,         \* of the server
  config,         \* that the server was started with
  todo,           \* static tokens still to be provisioned
  req             \* the requests

vars == <<tokens, next, now, status, config, todo, req>>

Statuses == {"down", "revoking", "provisioning", "purging", "up", "failed"}

Idle == [pc |-> "idle"]

(* row is what the SELECT returned, time the clock that was read after it. *)
RequestStates ==
  {Idle} \cup
  [pc : {"selected", "expire", "roll", "accepted"}, id : Nat, row : CredentialRows,
   time : Nat]

Init ==
  /\ tokens = [i \in {} |-> Idle]
  /\ next = 0
  /\ now = 0
  /\ status = "down"
  /\ config \in Configs
  /\ todo = {}
  /\ req = [r \in Requests |-> Idle]

Tick ==
  /\ now < MaxTime
  /\ now' = now + 1
  /\ UNCHANGED <<tokens, next, status, config, todo, req>>

(* unix_now() comes before the write lock: the second may be over already, *)
(* a bound on what could be longer.                                        *)
ReadTimes == {t \in 0..now : t >= now - 1}

------------------------------------------------------------------------------
(* Authentication *)

Select(r, i) ==
  /\ status = "up"
  /\ req[r] = Idle
  /\ ~tokens[i].revoked
  /\ req' = [req EXCEPT ![r] =
               [pc |-> "selected", id |-> i, row |-> tokens[i], time |-> 0]]
  /\ UNCHANGED <<tokens, next, now, status, config, todo>>

(* A mutant: a credential used exactly an interval ago is not rolled.      *)
LaterVerdict(row, t) ==
  IF row.expires <= t THEN "expire"
  ELSE IF row.used < t - RollInterval THEN "roll" ELSE "accepted"

Verdict(row, t) ==
  IF row.expires <= t THEN "expire"
  ELSE IF row.used <= t - RollInterval THEN "roll" ELSE "accepted"

ReadClock(r) ==
  /\ req[r].pc = "selected"
  /\ req' = [req EXCEPT ![r].time = now, ![r].pc = Verdict(req[r].row, now)]
  /\ UNCHANGED <<tokens, next, now, status, config, todo>>

(* The statement revokes by identifier: it does not look at expires_at.    *)
Expire(r) ==
  /\ req[r].pc = "expire"
  /\ tokens' = Revoked(tokens, {req[r].id})
  /\ req' = [req EXCEPT ![r] = Idle]
  /\ UNCHANGED <<next, now, status, config, todo>>

(* Accepted whether or not the row was still there to be rolled.           *)
Roll(r) ==
  /\ req[r].pc = "roll"
  /\ tokens' = Rolled(tokens, req[r].id, req[r].time)
  /\ req' = [req EXCEPT ![r].pc = "accepted"]
  /\ UNCHANGED <<next, now, status, config, todo>>

Respond(r) ==
  /\ req[r].pc = "accepted"
  /\ req' = [req EXCEPT ![r] = Idle]
  /\ UNCHANGED <<tokens, next, now, status, config, todo>>

------------------------------------------------------------------------------
(* Handlers that write to the table *)

(* create_browser_session after a login, create_api_token *)
Issue(p, t) ==
  /\ status = "up" /\ next < MaxId
  /\ tokens' = CreateCredential(tokens, next, p, t)
  /\ next' = next + 1
  /\ UNCHANGED <<now, status, config, todo, req>>

(* logout and revoke_token: by the secret that the request came with.      *)
RevokeOwn(r) ==
  /\ req[r].pc = "accepted"
  /\ tokens' = Revoked(tokens, BySecret(tokens, req[r].row.secret))
  /\ req' = [req EXCEPT ![r] = Idle]
  /\ UNCHANGED <<next, now, status, config, todo>>

(* An administrator's request *)
RevokePrincipal(p) ==
  /\ status = "up"
  /\ tokens' = Revoked(tokens, ByPrincipal(tokens, p))
  /\ UNCHANGED <<next, now, status, config, todo, req>>

PurgeExpired(t) ==
  /\ status \in {"purging", "up"}
  /\ tokens' = Purged(tokens, t)
  /\ status' = "up"
  /\ UNCHANGED <<next, now, config, todo, req>>

------------------------------------------------------------------------------
(* The start of the server *)

Start(c) ==
  /\ status \in {"down", "failed"}
  /\ status' = "revoking"
  /\ config' = c
  /\ todo' = DOMAIN c
  /\ UNCHANGED <<tokens, next, now, req>>

(* A mutant: tokens that left the configuration are forgotten.             *)
RevokeNothing ==
  /\ status = "revoking"
  /\ status' = "provisioning"
  /\ UNCHANGED <<tokens, next, now, config, todo, req>>

RevokeManaged ==
  /\ status = "revoking"
  /\ tokens' = Revoked(tokens, Managed(tokens))
  /\ status' = "provisioning"
  /\ UNCHANGED <<next, now, config, todo, req>>

(* Nothing else runs yet, so no one can use a later second than this one.  *)
Provision(s) ==
  /\ status = "provisioning" /\ next < MaxId
  /\ ~BelongsToAnother(tokens, s, config[s])
  /\ tokens' = Provisioned(tokens, next, s, config[s], now)
  /\ next' = IF BySecret(tokens, s) = {} THEN next + 1 ELSE next
  /\ todo' = todo \ {s}
  /\ UNCHANGED <<now, status, config, req>>

FailToProvision(s) ==
  /\ status = "provisioning"
  /\ BelongsToAnother(tokens, s, config[s])
  /\ status' = "failed"
  /\ UNCHANGED <<tokens, next, now, config, todo, req>>

Provisioning == \E s \in todo : Provision(s) \/ FailToProvision(s)

EndProvisioning ==
  /\ status = "provisioning" /\ todo = {}
  /\ status' = "purging"
  /\ UNCHANGED <<tokens, next, now, config, todo, req>>

Crash ==
  /\ status \notin {"down", "failed"}
  /\ status' = "down"
  /\ req' = [r \in Requests |-> Idle]
  /\ UNCHANGED <<tokens, next, now, config, todo>>

Authenticate(r) ==
  \/ \E i \in DOMAIN tokens : Select(r, i)
  \/ ReadClock(r)
  \/ Expire(r)
  \/ Roll(r)
  \/ Respond(r)

Next ==
  \/ Tick
  \/ \E r \in Requests : Authenticate(r) \/ RevokeOwn(r)
  \/ \E p \in Principals : RevokePrincipal(p) \/ \E t \in ReadTimes : Issue(p, t)
  \/ \E t \in ReadTimes : PurgeExpired(t)
  \/ \E c \in Configs : Start(c)
  \/ RevokeManaged
  \/ Provisioning
  \/ EndProvisioning
  \/ Crash

Spec == Init /\ [][Next]_vars

------------------------------------------------------------------------------
(* Properties *)

(* Every variable has its type, a secret has one row, as the column's      *)
(* UNIQUE demands, and the idle timeout runs from the last recorded use.   *)
TypeOK ==
  /\ next \in Nat /\ now \in Nat
  /\ DOMAIN tokens \subseteq 0..(next - 1)
  /\ \A i \in DOMAIN tokens :
       /\ tokens[i] \in CredentialRows
       /\ tokens[i].expires = tokens[i].used + IdleTimeout
       /\ tokens[i].used <= now
       /\ BySecret(tokens, tokens[i].secret) = {i}
  /\ status \in Statuses
  /\ config \in Configs
  /\ todo \subseteq DOMAIN config
  /\ req \in [Requests -> RequestStates]

(* README: each principal can have up to 32 dynamically issued             *)
(* credentials.  The rows are counted, so the expired ones as well.        *)
BoundedCredentials ==
  \A p \in Principals : Cardinality(Dynamic(tokens, p)) <= MaxActive

(* README: newer logins replace the oldest entries.  No other credential   *)
(* that could still be used leaves the table, and a managed one never.     *)
OldestGoFirst ==
  [][\A i \in DOMAIN tokens \ DOMAIN tokens' : Live(tokens[i], now) =>
       /\ ~tokens[i].managed
       /\ Cardinality({j \in Dynamic(tokens', tokens[i].owner) :
            tokens'[j].created >= tokens[i].created}) = MaxActive]_vars

(* The credential that was just issued stays.  It goes at once only if its *)
(* principal got the full number of newer ones, all in this second, while  *)
(* it waited for the write lock with the clock read in the last one.       *)
NewCredentialsStay ==
  [][status = "up" /\ next' # next /\ next \notin DOMAIN tokens' =>
       \E p \in Principals :
         Cardinality({j \in Dynamic(tokens', p) : tokens'[j].created >= now}) = MaxActive]_vars

(* Once revoked, a credential stays so whatever is in flight; only the     *)
(* next start may revive a configured token.                               *)
RevocationIsFinal ==
  [][\A i \in DOMAIN tokens \cap DOMAIN tokens' :
       tokens[i].revoked /\ ~tokens'[i].revoked
         => tokens'[i].managed /\ status = "provisioning"]_vars

(* Of two uses at once the later one counts: authentication and restarts   *)
(* never take lifetime from a credential.                                  *)
ExpiryNeverMovesBack ==
  [][\A i \in DOMAIN tokens \cap DOMAIN tokens' :
       tokens'[i].expires >= tokens[i].expires]_vars

(* The timeout is an idle timeout: whoever was let in has, give or take    *)
(* the roll interval, the full timeout from then on, unless revoked.       *)
UseExtends ==
  \A r \in Requests : req[r].pc = "accepted" =>
    \A i \in DOMAIN tokens \cap {req[r].id} :
      tokens[i].revoked \/ tokens[i].expires > req[r].time + IdleTimeout - RollInterval

(* README: settings change with a restart.  A static token lets in the     *)
(* principal that the running configuration gives it, or nobody.           *)
AcceptedAsConfigured ==
  \A r \in Requests : req[r].pc = "accepted" /\ req[r].row.secret \in StaticTokens =>
    /\ req[r].row.secret \in DOMAIN config
    /\ req[r].row.owner = config[req[r].row.secret]

(* README: restart rustypaste after changing service accounts or legacy    *)
(* token settings.  A configuration gives each token one owner, so nothing *)
(* should keep the server from starting with it.                           *)
StartupSucceeds == status # "failed"
==============================================================================
