----------------------------- MODULE BrowserLogin -----------------------------
(***************************************************************************)
(* Login in the browser with an OpenID Connect provider, and the cookies   *)
(* that come and go with it: /auth/login starts a flow, the provider sends *)
(* the browser to /auth/callback, which consumes the flow, has the         *)
(* provider's token verified, and creates a session; /auth/logout ends it; *)
(* every other answer sets the session cookie again.                       *)
(*                                                                         *)
(* A callback awaits the database and the provider in turn.  Between two   *)
(* awaits other calls run, answers overtake one another, and the provider  *)
(* may replace its signing keys.  Links may be opened again, and in other  *)
(* browsers.  Whoever opens a link does not change it: its code belongs to *)
(* its state, so the PKCE verifier and the nonce of the flow fit.          *)
(*                                                                         *)
(* State, verifier and nonce are random: the flow's identifier stands for  *)
(* the three.  Generation g of the provider's keys holds keys g - 1 and g, *)
(* and the provider signs with the newest.                                 *)
(***************************************************************************)
EXTENDS CredentialTable

CONSTANTS
  None,
  NoChange,       \* an answer leaves a cookie as it is
  Browsers,
  Calls,          \* calls that may be under way together
  Lifetime,       \* OAUTH_FLOW_LIFETIME
  MaxFlows,       \* MAX_ACTIVE_OAUTH_FLOWS
  MaxTime,        \* bound: the last second
  MaxStarted,     \* bound: flows started
  MaxRotations    \* bound: key rotations

ASSUME NoneAssumption == None \notin Principals \cup Browsers \cup Nat
ASSUME NoChangeAssumption == NoChange \notin Nat \cup {None}
ASSUME FlowAssumption == Lifetime \in Nat \ {0} /\ MaxFlows \in Nat \ {0}
ASSUME BoundsAssumption == MaxTime \in Nat /\ MaxStarted \in Nat /\ MaxRotations \in Nat

VARIABLES
  flows,          \* oauth_flows: a function from identifiers to expires_at
  next,           \* the next identifier
  accounts,       \* principals: the people, by (issuer, subject), with a row
  sessions,       \* browser_sessions
  now,            \* the clock
  jar,            \* the cookies of each browser
  published,      \* the generation of the keys the provider publishes
  cached,         \* OidcClient::metadata: the generation the server knows
  call,           \* the calls under way
  origin,         \* history: the browser each flow was started in
  minted          \* history: the sessions created, with their flows

vars == <<flows, next, accounts, sessions, now, jar, published, cached, call, origin, minted>>

Generations == 0..MaxRotations

(* What an answer does to the cookies of its browser.                      *)
NoCookies == [flow |-> NoChange, session |-> NoChange]

NoCall ==
  [pc |-> "idle", browser |-> None, flow |-> None, who |-> None, time |-> 0,
   meta |-> 0, key |-> 0, session |-> None, set |-> NoCookies]

Init ==
  /\ flows = [f \in {} |-> 0]
  /\ next = 0
  /\ accounts = {}
  /\ sessions = [i \in {} |-> None]
  /\ now = 0
  /\ jar = [b \in Browsers |-> [flow |-> None, session |-> None]]
  /\ published = 0
  /\ cached = 0
  /\ call = [c \in Calls |-> NoCall]
  /\ origin = [f \in {} |-> None]
  /\ minted = {}

UnchangedTables == UNCHANGED <<flows, next, accounts, sessions, origin, minted>>
UnchangedKeys == UNCHANGED <<published, cached>>
UnchangedWorld == UNCHANGED <<now, jar, published>>

Tick ==
  /\ now < MaxTime
  /\ now' = now + 1
  /\ UnchangedTables /\ UnchangedKeys /\ UNCHANGED <<jar, call>>

(* The provider takes a new key into use and withdraws the last but one.   *)
RotateKeys ==
  /\ published < MaxRotations
  /\ published' = published + 1
  /\ UnchangedTables /\ UNCHANGED <<now, jar, cached, call>>

------------------------------------------------------------------------------
(* Calls *)

At(c, pc) == call[c].pc = pc

Goto(c, pc) == call' = [call EXCEPT ![c].pc = pc]

(* An answer that sets no cookie changes nothing more.                     *)
AnswerWith(c, set) ==
  call' = [call EXCEPT ![c] =
             IF set = NoCookies THEN NoCall
             ELSE [NoCall EXCEPT !.pc = "answered", !.browser = call[c].browser, !.set = set]]

Refuse(c) == AnswerWith(c, NoCookies)

Begin(c, new) ==
  /\ At(c, "idle")
  /\ call' = [call EXCEPT ![c] = new]
  /\ UnchangedTables /\ UnchangedKeys /\ UNCHANGED <<now, jar>>

(* GET /auth/login; a return_to that is not a path of this site is refused *)
ArriveLogin(c, b) ==
  Begin(c, [NoCall EXCEPT !.pc = "store_flow", !.browser = b, !.time = now])

(* A mutant: any browser may come back from the provider.                  *)
AnyBrowser(b, f) == TRUE

(* "OAuth state does not match this browser"                               *)
MatchesCookie(b, f) == jar[b].flow = f

(* GET /auth/callback with the state of flow f, and a code for who or,     *)
(* without one, the provider's error.  An error does not end the flow.     *)
ArriveCallback(c, b, f, who) ==
  /\ MatchesCookie(b, f)
  /\ Begin(c, IF who = None
              THEN [NoCall EXCEPT !.pc = "answered", !.browser = b,
                                  !.set = [NoCookies EXCEPT !.flow = None]]
              ELSE [NoCall EXCEPT !.pc = "consume_flow", !.browser = b, !.flow = f,
                                  !.who = who, !.time = now])

Accepts(s) == s \in DOMAIN sessions /\ Live(sessions[s], now)

(* A request that the session cookie authenticates.                        *)
ArriveRequest(c, b, pc) ==
  /\ Accepts(jar[b].session)
  /\ Begin(c, [NoCall EXCEPT !.pc = pc, !.browser = b, !.session = jar[b].session])

Arrive(c) ==
  \E b \in Browsers :
    \/ ArriveLogin(c, b)
    \/ \E f \in 0..(next - 1), who \in Principals \cup {None} : ArriveCallback(c, b, f, who)
    \/ \E pc \in {"request", "logout"} : ArriveRequest(c, b, pc)

(* SessionCookieRefresh: also an answer that was long on its way sets the  *)
(* cookie that its request came with.                                      *)
AnswerRequest(c) ==
  /\ At(c, "request")
  /\ AnswerWith(c, [NoCookies EXCEPT !.session = call[c].session])
  /\ UnchangedTables /\ UnchangedWorld /\ UNCHANGED cached

(* logout *)
Logout(c) ==
  /\ At(c, "logout")
  /\ sessions' = Revoked(sessions, BySecret(sessions, call[c].session))
  /\ AnswerWith(c, [NoCookies EXCEPT !.session = None])
  /\ UnchangedWorld /\ UNCHANGED <<flows, next, accounts, cached, origin, minted>>

SetCookie(old, new) == IF new = NoChange THEN old ELSE new

(* The browser gets the answer.                                            *)
Receive(c) ==
  /\ At(c, "answered")
  /\ jar' = [jar EXCEPT ![call[c].browser] =
               [flow |-> SetCookie(@.flow, call[c].set.flow),
                session |-> SetCookie(@.session, call[c].set.session)]]
  /\ call' = [call EXCEPT ![c] = NoCall]
  /\ UnchangedTables /\ UnchangedKeys /\ UNCHANGED now

(* A statement or the provider fails, the answer is lost, or the server    *)
(* crashes: what was done before stays.                                    *)
Fail(c) ==
  /\ ~At(c, "idle")
  /\ call' = [call EXCEPT ![c] = NoCall]
  /\ UnchangedTables /\ UnchangedKeys /\ UNCHANGED <<now, jar>>

------------------------------------------------------------------------------
(* The flow *)

Unexpired(t) == Restrict(flows, {f \in DOMAIN flows : flows[f] > t})

(* A mutant: one flow too many fits.                                       *)
HasRoomForOne(F) == Cardinality(DOMAIN F) <= MaxFlows

HasRoom(F) == Cardinality(DOMAIN F) < MaxFlows

(* store_oauth_flow; the cookie of an earlier flow is replaced.            *)
StoreFlow(c) ==
  /\ At(c, "store_flow") /\ next < MaxStarted
  /\ LET F == Unexpired(call[c].time)
     IN  IF HasRoom(F)
         THEN /\ flows' = [f \in DOMAIN F \cup {next} |->
                             IF f = next THEN call[c].time + Lifetime ELSE F[f]]
              /\ next' = next + 1
              /\ origin' = [f \in 0..next |->
                              IF f = next THEN call[c].browser ELSE origin[f]]
              /\ AnswerWith(c, [NoCookies EXCEPT !.flow = next])
         ELSE /\ flows' = F
              /\ Refuse(c)
              /\ UNCHANGED <<next, origin>>
  /\ UnchangedWorld /\ UNCHANGED <<accounts, sessions, cached, minted>>

(* A mutant: the flow stays, so that the link works again.                 *)
ConsumeNothing(f) == flows

Consumed(f) == Restrict(flows, DOMAIN flows \ {f})

(* consume_oauth_flow; the metadata is copied before the provider is asked *)
ConsumeFlow(c) ==
  LET f == call[c].flow
  IN  /\ At(c, "consume_flow")
      /\ IF f \in DOMAIN flows /\ flows[f] > call[c].time
         THEN /\ flows' = Consumed(f)
              /\ call' = [call EXCEPT ![c].pc = "exchange_code", ![c].time = 0, ![c].meta = cached]
         ELSE Refuse(c) /\ UNCHANGED flows
      /\ UnchangedWorld /\ UNCHANGED <<next, accounts, sessions, cached, origin, minted>>

------------------------------------------------------------------------------
(* complete_login *)

Holds(generation, key) == key \in {generation - 1, generation}

(* A mutant: the keys are those of the start.                              *)
FailUnverified(c) == "keys"

(* A token that the copied keys do not verify has them looked up again.    *)
WhenUnverified(c) == "discover"

(* The provider gives an ID token for the code.                            *)
ExchangeCode(c) ==
  /\ At(c, "exchange_code")
  /\ call' = [call EXCEPT
       ![c].key = published,
       ![c].pc = IF Holds(call[c].meta, published) THEN "verify_hash" ELSE WhenUnverified(c)]
  /\ UnchangedTables /\ UnchangedWorld /\ UNCHANGED cached

Discover(c) ==
  /\ At(c, "discover")
  /\ call' = [call EXCEPT
       ![c].meta = published,
       ![c].pc = IF Holds(published, call[c].key) THEN "update_keys" ELSE "keys"]
  /\ UnchangedTables /\ UnchangedWorld /\ UNCHANGED cached

(* The metadata in memory becomes what this call discovered, be it older   *)
(* than what another call has put there meanwhile.                         *)
UpdateKeys(c) ==
  /\ At(c, "update_keys")
  /\ cached' = call[c].meta
  /\ Goto(c, "verify_hash")
  /\ UnchangedTables /\ UnchangedWorld

(* The access token's hash needs the key once more, of the keys that are   *)
(* in memory by now.                                                       *)
VerifyHash(c) ==
  /\ At(c, "verify_hash")
  /\ call' = [call EXCEPT
       ![c].meta = 0, ![c].key = 0,
       ![c].pc = IF Holds(cached, call[c].key) THEN "user_info" ELSE "keys"]
  /\ UnchangedTables /\ UnchangedWorld /\ UNCHANGED cached

RefuseForKeys(c) ==
  /\ At(c, "keys")
  /\ Refuse(c)
  /\ UnchangedTables /\ UnchangedWorld /\ UNCHANGED cached

(* The claims of the ID token and, if the provider answers for the same    *)
(* subject, of UserInfo: they satisfy the required claims or not.  A       *)
(* UserInfo request that fails is as good as one that says nothing.        *)
UserInfo(c) ==
  /\ At(c, "user_info")
  /\ Refuse(c) \/ Goto(c, "upsert_principal")
  /\ UnchangedTables /\ UnchangedWorld /\ UNCHANGED cached

------------------------------------------------------------------------------
(* The session *)

(* A mutant: a row that is there is updated, one that is not stays away.   *)
OnlyUpdated(p) == accounts

WithAccount(p) == accounts \cup {p}

(* upsert_oidc_principal; the rights that the claims give are not modelled *)
UpsertPrincipal(c) ==
  /\ At(c, "upsert_principal")
  /\ accounts' = WithAccount(call[c].who)
  /\ Goto(c, "create_session")
  /\ UnchangedWorld /\ UNCHANGED <<flows, next, sessions, cached, origin, minted>>

(* create_browser_session *)
CreateSession(c) ==
  LET s == Cardinality(minted)
  IN  /\ At(c, "create_session")
      /\ sessions' = CreateCredential(sessions, s, call[c].who, now)
      /\ minted' = minted \cup {[flow |-> call[c].flow, to |-> call[c].who, token |-> s]}
      /\ AnswerWith(c, [flow |-> None, session |-> s])
      /\ UnchangedWorld /\ UNCHANGED <<flows, next, accounts, cached, origin>>

(* purge_expired, hourly and at startup                                    *)
PurgeExpired ==
  /\ flows' = Unexpired(now)
  /\ sessions' = Purged(sessions, now)
  /\ UnchangedWorld /\ UNCHANGED <<next, accounts, cached, call, origin, minted>>

Step(c) ==
  \/ AnswerRequest(c) \/ Logout(c) \/ Receive(c)
  \/ StoreFlow(c) \/ ConsumeFlow(c)
  \/ ExchangeCode(c) \/ Discover(c) \/ UpdateKeys(c) \/ VerifyHash(c) \/ RefuseForKeys(c)
  \/ UserInfo(c) \/ UpsertPrincipal(c) \/ CreateSession(c)

Next ==
  \/ Tick
  \/ RotateKeys
  \/ \E c \in Calls : Arrive(c) \/ Step(c) \/ Fail(c)
  \/ PurgeExpired

Spec == Init /\ [][Next]_vars

------------------------------------------------------------------------------
(* Properties *)

Locations ==
  {"idle", "answered", "request", "logout", "store_flow", "consume_flow", "exchange_code",
   "discover", "update_keys", "verify_hash", "keys", "user_info", "upsert_principal",
   "create_session"}

(* Every variable has its type; a session's owner has a row in principals. *)
TypeOK ==
  /\ next \in Nat /\ now \in Nat
  /\ DOMAIN flows \subseteq 0..(next - 1) /\ \A f \in DOMAIN flows : flows[f] \in Nat
  /\ accounts \subseteq Principals
  /\ \A i \in DOMAIN sessions :
       sessions[i] \in CredentialRows /\ sessions[i].owner \in accounts
  /\ \A b \in Browsers : jar[b].flow \in Nat \cup {None} /\ jar[b].session \in Nat \cup {None}
  /\ published \in Generations /\ cached \in 0..published
  /\ \A c \in Calls :
       /\ call[c].pc \in Locations
       /\ call[c].time \in 0..now
       /\ call[c].meta \in 0..published /\ call[c].key \in 0..published
  /\ origin \in [0..(next - 1) -> Browsers]

(* MAX_ACTIVE_OAUTH_FLOWS: "too many active OAuth login flows; try again   *)
(* later", however many logins start at once.                              *)
BoundedFlows == Cardinality(DOMAIN flows) <= MaxFlows

(* "OAuth state does not match this browser": with links opened elsewhere, *)
(* logins in two tabs, cookies replaced and answers late, a browser only   *)
(* ever holds sessions of flows that were started in it.                   *)
SessionsStayInTheirBrowser ==
  \A b \in Browsers : jar[b].session # None =>
    \E m \in minted : m.token = jar[b].session /\ origin[m.flow] = b

(* A provider that takes a new key into use while it still publishes the   *)
(* old one costs nobody a login, whenever that happens and whatever other  *)
(* logins are doing.                                                       *)
OneRotationIsHarmless == published <= 1 => \A c \in Calls : ~At(c, "keys")

(* "Atomically consumes a valid OAuth transaction, preventing callback     *)
(* replay": links may be opened twice and at once, yet every flow is a     *)
(* one-time grant: one callback takes it, and one session comes of it, for *)
(* the person the provider named to that callback.                         *)
MintedFor(f) == {m \in minted : m.flow = f}

Completing(f) ==
  {c \in Calls : call[c].flow = f /\ call[c].pc # "consume_flow"}

GrantOf(f) ==
  IF MintedFor(f) # {}
  THEN [state |-> "delivered", to |-> (CHOOSE m \in MintedFor(f) : TRUE).to,
        tokens |-> {m.token : m \in MintedFor(f)}]
  ELSE IF Completing(f) # {}
  THEN [state |-> "approved", to |-> call[CHOOSE c \in Completing(f) : TRUE].who, tokens |-> {}]
  ELSE [state |-> IF f \in DOMAIN flows THEN "pending" ELSE IF f < next THEN "lapsed" ELSE "none",
        to |-> None, tokens |-> {}]

Grant == INSTANCE OneTimeGrant WITH
  Grants <- 0..(MaxStarted - 1),
  Tokens <- 0..(MaxStarted - 1),
  grant <- [f \in 0..(MaxStarted - 1) |-> GrantOf(f)]

LoginsAreOneTimeGrants == Grant!Spec
==============================================================================
