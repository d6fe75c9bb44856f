-------------------------- MODULE BrowserLoginProofs --------------------------
(***************************************************************************)
(* Theorems about the login in the browser, for any number of people,      *)
(* browsers, calls, flows and key rotations.                               *)
(***************************************************************************)
EXTENDS BrowserLogin, FiniteSetTheorems, TLAPS

(* What a call knows while it is on its way to a session.                  *)
FlowLocations ==
  {"consume_flow", "exchange_code", "discover", "update_keys", "verify_hash", "keys",
   "user_info", "upsert_principal", "create_session"}

CookieChanges == [flow : Nat \cup {None, NoChange}, session : Nat \cup {None, NoChange}]

CallRecords ==
  [pc : Locations, browser : Browsers \cup {None}, flow : Nat \cup {None},
   who : Principals \cup {None}, time : Nat, meta : Nat, key : Nat,
   session : Nat \cup {None}, set : CookieChanges]

(* A table whose rows belong to people with an account.                    *)
OwnedRows(T) == \A i \in DOMAIN T : T[i] \in CredentialRows /\ T[i].owner \in accounts

(* The types that the actions rely on: of everything but the calls, ...    *)
WorldTypes ==
  /\ next \in Nat /\ now \in Nat /\ now <= MaxTime
  /\ DOMAIN flows \subseteq 0..(next - 1) /\ \A f \in DOMAIN flows : flows[f] \in Nat
  /\ accounts \subseteq Principals
  /\ OwnedRows(sessions)
  /\ jar \in [Browsers -> [flow : Nat \cup {None}, session : Nat \cup {None}]]
  /\ published \in Generations /\ cached \in 0..published
  /\ origin \in [0..(next - 1) -> Browsers]
  /\ minted \subseteq [flow : 0..(next - 1), to : Principals, token : Nat]
  /\ IsFiniteSet(minted)

(* ... and of a call.                                                      *)
GoodCall(k) ==
  /\ k \in CallRecords
  /\ k.pc = "idle" => k = NoCall
  /\ k.pc # "idle" => k.browser \in Browsers
  /\ k.pc \notin FlowLocations => k.flow = None
  /\ k.pc \in FlowLocations => k.who \in Principals /\ k.flow \in 0..(next - 1)
  /\ k.pc = "create_session" => k.who \in accounts
  /\ k.time <= now /\ k.meta <= published /\ k.key <= published

GoodCalls == call = [c \in Calls |-> call[c]] /\ \A c \in Calls : GoodCall(call[c])

Types == WorldTypes /\ GoodCalls

(* Each browser's cookies, and those on their way to it, are of its own    *)
(* flows, and so is what a call does for it.                               *)
OwnFlow(b, f) == f \in 0..(next - 1) /\ origin[f] = b
OwnSession(b, s) == \E m \in minted : m.token = s /\ OwnFlow(b, m.flow)

OwnCall(k) ==
  /\ k.pc \in FlowLocations => OwnFlow(k.browser, k.flow)
  /\ k.session # None => OwnSession(k.browser, k.session)
  /\ k.set.flow \notin {None, NoChange} => OwnFlow(k.browser, k.set.flow)
  /\ k.set.session \notin {None, NoChange} => OwnSession(k.browser, k.set.session)

OwnJar(b) ==
  /\ jar[b].flow # None => OwnFlow(b, jar[b].flow)
  /\ jar[b].session # None => OwnSession(b, jar[b].session)

OwnCookies ==
  /\ \A b \in Browsers : OwnJar(b)
  /\ \A c \in Calls : OwnCall(call[c])

(* With one rotation at most, what a call may find out about the keys.     *)
KeysSuffice ==
  published <= 1 =>
    \A c \in Calls :
      /\ At(c, "exchange_code") => call[c].meta <= cached
      /\ At(c, "discover") => call[c].key = 1 /\ published = 1
      /\ At(c, "update_keys") => call[c].meta = 1
      /\ At(c, "verify_hash") => call[c].key <= cached
      /\ ~At(c, "keys")

------------------------------------------------------------------------------
(* Tables                                                                  *)

(* A purge leaves rows as they are.                                        *)
LEMMA PurgedRows == ASSUME NEW T, OwnedRows(T), NEW t PROVE OwnedRows(Purged(T, t))
BY DEF Purged, Restrict, OwnedRows

(* A revocation only leaves its mark.                                      *)
LEMMA RevokedRows == ASSUME NEW T, OwnedRows(T), NEW rows PROVE OwnedRows(Revoked(T, rows))
<1>1. \A r \in CredentialRows :
        /\ [r EXCEPT !.revoked = TRUE] \in CredentialRows
        /\ [r EXCEPT !.revoked = TRUE].owner = r.owner
  BY DEF CredentialRows
<1>2. ASSUME NEW i \in DOMAIN T
      PROVE  /\ Revoked(T, rows)[i] \in CredentialRows
             /\ Revoked(T, rows)[i].owner \in accounts
  <2>1. T[i] \in CredentialRows /\ T[i].owner \in accounts
    BY DEF OwnedRows
  <2>. QED
    BY <1>1, <2>1 DEF Revoked
<1>. QED
  BY <1>2 DEF OwnedRows, Revoked

(* A new session adds its row, and pruning leaves the others as they are.  *)
LEMMA CreatedRows ==
  ASSUME NEW T, OwnedRows(T), NEW k \in Nat, NEW p \in Principals, p \in accounts, NEW t \in Nat
  PROVE  OwnedRows(CreateCredential(T, k, p, t))
<1> DEFINE new == NewCredential(k, p, FALSE, t)
           I == Inserted(T, k, new)
<1>1. new \in CredentialRows /\ new.owner = p
  BY TimeoutAssumption DEF NewCredential, CredentialRows, Secrets
<1>2. \A j \in DOMAIN I : I[j] = new \/ (j \in DOMAIN T /\ I[j] = T[j])
  BY DEF Inserted
<1>3. OwnedRows(I)
  BY <1>1, <1>2 DEF OwnedRows
<1>4. \A i \in DOMAIN CreateCredential(T, k, p, t) :
        i \in DOMAIN I /\ CreateCredential(T, k, p, t)[i] = I[i]
  BY DEF CreateCredential, Pruned, Restrict
<1>. QED
  BY <1>3, <1>4 DEF OwnedRows

------------------------------------------------------------------------------
(* The invariants                                                          *)

(* Steps only add to what a call may refer to.                             *)
LEMMA WorldGrows ==
  ASSUME WorldTypes, [Next]_vars
  PROVE  /\ next <= next' /\ now <= now' /\ published <= published'
         /\ accounts \subseteq accounts'
<1>. USE BoundsAssumption DEF WorldTypes, Generations, UnchangedTables, UnchangedKeys,
         UnchangedWorld
<1>1. CASE Tick
  BY <1>1 DEF Tick
<1>2. CASE RotateKeys
  BY <1>2 DEF RotateKeys, Generations
<1>3. ASSUME NEW c \in Calls, Arrive(c)
      PROVE  UNCHANGED <<next, now, published, accounts>>
  BY <1>3 DEF Arrive, ArriveLogin, ArriveCallback, ArriveRequest, Begin
<1>4. ASSUME NEW c \in Calls, Step(c)
      PROVE  /\ UNCHANGED <<now, published>> /\ next <= next' /\ accounts \subseteq accounts'
  BY <1>4 DEF Step, AnswerRequest, Logout, Receive, StoreFlow, ConsumeFlow, ExchangeCode,
       Discover, UpdateKeys, VerifyHash, RefuseForKeys, UserInfo, UpsertPrincipal,
       WithAccount, CreateSession
<1>5. ASSUME NEW c \in Calls, Fail(c)
      PROVE  UNCHANGED <<next, now, published, accounts>>
  BY <1>5 DEF Fail
<1>6. CASE PurgeExpired
  BY <1>6 DEF PurgeExpired
<1>7. CASE UNCHANGED vars
  BY <1>7 DEF vars
<1>. QED
  BY <1>1, <1>2, <1>3, <1>4, <1>5, <1>6, <1>7 DEF Next, Generations

(* Every action keeps the types of what is not a call.                     *)
LEMMA WorldStep == Types /\ [Next]_vars => WorldTypes'
<1> SUFFICES ASSUME Types, [Next]_vars PROVE WorldTypes'
  OBVIOUS
<1>. USE NoneAssumption, NoChangeAssumption, BoundsAssumption
     DEF Types, WorldTypes, Generations, UnchangedTables, UnchangedKeys, UnchangedWorld
<1>1. CASE Tick
  BY <1>1 DEF Tick, OwnedRows
<1>2. CASE RotateKeys
  BY <1>2 DEF RotateKeys, OwnedRows
<1>3. ASSUME NEW c \in Calls, Arrive(c) PROVE WorldTypes'
  BY <1>3 DEF Arrive, ArriveLogin, ArriveCallback, ArriveRequest, Begin, OwnedRows
<1>4. ASSUME NEW c \in Calls, AnswerRequest(c) PROVE WorldTypes'
  BY <1>4 DEF AnswerRequest, OwnedRows
<1>5. ASSUME NEW c \in Calls, Logout(c) PROVE WorldTypes'
  <2>1. OwnedRows(sessions')
    BY <1>5, RevokedRows DEF Logout
  <2>. QED
    BY <1>5, <2>1 DEF Logout, OwnedRows
<1>6. ASSUME NEW c \in Calls, Receive(c) PROVE WorldTypes'
  <2>1. GoodCall(call[c])
    BY DEF GoodCalls
  <2>2. \A b \in Browsers :
          /\ SetCookie(jar[b].flow, call[c].set.flow) \in Nat \cup {None}
          /\ SetCookie(jar[b].session, call[c].set.session) \in Nat \cup {None}
    BY <2>1 DEF SetCookie, GoodCall, CallRecords, CookieChanges
  <2>. QED
    BY <1>6, <2>2 DEF Receive, OwnedRows
<1>7. ASSUME NEW c \in Calls, StoreFlow(c) PROVE WorldTypes'
  <2>1. GoodCall(call[c]) /\ call[c].pc = "store_flow" /\ call[c].time \in Nat
    BY <1>7 DEF GoodCalls, StoreFlow, At, GoodCall, CallRecords
  <2>2. call[c].browser \in Browsers
    BY <2>1 DEF GoodCall
  <2> DEFINE F == Unexpired(call[c].time)
  <2>3. DOMAIN F \subseteq 0..(next - 1) /\ \A f \in DOMAIN F : F[f] \in Nat
    BY DEF Unexpired, Restrict
  <2>4. CASE HasRoom(F)
    <3> HIDE DEF F
    <3>1. next' = next + 1 /\ DOMAIN flows' = DOMAIN F \cup {next}
      BY <1>7, <2>4 DEF StoreFlow, F
    <3>2. \A f \in DOMAIN flows' : flows'[f] \in Nat
      BY <1>7, <2>1, <2>3, <2>4, FlowAssumption DEF StoreFlow, F
    <3>3. origin' \in [0..(next' - 1) -> Browsers]
      BY <1>7, <2>2, <2>4, <3>1 DEF StoreFlow, F
    <3>. QED
      BY <1>7, <2>3, <3>1, <3>2, <3>3 DEF StoreFlow, OwnedRows
  <2>5. CASE ~HasRoom(F)
    BY <1>7, <2>3, <2>5 DEF StoreFlow, OwnedRows
  <2>. QED
    BY <2>4, <2>5
<1>8. ASSUME NEW c \in Calls, ConsumeFlow(c) PROVE WorldTypes'
  BY <1>8 DEF ConsumeFlow, Consumed, Restrict, OwnedRows
<1>9. ASSUME NEW c \in Calls,
             ExchangeCode(c) \/ Discover(c) \/ VerifyHash(c) \/ RefuseForKeys(c) \/ UserInfo(c)
      PROVE  WorldTypes'
  BY <1>9 DEF ExchangeCode, Discover, VerifyHash, RefuseForKeys, UserInfo, OwnedRows
<1>10. ASSUME NEW c \in Calls, UpdateKeys(c) PROVE WorldTypes'
  <2>1. GoodCall(call[c])
    BY DEF GoodCalls
  <2>2. call[c].meta \in 0..published
    BY <2>1 DEF GoodCall, CallRecords
  <2>. QED
    BY <1>10, <2>2 DEF UpdateKeys, OwnedRows
<1>11. ASSUME NEW c \in Calls, UpsertPrincipal(c) PROVE WorldTypes'
  <2>1. GoodCall(call[c]) /\ call[c].pc = "upsert_principal"
    BY <1>11 DEF GoodCalls, UpsertPrincipal, At
  <2>2. call[c].who \in Principals
    BY <2>1 DEF GoodCall, FlowLocations
  <2>. QED
    BY <1>11, <2>2 DEF UpsertPrincipal, WithAccount, OwnedRows
<1>12. ASSUME NEW c \in Calls, CreateSession(c) PROVE WorldTypes'
  <2> DEFINE s == Cardinality(minted)
             m == [flow |-> call[c].flow, to |-> call[c].who, token |-> s]
  <2>1. GoodCall(call[c]) /\ call[c].pc = "create_session"
    BY <1>12 DEF GoodCalls, CreateSession, At
  <2>2. call[c].who \in Principals /\ call[c].who \in accounts /\ call[c].flow \in 0..(next - 1)
    BY <2>1 DEF GoodCall, FlowLocations
  <2>3. s \in Nat
    BY FS_CardinalityType
  <2>4. OwnedRows(sessions')
    BY <1>12, <2>2, <2>3, CreatedRows DEF CreateSession
  <2>5. minted' = minted \cup {m} /\ IsFiniteSet(minted')
    BY <1>12, FS_AddElement DEF CreateSession
  <2>. QED
    BY <1>12, <2>2, <2>3, <2>4, <2>5 DEF CreateSession, OwnedRows
<1>13. ASSUME NEW c \in Calls, Fail(c) PROVE WorldTypes'
  BY <1>13 DEF Fail, OwnedRows
<1>14. CASE PurgeExpired
  <2>1. OwnedRows(sessions')
    BY <1>14, PurgedRows DEF PurgeExpired
  <2>. QED
    BY <1>14, <2>1 DEF PurgeExpired, Unexpired, Restrict, OwnedRows
<1>15. CASE UNCHANGED vars
  BY <1>15 DEF vars, OwnedRows
<1>. QED
  BY <1>1, <1>2, <1>3, <1>4, <1>5, <1>6, <1>7, <1>8, <1>9, <1>10, <1>11, <1>12, <1>13, <1>14,
     <1>15 DEF Next, Step

(* A good call stays good.                                                 *)
LEMMA GoodStaysGood ==
  ASSUME Types, [Next]_vars
  PROVE  \A k : GoodCall(k) => GoodCall(k)'
<1>1. WorldTypes /\ WorldTypes'
  BY WorldStep DEF Types
<1>2. next <= next' /\ now <= now' /\ published <= published' /\ accounts \subseteq accounts'
  BY WorldGrows DEF Types
<1>3. /\ next \in Nat /\ now \in Nat /\ published \in Nat
      /\ next' \in Nat /\ now' \in Nat /\ published' \in Nat
  BY <1>1, BoundsAssumption DEF WorldTypes, Generations
<1>. SUFFICES ASSUME NEW k, GoodCall(k) PROVE GoodCall(k)'
  OBVIOUS
<1>. QED
  BY <1>2, <1>3 DEF GoodCall, CallRecords

(* If one call becomes another good one, all are good.                     *)
LEMMA OneCallChanges ==
  ASSUME Types, [Next]_vars, NEW c \in Calls,
         \E k : GoodCall(k) /\ call' = [call EXCEPT ![c] = k]
  PROVE  GoodCalls'
BY GoodStaysGood DEF Types, GoodCalls

(* Every action leaves a call good.                                        *)
LEMMA CallsStep == Types /\ [Next]_vars => GoodCalls'
<1> SUFFICES ASSUME Types, [Next]_vars PROVE GoodCalls'
  OBVIOUS
<1>1. WorldTypes /\ WorldTypes' /\ GoodCalls
  BY WorldStep DEF Types
<1>2. \A c \in Calls : GoodCall(call[c])
  BY <1>1 DEF GoodCalls
<1>3. GoodCall(NoCall)
  BY <1>1, BoundsAssumption
     DEF GoodCall, NoCall, NoCookies, CallRecords, CookieChanges, Locations, FlowLocations,
         WorldTypes, Generations
<1>4. ASSUME NEW c \in Calls, call' = [call EXCEPT ![c] = NoCall] PROVE GoodCalls'
  BY <1>3, <1>4, OneCallChanges
<1>5. ASSUME NEW c \in Calls, ~At(c, "idle"), NEW set \in CookieChanges, AnswerWith(c, set)
      PROVE  GoodCalls'
  <2> DEFINE k == [NoCall EXCEPT !.pc = "answered", !.browser = call[c].browser, !.set = set]
  <2>1. call[c].browser \in Browsers
    BY <1>2, <1>5 DEF GoodCall, At
  <2>2. GoodCall(k)
    BY <1>3, <2>1 DEF GoodCall, NoCall, CallRecords, Locations, FlowLocations
  <2>. QED
    BY <1>4, <1>5, <2>2, OneCallChanges DEF AnswerWith
<1>6. ASSUME NEW c \in Calls, ~At(c, "idle"), Refuse(c) PROVE GoodCalls'
  BY <1>5, <1>6 DEF Refuse, NoCookies, CookieChanges
<1>7. ASSUME NEW c \in Calls, NEW b \in Browsers, ArriveLogin(c, b) PROVE GoodCalls'
  <2> DEFINE k == [NoCall EXCEPT !.pc = "store_flow", !.browser = b, !.time = now]
  <2>1. now \in Nat /\ now <= now
    BY <1>1 DEF WorldTypes
  <2>2. GoodCall(k)
    BY <1>3, <2>1 DEF GoodCall, NoCall, CallRecords, Locations, FlowLocations
  <2>. QED
    BY <1>7, <2>2, OneCallChanges DEF ArriveLogin, Begin
<1>8. ASSUME NEW c \in Calls, NEW b \in Browsers, NEW f \in 0..(next - 1),
             NEW who \in Principals \cup {None}, ArriveCallback(c, b, f, who)
      PROVE  GoodCalls'
  <2> DEFINE back == [NoCall EXCEPT !.pc = "answered", !.browser = b,
                                    !.set = [NoCookies EXCEPT !.flow = None]]
             k == [NoCall EXCEPT !.pc = "consume_flow", !.browser = b, !.flow = f,
                                 !.who = who, !.time = now]
  <2>1. GoodCall(back)
    BY <1>3 DEF GoodCall, NoCall, NoCookies, CallRecords, CookieChanges, Locations, FlowLocations
  <2>2. f \in Nat /\ now \in Nat /\ now <= now
    BY <1>1 DEF WorldTypes
  <2>3. who # None => GoodCall(k)
    <3>1. k \in CallRecords
      BY <1>3, <2>2 DEF GoodCall, NoCall, CallRecords, Locations
    <3>2. NoCall.meta <= published /\ NoCall.key <= published
      BY <1>3 DEF GoodCall
    <3>. QED
      BY <2>2, <3>1, <3>2 DEF GoodCall, NoCall, FlowLocations
  <2>. QED
    BY <1>8, <2>1, <2>3, OneCallChanges DEF ArriveCallback, Begin
<1>9. ASSUME NEW c \in Calls, NEW b \in Browsers, NEW pc \in {"request", "logout"},
             ArriveRequest(c, b, pc)
      PROVE  GoodCalls'
  <2> DEFINE k == [NoCall EXCEPT !.pc = pc, !.browser = b, !.session = jar[b].session]
  <2>1. jar[b].session \in Nat \cup {None}
    BY <1>1 DEF WorldTypes
  <2>2. GoodCall(k)
    BY <1>3, <1>9, <2>1 DEF GoodCall, NoCall, CallRecords, Locations, FlowLocations
  <2>. QED
    BY <1>9, <2>2, OneCallChanges DEF ArriveRequest, Begin
<1>10. ASSUME NEW c \in Calls, AnswerRequest(c) \/ Logout(c) PROVE GoodCalls'
  <2>1. /\ [NoCookies EXCEPT !.session = None] \in CookieChanges
        /\ [NoCookies EXCEPT !.session = call[c].session] \in CookieChanges
    BY <1>2 DEF NoCookies, CookieChanges, GoodCall, CallRecords
  <2>. QED
    BY <1>5, <1>10, <2>1 DEF AnswerRequest, Logout, At
<1>11. ASSUME NEW c \in Calls, Receive(c) \/ Fail(c) PROVE GoodCalls'
  BY <1>4, <1>11 DEF Receive, Fail
<1>12. ASSUME NEW c \in Calls, StoreFlow(c) PROVE GoodCalls'
  <2>1. [NoCookies EXCEPT !.flow = next] \in CookieChanges
    BY <1>1 DEF NoCookies, CookieChanges, WorldTypes
  <2>. QED
    BY <1>5, <1>6, <1>12, <2>1 DEF StoreFlow, At
<1>13. ASSUME NEW c \in Calls, ConsumeFlow(c) PROVE GoodCalls'
  <2> DEFINE k == [call[c] EXCEPT !.pc = "exchange_code", !.time = 0, !.meta = cached]
  <2>1. call[c].pc = "consume_flow"
    BY <1>13 DEF ConsumeFlow, At
  <2>2. cached \in Nat /\ cached <= published /\ 0 <= now
    BY <1>1, BoundsAssumption DEF WorldTypes, Generations
  <2>3. GoodCall(call[c])
    BY <1>2
  <2>4. GoodCall(k)
    BY <2>1, <2>2, <2>3 DEF GoodCall, CallRecords, Locations, FlowLocations
  <2>5. CASE Refuse(c)
    BY <1>6, <2>1, <2>5 DEF At
  <2>6. CASE ~Refuse(c)
    <3>1. call' = [call EXCEPT ![c] = k]
      BY <1>1, <1>13, <2>6 DEF ConsumeFlow, GoodCalls
    <3>. QED
      BY <2>4, <3>1, OneCallChanges
  <2>. QED
    BY <2>5, <2>6
<1>14. ASSUME NEW c \in Calls, ExchangeCode(c) \/ Discover(c) PROVE GoodCalls'
  <2>1. /\ call[c].pc \in {"exchange_code", "discover"}
        /\ call' = [call EXCEPT ![c] = call'[c]]
        /\ \/ call'[c] = [call[c] EXCEPT !.key = published, !.pc = "verify_hash"]
           \/ call'[c] = [call[c] EXCEPT !.key = published, !.pc = "discover"]
           \/ call'[c] = [call[c] EXCEPT !.meta = published, !.pc = "update_keys"]
           \/ call'[c] = [call[c] EXCEPT !.meta = published, !.pc = "keys"]
    BY <1>1, <1>14 DEF ExchangeCode, Discover, WhenUnverified, At, GoodCalls
  <2>2. published \in Nat /\ published <= published
    BY <1>1, BoundsAssumption DEF WorldTypes, Generations
  <2>3. GoodCall(call[c])
    BY <1>2
  <2>4. \A pc \in {"verify_hash", "discover", "update_keys", "keys"} :
          /\ GoodCall([call[c] EXCEPT !.key = published, !.pc = pc])
          /\ GoodCall([call[c] EXCEPT !.meta = published, !.pc = pc])
    BY <2>1, <2>2, <2>3 DEF GoodCall, CallRecords, Locations, FlowLocations
  <2>. QED
    BY <2>1, <2>4, OneCallChanges
<1>15. ASSUME NEW c \in Calls, UpdateKeys(c) PROVE GoodCalls'
  <2> DEFINE k == [call[c] EXCEPT !.pc = "verify_hash"]
  <2>1. GoodCall(call[c]) /\ call[c].pc = "update_keys"
    BY <1>2, <1>15 DEF UpdateKeys, At
  <2>2. GoodCall(k)
    BY <2>1 DEF GoodCall, CallRecords, Locations, FlowLocations
  <2>. QED
    BY <1>15, <2>2, OneCallChanges DEF UpdateKeys, Goto
<1>16. ASSUME NEW c \in Calls, VerifyHash(c) PROVE GoodCalls'
  <2>1. GoodCall(call[c]) /\ call[c].pc = "verify_hash"
    BY <1>2, <1>16 DEF VerifyHash, At
  <2>2. published \in Nat /\ 0 <= published
    BY <1>1, BoundsAssumption DEF WorldTypes, Generations
  <2>3. \A pc \in {"user_info", "keys"} :
          GoodCall([call[c] EXCEPT !.meta = 0, !.key = 0, !.pc = pc])
    BY <2>1, <2>2 DEF GoodCall, CallRecords, Locations, FlowLocations
  <2>4. \E pc \in {"user_info", "keys"} :
          call' = [call EXCEPT ![c] = [call[c] EXCEPT !.meta = 0, !.key = 0, !.pc = pc]]
    BY <1>1, <1>16 DEF VerifyHash, GoodCalls
  <2>. QED
    BY <2>3, <2>4, OneCallChanges
<1>17. ASSUME NEW c \in Calls, RefuseForKeys(c) PROVE GoodCalls'
  BY <1>6, <1>17 DEF RefuseForKeys, At
<1>18. ASSUME NEW c \in Calls, UserInfo(c) PROVE GoodCalls'
  <2> DEFINE k == [call[c] EXCEPT !.pc = "upsert_principal"]
  <2>1. GoodCall(call[c]) /\ call[c].pc = "user_info"
    BY <1>2, <1>18 DEF UserInfo, At
  <2>2. GoodCall(k)
    BY <2>1 DEF GoodCall, CallRecords, Locations, FlowLocations
  <2>3. CASE Goto(c, "upsert_principal")
    BY <2>2, <2>3, OneCallChanges DEF Goto
  <2>4. CASE Refuse(c)
    BY <1>6, <2>1, <2>4 DEF At
  <2>. QED
    BY <1>18, <2>3, <2>4 DEF UserInfo
<1>19. ASSUME NEW c \in Calls, UpsertPrincipal(c) PROVE GoodCalls'
  <2> DEFINE k == [call[c] EXCEPT !.pc = "create_session"]
  <2>1. GoodCall(call[c]) /\ call[c].pc = "upsert_principal"
    BY <1>2, <1>19 DEF UpsertPrincipal, At
  <2>2. call' = [call EXCEPT ![c] = k] /\ accounts' = accounts \cup {call[c].who}
    BY <1>19 DEF UpsertPrincipal, Goto, WithAccount
  <2>3. UNCHANGED <<next, now, published>>
    BY <1>19 DEF UpsertPrincipal, UnchangedWorld
  <2>4. GoodCall(call[c])'
    <3>1. call'[c] = k /\ k \in CallRecords
      BY <1>1, <2>1, <2>2 DEF GoodCall, GoodCalls, CallRecords, Locations
    <3>. QED
      BY <2>1, <2>2, <2>3, <3>1 DEF GoodCall, FlowLocations, CallRecords
  <2>5. ASSUME NEW d \in Calls, d # c PROVE GoodCall(call[d])'
    <3>1. call'[d] = call[d] /\ GoodCall(call[d])
      BY <1>1, <1>2, <2>2, <2>5 DEF GoodCalls
    <3>. QED
      BY <3>1, GoodStaysGood
  <2>. QED
    BY <1>1, <2>2, <2>4, <2>5 DEF GoodCalls
<1>20. ASSUME NEW c \in Calls, CreateSession(c) PROVE GoodCalls'
  <2>1. Cardinality(minted) \in Nat
    BY <1>1, FS_CardinalityType DEF WorldTypes
  <2>2. [flow |-> None, session |-> Cardinality(minted)] \in CookieChanges
    BY <2>1 DEF CookieChanges
  <2>. QED
    BY <1>5, <1>20, <2>2 DEF CreateSession, At
<1>21. CASE UNCHANGED call
  BY <1>1, <1>2, <1>21, GoodStaysGood DEF GoodCalls
<1>22. Tick \/ RotateKeys \/ PurgeExpired \/ UNCHANGED vars => UNCHANGED call
  BY DEF Tick, RotateKeys, PurgeExpired, vars
<1>. QED
  BY <1>7, <1>8, <1>9, <1>10, <1>11, <1>12, <1>13, <1>14, <1>15, <1>16, <1>17, <1>18, <1>19,
     <1>20, <1>21, <1>22 DEF Next, Arrive, Step

(* The invariant of types.                                                 *)
LEMMA TypesHold == Spec => []Types
<1>1. Init => WorldTypes
  BY BoundsAssumption, FS_EmptySet DEF Init, WorldTypes, OwnedRows, Generations
<1>2. Init => GoodCalls
  BY BoundsAssumption, NoneAssumption
     DEF Init, GoodCalls, GoodCall, NoCall, NoCookies, CallRecords, CookieChanges, Locations,
         FlowLocations
<1>3. Types /\ [Next]_vars => Types'
  BY WorldStep, CallsStep DEF Types
<1>. QED
  BY <1>1, <1>2, <1>3, PTL DEF Spec, Types

(* Every variable keeps its type, and a session's owner always has a row   *)
(* in principals.                                                          *)
THEOREM TypeCorrect == Spec => []TypeOK
<1>1. ASSUME Types PROVE TypeOK
  <2>1. \A c \in Calls :
          /\ call[c].pc \in Locations
          /\ call[c].time \in 0..now
          /\ call[c].meta \in 0..published /\ call[c].key \in 0..published
    BY <1>1, BoundsAssumption DEF Types, GoodCalls, GoodCall, CallRecords, WorldTypes, Generations
  <2>2. \A i \in DOMAIN sessions :
          sessions[i] \in CredentialRows /\ sessions[i].owner \in accounts
    BY <1>1 DEF Types, WorldTypes, OwnedRows
  <2>3. \A b \in Browsers :
          jar[b].flow \in Nat \cup {None} /\ jar[b].session \in Nat \cup {None}
    BY <1>1 DEF Types, WorldTypes
  <2>. QED
    BY <1>1, <2>1, <2>2, <2>3 DEF Types, WorldTypes, TypeOK
<1>. QED
  BY <1>1, TypesHold, PTL

------------------------------------------------------------------------------
(* The number of flows                                                     *)

(* Logins that start at once never leave more flows than the limit.        *)
THEOREM FlowsAreBounded == Spec => []BoundedFlows
<1>1. Init => BoundedFlows
  BY FS_EmptySet, FlowAssumption DEF Init, BoundedFlows
<1>2. Types /\ BoundedFlows /\ [Next]_vars => BoundedFlows'
  <2> SUFFICES ASSUME Types, BoundedFlows, [Next]_vars PROVE BoundedFlows'
    OBVIOUS
  <2>1. IsFiniteSet(DOMAIN flows)
    <3>1. DOMAIN flows \in SUBSET (0..(next - 1)) /\ next - 1 \in Int
      BY DEF Types, WorldTypes
    <3>2. IsFiniteSet(0..(next - 1))
      BY <3>1, FS_Interval
    <3>. QED
      BY <3>1, <3>2, FS_Subset
  <2>2. ASSUME NEW S, S \subseteq DOMAIN flows
        PROVE  IsFiniteSet(S) /\ Cardinality(S) \in Nat /\ Cardinality(S) <= MaxFlows
    <3>1. /\ IsFiniteSet(S) /\ Cardinality(S) \in Nat /\ Cardinality(DOMAIN flows) \in Nat
          /\ Cardinality(S) <= Cardinality(DOMAIN flows)
      BY <2>1, <2>2, FS_Subset, FS_CardinalityType
    <3>. QED
      BY <3>1, FlowAssumption DEF BoundedFlows
  <2>3. ASSUME DOMAIN flows' \subseteq DOMAIN flows PROVE BoundedFlows'
    BY <2>2, <2>3 DEF BoundedFlows
  <2>4. ASSUME NEW c \in Calls, StoreFlow(c) PROVE BoundedFlows'
    <3> DEFINE F == Unexpired(call[c].time)
    <3>1. DOMAIN F \subseteq DOMAIN flows
      BY DEF Unexpired, Restrict
    <3> HIDE DEF F
    <3>2. CASE HasRoom(F)
      <4>1. DOMAIN flows' = DOMAIN F \cup {next}
        BY <2>4, <3>2 DEF StoreFlow, F
      <4>2. Cardinality(DOMAIN F) \in Nat /\ IsFiniteSet(DOMAIN F \cup {next})
        BY <2>2, <3>1, FS_AddElement
      <4>3. Cardinality(DOMAIN F \cup {next}) <= Cardinality(DOMAIN F) + 1
        BY <2>2, <3>1, <4>2, FS_AddElement
      <4>4. Cardinality(DOMAIN F \cup {next}) \in Nat
        BY <4>2, FS_CardinalityType
      <4>. QED
        BY <3>2, <4>1, <4>2, <4>3, <4>4, FlowAssumption DEF HasRoom, BoundedFlows
    <3>3. CASE ~HasRoom(F)
      BY <2>3, <2>4, <3>1, <3>3 DEF StoreFlow, F
    <3>. QED
      BY <3>2, <3>3
  <2>5. ASSUME NEW c \in Calls, ConsumeFlow(c) PROVE DOMAIN flows' \subseteq DOMAIN flows
    BY <2>5 DEF ConsumeFlow, Consumed, Restrict
  <2>6. CASE PurgeExpired
    BY <2>3, <2>6 DEF PurgeExpired, Unexpired, Restrict
  <2>7. ASSUME NEW c \in Calls,
               Arrive(c) \/ (Step(c) /\ ~StoreFlow(c) /\ ~ConsumeFlow(c)) \/ Fail(c)
        PROVE  UNCHANGED flows
    BY <2>7 DEF Arrive, ArriveLogin, ArriveCallback, ArriveRequest, Begin, Fail, Step,
         AnswerRequest, Logout, Receive, ExchangeCode, Discover, UpdateKeys, VerifyHash,
         RefuseForKeys, UserInfo, UpsertPrincipal, CreateSession, UnchangedTables
  <2>8. Tick \/ RotateKeys \/ UNCHANGED vars => UNCHANGED flows
    BY DEF Tick, RotateKeys, vars, UnchangedTables
  <2>. QED
    BY <2>3, <2>4, <2>5, <2>6, <2>7, <2>8 DEF Next
<1>. QED
  BY <1>1, <1>2, TypesHold, PTL DEF Spec

------------------------------------------------------------------------------
(* The keys of the provider                                                *)

(* The keys are enough as long as there was one rotation at most.          *)
LEMMA KeysStep == Types /\ Types' /\ KeysSuffice /\ [Next]_vars => KeysSuffice'
<1> SUFFICES ASSUME Types, Types', KeysSuffice, [Next]_vars, published' <= 1
             PROVE  KeysSuffice'
  BY DEF KeysSuffice
<1>1. published \in Nat /\ published <= 1 /\ cached \in Nat /\ cached <= published
  BY WorldGrows, BoundsAssumption DEF Types, WorldTypes, Generations
<1>2. \A c \in Calls :
        /\ call[c].meta \in Nat /\ call[c].meta <= published
        /\ call[c].key \in Nat /\ call[c].key <= published
  BY DEF Types, GoodCalls, GoodCall, CallRecords
<1>3. call = [c \in Calls |-> call[c]]
  BY DEF Types, GoodCalls
<1>4. \A c \in Calls : call[c] \in CallRecords
  BY DEF Types, GoodCalls, GoodCall
<1>5. ASSUME NEW c \in Calls, ConsumeFlow(c), ~Refuse(c)
       PROVE  /\ \A d \in Calls : d # c => call'[d] = call[d]
              /\ call'[c].pc = "exchange_code" /\ call'[c].meta = cached
  <2>1. call' = [call EXCEPT ![c] = [call[c] EXCEPT !.pc = "exchange_code", !.time = 0,
                                                      !.meta = cached]]
    BY <1>3, <1>5 DEF ConsumeFlow
  <2>. QED
    BY <1>3, <1>4, <2>1 DEF CallRecords
<1>. USE <1>1, <1>2, <1>3 DEF KeysSuffice, At
<1>6. CASE RotateKeys
  BY <1>6 DEF RotateKeys, UnchangedTables
<1>7. ASSUME NEW c \in Calls, Arrive(c) PROVE KeysSuffice'
  <2>1. UNCHANGED <<published, cached>>
    BY <1>7 DEF Arrive, ArriveLogin, ArriveCallback, ArriveRequest, Begin, UnchangedKeys
  <2>2. ASSUME NEW k, k.pc \in {"store_flow", "answered", "consume_flow", "request", "logout"},
               call' = [call EXCEPT ![c] = k]
        PROVE  KeysSuffice'
    BY <2>1, <2>2
  <2>3. ASSUME NEW b \in Browsers, ArriveLogin(c, b) PROVE KeysSuffice'
    <3> DEFINE k == [NoCall EXCEPT !.pc = "store_flow", !.browser = b, !.time = now]
    <3>1. k.pc = "store_flow" /\ call' = [call EXCEPT ![c] = k]
      BY <2>3 DEF ArriveLogin, Begin, NoCall
    <3> HIDE DEF k
    <3>. QED
      BY <2>2, <3>1
  <2>4. ASSUME NEW b \in Browsers, NEW f \in 0..(next - 1), NEW who, ArriveCallback(c, b, f, who)
        PROVE  KeysSuffice'
    <3> DEFINE k == [NoCall EXCEPT !.pc = "answered", !.browser = b,
                                   !.set = [NoCookies EXCEPT !.flow = None]]
               l == [NoCall EXCEPT !.pc = "consume_flow", !.browser = b, !.flow = f,
                                   !.who = who, !.time = now]
    <3>1. /\ k.pc = "answered" /\ l.pc = "consume_flow"
          /\ call' = [call EXCEPT ![c] = k] \/ call' = [call EXCEPT ![c] = l]
      BY <2>4 DEF ArriveCallback, Begin, NoCall
    <3> HIDE DEF k, l
    <3>. QED
      BY <2>2, <3>1
  <2>5. ASSUME NEW b \in Browsers, NEW pc \in {"request", "logout"}, ArriveRequest(c, b, pc)
        PROVE  KeysSuffice'
    <3> DEFINE k == [NoCall EXCEPT !.pc = pc, !.browser = b, !.session = jar[b].session]
    <3>1. k.pc = pc /\ call' = [call EXCEPT ![c] = k]
      BY <2>5 DEF ArriveRequest, Begin, NoCall
    <3> HIDE DEF k
    <3>. QED
      BY <2>2, <3>1
  <2>. QED
    BY <1>7, <2>3, <2>4, <2>5 DEF Arrive
<1>8. ASSUME NEW c \in Calls, NEW set, AnswerWith(c, set), UNCHANGED <<published, cached>>
      PROVE  KeysSuffice'
  BY <1>8 DEF AnswerWith, NoCall
<1>9. ASSUME NEW c \in Calls,
             AnswerRequest(c) \/ Logout(c) \/ StoreFlow(c) \/ RefuseForKeys(c) \/ CreateSession(c)
      PROVE  KeysSuffice'
  BY <1>8, <1>9 DEF AnswerRequest, Logout, StoreFlow, RefuseForKeys, CreateSession, Refuse,
       UnchangedWorld
<1>10. ASSUME NEW c \in Calls, Receive(c) \/ Fail(c) PROVE KeysSuffice'
  BY <1>10 DEF Receive, Fail, NoCall, UnchangedKeys
<1>11. ASSUME NEW c \in Calls, ConsumeFlow(c) PROVE KeysSuffice'
  <2>1. UNCHANGED <<published, cached>>
    BY <1>11 DEF ConsumeFlow, UnchangedWorld
  <2>2. CASE Refuse(c)
    BY <1>8, <2>1, <2>2 DEF Refuse
  <2>3. CASE ~Refuse(c)
    BY <1>11, <1>5, <2>1, <2>3
  <2>. QED
    BY <2>2, <2>3
<1>12. ASSUME NEW c \in Calls, ExchangeCode(c) PROVE KeysSuffice'
  BY <1>12 DEF ExchangeCode, WhenUnverified, Holds, UnchangedWorld
<1>13. ASSUME NEW c \in Calls, Discover(c) PROVE KeysSuffice'
  BY <1>13 DEF Discover, Holds, UnchangedWorld
<1>14. ASSUME NEW c \in Calls, UpdateKeys(c) PROVE KeysSuffice'
  BY <1>14 DEF UpdateKeys, Goto, UnchangedWorld
<1>15. ASSUME NEW c \in Calls, VerifyHash(c) PROVE KeysSuffice'
  BY <1>15 DEF VerifyHash, Holds, UnchangedWorld
<1>16. ASSUME NEW c \in Calls, UserInfo(c) \/ UpsertPrincipal(c) PROVE KeysSuffice'
  <2>1. UNCHANGED <<published, cached>>
    BY <1>16 DEF UserInfo, UpsertPrincipal, UnchangedWorld
  <2>2. CASE Refuse(c)
    BY <1>8, <2>1, <2>2 DEF Refuse
  <2>3. CASE ~Refuse(c)
    <3>1. /\ \A d \in Calls : d # c => call'[d] = call[d]
          /\ call'[c].pc \in {"upsert_principal", "create_session"}
      BY <1>4, <1>16, <2>3 DEF UserInfo, UpsertPrincipal, Goto, CallRecords
    <3>. QED
      BY <2>1, <3>1
  <2>. QED
    BY <2>2, <2>3
<1>17. CASE Tick \/ PurgeExpired \/ UNCHANGED vars
  BY <1>17 DEF Tick, PurgeExpired, vars, UnchangedKeys, UnchangedWorld
<1>. QED
  BY <1>6, <1>7, <1>9, <1>10, <1>11, <1>12, <1>13, <1>14, <1>15, <1>16, <1>17 DEF Next, Step

(* A provider that replaces its keys once costs nobody a login.            *)
THEOREM OneRotationCostsNoLogin == Spec => []OneRotationIsHarmless
<1>1. Init => KeysSuffice
  BY DEF Init, KeysSuffice, At, NoCall
<1>2. KeysSuffice => OneRotationIsHarmless
  BY DEF KeysSuffice, OneRotationIsHarmless
<1>. QED
  BY <1>1, <1>2, KeysStep, TypesHold, PTL DEF Spec

------------------------------------------------------------------------------
(* The cookies of the browsers                                             *)

(* What is a browser's own stays its own.                                  *)
LEMMA OwnStaysOwn ==
  ASSUME Types, [Next]_vars
  PROVE  /\ \A b, f : OwnFlow(b, f) => OwnFlow(b, f)'
         /\ \A b, t : OwnSession(b, t) => OwnSession(b, t)'
<1>1. next \in Nat /\ next' \in Nat /\ next <= next'
  BY WorldStep, WorldGrows DEF Types, WorldTypes
<1>2. /\ \A f \in 0..(next - 1) : origin'[f] = origin[f]
      /\ minted \subseteq minted'
  <2>1. ASSUME NEW c \in Calls, StoreFlow(c)
        PROVE  (\A f \in 0..(next - 1) : origin'[f] = origin[f]) /\ UNCHANGED minted
    BY <1>1, <2>1 DEF StoreFlow
  <2>2. ASSUME NEW c \in Calls, CreateSession(c)
        PROVE  UNCHANGED origin /\ minted \subseteq minted'
    BY <2>2 DEF CreateSession
  <2>3. ASSUME NEW c \in Calls,
               Arrive(c) \/ (Step(c) /\ ~StoreFlow(c) /\ ~CreateSession(c)) \/ Fail(c)
        PROVE  UNCHANGED <<origin, minted>>
    BY <2>3 DEF Arrive, ArriveLogin, ArriveCallback, ArriveRequest, Begin, Fail, Step,
         AnswerRequest, Logout, Receive, ConsumeFlow, ExchangeCode, Discover, UpdateKeys,
         VerifyHash, RefuseForKeys, UserInfo, UpsertPrincipal, UnchangedTables
  <2>4. Tick \/ RotateKeys \/ PurgeExpired \/ UNCHANGED vars => UNCHANGED <<origin, minted>>
    BY DEF Tick, RotateKeys, PurgeExpired, vars, UnchangedTables
  <2>. QED
    BY <2>1, <2>2, <2>3, <2>4 DEF Next
<1>3. ASSUME NEW b, NEW f, OwnFlow(b, f) PROVE OwnFlow(b, f)'
  <2>1. f \in 0..(next - 1) /\ origin[f] = b
    BY <1>3 DEF OwnFlow
  <2>2. f \in 0..(next' - 1)
    <3>1. \A m, n \in Nat : m <= n => 0..(m - 1) \subseteq 0..(n - 1)
      OBVIOUS
    <3>. QED
      BY <1>1, <2>1, <3>1
  <2>3. origin'[f] = b
    BY <1>2, <2>1
  <2>. QED
    BY <2>2, <2>3 DEF OwnFlow
<1>4. ASSUME NEW b, NEW t, OwnSession(b, t) PROVE OwnSession(b, t)'
  BY <1>2, <1>3, <1>4 DEF OwnSession
<1>. QED
  BY <1>3, <1>4

(* Every action keeps the cookies to their browsers.                       *)
LEMMA OwnStep == Types /\ Types' /\ OwnCookies /\ [Next]_vars => OwnCookies'
<1> SUFFICES ASSUME Types, Types', OwnCookies, [Next]_vars PROVE OwnCookies'
  OBVIOUS
<1>1. \A k : OwnCall(k) => OwnCall(k)'
  BY OwnStaysOwn DEF OwnCall
<1>2. \A b \in Browsers : UNCHANGED jar => OwnJar(b)'
  BY OwnStaysOwn DEF OwnJar, OwnCookies
<1>3. /\ \A c \in Calls : GoodCall(call[c]) /\ OwnCall(call[c])
      /\ call = [c \in Calls |-> call[c]]
  BY DEF Types, GoodCalls, OwnCookies
<1>4. ASSUME NEW c \in Calls, NEW k, OwnCall(k) \/ OwnCall(k)', call' = [call EXCEPT ![c] = k],
             UNCHANGED jar
      PROVE  OwnCookies'
  BY <1>1, <1>2, <1>3, <1>4 DEF OwnCookies
<1>5. CASE UNCHANGED <<call, jar>>
  BY <1>1, <1>2, <1>3, <1>5 DEF OwnCookies
<1>6. OwnCall(NoCall)
  BY DEF OwnCall, NoCall, NoCookies, FlowLocations
<1>7. ASSUME NEW c \in Calls, NEW set, AnswerWith(c, set), UNCHANGED jar,
             NEW b, b = call[c].browser,
             set.flow \notin {None, NoChange} => OwnFlow(b, set.flow)',
             set.session \notin {None, NoChange} => OwnSession(b, set.session)'
      PROVE  OwnCookies'
  <2> DEFINE k == [NoCall EXCEPT !.pc = "answered", !.browser = b, !.set = set]
  <2>1. OwnCall(k)'
    BY <1>7 DEF OwnCall, NoCall, FlowLocations
  <2>2. call' = [call EXCEPT ![c] = NoCall] \/ call' = [call EXCEPT ![c] = k]
    BY <1>7 DEF AnswerWith
  <2> HIDE DEF k
  <2>. QED
    BY <1>4, <1>6, <1>7, <2>1, <2>2
<1>8. ASSUME NEW c \in Calls, Refuse(c), UNCHANGED jar PROVE OwnCookies'
  BY <1>7, <1>8 DEF Refuse, NoCookies
<1>9. ASSUME NEW c \in Calls, NEW b \in Browsers, ArriveLogin(c, b) PROVE OwnCookies'
  <2> DEFINE k == [NoCall EXCEPT !.pc = "store_flow", !.browser = b, !.time = now]
  <2>1. OwnCall(k)
    BY DEF OwnCall, NoCall, NoCookies, FlowLocations
  <2>2. call' = [call EXCEPT ![c] = k] /\ UNCHANGED jar
    BY <1>9 DEF ArriveLogin, Begin
  <2> HIDE DEF k
  <2>. QED
    BY <1>4, <2>1, <2>2
<1>10. ASSUME NEW c \in Calls, NEW b \in Browsers, NEW f \in 0..(next - 1),
              NEW who \in Principals \cup {None}, ArriveCallback(c, b, f, who)
       PROVE  OwnCookies'
  <2> DEFINE back == [NoCall EXCEPT !.pc = "answered", !.browser = b,
                                    !.set = [NoCookies EXCEPT !.flow = None]]
             k == [NoCall EXCEPT !.pc = "consume_flow", !.browser = b, !.flow = f,
                                 !.who = who, !.time = now]
  <2>1. OwnCall(back)
    BY DEF OwnCall, NoCall, NoCookies, FlowLocations
  <2>2. OwnFlow(b, f)
    <3>1. jar[b].flow = f /\ f # None
      BY <1>10, NoneAssumption DEF ArriveCallback, MatchesCookie, Types, WorldTypes
    <3>. QED
      BY <3>1 DEF OwnCookies, OwnJar
  <2>3. OwnCall(k)
    BY <2>2 DEF OwnCall, NoCall, NoCookies
  <2>4. UNCHANGED jar /\ \/ call' = [call EXCEPT ![c] = back]
                         \/ call' = [call EXCEPT ![c] = k]
    BY <1>10 DEF ArriveCallback, Begin
  <2> HIDE DEF back, k
  <2>. QED
    BY <1>4, <2>1, <2>3, <2>4
<1>11. ASSUME NEW c \in Calls, NEW b \in Browsers, NEW pc \in {"request", "logout"},
              ArriveRequest(c, b, pc)
       PROVE  OwnCookies'
  <2> DEFINE k == [NoCall EXCEPT !.pc = pc, !.browser = b, !.session = jar[b].session]
  <2>1. OwnCall(k)
    BY DEF OwnCall, NoCall, NoCookies, FlowLocations, OwnCookies, OwnJar
  <2>2. call' = [call EXCEPT ![c] = k] /\ UNCHANGED jar
    BY <1>11 DEF ArriveRequest, Begin
  <2> HIDE DEF k
  <2>. QED
    BY <1>4, <2>1, <2>2
<1>12. ASSUME NEW c \in Calls, AnswerRequest(c) PROVE OwnCookies'
  <2> DEFINE set == [NoCookies EXCEPT !.session = call[c].session]
  <2>1. set.flow = NoChange /\ set.session = call[c].session
    BY DEF NoCookies
  <2>2. PICK b, t : /\ b = call[c].browser /\ t = call[c].session
                    /\ t # None => OwnSession(b, t)'
    BY <1>3, OwnStaysOwn DEF OwnCall
  <2>3. AnswerWith(c, set) /\ UNCHANGED jar
    BY <1>12 DEF AnswerRequest, UnchangedWorld
  <2> HIDE DEF set
  <2>. QED
    BY <1>7, <2>1, <2>2, <2>3
<1>13. ASSUME NEW c \in Calls, Logout(c) PROVE OwnCookies'
  BY <1>7, <1>13 DEF Logout, UnchangedWorld, NoCookies
<1>14. ASSUME NEW c \in Calls, Receive(c) PROVE OwnCookies'
  <2>1. call' = [call EXCEPT ![c] = NoCall]
    BY <1>14 DEF Receive
  <2>2. ASSUME NEW b \in Browsers PROVE OwnJar(b)'
    <3>1. CASE b = call[c].browser
      <4>1. /\ jar'[b].flow = SetCookie(jar[b].flow, call[c].set.flow)
            /\ jar'[b].session = SetCookie(jar[b].session, call[c].set.session)
        BY <1>14, <3>1 DEF Receive, Types, WorldTypes
      <4>2. OwnJar(b) /\ OwnCall(call[c])
        BY <1>3 DEF OwnCookies
      <4>3. /\ jar'[b].flow # None => OwnFlow(b, jar'[b].flow)
            /\ jar'[b].session # None => OwnSession(b, jar'[b].session)
        BY <3>1, <4>1, <4>2 DEF OwnJar, OwnCall, SetCookie
      <4>. QED
        BY <4>3, OwnStaysOwn DEF OwnJar
    <3>2. CASE b # call[c].browser
      <4>1. jar'[b] = jar[b] /\ OwnJar(b)
        BY <1>14, <3>2 DEF Receive, Types, WorldTypes, OwnCookies
      <4>. QED
        BY <4>1, OwnStaysOwn DEF OwnJar
    <3>. QED
      BY <3>1, <3>2
  <2>. QED
    BY <1>1, <1>3, <1>6, <2>1, <2>2 DEF OwnCookies
<1>15. ASSUME NEW c \in Calls, StoreFlow(c) PROVE OwnCookies'
  <2> DEFINE set == [NoCookies EXCEPT !.flow = next]
  <2>1. set.flow = next /\ set.session = NoChange
    BY DEF NoCookies
  <2>2. next \in Nat /\ UNCHANGED jar /\ call[c].pc # "idle"
    BY <1>15 DEF StoreFlow, UnchangedWorld, At, Types, WorldTypes
  <2>3. PICK b, f : b = call[c].browser /\ f = next
    OBVIOUS
  <2>4. Refuse(c) \/ (AnswerWith(c, set) /\ OwnFlow(b, f)')
    BY <1>15, <2>2, <2>3 DEF StoreFlow, OwnFlow
  <2> HIDE DEF set
  <2>. QED
    BY <1>7, <1>8, <2>1, <2>2, <2>3, <2>4
<1>16. ASSUME NEW c \in Calls, call[c].pc \in FlowLocations, NEW k,
              call' = [call EXCEPT ![c] = k], UNCHANGED jar,
              /\ k.browser = call[c].browser /\ k.flow = call[c].flow
              /\ k.session = call[c].session /\ k.set = call[c].set
       PROVE  OwnCookies'
  <2>1. OwnCall(k)
    BY <1>3, <1>16 DEF OwnCall
  <2>. QED
    BY <1>4, <1>16, <2>1
<1>17. ASSUME NEW c \in Calls, NEW pc, Goto(c, pc), call[c].pc \in FlowLocations, UNCHANGED jar
       PROVE  OwnCookies'
  <2> DEFINE k == [call[c] EXCEPT !.pc = pc]
  <2>1. call[c] \in CallRecords
    BY <1>3 DEF GoodCall
  <2>2. /\ k.browser = call[c].browser /\ k.flow = call[c].flow
        /\ k.session = call[c].session /\ k.set = call[c].set
    BY <2>1 DEF CallRecords
  <2>3. call' = [call EXCEPT ![c] = k]
    BY <1>17 DEF Goto
  <2> HIDE DEF k
  <2>. QED
    BY <1>16, <1>17, <2>2, <2>3
<1>18. ASSUME NEW c \in Calls, ConsumeFlow(c) PROVE OwnCookies'
  <2> DEFINE k == [call[c] EXCEPT !.pc = "exchange_code", !.time = 0, !.meta = cached]
  <2>1. call[c] \in CallRecords /\ call[c].pc \in FlowLocations /\ UNCHANGED jar
    BY <1>3, <1>18 DEF GoodCall, ConsumeFlow, UnchangedWorld, At, FlowLocations
  <2>2. /\ k.browser = call[c].browser /\ k.flow = call[c].flow
        /\ k.session = call[c].session /\ k.set = call[c].set
    BY <2>1 DEF CallRecords
  <2>3. Refuse(c) \/ call' = [call EXCEPT ![c] = k]
    BY <1>18 DEF ConsumeFlow
  <2> HIDE DEF k
  <2>. QED
    BY <1>8, <1>16, <2>1, <2>2, <2>3
<1>19. ASSUME NEW c \in Calls, ExchangeCode(c) \/ Discover(c) \/ VerifyHash(c) PROVE OwnCookies'
  <2>1. call[c] \in CallRecords /\ call[c].pc \in FlowLocations /\ UNCHANGED jar
    BY <1>3, <1>19 DEF GoodCall, ExchangeCode, Discover, VerifyHash, UnchangedWorld, At,
         FlowLocations
  <2>2. /\ call' = [call EXCEPT ![c] = call'[c]]
        /\ call'[c].browser = call[c].browser /\ call'[c].flow = call[c].flow
        /\ call'[c].session = call[c].session /\ call'[c].set = call[c].set
    BY <1>3, <1>19, <2>1 DEF ExchangeCode, Discover, VerifyHash, CallRecords
  <2>. QED
    BY <1>16, <2>1, <2>2
<1>20. ASSUME NEW c \in Calls, UpdateKeys(c) \/ UpsertPrincipal(c) PROVE OwnCookies'
  <2>1. \E pc : Goto(c, pc)
    BY <1>20 DEF UpdateKeys, UpsertPrincipal
  <2>2. call[c].pc \in FlowLocations /\ UNCHANGED jar
    BY <1>20 DEF UpdateKeys, UpsertPrincipal, At, FlowLocations, UnchangedWorld
  <2>. QED
    BY <1>17, <2>1, <2>2
<1>21. ASSUME NEW c \in Calls, UserInfo(c) \/ RefuseForKeys(c) PROVE OwnCookies'
  <2>1. Refuse(c) \/ Goto(c, "upsert_principal")
    BY <1>21 DEF UserInfo, RefuseForKeys
  <2>2. call[c].pc \in FlowLocations /\ UNCHANGED jar
    BY <1>21 DEF UserInfo, RefuseForKeys, At, FlowLocations, UnchangedWorld
  <2>. QED
    BY <1>8, <1>17, <2>1, <2>2
<1>22. ASSUME NEW c \in Calls, CreateSession(c) PROVE OwnCookies'
  <2> DEFINE s == Cardinality(minted)
             set == [flow |-> None, session |-> s]
             m == [flow |-> call[c].flow, to |-> call[c].who, token |-> s]
  <2>1. call[c].pc \in FlowLocations /\ UNCHANGED <<jar, origin, next>>
    BY <1>22 DEF CreateSession, At, FlowLocations, UnchangedWorld
  <2>2. m \in minted' /\ m.token = s /\ m.flow = call[c].flow
    BY <1>22 DEF CreateSession
  <2>3. OwnFlow(call[c].browser, call[c].flow)
    BY <1>3, <2>1 DEF OwnCall
  <2>4. PICK b, t : b = call[c].browser /\ t = s /\ OwnSession(b, t)'
    BY <2>1, <2>2, <2>3 DEF OwnSession, OwnFlow
  <2>5. AnswerWith(c, set) /\ set.flow = None /\ set.session = s
    BY <1>22 DEF CreateSession
  <2> HIDE DEF s, set
  <2>. QED
    BY <1>7, <2>1, <2>4, <2>5
<1>23. ASSUME NEW c \in Calls, Fail(c) PROVE OwnCookies'
  BY <1>4, <1>6, <1>23 DEF Fail
<1>24. Tick \/ RotateKeys \/ PurgeExpired \/ UNCHANGED vars => UNCHANGED <<call, jar>>
  BY DEF Tick, RotateKeys, PurgeExpired, vars, UnchangedWorld
<1>. QED
  BY <1>5, <1>9, <1>10, <1>11, <1>12, <1>13, <1>14, <1>15, <1>18, <1>19, <1>20, <1>21, <1>22,
     <1>23, <1>24 DEF Next, Arrive, Step

(* Whatever links are opened where, a browser only ever holds sessions of  *)
(* flows that were started in it.                                          *)
THEOREM SessionsStay == Spec => []SessionsStayInTheirBrowser
<1>1. Init => OwnCookies
  BY NoneAssumption, NoChangeAssumption
     DEF Init, OwnCookies, OwnJar, OwnCall, NoCall, NoCookies, FlowLocations
<1>2. OwnCookies => SessionsStayInTheirBrowser
  BY DEF OwnCookies, OwnJar, OwnSession, OwnFlow, SessionsStayInTheirBrowser
<1>. QED
  BY <1>1, <1>2, OwnStep, TypesHold, PTL DEF Spec

------------------------------------------------------------------------------
(* The one-time grant                                                      *)

(* The approval that a call has in hand once it has consumed its flow.     *)
Completes(c) == call[c].pc \in FlowLocations /\ call[c].pc # "consume_flow"

Approval(c) ==
  IF Completes(c) THEN {[flow |-> call[c].flow, to |-> call[c].who]} ELSE {}

(* A flow is in the table, or in the hands of one call, or in one session. *)
OneGrantEach ==
  /\ next <= MaxStarted
  /\ \A c, d \in Calls : \A a \in Approval(c), b \in Approval(d) : a.flow = b.flow => c = d
  /\ \A c \in Calls : \A a \in Approval(c) :
       a.flow \notin DOMAIN flows /\ \A m \in minted : m.flow # a.flow
  /\ \A m \in minted : m.flow \notin DOMAIN flows /\ m.token < MaxStarted
  /\ \A m, n \in minted : m.flow = n.flow => m = n

(* What a step may do to flows, approvals and sessions: ...                *)
SameApprovals(C) == \A d \in Calls \ C : Approval(d)' = Approval(d)

(* ... flows lapse; ...                                                    *)
FlowsLapse ==
  /\ DOMAIN flows' \subseteq DOMAIN flows
  /\ UNCHANGED <<next, minted>> /\ SameApprovals({})

(* ... one starts, and others lapse; ...                                   *)
FlowStarts ==
  /\ next < MaxStarted /\ next' = next + 1
  /\ DOMAIN flows' \subseteq DOMAIN flows \cup {next} /\ next \in DOMAIN flows'
  /\ UNCHANGED minted /\ SameApprovals({})

(* ... a call consumes one; ...                                            *)
FlowConsumed(c) ==
  /\ call[c].flow \in DOMAIN flows /\ DOMAIN flows' = DOMAIN flows \ {call[c].flow}
  /\ Approval(c) = {} /\ Approval(c)' = {[flow |-> call[c].flow, to |-> call[c].who]}
  /\ call[c].who \in Principals
  /\ UNCHANGED <<next, minted>> /\ SameApprovals({c})

(* ... a call gives up what it has, if anything; ...                       *)
ApprovalLapses(c) ==
  /\ Approval(c)' = {}
  /\ UNCHANGED <<flows, next, minted>> /\ SameApprovals({c})

(* ... or makes a session of it.                                           *)
SessionMinted(c) ==
  /\ Completes(c) /\ Approval(c)' = {}
  /\ minted' = minted \cup {[flow |-> call[c].flow, to |-> call[c].who,
                             token |-> Cardinality(minted)]}
  /\ UNCHANGED <<flows, next>> /\ SameApprovals({c})

(* Every step does one of these.                                           *)
LEMMA StepsMoveGrants ==
  ASSUME Types, Types', [Next]_vars
  PROVE  \/ FlowsLapse \/ FlowStarts
         \/ \E c \in Calls : FlowConsumed(c) \/ ApprovalLapses(c) \/ SessionMinted(c)
<1>1. /\ \A c \in Calls : GoodCall(call[c]) /\ call[c] \in CallRecords
      /\ call = [c \in Calls |-> call[c]]
  BY DEF Types, GoodCalls, GoodCall
<1>2. ASSUME NEW c \in Calls, NEW k, call' = [call EXCEPT ![c] = k] PROVE SameApprovals({c})
  BY <1>1, <1>2 DEF SameApprovals, Approval, Completes
<1>3. ASSUME NEW c \in Calls, NEW k, call' = [call EXCEPT ![c] = k], Completes(c),
             k.pc \in FlowLocations \ {"consume_flow"}, k.flow = call[c].flow, k.who = call[c].who
      PROVE  SameApprovals({})
  BY <1>1, <1>2, <1>3 DEF SameApprovals, Approval, Completes
<1>4. ASSUME NEW c \in Calls, NEW k, call' = [call EXCEPT ![c] = k],
             k.pc \notin FlowLocations \ {"consume_flow"}
      PROVE  Approval(c)' = {}
  BY <1>1, <1>4 DEF Approval, Completes
<1>5. ASSUME NEW c \in Calls, NEW k, call' = [call EXCEPT ![c] = k], ~Completes(c),
             k.pc \notin FlowLocations \ {"consume_flow"}
      PROVE  SameApprovals({})
  BY <1>2, <1>4, <1>5 DEF SameApprovals, Approval
<1>6. ASSUME NEW c \in Calls, NEW set, AnswerWith(c, set)
      PROVE  \E k : call' = [call EXCEPT ![c] = k] /\ k.pc \notin FlowLocations \ {"consume_flow"}
  <2> DEFINE k == [NoCall EXCEPT !.pc = "answered", !.browser = call[c].browser, !.set = set]
  <2>1. /\ k.pc \notin FlowLocations \ {"consume_flow"}
        /\ NoCall.pc \notin FlowLocations \ {"consume_flow"}
    BY DEF NoCall, FlowLocations
  <2>2. call' = [call EXCEPT ![c] = NoCall] \/ call' = [call EXCEPT ![c] = k]
    BY <1>6 DEF AnswerWith
  <2> HIDE DEF k
  <2>. QED
    BY <2>1, <2>2
<1>7. CASE Tick \/ RotateKeys \/ PurgeExpired \/ UNCHANGED vars
  <2>1. UNCHANGED <<call, next, minted>> /\ DOMAIN flows' \subseteq DOMAIN flows
    BY <1>7 DEF Tick, RotateKeys, PurgeExpired, vars, UnchangedTables, UnchangedWorld,
         Unexpired, Restrict
  <2>. QED
    BY <2>1 DEF FlowsLapse, SameApprovals, Approval, Completes
<1>8. ASSUME NEW c \in Calls, Arrive(c) PROVE FlowsLapse
  <2>1. UNCHANGED <<flows, next, minted>> /\ ~Completes(c)
    BY <1>8 DEF Arrive, ArriveLogin, ArriveCallback, ArriveRequest, Begin, At, UnchangedTables,
         Completes, FlowLocations
  <2>2. PICK k : /\ call' = [call EXCEPT ![c] = k]
                 /\ k.pc \in {"store_flow", "answered", "consume_flow", "request", "logout"}
    <3> DEFINE Entries == {"store_flow", "answered", "consume_flow", "request", "logout"}
    <3>1. ASSUME NEW k, k.pc \in Entries, Begin(c, k)
          PROVE  \E l : call' = [call EXCEPT ![c] = l] /\ l.pc \in Entries
      BY <3>1 DEF Begin
    <3>2. ASSUME NEW b, ArriveLogin(c, b) PROVE \E k : k.pc \in Entries /\ Begin(c, k)
      <4> DEFINE k == [NoCall EXCEPT !.pc = "store_flow", !.browser = b, !.time = now]
      <4>1. k.pc \in Entries /\ Begin(c, k)
        BY <3>2 DEF ArriveLogin, NoCall
      <4> HIDE DEF k
      <4>. QED
        BY <4>1
    <3>3. ASSUME NEW b, NEW f, NEW who, ArriveCallback(c, b, f, who)
          PROVE  \E k : k.pc \in Entries /\ Begin(c, k)
      <4> DEFINE k == IF who = None
                      THEN [NoCall EXCEPT !.pc = "answered", !.browser = b,
                                          !.set = [NoCookies EXCEPT !.flow = None]]
                      ELSE [NoCall EXCEPT !.pc = "consume_flow", !.browser = b, !.flow = f,
                                          !.who = who, !.time = now]
      <4>1. k.pc \in Entries /\ Begin(c, k)
        BY <3>3 DEF ArriveCallback, NoCall
      <4> HIDE DEF k
      <4>. QED
        BY <4>1
    <3>4. ASSUME NEW b, NEW pc \in {"request", "logout"}, ArriveRequest(c, b, pc)
          PROVE  \E k : k.pc \in Entries /\ Begin(c, k)
      <4> DEFINE k == [NoCall EXCEPT !.pc = pc, !.browser = b, !.session = jar[b].session]
      <4>1. k.pc \in Entries /\ Begin(c, k)
        BY <3>4 DEF ArriveRequest, NoCall
      <4> HIDE DEF k
      <4>. QED
        BY <4>1
    <3> HIDE DEF Entries
    <3>. QED
      BY <1>8, <3>1, <3>2, <3>3, <3>4 DEF Arrive, Entries
  <2>3. SameApprovals({})
    BY <1>5, <2>1, <2>2 DEF FlowLocations
  <2>. QED
    BY <2>1, <2>3 DEF FlowsLapse
<1>9. ASSUME NEW c \in Calls, AnswerRequest(c) \/ Logout(c) PROVE FlowsLapse
  <2>1. UNCHANGED <<flows, next, minted>> /\ ~Completes(c) /\ \E set : AnswerWith(c, set)
    BY <1>9 DEF AnswerRequest, Logout, At, UnchangedTables, Completes, FlowLocations
  <2>. QED
    BY <1>5, <1>6, <2>1 DEF FlowsLapse
<1>10. ASSUME NEW c \in Calls, Receive(c) PROVE FlowsLapse
  <2>1. /\ UNCHANGED <<flows, next, minted>> /\ ~Completes(c)
        /\ call' = [call EXCEPT ![c] = NoCall] /\ NoCall.pc \notin FlowLocations
    BY <1>10 DEF Receive, At, UnchangedTables, Completes, FlowLocations, NoCall
  <2>. QED
    BY <1>5, <2>1 DEF FlowsLapse
<1>11. ASSUME NEW c \in Calls, StoreFlow(c) PROVE FlowsLapse \/ FlowStarts
  <2> DEFINE F == Unexpired(call[c].time)
  <2>1. DOMAIN F \subseteq DOMAIN flows
    BY DEF Unexpired, Restrict
  <2> HIDE DEF F
  <2>2. ~Completes(c) /\ UNCHANGED minted /\ next < MaxStarted /\ \E set : AnswerWith(c, set)
    BY <1>11 DEF StoreFlow, Refuse, At, Completes, FlowLocations
  <2>3. SameApprovals({})
    BY <1>5, <1>6, <2>2
  <2>4. \/ DOMAIN flows' = DOMAIN F /\ UNCHANGED next
        \/ DOMAIN flows' = DOMAIN F \cup {next} /\ next' = next + 1
    BY <1>11 DEF StoreFlow, F
  <2>. QED
    BY <2>1, <2>2, <2>3, <2>4 DEF FlowsLapse, FlowStarts
<1>12. ASSUME NEW c \in Calls, ConsumeFlow(c), Refuse(c) PROVE ApprovalLapses(c)
  <2>1. PICK k : call' = [call EXCEPT ![c] = k] /\ k.pc \notin FlowLocations \ {"consume_flow"}
    BY <1>6, <1>12 DEF Refuse
  <2>2. call'[c].pc # "exchange_code"
    BY <1>1, <2>1 DEF FlowLocations
  <2>3. UNCHANGED <<flows, next, minted>>
    BY <1>1, <1>12, <2>2 DEF ConsumeFlow, CallRecords
  <2>. QED
    BY <1>2, <1>4, <2>1, <2>3 DEF ApprovalLapses
<1>13. ASSUME NEW c \in Calls, ConsumeFlow(c), ~Refuse(c) PROVE FlowConsumed(c)
  <2> DEFINE k == [call[c] EXCEPT !.pc = "exchange_code", !.time = 0, !.meta = cached]
  <2>1. /\ call[c].flow \in DOMAIN flows /\ flows' = Consumed(call[c].flow)
        /\ call' = [call EXCEPT ![c] = k] /\ UNCHANGED <<next, minted>>
    BY <1>13 DEF ConsumeFlow
  <2>2. call[c].pc = "consume_flow" /\ call[c].who \in Principals
    BY <1>1, <1>13 DEF ConsumeFlow, At, GoodCall, FlowLocations
  <2>3. DOMAIN flows' = DOMAIN flows \ {call[c].flow}
    BY <2>1 DEF Consumed, Restrict
  <2>4. call'[c] = k /\ k.pc = "exchange_code" /\ k.flow = call[c].flow /\ k.who = call[c].who
    BY <1>1, <2>1 DEF CallRecords
  <2>5. Approval(c) = {} /\ Approval(c)' = {[flow |-> call[c].flow, to |-> call[c].who]}
    BY <2>2, <2>4 DEF Approval, Completes, FlowLocations
  <2> HIDE DEF k
  <2>. QED
    BY <1>2, <2>1, <2>2, <2>3, <2>5 DEF FlowConsumed
<1>14. ASSUME NEW c \in Calls,
              ExchangeCode(c) \/ Discover(c) \/ VerifyHash(c) \/ UpdateKeys(c) \/ UpsertPrincipal(c)
       PROVE  FlowsLapse
  <2>1. UNCHANGED <<flows, next, minted>> /\ Completes(c)
    BY <1>14 DEF ExchangeCode, Discover, VerifyHash, UpdateKeys, UpsertPrincipal, At,
         UnchangedTables, Completes, FlowLocations
  <2>2. call' = [call EXCEPT ![c] = call'[c]]
    BY <1>1, <1>14 DEF ExchangeCode, Discover, VerifyHash, UpdateKeys, UpsertPrincipal, Goto
  <2>3. call'[c].flow = call[c].flow /\ call'[c].who = call[c].who
    BY <1>1, <1>14 DEF ExchangeCode, Discover, VerifyHash, UpdateKeys, UpsertPrincipal, Goto,
         CallRecords
  <2>4. call'[c].pc \in FlowLocations \ {"consume_flow"}
    <3>1. call[c] \in CallRecords /\ c \in DOMAIN call
      BY <1>1
    <3>2. CASE ExchangeCode(c)
      BY <3>1, <3>2 DEF ExchangeCode, WhenUnverified, CallRecords, FlowLocations
    <3>3. CASE Discover(c)
      BY <3>1, <3>3 DEF Discover, CallRecords, FlowLocations
    <3>4. CASE VerifyHash(c)
      BY <3>1, <3>4 DEF VerifyHash, CallRecords, FlowLocations
    <3>5. CASE UpdateKeys(c) \/ UpsertPrincipal(c)
      BY <3>1, <3>5 DEF UpdateKeys, UpsertPrincipal, Goto, CallRecords, FlowLocations
    <3>. QED
      BY <1>14, <3>2, <3>3, <3>4, <3>5
  <2>. QED
    BY <1>3, <2>1, <2>2, <2>3, <2>4 DEF FlowsLapse
<1>15. ASSUME NEW c \in Calls, UserInfo(c) \/ RefuseForKeys(c), Refuse(c) PROVE ApprovalLapses(c)
  <2>1. UNCHANGED <<flows, next, minted>>
    BY <1>15 DEF UserInfo, RefuseForKeys, UnchangedTables
  <2>. QED
    BY <1>2, <1>4, <1>6, <1>15, <2>1 DEF Refuse, ApprovalLapses
<1>16. ASSUME NEW c \in Calls, UserInfo(c), Goto(c, "upsert_principal") PROVE FlowsLapse
  <2> DEFINE k == [call[c] EXCEPT !.pc = "upsert_principal"]
  <2>1. UNCHANGED <<flows, next, minted>> /\ Completes(c) /\ call' = [call EXCEPT ![c] = k]
    BY <1>16 DEF UserInfo, Goto, At, UnchangedTables, Completes, FlowLocations
  <2>2. /\ k.pc \in FlowLocations \ {"consume_flow"}
        /\ k.flow = call[c].flow /\ k.who = call[c].who
    BY <1>1 DEF CallRecords, FlowLocations
  <2> HIDE DEF k
  <2>. QED
    BY <1>3, <2>1, <2>2 DEF FlowsLapse
<1>17. ASSUME NEW c \in Calls, Fail(c) PROVE ApprovalLapses(c)
  <2>1. /\ UNCHANGED <<flows, next, minted>>
        /\ call' = [call EXCEPT ![c] = NoCall] /\ NoCall.pc \notin FlowLocations
    BY <1>17 DEF Fail, UnchangedTables, NoCall, FlowLocations
  <2>. QED
    BY <1>2, <1>4, <2>1 DEF ApprovalLapses
<1>18. ASSUME NEW c \in Calls, CreateSession(c) PROVE SessionMinted(c)
  <2>1. /\ UNCHANGED <<flows, next>> /\ Completes(c) /\ \E set : AnswerWith(c, set)
        /\ minted' = minted \cup {[flow |-> call[c].flow, to |-> call[c].who,
                                   token |-> Cardinality(minted)]}
    BY <1>18 DEF CreateSession, At, Completes, FlowLocations
  <2>. QED
    BY <1>2, <1>4, <1>6, <2>1 DEF SessionMinted
<1>. QED
  BY <1>7, <1>8, <1>9, <1>10, <1>11, <1>12, <1>13, <1>14, <1>15, <1>16, <1>17, <1>18
     DEF Next, Step, UserInfo, RefuseForKeys

(* While a login completes, its own flow has no token, so that the tokens  *)
(* minted for the other flows are fewer than the flows.                    *)
LEMMA TokensAreFew ==
  ASSUME Types, OneGrantEach, NEW c \in Calls, Completes(c)
  PROVE  Cardinality(minted) \in Nat /\ Cardinality(minted) < MaxStarted
<1> DEFINE others == 0..(next - 1) \ {call[c].flow}
           f == [m \in minted |-> m.flow]
<1>1. IsFiniteSet(minted) /\ next \in Nat /\ call[c].flow \in 0..(next - 1)
  BY DEF Types, WorldTypes, GoodCalls, GoodCall, Completes
<1>2. IsFiniteSet(others) /\ Cardinality(others) = next - 1
  <2>1. IsFiniteSet(0..(next - 1)) /\ Cardinality(0..(next - 1)) = next
    BY <1>1, FS_Interval
  <2>. QED
    BY <1>1, <2>1, FS_RemoveElement
<1>3. f \in Injection(minted, others)
  <2>1. \A m \in minted : m.flow \in others
    BY DEF Types, WorldTypes, OneGrantEach, Approval
  <2>2. \A m, n \in minted : m.flow = n.flow => m = n
    BY DEF OneGrantEach
  <2>. QED
    BY <2>1, <2>2 DEF Injection, IsInjective
<1> HIDE DEF others, f
<1>4. Cardinality(minted) <= Cardinality(others) /\ Cardinality(minted) \in Nat
  BY <1>1, <1>2, <1>3, FS_Injection, FS_CardinalityType
<1>. QED
  BY <1>1, <1>2, <1>4, BoundsAssumption DEF OneGrantEach

(* Every step leaves each flow in one place.                               *)
LEMMA OneGrantStep == Types /\ Types' /\ OneGrantEach /\ [Next]_vars => OneGrantEach'
<1> SUFFICES ASSUME Types, Types', OneGrantEach, [Next]_vars PROVE OneGrantEach'
  OBVIOUS
<1>1. next \in Nat /\ MaxStarted \in Nat /\ \A f \in DOMAIN flows : f < next
  BY BoundsAssumption DEF Types, WorldTypes
<1>2. /\ \A c \in Calls : \A a \in Approval(c) : a.flow < next /\ a.flow # next
      /\ \A m \in minted : m.flow < next /\ m.flow # next
  BY <1>1 DEF Types, WorldTypes, GoodCalls, GoodCall, Approval, Completes
<1>3. CASE FlowsLapse \/ FlowStarts
  <2>1. /\ \A c \in Calls : Approval(c)' = Approval(c)
        /\ UNCHANGED minted /\ DOMAIN flows' \subseteq DOMAIN flows \cup {next}
        /\ next' <= MaxStarted
    BY <1>1, <1>3 DEF FlowsLapse, FlowStarts, SameApprovals, OneGrantEach
  <2>. QED
    BY <1>2, <2>1 DEF OneGrantEach
<1>4. ASSUME NEW c \in Calls, FlowConsumed(c) PROVE OneGrantEach'
  BY <1>4 DEF OneGrantEach, FlowConsumed, SameApprovals
<1>5. ASSUME NEW c \in Calls, ApprovalLapses(c) PROVE OneGrantEach'
  BY <1>5 DEF OneGrantEach, ApprovalLapses, SameApprovals
<1>6. ASSUME NEW c \in Calls, SessionMinted(c) PROVE OneGrantEach'
  <2>1. Cardinality(minted) < MaxStarted
    BY <1>6, TokensAreFew DEF SessionMinted
  <2>2. Approval(c) = {[flow |-> call[c].flow, to |-> call[c].who]}
    BY <1>6 DEF SessionMinted, Approval
  <2> DEFINE a == [flow |-> call[c].flow, to |-> call[c].who]
             n == [flow |-> call[c].flow, to |-> call[c].who, token |-> Cardinality(minted)]
  <2>3. minted' = minted \cup {n} /\ n.flow = a.flow /\ n.token < MaxStarted
    BY <1>6, <2>1 DEF SessionMinted
  <2> HIDE DEF a, n
  <2>4. a \in Approval(c)
    BY <2>2 DEF a
  <2>5. /\ UNCHANGED <<flows, next>> /\ Approval(c)' = {}
        /\ \A d \in Calls : d # c => Approval(d)' = Approval(d)
    BY <1>6 DEF SessionMinted, SameApprovals
  <2>6. /\ a.flow \notin DOMAIN flows /\ \A m \in minted : m.flow # a.flow
        /\ \A d \in Calls : d # c => \A b \in Approval(d) : b.flow # a.flow
    BY <2>4 DEF OneGrantEach
  <2>. QED
    BY <2>3, <2>5, <2>6 DEF OneGrantEach
<1>. QED
  BY <1>3, <1>4, <1>5, <1>6, StepsMoveGrants

(* What the grant of a flow is, by the place the flow is in.               *)
PlaceOf(f, g) ==
  \/ \E m \in minted : m.flow = f /\ g = Grant!Delivered(m.to, m.token)
  \/ \E c \in Calls : \E a \in Approval(c) : a.flow = f /\ g = Grant!Approved(a.to)
  \/ f \in DOMAIN flows /\ g = Grant!Untouched("pending")
  \/ /\ f \notin DOMAIN flows /\ g = Grant!Untouched(IF f < next THEN "lapsed" ELSE "none")
     /\ \A m \in minted : m.flow # f
     /\ \A c \in Calls : \A a \in Approval(c) : a.flow # f

(* The place of every flow gives the grant that GrantOf reads off the state. *)
PlacesAreGrants == \A f \in 0..(MaxStarted - 1) : \A g : PlaceOf(f, g) <=> g = GrantOf(f)

(* A flow is in one place at a time, and it is the one GrantOf names.       *)
LEMMA PlaceIsGrant ==
  Types /\ OneGrantEach => PlacesAreGrants
<1> SUFFICES ASSUME Types, OneGrantEach, NEW f \in 0..(MaxStarted - 1), NEW g
             PROVE  PlaceOf(f, g) <=> g = GrantOf(f)
  BY DEF PlacesAreGrants
<1>1. f # None
  BY NoneAssumption, BoundsAssumption
<1>2. \A c \in Calls : c \in Completing(f) <=> \E a \in Approval(c) : a.flow = f
  <2> SUFFICES ASSUME NEW c \in Calls
               PROVE  c \in Completing(f) <=> \E a \in Approval(c) : a.flow = f
    OBVIOUS
  <2>1. call[c].pc \notin FlowLocations => call[c].flow = None
    BY DEF Types, GoodCalls, GoodCall
  <2>2. c \in Completing(f) <=> Completes(c) /\ call[c].flow = f
    BY <1>1, <2>1 DEF Completing, Completes
  <2>3. CASE Completes(c)
    <3> DEFINE a == [flow |-> call[c].flow, to |-> call[c].who]
    <3>1. Approval(c) = {a} /\ a.flow = call[c].flow
      BY <2>3 DEF Approval
    <3> HIDE DEF a
    <3>. QED
      BY <2>2, <2>3, <3>1
  <2>4. CASE ~Completes(c)
    BY <2>2, <2>4 DEF Approval
  <2>. QED
    BY <2>3, <2>4
<1>3. \A c \in Calls : \A a \in Approval(c) : a.to = call[c].who
  BY DEF Approval
<1>4. ASSUME NEW m \in minted, m.flow = f
      PROVE  GrantOf(f) = Grant!Delivered(m.to, m.token)
  <2>1. MintedFor(f) = {m}
    BY <1>4 DEF MintedFor, OneGrantEach
  <2>2. (CHOOSE n \in MintedFor(f) : TRUE) = m /\ {n.token : n \in MintedFor(f)} = {m.token}
    BY <2>1
  <2>. QED
    BY <2>1, <2>2 DEF GrantOf, Grant!Delivered
<1>5. ASSUME NEW c \in Calls, NEW a \in Approval(c), a.flow = f
      PROVE  GrantOf(f) = Grant!Approved(a.to)
  <2>1. MintedFor(f) = {}
    BY <1>5 DEF MintedFor, OneGrantEach
  <2>2. Completing(f) = {c}
    <3>1. c \in Completing(f)
      BY <1>2, <1>5
    <3>2. \A d \in Completing(f) : d \in Calls /\ d = c
      BY <1>2, <1>5 DEF OneGrantEach, Completing
    <3>. QED
      BY <3>1, <3>2
  <2>3. (CHOOSE d \in Completing(f) : TRUE) = c
    BY <2>2
  <2>. QED
    BY <1>3, <2>1, <2>2, <2>3 DEF GrantOf, Grant!Approved
<1>6. ASSUME \A m \in minted : m.flow # f, \A c \in Calls : \A a \in Approval(c) : a.flow # f
      PROVE  GrantOf(f) = Grant!Untouched(IF f \in DOMAIN flows THEN "pending"
                                          ELSE IF f < next THEN "lapsed" ELSE "none")
  <2>1. MintedFor(f) = {} /\ Completing(f) = {}
    BY <1>2, <1>6 DEF MintedFor, Completing
  <2>. QED
    BY <2>1 DEF GrantOf, Grant!Untouched
<1>7. f \in DOMAIN flows => /\ \A m \in minted : m.flow # f
                           /\ \A c \in Calls : \A a \in Approval(c) : a.flow # f
  BY DEF OneGrantEach
<1>. QED
  BY <1>4, <1>5, <1>6, <1>7 DEF PlaceOf

(* A grant moves on, or stays.                                             *)
Moves(g, h) ==
  \/ g = Grant!Untouched("none") /\ h = Grant!Untouched("pending")
  \/ g = Grant!Untouched("pending") /\ \E p \in Principals : h = Grant!Approved(p)
  \/ \E p : /\ g = Grant!Approved(p)
            /\ \/ h = Grant!Untouched("lapsed")
               \/ \E k \in 0..(MaxStarted - 1) : h = Grant!Delivered(p, k)
  \/ g = Grant!Untouched("pending") /\ h = Grant!Untouched("lapsed")
  \/ h = g

(* Every step moves grants as OneTimeGrant allows.                         *)
LEMMA StepMovesOneGrant ==
  ASSUME Types, Types', OneGrantEach, OneGrantEach', [Next]_vars,
         NEW f \in 0..(MaxStarted - 1), NEW g, PlaceOf(f, g)
  PROVE  \E h : PlaceOf(f, h)' /\ Moves(g, h)
<1>1. next \in Nat /\ \A x \in DOMAIN flows : x < next
  BY DEF Types, WorldTypes
<1>2. /\ \A c \in Calls : \A a \in Approval(c) : a.flow < next
      /\ \A m \in minted : m.flow < next
  BY <1>1 DEF Types, WorldTypes, GoodCalls, GoodCall, Approval, Completes
<1>3. CASE FlowsLapse
  <2>1. /\ \A c \in Calls : Approval(c)' = Approval(c)
        /\ UNCHANGED <<next, minted>> /\ DOMAIN flows' \subseteq DOMAIN flows
    BY <1>3 DEF FlowsLapse, SameApprovals
  <2>2. CASE f \in DOMAIN flows /\ f \notin DOMAIN flows'
    <3>1. g = Grant!Untouched("pending")
      BY <2>2 DEF PlaceOf, OneGrantEach
    <3>2. PlaceOf(f, Grant!Untouched("lapsed"))'
      BY <1>1, <2>1, <2>2 DEF PlaceOf, OneGrantEach
    <3>. QED
      BY <3>1, <3>2 DEF Moves
  <2>3. CASE ~(f \in DOMAIN flows /\ f \notin DOMAIN flows')
    <3>1. PlaceOf(f, g)'
      BY <2>1, <2>3 DEF PlaceOf
    <3>. QED
      BY <3>1 DEF Moves
  <2>. QED
    BY <2>2, <2>3
<1>4. CASE FlowStarts
  <2>1. /\ \A c \in Calls : Approval(c)' = Approval(c)
        /\ UNCHANGED minted /\ next' = next + 1
        /\ DOMAIN flows' \subseteq DOMAIN flows \cup {next} /\ next \in DOMAIN flows'
    BY <1>4 DEF FlowStarts, SameApprovals
  <2>2. CASE f = next
    <3>1. g = Grant!Untouched("none")
      BY <1>1, <1>2, <2>2 DEF PlaceOf
    <3>2. PlaceOf(f, Grant!Untouched("pending"))'
      BY <2>1, <2>2 DEF PlaceOf
    <3>. QED
      BY <3>1, <3>2 DEF Moves
  <2>3. CASE f # next /\ f \in DOMAIN flows /\ f \notin DOMAIN flows'
    <3>1. g = Grant!Untouched("pending")
      BY <2>3 DEF PlaceOf, OneGrantEach
    <3>2. f < next + 1
      BY <1>1, <2>3, BoundsAssumption
    <3>3. PlaceOf(f, Grant!Untouched("lapsed"))'
      BY <2>1, <2>3, <3>2 DEF PlaceOf, OneGrantEach
    <3>. QED
      BY <3>1, <3>3 DEF Moves
  <2>4. CASE f # next /\ (f \in DOMAIN flows <=> f \in DOMAIN flows')
    <3>1. f < next' <=> f < next
      BY <1>1, <2>1, <2>4, BoundsAssumption
    <3>2. PlaceOf(f, g)'
      BY <2>1, <2>4, <3>1 DEF PlaceOf
    <3>. QED
      BY <3>2 DEF Moves
  <2>. QED
    BY <2>1, <2>2, <2>3, <2>4
<1>5. ASSUME NEW c \in Calls, FlowConsumed(c) PROVE \E h : PlaceOf(f, h)' /\ Moves(g, h)
  <2> DEFINE a == [flow |-> call[c].flow, to |-> call[c].who]
  <2>1. /\ \A d \in Calls : d # c => Approval(d)' = Approval(d)
        /\ Approval(c) = {} /\ Approval(c)' = {a} /\ UNCHANGED <<next, minted>>
        /\ a.flow \in DOMAIN flows /\ DOMAIN flows' = DOMAIN flows \ {a.flow}
        /\ a.to \in Principals
    BY <1>5 DEF FlowConsumed, SameApprovals
  <2> HIDE DEF a
  <2>2. CASE f = a.flow
    <3>1. g = Grant!Untouched("pending")
      BY <2>1, <2>2 DEF PlaceOf, OneGrantEach
    <3>2. PICK p, b : p = a.to /\ b = a
      OBVIOUS
    <3>3. PlaceOf(f, Grant!Approved(p))'
      BY <2>1, <2>2, <3>2 DEF PlaceOf
    <3>. QED
      BY <2>1, <3>1, <3>2, <3>3 DEF Moves
  <2>3. CASE f # a.flow
    <3>1. PlaceOf(f, g)'
      BY <2>1, <2>3 DEF PlaceOf
    <3>. QED
      BY <3>1 DEF Moves
  <2>. QED
    BY <2>2, <2>3
<1>6. ASSUME NEW c \in Calls, ApprovalLapses(c) PROVE \E h : PlaceOf(f, h)' /\ Moves(g, h)
  <2>1. /\ \A d \in Calls : d # c => Approval(d)' = Approval(d)
        /\ Approval(c)' = {} /\ UNCHANGED <<flows, next, minted>>
    BY <1>6 DEF ApprovalLapses, SameApprovals
  <2>2. ASSUME NEW a \in Approval(c), a.flow = f PROVE \E h : PlaceOf(f, h)' /\ Moves(g, h)
    <3>1. g = Grant!Approved(a.to)
      BY <2>2 DEF PlaceOf, OneGrantEach, Approval
    <3>2. f < next
      BY <1>2, <2>2
    <3>3. PlaceOf(f, Grant!Untouched("lapsed"))'
      BY <2>1, <2>2, <3>2 DEF PlaceOf, OneGrantEach
    <3>. QED
      BY <3>1, <3>3 DEF Moves
  <2>3. CASE \A a \in Approval(c) : a.flow # f
    <3>1. PlaceOf(f, g)'
      BY <2>1, <2>3 DEF PlaceOf
    <3>. QED
      BY <3>1 DEF Moves
  <2>. QED
    BY <2>2, <2>3
<1>7. ASSUME NEW c \in Calls, SessionMinted(c) PROVE \E h : PlaceOf(f, h)' /\ Moves(g, h)
  <2> DEFINE a == [flow |-> call[c].flow, to |-> call[c].who]
             m == [flow |-> call[c].flow, to |-> call[c].who, token |-> Cardinality(minted)]
  <2>1. /\ \A d \in Calls : d # c => Approval(d)' = Approval(d)
        /\ Approval(c) = {a} /\ Approval(c)' = {} /\ UNCHANGED <<flows, next>>
        /\ minted' = minted \cup {m}
    BY <1>7 DEF SessionMinted, SameApprovals, Approval
  <2>2. m.flow = a.flow /\ m.to = a.to /\ m.token \in 0..(MaxStarted - 1)
    BY <1>7, TokensAreFew, BoundsAssumption DEF SessionMinted
  <2> HIDE DEF a, m
  <2>3. CASE f = a.flow
    <3>1. g = Grant!Approved(a.to)
      BY <2>1, <2>3 DEF PlaceOf, OneGrantEach
    <3>2. PICK n, p, k : n = m /\ p = a.to /\ k = m.token
      OBVIOUS
    <3>3. PlaceOf(f, Grant!Delivered(p, k))'
      BY <2>1, <2>2, <2>3, <3>2 DEF PlaceOf
    <3>. QED
      BY <2>2, <3>1, <3>2, <3>3 DEF Moves
  <2>4. CASE f # a.flow
    <3>1. PlaceOf(f, g)'
      BY <2>1, <2>2, <2>4 DEF PlaceOf
    <3>. QED
      BY <3>1 DEF Moves
  <2>. QED
    BY <2>3, <2>4
<1>. QED
  BY <1>3, <1>4, <1>5, <1>6, <1>7, StepsMoveGrants

(* Every login flow is a one-time grant: one callback takes it, and one    *)
(* session comes of it, for the person the provider named to that          *)
(* callback, however often and wherever its link is opened.                *)
THEOREM LoginsImplementGrants == Spec => LoginsAreOneTimeGrants
<1>1. Init => Grant!Init
  <2> SUFFICES ASSUME Init, NEW f \in 0..(MaxStarted - 1)
               PROVE  GrantOf(f) = Grant!Untouched("none")
    BY DEF Grant!Init
  <2>1. f # None /\ ~(f < 0)
    BY NoneAssumption, BoundsAssumption
  <2>2. MintedFor(f) = {} /\ Completing(f) = {}
    BY <2>1 DEF Init, NoCall, MintedFor, Completing
  <2>. QED
    BY <2>1, <2>2 DEF Init, GrantOf, Grant!Untouched
<1>2. Init => OneGrantEach
  BY BoundsAssumption DEF Init, OneGrantEach, Approval, Completes, NoCall, FlowLocations
<1>3. Types /\ Types' /\ OneGrantEach /\ [Next]_vars => OneGrantEach'
  BY OneGrantStep
<1>4. Types /\ Types' /\ OneGrantEach /\ OneGrantEach' /\ PlacesAreGrants' /\ [Next]_vars
       => Grant!Next
  <2> SUFFICES ASSUME Types, Types', OneGrantEach, OneGrantEach', PlacesAreGrants', [Next]_vars,
                      NEW f \in 0..(MaxStarted - 1)
               PROVE  \/ Grant!Ask(f) \/ Grant!Approve(f) \/ Grant!Deliver(f)
                      \/ Grant!Lapse(f) \/ Grant!Keep(f)
    BY DEF Grant!Next
  <2>1. PICK g : g = GrantOf(f)
    OBVIOUS
  <2>2. PlaceOf(f, g)
    BY <2>1, PlaceIsGrant DEF PlacesAreGrants
  <2>3. PICK h : PlaceOf(f, h)' /\ Moves(g, h)
    BY <2>2, StepMovesOneGrant
  <2>4. h = GrantOf(f)'
    BY <2>3 DEF PlacesAreGrants
  <2>. QED
    BY <2>1, <2>3, <2>4
       DEF Moves, Grant!Ask, Grant!Approve, Grant!Deliver, Grant!Lapse, Grant!Keep,
           Grant!Untouched, Grant!Approved, Grant!Delivered
<1>. QED
  BY <1>1, <1>2, <1>3, <1>4, TypesHold, PlaceIsGrant, PTL
     DEF Spec, LoginsAreOneTimeGrants, Grant!Spec
================================================================
