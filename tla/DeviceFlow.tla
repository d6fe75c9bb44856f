----------------------------- MODULE DeviceFlow ------------------------------
(***************************************************************************)
(* The browser-assisted login of the command line client: the client asks  *)
(* for a flow and polls it, a person approves it in the browser, and one   *)
(* poll is answered with a new API token.                                  *)
(*                                                                         *)
(* A call is one transaction, which SQLite serialises with the others (a   *)
(* transaction that cannot be has failed), but each reads the clock before *)
(* it: calls may be overtaken between the two.                             *)
(***************************************************************************)
EXTENDS CredentialTable

CONSTANTS
  None,
  Calls,          \* calls that may be under way together
  Lifetime,       \* DEVICE_FLOW_LIFETIME
  PollInterval,   \* DEVICE_POLL_INTERVAL
  MaxFlows,       \* MAX_ACTIVE_DEVICE_FLOWS
  MaxTime,        \* bound: the last second
  MaxStarted      \* bound: flows started

ASSUME NoneAssumption == None \notin Principals \cup Nat
ASSUME FlowAssumption == Lifetime \in Nat \ {0} /\ PollInterval \in Nat \ {0}
ASSUME FlowBounds == MaxFlows \in Nat \ {0} /\ MaxTime \in Nat /\ MaxStarted \in Nat

VARIABLES
  flows,          \* cli_device_flows: a function on the identifiers of rows
  next,           \* the next identifier
  tokens,         \* api_tokens
  now,            \* the clock
  call,           \* the calls under way
  minted          \* history: the tokens that were handed out

vars == <<flows, next, tokens, now, call, minted>>

FlowRows ==
  [by : Principals \cup {None}, expires : Nat, last : Nat \cup {None}, delivered : BOOLEAN]

Idle == [op |-> "idle", flow |-> None, who |-> None, time |-> 0]

Init ==
  /\ flows = [f \in {} |-> None]
  /\ next = 0
  /\ tokens = [i \in {} |-> None]
  /\ now = 0
  /\ call = [c \in Calls |-> Idle]
  /\ minted = {}

Tick ==
  /\ now < MaxTime
  /\ now' = now + 1
  /\ UNCHANGED <<flows, next, tokens, call, minted>>

(* A call arrives and reads the clock.  A client keeps polling a flow that *)
(* is gone; it and the browser know the codes of flows that were started.  *)
Begin(c, op, f, p) ==
  /\ call[c] = Idle
  /\ call' = [call EXCEPT ![c] = [op |-> op, flow |-> f, who |-> p, time |-> now]]
  /\ UNCHANGED <<flows, next, tokens, now, minted>>

Arrive(c) ==
  \/ Begin(c, "start", None, None)
  \/ \E f \in 0..(next - 1) : Begin(c, "poll", f, None) \/ \E p \in Principals : Begin(c, "approve", f, p)

Return(c, op) == call[c].op = op /\ call' = [call EXCEPT ![c] = Idle] /\ UNCHANGED now

(* The transaction fails, or the server crashes: nothing of it remains.    *)
Fail(c) ==
  /\ call[c] # Idle
  /\ call' = [call EXCEPT ![c] = Idle]
  /\ UNCHANGED <<flows, next, tokens, now, minted>>

------------------------------------------------------------------------------
(* The transactions *)

NewFlow(t) == [by |-> None, expires |-> t + Lifetime, last |-> None, delivered |-> FALSE]

Unexpired(t) == Restrict(flows, {f \in DOMAIN flows : flows[f].expires > t})

Undelivered(F) == {f \in DOMAIN F : ~F[f].delivered}

(* A mutant: one flow too many fits.                                       *)
HasRoomForOne(F) == Cardinality(Undelivered(F)) <= MaxFlows

HasRoom(F) == Cardinality(Undelivered(F)) < MaxFlows

(* start_device_flow *)
StartFlow(c) ==
  /\ next < MaxStarted
  /\ Return(c, "start")
  /\ LET F == Unexpired(call[c].time)
     IN  IF HasRoom(F)
         THEN /\ flows' = [f \in DOMAIN F \cup {next} |->
                             IF f = next THEN NewFlow(call[c].time) ELSE F[f]]
              /\ next' = next + 1
         ELSE flows' = F /\ UNCHANGED next
  /\ UNCHANGED <<tokens, minted>>

(* A mutant: an approved flow may be approved again.                       *)
MayApproveAgain(f, t) == f \in DOMAIN flows /\ ~flows[f].delivered /\ flows[f].expires > t

MayApprove(f, t) ==
  /\ f \in DOMAIN flows
  /\ flows[f].by = None
  /\ ~flows[f].delivered
  /\ flows[f].expires > t

(* approve_device_flow *)
ApproveFlow(c) ==
  /\ Return(c, "approve")
  /\ flows' = IF MayApprove(call[c].flow, call[c].time)
              THEN [flows EXCEPT ![call[c].flow].by = call[c].who]
              ELSE flows
  /\ UNCHANGED <<next, tokens, minted>>

TooEarly(f, t) == flows[f].last # None /\ t < flows[f].last + PollInterval

(* A mutant: the browser's answer is not waited for.                       *)
IsStarted(f) == f \in DOMAIN flows

IsApproved(f) == flows[f].by # None

(* What poll_device_flow answers, from the row alone                       *)
Answer(f, t) ==
  IF f \notin DOMAIN flows THEN "unknown"
  ELSE IF flows[f].expires <= t THEN "expired"
  ELSE IF flows[f].delivered THEN "consumed"
  ELSE IF TooEarly(f, t) THEN "slow_down"
  ELSE IF IsApproved(f) THEN "authorized" ELSE "pending"

PollExpired(f) ==
  /\ flows' = Restrict(flows, DOMAIN flows \ {f})
  /\ UNCHANGED <<tokens, minted>>

(* Also a poll that comes too early starts the interval anew.              *)
PollWaits(f, t) ==
  /\ flows' = [flows EXCEPT ![f].last = t]
  /\ UNCHANGED <<tokens, minted>>

HandOut(f, t) ==
  /\ flows' = [flows EXCEPT ![f].last = t, ![f].delivered = TRUE]
  /\ tokens' = CreateCredential(tokens, Cardinality(minted), flows[f].by, t)
  /\ minted' = minted \cup {[flow |-> f, to |-> flows[f].by, token |-> Cardinality(minted)]}

(* poll_device_flow *)
PollFlow(c) ==
  LET f == call[c].flow
      t == call[c].time
      answer == Answer(f, t)
  IN  /\ Return(c, "poll")
      /\ \/ answer \in {"unknown", "consumed"} /\ UNCHANGED <<flows, tokens, minted>>
         \/ answer = "expired" /\ PollExpired(f)
         \/ answer \in {"slow_down", "pending"} /\ PollWaits(f, t)
         \/ answer = "authorized" /\ HandOut(f, t)
      /\ UNCHANGED next

(* purge_expired, hourly and at startup                                    *)
PurgeExpired ==
  /\ flows' = Unexpired(now)
  /\ tokens' = Purged(tokens, now)
  /\ UNCHANGED <<next, now, call, minted>>

(* An administrator's request *)
RevokePrincipal(p) ==
  /\ tokens' = Revoked(tokens, ByPrincipal(tokens, p))
  /\ UNCHANGED <<flows, next, now, call, minted>>

Next ==
  \/ Tick
  \/ \E c \in Calls :
       Arrive(c) \/ Fail(c) \/ StartFlow(c) \/ ApproveFlow(c) \/ PollFlow(c)
  \/ PurgeExpired
  \/ \E p \in Principals : RevokePrincipal(p)

Spec == Init /\ [][Next]_vars

------------------------------------------------------------------------------
(* Properties *)

(* Every variable has its type; a flow that is delivered was approved.     *)
TypeOK ==
  /\ next \in Nat /\ now \in Nat
  /\ DOMAIN flows \subseteq 0..(next - 1)
  /\ \A f \in DOMAIN flows :
       /\ flows[f] \in FlowRows
       /\ flows[f].delivered => flows[f].by # None
  /\ \A i \in DOMAIN tokens : tokens[i] \in CredentialRows
  /\ \A c \in Calls :
       /\ call[c].op \in {"idle", "start", "approve", "poll"}
       /\ call[c].op \in {"approve", "poll"} => call[c].flow \in 0..(next - 1)
       /\ call[c].time \in 0..now
  /\ \A m \in minted : m.flow \in 0..(next - 1) /\ m.to \in Principals

(* MAX_ACTIVE_DEVICE_FLOWS: "too many active CLI login flows; try again    *)
(* later", however many calls start one at the same time.                  *)
BoundedFlows == Cardinality(Undelivered(flows)) <= MaxFlows

(* A principal has MaxActive tokens at most, whichever flows they came     *)
(* from.                                                                   *)
BoundedCredentials ==
  \A p \in Principals : Cardinality(Dynamic(tokens, p)) <= MaxActive

(* "Polls a device flow and atomically delivers at most one API token":    *)
(* approvals and polls may race, be repeated and come late, yet every flow *)
(* is a one-time grant, approved once, delivered once, to its approver.    *)
MintedFor(f) == {m \in minted : m.flow = f}

GrantOf(f) ==
  IF MintedFor(f) # {}
  THEN [state |-> "delivered", to |-> (CHOOSE m \in MintedFor(f) : TRUE).to,
        tokens |-> {m.token : m \in MintedFor(f)}]
  ELSE IF f \in DOMAIN flows
  THEN [state |-> IF flows[f].by = None THEN "pending" ELSE "approved",
        to |-> flows[f].by, tokens |-> {}]
  ELSE [state |-> IF f < next THEN "lapsed" ELSE "none", to |-> None, tokens |-> {}]

Grant == INSTANCE OneTimeGrant WITH
  Grants <- 0..(MaxStarted - 1),
  Tokens <- 0..(MaxStarted - 1),
  grant <- [f \in 0..(MaxStarted - 1) |-> GrantOf(f)]

FlowsAreOneTimeGrants == Grant!Spec
==============================================================================
