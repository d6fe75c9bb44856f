--------------------------- MODULE DeviceFlowProofs ---------------------------
(***************************************************************************)
(* Theorems about the login of the command line client, for any number of  *)
(* principals, calls and flows, and any lengths of time.                   *)
(***************************************************************************)
EXTENDS DeviceFlow, CredentialTableProofs

Operations == {"idle", "start", "approve", "poll"}

CallRecords ==
  [op : Operations, flow : Nat \cup {None}, who : Principals \cup {None}, time : Nat]

MintedRows == [flow : Nat, to : Principals, token : Nat]

GoodCall(k) ==
  /\ k \in CallRecords /\ k.time <= now
  /\ k.op \in {"approve", "poll"} => k.flow \in 0..(next - 1)
  /\ k.op = "approve" => k.who \in Principals

(* The types that the actions rely on; tokens have consecutive numbers.    *)
Types ==
  /\ next \in 0..MaxStarted /\ now \in Nat
  /\ DOMAIN flows \subseteq 0..(next - 1) /\ \A f \in DOMAIN flows : flows[f] \in FlowRows
  /\ call = [c \in Calls |-> call[c]] /\ \A c \in Calls : GoodCall(call[c])
  /\ minted \subseteq MintedRows /\ IsFiniteSet(minted)
  /\ Rows(tokens, Cardinality(minted))

(* A flow is delivered at most once, when it has been approved, and as     *)
(* long as it is there its row shows it.                                   *)
DeliveredOnce ==
  /\ \A m \in minted : m.flow < next /\ m.token < Cardinality(minted)
  /\ \A m, n \in minted : m.flow = n.flow => m = n
  /\ \A f \in DOMAIN flows :
       /\ flows[f].delivered <=> \E m \in minted : m.flow = f
       /\ flows[f].delivered => flows[f].by # None

Inv == Types /\ DeliveredOnce /\ BoundedFlows

------------------------------------------------------------------------------
(* What a step does to the flows *)

SameFlow(f) == flows'[f].by = flows[f].by /\ flows'[f].delivered = flows[f].delivered

(* Flows go that have expired; the clocks of the others may change.        *)
FlowsLapse ==
  /\ UNCHANGED <<next, minted>> /\ DOMAIN flows' \subseteq DOMAIN flows
  /\ \A f \in DOMAIN flows' : SameFlow(f) /\ flows'[f] \in FlowRows

(* A flow comes, while expired ones go.                                    *)
FlowStarts ==
  /\ next' = next + 1 /\ next < MaxStarted /\ UNCHANGED <<minted, tokens>>
  /\ DOMAIN flows' \subseteq DOMAIN flows \cup {next} /\ next \in DOMAIN flows'
  /\ \A f \in DOMAIN flows' \ {next} : SameFlow(f) /\ flows'[f] = flows[f]
  /\ flows'[next].by = None /\ ~flows'[next].delivered /\ flows'[next] \in FlowRows
  /\ Cardinality(Undelivered(flows') \ {next}) < MaxFlows

(* One flow is approved.                                                   *)
FlowApproved(f) ==
  /\ UNCHANGED <<next, minted, tokens>> /\ DOMAIN flows' = DOMAIN flows /\ f \in DOMAIN flows
  /\ flows[f].by = None /\ ~flows[f].delivered
  /\ flows'[f].by \in Principals /\ ~flows'[f].delivered /\ flows'[f] \in FlowRows
  /\ \A d \in DOMAIN flows \ {f} : SameFlow(d) /\ flows'[d] = flows[d]

(* One flow is delivered.                                                  *)
FlowDelivered(f) ==
  /\ UNCHANGED next /\ DOMAIN flows' = DOMAIN flows /\ f \in DOMAIN flows
  /\ flows[f].by \in Principals /\ ~flows[f].delivered
  /\ flows'[f].by = flows[f].by /\ flows'[f].delivered /\ flows'[f] \in FlowRows
  /\ \A d \in DOMAIN flows \ {f} : SameFlow(d) /\ flows'[d] = flows[d]
  /\ minted' = minted \cup {[flow |-> f, to |-> flows[f].by, token |-> Cardinality(minted)]}
  /\ \E t \in Nat : tokens' = CreateCredential(tokens, Cardinality(minted), flows[f].by, t)

(* Apart from delivery, a table of tokens is left alone, or rows go or are *)
(* revoked.                                                                *)
TokensShrink ==
  \/ UNCHANGED tokens
  \/ \E t : tokens' = Purged(tokens, t)
  \/ \E rows : tokens' = Revoked(tokens, rows)

FlowsMove ==
  \/ FlowsLapse /\ TokensShrink
  \/ FlowStarts
  \/ \E f \in DOMAIN flows : FlowApproved(f) \/ FlowDelivered(f)

(* A flow that comes finds room.                                           *)
LEMMA StartMoves ==
  ASSUME Types, NEW c \in Calls, StartFlow(c)
  PROVE  FlowsMove
<1>1. PICK t \in Nat : t = call[c].time
  BY DEF Types, GoodCall, CallRecords
<1>2. PICK F : F = Unexpired(t)
  OBVIOUS
<1>3. next \in Nat /\ \A f \in DOMAIN flows : f # next /\ flows[f] \in FlowRows
  BY FlowBounds DEF Types
<1>4. DOMAIN F \subseteq DOMAIN flows /\ \A f \in DOMAIN F : F[f] = flows[f]
  BY <1>2 DEF Unexpired, Restrict
<1>5. CASE ~HasRoom(F)
  <2>1. flows' = F /\ UNCHANGED <<next, tokens, minted>>
    BY <1>1, <1>2, <1>5 DEF StartFlow
  <2>. QED
    BY <1>3, <1>4, <2>1 DEF FlowsMove, FlowsLapse, SameFlow, TokensShrink
<1>6. CASE HasRoom(F)
  <2>1. /\ flows' = [f \in DOMAIN F \cup {next} |-> IF f = next THEN NewFlow(t) ELSE F[f]]
        /\ next' = next + 1 /\ UNCHANGED <<tokens, minted>> /\ next < MaxStarted
    BY <1>1, <1>2, <1>6 DEF StartFlow
  <2>2. NewFlow(t) \in FlowRows /\ NewFlow(t).by = None /\ ~NewFlow(t).delivered
    BY FlowAssumption DEF NewFlow, FlowRows
  <2>3. /\ DOMAIN flows' = DOMAIN F \cup {next} /\ flows'[next] = NewFlow(t)
        /\ \A f \in DOMAIN flows' \ {next} : flows'[f] = flows[f]
    BY <1>3, <1>4, <2>1
  <2>4. Undelivered(flows') \ {next} = Undelivered(F)
    BY <1>3, <1>4, <2>3 DEF Undelivered
  <2>5. FlowStarts
    BY <1>4, <1>6, <2>1, <2>2, <2>3, <2>4 DEF FlowStarts, HasRoom, SameFlow
  <2>. QED
    BY <2>5 DEF FlowsMove
<1>. QED
  BY <1>5, <1>6

(* An approval needs a flow that is there and was not approved.            *)
LEMMA ApproveMoves ==
  ASSUME Types, NEW c \in Calls, ApproveFlow(c)
  PROVE  FlowsMove
<1>1. PICK f, p, t : f = call[c].flow /\ p = call[c].who /\ t = call[c].time
  OBVIOUS
<1>2. p \in Principals
  BY <1>1 DEF Types, GoodCall, ApproveFlow, Return
<1>3. CASE ~MayApprove(f, t)
  BY <1>1, <1>3 DEF ApproveFlow, FlowsMove, FlowsLapse, TokensShrink, SameFlow, Types
<1>4. CASE MayApprove(f, t)
  <2>1. /\ f \in DOMAIN flows /\ flows[f].by = None /\ ~flows[f].delivered
        /\ flows[f] \in FlowRows
    BY <1>4 DEF MayApprove, Types
  <2>2. flows' = [flows EXCEPT ![f].by = p] /\ UNCHANGED <<next, tokens, minted>>
    BY <1>1, <1>4 DEF ApproveFlow
  <2>3. PICK r \in FlowRows : r = flows[f]
    BY <2>1
  <2>4. flows'[f] = [r EXCEPT !.by = p] /\ DOMAIN flows' = DOMAIN flows
        /\ \A d \in DOMAIN flows \ {f} : flows'[d] = flows[d]
    BY <2>1, <2>2, <2>3
  <2>5. [r EXCEPT !.by = p] \in FlowRows /\ [r EXCEPT !.by = p].by = p
        /\ [r EXCEPT !.by = p].delivered = r.delivered
    BY <1>2 DEF FlowRows
  <2>6. FlowApproved(f)
    BY <1>2, <2>1, <2>2, <2>3, <2>4, <2>5 DEF FlowApproved, SameFlow
  <2>. QED
    BY <2>1, <2>6 DEF FlowsMove
<1>. QED
  BY <1>3, <1>4

(* A poll hands out a token for an approved flow that was not delivered.   *)
LEMMA PollMoves ==
  ASSUME Types, NEW c \in Calls, PollFlow(c)
  PROVE  FlowsMove
<1>1. PICK f, t : f = call[c].flow /\ t = call[c].time
  OBVIOUS
<1>2. t \in Nat
  BY <1>1 DEF Types, GoodCall, CallRecords
<1>3. UNCHANGED next
  BY DEF PollFlow
<1>4. CASE UNCHANGED <<flows, tokens, minted>>
  BY <1>3, <1>4 DEF FlowsMove, FlowsLapse, TokensShrink, SameFlow, Types
<1>5. CASE PollExpired(f)
  BY <1>3, <1>5 DEF PollExpired, Restrict, FlowsMove, FlowsLapse, TokensShrink, SameFlow, Types
<1>6. CASE Answer(f, t) \in {"slow_down", "pending"} /\ PollWaits(f, t)
  <2>1. f \in DOMAIN flows /\ UNCHANGED <<tokens, minted>>
        /\ flows' = [flows EXCEPT ![f].last = t]
    BY <1>6 DEF Answer, PollWaits
  <2>2. PICK r \in FlowRows : r = flows[f]
    BY <2>1 DEF Types
  <2>3. flows'[f] = [r EXCEPT !.last = t] /\ DOMAIN flows' = DOMAIN flows
        /\ \A d \in DOMAIN flows \ {f} : flows'[d] = flows[d]
    BY <2>1, <2>2
  <2>4. flows'[f] \in FlowRows /\ flows'[f].by = r.by /\ flows'[f].delivered = r.delivered
    <3>1. [r EXCEPT !.last = t] \in FlowRows /\ [r EXCEPT !.last = t].by = r.by
          /\ [r EXCEPT !.last = t].delivered = r.delivered
      BY <1>2 DEF FlowRows
    <3>. QED
      BY <2>3, <3>1
  <2>. QED
    BY <1>3, <2>1, <2>2, <2>3, <2>4 DEF FlowsMove, FlowsLapse, TokensShrink, SameFlow, Types
<1>7. CASE Answer(f, t) = "authorized" /\ HandOut(f, t)
  <2>1. f \in DOMAIN flows /\ ~flows[f].delivered /\ flows[f].by # None
    BY <1>7 DEF Answer, IsApproved
  <2>2. /\ flows' = [flows EXCEPT ![f].last = t, ![f].delivered = TRUE]
        /\ tokens' = CreateCredential(tokens, Cardinality(minted), flows[f].by, t)
        /\ minted' = minted \cup {[flow |-> f, to |-> flows[f].by, token |-> Cardinality(minted)]}
    BY <1>7 DEF HandOut
  <2>3. PICK r \in FlowRows : r = flows[f]
    BY <2>1 DEF Types
  <2>4. flows'[f] = [r EXCEPT !.last = t, !.delivered = TRUE] /\ DOMAIN flows' = DOMAIN flows
        /\ \A d \in DOMAIN flows \ {f} : flows'[d] = flows[d]
    BY <2>1, <2>2, <2>3
  <2>5. flows'[f] \in FlowRows /\ flows'[f].by = r.by /\ flows'[f].delivered
    <3> DEFINE d == [r EXCEPT !.last = t, !.delivered = TRUE]
    <3>1. d \in FlowRows /\ d.by = r.by /\ d.delivered
      BY <1>2 DEF FlowRows
    <3>2. flows'[f] = d
      BY <2>4
    <3> HIDE DEF d
    <3>. QED
      BY <3>1, <3>2
  <2>6. flows[f].by \in Principals
    BY <2>1, <2>3 DEF FlowRows
  <2>7. FlowDelivered(f)
    BY <1>2, <1>3, <2>1, <2>2, <2>3, <2>4, <2>5, <2>6 DEF FlowDelivered, SameFlow
  <2>. QED
    BY <2>1, <2>7 DEF FlowsMove
<1>. QED
  BY <1>1, <1>4, <1>5, <1>6, <1>7 DEF PollFlow

(* Every step moves flows in one of these ways.                            *)
LEMMA StepsMoveFlows == Types /\ [Next]_vars => FlowsMove
<1> SUFFICES ASSUME Types, [Next]_vars PROVE FlowsMove
  OBVIOUS
<1>1. CASE UNCHANGED <<flows, next, minted>> /\ TokensShrink
  BY <1>1 DEF FlowsMove, FlowsLapse, SameFlow, Types
<1>2. CASE PurgeExpired
  BY <1>2 DEF PurgeExpired, Unexpired, Restrict, FlowsMove, FlowsLapse, TokensShrink, SameFlow,
     Types
<1>3. ASSUME NEW c \in Calls, Arrive(c) \/ Fail(c) PROVE FlowsMove
  BY <1>1, <1>3 DEF Arrive, Begin, Fail, TokensShrink
<1>4. ASSUME NEW p \in Principals, RevokePrincipal(p) PROVE FlowsMove
  BY <1>1, <1>4 DEF RevokePrincipal, TokensShrink
<1>5. CASE Tick \/ UNCHANGED vars
  BY <1>1, <1>5 DEF Tick, vars, TokensShrink
<1>. QED
  BY <1>2, <1>3, <1>4, <1>5, StartMoves, ApproveMoves, PollMoves DEF Next

------------------------------------------------------------------------------
(* The invariant *)

(* A table has a row more when a token is handed out.                      *)
LEMMA MintedGrows ==
  ASSUME Types, DeliveredOnce, NEW f \in DOMAIN flows, FlowDelivered(f)
  PROVE  /\ minted' \subseteq MintedRows /\ IsFiniteSet(minted')
         /\ Cardinality(minted) \in Nat /\ Cardinality(minted') = Cardinality(minted) + 1
         /\ Rows(tokens', Cardinality(minted'))
<1> DEFINE n == Cardinality(minted)
           m == [flow |-> f, to |-> flows[f].by, token |-> n]
<1>1. IsFiniteSet(minted) /\ n \in Nat
  BY FS_CardinalityType DEF Types
<1>2. m \notin minted
  BY DEF DeliveredOnce, FlowDelivered
<1>3. m \in MintedRows
  BY <1>1 DEF MintedRows, FlowDelivered, Types
<1>4. minted' = minted \cup {m}
  BY DEF FlowDelivered
<1> HIDE DEF m
<1>5. IsFiniteSet(minted') /\ Cardinality(minted') = n + 1
  BY <1>1, <1>2, <1>4, FS_AddElement
<1>6. PICK t \in Nat : tokens' = CreateCredential(tokens, n, flows[f].by, t)
  BY DEF FlowDelivered
<1>7. flows[f].by \in Principals /\ Rows(tokens, n)
  BY DEF FlowDelivered, Types
<1>8. Rows(tokens', n + 1)
  BY <1>1, <1>6, <1>7, CreatedTable
<1>. QED
  BY <1>1, <1>3, <1>4, <1>5, <1>8 DEF Types

(* A table of tokens that shrinks stays one.                               *)
LEMMA ShrinkingTokens ==
  ASSUME NEW n \in Nat, Rows(tokens, n), TokensShrink
  PROVE  Rows(tokens', n) /\ (Bounded(tokens) => Bounded(tokens'))
<1>1. ASSUME NEW t, tokens' = Purged(tokens, t)
      PROVE  Rows(tokens', n) /\ (Bounded(tokens) => Bounded(tokens'))
  BY <1>1, PurgedTable
<1>2. ASSUME NEW rows, tokens' = Revoked(tokens, rows)
      PROVE  Rows(tokens', n) /\ (Bounded(tokens) => Bounded(tokens'))
  BY <1>2, RevokedTable
<1>. QED
  BY <1>1, <1>2 DEF TokensShrink

(* Calls return, or come with what was started.                            *)
LEMMA CallsStayGood ==
  ASSUME Types, next' \in Nat, next <= next', [Next]_vars
  PROVE  /\ now' \in Nat
         /\ call' = [c \in Calls |-> call'[c]] /\ \A c \in Calls : GoodCall(call[c])'
<1>1. now \in Nat /\ now' \in Nat /\ now <= now' /\ next \in Nat
  <2>1. now \in Nat /\ next \in Nat
    BY FlowBounds DEF Types
  <2>2. UNCHANGED now \/ now' = now + 1
    BY DEF Next, Tick, Arrive, Begin, Fail, StartFlow, ApproveFlow, PollFlow, Return,
       PurgeExpired, RevokePrincipal, vars
  <2>. QED
    BY <2>1, <2>2
<1>2. \A k : GoodCall(k) => GoodCall(k)'
  BY <1>1 DEF GoodCall, CallRecords
<1>3. GoodCall(Idle)'
  BY <1>1 DEF GoodCall, Idle, CallRecords, Operations
<1>4. ASSUME UNCHANGED call
      PROVE  call' = [c \in Calls |-> call'[c]] /\ \A c \in Calls : GoodCall(call[c])'
  BY <1>2, <1>4 DEF Types
<1>5. ASSUME NEW c \in Calls, NEW k, GoodCall(k)', call' = [call EXCEPT ![c] = k]
      PROVE  call' = [d \in Calls |-> call'[d]] /\ \A d \in Calls : GoodCall(call[d])'
  <2>1. call' = [d \in Calls |-> IF d = c THEN k ELSE call[d]]
    BY <1>5 DEF Types
  <2>2. ASSUME NEW d \in Calls PROVE GoodCall(call[d])'
    <3>1. PICK x : x = call'[d]
      OBVIOUS
    <3>2. GoodCall(x)'
      BY <1>2, <1>5, <2>1, <3>1 DEF Types
    <3>. QED
      BY <3>1, <3>2
  <2>. QED
    BY <2>1, <2>2
<1>6. ASSUME NEW c \in Calls, Arrive(c)
      PROVE  call' = [d \in Calls |-> call'[d]] /\ \A d \in Calls : GoodCall(call[d])'
  <2>1. ASSUME NEW op \in Operations, NEW f \in Nat \cup {None}, NEW p \in Principals \cup {None},
               Begin(c, op, f, p), op \in {"approve", "poll"} => f \in 0..(next - 1),
               op = "approve" => p \in Principals
        PROVE  call' = [d \in Calls |-> call'[d]] /\ \A d \in Calls : GoodCall(call[d])'
    <3>1. PICK k : k = [op |-> op, flow |-> f, who |-> p, time |-> now]
      OBVIOUS
    <3>2. k \in CallRecords /\ k.op = op /\ k.flow = f /\ k.who = p /\ k.time = now
      BY <1>1, <3>1 DEF CallRecords
    <3>3. GoodCall(k)'
      BY <1>1, <2>1, <3>2 DEF GoodCall, CallRecords, Begin
    <3>. QED
      BY <1>5, <2>1, <3>1, <3>3 DEF Begin
  <2>2. CASE Begin(c, "start", None, None)
    BY <2>1, <2>2 DEF Operations
  <2>3. ASSUME NEW f \in 0..(next - 1), Begin(c, "poll", f, None)
        PROVE  call' = [d \in Calls |-> call'[d]] /\ \A d \in Calls : GoodCall(call[d])'
    BY <1>1, <2>1, <2>3 DEF Operations
  <2>4. ASSUME NEW f \in 0..(next - 1), NEW p \in Principals, Begin(c, "approve", f, p)
        PROVE  call' = [d \in Calls |-> call'[d]] /\ \A d \in Calls : GoodCall(call[d])'
    BY <1>1, <2>1, <2>4 DEF Operations
  <2>. QED
    BY <1>6, <2>2, <2>3, <2>4 DEF Arrive
<1>7. ASSUME NEW c \in Calls, Fail(c) \/ StartFlow(c) \/ ApproveFlow(c) \/ PollFlow(c)
      PROVE  call' = [d \in Calls |-> call'[d]] /\ \A d \in Calls : GoodCall(call[d])'
  <2>1. call' = [call EXCEPT ![c] = Idle]
    BY <1>7 DEF Fail, StartFlow, ApproveFlow, PollFlow, Return
  <2>. QED
    BY <1>3, <1>5, <2>1
<1>8. CASE UNCHANGED call
  BY <1>1, <1>4, <1>8
<1>9. UNCHANGED call \/ \E c \in Calls : \/ Arrive(c) \/ Fail(c)
                                       \/ StartFlow(c) \/ ApproveFlow(c) \/ PollFlow(c)
  BY DEF Next, Tick, PurgeExpired, RevokePrincipal, vars
<1>. QED
  BY <1>1, <1>6, <1>7, <1>8, <1>9

(* Types are kept, ...                                                     *)
LEMMA TypesNext == Types /\ DeliveredOnce /\ [Next]_vars => Types'
<1> SUFFICES ASSUME Types, DeliveredOnce, [Next]_vars PROVE Types'
  OBVIOUS
<1>1. next \in Nat /\ MaxStarted \in Nat /\ Cardinality(minted) \in Nat
  BY FlowBounds, FS_CardinalityType DEF Types
<1>2. CASE FlowsLapse /\ TokensShrink
  BY <1>1, <1>2, ShrinkingTokens, CallsStayGood DEF Types, FlowsLapse
<1>3. CASE FlowStarts
  <2>1. next' \in 0..MaxStarted /\ next <= next' /\ next' \in Nat
    BY <1>1, <1>3 DEF FlowStarts
  <2>2. DOMAIN flows' \subseteq 0..(next' - 1)
    BY <1>1, <1>3 DEF FlowStarts, Types
  <2>3. \A f \in DOMAIN flows' : flows'[f] \in FlowRows
    BY <1>1, <1>3 DEF FlowStarts, Types
  <2>. QED
    BY <1>3, <2>1, <2>2, <2>3, CallsStayGood DEF Types, FlowStarts
<1>4. ASSUME NEW f \in DOMAIN flows, FlowApproved(f) PROVE Types'
  BY <1>1, <1>4, CallsStayGood DEF Types, FlowApproved
<1>5. ASSUME NEW f \in DOMAIN flows, FlowDelivered(f) PROVE Types'
  <2>1. \A d \in DOMAIN flows' : flows'[d] \in FlowRows
    BY <1>5 DEF Types, FlowDelivered
  <2>2. UNCHANGED next /\ DOMAIN flows' = DOMAIN flows
    BY <1>5 DEF FlowDelivered
  <2>. QED
    BY <1>1, <1>5, <2>1, <2>2, MintedGrows, CallsStayGood DEF Types
<1>. QED
  BY <1>2, <1>3, <1>4, <1>5, StepsMoveFlows DEF FlowsMove

(* ... and no step delivers a flow a second time.                          *)
LEMMA DeliveredNext == Types /\ DeliveredOnce /\ [Next]_vars => DeliveredOnce'
<1> SUFFICES ASSUME Types, DeliveredOnce, [Next]_vars PROVE DeliveredOnce'
  OBVIOUS
<1>1. next \in Nat /\ Cardinality(minted) \in Nat
  BY FlowBounds, FS_CardinalityType DEF Types
<1>2. \A m \in minted : m.flow \in Nat /\ m.token \in Nat
  BY DEF Types, MintedRows
<1>3. CASE FlowsLapse
  BY <1>3 DEF FlowsLapse, DeliveredOnce, SameFlow
<1>4. CASE FlowStarts
  <2>1. \A m \in minted : m.flow # next /\ m.flow < next'
    BY <1>1, <1>2, <1>4 DEF FlowStarts, DeliveredOnce
  <2>2. \A f \in DOMAIN flows' \ {next} : f \in DOMAIN flows /\ SameFlow(f)
    BY <1>4 DEF FlowStarts
  <2>. QED
    BY <1>4, <2>1, <2>2 DEF FlowStarts, DeliveredOnce, SameFlow
<1>5. ASSUME NEW f \in DOMAIN flows, FlowApproved(f) PROVE DeliveredOnce'
  BY <1>5 DEF FlowApproved, DeliveredOnce, SameFlow
<1>6. ASSUME NEW f \in DOMAIN flows, FlowDelivered(f) PROVE DeliveredOnce'
  <2> DEFINE m == [flow |-> f, to |-> flows[f].by, token |-> Cardinality(minted)]
  <2>1. /\ minted' = minted \cup {m} /\ m.flow = f /\ m.token = Cardinality(minted)
        /\ UNCHANGED next /\ DOMAIN flows' = DOMAIN flows
        /\ \A d \in DOMAIN flows \ {f} : SameFlow(d)
        /\ flows'[f].delivered /\ flows'[f].by = flows[f].by /\ flows[f].by # None
    BY <1>6, NoneAssumption DEF FlowDelivered
  <2>2. Cardinality(minted') = Cardinality(minted) + 1
    BY <1>6, MintedGrows
  <2>3. f < next /\ \A k \in minted : k.flow # f
    BY <1>1, <1>6 DEF DeliveredOnce, FlowDelivered, Types
  <2> HIDE DEF m
  <2>4. /\ \A k \in minted' : k.flow < next' /\ k.token < Cardinality(minted')
        /\ \A k, l \in minted' : k.flow = l.flow => k = l
    BY <1>1, <1>2, <2>1, <2>2, <2>3 DEF DeliveredOnce
  <2>5. \A d \in DOMAIN flows' :
          /\ flows'[d].delivered <=> \E k \in minted' : k.flow = d
          /\ flows'[d].delivered => flows'[d].by # None
    BY <2>1, <2>3 DEF DeliveredOnce, SameFlow
  <2>. QED
    BY <2>4, <2>5 DEF DeliveredOnce
<1>. QED
  BY <1>3, <1>4, <1>5, <1>6, StepsMoveFlows DEF FlowsMove

(* Only a flow that comes adds to those that wait, and it found room.      *)
LEMMA BoundNext == Types /\ BoundedFlows /\ [Next]_vars => BoundedFlows'
<1> SUFFICES ASSUME Types, BoundedFlows, [Next]_vars PROVE BoundedFlows'
  OBVIOUS
<1>1. IsFiniteSet(Undelivered(flows)) /\ Cardinality(Undelivered(flows)) \in Nat
  <2>1. IsFiniteSet(0..(next - 1))
    <3>1. next - 1 \in Int
      BY FlowBounds DEF Types
    <3>. QED
      BY <3>1, FS_Interval
  <2>2. Undelivered(flows) \subseteq 0..(next - 1)
    BY DEF Undelivered, Types
  <2>. QED
    BY <2>1, <2>2, FS_Subset, FS_CardinalityType
<1>2. ASSUME Undelivered(flows') \subseteq Undelivered(flows) PROVE BoundedFlows'
  <2>1. /\ Cardinality(Undelivered(flows')) <= Cardinality(Undelivered(flows))
        /\ IsFiniteSet(Undelivered(flows'))
    BY <1>1, <1>2, FS_Subset
  <2>2. Cardinality(Undelivered(flows')) \in Nat
    BY <2>1, FS_CardinalityType
  <2>. QED
    BY <1>1, <2>1, <2>2, FlowBounds DEF BoundedFlows
<1>3. CASE FlowsLapse
  BY <1>2, <1>3 DEF FlowsLapse, Undelivered, SameFlow
<1>4. ASSUME NEW f \in DOMAIN flows, FlowApproved(f) \/ FlowDelivered(f) PROVE BoundedFlows'
  BY <1>2, <1>4 DEF FlowApproved, FlowDelivered, Undelivered, SameFlow
<1>5. CASE FlowStarts
  <2> DEFINE U == Undelivered(flows')
  <2>1. U \ {next} \subseteq Undelivered(flows)
    BY <1>5 DEF FlowStarts, Undelivered, SameFlow
  <2>2. IsFiniteSet(U \ {next}) /\ Cardinality(U \ {next}) \in Nat
    BY <1>1, <2>1, FS_Subset, FS_CardinalityType
  <2>3. next \in U /\ Cardinality(U \ {next}) < MaxFlows
    BY <1>5 DEF FlowStarts, Undelivered
  <2> HIDE DEF U
  <2>4. U = (U \ {next}) \cup {next}
    BY <2>3
  <2>5. Cardinality(U) = Cardinality(U \ {next}) + 1
    BY <2>2, <2>4, FS_AddElement
  <2>. QED
    BY <2>2, <2>3, <2>5, FlowBounds DEF BoundedFlows, U
<1>. QED
  BY <1>3, <1>4, <1>5, StepsMoveFlows DEF FlowsMove

(* The invariant holds when no flow was started, ...                       *)
LEMMA InvInit == Init => Inv
<1> SUFFICES ASSUME Init PROVE Inv
  OBVIOUS
<1>1. DOMAIN flows = {} /\ DOMAIN tokens = {} /\ minted = {} /\ next = 0 /\ now = 0
  BY DEF Init
<1>2. IsFiniteSet(minted) /\ Cardinality(minted) = 0 /\ Undelivered(flows) = {}
  BY <1>1, FS_EmptySet DEF Undelivered
<1>3. Idle \in CallRecords /\ Idle.op = "idle" /\ Idle.time = 0
  BY DEF Idle, CallRecords, Operations
<1>4. Types
  BY <1>1, <1>2, <1>3, FlowBounds DEF Init, Types, GoodCall, Rows
<1>5. DeliveredOnce
  BY <1>1 DEF DeliveredOnce
<1>6. BoundedFlows
  BY <1>2, FS_EmptySet, FlowBounds DEF BoundedFlows
<1>. QED
  BY <1>4, <1>5, <1>6 DEF Inv

(* ... and always.                                                         *)
LEMMA Invariance == Spec => []Inv
<1>1. Inv /\ [Next]_vars => Inv'
  BY TypesNext, DeliveredNext, BoundNext DEF Inv
<1>. QED
  BY <1>1, InvInit, PTL DEF Spec

------------------------------------------------------------------------------
(* The theorems *)

(* Every variable has its type, and what is delivered was approved.        *)
THEOREM TypeCorrect == Spec => []TypeOK
<1>1. Inv => TypeOK
  <2> SUFFICES ASSUME Inv PROVE TypeOK
    OBVIOUS
  <2>1. next \in Nat /\ now \in Nat
    BY FlowBounds DEF Inv, Types
  <2>2. \A c \in Calls : /\ call[c].op \in {"idle", "start", "approve", "poll"}
                         /\ call[c].op \in {"approve", "poll"} => call[c].flow \in 0..(next - 1)
                         /\ call[c].time \in 0..now
    BY <2>1 DEF Inv, Types, GoodCall, CallRecords, Operations
  <2>3. \A m \in minted : m.flow \in 0..(next - 1) /\ m.to \in Principals
    <3> SUFFICES ASSUME NEW m \in minted PROVE m.flow \in 0..(next - 1) /\ m.to \in Principals
      OBVIOUS
    <3>1. m.flow \in Nat /\ m.to \in Principals /\ m.flow < next
      BY DEF Inv, Types, MintedRows, DeliveredOnce
    <3>. QED
      BY <2>1, <3>1
  <2>. QED
    BY <2>1, <2>2, <2>3 DEF Inv, Types, DeliveredOnce, TypeOK, Rows
<1>. QED
  BY <1>1, Invariance, PTL

(* However many calls start a flow at the same time, no more than MaxFlows *)
(* wait to be delivered.                                                   *)
THEOREM FlowsAreBounded == Spec => []BoundedFlows
<1>1. Inv => BoundedFlows
  BY DEF Inv
<1>. QED
  BY <1>1, Invariance, PTL

(* A principal's tokens are bounded, whichever flows they come from.       *)
THEOREM TokensAreBounded == Spec => []BoundedCredentials
<1>1. Init => Bounded(tokens)
  <2>1. Init => \A p \in Principals : Dynamic(tokens, p) = {}
    BY DEF Init, Dynamic
  <2>. QED
    BY <2>1, FS_EmptySet, MaxActiveAssumption DEF Bounded
<1>2. Inv /\ Bounded(tokens) /\ [Next]_vars => Bounded(tokens)'
  <2> SUFFICES ASSUME Inv, Bounded(tokens), [Next]_vars PROVE Bounded(tokens')
    OBVIOUS
  <2>1. Rows(tokens, Cardinality(minted)) /\ Cardinality(minted) \in Nat
    BY FS_CardinalityType DEF Inv, Types
  <2>2. CASE TokensShrink
    BY <2>1, <2>2, ShrinkingTokens
  <2>3. CASE FlowStarts
    BY <2>3 DEF FlowStarts
  <2>4. ASSUME NEW f \in DOMAIN flows, FlowApproved(f) PROVE Bounded(tokens')
    BY <2>4 DEF FlowApproved
  <2>5. ASSUME NEW f \in DOMAIN flows, FlowDelivered(f) PROVE Bounded(tokens')
    <3>1. PICK t \in Nat : tokens' = CreateCredential(tokens, Cardinality(minted), flows[f].by, t)
      BY <2>5 DEF FlowDelivered
    <3>2. flows[f].by \in Principals
      BY <2>5 DEF FlowDelivered
    <3>. QED
      BY <2>1, <3>1, <3>2, CreatedTable
  <2>. QED
    BY <2>2, <2>3, <2>4, <2>5, StepsMoveFlows DEF FlowsMove, Inv
<1>3. Bounded(tokens) => BoundedCredentials
  BY DEF Bounded, BoundedCredentials
<1>. QED
  BY <1>1, <1>2, <1>3, Invariance, PTL DEF Spec

------------------------------------------------------------------------------
(* Flows are one-time grants *)

(* What the grant of a flow is, by the place the flow is in.               *)
PlaceOf(f, g) ==
  \/ \E m \in minted : m.flow = f /\ g = Grant!Delivered(m.to, m.token)
  \/ /\ f \in DOMAIN flows /\ ~flows[f].delivered
     /\ \/ flows[f].by # None /\ g = Grant!Approved(flows[f].by)
        \/ flows[f].by = None /\ g = Grant!Untouched("pending")
  \/ /\ f \notin DOMAIN flows /\ g = Grant!Untouched(IF f < next THEN "lapsed" ELSE "none")
     /\ \A m \in minted : m.flow # f

(* The place of every flow gives the grant that GrantOf reads off the state. *)
PlacesAreGrants == \A f \in 0..(MaxStarted - 1) : \A g : PlaceOf(f, g) <=> g = GrantOf(f)

(* A flow is in one place at a time, and it is the one GrantOf names.      *)
LEMMA PlaceIsGrant == Inv => PlacesAreGrants
<1> SUFFICES ASSUME Inv, NEW f \in 0..(MaxStarted - 1), NEW g
             PROVE  PlaceOf(f, g) <=> g = GrantOf(f)
  BY DEF PlacesAreGrants
<1>1. f \in DOMAIN flows => (flows[f].delivered <=> \E m \in minted : m.flow = f)
  BY DEF Inv, DeliveredOnce
<1>2. ASSUME NEW m \in minted, m.flow = f
      PROVE  GrantOf(f) = Grant!Delivered(m.to, m.token)
  <2>1. MintedFor(f) = {m}
    BY <1>2 DEF MintedFor, Inv, DeliveredOnce
  <2>2. (CHOOSE n \in MintedFor(f) : TRUE) = m /\ {n.token : n \in MintedFor(f)} = {m.token}
    BY <2>1
  <2>. QED
    BY <2>1, <2>2 DEF GrantOf, Grant!Delivered
<1>3. ASSUME \A m \in minted : m.flow # f
      PROVE  GrantOf(f) = IF f \notin DOMAIN flows
                          THEN Grant!Untouched(IF f < next THEN "lapsed" ELSE "none")
                          ELSE IF flows[f].by = None THEN Grant!Untouched("pending")
                          ELSE Grant!Approved(flows[f].by)
  <2>1. MintedFor(f) = {}
    BY <1>3 DEF MintedFor
  <2>. QED
    BY <2>1 DEF GrantOf, Grant!Untouched, Grant!Approved
<1>4. CASE \E m \in minted : m.flow = f
  BY <1>1, <1>2, <1>4 DEF PlaceOf
<1>5. CASE \A m \in minted : m.flow # f
  BY <1>1, <1>3, <1>5 DEF PlaceOf
<1>. QED
  BY <1>4, <1>5

(* As every flow is delivered once, their number bounds that of tokens.    *)
LEMMA TokensAreFew ==
  ASSUME Inv, NEW f \in DOMAIN flows, ~flows[f].delivered
  PROVE  Cardinality(minted) \in 0..(MaxStarted - 1)
<1> DEFINE others == 0..(next - 1) \ {f}
           by == [m \in minted |-> m.flow]
<1>1. IsFiniteSet(minted) /\ next \in Nat /\ f \in 0..(next - 1) /\ next <= MaxStarted
      /\ MaxStarted \in Nat
  BY FlowBounds DEF Inv, Types
<1>2. IsFiniteSet(others) /\ Cardinality(others) = next - 1
  <2>1. PICK S : S = 0..(next - 1)
    OBVIOUS
  <2>2. IsFiniteSet(S) /\ Cardinality(S) = next /\ f \in S
    BY <1>1, <2>1, FS_Interval
  <2>3. IsFiniteSet(S \ {f}) /\ Cardinality(S \ {f}) = next - 1
    BY <2>2, FS_RemoveElement
  <2>. QED
    BY <2>1, <2>3
<1>3. by \in Injection(minted, others)
  <2>1. ASSUME NEW m \in minted PROVE m.flow \in others
    <3>1. m.flow \in Nat /\ m.flow < next /\ m.flow # f
      BY DEF Inv, Types, MintedRows, DeliveredOnce
    <3>. QED
      BY <1>1, <3>1
  <2>2. \A m, n \in minted : m.flow = n.flow => m = n
    BY DEF Inv, DeliveredOnce
  <2>. QED
    BY <2>1, <2>2 DEF Injection, IsInjective
<1> HIDE DEF others, by
<1>4. Cardinality(minted) <= Cardinality(others) /\ Cardinality(minted) \in Nat
  BY <1>1, <1>2, <1>3, FS_Injection, FS_CardinalityType
<1>. QED
  BY <1>1, <1>2, <1>4

(* A grant moves on, or stays.                                             *)
Moves(g, h) ==
  \/ g = Grant!Untouched("none") /\ h = Grant!Untouched("pending")
  \/ g = Grant!Untouched("pending") /\ \E p \in Principals : h = Grant!Approved(p)
  \/ \E p : /\ g = Grant!Approved(p)
            /\ \/ h = Grant!Untouched("lapsed")
               \/ \E k \in 0..(MaxStarted - 1) : h = Grant!Delivered(p, k)
  \/ g = Grant!Untouched("pending") /\ h = Grant!Untouched("lapsed")
  \/ h = g

(* A flow that goes lapses, unless it was delivered.                       *)
LEMMA FlowGoes ==
  ASSUME Inv, Inv', next <= next', UNCHANGED minted, NEW f \in DOMAIN flows, f \notin DOMAIN flows',
         NEW g, PlaceOf(f, g)
  PROVE  \E h : PlaceOf(f, h)' /\ Moves(g, h)
<1>1. next \in Nat /\ next' \in Nat /\ f \in Nat /\ f < next'
  BY FlowBounds DEF Inv, Types
<1>2. CASE \E m \in minted : m.flow = f
  <2>1. ~(~flows[f].delivered)
    BY <1>2 DEF Inv, DeliveredOnce
  <2>2. PlaceOf(f, g)'
    BY <2>1 DEF PlaceOf
  <2>. QED
    BY <2>2 DEF Moves
<1>3. CASE \A m \in minted : m.flow # f
  <2>1. \/ g = Grant!Untouched("pending")
        \/ g = Grant!Approved(flows[f].by)
    BY <1>3 DEF PlaceOf
  <2>2. PlaceOf(f, Grant!Untouched("lapsed"))'
    BY <1>1, <1>3 DEF PlaceOf
  <2>. QED
    BY <2>1, <2>2 DEF Moves
<1>. QED
  BY <1>2, <1>3

(* One that stays as it is keeps its grant.                                *)
LEMMA FlowStays ==
  ASSUME UNCHANGED minted, NEW f,
         f \in DOMAIN flows <=> f \in DOMAIN flows',
         f \in DOMAIN flows => SameFlow(f),
         f < next <=> f < next',
         NEW g, PlaceOf(f, g)
  PROVE  \E h : PlaceOf(f, h)' /\ Moves(g, h)
<1>1. PlaceOf(f, g)'
  BY DEF PlaceOf, SameFlow
<1>. QED
  BY <1>1 DEF Moves

(* Every step moves grants as OneTimeGrant allows.                         *)
LEMMA StepMovesGrant ==
  ASSUME Inv, Inv', [Next]_vars, NEW f \in 0..(MaxStarted - 1), NEW g, PlaceOf(f, g)
  PROVE  \E h : PlaceOf(f, h)' /\ Moves(g, h)
<1>1. next \in Nat /\ MaxStarted \in Nat /\ (\A x \in DOMAIN flows : x < next /\ x \in Nat)
      /\ \A m \in minted : m.flow < next
  BY FlowBounds DEF Inv, Types, DeliveredOnce
<1>2. CASE FlowsLapse
  <2>1. UNCHANGED <<next, minted>> /\ next <= next'
    BY <1>1, <1>2 DEF FlowsLapse
  <2>2. CASE f \in DOMAIN flows /\ f \notin DOMAIN flows'
    BY <2>1, <2>2, FlowGoes
  <2>3. CASE f \in DOMAIN flows' \/ f \notin DOMAIN flows
    <3>1. (f \in DOMAIN flows <=> f \in DOMAIN flows') /\ (f \in DOMAIN flows => SameFlow(f))
      BY <1>2, <2>3 DEF FlowsLapse
    <3>. QED
      BY <2>1, <3>1, FlowStays
  <2>. QED
    BY <2>2, <2>3
<1>3. CASE FlowStarts
  <2>1. UNCHANGED minted /\ next' = next + 1 /\ next <= next'
        /\ DOMAIN flows' \subseteq DOMAIN flows \cup {next}
    BY <1>1, <1>3 DEF FlowStarts
  <2>2. CASE f = next
    <3>1. g = Grant!Untouched("none")
      BY <1>1, <2>2 DEF PlaceOf
    <3>2. next \in DOMAIN flows' /\ flows'[next].by = None /\ ~flows'[next].delivered
      BY <1>3 DEF FlowStarts
    <3>3. PlaceOf(f, Grant!Untouched("pending"))'
      BY <2>2, <3>2 DEF PlaceOf
    <3>. QED
      BY <3>1, <3>3 DEF Moves
  <2>3. CASE f \in DOMAIN flows /\ f \notin DOMAIN flows'
    BY <2>1, <2>3, FlowGoes
  <2>4. CASE f # next /\ (f \in DOMAIN flows' \/ f \notin DOMAIN flows)
    <3>1. f \in DOMAIN flows <=> f \in DOMAIN flows'
      BY <2>1, <2>4
    <3>2. f \in DOMAIN flows => SameFlow(f)
      BY <1>3, <2>4, <3>1 DEF FlowStarts
    <3>3. f < next <=> f < next'
      BY <1>1, <2>1, <2>4
    <3>. QED
      BY <2>1, <3>1, <3>2, <3>3, FlowStays
  <2>. QED
    BY <2>2, <2>3, <2>4
<1>4. ASSUME NEW d \in DOMAIN flows, FlowApproved(d) PROVE \E h : PlaceOf(f, h)' /\ Moves(g, h)
  <2>1. UNCHANGED <<next, minted>> /\ DOMAIN flows' = DOMAIN flows
    BY <1>4 DEF FlowApproved
  <2>2. CASE f = d
    <3>1. PICK p \in Principals : p = flows'[d].by
      BY <1>4 DEF FlowApproved
    <3>2. flows[d].by = None /\ ~flows[d].delivered /\ ~flows'[d].delivered /\ p # None
      BY <1>4, NoneAssumption DEF FlowApproved
    <3>3. g = Grant!Untouched("pending")
      BY <2>2, <3>2 DEF PlaceOf, Inv, DeliveredOnce
    <3>4. PlaceOf(f, Grant!Approved(p))'
      BY <2>1, <2>2, <3>1, <3>2 DEF PlaceOf
    <3>. QED
      BY <3>3, <3>4 DEF Moves
  <2>3. CASE f # d
    <3>1. f \in DOMAIN flows => SameFlow(f)
      BY <1>4, <2>3 DEF FlowApproved
    <3>. QED
      BY <2>1, <3>1, FlowStays
  <2>. QED
    BY <2>2, <2>3
<1>5. ASSUME NEW d \in DOMAIN flows, FlowDelivered(d) PROVE \E h : PlaceOf(f, h)' /\ Moves(g, h)
  <2> DEFINE m == [flow |-> d, to |-> flows[d].by, token |-> Cardinality(minted)]
  <2>1. /\ UNCHANGED next /\ DOMAIN flows' = DOMAIN flows /\ minted' = minted \cup {m}
        /\ m.flow = d /\ m.to = flows[d].by /\ flows[d].by # None /\ ~flows[d].delivered
    BY <1>5, NoneAssumption DEF FlowDelivered
  <2>2. m.token \in 0..(MaxStarted - 1)
    BY <2>1, TokensAreFew
  <2> HIDE DEF m
  <2>3. CASE f = d
    <3>1. PICK n, p, k : n = m /\ p = m.to /\ k = m.token
      OBVIOUS
    <3>2. g = Grant!Approved(p)
      BY <2>1, <2>3, <3>1 DEF PlaceOf, Inv, DeliveredOnce
    <3>3. PlaceOf(f, Grant!Delivered(p, k))'
      BY <2>1, <2>3, <3>1 DEF PlaceOf
    <3>. QED
      BY <2>2, <3>1, <3>2, <3>3 DEF Moves
  <2>4. CASE f # d
    <3>1. f \in DOMAIN flows => SameFlow(f)
      BY <1>5, <2>4 DEF FlowDelivered
    <3>2. PlaceOf(f, g)'
      BY <2>1, <2>4, <3>1 DEF PlaceOf, SameFlow
    <3>. QED
      BY <3>2 DEF Moves
  <2>. QED
    BY <2>3, <2>4
<1>. QED
  BY <1>2, <1>3, <1>4, <1>5, StepsMoveFlows DEF FlowsMove, Inv

(* Every device flow is a one-time grant: approvals and polls may race, be *)
(* repeated and come late, yet a flow is approved once, and one token      *)
(* comes of it, for the approver.                                          *)
THEOREM FlowsImplementGrants == Spec => FlowsAreOneTimeGrants
<1>1. Init => Grant!Init
  <2> SUFFICES ASSUME Init, NEW f \in 0..(MaxStarted - 1)
               PROVE  GrantOf(f) = Grant!Untouched("none")
    BY DEF Grant!Init
  <2>1. ~(f < 0)
    BY FlowBounds
  <2>2. MintedFor(f) = {} /\ DOMAIN flows = {} /\ next = 0
    BY DEF Init, MintedFor
  <2>. QED
    BY <2>1, <2>2 DEF GrantOf, Grant!Untouched
<1>2. Inv /\ Inv' /\ PlacesAreGrants /\ PlacesAreGrants' /\ [Next]_vars => Grant!Next
  <2> SUFFICES ASSUME Inv, Inv', PlacesAreGrants, PlacesAreGrants', [Next]_vars,
                      NEW f \in 0..(MaxStarted - 1)
               PROVE  \/ Grant!Ask(f) \/ Grant!Approve(f) \/ Grant!Deliver(f)
                      \/ Grant!Lapse(f) \/ Grant!Keep(f)
    BY DEF Grant!Next
  <2>1. PICK g : g = GrantOf(f)
    OBVIOUS
  <2>2. PlaceOf(f, g)
    BY <2>1 DEF PlacesAreGrants
  <2>3. PICK h : PlaceOf(f, h)' /\ Moves(g, h)
    BY <2>2, StepMovesGrant
  <2>4. h = GrantOf(f)'
    BY <2>3 DEF PlacesAreGrants
  <2>. QED
    BY <2>1, <2>3, <2>4
       DEF Moves, Grant!Ask, Grant!Approve, Grant!Deliver, Grant!Lapse, Grant!Keep,
           Grant!Untouched, Grant!Approved, Grant!Delivered
<1>. QED
  BY <1>1, <1>2, Invariance, PlaceIsGrant, PTL DEF Spec, FlowsAreOneTimeGrants, Grant!Spec
==============================================================================
