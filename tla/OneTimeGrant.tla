---------------------------- MODULE OneTimeGrant ------------------------------
(***************************************************************************)
(* What a login flow promises: a grant is asked for, at most one principal *)
(* approves it, and after that at most one token is handed out, to that    *)
(* principal.  Until then it may lapse.  Several grants may move at once.  *)
(***************************************************************************)
CONSTANTS Grants, Principals, Tokens, None

VARIABLE grant

Untouched(state) == [state |-> state, to |-> None, tokens |-> {}]
Approved(p) == [state |-> "approved", to |-> p, tokens |-> {}]
Delivered(p, k) == [state |-> "delivered", to |-> p, tokens |-> {k}]

Init == grant = [g \in Grants |-> Untouched("none")]

(* The life of one grant                                                   *)
Ask(g) == grant[g].state = "none" /\ grant'[g] = Untouched("pending")
Approve(g) == grant[g].state = "pending" /\ \E p \in Principals : grant'[g] = Approved(p)
Deliver(g) ==
  grant[g].state = "approved" /\ \E k \in Tokens : grant'[g] = Delivered(grant[g].to, k)
Lapse(g) == grant[g].state \in {"pending", "approved"} /\ grant'[g] = Untouched("lapsed")
Keep(g) == grant'[g] = grant[g]

Next ==
  /\ DOMAIN grant' = Grants
  /\ \A g \in Grants : Ask(g) \/ Approve(g) \/ Deliver(g) \/ Lapse(g) \/ Keep(g)

Spec == Init /\ [][Next]_grant
==============================================================================
