---------------------------- MODULE MCCredentials ----------------------------
(* Credentials, with a token that may move from one principal to another.  *)
EXTENDS Credentials, TLC

CONSTANTS p1, p2, s1, r1, r2

MCPrincipals == {p1, p2}
MCStaticTokens == {s1}
MCRequests == {r1, r2}
MCSymmetry == Permutations(MCRequests)

(* s1 belongs to p1, later to p2 or to nobody.                             *)
MCConfigs == {[s \in {} |-> p1], [s \in {s1} |-> p1], [s \in {s1} |-> p2]}
==============================================================================
