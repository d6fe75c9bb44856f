----------------------------- MODULE MCDeviceFlow -----------------------------
(* DeviceFlow with two people, who may both approve, and two calls at once. *)
EXTENDS DeviceFlow, TLC

CONSTANTS p1, p2, c1, c2

MCPrincipals == {p1, p2}
MCCalls == {c1, c2}
MCSymmetry == Permutations(MCPrincipals) \cup Permutations(MCCalls)
==============================================================================
