---------------------------- MODULE MCBrowserLogin ----------------------------
(* BrowserLogin with two people, two browsers, and two calls at once.       *)
EXTENDS BrowserLogin, TLC

CONSTANTS p1, p2, b1, b2, c1, c2

MCPrincipals == {p1, p2}
MCBrowsers == {b1, b2}
MCCalls == {c1, c2}
MCSymmetry ==
  Permutations(MCPrincipals) \cup Permutations(MCBrowsers) \cup Permutations(MCCalls)
==============================================================================
