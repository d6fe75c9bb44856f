---------------------------- MODULE MCPasteStore -----------------------------
(***************************************************************************)
(* PasteStore on small instances: two owners, files and URLs, and a clock  *)
(* of three seconds of two ticks.                                          *)
(***************************************************************************)
EXTENDS PasteStore

CONSTANTS a, alice, bob

MCParts == {a, 3, 6}
MCNumericParts == {3, 6}
MCCleanNames == {<<a>>}
MCFile == {"file"}
MCScans == {{}} \cup {{p, q} : p, q \in Paths}
MCTypes == {"file", "url"}
MCOwners == {alice, bob}
MCHashes == {"h"}
==============================================================================
