---------------------------- MODULE MCPasteServer ----------------------------
(***************************************************************************)
(* PasteServer on small instances.  The clock starts at the first stamp.   *)
(***************************************************************************)
EXTENDS PasteServer, TLC

CONSTANTS a, b, c, alice, bob

MCParts == {a, b, c, PasswordExt} \cup 2..4
MCNumericParts == 2..4
MCOneStamp == {4}
MCOneStampParts == {a, b, c, PasswordExt, 4}
MCOneName == {<<a>>}
MCTwoNames == {<<a>>, <<b>>}
MCThreeNames == {<<a>>, <<b>>, <<c>>}
MCNamesAndSidecars == MCTwoNames \cup {Append(n, PasswordExt) : n \in MCTwoNames}
MCOneOwner == {alice}
MCFile == {"file"}
MCProtected == {"protected_file"}
MCOwners == {alice, bob}
MCHashes == {"h"}
MCTwoHashes == {"h", PasswordExt}
MCNoAdmins == {}
MCAdmin == {bob}
MCNoServe == {"upload", "delete"}
MCOps == {"upload", "serve", "delete"}
MCNoStamps == {}
MCPlainParts == {a, b, c, PasswordExt}
MCOneshotProtected == {"oneshot", "protected_file"}
MCManyTypes == {"file", "remote_file", "url", "oneshot", "protected_file"}
MCPairSymmetry == Permutations({a, b})
MCNameAndOwnerSymmetry == Permutations({a, b, c}) \cup Permutations(MCOwners)
==============================================================================
