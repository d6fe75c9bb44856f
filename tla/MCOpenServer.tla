----------------------------- MODULE MCOpenServer -----------------------------
(* OpenServer with two threads and four configurations.                    *)
EXTENDS OpenServer, TLC

CONSTANTS na, nb, no, np, nw, k1, k2, k3, t1, u1, u2, r1, r2

MCThreads == {r1, r2}
MCOneThread == {r1}
MCSymmetry == Permutations(MCThreads)
MCUploadPaths == {u1, u2}
MCTokens == {t1}

Upload(type, name, content, expires) ==
  [type |-> type, name |-> name, content |-> content, expires |-> expires]

MCUploads ==
  {Upload("file", na, k1, TRUE), Upload("file", na, k2, FALSE),
   Upload("remote_file", nb, k2, FALSE)}

MCManyTypes ==
  {Upload("oneshot", no, k2, TRUE), Upload("protected_file", np, k3, FALSE),
   Upload("url", nw, k1, FALSE)}

MCStart ==
  [auth |-> FALSE, upload_path |-> u1, auth_tokens |-> {}, delete_tokens |-> {},
   duplicate_files |-> FALSE, max_upload_dir_size |-> 2, cleanup |-> FALSE]

MCConfigs ==
  {MCStart,
   [MCStart EXCEPT !.cleanup = TRUE, !.delete_tokens = {t1}],
   [MCStart EXCEPT !.cleanup = TRUE, !.upload_path = u2, !.max_upload_dir_size = 1],
   [MCStart EXCEPT !.auth = TRUE, !.cleanup = TRUE]}
==============================================================================
