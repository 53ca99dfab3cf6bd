----------------------------- MODULE MCGitSync -----------------------------
(* GitSync for TLC: two paths, under mappings that read both as datasets or  *)
(* only the second, as content.                                              *)
EXTENDS GitSync, TLC

CONSTANTS f1, f2, b1, b2, b3

MCMappings == {f1 :> "dataset" @@ f2 :> "dataset", f1 :> Unmapped @@ f2 :> "content"}
MCRank == f1 :> 1 @@ f2 :> 2
MCHolds == f1 :> {b1, b2} @@ f2 :> {b1, b2, b3}

\* What f2 may hold refers to what f1 may list; read as content it is rejected.
MCNeeds == b1 :> {} @@ b2 :> {} @@ b3 :> {b1}
MCFlawed == {<<"content", b3>>}
=============================================================================
