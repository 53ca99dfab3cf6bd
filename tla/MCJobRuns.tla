----------------------------- MODULE MCJobRuns -----------------------------
(***************************************************************************)
(* Small instances of JobRuns for TLC.                                     *)
(***************************************************************************)
EXTENDS JobRuns, TLC

CONSTANTS r1, r2, t1, t2, k1

\* Two runs of one target; one run of each of two targets.
TwoTargetOf == (r1 :> t1) @@ (r2 :> t1)

\* Two targets whose crc32 values collide share a key.
SharedKey == (t1 :> k1) @@ (t2 :> k1)
OneKey == t1 :> k1

OneRunEach == (r1 :> t1) @@ (r2 :> t2)

ExecutorSymmetry == Permutations(Executors)
=============================================================================
