--------------------------- MODULE MCAuditArchive ---------------------------
(* A portal and the one that replaces it, with the processes that publish   *)
(* their heads.                                                             *)
EXTENDS AuditArchive

CONSTANTS p1, p2

MCDatabases == {1, 2}
MCPublishers == {p1, p2}
MCServes == [p \in MCPublishers |-> IF p = p2 THEN 2 ELSE 1]
=============================================================================
