----------------------------- MODULE LocalSource -----------------------------
(***************************************************************************)
(* A directory on disk as a git source (LocalDirectoryProvider): it has no *)
(* history, its head is the digest of its manifest, and it may be written  *)
(* while a synchronisation scans, compares and reads it.  A content and    *)
(* its sha256 (the blob id) are the same value here; a stamp is the size   *)
(* and modification time the provider trusts a cached digest by.           *)
(***************************************************************************)
EXTENDS Integers, Sequences, FiniteSets

CONSTANTS DiskPaths,  \* the files of the directory, in the order of the walk
          Blobs, Absent,
          Stamps,     \* sizes and modification times
          MaxWrites,  \* bound: writes to the directory
          NoRun

VARIABLES
    disk,       \* [path -> [blob, stamp]]
    local,      \* the run with its provider, or NoRun
    stored,     \* the portal's record of each file: [status, blob, content]
    lastHead,   \* the last synchronised head
    writes

localVars == <<disk, local, stored, lastHead, writes>>

PathsOf == {DiskPaths[i] : i \in DOMAIN DiskPaths}
Unhashed == [stamp |-> 0, blob |-> Absent]

LocalInit ==
    /\ disk = [p \in PathsOf |-> [blob |-> Absent, stamp |-> 0]]
    /\ local = NoRun
    /\ stored = [p \in PathsOf |-> [status |-> "none", blob |-> Absent, content |-> Absent]]
    /\ lastHead = Absent /\ writes = 0

\* Someone writes or removes a file.  Two writes of one size within a tick of
\* the clock leave the same stamp.
Write(p, blob, stamp) ==
    /\ writes < MaxWrites /\ writes' = writes + 1
    /\ blob # disk[p].blob
    /\ disk' = [disk EXCEPT ![p] = [blob |-> blob, stamp |-> stamp]]
    /\ local' = IF local = NoRun THEN local ELSE [local EXCEPT !.quiet = FALSE]
    /\ UNCHANGED <<stored, lastHead>>

\* __init__: each run builds a provider, which has hashed nothing yet.
FreshCache == [p \in PathsOf |-> Unhashed]

StartRun ==
    /\ local = NoRun
    /\ local' = [pc |-> "scan", cache |-> FreshCache, next |-> 1, found |-> [p \in PathsOf |-> Absent],
                 head |-> Absent, snapshots |-> {}, todo |-> {}, quiet |-> TRUE]
    /\ UNCHANGED <<disk, stored, lastHead, writes>>

\* _hash: the cached digest while the stamp is the same.
HashOf(p) ==
    IF local.cache[p].stamp = disk[p].stamp /\ local.cache[p].blob # Absent
    THEN local.cache[p].blob ELSE disk[p].blob

\* _scan and _add, a file at a time: an absent one is left out, and forgotten.
ScanFile ==
    /\ local # NoRun /\ local.pc \in {"scan", "rescan"} /\ local.next \in DOMAIN DiskPaths
    /\ LET p == DiskPaths[local.next]
           blob == IF disk[p].blob = Absent THEN Absent ELSE HashOf(p)
       IN  local' = [local EXCEPT !.next = @ + 1, !.found[p] = blob,
                       !.cache[p] = IF blob = Absent THEN Unhashed
                                    ELSE [stamp |-> disk[p].stamp, blob |-> blob]]
    /\ UNCHANGED <<disk, stored, lastHead, writes>>

\* The files to read: those whose blob is not the one recorded, those that failed
\* before, those gone.
Candidates(tree) == {p \in PathsOf : tree[p] # stored[p].blob \/ stored[p].status = "error"}

\* resolve_head: the manifest is its own head, and is remembered.
EndScan ==
    /\ local # NoRun /\ local.pc = "scan" /\ local.next > Len(DiskPaths)
    /\ local' = [local EXCEPT !.head = local.found, !.snapshots = @ \cup {local.found},
                   !.next = 1,
                   !.pc = IF lastHead \in {Absent, local.found} THEN "read" ELSE "rescan",
                   !.todo = IF lastHead \in {Absent, local.found} THEN Candidates(local.found) ELSE {}]
    /\ UNCHANGED <<disk, stored, lastHead, writes>>

\* diff(lastHead, head): the older snapshot is not remembered, so the directory
\* is scanned again (_manifest_for); unless it is back at it, the comparison is
\* refused and the tree of the head, which is remembered, is compared instead.
EndRescan ==
    /\ local # NoRun /\ local.pc = "rescan" /\ local.next > Len(DiskPaths)
    /\ local' = [local EXCEPT !.pc = "read", !.snapshots = @ \cup {local.found},
                   !.todo = IF local.found = lastHead
                            THEN {p \in PathsOf : lastHead[p] # local.head[p] \/ stored[p].status = "error"}
                            ELSE Candidates(local.head)]
    /\ UNCHANGED <<disk, stored, lastHead, writes>>

\* _read_verified: the content must be the blob that was listed.
Verified(p) == disk[p].blob = local.head[p]

\* A file: gone from the listing, read, or failed; a failed one keeps its record.
ReadFile(p) ==
    /\ local # NoRun /\ local.pc = "read" /\ p \in local.todo
    /\ stored' = [stored EXCEPT ![p] =
          IF local.head[p] = Absent THEN [status |-> "deleted", blob |-> Absent, content |-> Absent]
          ELSE IF Verified(p) THEN [status |-> "ok", blob |-> local.head[p], content |-> disk[p].blob]
          ELSE [@ EXCEPT !.status = "error"]]
    /\ local' = [local EXCEPT !.todo = @ \ {p}]
    /\ UNCHANGED <<disk, lastHead, writes>>

Finish ==
    /\ local # NoRun /\ local.pc = "read" /\ local.todo = {}
    /\ lastHead' = local.head
    /\ local' = [local EXCEPT !.pc = "finished"]
    /\ UNCHANGED <<disk, stored, writes>>

EndRun == local # NoRun /\ local.pc = "finished" /\ local' = NoRun /\ UNCHANGED <<disk, stored, lastHead, writes>>

LocalNext ==
    \/ \E p \in PathsOf :
          \/ \E blob \in Blobs, stamp \in Stamps : Write(p, blob, stamp)
          \/ Write(p, Absent, 0)
          \/ ReadFile(p)
    \/ StartRun \/ ScanFile \/ EndScan \/ EndRescan \/ Finish \/ EndRun

-----------------------------------------------------------------------------
(* Properties.                                                             *)

\* A file's record never names one blob and holds another, though the directory
\* is written between the listing and the read.
ContentIsItsBlob == \A p \in PathsOf : stored[p].content = stored[p].blob

\* A run during which nothing was written leaves the portal with the directory's
\* files, whatever earlier runs saw half written, failed to read or took for
\* unchanged by their stamps.
QuietRunSees ==
    local # NoRun /\ local.pc = "finished" /\ local.quiet =>
        \A p \in PathsOf : stored[p].content = disk[p].blob
=============================================================================
