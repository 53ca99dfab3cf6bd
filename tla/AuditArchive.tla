---------------------------- MODULE AuditArchive ----------------------------
(***************************************************************************)
(* Cutover to a new database (app/services/audit_archive.py): the audit    *)
(* log of the old one is archived, its last head published, a manifest     *)
(* written once, and the new log anchored to it.  An auditor verifies a    *)
(* database, or the archived dump (audit_archive_dump.py), against the     *)
(* heads and the manifests.  The portals and their publishers go on        *)
(* meanwhile: AuditWitness.                                                *)
(***************************************************************************)
EXTENDS AuditWitness

CONSTANTS Retired,   \* the databases that are archived
          Names      \* the names operators give archives

ASSUME ArchiveAssumption == Retired \subseteq Databases

VARIABLES
    archiving,   \* audit-archive-manifest: how far the command is, and what it read
    manifests    \* archives/<chain>/<name>.manifest.json, with the dump archived

avars == <<archiving, manifests>>
vars == <<wvars, avars>>

NoSource == [name |-> "none"]
NotArchiving == [step |-> "idle", db |-> 1, head |-> NoHead, stamp |-> 0,
                 source |-> NoSource]

IsAnchor(row) == "manifest" \in DOMAIN row
Anchored(rows) == rows # <<>> /\ IsAnchor(rows[1])

Init ==
    /\ WInit
    /\ archiving = NotArchiving /\ manifests = {}

-----------------------------------------------------------------------------
(* Archiving.  Writers should have stopped; the command does not rely on it *)

\* The chain is verified, and the final row and the source anchor read.
ReadChain(d) ==
    /\ archiving.step = "idle" /\ log[d] # <<>>
    /\ archiving' = [step |-> "verified", db |-> d, head |-> log[d], stamp |-> 1,
                     source |-> IF Anchored(log[d]) THEN log[d][1].manifest ELSE NoSource]
    /\ UNCHANGED <<wvars, manifests>>

\* The head is read again, and must not have moved; the dump is uploaded.
Compare ==
    /\ archiving.step = "verified"
    /\ archiving' = IF log[archiving.db] = archiving.head
                    THEN [archiving EXCEPT !.step = "uploaded"] ELSE NotArchiving
    /\ UNCHANGED <<wvars, manifests>>

\* publish_head for the archived chain, armed or not, recorded nowhere.
PublishFinal ==
    /\ archiving.step = "uploaded" /\ Attempts(archiving) # {}
    /\ objects' = PutOnce(Target(archiving))
    /\ archiving' = [archiving EXCEPT !.step = "published"]
    /\ UNCHANGED <<bases, pub, remembered, manifests>>

Manifest(name, dump) ==
    [name |-> name, chain |-> Chain(archiving.head), final |-> archiving.head,
     dump |-> dump, source |-> archiving.source]

Taken(chain, name) == \E m \in manifests : m.chain = chain /\ m.name = name

\* The manifest is written once, under a key that is free.  It pins a dump
\* the operator made at some point before.
WriteManifest(name) ==
    /\ archiving.step = "published" /\ ~Taken(Chain(archiving.head), name)
    /\ \E n \in 1..Len(archiving.head) :
          manifests' = manifests \cup {Manifest(name, SubSeq(archiving.head, 1, n))}
    /\ archiving' = NotArchiving
    /\ UNCHANGED wvars

\* The command fails, or is given up, at any step.
Abandon ==
    /\ archiving.step # "idle"
    /\ archiving' = NotArchiving
    /\ UNCHANGED <<wvars, manifests>>

-----------------------------------------------------------------------------
(* Verifying an anchor.                                                    *)

\* _check_final_head: published, not differing, and nothing published later.
FinalHeadStands(m, scan) ==
    LET of == ChainHeads(scan, m.chain)
    IN  /\ \E o \in of : o.head = m.final
        /\ \A o \in of : o.id <= Len(m.final) /\ (o.id = Len(m.final) => o.head = m.final)

MaxLineage == 16   \* MAX_LINEAGE

\* The manifests an anchor rests on: its own, and with each one its source,
\* as far as they are there.
Descends(m, set) ==
    /\ m \in set
    /\ \A g \in set : g.source \in manifests => g.source \in set

Lineage(m) ==
    LET all == manifests \cup {m}
    IN  {g \in all : \A set \in SUBSET all : Descends(m, set) => g \in set}

AnchorHolds(m, scan) ==
    /\ Cardinality(Lineage(m)) <= MaxLineage
    /\ \A g \in Lineage(m) :
          /\ g \in manifests /\ g.source \in manifests \cup {NoSource}
          /\ FinalHeadStands(g, scan)

\* anchor_from_manifest: the anchor and the arming, in one transaction.
Anchor(d, m) ==
    /\ log[d] = <<>> /\ AnchorHolds(m, Stored)
    /\ log' = [log EXCEPT ![d] = <<[manifest |-> m], Row(d)>>]
    /\ armed' = [armed EXCEPT ![d] = TRUE]
    /\ UNCHANGED <<restores, objects, pub, remembered, avars>>

Next ==
    \/ WNext /\ UNCHANGED avars
    \/ \E d \in Retired : ReadChain(d)
    \/ \E d \in Databases, m \in manifests : Anchor(d, m)
    \/ Compare \/ PublishFinal \/ (\E name \in Names : WriteManifest(name)) \/ Abandon

Spec == Init /\ [][Next]_vars

-----------------------------------------------------------------------------
(* The verdict of a verification that reads the database now, with the     *)
(* heads it loaded at some time before; access is whether it may read the  *)
(* manifests.                                                              *)

Scans == {ToSet(SubSeq(objects, 1, n)) : n \in 0..Len(objects)}

AnchorStatus(d, scan, access) ==
    IF ~Anchored(log[d]) THEN "none"
    ELSE IF ~access THEN "unverified"
    ELSE IF AnchorHolds(log[d][1].manifest, scan) THEN "verified" ELSE "failed"

\* A chain that a verified manifest continues at its last published head.
Continued(d, chain, scan) ==
    \E m \in Lineage(log[d][1].manifest) :
        m.chain = chain /\ m.final = LastHead(scan, chain).head

\* resolve_foreign_chains
Resolve(d, chain, scan, access) ==
    CASE AnchorStatus(d, scan, access) = "verified" /\ Continued(d, chain, scan) -> "continued"
      [] AnchorStatus(d, scan, access) = "unverified"
         /\ log[d][1].manifest.final = LastHead(scan, chain).head -> "unverified"
      [] OTHER -> "replaced"

Foreign(d, scan, access) == {Resolve(d, c, scan, access) : c \in ForeignChains(d, scan)}

Verdict(d, scan, access) ==
    IF log[d] = <<>> THEN "empty"
    ELSE IF \/ Mismatches(d, scan) # {} \/ NoneOfOurs(d, scan)
            \/ "replaced" \in Foreign(d, scan, access)
            \/ AnchorStatus(d, scan, access) = "failed" THEN "broken"
    ELSE IF AnchorStatus(d, scan, access) = "unverified" THEN "unverified" ELSE "valid"

\* verify_archive_dump: the dump against its manifest and its own chain's heads.
DumpHolds(m) ==
    LET scan == ChainHeads(Stored, m.chain)
    IN  /\ m.dump = m.final
        /\ scan # {} /\ \A o \in scan : IsPrefix(o.head, m.dump)
        /\ Anchored(m.dump) => AnchorHolds(m.dump[1].manifest, scan)

-----------------------------------------------------------------------------
(* Properties.                                                             *)

\* The rows that stand: those of the log, and those of the archived logs it
\* continues.
Stands(d, head) ==
    \/ IsPrefix(head, log[d])
    \/ Anchored(log[d]) /\ \E m \in Lineage(log[d][1].manifest) : IsPrefix(head, m.final)

\* A published row that a restore or a replaced log lost is found: by every
\* verification of the database that has the bucket, or, once the log it was
\* lost from is archived, by the verification of the archive's dump.
LossFound ==
    \A d \in Databases, heads \in Scans :
        log[d] # <<>> /\ (\E o \in heads : ~Stands(d, o.head)) =>
            \/ Verdict(d, heads, TRUE) = "broken"
            \/ Anchored(log[d]) /\ \E m \in Lineage(log[d][1].manifest) : ~DumpHolds(m)

\* The chains of the heads are the log's own or the one its anchor names: what
\* a verification that may not read the manifests can tell.
AnchorNames(d, heads) ==
    ForeignChains(d, heads) # {} =>
        Anchored(log[d]) /\ ForeignChains(d, heads) = {log[d][1].manifest.chain}

\* A verification whose heads all stand does not report the log broken, once
\* a head of its own chain is published, and however writers, publishers and
\* the cutover go on after the heads were loaded.  Without access to the
\* manifests it knows only the archive that its anchor names.
NoFalseAlarm ==
    \A d \in Databases, heads \in Scans, access \in BOOLEAN :
        /\ log[d] # <<>> /\ ChainHeads(heads, Chain(log[d])) # {}
        /\ \A o \in heads : Stands(d, o.head)
        /\ access \/ AnchorNames(d, heads)
        => Verdict(d, heads, access) \in {"valid", "unverified"}
=============================================================================
