----------------------------- MODULE PentestFiles -----------------------------
(***************************************************************************)
(* Pentest findings and the files that carry them (evidence_import,        *)
(* cli/loaders/pentest_findings): a file is authoritative for the findings *)
(* of its path in its namespace.  `cli import` stores them without a       *)
(* namespace, a git source under its own, the evidence store under its     *)
(* own, where nothing here may touch them (how it adds them: EvidenceStore).*)
(* The REST routes add, edit and delete single findings meanwhile.         *)
(***************************************************************************)
EXTENDS Integers, Sequences, FiniteSets

CONSTANTS GitSources,  \* the namespaces of git sources
          Carries,     \* [git source -> the paths its repository may have]
          Bare, Store, \* no namespace (cli import), and the evidence store's
          Paths,       \* layer<N>/<file>.json, in the order of a directory
          Contents,    \* the contents of findings
          Scans,       \* what a file may hold: [findings: sequence, scan]
          OtherId,     \* an id no content gives: the API's, an earlier formula's
          Unsure, NoIndex,
          MaxByHand    \* bound: changes through the REST routes

\* The namespaces differ, files list findings, and no listed one has OtherId.
PentestAssumption ==
    /\ Bare \notin GitSources /\ Store \notin GitSources /\ Bare # Store
    /\ 1 \in DOMAIN Paths /\ Carries \in [GitSources -> SUBSET {Paths[i] : i \in DOMAIN Paths}]
    /\ \A file \in Scans : file.findings \in Seq(Contents)
    /\ OtherId \notin Contents \X Nat

VARIABLES
    findings,   \* the stored findings
    asFile,     \* history: [namespace -> [path -> what its file left, or Unsure]]
    bulk,       \* a cli import: [next: index in Paths, index: ids, or NoIndex]
    byHand      \* changes through the REST routes so far

pentestVars == <<findings, asFile, bulk, byHand>>

Namespaces == GitSources \cup {Bare, Store}
PathSet == {Paths[i] : i \in DOMAIN Paths}
Id(row) == <<row.ns, row.path, row.key>>
Held(ns, path) == {row \in findings : row.ns = ns /\ row.path = path}

-----------------------------------------------------------------------------
(* A file and the findings it owns.                                        *)

\* finding_key: the content and its ordinal among identical findings.
Key(contents, i) ==
    <<contents[i], Cardinality({j \in 1..(i - 1) : contents[j] = contents[i]})>>

\* build_file_records and _apply_namespace.
FileFindings(ns, path, file) ==
    {[ns |-> ns, path |-> path, key |-> Key(file.findings, i), content |-> file.findings[i],
      scan |-> file.scan, edited |-> FALSE] : i \in DOMAIN file.findings}

\* Mutant: a path's findings, whoever holds them.
OwnedByPath(ns, path) == {<<n, path>> : n \in Namespaces \ {Store}}

\* _owned_source_files: a namespaced file takes over the bare copy too.
Owned(ns, path) == {<<ns, path>>, <<Bare, path>>}

\* _existing_pentest_rows: those of the file's ids and those it owns, in a bulk
\* run as the index of its first file knew them.
Existing(ns, path, ids, index) ==
    {row \in findings :
        \/ Id(row) \in ids
        \/ <<row.ns, row.path>> \in Owned(ns, path) /\ (index = Unsure \/ Id(row) \in index)}

\* _import_pentest_file: new findings created, known ones brought in line, those
\* the file no longer has deleted.
ImportFile(ns, path, file, index) ==
    LET new == FileFindings(ns, path, file)
        ids == {Id(row) : row \in new}
    IN  /\ findings' = (findings \ Existing(ns, path, ids, index)) \cup new
        /\ asFile' = [n \in Namespaces |-> [p \in PathSet |->
              IF <<n, p>> \notin Owned(ns, path) THEN asFile[n][p]
              ELSE IF n # ns THEN {}
              ELSE IF Held(n, p) \subseteq Existing(ns, path, ids, index) THEN new
              ELSE Unsure]]

\* A source's file is added or changed; the store's namespace is refused.
SyncFile(ns, path, file) ==
    /\ path \in Carries[ns]
    /\ ImportFile(ns, path, file, Unsure)
    /\ UNCHANGED <<bulk, byHand>>

\* remove_dataset_file: the file left the repository.
RemoveFile(ns, path) ==
    /\ path \in Carries[ns]
    /\ findings' = {row \in findings : <<row.ns, row.path>> \notin Owned(ns, path)}
    /\ asFile' = [n \in Namespaces |-> [p \in PathSet |->
                    IF <<n, p>> \in Owned(ns, path) THEN {} ELSE asFile[n][p]]]
    /\ UNCHANGED <<bulk, byHand>>

\* `cli import --dataset pentest-findings`, a file after another (one such
\* import at a time); a file without a findings list is passed over.
StartBulk ==
    /\ bulk = NoIndex
    /\ bulk' = [next |-> 1, index |-> NoIndex]
    /\ UNCHANGED <<findings, asFile, byHand>>

\* Read for the first file, kept for the others; only the rows without a
\* namespace are asked for.
BulkIndex ==
    IF bulk.index = NoIndex THEN {Id(row) : row \in {f \in findings : f.ns = Bare}}
    ELSE bulk.index

BulkFile(file) ==
    /\ bulk # NoIndex /\ bulk.next \in DOMAIN Paths
    /\ ImportFile(Bare, Paths[bulk.next], file, BulkIndex)
    /\ bulk' = [next |-> bulk.next + 1, index |-> BulkIndex]
    /\ UNCHANGED byHand

BulkPass ==
    /\ bulk # NoIndex
    /\ bulk' = IF bulk.next \in DOMAIN Paths THEN [bulk EXCEPT !.next = @ + 1] ELSE NoIndex
    /\ UNCHANGED <<findings, asFile, byHand>>

-----------------------------------------------------------------------------
(* The REST routes: never a finding of the store's namespace.              *)

ChangedByHand(ns, path) ==
    /\ ns # Store
    /\ byHand < MaxByHand /\ byHand' = byHand + 1
    /\ asFile' = [asFile EXCEPT ![ns][path] = Unsure]
    /\ UNCHANGED bulk

\* A POST may name any other source_file; its id is the server's (bound: one
\* such finding of a path at a time).
ApiAdd(ns, path, content) ==
    /\ \A row \in Held(ns, path) : row.key # OtherId
    /\ \E file \in Scans :
          findings' = findings \cup {[ns |-> ns, path |-> path, key |-> OtherId, content |-> content,
                                      scan |-> file.scan, edited |-> FALSE]}
    /\ ChangedByHand(ns, path)

\* A PUT changes a column its content maps to.
ApiEdit(row) ==
    /\ ~row.edited
    /\ findings' = (findings \ {row}) \cup {[row EXCEPT !.edited = TRUE]}
    /\ ChangedByHand(row.ns, row.path)

ApiDelete(row) ==
    /\ findings' = findings \ {row}
    /\ ChangedByHand(row.ns, row.path)

-----------------------------------------------------------------------------
(* Who holds a file's findings (asked by the evidence store's sync).       *)

Copies(rows, content) == Cardinality({row \in rows : row.content = content})
ListedTimes(file, content) == Cardinality({i \in DOMAIN file.findings : file.findings[i] = content})

\* held_findings, HeldFindings.matches: as many findings of the same contents, no
\* column edited, and the ids are those the contents give.
Matches(rows, file) ==
    /\ Cardinality(rows) = Len(file.findings)
    /\ \A row \in rows :
          /\ Copies(rows, row.content) = ListedTimes(file, row.content)
          /\ ~row.edited
          /\ row.key \in {<<row.content, n>> : n \in 0..(Copies(rows, row.content) - 1)}

-----------------------------------------------------------------------------

\* What a release with another id formula, and the store, stored before.
Legacy(content, scan) == [ns |-> Bare, path |-> Paths[1], key |-> OtherId, content |-> content,
                          scan |-> scan, edited |-> FALSE]

PentestInit ==
    /\ \E file \in Scans, old \in SUBSET Contents :
          /\ IsFiniteSet(old)
          /\ findings = FileFindings(Store, Paths[1], file) \cup {Legacy(c, file.scan) : c \in old}
    /\ asFile = [n \in Namespaces |-> [p \in PathSet |-> IF n = Bare THEN Unsure ELSE Held(n, p)]]
    /\ bulk = NoIndex /\ byHand = 0

PentestNext ==
    \/ \E ns \in GitSources, path \in PathSet :
          \/ \E file \in Scans : SyncFile(ns, path, file)
          \/ RemoveFile(ns, path)
    \/ StartBulk \/ BulkPass
    \/ \E file \in Scans : BulkFile(file)
    \/ \E ns \in Namespaces, path \in PathSet, content \in Contents : ApiAdd(ns, path, content)
    \/ \E row \in findings : ApiEdit(row) \/ ApiDelete(row)

PentestSpec == PentestInit /\ [][PentestNext]_pentestVars

-----------------------------------------------------------------------------
(* Properties.                                                             *)

\* Whatever other sources, a local import and the store do with the same path,
\* a namespace holds of it exactly the findings its file had when it was last
\* imported (none once the file left, or a source took the bare copy over),
\* until someone changes them by hand; the store's never change.
HeldAsImported ==
    \A ns \in Namespaces, path \in PathSet :
        asFile[ns][path] # Unsure => Held(ns, path) = asFile[ns][path]

\* A holder counts as holding a file exactly when its rows are the file's, to
\* the ids and the columns: one edited, deleted or added by hand does not pass.
HolderIsExact ==
    \A ns \in Namespaces, path \in PathSet : \A file \in Scans :
        LET content(rows) == {<<row.key, row.content, row.edited>> : row \in rows}
        IN  Matches(Held(ns, path), file) <=>
                content(Held(ns, path)) = content(FileFindings(ns, path, file))

\* A file's findings are those of its namespace, and a holder is told by them.
FindingsAreHeld == HeldAsImported /\ HolderIsExact
=============================================================================
