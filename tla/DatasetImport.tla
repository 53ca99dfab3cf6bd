---------------------------- MODULE DatasetImport ----------------------------
(***************************************************************************)
(* The diff-only import of the authored datasets (evidence_import): a file *)
(* is compared with the stored rows and only differences are written.  A   *)
(* local directory is imported file after file by one run that keeps a     *)
(* context (ImportContext); a git source's files one by one, each with a   *)
(* context of its own; meanwhile the REST routes (crud) change the rows.   *)
(*                                                                         *)
(* Four datasets stand for the seven of lists: "controls" refer to         *)
(* nothing, "tests" must refer to a stored control, "policies" are linked  *)
(* to those of their controls that exist (vendors to systems), "evidence"  *)
(* names a test, which is looked up among the stored ones (a second name,  *)
(* tried for a control, is left out).  Each file is imported in one        *)
(* transaction.                                                            *)
(***************************************************************************)
EXTENDS Integers, Sequences, FiniteSets

CONSTANTS RecordIds,   \* [dataset -> ids of its records]
          Values,      \* what the required column of a record holds (of a control or test its name)
          NoId,        \* the id is missing
          Contents,    \* [dataset -> the files a checkout or source may hold]
          Omitted,     \* the column is not in the file
          Empty,       \* the column is null
          TooLong,     \* the value is longer than the column, or no URL
          Unstorable,  \* PostgreSQL refuses the value (a NUL character)
          Malformed,   \* the file is not JSON
          NoRow, Unread

DatasetOrder == <<"controls", "tests", "policies", "evidence">>
Datasets == {"controls", "tests", "policies", "evidence"}

\* What the files list (ref: the records an item refers to, the name of a test),
\* and the rows of records.
Items == UNION {UNION {{file[i] : i \in DOMAIN file} : file \in Contents[d]} : d \in Datasets}
References == RecordIds["controls"] \cup RecordIds["tests"] \cup UNION {item.ref : item \in Items}
Row == [val : Values \cup {item.val : item \in Items},
        ref : SUBSET References, links : SUBSET RecordIds["controls"]]

\* Files are lists of items, whose ids are records' or missing.
DatasetImportAssumption ==
    /\ DOMAIN RecordIds = Datasets /\ DOMAIN Contents = Datasets
    /\ {NoRow, Unread, NoId} \cap UNION {RecordIds[d] : d \in DOMAIN RecordIds} = {}
    /\ NoRow \notin Row /\ Unstorable \notin Values
    /\ \A d \in Datasets : \A file \in Contents[d] :
          file \in Seq(Items) /\ \A i \in DOMAIN file : file[i].id \in RecordIds[d] \cup {NoId}

VARIABLES
    rows,        \* [dataset -> [id -> row or NoRow]]
    dirRun       \* the run over a directory, or Unread when none is under way

importVars == <<rows, dirRun>>

\* The stored rows of one dataset, and the controls others refer to.
Stored(table, d) == {id \in RecordIds[d] : table[d][id] # NoRow}

-----------------------------------------------------------------------------
(* One file against the rows.                                              *)

\* ImportContext: the cached ids of the controls and those this run creates.
NewContext == [known |-> Unread, planned |-> {}]

\* ids: read once, then kept.
Ids(table, ctx) ==
    IF ctx.known = Unread THEN Stored(table, "controls") \cup ctx.planned ELSE ctx.known

\* _resolve_test_record_id: a stored test of the name, or else a stored test of a
\* control of the name; or none.
NamedTest(table, names) ==
    LET named(d) == {id \in Stored(table, d) : table[d][id].val \in names}
        control == CHOOSE c \in named("controls") : TRUE
        found == IF named("tests") # {} THEN named("tests")
                 ELSE {t \in Stored(table, "tests") :
                          named("controls") # {} /\ control \in table["tests"][t].ref}
    IN  IF found = {} THEN {} ELSE {CHOOSE t \in found : TRUE}

\* resolve_references: what the items of a file refer to.
Resolved(table, d, file) ==
    IF d # "evidence" THEN file
    ELSE [i \in DOMAIN file |->
            [id |-> file[i].id, val |-> file[i].val, ref |-> NamedTest(table, file[i].ref)]]

\* An item that becomes an entry: it has an id, fits its columns, and a test's
\* control or the test of evidence exists.
Importable(d, item, known) ==
    /\ item.id # NoId /\ item.val # TooLong
    /\ d \in {"tests", "evidence"} => item.ref # {}
    /\ d = "tests" => item.ref \subseteq known

\* The last importable occurrence of each id.
Entries(d, file, known) ==
    {i \in DOMAIN file :
        /\ Importable(d, file[i], known)
        /\ \A j \in (i + 1)..Len(file) : file[j].id = file[i].id => ~Importable(d, file[j], known)}

\* A new record needs its required column, an old one must not have it nulled.
Skipped(item, old) == item.val = Empty \/ (old = NoRow /\ item.val = Omitted)

\* _sync_links: an empty list leaves the links as they are.
Links(item, old, known) ==
    IF item.ref = {} THEN (IF old = NoRow THEN {} ELSE old.links) ELSE item.ref \cap known

\* What a record becomes; other_data and references (here: ref) are always the
\* file's.
Becomes(d, item, old, known) ==
    [val |-> IF item.val = Omitted THEN old.val ELSE item.val,
     ref |-> item.ref,
     links |-> IF d = "policies" THEN Links(item, old, known) ELSE {}]

\* The entries that are imported, new and known ones, and those that differ.
Old(table, d, item) == table[d][item.id]
New(table, d, item, known) == Becomes(d, item, Old(table, d, item), known)
Kept(table, d, file, known) == {i \in Entries(d, file, known) : ~Skipped(file[i], Old(table, d, file[i]))}
Created(table, d, file, known) == {i \in Kept(table, d, file, known) : Old(table, d, file[i]) = NoRow}
Updated(table, d, file, known) ==
    {i \in Kept(table, d, file, known) \ Created(table, d, file, known) :
        New(table, d, file[i], known) # Old(table, d, file[i])}

\* Links to controls deleted since the ids were read are left out.
Written(table, d, item, known) ==
    [New(table, d, item, known) EXCEPT !.links = @ \cap Stored(table, "controls")]

\* The rows after a file, and whether the database refuses them.
RowsAfter(table, d, file, known) ==
    LET changed == Created(table, d, file, known) \cup Updated(table, d, file, known)
        at(id) == {i \in changed : file[i].id = id}
    IN  [table EXCEPT ![d] = [id \in RecordIds[d] |->
            IF at(id) = {} THEN table[d][id]
            ELSE Written(table, d, file[CHOOSE i \in at(id) : TRUE], known)]]

Refused(table, d, file, known) ==
    \E i \in Created(table, d, file, known) \cup Updated(table, d, file, known) :
        \/ New(table, d, file[i], known).val = Unstorable
        \/ d = "tests" /\ ~(file[i].ref \subseteq Stored(table, "controls"))

\* ids(Control) is asked for, and then kept.
Asked(ctx, d, file, kept) ==
    \/ ctx.known # Unread
    \/ d = "tests" /\ \E i \in DOMAIN file : file[i].id # NoId /\ file[i].ref # {}
    \/ d = "policies" /\ \E i \in kept : file[i].ref # {}

\* _sync_records: the rows after the file, whether the database takes them, the
\* counts, and the context.
SyncRecords(table, ctx, d, file, dry) ==
    LET known == Ids(table, ctx)
        kept == Kept(table, d, file, known)
        created == Created(table, d, file, known)
        updated == Updated(table, d, file, known)
        createdIds == IF d = "controls" THEN {file[i].id : i \in created} ELSE {}
    IN  [rows |-> IF dry THEN table ELSE RowsAfter(table, d, file, known),
         refused |-> ~dry /\ Refused(table, d, file, known),
         counts |-> [created |-> Cardinality(created), updated |-> Cardinality(updated),
                     unchanged |-> Cardinality(kept \ (created \cup updated)),
                     skipped |-> Len(file) - Cardinality(kept)],
         ctx |-> [known |-> IF Asked(ctx, d, file, kept) THEN known \cup createdIds ELSE Unread,
                  planned |-> ctx.planned \cup createdIds]]

\* _import_list_dataset.
Import(table, ctx, d, file, dry) == SyncRecords(table, ctx, d, Resolved(table, d, file), dry)

ImportFresh(table, d, file) == Import(table, NewContext, d, file, FALSE)

-----------------------------------------------------------------------------
(* The run over a directory.                                               *)

Imported(run, d, file) == Import(rows, run.ctx, d, file, run.dry)

StartRun(dry) ==
    /\ dirRun = Unread
    /\ dirRun' = [dry |-> dry, next |-> 1, ctx |-> NewContext, bad |-> {}, failed |-> {},
                  deleted |-> FALSE]
    /\ UNCHANGED rows

\* Mutant: what a rolled-back file added to the context stays.
KeepContext(ctx, dry) == ctx

\* after_rollback.
AfterRollback(ctx, dry) == [known |-> Unread, planned |-> IF dry THEN ctx.planned ELSE {}]

\* A dataset file (or none): committed, or rolled back on its own.
ImportNext(file) ==
    /\ dirRun # Unread /\ dirRun.next <= Len(DatasetOrder)
    /\ LET d == DatasetOrder[dirRun.next]
           bad == file = Malformed \/ \E i \in DOMAIN file : file[i].val = Unstorable
           result == Imported(dirRun, d, file)
           fails == file = Malformed \/ result.refused
       IN  /\ file \in Contents[d] \cup {Malformed}
           /\ rows' = IF fails THEN rows ELSE result.rows
           /\ dirRun' = [dirRun EXCEPT
                           !.next = @ + 1,
                           !.bad = IF bad THEN @ \cup {d} ELSE @,
                           !.failed = IF fails THEN @ \cup {d} ELSE @,
                           !.ctx = IF ~fails THEN result.ctx
                                   ELSE AfterRollback(IF file = Malformed THEN dirRun.ctx ELSE result.ctx,
                                                      dirRun.dry)]

EndRun ==
    /\ dirRun # Unread /\ dirRun.next > Len(DatasetOrder)
    /\ dirRun' = Unread
    /\ UNCHANGED rows

-----------------------------------------------------------------------------
(* A git source's file, and the REST routes.                               *)

\* import_dataset_file in the transaction of the file: a refusal undoes it.
\* A removed dataset file leaves its records (remove_dataset_file).
SyncFile(d, file) ==
    /\ LET result == ImportFresh(rows, d, file)
       IN  ~result.refused /\ rows' = result.rows
    /\ UNCHANGED dirRun

\* A write that breaks a constraint answers 400 or 409 and changes nothing.
ApiCreate(d, id, val, ref) ==
    /\ rows[d][id] = NoRow
    /\ d \in {"tests", "evidence"} <=> ref # {}
    /\ ref \subseteq Stored(rows, IF d = "evidence" THEN "tests" ELSE "controls")
    /\ rows' = [rows EXCEPT ![d][id] = [val |-> val, ref |-> ref, links |-> {}]]
    /\ UNCHANGED dirRun

ApiUpdate(d, id, val) ==
    /\ rows[d][id] # NoRow
    /\ rows' = [rows EXCEPT ![d][id].val = val]
    /\ UNCHANGED dirRun

\* A control with tests, or a test with evidence, is not deleted (they need it);
\* links to a control are.
ApiDelete(d, id) ==
    /\ rows[d][id] # NoRow
    /\ d = "controls" => \A t \in Stored(rows, "tests") : id \notin rows["tests"][t].ref
    /\ d = "tests" => \A e \in Stored(rows, "evidence") : id \notin rows["evidence"][e].ref
    /\ rows' = [e \in Datasets |-> [r \in RecordIds[e] |->
                   IF (e = d /\ r = id) \/ rows[e][r] = NoRow THEN NoRow
                   ELSE IF d = "controls" THEN [rows[e][r] EXCEPT !.links = @ \ {id}]
                   ELSE rows[e][r]]]
    /\ dirRun' = IF dirRun # Unread /\ d = "controls" THEN [dirRun EXCEPT !.deleted = TRUE]
                 ELSE dirRun

ImportInit ==
    /\ rows = [d \in Datasets |-> [id \in RecordIds[d] |-> NoRow]]
    /\ dirRun = Unread

ImportNextStep ==
    \/ \E dry \in BOOLEAN : StartRun(dry)
    \/ \E file \in {Malformed} \cup UNION {Contents[d] : d \in Datasets} : ImportNext(file)
    \/ EndRun
    \/ \E d \in Datasets :
          \/ \E file \in Contents[d] : SyncFile(d, file)
          \/ \E id \in RecordIds[d] :
                \/ \E val \in Values : ApiUpdate(d, id, val)
                \/ \E val \in Values,
                      ref \in {{}} \cup {{r} : r \in RecordIds["controls"] \cup RecordIds["tests"]} :
                         ApiCreate(d, id, val, ref)
                \/ ApiDelete(d, id)

DatasetsSpec == ImportInit /\ [][ImportNextStep]_importVars

-----------------------------------------------------------------------------
(* Properties.                                                             *)

\* Importing the same file again writes nothing, whatever was stored before and
\* whatever duplicates, missing columns and unknown references the file has:
\* every write of a compliance table would be an audit row.  (Whatever a run stores
\* under way it leaves stored when it ends, and is looked at then.)
SecondImportWritesNothing ==
    dirRun = Unread =>
        \A d \in Datasets : \A file \in Contents[d] :
            LET first == ImportFresh(rows, d, file)
                second == ImportFresh(first.rows, d, file)
            IN  ~first.refused => second.counts.created = 0 /\ second.counts.updated = 0

\* A file of a directory fails for what it holds itself, never because another
\* file was rolled back: what that one would have created is forgotten.  (It may
\* fail when a control is deleted under way, after the run took note of its id.)
FailuresStandAlone ==
    dirRun # Unread /\ ~dirRun.deleted => dirRun.failed \subseteq dirRun.bad

\* A file imported onto what another one left.
ImportOnto(result, d, file, dry) == Import(result.rows, result.ctx, d, file, dry)

\* What a whole directory's files, one after another, count, and the tests that
\* evidence is found to name.
RunCounts(files, dry) ==
    LET controls == Import(rows, NewContext, "controls", files["controls"], dry)
        tests == ImportOnto(controls, "tests", files["tests"], dry)
        policies == ImportOnto(tests, "policies", files["policies"], dry)
        evidence == ImportOnto(policies, "evidence", files["evidence"], dry)
    IN  [counts |-> <<controls.counts, tests.counts, policies.counts>>,
         evidence |-> evidence.counts,
         named |-> Resolved(policies.rows, "evidence", files["evidence"]),
         refused |-> controls.refused \/ tests.refused \/ policies.refused \/ evidence.refused]

\* What both report is the same, of evidence where it is found to name the same tests.
SameReport(dry, real) ==
    /\ dry.counts = real.counts
    /\ dry.named = real.named => dry.evidence = real.evidence

\* A dry run of a directory reports what a real run would do, references to
\* records the same run would create included (nothing refused by the database).
\* Evidence is the exception: a dry run looks its tests up among those stored
\* before, so it reports the same only where the names mean the same tests
\* before and after the run has created and renamed tests and controls.
DryRunTells ==
    dirRun = Unread =>
        \A c \in Contents["controls"], t \in Contents["tests"], p \in Contents["policies"],
           e \in Contents["evidence"] :
            LET files == [controls |-> c, tests |-> t, policies |-> p, evidence |-> e]
                real == RunCounts(files, FALSE)
                dry == RunCounts(files, TRUE)
            IN  ~real.refused => SameReport(dry, real)

\* What an import of datasets promises.
DatasetsAreImported == SecondImportWritesNothing /\ FailuresStandAlone /\ DryRunTells
=============================================================================
