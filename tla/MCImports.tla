----------------------------- MODULE MCImports -----------------------------
(***************************************************************************)
(* Small instances, for one run of TLC, of the components that bring       *)
(* evidence in: files of datasets, pentest findings and decision logs, and *)
(* the Git sources they come from.  The components share no variables; a   *)
(* behaviour is one of the component it starts as, the variables of the    *)
(* others are Off.                                                         *)
(***************************************************************************)
EXTENDS Integers, Sequences, TLC

CONSTANTS
    None, Unknown, Absent, Nothing, NoOne, Off, Bad, Done, Given,
    c1, c2, t1, p1, e1, dangling, plain, other,
    NoId, Omitted, Empty, TooLong, Unstorable, Malformed, NoRow, Unread,
    source1, source2, Bare, Store, OtherId, NoIndex, open, closed, scan1,
    b1, b2, Link, i1, i2, i3, NoRun, NoWalk, m, adm, NoSession, Null

VARIABLES
    part,
    rows, dirRun,                                   \* DatasetImport
    findings, asFile, bulk, byHand,                 \* PentestFiles
    file, read, claude, codex, outcome,             \* Transcripts
    writer, directory, reader, faults, changed,     \* ChunkedFiles
    files, longest, import, bound,                  \* TranscriptDirectory
    used, line, asleep, imports, sessions, chain,   \* ImportSlots
    session, entries, versions,                     \* DecisionLogs
    graph, walk,                                    \* GitHistory
    last, head, base, view,                         \* GitDiff
    disk, local, stored, lastHead, writes,          \* LocalSource
    account, commits, heads, check                  \* ChangeRecords

-----------------------------------------------------------------------------
(* Datasets: two controls, a test, a policy, a piece of evidence; files    *)
(* that create, update, repeat, refer to a record that is missing, and     *)
(* hold what is refused.  Evidence names the test or a control.            *)

Item(id, val, ref) == [id |-> id, val |-> val, ref |-> ref]

RecordIds ==
    [d \in {"controls", "tests", "policies", "evidence"} |->
        CASE d = "controls" -> {c1, c2} [] d = "tests" -> {t1} [] d = "policies" -> {p1}
          [] d = "evidence" -> {e1}]

DatasetContents ==
    [d \in {"controls", "tests", "policies", "evidence"} |->
        CASE d = "controls" ->
                {<<Item(c1, plain, {})>>,
                 <<Item(c1, other, {}), Item(c2, plain, {}), Item(c1, Omitted, {})>>,
                 <<Item(c1, Empty, {}), Item(c2, Unstorable, {}), Item(NoId, plain, {})>>}
          [] d = "tests" ->
                {<<Item(t1, plain, {c1})>>,
                 <<Item(t1, other, {c2}), Item(t1, TooLong, {c1}), Item(t1, plain, {dangling})>>}
          [] d = "policies" ->
                {<<Item(p1, plain, {c1, dangling})>>,
                 <<Item(p1, other, {c2}), Item(p1, Omitted, {})>>}
          [] d = "evidence" ->
                {<<Item(e1, plain, {other}), Item(e1, plain, {plain})>>}]

DatasetValues == {plain}

Datasets == INSTANCE DatasetImport WITH Contents <- DatasetContents, Values <- DatasetValues

ASSUME Datasets!DatasetImportAssumption

-----------------------------------------------------------------------------
(* Pentest findings: two sources carry the same path, one path is the      *)
(* command line's and the store's only; a file may repeat a finding.       *)

GitSources == {source1, source2}
PentestPaths == <<"p", "q">>
FindingContents == {open, closed}
Scans == {[findings |-> <<open, open>>, scan |-> scan1], [findings |-> <<closed>>, scan |-> scan1]}
Carries == [s \in GitSources |-> {"p"}]

Pentest == INSTANCE PentestFiles WITH
    Paths <- PentestPaths, Contents <- FindingContents, MaxByHand <- 1, Unsure <- Unknown

ASSUME Pentest!PentestAssumption

-----------------------------------------------------------------------------
(* Transcripts: three lines, each of one of twelve kinds.                  *)

Record == [form |-> "record", type |-> "other", payload |-> FALSE, item |-> "none", role |-> None,
           id |-> None, model |-> None, cwd |-> None, branch |-> None, ts |-> None, text |-> None,
           calls |-> 0]

TranscriptLines ==
    {[Record EXCEPT !.form = "oversized"],
     [Record EXCEPT !.form = "ignored"],
     [Record EXCEPT !.type = "user", !.ts = 1, !.text = Done, !.id = Given, !.model = Given],
     [Record EXCEPT !.type = "assistant", !.ts = 2, !.calls = 2, !.cwd = Given, !.payload = TRUE],
     [Record EXCEPT !.type = "assistant", !.model = Bad, !.calls = 1],
     [Record EXCEPT !.payload = TRUE, !.ts = 3],
     [Record EXCEPT !.type = "session_meta", !.payload = TRUE, !.ts = 4, !.cwd = Given, !.branch = Bad],
     [Record EXCEPT !.type = "turn_context", !.payload = TRUE, !.model = Given, !.branch = Bad],
     [Record EXCEPT !.type = "response_item", !.payload = TRUE, !.item = "call", !.calls = 2, !.ts = 5],
     [Record EXCEPT !.type = "response_item", !.payload = TRUE, !.item = "message", !.role = "user",
                    !.id = Given],
     [Record EXCEPT !.type = "response_item", !.payload = TRUE, !.item = "message", !.role = Bad,
                    !.id = Bad],
     [Record EXCEPT !.type = "response_item", !.payload = TRUE, !.item = "call", !.calls = 3]}

Parser == INSTANCE Transcripts WITH
    Lines <- TranscriptLines, MaxLines <- 3, MaxEntries <- 2, MaxCalls <- 2, MaxTotalCalls <- 3

-----------------------------------------------------------------------------
(* Chunked files of up to five bytes, in parts of two, four at most        *)
(* allowed; one part or the manifest may be damaged.                       *)

Originals == {<<0>>, <<0, 1>>, <<0, 1, 1>>, <<1, 1, 1>>, <<1, 1>>, <<0, 1, 1, 0>>, <<0, 1, 0, 1, 0>>}

Chunks == INSTANCE ChunkedFiles WITH PartSize <- 2, MaxParts <- 2, MaxTotal <- 4, MaxFaults <- 1

-----------------------------------------------------------------------------
(* A directory with two exports of one session, one of them in parts, an   *)
(* export of another session and one that names none.                      *)

SessionOf == (1 :> "a") @@ (2 :> "a") @@ (3 :> "b") @@ (4 :> None)
DirectoryExports == {1, 2, 3, 4}
DirectoryChunked == {1}

Directory == INSTANCE TranscriptDirectory WITH
    Exports <- DirectoryExports, Chunked <- DirectoryChunked, stored <- longest,
    MaxSize <- 3, Limit <- 2, MaxWrites <- 3, MaxRuns <- 2

-----------------------------------------------------------------------------
(* Three imports of one session, of no bytes, as many as an import may     *)
(* take, or unknown; room for one and a half of the largest.               *)

SlotSessions == {"s"}
Importers == {i1, i2, i3}
Sizes == {0, 2, Unknown}

Slots == INSTANCE ImportSlots WITH
    Sessions <- SlotSessions, MinCharge <- 1, MaxBytes <- 2, Capacity <- 3

ASSUME Slots!SlotsAssumption

-----------------------------------------------------------------------------
(* Decision logs: b is stamped before a, c has no timestamp; extensions, a *)
(* divergence at either entry, an empty export, two exports of the same    *)
(* entries.                                                                *)

Stamp == [a |-> 2, b |-> 1, c |-> 0]

Entries(texts, calls) ==
    [i \in DOMAIN texts |-> [text |-> texts[i], at |-> Stamp[texts[i]], calls |-> calls]]

SessionExport(bytes, texts) == [bytes |-> bytes, entries |-> Entries(texts, "current")]

SessionExports == {SessionExport("0", <<>>), SessionExport("b", <<"b">>),
                   SessionExport("ab", <<"a", "b">>), SessionExport("ac", <<"a", "c">>),
                   SessionExport("ac again", <<"a", "c">>)}
Restored == {<<>>, Entries(<<"a">>, "earlier"), Entries(<<"a", "c">>, "earlier")}
LogMembers == {m, adm}
LogAdmins == {adm}

Logs == INSTANCE DecisionLogs WITH
    Exports <- SessionExports, Members <- LogMembers, Admins <- LogAdmins, Triggerers <- LogAdmins,
    MaxVersions <- 3, MaxRejected <- 1

ASSUME Logs!DecisionLogsAssumption

-----------------------------------------------------------------------------
(* The Git providers: every history of four commits, comparisons that list *)
(* one; trees of three paths, comparisons that list two files; a directory *)
(* of two files; CodeCommit repositories with three commits.               *)

Limits == {1, 9}

Histories == INSTANCE GitHistory WITH MaxHistory <- 4, MaxDate <- 3, MaxSkewed <- 1, CompareCommits <- 1

Tree(x, y, z) == ("x" :> x) @@ ("y" :> y) @@ ("z" :> z)
Trees == {Tree(x, y, z) : x \in {b1, b2, Absent}, y \in {b1, Link, Absent}, z \in {b1, b2}}

Diffs == INSTANCE GitDiff WITH CompareFiles <- 2

DiskPaths == <<"p", "q">>
Blobs == {b1, b2}
Stamps == {1, 2}

Source == INSTANCE LocalSource WITH MaxWrites <- 3

Heading(title) == [kind |-> "heading", title |-> title]
Line(kind) == [kind |-> kind, title |-> None]

Messages ==
    {<<Heading("Problem"), Line("text"), Heading("Verified"), Line("text"), Line("blank"),
       Line("attribution")>>,
     <<Heading("Problem"), Line("text"), Line("title"), Line("text"), Heading("Verified"),
       Line("blank"), Line("trailer"), Line("attribution"), Line("blank")>>}
Scopes == {[repositories |-> {"r1", "r2"}, excluded |-> {}], [repositories |-> {}, excluded |-> {"r2"}]}
Repositories == {"r1", "r2"}
Developed == {"r1"}
Sections == {"Problem", "Verified"}

Changes == INSTANCE ChangeRecords WITH
    MaxRead <- 2, MaxRepositories <- 1, Cutoff <- 1, Today <- 1, MaxCommits <- 3

-----------------------------------------------------------------------------
datasetVars == <<rows, dirRun>>
pentestVars == <<findings, asFile, bulk, byHand>>
parserVars == <<file, read, claude, codex, outcome>>
chunkVars == <<writer, directory, reader, faults, changed>>
directoryVars == <<files, longest, import, bound>>
slotVars == <<used, line, asleep, imports, sessions, chain>>
logVars == <<session, entries, versions>>
historyVars == <<graph, walk>>
diffVars == <<last, head, base, view>>
sourceVars == <<disk, local, stored, lastHead, writes>>
changeVars == <<account, commits, heads, check>>

Off2(x, y) == x = Off /\ y = Off
Off4(x, y, z, w) == Off2(x, y) /\ Off2(z, w)

Init ==
    /\ part \in {"datasets", "pentest", "parser", "chunks", "directory", "slots", "logs",
                 "history", "diff", "source", "changes"}
    /\ IF part = "datasets" THEN Datasets!ImportInit ELSE Off2(rows, dirRun)
    /\ IF part = "pentest" THEN Pentest!PentestInit ELSE Off4(findings, asFile, bulk, byHand)
    /\ IF part = "parser" THEN Parser!TranscriptsInit
       ELSE file = Off /\ Off4(read, claude, codex, outcome)
    /\ IF part = "chunks" THEN Chunks!ChunksInit
       ELSE writer = Off /\ Off4(directory, reader, faults, changed)
    /\ IF part = "directory" THEN Directory!DirectoryInit ELSE Off4(files, longest, import, bound)
    /\ IF part = "slots" THEN Slots!SlotsInit
       ELSE Off2(used, line) /\ Off4(asleep, imports, sessions, chain)
    /\ IF part = "logs" THEN Logs!Init ELSE session = Off /\ Off2(entries, versions)
    /\ IF part = "history" THEN Histories!HistoryInit ELSE Off2(graph, walk)
    /\ IF part = "diff" THEN Diffs!DiffInit ELSE Off4(last, head, base, view)
    /\ IF part = "source" THEN Source!LocalInit
       ELSE disk = Off /\ Off4(local, stored, lastHead, writes)
    /\ IF part = "changes" THEN Changes!ChangeInit ELSE Off4(account, commits, heads, check)

\* The other components do not move.
Only(p) ==
    /\ part = p /\ UNCHANGED part
    /\ p # "datasets" => UNCHANGED datasetVars
    /\ p # "pentest" => UNCHANGED pentestVars
    /\ p # "parser" => UNCHANGED parserVars
    /\ p # "chunks" => UNCHANGED chunkVars
    /\ p # "directory" => UNCHANGED directoryVars
    /\ p # "slots" => UNCHANGED slotVars
    /\ p # "logs" => UNCHANGED logVars
    /\ p # "history" => UNCHANGED historyVars
    /\ p # "diff" => UNCHANGED diffVars
    /\ p # "source" => UNCHANGED sourceVars
    /\ p # "changes" => UNCHANGED changeVars

Next ==
    \/ Only("datasets") /\ Datasets!ImportNextStep
    \/ Only("pentest") /\ Pentest!PentestNext
    \/ Only("parser") /\ Parser!TranscriptsNext
    \/ Only("chunks") /\ Chunks!ChunksNext
    \/ Only("directory") /\ Directory!DirectoryNext
    \/ Only("slots") /\ Slots!SlotsNext
    \/ Only("logs") /\ Logs!Next
    \/ Only("history") /\ Histories!HistoryNext
    \/ Only("diff") /\ Diffs!DiffNext
    \/ Only("source") /\ Source!LocalNext
    \/ Only("changes") /\ Changes!ChangeNext

vars == <<part, datasetVars, pentestVars, parserVars, chunkVars, directoryVars, slotVars, logVars,
          historyVars, diffVars, sourceVars, changeVars>>

Spec == Init /\ [][Next]_vars

-----------------------------------------------------------------------------
(* What the components promise.                                            *)

\* Datasets: importing a file again writes nothing, a file of a directory
\* fails for its own contents only, a dry run reports what a real one does.
DatasetsAreImported ==
    part = "datasets" => Datasets!DatasetsAreImported

\* Pentest: a namespace holds what its own file had, and counts as holding a
\* file exactly when its rows are the file's.
FindingsAreHeld == part = "pentest" => Pentest!FindingsAreHeld

\* Transcripts: one is read as its own format says; the chunks of one make a
\* version that was written, or are refused; of a directory, each session's
\* longest export is imported, or fails for itself.
TranscriptsAreWhole ==
    /\ part = "parser" => Parser!ReadInItsFormat
    /\ part = "chunks" => Chunks!WholeOrRefused
    /\ part = "directory" => Directory!DirectoryIsImported

\* Import slots: imports never all wait for one another, and no room is lost.
ImportsMove == part = "slots" => Slots!ImportsMove

\* Decision logs: the history of a session only grows, the entries that count
\* as verifications are a source's, the repository's version stands, members
\* extend their own sessions.
LogsAreFaithful == part = "logs" => Logs!LogsAreFaithful

\* Decision logs: no step changes what a source supplied or loses a version.
LogsAreKept == [][part = "logs" => Logs!LogsAreKept]_logVars

\* Git providers: the commits listed between two commits are the newest of the
\* range, the changes applied leave exactly the files of the commit, and a local
\* source's files are the ones their blobs name, those of the directory after a
\* run in which nothing is written.
SourcesAreExact ==
    /\ part = "history" => Histories!WalkIsTheRange /\ Histories!ComparisonIsTheRange
    /\ part = "diff" => Diffs!ViewIsTheTree
    /\ part = "source" => Source!ContentIsItsBlob /\ Source!QuietRunSees

\* Change records: a repository passes only if its changes are recorded.
ChangesAreRecorded == part = "changes" => Changes!PassedIsRecorded
=============================================================================
