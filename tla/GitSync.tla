------------------------------ MODULE GitSync ------------------------------
(***************************************************************************)
(* Bringing the portal to a branch head: one git source, its branch, the   *)
(* portal's record of each of its files and the runs that synchronise      *)
(* them (app/services/git_sources/sync.py), with an administrator who      *)
(* edits the source meanwhile (app/services/git_sources/service.py).       *)
(*                                                                         *)
(* A commit is its position in history and is known by the tree it holds;  *)
(* the content of a file is a blob.  One run of a source executes at a     *)
(* time: the run lock and the active-run index see to that (JobRuns).  A   *)
(* run ends with its outcome recorded (Finish, FailRun, FailUnknown), or   *)
(* without it (Interrupt: the process died, or the run's lock was lost and *)
(* the reaper failed the run).                                             *)
(***************************************************************************)
EXTENDS Integers, Sequences, SequencesExt, FiniteSets

CONSTANTS
    Files,        \* the paths of the repository
    Blobs,        \* the contents of the repository
    Holds,        \* [path -> the contents its authors may give it]
    Rank,         \* a path's place in DATASET_ORDER when it holds a dataset
    TooLarge,     \* the contents the provider cannot return
    Needs,        \* [content -> the contents that list what its records refer to]
    Flawed,       \* <<kind, content>> that never imports completely: an item twice,
                  \* a field too long, no JSON or text, a transcript that is rejected
    Absent,       \* a tree's value at a path it does not hold; also "no blob"
    NoCommit,     \* a last synced commit that is not set (NULL)
    Unmapped,     \* the kind of a path no mapping matches
    Mappings,     \* the path mappings a source may be given
    NoRun,        \* no run executes
    MaxCommits,   \* bound: commits of the branch
    MaxTroubles   \* bound: administrator's edits, failures of the provider or
                  \* of a write, and runs interrupted without an outcome

Kinds == {"dataset", "content"}

\* A commit is never mistaken for none, nor a content for a missing file.
ASSUME SyncAssumption ==
    /\ MaxCommits \in Nat \ {0} /\ MaxTroubles \in Nat
    /\ NoCommit \notin Nat
    /\ Absent \notin Blobs /\ TooLarge \subseteq Blobs
    /\ Mappings \subseteq [Files -> Kinds \cup {Unmapped}]
    /\ Holds \in [Files -> SUBSET Blobs] /\ Needs \in [Blobs -> SUBSET Blobs]

VARIABLES
    history,    \* the branch: the sequence of its trees, the head last
    source,     \* the git_sources row: last (synced commit), mappings
    files,      \* the git_source_files rows: status, kind, blob
    run,        \* the executing run, or NoRun
    adrift,     \* history variable: files no later diff need bring to the head
    budget      \* what is left of MaxTroubles

vars == <<history, source, files, run, adrift, budget>>

Unknown == 0    \* a commit the repository does not have
\* Mutant: a file that imported partly is not read again.
RetryErrors == {"error"}
RetryStatuses == {"error", "incomplete"}
NoRecord == [status |-> "none", kind |-> Unmapped, blob |-> Absent]

Tree == [Files -> Blobs \cup {Absent}]
FileRecord == [status: {"none", "ok", "incomplete", "too_large", "error", "deleted"},
               kind: Kinds \cup {Unmapped},
               blob: Blobs \cup {Absent}]
Candidate == [path: Files, kind: Kinds, change: {"A", "M", "D", "R"},
              blob: Blobs \cup {Absent}]
Run == [phase: {"resolve", "discover", "process", "finish"},
        full: BOOLEAN,
        from: 0..MaxCommits \cup {NoCommit},  \* SourceSnapshot.last_synced_commit
        mappings: Mappings,                    \* SourceSnapshot.path_mappings
        head: 0..MaxCommits,                  \* 0 until resolved
        strategy: {"", "diff", "tree", "full"},
        todo: SUBSET Candidate,
        written: SUBSET Files,                \* files this run recorded
        undeleted: SUBSET Files,              \* files it failed to record as deleted
        clean: BOOLEAN]                       \* no error, flag or incomplete file

Init ==
    /\ history \in {<<t>> : t \in {u \in Tree : \A f \in Files : u[f] \in Holds[f] \cup {Absent}}}
    /\ source \in [last: {NoCommit}, mappings: Mappings]
    /\ files = [f \in Files |-> NoRecord]
    /\ run = NoRun
    /\ adrift = {}
    /\ budget = MaxTroubles

Running(phase) == run # NoRun /\ run.phase = phase

Spend == budget > 0 /\ budget' = budget - 1

-----------------------------------------------------------------------------
(* The branch and the administrator. *)

\* A commit changes, adds or removes one file of the branch.
Commit(f) ==
    /\ Len(history) < MaxCommits
    /\ \E b \in (Holds[f] \cup {Absent}) \ {Last(history)[f]} :
          history' = Append(history, [Last(history) EXCEPT ![f] = b])
    /\ UNCHANGED <<source, files, run, adrift, budget>>

\* apply_config: an edit that changes what the source reads clears the last
\* synced commit, if there is one to clear.
EditMappings ==
    /\ Spend
    /\ \E m \in Mappings \ {source.mappings} :
          source' = [source EXCEPT !.mappings = m, !.last = NoCommit]
    /\ UNCHANGED <<history, files, run, adrift>>

\* set_last_synced_commit: the next sync diffs from a commit the administrator
\* vouches for; the format of the identifier is checked, its existence is not.
SetCommit ==
    /\ Spend
    /\ \E c \in 0..Len(history) : source' = [source EXCEPT !.last = c]
    /\ adrift' = Files
    /\ UNCHANGED <<history, files, run>>

-----------------------------------------------------------------------------
(* Candidates. *)

\* The candidate a tree comparison makes of a path: every mapped file whose
\* record is not settled at this blob, and every recorded file not seen.
FromTree(f, tree, mappings, full) ==
    LET rec == files[f]
        seen == tree[f] # Absent /\ mappings[f] # Unmapped
        settled == rec.status \in {"ok", "too_large"} /\ rec.blob = tree[f]
    IN  CASE seen /\ (full \/ ~settled) ->
                {[path |-> f, kind |-> mappings[f], blob |-> tree[f],
                  change |-> IF rec = NoRecord THEN "A" ELSE "M"]}
          [] ~seen /\ rec.status \notin {"none", "deleted"} ->
                {[path |-> f, kind |-> rec.kind, blob |-> Absent, change |-> "D"]}
          [] OTHER -> {}

\* The candidate the provider's diff makes of a path.
FromChanges(f, before, after, mappings) ==
    IF before[f] = after[f] \/ mappings[f] = Unmapped THEN {}
    ELSE {[path |-> f, kind |-> mappings[f], blob |-> after[f],
           change |-> IF after[f] = Absent THEN "D"
                     ELSE IF before[f] = Absent THEN "A" ELSE "M"]}

\* Files that failed or imported partly are read again, unless listed already.
Retries(listed, mappings) ==
    {[path |-> f, change |-> "R", blob |-> Absent,
      kind |-> IF mappings[f] # Unmapped THEN mappings[f] ELSE files[f].kind] :
        f \in {g \in Files \ listed : files[g].status \in RetryStatuses}}

\* Mutant: only what changed between the two commits is read.
ChangesOnly(strategy) ==
    IF strategy = "diff"
    THEN UNION {FromChanges(f, history[run.from], history[run.head], run.mappings) : f \in Files}
    ELSE UNION {FromTree(f, history[run.head], run.mappings, strategy = "full") : f \in Files}

\* discover_candidates: the candidates under each strategy.
CandidatesBy(strategy) ==
    LET tree == history[run.head]
        changed == IF strategy # "diff"
                   THEN UNION {FromTree(f, tree, run.mappings, strategy = "full") : f \in Files}
                   ELSE IF run.from = run.head THEN {}
                   ELSE UNION {FromChanges(f, history[run.from], tree, run.mappings) : f \in Files}
        listed == {c.path : c \in changed}
    IN  changed \cup (IF strategy = "full" THEN {} ELSE Retries(listed, run.mappings))

-----------------------------------------------------------------------------
(* A run. *)

\* A claimed run reads the source into its snapshot.
Begin(full) ==
    /\ run = NoRun
    /\ run' = [phase |-> "resolve", full |-> full, from |-> source.last,
               mappings |-> source.mappings, head |-> 0, strategy |-> "",
               todo |-> {}, written |-> {}, undeleted |-> {}, clean |-> TRUE]
    /\ UNCHANGED <<history, source, files, adrift, budget>>

ResolveHead ==
    /\ Running("resolve")
    /\ run' = [run EXCEPT !.phase = "discover", !.head = Len(history)]
    /\ UNCHANGED <<history, source, files, adrift, budget>>

\* The diff may be unavailable for a reason other than an unknown commit: the
\* trees are then compared.
Discover(strategy) ==
    /\ Running("discover")
    /\ CASE run.full -> strategy = "full"
         [] ~run.full /\ run.from = NoCommit -> strategy = "tree"
         [] OTHER -> /\ strategy \in {"diff", "tree"}
                     /\ strategy = "diff" => run.from # Unknown
                     /\ run.from = run.head => strategy = "diff"
    /\ IF strategy = "tree" /\ run.from # NoCommit THEN Spend ELSE UNCHANGED budget
    /\ run' = [run EXCEPT !.phase = "process", !.strategy = strategy,
                          !.todo = CandidatesBy(strategy)]
    /\ UNCHANGED <<history, source, files, adrift>>

\* Datasets are processed in the order of what they refer to, then content.
Precedes(c, d) ==
    /\ c.kind = "dataset"
    /\ d.kind = "dataset" => Rank[c.path] < Rank[d.path]

NextCandidates == {c \in run.todo : \A d \in run.todo : ~Precedes(d, c)}

Content(c) == history[run.head][c.path]

\* Records a candidate's result in a transaction of its own.
Record(c, record, clean) ==
    /\ files' = [files EXCEPT ![c.path] = record]
    /\ run' = [run EXCEPT !.todo = @ \ {c},
                          !.written = @ \cup {c.path},
                          !.undeleted = @ \cup {f \in {c.path} :
                                record.status = "error" /\ Content(c) = Absent},
                          !.clean = @ /\ clean]
    /\ adrift' = adrift \cup {c.path}
    /\ UNCHANGED <<history, source>>

\* A dataset's records may refer to those that earlier datasets list.  They may
\* be stored for other reasons too (an earlier content of that file, the CLI, a
\* member), so that a missing file does not yet mean a missing record.
MissesReference(f, kind, content) ==
    /\ kind = "dataset" /\ Needs[content] # {}
    /\ ~\E g \in Files : /\ files[g].kind = "dataset" /\ Rank[g] < Rank[f]
                         /\ files[g].status = "ok" /\ files[g].blob \in Needs[content]

Readable(c) == c.change # "D" /\ Content(c) \in Blobs \ TooLarge

\* The file is read at the head and imported; records whose reference is missing
\* are skipped, which leaves the file incomplete.
ImportFile(c) ==
    /\ Readable(c) /\ <<c.kind, Content(c)>> \notin Flawed
    /\ \E status \in {"ok", "incomplete"} :
          /\ status = "incomplete" => MissesReference(c.path, c.kind, Content(c))
          /\ Record(c, [status |-> status, kind |-> c.kind, blob |-> Content(c)], status = "ok")
    /\ UNCHANGED budget

\* A file with a flaw of its own: a dataset is imported but for what is wrong
\* (any counts.errors), a transcript is rejected, and what cannot be parsed is
\* rolled back.  Every sync reads it again.
RefuseFile(c) ==
    /\ Readable(c) /\ <<c.kind, Content(c)>> \in Flawed
    /\ \E status \in {"incomplete", "error"}, blob \in {Content(c), files[c.path].blob} :
          /\ status = "incomplete" => c.kind = "dataset" /\ blob = Content(c)
          /\ Record(c, [status |-> status, kind |-> c.kind, blob |-> blob], FALSE)
    /\ UNCHANGED budget

\* A file the provider cannot return is flagged with the candidate's blob,
\* which a retry does not have.
FlagFile(c) ==
    /\ c.change # "D"
    /\ Content(c) \in TooLarge
    /\ Record(c, [status |-> "too_large", kind |-> c.kind, blob |-> c.blob], FALSE)
    /\ UNCHANGED budget

\* A deletion does not read the provider.
DeleteFile(c) ==
    /\ c.change = "D"
    /\ Record(c, [status |-> "deleted", kind |-> c.kind, blob |-> Absent], TRUE)
    /\ UNCHANGED budget

\* A read or a write fails: what the write did is rolled back and the error is
\* recorded; the record keeps the blob it had.  A retried file that is not in
\* the head's tree is always an error.
FailFile(c) ==
    /\ IF c.change = "R" /\ Content(c) = Absent THEN UNCHANGED budget ELSE Spend
    /\ Record(c, [files[c.path] EXCEPT !.status = "error", !.kind = c.kind], FALSE)

ProcessFile ==
    /\ Running("process")
    /\ \E c \in NextCandidates :
          \/ ImportFile(c) \/ RefuseFile(c) \/ FlagFile(c) \/ DeleteFile(c) \/ FailFile(c)

\* record_commits reads the history, or fails (FailRun).
RecordCommits ==
    /\ Running("process")
    /\ run.todo = {}
    /\ run' = [run EXCEPT !.phase = "finish"]
    /\ UNCHANGED <<history, source, files, adrift, budget>>

\* After a sync that moved the last synced commit, these files are not known
\* to be at the head: a comparison of trees covers every file but those it
\* failed to delete, a diff only the mapped files it wrote.
AdriftAfter ==
    (IF run.mappings # source.mappings THEN Files
     ELSE IF run.strategy = "diff"
          THEN adrift \ {f \in run.written : run.mappings[f] # Unmapped} ELSE {})
    \cup run.undeleted

\* The outcome a run that reaches its end records; nothing reads it back.
Outcome == IF ~run.clean THEN "partial"
           ELSE IF run.written = {} /\ run.from = run.head THEN "unchanged" ELSE "success"

\* Mutant: the last synced commit becomes the branch head of the moment.
FinishAtLatest ==
    /\ Running("finish")
    /\ run' = NoRun
    /\ IF source.last = run.from
       THEN /\ source' = [source EXCEPT !.last = Len(history)]
            /\ adrift' = AdriftAfter
       ELSE UNCHANGED <<source, adrift>>
    /\ UNCHANGED <<history, files, budget>>

\* _finish with a head: the outcome is recorded, and the last synced commit
\* moves only while it holds the value the run started from.
Finish ==
    /\ Running("finish")
    /\ run' = NoRun
    /\ IF source.last = run.from
       THEN /\ source' = [source EXCEPT !.last = run.head]
            /\ adrift' = AdriftAfter
       ELSE UNCHANGED <<source, adrift>>
    /\ UNCHANGED <<history, files, budget>>

\* Reading what changed since a commit, before or after the files.
ReadsHistory == Running("discover") \/ (Running("process") /\ run.todo = {})

\* An error outside a file fails the run (_finish without a head): the provider
\* does not know the last synced commit ...
FailUnknown ==
    /\ ReadsHistory
    /\ run.from = Unknown /\ ~run.full
    /\ run' = NoRun
    /\ UNCHANGED <<history, source, files, adrift, budget>>

\* ... or cannot be reached.
FailRun ==
    /\ Running("resolve") \/ ReadsHistory
    /\ Spend
    /\ run' = NoRun
    /\ UNCHANGED <<history, source, files, adrift>>

\* The run ends without its executor recording an outcome.
Interrupt ==
    /\ run # NoRun
    /\ Spend
    /\ run' = NoRun
    /\ UNCHANGED <<history, source, files, adrift>>

\* The branch and the runs, while nobody edits the source.
Unattended ==
    \/ \E f \in Files : Commit(f)
    \/ \E full \in BOOLEAN : Begin(full)
    \/ ResolveHead
    \/ \E strategy \in {"diff", "tree", "full"} : Discover(strategy)
    \/ ProcessFile \/ RecordCommits \/ Finish \/ FailUnknown \/ FailRun \/ Interrupt

Next == EditMappings \/ SetCommit \/ Unattended

Spec == Init /\ [][Next]_vars

\* A sync is asked for again and again (a schedule, or a member), and a run
\* that executes goes on.  Nothing is asked of commits, edits and failures.
Fairness ==
    /\ WF_vars(\E full \in BOOLEAN : Begin(full))
    /\ WF_vars(ResolveHead)
    /\ WF_vars(\E strategy \in {"diff", "tree", "full"} : Discover(strategy))
    /\ WF_vars(ProcessFile)
    /\ WF_vars(RecordCommits)
    /\ WF_vars(Finish)
    /\ WF_vars(FailUnknown)

FairSpec == Spec /\ Fairness

-----------------------------------------------------------------------------
(* Properties. *)

TypeOK ==
    /\ history \in Seq(Tree) /\ Len(history) \in 1..MaxCommits
    /\ source \in [last: 0..MaxCommits \cup {NoCommit}, mappings: Mappings]
    /\ files \in [Files -> FileRecord]
    /\ run \in Run \cup {NoRun}
    /\ adrift \subseteq Files
    /\ budget \in 0..MaxTroubles

\* The portal holds what the tree and the mappings say of a file.
AtTree(f, tree, mappings) ==
    IF tree[f] = Absent \/ mappings[f] = Unmapped
    THEN files[f].status \in {"none", "deleted"}
    ELSE \/ files[f].status = "ok" /\ files[f].blob = tree[f]
         \/ files[f].status = "too_large" /\ tree[f] \in TooLarge

\* Diffing from the last synced commit forgets nothing: each file is as that
\* commit has it, or is marked to be read again, so what changed since is all
\* there is to do.  Files written by a run that did not finish, and those
\* adrift for another reason, are excepted.
NothingForgotten ==
    source.last \in 1..Len(history) =>
        \A f \in Files \ adrift :
            \/ AtTree(f, history[source.last], source.mappings)
            \/ files[f].status \in RetryStatuses

\* A run that ends as a success (or has nothing to do) leaves every file not
\* adrift as its head has it: no failure of an earlier run is still open.
SuccessUnlessAdrift ==
    [][Finish /\ Outcome \in {"success", "unchanged"} =>
          \A f \in Files \ adrift' : AtTree(f, history[run.head], run.mappings)]_vars

\* A file left open for what it holds itself, or for a record nobody lists: its
\* status says so, and every sync tries it again.
HeldUp(f, content, kind) ==
    /\ files[f].status \in {"error", "incomplete"}
    /\ <<kind, content>> \in Flawed \/ MissesReference(f, kind, content)

\* Once nothing fails, changes or interrupts any more, syncs bring every file
\* not adrift to the head and keep it there, but for what cannot be imported
\* whatever the portal holds: what failed, or missed a record that has come
\* since, does not stay open.
ConvergesUnlessAdrift ==
    <>[](\A f \in Files \ adrift :
            \/ AtTree(f, Last(history), source.mappings)
            \/ /\ Last(history)[f] \in Blobs \ TooLarge
               /\ HeldUp(f, Last(history)[f], source.mappings[f]))
=============================================================================
