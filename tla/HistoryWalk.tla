---------------------------- MODULE HistoryWalk ----------------------------
(***************************************************************************)
(* GET /api/decision-log/verify?against_repo=true&against_store=true: an   *)
(* administrator walks the stored sessions in slices.  One request checks  *)
(* the version histories of a slice, then its store versions against the   *)
(* evidence store, then its repository versions against the evidence       *)
(* repository; each check takes its slice of its own sessions, in a        *)
(* transaction that ends before the store or the repository answers, and   *)
(* the next request starts after the last session of the first slice.      *)
(* Meanwhile sessions are imported, and the application role may forge a   *)
(* version.  Which outcome an import has is DecisionLogs' subject, and so  *)
(* are the checks of one history.  A file's content is the number of the   *)
(* commit that wrote it, an object's is 1.                                 *)
(***************************************************************************)
EXTENDS Integers, Sequences, FiniteSets, FiniteSetsExt, SequencesExt

CONSTANTS SessionIds,    \* 1 .. n, in id order
          Restored,      \* those an earlier portal may have had
          Slice,         \* max_sessions
          MaxVersions,   \* bound: versions recorded
          MaxChanges     \* bound: commits of the repository and objects erased

\* Sessions are numbered from 1.
WalkAssumption ==
    /\ SessionIds \subseteq Nat \ {0} /\ IsFiniteSet(SessionIds) /\ Restored \subseteq SessionIds
    /\ Slice \in Nat \ {0} /\ MaxVersions \in Nat /\ MaxChanges \in Nat

VARIABLES
    trees,     \* the repository: [session -> the content of its file, 0 for none] of each commit
    objects,   \* the store: session -> [content, there]
    sessions,  \* decision_log_sessions: the ids
    versions,  \* decision_log_transcripts: session -> its versions, the current one last
    source,    \* the evidence source: [configured, mapped]
    walk

walkVars == <<trees, objects, sessions, versions, source, walk>>
NoCommit == 0
Tip == Len(trees)
Recorded == {id \in SessionIds \X (1 .. MaxVersions) : id[2] <= Len(versions[id[1]])}
VersionAt(id) == versions[id[1]][id[2]]

\* An import from the repository, by a git sync (with its commit) or by the
\* command line; one from the store names its object.
FromRepository(v) == v.origin = "repository"
FromStore(v) == v.origin = "store"

\* The window of one check: the first sessions after the last one seen.
FirstOf(S) == {s \in S : Cardinality({r \in S : r < s}) < Slice}

NoSource == [configured |-> FALSE, mapped |-> TRUE]
IdleWalk == [pc |-> "idle", after |-> 0, next |-> 0, source |-> NoSource, rows |-> {}, seen |-> {}, found |-> {},
             known |-> {}, forged |-> {}, even |-> TRUE, plain |-> TRUE]

\* Sessions of an earlier portal are restored without versions.
WalkInit ==
    /\ trees = <<>> /\ objects = [s \in SessionIds |-> [content |-> 0, there |-> FALSE]]
    /\ sessions \in {{}, Restored} /\ versions = [s \in SessionIds |-> <<>>]
    /\ source = NoSource
    /\ walk = IdleWalk

Interrupts(uneven) ==
    walk' = IF walk.pc = "idle" THEN walk ELSE [walk EXCEPT !.even = @ /\ ~uneven]

Room == Tip + Cardinality({s \in SessionIds : objects[s].content # 0 /\ ~objects[s].there}) < MaxChanges

\* What the repository, the store and the administrator do.  Bound: files and
\* objects are written before the walk; they are imported during it too.
CommitFile(s) ==
    /\ walk.pc = "idle" /\ Room
    /\ trees' = Append(trees, [(IF Tip = 0 THEN [r \in SessionIds |-> 0] ELSE trees[Tip]) EXCEPT ![s] = Tip + 1])
    /\ UNCHANGED <<objects, sessions, versions, source, walk>>

PutObject(s) ==
    /\ walk.pc = "idle" /\ objects[s].content = 0
    /\ objects' = [objects EXCEPT ![s] = [content |-> 1, there |-> TRUE]]
    /\ UNCHANGED <<trees, sessions, versions, source, walk>>

EraseObject(s) ==
    /\ objects[s].there /\ Room
    /\ objects' = [objects EXCEPT ![s].there = FALSE]
    /\ walk' = [walk EXCEPT !.plain = FALSE]
    /\ UNCHANGED <<trees, sessions, versions, source>>

ConfigureSource ==
    /\ ~source.configured /\ source' = [source EXCEPT !.configured = TRUE]
    /\ UNCHANGED <<trees, objects, sessions, versions, walk>>

RemapSource ==
    /\ source.configured /\ source.mapped /\ source' = [source EXCEPT !.mapped = FALSE]
    /\ walk' = [walk EXCEPT !.plain = FALSE]
    /\ UNCHANGED <<trees, objects, sessions, versions>>

\* import_decision_log, when it creates, extends or baselines a session.
Record(s, v) ==
    /\ Cardinality(Recorded) < MaxVersions
    /\ versions' = [versions EXCEPT ![s] = Append(@, v)] /\ sessions' = sessions \cup {s}
    /\ UNCHANGED <<trees, objects, source>>

Version(origin, commit, content) ==
    [origin |-> origin, commit |-> commit, content |-> content, strict |-> source.configured]

SyncFile(s) ==
    /\ source.configured /\ source.mapped /\ Tip > 0 /\ trees[Tip][s] # 0
    /\ Record(s, Version("repository", Tip, trees[Tip][s])) /\ Interrupts(versions[s] = <<>>)

\* cli import of a working copy, before there is a source to import from.
ImportDirectory(s) ==
    /\ ~source.configured /\ Tip > 0 /\ trees[Tip][s] # 0
    /\ Record(s, Version("repository", NoCommit, trees[Tip][s])) /\ Interrupts(versions[s] = <<>>)

ImportObject(s) ==
    /\ objects[s].there /\ Record(s, Version("store", NoCommit, objects[s].content))
    /\ Interrupts(versions[s] = <<>>)

\* An upload by the API is no version of the repository or the store.
UploadLog(s) == Record(s, Version("api", NoCommit, 0)) /\ Interrupts(versions[s] = <<>>)

\* The role that imports records a version that was never there, before the walk.
Forge(s, origin, commit, c) ==
    /\ walk.pc = "idle" /\ walk.forged = {}
    /\ origin = "repository" => source.configured
    /\ commit # NoCommit => origin = "repository"
    /\ origin = "store" => objects[s].content # 0
    /\ c # IF origin = "store" THEN objects[s].content ELSE IF commit = NoCommit THEN 0 ELSE trees[commit][s]
    /\ Record(s, Version(origin, commit, c))
    /\ walk' = [walk EXCEPT !.forged = {<<s, Len(versions[s]) + 1>>}]

------------------------------------------------------------------------------
(* The walk.                                                               *)

\* The first request, for a walk of the sessions there are.
BeginWalk ==
    /\ walk.pc = "idle"
    /\ walk' = [walk EXCEPT !.pc = "history", !.known = Recorded,
                            !.even = \A s \in sessions : versions[s] # <<>>]
    /\ UNCHANGED <<trees, objects, sessions, versions, source>>

\* next_after_session
NextOf(window) == IF Cardinality(window) >= Slice THEN Max(window) ELSE 0

Ahead(s) == s > walk.after

\* verify_decision_logs
CheckHistories ==
    LET window == FirstOf({s \in SessionIds : versions[s] # <<>> /\ Ahead(s)}) IN
    /\ walk.pc = "history"
    /\ walk' = [walk EXCEPT !.pc = "store", !.next = NextOf(window)]
    /\ UNCHANGED <<trees, objects, sessions, versions, source>>

\* verify_decision_logs_against_store: the rows, then, the transaction ended,
\* their objects.
StoreVersions(window) == {id \in Recorded : id[1] \in window /\ FromStore(VersionAt(id))}

ReadStoreVersions ==
    LET window == FirstOf({s \in SessionIds : Ahead(s) /\ \E i \in DOMAIN versions[s] : FromStore(versions[s][i])})
    IN /\ walk.pc = "store"
       /\ walk' = [walk EXCEPT !.pc = "objects", !.rows = StoreVersions(window)]
       /\ UNCHANGED <<trees, objects, sessions, versions, source>>

ObjectVerdict(id) ==
    IF ~objects[id[1]].there THEN "missing"
    ELSE IF objects[id[1]].content # VersionAt(id).content THEN "mismatches" ELSE "ok"

Checked(ids, verdict(_), then) ==
    walk' = [walk EXCEPT !.pc = then, !.rows = {}, !.seen = @ \cup ids,
                         !.found = @ \cup {<<id, verdict(id)>> : id \in {r \in ids : verdict(r) # "ok"}}]

ReadObjects ==
    /\ walk.pc = "objects" /\ Checked(walk.rows, ObjectVerdict, "repository")
    /\ UNCHANGED <<trees, objects, sessions, versions, source>>

\* verify_against_repo: a superseded version without a commit is left out.
IsRepositoryImport(id) ==
    /\ FromRepository(VersionAt(id))
    /\ VersionAt(id).commit # NoCommit \/ id[2] = Len(versions[id[1]])

\* A row as it is read: with the mapping of the source at that moment.
ReadRepositoryVersions ==
    LET window == FirstOf({s \in sessions : Ahead(s)}) IN
    /\ walk.pc = "repository"
    /\ walk' = [walk EXCEPT !.pc = "files", !.source = source,
                                !.rows = {id \in Recorded : id[1] \in window /\ IsRepositoryImport(id)}]
    /\ UNCHANGED <<trees, objects, sessions, versions, source>>

\* _fingerprint: the file at the commit the version records.
AtCommit(id) == IF VersionAt(id).commit > Tip THEN 0 ELSE trees[VersionAt(id).commit][id[1]]

FileVerdict(id) ==
    IF walk.source.configured /\ ~walk.source.mapped THEN "mismatches"
    ELSE IF VersionAt(id).commit = NoCommit
         THEN IF VersionAt(id).strict THEN "missing_commit" ELSE "no_commit"
    ELSE IF ~walk.source.configured THEN "no_source"
    ELSE IF AtCommit(id) = 0 THEN "missing"
    ELSE IF AtCommit(id) # VersionAt(id).content THEN "mismatches" ELSE "ok"

ReadFiles ==
    /\ walk.pc = "files" /\ Checked(walk.rows, FileVerdict, "answer")
    /\ UNCHANGED <<trees, objects, sessions, versions, source>>

\* The answer: the administrator goes on from next_after_session.
Answer ==
    /\ walk.pc = "answer"
    /\ walk' = IF walk.next = 0 THEN [walk EXCEPT !.pc = "done"]
               ELSE [walk EXCEPT !.pc = "history", !.after = walk.next]
    /\ UNCHANGED <<trees, objects, sessions, versions, source>>

WalkNext ==
    \/ \E s \in SessionIds : CommitFile(s) \/ PutObject(s) \/ UploadLog(s)
                            \/ EraseObject(s) \/ SyncFile(s) \/ ImportDirectory(s) \/ ImportObject(s)
    \/ \E s \in SessionIds, o \in {"repository", "store"}, k \in 0 .. Tip, c \in 1 .. MaxChanges : Forge(s, o, k, c)
    \/ ConfigureSource \/ RemapSource
    \/ BeginWalk \/ CheckHistories \/ ReadStoreVersions \/ ReadObjects
    \/ ReadRepositoryVersions \/ ReadFiles \/ Answer

WalkSpec == WalkInit /\ [][WalkNext]_walkVars

------------------------------------------------------------------------------
(* Properties.                                                             *)

Broken == \E f \in walk.found : f[2] \notin {"no_commit", "no_source"}

\* What the walk should have looked at: the versions recorded before it that
\* name a file of the repository or an object of the store.
Due == {id \in walk.known : FromStore(VersionAt(id)) \/ (FromRepository(VersionAt(id))
                                                          /\ VersionAt(id).commit # NoCommit)}

\* A walk followed to its end has looked at every version that was there when
\* it began, whatever was imported meanwhile, when every session had a version
\* and none was added while the walk was on; and a version that was forged then
\* made it broken.
WalkReachesAll ==
    walk.pc = "done" /\ walk.even =>
        /\ Due \subseteq walk.seen
        /\ walk.forged \cap Due # {} => Broken

\* A portal nobody forged a version in, whose source kept its mapping and whose
\* store kept its objects, is never called broken: not by a file that changed
\* since its version was recorded, nor by an import between the reads of a check.
HonestIsNotBroken == walk.forged = {} /\ walk.plain => ~Broken

\* What a verification in slices promises.
WalkIsTrue == WalkReachesAll /\ HonestIsNotBroken

\* The same without the condition: what README.md says of a resumed check.
EveryVersionFetched == walk.pc = "done" => Due \subseteq walk.seen
==============================================================================
