# A verification model of the AI Agent-First Trust Portal

TLA+ specifications of the portal's own protocols: who may execute a background
run, who leads the scheduler and when a schedule fires, how a git source, the
evidence store and files of datasets are brought in, how the decision logs of an
agent session keep their history, how the audit log stays one chain that a
published witness covers, who administers the portal, and how containers that
start together migrate one database. TLC checks them on small instances; TLAPS
proves the theorems of `JobRunsProofs`, `SchedulerProofs`, `AuditChainProofs`,
`AuditArchiveProofs`, `GitSyncProofs`, `EvidenceStoreProofs`, `PortalProofs` and
`DecisionLogsProofs` for every instance.

    tlc -config MCJobRuns.cfg MCJobRuns        # any run of PROJECT.json
    tlapm JobRunsProofs.tla                    # any module with theorems

`PROJECT.json` lists the components, the runs, for every property a mutant of the
code that breaks it, the source lines of every definition, the findings, the
hazards and the theorems. Paths below are relative to `src/`.

## 1. Inventory

The portal is a Flask application over PostgreSQL, served by several gunicorn
workers. Each worker has a standby scheduler thread; one of them leads and
dispatches background runs to a thread pool. The CLI executes the same code in
processes of its own. All coordination goes through the database: advisory
locks, partial unique indexes, compare-and-set updates and triggers.

| Component | State | Operations | What is hard | Correct when |
|---|---|---|---|---|
| **Job runs** (`services/scheduler.py`, `services/collector_executor.py`) | run rows (`status`, `executor_token`, `heartbeat_at`), a session-level advisory lock per target | enqueue, claim, heartbeat, commit check, record or fail an outcome, reap | the lock's session ends unnoticed, the process dies, the reaper races a heartbeat, targets collide on crc32 | a run is started and closed once, one active run per target, a dead executor's run does not stay running, nothing is written after ownership is lost |
| **Scheduler leadership** (`SchedulerService`) | leader lock session, `_inflight`, thread pool, `_stop` | elect, check, reap, dispatch, step down, stop | two processes that both think they lead; a process that leads again while threads of its old pool still execute | somebody leads again, never more than `MAX_CONCURRENT_RUNS`, never a run twice in a process |
| **Cron schedules** | cron expression per target, the leader's jobs, `_job_since` | reconcile, fire, catch up, edit | fires between two leaders, edits under a leader, manual runs at the same instant | no fire forgotten but one its leader failed to queue, and that until the next leader; none given two runs |
| **Git sources** (`services/git_sources/`) | source row (mappings, `last_synced_commit`), file records, versions, commits | sync run (diff, tree, full), retry, edit, set commit | every file commits on its own, the commit moves at the end; edits meanwhile; files that fail | what a diff skips is already right; a success means the head; retries settle |
| **Git providers** (`git_sources/providers.py`) | a run's caches, a local directory's digests | trees, blobs, changes and commits between two commits | merges, rewritten branches, answers cut at a limit, files written while they are read | the answer is the range or the tree, whatever the API leaves out |
| **Decision logs** (`evidence_import_decision_logs.py`, `transcript_ingest.py`, `decision_log_*verify.py`) | session, entries, versions, byte budget | parse, import from repository, store, directory, member, admin; verify in slices | exports in any order from sources of different authority; a format known only midway; waits for bytes and locks | history only grows except where the repository replaced it; a walk reaches every version |
| **Dataset import** (`evidence_import.py`, `cli/loaders`) | the domain tables, a run's context | compare and write one file's records, roll back | references between files, rows changed by the API, one path in several sources | a second import writes nothing; a file fails for itself only; a namespace holds its own file |
| **Evidence store** (`services/evidence_store/`) | object records, imports, attempts | list, read, plan, record, retry; verify, in slices | a read without a transaction, two executors, equal findings elsewhere | every version settles; no false alarm; a forged record is found |
| **Audit chain** (`migrations/versions/016_audit_log_v2.py`, `audit_chain.py`) | `audit_log` rows, the chain lock | append in a trigger, upgrade, anchor, verify in queries and slices | concurrent appends, a log that grows while it is verified | one chain, damage found, no false alarm |
| **Audit witness, archive** (`audit_witness.py`, `audit_archive*.py`, migration 020) | published heads in S3, the process's memory, manifests | arm, publish, compare, archive, anchor, restore | publication races rows, other publishers and a restore; clocks disagree | a lost or replaced row is found; what stands is not reported |
| **Members and sessions** (`team_service.py`, `auth.py`, `routes/setup.py`) | members, keys, session epochs | set up, create, deactivate, sign in and out | two admins deactivated at once, cookies of changed members, expiry under way | a usable admin stays; ended sessions stay ended |
| **Sign-in budgets** (`rate_limit.py`) | counters per client and window | consume, reset, prune | processes that count together, a window that ends midway | no client exceeds its budget in a window |
| **Tests and journey** (`routes/api.py`, `compliance_engine.py`) | test rows, evidence, policies, controls | record singly and in batches; phases, scores, next actions | items that fail on their own, requests on one row | the status is that of an execution, never an outcome a request only loaded; no gap is hidden |
| **Collectors and credentials** (`collectors_api.py`, `routes/admin.py`, `credential_resolver.py`, `permission_prober.py`, `collectors/git`) | a configuration row with encrypted credentials | save, probe, run, check change records | two administrators on one row, an account that changes while it is probed, commits beyond the limit | no save takes back another's mode or credentials; a pass means the permission, or the record |
| **Deployment** (`migrations/env.py`, `cli/db_cmd.py`, `entrypoint.sh`) | schema revision, role privileges, locks | classify, lock without waiting, migrate, provision, serve | containers of several releases and a portal that serves | no cycle of locks; who serves finds its schema and a safe role |
| Settings, templates, CloudFormation, TrustCloud import | none | one call each | no protocol between actors | – |

How they interact: routes, the CLI and the scheduler queue *runs*; the leader
dispatches them to executors; an executor holds the *target lock* and, through
the run guard, checks it before every commit of a collector's results, a *git
sync* or a *store sync*; both import datasets, findings and *decision logs*,
which take a byte slot, the session's lock and the chain's lock in this order;
every write appends to the *audit chain* in its transaction; the witness
publishes the chain's head; the verifications read all of it back.

The 40 hazards of `PROJECT.json` are the hard behaviours at their lines.

## 2. The modules

| Module | Models | Uses |
|---|---|---|
| `RunLifecycle` | abstract: the rows of the run tables, whoever executes them; proved about in `JobRunsProofs` | – |
| `JobRuns`, `JobRunsProofs` | claiming, guard, heartbeat, outcome, release, reaper, faults; invariant, refinement, theorems | `INSTANCE RunLifecycle` |
| `Leadership`, `Schedules`, `SchedulerProofs` | election, dispatch, stand-down, threads; jobs, fires, catch-up, edits; invariants, theorems | – |
| `GitSync`, `DatasetImport`, `GitSyncProofs` | runs of one git source, its branch and its administrator; files of datasets beside the REST routes; invariants, theorems | – |
| `GitHistory`, `GitDiff`, `LocalSource` | what the providers answer a sync | – |
| `DecisionLogs`, `ImportSlots`, `PentestFiles`, `DecisionLogsProofs` | the imports of one session, its versions, the verifier; waiting for room and locks; files of findings by namespace; invariants, theorems | – |
| `Transcripts`, `ChunkedFiles`, `TranscriptDirectory` | from bytes to an import: parser, parts, a directory | – |
| `EvidenceStore`, `StoreSweep`, `EvidenceStoreProofs` | the store's syncs and the verification of their records; that verification in slices; invariants, theorems | – |
| `AuditLedger` | abstract: an append-only chain | – |
| `AuditChain`, `HistoryWalk`, `AuditChainProofs` | the triggers, migration 016, the anchor, the verification; the verification of the decision logs in slices; invariants, refinement, theorems | `INSTANCE AuditLedger` |
| `AuditWitness`, `AuditArchive`, `AuditArchiveProofs` | publishers and restores; the cutover to a new database; invariant, theorems | `AuditArchive` EXTENDS `AuditWitness` |
| `Members`, `RateLimit`, `Collectors`, `PermissionProbe`, `TestRecords`, `Journey`, `Deployment`, `PortalProofs` | the component of that name; invariants, theorems | – |
| `ChangeRecords` | the component of that name, model-checked only | – |
| `MCImports`, `MCPortal` | small instances of the components that bring evidence in, and of those that serve the portal | INSTANCE them |
| other `MC*` | the instance of one module | the module they name |

The modules are layers: `Leadership` takes for granted what `JobRuns` shows (a
run is claimed once), `Schedules` that leaderships follow one another,
`GitSync` and `EvidenceStore` what one run and the loss of its lock are,
`DecisionLogs` that an import is alone on its session (`ImportSlots` models the
locks that see to it), `GitSync` what `GitDiff` and `GitHistory` show of the
providers, `HistoryWalk` the outcomes of `DecisionLogs`, `StoreSweep` the check of one
record of `EvidenceStore`, and `AuditArchive` that the rows of a log are one chain.

`MCImports` and `MCPortal` put components that share no state beside each
other: `part` says which one a behaviour is of, its variables start as its own Init
says and move by its own Next, all the others are `Off`. One run then checks them
all without multiplying their states, and each property speaks of its part only.

### Jobs, leadership, schedules

`JobRuns`: `status`, `token`, `age`, `rowLock` are the columns of a run's row (`age` is how
long ago its heartbeat was, `rowLock` the transaction that has the row updated but not
committed), `holder` the sessions of the advisory locks, `pc`, `run`, `lost` the
local state of `execute_claimed` and its `RunGuard`, `rpc`, `rrun`, `expired` that
of `_reap_run`. One action is one database statement or commit, so the commit check
(`CheckData`, `CheckOutcome`, `before_commit`) and the commit (`CommitData`,
`RecordOutcome`) are two steps, and `Verified` may not have been able to read the run table
(`unknown`) and relies on the lock alone, as `RunGuard.verify` does. `Beat` is the
heartbeat thread. `EndSession` ends a lock's session without its client noticing, `Die` and
`Bury` kill a process and let the server clean up, `Recover` and `GiveUp` fail a
statement. `late` is a history variable: commits made under the guard after the lock was gone. A run is
claimed at most once in its life, so the executor itself serves as token.

`Leadership`: one process is one gunicorn worker. `leaderLock` is the session that holds
`LEADER_LOCK_KEY`; `leader[p]` what the process believes. `phase` is where `_run` is;
`inflight`, `waiting`, `working` are `_inflight`, the futures of the pool and the runs on
threads of any pool the process ever had. `StepDown` cancels the futures and leaves
their keys in `_inflight`, as the code does. `cancelled` is a history variable.

`Schedules`: time is 0..`MaxTime`; a cron expression is the set of instants at which it fires.
`Reconcile` mirrors the enabled schedules and, the first
time a leader runs it, catches up; `Fire` coalesces due fires, drops late ones and
skips an active target. Either may fail for a target: `unadded` are those whose job cannot be
added, `raises` those whose run cannot be queued. `owed`, `made` and `raised` (fires this leader's errors left
without a run) are history variables.

### Git

`GitSync`: a commit is its position in `history`, known by the tree it holds. `Begin` takes the
snapshot (`SourceSnapshot`), `ResolveHead`, `Discover`, `ProcessFile` (once per
candidate, each in its own transaction), `RecordCommits` and `Finish` are the steps of
`execute_sync_run`, with commits and edits in between. What a file holds decides how it is imported: a dataset whose
records refer to others (`Needs`) may be incomplete while no stored file lists them (`MissesReference`), and a
flawed file is incomplete or refused on every sync (`RefuseFile`). `FailRun`, `FailUnknown` and
`Interrupt` end it early. `adrift` is a history variable: files whose
record no later diff is bound to bring to the head (an unfinished run wrote them, an administrator
vouched for a commit, the mappings changed during a run, or a deletion failed).

`GitHistory` walks any history of four commits as `_HistoryWalk` does: a heap of
commits by date, marks of what is reachable from the last synchronised one
carried to ancestors already emitted, a limit; the same range from GitHub's comparison
or its list. A commit may be dated before its parents, which are then emitted and taken back. `GitDiff` applies one answer after another to `view`. `LocalSource` is a
directory that is written while a run scans, hashes and reads it; a provider lives as
long as one run.

### Decision logs

`DecisionLogs`: one action per outcome of `_import`: `Create`, `Extend`, `AdoptRepositoryVersion`,
`Baseline`, `Reject`, `Backfill`; "unchanged" and "kept_existing" change nothing. `Outcome` orders
the conditions as `_import` does. An upload is its authority (system, store, admin,
member), where the version says it comes from and its submitter. The entries' digest is
the entries; exports of one content digest hold the same ones (`DecisionLogsAssumption`: a parse of the same
bytes). An entry is its text, its time (0: none) and the form its tool calls are stored in,
which comparisons ignore and digests do not. A session may start *restored*: its
entries without versions, as an earlier portal left it.

`Transcripts` keeps both parses until a record tells the formats apart; a line is the
fields the parser looks at, each absent, unusable or given. `ChunkedFiles` is a writer
that replaces part after part beside a reader. `TranscriptDirectory` scans, then
imports each session's best export while others are written. `ImportSlots` has the line of the
byte budget, sleepers and wake-ups, the session's and the chain's locks.

`HistoryWalk` is one verification followed with `next_after_session`: three checks per
request, each with a window of its own, over sessions that are imported, erased and
remapped meanwhile; `even` says that every session had a version and none was
added. `StoreSweep` is the same for the store's records and prefixes, within budgets of items and bytes.

### Evidence

`DatasetImport`: four datasets stand for the seven of lists: one referred to, one that must
refer, one that is linked where it can be, and evidence, which names a test that is looked up among the stored ones (`NamedTest`). `Created` and `Updated` are the entries of a file that differ from
the rows, `RowsAfter` what is stored, `Refused` whether the database takes it. A run keeps a context (`known`, `planned`) that a file's
rollback empties. `PentestFiles`: a namespace (command line, source, store) and a path own
findings; ids are derived from contents and namespace. `EvidenceStore`: `rec` is the
record of an object version, `ex` an executor's sync with its listing and plan; between listing, reading
and writing anything else may move, and a lost lock lets another executor start.
`Forge` adds a record below the application; `RecordHolds` derives each record's
outcome again from its body.

### Audit

`AuditChain`: a transaction takes the chain lock with its first audited statement (since 016),
its rows read the head and commit together; `Upgrade` waits for open transactions.
The verification `v` goes by queries of `ChunkRows` and slices of `SliceRows`. A row's hash is its id.
`ImplementsLedger` maps the rows committed since 016 to `AuditLedger`.
`AuditWitness`: a head is the log up to its last row; the bucket keeps every version at a
key of row and second; a process remembers what it published; a restore cuts the log.
`AuditArchive` adds the archive's steps, its manifest and anchor, and the auditor's verdict. A
manifest may rest on earlier ones (`Lineage`, at most `MaxLineage`, the code's constant): the
code walks it from one `source` to the next, the model takes the least set closed under that step.

### The portal

`Members`: `member` holds the rows and `keys` the issued keys; a request reads (`Ask...`),
locks and checks, and commits in steps of its own while time passes; a sign-in's cookie carries the row as it is
when it is issued (`CookieOf`), since the commit of `rate_limit.reset` has the row read again. `RateLimit` counts attempts per client
and window in one statement. `Collectors`: two administrators' requests load the row, and write
the columns that differ; a run resolves the credentials of its own copy.
`PermissionProbe` tries actions one after another, most on something a first call found.
`ChangeRecords` reads commits breadth-first to a limit and judges those in the window.
`TestRecords`: requests load a test once and write what differs; items are refused on their own. The history
variables `standing` and `missed` are the outcomes a row may show: the last execution's and those committed while
its request was under way.
`Journey` reads its counts statement by statement and derives phases, scores and actions.
`Deployment`: containers of three releases; a revision is the tables it alters and creates; a serving
portal's transactions take and wait for locks in the writers' order; a migration plans the locks its pending revisions need in the
same order (`InOrder`) and asks for each without waiting.

## 3. The runs

| Run | Instance | Distinct states | Shows |
|---|---|---|---|
| `audit_chain` | two writers, four rows, upgrade to migration 016, two damaged rows, one verification in slices | 470 875 | the rows form one chain and implement `AuditLedger`; damage is found, no false alarm |
| `audit_archive` | two databases, a publisher each, two rows a log, one restore, one archive | 1 048 940 | what a publisher remembers is in the bucket; lost published rows are found; no false alarm |
| `evidence_store` | two executors, two versions of any of three kinds, one fault | 948 856 | records agree with the bodies, forged ones are found, a success has settled what it listed, records stand |
| `evidence_store_progress` | one executor, two versions of one pentest file, one fault, fair | 111 596 | every version is settled in the end |
| `git_sync` | two paths, three contents, two mappings, three commits, one trouble, fair | 388 790 | no file is forgotten; every file reaches its head but those adrift, flawed or left without what they refer to |
| `job_runs_safety` | two executors, one reaper, two runs of one target, `ReapGrace` 1, two faults, symmetric | 567 617 | a held lock means a running row; one late commit at most; implements `RunLifecycle` |
| `job_runs_progress` | one executor, one reaper, two targets with one lock key, `ReapGrace` 0, two faults, fair | 27 540 | every queued run closes |
| `leadership` | two processes, two runs, one slot, two faults, fair | 23 664 | the limit, no run twice, recovery of leadership and of queued runs |
| `leadership_leak` | one process, two runs, one slot, one fault, fair | stops at the counterexample | **violation** of `QueuedRunsExecuted`: a key left in `_inflight` |
| `imports` | eleven parts, one at a time | 755 202 | the components that bring evidence in (table below) |
| `portal` | ten parts, one at a time | 2 508 519 | the components that serve members, schedule and verify (table below) |
| `verification_walk` | two sessions, the first restored without versions, one in a slice | stops at the counterexample | **violation** of `EveryVersionFetched` |

What the composites' properties hold together:

| Property | Of | It says |
|---|---|---|
| `DatasetsAreImported` | `DatasetImport` | a second import of unchanged files writes nothing; a file fails for its own contents only; a dry run reports what a real one does (of evidence, where its names mean the same tests before and after) |
| `FindingsAreHeld` | `PentestFiles` | a namespace holds what its file had; a holder matches exactly when its rows are the file's |
| `TranscriptsAreWhole` | `Transcripts`, `ChunkedFiles`, `TranscriptDirectory` | one format per transcript; a version that was written, or a refusal; each session's longest export, or its own failure |
| `ImportsMove` | `ImportSlots` | never all waiting; bytes in use are those of imports under way |
| `LogsAreFaithful`, `LogsAreKept` | `DecisionLogs` | histories grow, verifications are a source's, the repository stands, members extend their own; nothing supplied changes, no version is lost |
| `SourcesAreExact` | `GitHistory`, `GitDiff`, `LocalSource` | the range newest first where commits are dated after their parents, and elsewhere nothing new left out and all that was learnt to be old taken back; the tree; the content its blob names |
| `ChangesAreRecorded` | `ChangeRecords` | a pass means recorded changes |
| `MembersStand` | `Members` | a usable administrator stays, one bootstrap, cookies refused or logged out stay so |
| `BudgetsHold`, `ProbeTells` | `RateLimit`, `PermissionProbe` | as named |
| `StatusIsOutcome` | `TestRecords` | a test's status is that of the outcome shown, which is the last execution's or one committed while that request was under way |
| `JourneyIsTrue` | `Journey` | phases, scores and next actions are those of the records |
| `CredentialsStand` | `Collectors` | a save that keeps the credentials, or the mode, does not bring back those it read; stored credentials are one save's |
| `RolloutIsSafe` | `Deployment` | no cycle of locks, revisions hold their locks, a server finds its schema and a safe role |
| `FiresAreRun` | `Schedules` | no fire forgotten but those a leader failed to queue, and these only until the next one; none run twice |
| `WalksAreWhole` | `StoreSweep`, `HistoryWalk` | valid slices saw everything, slices advance; a walk reaches every version and calls only what was forged broken |

Why the bounds are enough. *JobRuns*: every race is between two executors of one
target, or an executor and a reaper; two runs let one follow the other under the
same lock, two faults let a session end and the commit or the process fail after it.
Symmetry is used for safety only. The safety properties are also proved without bounds.
*Leadership*: the limit is reached with one slot and two runs; a hand-over and a second
leadership need two faults. *Schedules*: a missed fire, an edit and a
second successor fit into six instants, with a fire the two expressions share.
*GitSync*: the hazards need a file recorded, changed and changed back (three commits), one
file that refers to another (two paths), a content that lists what it needs and one that does not, and one thing that goes wrong. *GitHistory*: four commits
hold a merge whose sides meet again before and after the last synchronised one; one of them, the last synchronised one, may be older than its parents, and its parent and grandparent are met first.
*GitDiff*: three paths against a comparison of two. *DecisionLogs*: two entries give a difference
at the first, at the last and beyond the end; three versions give a
conflict before and after an extension. *Transcripts*: the format can show on the first, second or last of three lines,
before or after an error. *ImportSlots*: three imports: one inside, one first in line, one behind it. *AuditChain*: four rows:
one of the old trigger, a fork, the first new one and one that follows it in another slice.
*AuditArchive*: two rows and one restore within one second suffice for a row written again
that wants the key of the lost one. *EvidenceStore*: two versions, of any kind and of equal findings, and two
executors. *Members*: two members and two requests are the race for the last administrator. *StoreSweep* and *HistoryWalk* in the composite: no session is restored without versions, which is what `verification_walk` is for. *Deployment*: three
containers: one that migrated already, one that migrates on an old plan and one that serves. *HistoryWalk*: two sessions, one in a slice.

`CHECK_DEADLOCK FALSE` is set wherever a bounded supply (runs, rows, instants,
writes) runs out: everywhere but in `Leadership` and `MCGitSync`.

### Fairness

`JobRuns`: a live thread goes on and the server ends a vanished client's sessions
(the keepalives of `LOCK_CONNECT_ARGS`), so `Progress(e)` and a reaper's steps are weakly fair. The leader's poll and
the reaper look at every queued and every stale run on a timer, so a run
found again and again is taken (`SF` of `Pick`, `SelectStale`); a job has finitely many
commits, so it comes to its outcome (`SF` of `UpdateOutcome`). Neither
heartbeats nor faults are assumed. `Leadership`: the loop, the threads and
gunicorn's restart are weakly fair; `Claim`, `Dispatch` and `Reap` of a run are strongly fair, because each turn
looks at all of them. `GitSync`: a sync is asked for again and again and a run that
executes goes on; nothing is asked of commits, edits or failures, which are bounded by the budget.
`EvidenceStore`: an executor goes on (`WF`) and the hourly schedule queues a sync of each bucket again and again (`SF`).
The other modules state no liveness.

## 4. What is proved

`JobAssumption` (the lock keys and targets are functions, executors and reapers are
different and `NoOne` is neither) is all the job-runner theorems assume: any
number of executors, reapers, runs, faults, any collision of keys, any grace.

- `TypeCorrect`, `LockMeansOwnership`, `OneLateCommit`: `TypeOK`, `HeldMeansRunning`,
  `AtMostOneLateCommit` always hold. They are not inductive by themselves.
  `IInv == TypeOK /\ Safe` adds: a claimed run carries its executor's token and is past queued
  (`Claimed`); a row an executor has updated stays locked and its own (`OwnRow`); a
  reaper that got the target lock has shut out the run's executor (`ReaperExcludes`), which
  is why it may fail the run although its cutoff is old; reaped runs were started
  (`ReapsStarted`); and after a late commit the executor's lock is gone for good, since a lock is
  only ever acquired before the claim (`LateIsLast`).
- `RefinesLifecycle`: `JobRuns` implements `RunLifecycle`; each step is a `Queue`, `Start` or
  `Close` of one run, or a stutter. With the life cycle's own invariant
  (`OneActiveInLifecycle`) it gives `OneActiveRunPerTarget`.

`LeadershipAssumption` (finitely many runs, `NoOne` is no process) is all that
`WithinLimit` and `NeverTwice` assume. Their invariant `Tracked` says that every run waiting for
or on a thread has its key in `_inflight`, that none does both, and that `_inflight` is never
larger than the limit; it is what makes the set, kept across leaderships, the real cap.

`SchedulesAssumption` (collectors are targets, the bounds are numbers, expressions fire at instants) is all that `FiresRunOnce` assumes. `SchedulesInv`
says of each target: a leader's job comes no later than the next fire of its expression (`JobAhead`); what is owed passed after
the latest run, and once a leader has reconciled only what its job still comes to is owed, and what it failed to queue (`OwedSince`); and fires were given runs in their order, all
before the latest run and the job's next fire (`MadeInOrder`). The last is why a catch-up, a late fire and a manual run never give one fire two.

`AuditAssumption` (ids are bounded, genesis and an archived hash are no row's, `NoWriter` is no
writer) is all that the theorems of `AuditChainProofs` assume; any number of writers and rows, any damage.

- `RowsFormOneChain`: `OneChain` speaks of committed rows only; `IInv` carries it through open
  transactions: since 016 only the lock's holder is in one (`Exclusive`), its rows follow all that is
  committed, each is linked in the log it will commit, and the head its trigger has read is still the head
  (`Follows`); before 016 no row is of the new trigger or an anchor (`OldRows`); damage leaves a last row, so
  that the head a trigger reads is that of every row ever committed (`TailStands`, `SameLast`). A last row exists by
  the order in which ids are given out (`Sequenced`).
- `RefinesLedger`: the rows committed since 016, sorted by id, are the abstract ledger: a commit appends its
  transaction's rows to it, linked to its last, every other step leaves it.
- `NoFalseAlarms`, `DamageIsFound`: two more layers of invariant. `RowsInv` says what the rows ever committed are,
  in the log or lost (`Rooted`: each hangs on an earlier one, on the root, or races one of the old trigger; `Ranks`: each has its place in
  the sorted log). `Findings` follows the verification while nothing is damaged under it: the row it expects is the
  last one it read (`Place`); every row behind it that is out of place or altered is noted or judged (`Noted`), what is
  noted and judged is so (`Founded`), and when it is done only undamaged rows of the new trigger come after it
  (`Ended`). The row before a row exists because a set of numbers has a least member, which the library's
  well-founded induction gives (`LeastNumber`).

`WitnessAssumption` and `ArchiveAssumption` (`Serves` maps publishers to databases, the bounds are numbers, the retired are
databases) are all that `AuditArchiveProofs` assumes. `RememberedStay`, `LossIsFound` and `NoFalseAlarms` follow from
`AInv`: every head that anybody read, published or archived is the log up to a row and, when that log is anchored, rests
on archives whose final heads were published *before* it (`Sound`, in `LogsOK`, `CallsOK`, `ObjectsOK`,
`ArchivingOK`, `ManifestsOK`). The order matters: an auditor's scan is any prefix of what is published, and one that
holds a head must hold what it rests on. A key is written once, so a remembered head stays (`RememberedOK`).
`NoFalseAlarm` has one premise for an auditor without access to the manifests: it knows only the archive that the log's own
anchor names (`AnchorNames`), so a third generation verifies with manifests only. The run has two databases; the
theorem covers any number of generations.

`WalksReachAll` (in `AuditChainProofs`) is about `HistoryWalk`, from `WalkAssumption` (sessions' ids are positive and finitely many, the bounds are numbers). A slice is a window of
sessions, given by how many of the recorded ones come before. `WalkInv` says of every version due to a walk that it lies ahead of the cursor, was seen, or is in the window being read
(`Covered`), and that the three checks of an even walk have the same window (`NextIs`); a forged version's bytes differ in some place a check looks (`ForgedDiffers`), an
honest one's agree in all (`AllHonest`, `ObjectsThere`). `SweepsSeeAll` (in `EvidenceStoreProofs`) is about `StoreSweep`, from `SweepAssumption`
(ids are positive and finitely many, a budget has room for an item). `SweepInv` says that everything counted lies behind the cursor (`CountedOnce`), so that nothing is counted
twice; that what was wrong when the run began and still is lies ahead as long as no slice has failed (`Ahead`); and that an open slice is past its
beginning as soon as it has checked a record (`Behind`), which the first record of a slice always is (`TakenIs`). Pages and windows are sets here, whose facts follow from
cardinalities and a least and a greatest number (`PageIs`); what a page costs is a sum that no proof looks into: the budget's own test is enough.

`SyncAssumption` (there is a commit, `NoCommit` is no number, `Absent` is no content, mappings give kinds, contents need contents) is all that
`GitSyncProofs` assumes: any files, contents, references and flaws, mappings, length of the branch and number of troubles. `GInv` follows one run
from its snapshot to its end. At the start, the files not adrift are as the commit it starts from has them, or are read again
(`StartOK`). While it goes on, a file it has not recorded either needs no reading (`Settled`: the diff shows no change,
or the tree's blob is the recorded one) or is among its candidates (`CoverOK`, `CandidatesOK`); a file it has recorded is at
the head or marked to be read again, and is adrift until the run ends (`WrittenOK`). At the end no candidates are left, so the head
takes the starting commit's place: `ForgetsNothing`. A clean run marked none: `SuccessIsAtHead`.

`DatasetImportAssumption` (files list items whose ids are records' or missing; the values that stand for none are told apart, and the routes do not write what
PostgreSQL refuses) is all that `ImportsAreDiffs` assumes, for any records, columns' values and files. That a second import writes nothing is a fact about the
operators: the entries of a file are found again (`EntriesAre`: one per id), each finds what it wrote, links included, and what was skipped or unchanged
still is (`WritesNothingAgain`). A dry run and a real one go in parallel: what the one has stored the other has planned, so both know the same controls before each
file (`Parallel`). Evidence goes in parallel only where its names mean the same tests in both (`ResolvedSame`): a dry run looks them up among those
stored before (`evidence_import.py:109-111`). That a file fails for itself needs the invariant `DatasetsInv`: no row holds what is refused, and a real run under which no control was
deleted knows only controls that are stored (`ContextHolds`), which is what forgetting a rolled-back file's ids is for.

`EvidenceStoreAssumption` (each kind's bodies are of that kind, a session's entries are numbered, `Null` and `Malformed`
are told apart from what they stand beside) is all that `EvidenceStoreProofs` assumes. `EInv` gives every record the reason for its
outcome (`Genuine`: by the body alone, by an import that stored its findings or others, by the session's entries), accounts for everything
imported by a record (`ContentOK`), gives every plan that is not yet written its reason (`PlanOK`) and every version a run listed its
place (`Accounted`: settled, still to be read, or being written). The proof is that these reasons *last*
(`Lasting`): bodies do not change, a version does not come back, sessions only grow, and the guard on the records lets no step take an
import's record away. A plan made before others wrote is right when it is written, and `RecordReplaced` is where
the guard (`GuardAllows`) is needed. From `EInv`: `NoFalseAlarms`, `ForgeriesAreFound`, `SuccessMeansComplete`; `RecordsDoStand`
is the guard's action property. `ForgeryFound` speaks of one made-up record among genuine ones: two made-up records of equal findings can
vouch for one another (one claims to have stored them, the other to be unchanged), which the verification of the first reports,
the second's does not.

`MembersAssumption` (`Null` and `Never` are no ids, times or members) is all that
`AdministratorStays`, `OneSetup` and `EndedSessionsStayEnded` assume. What a request checked
still holds when it writes, because it holds the lock (`LockHeld`) and no time passes meanwhile: another
administrator is there (`OtherRemains`), or no member that set-up created is active (`Bootstrapped`). Sessions stay ended
because members only age: `Ages` says of each step that no member is activated again, no epoch decreases and
a key is a fresh one; cookies and requests know keys issued and epochs reached before (`ReadTrue`). They speak of cookies that were issued: a sign-in under way is none. `MembersAreKept` puts the three together, as the run checks them.

The other theorems of `PortalProofs`:

- `BudgetsAreKept`, from `RateLimitAssumption` (the bounds are numbers, addresses and members are counted apart): the counters know of every attempt that was let
  through (`CountersKnow`), in every window not pruned; and no request counts in a pruned one, because it has ended by then (`InTime`). Any number of
  clients, of requests under way and of windows.
- `StatusIsTrue`, from `TestRecordsAssumption` (a batch's items are executions of tests): the status agrees with the outcome in the table and in every row a
  request has loaded or set and not yet written (`TestsInv`); a write of the columns that differ then mixes only rows that agree. A row's
  outcome is the one a request under way has loaded or one recorded since (`KnowsOutcomes`), so a write leaves its own outcome or one of those.
- `CredentialsAreKept` assumes nothing: `CollectorsInv` is the rows' shapes, and a commit that changes the secret was given one or clears it (`SecretWritten`),
  one that changes the mode chose another than it read (`CommitStep`).
- `PassesArePermissions`, from `ProbeAssumption` (`Nothing` is no action's name): what is being tried was found, or is tried in place of what was not (`TryingTrue`), and what
  is settled is settled rightly (`SettledTrue`), whatever the table of probes finds in the account and however policies change.
- `RolloutsAreSafe`, from `DeploymentAssumption` (tables are numbered up to the audit log, a transaction writes each once): a transaction holds the first locks of its plan (`HoldsFirsts`),
  only writers wait, for a lock they lack (`Waiters`), a plan covers what is still to run (`Planned`), and `UnderWay` ties each place of a start to the
  schema, the plan and the role it needs. No cycle closes because migrations never wait and two writers conflict only on the chain's lock, the last of
  every plan: who has it waits for nobody. That a set of locks has an order at all is an induction on its size, made by the least counterexample (`LeastNumber`).
- `JourneysAreTrue`, from `JourneyAssumption` (finitely many ids, `NoRecord` is no record): `JourneyInv` says that what was read is still so while nothing has changed, and that the score
  of now is among the request's. What the counts say of the records is then a matter of cardinalities (`ReadWhole`: a part of a finite set that is as large is all of it)
  and of one quotient (`ScoreIs`); that the current phase has something to do needs the phases before it, which are complete.

The runs `portal` and `imports` check the properties of one part after another, each under the part's name: the theorems state the part's own property, without that condition.

`DecisionLogsProofs`:

- `SessionsAreFaithful`, `NothingIsLost`, from `DecisionLogsAssumption` (triggerers are admins and admins members; entries are exported in the current form; exports of one digest hold
  the same ones; `Null` and `NoSession` are told apart). `IInv` says what the row of a session knows of its content (`ContentKnown`) and what the rows of versions are (`VersionsInv`): only
  rejected ones follow the current one, which has the entries (`CurrentIsLast`); a superseded one can still be read (`SupersededHave`); those since the last conflict are
  prefixes of the entries (`PrefixesSince`); consecutive ones grow, but where the repository replaced one (`InOrder`); and members' come before the first
  conflict and are the session's own (`MembersOwn`). `ConfirmedFromSource` is inductive beside them. Any exports, members and restored session.
- `NoneWaitsForever`, from `SlotsAssumption` (finitely many importers; a transcript of any size that is stored fits the budget): the line holds exactly the imports that wait, and its first sleeps
  only while there is no room for it (`Waiting`); a session's or the chain's lock is held by an import that has its slot, and who has the chain's has its session's
  (`LocksHeld`). The bytes taken are the cardinality of a set with one element per byte (`Taken`), so that sums need no induction.
- `HoldersAreExact`, from `PentestAssumption` (the namespaces differ, files list findings, no listed one has `OtherId`): an id that a content gives is one finding's (`OneOfAnId`). The ordinals among identical
  findings of a file are 0..n-1, which follows from cardinalities; so a file's ids and the stored rows' can be compared.

Only model-checked:

- Liveness, since TLAPS has no fairness here: `QueuedRunsClose`, `EveryVersionSettles`, `ConvergesUnlessAdrift`, `LeadershipRecovers`, `ExecutedUnlessCancelled`.
- `SourcesAreExact` and `TranscriptsAreWhole`: `GitHistory` declares RECURSIVE operators (the heap of a walk), and the parsers and the parts of a file compute over data by folds; what they
  return for every input would need an induction over data. `ChangesAreRecorded` (a breadth-first walk) likewise.
  `AuditArchive`'s `Lineage` is a least fixed point for that reason: as a set it can be proved about.

## 5. Where the code and its documentation disagree

| Run | What the run shows |
|---|---|
| `leadership_leak` | `_step_down` cancels futures whose keys stay in `_inflight`: a process elected again dispatches less, or nothing. The window is a future no thread has taken yet. |
| `verification_walk` | A decision-log verification against the repository that is continued with `next_after_session` never fetches the versions of sessions that lie between the ends of its two windows, when a session restored without versions shortens the repository's one. |

Observations without a run of their own, met while modelling; the properties above are
stated so that they hold with them:

- *Job runs*: an executor can commit once more after its lock's session
  ended, because check and commit use different connections (`AtMostOneLateCommit`).
- *Git sync*: a file written by a run that then failed, and reverted before the next one, is in no
  diff (`adrift`); an edit of the mappings during a source's first sync is not kept; a
  deletion that fails once is retried as a read; a file that is flawed, or refers to a record nobody lists, keeps every sync of
  its source partial (`HeldUp`); a tree comparison skips an unchanged blob
  whose mapping changed (`sync.py:321`, which a repository test fixes as intended).
- *Schedules*: a schedule changed under a leader is caught up by its successor for an instant before the change. A target whose run
  cannot be queued is skipped by `catch_up`, which is then over all the same (`scheduler.py:1263`, `1276`), and a `_cron_fire` that cannot queue
  is lost: such a fire has no run until another process leads, or for good when a later run comes first (`raised`).
- *Decision logs*: a git sync started by hand that wins a conflict writes a submitter where the verifier
  demands none. Narrowing the mappings turns versions into "mismatches". A `cli import` made after the source is
  configured counts as `missing_commit`. The span of a transcript covers only records with an object payload.
- *Evidence store*: attempts are bounded by the model only, a version that keeps failing is read by every
  sync; an object erased between the listing of rows and its `HeadObject` is "missing"; two buckets that
  synchronise at once can both store the findings of one path (`NoFalseAlarm` allows for it).
- *Archive*: the dump of a chain that was itself anchored does not verify: its anchor is checked against the heads of
  its own chain only.
- *Members*: a sign-in under way during a logout or a change of key ends with a valid session, though it gave the
  old key (`admin.py:48` commits, `auth.py:79-81` reads the row again). `regenerate_key` takes no lock of the administrators (`RekeyedMeanwhile`); `create-admin`
  commits before it writes the key file.
- *Collectors*: stored credentials do not say for which mode they were given. A save that gives only a new mode, or two saves at once, leaves them
  beside it, and a run uses them there if they hold its fields (`HasItsFields`), or fails. A run that cannot resolve its credentials leaves the last status; a result of a probe may stand beside a
  row saved since; the JSON configuration is read, changed and written whole.
- *Tests*: of two executions of a test that overlap, the later one writes only what differs from what it loaded: the row can keep the
  earlier one's outcome and status beside the later one's date and finding (`missed`). An item a batch reports as an error has its outcome committed; evidence added by a collector or
  by `POST /api/evidence` leaves the evidence's status.
- *Journey*: it reads without a snapshot; while the team works a score above 100 or a negative count is possible.
  Phase 6 asks for 80% of a score that is already rounded: 323 of 404 tests (79.95%) pass it.
- *Probe*: an account with nothing to try an action on passes it.
- *Change records*: a change behind a commit dated before the window, beyond the commits read, is not noticed.
- *Rollout*: two releases that start together on an empty database can plan fewer locks than they need for
  tables the other one creates meanwhile.
- *Sign-in*: across the end of a window a client has up to twice its budget.

## 6. What is simplified or left out

- Job runs: what a run writes is only the fact of a commit.
- Schedules: one leader after another; a job's addition and the queueing of its run are the steps that may fail, the queries before them are not; the field parser and the day-of-week translation are
  sets of instants.
- Git: what an imported dataset, document or transcript does is one outcome per file in `GitSync`
  (ok, incomplete, too large, error), and references are one level deep in the instance; HTTP, paging and authentication of the providers; submodules in a comparison. GitHub's lists are
  claimed only where every commit is dated after its parents.
- Decision logs: metadata fields and their sidecars, deadlock retries, a wait with a bound
  (it is none or unbounded), the SQLite paths. A member who is an admin stays one.
- Datasets: columns are one value, the second name evidence may give (`control_name`) and documents of the governance folder are left out; a file's import is one step, so no API
  change falls into it. One `cli import` at a time; two paths of one repository with one `source_file` are left out.
- Evidence store: taken ids, sidecars, unmapped keys, retention, inventories, the bucket's settings, the limit
  of re-evaluations, deadlock retries and restored baselines. Read and plan are one step, which
  commutes with an erasure; an executor that lost its lock completes at most the transaction it had checked.
- Audit: the witness's refusals of an unsafe bucket, the age of the newest head, the format of heads and dumps. A
  restore keeps the arming.
- Portal: the flush of a batch's first item before its second test is loaded; names, roles but the administrator's, client accounts' reports, the HTML pages. `rotate_ciphertext` has no caller
  and is left out.
- Rollout: a revision's DDL, CloudFormation and the shell around it.
- Not modelled at all: settings and logging (values read, no protocol), templates and hooks (documents),
  the TrustCloud reader (one-time), CloudFormation.

## 7. Plan

Done: first the layers everything else executes in (`RunLifecycle`, `JobRuns`, `Leadership`,
`Schedules`, `GitSync`, `DecisionLogs`), then the audit log with its witness and archive, the
evidence store, the imports and providers, the verifications in slices, and the
portal's own requests; then the proofs: the job runner, the scheduler, the audit log, the git sources, the imports of datasets, findings and
decision logs, the evidence store, the verifications in slices, and the portal's requests and rollout.

Left, most important first:

1. Governance documents, the cron day-of-week translation as a function against a reference, and
   the store's sidecars and inventories, should they gain state of their own.
