--------------------------- MODULE EvidenceStore ---------------------------
(***************************************************************************)
(* The evidence store (app/services/evidence_store): a write-once bucket   *)
(* of object versions, the portal's record of each version, the imports    *)
(* the syncs make from them, and the verification that derives every       *)
(* recorded outcome again from the version's body.                         *)
(*                                                                         *)
(* A version is listed, then read with no transaction open, then planned   *)
(* and written in a transaction of its own; between any two of these steps *)
(* another executor, another source of findings, an administrator or the   *)
(* bucket may move.  All pentest keys of the model stand for one path, so  *)
(* that keys of two buckets meet in the store's namespace.                 *)
(***************************************************************************)
EXTENDS Integers, FiniteSets, Sequences, SequencesExt

CONSTANTS Executors,     \* processes that can execute a sync run, numbered:
                         \* the lowest idle one claims the next run
          Objects,       \* object versions, numbered in the order of upload
          Keys,
          Bucket,        \* [Keys -> the bucket a key is in]
          Kind,          \* [Keys -> {"pentest", "log", "document"}]
          Findings,      \* the sets of findings a pentest file can hold
          Exports,       \* the entries a transcript can hold
          Bodies,        \* [kinds -> what may be uploaded]
          Holders,       \* the other namespaces: git sources, cli import
          MaxAttempts,   \* MAX_ATTEMPTS
          AttemptBound,  \* the count of failed attempts stops here
          FaultBound,    \* bound on failed reads, writes and listings, lost
                         \* locks and records the database role makes up
          KeyBound,      \* bound on the keys in use
          Forgeable,     \* bound: objects whose record may be made up
          \* Bodies without a usable checksum, over the limit of their kind,
          \* and refused by the pure content check:
          Bare, Large, Malformed,
          Null

Buckets == {Bucket[k] : k \in Keys}

\* Every other body is its content (nothing matters of a document's).
Unusable == {Bare, Large, Malformed}

\* What import_info keeps of a plan: the findings, the namespace that holds
\* them and whether this object's import stored them.
Info(findings, of, isStored) == [findings |-> findings, of |-> of, stored |-> isStored]
NoInfo == Info(Null, Null, FALSE)

RecordStatuses == {"ingested", "unchanged", "duplicate", "rejected", "non_conforming",
                   "too_large", "error", "acknowledged", "erased"}

\* A record: its status, failed attempts, import_info, and the status it had when
\* it was acknowledged.
ObjectRecord ==
    [status: RecordStatuses, attempts: Nat, was: RecordStatuses \cup {Null},
     info: [findings: Findings \cup {Null}, of: Holders \cup {Null}, stored: BOOLEAN]]

\* Entries of a session are numbered.  Nothing the model tells from Null is it.
ASSUME EvidenceStoreAssumption ==
    /\ {MaxAttempts, AttemptBound, FaultBound, KeyBound} \subseteq Nat
    /\ Kind \in [Keys -> {"pentest", "log", "document"}]
    /\ Objects \subseteq Nat /\ Executors \subseteq Nat
    /\ Exports \subseteq Seq(Nat)
    /\ Bodies["pentest"] \subseteq Findings \cup Unusable
    /\ Bodies["log"] \subseteq Exports \cup Unusable
    /\ Bodies["document"] \subseteq {Null, Bare, Large}
    /\ Malformed \notin {Null, Bare, Large}
    /\ Null \notin RecordStatuses /\ Null \notin ObjectRecord
    /\ \A k \in Keys : \A content \in Bodies[Kind[k]] :
          Null # [key |-> k, content |-> content]

VARIABLES
    s3,         \* [Keys -> the key's versions, first write first]
    body,       \* [Objects -> its body, key included; Null before the upload]
    rec,        \* evidence_store_objects: [Objects -> record or Null]
    held,       \* pentest_findings of the path, by other namespace
    stored,     \* pentest_findings of the path, store's namespace, by version
    session,    \* decision_log_entries of the session
    versions,   \* objects that a current or superseded transcript came from
    documents,  \* evidence_documents, by object
    ex,         \* the executors
    faults,     \* faults injected so far
    forged      \* objects whose record the database role made up

db == <<rec, held, stored, session, versions, documents>>
vars == <<s3, body, rec, held, stored, session, versions, documents, ex,
          faults, forged>>

KeyOf(o) == body[o].key
KindOf(o) == Kind[KeyOf(o)]
ContentOf(o) == body[o].content
Uploaded == {o \in Objects : body[o] # Null}
InStore(o) == o \in Uploaded /\ \E i \in DOMAIN s3[KeyOf(o)] : s3[KeyOf(o)][i] = o
Recorded == {o \in Objects : rec[o] # Null}
HasStatus(o, statuses) == rec[o] # Null /\ rec[o].status \in statuses

Idle == [pc |-> "idle", bucket |-> Null, todo |-> {}, cur |-> Null,
         plan |-> Null, status |-> "unchanged", listed |-> {}]

Init ==
    /\ s3 = [k \in Keys |-> <<>>]
    /\ body = [o \in Objects |-> Null]
    /\ rec = [o \in Objects |-> Null]
    /\ held = [h \in Holders |-> {}]
    /\ stored = [o \in Objects |-> {}]
    /\ session = <<>>
    /\ versions = {} /\ documents = {} /\ forged = {}
    /\ ex = [e \in Executors |-> Idle]
    /\ faults = 0

-----------------------------------------------------------------------------
(* The world around the syncs.                                             *)

\* A producer writes a version.  A second version of a key should not exist
\* (If-None-Match), but the portal has to live with one.
Upload(o, k, content) ==
    /\ body[o] = Null /\ \A v \in Objects : v < o => v \in Uploaded
    /\ Cardinality({KeyOf(v) : v \in Uploaded} \cup {k}) <= KeyBound
    /\ s3' = [s3 EXCEPT ![k] = Append(@, o)]
    /\ body' = [body EXCEPT ![o] = [key |-> k, content |-> content]]
    /\ UNCHANGED <<db, ex, faults, forged>>

\* The documented erasure of a version in the bucket.
EraseVersion(o) ==
    /\ InStore(o)
    /\ \E i \in DOMAIN s3[KeyOf(o)] :
          /\ s3[KeyOf(o)][i] = o
          /\ s3' = [s3 EXCEPT ![KeyOf(o)] = RemoveAt(@, i)]
    /\ UNCHANGED <<body, db, ex, faults, forged>>

\* Bound: other writers move what a version in the store can meet.
InUse(kind) == \E o \in Uploaded : KindOf(o) = kind

\* A git sync or a command line import replaces or removes its findings.
Hold(h, findings) ==
    /\ held[h] # findings
    /\ InUse("pentest")
    /\ held' = [held EXCEPT ![h] = findings]
    /\ UNCHANGED <<s3, body, rec, stored, session, versions, documents, ex,
                   faults, forged>>

\* Another writer extends the session's stored entries.
Submit(entries) ==
    /\ IsStrictPrefix(session, entries)
    /\ InUse("log")
    /\ session' = entries
    /\ UNCHANGED <<s3, body, rec, held, stored, versions, documents, ex,
                   faults, forged>>

\* evidence_store_objects_guard on an UPDATE: the status changes it lets pass.
\* Mutant: the guard before it named the statuses a record may leave.
AnyStatusChange(old, new) == TRUE

GuardAllows(old, new) ==
    \/ /\ old.status = "error" /\ new.status \notin {"acknowledged", "erased"}
       /\ new.status = "error" => new.attempts > old.attempts
    \/ /\ old.status = "duplicate"
       /\ new.status \in {"ingested", "unchanged", "duplicate", "rejected"}
       /\ new.attempts = old.attempts
    \/ /\ old.status \in {"non_conforming", "rejected", "too_large", "error"}
       /\ new.status = "acknowledged"
       /\ new.was = old.status /\ new.attempts = old.attempts /\ new.info = old.info
    \/ /\ old.status # "erased" /\ new.status = "erased"
       /\ new.was = old.was /\ new.attempts = old.attempts /\ new.info = old.info

-----------------------------------------------------------------------------
(* The plan of a pentest file (plans.plan_pentest).                        *)

\* The records whose import stored their findings, erased since or not.
Backing ==
    {o \in Recorded : /\ KindOf(o) = "pentest"
                      /\ rec[o].status \in {"ingested", "erased"}
                      /\ rec[o].info.stored}

Plan(outcome, of) == [outcome |-> outcome, of |-> of]

\* The outcomes plan_pentest may give (the code takes the first holder by name).
PentestPlans(content) ==
    IF content = {} THEN {Plan("unchanged", Null)}
    ELSE IF Backing # {}
    THEN {Plan(IF rec[b].info.findings = content THEN "unchanged" ELSE "conflict", Null)
             : b \in Backing}
    ELSE LET same == {h \in Holders : held[h] = content}
         IN IF same # {} THEN {Plan("duplicate", h) : h \in same}
            ELSE {Plan("import", Null)}

\* What the store's authority does with a transcript (import_decision_log).
LogOutcome(entries) ==
    IF session = <<>> \/ IsStrictPrefix(session, entries) THEN "ingested"
    ELSE IF IsPrefix(entries, session) THEN "unchanged" ELSE "rejected"

\* fetch_version: the status the body decides by itself, or Null.
FetchedStatus(o) ==
    IF ContentOf(o) = Bare THEN "non_conforming"
    ELSE IF ContentOf(o) = Large THEN "too_large"
    ELSE IF ContentOf(o) = Malformed THEN "rejected"
    ELSE Null

-----------------------------------------------------------------------------
(* A sync run.                                                             *)

Active(e) == ex[e].pc # "idle"

\* A version to process: what recorded_versions knew of it and whether it is a
\* duplicate read again.
Candidate(o, known, again) == [o |-> o, known |-> known, again |-> again]

\* Mutant: only the versions without a record are read.
NotRetried(status) == FALSE

Retried(status) == status = "error"

\* The claim of a queued run (at most one active run per bucket), its listing
\* and recorded_versions: the first version of each key is a candidate, later
\* ones are anomalies.  The keys left out are those of prefixes whose listing
\* failed.
StartSync(e, b, ks) ==
    LET firsts == {Head(s3[k]) : k \in {k \in ks : s3[k] # <<>>}}
        new == {o \in firsts : rec[o] = Null \/ Retried(rec[o].status)}
        later == {k \in ks : Len(s3[k]) > 1}
        failed == {k \in Keys : Bucket[k] = b} \ ks
    IN
    /\ ex[e].pc = "idle" /\ \A f \in Executors : f < e => Active(f)
    /\ \A f \in Executors : ex[f].bucket # b
    /\ ks \subseteq {k \in Keys : Bucket[k] = b}
    /\ faults + Cardinality(failed) <= FaultBound
    /\ faults' = faults + Cardinality(failed)
    /\ ex' = [ex EXCEPT ![e] =
          [Idle EXCEPT !.pc = "syncing", !.bucket = b, !.listed = firsts,
              !.todo = {Candidate(o, rec[o], FALSE) : o \in new},
              !.status = IF later # {} \/ failed # {} THEN "partial"
                         ELSE IF new # {} THEN "success" ELSE "unchanged"]]
    /\ UNCHANGED <<s3, body, db, forged>>

\* The run's lock is lost after the transaction's last check: the transaction
\* may still commit, while the reaper closes the run and another one starts.
LoseLock(e) ==
    /\ ex[e].pc = "writing"
    /\ faults < FaultBound /\ faults' = faults + 1
    /\ ex' = [ex EXCEPT ![e] =
          [Idle EXCEPT !.pc = "overtaken", !.cur = ex[e].cur, !.plan = ex[e].plan]]
    /\ UNCHANGED <<s3, body, db, forged>>

\* The process dies, or the next transaction's check finds the lock lost
\* (LockLostError): the versions written so far stay, nothing more is recorded.
Stop(e) ==
    /\ Active(e)
    /\ \/ ex[e].pc = "overtaken" /\ UNCHANGED faults
       \/ faults < FaultBound /\ faults' = faults + 1
    /\ ex' = [ex EXCEPT ![e] = Idle]
    /\ UNCHANGED <<s3, body, db, forged>>

\* It cannot be read: it left the store, or the read failed.
ReadFails(e, c) ==
    /\ ex[e].pc \in {"syncing", "duplicates"} /\ c \in ex[e].todo
    /\ \/ ~InStore(c.o) /\ UNCHANGED faults
       \/ faults < FaultBound /\ faults' = faults + 1
    /\ ex' = [ex EXCEPT ![e].cur = c, ![e].todo = @ \ {c},
                        ![e].pc = "failing", ![e].status = "partial"]
    /\ UNCHANGED <<s3, body, db, forged>>

\* One version is read, with no transaction open; then its transaction starts and
\* the plan is made against what the database holds now.
ReadAndPlan(e, c) ==
    /\ ex[e].pc \in {"syncing", "duplicates"} /\ c \in ex[e].todo
    /\ InStore(c.o)
    /\ \E p \in IF FetchedStatus(c.o) # Null THEN {Plan("fetched", Null)}
                ELSE IF KindOf(c.o) = "pentest" THEN PentestPlans(ContentOf(c.o))
                ELSE {Plan("import", Null)} :
          ex' = [ex EXCEPT ![e].pc = "writing", ![e].plan = p, ![e].cur = c,
                           ![e].todo = @ \ {c}]
    /\ UNCHANGED <<s3, body, db, faults, forged>>

Entry(status, attempts, info) ==
    [status |-> status, attempts |-> attempts, info |-> info, was |-> Null]

\* The entry the writing transaction gives the version.
Planned(e) ==
    LET c == ex[e].cur
        attempts == IF c.known = Null THEN 0 ELSE c.known.attempts
        kept == IF c.known = Null THEN NoInfo ELSE c.known.info
        content == ContentOf(c.o)
        outcome == ex[e].plan.outcome
    IN
    IF outcome = "fetched" THEN Entry(FetchedStatus(c.o), attempts, kept)
    ELSE IF outcome = "conflict" THEN Entry("rejected", 0, kept)
    ELSE IF KindOf(c.o) = "log" THEN Entry(LogOutcome(content), attempts, kept)
    ELSE IF KindOf(c.o) = "document" THEN Entry("ingested", attempts, kept)
    ELSE IF outcome = "import" THEN Entry("ingested", attempts, Info(content, Null, TRUE))
    ELSE IF outcome = "duplicate" THEN
            Entry("duplicate", attempts, Info(content, ex[e].plan.of, FALSE))
    ELSE Entry("unchanged", attempts, NoInfo)

\* _record: INSERT when the executor knew no record (the unique key of the
\* version), else UPDATE (the guard).
Writable(old, known, new) ==
    IF old = Null THEN known = Null ELSE known # Null /\ GuardAllows(old, new)

\* Tally.status: an anomaly, an error or a refusal makes the run partial.
Worse(status, outcome) ==
    IF status = "partial" \/ outcome \in {"rejected", "non_conforming", "too_large", "error"}
    THEN "partial" ELSE "success"

\* On to the next version, unless the lock is lost.
Proceed(e, outcome) ==
    ex' = [ex EXCEPT ![e] =
        IF @.pc = "overtaken" THEN Idle
        ELSE [@ EXCEPT !.status = Worse(ex[e].status, outcome), !.cur = Null,
                 !.plan = Null, !.pc = IF ex[e].cur.again THEN "duplicates" ELSE "syncing"]]

\* write_version commits: the record and what it imports, or nothing.
Write(e) ==
    LET c == ex[e].cur
        new == Planned(e)
        imports == new.status = "ingested"
    IN
    /\ ex[e].pc \in {"writing", "overtaken"}
    /\ Writable(rec[c.o], c.known, new)
    /\ rec' = [rec EXCEPT ![c.o] = new]
    /\ stored' = IF imports /\ KindOf(c.o) = "pentest"
                 THEN [stored EXCEPT ![c.o] = ContentOf(c.o)] ELSE stored
    /\ documents' = IF imports /\ KindOf(c.o) = "document"
                    THEN documents \cup {c.o} ELSE documents
    /\ IF imports /\ KindOf(c.o) = "log"
       THEN session' = ContentOf(c.o) /\ versions' = versions \cup {c.o}
       ELSE UNCHANGED <<session, versions>>
    /\ Proceed(e, new.status)
    /\ UNCHANGED <<s3, body, held, faults, forged>>

\* It does not: the record changed meanwhile, or the database failed.
WriteFails(e) ==
    LET c == ex[e].cur IN
    /\ ex[e].pc = "writing"
    /\ \/ ~Writable(rec[c.o], c.known, Planned(e)) /\ UNCHANGED faults
       \/ faults < FaultBound /\ faults' = faults + 1
    /\ ex' = [ex EXCEPT ![e].pc = "failing", ![e].plan = Null]
    /\ UNCHANGED <<s3, body, db, forged>>

\* Mutant: a version that could not be written is refused.
RefuseFailure(e) == Entry("rejected", 0, NoInfo)

\* _record_failure's entry: one more attempt.
FailedAttempt(e) ==
    LET known == ex[e].cur.known
    IN Entry("error",
             IF known = Null THEN 1 ELSE Min({known.attempts + 1, AttemptBound}),
             IF known = Null THEN NoInfo ELSE known.info)

\* _record_failure: a duplicate stays one; an entry that cannot be written is
\* only logged.
RecordFailure(e) ==
    LET c == ex[e].cur
        new == FailedAttempt(e)
    IN
    /\ ex[e].pc = "failing"
    /\ rec' = IF ~c.again /\ Writable(rec[c.o], c.known, new)
              THEN [rec EXCEPT ![c.o] = new] ELSE rec
    /\ Proceed(e, "error")
    /\ UNCHANGED <<s3, body, held, stored, session, versions, documents,
                   faults, forged>>

\* stale_duplicates: the counterpart no longer holds exactly the findings.
Stale(o) ==
    /\ HasStatus(o, {"duplicate"})
    /\ rec[o].info.of \in Holders => held[rec[o].info.of] # rec[o].info.findings

\* Every prefix is done: the stale duplicates are collected.
FindDuplicates(e) ==
    /\ ex[e].pc = "syncing" /\ ex[e].todo = {}
    /\ ex' = [ex EXCEPT ![e].pc = "duplicates",
          ![e].todo = {Candidate(o, rec[o], TRUE) : o \in
              {o \in Recorded : Stale(o) /\ Bucket[KeyOf(o)] = ex[e].bucket}}]
    /\ UNCHANGED <<s3, body, db, faults, forged>>

Finished(e) == ex[e].pc = "duplicates" /\ ex[e].todo = {}

\* The outcome is recorded compare-and-set (RunLifecycle).
Finish(e) ==
    /\ Finished(e)
    /\ ex' = [ex EXCEPT ![e] = Idle]
    /\ UNCHANGED <<s3, body, db, faults, forged>>

-----------------------------------------------------------------------------
(* Verification (verify.py): each outcome, derived again from the body.    *)

PlansAgain(o, outcome) == \E p \in PentestPlans(ContentOf(o)) : p.outcome = outcome

\* Mutant: the record is compared with itself, not with the body.
ByRecordOnly(o) ==
    rec[o].info.of \in Holders /\ held[rec[o].info.of] = rec[o].info.findings

\* _finish_pentest for a duplicate: the counterpart holds the body's findings.
DuplicateHolds(o) ==
    /\ rec[o].info.of \in Holders
    /\ held[rec[o].info.of] = ContentOf(o) /\ rec[o].info.findings = ContentOf(o)

PentestHolds(o) ==
    \/ /\ rec[o].status = "ingested"
       /\ rec[o].info.stored /\ stored[o] # {} /\ stored[o] = rec[o].info.findings
       /\ \A other \in Objects \ {o} : stored[other] = {}
    \/ /\ rec[o].status = "duplicate"
       /\ ContentOf(o) \in Findings \ {{}} /\ DuplicateHolds(o)
    \/ /\ rec[o].status = "unchanged"
       /\ ContentOf(o) \in Findings /\ PlansAgain(o, "unchanged")
    \/ /\ rec[o].status = "rejected"
       /\ \/ ContentOf(o) = Malformed
          \/ ContentOf(o) \in Findings /\ PlansAgain(o, "conflict")

LogHolds(o) ==
    \/ rec[o].status = "ingested" /\ o \in versions
    \/ /\ rec[o].status = "unchanged"
       /\ ContentOf(o) \in Exports /\ session # <<>> /\ IsPrefix(ContentOf(o), session)
    \/ /\ rec[o].status = "rejected"
       /\ \/ ContentOf(o) = Malformed
          \/ ContentOf(o) \in Exports /\ LogOutcome(ContentOf(o)) = "rejected"

\* outcome_issues, rederive_issues: the outcome is the one of the body.
OutcomeHolds(o) ==
    IF rec[o].status = "too_large" THEN ContentOf(o) = Large
    ELSE CASE KindOf(o) = "pentest" -> PentestHolds(o)
           [] KindOf(o) = "log" -> LogHolds(o)
           [] OTHER -> rec[o].status = "ingested" /\ o \in documents

\* check_version: a non-conforming upload fails until it is acknowledged, and
\* an acknowledgement of one that conforms fails too.
VersionHolds(o) ==
    /\ rec[o].status # "non_conforming"
    /\ rec[o].status = "acknowledged" /\ rec[o].was = "non_conforming" => ContentOf(o) = Bare

\* One record reports no failure.
RecordHolds(o) ==
    CASE rec[o].status = "erased" -> ~InStore(o)
      [] rec[o].status = "error" -> InStore(o)
      [] rec[o].status = "acknowledged" -> InStore(o) /\ VersionHolds(o)
      [] OTHER -> InStore(o) /\ VersionHolds(o) /\ OutcomeHolds(o)

\* verify_documents and verify_store_findings, which start from the other side.
ContentAccounted ==
    /\ \A o \in documents : HasStatus(o, {"ingested", "erased"})
    /\ \A o \in Objects : stored[o] # {} => o \in Backing

-----------------------------------------------------------------------------
(* What administrators record (service.py), and the database role.         *)

Settle(o, new) ==
    /\ GuardAllows(rec[o], new)
    /\ rec' = [rec EXCEPT ![o] = new]
    /\ UNCHANGED <<s3, body, held, stored, session, versions, documents, ex,
                   faults, forged>>

\* record_erasure: only a version the store says is gone.
RecordErasure(o) ==
    /\ o \in Recorded /\ rec[o].status # "erased"
    /\ ~InStore(o)
    /\ Settle(o, [rec[o] EXCEPT !.status = "erased"])

Acknowledgeable(o) ==
    \/ rec[o].status = "non_conforming"
    \/ rec[o].status = "error" /\ rec[o].attempts >= MaxAttempts
    \/ rec[o].status \in {"rejected", "too_large"} /\ ~RecordHolds(o)

Acknowledge(o) ==
    /\ o \in Recorded /\ Acknowledgeable(o)
    /\ Settle(o, [rec[o] EXCEPT !.status = "acknowledged", !.was = rec[o].status])

\* The database role records a version no sync read.
Forge(o, status, info) ==
    /\ faults < FaultBound /\ faults' = faults + 1
    /\ o \in Uploaded \cap Forgeable /\ rec[o] = Null
    /\ rec' = [rec EXCEPT ![o] = Entry(status, 0, info)]
    /\ forged' = forged \cup {o}
    /\ UNCHANGED <<s3, body, held, stored, session, versions, documents, ex>>

Statuses == {"ingested", "unchanged", "duplicate", "rejected", "too_large", "error"}

Sync(e) ==
    \/ \E b \in Buckets, ks \in SUBSET Keys : StartSync(e, b, ks)
    \/ \E c \in ex[e].todo : ReadAndPlan(e, c) \/ ReadFails(e, c)
    \/ Write(e) \/ WriteFails(e) \/ RecordFailure(e)
    \/ FindDuplicates(e) \/ Finish(e)

World ==
    \/ \E o \in Objects, k \in Keys : \E content \in Bodies[Kind[k]] : Upload(o, k, content)
    \/ \E o \in Objects : EraseVersion(o)
    \/ \E h \in Holders, findings \in Findings : Hold(h, findings)
    \/ \E entries \in Exports : Submit(entries)

Administer ==
    \E o \in Objects :
        \/ RecordErasure(o) \/ Acknowledge(o)
        \/ \E status \in Statuses : Forge(o, status, NoInfo)
        \/ \E findings \in Findings, h \in Holders :
              \/ Forge(o, "ingested", Info(findings, Null, TRUE))
              \/ Forge(o, "duplicate", Info(findings, h, FALSE))

Next ==
    \/ World \/ Administer
    \/ \E e \in Executors : Sync(e) \/ LoseLock(e) \/ Stop(e)

SyncAll(e, b) == StartSync(e, b, {k \in Keys : Bucket[k] = b})

\* An executor at work goes on or is found lost.
Progress(e) ==
    \/ \E c \in ex[e].todo : ReadAndPlan(e, c) \/ ReadFails(e, c)
    \/ Write(e) \/ WriteFails(e) \/ RecordFailure(e)
    \/ FindDuplicates(e) \/ Finish(e) \/ Stop(e)

\* Each bucket's sync is queued every hour and the queue is served in order;
\* listings that fail are not counted on.
Fairness ==
    /\ \A e \in Executors : WF_vars(Progress(e))
    /\ \A b \in Buckets : SF_vars(\E e \in Executors : SyncAll(e, b))

Spec == Init /\ [][Next]_vars /\ Fairness

-----------------------------------------------------------------------------
(* Properties.                                                             *)

Candidates == [o: Objects, known: ObjectRecord \cup {Null}, again: BOOLEAN]
Plans == [outcome: {"fetched", "unchanged", "conflict", "duplicate", "import"},
          of: Holders \cup {Null}]
ExecutorState ==
    [pc: {"idle", "syncing", "writing", "overtaken", "failing", "duplicates"},
     bucket: Buckets \cup {Null}, todo: SUBSET Candidates,
     cur: Candidates \cup {Null}, plan: Plans \cup {Null},
     status: {"unchanged", "success", "partial"}, listed: SUBSET Objects]

TypeOK ==
    /\ s3 \in [Keys -> Seq(Objects)]
    /\ DOMAIN body = Objects
    /\ \A o \in Uploaded : /\ KeyOf(o) \in Keys /\ ContentOf(o) \in Bodies[KindOf(o)]
                           /\ body[o] = [key |-> KeyOf(o), content |-> ContentOf(o)]
    /\ rec \in [Objects -> ObjectRecord \cup {Null}]
    /\ held \in [Holders -> Findings \cup {{}}]
    /\ DOMAIN stored = Objects
    /\ session \in Exports \cup {<<>>}
    /\ versions \subseteq Objects /\ documents \subseteq Objects
    /\ forged \subseteq Recorded
    /\ ex \in [Executors -> ExecutorState]

\* A record the syncs wrote passes verification unless there is something to
\* report: a non-conforming upload, a version gone from the store, a duplicate
\* whose counterpart moved on, or two versions that stored findings at
\* once (plan_pentest reads and inserts without a lock).  Whatever order uploads, erasures, other imports, lost locks
\* and repeated reads come in, what the sync wrote is what verify derives.
NoFalseAlarm ==
    forged = {} /\ (\A o, p \in Objects : stored[o] # {} /\ stored[p] # {} => o = p) =>
        /\ ContentAccounted
        /\ \A o \in Recorded :
              \/ RecordHolds(o)
              \/ rec[o].status = "non_conforming" \/ ~InStore(o) \/ Stale(o)

\* What a version says is kept: by the import of some version, by another
\* namespace, or refused for what is kept already.
Preserved(o) ==
    ContentOf(o) \notin Unusable =>
        CASE KindOf(o) = "document" -> o \in documents
          [] KindOf(o) = "log" -> IsPrefix(ContentOf(o), session)
                                  \/ LogOutcome(ContentOf(o)) = "rejected"
          [] OTHER -> \/ ContentOf(o) = {}
                      \/ \E h \in Holders : held[h] = ContentOf(o)
                      \/ \E p \in Objects : stored[p] # {}

\* A record the database role made up, the others being the syncs', never hides a
\* version from the portal: either verification fails it, or what the version
\* says is kept anyway.  (Two made-up records can vouch for one another.)
ForgeryFound ==
    \A o \in forged :
        forged = {o} /\ ~HasStatus(o, {"error", "acknowledged", "erased"}) /\ RecordHolds(o) =>
            Preserved(o)

\* The outcome of a version is decided once: an import is never replaced by a
\* second look at the same version (a lost executor, a stale snapshot), nor is
\* what an administrator settled; only a documented erasure follows.
RecordsStand ==
    [][\A o \in Objects :
          HasStatus(o, {"ingested", "unchanged", "acknowledged", "erased"}) =>
              \/ rec'[o] = rec[o]
              \/ rec[o].status # "erased" /\ rec'[o].status = "erased"
                 /\ rec'[o].info = rec[o].info]_vars

\* A run that reports success, or nothing new, left no version it listed
\* without a settled record.
SuccessIsComplete ==
    \A e \in Executors :
        Finished(e) /\ ex[e].status # "partial" =>
            \A o \in ex[e].listed : rec[o] # Null /\ rec[o].status # "error"

\* First versions of a key that have no settled record.
Unsettled ==
    {o \in Uploaded : /\ InStore(o) /\ Head(s3[KeyOf(o)]) = o
                      /\ rec[o] = Null \/ rec[o].status = "error"}

\* Duplicates whose findings no other namespace holds any more.
Orphaned ==
    {o \in Recorded \ forged : /\ rec[o].status = "duplicate" /\ InStore(o)
                               /\ \A h \in Holders : held[h] # ContentOf(o)}

\* The first version of a key is settled, whatever reads, writes and locks fail
\* on the way: an error is read again until it imports; and findings recorded as
\* a duplicate of another namespace's are imported once that namespace does not
\* hold them any more.
EveryVersionSettles ==
    /\ \A o \in Objects : o \in Unsettled ~> o \notin Unsettled
    /\ \A o \in Objects : o \in Orphaned ~> o \notin Orphaned
=============================================================================
