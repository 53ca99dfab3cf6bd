---------------------------- MODULE DecisionLogs ----------------------------
(***************************************************************************)
(* Decision logs (app/services/evidence_import_decision_logs.py): the      *)
(* stored transcript of one agent session, its version history, and the    *)
(* exports of it that arrive from the evidence repository (a git sync or   *)
(* the command line), from the evidence store and from members.            *)
(*                                                                         *)
(* An import holds the session's advisory lock from its first statement to *)
(* its commit, so it is one step here.  A digest stands for what it hashes: *)
(* the entries' digest is the sequence of entries, the content's digest is *)
(* the export.  An import that changes nothing is a stuttering step.       *)
(***************************************************************************)
EXTENDS Integers, FiniteSets, SequencesExt

CONSTANTS Exports,      \* what sources and members may submit: [bytes, entries]
          Restored,     \* the entries of a session restored from an earlier portal
          Members,
          Admins,       \* compliance admins
          Triggerers,   \* admins who start git syncs by hand
          NoSession, Null,
          MaxVersions,  \* bound on the accepted versions
          MaxRejected   \* bound on the rejected ones

Calls == {"current", "earlier"}   \* the form an entry's tool calls are stored in

\* Entries, and the rows of sessions and versions.
Entry(calls) == [text : STRING, at : Nat, calls : calls]
Transcript == Seq(Entry(Calls))
Digests == {c.bytes : c \in Exports}
SessionRow ==
    [content_sha256 : Digests \cup {Null}, submitted_by : Members \cup {Null},
     repository_entries : Nat \cup {Null}, conflict : BOOLEAN]
VersionRow ==
    [status : {"current", "superseded", "rejected"}, content_sha256 : Digests \cup {Null},
     entries_sha256 : Transcript \cup {Null}, entry_count : Nat,
     from : {"git", "cli", "store", "api", "restored"}, submitted_by : Members \cup {Null},
     content_gz : Transcript \cup {Null},
     reason : {"extended", "repository_conflict", "rejected", Null}]

\* What the constants must satisfy: entries are exported in the current form,
\* and exports of one digest hold the same ones.
DecisionLogsAssumption ==
    /\ Triggerers \subseteq Admins /\ Admins \subseteq Members
    /\ MaxVersions \in Nat /\ MaxRejected \in Nat
    /\ \A c \in Exports : c.entries \in Seq(Entry({"current"}))
    /\ \A c, d \in Exports : c.bytes = d.bytes => c.entries = d.entries
    /\ Restored \subseteq Transcript
    /\ Null \notin Members /\ Null \notin Nat /\ Null \notin Transcript /\ Null \notin Digests
    /\ NoSession \notin SessionRow

VARIABLES
    session,    \* decision_log_sessions: the session's row, or NoSession
    entries,    \* decision_log_entries, in order of id
    versions    \* decision_log_transcripts, in the order received

vars == <<session, entries, versions>>

-----------------------------------------------------------------------------
(* Who submits: the authority, where the version says it comes from        *)
(* (source_path, source_commit and store_object_id) and its submitter.     *)

Sources == {"system", "store"}

Repository ==
    [authority : {"system"}, from : {"git"}, by : Triggerers \cup {Null}]
    \cup [authority : {"system"}, from : {"cli"}, by : {Null}]

StoreImport == [authority : {"store"}, from : {"store"}, by : {Null}]

Api == {[authority |-> IF m \in Admins THEN "admin" ELSE "member",
         from |-> "api", by |-> m] : m \in Members}

Uploads == Repository \cup StoreImport \cup Api

-----------------------------------------------------------------------------
(* Comparing an export with the stored entries.                            *)

SameEntry(e, f) == e.text = f.text /\ e.at = f.at

SameEntries(s, t) == Len(s) = Len(t) /\ \A i \in DOMAIN s : SameEntry(s[i], t[i])

Differences(parsed) ==
    {i \in DOMAIN entries \cap DOMAIN parsed : ~SameEntry(entries[i], parsed[i])}

HasCurrentVersion == \E i \in DOMAIN versions : versions[i].status = "current"

RepositoryEntries ==
    IF session.repository_entries # Null
    THEN Min({session.repository_entries, Len(entries)})
    ELSE IF session.submitted_by = Null THEN Len(entries) ELSE 0

\* A source that imports a session no version of which was ever recorded.
Unbaselined(u) == u.authority \in Sources /\ ~HasCurrentVersion

\* Mutant: a member may extend anyone's session.
MayExtendAnyones(u) == u.authority = "member" => ~session.conflict

MayExtend(u) ==
    u.authority = "member" => session.submitted_by = u.by /\ ~session.conflict

\* A repository's export conflicts with entries only the API supplied.
RepositoryWins(parsed) ==
    LET supplied == IF session.repository_entries = Null /\ ~HasCurrentVersion
                    THEN 0 ELSE RepositoryEntries
    IN IF Differences(parsed) # {}
       THEN Min(Differences(parsed)) > supplied
       ELSE supplied <= Len(parsed) /\ Len(parsed) < Len(entries)

\* Appended entries must not precede the latest stored one; 0 is no timestamp.
Backdated(parsed) ==
    \E i \in Len(entries) + 1 .. Len(parsed), j \in DOMAIN entries :
        parsed[i].at # 0 /\ parsed[i].at < entries[j].at

\* The outcome of an import, as _import's returns are ordered.
Outcome(c, u) ==
    IF session = NoSession THEN "created"
    ELSE IF session.content_sha256 = c.bytes /\ ~Unbaselined(u) THEN "unchanged"
    ELSE IF u.authority = "system" /\ RepositoryWins(c.entries) THEN "conflict"
    ELSE IF Unbaselined(u) /\ SameEntries(entries, c.entries) THEN "baselined"
    ELSE IF Differences(c.entries) # {} THEN "rejected"
    ELSE IF Len(c.entries) > Len(entries)
         THEN IF \/ ~MayExtend(u)
                 \/ u.authority \notin Sources
                    /\ (RepositoryEntries > 0 \/ Backdated(c.entries))
              THEN "rejected" ELSE "extended"
    ELSE IF /\ Len(c.entries) = Len(entries)
            /\ session.content_sha256 = Null /\ MayExtend(u) /\ u.authority # "store"
         THEN "backfilled"
    ELSE "kept_existing"

-----------------------------------------------------------------------------
(* Version rows.                                                           *)

Version(status, sha, digest, from, by, content, reason) ==
    [status |-> status, content_sha256 |-> sha, entries_sha256 |-> digest,
     entry_count |-> Len(digest), from |-> from, submitted_by |-> by,
     content_gz |-> content, reason |-> reason]

Current(c, digest, u) == Version("current", c.bytes, digest, u.from, u.by, Null, Null)

Superseded(v, content, reason) ==
    [v EXCEPT !.status = "superseded", !.content_gz = content, !.reason = reason]

\* Mutant: nothing is recorded for a session without a current version.
SupersedeIfCurrent(content, reason) ==
    [i \in DOMAIN versions |->
        IF versions[i].status = "current"
        THEN Superseded(versions[i], content, reason)
        ELSE versions[i]]

\* The versions once the current one is superseded, or, for a session that
\* has none, once its stored entries are recorded as a superseded version.
SupersedeCurrent(content, reason) ==
    IF HasCurrentVersion
    THEN [i \in DOMAIN versions |->
            IF versions[i].status = "current"
            THEN Superseded(versions[i], content, reason) ELSE versions[i]]
    ELSE Append(versions, Version("superseded", session.content_sha256, entries,
                                  "restored", session.submitted_by, content, reason))

-----------------------------------------------------------------------------
(* A session is new, or restored: with its entries, perhaps their export's *)
(* digest and perhaps a submitter, and no versions.                        *)

RestoredSession(stored, sha, by) ==
    /\ entries = stored
    /\ session = [content_sha256 |-> sha, submitted_by |-> by,
                  repository_entries |-> Null, conflict |-> FALSE]

Init ==
    /\ versions = <<>>
    /\ \/ session = NoSession /\ entries = <<>>
       \/ \E stored \in Restored, by \in Members \cup {Null} :
             \/ RestoredSession(stored, Null, by)
             \/ \E c \in Exports : /\ SameEntries(stored, c.entries)
                                   /\ RestoredSession(stored, c.bytes, by)

Accepted(v) == v.status # "rejected"

\* The places of the versions that are the session's history.
History == {i \in DOMAIN versions : Accepted(versions[i])}

Room == Cardinality(History) < MaxVersions

RoomForRejected == Cardinality(DOMAIN versions \ History) < MaxRejected

Create(c, u) ==
    /\ Room /\ Outcome(c, u) = "created"
    /\ session' = [content_sha256 |-> c.bytes, submitted_by |-> u.by,
                   repository_entries |-> IF u.authority \in Sources THEN Len(c.entries) ELSE 0,
                   conflict |-> FALSE]
    /\ entries' = c.entries
    /\ versions' = Append(versions, Current(c, c.entries, u))

\* The previous content is reconstructed from the export, whose first
\* entries are the stored ones; the digests are taken over the stored ones.
Extend(c, u) ==
    LET added == SubSeq(c.entries, Len(entries) + 1, Len(c.entries)) IN
    /\ Room /\ Outcome(c, u) = "extended"
    /\ entries' = entries \o added
    /\ session' = [session EXCEPT
            !.content_sha256 = c.bytes,
            !.repository_entries = IF u.authority \in Sources THEN Len(c.entries)
                                   ELSE RepositoryEntries]
    /\ versions' = Append(SupersedeCurrent(SubSeq(c.entries, 1, Len(entries)), "extended"),
                          Current(c, entries', u))

\* The repository's export replaces the entries from the first difference on,
\* or truncates those beyond it.
AdoptRepositoryVersion(c, u) ==
    LET diff == Differences(c.entries)
        cut == IF diff # {} THEN Min(diff) - 1 ELSE Len(c.entries) IN
    /\ Room /\ Outcome(c, u) = "conflict"
    /\ entries' = SubSeq(entries, 1, cut) \o SubSeq(c.entries, cut + 1, Len(c.entries))
    /\ session' = [content_sha256 |-> c.bytes, submitted_by |-> u.by,
                   repository_entries |-> Len(c.entries), conflict |-> TRUE]
    /\ versions' = Append(SupersedeCurrent(entries, "repository_conflict"),
                          Current(c, entries', u))

Baseline(c, u) ==
    /\ Room /\ Outcome(c, u) = "baselined"
    /\ session' = [session EXCEPT !.content_sha256 = c.bytes,
                                  !.repository_entries = Len(entries)]
    /\ versions' = Append(versions, Version("current", c.bytes, entries, u.from, Null, Null, Null))
    /\ UNCHANGED entries

\* A rejected export is recorded once per content.
Reject(c, u) ==
    /\ RoomForRejected /\ Outcome(c, u) = "rejected"
    /\ ~\E i \in DOMAIN versions :
            versions[i].status = "rejected" /\ versions[i].content_sha256 = c.bytes
    /\ versions' = Append(versions,
            [Version("rejected", c.bytes, c.entries, u.from, u.by, c.entries, "rejected")
                EXCEPT !.entries_sha256 = Null])
    /\ UNCHANGED <<session, entries>>

\* A session stored before digests were recorded learns its export's.
Backfill(c, u) ==
    /\ Outcome(c, u) = "backfilled"
    /\ session' = [session EXCEPT
            !.content_sha256 = c.bytes,
            !.repository_entries = IF u.authority = "system" THEN Len(entries)
                                   ELSE session.repository_entries]
    /\ UNCHANGED <<entries, versions>>

Next ==
    \E c \in Exports, u \in Uploads :
        \/ Create(c, u)
        \/ Extend(c, u)
        \/ AdoptRepositoryVersion(c, u)
        \/ Baseline(c, u)
        \/ Reject(c, u)
        \/ Backfill(c, u)

Spec == Init /\ [][Next]_vars

-----------------------------------------------------------------------------
(* Properties.                                                             *)

\* Every variable has its type; the count of the entries the sources supplied
\* never exceeds the entries stored, after a truncation either.
TypeOK ==
    /\ entries \in Transcript
    /\ session \in SessionRow \cup {NoSession}
    /\ versions \in Seq(VersionRow)
    /\ session # NoSession => session.repository_entries \in 0 .. Len(entries) \cup {Null}

Later(i) == {j \in History : j > i}

\* The versions that the next one replaced in a repository conflict.
ConflictSteps == {i \in History : Later(i) # {} /\ versions[i].reason = "repository_conflict"}

\* j is the version after i.
Follows(i, j) == j \in Later(i) /\ \A k \in Later(i) : j <= k

\* A version history only grows, but where the evidence repository's export
\* replaced entries of the API (decision_log_verify: "must form a history that
\* only grows"): one version is current, the last, whose digest is the stored
\* entries'; the superseded ones carry their content, and those since the last
\* conflict are prefixes of the stored entries.
HistoryGrows ==
    \A i \in History : LET v == versions[i] IN
        IF Later(i) = {} THEN v.status = "current" /\ v.entries_sha256 = entries
        ELSE /\ v.status = "superseded"
             /\ v.content_gz # Null /\ SameEntries(v.content_gz, v.entries_sha256)
             /\ (\A j \in ConflictSteps : j < i) => IsPrefix(v.entries_sha256, entries)
             /\ \A j \in History : Follows(i, j) =>
                    IF i \in ConflictSteps THEN versions[j].from \in {"git", "cli"}
                    ELSE v.entry_count <= versions[j].entry_count

FromSource(v) == Accepted(v) /\ v.from \in {"git", "cli", "store"}

\* The entries that count as confirmed, and so as verifications, are the first
\* ones of an accepted version that the repository or the store supplied,
\* whoever extended the session since (confirmed_entry_limit).
ConfirmedFromSource ==
    session # NoSession /\ session.repository_entries # Null =>
        LET confirmed == SubSeq(entries, 1, RepositoryEntries) IN
        confirmed # <<>> =>
            \E i \in DOMAIN versions :
                FromSource(versions[i]) /\ IsPrefix(confirmed, versions[i].entries_sha256)

\* The evidence repository is authoritative: whatever it holds, an import of it
\* makes it the stored transcript, unless it differs from, or is shorter than,
\* what the repository or the store is known to have supplied before.
RepositoryStands ==
    \A c \in Exports, u \in Repository :
        LET outcome == Outcome(c, u)
            supplied == IF session.repository_entries = Null THEN 0 ELSE RepositoryEntries
        IN
        /\ outcome = "rejected" => Min(Differences(c.entries)) <= supplied
        /\ outcome \in {"unchanged", "kept_existing", "baselined", "backfilled"} =>
              \/ SameEntries(entries, c.entries)
              \/ /\ Differences(c.entries) = {}
                 /\ Len(c.entries) < supplied

\* A member's upload is accepted only into a session of that member's own, and
\* never after the repository took the session over (_may_extend).
MembersExtendTheirOwn ==
    \A i \in History : LET v == versions[i] IN
        v.from = "api" /\ v.submitted_by \notin Admins =>
            /\ \A j \in ConflictSteps : i <= j
            /\ ~session.conflict => v.submitted_by = session.submitted_by

\* In no step does an import change or remove an entry the repository or the store supplied.
SuppliedEntriesStay ==
    session # NoSession /\ session.repository_entries # Null =>
        IsPrefix(SubSeq(entries, 1, RepositoryEntries), entries')

\* In no step does an import lose anything: the entries it replaces or extends stay readable
\* in a superseded version, and a version, once superseded or rejected, stays
\* as it is (migration 018's guard).
NothingLost ==
    /\ session # NoSession /\ entries' # entries =>
          \E i \in DOMAIN versions' :
              /\ versions'[i].status = "superseded"
              /\ versions'[i].entries_sha256 = entries
              /\ SameEntries(versions'[i].content_gz, entries)
    /\ \A i \in DOMAIN versions :
          /\ i \in DOMAIN versions'
          /\ versions[i].status = "current"
             \/ versions'[i] = versions[i]

\* What every state, and every step, promises of a session.
LogsAreFaithful ==
    HistoryGrows /\ ConfirmedFromSource /\ RepositoryStands /\ MembersExtendTheirOwn

LogsAreKept == SuppliedEntriesStay /\ NothingLost
=============================================================================
