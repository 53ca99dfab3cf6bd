-------------------------- MODULE DecisionLogsProofs --------------------------
(***************************************************************************)
(* Theorems about DecisionLogs, for any exports, members, restored         *)
(* sessions and numbers of versions, about ImportSlots, for any importers  *)
(* and sizes, and about PentestFiles, for any namespaces, paths and files. *)
(***************************************************************************)
EXTENDS DecisionLogs, ImportSlots, PentestFiles, FiniteSetTheorems, SequenceTheorems,
        WellFoundedInduction, TLAPS

\* The row of a session is what its entries and versions say.
ContentKnown ==
    /\ session = NoSession => entries = <<>> /\ versions = <<>>
    /\ session # NoSession => \A c \in Exports :
           session.content_sha256 = c.bytes => SameEntries(entries, c.entries)
    /\ HasCurrentVersion => session.content_sha256 # Null /\ session.repository_entries # Null

Conflict(v) == v.status = "superseded" /\ v.reason = "repository_conflict"

\* Only rejected versions follow the current one; a superseded one has its
\* content, and a current one after it.
CurrentIsLast ==
    \A i \in DOMAIN versions : versions[i].status = "current" =>
        /\ versions[i].entries_sha256 = entries
        /\ \A j \in DOMAIN versions : j > i => versions[j].status = "rejected"

SupersededHave ==
    \A i \in DOMAIN versions : versions[i].status = "superseded" =>
        /\ versions[i].content_gz \in Transcript
        /\ SameEntries(versions[i].content_gz, versions[i].entries_sha256)
        /\ \E j \in DOMAIN versions : j > i /\ versions[j].status = "current"

Counted ==
    \A i \in DOMAIN versions : Accepted(versions[i]) =>
        /\ versions[i].entries_sha256 \in Transcript
        /\ versions[i].entry_count = Len(versions[i].entries_sha256)

\* Superseded versions since the last conflict are prefixes of the entries.
PrefixesSince ==
    \A i \in DOMAIN versions :
        /\ versions[i].status = "superseded"
        /\ \A j \in DOMAIN versions : Conflict(versions[j]) => j < i
        => IsPrefix(versions[i].entries_sha256, entries)

\* What follows what.
InOrder ==
    \A i, j \in DOMAIN versions :
        /\ i < j /\ Accepted(versions[i]) /\ Accepted(versions[j])
        /\ \A k \in DOMAIN versions : i < k /\ k < j => ~Accepted(versions[k])
        => IF versions[i].reason = "repository_conflict" THEN versions[j].from \in {"git", "cli"}
           ELSE versions[i].entry_count <= versions[j].entry_count

\* Uploads of members come before the first conflict, from the session's own.
MembersOwn ==
    /\ \A i \in DOMAIN versions : Conflict(versions[i]) => session.conflict
    /\ \A i \in DOMAIN versions :
          Accepted(versions[i]) /\ versions[i].from = "api" /\ versions[i].submitted_by \notin Admins =>
              /\ \A j \in DOMAIN versions : Conflict(versions[j]) => i <= j
              /\ ~session.conflict => versions[i].submitted_by = session.submitted_by

VersionsInv == CurrentIsLast /\ SupersededHave /\ Counted /\ PrefixesSince /\ InOrder /\ MembersOwn

IInv == TypeOK /\ ContentKnown /\ VersionsInv /\ ConfirmedFromSource

-----------------------------------------------------------------------------
(* Transcripts.                                                            *)

\* A set of natural numbers that holds one has a least one.
LEMMA LeastNumber ==
    ASSUME NEW S \in SUBSET Nat, S # {} PROVE \E n \in S : \A m \in S : n <= m
<1>1. PICK n \in S : \A m \in S : ~(<<m, n>> \in OpToRel(<, Nat))
  BY NatLessThanWellFounded, WFMin
<1>2. \A m \in S : ~(m < n)
  BY <1>1, Zenon DEF OpToRel
<1> QED
  BY <1>2

\* An export's entries can be stored.
LEMMA ExportsAreTranscripts ==
    ASSUME DecisionLogsAssumption, NEW c \in Exports
    PROVE  c.entries \in Transcript /\ Len(c.entries) \in Nat /\ DOMAIN c.entries = 1 .. Len(c.entries)
<1>1. Entry({"current"}) \subseteq Entry(Calls)
  BY DEF Entry, Calls
<1>2. c.entries \in Seq(Entry({"current"}))
  BY DEF DecisionLogsAssumption
<1>3. \A i \in 1 .. Len(c.entries) : c.entries[i] \in Entry(Calls)
  BY <1>1, <1>2, ElementOfSeq
<1> QED
  BY <1>2, <1>3, SeqDef DEF Transcript

\* A prefix has the elements of the sequence.
LEMMA PrefixAt ==
    ASSUME NEW s \in Transcript, NEW t \in Transcript
    PROVE  IsPrefix(s, t) <=> Len(s) <= Len(t) /\ \A i \in 1 .. Len(s) : s[i] = t[i]
<1> USE DEF Transcript
<1>1. CASE Len(s) <= Len(t)
  <2>1. SubSeq(s, 1, Len(s)) = s
    BY SubSeqFull
  <2>2. /\ SubSeq(t, 1, Len(s)) \in Seq(Entry(Calls)) /\ Len(SubSeq(t, 1, Len(s))) = Len(s)
        /\ \A i \in 1 .. Len(s) : SubSeq(t, 1, Len(s))[i] = t[i]
    BY <1>1
  <2>3. s = SubSeq(t, 1, Len(s)) <=> \A i \in 1 .. Len(s) : SubSeq(t, 1, Len(s))[i] = s[i]
    BY <2>2
  <2> QED
    BY <1>1, <2>1, <2>2, <2>3 DEF IsPrefix
<1>2. CASE ~(Len(s) <= Len(t))
  BY <1>2 DEF IsPrefix
<1> QED
  BY <1>1, <1>2

\* The first entries of a transcript.
LEMMA FirstEntries ==
    ASSUME NEW s \in Transcript, NEW n \in 0 .. Len(s)
    PROVE  /\ SubSeq(s, 1, n) \in Transcript /\ Len(SubSeq(s, 1, n)) = n
           /\ \A i \in 1 .. n : SubSeq(s, 1, n)[i] = s[i]
           /\ IsPrefix(SubSeq(s, 1, n), s)
<1>1. /\ SubSeq(s, 1, n) \in Transcript /\ Len(SubSeq(s, 1, n)) = n
      /\ \A i \in 1 .. n : SubSeq(s, 1, n)[i] = s[i]
  <2>1. Len(s) \in Nat /\ \A i \in 1 .. n : s[i] \in Entry(Calls)
    BY ElementOfSeq DEF Transcript
  <2>2. n \in Nat
    BY <2>1
  <2>3. /\ SubSeq(s, 1, n) \in Seq(Entry(Calls))
        /\ Len(SubSeq(s, 1, n)) = IF 1 <= n THEN n - 1 + 1 ELSE 0
        /\ \A i \in 1 .. n - 1 + 1 : SubSeq(s, 1, n)[i] = s[1 + i - 1]
    BY <2>1, <2>2, SubSeqProperties
  <2> QED
    BY <2>1, <2>2, <2>3 DEF Transcript
<1>2. n \in Nat /\ Len(s) \in Nat /\ n <= Len(s)
  BY DEF Transcript
<1> DEFINE q == SubSeq(s, 1, n)
<1>3. q \in Transcript /\ Len(q) = n /\ \A i \in 1 .. n : q[i] = s[i]
  BY <1>1
<1> HIDE DEF q
<1>4. IsPrefix(q, s)
  BY <1>2, <1>3, PrefixAt
<1> QED
  BY <1>1, <1>4 DEF q

\* The first entries of one transcript, then the rest of another.
LEMMA Spliced ==
    ASSUME NEW s \in Transcript, NEW t \in Transcript, NEW n \in 0 .. Len(s), n <= Len(t)
    PROVE  LET new == SubSeq(s, 1, n) \o SubSeq(t, n + 1, Len(t))
           IN  /\ new \in Transcript /\ Len(new) = Len(t)
               /\ \A i \in 1 .. Len(t) : new[i] = IF i <= n THEN s[i] ELSE t[i]
<1> DEFINE a == SubSeq(s, 1, n)
           b == SubSeq(t, n + 1, Len(t))
           new == a \o b
<1> USE DEF Transcript
<1>1. a \in Transcript /\ Len(a) = n /\ \A i \in 1 .. n : a[i] = s[i]
  BY FirstEntries
<1>2. /\ b \in Transcript /\ Len(b) = Len(t) - n
      /\ \A i \in 1 .. Len(t) - n : b[i] = t[n + i]
  BY SubSeqProperties
<1> HIDE DEF a, b
<1>3. /\ new \in Transcript /\ Len(new) = Len(t)
      /\ \A i \in 1 .. Len(t) : new[i] = IF i <= n THEN a[i] ELSE b[i - n]
  BY <1>1, <1>2, ConcatProperties
<1>4. ASSUME NEW i \in 1 .. Len(t) PROVE new[i] = IF i <= n THEN s[i] ELSE t[i]
  <2>1. CASE i <= n
    BY <1>1, <1>3, <2>1
  <2>2. CASE ~(i <= n)
    <3>1. i - n \in 1 .. Len(t) - n /\ n + (i - n) = i
      BY <2>2
    <3> QED
      BY <1>2, <1>3, <2>2, <3>1
  <2> QED
    BY <2>1, <2>2
<1> QED
  BY <1>3, <1>4 DEF a, b

\* A transcript, then the rest of another.
LEMMA Continued ==
    ASSUME NEW s \in Transcript, NEW t \in Transcript, Len(s) <= Len(t)
    PROVE  LET new == s \o SubSeq(t, Len(s) + 1, Len(t))
           IN  /\ new \in Transcript /\ Len(new) = Len(t)
               /\ \A i \in 1 .. Len(t) : new[i] = IF i <= Len(s) THEN s[i] ELSE t[i]
<1> DEFINE b == SubSeq(t, Len(s) + 1, Len(t))
           new == s \o b
<1> USE DEF Transcript
<1>1. /\ b \in Transcript /\ Len(b) = Len(t) - Len(s)
      /\ \A i \in 1 .. Len(t) - Len(s) : b[i] = t[Len(s) + i]
  BY SubSeqProperties
<1> HIDE DEF b
<1>2. /\ new \in Transcript /\ Len(new) = Len(t)
      /\ \A i \in 1 .. Len(t) : new[i] = IF i <= Len(s) THEN s[i] ELSE b[i - Len(s)]
  BY <1>1, ConcatProperties
<1>3. ASSUME NEW i \in 1 .. Len(t) PROVE new[i] = IF i <= Len(s) THEN s[i] ELSE t[i]
  <2>1. CASE i <= Len(s)
    BY <1>2, <2>1
  <2>2. CASE ~(i <= Len(s))
    <3>1. i - Len(s) \in 1 .. Len(t) - Len(s) /\ Len(s) + (i - Len(s)) = i
      BY <2>2
    <3> QED
      BY <1>1, <1>2, <2>2, <3>1
  <2> QED
    BY <2>1, <2>2
<1> QED
  BY <1>2, <1>3 DEF b

-----------------------------------------------------------------------------
(* Imports.                                                                *)

\* What the types say of the variables.
LEMMA BasicTypes ==
    ASSUME TypeOK
    PROVE  /\ entries \in Transcript /\ Len(entries) \in Nat /\ DOMAIN entries = 1 .. Len(entries)
           /\ versions \in Seq(VersionRow) /\ Len(versions) \in Nat
           /\ DOMAIN versions = 1 .. Len(versions)
           /\ \A i \in DOMAIN versions : i \in Nat /\ versions[i] \in VersionRow
           /\ session # NoSession => session \in SessionRow
<1>1. entries \in Transcript /\ versions \in Seq(VersionRow)
  BY DEF TypeOK
<1>2. Len(entries) \in Nat /\ DOMAIN entries = 1 .. Len(entries)
  BY <1>1 DEF Transcript
<1>3. Len(versions) \in Nat /\ DOMAIN versions = 1 .. Len(versions)
  BY <1>1
<1>4. \A i \in DOMAIN versions : i \in Nat /\ versions[i] \in VersionRow
  BY <1>1, <1>3, ElementOfSeq
<1>5. session # NoSession => session \in SessionRow
  BY DEF TypeOK
<1> QED
  BY <1>1, <1>2, <1>3, <1>4, <1>5

\* Who may submit what.
LEMMA UploadsAre ==
    ASSUME DecisionLogsAssumption, NEW u \in Uploads
    PROVE  /\ u.from \in {"git", "cli", "store", "api"} /\ u.by \in Members \cup {Null}
           /\ u.authority = "system" => u.from \in {"git", "cli"}
           /\ u.authority \in Sources => u.from \in {"git", "cli", "store"}
           /\ u.from = "api" => u.authority \notin Sources
           /\ u.from = "api" /\ u.by \notin Admins => u.authority = "member"
           /\ u.authority = "member" => u.by \in Members
<1>1. CASE u \in Repository
  BY <1>1 DEF Repository, Sources, DecisionLogsAssumption
<1>2. CASE u \in StoreImport
  BY <1>2 DEF StoreImport, Sources
<1>3. CASE u \in Api
  BY <1>3 DEF Api, Sources
<1> QED
  BY <1>1, <1>2, <1>3 DEF Uploads

\* Where two sequences differ, if they do.
LEMMA DifferencesAre ==
    ASSUME DecisionLogsAssumption, TypeOK, NEW c \in Exports
    PROVE  LET D == Differences(c.entries)
           IN  /\ \A i \in D : i \in 1 .. Len(entries) /\ i \in 1 .. Len(c.entries)
               /\ D # {} => /\ Min(D) \in D /\ \A i \in D : Min(D) <= i
               /\ D = {} /\ Len(entries) = Len(c.entries) => SameEntries(entries, c.entries)
               /\ D = {} => \A i \in 1 .. Len(entries) : i <= Len(c.entries) =>
                                SameEntry(entries[i], c.entries[i])
               /\ SameEntries(entries, c.entries) => D = {}
<1> DEFINE D == Differences(c.entries)
<1>1. /\ entries \in Transcript /\ Len(entries) \in Nat /\ DOMAIN entries = 1 .. Len(entries)
      /\ Len(c.entries) \in Nat /\ DOMAIN c.entries = 1 .. Len(c.entries)
  BY ExportsAreTranscripts DEF TypeOK, Transcript
<1>2. D \in SUBSET Nat /\ \A i \in D : i \in 1 .. Len(entries) /\ i \in 1 .. Len(c.entries)
  BY <1>1 DEF Differences
<1>3. ASSUME D # {} PROVE Min(D) \in D /\ \A i \in D : Min(D) <= i
  <2> HIDE DEF D
  <2>1. \E n \in D : \A m \in D : n <= m
    BY <1>2, <1>3, LeastNumber
  <2> QED
    BY <2>1 DEF Min
<1>4. D = {} => \A i \in 1 .. Len(entries) : i <= Len(c.entries) => SameEntry(entries[i], c.entries[i])
  BY <1>1 DEF Differences
<1>5. D = {} /\ Len(entries) = Len(c.entries) => SameEntries(entries, c.entries)
  BY <1>1, <1>4 DEF SameEntries
<1>6. SameEntries(entries, c.entries) => D = {}
  BY <1>1 DEF SameEntries, Differences
<1> QED
  BY <1>2, <1>3, <1>4, <1>5, <1>6

\* What an outcome says of the session and the export.
LEMMA OutcomesMean ==
    ASSUME DecisionLogsAssumption, TypeOK, NEW c \in Exports, NEW u \in Uploads
    PROVE  LET outcome == Outcome(c, u)
               D == Differences(c.entries)
           IN  /\ outcome = "created" <=> session = NoSession
               /\ outcome = "unchanged" => session.content_sha256 = c.bytes /\ ~Unbaselined(u)
               /\ outcome = "conflict" => u.authority = "system" /\ RepositoryWins(c.entries)
               /\ outcome = "baselined" => Unbaselined(u) /\ SameEntries(entries, c.entries)
               /\ outcome = "rejected" /\ u.authority = "system" => D # {} /\ ~RepositoryWins(c.entries)
               /\ outcome = "extended" =>
                     /\ D = {} /\ Len(c.entries) > Len(entries) /\ MayExtend(u)
                     /\ u.authority \in Sources \/ ~(RepositoryEntries > 0)
               /\ outcome = "backfilled" =>
                     /\ session.content_sha256 = Null
                     /\ SameEntries(entries, c.entries) /\ ~Unbaselined(u)
               /\ outcome = "kept_existing" =>
                     /\ D = {} /\ Len(c.entries) <= Len(entries)
                     /\ u.authority = "system" => ~RepositoryWins(c.entries)
<1>1. /\ Len(entries) \in Nat /\ Len(c.entries) \in Nat
  BY ExportsAreTranscripts DEF TypeOK, Transcript
<1>2. Differences(c.entries) = {} /\ Len(entries) = Len(c.entries) => SameEntries(entries, c.entries)
  BY DifferencesAre
<1>3. u.authority = "system" => MayExtend(u) /\ u.authority \in Sources
  BY DEF MayExtend, Sources
<1> QED
  BY <1>1, <1>2, <1>3 DEF Outcome

\* The first entries that count as supplied.
LEMMA SuppliedAre ==
    ASSUME DecisionLogsAssumption, TypeOK, session # NoSession
    PROVE  /\ Len(entries) \in Nat /\ RepositoryEntries \in 0 .. Len(entries)
           /\ session.repository_entries # Null => RepositoryEntries = session.repository_entries
<1>1. Len(entries) \in Nat
  BY DEF TypeOK, Transcript
<1>2. CASE session.repository_entries # Null
  <2> DEFINE e == session.repository_entries
  <2>1. e \in 0 .. Len(entries)
    BY <1>2 DEF TypeOK
  <2> HIDE DEF e
  <2>2. Min({e, Len(entries)}) = e
    BY <1>1, <2>1 DEF Min
  <2> QED
    BY <1>1, <1>2, <2>1, <2>2 DEF RepositoryEntries, e
<1>3. CASE session.repository_entries = Null
  BY <1>1, <1>3 DEF RepositoryEntries
<1> QED
  BY <1>1, <1>2, <1>3

-----------------------------------------------------------------------------
(* Versions.                                                               *)

\* Rows keep their places when one is added.
LEMMA RowAdded ==
    ASSUME NEW rows \in Seq(VersionRow), NEW row \in VersionRow
    PROVE  LET new == Append(rows, row)
           IN  /\ new \in Seq(VersionRow) /\ Len(rows) \in Nat
               /\ DOMAIN rows = 1 .. Len(rows) /\ DOMAIN new = 1 .. Len(rows) + 1
               /\ new[Len(rows) + 1] = row
               /\ \A i \in 1 .. Len(rows) : new[i] = rows[i]
  BY AppendProperties

\* A session without a current version has no history.
LEMMA NoHistory ==
    ASSUME TypeOK, VersionsInv, ~HasCurrentVersion
    PROVE  \A i \in DOMAIN versions : versions[i].status = "rejected"
<1> SUFFICES ASSUME NEW i \in DOMAIN versions PROVE versions[i].status = "rejected"
  OBVIOUS
<1>1. versions[i] \in VersionRow
  BY DEF TypeOK
<1>2. versions[i].status \in {"current", "superseded", "rejected"}
  BY <1>1 DEF VersionRow
<1> QED
  BY <1>2 DEF VersionsInv, SupersededHave, HasCurrentVersion

\* The first version of a session.
LEMMA FirstVersion ==
    ASSUME TypeOK, VersionsInv, ~HasCurrentVersion, NEW row \in VersionRow, row.status = "current",
           row.entries_sha256 = entries', row.entry_count = Len(entries'), entries' \in Transcript,
           row.from = "api" /\ row.submitted_by \notin Admins => row.submitted_by = session'.submitted_by,
           versions' = Append(versions, row)
    PROVE  VersionsInv' /\ versions' \in Seq(VersionRow) /\ HasCurrentVersion'
<1>1. PICK n : n = Len(versions)
  OBVIOUS
<1>2. /\ versions' \in Seq(VersionRow) /\ n \in Nat /\ DOMAIN versions = 1 .. n
      /\ DOMAIN versions' = 1 .. n + 1 /\ versions'[n + 1] = row
      /\ \A i \in 1 .. n : versions'[i] = versions[i]
  BY <1>1, BasicTypes, RowAdded
<1>3. \A i \in 1 .. n : versions'[i].status = "rejected"
  BY <1>2, NoHistory
<1>4. /\ n + 1 \in DOMAIN versions' /\ versions'[n + 1] = row
      /\ \A i \in DOMAIN versions' : i # n + 1 => i < n + 1 /\ versions'[i].status = "rejected"
      /\ \A i \in DOMAIN versions' : i \in Nat /\ i <= n + 1
  BY <1>2, <1>3
<1>5. CurrentIsLast' /\ SupersededHave' /\ Counted'
  BY <1>2, <1>4 DEF CurrentIsLast, SupersededHave, Counted, Accepted
<1>6. PrefixesSince' /\ InOrder'
  BY <1>2, <1>4 DEF PrefixesSince, InOrder, Accepted
<1>7. MembersOwn' /\ HasCurrentVersion'
  BY <1>2, <1>4 DEF MembersOwn, Conflict, Accepted, HasCurrentVersion
<1> QED
  BY <1>2, <1>5, <1>6, <1>7 DEF VersionsInv

\* Why a version is superseded.
Replacements == {"extended", "repository_conflict"}

\* A row that is superseded.
LEMMA RowSuperseded ==
    ASSUME NEW v \in VersionRow, NEW content \in Transcript, NEW reason \in Replacements
    PROVE  LET new == Superseded(v, content, reason)
           IN  /\ new \in VersionRow /\ new.status = "superseded" /\ new.content_gz = content
               /\ new.reason = reason /\ new.from = v.from /\ new.submitted_by = v.submitted_by
               /\ new.entries_sha256 = v.entries_sha256 /\ new.entry_count = v.entry_count
  BY DEF VersionRow, Superseded, Replacements

\* rows are the versions once the last one, at k, is superseded.
SupersededAt(rows, k, content, reason) ==
    /\ k \in DOMAIN rows /\ DOMAIN versions \subseteq DOMAIN rows
    /\ rows[k].status = "superseded" /\ rows[k].content_gz = content /\ rows[k].reason = reason
    /\ rows[k].entries_sha256 = entries /\ rows[k].entry_count = Len(entries)
    /\ k \in DOMAIN versions => /\ versions[k].status = "current"
                                /\ rows[k].from = versions[k].from
                                /\ rows[k].submitted_by = versions[k].submitted_by
    /\ k \notin DOMAIN versions => rows[k].from = "restored"
    /\ \A i \in DOMAIN rows : i # k =>
          /\ i \in DOMAIN versions /\ rows[i] = versions[i] /\ rows[i].status # "current"
          /\ i > k => rows[i].status = "rejected"

\* Where a version is current.
LEMMA SupersedingCurrent ==
    ASSUME TypeOK, VersionsInv, NEW content \in Transcript,
           NEW reason \in Replacements,
           NEW rows, rows = SupersedeCurrent(content, reason), HasCurrentVersion
    PROVE  rows \in Seq(VersionRow) /\ \E k \in DOMAIN rows : SupersededAt(rows, k, content, reason)
<1>1. PICK k \in DOMAIN versions : versions[k].status = "current"
  BY DEF HasCurrentVersion
<1>2. /\ DOMAIN rows = DOMAIN versions
      /\ \A i \in DOMAIN versions :
            rows[i] = IF versions[i].status = "current" THEN Superseded(versions[i], content, reason)
                      ELSE versions[i]
  BY DEF SupersedeCurrent
<1>3. rows = [i \in DOMAIN versions |-> rows[i]]
  BY DEF SupersedeCurrent
<1>4. \A i \in DOMAIN versions : versions[i] \in VersionRow
  BY BasicTypes
<1>5. ASSUME NEW i \in DOMAIN versions, versions[i].status = "current"
      PROVE  /\ rows[i] \in VersionRow /\ rows[i].status = "superseded" /\ rows[i].content_gz = content
             /\ rows[i].reason = reason /\ rows[i].from = versions[i].from
             /\ rows[i].submitted_by = versions[i].submitted_by
             /\ rows[i].entries_sha256 = versions[i].entries_sha256
             /\ rows[i].entry_count = versions[i].entry_count
  <2>1. rows[i] = Superseded(versions[i], content, reason) /\ versions[i] \in VersionRow
    BY <1>2, <1>4, <1>5
  <2> QED
    BY <2>1, RowSuperseded
<1>6. /\ versions[k].entries_sha256 = entries /\ versions[k].entry_count = Len(entries)
      /\ \A j \in DOMAIN versions : j > k => versions[j].status = "rejected"
  BY <1>1 DEF VersionsInv, CurrentIsLast, Counted, Accepted
<1>7. ASSUME NEW i \in DOMAIN versions, i # k PROVE versions[i].status # "current"
  <2>0. i \in Nat /\ k \in Nat
    BY BasicTypes
  <2>1. i > k \/ k > i
    BY <1>7, <2>0
  <2>2. k > i => ~(versions[i].status = "current")
    BY <1>1 DEF VersionsInv, CurrentIsLast
  <2> QED
    BY <1>6, <2>1, <2>2
<1>8. rows \in Seq(VersionRow)
  <2>1. \A i \in DOMAIN versions : rows[i] \in VersionRow
    BY <1>2, <1>4, <1>5
  <2>2. DOMAIN versions = 1 .. Len(versions) /\ Len(versions) \in Nat
    BY BasicTypes
  <2>3. rows \in [1 .. Len(versions) -> VersionRow]
    BY <1>2, <1>3, <2>1, <2>2
  <2> QED
    BY <2>2, <2>3, SeqDef
<1>9. SupersededAt(rows, k, content, reason)
  <2>1. /\ rows[k].status = "superseded" /\ rows[k].content_gz = content
        /\ rows[k].reason = reason /\ rows[k].from = versions[k].from
        /\ rows[k].submitted_by = versions[k].submitted_by
        /\ rows[k].entries_sha256 = entries /\ rows[k].entry_count = Len(entries)
    BY <1>1, <1>5, <1>6
  <2>2. \A i \in DOMAIN rows : i # k =>
          /\ i \in DOMAIN versions /\ rows[i] = versions[i] /\ rows[i].status # "current"
          /\ i > k => rows[i].status = "rejected"
    BY <1>2, <1>6, <1>7
  <2> QED
    BY <1>1, <1>2, <2>1, <2>2 DEF SupersededAt
<1> QED
  BY <1>1, <1>2, <1>8, <1>9

\* Where none is: the stored entries become a version.
LEMMA SupersedingNone ==
    ASSUME TypeOK, VersionsInv, session # NoSession, NEW content \in Transcript,
           NEW reason \in Replacements,
           NEW rows, rows = SupersedeCurrent(content, reason), ~HasCurrentVersion
    PROVE  rows \in Seq(VersionRow) /\ \E k \in DOMAIN rows : SupersededAt(rows, k, content, reason)
<1>1. PICK row : row = Version("superseded", session.content_sha256, entries, "restored",
                               session.submitted_by, content, reason)
  OBVIOUS
<1>2. /\ row \in VersionRow /\ row.status = "superseded" /\ row.content_gz = content
      /\ row.reason = reason /\ row.entries_sha256 = entries /\ row.entry_count = Len(entries)
      /\ row.from = "restored"
  <2>1. session \in SessionRow /\ entries \in Transcript /\ Len(entries) \in Nat
    BY BasicTypes
  <2>2. session.content_sha256 \in Digests \cup {Null} /\ session.submitted_by \in Members \cup {Null}
    BY <2>1 DEF SessionRow
  <2> QED
    BY <1>1, <2>1, <2>2 DEF Version, VersionRow, Replacements
<1>3. rows = Append(versions, row)
  BY <1>1 DEF SupersedeCurrent
<1>4. versions \in Seq(VersionRow)
  BY BasicTypes
<1>5. PICK n : n = Len(versions)
  OBVIOUS
<1>7. /\ rows \in Seq(VersionRow) /\ DOMAIN rows = 1 .. n + 1 /\ rows[n + 1] = row
      /\ \A i \in 1 .. n : rows[i] = versions[i]
      /\ DOMAIN versions = 1 .. n /\ n \in Nat
  <2>1. row \in VersionRow
    BY <1>2
  <2>2. /\ Append(versions, row) \in Seq(VersionRow) /\ Len(versions) \in Nat
        /\ DOMAIN versions = 1 .. Len(versions) /\ DOMAIN Append(versions, row) = 1 .. Len(versions) + 1
        /\ Append(versions, row)[Len(versions) + 1] = row
        /\ \A i \in 1 .. Len(versions) : Append(versions, row)[i] = versions[i]
    BY <1>4, <2>1, RowAdded
  <2> QED
    BY <1>3, <1>5, <2>2, Zenon
<1>6. \A i \in DOMAIN versions : versions[i].status = "rejected"
  BY NoHistory
<1> DEFINE k == n + 1
<1>8. /\ k \in DOMAIN rows /\ k \notin DOMAIN versions /\ DOMAIN versions \subseteq DOMAIN rows
      /\ rows[k] = row
      /\ \A i \in DOMAIN rows : i # k => i \in DOMAIN versions /\ rows[i] = versions[i] /\ ~(i > k)
  <2>1. n \in Nat /\ DOMAIN rows = 1 .. n + 1 /\ DOMAIN versions = 1 .. n
    BY <1>7
  <2>2. n + 1 \in 1 .. n + 1 /\ n + 1 \notin 1 .. n
    BY <2>1
  <2>3. \A i \in 1 .. n + 1 : i # n + 1 => i \in 1 .. n /\ ~(i > n + 1)
    BY <2>1
  <2> QED
    BY <1>7, <2>1, <2>2, <2>3
<1> HIDE DEF k
<1>9. SupersededAt(rows, k, content, reason)
  BY <1>2, <1>6, <1>8 DEF SupersededAt
<1> QED
  BY <1>7, <1>8, <1>9

\* A session's versions, once the last, if any, is superseded.
LEMMA Superseding ==
    ASSUME TypeOK, VersionsInv, session # NoSession, NEW content \in Transcript, NEW reason \in Replacements
    PROVE  LET rows == SupersedeCurrent(content, reason)
           IN  rows \in Seq(VersionRow) /\ \E k \in DOMAIN rows : SupersededAt(rows, k, content, reason)
  BY SupersedingCurrent, SupersedingNone

\* The row of the version that an import adds.
NextRow(row) ==
    /\ row \in VersionRow /\ row.status = "current"
    /\ entries' \in Transcript /\ row.entries_sha256 = entries' /\ row.entry_count = Len(entries')

\* row follows the superseded version at k.
Added(row, k, n, content, reason) ==
    /\ n \in Nat /\ k \in 1 .. n /\ DOMAIN versions' = 1 .. n + 1 /\ versions'[n + 1] = row
    /\ DOMAIN versions \subseteq 1 .. n
    /\ versions'[k].status = "superseded" /\ versions'[k].content_gz = content
    /\ versions'[k].reason = reason
    /\ versions'[k].entries_sha256 = entries /\ versions'[k].entry_count = Len(entries)
    /\ k \in DOMAIN versions => /\ versions[k].status = "current"
                                /\ versions'[k].from = versions[k].from
                                /\ versions'[k].submitted_by = versions[k].submitted_by
    /\ k \notin DOMAIN versions =>
          versions'[k].from = "restored" /\ \A i \in DOMAIN versions : versions[i].status = "rejected"
    /\ \A i \in 1 .. n : i # k =>
          /\ i \in DOMAIN versions /\ versions'[i] = versions[i] /\ versions'[i].status # "current"
          /\ i > k => versions'[i].status = "rejected"

\* An import's version follows the superseded one.
LEMMA RowFollows ==
    ASSUME TypeOK, VersionsInv, session # NoSession, NEW content \in Transcript, NEW reason \in Replacements,
           NEW row, NextRow(row), versions' = Append(SupersedeCurrent(content, reason), row)
    PROVE  versions' \in Seq(VersionRow) /\ \E n \in Nat, k \in Nat : Added(row, k, n, content, reason)
<1>1. PICK rows \in Seq(VersionRow) : rows = SupersedeCurrent(content, reason)
  BY Superseding
<1>2. PICK k \in DOMAIN rows : SupersededAt(rows, k, content, reason)
  BY <1>1, Superseding
<1>3. row \in VersionRow
  BY DEF NextRow
<1>4. PICK n : n = Len(rows)
  OBVIOUS
<1>5. versions' = Append(rows, row)
  BY <1>1
<1>6. /\ versions' \in Seq(VersionRow) /\ n \in Nat /\ DOMAIN rows = 1 .. n
      /\ DOMAIN versions' = 1 .. n + 1 /\ versions'[n + 1] = row
      /\ \A i \in 1 .. n : versions'[i] = rows[i]
  BY <1>1, <1>3, <1>4, <1>5, RowAdded
<1>7. ASSUME k \notin DOMAIN versions PROVE \A i \in DOMAIN versions : versions[i].status = "rejected"
  <2>1. ~HasCurrentVersion
    BY <1>2, <1>7 DEF SupersededAt, HasCurrentVersion
  <2> QED
    BY <2>1, NoHistory
<1>8. k \in Nat /\ k \in 1 .. n
  BY <1>2, <1>6
<1>9. versions'[k] = rows[k]
  BY <1>6, <1>8
<1>10. /\ DOMAIN versions \subseteq 1 .. n
       /\ \A i \in 1 .. n : i # k =>
          /\ i \in DOMAIN versions /\ versions'[i] = versions[i] /\ versions'[i].status # "current"
          /\ i > k => versions'[i].status = "rejected"
  BY <1>2, <1>6 DEF SupersededAt
<1>11. Added(row, k, n, content, reason)
  BY <1>2, <1>6, <1>7, <1>8, <1>9, <1>10 DEF SupersededAt, Added
<1> QED
  BY <1>6, <1>8, <1>11

\* What an import that extends the entries, or replaces some, does to the
\* session and says of the version it adds.
Extending(row) ==
    /\ IsPrefix(entries, entries')
    /\ session'.conflict = session.conflict /\ session'.submitted_by = session.submitted_by
    /\ row.from = "api" /\ row.submitted_by \notin Admins =>
          row.submitted_by = session.submitted_by /\ ~session.conflict

Replacing(row) == row.from \in {"git", "cli"} /\ session'.conflict

\* The versions before and after a new one stand.
LEMMA CurrentFollows ==
    ASSUME TypeOK, VersionsInv, NEW content \in Transcript, SameEntries(content, entries),
           NEW reason \in Replacements, NEW row, NextRow(row),
           NEW n \in Nat, NEW k \in Nat, Added(row, k, n, content, reason)
    PROVE  CurrentIsLast' /\ SupersededHave' /\ Counted' /\ HasCurrentVersion'
<1>1. /\ n + 1 \in DOMAIN versions' /\ versions'[n + 1] = row /\ row.status = "current"
      /\ row.entries_sha256 = entries' /\ row.entry_count = Len(entries') /\ entries' \in Transcript
  BY DEF Added, NextRow
<1>2. \A i \in DOMAIN versions' : i \in Nat /\ (i = n + 1 \/ (i \in 1 .. n /\ i < n + 1))
  <2>1. n \in Nat /\ DOMAIN versions' = 1 .. n + 1
    BY DEF Added
  <2> QED
    BY <2>1
<1>3. \A i \in 1 .. n : versions'[i].status # "current"
  BY DEF Added
<1>4. CurrentIsLast'
  BY <1>1, <1>2, <1>3 DEF CurrentIsLast
<1>5. SupersededHave'
  <2> SUFFICES ASSUME NEW i \in DOMAIN versions', versions'[i].status = "superseded"
               PROVE  /\ versions'[i].content_gz \in Transcript
                      /\ SameEntries(versions'[i].content_gz, versions'[i].entries_sha256)
                      /\ \E j \in DOMAIN versions' : j > i /\ versions'[j].status = "current"
    BY Zenon DEF SupersededHave
  <2>1. i \in 1 .. n /\ i < n + 1
    BY <1>1, <1>2
  <2>2. CASE i = k
    BY <1>1, <2>1, <2>2 DEF Added
  <2>3. CASE i # k
    <3>1. i \in DOMAIN versions /\ versions'[i] = versions[i]
      BY <2>1, <2>3 DEF Added
    <3>2. /\ versions[i].content_gz \in Transcript
          /\ SameEntries(versions[i].content_gz, versions[i].entries_sha256)
      BY <3>1 DEF VersionsInv, SupersededHave
    <3> QED
      BY <1>1, <2>1, <3>1, <3>2
  <2> QED
    BY <2>2, <2>3
<1>6. Counted'
  <2> SUFFICES ASSUME NEW i \in DOMAIN versions', Accepted(versions'[i])
               PROVE  /\ versions'[i].entries_sha256 \in Transcript
                      /\ versions'[i].entry_count = Len(versions'[i].entries_sha256)
    BY DEF Counted, Accepted
  <2>1. CASE i = n + 1
    BY <1>1, <2>1
  <2>2. CASE i = k
    BY <2>2 DEF Added, TypeOK
  <2>3. CASE i # n + 1 /\ i # k
    <3>1. i \in DOMAIN versions /\ versions'[i] = versions[i]
      BY <1>2, <2>3 DEF Added
    <3> QED
      BY <3>1 DEF VersionsInv, Counted
  <2> QED
    BY <2>1, <2>2, <2>3
<1>7. HasCurrentVersion'
  BY <1>1 DEF HasCurrentVersion
<1> QED
  BY <1>4, <1>5, <1>6, <1>7

\* The superseded versions since the last conflict are still prefixes.
LEMMA PrefixesFollow ==
    ASSUME TypeOK, VersionsInv, NEW content \in Transcript,
           NEW reason \in Replacements, NEW row, NextRow(row),
           NEW n \in Nat, NEW k \in Nat, Added(row, k, n, content, reason),
           reason = "extended" => Extending(row)
    PROVE  PrefixesSince'
<1> SUFFICES ASSUME NEW i \in DOMAIN versions', versions'[i].status = "superseded",
                    \A j \in DOMAIN versions' : Conflict(versions'[j]) => j < i
             PROVE  IsPrefix(versions'[i].entries_sha256, entries')
  BY DEF PrefixesSince, Conflict
<1>1. i \in 1 .. n /\ k \in DOMAIN versions' /\ ~(k < k)
  <2>1. DOMAIN versions' = 1 .. n + 1 /\ k \in 1 .. n /\ versions'[n + 1].status = "current"
    BY DEF Added, NextRow
  <2>2. i # n + 1
    BY <2>1
  <2> QED
    BY <2>1, <2>2
<1>2. reason = "repository_conflict" => k < i
  BY <1>1 DEF Conflict, Added
<1>3. reason = "extended"
  <2>1. i > k => i # k /\ versions'[i].status = "rejected"
    BY <1>1 DEF Added
  <2>2. ~(i > k)
    BY <2>1
  <2> QED
    BY <1>1, <1>2, <2>2 DEF Replacements
<1>4. IsPrefix(entries, entries')
  BY <1>3 DEF Extending
<1>5. CASE i = k
  BY <1>4, <1>5 DEF Added
<1>6. CASE i # k
  <2>1. i \in DOMAIN versions /\ versions'[i] = versions[i]
    BY <1>1, <1>6 DEF Added
  <2>2. ASSUME NEW j \in DOMAIN versions, Conflict(versions[j]) PROVE j < i
    <3>1. j # k
      BY <2>2 DEF Added, Conflict
    <3>2. j \in 1 .. n /\ j \in DOMAIN versions'
      BY DEF Added
    <3>3. versions'[j] = versions[j]
      BY <3>1, <3>2 DEF Added
    <3> QED
      BY <2>2, <3>2, <3>3
  <2>3. IsPrefix(versions[i].entries_sha256, entries)
    BY <2>1, <2>2 DEF VersionsInv, PrefixesSince
  <2>4. versions[i].entries_sha256 \in Transcript
    BY <2>1 DEF VersionsInv, Counted, Accepted
  <2>5. entries \in Transcript /\ entries' \in Transcript
    BY DEF NextRow, TypeOK
  <2> DEFINE s == versions[i].entries_sha256
  <2>6. Len(s) <= Len(entries) /\ \A m \in 1 .. Len(s) : s[m] = entries[m]
    BY <2>3, <2>4, <2>5, PrefixAt
  <2>7. Len(entries) <= Len(entries') /\ \A m \in 1 .. Len(entries) : entries[m] = entries'[m]
    BY <1>4, <2>5, PrefixAt
  <2>8. Len(s) \in Nat /\ Len(entries) \in Nat /\ Len(entries') \in Nat
    BY <2>4, <2>5 DEF Transcript
  <2> HIDE DEF s
  <2>9. Len(s) <= Len(entries') /\ \A m \in 1 .. Len(s) : s[m] = entries'[m]
    BY <2>6, <2>7, <2>8
  <2>10. IsPrefix(s, entries')
    BY <2>4, <2>5, <2>9, PrefixAt DEF s
  <2> QED
    BY <2>1, <2>10 DEF s
<1> QED
  BY <1>5, <1>6

\* A version follows the one it should.
LEMMA OrderFollows ==
    ASSUME TypeOK, VersionsInv, NEW content \in Transcript,
           NEW reason \in Replacements, NEW row, NextRow(row),
           NEW n \in Nat, NEW k \in Nat, Added(row, k, n, content, reason),
           reason = "extended" => Extending(row), reason = "repository_conflict" => Replacing(row)
    PROVE  InOrder'
<1> SUFFICES ASSUME NEW i \in DOMAIN versions', NEW j \in DOMAIN versions',
                    i < j, Accepted(versions'[i]), Accepted(versions'[j]),
                    \A m \in DOMAIN versions' : i < m /\ m < j => ~Accepted(versions'[m])
             PROVE  IF versions'[i].reason = "repository_conflict" THEN versions'[j].from \in {"git", "cli"}
                    ELSE versions'[i].entry_count <= versions'[j].entry_count
  BY DEF InOrder, Accepted
<1>1. /\ DOMAIN versions' = 1 .. n + 1 /\ k \in 1 .. n /\ versions'[n + 1] = row
      /\ i \in Nat /\ j \in Nat /\ i \in 1 .. n /\ i \in 1 .. n + 1 /\ j \in 1 .. n + 1
  <2>1. DOMAIN versions' = 1 .. n + 1 /\ k \in 1 .. n /\ versions'[n + 1] = row
    BY DEF Added
  <2> QED
    BY <2>1
<1>2. i <= k
  <2>1. i > k => i # k /\ versions'[i].status = "rejected"
    BY <1>1 DEF Added
  <2> QED
    BY <1>1, <2>1 DEF Accepted
<1>3. CASE j = n + 1
  <2>1. k \in DOMAIN versions' /\ k < j
    BY <1>1, <1>3
  <2>2. Accepted(versions'[k])
    BY DEF Added, Accepted
  <2>3. ~(i < k)
    BY <2>1, <2>2
  <2>4. i = k
    BY <1>1, <1>2, <2>3
  <2>5. versions'[i].reason = reason /\ versions'[i].entry_count = Len(entries)
    BY <2>4 DEF Added
  <2>6. versions'[j] = row
    BY <1>1, <1>3
  <2>7. CASE reason = "repository_conflict"
    BY <2>5, <2>6, <2>7 DEF Replacing
  <2>8. CASE reason = "extended"
    <3>1. IsPrefix(entries, entries') /\ entries \in Transcript /\ entries' \in Transcript
      BY <2>8 DEF Extending, NextRow, TypeOK
    <3>2. Len(entries) <= Len(entries')
      BY <3>1, PrefixAt
    <3>3. versions'[j].entry_count = Len(entries')
      BY <2>6 DEF NextRow
    <3> QED
      BY <2>5, <2>8, <3>2, <3>3
  <2> QED
    BY <2>7, <2>8 DEF Replacements
<1>4. CASE j # n + 1
  <2>1. j \in 1 .. n
    BY <1>1, <1>4
  <2>2. j <= k
    <3>1. j > k => j # k /\ versions'[j].status = "rejected"
      BY <2>1, <1>1 DEF Added
    <3> QED
      BY <1>1, <3>1 DEF Accepted
  <2>3. i # k /\ i < k
    BY <1>1, <1>2, <2>2
  <2>4. i \in DOMAIN versions /\ versions'[i] = versions[i]
    BY <1>1, <2>3 DEF Added
  <2>5. j \in DOMAIN versions /\ Accepted(versions[j])
        /\ versions'[j].from = versions[j].from /\ versions'[j].entry_count = versions[j].entry_count
    <3>1. CASE j = k
      <4>1. j \in DOMAIN versions
        <5>1. Accepted(versions[i])
          BY <2>4
        <5> QED
          BY <2>4, <3>1, <5>1 DEF Added, Accepted
      <4>2. versions[j].status = "current" /\ versions'[j].from = versions[j].from
            /\ versions'[j].entry_count = Len(entries)
        BY <3>1, <4>1 DEF Added
      <4>3. versions[j].entry_count = Len(entries)
        BY <4>1, <4>2 DEF VersionsInv, CurrentIsLast, Counted, Accepted
      <4> QED
        BY <4>1, <4>2, <4>3 DEF Accepted
    <3>2. CASE j # k
      <4>1. j \in DOMAIN versions /\ versions'[j] = versions[j]
        BY <2>1, <3>2 DEF Added
      <4> QED
        BY <4>1
    <3> QED
      BY <3>1, <3>2
  <2>6. ASSUME NEW m \in DOMAIN versions, i < m, m < j PROVE ~Accepted(versions[m])
    <3>1. m \in 1 .. n /\ m \in DOMAIN versions'
      BY DEF Added
    <3>2. m # k
      BY <1>1, <2>2, <2>6, <3>1
    <3>3. versions'[m] = versions[m]
      BY <3>1, <3>2 DEF Added
    <3> QED
      BY <2>6, <3>1, <3>3
  <2>7. IF versions[i].reason = "repository_conflict" THEN versions[j].from \in {"git", "cli"}
        ELSE versions[i].entry_count <= versions[j].entry_count
    BY <2>4, <2>5, <2>6 DEF VersionsInv, InOrder
  <2> QED
    BY <2>4, <2>5, <2>7
<1> QED
  BY <1>3, <1>4

\* Members' versions are the session's own, and before any conflict.
LEMMA OwnersFollow ==
    ASSUME TypeOK, VersionsInv, NEW content \in Transcript,
           NEW reason \in Replacements, NEW row, NextRow(row),
           NEW n \in Nat, NEW k \in Nat, Added(row, k, n, content, reason),
           reason = "extended" => Extending(row), reason = "repository_conflict" => Replacing(row)
    PROVE  MembersOwn'
<1>1. /\ DOMAIN versions' = 1 .. n + 1 /\ k \in 1 .. n /\ versions'[n + 1] = row /\ row.status = "current"
  BY DEF Added, NextRow
<1>2. versions'[k].reason = reason /\ DOMAIN versions \subseteq 1 .. n
  BY DEF Added
<1>3. ASSUME NEW j \in DOMAIN versions', Conflict(versions'[j]), j # k
      PROVE  j \in DOMAIN versions /\ Conflict(versions[j]) /\ j \in 1 .. n
  <2>1. j # n + 1
    BY <1>1, <1>3 DEF Conflict
  <2>2. j \in 1 .. n
    BY <1>1, <2>1
  <2> QED
    BY <1>3, <2>2 DEF Added
<1>4. session.conflict => session'.conflict
  BY DEF Extending, Replacing, Replacements
<1>5. \A j \in DOMAIN versions' : Conflict(versions'[j]) => session'.conflict
  <2> SUFFICES ASSUME NEW j \in DOMAIN versions', Conflict(versions'[j]) PROVE session'.conflict
    OBVIOUS
  <2>1. CASE j = k
    BY <1>2, <2>1 DEF Conflict, Replacing
  <2>2. CASE j # k
    BY <1>3, <1>4, <2>2 DEF VersionsInv, MembersOwn
  <2> QED
    BY <2>1, <2>2
<1>6. ASSUME NEW i \in DOMAIN versions', Accepted(versions'[i]), versions'[i].from = "api",
             versions'[i].submitted_by \notin Admins
      PROVE  /\ \A j \in DOMAIN versions' : Conflict(versions'[j]) => i <= j
             /\ ~session'.conflict => versions'[i].submitted_by = session'.submitted_by
  <2>1. CASE i = n + 1
    <3>1. row.from = "api" /\ row.submitted_by \notin Admins /\ versions'[i] = row
      BY <1>1, <1>6, <2>1
    <3>2. reason = "extended"
      BY <3>1 DEF Replacing, Replacements
    <3>3. /\ row.submitted_by = session.submitted_by /\ ~session.conflict
          /\ session'.conflict = session.conflict /\ session'.submitted_by = session.submitted_by
      BY <3>1, <3>2 DEF Extending
    <3> QED
      BY <1>5, <3>1, <3>3
  <2>2. CASE i # n + 1
    <3>1. i \in 1 .. n
      BY <1>1, <2>2
    <3>2. i <= k
      <4>1. i > k => i # k /\ versions'[i].status = "rejected"
        BY <3>1 DEF Added
      <4> QED
        BY <1>6, <3>1, <4>1 DEF Accepted
    <3>3. i \in DOMAIN versions /\ Accepted(versions[i]) /\ versions[i].from = "api"
          /\ versions[i].submitted_by \notin Admins /\ versions'[i].submitted_by = versions[i].submitted_by
      <4>1. CASE i = k
        <5>1. k \in DOMAIN versions
          BY <1>6, <4>1 DEF Added
        <5> QED
          BY <1>6, <4>1, <5>1 DEF Added, Accepted
      <4>2. CASE i # k
        <5>1. i \in DOMAIN versions /\ versions'[i] = versions[i]
          BY <3>1, <4>2 DEF Added
        <5> QED
          BY <1>6, <5>1
      <4> QED
        BY <4>1, <4>2
    <3>4. /\ \A j \in DOMAIN versions : Conflict(versions[j]) => i <= j
          /\ ~session.conflict => versions[i].submitted_by = session.submitted_by
      BY <3>3 DEF VersionsInv, MembersOwn
    <3>5. \A j \in DOMAIN versions' : Conflict(versions'[j]) => i <= j
      BY <1>3, <3>2, <3>4
    <3>6. ~session'.conflict => ~session.conflict /\ session'.submitted_by = session.submitted_by
      BY <1>4 DEF Extending, Replacing, Replacements
    <3> QED
      BY <3>3, <3>4, <3>5, <3>6
  <2> QED
    BY <2>1, <2>2
<1> QED
  BY <1>5, <1>6 DEF MembersOwn, Conflict, Accepted

\* A version that follows another keeps every invariant of versions, and loses nothing.
LEMMA NextVersion ==
    ASSUME TypeOK, VersionsInv, session # NoSession, NEW content \in Transcript,
           SameEntries(content, entries),
           NEW reason \in Replacements, NEW row, NextRow(row),
           versions' = Append(SupersedeCurrent(content, reason), row),
           reason = "extended" => Extending(row), reason = "repository_conflict" => Replacing(row)
    PROVE  /\ VersionsInv' /\ versions' \in Seq(VersionRow) /\ HasCurrentVersion' /\ NothingLost
           /\ \E i \in DOMAIN versions' : versions'[i] = row
<1>1. versions' \in Seq(VersionRow)
  BY RowFollows
<1>2. PICK n \in Nat, k \in Nat : Added(row, k, n, content, reason)
  BY RowFollows
<1>3. CurrentIsLast' /\ SupersededHave' /\ Counted' /\ HasCurrentVersion'
  BY <1>2, CurrentFollows
<1>4. PrefixesSince'
  BY <1>2, PrefixesFollow
<1>5. InOrder'
  BY <1>2, OrderFollows
<1>6. MembersOwn'
  BY <1>2, OwnersFollow
<1>7. n + 1 \in DOMAIN versions' /\ k \in DOMAIN versions' /\ DOMAIN versions \subseteq DOMAIN versions'
  <2>1. DOMAIN versions' = 1 .. n + 1 /\ k \in 1 .. n /\ DOMAIN versions \subseteq 1 .. n
    BY <1>2 DEF Added
  <2> QED
    BY <2>1
<1>8. versions'[n + 1] = row
  BY <1>2 DEF Added
<1>9. NothingLost
  <2>1. versions'[k].status = "superseded" /\ versions'[k].entries_sha256 = entries
        /\ SameEntries(versions'[k].content_gz, entries)
    BY <1>2 DEF Added
  <2>2. \A i \in DOMAIN versions : i = k \/ versions'[i] = versions[i]
    BY <1>2 DEF Added
  <2>3. k \in DOMAIN versions => versions[k].status = "current"
    BY <1>2 DEF Added
  <2> QED
    BY <1>7, <2>1, <2>2, <2>3 DEF NothingLost
<1> QED
  BY <1>1, <1>3, <1>4, <1>5, <1>6, <1>7, <1>8, <1>9 DEF VersionsInv

-----------------------------------------------------------------------------
(* Imports keep the invariant.                                             *)

\* The first entries of one transcript are the other's.
LEMMA PrefixStays ==
    ASSUME NEW s \in Transcript, NEW t \in Transcript, NEW n \in 0 .. Len(s), n <= Len(t),
           \A i \in 1 .. n : s[i] = t[i]
    PROVE  IsPrefix(SubSeq(s, 1, n), t)
<1> DEFINE q == SubSeq(s, 1, n)
<1>1. q \in Transcript /\ Len(q) = n /\ \A i \in 1 .. n : q[i] = s[i]
  BY FirstEntries
<1> HIDE DEF q
<1>2. IsPrefix(q, t)
  BY <1>1, PrefixAt
<1> QED
  BY <1>2 DEF q

\* A session whose current version holds its entries, and says where they come from.
LEMMA StateFollows ==
    ASSUME DecisionLogsAssumption, NEW c \in Exports,
           entries' \in Transcript, session' \in SessionRow, session'.repository_entries \in 0 .. Len(entries'),
           versions' \in Seq(VersionRow), session'.content_sha256 = c.bytes, SameEntries(entries', c.entries),
           NEW i \in DOMAIN versions', versions'[i].status = "current", versions'[i].entries_sha256 = entries',
           session'.repository_entries = 0 \/ versions'[i].from \in {"git", "cli", "store"}
    PROVE  TypeOK' /\ ContentKnown' /\ ConfirmedFromSource'
<1>1. TypeOK'
  BY DEF TypeOK
<1>2. PICK e : e = session'.repository_entries
  OBVIOUS
<1>3. e \in Nat /\ Len(entries') \in Nat /\ e <= Len(entries')
  BY <1>2 DEF Transcript
<1>4. c.bytes \in Digests
  BY DEF Digests
<1>5. session' # NoSession /\ session'.content_sha256 # Null /\ session'.repository_entries # Null
  BY <1>2, <1>3, <1>4 DEF DecisionLogsAssumption
<1>6. ContentKnown'
  <2>1. ASSUME NEW d \in Exports, session'.content_sha256 = d.bytes PROVE SameEntries(entries', d.entries)
    <3>1. d.entries = c.entries
      BY <2>1 DEF DecisionLogsAssumption
    <3> QED
      BY <3>1
  <2> QED
    BY <1>5, <2>1 DEF ContentKnown
<1>7. RepositoryEntries' = e
  <2>1. Min({e, Len(entries')}) = e
    BY <1>3 DEF Min
  <2> QED
    BY <1>2, <1>5, <2>1 DEF RepositoryEntries
<1>8. ConfirmedFromSource'
  <2> DEFINE confirmed == SubSeq(entries', 1, e)
  <2>1. IsPrefix(confirmed, entries') /\ Len(confirmed) = e /\ confirmed \in Transcript
    BY <1>3, FirstEntries
  <2>2. CASE e = 0
    <3>1. confirmed = <<>>
      BY <2>1, <2>2, EmptySeq DEF Transcript
    <3> QED
      BY <1>7, <3>1 DEF ConfirmedFromSource
  <2>3. CASE e # 0
    <3>1. FromSource(versions'[i])
      BY <1>2, <2>3 DEF FromSource, Accepted
    <3>2. IsPrefix(confirmed, versions'[i].entries_sha256)
      BY <2>1
    <3> QED
      BY <1>7, <3>1, <3>2 DEF ConfirmedFromSource
  <2> QED
    BY <2>2, <2>3
<1> QED
  BY <1>1, <1>6, <1>8

\* The current version of an import's export.
LEMMA CurrentRow ==
    ASSUME DecisionLogsAssumption, NEW c \in Exports, NEW u \in Uploads, entries' \in Transcript,
           NEW row, row = Current(c, entries', u)
    PROVE  NextRow(row) /\ row.from = u.from /\ row.submitted_by = u.by
<1>1. u.from \in {"git", "cli", "store", "api"} /\ u.by \in Members \cup {Null}
  BY UploadsAre
<1>2. c.bytes \in Digests /\ Len(entries') \in Nat
  BY DEF Digests, Transcript
<1> QED
  BY <1>1, <1>2 DEF Current, Version, VersionRow, NextRow

\* A new session.
LEMMA CreateKeeps ==
    ASSUME DecisionLogsAssumption, IInv, NEW c \in Exports, NEW u \in Uploads, Create(c, u)
    PROVE  IInv' /\ LogsAreKept
<1> USE DEF IInv
<1>1. session = NoSession /\ entries' = c.entries
  BY OutcomesMean DEF Create
<1>2. versions = <<>> /\ ~HasCurrentVersion
  BY <1>1 DEF ContentKnown, HasCurrentVersion
<1>3. /\ entries' \in Transcript /\ Len(entries') \in Nat /\ DOMAIN entries' = 1 .. Len(entries')
  BY <1>1, ExportsAreTranscripts
<1>4. PICK row : row = Current(c, entries', u)
  OBVIOUS
<1>5. NextRow(row) /\ row.from = u.from /\ row.submitted_by = u.by
  BY <1>3, <1>4, CurrentRow
<1>6. versions' = Append(versions, row)
  BY <1>1, <1>4 DEF Create
<1>7. /\ session'.content_sha256 = c.bytes /\ session'.submitted_by = u.by
      /\ session'.repository_entries = (IF u.authority \in Sources THEN Len(entries') ELSE 0)
      /\ session' \in SessionRow
  <2>1. c.bytes \in Digests /\ u.by \in Members \cup {Null}
    BY UploadsAre DEF Digests
  <2> QED
    BY <1>1, <1>3, <2>1 DEF Create, SessionRow
<1>8. VersionsInv' /\ versions' \in Seq(VersionRow) /\ HasCurrentVersion'
  BY <1>2, <1>5, <1>6, <1>7, FirstVersion DEF NextRow
<1>9. SameEntries(entries', c.entries)
  BY <1>1, <1>3 DEF SameEntries, SameEntry
<1>10. PICK i \in DOMAIN versions' : versions'[i] = row
  <2>1. versions \in Seq(VersionRow) /\ row \in VersionRow
    BY <1>5 DEF NextRow, TypeOK
  <2> QED
    BY <1>6, <2>1, AppendProperties
<1>11. session'.repository_entries = 0 \/ versions'[i].from \in {"git", "cli", "store"}
  BY <1>5, <1>7, <1>10, UploadsAre
<1>12. versions'[i].status = "current" /\ versions'[i].entries_sha256 = entries'
  BY <1>5, <1>10 DEF NextRow
<1>13. session'.repository_entries \in 0 .. Len(entries')
  BY <1>3, <1>7
<1>14. TypeOK' /\ ContentKnown' /\ ConfirmedFromSource'
  BY <1>3, <1>7, <1>8, <1>9, <1>11, <1>12, <1>13, StateFollows
<1>15. LogsAreKept
  BY <1>1, <1>2 DEF LogsAreKept, SuppliedEntriesStay, NothingLost
<1> QED
  BY <1>8, <1>14, <1>15

\* A session that an export goes on from.
LEMMA ExtendKeeps ==
    ASSUME DecisionLogsAssumption, IInv, NEW c \in Exports, NEW u \in Uploads, Extend(c, u)
    PROVE  IInv' /\ LogsAreKept
<1> USE DEF IInv
<1> DEFINE D == Differences(c.entries)
           content == SubSeq(c.entries, 1, Len(entries))
<1>1. Outcome(c, u) = "extended"
  BY DEF Extend
<1>2. /\ session # NoSession /\ D = {} /\ Len(c.entries) > Len(entries) /\ MayExtend(u)
      /\ u.authority \in Sources \/ ~(RepositoryEntries > 0)
  BY <1>1, OutcomesMean
<1>3. /\ entries \in Transcript /\ Len(entries) \in Nat /\ DOMAIN entries = 1 .. Len(entries)
      /\ c.entries \in Transcript /\ Len(c.entries) \in Nat /\ DOMAIN c.entries = 1 .. Len(c.entries)
  BY ExportsAreTranscripts, BasicTypes
<1>4. /\ entries' \in Transcript /\ Len(entries') = Len(c.entries)
      /\ \A i \in 1 .. Len(c.entries) : entries'[i] = IF i <= Len(entries) THEN entries[i] ELSE c.entries[i]
  <2> HIDE DEF D, content
  <2>1. Len(entries) <= Len(c.entries)
    BY <1>2, <1>3
  <2> DEFINE new == entries \o SubSeq(c.entries, Len(entries) + 1, Len(c.entries))
  <2>2. entries' = new
    BY DEF Extend
  <2>3. /\ new \in Transcript /\ Len(new) = Len(c.entries)
        /\ \A i \in 1 .. Len(c.entries) : new[i] = IF i <= Len(entries) THEN entries[i] ELSE c.entries[i]
    BY <1>3, <2>1, Continued
  <2> HIDE DEF new
  <2> QED
    BY <2>2, <2>3
<1>5. \A i \in 1 .. Len(entries) : SameEntry(entries[i], c.entries[i])
  BY <1>2, <1>3, DifferencesAre
<1>6. SameEntries(entries', c.entries)
  <2>1. DOMAIN entries' = 1 .. Len(c.entries)
    BY <1>4 DEF Transcript
  <2>2. \A i \in 1 .. Len(c.entries) : SameEntry(entries'[i], c.entries[i])
    BY <1>3, <1>4, <1>5 DEF SameEntry
  <2> QED
    BY <1>4, <2>1, <2>2 DEF SameEntries
<1>7. content \in Transcript /\ SameEntries(content, entries)
  <2>1. Len(entries) \in 0 .. Len(c.entries)
    BY <1>2, <1>3
  <2>2. /\ content \in Transcript /\ Len(content) = Len(entries)
        /\ \A i \in 1 .. Len(entries) : content[i] = c.entries[i]
    BY <1>3, <2>1, FirstEntries
  <2> HIDE DEF content
  <2>3. DOMAIN content = 1 .. Len(entries)
    BY <2>2 DEF Transcript
  <2> QED
    BY <1>5, <2>2, <2>3 DEF SameEntries, SameEntry
<1>8. IsPrefix(entries, entries')
  BY <1>2, <1>3, <1>4, PrefixAt
<1>9. PICK row : row = Current(c, entries', u)
  OBVIOUS
<1>10. NextRow(row) /\ row.from = u.from /\ row.submitted_by = u.by
  BY <1>4, <1>9, CurrentRow
<1>11. versions' = Append(SupersedeCurrent(content, "extended"), row)
  BY <1>9 DEF Extend
<1>12. RepositoryEntries \in 0 .. Len(entries)
  BY <1>2, SuppliedAre
<1>13. /\ session'.content_sha256 = c.bytes /\ session'.submitted_by = session.submitted_by
       /\ session'.conflict = session.conflict
       /\ session'.repository_entries =
            (IF u.authority \in Sources THEN Len(c.entries) ELSE RepositoryEntries)
       /\ session' \in SessionRow
  <2>1. c.bytes \in Digests /\ session \in SessionRow
    BY <1>2, BasicTypes DEF Digests
  <2>2. PICK e : e = IF u.authority \in Sources THEN Len(c.entries) ELSE RepositoryEntries
    OBVIOUS
  <2>3. e \in Nat
    BY <1>3, <1>12, <2>2
  <2>4. session' = [session EXCEPT !.content_sha256 = c.bytes, !.repository_entries = e]
    BY <2>2 DEF Extend
  <2> QED
    BY <2>1, <2>2, <2>3, <2>4 DEF SessionRow
<1>14. Extending(row)
  <2>1. row.from = "api" /\ row.submitted_by \notin Admins => u.authority = "member"
    BY <1>10, UploadsAre
  <2> QED
    BY <1>2, <1>8, <1>10, <1>13, <2>1 DEF Extending, MayExtend
<1>15. /\ VersionsInv' /\ versions' \in Seq(VersionRow) /\ NothingLost
       /\ \E i \in DOMAIN versions' : versions'[i] = row
  <2> HIDE DEF content
  <2>1. "extended" \in Replacements /\ "extended" # "repository_conflict"
    BY DEF Replacements
  <2> QED
    BY <1>2, <1>7, <1>10, <1>11, <1>14, <2>1, NextVersion
<1>16. PICK i \in DOMAIN versions' : versions'[i] = row
  BY <1>15
<1>17. session'.repository_entries \in 0 .. Len(entries')
  BY <1>2, <1>3, <1>4, <1>12, <1>13
<1>18. session'.repository_entries = 0 \/ versions'[i].from \in {"git", "cli", "store"}
  <2>1. u.authority \notin Sources => RepositoryEntries = 0
    BY <1>2, <1>3, <1>12
  <2> QED
    BY <1>10, <1>13, <1>16, <2>1, UploadsAre
<1>19. versions'[i].status = "current" /\ versions'[i].entries_sha256 = entries'
  BY <1>10, <1>16 DEF NextRow
<1>20. TypeOK' /\ ContentKnown' /\ ConfirmedFromSource'
  BY <1>4, <1>6, <1>13, <1>15, <1>17, <1>18, <1>19, StateFollows
<1>21. SuppliedEntriesStay
  <2>1. RepositoryEntries <= Len(entries') /\ \A j \in 1 .. RepositoryEntries : entries[j] = entries'[j]
    BY <1>2, <1>3, <1>4, <1>12
  <2> QED
    BY <1>3, <1>4, <1>12, <2>1, PrefixStays DEF SuppliedEntriesStay
<1> QED
  BY <1>15, <1>20, <1>21 DEF LogsAreKept

\* A repository's export that replaces or truncates what the API supplied.
LEMMA AdoptKeeps ==
    ASSUME DecisionLogsAssumption, IInv, NEW c \in Exports, NEW u \in Uploads, AdoptRepositoryVersion(c, u)
    PROVE  IInv' /\ LogsAreKept
<1> USE DEF IInv
<1> DEFINE D == Differences(c.entries)
           cut == IF D # {} THEN Min(D) - 1 ELSE Len(c.entries)
<1>1. Outcome(c, u) = "conflict"
  BY DEF AdoptRepositoryVersion
<1>2. session # NoSession /\ u.authority = "system" /\ RepositoryWins(c.entries)
  BY <1>1, OutcomesMean
<1>3. /\ entries \in Transcript /\ Len(entries) \in Nat /\ DOMAIN entries = 1 .. Len(entries)
      /\ c.entries \in Transcript /\ Len(c.entries) \in Nat /\ DOMAIN c.entries = 1 .. Len(c.entries)
  BY ExportsAreTranscripts, BasicTypes
<1>4. RepositoryEntries \in 0 .. Len(entries)
  BY <1>2, SuppliedAre
<1>5. /\ \A i \in D : i \in 1 .. Len(entries) /\ i \in 1 .. Len(c.entries)
      /\ D # {} => Min(D) \in D /\ \A i \in D : Min(D) <= i
      /\ D = {} => \A i \in 1 .. Len(entries) : i <= Len(c.entries) => SameEntry(entries[i], c.entries[i])
  BY DifferencesAre
<1>6. PICK n : n = cut
  OBVIOUS
<1>7. /\ n \in 0 .. Len(entries) /\ n <= Len(c.entries)
      /\ session.repository_entries # Null => RepositoryEntries <= n
  <2>1. CASE D # {}
    <3>1. n = Min(D) - 1 /\ Min(D) \in 1 .. Len(entries) /\ Min(D) \in 1 .. Len(c.entries)
      BY <1>5, <1>6, <2>1
    <3>2. session.repository_entries # Null => Min(D) > RepositoryEntries
      BY <1>2, <2>1 DEF RepositoryWins
    <3> QED
      BY <1>3, <1>4, <3>1, <3>2
  <2>2. CASE D = {}
    <3>1. n = Len(c.entries) /\ Len(c.entries) < Len(entries)
      BY <1>2, <1>6, <2>2 DEF RepositoryWins
    <3>2. session.repository_entries # Null => RepositoryEntries <= Len(c.entries)
      BY <1>2, <2>2 DEF RepositoryWins
    <3> QED
      BY <1>3, <3>1, <3>2
  <2> QED
    BY <2>1, <2>2
<1>8. \A i \in 1 .. n : SameEntry(entries[i], c.entries[i])
  <2>1. CASE D # {}
    <3>1. n = Min(D) - 1 /\ Min(D) \in Nat
      BY <1>3, <1>5, <1>6, <2>1
    <3>2. ASSUME NEW i \in 1 .. n PROVE SameEntry(entries[i], c.entries[i])
      <4>1. i \notin D
        <5> DEFINE d == Min(D)
        <5>1. d \in Nat /\ n = d - 1 /\ (i \in D => d <= i)
          BY <1>5, <2>1, <3>1
        <5> HIDE DEF d
        <5> QED
          BY <1>7, <5>1
      <4>2. i \in DOMAIN entries \cap DOMAIN c.entries
        BY <1>3, <1>7
      <4> QED
        BY <4>1, <4>2 DEF Differences
    <3> QED
      BY <3>2
  <2>2. CASE D = {}
    BY <1>3, <1>5, <1>7, <2>2
  <2> QED
    BY <2>1, <2>2
<1>9. entries' = SubSeq(entries, 1, n) \o SubSeq(c.entries, n + 1, Len(c.entries))
  BY <1>6 DEF AdoptRepositoryVersion
<1> HIDE DEF D, cut
<1>10. /\ entries' \in Transcript /\ Len(entries') = Len(c.entries)
       /\ \A i \in 1 .. Len(c.entries) : entries'[i] = IF i <= n THEN entries[i] ELSE c.entries[i]
  <2> DEFINE new == SubSeq(entries, 1, n) \o SubSeq(c.entries, n + 1, Len(c.entries))
  <2>1. /\ new \in Transcript /\ Len(new) = Len(c.entries)
        /\ \A i \in 1 .. Len(c.entries) : new[i] = IF i <= n THEN entries[i] ELSE c.entries[i]
    BY <1>3, <1>7, Spliced
  <2>2. entries' = new
    BY <1>9
  <2> HIDE DEF new
  <2> QED
    BY <2>1, <2>2
<1>11. SameEntries(entries', c.entries)
  <2>1. DOMAIN entries' = 1 .. Len(c.entries)
    BY <1>10 DEF Transcript
  <2>2. \A i \in 1 .. Len(c.entries) : SameEntry(entries'[i], c.entries[i])
    BY <1>3, <1>7, <1>8, <1>10 DEF SameEntry
  <2> QED
    BY <1>10, <2>1, <2>2 DEF SameEntries
<1>12. SameEntries(entries, entries)
  BY DEF SameEntries, SameEntry
<1>13. PICK row : row = Current(c, entries', u)
  OBVIOUS
<1>14. NextRow(row) /\ row.from = u.from /\ row.submitted_by = u.by
  BY <1>10, <1>13, CurrentRow
<1>15. versions' = Append(SupersedeCurrent(entries, "repository_conflict"), row)
  BY <1>13 DEF AdoptRepositoryVersion
<1>16. /\ session'.content_sha256 = c.bytes /\ session'.conflict
       /\ session'.repository_entries = Len(c.entries) /\ session' \in SessionRow
  <2>1. c.bytes \in Digests /\ u.by \in Members \cup {Null}
    BY UploadsAre DEF Digests
  <2> QED
    BY <1>3, <2>1 DEF AdoptRepositoryVersion, SessionRow
<1>17. u.from \in {"git", "cli"}
  BY <1>2, UploadsAre
<1>18. Replacing(row)
  BY <1>14, <1>16, <1>17 DEF Replacing
<1>19. /\ VersionsInv' /\ versions' \in Seq(VersionRow) /\ NothingLost
       /\ \E i \in DOMAIN versions' : versions'[i] = row
  <2>1. "repository_conflict" \in Replacements /\ "extended" # "repository_conflict"
    BY DEF Replacements
  <2> QED
    BY <1>2, <1>3, <1>12, <1>14, <1>15, <1>18, <2>1, NextVersion
<1>20. PICK i \in DOMAIN versions' : versions'[i] = row
  BY <1>19
<1>21. session'.repository_entries \in 0 .. Len(entries')
  BY <1>3, <1>10, <1>16
<1>22. versions'[i].from \in {"git", "cli", "store"}
  BY <1>14, <1>17, <1>20
<1>23. versions'[i].status = "current" /\ versions'[i].entries_sha256 = entries'
  BY <1>14, <1>20 DEF NextRow
<1>24. TypeOK' /\ ContentKnown' /\ ConfirmedFromSource'
  BY <1>10, <1>11, <1>16, <1>19, <1>21, <1>22, <1>23, StateFollows
<1>25. SuppliedEntriesStay
  <2>1. ASSUME session.repository_entries # Null PROVE IsPrefix(SubSeq(entries, 1, RepositoryEntries), entries')
    <3>1. RepositoryEntries <= Len(entries') /\ \A j \in 1 .. RepositoryEntries : entries[j] = entries'[j]
      BY <1>3, <1>4, <1>7, <1>10, <2>1
    <3> QED
      BY <1>3, <1>4, <1>10, <3>1, PrefixStays
  <2> QED
    BY <2>1 DEF SuppliedEntriesStay
<1> QED
  BY <1>19, <1>24, <1>25 DEF LogsAreKept

\* The export of a session no version of which was recorded.
LEMMA BaselineKeeps ==
    ASSUME DecisionLogsAssumption, IInv, NEW c \in Exports, NEW u \in Uploads, Baseline(c, u)
    PROVE  IInv' /\ LogsAreKept
<1> USE DEF IInv
<1>1. /\ session # NoSession /\ u.authority \in Sources /\ ~HasCurrentVersion
      /\ SameEntries(entries, c.entries)
  BY OutcomesMean DEF Baseline, Unbaselined
<1>2. entries' = entries /\ entries \in Transcript /\ Len(entries) \in Nat
  BY BasicTypes DEF Baseline
<1>3. PICK row : row = Version("current", c.bytes, entries, u.from, Null, Null, Null)
  OBVIOUS
<1>4. /\ row \in VersionRow /\ row.status = "current" /\ row.entries_sha256 = entries
      /\ row.entry_count = Len(entries) /\ row.from = u.from
  <2>1. c.bytes \in Digests /\ u.from \in {"git", "cli", "store", "api"}
    BY UploadsAre DEF Digests
  <2> QED
    BY <1>2, <1>3, <2>1 DEF Version, VersionRow
<1>5. u.from \in {"git", "cli", "store"} /\ u.from # "api"
  BY <1>1, UploadsAre
<1>6. versions' = Append(versions, row)
  BY <1>3 DEF Baseline
<1>7. VersionsInv' /\ versions' \in Seq(VersionRow) /\ HasCurrentVersion'
  BY <1>1, <1>2, <1>4, <1>5, <1>6, FirstVersion
<1>8. versions \in Seq(VersionRow)
  BY BasicTypes
<1>9. /\ Len(versions) + 1 \in DOMAIN versions' /\ versions'[Len(versions) + 1] = row
      /\ \A i \in DOMAIN versions : i \in DOMAIN versions' /\ versions'[i] = versions[i]
  BY <1>4, <1>6, <1>8, RowAdded
<1>10. /\ session'.content_sha256 = c.bytes /\ session'.repository_entries = Len(entries)
       /\ session' \in SessionRow
  <2>1. c.bytes \in Digests /\ session \in SessionRow
    BY <1>1, BasicTypes DEF Digests
  <2> QED
    BY <1>2, <2>1 DEF Baseline, SessionRow
<1>11. PICK i \in DOMAIN versions' : versions'[i] = row
  BY <1>9
<1>12. session'.repository_entries \in 0 .. Len(entries')
  BY <1>2, <1>10
<1>13. /\ versions'[i].from \in {"git", "cli", "store"} /\ versions'[i].status = "current"
       /\ versions'[i].entries_sha256 = entries'
  BY <1>2, <1>4, <1>5, <1>11
<1>14. SameEntries(entries', c.entries) /\ entries' \in Transcript
  BY <1>1, <1>2
<1>15. TypeOK' /\ ContentKnown' /\ ConfirmedFromSource'
  BY <1>7, <1>10, <1>12, <1>13, <1>14, StateFollows
<1>16. SuppliedEntriesStay
  BY <1>1, <1>2, SuppliedAre, FirstEntries DEF SuppliedEntriesStay
<1>17. NothingLost
  BY <1>2, <1>9 DEF NothingLost
<1> QED
  BY <1>7, <1>15, <1>16, <1>17 DEF LogsAreKept

\* A rejected version is no part of the history.
LEMMA RejectKeeps ==
    ASSUME DecisionLogsAssumption, IInv, NEW c \in Exports, NEW u \in Uploads, Reject(c, u)
    PROVE  IInv' /\ LogsAreKept
<1> USE DEF IInv
<1>1. session # NoSession /\ session' = session /\ entries' = entries
  BY OutcomesMean DEF Reject
<1>2. PICK row : row = [Version("rejected", c.bytes, c.entries, u.from, u.by, c.entries, "rejected")
                           EXCEPT !.entries_sha256 = Null]
  OBVIOUS
<1>3. row \in VersionRow /\ row.status = "rejected"
  <2>1. /\ c.bytes \in Digests /\ u.from \in {"git", "cli", "store", "api"} /\ u.by \in Members \cup {Null}
        /\ c.entries \in Transcript /\ Len(c.entries) \in Nat
    BY UploadsAre, ExportsAreTranscripts DEF Digests
  <2> QED
    BY <1>2, <2>1 DEF Version, VersionRow
<1>4. versions' = Append(versions, row) /\ versions \in Seq(VersionRow)
  BY <1>2, BasicTypes DEF Reject
<1>5. PICK n : n = Len(versions)
  OBVIOUS
<1>6. /\ versions' \in Seq(VersionRow) /\ n \in Nat /\ DOMAIN versions = 1 .. n
      /\ DOMAIN versions' = 1 .. n + 1 /\ versions'[n + 1] = row
      /\ \A i \in 1 .. n : versions'[i] = versions[i]
  BY <1>3, <1>4, <1>5, RowAdded
<1>7. /\ versions'[n + 1].status = "rejected"
      /\ \A i \in DOMAIN versions' : i = n + 1 \/ i \in DOMAIN versions
      /\ \A i \in DOMAIN versions : i \in DOMAIN versions' /\ versions'[i] = versions[i] /\ i \in Nat /\ i < n + 1
  BY <1>3, <1>6
<1>8. \A i \in DOMAIN versions' : versions'[i].status # "rejected" => i \in DOMAIN versions /\ versions'[i] = versions[i]
  BY <1>7
<1>9. HasCurrentVersion' <=> HasCurrentVersion
  BY <1>7, <1>8 DEF HasCurrentVersion
<1>10. TypeOK' /\ ContentKnown'
  BY <1>1, <1>6, <1>9 DEF TypeOK, ContentKnown
<1>11. CurrentIsLast'
  BY <1>1, <1>7, <1>8 DEF VersionsInv, CurrentIsLast
<1>12. SupersededHave'
  BY <1>7, <1>8 DEF VersionsInv, SupersededHave
<1>13. Counted'
  BY <1>8 DEF VersionsInv, Counted, Accepted
<1>14. \A i \in DOMAIN versions : Conflict(versions[i]) => Conflict(versions'[i])
  BY <1>7 DEF Conflict
<1>15. \A i \in DOMAIN versions' : Conflict(versions'[i]) => i \in DOMAIN versions /\ Conflict(versions[i])
  BY <1>8 DEF Conflict
<1>16. PrefixesSince'
  <2> SUFFICES ASSUME NEW i \in DOMAIN versions', versions'[i].status = "superseded",
                      \A j \in DOMAIN versions' : Conflict(versions'[j]) => j < i
               PROVE  IsPrefix(versions'[i].entries_sha256, entries')
    BY DEF PrefixesSince, Conflict
  <2>1. i \in DOMAIN versions /\ versions'[i] = versions[i]
    BY <1>8
  <2>2. \A j \in DOMAIN versions : Conflict(versions[j]) => j < i
    BY <1>7, <1>14
  <2> QED
    BY <1>1, <2>1, <2>2 DEF VersionsInv, PrefixesSince
<1>17. InOrder'
  <2> SUFFICES ASSUME NEW i \in DOMAIN versions', NEW j \in DOMAIN versions',
                      i < j, Accepted(versions'[i]), Accepted(versions'[j]),
                      \A m \in DOMAIN versions' : i < m /\ m < j => ~Accepted(versions'[m])
               PROVE  IF versions'[i].reason = "repository_conflict" THEN versions'[j].from \in {"git", "cli"}
                      ELSE versions'[i].entry_count <= versions'[j].entry_count
    BY DEF InOrder, Accepted
  <2>1. /\ i \in DOMAIN versions /\ versions'[i] = versions[i]
        /\ j \in DOMAIN versions /\ versions'[j] = versions[j]
    BY <1>8 DEF Accepted
  <2>2. \A m \in DOMAIN versions : i < m /\ m < j => ~Accepted(versions[m])
    BY <1>7
  <2>3. Accepted(versions[i]) /\ Accepted(versions[j])
    BY <2>1
  <2>4. IF versions[i].reason = "repository_conflict" THEN versions[j].from \in {"git", "cli"}
        ELSE versions[i].entry_count <= versions[j].entry_count
    BY <2>1, <2>2, <2>3 DEF VersionsInv, InOrder
  <2> QED
    BY <2>1, <2>4
<1>18. MembersOwn'
  <2>1. \A j \in DOMAIN versions' : Conflict(versions'[j]) => session'.conflict
    BY <1>1, <1>15 DEF VersionsInv, MembersOwn
  <2>2. ASSUME NEW i \in DOMAIN versions', Accepted(versions'[i]), versions'[i].from = "api",
               versions'[i].submitted_by \notin Admins
        PROVE  /\ \A j \in DOMAIN versions' : Conflict(versions'[j]) => i <= j
               /\ ~session'.conflict => versions'[i].submitted_by = session'.submitted_by
    <3>1. i \in DOMAIN versions /\ versions'[i] = versions[i]
      BY <1>8, <2>2 DEF Accepted
    <3>2. /\ \A j \in DOMAIN versions : Conflict(versions[j]) => i <= j
          /\ ~session.conflict => versions[i].submitted_by = session.submitted_by
      BY <2>2, <3>1 DEF VersionsInv, MembersOwn
    <3> QED
      BY <1>1, <1>15, <3>1, <3>2
  <2> QED
    BY <2>1, <2>2 DEF MembersOwn, Conflict, Accepted
<1>19. ConfirmedFromSource'
  <2>1. \A i \in DOMAIN versions : FromSource(versions[i]) => FromSource(versions'[i])
    BY <1>7 DEF FromSource
  <2>2. RepositoryEntries' = RepositoryEntries
    BY <1>1 DEF RepositoryEntries
  <2> QED
    BY <1>1, <1>7, <2>1, <2>2 DEF ConfirmedFromSource
<1>20. SuppliedEntriesStay
  BY <1>1, BasicTypes, SuppliedAre, FirstEntries DEF SuppliedEntriesStay
<1>21. NothingLost
  BY <1>1, <1>7 DEF NothingLost
<1> QED
  BY <1>10, <1>11, <1>12, <1>13, <1>16, <1>17, <1>18, <1>19, <1>20, <1>21 DEF VersionsInv, LogsAreKept

\* A restored session that learns its export's digest.
LEMMA BackfillKeeps ==
    ASSUME DecisionLogsAssumption, IInv, NEW c \in Exports, NEW u \in Uploads, Backfill(c, u)
    PROVE  IInv' /\ LogsAreKept
<1> USE DEF IInv
<1>1. /\ session # NoSession /\ session.content_sha256 = Null
      /\ SameEntries(entries, c.entries) /\ ~Unbaselined(u)
  BY OutcomesMean DEF Backfill
<1>2. entries' = entries /\ versions' = versions
  BY DEF Backfill
<1>3. ~HasCurrentVersion /\ u.authority \notin Sources
  BY <1>1 DEF ContentKnown, Unbaselined
<1>4. /\ session'.content_sha256 = c.bytes /\ session'.submitted_by = session.submitted_by
      /\ session'.conflict = session.conflict
      /\ session'.repository_entries = session.repository_entries /\ session' \in SessionRow
  <2>1. c.bytes \in Digests /\ session \in SessionRow /\ u.authority # "system"
    BY <1>1, <1>3, BasicTypes DEF Digests, Sources
  <2>2. PICK e : e = session.repository_entries
    OBVIOUS
  <2>3. session' = [session EXCEPT !.content_sha256 = c.bytes, !.repository_entries = e]
    BY <2>1, <2>2 DEF Backfill
  <2>4. e \in Nat \cup {Null}
    BY <2>1, <2>2 DEF SessionRow
  <2> QED
    BY <2>1, <2>2, <2>3, <2>4 DEF SessionRow
<1>5. session' # NoSession
  BY <1>4 DEF DecisionLogsAssumption
<1>6. TypeOK'
  BY <1>1, <1>2, <1>4 DEF TypeOK
<1>7. ContentKnown'
  <2>1. \A d \in Exports : session'.content_sha256 = d.bytes => SameEntries(entries', d.entries)
    <3> SUFFICES ASSUME NEW d \in Exports, session'.content_sha256 = d.bytes PROVE SameEntries(entries', d.entries)
      OBVIOUS
    <3>1. d.entries = c.entries
      BY <1>4 DEF DecisionLogsAssumption
    <3> QED
      BY <1>1, <1>2, <3>1
  <2>2. ~HasCurrentVersion'
    BY <1>2, <1>3 DEF HasCurrentVersion
  <2> QED
    BY <1>5, <2>1, <2>2 DEF ContentKnown
<1>8. CurrentIsLast' /\ SupersededHave' /\ Counted' /\ PrefixesSince' /\ InOrder'
  BY <1>2 DEF VersionsInv, CurrentIsLast, SupersededHave, Counted, PrefixesSince, InOrder
<1>9. MembersOwn'
  BY <1>2, <1>4 DEF VersionsInv, MembersOwn
<1>10. RepositoryEntries' = RepositoryEntries
  BY <1>2, <1>4 DEF RepositoryEntries
<1>11. ConfirmedFromSource'
  BY <1>1, <1>2, <1>4, <1>10 DEF ConfirmedFromSource
<1>12. SuppliedEntriesStay
  BY <1>1, <1>2, BasicTypes, SuppliedAre, FirstEntries DEF SuppliedEntriesStay
<1>13. NothingLost
  BY <1>2 DEF NothingLost
<1> QED
  BY <1>6, <1>7, <1>8, <1>9, <1>11, <1>12, <1>13 DEF VersionsInv, LogsAreKept

-----------------------------------------------------------------------------
(* What the invariant says.                                                *)

\* A version with a later one is superseded, one without is current.
LEMMA HistoryIs ==
    ASSUME IInv, NEW i \in History
    PROVE  /\ i \in DOMAIN versions /\ Accepted(versions[i])
           /\ Later(i) = {} => versions[i].status = "current"
           /\ Later(i) # {} => versions[i].status = "superseded"
           /\ i \in ConflictSteps <=> Conflict(versions[i])
<1>1. i \in DOMAIN versions /\ Accepted(versions[i])
  BY DEF History
<1>2. versions[i].status \in {"current", "superseded"}
  <2>1. versions[i] \in VersionRow
    BY <1>1, BasicTypes DEF IInv
  <2> QED
    BY <1>1, <2>1 DEF VersionRow, Accepted
<1>3. versions[i].status = "current" => Later(i) = {}
  BY <1>1 DEF IInv, VersionsInv, CurrentIsLast, Later, History, Accepted
<1>4. versions[i].status = "superseded" => Later(i) # {}
  <2> SUFFICES ASSUME versions[i].status = "superseded" PROVE Later(i) # {}
    OBVIOUS
  <2>1. PICK j \in DOMAIN versions : j > i /\ versions[j].status = "current"
    BY <1>1 DEF IInv, VersionsInv, SupersededHave
  <2>2. j \in Later(i)
    BY <2>1 DEF Later, History, Accepted
  <2> QED
    BY <2>2
<1>5. i \in ConflictSteps <=> Conflict(versions[i])
  BY <1>2, <1>3, <1>4 DEF ConflictSteps, Conflict
<1> QED
  BY <1>1, <1>2, <1>3, <1>4, <1>5

\* The conflicts among the versions.
LEMMA ConflictsAre ==
    ASSUME IInv
    PROVE  \A j \in DOMAIN versions : j \in ConflictSteps <=> Conflict(versions[j])
<1> SUFFICES ASSUME NEW j \in DOMAIN versions PROVE j \in ConflictSteps <=> Conflict(versions[j])
  OBVIOUS
<1>1. CASE j \in History
  BY <1>1, HistoryIs
<1>2. CASE j \notin History
  BY <1>2 DEF History, ConflictSteps, Conflict, Accepted
<1> QED
  BY <1>1, <1>2

\* The parts of what every state promises.
LEMMA TheHistoryGrows ==
    ASSUME DecisionLogsAssumption, IInv PROVE HistoryGrows
<1> SUFFICES ASSUME NEW i \in History
    PROVE  IF Later(i) = {} THEN versions[i].status = "current" /\ versions[i].entries_sha256 = entries
           ELSE /\ versions[i].status = "superseded"
                /\ versions[i].content_gz # Null
                /\ SameEntries(versions[i].content_gz, versions[i].entries_sha256)
                /\ (\A j \in ConflictSteps : j < i) => IsPrefix(versions[i].entries_sha256, entries)
                /\ \A j \in History : Follows(i, j) =>
                       IF i \in ConflictSteps THEN versions[j].from \in {"git", "cli"}
                       ELSE versions[i].entry_count <= versions[j].entry_count
  BY DEF HistoryGrows
<1>1. i \in DOMAIN versions /\ Accepted(versions[i])
  BY HistoryIs
<1>2. CASE Later(i) = {}
  <2>1. versions[i].status = "current"
    BY <1>2, HistoryIs
  <2>2. versions[i].entries_sha256 = entries
    BY <1>1, <2>1 DEF IInv, VersionsInv, CurrentIsLast
  <2> QED
    BY <1>2, <2>1, <2>2
<1>3. CASE Later(i) # {}
  <2>1. versions[i].status = "superseded"
    BY <1>3, HistoryIs
  <2>2. versions[i].content_gz \in Transcript /\ SameEntries(versions[i].content_gz, versions[i].entries_sha256)
    BY <1>1, <2>1 DEF IInv, VersionsInv, SupersededHave
  <2>3. versions[i].content_gz # Null
    BY <2>2 DEF DecisionLogsAssumption
  <2>4. ASSUME \A j \in ConflictSteps : j < i PROVE IsPrefix(versions[i].entries_sha256, entries)
    <3>1. \A j \in DOMAIN versions : Conflict(versions[j]) => j < i
      BY <2>4, ConflictsAre
    <3> QED
      BY <1>1, <2>1, <3>1 DEF IInv, VersionsInv, PrefixesSince
  <2>5. ASSUME NEW j \in History, Follows(i, j)
        PROVE  IF i \in ConflictSteps THEN versions[j].from \in {"git", "cli"}
               ELSE versions[i].entry_count <= versions[j].entry_count
    <3>1. j \in DOMAIN versions /\ Accepted(versions[j]) /\ i < j /\ j \in Nat /\ i \in Nat
      BY <1>1, <2>5, BasicTypes DEF Follows, Later, History, IInv
    <3>2. ASSUME NEW k \in DOMAIN versions, i < k, k < j PROVE ~Accepted(versions[k])
      <4>1. k \in Nat
        BY BasicTypes DEF IInv
      <4>2. k \notin Later(i)
        BY <2>5, <3>1, <3>2, <4>1 DEF Follows
      <4> QED
        BY <3>1, <3>2, <4>1, <4>2 DEF Later, History
    <3>3. IF versions[i].reason = "repository_conflict" THEN versions[j].from \in {"git", "cli"}
          ELSE versions[i].entry_count <= versions[j].entry_count
      BY <1>1, <3>1, <3>2 DEF IInv, VersionsInv, InOrder
    <3>4. i \in ConflictSteps <=> versions[i].reason = "repository_conflict"
      BY <1>3 DEF ConflictSteps
    <3> QED
      BY <3>3, <3>4
  <2> QED
    BY <1>3, <2>1, <2>2, <2>3, <2>4, <2>5
<1> QED
  BY <1>2, <1>3

\* A member's versions are of the member's own session.
LEMMA OwnersExtend ==
    ASSUME DecisionLogsAssumption, IInv PROVE MembersExtendTheirOwn
<1> SUFFICES ASSUME NEW i \in History, versions[i].from = "api", versions[i].submitted_by \notin Admins
             PROVE  /\ \A j \in ConflictSteps : i <= j
                    /\ ~session.conflict => versions[i].submitted_by = session.submitted_by
  BY DEF MembersExtendTheirOwn
<1>1. i \in DOMAIN versions /\ Accepted(versions[i])
  BY DEF History
<1>2. /\ \A j \in DOMAIN versions : Conflict(versions[j]) => i <= j
      /\ ~session.conflict => versions[i].submitted_by = session.submitted_by
  BY <1>1 DEF IInv, VersionsInv, MembersOwn
<1>3. ASSUME NEW j \in ConflictSteps PROVE i <= j
  <2>1. j \in DOMAIN versions
    BY DEF ConflictSteps, History
  <2> QED
    BY <1>2, <2>1, ConflictsAre
<1> QED
  BY <1>2, <1>3

\* What the repository holds is what is stored, but for what it supplied before.
LEMMA TheRepositoryStands ==
    ASSUME DecisionLogsAssumption, IInv PROVE RepositoryStands
<1> SUFFICES ASSUME NEW c \in Exports, NEW u \in Repository
    PROVE  LET outcome == Outcome(c, u)
               supplied == IF session.repository_entries = Null THEN 0 ELSE RepositoryEntries
           IN  /\ outcome = "rejected" => Min(Differences(c.entries)) <= supplied
               /\ outcome \in {"unchanged", "kept_existing", "baselined", "backfilled"} =>
                     \/ SameEntries(entries, c.entries)
                     \/ /\ Differences(c.entries) = {}
                        /\ Len(c.entries) < supplied
  BY DEF RepositoryStands
<1> USE DEF IInv
<1> DEFINE D == Differences(c.entries)
           supplied == IF session.repository_entries = Null THEN 0 ELSE RepositoryEntries
           outcome == Outcome(c, u)
<1>1. u \in Uploads /\ u.authority = "system"
  BY DEF Uploads, Repository
<1>2. CASE session = NoSession
  <2>1. outcome = "created"
    BY <1>1, <1>2, OutcomesMean
  <2> HIDE DEF outcome
  <2>2. outcome # "rejected" /\ outcome \notin {"unchanged", "kept_existing", "baselined", "backfilled"}
    BY <2>1
  <2> QED
    BY <2>2 DEF outcome
<1>3. CASE session # NoSession
  <2>1. Len(entries) \in Nat /\ Len(c.entries) \in Nat /\ RepositoryEntries \in Nat /\ supplied \in Nat
    BY <1>3, SuppliedAre, ExportsAreTranscripts
  <2>2. RepositoryWins(c.entries) <=>
            IF D # {} THEN Min(D) > supplied
            ELSE supplied <= Len(c.entries) /\ Len(c.entries) < Len(entries)
    BY <1>3 DEF RepositoryWins, ContentKnown
  <2>3. /\ outcome = "unchanged" => session.content_sha256 = c.bytes
        /\ outcome = "baselined" => SameEntries(entries, c.entries)
        /\ outcome = "rejected" => D # {} /\ ~RepositoryWins(c.entries)
        /\ outcome = "backfilled" => SameEntries(entries, c.entries)
        /\ outcome = "kept_existing" => /\ D = {} /\ Len(c.entries) <= Len(entries)
                                        /\ ~RepositoryWins(c.entries)
    BY <1>1, OutcomesMean
  <2>4. /\ D # {} => Min(D) \in Nat
        /\ D = {} /\ Len(entries) = Len(c.entries) => SameEntries(entries, c.entries)
    BY DifferencesAre
  <2> HIDE DEF D, supplied, outcome
  <2>5. outcome = "rejected" => Min(D) <= supplied
    <3> SUFFICES ASSUME outcome = "rejected" PROVE Min(D) <= supplied
      OBVIOUS
    <3>1. D # {} /\ ~(Min(D) > supplied) /\ Min(D) \in Nat
      BY <2>2, <2>3, <2>4
    <3>2. PICK least : least = Min(D)
      OBVIOUS
    <3> QED
      BY <2>1, <3>1, <3>2
  <2>6. outcome = "unchanged" => SameEntries(entries, c.entries)
    BY <1>3, <2>3 DEF ContentKnown
  <2>7. outcome = "kept_existing" => SameEntries(entries, c.entries) \/ (D = {} /\ Len(c.entries) < supplied)
    <3> SUFFICES ASSUME outcome = "kept_existing", Len(entries) # Len(c.entries)
                 PROVE  D = {} /\ Len(c.entries) < supplied
      BY <2>3, <2>4
    <3> QED
      BY <2>1, <2>2, <2>3
  <2>8. outcome \in {"unchanged", "kept_existing", "baselined", "backfilled"} =>
            SameEntries(entries, c.entries) \/ (D = {} /\ Len(c.entries) < supplied)
    BY <2>3, <2>6, <2>7
  <2> QED
    BY <2>5, <2>8 DEF D, supplied, outcome
<1> QED
  BY <1>2, <1>3

-----------------------------------------------------------------------------
(* The theorems.                                                           *)

\* A new or a restored session satisfies the invariant.
LEMMA InitHolds == ASSUME DecisionLogsAssumption, Init PROVE IInv
<1>1. versions = <<>> /\ versions \in Seq(VersionRow) /\ DOMAIN versions = {}
  BY EmptySeq DEF Init
<1>2. ~HasCurrentVersion
  BY <1>1 DEF HasCurrentVersion
<1>3. VersionsInv
  BY <1>1 DEF VersionsInv, CurrentIsLast, SupersededHave, Counted, PrefixesSince, InOrder, MembersOwn
<1>4. CASE session = NoSession /\ entries = <<>>
  <2>1. entries \in Transcript
    BY <1>4, EmptySeq DEF Transcript
  <2>2. TypeOK
    BY <1>1, <1>4, <2>1 DEF TypeOK
  <2> QED
    BY <1>1, <1>2, <1>3, <1>4, <2>2 DEF IInv, ContentKnown, ConfirmedFromSource
<1>5. ASSUME NEW stored \in Restored, NEW by \in Members \cup {Null}, NEW sha \in Digests \cup {Null},
             RestoredSession(stored, sha, by),
             \A d \in Exports : sha = d.bytes => SameEntries(stored, d.entries)
      PROVE  IInv
  <2>1. entries \in Transcript /\ entries = stored
    BY <1>5 DEF RestoredSession, DecisionLogsAssumption
  <2>2. /\ session \in SessionRow /\ session.repository_entries = Null /\ session.content_sha256 = sha
        /\ session # NoSession
    <3>1. session = [content_sha256 |-> sha, submitted_by |-> by,
                     repository_entries |-> Null, conflict |-> FALSE]
      BY <1>5 DEF RestoredSession
    <3>2. session \in SessionRow
      BY <3>1 DEF SessionRow
    <3>3. NoSession \notin SessionRow
      BY DEF DecisionLogsAssumption
    <3> QED
      BY <3>1, <3>2, <3>3
  <2>3. TypeOK
    BY <1>1, <2>1, <2>2 DEF TypeOK
  <2>4. ContentKnown
    BY <1>2, <1>5, <2>1, <2>2 DEF ContentKnown
  <2>5. ConfirmedFromSource
    BY <2>2 DEF ConfirmedFromSource
  <2> QED
    BY <1>3, <2>3, <2>4, <2>5 DEF IInv
<1>6. ASSUME NEW stored \in Restored, NEW by \in Members \cup {Null}, RestoredSession(stored, Null, by)
      PROVE  IInv
  <2>1. \A d \in Exports : Null # d.bytes
    BY DEF Digests, DecisionLogsAssumption
  <2> QED
    BY <1>5, <1>6, <2>1
<1>7. ASSUME NEW stored \in Restored, NEW by \in Members \cup {Null}, NEW c \in Exports,
             SameEntries(stored, c.entries), RestoredSession(stored, c.bytes, by)
      PROVE  IInv
  <2>1. c.bytes \in Digests
    BY DEF Digests
  <2>2. \A d \in Exports : c.bytes = d.bytes => SameEntries(stored, d.entries)
    <3> SUFFICES ASSUME NEW d \in Exports, c.bytes = d.bytes PROVE SameEntries(stored, d.entries)
      OBVIOUS
    <3>1. d.entries = c.entries
      BY DEF DecisionLogsAssumption
    <3> QED
      BY <1>7, <3>1
  <2> QED
    BY <1>5, <1>7, <2>1, <2>2
<1> QED
  BY <1>4, <1>6, <1>7 DEF Init

\* Every import keeps the invariant, and what a step must keep.
LEMMA StepHolds ==
    ASSUME DecisionLogsAssumption, IInv, [Next]_vars
    PROVE  IInv' /\ [LogsAreKept]_vars
<1>1. CASE Next
  <2>1. PICK c \in Exports, u \in Uploads :
            \/ Create(c, u) \/ Extend(c, u) \/ AdoptRepositoryVersion(c, u)
            \/ Baseline(c, u) \/ Reject(c, u) \/ Backfill(c, u)
    BY <1>1 DEF Next
  <2>2. CASE Create(c, u)
    BY <2>2, CreateKeeps
  <2>3. CASE Extend(c, u)
    BY <2>3, ExtendKeeps
  <2>4. CASE AdoptRepositoryVersion(c, u)
    BY <2>4, AdoptKeeps
  <2>5. CASE Baseline(c, u)
    BY <2>5, BaselineKeeps
  <2>6. CASE Reject(c, u)
    BY <2>6, RejectKeeps
  <2>7. CASE Backfill(c, u)
    BY <2>7, BackfillKeeps
  <2> QED
    BY <2>1, <2>2, <2>3, <2>4, <2>5, <2>6, <2>7
<1>2. CASE UNCHANGED vars
  <2>1. session' = session /\ entries' = entries /\ versions' = versions
    BY <1>2 DEF vars
  <2>2. TypeOK'
    BY <2>1 DEF IInv, TypeOK
  <2>6. ContentKnown'
    <3>1. HasCurrentVersion' <=> HasCurrentVersion
      BY <2>1 DEF HasCurrentVersion
    <3> QED
      BY <2>1, <3>1 DEF IInv, ContentKnown
  <2>3. CurrentIsLast' /\ SupersededHave' /\ Counted' /\ PrefixesSince' /\ InOrder' /\ MembersOwn'
    BY <2>1 DEF IInv, VersionsInv, CurrentIsLast, SupersededHave, Counted, PrefixesSince, InOrder, MembersOwn
  <2>4. RepositoryEntries' = RepositoryEntries
    BY <2>1 DEF RepositoryEntries
  <2>5. ConfirmedFromSource'
    BY <2>1, <2>4 DEF IInv, ConfirmedFromSource
  <2> QED
    BY <1>2, <2>2, <2>3, <2>5, <2>6 DEF IInv, VersionsInv
<1> QED
  BY <1>1, <1>2

\* For any exports, members and restored sessions: a version history only
\* grows, but where the repository's export replaced entries of the API; what
\* counts as confirmed came from the repository or the store; the repository's
\* export stands; and members extend their own sessions alone (_import in
\* evidence_import_decision_logs.py).
THEOREM SessionsAreFaithful ==
    ASSUME DecisionLogsAssumption PROVE Spec => []LogsAreFaithful
<1>1. Init => IInv
  BY InitHolds
<1>2. IInv /\ [Next]_vars => IInv'
  BY StepHolds
<1>3. IInv => LogsAreFaithful
  BY TheHistoryGrows, OwnersExtend, TheRepositoryStands DEF IInv, LogsAreFaithful
<1> QED
  BY <1>1, <1>2, <1>3, PTL DEF Spec

\* No import changes or removes an entry the repository or the store
\* supplied, and what an import replaces stays readable in a version that no
\* later import touches (_supersede_current, _import).
THEOREM NothingIsLost ==
    ASSUME DecisionLogsAssumption PROVE Spec => [][LogsAreKept]_vars
<1>1. Init => IInv
  BY InitHolds
<1>2. IInv /\ [Next]_vars => IInv' /\ [LogsAreKept]_vars
  BY StepHolds
<1> QED
  BY <1>1, <1>2, PTL DEF Spec

-----------------------------------------------------------------------------
(* ImportSlots, for any importers, sessions, sizes and budget.             *)

SlotTypes ==
    /\ used \in Nat /\ line \in Seq(Importers) /\ asleep \in SUBSET Importers
    /\ imports \in [Importers -> Imported \cup {NoOne}]
    /\ sessions \in [Sessions -> Importers \cup {NoOne}]
    /\ chain \in Importers \cup {NoOne}

\* The line is the imports that wait, each once; the first of them sleeps only
\* while there is no room for it.
Waiting ==
    /\ \A n \in 1..Len(line) : At(line[n]) = "queued"
    /\ \A m, n \in 1..Len(line) : line[m] = line[n] => m = n
    /\ \A i \in Importers : At(i) = "queued" => \E n \in 1..Len(line) : line[n] = i
    /\ line # <<>> /\ line[1] \in asleep => ~Fits(imports[line[1]].charge)

\* A lock is held by an import under way that needs it; who has the chain's has
\* its session's.
LocksHeld ==
    /\ \A s \in Sessions : sessions[s] # NoOne =>
           /\ At(sessions[s]) = "slot" /\ imports[sessions[s]].session = s
           /\ imports[sessions[s]].kind # "check"
    /\ chain # NoOne =>
           /\ At(chain) = "slot" /\ imports[chain].kind # "check" /\ imports[chain].audited
           /\ sessions[imports[chain].session] = chain

SlotsInv == SlotTypes /\ Waiting /\ LocksHeld /\ RoomIsAccounted

HasSlot(i) == At(i) \notin {"idle", "queued"}

-----------------------------------------------------------------------------
(* The bytes taken.                                                        *)

\* The bytes of one import are as many as its charge.
LEMMA BytesOf ==
  ASSUME NEW i, NEW c \in Nat
  PROVE  IsFiniteSet({i} \X (1..c)) /\ Cardinality({i} \X (1..c)) = c
<1>1. IsFiniteSet({i}) /\ Cardinality({i}) = 1
  BY FS_Singleton
<1>2. IsFiniteSet(1..c) /\ Cardinality(1..c) = c
  <2>1. 1 \in Int /\ c \in Int
    OBVIOUS
  <2> QED
    BY <2>1, FS_Interval
<1>3. Cardinality({i} \X (1..c)) = 1 * c
  BY <1>1, <1>2, FS_Product
<1>4. IsFiniteSet({i} \X (1..c))
  BY <1>1, <1>2, FS_Product, Zenon
<1>5. 1 * c = c
  OBVIOUS
<1> QED
  BY <1>3, <1>4, <1>5, Zenon

\* The bytes taken are finitely many.
LEMMA TakenFinite == ASSUME SlotsAssumption PROVE IsFiniteSet(Taken)
<1>1. IsFiniteSet(Importers \X (1..MaxBytes))
  <2>1. 1 \in Int /\ MaxBytes \in Int /\ IsFiniteSet(Importers)
    BY DEF SlotsAssumption
  <2>2. IsFiniteSet(1..MaxBytes)
    BY <2>1, FS_Interval
  <2> QED
    BY <2>1, <2>2, FS_Product
<1>2. Taken \in SUBSET (Importers \X (1..MaxBytes))
  BY DEF Taken, Busy
<1> QED
  BY <1>1, <1>2, FS_Subset

\* Who gains or loses no slot changes no byte.
LEMMA SameTaken ==
  ASSUME \A j \in Importers : /\ HasSlot(j)' <=> HasSlot(j)
                              /\ HasSlot(j) => imports'[j].charge = imports[j].charge
  PROVE  Taken' = Taken
BY DEF Taken, Busy, HasSlot

\* One import's slot is its charge.
LEMMA OneMore ==
  ASSUME SlotsAssumption, NEW i \in Importers, ~HasSlot(i), HasSlot(i)',
         imports'[i].charge \in 0..MaxBytes,
         \A j \in Importers \ {i} : /\ HasSlot(j)' <=> HasSlot(j)
                                    /\ HasSlot(j) => imports'[j].charge = imports[j].charge
  PROVE  Cardinality(Taken') = Cardinality(Taken) + imports'[i].charge
<1> DEFINE own == {i} \X (1..imports'[i].charge)
<1>1. Taken' = Taken \cup own
  BY DEF Taken, Busy, HasSlot, SlotsAssumption
<1>2. Taken \cap own = {}
  BY DEF Taken, Busy, HasSlot
<1>3. IsFiniteSet(Taken) /\ IsFiniteSet(own) /\ Cardinality(own) = imports'[i].charge
  <2>1. imports'[i].charge \in Nat
    BY DEF SlotsAssumption
  <2> QED
    BY <2>1, TakenFinite, BytesOf
<1>4. Cardinality({}) = 0 /\ Cardinality(Taken) \in Nat
  BY <1>3, FS_EmptySet, FS_CardinalityType
<1>5. Cardinality(Taken \cup own) = Cardinality(Taken) + Cardinality(own) - Cardinality(Taken \cap own)
  BY <1>3, FS_Union
<1>6. imports'[i].charge \in Nat
  BY DEF SlotsAssumption
<1> HIDE DEF own
<1>7. Cardinality(Taken \cap own) = 0
  BY <1>2, <1>4
<1>8. Cardinality(Taken') = Cardinality(Taken \cup own)
  BY <1>1
<1> QED
  BY <1>3, <1>4, <1>5, <1>6, <1>7, <1>8

\* A slot given up is its charge less.
LEMMA OneLess ==
  ASSUME SlotsAssumption, NEW i \in Importers, HasSlot(i), ~HasSlot(i)',
         imports[i].charge \in 0..MaxBytes,
         \A j \in Importers \ {i} : /\ HasSlot(j)' <=> HasSlot(j)
                                    /\ HasSlot(j) => imports'[j].charge = imports[j].charge
  PROVE  Cardinality(Taken') = Cardinality(Taken) - imports[i].charge /\ imports[i].charge <= Cardinality(Taken)
<1> DEFINE own == {i} \X (1..imports[i].charge)
<1>1. Taken = Taken' \cup own
  BY DEF Taken, Busy, HasSlot, SlotsAssumption
<1>2. Taken' \cap own = {}
  BY DEF Taken, Busy, HasSlot
<1>3. IsFiniteSet(Taken)
  BY TakenFinite
<1>4. IsFiniteSet(Taken') /\ IsFiniteSet(own) /\ Cardinality(own) = imports[i].charge
  <2>1. Taken' \in SUBSET Taken /\ imports[i].charge \in Nat
    BY <1>1 DEF SlotsAssumption
  <2>2. IsFiniteSet(Taken')
    BY <1>3, <2>1, FS_Subset
  <2> QED
    BY <2>1, <2>2, BytesOf
<1>5. Cardinality({}) = 0 /\ Cardinality(Taken') \in Nat
  BY <1>4, FS_EmptySet, FS_CardinalityType
<1>6. Cardinality(Taken' \cup own) = Cardinality(Taken') + Cardinality(own) - Cardinality(Taken' \cap own)
  BY <1>4, FS_Union
<1> QED
  BY <1>1, <1>2, <1>4, <1>5, <1>6

\* What an import is charged is within the largest transcript.
LEMMA Charged ==
  ASSUME SlotsAssumption, NEW size \in Sizes \cup {Unknown}
  PROVE  Charge(size) \in 0..MaxBytes
<1>1. CASE size = Unknown
  BY <1>1 DEF Charge, SlotsAssumption
<1>2. CASE size # Unknown
  <2>1. size \in Nat
    BY <1>2 DEF SlotsAssumption
  <2>2. \E c \in MinCharge..MaxBytes : \/ c = size
                                       \/ size < MinCharge /\ c = MinCharge
                                       \/ size > MaxBytes /\ c = MaxBytes
    <3>1. CASE size \in MinCharge..MaxBytes
      BY <3>1
    <3>2. CASE size < MinCharge
      BY <3>2 DEF SlotsAssumption
    <3>3. CASE size > MaxBytes
      BY <3>3 DEF SlotsAssumption
    <3> QED
      BY <2>1, <3>1, <3>2, <3>3 DEF SlotsAssumption
  <2>3. Charge(size) \in MinCharge..MaxBytes
    BY <1>2, <2>2 DEF Charge
  <2> QED
    BY <2>3 DEF SlotsAssumption
<1> QED
  BY <1>1, <1>2

-----------------------------------------------------------------------------
(* The locks.                                                              *)

\* Which lock an import with a slot asks for next.
LEMMA LocksOf ==
  ASSUME SlotsAssumption, SlotTypes, LocksHeld, NEW i \in Importers, At(i) = "slot"
  PROVE  /\ imports[i].kind = "check" => Ready(i)
         /\ imports[i].kind # "check" =>
               /\ Ready(i) <=> /\ sessions[imports[i].session] = i
                               /\ imports[i].audited => chain = i
               /\ sessions[imports[i].session] # i => NextLock(i) = "session"
               /\ sessions[imports[i].session] = i /\ ~Ready(i) => NextLock(i) = "chain"
<1>1. imports[i] \in Imported /\ imports[i] # NoOne
  BY DEF At, SlotTypes
<1>2. i # NoOne /\ imports[i].session \in Sessions
  BY <1>1 DEF SlotsAssumption, Imported
<1>3. chain = i => imports[i].kind # "check" /\ imports[i].audited /\ sessions[imports[i].session] = i
  BY <1>2 DEF LocksHeld
<1>4. imports[i].kind = "check" => sessions[imports[i].session] # i
  BY <1>2 DEF LocksHeld
<1>5. /\ Cardinality({}) = 0
      /\ Cardinality({"session"}) = 1
      /\ Cardinality({"session", "chain"}) = 2
  <2>1. Cardinality({}) = 0 /\ IsFiniteSet({"session"}) /\ Cardinality({"session"}) = 1
    BY FS_EmptySet, FS_Singleton
  <2>2. Cardinality({"session"} \cup {"chain"}) = 1 + 1
    BY <2>1, FS_AddElement
  <2>3. {"session"} \cup {"chain"} = {"session", "chain"}
    OBVIOUS
  <2> QED
    BY <2>1, <2>2, <2>3
<1>6. CASE sessions[imports[i].session] # i
  <2>1. Holds(i) = {}
    BY <1>3, <1>6 DEF Holds
  <2> QED
    BY <1>1, <1>5, <1>6, <2>1 DEF Ready, NextLock, Needs, LockOrder
<1>7. CASE sessions[imports[i].session] = i /\ chain # i
  <2>1. Holds(i) = {"session"}
    BY <1>7 DEF Holds
  <2> QED
    BY <1>1, <1>4, <1>5, <1>7, <2>1 DEF Ready, NextLock, Needs, LockOrder
<1>8. CASE sessions[imports[i].session] = i /\ chain = i
  <2>1. Holds(i) = {"session", "chain"}
    BY <1>8 DEF Holds
  <2> QED
    BY <1>1, <1>3, <1>4, <1>5, <1>8, <2>1 DEF Ready, NextLock, Needs, LockOrder
<1> QED
  BY <1>6, <1>7, <1>8

\* Imports never all wait for one another, whatever they are charged and lock.
LEMMA SomeoneMoves ==
  ASSUME SlotsAssumption, SlotsInv
  PROVE  NoStandstill
<1> SUFFICES ASSUME Busy # {}, \A i \in Busy : ~CanMove(i) PROVE FALSE
  BY DEF NoStandstill
<1> USE DEF SlotsInv
<1>1. \A i \in Importers : At(i) # "idle" => imports[i] \in Imported /\ At(i) \in {"queued", "slot", "leaving"}
  BY DEF At, SlotTypes, Imported
<1>2. \A i \in Importers : At(i) # "leaving"
  BY DEF CanMove, Busy
<1>3. \A i \in Importers : At(i) = "slot" => ~Ready(i) /\ ~Free(i, NextLock(i))
  BY DEF CanMove, Busy
<1>4. \A i \in Importers : At(i) = "slot" => imports[i].kind # "check"
  BY <1>3, LocksOf
<1>5. chain = NoOne
  <2> SUFFICES ASSUME chain # NoOne PROVE FALSE
    OBVIOUS
  <2>1. chain \in Importers /\ At(chain) = "slot"
    BY DEF LocksHeld, SlotTypes
  <2> QED
    BY <1>3, <1>4, <2>1, LocksOf DEF LocksHeld
<1>6. \A s \in Sessions : sessions[s] = NoOne
  <2> SUFFICES ASSUME NEW s \in Sessions, sessions[s] # NoOne PROVE FALSE
    OBVIOUS
  <2> DEFINE i == sessions[s]
  <2>1. i \in Importers /\ At(i) = "slot" /\ imports[i].session = s
    BY DEF LocksHeld, SlotTypes
  <2>2. ~Ready(i) /\ NextLock(i) = "chain"
    BY <1>3, <1>4, <2>1, LocksOf
  <2> QED
    BY <1>3, <1>5, <2>1, <2>2 DEF Free
<1>7. \A i \in Importers : At(i) # "slot"
  <2> SUFFICES ASSUME NEW i \in Importers, At(i) = "slot" PROVE FALSE
    OBVIOUS
  <2>1. imports[i].session \in Sessions
    BY <1>1 DEF Imported
  <2>2. sessions[imports[i].session] # i
    BY <1>6, <2>1 DEF SlotsAssumption
  <2>3. NextLock(i) = "session"
    BY <1>4, <2>2, LocksOf
  <2> QED
    BY <1>3, <1>6, <2>1, <2>3 DEF Free
<1>8. \A i \in Busy : At(i) = "queued" /\ i \in asleep
  BY <1>1, <1>2, <1>7 DEF Busy, CanMove
<1>9. used = 0
  <2>1. Busy \ {i \in Importers : At(i) = "queued"} = {}
    BY <1>8 DEF Busy
  <2>2. Taken = {}
    BY <2>1 DEF Taken
  <2> QED
    BY <2>2, FS_EmptySet DEF RoomIsAccounted
<1>10. PICK i \in Busy : TRUE
  OBVIOUS
<1>11. line # <<>> /\ line[1] \in Importers /\ At(line[1]) = "queued"
  BY <1>8, <1>10 DEF Waiting, SlotTypes, Busy
<1>12. line[1] \in asleep
  BY <1>8, <1>11 DEF Busy
<1>13. ~Fits(imports[line[1]].charge) /\ imports[line[1]].charge \in 0..MaxBytes
  BY <1>1, <1>11, <1>12 DEF Waiting, Imported
<1> QED
  BY <1>9, <1>13 DEF Fits, SlotsAssumption

-----------------------------------------------------------------------------
(* The steps.                                                              *)

\* An import begins, with a slot or in the line.
LEMMA AcquireStep ==
  ASSUME SlotsAssumption, SlotsInv, NEW i \in Importers, NEW kind \in {"upload", "sync", "check"},
         NEW s \in Sessions, NEW charge \in 0..MaxBytes, Acquire(i, kind, s, charge)
  PROVE  SlotsInv'
<1> USE DEF SlotsInv
<1>1. PICK row \in Imported :
         /\ imports' = [imports EXCEPT ![i] = row]
         /\ row.charge = charge
         /\ row.at = IF line = <<>> /\ Fits(charge) THEN "slot" ELSE "queued"
  <2>1. PICK audited \in BOOLEAN :
            imports' = [imports EXCEPT ![i] = Import(kind, s, charge, audited,
                                                     IF line = <<>> /\ Fits(charge) THEN "slot" ELSE "queued")]
    BY DEF Acquire
  <2> DEFINE row == Import(kind, s, charge, audited,
                           IF line = <<>> /\ Fits(charge) THEN "slot" ELSE "queued")
  <2>2. row \in Imported /\ row.charge = charge
        /\ row.at = IF line = <<>> /\ Fits(charge) THEN "slot" ELSE "queued"
    BY DEF Import, Imported
  <2> HIDE DEF row
  <2>3. imports' = [imports EXCEPT ![i] = row]
    BY <2>1 DEF row
  <2> QED
    BY <2>2, <2>3
<1>2. imports[i] = NoOne /\ row # NoOne /\ imports'[i] = row
      /\ \A j \in Importers \ {i} : imports'[j] = imports[j]
  BY <1>1 DEF Acquire, At, SlotTypes, SlotsAssumption, Imported
<1>3. At(i)' = row.at /\ At(i) = "idle" /\ \A j \in Importers \ {i} : At(j)' = At(j)
  BY <1>2 DEF At
<1>4. LocksHeld'
  BY <1>2, <1>3, UNCHANGED <<sessions, chain>> DEF LocksHeld, Acquire, SlotTypes
<1>5. CASE line = <<>> /\ Fits(charge)
  <2>1. used' = used + charge /\ UNCHANGED <<line, asleep, sessions, chain>> /\ row.at = "slot"
    BY <1>1, <1>5 DEF Acquire
  <2>2. SlotTypes'
    BY <1>1, <2>1 DEF SlotTypes
  <2>3. Waiting'
    BY <1>2, <1>3, <1>5, <2>1 DEF Waiting, SlotTypes
  <2>4. Cardinality(Taken') = Cardinality(Taken) + charge
    BY <1>1, <1>2, <1>3, <2>1, OneMore DEF HasSlot
  <2> QED
    BY <1>4, <1>5, <2>1, <2>2, <2>3, <2>4 DEF RoomIsAccounted, Fits
<1>6. CASE ~(line = <<>> /\ Fits(charge))
  <2>1. line' = Append(line, i) /\ asleep' = asleep \cup {i} /\ UNCHANGED <<used, sessions, chain>> /\ row.at = "queued"
    BY <1>1, <1>6 DEF Acquire
  <2>2. SlotTypes'
    BY <1>1, <2>1 DEF SlotTypes
  <2>3. Len(line') = Len(line) + 1 /\ line'[Len(line) + 1] = i /\ \A n \in 1..Len(line) : line'[n] = line[n]
    BY <2>1 DEF SlotTypes
  <2>4. \A n \in 1..Len(line) : line[n] \in Importers \ {i}
    BY <1>3 DEF Waiting, SlotTypes
  <2>5. Waiting'
    <3>1. \A n \in 1..Len(line') : At(line[n])' = "queued"
      <4> SUFFICES ASSUME NEW n \in 1..Len(line') PROVE At(line[n])' = "queued"
        OBVIOUS
      <4>1. CASE n = Len(line) + 1
        BY <1>1, <1>2, <2>1, <2>3, <4>1 DEF At
      <4>2. CASE n # Len(line) + 1
        <5>1. n \in 1..Len(line)
          BY <2>3, <4>2 DEF SlotTypes
        <5>2. imports'[line'[n]] = imports[line[n]]
          BY <1>2, <2>3, <2>4, <5>1
        <5> QED
          BY <5>1, <5>2 DEF At, Waiting
      <4> QED
        BY <4>1, <4>2
    <3>2. \A m, n \in 1..Len(line') : line'[m] = line'[n] => m = n
      BY <2>3, <2>4 DEF Waiting, SlotTypes
    <3>3. \A j \in Importers : At(j)' = "queued" => \E n \in 1..Len(line') : line'[n] = j
      BY <1>3, <2>3 DEF Waiting, SlotTypes
    <3>4. ~Fits(imports[line[1]].charge)' \/ line'[1] \notin asleep'
      <4>1. CASE line = <<>>
        <5>1. line'[1] = i /\ imports'[line'[1]].charge = charge
          BY <1>1, <1>2, <2>3, <4>1
        <5> QED
          BY <1>6, <2>1, <4>1, <5>1 DEF Fits
      <4>2. CASE line # <<>>
        BY <1>2, <2>1, <2>3, <2>4, <4>2 DEF Fits, Waiting, SlotTypes
      <4> QED
        BY <4>1, <4>2
    <3> QED
      BY <3>1, <3>2, <3>3, <3>4 DEF Waiting
  <2>6. Taken' = Taken
    BY <1>2, <1>3, <2>1, SameTaken DEF HasSlot
  <2> QED
    BY <1>4, <2>1, <2>2, <2>5, <2>6 DEF RoomIsAccounted
<1> QED
  BY <1>5, <1>6

\* The directory's import counts no bytes and waits for none.
LEMMA DirectoryStep ==
  ASSUME SlotsAssumption, SlotsInv, NEW i \in Importers, NEW s \in Sessions, NEW size,
         BeginDirectoryFile(i, s, size)
  PROVE  SlotsInv'
<1> USE DEF SlotsInv
<1>1. PICK row \in Imported : imports' = [imports EXCEPT ![i] = row] /\ row.charge = 0 /\ row.at = "slot"
  <2>1. PICK audited \in BOOLEAN :
            imports' = [imports EXCEPT ![i] = Import("directory", s, 0, audited, "slot")]
    BY DEF BeginDirectoryFile
  <2>2. Import("directory", s, 0, audited, "slot") \in Imported
    BY DEF Import, Imported, SlotsAssumption
  <2> QED
    BY <2>1, <2>2 DEF Import
<1>2. imports[i] = NoOne /\ row # NoOne /\ imports'[i] = row
      /\ \A j \in Importers \ {i} : imports'[j] = imports[j]
  BY <1>1 DEF BeginDirectoryFile, At, SlotTypes, SlotsAssumption, Imported
<1>3. At(i)' = "slot" /\ At(i) = "idle" /\ \A j \in Importers \ {i} : At(j)' = At(j)
  BY <1>1, <1>2 DEF At
<1>4. UNCHANGED <<used, line, asleep, sessions, chain>>
  BY DEF BeginDirectoryFile
<1>5. SlotTypes' /\ LocksHeld'
  BY <1>1, <1>2, <1>3, <1>4 DEF LocksHeld, SlotTypes
<1>6. Waiting'
  <2>1. line \in Seq(Importers)
    BY DEF SlotTypes
  <2>2. \A n \in 1..Len(line) : line[n] \in Importers \ {i}
    BY <1>3, <2>1 DEF Waiting
  <2>3. \A n \in 1..Len(line) : At(line[n])' = At(line[n]) /\ imports'[line[n]] = imports[line[n]]
    BY <1>2, <1>3, <1>4, <2>2 DEF At
  <2>4. line # <<>> => 1 \in 1..Len(line)
    BY <2>1
  <2> QED
    BY <1>3, <1>4, <2>2, <2>3, <2>4 DEF Waiting, Fits
<1>7. Cardinality(Taken') = Cardinality(Taken) + 0
  BY <1>1, <1>2, <1>3, OneMore DEF HasSlot, SlotsAssumption
<1>8. Cardinality(Taken') = Cardinality(Taken)
  <2>1. Cardinality(Taken) \in Nat
    BY DEF RoomIsAccounted, SlotTypes
  <2> QED
    BY <1>7, <2>1
<1> QED
  BY <1>4, <1>5, <1>6, <1>8 DEF RoomIsAccounted

\* When an import moves on, its charge, its session and all others stay.
LEMMA Moved ==
  ASSUME SlotsAssumption, SlotTypes, NEW i \in Importers, At(i) # "idle",
         NEW at \in {"slot", "leaving"}, imports' = [imports EXCEPT ![i].at = at]
  PROVE  /\ imports' \in [Importers -> Imported \cup {NoOne}]
         /\ At(i)' = at /\ \A j \in Importers \ {i} : At(j)' = At(j) /\ imports'[j] = imports[j]
         /\ imports'[i].kind = imports[i].kind /\ imports'[i].session = imports[i].session
         /\ imports'[i].charge = imports[i].charge /\ imports'[i].audited = imports[i].audited
         /\ imports[i].charge \in 0..MaxBytes /\ imports[i].session \in Sessions
<1> DEFINE new == [imports[i] EXCEPT !.at = at]
<1>1. imports[i] \in Imported
  BY DEF At, SlotTypes
<1>2. new \in Imported /\ new.at = at
      /\ new.kind = imports[i].kind /\ new.session = imports[i].session
      /\ new.charge = imports[i].charge /\ new.audited = imports[i].audited
  BY <1>1 DEF Imported
<1>3. imports[i].charge \in 0..MaxBytes /\ imports[i].session \in Sessions
  BY <1>1 DEF Imported
<1>4. imports' = [imports EXCEPT ![i] = new]
  OBVIOUS
<1> HIDE DEF new
<1>5. imports'[i] = new /\ \A j \in Importers \ {i} : imports'[j] = imports[j]
  BY <1>4 DEF SlotTypes
<1>6. new # NoOne
  BY <1>2 DEF SlotsAssumption
<1> QED
  BY <1>2, <1>3, <1>4, <1>5, <1>6 DEF At, SlotTypes

\* A woken import takes the room when its turn has come and there is room.
LEMMA LookStep ==
  ASSUME SlotsAssumption, SlotsInv, NEW i \in Importers, LookAgain(i)
  PROVE  SlotsInv'
<1> USE DEF SlotsInv
<1>1. At(i) = "queued" /\ UNCHANGED <<sessions, chain>>
  BY DEF LookAgain
<1>2. PICK n \in 1..Len(line) : line[n] = i
  BY <1>1 DEF Waiting
<1>3. line # <<>> /\ Head(line) = line[1]
  BY <1>2 DEF SlotTypes
<1>4. CASE Head(line) = i /\ Fits(imports[i].charge)
  <2>1. /\ used' = used + imports[i].charge
        /\ line' = Tail(line) /\ asleep' = {}
        /\ imports' = [imports EXCEPT ![i].at = "slot"]
    BY <1>4 DEF LookAgain, MoveTo
  <2>2. /\ imports' \in [Importers -> Imported \cup {NoOne}]
        /\ At(i)' = "slot" /\ \A j \in Importers \ {i} : At(j)' = At(j) /\ imports'[j] = imports[j]
        /\ imports'[i].charge = imports[i].charge /\ imports[i].charge \in 0..MaxBytes
    BY <1>1, <2>1, Moved
  <2>3. Len(line') = Len(line) - 1 /\ \A m \in 1..Len(line') : m + 1 \in 1..Len(line) /\ line'[m] = line[m + 1]
    BY <1>3, <2>1 DEF SlotTypes
  <2>4. SlotTypes'
    <3>1. line' \in Seq(Importers)
      BY <1>3, <2>1 DEF SlotTypes
    <3> QED
      BY <1>1, <2>1, <2>2, <3>1 DEF SlotTypes
  <2>5. Waiting'
    <3>1. \A m \in 1..Len(line') : line'[m] \in Importers \ {i}
      BY <1>3, <1>4, <2>3, <2>4 DEF Waiting, SlotTypes
    <3>2. \A m \in 1..Len(line') : At(line[m])' = "queued"
      <4> SUFFICES ASSUME NEW m \in 1..Len(line') PROVE At(line[m])' = "queued"
        OBVIOUS
      <4>1. imports'[line'[m]] = imports[line[m + 1]] /\ m + 1 \in 1..Len(line)
        BY <2>2, <2>3, <3>1
      <4> QED
        BY <4>1 DEF At, Waiting
    <3>3. \A m, k \in 1..Len(line') : line'[m] = line'[k] => m = k
      BY <2>3 DEF Waiting, SlotTypes
    <3>4. \A j \in Importers : At(j)' = "queued" => \E m \in 1..Len(line') : line'[m] = j
      <4> SUFFICES ASSUME NEW j \in Importers, At(j)' = "queued" PROVE \E m \in 1..Len(line') : line'[m] = j
        OBVIOUS
      <4>1. j # i /\ At(j) = "queued"
        BY <2>2
      <4>2. PICK k \in 1..Len(line) : line[k] = j
        BY <4>1 DEF Waiting
      <4>3. k # 1
        BY <1>3, <1>4, <4>1, <4>2
      <4>4. k - 1 \in 1..Len(line') /\ line'[k - 1] = line[(k - 1) + 1]
        BY <2>3, <4>3 DEF SlotTypes
      <4> QED
        BY <4>2, <4>4
    <3> QED
      BY <2>1, <3>2, <3>3, <3>4 DEF Waiting
  <2>6. LocksHeld'
    <3>1. \A s \in Sessions : sessions[s] # i
      BY <1>1 DEF LocksHeld, SlotsAssumption
    <3>2. chain # i
      BY <1>1 DEF LocksHeld, SlotsAssumption
    <3> QED
      BY <1>1, <2>2, <3>1, <3>2 DEF LocksHeld, SlotTypes
  <2>7. Cardinality(Taken') = Cardinality(Taken) + imports[i].charge
    BY <1>1, <2>2, OneMore DEF HasSlot
  <2> QED
    BY <1>4, <2>1, <2>4, <2>5, <2>6, <2>7 DEF RoomIsAccounted, Fits
<1>5. CASE ~(Head(line) = i /\ Fits(imports[i].charge))
  <2>1. asleep' = asleep \cup {i} /\ UNCHANGED <<used, line, imports>>
    BY <1>5 DEF LookAgain
  <2>2. SlotTypes' /\ LocksHeld'
    BY <1>1, <2>1 DEF SlotTypes, LocksHeld, At
  <2>3. Waiting'
    BY <1>3, <1>5, <2>1 DEF Waiting, At, Fits
  <2>4. Taken' = Taken
    BY <2>1, SameTaken DEF HasSlot, At
  <2> QED
    BY <2>1, <2>2, <2>3, <2>4 DEF RoomIsAccounted
<1> QED
  BY <1>4, <1>5

\* An import takes its session's lock, then the chain's.
LEMMA SlotLockStep ==
  ASSUME SlotsAssumption, SlotsInv, NEW i \in Importers, Lock(i)
  PROVE  SlotsInv'
<1> USE DEF SlotsInv
<1>1. At(i) = "slot" /\ ~Ready(i) /\ Free(i, NextLock(i)) /\ UNCHANGED <<used, line, asleep, imports>>
  BY DEF Lock
<1>2. imports[i] \in Imported /\ i # NoOne
  BY <1>1 DEF At, SlotTypes, SlotsAssumption
<1>3. imports[i].kind # "check" /\ imports[i].session \in Sessions
  BY <1>1, <1>2, LocksOf DEF Imported
<1>4. SlotTypes' /\ LocksHeld'
  <2>1. CASE sessions[imports[i].session] # i
    <3>1. NextLock(i) = "session"
      BY <1>1, <1>3, <2>1, LocksOf
    <3>2. sessions[imports[i].session] = NoOne
          /\ sessions' = [sessions EXCEPT ![imports[i].session] = i] /\ chain' = chain
      BY <1>1, <3>1 DEF Lock, Free
    <3>3. chain # NoOne => imports[chain].session # imports[i].session
      BY <3>2 DEF LocksHeld
    <3> QED
      BY <1>1, <1>2, <1>3, <3>2, <3>3 DEF SlotTypes, LocksHeld, At
  <2>2. CASE sessions[imports[i].session] = i
    <3>1. NextLock(i) = "chain" /\ imports[i].audited
      BY <1>1, <1>3, <2>2, LocksOf DEF SlotTypes
    <3>2. chain' = i /\ sessions' = sessions
      BY <3>1 DEF Lock
    <3> QED
      BY <1>1, <1>2, <1>3, <2>2, <3>1, <3>2 DEF SlotTypes, LocksHeld, At
  <2> QED
    BY <2>1, <2>2
<1>5. Waiting'
  BY <1>1 DEF Waiting, At, Fits
<1>6. Taken' = Taken
  BY <1>1, SameTaken DEF HasSlot, At
<1> QED
  BY <1>1, <1>4, <1>5, <1>6 DEF RoomIsAccounted

\* An import's transaction ends and frees its locks; it leaves its slot, or has
\* left it already.
LEMMA EndStep ==
  ASSUME SlotsAssumption, SlotsInv, NEW i \in Importers, At(i) = "slot",
         UNCHANGED <<used, line, asleep>>, Unlock(i),
         \/ imports' = [imports EXCEPT ![i].at = "leaving"]
         \/ imports' = [imports EXCEPT ![i] = NoOne] /\ imports[i].kind = "directory"
  PROVE  SlotsInv'
<1> USE DEF SlotsInv
<1>1. imports[i] \in Imported /\ i # NoOne
  BY DEF At, SlotTypes, SlotsAssumption
<1>2. /\ imports' \in [Importers -> Imported \cup {NoOne}]
      /\ At(i)' \in {"leaving", "idle"}
      /\ \A j \in Importers \ {i} : At(j)' = At(j) /\ imports'[j] = imports[j]
  <2>1. CASE imports' = [imports EXCEPT ![i].at = "leaving"]
    BY <2>1, Moved
  <2>2. CASE imports' = [imports EXCEPT ![i] = NoOne]
    BY <2>2 DEF At, SlotTypes
  <2> QED
    BY <2>1, <2>2
<1>3. SlotTypes'
  BY <1>2 DEF SlotTypes, Unlock
<1>4. \A n \in 1..Len(line) : line[n] \in Importers \ {i}
  BY DEF Waiting, SlotTypes
<1>5. Waiting'
  <2>1. \A n \in 1..Len(line) : imports'[line[n]] = imports[line[n]]
    BY <1>2, <1>4
  <2>2. \A n \in 1..Len(line) : At(line[n])' = "queued"
    BY <2>1 DEF Waiting, At
  <2>3. line # <<>> => 1 \in 1..Len(line)
    BY DEF SlotTypes
  <2>4. line # <<>> /\ line[1] \in asleep => ~Fits(imports[line[1]].charge)'
    BY <2>1, <2>3 DEF Waiting, Fits
  <2> QED
    BY <1>2, <2>2, <2>4 DEF Waiting
<1>6. LocksHeld'
  <2>1. \A s \in Sessions : sessions'[s] # NoOne => sessions'[s] = sessions[s] /\ sessions[s] \in Importers \ {i}
    BY DEF Unlock, SlotTypes
  <2>2. chain' # NoOne => chain' = chain /\ chain \in Importers \ {i}
    BY DEF Unlock, SlotTypes
  <2>3. chain' # NoOne => sessions'[imports[chain].session] = chain
    <3> SUFFICES ASSUME chain' # NoOne PROVE sessions'[imports[chain].session] = chain
      OBVIOUS
    <3>1. chain \in Importers \ {i} /\ At(chain) = "slot" /\ sessions[imports[chain].session] = chain
      BY <2>2 DEF LocksHeld, SlotTypes
    <3>2. imports[chain] \in Imported
      BY <3>1 DEF At, SlotTypes
    <3>3. imports[chain].session \in Sessions
      BY <3>2 DEF Imported
    <3> QED
      BY <3>1, <3>3 DEF Unlock
  <2> QED
    BY <1>2, <2>1, <2>2, <2>3 DEF LocksHeld
<1>7. Cardinality(Taken') = Cardinality(Taken)
  <2>1. CASE imports' = [imports EXCEPT ![i].at = "leaving"]
    <3>1. At(i)' = "leaving" /\ imports'[i].charge = imports[i].charge
      BY <2>1, Moved
    <3> QED
      BY <1>2, <3>1, SameTaken DEF HasSlot
  <2>2. CASE imports' = [imports EXCEPT ![i] = NoOne] /\ imports[i].kind = "directory"
    <3>1. imports[i].charge = 0 /\ At(i)' = "idle"
      BY <1>1, <2>2 DEF Imported, At, SlotTypes
    <3>2. Cardinality(Taken') = Cardinality(Taken) - 0
      BY <1>2, <3>1, OneLess DEF HasSlot, SlotsAssumption
    <3>3. Cardinality(Taken) \in Nat
      BY DEF RoomIsAccounted, SlotTypes
    <3> QED
      BY <3>2, <3>3
  <2> QED
    BY <2>1, <2>2
<1> QED
  BY <1>3, <1>5, <1>6, <1>7 DEF RoomIsAccounted

\* Leaving a slot gives its bytes back and wakes all that wait.
LEMMA ReleaseStep ==
  ASSUME SlotsAssumption, SlotsInv, NEW i \in Importers, Release(i)
  PROVE  SlotsInv'
<1> USE DEF SlotsInv
<1>1. /\ At(i) = "leaving" /\ imports' = [imports EXCEPT ![i] = NoOne]
      /\ used' = used - imports[i].charge /\ asleep' = {} /\ UNCHANGED <<line, sessions, chain>>
  BY DEF Release
<1>2. At(i)' = "idle" /\ \A j \in Importers \ {i} : At(j)' = At(j) /\ imports'[j] = imports[j]
  BY <1>1 DEF At, SlotTypes
<1>3. imports[i].charge \in 0..MaxBytes
  <2>1. imports[i] \in Imported
    BY <1>1 DEF At, SlotTypes
  <2> QED
    BY <2>1 DEF Imported
<1>4. Cardinality(Taken') = Cardinality(Taken) - imports[i].charge /\ imports[i].charge <= Cardinality(Taken)
  BY <1>1, <1>2, <1>3, OneLess DEF HasSlot
<1>5. SlotTypes' /\ RoomIsAccounted'
  <2>1. used' \in Nat /\ used' <= Capacity
    BY <1>1, <1>3, <1>4 DEF SlotTypes, RoomIsAccounted, SlotsAssumption
  <2> QED
    BY <1>1, <1>4, <2>1 DEF SlotTypes, RoomIsAccounted
<1>6. \A n \in 1..Len(line) : line[n] \in Importers \ {i}
  BY <1>1 DEF Waiting, SlotTypes
<1>7. \A n \in 1..Len(line) : At(line[n])' = "queued"
  BY <1>1, <1>2, <1>6 DEF Waiting, At
<1>8. Waiting' /\ LocksHeld'
  <2>1. \A s \in Sessions : sessions[s] # i
    BY <1>1 DEF LocksHeld, SlotsAssumption
  <2>2. chain # i
    BY <1>1 DEF LocksHeld, SlotsAssumption
  <2>3. LocksHeld'
    BY <1>1, <1>2, <2>1, <2>2 DEF LocksHeld, SlotTypes
  <2> QED
    BY <1>1, <1>2, <1>7, <2>3 DEF Waiting
<1> QED
  BY <1>5, <1>8

-----------------------------------------------------------------------------

\* The invariant holds from the start and every step keeps it.
LEMMA SlotsStep == ASSUME SlotsAssumption PROVE SlotsInv /\ [SlotsNext]_slotVars => SlotsInv'
<1> SUFFICES ASSUME SlotsInv, [SlotsNext]_slotVars PROVE SlotsInv'
  OBVIOUS
<1>1. ASSUME NEW i \in Importers, NEW s \in Sessions, NEW size \in Sizes, BeginUpload(i, s, size) PROVE SlotsInv'
  BY <1>1, Charged, AcquireStep DEF BeginUpload
<1>2. ASSUME NEW i \in Importers, NEW s \in Sessions, NEW size \in Sizes, BeginStoreVersion(i, s, size) PROVE SlotsInv'
  BY <1>2, Charged, AcquireStep DEF BeginStoreVersion
<1>3. ASSUME NEW i \in Importers, NEW s \in Sessions, BeginGitFile(i, s) PROVE SlotsInv'
  BY <1>3, Charged, AcquireStep DEF BeginGitFile
<1>4. ASSUME NEW i \in Importers, NEW s \in Sessions, NEW size \in Sizes, BeginCheck(i, s, size) PROVE SlotsInv'
  BY <1>4, Charged, AcquireStep DEF BeginCheck
<1>5. ASSUME NEW i \in Importers, NEW s \in Sessions, NEW size \in Sizes, BeginDirectoryFile(i, s, size) PROVE SlotsInv'
  BY <1>5, DirectoryStep
<1>6. ASSUME NEW i \in Importers, Commit(i) PROVE SlotsInv'
  BY <1>6, EndStep DEF Commit
<1>7. ASSUME NEW i \in Importers, Fail(i) PROVE SlotsInv'
  BY <1>7, EndStep DEF Fail, MoveTo
<1>8. ASSUME NEW i \in Importers, EndCheck(i) PROVE SlotsInv'
  <2>1. /\ At(i) = "slot" /\ imports[i].kind = "check" /\ imports' = [imports EXCEPT ![i].at = "leaving"]
        /\ UNCHANGED <<used, line, asleep, sessions, chain>>
    BY <1>8 DEF EndCheck, MoveTo
  <2>2. \A s \in Sessions : sessions[s] # i
    BY <2>1 DEF SlotsInv, LocksHeld, SlotsAssumption
  <2>3. chain # i
    BY <2>1 DEF SlotsInv, LocksHeld, SlotsAssumption
  <2>4. Unlock(i)
    BY <2>1, <2>2, <2>3 DEF Unlock, SlotsInv, SlotTypes
  <2> QED
    BY <2>1, <2>4, EndStep
<1>9. ASSUME UNCHANGED slotVars PROVE SlotsInv'
  BY <1>9 DEF slotVars, SlotsInv, SlotTypes, Waiting, LocksHeld, RoomIsAccounted, Taken, Busy, At, Fits
<1> QED
  BY <1>1, <1>2, <1>3, <1>4, <1>5, <1>6, <1>7, <1>8, <1>9, LookStep, SlotLockStep, ReleaseStep DEF SlotsNext

\* However many imports there are, of whatever sizes and sessions, they never
\* all wait, for room, for locks or for a wakeup nobody sends (ImportBudget,
\* lock_session); and the bytes taken are always those of the imports that hold a
\* slot, within IMPORT_BYTE_BUDGET: none is leaked, none counted twice.
THEOREM NoneWaitsForever == ASSUME SlotsAssumption PROVE SlotsSpec => []ImportsMove
<1>1. SlotsInit => SlotsInv
  <2> SUFFICES ASSUME SlotsInit PROVE SlotsInv
    OBVIOUS
  <2>1. \A i \in Importers : At(i) = "idle"
    BY DEF SlotsInit, At
  <2>2. Taken = {}
    BY <2>1 DEF Taken, Busy
  <2> QED
    BY <2>1, <2>2, FS_EmptySet DEF SlotsInit, SlotsInv, SlotTypes, Waiting, LocksHeld, RoomIsAccounted, SlotsAssumption
<1>2. SlotsInv => ImportsMove
  BY SomeoneMoves DEF ImportsMove, SlotsInv
<1> QED
  BY <1>1, <1>2, SlotsStep, PTL DEF SlotsSpec

-----------------------------------------------------------------------------
(* PentestFiles, for any namespaces, paths and files.                      *)

Finding == [ns : Namespaces, path : PathSet, key : (Contents \X Nat) \cup {OtherId}, content : Contents,
            scan : {file.scan : file \in Scans}, edited : BOOLEAN]

FindingTypes ==
    /\ findings \in SUBSET Finding /\ IsFiniteSet(findings)
    /\ asFile \in [Namespaces -> [PathSet -> (SUBSET Finding) \cup {Unsure}]]

\* An id that a content gives is one finding's.
OneOfAnId == \A r, s \in findings : Id(r) = Id(s) /\ r.key # OtherId => r = s

PentestInv == FindingTypes /\ OneOfAnId /\ HeldAsImported

-----------------------------------------------------------------------------
(* Ordinals among identical findings.                                      *)

Positions(list, content) == {i \in 1..Len(list) : list[i] = content}
Before(list, i) == {j \in 1..(i - 1) : list[j] = list[i]}

\* A key is the content and the number of identical findings before.
LEMMA KeyIs ==
  ASSUME NEW list, NEW i
  PROVE  Key(list, i) = <<list[i], Cardinality(Before(list, i))>>
BY DEF Key, Before

\* There are finitely many places.
LEMMA PlacesCount ==
  ASSUME NEW list \in Seq(Contents), NEW content
  PROVE  /\ IsFiniteSet(1..Len(list)) /\ Cardinality(1..Len(list)) = Len(list)
         /\ IsFiniteSet(Positions(list, content)) /\ Cardinality(Positions(list, content)) \in Nat
<1>1. Len(list) \in Nat /\ 1 \in Int /\ Len(list) \in Int
  OBVIOUS
<1>2. IsFiniteSet(1..Len(list)) /\ Cardinality(1..Len(list)) = Len(list)
  <2> DEFINE n == Len(list)
  <2> HIDE DEF n
  <2>1. n \in Nat /\ n \in Int /\ 1 \in Int
    BY <1>1 DEF n
  <2>2. IsFiniteSet(1..n) /\ Cardinality(1..n) = IF 1 > n THEN 0 ELSE n - 1 + 1
    BY <2>1, FS_Interval, Zenon
  <2>3. Cardinality(1..n) = n
    BY <2>1, <2>2
  <2> QED
    BY <2>2, <2>3 DEF n
<1>3. Positions(list, content) \in SUBSET (1..Len(list))
  BY DEF Positions
<1> QED
  BY <1>2, <1>3, FS_Subset, FS_CardinalityType

\* Ordinals grow, and stay below the number of the identical.
LEMMA OrdinalsGrow ==
  ASSUME NEW list \in Seq(Contents), NEW content, NEW i \in Positions(list, content)
  PROVE  /\ Cardinality(Before(list, i)) \in 0..(Cardinality(Positions(list, content)) - 1)
         /\ \A j \in Positions(list, content) :
               i < j => Cardinality(Before(list, i)) < Cardinality(Before(list, j))
<1> DEFINE all == Positions(list, content)
<1>1. IsFiniteSet(all) /\ Cardinality(all) \in Nat
  BY PlacesCount
<1>2. i \in 1..Len(list) /\ list[i] = content /\ Len(list) \in Nat
  BY DEF Positions
<1>3. \A j \in all : /\ Before(list, j) \in SUBSET (all \ {j}) /\ IsFiniteSet(Before(list, j))
                     /\ Cardinality(Before(list, j)) \in Nat
  <2> SUFFICES ASSUME NEW j \in all
               PROVE  Before(list, j) \in SUBSET (all \ {j}) /\ IsFiniteSet(Before(list, j))
    BY FS_CardinalityType
  <2>1. Before(list, j) \in SUBSET (all \ {j})
    BY DEF Positions, Before
  <2>2. IsFiniteSet(all \ {j})
    BY <1>1, FS_RemoveElement
  <2> QED
    BY <2>1, <2>2, FS_Subset
<1>4. Cardinality(Before(list, i)) \in 0..(Cardinality(all) - 1)
  <2>1. IsFiniteSet(all \ {i}) /\ Cardinality(all \ {i}) = Cardinality(all) - 1
    BY <1>1, FS_RemoveElement
  <2>2. Cardinality(Before(list, i)) <= Cardinality(all) - 1
    BY <1>3, <2>1, FS_Subset
  <2> QED
    BY <1>1, <1>3, <2>2
<1>5. ASSUME NEW j \in all, i < j PROVE Cardinality(Before(list, i)) < Cardinality(Before(list, j))
  <2>1. j \in 1..Len(list) /\ list[j] = content
    BY DEF Positions
  <2>2. Before(list, i) \cup {i} \in SUBSET Before(list, j)
    BY <1>2, <1>5, <2>1 DEF Before
  <2>3. i \notin Before(list, i)
    BY <1>2 DEF Before
  <2>4. Cardinality(Before(list, i) \cup {i}) = Cardinality(Before(list, i)) + 1
    BY <1>3, <2>3, FS_AddElement
  <2>5. Cardinality(Before(list, i) \cup {i}) <= Cardinality(Before(list, j))
    BY <1>3, <2>2, FS_Subset
  <2> QED
    BY <1>3, <2>4, <2>5
<1> QED
  BY <1>4, <1>5

\* The identical findings have the ordinals from 0 on, each once.
LEMMA OrdinalsAre ==
  ASSUME NEW list \in Seq(Contents), NEW content
  PROVE  /\ \A i, j \in Positions(list, content) :
               Cardinality(Before(list, i)) = Cardinality(Before(list, j)) => i = j
         /\ \A n \in 0..(Cardinality(Positions(list, content)) - 1) :
               \E i \in Positions(list, content) : Cardinality(Before(list, i)) = n
<1> DEFINE all == Positions(list, content)
           size == Cardinality(all)
           ordinal == [i \in all |-> Cardinality(Before(list, i))]
<1>1. IsFiniteSet(all) /\ size \in Nat
  BY PlacesCount
<1>2. \A i, j \in all : i \in Nat /\ j \in Nat
  BY DEF Positions
<1>3. \A i \in all : ordinal[i] \in 0..(size - 1)
  BY OrdinalsGrow
<1>4. \A i, j \in all : ordinal[i] = ordinal[j] => i = j
  <2> SUFFICES ASSUME NEW i \in all, NEW j \in all, ordinal[i] = ordinal[j], i # j PROVE FALSE
    OBVIOUS
  <2>1. i < j \/ j < i
    BY <1>2
  <2>2. i < j => ordinal[i] < ordinal[j]
    BY OrdinalsGrow
  <2>3. j < i => ordinal[j] < ordinal[i]
    BY OrdinalsGrow
  <2>4. ordinal[i] \in Int /\ ordinal[j] \in Int
    BY <1>1, <1>3
  <2> QED
    BY <2>1, <2>2, <2>3, <2>4
<1> HIDE DEF size
<1>5. IsFiniteSet(0..(size - 1)) /\ Cardinality(0..(size - 1)) = size
  <2>1. 0 \in Int /\ size - 1 \in Int
    BY <1>1
  <2> QED
    BY <1>1, <2>1, FS_Interval
<1>6. ordinal \in Injection(all, 0..(size - 1))
  <2>1. ordinal \in [all -> 0..(size - 1)]
    BY <1>3
  <2> HIDE DEF ordinal, all
  <2> QED
    BY <1>4, <2>1 DEF Injection, IsInjective
<1>7. ordinal \in Surjection(all, 0..(size - 1))
  BY <1>5, <1>6, FS_Injection DEF size
<1>8. \A n \in 0..(size - 1) : \E i \in all : ordinal[i] = n
  BY <1>7 DEF Surjection
<1> QED
  BY <1>4, <1>8 DEF size

\* The keys of a file differ.
LEMMA KeysDiffer ==
  ASSUME PentestAssumption, NEW file \in Scans
  PROVE  /\ file.findings \in Seq(Contents) /\ Len(file.findings) \in Nat
         /\ DOMAIN file.findings = 1..Len(file.findings)
         /\ \A i \in 1..Len(file.findings) : /\ file.findings[i] \in Contents
                                             /\ Key(file.findings, i) \in Contents \X Nat
                                             /\ Key(file.findings, i) # OtherId
         /\ \A i, j \in 1..Len(file.findings) : Key(file.findings, i) = Key(file.findings, j) => i = j
<1> DEFINE list == file.findings
<1>1. list \in Seq(Contents) /\ OtherId \notin Contents \X Nat
  BY DEF PentestAssumption
<1> HIDE DEF list
<1>2. Len(list) \in Nat /\ DOMAIN list = 1..Len(list) /\ \A i \in 1..Len(list) : list[i] \in Contents
  BY <1>1
<1>3. \A i \in 1..Len(list) : i \in Positions(list, list[i])
  BY DEF Positions
<1>4. \A i \in 1..Len(list) : Key(list, i) \in Contents \X Nat
  <2> SUFFICES ASSUME NEW i \in 1..Len(list) PROVE Key(list, i) \in Contents \X Nat
    OBVIOUS
  <2>1. Cardinality(Before(list, i)) \in Nat
    BY <1>1, <1>3, OrdinalsGrow, PlacesCount
  <2> QED
    BY <1>2, <2>1, KeyIs
<1>5. \A i, j \in 1..Len(list) : Key(list, i) = Key(list, j) => i = j
  <2> SUFFICES ASSUME NEW i \in 1..Len(list), NEW j \in 1..Len(list), Key(list, i) = Key(list, j) PROVE i = j
    OBVIOUS
  <2>1. list[i] = list[j] /\ Cardinality(Before(list, i)) = Cardinality(Before(list, j))
    BY KeyIs
  <2>2. i \in Positions(list, list[i]) /\ j \in Positions(list, list[i])
    BY <1>3, <2>1
  <2> QED
    BY <1>1, <2>1, <2>2, OrdinalsAre
<1> QED
  BY <1>1, <1>2, <1>4, <1>5 DEF list

-----------------------------------------------------------------------------
(* The findings of a file.                                                 *)

\* What a file leaves: findings of its namespace and path, each of its own id.
LEMMA FileLeaves ==
  ASSUME PentestAssumption, NEW ns \in Namespaces, NEW path \in PathSet, NEW file \in Scans
  PROVE  LET new == FileFindings(ns, path, file)
         IN  /\ new \in SUBSET Finding /\ IsFiniteSet(new)
             /\ \A r \in new : r.ns = ns /\ r.path = path /\ r.key # OtherId
             /\ \A r, s \in new : r.key = s.key => r = s
<1> DEFINE list == file.findings
           new == FileFindings(ns, path, file)
           row == [i \in 1..Len(list) |->
                     [ns |-> ns, path |-> path, key |-> Key(list, i), content |-> list[i],
                      scan |-> file.scan, edited |-> FALSE]]
<1>1. /\ Len(list) \in Nat /\ DOMAIN list = 1..Len(list) /\ list \in Seq(Contents)
      /\ \A i \in 1..Len(list) : /\ list[i] \in Contents /\ Key(list, i) \in Contents \X Nat
                                 /\ Key(list, i) # OtherId
      /\ \A i, j \in 1..Len(list) : Key(list, i) = Key(list, j) => i = j
  BY KeysDiffer
<1>2. new = {row[i] : i \in 1..Len(list)}
  BY <1>1 DEF FileFindings
<1>3. IsFiniteSet(new)
  <2>1. row \in Surjection(1..Len(list), new)
    BY <1>2 DEF Surjection
  <2>2. IsFiniteSet(1..Len(list))
    BY <1>1, PlacesCount
  <2> HIDE DEF row, new
  <2> QED
    BY <2>1, <2>2, FS_Surjection
<1>4. \A i \in 1..Len(list) : row[i] \in Finding /\ row[i].ns = ns /\ row[i].path = path /\ row[i].key = Key(list, i)
  BY <1>1 DEF Finding
<1> HIDE DEF row, new, list
<1>5. new \in SUBSET Finding /\ \A r \in new : r.ns = ns /\ r.path = path /\ r.key # OtherId
  BY <1>1, <1>2, <1>4
<1>6. \A r, s \in new : r.key = s.key => r = s
  BY <1>1, <1>2, <1>4
<1> QED
  BY <1>3, <1>5, <1>6 DEF new

\* A file that is imported.
LEMMA ImportStep ==
  ASSUME PentestAssumption, PentestInv, NEW ns \in Namespaces, NEW path \in PathSet, NEW file \in Scans,
         NEW index, index # Unsure => ns = Bare, ImportFile(ns, path, file, index)
  PROVE  PentestInv'
<1> USE DEF PentestInv
<1> DEFINE new == FileFindings(ns, path, file)
           ids == {Id(row) : row \in new}
           gone == Existing(ns, path, ids, index)
<1>1. /\ findings' = (findings \ gone) \cup new
      /\ asFile' = [n \in Namespaces |-> [p \in PathSet |->
            IF <<n, p>> \notin Owned(ns, path) THEN asFile[n][p]
            ELSE IF n # ns THEN {}
            ELSE IF Held(n, p) \subseteq gone THEN new ELSE Unsure]]
  BY DEF ImportFile
<1>2. /\ new \in SUBSET Finding /\ IsFiniteSet(new)
      /\ \A r \in new : r.ns = ns /\ r.path = path /\ r.key # OtherId
      /\ \A r, s \in new : r.key = s.key => r = s
  BY FileLeaves
<1>3. gone \in SUBSET findings /\ \A r \in findings : Id(r) \in ids => r \in gone
  BY DEF Existing
<1>4. \A r \in gone : \/ r.ns = ns /\ r.path = path
                      \/ <<r.ns, r.path>> \in Owned(ns, path)
  BY <1>2 DEF Existing, Id
<1>5. index = Unsure => \A r \in findings : <<r.ns, r.path>> \in Owned(ns, path) => r \in gone
  BY DEF Existing
<1>6. \A n \in Namespaces, p \in PathSet : <<n, p>> \in Owned(ns, path) => p = path /\ n \in {ns, Bare}
  BY DEF Owned
<1>7. <<ns, path>> \in Owned(ns, path)
  BY DEF Owned
<1> HIDE DEF new, gone, ids
<1>8. FindingTypes'
  <2>1. IsFiniteSet(findings')
    <3>1. findings \ gone \in SUBSET findings
      OBVIOUS
    <3>2. IsFiniteSet(findings \ gone)
      BY <3>1, FS_Subset DEF FindingTypes
    <3> QED
      BY <1>1, <1>2, <3>2, FS_Union
  <2>2. findings' \in SUBSET Finding
    BY <1>1, <1>2 DEF FindingTypes
  <2>3. asFile' \in [Namespaces -> [PathSet -> (SUBSET Finding) \cup {Unsure}]]
    BY <1>1, <1>2 DEF FindingTypes
  <2> QED
    BY <2>1, <2>2, <2>3 DEF FindingTypes
<1>9. OneOfAnId'
  <2> SUFFICES ASSUME NEW r \in findings', NEW s \in findings', Id(r) = Id(s), r.key # OtherId PROVE r = s
    BY DEF OneOfAnId, Id
  <2>1. r.key = s.key
    BY DEF Id
  <2>2. CASE r \in new /\ s \in new
    BY <1>2, <2>1, <2>2
  <2>3. CASE r \in new /\ s \notin new
    BY <1>1, <1>3, <2>3 DEF ids
  <2>4. CASE r \notin new /\ s \in new
    BY <1>1, <1>3, <2>4 DEF ids
  <2>5. CASE r \notin new /\ s \notin new
    BY <1>1, <2>5 DEF OneOfAnId
  <2> QED
    BY <2>2, <2>3, <2>4, <2>5
<1>10. HeldAsImported'
  <2> SUFFICES ASSUME NEW n \in Namespaces, NEW p \in PathSet, asFile'[n][p] # Unsure
               PROVE  {row \in findings' : row.ns = n /\ row.path = p} = asFile'[n][p]
    BY DEF HeldAsImported, Held
  <2>1. asFile'[n][p] = IF <<n, p>> \notin Owned(ns, path) THEN asFile[n][p]
                        ELSE IF n # ns THEN {}
                        ELSE IF Held(n, p) \subseteq gone THEN new ELSE Unsure
    BY <1>1
  <2>2. CASE <<n, p>> \notin Owned(ns, path)
    <3>1. Held(n, p) = asFile[n][p] /\ asFile'[n][p] = asFile[n][p]
      BY <2>1, <2>2 DEF HeldAsImported
    <3>2. \A r \in gone \cup new : ~(r.ns = n /\ r.path = p)
      BY <1>2, <1>4, <1>7, <2>2
    <3> QED
      BY <1>1, <3>1, <3>2 DEF Held
  <2>3. CASE <<n, p>> \in Owned(ns, path) /\ n # ns
    <3>1. asFile'[n][p] = {} /\ n = Bare /\ index = Unsure
      BY <1>6, <2>1, <2>3
    <3>2. \A r \in findings : r.ns = n /\ r.path = p => r \in gone
      BY <1>5, <2>3, <3>1
    <3> QED
      BY <1>1, <1>2, <2>3, <3>1, <3>2
  <2>4. CASE n = ns /\ p = path
    <3>1. asFile'[n][p] = new /\ Held(n, p) \subseteq gone
      BY <1>7, <2>1, <2>4
    <3> QED
      BY <1>1, <1>2, <2>4, <3>1 DEF Held
  <2> QED
    BY <1>6, <2>2, <2>3, <2>4
<1> QED
  BY <1>8, <1>9, <1>10

\* A file that is removed.
LEMMA RemoveStep ==
  ASSUME PentestAssumption, PentestInv, NEW ns \in Namespaces, NEW path \in PathSet, RemoveFile(ns, path)
  PROVE  PentestInv'
<1> USE DEF PentestInv
<1>1. /\ findings' = {row \in findings : <<row.ns, row.path>> \notin Owned(ns, path)}
      /\ asFile' = [n \in Namespaces |-> [p \in PathSet |->
                      IF <<n, p>> \in Owned(ns, path) THEN {} ELSE asFile[n][p]]]
  BY DEF RemoveFile
<1>2. FindingTypes'
  BY <1>1, FS_Subset DEF FindingTypes
<1>3. OneOfAnId'
  BY <1>1 DEF OneOfAnId, Id
<1>4. HeldAsImported'
  BY <1>1 DEF HeldAsImported, Held
<1> QED
  BY <1>2, <1>3, <1>4

\* A finding that is added, edited or deleted by hand.
LEMMA HandStep ==
  ASSUME PentestAssumption, PentestInv, NEW ns \in Namespaces, NEW path \in PathSet,
         asFile' = [asFile EXCEPT ![ns][path] = Unsure],
         findings' \in SUBSET Finding, IsFiniteSet(findings'), OneOfAnId',
         \A r \in findings' : r \in findings \/ (r.ns = ns /\ r.path = path),
         \A r \in findings : r \in findings' \/ (r.ns = ns /\ r.path = path)
  PROVE  PentestInv'
<1> USE DEF PentestInv
<1>1. FindingTypes'
  BY DEF FindingTypes
<1>2. HeldAsImported'
  <2> SUFFICES ASSUME NEW n \in Namespaces, NEW p \in PathSet, asFile'[n][p] # Unsure
               PROVE  {row \in findings' : row.ns = n /\ row.path = p} = asFile'[n][p]
    BY DEF HeldAsImported, Held
  <2>1. ~(n = ns /\ p = path) /\ asFile'[n][p] = asFile[n][p]
    BY DEF FindingTypes
  <2>2. Held(n, p) = asFile[n][p]
    BY <2>1 DEF HeldAsImported
  <2> QED
    BY <2>1, <2>2 DEF Held
<1> QED
  BY <1>1, <1>2

\* The REST routes.
LEMMA ByHandStep ==
  ASSUME PentestAssumption, PentestInv,
         \/ \E ns \in Namespaces, path \in PathSet, content \in Contents : ApiAdd(ns, path, content)
         \/ \E row \in findings : ApiEdit(row) \/ ApiDelete(row)
  PROVE  PentestInv'
<1>1. findings \in SUBSET Finding /\ IsFiniteSet(findings) /\ OneOfAnId
  BY DEF PentestInv, FindingTypes
<1>2. ASSUME NEW ns \in Namespaces, NEW path \in PathSet, NEW content \in Contents, ApiAdd(ns, path, content)
      PROVE  PentestInv'
  <2>1. PICK file \in Scans :
           findings' = findings \cup {[ns |-> ns, path |-> path, key |-> OtherId, content |-> content,
                                       scan |-> file.scan, edited |-> FALSE]}
    BY <1>2 DEF ApiAdd
  <2> DEFINE new == [ns |-> ns, path |-> path, key |-> OtherId, content |-> content,
                     scan |-> file.scan, edited |-> FALSE]
  <2>2. new \in Finding /\ new.ns = ns /\ new.path = path /\ new.key = OtherId
    BY DEF Finding
  <2>3. findings' = findings \cup {new}
    BY <2>1
  <2> HIDE DEF new
  <2>4. IsFiniteSet(findings')
    BY <1>1, <2>3, FS_AddElement
  <2>5. OneOfAnId'
    BY <1>1, <2>2, <2>3 DEF OneOfAnId, Id
  <2>6. asFile' = [asFile EXCEPT ![ns][path] = Unsure]
    BY <1>2 DEF ApiAdd, ChangedByHand
  <2> QED
    BY <1>1, <2>2, <2>3, <2>4, <2>5, <2>6, HandStep
<1>3. ASSUME NEW row \in findings, ApiEdit(row) PROVE PentestInv'
  <2> DEFINE new == [row EXCEPT !.edited = TRUE]
  <2>1. findings' = (findings \ {row}) \cup {new} /\ asFile' = [asFile EXCEPT ![row.ns][row.path] = Unsure]
    BY <1>3 DEF ApiEdit, ChangedByHand
  <2>2. /\ new \in Finding /\ new.ns = row.ns /\ new.path = row.path /\ new.key = row.key
        /\ row.ns \in Namespaces /\ row.path \in PathSet
    BY <1>1 DEF Finding
  <2> HIDE DEF new
  <2>3. IsFiniteSet(findings')
    BY <1>1, <2>1, FS_AddElement, FS_RemoveElement
  <2>4. OneOfAnId'
    BY <1>1, <2>1, <2>2 DEF OneOfAnId, Id
  <2> QED
    BY <1>1, <2>1, <2>2, <2>3, <2>4, HandStep
<1>4. ASSUME NEW row \in findings, ApiDelete(row) PROVE PentestInv'
  <2>1. findings' = findings \ {row} /\ asFile' = [asFile EXCEPT ![row.ns][row.path] = Unsure]
    BY <1>4 DEF ApiDelete, ChangedByHand
  <2>2. row.ns \in Namespaces /\ row.path \in PathSet
    BY <1>1 DEF Finding
  <2>3. IsFiniteSet(findings')
    BY <1>1, <2>1, FS_RemoveElement
  <2>4. OneOfAnId'
    BY <1>1, <2>1 DEF OneOfAnId, Id
  <2> QED
    BY <1>1, <2>1, <2>2, <2>3, <2>4, HandStep
<1> QED
  BY <1>2, <1>3, <1>4

\* Every step.
LEMMA PentestStep ==
  ASSUME PentestAssumption, PentestInv, [PentestNext]_pentestVars
  PROVE  PentestInv'
<1>1. CASE UNCHANGED <<findings, asFile>>
  BY <1>1 DEF PentestInv, FindingTypes, OneOfAnId, HeldAsImported, Held, Id
<1>2. CASE UNCHANGED pentestVars \/ StartBulk \/ BulkPass
  BY <1>1, <1>2 DEF pentestVars, StartBulk, BulkPass
<1>3. ASSUME NEW ns \in GitSources, NEW path \in PathSet,
             (\E file \in Scans : SyncFile(ns, path, file)) \/ RemoveFile(ns, path)
      PROVE  PentestInv'
  <2>1. ns \in Namespaces
    BY DEF Namespaces
  <2> QED
    BY <1>3, <2>1, ImportStep, RemoveStep DEF SyncFile
<1>4. ASSUME NEW file \in Scans, BulkFile(file) PROVE PentestInv'
  <2>1. Paths[bulk.next] \in PathSet /\ Bare \in Namespaces /\ ImportFile(Bare, Paths[bulk.next], file, BulkIndex)
    BY <1>4 DEF BulkFile, PathSet, Namespaces
  <2> QED
    BY <2>1, ImportStep
<1> QED
  BY <1>2, <1>3, <1>4, ByHandStep DEF PentestNext

\* The initial states.
LEMMA PentestStart ==
  ASSUME PentestAssumption, PentestInit
  PROVE  PentestInv
<1>1. PICK file \in Scans, old \in SUBSET Contents :
         /\ IsFiniteSet(old)
         /\ findings = FileFindings(Store, Paths[1], file) \cup {Legacy(c, file.scan) : c \in old}
  BY DEF PentestInit
<1>2. asFile = [n \in Namespaces |-> [p \in PathSet |-> IF n = Bare THEN Unsure ELSE Held(n, p)]]
  BY DEF PentestInit
<1> DEFINE new == FileFindings(Store, Paths[1], file)
           before == {Legacy(c, file.scan) : c \in old}
           legacy == [c \in old |-> Legacy(c, file.scan)]
<1>3. Paths[1] \in PathSet /\ Store \in Namespaces /\ Bare \in Namespaces
  BY DEF PathSet, Namespaces, PentestAssumption
<1>4. /\ new \in SUBSET Finding /\ IsFiniteSet(new)
      /\ \A r \in new : r.ns = Store /\ r.path = Paths[1] /\ r.key # OtherId
      /\ \A r, s \in new : r.key = s.key => r = s
  BY <1>3, FileLeaves
<1>5. before \in SUBSET Finding /\ \A r \in before : r.key = OtherId
  <2> SUFFICES ASSUME NEW c \in old PROVE Legacy(c, file.scan) \in Finding /\ Legacy(c, file.scan).key = OtherId
    OBVIOUS
  <2>1. c \in Contents
    OBVIOUS
  <2> QED
    BY <1>3, <2>1 DEF Legacy, Finding
<1>6. IsFiniteSet(before)
  <2>1. legacy \in Surjection(old, before)
    BY DEF Surjection
  <2> HIDE DEF legacy, before
  <2> QED
    BY <1>1, <2>1, FS_Surjection
<1>7. findings = new \cup before
  BY <1>1
<1> HIDE DEF new, before
<1>8. findings \in SUBSET Finding /\ IsFiniteSet(findings)
  BY <1>4, <1>5, <1>6, <1>7, FS_Union
<1>9. \A n \in Namespaces, p \in PathSet : Held(n, p) \in SUBSET Finding
  BY <1>8 DEF Held
<1>10. FindingTypes
  BY <1>2, <1>8, <1>9 DEF FindingTypes
<1>11. OneOfAnId
  BY <1>4, <1>5, <1>7 DEF OneOfAnId, Id
<1>12. HeldAsImported
  BY <1>2 DEF HeldAsImported
<1> QED
  BY <1>10, <1>11, <1>12 DEF PentestInv

-----------------------------------------------------------------------------
(* Who holds a file.                                                       *)

Facts(rows) == {<<row.key, row.content, row.edited>> : row \in rows}
OfContent(rows, content) == {row \in rows : row.content = content}

\* What is known of the findings of a path and of a file.
Known(rows, list) ==
    /\ IsFiniteSet(rows) /\ rows \in SUBSET Finding
    /\ \A r, s \in rows : r.key = s.key /\ r.key # OtherId => r = s
    /\ list \in Seq(Contents) /\ Len(list) \in Nat /\ DOMAIN list = 1..Len(list)
    /\ \A i \in 1..Len(list) : /\ list[i] \in Contents /\ Key(list, i) # OtherId
    /\ \A i, j \in 1..Len(list) : Key(list, i) = Key(list, j) => i = j
    /\ OtherId \notin Contents \X Nat

\* The facts of a file's findings.
Listed(list) == {<<Key(list, i), list[i], FALSE>> : i \in 1..Len(list)}

\* A finding is the one listed in a place.
States(r, list, i) == r.key = Key(list, i) /\ r.content = list[i] /\ r.edited = FALSE

AllStated(rows, list) ==
    /\ \A i \in 1..Len(list) : \E r \in rows : States(r, list, i)
    /\ \A r \in rows : \E i \in 1..Len(list) : States(r, list, i)

\* Each finding is one the file lists, and it lists no other.
LEMMA FactsAre ==
  ASSUME NEW rows, NEW list, Facts(rows) = Listed(list)
  PROVE  AllStated(rows, list)
<1>1. ASSUME NEW i \in 1..Len(list)
      PROVE  \E r \in rows : r.key = Key(list, i) /\ r.content = list[i] /\ r.edited = FALSE
  <2>1. <<Key(list, i), list[i], FALSE>> \in Facts(rows)
    BY DEF Listed
  <2>2. PICK r \in rows : <<Key(list, i), list[i], FALSE>> = <<r.key, r.content, r.edited>>
    BY <2>1, Zenon DEF Facts
  <2> QED
    BY <2>2
<1>2. ASSUME NEW r \in rows
      PROVE  \E i \in 1..Len(list) : r.key = Key(list, i) /\ r.content = list[i] /\ r.edited = FALSE
  <2>1. <<r.key, r.content, r.edited>> \in Listed(list)
    BY DEF Facts
  <2>2. PICK i \in 1..Len(list) : <<r.key, r.content, r.edited>> = <<Key(list, i), list[i], FALSE>>
    BY <2>1, Zenon DEF Listed
  <2> QED
    BY <2>2
<1> QED
  BY <1>1, <1>2 DEF AllStated, States

\* Where the facts are the file's, there are as many findings of each content as
\* the file lists.
LEMMA AsMany ==
  ASSUME NEW rows, NEW list, Known(rows, list), Facts(rows) = Listed(list),
         NEW places \in SUBSET (1..Len(list)),
         NEW some \in SUBSET rows,
         \A i \in 1..Len(list), r \in rows : r.key = Key(list, i) => (i \in places <=> r \in some)
  PROVE  Cardinality(places) = Cardinality(some)
<1>0. AllStated(rows, list)
  BY FactsAre
<1>1. \A i \in 1..Len(list) : \E r \in rows : r.key = Key(list, i)
  BY <1>0 DEF AllStated, States
<1>2. \A r \in rows : \E i \in 1..Len(list) : r.key = Key(list, i)
  BY <1>0 DEF AllStated, States
<1> DEFINE f == [i \in places |-> CHOOSE r \in rows : r.key = Key(list, i)]
<1>3. \A i \in places : f[i] \in some /\ f[i].key = Key(list, i)
  BY <1>1
<1>4. f \in [places -> some]
  BY <1>3
<1> HIDE DEF f
<1>5. f \in Injection(places, some)
  <2> SUFFICES ASSUME NEW i \in places, NEW j \in places, f[i] = f[j] PROVE i = j
    BY <1>4 DEF Injection, IsInjective
  <2>1. Key(list, i) = Key(list, j) /\ i \in 1..Len(list) /\ j \in 1..Len(list)
    BY <1>3
  <2> QED
    BY <2>1 DEF Known
<1>6. f \in Surjection(places, some)
  <2> SUFFICES ASSUME NEW r \in some PROVE \E i \in places : f[i] = r
    BY <1>4 DEF Surjection
  <2>1. PICK i \in 1..Len(list) : r.key = Key(list, i)
    BY <1>2
  <2>2. i \in places /\ f[i] \in rows /\ f[i].key = r.key
    BY <1>3, <2>1
  <2>3. r.key # OtherId
    BY <2>1 DEF Known
  <2> QED
    BY <2>2, <2>3 DEF Known
<1>7. IsFiniteSet(places)
  <2>1. IsFiniteSet(1..Len(list))
    BY PlacesCount DEF Known
  <2> QED
    BY <2>1, FS_Subset
<1> QED
  BY <1>5, <1>6, <1>7, FS_Surjection

\* Who has the file's facts matches it.
LEMMA FactsMatch ==
  ASSUME NEW rows, NEW file, Known(rows, file.findings), Facts(rows) = Listed(file.findings)
  PROVE  Matches(rows, file)
<1> DEFINE list == file.findings
<1>0. AllStated(rows, list)
  BY FactsAre
<1>1. Cardinality(rows) = Len(list)
  <2>1. Cardinality(1..Len(list)) = Cardinality(rows)
    BY AsMany
  <2> QED
    BY <2>1, PlacesCount DEF Known
<1>2. ASSUME NEW row \in rows
      PROVE  /\ Copies(rows, row.content) = ListedTimes(file, row.content)
             /\ ~row.edited
             /\ row.key \in {<<row.content, n>> : n \in 0..(Copies(rows, row.content) - 1)}
  <2>1. PICK i \in 1..Len(list) : row.key = Key(list, i) /\ row.content = list[i] /\ row.edited = FALSE
    BY <1>0 DEF AllStated, States
  <2> DEFINE places == Positions(list, list[i])
             some == OfContent(rows, list[i])
  <2>2. \A j \in 1..Len(list), r \in rows : r.key = Key(list, j) => (j \in places <=> r \in some)
    <3> SUFFICES ASSUME NEW j \in 1..Len(list), NEW r \in rows, r.key = Key(list, j)
                 PROVE  r.content = list[j]
      BY DEF Positions, OfContent
    <3>1. PICK k \in 1..Len(list) : r.key = Key(list, k) /\ r.content = list[k]
      BY <1>0 DEF AllStated, States
    <3> QED
      BY <3>1 DEF Known
  <2>3. Cardinality(places) = Cardinality(some)
    <3>1. places \in SUBSET (1..Len(list)) /\ some \in SUBSET rows
      BY DEF Positions, OfContent
    <3> HIDE DEF places, some
    <3> QED
      BY <2>2, <3>1, AsMany
  <2>4. Copies(rows, row.content) = Cardinality(places) /\ ListedTimes(file, row.content) = Cardinality(places)
    <3>1. Copies(rows, list[i]) = Cardinality(some)
      BY DEF Copies, OfContent
    <3>2. DOMAIN list = 1..Len(list)
      BY DEF Known
    <3>3. ListedTimes(file, list[i]) = Cardinality(places)
      BY <3>2 DEF ListedTimes, Positions
    <3> QED
      BY <2>1, <2>3, <3>1, <3>3
  <2>5. Cardinality(Before(list, i)) \in 0..(Cardinality(places) - 1)
    <3>1. list \in Seq(Contents) /\ i \in Positions(list, list[i])
      BY DEF Positions, Known
    <3> HIDE DEF list
    <3> QED
      BY <3>1, OrdinalsGrow
  <2>6. row.key = <<row.content, Cardinality(Before(list, i))>>
    BY <2>1, KeyIs
  <2>7. ~row.edited /\ row.content = list[i]
    BY <2>1
  <2> DEFINE n == Cardinality(Before(list, i))
             times == Cardinality(places)
  <2> HIDE DEF n, times, places, some
  <2>8. row.key \in {<<row.content, k>> : k \in 0..(times - 1)}
    BY <2>5, <2>6 DEF n, times
  <2> QED
    BY <2>4, <2>7, <2>8 DEF times
<1> QED
  BY <1>1, <1>2 DEF Matches

\* Who matches a file has its facts.
LEMMA MatchesFacts ==
  ASSUME NEW rows, NEW file, Known(rows, file.findings), Matches(rows, file)
  PROVE  Facts(rows) = Listed(file.findings)
<1> DEFINE list == file.findings
<1>1. Cardinality(rows) = Len(list)
  BY DEF Matches
<1>2. \A r \in rows : \E i \in 1..Len(list) : r.key = Key(list, i) /\ r.content = list[i] /\ r.edited = FALSE
  <2> SUFFICES ASSUME NEW r \in rows
               PROVE  \E i \in 1..Len(list) : r.key = Key(list, i) /\ r.content = list[i] /\ r.edited = FALSE
    OBVIOUS
  <2>1. /\ Copies(rows, r.content) = Cardinality(Positions(list, r.content)) /\ ~r.edited
        /\ r.key \in {<<r.content, n>> : n \in 0..(Copies(rows, r.content) - 1)}
    BY DEF Matches, ListedTimes, Positions, Known
  <2>2. PICK n \in 0..(Cardinality(Positions(list, r.content)) - 1) : r.key = <<r.content, n>>
    BY <2>1
  <2>3. PICK i \in Positions(list, r.content) : Cardinality(Before(list, i)) = n
    BY OrdinalsAre DEF Known
  <2>4. i \in 1..Len(list) /\ list[i] = r.content /\ Key(list, i) = r.key
    BY <2>2, <2>3, KeyIs DEF Positions
  <2>5. r.edited = FALSE
    BY <2>1 DEF Known, Finding
  <2> QED
    BY <2>4, <2>5
<1> DEFINE f == [r \in rows |-> CHOOSE i \in 1..Len(list) : r.key = Key(list, i)]
<1>3. \A r \in rows : f[r] \in 1..Len(list) /\ r.key = Key(list, f[r])
  BY <1>2
<1>4. f \in [rows -> 1..Len(list)]
  BY <1>3
<1> HIDE DEF f
<1>5. f \in Injection(rows, 1..Len(list))
  <2> SUFFICES ASSUME NEW r \in rows, NEW s \in rows, f[r] = f[s] PROVE r = s
    BY <1>4 DEF Injection, IsInjective
  <2>1. r.key = s.key /\ r.key # OtherId
    BY <1>3 DEF Known
  <2> QED
    BY <2>1 DEF Known
<1>6. f \in Surjection(rows, 1..Len(list))
  <2>1. IsFiniteSet(1..Len(list)) /\ Cardinality(1..Len(list)) = Len(list)
    BY PlacesCount DEF Known
  <2> QED
    BY <1>1, <1>5, <2>1, FS_Injection
<1>7. \A i \in 1..Len(list) : \E r \in rows : r.key = Key(list, i) /\ r.content = list[i] /\ r.edited = FALSE
  <2> SUFFICES ASSUME NEW i \in 1..Len(list)
               PROVE  \E r \in rows : r.key = Key(list, i) /\ r.content = list[i] /\ r.edited = FALSE
    OBVIOUS
  <2>1. PICK r \in rows : f[r] = i
    BY <1>6 DEF Surjection
  <2>2. r.key = Key(list, i)
    BY <1>3, <2>1
  <2>3. PICK k \in 1..Len(list) : r.key = Key(list, k) /\ r.content = list[k] /\ r.edited = FALSE
    BY <1>2
  <2>4. k = i
    BY <2>2, <2>3 DEF Known
  <2> QED
    BY <2>2, <2>3, <2>4
<1>8. Facts(rows) \subseteq Listed(list)
  BY <1>2 DEF Facts, Listed
<1>9. Listed(list) \subseteq Facts(rows)
  BY <1>7 DEF Facts, Listed
<1> QED
  BY <1>8, <1>9

\* In every state, who holds a file is told by the findings alone.
LEMMA HolderTold ==
  ASSUME PentestAssumption, PentestInv
  PROVE  HolderIsExact
<1> SUFFICES ASSUME NEW ns \in Namespaces, NEW path \in PathSet, NEW file \in Scans
             PROVE  Matches(Held(ns, path), file) <=>
                       Facts(Held(ns, path)) = Facts(FileFindings(ns, path, file))
  BY DEF HolderIsExact, Facts
<1> DEFINE rows == Held(ns, path)
           list == file.findings
<1>1. /\ list \in Seq(Contents) /\ Len(list) \in Nat /\ DOMAIN list = 1..Len(list)
      /\ \A i \in 1..Len(list) : list[i] \in Contents /\ Key(list, i) # OtherId
      /\ \A i, j \in 1..Len(list) : Key(list, i) = Key(list, j) => i = j
      /\ OtherId \notin Contents \X Nat
  BY KeysDiffer DEF PentestAssumption
<1>2. IsFiniteSet(rows) /\ rows \in SUBSET Finding
  BY FS_Subset DEF PentestInv, FindingTypes, Held
<1>3. \A r, s \in rows : r.key = s.key /\ r.key # OtherId => r = s
  BY DEF Held, PentestInv, OneOfAnId, Id
<1>4. Known(rows, list)
  BY <1>1, <1>2, <1>3 DEF Known
<1>5. Facts(FileFindings(ns, path, file)) = Listed(list)
  <2> DEFINE row(i) == [ns |-> ns, path |-> path, key |-> Key(list, i), content |-> list[i],
                        scan |-> file.scan, edited |-> FALSE]
  <2>1. FileFindings(ns, path, file) = {row(i) : i \in 1..Len(list)}
    BY <1>1 DEF FileFindings
  <2>2. \A i \in 1..Len(list) : <<row(i).key, row(i).content, row(i).edited>> = <<Key(list, i), list[i], FALSE>>
    OBVIOUS
  <2> HIDE DEF row
  <2> DEFINE new == FileFindings(ns, path, file)
  <2> HIDE DEF new
  <2>3. ASSUME NEW x \in Facts(new) PROVE x \in Listed(list)
    <3>1. PICK r \in new : x = <<r.key, r.content, r.edited>>
      BY Zenon DEF Facts
    <3>2. PICK i \in 1..Len(list) : r = row(i)
      BY <2>1 DEF new
    <3> QED
      BY <2>2, <3>1, <3>2 DEF Listed
  <2>4. ASSUME NEW x \in Listed(list) PROVE x \in Facts(new)
    <3>1. PICK i \in 1..Len(list) : x = <<Key(list, i), list[i], FALSE>>
      BY Zenon DEF Listed
    <3>2. row(i) \in new
      BY <2>1 DEF new
    <3> QED
      BY <2>2, <3>1, <3>2 DEF Facts
  <2> QED
    BY <2>3, <2>4 DEF new
<1> QED
  BY <1>4, <1>5, FactsMatch, MatchesFacts

\* Whatever other sources, a local import, the store and the REST routes do with
\* a path, a namespace holds of it what its file had when last imported, until a
\* change by hand; and a holder counts as holding a file exactly when its rows
\* are the file's (app/services/evidence_import.py).
THEOREM HoldersAreExact == ASSUME PentestAssumption PROVE PentestSpec => []FindingsAreHeld
<1>1. PentestInit => PentestInv
  BY PentestStart
<1>2. PentestInv /\ [PentestNext]_pentestVars => PentestInv'
  BY PentestStep
<1>3. PentestInv => FindingsAreHeld
  BY HolderTold DEF PentestInv, FindingsAreHeld
<1> QED
  BY <1>1, <1>2, <1>3, PTL DEF PentestSpec
=============================================================================
