------------------------ MODULE EvidenceStoreProofs ------------------------
(***************************************************************************)
(* That what the syncs record is what verification derives again, that one *)
(* made-up record hides no version, that a successful run is complete and  *)
(* that a settled record stands: for every store, however many executors,  *)
(* failures and lost locks there are.                                      *)
(*                                                                         *)
(* The inductive invariant says of every record why its outcome is the one *)
(* of its version's body (RecordsOK, GenuineOK), of what was imported that *)
(* a record accounts for it (ContentOK), and of an executor between its    *)
(* read and its write why its plan still is right (StateOK).  All of       *)
(* these reasons last: no step takes one away (Lasting).                   *)
(*                                                                         *)
(* Then StoreSweep: a verification in slices sees the whole store.         *)
(***************************************************************************)
EXTENDS EvidenceStore, StoreSweep, FiniteSetTheorems, SequenceTheorems, WellFoundedInduction, TLAPS

Settled(o) == rec[o] # Null /\ rec[o].status # "error"

\* Findings that some import stored, and findings that differ from some import's.
Backed(findings) == \E b \in Backing : rec[b].info.findings = findings
Contradicted(findings) == \E b \in Backing : rec[b].info.findings # findings

\* Of every record, made up or not.
RecordsOK ==
    \A o \in Recorded :
        /\ o \in Uploaded
        /\ rec[o].info.stored => rec[o].status \in {"ingested", "erased"}
        /\ rec[o].status = "erased" => ~InStore(o)
        /\ "non_conforming" \in {rec[o].status, rec[o].was} => ContentOf(o) = Bare

\* Everything imported has a record that accounts for it.
ContentOK ==
    /\ \A o \in Objects : stored[o] # {} => o \in Backing
    /\ \A o \in documents : HasStatus(o, {"ingested", "erased"})
    /\ \A o \in versions : /\ o \in Uploaded /\ KindOf(o) = "log" /\ ContentOf(o) \in Exports
                           /\ IsPrefix(ContentOf(o), session)

\* Why a record of each kind has the outcome it has.
PentestOK(o) ==
    /\ rec[o].status = "ingested" => rec[o].info.stored
    /\ rec[o].status = "duplicate" =>
          /\ rec[o].info.of \in Holders /\ rec[o].info.findings = ContentOf(o)
          /\ ContentOf(o) \in Findings \ {{}}
    /\ rec[o].status = "unchanged" =>
          ContentOf(o) \in Findings /\ (ContentOf(o) = {} \/ Backed(ContentOf(o)))
    /\ rec[o].status = "rejected" =>
          \/ ContentOf(o) = Malformed
          \/ ContentOf(o) \in Findings \ {{}} /\ Contradicted(ContentOf(o))

LogOK(o) ==
    /\ rec[o].status # "duplicate"
    /\ rec[o].status = "ingested" => o \in versions
    /\ rec[o].status = "unchanged" =>
          ContentOf(o) \in Exports /\ session # <<>> /\ IsPrefix(ContentOf(o), session)
    /\ rec[o].status = "rejected" =>
          \/ ContentOf(o) = Malformed
          \/ ContentOf(o) \in Exports /\ LogOutcome(ContentOf(o)) = "rejected"

DocumentOK(o) ==
    /\ rec[o].status \notin {"unchanged", "duplicate", "rejected"}
    /\ rec[o].status = "ingested" => o \in documents

Genuine(o) ==
    /\ rec[o].info.stored =>
          KindOf(o) = "pentest" /\ stored[o] = rec[o].info.findings /\ stored[o] # {}
    /\ rec[o].status = "too_large" => ContentOf(o) = Large
    /\ KindOf(o) = "pentest" => PentestOK(o)
    /\ KindOf(o) = "log" => LogOK(o)
    /\ KindOf(o) = "document" => DocumentOK(o)

GenuineOK == \A o \in Recorded \ forged : Genuine(o)

\* A version to process was uploaded; what is known of it was an error or a
\* duplicate, whose import stored nothing.
CandidateOK(c) ==
    /\ c.o \in Uploaded
    /\ c.known # Null => c.known.status \in {"error", "duplicate"} /\ ~c.known.info.stored

\* Why a plan is right.
PlanOK(o, plan) ==
    IF plan.outcome = "fetched" THEN FetchedStatus(o) # Null
    ELSE /\ FetchedStatus(o) = Null
         /\ KindOf(o) # "pentest" => plan.outcome = "import"
         /\ KindOf(o) = "pentest" =>
               /\ ContentOf(o) \in Findings
               /\ plan.outcome = "unchanged" => ContentOf(o) = {} \/ Backed(ContentOf(o))
               /\ plan.outcome = "conflict" => ContentOf(o) # {} /\ Contradicted(ContentOf(o))
               /\ plan.outcome = "duplicate" => ContentOf(o) # {} /\ plan.of \in Holders
               /\ plan.outcome = "import" => ContentOf(o) # {}

\* A version a run has listed is settled, or still to be processed by it.
Accounted(x, o) ==
    \/ Settled(o)
    \/ \E c \in x.todo : c.o = o /\ ~c.again
    \/ x.pc \in {"writing", "failing"} /\ x.cur.o = o /\ ~x.cur.again

StateOK(x) ==
    /\ \A c \in x.todo : CandidateOK(c)
    /\ x.pc \in {"writing", "overtaken", "failing"} => x.cur \in Candidates /\ CandidateOK(x.cur)
    /\ x.pc \in {"writing", "overtaken"} => x.plan \in Plans /\ PlanOK(x.cur.o, x.plan)
    /\ x.pc = "duplicates" => \A c \in x.todo : c.again
    /\ x.pc = "syncing" => \A c \in x.todo : ~c.again
    /\ x.pc \in {"writing", "failing"} => \A c \in x.todo : c.again <=> x.cur.again
    /\ x.pc \in {"syncing", "writing", "failing", "duplicates"} /\ x.status # "partial" =>
          \A o \in x.listed : Accounted(x, o)

\* What the store lists was uploaded.
StoreOK == \A k \in Keys : \A i \in DOMAIN s3[k] : s3[k][i] \in Uploaded

ExecutorsOK == \A e \in Executors : StateOK(ex[e])

EInv == TypeOK /\ StoreOK /\ RecordsOK /\ ContentOK /\ GenuineOK /\ ExecutorsOK

-----------------------------------------------------------------------------
(* Prefixes of sessions.                                                   *)

LEMMA PrefixAt ==
    ASSUME NEW s \in Seq(Nat), NEW t \in Seq(Nat)
    PROVE  IsPrefix(s, t) <=> Len(s) <= Len(t) /\ \A i \in 1..Len(s) : s[i] = t[i]
<1>1. CASE Len(s) <= Len(t)
  <2>1. SubSeq(s, 1, Len(s)) = s
    BY SubSeqFull
  <2>2. /\ SubSeq(t, 1, Len(s)) \in Seq(Nat) /\ Len(SubSeq(t, 1, Len(s))) = Len(s)
        /\ \A i \in 1..Len(s) : SubSeq(t, 1, Len(s))[i] = t[i]
    BY <1>1
  <2>3. s = SubSeq(t, 1, Len(s)) <=> \A i \in 1..Len(s) : s[i] = t[i]
    BY <2>2
  <2> QED
    BY <1>1, <2>1, <2>3 DEF IsPrefix
<1>2. CASE ~(Len(s) <= Len(t))
  BY <1>2 DEF IsPrefix
<1> QED
  BY <1>1, <1>2

LEMMA PrefixTransitive ==
    ASSUME NEW s \in Seq(Nat), NEW t \in Seq(Nat), NEW u \in Seq(Nat),
           IsPrefix(s, t), IsPrefix(t, u)
    PROVE  IsPrefix(s, u)
BY PrefixAt

LEMMA PrefixReflexive ==
    ASSUME NEW s \in Seq(Nat)
    PROVE  IsPrefix(s, s)
BY PrefixAt

LEMMA PrefixesCompare ==
    ASSUME NEW s \in Seq(Nat), NEW t \in Seq(Nat), NEW u \in Seq(Nat),
           IsPrefix(s, u), IsPrefix(t, u)
    PROVE  IsPrefix(t, s) \/ IsStrictPrefix(s, t)
<1>1. CASE Len(t) <= Len(s)
  <2>1. \A i \in 1..Len(t) : t[i] = s[i]
    BY <1>1, PrefixAt
  <2> QED
    BY <1>1, <2>1, PrefixAt
<1>2. CASE Len(s) < Len(t)
  <2>1. \A i \in 1..Len(s) : s[i] = t[i]
    BY <1>2, PrefixAt
  <2>2. IsPrefix(s, t)
    <3>1. Len(s) <= Len(t)
      BY <1>2
    <3> QED
      BY <2>1, <3>1, PrefixAt
  <2>3. s # t
    BY <1>2
  <2> QED
    BY <2>2, <2>3 DEF IsStrictPrefix
<1> QED
  BY <1>1, <1>2

\* Entries that neither extend a session nor are part of it stay so.
LEMMA RefusedLasts ==
    ASSUME NEW s \in Seq(Nat), NEW t \in Seq(Nat), NEW x \in Seq(Nat),
           s # <<>>, IsPrefix(s, t), ~IsStrictPrefix(s, x), ~IsPrefix(x, s)
    PROVE  t # <<>> /\ ~IsStrictPrefix(t, x) /\ ~IsPrefix(x, t)
<1>1. t # <<>>
  <2>1. Len(s) # 0 /\ Len(s) <= Len(t)
    BY PrefixAt
  <2> QED
    BY <2>1
<1>2. ~IsPrefix(x, t)
  BY PrefixesCompare
<1>3. s # x
  BY PrefixReflexive
<1>4. ~IsPrefix(t, x)
  BY <1>3, PrefixTransitive DEF IsStrictPrefix
<1> QED
  BY <1>1, <1>2, <1>4 DEF IsStrictPrefix

-----------------------------------------------------------------------------
(* What lasts.                                                             *)

\* What no step takes away: a version's body, its absence from the store, an
\* import's record, a settled record, and what was imported.
Lasting ==
    /\ \A o \in Uploaded : body'[o] = body[o]
    /\ \A o \in Uploaded : InStore(o)' => InStore(o)
    /\ \A b \in Backing : b \in Backing' /\ rec'[b].info = rec[b].info
    /\ \A o \in Objects : Settled(o) => Settled(o)'
    /\ \A o \in Objects :
          HasStatus(o, {"ingested", "erased"}) => HasStatus(o, {"ingested", "erased"})'
    /\ session' \in Exports \cup {<<>>} /\ IsPrefix(session, session')
    /\ documents \subseteq documents' /\ versions \subseteq versions'

LEMMA SessionsAreSequences ==
    ASSUME NEW s \in Exports \cup {<<>>}
    PROVE  s \in Seq(Nat)
<1>1. Exports \subseteq Seq(Nat)
  BY EvidenceStoreAssumption, Zenon
<1>2. <<>> \in Seq(Nat)
  OBVIOUS
<1> QED
  BY <1>1, <1>2

LEMMA UploadedLasts ==
    ASSUME Lasting, NEW o \in Uploaded
    PROVE  o \in Uploaded' /\ KeyOf(o)' = KeyOf(o) /\ KindOf(o)' = KindOf(o)
           /\ ContentOf(o)' = ContentOf(o) /\ FetchedStatus(o)' = FetchedStatus(o)
<1>1. body'[o] = body[o] /\ body[o] # Null /\ o \in Objects
  BY DEF Lasting, Uploaded
<1> QED
  BY <1>1 DEF Uploaded, KeyOf, KindOf, ContentOf, FetchedStatus

LEMMA BackedLasts ==
    ASSUME Lasting, NEW x
    PROVE  /\ (\E b \in Backing : rec[b].info.findings = x) =>
                  \E b \in Backing' : rec'[b].info.findings = x
           /\ (\E b \in Backing : rec[b].info.findings # x) =>
                  \E b \in Backing' : rec'[b].info.findings # x
BY DEF Lasting

\* The reasons for a record last while it is not replaced.
LEMMA GenuineLasts ==
    ASSUME TypeOK, Lasting, NEW o \in Uploaded, Genuine(o),
           rec'[o] = rec[o], stored'[o] = stored[o]
    PROVE  Genuine(o)'
<1> DEFINE x == ContentOf(o)
<1>1. /\ KindOf(o)' = KindOf(o) /\ ContentOf(o)' = x
  BY UploadedLasts
<1>2. /\ Backed(x) => \E b \in Backing' : rec'[b].info.findings = x
      /\ Contradicted(x) => \E b \in Backing' : rec'[b].info.findings # x
  BY BackedLasts DEF Backed, Contradicted
<1>3. PentestOK(o) => PentestOK(o)'
  <2>1. (ContentOf(o) = {} \/ Backed(ContentOf(o))) => (ContentOf(o) = {} \/ Backed(ContentOf(o)))'
    BY <1>1, <1>2 DEF Backed
  <2>2. Contradicted(ContentOf(o)) => Contradicted(ContentOf(o))'
    BY <1>1, <1>2 DEF Contradicted
  <2> HIDE DEF x
  <2> QED
    BY <1>1, <2>1, <2>2 DEF PentestOK, x
<1>4. LogOK(o) => LogOK(o)'
  <2>1. session \in Seq(Nat) /\ session' \in Seq(Nat) /\ IsPrefix(session, session')
    BY SessionsAreSequences DEF TypeOK, Lasting
  <2>2. x \in Exports => x \in Seq(Nat)
    BY SessionsAreSequences
  <2>3. x \in Exports /\ session # <<>> /\ IsPrefix(x, session) =>
            session' # <<>> /\ IsPrefix(x, session')
    <3>1. session # <<>> => session' # <<>>
      <4>1. Len(session) <= Len(session')
        BY <2>1, PrefixAt
      <4> QED
        BY <2>1, <4>1
    <3> QED
      BY <2>1, <2>2, <3>1, PrefixTransitive
  <2>4. x \in Exports /\ LogOutcome(x) = "rejected" =>
            session' # <<>> /\ ~IsStrictPrefix(session', x) /\ ~IsPrefix(x, session')
    <3>1. LogOutcome(x) = "rejected" =>
              session # <<>> /\ ~IsStrictPrefix(session, x) /\ ~IsPrefix(x, session)
      BY DEF LogOutcome
    <3> HIDE DEF x
    <3> QED
      BY <2>1, <2>2, <3>1, RefusedLasts
  <2>5. x \in Exports /\ LogOutcome(x) = "rejected" => LogOutcome(ContentOf(o))' = "rejected"
    BY <1>1, <2>4 DEF LogOutcome
  <2>6. versions \subseteq versions'
    BY DEF Lasting
  <2> QED
    BY <1>1, <2>3, <2>5, <2>6 DEF LogOK
<1>5. DocumentOK(o) => DocumentOK(o)'
  BY DEF DocumentOK, Lasting
<1> QED
  BY <1>1, <1>3, <1>4, <1>5 DEF Genuine

LEMMA CandidateLasts ==
    ASSUME Lasting, NEW c, CandidateOK(c)
    PROVE  CandidateOK(c)'
BY UploadedLasts DEF CandidateOK

LEMMA PlanLasts ==
    ASSUME Lasting, NEW o \in Uploaded, NEW plan, PlanOK(o, plan)
    PROVE  PlanOK(o, plan)'
<1> DEFINE x == ContentOf(o)
<1>1. /\ KindOf(o)' = KindOf(o) /\ ContentOf(o)' = x /\ FetchedStatus(o)' = FetchedStatus(o)
  BY UploadedLasts
<1>2. Backed(ContentOf(o)) => Backed(ContentOf(o))'
  BY <1>1, BackedLasts DEF Backed
<1>3. Contradicted(ContentOf(o)) => Contradicted(ContentOf(o))'
  BY <1>1, BackedLasts DEF Contradicted
<1> HIDE DEF x
<1> QED
  BY <1>1, <1>2, <1>3 DEF PlanOK, x

LEMMA StateLasts ==
    ASSUME Lasting, NEW x, x.listed \subseteq Objects, StateOK(x)
    PROVE  StateOK(x)'
<1>1. /\ \A c \in x.todo : CandidateOK(c)'
      /\ x.pc \in {"writing", "overtaken", "failing"} =>
            x.cur \in Candidates /\ CandidateOK(x.cur)'
  BY CandidateLasts DEF StateOK
<1>2. x.pc \in {"writing", "overtaken"} => x.plan \in Plans /\ PlanOK(x.cur.o, x.plan)'
  BY PlanLasts DEF StateOK, CandidateOK
<1>3. ASSUME NEW o \in x.listed, Accounted(x, o)
      PROVE  Accounted(x, o)'
  BY <1>3 DEF Lasting, Accounted
<1> QED
  BY <1>1, <1>2, <1>3 DEF StateOK

LEMMA ExecutorLasts ==
    ASSUME TypeOK, Lasting, NEW e \in Executors, StateOK(ex[e]), ex'[e] = ex[e]
    PROVE  StateOK(ex[e])'
<1>1. PICK x : x = ex[e]
  OBVIOUS
<1>2. ex'[e] = x
  BY <1>1
<1>3. x.listed \subseteq Objects
  BY <1>1 DEF TypeOK, ExecutorState
<1>4. StateOK(x)'
  BY <1>1, <1>3, StateLasts
<1> QED
  BY <1>2, <1>4 DEF StateOK, Accounted

\* Reading, planning and failing change no record and no import.
LEMMA QuietLasts ==
    ASSUME TypeOK, UNCHANGED <<s3, body, rec, session, documents, versions>>
    PROVE  Lasting
<1>1. IsPrefix(session, session) /\ session \in Exports \cup {<<>>}
  BY SessionsAreSequences, PrefixReflexive DEF TypeOK
<1>2. Backing' = Backing
  BY DEF Backing, Recorded, KindOf, KeyOf
<1> QED
  BY <1>1, <1>2 DEF Lasting, InStore, Uploaded, KeyOf, Settled, HasStatus

\* While no record changes, the reasons for all of them last.
LEMMA RecordsLast ==
    ASSUME EInv, Lasting, UNCHANGED <<rec, stored, documents, versions, forged>>
    PROVE  RecordsOK' /\ ContentOK' /\ GenuineOK'
<1>1. Recorded' = Recorded /\ Recorded \subseteq Uploaded
  BY DEF Recorded, EInv, RecordsOK
<1>2. RecordsOK'
  <2>1. \A o \in Recorded : /\ o \in Uploaded' /\ ContentOf(o)' = ContentOf(o)
                            /\ InStore(o)' => InStore(o)
    BY <1>1, UploadedLasts DEF Lasting
  <2> QED
    BY <1>1, <2>1 DEF EInv, RecordsOK
<1>3. ContentOK'
  <2>1. \A o \in Objects : stored'[o] # {} => o \in Backing'
    BY DEF EInv, ContentOK, Lasting
  <2>2. \A o \in documents' : HasStatus(o, {"ingested", "erased"})'
    BY DEF EInv, ContentOK, HasStatus
  <2>3. ASSUME NEW o \in versions
        PROVE  /\ o \in Uploaded' /\ KindOf(o)' = "log" /\ ContentOf(o)' \in Exports
               /\ IsPrefix(ContentOf(o), session)'
    <3>1. /\ o \in Uploaded /\ KindOf(o) = "log" /\ ContentOf(o) \in Exports
          /\ IsPrefix(ContentOf(o), session)
      BY <2>3 DEF EInv, ContentOK
    <3>2. IsPrefix(ContentOf(o), session')
      BY <3>1, SessionsAreSequences, PrefixTransitive DEF EInv, TypeOK, Lasting
    <3> QED
      BY <3>1, <3>2, UploadedLasts
  <2> QED
    BY <2>1, <2>2, <2>3 DEF ContentOK
<1>4. GenuineOK'
  <2>1. SUFFICES ASSUME NEW o \in Recorded \ forged
                 PROVE  Genuine(o)'
    BY <1>1 DEF GenuineOK
  <2> QED
    BY <1>1, GenuineLasts DEF EInv, GenuineOK
<1> QED
  BY <1>2, <1>3, <1>4

-----------------------------------------------------------------------------
(* The world around the syncs.                                             *)

LEMMA ExecutorsLast ==
    ASSUME EInv, Lasting, UNCHANGED ex
    PROVE  ExecutorsOK'
BY ExecutorLasts DEF EInv, ExecutorsOK

LEMMA UploadKeeps ==
    ASSUME EInv, NEW o \in Objects, NEW k \in Keys, NEW content \in Bodies[Kind[k]],
           Upload(o, k, content)
    PROVE  EInv'
<1>1. /\ body[o] = Null /\ s3' = [s3 EXCEPT ![k] = Append(@, o)]
      /\ body' = [body EXCEPT ![o] = [key |-> k, content |-> content]]
      /\ UNCHANGED <<db, ex, faults, forged>>
  BY DEF Upload
<1>2. /\ s3 \in [Keys -> Seq(Objects)] /\ DOMAIN body = Objects
      /\ \A p \in Uploaded : KeyOf(p) \in Keys
  BY DEF EInv, TypeOK
<1>3. [key |-> k, content |-> content] # Null
  BY EvidenceStoreAssumption, Zenon
<1>4. /\ DOMAIN body' = Objects /\ body'[o] = [key |-> k, content |-> content]
      /\ \A p \in Objects \ {o} : body'[p] = body[p]
  BY <1>1, <1>2
<1>5. Uploaded' = Uploaded \cup {o}
  BY <1>3, <1>4 DEF Uploaded
<1>6. \A p \in Uploaded : p # o /\ body'[p] = body[p]
  BY <1>1, <1>4 DEF Uploaded
<1>7. TypeOK'
  <2>1. s3' \in [Keys -> Seq(Objects)]
    BY <1>1, <1>2
  <2>2. ASSUME NEW p \in Uploaded'
        PROVE  /\ KeyOf(p)' \in Keys /\ ContentOf(p)' \in Bodies[KindOf(p)']
               /\ body'[p] = [key |-> KeyOf(p)', content |-> ContentOf(p)']
    <3>1. CASE p = o
      BY <1>4, <3>1 DEF KeyOf, KindOf, ContentOf
    <3>2. CASE p \in Uploaded
      BY <1>6, <3>2 DEF EInv, TypeOK, KeyOf, KindOf, ContentOf
    <3> QED
      BY <1>5, <3>1, <3>2
  <2> QED
    BY <1>1, <1>4, <2>1, <2>2 DEF EInv, TypeOK, db, Recorded
<1>0. StoreOK'
  <2>1. SUFFICES ASSUME NEW l \in Keys, NEW i \in DOMAIN s3'[l]
                 PROVE  s3'[l][i] \in Uploaded'
    BY DEF StoreOK
  <2>2. s3[l] \in Seq(Objects) /\ \A j \in DOMAIN s3[l] : s3[l][j] \in Uploaded
    BY <1>2 DEF EInv, StoreOK
  <2> QED
    BY <1>1, <1>2, <1>5, <2>1, <2>2
<1>8. ASSUME NEW p \in Uploaded, InStore(p)'
      PROVE  InStore(p)
  <2>1. KeyOf(p)' = KeyOf(p) /\ KeyOf(p) \in Keys /\ p # o
    BY <1>2, <1>6 DEF KeyOf
  <2>2. PICK i \in DOMAIN s3'[KeyOf(p)] : s3'[KeyOf(p)][i] = p
    BY <1>8, <2>1 DEF InStore
  <2>3. s3[KeyOf(p)] \in Seq(Objects)
    BY <1>2, <2>1
  <2>4. i \in DOMAIN s3[KeyOf(p)] /\ s3[KeyOf(p)][i] = p
    BY <1>1, <1>2, <2>1, <2>2, <2>3
  <2> QED
    BY <2>4 DEF InStore
<1>9. \A b \in Backing : b \in Backing' /\ rec'[b].info = rec[b].info
  <2>1. \A b \in Recorded : KindOf(b)' = KindOf(b)
    BY <1>6 DEF EInv, RecordsOK, KindOf, KeyOf
  <2> QED
    BY <1>1, <2>1 DEF Backing, Recorded, db
<1>10. Lasting
  <2>1. IsPrefix(session, session') /\ session' \in Exports \cup {<<>>}
    BY <1>1, SessionsAreSequences, PrefixReflexive DEF EInv, TypeOK, db
  <2> QED
    BY <1>1, <1>6, <1>8, <1>9, <2>1 DEF Lasting, Settled, HasStatus, db
<1>11. RecordsOK' /\ ContentOK' /\ GenuineOK' /\ ExecutorsOK'
  BY <1>1, <1>10, RecordsLast, ExecutorsLast DEF db
<1> QED
  BY <1>0, <1>7, <1>11 DEF EInv

\* Removing a version of a key leaves no version there that was not.
LEMMA Removed ==
    ASSUME NEW s \in Seq(Objects), NEW i \in DOMAIN s
    PROVE  /\ RemoveAt(s, i) \in Seq(Objects)
           /\ \A j \in DOMAIN RemoveAt(s, i) : \E n \in DOMAIN s : RemoveAt(s, i)[j] = s[n]
<1> DEFINE front == SubSeq(s, 1, i - 1)
           back == SubSeq(s, i + 1, Len(s))
<1>1. i \in 1..Len(s) /\ Len(s) \in Nat
  OBVIOUS
<1>2. /\ front \in Seq(Objects) /\ Len(front) = i - 1
      /\ \A j \in 1..(i - 1) : front[j] = s[j]
  BY <1>1
<1>3. /\ back \in Seq(Objects) /\ Len(back) = Len(s) - i
      /\ \A j \in 1..(Len(s) - i) : back[j] = s[i + j]
  BY <1>1
<1>4. RemoveAt(s, i) = front \o back
  BY DEF RemoveAt
<1> HIDE DEF front, back
<1>5. /\ front \o back \in Seq(Objects) /\ Len(front \o back) = Len(s) - 1
      /\ \A j \in 1..(Len(s) - 1) :
            (front \o back)[j] = IF j <= i - 1 THEN front[j] ELSE back[j - (i - 1)]
  <2>1. /\ front \o back \in Seq(Objects) /\ Len(front \o back) = Len(front) + Len(back)
        /\ \A j \in 1..(Len(front) + Len(back)) :
              (front \o back)[j] = IF j <= Len(front) THEN front[j] ELSE back[j - Len(front)]
    BY <1>2, <1>3, ConcatProperties
  <2>2. Len(front) + Len(back) = Len(s) - 1
    BY <1>1, <1>2, <1>3
  <2> QED
    BY <1>2, <2>1, <2>2
<1>6. ASSUME NEW j \in 1..(Len(s) - 1) PROVE \E n \in 1..Len(s) : (front \o back)[j] = s[n]
  <2>1. CASE j <= i - 1
    <3>1. j \in 1..(i - 1) /\ j \in 1..Len(s)
      BY <1>1, <2>1
    <3>2. (front \o back)[j] = s[j]
      BY <1>2, <1>5, <2>1, <3>1
    <3> QED
      BY <3>1, <3>2
  <2>2. CASE ~(j <= i - 1)
    <3>1. j - (i - 1) \in 1..(Len(s) - i) /\ j + 1 \in 1..Len(s)
      BY <1>1, <2>2
    <3>2. (front \o back)[j] = back[j - (i - 1)]
      BY <1>5, <2>2
    <3>3. back[j - (i - 1)] = s[i + (j - (i - 1))]
      BY <1>3, <3>1
    <3>4. i + (j - (i - 1)) = j + 1
      BY <1>1
    <3> QED
      BY <3>1, <3>2, <3>3, <3>4
  <2> QED
    BY <2>1, <2>2
<1>7. DOMAIN (front \o back) = 1..(Len(s) - 1) /\ DOMAIN s = 1..Len(s)
  BY <1>5
<1> QED
  BY <1>4, <1>5, <1>6, <1>7

LEMMA EraseKeeps ==
    ASSUME EInv, NEW o \in Objects, EraseVersion(o)
    PROVE  EInv'
<1>1. UNCHANGED <<body, db, ex, faults, forged>> /\ o \in Uploaded
  BY DEF EraseVersion, InStore
<1>2. KeyOf(o) \in Keys /\ s3 \in [Keys -> Seq(Objects)]
  BY <1>1 DEF EInv, TypeOK
<1>3. PICK i \in DOMAIN s3[KeyOf(o)] : s3' = [s3 EXCEPT ![KeyOf(o)] = RemoveAt(@, i)]
  BY DEF EraseVersion
<1>4. /\ RemoveAt(s3[KeyOf(o)], i) \in Seq(Objects)
      /\ \A j \in DOMAIN RemoveAt(s3[KeyOf(o)], i) :
            \E n \in DOMAIN s3[KeyOf(o)] : RemoveAt(s3[KeyOf(o)], i)[j] = s3[KeyOf(o)][n]
  BY <1>2, Removed
<1>5. s3' \in [Keys -> Seq(Objects)]
  BY <1>2, <1>3, <1>4
<1>6. TypeOK'
  BY <1>1, <1>5 DEF EInv, TypeOK, db, Uploaded, KeyOf, KindOf, ContentOf, Recorded
<1>7. \A k \in Keys : \A j \in DOMAIN s3'[k] : \E n \in DOMAIN s3[k] : s3'[k][j] = s3[k][n]
  BY <1>2, <1>3, <1>4
<1>8. Uploaded' = Uploaded /\ \A p \in Uploaded : KeyOf(p)' = KeyOf(p) /\ KeyOf(p) \in Keys
  BY <1>1 DEF Uploaded, KeyOf, EInv, TypeOK
<1>9. StoreOK' /\ \A p \in Uploaded : InStore(p)' => InStore(p)
  BY <1>7, <1>8 DEF InStore, StoreOK, EInv
<1>10. Backing' = Backing
  BY <1>1 DEF Backing, Recorded, KindOf, KeyOf, db
<1>11. Lasting
  <2>1. IsPrefix(session, session') /\ session' \in Exports \cup {<<>>}
    BY <1>1, SessionsAreSequences, PrefixReflexive DEF EInv, TypeOK, db
  <2> QED
    BY <1>1, <1>9, <1>10, <2>1 DEF Lasting, Settled, HasStatus, db
<1>12. RecordsOK' /\ ContentOK' /\ GenuineOK' /\ ExecutorsOK'
  BY <1>1, <1>11, RecordsLast, ExecutorsLast DEF db
<1> QED
  BY <1>6, <1>9, <1>12 DEF EInv

LEMMA HoldKeeps ==
    ASSUME EInv, NEW h \in Holders, NEW findings \in Findings, Hold(h, findings)
    PROVE  EInv'
<1>1. /\ held' = [held EXCEPT ![h] = findings]
      /\ UNCHANGED <<s3, body, rec, stored, session, versions, documents, ex, faults, forged>>
  BY DEF Hold
<1>2. TypeOK'
  BY <1>1 DEF EInv, TypeOK, Uploaded, KeyOf, KindOf, ContentOf, Recorded
<1>3. Lasting
  BY <1>1, QuietLasts DEF EInv
<1> QED
  BY <1>1, <1>2, <1>3, RecordsLast, ExecutorsLast DEF EInv, StoreOK, Uploaded

LEMMA SubmitKeeps ==
    ASSUME EInv, NEW entries \in Exports, Submit(entries)
    PROVE  EInv'
<1>1. /\ session' = entries /\ IsPrefix(session, session') /\ session' \in Exports \cup {<<>>}
      /\ UNCHANGED <<s3, body, rec, held, stored, versions, documents, ex, faults, forged>>
  BY DEF Submit, IsStrictPrefix
<1>2. TypeOK'
  BY <1>1 DEF EInv, TypeOK, Uploaded, KeyOf, KindOf, ContentOf, Recorded
<1>3. Backing' = Backing
  BY <1>1 DEF Backing, Recorded, KindOf, KeyOf
<1>4. Lasting
  BY <1>1, <1>3 DEF Lasting, InStore, Uploaded, KeyOf, Settled, HasStatus
<1> QED
  BY <1>1, <1>2, <1>4, RecordsLast, ExecutorsLast DEF EInv, StoreOK, Uploaded

-----------------------------------------------------------------------------
(* A run, but for its writes.                                              *)

\* A step of one executor that changes no record keeps the invariant when the
\* executor is left in a state that is right.
LEMMA ExecutorStep ==
    ASSUME EInv, NEW e \in Executors, NEW x \in ExecutorState,
           UNCHANGED <<s3, body, db, forged>>, ex' = [ex EXCEPT ![e] = x], StateOK(x)
    PROVE  EInv'
<1>1. UNCHANGED <<s3, body, rec, held, stored, session, versions, documents, forged>>
  BY DEF db
<1>2. Lasting
  BY <1>1, QuietLasts DEF EInv
<1>3. ex' \in [Executors -> ExecutorState] /\ ex'[e] = x
      /\ \A f \in Executors \ {e} : ex'[f] = ex[f]
  BY DEF EInv, TypeOK
<1>4. TypeOK'
  BY <1>1, <1>3 DEF EInv, TypeOK, Uploaded, KeyOf, KindOf, ContentOf, Recorded
<1>5. StateOK(ex[e])'
  <2>1. StateOK(x)'
    BY <1>2, StateLasts DEF ExecutorState
  <2> QED
    BY <1>3, <2>1 DEF StateOK, Accounted
<1>6. \A f \in Executors \ {e} : StateOK(ex[f])'
  BY <1>2, <1>3, ExecutorLasts DEF EInv, ExecutorsOK
<1>7. ExecutorsOK'
  BY <1>5, <1>6 DEF ExecutorsOK
<1> QED
  BY <1>1, <1>2, <1>4, <1>7, RecordsLast DEF EInv, StoreOK, Uploaded

LEMMA IdleOK == Idle \in ExecutorState /\ StateOK(Idle)
BY DEF Idle, ExecutorState, StateOK

\* The records that the actions' EXCEPTs make, field by field.
LEMMA WriteFailed ==
    ASSUME NEW x \in ExecutorState
    PROVE  [x EXCEPT !.pc = "failing", !.plan = Null] =
              [pc |-> "failing", bucket |-> x.bucket, todo |-> x.todo, cur |-> x.cur,
               plan |-> Null, status |-> x.status, listed |-> x.listed]
<1>1. PICK y : y = [x EXCEPT !.pc = "failing", !.plan = Null]
  OBVIOUS
<1>2. y = [pc |-> "failing", bucket |-> x.bucket, todo |-> x.todo, cur |-> x.cur,
           plan |-> Null, status |-> x.status, listed |-> x.listed]
  BY <1>1 DEF ExecutorState
<1> QED
  BY <1>1, <1>2

LEMMA DuplicatesFound ==
    ASSUME NEW x \in ExecutorState, NEW todo
    PROVE  [x EXCEPT !.pc = "duplicates", !.todo = todo] =
              [pc |-> "duplicates", bucket |-> x.bucket, todo |-> todo, cur |-> x.cur,
               plan |-> x.plan, status |-> x.status, listed |-> x.listed]
<1>1. PICK y : y = [x EXCEPT !.pc = "duplicates", !.todo = todo]
  OBVIOUS
<1>2. y = [pc |-> "duplicates", bucket |-> x.bucket, todo |-> todo, cur |-> x.cur,
           plan |-> x.plan, status |-> x.status, listed |-> x.listed]
  BY <1>1 DEF ExecutorState
<1> QED
  BY <1>1, <1>2

\* What the proofs use of an executor's state.
LEMMA ExecutorFacts ==
    ASSUME EInv, NEW e \in Executors
    PROVE  /\ ex[e] \in ExecutorState /\ StateOK(ex[e])
           /\ \A c \in ex[e].todo : c \in Candidates /\ c.o \in Uploaded
BY DEF EInv, TypeOK, ExecutorsOK, ExecutorState, StateOK, CandidateOK

LEMMA StopKeeps ==
    ASSUME EInv, NEW e \in Executors,
           UNCHANGED <<s3, body, db, forged>>, ex' = [ex EXCEPT ![e] = Idle]
    PROVE  EInv'
BY IdleOK, ExecutorStep

LEMMA LoseLockKeeps ==
    ASSUME EInv, NEW e \in Executors, LoseLock(e)
    PROVE  EInv'
<1> DEFINE x == [pc |-> "overtaken", bucket |-> Null, todo |-> {}, cur |-> ex[e].cur,
                 plan |-> ex[e].plan, status |-> "unchanged", listed |-> {}]
<1>1. /\ ex[e].pc = "writing" /\ ex' = [ex EXCEPT ![e] = x]
      /\ UNCHANGED <<s3, body, db, forged>>
  <2>1. PICK y : y = [Idle EXCEPT !.pc = "overtaken", !.cur = ex[e].cur, !.plan = ex[e].plan]
    OBVIOUS
  <2>2. /\ Idle \in ExecutorState /\ Idle.bucket = Null /\ Idle.todo = {}
        /\ Idle.status = "unchanged" /\ Idle.listed = {}
    BY IdleOK DEF Idle
  <2>3. y = x
    BY <2>1, <2>2 DEF ExecutorState
  <2> HIDE DEF x
  <2> QED
    BY <2>1, <2>3 DEF LoseLock
<1>2. x \in ExecutorState
  BY ExecutorFacts DEF ExecutorState
<1>3. StateOK(x)
  BY <1>1, ExecutorFacts DEF StateOK
<1> HIDE DEF x
<1> QED
  BY <1>1, <1>2, <1>3, ExecutorStep

LEMMA ReadFailsKeeps ==
    ASSUME EInv, NEW e \in Executors, NEW c \in ex[e].todo, ReadFails(e, c)
    PROVE  EInv'
<1> DEFINE x == [pc |-> "failing", bucket |-> ex[e].bucket, todo |-> ex[e].todo \ {c},
                 cur |-> c, plan |-> ex[e].plan, status |-> "partial", listed |-> ex[e].listed]
<1>1. /\ ex[e].pc \in {"syncing", "duplicates"}
      /\ ex' = [ex EXCEPT ![e].cur = c, ![e].todo = @ \ {c},
                          ![e].pc = "failing", ![e].status = "partial"]
      /\ UNCHANGED <<s3, body, db, forged>>
  BY DEF ReadFails
<1>2. ex[e] \in ExecutorState /\ StateOK(ex[e]) /\ c \in Candidates
  BY ExecutorFacts
<1>3. ex' = [ex EXCEPT ![e] = x]
  BY <1>1, <1>2 DEF ExecutorState, EInv, TypeOK
<1>4. x \in ExecutorState
  BY <1>2 DEF ExecutorState
<1>5. \A d \in x.todo : d.again <=> x.cur.again
  BY <1>1, <1>2 DEF StateOK
<1>6. StateOK(x)
  BY <1>2, <1>5 DEF StateOK
<1> HIDE DEF x
<1> QED
  BY <1>1, <1>3, <1>4, <1>6, ExecutorStep

\* A body that the checks of fetch_version pass is the content of its kind.
LEMMA Fetched ==
    ASSUME EInv, NEW o \in Uploaded
    PROVE  /\ o \in Objects /\ KindOf(o) \in {"pentest", "log", "document"}
           /\ FetchedStatus(o) = Null => ContentOf(o) \notin Unusable
           /\ FetchedStatus(o) = Null /\ KindOf(o) = "pentest" => ContentOf(o) \in Findings
           /\ FetchedStatus(o) = Null /\ KindOf(o) = "log" => ContentOf(o) \in Exports
           /\ KindOf(o) = "document" => FetchedStatus(o) # "rejected"
           /\ FetchedStatus(o) \in {Null, "non_conforming", "too_large", "rejected"}
           /\ FetchedStatus(o) = "non_conforming" => ContentOf(o) = Bare
           /\ FetchedStatus(o) = "too_large" => ContentOf(o) = Large
           /\ FetchedStatus(o) = "rejected" => ContentOf(o) = Malformed
<1>1. /\ o \in Objects /\ KeyOf(o) \in Keys /\ ContentOf(o) \in Bodies[KindOf(o)]
  BY DEF EInv, TypeOK, Uploaded
<1>2. /\ Kind \in [Keys -> {"pentest", "log", "document"}]
      /\ Bodies["pentest"] \subseteq Findings \cup Unusable
      /\ Bodies["log"] \subseteq Exports \cup Unusable
      /\ Bodies["document"] \subseteq {Null, Bare, Large}
      /\ Malformed \notin {Null, Bare, Large} /\ Null \notin RecordStatuses
  BY EvidenceStoreAssumption, Zenon
<1>3. Null \notin {"non_conforming", "too_large", "rejected"}
  BY <1>2 DEF RecordStatuses
<1>4. KindOf(o) \in {"pentest", "log", "document"}
  BY <1>1, <1>2 DEF KindOf
<1>5. FetchedStatus(o) = Null => ContentOf(o) \notin Unusable
  BY <1>3 DEF FetchedStatus, Unusable
<1>6. KindOf(o) = "pentest" => ContentOf(o) \in Findings \cup Unusable
  BY <1>1, <1>2
<1>7. KindOf(o) = "log" => ContentOf(o) \in Exports \cup Unusable
  BY <1>1, <1>2
<1>8. KindOf(o) = "document" => ContentOf(o) # Malformed
  BY <1>1, <1>2
<1>9. KindOf(o) = "document" => FetchedStatus(o) # "rejected"
  BY <1>3, <1>8 DEF FetchedStatus
<1>10. /\ FetchedStatus(o) \in {Null, "non_conforming", "too_large", "rejected"}
       /\ FetchedStatus(o) = "non_conforming" => ContentOf(o) = Bare
       /\ FetchedStatus(o) = "too_large" => ContentOf(o) = Large
       /\ FetchedStatus(o) = "rejected" => ContentOf(o) = Malformed
  BY <1>3 DEF FetchedStatus
<1> QED
  BY <1>1, <1>4, <1>5, <1>6, <1>7, <1>9, <1>10

\* plan_pentest's outcomes, each with its reason.
LEMMA PentestPlansOK ==
    ASSUME NEW content, NEW p \in PentestPlans(content)
    PROVE  /\ p \in Plans /\ p.outcome # "fetched"
           /\ p.outcome = "unchanged" => content = {} \/ Backed(content)
           /\ p.outcome = "conflict" => content # {} /\ Contradicted(content)
           /\ p.outcome = "duplicate" => content # {} /\ p.of \in Holders
           /\ p.outcome = "import" => content # {}
<1> DEFINE same == {h \in Holders : held[h] = content}
<1>1. CASE content = {}
  BY <1>1 DEF PentestPlans, Plan, Plans
<1>2. CASE content # {} /\ Backing # {}
  <2>1. PICK b \in Backing :
            p = Plan(IF rec[b].info.findings = content THEN "unchanged" ELSE "conflict", Null)
    BY <1>2 DEF PentestPlans
  <2>2. CASE rec[b].info.findings = content
    BY <2>1, <2>2 DEF Plan, Plans, Backed
  <2>3. CASE rec[b].info.findings # content
    BY <1>2, <2>1, <2>3 DEF Plan, Plans, Contradicted
  <2> QED
    BY <2>2, <2>3
<1>3. CASE content # {} /\ Backing = {} /\ same # {}
  <2>1. PICK h \in Holders : p = Plan("duplicate", h)
    BY <1>3 DEF PentestPlans
  <2> QED
    BY <1>3, <2>1 DEF Plan, Plans
<1>4. CASE content # {} /\ Backing = {} /\ same = {}
  BY <1>4 DEF PentestPlans, Plan, Plans
<1> QED
  BY <1>1, <1>2, <1>3, <1>4

LEMMA ReadAndPlanKeeps ==
    ASSUME EInv, NEW e \in Executors, NEW c \in ex[e].todo, ReadAndPlan(e, c)
    PROVE  EInv'
<1>1. ex[e] \in ExecutorState /\ StateOK(ex[e]) /\ c \in Candidates /\ c.o \in Uploaded
  BY ExecutorFacts
<1>2. PICK p \in (IF FetchedStatus(c.o) # Null THEN {Plan("fetched", Null)}
                  ELSE IF KindOf(c.o) = "pentest" THEN PentestPlans(ContentOf(c.o))
                  ELSE {Plan("import", Null)}) :
          ex' = [ex EXCEPT ![e].pc = "writing", ![e].plan = p, ![e].cur = c,
                           ![e].todo = @ \ {c}]
  BY DEF ReadAndPlan
<1>3. /\ ex[e].pc \in {"syncing", "duplicates"} /\ UNCHANGED <<s3, body, db, forged>>
  BY DEF ReadAndPlan
<1> DEFINE x == [pc |-> "writing", bucket |-> ex[e].bucket, todo |-> ex[e].todo \ {c},
                 cur |-> c, plan |-> p, status |-> ex[e].status, listed |-> ex[e].listed]
<1>4. ex' = [ex EXCEPT ![e] = x]
  BY <1>1, <1>2 DEF ExecutorState, EInv, TypeOK
<1>5. p \in Plans /\ PlanOK(c.o, p)
  <2>1. CASE FetchedStatus(c.o) # Null
    BY <1>2, <2>1 DEF Plan, Plans, PlanOK
  <2>2. CASE FetchedStatus(c.o) = Null /\ KindOf(c.o) = "pentest"
    <3>1. p \in PentestPlans(ContentOf(c.o)) /\ ContentOf(c.o) \in Findings
      BY <1>1, <1>2, <2>2, Fetched
    <3> QED
      BY <2>2, <3>1, PentestPlansOK DEF PlanOK
  <2>3. CASE FetchedStatus(c.o) = Null /\ KindOf(c.o) # "pentest"
    BY <1>2, <2>3 DEF Plan, Plans, PlanOK
  <2> QED
    BY <2>1, <2>2, <2>3
<1>6. x \in ExecutorState
  BY <1>1, <1>5 DEF ExecutorState
<1>7. ASSUME NEW o \in x.listed, x.status # "partial"
      PROVE  Accounted(x, o)
  <2>1. Accounted(ex[e], o)
    BY <1>1, <1>3, <1>7 DEF StateOK
  <2> QED
    BY <1>3, <2>1 DEF Accounted
<1>8. \A d \in x.todo : d.again <=> x.cur.again
  BY <1>1, <1>3 DEF StateOK
<1>9. \A d \in x.todo \cup {c} : CandidateOK(d)
  BY <1>1 DEF StateOK
<1>10. StateOK(x)
  BY <1>1, <1>5, <1>7, <1>8, <1>9 DEF StateOK
<1> HIDE DEF x
<1> QED
  BY <1>3, <1>4, <1>6, <1>10, ExecutorStep

LEMMA WriteFailsKeeps ==
    ASSUME EInv, NEW e \in Executors, WriteFails(e)
    PROVE  EInv'
<1> DEFINE x == [pc |-> "failing", bucket |-> ex[e].bucket, todo |-> ex[e].todo,
                 cur |-> ex[e].cur, plan |-> Null, status |-> ex[e].status,
                 listed |-> ex[e].listed]
<1>1. ex[e] \in ExecutorState /\ StateOK(ex[e])
  BY ExecutorFacts
<1>2. /\ ex[e].pc = "writing" /\ ex' = [ex EXCEPT ![e].pc = "failing", ![e].plan = Null]
      /\ UNCHANGED <<s3, body, db, forged>>
  BY DEF WriteFails
<1>3. ex' = [ex EXCEPT ![e] = x]
  <2>1. x = [ex[e] EXCEPT !.pc = "failing", !.plan = Null]
    BY <1>1, WriteFailed
  <2>2. DOMAIN ex = Executors
    BY DEF EInv, TypeOK
  <2>3. ex' = [ex EXCEPT ![e] = [ex[e] EXCEPT !.pc = "failing", !.plan = Null]]
    BY <1>2, <2>2
  <2> QED
    BY <2>1, <2>3
<1>4. x \in ExecutorState
  BY <1>1 DEF ExecutorState
<1>5. ASSUME NEW o \in x.listed, x.status # "partial"
      PROVE  Accounted(x, o)
  <2>1. Accounted(ex[e], o)
    BY <1>1, <1>2, <1>5 DEF StateOK
  <2> QED
    BY <1>2, <2>1 DEF Accounted
<1>6. StateOK(x)
  BY <1>1, <1>2, <1>5 DEF StateOK
<1> HIDE DEF x
<1> QED
  BY <1>2, <1>3, <1>4, <1>6, ExecutorStep

LEMMA FindDuplicatesKeeps ==
    ASSUME EInv, NEW e \in Executors, FindDuplicates(e)
    PROVE  EInv'
<1> DEFINE stale == {o \in Recorded : Stale(o) /\ Bucket[KeyOf(o)] = ex[e].bucket}
           again == {Candidate(o, rec[o], TRUE) : o \in stale}
           x == [pc |-> "duplicates", bucket |-> ex[e].bucket, todo |-> again,
                 cur |-> ex[e].cur, plan |-> ex[e].plan, status |-> ex[e].status,
                 listed |-> ex[e].listed]
<1>1. ex[e] \in ExecutorState /\ StateOK(ex[e])
  BY ExecutorFacts
<1>2. /\ ex[e].pc = "syncing" /\ ex[e].todo = {}
      /\ ex' = [ex EXCEPT ![e].pc = "duplicates", ![e].todo = again]
      /\ UNCHANGED <<s3, body, db, forged>>
  BY DEF FindDuplicates
<1>3. ex' = [ex EXCEPT ![e] = x]
  <2>1. x = [ex[e] EXCEPT !.pc = "duplicates", !.todo = again]
    BY <1>1, DuplicatesFound
  <2>2. DOMAIN ex = Executors
    BY DEF EInv, TypeOK
  <2>3. ex' = [ex EXCEPT ![e] = [ex[e] EXCEPT !.pc = "duplicates", !.todo = again]]
    BY <1>2, <2>2
  <2> QED
    BY <2>1, <2>3
<1>4. ASSUME NEW c \in again
      PROVE  c \in Candidates /\ CandidateOK(c) /\ c.again
  <2>1. PICK o \in Recorded : Stale(o) /\ c = Candidate(o, rec[o], TRUE)
    BY <1>4
  <2>2. /\ o \in Objects /\ rec[o] \in ObjectRecord /\ o \in Uploaded
        /\ rec[o].status = "duplicate" /\ ~rec[o].info.stored
    BY <2>1 DEF EInv, TypeOK, RecordsOK, Recorded, Stale, HasStatus
  <2> QED
    BY <2>1, <2>2 DEF Candidate, Candidates, CandidateOK
<1> HIDE DEF again
<1>5. x \in ExecutorState
  BY <1>1, <1>4 DEF ExecutorState
<1>6. ASSUME NEW o \in x.listed, x.status # "partial"
      PROVE  Accounted(x, o)
  <2>1. Accounted(ex[e], o)
    BY <1>1, <1>2, <1>6 DEF StateOK
  <2> QED
    BY <1>2, <2>1 DEF Accounted
<1>7. StateOK(x)
  BY <1>4, <1>6 DEF StateOK
<1> HIDE DEF x
<1> QED
  BY <1>2, <1>3, <1>5, <1>7, ExecutorStep

LEMMA StartSyncKeeps ==
    ASSUME EInv, NEW e \in Executors, NEW b \in Buckets, NEW ks \in SUBSET Keys,
           StartSync(e, b, ks)
    PROVE  EInv'
<1> DEFINE firsts == {Head(s3[k]) : k \in {k \in ks : s3[k] # <<>>}}
           new == {o \in firsts : rec[o] = Null \/ Retried(rec[o].status)}
           todo == {Candidate(o, rec[o], FALSE) : o \in new}
<1>1. PICK status \in {"unchanged", "success", "partial"} :
          ex' = [ex EXCEPT ![e] = [Idle EXCEPT !.pc = "syncing", !.bucket = b,
                     !.listed = firsts, !.todo = todo, !.status = status]]
  BY DEF StartSync
<1>2. UNCHANGED <<s3, body, db, forged>>
  BY DEF StartSync
<1>3. firsts \subseteq Uploaded /\ firsts \subseteq Objects
  <2>1. ASSUME NEW k \in Keys, s3[k] # <<>> PROVE Head(s3[k]) \in Uploaded
    <3>1. s3[k] \in Seq(Objects)
      BY DEF EInv, TypeOK
    <3>2. 1 \in DOMAIN s3[k] /\ Head(s3[k]) = s3[k][1]
      BY <2>1, <3>1
    <3> QED
      BY <3>2 DEF EInv, StoreOK
  <2> QED
    BY <2>1 DEF Uploaded
<1> HIDE DEF firsts
<1>4. ASSUME NEW c \in todo
      PROVE  c \in Candidates /\ CandidateOK(c) /\ ~c.again
  <2>1. PICK o \in new : c = Candidate(o, rec[o], FALSE)
    BY <1>4
  <2>2. o \in Objects /\ o \in Uploaded /\ rec[o] \in ObjectRecord \cup {Null}
    BY <1>3 DEF EInv, TypeOK
  <2>3. rec[o] # Null => rec[o].status = "error" /\ ~rec[o].info.stored
    BY <2>2 DEF EInv, RecordsOK, Recorded, Retried
  <2> QED
    BY <2>1, <2>2, <2>3 DEF Candidate, Candidates, CandidateOK
<1>5. ASSUME NEW o \in firsts, ~Settled(o) PROVE \E c \in todo : c.o = o /\ ~c.again
  <2>1. o \in new
    BY <1>5 DEF Settled, Retried
  <2>2. Candidate(o, rec[o], FALSE) \in todo
    BY <2>1
  <2> QED
    BY <2>2 DEF Candidate
<1> HIDE DEF todo
<1> DEFINE x == [pc |-> "syncing", bucket |-> b, todo |-> todo, cur |-> Null, plan |-> Null,
                 status |-> status, listed |-> firsts]
<1>6. ex' = [ex EXCEPT ![e] = x]
  <2>1. PICK y : y = [Idle EXCEPT !.pc = "syncing", !.bucket = b, !.listed = firsts,
                                  !.todo = todo, !.status = status]
    OBVIOUS
  <2>2. Idle \in ExecutorState
    BY IdleOK
  <2>3. Idle.cur = Null /\ Idle.plan = Null
    BY DEF Idle
  <2>4. y = x
    BY <2>1, <2>2, <2>3 DEF ExecutorState
  <2> HIDE DEF x
  <2> QED
    BY <1>1, <2>1, <2>4
<1>7. x \in ExecutorState
  BY <1>3, <1>4 DEF ExecutorState
<1>8. StateOK(x)
  BY <1>4, <1>5 DEF StateOK, Accounted
<1> HIDE DEF x
<1> QED
  BY <1>2, <1>6, <1>7, <1>8, ExecutorStep

-----------------------------------------------------------------------------
(* The steps that change a record.                                         *)

\* Whatever the guard lets pass, or a first record, takes no reason away.
LEMMA RecordReplaced ==
    ASSUME EInv, NEW o \in Uploaded, NEW new \in ObjectRecord,
           rec' = [rec EXCEPT ![o] = new], rec[o] = Null \/ GuardAllows(rec[o], new),
           UNCHANGED <<s3, body>>, session' \in Exports \cup {<<>>},
           IsPrefix(session, session'), documents \subseteq documents',
           versions \subseteq versions'
    PROVE  Lasting
<1>1. o \in Objects /\ DOMAIN rec = Objects /\ new # Null
  <2>1. Null \notin ObjectRecord
    BY EvidenceStoreAssumption, Zenon
  <2> QED
    BY <2>1 DEF Uploaded, EInv, TypeOK
<1>2. rec'[o] = new /\ \A p \in Objects \ {o} : rec'[p] = rec[p]
  BY <1>1
<1>3. HasStatus(o, {"ingested", "erased"}) => new.status = "erased" /\ new.info = rec[o].info
  BY DEF GuardAllows, HasStatus
<1>4. Settled(o) => new.status # "error"
  BY DEF GuardAllows, Settled
<1>5. \A b \in Backing : b \in Backing' /\ rec'[b].info = rec[b].info
  <2>1. SUFFICES ASSUME NEW b \in Backing
                 PROVE  b \in Backing' /\ rec'[b].info = rec[b].info
    OBVIOUS
  <2>2. b \in Objects /\ KindOf(b)' = KindOf(b)
    BY DEF Backing, Recorded, KindOf, KeyOf
  <2>3. CASE b = o
    <3>1. HasStatus(o, {"ingested", "erased"}) /\ rec[o].info.stored
      BY <2>3 DEF Backing, Recorded, HasStatus
    <3> QED
      BY <1>1, <1>2, <1>3, <2>2, <2>3, <3>1 DEF Backing, Recorded
  <2>4. CASE b # o
    BY <1>2, <2>2, <2>4 DEF Backing, Recorded
  <2> QED
    BY <2>3, <2>4
<1>6. \A p \in Objects : Settled(p) => Settled(p)'
  BY <1>1, <1>2, <1>4 DEF Settled
<1>7. \A p \in Objects :
         HasStatus(p, {"ingested", "erased"}) => HasStatus(p, {"ingested", "erased"})'
  BY <1>1, <1>2, <1>3 DEF HasStatus
<1> QED
  BY <1>5, <1>6, <1>7 DEF Lasting, InStore, Uploaded, KeyOf

\* A step that gives one version a record keeps the invariant when the new record
\* has its reason, and accounts for what the step imports.
LEMMA RecordKeeps ==
    ASSUME EInv, Lasting, NEW o \in Uploaded, NEW new \in ObjectRecord,
           rec' = [rec EXCEPT ![o] = new], UNCHANGED <<s3, body, held>>,
           new.info.stored => new.status \in {"ingested", "erased"},
           new.status = "erased" => ~InStore(o),
           "non_conforming" \in {new.status, new.was} => ContentOf(o) = Bare,
           DOMAIN stored' = Objects, \A p \in Objects \ {o} : stored'[p] = stored[p],
           stored'[o] = stored[o] \/ o \in Backing',
           \A p \in documents' :
               p \in documents \/ (p = o /\ new.status \in {"ingested", "erased"}),
           \A p \in versions' :
               \/ p \in versions
               \/ /\ p = o /\ KindOf(o) = "log" /\ ContentOf(o) \in Exports
                  /\ IsPrefix(ContentOf(o), session'),
           forged \subseteq forged', forged' \subseteq forged \cup {o},
           o \in forged' \/ Genuine(o)',
           ex' \in [Executors -> ExecutorState], ExecutorsOK'
    PROVE  EInv'
<1>1. /\ o \in Objects /\ rec'[o] = new /\ new # Null
      /\ \A p \in Objects \ {o} : rec'[p] = rec[p]
  <2>1. Null \notin ObjectRecord
    BY EvidenceStoreAssumption, Zenon
  <2> QED
    BY <2>1 DEF EInv, TypeOK, Uploaded
<1>2. /\ Recorded' = Recorded \cup {o} /\ Recorded \subseteq Uploaded
      /\ Uploaded' = Uploaded
  BY <1>1 DEF Recorded, Uploaded, EInv, RecordsOK
<1>3. TypeOK'
  <2>1. rec' \in [Objects -> ObjectRecord \cup {Null}]
    BY <1>1 DEF EInv, TypeOK
  <2>2. documents' \subseteq Objects /\ versions' \subseteq Objects
    BY <1>1 DEF EInv, TypeOK
  <2>3. forged' \subseteq Recorded'
    BY <1>2 DEF EInv, TypeOK
  <2>4. session' \in Exports \cup {<<>>}
    BY DEF Lasting
  <2> QED
    BY <2>1, <2>2, <2>3, <2>4 DEF EInv, TypeOK, Uploaded, KeyOf, KindOf, ContentOf
<1>4. RecordsOK'
  <2>1. \A p \in Uploaded : ContentOf(p)' = ContentOf(p) /\ (InStore(p)' => InStore(p))
    BY UploadedLasts DEF Lasting
  <2>2. SUFFICES ASSUME NEW p \in Recorded'
                 PROVE  /\ p \in Uploaded'
                        /\ rec'[p].info.stored => rec'[p].status \in {"ingested", "erased"}
                        /\ rec'[p].status = "erased" => ~InStore(p)'
                        /\ "non_conforming" \in {rec'[p].status, rec'[p].was} =>
                              ContentOf(p)' = Bare
    BY DEF RecordsOK
  <2>3. CASE p = o
    BY <1>1, <1>2, <2>1, <2>3
  <2>4. CASE p # o
    <3>1. p \in Recorded /\ p \in Uploaded /\ rec'[p] = rec[p]
      BY <1>1, <1>2, <2>4 DEF Recorded
    <3> QED
      BY <1>2, <2>1, <3>1 DEF EInv, RecordsOK
  <2> QED
    BY <2>3, <2>4
<1>5. ContentOK'
  <2>1. ASSUME NEW p \in Objects, stored'[p] # {}
        PROVE  p \in Backing'
    BY <2>1 DEF EInv, ContentOK, Lasting
  <2>2. ASSUME NEW p \in documents'
        PROVE  HasStatus(p, {"ingested", "erased"})'
    <3>1. CASE p \in documents
      BY <3>1 DEF EInv, ContentOK, TypeOK, Lasting
    <3>2. CASE p = o /\ new.status \in {"ingested", "erased"}
      BY <1>1, <3>2 DEF HasStatus
    <3> QED
      BY <3>1, <3>2
  <2>3. ASSUME NEW p \in versions'
        PROVE  /\ p \in Uploaded' /\ KindOf(p)' = "log" /\ ContentOf(p)' \in Exports
               /\ IsPrefix(ContentOf(p), session)'
    <3>1. /\ p \in Uploaded /\ KindOf(p) = "log" /\ ContentOf(p) \in Exports
          /\ IsPrefix(ContentOf(p), session')
      <4>1. CASE p \in versions
        <5>1. /\ p \in Uploaded /\ KindOf(p) = "log" /\ ContentOf(p) \in Exports
              /\ IsPrefix(ContentOf(p), session)
          BY <4>1 DEF EInv, ContentOK
        <5> QED
          BY <5>1, SessionsAreSequences, PrefixTransitive DEF EInv, TypeOK, Lasting
      <4>2. CASE p \notin versions
        BY <2>3, <4>2
      <4> QED
        BY <4>1, <4>2
    <3> QED
      BY <3>1, UploadedLasts
  <2> QED
    BY <2>1, <2>2, <2>3 DEF ContentOK
<1>6. GenuineOK'
  <2>1. SUFFICES ASSUME NEW p \in Recorded' \ forged'
                 PROVE  Genuine(p)'
    BY DEF GenuineOK
  <2>2. CASE p # o
    <3>1. p \in Recorded \ forged /\ p \in Uploaded /\ p \in Objects
      BY <1>2, <2>2 DEF Recorded
    <3>2. rec'[p] = rec[p] /\ stored'[p] = stored[p] /\ Genuine(p) /\ TypeOK
      BY <1>1, <2>2, <3>1 DEF EInv, GenuineOK
    <3> QED
      BY <3>1, <3>2, GenuineLasts
  <2> QED
    BY <2>2
<1> QED
  BY <1>2, <1>3, <1>4, <1>5, <1>6 DEF EInv, StoreOK

\* The executor goes on: what it wrote last is settled, or the run is partial.
LEMMA ProceedKeeps ==
    ASSUME EInv, Lasting, NEW e \in Executors, NEW outcome, NEW o,
           ex[e].pc \in {"writing", "overtaken", "failing"}, o = ex[e].cur.o,
           Proceed(e, outcome),
           outcome \notin {"rejected", "non_conforming", "too_large", "error"} => Settled(o)'
    PROVE  ex' \in [Executors -> ExecutorState] /\ ExecutorsOK'
<1>1. /\ ex \in [Executors -> ExecutorState] /\ ex[e] \in ExecutorState /\ StateOK(ex[e])
      /\ \A f \in Executors : StateOK(ex[f])
  BY ExecutorFacts DEF EInv, TypeOK, ExecutorsOK
<1>2. ASSUME NEW y \in ExecutorState, ex' = [ex EXCEPT ![e] = y], StateOK(y)'
      PROVE  ex' \in [Executors -> ExecutorState] /\ ExecutorsOK'
  <2>1. /\ ex' \in [Executors -> ExecutorState] /\ ex'[e] = y
        /\ \A f \in Executors \ {e} : ex'[f] = ex[f]
    BY <1>1, <1>2
  <2>2. StateOK(ex[e])'
    BY <1>2, <2>1 DEF StateOK, Accounted
  <2>3. \A f \in Executors \ {e} : StateOK(ex[f])'
    BY <1>1, <2>1, ExecutorLasts DEF EInv
  <2> QED
    BY <2>1, <2>2, <2>3 DEF ExecutorsOK
<1>3. CASE ex[e].pc = "overtaken"
  <2>1. ex' = [ex EXCEPT ![e] = Idle]
    BY <1>1, <1>3 DEF Proceed
  <2>2. Idle.listed \subseteq Objects
    BY IdleOK DEF ExecutorState
  <2>3. StateOK(Idle)'
    BY DEF Idle, StateOK
  <2> QED
    BY <1>2, <2>1, <2>3, IdleOK
<1>4. CASE ex[e].pc \in {"writing", "failing"}
  <2>1. PICK status : status = Worse(ex[e].status, outcome)
    OBVIOUS
  <2>2. PICK pc : pc = IF ex[e].cur.again THEN "duplicates" ELSE "syncing"
    OBVIOUS
  <2>3. PICK z : z = ex[e]
    OBVIOUS
  <2> DEFINE y == [pc |-> pc, bucket |-> z.bucket, todo |-> z.todo, cur |-> Null,
                   plan |-> Null, status |-> status, listed |-> z.listed]
  <2>4. ex' = [ex EXCEPT ![e] = y]
    <3>1. PICK w : w = [z EXCEPT !.status = status, !.cur = Null, !.plan = Null, !.pc = pc]
      OBVIOUS
    <3>2. ex' = [ex EXCEPT ![e] = w]
      BY <1>1, <1>4, <2>1, <2>2, <2>3, <3>1 DEF Proceed
    <3>3. z \in ExecutorState
      BY <1>1, <2>3
    <3>4. w = y
      BY <3>1, <3>3 DEF ExecutorState
    <3> HIDE DEF y
    <3> QED
      BY <3>2, <3>4
  <2>5. y \in ExecutorState
    BY <1>1, <2>1, <2>2, <2>3 DEF ExecutorState, Worse
  <2>6. \A c \in z.todo : CandidateOK(c)' /\ (c.again <=> z.cur.again)
    <3>1. \A c \in z.todo : CandidateOK(c) /\ (c.again <=> z.cur.again)
      BY <1>1, <1>4, <2>3 DEF StateOK
    <3> QED
      BY <3>1, CandidateLasts
  <2>7. ASSUME NEW p \in z.listed, status # "partial"
        PROVE  Accounted(y, p)'
    <3>1. /\ p \in Objects /\ Accounted(z, p)
          /\ outcome \notin {"rejected", "non_conforming", "too_large", "error"}
      BY <1>1, <1>4, <2>1, <2>3, <2>7 DEF StateOK, ExecutorState, Worse
    <3>2. CASE Settled(p) \/ p = o
      <4>1. Settled(p)'
        BY <3>1, <3>2 DEF Lasting
      <4> QED
        BY <4>1 DEF Accounted
    <3>3. CASE \E c \in z.todo : c.o = p /\ ~c.again
      BY <3>3 DEF Accounted
    <3> QED
      BY <2>3, <3>1, <3>2, <3>3 DEF Accounted
  <2>8. StateOK(y)'
    BY <2>2, <2>3, <2>6, <2>7 DEF StateOK
  <2> HIDE DEF y
  <2> QED
    BY <1>2, <2>4, <2>5, <2>8
<1> QED
  BY <1>3, <1>4

\* What the body says of the entry that records it.
PentestEntry(o, new) ==
    /\ new.status = "ingested" =>
          new.info.stored /\ new.info.findings = ContentOf(o) /\ ContentOf(o) # {}
    /\ new.status = "duplicate" =>
          /\ new.info.of \in Holders /\ new.info.findings = ContentOf(o)
          /\ ContentOf(o) \in Findings \ {{}}
    /\ new.status = "unchanged" =>
          ContentOf(o) \in Findings /\ (ContentOf(o) = {} \/ Backed(ContentOf(o)))
    /\ new.status = "rejected" =>
          \/ ContentOf(o) = Malformed
          \/ ContentOf(o) \in Findings \ {{}} /\ Contradicted(ContentOf(o))

LogEntry(o, new) ==
    /\ new.status # "duplicate"
    /\ new.status \in {"ingested", "unchanged"} =>
          ContentOf(o) \in Exports /\ LogOutcome(ContentOf(o)) = new.status
    /\ new.status = "rejected" =>
          \/ ContentOf(o) = Malformed
          \/ ContentOf(o) \in Exports /\ LogOutcome(ContentOf(o)) = "rejected"

\* The entry the writing transaction gives a version is the one of its body.
LEMMA PlannedOK ==
    ASSUME EInv, NEW e \in Executors, ex[e].pc \in {"writing", "overtaken"},
           NEW o, o = ex[e].cur.o, NEW new, new = Planned(e)
    PROVE  /\ o \in Uploaded /\ new \in ObjectRecord /\ new.was = Null
           /\ new.status \notin {"error", "acknowledged", "erased"}
           /\ new.info.stored => new.status = "ingested" /\ KindOf(o) = "pentest"
           /\ new.status = "non_conforming" => ContentOf(o) = Bare
           /\ new.status = "too_large" => ContentOf(o) = Large
           /\ KindOf(o) = "pentest" => PentestEntry(o, new)
           /\ KindOf(o) = "log" => LogEntry(o, new)
           /\ KindOf(o) = "document" => new.status \notin {"unchanged", "duplicate", "rejected"}
<1>1. PICK c : c = ex[e].cur
  OBVIOUS
<1>2. PICK plan : plan = ex[e].plan
  OBVIOUS
<1>3. /\ c \in Candidates /\ CandidateOK(c) /\ c.o = o /\ o \in Uploaded
      /\ plan \in Plans /\ PlanOK(o, plan)
  BY <1>1, <1>2, ExecutorFacts DEF StateOK, CandidateOK
<1> DEFINE x == ContentOf(o)
           attempts == IF c.known = Null THEN 0 ELSE c.known.attempts
           kept == IF c.known = Null THEN NoInfo ELSE c.known.info
           Infos == [findings: Findings \cup {Null}, of: Holders \cup {Null}, stored: BOOLEAN]
<1>4. /\ attempts \in Nat /\ kept \in Infos /\ ~kept.stored /\ NoInfo \in Infos
      /\ ~NoInfo.stored
  <2>1. NoInfo \in Infos /\ ~NoInfo.stored
    BY DEF NoInfo, Info
  <2>2. c.known # Null => c.known \in ObjectRecord /\ ~c.known.info.stored
    BY <1>3 DEF Candidates, CandidateOK
  <2> QED
    BY <2>1, <2>2 DEF ObjectRecord
<1>5. new = IF plan.outcome = "fetched" THEN Entry(FetchedStatus(o), attempts, kept)
            ELSE IF plan.outcome = "conflict" THEN Entry("rejected", 0, kept)
            ELSE IF KindOf(o) = "log" THEN Entry(LogOutcome(x), attempts, kept)
            ELSE IF KindOf(o) = "document" THEN Entry("ingested", attempts, kept)
            ELSE IF plan.outcome = "import"
                 THEN Entry("ingested", attempts, Info(x, Null, TRUE))
            ELSE IF plan.outcome = "duplicate"
                 THEN Entry("duplicate", attempts, Info(x, plan.of, FALSE))
            ELSE Entry("unchanged", attempts, NoInfo)
  BY <1>1, <1>2 DEF Planned
<1>6. ASSUME NEW status \in RecordStatuses, NEW n \in Nat, NEW info \in Infos
      PROVE  /\ Entry(status, n, info) \in ObjectRecord
             /\ Entry(status, n, info).status = status
             /\ Entry(status, n, info).info = info /\ Entry(status, n, info).was = Null
  BY DEF Entry, ObjectRecord
<1>7. LogOutcome(x) \in {"ingested", "unchanged", "rejected"}
  BY DEF LogOutcome
<1>8. Null \notin RecordStatuses
  BY EvidenceStoreAssumption, Zenon
<1>9. /\ KindOf(o) \in {"pentest", "log", "document"}
      /\ FetchedStatus(o) = Null => ContentOf(o) \notin Unusable
      /\ FetchedStatus(o) = Null /\ KindOf(o) = "pentest" => ContentOf(o) \in Findings
      /\ FetchedStatus(o) = Null /\ KindOf(o) = "log" => ContentOf(o) \in Exports
      /\ KindOf(o) = "document" => FetchedStatus(o) # "rejected"
      /\ FetchedStatus(o) \in {Null, "non_conforming", "too_large", "rejected"}
      /\ FetchedStatus(o) = "non_conforming" => ContentOf(o) = Bare
      /\ FetchedStatus(o) = "too_large" => ContentOf(o) = Large
      /\ FetchedStatus(o) = "rejected" => ContentOf(o) = Malformed
  BY <1>3, Fetched
<1> HIDE DEF attempts, kept, Infos
<1>10. CASE plan.outcome = "fetched"
  <2>1. FetchedStatus(o) \in RecordStatuses
    BY <1>3, <1>9, <1>10 DEF PlanOK, RecordStatuses
  <2>2. new = Entry(FetchedStatus(o), attempts, kept)
    BY <1>5, <1>10
  <2>3. new \in ObjectRecord /\ new.status = FetchedStatus(o) /\ new.info = kept /\ new.was = Null
    BY <1>4, <1>6, <2>1, <2>2
  <2>4. new.status \in {"non_conforming", "too_large", "rejected"}
    BY <1>8, <1>9, <2>1, <2>3
  <2> QED
    BY <1>3, <1>4, <1>9, <2>3, <2>4 DEF PentestEntry, LogEntry
<1>11. CASE plan.outcome = "conflict"
  <2>1. KindOf(o) = "pentest" /\ x \in Findings \ {{}} /\ Contradicted(x)
    BY <1>3, <1>9, <1>11 DEF PlanOK
  <2>2. new = Entry("rejected", 0, kept)
    BY <1>5, <1>11
  <2>3. new \in ObjectRecord /\ new.status = "rejected" /\ new.info = kept /\ new.was = Null
    BY <1>4, <1>6, <2>2 DEF RecordStatuses
  <2> QED
    BY <1>3, <1>4, <2>1, <2>3 DEF PentestEntry, LogEntry
<1>12. CASE plan.outcome \notin {"fetched", "conflict"} /\ KindOf(o) = "log"
  <2>1. x \in Exports
    BY <1>3, <1>9, <1>12 DEF PlanOK
  <2>2. new = Entry(LogOutcome(x), attempts, kept)
    BY <1>5, <1>12
  <2>3. /\ new \in ObjectRecord /\ new.status = LogOutcome(x) /\ new.info = kept
        /\ new.was = Null
    BY <1>4, <1>6, <1>7, <2>2 DEF RecordStatuses
  <2> QED
    BY <1>3, <1>4, <1>7, <1>12, <2>1, <2>3 DEF PentestEntry, LogEntry
<1>13. CASE plan.outcome \notin {"fetched", "conflict"} /\ KindOf(o) = "document"
  <2>1. new = Entry("ingested", attempts, kept)
    BY <1>5, <1>13
  <2>2. new \in ObjectRecord /\ new.status = "ingested" /\ new.info = kept /\ new.was = Null
    BY <1>4, <1>6, <2>1 DEF RecordStatuses
  <2> QED
    BY <1>3, <1>4, <1>13, <2>2
<1>14. CASE plan.outcome \notin {"fetched", "conflict"} /\ KindOf(o) = "pentest"
  <2>1. /\ x \in Findings
        /\ plan.outcome = "unchanged" => x = {} \/ Backed(x)
        /\ plan.outcome = "duplicate" => x # {} /\ plan.of \in Holders
        /\ plan.outcome = "import" => x # {}
        /\ plan.outcome \in {"unchanged", "duplicate", "import"}
    BY <1>3, <1>9, <1>14 DEF PlanOK, Plans
  <2>2. CASE plan.outcome = "import"
    <3>1. PICK i : i = Info(x, Null, TRUE)
      OBVIOUS
    <3>2. i \in Infos /\ i.stored /\ i.findings = x
      BY <2>1, <3>1 DEF Info, Infos
    <3>3. new = Entry("ingested", attempts, i)
      BY <1>5, <1>14, <2>2, <3>1
    <3>4. new \in ObjectRecord /\ new.status = "ingested" /\ new.info = i /\ new.was = Null
      BY <1>4, <1>6, <3>2, <3>3 DEF RecordStatuses
    <3> QED
      BY <1>3, <1>14, <2>1, <2>2, <3>2, <3>4 DEF PentestEntry, LogEntry
  <2>3. CASE plan.outcome = "duplicate"
    <3>1. PICK i : i = Info(x, plan.of, FALSE)
      OBVIOUS
    <3>2. i \in Infos /\ ~i.stored /\ i.findings = x /\ i.of \in Holders
      BY <2>1, <2>3, <3>1 DEF Info, Infos
    <3>3. new = Entry("duplicate", attempts, i)
      BY <1>5, <1>14, <2>3, <3>1
    <3>4. new \in ObjectRecord /\ new.status = "duplicate" /\ new.info = i /\ new.was = Null
      BY <1>4, <1>6, <3>2, <3>3 DEF RecordStatuses
    <3> QED
      BY <1>3, <1>14, <2>1, <2>3, <3>2, <3>4 DEF PentestEntry, LogEntry
  <2>4. CASE plan.outcome = "unchanged"
    <3>1. new = Entry("unchanged", attempts, NoInfo)
      BY <1>5, <1>14, <2>4
    <3>2. /\ new \in ObjectRecord /\ new.status = "unchanged" /\ new.info = NoInfo
          /\ new.was = Null
      BY <1>4, <1>6, <3>1 DEF RecordStatuses
    <3> QED
      BY <1>3, <1>4, <1>14, <2>1, <2>4, <3>2 DEF PentestEntry, LogEntry
  <2> QED
    BY <2>1, <2>2, <2>3, <2>4
<1> QED
  BY <1>9, <1>10, <1>11, <1>12, <1>13, <1>14

\* What an import leaves in the session extends it.
LEMMA ImportExtends ==
    ASSUME EInv, NEW x \in Exports
    PROVE  /\ x \in Seq(Nat) /\ IsPrefix(x, x) /\ IsPrefix(session, session)
           /\ LogOutcome(x) = "ingested" => IsPrefix(session, x)
           /\ LogOutcome(x) = "unchanged" => session # <<>> /\ IsPrefix(x, session)
<1>1. x \in Seq(Nat) /\ session \in Seq(Nat)
  BY SessionsAreSequences DEF EInv, TypeOK
<1>2. session = <<>> => IsPrefix(session, x)
  <2>1. PICK s : s = session
    OBVIOUS
  <2>2. session = <<>> => s \in Seq(Nat) /\ Len(s) = 0 /\ Len(x) \in Nat
    BY <1>1, <2>1
  <2>3. session = <<>> => Len(s) <= Len(x) /\ \A i \in 1..Len(s) : s[i] = x[i]
    BY <2>2
  <2>4. session = <<>> => IsPrefix(s, x)
    BY <1>1, <2>2, <2>3, PrefixAt
  <2> QED
    BY <2>1, <2>4
<1> QED
  BY <1>1, <1>2, PrefixReflexive DEF LogOutcome, IsStrictPrefix

LEMMA WriteKeeps ==
    ASSUME EInv, NEW e \in Executors, Write(e)
    PROVE  EInv'
<1>1. PICK o : o = ex[e].cur.o
  OBVIOUS
<1>2. PICK new : new = Planned(e)
  OBVIOUS
<1> DEFINE x == ContentOf(o)
           imports == new.status = "ingested"
<1>3. /\ ex[e].pc \in {"writing", "overtaken"}
      /\ Writable(rec[o], ex[e].cur.known, new) /\ rec' = [rec EXCEPT ![o] = new]
      /\ stored' = IF imports /\ KindOf(o) = "pentest"
                   THEN [stored EXCEPT ![o] = x] ELSE stored
      /\ documents' = IF imports /\ KindOf(o) = "document"
                      THEN documents \cup {o} ELSE documents
      /\ IF imports /\ KindOf(o) = "log"
         THEN session' = x /\ versions' = versions \cup {o}
         ELSE UNCHANGED <<session, versions>>
      /\ Proceed(e, new.status)
      /\ UNCHANGED <<s3, body, held, faults, forged>>
  BY <1>1, <1>2 DEF Write
<1>4. /\ o \in Uploaded /\ new \in ObjectRecord /\ new.was = Null
      /\ new.status \notin {"error", "acknowledged", "erased"}
      /\ new.info.stored => imports /\ KindOf(o) = "pentest"
      /\ new.status = "non_conforming" => x = Bare
      /\ new.status = "too_large" => x = Large
  BY <1>1, <1>2, <1>3, PlannedOK
<1>5. KindOf(o) = "pentest" => PentestEntry(o, new)
  BY <1>1, <1>2, <1>3, PlannedOK
<1>6. KindOf(o) = "log" => LogEntry(o, new)
  BY <1>1, <1>2, <1>3, PlannedOK
<1>7. KindOf(o) = "document" => new.status \notin {"unchanged", "duplicate", "rejected"}
  BY <1>1, <1>2, <1>3, PlannedOK
<1>8. /\ Null \notin RecordStatuses /\ new # Null /\ o \in Objects
      /\ DOMAIN rec = Objects /\ DOMAIN stored = Objects
  <2>1. Null \notin RecordStatuses /\ Null \notin ObjectRecord
    BY EvidenceStoreAssumption, Zenon
  <2> QED
    BY <1>4, <2>1 DEF Uploaded, EInv, TypeOK
<1>9. rec'[o] = new /\ (rec[o] = Null \/ GuardAllows(rec[o], new))
  BY <1>3, <1>8 DEF Writable
<1>10. session' \in Exports \cup {<<>>} /\ IsPrefix(session, session')
  <2>1. CASE imports /\ KindOf(o) = "log"
    BY <1>3, <1>6, <2>1, ImportExtends DEF LogEntry
  <2>2. CASE ~(imports /\ KindOf(o) = "log")
    BY <1>3, <2>2, SessionsAreSequences, PrefixReflexive DEF EInv, TypeOK
  <2> QED
    BY <2>1, <2>2
<1>11. Lasting
  BY <1>3, <1>4, <1>9, <1>10, RecordReplaced
<1>12. ex' \in [Executors -> ExecutorState] /\ ExecutorsOK'
  <2>1. PICK outcome : outcome = new.status
    OBVIOUS
  <2>2. Settled(o)'
    BY <1>4, <1>8, <1>9 DEF Settled
  <2>3. Proceed(e, outcome)
    BY <1>3, <2>1
  <2>4. ex[e].pc \in {"writing", "overtaken", "failing"}
    BY <1>3
  <2> QED
    BY <1>1, <1>11, <2>2, <2>3, <2>4, ProceedKeeps
<1>13. o \in Uploaded' /\ KindOf(o)' = KindOf(o) /\ ContentOf(o)' = x
  BY <1>4, <1>11, UploadedLasts
<1>14. stored'[o] = IF imports /\ KindOf(o) = "pentest" THEN x ELSE stored[o]
  BY <1>3, <1>8
<1>15. stored'[o] = stored[o] \/ o \in Backing'
  <2>1. CASE imports /\ KindOf(o) = "pentest"
    BY <1>5, <1>8, <1>9, <1>13, <2>1 DEF Backing, Recorded, PentestEntry
  <2> QED
    BY <1>14, <2>1
<1>16. Genuine(o)'
  <2>1. PentestOK(o)' \/ KindOf(o) # "pentest"
    <3>1. /\ Backed(x) => Backed(ContentOf(o))'
          /\ Contradicted(x) => Contradicted(ContentOf(o))'
      BY <1>11, <1>13, BackedLasts DEF Backed, Contradicted
    <3> HIDE DEF x
    <3> QED
      BY <1>5, <1>9, <1>13, <3>1 DEF PentestOK, PentestEntry, x
  <2>2. LogOK(o)' \/ KindOf(o) # "log"
    <3>1. new.status = "ingested" /\ KindOf(o) = "log" => o \in versions'
      BY <1>3
    <3>2. new.status = "unchanged" /\ KindOf(o) = "log" =>
              x \in Exports /\ session' # <<>> /\ IsPrefix(x, session')
      BY <1>3, <1>6, ImportExtends DEF LogEntry
    <3>3. new.status = "rejected" /\ KindOf(o) = "log" =>
              x = Malformed \/ (x \in Exports /\ LogOutcome(ContentOf(o))' = "rejected")
      <4>1. new.status # "ingested" => session' = session
        BY <1>3
      <4> QED
        BY <1>6, <1>13, <4>1 DEF LogOutcome, LogEntry
    <3> HIDE DEF x
    <3> QED
      BY <1>6, <1>9, <1>13, <3>1, <3>2, <3>3 DEF LogOK, LogEntry
  <2>3. DocumentOK(o)' \/ KindOf(o) # "document"
    BY <1>3, <1>7, <1>9 DEF DocumentOK
  <2>4. new.info.stored => stored'[o] = new.info.findings /\ stored'[o] # {}
    BY <1>4, <1>5, <1>14 DEF PentestEntry
  <2> QED
    BY <1>4, <1>9, <1>13, <2>1, <2>2, <2>3, <2>4 DEF Genuine
<1>17. /\ DOMAIN stored' = Objects
       /\ \A p \in Objects \ {o} : stored'[p] = stored[p]
       /\ \A p \in documents' : p \in documents \/ (p = o /\ imports)
       /\ forged' = forged
  <2>1. DOMAIN stored' = Objects /\ \A p \in Objects \ {o} : stored'[p] = stored[p]
    BY <1>3, <1>8
  <2>2. \A p \in documents' : p \in documents \/ (p = o /\ imports)
    BY <1>3
  <2>3. forged' = forged
    BY <1>3
  <2> QED
    BY <2>1, <2>2, <2>3
<1>18. \A p \in versions' :
          \/ p \in versions
          \/ p = o /\ KindOf(o) = "log" /\ x \in Exports /\ IsPrefix(x, session')
  BY <1>3, <1>6, ImportExtends DEF LogEntry
<1>19. /\ UNCHANGED <<s3, body, held>> /\ rec' = [rec EXCEPT ![o] = new]
       /\ new.info.stored => new.status \in {"ingested", "erased"}
       /\ new.status = "erased" => ~InStore(o)
       /\ "non_conforming" \in {new.status, new.was} => ContentOf(o) = Bare
  <2>1. Null # "non_conforming"
    BY <1>8 DEF RecordStatuses
  <2> QED
    BY <1>3, <1>4, <2>1
<1> HIDE DEF x
<1> QED
  BY <1>4, <1>11, <1>12, <1>15, <1>16, <1>17, <1>18, <1>19, RecordKeeps DEF x

LEMMA RecordFailureKeeps ==
    ASSUME EInv, NEW e \in Executors, RecordFailure(e)
    PROVE  EInv'
<1>1. PICK o : o = ex[e].cur.o
  OBVIOUS
<1>2. PICK c : c = ex[e].cur
  OBVIOUS
<1>3. PICK new : new = FailedAttempt(e)
  OBVIOUS
<1>4. /\ ex[e].pc = "failing" /\ c \in Candidates /\ CandidateOK(c) /\ o \in Uploaded
      /\ o = c.o
  BY <1>1, <1>2, ExecutorFacts DEF RecordFailure, StateOK, CandidateOK
<1>5. /\ rec' = IF ~c.again /\ Writable(rec[o], c.known, new)
                THEN [rec EXCEPT ![o] = new] ELSE rec
      /\ Proceed(e, "error")
      /\ UNCHANGED <<s3, body, held, stored, session, versions, documents, faults, forged>>
  BY <1>1, <1>2, <1>3 DEF RecordFailure
<1>6. IsPrefix(session, session') /\ session' \in Exports \cup {<<>>}
  BY <1>5, SessionsAreSequences, PrefixReflexive DEF EInv, TypeOK
<1>7. CASE rec' = rec
  <2>1. Lasting
    BY <1>5, <1>7, QuietLasts DEF EInv
  <2>2. ex' \in [Executors -> ExecutorState] /\ ExecutorsOK'
    BY <1>1, <1>4, <1>5, <2>1, ProceedKeeps
  <2>3. RecordsOK' /\ ContentOK' /\ GenuineOK'
    BY <1>5, <1>7, <2>1, RecordsLast
  <2>4. TypeOK'
    BY <1>5, <1>7, <2>2 DEF EInv, TypeOK, Uploaded, KeyOf, KindOf, ContentOf, Recorded
  <2> QED
    BY <1>5, <2>2, <2>3, <2>4 DEF EInv, StoreOK, Uploaded
<1>8. CASE rec' = [rec EXCEPT ![o] = new] /\ Writable(rec[o], c.known, new)
  <2>1. /\ new \in ObjectRecord /\ ~new.info.stored /\ new.status = "error"
        /\ new.was = Null
    <3> DEFINE attempts == IF c.known = Null THEN 1 ELSE Min({c.known.attempts + 1, AttemptBound})
               info == IF c.known = Null THEN NoInfo ELSE c.known.info
    <3>1. new = Entry("error", attempts, info)
      BY <1>2, <1>3 DEF FailedAttempt
    <3>2. c.known # Null => c.known \in ObjectRecord /\ ~c.known.info.stored
      BY <1>4 DEF Candidates, CandidateOK
    <3>3. attempts \in Nat
      <4>1. AttemptBound \in Nat
        BY EvidenceStoreAssumption, Zenon
      <4>2. ASSUME NEW n \in Nat PROVE Min({n + 1, AttemptBound}) \in Nat
        BY <4>1 DEF Min
      <4> QED
        BY <3>2, <4>2 DEF ObjectRecord
    <3>4. /\ info \in [findings: Findings \cup {Null}, of: Holders \cup {Null},
                       stored: BOOLEAN]
          /\ ~info.stored
      BY <3>2 DEF ObjectRecord, NoInfo, Info
    <3> HIDE DEF attempts, info
    <3> QED
      BY <3>1, <3>3, <3>4 DEF Entry, ObjectRecord, RecordStatuses
  <2>2. /\ Null # "non_conforming" /\ new # Null /\ o \in Objects
        /\ DOMAIN rec = Objects /\ DOMAIN stored = Objects
    <3>1. Null \notin RecordStatuses /\ Null \notin ObjectRecord
      BY EvidenceStoreAssumption, Zenon
    <3> QED
      BY <1>4, <2>1, <3>1 DEF Uploaded, EInv, TypeOK, RecordStatuses
  <2>3. rec'[o] = new /\ (rec[o] = Null \/ GuardAllows(rec[o], new))
    BY <1>8, <2>2 DEF Writable
  <2>4. Lasting
    BY <1>4, <1>5, <1>6, <1>8, <2>1, <2>3, RecordReplaced
  <2>5. ex' \in [Executors -> ExecutorState] /\ ExecutorsOK'
    BY <1>1, <1>4, <1>5, <2>4, ProceedKeeps
  <2>6. Genuine(o)'
    BY <2>1, <2>3 DEF Genuine, PentestOK, LogOK, DocumentOK
  <2>7. /\ new.info.stored => new.status \in {"ingested", "erased"}
        /\ new.status = "erased" => ~InStore(o)
        /\ "non_conforming" \in {new.status, new.was} => ContentOf(o) = Bare
    BY <2>1, <2>2
  <2>8. /\ DOMAIN stored' = Objects /\ \A p \in Objects \ {o} : stored'[p] = stored[p]
        /\ stored'[o] = stored[o] \/ o \in Backing'
        /\ UNCHANGED <<s3, body, held>>
    BY <1>5, <2>2
  <2>9. /\ \A p \in documents' :
              p \in documents \/ (p = o /\ new.status \in {"ingested", "erased"})
        /\ \A p \in versions' :
              \/ p \in versions
              \/ /\ p = o /\ KindOf(o) = "log" /\ ContentOf(o) \in Exports
                 /\ IsPrefix(ContentOf(o), session')
        /\ forged \subseteq forged' /\ forged' \subseteq forged \cup {o}
    BY <1>5
  <2> QED
    BY <1>4, <1>8, <2>1, <2>4, <2>5, <2>6, <2>7, <2>8, <2>9, RecordKeeps
<1> QED
  BY <1>5, <1>7, <1>8

\* A step outside the syncs that gives one version a record.
LEMMA SettledKeeps ==
    ASSUME EInv, NEW o \in Uploaded, NEW new \in ObjectRecord,
           rec' = [rec EXCEPT ![o] = new], rec[o] = Null \/ GuardAllows(rec[o], new),
           UNCHANGED <<s3, body, held, stored, session, versions, documents, ex>>,
           new.info.stored => new.status \in {"ingested", "erased"},
           new.status = "erased" => ~InStore(o),
           "non_conforming" \in {new.status, new.was} => ContentOf(o) = Bare,
           forged \subseteq forged', forged' \subseteq forged \cup {o},
           o \in forged' \/ Genuine(o)'
    PROVE  EInv'
<1>1. IsPrefix(session, session') /\ session' \in Exports \cup {<<>>}
  BY SessionsAreSequences, PrefixReflexive DEF EInv, TypeOK
<1>2. Lasting
  BY <1>1, RecordReplaced
<1>3. ex' \in [Executors -> ExecutorState] /\ ExecutorsOK'
  BY <1>2, ExecutorsLast DEF EInv, TypeOK
<1>4. /\ DOMAIN stored' = Objects /\ \A p \in Objects \ {o} : stored'[p] = stored[p]
      /\ stored'[o] = stored[o] \/ o \in Backing'
  BY DEF EInv, TypeOK
<1>5. /\ \A p \in documents' :
            p \in documents \/ (p = o /\ new.status \in {"ingested", "erased"})
      /\ \A p \in versions' :
            \/ p \in versions
            \/ /\ p = o /\ KindOf(o) = "log" /\ ContentOf(o) \in Exports
               /\ IsPrefix(ContentOf(o), session')
  OBVIOUS
<1> QED
  BY <1>2, <1>3, <1>4, <1>5, RecordKeeps

LEMMA RecordedFacts ==
    ASSUME EInv, NEW o \in Recorded
    PROVE  /\ o \in Uploaded /\ o \in Objects /\ rec[o] \in ObjectRecord
           /\ rec[o].info.stored => rec[o].status \in {"ingested", "erased"}
           /\ "non_conforming" \in {rec[o].status, rec[o].was} => ContentOf(o) = Bare
           /\ o \in forged \/ Genuine(o)
BY DEF EInv, TypeOK, RecordsOK, GenuineOK, Recorded

LEMMA RecordErasureKeeps ==
    ASSUME EInv, NEW o \in Objects, RecordErasure(o)
    PROVE  EInv'
<1>1. PICK r : r = rec[o]
  OBVIOUS
<1>2. PICK new : new = [r EXCEPT !.status = "erased"]
  OBVIOUS
<1>3. /\ o \in Recorded /\ ~InStore(o) /\ rec' = [rec EXCEPT ![o] = new]
      /\ GuardAllows(rec[o], new)
      /\ UNCHANGED <<s3, body, held, stored, session, versions, documents, ex, faults, forged>>
  BY <1>1, <1>2 DEF RecordErasure, Settle
<1>4. /\ o \in Uploaded /\ r \in ObjectRecord
      /\ "non_conforming" \in {r.status, r.was} => ContentOf(o) = Bare
      /\ o \in forged \/ Genuine(o)
  BY <1>1, <1>3, RecordedFacts
<1>5. /\ new \in ObjectRecord /\ new.status = "erased" /\ new.was = r.was
      /\ new.info = r.info
  <2>1. new = [status |-> "erased", attempts |-> r.attempts, was |-> r.was, info |-> r.info]
    BY <1>2, <1>4 DEF ObjectRecord
  <2> QED
    BY <1>4, <2>1 DEF ObjectRecord, RecordStatuses
<1>6. o \in forged' \/ Genuine(o)'
  <2>1. /\ rec'[o] = new /\ stored' = stored /\ KindOf(o)' = KindOf(o) /\ forged' = forged
    BY <1>3 DEF EInv, TypeOK, KindOf, KeyOf
  <2>2. Genuine(o) => Genuine(o)'
    BY <1>1, <1>5, <2>1 DEF Genuine, PentestOK, LogOK, DocumentOK
  <2> QED
    BY <1>4, <2>1, <2>2
<1>7. /\ "non_conforming" \in {new.status, new.was} => ContentOf(o) = Bare
      /\ forged' = forged
      /\ UNCHANGED <<s3, body, held, stored, session, versions, documents, ex>>
  BY <1>3, <1>4, <1>5
<1> QED
  BY <1>3, <1>4, <1>5, <1>6, <1>7, SettledKeeps

LEMMA AcknowledgeKeeps ==
    ASSUME EInv, NEW o \in Objects, Acknowledge(o)
    PROVE  EInv'
<1>1. PICK r : r = rec[o]
  OBVIOUS
<1>2. PICK new : new = [r EXCEPT !.status = "acknowledged", !.was = r.status]
  OBVIOUS
<1>3. /\ o \in Recorded /\ rec' = [rec EXCEPT ![o] = new]
      /\ r.status \in {"non_conforming", "error", "rejected", "too_large"}
      /\ GuardAllows(rec[o], new)
      /\ UNCHANGED <<s3, body, held, stored, session, versions, documents, ex, faults, forged>>
  BY <1>1, <1>2 DEF Acknowledge, Acknowledgeable, Settle
<1>4. /\ o \in Uploaded /\ r \in ObjectRecord /\ ~r.info.stored
      /\ "non_conforming" \in {r.status, r.was} => ContentOf(o) = Bare
  BY <1>1, <1>3, RecordedFacts
<1>5. /\ new \in ObjectRecord /\ new.status = "acknowledged" /\ new.was = r.status
      /\ new.info = r.info
  <2>1. new = [status |-> "acknowledged", attempts |-> r.attempts, was |-> r.status,
               info |-> r.info]
    BY <1>2, <1>4 DEF ObjectRecord
  <2> QED
    BY <1>4, <2>1 DEF ObjectRecord, RecordStatuses
<1>6. Genuine(o)'
  <2>1. rec'[o] = new
    BY <1>3 DEF EInv, TypeOK
  <2> QED
    BY <1>4, <1>5, <2>1 DEF Genuine, PentestOK, LogOK, DocumentOK
<1>7. /\ "non_conforming" \in {new.status, new.was} => ContentOf(o) = Bare
      /\ ~new.info.stored /\ forged' = forged
      /\ UNCHANGED <<s3, body, held, stored, session, versions, documents, ex>>
  BY <1>3, <1>4, <1>5
<1> QED
  BY <1>3, <1>4, <1>5, <1>6, <1>7, SettledKeeps

LEMMA ForgeKeeps ==
    ASSUME EInv, NEW o \in Objects, NEW status \in Statuses, NEW info,
           info \in [findings: Findings \cup {Null}, of: Holders \cup {Null}, stored: BOOLEAN],
           info.stored => status = "ingested", Forge(o, status, info)
    PROVE  EInv'
<1>1. PICK new : new = Entry(status, 0, info)
  OBVIOUS
<1>2. /\ o \in Uploaded /\ rec[o] = Null /\ rec' = [rec EXCEPT ![o] = new]
      /\ forged' = forged \cup {o}
      /\ UNCHANGED <<s3, body, held, stored, session, versions, documents, ex>>
  BY <1>1 DEF Forge
<1>3. /\ new \in ObjectRecord /\ new.status = status /\ new.was = Null
      /\ new.info = info
  BY <1>1 DEF Entry, ObjectRecord, Statuses, RecordStatuses
<1>4. /\ new.status \notin {"erased", "non_conforming"}
      /\ Null # "non_conforming"
  <2>1. Null \notin RecordStatuses
    BY EvidenceStoreAssumption, Zenon
  <2> QED
    BY <1>3, <2>1 DEF Statuses, RecordStatuses
<1> QED
  BY <1>2, <1>3, <1>4, SettledKeeps

-----------------------------------------------------------------------------
(* The invariant.                                                          *)

LEMMA InitHolds == Init => EInv
<1> SUFFICES ASSUME Init PROVE EInv
  OBVIOUS
<1>1. Uploaded = {} /\ Recorded = {}
  BY DEF Init, Uploaded, Recorded
<1>2. TypeOK
  BY <1>1, IdleOK DEF Init, TypeOK
<1>3. RecordsOK /\ GenuineOK /\ StoreOK
  BY <1>1 DEF Init, RecordsOK, GenuineOK, StoreOK
<1>4. ContentOK /\ ExecutorsOK
  BY <1>1, IdleOK DEF Init, ContentOK, ExecutorsOK
<1> QED
  BY <1>2, <1>3, <1>4 DEF EInv

LEMMA StepKeeps == EInv /\ [Next]_vars => EInv'
<1> SUFFICES ASSUME EInv, [Next]_vars PROVE EInv'
  OBVIOUS
<1>1. CASE World
  BY <1>1, UploadKeeps, EraseKeeps, HoldKeeps, SubmitKeeps DEF World
<1>2. CASE Administer
  <2>1. PICK o \in Objects :
           \/ RecordErasure(o) \/ Acknowledge(o)
           \/ \E status \in Statuses : Forge(o, status, NoInfo)
           \/ \E findings \in Findings, h \in Holders :
                 \/ Forge(o, "ingested", Info(findings, Null, TRUE))
                 \/ Forge(o, "duplicate", Info(findings, h, FALSE))
    BY <1>2 DEF Administer
  <2> DEFINE Infos == [findings: Findings \cup {Null}, of: Holders \cup {Null}, stored: BOOLEAN]
  <2>2. ASSUME NEW status \in Statuses, Forge(o, status, NoInfo) PROVE EInv'
    <3>1. NoInfo \in Infos /\ ~NoInfo.stored
      BY DEF NoInfo, Info
    <3>2. PICK i : i = NoInfo
      OBVIOUS
    <3> QED
      BY <2>2, <3>1, <3>2, ForgeKeeps
  <2>3. ASSUME NEW findings \in Findings, Forge(o, "ingested", Info(findings, Null, TRUE))
        PROVE  EInv'
    <3>1. PICK i : i = Info(findings, Null, TRUE)
      OBVIOUS
    <3>2. i \in Infos
      BY <3>1 DEF Info
    <3>3. "ingested" \in Statuses
      BY DEF Statuses
    <3> QED
      BY <2>3, <3>1, <3>2, <3>3, ForgeKeeps
  <2>4. ASSUME NEW findings \in Findings, NEW h \in Holders,
               Forge(o, "duplicate", Info(findings, h, FALSE))
        PROVE  EInv'
    <3>1. PICK i : i = Info(findings, h, FALSE)
      OBVIOUS
    <3>2. i \in Infos /\ ~i.stored
      BY <3>1 DEF Info
    <3>3. "duplicate" \in Statuses
      BY DEF Statuses
    <3> QED
      BY <2>4, <3>1, <3>2, <3>3, ForgeKeeps
  <2> QED
    BY <2>1, <2>2, <2>3, <2>4, RecordErasureKeeps, AcknowledgeKeeps
<1>3. CASE \E e \in Executors : Sync(e) \/ LoseLock(e) \/ Stop(e)
  <2>1. PICK e \in Executors : Sync(e) \/ LoseLock(e) \/ Stop(e)
    BY <1>3
  <2>2. CASE Sync(e)
    BY <2>2, StartSyncKeeps, ReadAndPlanKeeps, ReadFailsKeeps, WriteKeeps, WriteFailsKeeps,
       RecordFailureKeeps, FindDuplicatesKeeps, StopKeeps DEF Sync, Finish
  <2>3. CASE LoseLock(e)
    BY <2>3, LoseLockKeeps
  <2>4. CASE Stop(e)
    BY <2>4, StopKeeps DEF Stop
  <2> QED
    BY <2>1, <2>2, <2>3, <2>4
<1>4. CASE UNCHANGED vars
  <2>1. UNCHANGED <<s3, body, rec, held, stored, session, versions, documents, ex, forged>>
    BY <1>4 DEF vars
  <2>2. TypeOK'
    BY <2>1 DEF EInv, TypeOK, Uploaded, KeyOf, KindOf, ContentOf, Recorded
  <2>3. Lasting
    BY <2>1, QuietLasts DEF EInv
  <2> QED
    BY <2>1, <2>2, <2>3, RecordsLast, ExecutorsLast DEF EInv, StoreOK, Uploaded
<1> QED
  BY <1>1, <1>2, <1>3, <1>4 DEF Next

\* What holds of the store, its records and its executors in every state the code
\* of the syncs, the verification and the administrators' services can reach.
THEOREM Invariance == Spec => []EInv
BY InitHolds, StepKeeps, PTL DEF Spec

-----------------------------------------------------------------------------
(* What follows from it.                                                   *)

\* What plan_pentest gives for findings that some import has stored already.
LEMMA PlansOfBacked ==
    ASSUME NEW content
    PROVE  /\ content = {} \/ Backed(content) =>
                  \E p \in PentestPlans(content) : p.outcome = "unchanged"
           /\ content # {} /\ Contradicted(content) =>
                  \E p \in PentestPlans(content) : p.outcome = "conflict"
<1>1. CASE content = {}
  BY <1>1 DEF PentestPlans, Plan
<1>2. ASSUME NEW b \in Backing, content # {}
      PROVE  /\ rec[b].info.findings = content =>
                    \E p \in PentestPlans(content) : p.outcome = "unchanged"
             /\ rec[b].info.findings # content =>
                    \E p \in PentestPlans(content) : p.outcome = "conflict"
  <2>1. Plan(IF rec[b].info.findings = content THEN "unchanged" ELSE "conflict", Null)
            \in PentestPlans(content)
    BY <1>2 DEF PentestPlans
  <2> QED
    BY <2>1 DEF Plan
<1> QED
  BY <1>1, <1>2 DEF Backed, Contradicted

\* And what such a plan says, when it is made again.
LEMMA BackedByPlans ==
    ASSUME NEW content, NEW p \in PentestPlans(content),
           p.outcome \in {"unchanged", "conflict"}, content # {}
    PROVE  Backing # {}
<1> DEFINE same == {h \in Holders : held[h] = content}
<1> SUFFICES ASSUME Backing = {} PROVE FALSE
  OBVIOUS
<1>1. p \in IF same # {} THEN {Plan("duplicate", h) : h \in same} ELSE {Plan("import", Null)}
  BY DEF PentestPlans
<1> QED
  BY <1>1 DEF Plan

LEMMA GenuineHolds ==
    ASSUME EInv, NEW o \in Recorded, Genuine(o), InStore(o), ~Stale(o),
           rec[o].status # "non_conforming",
           \A p, q \in Objects : stored[p] # {} /\ stored[q] # {} => p = q
    PROVE  RecordHolds(o)
<1>1. /\ o \in Objects /\ o \in Uploaded /\ rec[o] \in ObjectRecord
      /\ rec[o].status # "erased"
      /\ rec[o].was = "non_conforming" => ContentOf(o) = Bare
  BY RecordedFacts DEF EInv, RecordsOK
<1>2. VersionHolds(o)
  BY <1>1 DEF VersionHolds
<1>3. CASE rec[o].status = "error"
  BY <1>3 DEF RecordHolds
<1>4. CASE rec[o].status = "acknowledged"
  BY <1>2, <1>4 DEF RecordHolds
<1>5. CASE rec[o].status \in {"ingested", "unchanged", "duplicate", "rejected", "too_large"}
  <2>1. KindOf(o) \in {"pentest", "log", "document"}
    BY <1>1, Fetched
  <2>2. rec[o].status = "too_large" => ContentOf(o) = Large
    BY DEF Genuine
  <2>3. CASE KindOf(o) = "pentest" /\ rec[o].status # "too_large"
    <3> SUFFICES PentestHolds(o)
      BY <1>2, <1>5, <2>3 DEF RecordHolds, OutcomeHolds
    <3>1. PentestOK(o)
      BY <2>3 DEF Genuine
    <3>2. CASE rec[o].status = "ingested"
      <4>1. rec[o].info.stored /\ stored[o] = rec[o].info.findings /\ stored[o] # {}
        BY <3>1, <3>2 DEF PentestOK, Genuine
      <4>2. \A other \in Objects \ {o} : stored[other] = {}
        BY <1>1, <4>1
      <4> QED
        BY <3>2, <4>1, <4>2 DEF PentestHolds
    <3>3. CASE rec[o].status = "duplicate"
      <4>1. /\ rec[o].info.of \in Holders /\ rec[o].info.findings = ContentOf(o)
            /\ ContentOf(o) \in Findings \ {{}}
        BY <3>1, <3>3 DEF PentestOK
      <4>2. held[rec[o].info.of] = rec[o].info.findings
        BY <3>3, <4>1 DEF Stale, HasStatus, Recorded
      <4> QED
        BY <3>3, <4>1, <4>2 DEF PentestHolds, DuplicateHolds
    <3>4. CASE rec[o].status = "unchanged"
      <4>1. ContentOf(o) \in Findings /\ PlansAgain(o, "unchanged")
        BY <3>1, <3>4, PlansOfBacked DEF PentestOK, PlansAgain
      <4> QED
        BY <3>4, <4>1 DEF PentestHolds
    <3>5. CASE rec[o].status = "rejected"
      <4>1. ContentOf(o) = Malformed \/ (ContentOf(o) \in Findings /\ PlansAgain(o, "conflict"))
        BY <3>1, <3>5, PlansOfBacked DEF PentestOK, PlansAgain
      <4> QED
        BY <3>5, <4>1 DEF PentestHolds
    <3> QED
      BY <1>5, <2>3, <3>2, <3>3, <3>4, <3>5
  <2>4. CASE KindOf(o) = "log" /\ rec[o].status # "too_large"
    <3>1. LogHolds(o)
      BY <1>5, <2>4 DEF Genuine, LogOK, LogHolds
    <3> QED
      BY <1>2, <1>5, <2>4, <3>1 DEF RecordHolds, OutcomeHolds
  <2>5. CASE KindOf(o) = "document" /\ rec[o].status # "too_large"
    <3>1. rec[o].status = "ingested" /\ o \in documents
      BY <1>5, <2>5 DEF Genuine, DocumentOK
    <3> QED
      BY <1>2, <2>5, <3>1 DEF RecordHolds, OutcomeHolds
  <2>6. CASE rec[o].status = "too_large"
    BY <1>2, <2>2, <2>6 DEF RecordHolds, OutcomeHolds
  <2> QED
    BY <2>1, <2>3, <2>4, <2>5, <2>6
<1> QED
  BY <1>1, <1>3, <1>4, <1>5 DEF ObjectRecord, RecordStatuses

LEMMA AlarmsAreTrue == EInv => NoFalseAlarm
<1> SUFFICES ASSUME EInv, forged = {},
                    \A o, p \in Objects : stored[o] # {} /\ stored[p] # {} => o = p
             PROVE  /\ ContentAccounted
                    /\ \A o \in Recorded :
                          \/ RecordHolds(o)
                          \/ rec[o].status = "non_conforming" \/ ~InStore(o) \/ Stale(o)
  BY DEF NoFalseAlarm
<1>1. ContentAccounted
  BY DEF EInv, ContentOK, ContentAccounted
<1>2. \A o \in Recorded : Genuine(o)
  BY DEF EInv, GenuineOK
<1> QED
  BY <1>1, <1>2, GenuineHolds

\* verify's report is trustworthy: of the records the syncs wrote, in whatever order
\* uploads, erasures, other imports, lost locks and repeated reads came, it fails only
\* those there is something to say of (non-conforming, gone, a stale duplicate).
THEOREM NoFalseAlarms == Spec => []NoFalseAlarm
BY Invariance, AlarmsAreTrue, PTL

LEMMA ForgeryShows == EInv => ForgeryFound
<1> SUFFICES ASSUME EInv, NEW o \in forged, forged = {o},
                    ~HasStatus(o, {"error", "acknowledged", "erased"}), RecordHolds(o),
                    ContentOf(o) \notin Unusable
             PROVE  CASE KindOf(o) = "document" -> o \in documents
                      [] KindOf(o) = "log" -> \/ IsPrefix(ContentOf(o), session)
                                              \/ LogOutcome(ContentOf(o)) = "rejected"
                      [] OTHER -> \/ ContentOf(o) = {}
                                  \/ \E h \in Holders : held[h] = ContentOf(o)
                                  \/ \E p \in Objects : stored[p] # {}
  BY DEF ForgeryFound, Preserved
<1>1. /\ o \in Recorded /\ o \in Objects /\ o \in Uploaded
      /\ rec[o].status \notin {"error", "acknowledged", "erased"}
  BY RecordedFacts DEF EInv, TypeOK, Recorded, HasStatus
<1>2. VersionHolds(o) /\ OutcomeHolds(o)
  BY <1>1 DEF RecordHolds
<1>3. ContentOf(o) # Large /\ ContentOf(o) # Malformed
  BY DEF Unusable
<1>4. rec[o].status # "too_large"
  BY <1>2, <1>3 DEF OutcomeHolds
<1>5. KindOf(o) \in {"pentest", "log", "document"}
  BY <1>1, Fetched
<1>6. CASE KindOf(o) = "document"
  BY <1>2, <1>4, <1>6 DEF OutcomeHolds
<1>7. CASE KindOf(o) = "log"
  <2>1. LogHolds(o)
    BY <1>2, <1>4, <1>7 DEF OutcomeHolds
  <2>2. o \in versions => IsPrefix(ContentOf(o), session)
    BY DEF EInv, ContentOK
  <2>3. IsPrefix(ContentOf(o), session) \/ LogOutcome(ContentOf(o)) = "rejected"
    BY <1>3, <2>1, <2>2 DEF LogHolds
  <2> QED
    BY <1>7, <2>3
<1>8. CASE KindOf(o) = "pentest"
  <2>1. PentestHolds(o)
    BY <1>2, <1>4, <1>8 DEF OutcomeHolds
  <2>2. rec[o].status \in {"ingested", "duplicate", "unchanged", "rejected"}
    <3>1. rec[o].status \in RecordStatuses
      BY <1>1, RecordedFacts DEF ObjectRecord
    <3> QED
      BY <1>1, <1>2, <1>4, <3>1 DEF RecordStatuses, VersionHolds
  <2>3. CASE rec[o].status = "ingested"
    BY <1>1, <1>8, <2>1, <2>3 DEF PentestHolds
  <2>4. CASE rec[o].status = "duplicate"
    BY <1>8, <2>1, <2>4 DEF PentestHolds, DuplicateHolds
  <2>5. CASE rec[o].status \in {"unchanged", "rejected"} /\ ContentOf(o) # {}
    <3>1. PlansAgain(o, "unchanged") \/ PlansAgain(o, "conflict")
      <4>1. CASE rec[o].status = "unchanged"
        BY <2>1, <4>1 DEF PentestHolds
      <4>2. CASE rec[o].status = "rejected"
        BY <1>3, <2>1, <4>2 DEF PentestHolds
      <4> QED
        BY <2>5, <4>1, <4>2
    <3>2. Backing # {}
      BY <2>5, <3>1, BackedByPlans DEF PlansAgain
    <3>3. PICK b \in Backing : TRUE
      BY <3>2
    <3>4. b \in Objects /\ b \in Recorded /\ b # o /\ rec[b].info.stored
      BY <2>5, <3>3 DEF Backing, Recorded
    <3>5. Genuine(b)
      BY <3>4 DEF EInv, GenuineOK
    <3>6. stored[b] # {}
      BY <3>4, <3>5 DEF Genuine
    <3> QED
      BY <1>8, <3>4, <3>6
  <2> QED
    BY <1>8, <2>2, <2>3, <2>4, <2>5
<1> QED
  BY <1>5, <1>6, <1>7, <1>8

\* A record the database role made up, where all the others are the syncs', never
\* hides a version: verification fails it, or what the version says is kept anyway.
THEOREM ForgeriesAreFound == Spec => []ForgeryFound
BY Invariance, ForgeryShows, PTL

LEMMA CompleteWhenFinished == EInv => SuccessIsComplete
<1> SUFFICES ASSUME EInv, NEW e \in Executors, Finished(e), ex[e].status # "partial",
                    NEW o \in ex[e].listed
             PROVE  rec[o] # Null /\ rec[o].status # "error"
  BY DEF SuccessIsComplete
<1>1. Accounted(ex[e], o)
  BY ExecutorFacts DEF Finished, StateOK
<1> QED
  BY <1>1 DEF Accounted, Finished, Settled

\* A sync run that does not end partial has settled every version it listed, however
\* the database failed on the way and whoever else wrote.
THEOREM SuccessMeansComplete == Spec => []SuccessIsComplete
BY Invariance, CompleteWhenFinished, PTL

-----------------------------------------------------------------------------
(* Settled records stand.                                                  *)

\* What a replacement the guard lets pass leaves of a version's settled record.
Stands(o) ==
    HasStatus(o, {"ingested", "unchanged", "acknowledged", "erased"}) =>
        \/ rec'[o] = rec[o]
        \/ /\ rec[o].status # "erased" /\ rec'[o].status = "erased"
           /\ rec'[o].info = rec[o].info

LEMMA GuardStands ==
    ASSUME EInv, NEW o \in Objects, NEW p, NEW new,
           rec' = [rec EXCEPT ![p] = new], rec[p] = Null \/ GuardAllows(rec[p], new)
    PROVE  Stands(o)
<1>1. rec'[o] = IF p = o THEN new ELSE rec[o]
  BY DEF EInv, TypeOK
<1>2. CASE p = o
  BY <1>1, <1>2 DEF Stands, HasStatus, GuardAllows
<1>3. CASE p # o
  BY <1>1, <1>3 DEF Stands
<1> QED
  BY <1>2, <1>3

LEMMA StepStands ==
    ASSUME EInv, [Next]_vars, NEW o \in Objects
    PROVE  Stands(o)
<1>1. CASE rec' = rec
  BY <1>1 DEF Stands
<1>2. CASE World
  <2>1. rec' = rec
    BY <1>2 DEF World, Upload, EraseVersion, Hold, Submit, db
  <2> QED
    BY <1>1, <2>1
<1>3. CASE Administer
  <2>1. PICK p \in Objects :
           \/ RecordErasure(p) \/ Acknowledge(p)
           \/ \E status, info : Forge(p, status, info)
    BY <1>3 DEF Administer
  <2>2. CASE RecordErasure(p)
    BY <2>2, GuardStands DEF RecordErasure, Settle
  <2>3. CASE Acknowledge(p)
    BY <2>3, GuardStands DEF Acknowledge, Settle
  <2>4. CASE \E status, info : Forge(p, status, info)
    BY <2>4, GuardStands DEF Forge
  <2> QED
    BY <2>1, <2>2, <2>3, <2>4
<1>4. CASE \E e \in Executors : Sync(e) \/ LoseLock(e) \/ Stop(e)
  <2>1. PICK e \in Executors : Sync(e) \/ LoseLock(e) \/ Stop(e)
    BY <1>4
  <2>2. CASE Write(e)
    <3>1. PICK p : p = ex[e].cur.o
      OBVIOUS
    <3>2. PICK new : new = Planned(e)
      OBVIOUS
    <3>3. rec' = [rec EXCEPT ![p] = new] /\ (rec[p] = Null \/ GuardAllows(rec[p], new))
      BY <2>2, <3>1, <3>2 DEF Write, Writable
    <3> QED
      BY <3>3, GuardStands
  <2>3. CASE RecordFailure(e)
    <3>1. PICK p : p = ex[e].cur.o
      OBVIOUS
    <3>2. PICK new : new = FailedAttempt(e)
      OBVIOUS
    <3>3. \/ rec' = rec
          \/ rec' = [rec EXCEPT ![p] = new] /\ (rec[p] = Null \/ GuardAllows(rec[p], new))
      BY <2>3, <3>1, <3>2 DEF RecordFailure, Writable
    <3> QED
      BY <1>1, <3>3, GuardStands
  <2>4. CASE ~Write(e) /\ ~RecordFailure(e)
    <3>1. rec' = rec
      BY <2>1, <2>4 DEF Sync, StartSync, ReadAndPlan, ReadFails, WriteFails, FindDuplicates,
         Finish, LoseLock, Stop, db
    <3> QED
      BY <1>1, <3>1
  <2> QED
    BY <2>2, <2>3, <2>4
<1>5. CASE UNCHANGED vars
  BY <1>1, <1>5 DEF vars
<1> QED
  BY <1>2, <1>3, <1>4, <1>5 DEF Next

\* The outcome of a version is decided once: the guard on the records lets no second
\* look replace an import or an administrator's word, only a documented erasure follow.
THEOREM RecordsDoStand == Spec => RecordsStand
<1>1. EInv /\ [Next]_vars =>
         [\A o \in Objects :
             HasStatus(o, {"ingested", "unchanged", "acknowledged", "erased"}) =>
                 \/ rec'[o] = rec[o]
                 \/ rec[o].status # "erased" /\ rec'[o].status = "erased"
                    /\ rec'[o].info = rec[o].info]_vars
  BY StepStands DEF Stands
<1> QED
  BY <1>1, Invariance, PTL DEF Spec, RecordsStand

-----------------------------------------------------------------------------
(* StoreSweep: a verification in slices, for any records, costs, prefixes, *)
(* keys and budgets.                                                       *)

RecordRow == [cost : Costs, state : {"right", "wrong", "pending"}]
SweepPhase == {"records", "listing", "complete"}
Places == SweepPhase \X Nat \X Nat \X Nat

\* The planned bytes are a sum of costs, which nothing here depends on: any value.
SweepRow(planned) ==
    [budget : Budgets, phase : SweepPhase, open : BOOLEAN, after : Nat, prefix : 1..StorePrefixes, key : Nat,
     from : {<<>>} \cup Places, checked : Nat, planned : {planned}, listed : Nat,
     total : Nat, failed : Nat, unverified : Nat, once : Nat,
     seen : SUBSET (Nat \X Nat), wrong : SUBSET RecordIds, wrongKeys : SUBSET Slots]

StoreTypes ==
    /\ DOMAIN rows \subseteq RecordIds /\ rows \in [DOMAIN rows -> RecordRow]
    /\ keys \in [Slots -> [versions : Nat, recorded : BOOLEAN]]

\* A key of the listing the sweep has passed.
Passed(s, k) == s.phase # "records" /\ (k[1] < s.prefix \/ (k[1] = s.prefix /\ k[2] <= s.key))

\* What has been counted, and that nothing is seen again.
CountedOnce(s) ==
    /\ IsFiniteSet(s.seen) /\ s.total = Cardinality(s.seen)
    /\ \A x \in s.seen : IF x[1] = 0 THEN s.phase = "records" => x[2] <= s.after ELSE Passed(s, x)

\* What was wrong when the run began and still is lies ahead, or was counted.
Ahead(s) ==
    /\ \A k \in s.wrongKeys : keys[k].versions > 0
    /\ s.failed = 0 /\ s.unverified = 0 =>
          /\ \A i \in s.wrong \cap WrongRows : s.phase = "records" /\ i > s.after
          /\ \A k \in s.wrongKeys \cap WrongKeys : s.phase # "complete" /\ ~Passed(s, k)

\* The first slice begins at the first record, and no other does.
BegunOnce(s) ==
    /\ s.from = <<>> => s.once = 0 /\ ~s.open /\ s.after = 0
    /\ s.from = <<>> \/ s.phase = "records" => s.prefix = 1 /\ s.key = 0
    /\ s.from = <<>> => s.phase = "records"
    /\ s.from # <<>> => s.once = 1 /\ (s.phase = "records" /\ ~s.open => s.after # 0)

\* An open slice is where it began until it has checked a record, then behind.
Behind(s) ==
    /\ s.open => s.from \in Places /\ s.from[1] # "complete" /\ s.phase # "complete"
    /\ s.open /\ s.phase = "records" =>
          s.from[1] = "records" /\ s.from[2] <= s.after /\ (s.checked > 0 => s.from[2] < s.after)
    /\ s.open /\ s.phase = "listing" /\ s.from[1] = "listing" =>
          s.from[3] < s.prefix \/ (s.from[3] = s.prefix /\ s.from[4] <= s.key)
    /\ s.from # <<>> /\ ~s.open => Position(s) # s.from

KeepsBytes(s) == s.from # <<>> /\ Bounded(s) => s.planned <= s.budget.bytes \/ s.checked = 1

SweepOK(s) ==
    s \in SweepRow(s.planned) /\ CountedOnce(s) /\ Ahead(s) /\ BegunOnce(s) /\ Behind(s) /\ KeepsBytes(s)

SweepInv == StoreTypes /\ (sweep # NoSweep => SweepOK(sweep))

-----------------------------------------------------------------------------
(* Pages.                                                                  *)

\* A set of natural numbers that holds one has a least one.
LEMMA LeastNumber ==
    ASSUME NEW S \in SUBSET Nat, S # {} PROVE \E n \in S : \A m \in S : n <= m
<1>1. PICK n \in S : \A m \in S : ~(<<m, n>> \in OpToRel(<, Nat))
  BY NatLessThanWellFounded, WFMin
<1>2. \A m \in S : ~(m < n)
  BY <1>1, Zenon DEF OpToRel
<1> QED
  BY <1>2

\* A finite set of natural numbers that holds one has a greatest one: the one
\* that most of them are below.
LEMMA GreatestOne ==
  ASSUME NEW S \in SUBSET Nat, IsFiniteSet(S), S # {}
  PROVE  \E m \in S : \A s \in S : s <= m
<1> DEFINE below(n) == {r \in S : r < n}
           others == {Cardinality(S) - Cardinality(below(n)) : n \in S}
<1>1. \A n \in S : IsFiniteSet(below(n)) /\ Cardinality(below(n)) \in Nat /\ Cardinality(below(n)) <= Cardinality(S)
  BY FS_Subset, FS_CardinalityType
<1>2. Cardinality(S) \in Nat
  BY FS_CardinalityType
<1>3. others \in SUBSET Nat /\ others # {}
  <2>1. \A n \in S : Cardinality(S) - Cardinality(below(n)) \in Nat
    <3> HIDE DEF below
    <3> QED
      BY <1>1, <1>2
  <2> HIDE DEF below
  <2> QED
    BY <2>1
<1>4. PICK k \in others : \A j \in others : k <= j
  BY <1>3, LeastNumber
<1>5. PICK m \in S : k = Cardinality(S) - Cardinality(below(m))
  OBVIOUS
<1>6. ASSUME NEW s \in S, ~(s <= m) PROVE FALSE
  <2>0. m \in Nat /\ s \in Nat /\ m < s
    BY <1>6
  <2>1. below(m) \subseteq below(s) /\ m \in below(s) /\ m \notin below(m)
    <3>1. ASSUME NEW y \in S, y < m PROVE y < s
      BY <2>0, <3>1
    <3>2. m \in below(s) /\ m \notin below(m)
      BY <2>0
    <3> QED
      BY <3>1, <3>2
  <2> HIDE DEF below
  <2>2. Cardinality(below(m)) <= Cardinality(below(s)) /\ Cardinality(below(m)) # Cardinality(below(s))
    BY <2>1, <1>1, FS_Subset
  <2>3. k <= Cardinality(S) - Cardinality(below(s))
    BY <1>4
  <2> QED
    BY <2>2, <2>3, <1>1, <1>2, <1>5
<1> QED
  BY <1>6

\* Sets of records are finite.
LEMMA RecordsFinite ==
  ASSUME SweepAssumption, StoreTypes, NEW S \in SUBSET (DOMAIN rows)
  PROVE  IsFiniteSet(S) /\ Cardinality(S) \in Nat /\ S \in SUBSET (Nat \ {0})
<1>1. S \in SUBSET RecordIds
  BY DEF StoreTypes
<1> QED
  BY <1>1, FS_Subset, FS_CardinalityType DEF SweepAssumption

\* A sweep that has no room for a record has checked one.
LEMMA RoomIs ==
  ASSUME SweepAssumption, NEW s, s \in SweepRow(s.planned)
  PROVE  Room(s) \in Int /\ (Room(s) <= 0 => s.checked > 0)
<1>1. s.checked \in Nat /\ s.budget \in Budgets /\ RecordPage \in Nat \ {0}
  BY DEF SweepRow, SweepAssumption
<1>2. CASE ~Bounded(s)
  BY <1>1, <1>2 DEF Room
<1>3. CASE Bounded(s)
  <2>1. s.budget.items \in Nat \ {0}
    BY <1>1, <1>3 DEF Bounded, SweepAssumption
  <2> DEFINE left == s.budget.items - s.checked
  <2>2. left \in Int /\ (left <= 0 => s.checked > 0)
    BY <1>1, <2>1
  <2> HIDE DEF left
  <2>3. \E n \in {RecordPage, left} : \A m \in {RecordPage, left} : n <= m
    <3>1. CASE RecordPage <= left
      BY <1>1, <2>2, <3>1
    <3>2. CASE ~(RecordPage <= left)
      BY <1>1, <2>2, <3>2
    <3> QED
      BY <3>1, <3>2
  <2>4. Min({RecordPage, left}) \in {RecordPage, left}
    BY <2>3 DEF Min
  <2>5. Room(s) = RecordPage \/ Room(s) = left
    BY <1>3, <2>4 DEF Room, left
  <2> QED
    BY <1>1, <2>2, <2>5
<1> QED
  BY <1>2, <1>3

\* A page is of records ahead, of all of them when it is not full, and holds
\* with a record those before it.
LEMMA PageIs ==
  ASSUME SweepAssumption, StoreTypes, NEW s, s \in SweepRow(s.planned), Room(s) > 0
  PROVE  /\ Later(s) \in SUBSET (DOMAIN rows) /\ Page(s) \in SUBSET Later(s)
         /\ \A i \in Page(s), j \in Later(s) : j <= i => j \in Page(s)
         /\ Page(s) = {} => Later(s) = {}
         /\ Cardinality(Page(s)) < Room(s) => Page(s) = Later(s)
<1> DEFINE below(i) == {j \in Later(s) : j < i}
<1>1. Later(s) \in SUBSET (DOMAIN rows) /\ Page(s) \in SUBSET Later(s)
  BY DEF Later, Page
<1>2. Later(s) \in SUBSET Nat /\ Room(s) \in Int
  BY <1>1, RecordsFinite, RoomIs
<1>3. \A i \in Later(s) : i \in Page(s) <=> Cardinality(below(i)) < Room(s)
  BY DEF Page
<1>4. \A i : below(i) \in SUBSET (DOMAIN rows) /\ IsFiniteSet(below(i)) /\ Cardinality(below(i)) \in Nat
  BY <1>1, RecordsFinite
<1>5. ASSUME NEW i \in Page(s), NEW j \in Later(s), j <= i PROVE j \in Page(s)
  <2>1. i \in Nat /\ j \in Nat /\ \A k \in Later(s) : k \in Nat /\ (k < j => k < i)
    BY <1>1, <1>2, <1>5
  <2>2. below(j) \subseteq below(i)
    BY <2>1
  <2> HIDE DEF below
  <2>3. Cardinality(below(j)) <= Cardinality(below(i)) /\ Cardinality(below(i)) < Room(s)
    BY <1>1, <1>3, <1>4, <2>2, FS_Subset
  <2> QED
    BY <1>2, <1>3, <1>4, <2>3
<1>6. ASSUME Cardinality(Page(s)) < Room(s), Page(s) # Later(s) PROVE FALSE
  <2>1. Later(s) \ Page(s) \in SUBSET Nat /\ Later(s) \ Page(s) # {}
    BY <1>1, <1>2, <1>6
  <2>2. PICK i \in Later(s) \ Page(s) : \A j \in Later(s) \ Page(s) : i <= j
    BY <2>1, LeastNumber
  <2>3. \A j \in Later(s) : j < i => j \in Page(s)
    BY <1>2, <2>2
  <2>4. below(i) \subseteq Page(s)
    BY <2>3
  <2> HIDE DEF below
  <2>5. Page(s) \in SUBSET (DOMAIN rows)
    BY <1>1
  <2>6. Cardinality(below(i)) <= Cardinality(Page(s)) /\ Cardinality(Page(s)) \in Nat
    BY <2>4, <2>5, RecordsFinite, FS_Subset
  <2> QED
    BY <1>2, <1>3, <1>4, <1>6, <2>2, <2>6
<1>7. Page(s) = {} => Later(s) = {}
  BY <1>2, <1>6, FS_EmptySet
<1> QED
  BY <1>1, <1>5, <1>6, <1>7

\* What is taken of a page fits, is a record at least when the slice has
\* checked none, and holds with a record those before it.
LEMMA TakenIs ==
  ASSUME SweepAssumption, NEW s, NEW page \in SUBSET Nat
  PROVE  /\ WithinBudget(s, page) \in SUBSET page
         /\ \A i \in WithinBudget(s, page), j \in page : j <= i => j \in WithinBudget(s, page)
         /\ page # {} /\ s.checked = 0 => WithinBudget(s, page) # {}
         /\ \A i \in WithinBudget(s, page) : Bounded(s) => Fits(s, page, i)
<1>1. WithinBudget(s, page) \in SUBSET page
  BY DEF WithinBudget
<1>2. \A i \in WithinBudget(s, page) : Bounded(s) => Fits(s, page, i)
  BY <1>1 DEF WithinBudget, UpTo
<1>3. ASSUME NEW i \in WithinBudget(s, page), NEW j \in page, j <= i PROVE j \in WithinBudget(s, page)
  <2>1. \A k \in page : k <= j => k <= i
    <3>1. i \in Nat /\ j \in Nat
      BY <1>1
    <3>2. ASSUME NEW k \in Nat, k <= j PROVE k <= i
      BY <1>3, <3>1, <3>2
    <3> QED
      BY <3>2
  <2> QED
    BY <1>3, <2>1 DEF WithinBudget, UpTo
<1>4. ASSUME page # {}, s.checked = 0 PROVE WithinBudget(s, page) # {}
  <2>1. PICK i \in page : \A j \in page : i <= j
    BY <1>4, LeastNumber
  <2>2. \A j \in page : j <= i => j = i
    BY <2>1
  <2>3. UpTo(page, i) = {i}
    <3>1. i <= i
      BY <2>1
    <3> QED
      BY <2>2, <3>1 DEF UpTo
  <2>4. Fits(s, page, i)
    BY <1>4, <2>3 DEF Fits
  <2>5. i \in WithinBudget(s, page)
    BY <2>3, <2>4 DEF WithinBudget
  <2> QED
    BY <2>5
<1> QED
  BY <1>1, <1>2, <1>3, <1>4

-----------------------------------------------------------------------------
(* The steps of a sweep.                                                   *)

\* What is so of a record is so of the sweep that becomes it.
LEMMA Becomes ==
  ASSUME NEW s, SweepOK(s), sweep' = s, rows' = rows, keys' = keys, StoreTypes
  PROVE  SweepInv'
<1>1. StoreTypes'
  BY DEF StoreTypes
<1>2. WrongRows' = WrongRows /\ WrongKeys' = WrongKeys
  BY DEF WrongRows, WrongKeys
<1>3. SweepOK(sweep)'
  BY <1>2 DEF SweepOK, CountedOnce, Passed, Ahead, BegunOnce, Behind, KeepsBytes, Position, Bounded, SweepRow
<1> QED
  BY <1>1, <1>3 DEF SweepInv

\* It starts with nothing.
LEMMA SweepStarts ==
  ASSUME SweepAssumption, SweepInit PROVE SweepInv
<1>1. StoreTypes
  <2>1. PICK ids \in SUBSET RecordIds : rows \in [ids -> RecordRow]
    BY DEF SweepInit, RecordRow
  <2> DEFINE states == {[versions |-> 0, recorded |-> FALSE], [versions |-> 1, recorded |-> TRUE],
                        [versions |-> 2, recorded |-> TRUE]}
  <2>2. states \subseteq [versions : Nat, recorded : BOOLEAN]
    OBVIOUS
  <2>3. keys \in [Slots -> [versions : Nat, recorded : BOOLEAN]]
    <3>1. keys \in [Slots -> states]
      BY DEF SweepInit
    <3> HIDE DEF states
    <3> QED
      BY <2>2, <3>1
  <2> QED
    BY <2>1, <2>3 DEF StoreTypes
<1> QED
  BY <1>1 DEF SweepInit, SweepInv

\* A sync that records a version, and a write of a key, make nothing wrong that
\* the run counts on to be right.
LEMMA MeanwhileKeeps ==
  ASSUME SweepAssumption, SweepInv, NEW key \in Slots,
         WriteKey(key) \/ \E id \in RecordIds, cost \in Costs : Record(id, key, cost)
  PROVE  SweepInv'
<1>1. StoreTypes /\ sweep' = sweep
  BY DEF SweepInv, WriteKey, Record
<1>2. StoreTypes' /\ WrongRows' = WrongRows
  <2>1. CASE WriteKey(key)
    BY <1>1, <2>1 DEF WriteKey, StoreTypes, WrongRows
  <2>2. CASE \E id \in RecordIds, cost \in Costs : Record(id, key, cost)
    <3>1. PICK id \in RecordIds, cost \in Costs : Record(id, key, cost)
      BY <2>2
    <3> DEFINE new == [cost |-> cost, state |-> "right"]
    <3>2. id \notin DOMAIN rows /\ rows' = [i \in DOMAIN rows \cup {id} |-> IF i = id THEN new ELSE rows[i]]
          /\ keys' = [keys EXCEPT ![key].recorded = TRUE]
      BY <3>1 DEF Record
    <3>3. new \in RecordRow /\ new.state = "right"
      BY DEF RecordRow
    <3> HIDE DEF new
    <3>4. DOMAIN rows' = DOMAIN rows \cup {id} /\ rows'[id] = new /\ \A i \in DOMAIN rows : rows'[i] = rows[i]
      BY <3>2
    <3>5. rows' \in [DOMAIN rows' -> RecordRow] /\ DOMAIN rows' \subseteq RecordIds
      BY <1>1, <3>2, <3>3 DEF StoreTypes
    <3>6. keys' \in [Slots -> [versions : Nat, recorded : BOOLEAN]]
      BY <1>1, <3>2 DEF StoreTypes
    <3>7. WrongRows' = WrongRows
      BY <3>2, <3>3, <3>4 DEF WrongRows
    <3> QED
      BY <3>5, <3>6, <3>7 DEF StoreTypes
  <2> QED
    BY <2>1, <2>2
<1>3. \A k \in Slots : keys[k].versions > 0 =>
          /\ keys'[k].versions = keys[k].versions /\ (keys[k].recorded => keys'[k].recorded)
  <2>1. keys \in [Slots -> [versions : Nat, recorded : BOOLEAN]]
    BY <1>1 DEF StoreTypes
  <2>2. CASE WriteKey(key)
    BY <2>1, <2>2 DEF WriteKey
  <2>3. CASE \E id \in RecordIds, cost \in Costs : Record(id, key, cost)
    BY <2>1, <2>3 DEF Record
  <2> QED
    BY <2>2, <2>3
<1>4. ASSUME SweepOK(sweep) PROVE SweepOK(sweep)'
  <2>1. \A k \in sweep.wrongKeys : k \in Slots /\ keys[k].versions > 0 /\ keys'[k].versions > 0
    BY <1>3, <1>4 DEF SweepOK, Ahead, SweepRow
  <2>2. sweep.wrongKeys \cap WrongKeys' \subseteq sweep.wrongKeys \cap WrongKeys
    BY <1>3, <2>1 DEF WrongKeys
  <2>3. Ahead(sweep)'
    BY <1>1, <1>2, <1>4, <2>1, <2>2 DEF SweepOK, Ahead, Passed
  <2> QED
    BY <1>1, <1>4, <2>3 DEF SweepOK, CountedOnce, Passed, BegunOnce, Behind, KeepsBytes, Position, Bounded, SweepRow
<1> QED
  BY <1>1, <1>2, <1>4 DEF SweepInv

\* A run begins: what is wrong then is what it must see.
LEMMA StartKeeps ==
  ASSUME SweepAssumption, SweepInv, NEW budget \in Budgets, StartSweep(budget) PROVE SweepInv'
<1> DEFINE s == [budget |-> budget, phase |-> "records", open |-> FALSE,
                 after |-> 0, prefix |-> 1, key |-> 0, from |-> <<>>,
                 checked |-> 0, planned |-> 0, listed |-> 0,
                 total |-> 0, failed |-> 0, unverified |-> 0, once |-> 0,
                 seen |-> {}, wrong |-> WrongRows, wrongKeys |-> WrongKeys]
<1>1. sweep' = s /\ rows' = rows /\ keys' = keys /\ StoreTypes
  BY DEF StartSweep, SweepInv
<1>2. WrongRows \in SUBSET RecordIds /\ WrongKeys \in SUBSET Slots /\ 1 \in 1..StorePrefixes
  BY <1>1 DEF WrongRows, WrongKeys, StoreTypes, SweepAssumption
<1>3. s \in SweepRow(s.planned)
  BY <1>2 DEF SweepRow, SweepPhase
<1>4. /\ s.phase = "records" /\ s.open = FALSE /\ s.after = 0 /\ s.prefix = 1 /\ s.key = 0 /\ s.from = <<>>
      /\ s.total = 0 /\ s.once = 0 /\ s.seen = {} /\ s.wrong = WrongRows /\ s.wrongKeys = WrongKeys
  OBVIOUS
<1> HIDE DEF s
<1>5. CountedOnce(s)
  BY <1>4, FS_EmptySet DEF CountedOnce
<1>6. Ahead(s)
  <2>1. \A k \in WrongKeys : keys[k].versions > 0
    BY <1>1 DEF WrongKeys, StoreTypes
  <2>2. \A i \in WrongRows : i > 0
    BY <1>2 DEF SweepAssumption
  <2> QED
    BY <1>4, <2>1, <2>2 DEF Ahead, Passed
<1>7. BegunOnce(s) /\ Behind(s) /\ KeepsBytes(s)
  BY <1>4 DEF BegunOnce, Behind, KeepsBytes
<1> QED
  BY <1>1, <1>3, <1>5, <1>6, <1>7, Becomes DEF SweepOK

\* A slice begins where the last one ended.
LEMMA BeginSliceKeeps ==
  ASSUME SweepAssumption, SweepInv, BeginSlice PROVE SweepInv'
<1> DEFINE first == IF sweep.phase = "records" /\ sweep.after = 0 THEN sweep.once + 1 ELSE sweep.once
           s == [sweep EXCEPT !.open = TRUE, !.from = Position(sweep),
                   !.checked = 0, !.planned = 0, !.listed = 0, !.once = first]
<1>1. sweep' = s /\ rows' = rows /\ keys' = keys /\ StoreTypes /\ SweepOK(sweep)
      /\ sweep.phase # "complete" /\ ~sweep.open
  BY DEF BeginSlice, SweepInv
<1>2. sweep \in SweepRow(sweep.planned)
  BY <1>1 DEF SweepOK
<1>3. first = 1
  <2>1. sweep.from = <<>> => sweep.once = 0 /\ sweep.after = 0 /\ sweep.phase = "records"
    BY <1>1 DEF SweepOK, BegunOnce
  <2>2. sweep.from # <<>> => sweep.once = 1 /\ ~(sweep.phase = "records" /\ sweep.after = 0)
    BY <1>1 DEF SweepOK, BegunOnce
  <2> QED
    BY <2>1, <2>2
<1>4. Position(sweep) \in Places /\ Position(sweep) # <<>>
  BY <1>2 DEF Position, Places, SweepRow, SweepPhase
<1> HIDE DEF first
<1>5. s \in SweepRow(0)
  BY <1>2, <1>3, <1>4 DEF SweepRow
<1>6. /\ s.phase = sweep.phase /\ s.open = TRUE /\ s.after = sweep.after /\ s.prefix = sweep.prefix
      /\ s.key = sweep.key /\ s.from = Position(sweep) /\ s.once = 1 /\ s.checked = 0 /\ s.planned = 0
      /\ s.total = sweep.total /\ s.seen = sweep.seen /\ s.wrong = sweep.wrong /\ s.wrongKeys = sweep.wrongKeys
      /\ s.failed = sweep.failed /\ s.unverified = sweep.unverified /\ s.budget = sweep.budget
  BY <1>2, <1>3 DEF SweepRow
<1> HIDE DEF s
<1>7. CountedOnce(s) /\ Ahead(s)
  BY <1>1, <1>6 DEF SweepOK, CountedOnce, Ahead, Passed
<1>8. BegunOnce(s)
  BY <1>1, <1>4, <1>6 DEF SweepOK, BegunOnce
<1>9. Behind(s)
  <2>1. s.from[1] = s.phase /\ s.from[2] = s.after /\ s.from[3] = s.prefix /\ s.from[4] = s.key
    BY <1>6 DEF Position
  <2>2. s.after <= s.after /\ s.key <= s.key
    BY <1>5 DEF SweepRow
  <2> QED
    BY <1>1, <1>4, <1>6, <2>1, <2>2 DEF Behind
<1>10. KeepsBytes(s)
  <2>1. Bounded(s) => 0 <= s.budget.bytes
    BY <1>5 DEF Bounded, SweepRow, SweepAssumption
  <2> QED
    BY <1>6, <2>1 DEF KeepsBytes
<1> QED
  BY <1>1, <1>5, <1>6, <1>7, <1>8, <1>9, <1>10, Becomes DEF SweepOK

\* The records' part of a slice ends when none is left, or after one at least.
LEMMA RecordsEnd ==
  ASSUME SweepAssumption, StoreTypes, NEW s, SweepOK(s), s.open, s.phase = "records", NEW stopped \in BOOLEAN,
         stopped /\ Later(s) # {} => s.checked > 0,
         ~stopped => Later(s) = {}
  PROVE  SweepOK(EndOfRecords(s, stopped))
<1> DEFINE left == stopped /\ Later(s) # {}
           phase == IF left THEN "records" ELSE "listing"
           open == IF left THEN FALSE ELSE ~Bounded(s)
           e == [s EXCEPT !.phase = phase, !.open = open]
<1>1. EndOfRecords(s, stopped) = e
  BY DEF EndOfRecords
<1>2. s \in SweepRow(s.planned) /\ s.from \in Places /\ s.from # <<>> /\ s.from[1] = "records"
      /\ s.from[2] <= s.after /\ (s.checked > 0 => s.from[2] < s.after) /\ s.prefix = 1 /\ s.key = 0 /\ s.once = 1
  <2>1. s \in SweepRow(s.planned) /\ s.from \in Places /\ s.from[1] = "records"
        /\ s.from[2] <= s.after /\ (s.checked > 0 => s.from[2] < s.after) /\ s.prefix = 1 /\ s.key = 0
    BY DEF SweepOK, Behind, BegunOnce
  <2>2. s.from # <<>>
    BY DEF SweepOK, BegunOnce
  <2> QED
    BY <2>1, <2>2 DEF SweepOK, BegunOnce
<1>3. phase \in SweepPhase /\ open \in BOOLEAN /\ (left => phase = "records" /\ open = FALSE /\ s.checked > 0)
      /\ (~left => phase = "listing" /\ Later(s) = {})
  BY DEF SweepPhase, Bounded
<1> HIDE DEF left, phase, open
<1>4. e \in SweepRow(e.planned)
  BY <1>2, <1>3 DEF SweepRow
<1>5. /\ e.phase = phase /\ e.open = open /\ e.after = s.after /\ e.prefix = 1
      /\ e.key = 0 /\ e.from = s.from /\ e.once = 1 /\ e.checked = s.checked /\ e.planned = s.planned
      /\ e.total = s.total /\ e.seen = s.seen /\ e.wrong = s.wrong /\ e.wrongKeys = s.wrongKeys
      /\ e.failed = s.failed /\ e.unverified = s.unverified /\ e.budget = s.budget
  BY <1>2 DEF SweepRow
<1> HIDE DEF e
<1>6. phase = "records" \/ phase = "listing"
  BY <1>3
<1>7. CountedOnce(e)
  <2>1. \A x \in s.seen : x[1] = 0 /\ x[2] <= s.after
    BY DEF SweepOK, CountedOnce, Passed
  <2> QED
    BY <1>5, <2>1 DEF SweepOK, CountedOnce
<1>8. Ahead(e)
  <2>1. \A k \in s.wrongKeys : ~Passed(e, k)
    <3>1. \A k \in s.wrongKeys : k[1] \in Nat \ {0} /\ k[2] \in Nat \ {0}
      BY <1>2 DEF SweepRow, Slots
    <3>2. \A k \in s.wrongKeys : ~(k[1] < 1) /\ ~(k[2] <= 0)
      BY <3>1
    <3> QED
      BY <1>5, <3>2 DEF Passed
  <2>2. ASSUME NEW i \in s.wrong \cap WrongRows, i > s.after PROVE phase = "records"
    <3>1. i \in Later(s)
      BY <2>2 DEF Later, WrongRows
    <3> QED
      BY <1>3, <3>1
  <2> QED
    BY <1>5, <1>6, <2>1, <2>2 DEF SweepOK, Ahead
<1>9. BegunOnce(e)
  <2>1. left => s.after # 0
    BY <1>2, <1>3 DEF SweepRow, Places
  <2> QED
    BY <1>2, <1>3, <1>5, <2>1 DEF BegunOnce
<1>10. Behind(e)
  <2>1. ASSUME left PROVE Position(e) # s.from
    <3>1. s.from[2] < s.after /\ s.from[2] \in Nat /\ s.after \in Nat
      BY <1>2, <1>3, <2>1 DEF SweepRow, Places
    <3>2. Position(e)[2] = s.after /\ s.after # s.from[2]
      BY <1>5, <3>1 DEF Position
    <3> QED
      BY <3>2
  <2>2. ASSUME ~left PROVE Position(e) # s.from
    <3>1. Position(e)[1] = "listing"
      BY <1>3, <1>5, <2>2 DEF Position
    <3> QED
      BY <1>2, <3>1
  <2> QED
    BY <1>2, <1>3, <1>5, <2>1, <2>2 DEF Behind
<1>11. KeepsBytes(e)
  BY <1>5 DEF SweepOK, KeepsBytes, Bounded
<1> QED
  BY <1>1, <1>4, <1>7, <1>8, <1>9, <1>10, <1>11 DEF SweepOK

\* Where a slice is after it has checked records of a page.
After(s, page) ==
    LET taken == WithinBudget(s, page)
    IN  [s EXCEPT !.after = LastChecked(page, taken), !.checked = @ + Cardinality(taken),
                  !.total = @ + Cardinality(taken), !.planned = @ + CostOf(taken),
                  !.seen = @ \cup ({0} \X taken),
                  !.failed = @ + Cardinality({i \in taken : rows[i].state = "wrong"}),
                  !.unverified = @ + Cardinality({i \in taken : rows[i].state = "pending"})]

\* What was checked was ahead, and nothing before it is left.
LEMMA PageChecked ==
  ASSUME SweepAssumption, StoreTypes, NEW s, SweepOK(s), s.open, s.phase = "records", Room(s) > 0,
         WithinBudget(s, Page(s)) # {}
  PROVE  /\ SweepOK(After(s, Page(s))) /\ After(s, Page(s)).open /\ After(s, Page(s)).phase = "records"
         /\ After(s, Page(s)).checked > 0
         /\ WithinBudget(s, Page(s)) = Page(s) /\ Cardinality(Page(s)) < Room(s) => Later(After(s, Page(s))) = {}
<1> DEFINE page == Page(s)
           taken == WithinBudget(s, page)
           wrong == {i \in taken : rows[i].state = "wrong"}
           open == {i \in taken : rows[i].state = "pending"}
           seen == {0} \X taken
<1>1. s \in SweepRow(s.planned)
  BY DEF SweepOK
<1>2. /\ Later(s) \in SUBSET (DOMAIN rows) /\ page \in SUBSET Later(s)
      /\ \A i \in page, j \in Later(s) : j <= i => j \in page
      /\ (Cardinality(page) < Room(s) => page = Later(s))
  BY <1>1, PageIs
<1>3. Later(s) \in SUBSET (Nat \ {0}) /\ page \in SUBSET (Nat \ {0}) /\ page \in SUBSET Nat
  BY <1>2, RecordsFinite
<1>4. /\ taken \in SUBSET page /\ (\A i \in taken, j \in page : j <= i => j \in taken)
      /\ (\A i \in taken : Bounded(s) => Fits(s, page, i))
  BY <1>3, TakenIs
<1>5. taken \in SUBSET (DOMAIN rows) /\ taken # {}
  BY <1>2, <1>4
<1> HIDE DEF page, taken
<1>6. /\ IsFiniteSet(taken) /\ Cardinality(taken) \in Nat /\ Cardinality(taken) # 0 /\ taken \in SUBSET Nat
      /\ IsFiniteSet(wrong) /\ Cardinality(wrong) \in Nat /\ IsFiniteSet(open) /\ Cardinality(open) \in Nat
  <2>1. wrong \in SUBSET (DOMAIN rows) /\ open \in SUBSET (DOMAIN rows)
    BY <1>5
  <2> HIDE DEF wrong, open
  <2> QED
    BY <1>5, <2>1, RecordsFinite, FS_EmptySet
<1>7. \E m \in taken : \A i \in taken : i <= m
  BY <1>5, <1>6, GreatestOne
<1> DEFINE last == Max(taken)
<1>8. last \in taken /\ \A i \in taken : i <= last
  <2>1. \E m \in taken : \A i \in taken : m >= i
    BY <1>6, <1>7
  <2>2. Max(taken) \in taken /\ \A i \in taken : Max(taken) >= i
    BY <2>1 DEF Max
  <2> QED
    BY <1>6, <2>2
<1> HIDE DEF last
<1>9. last \in Nat \ {0} /\ s.after \in Nat /\ last > s.after /\ \A i \in Later(s) : i <= last => i \in taken
  <2>1. last \in page /\ last \in Later(s) /\ last \in Nat \ {0}
    BY <1>2, <1>3, <1>4, <1>8
  <2>2. last > s.after
    BY <2>1 DEF Later
  <2> QED
    BY <1>1, <1>2, <1>4, <1>8, <2>1, <2>2 DEF SweepRow
<1> DEFINE c == s.planned + CostOf(taken)
           d == [s EXCEPT !.after = last, !.checked = @ + Cardinality(taken),
                  !.total = @ + Cardinality(taken), !.planned = c,
                  !.seen = @ \cup seen, !.failed = @ + Cardinality(wrong), !.unverified = @ + Cardinality(open)]
<1>10. After(s, Page(s)) = d
  BY <1>1 DEF After, page, taken, last, LastChecked, SweepRow
<1>11. seen \in SUBSET (Nat \X Nat)
  <2> SUFFICES ASSUME NEW x \in seen PROVE x \in Nat \X Nat
    OBVIOUS
  <2>1. PICK i \in taken : x = <<0, i>>
    OBVIOUS
  <2>2. i \in Nat
    BY <1>6
  <2> QED
    BY <2>1, <2>2
<1> HIDE DEF wrong, open, seen, c
<1>12. d \in SweepRow(c)
  <2> DEFINE checked == s.checked + Cardinality(taken)
             total == s.total + Cardinality(taken)
             failed == s.failed + Cardinality(wrong)
             unverified == s.unverified + Cardinality(open)
             both == s.seen \cup seen
  <2>1. checked \in Nat /\ total \in Nat /\ failed \in Nat /\ unverified \in Nat
    <3> HIDE DEF d
    <3>1. s.checked \in Nat /\ s.total \in Nat /\ s.failed \in Nat /\ s.unverified \in Nat
      BY <1>1 DEF SweepRow
    <3> QED
      BY <1>6, <3>1
  <2>2. both \in SUBSET (Nat \X Nat)
    BY <1>1, <1>11 DEF SweepRow
  <2>3. last \in Nat
    BY <1>9
  <2>4. d = [s EXCEPT !.after = last, !.checked = checked, !.total = total, !.planned = c,
                !.seen = both, !.failed = failed, !.unverified = unverified]
    BY <1>1 DEF SweepRow
  <2> HIDE DEF checked, total, failed, unverified, both, d
  <2> QED
    BY <1>1, <2>1, <2>2, <2>3, <2>4 DEF SweepRow
<1>13. /\ d.phase = "records" /\ d.open = TRUE /\ d.after = last /\ d.prefix = s.prefix
       /\ d.key = s.key /\ d.from = s.from /\ d.once = s.once /\ d.checked = s.checked + Cardinality(taken)
       /\ d.planned = c /\ d.total = s.total + Cardinality(taken) /\ d.seen = s.seen \cup seen
       /\ d.wrong = s.wrong /\ d.wrongKeys = s.wrongKeys /\ d.budget = s.budget
       /\ d.failed = s.failed + Cardinality(wrong) /\ d.unverified = s.unverified + Cardinality(open)
  BY <1>1 DEF SweepRow
<1>14. /\ s.checked \in Nat /\ s.total \in Nat /\ s.failed \in Nat /\ s.unverified \in Nat
  BY <1>1 DEF SweepRow
<1> HIDE DEF d
<1>15. CountedOnce(d)
  <2>1. IsFiniteSet(seen) /\ Cardinality(seen) = Cardinality(taken)
    <3>1. IsFiniteSet({0}) /\ Cardinality({0}) = 1
      BY FS_Singleton
    <3>2. IsFiniteSet(seen) /\ Cardinality(seen) = Cardinality({0}) * Cardinality(taken)
      BY <1>6, <3>1, FS_Product DEF seen
    <3> QED
      BY <1>6, <3>1, <3>2
  <2>2. IsFiniteSet(s.seen) /\ s.total = Cardinality(s.seen) /\ \A x \in s.seen : x[1] = 0 /\ x[2] <= s.after
    BY DEF SweepOK, CountedOnce, Passed
  <2>3. s.seen \cap seen = {}
    <3> SUFFICES ASSUME NEW x \in s.seen, x \in seen PROVE FALSE
      OBVIOUS
    <3>1. x[2] \in taken
      BY DEF seen
    <3>2. x[2] > s.after /\ x[2] \in Nat
      BY <1>2, <1>4, <1>6, <3>1 DEF Later
    <3> QED
      BY <1>9, <2>2, <3>2
  <2>4. IsFiniteSet(s.seen \cup seen) /\ Cardinality(s.seen \cup seen) = s.total + Cardinality(taken)
    <3>1. IsFiniteSet(s.seen \cup seen)
          /\ Cardinality(s.seen \cup seen) = Cardinality(s.seen) + Cardinality(seen) - Cardinality(s.seen \cap seen)
      BY <2>1, <2>2, FS_Union
    <3>2. Cardinality(s.seen \cap seen) = 0
      BY <2>3, FS_EmptySet
    <3> QED
      BY <1>6, <1>14, <2>1, <2>2, <3>1, <3>2
  <2>5. \A x \in s.seen \cup seen : x[1] = 0 /\ x[2] <= last
    <3>1. ASSUME NEW x \in s.seen PROVE x[1] = 0 /\ x[2] <= last
      <4>1. x[1] = 0 /\ x[2] <= s.after /\ x[2] \in Nat
        BY <1>1, <2>2 DEF SweepRow
      <4> QED
        BY <1>9, <4>1
    <3>2. ASSUME NEW x \in seen PROVE x[1] = 0 /\ x[2] <= last
      BY <1>8 DEF seen
    <3> QED
      BY <3>1, <3>2
  <2> QED
    BY <1>13, <2>4, <2>5 DEF CountedOnce
<1>16. Ahead(d)
  <2>1. \A k \in s.wrongKeys : keys[k].versions > 0
    BY DEF SweepOK, Ahead
  <2>2. ASSUME d.failed = 0, d.unverified = 0
        PROVE  /\ \A i \in s.wrong \cap WrongRows : i > last
               /\ \A k \in s.wrongKeys \cap WrongKeys : ~Passed(d, k)
    <3>1. s.failed = 0 /\ s.unverified = 0 /\ Cardinality(wrong) = 0 /\ Cardinality(open) = 0
      BY <1>6, <1>13, <1>14, <2>2
    <3>2. wrong = {} /\ open = {}
      BY <1>6, <3>1, FS_EmptySet
    <3>3. ASSUME NEW i \in s.wrong \cap WrongRows PROVE i > last
      <4>1. i > s.after /\ i \in Later(s) /\ i \in Nat
        BY <1>3, <3>1 DEF SweepOK, Ahead, Later, WrongRows
      <4>2. rows[i].state \in {"wrong", "pending"}
        BY DEF WrongRows, StoreTypes, RecordRow
      <4>3. i \notin taken
        BY <3>2, <4>2 DEF wrong, open
      <4> QED
        BY <1>9, <4>1, <4>3
    <3> QED
      BY <1>13, <3>3 DEF Passed
  <2> QED
    BY <1>13, <2>1, <2>2 DEF Ahead
<1>17. BegunOnce(d)
  BY <1>9, <1>13 DEF SweepOK, BegunOnce
<1>18. Behind(d)
  <2>1. s.from \in Places /\ s.from[1] = "records" /\ s.from[2] <= s.after /\ s.from[2] \in Nat
    BY DEF SweepOK, Behind, Places
  <2>2. s.from[2] < last /\ s.from[2] <= last
    BY <1>9, <2>1
  <2> QED
    BY <1>13, <2>1, <2>2 DEF Behind
<1>19. KeepsBytes(d)
  <2> SUFFICES ASSUME Bounded(s) PROVE c <= s.budget.bytes \/ s.checked + Cardinality(taken) = 1
    BY <1>13 DEF KeepsBytes, Bounded
  <2>1. UpTo(page, last) = taken
    BY <1>4, <1>8 DEF UpTo
  <2>2. s.planned + CostOf(taken) <= s.budget.bytes \/ (taken = {last} /\ s.checked = 0)
    BY <1>4, <1>8, <2>1 DEF Fits
  <2>3. taken = {last} => Cardinality(taken) = 1
    BY FS_Singleton
  <2> QED
    BY <2>2, <2>3 DEF c
<1>20. taken = page /\ Cardinality(page) < Room(s) => Later(d) = {}
  <2> SUFFICES ASSUME taken = page, Cardinality(page) < Room(s), NEW i \in Later(d) PROVE FALSE
    OBVIOUS
  <2>1. i \in DOMAIN rows /\ i > last /\ i \in Nat
    <3>1. i \in DOMAIN rows /\ i > last
      BY <1>13 DEF Later
    <3>2. DOMAIN rows \in SUBSET (DOMAIN rows)
      OBVIOUS
    <3> QED
      BY <3>1, <3>2, RecordsFinite
  <2>2. i \in Later(s)
    BY <1>9, <2>1 DEF Later
  <2> QED
    BY <1>2, <1>8, <1>9, <2>1, <2>2
<1>21. d.checked > 0
  BY <1>6, <1>13, <1>14
<1> QED
  BY <1>10, <1>12, <1>13, <1>15, <1>16, <1>17, <1>18, <1>19, <1>20, <1>21 DEF SweepOK, page, taken

\* A page read and checked.
LEMMA CheckPageKeeps ==
  ASSUME SweepAssumption, SweepInv, CheckPage PROVE SweepInv'
<1> DEFINE page == Page(sweep)
           taken == WithinBudget(sweep, page)
           done == After(sweep, page)
<1>1. /\ StoreTypes /\ SweepOK(sweep) /\ sweep.open /\ sweep.phase = "records" /\ rows' = rows /\ keys' = keys
      /\ sweep \in SweepRow(sweep.planned)
  BY DEF CheckPage, SweepInv, SweepOK
<1>2. sweep' = IF Room(sweep) <= 0 THEN EndOfRecords(sweep, TRUE)
               ELSE IF page = {} THEN EndOfRecords(sweep, FALSE)
               ELSE IF taken = {} THEN EndOfRecords(sweep, TRUE)
               ELSE IF taken # page THEN EndOfRecords(done, TRUE)
               ELSE IF Cardinality(page) < Room(sweep) THEN EndOfRecords(done, FALSE)
               ELSE done
  BY DEF CheckPage, After
<1>3. Room(sweep) \in Int /\ (Room(sweep) <= 0 => sweep.checked > 0)
  BY <1>1, RoomIs
<1>4. ASSUME NEW s, SweepOK(s), s.open, s.phase = "records", NEW stopped \in BOOLEAN,
             sweep' = EndOfRecords(s, stopped),
             stopped /\ Later(s) # {} => s.checked > 0, ~stopped => Later(s) = {}
      PROVE  SweepInv'
  <2>1. SweepOK(EndOfRecords(s, stopped))
    BY <1>1, <1>4, RecordsEnd
  <2> QED
    BY <1>1, <1>4, <2>1, Becomes
<1> HIDE DEF page, taken, done
<1>5. CASE Room(sweep) <= 0
  BY <1>1, <1>2, <1>3, <1>4, <1>5
<1>6. CASE Room(sweep) > 0
  <2>1. page \in SUBSET Nat /\ (page = {} => Later(sweep) = {})
    <3>1. Later(sweep) \in SUBSET (DOMAIN rows) /\ page \in SUBSET Later(sweep) /\ (page = {} => Later(sweep) = {})
      BY <1>1, <1>6, PageIs DEF page
    <3> QED
      BY <1>1, <3>1, RecordsFinite
  <2>2. CASE page = {}
    BY <1>1, <1>2, <1>3, <1>4, <1>6, <2>1, <2>2
  <2>3. CASE page # {} /\ taken = {}
    <3>1. sweep.checked # 0
      BY <2>1, <2>3, TakenIs DEF taken
    <3>2. sweep.checked > 0
      BY <1>1, <3>1 DEF SweepRow
    <3> QED
      BY <1>1, <1>2, <1>3, <1>4, <1>6, <2>3, <3>2
  <2>4. CASE page # {} /\ taken # {}
    <3>1. /\ SweepOK(done) /\ done.open /\ done.phase = "records" /\ done.checked > 0
          /\ taken = page /\ Cardinality(page) < Room(sweep) => Later(done) = {}
      BY <1>1, <1>6, <2>4, PageChecked DEF done, taken, page
    <3>0. /\ taken # page => sweep' = EndOfRecords(done, TRUE)
          /\ taken = page /\ Cardinality(page) < Room(sweep) => sweep' = EndOfRecords(done, FALSE)
          /\ taken = page /\ ~(Cardinality(page) < Room(sweep)) => sweep' = done
      <4>1. ~(Room(sweep) <= 0)
        BY <1>3, <1>6
      <4> QED
        BY <1>2, <2>4, <4>1, Zenon
    <3>2. CASE taken # page
      BY <1>4, <3>0, <3>1, <3>2
    <3>3. CASE taken = page /\ Cardinality(page) < Room(sweep)
      BY <1>4, <3>0, <3>1, <3>3
    <3>4. CASE taken = page /\ ~(Cardinality(page) < Room(sweep))
      <4>1. sweep' = done
        BY <3>0, <3>4
      <4> QED
        BY <1>1, <3>1, <4>1, Becomes
    <3> QED
      BY <3>2, <3>3, <3>4
  <2> QED
    BY <2>2, <2>3, <2>4
<1> QED
  BY <1>3, <1>5, <1>6

-----------------------------------------------------------------------------
(* The listing.                                                            *)

\* A key is listed once, the ones before it were, and what is wrong of it counts.
LEMMA ListKeyKeeps ==
  ASSUME SweepAssumption, SweepInv, ListKey PROVE SweepInv'
<1> DEFINE s == sweep
           key == CHOOSE k \in NextKeys(s) : \A l \in NextKeys(s) : k[2] <= l[2]
           group == keys[key]
<1>1. /\ StoreTypes /\ SweepOK(s) /\ s.open /\ s.phase = "listing" /\ rows' = rows /\ keys' = keys
      /\ s \in SweepRow(s.planned) /\ NextKeys(s) # {}
  BY DEF ListKey, SweepInv, SweepOK
<1>2. key \in NextKeys(s) /\ \A l \in NextKeys(s) : key[2] <= l[2]
  <2> DEFINE numbers == {k[2] : k \in NextKeys(s)}
  <2>1. numbers \in SUBSET Nat /\ numbers # {}
    <3>1. \A k \in NextKeys(s) : k[2] \in Nat
      BY DEF NextKeys, Slots
    <3> QED
      BY <1>1, <3>1
  <2>2. PICK n \in numbers : \A m \in numbers : n <= m
    BY <2>1, LeastNumber
  <2>3. \E k \in NextKeys(s) : \A l \in NextKeys(s) : k[2] <= l[2]
    BY <2>2
  <2> QED
    BY <2>3
<1> HIDE DEF key
<1>3. /\ key \in Slots /\ key \in Nat \X Nat /\ key[1] = s.prefix /\ key[1] # 0 /\ key[2] > s.key /\ key[2] \in Nat
      /\ group.versions \in Nat /\ group.versions > 0 /\ group.recorded \in BOOLEAN
  BY <1>1, <1>2 DEF NextKeys, Slots, StoreTypes
<1>4. /\ s.prefix \in Nat /\ s.key \in Nat /\ s.after \in Nat /\ s.listed \in Nat /\ s.total \in Nat
      /\ s.failed \in Nat /\ s.unverified \in Nat /\ s.seen \in SUBSET (Nat \X Nat)
      /\ s.wrongKeys \in SUBSET Slots
  BY <1>1 DEF SweepRow
<1> DEFINE listed == s.listed + group.versions
           total == s.total + 1
           failed == s.failed + group.versions - 1
           unverified == IF group.recorded THEN s.unverified ELSE s.unverified + 1
           open == ~(Bounded(s) /\ s.listed + group.versions >= s.budget.items)
           number == key[2]
           both == s.seen \cup {key}
           e == [s EXCEPT !.key = number, !.listed = listed, !.total = total, !.seen = both, !.open = open,
                    !.failed = failed, !.unverified = unverified]
<1>5. sweep' = e
  BY <1>1 DEF ListKey, key, SweepRow
<1>6. /\ listed \in Nat /\ total \in Nat /\ failed \in Nat /\ unverified \in Nat /\ open \in BOOLEAN
      /\ number \in Nat /\ both \in SUBSET (Nat \X Nat)
  BY <1>3, <1>4
<1>7. failed = 0 /\ unverified = 0 =>
          s.failed = 0 /\ s.unverified = 0 /\ group.versions = 1 /\ group.recorded
  BY <1>3, <1>4
<1> HIDE DEF listed, total, failed, unverified, open, group, both, number
<1>8. e \in SweepRow(e.planned)
  BY <1>1, <1>6 DEF SweepRow
<1>9. /\ e.phase = "listing" /\ e.open = open /\ e.after = s.after /\ e.prefix = s.prefix
      /\ e.key = number /\ e.from = s.from /\ e.once = s.once /\ e.checked = s.checked
      /\ e.planned = s.planned /\ e.total = total /\ e.seen = both
      /\ e.wrong = s.wrong /\ e.wrongKeys = s.wrongKeys /\ e.budget = s.budget
      /\ e.failed = failed /\ e.unverified = unverified
  BY <1>1 DEF SweepRow
<1> HIDE DEF e
<1>10. ASSUME NEW k, k[1] \in Nat, k[2] \in Nat PROVE Passed(s, k) => Passed(e, k)
  <2>1. s.key < number
    BY <1>3 DEF number
  <2>2. k[2] <= s.key => k[2] <= number
    BY <1>4, <1>6, <1>10, <2>1
  <2> QED
    BY <1>9, <2>2 DEF Passed
<1>11. CountedOnce(e)
  <2>1. IsFiniteSet(s.seen) /\ s.total = Cardinality(s.seen) /\ \A x \in s.seen : x[1] # 0 => Passed(s, x)
    BY <1>1 DEF SweepOK, CountedOnce
  <2>2. ~Passed(s, key)
    BY <1>3, <1>4 DEF Passed
  <2>3. key \notin s.seen
    BY <1>3, <2>1, <2>2
  <2>4. IsFiniteSet(both) /\ Cardinality(both) = s.total + 1
    <3>1. IsFiniteSet(s.seen \cup {key}) /\ Cardinality(s.seen \cup {key}) = Cardinality(s.seen) + 1
      BY <2>1, <2>3, FS_AddElement
    <3> QED
      BY <2>1, <3>1 DEF both
  <2>5. Passed(e, key)
    BY <1>3, <1>4, <1>9 DEF Passed, number
  <2>6. \A x \in both : IF x[1] = 0 THEN e.phase = "records" => x[2] <= e.after ELSE Passed(e, x)
    <3> SUFFICES ASSUME NEW x \in both, x[1] # 0 PROVE Passed(e, x)
      BY <1>9
    <3>1. CASE x = key
      BY <2>5, <3>1
    <3>2. CASE x \in s.seen
      <4>1. x[1] \in Nat /\ x[2] \in Nat
        BY <1>4, <3>2
      <4> QED
        BY <1>10, <2>1, <3>2, <4>1
    <3> QED
      BY <3>1, <3>2 DEF both
  <2> QED
    BY <1>9, <2>4, <2>6 DEF CountedOnce, total
<1>12. Ahead(e)
  <2>1. \A k \in s.wrongKeys : keys[k].versions > 0
    BY <1>1 DEF SweepOK, Ahead
  <2>2. ASSUME e.failed = 0, e.unverified = 0
        PROVE  /\ s.wrong \cap WrongRows = {}
               /\ \A k \in s.wrongKeys \cap WrongKeys : ~Passed(e, k)
    <3>1. s.failed = 0 /\ s.unverified = 0 /\ group.versions = 1 /\ group.recorded
      BY <1>7, <1>9, <2>2
    <3>2. key \notin WrongKeys
      BY <3>1 DEF WrongKeys, group
    <3>3. s.wrong \cap WrongRows = {} /\ \A k \in s.wrongKeys \cap WrongKeys : ~Passed(s, k)
      BY <1>1, <3>1 DEF SweepOK, Ahead
    <3>4. ASSUME NEW k \in s.wrongKeys \cap WrongKeys, Passed(e, k) PROVE FALSE
      <4>1. k \in Slots /\ k[1] \in Nat /\ k[2] \in Nat /\ keys[k].versions > 0 /\ ~Passed(s, k)
        BY <1>4, <2>1, <3>3 DEF Slots
      <4>2. k[1] = s.prefix /\ k[2] <= number /\ ~(k[2] <= s.key)
        BY <1>1, <1>9, <3>4, <4>1 DEF Passed
      <4>3. k[2] > s.key
        BY <1>4, <4>1, <4>2
      <4>4. k \in NextKeys(s)
        BY <4>1, <4>2, <4>3 DEF NextKeys
      <4>5. k[2] = key[2]
        BY <1>2, <1>3, <4>1, <4>2, <4>4 DEF number
      <4>6. k = key
        BY <1>3, <4>1, <4>2, <4>5 DEF Slots
      <4> QED
        BY <3>2, <4>6
    <3> QED
      BY <3>3, <3>4
  <2> QED
    BY <1>9, <2>1, <2>2 DEF Ahead
<1>13. s.from # <<>> /\ s.from \in Places /\ s.from[1] # "complete"
       /\ (s.from[1] = "listing" => s.from[3] < s.prefix \/ (s.from[3] = s.prefix /\ s.from[4] <= s.key))
  BY <1>1 DEF SweepOK, BegunOnce, Behind
<1>14. BegunOnce(e)
  BY <1>1, <1>9, <1>13 DEF SweepOK, BegunOnce
<1>15. s.from[1] = "listing" => s.from[3] < s.prefix \/ (s.from[3] = s.prefix /\ s.from[4] < number)
  <2>1. s.from[4] \in Nat /\ s.key < number
    BY <1>3, <1>13 DEF Places, number
  <2>2. s.from[4] <= s.key => s.from[4] < number
    BY <1>4, <1>6, <2>1
  <2> QED
    BY <1>13, <2>2
<1>16. Behind(e)
  <2>1. s.from[3] \in Nat /\ s.from[4] \in Nat
    BY <1>13 DEF Places
  <2>2. s.from[1] = "listing" => s.from[3] < s.prefix \/ (s.from[3] = s.prefix /\ s.from[4] <= number)
    BY <1>6, <1>15, <2>1
  <2>3. Position(e) # s.from
    <3>1. Position(e)[1] = "listing" /\ Position(e)[3] = s.prefix /\ Position(e)[4] = number
      BY <1>9 DEF Position
    <3>2. ~(s.prefix < s.prefix) /\ ~(number < number)
      BY <1>4, <1>6
    <3> QED
      BY <1>15, <3>1, <3>2
  <2> QED
    BY <1>9, <1>13, <2>2, <2>3 DEF Behind
<1>17. KeepsBytes(e)
  BY <1>1, <1>9 DEF SweepOK, KeepsBytes, Bounded
<1>18. SweepOK(e)
  BY <1>8, <1>11, <1>12, <1>14, <1>16, <1>17 DEF SweepOK
<1> QED
  BY <1>1, <1>5, <1>18, Becomes

\* The next prefix: a listing is left when no key of it is, or as a failure.
LEMMA FollowingIsOK ==
  ASSUME SweepAssumption, StoreTypes, NEW s, SweepOK(s), s.open, s.phase = "listing",
         NEW failed \in Nat, failed = s.failed + 1 \/ (failed = s.failed /\ NextKeys(s) = {})
  PROVE  SweepOK([Following(s) EXCEPT !.failed = failed])
<1> DEFINE more == s.prefix < StorePrefixes
           phase == IF more THEN "listing" ELSE "complete"
           open == more
           prefix == IF more THEN s.prefix + 1 ELSE s.prefix
           number == IF more THEN 0 ELSE s.key
           e == [s EXCEPT !.phase = phase, !.open = open, !.prefix = prefix, !.key = number, !.failed = failed]
<1>1. /\ s \in SweepRow(s.planned) /\ s.prefix \in 1..StorePrefixes /\ s.key \in Nat /\ s.failed \in Nat
      /\ s.prefix \in Nat /\ StorePrefixes \in Nat /\ s.open = TRUE /\ s.seen \in SUBSET (Nat \X Nat)
      /\ s.wrongKeys \in SUBSET Slots
  <2>1. s \in SweepRow(s.planned) /\ StorePrefixes \in Nat
    BY DEF SweepOK, SweepAssumption
  <2> HIDE DEF more, phase, open, prefix, number, e
  <2>2. s.prefix \in 1..StorePrefixes /\ s.key \in Nat /\ s.failed \in Nat /\ s.open \in BOOLEAN
        /\ s.seen \in SUBSET (Nat \X Nat) /\ s.wrongKeys \in SUBSET Slots
    BY <2>1 DEF SweepRow
  <2> QED
    BY <2>1, <2>2
<1>2. [Following(s) EXCEPT !.failed = failed] = e
  <2>1. CASE more
    BY <1>1, <2>1 DEF Following, SweepRow
  <2>2. CASE ~more
    <3>1. Following(s) = [s EXCEPT !.phase = "complete", !.open = FALSE]
      BY <2>2 DEF Following
    <3>2. e = [s EXCEPT !.phase = "complete", !.open = FALSE, !.prefix = s.prefix, !.key = s.key,
                 !.failed = failed]
      <4>1. phase = "complete" /\ open = FALSE /\ prefix = s.prefix /\ number = s.key
        BY <2>2
      <4> HIDE DEF more, phase, open, prefix, number
      <4> QED
        BY <4>1
    <3> HIDE DEF e
    <3> QED
      BY <1>1, <3>1, <3>2 DEF SweepRow
  <2> QED
    BY <2>1, <2>2
<1>3. phase \in SweepPhase /\ open \in BOOLEAN /\ prefix \in 1..StorePrefixes /\ number \in Nat
  BY <1>1 DEF SweepPhase
<1>4. phase # "records" /\ (open => phase = "listing" /\ prefix = s.prefix + 1 /\ number = 0)
      /\ (~open => phase = "complete" /\ prefix = s.prefix /\ number = s.key /\ s.prefix = StorePrefixes)
  BY <1>1
<1> HIDE DEF more, phase, open, prefix, number
<1>5. e \in SweepRow(e.planned)
  BY <1>1, <1>3 DEF SweepRow
<1>6. /\ e.phase = phase /\ e.open = open /\ e.after = s.after /\ e.prefix = prefix
      /\ e.key = number /\ e.from = s.from /\ e.once = s.once /\ e.checked = s.checked
      /\ e.planned = s.planned /\ e.total = s.total /\ e.seen = s.seen
      /\ e.wrong = s.wrong /\ e.wrongKeys = s.wrongKeys /\ e.budget = s.budget
      /\ e.failed = failed /\ e.unverified = s.unverified
  BY <1>1 DEF SweepRow
<1> HIDE DEF e
<1>7. CountedOnce(e)
  <2>1. IsFiniteSet(s.seen) /\ s.total = Cardinality(s.seen) /\ \A x \in s.seen : x[1] # 0 => Passed(s, x)
    BY DEF SweepOK, CountedOnce
  <2>2. ASSUME NEW x \in s.seen, x[1] # 0 PROVE Passed(e, x)
    <3>1. x[1] \in Nat /\ x[2] \in Nat
      BY <1>1
    <3>2. x[1] < s.prefix \/ (x[1] = s.prefix /\ x[2] <= s.key)
      BY <2>1, <2>2 DEF Passed
    <3>3. x[1] < prefix \/ (x[1] = prefix /\ x[2] <= number)
      BY <1>1, <1>3, <1>4, <3>1, <3>2
    <3> QED
      BY <1>4, <1>6, <3>3 DEF Passed
  <2> QED
    BY <1>4, <1>6, <2>1, <2>2 DEF CountedOnce
<1>8. Ahead(e)
  <2>1. \A k \in s.wrongKeys : keys[k].versions > 0
    BY DEF SweepOK, Ahead
  <2>2. ASSUME failed = 0, s.unverified = 0
        PROVE  /\ s.wrong \cap WrongRows = {}
               /\ \A k \in s.wrongKeys \cap WrongKeys : phase # "complete" /\ ~Passed(e, k)
    <3>1. s.failed = 0 /\ NextKeys(s) = {}
      BY <1>1, <2>2
    <3>2. s.wrong \cap WrongRows = {} /\ \A k \in s.wrongKeys \cap WrongKeys : ~Passed(s, k)
      BY <2>2, <3>1 DEF SweepOK, Ahead
    <3>3. ASSUME NEW k \in s.wrongKeys \cap WrongKeys PROVE phase # "complete" /\ ~Passed(e, k)
      <4>1. /\ k \in Slots /\ keys[k].versions > 0 /\ ~Passed(s, k)
            /\ k[1] \in 1..StorePrefixes /\ k[1] \in Nat /\ k[2] \in Nat /\ k[2] > 0
        BY <1>1, <2>1, <3>2 DEF Slots
      <4>2. ~(k[1] < s.prefix) /\ ~(k[1] = s.prefix /\ k[2] <= s.key)
        BY <4>1 DEF Passed
      <4>3. ~(k[1] = s.prefix /\ k[2] > s.key)
        BY <3>1, <4>1 DEF NextKeys
      <4>4. k[1] > s.prefix
        BY <1>1, <4>1, <4>2, <4>3
      <4>5. open
        BY <1>1, <1>4, <4>1, <4>4
      <4>6. phase = "listing" /\ prefix = s.prefix + 1 /\ number = 0
        BY <1>4, <4>5
      <4>7. ~(k[1] < prefix) /\ ~(k[2] <= number)
        BY <1>1, <4>1, <4>4, <4>6
      <4> QED
        BY <1>6, <4>6, <4>7 DEF Passed
    <3> QED
      BY <3>2, <3>3
  <2> QED
    BY <1>6, <2>1, <2>2 DEF Ahead
<1>9. s.from # <<>> /\ s.from \in Places /\ s.from[1] # "complete"
      /\ (s.from[1] = "listing" => s.from[3] < s.prefix \/ (s.from[3] = s.prefix /\ s.from[4] <= s.key))
  BY DEF SweepOK, BegunOnce, Behind
<1>10. BegunOnce(e)
  BY <1>4, <1>6, <1>9 DEF SweepOK, BegunOnce
<1>11. Behind(e)
  <2>1. open => (s.from[1] = "listing" => s.from[3] < prefix)
    <3>1. s.from[3] \in Nat
      BY <1>9 DEF Places
    <3> QED
      BY <1>1, <1>4, <1>9, <3>1
  <2>2. ~open => Position(e) # s.from
    <3>1. Position(e)[1] = phase
      BY <1>6 DEF Position
    <3> QED
      BY <1>4, <1>9, <3>1
  <2> QED
    BY <1>4, <1>6, <1>9, <2>1, <2>2 DEF Behind
<1>12. KeepsBytes(e)
  BY <1>6 DEF SweepOK, KeepsBytes, Bounded
<1> QED
  BY <1>2, <1>5, <1>7, <1>8, <1>10, <1>11, <1>12 DEF SweepOK

\* A prefix ends, or its listing fails.
LEMMA PrefixKeeps ==
  ASSUME SweepAssumption, SweepInv, EndPrefix \/ ListingFails PROVE SweepInv'
<1>1. /\ StoreTypes /\ SweepOK(sweep) /\ sweep.open /\ sweep.phase = "listing" /\ rows' = rows /\ keys' = keys
      /\ sweep \in SweepRow(sweep.planned) /\ sweep.failed \in Nat
  BY DEF EndPrefix, ListingFails, SweepInv, SweepOK, SweepRow
<1>2. CASE EndPrefix
  <2>1. SweepOK([Following(sweep) EXCEPT !.failed = sweep.failed])
    BY <1>1, <1>2, FollowingIsOK DEF EndPrefix
  <2>2. [Following(sweep) EXCEPT !.failed = sweep.failed] = Following(sweep)
    BY <1>1 DEF Following, SweepRow
  <2> QED
    BY <1>1, <1>2, <2>1, <2>2, Becomes DEF EndPrefix
<1>3. CASE ListingFails
  <2>1. sweep.failed + 1 \in Nat
    BY <1>1
  <2>2. SweepOK(Unlisted(sweep))
    BY <1>1, <2>1, FollowingIsOK DEF Unlisted
  <2> QED
    BY <1>1, <1>3, <2>2, Becomes DEF ListingFails
<1> QED
  BY <1>2, <1>3

\* No step of a sweep, and none beside it, takes it from what it owes.
LEMMA SweepKeeps ==
  ASSUME SweepAssumption, SweepInv, [SweepNext]_sweepVars PROVE SweepInv'
<1>1. CASE \E key \in Slots : WriteKey(key) \/ \E id \in RecordIds, cost \in Costs : Record(id, key, cost)
  BY <1>1, MeanwhileKeeps
<1>2. CASE \E budget \in Budgets : StartSweep(budget)
  BY <1>2, StartKeeps
<1>3. CASE EndSweep
  BY <1>3 DEF EndSweep, SweepInv, StoreTypes
<1>4. CASE UNCHANGED sweepVars
  <2>1. StoreTypes' /\ sweep' = sweep /\ rows' = rows /\ keys' = keys /\ StoreTypes
    BY <1>4 DEF sweepVars, SweepInv, StoreTypes
  <2> QED
    BY <2>1, Becomes DEF SweepInv
<1> QED
  BY <1>1, <1>2, <1>3, <1>4, BeginSliceKeeps, CheckPageKeeps, ListKeyKeeps, PrefixKeeps DEF SweepNext

\* What the promise is to the invariant.
LEMMA SweepPromises ==
  ASSUME SweepAssumption, SweepInv PROVE SweepIsTrue
<1>1. ASSUME sweep # NoSweep PROVE SweepOK(sweep) /\ sweep.from \in {<<>>} \cup Places
  BY <1>1 DEF SweepInv, SweepOK, SweepRow
<1>2. ValidRunSawAll
  <2> SUFFICES ASSUME sweep # NoSweep
               PROVE  /\ sweep.total = Cardinality(sweep.seen)
                      /\ sweep.phase = "complete" =>
                            /\ sweep.once = 1
                            /\ sweep.failed = 0 /\ sweep.unverified = 0 =>
                                  (sweep.wrong \cap WrongRows) \cup (sweep.wrongKeys \cap WrongKeys) = {}
    BY DEF ValidRunSawAll
  <2>1. sweep.total = Cardinality(sweep.seen)
    BY <1>1 DEF SweepOK, CountedOnce
  <2>2. ASSUME sweep.phase = "complete" PROVE sweep.once = 1
    BY <1>1, <2>2 DEF SweepOK, BegunOnce
  <2>3. ASSUME sweep.phase = "complete", sweep.failed = 0, sweep.unverified = 0
        PROVE  sweep.wrong \cap WrongRows = {} /\ sweep.wrongKeys \cap WrongKeys = {}
    BY <1>1, <2>3 DEF SweepOK, Ahead
  <2> QED
    BY <2>1, <2>2, <2>3
<1>3. SlicesAdvance
  BY <1>1 DEF SlicesAdvance, SweepOK, Behind, KeepsBytes
<1> QED
  BY <1>2, <1>3 DEF SweepIsTrue

\* A verification of the store in slices, whatever is recorded meanwhile and
\* however small its budgets: valid slices have between them counted every record
\* and key once and seen all that was wrong at their beginning and still is, and
\* each moves on and keeps to its bytes (verify_store, _within_budget).
THEOREM SweepsSeeAll ==
  ASSUME SweepAssumption PROVE SweepSpec => []SweepIsTrue
<1>1. SweepInit => SweepInv
  BY SweepStarts
<1>2. SweepInv /\ [SweepNext]_sweepVars => SweepInv'
  BY SweepKeeps
<1>3. SweepInv => SweepIsTrue
  BY SweepPromises
<1> QED
  BY <1>1, <1>2, <1>3, PTL DEF SweepSpec
=============================================================================
