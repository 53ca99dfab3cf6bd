------------------------- MODULE AuditArchiveProofs -------------------------
(***************************************************************************)
(* Theorems about AuditWitness and AuditArchive, for any number of         *)
(* databases, publishers, restores and archives: a head that a publisher   *)
(* takes as published is in the bucket, a published row that was lost is   *)
(* found, and a history that stands is not called broken, through any      *)
(* number of generations.                                                  *)
(***************************************************************************)
EXTENDS AuditArchive, SequenceTheorems, TLAPS

IsSeq(s) == s \in Seq(ToSet(s))

IsFun(f, S) == f = [x \in S |-> f[x]]

\* What a manifest rests on, in a set of manifests: Lineage as an operator on it.
Closed(S, M) == \A g \in S : g.source \in M => g.source \in S

LineageIn(m, M) ==
    {g \in M \cup {m} : \A S \in SUBSET (M \cup {m}) : m \in S /\ Closed(S, M) => g \in S}

\* The manifest that the first row of a log names.
Source(rows) == IF Anchored(rows) THEN rows[1].manifest ELSE NoSource

\* The final head of each archive that a manifest rests on was published among
\* these objects.
Backed(m, stored, M) ==
    /\ Cardinality(LineageIn(m, M)) <= MaxLineage
    /\ \A g \in LineageIn(m, M) : g \in M /\ \E o \in stored : o.head = g.final

\* What is true of the head of a log, whoever read it, and whenever.
Sound(head, stored, M) ==
    /\ IsSeq(head) /\ head # <<>>
    /\ Anchored(head) => Backed(Source(head), stored, M)

LogsOK ==
    /\ IsFun(log, Databases)
    /\ \A d \in Databases : log[d] # <<>> => Sound(log[d], Stored, manifests)

CallsOK ==
    /\ IsFun(pub, Publishers)
    /\ \A p \in Publishers :
          pub[p] # NoCall => Sound(pub[p].head, Stored, manifests) /\ pub[p].stamp \in Int

\* An object's key is its head's, and what the head rests on was there before.
ObjectsOK ==
    /\ IsSeq(objects)
    /\ \A i \in 1..Len(objects) :
          /\ objects[i].chain = Chain(objects[i].head) /\ objects[i].id = Len(objects[i].head)
          /\ Sound(objects[i].head, {objects[j] : j \in 1..(i - 1)}, manifests)

RememberedOK == IsFun(remembered, Publishers) /\ RememberedArePublished

ArchivingOK ==
    /\ archiving = [step |-> archiving.step, db |-> archiving.db, head |-> archiving.head,
                    stamp |-> archiving.stamp, source |-> archiving.source]
    /\ archiving.step # "idle" =>
          /\ Sound(archiving.head, Stored, manifests) /\ archiving.stamp \in Int
          /\ archiving.source = Source(archiving.head)
    /\ archiving.step = "published" => Published(archiving.head)

\* A manifest is never among those its own source rests on.
ManifestsOK ==
    /\ NoSource \notin manifests
    /\ \A m \in manifests :
          /\ Sound(m.final, Stored, manifests) /\ Published(m.final)
          /\ m.chain = Chain(m.final) /\ m.source = Source(m.final)
          /\ m.source \in manifests => m \notin LineageIn(m.source, manifests)

AInv ==
    /\ LogsOK /\ CallsOK /\ ObjectsOK /\ RememberedOK /\ ArchivingOK /\ ManifestsOK

-----------------------------------------------------------------------------
(* Heads: sequences, their prefixes and their chains.                      *)

LEMMA InSeq == ASSUME NEW T, NEW s \in Seq(T) PROVE IsSeq(s)
<1>1. Len(s) \in Nat /\ DOMAIN s = 1..Len(s) /\ s \in [1..Len(s) -> T]
  BY LenProperties
<1>2. s \in [1..Len(s) -> ToSet(s)]
  BY <1>1 DEF ToSet
<1> QED
  BY <1>1, <1>2, SeqDef DEF IsSeq

LEMMA SeqFacts ==
    ASSUME NEW s, IsSeq(s)
    PROVE  /\ Len(s) \in Nat /\ DOMAIN s = 1..Len(s)
           /\ s # <<>> => Len(s) > 0
           /\ ToSet(s) = {s[i] : i \in 1..Len(s)}
<1>1. s \in Seq(ToSet(s))
  BY DEF IsSeq
<1>2. Len(s) \in Nat /\ DOMAIN s = 1..Len(s) /\ (s # <<>> => Len(s) \in Nat \ {0})
  BY <1>1, LenProperties, EmptySeq
<1> QED
  BY <1>2 DEF ToSet

LEMMA Appended ==
    ASSUME NEW s, IsSeq(s), NEW x
    PROVE  /\ IsSeq(Append(s, x)) /\ Append(s, x) # <<>>
           /\ Len(Append(s, x)) = Len(s) + 1
           /\ \A i \in 1..Len(s) : Append(s, x)[i] = s[i]
           /\ Append(s, x)[Len(s) + 1] = x
<1>1. s \in Seq(ToSet(s) \cup {x})
  BY SeqMonotonic DEF IsSeq
<1>2. Append(s, x) \in Seq(ToSet(s) \cup {x}) /\ Len(s) \in Nat
  BY <1>1, LenProperties
<1>3. IsSeq(Append(s, x))
  BY <1>2, InSeq
<1>4. /\ Len(Append(s, x)) = Len(s) + 1
      /\ \A i \in 1..Len(s) : Append(s, x)[i] = s[i]
      /\ Append(s, x)[Len(s) + 1] = x
  BY <1>1, <1>2
<1> QED
  BY <1>2, <1>3, <1>4, EmptySeq

LEMMA Cut ==
    ASSUME NEW s, IsSeq(s), NEW n \in 0..Len(s)
    PROVE  /\ IsSeq(SubSeq(s, 1, n)) /\ Len(SubSeq(s, 1, n)) = n
           /\ \A i \in 1..n : SubSeq(s, 1, n)[i] = s[i]
<1>1. Len(s) \in Nat /\ n \in Int
  BY SeqFacts
<1>2. \A i \in 1..n : s[i] \in ToSet(s)
  BY <1>1, SeqFacts
<1>3. /\ SubSeq(s, 1, n) \in Seq(ToSet(s))
      /\ Len(SubSeq(s, 1, n)) = (IF 1 <= n THEN n - 1 + 1 ELSE 0)
      /\ \A i \in 1..(n - 1 + 1) : SubSeq(s, 1, n)[i] = s[1 + i - 1]
  BY <1>1, <1>2, SubSeqProperties
<1>4. IsSeq(SubSeq(s, 1, n))
  BY <1>3, InSeq
<1>5. \A i \in 1..n : SubSeq(s, 1, n)[i] = s[i]
  BY <1>1, <1>3
<1> QED
  BY <1>1, <1>3, <1>4, <1>5

\* A chain is known by its first row.
LEMMA SameChain ==
    ASSUME NEW s, IsSeq(s), s # <<>>, NEW t, IsSeq(t), t # <<>>
    PROVE  Chain(s) = Chain(t) <=> s[1] = t[1]
<1>1. 1 \in 0..Len(s) /\ 1 \in 0..Len(t)
  BY SeqFacts
<1>2. Len(Chain(s)) = 1 /\ Chain(s)[1] = s[1] /\ Len(Chain(t)) = 1 /\ Chain(t)[1] = t[1]
  BY <1>1, Cut DEF Chain
<1>3. IsSeq(Chain(s)) /\ IsSeq(Chain(t))
  BY <1>1, Cut DEF Chain
<1>4. Chain(s) \in Seq(ToSet(Chain(s)) \cup ToSet(Chain(t)))
      /\ Chain(t) \in Seq(ToSet(Chain(s)) \cup ToSet(Chain(t)))
  BY <1>3, SeqMonotonic DEF IsSeq
<1>5. ASSUME s[1] = t[1] PROVE Chain(s) = Chain(t)
  BY <1>2, <1>4, <1>5, SeqEqual
<1> QED
  BY <1>2, <1>5

\* A prefix is of the same chain, and the whole when it is as long.
LEMMA PrefixIs ==
    ASSUME NEW s, IsSeq(s), s # <<>>, NEW t, IsSeq(t), IsPrefix(s, t)
    PROVE  /\ t # <<>> /\ s[1] = t[1] /\ Chain(s) = Chain(t)
           /\ Len(s) <= Len(t) /\ (Len(s) = Len(t) => s = t)
<1>1. Len(s) \in Nat /\ Len(s) > 0 /\ Len(t) \in Nat /\ Len(s) <= Len(t)
  BY SeqFacts DEF IsPrefix
<1>2. SubSeq(s, 1, Len(s)) = SubSeq(t, 1, Len(s))
  BY DEF IsPrefix
<1>3. SubSeq(s, 1, Len(s)) = s
  BY SubSeqFull DEF IsSeq
<1>4. s[1] = t[1]
  BY <1>1, <1>2, <1>3, Cut
<1>5. t # <<>>
  BY <1>1, EmptySeq
<1>6. Chain(s) = Chain(t)
  BY <1>4, <1>5, SameChain
<1>7. Len(s) = Len(t) => SubSeq(t, 1, Len(s)) = t
  BY SubSeqFull DEF IsSeq
<1> QED
  BY <1>1, <1>2, <1>3, <1>4, <1>5, <1>6, <1>7

\* What a log's first row names is known by it.
LEMMA SameSource ==
    ASSUME NEW s, s # <<>>, NEW t, t # <<>>, s[1] = t[1]
    PROVE  Source(s) = Source(t) /\ (Anchored(s) <=> Anchored(t))
BY DEF Source, Anchored

-----------------------------------------------------------------------------
(* What a manifest rests on.                                               *)

LEMMA LineageIs == \A m : Lineage(m) = LineageIn(m, manifests)
BY DEF Lineage, LineageIn, Descends, Closed

LEMMA LineageLeast ==
    ASSUME NEW M, NEW m \in M, NEW S \in SUBSET M, m \in S, Closed(S, M)
    PROVE  LineageIn(m, M) \subseteq S
BY DEF LineageIn

LEMMA LineageHolds ==
    ASSUME NEW M, NEW m \in M
    PROVE  /\ LineageIn(m, M) \in SUBSET M /\ m \in LineageIn(m, M)
           /\ Closed(LineageIn(m, M), M)
<1>1. LineageIn(m, M) \in SUBSET M /\ m \in LineageIn(m, M)
  BY DEF LineageIn
<1>2. ASSUME NEW g \in LineageIn(m, M), g.source \in M PROVE g.source \in LineageIn(m, M)
  <2>1. ASSUME NEW S \in SUBSET (M \cup {m}), m \in S, Closed(S, M) PROVE g.source \in S
    <3>1. g \in S
      BY <2>1 DEF LineageIn
    <3> QED
      BY <1>2, <2>1, <3>1 DEF Closed
  <2> QED
    BY <1>2, <2>1 DEF LineageIn
<1> QED
  BY <1>1, <1>2 DEF Closed

\* What is rested on is rested on with all it rests on itself.
LEMMA LineageDown ==
    ASSUME NEW M, NEW m \in M, NEW g \in LineageIn(m, M)
    PROVE  g \in M /\ LineageIn(g, M) \subseteq LineageIn(m, M)
<1>1. LineageIn(m, M) \in SUBSET M /\ Closed(LineageIn(m, M), M)
  BY LineageHolds
<1> QED
  BY <1>1, LineageLeast

LEMMA LineageStep ==
    ASSUME NEW M, NEW m \in M
    PROVE  LineageIn(m, M) = {m} \cup (IF m.source \in M THEN LineageIn(m.source, M) ELSE {})
<1>1. CASE m.source \in M
  <2>1. LineageIn(m.source, M) \in SUBSET M /\ m.source \in LineageIn(m.source, M)
        /\ Closed(LineageIn(m.source, M), M)
    BY <1>1, LineageHolds
  <2>2. LineageIn(m, M) \subseteq {m} \cup LineageIn(m.source, M)
    <3>1. Closed({m} \cup LineageIn(m.source, M), M)
      BY <2>1 DEF Closed
    <3> QED
      BY <2>1, <3>1, LineageLeast
  <2>3. m \in LineageIn(m, M) /\ m.source \in LineageIn(m, M)
    BY <1>1, LineageHolds DEF Closed
  <2>4. LineageIn(m.source, M) \subseteq LineageIn(m, M)
    BY <2>3, LineageDown
  <2> QED
    BY <1>1, <2>2, <2>3, <2>4
<1>2. CASE m.source \notin M
  <2>1. Closed({m}, M)
    BY <1>2 DEF Closed
  <2>2. LineageIn(m, M) \subseteq {m}
    BY <2>1, LineageLeast
  <2> QED
    BY <1>2, <2>2, LineageHolds
<1> QED
  BY <1>1, <1>2

\* Of two manifests that one rests on, one rests on the other.
LEMMA LineageIsALine ==
    ASSUME NEW M, NEW m \in M, NEW g \in LineageIn(m, M), NEW h \in LineageIn(m, M)
    PROVE  g \in LineageIn(h, M) \/ h \in LineageIn(g, M)
<1> DEFINE L == LineageIn(m, M)
           S == {x \in L : \A y \in L : x \in LineageIn(y, M) \/ y \in LineageIn(x, M)}
<1>1. L \in SUBSET M /\ m \in L /\ Closed(L, M)
  BY LineageHolds
<1>2. m \in S
  BY <1>1
<1>3. ASSUME NEW x \in S, x.source \in M PROVE x.source \in S
  <2>1. x \in L /\ x.source \in L /\ x \in M
    BY <1>1, <1>3 DEF Closed
  <2>2. ASSUME NEW y \in L PROVE x.source \in LineageIn(y, M) \/ y \in LineageIn(x.source, M)
    <3>1. y \in M
      BY <1>1
    <3>2. CASE x \in LineageIn(y, M)
      <4>1. Closed(LineageIn(y, M), M)
        BY <3>1, LineageHolds
      <4> QED
        BY <1>3, <3>2, <4>1 DEF Closed
    <3>3. CASE y \in LineageIn(x, M)
      <4>1. y = x \/ y \in LineageIn(x.source, M)
        BY <1>3, <2>1, <3>3, LineageStep
      <4>2. x.source \in LineageIn(x, M)
        BY <1>3, <2>1, LineageHolds DEF Closed
      <4> QED
        BY <4>1, <4>2
    <3> QED
      BY <3>2, <3>3
  <2> QED
    BY <2>1, <2>2
<1>4. Closed(S, M)
  BY <1>3 DEF Closed
<1>5. L \subseteq S
  <2>1. S \in SUBSET M
    BY <1>1
  <2> HIDE DEF S
  <2> QED
    BY <1>2, <1>4, <2>1, LineageLeast
<1> QED
  BY <1>5

\* Another manifest that nothing rests on changes no lineage.
LEMMA LineageStands ==
    ASSUME NEW M, NEW x, x \notin M, NEW m \in M,
           \A g \in M : g.source # x
    PROVE  LineageIn(m, M \cup {x}) = LineageIn(m, M)
<1> DEFINE N == M \cup {x}
           L == LineageIn(m, M)
           K == LineageIn(m, N)
<1>1. L \in SUBSET M /\ m \in L /\ Closed(L, M)
  BY LineageHolds
<1>2. K \in SUBSET N /\ m \in K /\ Closed(K, N)
  BY LineageHolds
<1>3. K \subseteq L
  <2>1. Closed(L, N)
    BY <1>1 DEF Closed
  <2> QED
    BY <1>1, <2>1, LineageLeast
<1>4. L \subseteq K
  <2>1. K \in SUBSET M
    BY <1>1, <1>3
  <2>2. Closed(K, M)
    BY <1>2 DEF Closed
  <2> QED
    BY <1>2, <2>1, <2>2, LineageLeast
<1> QED
  BY <1>3, <1>4

-----------------------------------------------------------------------------
(* The steps.                                                              *)

\* What is sound stays so, as the bucket grows and manifests are added.
LEMMA StaysSound ==
    ASSUME NEW S, NEW T, S \subseteq T, NEW M, NEW N, M \subseteq N,
           \A m \in M : LineageIn(m, N) = LineageIn(m, M),
           NEW h, Sound(h, S, M)
    PROVE  Sound(h, T, N)
<1> SUFFICES ASSUME Anchored(h) PROVE Backed(Source(h), T, N)
  BY DEF Sound
<1>1. Backed(Source(h), S, M)
  BY DEF Sound
<1>2. Source(h) \in LineageIn(Source(h), M)
  BY DEF LineageIn
<1>3. Source(h) \in M
  BY <1>1, <1>2 DEF Backed
<1> QED
  BY <1>1, <1>3 DEF Backed

\* What the source of a sound head names is there.
LEMMA SourceIsThere ==
    ASSUME NEW S, NEW M, NEW h, Sound(h, S, M)
    PROVE  Anchored(h) => Source(h) \in M
<1>1. Source(h) \in LineageIn(Source(h), M)
  BY DEF LineageIn
<1> QED
  BY <1>1 DEF Sound, Backed

\* A head with the same first row is as sound.
LEMMA SoundByRow ==
    ASSUME NEW S, NEW M, NEW h, Sound(h, S, M), NEW t, IsSeq(t), t # <<>>, t[1] = h[1]
    PROVE  Sound(t, S, M)
BY SameSource DEF Sound

\* Nothing but the log, the calls and the archiving that one says changes.
LEMMA Unmoved ==
    ASSUME AInv, UNCHANGED <<objects, manifests>>
    PROVE  /\ Stored' = Stored
           /\ ObjectsOK' /\ ManifestsOK'
           /\ log' = log => LogsOK'
           /\ pub' = pub => CallsOK'
           /\ remembered' = remembered => RememberedOK'
           /\ archiving' = archiving => ArchivingOK'
<1>1. Stored' = Stored
  BY DEF Stored
<1>2. ObjectsOK' /\ ManifestsOK'
  <2>1. UNCHANGED objects /\ UNCHANGED manifests
    OBVIOUS
  <2>2. ObjectsOK'
    BY <2>1 DEF AInv, ObjectsOK
  <2>3. ManifestsOK'
    BY <1>1, <2>1 DEF AInv, ManifestsOK, Published
  <2> QED
    BY <2>2, <2>3
<1>3. log' = log => LogsOK'
  BY <1>1 DEF AInv, LogsOK
<1>4. pub' = pub => CallsOK'
  BY <1>1 DEF AInv, CallsOK
<1>5. remembered' = remembered => RememberedOK'
  BY <1>1 DEF AInv, RememberedOK, RememberedArePublished, Published
<1>6. archiving' = archiving => ArchivingOK'
  BY <1>1 DEF AInv, ArchivingOK, Published
<1> QED
  BY <1>1, <1>2, <1>3, <1>4, <1>5, <1>6

LEMMA AppendStep ==
    ASSUME AInv, NEW d \in Databases, log' = [log EXCEPT ![d] = Append(@, Row(d))],
           UNCHANGED <<objects, pub, remembered, avars>>
    PROVE  AInv'
<1>1. UNCHANGED <<objects, manifests>> /\ UNCHANGED pub /\ UNCHANGED remembered /\ UNCHANGED archiving
  BY DEF avars
<1>2. IsFun(log, Databases) /\ IsSeq(log[d])
  <2>1. IsSeq(<<>>)
    BY EmptySeq, InSeq
  <2> QED
    BY <2>1 DEF AInv, LogsOK, Sound
<1>3. IsSeq(Append(log[d], Row(d))) /\ Append(log[d], Row(d)) # <<>>
      /\ (log[d] # <<>> => Append(log[d], Row(d))[1] = log[d][1])
      /\ (log[d] = <<>> => Append(log[d], Row(d))[1] = Row(d))
  <2>1. Len(log[d]) \in Nat /\ (log[d] # <<>> => Len(log[d]) > 0) /\ Len(<<>>) = 0
    BY <1>2, SeqFacts, EmptySeq
  <2> QED
    BY <1>2, <2>1, Appended
<1>4. Sound(Append(log[d], Row(d)), Stored, manifests)
  <2>1. CASE log[d] # <<>>
    BY <1>3, <2>1, SoundByRow DEF AInv, LogsOK
  <2>2. CASE log[d] = <<>>
    <3>1. ~IsAnchor(Row(d))
      BY DEF IsAnchor, Row
    <3> QED
      BY <1>3, <2>2, <3>1 DEF Sound, Anchored
  <2> QED
    BY <2>1, <2>2
<1>5. IsFun(log', Databases) /\ log'[d] = Append(log[d], Row(d))
      /\ \A x \in Databases : x # d => log'[x] = log[x]
  BY <1>2 DEF IsFun
<1>6. LogsOK'
  BY <1>1, <1>4, <1>5, Unmoved DEF LogsOK, AInv
<1> QED
  BY <1>1, <1>6, Unmoved DEF AInv

LEMMA RestoreStep ==
    ASSUME AInv, NEW d \in Databases, Restore(d), UNCHANGED avars PROVE AInv'
<1>1. UNCHANGED <<objects, manifests>> /\ UNCHANGED pub /\ UNCHANGED remembered /\ UNCHANGED archiving
  BY DEF avars, Restore
<1>2. PICK n \in 1..(Len(log[d]) - 1) : log' = [log EXCEPT ![d] = SubSeq(@, 1, n)]
  BY DEF Restore
<1>3. IsFun(log, Databases)
  BY DEF AInv, LogsOK
<1>4. log[d] # <<>>
  BY <1>2, EmptySeq
<1>5. Sound(log[d], Stored, manifests) /\ IsSeq(log[d])
  BY <1>4 DEF AInv, LogsOK, Sound
<1>6. n \in 0..Len(log[d]) /\ n >= 1
  BY <1>2, <1>5, SeqFacts
<1>7. IsSeq(SubSeq(log[d], 1, n)) /\ SubSeq(log[d], 1, n) # <<>> /\ SubSeq(log[d], 1, n)[1] = log[d][1]
  BY <1>5, <1>6, Cut, EmptySeq
<1>8. Sound(SubSeq(log[d], 1, n), Stored, manifests)
  BY <1>5, <1>7, SoundByRow
<1>9. IsFun(log', Databases) /\ log'[d] = SubSeq(log[d], 1, n)
      /\ \A x \in Databases : x # d => log'[x] = log[x]
  BY <1>2, <1>3 DEF IsFun
<1>10. LogsOK'
  BY <1>1, <1>8, <1>9, Unmoved DEF LogsOK, AInv
<1> QED
  BY <1>1, <1>10, Unmoved DEF AInv

LEMMA AnchorStep ==
    ASSUME AInv, NEW d \in Databases, NEW m \in manifests, Anchor(d, m) PROVE AInv'
<1> DEFINE rows == <<[manifest |-> m], Row(d)>>
<1>1. UNCHANGED <<objects, manifests>> /\ UNCHANGED pub /\ UNCHANGED remembered /\ UNCHANGED archiving
  BY DEF avars, Anchor
<1>2. AnchorHolds(m, Stored) /\ log' = [log EXCEPT ![d] = rows]
  BY DEF Anchor
<1>3. IsSeq(rows) /\ rows # <<>> /\ rows[1] = [manifest |-> m]
  <2>1. rows \in Seq({[manifest |-> m], Row(d)})
    OBVIOUS
  <2> QED
    BY <2>1, InSeq, EmptySeq
<1>4. Source(rows) = m
  BY <1>3 DEF Source, Anchored, IsAnchor
<1>5. Backed(m, Stored, manifests)
  BY <1>2, LineageIs DEF AnchorHolds, Backed, FinalHeadStands, ChainHeads
<1>6. Sound(rows, Stored, manifests)
  BY <1>3, <1>4, <1>5 DEF Sound
<1> HIDE DEF rows
<1>7. IsFun(log', Databases) /\ log'[d] = rows /\ \A x \in Databases : x # d => log'[x] = log[x]
  BY <1>2 DEF IsFun, AInv, LogsOK
<1>8. LogsOK'
  BY <1>1, <1>6, <1>7, Unmoved DEF LogsOK, AInv
<1> QED
  BY <1>1, <1>8, Unmoved DEF AInv

LEMMA ReadHeadStep ==
    ASSUME AInv, NEW p \in Publishers, ReadHead(p), UNCHANGED avars PROVE AInv'
<1>1. UNCHANGED <<objects, manifests>> /\ UNCHANGED log /\ UNCHANGED remembered /\ UNCHANGED archiving
  BY DEF avars, ReadHead, bases
<1>2. PICK t \in 1..MaxClock : pub' = [pub EXCEPT ![p] = [head |-> log[Serves[p]], stamp |-> t]]
  BY DEF ReadHead
<1>3. Sound(log[Serves[p]], Stored, manifests)
  BY WitnessAssumption DEF ReadHead, AInv, LogsOK
<1>4. /\ IsFun(pub', Publishers) /\ pub'[p] = [head |-> log[Serves[p]], stamp |-> t]
      /\ \A q \in Publishers : q # p => pub'[q] = pub[q]
  BY <1>2 DEF IsFun, AInv, CallsOK
<1>5. CallsOK'
  BY <1>1, <1>3, <1>4, Unmoved, WitnessAssumption DEF CallsOK, AInv
<1> QED
  BY <1>1, <1>5, Unmoved DEF AInv

\* A head that is put, or found, is at the key of the object, and nothing is lost.
LEMMA PutObject ==
    ASSUME AInv, UNCHANGED manifests,
           NEW call, Sound(call.head, Stored, manifests), call.stamp \in Int,
           Attempts(call) # {}, objects' = PutOnce(Target(call))
    PROVE  /\ ObjectsOK' /\ \E o \in Stored' : o.head = call.head
           /\ Stored \subseteq Stored'
<1> DEFINE x == Target(call)
<1>1. PICK k \in Attempts(call) : x = Object(call.head, call.stamp + k)
  <2>1. \E k \in Attempts(call) : \A n \in Attempts(call) : k <= n
    <3>1. Attempts(call) \in SUBSET {0, 1, 2, 3}
      BY DEF Attempts, Retries
    <3> QED
      BY <3>1
  <2>2. Min(Attempts(call)) \in Attempts(call)
    BY <2>1 DEF Min
  <2> QED
    BY <2>2 DEF Target
<1>2. FreeOrSame(x)
  BY <1>1 DEF Attempts
<1>3. /\ x.head = call.head /\ x.chain = Chain(x.head) /\ x.id = Len(x.head)
      /\ Sound(x.head, Stored, manifests)
  BY <1>1 DEF Object
<1> HIDE DEF x
<1>4. ObjectsOK /\ IsSeq(objects)
  BY DEF AInv, ObjectsOK
<1>5. Stored = {objects[i] : i \in 1..Len(objects)} /\ Len(objects) \in Nat
  BY <1>4, SeqFacts DEF Stored
<1>6. CASE \E o \in Stored : SameKey(o, x)
  <2>1. objects' = objects /\ x \in Stored
    BY <1>2, <1>6 DEF PutOnce, FreeOrSame, x
  <2>2. Stored' = Stored
    BY <2>1 DEF Stored
  <2> QED
    BY <1>3, <1>4, <2>1, <2>2 DEF ObjectsOK
<1>7. CASE ~\E o \in Stored : SameKey(o, x)
  <2>1. objects' = Append(objects, x)
    BY <1>7 DEF PutOnce, x
  <2>2. /\ IsSeq(objects') /\ Len(objects') = Len(objects) + 1
        /\ \A i \in 1..Len(objects) : objects'[i] = objects[i]
        /\ objects'[Len(objects) + 1] = x
    BY <1>4, <2>1, Appended
  <2>3. Stored' = {objects'[i] : i \in 1..Len(objects')}
    BY <2>2, SeqFacts DEF Stored
  <2>4. Stored \subseteq Stored' /\ x \in Stored'
    BY <1>5, <2>2, <2>3
  <2>5. ASSUME NEW i \in 1..Len(objects')
        PROVE  /\ objects'[i].chain = Chain(objects'[i].head)
               /\ objects'[i].id = Len(objects'[i].head)
               /\ Sound(objects'[i].head, {objects'[j] : j \in 1..(i - 1)}, manifests)
    <3>1. CASE i \in 1..Len(objects)
      <4>1. {objects'[j] : j \in 1..(i - 1)} = {objects[j] : j \in 1..(i - 1)}
        <5>1. \A j \in 1..(i - 1) : j \in 1..Len(objects)
          BY <1>5, <3>1
        <5>2. \A j \in 1..(i - 1) : objects'[j] = objects[j]
          BY <2>2, <5>1
        <5> QED
          BY <5>2
      <4> QED
        BY <1>4, <2>2, <3>1, <4>1 DEF ObjectsOK
    <3>2. CASE i = Len(objects) + 1
      <4>1. {objects'[j] : j \in 1..(i - 1)} = Stored
        BY <1>5, <2>2, <3>2
      <4> QED
        BY <1>3, <2>2, <3>2, <4>1
    <3> QED
      BY <1>5, <2>2, <3>1, <3>2
  <2>6. ObjectsOK'
    BY <2>2, <2>5 DEF ObjectsOK
  <2> QED
    BY <1>3, <2>4, <2>6
<1> QED
  BY <1>6, <1>7

\* As the bucket grows, all the rest stays as it was.
LEMMA BucketGrows ==
    ASSUME AInv, UNCHANGED manifests, Stored \subseteq Stored'
    PROVE  /\ ManifestsOK'
           /\ log' = log => LogsOK'
           /\ \A p \in Publishers : pub[p] # NoCall => Sound(pub[p].head, Stored', manifests')
           /\ \A p \in Publishers : remembered[p] # NoHead => \E o \in Stored' : o.head = remembered[p]
           /\ archiving' = archiving => ArchivingOK'
<1>1. PICK T : T = Stored'
  OBVIOUS
<1>2. \A h : Sound(h, Stored, manifests) => Sound(h, T, manifests)
  BY <1>1, StaysSound
<1>3. \A h : Published(h) => Published(h)'
  BY DEF Published
<1>4. ManifestsOK'
  BY <1>1, <1>2, <1>3 DEF AInv, ManifestsOK
<1>5. log' = log => LogsOK'
  BY <1>1, <1>2 DEF AInv, LogsOK
<1>6. archiving' = archiving => ArchivingOK'
  BY <1>1, <1>2, <1>3 DEF AInv, ArchivingOK
<1>7. \A p \in Publishers : pub[p] # NoCall => Sound(pub[p].head, Stored', manifests')
  BY <1>1, <1>2 DEF AInv, CallsOK
<1>8. \A p \in Publishers : remembered[p] # NoHead => \E o \in Stored' : o.head = remembered[p]
  BY DEF AInv, RememberedOK, RememberedArePublished, Published
<1> QED
  BY <1>4, <1>5, <1>6, <1>7, <1>8

LEMMA PutStep == ASSUME AInv, NEW p \in Publishers, Put(p), UNCHANGED avars PROVE AInv'
<1>1. UNCHANGED log /\ UNCHANGED manifests /\ UNCHANGED archiving
  BY DEF avars, Put, bases
<1>2. Sound(pub[p].head, Stored, manifests) /\ pub[p].stamp \in Int
  BY DEF Put, AInv, CallsOK
<1>3. ObjectsOK' /\ (\E o \in Stored' : o.head = pub[p].head) /\ Stored \subseteq Stored'
  BY <1>1, <1>2, PutObject DEF Put
<1>4. /\ IsFun(pub', Publishers) /\ pub'[p] = NoCall
      /\ \A q \in Publishers : q # p => pub'[q] = pub[q]
  BY DEF Put, IsFun, AInv, CallsOK
<1>5. /\ IsFun(remembered', Publishers) /\ remembered'[p] = pub[p].head
      /\ \A q \in Publishers : q # p => remembered'[q] = remembered[q]
  BY DEF Put, IsFun, AInv, RememberedOK
<1>6. CallsOK'
  BY <1>1, <1>3, <1>4, BucketGrows DEF CallsOK, AInv
<1>7. RememberedOK'
  BY <1>1, <1>3, <1>5, BucketGrows DEF RememberedOK, RememberedArePublished, Published
<1> QED
  BY <1>1, <1>3, <1>6, <1>7, BucketGrows DEF AInv

LEMMA PutFailsStep == ASSUME AInv, NEW p \in Publishers, PutFails(p), UNCHANGED avars PROVE AInv'
<1>1. UNCHANGED log /\ UNCHANGED manifests /\ UNCHANGED archiving /\ UNCHANGED remembered
  BY DEF avars, PutFails, bases
<1>2. /\ IsFun(pub', Publishers) /\ pub'[p] = NoCall
      /\ \A q \in Publishers : q # p => pub'[q] = pub[q]
  BY DEF PutFails, IsFun, AInv, CallsOK
<1>3. ObjectsOK' /\ Stored \subseteq Stored'
  <2>1. CASE objects' = objects
    BY <1>1, <2>1, Unmoved
  <2>2. CASE Attempts(pub[p]) # {} /\ objects' = PutOnce(Target(pub[p]))
    <3>1. Sound(pub[p].head, Stored, manifests) /\ pub[p].stamp \in Int
      BY DEF PutFails, AInv, CallsOK
    <3> QED
      BY <1>1, <2>2, <3>1, PutObject
  <2> QED
    BY <2>1, <2>2 DEF PutFails
<1>4. CallsOK'
  BY <1>1, <1>2, <1>3, BucketGrows DEF CallsOK, AInv
<1>5. RememberedOK'
  BY <1>1, <1>3, BucketGrows DEF AInv, RememberedOK, RememberedArePublished, Published
<1> QED
  BY <1>1, <1>3, <1>4, <1>5, BucketGrows DEF AInv

LEMMA ReplaceStep == ASSUME AInv, NEW p \in Publishers, Replace(p), UNCHANGED avars PROVE AInv'
<1>1. UNCHANGED <<objects, manifests>> /\ UNCHANGED log /\ UNCHANGED archiving
  BY DEF avars, Replace, bases
<1>2. /\ IsFun(pub', Publishers) /\ pub'[p] = NoCall
      /\ \A q \in Publishers : q # p => pub'[q] = pub[q]
  BY DEF Replace, IsFun, AInv, CallsOK
<1>3. /\ IsFun(remembered', Publishers) /\ remembered'[p] = NoHead
      /\ \A q \in Publishers : q # p => remembered'[q] = remembered[q]
  BY DEF Replace, IsFun, AInv, RememberedOK
<1>4. CallsOK'
  BY <1>1, <1>2, Unmoved DEF CallsOK, AInv
<1>5. RememberedOK'
  BY <1>1, <1>3, Unmoved DEF AInv, RememberedOK, RememberedArePublished, Published
<1> QED
  BY <1>1, <1>4, <1>5, Unmoved DEF AInv

-----------------------------------------------------------------------------
(* The steps of the cutover.                                               *)

LEMMA ReadChainStep == ASSUME AInv, NEW d \in Retired, ReadChain(d) PROVE AInv'
<1>1. UNCHANGED <<objects, manifests>> /\ UNCHANGED log /\ UNCHANGED pub /\ UNCHANGED remembered
  BY DEF ReadChain, wvars, bases
<1>2. archiving' = [step |-> "verified", db |-> d, head |-> log[d], stamp |-> 1,
                    source |-> Source(log[d])]
  BY DEF ReadChain, Source
<1>3. Sound(log[d], Stored, manifests)
  BY ArchiveAssumption DEF ReadChain, AInv, LogsOK
<1>4. ArchivingOK'
  BY <1>1, <1>2, <1>3, Unmoved DEF ArchivingOK
<1> QED
  BY <1>1, <1>4, Unmoved DEF AInv

LEMMA CompareStep == ASSUME AInv, Compare \/ Abandon PROVE AInv'
<1>1. UNCHANGED <<objects, manifests>> /\ UNCHANGED log /\ UNCHANGED pub /\ UNCHANGED remembered
  BY DEF Compare, Abandon, wvars, bases
<1>2. CASE archiving' = NotArchiving
  <2>1. ArchivingOK'
    BY <1>2 DEF ArchivingOK, NotArchiving
  <2> QED
    BY <1>1, <2>1, Unmoved DEF AInv
<1>3. CASE archiving.step = "verified" /\ archiving' = [archiving EXCEPT !.step = "uploaded"]
  <2>1. archiving' = [step |-> "uploaded", db |-> archiving.db, head |-> archiving.head,
                      stamp |-> archiving.stamp, source |-> archiving.source]
    BY <1>3 DEF AInv, ArchivingOK
  <2>2. ArchivingOK'
    BY <1>1, <1>3, <2>1, Unmoved DEF AInv, ArchivingOK
  <2> QED
    BY <1>1, <2>2, Unmoved DEF AInv
<1> QED
  BY <1>2, <1>3 DEF Compare, Abandon

LEMMA PublishFinalStep == ASSUME AInv, PublishFinal PROVE AInv'
<1>1. UNCHANGED manifests /\ UNCHANGED log /\ UNCHANGED pub /\ UNCHANGED remembered
  BY DEF PublishFinal, bases
<1>2. Sound(archiving.head, Stored, manifests) /\ archiving.stamp \in Int
  BY DEF PublishFinal, AInv, ArchivingOK
<1>3. ObjectsOK' /\ (\E o \in Stored' : o.head = archiving.head) /\ Stored \subseteq Stored'
  BY <1>1, <1>2, PutObject DEF PublishFinal
<1>4. archiving' = [step |-> "published", db |-> archiving.db, head |-> archiving.head,
                    stamp |-> archiving.stamp, source |-> archiving.source]
  BY DEF PublishFinal, AInv, ArchivingOK
<1>5. Sound(archiving.head, Stored', manifests')
  <2>1. PICK T : T = Stored'
    OBVIOUS
  <2> QED
    BY <1>1, <1>2, <1>3, <2>1, StaysSound
<1>6. ArchivingOK'
  <2>1. archiving.source = Source(archiving.head)
    BY DEF PublishFinal, AInv, ArchivingOK
  <2> QED
    BY <1>2, <1>3, <1>4, <1>5, <2>1 DEF ArchivingOK, Published
<1>7. CallsOK'
  BY <1>1, <1>3, BucketGrows DEF CallsOK, AInv
<1>8. RememberedOK'
  BY <1>1, <1>3, BucketGrows DEF AInv, RememberedOK, RememberedArePublished, Published
<1> QED
  BY <1>1, <1>3, <1>6, <1>7, <1>8, BucketGrows DEF AInv

LEMMA WriteManifestStep == ASSUME AInv, NEW name, WriteManifest(name) PROVE AInv'
<1>1. UNCHANGED objects /\ UNCHANGED log /\ UNCHANGED pub /\ UNCHANGED remembered
      /\ archiving' = NotArchiving /\ archiving.step = "published"
  BY DEF WriteManifest, wvars, bases
<1>2. PICK dump : manifests' = manifests \cup {Manifest(name, dump)}
  BY DEF WriteManifest
<1>3. PICK x : x = Manifest(name, dump)
  OBVIOUS
<1>4. /\ x.name = name /\ x.chain = Chain(archiving.head) /\ x.final = archiving.head
      /\ x.source = archiving.source
  BY <1>3 DEF Manifest
<1>5. x # NoSource
  BY <1>3 DEF Manifest, NoSource
<1>6. /\ Sound(archiving.head, Stored, manifests) /\ archiving.source = Source(archiving.head)
      /\ Published(archiving.head)
  BY <1>1 DEF AInv, ArchivingOK
<1>7. PICK M, N : M = manifests /\ N = M \cup {x} /\ manifests' = N
  BY <1>2, <1>3
<1>8. x \notin M
  BY <1>4, <1>7 DEF WriteManifest, Taken
<1>9. \A g \in M : g.source # x
  <2> SUFFICES ASSUME NEW g \in M PROVE g.source # x
    OBVIOUS
  <2>1. g.source = Source(g.final) /\ Sound(g.final, Stored, M)
    BY <1>7 DEF AInv, ManifestsOK
  <2>2. CASE Anchored(g.final)
    BY <1>8, <2>1, <2>2, SourceIsThere
  <2>3. CASE ~Anchored(g.final)
    BY <1>5, <2>1, <2>3 DEF Source
  <2> QED
    BY <2>2, <2>3
<1>10. \A m \in M : LineageIn(m, N) = LineageIn(m, M)
  BY <1>7, <1>8, <1>9, LineageStands
<1>11. Stored' = Stored
  BY <1>1 DEF Stored
<1>12. \A h, S : Sound(h, S, M) => Sound(h, S, N)
  BY <1>7, <1>10, StaysSound
<1>13. LogsOK'
  BY <1>1, <1>7, <1>11, <1>12 DEF AInv, LogsOK
<1>14. CallsOK'
  BY <1>1, <1>7, <1>11, <1>12 DEF AInv, CallsOK
<1>15. ObjectsOK'
  BY <1>1, <1>7, <1>12 DEF AInv, ObjectsOK
<1>16. RememberedOK'
  BY <1>1, <1>11 DEF AInv, RememberedOK, RememberedArePublished, Published
<1>17. ArchivingOK'
  BY <1>1 DEF ArchivingOK, NotArchiving
<1>18. ManifestsOK'
  <2>1. NoSource \notin N
    BY <1>5, <1>7 DEF AInv, ManifestsOK
  <2>2. ASSUME NEW m \in M
        PROVE  /\ Sound(m.final, Stored, N) /\ Published(m.final)
               /\ m.chain = Chain(m.final) /\ m.source = Source(m.final)
               /\ m.source \in N => m \notin LineageIn(m.source, N)
    BY <1>7, <1>9, <1>10, <1>12 DEF AInv, ManifestsOK
  <2>3. /\ Sound(x.final, Stored, N) /\ Published(x.final)
        /\ x.chain = Chain(x.final) /\ x.source = Source(x.final)
    BY <1>4, <1>6, <1>7, <1>12
  <2>4. ASSUME x.source \in N PROVE x \notin LineageIn(x.source, N)
    <3>1. x.source \in M
      BY <1>4, <1>6, <1>7, <2>1, <2>4, SourceIsThere DEF Source
    <3>2. LineageIn(x.source, M) \in SUBSET M
      BY <3>1, LineageHolds
    <3> QED
      BY <1>8, <1>10, <3>1, <3>2
  <2>5. \A h : Published(h)' <=> Published(h)
    BY <1>11 DEF Published
  <2> QED
    BY <1>7, <1>11, <2>1, <2>2, <2>3, <2>4, <2>5 DEF ManifestsOK
<1> QED
  BY <1>13, <1>14, <1>15, <1>16, <1>17, <1>18 DEF AInv

LEMMA ArchiveStep == AInv /\ [Next]_vars => AInv'
<1> SUFFICES ASSUME AInv, [Next]_vars PROVE AInv'
  OBVIOUS
<1>1. ASSUME NEW d \in Databases, Write(d) \/ Arm(d), UNCHANGED avars PROVE AInv'
  <2>1. log' = [log EXCEPT ![d] = Append(@, Row(d))] /\ UNCHANGED <<objects, pub, remembered>>
    BY <1>1 DEF Write, Arm
  <2> QED
    BY <1>1, <2>1, AppendStep DEF avars
<1>2. ASSUME NEW d \in Databases, Restore(d), UNCHANGED avars PROVE AInv'
  BY <1>2, RestoreStep
<1>3. ASSUME NEW p \in Publishers, ReadHead(p) \/ Put(p) \/ PutFails(p) \/ Replace(p), UNCHANGED avars
      PROVE  AInv'
  BY <1>3, ReadHeadStep, PutStep, PutFailsStep, ReplaceStep
<1>4. ASSUME NEW d \in Retired, ReadChain(d) PROVE AInv'
  BY <1>4, ReadChainStep
<1>5. ASSUME NEW d \in Databases, NEW m \in manifests, Anchor(d, m) PROVE AInv'
  BY <1>5, AnchorStep
<1>6. ASSUME Compare \/ Abandon PROVE AInv'
  BY <1>6, CompareStep
<1>7. ASSUME PublishFinal PROVE AInv'
  BY <1>7, PublishFinalStep
<1>8. ASSUME NEW name \in Names, WriteManifest(name) PROVE AInv'
  BY <1>8, WriteManifestStep
<1>9. ASSUME UNCHANGED vars PROVE AInv'
  BY <1>9, Unmoved DEF vars, wvars, avars, bases, AInv
<1> QED
  BY <1>1, <1>2, <1>3, <1>4, <1>5, <1>6, <1>7, <1>8, <1>9 DEF Next, WNext

LEMMA ArchiveInvariance == Spec => []AInv
<1>1. Init => AInv
  <2> SUFFICES ASSUME Init PROVE AInv
    OBVIOUS
  <2> USE DEF Init, WInit
  <2>1. LogsOK
    BY DEF LogsOK, IsFun
  <2>2. CallsOK
    BY DEF CallsOK, IsFun
  <2>3. ObjectsOK
    <3>1. IsSeq(<<>>) /\ Len(<<>>) = 0
      BY EmptySeq, InSeq
    <3> QED
      BY <3>1 DEF ObjectsOK
  <2>4. RememberedOK
    BY DEF RememberedOK, RememberedArePublished, IsFun
  <2>5. ArchivingOK /\ ManifestsOK
    BY DEF ArchivingOK, ManifestsOK, NotArchiving
  <2> QED
    BY <2>1, <2>2, <2>3, <2>4, <2>5 DEF AInv
<1> QED
  BY <1>1, ArchiveStep, PTL DEF Spec

\* A head that a publisher remembers as published, and so does not publish
\* again (PeriodicPublisher), is in the bucket, however many publishers put
\* heads, whatever their clocks say, and whichever database is restored.
THEOREM RememberedStay == Spec => []RememberedArePublished
<1>1. AInv => RememberedArePublished
  BY DEF AInv, RememberedOK
<1> QED
  BY <1>1, ArchiveInvariance, PTL

-----------------------------------------------------------------------------
(* The verdicts.                                                           *)

\* What a scan loaded: the objects up to some one.
LEMMA ScanIs ==
    ASSUME AInv, NEW heads \in Scans
    PROVE  \E n \in 0..Len(objects) : heads = {objects[i] : i \in 1..n} /\ heads \subseteq Stored
<1>1. IsSeq(objects) /\ Len(objects) \in Nat
  BY SeqFacts DEF AInv, ObjectsOK
<1>2. PICK n \in 0..Len(objects) : heads = ToSet(SubSeq(objects, 1, n))
  BY DEF Scans
<1>3. IsSeq(SubSeq(objects, 1, n)) /\ Len(SubSeq(objects, 1, n)) = n
      /\ \A i \in 1..n : SubSeq(objects, 1, n)[i] = objects[i]
  BY <1>1, Cut
<1>4. heads = {objects[i] : i \in 1..n}
  <2>1. PICK s : s = SubSeq(objects, 1, n)
    OBVIOUS
  <2>2. heads = {s[i] : i \in 1..n}
    <3>1. IsSeq(s) /\ Len(s) = n /\ heads = ToSet(s)
      BY <1>2, <1>3, <2>1
    <3> QED
      BY <3>1, SeqFacts
  <2>3. \A i \in 1..n : s[i] = objects[i]
    BY <1>3, <2>1
  <2> QED
    BY <2>2, <2>3
<1>5. heads \subseteq Stored
  <2>1. Stored = {objects[i] : i \in 1..Len(objects)}
    BY <1>1, SeqFacts DEF Stored
  <2> QED
    BY <1>1, <1>4, <2>1
<1> QED
  BY <1>4, <1>5

\* A published row that a restore or a replaced log lost is found: by every
\* verification of the database (verify_chain with the witness's heads), or,
\* once the log that lost it is archived, by the dump's (audit_archive_dump).
THEOREM LossIsFound == Spec => []LossFound
<1>1. AInv => LossFound
  <2> SUFFICES ASSUME AInv, NEW d \in Databases, NEW heads \in Scans, log[d] # <<>>,
                      NEW o \in heads, ~Stands(d, o.head), Verdict(d, heads, TRUE) # "broken"
               PROVE  Anchored(log[d]) /\ \E m \in Lineage(log[d][1].manifest) : ~DumpHolds(m)
    BY DEF LossFound
  <2>1. heads \subseteq Stored
    BY ScanIs
  <2>2. Mismatches(d, heads) = {} /\ "replaced" \notin Foreign(d, heads, TRUE)
    BY DEF Verdict
  <2>3. o.chain # Chain(log[d])
    BY <2>2 DEF Mismatches, ChainHeads, Stands
  <2>4. Resolve(d, o.chain, heads, TRUE) # "replaced"
    BY <2>2, <2>3 DEF Foreign, ForeignChains
  <2>5. AnchorStatus(d, heads, TRUE) # "unverified"
    BY DEF AnchorStatus
  <2>6. AnchorStatus(d, heads, TRUE) = "verified" /\ Continued(d, o.chain, heads)
    BY <2>4, <2>5 DEF Resolve
  <2>7. Anchored(log[d])
    BY <2>6 DEF AnchorStatus
  <2>8. PICK m \in Lineage(log[d][1].manifest) : m.chain = o.chain
    BY <2>6 DEF Continued
  <2>9. ~IsPrefix(o.head, m.final)
    BY <2>7, <2>8 DEF Stands
  <2>10. ~DumpHolds(m)
    BY <2>1, <2>8, <2>9 DEF DumpHolds, ChainHeads
  <2> QED
    BY <2>7, <2>8, <2>10
<1> QED
  BY <1>1, ArchiveInvariance, PTL

\* Of the manifests that one rests on, each archives a chain of its own, and
\* none the chain that is anchored to it.
LEMMA Generations ==
    ASSUME AInv, NEW m \in manifests
    PROVE  /\ \A g, h \in LineageIn(m, manifests) : g.chain = h.chain => g = h
           /\ \A g \in LineageIn(m, manifests) : g.source # m
<1>1. ASSUME NEW g \in manifests
      PROVE  /\ IsSeq(g.final) /\ g.final # <<>> /\ g.chain = Chain(g.final)
             /\ g.source = Source(g.final)
             /\ g.source \in manifests => g \notin LineageIn(g.source, manifests)
  BY DEF AInv, ManifestsOK, Sound
<1>2. LineageIn(m, manifests) \in SUBSET manifests
  BY LineageHolds
<1>3. ASSUME NEW g \in manifests, NEW h \in LineageIn(g, manifests), g.chain = h.chain
      PROVE  g = h
  <2>1. h \in manifests
    BY LineageDown
  <2>2. g.source = h.source
    BY <1>1, <1>3, <2>1, SameChain, SameSource
  <2>3. h = g \/ (g.source \in manifests /\ h \in LineageIn(g.source, manifests))
    BY LineageStep
  <2> QED
    BY <1>1, <2>1, <2>2, <2>3
<1>4. \A g, h \in LineageIn(m, manifests) : g.chain = h.chain => g = h
  BY <1>2, <1>3, LineageIsALine
<1>5. ASSUME NEW g \in LineageIn(m, manifests), g.source = m PROVE FALSE
  BY <1>1, <1>2, <1>5
<1> QED
  BY <1>4, <1>5

\* The heads of a scan, when all of them stand and one is of the log's chain.
LEMMA StandingHeads ==
    ASSUME AInv, NEW d \in Databases, NEW heads \in Scans,
           log[d] # <<>>, ChainHeads(heads, Chain(log[d])) # {},
           \A o \in heads : Stands(d, o.head)
    PROVE  /\ Mismatches(d, heads) = {} /\ ~NoneOfOurs(d, heads)
           /\ ~Anchored(log[d]) => ForeignChains(d, heads) = {}
           /\ Anchored(log[d]) =>
                 LET m == log[d][1].manifest
                 IN  /\ AnchorHolds(m, heads) /\ m \in Lineage(m)
                     /\ \A c \in ForeignChains(d, heads) :
                           \E g \in Lineage(m) : g.chain = c /\ g.final = LastHead(heads, c).head
                     /\ m.chain \in ForeignChains(d, heads) =>
                           m.final = LastHead(heads, m.chain).head
<1>1. PICK n \in 0..Len(objects) : heads = {objects[i] : i \in 1..n} /\ heads \subseteq Stored
  BY ScanIs
<1>2. Len(objects) \in Nat
  BY SeqFacts DEF AInv, ObjectsOK
<1>3. ASSUME NEW o \in heads
      PROVE  IsSeq(o.head) /\ o.head # <<>> /\ o.chain = Chain(o.head) /\ o.id = Len(o.head)
  <2>1. PICK i \in 1..Len(objects) : o = objects[i]
    BY <1>1, <1>2
  <2> QED
    BY <2>1 DEF AInv, ObjectsOK, Sound
<1>4. Sound(log[d], Stored, manifests) /\ IsSeq(log[d])
  BY DEF AInv, LogsOK, Sound
<1>5. \A o \in heads : IsPrefix(o.head, log[d]) => o.chain = Chain(log[d])
  BY <1>3, <1>4, PrefixIs
<1>6. ~NoneOfOurs(d, heads)
  BY DEF NoneOfOurs
<1>7. CASE ~Anchored(log[d])
  <2>1. \A o \in heads : IsPrefix(o.head, log[d])
    BY <1>7 DEF Stands
  <2> QED
    BY <1>5, <1>6, <1>7, <2>1 DEF Mismatches, ForeignChains, ChainHeads
<1>8. CASE Anchored(log[d])
  <2> DEFINE m == log[d][1].manifest
             L == LineageIn(m, manifests)
  <2>1. m = Source(log[d]) /\ m \in manifests /\ Backed(m, Stored, manifests)
    BY <1>4, <1>8, SourceIsThere DEF Source, Sound
  <2>2. L = Lineage(m) /\ m \in L /\ L \in SUBSET manifests
    BY <2>1, LineageIs, LineageHolds
  <2>3. \A g \in L : \E o \in heads : o.head = g.final
    <3>1. PICK own \in heads : own.chain = Chain(log[d])
      BY DEF ChainHeads
    <3>2. PICK i \in 1..n : own = objects[i]
      BY <1>1, <3>1
    <3>3. i \in 1..Len(objects) /\ {objects[j] : j \in 1..(i - 1)} \subseteq heads
      BY <1>1, <1>2, <3>2
    <3>4. Sound(own.head, {objects[j] : j \in 1..(i - 1)}, manifests)
      BY <3>2, <3>3 DEF AInv, ObjectsOK
    <3>5. Source(own.head) = m /\ Anchored(own.head)
      <4>1. own.head[1] = log[d][1]
        BY <1>3, <1>4, <3>1, SameChain
      <4> QED
        BY <1>3, <1>8, <2>1, <4>1, SameSource
    <3> QED
      BY <3>3, <3>4, <3>5 DEF Sound, Backed
  <2>4. ASSUME NEW g \in L
        PROVE  /\ IsSeq(g.final) /\ g.final # <<>> /\ g.chain = Chain(g.final)
               /\ g.source = Source(g.final) /\ g.chain # Chain(log[d])
               /\ g.source \in manifests \cup {NoSource}
    <3>1. g \in manifests
      BY <2>2
    <3>2. /\ IsSeq(g.final) /\ g.final # <<>> /\ g.chain = Chain(g.final)
          /\ g.source = Source(g.final) /\ Sound(g.final, Stored, manifests)
      BY <3>1 DEF AInv, ManifestsOK, Sound
    <3>3. g.chain # Chain(log[d])
      <4>1. g.source # m
        BY <2>1, Generations
      <4> QED
        BY <1>4, <2>1, <3>2, <4>1, SameChain, SameSource
    <3>4. g.source \in manifests \cup {NoSource}
      BY <3>2, SourceIsThere DEF Source
    <3> QED
      BY <3>2, <3>3, <3>4
  <2>5. ASSUME NEW o \in heads, o.chain # Chain(log[d])
        PROVE  \E g \in L : g.chain = o.chain /\ IsPrefix(o.head, g.final)
    <3>1. PICK g \in L : IsPrefix(o.head, g.final)
      BY <1>5, <2>2, <2>5 DEF Stands
    <3>2. g.chain = o.chain
      BY <1>3, <2>4, <3>1, PrefixIs
    <3> QED
      BY <3>1, <3>2
  <2>6. ASSUME NEW o \in heads, o.chain = Chain(log[d]) PROVE IsPrefix(o.head, log[d])
    <3>1. ASSUME NEW g \in L, IsPrefix(o.head, g.final) PROVE FALSE
      BY <1>3, <2>4, <2>6, <3>1, PrefixIs
    <3> QED
      BY <2>2, <3>1 DEF Stands
  <2>7. Mismatches(d, heads) = {}
    BY <2>6 DEF Mismatches, ChainHeads
  <2>8. ASSUME NEW g \in L, NEW o \in heads, o.chain = g.chain
        PROVE  /\ o.id <= Len(g.final) /\ (o.id = Len(g.final) => o.head = g.final)
               /\ o.id \in Nat
    <3>1. PICK h \in L : h.chain = o.chain /\ IsPrefix(o.head, h.final)
      BY <2>4, <2>5, <2>8
    <3>2. h = g
      BY <2>1, <2>8, <3>1, Generations
    <3>3. Len(o.head) \in Nat
      BY <1>3, SeqFacts
    <3> QED
      BY <1>3, <2>4, <3>1, <3>2, <3>3, PrefixIs
  <2>9. ASSUME NEW g \in L PROVE \E o \in heads : o.head = g.final /\ o.chain = g.chain
    BY <1>3, <2>3, <2>4
  <2>10. \A g \in L : FinalHeadStands(g, heads)
    BY <2>8, <2>9 DEF FinalHeadStands, ChainHeads
  <2>11. AnchorHolds(m, heads)
    BY <2>1, <2>2, <2>4, <2>10 DEF AnchorHolds, Backed
  <2>12. ASSUME NEW g \in L PROVE g.final = LastHead(heads, g.chain).head
    <3> DEFINE of == ChainHeads(heads, g.chain)
               last == CHOOSE o \in of : \A x \in of : x.id <= o.id
    <3>1. PICK f \in heads : f.head = g.final /\ f.chain = g.chain
      BY <2>9
    <3>2. f \in of /\ \A x \in of : x.id <= f.id
      BY <1>3, <2>8, <3>1 DEF ChainHeads
    <3>3. last \in of /\ \A x \in of : x.id <= last.id
      BY <3>2
    <3>4. last = LastHead(heads, g.chain)
      BY DEF LastHead
    <3> HIDE DEF last
    <3>5. last \in heads /\ last.chain = g.chain /\ f.id = Len(g.final) /\ f.id <= last.id
      BY <1>3, <3>1, <3>2, <3>3 DEF ChainHeads
    <3>6. last.id = Len(g.final)
      <4>1. last.id <= Len(g.final) /\ last.id \in Nat
        BY <2>8, <3>5
      <4>2. Len(g.final) \in Nat
        BY <2>4, SeqFacts
      <4> QED
        BY <3>5, <4>1, <4>2
    <3> QED
      BY <2>8, <3>4, <3>5, <3>6
  <2>13. ASSUME NEW c \in ForeignChains(d, heads)
         PROVE  \E g \in L : g.chain = c /\ g.final = LastHead(heads, c).head
    <3>1. PICK o \in heads : o.chain = c /\ c # Chain(log[d])
      BY DEF ForeignChains
    <3>2. PICK g \in L : g.chain = c
      BY <2>5, <3>1
    <3> QED
      BY <2>12, <3>2
  <2> HIDE DEF m, L
  <2>14. /\ AnchorHolds(m, heads) /\ m \in Lineage(m)
         /\ \A c \in ForeignChains(d, heads) :
               \E g \in Lineage(m) : g.chain = c /\ g.final = LastHead(heads, c).head
         /\ m.chain \in ForeignChains(d, heads) => m.final = LastHead(heads, m.chain).head
    BY <2>2, <2>11, <2>12, <2>13
  <2> QED
    BY <1>6, <1>8, <2>7, <2>14 DEF m
<1> QED
  BY <1>7, <1>8

\* A verification (verify_chain with the witness's heads, and with or without
\* the manifests) whose heads all stand does not report the log broken, after
\* any number of restores, archives and generations.
THEOREM NoFalseAlarms == Spec => []NoFalseAlarm
<1>1. AInv => NoFalseAlarm
  <2> SUFFICES ASSUME AInv, NEW d \in Databases, NEW heads \in Scans, NEW access \in BOOLEAN,
                      log[d] # <<>>, ChainHeads(heads, Chain(log[d])) # {},
                      \A o \in heads : Stands(d, o.head),
                      access \/ AnchorNames(d, heads)
               PROVE  Verdict(d, heads, access) \in {"valid", "unverified"}
    BY DEF NoFalseAlarm
  <2>1. Mismatches(d, heads) = {} /\ ~NoneOfOurs(d, heads)
    BY StandingHeads
  <2>2. AnchorStatus(d, heads, access) # "failed"
    BY StandingHeads DEF AnchorStatus
  <2>3. ASSUME NEW c \in ForeignChains(d, heads) PROVE Resolve(d, c, heads, access) # "replaced"
    <3>1. Anchored(log[d])
      BY <2>3, StandingHeads
    <3>2. CASE access
      <4>1. AnchorStatus(d, heads, access) = "verified"
        BY <3>1, <3>2, StandingHeads DEF AnchorStatus
      <4>2. Continued(d, c, heads)
        BY <2>3, <3>1, StandingHeads DEF Continued
      <4> QED
        BY <4>1, <4>2 DEF Resolve
    <3>3. CASE ~access
      <4>1. AnchorStatus(d, heads, access) = "unverified"
        BY <3>1, <3>3 DEF AnchorStatus
      <4>2. c = log[d][1].manifest.chain
        BY <2>3, <3>3 DEF AnchorNames
      <4>3. log[d][1].manifest.final = LastHead(heads, c).head
        BY <2>3, <3>1, <4>2, StandingHeads
      <4> QED
        BY <4>1, <4>3 DEF Resolve
    <3> QED
      BY <3>2, <3>3
  <2>4. "replaced" \notin Foreign(d, heads, access)
    BY <2>3 DEF Foreign
  <2> QED
    BY <2>1, <2>2, <2>4 DEF Verdict
<1> QED
  BY <1>1, ArchiveInvariance, PTL
=============================================================================
