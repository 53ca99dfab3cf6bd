-------------------------- MODULE AuditChainProofs --------------------------
(***************************************************************************)
(* Theorems about AuditChain, for any number of writers and ids, and any   *)
(* damage: since migration 016 the rows of the audit log form one chain,   *)
(* which is the abstract ledger; a verification finds the damage that was  *)
(* done before it, and raises no false alarm.  Then HistoryWalk: the       *)
(* verification of the decision logs in slices reaches every version.      *)
(***************************************************************************)
EXTENDS AuditChain, HistoryWalk, FiniteSetTheorems, SequenceTheorems, WellFoundedInduction, TLAPS

Seen(w) == Known \cup pending[w]

\* The rows, if any, have a last one.
HasLast(S) == S = {} \/ \E r \in S : \A s \in S : s.id <= r.id

\* What OneChain asks of a row, in the log its transaction will commit.
LinkedIn(r, S) ==
    LET earlier == {s \in S : s.id < r.id}
    IN  /\ IsAnchor(r) => earlier = {}
        /\ r.version = 2 => r.prev = IF IsAnchor(r) THEN Archived ELSE LastHash(earlier)

DamageOK == damage \in [removed : SUBSET Rows, altered : SUBSET Ids]

\* Damage spares the log's tail.
TailStands == \A s \in damage.removed : \E r \in log : s.id < r.id

\* Ids are given out in order, to rows committed and not.
Sequenced ==
    /\ \A r \in Known : r.id < nextId
    /\ \A w \in Writers : \A r \in pending[w] : r.id < nextId
    /\ HasLast(Known)
    /\ \A w \in Writers : HasLast(pending[w])

NoRowsOutside == \A w \in Writers : phase[w] = "none" => pending[w] = {}

\* Since 016 only the holder of the chain's lock writes.
Exclusive == schema = 2 => \A w \in Writers : phase[w] # "none" => lock = w

\* Before 016 no row is of the new trigger, nor an anchor.
OldRows ==
    schema = 1 =>
        /\ \A r \in Known : r.version = 1 /\ ~IsAnchor(r)
        /\ \A w \in Writers : \A r \in pending[w] : r.version = 1 /\ ~IsAnchor(r)

\* Since 016 what a transaction inserted follows all that is committed, and
\* is linked to it; so is what it is about to insert.
Follows ==
    schema = 2 => \A w \in Writers :
        /\ \A r \in pending[w] : LinkedIn(r, Seen(w)) /\ \A s \in Known : s.id < r.id
        /\ phase[w] = "inserting" => head[w] = LastHash(Seen(w))

HeadsRead == \A w \in Writers : head[w] # Archived

IInv ==
    /\ TypeOK /\ DamageOK
    /\ TailStands /\ Sequenced /\ NoRowsOutside /\ Exclusive
    /\ OldRows /\ Follows /\ HeadsRead
    /\ OneChain

-----------------------------------------------------------------------------
(* The newest row.                                                         *)

\* The hash LastHash gives is the last row's.
LEMMA LastIs ==
    ASSUME NEW S \in SUBSET Rows, NEW r \in S, \A s \in S : s.id <= r.id
    PROVE  LastHash(S) = r.id
<1> DEFINE c == CHOOSE x \in S : \A s \in S : s.id <= x.id
<1>1. c \in S /\ \A s \in S : s.id <= c.id
  OBVIOUS
<1>2. LastHash(S) = c.id
  BY DEF LastHash
<1> HIDE DEF c
<1>3. c.id \in Int /\ r.id \in Int
  BY <1>1, AuditAssumption DEF Rows, Ids
<1> QED
  BY <1>1, <1>2, <1>3

\* It is the hash of a row, or genesis: never an archived chain's.
LEMMA LastIsRow ==
    ASSUME NEW S \in SUBSET Rows, HasLast(S)
    PROVE  LastHash(S) \in Ids \cup {Genesis} /\ LastHash(S) # Archived
<1>1. CASE S = {}
  BY <1>1, AuditAssumption DEF LastHash
<1>2. CASE S # {}
  <2>1. PICK r \in S : \A s \in S : s.id <= r.id
    BY <1>2 DEF HasLast
  <2>2. LastHash(S) = r.id
    BY <2>1, LastIs
  <2> QED
    BY <2>2, AuditAssumption DEF Rows, Ids
<1> QED
  BY <1>1, <1>2

\* Two sets of rows that have last rows have one together.
LEMMA UnionHasLast ==
    ASSUME NEW S \in SUBSET Rows, NEW T \in SUBSET Rows, HasLast(S), HasLast(T)
    PROVE  HasLast(S \cup T)
<1>1. \A r \in Rows : r.id \in Int
  BY AuditAssumption DEF Rows, Ids
<1>2. CASE S = {} \/ T = {}
  BY <1>2 DEF HasLast
<1>3. CASE S # {} /\ T # {}
  <2>1. PICK r \in S : \A s \in S : s.id <= r.id
    BY <1>3 DEF HasLast
  <2>2. PICK q \in T : \A s \in T : s.id <= q.id
    BY <1>3 DEF HasLast
  <2>3. CASE r.id <= q.id
    BY <1>1, <2>1, <2>2, <2>3 DEF HasLast
  <2>4. CASE q.id <= r.id
    BY <1>1, <2>1, <2>2, <2>4 DEF HasLast
  <2> QED
    BY <1>1, <2>3, <2>4
<1> QED
  BY <1>2, <1>3

\* Rows that are not the last make no difference to the head of the chain.
LEMMA SameLast ==
    ASSUME NEW S \in SUBSET Rows, NEW T \in SUBSET S, HasLast(S),
           \A s \in S \ T : \E t \in T : s.id < t.id
    PROVE  LastHash(T) = LastHash(S)
<1>1. \A r \in Rows : r.id \in Int
  BY AuditAssumption DEF Rows, Ids
<1>2. CASE S = {}
  BY <1>2 DEF LastHash
<1>3. CASE S # {}
  <2>1. PICK r \in S : \A s \in S : s.id <= r.id
    BY <1>3 DEF HasLast
  <2>2. r \in T
    BY <1>1, <2>1
  <2> QED
    BY <2>1, <2>2, LastIs
<1> QED
  BY <1>2, <1>3

\* A row whose id is higher than all others' is their last.
LEMMA NewIsLast ==
    ASSUME NEW S \in SUBSET Rows, NEW r \in Rows, \A s \in S : s.id < r.id
    PROVE  HasLast(S \cup {r}) /\ {s \in S \cup {r} : s.id < r.id} = S
<1>1. \A s \in Rows : s.id \in Int
  BY AuditAssumption DEF Rows, Ids
<1> QED
  BY <1>1 DEF HasLast
-----------------------------------------------------------------------------
(* Types.                                                                  *)

\* The head a trigger reads is that of all that was ever committed, and of
\* its own transaction's rows.
LEMMA HeadRead ==
    ASSUME IInv, NEW w \in Writers
    PROVE  /\ Seen(w) \in SUBSET Rows /\ Visible(w) \in SUBSET Seen(w)
           /\ HasLast(Seen(w))
           /\ LastHash(Visible(w)) = LastHash(Seen(w))
<1>1. /\ Known \in SUBSET Rows /\ pending[w] \in SUBSET Rows
      /\ Seen(w) \in SUBSET Rows /\ Visible(w) \in SUBSET Seen(w)
  BY DEF IInv, TypeOK, DamageOK, Known, Seen, Visible
<1>2. HasLast(Seen(w))
  BY <1>1, UnionHasLast DEF IInv, Sequenced, Seen
<1>3. \A s \in Seen(w) \ Visible(w) : \E t \in Visible(w) : s.id < t.id
  BY DEF IInv, TailStands, Seen, Visible, Known
<1> QED
  BY <1>1, <1>2, <1>3, SameLast

\* Every step keeps every variable's type, and no head is an archived
\* chain's.
LEMMA TypeStep == IInv /\ [Next]_vars => (TypeOK /\ DamageOK /\ HeadsRead)'
<1> USE AuditAssumption DEF TypeOK, DamageOK, HeadsRead, vars, chain, Hashes, Ids, Rows
<1> SUFFICES ASSUME IInv, [Next]_vars PROVE (TypeOK /\ DamageOK /\ HeadsRead)'
  OBVIOUS
<1> USE DEF IInv
<1>1. ASSUME NEW w \in Writers, Begin(w) PROVE (TypeOK /\ DamageOK /\ HeadsRead)'
  BY <1>1 DEF Begin
<1>2. ASSUME NEW w \in Writers, ReadHead(w) PROVE (TypeOK /\ DamageOK /\ HeadsRead)'
  <2>1. LastHash(Visible(w)) \in Hashes \ {Archived}
    BY HeadRead, LastIsRow
  <2> QED
    BY <1>2, <2>1 DEF ReadHead
<1>3. ASSUME NEW w \in Writers, InsertRow(w) PROVE (TypeOK /\ DamageOK /\ HeadsRead)'
  BY <1>3 DEF InsertRow
<1>4. ASSUME NEW w \in Writers, InsertAnchor(w) PROVE (TypeOK /\ DamageOK /\ HeadsRead)'
  BY <1>4 DEF InsertAnchor
<1>5. ASSUME NEW w \in Writers, Commit(w) \/ Rollback(w)
      PROVE (TypeOK /\ DamageOK /\ HeadsRead)'
  BY <1>5 DEF Commit, Rollback, End
<1>6. ASSUME Upgrade PROVE (TypeOK /\ DamageOK /\ HeadsRead)'
  BY <1>6 DEF Upgrade
<1>7. ASSUME Damage PROVE (TypeOK /\ DamageOK /\ HeadsRead)'
  <2>1. PICK r \in log : AlterRow(r) \/ RemoveRow(r)
    BY <1>7 DEF Damage
  <2>2. CASE AlterRow(r)
    BY <1>7, <2>2 DEF Damage, AlterRow
  <2>3. CASE RemoveRow(r)
    BY <1>7, <2>3 DEF Damage, RemoveRow
  <2> QED
    BY <2>1, <2>2, <2>3
<1>8. ASSUME Start \/ ReadChunk \/ EndSlice \/ Restart \/ UNCHANGED vars
      PROVE (TypeOK /\ DamageOK /\ HeadsRead)'
  BY <1>8 DEF Start, ReadChunk, EndSlice, Restart
<1> QED
  BY <1>1, <1>2, <1>3, <1>4, <1>5, <1>6, <1>7, <1>8 DEF Next

-----------------------------------------------------------------------------
(* Who writes, and in which order.                                         *)

\* A step of damage leaves all that was ever committed, and the log's tail.
LEMMA DamageStep == IInv /\ Damage => Known' = Known /\ TailStands'
<1> SUFFICES ASSUME IInv, Damage PROVE Known' = Known /\ TailStands'
  OBVIOUS
<1>1. PICK r \in log : AlterRow(r) \/ RemoveRow(r)
  BY DEF Damage
<1>2. CASE AlterRow(r)
  <2>1. log' = log /\ damage'.removed = damage.removed
    BY <1>2 DEF AlterRow, IInv, DamageOK
  <2> QED
    BY <2>1 DEF IInv, TailStands, Known
<1>3. CASE RemoveRow(r)
  <2>1. log' = log \ {r} /\ damage'.removed = damage.removed \cup {r}
    BY <1>3 DEF RemoveRow, IInv, DamageOK
  <2>2. Known' = Known
    BY <2>1 DEF Known
  <2>3. \A s \in log \cup damage.removed : s.id \in Int
    BY AuditAssumption DEF IInv, TypeOK, DamageOK, Rows, Ids
  <2>4. PICK q \in log : q.id > r.id
    BY <1>3 DEF RemoveRow
  <2>5. q \in log'
    BY <2>1, <2>3, <2>4
  <2>6. ASSUME NEW s \in damage'.removed PROVE \E t \in log' : s.id < t.id
    <3>1. CASE s = r
      BY <2>3, <2>4, <2>5, <3>1
    <3>2. CASE s # r
      <4>1. PICK t \in log : s.id < t.id
        BY <2>1, <3>2 DEF IInv, TailStands
      <4>2. CASE t = r
        BY <2>1, <2>3, <2>4, <2>5, <3>2, <4>1, <4>2
      <4> QED
        BY <2>1, <4>1, <4>2
    <3> QED
      BY <3>1, <3>2
  <2> QED
    BY <2>2, <2>6 DEF TailStands
<1> QED
  BY <1>1, <1>2, <1>3

\* Nothing was ever committed to a log that holds no row.
LEMMA EmptyLog == IInv /\ log = {} => Known = {}
  BY DEF IInv, TailStands, Known

\* Since 016 a transaction that has the lock, or gets it, is the only one.
LEMMA OnlyWriter ==
    ASSUME IInv, schema = 2, NEW w \in Writers, lock \in {w, NoWriter},
           NEW x \in Writers \ {w}
    PROVE  phase[x] = "none" /\ pending[x] = {}
  BY AuditAssumption DEF IInv, Exclusive, NoRowsOutside

\* The transactions that are open, the lock, and the tail of the log.
LEMMA OrderStep == IInv /\ [Next]_vars => (TailStands /\ NoRowsOutside /\ Exclusive)'
<1> SUFFICES ASSUME IInv, [Next]_vars PROVE (TailStands /\ NoRowsOutside /\ Exclusive)'
  OBVIOUS
<1> USE AuditAssumption DEF IInv, TypeOK, NoRowsOutside, Exclusive
<1>1. ASSUME NEW w \in Writers, Begin(w) PROVE (TailStands /\ NoRowsOutside /\ Exclusive)'
  BY <1>1 DEF Begin, TailStands
<1>2. ASSUME NEW w \in Writers, ReadHead(w) PROVE (TailStands /\ NoRowsOutside /\ Exclusive)'
  BY <1>2 DEF ReadHead, TailStands
<1>3. ASSUME NEW w \in Writers, InsertRow(w) PROVE (TailStands /\ NoRowsOutside /\ Exclusive)'
  BY <1>3 DEF InsertRow, TailStands
<1>4. ASSUME NEW w \in Writers, InsertAnchor(w)
      PROVE (TailStands /\ NoRowsOutside /\ Exclusive)'
  BY <1>4 DEF InsertAnchor, TailStands
<1>5. ASSUME NEW w \in Writers, Commit(w) \/ Rollback(w)
      PROVE (TailStands /\ NoRowsOutside /\ Exclusive)'
  BY <1>5 DEF Commit, Rollback, End, TailStands
<1>6. ASSUME Upgrade PROVE (TailStands /\ NoRowsOutside /\ Exclusive)'
  BY <1>6 DEF Upgrade, TailStands
<1>7. ASSUME Damage PROVE (TailStands /\ NoRowsOutside /\ Exclusive)'
  BY <1>7, DamageStep DEF Damage
<1>8. ASSUME Start \/ ReadChunk \/ EndSlice \/ Restart \/ UNCHANGED vars
      PROVE (TailStands /\ NoRowsOutside /\ Exclusive)'
  BY <1>8 DEF Start, ReadChunk, EndSlice, Restart, chain, vars, TailStands
<1> QED
  BY <1>1, <1>2, <1>3, <1>4, <1>5, <1>6, <1>7, <1>8 DEF Next

\* The ids, and the triggers that rows are of.
LEMMA IdStep == IInv /\ [Next]_vars => (Sequenced /\ OldRows)'
<1> SUFFICES ASSUME IInv, [Next]_vars PROVE (Sequenced /\ OldRows)'
  OBVIOUS
<1> DEFINE NextRow(p) == [id |-> nextId, version |-> schema, prev |-> p]
<1> USE AuditAssumption DEF IInv
<1>1. ASSUME NEW w \in Writers, Begin(w) PROVE (Sequenced /\ OldRows)'
  BY <1>1 DEF Begin, Sequenced, OldRows, Known
<1>2. ASSUME NEW w \in Writers, ReadHead(w) PROVE (Sequenced /\ OldRows)'
  BY <1>2 DEF ReadHead, Sequenced, OldRows, Known
<1>3. ASSUME NEW w \in Writers, InsertRow(w) PROVE (Sequenced /\ OldRows)'
  <2>1. NextRow(head[w]) \in Rows /\ pending[w] \in SUBSET Rows
    BY <1>3 DEF InsertRow, TypeOK, Rows, Ids
  <2>2. HasLast(pending[w] \cup {NextRow(head[w])})
    BY <2>1, NewIsLast DEF Sequenced
  <2>3. /\ pending' = [pending EXCEPT ![w] = pending[w] \cup {NextRow(head[w])}]
        /\ Known' = Known /\ nextId' = nextId + 1 /\ schema' = schema
    BY <1>3 DEF InsertRow, Known
  <2>4. \A r \in Rows : r.id \in Int
    BY DEF Rows, Ids
  <2>5. Sequenced'
    <3>1. \A r \in Known' : r.id < nextId'
      BY <2>3, <2>4 DEF Sequenced, TypeOK, DamageOK, Known
    <3>2. ASSUME NEW x \in Writers PROVE \A r \in pending'[x] : r.id < nextId'
      BY <2>3, <2>4, <3>2 DEF Sequenced, TypeOK
    <3>3. ASSUME NEW x \in Writers PROVE HasLast(pending'[x])
      BY <2>2, <2>3, <3>3 DEF Sequenced, TypeOK
    <3> QED
      BY <2>3, <3>1, <3>2, <3>3 DEF Sequenced
  <2>6. OldRows'
    BY <2>3 DEF OldRows, IsAnchor, HeadsRead, TypeOK
  <2> QED
    BY <2>5, <2>6
<1>4. ASSUME NEW w \in Writers, InsertAnchor(w) PROVE (Sequenced /\ OldRows)'
  <2>1. Known = {} /\ Known' = {}
    BY <1>4, EmptyLog DEF InsertAnchor, Known
  <2>2. /\ pending' = [pending EXCEPT ![w] = {NextRow(Archived)}]
        /\ nextId' = nextId + 1 /\ nextId \in Int /\ schema' = 2
    BY <1>4 DEF InsertAnchor, TypeOK
  <2>3. HasLast({NextRow(Archived)})
    BY <2>2 DEF HasLast
  <2>4. \A r \in Rows : r.id \in Int
    BY DEF Rows, Ids
  <2>5. ASSUME NEW x \in Writers
        PROVE HasLast(pending'[x]) /\ \A r \in pending'[x] : r.id < nextId'
    BY <2>2, <2>3, <2>4, <2>5 DEF Sequenced, TypeOK
  <2> QED
    BY <2>1, <2>2, <2>5 DEF Sequenced, OldRows, HasLast
<1>5. ASSUME NEW w \in Writers, Commit(w) \/ Rollback(w) PROVE (Sequenced /\ OldRows)'
  <2>1. Known' \in {Known, Seen(w)}
    BY <1>5 DEF Commit, Rollback, End, Known, Seen
  <2>2. HasLast(Known')
    BY <2>1, HeadRead DEF Sequenced
  <2>3. \A x \in Writers : pending'[x] \in {pending[x], {}}
    BY <1>5 DEF Commit, Rollback, End, TypeOK
  <2>4. HasLast({})
    BY DEF HasLast
  <2>5. nextId' = nextId /\ schema' = schema
    BY <1>5 DEF Commit, Rollback, End
  <2>6. Sequenced'
    <3>1. \A r \in Known' : r.id < nextId'
      BY <2>1, <2>5 DEF Sequenced, Seen
    <3>2. ASSUME NEW x \in Writers
          PROVE HasLast(pending'[x]) /\ \A r \in pending'[x] : r.id < nextId'
      BY <2>3, <2>4, <2>5, <3>2 DEF Sequenced
    <3> QED
      BY <2>2, <3>1, <3>2 DEF Sequenced
  <2>7. OldRows'
    BY <2>1, <2>3, <2>5 DEF OldRows, Seen
  <2> QED
    BY <2>6, <2>7
<1>6. ASSUME Upgrade PROVE (Sequenced /\ OldRows)'
  BY <1>6 DEF Upgrade, Sequenced, OldRows, Known
<1>7. ASSUME Damage PROVE (Sequenced /\ OldRows)'
  BY <1>7, DamageStep DEF Damage, Sequenced, OldRows
<1>8. ASSUME Start \/ ReadChunk \/ EndSlice \/ Restart \/ UNCHANGED vars
      PROVE (Sequenced /\ OldRows)'
  BY <1>8 DEF Start, ReadChunk, EndSlice, Restart, chain, vars, Sequenced, OldRows, Known
<1> QED
  BY <1>1, <1>2, <1>3, <1>4, <1>5, <1>6, <1>7, <1>8 DEF Next

-----------------------------------------------------------------------------
(* The chain.                                                              *)

\* A row's place is settled by the rows before it: later ones make no
\* difference to it.
LEMMA LaterRows ==
    ASSUME NEW S \in SUBSET Rows, NEW T \in SUBSET Rows, NEW r \in Rows, LinkedIn(r, S),
           S \subseteq T, \A t \in T \ S : r.id <= t.id
    PROVE  LinkedIn(r, T)
<1>1. \A s \in Rows : s.id \in Int
  BY AuditAssumption DEF Rows, Ids
<1>2. {s \in T : s.id < r.id} = {s \in S : s.id < r.id}
  BY <1>1
<1> QED
  BY <1>2 DEF LinkedIn

\* A trigger since 016 links its row to the head it read, which is still the
\* head when the row is inserted.
LEMMA InsertStep ==
    ASSUME IInv, NEW w \in Writers, InsertRow(w) PROVE (Follows /\ OneChain)'
<1> USE AuditAssumption DEF IInv
<1> DEFINE row == [id |-> nextId, version |-> schema, prev |-> head[w]]
<1>1. row \in Rows /\ pending[w] \in SUBSET Rows /\ Known \in SUBSET Rows
  BY DEF InsertRow, TypeOK, DamageOK, Rows, Ids, Known
<1>2. /\ pending' = [pending EXCEPT ![w] = pending[w] \cup {row}]
      /\ phase' = [phase EXCEPT ![w] = "open"]
      /\ Known' = Known /\ schema' = schema
  BY DEF InsertRow, Known
<1>3. OneChain'
  BY <1>2 DEF OneChain, Earlier
<1>4. ASSUME schema = 2 PROVE Follows'
  <2>1. Seen(w) \in SUBSET Rows /\ \A s \in Seen(w) : s.id < row.id
    BY <1>1 DEF Sequenced, Seen
  <2>2. {s \in Seen(w) \cup {row} : s.id < row.id} = Seen(w)
    BY <1>1, <2>1, NewIsLast
  <2>3. LinkedIn(row, Seen(w) \cup {row})
    BY <1>4, <2>2 DEF LinkedIn, Follows, InsertRow, HeadsRead, IsAnchor
  <2>4. ASSUME NEW r \in pending[w] PROVE LinkedIn(r, Seen(w) \cup {row})
    <3>1. LinkedIn(r, Seen(w)) /\ r \in Rows /\ r \in Seen(w)
      BY <1>1, <1>4 DEF Follows, Seen
    <3>2. r.id <= row.id
      BY <1>1, <2>1, <3>1 DEF Rows, Ids
    <3> QED
      BY <1>1, <2>1, <3>1, <3>2, LaterRows
  <2>5. pending'[w] = pending[w] \cup {row} /\ Seen(w)' = Seen(w) \cup {row}
    BY <1>2 DEF Seen, TypeOK
  <2>6. ASSUME NEW x \in Writers \ {w} PROVE pending'[x] = {} /\ phase'[x] = "none"
    BY <1>2, <1>4, OnlyWriter DEF InsertRow, Exclusive, TypeOK
  <2>7. \A r \in pending'[w] : \A s \in Known : s.id < r.id
    BY <1>4, <2>1, <2>5 DEF Follows, Seen
  <2>8. phase'[w] = "open"
    BY <1>2 DEF TypeOK
  <2>9. ASSUME NEW r \in pending'[w]
        PROVE LinkedIn(r, Seen(w)') /\ \A s \in Known' : s.id < r.id
    BY <1>2, <2>3, <2>4, <2>5, <2>7, <2>9
  <2> QED
    BY <2>6, <2>8, <2>9 DEF Follows
<1> QED
  BY <1>2, <1>3, <1>4 DEF Follows

\* An anchor is inserted into an empty log.
LEMMA AnchorStep ==
    ASSUME IInv, NEW w \in Writers, InsertAnchor(w) PROVE (Follows /\ OneChain)'
<1> USE AuditAssumption DEF IInv
<1> DEFINE row == [id |-> nextId, version |-> 2, prev |-> Archived]
<1>1. Known = {} /\ Known' = {}
  BY EmptyLog DEF InsertAnchor, Known
<1>2. pending'[w] = {row} /\ phase'[w] = "open"
  BY DEF InsertAnchor, TypeOK
<1>3. ASSUME NEW x \in Writers \ {w} PROVE pending'[x] = {} /\ phase'[x] = "none"
  BY OnlyWriter DEF InsertAnchor, TypeOK
<1>4. row.id \in Int
  BY DEF TypeOK
<1>5. LinkedIn(row, {row})
  BY <1>4 DEF LinkedIn, IsAnchor
<1>6. Seen(w)' = {row}
  BY <1>1, <1>2 DEF Seen
<1>7. OneChain'
  BY <1>1 DEF OneChain
<1>8. ASSUME NEW x \in Writers, NEW r \in pending'[x]
      PROVE LinkedIn(r, Seen(x)') /\ \A s \in Known' : s.id < r.id
  <2>1. x = w /\ r = row
    BY <1>2, <1>3, <1>8
  <2> QED
    BY <1>1, <1>5, <1>6, <2>1
<1>9. ASSUME NEW x \in Writers PROVE phase'[x] # "inserting"
  BY <1>2, <1>3
<1>10. Follows'
  BY <1>8, <1>9 DEF Follows
<1> QED
  BY <1>7, <1>10

\* A transaction's rows come after all that was committed before.
LEMMA CommitStep ==
    ASSUME IInv, NEW w \in Writers, Commit(w) PROVE (Follows /\ OneChain)'
<1> USE AuditAssumption DEF IInv
<1>1. /\ Known' = Seen(w) /\ schema' = schema
      /\ pending'[w] = {} /\ phase'[w] = "none"
  BY DEF Commit, End, Known, Seen, TypeOK
<1>2. ASSUME NEW x \in Writers \ {w} PROVE pending'[x] = pending[x] /\ phase'[x] = phase[x]
  BY DEF Commit, End, TypeOK
<1>3. Follows'
  <2>1. ASSUME schema = 2, NEW x \in Writers \ {w} PROVE pending'[x] = {} /\ phase'[x] = "none"
    BY <1>2, <2>1, OnlyWriter DEF Commit, Exclusive
  <2> QED
    BY <1>1, <2>1 DEF Follows
<1>4. CASE schema = 1
  <2>1. \A r \in Known' : r.version = 1 /\ ~IsAnchor(r)
    BY <1>1, <1>4 DEF OldRows, Seen
  <2> QED
    BY <1>3, <2>1 DEF OneChain
<1>5. CASE schema = 2
  <2>1. Known \in SUBSET Rows /\ Seen(w) \in SUBSET Rows
    BY HeadRead DEF Seen
  <2>2. ASSUME NEW r \in Seen(w) PROVE LinkedIn(r, Seen(w))
    <3>1. CASE r \in pending[w]
      BY <1>5, <3>1 DEF Follows
    <3>2. CASE r \in Known
      <4>1. LinkedIn(r, Known)
        BY <3>2 DEF OneChain, Earlier, LinkedIn
      <4>2. ASSUME NEW t \in Seen(w) \ Known PROVE r.id <= t.id
        <5>1. r.id < t.id
          BY <1>5, <3>2, <4>2 DEF Follows, Seen
        <5>2. r.id \in Int /\ t.id \in Int
          BY <2>1, <3>2, <4>2 DEF Rows, Ids
        <5> QED
          BY <5>1, <5>2
      <4> QED
        BY <2>1, <3>2, <4>1, <4>2, LaterRows DEF Seen
    <3> QED
      BY <3>1, <3>2 DEF Seen
  <2> QED
    BY <1>1, <1>3, <2>2 DEF OneChain, Earlier, LinkedIn
<1> QED
  BY <1>3, <1>4, <1>5 DEF TypeOK

\* Every step keeps the rows committed and those to come one chain.
LEMMA ChainStep == IInv /\ [Next]_vars => (Follows /\ OneChain)'
<1> SUFFICES ASSUME IInv, [Next]_vars PROVE (Follows /\ OneChain)'
  OBVIOUS
<1> USE DEF IInv
<1>1. ASSUME NEW w \in Writers, Begin(w) PROVE (Follows /\ OneChain)'
  BY <1>1 DEF Begin, Follows, OneChain, Seen, Known, Earlier, TypeOK
<1>2. ASSUME NEW w \in Writers, ReadHead(w) PROVE (Follows /\ OneChain)'
  <2>1. Known' = Known /\ \A x \in Writers : Seen(x)' = Seen(x)
    BY <1>2 DEF ReadHead, Known, Seen
  <2>2. head'[w] = LastHash(Seen(w))
    BY <1>2, HeadRead DEF ReadHead, TypeOK
  <2>3. \A x \in Writers \ {w} : head'[x] = head[x] /\ phase'[x] = phase[x]
    BY <1>2 DEF ReadHead, TypeOK
  <2>4. pending' = pending /\ schema' = schema
    BY <1>2 DEF ReadHead
  <2> QED
    BY <2>1, <2>2, <2>3, <2>4 DEF Follows, OneChain, Earlier
<1>3. ASSUME NEW w \in Writers, InsertRow(w) PROVE (Follows /\ OneChain)'
  BY <1>3, InsertStep
<1>4. ASSUME NEW w \in Writers, InsertAnchor(w) PROVE (Follows /\ OneChain)'
  BY <1>4, AnchorStep
<1>5. ASSUME NEW w \in Writers, Commit(w) PROVE (Follows /\ OneChain)'
  BY <1>5, CommitStep
<1>6. ASSUME NEW w \in Writers, Rollback(w) PROVE (Follows /\ OneChain)'
  <2>1. Known' = Known /\ schema' = schema /\ pending'[w] = {} /\ phase'[w] = "none"
    BY <1>6 DEF Rollback, End, Known, TypeOK
  <2>2. ASSUME NEW x \in Writers \ {w}
        PROVE Seen(x)' = Seen(x) /\ pending'[x] = pending[x]
              /\ phase'[x] = phase[x] /\ head'[x] = head[x]
    BY <1>6, <2>1 DEF Rollback, End, Seen, TypeOK
  <2> QED
    BY <2>1, <2>2 DEF Follows, OneChain, Earlier
<1>7. ASSUME Upgrade PROVE (Follows /\ OneChain)'
  <2>1. \A w \in Writers : pending'[w] = {} /\ phase'[w] = "none"
    BY <1>7 DEF Upgrade, NoRowsOutside
  <2> QED
    BY <1>7, <2>1 DEF Upgrade, Follows, OneChain, Known, Earlier
<1>8. ASSUME Damage PROVE (Follows /\ OneChain)'
  <2>1. Known' = Known /\ \A x \in Writers : Seen(x)' = Seen(x)
    BY <1>8, DamageStep DEF Damage, Seen
  <2>2. UNCHANGED <<schema, phase, pending, head>>
    BY <1>8 DEF Damage
  <2> QED
    BY <2>1, <2>2 DEF Follows, OneChain, Earlier
<1>9. ASSUME Start \/ ReadChunk \/ EndSlice \/ Restart \/ UNCHANGED vars
      PROVE (Follows /\ OneChain)'
  <2>1. UNCHANGED <<chain, damage>>
    BY <1>9 DEF Start, ReadChunk, EndSlice, Restart, vars
  <2> QED
    BY <2>1 DEF chain, Follows, OneChain, Known, Seen, Earlier
<1> QED
  BY <1>1, <1>2, <1>3, <1>4, <1>5, <1>6, <1>7, <1>8, <1>9 DEF Next

-----------------------------------------------------------------------------
(* The theorems.                                                           *)

\* An empty log satisfies the invariant.
LEMMA Initially == Init => IInv
  BY AuditAssumption DEF Init, IInv, TypeOK, DamageOK, TailStands, Sequenced, HasLast,
     NoRowsOutside, Exclusive, OldRows, Follows, HeadsRead, OneChain, Known, Hashes, Ids

\* The invariant holds in every reachable state.
LEMMA Invariance == Spec => []IInv
<1>1. IInv /\ [Next]_vars => IInv'
  BY TypeStep, OrderStep, IdStep, ChainStep DEF IInv
<1> QED
  BY Initially, <1>1, PTL DEF Spec

\* Every variable of the log and of its writers has its declared type.
THEOREM TypeCorrect == Spec => []TypeOK
  BY Invariance, PTL DEF IInv

\* Since migration 016 every row committed is linked to the one committed
\* before it, and an anchor is its log's first row, whatever transactions
\* overlap, fail, or wait for the trigger to be replaced, and whatever is
\* done to the rows below the application.
THEOREM RowsFormOneChain == Spec => []OneChain
  BY Invariance, PTL DEF IInv

-----------------------------------------------------------------------------
(* What else is true of the rows: ids, kinds and ranks.                    *)

\* No two rows have one id, and a row is in one place.
Distinct ==
    /\ \A r, s \in Known : r.id = s.id => r = s
    /\ log \cap damage.removed = {}
    /\ \A w \in Writers : \A r \in pending[w] :
          /\ \A s \in Known : r.id # s.id
          /\ \A s \in pending[w] : r.id = s.id => r = s
          /\ \A x \in Writers \ {w} : \A s \in pending[x] : r.id # s.id

Finite == IsFiniteSet(Known) /\ \A w \in Writers : IsFiniteSet(pending[w])

\* Rows of the old trigger come before those of the new one.
OldFirst ==
    /\ \A r, s \in Known : r.version = 1 /\ s.version = 2 => r.id < s.id
    /\ \A r \in Known : r.version = 1 => ~IsAnchor(r)
    /\ schema = 2 => \A w \in Writers : \A r \in pending[w] : r.version = 2

\* What the old trigger linked a row to is genesis or an earlier row.
LinkedBack(r, S) == r.prev = Genesis \/ \E s \in S : s.id = r.prev /\ s.id < r.id

Rooted ==
    /\ \A r \in Known : r.version = 1 => LinkedBack(r, Known)
    /\ \A w \in Writers :
          /\ \A r \in pending[w] : r.version = 1 => LinkedBack(r, Seen(w))
          /\ phase[w] = "inserting" =>
                head[w] = Genesis \/ \E s \in Seen(w) : s.id = head[w]

\* Each rank is some row's.
Ranked(S) ==
    /\ IsFiniteSet(S)
    /\ \A n \in 0..(Cardinality(S) - 1) : \E r \in S : Cardinality({s \in S : s.id < r.id}) = n

Ranks ==
    /\ Ranked(New(Known))
    /\ schema = 2 => \A w \in Writers : Ranked(New(Seen(w)))

\* Only rows are altered.
Harmed == \A i \in damage.altered : \E r \in Known : r.id = i

RowsInv == Distinct /\ Finite /\ OldFirst /\ Rooted /\ Ranks

-----------------------------------------------------------------------------
(* What a verification that no damage fell into has found so far.          *)

VOK ==
    v \in [pc : {"idle", "reading", "done"}, after : Int, expected : Hashes, read : Int,
           mislinked : SUBSET Rows, altered : SUBSET Ids,
           verdict : {"valid", "intact_with_forks", "broken"},
           before : SUBSET Ids, during : BOOLEAN]

Root == IF IsAnchor(FirstRow) THEN Archived ELSE Genesis

\* The hash a row of the log must be linked to.
Wanted(r) ==
    LET earlier == {s \in log : s.id < r.id}
    IN  IF earlier = {} THEN Root ELSE LastHash(earlier)

Mislinked(r) == r.prev # Wanted(r)

AtRow == \E r \in log : r.id = v.after /\ v.expected = r.id

\* Where the verification is.
Place ==
    /\ schema = 2 /\ log # {} /\ v.before = Lost
    /\ AtRow \/ (v.expected = Root /\ \A r \in log : v.after < r.id)

\* What it has passed it has noted, or has judged.
Noted ==
    \A r \in log : r.id <= v.after =>
        /\ Mislinked(r) =>
               \/ r \in v.mislinked \/ v.verdict = "broken"
               \/ Fork(r) /\ v.verdict = "intact_with_forks"
        /\ r.id \in damage.altered => r.id \in v.altered \/ v.verdict = "broken"

\* What it has noted and judged is so.
Founded ==
    /\ \A r \in v.mislinked : r \in log /\ Mislinked(r)
    /\ v.altered \subseteq damage.altered
    /\ v.verdict = "broken" =>
           damage.altered # {} \/ \E r \in log : Mislinked(r) /\ ~Fork(r)
    /\ v.verdict = "intact_with_forks" => \E r \in log : Mislinked(r)

\* Rows that come after its end are of the new trigger, and undamaged.
Ended ==
    v.pc = "done" =>
        /\ AtRow /\ v.mislinked = {} /\ v.altered = {}
        /\ \A r \in log : r.id > v.after => r.version = 2
        /\ \A s \in damage.removed : s.id < v.after
        /\ \A i \in damage.altered : i <= v.after

Findings == v.pc # "idle" /\ ~v.during => Place /\ Noted /\ Founded /\ Ended

-----------------------------------------------------------------------------
(* Rows in the order of their ids.                                         *)

\* A set of natural numbers that holds one has a least one.
LEMMA LeastNumber ==
    ASSUME NEW S \in SUBSET Nat, S # {} PROVE \E n \in S : \A m \in S : n <= m
<1>1. PICK n \in S : \A m \in S : ~(<<m, n>> \in OpToRel(<, Nat))
  BY NatLessThanWellFounded, WFMin
<1>2. \A m \in S : ~(m < n)
  BY <1>1, Zenon DEF OpToRel
<1> QED
  BY <1>2

\* Rows, if any, have a first and a last one: ids are bounded.
LEMMA RowsHaveEnds ==
    ASSUME NEW S \in SUBSET Rows, S # {}
    PROVE  /\ \E r \in S : \A s \in S : r.id <= s.id
           /\ \E r \in S : \A s \in S : s.id <= r.id
<1>1. MaxId \in Nat /\ \A r \in S : r.id \in 1..MaxId
  BY AuditAssumption DEF Rows, Ids
<1> DEFINE Up == {r.id : r \in S}
           Down == {MaxId - r.id : r \in S}
<1>2. Up \in SUBSET Nat /\ Up # {} /\ Down \in SUBSET Nat /\ Down # {}
  BY <1>1
<1>3. PICK n \in Up : \A m \in Up : n <= m
  BY <1>2, LeastNumber
<1>4. PICK k \in Down : \A m \in Down : k <= m
  BY <1>2, LeastNumber
<1>5. PICK r \in S : r.id = n
  BY <1>3
<1>6. PICK q \in S : MaxId - q.id = k
  BY <1>4
<1>7. \A s \in S : r.id <= s.id
  BY <1>3, <1>5
<1>8. \A s \in S : s.id <= q.id
  <2> SUFFICES ASSUME NEW s \in S PROVE s.id <= q.id
    OBVIOUS
  <2>1. MaxId - q.id <= MaxId - s.id
    BY <1>4, <1>6
  <2> QED
    BY <1>1, <2>1
<1> QED
  BY <1>7, <1>8

\* A row whose id is higher than all others' has the next rank.
LEMMA RankedAdd ==
    ASSUME NEW S \in SUBSET Rows, NEW r \in Rows, \A s \in S : s.id < r.id, Ranked(S)
    PROVE  Ranked(S \cup {r})
<1>1. \A s \in Rows : s.id \in Int
  BY AuditAssumption DEF Rows, Ids
<1>2. r \notin S
  BY <1>1
<1>3. /\ IsFiniteSet(S \cup {r}) /\ Cardinality(S) \in Nat
      /\ Cardinality(S \cup {r}) = Cardinality(S) + 1
  BY <1>2, FS_AddElement, FS_CardinalityType DEF Ranked
<1>4. {s \in S \cup {r} : s.id < r.id} = S
  BY <1>1
<1>5. \A q \in S : {s \in S \cup {r} : s.id < q.id} = {s \in S : s.id < q.id}
  BY <1>1
<1>6. ASSUME NEW n \in 0..(Cardinality(S \cup {r}) - 1)
      PROVE  \E q \in S \cup {r} : Cardinality({s \in S \cup {r} : s.id < q.id}) = n
  <2>1. CASE n = Cardinality(S)
    BY <1>4, <2>1
  <2>2. CASE n \in 0..(Cardinality(S) - 1)
    BY <1>5, <2>2 DEF Ranked
  <2> QED
    BY <1>3, <2>1, <2>2
<1> QED
  BY <1>3, <1>6 DEF Ranked

LEMMA RankedEmpty == Ranked({})
<1>1. IsFiniteSet({}) /\ Cardinality({}) = 0
  BY FS_EmptySet
<1> QED
  BY <1>1 DEF Ranked

-----------------------------------------------------------------------------
(* What else is true of the rows stays true.                               *)

\* A step that leaves the rows where they are.
LEMMA RowsStill ==
    ASSUME RowsInv, UNCHANGED <<log, damage, pending, schema>>,
           \A x \in Writers : phase'[x] = "inserting" =>
               phase[x] = "inserting" /\ head'[x] = head[x]
    PROVE  RowsInv'
<1>1. Known' = Known /\ \A x \in Writers : Seen(x)' = Seen(x)
  BY DEF Known, Seen
<1>2. Distinct' /\ Finite' /\ OldFirst' /\ Ranks'
  BY <1>1 DEF RowsInv, Distinct, Finite, OldFirst, Ranks
<1>3. Rooted'
  BY <1>1 DEF RowsInv, Rooted
<1> QED
  BY <1>2, <1>3 DEF RowsInv

\* The head a trigger reads is genesis or a row's that it sees.
LEMMA HeadIsSeen ==
    ASSUME IInv, NEW w \in Writers
    PROVE  \/ LastHash(Visible(w)) = Genesis
           \/ \E s \in Seen(w) : s.id = LastHash(Visible(w))
<1>1. Visible(w) \in SUBSET Seen(w) /\ Seen(w) \in SUBSET Rows
  BY HeadRead
<1>2. CASE Visible(w) = {}
  BY <1>2 DEF LastHash
<1>3. CASE Visible(w) # {}
  <2>1. PICK r \in Visible(w) : \A s \in Visible(w) : s.id <= r.id
    BY <1>1, <1>3, RowsHaveEnds
  <2>2. LastHash(Visible(w)) = r.id
    BY <1>1, <2>1, LastIs
  <2> QED
    BY <1>1, <2>1, <2>2
<1> QED
  BY <1>2, <1>3

LEMMA RowsReadHead ==
    ASSUME IInv, RowsInv, NEW w \in Writers, ReadHead(w) PROVE RowsInv'
<1>1. Known' = Known /\ \A x \in Writers : Seen(x)' = Seen(x)
  BY DEF ReadHead, Known, Seen
<1>2. UNCHANGED <<log, damage, pending, schema>>
  BY DEF ReadHead
<1>3. Distinct' /\ Finite' /\ OldFirst' /\ Ranks'
  BY <1>1, <1>2 DEF RowsInv, Distinct, Finite, OldFirst, Ranks
<1>4. ASSUME NEW x \in Writers, phase'[x] = "inserting"
      PROVE  head'[x] = Genesis \/ \E s \in Seen(x)' : s.id = head'[x]
  <2>1. CASE x = w
    <3>1. head'[w] = LastHash(Visible(w))
      BY DEF ReadHead, IInv, TypeOK
    <3> QED
      BY <1>1, <2>1, <3>1, HeadIsSeen
  <2>2. CASE x # w
    <3>1. head'[x] = head[x] /\ phase'[x] = phase[x]
      BY <2>2 DEF ReadHead, IInv, TypeOK
    <3> QED
      BY <1>1, <1>4, <3>1 DEF RowsInv, Rooted
  <2> QED
    BY <2>1, <2>2
<1>5. Rooted'
  BY <1>1, <1>2, <1>4 DEF RowsInv, Rooted
<1> QED
  BY <1>3, <1>5 DEF RowsInv

\* A row that is inserted has an id of its own, and is linked back.
LEMMA RowsInsert ==
    ASSUME IInv, RowsInv, NEW w \in Writers, InsertRow(w) PROVE RowsInv'
<1> DEFINE row == [id |-> nextId, version |-> schema, prev |-> head[w]]
<1>1. /\ row \in Rows /\ pending[w] \in SUBSET Rows /\ Known \in SUBSET Rows
      /\ nextId \in Int /\ schema \in {1, 2} /\ phase[w] = "inserting"
  BY AuditAssumption DEF IInv, InsertRow, TypeOK, DamageOK, Rows, Ids, Known
<1>2. \A s \in Rows : s.id \in Int
  BY AuditAssumption DEF Rows, Ids
<1>3. /\ pending'[w] = pending[w] \cup {row} /\ phase'[w] = "open"
      /\ Seen(w)' = Seen(w) \cup {row}
      /\ Known' = Known /\ log' = log /\ damage' = damage /\ schema' = schema
  BY DEF InsertRow, IInv, TypeOK, Known, Seen
<1>4. \A x \in Writers \ {w} : pending'[x] = pending[x] /\ phase'[x] = phase[x]
                               /\ head'[x] = head[x] /\ Seen(x)' = Seen(x)
  BY <1>3 DEF InsertRow, IInv, TypeOK, Seen
<1>5. /\ \A s \in Known : s.id < row.id
      /\ \A x \in Writers : \A s \in pending[x] : s.id < row.id
  BY DEF IInv, Sequenced
<1>6. Distinct'
  <2>1. \A r \in pending'[w] : \A s \in Known : r.id # s.id
    BY <1>1, <1>2, <1>3, <1>5 DEF RowsInv, Distinct
  <2>2. \A r, s \in pending'[w] : r.id = s.id => r = s
    BY <1>1, <1>2, <1>3, <1>5 DEF RowsInv, Distinct
  <2>3. \A x \in Writers \ {w} : \A r \in pending'[w] : \A s \in pending'[x] : r.id # s.id
    BY <1>1, <1>2, <1>3, <1>4, <1>5 DEF RowsInv, Distinct
  <2>4. ASSUME NEW x \in Writers \ {w}, NEW r \in pending'[x]
        PROVE  /\ \A s \in Known' : r.id # s.id
               /\ \A s \in pending'[x] : r.id = s.id => r = s
               /\ \A y \in Writers \ {x} : \A s \in pending'[y] : r.id # s.id
    BY <1>3, <1>4, <2>3, <2>4 DEF RowsInv, Distinct
  <2>5. ASSUME NEW x \in Writers, NEW r \in pending'[x]
        PROVE  /\ \A s \in Known' : r.id # s.id
               /\ \A s \in pending'[x] : r.id = s.id => r = s
               /\ \A y \in Writers \ {x} : \A s \in pending'[y] : r.id # s.id
    BY <1>3, <2>1, <2>2, <2>3, <2>4, <2>5
  <2> QED
    BY <1>3, <2>5 DEF RowsInv, Distinct
<1>7. Finite'
  <2>1. IsFiniteSet(pending[w] \cup {row})
    BY FS_AddElement DEF RowsInv, Finite
  <2> QED
    BY <1>3, <1>4, <2>1 DEF RowsInv, Finite
<1>8. OldFirst'
  BY <1>3, <1>4 DEF RowsInv, OldFirst
<1>9. Rooted'
  <2>1. LinkedBack(row, Seen(w)')
    BY <1>1, <1>3, <1>5 DEF RowsInv, Rooted, LinkedBack, Seen
  <2>2. ASSUME NEW x \in Writers, NEW r \in pending'[x], r.version = 1
        PROVE  LinkedBack(r, Seen(x)')
    BY <1>3, <1>4, <2>1, <2>2 DEF RowsInv, Rooted, LinkedBack
  <2>3. ASSUME NEW x \in Writers, phase'[x] = "inserting"
        PROVE  head'[x] = Genesis \/ \E s \in Seen(x)' : s.id = head'[x]
    BY <1>3, <1>4, <2>3 DEF RowsInv, Rooted
  <2> QED
    BY <1>3, <2>2, <2>3 DEF RowsInv, Rooted
<1>10. Ranks'
  <2>1. ASSUME schema = 2 PROVE Ranked(New(Seen(w)) \cup {row})
    <3>1. New(Seen(w)) \in SUBSET Rows /\ \A s \in New(Seen(w)) : s.id < row.id
      BY <1>1, <1>5 DEF New, Seen
    <3> QED
      BY <1>1, <2>1, <3>1, RankedAdd DEF RowsInv, Ranks
  <2>2. schema = 2 => New(Seen(w))' = New(Seen(w)) \cup {row}
    BY <1>3 DEF New
  <2>3. \A x \in Writers \ {w} : New(Seen(x))' = New(Seen(x))
    BY <1>4 DEF New
  <2> QED
    BY <1>3, <2>1, <2>2, <2>3 DEF RowsInv, Ranks, New
<1> QED
  BY <1>6, <1>7, <1>8, <1>9, <1>10 DEF RowsInv

LEMMA RowsAnchor ==
    ASSUME IInv, RowsInv, NEW w \in Writers, InsertAnchor(w) PROVE RowsInv'
<1> DEFINE row == [id |-> nextId, version |-> 2, prev |-> Archived]
<1>1. Known = {} /\ Known' = {}
  BY EmptyLog DEF InsertAnchor, Known
<1>2. pending'[w] = {row} /\ phase'[w] = "open" /\ schema' = 2 /\ row \in Rows
  BY AuditAssumption DEF InsertAnchor, IInv, TypeOK, Rows, Ids, Hashes
<1>3. \A x \in Writers \ {w} : pending'[x] = {} /\ phase'[x] = "none"
  BY OnlyWriter DEF InsertAnchor, IInv, TypeOK
<1>4. log' = log /\ damage' = damage
  BY DEF InsertAnchor
<1>5. Distinct'
  BY <1>1, <1>2, <1>3, <1>4 DEF RowsInv, Distinct
<1>6. Finite'
  <2>1. IsFiniteSet({}) /\ IsFiniteSet({row})
    BY FS_EmptySet, FS_Singleton
  <2> QED
    BY <1>1, <1>2, <1>3, <2>1 DEF Finite
<1>7. OldFirst' /\ Rooted'
  BY <1>1, <1>2, <1>3 DEF OldFirst, Rooted
<1>8. Seen(w)' = {row} /\ \A x \in Writers \ {w} : Seen(x)' = {}
  BY <1>1, <1>2, <1>3 DEF Seen
<1>9. Ranked({row})
  <2>1. Ranked({} \cup {row})
    BY <1>2, RankedEmpty, RankedAdd
  <2> QED
    BY <2>1
<1>10. Ranks'
  <2>1. New(Known)' = {} /\ New(Seen(w))' = {row} /\ \A x \in Writers \ {w} : New(Seen(x))' = {}
    BY <1>1, <1>8 DEF New
  <2> QED
    BY <1>9, <2>1, RankedEmpty DEF Ranks
<1> QED
  BY <1>5, <1>6, <1>7, <1>10 DEF RowsInv

\* What is committed was distinct, linked back and ranked before.
LEMMA RowsCommit ==
    ASSUME IInv, RowsInv, NEW w \in Writers, Commit(w) PROVE RowsInv'
<1>1. /\ Known' = Seen(w) /\ schema' = schema /\ damage' = damage
      /\ log' = log \cup pending[w] /\ pending'[w] = {} /\ phase'[w] = "none"
  BY DEF Commit, End, Known, Seen, IInv, TypeOK
<1>2. \A x \in Writers \ {w} : /\ pending'[x] = pending[x] /\ phase'[x] = phase[x]
                               /\ head'[x] = head[x]
                               /\ Seen(x) \subseteq Seen(x)'
  BY <1>1 DEF Commit, End, IInv, TypeOK, Seen
<1>3. schema = 2 => \A x \in Writers \ {w} : pending[x] = {} /\ phase[x] = "none"
  BY OnlyWriter DEF Commit, IInv, Exclusive, NoRowsOutside
<1>4. Distinct'
  <2>1. \A r, s \in Known' : r.id = s.id => r = s
    BY <1>1 DEF RowsInv, Distinct, Seen
  <2>2. log' \cap damage'.removed = {}
    BY <1>1 DEF RowsInv, Distinct, Known
  <2>3. ASSUME NEW x \in Writers, NEW r \in pending'[x]
        PROVE  /\ \A s \in Known' : r.id # s.id
               /\ \A s \in pending'[x] : r.id = s.id => r = s
               /\ \A y \in Writers \ {x} : \A s \in pending'[y] : r.id # s.id
    BY <1>1, <1>2, <2>3 DEF RowsInv, Distinct, Seen
  <2> QED
    BY <2>1, <2>2, <2>3 DEF Distinct
<1>5. Finite'
  BY <1>1, <1>2, FS_Union, FS_EmptySet DEF RowsInv, Finite, Seen
<1>6. OldFirst'
  <2>1. CASE schema = 1
    <3>1. \A r \in Known' : r.version = 1 /\ ~IsAnchor(r)
      BY <1>1, <2>1 DEF IInv, OldRows, Seen
    <3> QED
      BY <1>1, <2>1, <3>1 DEF OldFirst
  <2>2. CASE schema = 2
    <3>1. \A r \in pending[w] : r.version = 2 /\ \A s \in Known : s.id < r.id
      BY <2>2 DEF RowsInv, OldFirst, IInv, Follows
    <3>2. \A r, s \in Known' : r.version = 1 /\ s.version = 2 => r.id < s.id
      BY <1>1, <3>1 DEF RowsInv, OldFirst, Seen
    <3>3. \A r \in Known' : r.version = 1 => ~IsAnchor(r)
      BY <1>1, <3>1 DEF RowsInv, OldFirst, Seen
    <3> QED
      BY <1>1, <1>2, <3>2, <3>3 DEF RowsInv, OldFirst
  <2> QED
    BY <2>1, <2>2 DEF IInv, TypeOK
<1>7. Rooted'
  <2>1. \A r \in Known' : r.version = 1 => LinkedBack(r, Known')
    BY <1>1 DEF RowsInv, Rooted, Seen, LinkedBack
  <2>2. ASSUME NEW x \in Writers
        PROVE  /\ \A r \in pending'[x] : r.version = 1 => LinkedBack(r, Seen(x)')
               /\ phase'[x] = "inserting" =>
                      head'[x] = Genesis \/ \E s \in Seen(x)' : s.id = head'[x]
    BY <1>1, <1>2 DEF RowsInv, Rooted, LinkedBack
  <2> QED
    BY <2>1, <2>2 DEF Rooted
<1>8. Ranks'
  <2>1. Ranked(New(Known)')
    <3>1. CASE schema = 1
      <4>1. New(Known)' = {}
        BY <1>1, <3>1 DEF IInv, OldRows, Seen, New
      <4> QED
        BY <4>1, RankedEmpty
    <3>2. CASE schema = 2
      BY <1>1, <3>2 DEF RowsInv, Ranks, New
    <3> QED
      BY <3>1, <3>2 DEF IInv, TypeOK
  <2>2. ASSUME schema = 2, NEW x \in Writers PROVE New(Seen(x))' = New(Known)'
    BY <1>1, <1>2, <1>3, <2>2 DEF Seen, New
  <2> QED
    BY <1>1, <2>1, <2>2 DEF Ranks
<1> QED
  BY <1>4, <1>5, <1>6, <1>7, <1>8 DEF RowsInv

LEMMA RowsRollback ==
    ASSUME IInv, RowsInv, NEW w \in Writers, Rollback(w) PROVE RowsInv'
<1>1. /\ Known' = Known /\ schema' = schema /\ damage' = damage
      /\ log' = log /\ pending'[w] = {} /\ phase'[w] = "none"
  BY DEF Rollback, End, Known, IInv, TypeOK
<1>2. Seen(w)' = Known
  BY <1>1 DEF Seen
<1>3. \A x \in Writers \ {w} : /\ pending'[x] = pending[x] /\ phase'[x] = phase[x]
                               /\ head'[x] = head[x]
                               /\ Seen(x)' = Seen(x)
  BY <1>1 DEF Rollback, End, IInv, TypeOK, Seen
<1>4. Distinct'
  BY <1>1, <1>3 DEF RowsInv, Distinct
<1>5. Finite'
  BY <1>1, <1>3, FS_EmptySet DEF RowsInv, Finite
<1>6. OldFirst'
  BY <1>1, <1>3 DEF RowsInv, OldFirst
<1>7. Rooted'
  BY <1>1, <1>3 DEF RowsInv, Rooted
<1>8. Ranks'
  BY <1>1, <1>2, <1>3 DEF RowsInv, Ranks, New
<1> QED
  BY <1>4, <1>5, <1>6, <1>7, <1>8 DEF RowsInv

\* No transaction is open when the trigger is replaced.
LEMMA RowsUpgrade == ASSUME IInv, RowsInv, Upgrade PROVE RowsInv'
<1>1. /\ Known' = Known /\ log' = log /\ damage' = damage /\ pending' = pending
      /\ schema' = 2 /\ phase' = phase
  BY DEF Upgrade, Known
<1>2. \A x \in Writers : phase[x] = "none" /\ pending[x] = {} /\ Seen(x)' = Known
  BY <1>1 DEF Upgrade, IInv, NoRowsOutside, Seen
<1>3. Distinct' /\ Finite' /\ OldFirst' /\ Rooted'
  BY <1>1, <1>2 DEF RowsInv, Distinct, Finite, OldFirst, Rooted
<1>4. Ranks'
  BY <1>1, <1>2 DEF RowsInv, Ranks, New
<1> QED
  BY <1>3, <1>4 DEF RowsInv

\* A row that is removed is in the log no more.
LEMMA RowsDamage == ASSUME IInv, RowsInv, Damage PROVE RowsInv'
<1>1. /\ Known' = Known /\ UNCHANGED <<pending, schema, phase, head>>
      /\ \A x \in Writers : Seen(x)' = Seen(x)
  BY DamageStep DEF Damage, Seen
<1>2. log' \cap damage'.removed = {}
  <2>1. PICK r \in log : AlterRow(r) \/ RemoveRow(r)
    BY DEF Damage
  <2>2. CASE AlterRow(r)
    BY <2>2 DEF AlterRow, IInv, DamageOK, RowsInv, Distinct
  <2>3. CASE RemoveRow(r)
    BY <2>3 DEF RemoveRow, IInv, DamageOK, RowsInv, Distinct
  <2> QED
    BY <2>1, <2>2, <2>3
<1>3. Distinct'
  BY <1>1, <1>2 DEF RowsInv, Distinct
<1>4. Finite' /\ OldFirst' /\ Rooted' /\ Ranks'
  BY <1>1 DEF RowsInv, Finite, OldFirst, Rooted, Ranks, New
<1> QED
  BY <1>3, <1>4 DEF RowsInv

LEMMA RowsStep == IInv /\ RowsInv /\ [Next]_vars => RowsInv'
<1> SUFFICES ASSUME IInv, RowsInv, [Next]_vars PROVE RowsInv'
  OBVIOUS
<1>1. ASSUME NEW w \in Writers, Begin(w) PROVE RowsInv'
  BY <1>1, RowsStill DEF Begin, IInv, TypeOK
<1>2. ASSUME NEW w \in Writers, ReadHead(w) PROVE RowsInv'
  BY <1>2, RowsReadHead
<1>3. ASSUME NEW w \in Writers, InsertRow(w) PROVE RowsInv'
  BY <1>3, RowsInsert
<1>4. ASSUME NEW w \in Writers, InsertAnchor(w) PROVE RowsInv'
  BY <1>4, RowsAnchor
<1>5. ASSUME NEW w \in Writers, Commit(w) PROVE RowsInv'
  BY <1>5, RowsCommit
<1>6. ASSUME NEW w \in Writers, Rollback(w) PROVE RowsInv'
  BY <1>6, RowsRollback
<1>7. ASSUME Upgrade PROVE RowsInv'
  BY <1>7, RowsUpgrade
<1>8. ASSUME Damage PROVE RowsInv'
  BY <1>8, RowsDamage
<1>9. ASSUME Start \/ ReadChunk \/ EndSlice \/ Restart \/ UNCHANGED vars PROVE RowsInv'
  <2>1. UNCHANGED <<chain, damage>>
    BY <1>9 DEF Start, ReadChunk, EndSlice, Restart, vars
  <2> QED
    BY <2>1, RowsStill DEF chain
<1> QED
  BY <1>1, <1>2, <1>3, <1>4, <1>5, <1>6, <1>7, <1>8, <1>9 DEF Next

LEMMA RowsInvariance == Spec => [](IInv /\ RowsInv)
<1>1. Init => RowsInv
  <2> SUFFICES ASSUME Init PROVE RowsInv
    OBVIOUS
  <2>1. Known = {} /\ \A w \in Writers : pending[w] = {} /\ Seen(w) = {} /\ phase[w] = "none"
    BY DEF Init, Known, Seen
  <2>2. New({}) = {} /\ log = {}
    BY DEF New, Init
  <2> QED
    BY <2>1, <2>2, FS_EmptySet, RankedEmpty
       DEF RowsInv, Distinct, Finite, OldFirst, Rooted, Ranks
<1> QED
  BY <1>1, Invariance, RowsStep, PTL DEF Spec

-----------------------------------------------------------------------------
(* The ledger.                                                             *)

DistinctIds(S) == \A r, s \in S : r.id = s.id => r = s

Rank(S, r) == Cardinality({s \in S : s.id < r.id})

\* Ranks are ordered as ids are.
LEMMA RanksAreOrdered ==
    ASSUME NEW S \in SUBSET Rows, IsFiniteSet(S), NEW r \in S, NEW s \in S, r.id < s.id
    PROVE  Rank(S, r) \in Nat /\ Rank(S, s) \in Nat /\ Rank(S, r) < Rank(S, s)
<1> DEFINE A == {t \in S : t.id < r.id}
           B == {t \in S : t.id < s.id}
<1>1. \A t \in Rows : t.id \in Int
  BY AuditAssumption DEF Rows, Ids
<1>2. IsFiniteSet(A) /\ IsFiniteSet(B)
  BY FS_Subset
<1>3. A \cup {r} \in SUBSET B /\ r \notin A
  BY <1>1
<1>4. Cardinality(A \cup {r}) = Cardinality(A) + 1 /\ Cardinality(A) \in Nat
  BY <1>2, <1>3, FS_AddElement, FS_CardinalityType
<1>5. Cardinality(A \cup {r}) <= Cardinality(B) /\ Cardinality(B) \in Nat
  BY <1>2, <1>3, FS_Subset, FS_CardinalityType
<1> QED
  BY <1>4, <1>5 DEF Rank

\* A rank is one row's.
LEMMA NthIs ==
    ASSUME NEW S \in SUBSET Rows, IsFiniteSet(S), DistinctIds(S), NEW r \in S
    PROVE  Nth(S, Rank(S, r)) = r
<1> DEFINE q == Nth(S, Rank(S, r))
<1>1. q \in S /\ Rank(S, q) = Rank(S, r)
  BY DEF Nth, Rank
<1>2. r.id \in Int /\ q.id \in Int
  BY <1>1, AuditAssumption DEF Rows, Ids
<1>3. ~(r.id < q.id) /\ ~(q.id < r.id)
  BY <1>1, RanksAreOrdered
<1> QED
  BY <1>1, <1>2, <1>3 DEF DistinctIds

\* Ranked rows have each rank below their number.
LEMMA NthExists ==
    ASSUME NEW S \in SUBSET Rows, Ranked(S), DistinctIds(S),
           NEW n \in 0..(Cardinality(S) - 1)
    PROVE  Nth(S, n) \in S /\ Rank(S, Nth(S, n)) = n
<1>1. PICK r \in S : Rank(S, r) = n
  BY DEF Ranked, Rank
<1>2. Nth(S, n) = r
  BY <1>1, NthIs DEF Ranked
<1> QED
  BY <1>1, <1>2

\* Rows that come after all there are keep those at their ranks.
LEMMA LaterRanks ==
    ASSUME NEW S, NEW T \in SUBSET Rows, S \subseteq T, S # T, Ranked(S), Ranked(T),
           DistinctIds(T), \A s \in S : \A t \in T \ S : s.id < t.id
    PROVE  /\ Len(InOrder(S)) < Len(InOrder(T))
           /\ SubSeq(InOrder(T), 1, Len(InOrder(S))) = InOrder(S)
<1>1. \A t \in Rows : t.id \in Int
  BY AuditAssumption DEF Rows, Ids
<1>2. /\ Cardinality(S) \in Nat /\ Cardinality(T) \in Nat
      /\ Cardinality(S) <= Cardinality(T) /\ Cardinality(S) # Cardinality(T)
  BY FS_Subset, FS_CardinalityType DEF Ranked
<1>3. Len(InOrder(S)) = Cardinality(S) /\ Len(InOrder(T)) = Cardinality(T)
  BY <1>2 DEF InOrder
<1>4. ASSUME NEW i \in 1..Cardinality(S) PROVE InOrder(T)[i] = InOrder(S)[i]
  <2> DEFINE r == Nth(S, i - 1)
  <2>1. DistinctIds(S) /\ i - 1 \in 0..(Cardinality(S) - 1)
    BY <1>2 DEF DistinctIds
  <2>2. r \in S /\ Rank(S, r) = i - 1
    BY <2>1, NthExists
  <2>3. {s \in T : s.id < r.id} = {s \in S : s.id < r.id}
    BY <1>1, <2>2
  <2>4. Rank(T, r) = i - 1
    BY <2>2, <2>3 DEF Rank
  <2>5. Nth(T, i - 1) = r
    BY <2>2, <2>4, NthIs DEF Ranked
  <2> QED
    BY <1>2, <2>5 DEF InOrder
<1>5. SubSeq(InOrder(T), 1, Cardinality(S)) = [i \in 1..Cardinality(S) |-> InOrder(T)[i]]
  BY <1>2
<1>6. InOrder(S) = [i \in 1..Cardinality(S) |-> InOrder(S)[i]]
  BY DEF InOrder
<1> QED
  BY <1>2, <1>3, <1>4, <1>5, <1>6

\* The rows of one chain, in the order of their ids, are linked.
LEMMA ChainIsLinked ==
    ASSUME IInv, RowsInv PROVE Ledger!Linked(SerializedRows)
<1> DEFINE S == New(Known)
<1>1. /\ S \in SUBSET Rows /\ Known \in SUBSET Rows /\ Ranked(S) /\ DistinctIds(S)
      /\ IsFiniteSet(S)
  BY DEF IInv, TypeOK, DamageOK, RowsInv, Distinct, DistinctIds, Ranks, Ranked, New, Known
<1>2. Len(SerializedRows) = Cardinality(S) /\ Cardinality(S) \in Nat
  BY <1>1, FS_CardinalityType DEF SerializedRows, InOrder
<1> SUFFICES ASSUME NEW i \in 2..Cardinality(S)
             PROVE  SerializedRows[i].prev = SerializedRows[i - 1].hash
  BY <1>2 DEF Ledger!Linked
<1> DEFINE r == Nth(S, i - 1)
           q == Nth(S, i - 2)
<1>3. r \in S /\ Rank(S, r) = i - 1 /\ q \in S /\ Rank(S, q) = i - 2
  BY <1>1, <1>2, NthExists
<1>4. SerializedRows[i] = Entry(r) /\ SerializedRows[i - 1] = Entry(q)
  BY <1>2 DEF SerializedRows, InOrder
<1> HIDE DEF r, q, S
<1>5. \A t \in Rows : t.id \in Int
  BY AuditAssumption DEF Rows, Ids
<1>6. q.id < r.id
  <2>1. ~(r.id < q.id)
    BY <1>1, <1>2, <1>3, RanksAreOrdered
  <2>2. r # q
    BY <1>2, <1>3
  <2> QED
    BY <1>1, <1>3, <1>5, <2>1, <2>2 DEF DistinctIds
<1>7. ASSUME NEW s \in Known, s.id < r.id PROVE s.id <= q.id
  <2>1. CASE s \in S
    <3>1. ~(q.id < s.id)
      <4>1. Rank(S, s) \in Nat /\ Rank(S, s) < i - 1
        BY <1>1, <1>3, <1>7, <2>1, RanksAreOrdered
      <4>2. q.id < s.id => i - 2 < Rank(S, s)
        BY <1>1, <1>3, <2>1, RanksAreOrdered
      <4> QED
        BY <4>1, <4>2
    <3> QED
      BY <1>1, <1>3, <1>5, <2>1, <3>1
  <2>2. CASE s \notin S
    <3>1. s.version = 1 /\ q \in Known /\ q.version = 2
      BY <1>1, <1>3, <1>7, <2>2 DEF S, New, Rows
    <3>2. s.id < q.id
      BY <3>1 DEF RowsInv, OldFirst
    <3> QED
      BY <1>1, <1>3, <1>5, <3>1, <3>2
  <2> QED
    BY <2>1, <2>2
<1>8. r \in Known /\ q \in Known /\ r.version = 2
  BY <1>3 DEF S, New
<1>9. q \in Earlier(r) /\ \A s \in Earlier(r) : s.id <= q.id
  BY <1>6, <1>7, <1>8 DEF Earlier
<1>10. LastHash(Earlier(r)) = q.id
  BY <1>1, <1>9, LastIs DEF Earlier
<1>11. r.prev = q.id
  BY <1>8, <1>9, <1>10 DEF IInv, OneChain
<1> QED
  BY <1>4, <1>11 DEF Entry

\* Every step extends the ledger or leaves it.
LEMMA LedgerStep ==
    ASSUME IInv, RowsInv, IInv', RowsInv', Ledger!Linked(SerializedRows)', [Next]_vars
    PROVE  [Ledger!Extend]_SerializedRows
<1>1. CASE New(Known)' = New(Known)
  BY <1>1 DEF SerializedRows
<1>2. CASE New(Known)' # New(Known)
  <2>1. PICK w \in Writers : Commit(w)
    <3>1. \A w \in Writers : Begin(w) \/ ReadHead(w) \/ InsertRow(w) \/ InsertAnchor(w)
                             \/ Rollback(w) => Known' = Known
      BY DEF Begin, ReadHead, InsertRow, InsertAnchor, Rollback, End, Known
    <3>2. Upgrade \/ Damage => Known' = Known
      BY DamageStep DEF Upgrade, Known
    <3>3. Start \/ ReadChunk \/ EndSlice \/ Restart \/ UNCHANGED vars => Known' = Known
      BY DEF Start, ReadChunk, EndSlice, Restart, vars, chain, Known
    <3> QED
      BY <1>2, <3>1, <3>2, <3>3 DEF Next, New
  <2>2. Known' = Seen(w) /\ Known \subseteq Seen(w)
    BY <2>1 DEF Commit, End, Known, Seen
  <2>3. schema = 2
    <3>1. CASE schema = 1
      BY <1>2, <2>2, <3>1 DEF IInv, OldRows, Seen, New
    <3> QED
      BY <3>1 DEF IInv, TypeOK
  <2>4. \A r \in pending[w] : \A s \in Known : s.id < r.id
    BY <2>3 DEF IInv, Follows
  <2>5. PICK T : T = New(Known)'
    OBVIOUS
  <2>6. T \in SUBSET Rows /\ Ranked(T) /\ DistinctIds(T)
    BY <2>5 DEF IInv, TypeOK, DamageOK, RowsInv, Distinct, DistinctIds, Ranks, New, Known
  <2>7. /\ New(Known) \subseteq T /\ Ranked(New(Known))
        /\ \A s \in New(Known) : \A t \in T \ New(Known) : s.id < t.id
    BY <2>2, <2>4, <2>5 DEF RowsInv, Ranks, New, Seen
  <2>8. SerializedRows' = InOrder(T)
    BY <2>5 DEF SerializedRows
  <2>9. /\ Len(InOrder(New(Known))) < Len(InOrder(T))
        /\ SubSeq(InOrder(T), 1, Len(InOrder(New(Known)))) = InOrder(New(Known))
    BY <1>2, <2>5, <2>6, <2>7, LaterRanks
  <2> QED
    BY <2>8, <2>9 DEF Ledger!Extend, SerializedRows
<1> QED
  BY <1>1, <1>2

\* The rows committed since migration 016 are an append-only ledger: each
\* transaction adds its rows to the end, linked to those that were there, and
\* no step, of damage neither, reorders what it holds.
THEOREM RefinesLedger == Spec => ImplementsLedger
<1>1. Init => Ledger!Init
  <2> SUFFICES ASSUME Init PROVE SerializedRows = <<>>
    BY DEF Ledger!Init
  <2>1. New(Known) = {}
    BY DEF Init, Known, New
  <2>2. Cardinality({}) = 0
    BY FS_EmptySet
  <2> QED
    BY <2>1, <2>2 DEF SerializedRows, InOrder
<1>2. /\ IInv /\ RowsInv /\ IInv' /\ RowsInv'
      /\ Ledger!Linked(SerializedRows)' /\ [Next]_vars
      => [Ledger!Extend]_SerializedRows
  BY LedgerStep
<1>3. IInv /\ RowsInv => Ledger!Linked(SerializedRows)
  BY ChainIsLinked
<1> QED
  BY <1>1, <1>2, <1>3, RowsInvariance, PTL DEF Spec, ImplementsLedger, Ledger!Spec

-----------------------------------------------------------------------------
(* The verification.                                                       *)

\* Where the log starts, what a row of it must be linked to, and whether it is
\* a fork, as operators on the rows.
RootIn(S) ==
    IF IsAnchor(CHOOSE r \in S : \A s \in S : r.id <= s.id) THEN Archived ELSE Genesis

WantedIn(r, S) ==
    LET earlier == {s \in S : s.id < r.id}
    IN  IF earlier = {} THEN RootIn(S) ELSE LastHash(earlier)

ForkIn(r, S) ==
    /\ ~\E s \in S : s.version = 2 /\ s.id < r.id
    /\ r.prev \in {Genesis, RootIn(S)} \/ \E s \in S : s.id = r.prev /\ s.id < r.id

LEMMA InTheLog ==
    /\ Root = RootIn(log)
    /\ \A r : Wanted(r) = WantedIn(r, log)
    /\ \A r : Fork(r) <=> ForkIn(r, log)
<1>1. Root = RootIn(log)
  BY DEF Root, RootIn, FirstRow
<1>2. Roots = {Genesis, RootIn(log)}
  BY DEF Roots, RootIn, FirstRow
<1> QED
  BY <1>1, <1>2 DEF Wanted, WantedIn, Fork, ForkIn, Serialized

\* Rows that come after all there are change nothing for those.
LEMMA LaterRowsFork ==
    ASSUME NEW S, NEW T \in SUBSET Rows, S \subseteq T, S # {}, DistinctIds(T),
           \A s \in S : \A t \in T \ S : s.id < t.id
    PROVE  /\ RootIn(T) = RootIn(S)
           /\ \A r \in S : WantedIn(r, T) = WantedIn(r, S) /\ (ForkIn(r, T) <=> ForkIn(r, S))
<1>1. \A t \in Rows : t.id \in Int
  BY AuditAssumption DEF Rows, Ids
<1> DEFINE f == CHOOSE r \in S : \A s \in S : r.id <= s.id
           g == CHOOSE r \in T : \A s \in T : r.id <= s.id
<1>2. f \in S /\ \A s \in S : f.id <= s.id
  BY RowsHaveEnds
<1>3. g \in T /\ \A s \in T : g.id <= s.id
  BY RowsHaveEnds
<1>4. RootIn(S) = (IF IsAnchor(f) THEN Archived ELSE Genesis)
      /\ RootIn(T) = (IF IsAnchor(g) THEN Archived ELSE Genesis)
  BY DEF RootIn
<1> HIDE DEF f, g
<1>5. f = g
  <2>1. f.id <= g.id
    <3>1. CASE g \in S
      BY <1>2, <3>1
    <3>2. CASE g \notin S
      BY <1>1, <1>2, <1>3, <3>2
    <3> QED
      BY <3>1, <3>2
  <2>2. g.id <= f.id
    BY <1>2, <1>3
  <2> QED
    BY <1>1, <1>2, <1>3, <2>1, <2>2 DEF DistinctIds
<1>6. \A r \in S : {s \in T : s.id < r.id} = {s \in S : s.id < r.id}
  BY <1>1
<1>7. RootIn(T) = RootIn(S)
  BY <1>4, <1>5
<1>8. \A r \in S : WantedIn(r, T) = WantedIn(r, S)
  BY <1>6, <1>7 DEF WantedIn
<1>9. ASSUME NEW r \in S PROVE ForkIn(r, T) <=> ForkIn(r, S)
  <2>1. \A s \in T : s.id < r.id => s \in S
    BY <1>1
  <2> QED
    BY <1>7, <2>1 DEF ForkIn
<1> QED
  BY <1>7, <1>8, <1>9

\* The earliest rows of a set have no others of it before or between them.
LEMMA NoGaps ==
    ASSUME NEW S \in SUBSET Rows, IsFiniteSet(S), NEW n \in Int,
           NEW r \in Earliest(S, n), NEW s \in S, s.id < r.id
    PROVE  s \in Earliest(S, n)
<1>1. Rank(S, s) \in Int /\ Rank(S, r) \in Int /\ Rank(S, s) < Rank(S, r)
  BY RanksAreOrdered DEF Earliest
<1> QED
  BY <1>1 DEF Earliest, Rank

\* The rows a query gives, if any: the next ones after those before.
LEMMA Chunk ==
    ASSUME IInv, RowsInv, VOK
    PROVE  /\ NextRows \in SUBSET log /\ log \in SUBSET Rows /\ IsFiniteSet(NextRows)
           /\ \A r \in NextRows : v.after < r.id
           /\ \A r \in NextRows : \A s \in log : v.after < s.id /\ s.id < r.id => s \in NextRows
           /\ NextRows # {} =>
                  \E r \in NextRows : /\ \A s \in NextRows : s.id <= r.id
                                      /\ LastHash(NextRows) = r.id
<1>1. log \in SUBSET Rows /\ IsFiniteSet(log)
  BY FS_Subset DEF IInv, TypeOK, RowsInv, Finite, Known
<1>2. After(v.after) \in SUBSET Rows /\ IsFiniteSet(After(v.after))
  BY <1>1, FS_Subset DEF After
<1>3. PICK n \in Int : NextRows = Earliest(After(v.after), n)
  BY AuditAssumption DEF NextRows, VOK
<1>4. NextRows \in SUBSET After(v.after) /\ IsFiniteSet(NextRows)
  BY <1>2, <1>3, FS_Subset DEF Earliest
<1>5. \A t \in Rows : t.id \in Int
  BY AuditAssumption DEF Rows, Ids
<1>6. \A r \in NextRows : v.after < r.id
  BY <1>1, <1>4, <1>5 DEF After, VOK
<1>7. \A r \in NextRows : \A s \in log : v.after < s.id /\ s.id < r.id => s \in NextRows
  BY <1>1, <1>2, <1>3, <1>5, NoGaps DEF After, VOK
<1>8. ASSUME NextRows # {}
      PROVE  \E r \in NextRows : /\ \A s \in NextRows : s.id <= r.id
                                 /\ LastHash(NextRows) = r.id
  BY <1>2, <1>4, <1>8, RowsHaveEnds, LastIs
<1> QED
  BY <1>1, <1>4, <1>6, <1>7, <1>8 DEF After

\* The verification's fields keep their types.
LEMMA VStep == IInv /\ RowsInv /\ VOK /\ [Next]_vars => VOK'
<1> SUFFICES ASSUME IInv, RowsInv, VOK, [Next]_vars PROVE VOK'
  OBVIOUS
<1>1. ASSUME v' = v PROVE VOK'
  BY <1>1 DEF VOK
<1>2. ASSUME NEW w \in Writers,
             Begin(w) \/ ReadHead(w) \/ InsertRow(w) \/ InsertAnchor(w) \/ Commit(w) \/ Rollback(w)
      PROVE  VOK'
  BY <1>1, <1>2 DEF Begin, ReadHead, InsertRow, InsertAnchor, Commit, Rollback, End
<1>3. ASSUME Upgrade \/ UNCHANGED vars PROVE VOK'
  BY <1>1, <1>3 DEF Upgrade, vars
<1>4. ASSUME Damage PROVE VOK'
  BY <1>4 DEF Damage, VOK
<1>5. ASSUME Start PROVE VOK'
  <2>1. FirstRow \in log /\ log \in SUBSET Rows
    BY <1>5, RowsHaveEnds DEF Start, FirstRow, IInv, TypeOK
  <2>2. FirstRow.id \in Int /\ FirstRow.prev \in Hashes
    BY <2>1, AuditAssumption DEF Rows, Ids
  <2>3. Lost \in SUBSET Ids
    BY DEF Lost, IInv, DamageOK, Rows
  <2>4. v' = [Idle EXCEPT !.pc = "reading", !.before = Lost, !.after = FirstRow.id - 1,
                   !.expected = IF IsAnchor(FirstRow) THEN FirstRow.prev ELSE Genesis]
    BY <1>5 DEF Start
  <2>5. (IF IsAnchor(FirstRow) THEN FirstRow.prev ELSE Genesis) \in Hashes
    BY <2>2 DEF Hashes
  <2> QED
    <3>1. v' = [pc |-> "reading", after |-> FirstRow.id - 1,
                expected |-> IF IsAnchor(FirstRow) THEN FirstRow.prev ELSE Genesis,
                read |-> 0, mislinked |-> {}, altered |-> {}, verdict |-> "valid",
                before |-> Lost, during |-> FALSE]
      BY <2>4 DEF Idle
    <3>2. FirstRow.id - 1 \in Int
      BY <2>2
    <3> QED
      BY <2>3, <2>5, <3>1, <3>2 DEF VOK
<1>6. ASSUME ReadChunk PROVE VOK'
  <2>1. NextRows # {} /\ NextRows \in SUBSET Rows
    BY <1>6, Chunk DEF ReadChunk
  <2>2. Cardinality(NextRows) \in Nat
    BY Chunk, FS_CardinalityType
  <2>3. PICK r \in NextRows : LastHash(NextRows) = r.id
    BY <2>1, Chunk
  <2>4. r.id \in Int /\ r.id \in Hashes
    BY <2>1, AuditAssumption DEF Rows, Ids, Hashes
  <2>5. damage.altered \in SUBSET Ids
    BY DEF IInv, DamageOK
  <2> DEFINE bad == {q \in NextRows : q.prev # Expected(q, NextRows)}
             spoilt == {q.id : q \in NextRows} \cap damage.altered
  <2>6. v' = [v EXCEPT !.read = v.read + Cardinality(NextRows), !.after = r.id, !.expected = r.id,
                       !.mislinked = v.mislinked \cup bad, !.altered = v.altered \cup spoilt]
    BY <1>6, <2>3 DEF ReadChunk, VOK
  <2>7. bad \in SUBSET Rows /\ spoilt \in SUBSET Ids
    BY <2>1, <2>5
  <2> HIDE DEF bad, spoilt
  <2> QED
    <3>1. v' = [pc |-> v.pc, after |-> r.id, expected |-> r.id,
                read |-> v.read + Cardinality(NextRows), mislinked |-> v.mislinked \cup bad,
                altered |-> v.altered \cup spoilt, verdict |-> v.verdict,
                before |-> v.before, during |-> v.during]
      BY <2>6 DEF VOK
    <3>2. v.read + Cardinality(NextRows) \in Int
      BY <2>2 DEF VOK
    <3>3. v.mislinked \cup bad \in SUBSET Rows /\ v.altered \cup spoilt \in SUBSET Ids
      BY <2>7 DEF VOK
    <3> QED
      BY <2>4, <3>1, <3>2, <3>3 DEF VOK
<1>7. ASSUME EndSlice PROVE VOK'
  <2>1. Worse(v.verdict, SliceVerdict) \in {"valid", "intact_with_forks", "broken"}
    BY DEF Worse
  <2>2. \E p \in {"done", "reading"} :
            v' = [v EXCEPT !.verdict = Worse(v.verdict, SliceVerdict), !.pc = p,
                           !.read = 0, !.mislinked = {}, !.altered = {}]
    BY <1>7 DEF EndSlice, VOK
  <2>3. PICK p \in {"done", "reading"} :
            v' = [pc |-> p, after |-> v.after, expected |-> v.expected,
                  read |-> 0, mislinked |-> {}, altered |-> {},
                  verdict |-> Worse(v.verdict, SliceVerdict),
                  before |-> v.before, during |-> v.during]
    BY <2>2 DEF VOK
  <2> QED
    BY <2>1, <2>3 DEF VOK
<1>8. ASSUME Restart PROVE VOK'
  BY <1>8 DEF Restart, VOK, Idle, Hashes
<1> QED
  BY <1>2, <1>3, <1>4, <1>5, <1>6, <1>7, <1>8 DEF Next

\* A step that leaves the log, and the verification, leaves its findings.
LEMMA FindingsStill ==
    ASSUME Findings, UNCHANGED <<log, damage, schema, v>> PROVE Findings'
<1>1. UNCHANGED log /\ UNCHANGED damage /\ UNCHANGED schema /\ UNCHANGED v
  OBVIOUS
<1>2. /\ Lost' = Lost /\ Root' = Root
      /\ \A r : (Mislinked(r)' <=> Mislinked(r)) /\ (Fork(r)' <=> Fork(r))
  BY <1>1 DEF Lost, Root, Mislinked, Wanted, Fork, Serialized, Roots, FirstRow
<1>3. AtRow' = AtRow
  BY <1>1 DEF AtRow
<1>4. Place' = Place
  BY <1>1, <1>2, <1>3 DEF Place
<1>5. Noted' = Noted
  BY <1>1, <1>2 DEF Noted
<1>6. Founded' = Founded
  BY <1>1, <1>2 DEF Founded
<1>7. Ended' = Ended
  BY <1>1, <1>3 DEF Ended
<1> QED
  BY <1>1, <1>4, <1>5, <1>6, <1>7 DEF Findings

\* What is committed while a verification goes on comes after all it looks at.
LEMMA FindingsCommit ==
    ASSUME IInv, RowsInv, VOK, Findings, IInv', RowsInv', NEW w \in Writers, Commit(w)
    PROVE  Findings'
<1> SUFFICES ASSUME v.pc # "idle", ~v.during PROVE (Place /\ Noted /\ Founded /\ Ended)'
  BY DEF Findings, Commit, End
<1>1. Place /\ Noted /\ Founded /\ Ended
  BY DEF Findings
<1>2. /\ log' = log \cup pending[w] /\ UNCHANGED <<v, damage, schema>> /\ schema = 2
      /\ Lost' = Lost
  BY <1>1 DEF Commit, End, Place, Lost
<1>3. PICK T : T = log'
  OBVIOUS
<1>4. T \in SUBSET Rows /\ DistinctIds(T) /\ log \subseteq T /\ log # {} /\ log \in SUBSET Rows
  BY <1>1, <1>2, <1>3 DEF IInv, TypeOK, RowsInv, Distinct, DistinctIds, Known, Place
<1>5. \A t \in T \ log : t.version = 2 /\ \A s \in log : s.id < t.id
  BY <1>2, <1>3 DEF IInv, Follows, RowsInv, OldFirst, Known
<1>6. /\ RootIn(T) = RootIn(log)
      /\ \A r \in log : WantedIn(r, T) = WantedIn(r, log) /\ (ForkIn(r, T) <=> ForkIn(r, log))
  BY <1>4, <1>5, LaterRowsFork
<1>7. /\ Root' = RootIn(T)
      /\ \A r : Wanted(r)' = WantedIn(r, T)
      /\ \A r : Fork(r)' <=> ForkIn(r, T)
  <2>1. Root' = RootIn(T)
    BY <1>3 DEF Root, RootIn, FirstRow
  <2>2. Roots' = {Genesis, RootIn(T)}
    BY <1>3 DEF Roots, RootIn, FirstRow
  <2> QED
    BY <1>3, <2>1, <2>2 DEF Wanted, WantedIn, Fork, ForkIn, Serialized
<1>8. /\ Root' = Root
      /\ \A r \in log : (Mislinked(r)' <=> Mislinked(r)) /\ (Fork(r)' <=> Fork(r))
  BY <1>6, <1>7, InTheLog DEF Mislinked
<1>9. \A t \in Rows : t.id \in Int
  BY AuditAssumption DEF Rows, Ids
<1>10. \A t \in T \ log : v.after < t.id
  <2> SUFFICES ASSUME NEW t \in T \ log PROVE v.after < t.id
    OBVIOUS
  <2>1. PICK q \in log : v.after <= q.id
    BY <1>1, <1>4, <1>9 DEF Place, AtRow, VOK
  <2> QED
    BY <1>4, <1>5, <1>9, <2>1 DEF VOK
<1>11. Place'
  <2>1. CASE AtRow
    BY <1>1, <1>2, <1>3, <1>4, <2>1 DEF Place, AtRow
  <2>2. CASE v.expected = Root /\ \A r \in log : v.after < r.id
    BY <1>1, <1>2, <1>3, <1>4, <1>8, <1>10, <2>2 DEF Place
  <2> QED
    BY <1>1, <2>1, <2>2 DEF Place
<1>12. Noted'
  <2> SUFFICES ASSUME NEW r \in T, r.id <= v.after
               PROVE  /\ Mislinked(r)' =>
                             \/ r \in v.mislinked \/ v.verdict = "broken"
                             \/ Fork(r)' /\ v.verdict = "intact_with_forks"
                      /\ r.id \in damage.altered => r.id \in v.altered \/ v.verdict = "broken"
    BY <1>2, <1>3 DEF Noted
  <2>1. r \in log
    BY <1>4, <1>9, <1>10 DEF VOK
  <2> QED
    BY <1>1, <1>8, <2>1 DEF Noted
<1>13. Founded'
  BY <1>1, <1>2, <1>3, <1>4, <1>8 DEF Founded
<1>14. Ended'
  <2>1. AtRow => AtRow'
    BY <1>2, <1>3, <1>4 DEF AtRow
  <2> QED
    BY <1>1, <1>2, <1>3, <1>5, <2>1 DEF Ended
<1> QED
  BY <1>11, <1>12, <1>13, <1>14

\* A verification starts before the first row.
LEMMA FindingsStart == ASSUME IInv, Start PROVE Findings'
<1>1. /\ log # {} /\ schema = 2 /\ UNCHANGED <<log, damage, schema>>
      /\ v' = [Idle EXCEPT !.pc = "reading", !.before = Lost, !.after = FirstRow.id - 1,
                    !.expected = IF IsAnchor(FirstRow) THEN FirstRow.prev ELSE Genesis]
  BY DEF Start, chain
<1>2. /\ v'.pc = "reading" /\ v'.before = Lost /\ v'.after = FirstRow.id - 1
      /\ v'.expected = Root /\ v'.mislinked = {} /\ v'.altered = {} /\ v'.verdict = "valid"
  BY <1>1 DEF Idle, Root, IsAnchor
<1>3. Lost' = Lost /\ Root' = Root
  BY <1>1 DEF Lost, Root, FirstRow
<1>4. ASSUME NEW r \in log PROVE v'.after < r.id
  <2>1. FirstRow \in log /\ FirstRow.id <= r.id
    BY <1>1, RowsHaveEnds DEF FirstRow, IInv, TypeOK
  <2>2. FirstRow.id \in Int /\ r.id \in Int
    BY <2>1, AuditAssumption DEF IInv, TypeOK, Rows, Ids
  <2> QED
    BY <1>2, <2>1, <2>2
<1>5. Place'
  BY <1>1, <1>2, <1>3, <1>4 DEF Place
<1>6. Noted'
  <2>1. ASSUME NEW r \in log PROVE ~(r.id <= v'.after)
    <3>1. v'.after < r.id /\ v'.after \in Int /\ r.id \in Int
      <4>1. FirstRow \in log /\ r \in Rows /\ log \in SUBSET Rows
        BY <1>1, RowsHaveEnds DEF FirstRow, IInv, TypeOK
      <4> QED
        BY <1>2, <1>4, <4>1, AuditAssumption DEF Rows, Ids
    <3> QED
      BY <3>1
  <2> QED
    BY <1>1, <2>1 DEF Noted
<1>7. Founded' /\ Ended'
  BY <1>2 DEF Founded, Ended
<1> QED
  BY <1>5, <1>6, <1>7 DEF Findings

\* A query's rows are compared with what each must be linked to.
LEMMA FindingsChunk ==
    ASSUME IInv, RowsInv, VOK, Findings, ReadChunk PROVE Findings'
<1> SUFFICES ASSUME v.pc # "idle", ~v.during PROVE (Place /\ Noted /\ Founded /\ Ended)'
  BY DEF Findings, ReadChunk, VOK
<1>1. Place /\ Noted /\ Founded /\ Ended
  BY DEF Findings
<1>2. UNCHANGED <<log, damage, schema>> /\ NextRows # {}
  BY DEF ReadChunk, chain
<1>3. /\ Lost' = Lost /\ Root' = Root
      /\ \A r : (Mislinked(r)' <=> Mislinked(r)) /\ (Fork(r)' <=> Fork(r))
  BY <1>2 DEF Lost, Root, Mislinked, Wanted, Fork, Serialized, Roots, FirstRow
<1>4. /\ NextRows \in SUBSET log /\ log \in SUBSET Rows
      /\ \A r \in NextRows : v.after < r.id
      /\ \A r \in NextRows : \A s \in log : v.after < s.id /\ s.id < r.id => s \in NextRows
  BY Chunk
<1>5. PICK last \in NextRows : (\A s \in NextRows : s.id <= last.id) /\ LastHash(NextRows) = last.id
  BY <1>2, Chunk
<1>6. /\ v'.pc = v.pc /\ v.pc = "reading" /\ v'.after = last.id /\ v'.expected = last.id
      /\ v'.mislinked = v.mislinked \cup {r \in NextRows : r.prev # Expected(r, NextRows)}
      /\ v'.altered = v.altered \cup ({r.id : r \in NextRows} \cap damage.altered)
      /\ v'.verdict = v.verdict /\ v'.before = v.before
  BY <1>5 DEF ReadChunk, VOK
<1>7. \A t \in Rows : t.id \in Int
  BY AuditAssumption DEF Rows, Ids
<1>8. ASSUME NEW r \in NextRows PROVE Expected(r, NextRows) = Wanted(r)
  <2> DEFINE before == {s \in NextRows : s.id < r.id}
             earlier == {s \in log : s.id < r.id}
  <2>1. before \in SUBSET earlier /\ earlier \in SUBSET Rows
    BY <1>4
  <2>2. \A s \in earlier \ before : s.id <= v.after
    BY <1>4, <1>7 DEF VOK
  <2>3. CASE before = {}
    <3>1. \A s \in earlier : s.id <= v.after
      BY <2>2, <2>3
    <3>2. CASE AtRow
      <4>1. PICK q \in log : q.id = v.after /\ v.expected = q.id
        BY <3>2 DEF AtRow
      <4>2. q \in earlier /\ \A s \in earlier : s.id <= q.id
        BY <1>4, <3>1, <4>1
      <4>3. LastHash(earlier) = v.expected
        BY <2>1, <4>1, <4>2, LastIs
      <4> QED
        BY <2>3, <4>2, <4>3 DEF Expected, Wanted
    <3>3. CASE v.expected = Root /\ \A s \in log : v.after < s.id
      <4>1. earlier = {}
        BY <1>4, <1>7, <3>1, <3>3 DEF VOK
      <4> QED
        BY <2>3, <3>3, <4>1 DEF Expected, Wanted
    <3> QED
      BY <1>1, <3>2, <3>3 DEF Place
  <2>4. CASE before # {}
    <3>1. ASSUME NEW s \in earlier \ before PROVE \E t \in before : s.id < t.id
      <4>1. PICK t \in before : TRUE
        BY <2>4
      <4>2. s.id <= v.after /\ v.after < t.id /\ s.id \in Int /\ t.id \in Int /\ v.after \in Int
        BY <1>4, <1>7, <2>1, <2>2, <4>1 DEF VOK
      <4> QED
        BY <4>1, <4>2
    <3>2. HasLast(earlier)
      BY <2>1, RowsHaveEnds DEF HasLast
    <3>3. LastHash(before) = LastHash(earlier)
      BY <2>1, <3>1, <3>2, SameLast
    <3>4. earlier # {}
      BY <2>1, <2>4
    <3> QED
      BY <2>4, <3>3, <3>4 DEF Expected, Wanted
  <2> QED
    BY <2>3, <2>4
<1>9. Place'
  <2>1. last \in log
    BY <1>4
  <2>2. AtRow'
    BY <1>2, <1>6, <2>1 DEF AtRow
  <2> QED
    BY <1>1, <1>2, <1>3, <1>6, <2>2 DEF Place
<1>10. ASSUME NEW r \in log, r.id <= last.id
       PROVE  /\ Mislinked(r) =>
                     \/ r \in v'.mislinked \/ v.verdict = "broken"
                     \/ Fork(r) /\ v.verdict = "intact_with_forks"
              /\ r.id \in damage.altered => r.id \in v'.altered \/ v.verdict = "broken"
  <2>1. CASE r.id <= v.after
    BY <1>1, <1>6, <2>1 DEF Noted
  <2>2. CASE v.after < r.id
    <3>1. r \in NextRows
      <4>1. CASE r.id < last.id
        BY <1>4, <2>2, <4>1
      <4>2. CASE r.id = last.id
        BY <1>4, <4>2 DEF RowsInv, Distinct, Known
      <4> QED
        BY <1>4, <1>7, <1>10, <4>1, <4>2
    <3> QED
      BY <1>6, <1>8, <3>1 DEF Mislinked
  <2> QED
    BY <1>4, <1>7, <2>1, <2>2 DEF VOK
<1>11. Noted'
  BY <1>2, <1>3, <1>6, <1>10 DEF Noted
<1>12. Founded'
  <2>1. \A r \in v'.mislinked : r \in log /\ Mislinked(r)
    BY <1>1, <1>4, <1>6, <1>8 DEF Founded, Mislinked
  <2>2. v'.altered \subseteq damage.altered
    BY <1>1, <1>6 DEF Founded
  <2> QED
    BY <1>1, <1>2, <1>3, <1>6, <2>1, <2>2 DEF Founded
<1>13. Ended'
  BY <1>6 DEF Ended
<1> QED
  BY <1>9, <1>11, <1>12, <1>13

\* A slice's findings become its verdict, and the verdicts add up.
LEMMA FindingsSlice ==
    ASSUME IInv, RowsInv, Harmed, VOK, Findings, EndSlice PROVE Findings'
<1> SUFFICES ASSUME v.pc # "idle", ~v.during PROVE (Place /\ Noted /\ Founded /\ Ended)'
  BY DEF Findings, EndSlice, VOK
<1>1. Place /\ Noted /\ Founded /\ Ended
  BY DEF Findings
<1>2. UNCHANGED <<log, damage, schema>>
  BY DEF EndSlice, chain
<1>3. /\ Lost' = Lost /\ Root' = Root
      /\ \A r : (Mislinked(r)' <=> Mislinked(r)) /\ (Fork(r)' <=> Fork(r))
  BY <1>2 DEF Lost, Root, Mislinked, Wanted, Fork, Serialized, Roots, FirstRow
<1>4. /\ v'.verdict = Worse(v.verdict, SliceVerdict)
      /\ v'.pc = (IF After(v.after) = {} THEN "done" ELSE "reading")
      /\ v'.mislinked = {} /\ v'.altered = {}
      /\ v'.after = v.after /\ v'.expected = v.expected /\ v'.before = v.before
  BY DEF EndSlice, VOK
<1>5. \A t \in Rows : t.id \in Int
  BY AuditAssumption DEF Rows, Ids
<1>6. Place'
  BY <1>1, <1>2, <1>3, <1>4 DEF Place, AtRow
<1>7. Noted'
  <2> SUFFICES ASSUME NEW r \in log, r.id <= v.after
               PROVE  /\ Mislinked(r) =>
                             \/ v'.verdict = "broken"
                             \/ Fork(r) /\ v'.verdict = "intact_with_forks"
                      /\ r.id \in damage.altered => v'.verdict = "broken"
    BY <1>2, <1>3, <1>4 DEF Noted
  <2>1. ASSUME Mislinked(r), r \in v.mislinked
        PROVE  v'.verdict = "broken" \/ (Fork(r) /\ v'.verdict = "intact_with_forks")
    <3>1. CASE SliceVerdict = "broken"
      BY <1>4, <3>1 DEF Worse
    <3>2. CASE SliceVerdict # "broken"
      <4>1. Fork(r) /\ SliceVerdict = "intact_with_forks"
        BY <2>1, <3>2 DEF SliceVerdict
      <4> QED
        BY <1>4, <4>1 DEF Worse
    <3> QED
      BY <3>1, <3>2
  <2>2. ASSUME r.id \in v.altered PROVE v'.verdict = "broken"
    BY <1>4, <2>2 DEF Worse, SliceVerdict
  <2>3. ASSUME v.verdict = "broken" PROVE v'.verdict = "broken"
    BY <1>4, <2>3 DEF Worse
  <2>4. ASSUME v.verdict = "intact_with_forks"
        PROVE  v'.verdict \in {"broken", "intact_with_forks"}
    BY <1>4, <2>4 DEF Worse
  <2> QED
    BY <1>1, <2>1, <2>2, <2>3, <2>4 DEF Noted
<1>8. Founded'
  <2>1. ASSUME SliceVerdict = "broken"
        PROVE  damage.altered # {} \/ \E r \in log : Mislinked(r) /\ ~Fork(r)
    BY <1>1, <2>1 DEF SliceVerdict, Founded
  <2>2. ASSUME SliceVerdict = "intact_with_forks" PROVE \E r \in log : Mislinked(r)
    BY <1>1, <2>2 DEF SliceVerdict, Founded
  <2>3. ASSUME v'.verdict = "broken"
        PROVE  damage.altered # {} \/ \E r \in log : Mislinked(r) /\ ~Fork(r)
    BY <1>1, <1>4, <2>1, <2>3 DEF Worse, Founded
  <2>4. ASSUME v'.verdict = "intact_with_forks" PROVE \E r \in log : Mislinked(r)
    BY <1>1, <1>4, <2>2, <2>4 DEF Worse, Founded
  <2> QED
    BY <1>2, <1>3, <1>4, <2>3, <2>4 DEF Founded
<1>9. Ended'
  <2> SUFFICES ASSUME After(v.after) = {}
               PROVE  /\ AtRow' /\ \A r \in log : ~(r.id > v.after)
                      /\ \A s \in damage.removed : s.id < v.after
                      /\ \A i \in damage.altered : i <= v.after
    BY <1>2, <1>4 DEF Ended
  <2>1. \A r \in log : ~(r.id > v.after)
    BY DEF After
  <2>2. AtRow
    BY <1>1, <2>1 DEF Place
  <2>3. AtRow'
    BY <1>2, <1>4, <2>2 DEF AtRow
  <2>4. ASSUME NEW s \in damage.removed PROVE s.id < v.after
    <3>1. PICK r \in log : s.id < r.id
      BY DEF IInv, TailStands
    <3>2. s.id \in Int /\ r.id \in Int /\ ~(r.id > v.after) /\ v.after \in Int
      BY <1>5, <2>1 DEF IInv, TypeOK, DamageOK, VOK
    <3> QED
      BY <3>1, <3>2
  <2>5. ASSUME NEW i \in damage.altered PROVE i <= v.after
    <3>1. PICK s \in Known : s.id = i
      BY DEF Harmed
    <3>2. i \in Int /\ v.after \in Int
      BY <1>5, <3>1 DEF IInv, TypeOK, DamageOK, Known, VOK
    <3> QED
      BY <2>1, <2>4, <3>1, <3>2 DEF Known
  <2> QED
    BY <2>1, <2>3, <2>4, <2>5
<1> QED
  BY <1>6, <1>7, <1>8, <1>9

LEMMA HarmedStep == IInv /\ Harmed /\ [Next]_vars => Harmed'
<1> SUFFICES ASSUME IInv, Harmed, [Next]_vars PROVE Harmed'
  OBVIOUS
<1>1. ASSUME log \subseteq log', damage' = damage PROVE Harmed'
  BY <1>1 DEF Harmed, Known
<1>2. ASSUME NEW w \in Writers,
             Begin(w) \/ ReadHead(w) \/ InsertRow(w) \/ InsertAnchor(w) \/ Commit(w) \/ Rollback(w)
      PROVE  Harmed'
  BY <1>1, <1>2 DEF Begin, ReadHead, InsertRow, InsertAnchor, Commit, Rollback, End
<1>3. ASSUME Upgrade \/ Start \/ ReadChunk \/ EndSlice \/ Restart \/ UNCHANGED vars PROVE Harmed'
  BY <1>1, <1>3 DEF Upgrade, Start, ReadChunk, EndSlice, Restart, vars, chain
<1>4. ASSUME Damage PROVE Harmed'
  <2>1. Known' = Known
    BY <1>4, DamageStep
  <2>2. PICK r \in log : AlterRow(r) \/ RemoveRow(r)
    BY <1>4 DEF Damage
  <2>3. damage'.altered \subseteq damage.altered \cup {r.id}
    BY <2>2 DEF AlterRow, RemoveRow, IInv, DamageOK
  <2> QED
    BY <2>1, <2>3 DEF Harmed, Known
<1> QED
  BY <1>2, <1>3, <1>4 DEF Next

LEMMA FindingsStep ==
    IInv /\ RowsInv /\ Harmed /\ VOK /\ Findings /\ IInv' /\ RowsInv' /\ [Next]_vars => Findings'
<1> SUFFICES ASSUME IInv, RowsInv, Harmed, VOK, Findings, IInv', RowsInv', [Next]_vars
             PROVE  Findings'
  OBVIOUS
<1>1. ASSUME NEW w \in Writers,
             Begin(w) \/ ReadHead(w) \/ InsertRow(w) \/ InsertAnchor(w) \/ Rollback(w)
      PROVE  Findings'
  <2>1. UNCHANGED <<log, damage, schema, v>>
    BY <1>1 DEF Begin, ReadHead, InsertRow, InsertAnchor, Rollback, End
  <2> QED
    BY <2>1, FindingsStill
<1>2. ASSUME NEW w \in Writers, Commit(w) PROVE Findings'
  BY <1>2, FindingsCommit
<1>3. ASSUME Upgrade PROVE Findings'
  BY <1>3 DEF Upgrade, Findings, Place
<1>4. ASSUME Damage PROVE Findings'
  BY <1>4 DEF Damage, Findings, VOK
<1>5. ASSUME Start PROVE Findings'
  BY <1>5, FindingsStart
<1>6. ASSUME ReadChunk PROVE Findings'
  BY <1>6, FindingsChunk
<1>7. ASSUME EndSlice PROVE Findings'
  BY <1>7, FindingsSlice
<1>8. ASSUME Restart PROVE Findings'
  BY <1>8 DEF Restart, Findings, Idle
<1>9. ASSUME UNCHANGED vars PROVE Findings'
  BY <1>9, FindingsStill DEF vars, chain
<1> QED
  BY <1>1, <1>2, <1>3, <1>4, <1>5, <1>6, <1>7, <1>8, <1>9 DEF Next

LEMMA FindingsInvariance == Spec => [](IInv /\ RowsInv /\ Harmed /\ VOK /\ Findings)
<1>1. Init => Harmed /\ VOK /\ Findings
  BY DEF Init, Harmed, VOK, Findings, Idle, Hashes
<1> QED
  BY <1>1, RowsInvariance, HarmedStep, VStep, FindingsStep, PTL DEF Spec

\* In a log nobody damaged the rows that are mislinked are those that raced,
\* and they are forks.
LEMMA Undamaged ==
    ASSUME IInv, RowsInv, Lost = {}, log # {}
    PROVE  /\ damage.altered = {} /\ Raced \subseteq log
           /\ \A r \in log : Mislinked(r) <=> r \in Raced
           /\ \A r \in Raced : Fork(r)
<1>1. damage.altered = {} /\ damage.removed = {} /\ Known = log
  BY DEF Lost, Known
<1>2. log \in SUBSET Rows /\ \A t \in Rows : t.id \in Int /\ t.version \in {1, 2}
  BY AuditAssumption DEF IInv, TypeOK, Rows, Ids
<1>3. FirstRow \in log /\ \A s \in log : FirstRow.id <= s.id
  BY <1>2, RowsHaveEnds DEF FirstRow
<1>4. \A r : Earlier(r) = {s \in log : s.id < r.id}
  BY <1>1 DEF Earlier
<1>5. ASSUME NEW r \in log, Earlier(r) = {} PROVE r = FirstRow
  BY <1>1, <1>2, <1>3, <1>4, <1>5 DEF RowsInv, Distinct
<1>6. ASSUME NEW r \in log, r.version = 1 PROVE Wanted(r) = LastHash(Earlier(r))
  <2>1. ~IsAnchor(r)
    BY <1>1, <1>6 DEF RowsInv, OldFirst
  <2>2. Earlier(r) = {} => Root = Genesis /\ LastHash(Earlier(r)) = Genesis
    BY <1>5, <2>1 DEF Root, LastHash
  <2> QED
    BY <1>4, <2>2 DEF Wanted
<1>7. ASSUME NEW r \in log, r.version = 2 PROVE ~Mislinked(r)
  <2>1. /\ IsAnchor(r) => Earlier(r) = {}
        /\ r.prev = IF IsAnchor(r) THEN Archived ELSE LastHash(Earlier(r))
    BY <1>1, <1>7 DEF IInv, OneChain
  <2> QED
    BY <1>4, <1>5, <2>1 DEF Mislinked, Wanted, Root, LastHash
<1>8. ASSUME NEW r \in log PROVE Mislinked(r) <=> r \in Raced
  BY <1>1, <1>2, <1>6, <1>7 DEF Raced, Mislinked
<1>9. ASSUME NEW r \in Raced PROVE Fork(r)
  <2>1. r \in log /\ r.version = 1
    BY <1>1 DEF Raced
  <2>2. ~Serialized(r)
    BY <1>1, <1>2, <2>1 DEF Serialized, RowsInv, OldFirst
  <2>3. LinkedBack(r, log)
    BY <1>1, <2>1 DEF RowsInv, Rooted
  <2> QED
    BY <2>2, <2>3 DEF Fork, Roots, LinkedBack
<1> QED
  BY <1>1, <1>8, <1>9 DEF Raced

\* A verification of a log nobody damaged (verify_chain, however the log grows
\* between its queries, and whatever the bounds of queries and slices) never
\* calls it broken, and reports forks exactly when writes raced before
\* migration 016.
THEOREM NoFalseAlarms == Spec => []NoFalseAlarm
<1>1. IInv /\ RowsInv /\ VOK /\ Findings => NoFalseAlarm
  <2> SUFFICES ASSUME IInv, RowsInv, VOK, Findings,
                      v.pc = "done", v.before = {}, ~v.during
               PROVE  /\ v.verdict # "broken"
                      /\ v.verdict = "intact_with_forks" <=> Raced # {}
    BY DEF NoFalseAlarm
  <2>1. Place /\ Noted /\ Founded /\ Ended
    BY DEF Findings
  <2>2. /\ damage.altered = {} /\ Raced \subseteq log
        /\ \A r \in log : Mislinked(r) <=> r \in Raced
        /\ \A r \in Raced : Fork(r)
    BY <2>1, Undamaged DEF Place
  <2>3. v.verdict # "broken"
    BY <2>1, <2>2 DEF Founded
  <2>4. ASSUME v.verdict = "intact_with_forks" PROVE Raced # {}
    BY <2>1, <2>2, <2>4 DEF Founded
  <2>5. ASSUME NEW r \in Raced PROVE v.verdict = "intact_with_forks"
    <3>1. r \in log /\ Mislinked(r) /\ r.version = 1
      BY <2>2 DEF Raced
    <3>2. r.id \in Int /\ v.after \in Int
      BY <3>1, AuditAssumption DEF IInv, TypeOK, Rows, Ids, VOK
    <3>3. r.id <= v.after
      BY <2>1, <3>1, <3>2 DEF Ended
    <3> QED
      BY <2>1, <2>3, <3>1, <3>3 DEF Noted, Ended
  <2> QED
    BY <2>3, <2>4, <2>5
<1> QED
  BY <1>1, FindingsInvariance, PTL

\* A verification that no damage falls into reports a log broken that had been
\* altered in a row it holds, or had lost a row that another one is linked to.
THEOREM DamageIsFound == Spec => []DamageFound
<1>1. IInv /\ RowsInv /\ VOK /\ Findings => DamageFound
  <2> SUFFICES ASSUME IInv, RowsInv, VOK, Findings, v.pc = "done", ~v.during,
                      \/ \E r \in log : r.id \in v.before \cap damage.altered
                      \/ \E r \in log, s \in damage.removed : r.prev = s.id /\ s.id \in v.before
               PROVE  v.verdict = "broken"
    BY DEF DamageFound
  <2>1. Place /\ Noted /\ Founded /\ Ended
    BY DEF Findings
  <2>2. /\ log \in SUBSET Rows /\ damage.removed \in SUBSET Rows /\ v.after \in Int
        /\ \A t \in Rows : t.id \in Int /\ t.id \in Ids
        /\ Genesis \notin Ids /\ Archived \notin Ids
    BY AuditAssumption DEF IInv, TypeOK, DamageOK, VOK, Rows, Ids
  <2>3. CASE \E r \in log : r.id \in damage.altered
    BY <2>1, <2>3 DEF Noted, Ended
  <2>4. CASE \E r \in log, s \in damage.removed : r.prev = s.id
    <3>1. PICK r \in log, s \in damage.removed : r.prev = s.id
      BY <2>4
    <3>2. \A q \in log : q.id # s.id
      BY <3>1 DEF RowsInv, Distinct, Known
    <3>3. ~IsAnchor(r) /\ r.prev # Genesis
      BY <2>2, <3>1 DEF IsAnchor
    <3>4. CASE r.id <= v.after
      <4> DEFINE earlier == {q \in log : q.id < r.id}
      <4>1. earlier = {} \/ \E q \in earlier : LastHash(earlier) = q.id
        BY <2>2, RowsHaveEnds, LastIs
      <4>2. Mislinked(r)
        BY <2>2, <3>1, <3>2, <4>1 DEF Mislinked, Wanted, Root
      <4>3. ~Fork(r)
        BY <2>2, <3>1, <3>2 DEF Fork, Roots
      <4> QED
        BY <2>1, <3>4, <4>2, <4>3 DEF Noted, Ended
    <3>5. CASE v.after < r.id
      <4>1. r.version = 2
        BY <2>1, <2>2, <3>5 DEF Ended
      <4>2. r.prev = LastHash(Earlier(r))
        BY <3>3, <4>1 DEF IInv, OneChain, Known
      <4>3. PICK q \in log : q.id = v.after
        BY <2>1 DEF Ended, AtRow
      <4>4. q \in Earlier(r) /\ Earlier(r) \in SUBSET Rows
        BY <2>2, <3>5, <4>3 DEF Earlier, Known
      <4>5. PICK t \in Earlier(r) : (\A u \in Earlier(r) : u.id <= t.id) /\ LastHash(Earlier(r)) = t.id
        BY <4>4, RowsHaveEnds, LastIs
      <4>6. s.id < v.after /\ v.after <= t.id /\ t.id = s.id
        BY <2>1, <3>1, <4>2, <4>3, <4>4, <4>5 DEF Ended
      <4> QED
        BY <2>2, <4>4, <4>5, <4>6
    <3> QED
      BY <2>2, <3>1, <3>4, <3>5
  <2> QED
    BY <2>3, <2>4
<1> QED
  BY <1>1, FindingsInvariance, PTL

-----------------------------------------------------------------------------
(* HistoryWalk, for any sessions, slices and imports.                      *)

VersionRow == [origin : {"repository", "store", "api"}, commit : Nat, content : Nat, strict : BOOLEAN]
SourceRow == [configured : BOOLEAN, mapped : BOOLEAN]
VersionIds == SessionIds \X Nat
Verdicts == {"ok", "missing", "mismatches", "missing_commit", "no_commit", "no_source"}
WalkRow == [pc : {"idle", "history", "store", "objects", "repository", "files", "answer", "done"},
            after : Nat, next : Nat, source : SourceRow, rows : SUBSET VersionIds, seen : SUBSET VersionIds,
            found : SUBSET (VersionIds \X Verdicts), known : SUBSET VersionIds, forged : SUBSET VersionIds,
            even : BOOLEAN, plain : BOOLEAN]

WalkTypes ==
    /\ trees \in Seq([SessionIds -> Nat])
    /\ objects \in [SessionIds -> [content : Nat, there : BOOLEAN]]
    /\ sessions \in SUBSET SessionIds /\ versions \in [SessionIds -> Seq(VersionRow)]
    /\ source \in SourceRow /\ walk \in WalkRow

\* Sessions with versions are sessions; in an even walk, the others too.
SessionsHave ==
    /\ \A s \in SessionIds : versions[s] # <<>> => s \in sessions
    /\ walk.pc # "idle" /\ walk.even => \A s \in sessions : versions[s] # <<>>

\* The sessions whose histories a request checks.
Histories == {s \in SessionIds : versions[s] # <<>> /\ Ahead(s)}
Window == FirstOf(Histories)

\* In an even walk every check of a request has the same sessions before it, so
\* the next request goes on behind what all of them have seen.
NextIs == walk.pc \in {"store", "objects", "repository", "files", "answer"} /\ walk.even => walk.next = NextOf(Window)

\* What a check of the window has seen, or has read the rows of.
SeenInWindow(id) ==
    /\ FromStore(VersionAt(id)) =>
          /\ walk.pc = "objects" => id \in walk.rows \cup walk.seen
          /\ walk.pc \in {"repository", "files", "answer"} => id \in walk.seen
    /\ FromRepository(VersionAt(id)) =>
          /\ walk.pc = "files" => id \in walk.rows \cup walk.seen
          /\ walk.pc = "answer" => id \in walk.seen

Covered ==
    walk.even =>
        \A id \in Due :
            /\ id[1] <= walk.after => id \in walk.seen
            /\ id[1] \in Window => SeenInWindow(id)
            /\ walk.pc = "done" => id \in walk.seen

\* What is known and read is recorded.
RowsAre ==
    /\ walk.known \subseteq Recorded
    /\ walk.pc = "idle" => walk.known = {} /\ walk.found = {} /\ walk.seen = {} /\ walk.after = 0
    /\ walk.pc = "objects" => \A id \in walk.rows : id \in Recorded /\ FromStore(VersionAt(id))
    /\ walk.pc = "files" => \A id \in walk.rows : id \in Recorded /\ FromRepository(VersionAt(id))

\* A forged version is not what the store or the repository has.
Differs(id) ==
    /\ FromStore(VersionAt(id)) => /\ objects[id[1]].content # 0
                                   /\ objects[id[1]].content # VersionAt(id).content
    /\ FromRepository(VersionAt(id)) /\ VersionAt(id).commit # NoCommit =>
          /\ source.configured /\ (walk.pc = "files" => walk.source.configured)
          /\ VersionAt(id).commit <= Tip
          /\ trees[VersionAt(id).commit][id[1]] # VersionAt(id).content

ForgedDiffers == \A id \in walk.forged : id[2] \in 1..Len(versions[id[1]]) /\ Differs(id)

ForgedFound == \A id \in walk.forged \cap walk.seen : id \in Due => Broken

\* An honest one is.
Honest(s, x) ==
    /\ FromStore(x) => objects[s].content # 0 /\ x.content = objects[s].content
    /\ FromRepository(x) => IF x.commit = NoCommit THEN ~x.strict
                            ELSE x.commit <= Tip /\ x.content # 0 /\ x.content = trees[x.commit][s]

AllHonest == walk.forged = {} => \A s \in SessionIds : \A i \in 1..Len(versions[s]) : Honest(s, versions[s][i])

ObjectsThere ==
    /\ \A s \in SessionIds : objects[s].there => objects[s].content # 0
    /\ walk.plain => /\ \A s \in SessionIds : objects[s].content # 0 => objects[s].there
                     /\ source.mapped /\ walk.source.mapped

WalkInv == WalkTypes /\ SessionsHave /\ NextIs /\ Covered /\ RowsAre /\ ForgedDiffers /\ ForgedFound
           /\ AllHonest /\ ObjectsThere /\ HonestIsNotBroken

-----------------------------------------------------------------------------
(* The first of a set of sessions.                                         *)

\* Sets of sessions are finite.
LEMMA SessionsFinite ==
  ASSUME WalkAssumption, NEW S \in SUBSET SessionIds
  PROVE  IsFiniteSet(S) /\ Cardinality(S) \in Nat /\ S \subseteq Nat
BY FS_Subset, FS_CardinalityType DEF WalkAssumption

\* Among fewer sessions, the first of more are first.
LEMMA FirstOfFewer ==
  ASSUME WalkAssumption, NEW T \in SUBSET SessionIds, NEW S \in SUBSET T, NEW s \in S, s \in FirstOf(T)
  PROVE  s \in FirstOf(S)
<1> DEFINE below(U) == {r \in U : r < s}
<1>1. below(S) \subseteq below(T) /\ below(T) \in SUBSET SessionIds /\ below(S) \in SUBSET SessionIds
  OBVIOUS
<1>2. Cardinality(below(S)) <= Cardinality(below(T))
  <2> HIDE DEF below
  <2> QED
    BY <1>1, SessionsFinite, FS_Subset
<1>3. Cardinality(below(T)) < Slice
  BY DEF FirstOf
<1>4. Cardinality(below(S)) \in Nat /\ Cardinality(below(T)) \in Nat /\ Slice \in Nat
  BY <1>1, SessionsFinite DEF WalkAssumption
<1>5. Cardinality(below(S)) < Slice
  <2> HIDE DEF below
  <2> QED
    BY <1>2, <1>3, <1>4
<1> QED
  BY <1>5 DEF FirstOf

\* Who comes before one of the first is one.
LEMMA FirstOfBefore ==
  ASSUME WalkAssumption, NEW S \in SUBSET SessionIds, NEW s \in FirstOf(S), NEW r \in S, r <= s
  PROVE  r \in FirstOf(S)
<1> DEFINE below(x) == {y \in S : y < x}
<1>1. s \in S /\ Cardinality(below(s)) < Slice
  BY DEF FirstOf
<1>0. S \in SUBSET Nat
  BY SessionsFinite
<1>2. below(r) \subseteq below(s) /\ below(s) \in SUBSET SessionIds /\ below(r) \in SUBSET SessionIds
  <2>1. ASSUME NEW y \in S, y < r PROVE y < s
    BY <1>0, <1>1, <2>1
  <2> QED
    BY <2>1
<1>3. Cardinality(below(r)) <= Cardinality(below(s))
  <2> HIDE DEF below
  <2> QED
    BY <1>2, SessionsFinite, FS_Subset
<1>4. Cardinality(below(r)) \in Nat /\ Cardinality(below(s)) \in Nat /\ Slice \in Nat
  BY <1>2, SessionsFinite DEF WalkAssumption
<1>5. Cardinality(below(r)) < Slice
  <2> HIDE DEF below
  <2> QED
    BY <1>1, <1>3, <1>4
<1> QED
  BY <1>5 DEF FirstOf

\* When they are not as many as a slice they are all.
LEMMA FirstOfAll ==
  ASSUME WalkAssumption, NEW S \in SUBSET SessionIds, Cardinality(FirstOf(S)) < Slice
  PROVE  FirstOf(S) = S
<1> SUFFICES ASSUME S \ FirstOf(S) # {} PROVE FALSE
  BY DEF FirstOf
<1>1. S \ FirstOf(S) \in SUBSET Nat
  BY DEF WalkAssumption
<1>2. PICK s \in S \ FirstOf(S) : \A r \in S \ FirstOf(S) : s <= r
  BY <1>1, LeastNumber
<1> DEFINE below == {r \in S : r < s}
<1>3. below \subseteq FirstOf(S)
  BY <1>1, <1>2 DEF WalkAssumption
<1>4. ~(Cardinality(below) < Slice)
  BY <1>2 DEF FirstOf
<1>5. FirstOf(S) \in SUBSET SessionIds /\ below \in SUBSET SessionIds
  BY DEF FirstOf
<1> HIDE DEF below
<1>6. Cardinality(below) <= Cardinality(FirstOf(S))
  BY <1>3, <1>5, SessionsFinite, FS_Subset
<1>7. Cardinality(below) \in Nat /\ Cardinality(FirstOf(S)) \in Nat /\ Slice \in Nat
  BY <1>5, SessionsFinite DEF WalkAssumption
<1> QED
  BY <1>4, <1>6, <1>7

\* A finite set of natural numbers that holds one has a greatest one: the one
\* that most of them are below.
LEMMA GreatestOne ==
  ASSUME NEW S \in SUBSET Nat, IsFiniteSet(S), S # {}
  PROVE  \E m \in S : \A s \in S : s <= m
<1> DEFINE below(n) == {r \in S : r < n}
           others == {Cardinality(S) - Cardinality(below(n)) : n \in S}
<1>1. \A n \in S : IsFiniteSet(below(n)) /\ Cardinality(below(n)) \in Nat /\ Cardinality(below(n)) <= Cardinality(S)
  BY FS_Subset, FS_CardinalityType
<1>2. Cardinality(S) \in Nat
  BY FS_CardinalityType
<1>3. others \in SUBSET Nat /\ others # {}
  <2>1. \A n \in S : Cardinality(S) - Cardinality(below(n)) \in Nat
    <3> HIDE DEF below
    <3> QED
      BY <1>1, <1>2
  <2> HIDE DEF below
  <2> QED
    BY <2>1
<1>4. PICK k \in others : \A j \in others : k <= j
  BY <1>3, LeastNumber
<1>5. PICK m \in S : k = Cardinality(S) - Cardinality(below(m))
  OBVIOUS
<1>6. ASSUME NEW s \in S, ~(s <= m) PROVE FALSE
  <2>0. m \in Nat /\ s \in Nat /\ m < s
    BY <1>6
  <2>1. below(m) \subseteq below(s) /\ m \in below(s) /\ m \notin below(m)
    <3>1. ASSUME NEW y \in S, y < m PROVE y < s
      BY <2>0, <3>1
    <3>2. m \in below(s) /\ m \notin below(m)
      BY <2>0
    <3> QED
      BY <3>1, <3>2
  <2> HIDE DEF below
  <2>2. Cardinality(below(m)) <= Cardinality(below(s)) /\ Cardinality(below(m)) # Cardinality(below(s))
    BY <2>1, <1>1, FS_Subset
  <2>3. k <= Cardinality(S) - Cardinality(below(s))
    BY <1>4
  <2> QED
    BY <2>2, <2>3, <1>1, <1>2, <1>5
<1> QED
  BY <1>6

\* Where the next request goes on.
LEMMA NextOfIs ==
  ASSUME WalkAssumption, NEW W \in SUBSET SessionIds
  PROVE  /\ NextOf(W) \in Nat
         /\ NextOf(W) = 0 => Cardinality(W) < Slice
         /\ NextOf(W) # 0 => NextOf(W) \in W /\ \A s \in W : s <= NextOf(W)
<1>1. W \subseteq Nat \ {0} /\ IsFiniteSet(W) /\ Cardinality(W) \in Nat /\ Slice \in Nat \ {0}
  BY SessionsFinite DEF WalkAssumption
<1>2. CASE Cardinality(W) < Slice
  BY <1>1, <1>2 DEF NextOf
<1>3. CASE ~(Cardinality(W) < Slice)
  <2>1. NextOf(W) = Max(W)
    BY <1>1, <1>3 DEF NextOf
  <2>2. W # {}
    BY <1>1, <1>3, FS_EmptySet
  <2>3. \E m \in W : \A s \in W : s <= m
    BY <1>1, <2>2, GreatestOne
  <2>4. Max(W) \in W /\ \A s \in W : s <= Max(W)
    BY <1>1, <2>3 DEF Max
  <2> QED
    BY <1>1, <2>1, <2>4
<1> QED
  BY <1>2, <1>3

-----------------------------------------------------------------------------
(* What the repository, the store and the administrator do.                *)

\* What a walk has, but what else happens meanwhile.
Walked == <<walk.pc, walk.after, walk.next, walk.rows, walk.seen, walk.found, walk.known, walk.forged>>

\* The walk starts with nothing.
LEMMA WalkStarts ==
  ASSUME WalkAssumption, WalkInit PROVE WalkInv
<1>1. WalkTypes
  <2>1. <<>> \in Seq([SessionIds -> Nat]) /\ <<>> \in Seq(VersionRow)
    BY EmptySeq
  <2>2. IdleWalk \in WalkRow /\ NoSource \in SourceRow
    BY DEF IdleWalk, WalkRow, NoSource, SourceRow
  <2>3. sessions \in SUBSET SessionIds
    BY DEF WalkInit, WalkAssumption
  <2> QED
    BY <2>1, <2>2, <2>3 DEF WalkInit, WalkTypes
<1>2. walk.pc = "idle" /\ walk.known = {} /\ walk.found = {} /\ walk.seen = {} /\ walk.forged = {} /\ walk.rows = {}
      /\ walk.source.mapped /\ walk.after = 0
  BY DEF WalkInit, IdleWalk, NoSource
<1>3. \A s \in SessionIds : versions[s] = <<>> /\ Len(versions[s]) = 0 /\ objects[s].content = 0 /\ objects[s].there = FALSE
  BY DEF WalkInit
<1>4. SessionsHave /\ NextIs
  BY <1>2, <1>3 DEF SessionsHave, NextIs
<1>5. Covered /\ RowsAre
  BY <1>2 DEF Covered, RowsAre, Due
<1>6. ForgedDiffers /\ ForgedFound /\ HonestIsNotBroken
  BY <1>2 DEF ForgedDiffers, ForgedFound, HonestIsNotBroken, Broken
<1>7. AllHonest
  BY <1>3 DEF AllHonest
<1>8. ObjectsThere
  BY <1>2, <1>3 DEF ObjectsThere, WalkInit, NoSource
<1> QED
  BY <1>1, <1>4, <1>5, <1>6, <1>7, <1>8 DEF WalkInv

\* What a walk has found and read stands while no session is written and only
\* whether everything is plain may change.
LEMMA WalkStands ==
  ASSUME WalkAssumption, WalkInv, versions' = versions, sessions' = sessions,
         walk' = walk \/ walk' = [walk EXCEPT !.plain = FALSE]
  PROVE  /\ walk' \in WalkRow /\ Walked' = Walked /\ walk'.source = walk.source
         /\ (walk'.plain => walk.plain)
         /\ SessionsHave' /\ NextIs' /\ Covered' /\ RowsAre' /\ ForgedFound'
         /\ (Broken' <=> Broken)
<1>1. walk \in WalkRow
  BY DEF WalkInv, WalkTypes
<1>2. /\ walk' \in WalkRow /\ Walked' = Walked /\ walk'.source = walk.source /\ walk'.even = walk.even
  BY <1>1 DEF WalkRow, Walked
<1>3. /\ walk'.pc = walk.pc /\ walk'.after = walk.after /\ walk'.next = walk.next /\ walk'.rows = walk.rows
      /\ walk'.seen = walk.seen /\ walk'.found = walk.found /\ walk'.known = walk.known /\ walk'.forged = walk.forged
  BY <1>1 DEF WalkRow
<1>4. walk'.plain => walk.plain
  BY <1>1 DEF WalkRow
<1>5. Recorded' = Recorded /\ Due' = Due /\ Window' = Window /\ (Broken' <=> Broken)
  BY <1>3 DEF Recorded, Due, Window, Histories, Ahead, FromStore, FromRepository, VersionAt, FirstOf, Broken
<1>6. SessionsHave' /\ NextIs'
  BY <1>2, <1>3, <1>5 DEF WalkInv, SessionsHave, NextIs
<1>7. Covered'
  BY <1>2, <1>3, <1>5 DEF WalkInv, Covered, SeenInWindow, FromStore, FromRepository, VersionAt
<1>8. RowsAre'
  BY <1>3, <1>5 DEF WalkInv, RowsAre, FromStore, FromRepository, VersionAt
<1>9. ForgedFound'
  BY <1>3, <1>5 DEF WalkInv, ForgedFound
<1> QED
  BY <1>2, <1>4, <1>5, <1>6, <1>7, <1>8, <1>9

\* A recorded version is one.
LEMMA VersionsAre ==
  ASSUME WalkTypes, NEW id \in VersionIds, id[2] \in 1..Len(versions[id[1]])
  PROVE  id[1] \in SessionIds /\ id[2] \in Nat /\ VersionAt(id) \in VersionRow /\ VersionAt(id).commit \in Nat
<1>1. id[1] \in SessionIds /\ id[2] \in Nat
  BY DEF VersionIds
<1>2. versions[id[1]] \in Seq(VersionRow)
  BY <1>1 DEF WalkTypes
<1>3. versions[id[1]][id[2]] \in VersionRow
  BY <1>2, ElementOfSeq
<1> QED
  BY <1>1, <1>3 DEF VersionAt, VersionRow

\* What a forged version is, and what the honest ones are, does not change with
\* what is written beside it.
LEMMA FilesKeep ==
  ASSUME WalkAssumption, WalkInv, versions' = versions, walk'.forged = walk.forged, objects' = objects,
         source.configured => source'.configured,
         walk'.pc = "files" => walk.pc = "files" /\ walk'.source = walk.source,
         Tip' \in Nat, Tip <= Tip', \A k \in 1..Tip : trees'[k] = trees[k]
  PROVE  ForgedDiffers' /\ AllHonest'
<1>1. Tip \in Nat
  BY LenProperties DEF WalkInv, WalkTypes, Tip
<1>2. ForgedDiffers'
  <2> SUFFICES ASSUME NEW id \in walk.forged PROVE id[2] \in 1..Len(versions[id[1]]) /\ Differs(id)'
    BY DEF ForgedDiffers
  <2>1. id[2] \in 1..Len(versions[id[1]]) /\ Differs(id) /\ id \in VersionIds
    BY DEF WalkInv, WalkTypes, WalkRow, ForgedDiffers
  <2>2. VersionAt(id).commit \in Nat
    BY <2>1, VersionsAre DEF WalkInv
  <2>3. VersionAt(id)' = VersionAt(id) /\ FromStore(VersionAt(id))' = FromStore(VersionAt(id))
        /\ FromRepository(VersionAt(id))' = FromRepository(VersionAt(id))
    BY DEF VersionAt, FromStore, FromRepository
  <2>4. ASSUME FromRepository(VersionAt(id)), VersionAt(id).commit # NoCommit
        PROVE  /\ source'.configured /\ (walk'.pc = "files" => walk'.source.configured)
               /\ VersionAt(id).commit <= Tip'
               /\ trees'[VersionAt(id).commit][id[1]] # VersionAt(id).content
    <3>1. /\ source.configured /\ (walk.pc = "files" => walk.source.configured)
          /\ VersionAt(id).commit <= Tip
          /\ trees[VersionAt(id).commit][id[1]] # VersionAt(id).content
      BY <2>1, <2>4 DEF Differs
    <3>2. VersionAt(id).commit \in 1..Tip
      BY <3>1, <2>2, <2>4, <1>1 DEF NoCommit
    <3>3. source'.configured
      BY <3>1
    <3> QED
      BY <3>1, <3>2, <3>3, <1>1
  <2>5. FromStore(VersionAt(id)) => /\ objects'[id[1]].content # 0
                                    /\ objects'[id[1]].content # VersionAt(id).content
    BY <2>1 DEF Differs
  <2> QED
    BY <2>1, <2>3, <2>4, <2>5, Zenon DEF Differs, NoCommit
<1>3. AllHonest'
  <2> SUFFICES ASSUME walk.forged = {}, NEW r \in SessionIds, NEW i \in 1..Len(versions[r])
               PROVE  Honest(r, versions[r][i])'
    BY DEF AllHonest
  <2>1. Honest(r, versions[r][i]) /\ versions[r][i] \in VersionRow
    BY ElementOfSeq DEF WalkInv, AllHonest, WalkTypes
  <2> DEFINE x == versions[r][i]
  <2>2. x.commit \in Nat /\ versions'[r][i] = x
    BY <2>1 DEF VersionRow
  <2> HIDE DEF x
  <2>3. ASSUME FromRepository(x), x.commit # NoCommit
        PROVE  x.commit <= Tip' /\ x.content # 0 /\ x.content = trees'[x.commit][r]
    <3>1. x.commit <= Tip /\ x.content # 0 /\ x.content = trees[x.commit][r]
      BY <2>1, <2>3 DEF Honest, x
    <3>2. x.commit \in 1..Tip
      BY <3>1, <2>2, <2>3, <1>1 DEF NoCommit
    <3> QED
      BY <3>1, <3>2, <1>1
  <2>4. FromRepository(x) /\ x.commit = NoCommit => ~x.strict
    BY <2>1 DEF Honest, x
  <2>5. FromStore(x) => objects'[r].content # 0 /\ x.content = objects'[r].content
    BY <2>1 DEF Honest, x
  <2> QED
    BY <2>2, <2>3, <2>4, <2>5, Zenon DEF Honest, NoCommit, FromStore, FromRepository
<1> QED
  BY <1>2, <1>3

\* A commit adds to the repository what no version names yet.
LEMMA CommitKeeps ==
  ASSUME WalkAssumption, WalkInv, NEW s \in SessionIds, CommitFile(s) PROVE WalkInv'
<1> DEFINE files == (IF Tip = 0 THEN [r \in SessionIds |-> 0] ELSE trees[Tip])
           written == [files EXCEPT ![s] = Tip + 1]
<1>1. trees' = Append(trees, written) /\ objects' = objects /\ sessions' = sessions /\ versions' = versions
      /\ source' = source /\ walk' = walk /\ walk.pc = "idle"
  BY DEF CommitFile
<1>2. trees \in Seq([SessionIds -> Nat]) /\ Tip \in Nat
  BY LenProperties DEF WalkInv, WalkTypes, Tip
<1>3. written \in [SessionIds -> Nat]
  <2>1. files \in [SessionIds -> Nat]
    BY <1>2, ElementOfSeq DEF Tip
  <2> HIDE DEF files
  <2> QED
    BY <2>1, <1>2
<1> HIDE DEF written
<1>4. trees' \in Seq([SessionIds -> Nat]) /\ Tip' = Tip + 1 /\ \A k \in 1..Tip : trees'[k] = trees[k]
  BY <1>1, <1>2, <1>3, AppendProperties DEF Tip
<1>5. /\ walk' \in WalkRow /\ SessionsHave' /\ NextIs' /\ Covered' /\ RowsAre' /\ ForgedFound' /\ (Broken' <=> Broken)
  BY <1>1, WalkStands
<1>6. WalkTypes'
  BY <1>1, <1>4 DEF WalkInv, WalkTypes
<1>7. ForgedDiffers' /\ AllHonest'
  <2>1. walk'.forged = walk.forged /\ (source.configured => source'.configured)
        /\ (walk'.pc = "files" => walk.pc = "files" /\ walk'.source = walk.source)
    BY <1>1
  <2>2. Tip' \in Nat /\ Tip <= Tip'
    BY <1>2, <1>4
  <2> QED
    BY <1>1, <1>4, <2>1, <2>2, FilesKeep, Zenon
<1>8. ObjectsThere' /\ HonestIsNotBroken'
  BY <1>1, <1>5 DEF WalkInv, ObjectsThere, HonestIsNotBroken
<1> QED
  BY <1>5, <1>6, <1>7, <1>8 DEF WalkInv

\* An object put into the store is of no version yet.
LEMMA PutKeeps ==
  ASSUME WalkAssumption, WalkInv, NEW s \in SessionIds, PutObject(s) PROVE WalkInv'
<1>1. objects' = [objects EXCEPT ![s] = [content |-> 1, there |-> TRUE]] /\ objects[s].content = 0 /\ trees' = trees
      /\ sessions' = sessions /\ versions' = versions /\ source' = source /\ walk' = walk
  BY DEF PutObject
<1>2. objects \in [SessionIds -> [content : Nat, there : BOOLEAN]]
  BY DEF WalkInv, WalkTypes
<1>3. /\ walk' \in WalkRow /\ SessionsHave' /\ NextIs' /\ Covered' /\ RowsAre' /\ ForgedFound' /\ (Broken' <=> Broken)
  BY <1>1, WalkStands
<1>4. objects' \in [SessionIds -> [content : Nat, there : BOOLEAN]]
  BY <1>1, <1>2
<1>5. \A r \in SessionIds : objects[r].content # 0 => objects'[r] = objects[r]
  BY <1>1, <1>2
<1>6. \A r \in SessionIds : objects'[r] = objects[r] \/ (objects'[r].content = 1 /\ objects'[r].there = TRUE)
  BY <1>1, <1>2
<1>7. WalkTypes'
  BY <1>1, <1>4 DEF WalkInv, WalkTypes
<1>8. ForgedDiffers'
  <2> SUFFICES ASSUME NEW id \in walk.forged PROVE id[2] \in 1..Len(versions[id[1]]) /\ Differs(id)'
    BY <1>1 DEF ForgedDiffers
  <2>1. id[2] \in 1..Len(versions[id[1]]) /\ Differs(id) /\ id[1] \in SessionIds /\ VersionAt(id)' = VersionAt(id)
    BY <1>1, VersionsAre DEF WalkInv, WalkTypes, WalkRow, ForgedDiffers, VersionAt
  <2> QED
    BY <1>1, <1>5, <2>1 DEF Differs, FromStore, FromRepository, NoCommit, Tip
<1>9. AllHonest'
  BY <1>1, <1>5 DEF WalkInv, AllHonest, Honest, FromStore, FromRepository, Tip
<1>10. ObjectsThere'
  <2>1. \A r \in SessionIds : (objects[r].there => objects[r].content # 0)
                              /\ (walk.plain /\ objects[r].content # 0 => objects[r].there)
    BY DEF WalkInv, ObjectsThere
  <2>2. \A r \in SessionIds : (objects'[r].there => objects'[r].content # 0)
                              /\ (walk.plain /\ objects'[r].content # 0 => objects'[r].there)
    BY <1>6, <2>1
  <2> QED
    BY <1>1, <2>2 DEF WalkInv, ObjectsThere
<1>11. HonestIsNotBroken'
  BY <1>1, <1>3 DEF WalkInv, HonestIsNotBroken
<1> QED
  BY <1>3, <1>7, <1>8, <1>9, <1>10, <1>11 DEF WalkInv

\* One that is erased was what it was: the store is no longer plain.
LEMMA EraseKeeps ==
  ASSUME WalkAssumption, WalkInv, NEW s \in SessionIds, EraseObject(s) PROVE WalkInv'
<1>1. objects' = [objects EXCEPT ![s].there = FALSE] /\ trees' = trees
      /\ sessions' = sessions /\ versions' = versions /\ source' = source /\ walk' = [walk EXCEPT !.plain = FALSE]
  BY DEF EraseObject
<1>2. objects \in [SessionIds -> [content : Nat, there : BOOLEAN]] /\ walk \in WalkRow
  BY DEF WalkInv, WalkTypes
<1>3. /\ walk' \in WalkRow /\ SessionsHave' /\ NextIs' /\ Covered' /\ RowsAre' /\ ForgedFound' /\ (Broken' <=> Broken)
      /\ walk'.source = walk.source
  BY <1>1, WalkStands
<1>4. walk'.plain = FALSE /\ walk'.forged = walk.forged /\ walk'.pc = walk.pc
  BY <1>1, <1>2 DEF WalkRow
<1>5. objects' \in [SessionIds -> [content : Nat, there : BOOLEAN]]
  BY <1>1, <1>2
<1>6. \A r \in SessionIds : objects'[r].content = objects[r].content /\ (objects'[r].there => objects[r].there)
  BY <1>1, <1>2
<1>7. WalkTypes'
  BY <1>1, <1>3, <1>5 DEF WalkInv, WalkTypes
<1>8. ForgedDiffers'
  <2> SUFFICES ASSUME NEW id \in walk.forged PROVE id[2] \in 1..Len(versions[id[1]]) /\ Differs(id)'
    BY <1>1, <1>4 DEF ForgedDiffers
  <2>1. id[2] \in 1..Len(versions[id[1]]) /\ Differs(id) /\ id[1] \in SessionIds /\ VersionAt(id)' = VersionAt(id)
    BY <1>1, VersionsAre DEF WalkInv, WalkTypes, WalkRow, ForgedDiffers, VersionAt
  <2> QED
    BY <1>1, <1>3, <1>4, <1>6, <2>1 DEF Differs, FromStore, FromRepository, NoCommit, Tip
<1>9. AllHonest'
  BY <1>1, <1>4, <1>6 DEF WalkInv, AllHonest, Honest, FromStore, FromRepository, Tip
<1>10. ObjectsThere'
  BY <1>4, <1>6 DEF WalkInv, ObjectsThere
<1>11. HonestIsNotBroken'
  BY <1>4 DEF HonestIsNotBroken
<1> QED
  BY <1>3, <1>7, <1>8, <1>9, <1>10, <1>11 DEF WalkInv

\* The source is configured once, and remapping it is not plain.
LEMMA SourceKeeps ==
  ASSUME WalkAssumption, WalkInv, ConfigureSource \/ RemapSource PROVE WalkInv'
<1>1. /\ trees' = trees /\ objects' = objects /\ sessions' = sessions /\ versions' = versions
      /\ walk' = walk \/ walk' = [walk EXCEPT !.plain = FALSE]
  BY DEF ConfigureSource, RemapSource
<1>2. source \in SourceRow /\ walk \in WalkRow
  BY DEF WalkInv, WalkTypes
<1>3. /\ walk' \in WalkRow /\ SessionsHave' /\ NextIs' /\ Covered' /\ RowsAre' /\ ForgedFound' /\ (Broken' <=> Broken)
      /\ walk'.source = walk.source /\ (walk'.plain => walk.plain)
  BY <1>1, WalkStands
<1>4. walk'.forged = walk.forged /\ walk'.pc = walk.pc
  BY <1>1, <1>2 DEF WalkRow
<1>5. source' \in SourceRow /\ (source.configured => source'.configured)
      /\ (walk'.plain => (source.mapped => source'.mapped))
  <2>1. CASE ConfigureSource
    BY <1>2, <2>1 DEF ConfigureSource, SourceRow
  <2>2. CASE RemapSource
    <3>1. source' = [source EXCEPT !.mapped = FALSE] /\ source.configured /\ walk'.plain = FALSE
      BY <1>2, <2>2 DEF RemapSource, WalkRow
    <3> QED
      BY <1>2, <3>1 DEF SourceRow
  <2> QED
    BY <2>1, <2>2
<1>6. WalkTypes'
  BY <1>1, <1>3, <1>5 DEF WalkInv, WalkTypes
<1>7. ForgedDiffers' /\ AllHonest'
  <2>1. Tip' \in Nat /\ Tip <= Tip' /\ \A k \in 1..Tip : trees'[k] = trees[k]
    BY <1>1, LenProperties DEF WalkInv, WalkTypes, Tip
  <2> QED
    BY <1>1, <1>3, <1>4, <1>5, <2>1, FilesKeep, Zenon
<1>8. ObjectsThere'
  BY <1>1, <1>3, <1>5 DEF WalkInv, ObjectsThere
<1>9. HonestIsNotBroken'
  BY <1>3, <1>4 DEF WalkInv, HonestIsNotBroken
<1> QED
  BY <1>3, <1>6, <1>7, <1>8, <1>9 DEF WalkInv

-----------------------------------------------------------------------------
(* Imports.                                                                *)

\* A version is added behind those there are.
LEMMA RecordAdds ==
  ASSUME WalkAssumption, WalkTypes, NEW s \in SessionIds, NEW x \in VersionRow, Record(s, x)
  PROVE  /\ versions' \in [SessionIds -> Seq(VersionRow)] /\ sessions' \in SUBSET SessionIds
         /\ \A r \in SessionIds : /\ Len(versions[r]) \in Nat /\ Len(versions'[r]) \in Nat
                                  /\ Len(versions[r]) <= Len(versions'[r])
         /\ \A r \in SessionIds : \A i \in 1..Len(versions[r]) : versions'[r][i] = versions[r][i]
         /\ \A r \in SessionIds : \A i \in 1..Len(versions'[r]) :
                i \in 1..Len(versions[r]) \/ (r = s /\ versions'[r][i] = x)
         /\ \A r \in SessionIds : versions'[r] # <<>> <=> (versions[r] # <<>> \/ r = s)
         /\ Len(versions'[s]) = Len(versions[s]) + 1 /\ versions'[s][Len(versions[s]) + 1] = x
<1>1. versions \in [SessionIds -> Seq(VersionRow)] /\ sessions \in SUBSET SessionIds
  BY DEF WalkTypes
<1>2. versions' = [versions EXCEPT ![s] = Append(versions[s], x)] /\ sessions' = sessions \cup {s}
  BY DEF Record
<1>3. versions'[s] = Append(versions[s], x) /\ \A r \in SessionIds \ {s} : versions'[r] = versions[r]
  BY <1>1, <1>2
<1>4. \A r \in SessionIds : versions[r] \in Seq(VersionRow) /\ Len(versions[r]) \in Nat
  BY <1>1, LenProperties
<1>5. /\ Append(versions[s], x) \in Seq(VersionRow) /\ Len(Append(versions[s], x)) = Len(versions[s]) + 1
      /\ \A i \in 1..Len(versions[s]) : Append(versions[s], x)[i] = versions[s][i]
      /\ Append(versions[s], x)[Len(versions[s]) + 1] = x /\ Append(versions[s], x) # <<>>
  BY <1>4, AppendProperties
<1>6. versions' \in [SessionIds -> Seq(VersionRow)]
  BY <1>1, <1>2, <1>5
<1>7. \A r \in SessionIds : versions'[r] # <<>> <=> (versions[r] # <<>> \/ r = s)
  BY <1>3, <1>5
<1>8. ASSUME NEW r \in SessionIds
      PROVE  /\ Len(versions'[r]) \in Nat /\ Len(versions[r]) <= Len(versions'[r])
             /\ \A i \in 1..Len(versions[r]) : versions'[r][i] = versions[r][i]
             /\ \A i \in 1..Len(versions'[r]) : i \in 1..Len(versions[r]) \/ (r = s /\ versions'[r][i] = x)
  <2>1. CASE r = s
    <3>1. \A i \in 1..Len(versions[s]) + 1 : i \in 1..Len(versions[s]) \/ i = Len(versions[s]) + 1
      BY <1>4
    <3> QED
      BY <1>3, <1>4, <1>5, <2>1, <3>1
  <2>2. CASE r # s
    BY <1>3, <1>4, <2>2
  <2> QED
    BY <2>1, <2>2
<1> QED
  BY <1>1, <1>2, <1>3, <1>4, <1>5, <1>6, <1>7, <1>8

\* So what was recorded still is.
LEMMA RecordedStays ==
  ASSUME WalkAssumption, WalkTypes, NEW s \in SessionIds, NEW x \in VersionRow, Record(s, x)
  PROVE  /\ Recorded \subseteq Recorded' /\ \A id \in Recorded : VersionAt(id)' = VersionAt(id)
         /\ \A id \in VersionIds : id[2] \in 1..Len(versions[id[1]]) =>
                id[2] \in 1..Len(versions'[id[1]]) /\ VersionAt(id)' = VersionAt(id)
<1>1. ASSUME NEW id \in VersionIds, id[2] \in 1..Len(versions[id[1]])
      PROVE  id[2] \in 1..Len(versions'[id[1]]) /\ VersionAt(id)' = VersionAt(id)
  <2>1. id[1] \in SessionIds /\ id[2] \in Nat
    BY DEF VersionIds
  <2>2. Len(versions[id[1]]) \in Nat /\ Len(versions'[id[1]]) \in Nat /\ Len(versions[id[1]]) <= Len(versions'[id[1]])
        /\ versions'[id[1]][id[2]] = versions[id[1]][id[2]]
    BY <1>1, <2>1, RecordAdds
  <2> QED
    BY <1>1, <2>1, <2>2 DEF VersionAt
<1>2. ASSUME NEW id \in Recorded PROVE id \in Recorded' /\ VersionAt(id)' = VersionAt(id)
  <2>1. id \in SessionIds \X (1..MaxVersions) /\ id[2] <= Len(versions[id[1]])
    BY DEF Recorded
  <2>2. id[1] \in SessionIds /\ id[2] \in Nat \ {0} /\ id \in VersionIds
    BY <2>1 DEF WalkAssumption, VersionIds
  <2>3. Len(versions[id[1]]) \in Nat /\ Len(versions'[id[1]]) \in Nat
    BY <2>2, RecordAdds
  <2>4. id[2] \in 1..Len(versions[id[1]])
    BY <2>1, <2>2, <2>3
  <2>5. id[2] \in 1..Len(versions'[id[1]]) /\ VersionAt(id)' = VersionAt(id)
    BY <1>1, <2>2, <2>4
  <2>6. id[2] <= Len(versions'[id[1]])
    BY <2>3, <2>5
  <2> QED
    BY <2>1, <2>5, <2>6 DEF Recorded
<1> QED
  BY <1>1, <1>2

\* An import leaves what a walk has found; when it adds a session's first
\* version while one is on, the walk is uneven.
LEMMA RecordStands ==
  ASSUME WalkAssumption, WalkInv, NEW s \in SessionIds, NEW x \in VersionRow, Record(s, x),
         walk' \in WalkRow, Walked' = Walked,
         walk'.pc # "idle" /\ walk'.even => walk.even /\ versions[s] # <<>>
  PROVE  SessionsHave' /\ NextIs' /\ Covered' /\ RowsAre' /\ (Broken' <=> Broken) /\ Due' = Due
<1>1. /\ walk'.pc = walk.pc /\ walk'.after = walk.after /\ walk'.next = walk.next /\ walk'.rows = walk.rows
      /\ walk'.seen = walk.seen /\ walk'.found = walk.found /\ walk'.known = walk.known /\ walk'.forged = walk.forged
  BY DEF Walked
<1>2. WalkTypes /\ sessions' = sessions \cup {s}
  BY DEF WalkInv, Record
<1>3. /\ Recorded \subseteq Recorded' /\ \A id \in Recorded : VersionAt(id)' = VersionAt(id)
      /\ \A r \in SessionIds : versions'[r] # <<>> <=> (versions[r] # <<>> \/ r = s)
  BY <1>2, RecordAdds, RecordedStays
<1>4. walk.known \subseteq Recorded /\ \A id \in walk.known : VersionAt(id)' = VersionAt(id)
  BY <1>3 DEF WalkInv, RowsAre
<1>5. Due' = Due /\ (Broken' <=> Broken)
  BY <1>1, <1>4 DEF Due, Broken, FromStore, FromRepository
<1>6. ASSUME walk'.pc # "idle", walk'.even PROVE walk.even /\ Histories' = Histories /\ Window' = Window
  BY <1>1, <1>3, <1>6 DEF Histories, Window, Ahead, FirstOf
<1>7. SessionsHave'
  <2>1. sessions \in SUBSET SessionIds
    BY <1>2 DEF WalkTypes
  <2>2. \A r \in SessionIds : versions'[r] # <<>> => r \in sessions'
    BY <1>2, <1>3 DEF WalkInv, SessionsHave
  <2>3. ASSUME walk'.pc # "idle", walk'.even, NEW r \in sessions' PROVE versions'[r] # <<>>
    <3>1. r = s \/ (r \in sessions /\ versions[r] # <<>>)
      BY <1>1, <1>2, <1>6, <2>3 DEF WalkInv, SessionsHave
    <3> QED
      BY <1>3, <2>1, <3>1
  <2> QED
    BY <2>2, <2>3 DEF SessionsHave
<1>8. NextIs'
  BY <1>1, <1>6 DEF WalkInv, NextIs
<1>9. Covered'
  <2> SUFFICES ASSUME walk'.even, NEW id \in Due
               PROVE  /\ id[1] <= walk.after => id \in walk.seen
                      /\ id[1] \in Window' => SeenInWindow(id)'
                      /\ walk.pc = "done" => id \in walk.seen
    BY <1>1, <1>5 DEF Covered
  <2>1. id \in walk.known /\ VersionAt(id)' = VersionAt(id)
    BY <1>4 DEF Due
  <2>2. walk.pc # "idle"
    BY <2>1 DEF WalkInv, RowsAre
  <2>3. walk.even /\ Window' = Window
    BY <1>1, <1>6, <2>2
  <2>4. /\ id[1] <= walk.after => id \in walk.seen
        /\ id[1] \in Window => SeenInWindow(id)
        /\ walk.pc = "done" => id \in walk.seen
    BY <2>3 DEF WalkInv, Covered
  <2>5. SeenInWindow(id) => SeenInWindow(id)'
    BY <1>1, <2>1 DEF SeenInWindow, FromStore, FromRepository
  <2> QED
    BY <2>3, <2>4, <2>5
<1>10. RowsAre'
  <2>1. \A id \in walk.rows : id \in Recorded => VersionAt(id)' = VersionAt(id) /\ id \in Recorded'
    BY <1>3
  <2> QED
    BY <1>1, <1>3, <2>1 DEF WalkInv, RowsAre, FromStore, FromRepository
<1> QED
  BY <1>5, <1>7, <1>8, <1>9, <1>10

\* An import of what is there.
LEMMA ImportKeeps ==
  ASSUME WalkAssumption, WalkInv, NEW s \in SessionIds, NEW x \in VersionRow, Record(s, x),
         Interrupts(versions[s] = <<>>), Honest(s, x)
  PROVE  WalkInv'
<1>1. trees' = trees /\ objects' = objects /\ source' = source
  BY DEF Record
<1>2. walk \in WalkRow /\ WalkTypes
  BY DEF WalkInv, WalkTypes
<1>3. /\ walk' \in WalkRow /\ Walked' = Walked /\ walk'.source = walk.source /\ walk'.plain = walk.plain
      /\ (walk'.pc # "idle" /\ walk'.even => walk.even /\ versions[s] # <<>>)
  <2>1. CASE walk.pc = "idle"
    <3>1. walk' = walk
      BY <2>1 DEF Interrupts
    <3> QED
      BY <1>2, <2>1, <3>1 DEF Walked
  <2>2. CASE walk.pc # "idle"
    <3> DEFINE stays == walk.even /\ ~(versions[s] = <<>>)
    <3>1. walk' = [walk EXCEPT !.even = stays]
      BY <2>2 DEF Interrupts
    <3>2. stays \in BOOLEAN /\ (stays => walk.even /\ versions[s] # <<>>)
      BY <1>2 DEF WalkRow
    <3> HIDE DEF stays
    <3>3. walk' \in WalkRow
      BY <1>2, <3>1, <3>2 DEF WalkRow
    <3>4. Walked' = Walked /\ walk'.source = walk.source /\ walk'.plain = walk.plain /\ walk'.even = stays
      BY <1>2, <3>1 DEF WalkRow, Walked
    <3> QED
      BY <3>2, <3>3, <3>4
  <2> QED
    BY <2>1, <2>2
<1>4. SessionsHave' /\ NextIs' /\ Covered' /\ RowsAre' /\ (Broken' <=> Broken) /\ Due' = Due
  BY <1>3, RecordStands
<1>5. walk'.forged = walk.forged /\ walk'.seen = walk.seen /\ walk'.pc = walk.pc
  BY <1>3 DEF Walked
<1>6. WalkTypes'
  BY <1>1, <1>2, <1>3, RecordAdds DEF WalkTypes
<1>7. ForgedDiffers'
  <2> SUFFICES ASSUME NEW id \in walk.forged PROVE id[2] \in 1..Len(versions'[id[1]]) /\ Differs(id)'
    BY <1>5 DEF ForgedDiffers
  <2>1. id[2] \in 1..Len(versions[id[1]]) /\ Differs(id) /\ id \in VersionIds
    BY <1>2 DEF WalkInv, WalkRow, ForgedDiffers
  <2>2. id[2] \in 1..Len(versions'[id[1]]) /\ VersionAt(id)' = VersionAt(id)
    BY <1>2, <2>1, RecordedStays
  <2> QED
    BY <1>1, <1>3, <1>5, <2>1, <2>2 DEF Differs, FromStore, FromRepository, Tip
<1>8. AllHonest'
  <2> SUFFICES ASSUME walk.forged = {}, NEW r \in SessionIds, NEW i \in 1..Len(versions'[r])
               PROVE  Honest(r, versions[r][i])'
    BY <1>5 DEF AllHonest
  <2>1. \/ i \in 1..Len(versions[r]) /\ versions'[r][i] = versions[r][i]
        \/ r = s /\ versions'[r][i] = x
    BY <1>2, RecordAdds
  <2>2. Honest(r, versions'[r][i])
    BY <2>1 DEF WalkInv, AllHonest
  <2> QED
    BY <1>1, <2>2 DEF Honest, FromStore, FromRepository, Tip
<1>9. ForgedFound' /\ ObjectsThere' /\ HonestIsNotBroken'
  BY <1>1, <1>3, <1>4, <1>5 DEF WalkInv, ForgedFound, ObjectsThere, HonestIsNotBroken
<1> QED
  BY <1>3, <1>4, <1>6, <1>7, <1>8, <1>9 DEF WalkInv

\* Every import is one.
LEMMA ImportsKeep ==
  ASSUME WalkAssumption, WalkInv, NEW s \in SessionIds,
         SyncFile(s) \/ ImportDirectory(s) \/ ImportObject(s) \/ UploadLog(s)
  PROVE  WalkInv'
<1>1. source.configured \in BOOLEAN /\ trees \in Seq([SessionIds -> Nat]) /\ Tip \in Nat
      /\ objects[s].content \in Nat
  BY LenProperties DEF WalkInv, WalkTypes, SourceRow, Tip
<1>2. Tip > 0 => trees[Tip][s] \in Nat
  <2>1. ASSUME Tip > 0 PROVE trees[Tip] \in [SessionIds -> Nat]
    BY <1>1, <2>1, ElementOfSeq DEF Tip
  <2> QED
    BY <2>1
<1>3. CASE SyncFile(s)
  <2> DEFINE x == Version("repository", Tip, trees[Tip][s])
  <2>1. Record(s, x) /\ Interrupts(versions[s] = <<>>) /\ Tip > 0 /\ trees[Tip][s] # 0
    BY <1>3 DEF SyncFile
  <2>2. x \in VersionRow
    BY <1>1, <1>2, <2>1 DEF Version, VersionRow
  <2>3. Honest(s, x)
    BY <1>1, <2>1 DEF Honest, Version, FromStore, FromRepository, NoCommit
  <2> HIDE DEF x
  <2> QED
    BY <2>1, <2>2, <2>3, ImportKeeps
<1>4. CASE ImportDirectory(s)
  <2> DEFINE x == Version("repository", NoCommit, trees[Tip][s])
  <2>1. Record(s, x) /\ Interrupts(versions[s] = <<>>) /\ Tip > 0 /\ ~source.configured
    BY <1>4 DEF ImportDirectory
  <2>2. x \in VersionRow
    BY <1>1, <1>2, <2>1 DEF Version, VersionRow, NoCommit
  <2>3. Honest(s, x)
    BY <1>1, <2>1 DEF Honest, Version, FromStore, FromRepository, NoCommit
  <2> HIDE DEF x
  <2> QED
    BY <2>1, <2>2, <2>3, ImportKeeps
<1>5. CASE ImportObject(s)
  <2> DEFINE x == Version("store", NoCommit, objects[s].content)
  <2>1. Record(s, x) /\ Interrupts(versions[s] = <<>>) /\ objects[s].there
    BY <1>5 DEF ImportObject
  <2>2. x \in VersionRow
    BY <1>1, <2>1 DEF Version, VersionRow, NoCommit
  <2>3. Honest(s, x)
    BY <1>1, <2>1 DEF WalkInv, ObjectsThere, Honest, Version, FromStore, FromRepository
  <2> HIDE DEF x
  <2> QED
    BY <2>1, <2>2, <2>3, ImportKeeps
<1>6. CASE UploadLog(s)
  <2> DEFINE x == Version("api", NoCommit, 0)
  <2>1. Record(s, x) /\ Interrupts(versions[s] = <<>>)
    BY <1>6 DEF UploadLog
  <2>2. x \in VersionRow
    BY <1>1 DEF Version, VersionRow, NoCommit
  <2>3. Honest(s, x)
    BY DEF Honest, Version, FromStore, FromRepository
  <2> HIDE DEF x
  <2> QED
    BY <2>1, <2>2, <2>3, ImportKeeps
<1> QED
  BY <1>3, <1>4, <1>5, <1>6

\* A forged version differs from what it names, and is recorded before the walk.
LEMMA ForgeKeeps ==
  ASSUME WalkAssumption, WalkInv, NEW s \in SessionIds, NEW o \in {"repository", "store"}, NEW k \in 0..Tip,
         NEW c \in 1..MaxChanges, Forge(s, o, k, c)
  PROVE  WalkInv'
<1> DEFINE x == Version(o, k, c)
<1>0. PICK n : n = Len(versions[s]) + 1
  OBVIOUS
<1> DEFINE new == <<s, n>>
<1>1. /\ Record(s, x) /\ walk' = [walk EXCEPT !.forged = {new}] /\ walk.pc = "idle"
      /\ (o = "repository" => source.configured) /\ (k # NoCommit => o = "repository")
      /\ (o = "store" => objects[s].content # 0)
      /\ c # IF o = "store" THEN objects[s].content ELSE IF k = NoCommit THEN 0 ELSE trees[k][s]
  BY <1>0 DEF Forge
<1>2. walk \in WalkRow /\ WalkTypes /\ Tip \in Nat /\ Len(versions[s]) \in Nat
  BY LenProperties DEF WalkInv, WalkTypes, Tip
<1>3. x \in VersionRow
  <2>1. k \in Nat /\ c \in Nat /\ source.configured \in BOOLEAN
    BY <1>2 DEF WalkAssumption, WalkTypes, SourceRow
  <2> QED
    BY <2>1 DEF Version, VersionRow
<1>4. x.origin = o /\ x.commit = k /\ x.content = c
  BY DEF Version
<1> HIDE DEF x
<1>5. trees' = trees /\ objects' = objects /\ source' = source
  BY <1>1 DEF Record
<1>6. new \in VersionIds
  BY <1>0, <1>2 DEF VersionIds
<1>7. walk' \in WalkRow
  BY <1>1, <1>2, <1>6 DEF WalkRow
<1>8. /\ walk'.pc = "idle" /\ walk'.known = {} /\ walk'.found = {} /\ walk'.seen = {} /\ walk'.after = 0
      /\ walk'.forged = {new} /\ walk'.source = walk.source /\ walk'.plain = walk.plain
  BY <1>1, <1>2 DEF WalkInv, RowsAre, WalkRow
<1>9. WalkTypes'
  BY <1>1, <1>2, <1>3, <1>5, <1>7, RecordAdds DEF WalkTypes
<1>10. SessionsHave'
  <2>1. /\ \A r \in SessionIds : versions'[r] # <<>> <=> (versions[r] # <<>> \/ r = s)
        /\ sessions' = sessions \cup {s}
    BY <1>1, <1>2, <1>3, RecordAdds DEF Record
  <2> QED
    BY <1>8, <2>1 DEF WalkInv, SessionsHave
<1>11. NextIs' /\ Covered' /\ RowsAre'
  BY <1>8 DEF NextIs, Covered, RowsAre, Due
<1>12. ForgedDiffers'
  <2>1. Len(versions'[s]) = n /\ versions'[s][n] = x /\ n \in 1..n
    BY <1>0, <1>1, <1>2, <1>3, RecordAdds
  <2>2. versions'[new[1]][new[2]] = x /\ new[2] \in 1..Len(versions'[new[1]]) /\ new[1] = s
    BY <2>1
  <2>3. x.origin = "repository" /\ x.commit # 0 => k \in 1..Tip /\ source.configured /\ c # trees[k][s]
    BY <1>1, <1>2, <1>4 DEF NoCommit
  <2>4. x.origin = "store" => objects[s].content # 0 /\ c # objects[s].content
    BY <1>1, <1>4
  <2> HIDE DEF new
  <2>5. Differs(new)'
    BY <1>2, <1>4, <1>5, <1>8, <2>2, <2>3, <2>4
       DEF Differs, FromStore, FromRepository, NoCommit, Tip, VersionAt
  <2> QED
    BY <1>8, <2>2, <2>5 DEF ForgedDiffers
<1>13. AllHonest' /\ ForgedFound' /\ HonestIsNotBroken'
  BY <1>8 DEF AllHonest, ForgedFound, HonestIsNotBroken
<1>14. ObjectsThere'
  BY <1>5, <1>8 DEF WalkInv, ObjectsThere
<1> QED
  BY <1>9, <1>10, <1>11, <1>12, <1>13, <1>14 DEF WalkInv

-----------------------------------------------------------------------------
(* The walk.                                                               *)

\* A request of the walk leaves the repository, the store and the sessions.
Beside == <<trees, objects, sessions, versions, source>>

\* What it leaves so stays what it is.
LEMMA BesideStands ==
  ASSUME WalkAssumption, WalkInv, Beside' = Beside, walk' \in WalkRow,
         walk'.forged = walk.forged, walk'.plain = walk.plain,
         walk'.source = source \/ (walk'.source = walk.source /\ walk'.pc # "files"),
         walk'.pc # "idle" /\ walk'.even => \A s \in sessions : versions[s] # <<>>
  PROVE  WalkTypes' /\ SessionsHave' /\ ForgedDiffers' /\ AllHonest' /\ ObjectsThere'
<1>1. trees' = trees /\ objects' = objects /\ sessions' = sessions /\ versions' = versions /\ source' = source
  BY DEF Beside
<1>2. WalkTypes' /\ SessionsHave' /\ AllHonest'
  BY <1>1 DEF WalkInv, WalkTypes, SessionsHave, AllHonest, Honest, FromStore, FromRepository, Tip
<1>3. ObjectsThere'
  BY <1>1 DEF WalkInv, ObjectsThere
<1>4. ForgedDiffers'
  <2> SUFFICES ASSUME NEW id \in walk.forged PROVE id[2] \in 1..Len(versions[id[1]]) /\ Differs(id)'
    BY <1>1 DEF ForgedDiffers
  <2>1. id[2] \in 1..Len(versions[id[1]]) /\ Differs(id) /\ VersionAt(id)' = VersionAt(id)
    BY <1>1 DEF WalkInv, ForgedDiffers, VersionAt
  <2> QED
    BY <1>1, <2>1 DEF Differs, FromStore, FromRepository, Tip
<1> QED
  BY <1>2, <1>3, <1>4

\* What is recorded, due and in the window is so before and after such a step.
LEMMA BesideSame ==
  ASSUME Beside' = Beside
  PROVE  /\ Recorded' = Recorded
         /\ (walk'.known = walk.known => Due' = Due)
         /\ (walk'.after = walk.after => Histories' = Histories /\ Window' = Window)
         /\ \A id : VersionAt(id)' = VersionAt(id)
<1>1. versions' = versions
  BY DEF Beside
<1> QED
  BY <1>1 DEF Recorded, Due, Histories, Window, Ahead, FirstOf, VersionAt, FromStore, FromRepository

\* The sessions of a window are sessions, whose numbers are positive.
LEMMA WindowIs ==
  ASSUME WalkAssumption
  PROVE  /\ Histories \in SUBSET SessionIds /\ Window \in SUBSET Histories
         /\ NextOf(Window) \in Nat
         /\ NextOf(Window) = 0 => Window = Histories
         /\ NextOf(Window) # 0 => NextOf(Window) \in Window /\ \A s \in Window : s <= NextOf(Window)
<1>1. Histories \in SUBSET SessionIds /\ Window \in SUBSET Histories
  BY DEF Histories, Window, FirstOf
<1>2. Window \in SUBSET SessionIds
  BY <1>1
<1>3. /\ NextOf(Window) \in Nat /\ (NextOf(Window) = 0 => Cardinality(Window) < Slice)
      /\ NextOf(Window) # 0 => NextOf(Window) \in Window /\ \A s \in Window : s <= NextOf(Window)
  BY <1>2, NextOfIs
<1>4. Cardinality(Window) < Slice => Window = Histories
  BY <1>1, FirstOfAll DEF Window
<1> QED
  BY <1>1, <1>3, <1>4

\* A version that is due is one of a session with a history.
LEMMA DueAre ==
  ASSUME WalkAssumption, WalkInv, NEW id \in Due
  PROVE  /\ id \in walk.known /\ id \in Recorded /\ id \in VersionIds
         /\ id[1] \in SessionIds /\ id[1] \in Nat \ {0} /\ id[2] \in DOMAIN versions[id[1]]
         /\ versions[id[1]] # <<>> /\ (id[1] \in Histories <=> id[1] > walk.after)
         /\ FromStore(VersionAt(id)) \/ (FromRepository(VersionAt(id)) /\ VersionAt(id).commit # NoCommit)
<1>1. /\ id \in walk.known /\ id \in Recorded
      /\ FromStore(VersionAt(id)) \/ (FromRepository(VersionAt(id)) /\ VersionAt(id).commit # NoCommit)
  BY DEF WalkInv, RowsAre, Due
<1>2. id \in SessionIds \X (1..MaxVersions) /\ id[2] <= Len(versions[id[1]])
  BY <1>1 DEF Recorded
<1>3. id[1] \in SessionIds /\ id[2] \in Nat \ {0} /\ id \in VersionIds
  BY <1>2 DEF WalkAssumption, VersionIds
<1>4. versions[id[1]] \in Seq(VersionRow) /\ Len(versions[id[1]]) \in Nat
      /\ DOMAIN versions[id[1]] = 1..Len(versions[id[1]])
  BY <1>3, LenProperties DEF WalkInv, WalkTypes
<1>5. id[2] \in 1..Len(versions[id[1]])
  BY <1>2, <1>3, <1>4
<1>6. versions[id[1]] # <<>>
  BY <1>4, <1>5
<1>7. id[1] \in Nat \ {0}
  BY <1>3 DEF WalkAssumption
<1>8. id[1] \in Histories <=> id[1] > walk.after
  BY <1>3, <1>6 DEF Histories, Ahead
<1> QED
  BY <1>1, <1>3, <1>4, <1>5, <1>6, <1>7, <1>8

\* The first request: every version recorded now is to be looked at.
LEMMA BeginKeeps ==
  ASSUME WalkAssumption, WalkInv, BeginWalk PROVE WalkInv'
<1> DEFINE all == \A s \in sessions : versions[s] # <<>>
<1>1. walk.pc = "idle" /\ Beside' = Beside
      /\ walk' = [walk EXCEPT !.pc = "history", !.known = Recorded, !.even = all]
  BY DEF BeginWalk, Beside
<1>2. walk \in WalkRow /\ walk.found = {} /\ walk.seen = {} /\ walk.after = 0 /\ Recorded \subseteq VersionIds
  BY <1>1 DEF WalkInv, WalkTypes, RowsAre, Recorded, VersionIds, WalkAssumption
<1>3. all \in BOOLEAN /\ (all => \A s \in sessions : versions[s] # <<>>)
  OBVIOUS
<1> HIDE DEF all
<1>4. walk' \in WalkRow
  BY <1>1, <1>2, <1>3 DEF WalkRow
<1>5. /\ walk'.pc = "history" /\ walk'.known = Recorded /\ walk'.even = all /\ walk'.found = {} /\ walk'.seen = {}
      /\ walk'.after = 0 /\ walk'.forged = walk.forged /\ walk'.plain = walk.plain /\ walk'.source = walk.source
  BY <1>1, <1>2 DEF WalkRow
<1>6. WalkTypes' /\ SessionsHave' /\ ForgedDiffers' /\ AllHonest' /\ ObjectsThere'
  BY <1>1, <1>3, <1>4, <1>5, BesideStands
<1>7. NextIs' /\ RowsAre' /\ ForgedFound' /\ HonestIsNotBroken'
  BY <1>1, <1>5, BesideSame DEF NextIs, RowsAre, ForgedFound, HonestIsNotBroken, Broken
<1>8. Covered'
  <2> SUFFICES ASSUME NEW id \in Due' PROVE ~(id[1] <= 0)
    BY <1>5 DEF Covered, SeenInWindow
  <2>1. id \in Recorded
    BY <1>5 DEF Due
  <2>2. id[1] \in Nat \ {0}
    BY <2>1 DEF Recorded, WalkAssumption
  <2> QED
    BY <2>2
<1> QED
  BY <1>6, <1>7, <1>8 DEF WalkInv

\* The histories of the window: the next request will go on behind it.
LEMMA HistoriesKeep ==
  ASSUME WalkAssumption, WalkInv, CheckHistories PROVE WalkInv'
<1>1. walk.pc = "history" /\ Beside' = Beside /\ walk' = [walk EXCEPT !.pc = "store", !.next = NextOf(Window)]
  BY DEF CheckHistories, Beside, Window, Histories
<1>2. walk \in WalkRow /\ NextOf(Window) \in Nat
  BY WindowIs DEF WalkInv, WalkTypes
<1>3. walk' \in WalkRow
  BY <1>1, <1>2 DEF WalkRow
<1>4. /\ walk'.pc = "store" /\ walk'.next = NextOf(Window) /\ walk'.known = walk.known /\ walk'.even = walk.even
      /\ walk'.found = walk.found /\ walk'.seen = walk.seen /\ walk'.after = walk.after
      /\ walk'.forged = walk.forged /\ walk'.plain = walk.plain /\ walk'.source = walk.source
  BY <1>1, <1>2 DEF WalkRow
<1>5. walk'.even => \A s \in sessions : versions[s] # <<>>
  BY <1>1, <1>4 DEF WalkInv, SessionsHave
<1>6. WalkTypes' /\ SessionsHave' /\ ForgedDiffers' /\ AllHonest' /\ ObjectsThere'
  BY <1>1, <1>3, <1>4, <1>5, BesideStands
<1>7. Recorded' = Recorded /\ Due' = Due /\ Window' = Window
  BY <1>1, <1>4, BesideSame
<1>8. NextIs' /\ RowsAre' /\ ForgedFound' /\ HonestIsNotBroken'
  BY <1>1, <1>4, <1>7 DEF WalkInv, NextIs, RowsAre, ForgedFound, HonestIsNotBroken, Broken
<1>9. Covered'
  BY <1>1, <1>4, <1>7 DEF WalkInv, Covered, SeenInWindow
<1> QED
  BY <1>6, <1>8, <1>9 DEF WalkInv

\* The rows of the store's versions: those of the window are among them.
LEMMA StoreRowsKeep ==
  ASSUME WalkAssumption, WalkInv, ReadStoreVersions PROVE WalkInv'
<1> DEFINE named == {s \in SessionIds : Ahead(s) /\ \E i \in DOMAIN versions[s] : FromStore(versions[s][i])}
           read == StoreVersions(FirstOf(named))
<1>1. walk.pc = "store" /\ Beside' = Beside /\ walk' = [walk EXCEPT !.pc = "objects", !.rows = read]
  BY DEF ReadStoreVersions, Beside
<1>2. walk \in WalkRow /\ read \subseteq Recorded /\ Recorded \subseteq VersionIds
  BY DEF WalkInv, WalkTypes, StoreVersions, Recorded, VersionIds, WalkAssumption
<1>3. \A id \in read : FromStore(VersionAt(id))
  BY DEF StoreVersions
<1>4. named \in SUBSET Histories /\ Histories \in SUBSET SessionIds
  <2>1. ASSUME NEW s \in named PROVE s \in Histories
    <3>1. s \in SessionIds /\ Ahead(s) /\ DOMAIN versions[s] # {}
      OBVIOUS
    <3>2. versions[s] # <<>>
      BY <3>1, EmptySeq
    <3> QED
      BY <3>1, <3>2 DEF Histories
  <2> QED
    BY <2>1 DEF Histories
<1>5. ASSUME NEW id \in Due, id[1] \in Window, FromStore(VersionAt(id)) PROVE id \in read
  <2>1. id \in Recorded /\ id[1] \in Histories /\ id[2] \in DOMAIN versions[id[1]] /\ id[1] \in SessionIds
    BY <1>5, DueAre, WindowIs
  <2>2. id[1] \in named
    BY <1>5, <2>1 DEF Histories, VersionAt
  <2>3. id[1] \in FirstOf(named)
    <3> HIDE DEF named
    <3> QED
      BY <1>4, <1>5, <2>2, FirstOfFewer DEF Window
  <2> QED
    BY <1>5, <2>1, <2>3 DEF StoreVersions
<1> HIDE DEF read
<1>6. walk' \in WalkRow
  BY <1>1, <1>2 DEF WalkRow
<1>7. /\ walk'.pc = "objects" /\ walk'.next = walk.next /\ walk'.known = walk.known /\ walk'.even = walk.even
      /\ walk'.found = walk.found /\ walk'.seen = walk.seen /\ walk'.after = walk.after /\ walk'.rows = read
      /\ walk'.forged = walk.forged /\ walk'.plain = walk.plain /\ walk'.source = walk.source
  BY <1>1, <1>2 DEF WalkRow
<1>8. walk'.even => \A s \in sessions : versions[s] # <<>>
  BY <1>1, <1>7 DEF WalkInv, SessionsHave
<1>9. WalkTypes' /\ SessionsHave' /\ ForgedDiffers' /\ AllHonest' /\ ObjectsThere'
  BY <1>1, <1>6, <1>7, <1>8, BesideStands
<1>10. Recorded' = Recorded /\ Due' = Due /\ Window' = Window /\ \A id : VersionAt(id)' = VersionAt(id)
  BY <1>1, <1>7, BesideSame
<1>11. NextIs' /\ ForgedFound' /\ HonestIsNotBroken'
  BY <1>1, <1>7, <1>10 DEF WalkInv, NextIs, ForgedFound, HonestIsNotBroken, Broken
<1>12. RowsAre'
  BY <1>1, <1>2, <1>3, <1>7, <1>10 DEF WalkInv, RowsAre, FromStore
<1>13. Covered'
  <2> SUFFICES ASSUME walk.even, NEW id \in Due
               PROVE  /\ id[1] <= walk.after => id \in walk.seen
                      /\ id[1] \in Window => SeenInWindow(id)'
    BY <1>7, <1>10 DEF Covered
  <2>1. id[1] <= walk.after => id \in walk.seen
    BY DEF WalkInv, Covered
  <2>2. ASSUME id[1] \in Window PROVE SeenInWindow(id)'
    BY <1>5, <1>7, <1>10, <2>2 DEF SeenInWindow, FromStore
  <2> QED
    BY <2>1, <2>2
<1> QED
  BY <1>9, <1>11, <1>12, <1>13 DEF WalkInv

\* What a check finds of the rows it read, and where it goes on.
Looks(bad, then) ==
    walk' = [walk EXCEPT !.pc = then, !.rows = {}, !.seen = @ \cup walk.rows, !.found = @ \cup bad]

Complaints(bad) == \E f \in bad : f[2] \notin {"no_commit", "no_source"}

\* A check keeps what is true of a walk when it complains of what is forged
\* and, as long as everything is plain, of nothing else.
LEMMA LookKeeps ==
  ASSUME WalkAssumption, WalkInv, Beside' = Beside, NEW bad \in SUBSET (VersionIds \X Verdicts), NEW then,
         (walk.pc = "objects" /\ then = "repository") \/ (walk.pc = "files" /\ then = "answer"),
         Looks(bad, then),
         \A id \in walk.forged \cap walk.rows : id \in Due => Complaints(bad),
         walk.forged = {} /\ walk.plain => ~Complaints(bad)
  PROVE  WalkInv'
<1>1. walk \in WalkRow /\ then \in {"repository", "answer"}
  BY DEF WalkInv, WalkTypes
<1>2. walk' \in WalkRow
  BY <1>1 DEF Looks, WalkRow
<1>3. /\ walk'.pc = then /\ walk'.next = walk.next /\ walk'.known = walk.known /\ walk'.even = walk.even
      /\ walk'.found = walk.found \cup bad /\ walk'.seen = walk.seen \cup walk.rows /\ walk'.after = walk.after
      /\ walk'.forged = walk.forged /\ walk'.plain = walk.plain /\ walk'.source = walk.source
  BY <1>1 DEF Looks, WalkRow
<1>4. walk'.even => \A s \in sessions : versions[s] # <<>>
  BY <1>3 DEF WalkInv, SessionsHave
<1>5. WalkTypes' /\ SessionsHave' /\ ForgedDiffers' /\ AllHonest' /\ ObjectsThere'
  BY <1>1, <1>2, <1>3, <1>4, BesideStands
<1>6. Recorded' = Recorded /\ Due' = Due /\ Window' = Window /\ \A id : VersionAt(id)' = VersionAt(id)
  BY <1>3, BesideSame
<1>7. Broken' <=> Broken \/ Complaints(bad)
  BY <1>3 DEF Broken, Complaints
<1>8. NextIs' /\ RowsAre'
  BY <1>1, <1>3, <1>6 DEF WalkInv, NextIs, RowsAre
<1>9. ForgedFound' /\ HonestIsNotBroken'
  BY <1>3, <1>6, <1>7 DEF WalkInv, ForgedFound, HonestIsNotBroken
<1>10. Covered'
  <2> SUFFICES ASSUME walk.even, NEW id \in Due
               PROVE  /\ id[1] <= walk.after => id \in walk.seen \cup walk.rows
                      /\ id[1] \in Window => SeenInWindow(id)'
    BY <1>1, <1>3, <1>6 DEF Covered
  <2>1. /\ id[1] <= walk.after => id \in walk.seen
        /\ id[1] \in Window => SeenInWindow(id)
    BY DEF WalkInv, Covered
  <2>2. SeenInWindow(id) => SeenInWindow(id)'
    BY <1>3, <1>6 DEF SeenInWindow, FromStore, FromRepository
  <2> QED
    BY <2>1, <2>2
<1> QED
  BY <1>5, <1>8, <1>9, <1>10 DEF WalkInv

\* The store's objects, asked for after the transaction that read the rows.
LEMMA ObjectsKeep ==
  ASSUME WalkAssumption, WalkInv, ReadObjects PROVE WalkInv'
<1> DEFINE bad == {<<id, ObjectVerdict(id)>> : id \in {r \in walk.rows : ObjectVerdict(r) # "ok"}}
<1>1. walk.pc = "objects" /\ Beside' = Beside /\ Looks(bad, "repository")
  BY DEF ReadObjects, Beside, Checked, Looks
<1>2. \A id : ObjectVerdict(id) \in {"missing", "mismatches", "ok"}
  BY DEF ObjectVerdict
<1>3. \A id \in walk.rows : id \in Recorded /\ id \in VersionIds /\ FromStore(VersionAt(id))
  BY <1>1 DEF WalkInv, RowsAre, WalkTypes, WalkRow
<1>4. bad \in SUBSET (VersionIds \X Verdicts)
  <2>1. \A r \in walk.rows : r \in VersionIds /\ ObjectVerdict(r) \in Verdicts
    BY <1>2, <1>3 DEF Verdicts
  <2>2. \A r \in walk.rows : <<r, ObjectVerdict(r)>> \in VersionIds \X Verdicts
    BY <2>1
  <2> QED
    BY <2>2, Zenon
<1>5. ASSUME NEW id \in walk.forged \cap walk.rows PROVE Complaints(bad)
  <2>1. ObjectVerdict(id) \in {"missing", "mismatches"}
    BY <1>3 DEF WalkInv, ForgedDiffers, Differs, ObjectVerdict
  <2>2. <<id, ObjectVerdict(id)>> \in bad
    BY <2>1
  <2> HIDE DEF bad
  <2>3. <<id, ObjectVerdict(id)>>[2] \notin {"no_commit", "no_source"}
    BY <2>1
  <2> QED
    BY <2>2, <2>3 DEF Complaints
<1>6. ASSUME walk.forged = {}, walk.plain PROVE bad = {}
  <2> SUFFICES ASSUME NEW id \in walk.rows PROVE ObjectVerdict(id) = "ok"
    OBVIOUS
  <2>1. id[1] \in SessionIds /\ id[2] \in 1..Len(versions[id[1]])
    <3>1. id \in SessionIds \X (1..MaxVersions) /\ id[2] <= Len(versions[id[1]])
      BY <1>3 DEF Recorded
    <3>2. id[1] \in SessionIds /\ id[2] \in 1..MaxVersions
      BY <3>1
    <3>3. Len(versions[id[1]]) \in Nat
      BY <3>2, LenProperties DEF WalkInv, WalkTypes
    <3> QED
      BY <3>1, <3>2, <3>3 DEF WalkAssumption
  <2>2. Honest(id[1], VersionAt(id))
    BY <1>6, <2>1 DEF WalkInv, AllHonest, VersionAt
  <2>3. objects[id[1]].content # 0 /\ VersionAt(id).content = objects[id[1]].content
    BY <1>3, <2>2 DEF Honest
  <2>4. objects[id[1]].there
    BY <1>6, <2>1, <2>3 DEF WalkInv, ObjectsThere
  <2> QED
    BY <2>3, <2>4 DEF ObjectVerdict
<1>7. walk.forged = {} /\ walk.plain => ~Complaints(bad)
  BY <1>6 DEF Complaints
<1> HIDE DEF bad
<1> QED
  BY <1>1, <1>4, <1>5, <1>7, LookKeeps

\* The rows of the repository's versions: in an even walk its window is the
\* same, for then every session has a version.
LEMMA RepositoryRowsKeep ==
  ASSUME WalkAssumption, WalkInv, ReadRepositoryVersions PROVE WalkInv'
<1> DEFINE listed == {s \in sessions : Ahead(s)}
           read == {id \in Recorded : id[1] \in FirstOf(listed) /\ IsRepositoryImport(id)}
<1>1. walk.pc = "repository" /\ Beside' = Beside
      /\ walk' = [walk EXCEPT !.pc = "files", !.source = source, !.rows = read]
  BY DEF ReadRepositoryVersions, Beside
<1>2. walk \in WalkRow /\ source \in SourceRow /\ read \subseteq Recorded /\ Recorded \subseteq VersionIds
  BY DEF WalkInv, WalkTypes, Recorded, VersionIds, WalkAssumption
<1>3. \A id \in read : FromRepository(VersionAt(id))
  BY DEF IsRepositoryImport
<1>4. walk.even => listed = Histories
  BY <1>1 DEF WalkInv, WalkTypes, SessionsHave, Histories
<1>5. ASSUME walk.even, NEW id \in Due, id[1] \in Window, FromRepository(VersionAt(id)) PROVE id \in read
  <2>1. id \in Recorded /\ VersionAt(id).commit # NoCommit
    BY <1>5, DueAre DEF FromStore, FromRepository
  <2>2. id[1] \in FirstOf(listed)
    BY <1>4, <1>5 DEF Window
  <2> HIDE DEF listed
  <2> QED
    BY <1>5, <2>1, <2>2 DEF IsRepositoryImport
<1> HIDE DEF read
<1>6. walk' \in WalkRow
  BY <1>1, <1>2 DEF WalkRow
<1>7. /\ walk'.pc = "files" /\ walk'.next = walk.next /\ walk'.known = walk.known /\ walk'.even = walk.even
      /\ walk'.found = walk.found /\ walk'.seen = walk.seen /\ walk'.after = walk.after /\ walk'.rows = read
      /\ walk'.forged = walk.forged /\ walk'.plain = walk.plain /\ walk'.source = source
  BY <1>1, <1>2 DEF WalkRow
<1>8. walk'.even => \A s \in sessions : versions[s] # <<>>
  BY <1>1, <1>7 DEF WalkInv, SessionsHave
<1>9. WalkTypes' /\ SessionsHave' /\ ForgedDiffers' /\ AllHonest' /\ ObjectsThere'
  BY <1>1, <1>6, <1>7, <1>8, BesideStands
<1>10. Recorded' = Recorded /\ Due' = Due /\ Window' = Window /\ \A id : VersionAt(id)' = VersionAt(id)
  BY <1>1, <1>7, BesideSame
<1>11. NextIs' /\ ForgedFound' /\ HonestIsNotBroken'
  BY <1>1, <1>7, <1>10 DEF WalkInv, NextIs, ForgedFound, HonestIsNotBroken, Broken
<1>12. RowsAre'
  BY <1>1, <1>2, <1>3, <1>7, <1>10 DEF WalkInv, RowsAre, FromRepository
<1>13. Covered'
  <2> SUFFICES ASSUME walk.even, NEW id \in Due
               PROVE  /\ id[1] <= walk.after => id \in walk.seen
                      /\ id[1] \in Window => SeenInWindow(id)'
    BY <1>7, <1>10 DEF Covered
  <2>1. /\ id[1] <= walk.after => id \in walk.seen
        /\ id[1] \in Window => SeenInWindow(id)
    BY DEF WalkInv, Covered
  <2>2. ASSUME id[1] \in Window PROVE SeenInWindow(id)'
    BY <1>1, <1>5, <1>7, <1>10, <2>1, <2>2 DEF SeenInWindow, FromStore, FromRepository
  <2> QED
    BY <2>1, <2>2
<1> QED
  BY <1>9, <1>11, <1>12, <1>13 DEF WalkInv

\* A row read is one of a version of its session.
LEMMA ReadRowsAre ==
  ASSUME WalkAssumption, WalkInv, NEW id \in Recorded
  PROVE  /\ id \in VersionIds /\ id[1] \in SessionIds /\ id[2] \in 1..Len(versions[id[1]])
         /\ VersionAt(id) \in VersionRow /\ VersionAt(id).commit \in Nat
<1>1. id \in SessionIds \X (1..MaxVersions) /\ id[2] <= Len(versions[id[1]])
  BY DEF Recorded
<1>2. id[1] \in SessionIds /\ id[2] \in 1..MaxVersions /\ id \in VersionIds
  BY <1>1 DEF WalkAssumption, VersionIds
<1>3. Len(versions[id[1]]) \in Nat
  BY <1>2, LenProperties DEF WalkInv, WalkTypes
<1>4. id[2] \in 1..Len(versions[id[1]])
  BY <1>1, <1>2, <1>3 DEF WalkAssumption
<1> QED
  BY <1>2, <1>4, VersionsAre DEF WalkInv

\* The repository's files, each at the commit its version names.
LEMMA FilesLookKeep ==
  ASSUME WalkAssumption, WalkInv, ReadFiles PROVE WalkInv'
<1> DEFINE bad == {<<id, FileVerdict(id)>> : id \in {r \in walk.rows : FileVerdict(r) # "ok"}}
<1>1. walk.pc = "files" /\ Beside' = Beside /\ Looks(bad, "answer")
  BY DEF ReadFiles, Beside, Checked, Looks
<1>2. \A id : FileVerdict(id) \in {"mismatches", "missing_commit", "no_commit", "no_source", "missing", "ok"}
  BY DEF FileVerdict
<1>3. \A id \in walk.rows : id \in Recorded /\ id \in VersionIds /\ FromRepository(VersionAt(id))
  BY <1>1 DEF WalkInv, RowsAre, WalkTypes, WalkRow
<1>4. bad \in SUBSET (VersionIds \X Verdicts)
  <2>1. \A r \in walk.rows : r \in VersionIds /\ FileVerdict(r) \in Verdicts
    BY <1>2, <1>3 DEF Verdicts
  <2>2. \A r \in walk.rows : <<r, FileVerdict(r)>> \in VersionIds \X Verdicts
    BY <2>1
  <2> QED
    BY <2>2, Zenon
<1>5. ASSUME NEW id \in walk.forged \cap walk.rows, id \in Due PROVE Complaints(bad)
  <2>1. VersionAt(id).commit # NoCommit /\ FromRepository(VersionAt(id))
    BY <1>3, <1>5, DueAre DEF FromStore, FromRepository
  <2>2. /\ walk.source.configured /\ VersionAt(id).commit <= Tip
        /\ trees[VersionAt(id).commit][id[1]] # VersionAt(id).content
    BY <1>1, <2>1 DEF WalkInv, ForgedDiffers, Differs
  <2>3. VersionAt(id).commit \in Nat /\ Tip \in Nat
    BY <1>3, ReadRowsAre, LenProperties DEF WalkInv, WalkTypes, Tip
  <2>4. AtCommit(id) # VersionAt(id).content
    BY <2>2, <2>3 DEF AtCommit
  <2>5. FileVerdict(id) \in {"missing", "mismatches"}
    BY <2>1, <2>2, <2>4 DEF FileVerdict
  <2>6. <<id, FileVerdict(id)>> \in bad
    BY <2>5
  <2> HIDE DEF bad
  <2>7. <<id, FileVerdict(id)>>[2] \notin {"no_commit", "no_source"}
    BY <2>5
  <2> QED
    BY <2>6, <2>7 DEF Complaints
<1>6. ASSUME walk.forged = {}, walk.plain, NEW id \in walk.rows PROVE FileVerdict(id) \in {"no_commit", "no_source", "ok"}
  <2> DEFINE x == VersionAt(id)
  <2>1. id[1] \in SessionIds /\ id[2] \in 1..Len(versions[id[1]]) /\ x.commit \in Nat /\ Tip \in Nat
    BY <1>3, ReadRowsAre, LenProperties DEF WalkInv, WalkTypes, Tip
  <2>2. Honest(id[1], x) /\ FromRepository(x)
    BY <1>3, <1>6, <2>1 DEF WalkInv, AllHonest, VersionAt
  <2>3. walk.source.mapped
    BY <1>6 DEF WalkInv, ObjectsThere
  <2> HIDE DEF x
  <2>4. x.commit = NoCommit => ~x.strict
    BY <2>2 DEF Honest
  <2>5. x.commit # NoCommit => x.commit <= Tip /\ x.content # 0 /\ x.content = trees[x.commit][id[1]]
    BY <2>2 DEF Honest
  <2>6. x.commit # NoCommit => AtCommit(id) = x.content /\ x.content # 0
    BY <2>1, <2>5 DEF AtCommit, x
  <2> QED
    BY <2>3, <2>4, <2>6 DEF FileVerdict, x
<1>7. walk.forged = {} /\ walk.plain => ~Complaints(bad)
  <2> SUFFICES ASSUME walk.forged = {}, walk.plain, NEW f \in bad PROVE f[2] \in {"no_commit", "no_source"}
    BY DEF Complaints
  <2>1. PICK id \in walk.rows : f = <<id, FileVerdict(id)>> /\ FileVerdict(id) # "ok"
    OBVIOUS
  <2> QED
    BY <1>6, <2>1
<1> HIDE DEF bad
<1> QED
  BY <1>1, <1>4, <1>5, <1>7, LookKeeps

\* The next request goes on behind the window, or the walk is done.
LEMMA AnswerKeeps ==
  ASSUME WalkAssumption, WalkInv, Answer PROVE WalkInv'
<1>1. /\ walk.pc = "answer" /\ Beside' = Beside
      /\ walk' = IF walk.next = 0 THEN [walk EXCEPT !.pc = "done"]
                 ELSE [walk EXCEPT !.pc = "history", !.after = walk.next]
  BY DEF Answer, Beside
<1>2. walk \in WalkRow
  BY DEF WalkInv, WalkTypes
<1>3. walk' \in WalkRow
  BY <1>1, <1>2 DEF WalkRow
<1>4. /\ walk'.pc = (IF walk.next = 0 THEN "done" ELSE "history")
      /\ walk'.after = (IF walk.next = 0 THEN walk.after ELSE walk.next)
      /\ walk'.known = walk.known /\ walk'.even = walk.even /\ walk'.found = walk.found /\ walk'.seen = walk.seen
      /\ walk'.forged = walk.forged /\ walk'.plain = walk.plain /\ walk'.source = walk.source
  BY <1>1, <1>2 DEF WalkRow
<1>5. walk'.even => \A s \in sessions : versions[s] # <<>>
  BY <1>1, <1>4 DEF WalkInv, SessionsHave
<1>6. WalkTypes' /\ SessionsHave' /\ ForgedDiffers' /\ AllHonest' /\ ObjectsThere'
  BY <1>1, <1>3, <1>4, <1>5, BesideStands
<1>7. Recorded' = Recorded /\ Due' = Due /\ \A id : VersionAt(id)' = VersionAt(id)
  BY <1>1, <1>4, BesideSame
<1>8. NextIs' /\ RowsAre'
  BY <1>1, <1>4, <1>7 DEF WalkInv, NextIs, RowsAre
<1>9. ForgedFound' /\ HonestIsNotBroken'
  BY <1>4, <1>7 DEF WalkInv, ForgedFound, HonestIsNotBroken, Broken
<1>10. ASSUME walk.even, NEW id \in Due, id[1] <= walk.after \/ id[1] \in Window PROVE id \in walk.seen
  <2>1. /\ id[1] <= walk.after => id \in walk.seen
        /\ id[1] \in Window => SeenInWindow(id)
    BY <1>10 DEF WalkInv, Covered
  <2>2. SeenInWindow(id) => id \in walk.seen
    BY <1>1, DueAre DEF SeenInWindow
  <2> QED
    BY <1>10, <2>1, <2>2
<1>11. ASSUME walk.even, NEW id \in Due, walk.next = 0 \/ id[1] <= walk.next PROVE id \in walk.seen
  <2>1. walk.next = NextOf(Window)
    BY <1>1, <1>11 DEF WalkInv, NextIs
  <2>2. id[1] \in Nat /\ walk.after \in Nat /\ (id[1] \in Histories <=> id[1] > walk.after)
    BY <1>2, DueAre DEF WalkRow
  <2>3. CASE id[1] <= walk.after
    BY <1>10, <1>11, <2>3
  <2>4. CASE id[1] > walk.after
    <3>1. id[1] \in Histories
      BY <2>2, <2>4
    <3>2. CASE walk.next = 0
      BY <1>10, <1>11, <2>1, <3>1, <3>2, WindowIs
    <3>3. CASE walk.next # 0
      <4>1. walk.next \in Window /\ Histories \in SUBSET SessionIds
        BY <2>1, <3>3, WindowIs
      <4>2. id[1] \in Window
        BY <1>11, <3>1, <3>3, <4>1, FirstOfBefore DEF Window
      <4> QED
        BY <1>10, <1>11, <4>2
    <3> QED
      BY <3>2, <3>3
  <2> QED
    BY <2>2, <2>3, <2>4
<1>12. Covered'
  <2> SUFFICES ASSUME walk.even, NEW id \in Due
               PROVE  /\ id[1] <= walk'.after => id \in walk.seen
                      /\ id[1] \in Window' => SeenInWindow(id)'
                      /\ walk'.pc = "done" => id \in walk.seen
    BY <1>4, <1>7 DEF Covered
  <2>1. CASE walk.next = 0
    <3>1. id \in walk.seen /\ walk'.pc = "done"
      BY <1>4, <1>11, <2>1
    <3> QED
      BY <3>1 DEF SeenInWindow
  <2>2. CASE walk.next # 0
    <3>1. walk'.pc = "history" /\ (id[1] <= walk'.after => id \in walk.seen)
      BY <1>4, <1>11, <2>2
    <3> QED
      BY <3>1 DEF SeenInWindow
  <2> QED
    BY <2>1, <2>2
<1> QED
  BY <1>6, <1>8, <1>9, <1>12 DEF WalkInv

\* Every step keeps it.
LEMMA WalkKeeps ==
  ASSUME WalkAssumption, WalkInv, [WalkNext]_walkVars PROVE WalkInv'
<1>1. CASE \E s \in SessionIds : CommitFile(s) \/ PutObject(s) \/ UploadLog(s)
                                 \/ EraseObject(s) \/ SyncFile(s) \/ ImportDirectory(s) \/ ImportObject(s)
  BY <1>1, CommitKeeps, PutKeeps, EraseKeeps, ImportsKeep
<1>2. CASE \E s \in SessionIds, o \in {"repository", "store"}, k \in 0 .. Tip, c \in 1 .. MaxChanges : Forge(s, o, k, c)
  BY <1>2, ForgeKeeps
<1>3. CASE ConfigureSource \/ RemapSource
  BY <1>3, SourceKeeps
<1>4. CASE BeginWalk \/ CheckHistories \/ ReadStoreVersions
  BY <1>4, BeginKeeps, HistoriesKeep, StoreRowsKeep
<1>5. CASE ReadObjects \/ ReadRepositoryVersions \/ ReadFiles \/ Answer
  BY <1>5, ObjectsKeep, RepositoryRowsKeep, FilesLookKeep, AnswerKeeps
<1>6. CASE UNCHANGED walkVars
  <2>1. trees' = trees /\ objects' = objects /\ sessions' = sessions /\ versions' = versions /\ source' = source /\ walk' = walk
    BY <1>6 DEF walkVars
  <2>2. walk' \in WalkRow /\ SessionsHave' /\ NextIs' /\ Covered' /\ RowsAre' /\ ForgedFound' /\ (Broken' <=> Broken)
    BY <2>1, WalkStands
  <2>3. walk.pc # "idle" /\ walk.even => \A s \in sessions : versions[s] # <<>>
    BY DEF WalkInv, SessionsHave
  <2>4. WalkTypes'
    BY <2>1 DEF WalkInv, WalkTypes
  <2>5. Tip' \in Nat /\ Tip <= Tip' /\ \A k \in 1..Tip : trees'[k] = trees[k]
    BY <2>1, LenProperties DEF WalkInv, WalkTypes, Tip
  <2>6. ForgedDiffers' /\ AllHonest'
    BY <2>1, <2>5, FilesKeep, Zenon
  <2>7. ObjectsThere' /\ HonestIsNotBroken'
    BY <2>1, <2>2 DEF WalkInv, ObjectsThere, HonestIsNotBroken
  <2> QED
    BY <2>2, <2>4, <2>6, <2>7 DEF WalkInv
<1> QED
  BY <1>1, <1>2, <1>3, <1>4, <1>5, <1>6 DEF WalkNext

\* A walk of slices followed to its end has looked at every version that was
\* recorded when it began and names a file or an object, and calls the log
\* broken when one of them is forged, whatever is imported meanwhile as long as
\* every session has and keeps a version; and it never calls honest imports
\* broken while the store and the mapping stay. For any sessions, slices,
\* commits and orders.
THEOREM WalksReachAll ==
  ASSUME WalkAssumption PROVE WalkSpec => []WalkIsTrue
<1>1. WalkInit => WalkInv
  BY WalkStarts
<1>2. WalkInv /\ [WalkNext]_walkVars => WalkInv'
  BY WalkKeeps
<1>3. WalkInv => WalkIsTrue
  <2>1. ASSUME WalkInv, walk.pc = "done", walk.even PROVE Due \subseteq walk.seen
    BY <2>1 DEF WalkInv, Covered
  <2>2. ASSUME WalkInv, walk.pc = "done", walk.even, walk.forged \cap Due # {} PROVE Broken
    BY <2>1, <2>2 DEF WalkInv, ForgedFound
  <2> QED
    BY <2>1, <2>2 DEF WalkIsTrue, WalkReachesAll, WalkInv
<1> QED
  BY <1>1, <1>2, <1>3, PTL DEF WalkSpec
=============================================================================
