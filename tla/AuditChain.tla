----------------------------- MODULE AuditChain -----------------------------
(***************************************************************************)
(* The audit log's hash chain (migrations/versions/016_audit_log_v2.py and *)
(* app/services/audit_chain.py): transactions that append to it, before    *)
(* and after migration 016, the anchor that starts a chain over, damage    *)
(* done to it below the application, and a verification that reads it in   *)
(* chunks and slices while it grows.                                       *)
(*                                                                         *)
(* A row's hash covers its content and its previous hash, so that rows     *)
(* have different hashes: the hash of a row is its id here.                *)
(***************************************************************************)
EXTENDS Integers, FiniteSets

CONSTANTS Writers,    \* database transactions that write audited tables
          NoWriter,
          Genesis,    \* the previous hash of the first row: zeros
          Archived,   \* the final hash of an archived chain
          MaxId,      \* bound on the ids given out
          MaxDamage,  \* bound on the rows altered or removed
          SliceRows,  \* max_rows of one call of the verification
          ChunkRows   \* rows one query of it reads

ASSUME AuditAssumption ==
    /\ MaxId \in Nat /\ MaxDamage \in Nat
    /\ SliceRows \in Nat \ {0} /\ ChunkRows \in Nat \ {0}
    /\ Genesis \notin 1..MaxId /\ Archived \notin 1..MaxId /\ Genesis # Archived
    /\ NoWriter \notin Writers

VARIABLES
    log,       \* audit_log: the committed rows
    nextId,    \* the sequence of ids, which a rollback does not give back
    schema,    \* the trigger in force: 1 before migration 016, 2 since
    lock,      \* the holder of the chain's transaction lock
    phase,     \* of each writer: no transaction, in one, about to insert
    pending,   \* the rows its transaction inserted
    head,      \* the previous hash its trigger read
    damage,    \* the ids altered and the rows removed below the application
    v          \* the verification

chain == <<log, nextId, schema, lock, phase, pending, head>>
vars == <<chain, damage, v>>

Ids == 1..MaxId
Hashes == Ids \cup {Genesis, Archived}
Rows == [id : Ids, version : {1, 2}, prev : Hashes]

Lost == damage.altered \cup {r.id : r \in damage.removed}

Known == log \cup damage.removed   \* every row that was ever committed

Idle == [pc |-> "idle", after |-> 0, expected |-> Genesis, read |-> 0,
         mislinked |-> {}, altered |-> {}, verdict |-> "valid",
         before |-> {}, during |-> FALSE]

TypeOK ==
    /\ log \subseteq Rows
    /\ nextId \in 1..(MaxId + 1)
    /\ schema \in {1, 2}
    /\ lock \in Writers \cup {NoWriter}
    /\ phase \in [Writers -> {"none", "open", "inserting"}]
    /\ pending \in [Writers -> SUBSET Rows]
    /\ head \in [Writers -> Hashes]

Init ==
    /\ log = {} /\ nextId = 1 /\ schema \in {1, 2} /\ lock = NoWriter
    /\ phase = [w \in Writers |-> "none"]
    /\ pending = [w \in Writers |-> {}]
    /\ head = [w \in Writers |-> Genesis]
    /\ damage = [removed |-> {}, altered |-> {}]
    /\ v = Idle

-----------------------------------------------------------------------------
(* Writing.                                                                *)

\* The newest row's hash, genesis when there is none.
LastHash(rows) ==
    IF rows = {} THEN Genesis
    ELSE (CHOOSE r \in rows : \A s \in rows : s.id <= r.id).id

\* What a statement of w sees: what is committed now, and its own rows.
Visible(w) == log \cup pending[w]

\* Mutant: statements do not take the lock.
BeginUnlocked(w) ==
    /\ phase[w] = "none"
    /\ phase' = [phase EXCEPT ![w] = "open"]
    /\ UNCHANGED <<log, nextId, schema, lock, pending, head, damage, v>>

\* The first audited statement: since 016 its trigger waits for the lock,
\* which the transaction then keeps.
Begin(w) ==
    /\ phase[w] = "none"
    /\ schema = 2 => lock = NoWriter
    /\ lock' = IF schema = 2 THEN w ELSE lock
    /\ phase' = [phase EXCEPT ![w] = "open"]
    /\ UNCHANGED <<log, nextId, schema, pending, head, damage, v>>

\* The row trigger reads the head of the chain.  A change of bookkeeping
\* columns only stops before it.
ReadHead(w) ==
    /\ phase[w] = "open"
    /\ phase' = [phase EXCEPT ![w] = "inserting"]
    /\ head' = [head EXCEPT ![w] = LastHash(Visible(w))]
    /\ UNCHANGED <<log, nextId, schema, lock, pending, damage, v>>

InsertRow(w) ==
    /\ phase[w] = "inserting" /\ nextId <= MaxId
    /\ pending' = [pending EXCEPT ![w] =
           @ \cup {[id |-> nextId, version |-> schema, prev |-> head[w]]}]
    /\ nextId' = nextId + 1
    /\ phase' = [phase EXCEPT ![w] = "open"]
    /\ head' = [head EXCEPT ![w] = Genesis]
    /\ UNCHANGED <<log, schema, lock, damage, v>>

\* audit_log_insert_anchor: the chain continues an archived one.  It refuses
\* a log that holds a row, once it has the lock.
InsertAnchor(w) ==
    /\ schema = 2 /\ phase[w] = "none" /\ lock = NoWriter /\ nextId <= MaxId
    /\ log = {}
    /\ lock' = w
    /\ pending' = [pending EXCEPT ![w] = {[id |-> nextId, version |-> 2, prev |-> Archived]}]
    /\ nextId' = nextId + 1
    /\ phase' = [phase EXCEPT ![w] = "open"]
    /\ UNCHANGED <<log, schema, head, damage, v>>

End(w) ==
    /\ phase[w] # "none"
    /\ phase' = [phase EXCEPT ![w] = "none"]
    /\ pending' = [pending EXCEPT ![w] = {}]
    /\ head' = [head EXCEPT ![w] = Genesis]
    /\ lock' = IF lock = w THEN NoWriter ELSE lock
    /\ UNCHANGED <<nextId, schema, damage, v>>

Commit(w) == phase[w] = "open" /\ log' = log \cup pending[w] /\ End(w)

Rollback(w) == log' = log /\ End(w)

\* Mutant: the triggers are replaced under open transactions.
UpgradeAtOnce ==
    /\ schema = 1
    /\ schema' = 2
    /\ UNCHANGED <<log, nextId, lock, phase, pending, head, damage, v>>

\* Migration 016 replaces the triggers: CREATE TRIGGER waits for every
\* transaction that wrote the table.
Upgrade ==
    /\ schema = 1 /\ \A w \in Writers : phase[w] = "none"
    /\ schema' = 2
    /\ UNCHANGED <<log, nextId, lock, phase, pending, head, damage, v>>

-----------------------------------------------------------------------------
(* Damage below the application: a row altered, or one removed that is not *)
(* the last (the log's tail is the witness's concern: AuditWitness).       *)

AlterRow(r) ==
    /\ UNCHANGED log
    /\ damage' = [damage EXCEPT !.altered = @ \cup {r.id}]

RemoveRow(r) ==
    /\ \E s \in log : s.id > r.id
    /\ log' = log \ {r}
    /\ damage' = [damage EXCEPT !.removed = @ \cup {r}]

Damage ==
    /\ Cardinality(Lost) < MaxDamage
    /\ \E r \in log : AlterRow(r) \/ RemoveRow(r)
    /\ v' = [v EXCEPT !.during = v.pc # "idle"]
    /\ UNCHANGED <<nextId, schema, lock, phase, pending, head>>

-----------------------------------------------------------------------------
(* Verification.                                                           *)

FirstRow == CHOOSE r \in log : \A s \in log : r.id <= s.id

\* find_chain_start: an anchor's own previous hash, or genesis.
IsAnchor(r) == r.prev = Archived

Start ==
    /\ v.pc = "idle" /\ log # {} /\ schema = 2
    /\ v' = [Idle EXCEPT !.pc = "reading", !.before = Lost, !.after = FirstRow.id - 1,
                  !.expected = IF IsAnchor(FirstRow) THEN FirstRow.prev ELSE Genesis]
    /\ UNCHANGED <<chain, damage>>

After(n) == {r \in log : r.id > n}

\* The earliest of the rows, at most as many as the limit.
Earliest(rows, limit) == {r \in rows : Cardinality({s \in rows : s.id < r.id}) < limit}

NextRows ==
    LET left == SliceRows - v.read
    IN  Earliest(After(v.after), IF ChunkRows < left THEN ChunkRows ELSE left)

\* Mutant: each query's first row is taken as it comes.
ExpectedPerQuery(r, rows) ==
    LET before == {s \in rows : s.id < r.id}
    IN  IF before = {} THEN r.prev ELSE LastHash(before)

\* The hash a row must be linked to, across queries and slices.
Expected(r, rows) ==
    LET before == {s \in rows : s.id < r.id}
    IN  IF before = {} THEN v.expected ELSE LastHash(before)

\* One query of verify_chain's loop, and the comparison of the rows it gave.
\* What comes next is after, and linked to, the last of them.
ReadChunk ==
    /\ v.pc = "reading" /\ v.read < SliceRows
    /\ NextRows # {}
    /\ v' = [v EXCEPT
          !.read = @ + Cardinality(NextRows),
          !.after = LastHash(NextRows), !.expected = LastHash(NextRows),
          !.mislinked = @ \cup {r \in NextRows : r.prev # Expected(r, NextRows)},
          !.altered = @ \cup ({r.id : r \in NextRows} \cap damage.altered)]
    /\ UNCHANGED <<chain, damage>>

\* first_serialized_id
Serialized(r) == \E s \in log : s.version = 2 /\ s.id < r.id

Roots == {Genesis} \cup (IF IsAnchor(FirstRow) THEN {Archived} ELSE {})

\* Mutant: any mislinked row is a break.
NeverFork(r) == FALSE

\* classify_links: a row of the old trigger that another write overtook.
Fork(r) ==
    /\ ~Serialized(r)
    /\ r.prev \in Roots \/ \E s \in log : s.id = r.prev /\ s.id < r.id

Worse(x, y) == IF "broken" \in {x, y} THEN "broken"
               ELSE IF "intact_with_forks" \in {x, y} THEN "intact_with_forks" ELSE "valid"

SliceVerdict ==
    IF v.altered # {} \/ \E r \in v.mislinked : ~Fork(r) THEN "broken"
    ELSE IF v.mislinked # {} THEN "intact_with_forks" ELSE "valid"

\* The end of a slice: the mislinked rows are classified, and the caller gets
\* where to continue (next_after_id and expected_previous_hash).
EndSlice ==
    /\ v.pc = "reading"
    /\ v.read >= SliceRows \/ After(v.after) = {}
    /\ v' = [v EXCEPT !.verdict = Worse(@, SliceVerdict),
                      !.pc = IF After(v.after) = {} THEN "done" ELSE "reading",
                      !.read = 0, !.mislinked = {}, !.altered = {}]
    /\ UNCHANGED <<chain, damage>>

Restart == v.pc = "done" /\ v' = Idle /\ UNCHANGED <<chain, damage>>

-----------------------------------------------------------------------------

Next ==
    \/ \E w \in Writers :
          \/ Begin(w) \/ ReadHead(w) \/ InsertRow(w) \/ InsertAnchor(w)
          \/ Commit(w) \/ Rollback(w)
    \/ Upgrade
    \/ Damage
    \/ Start \/ ReadChunk \/ EndSlice \/ Restart

Spec == Init /\ [][Next]_vars

-----------------------------------------------------------------------------
(* Properties.                                                             *)

Earlier(r) == {s \in Known : s.id < r.id}

\* Since migration 016 a row is linked to the row committed before it,
\* whatever transactions overlap: no link is left out or taken twice; an anchor
\* is the first row of its log, whatever was open when it was inserted.
OneChain ==
    \A r \in Known :
        /\ IsAnchor(r) => Earlier(r) = {}
        /\ r.version = 2 => r.prev = IF IsAnchor(r) THEN Archived ELSE LastHash(Earlier(r))

\* Rows of the old trigger that a concurrent write overtook.
Raced == {r \in Known : r.version = 1 /\ r.prev # LastHash(Earlier(r))}

\* A verification of a log nobody damaged never calls it broken, however the
\* log grows between its queries, and reports forks only where the trigger
\* before migration 016 let two writes read one head.
NoFalseAlarm ==
    v.pc = "done" /\ v.before = {} /\ ~v.during =>
        /\ v.verdict # "broken"
        /\ v.verdict = "intact_with_forks" <=> Raced # {}

\* A verification that starts after a row was altered, or after a row was
\* removed that another one is linked to, reports the log broken.
DamageFound ==
    v.pc = "done" /\ ~v.during
    /\ (\/ \E r \in log : r.id \in v.before \cap damage.altered
        \/ \E r \in log, s \in damage.removed : r.prev = s.id /\ s.id \in v.before) =>
        v.verdict = "broken"

-----------------------------------------------------------------------------
(* The chain since migration 016 implements the ledger.                    *)

Entry(r) == [hash |-> r.id, prev |-> r.prev]

\* The row that n rows precede.
Nth(rows, n) == CHOOSE r \in rows : Cardinality({s \in rows : s.id < r.id}) = n

New(rows) == {r \in rows : r.version = 2}

InOrder(rows) == [i \in 1..Cardinality(rows) |-> Entry(Nth(rows, i - 1))]

SerializedRows == InOrder(New(Known))

Ledger == INSTANCE AuditLedger WITH ledger <- SerializedRows

\* The rows that transactions commit since migration 016 form the ledger.
ImplementsLedger == Ledger!Spec
==============================================================================
