------------------------------ MODULE ImportSlots ------------------------------
(***************************************************************************)
(* What a transcript import waits for: room for its bytes in the server    *)
(* process's import budget (ImportBudget, import_slot), its session's lock *)
(* and, once it writes audited rows, the audit chain's lock                *)
(* (evidence_import_decision_logs.py).  Uploads do not wait for room       *)
(* (routes/api.py), the synchronisations and the store's checks do; the    *)
(* command line's directory import, alone in its process, waits for the    *)
(* locks only and commits after it left its slot.                          *)
(***************************************************************************)
EXTENDS Integers, Sequences, FiniteSets

CONSTANTS Importers, Sessions,
          Sizes,                 \* the sizes transcripts have, or Unknown
          MinCharge, MaxBytes,   \* MIN_IMPORT_CHARGE, MAX_TRANSCRIPT_BYTES
          Capacity,              \* IMPORT_BYTE_BUDGET
          Unknown, NoOne

Imported == {r \in [kind : {"upload", "sync", "check", "directory"}, session : Sessions,
                    charge : 0..MaxBytes, audited : BOOLEAN, at : {"queued", "slot", "leaving"}] :
                r.kind = "directory" => r.charge = 0}

\* A transcript of any size that is stored fits the budget.
SlotsAssumption ==
    /\ IsFiniteSet(Importers) /\ NoOne \notin Importers \cup Imported
    /\ Sizes \ {Unknown} \subseteq Nat /\ Unknown \notin Nat
    /\ MinCharge \in Nat /\ MaxBytes \in Nat /\ Capacity \in Nat
    /\ MinCharge <= MaxBytes /\ MaxBytes <= Capacity

VARIABLES
    used,      \* bytes of the budget taken
    line,      \* the imports that wait for room, first come first
    asleep,    \* those of them nothing has woken since they last looked
    imports,   \* [importer -> its import or NoOne]
    sessions,  \* [session -> the importer that holds its lock, or NoOne]
    chain      \* who holds the audit chain's lock

slotVars == <<used, line, asleep, imports, sessions, chain>>

SlotsInit ==
    /\ used = 0 /\ line = <<>> /\ asleep = {}
    /\ imports = [i \in Importers |-> NoOne]
    /\ sessions = [s \in Sessions |-> NoOne]
    /\ chain = NoOne

At(i) == IF imports[i] = NoOne THEN "idle" ELSE imports[i].at
MoveTo(i, at) == imports' = [imports EXCEPT ![i].at = at]

-----------------------------------------------------------------------------
(* Room in the budget.                                                     *)

Charge(size) == IF size = Unknown THEN MaxBytes
                ELSE CHOOSE c \in MinCharge..MaxBytes : \/ c = size
                                                        \/ size < MinCharge /\ c = MinCharge
                                                        \/ size > MaxBytes /\ c = MaxBytes

Fits(charge) == used + charge <= Capacity

\* An import: what it turns out to write is audited, or it stores nothing new.
Import(kind, session, charge, audited, at) ==
    [kind |-> kind, session |-> session, charge |-> charge, audited |-> audited, at |-> at]

\* An import that may wait gets room at once only when nobody waits for it.
Acquire(i, kind, session, charge) ==
    /\ At(i) = "idle"
    /\ LET now == line = <<>> /\ Fits(charge)
       IN  /\ kind = "upload" => now     \* else it is told to come again
           /\ \E audited \in BOOLEAN :
                 imports' = [imports EXCEPT ![i] = Import(kind, session, charge, audited,
                                                          IF now THEN "slot" ELSE "queued")]
           /\ IF now THEN used' = used + charge /\ UNCHANGED <<line, asleep>>
              ELSE line' = Append(line, i) /\ asleep' = asleep \cup {i} /\ UNCHANGED used
    /\ UNCHANGED <<sessions, chain>>

\* An upload names its length, or none; a longer one than the limit is refused.
BeginUpload(i, session, size) ==
    /\ size # Unknown => size <= MaxBytes
    /\ Acquire(i, "upload", session, Charge(size))

\* A version of the evidence store, a file of a git source (whatever its size).
BeginStoreVersion(i, session, size) ==
    /\ size # Unknown /\ size <= MaxBytes
    /\ Acquire(i, "sync", session, Charge(size))
BeginGitFile(i, session) == Acquire(i, "sync", session, Charge(Unknown))

\* The store's checks read a transcript and write nothing.
BeginCheck(i, session, size) ==
    /\ size # Unknown
    /\ Acquire(i, "check", session, Charge(size))

BeginDirectoryFile(i, session, size) ==
    /\ At(i) = "idle" /\ size # Unknown /\ size <= MaxBytes
    /\ \A j \in Importers : At(j) # "idle" => imports[j].kind # "directory"
    /\ \E audited \in BOOLEAN :
          imports' = [imports EXCEPT ![i] = Import("directory", session, 0, audited, "slot")]
    /\ UNCHANGED <<used, line, asleep, sessions, chain>>

\* A woken import looks whether its turn has come, else it waits on.
LookAgain(i) ==
    /\ At(i) = "queued" /\ i \notin asleep
    /\ IF Head(line) = i /\ Fits(imports[i].charge)
       THEN /\ used' = used + imports[i].charge
            /\ line' = Tail(line) /\ asleep' = {}
            /\ MoveTo(i, "slot")
       ELSE asleep' = asleep \cup {i} /\ UNCHANGED <<used, line, imports>>
    /\ UNCHANGED <<sessions, chain>>

Release(i) ==
    /\ At(i) = "leaving"
    /\ used' = used - imports[i].charge /\ asleep' = {}
    /\ imports' = [imports EXCEPT ![i] = NoOne]
    /\ UNCHANGED <<line, sessions, chain>>

-----------------------------------------------------------------------------
(* The locks of its transaction.                                           *)

\* Mutant: a synchronisation writes its own record, an audited row, first.
RecordFirst(kind) == IF kind = "sync" THEN <<"chain", "session">> ELSE <<"session", "chain">>

\* The session's lock comes before any other write, the entries before the
\* audited rows.
LockOrder(kind) == <<"session", "chain">>

Holds(i) == {lock \in {"session", "chain"} :
                IF lock = "chain" THEN chain = i ELSE sessions[imports[i].session] = i}
Needs(i) == IF imports[i].kind = "check" THEN <<>>
            ELSE IF imports[i].audited THEN LockOrder(imports[i].kind) ELSE <<"session">>
Ready(i) == Cardinality(Holds(i)) = Len(Needs(i))
NextLock(i) == Needs(i)[Cardinality(Holds(i)) + 1]
Free(i, lock) == IF lock = "chain" THEN chain = NoOne ELSE sessions[imports[i].session] = NoOne

Lock(i) ==
    /\ At(i) = "slot" /\ ~Ready(i)
    /\ Free(i, NextLock(i))
    /\ IF NextLock(i) = "chain" THEN chain' = i /\ UNCHANGED sessions
       ELSE sessions' = [sessions EXCEPT ![imports[i].session] = i] /\ UNCHANGED chain
    /\ UNCHANGED <<used, line, asleep, imports>>

\* The end of its transaction, committed or rolled back, frees its locks.
Unlock(i) ==
    /\ sessions' = [s \in Sessions |-> IF sessions[s] = i THEN NoOne ELSE sessions[s]]
    /\ chain' = IF chain = i THEN NoOne ELSE chain

\* The directory's import is out of its slot by now.
Commit(i) ==
    /\ At(i) = "slot" /\ imports[i].kind # "check" /\ Ready(i)
    /\ Unlock(i)
    /\ imports' = IF imports[i].kind = "directory" THEN [imports EXCEPT ![i] = NoOne]
                  ELSE [imports EXCEPT ![i].at = "leaving"]
    /\ UNCHANGED <<used, line, asleep>>

EndCheck(i) ==
    /\ At(i) = "slot" /\ imports[i].kind = "check"
    /\ MoveTo(i, "leaving")
    /\ UNCHANGED <<used, line, asleep, sessions, chain>>

\* Unreadable, invalid or too long, or the database failed: nothing is stored.
Fail(i) ==
    /\ At(i) = "slot"
    /\ Unlock(i)
    /\ MoveTo(i, "leaving")
    /\ UNCHANGED <<used, line, asleep>>

SlotsNext ==
    \E i \in Importers :
       \/ \E s \in Sessions, size \in Sizes :
             \/ BeginUpload(i, s, size) \/ BeginStoreVersion(i, s, size) \/ BeginGitFile(i, s)
             \/ BeginCheck(i, s, size) \/ BeginDirectoryFile(i, s, size)
       \/ LookAgain(i) \/ Lock(i) \/ Commit(i) \/ EndCheck(i) \/ Fail(i) \/ Release(i)

SlotsSpec == SlotsInit /\ [][SlotsNext]_slotVars

-----------------------------------------------------------------------------
(* Properties.                                                             *)

Busy == {i \in Importers : At(i) # "idle"}

CanMove(i) == CASE At(i) = "queued" -> i \notin asleep
                [] At(i) = "slot" -> Ready(i) \/ Free(i, NextLock(i))
                [] OTHER -> TRUE

\* Imports never all wait, over room, session locks and the chain's lock, for
\* one another or for a wakeup nobody sends.
NoStandstill == Busy # {} => \E i \in Busy : CanMove(i)

\* A byte of the budget that an import with a slot has.
Taken == {b \in (Busy \ {i \in Importers : At(i) = "queued"}) \X (1..MaxBytes) : b[2] <= imports[b[1]].charge}

\* The bytes taken are those of the imports that hold a slot, and within the
\* budget: none is leaked by an import that fails.
RoomIsAccounted == used = Cardinality(Taken) /\ used <= Capacity

\* Imports go on, and the budget is theirs.
ImportsMove == NoStandstill /\ RoomIsAccounted
=============================================================================
