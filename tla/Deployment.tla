------------------------------ MODULE Deployment ------------------------------
(***************************************************************************)
(* Containers starting on one database (entrypoint.sh, cli/db_cmd.py,      *)
(* migrations/env.py, app/serving.py): each classifies the database's      *)
(* revision, takes the locks its pending revisions need without waiting    *)
(* for one, runs the revisions, gives the application role its privileges  *)
(* and serves, while containers that serve already write.  Tables and the  *)
(* audit chain's lock are numbered in the portal's writer order.           *)
(***************************************************************************)
EXTENDS Integers, Sequences, FiniteSets

CONSTANTS Containers,
          Newest,         \* the newest release's last revision
          Alters,         \* [revision -> the existing tables it alters]
          Creates,        \* [revision -> the tables it creates]
          WritesRows,     \* the revisions that write rows of audited tables
          AuditLog,       \* the table audit_log, last of the tables
          Transactions,   \* the portal's: tables written in turn
          MaxAttempts,    \* MIGRATION_ATTEMPTS
          Unplaced        \* a revision that is no release's

\* Tables are numbered up to the audit log; a transaction writes each once.
DeploymentAssumption ==
    /\ Newest \in Nat \ {0} /\ AuditLog \in Nat \ {0} /\ Unplaced \in Nat \ 0..Newest
    /\ Alters \in [1..Newest -> SUBSET (1..AuditLog)]
    /\ Creates \in [1..Newest -> SUBSET (1..AuditLog)]
    /\ \A written \in Transactions :
          /\ written \in Seq(1..(AuditLog - 1)) /\ written # <<>>
          /\ \A i, j \in DOMAIN written : written[i] = written[j] => i = j

VARIABLES
    HeadOf,    \* [container -> the last revision its image knows]
    revision,  \* alembic_version: 0 when the database is empty
    tables,    \* the tables there are
    mayWrite,  \* the tables the application role may write
    procs,     \* [container -> where it is, the locks it means to take, ...]
    holds,     \* [container -> the locks its transaction holds]
    waits      \* [container -> the lock it waits for, or 0]

deployVars == <<HeadOf, revision, tables, mayWrite, procs, holds, waits>>

Chain == AuditLog + 1
TablesAt(r) == UNION {Creates[q] : q \in 1..r}

Proc(at, plan, attempts, base) == [at |-> at, plan |-> plan, attempts |-> attempts, base |-> base]
Down == Proc("down", <<>>, 0, 0)

\* One release is rolled out at a time: images are of the newest release, or
\* the database has what they know.
DeployInit ==
    /\ revision \in 0..Newest \cup {Unplaced}
    /\ HeadOf \in [Containers -> 1..Newest]
    /\ \A c \in Containers : HeadOf[c] <= revision \/ HeadOf[c] = Newest
    /\ tables = TablesAt(IF revision = Unplaced THEN 1 ELSE revision)
    /\ mayWrite \in {tables, tables \ {AuditLog}}
    /\ procs = [c \in Containers |-> Down]
    /\ holds = [c \in Containers |-> {}] /\ waits = [c \in Containers |-> 0]

At(c) == procs[c].at
Goto(c, at) == procs' = [procs EXCEPT ![c] = Proc(at, <<>>, 0, 0)]
Drop(c) == holds' = [holds EXCEPT ![c] = {}] /\ waits' = [waits EXCEPT ![c] = 0]

-----------------------------------------------------------------------------
(* Locks.  A migration's is exclusive; writers share a table.              *)

Migrates(c) == At(c) \in {"locking", "running"}
Conflict(c, d, lock) == c # d /\ lock \in holds[d] /\ (lock = Chain \/ Migrates(c) \/ Migrates(d))
Free(c, lock) == \A d \in Containers : ~Conflict(c, d, lock)

HasAll(c) == Cardinality(holds[c]) = Len(procs[c].plan)
NextLock(c) == procs[c].plan[Cardinality(holds[c]) + 1]

\* The portal's transactions wait.
TakeOrWait(c) ==
    /\ At(c) = "writing" /\ ~HasAll(c)
    /\ IF Free(c, NextLock(c))
       THEN holds' = [holds EXCEPT ![c] = @ \cup {NextLock(c)}] /\ waits' = [waits EXCEPT ![c] = 0]
       ELSE waits' = [waits EXCEPT ![c] = NextLock(c)] /\ UNCHANGED holds
    /\ UNCHANGED <<HeadOf, revision, tables, mayWrite, procs>>

-----------------------------------------------------------------------------
(* Starting: db-migrate.                                                   *)

Classify(current, head) ==
    CASE current = 0 -> "missing"
      [] current = head -> "current"
      [] current \in 1..(head - 1) -> "behind"
      [] current > head /\ current # Unplaced -> "newer"
      [] OTHER -> "unknown"

\* An earlier image on a newer database changes nothing and serves.
Start(c) ==
    /\ At(c) = "down"
    /\ LET state == Classify(revision, HeadOf[c])
       IN  /\ state # "unknown"
           /\ procs' = [procs EXCEPT ![c] = Proc(IF state = "newer" THEN "checking" ELSE "upgrading", <<>>, 1, 0)]
    /\ UNCHANGED <<HeadOf, revision, tables, mayWrite, holds, waits>>

Pending(head) == revision + 1 .. head

\* _lock_plan: a revision this code cannot place locks everything.
ToLock(head) ==
    LET altered == tables \cap UNION {Alters[r] : r \in Pending(head)}
    IN  IF revision > head THEN tables \cup {Chain}
        ELSE IF Pending(head) \cap WritesRows # {} THEN altered \cup {Chain} ELSE altered

\* A set of locks in the writers' order.
InOrder(S) == CHOOSE p \in [1..Cardinality(S) -> S] : \A i, j \in DOMAIN p : i < j => p[i] < p[j]

LockPlan(head) == InOrder(ToLock(head))

\* The plan is read in a transaction that ends before the locks are taken.
PlanLocks(c) ==
    /\ At(c) = "upgrading"
    /\ procs' = [procs EXCEPT ![c] = [@ EXCEPT !.at = "locking", !.plan = LockPlan(HeadOf[c])]]
    /\ UNCHANGED <<HeadOf, revision, tables, mayWrite, holds, waits>>

\* Mutant: the migration waits for a lock that is in use.
LockWaiting(c) ==
    /\ At(c) = "locking" /\ ~HasAll(c)
    /\ IF Free(c, NextLock(c))
       THEN holds' = [holds EXCEPT ![c] = @ \cup {NextLock(c)}] /\ waits' = [waits EXCEPT ![c] = 0]
       ELSE waits' = [waits EXCEPT ![c] = NextLock(c)] /\ UNCHANGED holds
    /\ UNCHANGED <<HeadOf, revision, tables, mayWrite, procs>>

\* One that is in use ends the try: what it took is given back.
TryLock(c) ==
    /\ At(c) = "locking" /\ ~HasAll(c)
    /\ holds' = [holds EXCEPT ![c] = IF Free(c, NextLock(c)) THEN @ \cup {NextLock(c)} ELSE {}]
    /\ UNCHANGED <<HeadOf, revision, tables, mayWrite, procs, waits>>

\* The lock timeout: tried again a few times, then the container exits.
GiveUp(c) ==
    /\ At(c) = "locking" /\ ~HasAll(c) /\ ~Free(c, NextLock(c))
    /\ Drop(c)
    /\ procs' = [procs EXCEPT ![c] = IF @.attempts = MaxAttempts THEN Down
                                     ELSE Proc("upgrading", <<>>, @.attempts + 1, 0)]
    /\ UNCHANGED <<HeadOf, revision, tables, mayWrite>>

\* The revisions the database lacks by now.
Run(c) ==
    /\ At(c) = "locking" /\ HasAll(c)
    /\ revision <= HeadOf[c]       \* else alembic cannot place it, and the container exits
    /\ procs' = [procs EXCEPT ![c] = [@ EXCEPT !.at = "running", !.base = revision]]
    /\ UNCHANGED <<HeadOf, revision, tables, mayWrite, holds, waits>>

\* What another container created meanwhile collides: the container exits.
CommitUpgrade(c) ==
    /\ At(c) = "running"
    /\ procs[c].base \in {revision, HeadOf[c]}
    /\ revision' = IF procs[c].base = HeadOf[c] THEN revision ELSE HeadOf[c]
    /\ tables' = tables \cup TablesAt(HeadOf[c])
    /\ Drop(c) /\ Goto(c, "provisioning")
    /\ UNCHANGED <<HeadOf, mayWrite>>

\* What the application role keeps: not the tables it may only read.
FinalPrivileges == tables \ {AuditLog}

\* provision_app_role: its final privileges, in one transaction.
Provision(c) ==
    /\ At(c) = "provisioning"
    /\ mayWrite' = FinalPrivileges
    /\ Goto(c, "checking")
    /\ UNCHANGED <<HeadOf, revision, tables, holds, waits>>

\* The role that serves cannot change the audit trail.
RoleIsSafe == AuditLog \notin mayWrite

\* In production.
EnforceServingRole(c) ==
    /\ At(c) = "checking"
    /\ Goto(c, IF RoleIsSafe THEN "serving" ELSE "down")
    /\ UNCHANGED <<HeadOf, revision, tables, mayWrite, holds, waits>>

Stop(c) ==
    /\ At(c) # "down"
    /\ Drop(c) /\ Goto(c, "down")
    /\ UNCHANGED <<HeadOf, revision, tables, mayWrite>>

-----------------------------------------------------------------------------
(* Serving.                                                                *)

\* The first audited row of a transaction takes the chain's lock, and its
\* audit row a lock of audit_log.
Write(c, written) ==
    /\ At(c) = "serving" /\ \A i \in DOMAIN written : written[i] \in tables
    /\ procs' = [procs EXCEPT ![c] = Proc("writing", <<Head(written), Chain, AuditLog>> \o Tail(written), 0, 0)]
    /\ UNCHANGED <<HeadOf, revision, tables, mayWrite, holds, waits>>

CommitWrite(c) ==
    /\ At(c) = "writing" /\ HasAll(c)
    /\ Drop(c) /\ Goto(c, "serving")
    /\ UNCHANGED <<HeadOf, revision, tables, mayWrite>>

DeployNext ==
    \E c \in Containers :
       \/ Start(c) \/ PlanLocks(c) \/ TryLock(c) \/ GiveUp(c) \/ Run(c) \/ CommitUpgrade(c)
       \/ Provision(c) \/ EnforceServingRole(c) \/ Stop(c) \/ TakeOrWait(c)
       \/ \E written \in Transactions : Write(c, written)
       \/ CommitWrite(c)

DeploySpec == DeployInit /\ [][DeployNext]_deployVars

-----------------------------------------------------------------------------
(* Properties.                                                             *)

\* Whom a container waits for.
Blocks(c) == {d \in Containers : waits[c] # 0 /\ Conflict(c, d, waits[c])}

\* Migrating while the portal writes closes no cycle of waiting transactions.
NoLockCycle ==
    ~\E cycle \in SUBSET Containers :
        cycle # {} /\ \A c \in cycle : \E d \in cycle : d \in Blocks(c)

\* The statements of the revisions that run wait for nothing: whatever other
\* containers did since the plan was made, they hold every lock they need.
LocksAreHeld ==
    \A c \in Containers : At(c) = "running" /\ revision <= HeadOf[c] =>
        \A r \in Pending(HeadOf[c]) :
            Alters[r] \cap tables \subseteq holds[c] /\ (r \in WritesRows => Chain \in holds[c])

\* A container that serves finds the schema it was built for, and cannot write
\* the audit log, whatever starts and fails to start beside it.
ServesSafely ==
    \A c \in Containers : At(c) \in {"serving", "writing"} => revision \in HeadOf[c]..Newest /\ RoleIsSafe

\* A rollout is safe beside the portal it replaces.
RolloutIsSafe == NoLockCycle /\ LocksAreHeld /\ ServesSafely
=============================================================================
