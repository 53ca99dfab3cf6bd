------------------------------ MODULE JobRuns ------------------------------
(***************************************************************************)
(* Execution and ownership of the portal's background runs                 *)
(* (app/services/scheduler.py): claiming a queued run under its target's   *)
(* advisory lock, the heartbeat thread, the check before every commit, the *)
(* compare-and-set outcome, and the reaper of interrupted runs.            *)
(*                                                                         *)
(* An executor is a thread that runs execute_claimed: a pool thread of any *)
(* process that dispatches, or a CLI command.  It has two database         *)
(* sessions: the lock's own (which holds the advisory lock, and whose end  *)
(* releases it) and the executing one.  Every action is one database       *)
(* statement or commit, so anything can happen between two of them: the    *)
(* lock's session ends without the executor noticing, the process dies,    *)
(* the reaper runs.  A run row's data writes are abstracted to the commit  *)
(* that records them.                                                      *)
(***************************************************************************)
EXTENDS Naturals

CONSTANTS Executors,     \* threads inside execute_claimed
          Reapers,       \* processes that run reap_once (the leader, the CLI)
          Runs, Targets, TargetOf,
          Keys,          \* second keys of the advisory locks
          LockKey,       \* target_lock_key: crc32, so two targets may share a key
          ReapGrace,     \* REAP_GRACE, in ticks of the heartbeat's age
          MaxFaults,     \* bound: ended lock sessions, dead processes, failed statements
          NoOne          \* no executor, no reaper, no run

ASSUME JobAssumption ==
    /\ TargetOf \in [Runs -> Targets]
    /\ LockKey \in [Targets -> Keys]
    /\ ReapGrace \in Nat
    /\ MaxFaults \in Nat
    /\ Executors \cap Reapers = {}
    /\ NoOne \notin Executors \cup Reapers \cup Runs

VARIABLES
    status,   \* run rows: the status column
    token,    \* run rows: executor_token (a run is claimed at most once)
    age,      \* run rows: now - coalesce(heartbeat_at, started_at)
    rowLock,  \* run rows: the executing session that has the row updated, uncommitted
    holder,   \* advisory locks: whose lock session holds each key
    pc,       \* executors: where execute_claimed is
    run,      \* executors: its run_id
    lost,     \* executors: RunGuard.lost_reason is set
    late,     \* history: guarded commits made after the lock's session ended
    rpc,      \* reapers: where _reap_run is
    rrun,     \* reapers: its run_id
    expired,  \* reapers: its run's last sign of life is before its cutoff
    faults    \* faults so far

rows == <<status, token, age, rowLock>>
execs == <<pc, run, lost, late>>
reapers == <<rpc, rrun, expired>>
vars == <<rows, holder, execs, reapers, faults>>

Lifecycle == INSTANCE RunLifecycle

Key(r) == LockKey[TargetOf[r]]

\* TargetLock.holds: the executor's own lock session holds the target lock.
Held(e) == holder[Key(run[e])] = e

\* The committed row is running under e's token.
Owns(e) == status[run[e]] = "running" /\ token[run[e]] = e

Stale(r) == status[r] = "running" /\ age[r] > ReapGrace

\* RunGuard.start .. RunGuard.close: heartbeat and commit check are in force.
Guarded == {"working", "committing", "outcome", "recording"}

PCs == {"idle", "picked", "locked", "closing", "releasing", "dead"} \cup Guarded

TypeOK ==
    /\ status \in [Runs -> Lifecycle!Statuses]
    /\ token \in [Runs -> Executors \cup {NoOne}]
    /\ age \in [Runs -> 0 .. ReapGrace + 1]
    /\ rowLock \in [Runs -> Executors \cup {NoOne}]
    /\ holder \in [Keys -> Executors \cup Reapers \cup {NoOne}]
    /\ pc \in [Executors -> PCs]
    /\ run \in [Executors -> Runs \cup {NoOne}]
    /\ \A e \in Executors : pc[e] = "idle" \/ run[e] \in Runs
    /\ lost \in [Executors -> BOOLEAN]
    /\ late \in [Executors -> Nat]
    /\ rpc \in [Reapers -> {"idle", "stale", "reaping", "unlocking"}]
    /\ rrun \in [Reapers -> Runs \cup {NoOne}]
    /\ \A p \in Reapers : rpc[p] = "idle" \/ rrun[p] \in Runs
    /\ expired \in [Reapers -> BOOLEAN]
    /\ faults \in 0 .. MaxFaults

Init ==
    /\ status = [r \in Runs |-> "absent"]
    /\ token = [r \in Runs |-> NoOne]
    /\ age = [r \in Runs |-> 0]
    /\ rowLock = [r \in Runs |-> NoOne]
    /\ holder = [k \in Keys |-> NoOne]
    /\ pc = [e \in Executors |-> "idle"]
    /\ run = [e \in Executors |-> NoOne]
    /\ lost = [e \in Executors |-> FALSE]
    /\ late = [e \in Executors |-> 0]
    /\ rpc = [p \in Reapers |-> "idle"]
    /\ rrun = [p \in Reapers |-> NoOne]
    /\ expired = [p \in Reapers |-> FALSE]
    /\ faults = 0

-----------------------------------------------------------------------------
(* Enqueueing: the insert commits only when no run of the target is active *)
(* (the partial unique index); otherwise _enqueue returns the active run.  *)

Enqueue(r) ==
    /\ status[r] = "absent"
    /\ Lifecycle!ActiveRuns(TargetOf[r]) = {}
    /\ status' = [status EXCEPT ![r] = "queued"]
    /\ UNCHANGED <<token, age, rowLock, holder, execs, reapers, faults>>

-----------------------------------------------------------------------------
(* execute_claimed *)

\* Goto moves e and leaves the rest of its local state alone.
Goto(e, place) ==
    /\ pc' = [pc EXCEPT ![e] = place]
    /\ UNCHANGED <<run, lost, late>>

\* execute_claimed returns.
Return(e) ==
    /\ pc' = [pc EXCEPT ![e] = "idle"]
    /\ run' = [run EXCEPT ![e] = NoOne]
    /\ lost' = [lost EXCEPT ![e] = FALSE]
    /\ late' = [late EXCEPT ![e] = 0]

\* lock.release: unlocks if the session still holds the lock, closes it.
Unlock(k, p) == holder' = [holder EXCEPT ![k] = IF @ = p THEN NoOne ELSE @]

\* A run read as queued is taken up; nothing is reserved yet.
Pick(e, r) ==
    /\ pc[e] = "idle"
    /\ status[r] = "queued"
    /\ pc' = [pc EXCEPT ![e] = "picked"]
    /\ run' = [run EXCEPT ![e] = r]
    /\ UNCHANGED <<rows, holder, lost, late, reapers, faults>>

AcquireLock(e) ==
    /\ pc[e] = "picked"
    /\ holder[Key(run[e])] = NoOne
    /\ holder' = [holder EXCEPT ![Key(run[e])] = e]
    /\ Goto(e, "locked")
    /\ UNCHANGED <<rows, reapers, faults>>

\* "busy": another session holds the lock; the run stays queued.
FindBusy(e) ==
    /\ pc[e] = "picked"
    /\ holder[Key(run[e])] # NoOne
    /\ Return(e)
    /\ UNCHANGED <<rows, holder, reapers, faults>>

\* queued -> running under a fresh token, compare-and-set.  The lock is not
\* checked again: its session may already have ended.
Claim(e) ==
    /\ pc[e] = "locked"
    /\ status[run[e]] = "queued"
    /\ status' = [status EXCEPT ![run[e]] = "running"]
    /\ token' = [token EXCEPT ![run[e]] = e]
    /\ age' = [age EXCEPT ![run[e]] = 0]
    /\ Goto(e, "working")
    /\ UNCHANGED <<rowLock, holder, reapers, faults>>

\* "gone": someone else claimed the run first.
FindGone(e) ==
    /\ pc[e] = "locked"
    /\ status[run[e]] # "queued"
    /\ Goto(e, "releasing")
    /\ UNCHANGED <<rows, holder, reapers, faults>>

\* Mutant: only the row is checked, not the lock's session.
VerifiedRowOnly(e, unknown) == ~lost[e] /\ (unknown \/ Owns(e))

\* RunGuard.verify.  The session answers while it lives; a check that could
\* not read the run table in time (unknown) relies on the lock alone.
Verified(e, unknown) ==
    /\ ~lost[e]
    /\ Held(e)
    /\ unknown \/ Owns(e)

\* A failed check marks the run lost, rolls the transaction back and leaves
\* kind.execute with LockLostError.
Interrupt(e) ==
    /\ lost' = [lost EXCEPT ![e] = TRUE]
    /\ pc' = [pc EXCEPT ![e] = "closing"]
    /\ UNCHANGED <<run, late>>

\* Rolling back the executing session's transaction frees the run's row.
Rollback(e) == rowLock' = [r \in Runs |-> IF rowLock[r] = e THEN NoOne ELSE rowLock[r]]

\* before_commit of a commit that records data (a check result, a file, an
\* object version).
CheckData(e) ==
    /\ pc[e] = "working"
    /\ \E unknown \in BOOLEAN :
        IF Verified(e, unknown) THEN Goto(e, "committing") ELSE Interrupt(e)
    /\ UNCHANGED <<rows, holder, reapers, faults>>

\* The commit itself follows the check: the lock may be lost in between.
Commit(e, place) ==
    /\ pc' = [pc EXCEPT ![e] = place]
    /\ late' = [late EXCEPT ![e] = IF Held(e) THEN @ ELSE @ + 1]
    /\ UNCHANGED <<run, lost>>

CommitData(e) ==
    /\ pc[e] = "committing"
    /\ Commit(e, "working")
    /\ UNCHANGED <<rows, holder, reapers, faults>>

\* _record_outcome / _finish: the compare-and-set update of the run's row ...
UpdateOutcome(e) ==
    /\ pc[e] = "working"
    /\ IF Owns(e)
       THEN /\ rowLock' = [rowLock EXCEPT ![run[e]] = e]
            /\ Goto(e, "outcome")
       ELSE /\ Goto(e, "closing")
            /\ UNCHANGED rowLock
    /\ UNCHANGED <<status, token, age, holder, reapers, faults>>

\* ... its before_commit, which reads committed rows through the lock session ...
CheckOutcome(e) ==
    /\ pc[e] = "outcome"
    /\ \E unknown \in BOOLEAN :
        IF Verified(e, unknown)
        THEN Goto(e, "recording") /\ UNCHANGED rowLock
        ELSE Interrupt(e) /\ Rollback(e)
    /\ UNCHANGED <<status, token, age, holder, reapers, faults>>

\* ... and its commit.
RecordOutcome(e) ==
    /\ pc[e] = "recording"
    /\ \E o \in Lifecycle!Outcomes : status' = [status EXCEPT ![run[e]] = o]
    /\ Rollback(e)
    /\ Commit(e, "closing")
    /\ UNCHANGED <<token, age, holder, reapers, faults>>

\* kind.execute raises, or returns without an outcome.
Raise(e) ==
    /\ pc[e] \in Guarded
    /\ Rollback(e)
    /\ Goto(e, "closing")
    /\ UNCHANGED <<status, token, age, holder, reapers, faults>>

\* A statement or commit of the executing session fails and kind.execute
\* goes on: it records the failure of one file, or the failure of the run.
Recover(e) ==
    /\ faults < MaxFaults
    /\ pc[e] \in Guarded \ {"working"}
    /\ Rollback(e)
    /\ Goto(e, "working")
    /\ faults' = faults + 1
    /\ UNCHANGED <<status, token, age, holder, reapers>>

\* Mutant: the failure is recorded whoever closed the run meanwhile.
FailAnyRun(e) ==
    /\ pc[e] = "closing"
    /\ status' = [status EXCEPT ![run[e]] = "failure"]
    /\ Goto(e, "releasing")
    /\ UNCHANGED <<token, age, rowLock, holder, reapers, faults>>

\* After guard.close: _fail_run, compare-and-set on status and token, and
\* no longer behind the commit check.
FailRun(e) ==
    /\ pc[e] = "closing"
    /\ status' = IF Owns(e) THEN [status EXCEPT ![run[e]] = "failure"] ELSE status
    /\ Goto(e, "releasing")
    /\ UNCHANGED <<token, age, rowLock, holder, reapers, faults>>

\* The claim's or _fail_run's own statement fails: only the lock is released.
GiveUp(e) ==
    /\ faults < MaxFaults
    /\ pc[e] \in {"locked", "closing"}
    /\ Goto(e, "releasing")
    /\ faults' = faults + 1
    /\ UNCHANGED <<rows, holder, reapers>>

ReleaseLock(e) ==
    /\ pc[e] = "releasing"
    /\ Unlock(Key(run[e]), e)
    /\ Return(e)
    /\ UNCHANGED <<rows, reapers, faults>>

\* RunGuard.beat, on the heartbeat thread.  An update that waits for the
\* row (its own executor has it updated) gives up and changes nothing.
Beat(e) ==
    /\ pc[e] \in Guarded
    /\ ~lost[e]
    /\ IF Held(e) /\ Owns(e)
       THEN /\ rowLock[run[e]] = NoOne
            /\ age' = [age EXCEPT ![run[e]] = 0]
            /\ expired' = [p \in Reapers |-> IF rrun[p] = run[e] THEN FALSE ELSE expired[p]]
            /\ UNCHANGED lost
       ELSE /\ lost' = [lost EXCEPT ![e] = TRUE]
            /\ UNCHANGED <<age, expired>>
    /\ UNCHANGED <<status, token, rowLock, holder, pc, run, late, rpc, rrun, faults>>

-----------------------------------------------------------------------------
(* reap_once and _reap_run *)

\* _reap_run returns.
Leave(p) ==
    /\ rpc' = [rpc EXCEPT ![p] = "idle"]
    /\ rrun' = [rrun EXCEPT ![p] = NoOne]
    /\ expired' = [expired EXCEPT ![p] = FALSE]

\* The cutoff is fixed here, once for the whole pass.
SelectStale(p, r) ==
    /\ rpc[p] = "idle"
    /\ Stale(r)
    /\ expired' = [expired EXCEPT ![p] = TRUE]
    /\ rpc' = [rpc EXCEPT ![p] = "stale"]
    /\ rrun' = [rrun EXCEPT ![p] = r]
    /\ UNCHANGED <<rows, holder, execs, faults>>

\* Mutant: a stale heartbeat is enough, the target lock is not needed.
ReapWithoutLock(p) ==
    /\ rpc[p] = "stale"
    /\ rpc' = [rpc EXCEPT ![p] = "reaping"]
    /\ UNCHANGED <<rows, holder, execs, rrun, expired, faults>>

ReapLock(p) ==
    /\ rpc[p] = "stale"
    /\ holder[Key(rrun[p])] = NoOne
    /\ holder' = [holder EXCEPT ![Key(rrun[p])] = p]
    /\ rpc' = [rpc EXCEPT ![p] = "reaping"]
    /\ UNCHANGED <<rows, execs, rrun, expired, faults>>

\* The lock is taken: the run counts as alive.
ReapBusy(p) ==
    /\ rpc[p] = "stale"
    /\ holder[Key(rrun[p])] # NoOne
    /\ Leave(p)
    /\ UNCHANGED <<rows, holder, execs, faults>>

\* The update waits for an executor that has the row updated, then
\* re-evaluates its condition.
Reap(p) ==
    /\ rpc[p] = "reaping"
    /\ rowLock[rrun[p]] = NoOne
    /\ status' = IF status[rrun[p]] = "running" /\ expired[p]
                 THEN [status EXCEPT ![rrun[p]] = "failure"] ELSE status
    /\ rpc' = [rpc EXCEPT ![p] = "unlocking"]
    /\ UNCHANGED <<token, age, rowLock, holder, execs, rrun, expired, faults>>

ReapUnlock(p) ==
    /\ rpc[p] = "unlocking"
    /\ Unlock(Key(rrun[p]), p)
    /\ Leave(p)
    /\ UNCHANGED <<rows, execs, faults>>

-----------------------------------------------------------------------------
(* Faults and time *)

\* A lock session ends (dropped, terminated, or its client vanished) and
\* the server releases its lock.
EndSession(k) ==
    /\ faults < MaxFaults
    /\ holder[k] # NoOne
    /\ holder' = [holder EXCEPT ![k] = NoOne]
    /\ faults' = faults + 1
    /\ UNCHANGED <<rows, execs, reapers>>

\* The executor's process dies.  The server still holds what its sessions had.
Die(e) ==
    /\ faults < MaxFaults
    /\ pc[e] \notin {"idle", "dead"}
    /\ Goto(e, "dead")
    /\ faults' = faults + 1
    /\ UNCHANGED <<rows, holder, reapers>>

\* Mutant: the server never notices the vanished client.
BuryKeepingLock(e) ==
    /\ pc[e] = "dead"
    /\ Rollback(e)
    /\ Return(e)
    /\ UNCHANGED <<status, token, age, holder, reapers, faults>>

\* The server ends the sessions of a vanished client (keepalives): locks
\* are released, the open transaction is rolled back, and a new thread may
\* take the executor's place.
Bury(e) ==
    /\ pc[e] = "dead"
    /\ Unlock(Key(run[e]), e)
    /\ Rollback(e)
    /\ Return(e)
    /\ UNCHANGED <<status, token, age, reapers, faults>>

\* Ages stop at ReapGrace + 1: older is the same to every reader.
Tick ==
    /\ \E r \in Runs : status[r] = "running" /\ age[r] <= ReapGrace
    /\ age' = [r \in Runs |-> IF status[r] = "running" /\ age[r] <= ReapGrace
                              THEN age[r] + 1 ELSE age[r]]
    /\ UNCHANGED <<status, token, rowLock, holder, execs, reapers, faults>>

-----------------------------------------------------------------------------

ExecutorStep(e) ==
    \/ \E r \in Runs : Pick(e, r)
    \/ AcquireLock(e) \/ FindBusy(e) \/ Claim(e) \/ FindGone(e)
    \/ CheckData(e) \/ CommitData(e)
    \/ UpdateOutcome(e) \/ CheckOutcome(e) \/ RecordOutcome(e)
    \/ Raise(e) \/ Recover(e) \/ FailRun(e) \/ GiveUp(e) \/ ReleaseLock(e) \/ Beat(e)
    \/ Die(e) \/ Bury(e)

ReaperStep(p) ==
    \/ \E r \in Runs : SelectStale(p, r)
    \/ ReapLock(p) \/ ReapBusy(p) \/ Reap(p) \/ ReapUnlock(p)

Next ==
    \/ \E r \in Runs : Enqueue(r)
    \/ \E e \in Executors : ExecutorStep(e)
    \/ \E p \in Reapers : ReaperStep(p)
    \/ \E k \in Keys : EndSession(k)
    \/ Tick

Spec == Init /\ [][Next]_vars

(***************************************************************************)
(* Fairness.  A thread that lives goes on, and the server ends a vanished  *)
(* client's sessions: weak fairness.  Dispatchers and reapers poll every   *)
(* run on a timer: a run found again and again is taken up (strong).  A    *)
(* job has finitely many commits, so it reaches its outcome.  Heartbeats   *)
(* are not assumed, and no fault ever has to happen.                       *)
(***************************************************************************)
Progress(e) ==
    \/ AcquireLock(e) \/ FindBusy(e) \/ Claim(e) \/ FindGone(e)
    \/ CommitData(e) \/ CheckOutcome(e) \/ RecordOutcome(e)
    \/ FailRun(e) \/ ReleaseLock(e) \/ Bury(e)

Fairness ==
    /\ WF_vars(Tick)
    /\ \A e \in Executors : WF_vars(Progress(e)) /\ SF_vars(UpdateOutcome(e))
    /\ \A r \in Runs : SF_vars(\E e \in Executors : Pick(e, r))
    /\ \A p \in Reapers :
        /\ WF_vars(ReapLock(p) \/ ReapBusy(p) \/ Reap(p) \/ ReapUnlock(p))
        /\ \A r \in Runs : SF_vars(SelectStale(p, r))

FairSpec == Spec /\ Fairness

-----------------------------------------------------------------------------

\* While a guarded executor's session holds the target lock, its run is
\* running under its token: what lets RunGuard.verify go ahead on the lock
\* alone when the run table does not answer in time.
HeldMeansRunning ==
    \A e \in Executors : pc[e] \in Guarded /\ Held(e) => Owns(e)

\* Under its guard an executor commits at most once after its lock's session
\* ended: the one commit whose check had already passed, on another connection
\* than the lock's.  (scheduler.py, "Run execution and ownership", says that it
\* records nothing further, which the commit under way escapes.)  The claim and
\* the failure recorded once the guard is closed are not counted: each asks for
\* the status it replaces, which Implements is about.
AtMostOneLateCommit == \A e \in Executors : late[e] <= 1

\* The outcome committed for a run is the one its executor wrote while the
\* row was its own, or a failure of a run no guarded executor holds: runs
\* are queued, started and closed once, and a target has one active run.
Implements == Lifecycle!Spec

\* Every queued run is closed, whatever sessions and processes were lost:
\* a run whose executor is gone does not stay running.
QueuedRunsClose ==
    \A r \in Runs : status[r] = "queued" ~> status[r] \in Lifecycle!Outcomes
=============================================================================
