--------------------------- MODULE JobRunsProofs ---------------------------
(***************************************************************************)
(* Theorems about JobRuns, for every set of executors, reapers, runs,      *)
(* targets and lock keys, every collision of keys, and any number of       *)
(* faults.                                                                 *)
(***************************************************************************)
EXTENDS JobRuns, TLAPS

\* A run an executor claimed carries its token, and was started.
Claimed ==
    \A e \in Executors : pc[e] \in Guarded \cup {"closing"} =>
        token[run[e]] = e /\ status[run[e]] \notin {"absent", "queued"}

\* The row an executor has updated stays its own until it commits.
OwnRow == \A e \in Executors : pc[e] \in {"outcome", "recording"} =>
              rowLock[run[e]] = e /\ Owns(e)

\* A reaper that got the target lock has shut out the run's executor.
ReaperExcludes ==
    \A p \in Reapers, e \in Executors :
        rpc[p] = "reaping" /\ pc[e] \in Guarded /\ run[e] = rrun[p] => ~Held(e)

ReapsStarted == \A p \in Reapers : rpc[p] # "idle" =>
                    status[rrun[p]] \notin {"absent", "queued"}

\* After a late commit the lock is gone for good: no check passes again.
LateIsLast ==
    \A e \in Executors :
        /\ pc[e] \in {"idle", "picked", "locked"} => late[e] = 0
        /\ pc[e] \in Guarded /\ late[e] # 0 =>
              ~Held(e) /\ pc[e] \notin {"committing", "recording"}

Safe ==
    /\ Claimed
    /\ OwnRow
    /\ HeldMeansRunning
    /\ ReaperExcludes
    /\ ReapsStarted
    /\ LateIsLast
    /\ AtMostOneLateCommit

IInv == TypeOK /\ Safe

\* Every step keeps every variable's type.
LEMMA TypeStep == TypeOK /\ [Next]_vars => TypeOK'
<1> USE JobAssumption DEF vars, rows, execs, reapers, TypeOK, PCs, Guarded,
        Lifecycle!Statuses, Lifecycle!Active, Lifecycle!Outcomes
<1> SUFFICES ASSUME TypeOK, [Next]_vars PROVE TypeOK'
  OBVIOUS
<1>1. ASSUME NEW r \in Runs, Enqueue(r) PROVE TypeOK'
  BY <1>1 DEF Enqueue
<1>2. ASSUME NEW e \in Executors, NEW r \in Runs, Pick(e, r) PROVE TypeOK'
  BY <1>2 DEF Pick
<1>3. ASSUME NEW e \in Executors, AcquireLock(e) PROVE TypeOK'
  BY <1>3 DEF AcquireLock, Goto, Key
<1>4. ASSUME NEW e \in Executors, FindBusy(e) PROVE TypeOK'
  BY <1>4 DEF FindBusy, Return, Key
<1>5. ASSUME NEW e \in Executors, Claim(e) PROVE TypeOK'
  BY <1>5 DEF Claim, Goto
<1>6. ASSUME NEW e \in Executors, FindGone(e) PROVE TypeOK'
  BY <1>6 DEF FindGone, Goto
<1>7. ASSUME NEW e \in Executors, CheckData(e) PROVE TypeOK'
  BY <1>7 DEF CheckData, Goto, Interrupt
<1>8. ASSUME NEW e \in Executors, CommitData(e) PROVE TypeOK'
  BY <1>8 DEF CommitData, Commit
<1>9. ASSUME NEW e \in Executors, UpdateOutcome(e) PROVE TypeOK'
  BY <1>9 DEF UpdateOutcome, Goto
<1>10. ASSUME NEW e \in Executors, CheckOutcome(e) PROVE TypeOK'
  <2>1. CASE Interrupt(e) /\ Rollback(e)
    BY <1>10, <2>1 DEF CheckOutcome, Interrupt, Rollback
  <2>2. CASE Goto(e, "recording") /\ UNCHANGED rowLock
    BY <1>10, <2>2 DEF CheckOutcome, Goto
  <2> QED
    BY <1>10, <2>1, <2>2 DEF CheckOutcome
<1>11. ASSUME NEW e \in Executors, RecordOutcome(e) PROVE TypeOK'
  BY <1>11 DEF RecordOutcome, Rollback, Commit
<1>12. ASSUME NEW e \in Executors, Raise(e) PROVE TypeOK'
  BY <1>12 DEF Raise, Goto, Rollback
<1>13. ASSUME NEW e \in Executors, Recover(e) PROVE TypeOK'
  BY <1>13 DEF Recover, Goto, Rollback
<1>14. ASSUME NEW e \in Executors, FailRun(e) PROVE TypeOK'
  BY <1>14 DEF FailRun, Goto
<1>15. ASSUME NEW e \in Executors, GiveUp(e) PROVE TypeOK'
  BY <1>15 DEF GiveUp, Goto
<1>16. ASSUME NEW e \in Executors, ReleaseLock(e) PROVE TypeOK'
  BY <1>16 DEF ReleaseLock, Return, Unlock, Key
<1>17. ASSUME NEW e \in Executors, Beat(e) PROVE TypeOK'
  <2>1. CASE Held(e) /\ Owns(e)
    <3>1. age' \in [Runs -> 0 .. ReapGrace + 1]
      BY <1>17, <2>1 DEF Beat
    <3>2. expired' \in [Reapers -> BOOLEAN]
      BY <1>17, <2>1, ZenonT(30) DEF Beat
    <3>3. UNCHANGED <<status, token, rowLock, holder, execs, rpc, rrun, faults>>
      BY <1>17, <2>1 DEF Beat
    <3> QED
      BY <3>1, <3>2, <3>3
  <2>2. CASE ~(Held(e) /\ Owns(e))
    BY <1>17, <2>2 DEF Beat
  <2> QED
    BY <2>1, <2>2
<1>18. ASSUME NEW e \in Executors, Die(e) PROVE TypeOK'
  BY <1>18 DEF Die, Goto
<1>19. ASSUME NEW e \in Executors, Bury(e) PROVE TypeOK'
  BY <1>19 DEF Bury, Return, Unlock, Rollback, Key
<1>20. ASSUME NEW p \in Reapers, NEW r \in Runs, SelectStale(p, r) PROVE TypeOK'
  BY <1>20 DEF SelectStale
<1>21. ASSUME NEW p \in Reapers, ReapLock(p) PROVE TypeOK'
  BY <1>21 DEF ReapLock, Key
<1>22. ASSUME NEW p \in Reapers, ReapBusy(p) PROVE TypeOK'
  BY <1>22 DEF ReapBusy, Leave, Key
<1>23. ASSUME NEW p \in Reapers, Reap(p) PROVE TypeOK'
  BY <1>23 DEF Reap
<1>24. ASSUME NEW p \in Reapers, ReapUnlock(p) PROVE TypeOK'
  BY <1>24 DEF ReapUnlock, Leave, Unlock, Key
<1>25. ASSUME NEW k \in Keys, EndSession(k) PROVE TypeOK'
  BY <1>25 DEF EndSession
<1>26. ASSUME Tick PROVE TypeOK'
  BY <1>26 DEF Tick
<1>27. ASSUME UNCHANGED vars PROVE TypeOK'
  BY <1>27
<1> QED
  BY <1>1, <1>2, <1>3, <1>4, <1>5, <1>6, <1>7, <1>8, <1>9, <1>10, <1>11, <1>12, <1>13, <1>14, <1>15, <1>16, <1>17, <1>18, <1>19, <1>20, <1>21, <1>22, <1>23, <1>24, <1>25, <1>26, <1>27
    DEF Next, ExecutorStep, ReaperStep

\* Every variable keeps its type: statuses, tokens, ages and lock holders of
\* the rows and sessions scheduler.py works with.
THEOREM TypeCorrect == Spec => []TypeOK
<1>1. Init => TypeOK
  BY JobAssumption DEF Init, TypeOK, PCs, Guarded, Lifecycle!Statuses
<1> QED
  BY <1>1, TypeStep, PTL DEF Spec

\* Every step keeps the invariant.
LEMMA SafeStep == IInv /\ [Next]_vars => Safe'
<1> USE JobAssumption DEF IInv, TypeOK, PCs, Guarded, rows, execs, reapers, vars, Safe,
        Claimed, OwnRow, HeldMeansRunning, ReaperExcludes, ReapsStarted, LateIsLast,
        AtMostOneLateCommit, Held, Owns, Key
<1> SUFFICES ASSUME IInv, [Next]_vars PROVE Safe'
  OBVIOUS
<1>0. TypeOK'
  BY TypeStep
<1>1. ASSUME NEW r \in Runs, Enqueue(r) PROVE Safe'
  BY <1>0, <1>1 DEF Enqueue
<1>2. ASSUME NEW e \in Executors, NEW r \in Runs, Pick(e, r) PROVE Safe'
  BY <1>0, <1>2 DEF Pick
<1>3. ASSUME NEW e \in Executors, AcquireLock(e) PROVE Safe'
  BY <1>0, <1>3 DEF AcquireLock, Goto
<1>4. ASSUME NEW e \in Executors, FindBusy(e) PROVE Safe'
  BY <1>0, <1>4 DEF FindBusy, Return
<1>5. ASSUME NEW e \in Executors, Claim(e) PROVE Safe'
  BY <1>0, <1>5 DEF Claim, Goto
<1>6. ASSUME NEW e \in Executors, FindGone(e) PROVE Safe'
  BY <1>0, <1>6 DEF FindGone, Goto
<1>7. ASSUME NEW e \in Executors, CheckData(e) PROVE Safe'
  BY <1>0, <1>7 DEF CheckData, Goto, Interrupt, Verified
<1>8. ASSUME NEW e \in Executors, CommitData(e) PROVE Safe'
  BY <1>0, <1>8 DEF CommitData, Commit
<1>9. ASSUME NEW e \in Executors, UpdateOutcome(e) PROVE Safe'
  BY <1>0, <1>9 DEF UpdateOutcome, Goto
<1>10. ASSUME NEW e \in Executors, CheckOutcome(e) PROVE Safe'
  BY <1>0, <1>10 DEF CheckOutcome, Goto, Rollback, Interrupt, Verified
<1>11. ASSUME NEW e \in Executors, RecordOutcome(e) PROVE Safe'
  <2> USE <1>11 DEF RecordOutcome, Rollback, Commit
  <2>1. run[e] \in Runs /\ token[run[e]] = e
    OBVIOUS
  <2>2. PICK o \in {"success", "failure"} : status' = [status EXCEPT ![run[e]] = o]
    BY DEF Lifecycle!Outcomes
  <2>3. Claimed'
    BY <2>1, <2>2
  <2>4. OwnRow'
    BY <2>1, <2>2
  <2>5. HeldMeansRunning'
    BY <2>1, <2>2
  <2>6. ReaperExcludes' /\ ReapsStarted'
    BY <2>1, <2>2
  <2>7. LateIsLast' /\ AtMostOneLateCommit'
    BY <2>1, <2>2
  <2> QED
    BY <2>3, <2>4, <2>5, <2>6, <2>7
<1>12. ASSUME NEW e \in Executors, Raise(e) PROVE Safe'
  BY <1>0, <1>12 DEF Raise, Goto, Rollback
<1>13. ASSUME NEW e \in Executors, Recover(e) PROVE Safe'
  BY <1>0, <1>13 DEF Recover, Goto, Rollback
<1>14. ASSUME NEW e \in Executors, FailRun(e) PROVE Safe'
  BY <1>0, <1>14 DEF FailRun, Goto
<1>15. ASSUME NEW e \in Executors, GiveUp(e) PROVE Safe'
  BY <1>0, <1>15 DEF GiveUp, Goto
<1>16. ASSUME NEW e \in Executors, ReleaseLock(e) PROVE Safe'
  <2>1. Claimed' /\ OwnRow'
    BY <1>16 DEF ReleaseLock, Return, Unlock
  <2>2. HeldMeansRunning'
    BY <1>16 DEF ReleaseLock, Return, Unlock
  <2>3. ReaperExcludes' /\ ReapsStarted'
    BY <1>16 DEF ReleaseLock, Return, Unlock
  <2>4. LateIsLast' /\ AtMostOneLateCommit'
    BY <1>16 DEF ReleaseLock, Return, Unlock
  <2> QED
    BY <1>0, <2>1, <2>2, <2>3, <2>4
<1>17. ASSUME NEW e \in Executors, Beat(e) PROVE Safe'
  BY <1>0, <1>17 DEF Beat
<1>18. ASSUME NEW e \in Executors, Die(e) PROVE Safe'
  BY <1>0, <1>18 DEF Die, Goto
<1>19. ASSUME NEW e \in Executors, Bury(e) PROVE Safe'
  <2>1. Claimed' /\ OwnRow'
    BY <1>19 DEF Bury, Return, Unlock, Rollback
  <2>2. HeldMeansRunning'
    BY <1>19 DEF Bury, Return, Unlock, Rollback
  <2>3. ReaperExcludes' /\ ReapsStarted'
    BY <1>19 DEF Bury, Return, Unlock, Rollback
  <2>4. LateIsLast' /\ AtMostOneLateCommit'
    BY <1>19 DEF Bury, Return, Unlock, Rollback
  <2> QED
    BY <1>0, <2>1, <2>2, <2>3, <2>4
<1>20. ASSUME NEW p \in Reapers, NEW r \in Runs, SelectStale(p, r) PROVE Safe'
  BY <1>0, <1>20 DEF SelectStale, Stale
<1>21. ASSUME NEW p \in Reapers, ReapLock(p) PROVE Safe'
  BY <1>0, <1>21 DEF ReapLock
<1>22. ASSUME NEW p \in Reapers, ReapBusy(p) PROVE Safe'
  BY <1>0, <1>22 DEF ReapBusy, Leave
<1>23. ASSUME NEW p \in Reapers, Reap(p) PROVE Safe'
  BY <1>0, <1>23 DEF Reap
<1>24. ASSUME NEW p \in Reapers, ReapUnlock(p) PROVE Safe'
  <2>1. Claimed' /\ OwnRow'
    BY <1>24 DEF ReapUnlock, Leave, Unlock
  <2>2. HeldMeansRunning'
    BY <1>24 DEF ReapUnlock, Leave, Unlock
  <2>3. ReaperExcludes' /\ ReapsStarted'
    BY <1>24 DEF ReapUnlock, Leave, Unlock
  <2>4. LateIsLast' /\ AtMostOneLateCommit'
    BY <1>24 DEF ReapUnlock, Leave, Unlock
  <2> QED
    BY <1>0, <2>1, <2>2, <2>3, <2>4
<1>25. ASSUME NEW k \in Keys, EndSession(k) PROVE Safe'
  BY <1>0, <1>25 DEF EndSession
<1>26. ASSUME Tick PROVE Safe'
  BY <1>0, <1>26 DEF Tick
<1>27. ASSUME UNCHANGED vars PROVE Safe'
  BY <1>0, <1>27
<1> QED
  BY <1>1, <1>2, <1>3, <1>4, <1>5, <1>6, <1>7, <1>8, <1>9, <1>10, <1>11, <1>12, <1>13, <1>14, <1>15, <1>16, <1>17, <1>18, <1>19, <1>20, <1>21, <1>22, <1>23, <1>24, <1>25, <1>26, <1>27
    DEF Next, ExecutorStep, ReaperStep

\* Every reachable state satisfies the invariant (app/services/jobs.py).
THEOREM Invariance == Spec => []IInv
<1>1. Init => IInv
  BY JobAssumption DEF Init, IInv, TypeOK, PCs, Guarded, Lifecycle!Statuses, Safe, Claimed,
     OwnRow, HeldMeansRunning, ReaperExcludes, ReapsStarted, LateIsLast, AtMostOneLateCommit
<1>2. IInv /\ [Next]_vars => IInv'
  BY TypeStep, SafeStep DEF IInv
<1> QED
  BY <1>1, <1>2, PTL DEF Spec

\* While a guarded executor's session holds the target lock, the committed row
\* is running under its token, so RunGuard.verify may let a commit through on
\* the lock alone.
THEOREM LockMeansOwnership == Spec => []HeldMeansRunning
<1>1. IInv => HeldMeansRunning
  BY DEF IInv, Safe
<1> QED
  BY <1>1, Invariance, PTL

\* An executor whose lock session ended commits at most once more.
THEOREM OneLateCommit == Spec => []AtMostOneLateCommit
<1>1. IInv => AtMostOneLateCommit
  BY DEF IInv, Safe
<1> QED
  BY <1>1, Invariance, PTL

\* Every step of the job runner queues, starts or closes one run, or leaves
\* every status alone.
LEMMA StepRefines == IInv /\ [Next]_vars => [Lifecycle!Next]_status
<1> SUFFICES ASSUME IInv, [Next]_vars PROVE [Lifecycle!Next]_status
  OBVIOUS
<1> USE DEF IInv, TypeOK, rows, vars, Lifecycle!Next
<1>1. ASSUME NEW r \in Runs, Enqueue(r) PROVE Lifecycle!Queue(r)
  BY <1>1 DEF Enqueue, Lifecycle!Queue
<1>2. ASSUME NEW e \in Executors, Claim(e) PROVE run[e] \in Runs /\ Lifecycle!Start(run[e])
  BY <1>2 DEF Claim, Lifecycle!Start
<1>3. ASSUME NEW e \in Executors, RecordOutcome(e)
      PROVE run[e] \in Runs /\ Lifecycle!Close(run[e])
  BY <1>3 DEF RecordOutcome, Lifecycle!Close, Safe, OwnRow, Owns
<1>4. ASSUME NEW e \in Executors, FailRun(e)
      PROVE (run[e] \in Runs /\ Lifecycle!Close(run[e])) \/ UNCHANGED status
  BY <1>4 DEF FailRun, Lifecycle!Close, Lifecycle!Outcomes, Owns
<1>5. ASSUME NEW p \in Reapers, Reap(p)
      PROVE (rrun[p] \in Runs /\ Lifecycle!Close(rrun[p])) \/ UNCHANGED status
  BY <1>5 DEF Reap, Lifecycle!Close, Lifecycle!Outcomes
<1>6. ASSUME NEW e \in Executors, ExecutorStep(e), ~Claim(e), ~RecordOutcome(e), ~FailRun(e)
      PROVE UNCHANGED status
  BY <1>6 DEF ExecutorStep, Pick, AcquireLock, FindBusy, FindGone, CheckData, CommitData,
     UpdateOutcome, CheckOutcome, Raise, Recover, GiveUp, ReleaseLock, Beat, Die, Bury
<1>7. ASSUME NEW p \in Reapers, ReaperStep(p), ~Reap(p) PROVE UNCHANGED status
  BY <1>7 DEF ReaperStep, SelectStale, ReapLock, ReapBusy, ReapUnlock
<1>8. ASSUME NEW k \in Keys, EndSession(k) PROVE UNCHANGED status
  BY <1>8 DEF EndSession
<1>9. ASSUME Tick PROVE UNCHANGED status
  BY <1>9 DEF Tick
<1> QED
  BY <1>1, <1>2, <1>3, <1>4, <1>5, <1>6, <1>7, <1>8, <1>9 DEF Next

\* The job runner implements RunLifecycle: a run is started once and closed
\* once, its outcome is final, and a target has one active run.
THEOREM RefinesLifecycle == Spec => Implements
<1>1. Init => Lifecycle!Init
  BY DEF Init, Lifecycle!Init
<1> QED
  BY <1>1, StepRefines, Invariance, PTL DEF Spec, Implements, Lifecycle!Spec

\* In the life cycle, queueing a run only while none of its target is active
\* keeps one per target.
LEMMA OneActiveInLifecycle == Lifecycle!Spec => []Lifecycle!OneActiveRun
<1> DEFINE Inv == Lifecycle!TypeOK /\ Lifecycle!OneActiveRun
<1> USE DEF Lifecycle!TypeOK, Lifecycle!OneActiveRun, Lifecycle!Statuses, Lifecycle!Active, Lifecycle!Outcomes
<1>1. Lifecycle!Init => Inv
  BY DEF Lifecycle!Init
<1>2. Inv /\ [Lifecycle!Next]_status => Inv'
  <2> SUFFICES ASSUME Inv, [Lifecycle!Next]_status PROVE Inv'
    OBVIOUS
  <2>1. ASSUME NEW r \in Runs, Lifecycle!Queue(r) PROVE Inv'
    BY <2>1 DEF Lifecycle!Queue, Lifecycle!ActiveRuns
  <2>2. ASSUME NEW r \in Runs, Lifecycle!Start(r) PROVE Inv'
    BY <2>2 DEF Lifecycle!Start
  <2>3. ASSUME NEW r \in Runs, Lifecycle!Close(r) PROVE Inv'
    BY <2>3 DEF Lifecycle!Close
  <2> QED
    BY <2>1, <2>2, <2>3 DEF Lifecycle!Next
<1> QED
  BY <1>1, <1>2, PTL DEF Lifecycle!Spec

\* Hence no target ever has two queued or running runs.
THEOREM OneActiveRunPerTarget == Spec => []Lifecycle!OneActiveRun
  BY RefinesLifecycle, OneActiveInLifecycle, PTL DEF Implements
=============================================================================
