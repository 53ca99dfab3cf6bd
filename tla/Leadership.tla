----------------------------- MODULE Leadership -----------------------------
(***************************************************************************)
(* Leader election and dispatch (SchedulerService in                       *)
(* app/services/scheduler.py): the standby threads compete for the leader  *)
(* lock; the leader's loop checks its lock session, reaps, and submits     *)
(* queued runs to its thread pool; a leader that steps down shuts the pool *)
(* down and may be elected again.  What execute_claimed does with a run is *)
(* JobRuns; here a run is claimed once and closed, or was claimed already. *)
(*                                                                         *)
(* A process is a gunicorn worker.  Its lock session may end without the   *)
(* process noticing, so an old leader can finish a turn of its loop beside *)
(* a new one.                                                              *)
(***************************************************************************)
EXTENDS Naturals, FiniteSets

CONSTANTS Processes, Runs,
          MaxConcurrent,   \* MAX_CONCURRENT_RUNS
          MaxFaults,       \* bound: lost leader sessions, loop errors, stops, deaths
          NoOne            \* no process

ASSUME LeadershipAssumption ==
    /\ MaxConcurrent \in Nat
    /\ MaxFaults \in Nat
    /\ NoOne \notin Processes
    /\ IsFiniteSet(Runs)

VARIABLES
    leaderLock,  \* the process whose session holds LEADER_LOCK_KEY
    phase,       \* processes: where _run is
    leader,      \* processes: is_leader (_leader_conn, _aps and _pool are set)
    stop,        \* processes: the _stop event is set
    inflight,    \* processes: _inflight
    waiting,     \* processes: runs submitted to the pool, no thread has them yet
    working,     \* processes: runs in _execute on a thread of some pool
    cancelled,   \* history, processes: runs whose futures a shutdown cancelled
    status,      \* runs
    owner,       \* runs: the process that claimed it
    faults

procs == <<phase, leader, stop, inflight, waiting, working, cancelled>>
rows == <<status, owner>>
vars == <<leaderLock, procs, rows, faults>>

Phases == {"loop", "duties", "stopping", "dead"}

TypeOK ==
    /\ leaderLock \in Processes \cup {NoOne}
    /\ phase \in [Processes -> Phases]
    /\ leader \in [Processes -> BOOLEAN]
    /\ stop \in [Processes -> BOOLEAN]
    /\ inflight \in [Processes -> SUBSET Runs]
    /\ waiting \in [Processes -> SUBSET Runs]
    /\ working \in [Processes -> SUBSET Runs]
    /\ cancelled \in [Processes -> SUBSET Runs]
    /\ status \in [Runs -> {"absent", "queued", "running", "closed"}]
    /\ owner \in [Runs -> Processes \cup {NoOne}]
    /\ faults \in 0 .. MaxFaults

Init ==
    /\ leaderLock = NoOne
    /\ phase = [p \in Processes |-> "loop"]
    /\ leader = [p \in Processes |-> FALSE]
    /\ stop = [p \in Processes |-> FALSE]
    /\ inflight = [p \in Processes |-> {}]
    /\ waiting = [p \in Processes |-> {}]
    /\ working = [p \in Processes |-> {}]
    /\ cancelled = [p \in Processes |-> {}]
    /\ status = [r \in Runs |-> "absent"]
    /\ owner = [r \in Runs |-> NoOne]
    /\ faults = 0

Goto(p, place) == phase' = [phase EXCEPT ![p] = place]

Fault == faults < MaxFaults /\ faults' = faults + 1

Enqueue(r) ==
    /\ status[r] = "absent"
    /\ status' = [status EXCEPT ![r] = "queued"]
    /\ UNCHANGED <<leaderLock, procs, owner, faults>>

-----------------------------------------------------------------------------
(* The loop of one process *)

\* Mutant: the runs of the previous leadership are forgotten.
ElectAfresh(p) ==
    /\ phase[p] = "loop" /\ ~stop[p]
    /\ ~leader[p]
    /\ leaderLock = NoOne
    /\ leaderLock' = p
    /\ leader' = [leader EXCEPT ![p] = TRUE]
    /\ inflight' = [inflight EXCEPT ![p] = {}]
    /\ Goto(p, "duties")
    /\ UNCHANGED <<stop, waiting, working, cancelled, rows, faults>>

\* _try_become_leader and _start_leader_duties: a new pool; _inflight stays.
Elect(p) ==
    /\ phase[p] = "loop" /\ ~stop[p]
    /\ ~leader[p]
    /\ leaderLock = NoOne
    /\ leaderLock' = p
    /\ leader' = [leader EXCEPT ![p] = TRUE]
    /\ Goto(p, "duties")
    /\ UNCHANGED <<stop, inflight, waiting, working, cancelled, rows, faults>>

\* _step_down: the pool is shut down, its unstarted futures are cancelled
\* (their keys stay in _inflight), the lock session is closed.
StepDown(p) ==
    /\ waiting' = [waiting EXCEPT ![p] = {}]
    /\ cancelled' = [cancelled EXCEPT ![p] = @ \cup waiting[p]]
    /\ leader' = [leader EXCEPT ![p] = FALSE]
    /\ leaderLock' = IF leaderLock = p THEN NoOne ELSE leaderLock
    /\ UNCHANGED <<inflight, working, rows>>

CheckAlive(p) ==
    /\ phase[p] = "loop" /\ ~stop[p]
    /\ leader[p]
    /\ leaderLock = p
    /\ Goto(p, "duties")
    /\ UNCHANGED <<leaderLock, leader, stop, inflight, waiting, working, cancelled, rows, faults>>

\* Mutant: the session's end is noticed, the leadership is kept.
StayLeader(p) ==
    /\ phase[p] = "loop" /\ ~stop[p]
    /\ leader[p]
    /\ leaderLock # p
    /\ Goto(p, "duties")
    /\ UNCHANGED <<leaderLock, leader, stop, inflight, waiting, working, cancelled, rows, faults>>

\* _leader_alive answers False.
FindLost(p) ==
    /\ phase[p] = "loop" /\ ~stop[p]
    /\ leader[p]
    /\ leaderLock # p
    /\ StepDown(p)
    /\ UNCHANGED <<phase, stop, faults>>

\* An error outside the duties.
LoopError(p) ==
    /\ phase[p] = "duties"
    /\ Fault
    /\ Goto(p, "loop")
    /\ StepDown(p)
    /\ UNCHANGED stop

\* reap_once: closes a run whose executor is gone (JobRuns says when).
Reap(p, r) ==
    /\ phase[p] = "duties"
    /\ status[r] = "running"
    /\ r \notin working[owner[r]]
    /\ status' = [status EXCEPT ![r] = "closed"]
    /\ UNCHANGED <<leaderLock, procs, owner, faults>>

Dispatch(p, r) ==
    /\ phase[p] = "duties"
    /\ status[r] = "queued"
    /\ r \notin inflight[p]
    /\ Cardinality(inflight[p]) < MaxConcurrent
    /\ inflight' = [inflight EXCEPT ![p] = @ \cup {r}]
    /\ waiting' = [waiting EXCEPT ![p] = @ \cup {r}]
    /\ UNCHANGED <<leaderLock, phase, leader, stop, working, cancelled, rows, faults>>

EndTurn(p) ==
    /\ phase[p] = "duties"
    /\ Goto(p, "loop")
    /\ UNCHANGED <<leaderLock, leader, stop, inflight, waiting, working, cancelled, rows, faults>>

\* stop: the loop ends after its turn ...
Stop(p) ==
    /\ phase[p] \in {"loop", "duties"}
    /\ ~stop[p]
    /\ Fault
    /\ stop' = [stop EXCEPT ![p] = TRUE]
    /\ UNCHANGED <<leaderLock, phase, leader, inflight, waiting, working, cancelled, rows>>

\* ... or the join times out; then _step_down.
EndStop(p) ==
    /\ stop[p]
    /\ phase[p] \in {"loop", "duties"}
    /\ Goto(p, "stopping")
    /\ StepDown(p)
    /\ UNCHANGED <<stop, faults>>

-----------------------------------------------------------------------------
(* The pool's threads: _execute *)

\* A thread takes the run up, unless _stop is set.
Start(p, r) ==
    /\ phase[p] # "dead"
    /\ r \in waiting[p]
    /\ waiting' = [waiting EXCEPT ![p] = @ \ {r}]
    /\ IF stop[p]
       THEN inflight' = [inflight EXCEPT ![p] = @ \ {r}] /\ UNCHANGED working
       ELSE working' = [working EXCEPT ![p] = @ \cup {r}] /\ UNCHANGED inflight
    /\ UNCHANGED <<leaderLock, phase, leader, stop, cancelled, rows, faults>>

Claim(p, r) ==
    /\ phase[p] # "dead"
    /\ r \in working[p]
    /\ status[r] = "queued"
    /\ status' = [status EXCEPT ![r] = "running"]
    /\ owner' = [owner EXCEPT ![r] = p]
    /\ UNCHANGED <<leaderLock, procs, faults>>

\* Mutant: a run that ends keeps its slot.
LeaveSlotTaken(p, r) ==
    /\ working' = [working EXCEPT ![p] = @ \ {r}]
    /\ UNCHANGED <<leaderLock, phase, leader, stop, inflight, waiting, cancelled, owner, faults>>

\* The finally of _execute: the key leaves _inflight.
Leave(p, r) ==
    /\ working' = [working EXCEPT ![p] = @ \ {r}]
    /\ inflight' = [inflight EXCEPT ![p] = @ \ {r}]
    /\ UNCHANGED <<leaderLock, phase, leader, stop, waiting, cancelled, owner, faults>>

\* Someone else has the run ("gone"), or the target's lock is taken ("busy").
GiveBack(p, r) ==
    /\ phase[p] # "dead"
    /\ r \in working[p]
    /\ owner[r] # p
    /\ Leave(p, r)
    /\ UNCHANGED status

Finish(p, r) ==
    /\ phase[p] # "dead"
    /\ r \in working[p]
    /\ owner[r] = p
    /\ status' = [status EXCEPT ![r] = "closed"]
    /\ Leave(p, r)

-----------------------------------------------------------------------------
(* Faults *)

\* The leader's lock session ends; the process finds out at its next check.
LoseLock ==
    /\ leaderLock # NoOne
    /\ Fault
    /\ leaderLock' = NoOne
    /\ UNCHANGED <<procs, rows>>

\* The process is gone, or exits after stop.
Exit(p) ==
    /\ Goto(p, "dead")
    /\ leader' = [leader EXCEPT ![p] = FALSE]
    /\ stop' = [stop EXCEPT ![p] = FALSE]
    /\ inflight' = [inflight EXCEPT ![p] = {}]
    /\ waiting' = [waiting EXCEPT ![p] = {}]
    /\ working' = [working EXCEPT ![p] = {}]
    /\ cancelled' = [cancelled EXCEPT ![p] = {}]
    /\ UNCHANGED <<leaderLock, rows>>

Die(p) == phase[p] # "dead" /\ Fault /\ Exit(p)

ExitStopped(p) == phase[p] = "stopping" /\ Exit(p) /\ UNCHANGED faults

\* The server ends what is left of its lock session, and the gunicorn
\* master starts another worker.
Restart(p) ==
    /\ phase[p] = "dead"
    /\ Goto(p, "loop")
    /\ leaderLock' = IF leaderLock = p THEN NoOne ELSE leaderLock
    /\ UNCHANGED <<leader, stop, inflight, waiting, working, cancelled, rows, faults>>

-----------------------------------------------------------------------------

LoopStep(p) ==
    \/ Elect(p) \/ CheckAlive(p) \/ FindLost(p) \/ LoopError(p) \/ EndTurn(p)
    \/ Stop(p) \/ EndStop(p)
    \/ \E r \in Runs : Reap(p, r) \/ Dispatch(p, r)

ThreadStep(p, r) == Start(p, r) \/ Claim(p, r) \/ GiveBack(p, r) \/ Finish(p, r)

Next ==
    \/ \E r \in Runs : Enqueue(r)
    \/ \E p \in Processes :
        \/ LoopStep(p)
        \/ \E r \in Runs : ThreadStep(p, r)
        \/ Die(p) \/ ExitStopped(p) \/ Restart(p)
    \/ LoseLock

Spec == Init /\ [][Next]_vars

(***************************************************************************)
(* Fairness.  A live thread goes on; a turn of the leader looks at every   *)
(* queued and every running run, so one it finds again and again is        *)
(* submitted or reaped; a target's lock is not taken for ever (JobRuns), so  *)
(* a run given back again and again is claimed; gunicorn replaces a worker *)
(* that ended.                                                             *)
(***************************************************************************)
Fairness ==
    /\ \A p \in Processes :
        /\ WF_vars(Elect(p) \/ CheckAlive(p) \/ FindLost(p) \/ EndTurn(p) \/ EndStop(p))
        /\ WF_vars(ExitStopped(p) \/ Restart(p))
        /\ \A r \in Runs : WF_vars(ThreadStep(p, r))
    /\ \A r \in Runs :
        /\ SF_vars(\E p \in Processes : Claim(p, r))
        /\ SF_vars(\E p \in Processes : Dispatch(p, r))
        /\ SF_vars(\E p \in Processes : Reap(p, r))

FairSpec == Spec /\ Fairness

-----------------------------------------------------------------------------

\* No process executes more than MAX_CONCURRENT_RUNS runs, the threads of the
\* pools of its earlier leaderships included.
ConcurrencyLimit == \A p \in Processes : Cardinality(working[p]) <= MaxConcurrent

\* A process never has a run twice: one left on a thread of an earlier pool
\* is not submitted again.
SubmittedOnce == \A p \in Processes : waiting[p] \cap working[p] = {}

\* Another standby takes over whenever the leader is gone, and the same
\* process when there is no other.
LeadershipRecovers == leaderLock = NoOne ~> leaderLock # NoOne

\* What the docstring promises: the leader dispatches queued runs.
QueuedRunsExecuted == \A r \in Runs : status[r] = "queued" ~> status[r] = "closed"

\* What the code keeps: every queued run is executed (or reaped) as long as
\* no process keeps the key of a cancelled future.
ExecutedUnlessCancelled ==
    \A r \in Runs : status[r] = "queued" ~>
        status[r] = "closed" \/ \E p \in Processes : cancelled[p] # {}
=============================================================================
