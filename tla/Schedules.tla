----------------------------- MODULE Schedules -----------------------------
(***************************************************************************)
(* Cron schedules across leaderships (app/services/scheduler.py): the      *)
(* leader's jobs mirror the enabled schedules, each fire queues a run or   *)
(* coalesces into the active one, and a new leader catches up on fires     *)
(* that passed without a run.                                              *)
(*                                                                         *)
(* A cron expression is the set of instants at which it fires.  A job      *)
(* fires after its instant, never at it.  Leaderships follow one another;  *)
(* Leadership says how.                                                    *)
(***************************************************************************)
EXTENDS Naturals, Sequences, FiniteSetsExt

CONSTANTS Targets,      \* collectors and git sources
          Collectors,   \* those whose run time is restamped when a run starts
          Crons,        \* cron expressions, as sets of instants
          Grace,        \* misfire_grace_time
          MaxTime,      \* bound on the clock
          MaxEdits,     \* bound on schedule edits
          MaxLosses     \* bound on lost leaderships

\* What the constants must satisfy.
SchedulesAssumption ==
    /\ Collectors \subseteq Targets
    /\ MaxTime \in Nat /\ MaxEdits \in Nat /\ MaxLosses \in Nat /\ Grace \in Nat
    /\ Crons \subseteq SUBSET (1 .. MaxTime)

Times == 0 .. MaxTime
NoFire == MaxTime + 1

VARIABLES
    now,
    cron,      \* targets: schedule_cron
    enabled,   \* targets
    leading,   \* some process leads
    jobs,      \* targets: [cron, next] of the leader's cron job, or NoJob
    since,     \* targets: _job_since
    pending,   \* _catch_up_pending
    run,       \* targets: the active run, if any
    latest,    \* targets: the latest queued_at (started_at of a collector run)
    edits, losses,
    owed,      \* history, targets: fires no leader has acted on yet
    made,      \* history, targets: the fires that were given a run of their own
    raised     \* history, targets: the fires this leadership's own errors left without a run

settings == <<cron, enabled, edits>>
leadership == <<leading, jobs, since, pending, losses>>
runs == <<run, latest, made>>
scheduleVars == <<now, settings, leadership, runs, owed, raised>>

NoJob == [cron |-> {}, next |-> NoFire]

SchedulesTypes ==
    /\ now \in Times
    /\ cron \in [Targets -> Crons]
    /\ enabled \in [Targets -> BOOLEAN]
    /\ leading \in BOOLEAN
    /\ jobs \in [Targets -> [cron : Crons \cup {{}}, next : 1 .. NoFire]]
    /\ since \in [Targets -> Times]
    /\ pending \in BOOLEAN
    /\ run \in [Targets -> {"none", "queued", "running"}]
    /\ latest \in [Targets -> Times]
    /\ edits \in 0 .. MaxEdits /\ losses \in 0 .. MaxLosses
    /\ owed \in [Targets -> SUBSET Times]
    /\ made \in [Targets -> Seq(Times)]
    /\ raised \in [Targets -> SUBSET Times]

SchedulesInit ==
    /\ now = 0
    /\ cron \in [Targets -> Crons]
    /\ enabled \in [Targets -> BOOLEAN]
    /\ leading = FALSE
    /\ jobs = [t \in Targets |-> NoJob]
    /\ since = [t \in Targets |-> 0]
    /\ pending = FALSE
    /\ run = [t \in Targets |-> "none"]
    /\ latest = [t \in Targets |-> 0]    \* created_at, until a run is queued
    /\ edits = 0 /\ losses = 0
    /\ owed = [t \in Targets |-> {}]
    /\ made = [t \in Targets |-> <<>>]
    /\ raised = [t \in Targets |-> {}]

-----------------------------------------------------------------------------

\* The first instant of c at or after time.
NextFire(c, time) == LET later == {f \in c : f >= time}
                     IN  IF later = {} THEN NoFire ELSE Min(later)

\* The first fire strictly after a and strictly before b.
FirstFireBetween(c, a, b) ==
    LET fire == NextFire(c, a + 1) IN IF fire < b THEN fire ELSE NoFire

\* desired_schedules: the targets with an enabled schedule.
Desired == {t \in Targets : enabled[t]}

\* Queue a run of each target of T for its fire, or coalesce.
Queued(T, fires) ==
    LET new == {t \in T : run[t] = "none"}
    IN  /\ run' = [t \in Targets |-> IF t \in new THEN "queued" ELSE run[t]]
        /\ latest' = [t \in Targets |-> IF t \in new THEN now ELSE latest[t]]
        /\ made' = [t \in Targets |-> IF t \in new THEN Append(made[t], fires[t]) ELSE made[t]]

-----------------------------------------------------------------------------
(* The leader *)

\* Mutant: the successor of a leader does not catch up.
GainQuietly ==
    /\ ~leading
    /\ leading' = TRUE
    /\ jobs' = [t \in Targets |-> NoJob]
    /\ since' = [t \in Targets |-> 0]
    /\ pending' = (losses = 0)
    /\ raised' = [t \in Targets |-> {}]
    /\ UNCHANGED <<now, settings, runs, owed, losses>>

\* _start_leader_duties.
Gain ==
    /\ ~leading
    /\ leading' = TRUE
    /\ jobs' = [t \in Targets |-> NoJob]
    /\ since' = [t \in Targets |-> 0]
    /\ pending' = TRUE
    /\ raised' = [t \in Targets |-> {}]
    /\ UNCHANGED <<now, settings, runs, owed, losses>>

Lose ==
    /\ leading
    /\ losses < MaxLosses
    /\ losses' = losses + 1
    /\ leading' = FALSE
    /\ jobs' = [t \in Targets |-> NoJob]
    /\ UNCHANGED <<now, settings, runs, owed, raised, since, pending>>

Kept(t) == t \in Desired /\ jobs[t].cron = cron[t]

\* The fires before now without a run.
Overdue(t) == owed[t] \cap 0 .. now - 1

\* reconcile: jobs that no longer match are removed, missing ones added; the
\* first one of a leadership also catches up.  A target whose job cannot be added
\* is left for the next one, a target whose run cannot be queued is skipped, and
\* the catching up is over all the same.
Reconcile(unadded, raises) ==
    /\ leading
    /\ pending \/ \E t \in Targets : Kept(t) # (jobs[t] # NoJob) \/ (t \in Desired) # Kept(t)
    /\ \A t \in unadded : t \in Desired /\ ~Kept(t)
    /\ jobs' = [t \in Targets |->
                    IF Kept(t) THEN jobs[t]
                    ELSE IF t \in Desired \ unadded
                    THEN [cron |-> cron[t], next |-> NextFire(cron[t], now)]
                    ELSE NoJob]
    /\ since' = [t \in Targets |-> IF Kept(t) THEN since[t] ELSE now]
    /\ LET missed == [t \in Targets |-> FirstFireBetween(cron[t], latest[t], since'[t])]
           late == {t \in Desired \ unadded : pending /\ missed[t] # NoFire}
       IN  /\ Queued(late \ raises, missed)
           /\ owed' = [t \in Targets |-> IF t \in late \ raises THEN {} ELSE owed[t]]
           /\ raised' = [t \in Targets |-> IF t \in unadded THEN raised[t] \cup owed[t]
                                           ELSE IF t \in late \cap raises
                                           THEN raised[t] \cup Overdue(t) ELSE raised[t]]
    /\ pending' = FALSE
    /\ UNCHANGED <<now, settings, leading, losses>>

\* _cron_fire: due fires coalesce into one; one later than the grace time is
\* dropped; a target disabled meanwhile is skipped; one whose run cannot be queued
\* has lost its fire.
Fire(t, raises) ==
    /\ jobs[t].next < now
    /\ jobs' = [jobs EXCEPT ![t].next = NextFire(jobs[t].cron, now)]
    /\ LET due == Max({f \in jobs[t].cron : f < now})
           acts == enabled[t] /\ now - due <= Grace
           queues == acts /\ ~raises
       IN  /\ Queued(IF queues THEN {t} ELSE {}, [u \in Targets |-> due])
           /\ owed' = [owed EXCEPT ![t] = IF queues THEN {} ELSE IF acts THEN @ ELSE @ \ 0 .. now - 1]
           /\ raised' = [raised EXCEPT ![t] = IF acts /\ raises THEN @ \cup Overdue(t) ELSE @]
    /\ UNCHANGED <<now, settings, leading, since, pending, losses>>

-----------------------------------------------------------------------------
(* Runs, administrators, time *)

\* "Run now", "Sync now", the CLI.
RunNow(t) ==
    /\ run[t] = "none"
    /\ run' = [run EXCEPT ![t] = "queued"]
    /\ latest' = [latest EXCEPT ![t] = now]
    /\ owed' = [owed EXCEPT ![t] = {}]
    /\ UNCHANGED <<now, settings, leadership, made, raised>>

StartRun(t) ==
    /\ run[t] = "queued"
    /\ run' = [run EXCEPT ![t] = "running"]
    /\ latest' = IF t \in Collectors THEN [latest EXCEPT ![t] = now] ELSE latest
    /\ owed' = IF t \in Collectors THEN [owed EXCEPT ![t] = {}] ELSE owed
    /\ UNCHANGED <<now, settings, leadership, made, raised>>

EndRun(t) ==
    /\ run[t] = "running"
    /\ run' = [run EXCEPT ![t] = "none"]
    /\ UNCHANGED <<now, settings, leadership, latest, made, owed, raised>>

\* An edit of the schedule: cron expression, enabled, or both.
Edit(t) ==
    /\ edits < MaxEdits
    /\ edits' = edits + 1
    /\ \E c \in Crons, on \in BOOLEAN :
        /\ <<c, on>> # <<cron[t], enabled[t]>>
        /\ cron' = [cron EXCEPT ![t] = c]
        /\ enabled' = [enabled EXCEPT ![t] = on]
    /\ owed' = [owed EXCEPT ![t] = {}]
    /\ UNCHANGED <<now, leadership, runs, raised>>

\* A fire is owed when no leader runs, or the leader has the job.
Tick ==
    /\ now < MaxTime
    /\ now' = now + 1
    /\ owed' = [t \in Targets |->
                    IF enabled[t] /\ now' \in cron[t] /\ (~leading \/ pending \/ Kept(t))
                    THEN owed[t] \cup {now'} ELSE owed[t]]
    /\ UNCHANGED <<settings, leadership, runs, raised>>

SchedulesNext ==
    \/ Gain \/ Lose \/ Tick
    \/ \E unadded, raises \in SUBSET Targets : Reconcile(unadded, raises)
    \/ \E t \in Targets, raises \in BOOLEAN : Fire(t, raises)
    \/ \E t \in Targets : RunNow(t) \/ StartRun(t) \/ EndRun(t) \/ Edit(t)

SchedulesSpec == SchedulesInit /\ [][SchedulesNext]_scheduleVars

-----------------------------------------------------------------------------

\* A leader that has reconciled and has no due job has acted on every fire
\* before now: those of its own time and those its predecessors missed.  What it
\* leaves without a run are the fires it failed to queue a run for itself, and
\* those only until another leads, which catches up on them.
NoFireForgotten ==
    \A t \in Targets :
        leading /\ ~pending /\ jobs[t].next >= now /\ Kept(t) => Overdue(t) \subseteq raised[t]

\* A fire is given at most one run, and a later run is for a later fire,
\* whoever led when it passed.
OneRunPerFire ==
    \A t \in Targets : \A i \in 1 .. Len(made[t]) - 1 : made[t][i] < made[t][i + 1]

\* Every fire is acted on, once, but for those whose leader fails to queue a run.
FiresAreRun == NoFireForgotten /\ OneRunPerFire
=============================================================================
