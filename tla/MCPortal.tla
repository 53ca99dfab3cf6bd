------------------------------ MODULE MCPortal ------------------------------
(***************************************************************************)
(* Small instances, for one run of TLC, of the portal's components that    *)
(* serve its members and start, schedule and verify what the job runs do.  *)
(* The components share no variables; a behaviour is one of the component  *)
(* it starts as, the variables of the others are Off.                      *)
(***************************************************************************)
EXTENDS Integers, Sequences, TLC

CONSTANTS
    None, Null, Never, Off, Idle, Resting, Unbounded, NoSweep,
    client, reviewer, adm1, adm2, secret1, someAction, caller1, caller2,
    k1, t1, t2, p1

VARIABLES
    part,
    now, member, keys, cookies, adminLock, req, bootstrapped,       \* Members
    counters, attempt, window, tried, begun,                        \* RateLimit
    row, saves, keyring, job, saved,                                \* Collectors
    account, allowed, probe, changes,                               \* PermissionProbe
    tests, onFile, calls, standing, missed,                         \* TestRecords
    controls, records, policies, basics, request,                   \* Journey
    HeadOf, revision, tables, mayWrite, procs, holds, waits,        \* Deployment
    clock, cron, enabled, leading, jobs, since, pending, run,       \* Schedules
    latest, edits, losses, owed, made, raised,
    rows, listed, sweep,                                            \* StoreSweep
    trees, objects, sessions, versions, source, walk                \* HistoryWalk

-----------------------------------------------------------------------------
(* Members: two of them, one browser, two requests at a time.              *)

Ids == {1, 2}
Browsers == {1}
Expiries == {Never, 1}
MemberRequests == {"r1", "r2"}

People == INSTANCE Members WITH
    Requests <- MemberRequests, Margin <- 1, Lifetime <- 1, MaxTime <- 2, MaxKeys <- 3,
    MaxEpoch <- 1, MaxCookies <- 2

ASSUME People!MembersAssumption

(* Sign-ins: two requests of one client and one reviewer, one allowed in a *)
(* window.                                                                 *)

SignIns == {"r1", "r2"}
Clients == {client}
Reviewers == {reviewer}

Limits == INSTANCE RateLimit WITH
    Attempts <- SignIns, Limit <- 1, MaxAge <- 1, MaxWindow <- 2

ASSUME Limits!RateLimitAssumption

-----------------------------------------------------------------------------
(* A collector saved by two administrators while it runs, without keys or  *)
(* with one; the probe of actions with and without a resource of their own, *)
(* and of one no probe exists for.                                         *)

CollectorAdmins == {adm1, adm2}
CollectorActions == {someAction}
Secrets == {secret1}
Outcomes == {{"pass"}}
Keyrings == {<<>>, <<"k">>}

Collector == INSTANCE Collectors WITH
    Admins <- CollectorAdmins, Actions <- CollectorActions, Probed <- CollectorActions, MaxSaves <- 2

Required == {"GetEncryptionConfiguration", "ListMFADevices", "GetAccountPasswordPolicy", "DescribeThing"}
Resources == {"user", "bucket"}

Prober == INSTANCE PermissionProbe WITH MaxChanges <- 1, Nothing <- None

ASSUME Prober!ProbeAssumption

-----------------------------------------------------------------------------
(* One test, two callers, batches of up to two items; the journey of a     *)
(* control with two tests and a policy, changed once while it is answered. *)

TestIds == {"t"}
Callers == {caller1, caller2}
Execution(outcome, evidence) == [test |-> "t", outcome |-> outcome, evidence |-> evidence]
Bodies ==
    {<<Execution("success", "none")>>, <<Execution("bad", "none")>>, <<Execution("none", "good")>>,
     <<Execution("failure", "refused"), Execution("success", "good")>>, <<Execution("failure", "good")>>}

Recording == INSTANCE TestRecords WITH Tests <- TestIds

ASSUME Recording!TestRecordsAssumption

Controls == {k1}
TestRecordIds == {t1, t2}
Policies == {p1}
Categories == {"a"}
CategoryOf == (k1 :> "a") @@ (p1 :> "a")
Basics == {"settings", "team", "systems", "vendors", "collector", "hashes", "auditor"}

JourneyOf == INSTANCE Journey WITH
    Records <- TestRecordIds, NoRecord <- None, MinPolicies <- 1, MaxRecordChanges <- 1

ASSUME JourneyOf!JourneyAssumption

-----------------------------------------------------------------------------
(* Three containers of three releases.  The first creates table 1 and the  *)
(* audit log, the second table 2, the third table 3, altering both and     *)
(* writing rows; a transaction of the portal writes tables 2 and 1.        *)

Containers == {"a", "b", "c"}
Alters == <<{}, {}, {1, 2}>>
Creates == <<{1, 9}, {2}, {3}>>
WritesRows == {3}
Transactions == {<<2, 1>>}

Rollout == INSTANCE Deployment WITH
    Newest <- 3, AuditLog <- 9, MaxAttempts <- 2, Unplaced <- 99

ASSUME Rollout!DeploymentAssumption

(* A schedule with a sparse and a dense expression, a fire in common.      *)

Crons == {{2, 5}, {1, 2, 4}}
Targets == {"target"}

Schedule == INSTANCE Schedules WITH
    now <- clock, Collectors <- Targets, Grace <- 1, MaxTime <- 6, MaxEdits <- 1, MaxLosses <- 2

ASSUME Schedule!SchedulesAssumption

-----------------------------------------------------------------------------
(* The evidence store's verification of two records, one in a page, and    *)
(* two prefixes, in slices; the verification of the decision logs of two   *)
(* sessions, one in a slice (MCHistoryWalk has sessions of an earlier      *)
(* portal too).                                                            *)

RecordIds == {1, 2, 3}
Costs == {2, 4}
Budgets == {[items |-> 1, bytes |-> 3], [items |-> 3, bytes |-> 3], Unbounded}

Sweep == INSTANCE StoreSweep WITH
    keys <- listed, StorePrefixes <- 1, KeysOf <- 1, RecordPage <- 2

ASSUME Sweep!SweepAssumption

SessionIds == {1, 2}
Restored == {}

LogWalk == INSTANCE HistoryWalk WITH Slice <- 1, MaxVersions <- 2, MaxChanges <- 2

ASSUME LogWalk!WalkAssumption

-----------------------------------------------------------------------------

peopleVars == <<now, member, keys, cookies, adminLock, req, bootstrapped>>
limitVars == <<counters, attempt, window, tried, begun>>
collectorVars == <<row, saves, keyring, job, saved>>
probeVars == <<account, allowed, probe, changes>>
recordingVars == <<tests, onFile, calls, standing, missed>>
journeyVars == <<controls, records, policies, basics, request>>
rolloutVars == <<HeadOf, revision, tables, mayWrite, procs, holds, waits>>
scheduleVars == <<clock, cron, enabled, leading, jobs, since, pending, run, latest, edits, losses,
                  owed, made, raised>>
sweepVars == <<rows, listed, sweep>>
walkVars == <<trees, objects, sessions, versions, source, walk>>

Off3(x, y, z) == x = Off /\ y = Off /\ z = Off
Off4(x, y, z, w) == Off3(x, y, z) /\ w = Off

Init ==
    /\ part \in {"people", "limits", "collector", "probe", "recording", "journey", "rollout",
                 "schedule", "sweep", "walk"}
    /\ IF part = "people" THEN People!MembersInit
       ELSE Off4(now, member, keys, cookies) /\ Off3(adminLock, req, bootstrapped)
    /\ IF part = "limits" THEN Limits!RateInit
       ELSE window = Off /\ Off4(counters, attempt, tried, begun)
    /\ IF part = "collector" THEN Collector!CollectorsInit
       ELSE row = Off /\ Off4(saves, keyring, job, saved)
    /\ IF part = "probe" THEN Prober!ProbeInit ELSE Off4(account, allowed, probe, changes)
    /\ IF part = "recording" THEN Recording!TestsInit
       ELSE Off3(tests, onFile, calls) /\ standing = Off /\ missed = Off
    /\ IF part = "journey" THEN JourneyOf!JourneyInit
       ELSE request = Off /\ Off4(controls, records, policies, basics)
    /\ IF part = "rollout" THEN Rollout!DeployInit
       ELSE Off4(HeadOf, revision, tables, mayWrite) /\ Off3(procs, holds, waits)
    /\ IF part = "schedule" THEN Schedule!SchedulesInit
       ELSE /\ Off4(clock, cron, enabled, leading) /\ Off4(jobs, since, pending, run)
            /\ latest = Off /\ raised = Off /\ Off4(edits, losses, owed, made)
    /\ IF part = "sweep" THEN Sweep!SweepInit ELSE Off3(rows, listed, sweep)
    /\ IF part = "walk" THEN LogWalk!WalkInit
       ELSE Off4(trees, objects, sessions, versions) /\ source = Off /\ walk = Off

\* The other components do not move.
Only(p) ==
    /\ part = p /\ UNCHANGED part
    /\ p # "people" => UNCHANGED peopleVars
    /\ p # "limits" => UNCHANGED limitVars
    /\ p # "collector" => UNCHANGED collectorVars
    /\ p # "probe" => UNCHANGED probeVars
    /\ p # "recording" => UNCHANGED recordingVars
    /\ p # "journey" => UNCHANGED journeyVars
    /\ p # "rollout" => UNCHANGED rolloutVars
    /\ p # "schedule" => UNCHANGED scheduleVars
    /\ p # "sweep" => UNCHANGED sweepVars
    /\ p # "walk" => UNCHANGED walkVars

Next ==
    \/ Only("people") /\ People!MembersNext
    \/ Only("limits") /\ Limits!RateNext
    \/ Only("collector") /\ Collector!CollectorsNext
    \/ Only("probe") /\ Prober!ProbeNext
    \/ Only("recording") /\ Recording!TestsNext
    \/ Only("journey") /\ JourneyOf!JourneyNext
    \/ Only("rollout") /\ Rollout!DeployNext
    \/ Only("schedule") /\ Schedule!SchedulesNext
    \/ Only("sweep") /\ Sweep!SweepNext
    \/ Only("walk") /\ LogWalk!WalkNext

vars == <<part, peopleVars, limitVars, collectorVars, probeVars, recordingVars, journeyVars,
          rolloutVars, scheduleVars, sweepVars, walkVars>>

Spec == Init /\ [][Next]_vars

-----------------------------------------------------------------------------
(* What the components promise.                                            *)

\* Members: no step of overlapping requests takes the last usable administrator,
\* makes a second one by set-up, or lets a session that ended be used again.
MembersStand ==
    [][part = "people" => People!MembersStand]_peopleVars

\* Sign-ins: budgets hold whatever requests overlap and windows pass.
BudgetsHold == part = "limits" => Limits!BudgetsHold

\* Collectors: no save takes back credentials or a mode that another stored after
\* it read the row.
CredentialsStand ==
    [][part = "collector" => Collector!CredentialsStand]_collectorVars

\* Permission probe: what it reports stands for what the credentials may do.
ProbeTells == part = "probe" => Prober!ProbeTells

\* Test records: a test's status is that of its outcome, and the outcome the last
\* execution's or one recorded while that one's request was under way.
StatusIsOutcome == part = "recording" => Recording!StatusIsOutcome

\* Journey: phases, scores and next actions are those of the records.
JourneyIsTrue == part = "journey" => JourneyOf!JourneyIsTrue

\* Deployment: migrating closes no cycle of locks, the revisions that run hold
\* the locks they need, and what serves finds its schema and a safe role.
RolloutIsSafe == part = "rollout" => Rollout!RolloutIsSafe

\* Schedules: no fire is forgotten but one whose leader failed to queue its run,
\* until another leads, and none gets two runs.
FiresAreRun == part = "schedule" => Schedule!FiresAreRun

\* Verification in slices: of the evidence store, valid slices saw everything and
\* every slice advances; of the decision logs, a walk reaches every version and
\* calls only what was forged broken.
WalksAreWhole ==
    /\ part = "sweep" => Sweep!SweepIsTrue
    /\ part = "walk" => LogWalk!WalkIsTrue
=============================================================================
