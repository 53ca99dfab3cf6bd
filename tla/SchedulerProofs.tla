---------------------------- MODULE SchedulerProofs ----------------------------
(***************************************************************************)
(* Theorems about the scheduler: Leadership and Schedules.                 *)
(***************************************************************************)
EXTENDS Leadership, Schedules, FiniteSetTheorems, SequenceTheorems, WellFoundedInduction, TLAPS

-----------------------------------------------------------------------------
(* Leadership, for any number of processes, runs, slots and faults.        *)

\* _inflight holds the key of every run submitted to or executed by a
\* process, of whatever pool, and never more than MAX_CONCURRENT_RUNS keys.
Tracked ==
    \A p \in Processes :
        /\ waiting[p] \cup working[p] \subseteq inflight[p]
        /\ waiting[p] \cap working[p] = {}
        /\ Cardinality(inflight[p]) <= MaxConcurrent

IInv == TypeOK /\ Tracked

\* Every step keeps every variable's type.
LEMMA TypeStep == TypeOK /\ [Next]_vars => TypeOK'
<1> USE LeadershipAssumption DEF TypeOK, Phases, procs, rows, vars
<1> SUFFICES ASSUME TypeOK, [Next]_vars PROVE TypeOK'
  OBVIOUS
<1>1. ASSUME NEW r \in Runs, Enqueue(r) PROVE TypeOK'
  BY <1>1 DEF Enqueue
<1>2. ASSUME NEW p \in Processes, Elect(p) PROVE TypeOK'
  BY <1>2 DEF Elect, Goto
<1>3. ASSUME NEW p \in Processes, CheckAlive(p) PROVE TypeOK'
  BY <1>3 DEF CheckAlive, Goto
<1>4. ASSUME NEW p \in Processes, FindLost(p) PROVE TypeOK'
  BY <1>4 DEF FindLost, StepDown
<1>5. ASSUME NEW p \in Processes, LoopError(p) PROVE TypeOK'
  BY <1>5 DEF LoopError, Fault, Goto, StepDown
<1>6. ASSUME NEW p \in Processes, EndTurn(p) PROVE TypeOK'
  BY <1>6 DEF EndTurn, Goto
<1>7. ASSUME NEW p \in Processes, Stop(p) PROVE TypeOK'
  BY <1>7 DEF Stop, Fault
<1>19. ASSUME NEW p \in Processes, EndStop(p) PROVE TypeOK'
  BY <1>19 DEF EndStop, Goto, StepDown
<1>8. ASSUME NEW p \in Processes, NEW r \in Runs, Reap(p, r) PROVE TypeOK'
  BY <1>8 DEF Reap
<1>9. ASSUME NEW p \in Processes, NEW r \in Runs, Dispatch(p, r) PROVE TypeOK'
  BY <1>9 DEF Dispatch
<1>10. ASSUME NEW p \in Processes, NEW r \in Runs, Start(p, r) PROVE TypeOK'
  BY <1>10 DEF Start
<1>11. ASSUME NEW p \in Processes, NEW r \in Runs, Claim(p, r) PROVE TypeOK'
  BY <1>11 DEF Claim
<1>12. ASSUME NEW p \in Processes, NEW r \in Runs, GiveBack(p, r) PROVE TypeOK'
  BY <1>12 DEF GiveBack, Leave
<1>13. ASSUME NEW p \in Processes, NEW r \in Runs, Finish(p, r) PROVE TypeOK'
  BY <1>13 DEF Finish, Leave
<1>14. ASSUME NEW p \in Processes, Die(p) PROVE TypeOK'
  BY <1>14 DEF Die, Fault, Exit, Goto
<1>15. ASSUME NEW p \in Processes, ExitStopped(p) PROVE TypeOK'
  BY <1>15 DEF ExitStopped, Exit, Goto
<1>16. ASSUME NEW p \in Processes, Restart(p) PROVE TypeOK'
  BY <1>16 DEF Restart, Goto
<1>17. ASSUME LoseLock PROVE TypeOK'
  BY <1>17 DEF LoseLock, Fault
<1>18. ASSUME UNCHANGED vars PROVE TypeOK'
  BY <1>18
<1> QED
  BY <1>1, <1>2, <1>3, <1>4, <1>5, <1>6, <1>7, <1>8, <1>9, <1>10, <1>11, <1>12, <1>13, <1>14, <1>15, <1>16, <1>17, <1>18, <1>19 DEF Next, LoopStep, ThreadStep

\* Runs is finite, so the keys in flight can be counted.
LEMMA InflightFinite ==
    ASSUME TypeOK, NEW p \in Processes
    PROVE  IsFiniteSet(inflight[p]) /\ Cardinality(inflight[p]) \in Nat
<1>1. inflight[p] \subseteq Runs
  BY DEF TypeOK
<1> QED
  BY <1>1, LeadershipAssumption, FS_Subset, FS_CardinalityType

\* Dropping a key does not raise their number.
LEMMA FewerKeys ==
    ASSUME TypeOK, NEW p \in Processes, NEW r
    PROVE  /\ Cardinality(inflight[p] \ {r}) \in Nat
           /\ Cardinality(inflight[p] \ {r}) <= Cardinality(inflight[p])
<1>1. IsFiniteSet(inflight[p])
  BY InflightFinite
<1>2. inflight[p] \ {r} \subseteq inflight[p]
  OBVIOUS
<1> QED
  BY <1>1, <1>2, FS_Subset, FS_CardinalityType

\* Every step keeps the keys in flight in step with the pools.
LEMMA TrackedStep == IInv /\ [Next]_vars => Tracked'
<1> USE LeadershipAssumption DEF IInv, TypeOK, Tracked, procs, rows, vars
<1> SUFFICES ASSUME IInv, [Next]_vars PROVE Tracked'
  OBVIOUS
<1>1. ASSUME NEW r \in Runs, Enqueue(r) PROVE Tracked'
  BY <1>1 DEF Enqueue
<1>2. ASSUME NEW p \in Processes, Elect(p) PROVE Tracked'
  BY <1>2 DEF Elect, Goto
<1>3. ASSUME NEW p \in Processes, CheckAlive(p) PROVE Tracked'
  BY <1>3 DEF CheckAlive, Goto
<1>4. ASSUME NEW p \in Processes, FindLost(p) PROVE Tracked'
  BY <1>4 DEF FindLost, StepDown
<1>5. ASSUME NEW p \in Processes, LoopError(p) PROVE Tracked'
  BY <1>5 DEF LoopError, Fault, Goto, StepDown
<1>6. ASSUME NEW p \in Processes, EndTurn(p) PROVE Tracked'
  BY <1>6 DEF EndTurn, Goto
<1>7. ASSUME NEW p \in Processes, Stop(p) PROVE Tracked'
  BY <1>7 DEF Stop, Fault
<1>19. ASSUME NEW p \in Processes, EndStop(p) PROVE Tracked'
  BY <1>19 DEF EndStop, Goto, StepDown
<1>8. ASSUME NEW p \in Processes, NEW r \in Runs, Reap(p, r) PROVE Tracked'
  BY <1>8 DEF Reap
<1>9. ASSUME NEW p \in Processes, NEW r \in Runs, Dispatch(p, r) PROVE Tracked'
  <2>1. Cardinality(inflight[p] \cup {r}) = Cardinality(inflight[p]) + 1
    BY <1>9, InflightFinite, FS_AddElement DEF Dispatch
  <2>2. Cardinality(inflight[p]) + 1 <= MaxConcurrent
    BY <1>9, InflightFinite DEF Dispatch
  <2> QED
    BY <1>9, <2>1, <2>2 DEF Dispatch
<1>10. ASSUME NEW p \in Processes, NEW r \in Runs, Start(p, r) PROVE Tracked'
  <2>1. /\ Cardinality(inflight[p] \ {r}) \in Nat
        /\ Cardinality(inflight[p] \ {r}) <= Cardinality(inflight[p])
    BY FewerKeys
  <2>2. CASE stop[p]
    <3> SUFFICES ASSUME NEW q \in Processes
                 PROVE  /\ waiting'[q] \cup working'[q] \subseteq inflight'[q]
                        /\ waiting'[q] \cap working'[q] = {}
                        /\ Cardinality(inflight'[q]) <= MaxConcurrent
      OBVIOUS
    <3>1. /\ inflight'[q] = IF q = p THEN inflight[p] \ {r} ELSE inflight[q]
          /\ waiting'[q] = IF q = p THEN waiting[p] \ {r} ELSE waiting[q]
          /\ working' = working
      BY <1>10, <2>2 DEF Start
    <3>2. r \in waiting[p]
      BY <1>10 DEF Start
    <3>3. CASE q = p
      <4>1. inflight'[q] = inflight[p] \ {r} /\ waiting'[q] = waiting[p] \ {r}
        BY <3>1, <3>3
      <4>2. Cardinality(inflight[p] \ {r}) <= MaxConcurrent
        BY <2>1, InflightFinite
      <4> QED
        BY <3>1, <3>2, <3>3, <4>1, <4>2
    <3>4. CASE q # p
      BY <3>1, <3>4
    <3> QED
      BY <3>3, <3>4
  <2>3. CASE ~stop[p]
    BY <1>10, <2>3 DEF Start
  <2> QED
    BY <2>2, <2>3
<1>11. ASSUME NEW p \in Processes, NEW r \in Runs, Claim(p, r) PROVE Tracked'
  BY <1>11 DEF Claim
<1>12. ASSUME NEW p \in Processes, NEW r \in Runs, GiveBack(p, r) PROVE Tracked'
  <2>1. /\ Cardinality(inflight[p] \ {r}) \in Nat
        /\ Cardinality(inflight[p] \ {r}) <= Cardinality(inflight[p])
    BY FewerKeys
  <2> QED
    BY <1>12, <2>1, InflightFinite DEF GiveBack, Leave
<1>13. ASSUME NEW p \in Processes, NEW r \in Runs, Finish(p, r) PROVE Tracked'
  <2>1. /\ Cardinality(inflight[p] \ {r}) \in Nat
        /\ Cardinality(inflight[p] \ {r}) <= Cardinality(inflight[p])
    BY FewerKeys
  <2> QED
    BY <1>13, <2>1, InflightFinite DEF Finish, Leave
<1>14. ASSUME NEW p \in Processes, Die(p) PROVE Tracked'
  <2>1. Cardinality({}) = 0
    BY FS_EmptySet
  <2> QED
    BY <1>14, <2>1 DEF Die, Exit
<1>15. ASSUME NEW p \in Processes, ExitStopped(p) PROVE Tracked'
  <2>1. Cardinality({}) = 0
    BY FS_EmptySet
  <2> QED
    BY <1>15, <2>1 DEF ExitStopped, Exit
<1>16. ASSUME NEW p \in Processes, Restart(p) PROVE Tracked'
  BY <1>16 DEF Restart, Goto
<1>17. ASSUME LoseLock PROVE Tracked'
  BY <1>17 DEF LoseLock, Fault
<1>18. ASSUME UNCHANGED vars PROVE Tracked'
  BY <1>18
<1> QED
  BY <1>1, <1>2, <1>3, <1>4, <1>5, <1>6, <1>7, <1>8, <1>9, <1>10, <1>11, <1>12, <1>13, <1>14, <1>15, <1>16, <1>17, <1>18, <1>19 DEF Next, LoopStep, ThreadStep

\* Every reachable state of the leaders and their threads satisfies the invariant
\* (app/services/scheduler.py: SchedulerService._run and _execute).
THEOREM Invariance == Spec => []IInv
<1>1. Init => IInv
  BY LeadershipAssumption, FS_EmptySet DEF Init, IInv, TypeOK, Tracked, Phases
<1>2. IInv /\ [Next]_vars => IInv'
  BY TypeStep, TrackedStep DEF IInv
<1> QED
  BY <1>1, <1>2, PTL DEF Spec

\* No process executes more than MAX_CONCURRENT_RUNS runs, the threads of the
\* pools of its earlier leaderships included: _inflight outlives the pool.
THEOREM WithinLimit == Spec => []ConcurrencyLimit
<1>1. IInv => ConcurrencyLimit
  <2> SUFFICES ASSUME IInv, NEW p \in Processes PROVE Cardinality(working[p]) <= MaxConcurrent
    BY DEF ConcurrencyLimit
  <2>1. IsFiniteSet(inflight[p]) /\ Cardinality(inflight[p]) \in Nat
    BY InflightFinite DEF IInv
  <2>2. working[p] \subseteq inflight[p] /\ Cardinality(inflight[p]) <= MaxConcurrent
    BY DEF IInv, Tracked
  <2>3. Cardinality(working[p]) \in Nat /\ Cardinality(working[p]) <= Cardinality(inflight[p])
    BY <2>1, <2>2, FS_Subset, FS_CardinalityType
  <2> QED
    BY <2>1, <2>2, <2>3, LeadershipAssumption
<1> QED
  BY <1>1, Invariance, PTL

\* A run left on a thread of an earlier pool is not submitted again.
THEOREM NeverTwice == Spec => []SubmittedOnce
<1>1. IInv => SubmittedOnce
  BY DEF IInv, Tracked, SubmittedOnce
<1> QED
  BY <1>1, Invariance, PTL

-----------------------------------------------------------------------------
(* Schedules, for any targets, cron expressions, edits and leaderships.    *)

\* A leader's job is at the next fire; there is none before it reconciled.
JobAhead(t) ==
    /\ ~leading \/ pending => jobs[t].cron = {} /\ jobs[t].next = NoFire
    /\ jobs[t].next \in jobs[t].cron \cup {NoFire}
    /\ \A f \in jobs[t].cron : f >= now => jobs[t].next <= f

\* Fires owed passed after the latest run; a leader that has reconciled owes
\* those since its job's next one only, and those it failed to queue a run for.
OwedSince(t) ==
    /\ latest[t] <= now /\ since[t] <= now
    /\ \A f \in owed[t] : latest[t] < f /\ f <= now /\ f \in cron[t] /\ enabled[t]
    /\ leading /\ ~pending =>
          \A f \in owed[t] : f \in raised[t] \/ (Kept(t) /\ jobs[t].next <= f)

\* Fires were given runs in their order, before the latest run and the next fire.
MadeInOrder(t) ==
    /\ \A i \in DOMAIN made[t] : made[t][i] < latest[t] /\ made[t][i] < jobs[t].next
    /\ \A i \in 1 .. Len(made[t]) - 1 : made[t][i] < made[t][i + 1]

OnSchedule(t) == JobAhead(t) /\ OwedSince(t) /\ MadeInOrder(t)

SchedulesInv == SchedulesTypes /\ \A t \in Targets : OnSchedule(t)

\* A set of natural numbers that holds one has a least one.
LEMMA LeastNumber ==
    ASSUME NEW S \in SUBSET Nat, S # {} PROVE \E n \in S : \A m \in S : n <= m
<1>1. PICK n \in S : \A m \in S : ~(<<m, n>> \in OpToRel(<, Nat))
  BY NatLessThanWellFounded, WFMin
<1>2. \A m \in S : ~(m < n)
  BY <1>1, Zenon DEF OpToRel
<1> QED
  BY <1>2

\* The earliest and the latest of some fires.
LEMMA FirstAndLast ==
    ASSUME NEW limit \in Nat, NEW S \in SUBSET (0 .. limit), S # {}
    PROVE  /\ Min(S) \in S /\ \A f \in S : Min(S) <= f
           /\ Max(S) \in S /\ \A f \in S : f <= Max(S)
<1>1. \E n \in S : \A m \in S : n <= m
  BY LeastNumber
<1>2. \E n \in S : \A m \in S : m <= n
  <2> DEFINE Down == {limit - f : f \in S}
  <2>a. Down # {}
    OBVIOUS
  <2>b. \A k \in Down : k \in Nat
    OBVIOUS
  <2>1. PICK k \in Down : \A j \in Down : k <= j
    <3> HIDE DEF Down
    <3> QED
      BY <2>a, <2>b, LeastNumber
  <2>2. PICK n \in S : limit - n = k
    BY <2>1
  <2>3. ASSUME NEW m \in S PROVE m <= n
    BY <2>1, <2>2
  <2> QED
    BY <2>3
<1> QED
  BY <1>1, <1>2 DEF Min, Max

\* NextFire is the first fire at or after a time.
LEMMA NextFireIsFirst ==
    ASSUME SchedulesAssumption, NEW c \in SUBSET (1 .. MaxTime), NEW time \in Nat
    PROVE  /\ NextFire(c, time) \in c \cup {NoFire} /\ NextFire(c, time) \in 1 .. NoFire
           /\ NextFire(c, time) # NoFire => NextFire(c, time) >= time
           /\ \A f \in c : f >= time => NextFire(c, time) <= f
<1> DEFINE later == {f \in c : f >= time}
<1>1. MaxTime \in Nat
  BY DEF SchedulesAssumption
<1>2. CASE later = {}
  BY <1>1, <1>2 DEF NextFire, NoFire
<1>3. CASE later # {}
  <2>a. \A f \in later : f \in 0 .. MaxTime
    BY <1>1
  <2>1. later \in SUBSET (0 .. MaxTime)
    BY <2>a
  <2>2. Min(later) \in later /\ \A f \in later : Min(later) <= f
    BY <1>1, <1>3, <2>1, FirstAndLast
  <2>3. NextFire(c, time) = Min(later)
    BY <1>3 DEF NextFire
  <2> HIDE DEF later
  <2> DEFINE first == Min(later)
  <2>4. first \in c /\ first >= time /\ \A f \in c : f >= time => first <= f
    BY <2>2 DEF later
  <2>5. first \in 1 .. MaxTime /\ NextFire(c, time) = first
    BY <2>3, <2>4
  <2> HIDE DEF first
  <2> QED
    BY <1>1, <2>4, <2>5 DEF NoFire
<1> QED
  BY <1>2, <1>3

-----------------------------------------------------------------------------
(* Types.                                                                  *)

\* The expressions of schedules and jobs are bounded sets of instants.
LEMMA FiresAreBounded ==
    ASSUME SchedulesAssumption, SchedulesTypes, NEW t \in Targets
    PROVE  /\ cron[t] \in SUBSET (1 .. MaxTime) /\ jobs[t].cron \in SUBSET (1 .. MaxTime)
           /\ now \in 0 .. MaxTime /\ latest[t] \in 0 .. MaxTime /\ MaxTime \in Nat
<1>1. cron[t] \in Crons /\ jobs[t].cron \in Crons \cup {{}}
  BY DEF SchedulesTypes
<1>2. Crons \subseteq SUBSET (1 .. MaxTime)
  BY DEF SchedulesAssumption
<1>3. jobs[t].cron \in SUBSET (1 .. MaxTime)
  <2> DEFINE c == jobs[t].cron
  <2>1. c \in Crons \cup {{}}
    BY <1>1
  <2> HIDE DEF c
  <2>2. c \in SUBSET (1 .. MaxTime)
    BY <1>2, <2>1
  <2> QED
    BY <2>2 DEF c
<1> QED
  BY <1>1, <1>2, <1>3 DEF SchedulesTypes, Times, SchedulesAssumption

\* The fires given runs are instants.
LEMMA MadeAreTimes ==
    ASSUME SchedulesAssumption, SchedulesTypes, NEW t \in Targets
    PROVE  /\ DOMAIN made[t] = 1 .. Len(made[t]) /\ Len(made[t]) \in Nat
           /\ \A i \in DOMAIN made[t] : made[t][i] \in Nat
<1>1. made[t] \in Seq(Times) /\ DOMAIN made[t] = 1 .. Len(made[t]) /\ Len(made[t]) \in Nat
  BY DEF SchedulesTypes
<1>2. \A i \in 1 .. Len(made[t]) : made[t][i] \in Times
  BY <1>1, ElementOfSeq
<1>3. \A x \in Times : x \in Nat
  BY DEF Times, SchedulesAssumption
<1> QED
  BY <1>1, <1>2, <1>3

\* Queued keeps the types of runs.
LEMMA QueuedTypes ==
    ASSUME SchedulesAssumption, SchedulesTypes, NEW T \in SUBSET Targets, NEW fires,
           \A t \in T : fires[t] \in Times, Queued(T, fires)
    PROVE  /\ run' \in [Targets -> {"none", "queued", "running"}]
           /\ latest' \in [Targets -> Times] /\ made' \in [Targets -> Seq(Times)]
<1>1. ASSUME NEW t \in T PROVE Append(made[t], fires[t]) \in Seq(Times)
  BY <1>1, AppendProperties DEF SchedulesTypes
<1> QED
  BY <1>1 DEF Queued, SchedulesTypes

\* A fire that is due is in the past.
LEMMA DueIsPast ==
    ASSUME SchedulesAssumption, SchedulesInv, NEW t \in Targets, jobs[t].next < now
    PROVE  LET due == Max({f \in jobs[t].cron : f < now})
           IN  due \in Times /\ due < now /\ jobs[t].next <= due
<1> DEFINE passed == {f \in jobs[t].cron : f < now}
<1>1. jobs[t].next \in passed
  BY DEF SchedulesInv, SchedulesTypes, OnSchedule, JobAhead, Times, NoFire, SchedulesAssumption
<1>2. \A f \in passed : f \in 0 .. MaxTime
  BY FiresAreBounded DEF SchedulesInv
<1>3. Max(passed) \in passed /\ \A f \in passed : f <= Max(passed)
  <2> HIDE DEF passed
  <2>1. passed \in SUBSET (0 .. MaxTime)
    BY <1>2
  <2> QED
    BY <1>1, <2>1, FirstAndLast DEF SchedulesAssumption
<1> HIDE DEF passed
<1>4. /\ Max(passed) \in 0 .. MaxTime /\ jobs[t].next <= Max(passed)
  BY <1>1, <1>2, <1>3
<1>5. Max(passed) < now
  BY <1>3 DEF passed
<1> QED
  BY <1>4, <1>5 DEF passed, Times

\* A fire that was missed lies between the latest run and now.
LEMMA MissedIsPast ==
    ASSUME SchedulesAssumption, SchedulesInv, NEW t \in Targets, NEW time \in Times, time <= now
    PROVE  LET missed == FirstFireBetween(cron[t], latest[t], time)
           IN  /\ missed # NoFire => missed \in Times /\ latest[t] < missed /\ missed < now
               /\ missed = NoFire => \A f \in cron[t] : latest[t] < f => time <= f
<1> DEFINE fire == NextFire(cron[t], latest[t] + 1)
<1>1. /\ cron[t] \in SUBSET (1 .. MaxTime) /\ latest[t] \in Nat /\ MaxTime \in Nat
      /\ now \in 0 .. MaxTime /\ time \in 0 .. MaxTime
  BY FiresAreBounded DEF SchedulesInv, Times
<1>2. /\ fire \in 1 .. NoFire /\ (fire # NoFire => fire >= latest[t] + 1)
      /\ \A f \in cron[t] : f >= latest[t] + 1 => fire <= f
  BY <1>1, NextFireIsFirst
<1> HIDE DEF fire
<1>3. FirstFireBetween(cron[t], latest[t], time) = IF fire < time THEN fire ELSE NoFire
  BY DEF FirstFireBetween, fire
<1>4. \A f \in cron[t] : f \in 1 .. MaxTime
  BY <1>1
<1> QED
  BY <1>1, <1>2, <1>3, <1>4 DEF NoFire, Times

\* Every step keeps every variable's type.
LEMMA SchedulesTypesStep ==
    ASSUME SchedulesAssumption, SchedulesInv, SchedulesNext PROVE SchedulesTypes'
<1> USE DEF SchedulesTypes, settings, leadership, runs
<1>0. SchedulesTypes /\ MaxTime \in Nat /\ MaxEdits \in Nat /\ MaxLosses \in Nat
      /\ NoJob \in [cron : Crons \cup {{}}, next : 1 .. NoFire]
  BY DEF SchedulesInv, SchedulesAssumption, NoJob, NoFire
<1>1. CASE Gain
  <2>1. 0 \in Times
    BY <1>0 DEF Times
  <2> QED
    BY <1>0, <1>1, <2>1 DEF Gain
<1>2. CASE Lose
  <2>1. losses' \in 0 .. MaxLosses
    BY <1>0, <1>2 DEF Lose
  <2>2. jobs' \in [Targets -> [cron : Crons \cup {{}}, next : 1 .. NoFire]]
    BY <1>0, <1>2 DEF Lose
  <2> QED
    BY <1>0, <1>2, <2>1, <2>2 DEF Lose
<1>3. ASSUME NEW unadded \in SUBSET Targets, NEW raises \in SUBSET Targets, Reconcile(unadded, raises)
      PROVE  SchedulesTypes'
  <2>1. \A t \in Targets : NextFire(cron[t], now) \in 1 .. NoFire
    BY <1>0, NextFireIsFirst DEF SchedulesAssumption, Times
  <2>2. jobs' \in [Targets -> [cron : Crons \cup {{}}, next : 1 .. NoFire]]
    BY <1>0, <1>3, <2>1 DEF Reconcile
  <2>3. since' \in [Targets -> Times]
    BY <1>0, <1>3 DEF Reconcile
  <2> DEFINE missed == [t \in Targets |-> FirstFireBetween(cron[t], latest[t], since'[t])]
             late == {t \in Desired \ unadded : pending /\ missed[t] # NoFire}
             queue == late \ raises
  <2>4. ASSUME NEW t \in queue PROVE missed[t] \in Times
    <3>1. since'[t] \in Times /\ since'[t] <= now
      BY <1>0, <1>3, <2>3 DEF Reconcile, SchedulesInv, OnSchedule, OwedSince, Desired, Times
    <3> QED
      BY <3>1, MissedIsPast DEF Desired
  <2>5. Queued(queue, missed) /\ queue \in SUBSET Targets
    BY <1>3 DEF Reconcile, Desired
  <2>6. /\ run' \in [Targets -> {"none", "queued", "running"}]
        /\ latest' \in [Targets -> Times] /\ made' \in [Targets -> Seq(Times)]
    <3> HIDE DEF missed, late, queue, SchedulesTypes
    <3> QED
      BY <1>0, <2>4, <2>5, QueuedTypes
  <2>7. owed' \in [Targets -> SUBSET Times] /\ raised' \in [Targets -> SUBSET Times]
    BY <1>0, <1>3 DEF Reconcile, Overdue
  <2> QED
    BY <1>0, <1>3, <2>2, <2>3, <2>6, <2>7 DEF Reconcile
<1>4. CASE Tick
  BY <1>0, <1>4 DEF Tick, Times
<1>5. ASSUME NEW t \in Targets, NEW raises \in BOOLEAN, Fire(t, raises) PROVE SchedulesTypes'
  <2> DEFINE due == Max({f \in jobs[t].cron : f < now})
             acts == enabled[t] /\ now - due <= Grace
             queues == acts /\ ~raises
             T == IF queues THEN {t} ELSE {}
             fires == [u \in Targets |-> due]
  <2>1. due \in Times
    BY <1>5, DueIsPast DEF Fire
  <2>2. /\ Queued(T, fires)
        /\ owed' = [owed EXCEPT ![t] = IF queues THEN {} ELSE IF acts THEN owed[t]
                                       ELSE owed[t] \ 0 .. now - 1]
        /\ raised' = [raised EXCEPT ![t] = IF acts /\ raises THEN raised[t] \cup Overdue(t) ELSE raised[t]]
    BY <1>5 DEF Fire
  <2> HIDE DEF due
  <2>3. T \in SUBSET Targets /\ \A u \in T : fires[u] \in Times
    BY <2>1
  <2>4. /\ run' \in [Targets -> {"none", "queued", "running"}]
        /\ latest' \in [Targets -> Times] /\ made' \in [Targets -> Seq(Times)]
    <3> HIDE DEF T, fires, SchedulesTypes
    <3> QED
      BY <1>0, <2>2, <2>3, QueuedTypes
  <2>5. owed' \in [Targets -> SUBSET Times] /\ raised' \in [Targets -> SUBSET Times]
    BY <1>0, <2>2 DEF Overdue
  <2>6. jobs' \in [Targets -> [cron : Crons \cup {{}}, next : 1 .. NoFire]]
    <3>1. NextFire(jobs[t].cron, now) \in 1 .. NoFire
      <4> HIDE DEF SchedulesTypes
      <4>1. jobs[t].cron \in SUBSET (1 .. MaxTime) /\ now \in Nat
        BY <1>0, FiresAreBounded
      <4> QED
        BY <4>1, NextFireIsFirst
    <3> QED
      BY <1>0, <1>5, <3>1 DEF Fire
  <2> QED
    BY <1>0, <1>5, <2>4, <2>5, <2>6 DEF Fire
<1>6. ASSUME NEW t \in Targets, RunNow(t) PROVE SchedulesTypes'
  BY <1>0, <1>6 DEF RunNow
<1>7. ASSUME NEW t \in Targets, StartRun(t) PROVE SchedulesTypes'
  BY <1>0, <1>7 DEF StartRun
<1>8. ASSUME NEW t \in Targets, EndRun(t) PROVE SchedulesTypes'
  BY <1>0, <1>8 DEF EndRun
<1>9. ASSUME NEW t \in Targets, Edit(t) PROVE SchedulesTypes'
  BY <1>0, <1>9 DEF Edit
<1> QED
  BY <1>1, <1>2, <1>3, <1>4, <1>5, <1>6, <1>7, <1>8, <1>9 DEF SchedulesNext

-----------------------------------------------------------------------------
(* Steps.                                                                  *)

\* Gain and Lose: without a job nothing is late.
LEMMA LeadershipStep ==
    ASSUME SchedulesAssumption, SchedulesInv, Gain \/ Lose, NEW t \in Targets
    PROVE  OnSchedule(t)'
<1>1. /\ OnSchedule(t) /\ UNCHANGED <<now, cron, enabled, run, latest, made, owed>>
      /\ jobs'[t] = NoJob /\ (~leading' \/ pending') /\ since'[t] \in {0, since[t]}
      /\ now \in 0 .. MaxTime /\ MaxTime \in Nat /\ made[t] \in Seq(Times) /\ latest[t] \in 0 .. MaxTime
  BY FiresAreBounded DEF SchedulesInv, SchedulesTypes, Gain, Lose, settings, runs
<1>2. NoJob.cron = {} /\ NoJob.next = MaxTime + 1
  BY DEF NoJob, NoFire
<1>3. JobAhead(t)'
  BY <1>1, <1>2 DEF JobAhead, NoFire
<1>4. OwedSince(t)'
  BY <1>1 DEF OnSchedule, OwedSince
<1>5. MadeInOrder(t)'
  <2>1. \A i \in DOMAIN made[t] : made[t][i] \in Nat /\ made[t][i] < latest[t]
    BY <1>1, MadeAreTimes DEF SchedulesInv, OnSchedule, MadeInOrder
  <2>2. \A i \in DOMAIN made[t] : made[t][i] < MaxTime + 1
    BY <1>1, <2>1
  <2>3. jobs'[t].next = MaxTime + 1 /\ latest' = latest /\ made' = made
    BY <1>1, <1>2
  <2> QED
    BY <1>1, <2>1, <2>2, <2>3 DEF OnSchedule, MadeInOrder
<1> QED
  BY <1>3, <1>4, <1>5 DEF OnSchedule

\* One more fire is given a run.
LEMMA OneMoreRun ==
    ASSUME SchedulesAssumption, SchedulesInv, NEW t \in Targets, NEW fire \in Times,
           made'[t] = Append(made[t], fire), \A i \in DOMAIN made[t] : made[t][i] < fire,
           fire < latest'[t], fire < jobs'[t].next,
           latest'[t] \in Times, jobs'[t].next \in 1 .. NoFire
    PROVE  MadeInOrder(t)'
<1> DEFINE m == made[t]
           n == made'[t]
<1>1. m \in Seq(Times) /\ Len(m) \in Nat /\ DOMAIN m = 1 .. Len(m)
  BY DEF SchedulesInv, SchedulesTypes
<1>2. /\ Len(n) = Len(m) + 1 /\ DOMAIN n = 1 .. Len(m) + 1 /\ n[Len(m) + 1] = fire
      /\ \A i \in 1 .. Len(m) : n[i] = m[i]
  BY <1>1, AppendProperties
<1>3. \A i \in 1 .. Len(m) - 1 : m[i] < m[i + 1]
  BY DEF SchedulesInv, OnSchedule, MadeInOrder
<1>4. \A i \in 1 .. Len(m) : m[i] \in Nat /\ m[i] < fire
  BY <1>1, MadeAreTimes DEF SchedulesInv
<1>5. /\ fire \in Nat /\ latest'[t] \in Nat /\ jobs'[t].next \in Nat
  BY DEF Times, NoFire, SchedulesAssumption
<1> HIDE DEF m, n
<1>6. \A i \in DOMAIN n : n[i] < latest'[t] /\ n[i] < jobs'[t].next
  BY <1>1, <1>2, <1>4, <1>5
<1>7. \A i \in 1 .. Len(n) - 1 : n[i] < n[i + 1]
  BY <1>1, <1>2, <1>3, <1>4
<1> QED
  BY <1>6, <1>7 DEF MadeInOrder, n

\* Runs stay in order where none is made.
LEMMA NoMoreRuns ==
    ASSUME SchedulesAssumption, SchedulesInv, NEW t \in Targets, made'[t] = made[t],
           latest'[t] \in Times, latest[t] <= latest'[t], jobs'[t].next \in 1 .. NoFire,
           \/ jobs[t].next <= jobs'[t].next
           \/ latest[t] <= jobs'[t].next
    PROVE  MadeInOrder(t)'
<1>1. \A i \in DOMAIN made[t] : made[t][i] \in Nat
  BY MadeAreTimes DEF SchedulesInv
<1>2. /\ latest[t] \in Nat /\ latest'[t] \in Nat /\ jobs[t].next \in Nat /\ jobs'[t].next \in Nat
  BY DEF SchedulesInv, SchedulesTypes, Times, NoFire, SchedulesAssumption
<1> QED
  BY <1>1, <1>2 DEF SchedulesInv, OnSchedule, MadeInOrder

\* The next fire of a job the leader adds, or sets after a fire, is ahead.
LEMMA NextIsAhead ==
    ASSUME SchedulesAssumption, SchedulesInv, NEW t \in Targets, leading' /\ ~pending', now' = now,
           jobs'[t].cron \in SUBSET (1 .. MaxTime), jobs'[t].next = NextFire(jobs'[t].cron, now)
    PROVE  /\ JobAhead(t)' /\ now <= jobs'[t].next /\ jobs'[t].next \in 1 .. NoFire
           /\ \A f \in jobs'[t].cron : f >= now => jobs'[t].next <= f
<1>1. now \in 0 .. MaxTime /\ MaxTime \in Nat
  BY FiresAreBounded DEF SchedulesInv
<1> DEFINE c == jobs'[t].cron
<1>2. /\ NextFire(c, now) \in c \cup {NoFire} /\ NextFire(c, now) \in 1 .. NoFire
      /\ NextFire(c, now) # NoFire => NextFire(c, now) >= now
      /\ \A f \in c : f >= now => NextFire(c, now) <= f
  BY <1>1, NextFireIsFirst
<1> QED
  BY <1>1, <1>2 DEF JobAhead, NoFire

\* Reconcile: jobs are those of the schedules, missed fires are caught up.
LEMMA ReconcileStep ==
    ASSUME SchedulesAssumption, SchedulesInv, SchedulesTypes', NEW t \in Targets,
           NEW unadded \in SUBSET Targets, NEW raises \in SUBSET Targets, Reconcile(unadded, raises)
    PROVE  OnSchedule(t)'
<1> DEFINE missed == [u \in Targets |-> FirstFireBetween(cron[u], latest[u], since'[u])]
           late == {u \in Desired \ unadded : pending /\ missed[u] # NoFire}
           queue == late \ raises
<1>1. /\ leading /\ UNCHANGED <<now, cron, enabled, leading>> /\ ~pending'
      /\ jobs'[t] = IF Kept(t) THEN jobs[t]
                    ELSE IF t \in Desired \ unadded
                    THEN [cron |-> cron[t], next |-> NextFire(cron[t], now)]
                    ELSE NoJob
      /\ since'[t] = IF Kept(t) THEN since[t] ELSE now
      /\ owed'[t] = IF t \in queue THEN {} ELSE owed[t]
      /\ raised'[t] = IF t \in unadded THEN raised[t] \cup owed[t]
                      ELSE IF t \in late \cap raises THEN raised[t] \cup Overdue(t) ELSE raised[t]
      /\ t \in unadded => t \in Desired /\ ~Kept(t)
  BY DEF Reconcile, settings
<1>2. /\ t \in queue /\ run[t] = "none" => latest'[t] = now /\ made'[t] = Append(made[t], missed[t])
      /\ ~(t \in queue /\ run[t] = "none") => latest'[t] = latest[t] /\ made'[t] = made[t]
  BY DEF Reconcile, Queued
<1>3. SchedulesTypes /\ OnSchedule(t)
  BY DEF SchedulesInv
<1>4. /\ cron[t] \in SUBSET (1 .. MaxTime) /\ jobs[t].cron \in SUBSET (1 .. MaxTime)
      /\ now \in 0 .. MaxTime /\ latest[t] \in 0 .. MaxTime /\ MaxTime \in Nat
  BY <1>3, FiresAreBounded
<1>5. /\ JobAhead(t)' /\ jobs'[t].next \in 1 .. NoFire
      /\ ~Kept(t) => now <= jobs'[t].next
      /\ ~Kept(t) /\ t \in Desired \ unadded => \A f \in cron[t] : f >= now => jobs'[t].next <= f
  <2>1. CASE Kept(t)
    BY <1>1, <1>3, <2>1 DEF OnSchedule, JobAhead, SchedulesTypes
  <2>2. CASE ~Kept(t) /\ t \in Desired \ unadded
    <3>1. jobs'[t].cron = cron[t] /\ jobs'[t].next = NextFire(cron[t], now)
      BY <1>1, <2>2
    <3> QED
      BY <1>1, <1>4, <2>2, <3>1, NextIsAhead
  <2>3. CASE ~Kept(t) /\ t \notin Desired \ unadded
    BY <1>1, <1>4, <2>3 DEF JobAhead, NoJob, NoFire
  <2> QED
    BY <2>1, <2>2, <2>3
<1>6. /\ since'[t] \in Times /\ since'[t] <= now
      /\ missed[t] # NoFire => missed[t] \in Times /\ latest[t] < missed[t] /\ missed[t] < now
      /\ missed[t] = NoFire => \A f \in cron[t] : latest[t] < f => since'[t] <= f
  <2>1. since'[t] \in Times /\ since'[t] <= now
    BY <1>1, <1>3, <1>4 DEF OnSchedule, OwedSince, SchedulesTypes, Times
  <2>2. missed[t] = FirstFireBetween(cron[t], latest[t], since'[t])
    OBVIOUS
  <2> HIDE DEF missed
  <2> QED
    BY <2>1, <2>2, MissedIsPast
<1> HIDE DEF missed
<1>7. OwedSince(t)'
  <2>1. latest'[t] <= now
    BY <1>2, <1>3, <1>4 DEF OnSchedule, OwedSince
  <2>2. ASSUME NEW f \in owed'[t]
        PROVE  /\ latest'[t] < f /\ f <= now /\ f \in cron[t] /\ enabled[t]
               /\ f \in raised'[t] \/ (Kept(t)' /\ jobs'[t].next <= f)
    <3>1. t \notin queue /\ f \in owed[t] /\ latest'[t] = latest[t]
      BY <1>1, <1>2, <2>2
    <3>2. latest[t] < f /\ f <= now /\ f \in cron[t] /\ enabled[t] /\ t \in Desired
      BY <1>3, <3>1 DEF OnSchedule, OwedSince, Desired
    <3>3. t \notin unadded => Kept(t)'
      BY <1>1, <3>2 DEF Kept, Desired
    <3>4. CASE t \in unadded
      BY <1>1, <3>1, <3>2, <3>4
    <3>5. CASE t \notin unadded /\ pending
      <4>1. ~Kept(t)
        BY <1>3, <3>2, <3>5 DEF OnSchedule, JobAhead, Kept
      <4>2. CASE t \in late
        <5>1. raised'[t] = raised[t] \cup Overdue(t)
          BY <1>1, <3>1, <3>5, <4>2
        <5>2. f \in Overdue(t) \/ now <= f
          BY <1>4, <3>1, <3>2 DEF Overdue
        <5> QED
          BY <1>5, <3>1, <3>2, <3>3, <3>5, <4>1, <5>1, <5>2
      <4>3. CASE t \notin late
        <5>1. now <= f
          BY <1>1, <1>6, <3>1, <3>2, <3>5, <4>1, <4>3
        <5> QED
          BY <1>5, <3>1, <3>2, <3>3, <3>5, <4>1, <5>1
      <4> QED
        BY <4>2, <4>3
    <3>6. CASE t \notin unadded /\ ~pending
      <4>1. f \in raised[t] \/ (Kept(t) /\ jobs[t].next <= f)
        BY <1>1, <1>3, <3>1, <3>6 DEF OnSchedule, OwedSince
      <4>2. raised[t] \subseteq raised'[t]
        BY <1>1, <3>6
      <4> QED
        BY <1>1, <3>1, <3>2, <3>3, <3>6, <4>1, <4>2
    <3> QED
      BY <3>4, <3>5, <3>6
  <2> QED
    BY <1>1, <1>6, <2>1, <2>2 DEF OwedSince
<1>8. MadeInOrder(t)'
  <2>1. CASE t \in queue /\ run[t] = "none"
    <3>1. missed[t] \in Times /\ latest[t] < missed[t] /\ missed[t] < now
      BY <1>6, <2>1
    <3>2. latest'[t] = now /\ made'[t] = Append(made[t], missed[t]) /\ latest'[t] \in Times
      BY <1>2, <1>4, <2>1 DEF Times
    <3>3. \A i \in DOMAIN made[t] : made[t][i] < missed[t]
      BY <1>3, <1>4, <3>1, MadeAreTimes DEF OnSchedule, MadeInOrder, Times
    <3>4. missed[t] < jobs'[t].next
      <4>1. CASE Kept(t)
        BY <1>1, <1>3, <1>4, <2>1, <3>1, <4>1 DEF OnSchedule, JobAhead, NoFire, Times
      <4>2. CASE ~Kept(t)
        BY <1>4, <1>5, <3>1, <4>2 DEF Times, NoFire
      <4> QED
        BY <4>1, <4>2
    <3> QED
      BY <1>5, <3>1, <3>2, <3>3, <3>4, OneMoreRun
  <2>2. CASE ~(t \in queue /\ run[t] = "none")
    <3>1. latest'[t] = latest[t] /\ made'[t] = made[t] /\ latest'[t] \in Times
      BY <1>2, <1>4, <2>2 DEF Times
    <3>2. latest[t] <= now
      BY <1>3 DEF OnSchedule, OwedSince
    <3>3. latest[t] <= jobs'[t].next \/ jobs[t].next <= jobs'[t].next
      BY <1>1, <1>4, <1>5, <3>2 DEF NoFire
    <3> QED
      BY <1>4, <1>5, <3>1, <3>3, NoMoreRuns
  <2> QED
    BY <2>1, <2>2
<1> QED
  BY <1>5, <1>7, <1>8 DEF OnSchedule

\* A target nothing happens to stays on schedule.
LEMMA NothingHappens ==
    ASSUME NEW t \in Targets, OnSchedule(t), UNCHANGED <<now, leading, pending>>,
           jobs'[t] = jobs[t], since'[t] = since[t], latest'[t] = latest[t], made'[t] = made[t],
           owed'[t] = owed[t], raised'[t] = raised[t], cron'[t] = cron[t], enabled'[t] = enabled[t]
    PROVE  OnSchedule(t)'
  BY DEF OnSchedule, JobAhead, OwedSince, MadeInOrder, Kept, Desired

\* Fire: a due fire is given a run, coalesces or is dropped.
LEMMA FireStep ==
    ASSUME SchedulesAssumption, SchedulesInv, SchedulesTypes', NEW u \in Targets,
           NEW raises \in BOOLEAN, Fire(u, raises), NEW t \in Targets
    PROVE  OnSchedule(t)'
<1> DEFINE due == Max({f \in jobs[u].cron : f < now})
           acts == enabled[u] /\ now - due <= Grace
           queues == acts /\ ~raises
           T == IF queues THEN {u} ELSE {}
<1>1. /\ UNCHANGED <<now, cron, enabled, leading, since, pending>> /\ jobs[u].next < now
      /\ jobs' = [jobs EXCEPT ![u].next = NextFire(jobs[u].cron, now)]
      /\ Queued(T, [x \in Targets |-> due])
      /\ owed' = [owed EXCEPT ![u] = IF queues THEN {} ELSE IF acts THEN owed[u]
                                     ELSE owed[u] \ 0 .. now - 1]
      /\ raised' = [raised EXCEPT ![u] = IF acts /\ raises THEN raised[u] \cup Overdue(u) ELSE raised[u]]
  BY DEF Fire, settings
<1>2. due \in Times /\ due < now /\ jobs[u].next <= due
  BY DueIsPast DEF Fire
<1>3. SchedulesTypes /\ OnSchedule(t)
  BY DEF SchedulesInv
<1> HIDE DEF due
<1>4. /\ t = u /\ queues /\ run[t] = "none" => latest'[t] = now /\ made'[t] = Append(made[t], due)
      /\ ~(t = u /\ queues /\ run[t] = "none") => latest'[t] = latest[t] /\ made'[t] = made[t]
  BY <1>1 DEF Queued
<1>5. CASE t # u
  <2>1. jobs'[t] = jobs[t] /\ owed'[t] = owed[t] /\ raised'[t] = raised[t] /\ latest'[t] = latest[t] /\ made'[t] = made[t]
    BY <1>1, <1>3, <1>4, <1>5 DEF SchedulesTypes
  <2> QED
    BY <1>1, <1>3, <2>1, NothingHappens
<1>6. CASE t = u
  <2>1. /\ cron[t] \in SUBSET (1 .. MaxTime) /\ jobs[t].cron \in SUBSET (1 .. MaxTime)
        /\ now \in 0 .. MaxTime /\ latest[t] \in 0 .. MaxTime /\ MaxTime \in Nat
    BY <1>3, FiresAreBounded
  <2>2. leading /\ ~pending
    BY <1>1, <1>3, <1>6, <2>1 DEF OnSchedule, JobAhead, NoFire, SchedulesTypes
  <2>3. /\ jobs'[t].cron = jobs[t].cron /\ jobs'[t].next = NextFire(jobs[t].cron, now)
        /\ owed'[t] = IF queues THEN {} ELSE IF acts THEN owed[t] ELSE owed[t] \ 0 .. now - 1
        /\ raised'[t] = IF acts /\ raises THEN raised[t] \cup Overdue(t) ELSE raised[t]
    BY <1>1, <1>3, <1>6 DEF SchedulesTypes
  <2>4. /\ JobAhead(t)' /\ now <= jobs'[t].next /\ jobs'[t].next \in 1 .. NoFire
        /\ \A f \in jobs'[t].cron : f >= now => jobs'[t].next <= f
    BY <1>1, <2>1, <2>2, <2>3, NextIsAhead
  <2>5. OwedSince(t)'
    <3>1. latest'[t] <= now /\ since'[t] <= now
      BY <1>1, <1>3, <1>4, <2>1 DEF OnSchedule, OwedSince
    <3>2. ASSUME NEW f \in owed'[t]
          PROVE  /\ latest'[t] < f /\ f <= now /\ f \in cron[t] /\ enabled[t]
                 /\ f \in raised'[t] \/ (Kept(t)' /\ jobs'[t].next <= f)
      <4>1. ~queues /\ f \in owed[t] /\ latest'[t] = latest[t]
        BY <1>4, <2>3, <3>2
      <4>2. /\ latest[t] < f /\ f <= now /\ f \in cron[t] /\ enabled[t]
            /\ f \in raised[t] \/ Kept(t)
        BY <1>3, <2>2, <4>1 DEF OnSchedule, OwedSince
      <4>3. CASE f \in raised'[t]
        BY <4>1, <4>2, <4>3
      <4>4. CASE f \notin raised'[t]
        <5>1. f \notin raised[t] /\ (acts => f \notin Overdue(t)) /\ (~acts => f \notin 0 .. now - 1)
          BY <1>6, <2>3, <3>2, <4>1, <4>4
        <5>2. f >= now
          BY <2>1, <4>1, <4>2, <5>1 DEF Overdue
        <5>3. Kept(t)' /\ f \in jobs'[t].cron
          BY <1>1, <2>3, <4>2, <5>1 DEF Kept, Desired
        <5> QED
          BY <2>4, <4>1, <4>2, <5>2, <5>3
      <4> QED
        BY <4>3, <4>4
    <3> QED
      BY <1>1, <3>1, <3>2 DEF OwedSince
  <2>6. MadeInOrder(t)'
    <3>1. CASE queues /\ run[t] = "none"
      <4>1. latest'[t] = now /\ made'[t] = Append(made[t], due) /\ latest'[t] \in Times
        BY <1>4, <1>6, <2>1, <3>1 DEF Times
      <4>2. \A i \in DOMAIN made[t] : made[t][i] < due
        <5>1. jobs[t].next \in Nat /\ jobs[t].next <= due /\ due \in Nat
          <6>1. jobs[t].next \in 1 .. NoFire
            BY <1>3 DEF SchedulesTypes
          <6> QED
            BY <1>2, <1>6, <2>1, <6>1 DEF NoFire, Times
        <5>2. \A i \in DOMAIN made[t] : made[t][i] \in Nat /\ made[t][i] < jobs[t].next
          BY <1>3, MadeAreTimes DEF OnSchedule, MadeInOrder
        <5> QED
          BY <5>1, <5>2
      <4>3. due < jobs'[t].next
        BY <1>2, <2>1, <2>4 DEF Times, NoFire
      <4> QED
        BY <1>2, <2>4, <4>1, <4>2, <4>3, OneMoreRun
    <3>2. CASE ~(queues /\ run[t] = "none")
      <4>1. latest'[t] = latest[t] /\ made'[t] = made[t] /\ latest'[t] \in Times
        BY <1>4, <2>1, <3>2 DEF Times
      <4>2. latest[t] <= jobs'[t].next
        BY <1>3, <2>1, <2>4 DEF OnSchedule, OwedSince, NoFire
      <4> QED
        BY <2>1, <2>4, <4>1, <4>2, NoMoreRuns
    <3> QED
      BY <3>1, <3>2
  <2> QED
    BY <2>4, <2>5, <2>6 DEF OnSchedule
<1> QED
  BY <1>5, <1>6

\* Tick: a fire is owed once its instant has come.
LEMMA TickStep ==
    ASSUME SchedulesAssumption, SchedulesInv, Tick, NEW t \in Targets
    PROVE  OnSchedule(t)'
<1>1. /\ now' = now + 1 /\ UNCHANGED <<cron, enabled, leading, jobs, since, pending, run, latest, made, raised>>
      /\ owed'[t] = IF enabled[t] /\ now' \in cron[t] /\ (~leading \/ pending \/ Kept(t))
                    THEN owed[t] \cup {now'} ELSE owed[t]
  BY DEF Tick, settings, leadership, runs
<1>2. SchedulesTypes /\ OnSchedule(t)
  BY DEF SchedulesInv
<1>3. /\ cron[t] \in SUBSET (1 .. MaxTime) /\ jobs[t].cron \in SUBSET (1 .. MaxTime)
      /\ now \in 0 .. MaxTime /\ latest[t] \in 0 .. MaxTime /\ MaxTime \in Nat
      /\ since[t] \in 0 .. MaxTime /\ \A f \in owed[t] : f \in 0 .. MaxTime
  BY <1>2, FiresAreBounded DEF SchedulesTypes, Times
<1>4. JobAhead(t)'
  BY <1>1, <1>2, <1>3 DEF OnSchedule, JobAhead
<1>5. OwedSince(t)'
  <2>1. ASSUME NEW f \in owed'[t]
        PROVE  /\ latest[t] < f /\ f <= now' /\ f \in cron[t] /\ enabled[t]
               /\ leading /\ ~pending => f \in raised[t] \/ (Kept(t) /\ jobs[t].next <= f)
    <3>1. CASE f \in owed[t]
      BY <1>1, <1>2, <1>3, <3>1 DEF OnSchedule, OwedSince
    <3>2. CASE f \notin owed[t]
      <4>1. f = now + 1 /\ enabled[t] /\ f \in cron[t] /\ (~leading \/ pending \/ Kept(t))
        BY <1>1, <2>1, <3>2
      <4>2. Kept(t) => jobs[t].next <= f
        BY <1>2, <1>3, <4>1 DEF OnSchedule, JobAhead, Kept
      <4>3. latest[t] < f
        BY <1>2, <1>3, <4>1 DEF OnSchedule, OwedSince
      <4> QED
        BY <1>1, <1>3, <4>1, <4>2, <4>3
    <3> QED
      BY <3>1, <3>2
  <2>2. latest[t] <= now' /\ since[t] <= now'
    BY <1>1, <1>2, <1>3 DEF OnSchedule, OwedSince
  <2>3. Kept(t)' <=> Kept(t)
    BY <1>1 DEF Kept, Desired
  <2> QED
    BY <1>1, <2>1, <2>2, <2>3 DEF OwedSince
<1>6. MadeInOrder(t)'
  BY <1>1, <1>2 DEF OnSchedule, MadeInOrder
<1> QED
  BY <1>4, <1>5, <1>6 DEF OnSchedule

\* A run that starts, or is queued by hand, and an edit leave nothing owed.
LEMMA RestampStep ==
    ASSUME SchedulesAssumption, SchedulesInv, NEW u \in Targets, NEW t \in Targets,
           RunNow(u) \/ StartRun(u) \/ EndRun(u) \/ Edit(u)
    PROVE  OnSchedule(t)'
<1>1. SchedulesTypes /\ OnSchedule(t)
  BY DEF SchedulesInv
<1>2. /\ UNCHANGED <<now, leading, pending, jobs, since, made, raised>>
      /\ \/ latest'[t] = latest[t] /\ cron'[t] = cron[t] /\ enabled'[t] = enabled[t] /\ owed'[t] = owed[t]
         \/ latest'[t] \in {now, latest[t]} /\ owed'[t] = {}
  BY <1>1 DEF RunNow, StartRun, EndRun, Edit, SchedulesTypes, leadership, settings, runs
<1>3. CASE latest'[t] = latest[t] /\ cron'[t] = cron[t] /\ enabled'[t] = enabled[t] /\ owed'[t] = owed[t]
  BY <1>1, <1>2, <1>3, NothingHappens
<1>4. CASE latest'[t] \in {now, latest[t]} /\ owed'[t] = {}
  <2>1. now \in 0 .. MaxTime /\ latest[t] \in 0 .. MaxTime /\ latest[t] <= now
    BY <1>1, FiresAreBounded DEF OnSchedule, OwedSince
  <2>2. JobAhead(t)'
    BY <1>1, <1>2 DEF OnSchedule, JobAhead
  <2>3. OwedSince(t)'
    BY <1>1, <1>2, <1>4, <2>1 DEF OnSchedule, OwedSince
  <2>4. MadeInOrder(t)'
    <3>1. \A i \in DOMAIN made[t] : made[t][i] \in Nat /\ made[t][i] < latest[t]
      BY <1>1, MadeAreTimes DEF OnSchedule, MadeInOrder
    <3>2. \A i \in DOMAIN made[t] : made[t][i] < latest'[t]
      BY <1>4, <2>1, <3>1
    <3> QED
      BY <1>1, <1>2, <3>2 DEF OnSchedule, MadeInOrder
  <2> QED
    BY <2>2, <2>3, <2>4 DEF OnSchedule
<1> QED
  BY <1>2, <1>3, <1>4

\* Whoever leads, however often leaderships are lost, schedules edited and runs
\* delayed: a leader that has reconciled has acted on every fire that passed, in
\* its own time or its predecessors', but those it failed itself to queue a run
\* for, and no fire is given two runs.
THEOREM FiresRunOnce ==
    ASSUME SchedulesAssumption PROVE SchedulesSpec => []FiresAreRun
<1>1. SchedulesInit => SchedulesInv
  <2> SUFFICES ASSUME SchedulesInit PROVE SchedulesInv
    OBVIOUS
  <2> USE DEF SchedulesInit
  <2>1. 0 \in Times /\ MaxEdits \in Nat /\ MaxLosses \in Nat /\ NoFire \in 1 .. NoFire
    BY DEF Times, NoFire, SchedulesAssumption
  <2>2. NoJob.cron = {} /\ NoJob.next = NoFire /\ NoJob \in [cron : Crons \cup {{}}, next : 1 .. NoFire]
    BY <2>1 DEF NoJob
  <2>3. [t \in Targets |-> <<>>] \in [Targets -> Seq(Times)]
    BY EmptySeq
  <2>4. SchedulesTypes
    <3>1. /\ now \in Times /\ since \in [Targets -> Times] /\ latest \in [Targets -> Times]
          /\ edits \in 0 .. MaxEdits /\ losses \in 0 .. MaxLosses
          /\ run \in [Targets -> {"none", "queued", "running"}]
      BY <2>1
    <3>2. jobs \in [Targets -> [cron : Crons \cup {{}}, next : 1 .. NoFire]]
      BY <2>2
    <3>3. owed \in [Targets -> SUBSET Times] /\ raised \in [Targets -> SUBSET Times] /\ made \in [Targets -> Seq(Times)]
      BY <2>3
    <3> QED
      BY <3>1, <3>2, <3>3 DEF SchedulesTypes
  <2>5. ASSUME NEW t \in Targets PROVE OnSchedule(t)
    <3>1. JobAhead(t)
      BY <2>2 DEF JobAhead
    <3>2. OwedSince(t)
      BY DEF OwedSince
    <3>3. made[t] = <<>> /\ DOMAIN made[t] = {} /\ Len(made[t]) = 0
      BY EmptySeq
    <3>4. MadeInOrder(t)
      BY <3>3 DEF MadeInOrder
    <3> QED
      BY <3>1, <3>2, <3>4 DEF OnSchedule
  <2> QED
    BY <2>4, <2>5 DEF SchedulesInv
<1>2. SchedulesInv /\ [SchedulesNext]_scheduleVars => SchedulesInv'
  <2> SUFFICES ASSUME SchedulesInv, [SchedulesNext]_scheduleVars PROVE SchedulesInv'
    OBVIOUS
  <2>1. CASE SchedulesNext
    <3>1. SchedulesTypes'
      BY <2>1, SchedulesTypesStep
    <3>2. ASSUME NEW t \in Targets PROVE OnSchedule(t)'
      BY <2>1, <3>1, LeadershipStep, ReconcileStep, FireStep, TickStep, RestampStep DEF SchedulesNext
    <3> QED
      BY <3>1, <3>2 DEF SchedulesInv
  <2>2. CASE UNCHANGED scheduleVars
    BY <2>2 DEF scheduleVars, settings, leadership, runs, SchedulesInv, SchedulesTypes, OnSchedule,
                JobAhead, OwedSince, MadeInOrder, Kept, Desired
  <2> QED
    BY <2>1, <2>2
<1>3. SchedulesInv => FiresAreRun
  <2> SUFFICES ASSUME SchedulesInv PROVE FiresAreRun
    OBVIOUS
  <2>1. ASSUME NEW t \in Targets, leading, ~pending, jobs[t].next >= now
        PROVE  Overdue(t) \subseteq raised[t]
    <3>1. now \in 0 .. MaxTime /\ jobs[t].next \in 1 .. MaxTime + 1 /\ MaxTime \in Nat
      BY FiresAreBounded DEF SchedulesInv, SchedulesTypes, NoFire
    <3>2. \A f \in owed[t] : f \in raised[t] \/ jobs[t].next <= f
      BY <2>1 DEF SchedulesInv, OnSchedule, OwedSince
    <3> QED
      BY <2>1, <3>1, <3>2 DEF Overdue
  <2>2. NoFireForgotten
    BY <2>1 DEF NoFireForgotten
  <2>3. OneRunPerFire
    BY DEF SchedulesInv, OnSchedule, MadeInOrder, OneRunPerFire
  <2> QED
    BY <2>2, <2>3 DEF FiresAreRun
<1> QED
  BY <1>1, <1>2, <1>3, PTL DEF SchedulesSpec
=============================================================================
