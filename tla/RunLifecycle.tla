---------------------------- MODULE RunLifecycle ----------------------------
(***************************************************************************)
(* What the job runner promises about the rows of its run tables           *)
(* (collector_run, git_sync_runs, evidence_store_sync_runs), whoever       *)
(* executes them: a run is queued, started once and closed once; its       *)
(* outcome is final; and a target has at most one queued or running run.   *)
(* JobRuns is shown to implement this specification.                       *)
(***************************************************************************)
CONSTANTS Runs,          \* run ids
          Targets,       \* collectors, git sources, evidence-store buckets
          TargetOf       \* the target a run was queued for

VARIABLE status          \* the status column of each run row

Active == {"queued", "running"}

\* "partial" and "unchanged" are recorded like "success" and are not told apart.
Outcomes == {"success", "failure"}

Statuses == {"absent"} \cup Active \cup Outcomes

ActiveRuns(t) == {r \in Runs : TargetOf[r] = t /\ status[r] \in Active}

Init == status = [r \in Runs |-> "absent"]

Queue(r) ==
    /\ status[r] = "absent"
    /\ ActiveRuns(TargetOf[r]) = {}
    /\ status' = [status EXCEPT ![r] = "queued"]

Start(r) ==
    /\ status[r] = "queued"
    /\ status' = [status EXCEPT ![r] = "running"]

Close(r) ==
    /\ status[r] = "running"
    /\ \E o \in Outcomes : status' = [status EXCEPT ![r] = o]

Next == \E r \in Runs : Queue(r) \/ Start(r) \/ Close(r)

Spec == Init /\ [][Next]_status

TypeOK == status \in [Runs -> Statuses]

-----------------------------------------------------------------------------

\* At most one queued or running run per target (the partial unique indexes
\* uq_*_one_active).
OneActiveRun ==
    \A q, r \in Runs :
        /\ TargetOf[q] = TargetOf[r]
        /\ status[q] \in Active
        /\ status[r] \in Active
        => q = r
=============================================================================
