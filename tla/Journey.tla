------------------------------- MODULE Journey -------------------------------
(***************************************************************************)
(* GET /api/compliance-journey: the phases of the compliance programme,    *)
(* computed from counts that a request reads one statement after another   *)
(* while the team works on.  What the phases say is compared with the      *)
(* records themselves.                                                     *)
(***************************************************************************)
EXTENDS Integers, Sequences, FiniteSets, FiniteSetsExt

CONSTANTS Controls, Records, Policies,   \* the ids that may be created
          Categories, CategoryOf,        \* of each control and policy
          Basics,        \* settings, team, systems, vendors, collector, hashes, auditor
          MinPolicies,   \* 5
          MaxRecordChanges,    \* bound: changes during a request
          NoRecord

Statuses == {"pending", "passed", "failed"}
Evidences == {"missing", "due_soon", "submitted"}   \* "outdated" counts as due_soon does

\* There are finitely many ids; a test's record is not the absence of one.
JourneyAssumption ==
    /\ IsFiniteSet(Controls) /\ IsFiniteSet(Records) /\ IsFiniteSet(Policies) /\ IsFiniteSet(Categories)
    /\ MinPolicies \in Nat
    /\ NoRecord \notin {"draft", "approved"} \cup [control : Controls, status : Statuses, evidence : Evidences]

VARIABLES
    controls,  \* the controls there are
    records,     \* record -> NoRecord or [control, status, evidence]
    policies,  \* policy -> NoRecord, "draft" or "approved"
    basics,    \* which of the basics there are
    request    \* [next, got, changes, ...]: the request being answered

journeyVars == <<controls, records, policies, basics, request>>
There(f) == {x \in DOMAIN f : f[x] # NoRecord}
Passed == {t \in There(records) : records[t].status = "passed"}
CategoryOfAll(S) == {CategoryOf[x] : x \in S}

\* round(passed / total * 100, 1), in tenths; a tie goes up here.
Score(passed, total) == IF total = 0 THEN 0 ELSE (2000 * passed + total) \div (2 * total)

\* Mutant: evidence that is due soon is no gap.
MissingOnly == {t \in There(records) : records[t].evidence = "missing"}

Gaps == {t \in There(records) : records[t].evidence \in {"missing", "outdated", "due_soon"}}

\* The statements of the request, in their order.
Statements == <<"controls", "tests", "policies", "passed", "approved", "missing", "gaps",
                "policy_categories", "control_categories", "tested_controls">>
Counts == {Statements[k] : k \in DOMAIN Statements}

Read(statement) ==
    CASE statement = "controls" -> Cardinality(controls)
      [] statement = "tests" -> Cardinality(There(records))
      [] statement = "policies" -> Cardinality(There(policies))
      [] statement = "passed" -> Cardinality(Passed)
      [] statement = "approved" -> Cardinality({p \in Policies : policies[p] = "approved"})
      [] statement = "missing" -> Cardinality({t \in There(records) : records[t].evidence = "missing"})
      [] statement = "gaps" -> Cardinality(Gaps)
      [] statement = "policy_categories" -> Cardinality(Categories \ CategoryOfAll(There(policies)))
      [] statement = "control_categories" -> Cardinality(Categories \ CategoryOfAll(controls))
      [] statement = "tested_controls" -> Cardinality({records[t].control : t \in There(records)})

NewRequest ==
    [next |-> 1, got |-> [count \in Counts |-> 0], changes |-> 0, recordsFixed |-> TRUE,
     scores |-> {Score(Cardinality(Passed), Cardinality(There(records)))}]

\* The records of a portal: every test has its control.
JourneyInit ==
    /\ controls \in SUBSET Controls
    /\ records \in [Records -> {NoRecord} \cup [control : controls, status : Statuses, evidence : Evidences]]
    /\ policies \in [Policies -> {NoRecord, "draft", "approved"}]
    /\ \E absent \in SUBSET {"auditor", "collector"} : basics = Basics \ absent
    /\ request = NewRequest

\* The team changes a record while the request is read.
Noticed(recordsFixed) ==
    /\ request.next \in 2 .. Len(Statements) /\ request.changes < MaxRecordChanges
    /\ request' = [request EXCEPT !.changes = @ + 1, !.recordsFixed = @ /\ recordsFixed,
                     !.scores = @ \cup {Score(Cardinality(Passed'), Cardinality(There(records)'))}]

AddControl(c) ==
    /\ c \notin controls /\ controls' = controls \cup {c}
    /\ UNCHANGED <<records, policies, basics>> /\ Noticed(TRUE)

PutTest(t, control, status, evidence) ==
    /\ control \in controls
    /\ records' = [records EXCEPT ![t] = [control |-> control, status |-> status, evidence |-> evidence]]
    /\ records[t] # NoRecord => records[t].control = control
    /\ UNCHANGED <<controls, policies, basics>> /\ Noticed(records[t] # NoRecord)

DropTest(t) ==
    /\ records[t] # NoRecord /\ records' = [records EXCEPT ![t] = NoRecord]
    /\ UNCHANGED <<controls, policies, basics>> /\ Noticed(FALSE)

PutPolicy(p, status) ==
    /\ policies[p] # status /\ policies' = [policies EXCEPT ![p] = status]
    /\ UNCHANGED <<controls, records, basics>> /\ Noticed(TRUE)

ReadNext ==
    /\ request.next <= Len(Statements)
    /\ request' = [request EXCEPT !.got[Statements[request.next]] = Read(Statements[request.next]), !.next = @ + 1]
    /\ UNCHANGED <<controls, records, policies, basics>>

JourneyNext ==
    \/ ReadNext
    \/ \E c \in Controls : AddControl(c)
    \/ \E t \in Records : \/ \E c \in Controls, s \in Statuses, e \in Evidences : PutTest(t, c, s, e)
                          \/ DropTest(t)
    \/ \E p \in Policies, status \in {"draft", "approved"} : PutPolicy(p, status)

JourneySpec == JourneyInit /\ [][JourneyNext]_journeyVars

------------------------------------------------------------------------------
(* The answer.                                                             *)

Got(statement) == request.got[statement]
OverallScore == Score(Got("passed"), Got("tests"))
Untested == Got("controls") - Got("tested_controls")
AllApproved == Got("approved") = Got("policies")

\* There is no end to the last phase.
Complete(phase) ==
    \/ phase = 1 /\ {"settings", "team"} \subseteq basics
    \/ phase = 2 /\ {"systems", "vendors"} \subseteq basics
    \/ phase = 3 /\ Got("policies") >= MinPolicies /\ AllApproved /\ Got("policy_categories") = 0
    \/ phase = 4 /\ Got("controls") > 0 /\ Got("tests") > 0 /\ Untested = 0 /\ Got("control_categories") = 0
    \/ phase = 5 /\ Got("tests") > 0 /\ Got("missing") = 0 /\ "collector" \in basics
    \/ phase = 6 /\ OverallScore >= 800 /\ Got("gaps") = 0
    \/ /\ phase = 7 /\ {"hashes", "auditor"} \subseteq basics
       /\ AllApproved /\ Got("policies") > 0 /\ Got("gaps") = 0 /\ Got("tests") > 0

CurrentPhase == Min({phase \in 1 .. 8 : phase = 8 \/ ~Complete(phase)})

CollectActions == {a \in {"collector"} : "collector" \notin basics} \cup {a \in {"collect"} : Got("missing") > 0}

NextActions(phase) ==
    CASE phase = 1 -> {"settings", "team"} \ basics
      [] phase = 2 -> {"systems", "vendors"} \ basics
      [] phase = 3 -> {a \in {"write"} : Got("policies") < MinPolicies \/ Got("policy_categories") > 0}
                      \cup {a \in {"approve"} : Got("approved") < Got("policies")}
      [] phase = 4 -> {a \in {"controls"} : Got("control_categories") > 0}
                      \cup {a \in {"tests"} : Untested > 0 \/ Got("tests") = 0}
      [] phase = 5 -> CollectActions
      [] phase = 6 -> {a \in {"remediate"} : OverallScore < 800} \cup {a \in {"gaps"} : Got("gaps") > 0}
      [] phase = 7 -> ({"hashes", "auditor"} \ basics) \cup {a \in {"approve"} : ~(AllApproved /\ Got("policies") > 0)}
      [] phase = 8 -> {"continue"}

\* What the phases mean, said of the records.  The 80% of phase 6 are those of
\* a score rounded to a tenth: 79.95% will do (323 of 404 tests).
Means(phase) ==
    \/ /\ phase = 3 /\ Cardinality(There(policies)) >= MinPolicies
       /\ \A p \in There(policies) : policies[p] = "approved"
       /\ Categories \subseteq CategoryOfAll(There(policies))
    \/ /\ phase = 4 /\ controls # {} /\ Categories \subseteq CategoryOfAll(controls)
       /\ \A c \in controls : \E t \in There(records) : records[t].control = c
    \/ /\ phase = 5 /\ There(records) # {} /\ "collector" \in basics
       /\ \A t \in There(records) : records[t].evidence # "missing"
    \/ /\ phase = 6 /\ 2000 * Cardinality(Passed) >= 1599 * Cardinality(There(records)) /\ There(records) # {}
       /\ \A t \in There(records) : records[t].evidence = "submitted"
    \/ phase \in {1, 2, 7} /\ Complete(phase)

\* A journey read while nothing changes says what the records say, and its
\* current phase names something to do; one read while no test is created or
\* deleted reports a score the portal had
\* during the request.
JourneyIsTrue ==
    request.next > Len(Statements) =>
        /\ request.changes = 0 => /\ \A phase \in 1 .. 7 : Complete(phase) <=> Means(phase)
                                 /\ NextActions(CurrentPhase) # {}
        /\ request.recordsFixed => OverallScore \in request.scores
==============================================================================
