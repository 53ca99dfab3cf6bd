------------------------------ MODULE TestRecords ------------------------------
(***************************************************************************)
(* The compliance tests: members and agents record executions and submit   *)
(* evidence, one at a time or in batches whose items fail on their own     *)
(* (routes/api.py), while others edit the same rows (routes/crud.py), the  *)
(* admin page uploads files (routes/admin.py) and collectors add evidence. *)
(* A request writes, when it commits, the columns that differ from the row *)
(* it loaded.                                                             *)
(***************************************************************************)
EXTENDS Integers, Sequences

CONSTANTS Tests, Callers,
          Bodies,     \* the batches that are posted: sequences of items
          Idle

\* What the constants must satisfy: the items of a batch are executions of tests.
TestRecordsAssumption ==
    Bodies \subseteq Seq([test : Tests, outcome : STRING, evidence : STRING])

VARIABLES
    tests,     \* [test -> [outcome, status, evidence]], evidence as evidence_status says
    onFile,    \* tests that have evidence
    calls,     \* [caller -> its request: items left, rows loaded and set, or Idle]
    standing,  \* history: [test -> the outcomes its row may stand for: the last execution's
               \* and those recorded while that one's request was under way]
    missed     \* history: [caller -> [test -> outcomes others recorded during its request]]

testVars == <<tests, onFile, calls, standing, missed>>

TestOutcomes == {"success", "failure"}

TestRow(outcome, status, evidence) == [outcome |-> outcome, status |-> status, evidence |-> evidence]

TestsInit ==
    /\ tests = [t \in Tests |-> TestRow("none", "pending", "missing")]
    /\ onFile = {}
    /\ calls = [c \in Callers |-> Idle]
    /\ standing = [t \in Tests |-> {"none"}]
    /\ missed = [c \in Callers |-> [t \in Tests |-> {}]]

-----------------------------------------------------------------------------
(* Recording executions and submitting evidence.                           *)

Call(kind, items, failed, added, ran, read, set) ==
    [kind |-> kind, items |-> items, failed |-> failed, added |-> added, ran |-> ran,
     read |-> read, set |-> set]

\* A request: record-execution holds one item and is refused as a whole, the
\* batches answer for each.
BeginCall(c, kind, items) ==
    /\ calls[c] = Idle
    /\ kind = "single" => Len(items) = 1
    /\ calls' = [calls EXCEPT ![c] = Call(kind, items, FALSE, {}, {}, << >>, << >>)]
    /\ missed' = [missed EXCEPT ![c] = [t \in Tests |-> {}]]
    /\ UNCHANGED <<tests, onFile, standing>>

\* _apply_execution's fields; an outcome that is not one changes nothing.
Executed(row, outcome) ==
    IF outcome \in TestOutcomes
    THEN [row EXCEPT !.outcome = outcome, !.status = IF outcome = "success" THEN "passed" ELSE "failed"]
    ELSE row

\* An item's evidence is checked whole before any of it is added.
Accepts(item) == item.outcome \in TestOutcomes \cup {"none"} /\ item.evidence # "refused"
Files(item) == Accepts(item) /\ item.evidence = "good"

\* An item that brings no outcome (evidence/batch-submit) leaves the rest alone.
Filed(row, item) == IF Files(item) THEN [row EXCEPT !.evidence = "submitted"] ELSE row

\* The rows of a request, with one more or another.
With(rows, t, row) == [u \in DOMAIN rows \cup {t} |-> IF u = t THEN row ELSE rows[u]]

\* What an item does: the row is loaded once in the request.  Refused evidence
\* is added to nothing, but the outcome that came with it is set.
Treated(call) ==
    LET item == Head(call.items)
        t == item.test
        read == IF t \in DOMAIN call.read THEN call.read[t] ELSE tests[t]
        row == IF t \in DOMAIN call.set THEN call.set[t] ELSE read
    IN  Call(call.kind, Tail(call.items), call.failed \/ ~Accepts(item),
             IF Files(item) THEN call.added \cup {t} ELSE call.added,
             IF item.outcome \in TestOutcomes THEN call.ran \cup {t} ELSE call.ran,
             With(call.read, t, read), With(call.set, t, Filed(Executed(row, item.outcome), item)))

Item(c) ==
    /\ calls[c] # Idle /\ calls[c].items # <<>>
    /\ calls' = [calls EXCEPT ![c] = Treated(calls[c])]
    /\ UNCHANGED <<tests, onFile, standing, missed>>

\* Mutant: the row as the request has it is written whole.
WholeRow(row, read, set) == set

\* The columns that differ from what was loaded: an outcome that is the one that
\* was loaded is not written, and leaves what another request has recorded since.
Written(row, read, set) == [f \in DOMAIN row |-> IF set[f] # read[f] THEN set[f] ELSE row[f]]

EndCall(c) ==
    LET call == calls[c] IN
    /\ call # Idle /\ call.items = <<>>
    /\ calls' = [calls EXCEPT ![c] = Idle]
    /\ IF call.kind = "single" /\ call.failed THEN UNCHANGED <<tests, onFile, standing, missed>>
       ELSE /\ tests' = [t \in Tests |-> IF t \in DOMAIN call.set
                                         THEN Written(tests[t], call.read[t], call.set[t])
                                         ELSE tests[t]]
            /\ onFile' = onFile \cup call.added
            /\ standing' = [t \in Tests |-> IF t \in call.ran
                                            THEN {call.set[t].outcome} \cup missed[c][t]
                                            ELSE standing[t]]
            /\ missed' = [other \in Callers |-> [t \in Tests |->
                              IF other # c /\ t \in call.ran
                              THEN missed[other][t] \cup {call.set[t].outcome}
                              ELSE missed[other][t]]]

-----------------------------------------------------------------------------
(* What else writes them.                                                  *)

\* The admin page uploads a file.
Upload(t) ==
    /\ onFile' = onFile \cup {t}
    /\ tests' = [tests EXCEPT ![t].evidence = "submitted"]
    /\ UNCHANGED <<calls, standing, missed>>

\* A collector's check and POST /api/evidence add evidence only.
AddEvidence(t) ==
    /\ onFile' = onFile \cup {t}
    /\ UNCHANGED <<tests, calls, standing, missed>>

DeleteEvidence(t) ==
    /\ t \in onFile
    /\ onFile' \in {onFile, onFile \ {t}}     \* one of them
    /\ UNCHANGED <<tests, calls, standing, missed>>

\* PUT /api/tests: it may set any column; the editors here leave the outcome and
\* the status to the requests that record executions, and set other columns, or
\* the evidence's status (it falls due).
Edit(t, evidence) ==
    /\ tests' = [tests EXCEPT ![t].evidence = evidence]
    /\ UNCHANGED <<onFile, calls, standing, missed>>

TestsNext ==
    \/ \E c \in Callers :
          \/ \E kind \in {"single", "batch"}, items \in Bodies : BeginCall(c, kind, items)
          \/ Item(c) \/ EndCall(c)
    \/ \E t \in Tests :
          \/ Upload(t) \/ AddEvidence(t) \/ DeleteEvidence(t)
          \/ \E evidence \in {tests[t].evidence, "due_soon"} : Edit(t, evidence)

TestsSpec == TestsInit /\ [][TestsNext]_testVars

-----------------------------------------------------------------------------
(* Properties.                                                             *)

\* What a test's row says of its executions: the status is that of the outcome it
\* shows, whatever items of a batch are refused and whatever is written beside it,
\* and the outcome is the last execution's or, as only columns that differ are
\* written, one recorded while that execution's request was under way; a request
\* that records no execution of the test never brings an earlier outcome back.
StatusIsOutcome ==
    \A t \in Tests :
        /\ <<tests[t].outcome, tests[t].status>> \in
               {<<"none", "pending">>, <<"success", "passed">>, <<"failure", "failed">>}
        /\ tests[t].outcome \in standing[t]
=============================================================================
