--------------------------- MODULE MCEvidenceStore --------------------------
(* Small instances of EvidenceStore for TLC. *)
EXTENDS EvidenceStore

OneOfEach == [k \in Keys |-> IF k = "p" THEN "pentest" ELSE IF k = "l" THEN "log" ELSE "document"]
OneBucket == [k \in Keys |-> "b"]
Pentest == [k \in Keys |-> "pentest"]

TwoFindings == {{}, {"f"}, {"g"}}
SomeExports == {<<1>>, <<1, 2>>, <<3>>}

\* One body of each fate for one of the kinds.
SomeBodies ==
    [pentest |-> TwoFindings,
     log |-> SomeExports \cup {Malformed},
     document |-> {Null, Bare, Large}]
=============================================================================
