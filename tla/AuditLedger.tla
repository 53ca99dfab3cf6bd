----------------------------- MODULE AuditLedger -----------------------------
(***************************************************************************)
(* What the audit log promises since migration 016: a single append-only   *)
(* chain.  A transaction adds all its rows at once, each one linked to the *)
(* row before it; nothing that was added is reordered or linked twice.     *)
(***************************************************************************)
EXTENDS Naturals, Sequences

VARIABLE ledger   \* the rows, each with its hash and its previous hash

Linked(s) == \A i \in 2..Len(s) : s[i].prev = s[i - 1].hash

Init == ledger = <<>>

\* A committed transaction: the rows that were there stay, at their places.
Extend ==
    /\ Len(ledger') > Len(ledger)
    /\ SubSeq(ledger', 1, Len(ledger)) = ledger
    /\ Linked(ledger')

Spec == Init /\ [][Extend]_ledger
==============================================================================
