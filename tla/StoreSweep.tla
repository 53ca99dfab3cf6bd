------------------------------ MODULE StoreSweep ------------------------------
(***************************************************************************)
(* A verification of the evidence store as it is walked: page by page, and *)
(* for the API slice by slice within a budget of items and a budget of     *)
(* bytes, each slice's cursor continuing the run, while syncs go on        *)
(* recording versions and the store is written (evidence_store/verify.py,  *)
(* verify_store).  What a record's check looks at is EvidenceStore's; here *)
(* a record or a listed key is right or wrong.                             *)
(***************************************************************************)
EXTENDS Integers, Sequences, FiniteSets, FiniteSetsExt

CONSTANTS RecordIds,     \* ids a record can have, in their order (integers)
          Costs,         \* bytes a record's check reads
          StorePrefixes,      \* how many prefixes are listed
          KeysOf,        \* how many keys one can have
          RecordPage,    \* RECORD_PAGE
          Budgets,       \* [items, bytes] of a slice, or Unbounded (the command line)
          Unbounded, NoSweep

\* Ids are positive; a slice has room for an item.
SweepAssumption ==
    /\ RecordIds \subseteq Nat \ {0} /\ IsFiniteSet(RecordIds) /\ Costs \subseteq Nat
    /\ StorePrefixes \in Nat \ {0} /\ KeysOf \in Nat /\ RecordPage \in Nat \ {0}
    /\ Budgets \ {Unbounded} \subseteq [items : Nat \ {0}, bytes : Nat]

VARIABLES
    rows,     \* the records: [id -> [cost, state]]
    keys,     \* the listed keys: [<<prefix, number>> -> [versions, recorded]]
    sweep     \* a verification: its position, its slice's use, and its sums so far

sweepVars == <<rows, keys, sweep>>

Slots == (1..StorePrefixes) \X (1..KeysOf)

WrongRows == {i \in DOMAIN rows : rows[i].state # "right"}
WrongKeys == {k \in Slots : keys[k].versions > 1 \/ (keys[k].versions = 1 /\ ~keys[k].recorded)}

SweepInit ==
    /\ \E ids \in SUBSET RecordIds : rows \in [ids -> [cost : Costs, state : {"right", "wrong", "pending"}]]
    /\ keys \in [Slots -> {[versions |-> 0, recorded |-> FALSE], [versions |-> 1, recorded |-> TRUE],
                           [versions |-> 2, recorded |-> TRUE]}]
    /\ sweep = NoSweep

-----------------------------------------------------------------------------
(* Meanwhile.                                                              *)

Record(id, key, cost) ==
    /\ id \notin DOMAIN rows /\ keys[key].versions > 0 /\ ~keys[key].recorded
    /\ rows' = [i \in DOMAIN rows \cup {id} |-> IF i = id THEN [cost |-> cost, state |-> "right"] ELSE rows[i]]
    /\ keys' = [keys EXCEPT ![key].recorded = TRUE]
    /\ UNCHANGED sweep

WriteKey(key) ==
    /\ keys[key].versions = 0
    /\ keys' = [keys EXCEPT ![key].versions = 1]
    /\ UNCHANGED <<rows, sweep>>

-----------------------------------------------------------------------------
(* A run, and its slices.                                                  *)

\* The caller begins without a cursor.
StartSweep(budget) ==
    /\ sweep = NoSweep
    /\ sweep' = [budget |-> budget, phase |-> "records", open |-> FALSE,
                 after |-> 0, prefix |-> 1, key |-> 0,             \* the cursor
                 from |-> <<>>,                                    \* where this slice began
                 checked |-> 0, planned |-> 0, listed |-> 0,       \* this slice's
                 total |-> 0, failed |-> 0, unverified |-> 0, once |-> 0,   \* the sum of the slices
                 seen |-> {}, wrong |-> WrongRows, wrongKeys |-> WrongKeys]
    /\ UNCHANGED <<rows, keys>>

Position(s) == <<s.phase, s.after, s.prefix, s.key>>

\* A call of verify_store: the documents and the store's findings with the first.
BeginSlice ==
    /\ sweep # NoSweep /\ sweep.phase # "complete" /\ ~sweep.open
    /\ sweep' = [sweep EXCEPT !.open = TRUE, !.from = Position(sweep),
                   !.checked = 0, !.planned = 0, !.listed = 0,
                   !.once = IF sweep.phase = "records" /\ sweep.after = 0 THEN @ + 1 ELSE @]
    /\ UNCHANGED <<rows, keys>>

Bounded(s) == s.budget # Unbounded

Room(s) == IF ~Bounded(s) THEN RecordPage ELSE Min({RecordPage, s.budget.items - s.checked})

\* The page: the first records after the cursor, by id.
Later(s) == {i \in DOMAIN rows : i > s.after}
Page(s) == {i \in Later(s) : Cardinality({j \in Later(s) : j < i}) < Room(s)}

CostOf(records) == MapThenSumSet(LAMBDA i : rows[i].cost, records)

\* _within_budget: the leading rows that fit, the slice's first record always.
UpTo(page, i) == {j \in page : j <= i}

Fits(s, page, i) ==
    \/ s.planned + CostOf(UpTo(page, i)) <= s.budget.bytes
    \/ UpTo(page, i) = {i} /\ s.checked = 0

WithinBudget(s, page) == {i \in page : ~Bounded(s) \/ \A j \in UpTo(page, i) : Fits(s, page, j)}

\* Mutant: the cursor names the record the next slice starts with.
NextUnread(page, taken) == IF page # taken THEN Min(page \ taken) ELSE Max(taken)

\* The cursor names the last record checked.
LastChecked(page, taken) == Max(taken)

\* The records' part ends here; with records left it goes on in the next slice,
\* else the listing follows, for the command line at once.
EndOfRecords(s, stopped) ==
    LET left == stopped /\ Later(s) # {}
    IN  [s EXCEPT !.phase = IF left THEN "records" ELSE "listing",
                  !.open = IF left THEN FALSE ELSE ~Bounded(s)]

\* verify_records, a page.
CheckPage ==
    /\ sweep # NoSweep /\ sweep.open /\ sweep.phase = "records"
    /\ LET page == Page(sweep)
           taken == WithinBudget(sweep, page)
           done == [sweep EXCEPT !.after = LastChecked(page, taken), !.checked = @ + Cardinality(taken),
                      !.total = @ + Cardinality(taken), !.planned = @ + CostOf(taken),
                      !.seen = @ \cup ({0} \X taken),
                      !.failed = @ + Cardinality({i \in taken : rows[i].state = "wrong"}),
                      !.unverified = @ + Cardinality({i \in taken : rows[i].state = "pending"})]
       IN  sweep' = IF Room(sweep) <= 0 THEN EndOfRecords(sweep, TRUE)
                    ELSE IF page = {} THEN EndOfRecords(sweep, FALSE)
                    ELSE IF taken = {} THEN EndOfRecords(sweep, TRUE)
                    ELSE IF taken # page THEN EndOfRecords(done, TRUE)
                    ELSE IF Cardinality(page) < Room(sweep) THEN EndOfRecords(done, FALSE)
                    ELSE done
    /\ UNCHANGED <<rows, keys>>

\* verify_listing, a key: its first version must be recorded, and be the only one.
NextKeys(s) == {k \in Slots : k[1] = s.prefix /\ k[2] > s.key /\ keys[k].versions > 0}

ListKey ==
    /\ sweep # NoSweep /\ sweep.open /\ sweep.phase = "listing" /\ NextKeys(sweep) # {}
    /\ LET key == CHOOSE k \in NextKeys(sweep) : \A l \in NextKeys(sweep) : k[2] <= l[2]
           group == keys[key]
           full == Bounded(sweep) /\ sweep.listed + group.versions >= sweep.budget.items
       IN  sweep' = [sweep EXCEPT !.key = key[2], !.listed = @ + group.versions, !.total = @ + 1,
                       !.seen = @ \cup {key}, !.open = ~full,
                       !.failed = @ + group.versions - 1,
                       !.unverified = IF group.recorded THEN @ ELSE @ + 1]
    /\ UNCHANGED <<rows, keys>>

Following(s) ==
    IF s.prefix < StorePrefixes THEN [s EXCEPT !.prefix = @ + 1, !.key = 0]
    ELSE [s EXCEPT !.phase = "complete", !.open = FALSE]

EndPrefix ==
    /\ sweep # NoSweep /\ sweep.open /\ sweep.phase = "listing" /\ NextKeys(sweep) = {}
    /\ sweep' = Following(sweep)
    /\ UNCHANGED <<rows, keys>>

\* A listing that fails is a failure; the next prefix follows.
Unlisted(s) == [Following(s) EXCEPT !.failed = s.failed + 1]

ListingFails ==
    /\ sweep # NoSweep /\ sweep.open /\ sweep.phase = "listing"
    /\ sweep' = Unlisted(sweep)
    /\ UNCHANGED <<rows, keys>>

EndSweep == sweep # NoSweep /\ sweep.phase = "complete" /\ sweep' = NoSweep /\ UNCHANGED <<rows, keys>>

SweepNext ==
    \/ \E key \in Slots : WriteKey(key) \/ \E id \in RecordIds, cost \in Costs : Record(id, key, cost)
    \/ \E budget \in Budgets : StartSweep(budget)
    \/ BeginSlice \/ CheckPage \/ ListKey \/ EndPrefix \/ ListingFails \/ EndSweep

SweepSpec == SweepInit /\ [][SweepNext]_sweepVars

-----------------------------------------------------------------------------
(* Properties.                                                             *)

\* A run of which every slice was valid saw everything that was wrong when it
\* began and still is, whatever was recorded between its pages, and counted no
\* record and no key twice.
ValidRunSawAll ==
    sweep # NoSweep =>
        /\ sweep.total = Cardinality(sweep.seen)
        /\ sweep.phase = "complete" =>
              /\ sweep.once = 1
              /\ sweep.failed = 0 /\ sweep.unverified = 0 =>
                    (sweep.wrong \cap WrongRows) \cup (sweep.wrongKeys \cap WrongKeys) = {}

\* Every slice moves the cursor on, however small its budgets, so that a caller
\* who follows it comes to an end; and it reads no more than its bytes, but for
\* a record that is larger than all of them.
SlicesAdvance ==
    sweep # NoSweep /\ sweep.from # <<>> =>
        /\ ~sweep.open => Position(sweep) # sweep.from
        /\ Bounded(sweep) => sweep.planned <= sweep.budget.bytes \/ sweep.checked = 1

\* What a verification in slices promises.
SweepIsTrue == ValidRunSawAll /\ SlicesAdvance
=============================================================================
