--------------------------- MODULE GitSyncProofs ---------------------------
(***************************************************************************)
(* That a diff from the last synced commit forgets no file, and that a     *)
(* successful run leaves every file not adrift at its head, for every      *)
(* branch, mapping and bound.                                              *)
(*                                                                         *)
(* The inductive invariant follows one run from its snapshot to its end:   *)
(* what held of the commit it starts from still holds of every file it did *)
(* not record (StartOK); every file it did not record is a candidate or    *)
(* needs no reading (CoverOK); and every file it recorded is at the head   *)
(* or marked to be read again (WrittenOK).                                 *)
(***************************************************************************)
EXTENDS GitSync, DatasetImport, FiniteSetTheorems, TLAPS

\* A file that is read again by the next sync.
Reread(f) == files[f].status \in RetryStatuses

Processing == run # NoRun /\ run.phase \in {"process", "finish"}

\* Commits of the source and of the run are commits of the branch.
CommitsOK ==
    /\ source.last \in 0..Len(history) \cup {NoCommit}
    /\ run # NoRun =>
          /\ run.from \in 0..Len(history) \cup {NoCommit}
          /\ run.phase # "resolve" => run.head \in 1..Len(history)

\* A record has a kind; a flag carries the content that was too large, if any.
RecordsOK ==
    \A f \in Files :
        /\ files[f].status # "none" => files[f].kind \in Kinds
        /\ files[f].status = "too_large" => files[f].blob \in TooLarge \cup {Absent}

\* What a run has and has not at each of its phases.
PhasesOK ==
    run # NoRun =>
        /\ ~Processing => run.written = {}
        /\ run.phase = "finish" => run.todo = {}
        /\ Processing => /\ run.strategy \in {"diff", "tree", "full"}
                         /\ run.strategy = "diff" => run.from \in 1..Len(history)

\* Only a file the head does not hold, or that no mapping reads, is deleted;
\* only a diff retries a file that no mapping reads.
CandidateOK(c) ==
    /\ c.change = "D" => \/ history[run.head][c.path] = Absent
                         \/ run.mappings[c.path] = Unmapped
    /\ c.change # "D" => c.blob \in {history[run.head][c.path], Absent}
    /\ c.change # "D" /\ run.strategy # "diff" => run.mappings[c.path] # Unmapped

CandidatesOK == Processing => \A c \in run.todo : CandidateOK(c)

\* Why a run may leave a file alone.
Settled(f) ==
    IF run.strategy = "diff"
    THEN /\ \/ history[run.from][f] = history[run.head][f]
            \/ run.mappings[f] = Unmapped
         /\ ~Reread(f)
    ELSE AtTree(f, history[run.head], run.mappings)

CoverOK ==
    Processing =>
        \A f \in Files \ run.written : Settled(f) \/ \E c \in run.todo : c.path = f

\* A recorded file is at the head or read again; a clean run has none of these.
WrittenOK ==
    run # NoRun =>
        /\ run.written \subseteq adrift
        /\ \A f \in run.written :
              /\ run.mappings[f] # Unmapped \/ run.strategy # "diff" =>
                    AtTree(f, history[run.head], run.mappings) \/ Reread(f)
              /\ run.clean => ~Reread(f)

\* The files not adrift are as the commit the run started from has them.
StartOK ==
    run # NoRun /\ run.from \in 1..Len(history) =>
        \A f \in Files \ adrift :
            AtTree(f, history[run.from], run.mappings) \/ Reread(f)

GInv ==
    /\ TypeOK /\ CommitsOK /\ RecordsOK /\ PhasesOK /\ CandidatesOK /\ CoverOK
    /\ WrittenOK /\ StartOK /\ NothingForgotten

-----------------------------------------------------------------------------
(* The environment: commits, edits, and the ends of runs without outcome.  *)

\* A commit of the branch stays as it is when the branch grows.
LEMMA HistoryGrows ==
    ASSUME TypeOK, NEW f \in Files, Commit(f)
    PROVE  /\ history' \in Seq(Tree)
           /\ Len(history') = Len(history) + 1 /\ Len(history') \in 1..MaxCommits
           /\ \A i \in 1..Len(history) : history'[i] = history[i]
<1>1. PICK b \in Holds[f] \cup {Absent} :
          history' = Append(history, [Last(history) EXCEPT ![f] = b])
  BY DEF Commit
<1>2. history \in Seq(Tree) /\ Len(history) \in 1..MaxCommits
  BY DEF TypeOK
<1>3. Last(history) \in Tree
  BY <1>2 DEF Last
<1>4. [Last(history) EXCEPT ![f] = b] \in Tree
  BY <1>3, SyncAssumption DEF Tree
<1>5. Len(history) < MaxCommits
  BY DEF Commit
<1> QED
  BY <1>1, <1>2, <1>4, <1>5, SyncAssumption

\* What the proofs use of the types.
LEMMA Types ==
    ASSUME TypeOK
    PROVE  /\ history \in Seq(Tree) /\ Len(history) \in Nat \ {0} /\ Len(history) <= MaxCommits
           /\ \A i \in 1..Len(history) : history[i] \in Tree
           /\ source.last \in 0..MaxCommits \cup {NoCommit} /\ source.mappings \in Mappings
           /\ files \in [Files -> FileRecord]
           /\ run # NoRun => run \in Run
           /\ adrift \subseteq Files
           /\ MaxCommits \in Nat /\ NoCommit \notin Nat
           /\ Mappings \subseteq [Files -> Kinds \cup {Unmapped}]
BY SyncAssumption DEF TypeOK

LEMMA CommitKeeps ==
    ASSUME GInv, NEW f \in Files, Commit(f)
    PROVE  GInv'
<1>1. UNCHANGED <<source, files, run, adrift, budget>>
  BY DEF Commit
<1>2. /\ history' \in Seq(Tree)
      /\ Len(history') = Len(history) + 1 /\ Len(history') \in 1..MaxCommits
      /\ \A i \in 1..Len(history) : history'[i] = history[i]
  BY HistoryGrows DEF GInv
<1>3. Len(history) \in Nat \ {0} /\ NoCommit \notin Nat
  BY Types DEF GInv
<1>4. TypeOK'
  BY <1>1, <1>2 DEF GInv, TypeOK
<1>5. CommitsOK'
  BY <1>1, <1>2, <1>3 DEF GInv, CommitsOK
<1>6. RecordsOK'
  BY <1>1 DEF GInv, RecordsOK
<1>7. PhasesOK'
  BY <1>1, <1>2, <1>3 DEF GInv, PhasesOK, Processing
<1>8. Processing => run.head \in 1..Len(history)
  BY DEF GInv, CommitsOK, Processing
<1>9. Processing /\ run.strategy = "diff" => run.from \in 1..Len(history)
  BY DEF GInv, PhasesOK, Processing
<1>10. CandidatesOK'
  BY <1>1, <1>2, <1>8 DEF GInv, CandidatesOK, CandidateOK, Processing
<1>11. CoverOK'
  BY <1>1, <1>2, <1>8, <1>9 DEF GInv, CoverOK, Settled, AtTree, Reread, Processing
<1>12. WrittenOK'
  <2>1. SUFFICES ASSUME run # NoRun
                 PROVE  /\ run.written \subseteq adrift
                        /\ \A g \in run.written :
                              /\ run.mappings[g] # Unmapped \/ run.strategy # "diff" =>
                                    \/ AtTree(g, history[run.head], run.mappings)'
                                    \/ Reread(g)
                              /\ run.clean => ~Reread(g)
    BY <1>1 DEF WrittenOK, Reread, AtTree
  <2>2. CASE Processing
    BY <1>1, <1>2, <1>8, <2>1, <2>2 DEF GInv, WrittenOK, AtTree
  <2>3. CASE ~Processing
    BY <2>1, <2>3 DEF GInv, PhasesOK
  <2> QED
    BY <2>2, <2>3
<1>13. StartOK'
  <2>1. run # NoRun /\ run.from \in 1..Len(history') =>
            run.from \in 1..Len(history)
    BY <1>2, <1>3 DEF GInv, CommitsOK
  <2> QED
    BY <1>1, <1>2, <2>1 DEF GInv, StartOK, AtTree, Reread
<1>14. NothingForgotten'
  <2>1. source.last \in 1..Len(history') => source.last \in 1..Len(history)
    BY <1>2, <1>3 DEF GInv, CommitsOK
  <2> QED
    BY <1>1, <1>2, <2>1 DEF GInv, NothingForgotten, AtTree
<1> QED
  BY <1>4, <1>5, <1>6, <1>7, <1>10, <1>11, <1>12, <1>13, <1>14 DEF GInv

\* An edit of the mappings forgets the last synced commit.
LEMMA EditKeeps ==
    ASSUME GInv, EditMappings
    PROVE  GInv'
<1>1. PICK m \in Mappings : source' = [source EXCEPT !.mappings = m, !.last = NoCommit]
  BY DEF EditMappings
<1>2. UNCHANGED <<history, files, run, adrift>> /\ budget > 0 /\ budget' = budget - 1
  BY DEF EditMappings, Spend
<1>3. source'.last = NoCommit /\ source' \in [last: 0..MaxCommits \cup {NoCommit}, mappings: Mappings]
  BY <1>1 DEF GInv, TypeOK
<1>4. TypeOK'
  BY <1>2, <1>3, SyncAssumption DEF GInv, TypeOK
<1>5. NothingForgotten'
  BY <1>2, <1>3, Types DEF GInv, NothingForgotten
<1> QED
  BY <1>2, <1>3, <1>4, <1>5
  DEF GInv, CommitsOK, RecordsOK, PhasesOK, CandidatesOK, CandidateOK, CoverOK, Settled,
      WrittenOK, StartOK, Processing, Reread, AtTree

\* A commit the administrator vouches for sets every file adrift.
LEMMA SetCommitKeeps ==
    ASSUME GInv, SetCommit
    PROVE  GInv'
<1>1. PICK c \in 0..Len(history) : source' = [source EXCEPT !.last = c]
  BY DEF SetCommit
<1>2. /\ UNCHANGED <<history, files, run>> /\ adrift' = Files
      /\ budget > 0 /\ budget' = budget - 1
  BY DEF SetCommit, Spend
<1>3. /\ source'.last \in 0..Len(history)
      /\ source' \in [last: 0..MaxCommits \cup {NoCommit}, mappings: Mappings]
  BY <1>1, Types DEF GInv, TypeOK
<1>4. TypeOK'
  BY <1>2, <1>3, SyncAssumption DEF GInv, TypeOK
<1>5. NothingForgotten' /\ StartOK'
  BY <1>2 DEF NothingForgotten, StartOK
<1>6. run # NoRun => run.written \subseteq Files
  BY Types DEF GInv, Run
<1>7. WrittenOK'
  BY <1>2, <1>6 DEF GInv, WrittenOK, AtTree, Reread
<1> QED
  BY <1>2, <1>3, <1>4, <1>5, <1>7
  DEF GInv, CommitsOK, RecordsOK, PhasesOK, CandidatesOK, CandidateOK, CoverOK, Settled,
      Processing, Reread, AtTree

\* A run may end at any moment without having moved the last synced commit.
LEMMA EndKeeps ==
    ASSUME GInv, run' = NoRun, UNCHANGED <<history, source, files, adrift>>,
           budget' \in 0..MaxTroubles
    PROVE  GInv'
BY DEF GInv, TypeOK, CommitsOK, RecordsOK, PhasesOK, CandidatesOK, CoverOK, WrittenOK,
       StartOK, NothingForgotten, Processing, AtTree

-----------------------------------------------------------------------------
(* What a discovery lists.                                                 *)

\* A comparison of trees lists every file that is not as the tree has it.
LEMMA TreeLists ==
    ASSUME TypeOK, RecordsOK, NEW f \in Files, NEW tree \in Tree,
           NEW m \in [Files -> Kinds \cup {Unmapped}], NEW full \in BOOLEAN
    PROVE  /\ \A c \in FromTree(f, tree, m, full) :
                 /\ c \in Candidate /\ c.path = f
                 /\ c.change = "D" => tree[f] = Absent \/ m[f] = Unmapped
                 /\ c.change # "D" => c.blob = tree[f] /\ m[f] # Unmapped
           /\ FromTree(f, tree, m, full) = {} => AtTree(f, tree, m)
<1> DEFINE rec == files[f]
           seen == tree[f] # Absent /\ m[f] # Unmapped
           settled == rec.status \in {"ok", "too_large"} /\ rec.blob = tree[f]
           read == [path |-> f, kind |-> m[f], blob |-> tree[f],
                    change |-> IF rec = NoRecord THEN "A" ELSE "M"]
           dropped == [path |-> f, kind |-> rec.kind, blob |-> Absent, change |-> "D"]
<1>1. rec \in FileRecord /\ tree[f] \in Blobs \cup {Absent} /\ m[f] \in Kinds \cup {Unmapped}
  BY DEF TypeOK, Tree
<1>2. /\ rec.status # "none" => rec.kind \in Kinds
      /\ rec.status = "too_large" => rec.blob \in TooLarge \cup {Absent}
  BY DEF RecordsOK
<1>3. CASE seen /\ (full \/ ~settled)
  <2>1. FromTree(f, tree, m, full) = {read}
    BY <1>3 DEF FromTree
  <2>2. read \in Candidate
    BY <1>1, <1>3 DEF Candidate
  <2>3. read.path = f /\ read.change # "D" /\ read.blob = tree[f]
    OBVIOUS
  <2> QED
    BY <1>3, <2>1, <2>2, <2>3
<1>4. CASE ~seen /\ rec.status \notin {"none", "deleted"}
  <2>1. FromTree(f, tree, m, full) = {dropped}
    BY <1>4 DEF FromTree
  <2>2. dropped \in Candidate
    BY <1>2, <1>4 DEF Candidate
  <2>3. dropped.path = f /\ dropped.change = "D"
    OBVIOUS
  <2> QED
    BY <1>4, <2>1, <2>2, <2>3
<1>5. CASE ~(seen /\ (full \/ ~settled)) /\ ~(~seen /\ rec.status \notin {"none", "deleted"})
  <2>1. FromTree(f, tree, m, full) = {}
    BY <1>5 DEF FromTree
  <2>2. AtTree(f, tree, m)
    BY <1>1, <1>2, <1>5 DEF AtTree
  <2> QED
    BY <2>1, <2>2
<1> QED
  BY <1>3, <1>4, <1>5

\* The provider's diff lists the mapped files that changed.
LEMMA DiffLists ==
    ASSUME NEW f \in Files, NEW before \in Tree, NEW after \in Tree,
           NEW m \in [Files -> Kinds \cup {Unmapped}]
    PROVE  /\ \A c \in FromChanges(f, before, after, m) :
                 /\ c \in Candidate /\ c.path = f
                 /\ c.change = "D" => after[f] = Absent
                 /\ c.blob = after[f]
           /\ FromChanges(f, before, after, m) = {} => before[f] = after[f] \/ m[f] = Unmapped
<1> DEFINE change == IF after[f] = Absent THEN "D" ELSE IF before[f] = Absent THEN "A" ELSE "M"
           c == [path |-> f, kind |-> m[f], blob |-> after[f], change |-> change]
<1>1. CASE before[f] = after[f] \/ m[f] = Unmapped
  BY <1>1 DEF FromChanges
<1>2. CASE ~(before[f] = after[f] \/ m[f] = Unmapped)
  <2>1. FromChanges(f, before, after, m) = {c}
    BY <1>2 DEF FromChanges
  <2>2. after[f] \in Blobs \cup {Absent} /\ m[f] \in Kinds
    BY <1>2 DEF Tree
  <2>3. change \in {"A", "M", "D", "R"} /\ (change = "D" => after[f] = Absent)
    OBVIOUS
  <2>4. c \in Candidate
    BY <2>2, <2>3 DEF Candidate
  <2> QED
    BY <2>1, <2>3, <2>4
<1> QED
  BY <1>1, <1>2

\* A file marked to be read again and not listed otherwise is retried.
LEMMA RetriesList ==
    ASSUME TypeOK, RecordsOK, NEW listed \in SUBSET Files,
           NEW m \in [Files -> Kinds \cup {Unmapped}]
    PROVE  /\ \A c \in Retries(listed, m) :
                 /\ c \in Candidate /\ c.change = "R" /\ c.blob = Absent
                 /\ c.path \in Files \ listed /\ Reread(c.path)
           /\ \A f \in Files \ listed : Reread(f) => \E c \in Retries(listed, m) : c.path = f
<1> DEFINE retry(f) == [path |-> f, change |-> "R", blob |-> Absent,
                        kind |-> IF m[f] # Unmapped THEN m[f] ELSE files[f].kind]
<1>1. Retries(listed, m) = {retry(f) : f \in {g \in Files \ listed : Reread(g)}}
  BY DEF Retries, Reread
<1>2. ASSUME NEW f \in Files \ listed, Reread(f)
      PROVE  /\ retry(f) \in Candidate /\ retry(f).change = "R" /\ retry(f).blob = Absent
             /\ retry(f).path = f
  <2>1. files[f].status # "none"
    BY <1>2 DEF Reread, RetryStatuses
  <2>2. files[f].kind \in Kinds
    BY <2>1 DEF RecordsOK
  <2>3. (IF m[f] # Unmapped THEN m[f] ELSE files[f].kind) \in Kinds
    BY <2>2
  <2> QED
    BY <2>3 DEF Candidate
<1>3. ASSUME NEW c \in Retries(listed, m)
      PROVE  /\ c \in Candidate /\ c.change = "R" /\ c.blob = Absent
             /\ c.path \in Files \ listed /\ Reread(c.path)
  <2>1. PICK f \in Files \ listed : Reread(f) /\ c = retry(f)
    BY <1>1, <1>3
  <2> QED
    BY <1>2, <2>1
<1>4. ASSUME NEW f \in Files \ listed, Reread(f)
      PROVE  \E c \in Retries(listed, m) : c.path = f
  <2>1. retry(f) \in Retries(listed, m)
    BY <1>1, <1>4
  <2> QED
    BY <1>2, <1>4, <2>1
<1> QED
  BY <1>3, <1>4

\* Every file is a candidate of a comparison of trees, or is as the head has it.
LEMMA TreeCandidates ==
    ASSUME GInv, run # NoRun, run.head \in 1..Len(history),
           NEW strategy \in {"tree", "full"}
    PROVE  /\ \A c \in CandidatesBy(strategy) :
                 /\ c \in Candidate
                 /\ c.change = "D" => \/ history[run.head][c.path] = Absent
                                      \/ run.mappings[c.path] = Unmapped
                 /\ c.change # "D" => /\ c.blob = history[run.head][c.path]
                                      /\ run.mappings[c.path] # Unmapped
           /\ \A f \in Files : \/ AtTree(f, history[run.head], run.mappings)
                               \/ \E c \in CandidatesBy(strategy) : c.path = f
<1> DEFINE tree == history[run.head]
           m == run.mappings
           full == strategy = "full"
           lists(f) == FromTree(f, tree, m, full)
           changed == UNION {lists(f) : f \in Files}
           listed == {c.path : c \in changed}
<1>1. tree \in Tree /\ m \in [Files -> Kinds \cup {Unmapped}]
  BY Types DEF GInv, Run
<1>2. CandidatesBy(strategy)
          = changed \cup (IF strategy = "full" THEN {} ELSE Retries(listed, m))
  BY DEF CandidatesBy
<1>0. full \in BOOLEAN
  OBVIOUS
<1> HIDE DEF tree, m, full
<1>3. ASSUME NEW f \in Files
      PROVE  /\ \A c \in lists(f) :
                   /\ c \in Candidate /\ c.path = f
                   /\ c.change = "D" => tree[f] = Absent \/ m[f] = Unmapped
                   /\ c.change # "D" => c.blob = tree[f] /\ m[f] # Unmapped
             /\ lists(f) = {} => AtTree(f, tree, m)
  BY <1>0, <1>1, TreeLists DEF GInv
<1>4. listed \subseteq Files
  BY <1>3
<1>5. ASSUME NEW f \in Files, lists(f) # {}
      PROVE  f \in listed /\ \E c \in changed : c.path = f
  <2>1. PICK c \in lists(f) : TRUE
    BY <1>5
  <2>2. c \in changed /\ c.path = f
    BY <1>3, <2>1
  <2> QED
    BY <2>2
<1>6. Retries(listed, m) = {}
  <2>1. ASSUME NEW f \in Files \ listed PROVE ~Reread(f)
    <3>1. AtTree(f, tree, m)
      BY <1>3, <1>5
    <3> QED
      BY <3>1 DEF AtTree, Reread, RetryStatuses
  <2>2. \A c \in Retries(listed, m) : c.path \in Files \ listed /\ Reread(c.path)
    BY <1>1, <1>4, RetriesList DEF GInv
  <2> QED
    BY <2>1, <2>2
<1>7. CandidatesBy(strategy) = changed
  BY <1>2, <1>6
<1> QED
  BY <1>3, <1>5, <1>7 DEF tree, m

\* A file a diff does not list has not changed, or is not mapped; and it is not
\* to be read again.
LEMMA DiffCandidates ==
    ASSUME GInv, run # NoRun, run.head \in 1..Len(history), run.from \in 1..Len(history)
    PROVE  /\ \A c \in CandidatesBy("diff") :
                 /\ c \in Candidate
                 /\ c.change = "D" => history[run.head][c.path] = Absent
                 /\ c.blob \in {history[run.head][c.path], Absent}
           /\ \A f \in Files :
                 \/ /\ \/ history[run.from][f] = history[run.head][f]
                       \/ run.mappings[f] = Unmapped
                    /\ ~Reread(f)
                 \/ \E c \in CandidatesBy("diff") : c.path = f
<1> DEFINE tree == history[run.head]
           before == history[run.from]
           m == run.mappings
           lists(f) == FromChanges(f, before, tree, m)
           changed == IF run.from = run.head THEN {} ELSE UNION {lists(f) : f \in Files}
           listed == {c.path : c \in changed}
<1>1. tree \in Tree /\ before \in Tree /\ m \in [Files -> Kinds \cup {Unmapped}]
  BY Types DEF GInv, Run
<1>2. CandidatesBy("diff") = changed \cup Retries(listed, m)
  BY DEF CandidatesBy
<1> HIDE DEF tree, before, m
<1>3. ASSUME NEW f \in Files
      PROVE  /\ \A c \in lists(f) :
                   /\ c \in Candidate /\ c.path = f
                   /\ c.change = "D" => tree[f] = Absent
                   /\ c.blob = tree[f]
             /\ lists(f) = {} => before[f] = tree[f] \/ m[f] = Unmapped
  BY <1>1, DiffLists
<1>4. \A c \in changed : /\ c \in Candidate /\ c.path \in Files
                         /\ c.change = "D" => tree[c.path] = Absent
                         /\ c.blob = tree[c.path]
  <2>1. ASSUME NEW c \in changed PROVE \E f \in Files : c \in lists(f)
    BY <2>1
  <2> QED
    BY <1>3, <2>1
<1>5. listed \in SUBSET Files
  BY <1>4
<1>6. /\ \A c \in Retries(listed, m) :
            /\ c \in Candidate /\ c.change = "R" /\ c.blob = Absent
      /\ \A f \in Files \ listed : Reread(f) => \E c \in Retries(listed, m) : c.path = f
  <2> HIDE DEF listed
  <2> QED
    BY <1>1, <1>5, RetriesList DEF GInv
<1>7. ASSUME NEW f \in Files \ listed
      PROVE  before[f] = tree[f] \/ m[f] = Unmapped
  <2>1. CASE run.from = run.head
    BY <2>1 DEF before, tree
  <2>2. CASE run.from # run.head
    <3>1. ASSUME NEW c \in lists(f) PROVE FALSE
      <4>1. c \in changed /\ c.path = f
        BY <1>3, <2>2, <3>1
      <4> QED
        BY <4>1
    <3> QED
      BY <1>3, <3>1
  <2> QED
    BY <2>1, <2>2
<1>8. ASSUME NEW f \in listed PROVE \E c \in changed : c.path = f
  BY <1>8
<1>9. \A c \in CandidatesBy("diff") :
          /\ c \in Candidate
          /\ c.change = "D" => tree[c.path] = Absent
          /\ c.blob \in {tree[c.path], Absent}
  BY <1>2, <1>4, <1>6
<1>10. ASSUME NEW f \in Files
       PROVE  \/ (before[f] = tree[f] \/ m[f] = Unmapped) /\ ~Reread(f)
              \/ \E c \in CandidatesBy("diff") : c.path = f
  BY <1>2, <1>6, <1>7, <1>8
<1> QED
  BY <1>9, <1>10 DEF tree, before, m

-----------------------------------------------------------------------------
(* The run.                                                                *)

LEMMA InitHolds ==
    ASSUME Init
    PROVE  GInv
<1>1. PICK t \in Tree : history = <<t>>
  BY DEF Init
<1>2. source \in [last: {NoCommit}, mappings: Mappings] /\ source.last = NoCommit
  BY DEF Init
<1>3. files = [f \in Files |-> NoRecord] /\ run = NoRun /\ adrift = {} /\ budget = MaxTroubles
  BY DEF Init
<1>4. NoRecord \in FileRecord /\ NoRecord.status = "none"
  BY DEF NoRecord, FileRecord
<1>5. history \in Seq(Tree) /\ Len(history) = 1
  BY <1>1
<1>6. TypeOK
  BY <1>2, <1>3, <1>4, <1>5, SyncAssumption DEF TypeOK
<1>7. CommitsOK /\ NothingForgotten
  BY <1>2, <1>3, <1>5, SyncAssumption DEF CommitsOK, NothingForgotten
<1>8. RecordsOK
  BY <1>3, <1>4 DEF RecordsOK
<1> QED
  BY <1>3, <1>6, <1>7, <1>8
  DEF GInv, PhasesOK, CandidatesOK, CoverOK, WrittenOK, StartOK, Processing

\* A run starts from the source as it is: nothing is forgotten at its commit.
LEMMA BeginKeeps ==
    ASSUME GInv, NEW full \in BOOLEAN, Begin(full)
    PROVE  GInv'
<1>1. /\ run' = [phase |-> "resolve", full |-> full, from |-> source.last,
                 mappings |-> source.mappings, head |-> 0, strategy |-> "",
                 todo |-> {}, written |-> {}, undeleted |-> {}, clean |-> TRUE]
      /\ UNCHANGED <<history, source, files, adrift, budget>>
  BY DEF Begin
<1>2. run' \in Run
  <2>1. source.last \in 0..MaxCommits \cup {NoCommit} /\ source.mappings \in Mappings
    BY Types DEF GInv
  <2>2. 0 \in 0..MaxCommits
    BY Types DEF GInv
  <2> QED
    BY <1>1, <2>1, <2>2 DEF Run
<1>3. TypeOK'
  BY <1>1, <1>2 DEF GInv, TypeOK
<1>4. CommitsOK' /\ RecordsOK' /\ NothingForgotten'
  BY <1>1 DEF GInv, CommitsOK, RecordsOK, NothingForgotten, AtTree
<1>5. StartOK'
  BY <1>1 DEF GInv, StartOK, NothingForgotten, AtTree, Reread
<1>6. PhasesOK' /\ CandidatesOK' /\ CoverOK' /\ WrittenOK'
  BY <1>1 DEF PhasesOK, CandidatesOK, CoverOK, WrittenOK, Processing
<1> QED
  BY <1>3, <1>4, <1>5, <1>6 DEF GInv

LEMMA ResolveKeeps ==
    ASSUME GInv, ResolveHead
    PROVE  GInv'
<1>1. /\ run # NoRun /\ run.phase = "resolve" /\ run \in Run
      /\ UNCHANGED <<history, source, files, adrift, budget>>
  BY Types DEF GInv, ResolveHead, Running
<1>2. run' = [phase |-> "discover", full |-> run.full, from |-> run.from,
              mappings |-> run.mappings, head |-> Len(history), strategy |-> run.strategy,
              todo |-> run.todo, written |-> run.written, undeleted |-> run.undeleted,
              clean |-> run.clean]
  BY <1>1 DEF ResolveHead, Run
<1>3. Len(history) \in 1..Len(history) /\ Len(history) \in 0..MaxCommits
  BY Types DEF GInv
<1>4. run' \in Run
  BY <1>1, <1>2, <1>3 DEF Run
<1>5. TypeOK' /\ CommitsOK' /\ RecordsOK' /\ NothingForgotten'
  BY <1>1, <1>2, <1>3, <1>4 DEF GInv, TypeOK, CommitsOK, RecordsOK, NothingForgotten, AtTree
<1>6. StartOK'
  BY <1>1, <1>2 DEF GInv, StartOK, AtTree, Reread
<1>7. run.written = {}
  BY <1>1 DEF GInv, PhasesOK, Processing
<1>8. PhasesOK' /\ CandidatesOK' /\ CoverOK' /\ WrittenOK'
  BY <1>2, <1>7 DEF PhasesOK, CandidatesOK, CoverOK, WrittenOK, Processing
<1> QED
  BY <1>5, <1>6, <1>8 DEF GInv

\* A discovery lists every file it may not leave alone.
LEMMA DiscoverKeeps ==
    ASSUME GInv, NEW strategy \in {"diff", "tree", "full"}, Discover(strategy)
    PROVE  GInv'
<1>1. run # NoRun /\ run.phase = "discover" /\ run \in Run
  BY Types DEF GInv, Discover, Running
<1>2. UNCHANGED <<history, source, files, adrift>> /\ budget' \in 0..MaxTroubles
  BY SyncAssumption DEF GInv, TypeOK, Discover, Spend
<1>3. run' = [phase |-> "process", full |-> run.full, from |-> run.from,
              mappings |-> run.mappings, head |-> run.head, strategy |-> strategy,
              todo |-> CandidatesBy(strategy), written |-> run.written,
              undeleted |-> run.undeleted, clean |-> run.clean]
  BY <1>1 DEF Discover, Run
<1>4. run.head \in 1..Len(history) /\ run.from \in 0..Len(history) \cup {NoCommit}
  BY <1>1 DEF GInv, CommitsOK
<1>5. strategy = "diff" => run.from \in 1..Len(history)
  <2>1. strategy = "diff" => ~run.full /\ run.from # NoCommit /\ run.from # Unknown
    BY DEF Discover
  <2> QED
    BY <1>4, <2>1, Types DEF GInv, Unknown
<1>6. run.written = {}
  BY <1>1 DEF GInv, PhasesOK, Processing
<1>7. /\ \A c \in CandidatesBy(strategy) :
            /\ c \in Candidate
            /\ c.change = "D" => \/ history[run.head][c.path] = Absent
                                 \/ run.mappings[c.path] = Unmapped
            /\ c.change # "D" => c.blob \in {history[run.head][c.path], Absent}
            /\ c.change # "D" /\ strategy # "diff" => run.mappings[c.path] # Unmapped
  <2>1. CASE strategy = "diff"
    BY <1>1, <1>4, <1>5, <2>1, DiffCandidates
  <2>2. CASE strategy \in {"tree", "full"}
    BY <1>1, <1>4, <2>2, TreeCandidates
  <2> QED
    BY <2>1, <2>2
<1>8. run' \in Run
  BY <1>1, <1>3, <1>7 DEF Run
<1>9. TypeOK' /\ CommitsOK' /\ RecordsOK' /\ NothingForgotten'
  BY <1>1, <1>2, <1>3, <1>8 DEF GInv, TypeOK, CommitsOK, RecordsOK, NothingForgotten, AtTree
<1>10. StartOK'
  BY <1>1, <1>2, <1>3 DEF GInv, StartOK, AtTree, Reread
<1>11. PhasesOK' /\ WrittenOK'
  BY <1>2, <1>3, <1>5, <1>6 DEF PhasesOK, WrittenOK, Processing
<1>12. CandidatesOK'
  BY <1>2, <1>3, <1>7 DEF CandidatesOK, CandidateOK, Processing
<1>13. CoverOK'
  <2>1. SUFFICES ASSUME NEW f \in Files
                 PROVE  \/ Settled(f)'
                        \/ \E c \in CandidatesBy(strategy) : c.path = f
    BY <1>3 DEF CoverOK
  <2>2. CASE strategy = "diff"
    <3>1. \/ /\ \/ history[run.from][f] = history[run.head][f]
                \/ run.mappings[f] = Unmapped
             /\ ~Reread(f)
          \/ \E c \in CandidatesBy("diff") : c.path = f
      BY <1>1, <1>4, <1>5, <2>2, DiffCandidates
    <3> QED
      BY <1>2, <1>3, <2>2, <3>1 DEF Settled, Reread
  <2>3. CASE strategy \in {"tree", "full"}
    <3>1. \/ AtTree(f, history[run.head], run.mappings)
          \/ \E c \in CandidatesBy(strategy) : c.path = f
      BY <1>1, <1>4, <2>3, TreeCandidates
    <3> QED
      BY <1>2, <1>3, <2>3, <3>1 DEF Settled, AtTree
  <2> QED
    BY <2>2, <2>3
<1> QED
  BY <1>9, <1>10, <1>11, <1>12, <1>13 DEF GInv

\* A record that has what the head and the mappings say of a file.
RecordAtHead(c, record) ==
    IF history[run.head][c.path] = Absent \/ run.mappings[c.path] = Unmapped
    THEN record.status \in {"none", "deleted"}
    ELSE \/ record.status = "ok" /\ record.blob = history[run.head][c.path]
         \/ record.status = "too_large" /\ history[run.head][c.path] \in TooLarge

\* Whatever its result, recording a candidate keeps the invariant while the
\* record is at the head, is to be read again, or is of a file a diff retried.
LEMMA RecordKeeps ==
    ASSUME GInv, Running("process"), NEW c \in run.todo, NEW record \in FileRecord,
           NEW clean \in BOOLEAN, Record(c, record, clean), budget' \in 0..MaxTroubles,
           record.status # "none" => record.kind \in Kinds,
           record.status = "too_large" => record.blob \in TooLarge \cup {Absent},
           run.mappings[c.path] # Unmapped \/ run.strategy # "diff" =>
               RecordAtHead(c, record) \/ record.status \in RetryStatuses,
           clean => record.status \notin RetryStatuses
    PROVE  GInv'
<1>1. run # NoRun /\ run.phase = "process" /\ run \in Run /\ Processing
  BY Types DEF GInv, Running, Processing
<1>2. c \in Candidate /\ c.path \in Files
  BY <1>1 DEF Run, Candidate
<1>3. PICK failed \in SUBSET {c.path} :
          run' = [phase |-> run.phase, full |-> run.full, from |-> run.from,
                  mappings |-> run.mappings, head |-> run.head, strategy |-> run.strategy,
                  todo |-> run.todo \ {c}, written |-> run.written \cup {c.path},
                  undeleted |-> run.undeleted \cup failed, clean |-> run.clean /\ clean]
  BY <1>1 DEF Record, Run
<1>4. /\ files' = [files EXCEPT ![c.path] = record]
      /\ adrift' = adrift \cup {c.path}
      /\ UNCHANGED <<history, source>>
  BY DEF Record
<1>5. /\ files' \in [Files -> FileRecord] /\ files'[c.path] = record
      /\ \A f \in Files : f # c.path => files'[f] = files[f]
  BY <1>2, <1>4 DEF GInv, TypeOK
<1>6. run' \in Run
  BY <1>1, <1>2, <1>3 DEF Run
<1>7. TypeOK'
  BY <1>2, <1>4, <1>5, <1>6 DEF GInv, TypeOK
<1>8. CommitsOK' /\ PhasesOK'
  BY <1>1, <1>3, <1>4 DEF GInv, CommitsOK, PhasesOK, Processing
<1>9. RecordsOK'
  BY <1>5 DEF GInv, RecordsOK
<1>10. CandidatesOK'
  BY <1>1, <1>3, <1>4 DEF GInv, CandidatesOK, CandidateOK, Processing
<1>13. CoverOK'
  <2>1. SUFFICES ASSUME NEW f \in Files, f \notin run.written, f # c.path
                 PROVE  Settled(f)' \/ \E d \in run.todo \ {c} : d.path = f
    BY <1>3 DEF CoverOK
  <2>2. Settled(f) \/ \E d \in run.todo : d.path = f
    BY <1>1, <2>1 DEF GInv, CoverOK
  <2>3. Settled(f) => Settled(f)'
    BY <1>3, <1>4, <1>5, <2>1 DEF Settled, AtTree, Reread
  <2> QED
    BY <2>1, <2>2, <2>3
<1>14. WrittenOK'
  <2>1. run'.written \subseteq adrift'
    BY <1>1, <1>3, <1>4 DEF GInv, WrittenOK
  <2>2. SUFFICES ASSUME NEW f \in run'.written
                 PROVE  /\ run.mappings[f] # Unmapped \/ run.strategy # "diff" =>
                              AtTree(f, history[run.head], run.mappings)' \/ Reread(f)'
                        /\ run'.clean => ~Reread(f)'
    BY <1>3, <2>1 DEF WrittenOK
  <2>3. CASE f = c.path
    BY <1>3, <1>4, <1>5, <2>3 DEF AtTree, Reread, RecordAtHead
  <2>4. CASE f # c.path
    <3>1. f \in run.written /\ f \in Files
      BY <1>1, <1>3, <2>4 DEF Run
    <3>2. /\ run.mappings[f] # Unmapped \/ run.strategy # "diff" =>
                AtTree(f, history[run.head], run.mappings) \/ Reread(f)
          /\ run.clean => ~Reread(f)
      BY <1>1, <3>1 DEF GInv, WrittenOK
    <3>3. run'.clean => run.clean
      BY <1>3
    <3> QED
      BY <1>3, <1>4, <1>5, <2>4, <3>1, <3>2, <3>3 DEF AtTree, Reread
  <2> QED
    BY <2>3, <2>4
<1>15. StartOK'
  BY <1>1, <1>3, <1>4, <1>5 DEF GInv, StartOK, AtTree, Reread
<1>16. NothingForgotten'
  BY <1>4, <1>5 DEF GInv, NothingForgotten, AtTree
<1> QED
  BY <1>7, <1>8, <1>9, <1>10, <1>13, <1>14, <1>15, <1>16 DEF GInv

LEMMA ProcessKeeps ==
    ASSUME GInv, ProcessFile
    PROVE  GInv'
<1>1. PICK c \in run.todo : ImportFile(c) \/ RefuseFile(c) \/ FlagFile(c) \/ DeleteFile(c) \/ FailFile(c)
  BY DEF ProcessFile, NextCandidates
<1>2. Running("process") /\ run # NoRun /\ run \in Run /\ Processing
  BY Types DEF GInv, ProcessFile, Running, Processing
<1>3. c \in Candidate /\ c.path \in Files /\ c.kind \in Kinds /\ c.blob \in Blobs \cup {Absent}
  BY <1>2 DEF Run, Candidate
<1>4. CandidateOK(c) /\ run.head \in 1..Len(history)
  BY <1>2 DEF GInv, CandidatesOK, CommitsOK, Running
<1>5. history[run.head][c.path] \in Blobs \cup {Absent}
  BY <1>3, <1>4, Types DEF GInv, Tree
<1>6. files[c.path] \in FileRecord
  BY <1>3, Types DEF GInv
<1>7. CASE ImportFile(c)
  <2>1. PICK status \in {"ok", "incomplete"} :
            Record(c, [status |-> status, kind |-> c.kind, blob |-> Content(c)], status = "ok")
    BY <1>7 DEF ImportFile
  <2>2. c.change # "D" /\ Content(c) \in Blobs \ TooLarge /\ budget' = budget
    BY <1>7 DEF ImportFile, Readable
  <2> DEFINE record == [status |-> status, kind |-> c.kind, blob |-> Content(c)]
             clean == status = "ok"
  <2>3. /\ record \in FileRecord /\ record.status = status /\ record.kind = c.kind
        /\ record.blob = Content(c) /\ clean \in BOOLEAN
    BY <1>3, <2>2 DEF FileRecord
  <2>4. clean => record.status \notin RetryStatuses
    BY DEF RetryStatuses
  <2>5. ~clean => record.status \in RetryStatuses
    BY DEF RetryStatuses
  <2>6. clean <=> status = "ok"
    OBVIOUS
  <2>7. budget' \in 0..MaxTroubles
    BY <2>2 DEF GInv, TypeOK
  <2>8. run.mappings[c.path] # Unmapped \/ run.strategy # "diff" =>
            RecordAtHead(c, record) \/ record.status \in RetryStatuses
    BY <1>4, <2>2, <2>3, <2>5, <2>6, SyncAssumption DEF CandidateOK, RecordAtHead, Content
  <2>9. Record(c, record, clean)
    BY <2>1
  <2> HIDE DEF record, clean
  <2> QED
    BY <1>2, <1>3, <2>3, <2>4, <2>7, <2>8, <2>9, RecordKeeps
<1>8. CASE FlagFile(c)
  <2> DEFINE record == [status |-> "too_large", kind |-> c.kind, blob |-> c.blob]
  <2>1. Record(c, record, FALSE) /\ c.change # "D" /\ Content(c) \in TooLarge /\ budget' = budget
    BY <1>8 DEF FlagFile
  <2>2. /\ record \in FileRecord /\ record.status = "too_large" /\ record.kind = c.kind
        /\ record.blob = c.blob
    BY <1>3 DEF FileRecord
  <2>3. record.blob \in TooLarge \cup {Absent}
    BY <1>4, <2>1, <2>2 DEF CandidateOK, Content
  <2>4. run.mappings[c.path] # Unmapped \/ run.strategy # "diff" => RecordAtHead(c, record)
    BY <1>4, <2>1, <2>2, SyncAssumption DEF CandidateOK, RecordAtHead, Content
  <2>5. budget' \in 0..MaxTroubles
    BY <2>1 DEF GInv, TypeOK
  <2> HIDE DEF record
  <2> QED
    BY <1>2, <1>3, <2>1, <2>2, <2>3, <2>4, <2>5, RecordKeeps
<1>9. CASE DeleteFile(c)
  <2> DEFINE record == [status |-> "deleted", kind |-> c.kind, blob |-> Absent]
  <2>1. Record(c, record, TRUE) /\ c.change = "D" /\ budget' = budget
    BY <1>9 DEF DeleteFile
  <2>2. record \in FileRecord /\ record.status = "deleted" /\ record.kind = c.kind
    BY <1>3 DEF FileRecord
  <2>3. RecordAtHead(c, record)
    BY <1>4, <2>1, <2>2 DEF CandidateOK, RecordAtHead
  <2>4. record.status \notin RetryStatuses /\ record.status # "too_large"
    BY <2>2 DEF RetryStatuses
  <2>5. budget' \in 0..MaxTroubles
    BY <2>1 DEF GInv, TypeOK
  <2> HIDE DEF record
  <2> QED
    BY <1>2, <1>3, <2>1, <2>2, <2>3, <2>4, <2>5, RecordKeeps
<1>10. CASE FailFile(c)
  <2> DEFINE record == [files[c.path] EXCEPT !.status = "error", !.kind = c.kind]
  <2>1. Record(c, record, FALSE)
    BY <1>10 DEF FailFile
  <2>2. budget' \in 0..MaxTroubles
    BY <1>10, SyncAssumption DEF FailFile, Spend, GInv, TypeOK
  <2>3. record \in FileRecord /\ record.status = "error" /\ record.kind = c.kind
    BY <1>3, <1>6 DEF FileRecord
  <2>4. record.status \in RetryStatuses /\ record.status # "too_large"
    BY <2>3 DEF RetryStatuses
  <2> HIDE DEF record
  <2> QED
    BY <1>2, <1>3, <2>1, <2>2, <2>3, <2>4, RecordKeeps
<1>11. CASE RefuseFile(c)
  <2>1. PICK status \in {"incomplete", "error"}, blob \in {Content(c), files[c.path].blob} :
            Record(c, [status |-> status, kind |-> c.kind, blob |-> blob], FALSE)
    BY <1>11 DEF RefuseFile
  <2>2. Content(c) \in Blobs /\ budget' \in 0..MaxTroubles
    BY <1>11 DEF RefuseFile, Readable, GInv, TypeOK
  <2> DEFINE record == [status |-> status, kind |-> c.kind, blob |-> blob]
  <2>3. blob \in Blobs \cup {Absent}
    BY <1>6, <2>1, <2>2 DEF FileRecord
  <2>4. record \in FileRecord /\ record.status = status /\ record.kind = c.kind
    BY <1>3, <2>3 DEF FileRecord
  <2>5. record.status \in RetryStatuses /\ record.status # "too_large"
    BY <2>4 DEF RetryStatuses
  <2>6. Record(c, record, FALSE)
    BY <2>1
  <2> HIDE DEF record
  <2> QED
    BY <1>2, <1>3, <2>2, <2>4, <2>5, <2>6, RecordKeeps
<1> QED
  BY <1>1, <1>7, <1>8, <1>9, <1>10, <1>11

LEMMA RecordCommitsKeeps ==
    ASSUME GInv, RecordCommits
    PROVE  GInv'
<1>1. /\ run # NoRun /\ run.phase = "process" /\ run \in Run /\ run.todo = {}
      /\ UNCHANGED <<history, source, files, adrift, budget>>
  BY Types DEF GInv, RecordCommits, Running
<1>2. run' = [phase |-> "finish", full |-> run.full, from |-> run.from,
              mappings |-> run.mappings, head |-> run.head, strategy |-> run.strategy,
              todo |-> run.todo, written |-> run.written, undeleted |-> run.undeleted,
              clean |-> run.clean]
  BY <1>1 DEF RecordCommits, Run
<1>3. run' \in Run
  BY <1>1, <1>2 DEF Run
<1>4. TypeOK' /\ CommitsOK' /\ RecordsOK' /\ NothingForgotten'
  BY <1>1, <1>2, <1>3 DEF GInv, TypeOK, CommitsOK, RecordsOK, NothingForgotten, AtTree
<1>5. PhasesOK' /\ CandidatesOK'
  BY <1>1, <1>2 DEF GInv, PhasesOK, CandidatesOK, Processing
<1>6. CoverOK'
  BY <1>1, <1>2 DEF GInv, CoverOK, Settled, AtTree, Reread, Processing
<1>7. WrittenOK' /\ StartOK'
  BY <1>1, <1>2 DEF GInv, WrittenOK, StartOK, AtTree, Reread
<1> QED
  BY <1>4, <1>5, <1>6, <1>7 DEF GInv

\* At the end of a run every file it answers for is at the head, or is to be
\* read again; after a clean one none is.
LEMMA FinishedAtHead ==
    ASSUME GInv, Running("finish"), NEW f \in Files,
           \/ f \notin adrift
           \/ f \in run.written /\ run.mappings[f] # Unmapped
           \/ run.strategy # "diff"
    PROVE  /\ AtTree(f, history[run.head], run.mappings) \/ Reread(f)
           /\ run.clean => AtTree(f, history[run.head], run.mappings)
<1>1. run # NoRun /\ Processing /\ run.todo = {}
  BY DEF GInv, PhasesOK, Running, Processing
<1>2. f \notin adrift => f \notin run.written
  BY <1>1 DEF GInv, WrittenOK
<1>3. CASE f \in run.written
  BY <1>1, <1>2, <1>3 DEF GInv, WrittenOK
<1>4. CASE f \notin run.written
  <2>1. Settled(f)
    BY <1>1, <1>4 DEF GInv, CoverOK
  <2>2. CASE run.strategy # "diff"
    BY <2>1, <2>2 DEF Settled
  <2>3. CASE run.strategy = "diff"
    <3>1. f \notin adrift
      BY <1>4, <2>3
    <3>2. run.from \in 1..Len(history)
      BY <1>1, <2>3 DEF GInv, PhasesOK
    <3>3. AtTree(f, history[run.from], run.mappings) \/ Reread(f)
      BY <1>1, <3>1, <3>2 DEF GInv, StartOK
    <3> QED
      BY <2>1, <2>3, <3>3 DEF Settled, AtTree
  <2> QED
    BY <2>2, <2>3
<1> QED
  BY <1>3, <1>4

LEMMA FinishKeeps ==
    ASSUME GInv, Finish
    PROVE  GInv'
<1>1. /\ Running("finish") /\ run # NoRun /\ run \in Run
      /\ run' = NoRun /\ UNCHANGED <<history, files, budget>>
  BY Types DEF GInv, Finish, Running
<1>2. CASE source.last # run.from
  <2>1. UNCHANGED <<source, adrift>> /\ budget' \in 0..MaxTroubles
    BY <1>1, <1>2 DEF Finish, GInv, TypeOK
  <2> QED
    BY <1>1, <2>1, EndKeeps
<1>3. CASE source.last = run.from
  <2>1. source' = [source EXCEPT !.last = run.head] /\ adrift' = AdriftAfter
    BY <1>3 DEF Finish
  <2>2. run.head \in 1..Len(history)
    BY <1>1 DEF GInv, CommitsOK, Running
  <2>3. /\ source' \in [last: 0..MaxCommits \cup {NoCommit}, mappings: Mappings]
        /\ source'.last = run.head /\ source'.mappings = source.mappings
    BY <2>1, <2>2, Types DEF GInv, TypeOK
  <2>4. adrift' \subseteq Files
    BY <1>1, <2>1, Types DEF GInv, AdriftAfter, Run
  <2>5. TypeOK' /\ CommitsOK' /\ RecordsOK'
    BY <1>1, <2>2, <2>3, <2>4 DEF GInv, TypeOK, CommitsOK, RecordsOK
  <2>6. PhasesOK' /\ CandidatesOK' /\ CoverOK' /\ WrittenOK' /\ StartOK'
    BY <1>1 DEF PhasesOK, CandidatesOK, CoverOK, WrittenOK, StartOK, Processing
  <2>7. ASSUME NEW f \in Files, f \notin AdriftAfter
        PROVE  AtTree(f, history[run.head], source.mappings) \/ Reread(f)
    <3>1. /\ run.mappings = source.mappings
          /\ \/ f \notin adrift
             \/ f \in run.written /\ run.mappings[f] # Unmapped
             \/ run.strategy # "diff"
      BY <2>7 DEF AdriftAfter
    <3> QED
      BY <1>1, <3>1, FinishedAtHead
  <2>8. NothingForgotten'
    BY <1>1, <2>1, <2>3, <2>7 DEF NothingForgotten, AtTree, Reread
  <2> QED
    BY <2>5, <2>6, <2>8 DEF GInv
<1> QED
  BY <1>2, <1>3

LEMMA StepKeeps ==
    ASSUME GInv, [Next]_vars
    PROVE  GInv'
<1>1. CASE UNCHANGED vars
  BY <1>1
  DEF GInv, TypeOK, CommitsOK, RecordsOK, PhasesOK, CandidatesOK, CandidateOK, CoverOK,
      Settled, WrittenOK, StartOK, NothingForgotten, Processing, Reread, AtTree, vars
<1>2. CASE FailUnknown \/ FailRun \/ Interrupt
  <2>1. /\ run' = NoRun /\ UNCHANGED <<history, source, files, adrift>>
        /\ budget' \in 0..MaxTroubles
    BY <1>2, SyncAssumption DEF FailUnknown, FailRun, Interrupt, Spend, GInv, TypeOK
  <2> QED
    BY <2>1, EndKeeps
<1>3. CASE Next /\ ~(FailUnknown \/ FailRun \/ Interrupt)
  BY <1>3, CommitKeeps, EditKeeps, SetCommitKeeps, BeginKeeps, ResolveKeeps, DiscoverKeeps,
     ProcessKeeps, RecordCommitsKeeps, FinishKeeps
  DEF Next, Unattended
<1> QED
  BY <1>1, <1>2, <1>3

-----------------------------------------------------------------------------
(* The theorems.                                                           *)

\* The model's state is always of its types, and the inductive invariant holds.
THEOREM Invariance == Spec => []GInv
BY InitHolds, StepKeeps, PTL DEF Spec

\* A diff from the last synced commit forgets nothing, whatever the branch, the
\* edits, the failures and the interrupted runs: each file not adrift is as that
\* commit has it or is read again (discover_candidates, _finish).
THEOREM ForgetsNothing == FairSpec => []NothingForgotten
<1>1. GInv => NothingForgotten
  BY DEF GInv
<1> QED
  BY <1>1, Invariance, PTL DEF FairSpec

\* A run that ends as a success leaves every file not adrift as its head has it:
\* none that an earlier run failed on is still open (execute_sync_run).
THEOREM SuccessIsAtHead == FairSpec => SuccessUnlessAdrift
<1>1. ASSUME GInv, Finish, Outcome \in {"success", "unchanged"}, NEW f \in Files \ adrift'
      PROVE  AtTree(f, history[run.head], run.mappings)
  <2>1. run.clean
    BY <1>1 DEF Outcome
  <2>2. Running("finish")
    BY <1>1 DEF Finish
  <2>3. \/ f \notin adrift
        \/ f \in run.written /\ run.mappings[f] # Unmapped
        \/ run.strategy # "diff"
    BY <1>1 DEF Finish, AdriftAfter
  <2> QED
    BY <1>1, <2>1, <2>2, <2>3, FinishedAtHead
<1>2. GInv => [Finish /\ Outcome \in {"success", "unchanged"} =>
                  \A f \in Files \ adrift' : AtTree(f, history[run.head], run.mappings)]_vars
  BY <1>1
<1> QED
  BY <1>2, Invariance, PTL DEF FairSpec, SuccessUnlessAdrift

-----------------------------------------------------------------------------
(* DatasetImport, for any records, files and items.                        *)

\* Rows have their columns, and none that PostgreSQL refuses.
Table(d) == [RecordIds[d] -> Row \cup {NoRow}]
RowsOK(table) ==
    /\ table \in [Datasets -> UNION {Table(d) : d \in Datasets}]
    /\ \A d \in Datasets : table[d] \in Table(d)
    /\ \A d \in Datasets : \A id \in RecordIds[d] : table[d][id] # NoRow => table[d][id].val # Unstorable

\* The entries of a file that change something.
Changed(table, d, file, known) == Created(table, d, file, known) \cup Updated(table, d, file, known)

\* The test that is found is a stored one, and depends on the stored tests and
\* controls only.
LEMMA NamedStored ==
  ASSUME NEW table, NEW names PROVE NamedTest(table, names) \subseteq Stored(table, "tests")
<1> DEFINE named(d) == {id \in Stored(table, d) : table[d][id].val \in names}
           control == CHOOSE c \in named("controls") : TRUE
           found == IF named("tests") # {} THEN named("tests")
                    ELSE {t \in Stored(table, "tests") :
                             named("controls") # {} /\ control \in table["tests"][t].ref}
<1>1. NamedTest(table, names) = IF found = {} THEN {} ELSE {CHOOSE t \in found : TRUE}
  BY DEF NamedTest
<1>2. found \subseteq Stored(table, "tests")
  OBVIOUS
<1> HIDE DEF found
<1> QED
  BY <1>1, <1>2

\* See above.
LEMMA NamedSame ==
  ASSUME NEW table, NEW other, table["tests"] = other["tests"], table["controls"] = other["controls"],
         NEW names
  PROVE  NamedTest(table, names) = NamedTest(other, names)
<1> DEFINE named(x, d) == {id \in Stored(x, d) : x[d][id].val \in names}
           control(x) == CHOOSE c \in named(x, "controls") : TRUE
           of(x) == {t \in Stored(x, "tests") : named(x, "controls") # {} /\ control(x) \in x["tests"][t].ref}
           found(x) == IF named(x, "tests") # {} THEN named(x, "tests") ELSE of(x)
<1>1. Stored(table, "tests") = Stored(other, "tests") /\ Stored(table, "controls") = Stored(other, "controls")
  BY DEF Stored
<1>2. named(table, "tests") = named(other, "tests") /\ named(table, "controls") = named(other, "controls")
  BY <1>1
<1> HIDE DEF named
<1>3. control(table) = control(other)
  BY <1>2
<1> HIDE DEF control
<1>4. of(table) = of(other)
  BY <1>1, <1>2, <1>3
<1>5. \A x : NamedTest(x, names) = IF found(x) = {} THEN {} ELSE {CHOOSE t \in found(x) : TRUE}
  BY DEF NamedTest, named, control
<1> HIDE DEF of
<1>6. found(table) = found(other)
  BY <1>2, <1>4
<1> HIDE DEF found
<1> QED
  BY <1>5, <1>6

\* What is known of a file of a dataset.
Read(d, file) ==
    /\ d \in Datasets /\ DOMAIN file = 1..Len(file) /\ Len(file) \in Nat
    /\ \A i \in DOMAIN file :
          /\ file[i].id \in RecordIds[d] \cup {NoId}
          /\ file[i].val \in {item.val : item \in Items} /\ file[i].ref \subseteq References
    /\ NoId \notin RecordIds[d]

\* The files of the datasets are such.
LEMMA FilesRead ==
  ASSUME DatasetImportAssumption, NEW d \in Datasets, NEW file \in Contents[d]
  PROVE  Read(d, file)
<1>1. file \in Seq(Items) /\ \A i \in DOMAIN file : file[i].id \in RecordIds[d] \cup {NoId}
  BY DEF DatasetImportAssumption
<1>2. NoId \notin RecordIds[d]
  BY DEF DatasetImportAssumption
<1>3. ASSUME NEW i \in DOMAIN file
      PROVE  file[i].val \in {item.val : item \in Items} /\ file[i].ref \subseteq References
  <2>1. file[i] \in Items
    BY <1>1
  <2>2. file[i].ref \in {item.ref : item \in Items}
    BY <2>1
  <2> QED
    BY <2>1, <2>2 DEF References
<1> QED
  BY <1>1, <1>2, <1>3 DEF Read

\* So are they when the tests that evidence names were looked up.
LEMMA ResolvedRead ==
  ASSUME NEW d, NEW file, Read(d, file), NEW table
  PROVE  /\ Read(d, Resolved(table, d, file)) /\ DOMAIN Resolved(table, d, file) = DOMAIN file
         /\ \A i \in DOMAIN file : Resolved(table, d, file)[i].val = file[i].val
<1>1. CASE d # "evidence"
  BY <1>1 DEF Resolved
<1>2. CASE d = "evidence"
  <2> DEFINE given == Resolved(table, d, file)
  <2>1. given = [i \in DOMAIN file |->
                   [id |-> file[i].id, val |-> file[i].val, ref |-> NamedTest(table, file[i].ref)]]
    BY <1>2 DEF Resolved
  <2> HIDE DEF given
  <2>2. DOMAIN given = DOMAIN file
    BY <2>1
  <2>3. ASSUME NEW i \in DOMAIN file
        PROVE  /\ given[i].id = file[i].id /\ given[i].val = file[i].val
               /\ given[i].ref = NamedTest(table, file[i].ref)
    BY <2>1
  <2>4. \A names : NamedTest(table, names) \subseteq References
    BY NamedStored DEF References, Stored
  <2>5. given \in Seq({given[i] : i \in DOMAIN file}) /\ Len(given) = Len(file)
    <3>1. given = [i \in 1..Len(file) |-> given[i]] /\ Len(file) \in Nat
      BY <2>1, <2>2 DEF Read
    <3> QED
      BY <3>1, <2>2 DEF Read
  <2>6. Read(d, given)
    BY <2>2, <2>3, <2>4, <2>5 DEF Read
  <2> QED
    BY <2>2, <2>3, <2>6 DEF given
<1> QED
  BY <1>1, <1>2

\* What is looked up is the same in rows with the same tests and controls, and
\* in all for what is not evidence.
LEMMA ResolvedSame ==
  ASSUME NEW table, NEW other, NEW d,
         d = "evidence" => table["tests"] = other["tests"] /\ table["controls"] = other["controls"],
         NEW file
  PROVE  Resolved(table, d, file) = Resolved(other, d, file)
<1>1. CASE d # "evidence"
  BY <1>1 DEF Resolved
<1>2. CASE d = "evidence"
  <2>1. \A names : NamedTest(table, names) = NamedTest(other, names)
    BY <1>2, NamedSame
  <2> QED
    BY <2>1 DEF Resolved
<1> QED
  BY <1>1, <1>2

\* An entry has a record's id, and no other entry has it.
LEMMA EntriesAre ==
  ASSUME NEW d, NEW file, Read(d, file), NEW known, NEW i \in Entries(d, file, known)
  PROVE  /\ i \in DOMAIN file /\ i \in Nat /\ file[i].id \in RecordIds[d] /\ Importable(d, file[i], known)
         /\ \A j \in Entries(d, file, known) : file[j].id = file[i].id => j = i
<1>1. \A j \in Entries(d, file, known) :
         /\ j \in DOMAIN file /\ j \in 1..Len(file) /\ Importable(d, file[j], known)
         /\ \A k \in (j + 1)..Len(file) : file[k].id = file[j].id => ~Importable(d, file[k], known)
  BY DEF Entries, Read
<1>2. \A j \in Entries(d, file, known) : file[j].id \in RecordIds[d]
  BY <1>1 DEF Importable, Read
<1>3. ASSUME NEW j \in Entries(d, file, known), file[j].id = file[i].id, j # i PROVE FALSE
  <2>1. i \in 1..Len(file) /\ j \in 1..Len(file) /\ Len(file) \in Nat
    BY <1>1 DEF Read
  <2>2. j \in (i + 1)..Len(file) \/ i \in (j + 1)..Len(file)
    BY <1>3, <2>1
  <2> QED
    BY <1>1, <1>3, <2>2
<1> QED
  BY <1>1, <1>2, <1>3

\* What is changed is kept.
LEMMA ChangedAre ==
  ASSUME NEW table, NEW d, NEW file, Read(d, file), NEW known, NEW i \in Changed(table, d, file, known)
  PROVE  /\ i \in Kept(table, d, file, known) /\ i \in Entries(d, file, known)
         /\ i \in DOMAIN file /\ file[i].id \in RecordIds[d] /\ Importable(d, file[i], known)
         /\ \A j \in Entries(d, file, known) : file[j].id = file[i].id => j = i
<1>1. i \in Kept(table, d, file, known) /\ i \in Entries(d, file, known)
  BY DEF Changed, Created, Updated, Kept
<1> QED
  BY <1>1, EntriesAre

-----------------------------------------------------------------------------
(* The rows after a file.                                                  *)

\* What a file writes.
LEMMA WrittenIs ==
  ASSUME NEW table, NEW d, NEW item, NEW known
  PROVE  /\ Written(table, d, item, known) =
              [val |-> New(table, d, item, known).val, ref |-> item.ref,
               links |-> New(table, d, item, known).links \cap Stored(table, "controls")]
         /\ New(table, d, item, known) =
              [val |-> IF item.val = Omitted THEN Old(table, d, item).val ELSE item.val, ref |-> item.ref,
               links |-> IF d = "policies" THEN Links(item, Old(table, d, item), known) ELSE {}]
BY DEF Written, New, Becomes

\* Rows after an import: those of its changed entries, and the others as before.
After(table, d, file, known, after) ==
    /\ after \in [Datasets -> {after[e] : e \in Datasets}] /\ DOMAIN after[d] = RecordIds[d]
    /\ after[d] = [id \in RecordIds[d] |-> after[d][id]]
    /\ \A e \in Datasets \ {d} : after[e] = table[e]
    /\ \A i \in Changed(table, d, file, known) : after[d][file[i].id] = Written(table, d, file[i], known)
    /\ \A id \in RecordIds[d] :
          (\A i \in Changed(table, d, file, known) : file[i].id # id) => after[d][id] = table[d][id]

\* A file leaves such rows.
LEMMA ImportLeaves ==
  ASSUME NEW table, RowsOK(table), NEW d, NEW file, Read(d, file), NEW known
  PROVE  After(table, d, file, known, RowsAfter(table, d, file, known))
<1> DEFINE changed == Created(table, d, file, known) \cup Updated(table, d, file, known)
           at(id) == {i \in changed : file[i].id = id}
           after == RowsAfter(table, d, file, known)
           column == [id \in RecordIds[d] |-> IF at(id) = {} THEN table[d][id]
                                              ELSE Written(table, d, file[CHOOSE i \in at(id) : TRUE], known)]
<1>1. after = [table EXCEPT ![d] = column]
  BY DEF RowsAfter
<1>2. d \in Datasets /\ DOMAIN table = Datasets
  BY DEF Read, RowsOK
<1> HIDE DEF after, column
<1>3. after[d] = column /\ \A e \in Datasets \ {d} : after[e] = table[e]
  BY <1>1, <1>2
<1>4. after \in [Datasets -> {after[e] : e \in Datasets}]
  BY <1>1, <1>2 DEF RowsOK
<1>5. \A id \in RecordIds[d] : at(id) = {} => after[d][id] = table[d][id]
  BY <1>3 DEF column
<1>6. ASSUME NEW i \in changed PROVE after[d][file[i].id] = Written(table, d, file[i], known)
  <2>1. i \in Entries(d, file, known) /\ file[i].id \in RecordIds[d]
    BY ChangedAre DEF Changed
  <2>2. \A j \in changed : file[j].id = file[i].id => j = i
    BY <2>1, ChangedAre DEF Changed
  <2>3. at(file[i].id) = {i}
    BY <2>2
  <2>4. (CHOOSE j \in at(file[i].id) : TRUE) = i
    BY <2>3
  <2> HIDE DEF at
  <2>5. after[d][file[i].id] =
           IF at(file[i].id) = {} THEN table[d][file[i].id]
           ELSE Written(table, d, file[CHOOSE j \in at(file[i].id) : TRUE], known)
    BY <1>3, <2>1 DEF column
  <2> QED
    BY <2>3, <2>4, <2>5
<1>7. after[d] = [id \in RecordIds[d] |-> after[d][id]] /\ DOMAIN after[d] = RecordIds[d]
  BY <1>3 DEF column
<1> QED
  BY <1>3, <1>4, <1>5, <1>6, <1>7 DEF After, Changed, after

\* A changed entry writes a row.
LEMMA WritesRow ==
  ASSUME NEW table, RowsOK(table), NEW d, NEW file, Read(d, file), NEW known,
         NEW i \in Changed(table, d, file, known)
  PROVE  /\ Written(table, d, file[i], known) \in Row
         /\ Written(table, d, file[i], known).val = New(table, d, file[i], known).val
<1> DEFINE item == file[i]
           old == Old(table, d, item)
<1>1. /\ i \in Kept(table, d, file, known) /\ i \in DOMAIN file /\ item.id \in RecordIds[d]
      /\ item.val \in {x.val : x \in Items} /\ item.ref \subseteq References /\ d \in Datasets
  BY ChangedAre DEF Read
<1>2. ~Skipped(item, old)
  BY <1>1 DEF Kept
<1>3. item.val = Omitted => old \in Row
  BY <1>1, <1>2 DEF Skipped, Old, RowsOK, Table
<1>4. (IF item.val = Omitted THEN old.val ELSE item.val) \in Values \cup {x.val : x \in Items}
  BY <1>1, <1>3 DEF Row
<1>5. item.ref \in SUBSET References
  BY <1>1
<1>6. \A s : s \cap Stored(table, "controls") \in SUBSET RecordIds["controls"]
  BY DEF Stored
<1> HIDE DEF item, old
<1>7. /\ Written(table, d, item, known) =
           [val |-> New(table, d, item, known).val, ref |-> item.ref,
            links |-> New(table, d, item, known).links \cap Stored(table, "controls")]
      /\ New(table, d, item, known).val = IF item.val = Omitted THEN old.val ELSE item.val
  BY WrittenIs DEF old
<1> QED
  BY <1>4, <1>5, <1>6, <1>7 DEF Row, item

\* A file that is not refused leaves rows as they should be, keeps every record,
\* and has those it created.
LEMMA ImportKeeps ==
  ASSUME DatasetImportAssumption, NEW table, RowsOK(table), NEW d, NEW file, Read(d, file), NEW known,
         ~Refused(table, d, file, known)
  PROVE  LET after == RowsAfter(table, d, file, known)
             created == Created(table, d, file, known)
         IN  /\ RowsOK(after)
             /\ \A e \in Datasets : Stored(after, e) =
                   Stored(table, e) \cup (IF e = d THEN {file[i].id : i \in created} ELSE {})
<1> DEFINE created == Created(table, d, file, known)
           after == RowsAfter(table, d, file, known)
<1>1. After(table, d, file, known, after)
  BY ImportLeaves
<1>2. \A i \in Changed(table, d, file, known) : New(table, d, file[i], known).val # Unstorable
  BY DEF Refused, Changed
<1>3. d \in Datasets /\ NoRow \notin Row
  BY DEF Read, DatasetImportAssumption
<1> HIDE DEF after
<1>4. ASSUME NEW id \in RecordIds[d]
      PROVE  \/ (\A i \in Changed(table, d, file, known) : file[i].id # id) /\ after[d][id] = table[d][id]
             \/ /\ \E i \in Changed(table, d, file, known) : file[i].id = id
                /\ after[d][id] \in Row /\ after[d][id].val # Unstorable
  <2>1. CASE \A i \in Changed(table, d, file, known) : file[i].id # id
    BY <1>1, <2>1 DEF After
  <2>2. ASSUME NEW i \in Changed(table, d, file, known), file[i].id = id
        PROVE  after[d][id] \in Row /\ after[d][id].val # Unstorable
    BY <1>1, <1>2, <2>2, WritesRow DEF After
  <2> QED
    BY <2>1, <2>2
<1>5. after[d] \in Table(d)
  <2>1. \A id \in RecordIds[d] : table[d][id] \in Row \cup {NoRow}
    BY <1>3 DEF RowsOK, Table
  <2>2. \A id \in RecordIds[d] : after[d][id] \in Row \cup {NoRow}
    BY <1>4, <2>1
  <2>3. after[d] = [id \in RecordIds[d] |-> after[d][id]]
    BY <1>1 DEF After
  <2> QED
    BY <2>2, <2>3 DEF Table
<1>6. RowsOK(after)
  <2>1. \A e \in Datasets : after[e] \in Table(e)
    BY <1>1, <1>5 DEF After, RowsOK
  <2>2. after \in [Datasets -> UNION {Table(e) : e \in Datasets}]
    <3>1. \A e \in Datasets : after[e] \in UNION {Table(x) : x \in Datasets}
      BY <2>1
    <3>2. after \in [Datasets -> {after[e] : e \in Datasets}]
      BY <1>1 DEF After
    <3> QED
      BY <3>1, <3>2
  <2>3. ASSUME NEW e \in Datasets, NEW id \in RecordIds[e], after[e][id] # NoRow
        PROVE  after[e][id].val # Unstorable
    <3>1. CASE e # d
      BY <1>1, <2>3, <3>1 DEF After, RowsOK
    <3>2. CASE e = d /\ after[d][id] = table[d][id]
      BY <2>3, <3>2 DEF RowsOK
    <3> QED
      BY <1>4, <2>3, <3>1, <3>2
  <2> QED
    BY <2>1, <2>2, <2>3 DEF RowsOK
<1>7. \A e \in Datasets \ {d} : Stored(after, e) = Stored(table, e)
  BY <1>1 DEF After, Stored
<1>8. Stored(after, d) = Stored(table, d) \cup {file[i].id : i \in created}
  <2>1. ASSUME NEW i \in created PROVE file[i].id \in RecordIds[d] /\ after[d][file[i].id] # NoRow
    <3>1. i \in Changed(table, d, file, known) /\ file[i].id \in RecordIds[d]
      BY ChangedAre DEF Changed
    <3> QED
      BY <1>3, <1>4, <3>1
  <2>2. ASSUME NEW id \in RecordIds[d], table[d][id] # NoRow PROVE after[d][id] # NoRow
    BY <1>3, <1>4, <2>2
  <2>3. ASSUME NEW id \in RecordIds[d], after[d][id] # NoRow, table[d][id] = NoRow
        PROVE  \E i \in created : file[i].id = id
    <3>1. PICK i \in Changed(table, d, file, known) : file[i].id = id
      BY <1>4, <2>3
    <3>2. i \in created
      BY <2>3, <3>1, ChangedAre DEF Changed, Created, Old
    <3> QED
      BY <3>1, <3>2
  <2> HIDE DEF created
  <2> QED
    BY <2>1, <2>2, <2>3 DEF Stored
<1> QED
  BY <1>6, <1>7, <1>8 DEF after

-----------------------------------------------------------------------------
(* The second import of a file.                                            *)

\* A file that was imported finds what it would write.
LEMMA WritesNothingAgain ==
  ASSUME DatasetImportAssumption, NEW table, RowsOK(table), NEW d, NEW file, Read(d, file),
         NEW known, known = Stored(table, "controls"), ~Refused(table, d, file, known)
  PROVE  LET after == RowsAfter(table, d, file, known)
             again == Stored(after, "controls")
         IN  Created(after, d, file, again) = {} /\ Updated(after, d, file, again) = {}
<1> DEFINE after == RowsAfter(table, d, file, known)
           again == Stored(after, "controls")
<1>1. After(table, d, file, known, after)
  BY ImportLeaves
<1>2. /\ RowsOK(after)
      /\ \A e \in Datasets : Stored(after, e) =
            Stored(table, e) \cup (IF e = d THEN {file[i].id : i \in Created(table, d, file, known)} ELSE {})
  BY ImportKeeps
<1>3. d \in Datasets /\ NoRow \notin Row
  BY DEF Read, DatasetImportAssumption
<1> HIDE DEF after
<1>4. d # "controls" => again = known
  BY <1>2 DEF Datasets
<1> HIDE DEF again
<1>5. Entries(d, file, again) = Entries(d, file, known)
  <2>1. \A item : Importable(d, item, again) <=> Importable(d, item, known)
    BY <1>4 DEF Importable
  <2> QED
    BY <2>1 DEF Entries
<1>6. ASSUME NEW i \in Entries(d, file, known), i \in Changed(table, d, file, known)
      PROVE  Old(after, d, file[i]) # NoRow /\ New(after, d, file[i], again) = Old(after, d, file[i])
  <2> DEFINE item == file[i]
             old == Old(table, d, item)
             written == Written(table, d, item, known)
  <2>1. Old(after, d, item) = written /\ written \in Row
    BY <1>1, <1>6, WritesRow DEF After, Old
  <2>2. /\ written = [val |-> New(table, d, item, known).val, ref |-> item.ref,
                      links |-> New(table, d, item, known).links \cap known]
        /\ New(table, d, item, known) =
              [val |-> IF item.val = Omitted THEN old.val ELSE item.val, ref |-> item.ref,
               links |-> IF d = "policies" THEN Links(item, old, known) ELSE {}]
    <3>1. written = [val |-> New(table, d, item, known).val, ref |-> item.ref,
                     links |-> New(table, d, item, known).links \cap Stored(table, "controls")]
      BY WrittenIs
    <3>2. New(table, d, item, known) =
             [val |-> IF item.val = Omitted THEN old.val ELSE item.val, ref |-> item.ref,
              links |-> IF d = "policies" THEN Links(item, old, known) ELSE {}]
      BY WrittenIs
    <3> QED
      BY ONLY <3>1, <3>2, known = Stored(table, "controls")
  <2>3. New(after, d, item, again) =
           [val |-> IF item.val = Omitted THEN written.val ELSE item.val, ref |-> item.ref,
            links |-> IF d = "policies" THEN Links(item, written, again) ELSE {}]
    BY <2>1 DEF New, Becomes
  <2> HIDE DEF item, old, written
  <2>4. (IF item.val = Omitted THEN written.val ELSE item.val) = written.val
    BY <2>2
  <2>5. written.links = New(table, d, item, known).links \cap known
    BY <2>2
  <2>6. (IF d = "policies" THEN Links(item, written, again) ELSE {}) = written.links
    <3>1. CASE d # "policies"
      <4>1. New(table, d, item, known).links = {}
        BY <2>2, <3>1
      <4> QED
        BY <2>5, <3>1, <4>1
    <3>2. CASE d = "policies" /\ item.ref = {}
      BY <1>3, <2>1, <3>2 DEF Links
    <3>3. CASE d = "policies" /\ item.ref # {}
      <4>1. New(table, d, item, known).links = item.ref \cap known
        BY <2>2, <3>3 DEF Links
      <4>2. Links(item, written, again) = item.ref \cap known
        BY <1>4, <3>3 DEF Links
      <4> QED
        BY <2>5, <3>3, <4>1, <4>2
    <3> QED
      BY <3>1, <3>2, <3>3
  <2>7. written = [val |-> written.val, ref |-> item.ref, links |-> written.links]
    BY <2>2
  <2> QED
    BY <1>3, <2>1, <2>3, <2>4, <2>6, <2>7 DEF item
<1>7. ASSUME NEW i \in Entries(d, file, known), i \notin Changed(table, d, file, known)
      PROVE  \/ Skipped(file[i], Old(after, d, file[i]))
             \/ Old(after, d, file[i]) # NoRow /\ New(after, d, file[i], again) = Old(after, d, file[i])
  <2>1. file[i].id \in RecordIds[d] /\ \A j \in Entries(d, file, known) : file[j].id = file[i].id => j = i
    BY EntriesAre
  <2>2. \A j \in Changed(table, d, file, known) : file[j].id # file[i].id
    BY <1>7, <2>1, ChangedAre
  <2>3. Old(after, d, file[i]) = Old(table, d, file[i])
    BY <1>1, <2>1, <2>2 DEF After, Old
  <2>4. CASE i \in Kept(table, d, file, known)
    <3>1. Old(table, d, file[i]) # NoRow /\ New(table, d, file[i], known) = Old(table, d, file[i])
      BY <1>7, <2>4 DEF Changed, Created, Updated
    <3>2. New(after, d, file[i], again) = New(table, d, file[i], known)
      BY <1>4, <2>3 DEF New, Becomes, Links
    <3> QED
      BY <2>3, <3>1, <3>2
  <2>5. CASE i \notin Kept(table, d, file, known)
    BY <2>3, <2>5 DEF Kept
  <2> QED
    BY <2>4, <2>5
<1> QED
  BY <1>5, <1>6, <1>7 DEF Created, Updated, Kept, after, again

\* What the database refuses.
LEMMA RefusedIs ==
  ASSUME NEW table, NEW ctx, NEW d, NEW file, NEW dry
  PROVE  Import(table, ctx, d, file, dry).refused <=>
            ~dry /\ Refused(table, d, Resolved(table, d, file), Ids(table, ctx))
<1> DEFINE given == Resolved(table, d, file)
           refused == ~dry /\ Refused(table, d, given, Ids(table, ctx))
<1>3. Import(table, ctx, d, file, dry) = SyncRecords(table, ctx, d, given, dry)
  BY DEF Import
<1> HIDE DEF given
<1>1. Import(table, ctx, d, file, dry).refused = refused
  BY <1>3 DEF SyncRecords
<1> HIDE DEF refused
<1>2. Import(table, ctx, d, file, dry).refused <=> refused
  BY <1>1, Zenon
<1> QED
  BY <1>2 DEF refused, given

\* So it counts nothing as created or updated.
LEMMA SecondTime ==
  ASSUME DatasetImportAssumption, RowsOK(rows)
  PROVE  SecondImportWritesNothing
<1> SUFFICES ASSUME NEW d \in Datasets, NEW file \in Contents[d], ~ImportFresh(rows, d, file).refused
             PROVE  LET second == ImportFresh(ImportFresh(rows, d, file).rows, d, file)
                    IN  second.counts.created = 0 /\ second.counts.updated = 0
  BY DEF SecondImportWritesNothing
<1> DEFINE known == Stored(rows, "controls")
           given == Resolved(rows, d, file)
           after == RowsAfter(rows, d, given, known)
           again == Stored(after, "controls")
<1>1. \A table : Ids(table, NewContext) = Stored(table, "controls")
  BY DEF Ids, NewContext
<1>3. Read(d, given)
  BY FilesRead, ResolvedRead
<1>8. ImportFresh(rows, d, file) = SyncRecords(rows, NewContext, d, given, FALSE)
  BY DEF ImportFresh, Import
<1>10. ~Refused(rows, d, given, known)
  BY <1>1, RefusedIs DEF ImportFresh
<1> HIDE DEF given
<1>2. ImportFresh(rows, d, file).rows = after
  BY <1>1, <1>8 DEF SyncRecords
<1>4. Created(after, d, given, again) = {} /\ Updated(after, d, given, again) = {}
  BY <1>3, <1>10, WritesNothingAgain
<1>5. Resolved(after, d, file) = given
  <2>1. After(rows, d, given, known, after)
    BY <1>3, ImportLeaves
  <2>2. d = "evidence" => after["tests"] = rows["tests"] /\ after["controls"] = rows["controls"]
    BY <2>1 DEF After, Datasets
  <2> HIDE DEF after
  <2> QED
    BY <2>2, ResolvedSame DEF given
<1> HIDE DEF after
<1>9. ImportFresh(after, d, file) = SyncRecords(after, NewContext, d, given, FALSE)
  BY <1>5 DEF ImportFresh, Import
<1>6. ImportFresh(after, d, file).counts.created = Cardinality(Created(after, d, given, again))
  BY <1>1, <1>9 DEF SyncRecords
<1>7. ImportFresh(after, d, file).counts.updated = Cardinality(Updated(after, d, given, again))
  BY <1>1, <1>9 DEF SyncRecords
<1> QED
  BY <1>2, <1>4, <1>6, <1>7, FS_EmptySet

-----------------------------------------------------------------------------
(* The run over a directory.                                               *)

\* Contexts, runs, and what a context knows: controls that are stored.
Contexts == [known : {Unread} \cup (SUBSET RecordIds["controls"]), planned : SUBSET RecordIds["controls"]]
Runs == [dry : BOOLEAN, next : 1..5, ctx : Contexts, bad : SUBSET Datasets, failed : SUBSET Datasets,
         deleted : BOOLEAN]
ContextHolds(table, ctx) ==
    /\ ctx.planned \subseteq Stored(table, "controls")
    /\ ctx.known # Unread => ctx.known \subseteq Stored(table, "controls")

\* The inductive invariant: a real run under which no control was deleted knows
\* only controls that are stored.
DatasetsInv ==
    /\ RowsOK(rows)
    /\ dirRun # Unread =>
          /\ dirRun \in Runs
          /\ ~dirRun.dry /\ ~dirRun.deleted => ContextHolds(rows, dirRun.ctx)
    /\ FailuresStandAlone

\* The ids of such a context are stored.
LEMMA IdsAreStored ==
  ASSUME NEW table, NEW ctx, ContextHolds(table, ctx)
  PROVE  Ids(table, ctx) \subseteq Stored(table, "controls")
BY DEF ContextHolds, Ids

\* A file that the database refuses, after such a context, holds what it does not
\* store.
LEMMA RefusedForItself ==
  ASSUME NEW table, RowsOK(table), NEW ctx, ContextHolds(table, ctx), NEW d, NEW file, Read(d, file),
         Refused(table, d, file, Ids(table, ctx))
  PROVE  \E i \in DOMAIN file : file[i].val = Unstorable
<1> DEFINE known == Ids(table, ctx)
<1>1. known \subseteq Stored(table, "controls")
  BY IdsAreStored
<1> HIDE DEF known
<1>2. PICK i \in Changed(table, d, file, known) :
         \/ New(table, d, file[i], known).val = Unstorable
         \/ d = "tests" /\ ~(file[i].ref \subseteq Stored(table, "controls"))
  BY DEF Refused, Changed, known
<1>3. /\ i \in Kept(table, d, file, known) /\ i \in DOMAIN file
      /\ file[i].id \in RecordIds[d] /\ Importable(d, file[i], known) /\ d \in Datasets
  BY ChangedAre DEF Read
<1>4. New(table, d, file[i], known).val = Unstorable
  BY <1>1, <1>2, <1>3 DEF Importable
<1>5. New(table, d, file[i], known).val =
         IF file[i].val = Omitted THEN Old(table, d, file[i]).val ELSE file[i].val
  BY WrittenIs
<1>6. CASE file[i].val = Omitted
  <2>1. Old(table, d, file[i]) # NoRow
    BY <1>3, <1>6 DEF Kept, Skipped
  <2> QED
    BY <1>3, <1>4, <1>5, <1>6, <2>1 DEF RowsOK, Old
<1> QED
  BY <1>3, <1>4, <1>5, <1>6

\* The controls a file creates.
LEMMA CreatedAre ==
  ASSUME NEW table, NEW d, NEW file, Read(d, file), NEW known
  PROVE  {file[i].id : i \in Created(table, d, file, known)} \subseteq RecordIds[d]
<1>1. ASSUME NEW i \in Created(table, d, file, known) PROVE file[i].id \in RecordIds[d]
  BY ChangedAre DEF Changed
<1> QED
  BY <1>1

\* A file that is not refused leaves rows and a context as they should be.
LEMMA ImportCommits ==
  ASSUME DatasetImportAssumption, NEW table, RowsOK(table), NEW ctx \in Contexts, NEW d, NEW file,
         Read(d, file), NEW dry \in BOOLEAN, ~Import(table, ctx, d, file, dry).refused
  PROVE  LET result == Import(table, ctx, d, file, dry)
         IN  /\ RowsOK(result.rows) /\ result.ctx \in Contexts
             /\ ~dry /\ ContextHolds(table, ctx) => ContextHolds(result.rows, result.ctx)
<1> DEFINE known == Ids(table, ctx)
           given == Resolved(table, d, file)
           createdIds == IF d = "controls" THEN {given[i].id : i \in Created(table, d, given, known)} ELSE {}
           after == RowsAfter(table, d, given, known)
           result == Import(table, ctx, d, file, dry)
           ctx2 == [known |-> IF Asked(ctx, d, given, Kept(table, d, given, known)) THEN known \cup createdIds
                              ELSE Unread,
                    planned |-> ctx.planned \cup createdIds]
<1>a. Read(d, given)
  BY ResolvedRead
<1>b. result = SyncRecords(table, ctx, d, given, dry)
  BY DEF Import
<1>2. ~dry => ~Refused(table, d, given, known)
  BY RefusedIs
<1> HIDE DEF given, result
<1>1. result.ctx = ctx2 /\ result.rows = (IF dry THEN table ELSE after)
  BY <1>b DEF SyncRecords
<1>3. known \subseteq RecordIds["controls"]
  BY DEF Ids, Contexts, Stored
<1>4. createdIds \subseteq RecordIds["controls"]
  BY <1>a, CreatedAre
<1>5. ~dry => /\ RowsOK(after)
              /\ Stored(table, "controls") \cup createdIds \subseteq Stored(after, "controls")
  BY <1>2, <1>a, ImportKeeps DEF Datasets
<1>6. ContextHolds(table, ctx) => known \subseteq Stored(table, "controls")
  BY IdsAreStored
<1> HIDE DEF known, createdIds, after, result
<1>7. ctx2 \in Contexts
  BY <1>3, <1>4 DEF Contexts
<1>8. ~dry /\ ContextHolds(table, ctx) => ContextHolds(after, ctx2)
  BY <1>5, <1>6 DEF ContextHolds
<1> QED
  BY <1>1, <1>5, <1>7, <1>8 DEF result

-----------------------------------------------------------------------------
(* The steps.                                                              *)

\* No row is stored and no run is under way at first.
LEMMA DatasetsBegin ==
  ASSUME ImportInit PROVE DatasetsInv
<1>1. rows = [d \in Datasets |-> [id \in RecordIds[d] |-> NoRow]] /\ dirRun = Unread
  BY DEF ImportInit
<1>2. \A d \in Datasets : rows[d] = [id \in RecordIds[d] |-> NoRow]
  BY <1>1
<1>3. \A d \in Datasets : rows[d] \in Table(d)
  BY <1>2 DEF Table
<1>4. rows \in [Datasets -> UNION {Table(d) : d \in Datasets}]
  <2>1. \A d \in Datasets : rows[d] \in UNION {Table(e) : e \in Datasets}
    BY <1>3
  <2>2. rows = [d \in Datasets |-> rows[d]]
    BY <1>1
  <2> QED
    BY <2>1, <2>2
<1> QED
  BY <1>1, <1>2, <1>3, <1>4 DEF DatasetsInv, RowsOK, FailuresStandAlone

\* The run over a directory starts, and ends.
LEMMA RunStarts ==
  ASSUME DatasetsInv, NEW dry \in BOOLEAN, StartRun(dry) PROVE DatasetsInv'
<1> DEFINE begun == [dry |-> dry, next |-> 1, ctx |-> NewContext, bad |-> {}, failed |-> {}, deleted |-> FALSE]
<1>1. dirRun' = begun /\ rows' = rows
  BY DEF StartRun
<1>2. NewContext \in Contexts /\ ContextHolds(rows, NewContext)
  BY DEF NewContext, Contexts, ContextHolds
<1>3. begun \in Runs
  BY <1>2 DEF Runs
<1> QED
  BY <1>1, <1>2, <1>3 DEF DatasetsInv, FailuresStandAlone, RowsOK, ContextHolds

\* See above.
LEMMA RunEnds ==
  ASSUME DatasetsInv, EndRun PROVE DatasetsInv'
BY DEF DatasetsInv, EndRun, FailuresStandAlone, RowsOK, ContextHolds

\* A file of the directory is committed, or rolled back.
LEMMA RunImports ==
  ASSUME DatasetImportAssumption, DatasetsInv, NEW file, ImportNext(file) PROVE DatasetsInv'
<1> DEFINE d == DatasetOrder[dirRun.next]
           bad == file = Malformed \/ \E i \in DOMAIN file : file[i].val = Unstorable
           result == Imported(dirRun, d, file)
           fails == file = Malformed \/ result.refused
           ctx2 == IF ~fails THEN result.ctx
                   ELSE AfterRollback(IF file = Malformed THEN dirRun.ctx ELSE result.ctx, dirRun.dry)
           bad2 == IF bad THEN dirRun.bad \cup {d} ELSE dirRun.bad
           failed2 == IF fails THEN dirRun.failed \cup {d} ELSE dirRun.failed
           run2 == [dry |-> dirRun.dry, next |-> dirRun.next + 1, ctx |-> ctx2, bad |-> bad2,
                    failed |-> failed2, deleted |-> dirRun.deleted]
<1>1. /\ dirRun # Unread /\ dirRun \in Runs /\ dirRun.next <= 4
      /\ RowsOK(rows) /\ FailuresStandAlone
      /\ ~dirRun.dry /\ ~dirRun.deleted => ContextHolds(rows, dirRun.ctx)
  BY DEF ImportNext, DatasetsInv, DatasetOrder
<1>2. d \in Datasets
  <2>1. dirRun.next = 1 \/ dirRun.next = 2 \/ dirRun.next = 3 \/ dirRun.next = 4
    BY <1>1 DEF Runs
  <2> QED
    BY <2>1 DEF DatasetOrder, Datasets
<1>3. file # Malformed => Read(d, file)
  BY <1>2, FilesRead DEF ImportNext
<1>4. rows' = IF fails THEN rows ELSE result.rows
  BY DEF ImportNext
<1>5. dirRun.ctx \in Contexts /\ dirRun.dry \in BOOLEAN
  BY <1>1 DEF Runs
<1>6. result = Import(rows, dirRun.ctx, d, file, dirRun.dry)
  BY DEF Imported
<1>7. ~fails => /\ RowsOK(result.rows) /\ result.ctx \in Contexts
                /\ ~dirRun.dry /\ ContextHolds(rows, dirRun.ctx) => ContextHolds(result.rows, result.ctx)
  BY <1>1, <1>3, <1>5, <1>6, ImportCommits
<1>8. result.refused => ~dirRun.dry /\ Refused(rows, d, Resolved(rows, d, file), Ids(rows, dirRun.ctx))
  BY <1>6, RefusedIs
<1>9. fails /\ ~dirRun.deleted => bad
  <2>1. ASSUME file # Malformed, result.refused, ~dirRun.deleted
        PROVE  \E i \in DOMAIN file : file[i].val = Unstorable
    <3> DEFINE given == Resolved(rows, d, file)
    <3>1. Read(d, given) /\ DOMAIN given = DOMAIN file /\ \A i \in DOMAIN file : given[i].val = file[i].val
      BY <1>3, <2>1, ResolvedRead
    <3>2. Refused(rows, d, given, Ids(rows, dirRun.ctx)) /\ ContextHolds(rows, dirRun.ctx)
      BY <1>1, <1>8, <2>1
    <3> HIDE DEF given, d, result, bad, fails
    <3>3. \E i \in DOMAIN given : given[i].val = Unstorable
      BY <1>1, <3>1, <3>2, RefusedForItself
    <3> QED
      BY <3>1, <3>3
  <2> HIDE DEF result, d
  <2> QED
    BY <2>1
<1>10. dirRun' = run2
  <2>1. dirRun' = [dirRun EXCEPT
                     !.next = @ + 1,
                     !.bad = IF bad THEN @ \cup {d} ELSE @,
                     !.failed = IF fails THEN @ \cup {d} ELSE @,
                     !.ctx = ctx2]
    BY DEF ImportNext
  <2> HIDE DEF d, bad, fails, ctx2
  <2> QED
    BY <1>1, <2>1 DEF Runs
<1>11. fails => ctx2 = [known |-> Unread, planned |-> IF dirRun.dry
                          THEN (IF file = Malformed THEN dirRun.ctx ELSE result.ctx).planned ELSE {}]
  BY DEF AfterRollback
<1>12. fails /\ dirRun.dry => file = Malformed
  BY <1>8
<1>13. fails => ctx2 \in Contexts
  <2>1. fails /\ dirRun.dry => ctx2 = [known |-> Unread, planned |-> dirRun.ctx.planned]
    BY <1>11, <1>12
  <2>2. fails /\ ~dirRun.dry => ctx2 = [known |-> Unread, planned |-> {}]
    BY <1>11
  <2> HIDE DEF ctx2, fails
  <2> QED
    BY <1>5, <2>1, <2>2 DEF Contexts
<1>14. fails /\ ~dirRun.dry => ContextHolds(rows, ctx2)
  <2>1. fails /\ ~dirRun.dry => ctx2 = [known |-> Unread, planned |-> {}]
    BY <1>11
  <2> HIDE DEF ctx2, fails
  <2> QED
    BY <2>1 DEF ContextHolds
<1>15. ~fails => ctx2 = result.ctx
  OBVIOUS
<1> HIDE DEF d, bad, fails, result, ctx2
<1>16. run2 \in Runs
  BY <1>1, <1>2, <1>7, <1>13, <1>15 DEF Runs
<1>17. RowsOK(rows')
  BY <1>1, <1>4, <1>7
<1>18. ~dirRun.dry /\ ~dirRun.deleted => ContextHolds(rows', ctx2)
  BY <1>1, <1>4, <1>7, <1>14, <1>15
<1>19. ~dirRun.deleted => failed2 \subseteq bad2
  BY <1>1, <1>9 DEF FailuresStandAlone
<1>20. run2.dry = dirRun.dry /\ run2.deleted = dirRun.deleted /\ run2.ctx = ctx2 /\ run2.failed = failed2
       /\ run2.bad = bad2
  OBVIOUS
<1> HIDE DEF run2, failed2, bad2
<1>21. RowsOK(rows)'
  BY <1>17 DEF RowsOK
<1>22. FailuresStandAlone'
  BY <1>10, <1>19, <1>20 DEF FailuresStandAlone
<1>23. ~dirRun'.dry /\ ~dirRun'.deleted => ContextHolds(rows', dirRun'.ctx)
  BY <1>10, <1>18, <1>20
<1> QED
  BY <1>10, <1>16, <1>21, <1>22, <1>23 DEF DatasetsInv, ContextHolds

\* A source's file is imported in a context of its own.
LEMMA SourceImports ==
  ASSUME DatasetImportAssumption, DatasetsInv, NEW d \in Datasets, NEW file \in Contents[d],
         SyncFile(d, file)
  PROVE  DatasetsInv'
<1> DEFINE known == Ids(rows, NewContext)
           given == Resolved(rows, d, file)
           after == RowsAfter(rows, d, given, known)
<1>2. RowsOK(rows) /\ Read(d, given)
  BY FilesRead, ResolvedRead DEF DatasetsInv
<1>5. /\ rows' = ImportFresh(rows, d, file).rows /\ ~ImportFresh(rows, d, file).refused /\ dirRun' = dirRun
      /\ ImportFresh(rows, d, file) = SyncRecords(rows, NewContext, d, given, FALSE)
  BY DEF SyncFile, ImportFresh, Import
<1>6. ~Refused(rows, d, given, known)
  BY <1>5, RefusedIs DEF ImportFresh
<1> HIDE DEF given
<1>7. SyncRecords(rows, NewContext, d, given, FALSE).rows = after
  BY DEF SyncRecords
<1>1. rows' = after /\ ~Refused(rows, d, given, known) /\ dirRun' = dirRun
  BY <1>5, <1>6, <1>7
<1>3. RowsOK(after) /\ Stored(rows, "controls") \subseteq Stored(after, "controls")
  BY <1>1, <1>2, ImportKeeps DEF Datasets
<1> HIDE DEF known, after
<1>4. \A ctx : ContextHolds(rows, ctx) => ContextHolds(after, ctx)
  BY <1>3 DEF ContextHolds
<1> QED
  BY <1>1, <1>3, <1>4 DEF DatasetsInv, RowsOK, ContextHolds, FailuresStandAlone

\* The routes' writes of one row.
LEMMA RowsSet ==
  ASSUME DatasetImportAssumption, NEW table, RowsOK(table), NEW d \in Datasets, NEW id \in RecordIds[d],
         NEW row \in Row, row.val # Unstorable
  PROVE  LET after == [table EXCEPT ![d] = [@ EXCEPT ![id] = row]]
         IN  RowsOK(after) /\ Stored(table, "controls") \subseteq Stored(after, "controls")
<1> DEFINE column == [table[d] EXCEPT ![id] = row]
           after == [table EXCEPT ![d] = column]
<1>1. table[d] \in [RecordIds[d] -> Row \cup {NoRow}] /\ DOMAIN table = Datasets
  BY DEF RowsOK, Table
<1>2. column \in [RecordIds[d] -> Row \cup {NoRow}] /\ column[id] = row
      /\ \A x \in RecordIds[d] \ {id} : column[x] = table[d][x]
  BY <1>1
<1> HIDE DEF column
<1>3. after[d] = column /\ \A e \in Datasets \ {d} : after[e] = table[e]
  BY <1>1
<1>4. \A e \in Datasets : after[e] \in Table(e)
  BY <1>2, <1>3 DEF RowsOK, Table
<1>5. after \in [Datasets -> UNION {Table(e) : e \in Datasets}]
  <2>1. \A e \in Datasets : after[e] \in UNION {Table(x) : x \in Datasets}
    BY <1>4
  <2>2. after = [e \in Datasets |-> after[e]]
    BY <1>1
  <2> HIDE DEF after
  <2> QED
    BY <2>1, <2>2
<1> HIDE DEF after
<1>6. ASSUME NEW e \in Datasets, NEW x \in RecordIds[e], after[e][x] # NoRow
      PROVE  after[e][x].val # Unstorable
  <2>1. CASE e = d /\ x = id
    BY <1>2, <1>3, <2>1
  <2>2. CASE ~(e = d /\ x = id)
    <3>1. after[e][x] = table[e][x]
      BY <1>2, <1>3, <2>2
    <3> QED
      BY <1>6, <3>1 DEF RowsOK
  <2> QED
    BY <2>1, <2>2
<1>7. Stored(table, "controls") \subseteq Stored(after, "controls")
  <2>1. row # NoRow
    BY DEF DatasetImportAssumption
  <2>2. \A x \in RecordIds["controls"] : after["controls"][x] = table["controls"][x]
           \/ after["controls"][x] = row
    BY <1>2, <1>3 DEF Datasets
  <2> QED
    BY <2>1, <2>2 DEF Stored
<1>8. [table EXCEPT ![d] = [@ EXCEPT ![id] = row]] = after
  BY <1>1 DEF after, column
<1> QED
  BY <1>4, <1>5, <1>6, <1>7, <1>8 DEF RowsOK

\* A route creates or changes a row.
LEMMA RowsWritten ==
  ASSUME DatasetImportAssumption, DatasetsInv, NEW d \in Datasets, NEW id \in RecordIds[d],
         NEW row \in Row, row.val # Unstorable, rows' = [rows EXCEPT ![d] = [@ EXCEPT ![id] = row]],
         dirRun' = dirRun
  PROVE  DatasetsInv'
<1> DEFINE after == [rows EXCEPT ![d] = [@ EXCEPT ![id] = row]]
<1>1. RowsOK(after) /\ Stored(rows, "controls") \subseteq Stored(after, "controls")
  BY RowsSet DEF DatasetsInv
<1>2. rows' = after
  OBVIOUS
<1> HIDE DEF after
<1>3. \A ctx : ContextHolds(rows, ctx) => ContextHolds(after, ctx)
  BY <1>1 DEF ContextHolds
<1> QED
  BY <1>1, <1>2, <1>3 DEF DatasetsInv, RowsOK, ContextHolds, FailuresStandAlone

\* See above.
LEMMA RouteCreates ==
  ASSUME DatasetImportAssumption, DatasetsInv, NEW d \in Datasets, NEW id \in RecordIds[d],
         NEW val \in Values, NEW ref \in SUBSET (RecordIds["controls"] \cup RecordIds["tests"]),
         ApiCreate(d, id, val, ref)
  PROVE  DatasetsInv'
<1> DEFINE row == [val |-> val, ref |-> ref, links |-> {}]
<1>1. row \in Row /\ row.val # Unstorable
  BY DEF Row, References, DatasetImportAssumption
<1>2. rows' = [rows EXCEPT ![d] = [@ EXCEPT ![id] = row]] /\ dirRun' = dirRun
  <2>1. rows' = [rows EXCEPT ![d][id] = row] /\ dirRun' = dirRun
    BY DEF ApiCreate
  <2> HIDE DEF row
  <2> QED
    BY <2>1
<1> HIDE DEF row
<1> QED
  BY <1>1, <1>2, RowsWritten

\* See above.
LEMMA RouteUpdates ==
  ASSUME DatasetImportAssumption, DatasetsInv, NEW d \in Datasets, NEW id \in RecordIds[d],
         NEW val \in Values, ApiUpdate(d, id, val)
  PROVE  DatasetsInv'
<1> DEFINE old == rows[d][id]
           row == [old EXCEPT !.val = val]
<1>1. old \in Row
  BY DEF ApiUpdate, DatasetsInv, RowsOK, Table
<1>2. row \in Row /\ row.val # Unstorable
  <2>1. row = [val |-> val, ref |-> old.ref, links |-> old.links]
    BY <1>1 DEF Row
  <2> HIDE DEF row, old
  <2> QED
    BY <1>1, <2>1 DEF Row, DatasetImportAssumption
<1>3. rows' = [rows EXCEPT ![d] = [@ EXCEPT ![id] = row]] /\ dirRun' = dirRun
  BY DEF ApiUpdate
<1> HIDE DEF row, old
<1> QED
  BY <1>2, <1>3, RowsWritten

\* A route deletes a row, and the links to it.
LEMMA RouteDeletes ==
  ASSUME DatasetImportAssumption, DatasetsInv, NEW d \in Datasets, NEW id \in RecordIds[d],
         ApiDelete(d, id)
  PROVE  DatasetsInv'
<1> DEFINE at(e, r) == IF (e = d /\ r = id) \/ rows[e][r] = NoRow THEN NoRow
                       ELSE IF d = "controls" THEN [rows[e][r] EXCEPT !.links = @ \ {id}]
                       ELSE rows[e][r]
           after == [e \in Datasets |-> [r \in RecordIds[e] |-> at(e, r)]]
<1>1. rows' = after
  BY DEF ApiDelete
<1>2. ASSUME NEW e \in Datasets, NEW r \in RecordIds[e]
      PROVE  at(e, r) \in Row \cup {NoRow} /\ (at(e, r) # NoRow => at(e, r).val # Unstorable)
  <2> DEFINE old == rows[e][r]
             cut == [old EXCEPT !.links = @ \ {id}]
  <2>1. old = NoRow \/ (old \in Row /\ old.val # Unstorable)
    <3>1. old \in Row \cup {NoRow}
      BY DEF DatasetsInv, RowsOK, Table
    <3>2. old # NoRow => old.val # Unstorable
      BY DEF DatasetsInv, RowsOK
    <3> QED
      BY <3>1, <3>2
  <2>2. old \in Row => cut = [val |-> old.val, ref |-> old.ref, links |-> old.links \ {id}]
    BY DEF Row
  <2> HIDE DEF old, cut
  <2>3. old \in Row => cut \in Row /\ cut.val = old.val
    BY <2>2 DEF Row
  <2>4. at(e, r) \in {NoRow, cut, old} /\ (old = NoRow => at(e, r) = NoRow)
    BY DEF old, cut
  <2> HIDE DEF at
  <2> QED
    BY <2>1, <2>3, <2>4
<1> HIDE DEF at
<1>3. \A e \in Datasets : after[e] = [r \in RecordIds[e] |-> at(e, r)]
  OBVIOUS
<1>4. \A e \in Datasets : after[e] \in Table(e)
  BY <1>2, <1>3 DEF Table
<1>5. after \in [Datasets -> UNION {Table(e) : e \in Datasets}]
  <2>1. \A e \in Datasets : after[e] \in UNION {Table(x) : x \in Datasets}
    BY <1>4
  <2>2. after = [e \in Datasets |-> after[e]]
    OBVIOUS
  <2> HIDE DEF after
  <2> QED
    BY <2>1, <2>2
<1>6. RowsOK(after)
  BY <1>2, <1>3, <1>4, <1>5 DEF RowsOK
<1>7. d # "controls" => Stored(after, "controls") = Stored(rows, "controls")
  BY <1>3 DEF Stored, Datasets, at
<1> HIDE DEF after
<1>8. RowsOK(rows)'
  BY <1>1, <1>6 DEF RowsOK
<1>9. CASE dirRun = Unread
  BY <1>8, <1>9 DEF ApiDelete, DatasetsInv, FailuresStandAlone
<1>10. CASE dirRun # Unread /\ d = "controls"
  <2>1. dirRun' = [dirRun EXCEPT !.deleted = TRUE] /\ dirRun \in Runs
    BY <1>10 DEF ApiDelete, DatasetsInv
  <2>2. dirRun' \in Runs /\ dirRun'.deleted
    BY <2>1 DEF Runs
  <2> QED
    BY <1>8, <2>2 DEF DatasetsInv, FailuresStandAlone
<1>11. CASE dirRun # Unread /\ d # "controls"
  <2>1. dirRun' = dirRun
    BY <1>11 DEF ApiDelete
  <2>2. \A ctx : ContextHolds(rows, ctx) => ContextHolds(after, ctx)
    BY <1>7, <1>11 DEF ContextHolds
  <2> QED
    BY <1>1, <1>8, <2>1, <2>2 DEF DatasetsInv, FailuresStandAlone, ContextHolds
<1> QED
  BY <1>9, <1>10, <1>11

-----------------------------------------------------------------------------
(* A dry run.                                                              *)

\* What of a file is kept and changes anything depends on the rows of its
\* dataset and on what is known of the controls.
LEMMA SameEntries ==
  ASSUME NEW table, NEW other, NEW d, table[d] = other[d], NEW file, NEW known
  PROVE  /\ Kept(table, d, file, known) = Kept(other, d, file, known)
         /\ Created(table, d, file, known) = Created(other, d, file, known)
         /\ Updated(table, d, file, known) = Updated(other, d, file, known)
<1>1. \A item : Old(table, d, item) = Old(other, d, item)
  BY DEF Old
<1>2. \A item : New(table, d, item, known) = New(other, d, item, known)
  BY <1>1 DEF New
<1>3. Kept(table, d, file, known) = Kept(other, d, file, known)
  BY <1>1 DEF Kept
<1>4. Created(table, d, file, known) = Created(other, d, file, known)
  BY <1>1, <1>3 DEF Created
<1>5. Updated(table, d, file, known) = Updated(other, d, file, known)
  BY <1>1, <1>2, <1>3, <1>4 DEF Updated
<1> QED
  BY <1>3, <1>4, <1>5

\* The two modes of a run, by name.
Real == FALSE
Dry == TRUE

\* Rows of which the one dataset is the same.
SameRows(table, other, d) == table[d] = other[d]

\* So do the counts and the context, for a file that lists the same.
LEMMA SameCounts ==
  ASSUME NEW table, NEW other, NEW d, NEW file, NEW ctx, SameRows(table, other, d),
         Ids(table, ctx) = Ids(other, ctx), Resolved(table, d, file) = Resolved(other, d, file)
  PROVE  /\ Import(table, ctx, d, file, Real).counts = Import(other, ctx, d, file, Dry).counts
         /\ Import(table, ctx, d, file, Real).ctx = Import(other, ctx, d, file, Dry).ctx
<1> DEFINE known == Ids(table, ctx)
           given == Resolved(table, d, file)
<1>1. /\ Kept(table, d, given, known) = Kept(other, d, given, known)
      /\ Created(table, d, given, known) = Created(other, d, given, known)
      /\ Updated(table, d, given, known) = Updated(other, d, given, known)
  BY SameEntries DEF SameRows
<1>2. Ids(other, ctx) = known /\ Resolved(other, d, file) = given
  OBVIOUS
<1>a. /\ Ids(table, ctx) = known
      /\ Import(table, ctx, d, file, Real) = SyncRecords(table, ctx, d, given, Real)
      /\ Import(other, ctx, d, file, Dry) = SyncRecords(other, ctx, d, given, Dry)
  BY <1>2 DEF Import
<1> HIDE DEF known, given
<1>3. SyncRecords(table, ctx, d, given, Real).counts = SyncRecords(other, ctx, d, given, Dry).counts
  BY <1>1, <1>2, <1>a DEF SyncRecords
<1>4. SyncRecords(table, ctx, d, given, Real).ctx = SyncRecords(other, ctx, d, given, Dry).ctx
  BY <1>1, <1>2, <1>a DEF SyncRecords
<1> QED
  BY <1>a, <1>3, <1>4

\* A real run and a dry one, of which the first has created what the second has
\* planned.
Parallel(table, other, ctx) ==
    /\ Stored(table, "controls") = Stored(other, "controls") \cup ctx.planned
    /\ ctx.known \in {Unread, Stored(table, "controls")}

\* They know the same.
LEMMA ParallelKnows ==
  ASSUME NEW table, NEW other, NEW ctx, Parallel(table, other, ctx)
  PROVE  /\ Ids(table, ctx) = Stored(table, "controls")
         /\ Ids(other, ctx) = Stored(table, "controls")
BY DEF Parallel, Ids

\* They stay so over a file that the real one commits and that lists the same
\* for both.
LEMMA ParallelStep ==
  ASSUME DatasetImportAssumption, NEW table, RowsOK(table), NEW other, NEW ctx,
         Parallel(table, other, ctx), NEW d, NEW file, Read(d, file), SameRows(table, other, d),
         Resolved(table, d, file) = Resolved(other, d, file),
         ~Import(table, ctx, d, file, Real).refused
  PROVE  LET real == Import(table, ctx, d, file, Real)
             dry == Import(other, ctx, d, file, Dry)
         IN  /\ RowsOK(real.rows) /\ dry.rows = other
             /\ dry.counts = real.counts /\ dry.ctx = real.ctx
             /\ \A e \in Datasets \ {d} : real.rows[e] = table[e]
             /\ Parallel(real.rows, other, real.ctx)
<1> DEFINE real == Import(table, ctx, d, file, Real)
           dry == Import(other, ctx, d, file, Dry)
           known == Ids(table, ctx)
           given == Resolved(table, d, file)
           after == RowsAfter(table, d, given, known)
           kept == Kept(table, d, given, known)
           createdIds == IF d = "controls" THEN {given[i].id : i \in Created(table, d, given, known)} ELSE {}
<1>1. known = Stored(table, "controls") /\ Ids(other, ctx) = known
  BY ParallelKnows
<1>2. ~Refused(table, d, given, known) /\ Read(d, given)
  BY RefusedIs, ResolvedRead DEF Real
<1>b. real = SyncRecords(table, ctx, d, given, Real)
  BY DEF Import
<1>3. real.rows = after /\ dry.rows = other
  <2> HIDE DEF given, real
  <2>1. real.rows = after
    BY <1>b DEF SyncRecords, Real
  <2>2. dry.rows = other
    <3> DEFINE same == Resolved(other, d, file)
    <3>1. dry = SyncRecords(other, ctx, d, same, Dry)
      BY DEF Import
    <3> HIDE DEF dry, same
    <3> QED
      BY <3>1 DEF SyncRecords, Dry
  <2> QED
    BY <2>1, <2>2
<1>4. dry.counts = real.counts /\ dry.ctx = real.ctx
  <2>1. Ids(table, ctx) = Ids(other, ctx)
    BY <1>1
  <2> QED
    BY <2>1, SameCounts
<1>5. RowsOK(after) /\ Stored(after, "controls") = Stored(table, "controls") \cup createdIds
  <2> HIDE DEF given
  <2> QED
    BY <1>2, ImportKeeps DEF Datasets
<1>6. \A e \in Datasets \ {d} : after[e] = table[e]
  <2>1. After(table, d, given, known, after)
    BY <1>2, ImportLeaves
  <2> QED
    BY <2>1 DEF After
<1>7. real.ctx = [known |-> IF Asked(ctx, d, given, kept) THEN known \cup createdIds ELSE Unread,
                  planned |-> ctx.planned \cup createdIds]
  <2> HIDE DEF given, real
  <2> QED
    BY <1>b DEF SyncRecords
<1> HIDE DEF real, dry, known, given, after, kept, createdIds
<1>8. real.ctx.planned = ctx.planned \cup createdIds
  BY <1>7
<1>9. real.ctx.known \in {Unread, known \cup createdIds}
  BY <1>7
<1>10. Parallel(after, other, real.ctx)
  BY <1>1, <1>5, <1>8, <1>9 DEF Parallel
<1> QED
  BY <1>3, <1>4, <1>5, <1>6, <1>10 DEF real, dry

\* A run whose files are all taken knows, before each, what a dry run knows.
LEMMA DryCounts ==
  ASSUME DatasetImportAssumption, RowsOK(rows), NEW c, NEW t, NEW p, NEW v, Read("controls", c),
         Read("tests", t), Read("policies", p), Read("evidence", v), NEW given,
         given = [controls |-> c, tests |-> t, policies |-> p, evidence |-> v],
         ~RunCounts(given, Real).refused
  PROVE  /\ RunCounts(given, Dry).counts = RunCounts(given, Real).counts
         /\ RunCounts(given, Dry).named = RunCounts(given, Real).named
               => RunCounts(given, Dry).evidence = RunCounts(given, Real).evidence
<1> DEFINE controls == Import(rows, NewContext, "controls", c, Real)
           tests == Import(controls.rows, controls.ctx, "tests", t, Real)
           policies == Import(tests.rows, tests.ctx, "policies", p, Real)
           evidence == Import(policies.rows, policies.ctx, "evidence", v, Real)
           dryControls == Import(rows, NewContext, "controls", c, Dry)
           dryTests == Import(dryControls.rows, dryControls.ctx, "tests", t, Dry)
           dryPolicies == Import(dryTests.rows, dryTests.ctx, "policies", p, Dry)
           dryEvidence == Import(dryPolicies.rows, dryPolicies.ctx, "evidence", v, Dry)
<1>1. given["controls"] = c /\ given["tests"] = t /\ given["policies"] = p /\ given["evidence"] = v
  OBVIOUS
<1>2. /\ RunCounts(given, Real).counts = <<controls.counts, tests.counts, policies.counts>>
      /\ RunCounts(given, Dry).counts = <<dryControls.counts, dryTests.counts, dryPolicies.counts>>
  BY <1>1 DEF RunCounts, ImportOnto
<1>a. /\ RunCounts(given, Real).evidence = evidence.counts
      /\ RunCounts(given, Dry).evidence = dryEvidence.counts
  BY <1>1 DEF RunCounts, ImportOnto
<1>b. /\ RunCounts(given, Real).named = Resolved(policies.rows, "evidence", v)
      /\ RunCounts(given, Dry).named = Resolved(dryPolicies.rows, "evidence", v)
  BY <1>1 DEF RunCounts, ImportOnto
<1> DEFINE refused == controls.refused \/ tests.refused \/ policies.refused \/ evidence.refused
<1>3. RunCounts(given, Real).refused = refused
  BY <1>1 DEF RunCounts, ImportOnto
<1> HIDE DEF controls, tests, policies, evidence, dryControls, dryTests, dryPolicies, dryEvidence, refused
<1>4. ~refused
  BY <1>3, Zenon
<1>5. ~controls.refused /\ ~tests.refused /\ ~policies.refused /\ ~evidence.refused
  BY <1>4, Zenon DEF refused
<1>6. Parallel(rows, rows, NewContext) /\ SameRows(rows, rows, "controls")
  BY DEF Parallel, NewContext, SameRows
<1>c. \A table, other : /\ Resolved(table, "controls", c) = Resolved(other, "controls", c)
                        /\ Resolved(table, "tests", t) = Resolved(other, "tests", t)
                        /\ Resolved(table, "policies", p) = Resolved(other, "policies", p)
  BY ResolvedSame
<1>7. /\ RowsOK(controls.rows) /\ dryControls.rows = rows
      /\ dryControls.counts = controls.counts /\ dryControls.ctx = controls.ctx
      /\ \A e \in Datasets \ {"controls"} : controls.rows[e] = rows[e]
      /\ Parallel(controls.rows, rows, controls.ctx)
  BY <1>5, <1>6, ParallelStep DEF controls, dryControls
<1>8. /\ SameRows(controls.rows, rows, "tests") /\ SameRows(controls.rows, rows, "policies")
      /\ SameRows(controls.rows, rows, "evidence")
  BY <1>7 DEF Datasets, SameRows
<1>9. /\ RowsOK(tests.rows) /\ dryTests.rows = rows
      /\ dryTests.counts = tests.counts /\ dryTests.ctx = tests.ctx
      /\ \A e \in Datasets \ {"tests"} : tests.rows[e] = controls.rows[e]
      /\ Parallel(tests.rows, rows, tests.ctx)
  <2>1. dryTests = Import(rows, controls.ctx, "tests", t, Dry)
    BY <1>7 DEF dryTests
  <2>2. tests = Import(controls.rows, controls.ctx, "tests", t, Real)
    BY DEF tests
  <2>3. Resolved(controls.rows, "tests", t) = Resolved(rows, "tests", t)
    BY <1>c
  <2> QED
    BY <1>5, <1>7, <1>8, <2>1, <2>2, <2>3, ParallelStep
<1>10. SameRows(tests.rows, rows, "policies") /\ SameRows(tests.rows, rows, "evidence")
  BY <1>8, <1>9 DEF Datasets, SameRows
<1>11. /\ RowsOK(policies.rows) /\ dryPolicies.rows = rows
       /\ dryPolicies.counts = policies.counts /\ dryPolicies.ctx = policies.ctx
       /\ \A e \in Datasets \ {"policies"} : policies.rows[e] = tests.rows[e]
       /\ Parallel(policies.rows, rows, policies.ctx)
  <2>1. dryPolicies = Import(rows, tests.ctx, "policies", p, Dry)
    BY <1>9 DEF dryPolicies
  <2>2. policies = Import(tests.rows, tests.ctx, "policies", p, Real)
    BY DEF policies
  <2>3. Resolved(tests.rows, "policies", p) = Resolved(rows, "policies", p)
    BY <1>c
  <2> QED
    BY <1>5, <1>9, <1>10, <2>1, <2>2, <2>3, ParallelStep
<1>12. ASSUME Resolved(policies.rows, "evidence", v) = Resolved(dryPolicies.rows, "evidence", v)
       PROVE  dryEvidence.counts = evidence.counts
  <2>1. dryEvidence = Import(rows, policies.ctx, "evidence", v, Dry)
    BY <1>11 DEF dryEvidence
  <2>2. evidence = Import(policies.rows, policies.ctx, "evidence", v, Real)
    BY DEF evidence
  <2>3. SameRows(policies.rows, rows, "evidence")
    BY <1>10, <1>11 DEF Datasets, SameRows
  <2>4. Resolved(policies.rows, "evidence", v) = Resolved(rows, "evidence", v)
    BY <1>11, <1>12
  <2> QED
    BY <1>5, <1>11, <2>1, <2>2, <2>3, <2>4, ParallelStep
<1> QED
  BY <1>2, <1>a, <1>b, <1>7, <1>9, <1>11, <1>12

\* See above.
LEMMA DryRunIsTrue ==
  ASSUME DatasetImportAssumption, RowsOK(rows) PROVE DryRunTells
<1> DEFINE given(c, t, p, v) == [controls |-> c, tests |-> t, policies |-> p, evidence |-> v]
<1>1. ASSUME NEW c \in Contents["controls"], NEW t \in Contents["tests"], NEW p \in Contents["policies"],
             NEW v \in Contents["evidence"], ~RunCounts(given(c, t, p, v), Real).refused
      PROVE  /\ RunCounts(given(c, t, p, v), Dry).counts = RunCounts(given(c, t, p, v), Real).counts
             /\ RunCounts(given(c, t, p, v), Dry).named = RunCounts(given(c, t, p, v), Real).named
                   => RunCounts(given(c, t, p, v), Dry).evidence = RunCounts(given(c, t, p, v), Real).evidence
  <2>1. Read("controls", c) /\ Read("tests", t) /\ Read("policies", p) /\ Read("evidence", v)
    BY FilesRead DEF Datasets
  <2> DEFINE g == given(c, t, p, v)
  <2>2. g = [controls |-> c, tests |-> t, policies |-> p, evidence |-> v] /\ ~RunCounts(g, Real).refused
    BY <1>1
  <2> HIDE DEF g
  <2> QED
    <3>1. /\ RunCounts(g, Dry).counts = RunCounts(g, Real).counts
          /\ RunCounts(g, Dry).named = RunCounts(g, Real).named
                => RunCounts(g, Dry).evidence = RunCounts(g, Real).evidence
      BY <2>1, <2>2, DryCounts
    <3> QED
      BY <3>1 DEF g
<1> QED
  BY <1>1 DEF DryRunTells, SameReport, Real, Dry

-----------------------------------------------------------------------------
\* Every step of the imports and of the routes keeps the invariant.
LEMMA DatasetsStep ==
  ASSUME DatasetImportAssumption, DatasetsInv, [ImportNextStep]_importVars PROVE DatasetsInv'
<1>1. CASE \E dry \in BOOLEAN : StartRun(dry)
  BY <1>1, RunStarts
<1>2. CASE \E file \in {Malformed} \cup UNION {Contents[d] : d \in Datasets} : ImportNext(file)
  BY <1>2, RunImports
<1>3. CASE EndRun
  BY <1>3, RunEnds
<1>4. ASSUME NEW d \in Datasets, NEW file \in Contents[d], SyncFile(d, file) PROVE DatasetsInv'
  BY <1>4, SourceImports
<1>5. ASSUME NEW d \in Datasets, NEW id \in RecordIds[d],
             \/ \E val \in Values : ApiUpdate(d, id, val)
             \/ \E val \in Values,
                   ref \in {{}} \cup {{r} : r \in RecordIds["controls"] \cup RecordIds["tests"]} :
                      ApiCreate(d, id, val, ref)
             \/ ApiDelete(d, id)
      PROVE  DatasetsInv'
  BY <1>5, RouteCreates, RouteUpdates, RouteDeletes
<1>6. CASE UNCHANGED importVars
  BY <1>6 DEF importVars, DatasetsInv, RowsOK, FailuresStandAlone, ContextHolds
<1> QED
  BY <1>1, <1>2, <1>3, <1>4, <1>5, <1>6 DEF ImportNextStep

\* An import of datasets writes only differences: importing a file again writes
\* nothing, a file of a directory fails only for what it holds, and a dry run
\* counts what the run would, evidence only where its names mean the same tests
\* before the run as after (evidence_import: _sync_records, import_datasets).
THEOREM ImportsAreDiffs ==
  ASSUME DatasetImportAssumption PROVE DatasetsSpec => []DatasetsAreImported
<1>1. ImportInit => DatasetsInv
  BY DatasetsBegin
<1>2. DatasetsInv /\ [ImportNextStep]_importVars => DatasetsInv'
  BY DatasetsStep
<1>3. DatasetsInv => DatasetsAreImported
  BY SecondTime, DryRunIsTrue DEF DatasetsInv, DatasetsAreImported
<1> QED
  BY <1>1, <1>2, <1>3, PTL DEF DatasetsSpec
=============================================================================
