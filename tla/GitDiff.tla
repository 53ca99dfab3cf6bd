------------------------------- MODULE GitDiff -------------------------------
(***************************************************************************)
(* What changed between two commits, as the providers answer it            *)
(* (git_sources/providers.py): CodeCommit's differences, GitHub's          *)
(* comparison when it is a complete and direct one, else the two trees.    *)
(* `view` is what a consumer knows who starts from a listing and applies   *)
(* one answer after another.                                               *)
(***************************************************************************)
EXTENDS Integers, FiniteSets

CONSTANTS Trees,         \* [path -> a blob, Link or Absent], as the commits may have
          Link,          \* a submodule
          Absent,
          CompareFiles   \* COMPARE_FILE_LIMIT

VARIABLES
    last,     \* the tree of the commit synchronised last
    head,     \* the tree the branch points at
    base,     \* the tree of their merge base
    view      \* the consumer's copy of the tree

diffVars == <<last, head, base, view>>

TreePaths == DOMAIN (CHOOSE t \in Trees : TRUE)
IsFile(v) == v # Link /\ v # Absent
Files(tree) == {p \in TreePaths : IsFile(tree[p])}

\* list_tree: files only.
Listing(tree) == [p \in TreePaths |-> IF IsFile(tree[p]) THEN tree[p] ELSE Absent]

Change(path, type, blob) == [path |-> path, type |-> type, blob |-> blob]

-----------------------------------------------------------------------------

\* _normalize_changes: a deletion and an addition of one path are a change of it.
Normalized(changes) ==
    {IF \E d \in changes : d.path = c.path /\ d.type = "D" THEN Change(c.path, "M", c.blob) ELSE c
        : c \in {c \in changes : c.type # "D" \/ ~\E d \in changes : d.path = c.path /\ d.type = "A"}}

\* _diff_manifests.
TreeDiff(from, to) ==
    LET before == Listing(from) after == Listing(to)
    IN  {Change(p, IF after[p] = Absent THEN "D" ELSE IF before[p] = Absent THEN "A" ELSE "M", after[p])
           : p \in {p \in TreePaths : before[p] # after[p]}}

\* How an API pairs what disappeared with what appeared: a rename keeps the blob.
Renames(from, to) ==
    {r \in SUBSET {<<p, q>> \in Files(from) \X Files(to) :
                     from[p] # to[p] /\ from[q] # to[q] /\ from[p] = to[q]} :
        \A a, b \in r : a # b => a[1] # b[1] /\ a[2] # b[2]}

\* CodeCommit's differences: pairs of what a path was and what it is, renames
\* among them; submodules are there too.
Differences(from, to, renames) ==
    LET moved == {a[1] : a \in renames} arrived == {a[2] : a \in renames}
        side(tree, p, out) == IF p \in out THEN Absent ELSE tree[p]
    IN  {[before |-> <<p, side(from, p, moved)>>, after |-> <<p, side(to, p, arrived)>>]
            : p \in {p \in TreePaths : side(from, p, moved) # side(to, p, arrived)}}
        \cup {[before |-> <<a[1], from[a[1]]>>, after |-> <<a[2], to[a[2]]>>] : a \in renames}

\* CodeCommitProvider.diff.
CodeCommitDiff(from, to, renames) ==
    LET list == Differences(from, to, renames)
        old == {d \in list : IsFile(d.before[2])}
        new == {d \in list : IsFile(d.after[2])}
        same == {d \in old \cap new : d.before[1] = d.after[1]}
    IN  Normalized({Change(d.after[1], "M", d.after[2]) : d \in same}
                   \cup {Change(d.before[1], "D", Absent) : d \in old \ same}
                   \cup {Change(d.after[1], "A", d.after[2]) : d \in new \ same})

-----------------------------------------------------------------------------
(* GitHub.                                                                 *)

\* The comparison: from the merge base, at most CompareFiles of its files (a
\* comparison is taken to list no submodules).
Status == IF base = last THEN "ahead" ELSE IF base = head THEN "behind" ELSE "diverged"

Compared(renames) ==
    LET from == Listing(base) to == Listing(head)
        moved == {a[1] : a \in renames} arrived == {a[2] : a \in renames}
    IN  {[status |-> IF to[p] = Absent \/ p \in arrived THEN "removed"
                     ELSE IF from[p] = Absent \/ p \in moved THEN "added" ELSE "modified",
          path |-> p, previous |-> Absent, blob |-> to[p]]
            : p \in {p \in TreePaths : /\ from[p] # to[p]
                                       /\ ~(p \in moved /\ (to[p] = Absent \/ p \in arrived))
                                       /\ ~(p \in arrived /\ (from[p] = Absent \/ p \in moved))}}
        \cup {[status |-> "renamed", path |-> a[2], previous |-> a[1], blob |-> to[a[2]]] : a \in renames}

\* Mutant: a comparison is complete while it is not over the limit.
NotOverLimit(status, files) == status \in {"ahead", "identical"} /\ Cardinality(files) <= CompareFiles

\* _changes_from_compare takes it when it is direct and below the limit.
Complete(status, files) == status \in {"ahead", "identical"} /\ Cardinality(files) < CompareFiles

FromCompare(files) ==
    Normalized({Change(f.path, "D", Absent) : f \in {f \in files : f.status = "removed"}}
               \cup {Change(f.previous, "D", Absent) : f \in {f \in files : f.status = "renamed"}}
               \cup {Change(f.path, IF f.status = "modified" THEN "M" ELSE "A", f.blob)
                        : f \in {f \in files : f.status # "removed"}})

-----------------------------------------------------------------------------
(* The branch, and its consumer.                                           *)

DiffInit ==
    /\ last \in Trees /\ head = last /\ base = last
    /\ view = Listing(last)

\* Commits on top of the head, or the branch is moved to another history.
Push(tree) ==
    /\ head' = tree /\ tree # head
    /\ UNCHANGED <<last, base, view>>

Rewrite(from, tree) ==
    /\ base = last /\ from # last
    /\ base' = from /\ head' = tree
    /\ UNCHANGED <<last, view>>

\* The consumer applies an answer.
Apply(changes) ==
    /\ view' = [p \in TreePaths |->
          IF \E c \in changes : c.path = p THEN (CHOOSE c \in changes : c.path = p).blob ELSE view[p]]
    /\ last' = head /\ base' = head
    /\ UNCHANGED head

SyncCodeCommit ==
    /\ last # head
    /\ \E renames \in Renames(last, head) : Apply(CodeCommitDiff(last, head, renames))

\* The comparison's files: all of them, or CompareFiles of them.
SyncGitHub ==
    /\ last # head
    /\ \E renames \in Renames(Listing(base), Listing(head)) :
          LET all == Compared(renames)
          IN  \E files \in SUBSET all :
                 /\ Cardinality(files) = (IF Cardinality(all) < CompareFiles THEN Cardinality(all)
                                          ELSE CompareFiles)
                 /\ Apply(IF Complete(Status, files) THEN FromCompare(files) ELSE TreeDiff(last, head))

\* The comparison failed (but for a limit or a missing commit, which fail the run).
SyncByTrees == last # head /\ Apply(TreeDiff(last, head))

DiffNext ==
    \/ \E tree \in Trees : Push(tree) \/ \E from \in Trees : Rewrite(from, tree)
    \/ SyncCodeCommit \/ SyncGitHub \/ SyncByTrees

-----------------------------------------------------------------------------
(* Properties.                                                             *)

\* Whatever renames an API reports, however the branch was moved, and whatever a
\* comparison leaves out, a consumer of the answers holds the files of the
\* commit it was brought to.
ViewIsTheTree == view = Listing(last)
=============================================================================
