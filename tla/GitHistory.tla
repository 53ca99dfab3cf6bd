------------------------------ MODULE GitHistory ------------------------------
(***************************************************************************)
(* The commits a synchronisation records: those reachable from the head    *)
(* and not from the last synchronised commit, newest first                 *)
(* (git_sources/providers.py: _HistoryWalk for CodeCommit, the comparison  *)
(* or the commit list for GitHub).  Commits are known by their number.     *)
(* Committers' clocks may disagree: a commit may be dated before or with   *)
(* its parents.                                                            *)
(***************************************************************************)
EXTENDS Integers, Sequences, SequencesExt, FiniteSets

CONSTANTS MaxHistory,      \* bound: commits of the repository
          MaxDate,         \* bound: their dates
          MaxSkewed,       \* bound: commits not dated after their parents
          Limits,          \* how many commits a caller asks for
          CompareCommits,  \* commits one comparison lists
          NoWalk

VARIABLES
    graph,    \* the repository: [parents, date] of each commit, oldest first
    walk      \* a walk under way: its heap, marks and what it emitted, or NoWalk

historyVars == <<graph, walk>>

Commits == DOMAIN graph
Parents(c) == ToSet(graph[c].parents)

\* A commit and its ancestors: commits are numbered after their parents.
Reach(c) ==
    LET up[n \in 0..Len(graph)] ==
            IF n = 0 THEN {c}
            ELSE LET below == up[n - 1] IN below \cup UNION {Parents(d) : d \in below}
    IN  up[Len(graph)]

\* What the caller means: to minus from.
Between(from, to) == Reach(to) \ (IF from = 0 THEN {} ELSE Reach(from))

-----------------------------------------------------------------------------
(* The repository grows.                                                   *)

Skewed(c) == \E p \in Parents(c) : graph[c].date <= graph[p].date

Commit(parents, date) ==
    /\ walk = NoWalk /\ Len(graph) < MaxHistory
    /\ (\E i \in DOMAIN parents : date <= graph[parents[i]].date)
          => Cardinality({c \in Commits : Skewed(c)}) < MaxSkewed
    /\ graph' = Append(graph, [parents |-> parents, date |-> date])
    /\ UNCHANGED walk

-----------------------------------------------------------------------------
(* _HistoryWalk.                                                           *)

\* push: a commit is fetched once, queued and marked.
Push(w, c, uninteresting) ==
    [w EXCEPT !.queue = Append(@, c), !.seen = @ \cup {c},
              !.dull = IF uninteresting THEN @ \cup {c} ELSE @]

StartWalk(from, to, limit) ==
    /\ walk = NoWalk /\ from # to
    /\ LET none == [from |-> from, to |-> to, limit |-> limit, queue |-> <<>>, seen |-> {},
                    dull |-> {}, emitted |-> <<>>]
           one == Push(none, to, FALSE)
       IN  walk' = IF from = 0 THEN one ELSE Push(one, from, TRUE)
    /\ UNCHANGED graph

\* The heap's first: the newest date, then the one pushed first.
Newest(w) ==
    CHOOSE i \in DOMAIN w.queue : \A j \in DOMAIN w.queue :
        \/ graph[w.queue[i]].date > graph[w.queue[j]].date
        \/ graph[w.queue[i]].date = graph[w.queue[j]].date /\ i <= j

\* Queued commits that are still interesting.
Pending(w) == {i \in DOMAIN w.queue : w.queue[i] \notin w.dull}

\* _mark_uninteresting: a queued commit is marked; one already emitted is taken
\* back and its parents are marked in turn.
RECURSIVE Mark(_, _)
Mark(w, c) ==
    IF c \in w.dull THEN w
    ELSE LET marked == [w EXCEPT !.dull = @ \cup {c},
                                 !.emitted = SelectSeq(@, LAMBDA e : e # c)]
         IN  IF \E i \in DOMAIN w.queue : w.queue[i] = c THEN marked
             ELSE FoldLeft(Mark, marked, graph[c].parents)

\* A turn of run's loop: the newest is taken, emitted if it is interesting, and
\* its parents are queued, or marked when they already are.
Visit(w) ==
    LET i == Newest(w)
        c == w.queue[i]
        dull == c \in w.dull
        taken == [w EXCEPT !.queue = RemoveAt(@, i),
                           !.emitted = IF dull THEN @ ELSE Append(@, c)]
        reach(acc, p) == IF p \notin acc.seen THEN Push(acc, p, dull)
                         ELSE IF dull THEN Mark(acc, p) ELSE acc
    IN  IF Len(taken.emitted) >= w.limit /\ ~dull THEN [taken EXCEPT !.queue = <<>>]
        ELSE FoldLeft(reach, taken, graph[c].parents)

Ended(w) == Pending(w) = {}

WalkStep ==
    /\ walk # NoWalk /\ ~Ended(walk)
    /\ walk' = Visit(walk)
    /\ UNCHANGED graph

\* The walk's result is returned.
EndWalk ==
    /\ walk # NoWalk /\ Ended(walk)
    /\ walk' = NoWalk
    /\ UNCHANGED graph

-----------------------------------------------------------------------------
(* GitHub: one comparison when it lists the whole range, else the commit   *)
(* list of the head, by date, until the last synchronised commit.          *)

\* The API's lists, newest first (a comparison's is the range's, reversed; it
\* holds the last CompareCommits of them).
ByDate(set) ==
    SetToSortSeq(set, LAMBDA c, d : graph[c].date > graph[d].date
                                    \/ (graph[c].date = graph[d].date /\ c > d))

FirstOf(seq, limit) == SubSeq(seq, 1, IF Len(seq) < limit THEN Len(seq) ELSE limit)

\* _walk_commit_list.
ListedUntil(from, to, limit) ==
    LET listed == ByDate(Reach(to))
        before == SelectInSeq(listed, LAMBDA c : c = from)
    IN  FirstOf(IF before = 0 THEN listed ELSE SubSeq(listed, 1, before - 1), limit)

\* commits_between.
GitHubBetween(from, to, limit) ==
    LET range == ByDate(Between(from, to))
    IN  IF from # 0 /\ Len(range) <= CompareCommits THEN FirstOf(range, limit)
        ELSE ListedUntil(from, to, limit)

HistoryInit == graph = <<>> /\ walk = NoWalk

HistoryNext ==
    \/ \E date \in 1..MaxDate, parents \in {<<>>} \cup {<<p>> : p \in Commits}
                 \cup {<<p, q>> : p \in Commits, q \in Commits} :
          (Len(parents) = 2 => parents[1] # parents[2]) /\ Commit(parents, date)
    \/ \E to \in Commits, from \in Commits \cup {0}, limit \in Limits : StartWalk(from, to, limit)
    \/ WalkStep \/ EndWalk

-----------------------------------------------------------------------------
(* Properties.                                                             *)

NewestOf(seq, set, limit) ==
    /\ Len(seq) = (IF Cardinality(set) < limit THEN Cardinality(set) ELSE limit)
    /\ ToSet(seq) \subseteq set /\ IsInjective(seq)
    /\ \A c \in ToSet(seq), d \in set \ ToSet(seq) : graph[c].date >= graph[d].date
    /\ \A i \in 1..(Len(seq) - 1) : graph[seq[i]].date >= graph[seq[i + 1]].date

\* Every commit of these histories is dated after its parents.
Dated(from, to) ==
    \A c \in Reach(to) \cup (IF from = 0 THEN {} ELSE Reach(from)) : ~Skewed(c)

\* The walk gives the newest commits of the range, each once, newest first,
\* whatever merges, forks and unrelated roots the history has: the commits
\* recorded for the audit are those this synchronisation brings.  Where clocks
\* disagree it may give old commits too (as documented), but up to the limit it
\* leaves no new one out, and it has taken back all it learnt to be old: the
\* parents of every old commit it has looked at, and theirs in turn.
WalkIsTheRange ==
    walk # NoWalk /\ Ended(walk) =>
        LET range == Between(walk.from, walk.to)
            given == ToSet(walk.emitted)
        IN  /\ Dated(walk.from, walk.to) => NewestOf(walk.emitted, range, walk.limit)
            /\ IsInjective(walk.emitted) /\ Len(walk.emitted) <= walk.limit
            /\ given \cap walk.dull = {}
            /\ Len(walk.emitted) < walk.limit =>
                  /\ range \subseteq given
                  /\ \A c \in walk.dull \ ToSet(walk.queue) : Parents(c) \subseteq walk.dull

\* GitHub's answer is the range too, where its documentation promises it and
\* every commit is dated after its parents: one comparison lists it, or nothing
\* of the old history is newer than the rest.
ComparisonIsTheRange ==
    walk = NoWalk => \A to \in Commits, from \in Commits : \A limit \in Limits :
        LET range == Between(from, to)
        IN  \/ from = to \/ NewestOf(GitHubBetween(from, to, limit), range, limit)
            \/ ~Dated(from, to)
            \/ /\ Cardinality(range) > CompareCommits
               /\ \/ from \notin Reach(to)
                  \/ \E c \in range : graph[c].date <= graph[from].date
=============================================================================
