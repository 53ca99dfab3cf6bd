---------------------------- MODULE ChangeRecords ----------------------------
(***************************************************************************)
(* The git collector's change-management check: in each repository of the  *)
(* scope the newest commits of the default branch are read one call after  *)
(* another, and every change dated within the window must carry its record *)
(* in sections of the commit message.  Developers commit and push and the  *)
(* account's repositories change while it reads.                           *)
(***************************************************************************)
EXTENDS Integers, Sequences, FiniteSets, FiniteSetsExt, SequencesExt

CONSTANTS Repositories,  \* the repository names there may be
          Developed,     \* bound: those that are committed to
          Scopes,        \* the [repositories, excluded] that may be configured
          Messages,      \* commit messages: sequences of lines [kind, title]
          Sections,      \* REQUIRED_SECTIONS
          MaxRead,       \* MAX_COMMITS_PER_REPO
          MaxRepositories, \* MAX_REPOSITORIES
          Cutoff, Today, \* dates are 0 .. Today, the window begins at Cutoff
          MaxCommits,    \* bound
          None

VARIABLES
    account,   \* the repositories there are
    commits,   \* the commits made: [repository, parents, dated, message]
    heads,     \* repository -> the head of its default branch, or 0
    check      \* None or the run of the collector

changeVars == <<account, commits, heads, check>>

(* The message. *)

Blank == [kind |-> "blank", title |-> None]
LastParagraph(message) ==
    LET end == Max({0} \cup {i \in DOMAIN message : message[i] # Blank})
        start == Max({0} \cup {i \in 1 .. end : message[i] = Blank})
    IN <<start + 1, end>>

\* _is_trailer_block: Key: value lines, one of them an attribution.
IsTrailerBlock(lines) ==
    /\ lines # <<>> /\ \A i \in DOMAIN lines : lines[i].kind \in {"trailer", "attribution"}
    /\ \E i \in DOMAIN lines : lines[i].kind = "attribution"

SectionLines(message) ==
    LET last == LastParagraph(message)
    IN IF IsTrailerBlock(SubSeq(message, last[1], last[2]))
       THEN SubSeq(message, 1, last[1] - 1) ELSE SubSeq(message, 1, last[2])

\* missing_sections: line by line, the section a text line belongs to.
SectionsAfter(state, line) ==
    CASE line.kind \in {"heading", "title"} ->
            [state EXCEPT !.current = IF line.kind = "heading" /\ line.title \in Sections THEN line.title ELSE None]
      [] line.kind \in {"text", "trailer", "attribution"} ->
            [state EXCEPT !.found = @ \cup ({state.current} \ {None})]
      [] line.kind = "blank" -> state

MissingSections(message) ==
    Sections \ FoldLeft(SectionsAfter, [current |-> None, found |-> {}], SectionLines(message)).found

(* The repositories. *)

ChangeInit ==
    /\ account \in SUBSET Repositories /\ commits = <<>>
    /\ heads = [r \in Repositories |-> 0] /\ check = None

\* A developer commits, on the default branch or beside it, and may date it at will.
Commit(r, parents, dated, message, onBranch) ==
    /\ Len(commits) < MaxCommits /\ r \in account
    /\ \A i \in DOMAIN parents : commits[parents[i]].repository = r
    /\ commits' = Append(commits, [repository |-> r, parents |-> parents, dated |-> dated, message |-> message])
    /\ heads' = IF onBranch THEN [heads EXCEPT ![r] = Len(commits) + 1] ELSE heads
    /\ UNCHANGED <<account, check>>

DeleteRepository(r) ==
    /\ r \in account /\ check # None /\ account' = account \ {r}
    /\ UNCHANGED <<commits, heads, check>>

(* The check. *)

InScope(names, scope) ==
    {r \in names : scope.repositories = {} \/ r \in scope.repositories} \ scope.excluded

\* sorted(names)[:MAX_REPOSITORIES]: which of them they are is not what the check
\* is about.  A configured name that is not in the account is an error of its own.
Begin(scope) ==
    LET inScope == InScope(account, scope)
    IN /\ check = None
       /\ \E todo \in SUBSET inScope :
            /\ Cardinality(todo) = Min({Cardinality(inScope), MaxRepositories})
            /\ check' = [scope |-> scope, todo |-> todo, at |-> None, queue |-> <<>>, read |-> {},
                         overall |-> IF inScope = {} THEN "fail" ELSE IF todo # inScope THEN "error" ELSE "pass",
                         heads |-> [r \in Repositories |-> 0],
                         results |-> [r \in Repositories |->
                             IF r \in (scope.repositories \ account) \ scope.excluded THEN "error" ELSE None]]
       /\ UNCHANGED <<account, commits, heads>>

Settle(r, result) ==
    check' = [check EXCEPT !.results[r] = result, !.at = None, !.queue = <<>>, !.read = {}]

\* GetRepository and GetBranch: a repository without commits has no changes.
ReadHead(r) ==
    /\ check # None /\ check.at = None /\ r \in check.todo
    /\ check' = [check EXCEPT !.todo = @ \ {r}, !.heads[r] = heads[r],
                             !.at = IF r \in account /\ heads[r] # 0 THEN r ELSE None,
                             !.queue = IF r \in account /\ heads[r] # 0 THEN <<heads[r]>> ELSE <<>>,
                             !.results[r] = IF r \notin account THEN "error"
                                            ELSE IF heads[r] = 0 THEN "pass" ELSE @]
    /\ UNCHANGED <<account, commits, heads>>

\* Mutant: only the first parent is followed.
FirstParent(c) == SelectSeq(commits[c].parents, LAMBDA p : p = commits[c].parents[1])

ParentsOf(c) == commits[c].parents

\* _read_commits, one GetCommit at a time: breadth first, every parent once.
ReadCommit ==
    /\ check # None /\ check.at # None /\ check.queue # <<>> /\ Cardinality(check.read) < MaxRead
    /\ LET c == check.queue[1]
           queued == check.read \cup ToSet(check.queue)
       IN IF check.at \in account
          THEN check' = [check EXCEPT !.read = @ \cup {c},
                           !.queue = Tail(@) \o SelectSeq(ParentsOf(c), LAMBDA p : p \notin queued)]
          ELSE Settle(check.at, "error")
    /\ UNCHANGED <<account, commits, heads>>

\* _effective_dates: the latest date among a commit and its ancestors read.
EffectiveDates(read) ==
    LET dates[c \in 1 .. Len(commits)] ==
            Max({commits[c].dated} \cup {dates[p] : p \in ToSet(commits[c].parents) \cap read})
    IN [c \in read |-> dates[c]]

Incomplete(inWindow, unread) == \E c \in inWindow : ToSet(commits[c].parents) \cap unread # {}

Conclude ==
    /\ check # None /\ check.at # None /\ (check.queue = <<>> \/ Cardinality(check.read) = MaxRead)
    /\ LET dates == EffectiveDates(check.read)
           inWindow == {c \in check.read : dates[c] >= Cutoff}
           changes == {c \in inWindow : Len(commits[c].parents) < 2}
           failing == {c \in changes : MissingSections(commits[c].message) # {}}
       IN Settle(check.at, IF failing # {} \/ Incomplete(inWindow, ToSet(check.queue)) THEN "fail" ELSE "pass")
    /\ UNCHANGED <<account, commits, heads>>

ChangeNext ==
    \/ \E r \in Developed, dated \in 0 .. Today, message \in Messages, onBranch \in BOOLEAN :
         \/ Commit(r, <<>>, dated, message, onBranch)
         \/ \E p \in DOMAIN commits : Commit(r, <<p>>, dated, message, onBranch)
         \/ \E p, q \in DOMAIN commits : p # q /\ Commit(r, <<p, q>>, dated, message, onBranch)
    \/ \E r \in Repositories : DeleteRepository(r)
    \/ \E scope \in Scopes : Begin(scope)
    \/ \E r \in Repositories : ReadHead(r)
    \/ ReadCommit
    \/ Conclude

------------------------------------------------------------------------------
(* Properties.                                                             *)

\* The lines of a closing paragraph in which every line is a trailer and one of
\* them an attribution, said of the message as a whole.
ClosingTrailers(message) ==
    {j \in DOMAIN message : \E k \in 1 .. j, e \in j .. Len(message) :
        /\ k = 1 \/ message[k - 1] = Blank
        /\ \A i \in k .. e : message[i].kind \in {"trailer", "attribution"}
        /\ \A i \in e + 1 .. Len(message) : message[i] = Blank
        /\ \E i \in k .. e : message[i].kind = "attribution"}

\* A section's heading, and before any other heading a line of its text.
HasText(message, section) ==
    \E i, j \in DOMAIN message :
        /\ i < j /\ message[i] = [kind |-> "heading", title |-> section]
        /\ \A k \in i + 1 .. j : message[k].kind \notin {"heading", "title"}
        /\ message[j] # Blank /\ j \notin ClosingTrailers(message)

Recorded(c) == \A section \in Sections : HasText(commits[c].message, section)

History(head) ==
    LET reached[c \in 0 .. Len(commits)] ==
            IF c = 0 THEN {} ELSE {c} \cup UNION {reached[p] : p \in ToSet(commits[c].parents)}
    IN reached[head]

\* No commit dated in the window is hidden behind one dated before it.
DatesFollow(h) == \A c \in h : \A p \in ToSet(commits[c].parents) :
                      commits[p].dated >= Cutoff => commits[c].dated >= Cutoff

\* A commit cannot predate its parents, whatever its date says.
InWindow(c) == \E a \in History(c) : commits[a].dated >= Cutoff

\* A repository passes only when every change of its default branch, as it was when
\* its head was read, that belongs to the window carries its record; except that a
\* history longer than is read can hide changes behind a commit dated before the
\* window.  One fails only for a change without its record or for its length.
\* A repository that is configured and was not checked leaves a result that is no
\* pass.
PassedIsRecorded ==
    check # None =>
        /\ \A r \in Repositories : (check.results[r] = "pass" /\ check.heads[r] # 0) =>
              LET h == History(check.heads[r])
              IN \A c \in h : (Len(commits[c].parents) < 2 /\ InWindow(c)) =>
                    Recorded(c) \/ (~DatesFollow(h) /\ Cardinality(h) > MaxRead)
        /\ \A r \in Repositories : (check.results[r] = "fail") =>
              \/ Cardinality(History(check.heads[r])) > MaxRead
              \/ \E c \in History(check.heads[r]) :
                    Len(commits[c].parents) < 2 /\ InWindow(c) /\ ~Recorded(c)
        /\ (check.todo = {} /\ check.at = None /\ check.overall = "pass") =>
              \A r \in check.scope.repositories \ check.scope.excluded : check.results[r] # None
==============================================================================
