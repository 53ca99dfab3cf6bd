------------------------ MODULE TranscriptDirectory ------------------------
(***************************************************************************)
(* import_decision_log_directory: a directory of exported transcripts is   *)
(* scanned for the largest export of each session and those are imported   *)
(* one after another, each in a transaction of its own, while sessions     *)
(* that are still running go on exporting.  A transcript is represented by *)
(* its length: an export of a resumed session extends the one before.      *)
(***************************************************************************)
EXTENDS Integers, FiniteSets, FiniteSetsExt

CONSTANTS Exports,    \* the file names, as numbers in the order of their names
          SessionOf,  \* the session id in a file's name, or None
          Chunked,    \* the exports kept as a manifest and parts
          MaxSize,    \* bound: the length of a transcript
          Limit,      \* MAX_TRANSCRIPT_BYTES
          MaxWrites, MaxRuns, \* bounds: files written and imports begun
          None

VARIABLES
    files,   \* export -> None or [size, sound]: what the directory holds
    stored,  \* session -> the length stored, 0 where there is none
    import,  \* None or [found, todo, failed, untouched]: the run in progress
    bound    \* [writes, runs]

directoryVars == <<files, stored, import, bound>>
Sessions == {SessionOf[e] : e \in Exports} \ {None}

\* "bad": its parts, or what a plain file holds, cannot be read as a transcript.
Files == [size : 1 .. MaxSize, sound : {"whole", "bad manifest", "bad"}]

DirectoryInit ==
    /\ files = [e \in Exports |-> None] /\ import = None
    /\ stored = [s \in Sessions |-> 0]
    /\ bound = [writes |-> 0, runs |-> 0]

\* An export is written, over an older one or damaged by something else.
Export(e, file) ==
    /\ bound.writes < MaxWrites /\ bound' = [bound EXCEPT !.writes = @ + 1]
    /\ e \notin Chunked => file.sound # "bad manifest"
    /\ files' = [files EXCEPT ![e] = file]
    /\ import' = IF import = None THEN None ELSE [import EXCEPT !.untouched = FALSE]
    /\ UNCHANGED stored

\* (size, kind == "plain", logical), ascending.
LowerRank(e, f) ==
    \/ files[e].size < files[f].size
    \/ /\ files[e].size = files[f].size
       /\ (e \in Chunked /\ f \notin Chunked) \/ ((e \in Chunked <=> f \in Chunked) /\ e < f)

BadManifests == {e \in Exports : files[e] # None /\ files[e].sound = "bad manifest"}
Candidates(s) == {e \in Exports \ BadManifests : files[e] # None /\ SessionOf[e] = s}
Best(s) == CHOOSE e \in Candidates(s) : \A f \in Candidates(s) \ {e} : LowerRank(f, e)

\* _scan_directory: a file without a session id in its name is passed over, one
\* whose manifest does not parse has failed.
Scan ==
    LET chosen == {Best(s) : s \in {t \in Sessions : Candidates(t) # {}}}
    IN /\ import = None /\ bound.runs < MaxRuns /\ bound' = [bound EXCEPT !.runs = @ + 1]
       /\ import' = [found |-> [e \in chosen |-> files[e].size], todo |-> chosen,
                     failed |-> BadManifests, untouched |-> TRUE]
       /\ UNCHANGED <<files, stored>>

\* Before the read by the size found, after it by what was read (a plain file is
\* read to one byte over the limit, a chunked one as its manifest now declares).
WithinLimit(e) == import.found[e] <= Limit /\ files[e].size <= Limit

\* One bad transcript must not stop the import.
AfterFailure(e) == import.todo \ {e}

\* import_decision_log creates the session or extends it, or keeps the longer
\* one that is stored.
ImportFile ==
    /\ import # None /\ import.todo # {}
    /\ LET e == Min(import.todo)
           s == SessionOf[e]
       IN IF files[e].sound = "whole" /\ WithinLimit(e)
          THEN /\ stored' = [stored EXCEPT ![s] = Max({@, files[e].size})]
               /\ import' = [import EXCEPT !.todo = @ \ {e}]
          ELSE /\ import' = [import EXCEPT !.todo = AfterFailure(e), !.failed = @ \cup {e}]
               /\ UNCHANGED stored
    /\ UNCHANGED <<files, bound>>

\* The command returns its summary, or its process is lost between two files:
\* what was committed stands, and a later run chooses anew.
EndImport ==
    /\ import # None /\ import' = None /\ UNCHANGED <<files, stored, bound>>

DirectoryNext ==
    \/ \E e \in Exports, file \in Files : Export(e, file)
    \/ Scan
    \/ ImportFile
    \/ EndImport

------------------------------------------------------------------------------
(* Properties.                                                             *)

\* An import of a directory that nobody writes meanwhile stores every session
\* at least as long as the longest of its exports that can be looked at, or
\* reports one of that length as failed: neither an older export nor another
\* session's bad one stands in the way.
LongestIsImported ==
    (import # None /\ import.todo = {} /\ import.untouched) =>
        \A s \in Sessions : \A e \in Candidates(s) :
            \/ stored[s] >= files[e].size
            \/ \E f \in import.failed \cap Candidates(s) : files[f].size >= files[e].size

\* However an export grows between the scan and the read, no session longer
\* than the limit is stored.
LimitHolds == \A s \in Sessions : stored[s] <= Limit

DirectoryIsImported == LongestIsImported /\ LimitHolds
==============================================================================
