----------------------------- MODULE Transcripts -----------------------------
(***************************************************************************)
(* parse_transcript: a session's transcript is read line by line, once,    *)
(* and its format is known only when a record gives it away.  Until then   *)
(* the parse of a Claude Code transcript is kept beside what a Codex       *)
(* rollout would need, an error of the former is held back, and the first  *)
(* rollout record discards it.                                             *)
(*                                                                         *)
(* A line is [form, type, payload, item, role, id, model, cwd, branch, ts, *)
(* text, calls]: form tells a line that is too long or nested too deep and *)
(* one that is ignored (blank, no JSON, no object) from a record; payload  *)
(* whether it has an object payload, whose fields the others then are; a   *)
(* field is None, Bad (no string, or longer than its column) or a value;   *)
(* calls is the stored size of its tool calls, 0 for none.                 *)
(***************************************************************************)
EXTENDS Integers, Sequences, FiniteSets, FiniteSetsExt

CONSTANTS Lines, None, Bad,
          Done,           \* the text "done."
          MaxLines,       \* bound: lines of a transcript
          MaxEntries,     \* MAX_TRANSCRIPT_ENTRIES
          MaxCalls,       \* MAX_TOOL_CALLS_BYTES
          MaxTotalCalls   \* MAX_TRANSCRIPT_TOOL_CALLS_BYTES

VARIABLES
    file,      \* the transcript's lines
    read,      \* how many of them have been read
    claude,    \* the parse as Claude Code, or Dropped
    codex,     \* the parse as a Codex rollout
    outcome    \* None, or what parse_transcript returned or raised

transcriptVars == <<file, read, claude, codex, outcome>>

ClaudeTypes == {"user", "assistant"}
CodexTypes == {"session_meta", "turn_context", "response_item", "event_msg"}
Roles == {"user", "assistant"}

IsCodexRecord(r) == r.form = "record" /\ r.type \in CodexTypes /\ r.payload
IsClaudeRecord(r) == r.form = "record" /\ r.type \in ClaudeTypes

NoError == [kind |-> "none", line |-> 0]
NewParse == [entries |-> <<>>, model |-> None, cwd |-> None, branch |-> None,
             started |-> None, ended |-> None, total |-> 0, error |-> NoError]
Dropped == [NewParse EXCEPT !.error = [kind |-> "dropped", line |-> 0]]

TranscriptsInit ==
    /\ file \in UNION {[1 .. n -> Lines] : n \in 0 .. MaxLines} /\ read = 0
    /\ claude = NewParse /\ codex = NewParse /\ outcome = None

\* An error releases the entries read so far.
Failed(parse, why, n) == [parse EXCEPT !.entries = <<>>, !.error = [kind |-> why, line |-> n]]

Noted(parse, ts) ==
    IF ts = None THEN parse
    ELSE [parse EXCEPT !.started = IF @ = None THEN ts ELSE @, !.ended = ts]

First(known, value) == IF known = None THEN value ELSE known

\* A metadata field is taken, and checked, only while it is not known.
WrongFields(parse, r, fields) ==
    \E f \in fields : parse[f] = None /\ r[f] = Bad

TakeFields(parse, r, fields) ==
    [f \in DOMAIN parse |-> IF f \in fields THEN First(parse[f], r[f]) ELSE parse[f]]

\* _FormatParse.add
Add(parse, entry, n) ==
    LET total == parse.total + entry.calls IN
    IF entry.calls > MaxCalls THEN Failed(parse, "calls", n)
    ELSE IF total > MaxTotalCalls THEN Failed(parse, "total calls", n)
    ELSE [parse EXCEPT !.entries = Append(@, entry), !.total = total]

Entry(role, text, calls, ts, id) ==
    [role |-> role, text |-> text, calls |-> calls, ts |-> ts, id |-> id,
     verification |-> role = "user" /\ text = Done]

\* _claude_record and add
ClaudeRecord(parse, r, n) ==
    LET role == IF r.role = None THEN r.type ELSE r.role IN
    IF Len(parse.entries) >= MaxEntries THEN Failed(parse, "entries", n)
    ELSE IF r.role = Bad \/ r.id = Bad \/ WrongFields(parse, r, {"model", "cwd", "branch"})
    THEN Failed(parse, "invalid", n)
    ELSE Add(Noted(TakeFields(parse, r, {"model", "cwd", "branch"}), r.ts),
             Entry(role, r.text, r.calls, r.ts, r.id), n)

\* _codex_item: the entry of a message of a role that is stored, or of a call,
\* whose name, id and input _codex_tool_use gathers.
CodexItem(parse, r, n) ==
    LET stored == (r.item = "message" /\ r.role \in Roles) \/ r.item = "call"
        entry == IF r.item = "call" THEN Entry("assistant", None, r.calls, r.ts, r.id)
                 ELSE Entry(r.role, r.text, 0, r.ts, r.id)
    IN IF ~stored THEN parse
       ELSE IF Len(parse.entries) >= MaxEntries THEN Failed(parse, "entries", n)
       ELSE IF r.id = Bad THEN Failed(parse, "invalid", n)
       ELSE Add(parse, entry, n)

MetaFields(type) ==
    CASE type = "session_meta" -> {"cwd", "branch"}
      [] type = "turn_context" -> {"model", "cwd"}
      [] OTHER -> {}

\* _codex_record and add
CodexRecord(parse, r, n) ==
    LET fields == MetaFields(r.type)
        noted == Noted(parse, r.ts)
    IN IF WrongFields(parse, r, fields) THEN Failed(parse, "invalid", n)
       ELSE IF r.type = "response_item" THEN CodexItem(noted, r, n)
       ELSE TakeFields(noted, r, fields)

\* Not yet a rollout: only the timestamp counts, should it become one.
SpanOnly(parse, r) == IF r.payload THEN Noted(parse, r.ts) ELSE parse

\* The first error of a Claude Code transcript stands until the end.
ClaudeStep(parse, r, n) ==
    IF parse.error = NoError /\ IsClaudeRecord(r) THEN ClaudeRecord(parse, r, n) ELSE parse

\* The parse whose error ends the loop.
Decisive(asClaude, asCodex) == asCodex

Hard(r) == r.form \in {"oversized", "nested"}

\* One turn of the loop of parse_transcript.
ReadLine ==
    LET n == read + 1
        r == file[n]
        rollout == claude = Dropped \/ IsCodexRecord(r)
        asClaude == IF rollout THEN Dropped ELSE ClaudeStep(claude, r, n)
        asCodex == IF r.form # "record" THEN codex
                   ELSE IF ~rollout THEN SpanOnly(codex, r)
                   ELSE IF r.payload THEN CodexRecord(codex, r, n) ELSE codex
        decisive == Decisive(asClaude, asCodex)
    IN /\ outcome = None /\ read < Len(file)
       /\ read' = n /\ UNCHANGED file
       /\ IF Hard(r) THEN outcome' = Failed(NewParse, r.form, n) /\ UNCHANGED <<claude, codex>>
          ELSE /\ claude' = asClaude /\ codex' = asCodex
               /\ outcome' = IF decisive.error # NoError THEN decisive ELSE None

EndOfFile ==
    /\ outcome = None /\ read = Len(file)
    /\ outcome' = IF claude = Dropped THEN codex ELSE claude
    /\ UNCHANGED <<file, read, claude, codex>>

TranscriptsNext == EndOfFile \/ ReadLine

------------------------------------------------------------------------------
(* What a transcript holds, read with its format known: it is a rollout if *)
(* any of its records is one.  A format's own records, those that become   *)
(* entries, and those whose time counts, as the lines they are on.         *)

IsRollout(lines) == \E i \in DOMAIN lines : IsCodexRecord(lines[i])

Own(lines) == {i \in DOMAIN lines :
    IF IsRollout(lines) THEN IsCodexRecord(lines[i]) ELSE IsClaudeRecord(lines[i])}

Stored(lines) == {i \in Own(lines) :
    ~IsRollout(lines) \/ (lines[i].type = "response_item"
                          /\ (lines[i].item = "call" \/ (lines[i].item = "message" /\ lines[i].role \in Roles)))}

Timed(lines) == {i \in DOMAIN lines : lines[i].form = "record" /\ lines[i].ts # None
    /\ (IF IsRollout(lines) THEN lines[i].payload ELSE i \in Own(lines))}

\* The lines of the records a metadata field could come from.
GivenIn(lines, f) == {i \in Own(lines) : lines[i][f] # None
    /\ f \in (IF IsRollout(lines) THEN MetaFields(lines[i].type) ELSE {"model", "cwd", "branch"})}

FirstGiven(lines, f) == IF GivenIn(lines, f) = {} THEN None ELSE lines[Min(GivenIn(lines, f))][f]

CallsOf(lines, i) == IF IsRollout(lines) /\ lines[i].item # "call" THEN 0 ELSE lines[i].calls

\* A record that cannot be stored, or is one too many.
Refused(lines, i) ==
    \/ /\ i \in Stored(lines)
       /\ \/ Cardinality({j \in Stored(lines) : j < i}) >= MaxEntries
          \/ lines[i].id = Bad
          \/ ~IsRollout(lines) /\ lines[i].role = Bad
          \/ CallsOf(lines, i) > MaxCalls
          \/ MapThenSumSet(LAMBDA j : CallsOf(lines, j), {j \in Stored(lines) : j <= i}) > MaxTotalCalls
    \/ \E f \in {"model", "cwd", "branch"} :
          i \in GivenIn(lines, f) /\ i = Min(GivenIn(lines, f)) /\ lines[i][f] = Bad

\* The lines whose error ends the parse: a Claude Code transcript's are only
\* raised if every line could be read.
Errors(lines) ==
    LET unread == {i \in DOMAIN lines : Hard(lines[i])}
        wrong == {i \in Own(lines) : Refused(lines, i)}
    IN IF IsRollout(lines) \/ unread = {} THEN unread \cup wrong ELSE unread

\* What parse_transcript returns or raises, having kept the parses of both
\* formats while it could not know, is what the transcript's own format says of
\* it: a record of the other format adds no entry, no metadata and no error, an
\* error found before the first rollout record does not refuse a rollout, one
\* that is held back is not lost, and the span of a rollout reaches back over
\* the records read before it was known to be one.
ReadInItsFormat ==
    outcome # None =>
        IF Errors(file) # {} THEN outcome.error.line = Min(Errors(file))
        ELSE /\ outcome.error = NoError
             /\ Len(outcome.entries) = Cardinality(Stored(file))
             /\ \A k \in DOMAIN outcome.entries :
                   \E i \in Stored(file) :
                      /\ Cardinality({j \in Stored(file) : j < i}) = k - 1
                      /\ outcome.entries[k].ts = file[i].ts
                      /\ outcome.entries[k].id = file[i].id
                      /\ outcome.entries[k].calls = CallsOf(file, i)
             /\ \A f \in {"model", "cwd", "branch"} : outcome[f] = FirstGiven(file, f)
             /\ outcome.started = IF Timed(file) = {} THEN None ELSE file[Min(Timed(file))].ts
             /\ outcome.ended = IF Timed(file) = {} THEN None ELSE file[Max(Timed(file))].ts
==============================================================================
