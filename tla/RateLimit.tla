------------------------------ MODULE RateLimit ------------------------------
(***************************************************************************)
(* Sign-in attempts against the budgets of a fixed window: one per client  *)
(* address, forgotten when it succeeds, and one of browser sessions per    *)
(* client member, which is not.  Requests of several processes interleave  *)
(* between their statements, a window may end under them, and old windows  *)
(* are pruned.  Time counts windows.                                       *)
(***************************************************************************)
EXTENDS Integers, FiniteSets

CONSTANTS Attempts,    \* requests to sign in
          Clients,     \* client addresses
          Reviewers,   \* client members
          Limit,       \* AUTH_RATE_LIMIT_ATTEMPTS
          MaxAge,      \* the age at which a window is pruned
          MaxWindow,   \* bound: the last window
          Resting

\* What the constants must satisfy: addresses and members are counted apart.
RateLimitAssumption ==
    /\ Limit \in Nat /\ MaxAge \in Nat /\ MaxWindow \in Nat
    /\ Clients \cap Reviewers = {}

VARIABLES
    counters,  \* auth_rate_limit: <<client or member, window>> -> attempts
    attempt,   \* request -> Resting or [pc, client, member, right, window, seen]
    window,    \* the current window
    tried,     \* <<client, window>> -> keys looked up since it last succeeded
    begun      \* <<member, window>> -> browser sessions started

rateVars == <<counters, attempt, window, tried, begun>>
Windows == 0 .. MaxWindow
Zero(keys) == [k \in keys \X Windows |-> 0]

RateInit ==
    /\ counters = Zero(Clients \cup Reviewers) /\ tried = Zero(Clients) /\ begun = Zero(Reviewers)
    /\ attempt = [r \in Attempts |-> Resting] /\ window = 0

\* consume, up to its statement: the window is taken from the clock.  Bound: no
\* client and no member goes on once it was refused.
Arrive(r, c, m, right) ==
    /\ attempt[r] = Resting
    /\ counters[<<c, window>>] <= Limit /\ counters[<<m, window>>] <= Limit
    /\ attempt' = [attempt EXCEPT ![r] = [pc |-> "consume", client |-> c, member |-> m, right |-> right,
                                          window |-> window, seen |-> counters[<<c, window>>]]]
    /\ UNCHANGED <<counters, window, tried, begun>>

\* Mutant: the counter is read, and the upsert writes what was read plus one.
ReadBefore(r, key) == attempt[r].seen + 1

\* The upsert and its RETURNING, one statement.
Counted(r, key) == counters[<<key, attempt[r].window>>] + 1

Goes(r, pc) == attempt' = [attempt EXCEPT ![r].pc = pc]
Ends(r) == attempt' = [attempt EXCEPT ![r] = Resting]

Consume(r) ==
    LET a == attempt[r]
        n == Counted(r, a.client)
    IN /\ a # Resting /\ a.pc = "consume"
       /\ counters' = [counters EXCEPT ![<<a.client, a.window>>] = n]
       /\ IF n <= Limit
          THEN Goes(r, "check") /\ tried' = [tried EXCEPT ![<<a.client, a.window>>] = @ + 1]
          ELSE Ends(r) /\ UNCHANGED tried
       /\ UNCHANGED <<window, begun>>

\* The key is looked up; a client member's goes on to the budget of its sessions.
Check(r) ==
    /\ attempt[r] # Resting /\ attempt[r].pc = "check"
    /\ IF attempt[r].right
       THEN attempt' = [attempt EXCEPT ![r] = [attempt[r] EXCEPT !.pc = "session", !.window = window,
                                                        !.seen = counters[<<attempt[r].member, window>>]]]
       ELSE Ends(r)
    /\ UNCHANGED <<counters, window, tried, begun>>

\* consume_client_session
ConsumeSession(r) ==
    LET a == attempt[r]
        n == Counted(r, a.member)
    IN /\ a # Resting /\ a.pc = "session"
       /\ counters' = [counters EXCEPT ![<<a.member, a.window>>] = n]
       /\ IF n <= Limit
          THEN Goes(r, "reset") /\ begun' = [begun EXCEPT ![<<a.member, a.window>>] = @ + 1]
          ELSE Ends(r) /\ UNCHANGED begun
       /\ UNCHANGED <<window, tried>>

\* reset: every window of the client.
Cleared(a) == {a.client} \X Windows

Succeed(r) ==
    LET a == attempt[r] IN
    /\ a # Resting /\ a.pc = "reset" /\ Ends(r)
    /\ counters' = [k \in DOMAIN counters |-> IF k \in Cleared(a) THEN 0 ELSE counters[k]]
    /\ tried' = [k \in DOMAIN tried |-> IF k[1] = a.client THEN 0 ELSE tried[k]]
    /\ UNCHANGED <<window, begun>>

Prune ==
    /\ \E k \in DOMAIN counters : k[2] < window - MaxAge /\ counters[k] # 0
    /\ counters' = [k \in DOMAIN counters |-> IF k[2] < window - MaxAge THEN 0 ELSE counters[k]]
    /\ UNCHANGED <<attempt, window, tried, begun>>

\* A request takes less than the age at which its window is pruned.
NextWindow ==
    /\ window < MaxWindow /\ window' = window + 1
    /\ \A r \in Attempts : attempt[r] # Resting => attempt[r].window >= window' - MaxAge
    /\ UNCHANGED <<counters, attempt, tried, begun>>

RateNext ==
    \/ \E r \in Attempts :
          \/ \E c \in Clients, m \in Reviewers, right \in BOOLEAN : Arrive(r, c, m, right)
          \/ Consume(r) \/ Check(r) \/ ConsumeSession(r) \/ Succeed(r)
    \/ Prune \/ NextWindow

RateSpec == RateInit /\ [][RateNext]_rateVars

-----------------------------------------------------------------------------
(* Properties.                                                             *)

\* However the requests of several processes interleave, no client has more keys
\* looked up in a window than the limit, counted from its last success, and no
\* client member starts more sessions than the limit in a window, whatever the
\* addresses it comes from and however often it succeeds.
BudgetsHold ==
    /\ \A k \in DOMAIN tried : tried[k] <= Limit
    /\ \A k \in DOMAIN begun : begun[k] <= Limit
==============================================================================
