------------------------------ MODULE Collectors ------------------------------
(***************************************************************************)
(* A collector's configuration: administrators save it from the form or    *)
(* the API while others save, probe and run it (routes/admin.py,           *)
(* routes/collectors_api.py, credential_resolver, permission_prober,       *)
(* collector_encryption).  Credentials are a value and the modes whose     *)
(* fields they hold (the form posts its mode's, the API any object); what  *)
(* is stored of them is encrypted with a key, and does not say which mode  *)
(* they were given for: a run only looks for the fields of the mode it     *)
(* finds beside them.  How a run is queued and recorded under its lock is  *)
(* JobRuns's.                                                              *)
(***************************************************************************)
EXTENDS Integers, Sequences, SequencesExt

CONSTANTS Admins, Secrets,   \* who saves; the values of credentials
          Keyrings,          \* sequences of Fernet keys a process may be given
          Actions, Probed,   \* AWS actions the collector needs; those a probe exists for
          Outcomes,          \* what a run's checks can come to
          MaxSaves,          \* bound: saves
          None

VARIABLES
    row,       \* collector_config
    saves,     \* [admin -> a save under way: the row it read and what it posts, or None]
    keyring,   \* [process -> its keys, the primary one first]
    job,       \* a run, with its copy of the row, or None
    saved      \* how many saves were made

collectorVars == <<row, saves, keyring, job, saved>>

Keyless == {"task_role", "none"}
Keyed == {"task_role_assume", "access_keys"}
SUPPORTED_MODES == Keyless \cup Keyed

\* What may be posted: a value, with the fields of some modes.
Credentials == [value : Secrets, fields : SUBSET Keyed]

CollectorsInit ==
    /\ row = [mode |-> "task_role", secret |-> None, status |-> "never", passed |-> FALSE]
    /\ saves = [a \in Admins |-> None]
    /\ keyring = [p \in {"web", "worker"} |-> <<>>]
    /\ job = None /\ saved = 0

-----------------------------------------------------------------------------
(* Saving.                                                                 *)

\* The request loads the row; what it posts was checked before.
BeginSave(a, via, mode, secret) ==
    /\ saves[a] = None /\ saved < MaxSaves /\ saved' = saved + 1
    /\ via = "form" /\ secret # None => mode \in Keyed /\ secret.fields \subseteq {mode}
    /\ saves' = [saves EXCEPT ![a] = [via |-> via, mode |-> mode, secret |-> secret,
                                     read |-> [mode |-> row.mode, secret |-> row.secret]]]
    /\ UNCHANGED <<row, keyring, job>>

\* encrypt_credentials: with the primary key; none is an error.
Encryptable == keyring["web"] # <<>>
Encrypted(s) == [fields |-> s.secret.fields, value |-> s.secret.value, key |-> Head(keyring["web"])]

\* The secret after a save: the form clears it in a mode without one; the API
\* only where credentials are given.
SecretOf(s) ==
    IF s.mode \in Keyless /\ (s.via = "form" \/ s.secret # None) THEN None
    ELSE IF s.mode \in Keyed /\ s.secret # None THEN Encrypted(s)
    ELSE s.read.secret

Gives(s) == s.mode \in Keyed /\ s.secret # None

\* Mutant: every column is written.
EveryColumn(s) ==
    [row EXCEPT !.mode = s.mode, !.secret = SecretOf(s)]

\* The session writes the columns that differ from those the request loaded.
ChangedColumns(s) ==
    [row EXCEPT !.mode = IF s.mode # s.read.mode THEN s.mode ELSE @,
                !.secret = IF Gives(s) \/ SecretOf(s) # s.read.secret
                           THEN SecretOf(s) ELSE @]

\* The commit; credentials that cannot be encrypted are refused.
CommitSave(a) ==
    /\ saves[a] # None
    /\ row' = IF Gives(saves[a]) /\ ~Encryptable THEN row
              ELSE ChangedColumns(saves[a])
    /\ saves' = [saves EXCEPT ![a] = None]
    /\ UNCHANGED <<keyring, job, saved>>

\* A process is started again with other keys.
Rekey(process, keys) ==
    /\ keyring[process] # keys
    /\ keyring' = [keyring EXCEPT ![process] = keys]
    /\ job' = IF process = "worker" THEN None ELSE job
    /\ saves' = IF process = "web" THEN [a \in Admins |-> None] ELSE saves
    /\ UNCHANGED <<row, saved>>

-----------------------------------------------------------------------------
(* Using it.                                                               *)

Readable(process, secret) == secret = None \/ secret.key \in ToSet(keyring[process])

\* The stored fields include those the mode asks for, whichever mode they were
\* given for.
HasItsFields(copy) == copy.secret # None /\ copy.mode \in copy.secret.fields

\* resolve: "ok", or why the credentials cannot be used.
Resolved(process, copy) ==
    IF copy.mode \in Keyless THEN "ok"
    ELSE IF ~Readable(process, copy.secret) THEN "unreadable"
    ELSE IF HasItsFields(copy) THEN "ok" ELSE "incomplete"

StartCollection ==
    /\ job = None
    /\ job' = [copy |-> row, stage |-> "resolving", uses |-> None]
    /\ UNCHANGED <<row, saves, keyring, saved>>

\* A run whose credentials cannot be used fails, and the row is left as it is.
ResolveRun ==
    /\ job # None /\ job.stage = "resolving"
    /\ job' = IF Resolved("worker", job.copy) # "ok" THEN None
              ELSE [job EXCEPT !.stage = "collecting",
                               !.uses = IF job.copy.mode \in Keyed THEN job.copy.secret ELSE None]
    /\ UNCHANGED <<row, saves, keyring, saved>>

\* The outcome of a run's checks (skipped ones do not count).
Status(results) ==
    IF "pass" \in results /\ results \cap {"fail", "error"} = {} THEN "success"
    ELSE IF "pass" \in results THEN "partial" ELSE "failure"

EndCollection(results) ==
    /\ job # None /\ job.stage = "collecting"
    /\ row' = [row EXCEPT !.status = Status(results)]
    /\ job' = None
    /\ UNCHANGED <<saves, keyring, saved>>

\* What the probes' calls come to: answered, refused by IAM, or another error.
Answers == [Actions -> {"pass", "fail", "error"}]

\* The check of an action: skipped without a session or a probe.
Answer(mode, action, iam) == IF action \notin Probed \/ mode = "none" THEN "skipped" ELSE iam[action]

\* probe_collector: what IAM answers, stored in the row (also when the row is
\* saved while it answers).
Probe(iam) ==
    /\ Resolved("web", row) = "ok"
    /\ row' = [row EXCEPT !.passed = \A x \in Actions : Answer(row.mode, x, iam) = "pass"]
    /\ UNCHANGED <<saves, keyring, job, saved>>

CollectorsNext ==
    \/ \E a \in Admins, mode \in SUPPORTED_MODES :
          \/ \E secret \in Credentials \cup {None}, via \in {"form", "api"} : BeginSave(a, via, mode, secret)
    \/ \E a \in Admins : CommitSave(a)
    \/ \E process \in {"web", "worker"}, keys \in Keyrings : Rekey(process, keys)
    \/ \E iam \in Answers : Probe(iam)
    \/ StartCollection \/ ResolveRun \/ \E results \in Outcomes : EndCollection(results)

CollectorsSpec == CollectorsInit /\ [][CollectorsNext]_collectorVars

-----------------------------------------------------------------------------
(* Properties.                                                             *)

\* Of the steps, a save that gives no credentials, in a mode that has them,
\* leaves those that are stored, also those stored by another administrator
\* since it read the row; and credentials that are stored by a save are those
\* it gave.
SecretStands ==
    row'.secret # row.secret =>
        \E a \in Admins :
            /\ saves[a] # None /\ saves'[a] = None
            /\ IF saves[a].mode \in Keyless THEN row'.secret = None
               ELSE /\ saves[a].secret # None
                    /\ row'.secret.value = saves[a].secret.value
                    /\ row'.secret.fields = saves[a].secret.fields

\* Of the steps, a save that keeps the mode it read leaves the one that is
\* stored, also one stored by another administrator since.
ModeStands ==
    row'.mode # row.mode =>
        \E a \in Admins : /\ saves[a] # None /\ saves'[a] = None
                          /\ saves[a].mode = row'.mode /\ saves[a].read.mode # row'.mode

\* What every step promises of a stored collector: no save takes back what
\* another stored since the first read the row.
CredentialsStand == SecretStands /\ ModeStands
=============================================================================
