--------------------------- MODULE PermissionProbe ---------------------------
(***************************************************************************)
(* PermissionProber.probe: a collector's required AWS actions are tried    *)
(* one after another with the credentials it would run with.  Most probes  *)
(* need something to try their action on, found by a first call; the       *)
(* account and its policies change meanwhile.                              *)
(***************************************************************************)
EXTENDS Integers, FiniteSets

CONSTANTS Required,    \* required_actions: of Actions, or others that have no probe
          Resources,   \* the kinds of resource that may be in the account
          MaxChanges,  \* bound: changes of the account, and calls that fail by chance
          Nothing

VARIABLES
    account,  \* [has: kinds there is one of, bare: kinds without the setting asked for]
    allowed,  \* the actions the credentials' policies allow
    probe,    \* Nothing or [todo, trying, found, results, ...]: the probe in progress
    changes

probeVars == <<account, allowed, probe, changes>>

\* AWS_ACTION_PROBES: the kind of thing an action is tried on, the call that finds
\* one, the call made when there is none, and whether the answer that the setting,
\* branch or commit asked for is missing proves the permission.
On(kind, lists, otherwise, missingProves) ==
    [kind |-> kind, lists |-> lists, otherwise |-> otherwise, missingProves |-> missingProves]

Directly == On(Nothing, Nothing, Nothing, FALSE)

Probes ==
    [ListUsers |-> Directly, ListAllMyBuckets |-> Directly, ListVirtualMFADevices |-> Directly,
     DescribeTrails |-> Directly, ListRepositories |-> Directly, DescribeDBInstances |-> Directly,
     GetAccountPasswordPolicy |-> On(Nothing, Nothing, Nothing, TRUE),
     ListMFADevices |-> On("user", "ListUsers", "ListVirtualMFADevices", FALSE),
     ListAccessKeys |-> On("user", "ListUsers", "ListUsers", FALSE),
     GetBucketVersioning |-> On("bucket", "ListAllMyBuckets", Nothing, FALSE),
     GetEncryptionConfiguration |-> On("bucket", "ListAllMyBuckets", Nothing, TRUE),
     GetBucketPublicAccessBlock |-> On("bucket", "ListAllMyBuckets", Nothing, TRUE),
     GetTrailStatus |-> On("trail", "DescribeTrails", Nothing, FALSE),
     GetRepository |-> On("repository", "ListRepositories", Nothing, FALSE),
     GetBranch |-> On("repository", "ListRepositories", Nothing, TRUE),
     GetCommit |-> On("repository", "ListRepositories", Nothing, TRUE)]

\* Nothing is no action's name.
ProbeAssumption == Nothing \notin DOMAIN Probes

WithProbe == Required \cap DOMAIN Probes
Uses(action) == {action, Probes[action].lists, Probes[action].otherwise} \ {Nothing}
Permissions == UNION {Uses(a) : a \in WithProbe}

ProbeInit ==
    /\ account \in [has : SUBSET Resources, bare : BOOLEAN]
    /\ allowed \in SUBSET Permissions
    /\ probe = Nothing /\ changes = 0

\* A resource is created or deleted, or a policy is changed.
AccountChanges ==
    /\ probe # Nothing /\ changes < MaxChanges /\ changes' = changes + 1
    /\ \/ \E has \in SUBSET Resources : account' = [account EXCEPT !.has = has] /\ UNCHANGED allowed
       \/ allowed' \in SUBSET Permissions /\ UNCHANGED account
    /\ probe' = [probe EXCEPT !.quiet = FALSE]

NothingTried == [action |-> Nothing, call |-> Nothing]

\* The identity first: without a session nothing is tried, and when
\* GetCallerIdentity fails the probe ends with that error.
Begin(session) ==
    /\ probe = Nothing
    /\ probe' = [session |-> session, todo |-> IF session = "works" THEN Required ELSE {}, trying |-> NothingTried,
                 results |-> [a \in Required |-> "skipped"], exercised |-> {}, empty |-> {}, quiet |-> TRUE]
    /\ UNCHANGED <<account, allowed, changes>>

Settle(action, result) ==
    [probe EXCEPT !.results[action] = result, !.todo = @ \ {action}, !.trying = NothingTried]

\* "No probe implemented for this action"
Skip(action) ==
    /\ probe # Nothing /\ probe.trying = NothingTried /\ action \in probe.todo \ WithProbe
    /\ probe' = Settle(action, "skipped") /\ UNCHANGED <<account, allowed, changes>>

\* What AWS says of an action's call: one whose permission is missing is denied
\* whatever it is called on.
AnswerTo(action, gone) ==
    CASE action \notin allowed -> "denied"
      [] action \in allowed /\ gone -> "gone"
      [] action \in allowed /\ ~gone -> IF Probes[action].missingProves /\ account.bare THEN "missing" ELSE "done"

\* Mutant: any answer about the thing proves the permission.
AnyAnswer(answer) == IF answer = "gone" THEN "error" ELSE "pass"

Verdict(answer) ==
    CASE answer \in {"done", "missing"} -> "pass"
      [] answer = "denied" -> "fail"
      [] answer = "gone" -> "error"

\* The call that finds something to try the action on: a denied one settles the
\* action, and so does an empty answer when nothing else is to be called.
List(action) ==
    LET of == Probes[action]
        there == of.kind \in account.has
    IN /\ probe # Nothing /\ probe.trying = NothingTried /\ action \in probe.todo \cap WithProbe /\ of.lists # Nothing
       /\ probe' =
            IF of.lists \notin allowed THEN Settle(action, "fail")
            ELSE IF there THEN [probe EXCEPT !.trying = [action |-> action, call |-> action]]
            ELSE IF of.otherwise = Nothing THEN [Settle(action, "pass") EXCEPT !.empty = @ \cup {action}]
            ELSE [probe EXCEPT !.trying = [action |-> action, call |-> of.otherwise], !.empty = @ \cup {action}]
       /\ UNCHANGED <<account, allowed, changes>>

\* The call itself; what was found may be gone by now.
MakeCall(action) ==
    LET of == Probes[action]
        call == IF of.lists = Nothing THEN action ELSE probe.trying.call
        gone == call = action /\ of.lists # Nothing /\ of.kind \notin account.has
    IN /\ probe # Nothing /\ action \in probe.todo \cap WithProbe
       /\ probe.trying.action = IF of.lists = Nothing THEN Nothing ELSE action
       /\ probe' = [Settle(action, Verdict(AnswerTo(call, gone))) EXCEPT
                       !.exercised = IF call = action /\ action \in allowed THEN @ \cup {action} ELSE @]
       /\ UNCHANGED <<account, allowed, changes>>

\* A call fails for a reason of its own: throttling, the network.
CallFails(action) ==
    /\ probe # Nothing /\ action \in probe.todo \cap WithProbe
    /\ probe.trying.action \in {Nothing, action}
    /\ changes < MaxChanges /\ changes' = changes + 1
    /\ probe' = [Settle(action, "error") EXCEPT !.quiet = FALSE]
    /\ UNCHANGED <<account, allowed>>

ProbeNext ==
    \/ AccountChanges
    \/ \E session \in {"works", "fails", "none"} : Begin(session)
    \/ \E a \in Required : Skip(a) \/ (a \in WithProbe /\ (List(a) \/ MakeCall(a) \/ CallFails(a)))

ProbeSpec == ProbeInit /\ [][ProbeNext]_probeVars

AllPassed ==
    /\ probe.session = "works"
    /\ \A a \in Required : probe.results[a] = "pass"

------------------------------------------------------------------------------
(* Properties.                                                             *)

\* What a finished probe reports stands for what the credentials may do: an
\* action passes only when it was allowed while it was tried, or nothing was
\* there to try it on; in an account that nobody changes meanwhile, credentials
\* with every permission of the probes pass whatever the account holds, and an
\* action fails only when a permission its probe needs is missing.
ProbeTells ==
    (probe # Nothing /\ probe.todo = {}) =>
        /\ \A a \in WithProbe : probe.results[a] = "pass" => a \in probe.exercised \cup probe.empty
        /\ AllPassed => Required = WithProbe
        /\ (probe.quiet /\ probe.session = "works") =>
              \A a \in WithProbe : /\ Uses(a) \subseteq allowed => probe.results[a] = "pass"
                                /\ (a \notin allowed /\ a \notin probe.empty) => probe.results[a] = "fail"
==============================================================================
