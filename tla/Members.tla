------------------------------ MODULE Members -------------------------------
(***************************************************************************)
(* Members, their keys and browser sessions, and the administrators the    *)
(* portal keeps (team_service, auth, routes/setup, cli/admin_cmd).         *)
(*                                                                         *)
(* A request reads, waits and writes in steps of its own.  Deactivations   *)
(* and the set-up of a first administrator take one advisory lock before   *)
(* they look at the administrators; keys are issued and members created    *)
(* without it, and access runs out while a request is on its way.          *)
(***************************************************************************)
EXTENDS Integers, FiniteSets

CONSTANTS Ids,          \* compliance administrators, in the order of creation
          Browsers,     \* bound: those who sign in with a browser
          Requests,     \* requests under way
          Expiries,     \* when a member's access may end (Never or a time)
          Margin,       \* DURABLE_ADMIN_MARGIN
          Lifetime,     \* SESSION_ABSOLUTE_LIFETIME
          MaxTime,      \* bound on the time
          MaxKeys,      \* bound on the keys issued
          MaxEpoch,     \* bound on the logouts of a member
          MaxCookies,   \* bound on the cookies handed out
          Never, Null

VARIABLES
    now,
    member,        \* team_members: [Ids -> record or Null]
    keys,          \* keys issued so far: each new one is fresh
    cookies,       \* session cookies handed out; a copy never disappears
    adminLock,     \* the request that holds ADMIN_LOCK_KEY, or Null
    req,           \* the requests
    bootstrapped   \* members created through /setup

MembersAssumption ==
    /\ Expiries \subseteq Int \cup {Never} /\ Never \notin Int
    /\ Margin \in Nat /\ Lifetime \in Nat
    /\ Null \notin Ids /\ Null \notin Requests
    /\ Null \notin [active : BOOLEAN, expires : Int \cup {Never}, key : Nat, epoch : Nat]

memberVars == <<now, member, keys, cookies, adminLock, req, bootstrapped>>

Exists(m) == member[m] # Null
Expired(m) == member[m].expires # Never /\ now > member[m].expires

\* is_usable_admin, is_durable_admin
UsableAdmin(m) ==
    Exists(m) /\ member[m].active /\ member[m].key # 0 /\ ~Expired(m)
DurableAdmin(m) ==
    UsableAdmin(m) /\ (member[m].expires = Never \/ member[m].expires > now + Margin)

UsableAdmins == {m \in Ids : UsableAdmin(m)}

\* _session_member: the fingerprint is of the member's key, the epoch is the
\* member's, the session is not too old.
SessionMember(c) ==
    /\ Exists(c.id) /\ member[c.id].active
    /\ member[c.id].key # 0 /\ c.key = member[c.id].key
    /\ c.epoch = member[c.id].epoch
    /\ now - c.at <= Lifetime

\* require_api_key, of a request with the cookie and no key of its own.
Accepted(c) == SessionMember(c) /\ ~Expired(c.id)

Ready == [pc |-> "ready", id |-> Null, key |-> 0, epoch |-> 0]

MembersInit ==
    /\ now = 0 /\ keys = 0
    /\ member = [m \in Ids |-> Null]
    /\ cookies = {} /\ bootstrapped = {}
    /\ adminLock = Null
    /\ req = [r \in Requests |-> Ready]

-----------------------------------------------------------------------------
(* Members and keys.                                                       *)

NewMember(m, expires) ==
    [active |-> TRUE, expires |-> expires, key |-> keys + 1, epoch |-> 0]

\* create_member: the next free id.
Create(m, expires) ==
    /\ ~Exists(m) /\ \A n \in Ids : n < m => Exists(n)
    /\ keys < MaxKeys /\ keys' = keys + 1
    /\ member' = [member EXCEPT ![m] = NewMember(m, expires)]

\* An administrator's form, or create-admin from a shell (never expires).
CreateMember(m, expires) ==
    /\ UsableAdmins # {} \/ expires = Never
    /\ Create(m, expires)
    /\ UNCHANGED <<now, cookies, adminLock, req, bootstrapped>>

\* regenerate_key, by an administrator or from a shell, whatever the member's state.
RegenerateKey(m) ==
    /\ Exists(m) /\ keys < MaxKeys
    /\ keys' = keys + 1
    /\ member' = [member EXCEPT ![m].key = keys + 1]
    /\ UNCHANGED <<now, cookies, adminLock, req, bootstrapped>>

\* Migration 017: every key issued before is revoked, once, before the first
\* request of the new release (its sessions are of the old release too).
RevokeKeys ==
    /\ cookies = {} /\ \A r \in Requests : req[r] = Ready
    /\ bootstrapped = {} /\ \E m \in Ids : Exists(m) /\ member[m].key # 0
    /\ member' = [m \in Ids |-> IF Exists(m) THEN [member[m] EXCEPT !.key = 0] ELSE Null]
    /\ UNCHANGED <<now, keys, cookies, adminLock, req, bootstrapped>>

-----------------------------------------------------------------------------
(* Changes of the administrators, under the lock.                          *)

Step(r, pc) == req' = [req EXCEPT ![r].pc = pc]

\* A deactivation by someone who is an administrator when the request arrives,
\* and a set-up that found no administrator and carries the token.
AskDeactivation(r, m) ==
    /\ req[r] = Ready /\ UsableAdmins # {}
    /\ req' = [req EXCEPT ![r] = [Ready EXCEPT !.pc = "deactivate", !.id = m]]
    /\ UNCHANGED <<now, member, keys, cookies, adminLock, bootstrapped>>

AskSetup(r) ==
    /\ req[r] = Ready /\ UsableAdmins = {}
    /\ Step(r, "setup")
    /\ UNCHANGED <<now, member, keys, cookies, adminLock, bootstrapped>>

\* Mutant: any usable administrator is enough.
DeactivateIfUsable(m) ==
    UsableAdmin(m) => \E n \in Ids \ {m} : Exists(n) /\ member[n].active

NoAdmin == UsableAdmins = {}
MayDeactivate(m) == UsableAdmin(m) => \E n \in Ids \ {m} : DurableAdmin(n)

\* lock_admin_membership, then the check: a refusal rolls back.
LockAndCheck(r) ==
    /\ req[r].pc \in {"deactivate", "setup"} /\ adminLock = Null
    /\ IF IF req[r].pc = "setup" THEN NoAdmin
          ELSE Exists(req[r].id) /\ MayDeactivate(req[r].id)
       THEN /\ adminLock' = r
            /\ req' = [req EXCEPT ![r].pc = IF @ = "setup" THEN "creating" ELSE "removing",
                                  ![r].key = IF req[r].pc = "setup" THEN 0 ELSE member[req[r].id].key]
       ELSE adminLock' = adminLock /\ req' = [req EXCEPT ![r] = Ready]
    /\ UNCHANGED <<now, member, keys, cookies, bootstrapped>>

\* The commit ends the transaction and with it the lock.
Deactivate(r) ==
    /\ req[r].pc = "removing"
    /\ member' = [member EXCEPT ![req[r].id].active = FALSE]
    /\ adminLock' = Null /\ req' = [req EXCEPT ![r] = Ready]
    /\ UNCHANGED <<now, keys, cookies, bootstrapped>>

CreateFirstAdmin(r) ==
    /\ req[r].pc = "creating"
    /\ \E m \in Ids : Create(m, Never) /\ bootstrapped' = bootstrapped \cup {m}
    /\ adminLock' = Null /\ req' = [req EXCEPT ![r] = Ready]
    /\ UNCHANGED <<now, cookies>>

-----------------------------------------------------------------------------
(* Browser sessions.                                                       *)

\* find_by_api_key with the member's current key, then the checks; the commit of
\* rate_limit.reset (of consume_client_session, for a client) comes before the cookie.
SignIn(r, m) ==
    /\ req[r] = Ready /\ Cardinality(cookies) < MaxCookies
    /\ m \in Browsers /\ UsableAdmin(m)
    /\ req' = [req EXCEPT ![r] = [pc |-> "signing_in", id |-> m, key |-> 0,
                                  epoch |-> member[m].epoch]]
    /\ UNCHANGED <<now, member, keys, cookies, adminLock, bootstrapped>>

\* login_session: the commit expired the row, which is read again, so the cookie is
\* of the member as it is now, not as it was when its key was looked up.
CookieOf(m) == [id |-> m, key |-> member[m].key, epoch |-> member[m].epoch, at |-> now]

IssueCookie(r) ==
    /\ req[r].pc = "signing_in"
    /\ cookies' = cookies \cup {CookieOf(req[r].id)}
    /\ req' = [req EXCEPT ![r] = Ready]
    /\ UNCHANGED <<now, member, keys, adminLock, bootstrapped>>

\* logout_session: the cookie is checked, then the epoch incremented.
SignOut(r, c) ==
    /\ req[r] = Ready
    /\ c \in cookies /\ SessionMember(c) /\ c.epoch < MaxEpoch
    /\ req' = [req EXCEPT ![r] = [pc |-> "signing_out", id |-> c.id, key |-> 0, epoch |-> c.epoch]]
    /\ UNCHANGED <<now, member, keys, cookies, adminLock, bootstrapped>>

\* In the UPDATE: the row's own epoch, plus one.
NextEpoch(r) == member[req[r].id].epoch + 1

EndSessions(r) ==
    /\ req[r].pc = "signing_out"
    /\ member' = [member EXCEPT ![req[r].id].epoch = NextEpoch(r)]
    /\ req' = [req EXCEPT ![r] = Ready]
    /\ UNCHANGED <<now, keys, cookies, adminLock, bootstrapped>>

-----------------------------------------------------------------------------

\* A request fails: its transaction, and the lock with it, is rolled back.
Fail(r) ==
    /\ req[r] # Ready
    /\ req' = [req EXCEPT ![r] = Ready]
    /\ adminLock' = IF adminLock = r THEN Null ELSE adminLock
    /\ UNCHANGED <<now, member, keys, cookies, bootstrapped>>

\* A unit of time, far longer than a transaction: none is between its check
\* and its commit.
Tick ==
    /\ now < MaxTime /\ now' = now + 1
    /\ adminLock = Null
    /\ UNCHANGED <<member, keys, cookies, adminLock, req, bootstrapped>>

MembersNext ==
    \/ \E m \in Ids :
          \/ \E expires \in Expiries : CreateMember(m, expires)
          \/ RegenerateKey(m)
          \/ \E r \in Requests : AskDeactivation(r, m) \/ SignIn(r, m)
    \/ \E r \in Requests :
          \/ AskSetup(r) \/ LockAndCheck(r) \/ Deactivate(r) \/ CreateFirstAdmin(r)
          \/ IssueCookie(r) \/ EndSessions(r) \/ Fail(r)
          \/ \E c \in cookies : SignOut(r, c)
    \/ RevokeKeys \/ Tick

MembersSpec == MembersInit /\ [][MembersNext]_memberVars

-----------------------------------------------------------------------------
(* Properties.                                                             *)

\* A member without a key gets one after the check that let it be deactivated
\* (regenerate_key takes no lock).
RekeyedMeanwhile ==
    \E r \in Requests : req[r].pc = "removing" /\ member[req[r].id].key # req[r].key

\* Of the steps, only time and the migration that revokes every key take the
\* portal's last usable administrator: no interleaving of deactivations does.
AdminRemains ==
    UsableAdmins # {} /\ now' = now /\ ~RevokeKeys /\ ~RekeyedMeanwhile
        => UsableAdmins' # {}

\* Concurrent set-ups create one administrator: another comes only after the
\* portal was without one again.
OneBootstrap == Cardinality({m \in bootstrapped : UsableAdmin(m)}) <= 1

\* In every step a refused session stays refused, and a logout ends every session
\* of its member that was issued before it, copies of the cookie included.  (A
\* sign-in still under way is none of them: IssueCookie gives it a session.)
SessionsStayEnded ==
    \A c \in cookies :
        ~Accepted(c) \/ (\E r \in Requests : req[r].id = c.id /\ EndSessions(r))
            => ~Accepted(c)'

\* What every step promises of the members.
MembersStand == AdminRemains /\ SessionsStayEnded /\ OneBootstrap'
=============================================================================
