----------------------------- MODULE PortalProofs -----------------------------
(***************************************************************************)
(* Theorems about the components that serve the portal's members: Members, *)
(* RateLimit, TestRecords, Collectors, PermissionProbe and Journey, and    *)
(* about the Deployment they are served from.                              *)
(***************************************************************************)
EXTENDS Members, RateLimit, TestRecords, Collectors, PermissionProbe, Deployment, Journey,
        FiniteSetTheorems, SequenceTheorems, WellFoundedInduction, TLAPS

-----------------------------------------------------------------------------
(* Members, for any number of members, requests, cookies and keys.         *)

TeamMember == [active : BOOLEAN, expires : Int \cup {Never}, key : Nat, epoch : Nat]
Cookie == [id : Ids, key : Nat, epoch : Nat, at : Nat]
Steps == {"ready", "deactivate", "setup", "removing", "creating", "signing_in", "signing_out"}

TypeOK ==
    /\ now \in Nat /\ keys \in Nat
    /\ member \in [Ids -> TeamMember \cup {Null}]
    /\ cookies \in SUBSET Cookie
    /\ adminLock \in Requests \cup {Null}
    /\ req \in [Requests -> [pc : Steps, id : Ids \cup {Null}, key : Nat, epoch : Nat]]
    /\ bootstrapped \in SUBSET Ids

\* A request that has checked the administrators holds the lock.
LockHeld == \A r \in Requests : req[r].pc \in {"removing", "creating"} => adminLock = r

\* Keys are those issued so far; what a request or a cookie took from a
\* member, the member had.
Had(x) == x.id \in Ids /\ Exists(x.id) /\ x.key <= keys

ReadTrue ==
    /\ \A m \in Ids : Exists(m) => member[m].key <= keys
    /\ \A r \in Requests :
          /\ req[r].pc = "deactivate" => req[r].id \in Ids
          /\ req[r].pc \in {"removing", "signing_in", "signing_out"} => Had(req[r])
    /\ \A c \in cookies : Had(c) /\ c.epoch <= member[c.id].epoch

\* The administrator about to be deactivated is not the last one, unless it
\* was given a key meanwhile.
OtherRemains ==
    \A r \in Requests :
        LET m == req[r].id
        IN  req[r].pc = "removing" /\ member[m].key = req[r].key /\ UsableAdmin(m) =>
                \E n \in Ids \ {m} : UsableAdmin(n)

\* One that set-up created is usable until it is deactivated; while another is
\* being created, there is none.
Bootstrapped ==
    /\ \A m \in bootstrapped : Exists(m) /\ member[m].expires = Never /\ member[m].key # 0
    /\ \A m, n \in bootstrapped : member[m].active /\ member[n].active => m = n
    /\ \A r \in Requests : req[r].pc = "creating" =>
           \A m \in bootstrapped : ~member[m].active

IInv == TypeOK /\ LockHeld /\ ReadTrue /\ OtherRemains /\ Bootstrapped

-----------------------------------------------------------------------------
(* Types.                                                                  *)

\* What a step may do to a member there is: never activate it again, give it
\* an earlier key, or take an epoch back.
Ages(m) ==
    /\ Exists(m)' /\ member'[m] \in TeamMember
    /\ \/ member'[m].active = member[m].active
       \/ ~member'[m].active /\ \E r \in Requests : Deactivate(r) /\ req[r].id = m
    /\ member'[m].expires = member[m].expires
    /\ member'[m].epoch >= member[m].epoch
    /\ \/ member'[m].key = member[m].key
       \/ member'[m].key = keys + 1 /\ keys' = keys + 1
       \/ member'[m].key = 0 /\ RevokeKeys

Grows == now' >= now /\ keys' >= keys

\* A new member, whoever creates it.
LEMMA CreateStep ==
    ASSUME MembersAssumption, TypeOK, NEW m \in Ids, NEW e \in Int \cup {Never}, Create(m, e)
    PROVE  /\ member' \in [Ids -> TeamMember \cup {Null}] /\ keys' = keys + 1
           /\ \A n \in Ids \ {m} : member'[n] = member[n]
           /\ ~Exists(m) /\ member'[m] = NewMember(m, e)
           /\ Exists(m)'
<1>1. NewMember(m, e) \in TeamMember
  BY DEF NewMember, TypeOK, TeamMember
<1>2. NewMember(m, e) # Null
  BY <1>1 DEF MembersAssumption, TeamMember
<1> QED
  BY <1>1, <1>2 DEF Create, TypeOK, Exists

\* A step that changes one member's row, which is there.
LEMMA RowStep ==
    ASSUME MembersAssumption, TypeOK, NEW m \in Ids, NEW rec \in TeamMember, Exists(m),
           member' = [member EXCEPT ![m] = rec]
    PROVE  /\ member' \in [Ids -> TeamMember \cup {Null}]
           /\ member'[m] = rec /\ Exists(m)'
           /\ \A n \in Ids \ {m} : member'[n] = member[n]
  BY DEF MembersAssumption, TypeOK, Exists, TeamMember

\* A member there is has a row.
LEMMA RowsThere == ASSUME TypeOK, NEW m \in Ids, Exists(m) PROVE member[m] \in TeamMember
  BY DEF TypeOK, Exists

\* What a row that changes may be, for its member to only age; the others do.
LEMMA RowAges ==
    ASSUME MembersAssumption, TypeOK, NEW m \in Ids, NEW rec \in TeamMember, Exists(m),
           member' = [member EXCEPT ![m] = rec],
           \/ rec.active = member[m].active
           \/ ~rec.active /\ \E r \in Requests : Deactivate(r) /\ req[r].id = m,
           rec.expires = member[m].expires,
           rec.epoch >= member[m].epoch,
           rec.key = member[m].key \/ (rec.key = keys + 1 /\ keys' = keys + 1)
    PROVE  \A n \in Ids : Exists(n) => Ages(n)
<1>1. Ages(m)
  BY RowStep DEF Ages
<1>2. ASSUME NEW n \in Ids \ {m}, Exists(n) PROVE Ages(n)
  <2>1. member'[n] = member[n] /\ member[n] \in TeamMember
    BY <1>2, RowStep, RowsThere
  <2> QED
    BY <1>2, <2>1 DEF Ages, Exists, TeamMember
<1> QED
  BY <1>1, <1>2

\* A new member is not one there was.
LEMMA CreateAges ==
    ASSUME MembersAssumption, TypeOK, NEW m \in Ids, NEW e \in Int \cup {Never}, Create(m, e)
    PROVE  \A n \in Ids : Exists(n) => Ages(n)
<1>1. ASSUME NEW n \in Ids, Exists(n) PROVE Ages(n)
  <2>1. member'[n] = member[n] /\ member[n] \in TeamMember
    BY <1>1, CreateStep, RowsThere
  <2> QED
    BY <1>1, <2>1 DEF Ages, Exists, TeamMember
<1> QED
  BY <1>1

\* Every step keeps the types, and the members it finds only age.
LEMMA TypeStep ==
    ASSUME MembersAssumption, IInv, [MembersNext]_memberVars
    PROVE  TypeOK' /\ Grows /\ \A m \in Ids : Exists(m) => Ages(m)
<1> DEFINE Goal == TypeOK' /\ Grows /\ \A m \in Ids : Exists(m) => Ages(m)
<1>0. \A m \in Ids : Exists(m) => member[m] \in TeamMember
  BY RowsThere DEF IInv
<1>1. ASSUME UNCHANGED member, TypeOK', Grows PROVE Goal
  BY <1>0, <1>1 DEF Ages, Exists, TeamMember
<1>2. ASSUME NEW m \in Ids, NEW e \in Expiries, CreateMember(m, e) PROVE Goal
  <2>1. Create(m, e) /\ e \in Int \cup {Never}
    BY <1>2 DEF CreateMember, MembersAssumption
  <2>2. TypeOK' /\ Grows
    <3>1. TypeOK /\ member' \in [Ids -> TeamMember \cup {Null}] /\ keys' = keys + 1
      BY <2>1, CreateStep DEF IInv
    <3> QED
      BY <1>2, <3>1 DEF CreateMember, TypeOK, Grows
  <2> QED
    BY <2>1, <2>2, CreateAges DEF IInv
<1>3. ASSUME NEW r \in Requests, CreateFirstAdmin(r) PROVE Goal
  <2>1. PICK m \in Ids : Create(m, Never) /\ bootstrapped' = bootstrapped \cup {m}
    BY <1>3 DEF CreateFirstAdmin
  <2>2. /\ req' \in [Requests -> [pc : Steps, id : Ids \cup {Null}, key : Nat, epoch : Nat]]
        /\ now' = now /\ cookies' = cookies /\ adminLock' = Null
    BY <1>3 DEF CreateFirstAdmin, Ready, IInv, TypeOK, Steps
  <2>3. TypeOK' /\ Grows
    <3>1. TypeOK /\ member' \in [Ids -> TeamMember \cup {Null}] /\ keys' = keys + 1
      BY <2>1, CreateStep DEF IInv
    <3> QED
      BY <2>1, <2>2, <3>1 DEF TypeOK, Grows
  <2> QED
    BY <2>1, <2>3, CreateAges DEF IInv
<1>4. ASSUME NEW m \in Ids, RegenerateKey(m) PROVE Goal
  <2> DEFINE rec == [member[m] EXCEPT !.key = keys + 1]
  <2>1. rec \in TeamMember /\ rec.key = keys + 1 /\ rec.active = member[m].active
        /\ rec.expires = member[m].expires /\ rec.epoch = member[m].epoch
    BY <1>0, <1>4 DEF RegenerateKey, IInv, TypeOK, TeamMember
  <2>2. member' = [member EXCEPT ![m] = rec] /\ Exists(m)
    BY <1>4 DEF RegenerateKey
  <2>3. TypeOK' /\ Grows
    BY <1>4, <2>1, <2>2, RowStep DEF RegenerateKey, IInv, TypeOK, Grows
  <2> QED
    <3>1. rec.epoch >= member[m].epoch
      BY <1>0, <2>1, <2>2 DEF TeamMember
    <3>2. keys' = keys + 1
      BY <1>4 DEF RegenerateKey
    <3> HIDE DEF rec
    <3> QED
      BY <2>1, <2>2, <2>3, <3>1, <3>2, RowAges DEF IInv
<1>5. ASSUME RevokeKeys PROVE Goal
  <2>1. ASSUME NEW m \in Ids, Exists(m)
        PROVE /\ member'[m] \in TeamMember /\ member'[m].key = 0
              /\ member'[m].active = member[m].active
              /\ member'[m].expires = member[m].expires
              /\ member'[m].epoch = member[m].epoch
    BY <1>0, <1>5, <2>1 DEF RevokeKeys, TeamMember
  <2>2. \A m \in Ids : ~Exists(m) => member'[m] = Null
    BY <1>5 DEF RevokeKeys
  <2>3. member' \in [Ids -> TeamMember \cup {Null}]
    BY <1>5, <2>1, <2>2 DEF RevokeKeys
  <2>4. TypeOK' /\ Grows
    BY <1>5, <2>3 DEF RevokeKeys, IInv, TypeOK, Grows
  <2> QED
    <3>1. ASSUME NEW m \in Ids, Exists(m) PROVE Ages(m)
      <4>1. Exists(m)'
        BY <2>1, <3>1 DEF Exists, MembersAssumption, TeamMember
      <4> QED
        BY <1>0, <1>5, <2>1, <3>1, <4>1 DEF Ages, TeamMember
    <3> QED
      BY <2>4, <3>1
<1>6. ASSUME NEW r \in Requests, Deactivate(r) PROVE Goal
  <2>1. PICK m \in Ids : m = req[r].id /\ Exists(m)
    BY <1>6 DEF Deactivate, IInv, ReadTrue, Had
  <2> DEFINE changed == [member[m] EXCEPT !.active = FALSE]
  <2>0. changed \in TeamMember
        /\ changed.key = member[m].key /\ ~changed.active
        /\ changed.expires = member[m].expires /\ changed.epoch = member[m].epoch
    BY <1>0, <2>1 DEF TeamMember
  <2>2. PICK rec \in TeamMember :
            /\ rec = changed
            /\ rec.key = member[m].key /\ ~rec.active
            /\ rec.expires = member[m].expires /\ rec.epoch = member[m].epoch
    BY <2>0
  <2>3. member' = [member EXCEPT ![m] = rec]
    BY <1>6, <2>1, <2>2 DEF Deactivate
  <2>4. /\ req' \in [Requests -> [pc : Steps, id : Ids \cup {Null}, key : Nat, epoch : Nat]]
        /\ adminLock' = Null
    BY <1>6 DEF Deactivate, Ready, IInv, TypeOK, Steps
  <2>5. TypeOK' /\ Grows
    BY <1>6, <2>1, <2>2, <2>3, <2>4, RowStep DEF Deactivate, IInv, TypeOK, Grows
  <2> QED
    <3>1. rec.epoch >= member[m].epoch
      BY <1>0, <2>1, <2>2 DEF TeamMember
    <3>2. \E q \in Requests : Deactivate(q) /\ req[q].id = m
      BY <1>6, <2>1
    <3> QED
      BY <2>1, <2>2, <2>3, <2>5, <3>1, <3>2, RowAges DEF IInv
<1>7. ASSUME NEW r \in Requests, EndSessions(r) PROVE Goal
  <2>1. PICK m \in Ids : m = req[r].id /\ Exists(m)
    BY <1>7 DEF EndSessions, IInv, ReadTrue, Had
  <2> DEFINE changed == [member[m] EXCEPT !.epoch = NextEpoch(r)]
  <2>0. changed \in TeamMember
        /\ changed.key = member[m].key /\ changed.active = member[m].active
        /\ changed.expires = member[m].expires /\ changed.epoch = member[m].epoch + 1
    BY <1>0, <2>1 DEF TeamMember, NextEpoch
  <2>2. PICK rec \in TeamMember :
            /\ rec = changed
            /\ rec.key = member[m].key /\ rec.active = member[m].active
            /\ rec.expires = member[m].expires /\ rec.epoch = member[m].epoch + 1
    BY <2>0
  <2>3. member' = [member EXCEPT ![m] = rec]
    BY <1>7, <2>1, <2>2 DEF EndSessions
  <2>4. req' \in [Requests -> [pc : Steps, id : Ids \cup {Null}, key : Nat, epoch : Nat]]
    BY <1>7 DEF EndSessions, Ready, IInv, TypeOK, Steps
  <2>5. TypeOK' /\ Grows
    BY <1>7, <2>1, <2>2, <2>3, <2>4, RowStep DEF EndSessions, IInv, TypeOK, Grows
  <2> QED
    <3>1. rec.epoch >= member[m].epoch
      BY <1>0, <2>1, <2>2 DEF TeamMember
    <3> QED
      BY <2>1, <2>2, <2>3, <2>5, <3>1, RowAges DEF IInv
<1>8. ASSUME NEW r \in Requests, NEW m \in Ids, AskDeactivation(r, m) \/ SignIn(r, m)
      PROVE Goal
  <2>1. req' \in [Requests -> [pc : Steps, id : Ids \cup {Null}, key : Nat, epoch : Nat]]
    <3>1. CASE AskDeactivation(r, m)
      BY <3>1 DEF AskDeactivation, Ready, IInv, TypeOK, Steps
    <3>2. CASE SignIn(r, m)
      <4>1. member[m].key \in Nat /\ member[m].epoch \in Nat
        BY <1>0, <3>2 DEF SignIn, UsableAdmin, TeamMember
      <4> QED
        BY <3>2, <4>1 DEF SignIn, IInv, TypeOK, Steps
    <3> QED
      BY <1>8, <3>1, <3>2
  <2> QED
    BY <1>1, <1>8, <2>1 DEF AskDeactivation, SignIn, IInv, TypeOK, Grows
<1>9. ASSUME NEW r \in Requests, AskSetup(r) \/ Fail(r) PROVE Goal
  BY <1>1, <1>9 DEF AskSetup, Fail, Step, Ready, IInv, TypeOK, Steps, Grows
<1>10. ASSUME NEW r \in Requests, LockAndCheck(r) PROVE Goal
  <2>1. req[r].pc = "deactivate" /\ Exists(req[r].id) => member[req[r].id].key \in Nat
    BY <1>0 DEF TeamMember, IInv, ReadTrue
  <2>2. /\ req' \in [Requests -> [pc : Steps, id : Ids \cup {Null}, key : Nat, epoch : Nat]]
        /\ adminLock' \in {adminLock, r}
    BY <1>10, <2>1 DEF LockAndCheck, Ready, IInv, TypeOK, Steps
  <2> QED
    BY <1>1, <1>10, <2>2 DEF LockAndCheck, IInv, TypeOK, Grows
<1>11. ASSUME NEW r \in Requests, IssueCookie(r) PROVE Goal
  <2> DEFINE m == req[r].id
  <2>1. m \in Ids /\ Exists(m)
    BY <1>11 DEF IssueCookie, IInv, ReadTrue, Had
  <2>2. member[m].key \in Nat /\ member[m].epoch \in Nat
    BY <2>1, <1>0 DEF TeamMember
  <2>3. cookies' \in SUBSET Cookie
    BY <1>11, <2>1, <2>2 DEF IssueCookie, CookieOf, IInv, TypeOK, Cookie
  <2> QED
    BY <1>1, <1>11, <2>3 DEF IssueCookie, Ready, IInv, TypeOK, Steps, Grows
<1>12. ASSUME NEW r \in Requests, NEW c \in cookies, SignOut(r, c) PROVE Goal
  BY <1>1, <1>12 DEF SignOut, IInv, TypeOK, Steps, Grows, Cookie
<1>13. ASSUME Tick \/ UNCHANGED memberVars PROVE Goal
  BY <1>1, <1>13 DEF Tick, memberVars, IInv, TypeOK, Grows
<1> QED
  BY <1>2, <1>3, <1>4, <1>5, <1>6, <1>7, <1>8, <1>9, <1>10, <1>11, <1>12, <1>13 DEF MembersNext

-----------------------------------------------------------------------------
(* Requests and the lock.                                                  *)

\* What a step may do to a request: end it, start it, or let it check the
\* administrators.
Moves(r) ==
    \/ req'[r] = req[r]
    \/ req'[r] = Ready
    \/ req'[r].pc \in {"deactivate", "setup"} /\ (req'[r].pc = "deactivate" => req'[r].id \in Ids)
    \/ \E m \in Ids : SignIn(r, m)
    \/ \E c \in cookies : SignOut(r, c)
    \/ LockAndCheck(r) /\ adminLock' = r

\* Each request moves so, and a step that changes members' activity or the time
\* finds the lock as LockHeld has it.
LEMMA MoveStep ==
    ASSUME MembersAssumption, IInv, [MembersNext]_memberVars
    PROVE  /\ \A r \in Requests : Moves(r)
           /\ RevokeKeys => bootstrapped = {} /\ \A r \in Requests : req[r] = Ready
           /\ now' # now => adminLock = Null
           /\ \A r \in Requests : Deactivate(r) \/ CreateFirstAdmin(r) => adminLock = r
           /\ \A r \in Requests : Deactivate(r) \/ CreateFirstAdmin(r) \/ EndSessions(r) => req'[r] = Ready
           /\ bootstrapped' = bootstrapped \/ \E r \in Requests : CreateFirstAdmin(r)
<1> USE DEF IInv, TypeOK
<1> DEFINE Goal ==
           /\ \A r \in Requests : Moves(r)
           /\ now' # now => adminLock = Null
           /\ bootstrapped' = bootstrapped \/ \E r \in Requests : CreateFirstAdmin(r)
<1>1. ASSUME UNCHANGED <<now, bootstrapped, req>> PROVE Goal
  BY <1>1 DEF Moves
<1>2. ASSUME NEW r \in Requests, req' = [req EXCEPT ![r] = Ready], UNCHANGED <<now, bootstrapped>>
      PROVE Goal
  BY <1>2 DEF Moves
<1>3. ASSUME NEW m \in Ids, (\E e \in Expiries : CreateMember(m, e)) \/ RegenerateKey(m) PROVE Goal
  BY <1>1, <1>3 DEF CreateMember, RegenerateKey
<1>4. ASSUME NEW r \in Requests, NEW m \in Ids, AskDeactivation(r, m) PROVE Goal
  <2>1. /\ req'[r].pc = "deactivate" /\ req'[r].id = m
        /\ \A q \in Requests \ {r} : req'[q] = req[q]
    BY <1>4 DEF AskDeactivation, Ready
  <2> QED
    BY <1>4, <2>1 DEF AskDeactivation, Moves
<1>5. ASSUME NEW r \in Requests, NEW m \in Ids, SignIn(r, m) PROVE Goal
  <2>1. \A q \in Requests \ {r} : req'[q] = req[q]
    BY <1>5 DEF SignIn
  <2> QED
    BY <1>5, <2>1 DEF SignIn, Moves
<1>6. ASSUME NEW r \in Requests, AskSetup(r) PROVE Goal
  <2>1. /\ req'[r].pc = "setup"
        /\ \A q \in Requests \ {r} : req'[q] = req[q]
    BY <1>6 DEF AskSetup, Step
  <2> QED
    BY <1>6, <2>1 DEF AskSetup, Moves
<1>7. ASSUME NEW r \in Requests, LockAndCheck(r) PROVE Goal
  <2>1. \A q \in Requests \ {r} : req'[q] = req[q]
    BY <1>7 DEF LockAndCheck
  <2>2. Moves(r)
    BY <1>7 DEF LockAndCheck, Moves
  <2> QED
    BY <1>7, <2>1, <2>2 DEF LockAndCheck, Moves
<1>8. ASSUME NEW r \in Requests, Deactivate(r) \/ IssueCookie(r) \/ EndSessions(r) \/ Fail(r) PROVE Goal
  BY <1>2, <1>8 DEF Deactivate, IssueCookie, EndSessions, Fail
<1>9. ASSUME NEW r \in Requests, CreateFirstAdmin(r) PROVE Goal
  BY <1>9 DEF CreateFirstAdmin, Moves
<1>10. ASSUME NEW r \in Requests, NEW c \in cookies, SignOut(r, c) PROVE Goal
  <2>1. \A q \in Requests \ {r} : req'[q] = req[q]
    BY <1>10 DEF SignOut
  <2> QED
    BY <1>10, <2>1 DEF SignOut, Moves
<1>11. ASSUME RevokeKeys PROVE Goal
  BY <1>1, <1>11 DEF RevokeKeys
<1>12. ASSUME Tick \/ UNCHANGED memberVars PROVE Goal
  BY <1>12 DEF Tick, memberVars, Moves
<1>13. Goal
  BY <1>3, <1>4, <1>5, <1>6, <1>7, <1>8, <1>9, <1>10, <1>11, <1>12 DEF MembersNext
<1>14. RevokeKeys => bootstrapped = {} /\ \A r \in Requests : req[r] = Ready
  BY DEF RevokeKeys
<1>15. \A r \in Requests : Deactivate(r) \/ CreateFirstAdmin(r) => adminLock = r
  BY DEF Deactivate, CreateFirstAdmin, LockHeld
<1>16. \A r \in Requests : Deactivate(r) \/ CreateFirstAdmin(r) \/ EndSessions(r) => req'[r] = Ready
  BY DEF Deactivate, CreateFirstAdmin, EndSessions
<1> QED
  BY <1>13, <1>14, <1>15, <1>16

\* The lock of the administrators is held by the request that checked them.
LEMMA LockStep ==
    ASSUME MembersAssumption, IInv, [MembersNext]_memberVars PROVE LockHeld'
<1> SUFFICES ASSUME NEW r \in Requests, req'[r].pc \in {"removing", "creating"}
             PROVE  adminLock' = r
  BY DEF LockHeld
<1>1. CASE LockAndCheck(r) /\ adminLock' = r
  BY <1>1
<1>2. CASE req'[r] = req[r]
  <2>1. adminLock = r /\ r # Null /\ req'[r] # Ready
    BY <1>2 DEF IInv, LockHeld, MembersAssumption, Ready
  <2>2. adminLock' = adminLock
    BY <2>1 DEF MembersNext, memberVars, CreateMember, RegenerateKey, AskDeactivation, SignIn,
       AskSetup, LockAndCheck, Deactivate, CreateFirstAdmin, IssueCookie, EndSessions, Fail,
       SignOut, RevokeKeys, Tick, IInv, TypeOK, LockHeld
  <2> QED
    BY <2>1, <2>2
<1>3. req'[r] # Ready /\ ~(\E m \in Ids : SignIn(r, m)) /\ ~(\E c \in cookies : SignOut(r, c))
  BY DEF Ready, SignIn, SignOut, IInv, TypeOK
<1> QED
  BY <1>1, <1>2, <1>3, MoveStep DEF Moves

-----------------------------------------------------------------------------
(* What requests and cookies know.                                         *)

\* Keys are issued in order, whoever creates a member or renews a key.
LEMMA KeyStep ==
    ASSUME MembersAssumption, IInv, [MembersNext]_memberVars
    PROVE  \A m \in Ids : Exists(m)' => member'[m].key <= keys'
<1>1. ASSUME NEW m \in Ids, Exists(m) PROVE member'[m].key <= keys'
  <2>1. Ages(m) /\ Grows /\ member[m].key <= keys
    BY <1>1, TypeStep DEF IInv, ReadTrue
  <2>2. member[m].key \in Nat /\ keys \in Nat /\ keys' \in Nat
    BY <1>1, TypeStep, RowsThere DEF IInv, TypeOK, TeamMember
  <2> QED
    BY <2>1, <2>2 DEF Ages, Grows
<1>2. ASSUME NEW m \in Ids, ~Exists(m), Exists(m)' PROVE member'[m].key <= keys'
  <2>1. PICK e \in Int \cup {Never} : Create(m, e)
    <3>1. CASE \E n \in Ids, e \in Expiries : CreateMember(n, e)
      <4>1. PICK n \in Ids, e \in Expiries : CreateMember(n, e)
        BY <3>1
      <4>2. Create(n, e) /\ e \in Int \cup {Never}
        BY <4>1 DEF CreateMember, MembersAssumption
      <4>3. n = m
        BY <1>2, <4>2, CreateStep DEF IInv, Exists
      <4> QED
        BY <4>2, <4>3
    <3>2. CASE \E r \in Requests : CreateFirstAdmin(r)
      <4>1. PICK n \in Ids : Create(n, Never)
        BY <3>2 DEF CreateFirstAdmin
      <4>2. n = m
        BY <1>2, <4>1, CreateStep DEF IInv, Exists
      <4> QED
        BY <4>1, <4>2
    <3>3. CASE UNCHANGED member
      BY <1>2, <3>3 DEF Exists
    <3>4. CASE RevokeKeys
      BY <1>2, <3>4 DEF Exists, RevokeKeys, IInv, TypeOK
    <3>5. CASE \E n \in Ids : RegenerateKey(n)
      BY <1>2, <3>5 DEF Exists, RegenerateKey, IInv, TypeOK
    <3>6. CASE \E r \in Requests : Deactivate(r) \/ EndSessions(r)
      BY <1>2, <3>6 DEF Exists, Deactivate, EndSessions, IInv, TypeOK, ReadTrue, Had
    <3> QED
      BY <3>1, <3>2, <3>3, <3>4, <3>5, <3>6 DEF MembersNext, memberVars, AskDeactivation, SignIn,
         AskSetup, LockAndCheck, IssueCookie, Fail, SignOut, Tick
  <2>2. member'[m] = NewMember(m, e) /\ keys' = keys + 1
    BY <2>1, CreateStep DEF IInv
  <2> QED
    BY <2>2 DEF NewMember, IInv, TypeOK
<1> QED
  BY <1>1, <1>2

\* What was had of a member is still had.
LEMMA HadStep ==
    ASSUME MembersAssumption, IInv, [MembersNext]_memberVars,
           NEW x, Had(x), x.key \in Nat
    PROVE  /\ x.id \in Ids /\ Exists(x.id)' /\ x.key <= keys'
           /\ \A e \in Nat : e <= member[x.id].epoch => e <= member'[x.id].epoch
<1>1. /\ Ages(x.id) /\ Grows /\ member[x.id] \in TeamMember
      /\ keys \in Nat /\ keys' \in Nat
  BY TypeStep, RowsThere DEF Had, IInv, TypeOK
<1> QED
  BY <1>1 DEF Ages, Grows, Had, TeamMember

\* Every step keeps what requests and cookies know of the members true.
LEMMA ReadStep ==
    ASSUME MembersAssumption, IInv, [MembersNext]_memberVars PROVE ReadTrue'
<1> USE DEF IInv
<1>1. ASSUME NEW r \in Requests
      PROVE /\ req'[r].pc = "deactivate" => req'[r].id \in Ids
            /\ req'[r].pc \in {"removing", "signing_in", "signing_out"} =>
                  /\ req'[r].id \in Ids /\ member'[req'[r].id] # Null
                  /\ req'[r].key <= keys'
  <2>1. CASE req'[r] = req[r]
    <3>1. CASE req[r].pc \in {"removing", "signing_in", "signing_out"}
      <4>1. PICK x : x = req[r]
        OBVIOUS
      <4>2. Had(x) /\ x.key \in Nat /\ x.epoch \in Nat
        BY <3>1, <4>1 DEF ReadTrue, TypeOK
      <4>3. /\ x.id \in Ids /\ Exists(x.id)' /\ x.key <= keys'
            /\ x.epoch <= member[x.id].epoch => x.epoch <= member'[x.id].epoch
        BY <4>2, HadStep
      <4> QED
        BY <2>1, <3>1, <4>1, <4>3 DEF Exists, ReadTrue
    <3> QED
      BY <2>1, <3>1 DEF ReadTrue
  <2>2. CASE \E m \in Ids : SignIn(r, m)
    <3>1. PICK m \in Ids : SignIn(r, m)
      BY <2>2
    <3>2. /\ Exists(m) /\ member' = member /\ keys' = keys
          /\ req'[r].id = m /\ req'[r].key = 0 /\ req'[r].pc = "signing_in" /\ keys \in Nat
      BY <3>1 DEF SignIn, UsableAdmin, TypeOK, Ready
    <3> QED
      BY <3>2 DEF Exists
  <2>3. CASE \E c \in cookies : SignOut(r, c)
    <3>1. PICK c \in cookies : SignOut(r, c)
      BY <2>3
    <3>2. /\ Exists(c.id) /\ c.id \in Ids /\ member' = member /\ keys' = keys
          /\ req'[r].id = c.id /\ req'[r].key = 0 /\ req'[r].pc = "signing_out"
      BY <3>1 DEF SignOut, SessionMember, ReadTrue, Had, TypeOK
    <3> QED
      BY <3>2 DEF Exists, TypeOK
  <2>4. CASE LockAndCheck(r) /\ adminLock' = r
    <3>1. member' = member /\ keys' = keys
      BY <2>4 DEF LockAndCheck
    <3>2. CASE req[r].pc = "setup"
      <4>1. req'[r].pc \in {"creating", "ready"}
        BY <2>4, <3>2 DEF LockAndCheck, Ready, TypeOK
      <4> QED
        BY <4>1
    <3>3. CASE req[r].pc = "deactivate" /\ Exists(req[r].id) /\ MayDeactivate(req[r].id)
      <4>1. /\ req'[r].pc = "removing" /\ req'[r].id = req[r].id /\ req[r].id \in Ids
            /\ req'[r].key = member[req[r].id].key
        BY <2>4, <3>3 DEF LockAndCheck, TypeOK, ReadTrue
      <4> QED
        BY <3>1, <3>3, <4>1 DEF ReadTrue, Exists
    <3>4. CASE req'[r] = Ready
      BY <3>4 DEF Ready
    <3> QED
      BY <2>4, <3>2, <3>3, <3>4 DEF LockAndCheck, TypeOK
  <2>5. CASE req'[r] = Ready
    BY <2>5 DEF Ready
  <2> QED
    BY <2>1, <2>2, <2>3, <2>4, <2>5, MoveStep DEF Moves
<1>2. ASSUME NEW c \in cookies' PROVE Had(c)' /\ c.epoch <= member'[c.id].epoch
  <2>1. CASE c \in cookies
    <3>1. c.key \in Nat /\ c.epoch \in Nat /\ Had(c) /\ c.epoch <= member[c.id].epoch
      BY <2>1 DEF TypeOK, Cookie, ReadTrue
    <3> QED
      BY <3>1, HadStep DEF Had
  <2>2. CASE c \notin cookies
    <3>1. PICK r \in Requests : IssueCookie(r)
      BY <2>2 DEF MembersNext, memberVars, CreateMember, RegenerateKey, AskDeactivation, SignIn,
         AskSetup, LockAndCheck, Deactivate, CreateFirstAdmin, EndSessions, Fail, SignOut,
         RevokeKeys, Tick
    <3> DEFINE m == req[r].id
    <3>2. /\ c.id = m /\ c.key = member[m].key /\ c.epoch = member[m].epoch
          /\ req[r].pc = "signing_in" /\ member' = member /\ keys' = keys
      BY <2>2, <3>1 DEF IssueCookie, CookieOf
    <3>3. m \in Ids /\ Exists(m) /\ member[m].epoch \in Nat
      BY <3>2, RowsThere DEF ReadTrue, Had, TeamMember
    <3> QED
      BY <3>2, <3>3 DEF ReadTrue, Had, Exists
  <2> QED
    BY <2>1, <2>2
<1> QED
  BY <1>1, <1>2, KeyStep DEF ReadTrue, Had, Exists

-----------------------------------------------------------------------------
(* The administrators.                                                     *)

\* A usable administrator stays usable, unless time passes, its key is
\* revoked or it is deactivated.
LEMMA StaysUsable ==
    ASSUME MembersAssumption, IInv, [MembersNext]_memberVars, now' = now, ~RevokeKeys,
           NEW n \in Ids, UsableAdmin(n), \A r \in Requests : Deactivate(r) => req[r].id # n
    PROVE  UsableAdmin(n)'
<1>1. Ages(n) /\ member[n] \in TeamMember /\ keys \in Nat
  BY TypeStep, RowsThere DEF UsableAdmin, IInv, TypeOK
<1>2. member[n].active /\ member[n].key # 0 /\ ~Expired(n)
  BY DEF UsableAdmin
<1>3. Exists(n)' /\ member'[n].active
  BY <1>1, <1>2 DEF Ages
<1>4. member'[n].key # 0
  BY <1>1, <1>2 DEF Ages
<1>5. ~Expired(n)'
  BY <1>1, <1>2 DEF Ages, Expired
<1> QED
  BY <1>3, <1>4, <1>5 DEF UsableAdmin

\* One that is usable after a step and had its key before it was usable then.
LEMMA WasUsable ==
    ASSUME MembersAssumption, IInv, [MembersNext]_memberVars, now' = now, ~RevokeKeys,
           NEW n \in Ids, Exists(n), UsableAdmin(n)', member'[n].key <= keys
    PROVE  UsableAdmin(n) /\ member[n].key = member'[n].key
<1>1. Ages(n) /\ member[n] \in TeamMember /\ keys \in Nat
  BY TypeStep, RowsThere DEF IInv, TypeOK
<1>2. member'[n].active /\ member'[n].key # 0 /\ ~Expired(n)'
  BY DEF UsableAdmin
<1>3. member[n].active
  BY <1>1, <1>2 DEF Ages
<1>4. member[n].key = member'[n].key
  BY <1>1, <1>2 DEF Ages
<1>5. ~Expired(n)
  BY <1>1, <1>2 DEF Ages, Expired
<1> QED
  BY <1>2, <1>3, <1>4, <1>5 DEF UsableAdmin

\* While one administrator is being deactivated another one stays.
LEMMA OtherStep ==
    ASSUME MembersAssumption, IInv, [MembersNext]_memberVars PROVE OtherRemains'
<1> SUFFICES ASSUME NEW r \in Requests, NEW m, m = req'[r].id,
                    req'[r].pc = "removing", member'[m].key = req'[r].key, UsableAdmin(m)'
             PROVE  \E n \in Ids \ {m} : UsableAdmin(n)'
  BY DEF OtherRemains
<1> USE DEF IInv
<1>1. CASE LockAndCheck(r)
  <2>1. /\ member' = member /\ now' = now /\ m = req[r].id
        /\ MayDeactivate(m)
    BY <1>1 DEF LockAndCheck, Ready, TypeOK
  <2>2. PICK n \in Ids \ {m} : UsableAdmin(n)
    BY <2>1 DEF MayDeactivate, DurableAdmin, UsableAdmin, Expired, Exists
  <2> QED
    BY <2>1, <2>2 DEF UsableAdmin, Expired, Exists
<1>2. CASE req'[r] = req[r]
  <2>1. /\ adminLock = r /\ r # Null /\ req[r] # Ready /\ req'[r] # Ready
        /\ req[r].pc = "removing" /\ m \in Ids /\ Exists(m) /\ req[r].key <= keys
    BY <1>2 DEF LockHeld, MembersAssumption, Ready, ReadTrue, Had
  <2>2. now' = now /\ ~RevokeKeys /\ \A q \in Requests : ~Deactivate(q)
    BY <2>1, MoveStep
  <2>3. UsableAdmin(m) /\ member[m].key = req[r].key
    BY <1>2, <2>1, <2>2, WasUsable
  <2>4. PICK n \in Ids \ {m} : UsableAdmin(n)
    BY <1>2, <2>1, <2>3 DEF OtherRemains
  <2> QED
    BY <2>2, <2>4, StaysUsable
<1>3. req'[r] # Ready /\ ~(\E q \in Ids : SignIn(r, q)) /\ ~(\E c \in cookies : SignOut(r, c))
  BY DEF Ready, SignIn, SignOut, TypeOK
<1> QED
  BY <1>1, <1>2, <1>3, MoveStep DEF Moves

\* What set-up created, it created once.
LEMMA SetupStep ==
    ASSUME MembersAssumption, IInv, [MembersNext]_memberVars PROVE Bootstrapped'
<1> USE DEF IInv
<1>1. ASSUME NEW m \in bootstrapped
      PROVE /\ m \in Ids /\ Exists(m)' /\ member'[m].expires = Never /\ member'[m].key # 0
            /\ member'[m].active => member[m].active
  <2>1. Ages(m) /\ ~RevokeKeys /\ m \in Ids
    BY <1>1, TypeStep, MoveStep DEF Bootstrapped, TypeOK
  <2>2. keys + 1 # 0
    BY DEF TypeOK
  <2> QED
    BY <1>1, <2>1, <2>2 DEF Ages, Bootstrapped
<1>2. CASE bootstrapped' = bootstrapped
  <2>1. ASSUME NEW r \in Requests, req'[r].pc = "creating"
        PROVE \A m \in bootstrapped : ~member'[m].active
    <3>1. CASE LockAndCheck(r)
      <4>1. NoAdmin /\ member' = member
        BY <2>1, <3>1 DEF LockAndCheck, Ready, TypeOK
      <4> QED
        BY <4>1 DEF NoAdmin, UsableAdmins, UsableAdmin, Expired, Bootstrapped, TypeOK
    <3>2. CASE req'[r] = req[r]
      BY <1>1, <2>1, <3>2 DEF Bootstrapped
    <3>3. req'[r] # Ready /\ ~(\E q \in Ids : SignIn(r, q)) /\ ~(\E c \in cookies : SignOut(r, c))
      BY <2>1 DEF Ready, SignIn, SignOut, TypeOK
    <3> QED
      BY <2>1, <3>1, <3>2, <3>3, MoveStep DEF Moves
  <2> QED
    BY <1>1, <1>2, <2>1 DEF Bootstrapped
<1>3. ASSUME NEW r \in Requests, CreateFirstAdmin(r) PROVE Bootstrapped'
  <2>1. PICK m \in Ids : Create(m, Never) /\ bootstrapped' = bootstrapped \cup {m}
    BY <1>3 DEF CreateFirstAdmin
  <2>2. Exists(m)' /\ member'[m] = NewMember(m, Never)
    BY <2>1, CreateStep
  <2>3. member'[m].expires = Never /\ member'[m].key # 0
    BY <2>2 DEF NewMember, TypeOK
  <2>4. \A n \in bootstrapped : ~member'[n].active
    BY <1>1, <1>3 DEF CreateFirstAdmin, Bootstrapped
  <2>5. ASSUME NEW q \in Requests PROVE req'[q].pc # "creating"
    <3>1. adminLock = r /\ req' = [req EXCEPT ![r] = Ready]
      BY <1>3, MoveStep DEF CreateFirstAdmin
    <3> QED
      BY <3>1 DEF LockHeld, Ready, TypeOK
  <2> QED
    BY <1>1, <2>1, <2>2, <2>3, <2>4, <2>5 DEF Bootstrapped
<1> QED
  BY <1>2, <1>3, MoveStep

-----------------------------------------------------------------------------
(* The theorems.                                                           *)

\* A portal without members satisfies the invariant.
LEMMA Initially == ASSUME MembersAssumption PROVE MembersInit => IInv
  BY DEF MembersAssumption, MembersInit, IInv, TypeOK, LockHeld, ReadTrue, OtherRemains, Bootstrapped,
     Exists, Ready, Steps, TeamMember

\* The invariant holds in every reachable state.
LEMMA Invariance == ASSUME MembersAssumption PROVE MembersSpec => []IInv
<1>1. IInv /\ [MembersNext]_memberVars => IInv'
  BY TypeStep, LockStep, ReadStep, OtherStep, SetupStep DEF IInv
<1> QED
  BY Initially, <1>1, PTL DEF MembersSpec

\* No interleaving of deactivations, set-ups and key changes takes the portal's
\* last usable administrator.
THEOREM AdministratorStays ==
    ASSUME MembersAssumption PROVE MembersSpec => [][AdminRemains]_memberVars
<1>1. IInv /\ [MembersNext]_memberVars => AdminRemains
  <2> SUFFICES ASSUME IInv, [MembersNext]_memberVars, UsableAdmins # {}, now' = now,
                      ~RevokeKeys, ~RekeyedMeanwhile
               PROVE  \E n \in Ids : UsableAdmin(n)'
    BY DEF AdminRemains, UsableAdmins
  <2>1. CASE \E r \in Requests : Deactivate(r)
    <3>1. PICK r \in Requests : Deactivate(r)
      BY <2>1
    <3>2. /\ req[r].pc = "removing" /\ member[req[r].id].key = req[r].key
          /\ \A q \in Requests : Deactivate(q) => q = r
      BY <3>1, MoveStep DEF Deactivate, RekeyedMeanwhile
    <3>3. PICK n \in Ids : UsableAdmin(n) /\ n # req[r].id
      BY <3>2 DEF IInv, OtherRemains, UsableAdmins
    <3> QED
      BY <3>2, <3>3, StaysUsable
  <2>2. CASE \A r \in Requests : ~Deactivate(r)
    BY <2>2, StaysUsable DEF UsableAdmins
  <2> QED
    BY <2>1, <2>2
<1> QED
  BY <1>1, Invariance, PTL DEF MembersSpec

\* Concurrent set-ups leave at most one usable administrator that set-up made.
THEOREM OneSetup == ASSUME MembersAssumption PROVE MembersSpec => []OneBootstrap
<1>1. IInv => OneBootstrap
  <2> SUFFICES ASSUME IInv PROVE OneBootstrap
    OBVIOUS
  <2> DEFINE usable == {m \in bootstrapped : UsableAdmin(m)}
  <2>1. \A m, n \in usable : m = n
    BY DEF IInv, Bootstrapped, UsableAdmin
  <2>2. CASE usable = {}
    BY <2>2, FS_EmptySet DEF OneBootstrap
  <2>3. CASE usable # {}
    <3>1. PICK m : usable = {m}
      BY <2>1, <2>3
    <3>2. Cardinality(usable) = 1
      BY <3>1, FS_Singleton
    <3> QED
      BY <3>2 DEF OneBootstrap
  <2> QED
    BY <2>2, <2>3
<1> QED
  BY <1>1, Invariance, PTL

\* A session that is refused stays refused, and a logout ends every session of
\* its member, copies of the cookie and sign-ins under way included.
THEOREM EndedSessionsStayEnded ==
    ASSUME MembersAssumption PROVE MembersSpec => [][SessionsStayEnded]_memberVars
<1>1. IInv /\ [MembersNext]_memberVars => SessionsStayEnded
  <2> SUFFICES ASSUME IInv, [MembersNext]_memberVars, NEW c \in cookies, Accepted(c)'
               PROVE  Accepted(c) /\ ~(\E r \in Requests : req[r].id = c.id /\ EndSessions(r))
    BY DEF SessionsStayEnded
  <2>1. /\ c.id \in Ids /\ Exists(c.id) /\ c.key <= keys /\ c.epoch <= member[c.id].epoch
        /\ c.key \in Nat /\ c.epoch \in Nat /\ c.at \in Nat
    BY DEF IInv, TypeOK, Cookie, ReadTrue, Had
  <2>2. /\ Ages(c.id) /\ Grows /\ member[c.id] \in TeamMember
        /\ keys \in Nat /\ now \in Nat /\ now' \in Nat /\ member'[c.id] \in TeamMember
    BY <2>1, TypeStep, RowsThere DEF IInv, TypeOK, Ages
  <2>3. /\ member'[c.id].active /\ member'[c.id].key # 0 /\ c.key = member'[c.id].key
        /\ c.epoch = member'[c.id].epoch /\ now' - c.at <= Lifetime /\ ~Expired(c.id)'
    BY DEF Accepted, SessionMember
  <2>4. member[c.id].key = c.key /\ member[c.id].active
    <3>1. member[c.id].key = c.key
      BY <2>1, <2>2, <2>3 DEF Ages
    <3>2. member[c.id].active
      BY <2>2, <2>3 DEF Ages
    <3> QED
      BY <3>1, <3>2
  <2>5. member[c.id].epoch = c.epoch
    BY <2>1, <2>2, <2>3 DEF Ages, TeamMember
  <2>6. now - c.at <= Lifetime /\ ~Expired(c.id)
    BY <2>1, <2>2, <2>3 DEF Ages, Grows, Expired, TeamMember, MembersAssumption
  <2>7. ASSUME NEW r \in Requests, req[r].id = c.id, EndSessions(r) PROVE FALSE
    <3>1. member'[c.id].epoch = member[c.id].epoch + 1
      BY <2>1, <2>2, <2>7 DEF EndSessions, NextEpoch, IInv, TypeOK, TeamMember
    <3> QED
      BY <2>3, <2>5, <3>1, <2>1
  <2> QED
    BY <2>1, <2>3, <2>4, <2>5, <2>6, <2>7 DEF Accepted, SessionMember
<1> QED
  BY <1>1, Invariance, PTL DEF MembersSpec

\* What every step promises of the members: the three theorems in one.
THEOREM MembersAreKept ==
    ASSUME MembersAssumption PROVE MembersSpec => [][MembersStand]_memberVars
<1>1. AdminRemains /\ SessionsStayEnded /\ OneBootstrap' => MembersStand
  BY DEF MembersStand
<1>2. (memberVars' = memberVars) /\ OneBootstrap => OneBootstrap'
  BY DEF memberVars, OneBootstrap, UsableAdmin, Exists, Expired
<1> QED
  BY <1>1, AdministratorStays, OneSetup, EndedSessionsStayEnded, PTL

-----------------------------------------------------------------------------
(* Sign-in budgets (RateLimit), for any number of requests, clients and    *)
(* members, any limit and any age of pruning.                              *)

RateAttempt ==
    [pc : {"consume", "check", "session", "reset"}, client : Clients, member : Reviewers,
     right : BOOLEAN, window : Windows, seen : Int]

RateTypes ==
    /\ counters \in [(Clients \cup Reviewers) \X Windows -> Nat]
    /\ tried \in [Clients \X Windows -> Nat] /\ begun \in [Reviewers \X Windows -> Nat]
    /\ attempt \in [Attempts -> RateAttempt \cup {Resting}]
    /\ window \in Windows

\* No request counts in a window that was pruned under it.
InTime == \A r \in Attempts : attempt[r] # Resting => attempt[r].window >= window - MaxAge

\* Of the windows not pruned, the counters know everything that was let through.
CountersKnow ==
    /\ \A k \in Clients \X Windows : k[2] >= window - MaxAge => tried[k] <= counters[k]
    /\ \A k \in Reviewers \X Windows : k[2] >= window - MaxAge => begun[k] <= counters[k]

RateInv == RateTypes /\ InTime /\ CountersKnow /\ BudgetsHold

\* A request changes the counter of one key, in a window that is not pruned.
LEMMA CountOne ==
    ASSUME RateLimitAssumption, RateTypes, NEW r \in Attempts, attempt[r] # Resting,
           NEW key \in Clients \cup Reviewers
    PROVE  /\ <<key, attempt[r].window>> \in DOMAIN counters
           /\ Counted(r, key) = counters[<<key, attempt[r].window>>] + 1
           /\ Counted(r, key) \in Nat
  BY DEF RateTypes, RateAttempt, Counted

\* A request goes on in its window, or ends.
LEMMA MoveOn ==
    ASSUME RateTypes, NEW r \in Attempts, attempt[r] # Resting,
           NEW pc \in {"consume", "check", "session", "reset"}, Goes(r, pc) \/ Ends(r)
    PROVE  \E new \in RateAttempt \cup {Resting} :
              /\ attempt' = [attempt EXCEPT ![r] = new]
              /\ new # Resting => new.window = attempt[r].window
<1>1. CASE Ends(r)
  BY <1>1 DEF Ends
<1>2. CASE Goes(r, pc)
  <2> DEFINE new == [attempt[r] EXCEPT !.pc = pc]
  <2>1. attempt[r] \in RateAttempt
    BY DEF RateTypes
  <2>2. new \in RateAttempt /\ new.window = attempt[r].window
    BY <2>1 DEF RateAttempt
  <2>3. attempt' = [attempt EXCEPT ![r] = new]
    BY <1>2 DEF Goes
  <2> QED
    BY <2>2, <2>3
<1> QED
  BY <1>1, <1>2

\* A sign-in counts against its address: the budget of its window stays exact.
LEMMA ConsumeStep ==
    ASSUME RateLimitAssumption, RateInv, NEW r \in Attempts, Consume(r)
    PROVE  RateInv'
<1> DEFINE a == attempt[r]
           k == <<a.client, a.window>>
           n == Counted(r, a.client)
<1>1. /\ a \in RateAttempt /\ k \in Clients \X Windows /\ k \in DOMAIN counters
      /\ n = counters[k] + 1 /\ n \in Nat /\ a.window >= window - MaxAge /\ a # Resting
  BY CountOne DEF Consume, RateInv, RateTypes, RateAttempt, InTime
<1>2. counters' = [counters EXCEPT ![k] = n] /\ UNCHANGED <<window, begun>>
  BY DEF Consume
<1>3. /\ Goes(r, "check") \/ Ends(r)
      /\ \/ n <= Limit /\ tried' = [tried EXCEPT ![k] = @ + 1]
         \/ UNCHANGED tried
  BY DEF Consume
<1>4. PICK new \in RateAttempt \cup {Resting} :
            /\ attempt' = [attempt EXCEPT ![r] = new]
            /\ new # Resting => new.window = a.window
  BY <1>1, <1>3, MoveOn DEF RateInv
<1> HIDE DEF a, k, n
<1>5. tried[k] <= counters[k] /\ k \in DOMAIN tried
  BY <1>1 DEF RateInv, CountersKnow, k, RateTypes
<1>6. RateTypes'
  BY <1>1, <1>2, <1>3, <1>4, <1>5 DEF RateInv, RateTypes
<1>7. InTime'
  BY <1>1, <1>2, <1>4 DEF RateInv, RateTypes, InTime
<1>8. CountersKnow'
  BY <1>1, <1>2, <1>3, <1>5, RateLimitAssumption DEF RateInv, RateTypes, CountersKnow, RateLimitAssumption
<1>9. BudgetsHold'
  BY <1>1, <1>2, <1>3, <1>5 DEF RateInv, RateTypes, BudgetsHold, RateLimitAssumption
<1> QED
  BY <1>6, <1>7, <1>8, <1>9 DEF RateInv

\* A session that begins counts against its member.
LEMMA SessionStep ==
    ASSUME RateLimitAssumption, RateInv, NEW r \in Attempts, ConsumeSession(r)
    PROVE  RateInv'
<1> DEFINE a == attempt[r]
           k == <<a.member, a.window>>
           n == Counted(r, a.member)
<1>1. /\ a \in RateAttempt /\ k \in Reviewers \X Windows /\ k \in DOMAIN counters
      /\ n = counters[k] + 1 /\ n \in Nat /\ a.window >= window - MaxAge /\ a # Resting
  BY CountOne DEF ConsumeSession, RateInv, RateTypes, RateAttempt, InTime
<1>2. counters' = [counters EXCEPT ![k] = n] /\ UNCHANGED <<window, tried>>
  BY DEF ConsumeSession
<1>3. /\ Goes(r, "reset") \/ Ends(r)
      /\ \/ n <= Limit /\ begun' = [begun EXCEPT ![k] = @ + 1]
         \/ UNCHANGED begun
  BY DEF ConsumeSession
<1>4. PICK new \in RateAttempt \cup {Resting} :
            /\ attempt' = [attempt EXCEPT ![r] = new]
            /\ new # Resting => new.window = a.window
  BY <1>1, <1>3, MoveOn DEF RateInv
<1> HIDE DEF a, k, n
<1>5. begun[k] <= counters[k] /\ k \in DOMAIN begun
  BY <1>1 DEF RateInv, CountersKnow, k, RateTypes
<1>6. RateTypes'
  BY <1>1, <1>2, <1>3, <1>4, <1>5 DEF RateInv, RateTypes
<1>7. InTime'
  BY <1>1, <1>2, <1>4 DEF RateInv, RateTypes, InTime
<1>8. CountersKnow'
  BY <1>1, <1>2, <1>3, <1>5, RateLimitAssumption DEF RateInv, RateTypes, CountersKnow, RateLimitAssumption
<1>9. BudgetsHold'
  BY <1>1, <1>2, <1>3, <1>5 DEF RateInv, RateTypes, BudgetsHold, RateLimitAssumption
<1> QED
  BY <1>6, <1>7, <1>8, <1>9 DEF RateInv

\* A success forgets the client's attempts in both, and no member's sessions.
LEMMA SuccessStep ==
    ASSUME RateLimitAssumption, RateInv, NEW r \in Attempts, Succeed(r)
    PROVE  RateInv'
<1>1. /\ attempt[r].client \in Clients /\ Ends(r) /\ UNCHANGED <<window, begun>>
      /\ counters' = [k \in DOMAIN counters |-> IF k \in Cleared(attempt[r]) THEN 0 ELSE counters[k]]
      /\ tried' = [k \in DOMAIN tried |-> IF k[1] = attempt[r].client THEN 0 ELSE tried[k]]
  BY DEF Succeed, RateInv, RateTypes, RateAttempt
<1>2. RateTypes'
  BY <1>1 DEF RateInv, RateTypes, Ends
<1>3. InTime'
  BY <1>1 DEF RateInv, RateTypes, InTime, Ends
<1>4. CountersKnow'
  BY <1>1 DEF RateInv, RateTypes, CountersKnow, Cleared, RateLimitAssumption
<1>5. BudgetsHold'
  BY <1>1 DEF RateInv, RateTypes, BudgetsHold, RateLimitAssumption
<1> QED
  BY <1>2, <1>3, <1>4, <1>5 DEF RateInv

\* Every step keeps the counters those of the windows they count.
LEMMA RateStep == ASSUME RateLimitAssumption PROVE RateInv /\ [RateNext]_rateVars => RateInv'
<1> SUFFICES ASSUME RateInv, [RateNext]_rateVars PROVE RateInv'
  OBVIOUS
<1>1. ASSUME NEW r \in Attempts, NEW c \in Clients, NEW m \in Reviewers, NEW right \in BOOLEAN,
             Arrive(r, c, m, right)
      PROVE  RateInv'
  <2> DEFINE new == [pc |-> "consume", client |-> c, member |-> m, right |-> right,
                     window |-> window, seen |-> counters[<<c, window>>]]
  <2>1. new \in RateAttempt /\ new.window = window
    BY DEF RateInv, RateTypes, RateAttempt
  <2>2. attempt' = [attempt EXCEPT ![r] = new] /\ UNCHANGED <<counters, window, tried, begun>>
    BY <1>1 DEF Arrive
  <2> HIDE DEF new
  <2> QED
    BY <2>1, <2>2 DEF RateInv, RateTypes, InTime, CountersKnow, BudgetsHold, Windows, RateLimitAssumption
<1>2. ASSUME NEW r \in Attempts, Check(r) PROVE RateInv'
  <2>1. attempt[r] \in RateAttempt /\ UNCHANGED <<counters, window, tried, begun>>
    BY <1>2 DEF Check, RateInv, RateTypes
  <2>2. PICK new \in RateAttempt \cup {Resting} :
            /\ attempt' = [attempt EXCEPT ![r] = new]
            /\ new # Resting => new.window = window
    <3>1. CASE Ends(r)
      BY <3>1 DEF Ends
    <3>2. CASE attempt[r].right
      <4> DEFINE new == [attempt[r] EXCEPT !.pc = "session", !.window = window,
                                           !.seen = counters[<<attempt[r].member, window>>]]
      <4>1. counters[<<attempt[r].member, window>>] \in Int
        BY <2>1 DEF RateInv, RateTypes, RateAttempt
      <4>2. new \in RateAttempt /\ new.window = window
        BY <2>1, <4>1 DEF RateInv, RateTypes, RateAttempt
      <4>3. attempt' = [attempt EXCEPT ![r] = new]
        BY <1>2, <3>2 DEF Check
      <4> QED
        BY <4>2, <4>3
    <3> QED
      BY <1>2, <3>1, <3>2 DEF Check
  <2> QED
    BY <2>1, <2>2 DEF RateInv, RateTypes, InTime, CountersKnow, BudgetsHold, Windows, RateLimitAssumption
<1>3. ASSUME Prune PROVE RateInv'
  BY <1>3 DEF Prune, RateInv, RateTypes, InTime, CountersKnow, BudgetsHold, Windows, RateLimitAssumption
<1>4. ASSUME NextWindow PROVE RateInv'
  BY <1>4 DEF NextWindow, RateInv, RateTypes, RateAttempt, InTime, CountersKnow, BudgetsHold, Windows,
     RateLimitAssumption
<1>5. ASSUME UNCHANGED rateVars PROVE RateInv'
  BY <1>5 DEF rateVars, RateInv, RateTypes, InTime, CountersKnow, BudgetsHold
<1> QED
  BY <1>1, <1>2, <1>3, <1>4, <1>5, ConsumeStep, SessionStep, SuccessStep DEF RateNext

\* No interleaving of sign-ins, no window's end and no pruning lets a client try
\* more keys, or a client member begin more sessions, than the budget of a window.
THEOREM BudgetsAreKept == ASSUME RateLimitAssumption PROVE RateSpec => []BudgetsHold
<1>1. RateInit => RateInv
  BY DEF RateInit, Zero, RateInv, RateTypes, InTime, CountersKnow, BudgetsHold, Windows, RateLimitAssumption
<1>2. RateInv => BudgetsHold
  BY DEF RateInv
<1> QED
  BY <1>1, <1>2, RateStep, PTL DEF RateSpec

-----------------------------------------------------------------------------
(* Test records (TestRecords), for any tests, callers and batches.         *)

\* A row whose status is its outcome's.
TrueRow == {rec \in [outcome : TestOutcomes \cup {"none"}, status : {"passed", "failed", "pending"},
                     evidence : {"missing", "submitted", "due_soon"}] :
               /\ rec.status = "passed" <=> rec.outcome = "success"
               /\ rec.status = "failed" <=> rec.outcome = "failure"}

RowMaps == UNION {[loaded -> TrueRow] : loaded \in SUBSET Tests}
TestItem == [test : Tests, outcome : STRING, evidence : STRING]
Request == [kind : {"single", "batch"}, items : Seq(TestItem), failed : BOOLEAN, added : SUBSET Tests,
            ran : SUBSET Tests, read : RowMaps, set : RowMaps]
OutcomeSets == SUBSET (TestOutcomes \cup {"none"})

\* A request sets the rows it loaded, and other outcomes only where it records an execution.
SetsWhatItLoads(call) ==
    /\ DOMAIN call.set = DOMAIN call.read /\ call.ran \subseteq DOMAIN call.set
    /\ \A t \in DOMAIN call.set : t \notin call.ran => call.set[t].outcome = call.read[t].outcome

\* A row has the outcome a request under way loaded, or one recorded since.
KnowsOutcomes(table, call, since) ==
    \A t \in DOMAIN call.read : table[t].outcome \in {call.read[t].outcome} \cup since[t]

TestsInv ==
    /\ tests \in [Tests -> TrueRow]
    /\ calls \in [Callers -> Request \cup {Idle}]
    /\ standing \in [Tests -> OutcomeSets] /\ missed \in [Callers -> [Tests -> OutcomeSets]]
    /\ \A t \in Tests : tests[t].outcome \in standing[t]
    /\ \A c \in Callers : calls[c] # Idle =>
          SetsWhatItLoads(calls[c]) /\ KnowsOutcomes(tests, calls[c], missed[c])

\* More is map with t's row.
IsWith(more, map, t, rec) ==
    /\ DOMAIN more = DOMAIN map \cup {t}
    /\ \A x \in DOMAIN more : more[x] = IF x = t THEN rec ELSE map[x]

\* A loaded row is as true as the table's, and stays so with one more.
LEMMA AddRow ==
    ASSUME NEW map \in RowMaps, NEW t \in Tests, NEW rec \in TrueRow
    PROVE  With(map, t, rec) \in RowMaps /\ IsWith(With(map, t, rec), map, t, rec)
<1> DEFINE more == With(map, t, rec)
<1>1. PICK loaded \in SUBSET Tests : map \in [loaded -> TrueRow]
  BY DEF RowMaps
<1>2. more = [x \in loaded \cup {t} |-> IF x = t THEN rec ELSE map[x]]
  BY <1>1 DEF With
<1>3. more \in [loaded \cup {t} -> TrueRow]
  BY <1>1, <1>2
<1> QED
  BY <1>1, <1>2, <1>3 DEF RowMaps, IsWith

\* An execution and evidence leave a true row true.
LEMMA TreatedRow ==
    ASSUME NEW rec \in TrueRow, NEW item \in TestItem
    PROVE  /\ Filed(Executed(rec, item.outcome), item) \in TrueRow
           /\ item.outcome \notin TestOutcomes =>
                 Filed(Executed(rec, item.outcome), item).outcome = rec.outcome
<1> DEFINE o == item.outcome
           r == Executed(rec, o)
<1>1. r \in TrueRow /\ (o \notin TestOutcomes => r = rec)
  <2>1. CASE o \in TestOutcomes
    <3> DEFINE s == IF o = "success" THEN "passed" ELSE "failed"
    <3>1. r = [rec EXCEPT !.outcome = o, !.status = s]
      BY <2>1 DEF Executed
    <3>2. r = [outcome |-> o, status |-> s, evidence |-> rec.evidence]
      BY <3>1 DEF TrueRow
    <3> HIDE DEF r
    <3> QED
      BY <2>1, <3>2 DEF TrueRow, TestOutcomes
  <2>2. CASE o \notin TestOutcomes
    BY <2>2 DEF Executed
  <2> QED
    BY <2>1, <2>2
<1> HIDE DEF r
<1>2. CASE Files(item)
  <2> DEFINE f == [r EXCEPT !.evidence = "submitted"]
  <2>1. f = [outcome |-> r.outcome, status |-> r.status, evidence |-> "submitted"]
    BY <1>1 DEF TrueRow
  <2>2. f \in TrueRow /\ f.outcome = r.outcome
    <3> HIDE DEF f
    <3> QED
      BY <1>1, <2>1 DEF TrueRow
  <2>3. Filed(r, item) = f
    BY <1>2 DEF Filed
  <2> HIDE DEF f
  <2> QED
    BY <1>1, <2>2, <2>3 DEF r
<1>3. CASE ~Files(item)
  BY <1>1, <1>3 DEF Filed, r
<1> QED
  BY <1>2, <1>3

\* The columns that differ are a status and its outcome together.
LEMMA WrittenRow ==
    ASSUME NEW rec \in TrueRow, NEW read \in TrueRow, NEW set \in TrueRow
    PROVE  /\ Written(rec, read, set) \in TrueRow
           /\ Written(rec, read, set).outcome =
                 IF set.outcome # read.outcome THEN set.outcome ELSE rec.outcome
<1> DEFINE w == Written(rec, read, set)
<1>1. DOMAIN rec = {"outcome", "status", "evidence"}
  BY DEF TrueRow
<1>2. w = [outcome |-> w.outcome, status |-> w.status, evidence |-> w.evidence]
  BY <1>1 DEF Written
<1>3. /\ w.outcome = IF set.outcome # read.outcome THEN set.outcome ELSE rec.outcome
      /\ w.status = IF set.status # read.status THEN set.status ELSE rec.status
      /\ w.evidence = IF set.evidence # read.evidence THEN set.evidence ELSE rec.evidence
  BY <1>1 DEF Written
<1> HIDE DEF w
<1> QED
  BY <1>2, <1>3 DEF TrueRow, TestOutcomes, w

\* An item of a batch sets true rows only, and another outcome only by executing.
LEMMA ItemStep == ASSUME TestsInv, NEW c \in Callers, Item(c) PROVE TestsInv'
<1> DEFINE call == calls[c]
           item == Head(call.items)
           u == item.test
           read == IF u \in DOMAIN call.read THEN call.read[u] ELSE tests[u]
           rec == IF u \in DOMAIN call.set THEN call.set[u] ELSE read
           filed == Filed(Executed(rec, item.outcome), item)
           failed == call.failed \/ ~Accepts(item)
           added == IF Files(item) THEN call.added \cup {u} ELSE call.added
           runs == IF item.outcome \in TestOutcomes THEN call.ran \cup {u} ELSE call.ran
           reads == With(call.read, u, read)
           sets == With(call.set, u, filed)
           new == Treated(call)
<1>1. /\ call \in Request /\ call.items # <<>> /\ calls' = [calls EXCEPT ![c] = new]
      /\ UNCHANGED <<tests, standing, missed>>
      /\ SetsWhatItLoads(call) /\ KnowsOutcomes(tests, call, missed[c])
  BY DEF Item, TestsInv
<1>2. item \in TestItem /\ Tail(call.items) \in Seq(TestItem)
  BY <1>1, HeadTailProperties DEF Request
<1>3. read \in TrueRow /\ rec \in TrueRow
  BY <1>1, <1>2 DEF Request, TestItem, RowMaps, TestsInv
<1>4. filed \in TrueRow /\ (item.outcome \notin TestOutcomes => filed.outcome = rec.outcome)
  BY <1>2, <1>3, TreatedRow
<1>5. new = Call(call.kind, Tail(call.items), failed, added, runs, reads, sets)
  BY DEF Treated
<1>6. failed \in BOOLEAN /\ added \in SUBSET Tests /\ runs \in SUBSET Tests
  BY <1>1, <1>2 DEF Request, TestItem
<1>7. call.read \in RowMaps /\ call.set \in RowMaps /\ u \in Tests
  BY <1>1, <1>2 DEF Request, TestItem
<1>8. /\ rec.outcome = read.outcome \/ u \in call.ran
      /\ tests[u].outcome \in {read.outcome} \cup missed[c][u]
  <2>1. CASE u \in DOMAIN call.read
    <3>1. u \in DOMAIN call.set /\ read = call.read[u] /\ rec = call.set[u]
      BY <1>1, <2>1 DEF SetsWhatItLoads
    <3> HIDE DEF read, rec, u, call
    <3> QED
      BY <1>1, <2>1, <3>1 DEF SetsWhatItLoads, KnowsOutcomes
  <2>2. CASE u \notin DOMAIN call.read
    <3>1. u \notin DOMAIN call.set
      BY <1>1, <2>2 DEF SetsWhatItLoads
    <3> QED
      BY <2>2, <3>1
  <2> QED
    BY <2>1, <2>2
<1>9. reads \in RowMaps /\ IsWith(reads, call.read, u, read)
  <2> HIDE DEF call, item, read, u
  <2> QED
    BY <1>3, <1>7, AddRow
<1>10. sets \in RowMaps /\ IsWith(sets, call.set, u, filed)
  <2> HIDE DEF call, item, filed, u
  <2> QED
    BY <1>4, <1>7, AddRow
<1>11. /\ DOMAIN sets = DOMAIN reads /\ runs \subseteq DOMAIN sets
       /\ \A t \in DOMAIN sets : t \notin runs => sets[t].outcome = reads[t].outcome
  <2>1. /\ DOMAIN call.set = DOMAIN call.read /\ call.ran \subseteq DOMAIN call.set
        /\ \A t \in DOMAIN call.set : t \notin call.ran => call.set[t].outcome = call.read[t].outcome
    BY <1>1 DEF SetsWhatItLoads
  <2>2. runs = call.ran \cup {u} \/ (runs = call.ran /\ filed.outcome = rec.outcome)
    BY <1>4
  <2> HIDE DEF reads, sets, filed, rec, read, runs, call, item, u
  <2> QED
    <3>1. runs \subseteq DOMAIN sets /\ DOMAIN sets = DOMAIN reads
      BY <2>1, <2>2, <1>9, <1>10 DEF IsWith
    <3>2. ASSUME NEW t \in DOMAIN sets, t \notin runs PROVE sets[t].outcome = reads[t].outcome
      <4>1. CASE t = u
        <5>1. sets[t] = filed /\ reads[t] = read /\ filed.outcome = rec.outcome
          BY <2>2, <3>1, <3>2, <4>1, <1>9, <1>10 DEF IsWith
        <5> QED
          BY <2>2, <3>2, <4>1, <5>1, <1>8
      <4>2. CASE t # u
        <5>1. sets[t] = call.set[t] /\ reads[t] = call.read[t] /\ t \in DOMAIN call.set
          BY <3>1, <3>2, <4>2, <1>9, <1>10 DEF IsWith
        <5> QED
          BY <2>1, <2>2, <3>2, <5>1
      <4> QED
        BY <4>1, <4>2
    <3> QED
      BY <3>1, <3>2
<1>12. \A t \in DOMAIN reads : tests[t].outcome \in {reads[t].outcome} \cup missed[c][t]
  <2>1. \A t \in DOMAIN call.read : tests[t].outcome \in {call.read[t].outcome} \cup missed[c][t]
    BY <1>1 DEF KnowsOutcomes
  <2> HIDE DEF reads, read, call, item, u
  <2> QED
    BY <2>1, <1>8, <1>9 DEF IsWith
<1> HIDE DEF new, filed, rec, read, failed, added, runs, reads, sets
<1>13. /\ new \in Request /\ SetsWhatItLoads(new) /\ KnowsOutcomes(tests, new, missed[c])
  BY <1>1, <1>2, <1>5, <1>6, <1>9, <1>10, <1>11, <1>12 DEF Request, Call, SetsWhatItLoads, KnowsOutcomes
<1> QED
  BY <1>1, <1>13 DEF TestsInv

\* What a call writes back leaves every row true, whatever was written since it
\* read: the outcome it recorded, or one recorded meanwhile.
LEMMA EndStep == ASSUME TestsInv, NEW c \in Callers, EndCall(c) PROVE TestsInv'
<1>1. CASE UNCHANGED <<tests, standing, missed>>
  BY <1>1 DEF EndCall, TestsInv
<1>2. CASE ~UNCHANGED <<tests, standing, missed>>
  <2> DEFINE call == calls[c]
             wrote(t) == Written(tests[t], call.read[t], call.set[t])
  <2>1. /\ call \in Request /\ SetsWhatItLoads(call) /\ KnowsOutcomes(tests, call, missed[c])
        /\ calls' = [calls EXCEPT ![c] = Idle]
        /\ tests' = [t \in Tests |-> IF t \in DOMAIN call.set THEN wrote(t) ELSE tests[t]]
        /\ standing' = [t \in Tests |-> IF t \in call.ran THEN {call.set[t].outcome} \cup missed[c][t]
                                        ELSE standing[t]]
        /\ missed' = [other \in Callers |-> [t \in Tests |->
                         IF other # c /\ t \in call.ran THEN missed[other][t] \cup {call.set[t].outcome}
                         ELSE missed[other][t]]]
    BY <1>2 DEF EndCall, TestsInv
  <2>2. ASSUME NEW t \in DOMAIN call.set
        PROVE  /\ t \in Tests /\ call.read[t] \in TrueRow /\ call.set[t] \in TrueRow
    BY <2>1 DEF Request, RowMaps, SetsWhatItLoads
  <2>3. ASSUME NEW t \in DOMAIN call.set
        PROVE  /\ wrote(t) \in TrueRow
               /\ wrote(t).outcome = IF call.set[t].outcome # call.read[t].outcome
                                     THEN call.set[t].outcome ELSE tests[t].outcome
    BY <2>2, WrittenRow DEF TestsInv
  <2> HIDE DEF wrote
  <2>4. tests' \in [Tests -> TrueRow]
    BY <2>1, <2>3 DEF TestsInv
  <2>5. ASSUME NEW t \in call.ran PROVE call.set[t].outcome \in TestOutcomes \cup {"none"}
    BY <2>1, <2>2 DEF SetsWhatItLoads, TrueRow
  <2>6. standing' \in [Tests -> OutcomeSets]
    <3>1. ASSUME NEW t \in call.ran, t \in Tests
          PROVE  {call.set[t].outcome} \cup missed[c][t] \in OutcomeSets
      BY <2>5, <3>1 DEF TestsInv, OutcomeSets
    <3> HIDE DEF call
    <3> QED
      BY <2>1, <3>1 DEF TestsInv
  <2>7. missed' \in [Callers -> [Tests -> OutcomeSets]]
    <3>1. ASSUME NEW t \in call.ran, t \in Tests, NEW other \in Callers
          PROVE  missed[other][t] \cup {call.set[t].outcome} \in OutcomeSets
      BY <2>5, <3>1 DEF TestsInv, OutcomeSets
    <3> HIDE DEF call
    <3> QED
      BY <2>1, <3>1 DEF TestsInv
  <2>8. ASSUME NEW t \in Tests, t \notin call.ran PROVE tests'[t].outcome = tests[t].outcome
    BY <2>1, <2>3, <2>8 DEF SetsWhatItLoads
  <2>9. ASSUME NEW t \in Tests PROVE tests'[t].outcome \in standing'[t]
    <3>1. CASE t \in call.ran
      <4>1. t \in DOMAIN call.set /\ t \in DOMAIN call.read
        BY <2>1, <3>1 DEF SetsWhatItLoads
      <4>2. tests[t].outcome \in {call.read[t].outcome} \cup missed[c][t]
        BY <2>1, <4>1 DEF KnowsOutcomes
      <4>3. tests'[t].outcome \in {call.set[t].outcome} \cup missed[c][t]
        BY <2>1, <2>3, <4>1, <4>2
      <4> QED
        BY <2>1, <3>1, <4>3
    <3>2. CASE t \notin call.ran
      BY <2>1, <2>8, <3>2 DEF TestsInv
    <3> QED
      BY <3>1, <3>2
  <2>10. ASSUME NEW other \in Callers, calls'[other] # Idle
         PROVE  SetsWhatItLoads(calls'[other]) /\ KnowsOutcomes(tests', calls'[other], missed'[other])
    <3>1. other # c /\ calls'[other] = calls[other] /\ calls[other] # Idle
      BY <2>1, <2>10 DEF TestsInv
    <3>2. /\ SetsWhatItLoads(calls[other]) /\ KnowsOutcomes(tests, calls[other], missed[other])
          /\ DOMAIN calls[other].read \subseteq Tests
      BY <3>1 DEF TestsInv, Request, RowMaps
    <3>3. ASSUME NEW t \in DOMAIN calls[other].read
          PROVE  tests'[t].outcome \in {calls[other].read[t].outcome} \cup missed'[other][t]
      <4>1. t \in Tests /\ tests[t].outcome \in {calls[other].read[t].outcome} \cup missed[other][t]
        BY <3>2 DEF KnowsOutcomes
      <4>2. CASE t \in call.ran
        <5>1. t \in DOMAIN call.set
          BY <2>1, <4>2 DEF SetsWhatItLoads
        <5>2. tests'[t].outcome \in {call.set[t].outcome, tests[t].outcome}
          BY <2>1, <2>3, <4>1, <5>1
        <5>3. missed'[other][t] = missed[other][t] \cup {call.set[t].outcome}
          BY <2>1, <3>1, <4>1, <4>2
        <5> QED
          BY <4>1, <5>2, <5>3
      <4>3. CASE t \notin call.ran
        BY <2>1, <2>8, <3>1, <4>1, <4>3
      <4> QED
        BY <4>2, <4>3
    <3> QED
      BY <3>1, <3>2, <3>3 DEF KnowsOutcomes
  <2>11. calls' \in [Callers -> Request \cup {Idle}]
    BY <2>1 DEF TestsInv
  <2> QED
    BY <2>4, <2>6, <2>7, <2>9, <2>10, <2>11 DEF TestsInv
<1> QED
  BY <1>1, <1>2

\* Every step leaves the rows, and those a call holds, true.
LEMMA TestsStep == ASSUME TestRecordsAssumption PROVE TestsInv /\ [TestsNext]_testVars => TestsInv'
<1> SUFFICES ASSUME TestsInv, [TestsNext]_testVars PROVE TestsInv'
  OBVIOUS
<1>1. ASSUME NEW c \in Callers, NEW kind \in {"single", "batch"}, NEW items \in Bodies,
             BeginCall(c, kind, items)
      PROVE  TestsInv'
  <2> DEFINE new == Call(kind, items, FALSE, {}, {}, << >>, << >>)
             none == [t \in Tests |-> {}]
  <2>1. << >> \in RowMaps
    <3>1. << >> \in [{} -> TrueRow]
      OBVIOUS
    <3> QED
      BY <3>1 DEF RowMaps
  <2>2. new \in Request /\ SetsWhatItLoads(new) /\ DOMAIN new.read = {}
    <3>1. items \in Seq(TestItem) /\ {} \in SUBSET Tests /\ FALSE \in BOOLEAN
      BY DEF TestRecordsAssumption, TestItem
    <3> QED
      BY <2>1, <3>1 DEF Request, Call, SetsWhatItLoads
  <2>3. /\ calls' = [calls EXCEPT ![c] = new] /\ missed' = [missed EXCEPT ![c] = none]
        /\ UNCHANGED <<tests, standing>>
    BY <1>1 DEF BeginCall
  <2>4. none \in [Tests -> OutcomeSets]
    BY DEF OutcomeSets
  <2> HIDE DEF new, none
  <2>5. missed' \in [Callers -> [Tests -> OutcomeSets]] /\ calls' \in [Callers -> Request \cup {Idle}]
    BY <2>2, <2>3, <2>4 DEF TestsInv
  <2>6. KnowsOutcomes(tests', new, missed'[c])
    BY <2>2 DEF KnowsOutcomes
  <2>7. ASSUME NEW other \in Callers, calls'[other] # Idle
        PROVE  SetsWhatItLoads(calls'[other]) /\ KnowsOutcomes(tests', calls'[other], missed'[other])
    BY <2>2, <2>3, <2>6, <2>7 DEF TestsInv
  <2> QED
    BY <2>3, <2>5, <2>7 DEF TestsInv
<1>2. ASSUME NEW t \in Tests, NEW evidence \in {"missing", "submitted", "due_soon"},
             UNCHANGED <<calls, standing, missed>>, tests' = [tests EXCEPT ![t].evidence = evidence]
      PROVE  TestsInv'
  <2> DEFINE new == [tests[t] EXCEPT !.evidence = evidence]
  <2>1. new = [outcome |-> tests[t].outcome, status |-> tests[t].status, evidence |-> evidence]
    BY DEF TestsInv, TrueRow
  <2>2. new \in TrueRow /\ new.outcome = tests[t].outcome
    BY <2>1 DEF TestsInv, TrueRow
  <2>3. tests' = [tests EXCEPT ![t] = new]
    BY <1>2
  <2> HIDE DEF new
  <2>4. tests' \in [Tests -> TrueRow] /\ \A u \in Tests : tests'[u].outcome = tests[u].outcome
    BY <2>2, <2>3 DEF TestsInv
  <2>5. ASSUME NEW c \in Callers, calls[c] # Idle PROVE KnowsOutcomes(tests', calls[c], missed[c])
    <3>1. KnowsOutcomes(tests, calls[c], missed[c]) /\ DOMAIN calls[c].read \subseteq Tests
      BY <2>5 DEF TestsInv, Request, RowMaps
    <3> QED
      BY <2>4, <3>1 DEF KnowsOutcomes
  <2> QED
    BY <1>2, <2>4, <2>5 DEF TestsInv
<1>3. ASSUME NEW t \in Tests, Upload(t) PROVE TestsInv'
  BY <1>2, <1>3 DEF Upload
<1>4. ASSUME NEW t \in Tests, NEW evidence \in {tests[t].evidence, "due_soon"}, Edit(t, evidence)
      PROVE  TestsInv'
  <2>1. evidence \in {"missing", "submitted", "due_soon"}
    BY DEF TestsInv, TrueRow
  <2> QED
    BY <1>2, <1>4, <2>1 DEF Edit
<1>5. ASSUME NEW t \in Tests, AddEvidence(t) \/ DeleteEvidence(t) PROVE TestsInv'
  BY <1>5 DEF AddEvidence, DeleteEvidence, TestsInv
<1>6. ASSUME UNCHANGED testVars PROVE TestsInv'
  BY <1>6 DEF testVars, TestsInv
<1> QED
  BY <1>1, <1>3, <1>4, <1>5, <1>6, ItemStep, EndStep DEF TestsNext

\* Whatever requests overlap on a row, whatever items of a batch are refused and
\* whatever else edits it, a test's status is that of the outcome it shows, and
\* that outcome is its last execution's or one recorded during that one's request.
THEOREM StatusIsTrue == ASSUME TestRecordsAssumption PROVE TestsSpec => []StatusIsOutcome
<1>1. TestsInit => TestsInv
  BY DEF TestsInit, TestsInv, TrueRow, TestRow, TestOutcomes, OutcomeSets
<1>2. TestsInv => StatusIsOutcome
  BY DEF TestsInv, TrueRow, TestOutcomes, StatusIsOutcome
<1> QED
  BY <1>1, <1>2, TestsStep, PTL DEF TestsSpec

-----------------------------------------------------------------------------
(* Collectors' credentials (Collectors), for any administrators, secrets   *)
(* and keyrings.                                                           *)

CollectorsInv ==
    /\ row = [mode |-> row.mode, secret |-> row.secret, status |-> row.status, passed |-> row.passed]
    /\ saves = [a \in Admins |-> saves[a]]

\* Two columns of a row are set.
LEMMA ColumnsSet ==
    ASSUME NEW r, NEW m, NEW x, NEW new, new = [r EXCEPT !.mode = m, !.secret = x],
           r = [mode |-> r.mode, secret |-> r.secret, status |-> r.status, passed |-> r.passed]
    PROVE  new = [mode |-> m, secret |-> x, status |-> r.status, passed |-> r.passed]
  OBVIOUS

\* What a save writes of the secret: nothing, none in a mode without one, or
\* what it was given.
LEMMA SecretWritten ==
    ASSUME NEW s, NEW x,
           x = IF Gives(s) \/ SecretOf(s) # s.read.secret THEN SecretOf(s) ELSE row.secret,
           x # row.secret
    PROVE  IF s.mode \in Keyless THEN x = None
           ELSE s.secret # None /\ x.value = s.secret.value /\ x.fields = s.secret.fields
<1>1. CASE Gives(s)
  <2>1. s.mode \notin Keyless /\ s.secret # None
    BY <1>1 DEF Gives, Keyless, Keyed
  <2>2. x = Encrypted(s)
    BY <1>1, <2>1 DEF SecretOf, Gives
  <2> QED
    BY <2>1, <2>2 DEF Encrypted
<1>2. CASE ~Gives(s)
  <2>1. x = SecretOf(s) /\ SecretOf(s) # s.read.secret
    BY <1>2
  <2> QED
    BY <1>2, <2>1 DEF SecretOf, Gives
<1> QED
  BY <1>1, <1>2

\* A commit changes the secret to what it gives, or to none in a mode without,
\* and the mode to the one it posts where that is not the one it read.
LEMMA CommitStep ==
    ASSUME CollectorsInv, NEW a \in Admins, CommitSave(a)
    PROVE  CollectorsInv' /\ CredentialsStand
<1> DEFINE s == saves[a]
           m == IF s.mode # s.read.mode THEN s.mode ELSE row.mode
           x == IF Gives(s) \/ SecretOf(s) # s.read.secret THEN SecretOf(s) ELSE row.secret
<1>1. /\ s # None /\ saves' = [saves EXCEPT ![a] = None]
      /\ row' = row \/ row' = ChangedColumns(s)
  BY DEF CommitSave
<1>2. saves'[a] = None /\ saves' = [b \in Admins |-> saves'[b]]
  BY <1>1 DEF CollectorsInv
<1>3. CASE row' = row
  BY <1>2, <1>3 DEF CollectorsInv, CredentialsStand, SecretStands, ModeStands
<1>4. CASE row' = ChangedColumns(s)
  <2>1. row' = [row EXCEPT !.mode = m, !.secret = x]
    BY <1>4 DEF ChangedColumns
  <2> HIDE DEF m, x
  <2>2. row' = [mode |-> m, secret |-> x, status |-> row.status, passed |-> row.passed]
    BY <2>1, ColumnsSet DEF CollectorsInv
  <2>3. row'.mode = m /\ row'.secret = x /\ CollectorsInv'
    BY <1>2, <2>2 DEF CollectorsInv
  <2>4. SecretStands
    <3>1. x # row.secret => IF s.mode \in Keyless THEN x = None
                            ELSE s.secret # None /\ x.value = s.secret.value /\ x.fields = s.secret.fields
      BY SecretWritten DEF x
    <3> QED
      BY <1>1, <1>2, <2>3, <3>1 DEF SecretStands
  <2>5. ModeStands
    BY <1>1, <1>2, <2>3 DEF ModeStands, m
  <2> QED
    BY <2>3, <2>4, <2>5 DEF CredentialsStand
<1> QED
  BY <1>1, <1>3, <1>4

\* No step but a commit writes the mode or the credentials.
LEMMA CollectorsStep ==
    CollectorsInv /\ [CollectorsNext]_collectorVars => CollectorsInv' /\ CredentialsStand
<1> SUFFICES ASSUME CollectorsInv, [CollectorsNext]_collectorVars PROVE CollectorsInv' /\ CredentialsStand
  OBVIOUS
<1> USE DEF CollectorsInv, CredentialsStand, SecretStands, ModeStands
<1>1. ASSUME NEW a \in Admins, NEW mode, NEW secret, NEW via, BeginSave(a, via, mode, secret)
      PROVE  CollectorsInv' /\ CredentialsStand
  BY <1>1 DEF BeginSave
<1>2. ASSUME NEW process, NEW given, Rekey(process, given) PROVE CollectorsInv' /\ CredentialsStand
  BY <1>2 DEF Rekey
<1>3. ASSUME NEW iam \in Answers, Probe(iam) PROVE CollectorsInv' /\ CredentialsStand
  <2>1. PICK p : row' = [row EXCEPT !.passed = p]
    BY <1>3 DEF Probe
  <2>2. row' = [mode |-> row.mode, secret |-> row.secret, status |-> row.status, passed |-> p]
    BY <2>1
  <2> QED
    BY <1>3, <2>2 DEF Probe
<1>4. ASSUME StartCollection PROVE CollectorsInv' /\ CredentialsStand
  BY <1>4 DEF StartCollection
<1>5. ASSUME ResolveRun PROVE CollectorsInv' /\ CredentialsStand
  BY <1>5 DEF ResolveRun
<1>6. ASSUME NEW results \in Outcomes, EndCollection(results) PROVE CollectorsInv' /\ CredentialsStand
  <2>1. row' = [mode |-> row.mode, secret |-> row.secret, status |-> Status(results), passed |-> row.passed]
    BY <1>6 DEF EndCollection
  <2> QED
    BY <1>6, <2>1 DEF EndCollection
<1>7. ASSUME UNCHANGED collectorVars PROVE CollectorsInv' /\ CredentialsStand
  BY <1>7 DEF collectorVars
<1> HIDE DEF CollectorsInv, CredentialsStand
<1> QED
  BY <1>1, <1>2, <1>3, <1>4, <1>5, <1>6, <1>7, CommitStep DEF CollectorsNext

\* Whatever administrators save at the same time and whatever keys processes
\* have, no save takes back the credentials or the mode that another stored
\* after the first read the row, and stored credentials are one save's.
THEOREM CredentialsAreKept == CollectorsSpec => [][CredentialsStand]_collectorVars
<1>1. CollectorsInit => CollectorsInv
  BY DEF CollectorsInit, CollectorsInv
<1>2. CollectorsInv /\ [CollectorsNext]_collectorVars => CollectorsInv' /\ CredentialsStand
  BY CollectorsStep
<1> QED
  BY <1>1, <1>2, PTL DEF CollectorsSpec

-----------------------------------------------------------------------------
(* PermissionProbe, for any required actions, account and policies.        *)

Verdicts == {"pass", "fail", "error", "skipped"}

ProbeRows ==
    [session : {"works", "fails", "none"}, todo : SUBSET Required,
     trying : [action : Required \cup {Nothing}, call : DOMAIN Probes \cup {Nothing}],
     results : [Required -> Verdicts], exercised : SUBSET Required, empty : SUBSET Required, quiet : BOOLEAN]

\* What is tried has been found, or is tried in place of what was not.
TryingTrue ==
    LET a == probe.trying.action
        c == probe.trying.call
    IN a # Nothing => /\ a \in probe.todo \cap WithProbe /\ Probes[a].lists # Nothing
                   /\ \/ c = a /\ (probe.quiet => Probes[a].kind \in account.has)
                      \/ c = Probes[a].otherwise /\ c # Nothing /\ a \in probe.empty

\* What has been settled is settled rightly.
SettledTrue ==
    /\ probe.session # "works" => probe.todo = {}
    /\ \A a \in Required : a \in probe.todo => probe.results[a] = "skipped"
    /\ \A a \in Required \ WithProbe : probe.results[a] = "skipped"
    /\ \A a \in WithProbe : probe.results[a] = "pass" => a \in probe.exercised \cup probe.empty
    /\ probe.quiet /\ probe.session = "works" =>
          \A a \in WithProbe \ probe.todo :
              /\ Uses(a) \subseteq allowed => probe.results[a] = "pass"
              /\ a \notin allowed /\ a \notin probe.empty => probe.results[a] = "fail"

ProbeInv == probe # Nothing => probe \in ProbeRows /\ TryingTrue /\ SettledTrue

\* What a probe lists, or calls instead, is an action of the probes.
LEMMA ProbesKnown ==
  ASSUME ProbeAssumption, NEW a \in DOMAIN Probes
  PROVE  /\ Probes[a].lists \in DOMAIN Probes \cup {Nothing}
         /\ Probes[a].otherwise \in DOMAIN Probes \cup {Nothing}
         /\ Probes[a].otherwise # a
         /\ Probes[a].lists = Nothing => Probes[a].otherwise = Nothing
<1>1. DOMAIN Probes =
        {"ListUsers", "ListAllMyBuckets", "ListVirtualMFADevices", "DescribeTrails", "ListRepositories",
         "DescribeDBInstances", "GetAccountPasswordPolicy", "ListMFADevices", "ListAccessKeys",
         "GetBucketVersioning", "GetEncryptionConfiguration", "GetBucketPublicAccessBlock", "GetTrailStatus",
         "GetRepository", "GetBranch", "GetCommit"}
  BY DEF Probes
<1>2. PICK k, l, o, m : Probes[a] = On(k, l, o, m)
          /\ \/ l = Nothing /\ o = Nothing
             \/ l = "ListUsers" /\ o = "ListVirtualMFADevices" /\ a # o
             \/ l = "ListUsers" /\ o = "ListUsers" /\ a # o
             \/ l \in {"ListAllMyBuckets", "DescribeTrails", "ListRepositories"} /\ o = Nothing
  <2>1. CASE a = "ListUsers"
    <3>1. Probes[a] = On(Nothing, Nothing, Nothing, FALSE)
      BY <2>1 DEF Probes, Directly
    <3> QED
      BY <2>1, <3>1
  <2>2. CASE a = "ListAllMyBuckets"
    <3>1. Probes[a] = On(Nothing, Nothing, Nothing, FALSE)
      BY <2>2 DEF Probes, Directly
    <3> QED
      BY <2>2, <3>1
  <2>3. CASE a = "ListVirtualMFADevices"
    <3>1. Probes[a] = On(Nothing, Nothing, Nothing, FALSE)
      BY <2>3 DEF Probes, Directly
    <3> QED
      BY <2>3, <3>1
  <2>4. CASE a = "DescribeTrails"
    <3>1. Probes[a] = On(Nothing, Nothing, Nothing, FALSE)
      BY <2>4 DEF Probes, Directly
    <3> QED
      BY <2>4, <3>1
  <2>5. CASE a = "ListRepositories"
    <3>1. Probes[a] = On(Nothing, Nothing, Nothing, FALSE)
      BY <2>5 DEF Probes, Directly
    <3> QED
      BY <2>5, <3>1
  <2>6. CASE a = "DescribeDBInstances"
    <3>1. Probes[a] = On(Nothing, Nothing, Nothing, FALSE)
      BY <2>6 DEF Probes, Directly
    <3> QED
      BY <2>6, <3>1
  <2>7. CASE a = "GetAccountPasswordPolicy"
    <3>1. Probes[a] = On(Nothing, Nothing, Nothing, TRUE)
      BY <2>7 DEF Probes
    <3> QED
      BY <2>7, <3>1
  <2>8. CASE a = "ListMFADevices"
    <3>1. Probes[a] = On("user", "ListUsers", "ListVirtualMFADevices", FALSE)
      BY <2>8 DEF Probes
    <3>2. a # "ListVirtualMFADevices"
      BY <2>8
    <3> QED
      BY <3>1, <3>2
  <2>9. CASE a = "ListAccessKeys"
    <3>1. Probes[a] = On("user", "ListUsers", "ListUsers", FALSE)
      BY <2>9 DEF Probes
    <3>2. a # "ListUsers"
      BY <2>9
    <3> QED
      BY <3>1, <3>2
  <2>10. CASE a = "GetBucketVersioning"
    <3>1. Probes[a] = On("bucket", "ListAllMyBuckets", Nothing, FALSE)
      BY <2>10 DEF Probes
    <3> QED
      BY <2>10, <3>1
  <2>11. CASE a = "GetEncryptionConfiguration"
    <3>1. Probes[a] = On("bucket", "ListAllMyBuckets", Nothing, TRUE)
      BY <2>11 DEF Probes
    <3> QED
      BY <2>11, <3>1
  <2>12. CASE a = "GetBucketPublicAccessBlock"
    <3>1. Probes[a] = On("bucket", "ListAllMyBuckets", Nothing, TRUE)
      BY <2>12 DEF Probes
    <3> QED
      BY <2>12, <3>1
  <2>13. CASE a = "GetTrailStatus"
    <3>1. Probes[a] = On("trail", "DescribeTrails", Nothing, FALSE)
      BY <2>13 DEF Probes
    <3> QED
      BY <2>13, <3>1
  <2>14. CASE a = "GetRepository"
    <3>1. Probes[a] = On("repository", "ListRepositories", Nothing, FALSE)
      BY <2>14 DEF Probes
    <3> QED
      BY <2>14, <3>1
  <2>15. CASE a = "GetBranch"
    <3>1. Probes[a] = On("repository", "ListRepositories", Nothing, TRUE)
      BY <2>15 DEF Probes
    <3> QED
      BY <2>15, <3>1
  <2>16. CASE a = "GetCommit"
    <3>1. Probes[a] = On("repository", "ListRepositories", Nothing, TRUE)
      BY <2>16 DEF Probes
    <3> QED
      BY <2>16, <3>1
  <2> QED
    BY <1>1, <2>1, <2>2, <2>3, <2>4, <2>5, <2>6, <2>7, <2>8, <2>9, <2>10, <2>11, <2>12, <2>13, <2>14, <2>15, <2>16
<1>3. Probes[a].lists = l /\ Probes[a].otherwise = o
  BY <1>2 DEF On
<1> QED
  BY <1>1, <1>2, <1>3 DEF ProbeAssumption

\* How an action may be settled: with what was tried and what was not there.
Rightly(a, result, exercised, empty, quiet) ==
    /\ result \in Verdicts /\ exercised \in SUBSET Required /\ empty \in SUBSET Required /\ quiet \in BOOLEAN
    /\ probe.exercised \subseteq exercised /\ probe.empty \subseteq empty /\ empty \subseteq probe.empty \cup {a}
    /\ a \notin WithProbe => result = "skipped"
    /\ a \in WithProbe /\ result = "pass" => a \in exercised \cup empty
    /\ quiet => /\ probe.quiet /\ allowed' = allowed
                /\ a \in WithProbe => /\ Uses(a) \subseteq allowed => result = "pass"
                                      /\ a \notin allowed /\ a \notin empty => result = "fail"

Leaves(a, result, exercised, empty, quiet) ==
    probe' = [probe EXCEPT !.results[a] = result, !.todo = probe.todo \ {a}, !.trying = NothingTried,
                !.exercised = exercised, !.empty = empty, !.quiet = quiet]

\* One action is settled, as it must be, and nothing is tried any more.
LEMMA Settled ==
  ASSUME ProbeInv, probe # Nothing, NEW a \in probe.todo, NEW result, NEW exercised, NEW empty, NEW quiet,
         Leaves(a, result, exercised, empty, quiet), Rightly(a, result, exercised, empty, quiet)
  PROVE  ProbeInv'
<1> USE DEF Leaves, Rightly
<1>1. probe \in ProbeRows /\ SettledTrue
  BY DEF ProbeInv
<1>2. probe' \in ProbeRows
  <2>1. probe.results \in [Required -> Verdicts] /\ probe.todo \in SUBSET Required
    BY <1>1 DEF ProbeRows
  <2>2. [probe.results EXCEPT ![a] = result] \in [Required -> Verdicts]
    BY <2>1
  <2>3. NothingTried \in [action : Required \cup {Nothing}, call : DOMAIN Probes \cup {Nothing}]
    BY DEF NothingTried
  <2> QED
    BY <1>1, <2>1, <2>2, <2>3 DEF ProbeRows
<1>3. /\ probe'.todo = probe.todo \ {a} /\ probe'.trying = NothingTried /\ probe'.session = probe.session
      /\ probe'.exercised = exercised /\ probe'.empty = empty /\ probe'.quiet = quiet
      /\ probe'.results = [probe.results EXCEPT ![a] = result]
  BY <1>1 DEF ProbeRows
<1>4. probe'.results[a] = result /\ \A b \in Required \ {a} : probe'.results[b] = probe.results[b]
  BY <1>1, <1>3 DEF ProbeRows
<1>5. a \in Required /\ WithProbe \subseteq Required
  BY <1>1 DEF ProbeRows, WithProbe
<1>6. TryingTrue'
  BY <1>3 DEF TryingTrue, NothingTried
<1>7. SettledTrue'
  <2>1. (probe.session # "works" => probe.todo = {})'
    BY <1>1, <1>3 DEF SettledTrue
  <2>2. \A b \in Required : b \in probe'.todo => probe'.results[b] = "skipped"
    BY <1>1, <1>3, <1>4 DEF SettledTrue
  <2>3. \A b \in Required \ WithProbe : probe'.results[b] = "skipped"
    BY <1>1, <1>4 DEF SettledTrue
  <2>4. \A b \in WithProbe : probe'.results[b] = "pass" => b \in probe'.exercised \cup probe'.empty
    BY <1>1, <1>3, <1>4, <1>5 DEF SettledTrue
  <2>5. ASSUME probe'.quiet, probe'.session = "works", NEW b \in WithProbe \ probe'.todo
        PROVE  /\ Uses(b) \subseteq allowed' => probe'.results[b] = "pass"
               /\ b \notin allowed' /\ b \notin probe'.empty => probe'.results[b] = "fail"
    <3>1. CASE b = a
      BY <1>3, <1>4, <2>5, <3>1
    <3>2. CASE b # a
      BY <1>1, <1>3, <1>4, <1>5, <2>5, <3>2 DEF SettledTrue
    <3> QED
      BY <3>1, <3>2
  <2> QED
    BY <2>1, <2>2, <2>3, <2>4, <2>5 DEF SettledTrue
<1> QED
  BY <1>2, <1>6, <1>7 DEF ProbeInv

\* The account changes, or a call fails by chance: what follows is not quiet.
LEMMA ChangeStep == ASSUME ProbeInv, AccountChanges PROVE ProbeInv'
<1>1. probe \in ProbeRows /\ TryingTrue /\ SettledTrue /\ probe' = [probe EXCEPT !.quiet = FALSE]
  BY DEF ProbeInv, AccountChanges
<1>2. probe' \in ProbeRows
  BY <1>1 DEF ProbeRows
<1>3. /\ probe'.todo = probe.todo /\ probe'.trying = probe.trying /\ probe'.session = probe.session
      /\ probe'.exercised = probe.exercised /\ probe'.empty = probe.empty /\ probe'.quiet = FALSE
      /\ probe'.results = probe.results
  BY <1>1 DEF ProbeRows
<1>4. TryingTrue'
  BY <1>1, <1>3 DEF TryingTrue
<1>5. SettledTrue'
  BY <1>1, <1>3 DEF SettledTrue
<1> QED
  BY <1>2, <1>4, <1>5 DEF ProbeInv

\* Nothing is settled when a probe begins; without a session all is skipped.
LEMMA BeginStep == ASSUME NEW session \in {"works", "fails", "none"}, Begin(session) PROVE ProbeInv'
<1>1. probe' = [session |-> session, todo |-> IF session = "works" THEN Required ELSE {}, trying |-> NothingTried,
                results |-> [a \in Required |-> "skipped"], exercised |-> {}, empty |-> {}, quiet |-> TRUE]
  BY DEF Begin
<1>2. probe' \in ProbeRows
  BY <1>1 DEF ProbeRows, NothingTried, Verdicts
<1>3. TryingTrue'
  BY <1>1 DEF TryingTrue, NothingTried
<1>4. SettledTrue'
  BY <1>1 DEF SettledTrue, WithProbe
<1> QED
  BY <1>2, <1>3, <1>4 DEF ProbeInv

\* The record a settled action leaves.
LEMMA SettleIs ==
  ASSUME probe \in ProbeRows, NEW a, NEW result, probe' = Settle(a, result)
  PROVE  Leaves(a, result, probe.exercised, probe.empty, probe.quiet)
BY DEF Settle, ProbeRows, Leaves

\* An action without a probe is skipped.
LEMMA SkipStep == ASSUME ProbeInv, NEW a \in Required, Skip(a) PROVE ProbeInv'
<1>1. probe # Nothing /\ a \in probe.todo /\ a \notin WithProbe /\ probe' = Settle(a, "skipped") /\ allowed' = allowed
  BY DEF Skip
<1>2. probe \in ProbeRows
  BY <1>1 DEF ProbeInv
<1>3. /\ probe.exercised \in SUBSET Required /\ probe.empty \in SUBSET Required /\ probe.quiet \in BOOLEAN
      /\ "skipped" \in Verdicts
  BY <1>2 DEF ProbeRows, Verdicts
<1>4. Leaves(a, "skipped", probe.exercised, probe.empty, probe.quiet)
  BY <1>1, <1>2, SettleIs
<1>5. Rightly(a, "skipped", probe.exercised, probe.empty, probe.quiet)
  BY <1>1, <1>3 DEF Rightly
<1> QED
  BY <1>1, <1>4, <1>5, Settled

\* A call that fails by chance settles its action with an error.
LEMMA FailStep == ASSUME ProbeInv, NEW a \in WithProbe, CallFails(a) PROVE ProbeInv'
<1>1. /\ probe # Nothing /\ a \in probe.todo /\ allowed' = allowed
      /\ probe' = [Settle(a, "error") EXCEPT !.quiet = FALSE]
  BY DEF CallFails
<1>2. probe \in ProbeRows
  BY <1>1 DEF ProbeInv
<1>3. /\ probe.exercised \in SUBSET Required /\ probe.empty \in SUBSET Required /\ "error" \in Verdicts
  BY <1>2 DEF ProbeRows, Verdicts
<1>4. Leaves(a, "error", probe.exercised, probe.empty, FALSE)
  BY <1>1, <1>2 DEF Settle, ProbeRows, Leaves
<1>5. Rightly(a, "error", probe.exercised, probe.empty, FALSE)
  BY <1>3 DEF Rightly
<1> QED
  BY <1>1, <1>4, <1>5, Settled

\* The call that finds something to try an action on.
LEMMA ListStep ==
  ASSUME ProbeAssumption, ProbeInv, NEW a \in WithProbe, List(a)
  PROVE  ProbeInv'
<1> DEFINE of == Probes[a]
<1>1. /\ probe # Nothing /\ a \in probe.todo /\ of.lists # Nothing /\ UNCHANGED <<account, allowed>>
      /\ probe' = IF of.lists \notin allowed THEN Settle(a, "fail")
                  ELSE IF of.kind \in account.has THEN [probe EXCEPT !.trying = [action |-> a, call |-> a]]
                  ELSE IF of.otherwise = Nothing
                       THEN [Settle(a, "pass") EXCEPT !.empty = probe.empty \cup {a}]
                       ELSE [probe EXCEPT !.trying = [action |-> a, call |-> of.otherwise],
                                          !.empty = probe.empty \cup {a}]
  BY DEF List, Settle, ProbeInv, ProbeRows
<1>2. probe \in ProbeRows /\ TryingTrue /\ SettledTrue
  BY <1>1 DEF ProbeInv
<1>3. /\ probe.exercised \in SUBSET Required /\ probe.empty \in SUBSET Required /\ probe.quiet \in BOOLEAN
      /\ "fail" \in Verdicts /\ "pass" \in Verdicts
  BY <1>2 DEF ProbeRows, Verdicts
<1>4. a \in Required /\ a \in DOMAIN Probes
  BY DEF WithProbe
<1>5. of.otherwise \in DOMAIN Probes \cup {Nothing} /\ of.otherwise # a /\ of.lists \in Uses(a) /\ a # Nothing
  BY <1>1, <1>4, ProbesKnown DEF Uses, ProbeAssumption
<1> HIDE DEF of
<1>6. CASE of.lists \notin allowed
  <2>1. Leaves(a, "fail", probe.exercised, probe.empty, probe.quiet)
    BY <1>1, <1>2, <1>6, SettleIs
  <2>2. Rightly(a, "fail", probe.exercised, probe.empty, probe.quiet)
    BY <1>1, <1>3, <1>5, <1>6 DEF Rightly
  <2> QED
    BY <1>1, <2>1, <2>2, Settled
<1>7. CASE of.lists \in allowed /\ of.kind \notin account.has /\ of.otherwise = Nothing
  <2>1. Leaves(a, "pass", probe.exercised, probe.empty \cup {a}, probe.quiet)
    BY <1>1, <1>2, <1>7 DEF Settle, ProbeRows, Leaves
  <2>2. Rightly(a, "pass", probe.exercised, probe.empty \cup {a}, probe.quiet)
    BY <1>1, <1>3, <1>4 DEF Rightly
  <2> QED
    BY <1>1, <2>1, <2>2, Settled
<1>8. CASE of.lists \in allowed /\ (of.kind \in account.has \/ of.otherwise # Nothing)
  <2>1. PICK c \in DOMAIN Probes, empty \in SUBSET Required :
          /\ probe' = [probe EXCEPT !.trying = [action |-> a, call |-> c], !.empty = empty]
          /\ probe.empty \subseteq empty /\ empty \subseteq probe.empty \cup {a}
          /\ \/ c = a /\ of.kind \in account.has
             \/ c = of.otherwise /\ c # Nothing /\ a \in empty
    <3>1. CASE of.kind \in account.has
      <4>1. probe' = [probe EXCEPT !.trying = [action |-> a, call |-> a], !.empty = probe.empty]
        BY <1>1, <1>2, <1>8, <3>1 DEF ProbeRows
      <4> QED
        BY <1>3, <1>4, <3>1, <4>1
    <3>2. CASE of.kind \notin account.has
      <4>1. probe' = [probe EXCEPT !.trying = [action |-> a, call |-> of.otherwise], !.empty = probe.empty \cup {a}]
        BY <1>1, <1>8, <3>2
      <4>2. probe.empty \cup {a} \in SUBSET Required /\ of.otherwise \in DOMAIN Probes /\ of.otherwise # Nothing
        BY <1>3, <1>4, <1>5, <1>8, <3>2
      <4> QED
        BY <4>1, <4>2
    <3> QED
      BY <3>1, <3>2
  <2>2. probe' \in ProbeRows
    BY <1>2, <1>4, <2>1 DEF ProbeRows
  <2>3. /\ probe'.todo = probe.todo /\ probe'.session = probe.session
        /\ probe'.trying.action = a /\ probe'.trying.call = c
        /\ probe'.exercised = probe.exercised /\ probe'.empty = empty /\ probe'.quiet = probe.quiet
        /\ probe'.results = probe.results
    BY <1>2, <2>1 DEF ProbeRows
  <2>4. TryingTrue'
    BY <1>1, <2>1, <2>3 DEF TryingTrue, of
  <2>5. SettledTrue'
    BY <1>1, <1>2, <2>1, <2>3 DEF SettledTrue
  <2> QED
    BY <2>2, <2>4, <2>5 DEF ProbeInv
<1> QED
  BY <1>6, <1>7, <1>8

\* The call itself: a pass means the permission, or that there was nothing.
LEMMA CallStep ==
  ASSUME ProbeAssumption, ProbeInv, NEW a \in WithProbe, MakeCall(a)
  PROVE  ProbeInv'
<1> DEFINE of == Probes[a]
           call == IF of.lists = Nothing THEN a ELSE probe.trying.call
           gone == call = a /\ of.lists # Nothing /\ of.kind \notin account.has
           result == Verdict(AnswerTo(call, gone))
           exercised == IF call = a /\ a \in allowed THEN probe.exercised \cup {a} ELSE probe.exercised
<1>1. /\ probe # Nothing /\ a \in probe.todo /\ UNCHANGED <<account, allowed>>
      /\ probe.trying.action = IF of.lists = Nothing THEN Nothing ELSE a
  BY DEF MakeCall
<1>2. probe \in ProbeRows /\ TryingTrue /\ SettledTrue
  BY <1>1 DEF ProbeInv
<1>3. Leaves(a, result, exercised, probe.empty, probe.quiet)
  BY <1>2 DEF MakeCall, Settle, ProbeRows, Leaves
<1>4. a \in Required /\ a \in DOMAIN Probes /\ a # Nothing
  BY DEF WithProbe, ProbeAssumption
<1>5. /\ probe.exercised \in SUBSET Required /\ probe.empty \in SUBSET Required /\ probe.quiet \in BOOLEAN
      /\ exercised \in SUBSET Required
  BY <1>2, <1>4 DEF ProbeRows
<1>6. of.otherwise # a /\ (of.otherwise # Nothing => of.otherwise \in Uses(a)) /\ a \in Uses(a)
  BY <1>4, ProbesKnown DEF Uses
<1>7. \/ call = a /\ (probe.quiet => ~gone)
      \/ call = of.otherwise /\ call # Nothing /\ a \in probe.empty
  BY <1>1, <1>2, <1>4 DEF TryingTrue
<1>8. /\ call \notin allowed => result = "fail"
      /\ call \in allowed /\ ~gone => result = "pass"
      /\ call \in allowed /\ gone => result = "error"
  BY DEF Verdict, AnswerTo
<1>9. result \in Verdicts
  BY <1>8 DEF Verdicts
<1>10. result = "pass" => a \in exercised \cup probe.empty
  BY <1>7, <1>8
<1>11. probe.quiet => /\ Uses(a) \subseteq allowed => result = "pass"
                      /\ a \notin allowed /\ a \notin probe.empty => result = "fail"
  BY <1>6, <1>7, <1>8
<1>12. probe.exercised \subseteq exercised
  OBVIOUS
<1> HIDE DEF result, exercised
<1>13. Rightly(a, result, exercised, probe.empty, probe.quiet)
  BY <1>1, <1>5, <1>9, <1>10, <1>11, <1>12 DEF Rightly
<1> QED
  BY <1>1, <1>3, <1>13, Settled

\* The invariant holds from the start and every step keeps it.
LEMMA ProbeStep == ASSUME ProbeAssumption PROVE ProbeInv /\ [ProbeNext]_probeVars => ProbeInv'
<1> SUFFICES ASSUME ProbeInv, [ProbeNext]_probeVars PROVE ProbeInv'
  OBVIOUS
<1>1. ASSUME UNCHANGED probeVars PROVE ProbeInv'
  BY <1>1 DEF probeVars, ProbeInv, TryingTrue, SettledTrue
<1> QED
  BY <1>1, ChangeStep, BeginStep, SkipStep, FailStep, ListStep, CallStep DEF ProbeNext

\* Whatever actions a collector requires, and whatever the account holds, a
\* finished probe's pass means that the action was allowed when it was tried, or
\* that there was nothing to try it on; in an account that stays as it is, every
\* permission there is passes, and one that is missing fails
\* (PermissionProber.probe).
THEOREM PassesArePermissions == ASSUME ProbeAssumption PROVE ProbeSpec => []ProbeTells
<1>1. ProbeInit => ProbeInv
  BY DEF ProbeInit, ProbeInv
<1>2. ProbeInv => ProbeTells
  <2> SUFFICES ASSUME ProbeInv, probe # Nothing, probe.todo = {} PROVE ProbeTells
    BY DEF ProbeTells
  <2>1. SettledTrue
    BY DEF ProbeInv
  <2>2. AllPassed => Required = WithProbe
    <3>1. \A a \in Required \ WithProbe : probe.results[a] # "pass"
      BY <2>1 DEF SettledTrue
    <3> QED
      BY <3>1 DEF AllPassed, WithProbe
  <2> QED
    BY <2>1, <2>2 DEF ProbeTells, SettledTrue
<1> QED
  BY <1>1, <1>2, ProbeStep, PTL DEF ProbeSpec

-----------------------------------------------------------------------------
(* Deployment, for any number of containers, releases and tables.          *)

Places == {"down", "upgrading", "locking", "running", "provisioning", "checking", "serving", "writing"}

DeployTypes ==
    /\ HeadOf \in [Containers -> 1..Newest] /\ revision \in 0..Newest \cup {Unplaced}
    /\ tables \in SUBSET (1..AuditLog)
    /\ procs \in [Containers -> [at : Places, plan : Seq(Nat \ {0}), attempts : Nat, base : Nat]]
    /\ holds \in [Containers -> SUBSET Nat] /\ waits \in [Containers -> Nat]

\* One release is rolled out at a time, on tables its revisions know.
OneRelease ==
    /\ \A c \in Containers : HeadOf[c] <= revision \/ HeadOf[c] = Newest
    /\ tables = TablesAt(IF revision = Unplaced THEN 1 ELSE revision)
    /\ revision = Unplaced => \A c \in Containers : At(c) = "down"

\* A transaction has the first locks of its plan; who waits, waits for another.
Firsts(plan, k) == {plan[i] : i \in 1..k}
Once(plan) == \A i, j \in 1..Len(plan) : plan[i] = plan[j] => i = j

HoldsFirsts ==
    \A c \in Containers : /\ Once(procs[c].plan)
                          /\ \E k \in 0..Len(procs[c].plan) : holds[c] = Firsts(procs[c].plan, k)

Waiters == \A c \in Containers : waits[c] # 0 => At(c) = "writing" /\ waits[c] \notin holds[c]

\* A plan has all that the revisions still to run need.
Planned ==
    \A c \in Containers : At(c) \in {"locking", "running"} /\ revision <= HeadOf[c] =>
        \A r \in Pending(HeadOf[c]) :
            LET locks == Firsts(procs[c].plan, Len(procs[c].plan))
            IN Alters[r] \cap tables \subseteq locks /\ (r \in WritesRows => Chain \in locks)

\* Where a container that has begun is.
UnderWay ==
    \A c \in Containers :
        /\ At(c) \notin {"locking", "running", "writing"} => procs[c].plan = <<>>
        /\ At(c) = "running" => /\ holds[c] = Firsts(procs[c].plan, Len(procs[c].plan))
                                /\ procs[c].base <= revision /\ procs[c].base <= HeadOf[c]
        /\ At(c) \in {"provisioning", "checking", "serving", "writing"} => revision \in HeadOf[c]..Newest
        /\ At(c) \in {"serving", "writing"} => RoleIsSafe

DeployInv == DeployTypes /\ OneRelease /\ HoldsFirsts /\ Waiters /\ Planned /\ UnderWay

-----------------------------------------------------------------------------
(* Locks in order.                                                         *)

\* A set of numbers has a least one.
LEMMA LeastNumber ==
  ASSUME NEW S \in SUBSET Nat, S # {} PROVE \E n \in S : \A m \in S : n <= m
<1>1. PICK n \in S : \A m \in S : ~(<<m, n>> \in OpToRel(<, Nat))
  BY NatLessThanWellFounded, WFMin
<1>2. \A m \in S : ~(m < n)
  BY <1>1, Zenon DEF OpToRel
<1> QED
  BY <1>2

Ascends(p) == \A i, j \in DOMAIN p : i < j => p[i] < p[j]
Ordered(S) == \E p \in [1..Cardinality(S) -> S] : Ascends(p)

\* The least member goes before the others in their order.
LEMMA LeastFirst ==
  ASSUME NEW T \in SUBSET Nat, IsFiniteSet(T), NEW m \in T, \A x \in T : m <= x, Ordered(T \ {m})
  PROVE  Ordered(T)
<1> DEFINE U == T \ {m}
           n == Cardinality(T)
<1>1. IsFiniteSet(U) /\ Cardinality(U) = n - 1 /\ n \in Nat
  BY FS_RemoveElement, FS_CardinalityType
<1>2. PICK q \in [1..(n - 1) -> U] : Ascends(q)
  BY <1>1 DEF Ordered
<1>3. n - 1 \in Nat
  BY <1>1, FS_CardinalityType
<1> HIDE DEF n
<1> DEFINE p == [i \in 1..n |-> IF i = 1 THEN m ELSE q[i - 1]]
<1>4. p \in [1..n -> T]
  BY <1>1, <1>2, <1>3
<1>5. Ascends(p)
  <2> SUFFICES ASSUME NEW i \in 1..n, NEW j \in 1..n, i < j PROVE p[i] < p[j]
    BY DEF Ascends
  <2>1. j - 1 \in 1..(n - 1) /\ i \in Nat /\ j # 1
    BY <1>1, <1>3
  <2>2. p[j] = q[j - 1] /\ q[j - 1] \in U /\ q[j - 1] \in Nat
    BY <1>2, <2>1
  <2>3. CASE i = 1
    <3>1. p[i] = m /\ m <= q[j - 1] /\ m # q[j - 1] /\ m \in Nat
      BY <2>2, <2>3
    <3> QED
      BY <2>2, <3>1
  <2>4. CASE i # 1
    <3>1. i - 1 \in 1..(n - 1) /\ i - 1 < j - 1
      BY <1>3, <2>1, <2>4
    <3>2. p[i] = q[i - 1]
      BY <2>4
    <3>3. q[i - 1] < q[j - 1]
      BY <1>2, <2>1, <3>1 DEF Ascends
    <3> QED
      BY <2>2, <3>2, <3>3
  <2> QED
    BY <2>3, <2>4
<1> QED
  BY <1>4, <1>5 DEF Ordered, n

\* Every finite set of numbers can be put in order.
LEMMA OrderExists ==
  ASSUME NEW S \in SUBSET Nat, IsFiniteSet(S)
  PROVE  Ordered(S)
<1> DEFINE Bad == {n \in Nat : \E T \in SUBSET Nat : IsFiniteSet(T) /\ Cardinality(T) = n /\ ~Ordered(T)}
<1> SUFFICES ASSUME ~Ordered(S) PROVE FALSE
  OBVIOUS
<1>1. Bad # {} /\ Bad \in SUBSET Nat
  BY FS_CardinalityType
<1>2. PICK n \in Bad : \A k \in Bad : n <= k
  BY <1>1, LeastNumber
<1>3. PICK T \in SUBSET Nat : IsFiniteSet(T) /\ Cardinality(T) = n /\ ~Ordered(T)
  OBVIOUS
<1>4. CASE T = {}
  <2>1. Cardinality(T) = 0
    BY <1>4, FS_EmptySet
  <2> DEFINE p == [i \in 1..0 |-> 0]
  <2>2. p \in [1..0 -> {}] /\ Ascends(p)
    BY DEF Ascends
  <2> QED
    BY <1>3, <1>4, <2>1, <2>2 DEF Ordered
<1>5. CASE T # {}
  <2>1. PICK m \in T : \A x \in T : m <= x
    BY <1>5, LeastNumber
  <2>2. IsFiniteSet(T \ {m}) /\ Cardinality(T \ {m}) = n - 1
    BY <1>3, FS_RemoveElement
  <2>3. n - 1 \in Nat
    BY <2>2, FS_CardinalityType
  <2>4. Ordered(T \ {m})
    BY <1>2, <2>2, <2>3
  <2> QED
    BY <1>3, <2>1, <2>4, LeastFirst
<1> QED
  BY <1>4, <1>5

\* The locks of a plan are those to be locked, each once.
LEMMA PlanIs ==
  ASSUME NEW S \in SUBSET (Nat \ {0}), IsFiniteSet(S)
  PROVE  /\ InOrder(S) \in Seq(Nat \ {0}) /\ Once(InOrder(S))
         /\ Firsts(InOrder(S), Len(InOrder(S))) = S
<1> DEFINE p == InOrder(S)
           n == Cardinality(S)
<1>1. p \in [1..n -> S] /\ Ascends(p) /\ n \in Nat
  BY OrderExists, FS_CardinalityType DEF InOrder, Ordered, Ascends
<1> HIDE DEF p, n
<1>2. p \in Seq(Nat \ {0}) /\ Len(p) = n /\ DOMAIN p = 1..n
  <2>1. p \in [1..n -> Nat \ {0}]
    BY <1>1
  <2> QED
    BY <1>1, <2>1, SeqDef, LenProperties
<1>3. \A i, j \in 1..n : p[i] = p[j] => i = j
  BY <1>1, <1>2 DEF Ascends
<1>4. p \in Injection(1..n, S)
  BY <1>1, <1>3 DEF Injection, IsInjective
<1>5. Cardinality(1..n) = n
  BY <1>1, FS_Interval
<1>6. p \in Surjection(1..n, S)
  BY <1>4, <1>5, FS_Injection DEF n
<1>7. Firsts(p, n) = S
  BY <1>1, <1>6 DEF Firsts, Surjection
<1> QED
  BY <1>2, <1>3, <1>7 DEF Once, p

\* The first k locks are k.
LEMMA FirstsCount ==
  ASSUME NEW plan \in Seq(Nat \ {0}), Once(plan), NEW k \in 0..Len(plan)
  PROVE  Cardinality(Firsts(plan, k)) = k
<1> DEFINE f == [i \in 1..k |-> plan[i]]
<1>1. k \in Nat /\ 1..k \subseteq 1..Len(plan)
  OBVIOUS
<1>2. f \in Surjection(1..k, Firsts(plan, k)) /\ f \in Injection(1..k, Firsts(plan, k))
  BY <1>1 DEF Surjection, Injection, IsInjective, Firsts, Once
<1>3. IsFiniteSet(1..k) /\ Cardinality(1..k) = k
  BY <1>1, FS_Interval
<1> QED
  BY <1>2, <1>3, FS_Surjection

-----------------------------------------------------------------------------
(* The steps.                                                              *)

\* What the tables of some revisions are part of.
LEMMA TablesGrow ==
  ASSUME DeploymentAssumption, NEW q \in 0..Newest, NEW r \in 0..Newest, q <= r
  PROVE  TablesAt(q) \subseteq TablesAt(r) /\ TablesAt(r) \in SUBSET (1..AuditLog)
BY DEF TablesAt, DeploymentAssumption

\* A container that has all its locks has those of its whole plan.
LEMMA AllHeld ==
  ASSUME DeployTypes, HoldsFirsts, NEW c \in Containers, HasAll(c)
  PROVE  holds[c] = Firsts(procs[c].plan, Len(procs[c].plan))
<1>1. procs[c].plan \in Seq(Nat \ {0}) /\ Once(procs[c].plan)
  BY DEF DeployTypes, HoldsFirsts
<1>2. PICK k \in 0..Len(procs[c].plan) : holds[c] = Firsts(procs[c].plan, k)
  BY DEF HoldsFirsts
<1> QED
  BY <1>1, <1>2, FirstsCount DEF HasAll

\* The next lock is none it has; with it, it has the first of its plan again.
LEMMA NextHeld ==
  ASSUME DeployTypes, HoldsFirsts, NEW c \in Containers, ~HasAll(c)
  PROVE  /\ NextLock(c) \in Nat \ {0} /\ NextLock(c) \notin holds[c]
         /\ \E k \in 0..Len(procs[c].plan) : holds[c] \cup {NextLock(c)} = Firsts(procs[c].plan, k)
<1> DEFINE plan == procs[c].plan
<1>1. plan \in Seq(Nat \ {0}) /\ Once(plan) /\ Len(plan) \in Nat
  BY DEF DeployTypes, HoldsFirsts
<1>2. PICK k \in 0..Len(plan) : holds[c] = Firsts(plan, k)
  BY DEF HoldsFirsts
<1> HIDE DEF plan
<1>3. Cardinality(holds[c]) = k
  BY <1>1, <1>2, FirstsCount
<1>4. k + 1 \in 1..Len(plan) /\ NextLock(c) = plan[k + 1]
  BY <1>1, <1>2, <1>3 DEF HasAll, NextLock, plan
<1>5. plan[k + 1] \in Nat \ {0}
  BY <1>1, <1>4, ElementOfSeq
<1>6. plan[k + 1] \notin Firsts(plan, k)
  BY <1>1, <1>4 DEF Firsts, Once
<1>7. Firsts(plan, k) \cup {plan[k + 1]} = Firsts(plan, k + 1)
  BY <1>4 DEF Firsts
<1> QED
  BY <1>2, <1>4, <1>5, <1>6, <1>7 DEF plan

\* A container moves on without locks and without a plan.
LEMMA MovesOn ==
  ASSUME DeployTypes, NEW c \in Containers, NEW at \in Places, NEW attempts \in Nat,
         procs' = [procs EXCEPT ![c] = Proc(at, <<>>, attempts, 0)]
  PROVE  /\ procs' \in [Containers -> [at : Places, plan : Seq(Nat \ {0}), attempts : Nat, base : Nat]]
         /\ procs'[c].at = at /\ procs'[c].plan = <<>> /\ procs'[c].base = 0
         /\ \A d \in Containers \ {c} : procs'[d] = procs[d]
<1>1. Proc(at, <<>>, attempts, 0) \in [at : Places, plan : Seq(Nat \ {0}), attempts : Nat, base : Nat]
  BY DEF Proc
<1> QED
  BY <1>1 DEF DeployTypes, Proc

\* What holds of the locks when a container gives its own up, or had none, and
\* moves on.
LEMMA Dropped ==
  ASSUME DeployTypes, HoldsFirsts, Waiters, NEW c \in Containers, NEW attempts \in Nat, NEW at \in Places,
         procs' = [procs EXCEPT ![c] = Proc(at, <<>>, attempts, 0)],
         \/ holds' = [holds EXCEPT ![c] = {}] /\ waits' = [waits EXCEPT ![c] = 0]
         \/ UNCHANGED <<holds, waits>> /\ holds[c] = {} /\ waits[c] = 0
  PROVE  /\ procs' \in [Containers -> [at : Places, plan : Seq(Nat \ {0}), attempts : Nat, base : Nat]]
         /\ procs'[c].at = at /\ procs'[c].plan = <<>>
         /\ holds' \in [Containers -> SUBSET Nat] /\ waits' \in [Containers -> Nat]
         /\ \A d \in Containers \ {c} : procs'[d] = procs[d] /\ holds'[d] = holds[d]
         /\ HoldsFirsts' /\ Waiters'
<1>1. /\ procs' \in [Containers -> [at : Places, plan : Seq(Nat \ {0}), attempts : Nat, base : Nat]]
      /\ procs'[c].at = at /\ procs'[c].plan = <<>> /\ procs'[c].base = 0
      /\ \A d \in Containers \ {c} : procs'[d] = procs[d]
  BY MovesOn
<1>2. /\ holds' \in [Containers -> SUBSET Nat] /\ waits' \in [Containers -> Nat]
      /\ holds'[c] = {} /\ waits'[c] = 0
      /\ \A d \in Containers \ {c} : holds'[d] = holds[d] /\ waits'[d] = waits[d]
  <2>1. CASE holds' = [holds EXCEPT ![c] = {}] /\ waits' = [waits EXCEPT ![c] = 0]
    BY <2>1 DEF DeployTypes
  <2>2. CASE UNCHANGED <<holds, waits>> /\ holds[c] = {} /\ waits[c] = 0
    BY <2>2 DEF DeployTypes
  <2> QED
    BY <2>1, <2>2
<1>3. HoldsFirsts'
  <2>1. Once(procs'[c].plan)
    BY <1>1 DEF Once
  <2>2. 0 \in 0..Len(procs'[c].plan) /\ holds'[c] = Firsts(procs'[c].plan, 0)
    BY <1>1, <1>2 DEF Firsts
  <2>3. \A d \in Containers \ {c} :
           /\ Once(procs'[d].plan)
           /\ \E k \in 0..Len(procs'[d].plan) : holds'[d] = Firsts(procs'[d].plan, k)
    BY <1>1, <1>2 DEF HoldsFirsts
  <2> QED
    BY <2>1, <2>2, <2>3 DEF HoldsFirsts
<1>4. Waiters'
  BY <1>1, <1>2 DEF Waiters, At
<1> QED
  BY <1>1, <1>2, <1>3, <1>4

\* Such a step, when the schema stays.
LEMMA DropStep ==
  ASSUME DeployInv, NEW c \in Containers, NEW attempts \in Nat,
         NEW at \in Places \ {"locking", "running", "writing"},
         procs' = [procs EXCEPT ![c] = Proc(at, <<>>, attempts, 0)],
         \/ holds' = [holds EXCEPT ![c] = {}] /\ waits' = [waits EXCEPT ![c] = 0]
         \/ UNCHANGED <<holds, waits>> /\ holds[c] = {} /\ waits[c] = 0,
         UNCHANGED <<HeadOf, revision, tables>>,
         mayWrite' = mayWrite \/ AuditLog \notin mayWrite',
         at # "down" => revision # Unplaced,
         at \in {"provisioning", "checking", "serving"} => revision \in HeadOf[c]..Newest,
         at = "serving" => RoleIsSafe
  PROVE  DeployInv'
<1> USE DEF DeployInv
<1>1. /\ procs' \in [Containers -> [at : Places, plan : Seq(Nat \ {0}), attempts : Nat, base : Nat]]
      /\ procs'[c].at = at /\ procs'[c].plan = <<>>
      /\ holds' \in [Containers -> SUBSET Nat] /\ waits' \in [Containers -> Nat]
      /\ \A d \in Containers \ {c} : procs'[d] = procs[d] /\ holds'[d] = holds[d]
      /\ HoldsFirsts' /\ Waiters'
  BY Dropped
<1>2. DeployTypes' /\ OneRelease'
  BY <1>1 DEF DeployTypes, OneRelease, At
<1>3. Planned'
  BY <1>1 DEF Planned, At, Pending
<1>4. UnderWay'
  BY <1>1 DEF UnderWay, At, RoleIsSafe
<1> QED
  BY <1>1, <1>2, <1>3, <1>4

\* Who is under way to nothing, or to be checked, has no locks and waits for none.
LEMMA HoldsNothing ==
  ASSUME DeployInv, NEW c \in Containers, At(c) \notin {"locking", "running", "writing"}
  PROVE  holds[c] = {} /\ waits[c] = 0
<1>1. procs[c].plan = <<>>
  BY DEF DeployInv, UnderWay
<1>2. holds[c] = {}
  BY <1>1 DEF DeployInv, HoldsFirsts, Firsts
<1> QED
  BY <1>2 DEF DeployInv, Waiters

\* A container starts on a database its image can place.
LEMMA StartStep ==
  ASSUME DeploymentAssumption, DeployInv, NEW c \in Containers, Start(c)
  PROVE  DeployInv'
<1> DEFINE state == Classify(revision, HeadOf[c])
           at == IF state = "newer" THEN "checking" ELSE "upgrading"
<1>1. /\ At(c) = "down" /\ state # "unknown" /\ UNCHANGED <<HeadOf, revision, tables, mayWrite, holds, waits>>
      /\ procs' = [procs EXCEPT ![c] = Proc(at, <<>>, 1, 0)]
  BY DEF Start
<1>2. /\ Newest \in Nat /\ Unplaced \in Nat /\ Unplaced > Newest
      /\ HeadOf[c] \in 1..Newest /\ revision \in 0..Newest \cup {Unplaced}
  BY DEF DeployInv, DeployTypes, DeploymentAssumption
<1>3. revision # Unplaced
  BY <1>1, <1>2 DEF Classify
<1>4. state = "newer" => revision \in HeadOf[c]..Newest
  BY <1>2, <1>3 DEF Classify
<1>5. holds[c] = {} /\ waits[c] = 0
  BY <1>1, HoldsNothing
<1>6. at \in Places \ {"locking", "running", "writing"} /\ at \notin {"provisioning", "serving"}
      /\ (at = "checking" => state = "newer")
  BY DEF Places
<1> HIDE DEF at, state
<1> QED
  BY <1>1, <1>3, <1>4, <1>5, <1>6, DropStep

\* The plan is made for what the database has.
LEMMA PlanStep ==
  ASSUME DeploymentAssumption, DeployInv, NEW c \in Containers, PlanLocks(c)
  PROVE  DeployInv'
<1> USE DEF DeployInv
<1> DEFINE S == ToLock(HeadOf[c])
           plan == LockPlan(HeadOf[c])
<1>1. /\ At(c) = "upgrading" /\ UNCHANGED <<HeadOf, revision, tables, mayWrite, holds, waits>>
      /\ procs' = [procs EXCEPT ![c] = [procs[c] EXCEPT !.at = "locking", !.plan = plan]]
  BY DEF PlanLocks
<1>2. S \in SUBSET (Nat \ {0}) /\ IsFiniteSet(S)
  <2>1. S \in SUBSET (1..(AuditLog + 1)) /\ AuditLog \in Nat
    <3>1. S \in SUBSET (tables \cup {Chain})
      BY DEF ToLock
    <3>2. AuditLog \in Nat /\ tables \in SUBSET (1..AuditLog)
      BY DEF DeployTypes, DeploymentAssumption
    <3> HIDE DEF S
    <3> QED
      BY <3>1, <3>2 DEF Chain
  <2>2. IsFiniteSet(1..(AuditLog + 1))
    <3>1. 1 \in Int /\ AuditLog + 1 \in Int
      BY <2>1
    <3> QED
      BY <3>1, FS_Interval
  <2> QED
    BY <2>1, <2>2, FS_Subset
<1>3. plan \in Seq(Nat \ {0}) /\ Once(plan) /\ Firsts(plan, Len(plan)) = S
  BY <1>2, PlanIs DEF LockPlan
<1>4. revision <= HeadOf[c] => \A r \in Pending(HeadOf[c]) :
         Alters[r] \cap tables \subseteq S /\ (r \in WritesRows => Chain \in S)
  <2> SUFFICES ASSUME revision <= HeadOf[c], NEW r \in Pending(HeadOf[c])
               PROVE  Alters[r] \cap tables \subseteq S /\ (r \in WritesRows => Chain \in S)
    BY Zenon
  <2>1. revision \in Nat /\ HeadOf[c] \in Nat /\ ~(revision > HeadOf[c])
    BY DEF DeployTypes, DeploymentAssumption
  <2> QED
    BY <2>1 DEF ToLock
<1>5. holds[c] = {} /\ waits[c] = 0
  BY <1>1, HoldsNothing
<1> HIDE DEF S, plan
<1>6. /\ procs' \in [Containers -> [at : Places, plan : Seq(Nat \ {0}), attempts : Nat, base : Nat]]
      /\ procs'[c].at = "locking" /\ procs'[c].plan = plan
      /\ \A d \in Containers \ {c} : procs'[d] = procs[d]
  <2> DEFINE line == [procs[c] EXCEPT !.at = "locking", !.plan = plan]
  <2>1. /\ line \in [at : Places, plan : Seq(Nat \ {0}), attempts : Nat, base : Nat]
        /\ line.at = "locking" /\ line.plan = plan
    BY <1>3 DEF DeployTypes, Places
  <2> HIDE DEF line
  <2> QED
    BY <1>1, <2>1 DEF DeployTypes
<1>7. DeployTypes' /\ OneRelease'
  BY <1>1, <1>6 DEF DeployTypes, OneRelease, At
<1>8. HoldsFirsts'
  <2>1. 0 \in 0..Len(plan) /\ holds'[c] = Firsts(plan, 0)
    BY <1>1, <1>3, <1>5 DEF Firsts
  <2> QED
    BY <1>1, <1>3, <1>6, <2>1 DEF HoldsFirsts
<1>9. Waiters' /\ UnderWay'
  BY <1>1, <1>5, <1>6 DEF Waiters, UnderWay, At, RoleIsSafe
<1>10. Planned'
  BY <1>1, <1>3, <1>4, <1>6 DEF Planned, At, Pending
<1> QED
  BY <1>7, <1>8, <1>9, <1>10

\* A container's locks become other first ones of its plan.
LEMMA FirstsStep ==
  ASSUME DeployInv, NEW c \in Containers, At(c) \in {"locking", "writing"},
         NEW k \in 0..Len(procs[c].plan), NEW lock \in Nat,
         holds' = [holds EXCEPT ![c] = Firsts(procs[c].plan, k)],
         waits' = [waits EXCEPT ![c] = lock],
         lock # 0 => At(c) = "writing" /\ lock \notin holds'[c],
         UNCHANGED <<HeadOf, revision, tables, mayWrite, procs>>
  PROVE  DeployInv'
<1> USE DEF DeployInv
<1>1. Firsts(procs[c].plan, k) \in SUBSET Nat
  BY DEF Firsts, DeployTypes
<1>2. /\ holds' \in [Containers -> SUBSET Nat] /\ waits' \in [Containers -> Nat]
      /\ holds'[c] = Firsts(procs[c].plan, k) /\ waits'[c] = lock
      /\ \A d \in Containers \ {c} : holds'[d] = holds[d] /\ waits'[d] = waits[d]
  BY <1>1 DEF DeployTypes
<1>3. DeployTypes' /\ OneRelease' /\ Planned'
  BY <1>2 DEF DeployTypes, OneRelease, Planned, At, Pending
<1>4. HoldsFirsts' /\ Waiters'
  BY <1>2 DEF HoldsFirsts, Waiters, At
<1>5. UnderWay'
  BY <1>2 DEF UnderWay, At, RoleIsSafe
<1> QED
  BY <1>3, <1>4, <1>5

\* A migration takes the next lock, or none.
LEMMA TryLockStep ==
  ASSUME DeployInv, NEW c \in Containers, TryLock(c)
  PROVE  DeployInv'
<1>1. /\ At(c) = "locking" /\ ~HasAll(c) /\ UNCHANGED <<HeadOf, revision, tables, mayWrite, procs, waits>>
      /\ holds' = [holds EXCEPT ![c] = IF Free(c, NextLock(c)) THEN holds[c] \cup {NextLock(c)} ELSE {}]
  BY DEF TryLock
<1>2. waits[c] = 0 /\ waits' = [waits EXCEPT ![c] = 0]
  BY <1>1 DEF DeployInv, Waiters, DeployTypes
<1>3. PICK k \in 0..Len(procs[c].plan) : holds[c] \cup {NextLock(c)} = Firsts(procs[c].plan, k)
  BY <1>1, NextHeld DEF DeployInv
<1>4. 0 \in 0..Len(procs[c].plan) /\ Firsts(procs[c].plan, 0) = {}
  BY DEF DeployInv, DeployTypes, Firsts
<1>5. \E l \in 0..Len(procs[c].plan) : holds' = [holds EXCEPT ![c] = Firsts(procs[c].plan, l)]
  <2>1. CASE Free(c, NextLock(c))
    <3>1. holds' = [holds EXCEPT ![c] = holds[c] \cup {NextLock(c)}]
      BY <1>1, <2>1, Zenon
    <3> QED
      BY <1>3, <3>1
  <2>2. CASE ~Free(c, NextLock(c))
    <3>1. holds' = [holds EXCEPT ![c] = {}]
      BY <1>1, <2>2, Zenon
    <3> QED
      BY <1>4, <3>1
  <2> QED
    BY <2>1, <2>2
<1> QED
  BY <1>1, <1>2, <1>5, 0 \in Nat, FirstsStep

\* A writer takes the next lock, or waits for it.
LEMMA TakeStep ==
  ASSUME DeployInv, NEW c \in Containers, TakeOrWait(c)
  PROVE  DeployInv'
<1>1. /\ At(c) = "writing" /\ ~HasAll(c) /\ UNCHANGED <<HeadOf, revision, tables, mayWrite, procs>>
      /\ \/ holds' = [holds EXCEPT ![c] = holds[c] \cup {NextLock(c)}] /\ waits' = [waits EXCEPT ![c] = 0]
         \/ waits' = [waits EXCEPT ![c] = NextLock(c)] /\ UNCHANGED holds
  BY DEF TakeOrWait
<1>2. NextLock(c) \in Nat /\ NextLock(c) \notin holds[c]
  BY <1>1, NextHeld DEF DeployInv
<1>3. PICK k \in 0..Len(procs[c].plan) : holds[c] \cup {NextLock(c)} = Firsts(procs[c].plan, k)
  BY <1>1, NextHeld DEF DeployInv
<1>4. PICK l \in 0..Len(procs[c].plan) : holds[c] = Firsts(procs[c].plan, l)
  BY DEF DeployInv, HoldsFirsts
<1>5. CASE holds' = [holds EXCEPT ![c] = holds[c] \cup {NextLock(c)}] /\ waits' = [waits EXCEPT ![c] = 0]
  BY <1>1, <1>3, <1>5, FirstsStep
<1>6. CASE waits' = [waits EXCEPT ![c] = NextLock(c)] /\ UNCHANGED holds
  <2>1. holds' = [holds EXCEPT ![c] = Firsts(procs[c].plan, l)] /\ holds'[c] = holds[c]
    BY <1>4, <1>6 DEF DeployInv, DeployTypes
  <2> QED
    BY <1>1, <1>2, <1>6, <2>1, FirstsStep
<1> QED
  BY <1>1, <1>5, <1>6

\* A migration that gives up, gives its locks back.
LEMMA GiveUpStep ==
  ASSUME DeployInv, NEW c \in Containers, GiveUp(c)
  PROVE  DeployInv'
<1> DEFINE last == procs[c].attempts = MaxAttempts
           at == IF last THEN "down" ELSE "upgrading"
           attempts == IF last THEN 0 ELSE procs[c].attempts + 1
<1>1. /\ At(c) = "locking" /\ UNCHANGED <<HeadOf, revision, tables, mayWrite>>
      /\ holds' = [holds EXCEPT ![c] = {}] /\ waits' = [waits EXCEPT ![c] = 0]
      /\ procs' = [procs EXCEPT ![c] = Proc(at, <<>>, attempts, 0)]
  BY DEF GiveUp, Drop, Down, Proc
<1>2. attempts \in Nat /\ revision # Unplaced
  BY <1>1 DEF DeployInv, DeployTypes, OneRelease
<1>3. at \in Places \ {"locking", "running", "writing"} /\ at \notin {"provisioning", "checking", "serving"}
  BY DEF Places
<1> HIDE DEF at, attempts
<1> QED
  BY <1>1, <1>2, <1>3, DropStep

\* It runs what the database lacks by now.
LEMMA RunStep ==
  ASSUME DeploymentAssumption, DeployInv, NEW c \in Containers, Run(c)
  PROVE  DeployInv'
<1> USE DEF DeployInv
<1>1. /\ At(c) = "locking" /\ HasAll(c) /\ revision <= HeadOf[c]
      /\ procs' = [procs EXCEPT ![c] = [procs[c] EXCEPT !.at = "running", !.base = revision]]
      /\ UNCHANGED <<HeadOf, revision, tables, mayWrite, holds, waits>>
  BY DEF Run
<1>2. holds[c] = Firsts(procs[c].plan, Len(procs[c].plan))
  BY <1>1, AllHeld
<1>3. revision \in Nat
  BY DEF DeployTypes, DeploymentAssumption
<1>4. /\ procs' \in [Containers -> [at : Places, plan : Seq(Nat \ {0}), attempts : Nat, base : Nat]]
      /\ procs'[c].at = "running" /\ procs'[c].plan = procs[c].plan /\ procs'[c].base = revision
      /\ \A d \in Containers \ {c} : procs'[d] = procs[d]
  <2> DEFINE line == [procs[c] EXCEPT !.at = "running", !.base = revision]
  <2>1. /\ line \in [at : Places, plan : Seq(Nat \ {0}), attempts : Nat, base : Nat]
        /\ line.at = "running" /\ line.plan = procs[c].plan /\ line.base = revision
    BY <1>3 DEF DeployTypes, Places
  <2> HIDE DEF line
  <2> QED
    BY <1>1, <2>1 DEF DeployTypes
<1>5. DeployTypes' /\ OneRelease'
  BY <1>1, <1>4 DEF DeployTypes, OneRelease, At
<1>6. HoldsFirsts'
  BY <1>1, <1>4 DEF HoldsFirsts
<1>7. Waiters'
  BY <1>1, <1>4 DEF Waiters, At
<1>8. UnderWay'
  BY <1>1, <1>2, <1>3, <1>4 DEF UnderWay, At, RoleIsSafe
<1>9. Planned'
  BY <1>1, <1>4 DEF Planned, At, Pending
<1> QED
  BY <1>5, <1>6, <1>7, <1>8, <1>9

\* An upgrade that commits leaves the newest release's schema.
LEMMA CommitUpgradeStep ==
  ASSUME DeploymentAssumption, DeployInv, NEW c \in Containers, CommitUpgrade(c)
  PROVE  DeployInv'
<1> USE DEF DeployInv
<1>1. /\ At(c) = "running" /\ procs[c].base \in {revision, HeadOf[c]}
      /\ revision' = IF procs[c].base = HeadOf[c] THEN revision ELSE HeadOf[c]
      /\ tables' = tables \cup TablesAt(HeadOf[c])
      /\ holds' = [holds EXCEPT ![c] = {}] /\ waits' = [waits EXCEPT ![c] = 0]
      /\ procs' = [procs EXCEPT ![c] = Proc("provisioning", <<>>, 0, 0)]
      /\ UNCHANGED <<HeadOf, mayWrite>>
  BY DEF CommitUpgrade, Drop, Goto
<1>2. /\ Newest \in Nat /\ Unplaced \notin 0..Newest
      /\ HeadOf[c] \in 1..Newest /\ revision \in 0..Newest /\ procs[c].base \in Nat
      /\ procs[c].base <= revision /\ procs[c].base <= HeadOf[c]
  BY <1>1 DEF DeployTypes, DeploymentAssumption, OneRelease, UnderWay
<1>3. tables = TablesAt(revision)
  BY <1>2 DEF OneRelease
<1>4. CASE procs[c].base = HeadOf[c]
  <2>1. HeadOf[c] <= revision /\ UNCHANGED revision
    BY <1>1, <1>2, <1>4
  <2>2. TablesAt(HeadOf[c]) \subseteq tables
    BY <1>2, <1>3, <2>1, TablesGrow
  <2>3. UNCHANGED tables /\ revision \in HeadOf[c]..Newest /\ revision # Unplaced
    BY <1>1, <1>2, <2>1, <2>2
  <2>4. "provisioning" \in Places \ {"locking", "running", "writing"}
    BY DEF Places
  <2> QED
    BY <1>1, <2>1, <2>3, <2>4, 0 \in Nat, DropStep
<1>5. CASE procs[c].base # HeadOf[c]
  <2>1. HeadOf[c] = Newest /\ revision' = Newest
    BY <1>1, <1>2, <1>5 DEF OneRelease
  <2>2. TablesAt(revision) \subseteq TablesAt(Newest) /\ TablesAt(Newest) \in SUBSET (1..AuditLog)
    BY <1>2, TablesGrow
  <2>3. tables' = TablesAt(Newest)
    BY <1>1, <1>3, <2>1, <2>2
  <2>4. "provisioning" \in Places
    BY DEF Places
  <2>5. /\ procs' \in [Containers -> [at : Places, plan : Seq(Nat \ {0}), attempts : Nat, base : Nat]]
        /\ procs'[c].at = "provisioning" /\ procs'[c].plan = <<>>
        /\ holds' \in [Containers -> SUBSET Nat] /\ waits' \in [Containers -> Nat]
        /\ \A d \in Containers \ {c} : procs'[d] = procs[d] /\ holds'[d] = holds[d]
        /\ HoldsFirsts' /\ Waiters'
    BY <1>1, <2>4, 0 \in Nat, Dropped
  <2>6. \A d \in Containers : HeadOf'[d] \in 1..Newest
    BY <1>1 DEF DeployTypes
  <2>7. DeployTypes'
    BY <1>1, <1>2, <2>1, <2>2, <2>3, <2>5 DEF DeployTypes
  <2>8. OneRelease'
    BY <1>2, <2>1, <2>3, <2>6 DEF OneRelease
  <2>9. Planned'
    BY <1>2, <2>1, <2>6 DEF Planned, Pending
  <2>10. UnderWay'
    <3> SUFFICES ASSUME NEW d \in Containers
                 PROVE  /\ At(d)' \notin {"locking", "running", "writing"} => procs'[d].plan = <<>>
                        /\ At(d)' = "running" => /\ holds'[d] = Firsts(procs'[d].plan, Len(procs'[d].plan))
                                                 /\ procs'[d].base <= revision' /\ procs'[d].base <= HeadOf'[d]
                        /\ At(d)' \in {"provisioning", "checking", "serving", "writing"} =>
                              revision' \in HeadOf'[d]..Newest
                        /\ At(d)' \in {"serving", "writing"} => RoleIsSafe'
      BY DEF UnderWay
    <3>1. revision' \in HeadOf'[d]..Newest
      BY <1>2, <2>1, <2>6
    <3>2. CASE d = c
      BY <2>5, <3>1, <3>2 DEF At
    <3>3. CASE d # c
      <4>1. procs'[d] = procs[d] /\ holds'[d] = holds[d] /\ HeadOf'[d] = HeadOf[d] /\ mayWrite' = mayWrite
        BY <1>1, <2>5, <3>3
      <4>2. procs[d].base \in Nat /\ revision <= Newest /\ revision' = Newest
        BY <1>2, <2>1 DEF DeployTypes
      <4> QED
        BY <1>2, <3>1, <4>1, <4>2 DEF UnderWay, At, RoleIsSafe
    <3> QED
      BY <3>2, <3>3
  <2> QED
    BY <2>5, <2>7, <2>8, <2>9, <2>10
<1> QED
  BY <1>4, <1>5

\* The steps that end with no locks and no plan.
LEMMA ProvisionStep ==
  ASSUME DeploymentAssumption, DeployInv, NEW c \in Containers, Provision(c)
  PROVE  DeployInv'
<1>1. /\ At(c) = "provisioning" /\ UNCHANGED <<HeadOf, revision, tables, holds, waits>>
      /\ mayWrite' = tables \ {AuditLog} /\ procs' = [procs EXCEPT ![c] = Proc("checking", <<>>, 0, 0)]
  BY DEF Provision, Goto, FinalPrivileges
<1>2. holds[c] = {} /\ waits[c] = 0
  BY <1>1, HoldsNothing
<1>3. revision \in HeadOf[c]..Newest /\ revision # Unplaced
  BY <1>1 DEF DeployInv, UnderWay, OneRelease
<1>4. "checking" \in Places \ {"locking", "running", "writing"}
  BY DEF Places
<1> QED
  BY <1>1, <1>2, <1>3, <1>4, 0 \in Nat, DropStep

\* Nothing serves with a role that may write the audit log.
LEMMA EnforceStep ==
  ASSUME DeploymentAssumption, DeployInv, NEW c \in Containers, EnforceServingRole(c)
  PROVE  DeployInv'
<1> DEFINE at == IF RoleIsSafe THEN "serving" ELSE "down"
<1>1. /\ At(c) = "checking" /\ UNCHANGED <<HeadOf, revision, tables, mayWrite, holds, waits>>
      /\ procs' = [procs EXCEPT ![c] = Proc(at, <<>>, 0, 0)]
  BY DEF EnforceServingRole, Goto
<1>2. holds[c] = {} /\ waits[c] = 0
  BY <1>1, HoldsNothing
<1>3. revision \in HeadOf[c]..Newest /\ revision # Unplaced
  BY <1>1 DEF DeployInv, UnderWay, OneRelease
<1>4. at \in Places \ {"locking", "running", "writing"} /\ (at = "serving" => RoleIsSafe)
  BY DEF Places
<1> HIDE DEF at
<1> QED
  BY <1>1, <1>2, <1>3, <1>4, 0 \in Nat, DropStep

\* A container stops.
LEMMA StopStep ==
  ASSUME DeploymentAssumption, DeployInv, NEW c \in Containers, Stop(c)
  PROVE  DeployInv'
<1>1. /\ UNCHANGED <<HeadOf, revision, tables, mayWrite>>
      /\ holds' = [holds EXCEPT ![c] = {}] /\ waits' = [waits EXCEPT ![c] = 0]
      /\ procs' = [procs EXCEPT ![c] = Proc("down", <<>>, 0, 0)]
  BY DEF Stop, Goto, Drop
<1>2. "down" \in Places \ {"locking", "running", "writing"}
  BY DEF Places
<1> QED
  BY <1>1, <1>2, 0 \in Nat, DropStep

\* A writer has committed.
LEMMA CommitWriteStep ==
  ASSUME DeploymentAssumption, DeployInv, NEW c \in Containers, CommitWrite(c)
  PROVE  DeployInv'
<1>1. /\ At(c) = "writing" /\ UNCHANGED <<HeadOf, revision, tables, mayWrite>>
      /\ holds' = [holds EXCEPT ![c] = {}] /\ waits' = [waits EXCEPT ![c] = 0]
      /\ procs' = [procs EXCEPT ![c] = Proc("serving", <<>>, 0, 0)]
  BY DEF CommitWrite, Goto, Drop
<1>2. revision \in HeadOf[c]..Newest /\ revision # Unplaced /\ RoleIsSafe
  BY <1>1 DEF DeployInv, UnderWay, OneRelease
<1>3. "serving" \in Places \ {"locking", "running", "writing"}
  BY DEF Places
<1> QED
  BY <1>1, <1>2, <1>3, 0 \in Nat, DropStep

\* A writer needs each of its locks once.
LEMMA WritePlan ==
  ASSUME DeploymentAssumption, NEW written \in Transactions
  PROVE  LET plan == <<Head(written), Chain, AuditLog>> \o Tail(written)
         IN  plan \in Seq(Nat \ {0}) /\ Once(plan)
<1> DEFINE rest == Tail(written)
           first == <<Head(written), Chain, AuditLog>>
           plan == first \o rest
<1>1. /\ AuditLog \in Nat \ {0} /\ written \in Seq(1..(AuditLog - 1)) /\ written # <<>>
      /\ \A i, j \in DOMAIN written : written[i] = written[j] => i = j
  BY DEF DeploymentAssumption
<1>2. /\ Len(written) \in Nat \ {0} /\ DOMAIN written = 1..Len(written)
      /\ \A i \in 1..Len(written) : written[i] \in 1..(AuditLog - 1)
      /\ Head(written) = written[1]
  BY <1>1
<1>3. /\ rest \in Seq(1..(AuditLog - 1)) /\ Len(rest) = Len(written) - 1
      /\ \A i \in 1..(Len(written) - 1) : rest[i] = written[i + 1]
  BY <1>1, <1>2
<1>4. first \in Seq(Nat \ {0}) /\ Len(first) = 3 /\ first[1] = written[1] /\ first[2] = AuditLog + 1 /\ first[3] = AuditLog
  BY <1>1, <1>2 DEF Chain
<1>5. rest \in Seq(Nat \ {0})
  BY <1>1, <1>3
<1> HIDE DEF rest, first
<1>6. /\ plan \in Seq(Nat \ {0}) /\ Len(plan) = Len(written) + 2
      /\ plan[1] = written[1] /\ plan[2] = AuditLog + 1 /\ plan[3] = AuditLog
      /\ \A i \in 4..(Len(written) + 2) : plan[i] = written[i - 2]
  <2>1. /\ plan \in Seq(Nat \ {0}) /\ Len(plan) = Len(first) + Len(rest)
        /\ \A i \in 1..Len(plan) : plan[i] = IF i <= Len(first) THEN first[i] ELSE rest[i - Len(first)]
    <3>1. /\ plan \in Seq(Nat \ {0}) /\ Len(plan) = Len(first) + Len(rest)
          /\ \A i \in 1..(Len(first) + Len(rest)) :
                plan[i] = IF i <= Len(first) THEN first[i] ELSE rest[i - Len(first)]
      <4> HIDE DEF plan
      <4> QED
        BY <1>4, <1>5, Zenon, ConcatProperties DEF plan
    <3> QED
      BY <3>1
  <2>2. Len(plan) = Len(written) + 2
    <3> HIDE DEF plan
    <3> QED
      BY <1>2, <1>3, <1>4, <2>1
  <2>3. \A i \in 4..(Len(written) + 2) : plan[i] = written[i - 2]
    <3> SUFFICES ASSUME NEW i \in 4..(Len(written) + 2) PROVE plan[i] = written[i - 2]
      OBVIOUS
    <3> HIDE DEF plan
    <3>1. i \in 1..Len(plan) /\ ~(i <= 3) /\ i - 3 \in 1..(Len(written) - 1) /\ (i - 3) + 1 = i - 2
      BY <1>2, <2>2
    <3>2. plan[i] = rest[i - 3]
      BY <1>4, <2>1, <3>1
    <3> QED
      BY <1>3, <3>1, <3>2
  <2> HIDE DEF plan
  <2>4. \A k \in {1, 2, 3} : k \in 1..Len(plan) /\ k <= Len(first)
    <3>1. Len(first) = 3 /\ Len(plan) >= 3
      BY <1>2, <1>4, <2>2
    <3>2. Len(plan) \in Nat
      BY <1>2, <2>2
    <3> QED
      BY <3>1, <3>2
  <2>5. \A k \in {1, 2, 3} : plan[k] = first[k]
    BY <2>1, <2>4
  <2>6. plan[1] = first[1] /\ plan[2] = first[2] /\ plan[3] = first[3]
    BY <2>5
  <2> QED
    BY <1>4, <2>1, <2>2, <2>3, <2>6, Zenon
<1> HIDE DEF plan
<1>7. \A i, j \in 1..Len(plan) : plan[i] = plan[j] => i = j
  <2> DEFINE place(i) == IF i = 1 THEN 1 ELSE i - 2
  <2>1. \A i \in 1..Len(plan) \ {2, 3} :
           plan[i] = written[place(i)] /\ place(i) \in 1..Len(written) /\ plan[i] \in 1..(AuditLog - 1)
    <3> SUFFICES ASSUME NEW i \in 1..Len(plan) \ {2, 3}
                 PROVE  plan[i] = written[place(i)] /\ place(i) \in 1..Len(written)
      BY <1>1, <1>2
    <3> QED
      BY <1>2, <1>6
  <2>2. \A i, j \in 1..Len(plan) \ {2, 3} : plan[i] = plan[j] => i = j
    <3> SUFFICES ASSUME NEW i \in 1..Len(plan) \ {2, 3}, NEW j \in 1..Len(plan) \ {2, 3}, plan[i] = plan[j]
                 PROVE  i = j
      OBVIOUS
    <3>1. place(i) = place(j)
      <4> HIDE DEF place
      <4> QED
        BY <1>1, <1>2, <2>1
    <3>2. \A k \in 1..Len(plan) \ {2, 3} : k \in Nat /\ k # 2 /\ k # 3 /\ (k = 1 \/ k > 3)
      OBVIOUS
    <3>3. i = 1 \/ i > 3
      BY <3>2
    <3>4. j = 1 \/ j > 3
      BY <3>2
    <3> QED
      BY <3>1, <3>2, <3>3, <3>4
  <2>3. plan[2] = AuditLog + 1 /\ plan[3] = AuditLog
    BY <1>6
  <2>4. \A i \in 1..Len(plan) : i \in 1..Len(plan) \ {2, 3} \/ i = 2 \/ i = 3
    BY <1>6
  <2>5. \A i \in 1..Len(plan) \ {2, 3} : plan[i] # AuditLog /\ plan[i] # AuditLog + 1
    BY <1>1, <2>1
  <2>6. AuditLog # AuditLog + 1
    BY <1>1
  <2> QED
    BY <2>2, <2>3, <2>4, <2>5, <2>6, Zenon
<1> QED
  BY <1>6, <1>7 DEF Once, plan, first, rest

\* A container that serves begins to write.
LEMMA WriteStep ==
  ASSUME DeploymentAssumption, DeployInv, NEW c \in Containers, NEW written \in Transactions, Write(c, written)
  PROVE  DeployInv'
<1> USE DEF DeployInv
<1> DEFINE plan == <<Head(written), Chain, AuditLog>> \o Tail(written)
<1>1. /\ At(c) = "serving" /\ UNCHANGED <<HeadOf, revision, tables, mayWrite, holds, waits>>
      /\ procs' = [procs EXCEPT ![c] = Proc("writing", plan, 0, 0)]
  BY DEF Write
<1>2. plan \in Seq(Nat \ {0}) /\ Once(plan)
  BY WritePlan
<1>3. holds[c] = {} /\ waits[c] = 0
  BY <1>1, HoldsNothing
<1> HIDE DEF plan
<1>4. /\ procs' \in [Containers -> [at : Places, plan : Seq(Nat \ {0}), attempts : Nat, base : Nat]]
      /\ procs'[c].at = "writing" /\ procs'[c].plan = plan
      /\ \A d \in Containers \ {c} : procs'[d] = procs[d]
  <2>1. Proc("writing", plan, 0, 0) \in [at : Places, plan : Seq(Nat \ {0}), attempts : Nat, base : Nat]
    BY <1>2 DEF Proc, Places
  <2> QED
    BY <1>1, <2>1 DEF DeployTypes, Proc
<1>5. DeployTypes' /\ OneRelease'
  BY <1>1, <1>4 DEF DeployTypes, OneRelease, At
<1>6. HoldsFirsts'
  <2>1. 0 \in 0..Len(plan) /\ holds'[c] = Firsts(plan, 0)
    BY <1>1, <1>2, <1>3 DEF Firsts
  <2> QED
    BY <1>1, <1>2, <1>4, <2>1 DEF HoldsFirsts
<1>7. Waiters' /\ Planned'
  BY <1>1, <1>3, <1>4 DEF Waiters, Planned, At, Pending
<1>8. UnderWay'
  BY <1>1, <1>4 DEF UnderWay, At, RoleIsSafe
<1> QED
  BY <1>5, <1>6, <1>7, <1>8

-----------------------------------------------------------------------------
(* The invariant and what follows from it.                                 *)

\* The initial states.
LEMMA DeployInvInit ==
  ASSUME DeploymentAssumption, DeployInit
  PROVE  DeployInv
<1>1. /\ procs = [c \in Containers |-> Down] /\ holds = [c \in Containers |-> {}]
      /\ waits = [c \in Containers |-> 0] /\ HeadOf \in [Containers -> 1..Newest]
      /\ revision \in 0..Newest \cup {Unplaced}
      /\ \A c \in Containers : HeadOf[c] <= revision \/ HeadOf[c] = Newest
      /\ tables = TablesAt(IF revision = Unplaced THEN 1 ELSE revision)
  BY DEF DeployInit
<1>2. Down \in [at : Places, plan : Seq(Nat \ {0}), attempts : Nat, base : Nat] /\ Down.at = "down" /\ Down.plan = <<>>
  BY DEF Down, Proc, Places
<1>3. tables \in SUBSET (1..AuditLog)
  <2>1. (IF revision = Unplaced THEN 1 ELSE revision) \in 0..Newest
    BY <1>1 DEF DeploymentAssumption
  <2> QED
    BY <1>1, <2>1, TablesGrow
<1>4. DeployTypes
  BY <1>1, <1>2, <1>3 DEF DeployTypes
<1>5. \A c \in Containers : procs[c] = Down /\ holds[c] = {} /\ waits[c] = 0
  BY <1>1
<1>6. HoldsFirsts
  <2>1. Once(<<>>) /\ 0 \in 0..Len(<<>>) /\ Firsts(<<>>, 0) = {}
    BY DEF Once, Firsts
  <2> QED
    BY <1>2, <1>5, <2>1 DEF HoldsFirsts
<1>7. Waiters /\ Planned /\ UnderWay
  BY <1>2, <1>5 DEF Waiters, Planned, UnderWay, At
<1>8. OneRelease
  BY <1>1, <1>2, <1>5 DEF OneRelease, At
<1> QED
  BY <1>4, <1>6, <1>7, <1>8 DEF DeployInv

\* Every step keeps the invariant.
LEMMA DeployInvNext ==
  ASSUME DeploymentAssumption, DeployInv, [DeployNext]_deployVars
  PROVE  DeployInv'
<1>1. CASE UNCHANGED deployVars
  BY <1>1 DEF deployVars, DeployInv, DeployTypes, OneRelease, HoldsFirsts, Waiters, Planned, UnderWay, At,
              Pending, RoleIsSafe
<1>2. ASSUME NEW c \in Containers,
             \/ Start(c) \/ PlanLocks(c) \/ TryLock(c) \/ GiveUp(c) \/ Run(c) \/ CommitUpgrade(c)
             \/ Provision(c) \/ EnforceServingRole(c) \/ Stop(c) \/ TakeOrWait(c)
             \/ \E written \in Transactions : Write(c, written)
             \/ CommitWrite(c)
      PROVE  DeployInv'
  BY <1>2, StartStep, PlanStep, TryLockStep, GiveUpStep, RunStep, CommitUpgradeStep, ProvisionStep, EnforceStep,
     StopStep, TakeStep, WriteStep, CommitWriteStep
<1> QED
  BY <1>1, <1>2 DEF DeployNext

\* Who waits, waits for the chain if a writer keeps it waiting; who has the
\* chain waits for no writer.
LEMMA NoCycle ==
  ASSUME DeployInv
  PROVE  NoLockCycle
<1> SUFFICES ASSUME NEW cycle \in SUBSET Containers, cycle # {},
                    \A c \in cycle : \E d \in cycle : d \in Blocks(c)
             PROVE  FALSE
  BY DEF NoLockCycle
<1>1. \A c \in cycle : At(c) = "writing" /\ waits[c] \notin holds[c]
  BY DEF Blocks, DeployInv, Waiters
<1>2. \A c \in cycle : \E d \in cycle : waits[c] = Chain /\ Chain \in holds[d]
  BY <1>1 DEF Blocks, Conflict, Migrates
<1> QED
  BY <1>1, <1>2

\* Starting containers and writing ones close no cycle of locks, a migration
\* holds all that its revisions need, and what serves finds its schema and
\* cannot write the audit log (migrations/env.py, cli/db_cmd.py, entrypoint.sh).
THEOREM RolloutsAreSafe == ASSUME DeploymentAssumption PROVE DeploySpec => []RolloutIsSafe
<1>1. DeployInit => DeployInv
  BY DeployInvInit
<1>2. DeployInv /\ [DeployNext]_deployVars => DeployInv'
  BY DeployInvNext
<1>3. DeployInv => RolloutIsSafe
  <2> SUFFICES ASSUME DeployInv PROVE LocksAreHeld /\ ServesSafely
    BY NoCycle DEF RolloutIsSafe
  <2>1. LocksAreHeld
    BY DEF DeployInv, LocksAreHeld, Planned, UnderWay
  <2>2. ServesSafely
    BY DEF DeployInv, ServesSafely, UnderWay
  <2> QED
    BY <2>1, <2>2
<1> QED
  BY <1>1, <1>2, <1>3, PTL DEF DeploySpec

-----------------------------------------------------------------------------
(* Journey, for any controls, tests, policies and categories.              *)

JourneyRow == [control : Controls, status : Statuses, evidence : Evidences]

\* What the records are: a test's control is there.
RecordsAre ==
    /\ controls \in SUBSET Controls
    /\ records \in [Records -> {NoRecord} \cup JourneyRow]
    /\ policies \in [Policies -> {NoRecord, "draft", "approved"}]
    /\ \A t \in There(records) : records[t].control \in controls

RequestIs ==
    request \in [next : 1 .. Len(Statements) + 1, got : [Counts -> Nat], changes : Nat,
                 recordsFixed : BOOLEAN, scores : SUBSET Int]

ScoreNow == Score(Cardinality(Passed), Cardinality(There(records)))

\* What was read is still so while nothing has changed; the score of now is one
\* of the request, and the score that was read is, as long as the tests are the same.
AnswerIs ==
    /\ request.changes = 0 => \A k \in 1 .. request.next - 1 : request.got[Statements[k]] = Read(Statements[k])
    /\ ScoreNow \in request.scores
    /\ request.recordsFixed /\ request.next > 2 => request.got["tests"] = Cardinality(There(records))
    /\ request.recordsFixed /\ request.next > 4 => Score(request.got["passed"], request.got["tests"]) \in request.scores

JourneyInv == RecordsAre /\ RequestIs /\ AnswerIs

\* A score of 80, in tenths.
HighScore(score) == score >= 800

\* The share of tests whose score is 80 when it is rounded: 79.95%.
HighShare(p, n) == n > 0 /\ 2000 * p >= 1599 * n

\* A score rounded to a tenth is a number, and 80 when the share is 79.95%.
LEMMA ScoreIs ==
  ASSUME NEW p \in Nat, NEW n \in Nat
  PROVE  Score(p, n) \in Int /\ (HighScore(Score(p, n)) <=> HighShare(p, n))
<1>1. CASE n = 0
  BY <1>1 DEF Score, HighShare, HighScore
<1>2. CASE n > 0
  <2> DEFINE a == 2000 * p + n
             d == 2 * n
             q == a \div d
  <2>1. a \in Nat /\ d \in Nat /\ d > 0
    BY <1>2
  <2>2. Score(p, n) = q
    BY <1>2 DEF Score
  <2>3. q \in Int /\ d * q <= a /\ a < d * q + d
    <3> HIDE DEF a, d
    <3> QED
      BY <2>1
  <2>4. q >= 800 => d * q >= d * 800
    <3> HIDE DEF a, q, d
    <3> QED
      BY <2>1, <2>3
  <2>5. q < 800 => d * (q + 1) <= d * 800 /\ d * (q + 1) = d * q + d
    <3> HIDE DEF a, q, d
    <3> QED
      BY <2>1, <2>3
  <2>6. q >= 800 <=> a >= d * 800
    <3> HIDE DEF a, q, d
    <3> QED
      BY <2>1, <2>3, <2>4, <2>5
  <2> HIDE DEF q
  <2> QED
    BY <1>2, <2>2, <2>3, <2>6 DEF HighShare, HighScore
<1> QED
  BY <1>1, <1>2

\* The statements are ten, of ten counts.
LEMMA StatementsAre ==
  /\ Len(Statements) = 10 /\ DOMAIN Statements = 1 .. 10
  /\ \A k \in 1 .. 10 : Statements[k] \in Counts
  /\ Statements[2] = "tests" /\ Statements[4] = "passed" /\ "tests" \in Counts /\ "passed" \in Counts
  /\ \A k \in 1 .. 10 : (k # 2 => Statements[k] # "tests") /\ (k # 4 => Statements[k] # "passed")
  /\ Counts = {"controls", "tests", "policies", "passed", "approved", "missing", "gaps",
               "policy_categories", "control_categories", "tested_controls"}
<1>1. Len(Statements) = 10 /\ DOMAIN Statements = 1 .. 10
  BY DEF Statements
<1>2. /\ Statements[1] = "controls" /\ Statements[2] = "tests" /\ Statements[3] = "policies"
      /\ Statements[4] = "passed" /\ Statements[5] = "approved" /\ Statements[6] = "missing"
      /\ Statements[7] = "gaps" /\ Statements[8] = "policy_categories"
      /\ Statements[9] = "control_categories" /\ Statements[10] = "tested_controls"
  BY DEF Statements
<1>3. \A k \in 1 .. 10 : k = 1 \/ k = 2 \/ k = 3 \/ k = 4 \/ k = 5 \/ k = 6 \/ k = 7 \/ k = 8 \/ k = 9 \/ k = 10
  OBVIOUS
<1>4. \A k \in 1 .. 10 : (k # 2 => Statements[k] # "tests") /\ (k # 4 => Statements[k] # "passed")
  BY <1>2, <1>3
<1>5. \A k \in 1 .. 10 : Statements[k] \in Counts
  BY <1>1 DEF Counts
<1>6. "tests" \in Counts /\ "passed" \in Counts
  <2>1. 2 \in 1 .. 10 /\ 4 \in 1 .. 10
    OBVIOUS
  <2> QED
    BY <1>2, <1>5, <2>1
<1>7. Counts = {"controls", "tests", "policies", "passed", "approved", "missing", "gaps",
                "policy_categories", "control_categories", "tested_controls"}
  <2>1. \A c : c \in Counts <=> \E k \in 1 .. 10 : c = Statements[k]
    BY <1>1 DEF Counts
  <2>2. \A c : (\E k \in 1 .. 10 : c = Statements[k]) <=>
                c \in {Statements[1], Statements[2], Statements[3], Statements[4], Statements[5], Statements[6],
                       Statements[7], Statements[8], Statements[9], Statements[10]}
    BY <1>3
  <2> QED
    BY <1>2, <2>1, <2>2
<1> QED
  BY <1>1, <1>2, <1>4, <1>5, <1>6, <1>7

\* The request counts up to eleven.
LEMMA RequestShape ==
  RequestIs <=> request \in [next : 1 .. 11, got : [Counts -> Nat], changes : Nat,
                             recordsFixed : BOOLEAN, scores : SUBSET Int]
<1>1. Len(Statements) = 10
  BY StatementsAre, Zenon
<1>2. Len(Statements) + 1 = 11
  BY <1>1
<1> QED
  BY <1>2 DEF RequestIs

\* The sets that are counted are finite.
LEMMA CountedFinite ==
  ASSUME JourneyAssumption, RecordsAre
  PROVE  /\ IsFiniteSet(controls) /\ IsFiniteSet(There(records)) /\ IsFiniteSet(There(policies))
         /\ \A S \in SUBSET There(records) : IsFiniteSet(S)
         /\ \A S \in SUBSET There(policies) : IsFiniteSet(S)
         /\ \A S \in SUBSET Categories : IsFiniteSet(S)
         /\ \A S \in SUBSET controls : IsFiniteSet(S)
         /\ There(records) \in SUBSET Records /\ There(policies) \in SUBSET Policies
<1>1. There(records) \in SUBSET Records /\ There(policies) \in SUBSET Policies
  BY DEF RecordsAre, There
<1> QED
  BY <1>1, FS_Subset DEF JourneyAssumption, RecordsAre

\* Every statement reads a number.
LEMMA ReadsNumbers ==
  ASSUME JourneyAssumption, RecordsAre
  PROVE  (\A count \in Counts : Read(count) \in Nat)
         /\ Cardinality(Passed) \in Nat /\ Cardinality(There(records)) \in Nat
<1> DEFINE approved == {p \in Policies : policies[p] = "approved"}
           missing == {t \in There(records) : records[t].evidence = "missing"}
           tested == {records[t].control : t \in There(records)}
<1>1. Passed \in SUBSET There(records) /\ Gaps \in SUBSET There(records) /\ missing \in SUBSET There(records)
      /\ approved \in SUBSET There(policies) /\ tested \in SUBSET controls
  <2>1. "approved" # NoRecord
    BY DEF JourneyAssumption
  <2>2. approved \in SUBSET There(policies)
    BY <2>1 DEF There, RecordsAre
  <2>3. tested \in SUBSET controls
    BY DEF RecordsAre
  <2> QED
    BY <2>2, <2>3 DEF Passed, Gaps
<1> DEFINE uncovered(S) == Categories \ CategoryOfAll(S)
<1>2. \A S : uncovered(S) \in SUBSET Categories
  OBVIOUS
<1> HIDE DEF approved, missing, tested, uncovered
<1>3. /\ IsFiniteSet(controls) /\ IsFiniteSet(There(records)) /\ IsFiniteSet(There(policies))
      /\ IsFiniteSet(Passed) /\ IsFiniteSet(Gaps) /\ IsFiniteSet(missing) /\ IsFiniteSet(approved) /\ IsFiniteSet(tested)
      /\ \A S : IsFiniteSet(uncovered(S))
  BY <1>1, <1>2, CountedFinite
<1>4. /\ Cardinality(controls) \in Nat /\ Cardinality(There(records)) \in Nat /\ Cardinality(There(policies)) \in Nat
      /\ Cardinality(Passed) \in Nat /\ Cardinality(Gaps) \in Nat /\ Cardinality(missing) \in Nat
      /\ Cardinality(approved) \in Nat /\ Cardinality(tested) \in Nat
      /\ \A S : Cardinality(uncovered(S)) \in Nat
  BY <1>3, FS_CardinalityType
<1>5. \A count \in Counts : Read(count) \in Nat
  <2> SUFFICES ASSUME NEW count \in Counts PROVE Read(count) \in Nat
    OBVIOUS
  <2> USE <1>4, StatementsAre DEF Read
  <2>1. CASE count = "controls" BY <2>1
  <2>2. CASE count = "tests" BY <2>2
  <2>3. CASE count = "policies" BY <2>3
  <2>4. CASE count = "passed" BY <2>4
  <2>5. CASE count = "approved" BY <2>5 DEF approved
  <2>6. CASE count = "missing" BY <2>6 DEF missing
  <2>7. CASE count = "gaps" BY <2>7
  <2>8. CASE count = "policy_categories" BY <2>8 DEF uncovered
  <2>9. CASE count = "control_categories" BY <2>9 DEF uncovered
  <2>10. CASE count = "tested_controls" BY <2>10 DEF tested
  <2> QED
    BY <2>1, <2>2, <2>3, <2>4, <2>5, <2>6, <2>7, <2>8, <2>9, <2>10
<1> QED
  BY <1>4, <1>5

\* A request begins with what there is.
LEMMA JourneyStarts ==
  ASSUME JourneyAssumption, JourneyInit PROVE JourneyInv
<1>1. RecordsAre
  <2>1. controls \in SUBSET Controls /\ policies \in [Policies -> {NoRecord, "draft", "approved"}]
    BY DEF JourneyInit
  <2>2. records \in [Records -> {NoRecord} \cup [control : controls, status : Statuses, evidence : Evidences]]
    BY DEF JourneyInit
  <2>3. \A t \in Records : records[t] # NoRecord => records[t] \in JourneyRow /\ records[t].control \in controls
    BY <2>1, <2>2 DEF JourneyRow
  <2>4. records \in [Records -> {NoRecord} \cup JourneyRow]
    BY <2>2, <2>3
  <2> QED
    BY <2>1, <2>3, <2>4 DEF RecordsAre, There
<1>2. Cardinality(Passed) \in Nat /\ Cardinality(There(records)) \in Nat
  BY <1>1, ReadsNumbers
<1>3. ScoreNow \in Int
  BY <1>2, ScoreIs DEF ScoreNow
<1>4. request = [next |-> 1, got |-> [count \in Counts |-> 0], changes |-> 0, recordsFixed |-> TRUE,
                 scores |-> {ScoreNow}]
  BY DEF JourneyInit, NewRequest, ScoreNow
<1>5. RequestIs
  <2>1. 1 \in 1 .. 11 /\ 0 \in Nat
    OBVIOUS
  <2>2. request \in [next : 1 .. 11, got : [Counts -> Nat], changes : Nat,
                      recordsFixed : BOOLEAN, scores : SUBSET Int]
    BY <1>3, <1>4, <2>1
  <2> QED
    BY <2>2, RequestShape
<1>6. AnswerIs
  BY <1>4 DEF AnswerIs
<1> QED
  BY <1>1, <1>5, <1>6 DEF JourneyInv

\* A statement reads what there is.
LEMMA ReadNextKeeps ==
  ASSUME JourneyAssumption, JourneyInv, ReadNext PROVE JourneyInv'
<1> DEFINE n == request.next
           count == Statements[n]
           number == Read(count)
           got == [request.got EXCEPT ![count] = number]
<1>1. RecordsAre /\ RequestIs /\ AnswerIs /\ n \in 1 .. 10 /\ n + 1 \in 1 .. 11
  <2>1. RecordsAre /\ RequestIs /\ AnswerIs
    BY DEF JourneyInv
  <2>2. n \in 1 .. 11
    BY <2>1, RequestShape
  <2>3. n <= 10
    BY StatementsAre DEF ReadNext
  <2> QED
    BY <2>1, <2>2, <2>3
<1>2. /\ controls' = controls /\ records' = records /\ policies' = policies /\ basics' = basics
  BY DEF ReadNext
<1>3. /\ RecordsAre' /\ Passed' = Passed /\ There(records)' = There(records) /\ ScoreNow' = ScoreNow
      /\ \A statement : Read(statement)' = Read(statement)
  BY <1>1, <1>2 DEF RecordsAre, Passed, There, ScoreNow, Read, Gaps
<1>4. request' = [request EXCEPT !.got = got, !.next = n + 1]
  BY <1>1 DEF ReadNext, RequestIs
<1>5. count \in Counts /\ number \in Nat
  BY <1>1, StatementsAre, ReadsNumbers
<1> HIDE DEF number
<1>6. got \in [Counts -> Nat] /\ got[count] = number /\ \A c \in Counts : c # count => got[c] = request.got[c]
  BY <1>1, <1>5 DEF RequestIs
<1> HIDE DEF got
<1>7. RequestIs'
  <2>1. request' \in [next : 1 .. 11, got : [Counts -> Nat], changes : Nat,
                       recordsFixed : BOOLEAN, scores : SUBSET Int]
    BY <1>1, <1>4, <1>6, RequestShape
  <2>2. Len(Statements) = 10
    BY StatementsAre, Zenon
  <2>3. Len(Statements) + 1 = 11
    BY <2>2
  <2> QED
    BY <2>1, <2>3 DEF RequestIs
<1>8. /\ request'.next = n + 1 /\ request'.got = got /\ request'.changes = request.changes
      /\ request'.recordsFixed = request.recordsFixed /\ request'.scores = request.scores /\ n \in Nat
  BY <1>1, <1>4 DEF RequestIs
<1>9. AnswerIs'
  <2>1. ASSUME request.changes = 0, NEW k \in 1 .. n PROVE got[Statements[k]] = Read(Statements[k])
    <3>1. CASE k = n
      BY <1>6, <3>1 DEF number
    <3>2. CASE k # n
      <4>1. k \in 1 .. n - 1 /\ Statements[k] \in Counts
        <5>1. k \in Nat /\ k <= n /\ k >= 1
          BY <1>8
        <5>2. k \in 1 .. n - 1 /\ k \in 1 .. 10
          BY <1>1, <1>8, <3>2, <5>1
        <5> QED
          BY <5>2, StatementsAre
      <4>2. request.got[Statements[k]] = Read(Statements[k])
        BY <1>1, <2>1, <4>1 DEF AnswerIs
      <4>3. CASE Statements[k] = count
        BY <1>6, <4>3 DEF number
      <4>4. CASE Statements[k] # count
        BY <1>6, <4>1, <4>2, <4>4
      <4> QED
        BY <4>3, <4>4
    <3> QED
      BY <3>1, <3>2
  <2>2. ASSUME request.recordsFixed, n + 1 > 2 PROVE got["tests"] = Cardinality(There(records))
    <3>1. CASE n = 2
      BY <1>6, <3>1, StatementsAre DEF number, Read
    <3>2. CASE n # 2
      <4>1. n > 2 /\ count # "tests" /\ "tests" \in Counts
        <5>1. n > 2
          BY <1>8, <2>2, <3>2
        <5> QED
          BY <1>1, <3>2, <5>1, StatementsAre
      <4> QED
        BY <1>1, <1>6, <2>2, <4>1 DEF AnswerIs
    <3> QED
      BY <3>1, <3>2
  <2>3. ASSUME request.recordsFixed, n + 1 > 4 PROVE Score(got["passed"], got["tests"]) \in request.scores
    <3>1. CASE n = 4
      <4>1. got["passed"] = Cardinality(Passed)
        BY <1>6, <3>1, StatementsAre DEF number, Read
      <4>2. got["tests"] = Cardinality(There(records))
        BY <2>2, <2>3, <3>1
      <4> QED
        BY <1>1, <4>1, <4>2 DEF AnswerIs, ScoreNow
    <3>2. CASE n # 4
      <4>1. n > 4 /\ count # "passed" /\ count # "tests" /\ "passed" \in Counts /\ "tests" \in Counts
        <5>1. n > 4 /\ n # 2
          BY <1>8, <2>3, <3>2
        <5> QED
          BY <1>1, <3>2, <5>1, StatementsAre
      <4> QED
        BY <1>1, <1>6, <2>3, <4>1 DEF AnswerIs
    <3> QED
      BY <3>1, <3>2
  <2>4. n + 1 - 1 = n
    BY <1>8
  <2> QED
    BY <1>1, <1>3, <1>8, <2>1, <2>2, <2>3, <2>4 DEF AnswerIs
<1> QED
  BY <1>3, <1>7, <1>9 DEF JourneyInv

\* Whatever the tests are, they and those that passed are numbers.
LEMMA TestsAreCounted ==
  ASSUME JourneyAssumption, NEW rows, rows \in [Records -> {NoRecord} \cup JourneyRow]
  PROVE  Cardinality({t \in There(rows) : rows[t].status = "passed"}) \in Nat /\ Cardinality(There(rows)) \in Nat
<1> DEFINE passed == {t \in There(rows) : rows[t].status = "passed"}
<1>1. There(rows) \in SUBSET Records
  BY DEF There
<1>2. passed \in SUBSET Records
  BY <1>1
<1> HIDE DEF passed
<1>3. Cardinality(passed) \in Nat /\ Cardinality(There(rows)) \in Nat
  BY <1>1, <1>2, FS_Subset, FS_CardinalityType DEF JourneyAssumption
<1> QED
  BY <1>3 DEF passed

\* A change while the request is read.
LEMMA NoticedKeeps ==
  ASSUME JourneyAssumption, JourneyInv, NEW fixed \in BOOLEAN, Noticed(fixed), RecordsAre',
         fixed => There(records)' = There(records)
  PROVE  JourneyInv'
<1> DEFINE more == request.changes + 1
           both == request.recordsFixed /\ fixed
           score == ScoreNow'
           scores == request.scores \cup {score}
<1>1. RequestIs /\ AnswerIs
  BY DEF JourneyInv
<1>2. request \in [next : 1 .. 11, got : [Counts -> Nat], changes : Nat, recordsFixed : BOOLEAN, scores : SUBSET Int]
  BY <1>1, RequestShape
<1>3. score \in Int
  <2>1. records' \in [Records -> {NoRecord} \cup JourneyRow]
    BY DEF RecordsAre, JourneyRow
  <2>2. Cardinality(Passed)' \in Nat /\ Cardinality(There(records))' \in Nat
    BY <2>1, TestsAreCounted DEF Passed, There
  <2> QED
    BY <2>2, ScoreIs DEF ScoreNow
<1>4. request' = [request EXCEPT !.changes = more, !.recordsFixed = both, !.scores = scores]
  BY <1>2 DEF Noticed, ScoreNow
<1>5. more \in Nat /\ more # 0 /\ both \in BOOLEAN /\ scores \in SUBSET Int
  BY <1>2, <1>3
<1> HIDE DEF more, both, scores, score
<1>6. request' \in [next : 1 .. 11, got : [Counts -> Nat], changes : Nat, recordsFixed : BOOLEAN, scores : SUBSET Int]
  BY <1>2, <1>4, <1>5
<1>7. RequestIs'
  <2>1. Len(Statements) = 10
    BY StatementsAre, Zenon
  <2>2. Len(Statements) + 1 = 11
    BY <2>1
  <2> QED
    BY <1>6, <2>2 DEF RequestIs
<1>8. /\ request'.changes = more /\ request'.recordsFixed = both /\ request'.scores = scores
      /\ request'.next = request.next /\ request'.got = request.got
  BY <1>2, <1>4
<1>9. AnswerIs'
  <2>1. request'.changes # 0
    BY <1>5, <1>8
  <2>2. ScoreNow' \in request'.scores
    BY <1>8 DEF scores, score
  <2>3. request'.recordsFixed => request.recordsFixed /\ There(records)' = There(records)
    BY <1>8 DEF both
  <2>4. request.scores \subseteq request'.scores
    BY <1>8 DEF scores
  <2> QED
    BY <1>1, <1>8, <2>1, <2>2, <2>3, <2>4 DEF AnswerIs
<1> QED
  BY <1>7, <1>9 DEF JourneyInv

\* Every change keeps a test's control.
LEMMA ChangesKeep ==
  ASSUME JourneyAssumption, JourneyInv,
         \/ \E c \in Controls : AddControl(c)
         \/ \E t \in Records : \/ \E c \in Controls, s \in Statuses, e \in Evidences : PutTest(t, c, s, e)
                               \/ DropTest(t)
         \/ \E p \in Policies, status \in {"draft", "approved"} : PutPolicy(p, status)
  PROVE  JourneyInv'
<1>1. /\ controls \in SUBSET Controls /\ records \in [Records -> {NoRecord} \cup JourneyRow]
      /\ policies \in [Policies -> {NoRecord, "draft", "approved"}]
      /\ \A t \in Records : records[t] # NoRecord => records[t].control \in controls
  BY DEF JourneyInv, RecordsAre, There
<1>2. ASSUME NEW fixed \in BOOLEAN, Noticed(fixed), RecordsAre', fixed => There(records)' = There(records)
      PROVE  JourneyInv'
  BY <1>2, NoticedKeeps
<1>3. ASSUME NEW c \in Controls, AddControl(c) PROVE JourneyInv'
  <2>1. RecordsAre'
    BY <1>1, <1>3 DEF AddControl, RecordsAre, There
  <2>2. PICK fixed \in BOOLEAN : Noticed(fixed)
    BY <1>3 DEF AddControl
  <2> QED
    BY <1>2, <1>3, <2>1, <2>2 DEF AddControl, There
<1>4. ASSUME NEW t \in Records, NEW c \in Controls, NEW s \in Statuses, NEW e \in Evidences, PutTest(t, c, s, e)
      PROVE  JourneyInv'
  <2> DEFINE written == [control |-> c, status |-> s, evidence |-> e]
  <2>1. written \in JourneyRow /\ written.control = c /\ c \in controls /\ written # NoRecord
    BY <1>4 DEF JourneyRow, PutTest, JourneyAssumption
  <2>2. records' = [records EXCEPT ![t] = written] /\ controls' = controls /\ policies' = policies
    BY <1>4 DEF PutTest
  <2> HIDE DEF written
  <2>3. records' \in [Records -> {NoRecord} \cup JourneyRow] /\ records'[t] = written
        /\ \A u \in Records : u # t => records'[u] = records[u]
    BY <1>1, <2>1, <2>2
  <2>4. RecordsAre'
    BY <1>1, <2>1, <2>2, <2>3 DEF RecordsAre, There
  <2>5. records[t] # NoRecord => There(records)' = There(records)
    BY <1>1, <2>1, <2>3 DEF There
  <2>6. PICK fixed \in BOOLEAN : Noticed(fixed) /\ fixed = (records[t] # NoRecord)
    BY <1>4 DEF PutTest
  <2> QED
    BY <1>2, <2>4, <2>5, <2>6
<1>5. ASSUME NEW t \in Records, DropTest(t) PROVE JourneyInv'
  <2>1. records' = [records EXCEPT ![t] = NoRecord] /\ controls' = controls /\ policies' = policies
    BY <1>5 DEF DropTest
  <2>2. records' \in [Records -> {NoRecord} \cup JourneyRow] /\ records'[t] = NoRecord
        /\ \A u \in Records : u # t => records'[u] = records[u]
    BY <1>1, <2>1
  <2>3. RecordsAre'
    BY <1>1, <2>1, <2>2 DEF RecordsAre, There
  <2>4. PICK fixed \in BOOLEAN : Noticed(fixed) /\ ~fixed
    BY <1>5 DEF DropTest
  <2> QED
    BY <1>2, <2>3, <2>4
<1>6. ASSUME NEW p \in Policies, NEW status \in {"draft", "approved"}, PutPolicy(p, status) PROVE JourneyInv'
  <2>1. policies' \in [Policies -> {NoRecord, "draft", "approved"}]
    BY <1>1, <1>6 DEF PutPolicy
  <2>2. RecordsAre'
    BY <1>1, <1>6, <2>1 DEF PutPolicy, RecordsAre, There
  <2>3. PICK fixed \in BOOLEAN : Noticed(fixed)
    BY <1>6 DEF PutPolicy
  <2> QED
    BY <1>2, <1>6, <2>2, <2>3 DEF PutPolicy, There
<1> QED
  BY <1>3, <1>4, <1>5, <1>6

\* No step of a request or beside it takes its answer from what it owes.
LEMMA JourneyKeeps ==
  ASSUME JourneyAssumption, JourneyInv, [JourneyNext]_journeyVars PROVE JourneyInv'
<1>1. CASE UNCHANGED journeyVars
  <2>1. controls' = controls /\ records' = records /\ policies' = policies /\ request' = request
    BY <1>1 DEF journeyVars
  <2>2. There(records)' = There(records) /\ There(policies)' = There(policies) /\ Passed' = Passed /\ Gaps' = Gaps
    BY <2>1 DEF There, Passed, Gaps
  <2>3. \A statement : Read(statement)' = Read(statement)
    BY <2>1, <2>2 DEF Read
  <2>4. RecordsAre' /\ RequestIs'
    BY <2>1, <2>2 DEF JourneyInv, RecordsAre, RequestIs
  <2>5. AnswerIs'
    BY <2>1, <2>2, <2>3 DEF JourneyInv, AnswerIs, ScoreNow
  <2> QED
    BY <2>4, <2>5 DEF JourneyInv
<1> QED
  BY <1>1, ReadNextKeeps, ChangesKeep DEF JourneyNext

\* A part of a finite set that is as large is all of it.
LEMMA PartIs ==
  ASSUME NEW S, IsFiniteSet(S), NEW T \in SUBSET S
  PROVE  /\ IsFiniteSet(T) /\ Cardinality(T) \in Nat /\ Cardinality(S) \in Nat /\ Cardinality(T) <= Cardinality(S)
         /\ Cardinality(T) = Cardinality(S) <=> T = S
         /\ Cardinality(T) = 0 <=> T = {}
         /\ Cardinality(S) = 0 <=> S = {}
  BY FS_Subset, FS_CardinalityType, FS_EmptySet

\* What the counts that are none, or all, say of the records.
ReadsTheRecords ==
    /\ AllApproved <=> \A p \in There(policies) : policies[p] = "approved"
    /\ Got("policy_categories") = 0 <=> Categories \subseteq CategoryOfAll(There(policies))
    /\ Got("controls") > 0 <=> controls # {}
    /\ Got("tests") > 0 <=> There(records) # {}
    /\ Untested = 0 <=> \A c \in controls : \E t \in There(records) : records[t].control = c
    /\ Got("control_categories") = 0 <=> Categories \subseteq CategoryOfAll(controls)
    /\ Got("missing") = 0 <=> \A t \in There(records) : records[t].evidence # "missing"
    /\ Got("gaps") = 0 <=> \A t \in There(records) : records[t].evidence = "submitted"
    /\ OverallScore >= 800 <=>
          2000 * Cardinality(Passed) >= 1599 * Cardinality(There(records)) /\ There(records) # {}

\* What a request that nothing disturbed has read, of the records.
LEMMA ReadWhole ==
  ASSUME JourneyAssumption, JourneyInv, request.next > Len(Statements), request.changes = 0
  PROVE  /\ Got("policies") = Cardinality(There(policies))
         /\ Got("policies") \in Nat /\ Got("approved") \in Nat /\ Got("approved") <= Got("policies")
         /\ Got("policy_categories") \in Nat /\ Got("controls") \in Nat /\ Got("tests") \in Nat
         /\ Got("control_categories") \in Nat /\ Got("missing") \in Nat /\ Got("gaps") \in Nat
         /\ Untested \in Nat /\ OverallScore \in Int
         /\ ReadsTheRecords
<1> DEFINE approved == {p \in Policies : policies[p] = "approved"}
           missing == {t \in There(records) : records[t].evidence = "missing"}
           tested == {records[t].control : t \in There(records)}
           unwritten == Categories \ CategoryOfAll(There(policies))
           uncovered == Categories \ CategoryOfAll(controls)
<1>1. RecordsAre /\ RequestIs /\ AnswerIs /\ request.next = 11
  <2>1. RecordsAre /\ RequestIs /\ AnswerIs
    BY DEF JourneyInv
  <2>2. request.next \in 1 .. 11
    BY <2>1, RequestShape
  <2>3. Len(Statements) = 10
    BY StatementsAre, Zenon
  <2> QED
    BY <2>1, <2>2, <2>3
<1>2. \A count \in Counts : Got(count) = Read(count)
  <2>1. \A k \in 1 .. 10 : request.got[Statements[k]] = Read(Statements[k])
    <3>1. request.next - 1 = 10
      BY <1>1
    <3>2. \A k \in 1 .. request.next - 1 : request.got[Statements[k]] = Read(Statements[k])
      BY <1>1, Zenon DEF AnswerIs
    <3> QED
      BY <3>1, <3>2, Zenon
  <2>2. \A count \in Counts : \E k \in 1 .. 10 : count = Statements[k]
    BY StatementsAre DEF Counts
  <2> QED
    BY <2>1, <2>2 DEF Got
<1>3. /\ Got("controls") = Cardinality(controls) /\ Got("tests") = Cardinality(There(records))
      /\ Got("policies") = Cardinality(There(policies)) /\ Got("passed") = Cardinality(Passed)
      /\ Got("approved") = Cardinality(approved) /\ Got("missing") = Cardinality(missing)
      /\ Got("gaps") = Cardinality(Gaps) /\ Got("policy_categories") = Cardinality(unwritten)
      /\ Got("control_categories") = Cardinality(uncovered) /\ Got("tested_controls") = Cardinality(tested)
  <2>1. /\ "controls" \in Counts /\ "tests" \in Counts /\ "policies" \in Counts /\ "passed" \in Counts
        /\ "approved" \in Counts /\ "missing" \in Counts /\ "gaps" \in Counts /\ "policy_categories" \in Counts
        /\ "control_categories" \in Counts /\ "tested_controls" \in Counts
    BY StatementsAre
  <2> QED
    BY <1>2, <2>1 DEF Read
<1>4. /\ IsFiniteSet(controls) /\ IsFiniteSet(There(records)) /\ IsFiniteSet(There(policies)) /\ IsFiniteSet(Categories)
      /\ There(policies) \in SUBSET Policies
  BY <1>1, CountedFinite DEF JourneyAssumption
<1>5. /\ approved \in SUBSET There(policies) /\ (approved = There(policies) <=> \A p \in There(policies) : policies[p] = "approved")
  <2>1. "approved" # NoRecord
    BY DEF JourneyAssumption
  <2>2. approved \in SUBSET There(policies)
    BY <1>1, <2>1 DEF There, RecordsAre
  <2>3. \A p \in There(policies) : p \in approved <=> policies[p] = "approved"
    BY <1>4
  <2> HIDE DEF approved
  <2> QED
    BY <2>2, <2>3
<1>6. /\ tested \in SUBSET controls
      /\ tested = controls <=> \A c \in controls : \E t \in There(records) : records[t].control = c
  <2>1. tested \in SUBSET controls
    BY <1>1 DEF RecordsAre
  <2>2. \A c : c \in tested <=> \E t \in There(records) : records[t].control = c
    OBVIOUS
  <2> HIDE DEF tested
  <2> QED
    BY <2>1, <2>2
<1>7. /\ unwritten \in SUBSET Categories /\ (unwritten = {} <=> Categories \subseteq CategoryOfAll(There(policies)))
      /\ uncovered \in SUBSET Categories /\ (uncovered = {} <=> Categories \subseteq CategoryOfAll(controls))
  OBVIOUS
<1>8. /\ missing \in SUBSET There(records) /\ (missing = {} <=> \A t \in There(records) : records[t].evidence # "missing")
  OBVIOUS
<1>9. /\ Gaps \in SUBSET There(records) /\ (Gaps = {} <=> \A t \in There(records) : records[t].evidence = "submitted")
  <2>1. \A t \in There(records) : records[t].evidence \in {"missing", "due_soon", "submitted"}
    BY <1>1 DEF RecordsAre, There, JourneyRow, Evidences
  <2>2. Gaps \in SUBSET There(records)
    BY DEF Gaps
  <2>3. \A t \in There(records) : t \in Gaps <=> records[t].evidence # "submitted"
    BY <2>1 DEF Gaps
  <2> QED
    BY <2>2, <2>3
<1>10. Passed \in SUBSET There(records)
  BY DEF Passed
<1> HIDE DEF approved, missing, tested, unwritten, uncovered
<1>11. /\ Cardinality(approved) \in Nat /\ Cardinality(There(policies)) \in Nat
       /\ Cardinality(approved) <= Cardinality(There(policies))
       /\ Cardinality(approved) = Cardinality(There(policies)) <=> approved = There(policies)
  BY <1>4, <1>5, PartIs
<1>12. /\ Cardinality(tested) \in Nat /\ Cardinality(controls) \in Nat /\ Cardinality(tested) <= Cardinality(controls)
       /\ Cardinality(tested) = Cardinality(controls) <=> tested = controls
       /\ Cardinality(controls) = 0 <=> controls = {}
  BY <1>4, <1>6, PartIs
<1>13. /\ Cardinality(unwritten) \in Nat /\ (Cardinality(unwritten) = 0 <=> unwritten = {})
       /\ Cardinality(uncovered) \in Nat /\ (Cardinality(uncovered) = 0 <=> uncovered = {})
  BY <1>4, <1>7, PartIs
<1>14. /\ Cardinality(missing) \in Nat /\ (Cardinality(missing) = 0 <=> missing = {})
       /\ Cardinality(Gaps) \in Nat /\ (Cardinality(Gaps) = 0 <=> Gaps = {})
       /\ Cardinality(Passed) \in Nat
       /\ Cardinality(There(records)) \in Nat /\ (Cardinality(There(records)) = 0 <=> There(records) = {})
  BY <1>4, <1>8, <1>9, <1>10, PartIs
<1>15. Untested \in Nat /\ (Untested = 0 <=> tested = controls)
  BY <1>3, <1>12 DEF Untested
<1>16. OverallScore \in Int /\ (OverallScore >= 800 <=>
           2000 * Cardinality(Passed) >= 1599 * Cardinality(There(records)) /\ There(records) # {})
  <2> DEFINE p == Cardinality(Passed)
             n == Cardinality(There(records))
  <2>1. OverallScore = Score(p, n) /\ p \in Nat /\ n \in Nat /\ (n = 0 <=> There(records) = {})
    BY <1>3, <1>14 DEF OverallScore
  <2> HIDE DEF p, n
  <2>2. OverallScore \in Int /\ (HighScore(OverallScore) <=> HighShare(p, n))
    BY <2>1, ScoreIs
  <2>3. HighShare(p, n) <=> 2000 * p >= 1599 * n /\ There(records) # {}
    BY <2>1 DEF HighShare
  <2> QED
    BY <2>2, <2>3 DEF p, n, HighScore
<1>17. AllApproved <=> approved = There(policies)
  BY <1>3, <1>11 DEF AllApproved
<1>18. (Got("controls") > 0 <=> controls # {}) /\ (Got("tests") > 0 <=> There(records) # {})
  BY <1>3, <1>12, <1>14
<1>19. /\ Got("policies") \in Nat /\ Got("approved") \in Nat /\ Got("approved") <= Got("policies")
       /\ Got("policy_categories") \in Nat /\ Got("controls") \in Nat /\ Got("tests") \in Nat
       /\ Got("control_categories") \in Nat /\ Got("missing") \in Nat /\ Got("gaps") \in Nat
  BY <1>3, <1>11, <1>12, <1>13, <1>14
<1>20. /\ Got("policy_categories") = 0 <=> Categories \subseteq CategoryOfAll(There(policies))
       /\ Got("control_categories") = 0 <=> Categories \subseteq CategoryOfAll(controls)
       /\ Got("missing") = 0 <=> \A t \in There(records) : records[t].evidence # "missing"
       /\ Got("gaps") = 0 <=> \A t \in There(records) : records[t].evidence = "submitted"
  BY <1>3, <1>7, <1>8, <1>9, <1>13, <1>14, Zenon
<1>21. /\ AllApproved <=> \A p \in There(policies) : policies[p] = "approved"
       /\ Untested = 0 <=> \A c \in controls : \E t \in There(records) : records[t].control = c
  BY <1>5, <1>6, <1>15, <1>17, Zenon
<1> QED
  <2>1. ReadsTheRecords
    <3>1. AllApproved <=> \A p \in There(policies) : policies[p] = "approved"
      BY <1>21
    <3>2. Untested = 0 <=> \A c \in controls : \E t \in There(records) : records[t].control = c
      BY <1>21
    <3>3. OverallScore >= 800 <=>
            2000 * Cardinality(Passed) >= 1599 * Cardinality(There(records)) /\ There(records) # {}
      BY <1>16
    <3>4. (Got("controls") > 0 <=> controls # {}) /\ (Got("tests") > 0 <=> There(records) # {})
      BY <1>18
    <3> QED
      BY <1>20, <3>1, <3>2, <3>3, <3>4 DEF ReadsTheRecords
  <2> QED
    BY <1>3, <1>15, <1>16, <1>19, <2>1

\* The answer of an undisturbed request: its phases, and that the current one
\* has something to do.
LEMMA AnswerIsTrue ==
  ASSUME JourneyAssumption, JourneyInv, request.next > Len(Statements), request.changes = 0
  PROVE  (\A phase \in 1 .. 7 : Complete(phase) <=> Means(phase)) /\ NextActions(CurrentPhase) # {}
<1>1. RecordsAre
  BY DEF JourneyInv
<1>2. controls = {} => There(records) = {}
  BY <1>1 DEF RecordsAre
<1>3. ASSUME NEW phase \in 1 .. 7 PROVE Complete(phase) <=> Means(phase)
  <2>1. CASE phase = 3
    BY <2>1, ReadWhole DEF ReadsTheRecords, Complete, Means
  <2>2. CASE phase = 4
    <3>1. Complete(4) <=> Got("controls") > 0 /\ Got("tests") > 0 /\ Untested = 0 /\ Got("control_categories") = 0
      BY DEF Complete
    <3>2. Means(4) <=> /\ controls # {} /\ Categories \subseteq CategoryOfAll(controls)
                       /\ \A c \in controls : \E t \in There(records) : records[t].control = c
      BY DEF Means
    <3>3. (\A c \in controls : \E t \in There(records) : records[t].control = c) /\ controls # {} => There(records) # {}
      OBVIOUS
    <3> QED
      BY <2>2, <3>1, <3>2, <3>3, ReadWhole DEF ReadsTheRecords
  <2>3. CASE phase = 5
    BY <2>3, ReadWhole DEF ReadsTheRecords, Complete, Means
  <2>4. CASE phase = 6
    BY <2>4, ReadWhole DEF ReadsTheRecords, Complete, Means
  <2>5. CASE phase \in {1, 2, 7}
    BY <2>5 DEF Means
  <2> QED
    BY <2>1, <2>2, <2>3, <2>4, <2>5
<1>4. NextActions(CurrentPhase) # {}
  <2> DEFINE open == {phase \in 1 .. 8 : phase = 8 \/ ~Complete(phase)}
             current == CurrentPhase
  <2>1. open \in SUBSET Nat /\ 8 \in open
    OBVIOUS
  <2>2. PICK least \in open : \A m \in open : least <= m
    BY <2>1, LeastNumber
  <2>3. current \in open /\ \A m \in open : current <= m
    BY <2>2 DEF CurrentPhase, Min
  <2>4. current \in 1 .. 8 /\ (current # 8 => ~Complete(current))
        /\ \A phase \in 1 .. 7 : phase < current => Complete(phase)
    BY <2>3
  <2> HIDE DEF current
  <2> SUFFICES NextActions(current) # {}
    BY DEF current
  <2>5. CASE current = 1
    BY <2>4, <2>5 DEF Complete, NextActions
  <2>6. CASE current = 2
    BY <2>4, <2>6 DEF Complete, NextActions
  <2>7. CASE current = 3
    <3>1. ~(Got("policies") >= MinPolicies /\ AllApproved /\ Got("policy_categories") = 0)
      BY <2>4, <2>7 DEF Complete
    <3>2. Got("policies") < MinPolicies \/ Got("policy_categories") > 0 \/ Got("approved") < Got("policies")
      BY <3>1, ReadWhole DEF ReadsTheRecords, AllApproved, JourneyAssumption
    <3> QED
      BY <2>7, <3>2 DEF NextActions
  <2>8. CASE current = 4
    <3>1. ~(Got("controls") > 0 /\ Got("tests") > 0 /\ Untested = 0 /\ Got("control_categories") = 0)
      BY <2>4, <2>8 DEF Complete
    <3>2. Got("control_categories") > 0 \/ Untested > 0 \/ Got("tests") = 0
      BY <1>2, <3>1, ReadWhole DEF ReadsTheRecords
    <3> QED
      BY <2>8, <3>2 DEF NextActions
  <2>9. CASE current = 5
    <3>1. Complete(4)
      BY <2>4, <2>9
    <3>2. Got("tests") > 0
      BY <3>1 DEF Complete
    <3>3. ~(Got("tests") > 0 /\ Got("missing") = 0 /\ "collector" \in basics)
      BY <2>4, <2>9 DEF Complete
    <3>4. Got("missing") > 0 \/ "collector" \notin basics
      BY <3>2, <3>3, ReadWhole DEF ReadsTheRecords
    <3> QED
      BY <2>9, <3>4 DEF NextActions, CollectActions
  <2>10. CASE current = 6
    <3>1. ~(OverallScore >= 800 /\ Got("gaps") = 0)
      BY <2>4, <2>10 DEF Complete
    <3>2. OverallScore < 800 \/ Got("gaps") > 0
      BY <3>1, ReadWhole DEF ReadsTheRecords
    <3> QED
      BY <2>10, <3>2 DEF NextActions
  <2>11. CASE current = 7
    <3>1. Complete(5) /\ Complete(6)
      BY <2>4, <2>11
    <3>2. Got("tests") > 0 /\ Got("gaps") = 0
      BY <3>1 DEF Complete
    <3>3. ~({"hashes", "auditor"} \subseteq basics) \/ ~(AllApproved /\ Got("policies") > 0)
      BY <2>4, <2>11, <3>2 DEF Complete
    <3> QED
      BY <2>11, <3>3 DEF NextActions
  <2>12. CASE current = 8
    BY <2>12 DEF NextActions
  <2> QED
    BY <2>4, <2>5, <2>6, <2>7, <2>8, <2>9, <2>10, <2>11, <2>12
<1> QED
  BY <1>3, <1>4

\* The journey of a portal with any records: read while nothing changes, its
\* phases are complete exactly when the records are what the phases mean, and the
\* current one names something to do; read while no test comes or goes, its score
\* is one the portal had meanwhile (compliance_journey).
THEOREM JourneysAreTrue ==
  ASSUME JourneyAssumption PROVE JourneySpec => []JourneyIsTrue
<1>1. JourneyInit => JourneyInv
  BY JourneyStarts
<1>2. JourneyInv /\ [JourneyNext]_journeyVars => JourneyInv'
  BY JourneyKeeps
<1>3. JourneyInv => JourneyIsTrue
  <2> SUFFICES ASSUME JourneyInv, request.next > Len(Statements)
               PROVE  /\ request.changes = 0 => /\ \A phase \in 1 .. 7 : Complete(phase) <=> Means(phase)
                                                /\ NextActions(CurrentPhase) # {}
                      /\ request.recordsFixed => OverallScore \in request.scores
    BY DEF JourneyIsTrue
  <2>1. Len(Statements) = 10
    BY StatementsAre, Zenon
  <2>2. request.next > 4
    <3>1. request.next \in 1 .. 11
      BY RequestShape DEF JourneyInv
    <3> QED
      BY <2>1, <3>1
  <2>3. request.recordsFixed => OverallScore \in request.scores
    BY <2>2 DEF JourneyInv, AnswerIs, OverallScore, Got
  <2> QED
    BY <2>3, AnswerIsTrue
<1> QED
  BY <1>1, <1>2, <1>3, PTL DEF JourneySpec
=============================================================================
