------------------------ MODULE UserAdminServer_proofs ------------------------
(***************************************************************************)
(* Proofs about UserAdminServer, for every number of fixtures and of       *)
(* connections.                                                            *)
(***************************************************************************)
EXTENDS UserAdminServer, TLAPS

\* authenticate() returns a principal, and never one of a user or admin for
\* which no credential is stored (server.ts:173-186).
LEMMA AuthenticateType ==
  ASSUME TypeOK,
         NEW authorization \in Authorization,
         NEW session \in Id \cup {NoSession}
  PROVE  Authenticate(authorization, session) \in Principal
BY MaxFixturesAssumption
   DEF TypeOK, Authenticate, Authorization, Principal, Token, Id, NoHeader,
       Malformed, NoSession

\* What lets a principal through to a user: it is an admin or the user itself,
\* and the user is there (server.ts:103-112, 125-136).
LEMMA AccessGranted ==
  ASSUME NEW principal \in Principal, NEW user
  PROVE  /\ UserAccess(principal, user) \in Status
         /\ UserAccess(principal, user) = 200 =>
               /\ principal # Nobody
               /\ user \in users
               /\ principal.role = "user" => user = principal.user
         /\ principal.role = "user" /\ user # principal.user =>
               UserAccess(principal, user) = 404
BY DEF UserAccess, Status, Principal, Nobody, Admin, Owner

-----------------------------------------------------------------------------
(* The inductive invariant.                                                *)

LEMMA IInvInit == Init => IInv
<1> SUFFICES ASSUME Init PROVE IInv
  OBVIOUS
<1>1. TypeOK
  BY MaxFixturesAssumption DEF Init, TypeOK, Principal, Status
<1>2. CredentialsOwned /\ OrphansOnlyFromOverlap /\ UsersConfined /\ PatchInv
  BY DEF Init, CredentialsOwned, OrphansOnlyFromOverlap, OwnedUsers,
         UsersConfined, PatchInv, Nobody
<1>3. QED BY <1>1, <1>2 DEF IInv

\* A new fixture gets an id that none has had (server.ts:41-64).
LEMMA PostFixtureStep == ASSUME IInv, PostFixture PROVE IInv'
<1> DEFINE new == nextFixtureId + 1
<1>1. /\ new \in Id
      /\ \A id \in fixtures : id # new /\ id <= new
  BY MaxFixturesAssumption
     DEF PostFixture, IInv, TypeOK, CredentialsOwned, Id
<1>2. TypeOK'
  BY <1>1, MaxFixturesAssumption
     DEF PostFixture, IInv, TypeOK, Reply, Status, Principal, User, Token,
         UsersOf, TokensOf, Id
<1>3. CredentialsOwned'
  <2>1. /\ fixtures' = fixtures \cup {new}
        /\ sessionPrincipals' = sessionPrincipals \cup {new}
        /\ bearerPrincipals' = bearerPrincipals \cup TokensOf(new)
        /\ users' = users \cup UsersOf(new)
        /\ nextFixtureId' = new
    BY DEF PostFixture
  <2> HIDE DEF new
  <2>2. bearerPrincipals' = UNION {TokensOf(id) : id \in fixtures'}
    BY <2>1 DEF IInv, CredentialsOwned
  <2>3. OwnedUsers' \subseteq users'
    BY <2>1 DEF IInv, CredentialsOwned, OwnedUsers
  <2>4. \A id \in fixtures' : id <= nextFixtureId'
    BY <1>1, <2>1 DEF Id
  <2>5. QED BY <2>1, <2>2, <2>3, <2>4 DEF IInv, CredentialsOwned
<1>4. OrphansOnlyFromOverlap'
  BY DEF PostFixture, IInv, OrphansOnlyFromOverlap, OwnedUsers
<1>5. UsersConfined'
  BY DEF PostFixture, Reply, UsersConfined, Nobody
<1>6. PatchInv'
  BY DEF PostFixture, IInv, PatchInv
<1>7. QED BY <1>2, <1>3, <1>4, <1>5, <1>6 DEF IInv

\* A deletion takes away what is the fixture's and nothing else; the users it
\* takes from a PATCH are recorded (server.ts:83-94).
LEMMA DeleteFixtureStep ==
  ASSUME IInv, NEW id \in Id, DeleteFixture(id) PROVE IInv'
<1>1. \A other \in fixtures \ {id} :
         /\ UsersOf(other) \cap UsersOf(id) = {}
         /\ TokensOf(other) \cap TokensOf(id) = {}
  BY DEF UsersOf, TokensOf
<1>2. TypeOK'
  BY DEF DeleteFixture, IInv, TypeOK, Reply, Status, Principal, UsersOf, User
<1>3. CredentialsOwned'
  <2>1. bearerPrincipals' = UNION {TokensOf(other) : other \in fixtures'}
    BY <1>1 DEF DeleteFixture, IInv, CredentialsOwned
  <2>2. OwnedUsers' \subseteq users'
    BY <1>1 DEF DeleteFixture, IInv, CredentialsOwned, OwnedUsers
  <2>3. QED BY <2>1, <2>2 DEF DeleteFixture, IInv, CredentialsOwned
<1>4. OrphansOnlyFromOverlap'
  BY <1>1 DEF DeleteFixture, IInv, OrphansOnlyFromOverlap, OwnedUsers
<1>5. UsersConfined'
  BY DEF DeleteFixture, Reply, UsersConfined, Nobody
<1>6. PatchInv'
  BY DEF DeleteFixture, IInv, PatchInv
<1>7. QED BY <1>2, <1>3, <1>4, <1>5, <1>6 DEF IInv

\* GET answers what UserAccess says.
LEMMA GetUserStep ==
  ASSUME IInv,
         NEW authorization \in Authorization,
         NEW session \in Id \cup {NoSession},
         NEW user \in User,
         GetUser(authorization, session, user)
  PROVE  IInv'
<1> DEFINE principal == Authenticate(authorization, session)
<1>1. principal \in Principal
  BY AuthenticateType DEF IInv
<1> HIDE DEF principal
<1>2. /\ reply' = [route |-> "get", principal |-> principal, user |-> user,
                   status |-> UserAccess(principal, user)]
      /\ UNCHANGED <<store, patching, overlapped>>
  BY DEF GetUser, Reply, principal
<1>3. TypeOK'
  BY <1>1, <1>2, AccessGranted DEF IInv, TypeOK, store
<1>4. UsersConfined'
  BY <1>1, <1>2, AccessGranted DEF UsersConfined
<1>5. QED
  BY <1>2, <1>3, <1>4
     DEF IInv, store, CredentialsOwned, OrphansOnlyFromOverlap, OwnedUsers,
         PatchInv

\* A PATCH that is let through holds on to a user that is there.
LEMMA PatchUserStep ==
  ASSUME IInv,
         NEW authorization \in Authorization,
         NEW session \in Id \cup {NoSession},
         NEW user \in User, NEW c \in Connection,
         PatchUser(c, authorization, session, user)
  PROVE  IInv'
<1> DEFINE principal == Authenticate(authorization, session)
           status    == UserAccess(principal, user)
<1>1. principal \in Principal
  BY AuthenticateType DEF IInv
<1>2. UNCHANGED <<store, overlapped>>
  BY DEF PatchUser
<1>3. /\ CredentialsOwned'
      /\ OrphansOnlyFromOverlap'
  BY <1>2 DEF IInv, store, CredentialsOwned, OrphansOnlyFromOverlap, OwnedUsers
<1>4. CASE /\ status = 200
           /\ patching' = [patching EXCEPT ![c] = [user |-> user,
                                                   principal |-> principal]]
           /\ UNCHANGED reply
  <2> HIDE DEF principal
  <2>1. /\ principal # Nobody
        /\ user \in users
        /\ principal.role = "user" => user = principal.user
    BY <1>1, <1>4, AccessGranted
  <2>2. TypeOK'
    BY <1>1, <1>2, <1>4, <2>1 DEF IInv, TypeOK, store, Patch
  <2>3. UsersConfined'
    BY <1>4 DEF IInv, UsersConfined
  <2>4. PatchInv'
    BY <1>2, <1>4, <2>1 DEF IInv, TypeOK, store, PatchInv
  <2>5. QED BY <1>3, <2>2, <2>3, <2>4 DEF IInv
<1>5. CASE /\ status # 200
           /\ Reply("patch", principal, user, status)
           /\ UNCHANGED patching
  <2> HIDE DEF principal
  <2>1. TypeOK'
    BY <1>1, <1>2, <1>5, AccessGranted DEF IInv, TypeOK, store, Reply
  <2>2. UsersConfined'
    BY <1>1, <1>5, AccessGranted DEF Reply, UsersConfined
  <2>3. PatchInv'
    BY <1>2, <1>5 DEF IInv, store, PatchInv
  <2>4. QED BY <1>3, <2>1, <2>2, <2>3 DEF IInv
<1>6. QED BY <1>4, <1>5 DEF PatchUser

\* The user that PATCH stores is there, or is recorded as deleted meanwhile.
LEMMA PatchBodyStep ==
  ASSUME IInv, NEW c \in Connection, PatchBody(c) PROVE IInv'
<1> DEFINE patch == patching[c]
<1>1. /\ patch \in Patch
      /\ patch.user \in User
      /\ patch.principal \in Principal
      /\ patch.user \in users \cup overlapped
      /\ patch.principal.role = "user" => patch.user = patch.principal.user
  BY DEF PatchBody, IInv, TypeOK, Patch, PatchInv
<1>2. /\ users' \in {users, users \cup {patch.user}}
      /\ \E status \in {200, 400} :
            reply' = [route |-> "patch", principal |-> patch.principal,
                      user |-> patch.user, status |-> status]
      /\ patching' = [patching EXCEPT ![c] = NoPatch]
      /\ UNCHANGED <<nextFixtureId, fixtures, bearerPrincipals,
                     sessionPrincipals, overlapped>>
  BY DEF PatchBody, Reply
<1> HIDE DEF patch
<1>3. TypeOK'
  BY <1>1, <1>2 DEF IInv, TypeOK, Status
<1>4. CredentialsOwned'
  BY <1>2 DEF IInv, CredentialsOwned, OwnedUsers
<1>5. OrphansOnlyFromOverlap'
  BY <1>1, <1>2 DEF IInv, OrphansOnlyFromOverlap, OwnedUsers
<1>6. UsersConfined'
  BY <1>1, <1>2 DEF UsersConfined
<1>7. PatchInv'
  BY <1>2 DEF IInv, TypeOK, PatchInv
<1>8. QED BY <1>3, <1>4, <1>5, <1>6, <1>7 DEF IInv

\* The other requests write nothing but their reply.
LEMMA AuditStep ==
  ASSUME IInv,
         NEW authorization \in Authorization,
         NEW session \in Id \cup {NoSession},
         Audit(authorization, session)
  PROVE  IInv'
<1> DEFINE principal == Authenticate(authorization, session)
<1>1. principal \in Principal
  BY AuthenticateType DEF IInv
<1> HIDE DEF principal
<1>2. /\ reply' = [route |-> "audit", principal |-> principal,
                   user |-> NoHeader,
                   status |-> IF principal = Nobody THEN 401
                              ELSE IF principal # Admin THEN 403
                              ELSE 200]
      /\ UNCHANGED <<store, patching, overlapped>>
  BY DEF Audit, Reply, principal
<1>3. TypeOK'
  BY <1>1, <1>2 DEF IInv, TypeOK, store, Status
<1>4. UsersConfined'
  BY <1>1, <1>2 DEF UsersConfined, Nobody, Admin
<1>5. QED
  BY <1>2, <1>3, <1>4
     DEF IInv, store, CredentialsOwned, OrphansOnlyFromOverlap, OwnedUsers,
         PatchInv

LEMMA RefusalStep ==
  ASSUME IInv, PostRefused \/ (\E id \in Id : DeleteUnknown(id)) PROVE IInv'
<1>1. /\ \E status \in {400, 404} :
            reply' = [route |-> "fixtures", principal |-> Nobody,
                      user |-> NoHeader, status |-> status]
      /\ UNCHANGED <<store, patching, overlapped>>
  BY DEF PostRefused, DeleteUnknown, Reply
<1>2. TypeOK'
  BY <1>1 DEF IInv, TypeOK, store, Status, Principal
<1>3. UsersConfined'
  BY <1>1 DEF UsersConfined, Nobody
<1>4. QED
  BY <1>1, <1>2, <1>3
     DEF IInv, store, CredentialsOwned, OrphansOnlyFromOverlap, OwnedUsers,
         PatchInv

LEMMA IInvStep == IInv /\ [Next]_vars => IInv'
<1> SUFFICES ASSUME IInv, [Next]_vars PROVE IInv'
  OBVIOUS
<1>1. CASE PostFixture
  BY <1>1, PostFixtureStep
<1>2. CASE PostRefused \/ (\E id \in Id : DeleteUnknown(id))
  BY <1>2, RefusalStep
<1>3. ASSUME NEW id \in Id, DeleteFixture(id) PROVE IInv'
  BY <1>3, DeleteFixtureStep
<1>4. ASSUME NEW authorization \in Authorization,
             NEW session \in Id \cup {NoSession}, NEW user \in User,
             GetUser(authorization, session, user)
      PROVE  IInv'
  BY <1>4, GetUserStep
<1>5. ASSUME NEW authorization \in Authorization,
             NEW session \in Id \cup {NoSession}, NEW user \in User,
             NEW c \in Connection, PatchUser(c, authorization, session, user)
      PROVE  IInv'
  BY <1>5, PatchUserStep
<1>6. ASSUME NEW authorization \in Authorization,
             NEW session \in Id \cup {NoSession},
             Audit(authorization, session)
      PROVE  IInv'
  BY <1>6, AuditStep
<1>7. ASSUME NEW c \in Connection, PatchBody(c) PROVE IInv'
  BY <1>7, PatchBodyStep
<1>8. CASE UNCHANGED vars
  BY <1>8
     DEF vars, store, IInv, TypeOK, CredentialsOwned, OrphansOnlyFromOverlap,
         OwnedUsers, UsersConfined, PatchInv
<1>9. QED BY <1>1, <1>2, <1>3, <1>4, <1>5, <1>6, <1>7, <1>8 DEF Next

LEMMA IInvAlways == Spec => []IInv
BY IInvInit, IInvStep, PTL DEF Spec

-----------------------------------------------------------------------------
(* Correctness.                                                            *)

\* Every variable of the server keeps its type.
THEOREM TypeCorrect == Spec => []TypeOK
<1>1. IInv => TypeOK
  BY DEF IInv
<1>2. QED BY <1>1, IInvAlways, PTL

\* The credentials that authenticate are those of the live fixtures, and each
\* live fixture has its users (server.ts:49-64, 86-93).
THEOREM CredentialsCorrect == Spec => []CredentialsOwned
<1>1. IInv => CredentialsOwned
  BY DEF IInv
<1>2. QED BY <1>1, IInvAlways, PTL

\* Only a PATCH that overlaps the deletion of its user's fixture leaves a user
\* behind (server.ts:133-149).
THEOREM OrphansCorrect == Spec => []OrphansOnlyFromOverlap
<1>1. IInv => OrphansOnlyFromOverlap
  BY DEF IInv
<1>2. QED BY <1>1, IInvAlways, PTL

\* Users are confined to their own resource, cannot probe for others and never
\* see the audit (server.ts:108-111, 130-132, 163-165).
THEOREM ConfinementCorrect == Spec => []UsersConfined
<1>1. IInv => UsersConfined
  BY DEF IInv
<1>2. QED BY <1>1, IInvAlways, PTL

\* What a deleted fixture could be reached with is void for ever: the counter
\* only grows, PostFixture, the only handler that adds a fixture, takes the id
\* above it, and DELETE has revoked the rest (server.ts:41-42, 86-93).
THEOREM ExpiryCorrect == Spec => CredentialsExpire
<1> DEFINE Gone(id) == /\ id \notin fixtures'
                       /\ id \notin sessionPrincipals'
                       /\ TokensOf(id) \cap bearerPrincipals' = {}
<1>1. ASSUME IInv, IInv', [Next]_vars
      PROVE  \A id \in 1..nextFixtureId : id \notin fixtures => Gone(id)
  <2> SUFFICES ASSUME NEW id \in 1..nextFixtureId, id \notin fixtures
               PROVE  Gone(id)
    OBVIOUS
  <2>1. id \notin fixtures'
    <3>1. CASE PostFixture
      BY <1>1, <3>1 DEF PostFixture, IInv, TypeOK
    <3>2. ASSUME NEW other \in Id, DeleteFixture(other)
          PROVE  id \notin fixtures'
      BY <3>2 DEF DeleteFixture
    <3>3. CASE UNCHANGED fixtures
      BY <3>3
    <3>4. PostFixture \/ (\E other \in Id : DeleteFixture(other))
          \/ UNCHANGED fixtures
      BY <1>1 DEF Next, PostRefused, DeleteUnknown, GetUser, PatchUser,
                  PatchBody, Audit, vars, store
    <3>5. QED BY <3>1, <3>2, <3>3, <3>4
  <2>2. QED BY <1>1, <2>1 DEF IInv, CredentialsOwned, TokensOf
<1>2. QED BY <1>1, IInvAlways, PTL DEF Spec, CredentialsExpire

\* A user that outlived its fixture is read by admins only: the credentials of
\* its owner went with the fixture (server.ts:86-92, 98-116).
THEOREM OrphansStayUnread == Spec => OrphansUnreadable
<1> DEFINE Read == /\ reply' # reply
                   /\ reply'.route = "get"
                   /\ reply'.status = 200
           Allowed == reply'.principal = Admin \/ reply'.user \in OwnedUsers
<1>1. ASSUME IInv, [Next]_vars PROVE [Read => Allowed]_vars
  <2> SUFFICES ASSUME Read PROVE Allowed
    OBVIOUS
  <2>1. PICK authorization \in Authorization, session \in Id \cup {NoSession},
             user \in User : GetUser(authorization, session, user)
    BY <1>1 DEF Next, PostFixture, PostRefused, DeleteFixture, DeleteUnknown,
                PatchUser, PatchBody, Audit, Reply, vars
  <2> DEFINE principal == Authenticate(authorization, session)
  <2>2. /\ reply'.principal = principal
        /\ reply'.user = user
        /\ UserAccess(principal, user) = 200
    BY <2>1 DEF GetUser, Reply
  <2>3. CASE principal = Admin
    BY <2>2, <2>3
  <2>4. CASE principal # Admin
    <3>1. PICK id \in fixtures : principal = Owner(id)
      <4>1. principal # Nobody
        BY <2>2 DEF UserAccess
      <4>2. CASE authorization # NoHeader
        <5>1. /\ authorization \in bearerPrincipals
              /\ principal = Owner(authorization[1])
          BY <2>4, <4>1, <4>2 DEF Authenticate
        <5>2. authorization[1] \in fixtures
          BY <5>1, <1>1 DEF IInv, CredentialsOwned, TokensOf
        <5>3. QED BY <5>1, <5>2
      <4>3. CASE authorization = NoHeader
        BY <1>1, <4>1, <4>3 DEF Authenticate, IInv, CredentialsOwned
      <4>4. QED BY <4>2, <4>3
    <3>2. user = <<id, "owner">>
      <4>1. principal.role = "user" /\ principal.user = <<id, "owner">>
        BY <3>1 DEF Owner
      <4>2. UserAccess(principal, user) = 200
        BY <2>2
      <4> HIDE DEF principal
      <4>3. principal.role = "user" => user = principal.user
        BY <4>2 DEF UserAccess
      <4>4. QED BY <4>1, <4>3
    <3>3. QED BY <2>2, <3>1, <3>2 DEF OwnedUsers, UsersOf
  <2>5. QED BY <2>3, <2>4
<1>2. QED BY <1>1, IInvAlways, PTL DEF Spec, OrphansUnreadable
=============================================================================
