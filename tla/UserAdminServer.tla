--------------------------- MODULE UserAdminServer ---------------------------
(***************************************************************************)
(* The target of the repository's example contract                         *)
(* (examples/hono-user-admin/src/server.ts): fixtures of two users, their  *)
(* bearer tokens and cookie sessions, and the routes that read and write   *)
(* them.  A handler runs without interruption up to its await of the       *)
(* request body, so PATCH is two steps: what it reads before the body is   *)
(* in, it writes after.                                                    *)
(*                                                                         *)
(* Identifiers are their fixture and kind.  The Maps from credentials to   *)
(* principals are the sets of their keys: a key determines its principal.  *)
(***************************************************************************)
EXTENDS Naturals, FiniteSets

CONSTANTS
    MaxFixtures,  \* bound on the fixtures provisioned, in the guard of POST
    Connection    \* connections on which a PATCH can be in progress

ASSUME MaxFixturesAssumption == MaxFixtures \in Nat

Id    == 1..MaxFixtures
User  == Id \X {"owner", "other"}
Token == Id \X {"user", "admin"}

NoHeader  == <<0, "none">>
Malformed == <<0, "malformed">>   \* no Bearer scheme, or an unknown token
Authorization == Token \cup {NoHeader, Malformed}

NoSession == 0                    \* no cookie, or one of an unknown session

Nobody == [role |-> "nobody", user |-> NoHeader]
Admin  == [role |-> "admin", user |-> NoHeader]
Owner(id) == [role |-> "user", user |-> <<id, "owner">>]
Principal == {Nobody, Admin} \cup {Owner(id) : id \in Id}

UsersOf(id)  == {<<id, "owner">>, <<id, "other">>}
TokensOf(id) == {<<id, "user">>, <<id, "admin">>}

NoPatch == [user |-> NoHeader, principal |-> Nobody]
Patch   == [user: User, principal: Principal \ {Nobody}]

VARIABLES
    nextFixtureId,
    fixtures, bearerPrincipals, sessionPrincipals, users,
    patching,    \* the PATCH that awaits its body on each connection
    reply,       \* history: the last reply
    overlapped   \* history: users deleted while a PATCH of them was awaiting

store == <<nextFixtureId, fixtures, bearerPrincipals, sessionPrincipals, users>>
vars  == <<store, patching, reply, overlapped>>

Status == {200, 201, 204, 400, 401, 403, 404}

TypeOK ==
    /\ nextFixtureId \in 0..MaxFixtures
    /\ fixtures \subseteq Id
    /\ bearerPrincipals \subseteq Token
    /\ sessionPrincipals \subseteq Id
    /\ users \subseteq User
    /\ patching \in [Connection -> Patch \cup {NoPatch}]
    /\ reply.route \in {"fixtures", "get", "patch", "audit"}
    /\ reply.principal \in Principal
    /\ reply.user \in User \cup {NoHeader}
    /\ reply.status \in Status
    /\ overlapped \subseteq User

\* authenticate(): a header, even a bad one, hides the cookie.
Authenticate(authorization, session) ==
    IF authorization # NoHeader
    THEN IF authorization \notin bearerPrincipals THEN Nobody
         ELSE IF authorization[2] = "admin" THEN Admin
         ELSE Owner(authorization[1])
    ELSE IF session \in sessionPrincipals THEN Owner(session) ELSE Nobody

Reply(route, principal, user, status) ==
    reply' = [route |-> route, principal |-> principal,
              user |-> user, status |-> status]

Init ==
    /\ nextFixtureId = 0
    /\ fixtures = {}
    /\ bearerPrincipals = {}
    /\ sessionPrincipals = {}
    /\ users = {}
    /\ patching = [c \in Connection |-> NoPatch]
    /\ reply = [route |-> "fixtures", principal |-> Nobody,
                user |-> NoHeader, status |-> 404]
    /\ overlapped = {}

-----------------------------------------------------------------------------
\* Mutation of PostFixture: the id is counted from the fixtures that exist.
PostFixtureByCount ==
    /\ nextFixtureId < MaxFixtures
    /\ nextFixtureId' = Cardinality(fixtures) + 1
    /\ fixtures' = fixtures \cup {nextFixtureId'}
    /\ bearerPrincipals' = bearerPrincipals \cup TokensOf(nextFixtureId')
    /\ sessionPrincipals' = sessionPrincipals \cup {nextFixtureId'}
    /\ users' = users \cup UsersOf(nextFixtureId')
    /\ Reply("fixtures", Nobody, NoHeader, 201)
    /\ UNCHANGED <<patching, overlapped>>

\* POST /test/fixtures, its body read: nothing is shared before that await.
PostFixture ==
    /\ nextFixtureId < MaxFixtures
    /\ nextFixtureId' = nextFixtureId + 1
    /\ fixtures' = fixtures \cup {nextFixtureId'}
    /\ bearerPrincipals' = bearerPrincipals \cup TokensOf(nextFixtureId')
    /\ sessionPrincipals' = sessionPrincipals \cup {nextFixtureId'}
    /\ users' = users \cup UsersOf(nextFixtureId')
    /\ Reply("fixtures", Nobody, NoHeader, 201)
    /\ UNCHANGED <<patching, overlapped>>

PostRefused ==
    /\ Reply("fixtures", Nobody, NoHeader, 400)
    /\ UNCHANGED <<store, patching, overlapped>>

\* Mutation of DeleteFixture: the session is left behind.
DeleteFixtureKeepsSession(id) ==
    /\ id \in fixtures
    /\ bearerPrincipals' = bearerPrincipals \ TokensOf(id)
    /\ users' = users \ UsersOf(id)
    /\ fixtures' = fixtures \ {id}
    /\ Reply("fixtures", Nobody, NoHeader, 204)
    /\ UNCHANGED <<nextFixtureId, sessionPrincipals, patching, overlapped>>

\* Mutation of DeleteFixture: the users are left behind.
DeleteFixtureKeepsUsers(id) ==
    /\ id \in fixtures
    /\ bearerPrincipals' = bearerPrincipals \ TokensOf(id)
    /\ sessionPrincipals' = sessionPrincipals \ {id}
    /\ fixtures' = fixtures \ {id}
    /\ Reply("fixtures", Nobody, NoHeader, 204)
    /\ UNCHANGED <<nextFixtureId, users, patching, overlapped>>

\* DELETE /test/fixtures/:fixtureId, without an await.
DeleteFixture(id) ==
    /\ id \in fixtures
    /\ bearerPrincipals' = bearerPrincipals \ TokensOf(id)
    /\ users' = users \ UsersOf(id)
    /\ sessionPrincipals' = sessionPrincipals \ {id}
    /\ fixtures' = fixtures \ {id}
    /\ overlapped' = overlapped \cup
                     (UsersOf(id) \cap {patching[c].user : c \in Connection})
    /\ Reply("fixtures", Nobody, NoHeader, 204)
    /\ UNCHANGED <<nextFixtureId, patching>>

DeleteUnknown(id) ==
    /\ id \notin fixtures
    /\ Reply("fixtures", Nobody, NoHeader, 404)
    /\ UNCHANGED <<store, patching, overlapped>>

\* Mutation of UserAccess: a foreign user is refused only if it exists.
UserAccessDisclosing(principal, user) ==
    IF principal = Nobody THEN 401
    ELSE IF user \notin users THEN 404
    ELSE IF principal.role = "user" /\ user # principal.user THEN 403
    ELSE 200

\* The status with which GET and PATCH turn a request away before they read
\* or write the user, and 200 when they do not.
UserAccess(principal, user) ==
    IF principal = Nobody THEN 401
    ELSE IF principal.role = "user" /\ user # principal.user THEN 404
    ELSE IF user \notin users THEN 404
    ELSE 200

\* GET /users/:userId
GetUser(authorization, session, user) ==
    LET principal == Authenticate(authorization, session) IN
    /\ Reply("get", principal, user, UserAccess(principal, user))
    /\ UNCHANGED <<store, patching, overlapped>>

\* PATCH /users/:userId up to its await of the body.
PatchUser(c, authorization, session, user) ==
    LET principal == Authenticate(authorization, session)
        status    == UserAccess(principal, user)
    IN
    /\ patching[c] = NoPatch
    /\ \/ /\ status = 200
          /\ patching' = [patching EXCEPT ![c] = [user |-> user,
                                                  principal |-> principal]]
          /\ UNCHANGED reply
       \/ /\ status # 200
          /\ Reply("patch", principal, user, status)
          /\ UNCHANGED patching
    /\ UNCHANGED <<store, overlapped>>

\* ... and from the body on: users.set(user.id, ...), whatever users holds now.
PatchBody(c) ==
    /\ patching[c] # NoPatch
    /\ \/ /\ users' = users \cup {patching[c].user}
          /\ Reply("patch", patching[c].principal, patching[c].user, 200)
       \/ /\ UNCHANGED users
          /\ Reply("patch", patching[c].principal, patching[c].user, 400)
    /\ patching' = [patching EXCEPT ![c] = NoPatch]
    /\ UNCHANGED <<nextFixtureId, fixtures, bearerPrincipals,
                   sessionPrincipals, overlapped>>

\* GET /admin/audit
Audit(authorization, session) ==
    LET principal == Authenticate(authorization, session) IN
    /\ Reply("audit", principal, NoHeader,
             IF principal = Nobody THEN 401
             ELSE IF principal # Admin THEN 403
             ELSE 200)
    /\ UNCHANGED <<store, patching, overlapped>>

Next ==
    \/ PostFixture \/ PostRefused
    \/ \E id \in Id : DeleteFixture(id) \/ DeleteUnknown(id)
    \/ \E authorization \in Authorization, session \in Id \cup {NoSession} :
          \/ \E user \in User :
                \/ GetUser(authorization, session, user)
                \/ \E c \in Connection :
                      PatchUser(c, authorization, session, user)
          \/ Audit(authorization, session)
    \/ \E c \in Connection : PatchBody(c)

Spec == Init /\ [][Next]_vars

-----------------------------------------------------------------------------
(* Correctness.                                                            *)

OwnedUsers == UNION {UsersOf(id) : id \in fixtures}

\* The credentials that authenticate are those of the live fixtures, which
\* also have both their users: DELETE revokes all of a fixture's credentials
\* and none of another's, whatever requests are in progress.
CredentialsOwned ==
    /\ bearerPrincipals = UNION {TokensOf(id) : id \in fixtures}
    /\ sessionPrincipals = fixtures
    /\ OwnedUsers \subseteq users
    /\ \A id \in fixtures : id <= nextFixtureId

\* The users are those of the live fixtures: fixtures are isolated, and what
\* one created is gone with it (README.md:36 and the example's README).
UsersOwned == users = OwnedUsers

\* A user without a fixture was being patched when its fixture was deleted:
\* nothing but that overlap leaves one behind.
OrphansOnlyFromOverlap == users \ OwnedUsers \subseteq overlapped

\* The credentials of a deleted fixture never open anything again: its id is
\* given to no other fixture, and no later step, of whatever request, puts its
\* tokens or its session back.
CredentialsExpire ==
    [][\A id \in 1..nextFixtureId : id \notin fixtures =>
          /\ id \notin fixtures'
          /\ id \notin sessionPrincipals'
          /\ TokensOf(id) \cap bearerPrincipals' = {}]_vars

\* A user is served only its own resource, cannot tell another user's from
\* one that does not exist (server.ts:109), and never sees the audit.
UsersConfined ==
    reply.principal.role = "user" =>
        /\ reply.route \in {"get", "patch"} /\ reply.user # reply.principal.user
              => reply.status = 404
        /\ reply.route = "audit" => reply.status = 403

\* A user that outlives its fixture is not readable with what were the
\* fixture's credentials: only an admin of a live fixture can still see it.
OrphansUnreadable ==
    [][/\ reply' # reply
       /\ reply'.route = "get"
       /\ reply'.status = 200
       => reply'.principal = Admin \/ reply'.user \in OwnedUsers]_vars
-----------------------------------------------------------------------------
(* The inductive invariant from which the properties above follow.  What   *)
(* they need beside each other is what a PATCH holds on to while it awaits *)
(* its body: a user that was there when the principal was let through.     *)

PatchInv ==
    \A c \in Connection : patching[c] # NoPatch =>
        /\ patching[c].user \in users \cup overlapped
        /\ patching[c].principal.role = "user" =>
              patching[c].user = patching[c].principal.user

IInv ==
    /\ TypeOK
    /\ CredentialsOwned
    /\ OrphansOnlyFromOverlap
    /\ UsersConfined
    /\ PatchInv
=============================================================================
