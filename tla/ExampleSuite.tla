----------------------------- MODULE ExampleSuite -----------------------------
(***************************************************************************)
(* The repository's example end to end: AuthorizationRunner runs the ten   *)
(* cases of examples/hono-user-admin/tests/authorization.test.ts against   *)
(* UserAdminServer.  The awaits of the runner's fixture lifecycle and HTTP *)
(* client are exchanges over a network on which the client can see any     *)
(* exchange fail, while the request it gave up is still on its way to the  *)
(* server and may be served at any later time, or never.                   *)
(***************************************************************************)
EXTENDS AuthorizationRunner

CONSTANT MaxLosses   \* bound on the exchanges that fail, in ExchangeFails

ASSUME MaxLossesAssumption == MaxLosses \in Nat

VARIABLES
    nextFixtureId, fixtures, bearerPrincipals, sessionPrincipals, users,
    patching, reply, overlapped,
    wire,      \* requests on their way to the server
    awaited,   \* the request whose answer the client awaits
    answer,    \* the answer to it, once the server has sent it
    held,      \* the fixture the client was given last
    observed,  \* the response that the case is evaluated on
    losses     \* exchanges that have failed

Server == INSTANCE UserAdminServer WITH MaxFixtures <- NumCases,
                                        Connection <- Case

serverVars == <<nextFixtureId, fixtures, bearerPrincipals, sessionPrincipals,
                users, patching, reply, overlapped>>
clientVars == <<awaited, answer, held, observed, losses>>
suiteRunVars == <<vars, serverVars, wire, clientVars>>

-----------------------------------------------------------------------------
(* The contract.  A case names its actor, the route and user it requests,  *)
(* the status it expects and the place of its id in the stable text order. *)

Declare(actor, route, target, status, rank) ==
    [actor |-> actor, route |-> route, target |-> target,
     status |-> status, rank |-> rank]

Declared ==
    <<Declare("anonymous",      "get",   "owner", 401, 3),
      Declare("raw-token",      "get",   "owner", 401, 6),
      Declare("user",           "get",   "owner", 200, 7),
      Declare("cookie-user",    "get",   "owner", 200, 4),
      Declare("invalid-cookie", "get",   "owner", 401, 5),
      Declare("user",           "get",   "other", 404, 10),
      Declare("admin",          "get",   "other", 200, 1),
      Declare("user",           "patch", "owner", 200, 8),
      Declare("user",           "audit", "owner", 403, 9),
      Declare("admin",          "audit", "owner", 200, 2)>>

ASSUME CasesAssumption == NumCases <= Len(Declared)

\* Mutation of SuiteCase: cases run in the order in which they are declared.
SuiteCaseAsDeclared(c) == Declared[c]

\* The cases run in the order of their ids.
SuiteCase(c) ==
    Declared[CHOOSE i \in DOMAIN Declared : Declared[i].rank = c]

\* What the session factory of an actor makes of a fixture: the Authorization
\* header and the session cookie.
AuthorizationOf(actor, id) ==
    CASE actor = "raw-token" -> Server!Malformed
      [] actor = "user"      -> <<id, "user">>
      [] actor = "admin"     -> <<id, "admin">>
      [] OTHER               -> Server!NoHeader

SessionOf(actor, id) == IF actor = "cookie-user" THEN id ELSE Server!NoSession

NoAnswer == [status |-> 0, user |-> Server!NoHeader, activeUsers |-> 0]

\* expectError compares the status, expectResponse the body too.
Meets(response, c) ==
    LET expected == SuiteCase(c) IN
    /\ response.status = expected.status
    /\ expected.status = 200 =>
          IF expected.route = "audit"
          THEN response.activeUsers = 2
          ELSE response.user = <<held, expected.target>>

-----------------------------------------------------------------------------
NoRequest == <<"none", 0, 0>>

SuiteRunInit ==
    /\ Init
    /\ Server!Init
    /\ wire = {}
    /\ awaited = NoRequest
    /\ answer = NoAnswer
    /\ held = 0
    /\ observed = NoAnswer
    /\ losses = 0

-----------------------------------------------------------------------------
(* The client: run() and the callbacks of the test.                        *)

\* Steps of the run that exchange nothing.  Ids are distinct, requests can be
\* built, and the session factories only read the fixture.
RunnerStep ==
    /\ \/ ExpandReturns \/ NextCase \/ EndLoop
       \/ RequestBuilt \/ AuthorizeResolves \/ Reporting
    /\ UNCHANGED <<serverVars, wire, clientVars>>

Issue(kind, id) ==
    /\ awaited = NoRequest
    /\ awaited' = <<kind, current, id>>
    /\ wire' = wire \cup {awaited'}
    /\ UNCHANGED <<vars, serverVars, answer, held, observed, losses>>

IssueRequest ==
    \/ pc = "creating"  /\ Issue("provision", 0)
    \/ pc = "sending"   /\ Issue("send", held)
    \/ pc = "disposing" /\ Issue("dispose", held)

Settled ==
    /\ awaited' = NoRequest
    /\ answer' = NoAnswer

\* Mutation of Provisioned: the first fixture is kept for all cases.
ProvisionedOnce ==
    /\ answer.status = 201
    /\ CreateResolves
    /\ held' = IF held = 0 THEN answer.user[1] ELSE held
    /\ Settled
    /\ UNCHANGED <<serverVars, wire, observed, losses>>

\* provisionFixture: it rejects any answer but a 201.
Provisioned ==
    /\ answer.status = 201
    /\ CreateResolves
    /\ held' = answer.user[1]
    /\ Settled
    /\ UNCHANGED <<serverVars, wire, observed, losses>>

\* disposeFixture: it rejects any answer but a 204.
Disposed ==
    /\ answer.status # 0
    /\ IF answer.status = 204 THEN DisposeResolves ELSE DisposeRejects
    /\ Settled
    /\ UNCHANGED <<serverVars, wire, held, observed, losses>>

Responded ==
    /\ answer.status # 0
    /\ HttpResponds
    /\ observed' = answer
    /\ Settled
    /\ UNCHANGED <<serverVars, wire, held, losses>>

\* fetch rejects; its request or its answer may still be under way.
ExchangeFails ==
    /\ awaited # NoRequest
    /\ losses < MaxLosses
    /\ losses' = losses + 1
    /\ CreateRejects \/ HttpRejects \/ DisposeRejects
    /\ Settled
    /\ UNCHANGED <<serverVars, wire, held, observed>>

Evaluated ==
    /\ EvaluateReturns
    /\ mismatches'[current] =
          IF Meets(observed, current) THEN <<>> ELSE <<"policy">>
    /\ UNCHANGED <<serverVars, wire, clientVars>>

-----------------------------------------------------------------------------
(* The server, on requests in any order.                                   *)

Answers(request, status, user, activeUsers) ==
    answer' = IF request = awaited
              THEN [status |-> status, user |-> user,
                    activeUsers |-> activeUsers]
              ELSE answer

Received(request) ==
    /\ request \in wire
    /\ wire' = wire \ {request}
    /\ UNCHANGED <<vars, awaited, held, observed, losses>>

ServeProvision(request) ==
    /\ request[1] = "provision"
    /\ Received(request)
    /\ Server!PostFixture
    /\ Answers(request, reply'.status, <<nextFixtureId', "owner">>, 0)

ServeDisposal(request) ==
    /\ request[1] = "dispose"
    /\ Received(request)
    /\ Server!DeleteFixture(request[3]) \/ Server!DeleteUnknown(request[3])
    /\ Answers(request, reply'.status, Server!NoHeader, 0)

\* A PATCH that is not turned away has no answer before its body.
ServeSend(request) ==
    LET sent == SuiteCase(request[2])
        authorization == AuthorizationOf(sent.actor, request[3])
        session == SessionOf(sent.actor, request[3])
        user == <<request[3], sent.target>>
    IN
    /\ request[1] = "send"
    /\ Received(request)
    /\ \/ /\ sent.route = "get"
          /\ Server!GetUser(authorization, session, user)
          /\ Answers(request, reply'.status, user, 0)
       \/ /\ sent.route = "audit"
          /\ Server!Audit(authorization, session)
          /\ Answers(request, reply'.status, Server!NoHeader,
                     Cardinality(users))
       \/ /\ sent.route = "patch"
          /\ Server!PatchUser(request[2], authorization, session, user)
          /\ IF patching' = patching
             THEN Answers(request, reply'.status, user, 0)
             ELSE UNCHANGED answer

\* The body of an abandoned PATCH may be cut off; json() then rejects.
ServePatchBody(c) ==
    LET request == <<"send", c, patching[c].user[1]>> IN
    /\ Server!PatchBody(c)
    /\ request = awaited => reply'.status = 200
    /\ Answers(request, reply'.status, reply'.user, 0)
    /\ UNCHANGED <<vars, wire, awaited, held, observed, losses>>

\* A request that the client gave up is lost.
RequestLost(request) ==
    /\ request \in wire \ {awaited}
    /\ wire' = wire \ {request}
    /\ UNCHANGED <<vars, serverVars, clientVars>>

SuiteRunNext ==
    \/ RunnerStep \/ IssueRequest
    \/ Provisioned \/ Responded \/ Disposed \/ ExchangeFails \/ Evaluated
    \/ \E request \in wire :
          \/ ServeProvision(request) \/ ServeDisposal(request)
          \/ ServeSend(request) \/ RequestLost(request)
    \/ \E c \in Case : ServePatchBody(c)

SuiteRunSpec == SuiteRunInit /\ [][SuiteRunNext]_suiteRunVars

-----------------------------------------------------------------------------
(* Correctness.                                                            *)

\* The server never has two of the suite's fixtures: the runner's cases are
\* isolated on the server too, although requests that were given up may be
\* served late.  A second one would follow a fixture that leaked.
OneFixtureAtATime == Cardinality(fixtures) <= 1

\* A case's requests, from the first to the last, are made for a fixture the
\* server has, with all its credentials: no late DELETE takes it away.
HeldIsLive ==
    pc \in InCase =>
        /\ held \in fixtures
        /\ Server!TokensOf(held) \subseteq bearerPrincipals
        /\ held \in sessionPrincipals
        /\ Server!UsersOf(held) \subseteq users

\* The target enforces its policy, so the contract must not report a policy
\* mismatch, whatever the network loses or delays; and when it loses nothing
\* the suite passes.  The audit counts the users of all fixtures, so this
\* rests on the order in which the cases run.
NoFalseMismatch ==
    /\ \A i \in DOMAIN caseReports :
          \A j \in DOMAIN caseReports[i].failures :
             caseReports[i].failures[j] = "transport-failure"
    /\ pc = "reporting" /\ losses = 0 => Report.outcome = "passed"

\* A suite that passed leaves nothing behind on the server.
PassedLeavesNothing ==
    pc = "reporting" /\ Report.outcome = "passed" =>
        /\ fixtures = {} /\ users = {}
        /\ bearerPrincipals = {} /\ sessionPrincipals = {}
        /\ wire = {}

\* A fixture the server still has once the run is over and the network is
\* empty is explained by a fixture failure in the report, and a user without a
\* fixture by the transport failure of its PATCH.
LeaksReported ==
    pc = "reporting" /\ wire = {} =>
        /\ fixtures # {} => suiteFailures = <<"fixture-failure">>
        /\ \A user \in users \ Server!OwnedUsers :
              /\ user[1] \in DOMAIN caseReports
              /\ SuiteCase(user[1]).route = "patch"
              /\ caseReports[user[1]].failures = <<"transport-failure">>

-----------------------------------------------------------------------------
(* The inductive invariant of the first two: where an exchange stands, by  *)
(* the await of the run, and what the server has by then.                  *)

Provisions == {request \in wire : request[1] = "provision"}
Disposals  == {request \in wire : request[1] = "dispose"}

\* The client awaits what its runner awaits, and nothing has answered yet if
\* it awaits nothing.
ExchangeInv ==
    /\ awaited # NoRequest =>
          \/ pc = "creating" /\ awaited = <<"provision", current, 0>>
          \/ pc = "sending" /\ awaited = <<"send", current, held>>
          \/ pc = "disposing" /\ awaited = <<"dispose", current, held>>
    /\ awaited = NoRequest => answer = NoAnswer

\* A lifecycle request that is on its way is unanswered, or the run gave it up
\* and has ended: no second one is made.
LifecycleInv ==
    /\ Provisions \subseteq {<<"provision", current, 0>>}
    /\ Disposals \subseteq {<<"dispose", current, held>>}
    /\ Provisions # {} =>
          \/ pc = "reporting"
          \/ pc = "creating" /\ awaited \in Provisions /\ answer = NoAnswer
    /\ Disposals # {} =>
          \/ pc = "reporting"
          \/ pc = "disposing" /\ awaited \in Disposals /\ answer = NoAnswer

\* The fixtures of the server follow from the await.
HoldingInv ==
    /\ pc \in {"expanding", "loading", "looping"} => fixtures = {}
    /\ pc = "creating" =>
          \/ answer = NoAnswer /\ fixtures = {}
          \/ /\ answer.status = 201 /\ answer.user[1] = nextFixtureId
             /\ fixtures = {nextFixtureId}
    /\ pc \in InCase => fixtures = {held}
    /\ pc = "disposing" =>
          \/ answer = NoAnswer /\ fixtures = {held}
          \/ answer.status = 204 /\ fixtures = {}
    /\ pc = "reporting" =>
          /\ \E id \in {nextFixtureId, held} : fixtures \subseteq {id}
          /\ Provisions # {} => fixtures = {}

\* A fixture that the server has it has with its credentials and its users.
LiveInv ==
    \A id \in fixtures :
        /\ Server!TokensOf(id) \subseteq bearerPrincipals
        /\ id \in sessionPrincipals
        /\ Server!UsersOf(id) \subseteq users

SuiteInv == ExchangeInv /\ LifecycleInv /\ HoldingInv /\ LiveInv

-----------------------------------------------------------------------------
(* What the last two rest on besides: whatever is left behind is explained *)
(* by the report of the case whose fixture has its number.                 *)

\* The case ended without the answer to its request.
Abandoned(c) ==
    c \in DOMAIN caseReports /\ caseReports[c].failures = <<"transport-failure">>

\* The fixture of the n-th case is the n-th one.
NumberInv ==
    /\ pc \in {"expanding", "loading", "looping"} => nextFixtureId = current
    /\ pc = "creating" =>
          nextFixtureId = IF answer = NoAnswer THEN current - 1 ELSE current
    /\ pc \in Holding => held = current /\ nextFixtureId = current

\* A case's request that is still on its way is awaited or was abandoned, and
\* one that was answered has left nothing open.
SendInv ==
    /\ \A request \in wire :
          /\ request[1] \in {"provision", "dispose", "send"}
          /\ request[1] = "send" =>
                /\ request = <<"send", request[2], request[2]>>
                /\ request = awaited \/ Abandoned(request[2])
    /\ pc = "sending" /\ answer # NoAnswer =>
          awaited \notin wire /\ patching[current] = Server!NoPatch

\* So is the PATCH that waits for its body.
PatchInv ==
    /\ patching = [c \in Case |-> patching[c]]
    /\ \A c \in Case : patching[c] # Server!NoPatch =>
          /\ patching[c].user \in Server!UsersOf(c)
          /\ SuiteCase(c).route = "patch"
          /\ <<"send", c, c>> \notin wire
          /\ awaited = <<"send", c, c>> \/ Abandoned(c)

\* A user is one of a fixture there is, or of an abandoned PATCH.
UserInv ==
    \A user \in users :
        /\ user \in Server!UsersOf(user[1])
        /\ \/ user[1] \in fixtures
           \/ SuiteCase(user[1]).route = "patch" /\ Abandoned(user[1])

\* Credentials are of the fixtures there are.
CredentialInv ==
    /\ \A token \in bearerPrincipals :
          \E id \in fixtures : token \in Server!TokensOf(id)
    /\ sessionPrincipals \subseteq fixtures

\* A run that failed to end a fixture says so.
VerdictInv ==
    /\ caller = "case"
    /\ pc # "reporting" => suiteFailures = <<>>
    /\ pc = "reporting" /\ (Provisions # {} \/ Disposals # {} \/ fixtures # {})
          => suiteFailures = <<"fixture-failure">>

LeakInv ==
    /\ NumberInv /\ SendInv /\ PatchInv /\ UserInv /\ CredentialInv
    /\ VerdictInv

-----------------------------------------------------------------------------
(* Why no mismatch is found: every answer to the case in hand, from the    *)
(* server to the expectation, is the one that was declared.                *)

MeetInv ==
    /\ pc = "sending" /\ answer # NoAnswer => Meets(answer, current)
    /\ pc = "evaluating" => Meets(observed, current)
    /\ \A c \in Case : patching[c] # Server!NoPatch =>
          patching[c].user = <<c, SuiteCase(c).target>>

\* Nothing but a failed exchange is reported.
LossInv ==
    /\ losses \in Nat
    /\ \A i \in DOMAIN caseReports :
          \/ caseReports[i].failures = <<>>
          \/ caseReports[i].failures = <<"transport-failure">> /\ losses # 0
    /\ losses = 0 => suiteFailures = <<>>

-----------------------------------------------------------------------------
(* The suite puts no request to the server that UserAdminServer does not   *)
(* know: what holds of the server whoever uses it holds of it in the       *)
(* suite, whenever it serves what.                                         *)

ServesAnyone == Server!Spec

\* A request to end a fixture names the one of a case.
EndInv == \A request \in Disposals : request[3] \in Case
=============================================================================
