-------------------------- MODULE ExampleSuite_proofs --------------------------
(***************************************************************************)
(* Proofs about ExampleSuite, for a suite of any length and any number of  *)
(* failed exchanges: the isolation of the runner's cases is one of the     *)
(* server's fixtures, whenever the server serves what the client gave up.  *)
(***************************************************************************)
EXTENDS ExampleSuite, AuthorizationRunner_proofs

\* The suite's steps are steps of the runner, or leave it where it is.
LEMMA SuiteRuns == SuiteRunSpec => Spec
<1>1. SuiteRunInit => Init
  BY DEF SuiteRunInit
<1>2. [SuiteRunNext]_suiteRunVars => [Next]_vars
  BY DEF SuiteRunNext, suiteRunVars, RunnerStep, IssueRequest, Issue,
         Provisioned, Responded, Disposed, ExchangeFails, Evaluated,
         ServeProvision, ServeDisposal, ServeSend, ServePatchBody, Received,
         RequestLost, Next
<1>3. QED BY <1>1, <1>2, PTL DEF SuiteRunSpec, Spec

LEMMA SuiteInvInit == SuiteRunInit => SuiteInv
BY DEF SuiteRunInit, Init, Server!Init, SuiteInv, ExchangeInv, LifecycleInv,
       HoldingInv, LiveInv, Provisions, Disposals, InCase, Executing

\* What is on its way, by kind, is what it was while the wire is the same.
LEMMA SameWire ==
  ASSUME UNCHANGED wire PROVE UNCHANGED <<Provisions, Disposals>>
BY DEF Provisions, Disposals

LEMMA SameStore ==
  ASSUME LiveInv, UNCHANGED <<fixtures, bearerPrincipals, sessionPrincipals>>,
         users \subseteq users'
  PROVE  LiveInv'
BY DEF LiveInv, Server!TokensOf, Server!UsersOf

\* A lifecycle request has no answer before it is served.
LEMMA Unanswered ==
  ASSUME SuiteInv, answer.status # 0
  PROVE  /\ pc = "creating" => Provisions = {}
         /\ pc = "disposing" => Disposals = {}
         /\ pc \in {"creating", "sending", "disposing"}
BY DEF SuiteInv, ExchangeInv, LifecycleInv, NoAnswer

-----------------------------------------------------------------------------
(* The client.                                                             *)

LEMMA RunnerStepKeeps == ASSUME SuiteInv, RunnerStep PROVE SuiteInv'
<1>1. /\ UNCHANGED <<nextFixtureId, fixtures, bearerPrincipals,
                     sessionPrincipals, users>>
      /\ UNCHANGED <<wire, awaited, answer, held>>
  BY DEF RunnerStep, serverVars, clientVars
<1>2. UNCHANGED <<Provisions, Disposals>>
  BY <1>1, SameWire
<1>3. LiveInv'
  BY <1>1, SameStore DEF SuiteInv
<1>4. \/ pc \in {"expanding", "looping"} /\ pc' \in {"loading", "looping"}
         /\ current' = current
      \/ pc = "looping" /\ pc' \in {"creating", "reporting"}
      \/ pc = "building" /\ pc' \in {"authorizing", "sending"}
         /\ current' = current
      \/ pc = "authorizing" /\ pc' = "sending" /\ current' = current
      \/ pc' = pc /\ current' = current
  BY DEF RunnerStep, ExpandReturns, NextCase, EndLoop, RequestBuilt,
         AuthorizeResolves, Reporting, suiteVars, vars
<1>5. ExchangeInv'
  BY <1>1, <1>4 DEF SuiteInv, ExchangeInv
<1>6. LifecycleInv'
  BY <1>1, <1>2, <1>4 DEF SuiteInv, LifecycleInv
<1>7. HoldingInv'
  BY <1>1, <1>2, <1>4
  DEF SuiteInv, ExchangeInv, LifecycleInv, HoldingInv, InCase, Executing
<1>8. QED BY <1>3, <1>5, <1>6, <1>7 DEF SuiteInv

LEMMA IssueKeeps == ASSUME SuiteInv, IssueRequest PROVE SuiteInv'
<1>1. /\ UNCHANGED <<pc, current, held, answer, nextFixtureId, fixtures,
                     bearerPrincipals, sessionPrincipals, users>>
      /\ awaited = NoRequest
      /\ wire' = wire \cup {awaited'}
      /\ \/ pc = "creating" /\ awaited' = <<"provision", current, 0>>
         \/ pc = "sending" /\ awaited' = <<"send", current, held>>
         \/ pc = "disposing" /\ awaited' = <<"dispose", current, held>>
  BY DEF IssueRequest, Issue, vars, serverVars
<1>2. answer = NoAnswer
  BY <1>1 DEF SuiteInv, ExchangeInv
<1>3. ExchangeInv'
  BY <1>1, <1>2 DEF ExchangeInv
<1>4. /\ Provisions' = Provisions \cup
                          {request \in {awaited'} : request[1] = "provision"}
      /\ Disposals' = Disposals \cup
                          {request \in {awaited'} : request[1] = "dispose"}
  BY <1>1 DEF Provisions, Disposals
<1>5. LifecycleInv'
  BY <1>1, <1>2, <1>4 DEF SuiteInv, LifecycleInv
<1>6. HoldingInv'
  BY <1>1, <1>2, <1>4 DEF SuiteInv, HoldingInv, InCase, Executing
<1>7. LiveInv'
  BY <1>1, SameStore DEF SuiteInv
<1>8. QED BY <1>3, <1>5, <1>6, <1>7 DEF SuiteInv

LEMMA ProvisionedKeeps == ASSUME SuiteInv, Provisioned PROVE SuiteInv'
<1>1. /\ pc = "creating" /\ pc' = "building" /\ current' = current
      /\ answer.status = 201 /\ held' = answer.user[1]
      /\ awaited' = NoRequest /\ answer' = NoAnswer
      /\ UNCHANGED <<wire, nextFixtureId, fixtures, bearerPrincipals,
                     sessionPrincipals, users>>
  BY DEF Provisioned, CreateResolves, Settled, serverVars, suiteVars
<1>2. Provisions = {} /\ Disposals = {} /\ fixtures = {held'}
  BY <1>1, Unanswered DEF SuiteInv, LifecycleInv, HoldingInv, NoAnswer
<1>3. Provisions' = {} /\ Disposals' = {}
  BY <1>1, <1>2, SameWire
<1>4. ExchangeInv' /\ LifecycleInv' /\ HoldingInv'
  BY <1>1, <1>2, <1>3
  DEF ExchangeInv, LifecycleInv, HoldingInv, InCase, Executing
<1>5. LiveInv'
  BY <1>1, SameStore DEF SuiteInv
<1>6. QED BY <1>4, <1>5 DEF SuiteInv

\* A case goes on, or ends, on the fixture that it holds.
LEMMA CaseKeeps ==
  ASSUME SuiteInv, pc \in InCase, pc' \in InCase \cup {"disposing"},
         UNCHANGED <<current, held, wire, nextFixtureId, fixtures,
                     bearerPrincipals, sessionPrincipals, users>>,
         awaited' = NoRequest, answer' = NoAnswer
  PROVE  SuiteInv'
<1>1. Provisions' = {} /\ Disposals' = {}
  BY SameWire DEF SuiteInv, LifecycleInv, InCase, Executing
<1>2. ExchangeInv' /\ LifecycleInv'
  BY <1>1 DEF ExchangeInv, LifecycleInv
<1>3. HoldingInv'
  BY <1>1 DEF SuiteInv, HoldingInv, InCase, Executing
<1>4. LiveInv'
  BY SameStore DEF SuiteInv
<1>5. QED BY <1>2, <1>3, <1>4 DEF SuiteInv

LEMMA RespondedKeeps == ASSUME SuiteInv, Responded PROVE SuiteInv'
<1>1. /\ pc \in InCase /\ pc' \in InCase
      /\ UNCHANGED <<current, held, wire, nextFixtureId, fixtures,
                     bearerPrincipals, sessionPrincipals, users>>
      /\ awaited' = NoRequest /\ answer' = NoAnswer
  BY DEF Responded, HttpResponds, Settled, serverVars, suiteVars, InCase,
         Executing
<1>2. QED BY <1>1, CaseKeeps

LEMMA EvaluatedKeeps == ASSUME SuiteInv, Evaluated PROVE SuiteInv'
<1>1. /\ pc = "evaluating" /\ pc' \in {"verifying", "disposing"}
      /\ UNCHANGED <<current, held, wire, nextFixtureId, fixtures,
                     bearerPrincipals, sessionPrincipals, users, awaited, answer>>
  BY DEF Evaluated, EvaluateReturns, CheckReturns, Conclude, serverVars,
         clientVars, suiteVars
<1>2. awaited' = NoRequest /\ answer' = NoAnswer
  BY <1>1 DEF SuiteInv, ExchangeInv
<1>3. QED BY <1>1, <1>2, CaseKeeps DEF InCase, Executing

LEMMA DisposedKeeps == ASSUME SuiteInv, Disposed PROVE SuiteInv'
<1>1. /\ pc = "disposing" /\ pc' \in {"looping", "reporting"}
      /\ current' = current /\ held' = held /\ answer.status # 0
      /\ awaited' = NoRequest /\ answer' = NoAnswer
      /\ UNCHANGED <<wire, nextFixtureId, fixtures, bearerPrincipals,
                     sessionPrincipals, users>>
  BY DEF Disposed, DisposeResolves, DisposeRejects, Settled, serverVars,
         suiteVars
<1>2. Provisions = {} /\ Disposals = {} /\ fixtures = {}
  BY <1>1, Unanswered DEF SuiteInv, LifecycleInv, HoldingInv, NoAnswer
<1>3. Provisions' = {} /\ Disposals' = {}
  BY <1>1, <1>2, SameWire
<1>4. ExchangeInv' /\ LifecycleInv' /\ HoldingInv'
  BY <1>1, <1>2, <1>3
  DEF ExchangeInv, LifecycleInv, HoldingInv, InCase, Executing
<1>5. LiveInv'
  BY <1>1, SameStore DEF SuiteInv
<1>6. QED BY <1>4, <1>5 DEF SuiteInv

\* A failed exchange of the lifecycle ends the run; what it was about may be
\* done or undone, now or later.
LEMMA ExchangeFailsKeeps ==
  ASSUME IInv, SuiteInv, ExchangeFails PROVE SuiteInv'
<1>1. /\ awaited' = NoRequest /\ answer' = NoAnswer
      /\ UNCHANGED <<held, wire, nextFixtureId, fixtures, bearerPrincipals,
                     sessionPrincipals, users>>
  BY DEF ExchangeFails, Settled, serverVars
<1>2. UNCHANGED <<Provisions, Disposals>>
  BY <1>1, SameWire
<1>3. CASE HttpRejects
  <2>1. /\ pc = "sending" /\ pc' \in {"disposing", "verifying"}
        /\ current' = current
    BY <1>3 DEF HttpRejects, ExecutorThrows, Conclude, suiteVars
  <2>2. QED BY <1>1, <2>1, CaseKeeps DEF InCase, Executing
<1>4. CASE CreateRejects \/ DisposeRejects
  <2>1. /\ pc \in {"creating", "disposing"} /\ pc' = "reporting"
        /\ current' = current
    BY <1>4 DEF CreateRejects, DisposeRejects, suiteVars, IInv, PositionInv
  <2>2. ExchangeInv' /\ LifecycleInv'
    BY <1>1, <1>2, <2>1 DEF SuiteInv, ExchangeInv, LifecycleInv
  <2>3. HoldingInv'
    <3>1. /\ \E id \in {nextFixtureId, held} : fixtures \subseteq {id}
          /\ Provisions # {} => fixtures = {}
      BY <2>1 DEF SuiteInv, LifecycleInv, HoldingInv, NoAnswer
    <3>2. QED BY <1>1, <1>2, <2>1, <3>1 DEF HoldingInv, InCase, Executing
  <2>4. LiveInv'
    BY <1>1, SameStore DEF SuiteInv
  <2>5. QED BY <2>2, <2>3, <2>4 DEF SuiteInv
<1>5. QED BY <1>3, <1>4 DEF ExchangeFails

-----------------------------------------------------------------------------
(* The server.                                                             *)

\* Taking a request off the wire takes it off those of its kind only.
LEMMA TakenOff ==
  ASSUME NEW request \in wire, wire' = wire \ {request}
  PROVE  /\ Provisions' = Provisions \ {request}
         /\ Disposals' = Disposals \ {request}
BY DEF Provisions, Disposals

\* The only provision there can be to serve is the one the client awaits, or
\* the one whose failure ended the run.
LEMMA ServeProvisionKeeps ==
  ASSUME SuiteInv, NEW request \in wire, ServeProvision(request)
  PROVE  SuiteInv'
<1>1. /\ wire' = wire \ {request}
      /\ UNCHANGED <<pc, current, awaited, held>>
      /\ nextFixtureId' = nextFixtureId + 1
      /\ fixtures' = fixtures \cup {nextFixtureId'}
      /\ bearerPrincipals' = bearerPrincipals
                                \cup Server!TokensOf(nextFixtureId')
      /\ sessionPrincipals' = sessionPrincipals \cup {nextFixtureId'}
      /\ users' = users \cup Server!UsersOf(nextFixtureId')
      /\ answer' = IF request = awaited
                   THEN [status |-> 201, user |-> <<nextFixtureId', "owner">>,
                         activeUsers |-> 0]
                   ELSE answer
  BY DEF ServeProvision, Received, Answers, Server!PostFixture, Server!Reply,
         vars
<1>2. request \in Provisions
  BY DEF ServeProvision, Provisions
<1>3. /\ request = <<"provision", current, 0>>
      /\ Provisions' = {} /\ Disposals' = Disposals
  BY <1>1, <1>2, TakenOff DEF SuiteInv, LifecycleInv, Disposals
<1>4. \/ pc = "creating" /\ request = awaited /\ answer = NoAnswer
         /\ fixtures = {} /\ Disposals = {}
      \/ pc = "reporting" /\ fixtures = {} /\ awaited = NoRequest
  BY <1>2, <1>3 DEF SuiteInv, ExchangeInv, LifecycleInv, HoldingInv, NoAnswer
<1>5. ExchangeInv'
  BY <1>1, <1>3, <1>4 DEF SuiteInv, ExchangeInv, NoRequest
<1>6. LifecycleInv'
  BY <1>1, <1>3, <1>4 DEF SuiteInv, LifecycleInv
<1>7. HoldingInv'
  <2>1. fixtures' = {nextFixtureId'}
    BY <1>1, <1>4
  <2>2. pc = "creating" => answer'.status = 201
                           /\ answer'.user[1] = nextFixtureId'
    BY <1>1, <1>4
  <2>3. QED
    BY <1>1, <1>3, <1>4, <2>1, <2>2 DEF HoldingInv, InCase, Executing
<1>8. LiveInv'
  BY <1>1 DEF SuiteInv, LiveInv, Server!TokensOf, Server!UsersOf
<1>9. QED BY <1>5, <1>6, <1>7, <1>8 DEF SuiteInv

\* A disposal that is served is of the fixture in hand: the client awaits it,
\* or has ended.
LEMMA ServeDisposalKeeps ==
  ASSUME SuiteInv, NEW request \in wire, ServeDisposal(request)
  PROVE  SuiteInv'
<1> DEFINE id == request[3]
<1>1. /\ wire' = wire \ {request}
      /\ UNCHANGED <<pc, current, awaited, held, nextFixtureId>>
      /\ fixtures' = fixtures \ {id}
      /\ \/ /\ id \in fixtures
            /\ bearerPrincipals' = bearerPrincipals \ Server!TokensOf(id)
            /\ sessionPrincipals' = sessionPrincipals \ {id}
            /\ users' = users \ Server!UsersOf(id)
            /\ reply'.status = 204
         \/ /\ id \notin fixtures
            /\ UNCHANGED <<bearerPrincipals, sessionPrincipals, users>>
      /\ answer' = IF request = awaited
                   THEN [status |-> reply'.status, user |-> Server!NoHeader,
                         activeUsers |-> 0]
                   ELSE answer
  BY DEF ServeDisposal, Received, Answers, Server!DeleteFixture,
         Server!DeleteUnknown, Server!Reply, Server!store, vars
<1>2. request \in Disposals
  BY DEF ServeDisposal, Disposals
<1>3. /\ request = <<"dispose", current, held>> /\ id = held
      /\ Disposals' = {} /\ Provisions' = Provisions
  BY <1>1, <1>2, TakenOff DEF SuiteInv, LifecycleInv, Provisions
<1>4. \/ pc = "disposing" /\ request = awaited /\ answer = NoAnswer
         /\ fixtures = {held} /\ Provisions = {}
      \/ pc = "reporting" /\ awaited = NoRequest
  BY <1>2, <1>3 DEF SuiteInv, ExchangeInv, LifecycleInv, HoldingInv, NoAnswer
<1> HIDE DEF id
<1>5. ExchangeInv'
  BY <1>1, <1>3, <1>4 DEF SuiteInv, ExchangeInv, NoRequest
<1>6. LifecycleInv'
  BY <1>1, <1>3, <1>4 DEF SuiteInv, LifecycleInv
<1>7. HoldingInv'
  <2>1. CASE pc = "disposing"
    <3>1. fixtures' = {} /\ answer'.status = 204
      BY <1>1, <1>3, <1>4, <2>1
    <3>2. QED BY <1>1, <2>1, <3>1 DEF HoldingInv, InCase, Executing
  <2>2. CASE pc = "reporting"
    BY <1>1, <1>3, <2>2 DEF SuiteInv, HoldingInv, InCase, Executing
  <2>3. QED BY <1>4, <2>1, <2>2
<1>8. LiveInv'
  BY <1>1 DEF SuiteInv, LiveInv, Server!TokensOf, Server!UsersOf
<1>9. QED BY <1>5, <1>6, <1>7, <1>8 DEF SuiteInv

\* Whatever a case's request does, late or not, is done to users.
LEMMA SendKeeps ==
  ASSUME SuiteInv,
         UNCHANGED <<pc, current, awaited, held, nextFixtureId, fixtures,
                     bearerPrincipals, sessionPrincipals>>,
         users \subseteq users',
         UNCHANGED <<Provisions, Disposals>>,
         pc \in {"creating", "disposing"} => answer' = answer,
         awaited = NoRequest => answer' = answer
  PROVE  SuiteInv'
<1>1. ExchangeInv'
  BY DEF SuiteInv, ExchangeInv
<1>2. LifecycleInv'
  BY DEF SuiteInv, LifecycleInv
<1>3. HoldingInv'
  BY DEF SuiteInv, HoldingInv
<1>4. LiveInv'
  BY SameStore DEF SuiteInv
<1>5. QED BY <1>1, <1>2, <1>3, <1>4 DEF SuiteInv

LEMMA ServeSendKeeps ==
  ASSUME SuiteInv, NEW request \in wire, ServeSend(request)
  PROVE  SuiteInv'
<1>1. /\ request[1] = "send" /\ wire' = wire \ {request}
      /\ UNCHANGED <<pc, current, awaited, held>>
  BY DEF ServeSend, Received, vars
<1>2. UNCHANGED <<nextFixtureId, fixtures, bearerPrincipals,
                  sessionPrincipals, users>>
  BY DEF ServeSend, Server!GetUser, Server!Audit, Server!PatchUser,
         Server!store
<1>3. request # awaited => answer' = answer
  BY DEF ServeSend, Answers
<1>4. UNCHANGED <<Provisions, Disposals>>
  BY <1>1, TakenOff DEF Provisions, Disposals
<1>5. request = awaited => pc = "sending"
  BY <1>1 DEF SuiteInv, ExchangeInv, NoRequest
<1>6. QED
  BY <1>1, <1>2, <1>3, <1>4, <1>5, SendKeeps DEF NoRequest

LEMMA ServePatchBodyKeeps ==
  ASSUME SuiteInv, NEW c \in Case, ServePatchBody(c)
  PROVE  SuiteInv'
<1> DEFINE request == <<"send", c, patching[c].user[1]>>
<1>1. UNCHANGED <<pc, current, awaited, held, wire>>
  BY DEF ServePatchBody, vars
<1>2. /\ UNCHANGED <<nextFixtureId, fixtures, bearerPrincipals,
                     sessionPrincipals>>
      /\ users \subseteq users'
  BY DEF ServePatchBody, Server!PatchBody
<1>3. request # awaited => answer' = answer
  BY DEF ServePatchBody, Answers
<1>4. UNCHANGED <<Provisions, Disposals>>
  BY <1>1, SameWire
<1>5. request = awaited => pc = "sending" /\ awaited # NoRequest
  BY DEF SuiteInv, ExchangeInv, NoRequest
<1>6. QED BY <1>1, <1>2, <1>3, <1>4, <1>5, SendKeeps

LEMMA RequestLostKeeps ==
  ASSUME SuiteInv, NEW request \in wire, RequestLost(request)
  PROVE  SuiteInv'
<1>1. /\ wire' = wire \ {request} /\ request # awaited
      /\ UNCHANGED <<pc, current, awaited, answer, held, nextFixtureId,
                     fixtures, bearerPrincipals, sessionPrincipals, users>>
  BY DEF RequestLost, vars, serverVars, clientVars
<1>2. /\ Provisions' = Provisions \ {request}
      /\ Disposals' = Disposals \ {request}
  BY <1>1, TakenOff
<1>3. ExchangeInv' /\ LifecycleInv'
  BY <1>1, <1>2 DEF SuiteInv, ExchangeInv, LifecycleInv
<1>4. HoldingInv'
  BY <1>1, <1>2 DEF SuiteInv, HoldingInv
<1>5. LiveInv'
  BY <1>1, SameStore DEF SuiteInv
<1>6. QED BY <1>3, <1>4, <1>5 DEF SuiteInv

-----------------------------------------------------------------------------
(* The theorems.                                                           *)

LEMMA SuiteInvariant == SuiteRunSpec => []SuiteInv
<1>1. IInv /\ SuiteInv /\ [SuiteRunNext]_suiteRunVars => SuiteInv'
  <2> SUFFICES ASSUME IInv, SuiteInv, [SuiteRunNext]_suiteRunVars
               PROVE  SuiteInv'
    OBVIOUS
  <2>1. CASE UNCHANGED suiteRunVars
    BY <2>1
    DEF suiteRunVars, vars, serverVars, clientVars, SuiteInv, ExchangeInv,
        LifecycleInv, HoldingInv, LiveInv, Provisions, Disposals
  <2>2. CASE \E request \in wire :
                \/ ServeProvision(request) \/ ServeDisposal(request)
                \/ ServeSend(request) \/ RequestLost(request)
    BY <2>2, ServeProvisionKeeps, ServeDisposalKeeps, ServeSendKeeps,
       RequestLostKeeps
  <2>3. CASE \E c \in Case : ServePatchBody(c)
    BY <2>3, ServePatchBodyKeeps
  <2>4. QED
    BY <2>1, <2>2, <2>3, RunnerStepKeeps, IssueKeeps, ProvisionedKeeps,
       RespondedKeeps, DisposedKeeps, ExchangeFailsKeeps, EvaluatedKeeps
    DEF SuiteRunNext
<1>2. QED
  BY <1>1, SuiteInvInit, SuiteRuns, InductiveInvariant, PTL DEF SuiteRunSpec

\* A suite has one fixture on its server at a time, also while requests that
\* the client has given up are still under way (authorization.test.ts:
\* provisionFixture, disposeFixture; runner.ts:293-336).
THEOREM OneAtATime == SuiteRunSpec => []OneFixtureAtATime
<1>1. IInv /\ SuiteInv => OneFixtureAtATime
  <2> SUFFICES ASSUME IInv, SuiteInv PROVE OneFixtureAtATime
    OBVIOUS
  <2>1. PICK id : fixtures \subseteq {id}
    <3>1. pc \in Location
      BY DEF IInv, TypeInv, TypeOK
    <3>2. \/ fixtures = {} \/ fixtures = {held} \/ fixtures = {nextFixtureId}
          \/ \E id \in {nextFixtureId, held} : fixtures \subseteq {id}
      BY <3>1 DEF SuiteInv, HoldingInv, Location, Holding
    <3>3. QED BY <3>2
  <2>2. fixtures = {} \/ fixtures = {id}
    BY <2>1
  <2>3. Cardinality({}) = 0 /\ Cardinality({id}) = 1
    BY FS_EmptySet, FS_Singleton
  <2>4. QED BY <2>2, <2>3 DEF OneFixtureAtATime
<1>2. QED BY <1>1, SuiteInvariant, SuiteRuns, InductiveInvariant, PTL

\* A case is answered by a server that has its fixture, with its credentials
\* and users, from its first request to its last: no DELETE or POST that is
\* served late interferes.
THEOREM HeldStaysLive == SuiteRunSpec => []HeldIsLive
<1>1. SuiteInv => HeldIsLive
  BY DEF SuiteInv, HoldingInv, LiveInv, HeldIsLive
<1>2. QED BY <1>1, SuiteInvariant, PTL

-----------------------------------------------------------------------------
(* What is left behind.                                                    *)

LEMMA LeakInvInit == SuiteRunInit => LeakInv
<1> SUFFICES ASSUME SuiteRunInit PROVE LeakInv
  OBVIOUS
<1>1. NumberInv /\ SendInv /\ VerdictInv
  BY DEF SuiteRunInit, Init, Server!Init, NumberInv, SendInv, VerdictInv,
         Holding, InCase, Executing
<1>2. PatchInv /\ UserInv /\ CredentialInv
  BY DEF SuiteRunInit, Server!Init, PatchInv, UserInv, CredentialInv
<1>3. QED BY <1>1, <1>2 DEF LeakInv

\* A report stays once it is there, and a case has none while it runs.
LEMMA ReportStays ==
  ASSUME IInv, \/ caseReports' = caseReports
               \/ \E report : caseReports' = Append(caseReports, report)
  PROVE  \A c : Abandoned(c) => Abandoned(c)'
<1>1. caseReports \in Seq(CaseReport)
  BY DEF IInv, TypeInv, TypeOK
<1>2. CASE caseReports' = caseReports
  BY <1>2 DEF Abandoned
<1>3. ASSUME NEW report, caseReports' = Append(caseReports, report)
      PROVE  \A c : Abandoned(c) => Abandoned(c)'
  <2>1. \A c \in DOMAIN caseReports :
           c \in DOMAIN caseReports' /\ caseReports'[c] = caseReports[c]
    BY <1>1, <1>3
  <2>2. QED BY <2>1 DEF Abandoned
<1>4. QED BY <1>2, <1>3

LEMMA NotYetAbandoned ==
  ASSUME IInv, pc \in InCase
  PROVE  ~Abandoned(current) /\ current \in Case
<1>1. Len(caseReports) = current - 1 /\ caseReports \in Seq(CaseReport)
      /\ current \in Case
  BY DEF IInv, PositionInv, TypeInv, TypeOK, InCase, Holding
<1>2. current \notin 1..Len(caseReports)
  BY <1>1, NumCasesAssumption DEF Case
<1>3. QED BY <1>1, <1>2 DEF Abandoned

\* A step of the client that leaves the wire alone, and the request of a case
\* answered or abandoned.
LEMMA ClientKeeps ==
  ASSUME LeakInv, UNCHANGED <<serverVars, wire>>,
         \A c : Abandoned(c) => Abandoned(c)',
         \/ awaited' = awaited
         \/ awaited[1] # "send"
         \/ \E c : c = awaited[2] /\ Abandoned(c)'
         \/ awaited \notin wire
            /\ \A c \in Case : awaited = <<"send", c, c>>
                                   => patching[c] = Server!NoPatch
  PROVE  /\ \A request \in wire' :
               /\ request[1] \in {"provision", "dispose", "send"}
               /\ request[1] = "send" =>
                     /\ request = <<"send", request[2], request[2]>>
                     /\ request = awaited' \/ Abandoned(request[2])'
         /\ PatchInv' /\ UserInv' /\ CredentialInv'
<1>1. UNCHANGED <<wire, patching, users, fixtures, bearerPrincipals,
                  sessionPrincipals>>
  BY DEF serverVars
<1>2. \A request \in wire' :
         /\ request[1] \in {"provision", "dispose", "send"}
         /\ request[1] = "send" =>
               /\ request = <<"send", request[2], request[2]>>
               /\ request = awaited' \/ Abandoned(request[2])'
  <2> SUFFICES ASSUME NEW request \in wire
               PROVE  /\ request[1] \in {"provision", "dispose", "send"}
                      /\ request[1] = "send" =>
                            /\ request = <<"send", request[2], request[2]>>
                            /\ request = awaited' \/ Abandoned(request[2])'
    BY <1>1
  <2>1. /\ request[1] \in {"provision", "dispose", "send"}
        /\ request[1] = "send" =>
              /\ request = <<"send", request[2], request[2]>>
              /\ request = awaited \/ Abandoned(request[2])
    BY DEF LeakInv, SendInv
  <2>2. request[1] = "send" /\ request = awaited =>
           request = awaited' \/ Abandoned(request[2])'
    OBVIOUS
  <2>3. QED BY <2>1, <2>2
<1>3. PatchInv'
  <2>1. ASSUME NEW c \in Case, patching[c] # Server!NoPatch
        PROVE  awaited' = <<"send", c, c>> \/ Abandoned(c)'
    <3>1. CASE Abandoned(c)
      BY <3>1
    <3>2. CASE awaited = <<"send", c, c>>
      <4>1. awaited[1] = "send" /\ awaited[2] = c
        BY <3>2
      <4>2. \/ awaited' = awaited
            \/ Abandoned(c)'
            \/ patching[c] = Server!NoPatch
        BY <3>2, <4>1
      <4>3. QED BY <2>1, <3>2, <4>1, <4>2
    <3>3. QED BY <2>1, <3>1, <3>2 DEF LeakInv, PatchInv
  <2>2. QED BY <1>1, <2>1 DEF LeakInv, PatchInv
<1>4. UserInv' /\ CredentialInv'
  BY <1>1 DEF LeakInv, UserInv, CredentialInv
<1>5. QED BY <1>2, <1>3, <1>4

LEMMA RunnerStepLeaks ==
  ASSUME IInv, SuiteInv, LeakInv, RunnerStep PROVE LeakInv'
<1>1. /\ UNCHANGED <<serverVars, wire>>
      /\ UNCHANGED <<awaited, answer, held, caseReports, suiteFailures, caller>>
  BY DEF RunnerStep, clientVars, ExpandReturns, NextCase, EndLoop,
         RequestBuilt, AuthorizeResolves, Reporting, suiteVars, caseVars, vars
<1>2. \A c : Abandoned(c) => Abandoned(c)'
  BY <1>1 DEF Abandoned
<1>3. \/ pc \in {"expanding", "looping"} /\ pc' \in {"loading", "looping"}
         /\ current' = current
      \/ pc = "looping" /\ pc' = "creating" /\ current' = current + 1
      \/ pc = "looping" /\ pc' = "reporting"
      \/ pc \in {"building", "authorizing"} /\ pc' \in {"authorizing", "sending"}
         /\ current' = current
      \/ pc' = "reporting" /\ pc = "reporting"
  BY DEF RunnerStep, ExpandReturns, NextCase, EndLoop, RequestBuilt,
         AuthorizeResolves, Reporting, suiteVars, vars
<1>4. pc \notin {"creating", "sending", "disposing"} =>
         awaited = NoRequest /\ answer = NoAnswer
  BY DEF SuiteInv, ExchangeInv
<1>5. NumberInv'
  <2>1. nextFixtureId' = nextFixtureId /\ current \in Nat
    BY <1>1, NumCasesAssumption DEF serverVars, IInv, TypeInv, TypeOK
  <2>2. QED
    BY <1>1, <1>3, <1>4, <2>1
    DEF LeakInv, NumberInv, Holding, InCase, Executing
<1>6. SendInv'
  BY <1>1, <1>2, <1>3, <1>4, ClientKeeps DEF SendInv
<1>7. VerdictInv'
  <2>1. UNCHANGED <<Provisions, Disposals, fixtures>>
    BY <1>1, SameWire DEF serverVars
  <2>2. pc = "looping" => Provisions = {} /\ Disposals = {} /\ fixtures = {}
    BY DEF SuiteInv, LifecycleInv, HoldingInv
  <2>3. QED BY <1>1, <1>3, <2>1, <2>2 DEF LeakInv, VerdictInv
<1>8. QED BY <1>1, <1>2, <1>5, <1>6, <1>7, ClientKeeps DEF LeakInv

LEMMA IssueLeaks ==
  ASSUME IInv, SuiteInv, LeakInv, IssueRequest PROVE LeakInv'
<1>1. /\ UNCHANGED <<vars, serverVars, answer, held>>
      /\ awaited = NoRequest
      /\ wire' = wire \cup {awaited'}
      /\ \/ pc = "creating" /\ awaited' = <<"provision", current, 0>>
         \/ pc = "sending" /\ awaited' = <<"send", current, held>>
         \/ pc = "disposing" /\ awaited' = <<"dispose", current, held>>
  BY DEF IssueRequest, Issue
<1>2. UNCHANGED <<pc, current, caseReports, suiteFailures, caller>>
  BY <1>1 DEF vars
<1>3. answer = NoAnswer
  BY <1>1 DEF SuiteInv, ExchangeInv
<1>4. \A c : Abandoned(c)' <=> Abandoned(c)
  BY <1>2 DEF Abandoned
<1>5. NumberInv' /\ VerdictInv'
  BY <1>1, <1>2 DEF LeakInv, NumberInv, VerdictInv, serverVars
<1>6. SendInv'
  <2>1. ASSUME NEW request \in wire'
        PROVE  /\ request[1] \in {"provision", "dispose", "send"}
               /\ request[1] = "send" =>
                     /\ request = <<"send", request[2], request[2]>>
                     /\ request = awaited' \/ Abandoned(request[2])'
    <3>1. CASE request = awaited'
      <4>1. pc = "sending" => held = current
        BY DEF LeakInv, NumberInv, Holding, InCase, Executing
      <4>2. QED BY <1>1, <3>1, <4>1
    <3>2. CASE request \in wire
      BY <1>1, <1>4, <3>2 DEF LeakInv, SendInv, NoRequest
    <3>3. QED BY <1>1, <2>1, <3>1, <3>2
  <2>2. QED BY <1>1, <1>3, <2>1 DEF SendInv
<1>7. PatchInv'
  <2>1. ASSUME NEW c \in Case, patching[c] # Server!NoPatch
        PROVE  Abandoned(c) /\ <<"send", c, c>> \notin wire'
    <3>1. Abandoned(c) /\ <<"send", c, c>> \notin wire
      BY <1>1, <2>1 DEF LeakInv, PatchInv, NoRequest
    <3>2. <<"send", c, c>> # awaited'
      BY <1>1, <3>1, NotYetAbandoned DEF InCase, Executing
    <3>3. QED BY <1>1, <3>1, <3>2
  <2>2. patching' = patching
    BY <1>1 DEF serverVars
  <2>3. QED BY <1>4, <2>1, <2>2 DEF LeakInv, PatchInv
<1>8. UserInv' /\ CredentialInv'
  BY <1>1, <1>4 DEF LeakInv, UserInv, CredentialInv, serverVars
<1>9. QED BY <1>5, <1>6, <1>7, <1>8 DEF LeakInv

LEMMA ProvisionedLeaks ==
  ASSUME IInv, SuiteInv, LeakInv, Provisioned PROVE LeakInv'
<1>1. /\ pc = "creating" /\ pc' = "building" /\ caller' = "case"
      /\ answer.status = 201 /\ held' = answer.user[1]
      /\ awaited' = NoRequest /\ answer' = NoAnswer
      /\ UNCHANGED <<serverVars, wire>>
      /\ UNCHANGED <<current, caseReports, suiteFailures>>
  BY DEF Provisioned, CreateResolves, Settled, suiteVars
<1>2. answer # NoAnswer
  BY <1>1 DEF NoAnswer
<1>3. awaited[1] # "send"
  BY <1>1 DEF SuiteInv, ExchangeInv, NoRequest
<1>4. \A c : Abandoned(c) => Abandoned(c)'
  BY <1>1 DEF Abandoned
<1>5. NumberInv'
  BY <1>1, <1>2
  DEF SuiteInv, HoldingInv, LeakInv, NumberInv, serverVars, Holding, InCase,
      Executing
<1>6. SendInv' /\ PatchInv' /\ UserInv' /\ CredentialInv'
  BY <1>1, <1>3, <1>4, ClientKeeps DEF SendInv
<1>7. VerdictInv'
  BY <1>1 DEF LeakInv, VerdictInv
<1>8. QED BY <1>5, <1>6, <1>7 DEF LeakInv

LEMMA RespondedLeaks ==
  ASSUME IInv, SuiteInv, LeakInv, Responded PROVE LeakInv'
<1>1. /\ pc = "sending" /\ pc' \in {"evaluating", "verifying"}
      /\ answer.status # 0 /\ awaited' = NoRequest /\ answer' = NoAnswer
      /\ UNCHANGED <<serverVars, wire>>
      /\ UNCHANGED <<current, held, caseReports, suiteFailures, caller>>
  BY DEF Responded, HttpResponds, Settled, suiteVars, caseVars
<1>2. answer # NoAnswer
  BY <1>1 DEF NoAnswer
<1>3. /\ awaited \notin wire /\ patching[current] = Server!NoPatch
      /\ awaited = <<"send", current, held>>
  BY <1>1, <1>2 DEF LeakInv, SendInv, SuiteInv, ExchangeInv
<1>4. \A c : Abandoned(c) => Abandoned(c)'
  BY <1>1 DEF Abandoned
<1>5. NumberInv' /\ VerdictInv'
  BY <1>1
  DEF LeakInv, NumberInv, VerdictInv, serverVars, Holding, InCase, Executing
<1>6. SendInv' /\ PatchInv' /\ UserInv' /\ CredentialInv'
  BY <1>1, <1>3, <1>4, ClientKeeps DEF SendInv
<1>7. QED BY <1>5, <1>6 DEF LeakInv

LEMMA EvaluatedLeaks ==
  ASSUME IInv, SuiteInv, LeakInv, Evaluated PROVE LeakInv'
<1>1. /\ pc = "evaluating" /\ pc' \in {"verifying", "disposing"}
      /\ UNCHANGED <<serverVars, wire>>
      /\ UNCHANGED <<current, held, awaited, answer, suiteFailures, caller>>
      /\ \/ caseReports' = caseReports
         \/ \E report : caseReports' = Append(caseReports, report)
  BY DEF Evaluated, EvaluateReturns, CheckReturns, Conclude, clientVars,
         suiteVars
<1>2. \A c : Abandoned(c) => Abandoned(c)'
  BY <1>1, ReportStays
<1>3. NumberInv' /\ VerdictInv'
  BY <1>1
  DEF LeakInv, NumberInv, VerdictInv, serverVars, Holding, InCase, Executing
<1>4. SendInv' /\ PatchInv' /\ UserInv' /\ CredentialInv'
  BY <1>1, <1>2, ClientKeeps DEF SendInv
<1>5. QED BY <1>3, <1>4 DEF LeakInv

LEMMA DisposedLeaks ==
  ASSUME IInv, SuiteInv, LeakInv, Disposed PROVE LeakInv'
<1>1. answer.status = 204 /\ fixtures = {} /\ Provisions = {} /\ Disposals = {}
  <2>1. pc = "disposing" /\ answer.status # 0
    BY DEF Disposed, DisposeResolves, DisposeRejects
  <2>2. QED
    BY <2>1, Unanswered DEF SuiteInv, LifecycleInv, HoldingInv, NoAnswer
<1>2. /\ pc = "disposing" /\ pc' \in {"looping", "reporting"}
      /\ awaited' = NoRequest /\ answer' = NoAnswer
      /\ UNCHANGED <<serverVars, wire>>
      /\ UNCHANGED <<current, held, caseReports, suiteFailures, caller>>
  BY <1>1 DEF Disposed, DisposeResolves, Settled, suiteVars, caseVars
<1>3. awaited[1] # "send"
  BY <1>2 DEF SuiteInv, ExchangeInv, NoRequest
<1>4. \A c : Abandoned(c) => Abandoned(c)'
  BY <1>2 DEF Abandoned
<1>5. NumberInv'
  BY <1>2 DEF LeakInv, NumberInv, serverVars, Holding, InCase, Executing
<1>6. VerdictInv'
  BY <1>1, <1>2, SameWire DEF LeakInv, VerdictInv, serverVars
<1>7. SendInv' /\ PatchInv' /\ UserInv' /\ CredentialInv'
  BY <1>2, <1>3, <1>4, ClientKeeps DEF SendInv
<1>8. QED BY <1>5, <1>6, <1>7 DEF LeakInv

LEMMA ExchangeFailsLeaks ==
  ASSUME IInv, SuiteInv, LeakInv, ExchangeFails PROVE LeakInv'
<1>1. /\ awaited' = NoRequest /\ answer' = NoAnswer
      /\ UNCHANGED <<serverVars, wire, held>>
  BY DEF ExchangeFails, Settled
<1>2. CASE HttpRejects
  <2> DEFINE report == [case |-> current, actual |-> "transport failure",
                        failures |-> <<"transport-failure">>]
  <2>1. caller = "case"
    BY DEF LeakInv, VerdictInv
  <2>2. /\ pc = "sending" /\ pc' = "disposing"
        /\ UNCHANGED <<current, suiteFailures, caller>>
        /\ caseReports' = Append(caseReports, report)
    BY <1>2, <2>1 DEF HttpRejects, ExecutorThrows, Conclude, suiteVars
  <2>3. Abandoned(current)'
    <3>1. Len(caseReports) = current - 1 /\ caseReports \in Seq(CaseReport)
          /\ current \in Case
      BY <2>2 DEF IInv, PositionInv, TypeInv, TypeOK, InCase, Executing, Holding
    <3>0. report.failures = <<"transport-failure">>
      OBVIOUS
    <3> HIDE DEF report
    <3>2. current \in DOMAIN caseReports' /\ caseReports'[current] = report
      BY <2>2, <3>1 DEF Case
    <3>3. current' = current
      BY <2>2
    <3>4. QED BY <3>0, <3>2, <3>3 DEF Abandoned
  <2>4. \A c : Abandoned(c) => Abandoned(c)'
    BY <2>2, ReportStays
  <2>5. awaited = <<"send", current, held>>
    BY <2>2 DEF ExchangeFails, SuiteInv, ExchangeInv
  <2>6. \E c : c = awaited[2] /\ Abandoned(c)'
    <3>1. PICK c : c = current
      OBVIOUS
    <3>2. Abandoned(c)'
      BY <2>2, <2>3, <3>1 DEF Abandoned
    <3>3. QED BY <2>5, <3>1, <3>2
  <2>7. NumberInv' /\ VerdictInv'
    BY <1>1, <2>2
    DEF LeakInv, NumberInv, VerdictInv, serverVars, Holding, InCase, Executing
  <2>8. SendInv' /\ PatchInv' /\ UserInv' /\ CredentialInv'
    BY <1>1, <2>2, <2>4, <2>6, ClientKeeps DEF SendInv
  <2>9. QED BY <2>7, <2>8 DEF LeakInv
<1>3. CASE CreateRejects \/ DisposeRejects
  <2>1. /\ pc \in {"creating", "disposing"} /\ pc' = "reporting"
        /\ UNCHANGED <<current, caseReports, caller>>
        /\ suiteFailures' = Append(suiteFailures, "fixture-failure")
    BY <1>3
    DEF CreateRejects, DisposeRejects, AbortSuite, caseVars, IInv, PositionInv
  <2>2. suiteFailures' = <<"fixture-failure">>
    <3>1. suiteFailures = <<>>
      BY <2>1 DEF LeakInv, VerdictInv
    <3>2. QED BY <2>1, <3>1
  <2>3. awaited[1] # "send"
    BY <2>1 DEF SuiteInv, ExchangeInv, NoRequest
  <2>4. \A c : Abandoned(c) => Abandoned(c)'
    BY <2>1 DEF Abandoned
  <2>5. NumberInv' /\ VerdictInv'
    BY <1>1, <2>1, <2>2
    DEF LeakInv, NumberInv, VerdictInv, serverVars, Holding, InCase, Executing
  <2>6. SendInv' /\ PatchInv' /\ UserInv' /\ CredentialInv'
    BY <1>1, <2>1, <2>3, <2>4, ClientKeeps DEF SendInv
  <2>7. QED BY <2>5, <2>6 DEF LeakInv
<1>4. QED BY <1>2, <1>3 DEF ExchangeFails

-----------------------------------------------------------------------------
\* A step of the server on a lifecycle request: the wire has one less.
LEMMA WireShrinks ==
  ASSUME LeakInv, NEW request, wire' = wire \ {request},
         UNCHANGED <<vars, awaited, patching>>,
         pc = "sending" => answer' = answer
  PROVE  SendInv' /\ PatchInv'
<1>1. UNCHANGED <<pc, current, caseReports>>
  BY DEF vars
<1>2. \A c : Abandoned(c)' <=> Abandoned(c)
  BY <1>1 DEF Abandoned
<1>3. SendInv'
  BY <1>1, <1>2 DEF LeakInv, SendInv
<1>4. PatchInv'
  BY <1>2 DEF LeakInv, PatchInv
<1>5. QED BY <1>3, <1>4

LEMMA ServeProvisionLeaks ==
  ASSUME IInv, SuiteInv, LeakInv, NEW request \in wire, ServeProvision(request)
  PROVE  LeakInv'
<1>1. /\ wire' = wire \ {request}
      /\ UNCHANGED <<vars, awaited, held, patching>>
      /\ nextFixtureId' = nextFixtureId + 1
      /\ fixtures' = fixtures \cup {nextFixtureId'}
      /\ bearerPrincipals' = bearerPrincipals
                                \cup Server!TokensOf(nextFixtureId')
      /\ sessionPrincipals' = sessionPrincipals \cup {nextFixtureId'}
      /\ users' = users \cup Server!UsersOf(nextFixtureId')
      /\ answer' = IF request = awaited
                   THEN [status |-> 201, user |-> <<nextFixtureId', "owner">>,
                         activeUsers |-> 0]
                   ELSE answer
  BY DEF ServeProvision, Received, Answers, Server!PostFixture, Server!Reply
<1>2. UNCHANGED <<pc, current, caseReports, suiteFailures, caller>>
  BY <1>1 DEF vars
<1>3. request \in Provisions
  BY DEF ServeProvision, Provisions
<1>4. \/ pc = "creating" /\ request = awaited /\ answer = NoAnswer
      \/ pc = "reporting"
  BY <1>3 DEF SuiteInv, LifecycleInv
<1>5. NumberInv'
  <2>1. CASE pc = "creating"
    <3>1. answer' # NoAnswer
      BY <1>1, <1>4, <2>1 DEF NoAnswer
    <3>2. current \in Case /\ nextFixtureId = current - 1
      BY <1>4, <2>1 DEF LeakInv, NumberInv, IInv, TypeInv
    <3>3. QED
      BY <1>1, <1>2, <2>1, <3>1, <3>2, NumCasesAssumption
      DEF NumberInv, Holding, InCase, Executing, Case
  <2>2. CASE pc = "reporting"
    BY <1>2, <2>2 DEF NumberInv, Holding, InCase, Executing
  <2>3. QED BY <1>4, <2>1, <2>2
<1>6. SendInv' /\ PatchInv'
  BY <1>1, <1>4, WireShrinks
<1>7. \A c : Abandoned(c)' <=> Abandoned(c)
  BY <1>2 DEF Abandoned
<1>8. UserInv' /\ CredentialInv'
  <2>1. \A user \in Server!UsersOf(nextFixtureId') :
           /\ user[1] = nextFixtureId'
           /\ user \in Server!UsersOf(user[1])
    BY DEF Server!UsersOf
  <2>2. UserInv'
    BY <1>1, <1>7, <2>1 DEF LeakInv, UserInv
  <2>3. QED BY <1>1, <2>2 DEF LeakInv, CredentialInv
<1>9. VerdictInv'
  BY <1>2, <1>3, <1>4 DEF LeakInv, VerdictInv
<1>10. QED BY <1>5, <1>6, <1>8, <1>9 DEF LeakInv

LEMMA ServeDisposalLeaks ==
  ASSUME IInv, SuiteInv, LeakInv, NEW request \in wire, ServeDisposal(request)
  PROVE  LeakInv'
<1> DEFINE id == request[3]
<1>1. /\ wire' = wire \ {request}
      /\ UNCHANGED <<vars, awaited, held, patching, nextFixtureId>>
      /\ fixtures' = fixtures \ {id}
      /\ \/ /\ bearerPrincipals' = bearerPrincipals \ Server!TokensOf(id)
            /\ sessionPrincipals' = sessionPrincipals \ {id}
            /\ users' = users \ Server!UsersOf(id)
         \/ /\ id \notin fixtures
            /\ UNCHANGED <<bearerPrincipals, sessionPrincipals, users>>
      /\ request # awaited => answer' = answer
  BY DEF ServeDisposal, Received, Answers, Server!DeleteFixture,
         Server!DeleteUnknown, Server!Reply, Server!store
<1>2. UNCHANGED <<pc, current, caseReports, suiteFailures, caller>>
  BY <1>1 DEF vars
<1>3. request \in Disposals
  BY DEF ServeDisposal, Disposals
<1>4. pc = "disposing" \/ pc = "reporting"
  BY <1>3 DEF SuiteInv, LifecycleInv
<1> HIDE DEF id
<1>5. NumberInv'
  BY <1>1, <1>2, <1>4 DEF LeakInv, NumberInv, Holding, InCase, Executing
<1>6. SendInv' /\ PatchInv'
  BY <1>1, <1>4, WireShrinks
<1>7. \A c : Abandoned(c)' <=> Abandoned(c)
  BY <1>2 DEF Abandoned
<1>8. UserInv'
  <2>1. \A user \in users' : user \in users /\ (user[1] = id => id \notin fixtures)
    BY <1>1 DEF LeakInv, UserInv
  <2>2. QED BY <1>1, <1>7, <2>1 DEF LeakInv, UserInv
<1>9. CredentialInv'
  <2>1. \A token \in bearerPrincipals' :
           /\ token \in bearerPrincipals
           /\ token \in Server!TokensOf(id) => id \notin fixtures
    BY <1>1
  <2>2. QED BY <1>1, <2>1 DEF LeakInv, CredentialInv
<1>10. VerdictInv'
  BY <1>2, <1>3, <1>4 DEF LeakInv, VerdictInv
<1>11. QED BY <1>5, <1>6, <1>8, <1>9, <1>10 DEF LeakInv

\* A request of a case that is on its way is awaited by the case in hand, and
\* by no other case.
LEMMA RequestOfCase ==
  ASSUME IInv, SuiteInv, LeakInv, NEW request \in wire, request[1] = "send"
  PROVE  /\ request = <<"send", request[2], request[2]>>
         /\ request[2] \in Case
         /\ request = awaited => pc = "sending" /\ request[2] = current
         /\ request # awaited => Abandoned(request[2])
<1>1. /\ request = <<"send", request[2], request[2]>>
      /\ request = awaited \/ Abandoned(request[2])
  BY DEF LeakInv, SendInv
<1>2. request = awaited => pc = "sending" /\ request[2] = current
  BY DEF SuiteInv, ExchangeInv, NoRequest
<1>3. request = awaited => request[2] \in Case
  BY <1>2, NotYetAbandoned DEF InCase, Executing
<1>4. Len(caseReports) \in Nat /\ DOMAIN caseReports = 1..Len(caseReports)
  BY DEF IInv, TypeInv, TypeOK
<1>5. /\ pc \in Location /\ current \in 0..NumCases
      /\ pc \in Holding \cup {"creating"} => current >= 1
  BY NumCasesAssumption DEF IInv, TypeInv, TypeOK, Case
<1>6. pc \in {"expanding", "loading"} => Len(caseReports) = 0
  BY DEF IInv, PositionInv
<1>7. Len(caseReports) <= NumCases
  <2>1. CASE pc \in {"expanding", "loading"}
    BY <1>6, <2>1, NumCasesAssumption
  <2>2. CASE pc \in InCase
    <3>1. Len(caseReports) = current - 1
      BY <2>2 DEF IInv, PositionInv
    <3>2. QED BY <1>5, <3>1, NumCasesAssumption
  <2>3. CASE pc \in {"looping", "creating", "disposing", "reporting"}
    <3>1. Len(caseReports) \in {current - 1, current}
      BY <2>3 DEF IInv, PositionInv
    <3>2. QED BY <1>5, <3>1, NumCasesAssumption
  <2>4. QED BY <1>5, <2>1, <2>2, <2>3 DEF Location, Holding
<1>8. Abandoned(request[2]) => request[2] \in Case
  BY <1>4, <1>7, NumCasesAssumption DEF Abandoned, Case
<1>9. QED BY <1>1, <1>2, <1>3, <1>8

LEMMA ServeSendLeaks ==
  ASSUME IInv, SuiteInv, LeakInv, NEW request \in wire, ServeSend(request)
  PROVE  LeakInv'
<1> DEFINE c == request[2]
           sent == SuiteCase(c)
           user == <<request[3], sent.target>>
<1>1. /\ request[1] = "send" /\ wire' = wire \ {request}
      /\ UNCHANGED <<vars, awaited, held>>
      /\ request # awaited => answer' = answer
  BY DEF ServeSend, Received, Answers
<1>2. UNCHANGED <<pc, current, caseReports, suiteFailures, caller>>
  BY <1>1 DEF vars
<1>3. UNCHANGED <<nextFixtureId, fixtures, bearerPrincipals,
                  sessionPrincipals, users>>
  BY DEF ServeSend, Server!GetUser, Server!Audit, Server!PatchUser,
         Server!store
<1>4. \/ patching' = patching
      \/ /\ patching[c] = Server!NoPatch /\ answer' = answer
         /\ sent.route = "patch" /\ user \in users
         /\ \E principal : patching' = [patching EXCEPT
               ![c] = [user |-> user, principal |-> principal]]
  <2>1. CASE sent.route # "patch"
    BY <2>1 DEF ServeSend, Server!GetUser, Server!Audit
  <2>2. CASE sent.route = "patch"
    <3> DEFINE authorization == AuthorizationOf(sent.actor, request[3])
               session == SessionOf(sent.actor, request[3])
               principal == Server!Authenticate(authorization, session)
               status == Server!UserAccess(principal, user)
    <3>1. /\ Server!PatchUser(c, authorization, session, user)
          /\ patching' = patching \/ answer' = answer
      BY <2>2 DEF ServeSend
    <3>2. /\ patching[c] = Server!NoPatch
          /\ \/ /\ status = 200
                /\ patching' = [patching EXCEPT
                      ![c] = [user |-> user, principal |-> principal]]
             \/ patching' = patching
      BY <3>1 DEF Server!PatchUser
    <3>3. status = 200 => user \in users
      BY DEF Server!UserAccess
    <3> HIDE DEF principal, status, authorization, session
    <3>4. QED BY <2>2, <3>1, <3>2, <3>3
  <2>3. QED BY <2>1, <2>2
<1>5. /\ request = <<"send", c, c>> /\ c \in Case
      /\ request = awaited => pc = "sending" /\ c = current
      /\ request # awaited => Abandoned(c)
  BY <1>1, RequestOfCase
<1> HIDE DEF c, sent
<1>6. \A d : Abandoned(d)' <=> Abandoned(d)
  BY <1>2 DEF Abandoned
<1>7. NumberInv'
  BY <1>1, <1>2, <1>3, <1>5 DEF LeakInv, NumberInv, Holding
<1>8. UserInv' /\ CredentialInv'
  BY <1>3, <1>6 DEF LeakInv, UserInv, CredentialInv
<1>9. VerdictInv'
  <2>1. Provisions' \subseteq Provisions /\ Disposals' \subseteq Disposals
    BY <1>1 DEF Provisions, Disposals
  <2>2. QED BY <1>2, <1>3, <2>1 DEF LeakInv, VerdictInv
<1>10. PatchInv'
  <2>1. ASSUME NEW d \in Case, d # c PROVE patching'[d] = patching[d]
    BY <1>4, <2>1 DEF LeakInv, PatchInv
  <2>2. patching' = [d \in Case |-> patching'[d]]
    BY <1>4 DEF LeakInv, PatchInv
  <2>3. ASSUME patching' # patching
        PROVE  /\ patching'[c].user \in Server!UsersOf(c)
               /\ SuiteCase(c).route = "patch"
    <3>1. PICK principal : patching' = [patching EXCEPT
                              ![c] = [user |-> user, principal |-> principal]]
      BY <1>4, <2>3
    <3>2. patching'[c].user = user
      BY <1>5, <3>1 DEF LeakInv, PatchInv
    <3>3. user \in Server!UsersOf(c)
      BY <1>4, <1>5, <2>3 DEF LeakInv, UserInv
    <3>4. QED BY <1>4, <2>3, <3>2, <3>3 DEF sent
  <2>4. <<"send", c, c>> \notin wire'
    BY <1>1, <1>5
  <2>5. QED
    BY <1>1, <1>5, <1>6, <2>1, <2>2, <2>3, <2>4 DEF LeakInv, PatchInv
<1>11. SendInv'
  <2>1. ASSUME pc = "sending", answer' # NoAnswer
        PROVE  awaited \notin wire' /\ patching'[current] = Server!NoPatch
    <3>1. CASE request = awaited
      <4>1. patching[current] = Server!NoPatch
        BY <1>5, <3>1, NotYetAbandoned DEF LeakInv, PatchInv
      <4>2. answer # NoAnswer => awaited \notin wire
        BY <2>1 DEF LeakInv, SendInv
      <4>3. patching' = patching
        BY <1>4, <2>1, <3>1, <4>2
      <4>4. QED BY <1>1, <3>1, <4>1, <4>3
    <3>2. CASE request # awaited
      <4>1. answer # NoAnswer
        BY <1>1, <2>1, <3>2
      <4>2. awaited \notin wire /\ patching[current] = Server!NoPatch
        BY <2>1, <4>1 DEF LeakInv, SendInv
      <4>3. current # c /\ current \in Case
        BY <1>5, <2>1, <3>2, NotYetAbandoned DEF InCase, Executing
      <4>4. patching'[current] = patching[current]
        BY <1>4, <4>3 DEF LeakInv, PatchInv
      <4>5. QED BY <1>1, <4>2, <4>4
    <3>3. QED BY <3>1, <3>2
  <2>2. QED BY <1>1, <1>2, <1>6, <2>1 DEF LeakInv, SendInv
<1>12. QED BY <1>7, <1>8, <1>9, <1>10, <1>11 DEF LeakInv

LEMMA ServePatchBodyLeaks ==
  ASSUME IInv, SuiteInv, LeakInv, NEW c \in Case, ServePatchBody(c)
  PROVE  LeakInv'
<1> DEFINE user == patching[c].user
           request == <<"send", c, user[1]>>
<1>1. /\ UNCHANGED <<vars, wire, awaited, held>>
      /\ UNCHANGED <<nextFixtureId, fixtures, bearerPrincipals,
                     sessionPrincipals>>
      /\ patching[c] # Server!NoPatch
      /\ patching' = [patching EXCEPT ![c] = Server!NoPatch]
      /\ users' = users \/ users' = users \cup {user}
      /\ request # awaited => answer' = answer
  BY DEF ServePatchBody, Answers, Server!PatchBody
<1>2. UNCHANGED <<pc, current, caseReports, suiteFailures, caller>>
  BY <1>1 DEF vars
<1>3. /\ user \in Server!UsersOf(c) /\ user[1] = c
      /\ SuiteCase(c).route = "patch"
      /\ request = <<"send", c, c>> /\ request \notin wire
      /\ request = awaited \/ Abandoned(c)
  <2>1. user \in Server!UsersOf(c)
    BY <1>1 DEF LeakInv, PatchInv
  <2>2. user[1] = c
    BY <2>1 DEF Server!UsersOf
  <2>3. QED BY <1>1, <2>1, <2>2 DEF LeakInv, PatchInv
<1> HIDE DEF user
<1>4. request = awaited => pc = "sending" /\ c = current /\ fixtures = {c}
  BY <1>3
  DEF SuiteInv, ExchangeInv, HoldingInv, NoRequest, InCase, Executing
<1> HIDE DEF request
<1>5. \A d : Abandoned(d)' <=> Abandoned(d)
  BY <1>2 DEF Abandoned
<1>6. NumberInv'
  BY <1>1, <1>2, <1>3, <1>4 DEF LeakInv, NumberInv, Holding, InCase, Executing,
     SuiteInv, ExchangeInv
<1>7. VerdictInv'
  BY <1>1, <1>2, SameWire DEF LeakInv, VerdictInv
<1>8. UserInv' /\ CredentialInv'
  BY <1>1, <1>3, <1>4, <1>5 DEF LeakInv, UserInv, CredentialInv
<1>9. PatchInv'
  BY <1>1, <1>5 DEF LeakInv, PatchInv
<1>10. SendInv'
  <2>1. pc = "sending" /\ answer' # NoAnswer =>
           awaited \notin wire /\ patching'[current] = Server!NoPatch
    <3>1. CASE request = awaited
      BY <1>1, <1>3, <1>4, <3>1 DEF LeakInv, PatchInv
    <3>2. CASE request # awaited
      <4>1. pc = "sending" => current \in Case
        BY NotYetAbandoned DEF InCase, Executing
      <4>2. QED BY <1>1, <3>2, <4>1 DEF LeakInv, SendInv, PatchInv
    <3>3. QED BY <3>1, <3>2
  <2>2. QED BY <1>1, <1>2, <1>5, <2>1 DEF LeakInv, SendInv
<1>11. QED BY <1>6, <1>7, <1>8, <1>9, <1>10 DEF LeakInv

LEMMA RequestLostLeaks ==
  ASSUME LeakInv, NEW request \in wire, RequestLost(request)
  PROVE  LeakInv'
<1>1. /\ wire' = wire \ {request}
      /\ UNCHANGED <<vars, serverVars, clientVars>>
  BY DEF RequestLost
<1>2. UNCHANGED <<pc, current, caseReports, suiteFailures, caller>>
  BY <1>1 DEF vars
<1>3. SendInv' /\ PatchInv'
  BY <1>1, WireShrinks DEF serverVars, clientVars
<1>4. \A c : Abandoned(c)' <=> Abandoned(c)
  BY <1>2 DEF Abandoned
<1>5. NumberInv' /\ UserInv' /\ CredentialInv'
  BY <1>1, <1>2, <1>4
  DEF LeakInv, NumberInv, UserInv, CredentialInv, serverVars, clientVars
<1>6. Provisions' \subseteq Provisions /\ Disposals' \subseteq Disposals
  BY <1>1 DEF Provisions, Disposals
<1>7. VerdictInv'
  BY <1>1, <1>2, <1>6 DEF LeakInv, VerdictInv, serverVars
<1>8. QED BY <1>3, <1>5, <1>7 DEF LeakInv

LEMMA LeakInvariant == SuiteRunSpec => []LeakInv
<1>1. IInv /\ SuiteInv /\ LeakInv /\ [SuiteRunNext]_suiteRunVars => LeakInv'
  <2> SUFFICES ASSUME IInv, SuiteInv, LeakInv, [SuiteRunNext]_suiteRunVars
               PROVE  LeakInv'
    OBVIOUS
  <2>1. CASE UNCHANGED suiteRunVars
    BY <2>1
    DEF suiteRunVars, vars, serverVars, clientVars, LeakInv, NumberInv, SendInv,
        PatchInv, UserInv, CredentialInv, VerdictInv, Abandoned, Provisions,
        Disposals
  <2>2. CASE \E request \in wire :
                \/ ServeProvision(request) \/ ServeDisposal(request)
                \/ ServeSend(request) \/ RequestLost(request)
    BY <2>2, ServeProvisionLeaks, ServeDisposalLeaks, ServeSendLeaks,
       RequestLostLeaks
  <2>3. CASE \E c \in Case : ServePatchBody(c)
    BY <2>3, ServePatchBodyLeaks
  <2>4. QED
    BY <2>1, <2>2, <2>3, RunnerStepLeaks, IssueLeaks, ProvisionedLeaks,
       RespondedLeaks, DisposedLeaks, ExchangeFailsLeaks, EvaluatedLeaks
    DEF SuiteRunNext
<1>2. QED
  BY <1>1, LeakInvInit, SuiteInvariant, SuiteRuns, InductiveInvariant, PTL
  DEF SuiteRunSpec

\* What a run leaves on its server is in its report: a fixture as a failure of
\* the suite, a user without one as the transport failure of its PATCH
\* (authorization.test.ts, runner.ts:321-334, server.ts:143-151).
THEOREM LeaksAreReported == SuiteRunSpec => []LeaksReported
<1>1. IInv /\ SuiteInv /\ LeakInv => LeaksReported
  <2> SUFFICES ASSUME LeakInv, pc = "reporting", wire = {}
               PROVE  /\ fixtures # {} => suiteFailures = <<"fixture-failure">>
                      /\ \A user \in users \ Server!OwnedUsers :
                            /\ user[1] \in DOMAIN caseReports
                            /\ SuiteCase(user[1]).route = "patch"
                            /\ caseReports[user[1]].failures
                                  = <<"transport-failure">>
    BY DEF LeaksReported
  <2>1. \A user \in users \ Server!OwnedUsers : user[1] \notin fixtures
    BY DEF LeakInv, UserInv, Server!OwnedUsers
  <2>2. QED BY <2>1 DEF LeakInv, UserInv, VerdictInv, Abandoned
<1>2. QED
  BY <1>1, LeakInvariant, SuiteInvariant, SuiteRuns, InductiveInvariant, PTL

\* A suite that passed has left nothing on its server, nor anything on its way
\* there, whatever was lost or late (authorization.test.ts, runner.ts:338-374).
THEOREM NothingLeft == SuiteRunSpec => []PassedLeavesNothing
<1>1. IInv /\ SuiteInv /\ LeakInv => PassedLeavesNothing
  <2> SUFFICES ASSUME IInv, SuiteInv, LeakInv, pc = "reporting",
                      Report.outcome = "passed"
               PROVE  /\ fixtures = {} /\ users = {} /\ bearerPrincipals = {}
                      /\ sessionPrincipals = {} /\ wire = {}
    BY DEF PassedLeavesNothing
  <2>1. suiteFailures = <<>> /\ ~(Cardinality(Failed(caseReports)) > 0)
    BY DEF Report, BuildReport
  <2>2. \A c : ~Abandoned(c)
    <3>1. /\ caseReports \in Seq(CaseReport)
          /\ Len(caseReports) \in Nat
          /\ Failed(caseReports) \subseteq 1..Len(caseReports)
      BY DEF IInv, TypeInv, TypeOK, Failed
    <3>2. IsFiniteSet(1..Len(caseReports))
      BY <3>1, FS_Interval
    <3>3. IsFiniteSet(Failed(caseReports))
      BY <3>1, <3>2, FS_Subset
    <3>4. Cardinality(Failed(caseReports)) = 0
      BY <2>1, <3>3, FS_CardinalityType
    <3>5. Failed(caseReports) = {}
      BY <3>3, <3>4, FS_EmptySet
    <3>6. <<"transport-failure">> # <<>>
      OBVIOUS
    <3>7. QED BY <3>5, <3>6 DEF Failed, Outcome, Abandoned
  <2>3. Provisions = {} /\ Disposals = {} /\ fixtures = {}
    BY <2>1 DEF LeakInv, VerdictInv
  <2>4. awaited = NoRequest
    BY DEF SuiteInv, ExchangeInv
  <2>5. wire = {}
    BY <2>2, <2>3, <2>4 DEF LeakInv, SendInv, Provisions, Disposals, NoRequest
  <2>6. users = {} /\ bearerPrincipals = {} /\ sessionPrincipals = {}
    BY <2>2, <2>3 DEF LeakInv, UserInv, CredentialInv
  <2>7. QED BY <2>3, <2>5, <2>6
<1>2. QED
  BY <1>1, LeakInvariant, SuiteInvariant, SuiteRuns, InductiveInvariant, PTL

-----------------------------------------------------------------------------
(* No false mismatch: the answers to the ten cases.                        *)

\* The cases in the order of their ids.
LEMMA Cases ==
  /\ SuiteCase(1)  = Declare("admin",          "get",   "other", 200, 1)
  /\ SuiteCase(2)  = Declare("admin",          "audit", "owner", 200, 2)
  /\ SuiteCase(3)  = Declare("anonymous",      "get",   "owner", 401, 3)
  /\ SuiteCase(4)  = Declare("cookie-user",    "get",   "owner", 200, 4)
  /\ SuiteCase(5)  = Declare("invalid-cookie", "get",   "owner", 401, 5)
  /\ SuiteCase(6)  = Declare("raw-token",      "get",   "owner", 401, 6)
  /\ SuiteCase(7)  = Declare("user",           "get",   "owner", 200, 7)
  /\ SuiteCase(8)  = Declare("user",           "patch", "owner", 200, 8)
  /\ SuiteCase(9)  = Declare("user",           "audit", "owner", 403, 9)
  /\ SuiteCase(10) = Declare("user",           "get",   "other", 404, 10)
<1>1. DOMAIN Declared = 1..10
  BY DEF Declared
<1>2. /\ Declared[1]  = Declare("anonymous",      "get",   "owner", 401, 3)
      /\ Declared[2]  = Declare("raw-token",      "get",   "owner", 401, 6)
      /\ Declared[3]  = Declare("user",           "get",   "owner", 200, 7)
      /\ Declared[4]  = Declare("cookie-user",    "get",   "owner", 200, 4)
      /\ Declared[5]  = Declare("invalid-cookie", "get",   "owner", 401, 5)
      /\ Declared[6]  = Declare("user",           "get",   "other", 404, 10)
      /\ Declared[7]  = Declare("admin",          "get",   "other", 200, 1)
      /\ Declared[8]  = Declare("user",           "patch", "owner", 200, 8)
      /\ Declared[9]  = Declare("user",           "audit", "owner", 403, 9)
      /\ Declared[10] = Declare("admin",          "audit", "owner", 200, 2)
  BY DEF Declared
<1>3. \A actor, route, target, status, rank :
         Declare(actor, route, target, status, rank).rank = rank
  BY DEF Declare
<1>4. /\ Declared[1].rank = 3 /\ Declared[2].rank = 6 /\ Declared[3].rank = 7
      /\ Declared[4].rank = 4 /\ Declared[5].rank = 5 /\ Declared[6].rank = 10
      /\ Declared[7].rank = 1 /\ Declared[8].rank = 8 /\ Declared[9].rank = 9
      /\ Declared[10].rank = 2
  BY <1>2, <1>3
<1>5. ASSUME NEW j \in 1..10, NEW c, Declared[j].rank = c
      PROVE  SuiteCase(c) = Declared[j]
  <2>1. \A i \in 1..10 : Declared[i].rank = c => i = j
    BY <1>4, <1>5
  <2>2. (CHOOSE i \in DOMAIN Declared : Declared[i].rank = c) = j
    BY <1>1, <1>5, <2>1
  <2>3. QED BY <2>2 DEF SuiteCase
<1>6. QED BY <1>2, <1>4, <1>5

LEMMA CaseIsDeclared ==
  ASSUME NEW c \in Case
  PROVE  c \in 1..10
<1>1. Len(Declared) = 10
  BY DEF Declared
<1>2. QED BY <1>1, CasesAssumption, NumCasesAssumption DEF Case

\* The server lets in whom the session factory of a case stands for.
LEMMA Authenticated ==
  ASSUME SuiteInv, LeakInv, NEW c \in Case, fixtures = {c}, NEW actor,
         NEW principal,
         principal = Server!Authenticate(AuthorizationOf(actor, c),
                                         SessionOf(actor, c))
  PROVE  /\ actor = "user" => principal = Server!Owner(c)
         /\ actor = "cookie-user" => principal = Server!Owner(c)
         /\ actor = "admin" => principal = Server!Admin
         /\ actor \in {"anonymous", "raw-token", "invalid-cookie"} =>
               principal = Server!Nobody
<1>1. /\ <<c, "user">> \in bearerPrincipals
      /\ <<c, "admin">> \in bearerPrincipals
      /\ c \in sessionPrincipals
  BY DEF SuiteInv, LiveInv, Server!TokensOf
<1>2. Server!Malformed \notin bearerPrincipals
  BY DEF LeakInv, CredentialInv, Server!TokensOf, Server!Malformed
<1>3. c # 0 /\ Server!NoSession \notin sessionPrincipals
  BY NumCasesAssumption DEF LeakInv, CredentialInv, Server!NoSession, Case
<1>4. CASE actor \in {"user", "admin"}
  <2>1. /\ AuthorizationOf(actor, c) = <<c, actor>>
        /\ <<c, actor>> # Server!NoHeader
    BY <1>3, <1>4 DEF AuthorizationOf, Server!NoHeader
  <2>2. QED BY <1>1, <1>4, <2>1 DEF Server!Authenticate
<1>5. CASE actor = "raw-token"
  <2>1. /\ AuthorizationOf(actor, c) = Server!Malformed
        /\ Server!Malformed # Server!NoHeader
    BY <1>5 DEF AuthorizationOf, Server!Malformed, Server!NoHeader
  <2>2. QED BY <1>2, <1>5, <2>1 DEF Server!Authenticate
<1>6. CASE actor \notin {"user", "admin", "raw-token"}
  <2>1. /\ AuthorizationOf(actor, c) = Server!NoHeader
        /\ SessionOf(actor, c) = IF actor = "cookie-user" THEN c
                                 ELSE Server!NoSession
    BY <1>6 DEF AuthorizationOf, SessionOf
  <2>2. QED BY <1>1, <1>3, <1>6, <2>1 DEF Server!Authenticate
<1>7. QED BY <1>4, <1>5, <1>6

\* ... to the user of its fixture that it may read.
LEMMA Accessed ==
  ASSUME SuiteInv, LeakInv, NEW c \in Case, fixtures = {c}
  PROVE  /\ Server!UserAccess(Server!Nobody, <<c, "owner">>) = 401
         /\ Server!UserAccess(Server!Nobody, <<c, "other">>) = 401
         /\ Server!UserAccess(Server!Admin, <<c, "owner">>) = 200
         /\ Server!UserAccess(Server!Admin, <<c, "other">>) = 200
         /\ Server!UserAccess(Server!Owner(c), <<c, "owner">>) = 200
         /\ Server!UserAccess(Server!Owner(c), <<c, "other">>) = 404
<1>1. <<c, "other">> \in users /\ <<c, "owner">> \in users
  BY DEF SuiteInv, LiveInv, Server!UsersOf
<1>2. /\ Server!Owner(c).role = "user" /\ Server!Owner(c).user = <<c, "owner">>
      /\ Server!Admin.role = "admin" /\ Server!Nobody.role = "nobody"
  BY DEF Server!Owner, Server!Admin, Server!Nobody
<1>3. <<c, "owner">> # <<c, "other">>
  OBVIOUS
<1>4. Server!Owner(c) # Server!Nobody /\ Server!Admin # Server!Nobody
  BY <1>2
<1>5. QED BY <1>1, <1>2, <1>3, <1>4 DEF Server!UserAccess

\* The audit of the second case finds the two users of its own fixture: the
\* only PATCH comes later.
LEMMA AuditedUsers ==
  ASSUME IInv, SuiteInv, LeakInv, pc \in InCase, current = 2, fixtures = {2}
  PROVE  Cardinality(users) = 2
<1>1. Server!UsersOf(2) \subseteq users
  BY DEF SuiteInv, LiveInv
<1>2. \A c : Abandoned(c) => c = 1
  <2>1. Len(caseReports) = 1 /\ caseReports \in Seq(CaseReport)
    BY DEF IInv, PositionInv, TypeInv, TypeOK
  <2>2. QED BY <2>1 DEF Abandoned
<1>3. SuiteCase(1).route # "patch"
  BY Cases DEF Declare
<1>4. users \subseteq Server!UsersOf(2)
  BY <1>2, <1>3 DEF LeakInv, UserInv
<1>5. users = {<<2, "owner">>} \cup {<<2, "other">>}
  BY <1>1, <1>4 DEF Server!UsersOf
<1>6. <<2, "other">> \notin {<<2, "owner">>}
  OBVIOUS
<1>7. /\ IsFiniteSet({<<2, "owner">>})
      /\ Cardinality({<<2, "owner">>}) = 1
  BY FS_Singleton
<1>8. Cardinality({<<2, "owner">>} \cup {<<2, "other">>}) = 1 + 1
  BY <1>6, <1>7, FS_AddElement
<1>9. QED BY <1>5, <1>8

\* A request of the case in hand is answered as its case expects, except a
\* PATCH, which waits for its body.
LEMMA ServeSendMeets ==
  ASSUME IInv, SuiteInv, LeakInv, NEW request \in wire, ServeSend(request),
         request = awaited
  PROVE  answer' = answer \/ Meets(answer, current)'
<1> DEFINE c == current
           sent == SuiteCase(c)
           user == <<c, sent.target>>
           authorization == AuthorizationOf(sent.actor, c)
           session == SessionOf(sent.actor, c)
           principal == Server!Authenticate(authorization, session)
           status == Server!UserAccess(principal, user)
<1>1. /\ pc = "sending" /\ request = <<"send", c, c>> /\ c \in Case
      /\ pc \in InCase
  <2>1. request[1] = "send"
    BY DEF ServeSend
  <2>2. QED BY <2>1, RequestOfCase DEF InCase, Executing
<1>2. held = c /\ fixtures = {c} /\ patching \in [Case -> {patching[d] : d \in Case}]
  BY <1>1 DEF LeakInv, NumberInv, PatchInv, SuiteInv, HoldingInv, Holding
<1>3. UNCHANGED <<pc, current, held>>
  BY DEF ServeSend, Received, vars, suiteVars
<1>4. request[2] = c /\ request[3] = c
  BY <1>1
<1>5. \/ /\ sent.route = "get"
         /\ Server!GetUser(authorization, session, user)
         /\ answer' = [status |-> reply'.status, user |-> user, activeUsers |-> 0]
      \/ /\ sent.route = "audit"
         /\ Server!Audit(authorization, session)
         /\ answer' = [status |-> reply'.status, user |-> Server!NoHeader,
                       activeUsers |-> Cardinality(users)]
      \/ /\ sent.route = "patch"
         /\ Server!PatchUser(c, authorization, session, user)
         /\ patching' = patching \/ answer' = answer
  BY <1>4 DEF ServeSend, Answers
<1>6. c \in 1..10
  BY <1>1, CaseIsDeclared
<1>7. sent.target \in {"owner", "other"}
  BY <1>6, Cases DEF Declare
<1>8. /\ sent.actor = "user" => principal = Server!Owner(c)
      /\ sent.actor = "cookie-user" => principal = Server!Owner(c)
      /\ sent.actor = "admin" => principal = Server!Admin
      /\ sent.actor \in {"anonymous", "raw-token", "invalid-cookie"} =>
            principal = Server!Nobody
  BY <1>1, <1>2, Authenticated
<1>9. /\ principal = Server!Nobody => status = 401
      /\ principal = Server!Admin => status = 200
      /\ principal = Server!Owner(c) /\ sent.target = "owner" => status = 200
      /\ principal = Server!Owner(c) /\ sent.target = "other" => status = 404
  <2>1. /\ Server!UserAccess(Server!Nobody, <<c, "owner">>) = 401
        /\ Server!UserAccess(Server!Nobody, <<c, "other">>) = 401
        /\ Server!UserAccess(Server!Admin, <<c, "owner">>) = 200
        /\ Server!UserAccess(Server!Admin, <<c, "other">>) = 200
        /\ Server!UserAccess(Server!Owner(c), <<c, "owner">>) = 200
        /\ Server!UserAccess(Server!Owner(c), <<c, "other">>) = 404
    BY <1>1, <1>2, Accessed
  <2> HIDE DEF principal, c, sent
  <2>2. CASE sent.target = "owner"
    BY <2>1, <2>2
  <2>3. CASE sent.target = "other"
    BY <2>1, <2>3
  <2>4. QED BY <1>7, <2>2, <2>3
<1>10. Meets(answer, current)' <=>
         /\ answer'.status = sent.status
         /\ sent.status = 200 =>
               IF sent.route = "audit" THEN answer'.activeUsers = 2
               ELSE answer'.user = user
  BY <1>2, <1>3 DEF Meets
<1>11. CASE sent.route = "get"
  <2>1. answer' = [status |-> status, user |-> user, activeUsers |-> 0]
    BY <1>5, <1>11 DEF Server!GetUser, Server!Reply
  <2>2. status = sent.status
    <3> HIDE DEF principal, status, user, authorization, session
    <3>1. QED BY <1>6, <1>8, <1>9, <1>11, Cases DEF Declare
  <2> HIDE DEF status, user
  <2>3. QED BY <1>10, <1>11, <2>1, <2>2
<1>12. CASE sent.route = "audit"
  <2>1. answer' = [status |-> IF principal = Server!Nobody THEN 401
                              ELSE IF principal # Server!Admin THEN 403
                              ELSE 200,
                   user |-> Server!NoHeader, activeUsers |-> Cardinality(users)]
    BY <1>5, <1>12 DEF Server!Audit, Server!Reply
  <2>2. /\ Server!Owner(c) # Server!Nobody /\ Server!Owner(c) # Server!Admin
        /\ Server!Admin # Server!Nobody
    BY DEF Server!Owner, Server!Nobody, Server!Admin
  <2>3. \/ c = 2 /\ sent.actor = "admin" /\ sent.status = 200
        \/ sent.actor = "user" /\ sent.status = 403
    BY <1>6, <1>12, Cases DEF Declare
  <2>4. c = 2 => Cardinality(users) = 2
    BY <1>1, <1>2, AuditedUsers
  <2> HIDE DEF principal, c, sent
  <2>5. QED BY <1>8, <1>10, <1>12, <2>1, <2>2, <2>3, <2>4
<1>13. CASE sent.route = "patch"
  <2>1. sent.actor = "user" /\ sent.target = "owner"
    BY <1>6, <1>13, Cases DEF Declare
  <2>2. status = 200
    BY <1>8, <1>9, <2>1
  <2>3. /\ Server!PatchUser(c, authorization, session, user)
        /\ patching' = patching \/ answer' = answer
    BY <1>5, <1>13
  <2>4. /\ patching[c] = Server!NoPatch
        /\ patching' = [patching EXCEPT
              ![c] = [user |-> user, principal |-> principal]]
    BY <2>2, <2>3 DEF Server!PatchUser
  <2>5. patching'[c].user = user
    BY <1>1, <1>2, <2>4
  <2>6. user # Server!NoHeader
    BY <1>6 DEF Server!NoHeader
  <2>7. patching' # patching
    BY <2>4, <2>5, <2>6 DEF Server!NoPatch
  <2>8. QED BY <2>3, <2>7
<1>14. QED BY <1>5, <1>11, <1>12, <1>13

LEMMA MeetInit == SuiteRunInit => MeetInv /\ LossInv
BY DEF SuiteRunInit, Init, Server!Init, MeetInv, LossInv

LEMMA QuietMeets ==
  ASSUME MeetInv, UNCHANGED patching, pc' \notin {"sending", "evaluating"}
  PROVE  MeetInv'
BY DEF MeetInv

LEMMA QuietLosses ==
  ASSUME LossInv, UNCHANGED <<losses, caseReports, suiteFailures>>
  PROVE  LossInv'
BY DEF LossInv

\* A case that ends without a failure, or with a loss.
LEMMA ConcludedLoss ==
  ASSUME IInv, LossInv, NEW actual, NEW failures, NEW fatal,
         Conclude(actual, failures, fatal), UNCHANGED suiteFailures,
         \/ failures = <<>> /\ losses' = losses
         \/ failures = <<"transport-failure">> /\ losses' = losses + 1
  PROVE  LossInv'
<1> DEFINE new == [case |-> current, actual |-> actual, failures |-> failures]
<1>1. caseReports' = Append(caseReports, new)
  BY DEF Conclude
<1>2. caseReports \in Seq(CaseReport)
  BY DEF IInv, TypeInv, TypeOK
<1>3. new.failures = failures
  OBVIOUS
<1>4. losses \in Nat /\ losses' \in Nat /\ losses' >= losses
  BY DEF LossInv
<1> HIDE DEF new
<1>5. ASSUME NEW i \in DOMAIN caseReports'
      PROVE  \/ caseReports'[i].failures = <<>>
             \/ /\ caseReports'[i].failures = <<"transport-failure">>
                /\ losses' # 0
  <2>1. CASE i \in DOMAIN caseReports
    <3>1. caseReports'[i] = caseReports[i]
      BY <1>1, <1>2, <2>1
    <3>2. QED BY <1>4, <2>1, <3>1 DEF LossInv
  <2>2. CASE i \notin DOMAIN caseReports
    <3>1. caseReports'[i] = new
      BY <1>1, <1>2, <2>2
    <3>2. QED BY <1>3, <1>4, <3>1
  <2>3. QED BY <2>1, <2>2
<1>6. QED BY <1>4, <1>5 DEF LossInv

LEMMA RunnerStepMeets ==
  ASSUME SuiteInv, MeetInv, LossInv, RunnerStep PROVE MeetInv' /\ LossInv'
<1>1. UNCHANGED <<patching, answer, losses, caseReports, suiteFailures>>
  BY DEF RunnerStep, serverVars, clientVars, ExpandReturns, NextCase, EndLoop,
         RequestBuilt, AuthorizeResolves, Reporting, suiteVars, vars
<1>2. \/ pc' \in {"loading", "looping", "creating", "reporting", "authorizing"}
      \/ pc' = "sending" /\ pc \in {"building", "authorizing"}
  BY DEF RunnerStep, ExpandReturns, NextCase, EndLoop, RequestBuilt,
         AuthorizeResolves, Reporting, vars
<1>3. pc \in {"building", "authorizing"} => answer = NoAnswer
  BY DEF SuiteInv, ExchangeInv
<1>4. MeetInv'
  BY <1>1, <1>2, <1>3 DEF MeetInv
<1>5. QED BY <1>1, <1>4, QuietLosses

LEMMA IssueMeets ==
  ASSUME SuiteInv, MeetInv, LossInv, IssueRequest PROVE MeetInv' /\ LossInv'
<1>1. /\ UNCHANGED <<pc, patching, answer, losses, caseReports, suiteFailures>>
      /\ awaited = NoRequest
      /\ pc \in {"creating", "sending", "disposing"}
  BY DEF IssueRequest, Issue, vars, serverVars
<1>2. answer = NoAnswer
  BY <1>1 DEF SuiteInv, ExchangeInv
<1>3. MeetInv'
  BY <1>1, <1>2 DEF MeetInv
<1>4. QED BY <1>1, <1>3, QuietLosses

LEMMA ProvisionedMeets ==
  ASSUME MeetInv, LossInv, Provisioned PROVE MeetInv' /\ LossInv'
<1>1. /\ UNCHANGED <<patching, losses, caseReports, suiteFailures>>
      /\ pc' = "building"
  BY DEF Provisioned, CreateResolves, serverVars, suiteVars
<1>2. QED BY <1>1, QuietMeets, QuietLosses

LEMMA RespondedMeets ==
  ASSUME LeakInv, MeetInv, LossInv, Responded PROVE MeetInv' /\ LossInv'
<1>1. /\ UNCHANGED <<patching, losses, caseReports, suiteFailures>>
      /\ UNCHANGED <<current, held>>
      /\ pc = "sending" /\ pc' = "evaluating"
      /\ answer # NoAnswer /\ observed' = answer
  BY DEF Responded, HttpResponds, serverVars, suiteVars, caseVars, LeakInv,
         VerdictInv, NoAnswer
<1>2. Meets(observed, current)'
  BY <1>1 DEF MeetInv, Meets
<1>3. MeetInv'
  BY <1>1, <1>2 DEF MeetInv
<1>4. QED BY <1>1, <1>3, QuietLosses

\* The DELETE of the fixture that is held finds it.
LEMMA DisposedMeets ==
  ASSUME SuiteInv, MeetInv, LossInv, Disposed PROVE MeetInv' /\ LossInv'
<1>1. answer.status = 204
  <2>1. pc = "disposing" /\ answer.status # 0
    BY DEF Disposed, DisposeResolves, DisposeRejects
  <2>2. QED BY <2>1 DEF SuiteInv, HoldingInv, NoAnswer
<1>2. /\ UNCHANGED <<patching, losses, caseReports, suiteFailures>>
      /\ pc' \in {"looping", "reporting"}
  BY <1>1 DEF Disposed, DisposeResolves, serverVars, suiteVars, caseVars
<1>3. QED BY <1>2, QuietMeets, QuietLosses

LEMMA ExchangeFailsMeets ==
  ASSUME IInv, LeakInv, MeetInv, LossInv, ExchangeFails
  PROVE  MeetInv' /\ LossInv'
<1>1. UNCHANGED patching /\ losses' = losses + 1 /\ losses \in Nat
  BY DEF ExchangeFails, serverVars, LossInv
<1>2. CASE HttpRejects
  <2>1. /\ Conclude("transport failure", <<"transport-failure">>, FALSE)
        /\ UNCHANGED suiteFailures
    BY <1>2
    DEF HttpRejects, ExecutorThrows, LeakInv, VerdictInv, suiteVars
  <2>2. pc' = "disposing"
    BY <2>1 DEF Conclude
  <2>3. QED BY <1>1, <2>1, <2>2, QuietMeets, ConcludedLoss
<1>3. CASE CreateRejects \/ DisposeRejects
  <2>1. pc' \in {"reporting", "disposing"} /\ UNCHANGED caseReports
    BY <1>3 DEF CreateRejects, DisposeRejects, caseVars
  <2>2. losses' \in Nat /\ losses' # 0
    BY <1>1
  <2>3. LossInv'
    BY <2>1, <2>2 DEF LossInv
  <2>4. QED BY <1>1, <2>1, <2>3, QuietMeets
<1>4. QED BY <1>2, <1>3 DEF ExchangeFails

LEMMA EvaluatedMeets ==
  ASSUME IInv, MeetInv, LossInv, Evaluated PROVE MeetInv' /\ LossInv'
<1>1. /\ pc = "evaluating" /\ current \in Case
      /\ UNCHANGED <<patching, losses, suiteFailures>>
      /\ mismatches \in [Case -> Seq(MismatchKind)]
  BY DEF Evaluated, EvaluateReturns, serverVars, clientVars, suiteVars, IInv,
         TypeInv, TypeOK, Holding, InCase
<1>2. Meets(observed, current)
  BY <1>1 DEF MeetInv
<1>3. mismatches'[current] = <<>>
  BY <1>2 DEF Evaluated
<1>4. PICK found \in MismatchLists : CheckReturns(found)
  BY DEF Evaluated, EvaluateReturns
<1>5. mismatches[current] \o found = <<>>
  BY <1>1, <1>3, <1>4 DEF CheckReturns
<1>6. CASE pc' = "verifying" /\ UNCHANGED caseReports
  BY <1>1, <1>6, QuietMeets, QuietLosses
<1>7. CASE Conclude("response", FailuresOf(mismatches[current] \o found), FALSE)
  <2>1. FailuresOf(mismatches[current] \o found) = <<>>
    BY <1>5 DEF FailuresOf
  <2>2. pc' = "disposing"
    BY <1>7 DEF Conclude
  <2>3. QED BY <1>1, <1>7, <2>1, <2>2, QuietMeets, ConcludedLoss
<1>8. QED BY <1>4, <1>6, <1>7 DEF CheckReturns

LEMMA ServeLifecycleMeets ==
  ASSUME SuiteInv, MeetInv, LossInv, NEW request \in wire,
         ServeProvision(request) \/ ServeDisposal(request)
  PROVE  MeetInv' /\ LossInv'
<1>1. /\ UNCHANGED <<pc, patching, losses, caseReports, suiteFailures>>
      /\ request[1] \in {"provision", "dispose"}
  BY DEF ServeProvision, ServeDisposal, Received, Server!PostFixture,
         Server!DeleteFixture, Server!DeleteUnknown, Server!store, vars
<1>2. pc \in {"creating", "disposing", "reporting"}
  BY <1>1 DEF SuiteInv, LifecycleInv, Provisions, Disposals
<1>3. QED BY <1>1, <1>2, QuietMeets, QuietLosses

LEMMA ServeCaseMeets ==
  ASSUME IInv, SuiteInv, LeakInv, MeetInv, LossInv,
         NEW request \in wire, ServeSend(request)
  PROVE  MeetInv' /\ LossInv'
<1> DEFINE c == request[2]
           user == <<request[3], SuiteCase(c).target>>
<1>1. /\ request[1] = "send"
      /\ UNCHANGED <<pc, current, losses, caseReports, suiteFailures>>
      /\ UNCHANGED <<held, observed>>
      /\ request # awaited => answer' = answer
  BY DEF ServeSend, Received, Answers, vars
<1>2. request = <<"send", c, c>> /\ c \in Case
  BY <1>1, RequestOfCase
<1>3. answer' = answer \/ Meets(answer, current)'
  BY <1>1, ServeSendMeets
<1>4. pc = "sending" /\ answer' # NoAnswer => Meets(answer, current)'
  <2>1. answer' = answer /\ pc = "sending" /\ answer # NoAnswer
           => Meets(answer, current)'
    BY <1>1 DEF MeetInv, Meets
  <2>2. QED BY <1>3, <2>1
<1>5. pc = "evaluating" => Meets(observed, current)'
  BY <1>1 DEF MeetInv, Meets
<1>6. ASSUME NEW d \in Case, patching'[d] # Server!NoPatch
      PROVE  patching'[d].user = <<d, SuiteCase(d).target>>
  <2>1. CASE patching' = patching
    BY <1>6, <2>1 DEF MeetInv
  <2>2. CASE patching' # patching
    <3>1. PICK principal : patching' = [patching EXCEPT
                              ![c] = [user |-> user, principal |-> principal]]
      BY <2>2 DEF ServeSend, Server!GetUser, Server!Audit, Server!PatchUser
    <3>2. CASE d = c
      <4>1. patching'[d].user = user
        BY <1>2, <3>1, <3>2 DEF LeakInv, PatchInv
      <4>2. request[3] = d
        BY <1>2, <3>2
      <4>3. QED BY <3>2, <4>1, <4>2
    <3>3. CASE d # c
      <4>1. patching'[d] = patching[d]
        BY <3>1, <3>3 DEF LeakInv, PatchInv
      <4>2. QED BY <1>6, <4>1 DEF MeetInv
    <3>4. QED BY <3>2, <3>3
  <2>3. QED BY <2>1, <2>2
<1>7. MeetInv'
  BY <1>1, <1>4, <1>5, <1>6 DEF MeetInv
<1>8. QED BY <1>1, <1>7, QuietLosses

\* The body of a PATCH is answered with the user that was to be patched.
LEMMA ServePatchBodyMeets ==
  ASSUME SuiteInv, LeakInv, MeetInv, LossInv, NEW c \in Case, ServePatchBody(c)
  PROVE  MeetInv' /\ LossInv'
<1> DEFINE user == patching[c].user
           request == <<"send", c, user[1]>>
<1>1. /\ UNCHANGED <<pc, current, losses, caseReports, suiteFailures>>
      /\ UNCHANGED <<held, observed>>
      /\ patching[c] # Server!NoPatch
      /\ patching' = [patching EXCEPT ![c] = Server!NoPatch]
      /\ reply'.user = user
      /\ request = awaited => reply'.status = 200
      /\ answer' = IF request = awaited
                   THEN [status |-> reply'.status, user |-> reply'.user,
                         activeUsers |-> 0]
                   ELSE answer
  BY DEF ServePatchBody, Answers, Server!PatchBody, Server!Reply, vars
<1>2. user = <<c, SuiteCase(c).target>> /\ SuiteCase(c).route = "patch"
  BY <1>1 DEF MeetInv, LeakInv, PatchInv
<1>3. request = <<"send", c, c>>
  BY <1>2
<1> HIDE DEF request
<1>4. pc = "evaluating" => Meets(observed, current)'
  BY <1>1 DEF MeetInv, Meets
<1>5. pc = "sending" /\ answer' # NoAnswer => Meets(answer, current)'
  <2>1. CASE request = awaited /\ pc = "sending"
    <3>1. c = current /\ held = c
      BY <1>3, <2>1
      DEF SuiteInv, ExchangeInv, NoRequest, LeakInv, NumberInv, Holding, InCase,
          Executing
    <3>2. SuiteCase(c).status = 200
      BY <1>2, CaseIsDeclared, Cases DEF Declare
    <3>3. answer'.status = 200 /\ answer'.user = user
      BY <1>1, <2>1
    <3> HIDE DEF user
    <3>4. QED BY <1>1, <1>2, <3>1, <3>2, <3>3 DEF Meets
  <2>2. CASE request # awaited /\ pc = "sending"
    BY <1>1, <2>2 DEF MeetInv, Meets
  <2>3. QED BY <2>1, <2>2
<1>6. ASSUME NEW d \in Case, patching'[d] # Server!NoPatch
      PROVE  patching'[d].user = <<d, SuiteCase(d).target>>
  <2>1. patching'[d] = patching[d]
    BY <1>1, <1>6 DEF LeakInv, PatchInv
  <2>2. QED BY <1>6, <2>1 DEF MeetInv
<1>7. MeetInv'
  BY <1>1, <1>4, <1>5, <1>6 DEF MeetInv
<1>8. QED BY <1>1, <1>7, QuietLosses

LEMMA MeetInvariant == SuiteRunSpec => [](MeetInv /\ LossInv)
<1>1. ASSUME IInv, SuiteInv, LeakInv, MeetInv /\ LossInv,
             [SuiteRunNext]_suiteRunVars
      PROVE  (MeetInv /\ LossInv)'
  <2>1. CASE UNCHANGED suiteRunVars
    BY <1>1, <2>1
    DEF suiteRunVars, vars, serverVars, clientVars, MeetInv, LossInv, Meets
  <2>2. ASSUME NEW request \in wire, RequestLost(request)
        PROVE  (MeetInv /\ LossInv)'
    BY <1>1, <2>2
    DEF RequestLost, vars, serverVars, clientVars, MeetInv, LossInv, Meets
  <2>3. CASE \E request \in wire :
                \/ ServeProvision(request) \/ ServeDisposal(request)
                \/ ServeSend(request) \/ RequestLost(request)
    BY <1>1, <2>2, <2>3, ServeLifecycleMeets, ServeCaseMeets
  <2>4. CASE \E c \in Case : ServePatchBody(c)
    BY <1>1, <2>4, ServePatchBodyMeets
  <2>5. QED
    BY <1>1, <2>1, <2>3, <2>4, RunnerStepMeets, IssueMeets, ProvisionedMeets,
       RespondedMeets, DisposedMeets, ExchangeFailsMeets, EvaluatedMeets
    DEF SuiteRunNext
<1>2. QED
  BY <1>1, MeetInit, LeakInvariant, SuiteInvariant, SuiteRuns,
     InductiveInvariant, PTL
  DEF SuiteRunSpec

\* The contract never reports a mismatch of a target that enforces its policy,
\* and passes when no exchange failed (authorization.test.ts, server.ts).
THEOREM NeverAFalseMismatch == SuiteRunSpec => []NoFalseMismatch
<1>1. ASSUME IInv, LossInv PROVE NoFalseMismatch
  <2>1. \A i \in DOMAIN caseReports :
           \A j \in DOMAIN caseReports[i].failures :
              caseReports[i].failures[j] = "transport-failure"
    BY <1>1 DEF LossInv
  <2>2. ASSUME losses = 0 PROVE Report.outcome = "passed"
    <3>1. /\ suiteFailures = <<>>
          /\ \A i \in DOMAIN caseReports : caseReports[i].failures = <<>>
      BY <1>1, <2>2 DEF LossInv
    <3>2. ~aborted
      BY <1>1, <3>1 DEF IInv, AbortInv, AbortedIffDefect, DefectReported
    <3>3. Failed(caseReports) = {}
      BY <3>1 DEF Failed, Outcome
    <3>4. Cardinality(Failed(caseReports)) = 0
      BY <3>3, FS_EmptySet
    <3>5. QED BY <3>1, <3>2, <3>4 DEF Report, BuildReport
  <2>3. QED BY <2>1, <2>2 DEF NoFalseMismatch
<1>2. QED
  BY <1>1, MeetInvariant, SuiteInvariant, SuiteRuns, InductiveInvariant, PTL

-----------------------------------------------------------------------------
(* The server in the suite is UserAdminServer.                             *)

LEMMA EndInvariant == SuiteRunSpec => []EndInv
<1>1. SuiteRunInit => EndInv
  BY DEF SuiteRunInit, EndInv, Disposals
<1>2. ASSUME IInv, LeakInv, EndInv, [SuiteRunNext]_suiteRunVars PROVE EndInv'
  <2>1. SUFFICES ASSUME NEW request \in Disposals' PROVE request[3] \in Case
    BY DEF EndInv
  <2>2. request \in wire' /\ request[1] = "dispose"
    BY <2>1 DEF Disposals
  <2>3. CASE request \in wire
    BY <1>2, <2>2, <2>3 DEF EndInv, Disposals
  <2>4. CASE request \notin wire
    <3>1. IssueRequest
      BY <1>2, <2>2, <2>4
      DEF SuiteRunNext, RunnerStep, Provisioned, Responded, Disposed,
          ExchangeFails, Evaluated, ServeProvision, ServeDisposal, ServeSend,
          Received, RequestLost, ServePatchBody, suiteRunVars
    <3>2. pc = "disposing" /\ request = <<"dispose", current, held>>
      <4>1. request = awaited'
        BY <2>2, <2>4, <3>1 DEF IssueRequest, Issue
      <4>2. QED BY <2>2, <3>1, <4>1 DEF IssueRequest, Issue
    <3>3. held = current
      BY <1>2, <3>2 DEF LeakInv, NumberInv, Holding
    <3>4. current \in Case
      BY <1>2, <3>2, NumCasesAssumption
      DEF IInv, TypeInv, TypeOK, Case, Holding
    <3>5. QED BY <3>2, <3>3, <3>4
  <2>5. QED BY <2>3, <2>4
<1>3. QED
  BY <1>1, <1>2, LeakInvariant, SuiteRuns, InductiveInvariant, PTL
  DEF SuiteRunSpec

\* What a case sends with its fixture are credentials that the server may get
\* from anyone, and a user that it may know.
LEMMA CredentialsSent ==
  ASSUME NEW c \in Case
  PROVE  /\ AuthorizationOf(SuiteCase(c).actor, c) \in Server!Authorization
         /\ SessionOf(SuiteCase(c).actor, c) \in
               Server!Id \cup {Server!NoSession}
         /\ <<c, SuiteCase(c).target>> \in Server!User
<1>1. c \in Server!Id
  BY DEF Case, Server!Id
<1>2. SuiteCase(c).target \in {"owner", "other"}
  <2>1. \A actor, route, target, status, rank :
           Declare(actor, route, target, status, rank).target = target
    BY DEF Declare
  <2>2. c \in 1..10
    BY CaseIsDeclared
  <2>3. QED BY <2>1, <2>2, Cases
<1>3. AuthorizationOf(SuiteCase(c).actor, c) \in
         {Server!Malformed, <<c, "user">>, <<c, "admin">>, Server!NoHeader}
  BY DEF AuthorizationOf
<1>4. QED
  BY <1>1, <1>2, <1>3
  DEF SessionOf, Server!Authorization, Server!Token, Server!User

LEMMA ServedSend ==
  ASSUME IInv, SuiteInv, LeakInv, NEW request \in wire, ServeSend(request)
  PROVE  Server!Next
<1> DEFINE c == request[2]
           sent == SuiteCase(c)
           authorization == AuthorizationOf(sent.actor, c)
           session == SessionOf(sent.actor, c)
           user == <<c, sent.target>>
<1>1. request[1] = "send"
  BY DEF ServeSend
<1>2. request[3] = c /\ c \in Case
  BY <1>1, RequestOfCase
<1>3. /\ authorization \in Server!Authorization
      /\ session \in Server!Id \cup {Server!NoSession}
      /\ user \in Server!User
  BY <1>2, CredentialsSent
<1>4. \/ Server!GetUser(authorization, session, user)
      \/ Server!Audit(authorization, session)
      \/ Server!PatchUser(c, authorization, session, user)
  BY <1>2 DEF ServeSend
<1> HIDE DEF c, authorization, session, user
<1>5. QED BY <1>2, <1>3, <1>4 DEF Server!Next

\* Nothing the suite does to its server is new to it: the specification of the
\* server alone, and with it all that is proved of the server for any clients,
\* holds in the suite (authorization.test.ts, server.ts).
THEOREM SuiteServes == SuiteRunSpec => ServesAnyone
<1>1. SuiteRunInit => Server!Init
  BY DEF SuiteRunInit
<1>2. ASSUME IInv, SuiteInv, LeakInv, EndInv, [SuiteRunNext]_suiteRunVars
      PROVE  [Server!Next]_Server!vars
  <2>1. CASE UNCHANGED serverVars
    BY <2>1 DEF serverVars, Server!vars, Server!store
  <2>2. CASE \/ UNCHANGED suiteRunVars
             \/ RunnerStep \/ IssueRequest \/ Provisioned \/ Responded
             \/ Disposed \/ ExchangeFails \/ Evaluated
             \/ \E request \in wire : RequestLost(request)
    <3>1. UNCHANGED serverVars
      BY <2>2
      DEF suiteRunVars, RunnerStep, IssueRequest, Issue, Provisioned, Responded,
          Disposed, ExchangeFails, Evaluated, RequestLost
    <3>2. QED BY <2>1, <3>1
  <2>3. ASSUME NEW request \in wire, ServeProvision(request) PROVE Server!Next
    BY <2>3 DEF ServeProvision, Server!Next
  <2>4. ASSUME NEW request \in wire, ServeDisposal(request) PROVE Server!Next
    <3>1. request \in Disposals
      BY <2>4 DEF ServeDisposal, Disposals
    <3>2. request[3] \in Server!Id
      BY <1>2, <3>1 DEF EndInv, Case, Server!Id
    <3>3. QED BY <2>4, <3>2 DEF ServeDisposal, Server!Next
  <2>5. ASSUME NEW request \in wire, ServeSend(request) PROVE Server!Next
    BY <1>2, <2>5, ServedSend
  <2>6. ASSUME NEW c \in Case, ServePatchBody(c) PROVE Server!Next
    BY <2>6 DEF ServePatchBody, Server!Next
  <2>7. QED BY <1>2, <2>2, <2>3, <2>4, <2>5, <2>6 DEF SuiteRunNext
<1>3. QED
  BY <1>1, <1>2, EndInvariant, LeakInvariant, SuiteInvariant, SuiteRuns,
     InductiveInvariant, PTL
  DEF SuiteRunSpec, ServesAnyone, Server!Spec
=============================================================================
