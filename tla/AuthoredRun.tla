----------------------------- MODULE AuthoredRun -----------------------------
(***************************************************************************)
(* runAuthorizationTests on a built contract (authoring-runtime.ts): the   *)
(* runner's cases are declarations, so that what its callbacks do is known *)
(* from what was declared, from the fixture and from the target's answer.  *)
(* The target is arbitrary, and a request may fail at any time.            *)
(*                                                                         *)
(* A declaration has the request's path, its method, its body and content  *)
(* type, and for each fixture its parameters; or else it has a builder of  *)
(* its own (custom), given by the fixtures on which that throws.  It has   *)
(* the fixtures on which the session factory throws (refuses), whether its *)
(* headers and the base URL are valid, and its expectation.                *)
(***************************************************************************)
EXTENDS AuthorizationRunner, FetchClient

CONSTANTS
    Authored,          \* the declarations that a contract may have
    FixtureValue,      \* what lifecycle.create() may resolve with
    Wire,              \* what a target may answer: status, type and text
    Undefined, DeepSubset(_, _), CodeOf(_)

Request     == INSTANCE OperationRequest
Expectation == INSTANCE ResponseExpectation

Optional(S) == {{}} \cup {{x} : x \in S}

\* A set that is an optional value.
AtMostOne(S) == \A x, y \in S : x = y

ResponseShaped(expected) ==
    /\ \A body \in expected.body : AtMostOne(body)
    /\ IsFiniteSet(expected.headers)

Shaped(expectation) ==
    /\ expectation.by = "response" => ResponseShaped(expectation)
    /\ expectation.by = "derived" =>
          /\ AtMostOne(expectation.result)
          /\ \A expected \in expectation.result : ResponseShaped(expected)
    /\ expectation.by \in {"body", "containing"} => AtMostOne(expectation.body)

ASSUME AuthoredAssumption ==
    \A declaration \in Authored :
        /\ Expectation!Declarable(declaration.expectation)
        /\ Shaped(declaration.expectation)

ASSUME WireAssumption ==
    \A answer \in Wire : answer.text \in Text /\ answer.type \in Optional(ContentType)

\* An actor of a contract has a session factory, hence a provider.
ASSUME ProviderAssumption == Anonymous = {}

VARIABLES
    declared,   \* the declaration of each case
    value,      \* the value of the fixture
    response    \* the target's answer to the present case, if there is one

authored     == <<declared, value, response>>
authoredVars == <<vars, authored>>

AuthoredInit ==
    /\ Init
    /\ declared \in [Case -> Authored]
    /\ value = Undefined
    /\ response = {}

-----------------------------------------------------------------------------
(* What the callbacks do.                                                  *)

\* buildRequest returns: that of a verb, or that of the author.
Buildable(declaration, fixtureValue) ==
    IF declaration.custom = {}
    THEN Request!Builds(declaration.path, declaration.params[fixtureValue])
    ELSE fixtureValue \notin UNION declaration.custom

\* execute() gets as far as a request that fetch accepts.
Fetchable(declaration) ==
    /\ declaration.valid
    /\ Sendable(declaration.method, declaration.body)

\* What execute() makes of an answer.
Received(answer) ==
    [status  |-> answer.status,
     headers |-> [name \in {"content-type" : type \in answer.type} |->
                     CHOOSE type \in answer.type : TRUE],
     body    |-> ResponseBody(answer.text, answer.type)]

\* An answer to a HEAD has no body.
AnswersTo(declaration) ==
    {answer \in Wire : declaration.method = "HEAD" => answer.text = Empty}

-----------------------------------------------------------------------------
\* The contract's cases have been expanded before, so expand() cannot throw;
\* it is run without a catalog.
RunnerStep ==
    /\ \/ ExpandReturns \/ NextCase \/ EndLoop
       \/ CreateRejects \/ DisposeResolves \/ DisposeRejects
       \/ SignalAborts \/ Reporting
    /\ UNCHANGED authored

Created ==
    /\ CreateResolves
    /\ value' \in FixtureValue
    /\ response' = {}
    /\ UNCHANGED declared

RequestStep ==
    /\ IF Buildable(declared[current], value)
       THEN RequestBuilt ELSE RequestUnusable
    /\ UNCHANGED authored

SessionStep ==
    /\ IF value \in declared[current].refuses
       THEN AuthorizeFails ELSE AuthorizeResolves
    /\ UNCHANGED authored

\* The signal may abort as the answer is read, so it does not exclude one.
Answered ==
    /\ pc = "sending"
    /\ Fetchable(declared[current])
    /\ HttpResponds
    /\ \E answer \in AnswersTo(declared[current]) : response' = {answer}
    /\ UNCHANGED <<declared, value>>

Unanswered == HttpRejects /\ UNCHANGED authored

Evaluated ==
    /\ pc = "evaluating"
    /\ \E answer \in response :
          LET result == Expectation!Evaluate(declared[current].expectation,
                                             Received(answer), value)
          IN  \/ /\ result.throws
                 /\ EvaluateThrows
              \/ /\ ~result.throws
                 /\ EvaluateReturns
                 /\ mismatches'[current] =
                       Expectation!PolicyMismatches(result.found)
    /\ UNCHANGED authored

AuthoredNext ==
    \/ RunnerStep \/ Created
    \/ (pc = "building" /\ RequestStep) \/ (pc = "authorizing" /\ SessionStep)
    \/ Answered \/ Unanswered \/ Evaluated

AuthoredSpec == AuthoredInit /\ [][AuthoredNext]_authoredVars
-----------------------------------------------------------------------------
(* Correctness.                                                            *)

\* What an answer on the wire says its body is, in terms of its text and type.
Carries(answer, body) ==
    \/ body = {} /\ answer.text = Empty
    \/ \E carried \in body :
          \/ IsJson(answer.type) /\ carried \in Parsed(answer.text)
          \/ /\ carried = StringValue(answer.text)
             /\ answer.text # Empty
             /\ ~(IsJson(answer.type) /\ answer.text.parses # {})

ConformsTo(answer, expected) ==
    /\ answer.status = expected.status
    /\ \A header \in expected.headers :
          header.name = "content-type" /\ answer.type = {header.value}
    /\ \A body \in expected.body : Carries(answer, body)

\* What an expectation promises of an answer it lets pass.
Conforms(answer, expectation, fixtureValue) ==
    CASE expectation.by = "status"     -> answer.status = expectation.status
      [] expectation.by = "response"   -> ConformsTo(answer, expectation)
      [] expectation.by = "derived"    ->
            /\ fixtureValue # Undefined
            /\ \E expected \in expectation.result : ConformsTo(answer, expected)
      [] expectation.by = "body"       -> Carries(answer, expectation.body)
      [] expectation.by = "containing" ->
            \/ Carries(answer, expectation.body)
            \/ \E actual \in Value, subset \in expectation.body :
                  Carries(answer, {actual}) /\ DeepSubset(actual, subset)
      [] expectation.by = "no content" ->
            answer.status = 204 /\ answer.text = Empty
      [] expectation.by = "error"      ->
            /\ answer.status = expectation.status
            /\ expectation.code # {} =>
                  \E body \in Optional(Value) :
                     /\ Carries(answer, body)
                     /\ ~Expectation!EnvelopeThrows(expectation.envelope, body)
                     /\ CodeOf(body) = expectation.code
      [] expectation.by = "that"       ->
            fixtureValue # Undefined /\ answer.status \in expectation.accepts

\* A case passes exactly when the target's answer, as it was on the wire, is
\* what the declaration promised for the case's fixture; one without an
\* answer is a transport failure, and one that has an answer is not.
VerdictFollowsResponse ==
    pc = "disposing" =>
        LET report == caseReports[current]
            declaration == declared[current]
        IN  /\ Outcome(report) = "passed" <=>
                  \E answer \in response :
                     Conforms(answer, declaration.expectation, value)
            /\ report.failures = <<"transport-failure">> <=>
                  /\ response = {}
                  /\ Buildable(declaration, value)
                  /\ value \notin declaration.refuses

\* A callback of the declaration that throws, or a code that is read from
\* where there may be none.
AuthorFault(declaration, fixtureValue) ==
    LET expectation == declaration.expectation IN
    \/ ~Buildable(declaration, fixtureValue)
    \/ fixtureValue \in declaration.refuses
    \/ /\ expectation.by = "derived"
       /\ fixtureValue = Undefined \/ expectation.result = {}
    \/ /\ expectation.by = "error"
       /\ expectation.code # {}
       /\ expectation.envelope = "partial"

\* "Fixture and framework failures abort any remaining cases; transport
\* failures and policy mismatches are reported per case and execution
\* continues" (authoring-runtime.ts:112-113): whatever the target answers, it
\* is a fixture callback or the author's own code that ends a suite early, and
\* an assertion of expectThat() does not (authoring-expectations.ts:13-14).
TargetCannotAbort ==
    aborted /\ suiteFailures = <<>> => AuthorFault(declared[current], value)

-----------------------------------------------------------------------------
(* What the verdict rests on: how far the present case has come, and with  *)
(* what answer.                                                            *)

AnswerInv ==
    /\ pc \in {"building", "authorizing", "sending"} => response = {}
    /\ pc \in {"authorizing", "sending", "evaluating"} =>
          Buildable(declared[current], value)
    /\ pc \in {"sending", "evaluating"} => value \notin declared[current].refuses
    /\ pc = "evaluating" => \E answer \in Wire : response = {answer}
    /\ VerdictFollowsResponse
=============================================================================
