------------------------ MODULE ResponseExpectation ------------------------
(***************************************************************************)
(* The expectations that a declaration can end with, and what each finds   *)
(* in a response (authoring-expectations.ts).  An expectation returns the  *)
(* parts of the response that differ, one policy mismatch for each, or it  *)
(* throws.  An optional value is the set of it; values are those that the  *)
(* client reads, and a response has the headers of a function on names in  *)
(* lower case.                                                             *)
(***************************************************************************)
EXTENDS Naturals, Sequences, FiniteSets

CONSTANTS
    Undefined,         \* the fixture that is the value undefined
    DeepSubset(_, _),  \* isDeepSubset, specified in BodyExpectation
    CodeOf(_)          \* what an error envelope reads from a body

Terminal == {"status", "response", "derived", "body", "containing",
             "no content", "error", "that"}

Returns(found) == [throws |-> FALSE, found |-> found]
Throws         == [throws |-> TRUE, found |-> {}]

Part(kind) == [kind |-> kind, header |-> {}]

Differs(kind, differs) == IF differs THEN {Part(kind)} ELSE {}

PolicyMismatches(found) == [i \in 1..Cardinality(found) |-> "policy"]

-----------------------------------------------------------------------------
(* The terminals, by the names of their functions.                         *)

\* ExpectedResponse.status
Status(response, status) == Differs("status", response.status # status)

\* Mutation of HeaderDiffers: the name is looked up as it is spelled.
HeaderDiffersAsSpelled(response, header) ==
    \/ header.spelling \notin DOMAIN response.headers
    \/ response.headers[header.spelling] # header.value

\* headerValue, compared with the value of an expected header.
HeaderDiffers(response, header) ==
    \/ header.name \notin DOMAIN response.headers
    \/ response.headers[header.name] # header.value

\* An expectation has a status, headers, and a body if it has the property.
ResponseMismatches(response, expected) ==
    Status(response, expected.status)
    \cup {[kind |-> "header", header |-> {header.spelling}] :
             header \in {h \in expected.headers : HeaderDiffers(response, h)}}
    \cup UNION {Differs("body", response.body # body) : body \in expected.body}

StrictBody(response, body) == Differs("body", response.body # body)

ContainingBody(response, subset) ==
    Differs("body",
            /\ response.body # subset
            /\ \A actual \in response.body, expected \in subset :
                  ~DeepSubset(actual, expected))

NoContent(response) ==
    Status(response, 204) \cup Differs("body", response.body # {})

\* An envelope is total, or it throws where there is no body to read.
EnvelopeThrows(envelope, body) == envelope = "partial" /\ body = {}

\* errorExpectation throws where it is declared, not when it is evaluated, if
\* it has a code and the contract has no envelope.
Declarable(expectation) ==
    /\ expectation.by \in Terminal
    /\ expectation.by = "error" /\ expectation.code # {} =>
          expectation.envelope # "none"

Error(response, expected) ==
    IF expected.code = {} THEN Returns(Status(response, expected.status))
    ELSE IF EnvelopeThrows(expected.envelope, response.body) THEN Throws
    ELSE Returns(Status(response, expected.status)
                 \cup Differs("code", CodeOf(response.body) # expected.code))

\* An assertion accepts the response or throws; so does fixtureFromRunner.
AssertionThrows(assertion, response, fixture) ==
    fixture = Undefined \/ response.status \notin assertion.accepts

\* Mutation of Callback: the assertion's exception is not caught.
CallbackUncaught(response, fixture, assertion) ==
    IF AssertionThrows(assertion, response, fixture) THEN Throws ELSE Returns({})

\* callbackExpectation
Callback(response, fixture, assertion) ==
    Returns(Differs("assertion", AssertionThrows(assertion, response, fixture)))

\* responseExpectation of a function: it throws, or it has a result.
Derived(response, fixture, factory) ==
    IF fixture = Undefined \/ factory.result = {} THEN Throws
    ELSE Returns(UNION {ResponseMismatches(response, expected) :
                           expected \in factory.result})

-----------------------------------------------------------------------------
Evaluate(expectation, response, fixture) ==
    CASE expectation.by = "status"     ->
            Returns(Status(response, expectation.status))
      [] expectation.by = "response"   ->
            Returns(ResponseMismatches(response, expectation))
      [] expectation.by = "derived"    -> Derived(response, fixture, expectation)
      [] expectation.by = "body"       ->
            Returns(StrictBody(response, expectation.body))
      [] expectation.by = "containing" ->
            Returns(ContainingBody(response, expectation.body))
      [] expectation.by = "no content" -> Returns(NoContent(response))
      [] expectation.by = "error"      -> Error(response, expectation)
      [] expectation.by = "that"       -> Callback(response, fixture, expectation)
=============================================================================
