------------------------- MODULE AuthoredRun_proofs -------------------------
(***************************************************************************)
(* Proofs about AuthoredRun, for all declarations, fixtures and answers.   *)
(***************************************************************************)
EXTENDS AuthoredRun, AuthorizationRunner_proofs

\* Every step is one of the runner's.
LEMMA AuthoredStep == [AuthoredNext]_authoredVars => [Next]_vars
BY DEF AuthoredNext, authoredVars, RunnerStep, Created, RequestStep,
       SessionStep, Answered, Unanswered, Evaluated, Next

\* runAuthorizationTests is a run of AuthorizationRunner: what is proved of
\* the runner for arbitrary callbacks holds for those of a built contract
\* (authoring-runtime.ts:81-99).
THEOREM AuthoredRunIsRun == AuthoredSpec => Spec
<1>1. AuthoredInit => Init
  BY DEF AuthoredInit
<1>2. QED BY <1>1, AuthoredStep, PTL DEF AuthoredSpec, Spec

-----------------------------------------------------------------------------
\* An expectation throws only by the author's fault.
LEMMA ThrowsByFault ==
  ASSUME NEW declaration, NEW received, NEW fixtureValue,
         Expectation!Declarable(declaration.expectation),
         Expectation!Evaluate(declaration.expectation, received,
                              fixtureValue).throws
  PROVE  AuthorFault(declaration, fixtureValue)
<1> DEFINE e == declaration.expectation
<1>1. e.by \in Expectation!Terminal
  BY DEF Expectation!Declarable
<1>2. CASE e.by = "derived"
  BY <1>2 DEF Expectation!Evaluate, Expectation!Derived, Expectation!Returns,
              AuthorFault
<1>3. CASE e.by = "error"
  BY <1>3 DEF Expectation!Evaluate, Expectation!Error, Expectation!Returns,
              Expectation!EnvelopeThrows, AuthorFault
<1>4. CASE e.by \in {"status", "response", "body", "containing", "no content",
                     "that"}
  BY <1>4 DEF Expectation!Evaluate, Expectation!Callback, Expectation!Returns
<1>5. QED BY <1>1, <1>2, <1>3, <1>4 DEF Expectation!Terminal

\* Nobody but the case calls the executor, and nothing is declared late.
AuthoredInv ==
    /\ caller = "case"
    /\ declared \in [Case -> Authored]
    /\ suiteFailures \in Seq({"fixture-failure", "framework-defect"})
    /\ TargetCannotAbort

LEMMA AuthoredInvInit == AuthoredInit => AuthoredInv
BY DEF AuthoredInit, Init, AuthoredInv, TargetCannotAbort

\* Steps that end no case and record no failure.
LEMMA QuietStep ==
  ASSUME AuthoredInv,
         UNCHANGED <<suiteFailures, aborted, declared>>,
         caller' = "case",
         aborted => UNCHANGED <<current, value>>
  PROVE  AuthoredInv'
BY DEF AuthoredInv, TargetCannotAbort

\* Steps that abort the suite, or leave it aborted, by a failure of its own.
LEMMA FailureStep ==
  ASSUME AuthoredInv,
         suiteFailures' = Append(suiteFailures, "fixture-failure"),
         UNCHANGED <<declared, caller>>
  PROVE  AuthoredInv'
BY DEF AuthoredInv, TargetCannotAbort

\* Steps that end a case, fatally only by the author's fault.
LEMMA ConcludingStep ==
  ASSUME AuthoredInv, ~aborted,
         NEW actual, NEW failures, NEW fatal \in BOOLEAN,
         Conclude(actual, failures, fatal),
         fatal => AuthorFault(declared[current], value),
         UNCHANGED <<suiteFailures, caller, current, declared, value>>
  PROVE  AuthoredInv'
BY DEF AuthoredInv, TargetCannotAbort, Conclude

\* executeCase reports an error of the executor.
LEMMA ExecutorErrorStep ==
  ASSUME AuthoredInv, ~aborted,
         NEW category, ExecutorThrows(category),
         category = "framework-defect" => AuthorFault(declared[current], value),
         UNCHANGED <<suiteFailures, caller, current, declared, value>>
  PROVE  AuthoredInv'
<1> DEFINE fatal == category = "framework-defect"
<1>1. PICK actual : Conclude(actual, <<category>>, fatal)
  BY DEF ExecutorThrows, AuthoredInv
<1>2. fatal \in BOOLEAN
  OBVIOUS
<1>3. fatal => AuthorFault(declared[current], value)
  OBVIOUS
<1> HIDE DEF fatal
<1>4. QED BY <1>1, <1>2, <1>3, ConcludingStep

LEMMA EvaluatedStep ==
  ASSUME IInv, AuthoredInv, ~aborted, Evaluated
  PROVE  AuthoredInv'
<1>1. /\ pc = "evaluating"
      /\ UNCHANGED <<declared, value>>
  BY DEF Evaluated, authored
<1>2. current \in Case
  BY <1>1 DEF IInv, TypeInv, Holding, InCase
<1>3. Expectation!Declarable(declared[current].expectation)
  BY <1>2, AuthoredAssumption DEF AuthoredInv
<1>4. CASE EvaluateThrows
  <2>1. PICK answer : Expectation!Evaluate(declared[current].expectation,
                                           Received(answer), value).throws
    BY <1>1, <1>4 DEF Evaluated, EvaluateThrows, EvaluateReturns,
                      CheckReturns, caseVars, Conclude, CheckThrows
  <2>2. AuthorFault(declared[current], value)
    BY <1>3, <2>1, ThrowsByFault
  <2>3. /\ Conclude("response", <<"framework-defect">>, TRUE)
        /\ UNCHANGED <<suiteFailures, caller, current>>
    BY <1>4 DEF EvaluateThrows, CheckThrows, suiteVars, caseVars
  <2>4. QED BY <1>1, <2>2, <2>3, ConcludingStep
<1>5. CASE EvaluateReturns
  <2>1. PICK found \in MismatchLists : CheckReturns(found)
    BY <1>5 DEF EvaluateReturns
  <2>2. UNCHANGED <<suiteFailures, caller, current>>
    BY <1>5 DEF EvaluateReturns, suiteVars
  <2>3. CASE UNCHANGED aborted
    BY <1>1, <2>2, <2>3, QuietStep DEF AuthoredInv
  <2>4. CASE Conclude("response", FailuresOf(mismatches[current] \o found), FALSE)
    BY <1>1, <2>2, <2>4, ConcludingStep
  <2>5. QED BY <2>1, <2>3, <2>4 DEF CheckReturns
<1>6. QED BY <1>4, <1>5 DEF Evaluated

LEMMA AuthoredInvNext ==
  ASSUME IInv, AuthoredInv, [AuthoredNext]_authoredVars
  PROVE  AuthoredInv'
<1>1. aborted => pc \in {"disposing", "reporting"}
  BY DEF IInv, AbortInv
<1>2. CASE RunnerStep
  <2>1. UNCHANGED <<declared, value>>
    BY <1>2 DEF RunnerStep, authored
  <2>2. CASE CreateRejects \/ DisposeRejects
    <3>1. suiteFailures' = Append(suiteFailures, "fixture-failure")
      BY <2>2 DEF CreateRejects, DisposeRejects, AbortSuite
    <3>2. UNCHANGED caller
      BY <2>2 DEF CreateRejects, DisposeRejects, caseVars
    <3>3. QED BY <2>1, <3>1, <3>2, FailureStep
  <2>3. CASE ~(CreateRejects \/ DisposeRejects)
    <3>1. /\ UNCHANGED <<caller, suiteFailures, aborted>>
          /\ aborted => UNCHANGED current
      BY <1>1, <1>2, <2>3
         DEF RunnerStep, ExpandReturns, NextCase, EndLoop, DisposeResolves,
             SignalAborts, Reporting, vars, suiteVars, caseVars
    <3>2. QED BY <2>1, <3>1, QuietStep DEF AuthoredInv
  <2>4. QED BY <2>2, <2>3
<1>3. CASE Created
  <2>1. /\ pc = "creating" /\ caller' = "case"
        /\ UNCHANGED <<declared, suiteFailures, aborted>>
    BY <1>3 DEF Created, CreateResolves, suiteVars
  <2>2. QED BY <1>1, <2>1, QuietStep
<1>4. CASE pc = "building" /\ RequestStep
  <2>1. UNCHANGED <<declared, value>> /\ ~aborted
    BY <1>1, <1>4 DEF RequestStep, authored
  <2>2. CASE RequestBuilt
    BY <2>1, <2>2, QuietStep DEF RequestBuilt, suiteVars, caseVars, AuthoredInv
  <2>3. CASE ~RequestBuilt
    <3>1. RequestUnusable /\ ~Buildable(declared[current], value)
      BY <1>4, <2>3 DEF RequestStep
    <3>2. /\ ExecutorThrows("framework-defect")
          /\ UNCHANGED <<suiteFailures, caller, current>>
      BY <3>1 DEF RequestUnusable, suiteVars
    <3>3. AuthorFault(declared[current], value)
      BY <3>1 DEF AuthorFault
    <3>4. QED BY <2>1, <3>2, <3>3, ExecutorErrorStep
  <2>4. QED BY <2>2, <2>3
<1>5. CASE pc = "authorizing" /\ SessionStep
  <2>1. UNCHANGED <<declared, value>> /\ ~aborted
    BY <1>1, <1>5 DEF SessionStep, authored
  <2>2. CASE AuthorizeResolves
    BY <2>1, <2>2, QuietStep
       DEF AuthorizeResolves, suiteVars, caseVars, AuthoredInv
  <2>3. CASE ~AuthorizeResolves
    <3>1. AuthorizeFails /\ value \in declared[current].refuses
      BY <1>5, <2>3 DEF SessionStep
    <3>2. /\ ExecutorThrows("framework-defect")
          /\ UNCHANGED <<suiteFailures, caller, current>>
      BY <3>1 DEF AuthorizeFails, suiteVars
    <3>3. AuthorFault(declared[current], value)
      BY <3>1 DEF AuthorFault
    <3>4. QED BY <2>1, <3>2, <3>3, ExecutorErrorStep
  <2>4. QED BY <2>2, <2>3
<1>6. CASE Answered
  BY <1>1, <1>6, QuietStep
     DEF Answered, HttpResponds, suiteVars, caseVars, AuthoredInv
<1>7. CASE Unanswered
  <2>1. /\ UNCHANGED <<declared, value, suiteFailures, caller, current>>
        /\ ~aborted
        /\ ExecutorThrows("transport-failure")
    BY <1>1, <1>7 DEF Unanswered, HttpRejects, authored, suiteVars
  <2>2. QED BY <2>1, ExecutorErrorStep
<1>8. CASE Evaluated
  BY <1>1, <1>8, EvaluatedStep DEF Evaluated
<1>9. CASE UNCHANGED authoredVars
  BY <1>9, QuietStep
     DEF authoredVars, vars, authored, suiteVars, caseVars, AuthoredInv
<1>10. QED
  BY <1>2, <1>3, <1>4, <1>5, <1>6, <1>7, <1>8, <1>9 DEF AuthoredNext

\* A case aborts the suite only by the fault of its author, never by what the
\* target answers (authoring-runtime.ts:112-113).
THEOREM TargetNeverAborts == AuthoredSpec => []TargetCannotAbort
<1>1. AuthoredInv => TargetCannotAbort
  BY DEF AuthoredInv
<1>2. IInv /\ AuthoredInv /\ [AuthoredNext]_authoredVars => AuthoredInv'
  BY AuthoredInvNext
<1>3. AuthoredSpec => []IInv
  BY AuthoredRunIsRun, InductiveInvariant, PTL
<1>4. QED BY <1>1, <1>2, <1>3, AuthoredInvInit, PTL DEF AuthoredSpec

-----------------------------------------------------------------------------
(* What the client reads is what was on the wire, and an expectation that  *)
(* finds nothing in it is met.                                             *)

\* The client's decoding, as the text and the content type have it.
LEMMA BodyCarried ==
  ASSUME NEW answer \in Wire, NEW body, AtMostOne(body)
  PROVE  Received(answer).body = body <=> Carries(answer, body)
<1> DEFINE text == answer.text
<1>1. text \in Text
  BY WireAssumption
<1>2. Received(answer).body = ResponseBody(text, answer.type)
  BY DEF Received
<1>3. /\ text = Empty => Parsed(text) = {}
      /\ Parsed(text) # {} <=> text.parses # {}
      /\ AtMostOne(Parsed(text))
  <2>1. Parsed(Empty) = {} /\ Parsed(Word) = {}
    BY DEF Parsed, Empty, Word
  <2>2. Parsed(Quoted) = {StringValue(Word)} /\ Quoted.parses # {}
    BY DEF Parsed, Quoted
  <2>3. Parsed(Object) = {DocumentValue("object")} /\ Object.parses # {}
    BY DEF Parsed, Object
  <2>4. Empty.parses = {} /\ Word.parses = {}
    BY DEF Empty, Word
  <2>5. CASE text \in {Empty, Word}
    BY <2>1, <2>4, <2>5 DEF AtMostOne
  <2>6. CASE text \in {Quoted, Object}
    <3>1. Empty # Quoted /\ Empty # Object
      BY <2>2, <2>3, <2>4
    <3>2. QED BY <2>2, <2>3, <2>6, <3>1 DEF AtMostOne
  <2>7. QED BY <1>1, <2>5, <2>6 DEF Text
<1>4. CASE text = Empty
  <2>1. ResponseBody(text, answer.type) = {}
    BY <1>4 DEF ResponseBody
  <2>2. Carries(answer, body) <=> body = {}
    BY <1>3, <1>4 DEF Carries
  <2>3. QED BY <1>2, <2>1, <2>2
<1>5. CASE text # Empty /\ IsJson(answer.type) /\ Parsed(text) # {}
  <2>1. ResponseBody(text, answer.type) = Parsed(text)
    BY <1>5 DEF ResponseBody
  <2>2. Carries(answer, body) <=> \E carried \in body : carried \in Parsed(text)
    BY <1>3, <1>5 DEF Carries
  <2>3. QED BY <1>2, <1>3, <1>5, <2>1, <2>2 DEF AtMostOne
<1>6. CASE text # Empty /\ ~(IsJson(answer.type) /\ Parsed(text) # {})
  <2>1. ResponseBody(text, answer.type) = {StringValue(text)}
    BY <1>6 DEF ResponseBody
  <2>2. Carries(answer, body) <=> \E carried \in body : carried = StringValue(text)
    BY <1>3, <1>6 DEF Carries
  <2>3. QED BY <1>2, <2>1, <2>2 DEF AtMostOne
<1>7. QED BY <1>4, <1>5, <1>6

\* A body that is read is a value, or there is none.
LEMMA BodyRead ==
  ASSUME NEW answer \in Wire
  PROVE  /\ Received(answer).body \in Optional(Value)
         /\ AtMostOne(Received(answer).body)
<1> DEFINE text == answer.text
<1>1. text \in Text
  BY WireAssumption
<1>2. Received(answer).body = ResponseBody(text, answer.type)
  BY DEF Received
<1>3. \/ ResponseBody(text, answer.type) = {}
      \/ ResponseBody(text, answer.type) = {StringValue(text)}
      \/ ResponseBody(text, answer.type) = Parsed(text)
  BY DEF ResponseBody
<1>4. \/ Parsed(text) = {}
      \/ Parsed(text) = {StringValue(Word)}
      \/ Parsed(text) = {DocumentValue("object")}
  BY <1>1 DEF Parsed, Text, Empty, Word, Quoted, Object
<1>5. /\ StringValue(text) \in Value /\ StringValue(Word) \in Value
      /\ DocumentValue("object") \in Value
  BY <1>1 DEF Value, Text
<1>6. QED BY <1>2, <1>3, <1>4, <1>5 DEF Optional, AtMostOne

\* Only a Content-Type is read, if the answer has it.
LEMMA HeaderRead ==
  ASSUME NEW answer \in Wire, NEW header
  PROVE  ~Expectation!HeaderDiffers(Received(answer), header) <=>
            header.name = "content-type" /\ answer.type = {header.value}
<1> DEFINE headers == Received(answer).headers
<1>1. headers = [name \in {"content-type" : type \in answer.type} |->
                    CHOOSE type \in answer.type : TRUE]
  BY DEF Received
<1>2. answer.type = {} \/ \E type : answer.type = {type}
  BY WireAssumption DEF Optional
<1>3. CASE answer.type = {}
  <2>1. DOMAIN headers = {}
    BY <1>1, <1>3
  <2>2. QED BY <1>3, <2>1 DEF Expectation!HeaderDiffers
<1>4. ASSUME NEW type, answer.type = {type}
      PROVE  ~Expectation!HeaderDiffers(Received(answer), header) <=>
                header.name = "content-type" /\ answer.type = {header.value}
  <2>1. (CHOOSE t \in answer.type : TRUE) = type
    BY <1>4
  <2>2. DOMAIN headers = {"content-type"} /\ headers["content-type"] = type
    BY <1>1, <1>4, <2>1
  <2>3. QED BY <1>4, <2>2 DEF Expectation!HeaderDiffers
<1>5. QED BY <1>2, <1>3, <1>4

LEMMA FiniteUnion ==
  ASSUME NEW S, NEW T, IsFiniteSet(S), IsFiniteSet(T)
  PROVE  IsFiniteSet(S \cup T)
BY FS_Union

\* Nothing is found in the response exactly when it is the expected one.
LEMMA ResponseMet ==
  ASSUME NEW answer \in Wire, NEW expected, ResponseShaped(expected)
  PROVE  /\ Expectation!ResponseMismatches(Received(answer), expected) = {} <=>
               ConformsTo(answer, expected)
         /\ IsFiniteSet(Expectation!ResponseMismatches(Received(answer), expected))
<1> DEFINE response_ == Received(answer)
           status == Expectation!Status(response_, expected.status)
           wrong == {h \in expected.headers :
                        Expectation!HeaderDiffers(response_, h)}
           headers == {[kind |-> "header", header |-> {h.spelling}] : h \in wrong}
           bodies == UNION {Expectation!Differs("body", response_.body # body) :
                               body \in expected.body}
<1>1. Expectation!ResponseMismatches(response_, expected) =
         status \cup headers \cup bodies
  BY DEF Expectation!ResponseMismatches
<1>2. /\ status = {} <=> answer.status = expected.status
      /\ status \subseteq {Expectation!Part("status")}
  BY DEF Expectation!Status, Expectation!Differs, Received
<1>3. headers = {} <=> \A h \in expected.headers :
                          h.name = "content-type" /\ answer.type = {h.value}
  <2>1. headers = {} <=> wrong = {}
    OBVIOUS
  <2>2. wrong = {} <=> \A h \in expected.headers :
                          ~Expectation!HeaderDiffers(response_, h)
    OBVIOUS
  <2>3. \A h : ~Expectation!HeaderDiffers(response_, h) <=>
                   h.name = "content-type" /\ answer.type = {h.value}
    BY HeaderRead
  <2> HIDE DEF wrong, headers, response_
  <2>4. QED BY <2>1, <2>2, <2>3
<1>4. IsFiniteSet(headers)
  <2>1. IsFiniteSet(wrong)
    BY FS_Subset DEF ResponseShaped
  <2> DEFINE f == [h \in wrong |-> [kind |-> "header", header |-> {h.spelling}]]
  <2>2. f \in Surjection(wrong, headers)
    BY DEF Surjection
  <2>3. QED BY <2>1, <2>2, FS_Surjection
<1>5. /\ bodies = {} <=> \A body \in expected.body : Carries(answer, body)
      /\ bodies \subseteq {Expectation!Part("body")}
  BY BodyCarried DEF ResponseShaped, Expectation!Differs
<1>6. IsFiniteSet(status) /\ IsFiniteSet(bodies)
  BY <1>2, <1>5, FS_Singleton, FS_Subset
<1> HIDE DEF status, headers, bodies, response_
<1>7. IsFiniteSet(status \cup headers \cup bodies)
  BY <1>4, <1>6, FS_Union
<1>8. QED BY <1>1, <1>2, <1>3, <1>5, <1>7 DEF ConformsTo, response_

\* A part that differs is found, and found once.
LEMMA DifferenceFound ==
  ASSUME NEW kind, NEW differs \in BOOLEAN
  PROVE  /\ Expectation!Differs(kind, differs) = {} <=> ~differs
         /\ IsFiniteSet(Expectation!Differs(kind, differs))
<1>1. CASE differs
  <2>1. Expectation!Differs(kind, differs) = {Expectation!Part(kind)}
    BY <1>1 DEF Expectation!Differs
  <2>2. QED BY <1>1, <2>1, FS_Singleton
<1>2. CASE ~differs
  <2>1. Expectation!Differs(kind, differs) = {}
    BY <1>2 DEF Expectation!Differs
  <2>2. QED BY <1>2, <2>1, FS_EmptySet
<1>3. QED BY <1>1, <1>2

LEMMA StatusMet ==
  ASSUME NEW answer, NEW status
  PROVE  /\ Expectation!Status(Received(answer), status) = {} <=>
               answer.status = status
         /\ IsFiniteSet(Expectation!Status(Received(answer), status))
<1>1. Received(answer).status = answer.status
  BY DEF Received
<1>2. QED BY <1>1, DifferenceFound DEF Expectation!Status

\* An expectation lets an answer pass exactly when the answer is what it
\* promises (authoring-expectations.ts:78-239).
LEMMA ExpectationMet ==
  ASSUME NEW answer \in Wire, NEW e, NEW fixtureValue,
         Expectation!Declarable(e), Shaped(e),
         NEW result,
         result = Expectation!Evaluate(e, Received(answer), fixtureValue)
  PROVE  /\ ~result.throws /\ result.found = {} <=>
               Conforms(answer, e, fixtureValue)
         /\ IsFiniteSet(result.found)
<1> DEFINE received == Received(answer)
<1>1. /\ \A found : /\ Expectation!Returns(found).throws = FALSE
                    /\ Expectation!Returns(found).found = found
      /\ Expectation!Throws.throws = TRUE
      /\ Expectation!Throws.found = {}
  BY DEF Expectation!Returns, Expectation!Throws
<1>2. IsFiniteSet({})
  BY FS_EmptySet
<1>3. CASE e.by = "status"
  <2>1. result = Expectation!Returns(Expectation!Status(received, e.status))
    BY <1>3 DEF Expectation!Evaluate
  <2>2. Conforms(answer, e, fixtureValue) <=> answer.status = e.status
    BY <1>3 DEF Conforms
  <2>3. QED BY <1>1, <2>1, <2>2, StatusMet
<1>4. CASE e.by = "response"
  <2>1. result = Expectation!Returns(Expectation!ResponseMismatches(received, e))
    BY <1>4 DEF Expectation!Evaluate
  <2>2. Conforms(answer, e, fixtureValue) <=> ConformsTo(answer, e)
    BY <1>4 DEF Conforms
  <2>3. ResponseShaped(e)
    BY <1>4 DEF Shaped
  <2>4. QED BY <1>1, <2>1, <2>2, <2>3, ResponseMet
<1>5. CASE e.by = "derived"
  <2>1. result = Expectation!Derived(received, fixtureValue, e)
    BY <1>5 DEF Expectation!Evaluate
  <2>2. Conforms(answer, e, fixtureValue) <=>
           /\ fixtureValue # Undefined
           /\ \E expected \in e.result : ConformsTo(answer, expected)
    BY <1>5 DEF Conforms
  <2>3. CASE fixtureValue = Undefined \/ e.result = {}
    <3>1. result = Expectation!Throws
      BY <2>1, <2>3 DEF Expectation!Derived
    <3>2. QED BY <1>1, <1>2, <2>2, <2>3, <3>1
  <2>4. ASSUME fixtureValue # Undefined, NEW expected \in e.result
        PROVE  /\ ~result.throws /\ result.found = {} <=>
                     Conforms(answer, e, fixtureValue)
               /\ IsFiniteSet(result.found)
    <3>1. e.result = {expected} /\ ResponseShaped(expected)
      BY <1>5, <2>4 DEF Shaped, AtMostOne
    <3> DEFINE found == Expectation!ResponseMismatches(received, expected)
    <3>2. UNION {Expectation!ResponseMismatches(received, x) : x \in e.result}
             = found
      BY <3>1
    <3>3. result = Expectation!Returns(found)
      BY <2>1, <2>4, <3>2 DEF Expectation!Derived
    <3>4. Conforms(answer, e, fixtureValue) <=> ConformsTo(answer, expected)
      BY <2>2, <2>4, <3>1
    <3>5. (found = {} <=> ConformsTo(answer, expected)) /\ IsFiniteSet(found)
      BY <3>1, ResponseMet
    <3> HIDE DEF found
    <3>6. QED BY <1>1, <3>3, <3>4, <3>5
  <2>5. QED BY <2>3, <2>4
<1>6. CASE e.by = "body"
  <2> DEFINE found == Expectation!StrictBody(received, e.body)
  <2>1. result = Expectation!Returns(found)
    BY <1>6 DEF Expectation!Evaluate
  <2>2. Conforms(answer, e, fixtureValue) <=> Carries(answer, e.body)
    BY <1>6 DEF Conforms
  <2>3. received.body = e.body <=> Carries(answer, e.body)
    BY <1>6, BodyCarried DEF Shaped
  <2>4. (found = {} <=> received.body = e.body) /\ IsFiniteSet(found)
    BY DifferenceFound DEF Expectation!StrictBody
  <2> HIDE DEF found
  <2>5. QED BY <1>1, <2>1, <2>2, <2>3, <2>4
<1>7. CASE e.by = "containing"
  <2> DEFINE found == Expectation!ContainingBody(received, e.body)
             contained == \E actual \in received.body, subset \in e.body :
                             DeepSubset(actual, subset)
  <2>1. result = Expectation!Returns(found)
    BY <1>7 DEF Expectation!Evaluate
  <2>2. Conforms(answer, e, fixtureValue) <=>
           \/ Carries(answer, e.body)
           \/ \E actual \in Value, subset \in e.body :
                 Carries(answer, {actual}) /\ DeepSubset(actual, subset)
    BY <1>7 DEF Conforms
  <2>3. received.body = e.body <=> Carries(answer, e.body)
    BY <1>7, BodyCarried DEF Shaped
  <2>4. \A actual : Carries(answer, {actual}) <=> received.body = {actual}
    BY BodyCarried DEF AtMostOne
  <2>5. \A actual : actual \in received.body <=>
           actual \in Value /\ received.body = {actual}
    BY BodyRead DEF Optional, AtMostOne
  <2>6. contained <=>
           \E actual \in Value, subset \in e.body :
              Carries(answer, {actual}) /\ DeepSubset(actual, subset)
    BY <2>4, <2>5
  <2>7. /\ found = {} <=> received.body = e.body \/ contained
        /\ IsFiniteSet(found)
    <3> DEFINE differs == /\ received.body # e.body
                          /\ \A actual \in received.body, expected \in e.body :
                                ~DeepSubset(actual, expected)
    <3>1. found = Expectation!Differs("body", differs)
      BY DEF Expectation!ContainingBody
    <3>2. differs \in BOOLEAN
      OBVIOUS
    <3>3. ~differs <=> received.body = e.body \/ contained
      OBVIOUS
    <3> HIDE DEF differs, found, contained
    <3>4. QED BY <3>1, <3>2, <3>3, DifferenceFound
  <2> HIDE DEF found, contained
  <2>8. QED BY <1>1, <2>1, <2>2, <2>3, <2>6, <2>7
<1>8. CASE e.by = "no content"
  <2> DEFINE status == Expectation!Status(received, 204)
             body == Expectation!Differs("body", received.body # {})
  <2>1. result = Expectation!Returns(status \cup body)
    BY <1>8 DEF Expectation!Evaluate, Expectation!NoContent
  <2>2. Conforms(answer, e, fixtureValue) <=>
           answer.status = 204 /\ answer.text = Empty
    BY <1>8 DEF Conforms
  <2>3. received.body = {} <=> answer.text = Empty
    BY BodyCarried DEF AtMostOne, Carries
  <2>4. (status = {} <=> answer.status = 204) /\ IsFiniteSet(status)
    BY StatusMet
  <2>5. (body = {} <=> received.body = {}) /\ IsFiniteSet(body)
    BY DifferenceFound
  <2> HIDE DEF status, body
  <2>6. IsFiniteSet(status \cup body)
    BY <2>4, <2>5, FiniteUnion
  <2>7. QED BY <1>1, <2>1, <2>2, <2>3, <2>4, <2>5, <2>6
<1>9. CASE e.by = "error"
  <2> DEFINE status == Expectation!Status(received, e.status)
             code == Expectation!Differs("code", CodeOf(received.body) # e.code)
             throws == Expectation!EnvelopeThrows(e.envelope, received.body)
  <2>1. result = IF e.code = {} THEN Expectation!Returns(status)
                 ELSE IF throws THEN Expectation!Throws
                 ELSE Expectation!Returns(status \cup code)
    BY <1>9 DEF Expectation!Evaluate, Expectation!Error
  <2>2. Conforms(answer, e, fixtureValue) <=>
           /\ answer.status = e.status
           /\ e.code # {} =>
                 \E body \in Optional(Value) :
                    /\ Carries(answer, body)
                    /\ ~Expectation!EnvelopeThrows(e.envelope, body)
                    /\ CodeOf(body) = e.code
    BY <1>9 DEF Conforms
  <2>3. \A body \in Optional(Value) :
           Carries(answer, body) <=> received.body = body
    BY BodyCarried DEF Optional, AtMostOne
  <2>4. (\E body \in Optional(Value) :
            /\ Carries(answer, body)
            /\ ~Expectation!EnvelopeThrows(e.envelope, body)
            /\ CodeOf(body) = e.code)
        <=> ~throws /\ CodeOf(received.body) = e.code
    BY <2>3, BodyRead
  <2>5. (status = {} <=> answer.status = e.status) /\ IsFiniteSet(status)
    BY StatusMet
  <2>6. (code = {} <=> CodeOf(received.body) = e.code) /\ IsFiniteSet(code)
    BY DifferenceFound
  <2> DEFINE promised == \E body \in Optional(Value) :
                            /\ Carries(answer, body)
                            /\ ~Expectation!EnvelopeThrows(e.envelope, body)
                            /\ CodeOf(body) = e.code
  <2>7. IsFiniteSet(status \cup code)
    BY <2>5, <2>6, FiniteUnion
  <2>8. Conforms(answer, e, fixtureValue) <=>
           answer.status = e.status /\ (e.code # {} => promised)
    BY <2>2
  <2>9. promised <=> ~throws /\ CodeOf(received.body) = e.code
    BY <2>4
  <2> HIDE DEF status, code, throws, promised
  <2>10. CASE e.code = {}
    <3>1. result = Expectation!Returns(status)
      BY <2>1, <2>10
    <3>2. QED BY <1>1, <2>5, <2>8, <2>10, <3>1
  <2>11. CASE e.code # {} /\ throws
    <3>1. result = Expectation!Throws
      BY <2>1, <2>11
    <3>2. QED BY <1>1, <1>2, <2>8, <2>9, <2>11, <3>1
  <2>12. CASE e.code # {} /\ ~throws
    <3>1. result = Expectation!Returns(status \cup code)
      BY <2>1, <2>12
    <3>2. QED BY <1>1, <2>5, <2>6, <2>7, <2>8, <2>9, <2>12, <3>1
  <2>13. QED BY <2>10, <2>11, <2>12
<1>10. CASE e.by = "that"
  <2> DEFINE throws == Expectation!AssertionThrows(e, received, fixtureValue)
             found == Expectation!Differs("assertion", throws)
  <2>1. result = Expectation!Returns(found)
    BY <1>10 DEF Expectation!Evaluate, Expectation!Callback
  <2>2. Conforms(answer, e, fixtureValue) <=>
           fixtureValue # Undefined /\ answer.status \in e.accepts
    BY <1>10 DEF Conforms
  <2>3. throws \in BOOLEAN
        /\ (throws <=> ~(fixtureValue # Undefined /\ answer.status \in e.accepts))
    BY DEF Expectation!AssertionThrows, Received
  <2> HIDE DEF throws
  <2>4. (found = {} <=> ~throws) /\ IsFiniteSet(found)
    BY <2>3, DifferenceFound
  <2> HIDE DEF found
  <2>5. QED BY <1>1, <2>1, <2>2, <2>3, <2>4
<1>11. QED
  BY <1>3, <1>4, <1>5, <1>6, <1>7, <1>8, <1>9, <1>10
     DEF Expectation!Declarable, Expectation!Terminal

-----------------------------------------------------------------------------
(* The verdict.                                                            *)

LEMMA AnswerInvInit == AuthoredInit => AnswerInv
BY DEF AuthoredInit, Init, AnswerInv, VerdictFollowsResponse

\* Where the run awaits nothing of a case, AnswerInv says nothing.
LEMMA BetweenCases ==
  ASSUME pc' \notin {"building", "authorizing", "sending", "evaluating",
                     "disposing"}
  PROVE  AnswerInv'
BY DEF AnswerInv, VerdictFollowsResponse

\* The report of the case in hand is the last.
LEMMA ConcludedReport ==
  ASSUME IInv, pc \in InCase, NEW actual, NEW failures, NEW fatal,
         Conclude(actual, failures, fatal), current' = current
  PROVE  /\ pc' = "disposing"
         /\ caseReports'[current'].failures = failures
<1> DEFINE new == [case |-> current, actual |-> actual, failures |-> failures]
<1>1. pc' = "disposing" /\ caseReports' = Append(caseReports, new)
  BY DEF Conclude
<1>2. Len(caseReports) = current - 1 /\ current \in Case
  BY DEF IInv, PositionInv, TypeInv, Holding
<1>3. caseReports \in Seq(CaseReport)
  BY DEF IInv, TypeInv, TypeOK
<1>4. new.failures = failures
  OBVIOUS
<1> HIDE DEF new
<1>5. Append(caseReports, new)[current] = new
  BY <1>2, <1>3, NumCasesAssumption DEF Case
<1>6. QED BY <1>1, <1>4, <1>5

\* A step that ends the case keeps AnswerInv if its failures are right.
LEMMA VerdictStep ==
  ASSUME IInv, pc \in InCase, NEW actual, NEW failures, NEW fatal,
         Conclude(actual, failures, fatal),
         UNCHANGED <<current, authored>>,
         failures = <<>> <=>
            \E answer \in response :
               Conforms(answer, declared[current].expectation, value),
         failures = <<"transport-failure">> <=>
            /\ response = {}
            /\ Buildable(declared[current], value)
            /\ value \notin declared[current].refuses
  PROVE  AnswerInv'
<1>1. /\ pc' = "disposing"
      /\ caseReports'[current'].failures = failures
  BY ConcludedReport
<1>2. UNCHANGED <<declared, value, response, current>>
  BY DEF authored
<1>3. Outcome(caseReports'[current']) = "passed" <=> failures = <<>>
  BY <1>1 DEF Outcome
<1>4. VerdictFollowsResponse'
  BY <1>1, <1>2, <1>3 DEF VerdictFollowsResponse
<1>5. QED BY <1>1, <1>4 DEF AnswerInv

\* So does one on which the executor gives up before there is an answer.
LEMMA GivenUp ==
  ASSUME IInv, AuthoredInv, pc \in InCase, response = {},
         NEW category \in ExecutorError, ExecutorThrows(category),
         UNCHANGED <<current, authored>>,
         category = "transport-failure" <=>
            /\ Buildable(declared[current], value)
            /\ value \notin declared[current].refuses
  PROVE  AnswerInv'
<1>1. PICK actual, fatal : Conclude(actual, <<category>>, fatal)
  BY DEF ExecutorThrows, AuthoredInv
<1>2. <<category>> # <<>>
  OBVIOUS
<1>3. <<category>> = <<"transport-failure">> <=> category = "transport-failure"
  OBVIOUS
<1>4. QED BY <1>1, <1>2, <1>3, VerdictStep

\* Cardinality is defined anew in the instance.
LEMMA SameCardinality ==
  \A S : Expectation!Cardinality(S) = Cardinality(S)
BY DEF Expectation!Cardinality, Cardinality

\* The case's expectation decides as ExpectationMet says.
LEMMA EvaluatedAnswer ==
  ASSUME IInv, AuthoredInv, AnswerInv, Evaluated
  PROVE  AnswerInv'
<1>1. pc = "evaluating" /\ pc \in InCase /\ UNCHANGED authored
  BY DEF Evaluated, InCase
<1>2. current \in Case
  BY <1>1 DEF IInv, TypeInv, Holding
<1> DEFINE e == declared[current].expectation
<1>3. Expectation!Declarable(e) /\ Shaped(e)
  BY <1>2, AuthoredAssumption DEF AuthoredInv
<1>4. PICK answer \in Wire : response = {answer}
  BY <1>1 DEF AnswerInv
<1> DEFINE result == Expectation!Evaluate(e, Received(answer), value)
<1>5. \/ result.throws /\ EvaluateThrows
      \/ /\ ~result.throws /\ EvaluateReturns
         /\ mismatches'[current] = Expectation!PolicyMismatches(result.found)
  BY <1>4 DEF Evaluated
<1>6. /\ ~result.throws /\ result.found = {} <=> Conforms(answer, e, value)
      /\ IsFiniteSet(result.found)
  BY <1>3, ExpectationMet
<1> HIDE DEF e, result
<1>7. CASE result.throws /\ EvaluateThrows
  <2>1. /\ Conclude("response", <<"framework-defect">>, TRUE)
        /\ UNCHANGED current
    BY <1>7 DEF EvaluateThrows, CheckThrows, suiteVars, caseVars
  <2>2. /\ <<"framework-defect">> # <<>>
        /\ <<"framework-defect">> # <<"transport-failure">>
    OBVIOUS
  <2>3. QED BY <1>1, <1>4, <1>6, <1>7, <2>1, <2>2, VerdictStep DEF e
<1>8. CASE /\ ~result.throws /\ EvaluateReturns
           /\ mismatches'[current] = Expectation!PolicyMismatches(result.found)
  <2>1. PICK found \in MismatchLists : CheckReturns(found)
    BY <1>8 DEF EvaluateReturns
  <2>2. UNCHANGED current
    BY <1>8 DEF EvaluateReturns, suiteVars
  <2>3. CASE pc' = "verifying"
    BY <2>3, BetweenCases
  <2>4. CASE pc' # "verifying"
    <3> DEFINE all == mismatches[current] \o found
    <3>1. /\ Conclude("response", FailuresOf(all), FALSE)
          /\ mismatches' = [mismatches EXCEPT ![current] = all]
      BY <2>1, <2>4 DEF CheckReturns
    <3>2. mismatches'[current] = all
      BY <1>2, <3>1 DEF IInv, TypeInv, TypeOK
    <3>3. all = Expectation!PolicyMismatches(result.found)
      BY <1>8, <3>2
    <3> HIDE DEF all
    <3> DEFINE n == Cardinality(result.found)
    <3>4. n \in Nat /\ (n = 0 <=> result.found = {})
      BY <1>6, FS_CardinalityType, FS_EmptySet
    <3>5. all = [i \in 1..n |-> "policy"]
      BY <3>3, SameCardinality DEF Expectation!PolicyMismatches
    <3> HIDE DEF n
    <3>6. FailuresOf(all) = [i \in 1..n |-> "policy-mismatch"]
      BY <3>5 DEF FailuresOf, CategoryOf
    <3>7. FailuresOf(all) = <<>> <=> n = 0
      BY <3>4, <3>6
    <3>8. FailuresOf(all) # <<"transport-failure">>
      BY <3>4, <3>6
    <3>9. FailuresOf(all) = <<>> <=> Conforms(answer, e, value)
      BY <1>6, <1>8, <3>4, <3>7
    <3>10. QED BY <1>1, <1>4, <2>2, <3>1, <3>8, <3>9, VerdictStep DEF e
  <2>5. QED BY <2>3, <2>4
<1>9. QED BY <1>5, <1>7, <1>8

LEMMA AnswerInvNext ==
  ASSUME IInv, AuthoredInv, AnswerInv, [AuthoredNext]_authoredVars
  PROVE  AnswerInv'
<1>1. CASE RunnerStep
  <2>1. UNCHANGED authored
    BY <1>1 DEF RunnerStep
  <2>2. CASE SignalAborts \/ Reporting
    <3>1. UNCHANGED <<pc, current, caseReports, declared, value, response>>
      BY <2>1, <2>2 DEF SignalAborts, Reporting, vars, suiteVars, authored
    <3>2. QED BY <3>1 DEF AnswerInv, VerdictFollowsResponse
  <2>3. CASE ~(SignalAborts \/ Reporting)
    <3>1. pc' \in {"loading", "looping", "creating", "reporting"}
      BY <1>1, <2>3
         DEF RunnerStep, ExpandReturns, NextCase, EndLoop, CreateRejects,
             DisposeResolves, DisposeRejects, IInv, PositionInv
    <3>2. QED BY <3>1, BetweenCases
  <2>4. QED BY <2>2, <2>3
<1>2. CASE Created
  <2>1. pc' = "building" /\ response' = {}
    BY <1>2 DEF Created, CreateResolves
  <2>2. QED BY <2>1 DEF AnswerInv, VerdictFollowsResponse
<1>3. CASE pc = "building" /\ RequestStep
  <2>1. response = {} /\ UNCHANGED authored /\ pc \in InCase
    BY <1>3 DEF AnswerInv, RequestStep, InCase, Executing
  <2>2. CASE Buildable(declared[current], value)
    <3>1. pc' = "authorizing" /\ UNCHANGED <<current, declared, value, response>>
      BY <1>3, <2>1, <2>2, ProviderAssumption
         DEF RequestStep, RequestBuilt, AuthoredInv, suiteVars, authored
    <3>2. QED BY <2>1, <2>2, <3>1 DEF AnswerInv, VerdictFollowsResponse
  <2>3. CASE ~Buildable(declared[current], value)
    <3>1. ExecutorThrows("framework-defect") /\ UNCHANGED current
      BY <1>3, <2>3 DEF RequestStep, RequestUnusable, suiteVars
    <3>2. QED BY <2>1, <2>3, <3>1, GivenUp DEF ExecutorError
  <2>4. QED BY <2>2, <2>3
<1>4. CASE pc = "authorizing" /\ SessionStep
  <2>1. /\ response = {} /\ UNCHANGED authored /\ pc \in InCase
        /\ Buildable(declared[current], value)
    BY <1>4 DEF AnswerInv, SessionStep, InCase, Executing
  <2>2. CASE value \notin declared[current].refuses
    <3>1. pc' = "sending" /\ UNCHANGED <<current, declared, value, response>>
      BY <1>4, <2>1, <2>2
         DEF SessionStep, AuthorizeResolves, suiteVars, authored
    <3>2. QED BY <2>1, <2>2, <3>1 DEF AnswerInv, VerdictFollowsResponse
  <2>3. CASE value \in declared[current].refuses
    <3>1. ExecutorThrows("framework-defect") /\ UNCHANGED current
      BY <1>4, <2>3 DEF SessionStep, AuthorizeFails, suiteVars
    <3>2. QED BY <2>1, <2>3, <3>1, GivenUp DEF ExecutorError
  <2>4. QED BY <2>2, <2>3
<1>5. CASE Answered
  <2>1. /\ pc = "sending" /\ pc' = "evaluating"
        /\ UNCHANGED <<current, declared, value>>
    BY <1>5 DEF Answered, HttpResponds, AuthoredInv, suiteVars
  <2>2. \E answer \in Wire : response' = {answer}
    BY <1>5 DEF Answered, AnswersTo
  <2>3. QED BY <2>1, <2>2 DEF AnswerInv, VerdictFollowsResponse
<1>6. CASE Unanswered
  <2>1. /\ pc = "sending" /\ pc \in InCase /\ UNCHANGED <<current, authored>>
        /\ ExecutorThrows("transport-failure")
    BY <1>6 DEF Unanswered, HttpRejects, suiteVars, InCase, Executing
  <2>2. QED BY <2>1, GivenUp DEF AnswerInv, ExecutorError
<1>7. CASE Evaluated
  BY <1>7, EvaluatedAnswer
<1>8. CASE UNCHANGED authoredVars
  <2>1. UNCHANGED <<pc, current, caseReports, declared, value, response>>
    BY <1>8 DEF authoredVars, vars, authored, suiteVars
  <2>2. QED BY <2>1 DEF AnswerInv, VerdictFollowsResponse
<1>9. QED
  BY <1>1, <1>2, <1>3, <1>4, <1>5, <1>6, <1>7, <1>8 DEF AuthoredNext

\* A case passes exactly when the answer that was on the wire is what its
\* declaration promises for its fixture, and a transport failure is the lack
\* of an answer to a request that could be made (runner.ts:362-462).
THEOREM VerdictIsOfTheAnswer == AuthoredSpec => []VerdictFollowsResponse
<1>1. AnswerInv => VerdictFollowsResponse
  BY DEF AnswerInv
<1>2. IInv /\ AuthoredInv /\ [AuthoredNext]_authoredVars => AuthoredInv'
  BY AuthoredInvNext
<1>3. /\ IInv /\ AuthoredInv /\ AnswerInv /\ [AuthoredNext]_authoredVars
      => AnswerInv'
  BY AnswerInvNext
<1>4. AuthoredSpec => []IInv
  BY AuthoredRunIsRun, InductiveInvariant, PTL
<1>5. QED
  BY <1>1, <1>2, <1>3, <1>4, AuthoredInvInit, AnswerInvInit, PTL
     DEF AuthoredSpec
=============================================================================
