# Verification of auth-conformance

`auth-conformance` runs black-box authorization tests. A contract declares which
actor may do what; the runner executes each case against a live HTTP service, on
a fixture of its own, and reports a verdict. This directory holds TLA+ models of
its parts, the TLC configurations that check them on small instances, and TLAPS
proofs of what holds for every value of the constants.

In what follows `runner.ts`, `authoring-contract.ts` and so on are files of
`packages/conformance/src/`; `server.ts` and `authorization.test.ts` are those of
`examples/hono-user-admin/`. `PROJECT.json` lists, for every definition that models
code, the lines it stands for ("map"), and for every property a plausible bug that
breaks it ("mutants").

## 1. Inventory

### The parts, their state and how they interact

| Part | State | Operations | Talks to |
|---|---|---|---|
| Runner (`AuthorizationRunner.run`, `executeCase`) | locals of `run()`: cases, caseReports, suiteFailures, aborted; per case the fixture and the mismatches found | expand, validate the catalog, then per case create / execute / evaluate / verify / dispose, and the first report | awaits the fixture lifecycle, the executor, the evaluator, postconditions, the catalog, reporters; is given an `AbortSignal` that it only passes on |
| Scenario executor (`HttpScenarioExecutor.execute`) | none of its own | build the request, authorize it, check its method, send it; every failure is a transport failure or a framework defect | called by the runner and, through the `execute` it is given, by each postcondition |
| Report building and delivery (`report`, `buildReport`, `reportTo`) | deliveryFailures, successfulReporters | deliver to each reporter; if one threw, deliver an aborted report again to those that did not | reporters |
| Case expander (`model.ts`) | none | flatten, reject duplicate ids, sort by id | called by the runner and by `contract.build()` |
| Authoring contract (`authoring-contract.ts`) | one `ContractState` shared by all the builders of a contract, one draft shared by all the builders of a declaration | actor, case, rule, id, as, operation selection, the expectation that completes a declaration, build | OpenAPI inventory, expander |
| Declared requests (`buildRequest`, `resolvePath`) | none | replace the placeholders of a path by parameters or by callbacks of the fixture | built by the executor, from what was declared |
| OpenAPI inventory | none | `fromOpenApi`, selection by id, tag or all | contract |
| OpenAPI coverage policy | none | `validate` of catalog, classifications and cases | the runner calls it once, before the loop |
| Sessions | none | make a session of a fixture; merge its headers and cookies into a request | executor |
| Authoring runtime (`FetchHttpClient`, `runAuthorizationTests`) | none | encode a body, `fetch`, decode the answer; run a built contract | executor, runner |
| Expectations | none | eight terminals that compare status, headers and body; `isDeepSubset` | called as the evaluator of a case |
| Redaction | none | redact values, texts, JSON inside texts, queries | runner, reporters |
| Reporters and text ordering | none | a canonical JSON artifact, a console summary | called by the delivery |
| Example server (`server.ts`) | the maps users, bearerPrincipals, sessionPrincipals, fixtures, and nextFixtureId | POST and DELETE fixture, GET and PATCH user, GET audit | HTTP |
| Example contract (`authorization.test.ts`) | the fixture in hand | provision and dispose over HTTP; ten cases | runner, example server |
| Exports, `main.ts`, packaging scripts | none | see section 8 | |

### Where it is hard

* **Failure in the middle of a case.** Every await of the loop can reject. Which
  rejections end the case, which the suite, and which let the disposal run first is
  spread over nested `try`/`catch`/`finally`, a `fatal` flag, two `break`s and two
  lists of failures.
* **Re-entrance.** A postcondition calls the executor back any number of times, may
  catch what it throws, and may throw it on; its category then decides the suite.
* **Delivery that corrects itself.** A reporter that throws turns a passed run into an
  aborted one after others took the passed report; the correction may fail too.
* **Time.** The runner bounds nothing itself. Only the caller's signal ends a request
  that is never answered, and it may fire between any two steps.
* **A network under it.** The example's fixtures are made and removed over HTTP. An
  exchange that the client gave up can still be served, later, or never.
* **A handler with an await in it.** PATCH on the example server reads a user, awaits
  the body, and stores what it read.
* **Fluent builders that are kept.** An author may hold on to any builder and call it
  again at any time; all of them share mutable drafts.
* **A target that answers anything.** Its body may be absent, not JSON, or JSON of any
  shape, and reaches callbacks of the author; the fixture they read may be `undefined`.
* **Two readings of one thing.** Path parameters are found by a type and by a regular
  expression; a body is a text on the wire and a value at both ends of it.
* **Conversions that are repeated.** A message is redacted by the run and again by each
  reporter, at every level of nested JSON; a report is sorted each time it is written.
* **Boundaries.** Duplicate ids, empty and repeated selections, several spellings of
  one header, empty containers in bodies, cases for operations a catalog has lost.

`PROJECT.json` "hazards" lists each of these at its line with the properties that would
catch it going wrong.

### What makes each part correct

* Runner: fixtures are owned (created at most once per case, disposed of exactly once,
  one at a time); a case passes only if it was answered and all its checks were clean;
  the suite is aborted exactly when a defect is on record; nothing starts after that;
  the counts of the report add up.
* Delivery: reporters agree on the verdict, or were told of the correction, or refused,
  and each refusal is in the result.
* Contract and expander: every declaration contributes exactly its cases, once, in the
  order of ids, whatever the order of the calls.
* A run of a contract: a case passes exactly when what was on the wire is what its
  declaration promises for its fixture; whatever the target answers, only a fixture
  failure or the author's own code ends a suite early.
* Inventory, coverage, paths, sessions, bodies, artifacts, redaction: each algorithm
  computes what its doc says.
* Server: credentials live and die with their fixture; users are confined.
* Example: the suite never blames a target that behaves, and reports what it leaks.

## 2. Modules

| Module | Models | Shape |
|---|---|---|
| `SuiteReport` | report types, `buildReport` | operators |
| `CaseIsolation` | *abstract*: what the doc of `FixtureLifecycle` promises the author of a lifecycle | state machine, fairness |
| `AuthorizationRunner` | `run()` up to its first report, `executeCase`, `HttpScenarioExecutor` | state machine; implements `CaseIsolation` |
| `AuthorizationRunner_proofs` | | theorems |
| `ReportAgreement` | *abstract*: what a run promises its reporters | state machine |
| `ReportDelivery` | delivery and correction | state machine; implements `ReportAgreement` |
| `ReportDelivery_proofs` | | theorems |
| `SuiteRun` | the two above, one after the other, on shared variables | composition by `INSTANCE` |
| `SuiteRun_proofs` | | theorems |
| `UserAdminServer` | the example server | state machine |
| `UserAdminServer_proofs` | | theorems |
| `ExampleSuite` | runner x server x lossy network, with the ten cases of the example | composition |
| `ExampleSuite_proofs` | | theorems |
| `AuthorizationContract` | the fluent builder over its shared state | state machine over `CaseExpander` and `OperationInventory` |
| `AuthorizationContract_proofs` | | theorems |
| `AuthoredRun` | a run of a built contract: runner x declarations x arbitrary target | composition |
| `AuthoredRun_proofs` | | theorems |
| `OperationRequest` | `resolvePath`, `buildRequest` of a declared operation | operators |
| `FetchClient` | what of a body goes onto the wire, and comes back | operators |
| `ResponseExpectation` | the terminals and what each finds in a response | operators |
| `BodyExpectation` | `isDeepSubset` | operators |
| `SessionRequest` | the session factories, `applySession` | operators |
| `CaseExpander`, `OperationInventory`, `CoveragePolicy` | expansion, `fromOpenApi` and selections, `validate` | operators |
| `AscendingOrder` | `Array.prototype.sort` and `filter`, as the others use them | operators |
| `ReportArtifact` | what the reporters make of a report | operators |
| `Redaction` | the recursion of the redactor over values | operators |
| `AlgorithmProperties` | what the algorithms promise, each stated without the algorithm | properties |
| `Algorithms_proofs` | | theorems |
| `MC*` | constants for TLC; `MCAlgorithms` and `MCMessages` also hold the inputs of the algorithms | |

Operators named `...Early`, `...Swallowed` and the like, each with the comment
"Mutation of X", are bugs planted in X to see that a property notices them. No
specification uses them.

### AuthorizationRunner

`pc` names the await, or loop head, at which `run()` stands. A step is what happens
from one await to the next:

| Action | Code |
|---|---|
| `ExpandReturns`, `ExpandThrows` | `CaseExpander.expand`, duplicate ids |
| `CatalogAccepted`, `CatalogRefused` | catalog load and coverage validation |
| `NextCase`, `EndLoop` | the `for` loop |
| `CreateResolves`, `CreateRejects` | `lifecycle.create` and its `catch` |
| `RequestBuilt`, `RequestUnusable`, `AuthorizeResolves`, `AuthorizeFails`, `HttpResponds`, `HttpRejects` | `HttpScenarioExecutor.execute`, for the case or for a postcondition (`caller`) |
| `EvaluateReturns`, `EvaluateThrows` | the expectation |
| `VerifyExecutes`, `VerifyReturns`, `VerifyThrows` | a postcondition: it calls the executor back, returns mismatches, or throws, possibly an executor error it has met (`caught`) |
| `DisposeResolves`, `DisposeRejects` | the `finally` block |
| `SignalAborts` | the caller, at any time |

A case is its position in the expanded order; a failure is its category; a mismatch
its kind. `creations` and `disposals` are history variables that count lifecycle calls.
What is assumed of the callbacks: they respect their types, a postcondition awaits the
requests it makes before it returns and passes the signal it was given, and redaction
of a text returns.

### ReportDelivery and SuiteRun

`stage` and `next` stand for the two loops over reporters. A reporter is an external
callback that takes a report or throws. `accepted` and `calls` are history: what each
reporter took, and how often it was called. `SuiteRun` starts the delivery from the
variables the loop has left when `pc = "reporting"`, and carries the fairness.

`ReportAgreement` says the same without loops, lists or an order: each reporter is told
once, one that refuses is left alone, a refusal makes everybody who took the report hear
of the abort, and `run()` returns when nobody is left with a report that no longer
holds. `ReportersAgree` maps `ReportDelivery` to it.

### UserAdminServer and ExampleSuite

A user is the pair of its fixture and its place; a bearer token likewise; a session is
its fixture. The server runs one handler at a time and each handler is one step, except
PATCH, which is two: up to the await of its body, then the rest. `reply` is the answer
last sent, and `overlapped` records the users whose PATCH was open when their fixture
was deleted. Display names and the text of headers are left out; a header is missing,
malformed, or a token.

`ExampleSuite` runs the actions of `AuthorizationRunner` against those of
`UserAdminServer`. The lifecycle and the client *issue* requests to `wire`, where the
server may serve them in any order; `ExchangeFails` lets the client give up at any
moment, its request still on the way, and `RequestLost` drops an abandoned one. The
contract of the example has no postconditions and no anonymous actor, and neither
catalog nor signal is used.

### AuthoredRun

`runAuthorizationTests` runs a contract that was built, so the callbacks of the runner
are known: a request is built from a declared path (`OperationRequest`), the session
factory returns or throws, the client encodes, sends and decodes (`FetchClient`), and
the expectation is one of the terminals (`ResponseExpectation`). `AuthoredRun` replaces
the free choices of `AuthorizationRunner` at these awaits by what follows from the
declaration of the case, the value of the fixture and the answer; each of its steps is
one of the runner, so all that is proved of the runner holds of it
(`AuthoredRunIsRun`). Free remain the lifecycle, the signal and the target, which may
answer anything or nothing.

`Conforms` states what an expectation promises in terms of the text and content type
on the wire, without the client's decoding; `VerdictFollowsResponse` compares that
with the outcome the run reports.

### AuthorizationContract and the algorithms

Drafts are records; an optional property is a set of at most one value. Which builders
exist follows from a draft's progress, so an action is a call on *any* builder of the
draft that has ever been handed out. A call that throws changes nothing and is therefore
the absence of a step, which is what the guards say. Ids are numbers; `GeneratedId` maps
a description, an operation and an actor to the number of the id that the code derives
from them, so that two descriptions of the same slug collide when they do in the code.

The algorithms are operators on data that keeps only what decides them. A path is its
segments, each with the parameter its type infers and the one the regular expression
finds; a text is what it parses to as JSON; a header record is its properties in
insertion order, with their spelling; a JSON body is what it has at each of its paths; a
value to be redacted is a tree: arrays, records, strings that are the JSON of another
tree, and other texts; `MaxDepth` is how deep it may be nested. Texts that are only
compared are numbers in the order of `compareStableText`.

The text patterns of the redactor are regular expressions over a whole string, which in
JSON match across values and keys, and may end before a comma or at an `@`. What they
leave of a string is the constant `Left`: the string itself, a text that is no JSON and
stays as it is, or `Rewritten`, of which it is not known whether it is JSON again. The
theorems hold for every `Left`; `MCLeft` has strings of each sort.

Sorting is said by where it puts things: a number stands where as many are below it
(`Ascending`), a position where as many precede it, which for a stable sort are those
that are before it and those that compare equal and are lower (`StableOrder`). A filter
takes the elements at some positions (`ElementsAt`). The merge of headers, which calls
`setHeader` once for each, is a recursive function of how many have been merged,
`isDeepSubset` one of a path, and the redactor's passes (`Supported`,
`RedactJsonSecrets`, `RedactValue`) of a tree.

Each state of `MCAlgorithms` is a question and an input; `AlgorithmProperties` says what
the answer has to be. It fixes no inputs, so that the invariants of the runs and the
theorems of `Algorithms_proofs` are the same formulas.

## 3. Runs

| Run | Instance | States | Shows |
|---|---|---|---|
| `runner_safety` | 2 cases, with 1 and 2 postconditions, the first anonymous, a catalog | 16 352 | `FixtureOwnership`, `AbortedIffDefect`, `RunAccounting`, `PassedMeansChecked`, `NothingStartsAfterAbort`; the run implements `CaseIsolation` (`Isolated`) |
| `runner_mismatches` | smaller | | finding 1 |
| `delivery` | 3 reporters, six kinds of run | 396 | `AgreementUnlessAborted`, `NoStaleReporter`, `RefusalsRecorded`; delivery implements `ReportAgreement` (`ReportersAgree`) |
| `suite_run` | 2 cases, 2 reporters, with fairness | 8 776 | `PassedEndToEnd`, `VerdictExplained`, `ReportedOnceSettled`; every fixture is released (`FixturesReleased`) and `run()` resolves (`RunResolves`) |
| `server` | 2 fixtures, 2 connections | 20 198 | `OrphansOnlyFromOverlap`, `UsersConfined`, `CredentialsExpire`, `OrphansUnreadable` |
| `server_orphans` | 1 connection | | finding 2 |
| `example_suite` | the example's 10 cases, up to 3 failed exchanges | 123 030 | `OneFixtureAtATime`, `HeldIsLive`, `NoFalseMismatch`, `PassedLeavesNothing`, `LeaksReported` |
| `contract` | 2 declarations of 2 descriptions, 2 actors, 3 operations, 6 selections, 2 expectations | 263 246 | `ExactlyOneExpectation`, `BuiltAsDeclared`, `BuiltInOrder`, `CollisionsAreFinal` |
| `authored_run` | 2 cases out of 26 declarations, 2 fixture values, 25 answers | 1 042 348 | `VerdictFollowsResponse`, `TargetCannotAbort` |
| `algorithms` | all small inputs of eight algorithms | 482 036 | `InventoryComplete`, `SelectionExact`, `AcceptsCompleteCoverage`, `SentAsMerged`, `ContainsEveryPath`, `ResolvedAsDeclared`, `BodySurvivesEcho`, `ArtifactCanonical`, `RedactedForGood` |
| `coverage_cases` | the coverage inputs of `algorithms` | | finding 3 |
| `path_types` | the path inputs of `algorithms` | | finding 4 |

### Bounds, and why they are enough

* *Two cases.* The loop carries from one case to the next only `aborted`, the two lists
  and the position; a second case shows everything a first can do to a later one. The
  theorems remove the bound for all safety properties of the runner, the suite run
  and the run of a built contract.
* *One and two postconditions.* None, the last and one that is not the last are the
  cases the code tells apart; a case has none in `suite_run` and `example_suite`, and
  none in `authored_run`, whose contracts cannot declare any. Nested
  requests of a postcondition are not bounded: after one the state is as before it.
* *Mismatch lists of at most one entry per check.* A case with two postconditions
  makes three checks, so its report has up to three. In `authored_run` an expectation
  finds up to three parts that differ.
* *Three reporters.* The first, one in the middle and the last may refuse, in
  either delivery. The theorems remove this bound.
* *Two fixtures and connections.* Two PATCHes may be open on one fixture or on two while
  either is deleted; `MaxFixtures` bounds the ids given out, in `PostFixture`.
  Connections are symmetric. The theorems remove both bounds.
* *Three losses.* `MaxLosses`, in `ExchangeFails`. A failed create or dispose ends the
  suite, so at most one of these is lost; the others may be of requests. The theorems
  remove this bound.
* *Two declarations, one build.* `MaxDeclarations` and `MaxBuilds`. Interference is
  between the builders of one declaration, or of two. One contract is built, at
  any time, and the calls that follow cannot change what it holds.
* *Twenty-six declarations.* Ten ways in which a request can be built, refused or
  unsendable with one expectation, and each terminal in each of its variants with one
  request. Two of them in one suite are any pair. The fixture is an object or the value
  `undefined`; an answer has one of three statuses, a content type that is absent, JSON
  or other, and a text that is empty, JSON, JSON of a string, or not JSON.
* *Algorithms.* Documents of two path items with three methods, lists of up to three
  classifications, records of up to three headers, also in two spellings of one name, JSON values two levels deep, paths of
  two segments with up to two parameters, reports of up to two cases with two failures,
  queries of three parameters, and every value to be redacted of two keys, one of them
  sensitive, that is nested two levels deep (`MaxDepth`) reach every branch of the code
  they compare: a string inside a string, a record in it, what cannot be redacted in
  either. `MCAsked` picks the algorithms of a run.

Deadlock is checked everywhere except in `contract`, where an author who has made all
the declarations and builds that the bounds allow has nothing left to call. The
other specifications say explicitly where the program has finished (`Reporting`,
`Finished`), and the server always accepts a request.

### Fairness

Only `suite_run` uses fairness (`RunFairness` of `SuiteRun`), and only for its two
liveness properties:

* `run()` goes on when what it awaits has settled: weak fairness of `Continues`.
* Lifecycle calls, credential providers and expectations settle: weak fairness of
  `CallbackSettles`. The package's README says that "Fixture lifecycle and assertion
  code must apply their own time bounds".
* A postcondition makes finitely many requests and then returns or throws: strong
  fairness of `VerifySettles`, because each nested request disables it for a while.
* The caller's signal fires in the end, and an HTTP call or a catalog load that was
  given it then rejects: weak fairness of `SignalAborts` and `SignalRejects`. A target
  is **not** assumed to answer: `HttpResponds` has no fairness.
* Reporters settle: weak fairness of `DeliveryStep`.

Without the signal `RunResolves` fails, as it should: the runner has no time bound.

## 4. Findings

1. **A throwing postcondition discards mismatches** (`runner_mismatches`, `runner.ts:436`).
   The report of the case then has the thrown failure alone, although the class
   "aggregates policy failures".
2. **A PATCH that overlaps the deletion of its fixture brings the user back**
   (`server_orphans`, `server.ts:149`), and no later request removes it. It does change
   what the audit counts; `OrphansUnreadable` shows that only admins can read it.
3. **Coverage accepts cases for operations the catalog does not have**
   (`coverage_cases`, `openapi-coverage-policy.ts:40`).
4. **A declaration that type-checks may not build its request** (`path_types`,
   `authoring-contract.ts:572`). The type takes a parameter from a whole segment after a
   leading colon, the regular expression of `resolvePath` from anywhere in it: `/jobs/1:id`
   needs a parameter its type does not ask for, `/:id.json` one of another name. At run
   time this is a framework defect, which aborts the suite.

Three things were met for which there is no run. The comment at `runner.ts:45` says that
an outcome `failed` means policy mismatches; the code also counts a transport failure,
and the properties take it as the code does. `sessions.ts:12` says that the headers of a
session override those of a request case-insensitively; a header that a request has in
*two* spellings survives in one of them, since `setHeader` (`authoring-contract.ts:440`)
removes the first only, and both are sent. `SentAsMerged` has such requests among its
inputs and says what holds of them: the session's header is sent, beside no more of its
name than there were. What is sent in all is stated for names that the request has once
or not at all. The third is that redacting a text twice is not always redacting it once.
A pattern that takes what makes a string impossible to redact as JSON, such as the number
`1e999`, may leave JSON (`redaction.ts:26-31`), which the next pass parses and redacts
further; no comment or test says otherwise. `RedactedForGood` says that nothing changes
unless a pattern has left such a string.

## 5. Proofs

All safety properties of the state machines are proved for every value of the constants,
and so are all nine properties of the algorithms, for inputs of any size. The
assumptions are those the modules name: `NumCases`, `NumReporters`, `MaxFixtures`,
`MaxLosses` and `MaxDepth` are naturals; what the text patterns have masked they change
no more (`LeftAssumption`); the example runs no more cases than it declares
(`CasesAssumption`); in a run of a contract the declarations have the types that the
builders give them (`AuthoredAssumption`), answers are what a wire can carry
(`WireAssumption`), and every case has a credential provider, as the authoring layer
always passes one (`ProviderAssumption`); an author's contract has an inventory that is
a sequence (`InventoryAssumption`), selections by one of the three ways there are
(`SelectionAssumption`) and generated ids that have a place in the order of texts
(`GeneratedIdAssumption`). Each proof about a state machine has the same shape: the
invariant holds initially, one lemma per action keeps it, the invariant always holds,
and then one theorem per property. TLC agreed on each inductive invariant, and on each
property of the algorithms, before it was proved.

| Module | Theorems |
|---|---|
| `AuthorizationRunner_proofs` | `TypeCorrect`, `OwnershipCorrect`, `AbortCorrect`, `CheckCorrect`, `AccountingCorrect`, `AbortStops`, `RunnerIsolatesCases` |
| `ReportDelivery_proofs` | `TypeCorrect`, `AgreementCorrect`, `NoneStale`, `RefusersLeftAlone`, `RefusalsCorrect`, `DeliveryImplementsAgreement` |
| `SuiteRun_proofs` | `PassedCorrect`, `VerdictCorrect`, `ReportingCorrect` |
| `UserAdminServer_proofs` | `TypeCorrect`, `CredentialsCorrect`, `OrphansCorrect`, `ConfinementCorrect`, `ExpiryCorrect`, `OrphansStayUnread` |
| `ExampleSuite_proofs` | `OneAtATime`, `HeldStaysLive`, `NeverAFalseMismatch`, `LeaksAreReported`, `NothingLeft`, `SuiteServes` |
| `AuthorizationContract_proofs` | `TypeCorrect`, `OneExpectationEach`, `CollisionsStay`, `BuildsStandForDeclarations`, `BuildsAreInOrder` |
| `AuthoredRun_proofs` | `AuthoredRunIsRun`, `TargetNeverAborts`, `VerdictIsOfTheAnswer` |
| `Algorithms_proofs` | `CoverageIsDecided`, `PathIsResolved`, `EchoesAreDecided`, `InventoryIsComplete`, `SelectionIsExact`, `SessionIsMerged`, `SubsetsAreDecided`, `ReportIsCanonical`, `RedactionSettles` |

**The runner.** `FixtureOwnership` is not inductive: it does not say that a case to come
has no fixture yet, so `CreateResolves` could break it. `IInv` therefore ties everything
to the position of the loop. `PositionInv` says which reports there are at each `pc`;
`LedgerInv` computes `creations` and `disposals` from that; `AbortInv` adds to
`AbortedIffDefect` that an aborted suite is disposing or reporting; `CheckInv` counts
the checks of the present case from none. `RunAccounting` needs that the cases with
a fixture are `1..Len(caseReports)`, and the cardinality of that interval.
`RunnerIsolatesCases` is a refinement: under `stageOfCase` each step of the runner is a
step of `CaseIsolation` or leaves it unchanged.

**Delivery.** `LoopInv` says where the two loops stand, `SuccessfulInv` that the
successful reporters are distinct and, while nothing has failed, all those called;
`LedgerInv` says what each reporter has been called with, by whether the first loop, and
then the second, has passed it. Distinctness is what keeps a reporter from a third call.
`CountInv` adds that the recorded failures are as many as the calls that were refused:
a call adds to both or to neither, and a reporter refuses at most one.
`DeliveryImplementsAgreement` is a refinement: a turn of either loop tells one reporter,
and whatever the loops have not reached is still to be told.

**The suite run.** `DeliveryInv` carries the facts of the loop past its end: from
`reporting` on the delivery has the report that the loop has left, and leaves the loop's
variables alone, and before that no reporter has been called. With it the invariants of
the two parts combine into `PassedEndToEnd`, and `ReportedOnceSettled` follows for every
step after a call, of the delivery or of the signal. The invariant of the delivery is proved again for the composition, since
there the constant `Runs` is replaced by the one run that took place.

**Server.** The properties need `PatchInv` beside each other: an open PATCH holds a user
that was there when its principal was let through, or that is recorded in `overlapped`.
`PatchBody` would otherwise store an unexplained user. `CredentialsExpire` is about all
later steps: no handler but `PostFixture` adds a fixture, with an id above all that there
were, and the credentials stored are those of the fixtures (`CredentialsOwned`), so that
those of a deleted one stay void.

**The example.** That a DELETE served late hits no later fixture is a fact about the
network, the server and the loop at once. `SuiteInv` says of each await what may be under
way and what the server has by then: a lifecycle request is on its way only while it
is awaited and unanswered, or when the run is over, because a lifecycle call that fails
ends the suite (`LifecycleInv`); so the server has the fixture in hand or none
(`HoldingInv`), complete (`LiveInv`). `LeakInv` adds what may be left behind: the n-th
fixture is that of the n-th case (`NumberInv`), so a late request (`SendInv`), an open
PATCH (`PatchInv`) or a user without fixture (`UserInv`) names the case that gave
it up, and the report of that case has a transport failure; a lifecycle request or a
fixture that outlives the loop has its fixture failure (`VerdictInv`). For
`NoFalseMismatch`, `MeetInv` follows an answer from the server to the expectation: the
fixture is live, so its credentials let the actor in that the case stands for
(`Authenticated`), and each of the ten cases, by its route, gets the answer it declares
(`ServeSendMeets`). The audit counts the users of all fixtures; it finds two because its
case is the second, before the only PATCH (`AuditedUsers`). `LossInv` says that whatever
is reported is a failed exchange. `SuiteServes` is a refinement: each step of the suite
is one of `UserAdminServer` alone or leaves the server as it is, on the connection of the
case that sent the request. `EndInv` is needed for the DELETE, which takes the fixture
from the request, possibly long after it was sent: it is one the server could have made.

**The contract builder.** Each invariant belongs to a complete draft, no two to the
same one, and each complete draft has one (`CompletionInv`): a draft stays complete
whatever is called on a kept builder, and a second terminal is refused. Invariants only
grow, so two ids that collide continue to. For these the proofs use of a selection only
that it is one of `Operations`.

`BuiltAsDeclared` looks at a contract from any later state, when declarations and actors
have been added and kept builders called again. `BuiltInv` says why this changes
nothing: what was built is the expansion of the invariants of the declarations there
were (`BuildInv`), all of them complete, so none of them gets another invariant
(`CompletionInv`); and an actor that an invariant has captured is registered and stays
so (`RegisteredInv`). The step of `Build` rests on `ExpandSorts`: what `expand` returns
is in strict order and has the cases it was given, provided that no ids collide.
`ExpandAgain` gives the second half of `BuiltInOrder`. The module extends
`Algorithms_proofs` for these lemmas; what that declares for its own questions is not
used.

**The algorithms.** These theorems have no state machine: they say of an arbitrary input,
typed as the code types it, that the answer is the promised one.

* *Sorting.* `AscendingSorts` is by counting: the numbers below one of a finite set are
  fewer than the set, and fewer for a lower number, so that places and numbers are in
  bijection. `StableOrders` does the same for positions that a weak order compares.
* *Coverage.* `validate()` looks for duplicates, for pairs that disagree and for pairs
  that are missing on one side. `CoverageIsDecided` shows that its list of problems is
  empty exactly when there is a bijection whose pairs agree: distinct ids on both sides
  make the partner of an operation an injection, and equal cardinalities a bijection.
* *Inventory, selections and sessions.* Flattening the operations of a document and
  merging headers are recursions over a list. Instead of an induction over lists, which
  would need an operator parameter, the proofs take the least counterexample among
  the naturals (`LeastOf`): the position at which the recursion first goes wrong.
  `SetHeaderSets` is the heart of `SessionIsMerged`: whatever spellings there are,
  removing the first match and assigning leaves the new header, no more of its name than
  there were, and every other name alone. That needs the positions of a name to be
  counted before and after a removal (`NamedMoves`).
* *Paths and bodies.* No list is recursed over, but every guard counts: `PathIsResolved`
  says both when a request is built and what is then in it.
* *Containment.* `isDeepSubset` recurses over a value, so `BodyExpectation` has it as a
  recursive function on the paths that both values have. `SubsetAtDecides` is one level:
  if the answers below a path are right, so is the answer at it, by strict equality or
  by the keys. An array that is long enough shares the items of the other because the
  keys of an array are its indices (`ItemsShared`). The least counterexample is then
  taken by the distance from the greatest depth, and there is none (`DecidesWithin`). Of
  values `SubsetsAreDecided` assumes what makes them JSON (`JsonValue`): every path goes
  on from one that is there, primitives have no keys, arrays have no holes, and the
  depth has a bound.
* *Reports.* `ReportIsCanonical` needs that two sorts of the same elements agree although
  their inputs are in different orders. `NeverBelow` is the pigeonhole argument: if the
  k-th of one sorted list were below the k-th of the other, its first k elements would
  all be among the other's first k - 1. Failures that are neither before nor after one
  another are equal, since category and message are all they have; cases are told apart
  by their ids, which `run()` has checked (`Identified`). Redaction is any operator on
  texts: where it maps two ids to one, the order is that of the ids before it.
* *Redaction.* `RedactionSettles` is by induction on how deep a value is nested. That what
  holds of a value whenever it holds of its children holds of all is `TreeInduction`,
  about a *set* of good values: the least depth at which one is bad has a value whose
  children are good. The recursive functions need as much before they can be expanded at
  all: `TreeRecursion` builds, depth by depth, a function that each value gets from its
  children, so that there is one and its equation holds (`RedactedValueIs`), and
  `KeepsLevels` says that no pass nests a value deeper. The hard case is a string that is
  JSON. If its content can be redacted, it has been, and the string is parsed to what is
  settled already; if not, the string has gone through `JSON_SECRET` unparsed, and is
  settled because that pass is, and because it does not take away what made the content
  impossible to redact (`JsonSecretsSettle`). After either, the text patterns leave the
  string, a text that stays, or one that is rewritten, for which nothing is claimed
  (`PatternsLeave`). That every level is reached (`ValueIsClean`) supposes
  that every string of JSON inside has a content that can be redacted (`Parsable`); the
  run and the theorem say the same. Queries are filters: a position that is selected from
  a selection is in the same order (`AscendingWithin`), and of the positions of a
  sensitive key the first stays, so none is left to remove.

**Runs of contracts.** `AuthoredRunIsRun` maps each step to one of the runner, whose
invariant then holds. `AuthoredInv` says why a defect was recorded: it is that of the
current declaration, because a defect ends the loop. `VerdictIsOfTheAnswer` rests on a
lemma about the expectations (`ExpectationMet`): for a response that the client decoded,
a terminal finds nothing exactly when `Conforms` says so of the text and content type.
`AnswerInv` says how far the present case is, and with what answer, until the report of
the case has the verdict.

### Only model-checked

* Liveness (`FixturesReleased`, `RunResolves`): the prover reasons neither about fairness
  nor about `ENABLED`.
* `MismatchesReported`, `UsersOwned`, `CasesAreCurrent` and `TypedRequestsBuild` do not
  hold: they are the findings.

## 6. Order of the work, and what is left

Built in the order of importance: the runner, its delivery and their composition;
the server and the end-to-end example; the contract builder; a run of a built contract;
the algorithms on requests, bodies, sessions, reports and redaction. Proofs followed the
same order, and reach every property that is neither liveness nor refuted by the code.

What could be added:

1. Several contracts merged into one suite, whose cases collide only there.
2. `AuthoredRun` with postconditions, for runners that are used without the authoring
   layer.

## 7. Running it

    tlc -config RunnerSafety.cfg MCAuthorizationRunner.tla
    tlapm AuthorizationRunner_proofs.tla

`PROJECT.json` names the module and configuration of every run.

## 8. Not modelled, and why

* **The text patterns of the redactor**: regular expressions over characters. Whether one
  matches in a string, and what it leaves, is the constant `Left` of `Redaction`; what the
  next pass makes of a string they have rewritten is not modelled.
* **Encoding of characters** in paths and bodies: a separator is escaped or not, a text
  parses or does not.
* **Reading an OpenAPI file**: I/O; `fromOpenApi` is modelled on the parsed document.
* **Wording** of errors, messages, descriptions and of the console, and the names of
  problems beyond their category.
* **`ResourceReference`** of `model.ts`: a value that nothing in the package reads.
* **Exports, the example's entry point, packaging scripts**: no state.
