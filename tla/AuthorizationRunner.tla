------------------------- MODULE AuthorizationRunner -------------------------
(***************************************************************************)
(* AuthorizationRunner.run up to the first report (runner.ts): expansion,  *)
(* catalog validation, and the serial loop that creates a fixture, executes*)
(* the case through HttpScenarioExecutor, evaluates it, and disposes of the*)
(* fixture.  Every await is a state of its own (pc): what the awaited      *)
(* callback does is chosen nondeterministically when it settles.           *)
(*                                                                         *)
(* Cases are the positions 1..NumCases of the expanded suite.  The history *)
(* variables creations and disposals count the calls of lifecycle.create   *)
(* that resolved and the calls of lifecycle.dispose that were made.        *)
(***************************************************************************)
EXTENDS SuiteReport

CONSTANTS
    NumCases,        \* number of cases the suite expands to
    Postconditions,  \* number of postconditions of each case
    Anonymous,       \* cases whose actor has no credential provider
    HasCatalog,      \* whether the runner was given an operation catalog
    MismatchLists    \* what one check of a case may return

Case == 1..NumCases

ASSUME NumCasesAssumption == NumCases \in Nat
ASSUME PostconditionsAssumption == Postconditions \in [Case -> Nat]
ASSUME AnonymousAssumption == Anonymous \subseteq Case
ASSUME HasCatalogAssumption == HasCatalog \in BOOLEAN
ASSUME MismatchListsAssumption == MismatchLists \subseteq Seq(MismatchKind)

VARIABLES
    pc,             \* the await, or loop head, at which run() stands
    total,          \* cases.length, 0 until expand() has returned
    current,        \* the case of the present iteration, 0 before the loop
    fixture,        \* the case the fixture was created for, 0 if none was
    caller,         \* who called the executor: the case or a postcondition
    caught,         \* executor errors the running postcondition has seen
    checks,         \* checks of each case that have returned
    mismatches,     \* what those checks returned, in order
    caseReports,
    suiteFailures,
    aborted,
    signalAborted,  \* the AbortSignal given to run()
    creations,      \* history: fixtures created for each case
    disposals       \* history: dispose calls made for each case

suiteVars == <<total, current, suiteFailures>>
caseVars  == <<caller, caught, checks, mismatches>>
ledger    == <<creations, disposals>>
vars == <<pc, total, current, fixture, caller, caught, checks, mismatches,
          caseReports, suiteFailures, aborted, signalAborted,
          creations, disposals>>

\* Where the executor is running, and where a case's fixture is live.
Executing == {"building", "authorizing", "sending"}
InCase    == Executing \cup {"evaluating", "verifying"}
Holding   == InCase \cup {"disposing"}
Location  == Holding \cup {"expanding", "loading", "looping", "creating",
                           "reporting"}

ExecutorError == {"transport-failure", "framework-defect"}

TypeOK ==
    /\ pc \in Location
    /\ total \in {0, NumCases}
    /\ current \in 0..NumCases
    /\ fixture \in 0..NumCases
    /\ caller \in {"case", "postcondition"}
    /\ caught \in SUBSET ExecutorError
    /\ checks \in [Case -> Nat]
    /\ mismatches \in [Case -> Seq(MismatchKind)]
    /\ caseReports \in Seq(CaseReport)
    /\ suiteFailures \in Seq({"fixture-failure", "framework-defect"})
    /\ aborted \in BOOLEAN
    /\ signalAborted \in BOOLEAN
    /\ creations \in [Case -> Nat]
    /\ disposals \in [Case -> Nat]

Init ==
    /\ pc = "expanding"
    /\ total = 0
    /\ current = 0
    /\ fixture = 0
    /\ caller = "case"
    /\ caught = {}
    /\ checks = [c \in Case |-> 0]
    /\ mismatches = [c \in Case |-> <<>>]
    /\ caseReports = <<>>
    /\ suiteFailures = <<>>
    /\ aborted = FALSE
    /\ signalAborted = FALSE
    /\ creations = [c \in Case |-> 0]
    /\ disposals = [c \in Case |-> 0]

-----------------------------------------------------------------------------
(* Before the loop.                                                        *)

\* aborted = true; suiteFailures.push(...)
AbortSuite(category) ==
    /\ aborted' = TRUE
    /\ suiteFailures' = Append(suiteFailures, category)

ExpandReturns ==
    /\ pc = "expanding"
    /\ total' = NumCases
    /\ pc' = IF HasCatalog THEN "loading" ELSE "looping"
    /\ UNCHANGED <<current, fixture, caseVars, caseReports, suiteFailures,
                   aborted, signalAborted, ledger>>

\* Two cases share an id: cases keeps its initial empty value.
ExpandThrows ==
    /\ pc = "expanding"
    /\ AbortSuite("framework-defect")
    /\ pc' = "reporting"
    /\ UNCHANGED <<total, current, fixture, caseVars, caseReports,
                   signalAborted, ledger>>

CatalogAccepted ==
    /\ pc = "loading"
    /\ pc' = "looping"
    /\ UNCHANGED <<suiteVars, fixture, caseVars, caseReports, aborted,
                   signalAborted, ledger>>

\* load() rejects or validate() throws.
CatalogRefused ==
    /\ pc = "loading"
    /\ AbortSuite("framework-defect")
    /\ pc' = "reporting"
    /\ UNCHANGED <<total, current, fixture, caseVars, caseReports,
                   signalAborted, ledger>>

-----------------------------------------------------------------------------
(* The loop over the cases and the fixture it owns.                        *)

\* Mutation of NextCase: fixture is declared outside the loop.
NextCaseKeepsFixture ==
    /\ pc = "looping"
    /\ current < total
    /\ current' = current + 1
    /\ pc' = "creating"
    /\ UNCHANGED <<total, fixture, caseVars, caseReports, suiteFailures,
                   aborted, signalAborted, ledger>>

NextCase ==
    /\ pc = "looping"
    /\ current < total
    /\ current' = current + 1
    /\ fixture' = 0
    /\ pc' = "creating"
    /\ UNCHANGED <<total, caseVars, caseReports, suiteFailures, aborted,
                   signalAborted, ledger>>

EndLoop ==
    /\ pc = "looping"
    /\ current = total
    /\ pc' = "reporting"
    /\ UNCHANGED <<suiteVars, fixture, caseVars, caseReports, aborted,
                   signalAborted, ledger>>

CreateResolves ==
    /\ pc = "creating"
    /\ fixture' = current
    /\ creations' = [creations EXCEPT ![current] = @ + 1]
    /\ caller' = "case"
    /\ caught' = {}
    /\ pc' = "building"
    /\ UNCHANGED <<suiteVars, checks, mismatches, caseReports, aborted,
                   signalAborted, disposals>>

\* Mutation of CreateRejects: the failure is recorded without aborting.
CreateRejectsQuietly ==
    /\ pc = "creating"
    /\ suiteFailures' = Append(suiteFailures, "fixture-failure")
    /\ pc' = "reporting"
    /\ UNCHANGED <<total, current, fixture, caseVars, caseReports, aborted,
                   signalAborted, ledger>>

\* The break leaves through finally, which disposes only of a created fixture.
CreateRejects ==
    /\ pc = "creating"
    /\ AbortSuite("fixture-failure")
    /\ pc' = IF fixture = 0 THEN "reporting" ELSE "disposing"
    /\ UNCHANGED <<total, current, fixture, caseVars, caseReports,
                   signalAborted, ledger>>

\* Mutation of Conclude: the fixture is disposed of in a catch, not a finally.
ConcludeSkippingFinally(actual, failures, fatal) ==
    /\ caseReports' = Append(caseReports, [case |-> current,
                                           actual |-> actual,
                                           failures |-> failures])
    /\ aborted' = (aborted \/ fatal)
    /\ pc' = IF fatal THEN "disposing" ELSE "looping"

\* executeCase returns: its report is pushed and finally starts the disposal.
Conclude(actual, failures, fatal) ==
    /\ caseReports' = Append(caseReports, [case |-> current,
                                           actual |-> actual,
                                           failures |-> failures])
    /\ aborted' = (aborted \/ fatal)
    /\ pc' = "disposing"

\* Mutation of DisposeResolves: no break when aborted.
DisposeResolvesOnwards ==
    /\ pc = "disposing"
    /\ disposals' = [disposals EXCEPT ![fixture] = @ + 1]
    /\ pc' = "looping"
    /\ UNCHANGED <<suiteVars, fixture, caseVars, caseReports, aborted,
                   signalAborted, creations>>

DisposeResolves ==
    /\ pc = "disposing"
    /\ disposals' = [disposals EXCEPT ![fixture] = @ + 1]
    /\ pc' = IF aborted THEN "reporting" ELSE "looping"
    /\ UNCHANGED <<suiteVars, fixture, caseVars, caseReports, aborted,
                   signalAborted, creations>>

\* Mutation of DisposeRejects: the exception is swallowed.
DisposeRejectsSwallowed ==
    /\ pc = "disposing"
    /\ disposals' = [disposals EXCEPT ![fixture] = @ + 1]
    /\ pc' = IF aborted THEN "reporting" ELSE "looping"
    /\ UNCHANGED <<suiteVars, fixture, caseVars, caseReports, aborted,
                   signalAborted, creations>>

DisposeRejects ==
    /\ pc = "disposing"
    /\ disposals' = [disposals EXCEPT ![fixture] = @ + 1]
    /\ AbortSuite("fixture-failure")
    /\ pc' = "reporting"
    /\ UNCHANGED <<total, current, fixture, caseVars, caseReports,
                   signalAborted, creations>>

-----------------------------------------------------------------------------
(* HttpScenarioExecutor.execute, called by the case and by postconditions. *)

\* A ScenarioExecutionError: executeCase reports it, a postcondition sees it.
ExecutorThrows(category) ==
    \/ /\ caller = "case"
       /\ Conclude(IF category = "transport-failure"
                   THEN "transport failure" ELSE "framework defect",
                   <<category>>, category = "framework-defect")
       /\ caught' = caught
    \/ /\ caller = "postcondition"
       /\ caught' = caught \cup {category}
       /\ pc' = "verifying"
       /\ UNCHANGED <<caseReports, aborted>>

\* buildRequest returned.  A postcondition may pass any actor of its own.
RequestBuilt ==
    /\ pc = "building"
    /\ \/ /\ caller = "postcondition" \/ current \notin Anonymous
          /\ pc' = "authorizing"
       \/ /\ caller = "postcondition" \/ current \in Anonymous
          /\ pc' = "sending"
    /\ UNCHANGED <<suiteVars, fixture, caseVars, caseReports, aborted,
                   signalAborted, ledger>>

\* buildRequest threw, or built a request of another method.
RequestUnusable ==
    /\ pc = "building"
    /\ ExecutorThrows("framework-defect")
    /\ UNCHANGED <<suiteVars, fixture, caller, checks, mismatches,
                   signalAborted, ledger>>

AuthorizeResolves ==
    /\ pc = "authorizing"
    /\ pc' = "sending"
    /\ UNCHANGED <<suiteVars, fixture, caseVars, caseReports, aborted,
                   signalAborted, ledger>>

\* The provider rejected, or substituted the request's method.
AuthorizeFails ==
    /\ pc = "authorizing"
    /\ ExecutorThrows("framework-defect")
    /\ UNCHANGED <<suiteVars, fixture, caller, checks, mismatches,
                   signalAborted, ledger>>

HttpResponds ==
    /\ pc = "sending"
    /\ pc' = IF caller = "case" THEN "evaluating" ELSE "verifying"
    /\ UNCHANGED <<suiteVars, fixture, caseVars, caseReports, aborted,
                   signalAborted, ledger>>

\* Mutation of HttpRejects: the signal is not passed to the client.
HttpRejectsUnsignalled ==
    /\ pc = "sending"
    /\ ~signalAborted
    /\ ExecutorThrows("transport-failure")
    /\ UNCHANGED <<suiteVars, fixture, caller, checks, mismatches,
                   signalAborted, ledger>>

HttpRejects ==
    /\ pc = "sending"
    /\ ExecutorThrows("transport-failure")
    /\ UNCHANGED <<suiteVars, fixture, caller, checks, mismatches,
                   signalAborted, ledger>>

-----------------------------------------------------------------------------
(* The checks of a case: its expectation, then its postconditions in order.*)

\* Mutation of CheckReturns: the last postcondition is never verified.
CheckReturnsEarly(found) ==
    LET all == mismatches[current] \o found IN
    /\ mismatches' = [mismatches EXCEPT ![current] = all]
    /\ checks' = [checks EXCEPT ![current] = @ + 1]
    /\ \/ /\ checks[current] + 1 < Postconditions[current]
          /\ pc' = "verifying"
          /\ caught' = {}
          /\ UNCHANGED <<caseReports, aborted>>
       \/ /\ checks[current] + 1 >= Postconditions[current]
          /\ Conclude("response", FailuresOf(all), FALSE)
          /\ caught' = caught

\* A check returned: start the next postcondition, or report the mismatches.
CheckReturns(found) ==
    LET all == mismatches[current] \o found IN
    /\ mismatches' = [mismatches EXCEPT ![current] = all]
    /\ checks' = [checks EXCEPT ![current] = @ + 1]
    /\ \/ /\ checks[current] < Postconditions[current]
          /\ pc' = "verifying"
          /\ caught' = {}
          /\ UNCHANGED <<caseReports, aborted>>
       \/ /\ checks[current] >= Postconditions[current]
          /\ Conclude("response", FailuresOf(all), FALSE)
          /\ caught' = caught

\* Mutation of CheckThrows: an exception of a check is never fatal.
CheckThrowsOnwards(category) == Conclude("response", <<category>>, FALSE)

\* A check threw: the case is reported with that one failure.
CheckThrows(category) ==
    Conclude("response", <<category>>, category = "framework-defect")

EvaluateReturns ==
    /\ pc = "evaluating"
    /\ \E found \in MismatchLists : CheckReturns(found)
    /\ UNCHANGED <<suiteVars, fixture, caller, signalAborted, ledger>>

EvaluateThrows ==
    /\ pc = "evaluating"
    /\ CheckThrows("framework-defect")
    /\ UNCHANGED <<suiteVars, fixture, caseVars, signalAborted, ledger>>

\* verify() calls the execute() it was given, on the same fixture.
VerifyExecutes ==
    /\ pc = "verifying"
    /\ caller' = "postcondition"
    /\ pc' = "building"
    /\ UNCHANGED <<suiteVars, fixture, caught, checks, mismatches,
                   caseReports, aborted, signalAborted, ledger>>

VerifyReturns ==
    /\ pc = "verifying"
    /\ \E found \in MismatchLists : CheckReturns(found)
    /\ UNCHANGED <<suiteVars, fixture, caller, signalAborted, ledger>>

\* verify() lets an executor error through, or throws an error of its own.
VerifyThrows ==
    /\ pc = "verifying"
    /\ \E category \in caught \cup {"framework-defect"} :
          CheckThrows(category)
    /\ UNCHANGED <<suiteVars, fixture, caseVars, signalAborted, ledger>>

-----------------------------------------------------------------------------
\* The caller of run() aborts its signal.  run() itself never reads it.
SignalAborts ==
    /\ ~signalAborted
    /\ signalAborted' = TRUE
    /\ UNCHANGED <<pc, suiteVars, fixture, caseVars, caseReports, aborted,
                   ledger>>

\* run() has its first report; delivery is specified in ReportDelivery.
Reporting ==
    /\ pc = "reporting"
    /\ UNCHANGED vars

Next ==
    \/ ExpandReturns \/ ExpandThrows \/ CatalogAccepted \/ CatalogRefused
    \/ NextCase \/ EndLoop
    \/ CreateResolves \/ CreateRejects \/ DisposeResolves \/ DisposeRejects
    \/ RequestBuilt \/ RequestUnusable
    \/ AuthorizeResolves \/ AuthorizeFails \/ HttpResponds \/ HttpRejects
    \/ EvaluateReturns \/ EvaluateThrows
    \/ VerifyExecutes \/ VerifyReturns \/ VerifyThrows
    \/ SignalAborts \/ Reporting

Spec == Init /\ [][Next]_vars

-----------------------------------------------------------------------------
(* Fairness, which SuiteRun assumes of the following groups of actions.     *)
(* run() continues as soon as an await has settled; a lifecycle            *)
(* call, a credential provider and an expectation settle in time bounds of *)
(* their own; a postcondition makes finitely many requests; the caller's   *)
(* signal times out, and then an HTTP call or a catalog load that takes    *)
(* the signal rejects.  A target need not ever answer.                     *)

Continues ==
    \/ ExpandReturns \/ ExpandThrows \/ NextCase \/ EndLoop
    \/ RequestBuilt \/ RequestUnusable

CallbackSettles ==
    \/ CreateResolves \/ CreateRejects \/ DisposeResolves \/ DisposeRejects
    \/ AuthorizeResolves \/ AuthorizeFails
    \/ EvaluateReturns \/ EvaluateThrows

VerifySettles == VerifyReturns \/ VerifyThrows

SignalRejects == signalAborted /\ (HttpRejects \/ CatalogRefused)

-----------------------------------------------------------------------------
(* Correctness.                                                            *)

Report == BuildReport(total, caseReports, suiteFailures, aborted)

DefectReported ==
    \/ suiteFailures # <<>>
    \/ \E i \in DOMAIN caseReports :
          \E j \in DOMAIN caseReports[i].failures :
             caseReports[i].failures[j] = "framework-defect"

\* The runner owns its fixtures (runner.ts, FixtureLifecycle): a fixture is
\* created at most once per case and disposed of at most once, the only one
\* not yet disposed of is that of the present case, which every request and
\* every check is given, and none is left when the report is built.
FixtureOwnership ==
    /\ \A c \in Case :
          /\ creations[c] <= 1
          /\ disposals[c] <= creations[c]
          /\ disposals[c] < creations[c] => c = current /\ pc \in Holding
    /\ pc \in Holding => /\ fixture = current
                         /\ current \in Case
                         /\ disposals[current] < creations[current]

\* The suite is aborted exactly when a fixture failure or a framework defect
\* is in its report: mismatches and transport failures never abort it, and
\* no defect is reported by a suite that claims to have run to its end.
AbortedIffDefect == aborted <=> DefectReported

\* A run that is not aborted has executed every case, in suite order, each on
\* a fixture of its own; it fails only through a case.  The cases an aborted
\* run counts as skipped are those that got no fixture.
RunAccounting ==
    pc = "reporting" =>
        /\ Report.outcome # "aborted" =>
              /\ total = NumCases
              /\ Report.summary.skipped = 0
              /\ \A c \in Case : creations[c] = 1
              /\ Report.outcome = "failed" => Report.summary.failed > 0
        /\ \A i \in DOMAIN caseReports : caseReports[i].case = i
        /\ Len(caseReports) = Cardinality({c \in Case : creations[c] > 0})

\* A case that passed had its request answered, and its expectation and every
\* one of its postconditions returned without finding a mismatch.
PassedMeansChecked ==
    \A i \in DOMAIN caseReports :
        LET report == caseReports[i] IN
        Outcome(report) = "passed" =>
            /\ report.actual = "response"
            /\ checks[report.case] = 1 + Postconditions[report.case]
            /\ mismatches[report.case] = <<>>

\* Every mismatch that a check of a case returned is in the case's report
\* ("aggregates policy failures", runner.ts:240).
MismatchesReported ==
    \A i \in DOMAIN caseReports :
        LET report == caseReports[i] IN
        \A j \in DOMAIN mismatches[report.case] :
            \E k \in DOMAIN report.failures :
                report.failures[k] = CategoryOf(mismatches[report.case][j])

\* Once the suite is aborted no fixture is asked for and no request is built,
\* sent or checked: all that is left is to dispose of a live fixture.
NothingStartsAfterAbort ==
    [][aborted => /\ pc' \in {"disposing", "reporting"}
                  /\ UNCHANGED <<current, creations, caseReports>>]_vars

-----------------------------------------------------------------------------
(* The inductive invariant from which the properties above follow.  Type   *)
(* correctness needs only that a fixture is held for a case of the suite.  *)

TypeInv ==
    /\ TypeOK
    /\ pc \in Holding \cup {"creating"} => current \in Case

\* The reports are those of the first cases, in order: of all those before
\* the present one, and of the present one once its fixture is due for
\* disposal.  Only a failed create ends the loop without its report.
PositionInv ==
    /\ pc \in {"expanding", "loading"} => current = 0 /\ caseReports = <<>>
    /\ pc \notin {"expanding", "reporting"} => total = NumCases
    /\ pc = "looping" => Len(caseReports) = current
    /\ pc = "creating" => Len(caseReports) = current - 1 /\ fixture = 0
    /\ pc \in InCase => Len(caseReports) = current - 1 /\ fixture = current
    /\ pc = "disposing" => Len(caseReports) = current /\ fixture = current
    /\ pc = "reporting" =>
          /\ Len(caseReports) \in {current - 1, current}
          /\ ~aborted => total = NumCases /\ Len(caseReports) = NumCases
    /\ \A i \in DOMAIN caseReports : caseReports[i].case = i

\* The ledger follows from the position.
LedgerInv ==
    \A c \in Case :
        /\ creations[c] = IF c <= Len(caseReports) \/ (pc \in InCase /\ c = current)
                          THEN 1 ELSE 0
        /\ disposals[c] = IF c <= Len(caseReports) /\ ~(pc = "disposing" /\ c = current)
                          THEN 1 ELSE 0

\* Nothing but the disposal of a fixture is done once a defect is recorded.
AbortInv ==
    /\ AbortedIffDefect
    /\ aborted => pc \in {"disposing", "reporting"}

\* The checks of the present case are counted from none, up to the last
\* postcondition; those of the cases to come have not begun.
CheckInv ==
    /\ \A c \in Case :
          c > Len(caseReports) /\ ~(pc \in InCase /\ c = current) =>
              checks[c] = 0 /\ mismatches[c] = <<>>
    /\ pc = "evaluating" \/ (pc \in Executing /\ caller = "case") =>
          checks[current] = 0 /\ mismatches[current] = <<>>
    /\ pc = "verifying" \/ (pc \in Executing /\ caller = "postcondition") =>
          checks[current] \in 1..Postconditions[current]
    /\ PassedMeansChecked

IInv == TypeInv /\ PositionInv /\ LedgerInv /\ AbortInv /\ CheckInv

-----------------------------------------------------------------------------
\* How the runner's calls and reports implement CaseIsolation.
stageOfCase ==
    [c \in Case |->
        IF creations[c] = 0 THEN "waiting"
        ELSE IF creations[c] <= disposals[c] THEN "released"
        ELSE IF c \in DOMAIN caseReports THEN "judged"
        ELSE "live"]

Isolation == INSTANCE CaseIsolation WITH stage <- stageOfCase,
                                         halted <- aborted

\* The run implements CaseIsolation.
Isolated == Isolation!SafeSpec

\* With the awaits settling, it also implements the fairness of CaseIsolation:
\* a fixture that was created is disposed of, whatever the case runs into.
FixturesReleased == Isolation!Spec
=============================================================================
