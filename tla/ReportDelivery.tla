--------------------------- MODULE ReportDelivery ---------------------------
(***************************************************************************)
(* How AuthorizationRunner.run delivers its report (runner.ts:338-374 and  *)
(* AuthorizationRunner.report): to every reporter in turn, and, when some  *)
(* reporter threw, a corrected report that says so to those that did not.  *)
(* What the run has found is in total, caseReports, suiteFailures and      *)
(* aborted, which delivery only reads.                                     *)
(***************************************************************************)
EXTENDS SuiteReport

CONSTANTS
    NumReporters,
    Runs            \* what a run may have found when delivery starts

Reporter == 1..NumReporters

ASSUME NumReportersAssumption == NumReporters \in Nat

RunResult == [total: Nat, caseReports: Seq(CaseReport),
              suiteFailures: Seq(FailureCategory), aborted: BOOLEAN]

ASSUME RunsAssumption == Runs \subseteq RunResult

VARIABLES
    total, caseReports, suiteFailures, aborted,
    stage,               \* delivering, correcting or returned
    next,                \* position of the loop over reporters
    deliveryFailures,
    successfulReporters,
    correctionFailures,
    accepted,            \* history: reports each reporter took, in order
    calls                \* history: number of calls of each reporter

runVars == <<total, caseReports, suiteFailures, aborted>>
vars == <<runVars, stage, next, deliveryFailures, successfulReporters,
          correctionFailures, accepted, calls>>

\* The report that run() builds before delivery, and the corrected one; with
\* no correction failures the latter is the one that is delivered again.
FirstReport == BuildReport(total, caseReports, suiteFailures, aborted)
CorrectedReport ==
    BuildReport(total, caseReports, suiteFailures \o deliveryFailures, TRUE)

\* Mutation of Returned: the corrected report keeps the run's own outcome.
ReturnedUnflagged ==
    BuildReport(total, caseReports,
                suiteFailures \o deliveryFailures \o correctionFailures,
                aborted)

\* What run() resolves with.
Returned ==
    IF deliveryFailures = <<>> THEN FirstReport
    ELSE BuildReport(total, caseReports,
                     suiteFailures \o deliveryFailures \o correctionFailures,
                     TRUE)

\* A reporter keeps of a report what tells two deliveries apart.
Kept(report) == [outcome |-> report.outcome, failures |-> report.failures]

KeptReport == [outcome: {"passed", "failed", "aborted"},
               failures: Seq(FailureCategory)]

TypeOK ==
    /\ total \in Nat
    /\ caseReports \in Seq(CaseReport)
    /\ suiteFailures \in Seq(FailureCategory)
    /\ aborted \in BOOLEAN
    /\ stage \in {"delivering", "correcting", "returned"}
    /\ next \in Nat \ {0}
    /\ deliveryFailures \in Seq({"framework-defect"})
    /\ correctionFailures \in Seq({"framework-defect"})
    /\ successfulReporters \in Seq(Reporter)
    /\ accepted \in [Reporter -> Seq(KeptReport)]
    /\ calls \in [Reporter -> Nat]

DeliveryInit ==
    /\ stage = "delivering"
    /\ next = 1
    /\ deliveryFailures = <<>>
    /\ successfulReporters = <<>>
    /\ correctionFailures = <<>>
    /\ accepted = [r \in Reporter |-> <<>>]
    /\ calls = [r \in Reporter |-> 0]

Init ==
    /\ \E run \in Runs : /\ total = run.total
                         /\ caseReports = run.caseReports
                         /\ suiteFailures = run.suiteFailures
                         /\ aborted = run.aborted
    /\ DeliveryInit

\* One call of reporter r, which takes the report or throws.
Takes(r, report) ==
    /\ accepted' = [accepted EXCEPT ![r] = Append(@, Kept(report))]
    /\ calls' = [calls EXCEPT ![r] = @ + 1]

Throws(r) ==
    /\ calls' = [calls EXCEPT ![r] = @ + 1]
    /\ UNCHANGED accepted

ReporterTakes ==
    /\ stage = "delivering"
    /\ next <= NumReporters
    /\ Takes(next, FirstReport)
    /\ successfulReporters' = Append(successfulReporters, next)
    /\ next' = next + 1
    /\ UNCHANGED <<runVars, stage, deliveryFailures, correctionFailures>>

\* Mutation of ReporterThrows: the reporter is kept for the correction.
ReporterThrowsYetSuccessful ==
    /\ stage = "delivering"
    /\ next <= NumReporters
    /\ Throws(next)
    /\ deliveryFailures' = Append(deliveryFailures, "framework-defect")
    /\ successfulReporters' = Append(successfulReporters, next)
    /\ next' = next + 1
    /\ UNCHANGED <<runVars, stage, correctionFailures>>

ReporterThrows ==
    /\ stage = "delivering"
    /\ next <= NumReporters
    /\ Throws(next)
    /\ deliveryFailures' = Append(deliveryFailures, "framework-defect")
    /\ next' = next + 1
    /\ UNCHANGED <<runVars, stage, successfulReporters, correctionFailures>>

\* Mutation of EndDelivery: a failed delivery is returned uncorrected.
EndDeliveryUncorrected ==
    /\ stage = "delivering"
    /\ next > NumReporters
    /\ next' = 1
    /\ stage' = "returned"
    /\ UNCHANGED <<runVars, deliveryFailures, successfulReporters,
                   correctionFailures, accepted, calls>>

EndDelivery ==
    /\ stage = "delivering"
    /\ next > NumReporters
    /\ next' = 1
    /\ stage' = IF deliveryFailures = <<>> THEN "returned" ELSE "correcting"
    /\ UNCHANGED <<runVars, deliveryFailures, successfulReporters,
                   correctionFailures, accepted, calls>>

CorrectionTaken ==
    /\ stage = "correcting"
    /\ next <= Len(successfulReporters)
    /\ Takes(successfulReporters[next], CorrectedReport)
    /\ next' = next + 1
    /\ UNCHANGED <<runVars, stage, deliveryFailures, successfulReporters,
                   correctionFailures>>

\* Mutation of CorrectionThrows: the exception is swallowed.
CorrectionThrowsUnrecorded ==
    /\ stage = "correcting"
    /\ next <= Len(successfulReporters)
    /\ Throws(successfulReporters[next])
    /\ next' = next + 1
    /\ UNCHANGED <<runVars, stage, deliveryFailures, successfulReporters,
                   correctionFailures>>

\* Mutation of CorrectionThrows: the exception is not caught.
CorrectionThrowsUncaught ==
    /\ stage = "correcting"
    /\ next <= Len(successfulReporters)
    /\ Throws(successfulReporters[next])
    /\ stage' = "rejected"
    /\ UNCHANGED <<runVars, next, deliveryFailures, successfulReporters,
                   correctionFailures>>

CorrectionThrows ==
    /\ stage = "correcting"
    /\ next <= Len(successfulReporters)
    /\ Throws(successfulReporters[next])
    /\ correctionFailures' = Append(correctionFailures, "framework-defect")
    /\ next' = next + 1
    /\ UNCHANGED <<runVars, stage, deliveryFailures, successfulReporters>>

EndCorrection ==
    /\ stage = "correcting"
    /\ next > Len(successfulReporters)
    /\ stage' = "returned"
    /\ UNCHANGED <<runVars, next, deliveryFailures, successfulReporters,
                   correctionFailures, accepted, calls>>

Delivers ==
    \/ ReporterTakes \/ ReporterThrows \/ EndDelivery
    \/ CorrectionTaken \/ CorrectionThrows \/ EndCorrection

\* run() has returned.
Finished == stage = "returned" /\ UNCHANGED vars

Next == Delivers \/ Finished

Spec == Init /\ [][Next]_vars

-----------------------------------------------------------------------------
(* Correctness.                                                            *)

LastKept(r) == accepted[r][Len(accepted[r])]

\* The calls of r that threw.
Refusals(r) == calls[r] - Len(accepted[r])
Refused == {call \in Reporter \X (1..2) : call[2] <= Refusals(call[1])}

\* A run that returns passed or failed has been taken by every reporter, in
\* exactly one call, as what it returns.
AgreementUnlessAborted ==
    stage = "returned" /\ Returned.outcome # "aborted" =>
        \A r \in Reporter :
            accepted[r] = <<Kept(Returned)>> /\ calls[r] = 1

\* No reporter that never threw is left with an outcome the run did not
\* return: its last report has the returned outcome, and its failures are the
\* first of those returned (later refusals of the correction are missing).
NoStaleReporter ==
    stage = "returned" =>
        \A r \in Reporter : Refusals(r) = 0 =>
            /\ accepted[r] # <<>>
            /\ LastKept(r).outcome = Returned.outcome
            /\ \E n \in 0..Len(Returned.failures) :
                  LastKept(r).failures = SubSeq(Returned.failures, 1, n)

\* A reporter that threw is not called again, and none is called more than
\* twice: the correction goes only to reporters that took the first report.
NotCalledAfterRefusal ==
    [][\A r \in Reporter :
          /\ Refusals(r) > 0 => calls'[r] = calls[r]
          /\ calls'[r] <= 2]_vars

\* The returned failures are the suite's own, in order, and then one framework
\* defect for every call that threw.
RefusalsRecorded ==
    stage = "returned" =>
        LET own == Len(suiteFailures)
        IN  /\ SubSeq(Returned.failures, 1, own) = suiteFailures
            /\ Len(Returned.failures) = own + Cardinality(Refused)
            /\ \A r \in Reporter : calls[r] > 0

-----------------------------------------------------------------------------
(* How the calls of the reporters implement ReportAgreement.               *)

\* What a reporter knows that was called count times and took the reports.
Heard(count, reports) ==
    CASE count = 0 -> "nothing"
      [] count = 1 -> IF reports = <<>> THEN "refused" ELSE "first report"
      [] OTHER     -> IF Len(reports) = 2 THEN "correction"
                      ELSE "refused the correction"

toldReporter == [r \in Reporter |-> Heard(calls[r], accepted[r])]

Agreement == INSTANCE ReportAgreement WITH told <- toldReporter,
                                           settled <- stage = "returned"

\* The two loops of run() implement ReportAgreement: nobody who refused is
\* called again, the correction goes to each of the others and only after some
\* refusal, and run() returns with no one left to be told.
ReportersAgree == Agreement!Spec

-----------------------------------------------------------------------------
(* The inductive invariant: where the two loops stand, and what each       *)
(* reporter has been called with so far.                                   *)

\* The loop over the reporters has passed r.
Called(r) == stage = "delivering" => r < next

Successful == {successfulReporters[i] : i \in DOMAIN successfulReporters}

\* The loop over the successful reporters has passed r.
Corrected(r) ==
    /\ stage # "delivering"
    /\ \E i \in DOMAIN successfulReporters :
          i < next /\ successfulReporters[i] = r

LoopInv ==
    /\ stage = "delivering" =>
          next <= NumReporters + 1 /\ correctionFailures = <<>>
    /\ stage # "delivering" => next <= Len(successfulReporters) + 1
    /\ stage = "correcting" => deliveryFailures # <<>>
    /\ stage = "returned" =>
          IF deliveryFailures = <<>> THEN next = 1 /\ correctionFailures = <<>>
          ELSE next = Len(successfulReporters) + 1

SuccessfulInv ==
    /\ \A i, j \in DOMAIN successfulReporters :
          successfulReporters[i] = successfulReporters[j] => i = j
    /\ \A r \in Successful : Called(r)
    /\ deliveryFailures = <<>>
          => \A r \in Reporter : Called(r) => r \in Successful

LedgerInv ==
    \A r \in Reporter :
        /\ ~Called(r) => accepted[r] = <<>> /\ calls[r] = 0
        /\ Called(r) /\ r \notin Successful => accepted[r] = <<>> /\ calls[r] = 1
        /\ r \in Successful /\ ~Corrected(r) =>
              accepted[r] = <<Kept(FirstReport)>> /\ calls[r] = 1
        /\ r \in Successful /\ Corrected(r) =>
              /\ accepted[r] \in {<<Kept(FirstReport)>>,
                                  <<Kept(FirstReport), Kept(CorrectedReport)>>}
              /\ calls[r] = 2

IInv == TypeOK /\ LoopInv /\ SuccessfulInv /\ LedgerInv

\* A delivery that failed has failed with some reporter.
RefusalInv ==
    deliveryFailures # <<>> =>
        \E r \in Reporter : Called(r) /\ r \notin Successful

\* Every refusal is on record, in one of the two lists.
CountInv ==
    Len(deliveryFailures) + Len(correctionFailures) = Cardinality(Refused)
=============================================================================
