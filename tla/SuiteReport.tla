---------------------------- MODULE SuiteReport ----------------------------
(***************************************************************************)
(* The report of a suite, as runner.ts defines and builds it.  A case is   *)
(* its position in the expanded suite, a failure is its category, and the  *)
(* redacted texts a failure carries are left out.                          *)
(***************************************************************************)
EXTENDS Naturals, Sequences, FiniteSets

MismatchKind == {"policy", "malformed-response"}

FailureCategory ==
    {"policy-mismatch", "malformed-response", "transport-failure",
     "fixture-failure", "framework-defect"}

\* What a case report says was observed in place of a response.
Observation == {"response", "transport failure", "framework defect"}

CaseReport ==
    [case: Nat, actual: Observation, failures: Seq(FailureCategory)]

\* Mutation of CategoryOf: the kind of the mismatch is taken as the category.
KindAsCategory(kind) == kind

\* The failure recorded for a mismatch that a case's checks returned.
CategoryOf(kind) ==
    IF kind = "policy" THEN "policy-mismatch" ELSE "malformed-response"

FailuresOf(mismatches) ==
    [i \in DOMAIN mismatches |-> CategoryOf(mismatches[i])]

\* A case passes when no failure is recorded for it.
Outcome(caseReport) ==
    IF caseReport.failures = <<>> THEN "passed" ELSE "failed"

Failed(cases) == {i \in DOMAIN cases : Outcome(cases[i]) = "failed"}

BuildReport(total, cases, failures, aborted) ==
    LET failed == Cardinality(Failed(cases)) IN
    [outcome |-> IF aborted THEN "aborted"
                 ELSE IF failed > 0 \/ failures # <<>> THEN "failed"
                 ELSE "passed",
     summary |-> [total   |-> total,
                  passed  |-> Len(cases) - failed,
                  failed  |-> failed,
                  skipped |-> total - Len(cases)],
     cases |-> cases,
     failures |-> failures]
=============================================================================
