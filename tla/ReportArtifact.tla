--------------------------- MODULE ReportArtifact ---------------------------
(***************************************************************************)
(* What the two reporters make of a report (reporters.ts): JsonReporter a  *)
(* canonical artifact, ConsoleReporter a summary and a line per failure.   *)
(*                                                                         *)
(* Texts are numbers in the order of compareStableText, and Redact gives   *)
(* the text that redactText makes of one.  A case is its id, its outcome   *)
(* and its failures; the other fields are copied or redacted likewise.     *)
(***************************************************************************)
EXTENDS Naturals, Sequences, AscendingOrder

CONSTANT Redact(_)

Failure(category, message) == [category |-> category, message |-> message]

\* compareCases
CaseBefore(left, right) == left.id < right.id

\* Mutation of FailureBefore: failures are ordered by category alone.
FailureBeforeByCategory(left, right) == left.category < right.category

\* The comparison of sortedFailures.
FailureBefore(left, right) ==
    \/ left.category < right.category
    \/ left.category = right.category /\ left.message < right.message

SortedCases(cases) ==
    LET positions == DOMAIN cases
        before == {pair \in positions \X positions :
                      CaseBefore(cases[pair[1]], cases[pair[2]])}
        order == StableOrder(Len(cases), before)
    IN  [n \in positions |-> cases[order[n]]]

SortedFailures(failures) ==
    LET positions == DOMAIN failures
        before == {pair \in positions \X positions :
                      FailureBefore(failures[pair[1]], failures[pair[2]])}
        order == StableOrder(Len(failures), before)
    IN  [n \in positions |-> failures[order[n]]]

RedactedFailures(failures) ==
    LET sorted == SortedFailures(failures) IN
    [i \in DOMAIN sorted |->
        Failure(sorted[i].category, Redact(sorted[i].message))]

\* canonicalize
Canonicalize(report) ==
    LET cases == SortedCases(report.cases) IN
    [outcome |-> report.outcome,
     summary |-> report.summary,
     cases |-> [i \in DOMAIN cases |->
                   [id |-> Redact(cases[i].id),
                    outcome |-> cases[i].outcome,
                    failures |-> RedactedFailures(cases[i].failures)]],
     failures |-> RedactedFailures(report.failures)]

\* The positions of the cases that did not pass.
NotPassed(cases) == {i \in DOMAIN cases : cases[i].outcome # "passed"}

\* What ConsoleReporter writes: the status and the counts, the failed cases
\* in order, their failures as they come, and the failures of the suite.
ConsoleLines(report) ==
    LET sorted == SortedCases(report.cases)
        failed == ElementsAt(sorted, NotPassed(sorted))
    IN  [status |-> IF report.outcome = "passed" THEN "PASS" ELSE "FAIL",
         summary |-> report.summary,
         cases |-> [i \in DOMAIN failed |->
                       [id |-> Redact(failed[i].id),
                        failures |-> [j \in DOMAIN failed[i].failures |->
                            Failure(failed[i].failures[j].category,
                                    Redact(failed[i].failures[j].message))]]],
         failures |-> RedactedFailures(report.failures)]
=============================================================================
