-------------------------- MODULE MCReportDelivery --------------------------
EXTENDS ReportDelivery

MCPassed == [case |-> 1, actual |-> "response", failures |-> <<>>]
MCFailed == [case |-> 1, actual |-> "response",
             failures |-> <<"policy-mismatch">>]
MCDefect == [case |-> 1, actual |-> "framework defect",
             failures |-> <<"framework-defect">>]

\* One run of each outcome, and an abort with and without suite failures.
MCRuns ==
    {[total |-> 1, caseReports |-> <<report>>, suiteFailures |-> <<>>,
      aborted |-> report = MCDefect] :
        report \in {MCPassed, MCFailed, MCDefect}}
    \cup {[total |-> 1, caseReports |-> reports,
           suiteFailures |-> <<"fixture-failure">>, aborted |-> TRUE] :
        reports \in {<<>>, <<MCPassed>>}}
    \cup {[total |-> 0, caseReports |-> <<>>,
           suiteFailures |-> <<"framework-defect">>, aborted |-> TRUE]}
=============================================================================
