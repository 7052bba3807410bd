----------------------------- MODULE MCSuiteRun -----------------------------
EXTENDS SuiteRun

\* The second case has a postcondition.
MCPostconditions == [c \in Case |-> IF c = 2 THEN 1 ELSE 0]
MCAnonymous == {1} \cap Case
MCMismatchLists == {<<>>, <<"policy">>}
=============================================================================
