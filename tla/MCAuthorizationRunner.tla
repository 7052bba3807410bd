------------------------ MODULE MCAuthorizationRunner ------------------------
EXTENDS AuthorizationRunner

\* The first case is anonymous; the second has two postconditions.
MCPostconditions == [c \in Case |-> IF c = 2 THEN 2 ELSE 1]
MCPostconditionsSmall == [c \in Case |-> IF c = 2 THEN 1 ELSE 0]
MCAnonymous == {1} \cap Case
MCMismatchLists == {<<>>, <<"policy">>, <<"malformed-response">>}
MCMismatchListsSmall == {<<>>, <<"policy">>}
=============================================================================
