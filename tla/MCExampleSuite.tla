--------------------------- MODULE MCExampleSuite ---------------------------
EXTENDS ExampleSuite

\* The contract's actors all have a credential provider, and its cases no
\* postconditions.
MCPostconditions == [c \in Case |-> 0]
MCMismatchLists == {<<>>, <<"policy">>}
=============================================================================
