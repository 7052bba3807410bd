SPECIFICATION Spec
CONSTANTS
    NumCases = 2
    Postconditions <- MCPostconditions
    Anonymous <- MCAnonymous
    HasCatalog = TRUE
    MismatchLists <- MCMismatchLists
INVARIANTS
    TypeOK
    FixtureOwnership
    AbortedIffDefect
    RunAccounting
    PassedMeansChecked
PROPERTIES
    NothingStartsAfterAbort
    Isolated
