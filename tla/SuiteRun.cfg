SPECIFICATION FairRunSpec
CONSTANTS
    NumCases = 2
    NumReporters = 2
    Postconditions <- MCPostconditions
    Anonymous <- MCAnonymous
    HasCatalog = TRUE
    MismatchLists <- MCMismatchLists
INVARIANTS
    PassedEndToEnd
    VerdictExplained
PROPERTIES
    ReportedOnceSettled
    FixturesReleased
    RunResolves
