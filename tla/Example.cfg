SPECIFICATION SuiteRunSpec
CONSTANTS
    NumCases = 10
    Postconditions <- MCPostconditions
    Anonymous = {}
    HasCatalog = FALSE
    MismatchLists <- MCMismatchLists
    MaxLosses = 3
INVARIANTS
    OneFixtureAtATime
    HeldIsLive
    NoFalseMismatch
    PassedLeavesNothing
    LeaksReported
