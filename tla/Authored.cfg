SPECIFICATION AuthoredSpec
CONSTANTS
    NumCases = 2
    Postconditions <- MCPostconditions
    Anonymous = {}
    HasCatalog = FALSE
    MismatchLists <- MCMismatchLists
    Authored <- MCAuthored
    FixtureValue <- MCFixtureValue
    Wire <- MCWire
    Undefined = "undefined"
    DeepSubset <- MCDeepSubset
    CodeOf <- MCCodeOf
INVARIANTS
    VerdictFollowsResponse
    TargetCannotAbort
