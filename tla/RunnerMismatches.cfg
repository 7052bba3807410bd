SPECIFICATION Spec
CONSTANTS
    NumCases = 2
    Postconditions <- MCPostconditionsSmall
    Anonymous <- MCAnonymous
    HasCatalog = FALSE
    MismatchLists <- MCMismatchListsSmall
INVARIANTS
    MismatchesReported
