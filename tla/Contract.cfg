SPECIFICATION Spec
CONSTANTS
    Name = {"user", "admin"}
    Factory = {f1, f2}
    Description = {"listing", "reading"}
    CaseOperation <- MCCaseOperation
    ExplicitId <- MCExplicitId
    Inventory <- MCInventory
    Selection <- MCSelection
    Expectation = {"status", "code"}
    CodedExpectation = {"code"}
    HasErrorEnvelope = FALSE
    GeneratedId <- MCGeneratedId
    MaxDeclarations = 2
    MaxBuilds = 1
INVARIANTS
    ExactlyOneExpectation
    BuiltAsDeclared
    BuiltInOrder
PROPERTIES
    CollisionsAreFinal
CHECK_DEADLOCK FALSE
