SPECIFICATION Spec
CONSTANT
    MCAsked = {"inventory", "coverage", "session", "body",
               "path", "echo", "report", "redaction"}
    Redact <- MCRedact
    Key = {"safe", "token"}
    SensitiveKey = {"token"}
    MaxDepth = 2
    PlainText = {"plain", "secret"}
    Left <- MCLeft
INVARIANTS
    InventoryComplete
    SelectionExact
    AcceptsCompleteCoverage
    SentAsMerged
    ContainsEveryPath
    ResolvedAsDeclared
    BodySurvivesEcho
    ArtifactCanonical
    RedactedForGood
