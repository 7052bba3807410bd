SPECIFICATION Spec
CONSTANTS
    MCAsked = {"coverage"}
    Redact <- MCRedact
    Key = {"safe", "token"}
    SensitiveKey = {"token"}
    MaxDepth = 0
    PlainText = {"plain", "secret"}
    Left <- MCLeft
INVARIANTS
    CasesAreCurrent
