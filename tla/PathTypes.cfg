SPECIFICATION Spec
CONSTANT
    MCAsked = {"path"}
    Redact <- MCRedact
    Key = {"safe", "token"}
    SensitiveKey = {"token"}
    MaxDepth = 0
    PlainText = {"plain", "secret"}
    Left <- MCLeft
INVARIANT
    TypedRequestsBuild
