SPECIFICATION Spec
CONSTANTS
    NumReporters = 3
    Runs <- MCRuns
INVARIANTS
    AgreementUnlessAborted
    NoStaleReporter
    RefusalsRecorded
PROPERTIES
    ReportersAgree
