SPECIFICATION Spec
CONSTANTS
    MaxFixtures = 2
    Connection = {c1, c2}
INVARIANTS
    OrphansOnlyFromOverlap
    UsersConfined
SYMMETRY
    MCSymmetry
PROPERTIES
    CredentialsExpire
    OrphansUnreadable
