SPECIFICATION Spec
CONSTANTS
    MaxFixtures = 2
    Connection = {c1}
INVARIANTS
    UsersOwned
