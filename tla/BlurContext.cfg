\* Three contexts, one of which can come between the others.
CONSTANTS
    c1 = c1
    c2 = c2
    c3 = c3
    Contexts <- MCContexts
    NoContext = NoContext
    Zombie = Zombie

SPECIFICATION Spec

INVARIANTS
    TypeOK
    Unwound
    NothingLeft
    AloneIntact
