\* Three contexts, one property that the second refutes.
CONSTANTS
    c1 = c1
    c2 = c2
    c3 = c3
    Contexts <- MCContexts
    NoContext = NoContext
    Zombie = Zombie

SPECIFICATION Spec

INVARIANT
    ContextsIndependent
