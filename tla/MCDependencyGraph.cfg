SPECIFICATION Spec
CONSTANTS
    a = a
    b = b
    c = c
    Ids <- MCIds
    Given <- MCGiven
INVARIANTS
    ChainIsComplete
    CycleMeansCycle
