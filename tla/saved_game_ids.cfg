\* A restored dog keeps its id, but the session stores it under another key.
SPECIFICATION Spec
CONSTANTS
    t1 = t1
    t2 = t2
    t3 = t3
    t4 = t4
    Tokens <- MCTokens
    MaxNames = 3
    MaxLoot = 2
    MaxScore = 1
CHECK_DEADLOCK FALSE
SYMMETRY TokenSymmetry
INVARIANTS
    FoundUnderOwnId
