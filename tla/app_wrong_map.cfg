\* A session ends and the index of the other map leads to whatever took its slot.
SPECIFICATION Spec
CONSTANTS
    park = park
    town = town
    t1 = t1
    t2 = t2
    t3 = t3
    t4 = t4
    Null = Null
    Tokens <- MCTokens
    Maps <- MCTwoMaps
    DbMayFail = FALSE
    MaxPlayers = 3
    MaxSessions = 2
CHECK_DEADLOCK FALSE
INVARIANTS
    JoinsTheChosenMap
