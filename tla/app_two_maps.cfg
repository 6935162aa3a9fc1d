\* Two maps and everything that may go wrong, failing commits included.
\* Joins are bounded and a fault is the end, so the system may stop.
SPECIFICATION Spec
CONSTANTS
    park = park
    town = town
    t1 = t1
    t2 = t2
    t3 = t3
    t4 = t4
    Null = Null
    Tokens <- MCTokens
    Maps <- MCTwoMaps
    DbMayFail = TRUE
    MaxPlayers = 3
    MaxSessions = 2
CHECK_DEADLOCK FALSE
SYMMETRY TokenSymmetry
INVARIANTS
    TokenMapsAgree
    TokenLeadsToPlayer
    DogsCanBeSteered
    ListedSessionsHavePlayers
    FailuresHaveReasons
