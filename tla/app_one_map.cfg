\* One map and a database that works: everybody who leaves loses the token.
\* Joins are bounded, so the system may stop.
SPECIFICATION FairSpec
CONSTANTS
    park = park
    town = town
    t1 = t1
    t2 = t2
    t3 = t3
    t4 = t4
    Null = Null
    Tokens <- MCTokens
    Maps <- MCOneMap
    DbMayFail = FALSE
    MaxPlayers = 3
    MaxSessions = 1
CHECK_DEADLOCK FALSE
PROPERTIES
    LeaversLoseTheirToken
