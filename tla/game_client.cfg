\* The page of player 1, and player 2, who may have come before, and an object.
\* The game comes to rest, and a page that shows the records is the end of it.
SPECIFICATION FairSpec
CONSTANTS
    Player <- MCPlayers
    playerId = 1
    Loot = {7}
    MaxStates = 2
    MaxLists = 1
    MaxEvents = 4
CHECK_DEADLOCK FALSE
INVARIANTS
    HasOnePlace
    NoGhosts
    CarriedLootIsVisible
PROPERTIES
    PageShowsTheGame
