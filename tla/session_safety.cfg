\* Two dogs, three objects, bags for two; ticks of half a second and a second.
SPECIFICATION Spec
CONSTANTS
    office = office
    BagCapacity = 2
    MaxInactive = 1
    MsPerSecond = 2
    Deltas <- MCDeltas
    Offices <- MCOffices
    DbMayFail = TRUE
    MaxDogs = 2
    MaxLoot = 3
    MaxLive = 4
INVARIANTS
    GatheredIsOffMap
    NoOverstay
    PlayTimeCoversIdleTime
    OneRecordPerDog
PROPERTIES
    WorthOnlyGrows
    LootMovesIntoBags
