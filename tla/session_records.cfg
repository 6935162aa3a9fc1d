\* The database never fails: every record must arrive.
SPECIFICATION FairSpec
CONSTANTS
    office = office
    BagCapacity = 1
    MaxInactive = 1
    MsPerSecond = 2
    Deltas <- MCShortTicks
    Offices <- MCOffices
    DbMayFail = FALSE
    MaxDogs = 2
    MaxLoot = 1
    MaxLive = 3
INVARIANTS
    NobodyLeavesUnrecorded
PROPERTIES
    IdleDogsAreRecorded
    ImplementsLifecycle
