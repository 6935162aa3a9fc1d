\* Four threads share two connections.
SPECIFICATION FairSpec
CONSTANTS
    a = a
    b = b
    c = c
    d = d
    Null = Null
    Thread <- MCThreads
    Capacity = 2
INVARIANTS
    ExclusiveConnections
    SlotsMatchQueries
    NoLostWakeup
PROPERTIES
    SomebodyIsServed
    ImplementsResourcePool
