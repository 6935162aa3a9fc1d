\* Maps of up to three roads; a tick carries a dog 0.3 or 0.7 of a coordinate.
SPECIFICATION Spec
CONSTANTS
    Maps <- MCMaps
    Unit = 10
    HalfWidth = 4
    Ways <- MCWays
INVARIANTS
    IndexFindsTheRoads
    NeverStranded
    StaysBesideRoads
PROPERTIES
    MovesAhead
