\* Two keys of one player, through ticks and a retirement.  The end of the process, or of
\* the game, is the end of it.
SPECIFICATION FairSpec
CONSTANTS
    left = left
    right = right
    Key <- MCKey
    Stop = stop
    Garbage = garbage
    None = none
    RetireAfter = 2
    MaxPresses = 4
    MaxPosts = 2
CHECK_DEADLOCK FALSE
INVARIANTS
    MovesDoNoHarm
    KeysSteer
PROPERTIES
    IdlersSeeTheRecords
