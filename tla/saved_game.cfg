\* Three dogs, two lost objects; a beginning of a file stops the server for good.
SPECIFICATION Spec
CONSTANTS
    t1 = t1
    t2 = t2
    t3 = t3
    t4 = t4
    Tokens <- MCTokens
    MaxNames = 3
    MaxLoot = 2
    MaxScore = 1
CHECK_DEADLOCK FALSE
SYMMETRY TokenSymmetry
INVARIANTS
    FreshIds
    RecordedHaveLeft
PROPERTIES
    TokensComeBack
