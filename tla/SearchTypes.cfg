SPECIFICATION Spec

CONSTANTS
    i1 = i1
    i2 = i2
    i3 = i3
    i4 = i4
    Ids = {i1, i2, i3}
    MaxRank = 3
    Nearest <- SomeNear
    Matches <- SomeMatches
    Pinnings <- SomePinned
    Limit = 1
    MaxWrites = 1
INVARIANTS
    TypeOK

CHECK_DEADLOCK FALSE
