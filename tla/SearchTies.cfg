SPECIFICATION Spec

CONSTANTS
    i1 = i1
    i2 = i2
    i3 = i3
    i4 = i4
    Ids = {i1, i2, i3}
    MaxRank = 3
    Nearest <- SomeNear
    Matches <- SomeMatches
    Pinnings <- OnePinned
    Limit = 1
    MaxWrites = 0
INVARIANTS
    QuietListIsWhole

CHECK_DEADLOCK FALSE
