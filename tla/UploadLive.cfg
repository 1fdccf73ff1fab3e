SPECIFICATION FairTickers

CONSTANTS
    t1 = t1
    t2 = t2
    i1 = i1
    i2 = i2
    d1 = d1
    d2 = d2
    n1 = n1
    n2 = n2
    NoTask = NoTask
    Tasks = {t1, t2}
    Instances = {i1, i2}
    Disks = {d1, d2}
    DiskOf <- OwnDisks
    Names = {n1, n2}
    NameOf <- OwnNames
    MaxChunks = 2
    ChunksOf <- TwoAndOne
    Invalid = {}
    Sessions = {t1}
    Concurrency = 1
    Faults = {"timeout", "llm"}

PROPERTIES
    Completes
    ListSettles

CHECK_DEADLOCK FALSE
